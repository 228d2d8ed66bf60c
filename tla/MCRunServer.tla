----------------------------- MODULE MCRunServer -----------------------------
(* Instances of RunServer for TLC. *)
EXTENDS RunServer, TLC

CONSTANTS r1, r2, r3
=============================================================================
