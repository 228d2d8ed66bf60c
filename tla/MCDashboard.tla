---------------------------- MODULE MCDashboard ----------------------------
(* Instances of Dashboard for TLC: the clicks of one user. *)
EXTENDS Dashboard

CONSTANT Clicks

Requests == 1..Clicks
=============================================================================
