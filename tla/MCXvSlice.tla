------------------------------ MODULE MCXvSlice ------------------------------
(***************************************************************************)
(* Model checking the slices and the waiting: the configurations of        *)
(* MCXvSched under the history variables of XvSlice.                       *)
(***************************************************************************)
EXTENDS XvSlice, MCXvSched
=============================================================================
