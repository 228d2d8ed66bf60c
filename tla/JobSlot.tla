------------------------------- MODULE JobSlot -------------------------------
(***************************************************************************)
(* What scripts/run_server.py promises: a slot for one job.  A job takes   *)
(* the slot when it is free, holds it alone, gives it back and is never    *)
(* seen again.                                                             *)
(***************************************************************************)
EXTENDS Naturals

CONSTANTS
  Jobs,   \* the jobs, 1, 2, ... in the order in which they take the slot
  NoRun   \* nobody holds the slot

VARIABLES
  holder,   \* the job in the slot, or NoRun
  served    \* the jobs that have given it back

slotVars == <<holder, served>>

SlotInit == holder = NoRun /\ served = {}

Take(j) ==
  /\ holder = NoRun /\ served = {i \in Jobs : i < j}
  /\ holder' = j
  /\ UNCHANGED served

Release(j) ==
  /\ holder = j
  /\ holder' = NoRun
  /\ served' = served \cup {j}

SlotNext == \E j \in Jobs : Take(j) \/ Release(j)

SlotSpec == SlotInit /\ [][SlotNext]_slotVars
=============================================================================
