----------------------------- MODULE MCXvSched -----------------------------
(***************************************************************************)
(* Model checking the schedulers: a configuration for each policy, and the *)
(* fairness of the liveness properties.                                    *)
(***************************************************************************)
EXTENDS XvSched

-----------------------------------------------------------------------------
(* Configurations *)

Quanta(a, b, c) == [i \in 1..MLFQ_MAX_QUEUES |-> CASE i = 1 -> a [] i = 2 -> b [] OTHER -> c]

Boot(mode) ==
  [sched_mode |-> mode, rr_quantum |-> 2, aging |-> 2, queues |-> 3,
   quantum |-> Quanta(1, 2, 2), boost_interval |-> 2,
   alpha |-> 50, initial |-> 2, min |-> 1, max |-> 2]

PerMode(modes) == {Boot(m) : m \in modes}

BootSlicing == PerMode(AllModes)
BootCalling == {[Boot("RR") EXCEPT !.max = 4]}
BootPriority == PerMode({"PRIORITY"})

\* Accepted and rejected arguments of the configuration calls.
Shrunk == [queues |-> 2, quantum |-> Quanta(2, 1, 1)]
Refused == [queues |-> 1, quantum |-> Quanta(1, 1, 1)]
Sharper == [alpha |-> 100, initial |-> 9, min |-> 2, max |-> 2]
Crossed == [alpha |-> 50, initial |-> 1, min |-> 3, max |-> 2]
McMlfq == {Shrunk, Refused}
McPred == {Sharper, Crossed}

-----------------------------------------------------------------------------
(* Properties *)

\* The scheduler loop never stops, and the timer keeps interrupting whatever runs.
SchedFairness ==
  /\ WF_vars(RRPassEnds \/ \E p \in Slot : DispatchRR(p) \/ RRSkip(p) \/ DispatchBest(p))
  /\ \A p \in Slot : WF_vars(SClock(p))

FairSchedSpec == SchedSpec /\ SchedFairness

\* tools/intent_advisor.py:31 maps "strict importance levels but no permanent
\* starvation" to PRIORITY (with aging).
NoPermanentStarvation == \A s \in Slot : state[s] = "RUNNABLE" ~> state[s] = "RUNNING"
=============================================================================
