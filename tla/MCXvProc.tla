------------------------------ MODULE MCXvProc ------------------------------
(***************************************************************************)
(* Model checking the process table: the fairness under which a killed     *)
(* process dies.                                                           *)
(***************************************************************************)
EXTENDS XvProc

\* A running process gets on with the kernel code it is in.
Progress(p) ==
  \/ ForkLink(p) \/ ForkReady(p) \/ ExitFinish(p) \/ ExitPanic(p)
  \/ IoDone(p) \/ PauseDone(p) \/ CallDone(p)
  \/ pc[p] = "wait" /\ (WaitReap(p) \/ WaitFail(p))

\* Round robin, the policy the kernel boots with: the timer keeps ticking and
\* takes the hart away, every runnable process gets it back, kernel code is not
\* interrupted for ever, and I/O completes.
Fairness ==
  /\ \A p \in Slot : /\ SF_procVars(Dispatch(p)) /\ SF_procVars(Progress(p))
                     /\ WF_procVars(ClockRun(p)) /\ WF_procVars(ClockYield(p))
  /\ \A c \in IOChans : WF_procVars(Wakeup(c))
  /\ WF_procVars(ClockIdle)

FairSpec == ProcSpec /\ Fairness

\* A killed process dies, wherever the kill found it (running, preempted inside
\* the kernel, pausing, waiting for a child or for I/O).
KilledDies ==
  \A s \in Slot :
    (state[s] \in Live /\ killed[s]) ~> (panicked \/ state[s] \notin Live)
=============================================================================
