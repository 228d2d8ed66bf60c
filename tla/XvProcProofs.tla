---------------------------- MODULE XvProcProofs ----------------------------
(***************************************************************************)
(* Proofs about the process table: type correctness, the invariants that   *)
(* no child, exit, kill or pid is lost, and that the table implements      *)
(* ProcLife, for every table size and whatever programs run.               *)
(***************************************************************************)
EXTENDS XvProc, TLAPS, WellFoundedInduction

\* A table scan finds the lowest slot of any non-empty set of slots.
LEMMA LowestIsIn ==
  ASSUME NEW S \in SUBSET Slot, S # {}
  PROVE  Lowest(S) \in S /\ \A t \in S : Lowest(S) <= t
<1>1. PICK s \in S : \A t \in S : ~(<<t, s>> \in OpToRel(<, Nat))
  <2>1. S \subseteq Nat  BY DEF Slot
  <2> QED  BY <2>1, WFMin, NatLessThanWellFounded
<1>2. \A t \in S : s <= t
  <2> SUFFICES ASSUME NEW t \in S PROVE s <= t
    OBVIOUS
  <2>1. s \in Nat /\ t \in Nat  BY DEF Slot
  <2>2. ~(t < s)  BY <2>1, <1>1 DEF OpToRel
  <2> QED  BY <2>1, <2>2
<1> QED  BY <1>1, <1>2 DEF Lowest

LEMMA InitIsSlot == InitProc \in Slot /\ None \notin Slot
BY NprocAssumption DEF InitProc, Slot, None

\* wakeup changes SLEEPING to RUNNABLE and nothing else.
LEMMA WakeAllType ==
  ASSUME state \in [Slot -> ProcState], NEW W \in SUBSET Slot
  PROVE  WakeAll(W) \in [Slot -> ProcState]
BY DEF WakeAll, ProcState

LEMMA ResumedType ==
  ASSUME pc \in [Slot -> ControlPoint], NEW p, NEW k
  PROVE  Resumed(p, k) \in [Slot -> ControlPoint]
BY DEF Resumed, ControlPoint

-----------------------------------------------------------------------------
(* Type correctness *)

\* The boot state is in its type.
LEMMA InitType == Init => TypeOK
<1> SUFFICES ASSUME Init PROVE TypeOK
  OBVIOUS
<1>1. killed \in [Slot -> BOOLEAN] /\ panicked \in BOOLEAN
  BY Zenon DEF Init
<1>2. state \in [Slot -> ProcState] /\ pid \in [Slot -> Nat] /\ nextpid \in Nat
  BY SMT DEF Init, ProcState
<1>3. pc \in [Slot -> ControlPoint]
  BY SMT DEF Init, ControlPoint
<1>4. /\ chan \in [Slot -> Chan \cup {NoChan}] /\ parent \in [Slot -> Slot \cup {None}]
      /\ child \in [Slot -> Slot \cup {None}] /\ cpu \in Slot \cup {None}
  BY Zenon DEF Init
<1> QED  BY <1>1, <1>2, <1>3, <1>4 DEF TypeOK

\* So is the state after any step.
LEMMA TypeStep == TypeOK /\ [Next]_procVars => TypeOK'
<1> SUFFICES ASSUME TypeOK, [Next]_procVars PROVE TypeOK'
  OBVIOUS
<1> USE InitIsSlot
<1>1. ASSUME NEW p \in Slot, NEW np \in Slot, ForkAlloc(p, np) PROVE TypeOK'
  <2>1. state' \in [Slot -> ProcState] /\ pid' \in [Slot -> Nat]
    BY <1>1 DEF ForkAlloc, TypeOK, ProcState
  <2>2. pc' \in [Slot -> ControlPoint] /\ child' \in [Slot -> Slot \cup {None}]
    BY <1>1 DEF ForkAlloc, TypeOK, ControlPoint
  <2> QED  BY <1>1, <2>1, <2>2 DEF ForkAlloc, AllocPid, TypeOK
<1>2. ASSUME NEW p \in Slot, NEW np \in Slot, ForkFail(p, np) PROVE TypeOK'
  <2>1. killed' \in [Slot -> BOOLEAN]
    BY <1>2, Zenon DEF ForkFail, TypeOK
  <2> QED  BY <1>2, <2>1 DEF ForkFail, AllocPid, TypeOK
<1>3. ASSUME NEW p \in Slot, ForkLink(p) PROVE TypeOK'
  BY <1>3 DEF ForkLink, TypeOK, ControlPoint
<1>4. ASSUME NEW p \in Slot, ForkReady(p) PROVE TypeOK'
  BY <1>4, ResumedType DEF ForkReady, TypeOK, ProcState
<1>5. ASSUME NEW p \in Slot, ExitBegin(p) \/ Fault(p) \/ ExitPanic(p) \/ CallBegin(p)
      PROVE  TypeOK'
  BY <1>5 DEF ExitBegin, Fault, ExitPanic, CallBegin, TypeOK, ControlPoint
<1>6. ASSUME NEW p \in Slot, ExitFinish(p) PROVE TypeOK'
  <2>1. ExitWakes(p) \in SUBSET Slot
    BY DEF ExitWakes, Woken
  <2> QED  BY <1>6, <2>1, WakeAllType DEF ExitFinish, Reparented, TypeOK, ProcState
<1>7. ASSUME NEW p \in Slot, WaitReap(p) PROVE TypeOK'
  <2>1. Lowest(Zombies(p)) \in Slot
    BY <1>7, LowestIsIn DEF WaitReap, Zombies, Children
  <2> QED  BY <1>7, <2>1, ResumedType
           DEF WaitReap, Reap, TypeOK, ProcState, ControlPoint, NoChan, Resumed
<1>8. ASSUME NEW p \in Slot, WaitFail(p) \/ PauseDone(p) \/ IoDone(p) \/ CallDone(p)
      PROVE  TypeOK'
  BY <1>8, ResumedType DEF WaitFail, PauseDone, IoDone, CallDone, TypeOK
<1>9. ASSUME NEW p \in Slot,
             WaitSleep(p) \/ PauseSleep(p) \/ \E c \in IOChans : IoSleep(p, c)
      PROVE  TypeOK'
  BY <1>9 DEF WaitSleep, PauseSleep, IoSleep, SleepOn, TypeOK, ProcState, ControlPoint, Chan
<1>10. ASSUME NEW p \in Slot, ClockRun(p) PROVE TypeOK'
  BY <1>10, WakeAllType, ResumedType DEF ClockRun, AfterClock, TypeOK, Woken
<1>11. ASSUME NEW p \in Slot, ClockYield(p) PROVE TypeOK'
  BY <1>11, WakeAllType DEF ClockYield, TypeOK, Woken, ProcState
<1>12. ASSUME NEW p \in Slot, Dispatch(p) PROVE TypeOK'
  BY <1>12 DEF Dispatch, TypeOK, ProcState, NoChan
<1>13. ASSUME NEW p \in Slot, NEW k \in KillPids, Kill(p, k) PROVE TypeOK'
  BY <1>13, ResumedType DEF Kill, Unblocked, TypeOK, ProcState
<1>14. ASSUME NEW c, Wakeup(c) PROVE TypeOK'
  BY <1>14, WakeAllType DEF Wakeup, TypeOK, Woken
<1>15. CASE ClockIdle
  BY <1>15, WakeAllType DEF ClockIdle, TypeOK, Woken
<1>16. CASE Spin \/ UNCHANGED procVars
  BY <1>16 DEF Spin, TypeOK, procVars
<1> QED  BY <1>1, <1>2, <1>3, <1>4, <1>5, <1>6, <1>7, <1>8, <1>9, <1>10,
            <1>11, <1>12, <1>13, <1>14, <1>15, <1>16 DEF Next

\* No action of the process table takes a variable out of its type.
THEOREM TypeCorrect == ProcSpec => []TypeOK
<1> QED  BY InitType, TypeStep, PTL DEF ProcSpec

-----------------------------------------------------------------------------
(* The invariant *)

\* The invariants need each other, and Shape, to be inductive: that no parent's slot
\* is freed under a child rests on reparenting (ParentCanWait) and on forks that
\* keep their parent awake (OneForker); that no exit is lost rests on who the
\* parent is.  Every step keeps them all; one lemma for each action, with one step
\* for each conjunct.

\* init starts alone.
LEMMA ProcInvInit == Init => ProcInv
<1> SUFFICES ASSUME Init PROVE ProcInv
  OBVIOUS
<1>1. TypeOK
  BY InitType
<1> QED  BY <1>1, InitIsSlot DEF Init, ProcInv, Shape, RunnerAgrees, ParentCanWait,
           OneForker, NoLostExit, NoLostKill, PidsUnique, Live, Children, Zombies,
           None, NoChan

\* The new slot is USED, has no parent yet and is child[p] alone.
LEMMA ForkAllocKeeps ==
  ASSUME ProcInv, TypeOK', NEW p \in Slot, NEW np \in Slot, ForkAlloc(p, np)
  PROVE  ProcInv'
<1>0. np \in Unused
  BY DEF ForkAlloc
<1>1. Shape'
  BY <1>0 DEF ForkAlloc, AllocPid, Asks, AtSyscall, Unused, TypeOK,
     ProcInv, Shape, Live
<1>2. RunnerAgrees'
  BY <1>0 DEF ForkAlloc, Unused, ProcInv, RunnerAgrees
<1>3. ParentCanWait'
  BY <1>0 DEF ForkAlloc, Unused, ProcInv, ParentCanWait, Live
<1>4. OneForker'
  <2>1. state[np] = "UNUSED"
    BY <1>0 DEF Unused
  <2>2. /\ pc[p] = "user" /\ state[p] = "RUNNING" /\ np # p /\ np # None
        /\ state' = [state EXCEPT ![np] = "USED"]
        /\ child' = [child EXCEPT ![p] = np]
        /\ pc' = [pc EXCEPT ![p] = "fork1", ![np] = "user"]
        /\ UNCHANGED parent
    BY <2>1, InitIsSlot DEF ForkAlloc, Asks, AtSyscall, Running
  <2>3. parent[np] = None /\ child[p] = None /\ pc[np] \notin {"fork1", "fork2"}
    BY <2>1, <2>2 DEF ProcInv, Shape, OneForker
  <2>4. \A q \in Slot : child[q] # np
    BY <2>1, <2>2 DEF ProcInv, OneForker
  <2> QED  BY <2>1, <2>2, <2>3, <2>4 DEF ProcInv, TypeOK, OneForker
<1>5. NoLostExit'
  BY <1>0 DEF ForkAlloc, TypeOK, ProcInv, NoLostExit, Children, Zombies
<1>6. NoLostKill'
  BY <1>0 DEF ForkAlloc, Asks, AtSyscall, TypeOK, ProcInv, NoLostKill
<1>7. PidsUnique'
  BY <1>0 DEF ForkAlloc, AllocPid, TypeOK, ProcInv, PidsUnique, Shape
<1> QED  BY <1>1, <1>2, <1>3, <1>4, <1>5, <1>6, <1>7 DEF ProcInv

\* Only the pid is spent.
LEMMA ForkFailKeeps ==
  ASSUME ProcInv, TypeOK', NEW p \in Slot, NEW np \in Slot, ForkFail(p, np)
  PROVE  ProcInv'
<1>0. np \in Unused
  BY DEF ForkFail
<1>1. Shape'
  BY <1>0 DEF ForkFail, AllocPid, TypeOK, ProcInv, Shape
<1>2. RunnerAgrees'
  BY <1>0 DEF ForkFail, ProcInv, RunnerAgrees
<1>3. ParentCanWait'
  BY <1>0 DEF ForkFail, ProcInv, ParentCanWait
<1>4. OneForker'
  BY <1>0 DEF ForkFail, ProcInv, OneForker
<1>5. NoLostExit'
  BY <1>0 DEF ForkFail, ProcInv, NoLostExit, Children, Zombies
<1>6. NoLostKill'
  BY <1>0 DEF ForkFail, ProcInv, NoLostKill
<1>7. PidsUnique'
  BY <1>0 DEF ForkFail, AllocPid, TypeOK, ProcInv, PidsUnique
<1> QED  BY <1>1, <1>2, <1>3, <1>4, <1>5, <1>6, <1>7 DEF ProcInv

\* The child gets its parent before it can run.
LEMMA ForkLinkKeeps ==
  ASSUME ProcInv, TypeOK', NEW p \in Slot, ForkLink(p)
  PROVE  ProcInv'
<1>1. Shape'
  BY DEF ForkLink, ProcInv, Shape, Live, OneForker
<1>2. RunnerAgrees'
  BY DEF ForkLink, ProcInv, RunnerAgrees
<1>3. ParentCanWait'
  BY InitIsSlot DEF ForkLink, Running, ProcInv, ParentCanWait, Live
<1>4. OneForker'
  BY DEF ForkLink, TypeOK, ProcInv, OneForker
<1>5. NoLostExit'
  BY InitIsSlot DEF ForkLink, ProcInv, NoLostExit, Children, Zombies,
     OneForker
<1>6. NoLostKill'
  BY DEF ForkLink, ProcInv, NoLostKill
<1>7. PidsUnique'
  BY DEF ForkLink, ProcInv, PidsUnique
<1> QED  BY <1>1, <1>2, <1>3, <1>4, <1>5, <1>6, <1>7 DEF ProcInv

\* The child stops being USED as the fork lets go of it.
LEMMA ForkReadyKeeps ==
  ASSUME ProcInv, TypeOK', NEW p \in Slot, ForkReady(p)
  PROVE  ProcInv'
<1>1. Shape'
  BY DEF ForkReady, Resumed, ProcInv, Shape, Live
<1>2. RunnerAgrees'
  BY DEF ForkReady, ProcInv, RunnerAgrees, OneForker
<1>3. ParentCanWait'
  BY InitIsSlot DEF ForkReady, ProcInv, ParentCanWait, Live, OneForker
<1>4. OneForker'
  BY DEF ForkReady, Resumed, TypeOK, ProcInv, OneForker
<1>5. NoLostExit'
  BY DEF ForkReady, Resumed, ProcInv, NoLostExit, Children, Zombies
<1>6. NoLostKill'
  BY DEF ForkReady, Resumed, ProcInv, NoLostKill
<1>7. PidsUnique'
  BY DEF ForkReady, ProcInv, PidsUnique, OneForker
<1> QED  BY <1>1, <1>2, <1>3, <1>4, <1>5, <1>6, <1>7 DEF ProcInv

\* An exit begins.
LEMMA ExitBeginKeeps ==
  ASSUME ProcInv, TypeOK', NEW p \in Slot, ExitBegin(p)
  PROVE  ProcInv'
<1>1. Shape'
  BY DEF ExitBegin, ProcInv, Shape
<1>2. RunnerAgrees'
  BY DEF ExitBegin, ProcInv, RunnerAgrees
<1>3. ParentCanWait'
  BY DEF ExitBegin, ProcInv, ParentCanWait
<1>4. OneForker'
  BY DEF ExitBegin, ProcInv, OneForker
<1>5. NoLostExit'
  BY DEF ExitBegin, ProcInv, NoLostExit, Children, Zombies
<1>6. NoLostKill'
  BY DEF ExitBegin, ProcInv, NoLostKill
<1>7. PidsUnique'
  BY DEF ExitBegin, ProcInv, PidsUnique
<1> QED  BY <1>1, <1>2, <1>3, <1>4, <1>5, <1>6, <1>7 DEF ProcInv

\* So does one after a fault.
LEMMA FaultKeeps ==
  ASSUME ProcInv, TypeOK', NEW p \in Slot, Fault(p)
  PROVE  ProcInv'
<1>1. Shape'
  BY DEF Fault, ProcInv, Shape
<1>2. RunnerAgrees'
  BY DEF Fault, ProcInv, RunnerAgrees
<1>3. ParentCanWait'
  BY DEF Fault, ProcInv, ParentCanWait
<1>4. OneForker'
  BY DEF Fault, ProcInv, OneForker
<1>5. NoLostExit'
  BY DEF Fault, ProcInv, NoLostExit, Children, Zombies
<1>6. NoLostKill'
  BY DEF Fault, Running, ProcInv, NoLostKill
<1>7. PidsUnique'
  BY DEF Fault, ProcInv, PidsUnique
<1> QED  BY <1>1, <1>2, <1>3, <1>4, <1>5, <1>6, <1>7 DEF ProcInv

\* init does not exit.
LEMMA ExitPanicKeeps ==
  ASSUME ProcInv, TypeOK', NEW p \in Slot, ExitPanic(p)
  PROVE  ProcInv'
<1>1. Shape'
  BY DEF ExitPanic, ProcInv, Shape
<1>2. RunnerAgrees'
  BY DEF ExitPanic, ProcInv, RunnerAgrees
<1>3. ParentCanWait'
  BY DEF ExitPanic, ProcInv, ParentCanWait
<1>4. OneForker'
  BY DEF ExitPanic, ProcInv, OneForker
<1>5. NoLostExit'
  BY DEF ExitPanic, ProcInv, NoLostExit, Children, Zombies
<1>6. NoLostKill'
  BY DEF ExitPanic, ProcInv, NoLostKill
<1>7. PidsUnique'
  BY DEF ExitPanic, ProcInv, PidsUnique
<1> QED  BY <1>1, <1>2, <1>3, <1>4, <1>5, <1>6, <1>7 DEF ProcInv

\* The children of the dead get init for parent, and whoever waits is woken.
LEMMA ExitFinishKeeps ==
  ASSUME ProcInv, TypeOK', NEW p \in Slot, ExitFinish(p)
  PROVE  ProcInv'
<1>1. Shape'
  BY InitIsSlot DEF ExitFinish, WakeAll, Reparented, ProcInv, Shape, Live
<1>2. RunnerAgrees'
  BY InitIsSlot DEF ExitFinish, Running, WakeAll, ProcInv, RunnerAgrees
<1>3. ParentCanWait'
  BY InitIsSlot DEF ExitFinish, Running, WakeAll, Woken, ExitWakes,
     Reparented, TypeOK, ProcInv, ParentCanWait, Shape, Live
<1>4. OneForker'
  BY InitIsSlot DEF ExitFinish, Running, WakeAll, Woken, ExitWakes,
     Reparented, TypeOK, ProcInv, OneForker
<1>5. NoLostExit'
  BY DEF ExitFinish, WakeAll, Woken, ExitWakes, Reparented, ProcInv,
     NoLostExit, Children, Zombies
<1>6. NoLostKill'
  BY DEF ExitFinish, WakeAll, ProcInv, NoLostKill
<1>7. PidsUnique'
  BY DEF ExitFinish, Running, WakeAll, Woken, ExitWakes, ProcInv,
     PidsUnique
<1> QED  BY <1>1, <1>2, <1>3, <1>4, <1>5, <1>6, <1>7 DEF ProcInv

\* The slot collected has no children: its process gave them away when it exited.
LEMMA WaitReapKeeps ==
  ASSUME ProcInv, TypeOK', NEW p \in Slot, WaitReap(p)
  PROVE  ProcInv'
<1>0. Lowest(Zombies(p)) \in Zombies(p)
  BY LowestIsIn DEF Zombies, Children, WaitReap
<1>1. Shape'
  BY <1>0 DEF WaitReap, InWait, Asks, AtSyscall, Running, Reap, Resumed,
     TypeOK, ProcInv, Shape, Live, Zombies
<1>2. RunnerAgrees'
  BY <1>0 DEF WaitReap, Reap, ProcInv, RunnerAgrees, Zombies
<1>3. ParentCanWait'
  BY <1>0 DEF WaitReap, Reap, TypeOK, ProcInv, ParentCanWait, Live,
     Zombies
<1>4. OneForker'
  BY <1>0 DEF WaitReap, InWait, Asks, AtSyscall, Running, Reap, Resumed,
     TypeOK, ProcInv, OneForker, Zombies
<1>5. NoLostExit'
  BY <1>0 DEF WaitReap, InWait, AtSyscall, Reap, Resumed, TypeOK, ProcInv,
     NoLostExit, Children, Zombies, NoLostKill, Live
<1>6. NoLostKill'
  BY <1>0 DEF WaitReap, Reap, Resumed, TypeOK, ProcInv, NoLostKill
<1>7. PidsUnique'
  BY <1>0 DEF WaitReap, Reap, TypeOK, ProcInv, PidsUnique
<1> QED  BY <1>1, <1>2, <1>3, <1>4, <1>5, <1>6, <1>7 DEF ProcInv

\* wait() returns -1.
LEMMA WaitFailKeeps ==
  ASSUME ProcInv, TypeOK', NEW p \in Slot, WaitFail(p)
  PROVE  ProcInv'
<1>1. Shape'
  BY DEF WaitFail, InWait, Asks, AtSyscall, Running, Resumed, ProcInv,
     Shape
<1>2. RunnerAgrees'
  BY DEF WaitFail, ProcInv, RunnerAgrees
<1>3. ParentCanWait'
  BY DEF WaitFail, ProcInv, ParentCanWait
<1>4. OneForker'
  BY DEF WaitFail, InWait, Asks, AtSyscall, Resumed, ProcInv, OneForker
<1>5. NoLostExit'
  BY DEF WaitFail, Resumed, ProcInv, NoLostExit, Children, Zombies
<1>6. NoLostKill'
  BY DEF WaitFail, Resumed, ProcInv, NoLostKill
<1>7. PidsUnique'
  BY DEF WaitFail, ProcInv, PidsUnique
<1> QED  BY <1>1, <1>2, <1>3, <1>4, <1>5, <1>6, <1>7 DEF ProcInv

\* wait() sleeps only with a child and no zombie among its children.
LEMMA WaitSleepKeeps ==
  ASSUME ProcInv, TypeOK', NEW p \in Slot, WaitSleep(p)
  PROVE  ProcInv'
<1>1. Shape'
  BY DEF WaitSleep, SleepOn, TypeOK, ProcInv, Shape, Live
<1>2. RunnerAgrees'
  BY InitIsSlot DEF WaitSleep, InWait, Asks, AtSyscall, Running, SleepOn,
     TypeOK, ProcInv, RunnerAgrees
<1>3. ParentCanWait'
  BY DEF WaitSleep, InWait, Asks, AtSyscall, Running, SleepOn, ProcInv,
     ParentCanWait, Live
<1>4. OneForker'
  BY DEF WaitSleep, InWait, Asks, AtSyscall, Running, SleepOn, ProcInv,
     OneForker
<1>5. NoLostExit'
  BY DEF WaitSleep, SleepOn, TypeOK, ProcInv, NoLostExit, Children,
     Zombies
<1>6. NoLostKill'
  BY DEF WaitSleep, SleepOn, ProcInv, NoLostKill
<1>7. PidsUnique'
  BY DEF WaitSleep, InWait, Asks, AtSyscall, Running, SleepOn, ProcInv,
     PidsUnique
<1> QED  BY <1>1, <1>2, <1>3, <1>4, <1>5, <1>6, <1>7 DEF ProcInv

\* pause() sleeps.
LEMMA PauseSleepKeeps ==
  ASSUME ProcInv, TypeOK', NEW p \in Slot, PauseSleep(p)
  PROVE  ProcInv'
<1>1. Shape'
  BY DEF PauseSleep, SleepOn, TypeOK, ProcInv, Shape, Live
<1>2. RunnerAgrees'
  BY InitIsSlot DEF PauseSleep, InPause, Asks, AtSyscall, Running,
     SleepOn, TypeOK, ProcInv, RunnerAgrees
<1>3. ParentCanWait'
  BY DEF PauseSleep, InPause, Asks, AtSyscall, Running, SleepOn, ProcInv,
     ParentCanWait, Live
<1>4. OneForker'
  BY DEF PauseSleep, InPause, Asks, AtSyscall, Running, SleepOn, ProcInv,
     OneForker
<1>5. NoLostExit'
  BY DEF PauseSleep, InPause, Asks, AtSyscall, SleepOn, ProcInv,
     NoLostExit, Children, Zombies
<1>6. NoLostKill'
  BY DEF PauseSleep, SleepOn, ProcInv, NoLostKill
<1>7. PidsUnique'
  BY DEF PauseSleep, InPause, Asks, AtSyscall, Running, SleepOn, ProcInv,
     PidsUnique
<1> QED  BY <1>1, <1>2, <1>3, <1>4, <1>5, <1>6, <1>7 DEF ProcInv

\* pause() returns.
LEMMA PauseDoneKeeps ==
  ASSUME ProcInv, TypeOK', NEW p \in Slot, PauseDone(p)
  PROVE  ProcInv'
<1>1. Shape'
  BY DEF PauseDone, Running, Resumed, ProcInv, Shape
<1>2. RunnerAgrees'
  BY DEF PauseDone, ProcInv, RunnerAgrees
<1>3. ParentCanWait'
  BY DEF PauseDone, ProcInv, ParentCanWait
<1>4. OneForker'
  BY DEF PauseDone, Resumed, ProcInv, OneForker
<1>5. NoLostExit'
  BY DEF PauseDone, Resumed, ProcInv, NoLostExit, Children, Zombies
<1>6. NoLostKill'
  BY DEF PauseDone, Resumed, ProcInv, NoLostKill
<1>7. PidsUnique'
  BY DEF PauseDone, ProcInv, PidsUnique
<1> QED  BY <1>1, <1>2, <1>3, <1>4, <1>5, <1>6, <1>7 DEF ProcInv

\* An uninterruptible sleep, perhaps in exit().
LEMMA IoSleepKeeps ==
  ASSUME ProcInv, TypeOK', NEW p \in Slot, NEW c, IoSleep(p, c)
  PROVE  ProcInv'
<1>1. Shape'
  BY DEF IoSleep, SleepOn, TypeOK, ProcInv, Shape, Live
<1>2. RunnerAgrees'
  BY InitIsSlot DEF IoSleep, Asks, AtSyscall, Running, SleepOn, TypeOK,
     ProcInv, RunnerAgrees
<1>3. ParentCanWait'
  BY DEF IoSleep, Asks, AtSyscall, Running, SleepOn, ProcInv,
     ParentCanWait, Live
<1>4. OneForker'
  BY DEF IoSleep, Asks, AtSyscall, Running, SleepOn, ProcInv, OneForker
<1>5. NoLostExit'
  BY DEF IoSleep, Asks, AtSyscall, SleepOn, ProcInv, NoLostExit, Children,
     Zombies
<1>6. NoLostKill'
  BY DEF IoSleep, Asks, AtSyscall, SleepOn, ProcInv, NoLostKill
<1>7. PidsUnique'
  BY DEF IoSleep, Asks, AtSyscall, Running, SleepOn, ProcInv, PidsUnique
<1> QED  BY <1>1, <1>2, <1>3, <1>4, <1>5, <1>6, <1>7 DEF ProcInv

\* Its end.
LEMMA IoDoneKeeps ==
  ASSUME ProcInv, TypeOK', NEW p \in Slot, IoDone(p)
  PROVE  ProcInv'
<1>1. Shape'
  BY DEF IoDone, Running, Resumed, ProcInv, Shape
<1>2. RunnerAgrees'
  BY DEF IoDone, ProcInv, RunnerAgrees
<1>3. ParentCanWait'
  BY DEF IoDone, ProcInv, ParentCanWait
<1>4. OneForker'
  BY DEF IoDone, Resumed, ProcInv, OneForker
<1>5. NoLostExit'
  BY DEF IoDone, Resumed, ProcInv, NoLostExit, Children, Zombies
<1>6. NoLostKill'
  BY DEF IoDone, Resumed, ProcInv, NoLostKill
<1>7. PidsUnique'
  BY DEF IoDone, ProcInv, PidsUnique
<1> QED  BY <1>1, <1>2, <1>3, <1>4, <1>5, <1>6, <1>7 DEF ProcInv

\* Any other call begins: its process can be interrupted in it ...
LEMMA CallBeginKeeps ==
  ASSUME ProcInv, TypeOK', NEW p \in Slot, CallBegin(p)
  PROVE  ProcInv'
<1>1. Shape'
  BY DEF CallBegin, Asks, AtSyscall, Running, ProcInv, Shape
<1>2. RunnerAgrees'
  BY DEF CallBegin, ProcInv, RunnerAgrees
<1>3. ParentCanWait'
  BY DEF CallBegin, ProcInv, ParentCanWait
<1>4. OneForker'
  BY DEF CallBegin, Asks, AtSyscall, ProcInv, OneForker
<1>5. NoLostExit'
  BY DEF CallBegin, Asks, AtSyscall, ProcInv, NoLostExit, Children, Zombies
<1>6. NoLostKill'
  BY DEF CallBegin, Asks, AtSyscall, ProcInv, NoLostKill
<1>7. PidsUnique'
  BY DEF CallBegin, ProcInv, PidsUnique
<1> QED  BY <1>1, <1>2, <1>3, <1>4, <1>5, <1>6, <1>7 DEF ProcInv

\* ... and returns.
LEMMA CallDoneKeeps ==
  ASSUME ProcInv, TypeOK', NEW p \in Slot, CallDone(p)
  PROVE  ProcInv'
<1>1. Shape'
  BY DEF CallDone, Running, Resumed, ProcInv, Shape
<1>2. RunnerAgrees'
  BY DEF CallDone, ProcInv, RunnerAgrees
<1>3. ParentCanWait'
  BY DEF CallDone, ProcInv, ParentCanWait
<1>4. OneForker'
  BY DEF CallDone, Resumed, ProcInv, OneForker
<1>5. NoLostExit'
  BY DEF CallDone, Resumed, ProcInv, NoLostExit, Children, Zombies
<1>6. NoLostKill'
  BY DEF CallDone, Resumed, ProcInv, NoLostKill
<1>7. PidsUnique'
  BY DEF CallDone, ProcInv, PidsUnique
<1> QED  BY <1>1, <1>2, <1>3, <1>4, <1>5, <1>6, <1>7 DEF ProcInv

\* A wakeup makes sleepers RUNNABLE and nothing else.
LEMMA WakeupKeeps ==
  ASSUME ProcInv, TypeOK', NEW c, Wakeup(c)
  PROVE  ProcInv'
<1>1. Shape'
  BY InitIsSlot DEF Wakeup, WakeAll, ProcInv, Shape, Live
<1>2. RunnerAgrees'
  BY DEF Wakeup, WakeAll, Woken, ProcInv, RunnerAgrees
<1>3. ParentCanWait'
  BY DEF Wakeup, WakeAll, Woken, TypeOK, ProcInv, ParentCanWait, Live
<1>4. OneForker'
  BY DEF Wakeup, WakeAll, Woken, TypeOK, ProcInv, OneForker
<1>5. NoLostExit'
  BY DEF Wakeup, WakeAll, ProcInv, NoLostExit, Children, Zombies
<1>6. NoLostKill'
  BY DEF Wakeup, WakeAll, ProcInv, NoLostKill
<1>7. PidsUnique'
  BY DEF Wakeup, WakeAll, Woken, ProcInv, PidsUnique
<1> QED  BY <1>1, <1>2, <1>3, <1>4, <1>5, <1>6, <1>7 DEF ProcInv

\* kill() wakes whom it marks.
LEMMA KillKeeps ==
  ASSUME ProcInv, TypeOK', NEW p \in Slot, NEW k, Kill(p, k)
  PROVE  ProcInv'
<1>1. Shape'
  BY DEF Kill, AtSyscall, Resumed, Unblocked, ProcInv, Shape, Live
<1>2. RunnerAgrees'
  BY DEF Kill, Unblocked, ProcInv, RunnerAgrees
<1>3. ParentCanWait'
  BY DEF Kill, Unblocked, ProcInv, ParentCanWait, Live
<1>4. OneForker'
  BY DEF Kill, AtSyscall, Resumed, Unblocked, ProcInv, OneForker
<1>5. NoLostExit'
  BY DEF Kill, Resumed, Unblocked, ProcInv, NoLostExit, Children, Zombies
<1>6. NoLostKill'
  BY DEF Kill, Resumed, Unblocked, TypeOK, ProcInv, NoLostKill
<1>7. PidsUnique'
  BY DEF Kill, Unblocked, ProcInv, PidsUnique
<1> QED  BY <1>1, <1>2, <1>3, <1>4, <1>5, <1>6, <1>7 DEF ProcInv

\* A clock interrupt wakes those who pause.
LEMMA ClockIdleKeeps ==
  ASSUME ProcInv, TypeOK', ClockIdle
  PROVE  ProcInv'
<1>1. Shape'
  BY InitIsSlot DEF ClockIdle, WakeAll, ProcInv, Shape, Live
<1>2. RunnerAgrees'
  BY DEF ClockIdle, WakeAll, Woken, ProcInv, RunnerAgrees
<1>3. ParentCanWait'
  BY DEF ClockIdle, WakeAll, Woken, TypeOK, ProcInv, ParentCanWait, Live
<1>4. OneForker'
  BY DEF ClockIdle, WakeAll, Woken, TypeOK, ProcInv, OneForker
<1>5. NoLostExit'
  BY DEF ClockIdle, WakeAll, ProcInv, NoLostExit, Children, Zombies
<1>6. NoLostKill'
  BY DEF ClockIdle, WakeAll, ProcInv, NoLostKill
<1>7. PidsUnique'
  BY DEF ClockIdle, WakeAll, Woken, ProcInv, PidsUnique
<1> QED  BY <1>1, <1>2, <1>3, <1>4, <1>5, <1>6, <1>7 DEF ProcInv

\* So does one taken by a running process, which may begin to exit ...
LEMMA ClockRunKeeps ==
  ASSUME ProcInv, TypeOK', NEW p \in Slot, ClockRun(p)
  PROVE  ProcInv'
<1>1. Shape'
  BY InitIsSlot DEF ClockRun, WakeAll, Resumed, AfterClock, ProcInv,
     Shape, Live
<1>2. RunnerAgrees'
  BY DEF ClockRun, WakeAll, Woken, ProcInv, RunnerAgrees
<1>3. ParentCanWait'
  BY DEF ClockRun, WakeAll, Woken, TypeOK, ProcInv, ParentCanWait, Live
<1>4. OneForker'
  BY DEF ClockRun, WakeAll, Woken, Resumed, AfterClock, TypeOK, ProcInv,
     OneForker
<1>5. NoLostExit'
  BY DEF ClockRun, WakeAll, Resumed, AfterClock, ProcInv, NoLostExit,
     Children, Zombies
<1>6. NoLostKill'
  BY DEF ClockRun, WakeAll, Resumed, AfterClock, ProcInv, NoLostKill
<1>7. PidsUnique'
  BY DEF ClockRun, WakeAll, Woken, ProcInv, PidsUnique
<1> QED  BY <1>1, <1>2, <1>3, <1>4, <1>5, <1>6, <1>7 DEF ProcInv

\* ... or give up the hart.
LEMMA ClockYieldKeeps ==
  ASSUME ProcInv, TypeOK', NEW p \in Slot, ClockYield(p)
  PROVE  ProcInv'
<1>1. Shape'
  BY InitIsSlot DEF ClockYield, WakeAll, ProcInv, Shape, Live
<1>2. RunnerAgrees'
  BY InitIsSlot DEF ClockYield, Running, WakeAll, ProcInv, RunnerAgrees
<1>3. ParentCanWait'
  BY DEF ClockYield, Running, WakeAll, Woken, TypeOK, ProcInv,
     ParentCanWait, Live
<1>4. OneForker'
  BY DEF ClockYield, Running, WakeAll, Woken, TypeOK, ProcInv, OneForker
<1>5. NoLostExit'
  BY DEF ClockYield, WakeAll, ProcInv, NoLostExit, Children, Zombies
<1>6. NoLostKill'
  BY DEF ClockYield, WakeAll, ProcInv, NoLostKill
<1>7. PidsUnique'
  BY DEF ClockYield, Running, WakeAll, Woken, ProcInv, PidsUnique
<1> QED  BY <1>1, <1>2, <1>3, <1>4, <1>5, <1>6, <1>7 DEF ProcInv

\* The hart takes a process from the RUNNABLE ones.
LEMMA DispatchKeeps ==
  ASSUME ProcInv, TypeOK', NEW p \in Slot, Dispatch(p)
  PROVE  ProcInv'
<1>1. Shape'
  BY DEF Dispatch, ProcInv, Shape, Live
<1>2. RunnerAgrees'
  BY InitIsSlot DEF Dispatch, TypeOK, ProcInv, RunnerAgrees
<1>3. ParentCanWait'
  BY DEF Dispatch, ProcInv, ParentCanWait, Live
<1>4. OneForker'
  BY DEF Dispatch, ProcInv, OneForker
<1>5. NoLostExit'
  BY DEF Dispatch, ProcInv, NoLostExit, Children, Zombies
<1>6. NoLostKill'
  BY DEF Dispatch, ProcInv, NoLostKill
<1>7. PidsUnique'
  BY DEF Dispatch, ProcInv, PidsUnique
<1> QED  BY <1>1, <1>2, <1>3, <1>4, <1>5, <1>6, <1>7 DEF ProcInv

\* Every step of the process table keeps the invariant.
LEMMA ProcInvStep == ProcInv /\ TypeOK' /\ [Next]_procVars => ProcInv'
<1> SUFFICES ASSUME ProcInv, TypeOK', [Next]_procVars PROVE ProcInv'
  OBVIOUS
<1>1. ASSUME NEW p \in Slot, NEW np \in Slot, ForkAlloc(p, np) PROVE ProcInv'
  BY <1>1, ForkAllocKeeps
<1>2. ASSUME NEW p \in Slot, NEW np \in Slot, ForkFail(p, np) PROVE ProcInv'
  BY <1>2, ForkFailKeeps
<1>3. ASSUME NEW p \in Slot, ForkLink(p) PROVE ProcInv'
  BY <1>3, ForkLinkKeeps
<1>4. ASSUME NEW p \in Slot, ForkReady(p) PROVE ProcInv'
  BY <1>4, ForkReadyKeeps
<1>5. ASSUME NEW p \in Slot, ExitBegin(p) PROVE ProcInv'
  BY <1>5, ExitBeginKeeps
<1>6. ASSUME NEW p \in Slot, Fault(p) PROVE ProcInv'
  BY <1>6, FaultKeeps
<1>7. ASSUME NEW p \in Slot, ExitPanic(p) PROVE ProcInv'
  BY <1>7, ExitPanicKeeps
<1>8. ASSUME NEW p \in Slot, ExitFinish(p) PROVE ProcInv'
  BY <1>8, ExitFinishKeeps
<1>9. ASSUME NEW p \in Slot, WaitReap(p) PROVE ProcInv'
  BY <1>9, WaitReapKeeps
<1>10. ASSUME NEW p \in Slot, WaitFail(p) PROVE ProcInv'
  BY <1>10, WaitFailKeeps
<1>11. ASSUME NEW p \in Slot, WaitSleep(p) PROVE ProcInv'
  BY <1>11, WaitSleepKeeps
<1>12. ASSUME NEW p \in Slot, PauseSleep(p) PROVE ProcInv'
  BY <1>12, PauseSleepKeeps
<1>13. ASSUME NEW p \in Slot, PauseDone(p) PROVE ProcInv'
  BY <1>13, PauseDoneKeeps
<1>14. ASSUME NEW p \in Slot, NEW c \in IOChans, IoSleep(p, c) PROVE ProcInv'
  BY <1>14, IoSleepKeeps
<1>15. ASSUME NEW p \in Slot, IoDone(p) PROVE ProcInv'
  BY <1>15, IoDoneKeeps
<1>16. ASSUME NEW c \in IOChans, Wakeup(c) PROVE ProcInv'
  BY <1>16, WakeupKeeps
<1>17. ASSUME NEW p \in Slot, NEW k \in KillPids, Kill(p, k) PROVE ProcInv'
  BY <1>17, KillKeeps
<1>18. CASE ClockIdle
  BY <1>18, ClockIdleKeeps
<1>19. ASSUME NEW p \in Slot, ClockRun(p) PROVE ProcInv'
  BY <1>19, ClockRunKeeps
<1>20. ASSUME NEW p \in Slot, ClockYield(p) PROVE ProcInv'
  BY <1>20, ClockYieldKeeps
<1>21. ASSUME NEW p \in Slot, Dispatch(p) PROVE ProcInv'
  BY <1>21, DispatchKeeps
<1>22. CASE Spin \/ UNCHANGED procVars
  BY <1>22 DEF Spin, procVars, ProcInv, TypeOK, Shape, RunnerAgrees, ParentCanWait,
     OneForker, NoLostExit, NoLostKill, PidsUnique, Children, Zombies
<1>23. ASSUME NEW p \in Slot, CallBegin(p) \/ CallDone(p) PROVE ProcInv'
  BY <1>23, CallBeginKeeps, CallDoneKeeps
<1> QED  BY <1>1, <1>2, <1>3, <1>4, <1>5, <1>6, <1>7, <1>8, <1>9, <1>10,
            <1>11, <1>12, <1>13, <1>14, <1>15, <1>16, <1>17, <1>18, <1>19,
            <1>20, <1>21, <1>22, <1>23 DEF Next

-----------------------------------------------------------------------------
(* What it gives *)

\* The process table keeps its invariant in every behaviour, for tables of any size
\* and programs that make any of the calls.
THEOREM ProcSafety == ProcSpec => []ProcInv
<1> QED  BY TypeCorrect, ProcInvInit, ProcInvStep, PTL DEF ProcSpec

\* The hart and the table agree on who is RUNNING.
THEOREM HartAgrees == ProcSpec => []RunnerAgrees
<1>1. ProcInv => RunnerAgrees
  BY DEF ProcInv
<1> QED  BY <1>1, ProcSafety, PTL

\* A process that can exit has a live parent to collect it.
THEOREM ParentsCanWait == ProcSpec => []ParentCanWait
<1>1. ProcInv => ParentCanWait
  BY DEF ProcInv
<1> QED  BY <1>1, ProcSafety, PTL

\* No slot is lost or shared between the critical sections of kfork.
THEOREM ForksKeepTheirSlot == ProcSpec => []OneForker
<1>1. ProcInv => OneForker
  BY DEF ProcInv
<1> QED  BY <1>1, ProcSafety, PTL

\* Nobody sleeps in wait() past the exit of a child.
THEOREM ExitsAreNoticed == ProcSpec => []NoLostExit
<1>1. ProcInv => NoLostExit
  BY DEF ProcInv
<1> QED  BY <1>1, ProcSafety, PTL

\* Nobody who has been killed sleeps where a kill should have woken him.
THEOREM KillsAreNoticed == ProcSpec => []NoLostKill
<1>1. ProcInv => NoLostKill
  BY DEF ProcInv
<1> QED  BY <1>1, ProcSafety, PTL

\* A pid names one process.
THEOREM PidsNameProcesses == ProcSpec => []PidsUnique
<1>1. ProcInv => PidsUnique
  BY DEF ProcInv
<1> QED  BY <1>1, ProcSafety, PTL

-----------------------------------------------------------------------------
(* The table implements the life of pids *)

\* What the mapping needs besides ProcInv: pids stay within the bound, and init is 1.
LifeInv == ProcInv /\ nextpid <= MaxPid + 1 /\ pid[InitProc] = 1

LEMMA LifeInvInit == Init => LifeInv
BY ProcInvInit, InitIsSlot, MaxPidAssumption DEF Init, LifeInv

\* The steps that hand out a pid or free a slot.
PidStep(p) ==
  (\E np \in Slot : ForkAlloc(p, np) \/ ForkFail(p, np)) \/ WaitReap(p)

\* No other step touches pids.
LEMMA PidsStay ==
  ASSUME [Next]_procVars, ~\E p \in Slot : PidStep(p)
  PROVE  pid' = pid /\ nextpid' = nextpid
BY DEF Next, PidStep, procVars, ForkLink, ForkReady, ExitBegin, Fault, ExitPanic,
       ExitFinish, WaitFail, WaitSleep, PauseSleep, PauseDone, IoDone, CallBegin, CallDone, ClockRun,
       ClockYield, Dispatch, IoSleep, Kill, Wakeup, ClockIdle, Spin

LEMMA LifeInvStep == LifeInv /\ [Next]_procVars => LifeInv'
<1> SUFFICES ASSUME LifeInv, [Next]_procVars PROVE LifeInv'
  OBVIOUS
<1>1. ProcInv'
  BY TypeStep, ProcInvStep DEF LifeInv, ProcInv
<1>2. ASSUME NEW p \in Slot, PidStep(p)
      PROVE  nextpid' <= MaxPid + 1 /\ pid'[InitProc] = 1
  <2> USE InitIsSlot DEF LifeInv, ProcInv, TypeOK, Shape
  <2>1. ASSUME NEW np \in Slot, ForkAlloc(p, np)
        PROVE  nextpid' <= MaxPid + 1 /\ pid'[InitProc] = 1
    <3>1. np # InitProc
      BY <2>1 DEF ForkAlloc, Unused, Live
    <3> QED  BY <2>1, <3>1, MaxPidAssumption DEF ForkAlloc, AllocPid
  <2>2. ASSUME NEW np \in Slot, ForkFail(p, np)
        PROVE  nextpid' <= MaxPid + 1 /\ pid'[InitProc] = 1
    BY <2>2, MaxPidAssumption DEF ForkFail, AllocPid
  <2>3. CASE WaitReap(p)
    <3>1. Lowest(Zombies(p)) \in Zombies(p)
      BY <2>3, LowestIsIn DEF WaitReap, Zombies, Children
    <3>2. Lowest(Zombies(p)) # InitProc
      BY <3>1 DEF Zombies, Children, Live
    <3> QED  BY <2>3, <3>1, <3>2 DEF WaitReap, Reap
  <2> QED  BY <1>2, <2>1, <2>2, <2>3 DEF PidStep
<1>3. CASE ~\E p \in Slot : PidStep(p)
  BY <1>1, <1>3, PidsStay DEF LifeInv
<1> QED  BY <1>1, <1>2, <1>3 DEF LifeInv

\* The status and the guardian of a pid, read off the slot that has it.
LifeRead ==
  /\ \A s \in Slot, k \in 1..MaxPid : state[s] # "UNUSED" /\ pid[s] = k =>
       /\ StatusOf(k) = IF state[s] = "ZOMBIE" THEN "zombie" ELSE "live"
       /\ state[s] # "USED" =>
            GuardianOf(k) = IF parent[s] = None THEN 0 ELSE pid[parent[s]]
       /\ \A p \in Slot : state[s] = "USED" /\ child[p] = s => GuardianOf(k) = pid[p]
  /\ \A k \in 1..MaxPid : (\A s \in Slot : state[s] # "UNUSED" => pid[s] # k) =>
       /\ StatusOf(k) = IF k < nextpid THEN "gone" ELSE "unborn"
       /\ GuardianOf(k) = 0

LEMMA LifeReads == ProcInv => LifeRead
<1> SUFFICES ASSUME ProcInv PROVE LifeRead
  OBVIOUS
<1>1. ASSUME NEW s \in Slot, NEW k \in 1..MaxPid, state[s] # "UNUSED", pid[s] = k
      PROVE  /\ StatusOf(k) = IF state[s] = "ZOMBIE" THEN "zombie" ELSE "live"
             /\ state[s] # "USED" =>
                  GuardianOf(k) = IF parent[s] = None THEN 0 ELSE pid[parent[s]]
             /\ \A p \in Slot : state[s] = "USED" /\ child[p] = s => GuardianOf(k) = pid[p]
  <2>1. Holders(k) = {s}
    BY <1>1 DEF Holders, ProcInv, PidsUnique
  <2>2. Lowest(Holders(k)) = s
    BY <2>1, LowestIsIn
  <2>3. ASSUME NEW p \in Slot, child[p] = s PROVE ForkerOf(s) = p
    <3>1. \A q \in Slot : child[q] = s => q = p
      BY <2>3, InitIsSlot DEF ProcInv, OneForker
    <3> QED  BY <2>3, <3>1 DEF ForkerOf
  <2>4. StatusOf(k) = IF state[s] = "ZOMBIE" THEN "zombie" ELSE "live"
    BY <2>1, <2>2 DEF StatusOf
  <2>5. GuardianOf(k) = IF Responsible(s) = None THEN 0 ELSE pid[Responsible(s)]
    BY <2>1, <2>2 DEF GuardianOf
  <2>6. ASSUME NEW p \in Slot, state[s] = "USED", child[p] = s
        PROVE  GuardianOf(k) = pid[p]
    BY <2>3, <2>5, <2>6, InitIsSlot DEF Responsible
  <2>7. state[s] # "USED" =>
          GuardianOf(k) = IF parent[s] = None THEN 0 ELSE pid[parent[s]]
    BY <2>5 DEF Responsible
  <2> QED  BY <2>4, <2>6, <2>7
<1>2. ASSUME NEW k \in 1..MaxPid, \A s \in Slot : state[s] # "UNUSED" => pid[s] # k
      PROVE  StatusOf(k) = (IF k < nextpid THEN "gone" ELSE "unborn") /\ GuardianOf(k) = 0
  <2>1. Holders(k) = {}
    BY <1>2 DEF Holders
  <2> QED  BY <2>1 DEF StatusOf, GuardianOf
<1> QED  BY <1>1, <1>2 DEF LifeRead

\* Who runs has a pid within the bound.
ActorIn == (IF cpu = None THEN 0 ELSE pid[cpu]) \in (1..MaxPid) \cup {0}

LEMMA ActorType == LifeInv => ActorIn
<1> SUFFICES ASSUME LifeInv, cpu # None PROVE pid[cpu] \in 1..MaxPid
  BY DEF ActorIn
<1>1. cpu \in Slot /\ state[cpu] = "RUNNING"
  BY DEF LifeInv, ProcInv, TypeOK, RunnerAgrees
<1>2. pid[cpu] \in 1..(nextpid - 1) /\ nextpid \in Nat
  BY <1>1 DEF LifeInv, ProcInv, TypeOK, PidsUnique
<1> QED  BY <1>2, MaxPidAssumption DEF LifeInv

\* A step after which the same slots are taken, by the same pids, dead or alive as
\* before and with the same process to wait for them, is no step of a life.
LEMMA LifeStutters ==
  ASSUME LifeInv, LifeInv', LifeRead, LifeRead', pid' = pid, nextpid' = nextpid,
         \A s \in Slot :
           /\ state'[s] = "UNUSED" <=> state[s] = "UNUSED"
           /\ state'[s] = "ZOMBIE" <=> state[s] = "ZOMBIE"
           /\ state[s] \notin {"UNUSED", "USED"} =>
                state'[s] # "USED" /\ parent'[s] = parent[s]
           /\ \A p \in Slot : state[s] = "USED" /\ child[p] = s =>
                IF state'[s] = "USED" THEN child'[p] = s ELSE parent'[s] = p
  PROVE  Life!Next
<1>1. ASSUME NEW k \in 1..MaxPid
      PROVE  StatusOf(k)' = StatusOf(k) /\ GuardianOf(k)' = GuardianOf(k)
  <2>1. CASE \A s \in Slot : state[s] # "UNUSED" => pid[s] # k
    BY <2>1 DEF LifeRead
  <2>2. ASSUME NEW s \in Slot, state[s] # "UNUSED", pid[s] = k
        PROVE  StatusOf(k)' = StatusOf(k) /\ GuardianOf(k)' = GuardianOf(k)
    <3>1. StatusOf(k)' = StatusOf(k)
      BY <2>2 DEF LifeRead
    <3>2. CASE state[s] # "USED"
      BY <2>2, <3>2 DEF LifeRead
    <3>3. CASE state[s] = "USED"
      <4>1. PICK p \in Slot : child[p] = s
        BY <3>3 DEF LifeInv, ProcInv, OneForker
      <4>2. GuardianOf(k) = pid[p]
        BY <2>2, <3>3, <4>1 DEF LifeRead
      <4>3. GuardianOf(k)' = pid[p]
        BY <2>2, <3>3, <4>1, InitIsSlot DEF LifeRead
      <4> QED  BY <3>1, <4>2, <4>3
    <3> QED  BY <3>1, <3>2, <3>3
  <2> QED  BY <2>1, <2>2
<1>2. ActorIn'
  BY ActorType, PTL
<1> QED  BY <1>1, <1>2 DEF ActorIn, Life!Next, Life!Switch

\* What a step does to the lives it is not about.
SameLife(k) == StatusOf(k)' = StatusOf(k) /\ GuardianOf(k)' = GuardianOf(k)

\* Processes that change neither their kind of state nor their parent.
LEMMA QuietSteps ==
  ASSUME LifeInv, LifeInv', LifeRead, LifeRead', [Next]_procVars,
         ~\E p \in Slot : PidStep(p) \/ ExitFinish(p)
  PROVE  Life!Next
<1> USE DEF LifeInv, ProcInv, TypeOK
<1>1. pid' = pid /\ nextpid' = nextpid
  BY PidsStay
<1>2. ASSUME NEW p \in Slot, ForkLink(p) PROVE Life!Next
  <2>1. state[child[p]] = "USED" /\ child[p] \in Slot
    BY <1>2, InitIsSlot DEF ForkLink, OneForker
  <2> QED  BY <1>1, <1>2, <2>1, LifeStutters DEF ForkLink
<1>3. ASSUME NEW p \in Slot, ForkReady(p) PROVE Life!Next
  <2>1. state[child[p]] = "USED" /\ child[p] \in Slot /\ parent[child[p]] = p
    BY <1>3, InitIsSlot DEF ForkReady, OneForker
  <2>2. \A q \in Slot : child[q] = child[p] => q = p
    BY <2>1, InitIsSlot DEF OneForker
  <2>3. \A s \in Slot :
          /\ state'[s] = IF s = child[p] THEN "RUNNABLE" ELSE state[s]
          /\ parent'[s] = parent[s] /\ (s # p => child'[s] = child[s])
    BY <1>3 DEF ForkReady
  <2> QED  BY <1>1, <2>1, <2>2, <2>3, LifeStutters
<1>4. CASE /\ parent' = parent /\ child' = child
           /\ \A s \in Slot : state'[s] = state[s] \/ {state[s], state'[s]} \subseteq Live
  BY <1>1, <1>4, LifeStutters DEF Live
<1>5. ASSUME NEW p \in Slot,
             \/ ExitBegin(p) \/ Fault(p) \/ ExitPanic(p) \/ WaitFail(p) \/ PauseDone(p)
             \/ IoDone(p) \/ CallBegin(p) \/ CallDone(p)
      PROVE  Life!Next
  BY <1>4, <1>5 DEF ExitBegin, Fault, ExitPanic, WaitFail, PauseDone, IoDone, CallBegin,
                    CallDone
<1>6. ASSUME NEW p \in Slot,
             \/ WaitSleep(p) \/ PauseSleep(p) \/ (\E c \in IOChans : IoSleep(p, c))
      PROVE  Life!Next
  <2>1. state[p] = "RUNNING"
    BY <1>6 DEF WaitSleep, PauseSleep, IoSleep, InWait, InPause, Asks, AtSyscall, Running
  <2>2. parent' = parent /\ child' = child /\ state' = [state EXCEPT ![p] = "SLEEPING"]
    BY <1>6 DEF WaitSleep, PauseSleep, IoSleep, SleepOn
  <2> QED  BY <1>4, <2>1, <2>2 DEF Live
<1>7. ASSUME NEW p \in Slot, ClockRun(p) \/ ClockYield(p) \/ Dispatch(p) PROVE Life!Next
  <2>1. state[p] \in Live
    BY <1>7 DEF ClockRun, ClockYield, Dispatch, Running, Live
  <2>2. /\ parent' = parent /\ child' = child
        /\ \A s \in Slot : s # p => state'[s] = state[s] \/ {state[s], state'[s]} \subseteq Live
        /\ state'[p] \in Live
    BY <1>7, <2>1 DEF ClockRun, ClockYield, Dispatch, Running, WakeAll, Woken, Live
  <2> QED  BY <1>4, <2>1, <2>2 DEF Live
<1>8. ASSUME NEW p \in Slot, NEW k \in KillPids, Kill(p, k) PROVE Life!Next
  BY <1>4, <1>8 DEF Kill, Unblocked, Live
<1>9. ASSUME NEW c \in IOChans, Wakeup(c) PROVE Life!Next
  BY <1>4, <1>9 DEF Wakeup, WakeAll, Woken, Live
<1>10. CASE ClockIdle
  BY <1>4, <1>10 DEF ClockIdle, WakeAll, Woken, Live
<1>11. CASE Spin \/ UNCHANGED procVars
  BY <1>4, <1>11 DEF Spin, procVars
<1> QED  BY <1>2, <1>3, <1>5, <1>6, <1>7, <1>8, <1>9, <1>10, <1>11 DEF Next, PidStep

\* The running process has a pid within the bound.
LEMMA RunnerHasPid ==
  ASSUME LifeInv, NEW p \in Slot, Running(p)
  PROVE  /\ pid[p] \in 1..MaxPid /\ state[p] = "RUNNING"
         /\ (IF cpu = None THEN 0 ELSE pid[cpu]) = pid[p]
BY ActorType, InitIsSlot, MaxPidAssumption
   DEF LifeInv, ProcInv, TypeOK, PidsUnique, Running

\* kfork: a birth once the pid is taken ...
LEMMA ForkAllocBears ==
  ASSUME LifeInv, LifeInv', LifeRead, LifeRead',
         NEW p \in Slot, NEW np \in Slot, ForkAlloc(p, np)
  PROVE  Life!Next
<1> USE DEF LifeInv, ProcInv, TypeOK
<1>1. state[np] = "UNUSED"
  BY DEF ForkAlloc, Unused
<1>2. PICK c \in 1..MaxPid : c = nextpid
  BY DEF ForkAlloc, Shape
<1>3. PICK k0 \in 1..MaxPid : k0 = pid[p]
  BY RunnerHasPid DEF ForkAlloc, Asks, AtSyscall
<1>4. state[p] = "RUNNING" /\ (IF cpu = None THEN 0 ELSE pid[cpu]) = pid[p]
  BY RunnerHasPid DEF ForkAlloc, Asks, AtSyscall
<1>5. \A s \in Slot : s # np =>
        /\ state'[s] = state[s] /\ pid'[s] = pid[s] /\ parent'[s] = parent[s]
        /\ (s # p => child'[s] = child[s])
  BY <1>1 DEF ForkAlloc
<1>6. /\ state'[np] = "USED" /\ pid'[np] = c /\ child'[p] = np /\ pid'[p] = pid[p]
      /\ nextpid' = c + 1 /\ np # p
  BY <1>1, <1>2, <1>4 DEF ForkAlloc, AllocPid
<1>7. StatusOf(k0) = "live"
  BY <1>3, <1>4 DEF LifeRead
<1>8. \A s \in Slot : state[s] # "UNUSED" => pid[s] # c
  BY <1>2 DEF PidsUnique
<1>9. StatusOf(c) = "unborn"
  BY <1>2, <1>8 DEF LifeRead
<1>10. StatusOf(c)' = "live" /\ GuardianOf(c)' = k0
  BY <1>3, <1>6 DEF LifeRead
<1>11. ASSUME NEW k \in 1..MaxPid, k # c PROVE SameLife(k)
  <2>1. ASSUME NEW s \in Slot, state[s] # "UNUSED", pid[s] = k PROVE SameLife(k)
    <3>1. s # np /\ state'[s] = state[s] /\ pid'[s] = k /\ parent'[s] = parent[s]
      BY <1>1, <1>5, <2>1
    <3>2. StatusOf(k)' = StatusOf(k)
      BY <2>1, <3>1 DEF LifeRead
    <3>3. CASE state[s] # "USED"
      <4>1. parent[s] # None => parent[s] # np /\ parent[s] \in Slot
        BY <1>1 DEF ParentCanWait, Live
      <4> QED  BY <1>5, <2>1, <3>1, <3>2, <3>3, <4>1 DEF LifeRead, SameLife
    <3>4. CASE state[s] = "USED"
      <4>1. PICK q \in Slot : child[q] = s
        BY <3>4 DEF OneForker
      <4>2. q # p /\ q # np
        <5>1. child[p] = None
          BY DEF OneForker, ForkAlloc, Asks, AtSyscall
        <5>2. state[q] # "UNUSED"
          BY <4>1, InitIsSlot DEF OneForker
        <5> QED  BY <1>1, <4>1, <5>1, <5>2, InitIsSlot
      <4>3. GuardianOf(k) = pid[q]
        BY <2>1, <3>4, <4>1 DEF LifeRead
      <4>4. GuardianOf(k)' = pid'[q]
        BY <1>5, <2>1, <3>1, <3>4, <4>1, <4>2 DEF LifeRead
      <4> QED  BY <1>5, <3>2, <4>2, <4>3, <4>4 DEF SameLife
    <3> QED  BY <3>3, <3>4
  <2>2. CASE \A s \in Slot : state[s] # "UNUSED" => pid[s] # k
    <3>1. \A s \in Slot : state'[s] # "UNUSED" => pid'[s] # k
      BY <1>5, <1>6, <1>11, <2>2
    <3>2. k < nextpid' <=> k < nextpid
      BY <1>2, <1>6, <1>11
    <3> QED  BY <2>2, <3>1, <3>2 DEF LifeRead, SameLife
  <2> QED  BY <2>1, <2>2
<1>12. Life!Birth(k0, c)
  BY <1>3, <1>4, <1>7, <1>9, <1>10, <1>11 DEF Life!Birth, SameLife
<1>13. ActorIn'
  BY ActorType, PTL
<1> QED  BY <1>12, <1>13 DEF Life!Next, ActorIn

\* ... and one that is over at once when memory is short.
LEMMA ForkFailBearsNobody ==
  ASSUME LifeInv, LifeInv', LifeRead, LifeRead',
         NEW p \in Slot, NEW np \in Slot, ForkFail(p, np)
  PROVE  Life!Next
<1> USE DEF LifeInv, ProcInv, TypeOK
<1>1. PICK c \in 1..MaxPid : c = nextpid
  BY DEF ForkFail, Shape
<1>2. nextpid' = c + 1 /\ UNCHANGED <<state, pid, parent, child>>
  BY <1>1 DEF ForkFail, AllocPid
<1>3. \A s \in Slot : state[s] # "UNUSED" => pid[s] # c
  BY <1>1 DEF PidsUnique
<1>4. StatusOf(c) = "unborn" /\ StatusOf(c)' = "gone" /\ GuardianOf(c) = 0 /\ GuardianOf(c)' = 0
  BY <1>1, <1>2, <1>3 DEF LifeRead
<1>5. ASSUME NEW k \in 1..MaxPid, k # c PROVE SameLife(k)
  <2>1. ASSUME NEW s \in Slot, state[s] # "UNUSED", pid[s] = k PROVE SameLife(k)
    <3>1. CASE state[s] # "USED"
      BY <1>2, <2>1, <3>1 DEF LifeRead, SameLife
    <3>2. CASE state[s] = "USED"
      <4>1. PICK q \in Slot : child[q] = s
        BY <3>2 DEF OneForker
      <4> QED  BY <1>2, <2>1, <3>2, <4>1 DEF LifeRead, SameLife
    <3> QED  BY <3>1, <3>2
  <2>2. CASE \A s \in Slot : state[s] # "UNUSED" => pid[s] # k
    <3>1. k < nextpid' <=> k < nextpid
      BY <1>1, <1>2, <1>5
    <3> QED  BY <1>2, <2>2, <3>1 DEF LifeRead, SameLife
  <2> QED  BY <2>1, <2>2
<1>6. Life!Stillbirth(c)
  BY <1>4, <1>5 DEF Life!Stillbirth, SameLife
<1>7. ActorIn'
  BY ActorType, PTL
<1> QED  BY <1>6, <1>7 DEF Life!Next, ActorIn

\* kexit: a death, and init takes over the children.
LEMMA ExitFinishDies ==
  ASSUME LifeInv, LifeInv', LifeRead, LifeRead', NEW p \in Slot, ExitFinish(p)
  PROVE  Life!Next
<1> USE DEF LifeInv, ProcInv, TypeOK
<1>1. PICK k0 \in 1..MaxPid : k0 = pid[p]
  BY RunnerHasPid DEF ExitFinish
<1>2. state[p] = "RUNNING" /\ (IF cpu = None THEN 0 ELSE pid[cpu]) = pid[p]
  BY RunnerHasPid DEF ExitFinish
<1>3. pid' = pid /\ child' = child /\ nextpid' = nextpid
  BY DEF ExitFinish
<1>4. \A s \in Slot :
        /\ parent'[s] = IF parent[s] = p THEN InitProc ELSE parent[s]
        /\ s # p => state'[s] = state[s] \/ {state[s], state'[s]} \subseteq Live
        /\ state'[p] = "ZOMBIE"
  BY DEF ExitFinish, Reparented, WakeAll, Live, ExitWakes, Woken
<1>5. \A s \in Slot : state[s] # "UNUSED" /\ s # p => pid[s] # k0
  BY <1>1, <1>2 DEF PidsUnique
<1>6. StatusOf(k0) = "live" /\ StatusOf(k0)' = "zombie" /\ k0 # 1
  <2>1. pid[InitProc] # k0
    BY <1>5, InitIsSlot DEF ExitFinish, Shape, Live
  <2> QED  BY <1>1, <1>2, <1>3, <1>4, <2>1 DEF LifeRead
<1>7. ASSUME NEW k \in 1..MaxPid
      PROVE  /\ k # k0 => StatusOf(k)' = StatusOf(k)
             /\ GuardianOf(k)' = IF GuardianOf(k) = k0 THEN 1 ELSE GuardianOf(k)
  <2>1. ASSUME NEW s \in Slot, state[s] # "UNUSED", pid[s] = k
        PROVE  /\ k # k0 => StatusOf(k)' = StatusOf(k)
               /\ GuardianOf(k)' = IF GuardianOf(k) = k0 THEN 1 ELSE GuardianOf(k)
    <3>1. state'[s] # "UNUSED" /\ pid'[s] = k
      BY <1>3, <1>4, <2>1 DEF Live
    <3>2. k # k0 => StatusOf(k)' = StatusOf(k)
      BY <1>1, <1>4, <2>1, <3>1 DEF LifeRead, Live
    <3>3. CASE state[s] # "USED"
      <4>1. state'[s] # "USED"
        BY <1>4, <3>3 DEF Live
      <4>2. GuardianOf(k) = IF parent[s] = None THEN 0 ELSE pid[parent[s]]
        BY <2>1, <3>3 DEF LifeRead
      <4>3. GuardianOf(k)' = IF parent'[s] = None THEN 0 ELSE pid[parent'[s]]
        BY <1>3, <3>1, <4>1 DEF LifeRead
      <4>4. parent[s] # None => parent[s] \in Slot /\ state[parent[s]] # "UNUSED"
        BY DEF ParentCanWait, Live
      <4>5. parent[s] # None => (pid[parent[s]] = k0 <=> parent[s] = p)
        BY <1>1, <1>5, <4>4
      <4> QED  BY <1>1, <1>4, <3>2, <4>2, <4>3, <4>5, InitIsSlot
    <3>4. CASE state[s] = "USED"
      <4>1. PICK q \in Slot : child[q] = s
        BY <3>4 DEF OneForker
      <4>2. q # p /\ state[q] # "UNUSED"
        BY <4>1, InitIsSlot DEF OneForker, ExitFinish
      <4>3. state'[s] = "USED"
        BY <1>2, <1>4, <3>4 DEF Live
      <4>4. GuardianOf(k) = pid[q] /\ GuardianOf(k)' = pid[q]
        BY <1>3, <2>1, <3>1, <3>4, <4>1, <4>3 DEF LifeRead
      <4> QED  BY <1>5, <3>2, <4>2, <4>4
    <3> QED  BY <3>3, <3>4
  <2>2. CASE \A s \in Slot : state[s] # "UNUSED" => pid[s] # k
    <3>1. \A s \in Slot : state'[s] # "UNUSED" => pid'[s] # k
      BY <1>1, <1>2, <1>3, <1>4, <2>2 DEF Live
    <3> QED  BY <1>3, <2>2, <3>1 DEF LifeRead
  <2> QED  BY <2>1, <2>2
<1>8. Life!Death(k0)
  BY <1>1, <1>2, <1>6, <1>7 DEF Life!Death
<1>9. ActorIn'
  BY ActorType, PTL
<1> QED  BY <1>8, <1>9 DEF Life!Next, ActorIn

\* kwait: the process that is responsible collects.
LEMMA WaitReapCollects ==
  ASSUME LifeInv, LifeInv', LifeRead, LifeRead', NEW p \in Slot, WaitReap(p)
  PROVE  Life!Next
<1> USE DEF LifeInv, ProcInv, TypeOK
<1>1. PICK z \in Slot : z = Lowest(Zombies(p)) /\ state[z] = "ZOMBIE" /\ parent[z] = p
  <2>1. Lowest(Zombies(p)) \in Zombies(p)
    BY LowestIsIn DEF WaitReap, Zombies, Children
  <2> QED  BY <2>1 DEF Zombies, Children
<1>2. PICK k0 \in 1..MaxPid : k0 = pid[p]
  BY RunnerHasPid DEF WaitReap, InWait, Asks, AtSyscall
<1>3. state[p] = "RUNNING" /\ (IF cpu = None THEN 0 ELSE pid[cpu]) = pid[p]
  BY RunnerHasPid DEF WaitReap, InWait, Asks, AtSyscall
<1>4. PICK c \in 1..MaxPid : c = pid[z] /\ c < nextpid
  <2>1. pid[z] \in 1..(nextpid - 1)
    BY <1>1 DEF PidsUnique
  <2> QED  BY <2>1, MaxPidAssumption
<1>5. \A s \in Slot : s # z =>
        state'[s] = state[s] /\ pid'[s] = pid[s] /\ parent'[s] = parent[s]
  BY <1>1 DEF WaitReap, Reap
<1>6. state'[z] = "UNUSED" /\ child' = child /\ nextpid' = nextpid
  BY <1>1 DEF WaitReap, Reap
<1>7. \A s \in Slot : state[s] # "UNUSED" /\ s # z => pid[s] # c
  BY <1>1, <1>4 DEF PidsUnique
<1>8. /\ StatusOf(k0) = "live" /\ StatusOf(c) = "zombie" /\ GuardianOf(c) = k0
  BY <1>1, <1>2, <1>3, <1>4, InitIsSlot DEF LifeRead
<1>9. StatusOf(c)' = "gone" /\ GuardianOf(c)' = 0
  <2>1. \A s \in Slot : state'[s] # "UNUSED" => pid'[s] # c
    BY <1>5, <1>6, <1>7
  <2> QED  BY <1>4, <1>6, <2>1 DEF LifeRead
<1>10. ASSUME NEW k \in 1..MaxPid, k # c PROVE SameLife(k)
  <2>1. ASSUME NEW s \in Slot, state[s] # "UNUSED", pid[s] = k PROVE SameLife(k)
    <3>1. s # z /\ state'[s] = state[s] /\ pid'[s] = k /\ parent'[s] = parent[s]
      BY <1>4, <1>5, <1>10, <2>1
    <3>2. StatusOf(k)' = StatusOf(k)
      BY <2>1, <3>1 DEF LifeRead
    <3>3. CASE state[s] # "USED"
      <4>1. parent[s] # None => parent[s] # z /\ parent[s] \in Slot
        BY <1>1 DEF ParentCanWait, Live
      <4> QED  BY <1>5, <2>1, <3>1, <3>2, <3>3, <4>1 DEF LifeRead, SameLife
    <3>4. CASE state[s] = "USED"
      <4>1. PICK q \in Slot : child[q] = s
        BY <3>4 DEF OneForker
      <4>2. q # z
        BY <1>1, <4>1, InitIsSlot DEF OneForker
      <4>3. GuardianOf(k) = pid[q] /\ GuardianOf(k)' = pid'[q]
        BY <1>6, <2>1, <3>1, <3>4, <4>1 DEF LifeRead
      <4> QED  BY <1>5, <3>2, <4>2, <4>3 DEF SameLife
    <3> QED  BY <3>3, <3>4
  <2>2. CASE \A s \in Slot : state[s] # "UNUSED" => pid[s] # k
    <3>1. \A s \in Slot : state'[s] # "UNUSED" => pid'[s] # k
      BY <1>5, <1>6, <2>2
    <3> QED  BY <1>6, <2>2, <3>1 DEF LifeRead, SameLife
  <2> QED  BY <2>1, <2>2
<1>11. Life!Collect(k0, c)
  BY <1>2, <1>3, <1>8, <1>9, <1>10 DEF Life!Collect, SameLife
<1>12. ActorIn'
  BY ActorType, PTL
<1> QED  BY <1>11, <1>12 DEF Life!Next, ActorIn

LEMMA LifeStep == LifeInv /\ [Next]_procVars => [Life!Next]_(Life!lifeVars)
<1>1. LifeInv => LifeRead
  BY LifeReads DEF LifeInv
<1>2. (LifeInv => LifeRead)'
  BY <1>1, PTL
<1> SUFFICES ASSUME LifeInv, [Next]_procVars PROVE Life!Next
  OBVIOUS
<1>3. LifeInv' /\ LifeRead /\ LifeRead'
  BY <1>1, <1>2, LifeInvStep
<1>4. ASSUME NEW p \in Slot, PidStep(p) \/ ExitFinish(p) PROVE Life!Next
  BY <1>3, <1>4, ForkAllocBears, ForkFailBearsNobody, WaitReapCollects, ExitFinishDies
     DEF PidStep
<1>5. CASE ~\E p \in Slot : PidStep(p) \/ ExitFinish(p)
  BY <1>3, <1>5, QuietSteps
<1> QED  BY <1>4, <1>5

\* For programs that know pids only, the kernel's slots, channels and critical sections
\* do not exist: a process is born by the one that runs, exits once, and is collected
\* once, by its parent or by init after the parent.
THEOREM TableImplementsLife == ProcSpec => ImplementsProcLife
<1>1. Init => Life!Init
  <2> SUFFICES ASSUME Init PROVE Life!Init
    OBVIOUS
  <2>1. LifeRead
    BY ProcInvInit, LifeReads
  <2>2. ASSUME NEW k \in 1..MaxPid
        PROVE  /\ StatusOf(k) = IF k = 1 THEN "live" ELSE "unborn"
               /\ GuardianOf(k) = 0
    BY <2>1, <2>2, InitIsSlot DEF Init, LifeRead
  <2> QED  BY <2>2 DEF Init, Life!Init
<1> QED  BY <1>1, LifeInvInit, LifeInvStep, LifeStep, PTL
         DEF ProcSpec, ImplementsProcLife, Life!Spec
=============================================================================
