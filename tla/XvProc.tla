------------------------------- MODULE XvProc -------------------------------
(***************************************************************************)
(* The process table of the xv6 kernel (xv6-riscv/kernel/proc.c, trap.c,   *)
(* sysproc.c): fork, exit, wait, kill, sleep and wakeup, timer and device  *)
(* interrupts, on the one hart the Makefile boots (CPUS := 1).             *)
(*                                                                         *)
(* A step is what the hart executes between two points at which an         *)
(* interrupt can be taken.  Holding any spinlock turns interrupts off, so  *)
(* the code between acquire and release is one step and the locks          *)
(* themselves need no variable.  Which RUNNABLE process the scheduler      *)
(* dispatches is left open here; module XvSched adds the six policies.     *)
(*                                                                         *)
(* A definition marked "Mutant" is the one that follows it with a bug; no  *)
(* specification uses it.  It shows that the properties notice the bug.    *)
(***************************************************************************)
EXTENDS Naturals

CONSTANTS
  NPROC,      \* slots of the table proc[] (param.h: 64)
  MaxPid,     \* bound on pids handed out, so that nextpid is finite
  Calls,      \* what the programs do: the system calls they make, and faults
  KillPids,   \* the arguments they give to kill()
  IOChans,    \* channels of uninterruptible sleeps: buffers, the log, the disk
  TICKS       \* the channel &ticks, on which sys_pause sleeps

ASSUME NprocAssumption == NPROC \in Nat /\ NPROC >= 2
ASSUME MaxPidAssumption == MaxPid \in Nat /\ MaxPid >= 1
ASSUME CallsAssumption == 
  Calls \subseteq {"fork", "exit", "wait", "pause", "call", "io", "fault"}
ASSUME KillPidsAssumption == KillPids \subseteq 0..MaxPid

Slot == 1..NPROC
InitProc == 1              \* userinit takes the first slot
None == 0                  \* the null pointer: no process, no parent
NoChan == 0
Chan == Slot \cup IOChans \cup {TICKS}     \* kwait sleeps on its own slot

ProcState == {"UNUSED", "USED", "SLEEPING", "RUNNABLE", "RUNNING", "ZOMBIE"}
Live == {"SLEEPING", "RUNNABLE", "RUNNING"}

\* Where a process is: in user code, between the three critical sections of
\* kfork, in the loop of kwait or sys_pause, between two critical sections of a
\* call that leaves the table alone, in an uninterruptible wait, or inside kexit
\* before it takes wait_lock.
ControlPoint == {"user", "fork1", "fork2", "wait", "pause", "call", "io", "exit"}

VARIABLES
  state, pid, parent, chan, killed,   \* fields of struct proc, by slot
  pc,         \* control point of the process in the slot
  child,      \* kfork's local np while a fork is under way
  nextpid,    \* the global pid counter
  cpu,        \* cpus[0].proc: the slot the hart runs, or None
  panicked    \* the kernel has called panic() and spins

procVars == <<state, pid, parent, chan, killed, pc, child, nextpid, cpu, panicked>>

Init ==
  /\ state = [s \in Slot |-> IF s = InitProc THEN "RUNNABLE" ELSE "UNUSED"]
  /\ pid = [s \in Slot |-> IF s = InitProc THEN 1 ELSE 0]
  /\ parent = [s \in Slot |-> None]
  /\ chan = [s \in Slot |-> NoChan]
  /\ killed = [s \in Slot |-> FALSE]
  /\ pc = [s \in Slot |-> "user"]
  /\ child = [s \in Slot |-> None]
  /\ nextpid = 2
  /\ cpu = None
  /\ panicked = FALSE

-----------------------------------------------------------------------------
(* Helpers *)

Running(p) == ~panicked /\ cpu = p /\ state[p] = "RUNNING"

\* A system call starts from user mode; usertrap turns a killed caller away.
AtSyscall(p) == Running(p) /\ pc[p] = "user" /\ ~killed[p]
Asks(p, call) == AtSyscall(p) /\ call \in Calls

Unused == {s \in Slot : state[s] = "UNUSED"}
Lowest(S) == CHOOSE s \in S : \A t \in S : s <= t
Children(p) == {s \in Slot : parent[s] = p}
\* Mutant: kwait does not look at the parent.
ZombiesOfAnyone(p) == {s \in Slot : state[s] = "ZOMBIE"}
Zombies(p) == {s \in Children(p) : state[s] = "ZOMBIE"}

\* wakeup(c): the processes it makes RUNNABLE (never the caller, who RUNs).
Woken(c) == {s \in Slot : state[s] = "SLEEPING" /\ chan[s] = c}
WakeAll(W) == [s \in Slot |-> IF s \in W THEN "RUNNABLE" ELSE state[s]]

\* Mutant: usertrap forgets killed.
ResumedBlindly(p, k) == [pc EXCEPT ![p] = "user"]

\* On the way back to user mode usertrap makes a killed process exit.
Resumed(p, k) == [pc EXCEPT ![p] = IF k[p] THEN "exit" ELSE "user"]

\* Mutant: the hart keeps naming the sleeper.
SleepOnHart(p, c, at) ==
  /\ state' = [state EXCEPT ![p] = "SLEEPING"]
  /\ chan' = [chan EXCEPT ![p] = c]
  /\ pc' = [pc EXCEPT ![p] = at]
  /\ UNCHANGED cpu

\* sleep(c, lk), called at control point at: give up the hart.
SleepOn(p, c, at) ==
  /\ state' = [state EXCEPT ![p] = "SLEEPING"]
  /\ chan' = [chan EXCEPT ![p] = c]
  /\ pc' = [pc EXCEPT ![p] = at]
  /\ cpu' = None

-----------------------------------------------------------------------------
(* fork *)

\* Mutants: pids start again from 1, and run downwards.
AllocPidDown == nextpid' = nextpid - 1
AllocPidAgain == nextpid' = (nextpid % MaxPid) + 1
AllocPid == nextpid' = nextpid + 1

\* allocproc and the copying of the parent, up to release(&np->lock).  The scan for
\* a free slot can be interrupted between two slots, and one it has passed may be
\* freed behind it: np is a slot that is free when the scan gets there.
ForkAlloc(p, np) ==
  /\ Asks(p, "fork") /\ np \in Unused /\ nextpid <= MaxPid
  /\ state' = [state EXCEPT ![np] = "USED"]
  /\ pid' = [pid EXCEPT ![np] = nextpid]
  /\ child' = [child EXCEPT ![p] = np]
  /\ pc' = [pc EXCEPT ![p] = "fork1", ![np] = "user"]
  /\ AllocPid
  /\ UNCHANGED <<parent, chan, killed, cpu, panicked>>

\* A page could not be allocated: freeproc gives the slot back, the pid is spent.
ForkFail(p, np) ==
  /\ Asks(p, "fork") /\ np \in Unused /\ nextpid <= MaxPid
  /\ AllocPid
  /\ killed' = [killed EXCEPT ![np] = FALSE]
  /\ UNCHANGED <<state, pid, parent, chan, pc, child, cpu, panicked>>

\* np->parent = p under wait_lock.
ForkLink(p) ==
  /\ Running(p) /\ pc[p] = "fork1"
  /\ parent' = [parent EXCEPT ![child[p]] = p]
  /\ pc' = [pc EXCEPT ![p] = "fork2"]
  /\ UNCHANGED <<state, pid, chan, killed, child, nextpid, cpu, panicked>>

\* np->state = RUNNABLE, and return to the caller.
ForkReady(p) ==
  /\ Running(p) /\ pc[p] = "fork2"
  /\ state' = [state EXCEPT ![child[p]] = "RUNNABLE"]
  /\ child' = [child EXCEPT ![p] = None]
  /\ pc' = Resumed(p, killed)
  /\ UNCHANGED <<pid, parent, chan, killed, nextpid, cpu, panicked>>

-----------------------------------------------------------------------------
(* exit and wait *)

\* exit(), or any trap from user mode of a killed process.
ExitBegin(p) ==
  /\ Running(p) /\ pc[p] = "user" /\ (killed[p] \/ "exit" \in Calls)
  /\ pc' = [pc EXCEPT ![p] = "exit"]
  /\ UNCHANGED <<state, pid, parent, chan, killed, child, nextpid, cpu, panicked>>

\* An exception usertrap does not know: setkilled(p), then kexit(-1).
Fault(p) ==
  /\ Running(p) /\ pc[p] = "user" /\ "fault" \in Calls
  /\ killed' = [killed EXCEPT ![p] = TRUE]
  /\ pc' = [pc EXCEPT ![p] = "exit"]
  /\ UNCHANGED <<state, pid, parent, chan, child, nextpid, cpu, panicked>>

\* kexit refuses init.
ExitPanic(p) ==
  /\ Running(p) /\ pc[p] = "exit" /\ p = InitProc
  /\ panicked' = TRUE
  /\ UNCHANGED <<state, pid, parent, chan, killed, pc, child, nextpid, cpu>>

\* Mutant: the children keep their dead parent.
ReparentedNot(p) == parent

\* reparent(p)
Reparented(p) == [s \in Slot |-> IF parent[s] = p THEN InitProc ELSE parent[s]]

\* Mutant: kexit wakes init for the orphans but not its own parent.
ExitWakesInit(p) == IF Children(p) = {} THEN {} ELSE Woken(InitProc)

\* reparent wakes init if there was a child, kexit wakes the parent.
ExitWakes(p) == Woken(parent[p]) \cup (IF Children(p) = {} THEN {} ELSE Woken(InitProc))

\* kexit under wait_lock: reparent, wakeup(p->parent), ZOMBIE, and into the
\* scheduler for the last time.
ExitFinish(p) ==
  /\ Running(p) /\ pc[p] = "exit" /\ p # InitProc
  /\ state' = [WakeAll(ExitWakes(p)) EXCEPT ![p] = "ZOMBIE"]
  /\ parent' = Reparented(p)
  /\ cpu' = None
  /\ UNCHANGED <<pid, chan, killed, pc, child, nextpid, panicked>>

\* freeproc(c) as kwait calls it.
Reap(p, c) ==
  /\ state' = [state EXCEPT ![c] = "UNUSED"]
  /\ pid' = [pid EXCEPT ![c] = 0]
  /\ parent' = [parent EXCEPT ![c] = None]
  /\ chan' = [chan EXCEPT ![c] = NoChan]
  /\ killed' = [killed EXCEPT ![c] = FALSE]
  /\ pc' = [Resumed(p, killed) EXCEPT ![c] = "user"]

InWait(p) == Asks(p, "wait") \/ (Running(p) /\ pc[p] = "wait")

WaitReap(p) ==
  /\ InWait(p) /\ Zombies(p) # {}
  /\ Reap(p, Lowest(Zombies(p)))
  /\ UNCHANGED <<child, nextpid, cpu, panicked>>

\* -1: no children or killed; or the exit status cannot be copied to the
\* caller's address (init passes none).
WaitFail(p) ==
  /\ InWait(p)
  /\ IF Zombies(p) = {} THEN Children(p) = {} \/ killed[p] ELSE p # InitProc
  /\ pc' = Resumed(p, killed)
  /\ UNCHANGED <<state, pid, parent, chan, killed, child, nextpid, cpu, panicked>>

WaitSleep(p) ==
  /\ InWait(p) /\ Zombies(p) = {} /\ Children(p) # {} /\ ~killed[p]
  /\ SleepOn(p, p, "wait")
  /\ UNCHANGED <<pid, parent, killed, child, nextpid, panicked>>

-----------------------------------------------------------------------------
(* Other sleeps, kill, interrupts *)

InPause(p) == Asks(p, "pause") \/ (Running(p) /\ pc[p] = "pause")

\* sys_pause: the time is not over and the caller not killed.
PauseSleep(p) ==
  /\ InPause(p) /\ ~killed[p]
  /\ SleepOn(p, TICKS, "pause")
  /\ UNCHANGED <<pid, parent, killed, child, nextpid, panicked>>

\* sys_pause returns: the time is over, or the caller is killed.
PauseDone(p) ==
  /\ Running(p) /\ pc[p] = "pause"
  /\ pc' = Resumed(p, killed)
  /\ UNCHANGED <<state, pid, parent, chan, killed, child, nextpid, cpu, panicked>>

\* A call that takes one critical section after another and leaves the table alone
\* (set_burst_hint): it can be interrupted, and its caller killed, in between.
CallBegin(p) ==
  /\ Asks(p, "call")
  /\ pc' = [pc EXCEPT ![p] = "call"]
  /\ UNCHANGED <<state, pid, parent, chan, killed, child, nextpid, cpu, panicked>>

CallDone(p) ==
  /\ Running(p) /\ pc[p] = "call"
  /\ pc' = Resumed(p, killed)
  /\ UNCHANGED <<state, pid, parent, chan, killed, child, nextpid, cpu, panicked>>

\* A wait for a buffer, the log or the disk does not look at killed.  A
\* process inside kexit may also wait so: closing files commits to the log.
IoSleep(p, c) ==
  /\ \/ Asks(p, "io")
     \/ Running(p) /\ pc[p] = "io"
     \/ Running(p) /\ pc[p] = "exit" /\ p # InitProc /\ "io" \in Calls
  /\ SleepOn(p, c, IF pc[p] = "exit" THEN "exit" ELSE "io")
  /\ UNCHANGED <<pid, parent, killed, child, nextpid, panicked>>

IoDone(p) ==
  /\ Running(p) /\ pc[p] = "io"
  /\ pc' = Resumed(p, killed)
  /\ UNCHANGED <<state, pid, parent, chan, killed, child, nextpid, cpu, panicked>>

\* A device interrupt, or a running process that releases what c stands for.
Wakeup(c) ==
  /\ ~panicked /\ Woken(c) # {}
  /\ state' = WakeAll(Woken(c))
  /\ UNCHANGED <<pid, parent, chan, killed, pc, child, nextpid, cpu, panicked>>

\* Mutant: kkill leaves a sleeper asleep.
StillAsleep(t) == state

\* "Wake process from sleep()."
Unblocked(t) == [state EXCEPT ![t] = IF @ = "SLEEPING" THEN "RUNNABLE" ELSE @]

\* kkill(k) marks the slot its scan finds.  The pid of a free slot is 0, so the
\* scan for 0 finds whichever slot is free when it gets there.
Kill(p, k) ==
  /\ AtSyscall(p)
  /\ \E t \in Slot :
       LET k1 == [killed EXCEPT ![t] = TRUE] IN
       /\ pid[t] = k
       /\ killed' = k1
       /\ state' = Unblocked(t)
       /\ pc' = Resumed(p, k1)
  /\ UNCHANGED <<pid, parent, chan, child, nextpid, cpu, panicked>>

\* The timer interrupts the hart while no process runs.
ClockIdle ==
  /\ ~panicked /\ cpu = None
  /\ state' = WakeAll(Woken(TICKS))
  /\ UNCHANGED <<pid, parent, chan, killed, pc, child, nextpid, cpu, panicked>>

\* Mutant: the check of killed is made inside the kernel too.
KilledAnywhere(p) == [pc EXCEPT ![p] = IF killed[p] THEN "exit" ELSE @]

\* Only an interrupt taken in user mode looks at killed.
AfterClock(p) == IF pc[p] = "user" THEN Resumed(p, killed) ELSE pc

\* The timer interrupts p: clockintr wakes the pausing processes; a killed
\* process caught in user mode exits; otherwise the policy lets it run on ...
ClockRun(p) ==
  /\ Running(p)
  /\ state' = WakeAll(Woken(TICKS))
  /\ pc' = AfterClock(p)
  /\ UNCHANGED <<pid, parent, chan, killed, child, nextpid, cpu, panicked>>

\* ... or makes it yield().
ClockYield(p) ==
  /\ Running(p) /\ ~(pc[p] = "user" /\ killed[p])
  /\ state' = [WakeAll(Woken(TICKS)) EXCEPT ![p] = "RUNNABLE"]
  /\ cpu' = None
  /\ UNCHANGED <<pid, parent, chan, killed, pc, child, nextpid, panicked>>

\* The scheduler runs p; if p was in sleep() it clears its channel.
Dispatch(p) ==
  /\ ~panicked /\ cpu = None /\ state[p] = "RUNNABLE"
  /\ state' = [state EXCEPT ![p] = "RUNNING"]
  /\ chan' = [chan EXCEPT ![p] = NoChan]
  /\ cpu' = p
  /\ UNCHANGED <<pid, parent, killed, pc, child, nextpid, panicked>>

\* panic() loops for ever.
Spin == panicked /\ UNCHANGED procVars

-----------------------------------------------------------------------------
Next ==
  \/ \E p \in Slot :
       \/ \E np \in Slot : ForkAlloc(p, np) \/ ForkFail(p, np)
       \/ ForkLink(p) \/ ForkReady(p)
       \/ ExitBegin(p) \/ Fault(p) \/ ExitPanic(p) \/ ExitFinish(p)
       \/ WaitReap(p) \/ WaitFail(p) \/ WaitSleep(p)
       \/ PauseSleep(p) \/ PauseDone(p) \/ IoDone(p)
       \/ CallBegin(p) \/ CallDone(p)
       \/ ClockRun(p) \/ ClockYield(p) \/ Dispatch(p)
       \/ \E c \in IOChans : IoSleep(p, c)
       \/ \E k \in KillPids : Kill(p, k)
  \/ \E c \in IOChans : Wakeup(c)
  \/ ClockIdle
  \/ Spin

ProcSpec == Init /\ [][Next]_procVars

-----------------------------------------------------------------------------
(* Properties *)

\* Every variable stays in its type.
TypeOK ==
  /\ state \in [Slot -> ProcState]
  /\ pid \in [Slot -> Nat]
  /\ parent \in [Slot -> Slot \cup {None}]
  /\ chan \in [Slot -> Chan \cup {NoChan}]
  /\ killed \in [Slot -> BOOLEAN]
  /\ pc \in [Slot -> ControlPoint]
  /\ child \in [Slot -> Slot \cup {None}]
  /\ nextpid \in Nat
  /\ cpu \in Slot \cup {None}
  /\ panicked \in BOOLEAN

\* cpus[0].proc names the RUNNING process, and no other process is RUNNING:
\* every path that gives up the hart changes both.
RunnerAgrees == \A s \in Slot : (state[s] = "RUNNING") <=> (cpu = s)

\* Every process but init that has been made runnable, even a zombie, has a
\* parent that can still wait for it: reparent leaves no child behind, kfork
\* links the child before it can run, and no parent's slot is freed under it.
ParentCanWait ==
  \A s \in Slot :
    /\ state[s] \in Live \cup {"ZOMBIE"} /\ s # InitProc => parent[s] # None
    /\ parent[s] # None => state[parent[s]] \in Live

\* A USED slot belongs to exactly one fork in progress, which is not asleep and
\* has linked it precisely when it says so: no slot is lost between the critical
\* sections of kfork, and no two forks share one.
OneForker ==
  /\ \A p \in Slot :
       IF pc[p] \in {"fork1", "fork2"}
       THEN /\ child[p] # None /\ state[child[p]] = "USED"
            /\ state[p] \in {"RUNNABLE", "RUNNING"}
            /\ parent[child[p]] = IF pc[p] = "fork1" THEN None ELSE p
       ELSE child[p] = None
  /\ \A s \in Slot : state[s] = "USED" => \E p \in Slot : child[p] = s
  /\ \A p, q \in Slot : child[p] = child[q] /\ child[p] # None => p = q

\* No exit is lost: a process asleep in kwait has a child to wait for, none of
\* its children is a zombie yet, and it sleeps where kexit will look for it.
NoLostExit ==
  \A p \in Slot : state[p] = "SLEEPING" /\ pc[p] = "wait" =>
    /\ chan[p] = p
    /\ Children(p) # {} /\ Zombies(p) = {}

\* No kill is lost: a killed process is never asleep in an interruptible wait
\* (kwait, sys_pause), however kill falls between the test of killed and sleep.
NoLostKill ==
  \A s \in Slot : state[s] = "SLEEPING" /\ killed[s] => pc[s] \in {"io", "exit"}

\* Two processes never share a pid, and no pid is handed out twice.
PidsUnique ==
  \A s \in Slot : state[s] # "UNUSED" =>
    /\ pid[s] \in 1..(nextpid - 1)
    /\ \A t \in Slot : t # s => pid[t] # pid[s]

\* What the invariants above need beside each other: init never dies, a free slot
\* is clean, and only the sleeping system calls sleep.
Shape ==
  /\ state[InitProc] \in Live /\ parent[InitProc] = None
  /\ \A s \in Slot :
       /\ state[s] = "UNUSED" => parent[s] = None /\ pid[s] = 0
       /\ state[s] = "SLEEPING" => pc[s] \in {"wait", "pause", "io", "exit"}
  /\ nextpid >= 2

ProcInv ==
  /\ TypeOK /\ Shape /\ RunnerAgrees /\ ParentCanWait /\ OneForker
  /\ NoLostExit /\ NoLostKill /\ PidsUnique

-----------------------------------------------------------------------------
(* The life of a pid *)

\* The slot a pid occupies, if any; the parent kfork will give a USED child.
Holders(k) == {s \in Slot : state[s] # "UNUSED" /\ pid[s] = k}
ForkerOf(s) == CHOOSE p \in Slot : child[p] = s
Responsible(s) == IF state[s] = "USED" THEN ForkerOf(s) ELSE parent[s]

StatusOf(k) ==
  IF Holders(k) = {} THEN (IF k < nextpid THEN "gone" ELSE "unborn")
  ELSE IF state[Lowest(Holders(k))] = "ZOMBIE" THEN "zombie" ELSE "live"

GuardianOf(k) ==
  IF Holders(k) = {} \/ Responsible(Lowest(Holders(k))) = None THEN 0
  ELSE pid[Responsible(Lowest(Holders(k)))]

Life == INSTANCE ProcLife WITH
          Pids <- 1..MaxPid, InitPid <- 1, NoPid <- 0,
          status <- [k \in 1..MaxPid |-> StatusOf(k)],
          guardian <- [k \in 1..MaxPid |-> GuardianOf(k)],
          actor <- IF cpu = None THEN 0 ELSE pid[cpu]

\* The process table implements the life of pids: fork, exit with its
\* reparenting, and wait (proc.c kfork, kexit, kwait) do nothing else to them.
ImplementsProcLife == Life!Spec
=============================================================================
