------------------------------ MODULE Console ------------------------------
(***************************************************************************)
(* One run of user/schedtest.c under QEMU as the host sees it: the lines   *)
(* that reach the console.  The kernel prints a line in one piece, a       *)
(* process character by character, so a preemption may cut a line of a     *)
(* process in two.  Which of the ready processes runs next is XvSched's    *)
(* business and left open here.  Left out are the lines QUEUE_CHANGE and   *)
(* PRED_UPDATE, which no metric reads, and a wait for the UART inside a    *)
(* line, which costs a process time and says nothing.                      *)
(*                                                                         *)
(* A line is [words, ev]: the words the host looks for in its text, and    *)
(* the event a parser of the line finds (NoEvent if it finds none).        *)
(***************************************************************************)
EXTENDS Numbers, Sequences, FiniteSets

CONSTANTS
  Workload,     \* the processes of the profile in fork order: [arrival, burst]
  LastTick,     \* bound: no tick after this one
  Jitter        \* by how many ticks a burst may be longer than its nominal length

ASSUME WorkloadAssumption ==
  /\ Workload \in Seq([arrival : Nat, burst : Nat])
  /\ LastTick \in Nat /\ Jitter \in Nat

Harness == 3
Child == {Harness + i : i \in DOMAIN Workload}
Task == {Harness} \cup Child
Def(p) == Workload[p - Harness]

Ev(name, pid, tick, arrival) == [event |-> name, pid |-> pid, tick |-> tick, arrival |-> arrival]
NoEvent == Ev("none", NULL, NULL, NULL)
AlgoWord(algo) == <<"algo=", algo>>
Marker == <<"[SCHEDTEST]", "">>
RunBegin == <<"RUN_BEGIN", "">>
RunEnd == <<"RUN_END", "">>

VARIABLES
  job,          \* the scheduler asked for: [algo, slices], the lengths a slice may
                \* have, none if it does not preempt
  tick, mode,   \* ticks, sched_mode
  cpu, ran,     \* who runs, and for how many ticks since its dispatch
  st,           \* by task: none, ready, running, gate, pause, wait, zombie
  used, defined,    \* by task: ticks charged; whether PROC_DEF has been printed
  released,     \* the children whose gate is open
  at, until,    \* where the harness is; the end of its pause
  t0,           \* the tick the planned arrivals count from
  console,
  first, end,   \* history, by child: tick of the first dispatch, of the exit,
  hidden        \* and the ticks of slices that ended at the gate, without a line

runVars == <<tick, mode, cpu, ran, st, used, defined, released, at, until, t0, console,
             first, end, hidden>>
consoleVars == <<job, runVars>>

-----------------------------------------------------------------------------
(* Lines.                                                                  *)

KernelLine(name, p, now) ==
  [words |-> {AlgoWord(mode)}, ev |-> Ev(name, p, now, NULL)]

UserLine(words, ev) == [words |-> words \cup {Marker}, ev |-> ev]
Write(lines) == console' = console \o lines

\* Boot: the shell has been dispatched under round robin.
BootLines ==
  [i \in 1..2 |-> [words |-> {AlgoWord("RR")}, ev |-> Ev("DISPATCH", i, 0, NULL)]]

ConsoleInit ==
  /\ tick = 0 /\ mode = "RR" /\ cpu = Harness /\ ran = 0
  /\ st = [p \in Task |-> IF p = Harness THEN "running" ELSE "none"]
  /\ used = [p \in Child |-> 0]
  /\ defined = {} /\ released = {}
  /\ at = "begin" /\ until = 0 /\ t0 = NULL
  /\ console = BootLines
  /\ first = [p \in Child |-> NULL] /\ end = [p \in Child |-> NULL]
  /\ hidden = [p \in Child |-> 0]

-----------------------------------------------------------------------------
(* Time.                                                                   *)

\* Until the harness has switched, the boot scheduler and its slice of one tick.
Slices == IF at \in {"begin", "rest", "tail", "switch"} THEN {1} ELSE job.slices
MayExpire == ran + 1 \in Slices
Expires == MayExpire /\ \A s \in Slices : s <= ran + 1

Ready == {p \in Task : st[p] = "ready"}

\* A tick, and what it does to whoever runs, preempted or not; cut is the part of a
\* user line that the preemption cuts off.  Whoever pauses is woken by every tick.  A
\* ready process waits for no tick while the CPU is free.
Pass(cut, preempts) ==
  LET now == tick + 1
  IN  /\ tick < LastTick
      /\ preempts => cpu # NULL /\ MayExpire
      /\ cpu # NULL /\ Expires => preempts
      /\ cpu = NULL => Ready = {}
      /\ cpu \in Child => used[cpu] - hidden[cpu] < Def(cpu).burst + Jitter
      /\ tick' = now
      /\ ran' = ran + 1
      /\ cpu' = IF preempts THEN NULL ELSE cpu
      /\ st' = [p \in Task |->
                  IF p = cpu /\ preempts THEN "ready"
                  ELSE IF st[p] = "pause" THEN "ready"
                  ELSE st[p]]
      /\ used' = [p \in Child |-> IF p = cpu THEN used[p] + 1 ELSE used[p]]
      /\ Write(IF preempts
               THEN <<[words |-> cut \cup {AlgoWord(mode)}, ev |-> Ev("PREEMPT", cpu, now, NULL)]>>
               ELSE << >>)

Tick ==
  /\ at # "done"
  /\ \E preempts \in BOOLEAN : Pass({}, preempts)
  /\ UNCHANGED <<job, mode, defined, released, at, until, t0, first, end, hidden>>

Dispatch(p) ==
  /\ cpu = NULL /\ p \in Ready
  /\ cpu' = p /\ ran' = 0
  /\ st' = [st EXCEPT ![p] = "running"]
  /\ first' = IF p \in Child /\ first[p] = NULL THEN [first EXCEPT ![p] = tick] ELSE first
  /\ Write(<<KernelLine("DISPATCH", p, tick)>>)
  /\ UNCHANGED <<job, tick, mode, used, defined, released, at, until, t0, end, hidden>>

-----------------------------------------------------------------------------
(* The harness: run_one of schedtest.                                      *)

HarnessAt(point) == cpu = Harness /\ at = point
HarnessStill == UNCHANGED <<job, tick, ran, used, defined, first, end, hidden>>

\* RUN_BEGIN in one piece.
BeginWhole ==
  /\ HarnessAt("begin")
  /\ Write(<<UserLine({RunBegin, AlgoWord(job.algo)}, Ev("RUN_BEGIN", NULL, NULL, NULL))>>)
  /\ at' = "switch"
  /\ HarnessStill /\ UNCHANGED <<mode, cpu, st, released, until, t0>>

\* RUN_BEGIN cut in two: what is printed before the preemption.  The word itself
\* is whole in the second half unless the cut falls in it or after it.
BeginCuts == {{}, {Marker}, {Marker, RunBegin}}

BeginCut ==
  \E cut \in BeginCuts, whole \in BOOLEAN :
    /\ HarnessAt("begin")
    /\ cut = {} => whole
    /\ whole => RunBegin \notin cut
    /\ Pass(cut, TRUE)
    /\ at' = IF whole THEN "rest" ELSE "tail"
    /\ UNCHANGED <<job, mode, defined, released, until, t0, first, end, hidden>>

\* The second half, without the marker; the word itself may have been cut too.
BeginRest ==
  /\ cpu = Harness /\ at \in {"rest", "tail"}
  /\ Write(<<[words |-> {AlgoWord(job.algo)} \cup (IF at = "rest" THEN {RunBegin} ELSE {}),
              ev |-> NoEvent]>>)
  /\ at' = "switch"
  /\ HarnessStill /\ UNCHANGED <<mode, cpu, st, released, until, t0>>

\* setscheduler, and the lines about the parameters.
Switch ==
  /\ HarnessAt("switch")
  /\ mode' = job.algo
  /\ at' = "tsync"
  /\ HarnessStill /\ UNCHANGED <<cpu, st, released, until, t0, console>>

\* tsync = uptime(); while(uptime() == tsync); t0 = uptime()
Sync ==
  /\ HarnessAt("tsync")
  /\ at' = "edge" /\ until' = tick
  /\ HarnessStill /\ UNCHANGED <<mode, cpu, st, released, t0, console>>

Edge ==
  /\ HarnessAt("edge") /\ tick # until
  /\ at' = "loop" /\ t0' = tick
  /\ HarnessStill /\ UNCHANGED <<mode, cpu, st, released, until, console>>

Unforked == {p \in Child : st[p] = "none"}
NextChild == CHOOSE p \in Unforked : \A q \in Unforked : p <= q

\* pause(need) before the next fork, if its time has not come.
PauseBeforeFork ==
  /\ HarnessAt("loop") /\ Unforked # {}
  /\ Def(NextChild).arrival > tick - t0
  /\ at' = "pause" /\ until' = t0 + Def(NextChild).arrival
  /\ st' = [st EXCEPT ![Harness] = "pause"] /\ cpu' = NULL
  /\ HarnessStill /\ UNCHANGED <<mode, released, t0, console>>

\* sys_pause finds that it has been woken too early.
PauseOn ==
  /\ HarnessAt("pause") /\ tick < until
  /\ st' = [st EXCEPT ![Harness] = "pause"] /\ cpu' = NULL
  /\ HarnessStill /\ UNCHANGED <<mode, released, at, until, t0, console>>

Fork ==
  /\ \/ HarnessAt("loop") /\ Unforked # {} /\ Def(NextChild).arrival <= tick - t0
     \/ HarnessAt("pause") /\ tick >= until
  /\ st' = [st EXCEPT ![NextChild] = "ready"]
  /\ at' = "gate"
  /\ HarnessStill /\ UNCHANGED <<mode, cpu, released, until, t0, console>>

\* The write that opens the gate of the child just forked.
Release ==
  /\ HarnessAt("gate")
  /\ LET p == CHOOSE q \in Child \ Unforked : \A c \in Child \ Unforked : c <= q
     IN  /\ released' = released \cup {p}
         /\ st' = [st EXCEPT ![p] = IF @ = "gate" THEN "ready" ELSE @]
  /\ at' = IF Unforked = {} THEN "wait" ELSE "loop"
  /\ HarnessStill /\ UNCHANGED <<mode, cpu, until, t0, console>>

Unfinished == {p \in Child : st[p] # "zombie"}

WaitSleep ==
  /\ HarnessAt("wait") /\ Unfinished # {}
  /\ st' = [st EXCEPT ![Harness] = "wait"] /\ cpu' = NULL
  /\ HarnessStill /\ UNCHANGED <<mode, released, at, until, t0, console>>

End ==
  /\ HarnessAt("wait") /\ Unfinished = {}
  /\ Write(<<UserLine({RunEnd}, Ev("RUN_END", NULL, NULL, NULL))>>)
  /\ at' = "done"
  /\ HarnessStill /\ UNCHANGED <<mode, cpu, st, released, until, t0>>

-----------------------------------------------------------------------------
(* A child.                                                                *)

\* It finds its gate closed.
Gated(p) ==
  /\ cpu = p /\ p \notin released
  /\ st' = [st EXCEPT ![p] = "gate"] /\ cpu' = NULL
  /\ hidden' = [hidden EXCEPT ![p] = @ + ran]
  /\ UNCHANGED <<job, tick, mode, ran, used, defined, released, at, until, t0, console, first, end>>

Defines(p) ==
  /\ cpu = p /\ p \in released \ defined
  /\ defined' = defined \cup {p}
  /\ Write(<<UserLine({}, Ev("PROC_DEF", p, NULL, Def(p).arrival))>>)
  /\ UNCHANGED <<job, tick, mode, cpu, ran, st, used, released, at, until, t0, first, end, hidden>>

\* PROC_DEF is cut: the line is lost, the kernel's is not.
DefineCut(p) ==
  \E cut \in {{}, {Marker}} :
    /\ cpu = p /\ p \in released \ defined
    /\ defined' = defined \cup {p}
    /\ Pass(cut, TRUE)
    /\ UNCHANGED <<job, mode, released, at, until, t0, first, end, hidden>>

Exits(p) ==
  /\ cpu = p /\ p \in defined /\ used[p] - hidden[p] >= Def(p).burst
  /\ st' = [st EXCEPT ![p] = "zombie", ![Harness] = IF @ = "wait" THEN "ready" ELSE @]
  /\ end' = [end EXCEPT ![p] = tick]
  /\ cpu' = NULL
  /\ Write(<<KernelLine("EXIT", p, tick)>>)
  /\ UNCHANGED <<job, tick, mode, ran, used, defined, released, at, until, t0, first, hidden>>

ConsoleNext ==
  \/ Tick
  \/ \E p \in Task : Dispatch(p)
  \/ BeginWhole \/ BeginCut \/ BeginRest \/ Switch \/ Sync \/ Edge
  \/ PauseBeforeFork \/ PauseOn \/ Fork \/ Release \/ WaitSleep \/ End
  \/ \E p \in Child : Gated(p) \/ Defines(p) \/ DefineCut(p) \/ Exits(p)
=============================================================================
