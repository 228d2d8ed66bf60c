------------------------------- MODULE XvSched -------------------------------
(***************************************************************************)
(* The schedulers of the kernel: RR, FCFS, PRIORITY with aging, MLFQ with  *)
(* boost, predicted SJF and predicted SRTF (xv6-riscv/kernel/proc.c), the  *)
(* timer's accounting and preemption (trap.c timer_yield_or_tick), and the *)
(* system calls that configure them (sysproc.c).                           *)
(*                                                                         *)
(* Every action is an action of the process table, XvProc, together with   *)
(* what the code around it does to the scheduler's fields.                 *)
(***************************************************************************)
EXTENDS XvProc, Integers, Sequences

CONSTANTS
  BootConfigs,       \* values of the configuration globals when the workload starts
  DefaultPriority,   \* allocproc's p->priority (10)
  Modes,             \* modes the processes switch to with setscheduler()
  RRQuanta, AgingThresholds, MlfqParams, MlfqBoosts, PredictorParams,
                     \* arguments of the configuration system calls
  Priorities, Hints, \* arguments of setpriority() and setbursthint()
  MaxTicks,          \* ticks saturates here
  MaxBurst,          \* cur_burst_run saturates here
  MaxWait            \* wait_ticks saturates here

MLFQ_MAX_QUEUES == 5
AllModes == {"RR", "FCFS", "PRIORITY", "MLFQ", "SJF", "SRTF"}
MAX_ROUNDS == 10000        \* of aging and of boosting
MAX_PREDICTION == 100000

\* sched_mode, rr_quantum, priority_aging_threshold, mlfq_cfg and pred.
Config ==
  [sched_mode : AllModes, rr_quantum : 1..100, aging : 1..MAX_ROUNDS,
   queues : 2..MLFQ_MAX_QUEUES, quantum : [1..MLFQ_MAX_QUEUES -> 1..100],
   boost_interval : 1..MAX_ROUNDS,
   alpha : 0..100, initial : 1..MAX_PREDICTION,
   min : 1..MAX_PREDICTION, max : 1..MAX_PREDICTION]

ASSUME BootConfigsAssumption ==
  BootConfigs \subseteq Config /\ \A c \in BootConfigs : c.min <= c.max
ASSUME DefaultPriorityAssumption == DefaultPriority \in 0..20
ASSUME ModesAssumption == Modes \subseteq AllModes
ASSUME ArgumentsAssumption ==
  /\ RRQuanta \subseteq Int /\ AgingThresholds \subseteq Int /\ MlfqBoosts \subseteq Int
  /\ \A m \in MlfqParams : m.queues \in Int /\ m.quantum \in [1..MLFQ_MAX_QUEUES -> Int]
  /\ \A a \in PredictorParams :
       a.alpha \in Int /\ a.initial \in Int /\ a.min \in Int /\ a.max \in Int
  /\ Priorities \subseteq Int /\ Hints \subseteq Int
ASSUME BoundsAssumption ==
  MaxTicks \in Nat \ {0} /\ MaxBurst \in Nat \ {0} /\ MaxWait \in Nat \ {0}

VARIABLES
  ticks,      \* the clock
  cfg,        \* the configuration globals
  sp,         \* the scheduler fields of struct proc, by slot
  rrpos,      \* sched_rr's loop has got past this slot; 0 outside a pass
  intr,       \* between two iterations of that loop interrupts are enabled
  hint        \* set_burst_hint's local predicted_burst, by slot of the caller, while
              \* the call is under way (0 otherwise)

schedVars == <<ticks, cfg, sp, rrpos, intr, hint>>
vars == <<procVars, schedVars>>

-----------------------------------------------------------------------------
(* Helpers *)

Sat(n, bound) == IF n < bound THEN n + 1 ELSE bound

Clamp(n, lo, hi) == IF n > hi THEN hi ELSE IF n < lo THEN lo ELSE n

\* allocproc's and freeproc's values.
FreshProc ==
  [priority |-> DefaultPriority, ctime |-> ticks, queue_level |-> 0,
   ticks_in_level |-> 0, wait_ticks |-> 0,
   predicted_burst |-> Clamp(cfg.initial, cfg.min, cfg.max),
   cur_burst_run |-> 0, ready_since_tick |-> ticks]
FreedProc ==
  [priority |-> 0, ctime |-> 0, queue_level |-> 0, ticks_in_level |-> 0,
   wait_ticks |-> 0, predicted_burst |-> 0, cur_burst_run |-> 0,
   ready_since_tick |-> 0]

\* Mutant: waking up is arriving.
StampedArrival(f, W, now) ==
  [s \in Slot |-> IF s \in W THEN [f[s] EXCEPT !.ready_since_tick = now, !.ctime = now] ELSE f[s]]

\* wakeup() stamps the processes it makes RUNNABLE.
Stamped(f, W, now) ==
  [s \in Slot |-> IF s \in W THEN [f[s] EXCEPT !.ready_since_tick = now] ELSE f[s]]

\* update_burst_prediction: exponential average of the burst just observed.
BurstEnded(r) ==
  IF r.cur_burst_run = 0 THEN r
  ELSE LET np == (cfg.alpha * r.cur_burst_run
                    + (100 - cfg.alpha) * r.predicted_burst) \div 100
       IN [r EXCEPT !.predicted_burst = Clamp(np, cfg.min, cfg.max),
                    !.cur_burst_run = 0]

\* Mutant: a level that is no longer a queue counts as the first.
MlfqQuantumOfFirst(level) ==
  cfg.quantum[IF level >= cfg.queues THEN 1 ELSE level + 1]

\* get_mlfq_quantum: levels beyond the configured queues count as the lowest.
MlfqQuantum(level) ==
  cfg.quantum[IF level >= cfg.queues THEN cfg.queues ELSE level + 1]

PredictedRemaining(r) ==
  LET rem == r.predicted_burst - r.cur_burst_run
  IN IF rem < cfg.min THEN cfg.min ELSE rem

\* What each policy minimises; the last part breaks every tie.
Key(r, k) ==
  CASE cfg.sched_mode = "FCFS"     -> <<0, r.ctime, k>>
    [] cfg.sched_mode = "PRIORITY" -> <<r.priority, r.ctime, k>>
    [] cfg.sched_mode = "MLFQ"     -> <<r.queue_level, r.ctime, k>>
    [] cfg.sched_mode = "SJF"      -> <<r.predicted_burst, r.ready_since_tick, k>>
    [] cfg.sched_mode = "SRTF"     -> <<PredictedRemaining(r), r.ready_since_tick, k>>

\* Mutant: the pid does not break a tie.
BeforeOnTime(a, b) == a[1] < b[1] \/ (a[1] = b[1] /\ a[2] < b[2])

Before(a, b) ==
  \/ a[1] < b[1]
  \/ a[1] = b[1] /\ a[2] < b[2]
  \/ a[1] = b[1] /\ a[2] = b[2] /\ a[3] < b[3]

\* Mutant: one round late.
OverdueLate(w, limit) == w > limit
Overdue(w, limit) == w >= limit

\* One round of waiting, counted while the policies scan the table: PRIORITY
\* ages, MLFQ boosts, the others do not count.
Waited(r) ==
  LET w == Sat(r.wait_ticks, MaxWait) IN
  CASE cfg.sched_mode = "PRIORITY" ->
         IF Overdue(w, cfg.aging) /\ r.priority > 0
         THEN [r EXCEPT !.priority = @ - 1, !.wait_ticks = 0]
         ELSE [r EXCEPT !.wait_ticks = w]
    [] cfg.sched_mode = "MLFQ" ->
         IF Overdue(w, cfg.boost_interval) /\ r.queue_level > 0
         THEN [r EXCEPT !.queue_level = 0, !.ticks_in_level = 0, !.wait_ticks = 0]
         ELSE [r EXCEPT !.wait_ticks = w]
    [] OTHER -> r

\* Mutant: one tick too many.
ExpiresLate(p) ==
  LET r == sp[p] IN
  CASE cfg.sched_mode \in {"FCFS", "SJF"} -> FALSE
    [] cfg.sched_mode = "RR"   -> r.ticks_in_level >= cfg.rr_quantum
    [] cfg.sched_mode = "MLFQ" -> r.ticks_in_level >= MlfqQuantum(r.queue_level)
    [] OTHER -> TRUE

\* timer_yield_or_tick: does this tick make p yield, and what it costs p.
Expires(p) ==
  LET r == sp[p] IN
  CASE cfg.sched_mode \in {"FCFS", "SJF"} -> FALSE
    [] cfg.sched_mode = "RR"   -> r.ticks_in_level + 1 >= cfg.rr_quantum
    [] cfg.sched_mode = "MLFQ" -> r.ticks_in_level + 1 >= MlfqQuantum(r.queue_level)
    [] OTHER -> TRUE

\* Mutant: the lowest queue is not the last stop.
DemotedBelow(level) == level + 1
Demoted(level) == IF level < cfg.queues - 1 THEN level + 1 ELSE level

\* Mutant: being preempted ends the burst.
ChargedAsBurst(p) == BurstEnded([sp[p] EXCEPT !.cur_burst_run = Sat(@, MaxBurst)])

Charged(p) ==
  LET r == [sp[p] EXCEPT !.cur_burst_run = Sat(@, MaxBurst)] IN
  CASE cfg.sched_mode \in {"RR", "MLFQ"} /\ ~Expires(p) ->
         [r EXCEPT !.ticks_in_level = @ + 1]
    [] cfg.sched_mode = "RR" /\ Expires(p) -> [r EXCEPT !.ticks_in_level = 0]
    [] cfg.sched_mode = "MLFQ" /\ Expires(p) ->
         [r EXCEPT !.ticks_in_level = 0, !.queue_level = Demoted(@)]
    [] OTHER -> r

-----------------------------------------------------------------------------
SchedInit ==
  /\ Init
  /\ ticks = 0
  /\ cfg \in BootConfigs
  /\ rrpos = 0
  /\ intr = FALSE
  /\ hint = [s \in Slot |-> 0]
  /\ sp = [s \in Slot |-> IF s = InitProc THEN FreshProc ELSE FreedProc]

(* Processes *)

\* kfork: the child starts fresh but for the parent's priority.
SForkAlloc(p, np) ==
  /\ ForkAlloc(p, np)
  /\ sp' = [sp EXCEPT ![np] = [FreshProc EXCEPT !.priority = sp[p].priority]]
  /\ UNCHANGED <<ticks, cfg, rrpos, intr, hint>>

SForkFail(p, np) ==
  /\ ForkFail(p, np)
  /\ sp' = [sp EXCEPT ![np] = FreedProc]
  /\ UNCHANGED <<ticks, cfg, rrpos, intr, hint>>

\* kexit wakes the parent and, for orphans, init.  Interrupts stay off in the
\* scheduler if the exit began in a timer interrupt.
SExitFinish(p) ==
  /\ ExitFinish(p)
  /\ sp' = Stamped(sp, {s \in Slot : state[s] = "SLEEPING" /\ state'[s] = "RUNNABLE"}, ticks)
  /\ intr' \in BOOLEAN
  /\ UNCHANGED <<ticks, cfg, rrpos, hint>>

SReap(p) ==
  /\ WaitReap(p)
  /\ sp' = [sp EXCEPT ![Lowest(Zombies(p))] = FreedProc]
  /\ UNCHANGED <<ticks, cfg, rrpos, intr, hint>>

\* sleep() ends the CPU burst.
SSleep(p) ==
  /\ WaitSleep(p) \/ PauseSleep(p) \/ \E c \in IOChans : IoSleep(p, c)
  /\ sp' = [sp EXCEPT ![p] = BurstEnded(@)]
  /\ intr' = TRUE
  /\ UNCHANGED <<ticks, cfg, rrpos, hint>>

\* Steps of a process that the schedulers do not see, kkill among them: unlike
\* wakeup() it makes a sleeper RUNNABLE without touching its scheduler fields.
SOther(p) ==
  /\ \/ ForkLink(p) \/ ForkReady(p) \/ ExitBegin(p) \/ Fault(p) \/ ExitPanic(p)
     \/ WaitFail(p) \/ PauseDone(p) \/ IoDone(p)
     \/ \E k \in KillPids : Kill(p, k)
  /\ UNCHANGED schedVars

-----------------------------------------------------------------------------
(* The scheduler *)

\* Interrupts reach the hart everywhere but inside a pass of sched_rr that was
\* entered with interrupts off.
Interruptible == cpu # None \/ rrpos = 0 \/ intr

\* sched_rr walks the table slot by slot and releases each lock before the next: a
\* process that wakes up behind it is not run in this pass, one ahead of it is.
\* The pass goes on to the end of the table even if the mode has changed under it.
AtSlot(p) == (cfg.sched_mode = "RR" \/ rrpos > 0) /\ p = rrpos + 1

\* The slot is RUNNABLE and gets the hart.
DispatchRR(p) ==
  /\ AtSlot(p)
  /\ Dispatch(p)
  /\ sp' = [sp EXCEPT ![p].wait_ticks = 0, ![p].ticks_in_level = 0]
  /\ rrpos' = p
  /\ UNCHANGED <<ticks, cfg, intr, hint>>

\* It is not, and is passed.  scheduler() has turned interrupts off before the first.
RRSkip(p) ==
  /\ ~panicked /\ cpu = None /\ AtSlot(p) /\ state[p] # "RUNNABLE"
  /\ rrpos' = p
  /\ intr' = (intr /\ rrpos > 0)
  /\ UNCHANGED <<procVars, ticks, cfg, sp, hint>>

\* Mutant: the loop starts again at the first slot after every dispatch.
RRPassBreaks ==
  /\ ~panicked /\ cpu = None /\ rrpos > 0
  /\ rrpos' = 0
  /\ UNCHANGED <<procVars, ticks, cfg, sp, intr, hint>>

RRPassEnds ==
  /\ ~panicked /\ cpu = None /\ rrpos = NPROC
  /\ rrpos' = 0
  /\ UNCHANGED <<procVars, ticks, cfg, sp, intr, hint>>

\* The other policies scan the whole table and run the best; the scan and the
\* dispatch are one step, with interrupts off.
DispatchBest(p) ==
  /\ cfg.sched_mode # "RR" /\ rrpos = 0
  /\ Dispatch(p)
  /\ LET scanned == [s \in Slot |-> IF state[s] = "RUNNABLE" THEN Waited(sp[s]) ELSE sp[s]]
     IN /\ \A s \in Slot : state[s] = "RUNNABLE" =>
             ~Before(Key(scanned[s], pid[s]), Key(scanned[p], pid[p]))
        /\ sp' = [scanned EXCEPT
                    ![p].wait_ticks = 0,
                    ![p].ticks_in_level = IF cfg.sched_mode = "MLFQ" THEN 0 ELSE @]
  /\ UNCHANGED <<ticks, cfg, rrpos, intr, hint>>

-----------------------------------------------------------------------------
(* Interrupts *)

SWakeup(c) ==
  /\ Interruptible
  /\ Wakeup(c)
  /\ sp' = Stamped(sp, Woken(c), ticks)
  /\ UNCHANGED <<ticks, cfg, rrpos, intr, hint>>

\* clockintr while no process runs.
SClockIdle ==
  /\ Interruptible
  /\ ClockIdle
  /\ ticks' = Sat(ticks, MaxTicks)
  /\ sp' = Stamped(sp, Woken(TICKS), ticks')
  /\ UNCHANGED <<cfg, rrpos, intr, hint>>

\* clockintr, then timer_yield_or_tick unless the process turns out killed.
SClock(p) ==
  /\ ticks' = Sat(ticks, MaxTicks)
  /\ IF pc[p] = "user" /\ killed[p]
     THEN /\ ClockRun(p)
          /\ sp' = Stamped(sp, Woken(TICKS), ticks')
          /\ UNCHANGED intr
     ELSE IF Expires(p)
     THEN /\ ClockYield(p)
          /\ sp' = Stamped([sp EXCEPT ![p] = Charged(p)], Woken(TICKS) \cup {p}, ticks')
          /\ intr' = FALSE
     ELSE /\ ClockRun(p)
          /\ sp' = Stamped([sp EXCEPT ![p] = Charged(p)], Woken(TICKS), ticks')
          /\ UNCHANGED intr
  /\ UNCHANGED <<cfg, rrpos, hint>>

-----------------------------------------------------------------------------
(* Configuration; a call with a rejected argument changes nothing *)

Configure(p, c) ==
  /\ AtSyscall(p)
  /\ cfg' = c
  /\ UNCHANGED <<procVars, ticks, sp, rrpos, intr, hint>>

SetScheduler(p, m) == Configure(p, [cfg EXCEPT !.sched_mode = m])

SetRRQuantum(p, q) == q \in 1..100 /\ Configure(p, [cfg EXCEPT !.rr_quantum = q])

SetPriorityAging(p, t) == t \in 1..MAX_ROUNDS /\ Configure(p, [cfg EXCEPT !.aging = t])

\* Slots beyond the last queue repeat its quantum.
SetMlfqParams(p, m) ==
  /\ m.queues \in 2..MLFQ_MAX_QUEUES
  /\ \A i \in 1..m.queues : m.quantum[i] \in 1..100
  /\ Configure(p, [cfg EXCEPT
       !.queues = m.queues,
       !.quantum = [i \in 1..MLFQ_MAX_QUEUES |->
                      m.quantum[IF i <= m.queues THEN i ELSE m.queues]]])

SetMlfqBoost(p, b) == b \in 1..MAX_ROUNDS /\ Configure(p, [cfg EXCEPT !.boost_interval = b])

SetPredictor(p, a) ==
  /\ a.alpha \in 0..100 /\ a.initial >= 1
  /\ a.min >= 1 /\ a.min <= a.max /\ a.max <= MAX_PREDICTION
  /\ Configure(p, [cfg EXCEPT !.alpha = a.alpha, !.min = a.min, !.max = a.max,
                              !.initial = Clamp(a.initial, a.min, a.max)])

\* The pid given is that of slot t; 0 stands for a free slot.
SetPriority(p, t, v) ==
  /\ AtSyscall(p) /\ v \in 0..20
  /\ sp' = [sp EXCEPT ![t].priority = v]
  /\ UNCHANGED <<procVars, ticks, cfg, rrpos, intr, hint>>

\* set_burst_hint puts the value within the limits under sched_lock, and releases it ...
HintRead(p, v) ==
  /\ CallBegin(p) /\ v >= 1
  /\ hint' = [hint EXCEPT ![p] = Clamp(v, cfg.min, cfg.max)]
  /\ UNCHANGED <<ticks, cfg, sp, rrpos, intr>>

\* ... then scans for the pid: the limits may be others by now.
HintWrite(p, t) ==
  /\ CallDone(p)
  /\ sp' = [sp EXCEPT ![t].predicted_burst = hint[p]]
  /\ hint' = [hint EXCEPT ![p] = 0]
  /\ UNCHANGED <<ticks, cfg, rrpos, intr>>

\* No slot has the pid (any more).
HintMisses(p) ==
  /\ CallDone(p)
  /\ hint' = [hint EXCEPT ![p] = 0]
  /\ UNCHANGED <<ticks, cfg, sp, rrpos, intr>>

Settings(p) ==
  \/ \E m \in Modes : SetScheduler(p, m)
  \/ \E q \in RRQuanta : SetRRQuantum(p, q)
  \/ \E t \in AgingThresholds : SetPriorityAging(p, t)
  \/ \E m \in MlfqParams : SetMlfqParams(p, m)
  \/ \E b \in MlfqBoosts : SetMlfqBoost(p, b)
  \/ \E a \in PredictorParams : SetPredictor(p, a)
  \/ \E t \in Slot, v \in Priorities : SetPriority(p, t, v)

Hinting(p) ==
  \/ \E v \in Hints : HintRead(p, v)
  \/ \E t \in Slot : HintWrite(p, t)
  \/ HintMisses(p)

-----------------------------------------------------------------------------
\* Every step but a timer interrupt taken by a running process, and that one.
Untimed ==
  \/ \E p \in Slot :
       \/ \E np \in Slot : SForkAlloc(p, np) \/ SForkFail(p, np)
       \/ SExitFinish(p) \/ SReap(p) \/ SSleep(p) \/ SOther(p)
       \/ DispatchRR(p) \/ RRSkip(p) \/ DispatchBest(p)
       \/ Settings(p) \/ Hinting(p)
  \/ RRPassEnds
  \/ \E c \in IOChans : SWakeup(c)
  \/ SClockIdle
  \/ Spin /\ UNCHANGED schedVars

SchedNext == Untimed \/ \E p \in Slot : SClock(p)

SchedSpec == SchedInit /\ [][SchedNext]_vars

-----------------------------------------------------------------------------
(* Properties *)

Dispatched(s) == cpu = None /\ cpu' = s
Preempted(s) == cpu = s /\ cpu' = None /\ state'[s] = "RUNNABLE"

\* The ready queue orders arrivals as fork made them: (ctime, pid), the FCFS key,
\* is the order of the pids, because pids and ticks are taken together.
ArrivalOrder ==
  \A s, t \in Slot :
    state[s] # "UNUSED" /\ state[t] # "UNUSED" /\ pid[s] < pid[t] =>
      sp[s].ctime <= sp[t].ctime

\* FCFS runs the ready process that was forked first.
FcfsOrder ==
  [][\A s, t \in Slot :
       Dispatched(t) /\ cfg.sched_mode = "FCFS" /\ rrpos = 0
         /\ state[s] = "RUNNABLE" /\ state[t] # "UNUSED" => pid[t] <= pid[s]]_vars

\* n lies between the two, in either order.
Between(n, a, b) == (a <= n /\ n <= b) \/ (b <= n /\ n <= a)

\* s gives up the hart after a burst of at least a tick: its prediction goes from old
\* towards what was observed and not past it, as far as the limits in force allow.
BurstMoves(s, old, new) ==
  /\ state[s] = "RUNNING" /\ state'[s] = "SLEEPING"
  /\ sp[s].cur_burst_run > 0 /\ sp'[s].cur_burst_run = 0
  /\ new \in cfg.min..cfg.max
  /\ new \in {cfg.min, cfg.max} \/ Between(new, old, sp[s].cur_burst_run)

\* Some call finishes that has clamped the value, perhaps under other limits.
HintMoves(new) ==
  \E p \in Slot : cpu = p /\ pc[p] = "call" /\ pc'[p] # "call" /\ hint[p] = new

\* Only the end of a burst, or a hint, moves a prediction: being preempted, woken,
\* killed or reparented does not, and neither does a change of the limits.
PredictionMoves ==
  [][\A s \in Slot :
       state[s] \in Live /\ sp'[s].predicted_burst # sp[s].predicted_burst =>
         \/ BurstMoves(s, sp[s].predicted_burst, sp'[s].predicted_burst)
         \/ HintMoves(sp'[s].predicted_burst)]_vars
=============================================================================
