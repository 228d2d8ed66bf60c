---------------------------- MODULE XvSchedProofs ----------------------------
(***************************************************************************)
(* What the policies promise, for tables of any size and any order of the  *)
(* settings: first come, first served is by arrival; nobody is overtaken   *)
(* twice by round robin, wherever its walk of the table is when a process  *)
(* wakes up; predictions move at the end of a burst or by a hint only; and *)
(* no process outstays its slice.  While the configuration stays as it is, *)
(* aging and boosting come in time, a slice is not cut short either, and a *)
(* process moves between the queues of MLFQ only as its slices say.        *)
(***************************************************************************)
EXTENDS XvSlice, XvProcProofs

\* A setting touches no field of the process table.
LEMMA SettingsLeaveTable ==
  ASSUME NEW p \in Slot, Settings(p)
  PROVE  UNCHANGED procVars
<1> USE DEF Configure
<1>1. ASSUME NEW m \in Modes, SetScheduler(p, m) PROVE UNCHANGED procVars
  BY <1>1 DEF SetScheduler
<1>2. ASSUME NEW q \in RRQuanta, SetRRQuantum(p, q) PROVE UNCHANGED procVars
  BY <1>2 DEF SetRRQuantum
<1>3. ASSUME NEW t \in AgingThresholds, SetPriorityAging(p, t) PROVE UNCHANGED procVars
  BY <1>3 DEF SetPriorityAging
<1>4. ASSUME NEW m \in MlfqParams, SetMlfqParams(p, m) PROVE UNCHANGED procVars
  BY <1>4 DEF SetMlfqParams
<1>5. ASSUME NEW b \in MlfqBoosts, SetMlfqBoost(p, b) PROVE UNCHANGED procVars
  BY <1>5 DEF SetMlfqBoost
<1>6. ASSUME NEW a \in PredictorParams, SetPredictor(p, a) PROVE UNCHANGED procVars
  BY <1>6 DEF SetPredictor
<1>7. ASSUME NEW t \in Slot, NEW v \in Priorities, SetPriority(p, t, v)
      PROVE  UNCHANGED procVars
  BY <1>7 DEF SetPriority
<1> QED  BY <1>1, <1>2, <1>3, <1>4, <1>5, <1>6, <1>7 DEF Settings

\* The two halves of set_burst_hint.
LEMMA HintingCalls ==
  ASSUME NEW p \in Slot, Hinting(p)
  PROVE  CallBegin(p) \/ CallDone(p)
BY DEF Hinting, HintRead, HintWrite, HintMisses

\* One step of the schedulers, seen from the process table.
LEMMA SchedStep ==
  ASSUME SchedNext
  PROVE  [Next]_procVars
<1>1. ASSUME NEW p \in Slot, SExitFinish(p) \/ SReap(p)
      PROVE  Next
  BY <1>1 DEF SExitFinish, SReap, Next
<1>2. ASSUME NEW p \in Slot, SSleep(p) PROVE Next
  BY <1>2 DEF SSleep, Next
<1>3. ASSUME NEW p \in Slot, SOther(p) PROVE Next
  BY <1>3 DEF SOther, Next
<1>4. ASSUME NEW p \in Slot, DispatchRR(p) \/ DispatchBest(p) PROVE Next
  BY <1>4 DEF DispatchRR, DispatchBest, Next
<1>5. ASSUME NEW p \in Slot, Settings(p) PROVE UNCHANGED procVars
  BY <1>5, SettingsLeaveTable
<1>6. ASSUME RRPassEnds \/ \E p \in Slot : RRSkip(p) PROVE UNCHANGED procVars
  BY <1>6 DEF RRPassEnds, RRSkip
<1>7. ASSUME NEW c \in IOChans, SWakeup(c) PROVE Next
  BY <1>7 DEF SWakeup, Next
<1>8. ASSUME SClockIdle PROVE Next
  BY <1>8 DEF SClockIdle, Next
<1>9. ASSUME Spin PROVE Next
  BY <1>9 DEF Next
<1>10. ASSUME NEW p \in Slot, SClock(p) PROVE Next
  BY <1>10 DEF SClock, Next
<1>11. ASSUME NEW p \in Slot, NEW np \in Slot, SForkAlloc(p, np) \/ SForkFail(p, np) PROVE Next
  BY <1>11 DEF SForkAlloc, SForkFail, Next
<1>12. ASSUME NEW p \in Slot, Hinting(p) PROVE Next
  BY <1>12, HintingCalls DEF Next
<1> QED  BY <1>1, <1>2, <1>3, <1>4, <1>5, <1>6, <1>7, <1>8, <1>9, <1>10, <1>11, <1>12
         DEF SchedNext, Untimed

\* What is proved of the process table holds under all of the schedulers.
LEMMA SchedImplementsProc == SchedSpec => ProcSpec
<1>1. SchedInit => Init
  BY DEF SchedInit
<1>2. [SchedNext]_vars => [Next]_procVars
  BY SchedStep DEF vars
<1> QED  BY <1>1, <1>2, PTL DEF SchedSpec, ProcSpec

\* So no policy and no setting loses a child, an exit, a kill or a pid.
THEOREM SchedSafety == SchedSpec => []ProcInv
<1> QED  BY SchedImplementsProc, ProcSafety, PTL

\* Nor does one show to programs that know pids only: under every policy a process is
\* born, exits and is collected once.
THEOREM SchedulersKeepLives == SchedSpec => ImplementsProcLife
<1> QED  BY SchedImplementsProc, TableImplementsLife

-----------------------------------------------------------------------------
(* The order of arrival.                                                   *)

Occupied(s) == state[s] # "UNUSED"

\* Every record has a time of arrival, which for an occupied slot is not in the
\* future, and the times of arrival are in the order of the pids.
ArrivalInv ==
  /\ ticks \in 0..MaxTicks
  /\ DOMAIN sp = Slot
  /\ \A s \in Slot : "ctime" \in DOMAIN sp[s] /\ sp[s].ctime \in Nat
  /\ \A s \in Slot : Occupied(s) => sp[s].ctime <= ticks
  /\ ArrivalOrder

\* r has arrived when q has.
SameArrival(q, r) ==
  "ctime" \in DOMAIN q => "ctime" \in DOMAIN r /\ r.ctime = q.ctime

LEMMA FieldKept ==
  ASSUME NEW r, NEW field, field # "ctime", NEW v
  PROVE  SameArrival(r, [r EXCEPT ![field] = v])
BY Zenon DEF SameArrival

LEMMA BurstEndedKeeps ==
  ASSUME NEW r
  PROVE  SameArrival(r, BurstEnded(r))
BY SMT DEF SameArrival, BurstEnded

LEMMA WaitedKeeps ==
  ASSUME NEW r
  PROVE  SameArrival(r, Waited(r))
BY SMT DEF SameArrival, Waited

LEMMA ChargedKeeps ==
  ASSUME NEW p
  PROVE  SameArrival(sp[p], Charged(p))
BY SMT DEF SameArrival, Charged

LEMMA StampedKeeps ==
  ASSUME NEW f, NEW W, NEW now
  PROVE  /\ DOMAIN Stamped(f, W, now) = Slot
         /\ \A s \in Slot : SameArrival(f[s], Stamped(f, W, now)[s])
BY SMT DEF SameArrival, Stamped

\* The slots that are occupied after a step were so before, by the same process.
NoNewcomer == \A s \in Slot : Occupied(s)' => Occupied(s) /\ pid'[s] = pid[s]

LEMMA NobodyComes ==
  ASSUME ProcInv, [Next]_procVars, ~\E p, np \in Slot : ForkAlloc(p, np)
  PROVE  NoNewcomer
<1> USE DEF NoNewcomer, Occupied
<1>1. TypeOK /\ OneForker
  BY DEF ProcInv
<1>2. ASSUME NEW p \in Slot,
             \/ (\E np \in Slot : ForkFail(p, np))
             \/ ForkLink(p) \/ ExitBegin(p) \/ Fault(p) \/ ExitPanic(p)
             \/ WaitFail(p) \/ PauseDone(p) \/ IoDone(p) \/ CallBegin(p) \/ CallDone(p)
      PROVE  NoNewcomer
  BY <1>2 DEF ForkFail, ForkLink, ExitBegin, Fault, ExitPanic, WaitFail, PauseDone, IoDone,
     CallBegin, CallDone
<1>3. ASSUME NEW p \in Slot, ForkReady(p) PROVE NoNewcomer
  <2>1. state[child[p]] = "USED"
    BY <1>1, <1>3 DEF ForkReady, OneForker
  <2> QED  BY <1>1, <1>3, <2>1 DEF ForkReady, TypeOK
<1>4. ASSUME NEW p \in Slot, ExitFinish(p) PROVE NoNewcomer
  BY <1>1, <1>4 DEF ExitFinish, Running, WakeAll, ExitWakes, Woken, TypeOK
<1>5. ASSUME NEW p \in Slot, WaitReap(p) PROVE NoNewcomer
  BY <1>1, <1>5 DEF WaitReap, Reap, TypeOK
<1>6. ASSUME NEW p \in Slot,
             WaitSleep(p) \/ PauseSleep(p) \/ \E c \in IOChans : IoSleep(p, c)
      PROVE  NoNewcomer
  BY <1>1, <1>6 DEF WaitSleep, InWait, PauseSleep, InPause, IoSleep, SleepOn, Asks, AtSyscall,
     Running, TypeOK
<1>7. ASSUME NEW p \in Slot, ClockRun(p) \/ ClockYield(p) \/ Dispatch(p) PROVE NoNewcomer
  BY <1>1, <1>7 DEF ClockRun, ClockYield, Dispatch, Running, WakeAll, Woken, TypeOK
<1>8. ASSUME NEW p \in Slot, NEW k \in KillPids, Kill(p, k) PROVE NoNewcomer
  BY <1>1, <1>8 DEF Kill, Unblocked, TypeOK
<1>9. ASSUME (\E c \in IOChans : Wakeup(c)) \/ ClockIdle PROVE NoNewcomer
  BY <1>1, <1>9 DEF Wakeup, ClockIdle, WakeAll, Woken
<1>10. ASSUME Spin \/ UNCHANGED procVars PROVE NoNewcomer
  BY <1>10 DEF Spin, procVars
<1> QED  BY <1>2, <1>3, <1>4, <1>5, <1>6, <1>7, <1>8, <1>9, <1>10 DEF Next

\* Without a newcomer the order stays.
LEMMA OrderStays ==
  ASSUME ArrivalInv, NoNewcomer, ticks' \in 0..MaxTicks, ticks <= ticks', DOMAIN sp' = Slot,
         \A s \in Slot : \/ SameArrival(sp[s], sp'[s])
                         \/ ~Occupied(s)' /\ "ctime" \in DOMAIN sp'[s] /\ sp'[s].ctime \in Nat
  PROVE  ArrivalInv'
<1>1. \A s \in Slot : "ctime" \in DOMAIN sp'[s] /\ sp'[s].ctime \in Nat
  BY DEF ArrivalInv, SameArrival
<1>2. \A s \in Slot : Occupied(s)' => Occupied(s) /\ pid'[s] = pid[s] /\ sp'[s].ctime = sp[s].ctime
  BY DEF ArrivalInv, SameArrival, NoNewcomer
<1>3. \A s \in Slot : Occupied(s)' => sp'[s].ctime <= ticks'
  BY <1>2 DEF ArrivalInv
<1>4. ArrivalOrder'
  BY <1>2 DEF ArrivalInv, ArrivalOrder, Occupied
<1> QED  BY <1>1, <1>3, <1>4 DEF ArrivalInv

\* The process that fork makes has the highest pid, and arrives now.
LEMMA ForkArrives ==
  ASSUME ProcInv, ArrivalInv, NEW p \in Slot, NEW np \in Slot, SForkAlloc(p, np)
  PROVE  ArrivalInv'
<1> DEFINE fresh == [FreshProc EXCEPT !.priority = sp[p].priority]
<1>3. "ctime" \in DOMAIN fresh /\ fresh.ctime = ticks
  BY SMT DEF FreshProc
<1>4. /\ sp' = [sp EXCEPT ![np] = fresh] /\ ticks' = ticks
  BY DEF SForkAlloc
<1> HIDE DEF fresh
<1>5. /\ state' = [state EXCEPT ![np] = "USED"] /\ pid' = [pid EXCEPT ![np] = nextpid]
  BY DEF SForkAlloc, ForkAlloc
<1>6. /\ DOMAIN sp' = Slot /\ sp'[np] = fresh
      /\ \A s \in Slot \ {np} : sp'[s] = sp[s]
  BY <1>4 DEF ArrivalInv
<1>7. /\ pid'[np] = nextpid
      /\ \A s \in Slot \ {np} : state'[s] = state[s] /\ pid'[s] = pid[s]
  BY <1>5 DEF ProcInv, TypeOK
<1>8. \A s \in Slot : Occupied(s) => pid[s] \in 1..(nextpid - 1)
  BY DEF ProcInv, PidsUnique, Occupied
<1>9. \A s \in Slot : "ctime" \in DOMAIN sp'[s] /\ sp'[s].ctime \in Nat
  BY <1>3, <1>6 DEF ArrivalInv
<1>10. \A s \in Slot : Occupied(s)' => sp'[s].ctime <= ticks'
  BY <1>3, <1>4, <1>6, <1>7 DEF ArrivalInv, Occupied
<1>11. ArrivalOrder'
  <2> SUFFICES ASSUME NEW s \in Slot, NEW t \in Slot, Occupied(s)', Occupied(t)', pid'[s] < pid'[t]
               PROVE  sp'[s].ctime <= sp'[t].ctime
    BY DEF ArrivalOrder, Occupied
  <2>1. CASE s = np
    <3>1. t # np /\ pid[t] \in 1..(nextpid - 1)
      BY <1>7, <1>8, <2>1 DEF Occupied, ProcInv, TypeOK
    <3> QED  BY <1>7, <2>1, <3>1 DEF ProcInv, TypeOK
  <2>2. CASE s # np /\ t = np
    BY <1>3, <1>6, <1>7, <2>2 DEF ArrivalInv, Occupied
  <2>3. CASE s # np /\ t # np
    BY <1>6, <1>7, <2>3 DEF ArrivalInv, ArrivalOrder, Occupied
  <2> QED  BY <2>1, <2>2, <2>3
<1> QED  BY <1>4, <1>6, <1>9, <1>10, <1>11 DEF ArrivalInv

\* A step that leaves the clock and at most touches the record of one slot.
LEMMA OneRecord ==
  ASSUME ArrivalInv, NoNewcomer, ticks' = ticks, NEW t \in Slot, NEW r,
         sp' = [sp EXCEPT ![t] = r],
         SameArrival(sp[t], r) \/ (~Occupied(t)' /\ "ctime" \in DOMAIN r /\ r.ctime \in Nat)
  PROVE  ArrivalInv'
<1>1. /\ DOMAIN sp' = Slot /\ sp'[t] = r
      /\ \A s \in Slot \ {t} : sp'[s] = sp[s]
  BY DEF ArrivalInv
<1>2. ticks' \in 0..MaxTicks /\ ticks <= ticks'
  BY BoundsAssumption DEF ArrivalInv
<1>3. \A s \in Slot : SameArrival(sp[s], sp[s])
  BY DEF SameArrival
<1> QED  BY <1>1, <1>2, <1>3, OrderStays

LEMMA RecordsStamped ==
  ASSUME ArrivalInv, NoNewcomer, ticks' \in 0..MaxTicks, ticks <= ticks',
         NEW f, NEW W, NEW now, sp' = Stamped(f, W, now),
         \A s \in Slot : SameArrival(sp[s], f[s])
  PROVE  ArrivalInv'
<1>1. /\ DOMAIN sp' = Slot
      /\ \A s \in Slot : SameArrival(f[s], sp'[s])
  BY StampedKeeps
<1>2. \A s \in Slot : SameArrival(sp[s], sp'[s])
  BY <1>1 DEF SameArrival
<1> QED  BY <1>1, <1>2, OrderStays

LEMMA ClockGoesOn ==
  ASSUME ArrivalInv
  PROVE  /\ Sat(ticks, MaxTicks) \in 0..MaxTicks /\ ticks <= Sat(ticks, MaxTicks)
         /\ ticks \in 0..MaxTicks /\ ticks <= ticks
BY BoundsAssumption DEF ArrivalInv, Sat

LEMMA ItselfArrived == \A s \in Slot : SameArrival(sp[s], sp[s])
BY DEF SameArrival

LEMMA SettingsKeepOrder ==
  ASSUME ArrivalInv, NoNewcomer, NEW p \in Slot, Settings(p)
  PROVE  ArrivalInv'
<1>1. ASSUME UNCHANGED <<ticks, sp>> PROVE ArrivalInv'
  BY <1>1, OrderStays, ClockGoesOn, ItselfArrived DEF ArrivalInv
<1>2. ASSUME NEW c, Configure(p, c) PROVE ArrivalInv'
  BY <1>1, <1>2 DEF Configure
<1>3. ASSUME NEW t \in Slot, NEW v \in Priorities, SetPriority(p, t, v) PROVE ArrivalInv'
  <2>1. sp' = [sp EXCEPT ![t] = [sp[t] EXCEPT !["priority"] = v]] /\ ticks' = ticks
    BY <1>3 DEF SetPriority
  <2>2. SameArrival(sp[t], [sp[t] EXCEPT !["priority"] = v])
    BY FieldKept
  <2> QED  BY <2>1, <2>2, OneRecord
<1>5. ASSUME NEW m \in Modes, SetScheduler(p, m) PROVE ArrivalInv'
  BY <1>2, <1>5 DEF SetScheduler
<1>6. ASSUME NEW q \in RRQuanta, SetRRQuantum(p, q) PROVE ArrivalInv'
  BY <1>2, <1>6 DEF SetRRQuantum
<1>7. ASSUME NEW t \in AgingThresholds, SetPriorityAging(p, t) PROVE ArrivalInv'
  BY <1>2, <1>7 DEF SetPriorityAging
<1>8. ASSUME NEW m \in MlfqParams, SetMlfqParams(p, m) PROVE ArrivalInv'
  BY <1>2, <1>8 DEF SetMlfqParams
<1>9. ASSUME NEW b \in MlfqBoosts, SetMlfqBoost(p, b) PROVE ArrivalInv'
  BY <1>2, <1>9 DEF SetMlfqBoost
<1>10. ASSUME NEW a \in PredictorParams, SetPredictor(p, a) PROVE ArrivalInv'
  BY <1>2, <1>10 DEF SetPredictor
<1> QED  BY <1>3, <1>5, <1>6, <1>7, <1>8, <1>9, <1>10 DEF Settings

LEMMA HintKeepsOrder ==
  ASSUME ArrivalInv, NoNewcomer, NEW p \in Slot, Hinting(p)
  PROVE  ArrivalInv'
<1>1. ASSUME UNCHANGED <<ticks, sp>> PROVE ArrivalInv'
  BY <1>1, OrderStays, ClockGoesOn, ItselfArrived DEF ArrivalInv
<1>2. ASSUME NEW t \in Slot, HintWrite(p, t) PROVE ArrivalInv'
  <2>1. sp' = [sp EXCEPT ![t] = [sp[t] EXCEPT !["predicted_burst"] = hint[p]]] /\ ticks' = ticks
    BY <1>2 DEF HintWrite
  <2>2. SameArrival(sp[t], [sp[t] EXCEPT !["predicted_burst"] = hint[p]])
    BY FieldKept
  <2> QED  BY <2>1, <2>2, OneRecord
<1>3. ASSUME NEW v \in Hints, HintRead(p, v) PROVE ArrivalInv'
  BY <1>1, <1>3 DEF HintRead
<1>4. ASSUME HintMisses(p) PROVE ArrivalInv'
  BY <1>1, <1>4 DEF HintMisses
<1> QED  BY <1>2, <1>3, <1>4 DEF Hinting

LEMMA DispatchKeepsOrder ==
  ASSUME ArrivalInv, NoNewcomer, NEW p \in Slot, DispatchRR(p) \/ DispatchBest(p)
  PROVE  ArrivalInv'
<1>1. CASE DispatchRR(p)
  <2> DEFINE first == [sp[p] EXCEPT !["wait_ticks"] = 0]
             r == [first EXCEPT !["ticks_in_level"] = 0]
  <2>1. SameArrival(sp[p], first) /\ SameArrival(first, r)
    BY FieldKept
  <2>2. SameArrival(sp[p], r)
    BY <2>1 DEF SameArrival
  <2>3. sp' = [sp EXCEPT ![p] = r] /\ ticks' = ticks
    BY <1>1 DEF DispatchRR, ArrivalInv
  <2> HIDE DEF r
  <2> QED  BY <2>2, <2>3, OneRecord
<1>2. CASE DispatchBest(p)
  <2> DEFINE scanned == [s \in Slot |-> IF state[s] = "RUNNABLE" THEN Waited(sp[s]) ELSE sp[s]]
             slice == IF cfg.sched_mode = "MLFQ" THEN 0 ELSE scanned[p].ticks_in_level
             first == [scanned[p] EXCEPT !["wait_ticks"] = 0]
             r == [first EXCEPT !["ticks_in_level"] = slice]
  <2>1. \A s \in Slot : SameArrival(sp[s], scanned[s])
    BY WaitedKeeps, ItselfArrived
  <2>2. DOMAIN scanned = Slot
    OBVIOUS
  <2>3. ticks' = ticks /\ sp' = [scanned EXCEPT ![p].wait_ticks = 0,
                                               ![p].ticks_in_level = IF cfg.sched_mode = "MLFQ" THEN 0 ELSE @]
    BY <1>2, Zenon DEF DispatchBest
  <2> HIDE DEF scanned
  <2>4. sp' = [scanned EXCEPT ![p] = r]
    BY <2>2, <2>3
  <2>5. SameArrival(scanned[p], first) /\ SameArrival(first, r)
    BY FieldKept
  <2>6. SameArrival(sp[p], r)
    BY <2>1, <2>5 DEF SameArrival
  <2> HIDE DEF r
  <2>7. DOMAIN sp' = Slot /\ \A s \in Slot : SameArrival(sp[s], sp'[s])
    BY <2>1, <2>2, <2>4, <2>6
  <2> QED  BY <2>3, <2>7, OrderStays, ClockGoesOn
<1> QED  BY <1>1, <1>2

LEMMA ClockKeepsOrder ==
  ASSUME ArrivalInv, NoNewcomer, NEW p \in Slot, SClock(p)
  PROVE  ArrivalInv'
<1> DEFINE charged == [sp EXCEPT ![p] = Charged(p)]
<1>1. \A s \in Slot : SameArrival(sp[s], charged[s])
  BY ChargedKeeps, ItselfArrived DEF ArrivalInv
<1>2. ticks' \in 0..MaxTicks /\ ticks <= ticks'
  BY ClockGoesOn DEF SClock
<1>3. \E W : sp' = Stamped(sp, W, ticks') \/ sp' = Stamped(charged, W, ticks')
  BY Zenon DEF SClock
<1> HIDE DEF charged
<1>4. ASSUME NEW W, sp' = Stamped(sp, W, ticks') \/ sp' = Stamped(charged, W, ticks')
      PROVE  ArrivalInv'
  <2>1. CASE sp' = Stamped(sp, W, ticks')
    BY <1>2, <2>1, RecordsStamped, ItselfArrived
  <2>2. CASE sp' = Stamped(charged, W, ticks')
    BY <1>1, <1>2, <2>2, RecordsStamped
  <2> QED  BY <1>4, <2>1, <2>2
<1> QED  BY <1>3, <1>4

LEMMA ArrivalInit == SchedInit => ArrivalInv
<1> SUFFICES ASSUME SchedInit PROVE ArrivalInv
  OBVIOUS
<1>1. /\ ticks = 0 /\ sp = [s \in Slot |-> IF s = InitProc THEN FreshProc ELSE FreedProc]
      /\ state = [s \in Slot |-> IF s = InitProc THEN "RUNNABLE" ELSE "UNUSED"]
  BY DEF SchedInit, Init
<1>2. /\ "ctime" \in DOMAIN FreshProc /\ FreshProc.ctime = ticks
      /\ "ctime" \in DOMAIN FreedProc /\ FreedProc.ctime = 0
  BY SMT DEF FreshProc, FreedProc
<1>3. \A s \in Slot : "ctime" \in DOMAIN sp[s] /\ sp[s].ctime = 0
  BY <1>1, <1>2
<1>4. ArrivalOrder
  BY <1>3 DEF ArrivalOrder
<1> QED  BY <1>1, <1>3, <1>4, BoundsAssumption DEF ArrivalInv

\* The schedulers allocate a process in SForkAlloc only.
LEMMA OnlyForkAllocates ==
  ASSUME ProcInv, SchedNext, NEW p \in Slot, NEW np \in Slot, ForkAlloc(p, np)
  PROVE  \E q, t \in Slot : SForkAlloc(q, t)
<1>1. nextpid' # nextpid
  BY DEF ForkAlloc, AllocPid, ProcInv, TypeOK
<1>2. state' # state
  BY DEF ForkAlloc, Unused, ProcInv, TypeOK
<1>3. ASSUME NEW q \in Slot, Settings(q) PROVE FALSE
  BY <1>1, <1>3, SettingsLeaveTable DEF procVars
<1>4. ASSUME NEW q \in Slot, NEW t \in Slot, SForkFail(q, t) PROVE FALSE
  BY <1>2, <1>4 DEF SForkFail, ForkFail
<1>5. ASSUME NEW q \in Slot, SExitFinish(q) \/ SReap(q) \/ SSleep(q) PROVE FALSE
  BY <1>1, <1>5 DEF SExitFinish, ExitFinish, SReap, WaitReap, SSleep, WaitSleep, PauseSleep, IoSleep
<1>6. ASSUME NEW q \in Slot, SOther(q) PROVE FALSE
  BY <1>1, <1>6 DEF SOther, ForkLink, ForkReady, ExitBegin, Fault, ExitPanic, WaitFail, PauseDone,
     IoDone, Kill
<1>7. ASSUME NEW q \in Slot, DispatchRR(q) \/ DispatchBest(q) \/ SClock(q) PROVE FALSE
  BY <1>1, <1>7 DEF DispatchRR, DispatchBest, Dispatch, SClock, ClockRun, ClockYield
<1>8. ASSUME RRPassEnds \/ (\E c \in IOChans : SWakeup(c)) \/ SClockIdle
      PROVE  FALSE
  BY <1>1, <1>8 DEF RRPassEnds, SWakeup, Wakeup, SClockIdle, ClockIdle, procVars
<1>9. ASSUME Spin PROVE FALSE
  BY <1>1, <1>9 DEF Spin, procVars
<1>10. ASSUME NEW q \in Slot, RRSkip(q) PROVE FALSE
  BY <1>1, <1>10 DEF RRSkip, procVars
<1>11. ASSUME NEW q \in Slot, Hinting(q) PROVE FALSE
  BY <1>1, <1>11, HintingCalls DEF CallBegin, CallDone
<1> QED  BY <1>3, <1>4, <1>5, <1>6, <1>7, <1>8, <1>9, <1>10, <1>11 DEF SchedNext, Untimed

LEMMA ArrivalStep ==
  ASSUME ProcInv, ArrivalInv, [SchedNext]_vars
  PROVE  ArrivalInv'
<1>1. CASE \E p, np \in Slot : SForkAlloc(p, np)
  BY <1>1, ForkArrives
<1>2. CASE ~\E p, np \in Slot : SForkAlloc(p, np)
  <2>1. CASE UNCHANGED vars
    BY <2>1 DEF vars, procVars, schedVars, ArrivalInv, ArrivalOrder, Occupied
  <2>2. CASE SchedNext
    <3>1. ~\E p, np \in Slot : ForkAlloc(p, np)
      BY <1>2, <2>2, OnlyForkAllocates
    <3>2. NoNewcomer
      <4>1. [Next]_procVars
        BY <2>2, SchedStep
      <4> QED  BY <3>1, <4>1, NobodyComes
    <3>3. ASSUME UNCHANGED <<ticks, sp>> PROVE ArrivalInv'
      BY <3>2, <3>3, OrderStays, ClockGoesOn, ItselfArrived DEF ArrivalInv
    <3>4. "ctime" \in DOMAIN FreedProc /\ FreedProc.ctime \in Nat
      BY SMT DEF FreedProc
    <3>5. ASSUME NEW p \in Slot, NEW np \in Slot, SForkFail(p, np) PROVE ArrivalInv'
      <4>1. /\ sp' = [sp EXCEPT ![np] = FreedProc] /\ ticks' = ticks
            /\ state' = state /\ state[np] = "UNUSED"
        BY <3>5 DEF SForkFail, ForkFail, Unused
      <4> QED  BY <3>2, <3>4, <4>1, OneRecord DEF Occupied
    <3>6. ASSUME NEW p \in Slot, SReap(p) PROVE ArrivalInv'
      <4>1. Lowest(Zombies(p)) \in Slot
        BY <3>6, LowestIsIn DEF SReap, WaitReap, Zombies, Children
      <4>2. PICK c \in Slot : c = Lowest(Zombies(p))
        BY <4>1
      <4>3. sp' = [sp EXCEPT ![c] = FreedProc] /\ ticks' = ticks
        BY <3>6, <4>2 DEF SReap
      <4>4. state' = [state EXCEPT ![c] = "UNUSED"]
        BY <3>6, <4>2 DEF SReap, WaitReap, Reap
      <4>5. ~Occupied(c)'
        BY <4>4 DEF Occupied, ProcInv, TypeOK
      <4> QED  BY <3>2, <3>4, <4>3, <4>5, OneRecord
    <3>7. ASSUME NEW p \in Slot, SExitFinish(p) PROVE ArrivalInv'
      BY <3>2, <3>7, RecordsStamped, ClockGoesOn, ItselfArrived DEF SExitFinish
    <3>8. ASSUME NEW p \in Slot, SSleep(p) PROVE ArrivalInv'
      <4>1. sp' = [sp EXCEPT ![p] = BurstEnded(sp[p])] /\ ticks' = ticks
        BY <3>8 DEF SSleep
      <4> QED  BY <3>2, <4>1, BurstEndedKeeps, OneRecord
    <3>9. ASSUME NEW p \in Slot, SOther(p) PROVE ArrivalInv'
      BY <3>3, <3>9 DEF SOther, schedVars
    <3>10. ASSUME \/ RRPassEnds \/ (\E p \in Slot : RRSkip(p))
                  \/ (Spin /\ UNCHANGED schedVars)
           PROVE  ArrivalInv'
      BY <3>3, <3>10 DEF RRPassEnds, RRSkip, schedVars
    <3>11. ASSUME NEW c \in IOChans, SWakeup(c) PROVE ArrivalInv'
      BY <3>2, <3>11, RecordsStamped, ClockGoesOn, ItselfArrived DEF SWakeup
    <3>12. ASSUME SClockIdle PROVE ArrivalInv'
      BY <3>2, <3>12, RecordsStamped, ClockGoesOn, ItselfArrived DEF SClockIdle
    <3> QED  BY <1>2, <2>2, <3>2, <3>5, <3>6, <3>7, <3>8, <3>9, <3>10, <3>11, <3>12,
                SettingsKeepOrder, HintKeepsOrder, DispatchKeepsOrder, ClockKeepsOrder
             DEF SchedNext, Untimed
  <2> QED  BY <2>1, <2>2
<1> QED  BY <1>1, <1>2

\* The pids and the ticks at fork are in the same order under every policy and
\* setting, so that the key of FCFS is the order in which the processes were made.
THEOREM ArrivalsInOrder == SchedSpec => []ArrivalOrder
<1>1. SchedInit => ArrivalInv
  BY ArrivalInit
<1>2. ProcInv /\ ArrivalInv /\ [SchedNext]_vars => ArrivalInv'
  BY ArrivalStep
<1>3. ArrivalInv => ArrivalOrder
  BY DEF ArrivalInv
<1> QED  BY SchedSafety, <1>1, <1>2, <1>3, PTL DEF SchedSpec

-----------------------------------------------------------------------------
(* Who takes the hart, and who is given it by FCFS.                        *)

\* The hart is taken from a process that stays RUNNABLE by the timer only.
LEMMA TimerPreempts ==
  ASSUME ProcInv, [SchedNext]_vars, NEW s \in Slot, Preempted(s)
  PROVE  \E p \in Slot : SClock(p) /\ ClockYield(p) /\ Expires(p)
<1> USE InitIsSlot DEF Preempted, None
<1>1. cpu' # cpu /\ cpu # None
  OBVIOUS
<1>2. ASSUME NEW q \in Slot, Settings(q) PROVE FALSE
  BY <1>1, <1>2, SettingsLeaveTable DEF procVars
<1>3. ASSUME NEW q \in Slot, SReap(q) \/ RRSkip(q) PROVE FALSE
  BY <1>1, <1>3 DEF SReap, WaitReap, RRSkip, procVars
<1>4. ASSUME NEW q \in Slot, SExitFinish(q) PROVE FALSE
  BY <1>1, <1>4 DEF SExitFinish, ExitFinish, Running, WakeAll, ProcInv, TypeOK
<1>5. ASSUME NEW q \in Slot, SSleep(q) PROVE FALSE
  BY <1>1, <1>5 DEF SSleep, WaitSleep, InWait, PauseSleep, InPause, IoSleep, SleepOn, Asks,
     AtSyscall, Running, ProcInv, TypeOK
<1>6. ASSUME NEW q \in Slot, SOther(q) PROVE FALSE
  BY <1>1, <1>6 DEF SOther, ForkLink, ForkReady, ExitBegin, Fault, ExitPanic, WaitFail, PauseDone,
     IoDone, Kill
<1>7. ASSUME NEW q \in Slot, DispatchRR(q) \/ DispatchBest(q) PROVE FALSE
  BY <1>1, <1>7 DEF DispatchRR, DispatchBest, Dispatch
<1>8. ASSUME RRPassEnds \/ (\E c \in IOChans : SWakeup(c)) \/ SClockIdle PROVE FALSE
  BY <1>1, <1>8 DEF RRPassEnds, SWakeup, Wakeup, SClockIdle, ClockIdle, procVars
<1>9. ASSUME Spin \/ UNCHANGED vars PROVE FALSE
  BY <1>1, <1>9 DEF Spin, vars, procVars
<1>10. ASSUME NEW q \in Slot, SClock(q)
       PROVE  SClock(q) /\ ClockYield(q) /\ Expires(q)
  BY <1>1, <1>10 DEF SClock, ClockRun
<1>11. ASSUME NEW q \in Slot, NEW t \in Slot, SForkAlloc(q, t) \/ SForkFail(q, t) PROVE FALSE
  BY <1>1, <1>11 DEF SForkAlloc, ForkAlloc, SForkFail, ForkFail
<1>12. ASSUME NEW q \in Slot, Hinting(q) PROVE FALSE
  BY <1>1, <1>12, HintingCalls DEF CallBegin, CallDone
<1> QED  BY <1>2, <1>3, <1>4, <1>5, <1>6, <1>7, <1>8, <1>9, <1>10, <1>11, <1>12
         DEF SchedNext, Untimed

\* FCFS runs the ready process that was forked first, also after a time under
\* another policy and however the processes slept since.
THEOREM FcfsServesInOrder == SchedSpec => FcfsOrder
<1> DEFINE InOrder == \A s, t \in Slot :
             Dispatched(t) /\ cfg.sched_mode = "FCFS" /\ rrpos = 0
               /\ state[s] = "RUNNABLE" /\ state[t] # "UNUSED" => pid[t] <= pid[s]
<1>1. ProcInv /\ ArrivalInv /\ [SchedNext]_vars => [InOrder]_vars
  <2> SUFFICES ASSUME ProcInv, ArrivalInv, [SchedNext]_vars, NEW s \in Slot, NEW t \in Slot,
                      Dispatched(t), cfg.sched_mode = "FCFS", rrpos = 0,
                      state[s] = "RUNNABLE", state[t] # "UNUSED"
               PROVE  pid[t] <= pid[s]
    OBVIOUS
  <2>1. DispatchBest(t)
    <3> USE InitIsSlot DEF Dispatched, None
    <3>1. cpu = None /\ cpu' = t
      OBVIOUS
    <3>2. ASSUME NEW q \in Slot, Settings(q) PROVE FALSE
      BY <3>1, <3>2, SettingsLeaveTable DEF procVars
    <3>3. ASSUME NEW q \in Slot, SReap(q) \/ SExitFinish(q) \/ RRSkip(q)
          PROVE  FALSE
      BY <3>1, <3>3 DEF SReap, WaitReap, SExitFinish, ExitFinish, RRSkip, procVars
    <3>4. ASSUME NEW q \in Slot, SSleep(q) PROVE FALSE
      BY <3>1, <3>4 DEF SSleep, WaitSleep, PauseSleep, IoSleep, SleepOn
    <3>5. ASSUME NEW q \in Slot, SOther(q) PROVE FALSE
      BY <3>1, <3>5 DEF SOther, ForkLink, ForkReady, ExitBegin, Fault, ExitPanic, WaitFail,
         PauseDone, IoDone, Kill
    <3>6. ASSUME RRPassEnds \/ (\E c \in IOChans : SWakeup(c)) \/ SClockIdle PROVE FALSE
      BY <3>1, <3>6 DEF RRPassEnds, SWakeup, Wakeup, SClockIdle, ClockIdle, procVars
    <3>7. ASSUME Spin \/ UNCHANGED vars PROVE FALSE
      BY <3>1, <3>7 DEF Spin, vars, procVars
    <3>8. ASSUME NEW q \in Slot, SClock(q) PROVE FALSE
      BY <3>1, <3>8 DEF SClock, ClockRun, ClockYield
    <3>9. ASSUME NEW q \in Slot, DispatchRR(q) \/ DispatchBest(q) PROVE DispatchBest(t)
      BY <3>1, <3>9 DEF DispatchRR, AtSlot, DispatchBest, Dispatch
    <3>10. ASSUME NEW q \in Slot, NEW u \in Slot, SForkAlloc(q, u) \/ SForkFail(q, u) PROVE FALSE
      BY <3>1, <3>10 DEF SForkAlloc, ForkAlloc, SForkFail, ForkFail
    <3>11. ASSUME NEW q \in Slot, Hinting(q) PROVE FALSE
      BY <3>1, <3>11, HintingCalls DEF CallBegin, CallDone
    <3> QED  BY <3>2, <3>3, <3>4, <3>5, <3>6, <3>7, <3>8, <3>9, <3>10, <3>11
             DEF SchedNext, Untimed
  <2> DEFINE scanned == [x \in Slot |-> IF state[x] = "RUNNABLE" THEN Waited(sp[x]) ELSE sp[x]]
  <2>2. ~Before(Key(scanned[s], pid[s]), Key(scanned[t], pid[t]))
    BY <2>1, Zenon DEF DispatchBest
  <2>3. Waited(sp[s]) = sp[s] /\ Waited(sp[t]) = sp[t]
    BY SMT DEF Waited
  <2>4. scanned[s] = sp[s] /\ scanned[t] = sp[t]
    BY <2>3
  <2> HIDE DEF scanned
  <2>5. ~Before(<<0, sp[s].ctime, pid[s]>>, <<0, sp[t].ctime, pid[t]>>)
    BY <2>2, <2>4, SMT DEF Key
  <2>6. sp[s].ctime \in Nat /\ sp[t].ctime \in Nat /\ pid[s] \in Nat /\ pid[t] \in Nat
    BY DEF ArrivalInv, ProcInv, TypeOK
  <2>7. pid[s] < pid[t] => sp[s].ctime <= sp[t].ctime
    BY DEF ArrivalInv, ArrivalOrder
  <2> QED  BY <2>5, <2>6, <2>7, SMT DEF Before
<1>2. ProcInv /\ ArrivalInv /\ [SchedNext]_vars => ArrivalInv'
  BY ArrivalStep
<1> HIDE DEF InOrder
<1>3. SchedSpec => [][InOrder]_vars
  BY SchedSafety, ArrivalInit, <1>1, <1>2, PTL DEF SchedSpec
<1> QED  BY <1>3 DEF FcfsOrder, InOrder

-----------------------------------------------------------------------------
(* The fields of the schedulers.                                           *)

\* The scheduler fields of struct proc.  MlfqParams and the quanta bound a level by
\* MLFQ_MAX_QUEUES and what can be charged on one by 100.
SchedRecord ==
  [priority : 0..20, ctime : Nat, queue_level : 0..(MLFQ_MAX_QUEUES - 1),
   ticks_in_level : 0..99, wait_ticks : 0..MaxWait, predicted_burst : 0..MAX_PREDICTION,
   cur_burst_run : 0..MaxBurst, ready_since_tick : Nat]

\* Every configuration the calls accept is one allocproc and the timer can compute
\* with, and every field of a process stays within its limits.
ConfigOK == cfg \in Config /\ cfg.min <= cfg.max
FieldsOK ==
  /\ ConfigOK
  /\ ticks \in 0..MaxTicks
  /\ rrpos \in 0..NPROC
  /\ sp \in [Slot -> SchedRecord]
  /\ hint \in [Slot -> 0..MAX_PREDICTION]

LEMMA LimitsAreNat == MAX_PREDICTION \in Nat /\ MAX_ROUNDS \in Nat
BY DEF MAX_PREDICTION, MAX_ROUNDS

LEMMA ClampWithin ==
  ASSUME NEW n \in Int, NEW lo \in Int, NEW hi \in Int, lo <= hi
  PROVE  Clamp(n, lo, hi) \in lo..hi
BY DEF Clamp

LEMMA LimitsAreNumbers ==
  ASSUME ConfigOK
  PROVE  /\ cfg.min \in 1..MAX_PREDICTION /\ cfg.max \in 1..MAX_PREDICTION /\ cfg.min <= cfg.max
         /\ cfg.initial \in 1..MAX_PREDICTION /\ cfg.alpha \in 0..100
         /\ cfg.rr_quantum \in 1..100 /\ cfg.queues \in 2..MLFQ_MAX_QUEUES
         /\ cfg.quantum \in [1..MLFQ_MAX_QUEUES -> 1..100]
         /\ cfg.aging \in 1..MAX_ROUNDS /\ cfg.boost_interval \in 1..MAX_ROUNDS
         /\ cfg.sched_mode \in AllModes
BY LimitsAreNat DEF ConfigOK, Config

LEMMA FieldTypes ==
  ASSUME NEW r \in SchedRecord
  PROVE  /\ r.priority \in 0..20 /\ r.ctime \in Nat
         /\ r.queue_level \in 0..(MLFQ_MAX_QUEUES - 1) /\ r.ticks_in_level \in 0..99
         /\ r.wait_ticks \in 0..MaxWait /\ r.predicted_burst \in 0..MAX_PREDICTION
         /\ r.cur_burst_run \in 0..MaxBurst /\ r.ready_since_tick \in Nat
BY DEF SchedRecord

LEMMA FreshIsRecord ==
  ASSUME ConfigOK, ticks \in 0..MaxTicks
  PROVE  FreshProc \in SchedRecord /\ FreedProc \in SchedRecord
<1>1. Clamp(cfg.initial, cfg.min, cfg.max) \in 0..MAX_PREDICTION
  <2>1. /\ cfg.initial \in 1..MAX_PREDICTION /\ cfg.min \in 1..MAX_PREDICTION
        /\ cfg.max \in 1..MAX_PREDICTION /\ cfg.min <= cfg.max
    BY LimitsAreNumbers, Zenon
  <2>2. cfg.initial \in Int /\ cfg.min \in Int /\ cfg.max \in Int
    BY <2>1, LimitsAreNat
  <2>3. Clamp(cfg.initial, cfg.min, cfg.max) \in cfg.min..cfg.max
    BY <2>1, <2>2, ClampWithin, Zenon
  <2> QED  BY <2>1, <2>2, <2>3, LimitsAreNat
<1> QED  BY <1>1, DefaultPriorityAssumption, BoundsAssumption, LimitsAreNat
         DEF FreshProc, FreedProc, SchedRecord, MLFQ_MAX_QUEUES

\* The exponential average of proc.c update_burst_prediction is put back within
\* the limits in force.
\* The exponential average, rounded down, is between what was predicted and what was
\* observed.
LEMMA AverageBetween ==
  ASSUME NEW a \in 0..100, NEW o \in Nat, NEW q \in Nat
  PROVE  Between((a * o + (100 - a) * q) \div 100, q, o)
<1> DEFINE sum == a * o + (100 - a) * q
<1>1. CASE o <= q
  <2> DEFINE d == q - o
             x == (100 - a) * d
  <2>1. d \in Nat /\ 100 - a \in 0..100
    BY <1>1
  <2> HIDE DEF d
  <2>2. x \in Int /\ 0 <= x /\ x <= 100 * d
    BY <2>1
  <2>3. q = o + d
    BY DEF d
  <2>4. sum = 100 * o + x
    BY <2>1, <2>3
  <2> HIDE DEF x, sum
  <2>5. o <= sum \div 100 /\ sum \div 100 <= q
    BY <2>1, <2>2, <2>3, <2>4
  <2> QED  BY <2>5 DEF Between, sum
<1>2. CASE q <= o
  <2> DEFINE d == o - q
             x == a * d
  <2>1. d \in Nat
    BY <1>2
  <2> HIDE DEF d
  <2>2. x \in Int /\ 0 <= x /\ x <= 100 * d
    BY <2>1
  <2>3. o = q + d
    BY DEF d
  <2>4. sum = 100 * q + x
    BY <2>1, <2>3
  <2> HIDE DEF x, sum
  <2>5. q <= sum \div 100 /\ sum \div 100 <= o
    BY <2>1, <2>2, <2>3, <2>4
  <2> QED  BY <2>5 DEF Between, sum
<1> QED  BY <1>1, <1>2

LEMMA AverageWithin ==
  ASSUME ConfigOK, NEW r \in SchedRecord, r.cur_burst_run # 0
  PROVE  /\ BurstEnded(r) \in SchedRecord
         /\ BurstEnded(r).predicted_burst \in cfg.min..cfg.max
         /\ \/ BurstEnded(r).predicted_burst \in {cfg.min, cfg.max}
            \/ Between(BurstEnded(r).predicted_burst, r.predicted_burst, r.cur_burst_run)
         /\ BurstEnded(r).cur_burst_run = 0
<1> DEFINE sum == cfg.alpha * r.cur_burst_run + (100 - cfg.alpha) * r.predicted_burst
           np == sum \div 100
           limited == Clamp(np, cfg.min, cfg.max)
<1>1. cfg.alpha \in Int /\ 100 - cfg.alpha \in Int
  <2>1. cfg.alpha \in 0..100
    BY LimitsAreNumbers, Zenon
  <2> QED  BY <2>1
<1>2. r.cur_burst_run \in Int /\ r.predicted_burst \in Int
  BY FieldTypes
<1>3. cfg.alpha * r.cur_burst_run \in Int /\ (100 - cfg.alpha) * r.predicted_burst \in Int
  BY <1>1, <1>2
<1>4. sum \in Int
  BY <1>3
<1>11. Between(np, r.predicted_burst, r.cur_burst_run)
  <2>1. cfg.alpha \in 0..100
    BY LimitsAreNumbers, Zenon
  <2>2. r.cur_burst_run \in Nat /\ r.predicted_burst \in Nat
    BY FieldTypes
  <2> QED  BY <2>1, <2>2, AverageBetween, Zenon
<1> HIDE DEF sum
<1>5. np \in Int
  BY <1>4
<1> HIDE DEF np
<1>12. limited \in {np, cfg.min, cfg.max}
  BY DEF Clamp
<1>6. limited \in cfg.min..cfg.max
  <2>1. cfg.min \in 1..MAX_PREDICTION /\ cfg.max \in 1..MAX_PREDICTION /\ cfg.min <= cfg.max
    BY LimitsAreNumbers, Zenon
  <2>2. cfg.min \in Int /\ cfg.max \in Int
    BY <2>1, LimitsAreNat
  <2> QED  BY <1>5, <2>1, <2>2, ClampWithin, Zenon
<1>7. BurstEnded(r) = [r EXCEPT !.predicted_burst = limited, !.cur_burst_run = 0]
  BY Zenon DEF BurstEnded, np, sum
<1> HIDE DEF limited
<1>8. limited \in 0..MAX_PREDICTION /\ 0 \in 0..MaxBurst
  BY <1>6, LimitsAreNumbers, LimitsAreNat, BoundsAssumption
<1>9. BurstEnded(r) \in SchedRecord
  <2>1. [r EXCEPT !.predicted_burst = limited, !.cur_burst_run = 0] \in SchedRecord
    BY <1>8 DEF SchedRecord
  <2> QED  BY <1>7, <2>1
<1>10. BurstEnded(r).predicted_burst = limited /\ BurstEnded(r).cur_burst_run = 0
  BY <1>7 DEF SchedRecord
<1>13. limited \in {cfg.min, cfg.max} \/ Between(limited, r.predicted_burst, r.cur_burst_run)
  BY <1>11, <1>12
<1> QED  BY <1>6, <1>9, <1>10, <1>13

LEMMA EndedIsRecord ==
  ASSUME ConfigOK, NEW r \in SchedRecord
  PROVE  BurstEnded(r) \in SchedRecord
<1>1. CASE r.cur_burst_run = 0
  BY <1>1 DEF BurstEnded
<1> QED  BY <1>1, AverageWithin

LEMMA SatWithin ==
  ASSUME NEW bound \in Nat, NEW n \in 0..bound
  PROVE  Sat(n, bound) \in 0..bound
BY DEF Sat

\* What a round of waiting does to a record.
LEMMA WaitedIsRecord ==
  ASSUME ConfigOK, NEW r \in SchedRecord
  PROVE  Waited(r) \in SchedRecord
<1>1. PICK w \in 0..MaxWait : w = Sat(r.wait_ticks, MaxWait)
  BY FieldTypes, SatWithin, BoundsAssumption
<1>2. 0 \in 0..MaxWait /\ 0 \in 0..99 /\ 0 \in 0..(MLFQ_MAX_QUEUES - 1)
  BY BoundsAssumption DEF MLFQ_MAX_QUEUES
<1>3. r.priority > 0 => r.priority - 1 \in 0..20
  BY FieldTypes
<1>4. [r EXCEPT !.wait_ticks = w] \in SchedRecord
  BY DEF SchedRecord
<1>5. r.priority > 0 => [r EXCEPT !.priority = @ - 1, !.wait_ticks = 0] \in SchedRecord
  BY <1>2, <1>3 DEF SchedRecord
<1>6. [r EXCEPT !.queue_level = 0, !.ticks_in_level = 0, !.wait_ticks = 0] \in SchedRecord
  BY <1>2 DEF SchedRecord
<1> QED  BY <1>1, <1>4, <1>5, <1>6, Zenon DEF Waited

LEMMA QuantumIsNumber ==
  ASSUME ConfigOK, NEW level \in Nat
  PROVE  MlfqQuantum(level) \in 1..100
BY LimitsAreNumbers DEF MlfqQuantum, MLFQ_MAX_QUEUES

LEMMA DemotedIsLevel ==
  ASSUME ConfigOK, NEW level \in 0..(MLFQ_MAX_QUEUES - 1)
  PROVE  Demoted(level) \in 0..(MLFQ_MAX_QUEUES - 1)
BY LimitsAreNumbers DEF Demoted, MLFQ_MAX_QUEUES

LEMMA ChargedIsRecord ==
  ASSUME ConfigOK, NEW p \in Slot, sp[p] \in SchedRecord
  PROVE  Charged(p) \in SchedRecord
<1>1. sp[p].queue_level \in Nat /\ sp[p].ticks_in_level \in 0..99
  BY FieldTypes DEF MLFQ_MAX_QUEUES
<1>2. PICK q \in 1..100 : q = MlfqQuantum(sp[p].queue_level)
  BY <1>1, QuantumIsNumber
<1>3. PICK b \in 0..MaxBurst : b = Sat(sp[p].cur_burst_run, MaxBurst)
  BY FieldTypes, SatWithin, BoundsAssumption
<1> DEFINE r == [sp[p] EXCEPT !.cur_burst_run = b]
<1>4. r \in SchedRecord
  BY DEF SchedRecord
<1>5. r.ticks_in_level = sp[p].ticks_in_level /\ r.queue_level = sp[p].queue_level
  BY DEF SchedRecord
<1>6. ~Expires(p) /\ cfg.sched_mode \in {"RR", "MLFQ"} => sp[p].ticks_in_level + 1 \in 0..99
  <2>1. cfg.rr_quantum \in 1..100
    BY LimitsAreNumbers, Zenon
  <2> QED  BY <1>1, <1>2, <2>1 DEF Expires
<1>7. Demoted(r.queue_level) \in 0..(MLFQ_MAX_QUEUES - 1) /\ 0 \in 0..99
  BY <1>4, FieldTypes, DemotedIsLevel
<1>8. Charged(p) =
        CASE cfg.sched_mode \in {"RR", "MLFQ"} /\ ~Expires(p) ->
               [r EXCEPT !.ticks_in_level = r.ticks_in_level + 1]
          [] cfg.sched_mode = "RR" /\ Expires(p) -> [r EXCEPT !.ticks_in_level = 0]
          [] cfg.sched_mode = "MLFQ" /\ Expires(p) ->
               [r EXCEPT !.ticks_in_level = 0, !.queue_level = Demoted(r.queue_level)]
          [] OTHER -> r
  BY <1>3, Zenon DEF Charged
<1> HIDE DEF r
<1>9. ASSUME NEW t \in 0..99 PROVE [r EXCEPT !.ticks_in_level = t] \in SchedRecord
  BY <1>4 DEF SchedRecord
<1>10. [r EXCEPT !.ticks_in_level = 0, !.queue_level = Demoted(r.queue_level)] \in SchedRecord
  BY <1>4, <1>7 DEF SchedRecord
<1>11. CASE cfg.sched_mode \in {"RR", "MLFQ"} /\ ~Expires(p)
  BY <1>5, <1>6, <1>8, <1>9, <1>11
<1>12. CASE cfg.sched_mode = "RR" /\ Expires(p)
  BY <1>7, <1>8, <1>9, <1>12
<1>13. CASE cfg.sched_mode = "MLFQ" /\ Expires(p)
  BY <1>8, <1>10, <1>13
<1> QED  BY <1>4, <1>8, <1>11, <1>12, <1>13, Zenon

LEMMA StampedAreRecords ==
  ASSUME NEW f \in [Slot -> SchedRecord], NEW W, NEW now \in Nat
  PROVE  Stamped(f, W, now) \in [Slot -> SchedRecord]
BY DEF Stamped, SchedRecord

LEMMA FieldsInit == SchedInit => FieldsOK
<1> SUFFICES ASSUME SchedInit PROVE FieldsOK
  OBVIOUS
<1>1. cfg \in BootConfigs /\ ticks = 0 /\ rrpos = 0
  BY DEF SchedInit
<1>2. ConfigOK
  BY <1>1, BootConfigsAssumption DEF ConfigOK
<1>3. ticks \in 0..MaxTicks /\ rrpos \in 0..NPROC
  BY <1>1, BoundsAssumption, NprocAssumption
<1>4. FreshProc \in SchedRecord /\ FreedProc \in SchedRecord
  BY <1>2, <1>3, FreshIsRecord
<1>5. sp \in [Slot -> SchedRecord]
  BY <1>4 DEF SchedInit
<1>6. hint \in [Slot -> 0..MAX_PREDICTION]
  BY LimitsAreNat DEF SchedInit
<1> QED  BY <1>2, <1>3, <1>5, <1>6 DEF FieldsOK

\* The calls accept no configuration under which the predictor's limits cross or a
\* quantum, a threshold or a number of queues leaves its range.
LEMMA SettingsKeepConfig ==
  ASSUME ConfigOK, NEW p \in Slot, Settings(p)
  PROVE  ConfigOK'
<1> USE DEF Configure
<1>1. ASSUME NEW m \in Modes, SetScheduler(p, m) PROVE ConfigOK'
  BY <1>1, ModesAssumption DEF SetScheduler, ConfigOK, Config
<1>2. ASSUME NEW q \in RRQuanta, SetRRQuantum(p, q) PROVE ConfigOK'
  BY <1>2 DEF SetRRQuantum, ConfigOK, Config
<1>3. ASSUME NEW t \in AgingThresholds, SetPriorityAging(p, t) PROVE ConfigOK'
  BY <1>3 DEF SetPriorityAging, ConfigOK, Config
<1>4. ASSUME NEW m \in MlfqParams, SetMlfqParams(p, m) PROVE ConfigOK'
  <2> DEFINE quanta == [i \in 1..MLFQ_MAX_QUEUES |-> m.quantum[IF i <= m.queues THEN i ELSE m.queues]]
  <2>1. m.queues \in 2..MLFQ_MAX_QUEUES /\ \A i \in 1..m.queues : m.quantum[i] \in 1..100
    BY <1>4 DEF SetMlfqParams
  <2>2. quanta \in [1..MLFQ_MAX_QUEUES -> 1..100]
    BY <2>1 DEF MLFQ_MAX_QUEUES
  <2>3. cfg' = [cfg EXCEPT !.queues = m.queues, !.quantum = quanta]
    BY <1>4 DEF SetMlfqParams
  <2> HIDE DEF quanta
  <2> QED  BY <2>1, <2>2, <2>3 DEF ConfigOK, Config
<1>5. ASSUME NEW b \in MlfqBoosts, SetMlfqBoost(p, b) PROVE ConfigOK'
  BY <1>5 DEF SetMlfqBoost, ConfigOK, Config
<1>6. ASSUME NEW a \in PredictorParams, SetPredictor(p, a) PROVE ConfigOK'
  <2> DEFINE first == Clamp(a.initial, a.min, a.max)
  <2>1. /\ a.alpha \in 0..100 /\ a.min >= 1 /\ a.min <= a.max /\ a.max <= MAX_PREDICTION
        /\ a.initial \in Int /\ a.min \in Int /\ a.max \in Int
    BY <1>6, ArgumentsAssumption DEF SetPredictor
  <2>2. first \in a.min..a.max
    BY <2>1, ClampWithin
  <2> HIDE DEF first
  <2>3. /\ a.min \in 1..MAX_PREDICTION /\ a.max \in 1..MAX_PREDICTION
        /\ first \in 1..MAX_PREDICTION
    BY <2>1, <2>2, LimitsAreNat
  <2>4. cfg' = [cfg EXCEPT !.alpha = a.alpha, !.min = a.min, !.max = a.max, !.initial = first]
    BY <1>6, Zenon DEF SetPredictor, first
  <2> QED  BY <2>1, <2>3, <2>4 DEF ConfigOK, Config
<1>7. ASSUME UNCHANGED cfg PROVE ConfigOK'
  BY <1>7 DEF ConfigOK
<1> QED  BY <1>1, <1>2, <1>3, <1>4, <1>5, <1>6, <1>7 DEF Settings, SetPriority

LEMMA OneField ==
  ASSUME sp \in [Slot -> SchedRecord], NEW t, NEW r \in SchedRecord, sp' = [sp EXCEPT ![t] = r]
  PROVE  sp' \in [Slot -> SchedRecord]
OBVIOUS

\* The records after a scan of the table by one of the policies that scan it.
Scanned == [s \in Slot |-> IF state[s] = "RUNNABLE" THEN Waited(sp[s]) ELSE sp[s]]

LEMMA SliceStarts ==
  ASSUME NEW r \in SchedRecord, NEW slice \in 0..99, NEW waited \in 0..MaxWait
  PROVE  [r EXCEPT !.wait_ticks = waited, !.ticks_in_level = slice] \in SchedRecord
<1>1. PICK q \in SchedRecord : q = [r EXCEPT !.wait_ticks = waited]
  BY DEF SchedRecord
<1>2. [q EXCEPT !.ticks_in_level = slice] \in SchedRecord
  BY DEF SchedRecord
<1> QED  BY <1>1, <1>2, Zenon

LEMMA DispatchKeepsFields ==
  ASSUME FieldsOK, NEW p \in Slot, DispatchRR(p) \/ DispatchBest(p)
  PROVE  sp' \in [Slot -> SchedRecord] /\ rrpos' \in 0..NPROC
<1>1. 0 \in 0..99 /\ 0 \in 0..MaxWait
  BY BoundsAssumption
<1>2. CASE DispatchRR(p)
  <2>1. [sp[p] EXCEPT !.wait_ticks = 0, !.ticks_in_level = 0] \in SchedRecord
    BY <1>1, SliceStarts DEF FieldsOK
  <2>2. sp' = [sp EXCEPT ![p] = [sp[p] EXCEPT !.wait_ticks = 0, !.ticks_in_level = 0]] /\ rrpos' = p
    BY <1>2 DEF DispatchRR, FieldsOK
  <2> QED  BY <2>1, <2>2, OneField, NprocAssumption DEF FieldsOK, Slot
<1>3. CASE DispatchBest(p)
  <2>1. \A s \in Slot : sp[s] \in SchedRecord /\ Waited(sp[s]) \in SchedRecord
    BY WaitedIsRecord DEF FieldsOK
  <2>2. PICK f \in [Slot -> SchedRecord] : f = Scanned
    BY <2>1 DEF Scanned
  <2>3. f[p].ticks_in_level \in 0..99
    BY FieldTypes
  <2> DEFINE slice == IF cfg.sched_mode = "MLFQ" THEN 0 ELSE f[p].ticks_in_level
  <2>4. slice \in 0..99
    BY <1>1, <2>3
  <2>5. sp' = [f EXCEPT ![p].wait_ticks = 0,
                        ![p].ticks_in_level = IF cfg.sched_mode = "MLFQ" THEN 0 ELSE @]
    BY <1>3, <2>2, Zenon DEF DispatchBest, Scanned
  <2>6. sp' = [f EXCEPT ![p] = [f[p] EXCEPT !.wait_ticks = 0, !.ticks_in_level = slice]]
    BY <2>5
  <2> HIDE DEF slice
  <2>7. [f[p] EXCEPT !.wait_ticks = 0, !.ticks_in_level = slice] \in SchedRecord
    BY <1>1, <2>4, SliceStarts
  <2>8. sp' \in [Slot -> SchedRecord]
    BY <2>6, <2>7
  <2> QED  BY <1>3, <2>8 DEF DispatchBest, FieldsOK
<1> QED  BY <1>2, <1>3

LEMMA ClockKeepsFields ==
  ASSUME FieldsOK, NEW p \in Slot, SClock(p)
  PROVE  ticks' \in 0..MaxTicks /\ sp' \in [Slot -> SchedRecord]
<1>1. ticks' \in 0..MaxTicks /\ ticks' \in Nat
  BY SatWithin, BoundsAssumption DEF SClock, FieldsOK
<1>2. Charged(p) \in SchedRecord
  BY ChargedIsRecord DEF FieldsOK
<1>3. PICK charged \in [Slot -> SchedRecord] : charged = [sp EXCEPT ![p] = Charged(p)]
  BY <1>2 DEF FieldsOK
<1>4. \E W : sp' = Stamped(sp, W, ticks') \/ sp' = Stamped(charged, W, ticks')
  BY <1>3, Zenon DEF SClock
<1> QED  BY <1>1, <1>4, StampedAreRecords, Zenon DEF FieldsOK

LEMMA SettingsKeepFields ==
  ASSUME FieldsOK, NEW p \in Slot, Settings(p)
  PROVE  FieldsOK'
<1>1. ConfigOK'
  BY SettingsKeepConfig DEF FieldsOK
<1>2. ASSUME UNCHANGED <<ticks, sp, rrpos, hint>> PROVE FieldsOK'
  BY <1>1, <1>2 DEF FieldsOK
<1>3. ASSUME NEW t \in Slot, NEW v \in Priorities, SetPriority(p, t, v) PROVE FieldsOK'
  <2>1. v \in 0..20 /\ sp' = [sp EXCEPT ![t] = [sp[t] EXCEPT !.priority = v]]
        /\ UNCHANGED <<ticks, rrpos, hint>>
    BY <1>3 DEF SetPriority
  <2>2. sp[t] \in SchedRecord
    BY DEF FieldsOK
  <2>3. [sp[t] EXCEPT !.priority = v] \in SchedRecord
    BY <2>1, <2>2 DEF SchedRecord
  <2> QED  BY <1>1, <2>1, <2>3, OneField DEF FieldsOK
<1> QED  BY <1>2, <1>3, Zenon DEF Settings, Configure, SetScheduler, SetRRQuantum, SetPriorityAging,
         SetMlfqParams, SetMlfqBoost, SetPredictor

\* A hint is within the limits that were in force when it was clamped, and so within
\* the range of every configuration, whenever it is written.
LEMMA HintKeepsFields ==
  ASSUME FieldsOK, NEW p \in Slot, Hinting(p)
  PROVE  FieldsOK'
<1>1. ASSUME NEW v \in Hints, HintRead(p, v) PROVE FieldsOK'
  <2> DEFINE clamped == Clamp(v, cfg.min, cfg.max)
  <2>1. hint' = [hint EXCEPT ![p] = clamped] /\ UNCHANGED <<ticks, cfg, sp, rrpos>>
    BY <1>1 DEF HintRead
  <2>2. clamped \in 0..MAX_PREDICTION
    <3>1. v \in Int /\ ConfigOK
      BY ArgumentsAssumption DEF FieldsOK
    <3>2. cfg.min \in 1..MAX_PREDICTION /\ cfg.max \in 1..MAX_PREDICTION /\ cfg.min <= cfg.max
      BY <3>1, LimitsAreNumbers, Zenon
    <3>3. cfg.min \in Int /\ cfg.max \in Int
      BY <3>2, LimitsAreNat
    <3>4. clamped \in cfg.min..cfg.max
      BY <3>1, <3>2, <3>3, ClampWithin, Zenon
    <3> QED  BY <3>2, <3>4, LimitsAreNat
  <2> HIDE DEF clamped
  <2> QED  BY <2>1, <2>2 DEF FieldsOK, ConfigOK
<1>2. ASSUME NEW t \in Slot, HintWrite(p, t) PROVE FieldsOK'
  <2>1. /\ sp' = [sp EXCEPT ![t] = [sp[t] EXCEPT !.predicted_burst = hint[p]]]
        /\ hint' = [hint EXCEPT ![p] = 0] /\ UNCHANGED <<ticks, cfg, rrpos>>
    BY <1>2 DEF HintWrite
  <2>2. sp[t] \in SchedRecord /\ hint[p] \in 0..MAX_PREDICTION
    BY DEF FieldsOK
  <2>3. [sp[t] EXCEPT !.predicted_burst = hint[p]] \in SchedRecord
    BY <2>2 DEF SchedRecord
  <2>4. hint' \in [Slot -> 0..MAX_PREDICTION]
    BY <2>1, LimitsAreNat DEF FieldsOK
  <2> QED  BY <2>1, <2>3, <2>4, OneField DEF FieldsOK, ConfigOK
<1>3. ASSUME HintMisses(p) PROVE FieldsOK'
  <2>1. hint' = [hint EXCEPT ![p] = 0] /\ UNCHANGED <<ticks, cfg, sp, rrpos>>
    BY <1>3 DEF HintMisses
  <2> QED  BY <2>1, LimitsAreNat DEF FieldsOK, ConfigOK
<1> QED  BY <1>1, <1>2, <1>3 DEF Hinting

LEMMA FieldsStep ==
  ASSUME FieldsOK, [SchedNext]_vars
  PROVE  FieldsOK'
<1>1. ASSUME UNCHANGED cfg PROVE ConfigOK'
  BY <1>1 DEF ConfigOK, FieldsOK
<1>2. ASSUME UNCHANGED <<ticks, cfg, rrpos, hint>>, sp' \in [Slot -> SchedRecord] PROVE FieldsOK'
  BY <1>1, <1>2 DEF FieldsOK
<1>3. FreshProc \in SchedRecord /\ FreedProc \in SchedRecord
  BY FreshIsRecord DEF FieldsOK
<1>4. ticks \in Nat /\ sp \in [Slot -> SchedRecord] /\ ConfigOK
  BY DEF FieldsOK
<1>5. ASSUME NEW p \in Slot, NEW np \in Slot, SForkAlloc(p, np) PROVE FieldsOK'
  <2>1. sp[p].priority \in 0..20
    BY <1>4, FieldTypes
  <2>2. [FreshProc EXCEPT !.priority = sp[p].priority] \in SchedRecord
    BY <1>3, <2>1 DEF SchedRecord
  <2> QED  BY <1>2, <1>4, <1>5, <2>2, OneField DEF SForkAlloc
<1>6. ASSUME NEW p \in Slot, NEW np \in Slot, SForkFail(p, np) PROVE FieldsOK'
  BY <1>2, <1>3, <1>4, <1>6, OneField DEF SForkFail
<1>7. ASSUME NEW p \in Slot, SExitFinish(p) PROVE FieldsOK'
  BY <1>2, <1>4, <1>7, StampedAreRecords DEF SExitFinish
<1>8. ASSUME NEW p \in Slot, SReap(p) PROVE FieldsOK'
  BY <1>2, <1>3, <1>4, <1>8, OneField DEF SReap
<1>9. ASSUME NEW p \in Slot, SSleep(p) PROVE FieldsOK'
  <2>1. BurstEnded(sp[p]) \in SchedRecord
    BY <1>4, EndedIsRecord
  <2>2. sp' = [sp EXCEPT ![p] = BurstEnded(sp[p])] /\ UNCHANGED <<ticks, cfg, rrpos, hint>>
    BY <1>9 DEF SSleep
  <2> QED  BY <1>2, <1>4, <2>1, <2>2, OneField
<1>10. ASSUME NEW p \in Slot, SOther(p) PROVE FieldsOK'
  BY <1>2, <1>4, <1>10 DEF SOther, schedVars
<1>11. ASSUME NEW p \in Slot, DispatchRR(p) \/ DispatchBest(p) PROVE FieldsOK'
  <2>1. UNCHANGED <<ticks, cfg, hint>>
    BY <1>11 DEF DispatchRR, DispatchBest
  <2> QED  BY <1>1, <1>11, <2>1, DispatchKeepsFields DEF FieldsOK
<1>12. ASSUME RRPassEnds PROVE FieldsOK'
  <2>1. UNCHANGED <<ticks, cfg, sp, hint>> /\ rrpos' = 0
    BY <1>12 DEF RRPassEnds
  <2> QED  BY <1>1, <2>1, NprocAssumption DEF FieldsOK
<1>13. ASSUME NEW c \in IOChans, SWakeup(c) PROVE FieldsOK'
  BY <1>2, <1>4, <1>13, StampedAreRecords DEF SWakeup
<1>14. ASSUME SClockIdle PROVE FieldsOK'
  <2>1. ticks' \in 0..MaxTicks /\ ticks' \in Nat
    BY <1>14, SatWithin, BoundsAssumption DEF SClockIdle, FieldsOK
  <2>2. sp' \in [Slot -> SchedRecord] /\ UNCHANGED <<cfg, rrpos, hint>>
    BY <1>4, <1>14, <2>1, StampedAreRecords DEF SClockIdle
  <2> QED  BY <1>1, <2>1, <2>2 DEF FieldsOK
<1>15. ASSUME (Spin /\ UNCHANGED schedVars) \/ UNCHANGED vars PROVE FieldsOK'
  BY <1>2, <1>4, <1>15 DEF schedVars, vars
<1>16. ASSUME NEW p \in Slot, SClock(p) PROVE FieldsOK'
  <2>1. UNCHANGED <<cfg, rrpos, hint>>
    BY <1>16 DEF SClock
  <2> QED  BY <1>1, <1>16, <2>1, ClockKeepsFields DEF FieldsOK
<1>17. ASSUME NEW p \in Slot, RRSkip(p) PROVE FieldsOK'
  <2>1. UNCHANGED <<ticks, cfg, sp, hint>> /\ rrpos' = p
    BY <1>17 DEF RRSkip
  <2> QED  BY <1>1, <2>1, NprocAssumption DEF FieldsOK, Slot
<1> QED  BY <1>5, <1>6, <1>7, <1>8, <1>9, <1>10, <1>11, <1>12, <1>13, <1>14, <1>15, <1>16, <1>17,
            SettingsKeepFields, HintKeepsFields DEF SchedNext, Untimed

\* Whatever the calls are given and in whatever order they are made, the
\* configuration and the scheduler fields stay within their limits: no prediction,
\* priority, level or slice leaves its range.
THEOREM FieldsStayInRange == SchedSpec => []FieldsOK
BY FieldsInit, FieldsStep, PTL DEF SchedSpec

-----------------------------------------------------------------------------
(* What one step does to the record of a live process.                     *)

\* The fields the policies act on; ready_since_tick is only a stamp.
Seen(r) == <<r.priority, r.queue_level, r.ticks_in_level, r.wait_ticks, r.predicted_burst>>
SeenButPrediction(r) == <<r.priority, r.queue_level, r.ticks_in_level, r.wait_ticks>>

\* p is charged for this tick: it is not a killed process caught in user mode.
Charges(p) == SClock(p) /\ ~(pc[p] = "user" /\ killed[p])

Untouched(s) == Seen(sp'[s]) = Seen(sp[s])
EndsBurst(s) ==
  /\ state[s] = "RUNNING" /\ state'[s] = "SLEEPING"
  /\ SeenButPrediction(sp'[s]) = SeenButPrediction(sp[s])
  /\ sp'[s].predicted_burst # sp[s].predicted_burst =>
       BurstMoves(s, sp[s].predicted_burst, sp'[s].predicted_burst)
RunsByRR(s) ==
  /\ DispatchRR(s)
  /\ sp'[s].wait_ticks = 0 /\ sp'[s].ticks_in_level = 0
  /\ sp'[s].queue_level = sp[s].queue_level /\ sp'[s].predicted_burst = sp[s].predicted_burst
RunsAsBest(s) ==
  /\ DispatchBest(s)
  /\ sp'[s].wait_ticks = 0 /\ (cfg.sched_mode = "MLFQ" => sp'[s].ticks_in_level = 0)
  /\ sp'[s].queue_level = Waited(sp[s]).queue_level
  /\ sp'[s].predicted_burst = sp[s].predicted_burst
WaitsARound(s) ==
  /\ state[s] = "RUNNABLE" /\ sp'[s] = Waited(sp[s])
  /\ \E p \in Slot : p # s /\ DispatchBest(p)
IsTold(s) ==
  /\ UNCHANGED <<state, cpu, cfg, rrpos>>
  /\ <<sp'[s].queue_level, sp'[s].ticks_in_level, sp'[s].wait_ticks>>
       = <<sp[s].queue_level, sp[s].ticks_in_level, sp[s].wait_ticks>>
  /\ sp'[s].predicted_burst # sp[s].predicted_burst => HintMoves(sp'[s].predicted_burst)
IsCleared(s) == state[s] \notin Live /\ state'[s] \notin Live /\ sp'[s].wait_ticks = 0

RecordMoves(s) ==
  \/ Untouched(s) \/ EndsBurst(s) \/ RunsByRR(s) \/ RunsAsBest(s) \/ WaitsARound(s)
  \/ IsTold(s) \/ IsCleared(s)

\* ... and the one thing the timer does.
IsCharged(s) == Charges(s) /\ Seen(sp'[s]) = Seen(Charged(s))

LEMMA StampKeepsSeen ==
  ASSUME NEW f \in [Slot -> SchedRecord], NEW W, NEW now, NEW s \in Slot
  PROVE  Seen(Stamped(f, W, now)[s]) = Seen(f[s])
<1>1. CASE s \in W
  <2>1. PICK r \in SchedRecord : r = f[s]
    OBVIOUS
  <2>2. Stamped(f, W, now)[s] = [r EXCEPT !.ready_since_tick = now]
    BY <1>1, <2>1 DEF Stamped
  <2>3. Seen([r EXCEPT !.ready_since_tick = now]) = Seen(r)
    BY DEF Seen, SchedRecord
  <2> QED  BY <2>1, <2>2, <2>3
<1>2. CASE s \notin W
  BY <1>2 DEF Stamped
<1> QED  BY <1>1, <1>2

LEMMA WaitedKeepsPrediction ==
  ASSUME NEW r \in SchedRecord
  PROVE  Waited(r).predicted_burst = r.predicted_burst
<1> DEFINE w == Sat(r.wait_ticks, MaxWait)
<1>1. [r EXCEPT !.wait_ticks = w].predicted_burst = r.predicted_burst
  BY DEF SchedRecord
<1>2. [r EXCEPT !.priority = @ - 1, !.wait_ticks = 0].predicted_burst = r.predicted_burst
  BY DEF SchedRecord
<1>3. [r EXCEPT !.queue_level = 0, !.ticks_in_level = 0, !.wait_ticks = 0].predicted_burst
        = r.predicted_burst
  BY DEF SchedRecord
<1> QED  BY <1>1, <1>2, <1>3, Zenon DEF Waited

LEMMA ChargedKeepsRest ==
  ASSUME NEW p, sp[p] \in SchedRecord
  PROVE  /\ Charged(p).predicted_burst = sp[p].predicted_burst
         /\ Charged(p).wait_ticks = sp[p].wait_ticks
<1> DEFINE r == [sp[p] EXCEPT !.cur_burst_run = Sat(@, MaxBurst)]
           Kept(x) == x.predicted_burst = r.predicted_burst /\ x.wait_ticks = r.wait_ticks
<1>1. PICK q \in SchedRecord : q = sp[p]
  OBVIOUS
<1>2. PICK b : b = Sat(q.cur_burst_run, MaxBurst)
  OBVIOUS
<1>3. /\ [q EXCEPT !.cur_burst_run = b].predicted_burst = q.predicted_burst
      /\ [q EXCEPT !.cur_burst_run = b].wait_ticks = q.wait_ticks
  BY DEF SchedRecord
<1>4. r.predicted_burst = sp[p].predicted_burst /\ r.wait_ticks = sp[p].wait_ticks
  BY <1>1, <1>2, <1>3
<1>5. DOMAIN r = DOMAIN q /\ {"predicted_burst", "wait_ticks"} \subseteq DOMAIN q
  BY <1>1 DEF SchedRecord
<1> HIDE DEF r
<1>6. Charged(p) = r \/ (\E t : Charged(p) = [r EXCEPT !.ticks_in_level = t])
        \/ (\E t, l : Charged(p) = [r EXCEPT !.ticks_in_level = t, !.queue_level = l])
  BY Zenon DEF Charged, r
<1>7. ASSUME NEW t PROVE Kept([r EXCEPT !.ticks_in_level = t])
  BY <1>5
<1>8. ASSUME NEW t, NEW l PROVE Kept([r EXCEPT !.ticks_in_level = t, !.queue_level = l])
  BY <1>5
<1>9. Kept(r)
  OBVIOUS
<1> HIDE DEF Kept
<1>10. Kept(Charged(p))
  <2>1. CASE \E t : Charged(p) = [r EXCEPT !.ticks_in_level = t]
    <3>1. PICK t : Charged(p) = [r EXCEPT !.ticks_in_level = t]
      BY <2>1
    <3>2. Kept([r EXCEPT !.ticks_in_level = t])
      BY <1>7
    <3> QED  BY <3>1, <3>2
  <2>2. CASE \E t, l : Charged(p) = [r EXCEPT !.ticks_in_level = t, !.queue_level = l]
    <3>1. PICK t, l : Charged(p) = [r EXCEPT !.ticks_in_level = t, !.queue_level = l]
      BY <2>2
    <3>2. Kept([r EXCEPT !.ticks_in_level = t, !.queue_level = l])
      BY <1>8
    <3> QED  BY <3>1, <3>2
  <2> QED  BY <1>6, <1>9, <2>1, <2>2
<1> QED  BY <1>4, <1>10 DEF Kept

LEMMA NextOneRuns ==
  ASSUME FieldsOK, NEW p \in Slot, NEW s \in Slot, DispatchRR(p) \/ DispatchBest(p)
  PROVE  IF s = p THEN RunsByRR(s) \/ RunsAsBest(s)
         ELSE IF DispatchBest(p) /\ state[s] = "RUNNABLE" THEN WaitsARound(s) ELSE Untouched(s)
<1>1. sp \in [Slot -> SchedRecord] /\ ConfigOK
  BY DEF FieldsOK
<1>2. CASE DispatchRR(p)
  <2>0. ~DispatchBest(p)
    BY <1>2 DEF DispatchRR, AtSlot, DispatchBest
  <2>1. PICK r \in SchedRecord : r = sp[p]
    BY <1>1
  <2>2. sp' = [sp EXCEPT ![p] = [r EXCEPT !.wait_ticks = 0, !.ticks_in_level = 0]]
    BY <1>1, <1>2, <2>1 DEF DispatchRR
  <2> DEFINE q == [r EXCEPT !.wait_ticks = 0, !.ticks_in_level = 0]
  <2>3. /\ q.wait_ticks = 0 /\ q.ticks_in_level = 0
        /\ q.queue_level = r.queue_level /\ q.predicted_burst = r.predicted_burst
    BY DEF SchedRecord
  <2> HIDE DEF q
  <2>4. CASE s = p
    <3>1. sp'[s] = q
      BY <1>1, <2>2, <2>4 DEF q
    <3> QED  BY <1>2, <2>1, <2>3, <2>4, <3>1, Zenon DEF RunsByRR
  <2>5. CASE s # p
    BY <1>1, <2>0, <2>2, <2>5 DEF Untouched
  <2> QED  BY <2>4, <2>5
<1>3. CASE DispatchBest(p)
  <2>1. \A x \in Slot : sp[x] \in SchedRecord /\ Waited(sp[x]) \in SchedRecord
    BY <1>1, WaitedIsRecord
  <2>2. PICK f \in [Slot -> SchedRecord] : f = Scanned
    BY <2>1 DEF Scanned
  <2> DEFINE slice == IF cfg.sched_mode = "MLFQ" THEN 0 ELSE f[p].ticks_in_level
             q == [f[p] EXCEPT !.wait_ticks = 0, !.ticks_in_level = slice]
  <2>3. sp' = [f EXCEPT ![p].wait_ticks = 0,
                        ![p].ticks_in_level = IF cfg.sched_mode = "MLFQ" THEN 0 ELSE @]
    BY <1>3, <2>2, Zenon DEF DispatchBest, Scanned
  <2>4. sp' = [f EXCEPT ![p] = q]
    BY <2>3
  <2>5. state[p] = "RUNNABLE"
    BY <1>3 DEF DispatchBest, Dispatch
  <2>6. CASE s = p
    <3>1. PICK r \in SchedRecord : r = f[p]
      OBVIOUS
    <3>2. r = Waited(sp[s])
      BY <2>2, <2>5, <2>6, <3>1 DEF Scanned
    <3>3. sp'[s] = [r EXCEPT !.wait_ticks = 0, !.ticks_in_level = slice]
      BY <2>4, <2>6, <3>1
    <3>4. cfg.sched_mode = "MLFQ" => slice = 0
      OBVIOUS
    <3> HIDE DEF slice
    <3>5. /\ [r EXCEPT !.wait_ticks = 0, !.ticks_in_level = slice].wait_ticks = 0
          /\ [r EXCEPT !.wait_ticks = 0, !.ticks_in_level = slice].ticks_in_level = slice
          /\ [r EXCEPT !.wait_ticks = 0, !.ticks_in_level = slice].queue_level = r.queue_level
          /\ [r EXCEPT !.wait_ticks = 0, !.ticks_in_level = slice].predicted_burst = r.predicted_burst
      BY DEF SchedRecord
    <3>6. r.predicted_burst = sp[s].predicted_burst
      BY <2>1, <3>2, WaitedKeepsPrediction
    <3>7. RunsAsBest(s)
      BY <1>3, <2>6, <3>2, <3>3, <3>4, <3>5, <3>6, Zenon DEF RunsAsBest
    <3> QED  BY <2>6, <3>7
  <2>7. CASE s # p
    <3> HIDE DEF q
    <3>1. sp'[s] = IF state[s] = "RUNNABLE" THEN Waited(sp[s]) ELSE sp[s]
      BY <2>2, <2>4, <2>7 DEF Scanned
    <3>2. CASE state[s] = "RUNNABLE"
      BY <1>3, <2>7, <3>1, <3>2, Zenon DEF WaitsARound
    <3>3. CASE state[s] # "RUNNABLE"
      BY <2>7, <3>1, <3>3 DEF Untouched
    <3> QED  BY <3>2, <3>3
  <2> QED  BY <2>6, <2>7
<1> QED  BY <1>2, <1>3

LEMMA TickMoves ==
  ASSUME FieldsOK, NEW p \in Slot, NEW s \in Slot, SClock(p)
  PROVE  IF s = p /\ Charges(p) THEN IsCharged(s) ELSE Untouched(s)
<1>1. sp \in [Slot -> SchedRecord] /\ ConfigOK
  BY DEF FieldsOK
<1>2. Charged(p) \in SchedRecord
  BY <1>1, ChargedIsRecord
<1>3. PICK charged \in [Slot -> SchedRecord] : charged = [sp EXCEPT ![p] = Charged(p)]
  BY <1>1, <1>2
<1>4. CASE pc[p] = "user" /\ killed[p]
  <2>1. \E W : sp' = Stamped(sp, W, ticks')
    BY <1>4, Zenon DEF SClock
  <2>2. ~Charges(p)
    BY <1>4 DEF Charges
  <2> QED  BY <1>1, <2>1, <2>2, StampKeepsSeen DEF Untouched
<1>5. CASE ~(pc[p] = "user" /\ killed[p])
  <2>1. \E W : sp' = Stamped(charged, W, ticks')
    BY <1>3, <1>5, Zenon DEF SClock
  <2>2. Seen(sp'[s]) = Seen(charged[s])
    BY <2>1, StampKeepsSeen
  <2>3. CASE s = p
    <3>1. charged[s] = Charged(s)
      BY <1>1, <1>3, <2>3
    <3> QED  BY <1>5, <2>2, <2>3, <3>1 DEF IsCharged, Charges
  <2>4. CASE s # p
    BY <1>3, <2>2, <2>4 DEF Untouched
  <2> QED  BY <2>3, <2>4
<1> QED  BY <1>4, <1>5

LEMMA SettingsMove ==
  ASSUME FieldsOK, NEW p \in Slot, NEW s \in Slot, Settings(p)
  PROVE  Untouched(s) \/ IsTold(s)
<1>1. sp \in [Slot -> SchedRecord] /\ ConfigOK
  BY DEF FieldsOK
<1>2. ASSUME NEW c, Configure(p, c) PROVE Untouched(s)
  BY <1>2 DEF Configure, Untouched
<1>3. ASSUME NEW t \in Slot, NEW v \in Priorities, SetPriority(p, t, v) PROVE IsTold(s)
  <2>1. PICK r \in SchedRecord : r = sp[t]
    BY <1>1
  <2>2. /\ sp' = [sp EXCEPT ![t] = [r EXCEPT !.priority = v]]
        /\ UNCHANGED <<state, cpu, cfg, rrpos>>
    BY <1>3, <2>1 DEF SetPriority, procVars
  <2>3. LET q == [r EXCEPT !.priority = v] IN
        /\ q.queue_level = r.queue_level /\ q.ticks_in_level = r.ticks_in_level
        /\ q.wait_ticks = r.wait_ticks /\ q.predicted_burst = r.predicted_burst
    BY DEF SchedRecord
  <2>4. sp'[s] = IF s = t THEN [r EXCEPT !.priority = v] ELSE sp[s]
    BY <1>1, <2>2
  <2> QED  BY <2>1, <2>2, <2>3, <2>4 DEF IsTold
<1> QED  BY <1>2, <1>3, Zenon DEF Settings, SetScheduler, SetRRQuantum, SetPriorityAging,
         SetMlfqParams, SetMlfqBoost, SetPredictor

LEMMA HintingMoves ==
  ASSUME ProcInv, FieldsOK, NEW p \in Slot, NEW s \in Slot, Hinting(p)
  PROVE  Untouched(s) \/ IsTold(s)
<1>1. sp \in [Slot -> SchedRecord]
  BY DEF FieldsOK
<1>2. ASSUME NEW v \in Hints, HintRead(p, v) PROVE Untouched(s)
  BY <1>2 DEF HintRead, Untouched
<1>3. ASSUME HintMisses(p) PROVE Untouched(s)
  BY <1>3 DEF HintMisses, Untouched
<1>4. ASSUME NEW t \in Slot, HintWrite(p, t) PROVE IsTold(s)
  <2>1. PICK r \in SchedRecord : r = sp[t]
    BY <1>1
  <2>2. PICK h : h = hint[p]
    OBVIOUS
  <2>3. /\ sp' = [sp EXCEPT ![t] = [r EXCEPT !.predicted_burst = h]]
        /\ UNCHANGED <<state, cpu, cfg, rrpos>>
    BY <1>4, <2>1, <2>2 DEF HintWrite, CallDone
  <2>4. LET q == [r EXCEPT !.predicted_burst = h] IN
        /\ q.queue_level = r.queue_level /\ q.ticks_in_level = r.ticks_in_level
        /\ q.wait_ticks = r.wait_ticks /\ q.predicted_burst = h
    BY DEF SchedRecord
  <2>5. sp'[s] = IF s = t THEN [r EXCEPT !.predicted_burst = h] ELSE sp[s]
    BY <1>1, <2>3
  <2>6. HintMoves(h)
    <3>1. cpu = p /\ pc[p] = "call" /\ pc'[p] # "call"
      BY <1>4 DEF HintWrite, CallDone, Running, Resumed, ProcInv, TypeOK
    <3> QED  BY <2>2, <3>1 DEF HintMoves
  <2> QED  BY <2>1, <2>3, <2>4, <2>5, <2>6 DEF IsTold
<1> QED  BY <1>2, <1>3, <1>4 DEF Hinting

\* Every step but a timer interrupt taken by a running process does one of these
\* things to a record.
LEMMA RecordStep ==
  ASSUME ProcInv, FieldsOK, [Untimed]_vars, NEW s \in Slot
  PROVE  RecordMoves(s)
<1> USE DEF RecordMoves
<1>1. sp \in [Slot -> SchedRecord] /\ ConfigOK
  BY DEF FieldsOK
<1>2. ASSUME NEW t \in Slot, t # s, NEW r, sp' = [sp EXCEPT ![t] = r] PROVE Untouched(s)
  BY <1>1, <1>2 DEF Untouched
<1>3. ASSUME NEW W, NEW now, sp' = Stamped(sp, W, now) PROVE Untouched(s)
  BY <1>1, <1>3, StampKeepsSeen DEF Untouched
<1>4. ASSUME UNCHANGED sp PROVE Untouched(s)
  BY <1>4 DEF Untouched
<1>5. ASSUME NEW p \in Slot, NEW np \in Slot, SForkAlloc(p, np) \/ SForkFail(p, np)
      PROVE  Untouched(s) \/ IsCleared(s)
  <2>2. state[np] = "UNUSED"
    BY <1>5 DEF SForkAlloc, ForkAlloc, SForkFail, ForkFail, Unused
  <2>3. /\ [FreshProc EXCEPT !.priority = sp[p].priority].wait_ticks = 0
        /\ FreedProc.wait_ticks = 0
    BY DEF FreshProc, FreedProc
  <2>4. CASE s # np
    BY <1>2, <1>5, <2>2, <2>4 DEF SForkAlloc, SForkFail
  <2>5. CASE s = np
    <3>1. sp'[s].wait_ticks = 0
      BY <1>1, <1>5, <2>2, <2>3, <2>5 DEF SForkAlloc, SForkFail
    <3>2. state[s] \notin Live /\ state'[s] \notin Live
      BY <1>5, <2>2, <2>5 DEF SForkAlloc, ForkAlloc, SForkFail, ForkFail, Live, ProcInv, TypeOK
    <3> QED  BY <3>1, <3>2 DEF IsCleared
  <2> QED  BY <2>4, <2>5
<1>6. ASSUME NEW p \in Slot, SReap(p) PROVE Untouched(s) \/ IsCleared(s)
  <2>1. Lowest(Zombies(p)) \in Zombies(p)
    BY <1>6, LowestIsIn DEF SReap, WaitReap, Zombies, Children
  <2>2. PICK c \in Slot : c = Lowest(Zombies(p)) /\ state[c] = "ZOMBIE"
    BY <2>1 DEF Zombies, Children
  <2>3. CASE s # c
    BY <1>2, <1>6, <2>2, <2>3 DEF SReap
  <2>4. CASE s = c
    <3>1. FreedProc.wait_ticks = 0
      BY DEF FreedProc
    <3>2. sp'[s].wait_ticks = 0
      BY <1>1, <1>6, <2>2, <2>4, <3>1 DEF SReap
    <3>3. state[s] \notin Live /\ state'[s] \notin Live
      BY <1>6, <2>2, <2>4 DEF SReap, WaitReap, Reap, Live, ProcInv, TypeOK
    <3> QED  BY <3>2, <3>3 DEF IsCleared
  <2> QED  BY <2>3, <2>4
<1>7. ASSUME NEW p \in Slot, SExitFinish(p) PROVE Untouched(s)
  BY <1>3, <1>7 DEF SExitFinish
<1>8. ASSUME NEW p \in Slot, SSleep(p) PROVE Untouched(s) \/ EndsBurst(s)
  <2>1. PICK r \in SchedRecord : r = sp[p]
    BY <1>1
  <2>2. sp' = [sp EXCEPT ![p] = BurstEnded(r)]
    BY <1>8, <2>1 DEF SSleep
  <2>3. CASE s # p
    BY <1>2, <2>2, <2>3
  <2>4. CASE s = p
    <3>1. sp'[s] = BurstEnded(r)
      BY <1>1, <2>2, <2>4
    <3>2. state[s] = "RUNNING" /\ state'[s] = "SLEEPING"
      BY <1>8, <2>4 DEF SSleep, WaitSleep, InWait, PauseSleep, InPause, IoSleep, SleepOn, Asks,
         AtSyscall, Running, ProcInv, TypeOK
    <3>3. CASE r.cur_burst_run = 0
      BY <2>1, <2>4, <3>1, <3>3 DEF BurstEnded, Untouched
    <3>4. CASE r.cur_burst_run # 0
      <4>1. BurstMoves(s, r.predicted_burst, sp'[s].predicted_burst)
        <5>1. sp[s].cur_burst_run > 0
          BY <2>1, <2>4, <3>4, FieldTypes
        <5> QED  BY <1>1, <2>1, <2>4, <3>1, <3>2, <3>4, <5>1, AverageWithin DEF BurstMoves
      <4>2. PICK np : BurstEnded(r) = [r EXCEPT !.predicted_burst = np, !.cur_burst_run = 0]
        BY <3>4, Zenon DEF BurstEnded
      <4>3. SeenButPrediction([r EXCEPT !.predicted_burst = np, !.cur_burst_run = 0])
              = SeenButPrediction(r)
        BY DEF SeenButPrediction, SchedRecord
      <4> QED  BY <2>1, <2>4, <3>1, <3>2, <4>1, <4>2, <4>3 DEF EndsBurst
    <3> QED  BY <3>3, <3>4
  <2> QED  BY <2>3, <2>4
<1>9. ASSUME NEW p \in Slot, SOther(p) PROVE Untouched(s)
  BY <1>4, <1>9 DEF SOther, schedVars
<1>10. ASSUME \/ RRPassEnds \/ (\E p \in Slot : RRSkip(p))
              \/ (Spin /\ UNCHANGED schedVars) \/ UNCHANGED vars
       PROVE  Untouched(s)
  BY <1>4, <1>10 DEF RRPassEnds, RRSkip, schedVars, vars
<1>11. ASSUME (\E c \in IOChans : SWakeup(c)) \/ SClockIdle PROVE Untouched(s)
  BY <1>3, <1>11 DEF SWakeup, SClockIdle
<1>12. ASSUME NEW p \in Slot, DispatchRR(p) \/ DispatchBest(p) PROVE RecordMoves(s)
  BY <1>12, NextOneRuns
<1> QED  BY <1>5, <1>6, <1>7, <1>8, <1>9, <1>10, <1>11, <1>12, SettingsMove, HintingMoves
         DEF Untimed

\* A prediction moves at the end of a burst, towards what was observed and never past
\* it but where the limits cut it off, or by a hint that some call has clamped before:
\* preemption, aging, boosting, waking, dying and the settings leave it.
THEOREM PredictionsMoveAtBurstEnds == SchedSpec => PredictionMoves
<1> DEFINE Moves == \A s \in Slot :
             state[s] \in Live /\ sp'[s].predicted_burst # sp[s].predicted_burst =>
               \/ BurstMoves(s, sp[s].predicted_burst, sp'[s].predicted_burst)
               \/ HintMoves(sp'[s].predicted_burst)
<1>1. ProcInv /\ FieldsOK /\ [SchedNext]_vars => [Moves]_vars
  <2> SUFFICES ASSUME ProcInv, FieldsOK, [SchedNext]_vars, NEW s \in Slot, state[s] \in Live,
                      sp'[s].predicted_burst # sp[s].predicted_burst
               PROVE  \/ BurstMoves(s, sp[s].predicted_burst, sp'[s].predicted_burst)
                      \/ HintMoves(sp'[s].predicted_burst)
    OBVIOUS
  <2>1. sp[s] \in SchedRecord
    BY DEF FieldsOK
  <2>2. RecordMoves(s) \/ Untouched(s) \/ IsCharged(s)
    BY RecordStep, TickMoves DEF SchedNext
  <2>3. CASE Untouched(s)
    BY <2>3 DEF Untouched, Seen
  <2>4. CASE EndsBurst(s)
    BY <2>4 DEF EndsBurst
  <2>5. CASE RunsByRR(s) \/ RunsAsBest(s)
    BY <2>5 DEF RunsByRR, RunsAsBest
  <2>6. CASE WaitsARound(s)
    BY <2>1, <2>6, WaitedKeepsPrediction DEF WaitsARound
  <2>7. CASE IsCharged(s)
    BY <2>1, <2>7, ChargedKeepsRest DEF IsCharged, Seen
  <2>8. CASE IsTold(s)
    BY <2>8 DEF IsTold
  <2>9. ~IsCleared(s)
    BY DEF IsCleared
  <2> QED  BY <2>2, <2>3, <2>4, <2>5, <2>6, <2>7, <2>8, <2>9 DEF RecordMoves
<1> HIDE DEF Moves
<1>2. SchedSpec => [][Moves]_vars
  BY SchedSafety, FieldsStayInRange, <1>1, PTL DEF SchedSpec
<1> QED  BY <1>2 DEF PredictionMoves, Moves

-----------------------------------------------------------------------------
(* Waiting and running: what XvSlice watches.                              *)

\* The history variables count and leave the schedulers alone.
LEMMA HistoryStep ==
  ASSUME HNext
  PROVE  SchedNext /\ Watch
BY DEF HNext, SchedNext

LEMMA HistoryWatches == HSpec => SchedSpec
<1>1. HInit => SchedInit
  BY DEF HInit
<1>2. [HNext]_hvars => [SchedNext]_vars
  BY HistoryStep DEF hvars
<1> QED  BY <1>1, <1>2, PTL DEF HSpec, SchedSpec

\* Everything known of the schedulers so far.
KernelOK == ProcInv /\ FieldsOK

LEMMA KernelStaysOK == HSpec => []KernelOK
BY HistoryWatches, SchedSafety, FieldsStayInRange, PTL DEF KernelOK

LEMMA HistorySteps ==
  ASSUME [HNext]_hvars
  PROVE  [SchedNext]_vars
BY HistoryStep DEF hvars

CountsOK ==
  /\ ran \in [Slot -> 0..MaxCount]
  /\ rounds \in [Slot -> 0..MaxCount]
  /\ overtaken \in [Slot -> [Slot -> 0..MaxCount]]

LEMMA MaxCountIsNat == MaxCount \in Nat
BY CountersAssumption

LEMMA CountsInit == HInit => CountsOK
<1>1. 0 \in 0..MaxCount
  BY MaxCountIsNat
<1> QED  BY <1>1 DEF HInit, CountsOK

\* The slot picked by the scheduler in this step, if any.
Picked == IF cpu = None THEN cpu' ELSE None

LEMMA WatchCounts ==
  ASSUME CountsOK, Watch
  PROVE  /\ rounds' \in [Slot -> 0..MaxCount]
         /\ overtaken' \in [Slot -> [Slot -> 0..MaxCount]]
         /\ \A s \in Slot : rounds'[s] =
              IF state'[s] # "RUNNABLE" \/ state[s] # "RUNNABLE" \/ Helped(s) THEN 0
              ELSE IF Picked # None THEN Sat(rounds[s], MaxCount) ELSE rounds[s]
         /\ \A s, t \in Slot : overtaken'[s][t] =
              IF cfg.sched_mode # "RR" \/ state'[s] # "RUNNABLE" \/ state[s] # "RUNNABLE" THEN 0
              ELSE IF Picked = t THEN Sat(overtaken[s][t], MaxCount) ELSE overtaken[s][t]
<1>1. 0 \in 0..MaxCount
  BY MaxCountIsNat
<1>2. /\ \A s \in Slot : rounds[s] \in 0..MaxCount /\ Sat(rounds[s], MaxCount) \in 0..MaxCount
      /\ \A s, t \in Slot : /\ overtaken[s][t] \in 0..MaxCount
                            /\ Sat(overtaken[s][t], MaxCount) \in 0..MaxCount
  BY SatWithin, MaxCountIsNat DEF CountsOK
<1>3. /\ rounds' = [s \in Slot |->
           IF state'[s] # "RUNNABLE" \/ state[s] # "RUNNABLE" \/ Helped(s) THEN 0
           ELSE IF Picked # None THEN Sat(rounds[s], MaxCount) ELSE rounds[s]]
      /\ overtaken' = [s \in Slot |-> [t \in Slot |->
           IF cfg.sched_mode # "RR" \/ state'[s] # "RUNNABLE" \/ state[s] # "RUNNABLE" THEN 0
           ELSE IF Picked = t THEN Sat(overtaken[s][t], MaxCount) ELSE overtaken[s][t]]]
  BY Zenon DEF Watch, Picked
<1> HIDE DEF Picked
<1> QED  BY <1>1, <1>2, <1>3

LEMMA CountsStep ==
  ASSUME CountsOK, [HNext]_hvars
  PROVE  CountsOK'
<1>1. CASE UNCHANGED hvars
  BY <1>1 DEF hvars, history, CountsOK
<1>2. CASE HNext
  <2>1. /\ rounds' \in [Slot -> 0..MaxCount]
        /\ overtaken' \in [Slot -> [Slot -> 0..MaxCount]]
    BY <1>2, HistoryStep, WatchCounts
  <2>2. 0 \in 0..MaxCount
    BY MaxCountIsNat
  <2>3. \A s \in Slot : ran[s] \in 0..MaxCount /\ Sat(ran[s], MaxCount) \in 0..MaxCount
    BY SatWithin, MaxCountIsNat DEF CountsOK
  <2>4. ran' \in [Slot -> 0..MaxCount]
    <3>1. CASE ran' = [s \in Slot |->
                 IF Dispatched(s) \/ state'[s] # "RUNNING" \/ cfg' # cfg THEN 0 ELSE ran[s]]
      BY <2>2, <2>3, <3>1
    <3>2. ASSUME NEW p \in Slot,
                 ran' = [ran EXCEPT ![p] = IF state'[p] # "RUNNING" THEN 0
                                           ELSE IF pc[p] = "user" /\ killed[p] THEN @
                                           ELSE Sat(@, MaxCount)]
          PROVE  ran' \in [Slot -> 0..MaxCount]
      <4>1. PICK n \in 0..MaxCount : n = IF state'[p] # "RUNNING" THEN 0
                                         ELSE IF pc[p] = "user" /\ killed[p] THEN ran[p]
                                         ELSE Sat(ran[p], MaxCount)
        BY <2>2, <2>3
      <4>2. ran' = [ran EXCEPT ![p] = n]
        BY <3>2, <4>1 DEF CountsOK
      <4> QED  BY <4>2 DEF CountsOK
    <3> QED  BY <1>2, <3>1, <3>2, Zenon DEF HNext
  <2> QED  BY <2>1, <2>4 DEF CountsOK
<1> QED  BY <1>1, <1>2

LEMMA CountsStay == HSpec => []CountsOK
BY CountsInit, CountsStep, PTL DEF HSpec

-----------------------------------------------------------------------------
(* Round robin                                                             *)

\* Where the pass of sched_rr is, and who it has run since a process waits: behind
\* the position nobody at or below the process, nor beyond the position; ahead of it
\* nobody between the position and the process.
PassInv ==
  \A s, t \in Slot : cfg.sched_mode = "RR" =>
    /\ overtaken[s][t] <= 1
    /\ s > rrpos /\ rrpos < t /\ t <= s => overtaken[s][t] = 0
    /\ s <= rrpos /\ (t <= s \/ t > rrpos) => overtaken[s][t] = 0

\* How the position and the hart move.
LEMMA PassMoves ==
  ASSUME ProcInv, [SchedNext]_vars
  PROVE  \/ \E p \in Slot : DispatchRR(p) \/ DispatchBest(p)
         \/ RRPassEnds
         \/ \E p \in Slot : RRSkip(p)
         \/ rrpos' = rrpos /\ Picked = None
<1> USE DEF Picked
<1>1. ASSUME NEW q \in Slot, Settings(q) PROVE UNCHANGED <<cpu, rrpos>>
  <2>1. UNCHANGED cpu
    BY <1>1, SettingsLeaveTable DEF procVars
  <2> QED  BY <1>1, <2>1, Zenon DEF Settings, SetScheduler, SetRRQuantum, SetPriorityAging,
           SetMlfqParams, SetMlfqBoost, SetPredictor, SetPriority, Configure
<1>2. ASSUME NEW q \in Slot, SReap(q) PROVE UNCHANGED <<cpu, rrpos>>
  BY <1>2 DEF SReap, WaitReap
<1>3. ASSUME NEW q \in Slot, SExitFinish(q) PROVE cpu' = None /\ rrpos' = rrpos
  BY <1>3 DEF SExitFinish, ExitFinish
<1>4. ASSUME NEW q \in Slot, SSleep(q) PROVE cpu' = None /\ rrpos' = rrpos
  BY <1>4 DEF SSleep, WaitSleep, PauseSleep, IoSleep, SleepOn
<1>5. ASSUME NEW q \in Slot, SOther(q) PROVE UNCHANGED <<cpu, rrpos>>
  BY <1>5 DEF SOther, ForkLink, ForkReady, ExitBegin, Fault, ExitPanic, WaitFail, PauseDone,
     IoDone, Kill, schedVars
<1>6. ASSUME (\E c \in IOChans : SWakeup(c)) \/ SClockIdle PROVE UNCHANGED <<cpu, rrpos>>
  BY <1>6 DEF SWakeup, Wakeup, SClockIdle, ClockIdle
<1>7. ASSUME (Spin /\ UNCHANGED schedVars) \/ UNCHANGED vars PROVE UNCHANGED <<cpu, rrpos>>
  BY <1>7 DEF Spin, vars, procVars, schedVars
<1>8. ASSUME NEW q \in Slot, SClock(q)
      PROVE  rrpos' = rrpos /\ (UNCHANGED cpu \/ cpu' = None)
  BY <1>8 DEF SClock, ClockRun, ClockYield
<1>9. ASSUME NEW q \in Slot, NEW t \in Slot, SForkAlloc(q, t) \/ SForkFail(q, t)
      PROVE  UNCHANGED <<cpu, rrpos>>
  BY <1>9 DEF SForkAlloc, ForkAlloc, SForkFail, ForkFail
<1>10. ASSUME NEW q \in Slot, Hinting(q) PROVE UNCHANGED <<cpu, rrpos>>
  BY <1>10 DEF Hinting, HintRead, CallBegin, HintWrite, HintMisses, CallDone
<1> QED  BY <1>1, <1>2, <1>3, <1>4, <1>5, <1>6, <1>7, <1>8, <1>9, <1>10 DEF SchedNext, Untimed

\* The counts after a dispatch by sched_rr, which runs the slot its walk has come to.
LEMMA RROvertakes ==
  ASSUME KernelOK, CountsOK, PassInv, Watch, NEW p \in Slot, DispatchRR(p),
         cfg.sched_mode = "RR", NEW s \in Slot, NEW t \in Slot, cfg'.sched_mode = "RR"
  PROVE  /\ overtaken'[s][t] <= 1
         /\ s > rrpos' /\ rrpos' < t /\ t <= s => overtaken'[s][t] = 0
         /\ s <= rrpos' /\ (t <= s \/ t > rrpos') => overtaken'[s][t] = 0
<1>1. /\ p = rrpos + 1
      /\ rrpos' = p /\ state' = [state EXCEPT ![p] = "RUNNING"] /\ Picked = p
  BY DEF DispatchRR, AtSlot, Dispatch, Picked
<1>2. state'[p] = "RUNNING"
  BY <1>1 DEF KernelOK, ProcInv, TypeOK
<1>3. overtaken'[s][t] =
        IF state'[s] # "RUNNABLE" \/ state[s] # "RUNNABLE" THEN 0
        ELSE IF p = t THEN Sat(overtaken[s][t], MaxCount) ELSE overtaken[s][t]
  BY <1>1, WatchCounts
<1>4. overtaken[s][t] \in 0..MaxCount /\ rrpos \in Nat /\ Slot \subseteq Nat
  <2>1. overtaken[s] \in [Slot -> 0..MaxCount]
    BY DEF CountsOK
  <2>2. rrpos \in Nat /\ Slot \subseteq Nat
    BY NprocAssumption DEF KernelOK, FieldsOK, Slot
  <2> QED  BY <2>1, <2>2
<1>5. /\ overtaken[s][t] <= 1
      /\ s > rrpos /\ rrpos < t /\ t <= s => overtaken[s][t] = 0
      /\ s <= rrpos /\ (t <= s \/ t > rrpos) => overtaken[s][t] = 0
  BY DEF PassInv
<1>6. CASE state'[s] # "RUNNABLE" \/ state[s] # "RUNNABLE"
  BY <1>3, <1>6
<1>7. CASE state'[s] = "RUNNABLE" /\ state[s] = "RUNNABLE"
  <2>1. s # p /\ (s <= rrpos \/ s > p)
    BY <1>1, <1>2, <1>4, <1>7
  <2>2. CASE t = p
    <3>1. overtaken[s][t] = 0
      BY <1>1, <1>4, <1>5, <2>1, <2>2
    <3>2. overtaken'[s][t] <= 1
      BY <1>3, <1>7, <2>2, <3>1, MaxCountIsNat DEF Sat
    <3> QED  BY <1>1, <1>4, <2>1, <2>2, <3>2
  <2>3. CASE t # p
    <3>1. overtaken'[s][t] = overtaken[s][t]
      BY <1>3, <1>7, <2>3
    <3> QED  BY <1>1, <1>4, <1>5, <2>1, <2>3, <3>1
  <2> QED  BY <2>2, <2>3
<1> QED  BY <1>6, <1>7

LEMMA PassStep ==
  ASSUME KernelOK, CountsOK, PassInv, [HNext]_hvars
  PROVE  PassInv'
<1>1. CASE UNCHANGED hvars
  BY <1>1 DEF hvars, vars, schedVars, history, PassInv
<1>2. CASE HNext
  <2>1. SchedNext /\ Watch
    BY <1>2, HistoryStep
  <2> SUFFICES ASSUME NEW s \in Slot, NEW t \in Slot, cfg'.sched_mode = "RR"
               PROVE  /\ overtaken'[s][t] <= 1
                      /\ s > rrpos' /\ rrpos' < t /\ t <= s => overtaken'[s][t] = 0
                      /\ s <= rrpos' /\ (t <= s \/ t > rrpos') => overtaken'[s][t] = 0
    BY DEF PassInv
  <2>2. overtaken'[s][t] =
          IF cfg.sched_mode # "RR" \/ state'[s] # "RUNNABLE" \/ state[s] # "RUNNABLE" THEN 0
          ELSE IF Picked = t THEN Sat(overtaken[s][t], MaxCount) ELSE overtaken[s][t]
    BY <2>1, WatchCounts
  <2>3. CASE cfg.sched_mode # "RR" \/ state'[s] # "RUNNABLE" \/ state[s] # "RUNNABLE"
    BY <2>2, <2>3
  <2>4. CASE cfg.sched_mode = "RR" /\ state'[s] = "RUNNABLE" /\ state[s] = "RUNNABLE"
    <3>1. /\ overtaken[s][t] <= 1
          /\ s > rrpos /\ rrpos < t /\ t <= s => overtaken[s][t] = 0
          /\ s <= rrpos /\ (t <= s \/ t > rrpos) => overtaken[s][t] = 0
      BY <2>4 DEF PassInv
    <3>2. CASE \E p \in Slot : DispatchRR(p) \/ DispatchBest(p)
      <4>1. PICK p \in Slot : DispatchRR(p)
        BY <2>4, <3>2 DEF DispatchBest
      <4> QED  BY <2>1, <2>4, <4>1, RROvertakes
    <3>3. CASE RRPassEnds
      <4>1. Picked # t /\ rrpos' = 0 /\ s <= rrpos
        BY <2>4, <3>3, InitIsSlot DEF RRPassEnds, procVars, Picked, KernelOK, FieldsOK, Slot, None
      <4>2. overtaken'[s][t] = overtaken[s][t]
        BY <2>2, <2>4, <4>1
      <4> QED  BY <3>1, <4>1, <4>2 DEF Slot
    <3>4. CASE rrpos' = rrpos /\ Picked = None
      <4>1. Picked # t
        BY <3>4 DEF Slot, None
      <4>2. overtaken'[s][t] = overtaken[s][t]
        BY <2>2, <2>4, <4>1
      <4> QED  BY <3>1, <3>4, <4>2
    <3>5. ProcInv
      BY DEF KernelOK
    <3>6. CASE \E p \in Slot : RRSkip(p)
      <4>1. PICK p \in Slot : RRSkip(p)
        BY <3>6
      <4>2. p = rrpos + 1 /\ rrpos' = p /\ Picked # t /\ s # p
        BY <2>4, <4>1 DEF RRSkip, AtSlot, procVars, Picked, Slot, None
      <4>3. overtaken'[s][t] = overtaken[s][t]
        BY <2>2, <2>4, <4>2
      <4>4. rrpos \in Nat /\ Slot \subseteq Nat
        BY NprocAssumption DEF KernelOK, FieldsOK, Slot
      <4> QED  BY <3>1, <4>2, <4>3, <4>4
    <3> QED  BY <2>1, <3>2, <3>3, <3>4, <3>5, <3>6, PassMoves
  <2> QED  BY <2>3, <2>4
<1> QED  BY <1>1, <1>2

LEMMA PassInit == HInit => PassInv
BY DEF HInit, PassInv

\* Round robin overtakes nobody, with any number of processes, wherever sched_rr's walk
\* of the table is when they become RUNNABLE, behind them or ahead of them, and whatever
\* policies ran before.
THEOREM NobodyOvertakenTwice == HSpec => []RRNoOvertake
<1>1. PassInv => RRNoOvertake
  BY DEF PassInv, RRNoOvertake
<1> QED  BY KernelStaysOK, CountsStay, PassInit, PassStep, <1>1, PTL DEF HSpec

-----------------------------------------------------------------------------
(* Aging and boosting                                                      *)

\* A policy that scans the table runs outside the passes of sched_rr, and how long a
\* process has waited is what wait_ticks says: it has not waited more rounds than that
\* and, in a lower queue of MLFQ, not fewer.
WaitOf(s) ==
  /\ cfg.sched_mode \in {"PRIORITY", "MLFQ"} /\ state[s] = "RUNNABLE" =>
       sp[s].wait_ticks = MaxWait \/ rounds[s] <= sp[s].wait_ticks
  /\ cfg.sched_mode = "MLFQ" =>
       IF state[s] = "RUNNABLE"
       THEN sp[s].queue_level > 0 => rounds[s] = MaxCount \/ rounds[s] >= sp[s].wait_ticks
       ELSE sp[s].wait_ticks = 0
  /\ state[s] = "RUNNABLE" =>
       /\ cfg.sched_mode = "PRIORITY" /\ sp[s].priority > 0 => rounds[s] < cfg.aging
       /\ cfg.sched_mode = "MLFQ" /\ sp[s].queue_level > 0 => rounds[s] < cfg.boost_interval

WaitInv ==
  /\ cfg \in BootConfigs
  /\ cfg.sched_mode # "RR" => rrpos = 0
  /\ \A s \in Slot : WaitOf(s)

LEMMA WaitInit == HInit => WaitInv
<1> SUFFICES ASSUME HInit PROVE WaitInv
  OBVIOUS
<1>1. /\ cfg \in BootConfigs /\ rrpos = 0 /\ rounds = [s \in Slot |-> 0]
      /\ sp = [s \in Slot |-> IF s = InitProc THEN FreshProc ELSE FreedProc]
  BY DEF HInit, SchedInit
<1>2. FreshProc.wait_ticks = 0 /\ FreedProc.wait_ticks = 0
  BY DEF FreshProc, FreedProc
<1>3. \A s \in Slot : rounds[s] = 0 /\ sp[s].wait_ticks = 0
  BY <1>1, <1>2
<1>4. cfg.aging > 0 /\ cfg.boost_interval > 0
  <2>1. ConfigOK
    BY <1>1, BootConfigsAssumption DEF ConfigOK
  <2>2. cfg.aging \in 1..MAX_ROUNDS /\ cfg.boost_interval \in 1..MAX_ROUNDS
    BY <2>1, LimitsAreNumbers, Zenon
  <2> QED  BY <2>2, LimitsAreNat
<1> QED  BY <1>1, <1>3, <1>4 DEF WaitInv, WaitOf

\* The limits of a configuration the workload was started with, which the counters
\* are wide enough for.
LEMMA LimitsInForce ==
  ASSUME cfg \in BootConfigs
  PROVE  /\ cfg.aging \in 1..MaxWait /\ cfg.boost_interval \in 1..MaxWait
         /\ cfg.boost_interval <= MaxCount + 1
         /\ cfg.rr_quantum \in 1..100 /\ cfg.rr_quantum <= MaxCount
         /\ \A level \in Nat : MlfqQuantum(level) \in 1..100 /\ MlfqQuantum(level) <= MaxCount
<1>1. ConfigOK
  BY BootConfigsAssumption DEF ConfigOK
<1>2. /\ cfg.aging \in 1..MAX_ROUNDS /\ cfg.boost_interval \in 1..MAX_ROUNDS
      /\ cfg.rr_quantum \in 1..100 /\ cfg.queues \in 2..MLFQ_MAX_QUEUES
  BY <1>1, LimitsAreNumbers, Zenon
<1>3. /\ cfg.aging <= MaxWait /\ cfg.boost_interval <= MaxWait
      /\ cfg.boost_interval <= MaxCount + 1 /\ cfg.rr_quantum <= MaxCount
      /\ \A i \in 1..MLFQ_MAX_QUEUES : cfg.quantum[i] <= MaxCount
  BY CountersAssumption, Zenon
<1>4. ASSUME NEW level \in Nat PROVE MlfqQuantum(level) <= MaxCount
  <2>1. (IF level >= cfg.queues THEN cfg.queues ELSE level + 1) \in 1..MLFQ_MAX_QUEUES
    BY <1>2 DEF MLFQ_MAX_QUEUES
  <2> QED  BY <1>3, <2>1 DEF MlfqQuantum
<1>5. cfg.aging \in 1..MaxWait /\ cfg.boost_interval \in 1..MaxWait
  BY <1>2, <1>3, LimitsAreNat, BoundsAssumption
<1> QED  BY <1>1, <1>2, <1>3, <1>4, <1>5, QuantumIsNumber

\* A round of waiting, by policy.
LEMMA AgedOrNot ==
  ASSUME NEW r \in SchedRecord, cfg.sched_mode = "PRIORITY"
  PROVE  /\ Waited(r).queue_level = r.queue_level
         /\ IF Sat(r.wait_ticks, MaxWait) >= cfg.aging /\ r.priority > 0
            THEN Waited(r).priority = r.priority - 1 /\ Waited(r).wait_ticks = 0
            ELSE Waited(r).priority = r.priority /\ Waited(r).wait_ticks = Sat(r.wait_ticks, MaxWait)
<1>1. PICK w : w = Sat(r.wait_ticks, MaxWait)
  OBVIOUS
<1>2. /\ [r EXCEPT !.wait_ticks = w].queue_level = r.queue_level
      /\ [r EXCEPT !.wait_ticks = w].priority = r.priority
      /\ [r EXCEPT !.wait_ticks = w].wait_ticks = w
  BY DEF SchedRecord
<1>3. /\ [r EXCEPT !.priority = @ - 1, !.wait_ticks = 0].queue_level = r.queue_level
      /\ [r EXCEPT !.priority = @ - 1, !.wait_ticks = 0].priority = r.priority - 1
      /\ [r EXCEPT !.priority = @ - 1, !.wait_ticks = 0].wait_ticks = 0
  BY DEF SchedRecord
<1>4. Waited(r) = IF w >= cfg.aging /\ r.priority > 0
                  THEN [r EXCEPT !.priority = @ - 1, !.wait_ticks = 0]
                  ELSE [r EXCEPT !.wait_ticks = w]
  BY <1>1 DEF Waited, Overdue
<1> QED  BY <1>1, <1>2, <1>3, <1>4, Zenon

LEMMA BoostedOrNot ==
  ASSUME NEW r \in SchedRecord, cfg.sched_mode = "MLFQ"
  PROVE  IF Sat(r.wait_ticks, MaxWait) >= cfg.boost_interval /\ r.queue_level > 0
         THEN Waited(r).queue_level = 0 /\ Waited(r).wait_ticks = 0
         ELSE /\ Waited(r).queue_level = r.queue_level
              /\ Waited(r).wait_ticks = Sat(r.wait_ticks, MaxWait)
<1>1. PICK w : w = Sat(r.wait_ticks, MaxWait)
  OBVIOUS
<1>2. /\ [r EXCEPT !.wait_ticks = w].queue_level = r.queue_level
      /\ [r EXCEPT !.wait_ticks = w].wait_ticks = w
  BY DEF SchedRecord
<1>3. /\ [r EXCEPT !.queue_level = 0, !.ticks_in_level = 0, !.wait_ticks = 0].queue_level = 0
      /\ [r EXCEPT !.queue_level = 0, !.ticks_in_level = 0, !.wait_ticks = 0].wait_ticks = 0
  BY DEF SchedRecord
<1>4. Waited(r) = IF w >= cfg.boost_interval /\ r.queue_level > 0
                  THEN [r EXCEPT !.queue_level = 0, !.ticks_in_level = 0, !.wait_ticks = 0]
                  ELSE [r EXCEPT !.wait_ticks = w]
  BY <1>1 DEF Waited, Overdue
<1> QED  BY <1>1, <1>2, <1>3, <1>4, Zenon

LEMMA NeitherMoves ==
  ASSUME NEW r \in SchedRecord, cfg.sched_mode \notin {"PRIORITY", "MLFQ"}
  PROVE  Waited(r) = r
BY DEF Waited

\* A process leaves the ready state only by being dispatched.
LEMMA LeavesReady ==
  ASSUME ProcInv, [SchedNext]_vars, NEW s \in Slot,
         state[s] = "RUNNABLE", state'[s] # "RUNNABLE"
  PROVE  DispatchRR(s) \/ DispatchBest(s)
<1>1. TypeOK /\ OneForker
  BY DEF ProcInv
<1>2. state' # state
  OBVIOUS
<1>3. ASSUME NEW q \in Slot, Settings(q) PROVE FALSE
  BY <1>2, <1>3, SettingsLeaveTable DEF procVars
<1>4. ASSUME NEW q \in Slot, NEW np \in Slot, SForkAlloc(q, np) \/ SForkFail(q, np) PROVE FALSE
  BY <1>1, <1>4 DEF SForkAlloc, ForkAlloc, SForkFail, ForkFail, Unused, TypeOK
<1>5. ASSUME NEW q \in Slot, SReap(q) PROVE FALSE
  <2>1. Lowest(Zombies(q)) \in Zombies(q)
    BY <1>5, LowestIsIn DEF SReap, WaitReap, Zombies, Children
  <2>2. PICK c \in Slot : c = Lowest(Zombies(q)) /\ state[c] = "ZOMBIE"
    BY <2>1 DEF Zombies, Children
  <2> QED  BY <1>1, <1>5, <2>2 DEF SReap, WaitReap, Reap, TypeOK
<1>6. ASSUME NEW q \in Slot, SExitFinish(q) PROVE FALSE
  BY <1>1, <1>6 DEF SExitFinish, ExitFinish, Running, WakeAll, TypeOK
<1>7. ASSUME NEW q \in Slot, SSleep(q) PROVE FALSE
  BY <1>1, <1>7 DEF SSleep, WaitSleep, InWait, PauseSleep, InPause, IoSleep, SleepOn, Asks,
     AtSyscall, Running, TypeOK
<1>8. ASSUME NEW q \in Slot, ForkReady(q) PROVE FALSE
  BY <1>1, <1>8 DEF ForkReady, TypeOK
<1>9. ASSUME NEW q \in Slot, NEW k \in KillPids, Kill(q, k) PROVE FALSE
  BY <1>1, <1>9 DEF Kill, Unblocked, TypeOK
<1>10. ASSUME NEW q \in Slot, SOther(q) PROVE FALSE
  BY <1>2, <1>8, <1>9, <1>10 DEF SOther, ForkLink, ExitBegin, Fault, ExitPanic, WaitFail,
     PauseDone, IoDone
<1>11. ASSUME NEW q \in Slot, DispatchRR(q) \/ DispatchBest(q)
       PROVE  DispatchRR(s) \/ DispatchBest(s)
  BY <1>1, <1>11 DEF DispatchRR, DispatchBest, Dispatch, TypeOK
<1>12. ASSUME RRPassEnds \/ Spin \/ UNCHANGED vars PROVE FALSE
  BY <1>2, <1>12 DEF RRPassEnds, Spin, vars, procVars
<1>13. ASSUME (\E c \in IOChans : SWakeup(c)) \/ SClockIdle PROVE FALSE
  BY <1>13 DEF SWakeup, Wakeup, SClockIdle, ClockIdle, WakeAll
<1>14. ASSUME NEW q \in Slot, SClock(q) PROVE FALSE
  BY <1>1, <1>14 DEF SClock, ClockRun, ClockYield, Running, WakeAll, TypeOK
<1>15. ASSUME NEW q \in Slot, RRSkip(q) \/ Hinting(q) PROVE FALSE
  BY <1>2, <1>15, HintingCalls DEF RRSkip, CallBegin, CallDone, procVars
<1> QED  BY <1>3, <1>4, <1>5, <1>6, <1>7, <1>10, <1>11, <1>12, <1>13, <1>14, <1>15
         DEF SchedNext, Untimed

\* Away from the ready queue nothing counts as waiting.
LEMMA NothingToWaitFor ==
  ASSUME KernelOK, [SchedNext]_vars, NEW s \in Slot, state[s] # "RUNNABLE"
  PROVE  sp'[s].wait_ticks = sp[s].wait_ticks \/ sp'[s].wait_ticks = 0
<1>1. ProcInv /\ FieldsOK /\ sp[s] \in SchedRecord
  BY DEF KernelOK, FieldsOK
<1>2. RecordMoves(s) \/ Untouched(s) \/ IsCharged(s)
  BY <1>1, RecordStep, TickMoves DEF SchedNext
<1>3. CASE Untouched(s)
  BY <1>3 DEF Untouched, Seen
<1>4. CASE EndsBurst(s)
  BY <1>4 DEF EndsBurst, SeenButPrediction
<1>5. CASE RunsByRR(s) \/ RunsAsBest(s) \/ IsTold(s) \/ IsCleared(s)
  BY <1>5 DEF RunsByRR, RunsAsBest, IsTold, IsCleared
<1>6. ~WaitsARound(s)
  BY DEF WaitsARound
<1>7. CASE IsCharged(s)
  BY <1>1, <1>7, ChargedKeepsRest DEF IsCharged, Seen
<1> QED  BY <1>2, <1>3, <1>4, <1>5, <1>6, <1>7 DEF RecordMoves

\* In the ready queue a process is aged, boosted and counted by the scans only.
LEMMA OnlyScansCount ==
  ASSUME KernelOK, [SchedNext]_vars, NEW s \in Slot, state[s] = "RUNNABLE",
         ~\E p \in Slot : DispatchRR(p) \/ DispatchBest(p)
  PROVE  /\ sp'[s].wait_ticks = sp[s].wait_ticks
         /\ sp'[s].queue_level = sp[s].queue_level
<1>1. ProcInv /\ FieldsOK /\ sp[s] \in SchedRecord
  BY DEF KernelOK, FieldsOK
<1>2. RecordMoves(s) \/ Untouched(s) \/ IsCharged(s)
  BY <1>1, RecordStep, TickMoves DEF SchedNext
<1>3. CASE Untouched(s)
  BY <1>3 DEF Untouched, Seen
<1>4. ~EndsBurst(s) /\ ~IsCleared(s)
  BY DEF EndsBurst, IsCleared, Live
<1>5. ~RunsByRR(s) /\ ~RunsAsBest(s) /\ ~WaitsARound(s)
  BY DEF RunsByRR, RunsAsBest, WaitsARound
<1>6. ~IsCharged(s)
  BY DEF IsCharged, Charges, SClock, ClockRun, ClockYield, Running
<1>7. CASE IsTold(s)
  BY <1>7 DEF IsTold
<1> QED  BY <1>2, <1>3, <1>4, <1>5, <1>6, <1>7 DEF RecordMoves

LEMMA NoneIsPicked ==
  ASSUME RRPassEnds \/ \E p \in Slot : RRSkip(p)
  PROVE  Picked = None
BY DEF RRPassEnds, RRSkip, procVars, Picked

\* A scan of the table, seen from a process it does not run.
LEMMA ScanKeepsWait ==
  ASSUME KernelOK, CountsOK, WaitInv, Watch, cfg' = cfg,
         NEW p \in Slot, DispatchBest(p), NEW s \in Slot, s # p,
         state[s] = "RUNNABLE", state'[s] = "RUNNABLE",
         cfg.sched_mode \in {"PRIORITY", "MLFQ"}
  PROVE  WaitOf(s)'
<1>1. PICK r \in SchedRecord : r = sp[s]
  BY DEF KernelOK, FieldsOK
<1>2. sp'[s] = Waited(r)
  BY <1>1, NextOneRuns DEF KernelOK, WaitsARound
<1>3. /\ r.wait_ticks \in 0..MaxWait /\ r.priority \in 0..20
      /\ r.queue_level \in 0..(MLFQ_MAX_QUEUES - 1) /\ MaxWait \in Nat
  BY FieldTypes, BoundsAssumption
<1>4. rounds[s] \in 0..MaxCount /\ MaxCount \in Nat
  BY MaxCountIsNat DEF CountsOK
<1>5. Picked # None
  BY InitIsSlot DEF DispatchBest, Dispatch, Picked, Slot, None
<1>6. rounds'[s] = IF Helped(s) THEN 0 ELSE Sat(rounds[s], MaxCount)
  BY <1>5, WatchCounts
<1>7. cfg.aging \in 1..MaxWait /\ cfg.boost_interval \in 1..MaxWait
      /\ cfg.boost_interval <= MaxCount + 1
  BY LimitsInForce DEF WaitInv
<1>8. WaitOf(s)
  BY DEF WaitInv
<1>9. CASE cfg.sched_mode = "PRIORITY"
  <2>1. Helped(s) <=> Waited(r).priority # r.priority
    BY <1>1, <1>2, <1>9 DEF Helped
  <2>2. CASE Sat(r.wait_ticks, MaxWait) >= cfg.aging /\ r.priority > 0
    <3>1. Waited(r).priority = r.priority - 1 /\ Waited(r).wait_ticks = 0
      BY <1>9, <2>2, AgedOrNot
    <3>2. rounds'[s] = 0
      BY <1>3, <1>6, <2>1, <3>1
    <3> QED  BY <1>2, <1>7, <1>9, <3>1, <3>2 DEF WaitOf
  <2>3. CASE ~(Sat(r.wait_ticks, MaxWait) >= cfg.aging /\ r.priority > 0)
    <3>1. Waited(r).priority = r.priority /\ Waited(r).wait_ticks = Sat(r.wait_ticks, MaxWait)
      BY <1>9, <2>3, AgedOrNot
    <3>2. rounds'[s] = Sat(rounds[s], MaxCount)
      BY <1>6, <2>1, <3>1
    <3>3. r.wait_ticks = MaxWait \/ rounds[s] <= r.wait_ticks
      BY <1>1, <1>8, <1>9 DEF WaitOf
    <3>4. Sat(r.wait_ticks, MaxWait) = MaxWait
            \/ Sat(rounds[s], MaxCount) <= Sat(r.wait_ticks, MaxWait)
      BY <1>3, <1>4, <3>3 DEF Sat
    <3>5. r.priority > 0 => Sat(rounds[s], MaxCount) < cfg.aging
      BY <1>3, <1>4, <1>7, <2>3, <3>3 DEF Sat
    <3> QED  BY <1>2, <1>9, <3>1, <3>2, <3>4, <3>5 DEF WaitOf
  <2> QED  BY <2>2, <2>3
<1>10. CASE cfg.sched_mode = "MLFQ"
  <2>1. Helped(s) <=> Waited(r).queue_level # r.queue_level
    BY <1>1, <1>2, <1>10 DEF Helped
  <2>2. CASE Sat(r.wait_ticks, MaxWait) >= cfg.boost_interval /\ r.queue_level > 0
    <3>1. Waited(r).queue_level = 0 /\ Waited(r).wait_ticks = 0
      BY <1>10, <2>2, BoostedOrNot
    <3>2. rounds'[s] = 0
      BY <1>3, <1>6, <2>1, <2>2, <3>1
    <3> QED  BY <1>2, <1>7, <1>10, <3>1, <3>2 DEF WaitOf
  <2>3. CASE ~(Sat(r.wait_ticks, MaxWait) >= cfg.boost_interval /\ r.queue_level > 0)
    <3>1. Waited(r).queue_level = r.queue_level /\ Waited(r).wait_ticks = Sat(r.wait_ticks, MaxWait)
      BY <1>10, <2>3, BoostedOrNot
    <3>2. rounds'[s] = Sat(rounds[s], MaxCount)
      BY <1>6, <2>1, <3>1
    <3>3. /\ r.wait_ticks = MaxWait \/ rounds[s] <= r.wait_ticks
          /\ r.queue_level > 0 => rounds[s] = MaxCount \/ rounds[s] >= r.wait_ticks
      BY <1>1, <1>8, <1>10 DEF WaitOf
    <3>4. Sat(r.wait_ticks, MaxWait) = MaxWait
            \/ Sat(rounds[s], MaxCount) <= Sat(r.wait_ticks, MaxWait)
      BY <1>3, <1>4, <3>3 DEF Sat
    <3>5. r.queue_level > 0 => Sat(rounds[s], MaxCount) < cfg.boost_interval
      BY <1>3, <1>4, <1>7, <2>3, <3>3 DEF Sat
    <3>6. r.queue_level > 0 => Sat(rounds[s], MaxCount) = MaxCount
                                 \/ Sat(rounds[s], MaxCount) >= Sat(r.wait_ticks, MaxWait)
      BY <1>3, <1>4, <3>3 DEF Sat
    <3> QED  BY <1>2, <1>10, <3>1, <3>2, <3>4, <3>5, <3>6 DEF WaitOf
  <2> QED  BY <2>2, <2>3
<1> QED  BY <1>9, <1>10

LEMMA WaitStep ==
  ASSUME KernelOK, CountsOK, WaitInv, [HNext]_hvars, cfg' = cfg
  PROVE  WaitInv'
<1>1. CASE UNCHANGED hvars
  BY <1>1 DEF hvars, vars, procVars, schedVars, history, WaitInv, WaitOf
<1>2. CASE HNext
  <2>1. SchedNext /\ Watch
    BY <1>2, HistoryStep
  <2>2. ProcInv /\ FieldsOK /\ FieldsOK'
    BY <2>1, FieldsStep DEF KernelOK
  <2>3. cfg'.sched_mode # "RR" => rrpos' = 0
    <3>1. ASSUME NEW p \in Slot, DispatchRR(p) \/ RRSkip(p), cfg.sched_mode # "RR" PROVE FALSE
      BY <3>1 DEF DispatchRR, RRSkip, AtSlot, WaitInv
    <3>2. ASSUME NEW p \in Slot, DispatchBest(p) PROVE rrpos' = rrpos
      BY <3>2 DEF DispatchBest
    <3>3. ASSUME RRPassEnds PROVE rrpos' = 0
      BY <3>3 DEF RRPassEnds
    <3> QED  BY <2>1, <2>2, <3>1, <3>2, <3>3, PassMoves DEF WaitInv
  <2>4. cfg.aging \in 1..MaxWait /\ cfg.boost_interval \in 1..MaxWait
    BY LimitsInForce DEF WaitInv
  <2>5. ASSUME NEW s \in Slot PROVE WaitOf(s)'
    <3>1. sp'[s].wait_ticks \in 0..MaxWait /\ rounds[s] \in 0..MaxCount
      BY <2>2, FieldTypes DEF FieldsOK, CountsOK
    <3>2. rounds'[s] =
            IF state'[s] # "RUNNABLE" \/ state[s] # "RUNNABLE" \/ Helped(s) THEN 0
            ELSE IF Picked # None THEN Sat(rounds[s], MaxCount) ELSE rounds[s]
      BY <2>1, WatchCounts
    <3>3. WaitOf(s)
      BY DEF WaitInv
    <3>4. CASE cfg.sched_mode \notin {"PRIORITY", "MLFQ"}
      BY <3>4 DEF WaitOf
    <3>5. CASE cfg.sched_mode \in {"PRIORITY", "MLFQ"} /\ state[s] # "RUNNABLE"
      <4>1. cfg.sched_mode = "MLFQ" => sp'[s].wait_ticks = 0
        BY <2>1, <3>3, <3>5, NothingToWaitFor DEF WaitOf
      <4>2. rounds'[s] = 0
        BY <3>2, <3>5
      <4> QED  BY <2>4, <3>1, <4>1, <4>2 DEF WaitOf
    <3>6. CASE cfg.sched_mode \in {"PRIORITY", "MLFQ"} /\ state[s] = "RUNNABLE" /\ state'[s] # "RUNNABLE"
      <4>1. DispatchRR(s) \/ DispatchBest(s)
        BY <2>1, <2>2, <3>6, LeavesReady
      <4>2. sp'[s].wait_ticks = 0
        BY <2>2, <4>1, NextOneRuns DEF RunsByRR, RunsAsBest
      <4> QED  BY <3>6, <4>2 DEF WaitOf
    <3>7. CASE cfg.sched_mode \in {"PRIORITY", "MLFQ"} /\ state[s] = "RUNNABLE" /\ state'[s] = "RUNNABLE"
      <4>1. CASE \E p \in Slot : DispatchRR(p) \/ DispatchBest(p)
        <5>1. PICK p \in Slot : DispatchBest(p)
          BY <3>7, <4>1 DEF DispatchRR, AtSlot, WaitInv
        <5>2. s # p
          BY <2>2, <3>7, <5>1 DEF DispatchBest, Dispatch, ProcInv, TypeOK
        <5> QED  BY <2>1, <3>7, <5>1, <5>2, ScanKeepsWait
      <4>2. CASE ~\E p \in Slot : DispatchRR(p) \/ DispatchBest(p)
        <5>1. Picked = None
          BY <2>1, <2>2, <4>2, PassMoves, NoneIsPicked
        <5>2. sp'[s].wait_ticks = sp[s].wait_ticks /\ sp'[s].queue_level = sp[s].queue_level
          BY <2>1, <3>7, <4>2, OnlyScansCount
        <5>3. rounds'[s] = IF Helped(s) THEN 0 ELSE rounds[s]
          BY <3>2, <3>7, <5>1
        <5>4. CASE cfg.sched_mode = "MLFQ"
          <6>1. ~Helped(s)
            BY <5>2, <5>4 DEF Helped
          <6> QED  BY <3>3, <3>7, <5>2, <5>3, <5>4, <6>1 DEF WaitOf
        <5>5. CASE cfg.sched_mode = "PRIORITY" /\ Helped(s)
          <6>1. rounds'[s] = 0
            BY <5>3, <5>5
          <6> QED  BY <2>4, <3>1, <5>5, <6>1 DEF WaitOf
        <5>6. CASE cfg.sched_mode = "PRIORITY" /\ ~Helped(s)
          <6>1. sp'[s].priority = sp[s].priority
            BY <5>6 DEF Helped
          <6> QED  BY <3>3, <3>7, <5>2, <5>3, <5>6, <6>1 DEF WaitOf
        <5> QED  BY <3>7, <5>4, <5>5, <5>6
      <4> QED  BY <4>1, <4>2
    <3> QED  BY <3>4, <3>5, <3>6, <3>7
  <2> QED  BY <2>3, <2>5 DEF WaitInv
<1> QED  BY <1>1, <1>2

\* Under a configuration that stays, a waiting process is aged by PRIORITY and boosted
\* by MLFQ within the configured number of rounds, with any number of processes and
\* however they come and go.
THEOREM HelpComesInTime == HSpec /\ Steady => []HelpInTime
<1>1. KernelOK /\ CountsOK /\ WaitInv /\ [HNext]_hvars /\ [UNCHANGED cfg]_cfg => WaitInv'
  BY WaitStep
<1>2. WaitInv => HelpInTime
  BY DEF WaitInv, WaitOf, HelpInTime
<1> QED  BY KernelStaysOK, CountsStay, WaitInit, <1>1, <1>2, PTL DEF HSpec, Steady

-----------------------------------------------------------------------------
(* Slices and queues                                                       *)

\* The slice of the running process is not used up, and what has been charged on it
\* is what ticks_in_level says.
SliceInv ==
  \A s \in Slot : state[s] = "RUNNING" =>
    /\ cfg.sched_mode = "RR" => sp[s].ticks_in_level < cfg.rr_quantum
    /\ cfg.sched_mode = "MLFQ" => sp[s].ticks_in_level < MlfqQuantum(sp[s].queue_level)
    /\ cfg.sched_mode \in {"RR", "MLFQ"} => ran[s] = sp[s].ticks_in_level
    /\ cfg.sched_mode \in {"PRIORITY", "SRTF"} => ran[s] = 0

LEMMA SliceInit == HInit => SliceInv
BY DEF HInit, SchedInit, Init, SliceInv

LEMMA OnlyDispatchRuns ==
  ASSUME ProcInv, [SchedNext]_vars, NEW s \in Slot,
         state[s] # "RUNNING", state'[s] = "RUNNING"
  PROVE  DispatchRR(s) \/ DispatchBest(s)
<1>1. TypeOK /\ OneForker
  BY DEF ProcInv
<1>2. state' # state
  OBVIOUS
<1>3. ASSUME NEW q \in Slot, Settings(q) PROVE FALSE
  BY <1>2, <1>3, SettingsLeaveTable DEF procVars
<1>4. ASSUME NEW q \in Slot, NEW np \in Slot, SForkAlloc(q, np) \/ SForkFail(q, np) PROVE FALSE
  BY <1>1, <1>4 DEF SForkAlloc, ForkAlloc, SForkFail, ForkFail, Unused, TypeOK
<1>5. ASSUME NEW q \in Slot, SReap(q) PROVE FALSE
  BY <1>1, <1>5 DEF SReap, WaitReap, Reap, TypeOK
<1>6. ASSUME NEW q \in Slot, SExitFinish(q) PROVE FALSE
  BY <1>1, <1>6 DEF SExitFinish, ExitFinish, WakeAll, TypeOK
<1>7. ASSUME NEW q \in Slot, SSleep(q) PROVE FALSE
  BY <1>1, <1>7 DEF SSleep, WaitSleep, PauseSleep, IoSleep, SleepOn, TypeOK
<1>8. ASSUME NEW q \in Slot, ForkReady(q) PROVE FALSE
  BY <1>1, <1>8 DEF ForkReady, TypeOK
<1>9. ASSUME NEW q \in Slot, NEW k \in KillPids, Kill(q, k) PROVE FALSE
  BY <1>1, <1>9 DEF Kill, Unblocked, TypeOK
<1>10. ASSUME NEW q \in Slot, SOther(q) PROVE FALSE
  BY <1>2, <1>8, <1>9, <1>10 DEF SOther, ForkLink, ExitBegin, Fault, ExitPanic, WaitFail,
     PauseDone, IoDone
<1>11. ASSUME NEW q \in Slot, DispatchRR(q) \/ DispatchBest(q)
       PROVE  DispatchRR(s) \/ DispatchBest(s)
  BY <1>1, <1>11 DEF DispatchRR, DispatchBest, Dispatch, TypeOK
<1>12. ASSUME RRPassEnds \/ Spin \/ UNCHANGED vars PROVE FALSE
  BY <1>2, <1>12 DEF RRPassEnds, Spin, vars, procVars
<1>13. ASSUME (\E c \in IOChans : SWakeup(c)) \/ SClockIdle PROVE FALSE
  BY <1>13 DEF SWakeup, Wakeup, SClockIdle, ClockIdle, WakeAll
<1>14. ASSUME NEW q \in Slot, SClock(q) PROVE FALSE
  BY <1>1, <1>14 DEF SClock, ClockRun, ClockYield, WakeAll, TypeOK
<1>15. ASSUME NEW q \in Slot, RRSkip(q) \/ Hinting(q) PROVE FALSE
  BY <1>2, <1>15, HintingCalls DEF RRSkip, CallBegin, CallDone, procVars
<1> QED  BY <1>3, <1>4, <1>5, <1>6, <1>7, <1>10, <1>11, <1>12, <1>13, <1>14, <1>15
         DEF SchedNext, Untimed

\* What the timer charges, by policy and by whether the slice is over.
LEMMA ChargedOnSlice ==
  ASSUME NEW p \in Slot, sp[p] \in SchedRecord
  PROVE  /\ cfg.sched_mode \in {"RR", "MLFQ"} /\ ~Expires(p) =>
              Charged(p).ticks_in_level = sp[p].ticks_in_level + 1
         /\ ~(cfg.sched_mode = "MLFQ" /\ Expires(p)) =>
              Charged(p).queue_level = sp[p].queue_level
         /\ cfg.sched_mode = "MLFQ" /\ Expires(p) =>
              Charged(p).queue_level = Demoted(sp[p].queue_level)
<1>1. PICK q \in SchedRecord : q = sp[p]
  OBVIOUS
<1>2. PICK b : b = Sat(q.cur_burst_run, MaxBurst)
  OBVIOUS
<1> DEFINE r == [q EXCEPT !.cur_burst_run = b]
<1>3. r.ticks_in_level = q.ticks_in_level /\ r.queue_level = q.queue_level
  BY DEF SchedRecord
<1>4. {"ticks_in_level", "queue_level"} \subseteq DOMAIN r
  BY DEF SchedRecord
<1>5. Charged(p) =
        CASE cfg.sched_mode \in {"RR", "MLFQ"} /\ ~Expires(p) ->
               [r EXCEPT !.ticks_in_level = r.ticks_in_level + 1]
          [] cfg.sched_mode = "RR" /\ Expires(p) -> [r EXCEPT !.ticks_in_level = 0]
          [] cfg.sched_mode = "MLFQ" /\ Expires(p) ->
               [r EXCEPT !.ticks_in_level = 0, !.queue_level = Demoted(r.queue_level)]
          [] OTHER -> r
  BY <1>1, <1>2, Zenon DEF Charged
<1> HIDE DEF r
<1>6. ASSUME NEW t PROVE /\ [r EXCEPT !.ticks_in_level = t].ticks_in_level = t
                         /\ [r EXCEPT !.ticks_in_level = t].queue_level = r.queue_level
  BY <1>4
<1>7. [r EXCEPT !.ticks_in_level = 0, !.queue_level = Demoted(r.queue_level)].queue_level
        = Demoted(r.queue_level)
  BY <1>4
<1>8. CASE cfg.sched_mode \in {"RR", "MLFQ"} /\ ~Expires(p)
  <2>1. Charged(p) = [r EXCEPT !.ticks_in_level = r.ticks_in_level + 1]
    BY <1>5, <1>8, Zenon
  <2> QED  BY <1>1, <1>3, <1>6, <1>8, <2>1
<1>9. CASE cfg.sched_mode = "RR" /\ Expires(p)
  <2>1. Charged(p) = [r EXCEPT !.ticks_in_level = 0]
    BY <1>5, <1>9
  <2> QED  BY <1>1, <1>3, <1>6, <1>9, <2>1
<1>10. CASE cfg.sched_mode = "MLFQ" /\ Expires(p)
  <2>1. Charged(p) = [r EXCEPT !.ticks_in_level = 0, !.queue_level = Demoted(r.queue_level)]
    BY <1>5, <1>10
  <2> QED  BY <1>1, <1>3, <1>7, <1>10, <2>1
<1>11. CASE cfg.sched_mode \notin {"RR", "MLFQ"}
  <2>1. Charged(p) = r
    BY <1>5, <1>11
  <2> QED  BY <1>1, <1>3, <1>11, <2>1
<1> QED  BY <1>8, <1>9, <1>10, <1>11

\* A slice starts at nothing.
LEMMA SliceBegins ==
  ASSUME KernelOK, HNext, NEW s \in Slot, state[s] # "RUNNING", state'[s] = "RUNNING"
  PROVE  /\ ran'[s] = 0
         /\ cfg.sched_mode \in {"RR", "MLFQ"} => sp'[s].ticks_in_level = 0
<1>1. ProcInv /\ FieldsOK /\ SchedNext
  BY HistoryStep DEF KernelOK
<1>2. DispatchRR(s) \/ DispatchBest(s)
  BY <1>1, OnlyDispatchRuns
<1>3. cpu = None /\ Dispatched(s)
  BY <1>2 DEF DispatchRR, DispatchBest, Dispatch, Dispatched
<1>4. ~\E p \in Slot : SClock(p)
  BY <1>3, InitIsSlot DEF SClock, ClockRun, ClockYield, Running, Slot, None
<1>5. ran' = [x \in Slot |->
          IF Dispatched(x) \/ state'[x] # "RUNNING" \/ cfg' # cfg THEN 0 ELSE ran[x]]
  BY <1>4 DEF HNext
<1>6. ASSUME cfg.sched_mode \in {"RR", "MLFQ"} PROVE sp'[s].ticks_in_level = 0
  <2>1. DispatchBest(s) => cfg.sched_mode = "MLFQ"
    BY <1>6 DEF DispatchBest
  <2>2. RunsByRR(s) \/ RunsAsBest(s)
    BY <1>1, <1>2, NextOneRuns
  <2> QED  BY <1>6, <2>1, <2>2 DEF RunsByRR, RunsAsBest
<1> QED  BY <1>3, <1>5, <1>6

\* Another configuration starts the count again.
LEMMA CountsAgain ==
  ASSUME HNext, cfg' # cfg, NEW s \in Slot
  PROVE  ran'[s] = 0
BY DEF HNext, SClock

\* Where every tick is a scheduling point, a process that keeps the hart was not charged.
LEMMA NoTickGoesBy ==
  ASSUME KernelOK, CountsOK, HNext, NEW s \in Slot, state[s] = "RUNNING", state'[s] = "RUNNING",
         cfg' = cfg, cfg.sched_mode \in {"PRIORITY", "SRTF"}
  PROVE  ran'[s] = ran[s]
<1>1. TypeOK /\ cpu = s /\ s # None
  BY DEF KernelOK, ProcInv, RunnerAgrees, Slot, None
<1>2. CASE ran' = [x \in Slot |->
             IF Dispatched(x) \/ state'[x] # "RUNNING" \/ cfg' # cfg THEN 0 ELSE ran[x]]
  BY <1>1, <1>2 DEF Dispatched
<1>3. ASSUME NEW p \in Slot, SClock(p),
             ran' = [ran EXCEPT ![p] = IF state'[p] # "RUNNING" THEN 0
                                       ELSE IF pc[p] = "user" /\ killed[p] THEN @
                                       ELSE Sat(@, MaxCount)]
      PROVE  ran'[s] = ran[s]
  <2>1. p = s
    BY <1>1, <1>3 DEF SClock, ClockRun, ClockYield, Running
  <2>2. Expires(s)
    BY DEF Expires
  <2>3. pc[s] = "user" /\ killed[s]
    <3>1. ASSUME ~(pc[s] = "user" /\ killed[s]) PROVE ClockYield(s)
      BY <1>3, <2>1, <2>2, <3>1 DEF SClock
    <3> QED  BY <1>1, <3>1 DEF ClockYield, WakeAll, TypeOK
  <2> QED  BY <1>3, <2>1, <2>3 DEF CountsOK
<1> QED  BY <1>2, <1>3, Zenon DEF HNext

\* While it lasts, a tick that is charged is counted, and nothing else moves it.
LEMMA SliceGoesOn ==
  ASSUME KernelOK, CountsOK, HNext, NEW s \in Slot, state[s] = "RUNNING", state'[s] = "RUNNING",
         cfg' = cfg, cfg.sched_mode \in {"RR", "MLFQ"}
  PROVE  /\ sp'[s].queue_level = sp[s].queue_level
         /\ \/ ran'[s] = ran[s] /\ sp'[s].ticks_in_level = sp[s].ticks_in_level
            \/ /\ ran'[s] = Sat(ran[s], MaxCount)
               /\ sp'[s].ticks_in_level = sp[s].ticks_in_level + 1 /\ ~Expires(s)
<1>1. ProcInv /\ FieldsOK /\ TypeOK /\ cpu = s /\ s # None /\ sp[s] \in SchedRecord
  BY DEF KernelOK, ProcInv, RunnerAgrees, FieldsOK, Slot, None
<1>2. CASE Untimed /\ ran' = [x \in Slot |->
             IF Dispatched(x) \/ state'[x] # "RUNNING" \/ cfg' # cfg THEN 0 ELSE ran[x]]
  <2>1. ran'[s] = ran[s]
    BY <1>1, <1>2 DEF Dispatched
  <2>2. RecordMoves(s)
    BY <1>1, <1>2, RecordStep
  <2>3. CASE Untouched(s)
    BY <2>1, <2>3 DEF Untouched, Seen
  <2>4. CASE IsTold(s)
    BY <2>1, <2>4 DEF IsTold
  <2>5. ~EndsBurst(s) /\ ~WaitsARound(s) /\ ~IsCleared(s) /\ ~RunsByRR(s) /\ ~RunsAsBest(s)
    BY <1>1 DEF EndsBurst, WaitsARound, IsCleared, RunsByRR, RunsAsBest, Live,
       DispatchRR, DispatchBest, Dispatch
  <2> QED  BY <2>2, <2>3, <2>4, <2>5 DEF RecordMoves
<1>3. ASSUME NEW p \in Slot, SClock(p),
             ran' = [ran EXCEPT ![p] = IF state'[p] # "RUNNING" THEN 0
                                       ELSE IF pc[p] = "user" /\ killed[p] THEN @
                                       ELSE Sat(@, MaxCount)]
      PROVE  /\ sp'[s].queue_level = sp[s].queue_level
             /\ \/ ran'[s] = ran[s] /\ sp'[s].ticks_in_level = sp[s].ticks_in_level
                \/ /\ ran'[s] = Sat(ran[s], MaxCount)
                   /\ sp'[s].ticks_in_level = sp[s].ticks_in_level + 1 /\ ~Expires(s)
  <2>1. p = s
    BY <1>1, <1>3 DEF SClock, ClockRun, ClockYield, Running
  <2>2. ran'[s] = IF pc[s] = "user" /\ killed[s] THEN ran[s] ELSE Sat(ran[s], MaxCount)
    BY <1>3, <2>1 DEF CountsOK
  <2>3. CASE pc[s] = "user" /\ killed[s]
    <3>1. Untouched(s)
      BY <1>1, <1>3, <2>3, TickMoves DEF Charges
    <3> QED  BY <2>2, <2>3, <3>1 DEF Untouched, Seen
  <2>4. CASE ~(pc[s] = "user" /\ killed[s])
    <3>1. IsCharged(s)
      BY <1>1, <1>3, <2>1, <2>4, TickMoves DEF Charges
    <3>2. ~Expires(s)
      <4>1. ASSUME Expires(s) PROVE ClockYield(s)
        BY <1>3, <2>1, <2>4, <4>1 DEF SClock
      <4> QED  BY <1>1, <4>1 DEF ClockYield, WakeAll, TypeOK
    <3>3. /\ Charged(s).ticks_in_level = sp[s].ticks_in_level + 1
          /\ Charged(s).queue_level = sp[s].queue_level
      BY <1>1, <3>2, ChargedOnSlice
    <3> QED  BY <2>2, <2>4, <3>1, <3>2, <3>3 DEF IsCharged, Seen
  <2> QED  BY <2>3, <2>4
<1> QED  BY <1>2, <1>3, Zenon DEF HNext

LEMMA SliceStep ==
  ASSUME KernelOK, CountsOK, WaitInv, SliceInv, [HNext]_hvars, cfg' = cfg
  PROVE  SliceInv'
<1>1. CASE UNCHANGED hvars
  BY <1>1 DEF hvars, vars, procVars, schedVars, history, SliceInv, MlfqQuantum
<1>2. CASE HNext
  <2>1. ASSUME NEW s \in Slot, state'[s] = "RUNNING"
        PROVE  /\ cfg.sched_mode = "RR" => sp'[s].ticks_in_level < cfg.rr_quantum
               /\ cfg.sched_mode = "MLFQ" =>
                    sp'[s].ticks_in_level < MlfqQuantum(sp'[s].queue_level)
               /\ cfg.sched_mode \in {"RR", "MLFQ"} => ran'[s] = sp'[s].ticks_in_level
               /\ cfg.sched_mode \in {"PRIORITY", "SRTF"} => ran'[s] = 0
    <3>1. SchedNext /\ FieldsOK /\ FieldsOK'
      BY <1>2, HistoryStep, FieldsStep DEF KernelOK
    <3>2. /\ sp[s].ticks_in_level \in Nat /\ sp[s].queue_level \in Nat
          /\ sp'[s].queue_level \in Nat
      <4>1. sp[s] \in SchedRecord /\ sp'[s] \in SchedRecord
        BY <3>1 DEF FieldsOK
      <4> QED  BY <4>1, FieldTypes DEF MLFQ_MAX_QUEUES
    <3>3. cfg \in BootConfigs
      BY DEF WaitInv
    <3>4. cfg.rr_quantum \in 1..100 /\ cfg.rr_quantum <= MaxCount
      BY <3>3, LimitsInForce, Zenon
    <3>5. PICK n \in 1..100 : n = MlfqQuantum(sp[s].queue_level) /\ n <= MaxCount
      BY <3>2, <3>3, LimitsInForce, Zenon
    <3>6. MlfqQuantum(sp'[s].queue_level) \in 1..100
      BY <3>2, <3>3, LimitsInForce, Zenon
    <3>7. CASE cfg.sched_mode \in {"RR", "MLFQ"} /\ state[s] # "RUNNING"
      <4>1. ran'[s] = 0 /\ sp'[s].ticks_in_level = 0
        BY <1>2, <2>1, <3>7, SliceBegins
      <4> QED  BY <3>4, <3>6, <4>1
    <3>8. CASE cfg.sched_mode \in {"RR", "MLFQ"} /\ state[s] = "RUNNING"
      <4>1. /\ sp'[s].queue_level = sp[s].queue_level
            /\ \/ ran'[s] = ran[s] /\ sp'[s].ticks_in_level = sp[s].ticks_in_level
               \/ /\ ran'[s] = Sat(ran[s], MaxCount)
                  /\ sp'[s].ticks_in_level = sp[s].ticks_in_level + 1 /\ ~Expires(s)
        BY <1>2, <2>1, <3>8, SliceGoesOn
      <4>2. /\ ran[s] = sp[s].ticks_in_level
            /\ cfg.sched_mode = "RR" => sp[s].ticks_in_level < cfg.rr_quantum
            /\ cfg.sched_mode = "MLFQ" => sp[s].ticks_in_level < n
        BY <3>5, <3>8 DEF SliceInv
      <4>3. ~Expires(s) =>
              /\ cfg.sched_mode = "RR" => ~(sp[s].ticks_in_level + 1 >= cfg.rr_quantum)
              /\ cfg.sched_mode = "MLFQ" => ~(sp[s].ticks_in_level + 1 >= n)
        BY <3>5 DEF Expires
      <4>4. CASE ran'[s] = ran[s] /\ sp'[s].ticks_in_level = sp[s].ticks_in_level
        BY <3>5, <3>8, <4>1, <4>2, <4>4
      <4>5. CASE ran'[s] = Sat(ran[s], MaxCount)
                   /\ sp'[s].ticks_in_level = sp[s].ticks_in_level + 1 /\ ~Expires(s)
        <5>1. ran[s] < MaxCount
          BY <3>2, <3>4, <3>5, <3>8, <4>2, <4>3, <4>5, MaxCountIsNat
        <5>2. ran'[s] = sp'[s].ticks_in_level
          BY <4>2, <4>5, <5>1 DEF Sat
        <5> QED  BY <3>2, <3>4, <3>5, <3>8, <4>1, <4>3, <4>5, <5>2
      <4> QED  BY <4>1, <4>4, <4>5
    <3>9. CASE cfg.sched_mode \in {"PRIORITY", "SRTF"}
      BY <1>2, <2>1, <3>9, SliceBegins, NoTickGoesBy DEF SliceInv
    <3> QED  BY <3>7, <3>8, <3>9
  <2> QED  BY <2>1, Zenon DEF SliceInv, MlfqQuantum
<1> QED  BY <1>1, <1>2

\* Everything that holds along an execution that keeps its configuration.
SteadyInv == KernelOK /\ CountsOK /\ WaitInv /\ SliceInv

LEMMA SteadyStays == HSpec /\ Steady => []SteadyInv
<1>1. KernelOK /\ CountsOK /\ WaitInv /\ SliceInv /\ [HNext]_hvars /\ [UNCHANGED cfg]_cfg
        => WaitInv' /\ SliceInv'
  BY WaitStep, SliceStep
<1> QED  BY KernelStaysOK, CountsStay, WaitInit, SliceInit, <1>1, PTL DEF HSpec, Steady, SteadyInv

\* The process whose slice the timer ends.
LEMMA PreemptedByTimer ==
  ASSUME KernelOK, [HNext]_hvars, NEW s \in Slot, Preempted(s)
  PROVE  SClock(s) /\ ClockYield(s) /\ Expires(s)
<1>1. PICK p \in Slot : SClock(p) /\ ClockYield(p) /\ Expires(p)
  BY HistorySteps, TimerPreempts DEF KernelOK
<1>2. p = s
  BY <1>1 DEF ClockYield, Running, Preempted
<1> QED  BY <1>1, <1>2

\* What get_mlfq_quantum finds is the quantum of the level, or of the lowest queue.
LEMMA SliceIsQuantum ==
  ASSUME FieldsOK, NEW s \in Slot
  PROVE  /\ cfg.sched_mode = "RR" => Slice(s) = cfg.rr_quantum
         /\ cfg.sched_mode = "MLFQ" => Slice(s) = MlfqQuantum(sp[s].queue_level)
         /\ cfg.sched_mode \notin {"RR", "MLFQ"} => Slice(s) = 1
<1>1. cfg.queues \in 2..MLFQ_MAX_QUEUES
  BY LimitsAreNumbers, Zenon DEF FieldsOK
<1>2. sp[s].queue_level \in 0..(MLFQ_MAX_QUEUES - 1)
  BY FieldTypes DEF FieldsOK
<1>3. PICK level \in Nat, queues \in Nat : level = sp[s].queue_level /\ queues = cfg.queues
  BY <1>1, <1>2 DEF MLFQ_MAX_QUEUES
<1>4. (IF level >= queues THEN queues ELSE level + 1)
        = IF level + 1 < queues THEN level + 1 ELSE queues
  OBVIOUS
<1>5. MlfqQuantum(level) = IF level + 1 < queues THEN cfg.quantum[level + 1]
                                                 ELSE cfg.quantum[queues]
  BY <1>3, <1>4 DEF MlfqQuantum
<1> QED  BY <1>3, <1>5, Zenon DEF Slice

\* Under a configuration that stays, a process is preempted exactly when it has had its
\* slice since it was dispatched, and never by FCFS or SJF: a slice is not cut short by
\* what is left of an earlier one, nor stretched, however often the process slept.
THEOREM SlicesAreFull == HSpec /\ Steady => FullSlice
<1> DEFINE Full == \A s \in Slot : Preempted(s) =>
             cfg.sched_mode \notin {"FCFS", "SJF"} /\ ran[s] + 1 = Slice(s)
<1>1. SteadyInv /\ [HNext]_hvars => [Full]_hvars
  <2> SUFFICES ASSUME SteadyInv, [HNext]_hvars, NEW s \in Slot, Preempted(s)
               PROVE  cfg.sched_mode \notin {"FCFS", "SJF"} /\ ran[s] + 1 = Slice(s)
    OBVIOUS
  <2>1. Expires(s) /\ state[s] = "RUNNING"
    BY PreemptedByTimer DEF SteadyInv, ClockYield, Running
  <2>2. sp[s].ticks_in_level \in Nat /\ sp[s].queue_level \in Nat
    <3>1. sp[s] \in SchedRecord
      BY DEF SteadyInv, KernelOK, FieldsOK
    <3> QED  BY <3>1, FieldTypes DEF MLFQ_MAX_QUEUES
  <2>3. cfg.rr_quantum \in Int
    BY LimitsInForce DEF SteadyInv, WaitInv
  <2>4. PICK n \in 1..100 : n = MlfqQuantum(sp[s].queue_level)
    BY <2>2, LimitsInForce DEF SteadyInv, WaitInv
  <2>5. /\ cfg.sched_mode = "RR" => sp[s].ticks_in_level < cfg.rr_quantum
        /\ cfg.sched_mode = "MLFQ" => sp[s].ticks_in_level < n
        /\ cfg.sched_mode \in {"RR", "MLFQ"} => ran[s] = sp[s].ticks_in_level
        /\ cfg.sched_mode \in {"PRIORITY", "SRTF"} => ran[s] = 0
    BY <2>1, <2>4 DEF SteadyInv, SliceInv
  <2>6. /\ cfg.sched_mode = "RR" => sp[s].ticks_in_level + 1 >= cfg.rr_quantum
        /\ cfg.sched_mode = "MLFQ" => sp[s].ticks_in_level + 1 >= n
    BY <2>1, <2>4 DEF Expires
  <2>7. FieldsOK /\ cfg.sched_mode \in AllModes
    BY LimitsAreNumbers DEF SteadyInv, KernelOK, FieldsOK
  <2>8. cfg.sched_mode \notin {"FCFS", "SJF"}
    BY <2>1 DEF Expires
  <2>9. CASE cfg.sched_mode = "RR"
    BY <2>2, <2>3, <2>5, <2>6, <2>7, <2>9, SliceIsQuantum
  <2>10. CASE cfg.sched_mode = "MLFQ"
    BY <2>2, <2>4, <2>5, <2>6, <2>7, <2>10, SliceIsQuantum
  <2>11. CASE cfg.sched_mode \in {"PRIORITY", "SRTF"}
    BY <2>5, <2>7, <2>11, SliceIsQuantum
  <2> QED  BY <2>7, <2>8, <2>9, <2>10, <2>11 DEF AllModes
<1> HIDE DEF Full
<1>2. HSpec /\ Steady => [][Full]_hvars
  BY SteadyStays, <1>1, PTL DEF HSpec
<1> QED  BY <1>2 DEF FullSlice, Full

-----------------------------------------------------------------------------
(* Slices while the configuration changes                                  *)

\* What has been charged since the last change is at most what ticks_in_level says, which
\* is below the quantum unless nothing has been charged at all.
Within(charged, counted, quantum) ==
  charged > 0 => charged <= counted /\ counted < quantum

LongInv ==
  \A s \in Slot : state[s] = "RUNNING" =>
    /\ cfg.sched_mode = "RR" => Within(ran[s], sp[s].ticks_in_level, cfg.rr_quantum)
    /\ cfg.sched_mode = "MLFQ" =>
         Within(ran[s], sp[s].ticks_in_level, MlfqQuantum(sp[s].queue_level))
    /\ cfg.sched_mode \in {"PRIORITY", "SRTF"} => ran[s] = 0

LEMMA LongInit == HInit => LongInv
BY DEF HInit, SchedInit, Init, LongInv

LEMMA LongStep ==
  ASSUME KernelOK, CountsOK, LongInv, [HNext]_hvars
  PROVE  LongInv'
<1>1. CASE UNCHANGED hvars
  BY <1>1 DEF hvars, vars, procVars, schedVars, history, LongInv, MlfqQuantum
<1>2. CASE HNext /\ cfg' # cfg
  BY <1>2, CountsAgain DEF LongInv, Within
<1>3. CASE HNext /\ cfg' = cfg
  <2>1. ASSUME NEW s \in Slot, state'[s] = "RUNNING"
        PROVE  /\ cfg.sched_mode = "RR" =>
                    Within(ran'[s], sp'[s].ticks_in_level, cfg.rr_quantum)
               /\ cfg.sched_mode = "MLFQ" =>
                    Within(ran'[s], sp'[s].ticks_in_level, MlfqQuantum(sp'[s].queue_level))
               /\ cfg.sched_mode \in {"PRIORITY", "SRTF"} => ran'[s] = 0
    <3>1. CASE state[s] # "RUNNING"
      <4>1. ran'[s] = 0
        BY <1>3, <2>1, <3>1, SliceBegins
      <4> QED  BY <4>1 DEF Within
    <3>2. CASE state[s] = "RUNNING" /\ cfg.sched_mode \in {"PRIORITY", "SRTF"}
      BY <1>3, <2>1, <3>2, NoTickGoesBy DEF LongInv
    <3>3. CASE state[s] = "RUNNING" /\ cfg.sched_mode \in {"RR", "MLFQ"}
      <4>1. /\ sp'[s].queue_level = sp[s].queue_level
            /\ \/ ran'[s] = ran[s] /\ sp'[s].ticks_in_level = sp[s].ticks_in_level
               \/ /\ ran'[s] = Sat(ran[s], MaxCount)
                  /\ sp'[s].ticks_in_level = sp[s].ticks_in_level + 1 /\ ~Expires(s)
        BY <1>3, <2>1, <3>3, SliceGoesOn
      <4>2. FieldsOK /\ sp[s] \in SchedRecord /\ ConfigOK
        BY DEF KernelOK, FieldsOK
      <4>8. cfg.rr_quantum \in 1..100
        BY <4>2, LimitsAreNumbers, Zenon
      <4>9. sp[s].ticks_in_level \in 0..99
        BY <4>2, FieldTypes
      <4>10. ran[s] \in 0..MaxCount
        BY DEF CountsOK
      <4>3. /\ sp[s].ticks_in_level \in Nat /\ ran[s] \in 0..MaxCount /\ MaxCount \in Nat
            /\ cfg.rr_quantum \in Int
        BY <4>8, <4>9, <4>10, MaxCountIsNat
      <4>4. PICK n \in 1..100 : n = MlfqQuantum(sp[s].queue_level)
        BY <4>2, FieldTypes, QuantumIsNumber DEF MLFQ_MAX_QUEUES
      <4>5. /\ cfg.sched_mode = "RR" => Within(ran[s], sp[s].ticks_in_level, cfg.rr_quantum)
            /\ cfg.sched_mode = "MLFQ" => Within(ran[s], sp[s].ticks_in_level, n)
        BY <3>3, <4>4 DEF LongInv
      <4>6. CASE ran'[s] = ran[s] /\ sp'[s].ticks_in_level = sp[s].ticks_in_level
        BY <3>3, <4>1, <4>4, <4>5, <4>6
      <4>7. CASE /\ ran'[s] = Sat(ran[s], MaxCount)
                 /\ sp'[s].ticks_in_level = sp[s].ticks_in_level + 1 /\ ~Expires(s)
        <5>1. /\ cfg.sched_mode = "RR" => ~(sp[s].ticks_in_level + 1 >= cfg.rr_quantum)
              /\ cfg.sched_mode = "MLFQ" => ~(sp[s].ticks_in_level + 1 >= n)
          BY <4>4, <4>7 DEF Expires
        <5>2. ran'[s] <= sp'[s].ticks_in_level
          BY <3>3, <4>3, <4>5, <4>7 DEF Sat, Within
        <5> QED  BY <3>3, <4>1, <4>3, <4>4, <4>7, <5>1, <5>2 DEF Within
      <4> QED  BY <4>1, <4>6, <4>7
    <3> QED  BY <3>1, <3>2, <3>3
  <2> QED  BY <1>3, <2>1, Zenon DEF LongInv, MlfqQuantum
<1> QED  BY <1>1, <1>2, <1>3

\* Whatever is reconfigured while a process runs, it is not charged more ticks since than
\* the quantum in force allows: counts and levels left by other settings cut a slice
\* short but never stretch it.
THEOREM NobodyOutstaysSlice == HSpec => []NoLongSlice
<1>1. KernelOK /\ CountsOK /\ LongInv => NoLongSlice
  <2> SUFFICES ASSUME KernelOK, CountsOK, LongInv, NEW s \in Slot, state[s] = "RUNNING",
                      cfg.sched_mode \notin {"FCFS", "SJF"}
               PROVE  ran[s] < Slice(s)
    BY DEF NoLongSlice
  <2>1. FieldsOK /\ sp[s] \in SchedRecord /\ ConfigOK
    BY DEF KernelOK, FieldsOK
  <2>2. cfg.rr_quantum \in 1..100 /\ cfg.sched_mode \in AllModes
    BY <2>1, LimitsAreNumbers, Zenon
  <2>3. PICK n \in 1..100 : n = MlfqQuantum(sp[s].queue_level)
    BY <2>1, FieldTypes, QuantumIsNumber DEF MLFQ_MAX_QUEUES
  <2>4. sp[s].ticks_in_level \in Nat /\ ran[s] \in Nat
    <3>1. sp[s].ticks_in_level \in 0..99
      BY <2>1, FieldTypes
    <3>2. ran[s] \in 0..MaxCount
      BY DEF CountsOK
    <3> QED  BY <3>1, <3>2, MaxCountIsNat
  <2>5. CASE cfg.sched_mode = "RR"
    <3>1. Within(ran[s], sp[s].ticks_in_level, cfg.rr_quantum)
      BY <2>5 DEF LongInv
    <3>2. Slice(s) = cfg.rr_quantum
      BY <2>1, <2>5, SliceIsQuantum
    <3> QED  BY <2>2, <2>4, <3>1, <3>2 DEF Within
  <2>6. CASE cfg.sched_mode = "MLFQ"
    <3>1. Within(ran[s], sp[s].ticks_in_level, n)
      BY <2>3, <2>6 DEF LongInv
    <3>2. Slice(s) = n
      BY <2>1, <2>3, <2>6, SliceIsQuantum
    <3> QED  BY <2>3, <2>4, <3>1, <3>2 DEF Within
  <2>7. CASE cfg.sched_mode \in {"PRIORITY", "SRTF"}
    BY <2>1, <2>7, SliceIsQuantum DEF LongInv
  <2> QED  BY <2>2, <2>5, <2>6, <2>7 DEF AllModes
<1> QED  BY KernelStaysOK, CountsStay, LongInit, LongStep, <1>1, PTL DEF HSpec

-----------------------------------------------------------------------------
(* The queues of MLFQ                                                      *)

LEMMA DemotedByOne ==
  ASSUME ConfigOK, NEW level \in 0..(MLFQ_MAX_QUEUES - 1)
  PROVE  \/ Demoted(level) = level
         \/ Demoted(level) = level + 1 /\ level + 1 < cfg.queues
<1>1. cfg.queues \in 2..MLFQ_MAX_QUEUES
  BY LimitsAreNumbers, Zenon
<1> QED  BY <1>1 DEF Demoted, MLFQ_MAX_QUEUES

\* A scan moves a process to the top queue, and only when it has waited long enough.
LEMMA BoostMoves ==
  ASSUME SteadyInv, NEW s \in Slot, state[s] = "RUNNABLE"
  PROVE  \/ Waited(sp[s]).queue_level = sp[s].queue_level
         \/ Waited(sp[s]).queue_level = 0 /\ rounds[s] + 1 >= cfg.boost_interval
<1>1. PICK r \in SchedRecord : r = sp[s]
  BY DEF SteadyInv, KernelOK, FieldsOK
<1>2. CASE cfg.sched_mode = "MLFQ"
  <2>1. CASE Sat(r.wait_ticks, MaxWait) >= cfg.boost_interval /\ r.queue_level > 0
    <3>1. Waited(r).queue_level = 0
      BY <1>2, <2>1, BoostedOrNot
    <3>2. r.wait_ticks \in 0..MaxWait /\ MaxWait \in Nat
      BY FieldTypes, BoundsAssumption
    <3>3. rounds[s] \in 0..MaxCount /\ MaxCount \in Nat
      BY MaxCountIsNat DEF SteadyInv, CountsOK
    <3>4. rounds[s] = MaxCount \/ rounds[s] >= r.wait_ticks
      BY <1>1, <1>2, <2>1 DEF SteadyInv, WaitInv, WaitOf
    <3>5. cfg.boost_interval \in 1..MaxWait /\ cfg.boost_interval <= MaxCount + 1
      BY LimitsInForce DEF SteadyInv, WaitInv
    <3>6. rounds[s] + 1 >= cfg.boost_interval
      BY <2>1, <3>2, <3>3, <3>4, <3>5 DEF Sat
    <3> QED  BY <1>1, <3>1, <3>6
  <2>2. CASE ~(Sat(r.wait_ticks, MaxWait) >= cfg.boost_interval /\ r.queue_level > 0)
    BY <1>1, <1>2, <2>2, BoostedOrNot
  <2> QED  BY <2>1, <2>2
<1>3. CASE cfg.sched_mode = "PRIORITY"
  BY <1>1, <1>3, AgedOrNot
<1>4. CASE cfg.sched_mode \notin {"PRIORITY", "MLFQ"}
  BY <1>1, <1>4, NeitherMoves
<1> QED  BY <1>2, <1>3, <1>4

\* Under a configuration that stays, a process goes down one queue of MLFQ by using up
\* a slice, up only to the top, from the ready queue and after the rounds it takes;
\* neither blocking, waking, killing nor another policy's scan moves it.
THEOREM QueuesMoveByRule == HSpec /\ Steady => QueueMoves
<1> DEFINE ByRule == \A s \in Slot : state[s] \in Live =>
             LET from == sp[s].queue_level
                 to   == sp'[s].queue_level
             IN /\ to > from => to = from + 1 /\ Preempted(s) /\ to < cfg.queues
                /\ to < from => to = 0 /\ state[s] = "RUNNABLE"
                                  /\ rounds[s] + 1 >= cfg.boost_interval
<1>1. SteadyInv /\ [HNext]_hvars => [ByRule]_hvars
  <2> SUFFICES ASSUME SteadyInv, [HNext]_hvars, NEW s \in Slot, state[s] \in Live
               PROVE  LET from == sp[s].queue_level
                          to   == sp'[s].queue_level
                      IN /\ to > from => to = from + 1 /\ Preempted(s) /\ to < cfg.queues
                         /\ to < from => to = 0 /\ state[s] = "RUNNABLE"
                                           /\ rounds[s] + 1 >= cfg.boost_interval
    OBVIOUS
  <2> DEFINE from == sp[s].queue_level
             to == sp'[s].queue_level
  <2>1. ProcInv /\ FieldsOK /\ [SchedNext]_vars
    BY HistorySteps DEF SteadyInv, KernelOK
  <2>2. sp[s] \in SchedRecord /\ ConfigOK
    BY <2>1 DEF FieldsOK
  <2>3. from \in 0..(MLFQ_MAX_QUEUES - 1) /\ from \in Nat
    BY <2>2, FieldTypes DEF MLFQ_MAX_QUEUES
  <2>4. RecordMoves(s) \/ Untouched(s) \/ IsCharged(s)
    BY <2>1, RecordStep, TickMoves DEF SchedNext
  <2>5. CASE to = from
    BY <2>3, <2>5
  <2>6. CASE WaitsARound(s) \/ RunsAsBest(s)
    <3>1. state[s] = "RUNNABLE" /\ to = Waited(sp[s]).queue_level
      BY <2>6 DEF WaitsARound, RunsAsBest, DispatchBest, Dispatch
    <3>2. to = from \/ (to = 0 /\ rounds[s] + 1 >= cfg.boost_interval)
      BY <3>1, BoostMoves
    <3> QED  BY <2>3, <3>1, <3>2
  <2>7. CASE IsCharged(s) /\ to # from
    <3>1. to = Charged(s).queue_level
      BY <2>7 DEF IsCharged, Seen
    <3>2. Expires(s) /\ to = Demoted(from)
      BY <2>2, <2>7, <3>1, ChargedOnSlice
    <3>3. to = from + 1 /\ from + 1 < cfg.queues
      BY <2>2, <2>3, <2>7, <3>2, DemotedByOne
    <3>4. ClockYield(s)
      BY <2>7, <3>2 DEF IsCharged, Charges, SClock
    <3>5. Preempted(s)
      BY <2>1, <3>4 DEF ClockYield, Running, Preempted, WakeAll, ProcInv, TypeOK
    <3> QED  BY <2>3, <3>3, <3>5
  <2>8. CASE Untouched(s) \/ EndsBurst(s) \/ RunsByRR(s) \/ IsTold(s)
    <3>1. to = from
      BY <2>8 DEF Untouched, Seen, EndsBurst, SeenButPrediction, RunsByRR, IsTold
    <3> QED  BY <2>5, <3>1
  <2>9. ~IsCleared(s)
    BY DEF IsCleared
  <2> QED  BY <2>4, <2>5, <2>6, <2>7, <2>8, <2>9 DEF RecordMoves
<1> HIDE DEF ByRule
<1>2. HSpec /\ Steady => [][ByRule]_hvars
  BY SteadyStays, <1>1, PTL DEF HSpec
<1> QED  BY <1>2 DEF QueueMoves, ByRule
=============================================================================
