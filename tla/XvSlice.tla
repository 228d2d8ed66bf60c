------------------------------ MODULE XvSlice --------------------------------
(***************************************************************************)
(* Waiting and slices, measured by history variables that do not depend on *)
(* the kernel's own counters (wait_ticks, ticks_in_level), against quanta  *)
(* that do not depend on how the kernel looks them up (get_mlfq_quantum).  *)
(***************************************************************************)
EXTENDS XvSched

VARIABLES
  ran,        \* by slot: ticks charged since the last dispatch or the last change of the
              \* configuration (a killed process caught in user mode exits instead)
  rounds,     \* by slot: dispatches of others while RUNNABLE and not helped
  overtaken   \* overtaken[s][t]: dispatches of t while s has been RUNNABLE

history == <<ran, rounds, overtaken>>
hvars == <<vars, history>>

CONSTANT MaxCount    \* the history counters saturate here

\* The counters are wide enough to tell being in time from being late: past these
\* values they would saturate before the kernel's own limits are reached.
ASSUME CountersAssumption ==
  /\ MaxCount \in Nat
  /\ \A c \in BootConfigs :
       /\ c.aging <= MaxWait /\ c.boost_interval <= MaxWait
       /\ c.boost_interval <= MaxCount + 1 /\ c.rr_quantum <= MaxCount
       /\ \A i \in 1..MLFQ_MAX_QUEUES : c.quantum[i] <= MaxCount

-----------------------------------------------------------------------------
(* History *)

HInit ==
  /\ SchedInit
  /\ ran = [s \in Slot |-> 0]
  /\ rounds = [s \in Slot |-> 0]
  /\ overtaken = [s \in Slot |-> [t \in Slot |-> 0]]

\* s has been aged, or given another priority to wait with; or it has been boosted.
Helped(s) ==
  IF cfg.sched_mode = "PRIORITY" THEN sp'[s].priority # sp[s].priority
  ELSE sp'[s].queue_level # sp[s].queue_level

Watch ==
  LET picked == IF cpu = None THEN cpu' ELSE None IN
  /\ rounds' = [s \in Slot |->
       IF state'[s] # "RUNNABLE" \/ state[s] # "RUNNABLE" \/ Helped(s) THEN 0
       ELSE IF picked # None THEN Sat(rounds[s], MaxCount) ELSE rounds[s]]
  /\ overtaken' = [s \in Slot |-> [t \in Slot |->
       IF cfg.sched_mode # "RR" \/ state'[s] # "RUNNABLE" \/ state[s] # "RUNNABLE" THEN 0
       ELSE IF picked = t THEN Sat(overtaken[s][t], MaxCount) ELSE overtaken[s][t]]]

HNext ==
  \/ /\ Untimed /\ Watch
     /\ ran' = [s \in Slot |->
          IF Dispatched(s) \/ state'[s] # "RUNNING" \/ cfg' # cfg THEN 0 ELSE ran[s]]
  \/ \E p \in Slot :
       /\ SClock(p) /\ Watch
       /\ ran' = [ran EXCEPT ![p] = IF state'[p] # "RUNNING" THEN 0
                                    ELSE IF pc[p] = "user" /\ killed[p] THEN @
                                    ELSE Sat(@, MaxCount)]

HSpec == HInit /\ [][HNext]_hvars

\* The workload runs under the configuration it was started with: schedtest makes
\* its configuration calls before it forks the workload.
Steady == [][UNCHANGED cfg]_cfg

-----------------------------------------------------------------------------
(* Properties *)

\* Round robin overtakes nobody: while a process is RUNNABLE no other is
\* dispatched twice, wherever in sched_rr's pass it became RUNNABLE.
RRNoOvertake ==
  cfg.sched_mode = "RR" => \A s, t \in Slot : overtaken[s][t] <= 1

\* The ticks a process may run under each policy: the quantum of RR; the quantum of
\* its level, or of the lowest queue if there are fewer now; one tick where every tick
\* is a scheduling point.  FCFS and SJF take the hart from nobody.
Slice(s) ==
  CASE cfg.sched_mode = "RR" -> cfg.rr_quantum
    [] cfg.sched_mode = "MLFQ" ->
         IF sp[s].queue_level + 1 < cfg.queues THEN cfg.quantum[sp[s].queue_level + 1]
                                               ELSE cfg.quantum[cfg.queues]
    [] OTHER -> 1

\* A process is preempted exactly when it has had its slice since its dispatch: nothing
\* left over from an earlier dispatch counts, and nothing is lost by sleeping.
FullSlice ==
  [][\A s \in Slot : Preempted(s) =>
       cfg.sched_mode \notin {"FCFS", "SJF"} /\ ran[s] + 1 = Slice(s)]_hvars

\* No process outstays its slice, whatever is reconfigured while it runs: counts left
\* by another policy or another quantum, and levels that are no longer queues, may
\* cut a slice short but never stretch it.
NoLongSlice ==
  \A s \in Slot : state[s] = "RUNNING" /\ cfg.sched_mode \notin {"FCFS", "SJF"} =>
    ran[s] < Slice(s)

\* Aging and boosting come in time: a process that waits is helped within the
\* configured number of scheduling rounds, counted from when it became RUNNABLE.
HelpInTime ==
  \A s \in Slot : state[s] = "RUNNABLE" =>
    /\ cfg.sched_mode = "PRIORITY" /\ sp[s].priority > 0 => rounds[s] < cfg.aging
    /\ cfg.sched_mode = "MLFQ" /\ sp[s].queue_level > 0 => rounds[s] < cfg.boost_interval

\* A process moves down one queue only by using up a slice, and up only to the
\* top and only from the ready queue; blocking or waking never moves it.
QueueMoves ==
  [][\A s \in Slot : state[s] \in Live =>
       LET from == sp[s].queue_level
           to   == sp'[s].queue_level
       IN /\ to > from => to = from + 1 /\ Preempted(s) /\ to < cfg.queues
          /\ to < from => to = 0 /\ state[s] = "RUNNABLE" /\ rounds[s] + 1 >= cfg.boost_interval
    ]_hvars
=============================================================================
