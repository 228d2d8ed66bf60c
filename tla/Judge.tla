------------------------------- MODULE Judge -------------------------------
(***************************************************************************)
(* The second evaluator of a comparison, main in tools/metrics.py, and the *)
(* events tools/event_detector.py finds in a trace.                        *)
(***************************************************************************)
EXTENDS Measure, Verdict

CONSTANTS STARVATION_THRESHOLD, THRUPUT_THRESHOLD, PREEMPT_THRESHOLD, RESPONSE_THRESHOLD

ASSUME DetectorAssumption ==
  {STARVATION_THRESHOLD, THRUPUT_THRESHOLD, PREEMPT_THRESHOLD, RESPONSE_THRESHOLD} \subseteq Nat

-----------------------------------------------------------------------------
(* The evaluator of tools/metrics.py.                                      *)

resolve_target_metric(target) ==
  CASE target = "response_time" -> "avg_response_time"
    [] target = "turnaround_time" -> "avg_turnaround_time"
    [] target = "waiting_time" -> "avg_waiting_time"
    [] target \in {"throughput", "max_waiting_time", "avg_turnaround_time", "avg_waiting_time"} ->
         target
    [] OTHER -> "avg_response_time"

\* compute_regret: (llm - best) / best, the other way round for throughput.
compute_regret(k, mine, others) ==
  LET values == ValuesOf(others, k) \cup {mine}
      best == BestOf(values, k)
  IN  IF mine = NULL \/ ValuesOf(others, k) = {} THEN NULL
      ELSE IF best = 0 THEN (IF mine = 0 THEN 0 ELSE NULL)
      ELSE Round(1000 * Distance(mine, best), best)

compute_judgment(regret, starvation) ==
  IF starvation THEN "FAIL" ELSE IF regret = NULL THEN "UNKNOWN" ELSE Graded(regret)

\* _make_synthetic_rr_baseline: round robin over the bursts inferred from the
\* primary run, when there is nothing else to compare with.
SYNTHETIC_RR_QUANTUM == 10

Tasks(per) ==
  LET usable == {p \in DOMAIN per : per[p].arrival_time # NULL /\ per[p].turnaround_time # NULL}
      Burst(p) == per[p].turnaround_time - (IF per[p].waiting_time = NULL THEN 0
                                            ELSE per[p].waiting_time)
      ordered == SetToSortSeq({p \in usable : Burst(p) > 0},
                   LAMBDA p, q : \/ per[p].arrival_time < per[q].arrival_time
                                 \/ per[p].arrival_time = per[q].arrival_time /\ p < q)
  IN  [i \in DOMAIN ordered |-> [arrival |-> per[ordered[i]].arrival_time,
                                burst |-> Burst(ordered[i])]]

Served(tasks, s) ==
  LET ArrivedBy(t) == Cardinality({i \in DOMAIN tasks : tasks[i].arrival <= t})
      Joined(t) == [i \in 1..ArrivedBy(t) - s.seen |-> s.seen + i]
      queue == s.ready \o Joined(s.clock)
      i == queue[1]
      slice == IF s.left[i] < SYNTHETIC_RR_QUANTUM THEN s.left[i] ELSE SYNTHETIC_RR_QUANTUM
      late == SubSeq(Joined(s.clock + slice), Len(Joined(s.clock)) + 1, Len(Joined(s.clock + slice)))
  IN  IF queue = << >>
      THEN IF s.seen = Len(tasks) THEN s ELSE [s EXCEPT !.clock = tasks[s.seen + 1].arrival]
      ELSE [clock |-> s.clock + slice, seen |-> ArrivedBy(s.clock + slice),
            left |-> [s.left EXCEPT ![i] = @ - slice],
            first |-> IF s.first[i] = NULL THEN [s.first EXCEPT ![i] = s.clock] ELSE s.first,
            finish |-> IF s.left[i] = slice THEN [s.finish EXCEPT ![i] = s.clock + slice]
                       ELSE s.finish,
            ready |-> Tail(queue) \o late \o (IF s.left[i] = slice THEN << >> ELSE <<i>>)]

Simulated(tasks) ==
  LET start == [clock |-> 0, seen |-> 0, ready |-> << >>,
                left |-> [i \in DOMAIN tasks |-> tasks[i].burst],
                first |-> [i \in DOMAIN tasks |-> NULL], finish |-> [i \in DOMAIN tasks |-> NULL]]
      steps == Len(tasks) + Total(start.left)
      sim[n \in 0..steps] == IF n = 0 THEN start ELSE Served(tasks, sim[n - 1])
  IN  sim[steps]

synthetic_rr_baseline(m) ==
  LET tasks == Tasks(m.per_process)
      final == Simulated(tasks)
      per == [i \in DOMAIN tasks |->
                [response |-> final.first[i] - tasks[i].arrival,
                 turnaround |-> final.finish[i] - tasks[i].arrival,
                 waiting |-> final.finish[i] - tasks[i].arrival - tasks[i].burst,
                 finish_time |-> final.finish[i]]]
  IN  IF tasks = << >> \/ m.total_execution_time = 0 THEN << >>
      ELSE <<[algo |-> "_synthetic_RR",
              m |-> [avg_response_time |-> safe_mean(per, "response"),
                     avg_turnaround_time |-> safe_mean(per, "turnaround"),
                     avg_waiting_time |-> safe_mean(per, "waiting"),
                     max_waiting_time |-> 100 * Largest({per[i].waiting : i \in DOMAIN per}),
                     throughput |-> Round(1000 * Len(tasks), m.total_execution_time),
                     starvation_occurred |-> FALSE]]>>

\* _select_primary: the recommended algorithm's run, or the first.
select_primary(runs, recommended) ==
  LET mine == {i \in DOMAIN runs : runs[i].algo = recommended}
  IN  runs[IF mine = {} THEN 1 ELSE Least(mine)]

\* main and evaluate_run, over the runs found in outputs/.
evaluate_run(runs, recommended, target) ==
  LET primary == select_primary(runs, recommended)
      key == resolve_target_metric(target)
      others == AtIndices(runs, {i \in DOMAIN runs : runs[i].algo # primary.algo})
      baseline == IF others = << >> THEN synthetic_rr_baseline(primary.m) ELSE others
      regret == compute_regret(key, primary.m[key], baseline)
  IN  [scheduling_algorithm |-> primary.algo, target_metric |-> key, regret_score |-> regret,
       judgment |-> compute_judgment(regret, primary.m.starvation_occurred),
       best_algorithm |-> BestAlgorithm(IF others = << >> THEN runs \o baseline ELSE runs, key)]

-----------------------------------------------------------------------------
(* Events.                                                                 *)

Problem(tick_, type, pid, severity) ==
  [tick |-> tick_, type |-> type, pid |-> pid, severity |-> severity]

\* A PREEMPT of a process and how long its last DISPATCH was ago.
Gap(evs, i) ==
  LET before == {j \in 1..i - 1 : evs[j].event = "DISPATCH" /\ evs[j].pid = evs[i].pid}
  IN  IF before = {} THEN 0 ELSE evs[i].tick - evs[Largest(before)].tick

StarvationEvents(evs) ==
  LET hits == SelectSeq([i \in DOMAIN evs |-> i],
                LAMBDA i : evs[i].event = "PREEMPT" /\ Gap(evs, i) >= STARVATION_THRESHOLD)
  IN  [n \in DOMAIN hits |-> Problem(evs[hits[n]].tick, "starvation", evs[hits[n]].pid, "high")]

When(condition, problem) == IF condition THEN <<problem>> ELSE << >>

detect(evs, m) ==
  LET total == m.total_execution_time
      found == StarvationEvents(evs)
               \o When(m.throughput < THRUPUT_THRESHOLD,
                       Problem(total, "low_throughput", NULL, "medium"))
               \o When(total > 0 /\ 100 * m.preemption_count > PREEMPT_THRESHOLD * total,
                       Problem(total, "high_preemption_rate", NULL, "low"))
               \o When(m.avg_response_time > RESPONSE_THRESHOLD,
                       Problem(0, "high_response_time", NULL, "medium"))
      At(t) == SelectSeq(found, LAMBDA p : p.tick = t)
  IN  FlattenSeq([t \in 1..total + 1 |-> At(t - 1)])
=============================================================================
