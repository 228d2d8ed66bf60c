------------------------------ MODULE Verdict ------------------------------
(***************************************************************************)
(* The verdict of scripts/orchestrator.py: build_xv6_metrics and the       *)
(* judgment of a correction.  A comparison is a sequence of [algo, m] in   *)
(* the order of the runs, the selected algorithm first.  Averages are in   *)
(* hundredths of a tick, throughput and regret in thousandths.             *)
(***************************************************************************)
EXTENDS Numbers, Sequences

Distance(a, b) == IF a > b THEN a - b ELSE b - a

\* What the averages of a run are (None over no process), its throughput and whether
\* a process starved.
MetricNumbers(m) ==
  /\ \A k \in {"avg_response_time", "avg_turnaround_time", "avg_waiting_time"} :
       m[k] \in Nat \cup {NULL}
  /\ m.throughput \in Nat /\ m.starvation_occurred \in BOOLEAN

metric_key(target) ==
  CASE target \in {"avg_waiting_time", "max_waiting_time"} -> "avg_waiting_time"
    [] target = "avg_turnaround_time" -> "avg_turnaround_time"
    [] target = "throughput" -> "throughput"
    [] OTHER -> "avg_response_time"

ValuesOf(comparison, k) == {comparison[i].m[k] : i \in DOMAIN comparison} \ {NULL}
BestOf(values, k) == IF k = "throughput" THEN Largest(values) ELSE Least(values)

\* JUDGMENT_ABS_FLOOR, 0.5 in the unit of the metric.
AbsFloor(k) == IF k = "throughput" THEN 500 ELSE 50

Judged(judgment, regret) == [judgment |-> judgment, regret_score |-> regret]

SUCCESS_REGRET == 100
NEAR_SUCCESS_REGRET == 250

Graded(regret) ==
  IF regret <= SUCCESS_REGRET THEN "SUCCESS"
  ELSE IF regret <= NEAR_SUCCESS_REGRET THEN "NEAR-SUCCESS" ELSE "FAIL"

\* Mutant: a run that starves a process is judged like any other.
JudgedByValue(m, k, best) ==
  LET denom == IF best > AbsFloor(k) THEN best ELSE AbsFloor(k)
      delta == Round(1000 * Distance(m[k], best), denom)
  IN  IF m[k] = NULL THEN Judged("UNKNOWN", 0) ELSE Judged(Graded(delta), delta)

judge(m, k, best) ==
  LET v == m[k]
      denom == IF best > AbsFloor(k) THEN best ELSE AbsFloor(k)
      delta == Round(1000 * Distance(v, best), denom)
  IN  IF m.starvation_occurred THEN Judged("FAIL", 1000)
      ELSE IF v = NULL THEN Judged("UNKNOWN", 0)
      ELSE IF k # "throughput" /\ Distance(v, best) <= AbsFloor(k) THEN Judged("SUCCESS", 0)
      ELSE Judged(Graded(delta), delta)

\* The algorithm with the best value of the target itself.  A metric that is no
\* key of the comparison gives none; starvation_occurred is compared as a number.
COMPARED == {"avg_response_time", "avg_turnaround_time", "avg_waiting_time", "throughput",
             "max_waiting_time", "preemption_count", "starvation_occurred"}

Compared(metrics, k) ==
  CASE k \notin COMPARED -> NULL
    [] k = "starvation_occurred" -> IF metrics[k] THEN 1 ELSE 0
    [] OTHER -> metrics[k]

BestAlgorithm(comparison, target) ==
  LET Value(i) == Compared(comparison[i].m, target)
      known == {i \in DOMAIN comparison : Value(i) # NULL}
      Beats(i, k) == IF target = "throughput" THEN Value(i) > Value(k) ELSE Value(i) < Value(k)
  IN  IF known = {} THEN "none"
      ELSE comparison[CHOOSE i \in known :
                        \A k \in known : ~Beats(k, i) /\ (k < i => Beats(i, k))].algo

\* build_xv6_metrics: selected is the first run if its own has no trace.
build_xv6_metrics(comparison, selected, target) ==
  LET key == metric_key(target)
      values == ValuesOf(comparison, key)
      best == IF values = {} THEN 0 ELSE BestOf(values, key)
      mine == {i \in DOMAIN comparison : comparison[i].algo = selected}
      top == comparison[IF mine = {} THEN 1 ELSE Least(mine)]
      verdict == judge(top.m, key, best)
  IN  [scheduling_algorithm |-> top.algo, metrics |-> top.m, target_metric |-> target,
       judgment |-> verdict.judgment, regret_score |-> verdict.regret_score,
       best_algorithm |-> BestAlgorithm(comparison, target), comparison |-> comparison]

\* _judge_value, for the run with a correction applied: the floor is 0.5 whatever
\* the metric, and starvation is not asked.
judge_value(value, best, k) ==
  LET denom == IF best > AbsFloor(k) THEN best ELSE AbsFloor(k)
      worse == IF k = "throughput" THEN best - value ELSE value - best
      delta == Round(1000 * worse, denom)
  IN  IF value = NULL \/ best = NULL THEN Judged("UNKNOWN", NULL)
      ELSE IF Distance(value, best) <= AbsFloor(k) THEN Judged("SUCCESS", 0)
      ELSE Judged(Graded(delta), delta)
=============================================================================
