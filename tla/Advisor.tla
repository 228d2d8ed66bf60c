------------------------------ MODULE Advisor ------------------------------
(***************************************************************************)
(* What is asked of the model and what is taken from it:                   *)
(* tools/workload_analyzer.py, tools/llm_advisor.py,                       *)
(* tools/intent_advisor.py and the memory of experiments/outcome_store.py. *)
(* The model itself is outside: an answer is any record of the right shape,*)
(* or none.  Averages and ratios are in hundredths.                        *)
(***************************************************************************)
EXTENDS Guard, Numbers, FiniteSets, SequencesExt

CONSTANT MAX_RULES    \* rules kept in feedback_rules.md

ASSUME RulesAssumption == MAX_RULES \in Nat \ {0}

STARVATION_PRIORITY_RATIO == 3

\* statistics.mean and statistics.variance, in hundredths.
Mean(q) == Round(100 * Total(q), Len(q))

Variance(q) ==
  LET n == Len(q)
      spread == n * Total([i \in DOMAIN q |-> q[i] * q[i]]) - Total(q) * Total(q)
  IN  IF n < 2 THEN 0 ELSE Round(100 * spread, n * (n - 1))

-----------------------------------------------------------------------------
(* The analyzer.  A workload is [id, target_metric, expected, processes], a *)
(* process [pid, arrival_time, priority, label, bursts, ios]; bursts are    *)
(* what the kernel will run.                                               *)

Ratio(labels, label) ==
  Round(100 * Cardinality({i \in DOMAIN labels : labels[i] = label}), Len(labels))

analyze_workload(w) ==
  LET ps == w.processes
      Of(F(_)) == [i \in DOMAIN ps |-> F(ps[i])]
      labels == Of(LAMBDA p : p.label)
      arrivals == SortSeq(Of(LAMBDA p : p.arrival_time), <)
      priorities == Of(LAMBDA p : p.priority)
      counts == Of(LAMBDA p : Len(p.bursts))
  IN  [id |-> w.id, target_metric |-> w.target_metric, expected |-> w.expected,
       process_count |-> Len(ps),
       avg_arrival_gap |-> IF Len(ps) = 1 THEN 0
                           ELSE Mean([i \in 1..Len(ps) - 1 |-> arrivals[i + 1] - arrivals[i]]),
       cpu_bound_ratio |-> Ratio(labels, "cpu_bound"),
       interactive_ratio |-> Ratio(labels, "interactive"),
       avg_priority |-> Mean(priorities),
       priority_variance |-> Variance(priorities),
       has_starvation_risk |->
         /\ Len(ps) > 1
         /\ Largest(ToSet(priorities)) >= STARVATION_PRIORITY_RATIO * Least(ToSet(priorities)),
       burst_count_distribution |->
         [min |-> Least(ToSet(counts)), max |-> Largest(ToSet(counts)), avg |-> Mean(counts)],
       total_cpu_work |-> Total(Of(LAMBDA p : Total(p.bursts))),
       visible_processes |->
         Of(LAMBDA p : [pid |-> p.pid, arrival_time |-> p.arrival_time,
                        priority |-> p.priority, label |-> p.label,
                        burst_count |-> Len(p.bursts), io_count |-> p.ios])]

-----------------------------------------------------------------------------
(* The prompt.                                                             *)

PROMPT_STRIP_KEYS == {"total_cpu_work", "expected", "id"}
VISIBLE_PROCESS_STRIP_KEYS == {"label"}

build_user_prompt(summary) ==
  LET Shown(p) == Restrict(p, DOMAIN p \ VISIBLE_PROCESS_STRIP_KEYS)
      safe == Restrict(summary, DOMAIN summary \ PROMPT_STRIP_KEYS)
  IN  [safe EXCEPT !.visible_processes = [i \in DOMAIN @ |-> Shown(@[i])]]

\* The rules of past failures, if a file is named and has any.
build_system_prompt(use_feedback, rules) == IF use_feedback THEN rules ELSE << >>

\* prompt_safe_features: what a precedent says of its workload.
FeatureKeys ==
  {"process_count", "avg_arrival_gap", "cpu_bound_ratio", "interactive_ratio",
   "avg_priority", "priority_variance", "burst_count_distribution",
   "has_starvation_risk", "target_metric"}

prompt_safe_features(summary) == Restrict(summary, FeatureKeys)

RETRIEVED == 3

\* Mutant: the workload itself is among its precedents.
RetrievedFromAll(summary, store) ==
  LET size == IF Len(store) < RETRIEVED THEN Len(store) ELSE RETRIEVED
  IN  kSubset(size, DOMAIN store)

\* build_retrieval_block and retrieve: the nearest records of other workloads.
\* Which of them are nearest is left open.
retrieve(summary, store) ==
  LET pool == {i \in DOMAIN store : store[i].name # summary.id}
      size == IF Cardinality(pool) < RETRIEVED THEN Cardinality(pool) ELSE RETRIEVED
  IN  kSubset(size, pool)

\* What the prompt says of them; record is history: which record it is from.
Precedents(store, S) ==
  {[features |-> store[i].features, best |-> store[i].best, record |-> i] : i \in S}

-----------------------------------------------------------------------------
(* The answer.                                                             *)

clamp_burst(n) == Between(n, 1, 100)

\* _validate_predicted_bursts: of each visible process its last usable hint.
validate_predicted_bursts(items, visible) ==
  LET usable == {i \in DOMAIN items : UsableEntry(items[i]) /\ items[i].pid.int \in visible}
      pids == {items[i].pid.int : i \in usable}
      order == SetToSortSeq(pids, <)
      Latest(pid) == Largest({i \in usable : items[i].pid.int = pid})
  IN  [n \in DOMAIN order |->
         [pid |-> Num(order[n]), burst |-> Num(clamp_burst(items[Latest(order[n])].burst.int))]]

\* validate: the answers that end the run with an error.
Refused(answer) ==
  \/ answer.algorithm = NONE
  \/ normalize_algo(answer.algorithm) \notin SUPPORTED_ALGORITHMS
  \/ ~answer.reason
  \/ answer.params.shape = "not_an_object"

\* What is left of the others.  run_advise gives the metric its canonical name.
validate(answer, summary) ==
  LET visible == {summary.visible_processes[i].pid : i \in DOMAIN summary.visible_processes}
      metric == IF answer.target_metric = NONE THEN "unspecified" ELSE answer.target_metric
  IN  [answer EXCEPT
        !.algorithm = normalize_algo(@),
        !.target_metric = IF metric = "unspecified" THEN metric ELSE normalize_target_metric(metric),
        !.predicted_bursts = validate_predicted_bursts(@, visible)]

\* recommend_from_intent: nothing is checked, and no process was seen.
recommend_from_intent(answer) ==
  [answer EXCEPT
    !.algorithm = IF @ = "Priority" THEN "PRIORITY" ELSE @,
    !.params = IF @.shape = "object" THEN @ ELSE [shape |-> "object", of |-> << >>],
    !.predicted_bursts = << >>]

-----------------------------------------------------------------------------
(* Feedback.  A line of the model's answer is [rule, fold, bullet, long]:  *)
(* the text, the text without case, whether it is a bullet and long enough.*)

parse_rules_from_markdown(lines) == SelectSeq(lines, LAMBDA l : l.bullet /\ l.long)

Keys(rules) == {rules[i].fold : i \in DOMAIN rules}

dedupe_keep_order(rules) ==
  LET firsts == SelectSeq([i \in DOMAIN rules |-> i],
                  LAMBDA i : \A j \in 1..i - 1 : rules[j].fold # rules[i].fold)
  IN  [n \in DOMAIN firsts |-> rules[firsts[n]]]

\* run_feedback: only after a failure, only what is new, the newest MAX_RULES.
run_feedback(rules, judgment, lines) ==
  LET fresh == SelectSeq(parse_rules_from_markdown(lines),
                         LAMBDA l : l.fold \notin Keys(rules))
      combined == dedupe_keep_order(rules \o fresh)
      over == Len(combined) - MAX_RULES
  IN  IF judgment # "FAIL" \/ fresh = << >> THEN rules
      ELSE SubSeq(combined, (IF over > 0 THEN over ELSE 0) + 1, Len(combined))
=============================================================================
