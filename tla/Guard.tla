------------------------------- MODULE Guard -------------------------------
(***************************************************************************)
(* tools/algorithm_guard.py and the name tables of tools/schema_compat.py: *)
(* what the host accepts of a recommendation and what it puts in its       *)
(* place.  A field of the recommendation that JSON may give any type is    *)
(* Num(n), Lst(q), Other or Absent; an absent word is NONE.  Scores and    *)
(* confidences are in percent.                                             *)
(***************************************************************************)
EXTENDS Integers, Sequences

NONE == "none"

Num(n) == [int |-> n]
Lst(q) == [list |-> q]
Other == [other |-> TRUE]
Absent == [absent |-> TRUE]
IsNum(v) == "int" \in DOMAIN v
IsLst(v) == "list" \in DOMAIN v

\* The values that parameters may have.
JsonParams(params) ==
  \A k \in DOMAIN params :
    LET v == params[k]
    IN  /\ IsNum(v) => ~IsLst(v) /\ v.int \in Int
        /\ IsLst(v) => v.list \in Seq(Int)

CANONICAL_ALGOS == <<"RR", "FCFS", "PRIORITY", "MLFQ", "SJF", "SRTF">>
SUPPORTED_ALGORITHMS == {CANONICAL_ALGOS[i] : i \in DOMAIN CANONICAL_ALGOS}
PREDICTOR_ALGORITHMS == {"SJF", "SRTF"}
SUPPORTED_METRICS == {"response_time", "turnaround_time", "waiting_time",
                      "throughput", "starvation", "fairness"}

-----------------------------------------------------------------------------
(* Names.  A spelling is one of the canonical names, the display form of   *)
(* Priority, a lower-case form, or a word no table knows.                  *)

normalize_algo(name) ==
  CASE name = NONE -> "RR"
    [] name \in {"Priority", "priority"} -> "PRIORITY"
    [] name = "mlfq" -> "MLFQ"
    [] OTHER -> name

normalize_algorithm_name(name) ==
  LET canon == normalize_algo(name)
  IN  IF canon = "PRIORITY" THEN "Priority"
      ELSE IF canon \in SUPPORTED_ALGORITHMS THEN canon ELSE name

\* METRIC_ALIASES of the guard: the words that stand for a supported metric.
METRIC_ALIASES ==
  [avg_response_time |-> "response_time", avg_turnaround_time |-> "turnaround_time",
   avg_waiting_time |-> "waiting_time", avg_starvation |-> "starvation",
   response |-> "response_time", turnaround |-> "turnaround_time",
   waiting |-> "waiting_time", fair |-> "fairness"]

normalize_metric(word) ==
  LET metric == IF word \in DOMAIN METRIC_ALIASES THEN METRIC_ALIASES[word] ELSE word
  IN  IF metric \in SUPPORTED_METRICS THEN metric ELSE NONE

\* The canonical key the dashboard and the orchestrator compare by.
normalize_target_metric(word) ==
  CASE word = NONE -> "avg_response_time"
    [] word \in {"response_time", "response"} -> "avg_response_time"
    [] word \in {"waiting_time", "waiting"} -> "avg_waiting_time"
    [] word \in {"turnaround_time", "turnaround"} -> "avg_turnaround_time"
    [] word \in {"starvation", "avg_starvation"} -> "starvation_occurred"
    [] OTHER -> word

get_guard_algorithm(dec) == normalize_algo(dec.scheduling_algorithm)

-----------------------------------------------------------------------------
(* Tables.                                                                 *)

COMPATIBILITY_MATRIX ==
  [FCFS |-> [response_time |-> 20, turnaround_time |-> 50, waiting_time |-> 30,
             throughput |-> 80, starvation |-> 90, fairness |-> 40],
   RR |-> [response_time |-> 90, turnaround_time |-> 70, waiting_time |-> 70,
           throughput |-> 80, starvation |-> 95, fairness |-> 95],
   PRIORITY |-> [response_time |-> 70, turnaround_time |-> 60, waiting_time |-> 70,
                 throughput |-> 60, starvation |-> 20, fairness |-> 20],
   MLFQ |-> [response_time |-> 95, turnaround_time |-> 80, waiting_time |-> 90,
             throughput |-> 85, starvation |-> 95, fairness |-> 70],
   SJF |-> [response_time |-> 80, turnaround_time |-> 95, waiting_time |-> 95,
            throughput |-> 80, starvation |-> 50, fairness |-> 30],
   SRTF |-> [response_time |-> 95, turnaround_time |-> 95, waiting_time |-> 95,
             throughput |-> 85, starvation |-> 50, fairness |-> 30]]

COMPAT_REJECT_THRESHOLD == 40
COMPAT_WARN_THRESHOLD == 60
CONFIDENCE_WARN_THRESHOLD == 50
MLFQ_QUANTUM_RANGE == 1..100

MAX_TICKS == 10000
MAX_BURST == 100000

PREDICTOR_RANGES == [alpha_percent |-> 0..100, initial |-> 1..MAX_BURST,
                     min |-> 1..MAX_BURST, max |-> 1..MAX_BURST]

PARAM_RANGES ==
  [FCFS |-> [x \in {} |-> {}],
   RR |-> [quantum |-> 1..100],
   PRIORITY |-> [aging_threshold |-> 1..MAX_TICKS],
   MLFQ |-> [queues |-> 2..5, aging_threshold |-> 1..MAX_TICKS, boost_interval |-> 10..MAX_TICKS],
   SJF |-> PREDICTOR_RANGES,
   SRTF |-> PREDICTOR_RANGES]

PREDICTOR_DEFAULTS == [alpha_percent |-> 50, initial |-> 10, min |-> 1, max |-> 100]

\* _default_mlfq_quantum: slices that double from level to level.
default_mlfq_quantum(queues) ==
  [i \in 1..queues |-> CASE i = 1 -> 2 [] i = 2 -> 4 [] i = 3 -> 8 [] i = 4 -> 16 [] OTHER -> 32]

DEFAULT_PARAMS ==
  [FCFS |-> [x \in {} |-> 0],
   RR |-> [quantum |-> 10],
   PRIORITY |-> [aging_threshold |-> 100],
   MLFQ |-> [queues |-> 3, quantum |-> default_mlfq_quantum(3),
             aging_threshold |-> 100, boost_interval |-> 100],
   SJF |-> PREDICTOR_DEFAULTS,
   SRTF |-> PREDICTOR_DEFAULTS]

FALLBACK_BY_METRIC ==
  [response_time |-> "MLFQ", turnaround_time |-> "MLFQ", waiting_time |-> "MLFQ",
   throughput |-> "RR", starvation |-> "MLFQ", fairness |-> "RR"]

-----------------------------------------------------------------------------
(* Layers 1 to 4.                                                          *)

\* Required fields and their types.  The algorithm and the metric are words
\* or Other, the reason says whether there is a non-empty one.
validate_schema(rec) ==
  /\ rec.algorithm \notin {NONE, "not_a_string"}
  /\ rec.reason
  /\ rec.target_metric # "not_a_string"
  /\ \/ rec.confidence = Absent
     \/ IsNum(rec.confidence) /\ rec.confidence.int \in 0..100

Supported(rec) == normalize_algo(rec.algorithm) \in SUPPORTED_ALGORITHMS

\* check_metric: an unknown metric is "unspecified" and never rejects.
check_metric(rec) ==
  LET metric == normalize_metric(rec.target_metric)
  IN  IF metric = NONE THEN "unspecified" ELSE metric

compatibility_score(algo, metric) ==
  IF metric = "unspecified" THEN 50 ELSE COMPATIBILITY_MATRIX[algo][metric]

choose_fallback(word, current) ==
  IF word \in DOMAIN FALLBACK_BY_METRIC /\ FALLBACK_BY_METRIC[word] # current
  THEN FALLBACK_BY_METRIC[word] ELSE "RR"

-----------------------------------------------------------------------------
(* Layer 6: parameters.  A value that is missing, of the wrong type or out *)
(* of range is replaced by the default.                                    *)

\* Mutant: a number is enough, whatever its range.
ParamOkUnranged(algo, params, k) == k \in DOMAIN params /\ IsNum(params[k])

ParamOk(algo, params, k) ==
  /\ k \in DOMAIN params
  /\ IsNum(params[k])
  /\ params[k].int \in PARAM_RANGES[algo][k]

Given(algo, params, k) ==
  IF ParamOk(algo, params, k) THEN params[k].int ELSE DEFAULT_PARAMS[algo][k]

Ranged(algo, params) == [k \in DOMAIN PARAM_RANGES[algo] |-> Given(algo, params, k)]

MlfqQuantumOk(params, queues) ==
  /\ "quantum" \in DOMAIN params
  /\ IsLst(params["quantum"])
  /\ Len(params["quantum"].list) = queues
  /\ \A i \in 1..queues : params["quantum"].list[i] \in MLFQ_QUANTUM_RANGE

MlfqParams(params) ==
  LET r == Ranged("MLFQ", params)
  IN  [queues |-> r.queues, aging_threshold |-> r.aging_threshold,
       boost_interval |-> r.boost_interval,
       quantum |-> IF MlfqQuantumOk(params, r.queues) THEN params["quantum"].list
                   ELSE default_mlfq_quantum(r.queues)]

Between(n, lo, hi) == IF n < lo THEN lo ELSE IF n > hi THEN hi ELSE n

PredictorParams(algo, params) ==
  LET r == Ranged(algo, params)
      lo == IF r.min > r.max THEN PREDICTOR_DEFAULTS.min ELSE r.min
      hi == IF r.min > r.max THEN PREDICTOR_DEFAULTS.max ELSE r.max
  IN  [alpha_percent |-> r.alpha_percent, min |-> lo, max |-> hi,
       initial |-> Between(r.initial, lo, hi)]

\* rec.params is a function from the names given to their values, NONE, or
\* "not_an_object".
ParamsGiven(rec) ==
  IF rec.params.shape = "object" THEN rec.params.of ELSE [x \in {} |-> Other]

normalize_params(algo, rec) ==
  LET params == ParamsGiven(rec)
  IN  CASE algo = "FCFS" -> DEFAULT_PARAMS.FCFS
        [] algo = "MLFQ" -> MlfqParams(params)
        [] algo \in PREDICTOR_ALGORITHMS -> PredictorParams(algo, params)
        [] OTHER -> Ranged(algo, params)

\* Whether normalize_params has anything to say: a name it does not know, a
\* value it replaces, a cross-field rule it applies.
ParamsWarn(algo, rec) ==
  LET params == ParamsGiven(rec)
      known == DOMAIN PARAM_RANGES[algo]
      ranged == Ranged(algo, params)
  IN  \/ rec.params.shape = "not_an_object"
      \/ \E k \in DOMAIN params : ~(algo = "MLFQ" /\ k = "quantum")
                                  /\ ~(k \in known /\ ParamOk(algo, params, k))
      \/ algo = "MLFQ" /\ "quantum" \in DOMAIN params /\ ~MlfqQuantumOk(params, ranged.queues)
      \/ algo \in PREDICTOR_ALGORITHMS
         /\ (ranged.min > ranged.max \/ ranged.initial \notin ranged.min..ranged.max)

-----------------------------------------------------------------------------
(* Burst priors.  An entry is [pid, burst]; either may be Other.           *)

GUARD_PB == 1..100

\* _guard_clamp_predicted_bursts: one entry per pid, the last usable one,
\* with its burst brought into 1..100.
UsableEntry(e) == IsNum(e.pid) /\ IsNum(e.burst)

LastOf(bursts, pid) ==
  CHOOSE i \in DOMAIN bursts :
    /\ UsableEntry(bursts[i]) /\ bursts[i].pid.int = pid
    /\ \A j \in i+1..Len(bursts) : ~(UsableEntry(bursts[j]) /\ bursts[j].pid.int = pid)

clamp_predicted_bursts(bursts) ==
  LET pids == {bursts[i].pid.int : i \in {j \in DOMAIN bursts : UsableEntry(bursts[j])}}
  IN  [pid \in pids |-> Between(bursts[LastOf(bursts, pid)].burst.int, 1, 100)]

BurstsWarn(bursts) ==
  \E i \in DOMAIN bursts :
    \/ ~IsNum(bursts[i].pid)
    \/ UsableEntry(bursts[i]) /\ bursts[i].burst.int \notin GUARD_PB

-----------------------------------------------------------------------------
(* The decision.                                                           *)

Rejected(algo, metric) ==
  metric # "unspecified" /\ compatibility_score(algo, metric) < COMPAT_REJECT_THRESHOLD

\* decide and the warnings guard adds to it.
Warned(rec, algo, metric) ==
  \/ metric = "unspecified"
  \/ compatibility_score(algo, metric) < COMPAT_WARN_THRESHOLD
  \/ rec.confidence = Absent
  \/ rec.confidence.int < CONFIDENCE_WARN_THRESHOLD
  \/ ParamsWarn(algo, rec)
  \/ BurstsWarn(rec.predicted_bursts)
  \/ algo \in PREDICTOR_ALGORITHMS /\ DOMAIN clamp_predicted_bursts(rec.predicted_bursts) = {}

decide(rec, algo, metric) ==
  IF Rejected(algo, metric) THEN "rejected"
  ELSE IF Warned(rec, algo, metric) THEN "accepted_with_warning" ELSE "accepted"

\* _add_compat_keys: the name the dashboard shows and the orchestrator runs.
add_compat_keys(result, algo, fallback, params, priors) ==
  [guard_result |-> result, algorithm |-> algo, fallback_algorithm |-> fallback,
   scheduling_algorithm |->
     normalize_algorithm_name(IF fallback # NONE THEN fallback ELSE algo),
   fallback_used |-> fallback # NONE,
   params |-> params, predicted_bursts |-> priors]

Fallen(algo, fallback, priors) ==
  add_compat_keys("rejected", algo, fallback, DEFAULT_PARAMS[fallback], priors)

NoPriors == [x \in {} |-> 0]

guard(rec) ==
  IF ~validate_schema(rec) THEN Fallen(rec.algorithm, "RR", NoPriors)
  ELSE IF ~Supported(rec)
  THEN Fallen(rec.algorithm,
              choose_fallback(IF rec.target_metric = NONE THEN "response_time"
                              ELSE rec.target_metric, rec.algorithm), NoPriors)
  ELSE LET algo == normalize_algo(rec.algorithm)
           metric == check_metric(rec)
           priors == clamp_predicted_bursts(rec.predicted_bursts)
       IN  IF Rejected(algo, metric)
           THEN Fallen(algo, choose_fallback(metric, algo), priors)
           ELSE add_compat_keys(decide(rec, algo, metric), algo, NONE,
                                normalize_params(algo, rec), priors)
=============================================================================
