---------------------------- MODULE GuardProofs ----------------------------
(***************************************************************************)
(* What tools/algorithm_guard.py lets through, for every recommendation a  *)
(* model may give: an algorithm xv6 has, parameters in their ranges and    *)
(* burst priors the kernel takes; and what tools/correction_guard.py says  *)
(* of the corrections tools/correction_proposer.py makes of it.            *)
(***************************************************************************)
EXTENDS Correction, WellFoundedInduction, TLAPS

-----------------------------------------------------------------------------
(* What is to be shown.                                                    *)

\* The lists among the parameters are lists of integers.
IntegerLists(params) ==
  \A k \in DOMAIN params : IsLst(params[k]) => params[k].list \in Seq(Int)

\* The parameters of an algorithm, every one in its range, and the rules between them.
InRange(algo, params) ==
  CASE algo = "FCFS" -> DOMAIN params = {}
    [] algo = "RR" -> params.quantum \in 1..100
    [] algo = "PRIORITY" -> params.aging_threshold \in 1..MAX_TICKS
    [] algo = "MLFQ" -> /\ params.queues \in 2..5
                        /\ params.quantum \in [1..params.queues -> 1..100]
                        /\ params.aging_threshold \in 1..MAX_TICKS
                        /\ params.boost_interval \in 10..MAX_TICKS
    [] OTHER -> /\ params.alpha_percent \in 0..100
                /\ {params.initial, params.min, params.max} \subseteq 1..MAX_BURST
                /\ params.min <= params.initial /\ params.initial <= params.max

-----------------------------------------------------------------------------
(* Parameters.                                                             *)

LEMMA Algorithms == SUPPORTED_ALGORITHMS = {"RR", "FCFS", "PRIORITY", "MLFQ", "SJF", "SRTF"}
BY DEF SUPPORTED_ALGORITHMS, CANONICAL_ALGOS

LEMMA Bounds == MAX_TICKS \in Int /\ MAX_TICKS >= 1000 /\ MAX_BURST \in Int /\ MAX_BURST >= 1000
BY SMT DEF MAX_TICKS, MAX_BURST

LEMMA Ranges ==
  /\ PARAM_RANGES["FCFS"] = [x \in {} |-> {}]
  /\ PARAM_RANGES["RR"] = [quantum |-> 1..100]
  /\ PARAM_RANGES["PRIORITY"] = [aging_threshold |-> 1..MAX_TICKS]
  /\ PARAM_RANGES["MLFQ"] = [queues |-> 2..5, aging_threshold |-> 1..MAX_TICKS,
                            boost_interval |-> 10..MAX_TICKS]
  /\ PARAM_RANGES["SJF"] = PREDICTOR_RANGES
  /\ PARAM_RANGES["SRTF"] = PREDICTOR_RANGES
BY DEF PARAM_RANGES

LEMMA Defaults ==
  /\ DEFAULT_PARAMS["RR"] = [quantum |-> 10]
  /\ DEFAULT_PARAMS["PRIORITY"] = [aging_threshold |-> 100]
  /\ DEFAULT_PARAMS["MLFQ"] = [queues |-> 3, quantum |-> default_mlfq_quantum(3),
                              aging_threshold |-> 100, boost_interval |-> 100]
  /\ DEFAULT_PARAMS["SJF"] = PREDICTOR_DEFAULTS
  /\ DEFAULT_PARAMS["SRTF"] = PREDICTOR_DEFAULTS
BY DEF DEFAULT_PARAMS

LEMMA PredictorTables ==
  ASSUME NEW k \in DOMAIN PREDICTOR_RANGES
  PROVE  PREDICTOR_DEFAULTS[k] \in PREDICTOR_RANGES[k]
<1>1. k \in {"alpha_percent", "initial", "min", "max"}
  BY SMT DEF PREDICTOR_RANGES
<1>2. PREDICTOR_RANGES["alpha_percent"] = 0..100 /\ PREDICTOR_DEFAULTS["alpha_percent"] = 50
  BY SMT DEF PREDICTOR_RANGES, PREDICTOR_DEFAULTS
<1>3. PREDICTOR_RANGES["initial"] = 1..MAX_BURST /\ PREDICTOR_DEFAULTS["initial"] = 10
  BY SMT DEF PREDICTOR_RANGES, PREDICTOR_DEFAULTS
<1>4. PREDICTOR_RANGES["min"] = 1..MAX_BURST /\ PREDICTOR_DEFAULTS["min"] = 1
  BY SMT DEF PREDICTOR_RANGES, PREDICTOR_DEFAULTS
<1>5. PREDICTOR_RANGES["max"] = 1..MAX_BURST /\ PREDICTOR_DEFAULTS["max"] = 100
  BY SMT DEF PREDICTOR_RANGES, PREDICTOR_DEFAULTS
<1> QED  BY <1>1, <1>2, <1>3, <1>4, <1>5, Bounds, SMT

\* A value that is not in its range is replaced by the default, which is.
LEMMA GivenInRange ==
  ASSUME NEW algo \in SUPPORTED_ALGORITHMS, NEW params, NEW k \in DOMAIN PARAM_RANGES[algo]
  PROVE  Given(algo, params, k) \in PARAM_RANGES[algo][k]
<1>1. CASE ParamOk(algo, params, k)
  BY <1>1 DEF Given, ParamOk
<1>2. CASE ~ParamOk(algo, params, k)
  <2>1. DEFAULT_PARAMS[algo][k] \in PARAM_RANGES[algo][k]
    <3>1. CASE algo = "RR"
      <4>1. PARAM_RANGES[algo] = [quantum |-> 1..100] /\ DEFAULT_PARAMS[algo] = [quantum |-> 10]
        BY <3>1, Ranges, Defaults
      <4> QED  BY <4>1, Bounds, SMT
    <3>2. CASE algo = "PRIORITY"
      <4>1. /\ PARAM_RANGES[algo] = [aging_threshold |-> 1..MAX_TICKS]
            /\ DEFAULT_PARAMS[algo] = [aging_threshold |-> 100]
        BY <3>2, Ranges, Defaults
      <4> QED  BY <4>1, Bounds, SMT
    <3>3. CASE algo = "MLFQ"
      <4>1. /\ PARAM_RANGES[algo] = [queues |-> 2..5, aging_threshold |-> 1..MAX_TICKS,
                                     boost_interval |-> 10..MAX_TICKS]
            /\ DEFAULT_PARAMS[algo] = [queues |-> 3, quantum |-> default_mlfq_quantum(3),
                                       aging_threshold |-> 100, boost_interval |-> 100]
        BY <3>3, Ranges, Defaults
      <4> QED  BY <4>1, Bounds, SMT
    <3>4. CASE algo \in PREDICTOR_ALGORITHMS
      <4>1. PARAM_RANGES[algo] = PREDICTOR_RANGES /\ DEFAULT_PARAMS[algo] = PREDICTOR_DEFAULTS
        BY <3>4, Ranges, Defaults DEF PREDICTOR_ALGORITHMS
      <4> QED  BY <4>1, PredictorTables, SMT
    <3>5. CASE algo = "FCFS"
      <4>1. PARAM_RANGES[algo] = [x \in {} |-> {}]
        BY <3>5, Ranges
      <4> QED  BY <4>1, Bounds, SMT
    <3> QED  BY <3>1, <3>2, <3>3, <3>4, <3>5, Algorithms DEF PREDICTOR_ALGORITHMS
  <2> QED  BY <1>2, <2>1 DEF Given
<1> QED  BY <1>1, <1>2

LEMMA RangedInRange ==
  ASSUME NEW algo \in SUPPORTED_ALGORITHMS, NEW params
  PROVE  \A k \in DOMAIN PARAM_RANGES[algo] :
           Ranged(algo, params)[k] \in PARAM_RANGES[algo][k]
BY GivenInRange, SMT DEF Ranged

LEMMA RrInRange ==
  ASSUME NEW params
  PROVE  InRange("RR", Ranged("RR", params))
<1>1. "quantum" \in DOMAIN PARAM_RANGES["RR"] /\ PARAM_RANGES["RR"]["quantum"] = 1..100
  BY Ranges, SMT
<1>2. "RR" \in SUPPORTED_ALGORITHMS
  BY Algorithms, SMT
<1>3. Ranged("RR", params).quantum \in 1..100
  BY <1>1, <1>2, RangedInRange, SMT
<1> QED  BY <1>3, SMT DEF InRange

LEMMA PriorityInRange ==
  ASSUME NEW params
  PROVE  InRange("PRIORITY", Ranged("PRIORITY", params))
<1>1. /\ "aging_threshold" \in DOMAIN PARAM_RANGES["PRIORITY"]
      /\ PARAM_RANGES["PRIORITY"]["aging_threshold"] = 1..MAX_TICKS
  BY Ranges, SMT
<1>2. "PRIORITY" \in SUPPORTED_ALGORITHMS
  BY Algorithms, SMT
<1> DEFINE r == Ranged("PRIORITY", params)
<1>3. \A k \in DOMAIN PARAM_RANGES["PRIORITY"] : r[k] \in PARAM_RANGES["PRIORITY"][k]
  BY <1>2, RangedInRange, SMT
<1> HIDE DEF r
<1>4. r["aging_threshold"] \in 1..MAX_TICKS
  BY <1>1, <1>3, Zenon
<1> QED  BY <1>4, SMT DEF InRange, r

LEMMA MlfqInRange ==
  ASSUME NEW params, IntegerLists(params)
  PROVE  InRange("MLFQ", MlfqParams(params))
<1> DEFINE r == Ranged("MLFQ", params)
<1>1. /\ {"queues", "aging_threshold", "boost_interval"} \subseteq DOMAIN PARAM_RANGES["MLFQ"]
      /\ PARAM_RANGES["MLFQ"]["queues"] = 2..5
      /\ PARAM_RANGES["MLFQ"]["aging_threshold"] = 1..MAX_TICKS
      /\ PARAM_RANGES["MLFQ"]["boost_interval"] = 10..MAX_TICKS
  BY Ranges, SMT
<1>2. "MLFQ" \in SUPPORTED_ALGORITHMS
  BY Algorithms, SMT
<1>8. \A k \in DOMAIN PARAM_RANGES["MLFQ"] : r[k] \in PARAM_RANGES["MLFQ"][k]
  BY <1>2, RangedInRange, SMT
<1> HIDE DEF r
<1>3. r.queues \in 2..5 /\ r.aging_threshold \in 1..MAX_TICKS /\ r.boost_interval \in 10..MAX_TICKS
  <2>1. r["queues"] \in 2..5
    BY <1>1, <1>8, Zenon
  <2>2. r["aging_threshold"] \in 1..MAX_TICKS
    BY <1>1, <1>8, Zenon
  <2>3. r["boost_interval"] \in 10..MAX_TICKS
    BY <1>1, <1>8, Zenon
  <2> QED  BY <2>1, <2>2, <2>3
<1>4. default_mlfq_quantum(r.queues) \in [1..r.queues -> 1..100]
  BY SMT DEF default_mlfq_quantum
<1>5. ASSUME MlfqQuantumOk(params, r.queues)
      PROVE  params["quantum"].list \in [1..r.queues -> 1..100]
  <2>1. params["quantum"].list \in Seq(Int)
    BY <1>5, SMT DEF MlfqQuantumOk, IntegerLists
  <2> DEFINE l == params["quantum"].list
  <2>2. Len(l) = r.queues /\ \A i \in 1..r.queues : l[i] \in 1..100
    BY <1>5, SMT DEF MlfqQuantumOk, MLFQ_QUANTUM_RANGE
  <2> HIDE DEF l
  <2>3. l \in [1..r.queues -> Int]
    BY <2>1, <2>2, SMT DEF l
  <2>4. l \in [1..r.queues -> 1..100]
    BY <2>2, <2>3, Zenon
  <2> QED  BY <2>4 DEF l
<1> DEFINE q == IF MlfqQuantumOk(params, r.queues) THEN params["quantum"].list
                ELSE default_mlfq_quantum(r.queues)
<1>6. q \in [1..r.queues -> 1..100]
  <2>1. CASE MlfqQuantumOk(params, r.queues)
    BY <1>5, <2>1
  <2>2. CASE ~MlfqQuantumOk(params, r.queues)
    BY <1>4, <2>2
  <2> QED  BY <2>1, <2>2
<1>7. MlfqParams(params) = [queues |-> r.queues, aging_threshold |-> r.aging_threshold,
                            boost_interval |-> r.boost_interval, quantum |-> q]
  BY SMT DEF MlfqParams, r
<1> HIDE DEF q
<1> DEFINE p == MlfqParams(params)
<1>9. p.queues = r.queues /\ p.aging_threshold = r.aging_threshold
      /\ p.boost_interval = r.boost_interval /\ p.quantum = q
  BY <1>7, SMT
<1> HIDE DEF p
<1>10. p.queues \in 2..5 /\ p.quantum \in [1..p.queues -> 1..100]
       /\ p.aging_threshold \in 1..MAX_TICKS /\ p.boost_interval \in 10..MAX_TICKS
  BY <1>3, <1>6, <1>9
<1>11. InRange("MLFQ", p)
  BY <1>10, SMT DEF InRange
<1> QED  BY <1>11 DEF p

LEMMA BetweenLimits ==
  ASSUME NEW n \in Int, NEW lo \in Int, NEW hi \in Int, lo <= hi
  PROVE  Between(n, lo, hi) \in lo..hi
BY SMT DEF Between

LEMMA PredictorInRange ==
  ASSUME NEW algo \in PREDICTOR_ALGORITHMS, NEW params
  PROVE  InRange(algo, PredictorParams(algo, params))
<1> DEFINE r == Ranged(algo, params)
<1>1. algo \in SUPPORTED_ALGORITHMS /\ algo \in {"SJF", "SRTF"}
  BY Algorithms, SMT DEF PREDICTOR_ALGORITHMS
<1>2. PARAM_RANGES[algo] = PREDICTOR_RANGES
  BY <1>1, Ranges, SMT
<1>3. /\ {"alpha_percent", "initial", "min", "max"} \subseteq DOMAIN PREDICTOR_RANGES
      /\ PREDICTOR_RANGES["alpha_percent"] = 0..100 /\ PREDICTOR_RANGES["initial"] = 1..MAX_BURST
      /\ PREDICTOR_RANGES["min"] = 1..MAX_BURST /\ PREDICTOR_RANGES["max"] = 1..MAX_BURST
  BY SMT DEF PREDICTOR_RANGES
<1>8. \A k \in DOMAIN PREDICTOR_RANGES : r[k] \in PREDICTOR_RANGES[k]
  BY <1>1, <1>2, RangedInRange, SMT
<1> HIDE DEF r
<1>4. r.alpha_percent \in 0..100 /\ r.initial \in 1..MAX_BURST
      /\ r.min \in 1..MAX_BURST /\ r.max \in 1..MAX_BURST
  <2>1. r["alpha_percent"] \in 0..100
    BY <1>3, <1>8, Zenon
  <2>2. r["initial"] \in 1..MAX_BURST
    BY <1>3, <1>8, Zenon
  <2>3. r["min"] \in 1..MAX_BURST
    BY <1>3, <1>8, Zenon
  <2>4. r["max"] \in 1..MAX_BURST
    BY <1>3, <1>8, Zenon
  <2> QED  BY <2>1, <2>2, <2>3, <2>4
<1>5. PREDICTOR_DEFAULTS.min = 1 /\ PREDICTOR_DEFAULTS.max = 100
  BY SMT DEF PREDICTOR_DEFAULTS
<1> DEFINE lo == IF r.min > r.max THEN PREDICTOR_DEFAULTS.min ELSE r.min
           hi == IF r.min > r.max THEN PREDICTOR_DEFAULTS.max ELSE r.max
           initial == Between(r.initial, lo, hi)
<1>6. /\ {lo, hi, initial} \subseteq 1..MAX_BURST /\ lo <= initial /\ initial <= hi
  <2>1. lo = IF r.min > r.max THEN 1 ELSE r.min
    BY <1>5
  <2>2. hi = IF r.min > r.max THEN 100 ELSE r.max
    BY <1>5
  <2> HIDE DEF lo, hi
  <2>3. lo \in 1..MAX_BURST /\ hi \in 1..MAX_BURST /\ lo <= hi
    <3>1. CASE r.min > r.max
      BY <1>4, <2>1, <2>2, <3>1, Bounds, SMT
    <3>2. CASE ~(r.min > r.max)
      BY <1>4, <2>1, <2>2, <3>2, Bounds, SMT
    <3> QED  BY <3>1, <3>2
  <2>4. initial \in lo..hi
    <3>1. r.initial \in Int /\ lo \in Int /\ hi \in Int
      BY <1>4, <2>3, Bounds, SMT
    <3> QED  BY <2>3, <3>1, BetweenLimits, Zenon
  <2> HIDE DEF initial
  <2> QED  BY <2>3, <2>4, Bounds, SMT
<1>7. PredictorParams(algo, params) = [alpha_percent |-> r.alpha_percent, min |-> lo, max |-> hi,
                                       initial |-> initial]
  BY SMT DEF PredictorParams, r
<1> HIDE DEF lo, hi, initial
<1> QED  BY <1>1, <1>4, <1>6, <1>7, SMT DEF InRange

\* What normalize_params gives xv6 is in range, whatever the recommendation holds.
THEOREM ParamsInRange ==
  ASSUME NEW algo \in SUPPORTED_ALGORITHMS, NEW rec, IntegerLists(ParamsGiven(rec))
  PROVE  InRange(algo, normalize_params(algo, rec))
<1> DEFINE params == ParamsGiven(rec)
<1>1. CASE algo = "FCFS"
  <2>1. normalize_params("FCFS", rec) = DEFAULT_PARAMS["FCFS"]
    BY SMT DEF normalize_params, PREDICTOR_ALGORITHMS
  <2>2. DOMAIN DEFAULT_PARAMS["FCFS"] = {}
    BY SMT DEF DEFAULT_PARAMS
  <2>3. InRange("FCFS", normalize_params("FCFS", rec))
    BY <2>1, <2>2 DEF InRange
  <2> QED  BY <1>1, <2>3
<1>2. CASE algo = "MLFQ"
  <2>1. normalize_params("MLFQ", rec) = MlfqParams(params)
    BY SMT DEF normalize_params, PREDICTOR_ALGORITHMS
  <2> QED  BY <1>2, <2>1, MlfqInRange, SMT
<1>3. CASE algo = "RR"
  <2>1. normalize_params("RR", rec) = Ranged("RR", params)
    BY SMT DEF normalize_params, PREDICTOR_ALGORITHMS
  <2> QED  BY <1>3, <2>1, RrInRange, SMT
<1>4. CASE algo = "PRIORITY"
  <2>1. normalize_params("PRIORITY", rec) = Ranged("PRIORITY", params)
    BY SMT DEF normalize_params, PREDICTOR_ALGORITHMS
  <2> QED  BY <1>4, <2>1, PriorityInRange, SMT
<1>5. CASE algo \in PREDICTOR_ALGORITHMS
  <2>1. normalize_params(algo, rec) = PredictorParams(algo, params)
    BY <1>5, SMT DEF normalize_params, PREDICTOR_ALGORITHMS
  <2> QED  BY <1>5, <2>1, PredictorInRange, SMT
<1> QED  BY <1>1, <1>2, <1>3, <1>4, <1>5, Algorithms, SMT DEF PREDICTOR_ALGORITHMS

-----------------------------------------------------------------------------
(* Burst priors.                                                           *)

\* Of the positions of a sequence that have a property, one is the last.
LEMMA LastExists ==
  ASSUME NEW n \in Nat, NEW T, T \subseteq 1..n, T # {}
  PROVE  \E i \in T : \A j \in T : j <= i
<1> DEFINE U == {n - i : i \in T}
           Less == {xy \in Nat \X Nat : xy[1] < xy[2]}
<1>1. U \subseteq Nat /\ U # {}
  <2>1. \A i \in T : n - i \in Nat
    <3> SUFFICES ASSUME NEW i \in T PROVE n - i \in Nat
      OBVIOUS
    <3>1. i \in 1..n
      BY Zenon
    <3> QED  BY <3>1, SMT
  <2> QED  BY <2>1, Zenon
<1>2. IsWellFoundedOn(Less, Nat)
  BY NatLessThanWellFounded, Zenon DEF OpToRel
<1>3. PICK u \in U : \A v \in U : <<v, u>> \notin Less
  BY <1>1, <1>2, WFMin, Zenon
<1>4. PICK i \in T : u = n - i
  BY <1>3
<1>5. ASSUME NEW j \in T PROVE j <= i
  <2>1. <<n - j, n - i>> \notin Less
    BY <1>3, <1>4
  <2> QED  BY <1>1, <2>1, SMT
<1> QED  BY <1>5

\* What holds of 0, and of k + 1 when it holds of k, up to n.
LEMMA UpTo ==
  ASSUME NEW n \in Nat, NEW D, D \subseteq 0..n, 0 \in D,
         \A k \in 0..n : k \in D /\ k + 1 <= n => k + 1 \in D
  PROVE  D = 0..n
<1> DEFINE T == {k \in 1..n + 1 : \A j \in 0..k - 1 : j \in D}
<1>1. 1 \in T
  <2>1. \A j \in 0..1 - 1 : j = 0
    OBVIOUS
  <2> QED  BY <2>1
<1>2. PICK k \in T : \A j \in T : j <= k
  <2>1. T \subseteq 1..n + 1 /\ T # {} /\ n + 1 \in Nat
    BY <1>1
  <2> HIDE DEF T
  <2> QED  BY <2>1, LastExists
<1>3. k \in 1..n + 1 /\ \A j \in 0..k - 1 : j \in D
  OBVIOUS
<1>4. ASSUME k # n + 1 PROVE FALSE
  <2>1. k \in 1..n /\ k - 1 \in 0..n /\ k - 1 \in D
    BY <1>3, <1>4
  <2>2. k \in D
    BY <2>1
  <2>3. \A j \in 0..(k + 1) - 1 : j \in 0..k - 1 \/ j = k
    BY <2>1
  <2>4. k + 1 \in T
    BY <1>3, <2>1, <2>2, <2>3
  <2> HIDE DEF T
  <2> QED  BY <1>2, <2>1, <2>4
<1>5. \A j \in 0..(n + 1) - 1 : j \in D
  BY <1>3, <1>4
<1>6. \A j \in 0..n : j \in 0..(n + 1) - 1
  OBVIOUS
<1> HIDE DEF T
<1> QED  BY <1>5, <1>6

\* Every prior that leaves the guard is one setbursthint() does not clamp: 1..100.
THEOREM PriorsInRange ==
  ASSUME NEW bursts, NEW n \in Nat, DOMAIN bursts = 1..n, Len(bursts) = n,
         \A i \in 1..n : IsNum(bursts[i].burst) => bursts[i].burst.int \in Int,
         NEW pid \in DOMAIN clamp_predicted_bursts(bursts)
  PROVE  clamp_predicted_bursts(bursts)[pid] \in GUARD_PB
<1> DEFINE T == {i \in 1..n : UsableEntry(bursts[i]) /\ bursts[i].pid.int = pid}
           last == LastOf(bursts, pid)
<1>1. T # {}
  BY SMT DEF clamp_predicted_bursts
<1>2. PICK i \in T : \A j \in T : j <= i
  BY <1>1, LastExists, Zenon
<1>3. \E k \in DOMAIN bursts :
        /\ UsableEntry(bursts[k]) /\ bursts[k].pid.int = pid
        /\ \A j \in k+1..Len(bursts) : ~(UsableEntry(bursts[j]) /\ bursts[j].pid.int = pid)
  <2>1. ASSUME NEW j \in i+1..n PROVE j \notin T
    BY <1>2, SMT
  <2> QED  BY <1>2, <2>1, SMT
<1>4. last \in 1..n /\ UsableEntry(bursts[last])
  BY <1>3, Zenon DEF LastOf
<1> HIDE DEF last
<1>5. bursts[last].burst.int \in Int
  BY <1>4, Zenon DEF UsableEntry
<1>6. clamp_predicted_bursts(bursts)[pid] = Between(bursts[last].burst.int, 1, 100)
  BY Zenon DEF clamp_predicted_bursts, last
<1>7. Between(bursts[last].burst.int, 1, 100) \in 1..100
  <2>1. \A m \in Int : Between(m, 1, 100) \in 1..100
    BY SMT DEF Between
  <2> QED  BY <1>5, <2>1, Zenon
<1> QED  BY <1>6, <1>7, Zenon DEF GUARD_PB

-----------------------------------------------------------------------------
(* The decision.                                                           *)

\* The name the dashboard shows is read back as the algorithm it stands for.
LEMMA NamesReadBack ==
  ASSUME NEW algo \in SUPPORTED_ALGORITHMS
  PROVE  normalize_algo(normalize_algorithm_name(algo)) = algo
BY Algorithms, SMT DEF normalize_algo, normalize_algorithm_name, NONE

LEMMA FallbackKnown ==
  ASSUME NEW word, NEW current
  PROVE  choose_fallback(word, current) \in {"MLFQ", "RR"}
<1>1. \A w \in DOMAIN FALLBACK_BY_METRIC : FALLBACK_BY_METRIC[w] \in {"MLFQ", "RR"}
  BY SMT DEF FALLBACK_BY_METRIC
<1> QED  BY <1>1, SMT DEF choose_fallback

LEMMA FallbackInRange ==
  ASSUME NEW fallback \in {"MLFQ", "RR"}
  PROVE  InRange(fallback, DEFAULT_PARAMS[fallback])
<1>1. CASE fallback = "RR"
  <2>1. DEFAULT_PARAMS["RR"].quantum = 10
    BY Defaults, SMT
  <2>2. InRange("RR", DEFAULT_PARAMS["RR"])
    BY <2>1, SMT DEF InRange
  <2> QED  BY <1>1, <2>2
<1>2. CASE fallback = "MLFQ"
  <2> DEFINE p == DEFAULT_PARAMS["MLFQ"]
  <2>1. p.queues = 3 /\ p.quantum = default_mlfq_quantum(3)
        /\ p.aging_threshold = 100 /\ p.boost_interval = 100
    BY Defaults, SMT
  <2>2. default_mlfq_quantum(3) \in [1..3 -> 1..100]
    BY SMT DEF default_mlfq_quantum
  <2> HIDE DEF p
  <2>3. p.queues \in 2..5 /\ p.aging_threshold \in 1..MAX_TICKS /\ p.boost_interval \in 10..MAX_TICKS
    BY <2>1, Bounds, SMT
  <2>4. p.quantum \in [1..p.queues -> 1..100]
    BY <2>1, <2>2
  <2>5. InRange("MLFQ", p)
    BY <2>3, <2>4, SMT DEF InRange
  <2> QED  BY <1>2, <2>5 DEF p
<1> QED  BY <1>1, <1>2

\* What guard returns is one of two things: a fallback, or the recommendation's
\* algorithm with its parameters.
LEMMA GuardCases ==
  ASSUME NEW rec
  PROVE  \/ \E algo, priors : \E fallback \in {"MLFQ", "RR"} :
              guard(rec) = Fallen(algo, fallback, priors)
         \/ /\ Supported(rec)
            /\ \E result, priors :
                 LET algo == normalize_algo(rec.algorithm)
                 IN  guard(rec) = add_compat_keys(result, algo, NONE,
                                                  normalize_params(algo, rec), priors)
<1>1. CASE ~validate_schema(rec)
  <2>1. guard(rec) = Fallen(rec.algorithm, "RR", NoPriors)
    BY <1>1, Zenon DEF guard
  <2> QED  BY <2>1
<1>2. CASE validate_schema(rec) /\ ~Supported(rec)
  <2> DEFINE word == IF rec.target_metric = NONE THEN "response_time" ELSE rec.target_metric
             f == choose_fallback(word, rec.algorithm)
  <2>1. guard(rec) = Fallen(rec.algorithm, f, NoPriors)
    BY <1>2, Zenon DEF guard
  <2>2. f \in {"MLFQ", "RR"}
    BY FallbackKnown
  <2> QED  BY <2>1, <2>2
<1>3. CASE validate_schema(rec) /\ Supported(rec)
  <2> DEFINE algo == normalize_algo(rec.algorithm)
             metric == check_metric(rec)
             priors == clamp_predicted_bursts(rec.predicted_bursts)
             f == choose_fallback(metric, algo)
  <2>1. f \in {"MLFQ", "RR"}
    BY FallbackKnown
  <2>2. \/ guard(rec) = Fallen(algo, f, priors)
        \/ guard(rec) = add_compat_keys(decide(rec, algo, metric), algo, NONE,
                                        normalize_params(algo, rec), priors)
    BY <1>3, Zenon DEF guard
  <2> QED  BY <1>3, <2>1, <2>2
<1> QED  BY <1>1, <1>2, <1>3

\* Whatever is recommended, what the orchestrator runs is an algorithm xv6 has.
LEMMA GuardKnown ==
  ASSUME NEW rec
  PROVE  get_guard_algorithm(guard(rec)) \in SUPPORTED_ALGORITHMS
<1> DEFINE d == guard(rec)
<1>1. \E algo \in SUPPORTED_ALGORITHMS : d.scheduling_algorithm = normalize_algorithm_name(algo)
  <2>1. CASE \E algo, priors : \E fallback \in {"MLFQ", "RR"} : d = Fallen(algo, fallback, priors)
    <3>1. PICK fallback \in {"MLFQ", "RR"} : \E algo, priors : d = Fallen(algo, fallback, priors)
      BY <2>1
    <3> HIDE DEF d
    <3>2. d.scheduling_algorithm = normalize_algorithm_name(fallback)
      BY <3>1, SMT DEF Fallen, add_compat_keys, NONE
    <3> QED  BY <3>2, Algorithms
  <2>2. CASE Supported(rec)
             /\ \E result, params, priors :
                  d = add_compat_keys(result, normalize_algo(rec.algorithm), NONE, params, priors)
    <3> DEFINE algo == normalize_algo(rec.algorithm)
    <3> HIDE DEF d, algo
    <3>1. d.scheduling_algorithm = normalize_algorithm_name(algo)
      BY <2>2, SMT DEF add_compat_keys, algo
    <3> QED  BY <2>2, <3>1 DEF Supported, algo
  <2> QED  BY <2>1, <2>2, GuardCases
<1> HIDE DEF d
<1> QED  BY <1>1, NamesReadBack, Zenon DEF get_guard_algorithm, d

\* Whatever is recommended, it is run with parameters in their ranges: the
\* recommendation's, corrected, or a fallback with the safe defaults.
THEOREM GuardedRuns ==
  ASSUME NEW rec, IntegerLists(ParamsGiven(rec))
  PROVE  LET algo == get_guard_algorithm(guard(rec))
         IN  algo \in SUPPORTED_ALGORITHMS /\ InRange(algo, guard(rec).params)
<1> DEFINE d == guard(rec)
<1>1. ASSUME NEW algo \in SUPPORTED_ALGORITHMS, NEW params, InRange(algo, params),
             d.scheduling_algorithm = normalize_algorithm_name(algo), d.params = params
      PROVE  InRange(get_guard_algorithm(d), d.params)
  <2>1. get_guard_algorithm(d) = algo
    BY <1>1, NamesReadBack, Zenon DEF get_guard_algorithm
  <2> QED  BY <1>1, <2>1
<1>2. ASSUME NEW algo, NEW fallback \in {"MLFQ", "RR"}, NEW priors,
             d = Fallen(algo, fallback, priors)
      PROVE  InRange(get_guard_algorithm(d), d.params)
  <2>1. fallback \in SUPPORTED_ALGORITHMS
    BY Algorithms, SMT
  <2> HIDE DEF d
  <2>2. d.params = DEFAULT_PARAMS[fallback]
    BY <1>2, SMT DEF Fallen, add_compat_keys
  <2>3. d.scheduling_algorithm = normalize_algorithm_name(fallback)
    BY <1>2, SMT DEF Fallen, add_compat_keys, NONE
  <2> QED  BY <1>1, <2>1, <2>2, <2>3, FallbackInRange DEF d
<1>3. ASSUME Supported(rec), NEW result, NEW priors,
             d = add_compat_keys(result, normalize_algo(rec.algorithm), NONE,
                                 normalize_params(normalize_algo(rec.algorithm), rec), priors)
      PROVE  InRange(get_guard_algorithm(d), d.params)
  <2> DEFINE algo == normalize_algo(rec.algorithm)
             params == normalize_params(algo, rec)
  <2>1. algo \in SUPPORTED_ALGORITHMS
    BY <1>3 DEF Supported
  <2>2. InRange(algo, params)
    BY <2>1, ParamsInRange
  <2> HIDE DEF d, algo, params
  <2>3. d.params = params /\ d.scheduling_algorithm = normalize_algorithm_name(algo)
    BY <1>3, SMT DEF add_compat_keys, algo, params
  <2> QED  BY <1>1, <2>1, <2>2, <2>3 DEF d
<1>4. InRange(get_guard_algorithm(d), d.params)
  BY <1>2, <1>3, GuardCases, Zenon
<1> QED  BY <1>4, GuardKnown

-----------------------------------------------------------------------------
(* The two guards agree: what correction_proposer.py makes of a            *)
(* recommendation that algorithm_guard.py took as it was is always within  *)
(* what correction_guard.py accepts.                                       *)

AllAccepted(algo, params) == \A k \in DOMAIN params : ParamAccepted(algo, k, params[k])

\* The three kinds of parameters the correction guard tells apart.
LEMMA Accepts ==
  ASSUME NEW algo, NEW k, NEW v
  PROVE  /\ HasSlices(algo, k) /\ check_quantum(v, 1..100) => ParamAccepted(algo, k, v)
         /\ ~HasSlices(algo, k) /\ IsNum(v) /\ v.int \in PARAM_RANGES[algo][k]
              => ParamAccepted(algo, k, v)
         /\ ~HasSlices(algo, k) /\ k \notin DOMAIN PARAM_RANGES[algo] => ParamAccepted(algo, k, v)
<1>1. HasSlices(algo, k) /\ check_quantum(v, 1..100) => ParamAccepted(algo, k, v)
  BY Zenon DEF ParamAccepted, HasSlices, MLFQ_QUANTUM_RANGE
<1>2. ~HasSlices(algo, k) /\ IsNum(v) /\ v.int \in PARAM_RANGES[algo][k]
        => ParamAccepted(algo, k, v)
  BY Zenon DEF ParamAccepted, HasSlices
<1>3. ~HasSlices(algo, k) /\ k \notin DOMAIN PARAM_RANGES[algo] => ParamAccepted(algo, k, v)
  BY Zenon DEF ParamAccepted, HasSlices
<1> QED  BY <1>1, <1>2, <1>3

-----------------------------------------------------------------------------
(* Parameters the guard took.                                              *)

\* What the guard has no warning about the correction guard accepts.
LEMMA UnwarnedAccepted ==
  ASSUME NEW algo \in SUPPORTED_ALGORITHMS, NEW rec, JsonParams(ParamsGiven(rec)),
         ~ParamsWarn(algo, rec)
  PROVE  AllAccepted(algo, ParamsGiven(rec))
<1> DEFINE params == ParamsGiven(rec)
<1> SUFFICES ASSUME NEW k \in DOMAIN params PROVE ParamAccepted(algo, k, params[k])
  BY DEF AllAccepted
<1>1. CASE algo = "MLFQ" /\ k = "quantum"
  <2>1. MlfqQuantumOk(params, Ranged("MLFQ", params).queues)
    BY <1>1, Zenon DEF ParamsWarn
  <2>2. Ranged("MLFQ", params).queues \in 2..5
    <3>1. "MLFQ" \in SUPPORTED_ALGORITHMS /\ "queues" \in DOMAIN PARAM_RANGES["MLFQ"]
          /\ PARAM_RANGES["MLFQ"]["queues"] = 2..5
      BY Algorithms, Ranges, SMT
    <3> QED  BY <3>1, RangedInRange, Zenon
  <2> DEFINE v == params["quantum"]
             n == Ranged("MLFQ", params).queues
  <2>3. IsLst(v) /\ v.list \in Seq(Int) /\ ~IsNum(v)
    BY <1>1, <2>1, Zenon DEF MlfqQuantumOk, JsonParams
  <2>4. Len(v.list) = n /\ \A i \in 1..n : v.list[i] \in 1..100
    BY <2>1, Zenon DEF MlfqQuantumOk, MLFQ_QUANTUM_RANGE
  <2> DEFINE l == v.list
  <2> HIDE DEF v, n, params
  <2>5. l # << >> /\ \A i \in DOMAIN l : l[i] \in 1..100
    <3>1. l \in Seq(Int) /\ Len(l) = n /\ n \in 2..5 /\ \A i \in 1..n : l[i] \in 1..100
      BY <2>2, <2>3, <2>4, Zenon DEF n, params
    <3> HIDE DEF l
    <3>2. DOMAIN l = 1..n /\ l \in [1..n -> Int]
      BY <3>1, SMT
    <3>3. 1 \in DOMAIN l
      BY <2>2, <3>2, SMT DEF n, params
    <3>4. l # << >>
      BY <3>3, SMT
    <3> QED  BY <3>1, <3>2, <3>4, Zenon
  <2>6. check_quantum(v, 1..100)
    BY <2>3, <2>5, Zenon DEF check_quantum, l
  <2>7. ParamAccepted(algo, k, v)
    BY <1>1, <2>6, Accepts, Zenon DEF HasSlices
  <2> QED  BY <1>1, <2>7, Zenon DEF v, params
<1>2. CASE ~(algo = "MLFQ" /\ k = "quantum")
  <2>1. k \in DOMAIN PARAM_RANGES[algo] /\ IsNum(params[k])
        /\ params[k].int \in PARAM_RANGES[algo][k]
    BY <1>2, Zenon DEF ParamsWarn, ParamOk
  <2> HIDE DEF params
  <2>2. CASE HasSlices(algo, k)
    <3>1. PARAM_RANGES["RR"]["quantum"] = 1..100
      BY Ranges, SMT
    <3>2. check_quantum(params[k], 1..100)
      BY <1>2, <2>1, <2>2, <3>1, Zenon DEF check_quantum, HasSlices
    <3> QED  BY <2>2, <3>2, Accepts, Zenon
  <2>3. CASE ~HasSlices(algo, k)
    BY <2>1, <2>3, Accepts, Zenon
  <2> QED  BY <2>2, <2>3
<1> QED  BY <1>1, <1>2

-----------------------------------------------------------------------------
(* One change.                                                             *)

\* A parameter that is accepted may be added or replaced.
LEMMA PutAccepted ==
  ASSUME NEW algo, NEW params, AllAccepted(algo, params),
         NEW k, NEW v, ParamAccepted(algo, k, v)
  PROVE  AllAccepted(algo, Put(params, k, v))
<1> SUFFICES ASSUME NEW x \in DOMAIN Put(params, k, v)
             PROVE  ParamAccepted(algo, x, Put(params, k, v)[x])
  BY DEF AllAccepted
<1>1. x \in DOMAIN params \cup {k} /\ Put(params, k, v)[x] = IF x = k THEN v ELSE params[x]
  BY DEF Put
<1> QED  BY <1>1, Zenon DEF AllAccepted

LEMMA HalvesInt ==
  ASSUME NEW n \in Int
  PROVE  Halves(n) \in Int
BY SMT DEF Halves

\* A quantum that is scaled and brought between the floor and the ceiling is one
\* that every algorithm with a quantum takes.
LEMMA ScaledInRange ==
  ASSUME NEW n \in Int, NEW halves \in {1, 3, 4}
  PROVE  Between(Halves(halves * n), QUANTUM_FLOOR, QUANTUM_CEIL) \in 1..100
<1>1. halves * n \in Int
  BY SMT
<1>2. Halves(halves * n) \in Int
  BY <1>1, HalvesInt, Zenon
<1> DEFINE h == Halves(halves * n)
<1> HIDE DEF h
<1>3. Between(h, 2, 100) \in 1..100
  BY <1>2, SMT DEF Between, h
<1> QED  BY <1>3 DEF h, QUANTUM_FLOOR, QUANTUM_CEIL

\* Whatever the algorithm, a number that is a quantum is accepted as one.
LEMMA NumQuantumAccepted ==
  ASSUME NEW algo \in SUPPORTED_ALGORITHMS, NEW n \in 1..100
  PROVE  ParamAccepted(algo, "quantum", Num(n))
<1>1. IsNum(Num(n)) /\ Num(n).int = n
  BY SMT DEF IsNum, Num
<1>2. CASE algo \in {"RR", "MLFQ"}
  <2>1. check_quantum(Num(n), 1..100)
    BY <1>1, Zenon DEF check_quantum
  <2> QED  BY <1>2, <2>1, Accepts, Zenon DEF HasSlices
<1>3. CASE algo \notin {"RR", "MLFQ"}
  <2>1. "quantum" \notin DOMAIN PARAM_RANGES[algo]
    BY <1>3, Ranges, Algorithms, SMT DEF PREDICTOR_RANGES
  <2> QED  BY <1>3, <2>1, Accepts, Zenon DEF HasSlices
<1> QED  BY <1>2, <1>3

\* A stronger aging is at least the floor and at most what it was.
LEMMA AgingAccepted ==
  ASSUME NEW algo \in SUPPORTED_ALGORITHMS, NEW params, AllAccepted(algo, params)
  PROVE  AllAccepted(algo, aging_strengthen(params))
<1> DEFINE k == "aging_threshold"
           v == params[k]
           new == IF Positive(params, k) THEN Num(Between(v.int \div 2, AGING_FLOOR, v.int)) ELSE Num(50)
<1>1. aging_strengthen(params) = Put(params, k, new)
  BY Zenon DEF aging_strengthen
<1>2. ~HasSlices(algo, k)
  BY SMT DEF HasSlices
<1>3. ParamAccepted(algo, k, new)
  <2>1. CASE k \notin DOMAIN PARAM_RANGES[algo]
    BY <1>2, <2>1, Accepts, Zenon
  <2>2. CASE k \in DOMAIN PARAM_RANGES[algo]
    <3>1. PARAM_RANGES[algo][k] = 1..MAX_TICKS
      BY <2>2, Algorithms, Ranges, SMT DEF PREDICTOR_RANGES
    <3>2. \E n \in 1..MAX_TICKS : new = Num(n)
      <4>1. CASE Positive(params, k)
        <5>1. ParamAccepted(algo, k, v)
          BY <4>1, Zenon DEF Positive, AllAccepted
        <5>2. v.int \in 1..MAX_TICKS
          BY <1>2, <2>2, <3>1, <5>1, Zenon DEF ParamAccepted
        <5> DEFINE t == v.int
        <5> HIDE DEF v, t
        <5>3. Between(t \div 2, 5, t) \in 1..MAX_TICKS
          <6>1. t \in 1..MAX_TICKS
            BY <5>2 DEF t
          <6> QED  BY <6>1, Bounds, SMT DEF Between
        <5>4. new = Num(Between(t \div 2, 5, t))
          BY <4>1, Zenon DEF t, AGING_FLOOR
        <5> QED  BY <5>3, <5>4
      <4>2. CASE ~Positive(params, k)
        BY <4>2, Bounds, SMT
      <4> QED  BY <4>1, <4>2
    <3>3. IsNum(new) /\ new.int \in 1..MAX_TICKS
      BY <3>2, SMT DEF IsNum, Num
    <3> QED  BY <1>2, <3>1, <3>3, Accepts, Zenon
  <2> QED  BY <2>1, <2>2
<1> QED  BY <1>1, <1>3, PutAccepted, Zenon

\* A slower boost stays below the ceiling, and above the shortest interval.
LEMMA BoostAccepted ==
  ASSUME NEW algo \in SUPPORTED_ALGORITHMS, NEW params, AllAccepted(algo, params)
  PROVE  AllAccepted(algo, slower_boost(params))
<1> DEFINE k == "boost_interval"
           v == params[k]
           new == Num(Between(Halves(3 * v.int), 0, BOOST_CEIL))
<1>1. CASE ~Positive(params, k)
  BY <1>1, Zenon DEF slower_boost
<1>2. CASE Positive(params, k)
  <2>1. slower_boost(params) = Put(params, k, new)
    BY <1>2, Zenon DEF slower_boost
  <2>2. ~HasSlices(algo, k)
    BY SMT DEF HasSlices
  <2>3. ParamAccepted(algo, k, new)
    <3>1. CASE k \notin DOMAIN PARAM_RANGES[algo]
      BY <2>2, <3>1, Accepts, Zenon
    <3>2. CASE k \in DOMAIN PARAM_RANGES[algo]
      <4>1. PARAM_RANGES[algo][k] = 10..MAX_TICKS
        BY <3>2, Algorithms, Ranges, SMT DEF PREDICTOR_RANGES
      <4>2. ParamAccepted(algo, k, v)
        BY <1>2, Zenon DEF Positive, AllAccepted
      <4>3. v.int \in 10..MAX_TICKS
        BY <2>2, <3>2, <4>1, <4>2, Zenon DEF ParamAccepted
      <4> DEFINE b == v.int
      <4> HIDE DEF v, b
      <4>4. b \in Int /\ b >= 10
        <5>1. b \in 10..MAX_TICKS
          BY <4>3 DEF b
        <5> QED  BY <5>1, Bounds, SMT
      <4>5. Halves(3 * b) \in Int /\ Halves(3 * b) >= 10
        BY <4>4, SMT DEF Halves
      <4>6. Between(Halves(3 * b), 0, BOOST_CEIL) \in 10..MAX_TICKS
        <5> DEFINE h == Halves(3 * b)
        <5>1. h \in Int /\ h >= 10
          BY <4>5
        <5> HIDE DEF h
        <5>2. Between(h, 0, MAX_TICKS) \in 10..MAX_TICKS
          BY <5>1, Bounds, SMT DEF Between
        <5>3. BOOST_CEIL = MAX_TICKS
          BY DEF BOOST_CEIL, MAX_TICKS
        <5> QED  BY <5>2, <5>3, Zenon DEF h
      <4>7. IsNum(new) /\ new.int = Between(Halves(3 * b), 0, BOOST_CEIL)
        BY SMT DEF IsNum, Num, b
      <4> QED  BY <2>2, <4>1, <4>6, <4>7, Accepts, Zenon
    <3> QED  BY <3>1, <3>2
  <2> QED  BY <2>1, <2>3, PutAccepted, Zenon
<1> QED  BY <1>1, <1>2

\* A quantum that is scaled, or the head of a list of them.
LEMMA QuantumAccepted ==
  ASSUME NEW algo \in SUPPORTED_ALGORITHMS, NEW params, JsonParams(params),
         AllAccepted(algo, params), NEW halves \in {1, 3, 4}
  PROVE  AllAccepted(algo, apply_quantum(params, halves))
<1> DEFINE k == "quantum"
           q == params[k]
           new(n) == Between(Halves(halves * n), QUANTUM_FLOOR, QUANTUM_CEIL)
<1>1. CASE ~HasQuantum(params)
  BY <1>1, Zenon DEF apply_quantum
<1>2. CASE HasQuantum(params) /\ IsNum(q)
  <2>1. apply_quantum(params, halves) = Put(params, k, Num(new(q.int)))
    BY <1>2, Zenon DEF apply_quantum
  <2>2. q.int \in Int
    BY <1>2, Zenon DEF JsonParams, HasQuantum
  <2>3. new(q.int) \in 1..100
    BY <2>2, ScaledInRange, Zenon
  <2>4. ParamAccepted(algo, k, Num(new(q.int)))
    BY <2>3, NumQuantumAccepted, Zenon
  <2> QED  BY <2>1, <2>4, PutAccepted, Zenon
<1>3. CASE HasQuantum(params) /\ ~IsNum(q)
  <2> DEFINE scaled == [q.list EXCEPT ![1] = new(@)]
  <2>1. apply_quantum(params, halves) = Put(params, k, Lst(scaled))
    BY <1>3, Zenon DEF apply_quantum
  <2>2. IsLst(q) /\ q.list \in Seq(Int) /\ q.list # << >> /\ k \in DOMAIN params
    BY <1>3, Zenon DEF JsonParams, HasQuantum
  <2>3. CASE HasSlices(algo, k)
    <3>1. ParamAccepted(algo, k, q)
      BY <2>2, Zenon DEF AllAccepted
    <3>2. \A i \in DOMAIN q.list : q.list[i] \in 1..100
      BY <1>3, <2>3, <3>1, Zenon DEF ParamAccepted, check_quantum, MLFQ_QUANTUM_RANGE
    <3> DEFINE l == q.list
    <3>3. l \in Seq(Int) /\ l # << >> /\ \A i \in DOMAIN l : l[i] \in 1..100
      BY <2>2, <3>2
    <3> HIDE DEF l
    <3>4. PICK n \in Nat : DOMAIN l = 1..n
      BY <3>3, SMT
    <3>5. 1 \in DOMAIN l
      BY <3>3, <3>4, SMT
    <3>6. new(l[1]) \in 1..100
      <4>1. l[1] \in Int
        BY <3>3, <3>5, SMT
      <4> QED  BY <4>1, ScaledInRange, Zenon
    <3> DEFINE x == new(l[1])
               s == [l EXCEPT ![1] = x]
    <3> HIDE DEF x
    <3>7. \A i \in DOMAIN s : s[i] \in 1..100
      BY <3>3, <3>6, Zenon DEF x
    <3>8. s # << >>
      BY <3>3, <3>4, <3>5, SMT
    <3>9. s = scaled
      BY Zenon DEF x, l
    <3> HIDE DEF s
    <3>10. IsLst(Lst(s)) /\ Lst(s).list = s /\ ~IsNum(Lst(s))
      BY SMT DEF IsLst, IsNum, Lst
    <3>11. check_quantum(Lst(s), 1..100)
      BY <3>7, <3>8, <3>10, Zenon DEF check_quantum
    <3>12. ParamAccepted(algo, k, Lst(s))
      BY <2>3, <3>11, Accepts, Zenon
    <3> QED  BY <2>1, <3>9, <3>12, PutAccepted, Zenon
  <2>4. CASE ~HasSlices(algo, k)
    <3>1. algo \notin {"RR", "MLFQ"}
      BY <2>4, Zenon DEF HasSlices
    <3>2. k \notin DOMAIN PARAM_RANGES[algo]
      BY <3>1, Ranges, Algorithms, SMT DEF PREDICTOR_RANGES
    <3>3. ParamAccepted(algo, k, Lst(scaled))
      BY <2>4, <3>2, Accepts, Zenon
    <3> QED  BY <2>1, <3>3, PutAccepted, Zenon
  <2> QED  BY <2>3, <2>4
<1> QED  BY <1>1, <1>2, <1>3

\* The same where a default stands in for a quantum that is missing.
LEMMA WithQuantumAccepted ==
  ASSUME NEW algo \in SUPPORTED_ALGORITHMS, NEW params, JsonParams(params),
         AllAccepted(algo, params), NEW halves \in {1, 3, 4}, NEW default \in 1..100
  PROVE  AllAccepted(algo, WithQuantum(params, halves, default))
<1>1. CASE HasQuantum(params)
  BY <1>1, QuantumAccepted, Zenon DEF WithQuantum
<1>2. CASE ~HasQuantum(params)
  BY <1>2, NumQuantumAccepted, PutAccepted, Zenon DEF WithQuantum
<1> QED  BY <1>1, <1>2

-----------------------------------------------------------------------------
(* The proposal.                                                           *)

\* Both guards mean the same algorithm by a name.
LEMMA SameName ==
  ASSUME NEW a, a # NONE, normalize_algo(a) \in SUPPORTED_ALGORITHMS
  PROVE  Upper(a) = normalize_algo(a)
<1>1. CASE a = "Priority"
  <2>1. Upper("Priority") = "PRIORITY" /\ normalize_algo("Priority") = "PRIORITY"
    BY SMT DEF Upper, normalize_algo, NONE
  <2> QED  BY <1>1, <2>1
<1>2. CASE a = "priority"
  <2>1. Upper("priority") = "PRIORITY" /\ normalize_algo("priority") = "PRIORITY"
    BY SMT DEF Upper, normalize_algo, NONE
  <2> QED  BY <1>2, <2>1
<1>3. CASE a = "mlfq"
  <2>1. Upper("mlfq") = "MLFQ" /\ normalize_algo("mlfq") = "MLFQ"
    BY SMT DEF Upper, normalize_algo, NONE
  <2> QED  BY <1>3, <2>1
<1>4. CASE a \notin {"Priority", "priority", "mlfq"}
  <2>1. normalize_algo(a) = a
    BY <1>4, SMT DEF normalize_algo
  <2>2. a # "fcfs"
    BY <2>1, Algorithms, SMT
  <2>3. Upper(a) = a
    BY <1>4, <2>2, SMT DEF Upper
  <2> QED  BY <2>1, <2>3
<1> QED  BY <1>1, <1>2, <1>3, <1>4

LEMMA SameAlgorithm ==
  ASSUME NEW rec, rec.algorithm # NONE, Supported(rec)
  PROVE  Upper(current_algo(rec)) = normalize_algo(rec.algorithm)
<1>1. current_algo(rec) = rec.algorithm
  BY Zenon DEF current_algo
<1> QED  BY <1>1, SameName, Zenon DEF Supported

\* A proposal whose parameters are accepted is accepted.
LEMMA AcceptedProposal ==
  ASSUME NEW type, NEW name, NEW algo \in SUPPORTED_ALGORITHMS, Upper(name) = algo,
         NEW params, AllAccepted(algo, params)
  PROVE  cg_validate(Proposal(type, name, params)) = "accepted"
<1> DEFINE p == Proposal(type, name, params)
<1>1. p.new_scheduling_algorithm = name /\ p.new_params = params
  BY SMT DEF Proposal
<1> HIDE DEF p
<1> QED  BY <1>1, Zenon DEF cg_validate, AllAccepted, p

\* The correction guard accepts every correction that is proposed for a
\* recommendation the algorithm guard took without a word about its parameters,
\* whatever the events of the run.
THEOREM ProposalAccepted ==
  ASSUME NEW events, NEW rec, NEW algo,
         rec.algorithm # NONE, Supported(rec), algo = normalize_algo(rec.algorithm),
         JsonParams(ParamsGiven(rec)), ~ParamsWarn(algo, rec)
  PROVE  cg_validate(propose(events, rec)) = "accepted"
<1> DEFINE params == ParamsGiven(rec)
           name == current_algo(rec)
           type == pick_event(events).type
<1>1. algo \in SUPPORTED_ALGORITHMS /\ Upper(name) = algo
  BY SameAlgorithm, Zenon DEF Supported
<1>2. JsonParams(params) /\ AllAccepted(algo, params)
  BY <1>1, UnwarnedAccepted, Zenon
<1> HIDE DEF params, name, type
<1>3. CASE type = "starvation"
  <2>1. propose(events, rec) = Proposal("aging_strengthen", name, aging_strengthen(params))
    BY <1>3, SMT DEF propose, params, name, type
  <2> QED  BY <1>1, <1>2, <2>1, AgingAccepted, AcceptedProposal, Zenon
<1>4. CASE type = "high_response_time" /\ name \in {"FCFS", "fcfs"}
  <2>1. propose(events, rec) = Proposal("algorithm_change", "RR", [quantum |-> Num(10)])
    BY <1>4, SMT DEF propose, params, name, type
  <2>2. "RR" \in SUPPORTED_ALGORITHMS /\ Upper("RR") = "RR"
    BY Algorithms, SMT DEF Upper
  <2>3. AllAccepted("RR", [quantum |-> Num(10)])
    <3>1. ParamAccepted("RR", "quantum", Num(10))
      BY <2>2, NumQuantumAccepted, SMT
    <3> QED  BY <3>1, SMT DEF AllAccepted
  <2> QED  BY <2>1, <2>2, <2>3, AcceptedProposal, Zenon
<1>5. CASE type = "high_response_time" /\ name \notin {"FCFS", "fcfs"}
  <2>1. propose(events, rec) = Proposal("quantum_decrease", name, WithQuantum(params, 1, 5))
    BY <1>5, SMT DEF propose, params, name, type
  <2>2. AllAccepted(algo, WithQuantum(params, 1, 5))
    BY <1>1, <1>2, WithQuantumAccepted, SMT
  <2> QED  BY <1>1, <2>1, <2>2, AcceptedProposal, Zenon
<1>6. CASE type = "high_preemption_rate"
  <2>1. propose(events, rec) = Proposal("quantum_increase", name, WithQuantum(params, 4, 20))
    BY <1>6, SMT DEF propose, params, name, type
  <2>2. AllAccepted(algo, WithQuantum(params, 4, 20))
    BY <1>1, <1>2, WithQuantumAccepted, SMT
  <2> QED  BY <1>1, <2>1, <2>2, AcceptedProposal, Zenon
<1>7. CASE type = "low_throughput"
  <2>1. propose(events, rec)
          = Proposal("parameter_update", name, slower_boost(apply_quantum(params, 3)))
    BY <1>7, SMT DEF propose, params, name, type
  <2>2. AllAccepted(algo, slower_boost(apply_quantum(params, 3)))
    <3>1. AllAccepted(algo, apply_quantum(params, 3))
      BY <1>1, <1>2, QuantumAccepted, SMT
    <3> QED  BY <1>1, <3>1, BoostAccepted, Zenon
  <2> QED  BY <1>1, <2>1, <2>2, AcceptedProposal, Zenon
<1>8. CASE type \notin {"starvation", "high_response_time", "high_preemption_rate", "low_throughput"}
  <2>1. propose(events, rec) = Proposal("no_op", name, params)
    BY <1>8, SMT DEF propose, params, name, type
  <2> QED  BY <1>1, <1>2, <2>1, AcceptedProposal, Zenon
<1> QED  BY <1>3, <1>4, <1>5, <1>6, <1>7, <1>8

=============================================================================
