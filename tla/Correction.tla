----------------------------- MODULE Correction -----------------------------
(***************************************************************************)
(* tools/correction_proposer.py and tools/correction_guard.py: one change  *)
(* to the recommendation for the worst event of a run, and the second guard*)
(* that looks at it.  An event is [type, severity, tick]; the parameters of*)
(* a recommendation are a function from names to Num, Lst or Other.        *)
(***************************************************************************)
EXTENDS Guard, FiniteSets

AGING_FLOOR == 5
QUANTUM_FLOOR == 2
QUANTUM_CEIL == 100
BOOST_CEIL == 10000
SEVERITY_RANK == [high |-> 3, medium |-> 2, low |-> 1]

\* Python's round of n / 2: a half goes to the even neighbour.
Halves(n) ==
  LET h == n \div 2 IN IF n % 2 = 1 /\ h % 2 = 1 THEN h + 1 ELSE h

Put(params, k, v) == [x \in DOMAIN params \cup {k} |-> IF x = k THEN v ELSE params[x]]

\* _pick_event: the gravest, then the earliest, then the first.
Graver(e, f) ==
  \/ SEVERITY_RANK[e.severity] > SEVERITY_RANK[f.severity]
  \/ /\ e.severity = f.severity
     /\ e.tick < f.tick

pick_event(events) ==
  events[CHOOSE i \in DOMAIN events :
           \A j \in DOMAIN events : ~Graver(events[j], events[i])
                                    /\ (j < i => Graver(events[i], events[j]))]

current_algo(rec) == IF rec.algorithm = NONE THEN "MLFQ" ELSE rec.algorithm

\* _top_quantum_index: the scalar, or the head of a list.
HasQuantum(params) ==
  /\ "quantum" \in DOMAIN params
  /\ \/ IsNum(params["quantum"])
     \/ /\ IsLst(params["quantum"])
        /\ params["quantum"].list # << >>

\* Mutant: no floor under a quantum.
ScaledQuantum(params, halves) ==
  LET q == params["quantum"]
  IN  IF ~HasQuantum(params) THEN params
      ELSE Put(params, "quantum",
               IF IsNum(q) THEN Num(Halves(halves * q.int))
               ELSE Lst([q.list EXCEPT ![1] = Halves(halves * @)]))

\* _apply_quantum, with the factor in halves.
apply_quantum(params, halves) ==
  LET q == params["quantum"]
      new(n) == Between(Halves(halves * n), QUANTUM_FLOOR, QUANTUM_CEIL)
  IN  IF ~HasQuantum(params) THEN params
      ELSE Put(params, "quantum",
               IF IsNum(q) THEN Num(new(q.int)) ELSE Lst([q.list EXCEPT ![1] = new(@)]))

Positive(params, k) == k \in DOMAIN params /\ IsNum(params[k]) /\ params[k].int > 0

Proposal(type, algo, params) ==
  [correction_type |-> type, new_scheduling_algorithm |-> algo, new_params |-> params]

aging_strengthen(params) ==
  Put(params, "aging_threshold",
      IF Positive(params, "aging_threshold")
      THEN LET t == params["aging_threshold"].int IN Num(Between(t \div 2, AGING_FLOOR, t))
      ELSE Num(50))

slower_boost(params) ==
  IF ~Positive(params, "boost_interval") THEN params
  ELSE Put(params, "boost_interval",
           Num(Between(Halves(3 * params["boost_interval"].int), 0, BOOST_CEIL)))

WithQuantum(params, halves, default) ==
  IF HasQuantum(params) THEN apply_quantum(params, halves)
  ELSE Put(params, "quantum", Num(default))

propose(events, rec) ==
  LET algo == current_algo(rec)
      params == ParamsGiven(rec)
      type == pick_event(events).type
  IN  CASE type = "starvation" ->
             Proposal("aging_strengthen", algo, aging_strengthen(params))
        [] type = "high_response_time" /\ algo \in {"FCFS", "fcfs"} ->
             Proposal("algorithm_change", "RR", [quantum |-> Num(10)])
        [] type = "high_response_time" /\ algo \notin {"FCFS", "fcfs"} ->
             Proposal("quantum_decrease", algo, WithQuantum(params, 1, 5))
        [] type = "high_preemption_rate" ->
             Proposal("quantum_increase", algo, WithQuantum(params, 4, 20))
        [] type = "low_throughput" ->
             Proposal("parameter_update", algo, slower_boost(apply_quantum(params, 3)))
        [] OTHER -> Proposal("no_op", algo, params)

-----------------------------------------------------------------------------
(* The correction guard.                                                   *)

Upper(name) ==
  CASE name \in {"Priority", "priority"} -> "PRIORITY"
    [] name = "mlfq" -> "MLFQ" [] name = "fcfs" -> "FCFS" [] OTHER -> name

check_quantum(v, range) ==
  \/ IsNum(v) /\ v.int \in range
  \/ /\ IsLst(v)
     /\ v.list # << >>
     /\ \A i \in DOMAIN v.list : v.list[i] \in range

\* A quantum may be a list for the algorithms with slices; a parameter the
\* algorithm does not have is left alone.
HasSlices(algo, k) == k = "quantum" /\ algo \in {"RR", "MLFQ"}

ParamAccepted(algo, k, v) ==
  IF HasSlices(algo, k) THEN check_quantum(v, MLFQ_QUANTUM_RANGE)
  ELSE k \in DOMAIN PARAM_RANGES[algo] => IsNum(v) /\ v.int \in PARAM_RANGES[algo][k]

cg_validate(proposal) ==
  LET algo == Upper(proposal.new_scheduling_algorithm)
      params == proposal.new_params
  IN  IF \/ proposal.correction_type = "no_op"
         \/ /\ algo \in SUPPORTED_ALGORITHMS
            /\ \A k \in DOMAIN params : ParamAccepted(algo, k, params[k])
      THEN "accepted" ELSE "rejected"
=============================================================================
