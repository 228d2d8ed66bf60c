-------------------------------- MODULE Host --------------------------------
(***************************************************************************)
(* One recommendation from the model's answer to the verdict: the advisor, *)
(* the guard, the command line, the run on the console, the trace, the     *)
(* metrics, the verdict and the proposed correction, composed the way      *)
(* scripts/orchestrator.py calls them.                                     *)
(***************************************************************************)
EXTENDS RunFlags, Correction, Judge, Advisor

CONSTANTS
  Answers,    \* [by, answer]: who answered (model, intent, fixture) and what
  Followed,   \* the answers among them whose run is followed on the console
  Others      \* the metrics the other algorithms may have been measured with

ASSUME AnswersAssumption ==
  \A a \in Answers :
    /\ "params" \in DOMAIN a.answer
    /\ a.answer.params.shape = "object" => JsonParams(a.answer.params.of)

ASSUME OthersAssumption ==
  \A o \in Others : MetricNumbers(o.m)

VARIABLES
  stage,      \* ask, guard, command, typed, run, judge, done, stopped
  followed,   \* whether the answer is one of Followed
  rec,        \* recommendation.json
  dec,        \* guard_decision.json
  seen,       \* the lines about parameters that reached the console whole
  evs, m,     \* trace and metrics of the selected algorithm
  verdict,    \* metrics.json
  proposal    \* correction_proposal.json

hostVars == <<stage, followed, rec, dec, seen, evs, m, verdict, proposal>>
vars == <<hostVars, consoleVars>>

Unset == [unset |-> TRUE]
KeepRun == UNCHANGED consoleVars

-----------------------------------------------------------------------------
(* Before the run.                                                         *)

\* The workload the kernel runs, as its mirror JSON describes it.
MirrorWorkload ==
  [id |-> "mirror", target_metric |-> "avg_response_time", expected |-> NONE,
   processes |->
     [i \in DOMAIN Workload |->
        [pid |-> i, arrival_time |-> Workload[i].arrival, priority |-> 5,
         label |-> "cpu_bound", bursts |-> <<Workload[i].burst>>, ios |-> 0]]]

Idle == [algo |-> "RR", slices |-> {1}]

Init ==
  /\ stage = "ask" /\ followed = FALSE
  /\ rec = Unset /\ dec = Unset /\ seen = {} /\ evs = << >> /\ m = Unset
  /\ verdict = Unset /\ proposal = Unset
  /\ job = Idle /\ ConsoleInit

\* run_advisor: an answer that is refused ends the run; a fixture is not looked at.
Advise ==
  /\ stage = "ask"
  /\ \E a \in Answers :
       LET refused == a.by = "model" /\ Refused(a.answer)
       IN  /\ stage' = IF refused THEN "stopped" ELSE "guard"
           /\ followed' = (a \in Followed)
           /\ rec' = IF refused THEN rec
                     ELSE CASE a.by = "model" -> validate(a.answer, analyze_workload(MirrorWorkload))
                            [] a.by = "intent" -> recommend_from_intent(a.answer)
                            [] OTHER -> a.answer
  /\ UNCHANGED <<dec, seen, evs, m, verdict, proposal>> /\ KeepRun

RunGuard ==
  /\ stage = "guard"
  /\ dec' = guard(rec)
  /\ stage' = "command"
  /\ UNCHANGED <<followed, rec, seen, evs, m, verdict, proposal>> /\ KeepRun

\* The command line of the selected algorithm.
Selected(d) == get_guard_algorithm(d)
Flags(d) == schedtest_flags_for(Selected(d), Selected(d), d.params, build_predictor_args(d))
Claimed(d, lines) ==
  applied_params(Selected(d), d.params, build_predictor_args(d), lines)

\* The slices the timer preempts by.  MLFQ's is the quantum of the process's level;
\* which level that is the run leaves open.
SlicesUnder(d) ==
  LET k == InForce(Selected(d), Received(Flags(d)))
  IN  CASE Selected(d) = "RR" -> {k.quantum}
        [] Selected(d) = "MLFQ" -> {k.quantum[i] : i \in DOMAIN k.quantum}
        [] Selected(d) \in {"FCFS", "SJF"} -> {}
        [] OTHER -> {1}

\* The shell reads the command; any of the lines it causes may be cut.
Type ==
  /\ stage = "command"
  /\ \E lines \in SUBSET ParamLines(Selected(dec), Received(Flags(dec))) : seen' = lines
  /\ stage' = "typed"
  /\ UNCHANGED <<followed, rec, dec, evs, m, verdict, proposal>> /\ KeepRun

\* schedtest starts.
Start ==
  /\ stage = "typed" /\ followed
  /\ job' = [algo |-> Selected(dec), slices |-> SlicesUnder(dec)]
  /\ seen' = {}
  /\ stage' = "run"
  /\ UNCHANGED <<followed, rec, dec, evs, m, verdict, proposal>> /\ UNCHANGED runVars

-----------------------------------------------------------------------------
(* The run and after it.                                                   *)

Run ==
  /\ stage = "run"
  /\ ConsoleNext
  /\ UNCHANGED hostVars

\* qemu_run_schedtest has seen RUN_END; parse_xv6_log.
Capture ==
  /\ stage = "run" /\ at = "done"
  /\ evs' = parse_xv6_log(console, job.algo)
  /\ m' = compute_metrics(evs')
  /\ stage' = "judge"
  /\ UNCHANGED <<followed, rec, dec, seen, verdict, proposal>> /\ KeepRun

\* No RUN_END before the timeout: the algorithm is skipped.
TimesOut ==
  /\ stage = "run" /\ at # "done" /\ tick = LastTick
  /\ stage' = "stopped"
  /\ UNCHANGED <<followed, rec, dec, seen, evs, m, verdict, proposal>> /\ KeepRun

TargetOf(r) == IF r.target_metric = NONE THEN "avg_response_time" ELSE r.target_metric

\* build_xv6_metrics, and the detector and the proposer of the correction loop;
\* the detector ends with an error when there is no response time to compare.
Judges ==
  /\ stage = "judge"
  /\ \E other \in {o \in Others : o.algo # normalize_algorithm_name(job.algo)} :
       LET runs == <<[algo |-> normalize_algorithm_name(job.algo), m |-> m], other>>
           events == IF m.avg_response_time = NULL THEN << >> ELSE detect(evs, m)
       IN  /\ verdict' = [xv6 |-> build_xv6_metrics(runs, runs[1].algo, TargetOf(rec)),
                          tool |-> evaluate_run(runs, runs[1].algo, TargetOf(rec))]
           /\ proposal' = IF events = << >> THEN Unset
                          ELSE LET p == propose(events, rec)
                               IN  [proposed |-> p, decision |-> cg_validate(p)]
  /\ stage' = "done"
  /\ UNCHANGED <<followed, rec, dec, seen, evs, m>> /\ KeepRun

Next == Advise \/ RunGuard \/ Type \/ Start \/ Run \/ Capture \/ TimesOut \/ Judges

-----------------------------------------------------------------------------
(* What must hold.                                                         *)

\* Every parameter the comparison says was applied is the one the kernel ran
\* under, when the command fits the shell's line: what the guard lets through is
\* within what setrrquantum, setpriorityaging, setmlfqparams, setmlfqboost and
\* setpredictor take.  (Burst hints are reported as sent; the kernel may clamp.)
AppliedWithinLine ==
  (stage = "typed" /\ CommandWidth(Flags(dec)) <= LINE) =>
    LET claimed == Claimed(dec, seen)
    IN  \A k \in DOMAIN claimed.vals \ {"burst_hints"} :
          claimed.vals[k] = InForce(Selected(dec), Received(Flags(dec)))[k]

\* The same for every command: what build_xv6_metrics calls sent and accepted.
AppliedIsReceived ==
  stage = "typed" =>
    LET claimed == Claimed(dec, seen)
    IN  \A k \in DOMAIN claimed.vals \ {"burst_hints"} :
          claimed.vals[k] = InForce(Selected(dec), Received(Flags(dec)))[k]

\* The trace is the run: every kernel line about a child is in it, at its tick up
\* to one shift, and no line of the boot is, wherever RUN_BEGIN was cut.
WindowIsTheRun ==
  stage = "judge" =>
    LET OfChildren(q) ==
          AtIndices(q, {i \in DOMAIN q : q[i].pid \in Child /\ q[i].tick # NULL})
        printed == OfChildren([i \in DOMAIN console |-> console[i].ev])
        traced == OfChildren(evs)
    IN  /\ DOMAIN traced = DOMAIN printed
        /\ \A i \in DOMAIN traced : traced[i].event = printed[i].event /\ traced[i].pid = printed[i].pid
        /\ \A i \in DOMAIN traced :
             printed[i].tick - traced[i].tick = printed[1].tick - traced[1].tick
        /\ \A i \in DOMAIN evs : evs[i].pid \in Task \cup {NULL}

\* What the metrics say of a process is what happened to it, up to the shift that
\* the start of the trace gives all of them, with no response below zero.  The one
\* thing missed is a slice that ends in a sleep: the kernel prints no line for it,
\* so its ticks count as waiting.
MeasuredIsTrue ==
  stage = "judge" =>
    \A p \in DOMAIN m.per_process \cap Child :
      LET r == m.per_process[p]
          base == end[p] - r.finish_time
          late == first[p] - base - Def(p).arrival
          response == IF late > 0 THEN late ELSE 0
      IN  r.arrival_time # NULL =>
            /\ r.response_time = response
            /\ r.turnaround_time = end[p] - first[p] + response
            /\ r.waiting_time = r.turnaround_time - used[p] + hidden[p]

\* The two evaluators agree: a verdict of the orchestrator is never harsher than
\* the one tools/metrics.py gives the same runs, and the same where the best
\* value and the gap are beyond the floor; and a failure for a gap in the target
\* itself names a better algorithm.
Rank(judgment) ==
  CASE judgment = "FAIL" -> 2 [] judgment = "NEAR-SUCCESS" -> 1 [] OTHER -> 0

VerdictsAgree ==
  stage = "done" =>
    LET v == verdict.xv6
        t == verdict.tool
    IN  (t.judgment # "UNKNOWN" /\ metric_key(v.target_metric) = t.target_metric) =>
          /\ Rank(v.judgment) <= Rank(t.judgment)
          /\ m.starvation_occurred => v.judgment = "FAIL" /\ t.judgment = "FAIL"
          /\ (v.judgment = "FAIL" /\ ~m.starvation_occurred /\ v.target_metric = t.target_metric)
               => v.best_algorithm # v.scheduling_algorithm /\ v.best_algorithm = t.best_algorithm

\* A correction proposed by the rules for a recommendation the guard took as it
\* was is one the correction guard takes.
ProposalPassesGuard ==
  (stage = "done" /\ proposal # Unset /\ dec.guard_result # "rejected"
   /\ ~ParamsWarn(dec.algorithm, rec))
    => proposal.decision = "accepted"

HostSpec == Init /\ [][Next]_vars
=============================================================================
