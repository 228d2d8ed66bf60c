------------------------------ MODULE Pipeline ------------------------------
(***************************************************************************)
(* main of scripts/orchestrator.py over several runs: the files each step  *)
(* reads and writes in --out-dir, in the directory the dashboard reads and *)
(* in outputs/.  Any step may fail or the process be killed after it; the  *)
(* next run starts from the files that are left.                           *)
(*                                                                         *)
(* A file is [run, by, of]: the run that wrote it, who its content is from *)
(* (nobody: there is no file) and the content.                             *)
(***************************************************************************)
EXTENDS RunFlags, Correction, Verdict, Advisor

CONSTANTS
  Requests,       \* the command lines: [workload, offline, intent, feedback,
                  \* retrieval, algo, force]
  Answers,        \* the advisor's usable answers
  Rules,          \* the feedback model's answers, sequences of lines
  Demo,           \* outputs/_demo_fixtures: recommendation, decision, workload
  Measured(_, _, _),  \* what compute_metrics finds in the trace of a workload
                      \* under an algorithm with some flags (QEMU is deterministic)
  Detected(_, _),     \* what event_detector finds in a trace and a metrics file
  MaxRuns,        \* bound: runs
  MaxFaults       \* bound: failures and kills

ASSUME PipelineAssumption ==
  /\ MaxRuns \in Nat /\ MaxFaults \in Nat
  /\ \A q \in Requests : /\ {q.offline, q.intent, q.feedback, q.retrieval} \subseteq BOOLEAN
                         /\ {q.algo, q.force} \subseteq SUPPORTED_ALGORITHMS \cup {NONE}

ASSUME DemoAssumption == get_guard_algorithm(Demo.decision) \in SUPPORTED_ALGORITHMS

VARIABLES
  stage, run, req, todo,  \* the process: its next step, the captures to come
  out, outTraces,         \* --out-dir
  live, liveTraces,       \* --live-data-dir
  manifest,               \* its manifest.json
  analyzed,               \* outputs/workload_summary.json
  store,                  \* outputs/learning/outcome_store.jsonl
  prompt,                 \* history: what the advisor was asked
  failed, faults,         \* history: what failed in this run; the faults so far
  complete                \* history: the last run reached its end

dirVars == <<out, outTraces, live, liveTraces, manifest, analyzed, store>>
history == <<prompt, failed, faults, complete>>
vars == <<stage, run, req, todo, dirVars, history>>

-----------------------------------------------------------------------------
(* Files.                                                                  *)

META_FILES == {"recommendation", "guard_decision", "workload_summary", "trace_explanation"}
CorrectionFiles == {"runtime_events", "correction_proposal", "correction_guard_decision"}
Names == META_FILES \cup CorrectionFiles
         \cup {"metrics", "corrected_trace", "correction_applied", "feedback_rules"}

File(by, content) == [run |-> run, by |-> by, of |-> content]
NoFile == [run |-> 0, by |-> "nobody", of |-> NONE]
Exists(file) == file.by # "nobody"
Over(file, older) == IF Exists(file) THEN file ELSE older

DemoFile(name) ==
  CASE name = "recommendation" -> Demo.recommendation
    [] name = "guard_decision" -> Demo.decision
    [] name = "workload_summary" -> analyze_workload(Demo.workload)
    [] OTHER -> "explanation"

Unasked == [rules |-> << >>, precedents |-> {}]

Init ==
  /\ stage = "idle" /\ run = 0 /\ todo = << >>
  /\ req \in Requests
  /\ out = [f \in Names |-> NoFile] /\ live = out
  /\ outTraces = [a \in SUPPORTED_ALGORITHMS |-> NoFile] /\ liveTraces = outTraces
  /\ manifest = [run |-> 0, version |-> 0, selected |-> NONE, source |-> NONE]
  /\ analyzed = NoFile /\ store = << >>
  /\ prompt = Unasked /\ failed = {} /\ faults = 0 /\ complete = FALSE

\* A step that fails.
Fails(step) ==
  /\ faults < MaxFaults /\ faults' = faults + 1
  /\ failed' = failed \cup {step}

Works == UNCHANGED <<failed, faults>>

Keep(others) == UNCHANGED <<run, req, complete, others>>

-----------------------------------------------------------------------------
(* Before the run.                                                         *)

Begin ==
  /\ stage = "idle" /\ run < MaxRuns
  /\ stage' = "analyze" /\ run' = run + 1
  /\ req' \in Requests
  /\ todo' = << >> /\ prompt' = Unasked /\ failed' = {} /\ complete' = FALSE
  /\ UNCHANGED <<dirVars, faults>>

\* run_workload_analyzer: what is found in outputs/ is copied, whatever its age.
AnalyzeStep ==
  /\ stage = "analyze"
  /\ \/ Works /\ analyzed' = File("run", analyze_workload(req.workload))
     \/ Fails("analyzer") /\ UNCHANGED analyzed
  /\ out' = [out EXCEPT !.workload_summary = Over(analyzed', @)]
  /\ stage' = "advise"
  /\ Keep(<<todo, outTraces, live, liveTraces, manifest, store, prompt>>)

RulesIn(dir) == IF Exists(dir.feedback_rules) THEN dir.feedback_rules.of ELSE << >>

\* run_advise; with an intent nothing of the workload is asked.
Asked(summary) ==
  IF req.intent THEN {Unasked}
  ELSE {[rules |-> build_system_prompt(req.feedback, RulesIn(out)),
         precedents |-> Precedents(store, S), summary |-> build_user_prompt(summary)] :
          S \in IF req.retrieval THEN retrieve(summary, store) ELSE {{}}}

Advised(answer, summary) ==
  IF req.intent THEN recommend_from_intent(answer) ELSE validate(answer, summary)

AdviseStep ==
  /\ stage = "advise"
  /\ req.intent \/ Exists(out.workload_summary)
  /\ Works
  /\ prompt' \in Asked(out.workload_summary.of)
  /\ \E a \in Answers :
       out' = [out EXCEPT !.recommendation = File("run", Advised(a, out.workload_summary.of))]
  /\ stage' = "guard"
  /\ Keep(<<todo, outTraces, live, liveTraces, manifest, analyzed, store>>)

\* Strict: the run ends; with --offline-fixture the demo file takes the place.
Substitutes(name, next) ==
  IF req.offline
  THEN out' = [out EXCEPT ![name] = File("demo", DemoFile(name))] /\ stage' = next
  ELSE UNCHANGED out /\ stage' = "idle"

AdvisorFails ==
  /\ stage = "advise"
  /\ \/ Fails("advisor")
     \/ /\ ~req.intent /\ ~Exists(out.workload_summary)
        /\ Works
  /\ Substitutes("recommendation", "guard")
  /\ Keep(<<todo, outTraces, live, liveTraces, manifest, analyzed, store, prompt>>)

\* resolve_selected_algorithm and compute_run_order.
SelectedOf(dir) == get_guard_algorithm(dir.guard_decision.of)
Selected == SelectedOf(out)

\* The selected algorithm first, then the rest in canonical order.
compute_run_order(selected) ==
  LET at == CHOOSE i \in DOMAIN CANONICAL_ALGOS : CANONICAL_ALGOS[i] = selected
  IN  [i \in DOMAIN CANONICAL_ALGOS |->
         IF i = 1 THEN selected ELSE CANONICAL_ALGOS[IF i <= at THEN i - 1 ELSE i]]

Ordered(dir) ==
  IF req.algo # NONE THEN <<req.algo>> ELSE compute_run_order(SelectedOf(dir))

GuardStep ==
  /\ stage = "guard"
  /\ \/ /\ Works
        /\ out' = [out EXCEPT !.guard_decision = File("run", guard(out.recommendation.of))]
        /\ stage' = "run"
     \/ Fails("guard") /\ Substitutes("guard_decision", "run")
  /\ todo' = IF stage' = "run" THEN Ordered(out') ELSE << >>
  /\ Keep(<<outTraces, live, liveTraces, manifest, analyzed, store, prompt>>)

-----------------------------------------------------------------------------
(* run_xv6_backend.                                                        *)

Executed == Ordered(out)
PredArgs == build_predictor_args(out.guard_decision.of)
FlagsOf(a) == schedtest_flags_for(a, Executed[1], out.guard_decision.of.params, PredArgs)
Captured == {a \in SUPPORTED_ALGORITHMS : outTraces[a].run = run}

\* A capture that fails leaves the trace file of an earlier run.
CaptureStep ==
  /\ stage = "run" /\ todo # << >>
  /\ LET a == Head(todo)
     IN  \/ /\ Works
            /\ outTraces' = [outTraces EXCEPT
                               ![a] = File("run", Measured(req.workload, a, FlagsOf(a)))]
         \/ Fails("capture") /\ UNCHANGED outTraces
  /\ todo' = Tail(todo)
  /\ Keep(<<stage, out, live, liveTraces, manifest, analyzed, store, prompt>>)

\* build_xv6_metrics takes every trace there is, in the order of the runs.
ComparisonOf(traces) ==
  LET found == {i \in DOMAIN Executed : Exists(traces[Executed[i]])}
      Nth(n) == Executed[CHOOSE i \in found : Cardinality({j \in found : j < i}) = n - 1]
  IN  [n \in 1..Cardinality(found) |->
         [algo |-> normalize_algorithm_name(Nth(n)), m |-> traces[Nth(n)].of]]

\* Mutant: a trace that is already published is compared before a fresh one.
PublishedComparison ==
  ComparisonOf([a \in SUPPORTED_ALGORITHMS |-> Over(liveTraces[a], outTraces[a])])

Comparison == ComparisonOf(outTraces)

TargetIn(dir) ==
  IF dir.recommendation.of.target_metric = NONE THEN "avg_response_time"
  ELSE dir.recommendation.of.target_metric

AggregateStep ==
  /\ stage = "run" /\ todo = << >>
  /\ IF Captured = {} THEN UNCHANGED out /\ stage' = "idle"
     ELSE /\ out' = [out EXCEPT !.metrics =
                       File("run", build_xv6_metrics(Comparison, normalize_algorithm_name(Executed[1]),
                                                     TargetIn(out)))]
          /\ stage' = "export"
  /\ Works
  /\ Keep(<<todo, outTraces, live, liveTraces, manifest, analyzed, store, prompt>>)

-----------------------------------------------------------------------------
(* Export.                                                                 *)

\* ensure_metadata_files, then the copies of export_to_live_data: a file that
\* is missing leaves the published one.
ExportStep ==
  /\ stage = "export"
  /\ out' = [f \in Names |-> IF f \in META_FILES /\ ~Exists(out[f])
                             THEN File("stamped", DemoFile(f)) ELSE out[f]]
  /\ live' = [f \in Names |-> IF f \in META_FILES \cup {"metrics"}
                              THEN Over(out'[f], live[f]) ELSE live[f]]
  /\ liveTraces' = [a \in SUPPORTED_ALGORITHMS |-> Over(outTraces[a], liveTraces[a])]
  /\ stage' = "manifest"
  /\ Works
  /\ Keep(<<todo, outTraces, manifest, analyzed, store, prompt>>)

\* The manifest comes last, with the next version.
ManifestStep ==
  /\ stage = "manifest"
  /\ manifest' = [run |-> run, version |-> manifest.version + 1,
                  selected |-> normalize_algorithm_name(Selected),
                  source |-> IF "demo" \in {out.recommendation.by, out.guard_decision.by}
                             THEN "demo_fallback" ELSE NONE]
  /\ stage' = "propose"
  /\ Works
  /\ Keep(<<todo, out, outTraces, live, liveTraces, analyzed, store, prompt>>)

-----------------------------------------------------------------------------
(* The correction loop.                                                    *)

\* Mutant: the trace of an earlier correction stays.
DroppedProposal(dir) == [f \in Names |-> IF f \in CorrectionFiles THEN NoFile ELSE dir[f]]

\* What is left of an earlier run's correction goes; the proposer reads the
\* published files.
Dropped(dir) ==
  [f \in Names |-> IF f \in CorrectionFiles \cup {"corrected_trace"} THEN NoFile ELSE dir[f]]

\* The events, the proposal and the decision, as far as the loop came.
With(dir, events, written) ==
  LET proposal == propose(events, live.recommendation.of)
      made(f) == CASE f = "runtime_events" -> events
                   [] f = "correction_proposal" -> proposal
                   [] OTHER -> cg_validate(proposal)
  IN  [f \in Names |-> IF f \in written THEN File("run", made(f)) ELSE Dropped(dir)[f]]

\* The exit status of no tool of the loop is looked at: one that fails leaves no
\* file, and those after it do not run.
ProposeStep ==
  /\ stage = "propose"
  /\ LET trace == liveTraces[Selected]
         events == Detected(trace.of, live.metrics.of)
         Writes(files) ==
           out' = With(out, events, files) /\ live' = With(live, events, files)
     IN  IF ~(Exists(trace) /\ Exists(live.recommendation) /\ Exists(live.metrics))
         THEN Works /\ Writes({})
         ELSE \/ Works /\ Writes(IF events = << >> THEN {"runtime_events"} ELSE CorrectionFiles)
              \/ Fails("detector") /\ Writes({})
              \/ /\ events # << >>
                 /\ \/ Fails("proposer") /\ Writes({"runtime_events"})
                    \/ Fails("correction_guard") /\ Writes({"runtime_events", "correction_proposal"})
  /\ stage' = "apply"
  /\ Keep(<<todo, outTraces, liveTraces, manifest, analyzed, store, prompt>>)

Publishes(name, file) ==
  out' = [out EXCEPT ![name] = file] /\ live' = [live EXCEPT ![name] = file]

\* Another algorithm is warranted, and which.
Graves(file) ==
  IF Exists(file) THEN {i \in DOMAIN file.of : file.of[i].severity = "high"} ELSE {}

should_correct(top) ==
  \/ req.force # NONE
  \/ top.judgment = "FAIL"
  \/ top.metrics.starvation_occurred
  \/ Graves(out.runtime_events) # {}

Corrected(top) ==
  IF req.force # NONE THEN normalize_algorithm_name(req.force) ELSE top.best_algorithm

\* The configuration that won the comparison: kernel defaults, except for SJF and
\* SRTF, which every run gives the predictor's flags.
CorrectedParams == [x \in {} |-> Absent]

\* Mutant: the re-run gets the guard's safe defaults.
SafeDefaultFlags(algo) ==
  IF algo \in PREDICTOR_ALGORITHMS THEN PredArgs
  ELSE schedtest_flags_for(algo, algo, DEFAULT_PARAMS[algo], NoFlags)

CorrectedFlags(algo) ==
  IF algo \in PREDICTOR_ALGORITHMS THEN PredArgs
  ELSE schedtest_flags_for(algo, algo, CorrectedParams, NoFlags)

ValueIn(comparison, algo, k) ==
  LET mine == {i \in DOMAIN comparison : comparison[i].algo = algo}
  IN  IF mine = {} THEN NULL ELSE comparison[Least(mine)].m[k]

\* The two records of correction_applied.json.
NotApplied == [applied |-> FALSE]

WasApplied(top, algo, m) ==
  LET k == metric_key(TargetIn(out))
      mine == ValueIn(top.comparison, normalize_algorithm_name(Selected), k)
      values == (ValuesOf(top.comparison, k) \cup {m[k]}) \ {NULL}
  IN  [applied |-> TRUE, forced |-> req.force # NONE, corrected_algorithm |-> algo,
       corrected_judgment |-> judge_value(m[k], BestOf(values, k), k).judgment,
       improved |-> /\ mine # NULL /\ m[k] # NULL
                    /\ IF k = "throughput" THEN m[k] > mine ELSE m[k] < mine]

ApplyStep ==
  /\ stage = "apply"
  /\ LET top == out.metrics.of
         algo == Corrected(top)
         canon == normalize_algo(algo)
         m == Measured(req.workload, canon, CorrectedFlags(canon))
         decision == cg_validate(Proposal("algorithm_change", algo, CorrectedParams))
     IN  IF \/ ~should_correct(top)
            \/ algo \in {NONE, normalize_algorithm_name(Selected)}
            \/ decision # "accepted"
         THEN Works /\ Publishes("correction_applied", File("run", NotApplied))
         ELSE \/ Fails("correction") /\ Publishes("correction_applied", File("run", NotApplied))
              \/ LET Both(dir) ==
                       [dir EXCEPT !.correction_applied = File("run", WasApplied(top, algo, m)),
                                   !.corrected_trace = File("run", m)]
                 IN  Works /\ out' = Both(out) /\ live' = Both(live)
  /\ stage' = "explain"
  /\ Keep(<<todo, outTraces, liveTraces, manifest, analyzed, store, prompt>>)

-----------------------------------------------------------------------------
(* After the run.                                                          *)

\* run_trace_explainer: fresh, or the demo's, or a note that there is none.
ExplainStep ==
  /\ stage = "explain"
  /\ LET Explains(by) == Publishes("trace_explanation", File(by, "explanation"))
         possible == Exists(outTraces[Selected]) /\ Exists(out.metrics)
     IN  IF ~possible THEN Works /\ Explains("placeholder")
         ELSE \/ Works /\ Explains("run")
              \/ Fails("explainer") /\ Explains(IF req.offline THEN "stamped" ELSE "placeholder")
  /\ stage' = "persist"
  /\ Keep(<<todo, outTraces, liveTraces, manifest, analyzed, store, prompt>>)

\* persist_outcome; workload, target, found and failed are history.
PersistStep ==
  /\ stage = "persist"
  /\ LET summary == out.workload_summary.of
         best == out.metrics.of.best_algorithm
         record == [name |-> summary.id, features |-> prompt_safe_features(summary),
                    best |-> normalize_algo(best),
                    workload |-> req.workload, target |-> TargetIn(out),
                    found |-> [a \in Captured |-> outTraces[a].of], failed |-> failed]
     IN  IF best = NONE THEN Works /\ UNCHANGED store
         ELSE \/ Works /\ store' = Append(store, record)
              \/ Fails("store") /\ UNCHANGED store
  /\ stage' = "learn"
  /\ Keep(<<todo, out, outTraces, live, liveTraces, manifest, analyzed, prompt>>)

\* run_feedback_generator: never after a success, never without the model.
LearnStep ==
  /\ stage = "learn"
  /\ LET m == out.metrics.of
         old == Over(out.feedback_rules, live.feedback_rules)
         lines == IF Exists(old) THEN old.of ELSE << >>
         Rewritten(answer) ==
           LET new == run_feedback(lines, m.judgment, answer)
           IN  IF new = lines THEN old ELSE File("run", new)
     IN  IF m.judgment # "FAIL" /\ ~m.metrics.starvation_occurred
         THEN Works /\ UNCHANGED <<out, live>>
         ELSE \/ /\ Fails("feedback")
                 /\ out' = [out EXCEPT !.feedback_rules = old]
                 /\ UNCHANGED live
              \/ /\ Works
                 /\ \E answer \in Rules :
                      /\ out' = [out EXCEPT !.feedback_rules = Rewritten(answer)]
                      /\ live' = [live EXCEPT !.feedback_rules = Over(Rewritten(answer), @)]
  /\ stage' = "idle" /\ complete' = TRUE
  /\ UNCHANGED <<run, req, todo, outTraces, liveTraces, manifest, analyzed, store, prompt>>

\* The process is killed between two steps.
Killed ==
  /\ stage # "idle"
  /\ Fails("killed")
  /\ stage' = "idle"
  /\ UNCHANGED <<run, req, todo, dirVars, prompt, complete>>

Next ==
  \/ Begin \/ AnalyzeStep \/ AdviseStep \/ AdvisorFails \/ GuardStep \/ CaptureStep
  \/ AggregateStep \/ ExportStep \/ ManifestStep \/ ProposeStep \/ ApplyStep
  \/ ExplainStep \/ PersistStep \/ LearnStep \/ Killed

-----------------------------------------------------------------------------
(* What must hold.                                                         *)

\* When a run has ended well, the files the dashboard is given, and the traces of the
\* algorithms the run was asked for, are of that run or say that they are not: a demo
\* file in the place of the advisor's or the guard's stamps the manifest, nothing is
\* left of an earlier correction, and an old trace or summary only stands in for a
\* capture or an analysis that failed.  (With --algo the traces of the other
\* algorithms stay beside it; of them nothing is said.)
OfThisRun(file) == file.run = run

PublishedIsThisRun ==
  (stage = "idle" /\ complete) =>
    /\ manifest.run = run
    /\ \A f \in META_FILES \cup {"metrics", "correction_applied"} :
         OfThisRun(live[f]) \/ (f = "workload_summary" /\ "analyzer" \in failed)
    /\ (\E f \in Names : live[f].by = "demo") => manifest.source = "demo_fallback"
    /\ \A f \in CorrectionFiles \cup {"corrected_trace"} :
         Exists(live[f]) => OfThisRun(live[f]) /\ live[f] = out[f]
    /\ Exists(live.corrected_trace) <=> live.correction_applied.of.applied
    /\ \A i \in DOMAIN Executed : OfThisRun(liveTraces[Executed[i]]) \/ "capture" \in failed

\* What the store teaches later runs is true.  A record is about one workload,
\* features and name, and if neither its analysis nor a capture failed it is the
\* workload of its run; if the run was made with all six algorithms, the one it names
\* was measured best of them in it, by the target the run was judged by.
Beaten(found, a, k) ==
  LET Value(b) == Compared(found[b], k)
  IN  \/ Value(a) = NULL
      \/ \E b \in DOMAIN found :
           /\ Value(b) # NULL
           /\ IF k = "throughput" THEN Value(b) > Value(a) ELSE Value(b) < Value(a)

LearnsTruth ==
  \A i \in DOMAIN store :
    LET s == store[i]
    IN  s.failed \cap {"analyzer", "capture"} = {} =>
          /\ s.name = s.workload.id
          /\ s.features = prompt_safe_features(analyze_workload(s.workload))
          /\ DOMAIN s.found = SUPPORTED_ALGORITHMS => ~Beaten(s.found, s.best, s.target)

\* Every trace the comparison is made from was captured by this run.
ComparisonIsThisRun ==
  stage = "export" =>
    \A i \in DOMAIN Executed : Exists(outTraces[Executed[i]]) => Executed[i] \in Captured

\* The model is never shown what it is asked for: no burst, no class of a process,
\* no expected answer and, unless an analysis failed, no outcome of the workload it
\* is asked about.
PromptHidesAnswers ==
  "summary" \in DOMAIN prompt =>
    /\ DOMAIN prompt.summary \cap {"total_cpu_work", "expected", "id"} = {}
    /\ \A i \in DOMAIN prompt.summary.visible_processes :
         DOMAIN prompt.summary.visible_processes[i] \cap {"label", "bursts"} = {}
    /\ "analyzer" \notin failed =>
         \A p \in prompt.precedents :
           LET s == store[p.record]
           IN  "analyzer" \notin s.failed => s.workload # req.workload

\* A correction that was not forced confirms the comparison it was taken from: it
\* is run under the flags its algorithm had there, so it is better than the
\* selected algorithm and a success, when the target is one the comparison is
\* judged by, every trace of it is of this run and the selected algorithm's has
\* a value for it.
CorrectionConfirms ==
  (stage = "explain" /\ out.correction_applied.of.applied) =>
    LET c == out.correction_applied.of
    IN  (~c.forced /\ "capture" \notin failed /\ metric_key(TargetIn(out)) = TargetIn(out)
         /\ req.algo = NONE /\ out.metrics.of.metrics[TargetIn(out)] # NULL)
          => c.improved /\ c.corrected_judgment = "SUCCESS"

PipelineSpec == Init /\ [][Next]_vars
=============================================================================
