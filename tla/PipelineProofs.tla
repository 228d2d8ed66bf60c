--------------------------- MODULE PipelineProofs ---------------------------
(***************************************************************************)
(* What the dashboard is given when a run of scripts/orchestrator.py has   *)
(* ended is of that run, for every set of command lines, answers, results  *)
(* and failures.                                                           *)
(***************************************************************************)
EXTENDS Pipeline, GuardProofs, SequenceTheorems, FiniteSetTheorems

-----------------------------------------------------------------------------
(* The invariant.                                                          *)

\* The steps from one on.
FromPersist == {"persist", "learn"}
FromExplain == {"explain"} \cup FromPersist
FromApply == {"apply"} \cup FromExplain
FromPropose == {"propose"} \cup FromApply
FromManifest == {"manifest"} \cup FromPropose
FromExport == {"export"} \cup FromManifest
FromRun == {"run"} \cup FromExport
FromGuard == {"guard"} \cup FromRun
FromAdvise == {"advise"} \cup FromGuard

Done == stage = "idle" /\ complete

Fresh(file) == OfThisRun(file) /\ Exists(file)
Elems(q) == {q[i] : i \in DOMAIN q}

\* Only the advisor's and the guard's files are ever replaced by the demo's.
Shape ==
  /\ DOMAIN out = Names /\ DOMAIN live = Names
  /\ DOMAIN outTraces = SUPPORTED_ALGORITHMS /\ DOMAIN liveTraces = SUPPORTED_ALGORITHMS
  /\ \A f \in Names \ {"recommendation", "guard_decision"} :
       out[f].by # "demo" /\ live[f].by # "demo"
  /\ analyzed.by # "demo"
  /\ req \in Requests
  /\ stage # "idle" => ~complete

\* What the steps before have written to --out-dir.
SummaryMade == Fresh(out.workload_summary) \/ "analyzer" \in failed
RecommendationMade == Fresh(out.recommendation)
DecisionMade == Fresh(out.guard_decision) /\ Selected \in SUPPORTED_ALGORITHMS
TracesMade ==
  /\ todo \in Seq(SUPPORTED_ALGORITHMS)
  /\ \A a \in Elems(Executed) : a \in Elems(todo) \/ Fresh(outTraces[a]) \/ "capture" \in failed
AllTracesMade == \A a \in Elems(Executed) : Fresh(outTraces[a]) \/ "capture" \in failed

\* What they have published.
MetaShown ==
  /\ \A f \in {"recommendation", "guard_decision", "metrics"} : OfThisRun(live[f])
  /\ OfThisRun(live.workload_summary) \/ "analyzer" \in failed
  /\ \A a \in Elems(Executed) : OfThisRun(liveTraces[a]) \/ "capture" \in failed
SameSource == live.recommendation = out.recommendation /\ live.guard_decision = out.guard_decision
Stamped ==
  /\ manifest.run = run
  /\ "demo" \in {live.recommendation.by, live.guard_decision.by} => manifest.source = "demo_fallback"
CorrectionShown ==
  \A f \in CorrectionFiles \cup {"corrected_trace"} :
    Exists(live[f]) => OfThisRun(live[f]) /\ live[f] = out[f]
NoCorrection == ~Exists(live.corrected_trace) /\ ~Exists(out.corrected_trace)
AppliedShown ==
  /\ OfThisRun(live.correction_applied)
  /\ Exists(live.corrected_trace) <=> live.correction_applied.of.applied
ExplanationShown == OfThisRun(live.trace_explanation)

Made ==
  /\ stage \in FromAdvise => SummaryMade
  /\ stage \in FromGuard => RecommendationMade
  /\ stage \in FromRun => DecisionMade
  /\ stage = "run" => TracesMade
  /\ stage \in FromExport => AllTracesMade /\ Fresh(out.metrics)

Shown ==
  /\ stage \in FromManifest => SameSource
  /\ (stage \in FromManifest \/ Done) => MetaShown
  /\ (stage \in FromPropose \/ Done) => Stamped
  /\ (stage \in FromApply \/ Done) => CorrectionShown
  /\ stage = "apply" => NoCorrection
  /\ (stage \in FromExplain \/ Done) => AppliedShown
  /\ (stage \in FromPersist \/ Done) => ExplanationShown

PipeInv == Shape /\ Made /\ Shown

-----------------------------------------------------------------------------
(* What the steps are made of.                                             *)

LEMMA FileOf ==
  ASSUME NEW by, NEW content
  PROVE  /\ File(by, content).run = run /\ File(by, content).by = by
         /\ File(by, content).of = content
BY SMT DEF File

LEMMA OrderKnown ==
  ASSUME NEW algo \in SUPPORTED_ALGORITHMS
  PROVE  compute_run_order(algo) \in Seq(SUPPORTED_ALGORITHMS)
<1> DEFINE at == CHOOSE i \in DOMAIN CANONICAL_ALGOS : CANONICAL_ALGOS[i] = algo
<1>1. CANONICAL_ALGOS \in [1..6 -> SUPPORTED_ALGORITHMS]
  BY Algorithms, SMT DEF CANONICAL_ALGOS
<1>2. PICK i \in DOMAIN CANONICAL_ALGOS : CANONICAL_ALGOS[i] = algo
  BY Zenon DEF SUPPORTED_ALGORITHMS
<1>3. at \in 1..6
  BY <1>1, <1>2, Zenon
<1> HIDE DEF at
<1>4. ASSUME NEW j \in 1..6, j # 1
      PROVE  (IF j <= at THEN j - 1 ELSE j) \in 1..6
  BY <1>3, <1>4, SMT
<1>5. ASSUME NEW j \in 1..6
      PROVE  (IF j = 1 THEN algo ELSE CANONICAL_ALGOS[IF j <= at THEN j - 1 ELSE j])
               \in SUPPORTED_ALGORITHMS
  BY <1>1, <1>4, Zenon
<1>6. compute_run_order(algo)
        = [j \in 1..6 |-> IF j = 1 THEN algo ELSE CANONICAL_ALGOS[IF j <= at THEN j - 1 ELSE j]]
  BY <1>1, Zenon DEF compute_run_order, at
<1>7. compute_run_order(algo) \in [1..6 -> SUPPORTED_ALGORITHMS]
  BY <1>5, <1>6, Zenon
<1> DEFINE S == SUPPORTED_ALGORITHMS
           q == compute_run_order(algo)
<1>8. q \in [1..6 -> S]
  BY <1>7
<1> HIDE DEF S, q
<1>9. q \in Seq(S)
  <2>1. \E n \in Nat : q \in [1..n -> S]
    <3>1. 6 \in Nat
      BY SMT
    <3> QED  BY <1>8, <3>1
  <2>2. q \in UNION {[1..n -> S] : n \in Nat}
    BY <2>1, Zenon
  <2> QED  BY <2>2, SeqDef, Zenon
<1> QED  BY <1>9 DEF S, q

LEMMA OrderedKnown ==
  ASSUME Shape, NEW dir, SelectedOf(dir) \in SUPPORTED_ALGORITHMS
  PROVE  Ordered(dir) \in Seq(SUPPORTED_ALGORITHMS)
<1>1. CASE req.algo # NONE
  <2>1. req.algo \in SUPPORTED_ALGORITHMS
    BY <1>1, PipelineAssumption, Zenon DEF Shape
  <2> QED  BY <1>1, <2>1, SMT DEF Ordered
<1>2. CASE req.algo = NONE
  BY <1>2, OrderKnown, Zenon DEF Ordered
<1> QED  BY <1>1, <1>2

\* The captures planned depend on the decision and the command line only.
LEMMA SameOrder ==
  ASSUME req' = req, out'.guard_decision = out.guard_decision
  PROVE  Executed' = Executed /\ Selected' = Selected
BY Zenon DEF Executed, Ordered, Selected, SelectedOf

LEMMA NamesKnown ==
  Names = {"recommendation", "guard_decision", "workload_summary", "trace_explanation",
           "runtime_events", "correction_proposal", "correction_guard_decision",
           "metrics", "corrected_trace", "correction_applied", "feedback_rules"}
BY SMT DEF Names, META_FILES, CorrectionFiles

\* Writing one file of a directory.
LEMMA PutFile ==
  ASSUME NEW dir, DOMAIN dir = Names, NEW name \in Names, NEW file
  PROVE  /\ DOMAIN [dir EXCEPT ![name] = file] = Names
         /\ [dir EXCEPT ![name] = file][name] = file
         /\ \A f \in Names \ {name} : [dir EXCEPT ![name] = file][f] = dir[f]
OBVIOUS

LEMMA FileFresh ==
  ASSUME NEW by \in {"run", "demo", "stamped", "placeholder"}, NEW content
  PROVE  /\ Fresh(File(by, content)) /\ File(by, content).by = by
         /\ Exists(File(by, content))
BY FileOf, SMT DEF Fresh, OfThisRun, Exists

LEMMA EarlyShown ==
  ASSUME stage' \notin FromManifest, stage' # "idle" \/ ~complete'
  PROVE  Shown'
BY SMT DEF Shown, Done, FromManifest, FromPropose, FromApply, FromExplain, FromPersist

LEMMA EarlyMade ==
  ASSUME stage' \notin FromAdvise
  PROVE  Made'
BY SMT DEF Made, FromAdvise, FromGuard, FromRun, FromExport, FromManifest, FromPropose,
   FromApply, FromExplain, FromPersist

-----------------------------------------------------------------------------
(* Init.                                                                   *)

LEMMA PipeInvInit == Init => PipeInv
<1> SUFFICES ASSUME Init PROVE PipeInv
  OBVIOUS
<1>1. NoFile.by = "nobody"
  BY SMT DEF NoFile
<1> DEFINE none == [f \in Names |-> NoFile]
<1>2. DOMAIN none = Names /\ \A f \in Names : none[f].by = "nobody"
  BY <1>1, Zenon
<1>3. out = none /\ live = none
  BY Zenon DEF Init
<1> HIDE DEF none
<1>4. Shape
  <2>1. /\ DOMAIN outTraces = SUPPORTED_ALGORITHMS /\ DOMAIN liveTraces = SUPPORTED_ALGORITHMS
        /\ req \in Requests
    BY Zenon DEF Init
  <2>4. analyzed.by # "demo"
    BY <1>1, SMT DEF Init
  <2>2. stage = "idle"
    BY Zenon DEF Init
  <2>3. \A f \in Names : out[f].by # "demo" /\ live[f].by # "demo"
    <3>1. "nobody" # "demo"
      OBVIOUS
    <3> QED  BY <1>2, <1>3, <3>1, Zenon
  <2> QED  BY <1>2, <1>3, <2>1, <2>2, <2>3, <2>4, Zenon DEF Shape
<1>5. stage = "idle" /\ ~complete
  BY Zenon DEF Init
<1>6. Made
  BY <1>5, SMT DEF Made, FromAdvise, FromGuard, FromRun, FromExport, FromManifest, FromPropose,
     FromApply, FromExplain, FromPersist
<1>7. Shown
  BY <1>5, SMT DEF Shown, Done, FromManifest, FromPropose, FromApply, FromExplain, FromPersist
<1> QED  BY <1>4, <1>6, <1>7 DEF PipeInv

-----------------------------------------------------------------------------
(* Before the run.                                                         *)

LEMMA BeginKeeps == PipeInv /\ Begin => PipeInv'
<1> SUFFICES ASSUME PipeInv, Begin PROVE PipeInv'
  OBVIOUS
<1>1. stage' = "analyze" /\ req' \in Requests /\ ~complete' /\ UNCHANGED dirVars
  BY Zenon DEF Begin
<1>2. Shape'
  BY <1>1, Zenon DEF PipeInv, Shape, dirVars
<1>3. Made'
  BY <1>1, EarlyMade, SMT DEF FromAdvise, FromGuard, FromRun, FromExport, FromManifest,
     FromPropose, FromApply, FromExplain, FromPersist
<1>4. Shown'
  BY <1>1, EarlyShown, SMT DEF FromManifest, FromPropose, FromApply, FromExplain, FromPersist
<1> QED  BY <1>2, <1>3, <1>4 DEF PipeInv

LEMMA AnalyzeKeeps == PipeInv /\ AnalyzeStep => PipeInv'
<1> SUFFICES ASSUME PipeInv, AnalyzeStep PROVE PipeInv'
  OBVIOUS
<1> DEFINE new == Over(analyzed', out.workload_summary)
<1>1. /\ stage = "analyze" /\ stage' = "advise" /\ run' = run /\ req' = req /\ complete' = complete
      /\ live' = live /\ outTraces' = outTraces /\ liveTraces' = liveTraces
      /\ out' = [out EXCEPT !["workload_summary"] = new]
  BY Zenon DEF AnalyzeStep, Keep
<1>2. \/ \E summary : analyzed' = File("run", summary)
      \/ "analyzer" \in failed' /\ analyzed' = analyzed
  BY Zenon DEF AnalyzeStep, Fails
<1>3. "workload_summary" \in Names /\ "workload_summary" \notin {"recommendation", "guard_decision"}
  BY NamesKnown, SMT
<1>4. /\ DOMAIN out' = Names /\ out'["workload_summary"] = new
      /\ \A f \in Names \ {"workload_summary"} : out'[f] = out[f]
  BY <1>1, <1>3, PutFile, Zenon DEF PipeInv, Shape
<1>5. analyzed'.by # "demo" /\ new.by # "demo"
  <2>1. analyzed'.by # "demo"
    BY <1>2, FileFresh, SMT DEF PipeInv, Shape
  <2>2. out["workload_summary"].by # "demo"
    BY <1>3, Zenon DEF PipeInv, Shape
  <2> QED  BY <2>1, <2>2, Zenon DEF Over
<1>6. Shape'
  <2>1. ~complete' /\ stage' # "idle"
    BY <1>1, SMT DEF PipeInv, Shape
  <2>2. \A f \in Names \ {"recommendation", "guard_decision"} :
          out'[f].by # "demo" /\ live'[f].by # "demo"
    BY <1>1, <1>4, <1>5, Zenon DEF PipeInv, Shape
  <2> QED  BY <1>1, <1>4, <1>5, <2>1, <2>2, Zenon DEF PipeInv, Shape
<1>7. Made'
  <2>1. SummaryMade'
    <3>1. CASE \E summary : analyzed' = File("run", summary)
      <4>1. Fresh(analyzed')
        BY <3>1, FileFresh, SMT
      <4>2. new = analyzed'
        BY <4>1, Zenon DEF Over, Fresh
      <4> QED  BY <1>1, <1>4, <4>1, <4>2, Zenon DEF SummaryMade, Fresh, OfThisRun, Exists
    <3>2. CASE "analyzer" \in failed'
      BY <3>2 DEF SummaryMade
    <3> QED  BY <1>2, <3>1, <3>2
  <2> QED  BY <1>1, <2>1, SMT DEF Made, FromGuard, FromRun, FromExport, FromManifest,
     FromPropose, FromApply, FromExplain, FromPersist
<1>8. Shown'
  BY <1>1, EarlyShown, SMT DEF FromManifest, FromPropose, FromApply, FromExplain, FromPersist
<1> QED  BY <1>6, <1>7, <1>8 DEF PipeInv

-----------------------------------------------------------------------------
(* A step that writes one file of --out-dir.                               *)

LEMMA Written ==
  ASSUME PipeInv, stage # "idle", NEW name \in Names, NEW file,
         out' = [out EXCEPT ![name] = file],
         file.by # "demo" \/ name \in {"recommendation", "guard_decision"},
         UNCHANGED <<run, req, complete, live, outTraces, liveTraces, analyzed>>
  PROVE  /\ Shape' /\ ~complete'
         /\ out'[name] = file
         /\ \A f \in Names \ {name} : out'[f] = out[f]
<1>1. /\ DOMAIN out' = Names /\ out'[name] = file
      /\ \A f \in Names \ {name} : out'[f] = out[f]
  BY PutFile, Zenon DEF PipeInv, Shape
<1>2. ~complete'
  BY Zenon DEF PipeInv, Shape
<1>3. \A f \in Names \ {"recommendation", "guard_decision"} :
        out'[f].by # "demo" /\ live'[f].by # "demo"
  BY <1>1, Zenon DEF PipeInv, Shape
<1>4. Shape'
  BY <1>1, <1>2, <1>3, Zenon DEF PipeInv, Shape
<1> QED  BY <1>1, <1>2, <1>4

LEMMA SummaryStays ==
  ASSUME SummaryMade, run' = run, failed \subseteq failed',
         out'.workload_summary = out.workload_summary
  PROVE  SummaryMade'
BY Zenon DEF SummaryMade, Fresh, OfThisRun, Exists

\* A run that ends early has published nothing of itself, and does not say so.
LEMMA GivesUp ==
  ASSUME stage' = "idle", ~complete'
  PROVE  Made' /\ Shown'
<1>1. Made'
  BY EarlyMade, SMT DEF FromAdvise, FromGuard, FromRun, FromExport, FromManifest,
     FromPropose, FromApply, FromExplain, FromPersist
<1>2. Shown'
  BY EarlyShown, SMT DEF FromManifest, FromPropose, FromApply, FromExplain, FromPersist
<1> QED  BY <1>1, <1>2

LEMMA Recommended ==
  ASSUME PipeInv, stage = "advise", stage' = "guard", failed \subseteq failed',
         NEW by \in {"run", "demo"}, NEW content,
         out' = [out EXCEPT !["recommendation"] = File(by, content)],
         UNCHANGED <<run, req, complete, live, outTraces, liveTraces, analyzed>>
  PROVE  PipeInv'
<1> DEFINE file == File(by, content)
<1>1. Fresh(file)
  BY FileFresh, SMT
<1> HIDE DEF file
<1>2. "recommendation" \in Names /\ "workload_summary" \in Names \ {"recommendation"}
  BY NamesKnown, SMT
<1>3. stage # "idle"
  BY SMT
<1>4. out' = [out EXCEPT !["recommendation"] = file]
  BY DEF file
<1>5. /\ Shape' /\ out'["recommendation"] = file
      /\ out'["workload_summary"] = out["workload_summary"]
  BY <1>2, <1>3, <1>4, Written, Zenon
<1>6. SummaryMade
  BY SMT DEF PipeInv, Made, FromAdvise
<1>7. SummaryMade'
  BY <1>5, <1>6, SummaryStays, Zenon
<1>8. RecommendationMade'
  BY <1>1, <1>5, Zenon DEF RecommendationMade, Fresh, OfThisRun, Exists
<1>9. Made'
  BY <1>7, <1>8, SMT DEF Made, FromRun, FromExport, FromManifest, FromPropose, FromApply,
     FromExplain, FromPersist
<1>10. Shown'
  BY EarlyShown, SMT DEF FromManifest, FromPropose, FromApply, FromExplain, FromPersist
<1> QED  BY <1>5, <1>9, <1>10 DEF PipeInv

LEMMA AdviseKeeps == PipeInv /\ AdviseStep => PipeInv'
<1> SUFFICES ASSUME PipeInv, AdviseStep PROVE PipeInv'
  OBVIOUS
<1>1. /\ stage = "advise" /\ stage' = "guard" /\ failed \subseteq failed'
      /\ UNCHANGED <<run, req, complete, live, outTraces, liveTraces, analyzed>>
  BY Zenon DEF AdviseStep, Keep, Works
<1>2. PICK a \in Answers :
        out' = [out EXCEPT !["recommendation"] = File("run", Advised(a, out.workload_summary.of))]
  BY Zenon DEF AdviseStep
<1> QED  BY <1>1, <1>2, Recommended, Zenon

LEMMA AdvisorFailsKeeps == PipeInv /\ AdvisorFails => PipeInv'
<1> SUFFICES ASSUME PipeInv, AdvisorFails PROVE PipeInv'
  OBVIOUS
<1>1. /\ stage = "advise" /\ failed \subseteq failed'
      /\ UNCHANGED <<run, req, complete, live, outTraces, liveTraces, analyzed>>
  BY Zenon DEF AdvisorFails, Keep, Works, Fails
<1>2. CASE /\ out' = [out EXCEPT !["recommendation"] = File("demo", DemoFile("recommendation"))]
           /\ stage' = "guard"
  BY <1>1, <1>2, Recommended, Zenon
<1>3. CASE UNCHANGED out /\ stage' = "idle"
  <2>1. ~complete'
    BY <1>1, SMT DEF PipeInv, Shape
  <2>2. Shape'
    BY <1>1, <1>3, Zenon DEF PipeInv, Shape
  <2> QED  BY <1>3, <2>1, <2>2, GivesUp DEF PipeInv
<1> QED  BY <1>2, <1>3, Zenon DEF AdvisorFails, Substitutes

LEMMA Decided ==
  ASSUME PipeInv, stage = "guard", stage' = "run", failed \subseteq failed',
         NEW by \in {"run", "demo"}, NEW decision,
         get_guard_algorithm(decision) \in SUPPORTED_ALGORITHMS,
         out' = [out EXCEPT !["guard_decision"] = File(by, decision)],
         todo' = Ordered(out'),
         UNCHANGED <<run, req, complete, live, outTraces, liveTraces, analyzed>>
  PROVE  PipeInv'
<1> DEFINE file == File(by, decision)
<1>1. Fresh(file) /\ file.of = decision
  BY FileFresh, FileOf, SMT
<1> HIDE DEF file
<1>2. /\ "guard_decision" \in Names
      /\ {"workload_summary", "recommendation"} \subseteq Names \ {"guard_decision"}
  BY NamesKnown, SMT
<1>3. stage # "idle"
  BY SMT
<1>4. out' = [out EXCEPT !["guard_decision"] = file]
  BY DEF file
<1>5. /\ Shape' /\ out'["guard_decision"] = file
      /\ out'["workload_summary"] = out["workload_summary"]
      /\ out'["recommendation"] = out["recommendation"]
  BY <1>2, <1>3, <1>4, Written, Zenon
<1>6. SummaryMade /\ RecommendationMade
  BY SMT DEF PipeInv, Made, FromAdvise, FromGuard
<1>7. SummaryMade'
  BY <1>5, <1>6, SummaryStays, Zenon
<1>8. RecommendationMade'
  BY <1>5, <1>6, Zenon DEF RecommendationMade, Fresh, OfThisRun, Exists
<1>9. Selected' \in SUPPORTED_ALGORITHMS
  BY <1>1, <1>5, Zenon DEF Selected, SelectedOf
<1>10. DecisionMade'
  BY <1>1, <1>5, <1>9, Zenon DEF DecisionMade, Fresh, OfThisRun, Exists
<1>11. TracesMade'
  <2>1. Executed' = todo' /\ Executed' = Ordered(out')
    BY Zenon DEF Executed, Ordered
  <2>2. SelectedOf(out') \in SUPPORTED_ALGORITHMS
    BY <1>9, Zenon DEF Selected
  <2>3. todo' \in Seq(SUPPORTED_ALGORITHMS)
    <3>1. Shape
      BY DEF PipeInv
    <3>2. Ordered(out') \in Seq(SUPPORTED_ALGORITHMS)
      BY <2>2, <3>1, OrderedKnown, Zenon
    <3> QED  BY <3>2
  <2> QED  BY <2>1, <2>3, Zenon DEF TracesMade
<1>12. Made'
  BY <1>7, <1>8, <1>10, <1>11, SMT DEF Made, FromExport, FromManifest, FromPropose, FromApply,
     FromExplain, FromPersist
<1>13. Shown'
  BY EarlyShown, SMT DEF FromManifest, FromPropose, FromApply, FromExplain, FromPersist
<1> QED  BY <1>5, <1>12, <1>13 DEF PipeInv

LEMMA GuardKeeps == PipeInv /\ GuardStep => PipeInv'
<1> SUFFICES ASSUME PipeInv, GuardStep PROVE PipeInv'
  OBVIOUS
<1>1. /\ stage = "guard" /\ failed \subseteq failed'
      /\ stage' = "run" => todo' = Ordered(out')
      /\ UNCHANGED <<run, req, complete, live, outTraces, liveTraces, analyzed>>
  BY Zenon DEF GuardStep, Keep, Works, Fails
<1>2. CASE /\ out' = [out EXCEPT !["guard_decision"] = File("run", guard(out.recommendation.of))]
           /\ stage' = "run"
  <2>1. get_guard_algorithm(guard(out.recommendation.of)) \in SUPPORTED_ALGORITHMS
    BY GuardKnown, Zenon
  <2> QED  BY <1>1, <1>2, <2>1, Decided, Zenon
<1>3. CASE /\ out' = [out EXCEPT !["guard_decision"] = File("demo", DemoFile("guard_decision"))]
           /\ stage' = "run"
  <2>1. DemoFile("guard_decision") = Demo.decision
    BY SMT DEF DemoFile
  <2>2. get_guard_algorithm(DemoFile("guard_decision")) \in SUPPORTED_ALGORITHMS
    BY <2>1, DemoAssumption, Zenon
  <2> QED  BY <1>1, <1>3, <2>2, Decided, Zenon
<1>4. CASE UNCHANGED out /\ stage' = "idle"
  <2>1. ~complete'
    BY <1>1, SMT DEF PipeInv, Shape
  <2>2. Shape'
    BY <1>1, <1>4, Zenon DEF PipeInv, Shape
  <2> QED  BY <1>4, <2>1, <2>2, GivesUp DEF PipeInv
<1> QED  BY <1>2, <1>3, <1>4, Zenon DEF GuardStep, Substitutes

-----------------------------------------------------------------------------
(* The captures and the comparison.                                        *)

LEMMA CaptureKeeps == PipeInv /\ CaptureStep => PipeInv'
<1> SUFFICES ASSUME PipeInv, CaptureStep PROVE PipeInv'
  OBVIOUS
<1> DEFINE algo == Head(todo)
<1>1. /\ stage = "run" /\ stage' = "run" /\ todo # << >> /\ todo' = Tail(todo)
      /\ failed \subseteq failed'
      /\ UNCHANGED <<run, req, complete, out, live, liveTraces, analyzed>>
  BY Zenon DEF CaptureStep, Keep, Works, Fails
<1>2. TracesMade /\ DecisionMade /\ RecommendationMade /\ SummaryMade
  BY <1>1, SMT DEF PipeInv, Made, FromAdvise, FromGuard, FromRun
<1>3. Executed' = Executed /\ Selected' = Selected
  BY <1>1, SameOrder, Zenon
<1>4. /\ algo \in SUPPORTED_ALGORITHMS /\ todo' \in Seq(SUPPORTED_ALGORITHMS)
      /\ Elems(todo) \subseteq {algo} \cup Elems(todo')
  <2> DEFINE S == SUPPORTED_ALGORITHMS
  <2>1. todo \in Seq(S) /\ todo # << >> /\ todo' = Tail(todo)
    BY <1>1, <1>2 DEF TracesMade
  <2> HIDE DEF S
  <2>2. Head(todo) \in S /\ todo' \in Seq(S)
    BY <2>1, SMT
  <2>3. ASSUME NEW i \in DOMAIN todo
        PROVE  todo[i] = Head(todo) \/ (i - 1 \in DOMAIN todo' /\ todo'[i - 1] = todo[i])
    BY <2>1, SMT
  <2>4. \A i \in DOMAIN todo : todo[i] \in {algo} \cup Elems(todo')
    BY <2>3, Zenon DEF Elems
  <2> QED  BY <2>2, <2>4, Zenon DEF Elems, S
<1>5. /\ DOMAIN outTraces' = SUPPORTED_ALGORITHMS
      /\ \A a \in SUPPORTED_ALGORITHMS \ {algo} : outTraces'[a] = outTraces[a]
      /\ Fresh(outTraces'[algo]) \/ "capture" \in failed'
  <2>1. DOMAIN outTraces = SUPPORTED_ALGORITHMS
    BY DEF PipeInv, Shape
  <2>2. CASE \E m : outTraces' = [outTraces EXCEPT ![algo] = File("run", m)]
    <3>1. PICK m : outTraces' = [outTraces EXCEPT ![algo] = File("run", m)]
      BY <2>2
    <3> DEFINE file == File("run", m)
    <3>2. Fresh(file)
      BY FileFresh, SMT
    <3> HIDE DEF file, algo
    <3>3. outTraces' = [outTraces EXCEPT ![algo] = file]
      BY <3>1 DEF file
    <3>4. /\ DOMAIN outTraces' = SUPPORTED_ALGORITHMS /\ outTraces'[algo] = file
          /\ \A a \in SUPPORTED_ALGORITHMS \ {algo} : outTraces'[a] = outTraces[a]
      BY <1>4, <2>1, <3>3, Zenon
    <3> QED  BY <3>2, <3>4
  <2>3. CASE "capture" \in failed' /\ outTraces' = outTraces
    BY <2>1, <2>3
  <2> QED  BY <2>2, <2>3, Zenon DEF CaptureStep, Fails
<1> HIDE DEF algo
<1>6. TracesMade'
  <2> SUFFICES ASSUME NEW a \in Elems(Executed')
               PROVE  a \in Elems(todo') \/ Fresh(outTraces'[a]) \/ "capture" \in failed'
    BY <1>1, <1>4, Zenon DEF TracesMade, Fresh, OfThisRun, Exists
  <2>1. a \in Elems(todo) \/ Fresh(outTraces[a]) \/ "capture" \in failed
    BY <1>2, <1>3, Zenon DEF TracesMade
  <2>2. a \in SUPPORTED_ALGORITHMS
    <3> DEFINE S == SUPPORTED_ALGORITHMS
    <3>1. Executed \in Seq(S)
      BY <1>2, OrderedKnown, Zenon DEF PipeInv, Executed, DecisionMade, Selected
    <3> HIDE DEF S
    <3>2. \A i \in DOMAIN Executed : Executed[i] \in S
      BY <3>1, SMT
    <3> QED  BY <1>3, <3>2, Zenon DEF Elems, S
  <2>3. CASE a = algo
    BY <1>5, <2>3, Zenon
  <2>4. CASE a # algo
    BY <1>1, <1>4, <1>5, <2>1, <2>2, <2>4, Zenon
  <2> QED  BY <2>3, <2>4
<1>7. Shape'
  <2>1. ~complete' /\ stage # "idle"
    BY <1>1, SMT DEF PipeInv, Shape
  <2> QED  BY <1>1, <1>5, <2>1, Zenon DEF PipeInv, Shape
<1>8. DecisionMade' /\ RecommendationMade' /\ SummaryMade'
  BY <1>1, <1>2, <1>3, SummaryStays, Zenon
     DEF DecisionMade, RecommendationMade, Fresh, OfThisRun, Exists
<1>9. Made'
  BY <1>1, <1>6, <1>8, SMT DEF Made, FromExport, FromManifest, FromPropose, FromApply,
     FromExplain, FromPersist
<1>10. Shown'
  BY <1>1, EarlyShown, SMT DEF FromManifest, FromPropose, FromApply, FromExplain, FromPersist
<1> QED  BY <1>7, <1>9, <1>10 DEF PipeInv

LEMMA AggregateKeeps == PipeInv /\ AggregateStep => PipeInv'
<1> SUFFICES ASSUME PipeInv, AggregateStep PROVE PipeInv'
  OBVIOUS
<1>1. /\ stage = "run" /\ todo = << >> /\ failed' = failed
      /\ UNCHANGED <<run, req, complete, live, outTraces, liveTraces, analyzed>>
  BY Zenon DEF AggregateStep, Keep, Works
<1>2. CASE out' = out /\ stage' = "idle"
  <2>1. ~complete'
    BY <1>1, SMT DEF PipeInv, Shape
  <2>2. Shape'
    BY <1>1, <1>2, Zenon DEF PipeInv, Shape
  <2> QED  BY <1>2, <2>1, <2>2, GivesUp DEF PipeInv
<1>3. ASSUME NEW top, out' = [out EXCEPT !["metrics"] = File("run", top)], stage' = "export"
      PROVE  PipeInv'
  <2> DEFINE file == File("run", top)
  <2>1. Fresh(file) /\ file.by # "demo"
    <3>1. Fresh(file) /\ file.by = "run"
      BY FileFresh, SMT
    <3> QED  BY <3>1, SMT
  <2> HIDE DEF file
  <2>2. /\ "metrics" \in Names
        /\ {"workload_summary", "recommendation", "guard_decision"} \subseteq Names \ {"metrics"}
    BY NamesKnown, SMT
  <2>3. stage # "idle"
    BY <1>1, SMT
  <2>4. out' = [out EXCEPT !["metrics"] = file]
    BY <1>3 DEF file
  <2>5. /\ Shape' /\ out'["metrics"] = file
        /\ out'["workload_summary"] = out["workload_summary"]
        /\ out'["recommendation"] = out["recommendation"]
        /\ out'["guard_decision"] = out["guard_decision"]
    BY <1>1, <2>1, <2>2, <2>3, <2>4, Written, Zenon
  <2>6. TracesMade /\ DecisionMade /\ RecommendationMade /\ SummaryMade
    BY <1>1, SMT DEF PipeInv, Made, FromAdvise, FromGuard, FromRun
  <2>7. Executed' = Executed /\ Selected' = Selected
    BY <1>1, <2>5, SameOrder, Zenon
  <2>8. DecisionMade' /\ RecommendationMade' /\ SummaryMade'
    BY <1>1, <2>5, <2>6, <2>7, SummaryStays, Zenon
       DEF DecisionMade, RecommendationMade, Fresh, OfThisRun, Exists
  <2>9. AllTracesMade'
    <3>1. Elems(todo) = {}
      <4>1. DOMAIN todo = {}
        BY <1>1, SMT
      <4> QED  BY <4>1, Zenon DEF Elems
    <3> QED  BY <1>1, <2>6, <2>7, <3>1, Zenon DEF TracesMade, AllTracesMade, Fresh, OfThisRun, Exists
  <2>10. Fresh(out.metrics)'
    BY <1>1, <2>1, <2>5, Zenon DEF Fresh, OfThisRun, Exists
  <2>11. Made'
    BY <1>3, <2>8, <2>9, <2>10, SMT DEF Made, FromManifest, FromPropose, FromApply,
       FromExplain, FromPersist
  <2>12. Shown'
    BY <1>3, EarlyShown, SMT DEF FromManifest, FromPropose, FromApply, FromExplain, FromPersist
  <2> QED  BY <2>5, <2>11, <2>12 DEF PipeInv
<1>4. \/ out' = out /\ stage' = "idle"
      \/ (\E top : out' = [out EXCEPT !["metrics"] = File("run", top)]) /\ stage' = "export"
  BY Zenon DEF AggregateStep
<1> QED  BY <1>2, <1>3, <1>4

-----------------------------------------------------------------------------
(* The export.                                                             *)

LEMMA ExportKeeps == PipeInv /\ ExportStep => PipeInv'
<1> SUFFICES ASSUME PipeInv, ExportStep PROVE PipeInv'
  OBVIOUS
<1>1. /\ stage = "export" /\ stage' = "manifest" /\ failed' = failed
      /\ UNCHANGED <<run, req, complete, outTraces, analyzed>>
  BY Zenon DEF ExportStep, Keep, Works
<1>2. /\ AllTracesMade /\ Fresh(out.metrics)
      /\ DecisionMade /\ RecommendationMade /\ SummaryMade
  BY <1>1, SMT DEF PipeInv, Made, FromAdvise, FromGuard, FromRun, FromExport
<1>3. /\ {"recommendation", "guard_decision", "workload_summary", "metrics"} \subseteq Names
      /\ {"recommendation", "guard_decision", "workload_summary"} \subseteq META_FILES
      /\ "metrics" \notin META_FILES
  BY NamesKnown, SMT DEF META_FILES
<1>4. DOMAIN out = Names /\ DOMAIN live = Names
  BY DEF PipeInv, Shape
<1>5. ASSUME NEW f \in Names
      PROVE  out'[f] = IF f \in META_FILES /\ ~Exists(out[f])
                       THEN File("stamped", DemoFile(f)) ELSE out[f]
  BY Zenon DEF ExportStep
<1>6. DOMAIN out' = Names /\ DOMAIN live' = Names
  BY Zenon DEF ExportStep
<1>7. ASSUME NEW f \in Names
      PROVE  live'[f] = IF f \in META_FILES \cup {"metrics"} THEN Over(out'[f], live[f]) ELSE live[f]
  BY Zenon DEF ExportStep
<1>8. /\ DOMAIN liveTraces' = SUPPORTED_ALGORITHMS
      /\ \A a \in SUPPORTED_ALGORITHMS : liveTraces'[a] = Over(outTraces[a], liveTraces[a])
  BY Zenon DEF ExportStep
<1>9. ASSUME NEW f \in Names
      PROVE  Exists(out[f]) => out'[f] = out[f]
  BY <1>5, Zenon
<1>10. /\ out'["recommendation"] = out["recommendation"]
       /\ out'["guard_decision"] = out["guard_decision"]
       /\ out'["metrics"] = out["metrics"]
  BY <1>2, <1>3, <1>9, Zenon DEF DecisionMade, RecommendationMade, Fresh
<1>11. Executed' = Executed /\ Selected' = Selected
  BY <1>1, <1>10, SameOrder, Zenon
<1>12. Shape'
  <2>1. ~complete' /\ stage # "idle"
    BY <1>1, SMT DEF PipeInv, Shape
  <2>2. ASSUME NEW f \in Names \ {"recommendation", "guard_decision"}
        PROVE  out'[f].by # "demo" /\ live'[f].by # "demo"
    <3>1. out[f].by # "demo" /\ live[f].by # "demo"
      BY DEF PipeInv, Shape
    <3>2. File("stamped", DemoFile(f)).by # "demo"
      BY FileFresh, SMT
    <3>3. out'[f].by # "demo"
      BY <1>5, <3>1, <3>2, Zenon
    <3> QED  BY <1>7, <3>1, <3>3, Zenon DEF Over
  <2> QED  BY <1>1, <1>6, <1>8, <2>1, <2>2, Zenon DEF PipeInv, Shape
<1>13. SummaryMade'
  <2>1. CASE Fresh(out.workload_summary)
    BY <1>1, <1>3, <1>9, <2>1, Zenon DEF SummaryMade, Fresh, OfThisRun, Exists
  <2>2. CASE "analyzer" \in failed
    BY <1>1, <2>2 DEF SummaryMade
  <2> QED  BY <1>2, <2>1, <2>2 DEF SummaryMade
<1>14. DecisionMade' /\ RecommendationMade' /\ Fresh(out.metrics)' /\ AllTracesMade'
  BY <1>1, <1>2, <1>10, <1>11, Zenon
     DEF DecisionMade, RecommendationMade, AllTracesMade, Fresh, OfThisRun, Exists
<1>15. Made'
  BY <1>1, <1>13, <1>14, SMT DEF Made
<1>16. SameSource' /\ OfThisRun(live.recommendation)' /\ OfThisRun(live.guard_decision)'
       /\ OfThisRun(live.metrics)'
  <2>1. ASSUME NEW f \in {"recommendation", "guard_decision", "metrics"}
        PROVE  live'[f] = out'[f] /\ OfThisRun(out'[f])
    <3>1. Fresh(out[f]) /\ out'[f] = out[f] /\ f \in META_FILES \cup {"metrics"} /\ f \in Names
      BY <1>2, <1>3, <1>10, SMT DEF DecisionMade, RecommendationMade
    <3> QED  BY <1>7, <3>1, Zenon DEF Over, Fresh
  <2> QED  BY <1>1, <2>1, Zenon DEF SameSource, OfThisRun
<1>17. OfThisRun(live.workload_summary)' \/ "analyzer" \in failed'
  <2>1. CASE Fresh(out.workload_summary)
    <3>1. out'["workload_summary"] = out["workload_summary"]
      BY <1>3, <1>9, <2>1, Zenon DEF Fresh
    <3>2. live'["workload_summary"] = out["workload_summary"]
      BY <1>3, <1>7, <2>1, <3>1, Zenon DEF Over, Fresh
    <3> QED  BY <1>1, <2>1, <3>2, Zenon DEF Fresh, OfThisRun
  <2>2. CASE "analyzer" \in failed
    BY <1>1, <2>2
  <2> QED  BY <1>2, <2>1, <2>2 DEF SummaryMade
<1>18. (\A a \in Elems(Executed) : OfThisRun(liveTraces[a]) \/ "capture" \in failed)'
  <2> SUFFICES ASSUME NEW a \in Elems(Executed), "capture" \notin failed
               PROVE  liveTraces'[a].run = run
    BY <1>1, <1>11, Zenon DEF OfThisRun
  <2>1. Fresh(outTraces[a])
    BY <1>2, Zenon DEF AllTracesMade
  <2>2. a \in SUPPORTED_ALGORITHMS
    <3> DEFINE S == SUPPORTED_ALGORITHMS
    <3>1. Executed \in Seq(S)
      BY <1>2, OrderedKnown, Zenon DEF PipeInv, Executed, DecisionMade, Selected
    <3> HIDE DEF S
    <3>2. \A i \in DOMAIN Executed : Executed[i] \in S
      BY <3>1, SMT
    <3> QED  BY <3>2, Zenon DEF Elems, S
  <2> QED  BY <1>8, <2>1, <2>2, Zenon DEF Over, Fresh, OfThisRun
<1>19. MetaShown'
  <2>1. \A f \in {"recommendation", "guard_decision", "metrics"} : OfThisRun(live[f])'
    BY <1>16, SMT
  <2> QED  BY <1>1, <1>17, <1>18, <2>1, Zenon DEF MetaShown, OfThisRun
<1>20. Shown'
  BY <1>1, <1>16, <1>19, SMT DEF Shown, Done, FromManifest, FromPropose, FromApply,
     FromExplain, FromPersist
<1> QED  BY <1>12, <1>15, <1>20 DEF PipeInv

LEMMA ManifestKeeps == PipeInv /\ ManifestStep => PipeInv'
<1> SUFFICES ASSUME PipeInv, ManifestStep PROVE PipeInv'
  OBVIOUS
<1>1. /\ stage = "manifest" /\ stage' = "propose" /\ failed' = failed
      /\ UNCHANGED <<run, req, complete, out, live, outTraces, liveTraces, analyzed>>
  BY Zenon DEF ManifestStep, Keep, Works
<1>2. /\ AllTracesMade /\ Fresh(out.metrics) /\ DecisionMade /\ RecommendationMade /\ SummaryMade
      /\ SameSource /\ MetaShown
  BY <1>1, SMT DEF PipeInv, Made, Shown, FromAdvise, FromGuard, FromRun, FromExport, FromManifest
<1>3. Shape'
  <2>1. ~complete' /\ stage # "idle"
    BY <1>1, SMT DEF PipeInv, Shape
  <2> QED  BY <1>1, <2>1, Zenon DEF PipeInv, Shape
<1>4. Executed' = Executed /\ Selected' = Selected
  BY <1>1, SameOrder, Zenon
<1>5. /\ AllTracesMade' /\ Fresh(out.metrics)' /\ DecisionMade' /\ RecommendationMade' /\ SummaryMade'
      /\ SameSource' /\ MetaShown'
  BY <1>1, <1>2, <1>4, Zenon
     DEF AllTracesMade, DecisionMade, RecommendationMade, SummaryMade, SameSource, MetaShown,
         Fresh, OfThisRun, Exists
<1>6. Stamped'
  <2>1. manifest'.run = run
        /\ ("demo" \in {out.recommendation.by, out.guard_decision.by}
              => manifest'.source = "demo_fallback")
    BY SMT DEF ManifestStep
  <2> QED  BY <1>1, <1>2, <2>1, Zenon DEF Stamped, SameSource
<1>7. Made'
  BY <1>1, <1>5, SMT DEF Made
<1>8. Shown'
  BY <1>1, <1>5, <1>6, SMT DEF Shown, Done, FromApply, FromExplain, FromPersist
<1> QED  BY <1>3, <1>7, <1>8 DEF PipeInv

-----------------------------------------------------------------------------
(* The correction loop.  The steps after the export leave the decision,  *)
(* the comparison and the traces alone.                                    *)

Core == {"recommendation", "guard_decision", "metrics", "workload_summary"}

LEMMA Late ==
  ASSUME PipeInv, stage \in FromPropose, stage' \in FromApply \cup {"idle"},
         failed \subseteq failed',
         UNCHANGED <<run, req, outTraces, liveTraces, manifest, analyzed>>,
         DOMAIN out' = Names, DOMAIN live' = Names,
         \A f \in Core : out'[f] = out[f] /\ live'[f] = live[f],
         \A f \in Names \ Core : out'[f].by # "demo" /\ live'[f].by # "demo",
         stage' # "idle" => ~complete'
  PROVE  Shape' /\ Made' /\ SameSource' /\ MetaShown' /\ Stamped'
<1>1. /\ AllTracesMade /\ Fresh(out.metrics) /\ DecisionMade /\ RecommendationMade /\ SummaryMade
      /\ SameSource /\ MetaShown /\ Stamped
  BY SMT DEF PipeInv, Made, Shown, FromAdvise, FromGuard, FromRun, FromExport, FromManifest
<1>2. Core \subseteq Names
  BY NamesKnown, SMT DEF Core
<1>3. /\ out'["recommendation"] = out["recommendation"] /\ live'["recommendation"] = live["recommendation"]
      /\ out'["guard_decision"] = out["guard_decision"] /\ live'["guard_decision"] = live["guard_decision"]
      /\ out'["metrics"] = out["metrics"] /\ live'["metrics"] = live["metrics"]
      /\ out'["workload_summary"] = out["workload_summary"]
      /\ live'["workload_summary"] = live["workload_summary"]
  BY SMT DEF Core
<1>4. Shape'
  <2>1. ASSUME NEW f \in Names \ {"recommendation", "guard_decision"}
        PROVE  out'[f].by # "demo" /\ live'[f].by # "demo"
    <3>1. CASE f \in Core
      BY <3>1, Zenon DEF PipeInv, Shape
    <3>2. CASE f \notin Core
      BY <3>2, Zenon
    <3> QED  BY <3>1, <3>2
  <2> QED  BY <2>1, Zenon DEF PipeInv, Shape
<1>5. Executed' = Executed /\ Selected' = Selected
  BY <1>3, SameOrder, Zenon
<1>6. /\ SummaryMade' /\ RecommendationMade' /\ DecisionMade' /\ AllTracesMade' /\ Fresh(out.metrics)'
      /\ SameSource' /\ Stamped'
  BY <1>1, <1>3, <1>5, SummaryStays, Zenon
     DEF AllTracesMade, DecisionMade, RecommendationMade, SameSource, Stamped,
         Fresh, OfThisRun, Exists
<1>7. MetaShown'
  <2>1. \A f \in {"recommendation", "guard_decision", "metrics"} : OfThisRun(live[f])'
    BY <1>1, <1>3, SMT DEF MetaShown, OfThisRun
  <2> QED  BY <1>1, <1>3, <1>5, <2>1, Zenon DEF MetaShown, OfThisRun
<1>8. Made'
  BY <1>6, SMT DEF Made, FromApply, FromExplain, FromPersist
<1> QED  BY <1>4, <1>6, <1>7, <1>8

Correcting == CorrectionFiles \cup {"corrected_trace"}

LEMMA DroppedFiles ==
  ASSUME NEW dir
  PROVE  /\ DOMAIN Dropped(dir) = Names
         /\ \A f \in Correcting : Dropped(dir)[f] = NoFile
         /\ \A f \in Names \ Correcting : Dropped(dir)[f] = dir[f]
<1>1. Correcting \subseteq Names
  BY Zenon DEF Correcting, Names
<1> QED  BY <1>1, Zenon DEF Dropped, Correcting

\* Two files of a directory.
LEMMA PutTwo ==
  ASSUME NEW dir, DOMAIN dir = Names, NEW a \in Names, NEW b \in Names \ {a}, NEW x, NEW y
  PROVE  LET new == [dir EXCEPT ![a] = x, ![b] = y]
         IN  /\ DOMAIN new = Names /\ new[a] = x /\ new[b] = y
             /\ \A f \in Names \ {a, b} : new[f] = dir[f]
OBVIOUS

\* What the proposer leaves is the same in both directories.
LEMMA WithFiles ==
  ASSUME NEW events, NEW written \in SUBSET CorrectionFiles
  PROVE  \E made :
           /\ \A f \in CorrectionFiles :
                made[f] = NoFile \/ (made[f].run = run /\ made[f].by = "run")
           /\ \A dir : /\ DOMAIN With(dir, events, written) = Names
                       /\ With(dir, events, written)["corrected_trace"] = NoFile
                       /\ \A f \in Names \ Correcting : With(dir, events, written)[f] = dir[f]
                       /\ \A f \in CorrectionFiles : With(dir, events, written)[f] = made[f]
<1> DEFINE proposal == propose(events, live.recommendation.of)
           of(f) == CASE f = "runtime_events" -> events
                      [] f = "correction_proposal" -> proposal
                      [] OTHER -> cg_validate(proposal)
           made == [f \in CorrectionFiles |-> IF f \in written THEN File("run", of(f)) ELSE NoFile]
<1>1. ASSUME NEW dir
      PROVE  With(dir, events, written) =
               [f \in Names |-> IF f \in written THEN File("run", of(f)) ELSE Dropped(dir)[f]]
  BY Zenon DEF With
<1> HIDE DEF of
<1>2. ASSUME NEW f \in CorrectionFiles
      PROVE  made[f] = NoFile \/ (made[f].run = run /\ made[f].by = "run")
  <2>1. made[f] = File("run", of(f)) \/ made[f] = NoFile
    BY Zenon
  <2>2. File("run", of(f)).run = run /\ File("run", of(f)).by = "run"
    BY FileOf
  <2> HIDE DEF made
  <2> QED  BY <2>1, <2>2, Zenon
<1>3. /\ Correcting \subseteq Names /\ CorrectionFiles \subseteq Correcting
      /\ "corrected_trace" \in Correcting \ CorrectionFiles
  BY NamesKnown, SMT DEF Correcting, CorrectionFiles
<1>4. ASSUME NEW dir
      PROVE  /\ DOMAIN With(dir, events, written) = Names
             /\ With(dir, events, written)["corrected_trace"] = NoFile
             /\ \A f \in Names \ Correcting : With(dir, events, written)[f] = dir[f]
             /\ \A f \in CorrectionFiles : With(dir, events, written)[f] = made[f]
  <2> DEFINE new == [f \in Names |-> IF f \in written THEN File("run", of(f)) ELSE Dropped(dir)[f]]
  <2>1. DOMAIN new = Names /\ \A f \in Names : f \notin written => new[f] = Dropped(dir)[f]
    BY Zenon
  <2>2. ASSUME NEW f \in CorrectionFiles PROVE new[f] = made[f]
    <3>1. f \in Names /\ Dropped(dir)[f] = NoFile
      BY <1>3, DroppedFiles, Zenon
    <3> QED  BY <3>1, Zenon
  <2>3. With(dir, events, written) = new
    BY <1>1
  <2> HIDE DEF new, made
  <2>4. /\ "corrected_trace" \in Names /\ "corrected_trace" \notin written
        /\ \A f \in Names \ Correcting : f \in Names /\ f \notin written
    BY <1>3, Zenon
  <2>5. /\ Dropped(dir)["corrected_trace"] = NoFile
        /\ \A f \in Names \ Correcting : Dropped(dir)[f] = dir[f]
    BY <1>3, DroppedFiles, Zenon
  <2> QED  BY <2>1, <2>2, <2>3, <2>4, <2>5, Zenon
<1> HIDE DEF made
<1> QED  BY <1>2, <1>4, Zenon

LEMMA Proposed ==
  ASSUME PipeInv, stage = "propose", stage' = "apply", failed \subseteq failed',
         UNCHANGED <<run, req, complete, outTraces, liveTraces, manifest, analyzed>>,
         NEW made,
         \A f \in CorrectionFiles : made[f] = NoFile \/ (made[f].run = run /\ made[f].by = "run"),
         DOMAIN out' = Names, DOMAIN live' = Names,
         out'["corrected_trace"] = NoFile, live'["corrected_trace"] = NoFile,
         \A f \in Names \ Correcting : out'[f] = out[f] /\ live'[f] = live[f],
         \A f \in CorrectionFiles : out'[f] = made[f] /\ live'[f] = made[f]
  PROVE  PipeInv'
<1>1. NoFile.by = "nobody" /\ ~Exists(NoFile)
  BY SMT DEF NoFile, Exists
<1>2. /\ Core \subseteq Names \ Correcting
      /\ Correcting = CorrectionFiles \cup {"corrected_trace"}
      /\ \A f \in Names \ Core : f \in Names \ {"recommendation", "guard_decision"}
  BY NamesKnown, SMT DEF Core, Correcting, CorrectionFiles
<1>3. ASSUME NEW f \in CorrectionFiles
      PROVE  made[f].by # "demo" /\ (Exists(made[f]) => made[f].run = run)
  <2>1. CASE made[f] = NoFile
    BY <1>1, <2>1, SMT
  <2>2. CASE made[f].run = run /\ made[f].by = "run"
    BY <2>2, SMT
  <2> QED  BY <2>1, <2>2
<1>4. \A f \in Names \ Core : out'[f].by # "demo" /\ live'[f].by # "demo"
  <2> SUFFICES ASSUME NEW f \in Names \ Core
               PROVE  out'[f].by # "demo" /\ live'[f].by # "demo"
    OBVIOUS
  <2>1. CASE f = "corrected_trace"
    BY <1>1, <2>1, SMT
  <2>2. CASE f \in CorrectionFiles
    BY <1>3, <2>2, Zenon
  <2>3. CASE f \notin Correcting
    BY <1>2, <2>3, Zenon DEF PipeInv, Shape
  <2> QED  BY <1>2, <2>1, <2>2, <2>3, Zenon
<1>5. \A f \in Core : out'[f] = out[f] /\ live'[f] = live[f]
  BY <1>2, Zenon
<1>6. ~complete'
  BY SMT DEF PipeInv, Shape
<1>7. stage \in FromPropose /\ stage' \in FromApply \cup {"idle"}
  BY SMT DEF FromPropose, FromApply
<1>8. Shape' /\ Made' /\ SameSource' /\ MetaShown' /\ Stamped'
  BY <1>4, <1>5, <1>6, <1>7, Late, Zenon
<1>9. NoCorrection'
  BY <1>1, Zenon DEF NoCorrection, Exists
<1>10. CorrectionShown'
  <2>1. ASSUME NEW f \in CorrectionFiles \cup {"corrected_trace"}
        PROVE  live'[f].by # "nobody" => live'[f].run = run' /\ live'[f] = out'[f]
    <3>1. CASE f = "corrected_trace"
      BY <1>1, <3>1, SMT
    <3>2. CASE f \in CorrectionFiles
      BY <1>3, <3>2, Zenon DEF Exists
    <3> QED  BY <3>1, <3>2
  <2> QED  BY <2>1, Zenon DEF CorrectionShown, Exists, OfThisRun
<1>11. Shown'
  BY <1>8, <1>9, <1>10, SMT DEF Shown, Done, FromExplain, FromPersist
<1> QED  BY <1>8, <1>11 DEF PipeInv

LEMMA ProposeWrites ==
  ASSUME ProposeStep
  PROVE  \E events, written :
           /\ written \in SUBSET CorrectionFiles
           /\ out' = With(out, events, written) /\ live' = With(live, events, written)
<1> DEFINE events == Detected(liveTraces[Selected].of, live.metrics.of)
           Writes(files) == out' = With(out, events, files) /\ live' = With(live, events, files)
<1>1. \/ Writes({}) \/ Writes({"runtime_events"}) \/ Writes(CorrectionFiles)
      \/ Writes({"runtime_events", "correction_proposal"})
  BY Zenon DEF ProposeStep
<1>2. {{}, {"runtime_events"}, {"runtime_events", "correction_proposal"}, CorrectionFiles}
        \subseteq SUBSET CorrectionFiles
  BY Zenon DEF CorrectionFiles
<1> HIDE DEF events
<1> QED  BY <1>1, <1>2, Zenon

\* It leaves the files before it alone.
LEMMA ProposeLeaves ==
  ASSUME ProposeStep
  PROVE  \A f \in Names \ Correcting : out'[f] = out[f]
<1>1. PICK events, written :
        written \in SUBSET CorrectionFiles /\ out' = With(out, events, written)
  BY ProposeWrites, Zenon
<1>2. written \in SUBSET CorrectionFiles
  BY <1>1
<1>3. PICK made :
        /\ \A f \in CorrectionFiles :
             made[f] = NoFile \/ (made[f].run = run /\ made[f].by = "run")
        /\ \A dir : /\ DOMAIN With(dir, events, written) = Names
                    /\ With(dir, events, written)["corrected_trace"] = NoFile
                    /\ \A f \in Names \ Correcting : With(dir, events, written)[f] = dir[f]
                    /\ \A f \in CorrectionFiles : With(dir, events, written)[f] = made[f]
  BY <1>2, WithFiles
<1>4. \A f \in Names \ Correcting : With(out, events, written)[f] = out[f]
  BY <1>3, Zenon
<1> QED  BY <1>1, <1>4, Zenon

LEMMA ProposeKeeps == PipeInv /\ ProposeStep => PipeInv'
<1> SUFFICES ASSUME PipeInv, ProposeStep PROVE PipeInv'
  OBVIOUS
<1>1. /\ stage = "propose" /\ stage' = "apply" /\ failed \subseteq failed'
      /\ UNCHANGED <<run, req, complete, outTraces, liveTraces, manifest, analyzed>>
  BY Zenon DEF ProposeStep, Keep, Works, Fails
<1>2. PICK events, written :
        /\ written \in SUBSET CorrectionFiles
        /\ out' = With(out, events, written) /\ live' = With(live, events, written)
  BY ProposeWrites, Zenon
<1>3. written \in SUBSET CorrectionFiles
  BY <1>2
<1>4. PICK made :
        /\ \A f \in CorrectionFiles :
             made[f] = NoFile \/ (made[f].run = run /\ made[f].by = "run")
        /\ \A dir : /\ DOMAIN With(dir, events, written) = Names
                    /\ With(dir, events, written)["corrected_trace"] = NoFile
                    /\ \A f \in Names \ Correcting : With(dir, events, written)[f] = dir[f]
                    /\ \A f \in CorrectionFiles : With(dir, events, written)[f] = made[f]
  BY <1>3, WithFiles
<1> QED  BY <1>1, <1>2, <1>4, Proposed, Zenon

\* A step that writes the same file of both directories.
Publication(name, made, shown) ==
  /\ stage \in FromPropose /\ stage' \in FromApply \cup {"idle"}
  /\ failed \subseteq failed'
  /\ UNCHANGED <<run, req, outTraces, liveTraces, manifest, analyzed>>
  /\ stage' # "idle" => ~complete'
  /\ name \in Names \ Core /\ made.by # "demo" /\ shown.by # "demo"
  /\ out' = [out EXCEPT ![name] = made] /\ live' = [live EXCEPT ![name] = shown]

LEMMA Published ==
  ASSUME PipeInv, NEW name, NEW made, NEW shown, Publication(name, made, shown)
  PROVE  /\ Shape' /\ Made' /\ SameSource' /\ MetaShown' /\ Stamped'
         /\ out'[name] = made /\ live'[name] = shown
         /\ \A f \in Names \ {name} : out'[f] = out[f] /\ live'[f] = live[f]
<1> USE DEF Publication
<1>1. /\ DOMAIN out' = Names /\ out'[name] = made
      /\ \A f \in Names \ {name} : out'[f] = out[f]
  BY PutFile, Zenon DEF PipeInv, Shape
<1>2. /\ DOMAIN live' = Names /\ live'[name] = shown
      /\ \A f \in Names \ {name} : live'[f] = live[f]
  BY PutFile, Zenon DEF PipeInv, Shape
<1>3. /\ \A f \in Core : f \in Names \ {name}
      /\ \A f \in Names \ Core : f \in Names \ {"recommendation", "guard_decision"}
  BY NamesKnown, SMT DEF Core
<1>4. \A f \in Core : out'[f] = out[f] /\ live'[f] = live[f]
  BY <1>1, <1>2, <1>3, Zenon
<1>5. \A f \in Names \ Core : out'[f].by # "demo" /\ live'[f].by # "demo"
  BY <1>1, <1>2, <1>3, Zenon DEF PipeInv, Shape
<1>6. Shape' /\ Made' /\ SameSource' /\ MetaShown' /\ Stamped'
  BY <1>1, <1>2, <1>4, <1>5, Late, Zenon
<1> QED  BY <1>1, <1>2, <1>6

LEMMA CorrectionStays ==
  ASSUME CorrectionShown, run' = run,
         \A f \in Correcting : out'[f] = out[f] /\ live'[f] = live[f]
  PROVE  CorrectionShown'
BY Zenon DEF CorrectionShown, Correcting, OfThisRun, Exists

LEMMA AppliedStays ==
  ASSUME AppliedShown, run' = run,
         live'["correction_applied"] = live["correction_applied"],
         live'["corrected_trace"] = live["corrected_trace"]
  PROVE  AppliedShown'
BY Zenon DEF AppliedShown, OfThisRun, Exists

LEMMA ExplainKeeps == PipeInv /\ ExplainStep => PipeInv'
<1> SUFFICES ASSUME PipeInv, ExplainStep PROVE PipeInv'
  OBVIOUS
<1>1. /\ stage = "explain" /\ stage' = "persist" /\ failed \subseteq failed'
      /\ UNCHANGED <<run, req, complete, outTraces, liveTraces, manifest, analyzed>>
  BY Zenon DEF ExplainStep, Keep, Works, Fails
<1>2. PICK by \in {"run", "stamped", "placeholder"} :
        /\ out' = [out EXCEPT !["trace_explanation"] = File(by, "explanation")]
        /\ live' = [live EXCEPT !["trace_explanation"] = File(by, "explanation")]
  BY Zenon DEF ExplainStep, Publishes
<1> DEFINE file == File(by, "explanation")
<1>3. Fresh(file) /\ file.by # "demo"
  <2>1. Fresh(file) /\ file.by = by
    BY FileFresh, SMT
  <2> QED  BY <2>1, SMT
<1> HIDE DEF file
<1>4. /\ out' = [out EXCEPT !["trace_explanation"] = file]
      /\ live' = [live EXCEPT !["trace_explanation"] = file]
  BY <1>2 DEF file
<1>5. "trace_explanation" \in Names \ Core
  BY NamesKnown, SMT DEF Core
<1>6. \A f \in Correcting \cup {"correction_applied", "corrected_trace"} :
        f \in Names \ {"trace_explanation"}
  BY NamesKnown, SMT DEF Correcting, CorrectionFiles
<1>7. stage \in FromPropose /\ stage' \in FromApply \cup {"idle"} /\ ~complete'
  BY <1>1, SMT DEF FromPropose, FromApply, FromExplain, FromPersist, PipeInv, Shape
<1>8. /\ Shape' /\ Made' /\ SameSource' /\ MetaShown' /\ Stamped'
      /\ live'["trace_explanation"] = file
      /\ \A f \in Names \ {"trace_explanation"} : out'[f] = out[f] /\ live'[f] = live[f]
  <2>1. Publication("trace_explanation", file, file)
    BY <1>1, <1>3, <1>4, <1>5, <1>7, Zenon DEF Publication
  <2> QED  BY <2>1, Published, Zenon
<1>9. CorrectionShown /\ AppliedShown
  BY <1>1, SMT DEF PipeInv, Shown, FromApply, FromExplain
<1>10. CorrectionShown'
  BY <1>1, <1>6, <1>8, <1>9, CorrectionStays, Zenon
<1>11. AppliedShown'
  BY <1>1, <1>6, <1>8, <1>9, AppliedStays, Zenon
<1>12. ExplanationShown'
  BY <1>1, <1>3, <1>8, Zenon DEF ExplanationShown, Fresh, OfThisRun
<1>13. Shown'
  BY <1>1, <1>8, <1>10, <1>11, <1>12, SMT DEF Shown
<1> QED  BY <1>8, <1>13 DEF PipeInv

LEMMA ApplyKeeps == PipeInv /\ ApplyStep => PipeInv'
<1> SUFFICES ASSUME PipeInv, ApplyStep PROVE PipeInv'
  OBVIOUS
<1>1. /\ stage = "apply" /\ stage' = "explain" /\ failed \subseteq failed'
      /\ UNCHANGED <<run, req, complete, outTraces, liveTraces, manifest, analyzed>>
  BY Zenon DEF ApplyStep, Keep, Works, Fails
<1>2. stage \in FromPropose /\ stage' \in FromApply \cup {"idle"} /\ ~complete'
  BY <1>1, SMT DEF FromPropose, FromApply, FromExplain, FromPersist, PipeInv, Shape
<1>3. /\ "correction_applied" \in Names \ Core
      /\ "correction_applied" \in Names /\ "corrected_trace" \in Names \ {"correction_applied"}
      /\ Correcting \subseteq Names \ {"correction_applied"}
      /\ CorrectionFiles \subseteq Names \ {"correction_applied", "corrected_trace"}
      /\ Correcting = CorrectionFiles \cup {"corrected_trace"}
      /\ \A f \in Core : f \in Names \ {"correction_applied", "corrected_trace"}
      /\ \A f \in Names \ Core : f \in Names \ {"recommendation", "guard_decision"}
  BY NamesKnown, SMT DEF Core, Correcting, CorrectionFiles
<1>4. CorrectionShown /\ NoCorrection
  BY <1>1, SMT DEF PipeInv, Shown, FromApply
<1>5. CASE Publishes("correction_applied", File("run", NotApplied))
  <2> DEFINE file == File("run", NotApplied)
  <2>1. Fresh(file) /\ file.by # "demo" /\ ~file.of.applied
    <3>1. Fresh(file) /\ file.by = "run" /\ file.of = NotApplied
      BY FileFresh, FileOf, SMT
    <3>2. ~NotApplied.applied
      BY SMT DEF NotApplied
    <3> QED  BY <3>1, <3>2, SMT
  <2> HIDE DEF file
  <2>2. /\ out' = [out EXCEPT !["correction_applied"] = file]
        /\ live' = [live EXCEPT !["correction_applied"] = file]
    BY <1>5, Zenon DEF Publishes, file
  <2>3. Publication("correction_applied", file, file)
    BY <1>1, <1>2, <1>3, <2>1, <2>2, Zenon DEF Publication
  <2>4. /\ Shape' /\ Made' /\ SameSource' /\ MetaShown' /\ Stamped'
        /\ live'["correction_applied"] = file
        /\ \A f \in Names \ {"correction_applied"} : out'[f] = out[f] /\ live'[f] = live[f]
    BY <2>3, Published, Zenon
  <2>5. CorrectionShown'
    BY <1>1, <1>3, <1>4, <2>4, CorrectionStays, Zenon
  <2>6. ~Exists(live'["corrected_trace"])
    BY <1>3, <1>4, <2>4, Zenon DEF NoCorrection
  <2>7. AppliedShown'
    BY <1>1, <2>1, <2>4, <2>6, Zenon DEF AppliedShown, Fresh, OfThisRun, Exists
  <2>8. Shown'
    BY <1>1, <2>4, <2>5, <2>7, SMT DEF Shown, Done, FromPersist
  <2> QED  BY <2>4, <2>8 DEF PipeInv
<1>6. ASSUME NEW top, NEW algo, NEW m,
             out' = [out EXCEPT !["correction_applied"] = File("run", WasApplied(top, algo, m)),
                                !["corrected_trace"] = File("run", m)],
             live' = [live EXCEPT !["correction_applied"] = File("run", WasApplied(top, algo, m)),
                                  !["corrected_trace"] = File("run", m)]
      PROVE  PipeInv'
  <2> DEFINE note == WasApplied(top, algo, m)
             file == File("run", note)
             trace == File("run", m)
  <2>1. note.applied
    BY SMT DEF WasApplied
  <2>2. trace.run = run /\ trace.by = "run"
    BY FileOf, Zenon
  <2> HIDE DEF note, trace
  <2>3. file.run = run /\ file.by = "run" /\ file.of = note
    BY FileOf, Zenon
  <2> HIDE DEF file
  <2>4. /\ out' = [out EXCEPT !["correction_applied"] = file, !["corrected_trace"] = trace]
        /\ live' = [live EXCEPT !["correction_applied"] = file, !["corrected_trace"] = trace]
    BY <1>6, Zenon DEF file, trace, note
  <2>5. /\ DOMAIN out' = Names /\ out'["correction_applied"] = file /\ out'["corrected_trace"] = trace
        /\ \A f \in Names \ {"correction_applied", "corrected_trace"} : out'[f] = out[f]
    BY <1>3, <2>4, PutTwo, Zenon DEF PipeInv, Shape
  <2>6. /\ DOMAIN live' = Names /\ live'["correction_applied"] = file
        /\ live'["corrected_trace"] = trace
        /\ \A f \in Names \ {"correction_applied", "corrected_trace"} : live'[f] = live[f]
    BY <1>3, <2>4, PutTwo, Zenon DEF PipeInv, Shape
  <2>7. \A f \in Core : out'[f] = out[f] /\ live'[f] = live[f]
    BY <1>3, <2>5, <2>6, Zenon
  <2>8. \A f \in Names \ Core : out'[f].by # "demo" /\ live'[f].by # "demo"
    <3> SUFFICES ASSUME NEW f \in Names \ Core
                 PROVE  out'[f].by # "demo" /\ live'[f].by # "demo"
      OBVIOUS
    <3>1. CASE f = "correction_applied"
      BY <2>3, <2>5, <2>6, <3>1, SMT
    <3>2. CASE f = "corrected_trace"
      BY <2>2, <2>5, <2>6, <3>2, SMT
    <3>3. CASE f \notin {"correction_applied", "corrected_trace"}
      BY <1>3, <2>5, <2>6, <3>3, Zenon DEF PipeInv, Shape
    <3> QED  BY <3>1, <3>2, <3>3, Zenon
  <2>9. Shape' /\ Made' /\ SameSource' /\ MetaShown' /\ Stamped'
    BY <1>1, <1>2, <2>5, <2>6, <2>7, <2>8, Late, Zenon
  <2>10. CorrectionShown'
    <3>1. ASSUME NEW f \in CorrectionFiles \cup {"corrected_trace"}
          PROVE  live'[f].by # "nobody" => live'[f].run = run' /\ live'[f] = out'[f]
      <4>1. CASE f = "corrected_trace"
        BY <1>1, <2>2, <2>5, <2>6, <4>1, SMT
      <4>2. CASE f \in CorrectionFiles
        BY <1>1, <1>3, <1>4, <2>5, <2>6, <4>2, Zenon DEF CorrectionShown, Exists, OfThisRun
      <4> QED  BY <3>1, <4>1, <4>2
    <3> QED  BY <3>1, Zenon DEF CorrectionShown, Exists, OfThisRun
  <2>11. AppliedShown'
    <3>1. live'["corrected_trace"].by # "nobody"
      BY <2>2, <2>6, SMT
    <3> QED  BY <1>1, <2>1, <2>3, <2>6, <3>1, Zenon DEF AppliedShown, OfThisRun, Exists
  <2>12. Shown'
    BY <1>1, <2>9, <2>10, <2>11, SMT DEF Shown, Done, FromPersist
  <2> QED  BY <2>9, <2>12 DEF PipeInv
<1>7. \/ Publishes("correction_applied", File("run", NotApplied))
      \/ \E top, algo, m :
           /\ out' = [out EXCEPT !["correction_applied"] = File("run", WasApplied(top, algo, m)),
                                 !["corrected_trace"] = File("run", m)]
           /\ live' = [live EXCEPT !["correction_applied"] = File("run", WasApplied(top, algo, m)),
                                   !["corrected_trace"] = File("run", m)]
  <2> DEFINE top == out.metrics.of
             algo == Corrected(top)
             canon == normalize_algo(algo)
             m == Measured(req.workload, canon, CorrectedFlags(canon))
  <2>1. \/ Publishes("correction_applied", File("run", NotApplied))
        \/ /\ out' = [out EXCEPT !["correction_applied"] = File("run", WasApplied(top, algo, m)),
                                 !["corrected_trace"] = File("run", m)]
           /\ live' = [live EXCEPT !["correction_applied"] = File("run", WasApplied(top, algo, m)),
                                   !["corrected_trace"] = File("run", m)]
    BY ZenonT(30) DEF ApplyStep
  <2> HIDE DEF top, algo, m
  <2> QED  BY <2>1, Zenon
<1> QED  BY <1>5, <1>6, <1>7

-----------------------------------------------------------------------------
(* After the run.                                                          *)

LEMMA PersistKeeps == PipeInv /\ PersistStep => PipeInv'
<1> SUFFICES ASSUME PipeInv, PersistStep PROVE PipeInv'
  OBVIOUS
<1>1. /\ stage = "persist" /\ stage' = "learn" /\ failed \subseteq failed'
      /\ UNCHANGED <<run, req, complete, out, live, outTraces, liveTraces, manifest, analyzed>>
  BY Zenon DEF PersistStep, Keep, Works, Fails
<1>2. stage \in FromPropose /\ stage' \in FromApply \cup {"idle"} /\ ~complete'
  BY <1>1, SMT DEF FromPropose, FromApply, FromExplain, FromPersist, PipeInv, Shape
<1>3. DOMAIN out' = Names /\ DOMAIN live' = Names
  BY <1>1, Zenon DEF PipeInv, Shape
<1>4. \A f \in Names \ Core : f \in Names \ {"recommendation", "guard_decision"}
  BY SMT DEF Core
<1>5. \A f \in Names \ Core : out'[f].by # "demo" /\ live'[f].by # "demo"
  BY <1>1, <1>4, Zenon DEF PipeInv, Shape
<1>6. \A f \in Core : out'[f] = out[f] /\ live'[f] = live[f]
  BY <1>1
<1>7. Shape' /\ Made' /\ SameSource' /\ MetaShown' /\ Stamped'
  BY <1>1, <1>2, <1>3, <1>5, <1>6, Late, Zenon
<1>8. CorrectionShown /\ AppliedShown /\ ExplanationShown
  BY <1>1, SMT DEF PipeInv, Shown, FromApply, FromExplain, FromPersist
<1>9. CorrectionShown' /\ AppliedShown' /\ ExplanationShown'
  BY <1>1, <1>8, Zenon DEF CorrectionShown, AppliedShown, ExplanationShown, OfThisRun, Exists
<1>10. Shown'
  BY <1>1, <1>7, <1>9, SMT DEF Shown
<1> QED  BY <1>7, <1>10 DEF PipeInv

LEMMA LearnKeeps == PipeInv /\ LearnStep => PipeInv'
<1> SUFFICES ASSUME PipeInv, LearnStep PROVE PipeInv'
  OBVIOUS
<1>1. /\ stage = "learn" /\ stage' = "idle" /\ failed \subseteq failed'
      /\ UNCHANGED <<run, req, outTraces, liveTraces, manifest, analyzed>>
  BY Zenon DEF LearnStep, Works, Fails
<1>2. /\ "feedback_rules" \in Names \ Core
      /\ "feedback_rules" \in Names \ {"recommendation", "guard_decision"}
      /\ \A f \in Correcting \cup {"correction_applied", "corrected_trace", "trace_explanation"} :
           f \in Names \ {"feedback_rules"}
  BY NamesKnown, SMT DEF Core, Correcting, CorrectionFiles
<1> DEFINE old == Over(out.feedback_rules, live.feedback_rules)
<1>3. old.by # "demo" /\ out["feedback_rules"].by # "demo" /\ live["feedback_rules"].by # "demo"
  BY <1>2, Zenon DEF PipeInv, Shape, Over
<1> HIDE DEF old
<1>4. ASSUME NEW new
      PROVE  Over(new, live["feedback_rules"]) \in {new, live["feedback_rules"]}
  BY Zenon DEF Over
<1>5. ASSUME NEW lines, NEW new, NEW file, file = IF new = lines THEN old ELSE File("run", new)
      PROVE  file.by # "demo"
  <2>1. File("run", new).by # "demo"
    BY FileFresh, SMT
  <2> QED  BY <1>3, <1>5, <2>1, Zenon
<1>6. /\ DOMAIN out = Names /\ DOMAIN live = Names
  BY DEF PipeInv, Shape
<1>7. \/ UNCHANGED <<out, live>>
      \/ out' = [out EXCEPT !["feedback_rules"] = old] /\ live' = live
      \/ \E lines, new :
           LET file == IF new = lines THEN old ELSE File("run", new)
           IN  /\ out' = [out EXCEPT !["feedback_rules"] = file]
               /\ live' = [live EXCEPT !["feedback_rules"] = Over(file, live["feedback_rules"])]
  <2> DEFINE lines == IF Exists(old) THEN old.of ELSE << >>
             Learned(answer) == run_feedback(lines, out.metrics.of.judgment, answer)
             file(answer) == IF Learned(answer) = lines THEN old ELSE File("run", Learned(answer))
  <2>1. \/ UNCHANGED <<out, live>>
        \/ out' = [out EXCEPT !["feedback_rules"] = old] /\ live' = live
        \/ \E answer \in Rules :
             /\ out' = [out EXCEPT !["feedback_rules"] = file(answer)]
             /\ live' = [live EXCEPT !["feedback_rules"] = Over(file(answer), live["feedback_rules"])]
    BY ZenonT(30) DEF LearnStep, old
  <2> HIDE DEF lines, Learned
  <2> QED  BY <2>1, Zenon
<1>8. /\ DOMAIN out' = Names /\ DOMAIN live' = Names
      /\ \A f \in Names \ {"feedback_rules"} : out'[f] = out[f] /\ live'[f] = live[f]
      /\ out'["feedback_rules"].by # "demo" /\ live'["feedback_rules"].by # "demo"
  <2>1. CASE UNCHANGED <<out, live>>
    BY <1>3, <1>6, <2>1
  <2>2. CASE out' = [out EXCEPT !["feedback_rules"] = old] /\ live' = live
    <3>1. /\ DOMAIN out' = Names /\ out'["feedback_rules"] = old
          /\ \A f \in Names \ {"feedback_rules"} : out'[f] = out[f]
      BY <1>2, <1>6, <2>2, PutFile, Zenon
    <3> QED  BY <1>3, <1>6, <2>2, <3>1, Zenon
  <2>3. ASSUME NEW lines, NEW new, NEW file, file = IF new = lines THEN old ELSE File("run", new),
               out' = [out EXCEPT !["feedback_rules"] = file],
               live' = [live EXCEPT !["feedback_rules"] = Over(file, live["feedback_rules"])]
        PROVE  /\ DOMAIN out' = Names /\ DOMAIN live' = Names
               /\ \A f \in Names \ {"feedback_rules"} : out'[f] = out[f] /\ live'[f] = live[f]
               /\ out'["feedback_rules"].by # "demo" /\ live'["feedback_rules"].by # "demo"
    <3> DEFINE shown == Over(file, live["feedback_rules"])
    <3>1. file.by # "demo"
      BY <1>5, <2>3, Zenon
    <3>2. shown.by # "demo"
      BY <1>3, <1>4, <3>1, Zenon
    <3> HIDE DEF shown
    <3>3. live' = [live EXCEPT !["feedback_rules"] = shown]
      BY <2>3 DEF shown
    <3>4. /\ DOMAIN out' = Names /\ out'["feedback_rules"] = file
          /\ \A f \in Names \ {"feedback_rules"} : out'[f] = out[f]
      BY <1>2, <1>6, <2>3, PutFile, Zenon
    <3>5. /\ DOMAIN live' = Names /\ live'["feedback_rules"] = shown
          /\ \A f \in Names \ {"feedback_rules"} : live'[f] = live[f]
      BY <1>2, <1>6, <3>3, PutFile, Zenon
    <3> QED  BY <3>1, <3>2, <3>4, <3>5, Zenon
  <2> QED  BY <1>7, <2>1, <2>2, <2>3
<1>9. \A f \in Core : f \in Names \ {"feedback_rules"}
  BY NamesKnown, SMT DEF Core
<1>10. \A f \in Core : out'[f] = out[f] /\ live'[f] = live[f]
  BY <1>8, <1>9, Zenon
<1>11. \A f \in Names \ Core : out'[f].by # "demo" /\ live'[f].by # "demo"
  <2>1. \A f \in Names \ Core : f \in Names \ {"recommendation", "guard_decision"}
    BY SMT DEF Core
  <2> QED  BY <1>8, <2>1, Zenon DEF PipeInv, Shape
<1>12. stage \in FromPropose /\ stage' \in FromApply \cup {"idle"} /\ (stage' # "idle" => ~complete')
  BY <1>1, SMT DEF FromPropose, FromApply, FromExplain, FromPersist
<1>13. Shape' /\ Made' /\ SameSource' /\ MetaShown' /\ Stamped'
  BY <1>1, <1>8, <1>10, <1>11, <1>12, Late, Zenon
<1>14. CorrectionShown /\ AppliedShown /\ ExplanationShown
  BY <1>1, SMT DEF PipeInv, Shown, FromApply, FromExplain, FromPersist
<1>15. CorrectionShown'
  BY <1>1, <1>2, <1>8, <1>14, CorrectionStays, Zenon
<1>16. AppliedShown'
  BY <1>1, <1>2, <1>8, <1>14, AppliedStays, Zenon
<1>17. ExplanationShown'
  BY <1>1, <1>2, <1>8, <1>14, Zenon DEF ExplanationShown, OfThisRun
<1>18. Shown'
  BY <1>1, <1>13, <1>15, <1>16, <1>17, SMT DEF Shown, FromManifest, FromPropose, FromApply,
     FromExplain, FromPersist
<1> QED  BY <1>13, <1>18 DEF PipeInv

LEMMA KilledKeeps == PipeInv /\ Killed => PipeInv'
<1> SUFFICES ASSUME PipeInv, Killed PROVE PipeInv'
  OBVIOUS
<1>1. stage # "idle" /\ stage' = "idle" /\ UNCHANGED <<req, dirVars, complete>>
  BY Zenon DEF Killed
<1>2. ~complete'
  BY <1>1, Zenon DEF PipeInv, Shape
<1>3. Shape'
  BY <1>1, Zenon DEF PipeInv, Shape, dirVars
<1> QED  BY <1>1, <1>2, <1>3, GivesUp DEF PipeInv

LEMMA StutterKeeps == PipeInv /\ UNCHANGED vars => PipeInv'
<1> SUFFICES ASSUME PipeInv, UNCHANGED vars PROVE PipeInv'
  OBVIOUS
<1>1. /\ UNCHANGED <<stage, run, req, todo, out, outTraces, live, liveTraces, manifest, analyzed>>
      /\ UNCHANGED <<failed, complete>>
  BY Zenon DEF vars, dirVars, history
<1>2. Executed' = Executed /\ Selected' = Selected
  BY <1>1, SameOrder, Zenon
<1>3. Shape'
  BY <1>1, Zenon DEF PipeInv, Shape
<1>4. /\ SummaryMade' = SummaryMade /\ RecommendationMade' = RecommendationMade
      /\ DecisionMade' = DecisionMade /\ Fresh(out.metrics)' = Fresh(out.metrics)
  BY <1>1, <1>2, Zenon DEF SummaryMade, RecommendationMade, DecisionMade, Fresh, OfThisRun, Exists
<1>5. TracesMade' = TracesMade /\ AllTracesMade' = AllTracesMade
  BY <1>1, <1>2, Zenon DEF TracesMade, AllTracesMade, Fresh, OfThisRun, Exists
<1>6. Made'
  BY <1>1, <1>4, <1>5, Zenon DEF PipeInv, Made
<1>7. /\ SameSource' = SameSource /\ MetaShown' = MetaShown /\ Stamped' = Stamped
      /\ NoCorrection' = NoCorrection
  BY <1>1, <1>2, Zenon DEF SameSource, MetaShown, Stamped, NoCorrection, OfThisRun, Exists
<1>8. /\ CorrectionShown' = CorrectionShown /\ AppliedShown' = AppliedShown
      /\ ExplanationShown' = ExplanationShown
  BY <1>1, Zenon DEF CorrectionShown, AppliedShown, ExplanationShown, OfThisRun, Exists
<1>9. Shown'
  BY <1>1, <1>7, <1>8, Zenon DEF PipeInv, Shown, Done
<1> QED  BY <1>3, <1>6, <1>9 DEF PipeInv

-----------------------------------------------------------------------------
(* The theorem.                                                            *)

LEMMA PipeInvHolds == PipelineSpec => []PipeInv
<1>1. PipeInv /\ [Next]_vars => PipeInv'
  BY BeginKeeps, AnalyzeKeeps, AdviseKeeps, AdvisorFailsKeeps, GuardKeeps, CaptureKeeps,
     AggregateKeeps, ExportKeeps, ManifestKeeps, ProposeKeeps, ApplyKeeps, ExplainKeeps,
     PersistKeeps, LearnKeeps, KilledKeeps, StutterKeeps, Zenon DEF Next
<1> QED  BY PipeInvInit, <1>1, PTL DEF PipelineSpec

\* When a run of the orchestrator has ended well, the files the dashboard is given, and
\* the traces of the algorithms asked for, are of that run or say that they are not, whatever failed before and whatever earlier runs,
\* complete or not, left in the directories.
THEOREM PublishedFresh == PipelineSpec => []PublishedIsThisRun
<1>1. PipeInv => PublishedIsThisRun
  <2> SUFFICES ASSUME PipeInv, stage = "idle", complete
               PROVE  /\ manifest.run = run
                      /\ \A f \in META_FILES \cup {"metrics", "correction_applied"} :
                           OfThisRun(live[f]) \/ (f = "workload_summary" /\ "analyzer" \in failed)
                      /\ (\E f \in Names : live[f].by = "demo") => manifest.source = "demo_fallback"
                      /\ \A f \in CorrectionFiles \cup {"corrected_trace"} :
                           Exists(live[f]) => OfThisRun(live[f]) /\ live[f] = out[f]
                      /\ Exists(live.corrected_trace) <=> live.correction_applied.of.applied
                      /\ \A i \in DOMAIN Executed :
                           OfThisRun(liveTraces[Executed[i]]) \/ "capture" \in failed
    BY Zenon DEF PublishedIsThisRun
  <2>1. /\ Shape /\ MetaShown /\ Stamped /\ CorrectionShown /\ AppliedShown /\ ExplanationShown
    BY Zenon DEF PipeInv, Shown, Done
  <2>2. ASSUME NEW f \in META_FILES \cup {"metrics", "correction_applied"}
        PROVE  OfThisRun(live[f]) \/ (f = "workload_summary" /\ "analyzer" \in failed)
    BY <2>1, Zenon DEF META_FILES, MetaShown, AppliedShown, ExplanationShown
  <2>3. (\E f \in Names : live[f].by = "demo") => manifest.source = "demo_fallback"
    <3> SUFFICES ASSUME NEW f \in Names, live[f].by = "demo"
                 PROVE  manifest.source = "demo_fallback"
      OBVIOUS
    <3>1. f = "recommendation" \/ f = "guard_decision"
      BY <2>1, Zenon DEF Shape
    <3>2. live["recommendation"].by = "demo" \/ live["guard_decision"].by = "demo"
      BY <3>1, Zenon
    <3> QED  BY <2>1, <3>2, SMT DEF Stamped
  <2>4. \A i \in DOMAIN Executed : OfThisRun(liveTraces[Executed[i]]) \/ "capture" \in failed
    BY <2>1, Zenon DEF MetaShown, Elems
  <2> QED  BY <2>1, <2>2, <2>3, <2>4, Zenon DEF Stamped, CorrectionShown, AppliedShown
<1> QED  BY PipeInvHolds, <1>1, PTL

-----------------------------------------------------------------------------
(* What the files of a run say.                                            *)

SummaryTrue ==
  "analyzer" \in failed \/ out.workload_summary.of = analyze_workload(req.workload)

NoneCaptured == Captured = {}
Planned == Elems(todo) \subseteq Elems(Executed)

\* A trace of this run was planned and is of this run's workload and flags.
TracesTrue ==
  \A a \in Captured :
    a \in Elems(Executed) /\ outTraces[a].of = Measured(req.workload, a, FlagsOf(a))

MetricsTrue ==
  out.metrics.of = build_xv6_metrics(Comparison, normalize_algorithm_name(Executed[1]), TargetIn(out))

RunsCounted == run \in Nat /\ \A a \in SUPPORTED_ALGORITHMS : outTraces[a].run \in 0..run

Contents ==
  /\ RunsCounted
  /\ stage \in FromAdvise => SummaryTrue
  /\ stage \in {"analyze", "advise", "guard"} => NoneCaptured
  /\ stage \in FromRun => TracesTrue
  /\ stage = "run" => Planned
  /\ stage \in FromExport => MetricsTrue

\* What is measured of the traces depends on the decision, the command line and the
\* traces only.
LEMMA SameFlags ==
  ASSUME req' = req, out'.guard_decision = out.guard_decision
  PROVE  \A a : FlagsOf(a)' = FlagsOf(a)
BY SameOrder, Zenon DEF FlagsOf, PredArgs

LEMMA SameComparison ==
  ASSUME req' = req, out'.guard_decision = out.guard_decision, outTraces' = outTraces
  PROVE  Comparison' = Comparison
BY SameOrder, Zenon DEF Comparison, ComparisonOf, Exists

LEMMA SameTraces ==
  ASSUME TracesTrue, UNCHANGED <<run, req, outTraces>>, out'.guard_decision = out.guard_decision
  PROVE  TracesTrue' /\ Captured' = Captured
<1>1. Captured' = Captured
  BY Zenon DEF Captured
<1>2. /\ \A a : FlagsOf(a)' = FlagsOf(a)
      /\ Executed' = Executed
  BY SameFlags, SameOrder, Zenon
<1>3. TracesTrue'
  BY <1>1, <1>2, Zenon DEF TracesTrue
<1> QED  BY <1>1, <1>3

LEMMA SameMetrics ==
  ASSUME MetricsTrue, UNCHANGED <<req, outTraces>>, out'.guard_decision = out.guard_decision,
         out'.metrics = out.metrics, out'.recommendation = out.recommendation
  PROVE  MetricsTrue'
<1>1. Comparison' = Comparison /\ Executed' = Executed
  BY SameComparison, SameOrder, Zenon
<1>2. TargetIn(out)' = TargetIn(out)
  BY Zenon DEF TargetIn
<1> QED  BY <1>1, <1>2, Zenon DEF MetricsTrue

LEMMA SameSummary ==
  ASSUME SummaryTrue, req' = req, failed \subseteq failed',
         out'.workload_summary = out.workload_summary
  PROVE  SummaryTrue'
BY Zenon DEF SummaryTrue

LEMMA SameCount ==
  ASSUME RunsCounted, UNCHANGED <<run, outTraces>>
  PROVE  RunsCounted'
BY Zenon DEF RunsCounted

\* After the comparison nothing of it is written again.
LEMMA LateContents ==
  ASSUME Contents, stage \in FromExport, stage' \in FromManifest \cup {"idle"},
         failed \subseteq failed', UNCHANGED <<run, req, outTraces>>,
         stage' # "idle" => \A f \in Core : out'[f] = out[f]
  PROVE  Contents'
<1>1. RunsCounted'
  BY SameCount, Zenon DEF Contents
<1>2. CASE stage' = "idle"
  BY <1>1, <1>2, SMT DEF Contents, FromAdvise, FromGuard, FromRun, FromExport, FromManifest,
     FromPropose, FromApply, FromExplain, FromPersist
<1>3. CASE stage' \in FromManifest
  <2>1. stage' # "idle" /\ stage' \notin {"analyze", "advise", "guard", "run"}
    BY <1>3, SMT DEF FromManifest, FromPropose, FromApply, FromExplain, FromPersist
  <2>2. /\ out'["guard_decision"] = out["guard_decision"] /\ out'["metrics"] = out["metrics"]
        /\ out'["recommendation"] = out["recommendation"]
        /\ out'["workload_summary"] = out["workload_summary"]
    BY <2>1, SMT DEF Core
  <2>3. SummaryTrue /\ TracesTrue /\ MetricsTrue
    BY SMT DEF Contents, FromAdvise, FromGuard, FromRun
  <2>4. SummaryTrue' /\ TracesTrue' /\ MetricsTrue'
    BY <2>2, <2>3, SameSummary, SameTraces, SameMetrics, Zenon
  <2> QED  BY <1>1, <2>1, <2>4, SMT DEF Contents
<1> QED  BY <1>2, <1>3

-----------------------------------------------------------------------------

LEMMA ContentsInit == Init => Contents
<1> SUFFICES ASSUME Init PROVE Contents
  OBVIOUS
<1>1. stage = "idle" /\ run = 0 /\ outTraces = [a \in SUPPORTED_ALGORITHMS |-> NoFile]
  BY Zenon DEF Init
<1>2. NoFile.run = 0
  BY SMT DEF NoFile
<1>3. RunsCounted
  <2>1. \A a \in SUPPORTED_ALGORITHMS : outTraces[a].run = 0
    BY <1>1, <1>2, Zenon
  <2> QED  BY <1>1, <2>1, SMT DEF RunsCounted
<1> QED  BY <1>1, <1>3, SMT DEF Contents, FromAdvise, FromGuard, FromRun, FromExport,
            FromManifest, FromPropose, FromApply, FromExplain, FromPersist

LEMMA BeginContents == PipeInv /\ Contents /\ Begin => Contents'
<1> SUFFICES ASSUME PipeInv, Contents, Begin PROVE Contents'
  OBVIOUS
<1>1. stage' = "analyze" /\ run' = run + 1 /\ outTraces' = outTraces
  BY Zenon DEF Begin, dirVars
<1>2. RunsCounted
  BY DEF Contents
<1>3. ASSUME NEW a \in SUPPORTED_ALGORITHMS
      PROVE  outTraces'[a].run \in 0..run' /\ outTraces'[a].run # run'
  BY <1>1, <1>2, SMT DEF RunsCounted
<1>4. RunsCounted' /\ NoneCaptured'
  <2>1. run' \in Nat
    BY <1>1, <1>2, SMT DEF RunsCounted
  <2> QED  BY <1>3, <2>1, Zenon DEF RunsCounted, NoneCaptured, Captured
<1> QED  BY <1>1, <1>4, SMT DEF Contents, FromAdvise, FromGuard, FromRun, FromExport,
            FromManifest, FromPropose, FromApply, FromExplain, FromPersist

LEMMA AnalyzeContents == PipeInv /\ Contents /\ AnalyzeStep => Contents'
<1> SUFFICES ASSUME PipeInv, Contents, AnalyzeStep PROVE Contents'
  OBVIOUS
<1> DEFINE new == Over(analyzed', out.workload_summary)
<1>1. /\ stage = "analyze" /\ stage' = "advise" /\ UNCHANGED <<run, req, outTraces>>
      /\ out' = [out EXCEPT !["workload_summary"] = new]
  BY Zenon DEF AnalyzeStep, Keep
<1>2. \/ analyzed' = File("run", analyze_workload(req.workload))
      \/ "analyzer" \in failed'
  BY Zenon DEF AnalyzeStep, Fails
<1>3. out'["workload_summary"] = new
  <2>1. "workload_summary" \in Names /\ DOMAIN out = Names
    BY NamesKnown, SMT DEF PipeInv, Shape
  <2> QED  BY <1>1, <2>1, PutFile, Zenon
<1>4. SummaryTrue'
  <2>1. CASE analyzed' = File("run", analyze_workload(req.workload))
    <3> DEFINE w == analyze_workload(req.workload)
    <3> HIDE DEF w
    <3>1. Exists(File("run", w)) /\ File("run", w).of = w
      BY FileFresh, FileOf, SMT
    <3>2. new = File("run", w)
      BY <2>1, <3>1, Zenon DEF Over, w
    <3> QED  BY <1>1, <1>3, <3>1, <3>2, Zenon DEF SummaryTrue, w
  <2>2. CASE "analyzer" \in failed'
    BY <2>2 DEF SummaryTrue
  <2> QED  BY <1>2, <2>1, <2>2
<1>5. RunsCounted' /\ NoneCaptured'
  <2>1. RunsCounted /\ NoneCaptured
    BY <1>1, Zenon DEF Contents
  <2> QED  BY <1>1, <2>1, Zenon DEF RunsCounted, NoneCaptured, Captured
<1> QED  BY <1>1, <1>4, <1>5, SMT DEF Contents, FromGuard, FromRun, FromExport,
            FromManifest, FromPropose, FromApply, FromExplain, FromPersist

\* A step before the captures that leaves the summary alone.
LEMMA EarlyContents ==
  ASSUME PipeInv, Contents, stage \in {"advise", "guard"}, failed \subseteq failed',
         UNCHANGED <<run, req, outTraces>>,
         \/ stage' = "idle"
         \/ stage' = "guard" /\ out'["workload_summary"] = out["workload_summary"]
         \/ /\ stage' = "run" /\ out'["workload_summary"] = out["workload_summary"]
            /\ todo' = Ordered(out')
  PROVE  Contents'
<1>1. RunsCounted /\ NoneCaptured /\ SummaryTrue
  BY SMT DEF Contents, FromAdvise, FromGuard
<1>2. RunsCounted' /\ NoneCaptured'
  BY <1>1, Zenon DEF RunsCounted, NoneCaptured, Captured
<1>3. CASE stage' = "idle"
  BY <1>2, <1>3, SMT DEF Contents, FromAdvise, FromGuard, FromRun, FromExport, FromManifest,
     FromPropose, FromApply, FromExplain, FromPersist
<1>4. CASE stage' = "guard" /\ out'["workload_summary"] = out["workload_summary"]
  <2>1. SummaryTrue'
    BY <1>1, <1>4, SameSummary, Zenon
  <2> QED  BY <1>2, <1>4, <2>1, SMT DEF Contents, FromRun, FromExport, FromManifest,
              FromPropose, FromApply, FromExplain, FromPersist
<1>5. CASE /\ stage' = "run" /\ out'["workload_summary"] = out["workload_summary"]
           /\ todo' = Ordered(out')
  <2>1. SummaryTrue'
    BY <1>1, <1>5, SameSummary, Zenon
  <2>2. TracesTrue'
    BY <1>2, Zenon DEF TracesTrue, NoneCaptured
  <2>3. Planned'
    BY <1>5, Zenon DEF Planned, Executed, Ordered
  <2> QED  BY <1>2, <1>5, <2>1, <2>2, <2>3, SMT DEF Contents, FromExport, FromManifest,
              FromPropose, FromApply, FromExplain, FromPersist
<1> QED  BY <1>3, <1>4, <1>5

\* Writing the advisor's or the guard's file leaves the summary alone.
LEMMA OtherFile ==
  ASSUME PipeInv, NEW name \in {"recommendation", "guard_decision"}, NEW file,
         out' = [out EXCEPT ![name] = file]
  PROVE  out'["workload_summary"] = out["workload_summary"]
<1>1. DOMAIN out = Names /\ name \in Names /\ "workload_summary" \in Names \ {name}
  BY NamesKnown, SMT DEF PipeInv, Shape
<1> QED  BY <1>1, PutFile, Zenon

LEMMA AdviseContents == PipeInv /\ Contents /\ AdviseStep => Contents'
<1> SUFFICES ASSUME PipeInv, Contents, AdviseStep PROVE Contents'
  OBVIOUS
<1>1. /\ stage = "advise" /\ stage' = "guard" /\ failed \subseteq failed'
      /\ UNCHANGED <<run, req, outTraces>>
  BY Zenon DEF AdviseStep, Keep, Works
<1>2. PICK file : out' = [out EXCEPT !["recommendation"] = file]
  BY Zenon DEF AdviseStep
<1>3. out'["workload_summary"] = out["workload_summary"]
  BY <1>2, OtherFile, SMT
<1>4. stage \in {"advise", "guard"}
  BY <1>1
<1> QED  BY <1>1, <1>3, <1>4, EarlyContents, Zenon

LEMMA AdvisorFailsContents == PipeInv /\ Contents /\ AdvisorFails => Contents'
<1> SUFFICES ASSUME PipeInv, Contents, AdvisorFails PROVE Contents'
  OBVIOUS
<1>1. /\ stage = "advise" /\ failed \subseteq failed' /\ UNCHANGED <<run, req, outTraces>>
  BY Zenon DEF AdvisorFails, Keep, Works, Fails
<1>2. stage' = "idle" \/ (stage' = "guard" /\ out'["workload_summary"] = out["workload_summary"])
  <2>1. CASE /\ out' = [out EXCEPT !["recommendation"] = File("demo", DemoFile("recommendation"))]
             /\ stage' = "guard"
    <3>1. \E file : out' = [out EXCEPT !["recommendation"] = file]
      BY <2>1, Zenon
    <3>2. out'["workload_summary"] = out["workload_summary"]
      BY <3>1, OtherFile, SMT
    <3> QED  BY <2>1, <3>2
  <2>2. CASE stage' = "idle"
    BY <2>2
  <2> QED  BY <2>1, <2>2, Zenon DEF AdvisorFails, Substitutes
<1>3. stage \in {"advise", "guard"}
  BY <1>1
<1> QED  BY <1>1, <1>2, <1>3, EarlyContents, Zenon

LEMMA GuardContents == PipeInv /\ Contents /\ GuardStep => Contents'
<1> SUFFICES ASSUME PipeInv, Contents, GuardStep PROVE Contents'
  OBVIOUS
<1>1. /\ stage = "guard" /\ failed \subseteq failed' /\ UNCHANGED <<run, req, outTraces>>
      /\ stage' = "run" => todo' = Ordered(out')
  BY Zenon DEF GuardStep, Keep, Works, Fails
<1>2. \/ stage' = "idle"
      \/ stage' = "run" /\ \E file : out' = [out EXCEPT !["guard_decision"] = file]
  BY Zenon DEF GuardStep, Substitutes
<1>3. stage' = "idle" \/ (stage' = "run" /\ out'["workload_summary"] = out["workload_summary"])
  BY <1>2, OtherFile, SMT
<1>4. stage \in {"advise", "guard"}
  BY <1>1
<1> QED  BY <1>1, <1>3, <1>4, EarlyContents, Zenon

-----------------------------------------------------------------------------
(* The captures and the comparison.                                        *)

\* A planned capture is of an algorithm of the run.
LEMMA NextPlanned ==
  ASSUME todo \in Seq(SUPPORTED_ALGORITHMS), todo # << >>
  PROVE  /\ Head(todo) \in Elems(todo) /\ Head(todo) \in SUPPORTED_ALGORITHMS
         /\ Elems(Tail(todo)) \subseteq Elems(todo)
<1> DEFINE S == SUPPORTED_ALGORITHMS
<1> HIDE DEF S
<1>1. todo \in Seq(S)
  BY DEF S
<1>2. Head(todo) = todo[1] /\ 1 \in DOMAIN todo /\ todo[1] \in S
  BY <1>1, SMT
<1>3. ASSUME NEW i \in DOMAIN Tail(todo)
      PROVE  i + 1 \in DOMAIN todo /\ Tail(todo)[i] = todo[i + 1]
  BY <1>1, <1>3, SMT
<1>4. Elems(Tail(todo)) \subseteq Elems(todo)
  BY <1>3, Zenon DEF Elems
<1> QED  BY <1>2, <1>4, Zenon DEF Elems, S

LEMMA CaptureContents == PipeInv /\ Contents /\ CaptureStep => Contents'
<1> SUFFICES ASSUME PipeInv, Contents, CaptureStep PROVE Contents'
  OBVIOUS
<1> DEFINE algo == Head(todo)
           found == Measured(req.workload, algo, FlagsOf(algo))
<1>1. /\ stage = "run" /\ stage' = "run" /\ todo # << >> /\ todo' = Tail(todo)
      /\ failed \subseteq failed'
      /\ UNCHANGED <<run, req, out>>
  BY Zenon DEF CaptureStep, Keep, Works, Fails
<1>2. TracesMade /\ DOMAIN outTraces = SUPPORTED_ALGORITHMS
  BY <1>1, SMT DEF PipeInv, Shape, Made
<1>3. RunsCounted /\ SummaryTrue /\ TracesTrue /\ Planned
  BY <1>1, SMT DEF Contents, FromAdvise, FromGuard, FromRun
<1>4. algo \in Elems(todo) /\ algo \in SUPPORTED_ALGORITHMS /\ Elems(todo') \subseteq Elems(todo)
  BY <1>1, <1>2, NextPlanned, Zenon DEF TracesMade
<1>5. Executed' = Executed /\ \A a : FlagsOf(a)' = FlagsOf(a)
  BY <1>1, SameOrder, SameFlags, Zenon
<1>6. Planned'
  BY <1>3, <1>4, <1>5, Zenon DEF Planned
<1>7. SummaryTrue'
  BY <1>1, <1>3, SameSummary, Zenon
<1>8. \/ outTraces' = [outTraces EXCEPT ![algo] = File("run", found)]
      \/ outTraces' = outTraces
  BY Zenon DEF CaptureStep
<1>9. RunsCounted' /\ TracesTrue'
  <2>1. CASE outTraces' = outTraces
    <3>1. out'["guard_decision"] = out["guard_decision"]
      BY <1>1
    <3> QED  BY <1>1, <1>3, <2>1, <3>1, SameCount, SameTraces, Zenon
  <2>2. CASE outTraces' = [outTraces EXCEPT ![algo] = File("run", found)]
    <3> HIDE DEF found, algo
    <3>1. File("run", found).run = run /\ File("run", found).of = found
      BY FileOf, Zenon
    <3>2. /\ outTraces'[algo] = File("run", found)
          /\ \A a \in SUPPORTED_ALGORITHMS \ {algo} : outTraces'[a] = outTraces[a]
      BY <1>2, <1>4, <2>2, Zenon
    <3>3. RunsCounted'
      <4>1. ASSUME NEW a \in SUPPORTED_ALGORITHMS
            PROVE  outTraces'[a].run \in 0..run'
        <5>1. CASE a = algo
          <6>1. outTraces'[a].run = run /\ run' = run /\ run \in Nat
            BY <1>1, <1>3, <3>1, <3>2, <5>1, Zenon DEF RunsCounted
          <6> QED  BY <6>1, SMT
        <5>2. CASE a # algo
          BY <1>1, <1>3, <3>2, <5>2, Zenon DEF RunsCounted
        <5> QED  BY <5>1, <5>2
      <4> QED  BY <1>1, <1>3, <4>1, Zenon DEF RunsCounted
    <3>4. ASSUME NEW a \in Captured'
          PROVE  /\ a \in Elems(Executed')
                 /\ outTraces'[a].of = Measured(req'.workload, a, FlagsOf(a)')
      <4>1. a \in SUPPORTED_ALGORITHMS /\ outTraces'[a].run = run'
        BY <3>4, Zenon DEF Captured
      <4>2. CASE a = algo
        <5>1. a \in Elems(Executed')
          BY <1>3, <1>4, <1>5, <4>2, Zenon DEF Planned
        <5>2. outTraces'[a].of = Measured(req.workload, a, FlagsOf(a))
          BY <3>1, <3>2, <4>2, Zenon DEF found
        <5> QED  BY <1>1, <1>5, <5>1, <5>2, Zenon
      <4>3. CASE a # algo
        <5>1. a \in Captured /\ outTraces'[a] = outTraces[a]
          BY <1>1, <3>2, <4>1, <4>3, Zenon DEF Captured
        <5> QED  BY <1>1, <1>3, <1>5, <5>1, Zenon DEF TracesTrue
      <4> QED  BY <4>2, <4>3
    <3>5. TracesTrue'
      BY <3>4, Zenon DEF TracesTrue
    <3> QED  BY <3>3, <3>5
  <2> QED  BY <1>8, <2>1, <2>2
<1> QED  BY <1>1, <1>6, <1>7, <1>9, SMT DEF Contents, FromExport, FromManifest, FromPropose,
            FromApply, FromExplain, FromPersist

LEMMA AggregateContents == PipeInv /\ Contents /\ AggregateStep => Contents'
<1> SUFFICES ASSUME PipeInv, Contents, AggregateStep PROVE Contents'
  OBVIOUS
<1> DEFINE top == build_xv6_metrics(Comparison, normalize_algorithm_name(Executed[1]), TargetIn(out))
<1>1. /\ stage = "run" /\ failed' = failed /\ UNCHANGED <<run, req, outTraces>>
      /\ \/ stage' = "idle"
         \/ stage' = "export" /\ out' = [out EXCEPT !["metrics"] = File("run", top)]
  BY Zenon DEF AggregateStep, Keep, Works
<1>2. RunsCounted /\ SummaryTrue /\ TracesTrue
  BY <1>1, SMT DEF Contents, FromAdvise, FromGuard, FromRun
<1>3. RunsCounted'
  BY <1>1, <1>2, SameCount, Zenon
<1>4. CASE stage' = "idle"
  BY <1>3, <1>4, SMT DEF Contents, FromAdvise, FromGuard, FromRun, FromExport, FromManifest,
     FromPropose, FromApply, FromExplain, FromPersist
<1>5. CASE stage' = "export" /\ out' = [out EXCEPT !["metrics"] = File("run", top)]
  <2> HIDE DEF top
  <2>1. /\ DOMAIN out = Names /\ "metrics" \in Names
        /\ {"recommendation", "guard_decision", "workload_summary"} \subseteq Names \ {"metrics"}
    BY NamesKnown, SMT DEF PipeInv, Shape
  <2>2. /\ out'["metrics"] = File("run", top)
        /\ out'["guard_decision"] = out["guard_decision"]
        /\ out'["recommendation"] = out["recommendation"]
        /\ out'["workload_summary"] = out["workload_summary"]
    BY <1>5, <2>1, PutFile, Zenon
  <2>3. SummaryTrue' /\ TracesTrue'
    BY <1>1, <1>2, <2>2, SameSummary, SameTraces, Zenon
  <2>4. Comparison' = Comparison /\ Executed' = Executed /\ TargetIn(out)' = TargetIn(out)
    BY <1>1, <2>2, SameComparison, SameOrder, Zenon DEF TargetIn
  <2>5. out'["metrics"].of = top
    <3>1. File("run", top).of = top
      BY FileOf, Zenon
    <3> QED  BY <2>2, <3>1, Zenon
  <2>6. MetricsTrue'
    BY <2>4, <2>5, Zenon DEF MetricsTrue, top
  <2> QED  BY <1>3, <1>5, <2>3, <2>6, SMT DEF Contents, FromExport, FromManifest, FromPropose,
              FromApply, FromExplain, FromPersist
<1> QED  BY <1>1, <1>4, <1>5

LEMMA ExportContents == PipeInv /\ Contents /\ ExportStep => Contents'
<1> SUFFICES ASSUME PipeInv, Contents, ExportStep PROVE Contents'
  OBVIOUS
<1>1. /\ stage = "export" /\ stage' = "manifest" /\ failed' = failed
      /\ UNCHANGED <<run, req, outTraces>>
  BY Zenon DEF ExportStep, Keep, Works
<1>2. /\ Fresh(out.metrics) /\ DecisionMade /\ RecommendationMade /\ SummaryMade
  BY <1>1, SMT DEF PipeInv, Made, FromAdvise, FromGuard, FromRun, FromExport
<1>3. {"recommendation", "guard_decision", "workload_summary", "metrics"} \subseteq Names
  BY NamesKnown, SMT
<1>4. ASSUME NEW f \in Names
      PROVE  Exists(out[f]) => out'[f] = out[f]
  BY Zenon DEF ExportStep
<1>5. /\ out'["recommendation"] = out["recommendation"]
      /\ out'["guard_decision"] = out["guard_decision"]
      /\ out'["metrics"] = out["metrics"]
  BY <1>2, <1>3, <1>4, Zenon DEF DecisionMade, RecommendationMade, Fresh
<1>6. RunsCounted /\ SummaryTrue /\ TracesTrue /\ MetricsTrue
  BY <1>1, SMT DEF Contents, FromAdvise, FromGuard, FromRun, FromExport
<1>7. SummaryTrue'
  <2>1. CASE Fresh(out.workload_summary)
    <3>1. out'["workload_summary"] = out["workload_summary"]
      BY <1>3, <1>4, <2>1, Zenon DEF Fresh
    <3> QED  BY <1>1, <1>6, <3>1, SameSummary, Zenon
  <2>2. CASE "analyzer" \in failed
    BY <1>1, <2>2, Zenon DEF SummaryTrue
  <2> QED  BY <1>2, <2>1, <2>2, Zenon DEF SummaryMade
<1>8. RunsCounted' /\ TracesTrue' /\ MetricsTrue'
  BY <1>1, <1>5, <1>6, SameCount, SameTraces, SameMetrics, Zenon
<1> QED  BY <1>1, <1>7, <1>8, SMT DEF Contents, FromManifest, FromPropose, FromApply,
            FromExplain, FromPersist

-----------------------------------------------------------------------------
(* The steps after the export.                                             *)

LEMMA ManifestContents == PipeInv /\ Contents /\ ManifestStep => Contents'
<1> SUFFICES ASSUME PipeInv, Contents, ManifestStep PROVE Contents'
  OBVIOUS
<1>1. stage \in FromExport /\ stage' \in FromManifest \cup {"idle"}
  BY SMT DEF ManifestStep, FromExport, FromManifest, FromPropose
<1>2. failed \subseteq failed' /\ UNCHANGED <<run, req, out, outTraces>>
  BY Zenon DEF ManifestStep, Keep, Works
<1> QED  BY <1>1, <1>2, LateContents, Zenon

LEMMA ProposeContents == PipeInv /\ Contents /\ ProposeStep => Contents'
<1> SUFFICES ASSUME PipeInv, Contents, ProposeStep PROVE Contents'
  OBVIOUS
<1>1. stage \in FromExport /\ stage' \in FromManifest \cup {"idle"}
  BY SMT DEF ProposeStep, FromExport, FromManifest, FromPropose, FromApply
<1>2. failed \subseteq failed' /\ UNCHANGED <<run, req, outTraces>>
  BY Zenon DEF ProposeStep, Keep, Works, Fails
<1>3. \A f \in Core : f \in Names \ Correcting
  BY NamesKnown, SMT DEF Core, Correcting, CorrectionFiles
<1>4. \A f \in Core : out'[f] = out[f]
  BY <1>3, ProposeLeaves, Zenon
<1> QED  BY <1>1, <1>2, <1>4, LateContents, Zenon

LEMMA ApplyContents == PipeInv /\ Contents /\ ApplyStep => Contents'
<1> SUFFICES ASSUME PipeInv, Contents, ApplyStep PROVE Contents'
  OBVIOUS
<1>1. stage \in FromExport /\ stage' \in FromManifest \cup {"idle"}
  BY SMT DEF ApplyStep, FromExport, FromManifest, FromPropose, FromApply, FromExplain
<1>2. failed \subseteq failed' /\ UNCHANGED <<run, req, outTraces>>
  BY ZenonT(30) DEF ApplyStep, Keep, Works, Fails
<1>3. \/ \E file : out' = [out EXCEPT !["correction_applied"] = file]
      \/ \E file, trace : out' = [out EXCEPT !["correction_applied"] = file,
                                              !["corrected_trace"] = trace]
  BY ZenonT(30) DEF ApplyStep, Publishes
<1>4. /\ \A f \in Core : f \in Names \ {"correction_applied", "corrected_trace"}
      /\ "correction_applied" \in Names
      /\ "corrected_trace" \in Names \ {"correction_applied"}
      /\ DOMAIN out = Names
  BY NamesKnown, SMT DEF Core, PipeInv, Shape
<1>5. \A f \in Core : out'[f] = out[f]
  <2>1. CASE \E file : out' = [out EXCEPT !["correction_applied"] = file]
    BY <1>4, <2>1, PutFile, Zenon
  <2>2. ASSUME NEW file, NEW trace,
               out' = [out EXCEPT !["correction_applied"] = file, !["corrected_trace"] = trace]
        PROVE  \A f \in Core : out'[f] = out[f]
    BY <1>4, <2>2, PutTwo, Zenon
  <2> QED  BY <1>3, <2>1, <2>2
<1> QED  BY <1>1, <1>2, <1>5, LateContents, Zenon

LEMMA ExplainContents == PipeInv /\ Contents /\ ExplainStep => Contents'
<1> SUFFICES ASSUME PipeInv, Contents, ExplainStep PROVE Contents'
  OBVIOUS
<1>1. stage \in FromExport /\ stage' \in FromManifest \cup {"idle"}
  BY SMT DEF ExplainStep, FromExport, FromManifest, FromPropose, FromApply, FromExplain, FromPersist
<1>2. failed \subseteq failed' /\ UNCHANGED <<run, req, outTraces>>
  BY Zenon DEF ExplainStep, Keep, Works, Fails
<1>3. \E file : out' = [out EXCEPT !["trace_explanation"] = file]
  BY Zenon DEF ExplainStep, Publishes
<1>4. /\ \A f \in Core : f \in Names \ {"trace_explanation"}
      /\ "trace_explanation" \in Names /\ DOMAIN out = Names
  BY NamesKnown, SMT DEF Core, PipeInv, Shape
<1>5. \A f \in Core : out'[f] = out[f]
  BY <1>3, <1>4, PutFile, Zenon
<1> QED  BY <1>1, <1>2, <1>5, LateContents, Zenon

LEMMA PersistContents == PipeInv /\ Contents /\ PersistStep => Contents'
<1> SUFFICES ASSUME PipeInv, Contents, PersistStep PROVE Contents'
  OBVIOUS
<1>1. stage \in FromExport /\ stage' \in FromManifest \cup {"idle"}
  BY SMT DEF PersistStep, FromExport, FromManifest, FromPropose, FromApply, FromExplain, FromPersist
<1>2. failed \subseteq failed' /\ UNCHANGED <<run, req, out, outTraces>>
  BY Zenon DEF PersistStep, Keep, Works, Fails
<1> QED  BY <1>1, <1>2, LateContents, Zenon

\* The last step, and a kill at any other.
LEMMA EndContents == PipeInv /\ Contents /\ (LearnStep \/ Killed) => Contents'
<1> SUFFICES ASSUME PipeInv, Contents, LearnStep \/ Killed PROVE Contents'
  OBVIOUS
<1>1. stage' = "idle" /\ UNCHANGED <<run, outTraces>>
  BY Zenon DEF LearnStep, Killed, dirVars
<1>2. RunsCounted'
  BY <1>1, SameCount, Zenon DEF Contents
<1> QED  BY <1>1, <1>2, SMT DEF Contents, FromAdvise, FromGuard, FromRun, FromExport,
            FromManifest, FromPropose, FromApply, FromExplain, FromPersist

LEMMA StutterContents == Contents /\ UNCHANGED vars => Contents'
<1> SUFFICES ASSUME Contents, UNCHANGED vars PROVE Contents'
  OBVIOUS
<1>1. UNCHANGED <<stage, run, req, todo, out, outTraces, failed>>
  BY Zenon DEF vars, dirVars, history
<1>2. Executed' = Executed /\ \A a : FlagsOf(a)' = FlagsOf(a)
  BY <1>1, SameOrder, SameFlags, Zenon
<1>3. Comparison' = Comparison /\ TargetIn(out)' = TargetIn(out) /\ Captured' = Captured
  BY <1>1, SameComparison, Zenon DEF TargetIn, Captured
<1>4. /\ RunsCounted' = RunsCounted /\ SummaryTrue' = SummaryTrue /\ NoneCaptured' = NoneCaptured
      /\ Planned' = Planned
  BY <1>1, <1>2, <1>3, Zenon DEF RunsCounted, SummaryTrue, NoneCaptured, Planned
<1>5. TracesTrue => TracesTrue'
  BY <1>1, <1>2, <1>3, Zenon DEF TracesTrue
<1>6. MetricsTrue => MetricsTrue'
  BY <1>1, <1>2, <1>3, Zenon DEF MetricsTrue
<1> QED  BY <1>1, <1>4, <1>5, <1>6, Zenon DEF Contents

LEMMA ContentsHold == PipelineSpec => [](PipeInv /\ Contents)
<1>1. PipeInv /\ Contents /\ [Next]_vars => Contents'
  BY BeginContents, AnalyzeContents, AdviseContents, AdvisorFailsContents, GuardContents,
     CaptureContents, AggregateContents, ExportContents, ManifestContents, ProposeContents,
     ApplyContents, ExplainContents, PersistContents, EndContents, StutterContents, Zenon DEF Next
<1> QED  BY PipeInvHolds, ContentsInit, <1>1, PTL DEF PipelineSpec

-----------------------------------------------------------------------------
(* The best of a comparison.                                               *)

\* Every set of positive numbers has a least one.
LEMMA LeastNumber ==
  ASSUME NEW T \in SUBSET Nat, T # {}
  PROVE  \E m \in T : \A k \in T : m <= k
<1> DEFINE Smaller == {xy \in Nat \X Nat : xy[1] < xy[2]}
<1>1. IsWellFoundedOn(Smaller, Nat)
  BY NatLessThanWellFounded, Zenon DEF OpToRel
<1>2. PICK m \in T : \A k \in T : <<k, m>> \notin Smaller
  <2> HIDE DEF Smaller
  <2> QED  BY <1>1, WFMin, Zenon
<1>3. ASSUME NEW k \in T PROVE m <= k
  <2>1. <<k, m>> \notin Smaller /\ k \in Nat /\ m \in Nat
    BY <1>2, Zenon
  <2> QED  BY <2>1, SMT
<1> QED  BY <1>3

\* The first place of known where v is smallest, and where it is largest.
FirstMin(v, known, i) == \A k \in known : ~(v[k] < v[i]) /\ (k < i => v[i] < v[k])
FirstMax(v, known, i) == \A k \in known : ~(v[i] < v[k]) /\ (k < i => v[k] < v[i])

\* Of finitely many values there is a smallest, and a first place that has it.
LEMMA FirstSmallest ==
  ASSUME NEW n \in Nat, NEW known \in SUBSET (1..n), known # {}, NEW v \in [1..n -> Int]
  PROVE  \E i \in known : FirstMin(v, known, i)
<1> DEFINE First(i, m) ==
             /\ i \in known /\ i <= m
             /\ \A k \in known : k <= m => ~(v[k] < v[i]) /\ (k < i => v[i] < v[k])
           Bad == {m \in Nat : (\E k \in known : k <= m) /\ ~(\E i \in known : First(i, m))}
<1>1. Bad = {}
  <2> SUFFICES ASSUME Bad # {} PROVE FALSE
    OBVIOUS
  <2>1. PICK m \in Bad : \A k \in Bad : m <= k
    <3>1. Bad \in SUBSET Nat
      OBVIOUS
    <3> HIDE DEF Bad
    <3> QED  BY <3>1, LeastNumber, Zenon
  <2>2. m \in Nat /\ (\E k \in known : k <= m) /\ ~(\E i \in known : First(i, m))
    BY <2>1
  <2>3. m >= 1
    BY <2>2, SMT
  <2>4. m - 1 \in Nat /\ m - 1 \notin Bad
    <3>1. m - 1 \in Nat /\ ~(m <= m - 1)
      BY <2>2, <2>3, SMT
    <3> QED  BY <2>1, <3>1, Zenon
  <2>5. CASE \A k \in known : ~(k <= m - 1)
    <3>1. PICK k \in known : k <= m
      BY <2>2
    <3>2. k \in Nat /\ ~(k <= m - 1)
      BY <2>5, SMT
    <3>3. k = m
      BY <2>2, <3>1, <3>2, SMT
    <3>4. ASSUME NEW j \in known, j <= m PROVE j = k
      <4>1. j \in Nat /\ ~(j <= m - 1)
        BY <2>5, SMT
      <4> QED  BY <2>2, <3>3, <3>4, <4>1, SMT
    <3>5. v[k] \in Int
      BY SMT
    <3>6. ~(v[k] < v[k]) /\ ~(k < k) /\ k <= m
      BY <3>1, <3>2, <3>5, SMT
    <3>7. First(k, m)
      BY <3>4, <3>6, Zenon
    <3> QED  BY <2>2, <3>7, Zenon
  <2>6. CASE \E k \in known : k <= m - 1
    <3>1. PICK i \in known : First(i, m - 1)
      BY <2>4, <2>6, Zenon
    <3>2. v[i] \in Int /\ i \in Nat
      BY SMT
    <3>3. CASE m \in known /\ v[m] < v[i]
      <4>1. ASSUME NEW k \in known, k <= m
            PROVE  ~(v[k] < v[m]) /\ (k < m => v[m] < v[k])
        <5>1. k \in Nat /\ v[k] \in Int /\ v[m] \in Int
          BY <3>3, SMT
        <5>2. CASE k = m
          BY <5>1, <5>2, SMT
        <5>3. CASE k <= m - 1
          <6>1. ~(v[k] < v[i])
            BY <3>1, <5>3, Zenon
          <6>2. v[m] < v[i] /\ v[i] \in Int /\ v[k] \in Int /\ v[m] \in Int
            BY <3>2, <3>3, <5>1
          <6>3. ~(v[k] < v[m]) /\ v[m] < v[k]
            <7> HIDE DEF First, Bad
            <7> QED  BY <6>1, <6>2, SMT
          <6> QED  BY <6>3
        <5> QED  BY <2>2, <4>1, <5>1, <5>2, <5>3, SMT
      <4>2. m <= m
        BY <2>2, SMT
      <4>3. First(m, m)
        BY <3>3, <4>1, <4>2, Zenon
      <4> QED  BY <2>2, <3>3, <4>3, Zenon
    <3>4. CASE ~(m \in known /\ v[m] < v[i])
      <4>1. ASSUME NEW k \in known, k <= m
            PROVE  ~(v[k] < v[i]) /\ (k < i => v[i] < v[k])
        <5>1. CASE k <= m - 1
          BY <3>1, <4>1, <5>1, Zenon
        <5>2. CASE k = m
          <6>1. ~(v[k] < v[i]) /\ ~(k < i)
            BY <2>2, <3>1, <3>2, <3>4, <5>2, SMT
          <6> QED  BY <6>1
        <5>3. k \in Nat
          BY SMT
        <5> QED  BY <2>2, <4>1, <5>1, <5>2, <5>3, SMT
      <4>2. i <= m
        BY <2>2, <3>1, <3>2, SMT
      <4>3. First(i, m)
        BY <4>1, <4>2, Zenon
      <4> QED  BY <2>2, <4>3
    <3> QED  BY <3>3, <3>4
  <2> QED  BY <2>5, <2>6
<1>2. n \notin Bad
  BY <1>1
<1>3. \E k \in known : k <= n
  <2>1. PICK k \in known : TRUE
    OBVIOUS
  <2>2. k \in 1..n
    BY Zenon
  <2>3. k <= n
    BY <2>2, SMT
  <2> QED  BY <2>1, <2>3, Zenon
<1>4. PICK i \in known : First(i, n)
  BY <1>2, <1>3, Zenon
<1>5. \A k \in known : k <= n
  BY SMT
<1> QED  BY <1>4, <1>5, Zenon DEF FirstMin

\* The same for the largest.
LEMMA FirstLargest ==
  ASSUME NEW n \in Nat, NEW known \in SUBSET (1..n), known # {}, NEW v \in [1..n -> Int]
  PROVE  \E i \in known : FirstMax(v, known, i)
<1> DEFINE w == [i \in 1..n |-> 0 - v[i]]
<1>1. w \in [1..n -> Int]
  <2>1. \A i \in 1..n : 0 - v[i] \in Int
    BY SMT
  <2> QED  BY <2>1, Zenon
<1>2. \A i \in 1..n : v[i] \in Int /\ w[i] = 0 - v[i]
  BY Zenon
<1> HIDE DEF w
<1>3. PICK i \in known : FirstMin(w, known, i)
  BY <1>1, FirstSmallest, Zenon
<1>4. ASSUME NEW k \in known
      PROVE  ~(v[i] < v[k]) /\ (k < i => v[k] < v[i])
  <2>1. /\ ~(w[k] < w[i]) /\ (k < i => w[i] < w[k])
        /\ k \in 1..n /\ i \in 1..n
    BY <1>3, Zenon DEF FirstMin
  <2>2. w[k] = 0 - v[k] /\ w[i] = 0 - v[i] /\ v[k] \in Int /\ v[i] \in Int
    BY <1>2, <2>1, Zenon
  <2> QED  BY <2>1, <2>2, SMT
<1> QED  BY <1>4, Zenon DEF FirstMax

\* What is measured is a number, or -1 if there is nothing to average.
MetricRecord(m) ==
  /\ m.starvation_occurred \in BOOLEAN
  /\ \A k \in COMPARED \ {"starvation_occurred"} : m[k] \in Int

LEMMA ComparedIsNumber ==
  ASSUME NEW m, MetricRecord(m), NEW k
  PROVE  Compared(m, k) \in Int
<1>1. CASE k \notin COMPARED
  BY <1>1, SMT DEF Compared, NULL
<1>2. CASE k = "starvation_occurred"
  <2>1. k \in COMPARED
    BY <1>2, SMT DEF COMPARED
  <2>2. Compared(m, k) = IF m[k] THEN 1 ELSE 0
    BY <1>2, <2>1, Zenon DEF Compared
  <2> QED  BY <2>2, SMT
<1>3. CASE k \in COMPARED \ {"starvation_occurred"}
  <2>1. Compared(m, k) = m[k]
    BY <1>3, Zenon DEF Compared
  <2> QED  BY <1>3, <2>1, Zenon DEF MetricRecord
<1> QED  BY <1>1, <1>2, <1>3

Beats(target, a, b) == IF target = "throughput" THEN a > b ELSE a < b

LEMMA BestIsFirst ==
  ASSUME NEW n \in Nat, NEW comparison, DOMAIN comparison = 1..n,
         \A i \in 1..n : MetricRecord(comparison[i].m),
         NEW target, BestAlgorithm(comparison, target) # NONE
  PROVE  \E i \in 1..n :
           /\ BestAlgorithm(comparison, target) = comparison[i].algo
           /\ Compared(comparison[i].m, target) # NULL
           /\ \A k \in 1..n : Compared(comparison[k].m, target) # NULL =>
                /\ ~Beats(target, Compared(comparison[k].m, target), Compared(comparison[i].m, target))
                /\ k < i => Beats(target, Compared(comparison[i].m, target),
                                  Compared(comparison[k].m, target))
<1> DEFINE v == [i \in 1..n |-> Compared(comparison[i].m, target)]
           known == {i \in 1..n : v[i] # NULL}
           Best(i) == \A k \in known : ~Beats(target, v[k], v[i]) /\ (k < i => Beats(target, v[i], v[k]))
           best == CHOOSE i \in known : Best(i)
<1>1. v \in [1..n -> Int]
  BY ComparedIsNumber, Zenon
<1>2. \A i \in 1..n : v[i] = Compared(comparison[i].m, target)
  BY Zenon
<1>3. BestAlgorithm(comparison, target) =
        IF known = {} THEN "none" ELSE comparison[best].algo
  <2> DEFINE Value(i) == Compared(comparison[i].m, target)
             measured == {i \in DOMAIN comparison : Value(i) # NULL}
             Better(i, k) == IF target = "throughput" THEN Value(i) > Value(k) ELSE Value(i) < Value(k)
             Top(i) == \A k \in measured : ~Better(k, i) /\ (k < i => Better(i, k))
  <2>1. BestAlgorithm(comparison, target) =
          IF measured = {} THEN "none" ELSE comparison[CHOOSE i \in measured : Top(i)].algo
    BY Zenon DEF BestAlgorithm
  <2>2. measured = known
    BY Zenon
  <2>3. ASSUME NEW i \in known PROVE Top(i) <=> Best(i)
    <3>1. \A k \in known : Value(k) = v[k]
      BY Zenon
    <3> HIDE DEF Value, v, known
    <3> QED  BY <2>2, <2>3, <3>1, Zenon DEF Beats
  <2> HIDE DEF Top, Best, known, measured
  <2>4. (CHOOSE i \in known : Top(i)) = CHOOSE i \in known : Best(i)
    BY <2>3, Zenon
  <2> QED  BY <2>1, <2>2, <2>4, Zenon
<1>4. known # {}
  BY <1>3, Zenon DEF NONE
<1>5. \E i \in known : Best(i)
  <2>1. known \in SUBSET (1..n)
    BY Zenon
  <2> HIDE DEF known, v
  <2>4. \E i \in known : FirstMax(v, known, i)
    BY <1>1, <1>4, <2>1, FirstLargest, Zenon
  <2>2. CASE target = "throughput"
    <3>2. PICK i \in known : \A k \in known : ~(v[i] < v[k]) /\ (k < i => v[k] < v[i])
      BY <2>4, Zenon DEF FirstMax
    <3>3. \A k \in known : Beats(target, v[k], v[i]) <=> v[i] < v[k]
      <4>1. \A x, y : Beats("throughput", x, y) <=> y < x
        BY SMT DEF Beats
      <4> QED  BY <2>2, <4>1, Zenon
    <3>4. \A k \in known : Beats(target, v[i], v[k]) <=> v[k] < v[i]
      <4>1. \A x, y : Beats("throughput", x, y) <=> y < x
        BY SMT DEF Beats
      <4> QED  BY <2>2, <4>1, Zenon
    <3> QED  BY <3>2, <3>3, <3>4, Zenon
  <2>3. CASE target # "throughput"
    <3>1. \E i \in known : FirstMin(v, known, i)
      BY <1>1, <1>4, <2>1, FirstSmallest, Zenon
    <3> QED  BY <2>3, <3>1, Zenon DEF Beats, FirstMin
  <2> QED  BY <2>2, <2>3
<1>6. best \in known /\ Best(best)
  BY <1>5, Zenon
<1>7. best \in 1..n /\ v[best] # NULL /\ BestAlgorithm(comparison, target) = comparison[best].algo
  BY <1>3, <1>4, <1>6, Zenon
<1>8. ASSUME NEW k \in 1..n, v[k] # NULL
      PROVE  ~Beats(target, v[k], v[best]) /\ (k < best => Beats(target, v[best], v[k]))
  BY <1>6, <1>8, Zenon
<1> HIDE DEF best, v
<1> QED  BY <1>2, <1>7, <1>8, Zenon

-----------------------------------------------------------------------------
(* The outcome store.                                                      *)

\* With a trace of every algorithm that was run the comparison has them all, in the
\* order of the runs.
LEMMA AllFound ==
  ASSUME Executed \in Seq(SUPPORTED_ALGORITHMS), NEW traces,
         \A a \in Elems(Executed) : Exists(traces[a])
  PROVE  LET all == ComparisonOf(traces)
         IN  /\ DOMAIN all = 1..Len(Executed)
             /\ \A n \in 1..Len(Executed) :
                  /\ Executed[n] \in Elems(Executed)
                  /\ all[n].algo = normalize_algorithm_name(Executed[n])
                  /\ all[n].m = traces[Executed[n]].of
<1> DEFINE N == Len(Executed)
           found == {i \in DOMAIN Executed : Exists(traces[Executed[i]])}
           At(n) == CHOOSE i \in found : Cardinality({j \in found : j < i}) = n - 1
           Nth(n) == Executed[At(n)]
<1>1. N \in Nat /\ DOMAIN Executed = 1..N
  BY LenProperties, Zenon
<1>2. \A i \in 1..N : Executed[i] \in Elems(Executed)
  BY <1>1, Zenon DEF Elems
<1>3. found = 1..N
  BY <1>1, <1>2, Zenon
<1>4. ComparisonOf(traces) =
        [n \in 1..Cardinality(found) |->
           [algo |-> normalize_algorithm_name(Nth(n)), m |-> traces[Nth(n)].of]]
  BY Zenon DEF ComparisonOf
<1> HIDE DEF found, N
<1>5. Cardinality(found) = N
  <2>1. Cardinality(1..N) = IF 1 > N THEN 0 ELSE N - 1 + 1
    BY <1>1, FS_Interval
  <2> QED  BY <1>1, <1>3, <2>1, SMT
<1>6. ASSUME NEW i \in found PROVE Cardinality({j \in found : j < i}) = i - 1
  <2>1. i \in 1..N /\ i \in Int /\ i - 1 \in Int
    BY <1>1, <1>3, SMT
  <2>2. {j \in found : j < i} = 1..(i - 1)
    BY <1>1, <1>3, <2>1, SMT
  <2>3. Cardinality(1..(i - 1)) = IF 1 > i - 1 THEN 0 ELSE (i - 1) - 1 + 1
    BY <2>1, FS_Interval
  <2>4. Cardinality(1..(i - 1)) = i - 1
    BY <1>1, <2>1, <2>3, SMT
  <2> QED  BY <2>2, <2>4
<1>7. ASSUME NEW n \in 1..N PROVE At(n) = n
  <2>1. n \in found /\ Cardinality({j \in found : j < n}) = n - 1
    BY <1>3, <1>6, Zenon
  <2>2. At(n) \in found /\ Cardinality({j \in found : j < At(n)}) = n - 1
    BY <2>1, Zenon
  <2>3. At(n) - 1 = n - 1
    BY <1>6, <2>2
  <2>4. At(n) \in Int /\ n \in Int
    BY <1>3, <2>2, SMT
  <2> HIDE DEF At
  <2> QED  BY <2>3, <2>4, SMT
<1> HIDE DEF At
<1>8. ASSUME NEW n \in 1..N
      PROVE  ComparisonOf(traces)[n] =
               [algo |-> normalize_algorithm_name(Executed[n]), m |-> traces[Executed[n]].of]
  BY <1>4, <1>5, <1>7, Zenon
<1>9. ASSUME NEW n \in 1..N
      PROVE  /\ ComparisonOf(traces)[n].algo = normalize_algorithm_name(Executed[n])
             /\ ComparisonOf(traces)[n].m = traces[Executed[n]].of
  <2> DEFINE entry == [algo |-> normalize_algorithm_name(Executed[n]), m |-> traces[Executed[n]].of]
  <2>1. /\ entry.algo = normalize_algorithm_name(Executed[n])
        /\ entry.m = traces[Executed[n]].of
    BY SMT
  <2>2. ComparisonOf(traces)[n] = entry
    BY <1>8, Zenon
  <2> HIDE DEF entry
  <2> QED  BY <2>1, <2>2, Zenon
<1>10. DOMAIN ComparisonOf(traces) = 1..N
  BY <1>4, <1>5, Zenon
<1> QED  BY <1>2, <1>9, <1>10, Zenon DEF N

\* A run whose captures all worked has compared every algorithm it was to run, with
\* what was measured of it.
LEMMA Compares ==
  ASSUME PipeInv, Contents, stage \in FromExport, "capture" \notin failed
  PROVE  LET n == Len(Executed)
         IN  /\ n \in Nat /\ DOMAIN Executed = 1..n /\ DOMAIN Comparison = 1..n
             /\ Executed \in Seq(SUPPORTED_ALGORITHMS)
             /\ \A i \in 1..n :
                  /\ Executed[i] \in Captured
                  /\ Comparison[i].algo = normalize_algorithm_name(Executed[i])
                  /\ Comparison[i].m = outTraces[Executed[i]].of
                  /\ Comparison[i].m = Measured(req.workload, Executed[i], FlagsOf(Executed[i]))
<1>1. DecisionMade /\ AllTracesMade /\ Shape /\ TracesTrue
  BY SMT DEF PipeInv, Contents, Made, FromAdvise, FromGuard, FromRun, FromExport
<1>2. Executed \in Seq(SUPPORTED_ALGORITHMS)
  BY <1>1, OrderedKnown, Zenon DEF DecisionMade, Selected, Executed
<1>3. Len(Executed) \in Nat /\ DOMAIN Executed = 1..Len(Executed)
  BY <1>2, LenProperties, Zenon
<1>4. \A a \in Elems(Executed) : Fresh(outTraces[a])
  BY <1>1, Zenon DEF AllTracesMade
<1>5. \A a \in Elems(Executed) : Exists(outTraces[a])
  BY <1>4, Zenon DEF Fresh
<1>6. /\ DOMAIN Comparison = 1..Len(Executed)
      /\ \A n \in 1..Len(Executed) :
           /\ Executed[n] \in Elems(Executed)
           /\ Comparison[n].algo = normalize_algorithm_name(Executed[n])
           /\ Comparison[n].m = outTraces[Executed[n]].of
  BY <1>2, <1>5, AllFound, Zenon DEF Comparison
<1>7. \A i \in 1..Len(Executed) : Executed[i] \in SUPPORTED_ALGORITHMS
  BY <1>2, <1>3, ElementOfSeq, Zenon
<1>8. \A i \in 1..Len(Executed) : Executed[i] \in Captured
  BY <1>4, <1>6, <1>7, Zenon DEF Captured, Fresh, OfThisRun
<1> QED  BY <1>1, <1>2, <1>3, <1>6, <1>8, Zenon DEF TracesTrue

-----------------------------------------------------------------------------

\* Whatever is run, compute_metrics gives numbers, NULL for an average of nothing.
MeasuredNumbers ==
  \A q \in Requests : \A a \in SUPPORTED_ALGORITHMS :
    \A flags : MetricRecord(Measured(q.workload, a, flags))

NameTrue(s) == "analyzer" \notin s.failed => s.name = s.workload.id

FeaturesTrue(s) ==
  "analyzer" \notin s.failed => s.features = prompt_safe_features(analyze_workload(s.workload))

BestTrue(s) ==
  ("capture" \notin s.failed /\ DOMAIN s.found = SUPPORTED_ALGORITHMS)
    => ~Beaten(s.found, s.best, s.target)

StoreTrue ==
  /\ \E S : store \in Seq(S)
  /\ \A i \in DOMAIN store : NameTrue(store[i]) /\ FeaturesTrue(store[i])

LEMMA AppendOne ==
  ASSUME NEW S, NEW q \in Seq(S), NEW r
  PROVE  /\ Append(q, r) \in Seq(S \cup {r})
         /\ \A i \in DOMAIN q : i \in DOMAIN Append(q, r) /\ Append(q, r)[i] = q[i]
         /\ \A i \in DOMAIN Append(q, r) : i \in DOMAIN q \/ Append(q, r)[i] = r
<1>1. q \in Seq(S \cup {r})
  BY SMT
<1>2. /\ Len(q) \in Nat /\ DOMAIN q = 1..Len(q)
      /\ Append(q, r) \in Seq(S \cup {r})
      /\ Len(Append(q, r)) = Len(q) + 1
      /\ \A i \in 1..Len(q) : Append(q, r)[i] = q[i]
      /\ Append(q, r)[Len(q) + 1] = r
      /\ DOMAIN Append(q, r) = 1..(Len(q) + 1)
  BY <1>1, AppendProperties, LenProperties, SMT
<1> QED  BY <1>2, SMT

\* What a run adds to the store.
LEMMA PersistAdds ==
  ASSUME PersistStep
  PROVE  \/ store' = store
         \/ \E r : /\ store' = Append(store, r)
                   /\ out.metrics.of.best_algorithm # NONE
                   /\ r.name = out.workload_summary.of.id
                   /\ r.features = prompt_safe_features(out.workload_summary.of)
                   /\ r.best = normalize_algo(out.metrics.of.best_algorithm)
                   /\ r.workload = req.workload /\ r.target = TargetIn(out)
                   /\ r.found = [a \in Captured |-> outTraces[a].of] /\ r.failed = failed
<1> DEFINE summary == out.workload_summary.of
           best == out.metrics.of.best_algorithm
           r == [name |-> summary.id, features |-> prompt_safe_features(summary),
                 best |-> normalize_algo(best),
                 workload |-> req.workload, target |-> TargetIn(out),
                 found |-> [a \in Captured |-> outTraces[a].of], failed |-> failed]
<1>1. store' = store \/ (best # NONE /\ store' = Append(store, r))
  BY Zenon DEF PersistStep
<1>2. ASSUME NEW a, NEW b, NEW c, NEW d, NEW e, NEW f, NEW g
      PROVE  LET x == [name |-> a, features |-> b, best |-> c, workload |-> d, target |-> e,
                       found |-> f, failed |-> g]
             IN  /\ x.name = a /\ x.features = b /\ x.best = c /\ x.workload = d
                 /\ x.target = e /\ x.found = f /\ x.failed = g
  BY SMT
<1>3. /\ r.name = summary.id /\ r.features = prompt_safe_features(summary)
      /\ r.best = normalize_algo(best) /\ r.workload = req.workload /\ r.target = TargetIn(out)
      /\ r.found = [a \in Captured |-> outTraces[a].of] /\ r.failed = failed
  BY <1>2, Zenon
<1> HIDE DEF r
<1> QED  BY <1>1, <1>3, Zenon

LEMMA StoreKept ==
  ASSUME Next, ~PersistStep
  PROVE  store' = store
<1>1. ASSUME Begin \/ Killed PROVE store' = store
  BY <1>1, Zenon DEF Begin, Killed, dirVars
<1>2. ASSUME AnalyzeStep \/ AdviseStep \/ AdvisorFails \/ GuardStep \/ CaptureStep
      PROVE  store' = store
  BY <1>2, Zenon DEF AnalyzeStep, AdviseStep, AdvisorFails, GuardStep, CaptureStep, Keep
<1>3. ASSUME AggregateStep \/ ExportStep \/ ManifestStep \/ ProposeStep PROVE store' = store
  BY <1>3, Zenon DEF AggregateStep, ExportStep, ManifestStep, ProposeStep, Keep
<1>4. ASSUME ApplyStep \/ ExplainStep PROVE store' = store
  BY <1>4, ZenonT(30) DEF ApplyStep, ExplainStep, Keep
<1>5. ASSUME LearnStep PROVE store' = store
  BY <1>5, Zenon DEF LearnStep
<1> QED  BY <1>1, <1>2, <1>3, <1>4, <1>5, Zenon DEF Next

LEMMA StoreTrueKept == PipeInv /\ Contents /\ StoreTrue /\ [Next]_vars => StoreTrue'
<1> SUFFICES ASSUME PipeInv, Contents, StoreTrue, [Next]_vars PROVE StoreTrue'
  OBVIOUS
<1>1. CASE store' = store
  BY <1>1, Zenon DEF StoreTrue
<1>2. CASE PersistStep /\ store' # store
  <2>1. PICK r : /\ store' = Append(store, r)
                 /\ out.metrics.of.best_algorithm # NONE
                 /\ r.name = out.workload_summary.of.id
                 /\ r.features = prompt_safe_features(out.workload_summary.of)
                 /\ r.best = normalize_algo(out.metrics.of.best_algorithm)
                 /\ r.workload = req.workload /\ r.target = TargetIn(out)
                 /\ r.found = [a \in Captured |-> outTraces[a].of] /\ r.failed = failed
    BY <1>2, PersistAdds, Zenon
  <2>2. SummaryTrue
    BY <1>2, SMT DEF Contents, PersistStep, FromAdvise, FromGuard, FromRun, FromExport,
       FromManifest, FromPropose, FromApply, FromExplain, FromPersist
  <2>3. \A w : analyze_workload(w).id = w.id
    BY SMT DEF analyze_workload
  <2>4. NameTrue(r) /\ FeaturesTrue(r)
    BY <2>1, <2>2, <2>3, Zenon DEF NameTrue, FeaturesTrue, SummaryTrue
  <2>5. PICK S : store \in Seq(S)
    BY Zenon DEF StoreTrue
  <2>6. /\ Append(store, r) \in Seq(S \cup {r})
        /\ \A i \in DOMAIN Append(store, r) : i \in DOMAIN store \/ Append(store, r)[i] = r
        /\ \A i \in DOMAIN store : Append(store, r)[i] = store[i]
    BY <2>5, AppendOne, Zenon
  <2>7. ASSUME NEW i \in DOMAIN store' PROVE NameTrue(store'[i]) /\ FeaturesTrue(store'[i])
    BY <2>1, <2>4, <2>6, Zenon DEF StoreTrue
  <2> QED  BY <2>1, <2>6, <2>7, Zenon DEF StoreTrue
<1>3. CASE ~PersistStep
  <2>1. store' = store
    BY <1>3, StoreKept, Zenon DEF vars, dirVars
  <2> QED  BY <1>1, <2>1
<1> QED  BY <1>1, <1>2, <1>3

\* Of a run with all six algorithms and all their traces, the best one is beaten by
\* none that was found.
LEMMA BestIsUnbeaten ==
  ASSUME MeasuredNumbers, PipeInv, Contents, stage \in FromExport, "capture" \notin failed,
         Captured = SUPPORTED_ALGORITHMS, out.metrics.of.best_algorithm # NONE
  PROVE  ~Beaten([a \in Captured |-> outTraces[a].of],
                 normalize_algo(out.metrics.of.best_algorithm), TargetIn(out))
<1> DEFINE n == Len(Executed)
           target == TargetIn(out)
           found == [a \in Captured |-> outTraces[a].of]
           Value(i) == Compared(Comparison[i].m, target)
<1>1. /\ n \in Nat /\ DOMAIN Executed = 1..n /\ DOMAIN Comparison = 1..n
      /\ Executed \in Seq(SUPPORTED_ALGORITHMS)
      /\ \A i \in 1..n :
           /\ Executed[i] \in Captured
           /\ Comparison[i].algo = normalize_algorithm_name(Executed[i])
           /\ Comparison[i].m = outTraces[Executed[i]].of
           /\ Comparison[i].m = Measured(req.workload, Executed[i], FlagsOf(Executed[i]))
  BY Compares, Zenon
<1>2. MetricsTrue /\ TracesTrue /\ req \in Requests
  BY SMT DEF Contents, PipeInv, Shape, FromRun
<1>3. out.metrics.of.best_algorithm = BestAlgorithm(Comparison, target)
  <2> DEFINE top == build_xv6_metrics(Comparison, normalize_algorithm_name(Executed[1]), target)
  <2>1. top.best_algorithm = BestAlgorithm(Comparison, target)
    BY SMT DEF build_xv6_metrics
  <2>2. out.metrics.of = top
    BY <1>2, Zenon DEF MetricsTrue
  <2> HIDE DEF top
  <2> QED  BY <2>1, <2>2, Zenon
<1>4. \A i \in 1..n : MetricRecord(Comparison[i].m)
  BY <1>1, <1>2, Zenon DEF MeasuredNumbers, Captured
<1>5. BestAlgorithm(Comparison, target) # NONE
  BY <1>3, Zenon
<1>6. PICK i \in 1..n :
        /\ BestAlgorithm(Comparison, target) = Comparison[i].algo
        /\ Compared(Comparison[i].m, target) # NULL
        /\ \A k \in 1..n : Compared(Comparison[k].m, target) # NULL =>
             /\ ~Beats(target, Compared(Comparison[k].m, target), Compared(Comparison[i].m, target))
             /\ k < i => Beats(target, Compared(Comparison[i].m, target),
                               Compared(Comparison[k].m, target))
  <2> HIDE DEF n, target
  <2> QED  BY <1>1, <1>4, <1>5, BestIsFirst
<1> HIDE DEF n
<1>7. \A k \in 1..n : found[Executed[k]] = Comparison[k].m
  BY <1>1, Zenon
<1>8. normalize_algo(out.metrics.of.best_algorithm) = Executed[i]
  BY <1>1, <1>3, <1>6, NamesReadBack, Zenon DEF Captured
<1>9. ASSUME NEW b \in SUPPORTED_ALGORITHMS PROVE \E k \in 1..n : Executed[k] = b
  BY <1>1, <1>2, Zenon DEF TracesTrue, Elems
<1>10. DOMAIN found = SUPPORTED_ALGORITHMS
  BY Zenon
<1> HIDE DEF found
<1>11. \A k \in 1..n : Compared(found[Executed[k]], target) = Value(k)
  BY <1>7, Zenon
<1>12. ASSUME NEW b \in SUPPORTED_ALGORITHMS, Compared(found[b], target) # NULL
       PROVE  ~Beats(target, Compared(found[b], target), Compared(found[Executed[i]], target))
  <2>1. PICK k \in 1..n : Executed[k] = b
    BY <1>9
  <2> QED  BY <1>6, <1>11, <1>12, <2>1, Zenon
<1>13. Compared(found[Executed[i]], target) # NULL
  BY <1>6, <1>11, Zenon
<1>14. ~Beaten(found, Executed[i], target)
  BY <1>10, <1>12, <1>13, Zenon DEF Beaten, Beats
<1> QED  BY <1>8, <1>14, Zenon DEF found

AllBest == \A i \in DOMAIN store : BestTrue(store[i])

LEMMA AllBestKept ==
  ASSUME MeasuredNumbers
  PROVE  PipeInv /\ Contents /\ StoreTrue /\ AllBest /\ [Next]_vars => AllBest'
<1> SUFFICES ASSUME PipeInv, Contents, StoreTrue, AllBest, [Next]_vars PROVE AllBest'
  OBVIOUS
<1>1. CASE store' = store
  BY <1>1, Zenon DEF AllBest
<1>2. CASE PersistStep /\ store' # store
  <2>1. PICK r : /\ store' = Append(store, r)
                 /\ out.metrics.of.best_algorithm # NONE
                 /\ r.name = out.workload_summary.of.id
                 /\ r.features = prompt_safe_features(out.workload_summary.of)
                 /\ r.best = normalize_algo(out.metrics.of.best_algorithm)
                 /\ r.workload = req.workload /\ r.target = TargetIn(out)
                 /\ r.found = [a \in Captured |-> outTraces[a].of] /\ r.failed = failed
    BY <1>2, PersistAdds, Zenon
  <2>2. stage \in FromExport
    BY <1>2, SMT DEF PersistStep, FromExport, FromManifest, FromPropose, FromApply, FromExplain,
       FromPersist
  <2>3. DOMAIN r.found = Captured
    BY <2>1, Zenon
  <2>4. BestTrue(r)
    <3> SUFFICES ASSUME "capture" \notin failed, Captured = SUPPORTED_ALGORITHMS
                 PROVE  ~Beaten(r.found, r.best, r.target)
      BY <2>1, <2>3, Zenon DEF BestTrue
    <3>1. ~Beaten([a \in Captured |-> outTraces[a].of],
                  normalize_algo(out.metrics.of.best_algorithm), TargetIn(out))
      BY <2>1, <2>2, BestIsUnbeaten, Zenon
    <3> QED  BY <2>1, <3>1, Zenon
  <2>5. PICK S : store \in Seq(S)
    BY Zenon DEF StoreTrue
  <2>6. /\ \A i \in DOMAIN Append(store, r) : i \in DOMAIN store \/ Append(store, r)[i] = r
        /\ \A i \in DOMAIN store : Append(store, r)[i] = store[i]
    BY <2>5, AppendOne, Zenon
  <2>7. ASSUME NEW i \in DOMAIN store' PROVE BestTrue(store'[i])
    BY <2>1, <2>4, <2>6, Zenon DEF AllBest
  <2> QED  BY <2>7, Zenon DEF AllBest
<1>3. CASE ~PersistStep
  <2>1. store' = store
    BY <1>3, StoreKept, Zenon DEF vars, dirVars
  <2> QED  BY <1>1, <2>1
<1> QED  BY <1>1, <1>2, <1>3

LEMMA StoreInit == Init => StoreTrue /\ AllBest
<1> SUFFICES ASSUME Init PROVE StoreTrue /\ AllBest
  OBVIOUS
<1>1. store = << >>
  BY Zenon DEF Init
<1>2. store \in Seq({}) /\ DOMAIN store = {}
  BY <1>1, SMT
<1> QED  BY <1>2, Zenon DEF StoreTrue, AllBest

\* What the outcome store teaches later runs is true: a record whose analysis and
\* captures did not fail has the name and the features of the workload it was run
\* on, and if all six algorithms were run the one it calls best was measured best.
THEOREM StoreTeachesTruth ==
  ASSUME MeasuredNumbers
  PROVE  PipelineSpec => []LearnsTruth
<1>1. StoreTrue /\ AllBest => LearnsTruth
  BY Zenon DEF StoreTrue, AllBest, NameTrue, FeaturesTrue, BestTrue, LearnsTruth
<1>2. PipeInv /\ Contents /\ StoreTrue /\ AllBest /\ [Next]_vars => (StoreTrue /\ AllBest)'
  BY StoreTrueKept, AllBestKept, Zenon
<1> QED  BY ContentsHold, StoreInit, <1>1, <1>2, PTL DEF PipelineSpec

-----------------------------------------------------------------------------
(* The prompt.                                                             *)

Summary(file) == Exists(file) => \E w : file.of = analyze_workload(w)
SummariesAnalyzed == Summary(analyzed) /\ Summary(out.workload_summary)

PromptMade ==
  "summary" \in DOMAIN prompt =>
    /\ \E w : prompt.summary = build_user_prompt(analyze_workload(w))
    /\ \A p \in prompt.precedents :
         /\ p.record \in DOMAIN store
         /\ "analyzer" \notin failed => store[p.record].name # req.workload.id

\* What is left of a summary in the prompt.
LEMMA PromptShape ==
  ASSUME NEW w
  PROVE  LET shown == build_user_prompt(analyze_workload(w))
         IN  /\ DOMAIN shown \cap {"total_cpu_work", "expected", "id"} = {}
             /\ \A i \in DOMAIN shown.visible_processes :
                  DOMAIN shown.visible_processes[i] \cap {"label", "bursts"} = {}
<1> DEFINE summary == analyze_workload(w)
           VisibleKeys == DOMAIN summary \ PROMPT_STRIP_KEYS
           safe == [x \in VisibleKeys |-> summary[x]]
           vps == summary.visible_processes
           left == [i \in DOMAIN vps |-> [x \in DOMAIN vps[i] \ VISIBLE_PROCESS_STRIP_KEYS |-> vps[i][x]]]
           shown == build_user_prompt(summary)
<1>1. vps = [i \in DOMAIN w.processes |->
               [pid |-> w.processes[i].pid, arrival_time |-> w.processes[i].arrival_time,
                priority |-> w.processes[i].priority, label |-> w.processes[i].label,
                burst_count |-> Len(w.processes[i].bursts), io_count |-> w.processes[i].ios]]
  BY Zenon DEF analyze_workload
<1>2. DOMAIN summary = FeatureKeys \cup {"id", "expected", "total_cpu_work", "visible_processes"}
  BY SMT DEF analyze_workload, FeatureKeys
<1>3. ASSUME NEW i \in DOMAIN vps
      PROVE  DOMAIN vps[i] = {"pid", "arrival_time", "priority", "label", "burst_count", "io_count"}
  BY <1>1, SMT
<1> HIDE DEF summary, vps
<1>4. "visible_processes" \in VisibleKeys
  BY <1>2, SMT DEF PROMPT_STRIP_KEYS
<1>5. shown = [safe EXCEPT !.visible_processes = left]
  <2>1. \A f, S : Restrict(f, S) = [x \in S |-> f[x]]
    BY Zenon DEF Restrict
  <2>2. safe.visible_processes = vps
    BY <1>4, Zenon DEF vps
  <2>3. shown = [safe EXCEPT !.visible_processes =
                   [i \in DOMAIN @ |-> Restrict(@[i], DOMAIN @[i] \ VISIBLE_PROCESS_STRIP_KEYS)]]
    BY <2>1, Zenon DEF build_user_prompt
  <2> HIDE DEF safe, shown
  <2>4. shown = [safe EXCEPT !.visible_processes =
                   [i \in DOMAIN safe.visible_processes |->
                      Restrict(safe.visible_processes[i],
                               DOMAIN safe.visible_processes[i] \ VISIBLE_PROCESS_STRIP_KEYS)]]
    BY <2>3, Zenon
  <2> QED  BY <2>1, <2>2, <2>4, Zenon
<1>6. DOMAIN safe = VisibleKeys
  BY Zenon
<1> HIDE DEF safe, shown, left
<1>7. DOMAIN shown = VisibleKeys /\ shown.visible_processes = left
  BY <1>4, <1>5, <1>6, Zenon
<1>8. DOMAIN shown \cap {"total_cpu_work", "expected", "id"} = {}
  BY <1>7, SMT DEF PROMPT_STRIP_KEYS
<1>9. ASSUME NEW i \in DOMAIN left PROVE DOMAIN left[i] \cap {"label", "bursts"} = {}
  <2>1. i \in DOMAIN vps /\ DOMAIN left[i] = DOMAIN vps[i] \ VISIBLE_PROCESS_STRIP_KEYS
    BY <1>9, Zenon DEF left
  <2> QED  BY <1>3, <2>1, SMT DEF VISIBLE_PROCESS_STRIP_KEYS
<1> QED  BY <1>7, <1>8, <1>9, Zenon DEF shown, summary

LEMMA SummariesKept == PipeInv /\ SummariesAnalyzed /\ [Next]_vars => SummariesAnalyzed'
<1> SUFFICES ASSUME PipeInv, SummariesAnalyzed, [Next]_vars PROVE SummariesAnalyzed'
  OBVIOUS
<1>1. CASE analyzed' = analyzed /\ out'["workload_summary"] = out["workload_summary"]
  BY <1>1, Zenon DEF SummariesAnalyzed, Summary, Exists
<1>2. /\ DOMAIN out = Names /\ "workload_summary" \in Names
      /\ {"recommendation", "guard_decision", "metrics", "correction_applied", "corrected_trace",
          "trace_explanation", "feedback_rules"} \subseteq Names \ {"workload_summary"}
      /\ "corrected_trace" \in Names \ {"correction_applied"}
      /\ "workload_summary" \in Names \ {"correction_applied", "corrected_trace"}
      /\ "workload_summary" \in Names \ Correcting
  BY NamesKnown, SMT DEF PipeInv, Shape, Correcting, CorrectionFiles
<1>3. CASE AnalyzeStep
  <2> DEFINE new == Over(analyzed', out.workload_summary)
  <2>1. out' = [out EXCEPT !["workload_summary"] = new]
    BY <1>3, Zenon DEF AnalyzeStep
  <2>2. out'["workload_summary"] = new
    BY <1>2, <2>1, PutFile, Zenon
  <2>3. analyzed' = File("run", analyze_workload(req.workload)) \/ analyzed' = analyzed
    BY <1>3, Zenon DEF AnalyzeStep
  <2>4. Summary(analyzed')
    <3>1. File("run", analyze_workload(req.workload)).of = analyze_workload(req.workload)
      BY FileOf, Zenon
    <3> QED  BY <2>3, <3>1, Zenon DEF SummariesAnalyzed, Summary
  <2>5. Summary(new)
    BY <2>4, Zenon DEF SummariesAnalyzed, Summary, Over
  <2> QED  BY <2>2, <2>4, <2>5, Zenon DEF SummariesAnalyzed, Summary, Exists
<1>4. CASE ExportStep
  <2>1. analyzed' = analyzed
    BY <1>4, Zenon DEF ExportStep, Keep
  <2>2. \/ out'["workload_summary"] = out["workload_summary"]
        \/ out'["workload_summary"] = File("stamped", DemoFile("workload_summary"))
    BY <1>2, <1>4, Zenon DEF ExportStep
  <2>3. DemoFile("workload_summary") = analyze_workload(Demo.workload)
    BY SMT DEF DemoFile
  <2>4. Summary(File("stamped", DemoFile("workload_summary")))
    <3>1. File("stamped", DemoFile("workload_summary")).of = DemoFile("workload_summary")
      BY FileOf, Zenon
    <3> QED  BY <2>3, <3>1, Zenon DEF Summary
  <2>5. Summary(out.workload_summary)'
    BY <2>2, <2>4, Zenon DEF SummariesAnalyzed, Summary, Exists
  <2>6. Summary(analyzed)'
    BY <2>1, Zenon DEF SummariesAnalyzed, Summary, Exists
  <2> QED  BY <2>5, <2>6, Zenon DEF SummariesAnalyzed
<1>5. ASSUME Begin \/ CaptureStep \/ ManifestStep \/ PersistStep \/ Killed \/ UNCHANGED vars
      PROVE  analyzed' = analyzed /\ out' = out
  BY <1>5, Zenon DEF Begin, CaptureStep, ManifestStep, PersistStep, Killed, Keep, dirVars, vars
<1>6. ASSUME AdviseStep \/ AdvisorFails \/ GuardStep \/ AggregateStep
      PROVE  /\ analyzed' = analyzed
             /\ \/ out' = out
                \/ \E file : \/ out' = [out EXCEPT !["recommendation"] = file]
                             \/ out' = [out EXCEPT !["guard_decision"] = file]
                             \/ out' = [out EXCEPT !["metrics"] = file]
  BY <1>6, Zenon DEF AdviseStep, AdvisorFails, GuardStep, AggregateStep, Keep, Substitutes
<1>7. ASSUME ProposeStep
      PROVE  /\ analyzed' = analyzed
             /\ \A f \in Names \ Correcting : out'[f] = out[f]
  BY <1>7, ProposeLeaves, Zenon DEF ProposeStep, Keep
<1>8. ASSUME ApplyStep
      PROVE  /\ analyzed' = analyzed
             /\ \/ \E file : out' = [out EXCEPT !["correction_applied"] = file]
                \/ \E file, trace : out' = [out EXCEPT !["correction_applied"] = file,
                                                       !["corrected_trace"] = trace]
  BY <1>8, ZenonT(30) DEF ApplyStep, Publishes, Keep
<1>9. ASSUME ExplainStep \/ LearnStep
      PROVE  /\ analyzed' = analyzed
             /\ \/ out' = out
                \/ \E file : \/ out' = [out EXCEPT !["trace_explanation"] = file]
                             \/ out' = [out EXCEPT !["feedback_rules"] = file]
  BY <1>9, ZenonT(30) DEF ExplainStep, LearnStep, Publishes, Keep
<1>11. ASSUME NEW name \in Names \ {"workload_summary"}, NEW file
       PROVE  [out EXCEPT ![name] = file]["workload_summary"] = out["workload_summary"]
  BY <1>2, PutFile, Zenon
<1>12. ASSUME NEW file, NEW trace
       PROVE  [out EXCEPT !["correction_applied"] = file, !["corrected_trace"] = trace]["workload_summary"]
                = out["workload_summary"]
  BY <1>2, PutTwo, Zenon
<1>13. CASE ProposeStep
  <2>1. out'["workload_summary"] = out["workload_summary"]
    BY <1>2, <1>7, <1>13, Zenon
  <2> QED  BY <1>1, <1>7, <1>13, <2>1, Zenon
<1>14. CASE ApplyStep
  <2>1. out'["workload_summary"] = out["workload_summary"]
    BY <1>2, <1>8, <1>11, <1>12, <1>14, Zenon
  <2> QED  BY <1>1, <1>8, <1>14, <2>1, Zenon
<1>15. CASE AdviseStep \/ AdvisorFails \/ GuardStep \/ AggregateStep \/ ExplainStep \/ LearnStep
  <2>1. out'["workload_summary"] = out["workload_summary"]
    BY <1>2, <1>6, <1>9, <1>11, <1>15, Zenon
  <2> QED  BY <1>1, <1>6, <1>9, <1>15, <2>1, Zenon
<1>16. CASE Begin \/ CaptureStep \/ ManifestStep \/ PersistStep \/ Killed \/ UNCHANGED vars
  BY <1>1, <1>5, <1>16, Zenon
<1> QED  BY <1>3, <1>4, <1>13, <1>14, <1>15, <1>16, Zenon DEF Next

LEMMA PromptStays ==
  ASSUME PromptMade, StoreTrue, UNCHANGED <<prompt, req>>, failed \subseteq failed',
         store' = store \/ \E r : store' = Append(store, r)
  PROVE  PromptMade'
<1>1. PICK S : store \in Seq(S)
  BY Zenon DEF StoreTrue
<1>2. ASSUME NEW i \in DOMAIN store PROVE i \in DOMAIN store' /\ store'[i] = store[i]
  <2>1. ASSUME NEW r, store' = Append(store, r)
        PROVE  i \in DOMAIN store' /\ store'[i] = store[i]
    <3>1. \A j \in DOMAIN store : j \in DOMAIN Append(store, r) /\ Append(store, r)[j] = store[j]
      BY <1>1, AppendOne, Zenon
    <3> QED  BY <2>1, <3>1
  <2> QED  BY <2>1, Zenon
<1> QED  BY <1>2, Zenon DEF PromptMade

\* The advisor is asked about the workload of the run, unless its analysis failed.
LEMMA AskedMade ==
  ASSUME PipeInv, Contents, SummariesAnalyzed, AdviseStep
  PROVE  PromptMade'
<1> DEFINE summary == out.workload_summary.of
<1>1. /\ stage = "advise" /\ prompt' \in Asked(summary) /\ (req.intent \/ Exists(out.workload_summary))
      /\ UNCHANGED <<req, store, failed>>
  BY Zenon DEF AdviseStep, Keep, Works
<1>2. "summary" \notin DOMAIN Unasked
  BY SMT DEF Unasked
<1>3. CASE prompt' = Unasked
  BY <1>2, <1>3, Zenon DEF PromptMade
<1>4. CASE prompt' # Unasked
  <2>1. ~req.intent /\ Exists(out.workload_summary)
    <3>1. req.intent => Asked(summary) = {Unasked}
      BY Zenon DEF Asked
    <3> QED  BY <1>1, <1>4, <3>1, Zenon
  <2>2. PICK S \in (IF req.retrieval THEN retrieve(summary, store) ELSE {{}}) :
          prompt' = [rules |-> build_system_prompt(req.feedback, RulesIn(out)),
                     precedents |-> Precedents(store, S), summary |-> build_user_prompt(summary)]
    <3>1. Asked(summary) =
            {[rules |-> build_system_prompt(req.feedback, RulesIn(out)),
              precedents |-> Precedents(store, S), summary |-> build_user_prompt(summary)] :
               S \in IF req.retrieval THEN retrieve(summary, store) ELSE {{}}}
      BY <2>1, Zenon DEF Asked
    <3>2. prompt' \in Asked(summary)
      BY <1>1
    <3> QED  BY <3>1, <3>2, Zenon
  <2>3. prompt'.precedents = Precedents(store, S) /\ prompt'.summary = build_user_prompt(summary)
    <3>1. ASSUME NEW a, NEW b, NEW c
          PROVE  /\ [rules |-> a, precedents |-> b, summary |-> c].precedents = b
                 /\ [rules |-> a, precedents |-> b, summary |-> c].summary = c
      BY SMT
    <3> QED  BY <2>2, <3>1, Zenon
  <2>4. ASSUME NEW i \in S PROVE i \in DOMAIN store /\ store[i].name # summary.id
    <3>1. retrieve(summary, store) \subseteq SUBSET {i_1 \in DOMAIN store : store[i_1].name # summary.id}
      BY Zenon DEF retrieve, kSubset
    <3> QED  BY <2>4, <3>1, Zenon
  <2>5. PICK w : summary = analyze_workload(w)
    BY <2>1, Zenon DEF SummariesAnalyzed, Summary
  <2>6. SummaryTrue
    <3>1. "advise" \in FromAdvise
      BY SMT DEF FromAdvise
    <3> QED  BY <1>1, <3>1, Zenon DEF Contents
  <2>7. \A x : analyze_workload(x).id = x.id
    BY SMT DEF analyze_workload
  <2>8. "analyzer" \notin failed => summary.id = req.workload.id
    BY <2>6, <2>7, Zenon DEF SummaryTrue
  <2>9. ASSUME NEW p \in prompt'.precedents PROVE p.record \in S
    <3>1. PICK i \in S : p = [features |-> store[i].features, best |-> store[i].best, record |-> i]
      BY <2>3, Zenon DEF Precedents
    <3>2. p.record = i
      BY <3>1, SMT
    <3> QED  BY <3>2
  <2> HIDE DEF summary
  <2>10. ASSUME NEW p \in prompt'.precedents
         PROVE  /\ p.record \in DOMAIN store'
                /\ "analyzer" \notin failed' => store'[p.record].name # req'.workload.id
    BY <1>1, <2>4, <2>8, <2>9, Zenon
  <2> QED  BY <2>3, <2>5, <2>10, Zenon DEF PromptMade
<1> QED  BY <1>3, <1>4

LEMMA PromptKept ==
  PipeInv /\ Contents /\ StoreTrue /\ SummariesAnalyzed /\ PromptMade /\ [Next]_vars => PromptMade'
<1> SUFFICES ASSUME PipeInv, Contents, StoreTrue, SummariesAnalyzed, PromptMade, [Next]_vars
             PROVE  PromptMade'
  OBVIOUS
<1>1. CASE Begin
  <2>1. prompt' = Unasked
    BY <1>1, Zenon DEF Begin
  <2>2. "summary" \notin DOMAIN Unasked
    BY SMT DEF Unasked
  <2> QED  BY <2>1, <2>2, Zenon DEF PromptMade
<1>2. CASE AdviseStep
  BY <1>2, AskedMade
<1>3. ASSUME AnalyzeStep \/ AdvisorFails \/ GuardStep \/ CaptureStep
      PROVE  UNCHANGED <<prompt, req, store>> /\ failed \subseteq failed'
  BY <1>3, Zenon DEF AnalyzeStep, AdvisorFails, GuardStep, CaptureStep, Keep, Works, Fails
<1>4. ASSUME AggregateStep \/ ExportStep \/ ManifestStep \/ ProposeStep
      PROVE  UNCHANGED <<prompt, req, store>> /\ failed \subseteq failed'
  BY <1>4, Zenon DEF AggregateStep, ExportStep, ManifestStep, ProposeStep, Keep, Works, Fails
<1>5. ASSUME ApplyStep PROVE UNCHANGED <<prompt, req, store>> /\ failed \subseteq failed'
  BY <1>5, ZenonT(30) DEF ApplyStep, Keep, Works, Fails
<1>6. ASSUME ExplainStep \/ LearnStep \/ Killed
      PROVE  UNCHANGED <<prompt, req, store>> /\ failed \subseteq failed'
  BY <1>6, ZenonT(30) DEF ExplainStep, LearnStep, Killed, Keep, Works, Fails, dirVars
<1>7. ASSUME PersistStep
      PROVE  /\ UNCHANGED <<prompt, req>> /\ failed \subseteq failed'
             /\ store' = store \/ \E r : store' = Append(store, r)
  <2>1. UNCHANGED <<prompt, req>> /\ failed \subseteq failed'
    BY <1>7, Zenon DEF PersistStep, Keep, Works, Fails
  <2>2. store' = store \/ \E r : store' = Append(store, r)
    BY <1>7, PersistAdds, Zenon
  <2> QED  BY <2>1, <2>2
<1>8. CASE UNCHANGED vars
  <2>1. UNCHANGED <<prompt, req, failed, store>>
    BY <1>8, Zenon DEF vars, dirVars, history
  <2> QED  BY <2>1, PromptStays, Zenon
<1>9. CASE ~Begin /\ ~AdviseStep /\ Next
  <2>1. /\ UNCHANGED <<prompt, req>> /\ failed \subseteq failed'
        /\ store' = store \/ \E r : store' = Append(store, r)
    BY <1>3, <1>4, <1>5, <1>6, <1>7, <1>9, Zenon DEF Next
  <2> QED  BY <2>1, PromptStays, Zenon
<1> QED  BY <1>1, <1>2, <1>8, <1>9

LEMMA PromptInit == Init => SummariesAnalyzed /\ PromptMade
<1> SUFFICES ASSUME Init PROVE SummariesAnalyzed /\ PromptMade
  OBVIOUS
<1>1. analyzed = NoFile /\ out = [f \in Names |-> NoFile] /\ prompt = Unasked
  BY Zenon DEF Init
<1>2. ~Exists(NoFile) /\ "summary" \notin DOMAIN Unasked /\ "workload_summary" \in Names
  BY NamesKnown, SMT DEF Exists, NoFile, Unasked
<1>3. out["workload_summary"] = NoFile
  BY <1>1, <1>2, Zenon
<1> QED  BY <1>1, <1>2, <1>3, Zenon DEF SummariesAnalyzed, Summary, PromptMade

\* The model is never shown what it is asked for: of the summary neither the work in
\* total nor the expected answer nor the name, of a process neither class nor bursts,
\* and no outcome of the workload itself, whatever was stored before.
THEOREM AnswersHidden == PipelineSpec => []PromptHidesAnswers
<1>1. StoreTrue /\ PromptMade => PromptHidesAnswers
  <2> SUFFICES ASSUME StoreTrue, PromptMade, "summary" \in DOMAIN prompt
               PROVE  /\ DOMAIN prompt.summary \cap {"total_cpu_work", "expected", "id"} = {}
                      /\ \A i \in DOMAIN prompt.summary.visible_processes :
                           DOMAIN prompt.summary.visible_processes[i] \cap {"label", "bursts"} = {}
                      /\ "analyzer" \notin failed =>
                           \A p \in prompt.precedents :
                             "analyzer" \notin store[p.record].failed
                               => store[p.record].workload # req.workload
    BY Zenon DEF PromptHidesAnswers
  <2>1. PICK w : prompt.summary = build_user_prompt(analyze_workload(w))
    BY Zenon DEF PromptMade
  <2>2. ASSUME NEW p \in prompt.precedents, "analyzer" \notin failed,
               "analyzer" \notin store[p.record].failed
        PROVE  store[p.record].workload # req.workload
    BY <2>2, Zenon DEF PromptMade, StoreTrue, NameTrue
  <2> QED  BY <2>1, <2>2, PromptShape, Zenon
<1>2. PipeInv /\ Contents /\ StoreTrue /\ SummariesAnalyzed /\ PromptMade /\ [Next]_vars
        => (StoreTrue /\ SummariesAnalyzed /\ PromptMade)'
  BY StoreTrueKept, SummariesKept, PromptKept, Zenon
<1>3. Init => StoreTrue
  BY StoreInit, Zenon
<1> QED  BY ContentsHold, PromptInit, <1>1, <1>2, <1>3, PTL DEF PipelineSpec

-----------------------------------------------------------------------------
(* The correction.                                                         *)

\* The targets the comparison is judged by.
JUDGED == {"avg_waiting_time", "avg_turnaround_time", "throughput", "avg_response_time"}

LEMMA JudgedTarget ==
  ASSUME NEW k, metric_key(k) = k
  PROVE  k \in JUDGED /\ k \in COMPARED \ {"starvation_occurred"} /\ \A m : Compared(m, k) = m[k]
<1>1. k \in JUDGED
  BY SMT DEF metric_key, JUDGED
<1>2. k \in COMPARED \ {"starvation_occurred"}
  BY <1>1, SMT DEF JUDGED, COMPARED
<1> QED  BY <1>1, <1>2, Zenon DEF Compared

LEMMA LeastIs ==
  ASSUME NEW T \in SUBSET Int, NEW x \in T, \A y \in T : x <= y
  PROVE  Least(T) = x
<1>1. Least(T) \in T /\ \A y \in T : Least(T) <= y
  BY Zenon DEF Least
<1>2. Least(T) <= x /\ x <= Least(T) /\ Least(T) \in Int /\ x \in Int
  BY <1>1
<1> QED  BY <1>2, SMT

LEMMA LargestIs ==
  ASSUME NEW T \in SUBSET Int, NEW x \in T, \A y \in T : x >= y
  PROVE  Largest(T) = x
<1>1. Largest(T) \in T /\ \A y \in T : Largest(T) >= y
  BY Zenon DEF Largest
<1>2. Largest(T) >= x /\ x >= Largest(T) /\ Largest(T) \in Int /\ x \in Int
  BY <1>1
<1> QED  BY <1>2, SMT

\* An algorithm that was not selected is run again under the flags of its first run.
LEMMA SameRerun ==
  ASSUME NEW a, a # Executed[1]
  PROVE  CorrectedFlags(a) = FlagsOf(a)
<1>1. CASE a \in PREDICTOR_ALGORITHMS
  BY <1>1, Zenon DEF CorrectedFlags, FlagsOf, schedtest_flags_for
<1>2. CASE a \notin PREDICTOR_ALGORITHMS
  <2>1. FlagsOf(a) = NoFlags
    BY <1>2, Zenon DEF FlagsOf, schedtest_flags_for
  <2>2. DOMAIN CorrectedParams = {}
    BY Zenon DEF CorrectedParams
  <2>3. \A k : k \notin DOMAIN CorrectedParams
    BY <2>2, Zenon
  <2>4. mlfq_flags(CorrectedParams) = NoFlags
    BY <2>2, SMT DEF mlfq_flags
  <2> HIDE DEF CorrectedParams
  <2>5. schedtest_flags_for(a, a, CorrectedParams, NoFlags) = NoFlags
    BY <1>2, <2>3, <2>4, SMT DEF schedtest_flags_for
  <2>6. CorrectedFlags(a) = NoFlags
    BY <1>2, <2>5, Zenon DEF CorrectedFlags
  <2> QED  BY <2>1, <2>6
<1> QED  BY <1>1, <1>2

\* The selected algorithm is run first.
LEMMA SelectedFirst ==
  ASSUME req.algo = NONE
  PROVE  Executed[1] = Selected
<1>1. Executed = compute_run_order(Selected)
  BY Zenon DEF Executed, Ordered, Selected
<1>2. 1 \in DOMAIN CANONICAL_ALGOS
  BY SMT DEF CANONICAL_ALGOS
<1>3. compute_run_order(Selected)[1] = Selected
  BY <1>2, Zenon DEF compute_run_order
<1> QED  BY <1>1, <1>3, Zenon

\* What a correction is judged by: the metric, the selected algorithm's value of it
\* and all values, its own among them.
JudgedAgainst(top, m, k, mine, values) ==
  /\ k = metric_key(TargetIn(out))
  /\ mine = ValueIn(top.comparison, normalize_algorithm_name(Selected), k)
  /\ values = (ValuesOf(top.comparison, k) \cup {m[k]}) \ {NULL}

VerdictSays(c, m, k, mine, values) ==
  /\ c.forced = (req.force # NONE)
  /\ c.corrected_judgment = judge_value(m[k], BestOf(values, k), k).judgment
  /\ c.improved = (/\ mine # NULL /\ m[k] # NULL
                   /\ IF k = "throughput" THEN m[k] > mine ELSE m[k] < mine)

LEMMA AppliedRecord ==
  ASSUME NEW top, NEW algo, NEW m, NEW k, NEW mine, NEW values, JudgedAgainst(top, m, k, mine, values)
  PROVE  VerdictSays(WasApplied(top, algo, m), m, k, mine, values)
<1> DEFINE forced == req.force # NONE
           judgment == judge_value(m[k], BestOf(values, k), k).judgment
           improved == /\ mine # NULL /\ m[k] # NULL
                       /\ IF k = "throughput" THEN m[k] > mine ELSE m[k] < mine
<1>1. WasApplied(top, algo, m) =
        [applied |-> TRUE, forced |-> forced, corrected_algorithm |-> algo,
         corrected_judgment |-> judgment, improved |-> improved]
  BY Zenon DEF WasApplied, JudgedAgainst
<1>2. ASSUME NEW a, NEW b, NEW c, NEW d, NEW e
      PROVE  LET x == [applied |-> a, forced |-> b, corrected_algorithm |-> c,
                       corrected_judgment |-> d, improved |-> e]
             IN  x.forced = b /\ x.corrected_judgment = d /\ x.improved = e
  BY SMT
<1>3. LET x == [applied |-> TRUE, forced |-> forced, corrected_algorithm |-> algo,
                corrected_judgment |-> judgment, improved |-> improved]
      IN  x.forced = forced /\ x.corrected_judgment = judgment /\ x.improved = improved
  <2> HIDE DEF forced, judgment, improved
  <2> QED  BY <1>2, Zenon
<1> HIDE DEF forced, judgment, improved
<1>4. /\ WasApplied(top, algo, m).forced = forced
      /\ WasApplied(top, algo, m).corrected_judgment = judgment
      /\ WasApplied(top, algo, m).improved = improved
  BY <1>1, <1>3, Zenon
<1> QED  BY <1>4, Zenon DEF forced, judgment, improved, VerdictSays

\* The best of a comparison is a success, and better than a selected algorithm that
\* has a value.
LEMMA BestConfirms ==
  ASSUME MeasuredNumbers, PipeInv, Contents, stage \in FromExport, "capture" \notin failed,
         req.algo = NONE, req.force = NONE,
         metric_key(TargetIn(out)) = TargetIn(out),
         out.metrics.of.metrics[TargetIn(out)] # NULL,
         NEW algo, algo = out.metrics.of.best_algorithm,
         algo # NONE, algo # normalize_algorithm_name(Selected)
  PROVE  LET canon == normalize_algo(algo)
             c == WasApplied(out.metrics.of, algo,
                             Measured(req.workload, canon, CorrectedFlags(canon)))
         IN  c.improved /\ c.corrected_judgment = "SUCCESS"
<1> DEFINE n == Len(Executed)
           T == TargetIn(out)
           V(j) == Comparison[j].m[T]
           top == out.metrics.of
           name == normalize_algorithm_name(Selected)
           m == Measured(req.workload, normalize_algo(algo), CorrectedFlags(normalize_algo(algo)))
           values == (ValuesOf(Comparison, T) \cup {m[T]}) \ {NULL}
           mine == {j \in DOMAIN Comparison : Comparison[j].algo = name}
<1>1. /\ n \in Nat /\ DOMAIN Executed = 1..n /\ DOMAIN Comparison = 1..n
      /\ Executed \in Seq(SUPPORTED_ALGORITHMS)
      /\ \A j \in 1..n :
           /\ Executed[j] \in Captured
           /\ Comparison[j].algo = normalize_algorithm_name(Executed[j])
           /\ Comparison[j].m = outTraces[Executed[j]].of
           /\ Comparison[j].m = Measured(req.workload, Executed[j], FlagsOf(Executed[j]))
  BY Compares, Zenon
<1>2. MetricsTrue /\ req \in Requests
  BY SMT DEF Contents, PipeInv, Shape
<1>3. /\ Executed[1] = Selected
      /\ top = build_xv6_metrics(Comparison, name, T)
  BY <1>2, SelectedFirst, Zenon DEF MetricsTrue
<1>4. /\ T \in JUDGED /\ T \in COMPARED \ {"starvation_occurred"}
      /\ \A x : Compared(x, T) = x[T]
  BY JudgedTarget, Zenon
<1>5. /\ top.best_algorithm = BestAlgorithm(Comparison, T) /\ top.comparison = Comparison
      /\ top.metrics = Comparison[IF mine = {} THEN 1 ELSE Least(mine)].m
  <2> DEFINE x == build_xv6_metrics(Comparison, name, T)
  <2>1. x.best_algorithm = BestAlgorithm(Comparison, T) /\ x.comparison = Comparison
    BY SMT DEF build_xv6_metrics
  <2>2. x.metrics = Comparison[IF mine = {} THEN 1 ELSE Least(mine)].m
    BY SMT DEF build_xv6_metrics
  <2> HIDE DEF x, mine
  <2> QED  BY <1>3, <2>1, <2>2, Zenon DEF x
<1>6. \A j \in 1..n : MetricRecord(Comparison[j].m)
  BY <1>1, <1>2, Zenon DEF MeasuredNumbers, Captured
<1>7. \A j \in 1..n : V(j) \in Int
  BY <1>4, <1>6, Zenon DEF MetricRecord
<1>8. PICK i \in 1..n :
        /\ BestAlgorithm(Comparison, T) = Comparison[i].algo
        /\ Compared(Comparison[i].m, T) # NULL
        /\ \A k \in 1..n : Compared(Comparison[k].m, T) # NULL =>
             /\ ~Beats(T, Compared(Comparison[k].m, T), Compared(Comparison[i].m, T))
             /\ k < i => Beats(T, Compared(Comparison[i].m, T), Compared(Comparison[k].m, T))
  <2>1. BestAlgorithm(Comparison, T) # NONE
    BY <1>5, Zenon
  <2> HIDE DEF n, T
  <2> QED  BY <1>1, <1>6, <2>1, BestIsFirst
<1> HIDE DEF n, T, top, name
<1>9. /\ V(i) # NULL
      /\ \A k \in 1..n : V(k) # NULL =>
           ~Beats(T, V(k), V(i)) /\ (k < i => Beats(T, V(i), V(k)))
  BY <1>4, <1>8, Zenon
<1>10. algo = Comparison[i].algo /\ Comparison[i].algo = normalize_algorithm_name(Executed[i])
  BY <1>1, <1>5, <1>8, Zenon DEF top
<1>11. normalize_algo(algo) = Executed[i] /\ Executed[i] # Executed[1]
  BY <1>1, <1>3, <1>10, NamesReadBack, Zenon DEF Captured, name
<1>12. i # 1 /\ 1 \in 1..n /\ 1 < i
  <2>1. i # 1
    BY <1>11
  <2> QED  BY <1>1, <2>1, SMT
<1>13. m = Comparison[i].m
  BY <1>1, <1>11, SameRerun, Zenon
<1> HIDE DEF m
<1>14. mine \subseteq 1..n /\ 1 \in mine
  BY <1>1, <1>3, <1>12, Zenon DEF name
<1>15. Least(mine) = 1
  <2>1. \A y \in mine : 1 <= y
    BY <1>1, <1>14, SMT
  <2>2. mine \in SUBSET Int
    BY <1>1, <1>14, SMT
  <2> HIDE DEF mine
  <2> QED  BY <1>14, <2>1, <2>2, LeastIs, Zenon
<1>16. V(1) # NULL /\ ValueIn(Comparison, name, T) = V(1)
  <2>1. mine # {}
    BY <1>14
  <2>2. top.metrics = Comparison[1].m
    BY <1>5, <1>15, <2>1, Zenon
  <2>3. top.metrics[T] # NULL
    BY DEF top, T
  <2>4. ValueIn(Comparison, name, T) = IF mine = {} THEN NULL ELSE Comparison[Least(mine)].m[T]
    BY Zenon DEF ValueIn
  <2> HIDE DEF mine
  <2> QED  BY <1>15, <2>1, <2>2, <2>3, <2>4, Zenon
<1>17. Beats(T, V(i), V(1))
  BY <1>9, <1>12, <1>16, Zenon
<1>18. /\ m[T] = V(i)
       /\ values = {V(j) : j \in 1..n} \ {NULL}
  <2>1. m[T] = V(i)
    BY <1>13, Zenon
  <2>2. ValuesOf(Comparison, T) = {V(j) : j \in 1..n} \ {NULL}
    BY <1>1, Zenon DEF ValuesOf
  <2>3. V(i) \in {V(j) : j \in 1..n}
    OBVIOUS
  <2> HIDE DEF V
  <2> QED  BY <2>1, <2>2, <2>3, Zenon
<1>19. /\ values \in SUBSET Int /\ V(i) \in values
       /\ \A y \in values : ~Beats(T, y, V(i))
  <2>1. \A y \in values : \E j \in 1..n : y = V(j) /\ V(j) # NULL
    BY <1>18, Zenon
  <2>2. V(i) \in values
    BY <1>9, <1>18, Zenon
  <2> HIDE DEF values, V
  <2> QED  BY <1>7, <1>9, <2>1, <2>2, Zenon
<1>20. BestOf(values, T) = V(i)
  <2> HIDE DEF values, V
  <2>1. CASE T = "throughput"
    <3>1. \A y \in values : ~(y > V(i)) /\ y \in Int /\ V(i) \in Int
      BY <1>7, <1>19, <2>1, Zenon DEF Beats
    <3>2. \A y \in values : V(i) >= y
      BY <3>1, SMT
    <3> QED  BY <1>19, <2>1, <3>2, LargestIs, Zenon DEF BestOf
  <2>2. CASE T # "throughput"
    <3>1. \A y \in values : ~(y < V(i)) /\ y \in Int /\ V(i) \in Int
      BY <1>7, <1>19, <2>2, Zenon DEF Beats
    <3>2. \A y \in values : V(i) <= y
      BY <3>1, SMT
    <3> QED  BY <1>19, <2>2, <3>2, LeastIs, Zenon DEF BestOf
  <2> QED  BY <2>1, <2>2
<1>21. judge_value(V(i), V(i), T).judgment = "SUCCESS"
  <2> DEFINE v == V(i)
  <2>1. v \in Int /\ v # NULL
    BY <1>7, <1>9
  <2> HIDE DEF v
  <2>2. Distance(v, v) <= AbsFloor(T)
    BY <2>1, SMT DEF Distance, AbsFloor
  <2>3. judge_value(v, v, T) = Judged("SUCCESS", 0)
    BY <2>1, <2>2, Zenon DEF judge_value
  <2>4. Judged("SUCCESS", 0).judgment = "SUCCESS"
    BY SMT DEF Judged
  <2> QED  BY <2>3, <2>4, Zenon DEF v
<1> DEFINE c == WasApplied(top, algo, m)
<1>22. /\ c.corrected_judgment = judge_value(m[T], BestOf(values, T), T).judgment
       /\ c.improved = (/\ V(1) # NULL /\ m[T] # NULL
                        /\ IF T = "throughput" THEN m[T] > V(1) ELSE m[T] < V(1))
  <2>1. metric_key(TargetIn(out)) = T
    BY DEF T
  <2>2. /\ V(1) = ValueIn(top.comparison, normalize_algorithm_name(Selected), T)
        /\ values = (ValuesOf(top.comparison, T) \cup {m[T]}) \ {NULL}
    BY <1>5, <1>16, Zenon DEF name
  <2> HIDE DEF V, values
  <2>3. JudgedAgainst(top, m, T, V(1), values)
    BY <2>1, <2>2, Zenon DEF JudgedAgainst
  <2>4. VerdictSays(c, m, T, V(1), values)
    BY <2>3, AppliedRecord, Zenon
  <2> HIDE DEF c
  <2> QED  BY <2>4, Zenon DEF VerdictSays
<1>23. c.improved /\ c.corrected_judgment = "SUCCESS"
  <2> HIDE DEF c, V, values
  <2> QED  BY <1>9, <1>16, <1>17, <1>18, <1>20, <1>21, <1>22, Zenon DEF Beats
<1> QED  BY <1>23, Zenon DEF m, top

LEMMA ConfirmsKept ==
  ASSUME MeasuredNumbers
  PROVE  PipeInv /\ Contents /\ CorrectionConfirms /\ [Next]_vars => CorrectionConfirms'
<1> SUFFICES ASSUME PipeInv, Contents, CorrectionConfirms, [Next]_vars,
                    stage' = "explain", out'.correction_applied.of.applied,
                    ~out'.correction_applied.of.forced, "capture" \notin failed',
                    metric_key(TargetIn(out)') = TargetIn(out)', req'.algo = NONE,
                    out'.metrics.of.metrics[TargetIn(out)'] # NULL
             PROVE  /\ out'.correction_applied.of.improved
                    /\ out'.correction_applied.of.corrected_judgment = "SUCCESS"
  BY Zenon DEF CorrectionConfirms
<1>1. CASE ApplyStep
  <2> DEFINE top == out.metrics.of
             algo == Corrected(top)
             canon == normalize_algo(algo)
             m == Measured(req.workload, canon, CorrectedFlags(canon))
             made == File("run", WasApplied(top, algo, m))
  <2>1. stage = "apply" /\ req' = req /\ "capture" \notin failed
    BY <1>1, ZenonT(30) DEF ApplyStep, Keep, Works, Fails
  <2>2. \/ out' = [out EXCEPT !["correction_applied"] = File("run", NotApplied)]
        \/ /\ algo # NONE /\ algo # normalize_algorithm_name(Selected)
           /\ out' = [out EXCEPT !["correction_applied"] = made, !["corrected_trace"] = File("run", m)]
    BY <1>1, ZenonT(30) DEF ApplyStep, Publishes
  <2>3. /\ DOMAIN out = Names /\ "correction_applied" \in Names
        /\ "corrected_trace" \in Names \ {"correction_applied"}
        /\ "metrics" \in Names \ {"correction_applied", "corrected_trace"}
        /\ "recommendation" \in Names \ {"correction_applied", "corrected_trace"}
    BY NamesKnown, SMT DEF PipeInv, Shape
  <2> HIDE DEF made, m, algo, top
  <2>4. out' # [out EXCEPT !["correction_applied"] = File("run", NotApplied)]
    <3>1. [out EXCEPT !["correction_applied"] = File("run", NotApplied)]["correction_applied"]
            = File("run", NotApplied)
      BY <2>3, PutFile, Zenon
    <3>2. File("run", NotApplied).of = NotApplied /\ NotApplied.applied = FALSE
      BY FileOf, SMT DEF NotApplied
    <3> QED  BY <3>1, <3>2, Zenon
  <2>5. /\ out'["correction_applied"] = made
        /\ out'["metrics"] = out["metrics"] /\ out'["recommendation"] = out["recommendation"]
    <3>1. out' = [out EXCEPT !["correction_applied"] = made, !["corrected_trace"] = File("run", m)]
      BY <2>2, <2>4, Zenon
    <3> QED  BY <2>3, <3>1, PutTwo, Zenon
  <2>6. made.of = WasApplied(top, algo, m)
    <3>1. \A content : File("run", content).of = content
      BY SMT DEF File
    <3> QED  BY <3>1, Zenon DEF made
  <2>7. TargetIn(out)' = TargetIn(out)
    BY <2>5, Zenon DEF TargetIn
  <2>8. req.force = NONE
    <3> DEFINE k == metric_key(TargetIn(out))
               mine == ValueIn(top.comparison, normalize_algorithm_name(Selected), k)
               values == (ValuesOf(top.comparison, k) \cup {m[k]}) \ {NULL}
    <3>1. WasApplied(top, algo, m).forced = (req.force # NONE)
      <4>1. JudgedAgainst(top, m, k, mine, values)
        BY Zenon DEF JudgedAgainst
      <4>2. VerdictSays(WasApplied(top, algo, m), m, k, mine, values)
        BY <4>1, AppliedRecord, Zenon
      <4> QED  BY <4>2, Zenon DEF VerdictSays
    <3> QED  BY <2>5, <2>6, <3>1, Zenon
  <2>9. algo = top.best_algorithm
    BY <2>8, Zenon DEF algo, Corrected, top
  <2>10. stage \in FromExport
    BY <2>1, SMT DEF FromExport, FromManifest, FromPropose, FromApply
  <2>11. /\ WasApplied(top, algo, m).improved
         /\ WasApplied(top, algo, m).corrected_judgment = "SUCCESS"
    BY <2>1, <2>2, <2>4, <2>5, <2>7, <2>8, <2>9, <2>10, BestConfirms, Zenon DEF m, top
  <2> QED  BY <2>5, <2>6, <2>11, Zenon
<1>2. CASE UNCHANGED vars
  <2>1. UNCHANGED <<stage, req, out, failed>>
    BY <1>2, Zenon DEF vars, dirVars, history
  <2>2. TargetIn(out)' = TargetIn(out)
    BY <2>1, Zenon DEF TargetIn
  <2> QED  BY <2>1, <2>2, Zenon DEF CorrectionConfirms
<1>3. CASE Next /\ ~ApplyStep
  <2>1. stage' # "explain"
    <3>1. ASSUME Begin \/ AnalyzeStep \/ AdviseStep \/ AdvisorFails \/ GuardStep PROVE stage' # "explain"
      BY <3>1, SMT DEF Begin, AnalyzeStep, AdviseStep, AdvisorFails, GuardStep, Substitutes
    <3>2. ASSUME CaptureStep \/ AggregateStep \/ ExportStep \/ ManifestStep \/ ProposeStep
          PROVE  stage' # "explain"
      BY <3>2, SMT DEF CaptureStep, AggregateStep, ExportStep, ManifestStep, ProposeStep, Keep
    <3>3. ASSUME ExplainStep \/ PersistStep \/ LearnStep \/ Killed PROVE stage' # "explain"
      BY <3>3, SMT DEF ExplainStep, PersistStep, LearnStep, Killed
    <3> QED  BY <1>3, <3>1, <3>2, <3>3, Zenon DEF Next
  <2> QED  BY <2>1
<1> QED  BY <1>1, <1>2, <1>3

LEMMA ConfirmsInit == Init => CorrectionConfirms
<1>1. Init => stage # "explain"
  BY SMT DEF Init
<1> QED  BY <1>1, Zenon DEF CorrectionConfirms

\* A correction that nobody forced does what it is applied for: run again under the
\* flags of the comparison it was taken from, its algorithm is better than the
\* selected one and is judged a success.
THEOREM CorrectionsConfirm ==
  ASSUME MeasuredNumbers
  PROVE  PipelineSpec => []CorrectionConfirms
<1> QED  BY ContentsHold, ConfirmsInit, ConfirmsKept, PTL DEF PipelineSpec
=============================================================================
