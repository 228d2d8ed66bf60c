----------------------------- MODULE MCPipeline -----------------------------
(* An instance of Pipeline for TLC: two workloads, what each algorithm makes *)
(* of them, the answers of the models and the command lines.               *)
EXTENDS Pipeline

MirrorPids == <<1, 2>>

Proc(pid, arrival, priority, label, bursts) ==
  [pid |-> pid, arrival_time |-> arrival, priority |-> priority, label |-> label,
   bursts |-> bursts, ios |-> Len(bursts) - 1]

Interactive ==
  [id |-> "interactive", target_metric |-> "avg_response_time", expected |-> "MLFQ",
   processes |-> <<Proc(1, 0, 2, "interactive", <<1, 1>>), Proc(2, 1, 8, "cpu_bound", <<6>>)>>]

Convoy ==
  [id |-> "convoy", target_metric |-> "avg_waiting_time", expected |-> "SJF",
   processes |-> <<Proc(1, 0, 5, "cpu_bound", <<9>>), Proc(2, 0, 5, "cpu_bound", <<2>>)>>]

Fixture ==
  [id |-> "fixture", target_metric |-> "avg_response_time", expected |-> NONE,
   processes |-> <<Proc(1, 0, 5, "cpu_bound", <<3>>)>>]

-----------------------------------------------------------------------------
(* Results.                                                                *)

Found(resp, turn, wait, thr, starved) ==
  [avg_response_time |-> resp, avg_turnaround_time |-> turn, avg_waiting_time |-> wait,
   max_waiting_time |-> 2 * wait, throughput |-> thr, preemption_count |-> 1,
   starvation_occurred |-> starved]

\* Under kernel defaults, and under the parameters of a recommendation.
Baseline(w, a) ==
  IF w.id = "interactive"
  THEN CASE a = "RR" -> Found(100, 900, 500, 250, FALSE)
         [] a = "MLFQ" -> Found(50, 800, 400, 260, FALSE)
         [] a = "SRTF" -> Found(60, 700, 300, 300, FALSE)
         [] a = "PRIORITY" -> Found(300, 900, 500, 250, TRUE)
         [] OTHER -> Found(400, 900, 500, 250, FALSE)
  ELSE CASE a \in {"SJF", "SRTF"} -> Found(100, 650, 100, 180, FALSE)
         [] a = "RR" -> Found(100, 900, 200, 170, FALSE)
         \* Every dispatch line of it was torn: no response is measured.
         [] a = "FCFS" -> Found(NULL, 1000, 450, 180, FALSE)
         [] OTHER -> Found(450, 1000, 450, 180, a = "PRIORITY")

MeasuredOn(w, a, flags) ==
  LET b == Baseline(w, a)
  IN  IF flags = NoFlags \/ a \in PREDICTOR_ALGORITHMS THEN b
      ELSE [b EXCEPT !.avg_response_time = 3 * @, !.avg_waiting_time = 2 * @,
                     !.starvation_occurred = FALSE]

DetectedIn(trace, top) ==
  (IF trace.starvation_occurred
   THEN <<[type |-> "starvation", severity |-> "high", tick |-> 4]>> ELSE << >>)
  \o (IF top.metrics.avg_response_time >= 300
      THEN <<[type |-> "high_response_time", severity |-> "medium", tick |-> 0]>> ELSE << >>)

-----------------------------------------------------------------------------
(* Answers and command lines.                                              *)

Object(f) == [shape |-> "object", of |-> f]

Answer(algo, metric, params, bursts) ==
  [algorithm |-> algo, target_metric |-> metric, params |-> params, reason |-> TRUE,
   confidence |-> Num(80), predicted_bursts |-> bursts]

ModelAnswers ==
  {Answer("RR", "response_time", Object([quantum |-> Num(10)]), << >>),
   Answer("SJF", "waiting_time", Object(<< >>),
          <<[pid |-> Num(1), burst |-> Num(9)], [pid |-> Num(2), burst |-> Num(2)]>>),
   Answer("Priority", "throughput", Object(<< >>), << >>)}

Bullet(rule) == [rule |-> rule, fold |-> rule, bullet |-> TRUE, long |-> TRUE]
RuleAnswers == {<<Bullet("r1")>>}

DemoFixtures ==
  [recommendation |-> Answer("MLFQ", "avg_response_time", Object(<< >>), << >>),
   decision |-> guard(Answer("MLFQ", "avg_response_time", Object(<< >>), << >>)),
   workload |-> Fixture]

Plain(w) ==
  [workload |-> w, offline |-> FALSE, intent |-> FALSE, feedback |-> FALSE,
   retrieval |-> FALSE, algo |-> NONE, force |-> NONE]

CommandLines ==
  {Plain(Interactive),
   [Plain(Convoy) EXCEPT !.offline = TRUE, !.retrieval = TRUE, !.feedback = TRUE],
   [Plain(Interactive) EXCEPT !.offline = TRUE, !.retrieval = TRUE],
   [Plain(Convoy) EXCEPT !.intent = TRUE, !.force = "RR"],
   [Plain(Convoy) EXCEPT !.algo = "FCFS"]}
=============================================================================
