------------------------------- MODULE MCHost -------------------------------
(* An instance of Host for TLC: the answers, and the runs that are followed. *)
EXTENDS Host

Processes == <<[arrival |-> 0, burst |-> 2], [arrival |-> 2, burst |-> 1]>>
MirrorPids == <<1, 2>>

\* The workload `--random-family interactive --seed 42` types on the shell line:
\* "schedtest mlfq 42 custom --procs 0:2:5,2:2:5,...,7:2:5" has 80 characters.
InjectedProcesses ==
  LET arrivals == <<0, 2, 2, 3, 4, 6, 6, 7>>
      bursts == <<2, 2, 2, 4, 4, 2, 2, 2>>
  IN  [i \in 1..8 |-> [arrival |-> arrivals[i], burst |-> bursts[i]]]
InjectedPids == [i \in 1..8 |-> i]

Object(f) == [shape |-> "object", of |-> f]
NoParams == Object(<< >>)

Answer(algo, metric, params, bursts) ==
  [algorithm |-> algo, target_metric |-> metric, params |-> params, reason |-> TRUE,
   confidence |-> Num(80), predicted_bursts |-> bursts]

Hint(pid, burst) == [pid |-> Num(pid), burst |-> Num(burst)]

\* Answers of the model: each algorithm with its parameters at and beyond the
\* edges of their ranges, hints for one process, for none, for an unknown one.
Priors == {<< >>, <<Hint(1, 3), Hint(9, 4)>>, <<Hint(1, 0), Hint(2, 250), Hint(1, 2)>>}

Edges == {Num(0), Num(1), Num(2), Num(100), Num(101), Other}

Predictors ==
  {Object([alpha_percent |-> Num(a), initial |-> Num(i), min |-> Num(lo), max |-> Num(hi)]) :
     a \in {0, 101}, i \in {1, 7, 100000}, lo \in {1, 20}, hi \in {10, 100000}}

Queues ==
  {Object([queues |-> Num(n), quantum |-> Lst(q), boost_interval |-> b]) :
     n \in {2, 3, 6}, q \in {<<1, 2>>, <<2, 4, 8>>, <<0, 4>>}, b \in {Num(10), Num(5), Num(10000)}}

Proposed ==
  {Answer("RR", t, p, << >>) :
     t \in {"response_time", "turnaround_time", "throughput", "fairness"},
     p \in {NoParams} \cup {Object([quantum |-> q]) : q \in Edges}}
  \cup {Answer("Priority", t, Object([aging_threshold |-> a]), << >>) :
     t \in {"response_time", "starvation", NONE}, a \in {Num(1), Num(10), Num(10001)}}
  \cup {Answer("mlfq", "waiting_time", p, << >>) : p \in Queues \cup {NoParams}}
  \cup {Answer(a, "waiting_time", p, b) : a \in {"SJF", "SRTF"}, p \in Predictors, b \in Priors}
  \cup {Answer("FCFS", t, NoParams, << >>) : t \in {"throughput", "response_time", "fairness", "turnaround_time"}}
  \cup {Answer(a, "waiting_time", NoParams, << >>) : a \in {NONE, "CFS"}}

Intents ==
  {Answer(a, "avg_turnaround_time", p, << >>) :
     a \in {"RR", "CFS", "FCFS"}, p \in {NoParams, [shape |-> "not_an_object"]}}

AllAnswers ==
  {[by |-> "model", answer |-> a] : a \in Proposed}
  \cup {[by |-> "intent", answer |-> a] : a \in Intents}
  \cup {[by |-> "fixture", answer |-> Answer("MLFQ", "avg_response_time", NoParams, << >>)]}

FollowedAnswers ==
  {[by |-> "model", answer |-> a] :
     a \in {Answer("RR", "response_time", Object([quantum |-> Num(1)]), << >>),
           Answer("RR", "throughput", Object([quantum |-> Num(2)]), << >>),
           Answer("mlfq", "waiting_time",
                  Object([queues |-> Num(2), quantum |-> Lst(<<1, 2>>), boost_interval |-> Num(10)]),
                  << >>),
           Answer("FCFS", "turnaround_time", NoParams, << >>)}}

\* What another algorithm may have been measured with.
Measured(resp, turn, wait, thr) ==
  [avg_response_time |-> resp, avg_turnaround_time |-> turn, avg_waiting_time |-> wait,
   max_waiting_time |-> wait, throughput |-> thr, preemption_count |-> 1,
   starvation_occurred |-> FALSE, total_execution_time |-> 5]

OtherRuns ==
  {[algo |-> "MLFQ", m |-> Measured(r, t, w, 600)] : r \in {0, 60, 150}, t \in {100, 240}, w \in {50}}
=============================================================================
