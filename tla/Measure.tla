------------------------------ MODULE Measure ------------------------------
(***************************************************************************)
(* From the console of a run to its metrics: the window and the trace      *)
(* (scripts/orchestrator.py, tools/trace_parser.py), the processes and the *)
(* metrics (tools/metrics.py).  Times are in ticks, averages in hundredths *)
(* of a tick, throughput in thousandths; NULL is None.                     *)
(***************************************************************************)
EXTENDS Console, SequencesExt

CONSTANTS
  STARVATION_MULTIPLIER, MIN_STARVATION_WAIT_TICKS, MIN_COMPLETED_FOR_STARVATION

ASSUME StarvationAssumption ==
  {STARVATION_MULTIPLIER, MIN_STARVATION_WAIT_TICKS, MIN_COMPLETED_FOR_STARVATION} \subseteq Nat

-----------------------------------------------------------------------------
(* The trace of a run.                                                     *)

\* The lines up to the first RUN_END.
UpToEnd(lines) ==
  LET ends == {i \in DOMAIN lines : RunEnd \in lines[i].words}
  IN  IF ends = {} THEN lines ELSE SubSeq(lines, 1, Least(ends))

\* Mutant: a run whose RUN_BEGIN was cut has no window.
WindowFromWord(lines, algo) ==
  LET upto == UpToEnd(lines)
      begins == {i \in DOMAIN upto : RunBegin \in upto[i].words}
  IN  IF begins = {} THEN << >> ELSE SubSeq(upto, Least(begins), Len(upto))

\* _extract_run_window: from RUN_BEGIN or, if the word was cut, from the first
\* line at or after a marker that names the algorithm.
extract_run_window(lines, algo) ==
  LET upto == UpToEnd(lines)
      begins == {i \in DOMAIN upto : RunBegin \in upto[i].words}
      named == {i \in DOMAIN upto :
                  /\ AlgoWord(algo) \in upto[i].words
                  /\ \E j \in 1..i : Marker \in upto[j].words}
      starts == IF begins # {} THEN begins ELSE named
  IN  IF starts = {} THEN << >> ELSE SubSeq(upto, Least(starts), Len(upto))

\* parse_file: what is no event is dropped, the rest sorted by tick; an event
\* without a tick comes first, and equal ticks stay in order.
ByTick(evs) ==
  {s \in (DOMAIN evs) \X (DOMAIN evs) :
     \/ evs[s[1]].tick < evs[s[2]].tick
     \/ evs[s[1]].tick = evs[s[2]].tick /\ s[1] <= s[2]}

parse_file(lines) ==
  LET found == {i \in DOMAIN lines : lines[i].ev # NoEvent}
      order == Listed(found, ByTick([i \in DOMAIN lines |-> lines[i].ev]))
  IN  [n \in DOMAIN order |-> lines[order[n]].ev]

TicksOf(evs) == {evs[i].tick : i \in DOMAIN evs} \ {NULL}

\* The first event of a kind for a process, NULL if there is none.
FirstTick(evs, name, p) ==
  LET hits == {i \in DOMAIN evs : evs[i].event = name /\ evs[i].pid = p}
  IN  IF hits = {} THEN NULL ELSE evs[Least(hits)].tick

\* Mutant: planned arrivals are left where they are.
RebasedTicks(evs) ==
  LET base == IF TicksOf(evs) = {} THEN 0 ELSE Least(TicksOf(evs))
  IN  [i \in DOMAIN evs |->
         IF evs[i].tick = NULL THEN evs[i] ELSE [evs[i] EXCEPT !.tick = @ - base]]

\* Ticks count from the first event; a planned arrival after the first dispatch
\* is brought down to it.
rebase(evs) ==
  LET base == IF TicksOf(evs) = {} THEN 0 ELSE Least(TicksOf(evs))
      moved == [i \in DOMAIN evs |->
                  IF evs[i].tick = NULL THEN evs[i] ELSE [evs[i] EXCEPT !.tick = @ - base]]
      Snapped(e) ==
        LET fd == FirstTick(moved, "DISPATCH", e.pid)
        IN  IF e.event = "PROC_DEF" /\ fd # NULL /\ fd < e.arrival
            THEN [e EXCEPT !.arrival = fd] ELSE e
  IN  [i \in DOMAIN moved |-> Snapped(moved[i])]

parse_xv6_log(lines, algo) == rebase(parse_file(extract_run_window(lines, algo)))

-----------------------------------------------------------------------------
(* Processes.                                                              *)

\* build_processes: the slices of p, each from a DISPATCH to the PREEMPT or
\* EXIT that ends it; a dispatch of another process forgets one left open.
Ends(e, p) == e.pid = p /\ e.event \in {"PREEMPT", "EXIT"}

SlicesOf(evs, p) ==
  {s \in (DOMAIN evs) \X (DOMAIN evs) :
     /\ s[1] < s[2]
     /\ evs[s[1]].event = "DISPATCH" /\ evs[s[1]].pid = p
     /\ Ends(evs[s[2]], p)
     /\ \A k \in s[1] + 1 .. s[2] - 1 : evs[k].event # "DISPATCH" /\ ~Ends(evs[k], p)}

cpu_used(evs, p) ==
  Total([s \in SlicesOf(evs, p) |-> evs[s[2]].tick - evs[s[1]].tick])

\* The processes the workload defines; if it defines none, all that are seen.
Pids(evs) ==
  LET seen == {evs[i].pid : i \in DOMAIN evs} \ {NULL}
      defs_ == {p \in seen : \E i \in DOMAIN evs :
                                  evs[i].event = "PROC_DEF" /\ evs[i].pid = p}
  IN  IF defs_ = {} THEN seen ELSE defs_

ArrivalOf(evs, p) ==
  LET defs == {i \in DOMAIN evs : evs[i].event = "PROC_DEF" /\ evs[i].pid = p}
  IN  IF defs = {} THEN NULL ELSE evs[Least(defs)].arrival

FinishOf(evs, p) ==
  LET exits == {i \in DOMAIN evs : evs[i].event = "EXIT" /\ evs[i].pid = p}
  IN  IF exits = {} THEN NULL ELSE evs[Largest(exits)].tick

Minus(a, b) == IF a = NULL \/ b = NULL THEN NULL ELSE a - b

\* finalize_process; xv6's EXIT lines report no metrics of their own.
finalize_process(evs, p) ==
  LET arrival == ArrivalOf(evs, p)
      turnaround == Minus(FinishOf(evs, p), arrival)
  IN  [arrival_time |-> arrival, finish_time |-> FinishOf(evs, p),
       response_time |-> Minus(FirstTick(evs, "DISPATCH", p), arrival),
       turnaround_time |-> turnaround,
       waiting_time |-> Minus(turnaround, cpu_used(evs, p))]

build_processes(evs) == [p \in Pids(evs) |-> finalize_process(evs, p)]

-----------------------------------------------------------------------------
(* Metrics.                                                                *)

Completed(per) == {p \in DOMAIN per : per[p].finish_time # NULL}

safe_mean(per, k) ==
  LET known == {p \in Completed(per) : per[p][k] # NULL}
  IN  IF known = {} THEN NULL
      ELSE Round(100 * Total([p \in known |-> per[p][k]]), Cardinality(known))

\* Waiting of a process that has not finished: all of the run but its own ticks.
Waited(evs, per, p, makespan) ==
  IF per[p].finish_time # NULL THEN per[p].waiting_time
  ELSE Minus(Minus(makespan, per[p].arrival_time), cpu_used(evs, p))

\* evaluate_starvation: a multiple of the average, the floor, half the run.
evaluate_starvation(evs, per, makespan) ==
  LET avg == safe_mean(per, "waiting_time")
      Starves(w) == /\ w # NULL
                    /\ 100 * w > STARVATION_MULTIPLIER * avg
                    /\ w >= MIN_STARVATION_WAIT_TICKS
                    /\ 2 * w >= makespan
  IN  IF avg <= 0 \/ Cardinality(Completed(per)) < MIN_COMPLETED_FOR_STARVATION THEN {}
      ELSE {p \in DOMAIN per : Starves(Waited(evs, per, p, makespan))}

compute_metrics(evs) ==
  LET per == build_processes(evs)
      ticks == TicksOf(evs)
      makespan == IF ticks = {} THEN 0 ELSE Largest(ticks) - Least(ticks)
      waits == {per[p].waiting_time : p \in Completed(per)} \ {NULL}
      pids == evaluate_starvation(evs, per, makespan)
  IN  [per_process |-> per,
       total_execution_time |-> makespan,
       avg_response_time |-> safe_mean(per, "response_time"),
       avg_turnaround_time |-> safe_mean(per, "turnaround_time"),
       avg_waiting_time |-> safe_mean(per, "waiting_time"),
       max_waiting_time |-> IF waits = {} THEN NULL ELSE 100 * Largest(waits),
       throughput |-> IF makespan = 0 THEN 0
                      ELSE Round(1000 * Cardinality(Completed(per)), makespan),
       preemption_count |-> Cardinality({i \in DOMAIN evs : evs[i].event = "PREEMPT"}),
       starvation_occurred |-> pids # {}, starvation_pids |-> pids]

=============================================================================
