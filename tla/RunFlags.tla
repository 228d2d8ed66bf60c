------------------------------ MODULE RunFlags ------------------------------
(***************************************************************************)
(* From the guard's decision to the parameters a run is made under: the    *)
(* flags of scripts/orchestrator.py, the shell line that carries them, what*)
(* user/schedtest.c and the system calls make of them, and the two records *)
(* of applied parameters the host writes.  The flags of a command are a    *)
(* sequence of [flag, vals]; a file's Mirror lists its pids in fork order. *)
(***************************************************************************)
EXTENDS Guard, FiniteSets

CONSTANTS
  Mirror,   \* pids of the mirror workload, in the order schedtest forks them
  Prefix,     \* characters of "schedtest <algo> <seed> <profile>"
  LINE      \* characters of one command that sh.c reads

ASSUME FlagsAssumption == /\ Mirror \in Seq(Nat)
                          /\ Prefix \in Nat /\ LINE \in Nat

Flag(name, vals) == [flag |-> name, vals |-> vals]
NoFlags == << >>

-----------------------------------------------------------------------------
(* The host's side.                                                        *)

PredictorKeys == {"alpha_percent", "initial", "min", "max"}

\* The four parameters, of the decision if it is about a predictor.
PredictorOf(params) ==
  IF PredictorKeys \subseteq DOMAIN params THEN params ELSE PREDICTOR_DEFAULTS

\* _build_predictor_args: nothing at all without a prior.
build_predictor_args(dec) ==
  LET p == PredictorOf(dec.params)
      prior == dec.predicted_bursts
      hints == [i \in DOMAIN Mirror |->
                  IF Mirror[i] \in DOMAIN prior THEN prior[Mirror[i]] ELSE p.initial]
  IN  IF DOMAIN prior = {} THEN NoFlags
      ELSE <<Flag("alpha", <<p.alpha_percent>>), Flag("initial", <<p.initial>>),
             Flag("min", <<p.min>>), Flag("max", <<p.max>>)>>
           \o (IF hints = << >> THEN NoFlags ELSE <<Flag("hints", hints)>>)

MLFQ_MAX_QUEUES == 5

mlfq_flags(params) ==
  IF ~({"queues", "quantum"} \subseteq DOMAIN params) \/ params.quantum = << >> THEN NoFlags
  ELSE <<Flag("mlfq_queues", <<params.queues>>),
         Flag("mlfq_quantum",
              SubSeq(params.quantum, 1, IF Len(params.quantum) > MLFQ_MAX_QUEUES
                                        THEN MLFQ_MAX_QUEUES ELSE Len(params.quantum)))>>
       \o (IF "boost_interval" \in DOMAIN params
           THEN <<Flag("mlfq_boost", <<params.boost_interval>>)>> ELSE NoFlags)

\* SJF and SRTF always get the predictor's flags, the others only when they
\* are the selected algorithm.
schedtest_flags_for(algo, selected, params, pred_args) ==
  IF algo \in PREDICTOR_ALGORITHMS THEN pred_args
  ELSE IF algo # selected THEN NoFlags
  ELSE CASE algo = "RR" /\ "quantum" \in DOMAIN params -> <<Flag("rr_quantum", <<params.quantum>>)>>
         [] algo = "PRIORITY" /\ "aging_threshold" \in DOMAIN params ->
              <<Flag("aging", <<params.aging_threshold>>)>>
         [] algo = "MLFQ" -> mlfq_flags(params)
         [] OTHER -> NoFlags

\* The value a command gives a flag, << >> if it does not.
ValsOf(flags, name) ==
  IF \E i \in DOMAIN flags : flags[i].flag = name
  THEN flags[CHOOSE i \in DOMAIN flags : flags[i].flag = name].vals ELSE << >>

Has(flags, name) == ValsOf(flags, name) # << >>
One(flags, name) == ValsOf(flags, name)[1]

-----------------------------------------------------------------------------
(* The shell line.  sh.c reads LINE characters; what is left is the next   *)
(* command.                                                                *)

\* Characters of a flag with the spaces before and after it.
FLAG_WIDTH == [alpha |-> 9, initial |-> 11, min |-> 7, max |-> 7, hints |-> 9,
               rr_quantum |-> 14, aging |-> 9,
               mlfq_queues |-> 15, mlfq_quantum |-> 16, mlfq_boost |-> 14]

Digits(n) == Cardinality({i \in 1..5 : n >= 10^i}) + 1

\* Where each piece of a row of text ends, the first beginning at start.
RowEnds(start, widths) ==
  LET end[i \in 0..Len(widths)] == IF i = 0 THEN start ELSE end[i - 1] + widths[i]
  IN  end

\* Where each value of a flag ends, counted from the flag; commas in between.
ValEnds(f) == RowEnds(FLAG_WIDTH[f.flag] - 1, [i \in DOMAIN f.vals |-> 1 + Digits(f.vals[i])])

FlagEnds(flags) ==
  RowEnds(Prefix, [i \in DOMAIN flags |-> ValEnds(flags[i])[Len(flags[i].vals)]])

CommandWidth(flags) == FlagEnds(flags)[Len(flags)]

\* What the first `room` characters of a flag say: the values begun in them,
\* the last one perhaps without its last digits.
Clip(f, room) ==
  LET ends == ValEnds(f)
      begun == {i \in 1..Len(f.vals) : ends[i - 1] + 1 < room}
  IN  [f EXCEPT !.vals = [i \in 1..Cardinality(begun) |->
                            IF ends[i] <= room THEN f.vals[i]
                            ELSE f.vals[i] \div 10^(ends[i] - room)]]

\* The flags schedtest finds in argv; one without a value is as if it were not there.
Received(flags) ==
  [i \in DOMAIN flags |-> Clip(flags[i], LINE - FlagEnds(flags)[i - 1])]

-----------------------------------------------------------------------------
(* schedtest and the kernel: which settings are taken, which lines say so. *)

KERNEL_RR_QUANTUM == 1
KERNEL_AGE_THRESHOLD == 10
KERNEL_MAX_TICKS == 10000
KERNEL_MAX_BURST == 100000
KERNEL_MLFQ == [queues |-> 3, quantum |-> <<2, 4, 8>>, boost_interval |-> 20]

\* The globals of schedtest start at -1.
Arg(flags, name) == IF Has(flags, name) THEN One(flags, name) ELSE -1

setpredictor(flags) ==
  /\ Arg(flags, "alpha") \in 0..100
  /\ Arg(flags, "min") >= 1
  /\ Arg(flags, "max") \in Arg(flags, "min")..KERNEL_MAX_BURST
  /\ Arg(flags, "initial") >= 1

\* MLFQ's quanta are padded to five with the last one.
PaddedQuanta(flags) ==
  LET q == ValsOf(flags, "mlfq_quantum")
  IN  [i \in 1..MLFQ_MAX_QUEUES |-> IF i <= Len(q) THEN q[i] ELSE q[Len(q)]]

setmlfqparams(flags) ==
  /\ Has(flags, "mlfq_quantum")
  /\ Arg(flags, "mlfq_queues") \in 2..MLFQ_MAX_QUEUES
  /\ \A i \in 1..Arg(flags, "mlfq_queues") : PaddedQuanta(flags)[i] \in 1..100

setmlfqboost(flags) == Arg(flags, "mlfq_boost") \in 1..KERNEL_MAX_TICKS

\* The configuration a run is made under.
KERNEL_PREDICTOR == [alpha_percent |-> 50, initial |-> 10, min |-> 1, max |-> 100]

InForce(algo, flags) ==
  CASE algo = "RR" ->
         [quantum |-> IF Arg(flags, "rr_quantum") \in 1..100 THEN Arg(flags, "rr_quantum")
                      ELSE KERNEL_RR_QUANTUM]
    [] algo = "PRIORITY" ->
         [aging_threshold |-> IF Arg(flags, "aging") \in 1..KERNEL_MAX_TICKS THEN Arg(flags, "aging")
                              ELSE KERNEL_AGE_THRESHOLD]
    [] algo = "MLFQ" ->
         [queues |-> IF setmlfqparams(flags) THEN Arg(flags, "mlfq_queues") ELSE KERNEL_MLFQ.queues,
          quantum |-> IF setmlfqparams(flags)
                      THEN SubSeq(PaddedQuanta(flags), 1, Arg(flags, "mlfq_queues"))
                      ELSE KERNEL_MLFQ.quantum,
          boost_interval |-> IF setmlfqparams(flags) /\ setmlfqboost(flags)
                             THEN Arg(flags, "mlfq_boost") ELSE KERNEL_MLFQ.boost_interval]
    [] algo \in PREDICTOR_ALGORITHMS ->
         IF setpredictor(flags)
         THEN [alpha_percent |-> Arg(flags, "alpha"), initial |-> Arg(flags, "initial"),
               min |-> Arg(flags, "min"), max |-> Arg(flags, "max")]
         ELSE KERNEL_PREDICTOR
    [] OTHER -> [x \in {} |-> 0]

\* The lines of a run that say a setting was accepted.
ParamLines(algo, flags) ==
  CASE algo = "RR" ->
         {[event |-> "RR_PARAMS", quantum |-> q] : q \in {Arg(flags, "rr_quantum")} \cap (1..100)}
    [] algo = "PRIORITY" ->
         {[event |-> "PRIORITY_PARAMS", aging_threshold |-> t] :
            t \in {Arg(flags, "aging")} \cap (1..KERNEL_MAX_TICKS)}
    [] algo = "MLFQ" /\ setmlfqparams(flags) ->
         {[event |-> "MLFQ_PARAMS", queues |-> Arg(flags, "mlfq_queues"),
           quantum |-> SubSeq(PaddedQuanta(flags), 1, Arg(flags, "mlfq_queues")),
           boost_interval |-> IF setmlfqboost(flags) THEN Num(Arg(flags, "mlfq_boost"))
                              ELSE Absent]}
    [] algo \in PREDICTOR_ALGORITHMS ->
         {[event |-> "PREDICTOR_PARAMS", alpha_percent |-> Arg(flags, "alpha"),
           initial |-> Arg(flags, "initial"), min |-> Arg(flags, "min"),
           max |-> Arg(flags, "max")] : x \in {y \in {TRUE} : setpredictor(flags)}}
         \cup {[event |-> "BURST_HINT_APPLIED", index |-> i,
                predicted_burst |-> ValsOf(flags, "hints")[i]] :
                 i \in {j \in DOMAIN ValsOf(flags, "hints") \cap DOMAIN Mirror :
                          ValsOf(flags, "hints")[j] > 0}}
    [] OTHER -> {}

-----------------------------------------------------------------------------
(* What the host writes about it: [source, vals].                          *)

Nothing == [x \in {} |-> 0]
Applied(source, vals) == [source |-> source, vals |-> vals]
LinesOf(lines, event) == {l \in lines : l.event = event}
AnyOf(S) == CHOOSE x \in S : TRUE

\* derive_applied_params: from the lines that survived on the console.
HintList(lines) ==
  LET hints == LinesOf(lines, "BURST_HINT_APPLIED")
      nth(i) == CHOOSE h \in hints : Cardinality({g \in hints : g.index < h.index}) = i - 1
  IN  [i \in 1..Cardinality(hints) |-> nth(i).predicted_burst]

derive_applied_params(algo, lines) ==
  CASE algo = "RR" ->
         IF LinesOf(lines, "RR_PARAMS") # {}
         THEN Applied("llm_guard", [quantum |-> AnyOf(LinesOf(lines, "RR_PARAMS")).quantum])
         ELSE Applied("xv6_default", [quantum |-> KERNEL_RR_QUANTUM])
    [] algo = "PRIORITY" ->
         IF LinesOf(lines, "PRIORITY_PARAMS") # {}
         THEN Applied("llm_guard",
                [aging_threshold |-> AnyOf(LinesOf(lines, "PRIORITY_PARAMS")).aging_threshold])
         ELSE Applied("xv6_default", [aging_threshold |-> KERNEL_AGE_THRESHOLD])
    [] algo = "MLFQ" ->
         IF LinesOf(lines, "MLFQ_PARAMS") # {}
         THEN LET l == AnyOf(LinesOf(lines, "MLFQ_PARAMS"))
              IN  Applied("llm_guard",
                    [queues |-> l.queues, quantum |-> l.quantum,
                     boost_interval |-> IF IsNum(l.boost_interval) THEN l.boost_interval.int
                                        ELSE KERNEL_MLFQ.boost_interval])
         ELSE Applied("xv6_default", KERNEL_MLFQ)
    [] algo \in PREDICTOR_ALGORITHMS ->
         LET params == LinesOf(lines, "PREDICTOR_PARAMS")
             hints == HintList(lines)
         IN  Applied("llm_guard",
               [k \in (IF params # {} THEN PredictorKeys ELSE {})
                      \cup (IF hints # << >> THEN {"burst_hints"} ELSE {}) |->
                  IF k = "burst_hints" THEN hints ELSE AnyOf(params)[k]])
    [] OTHER -> Applied(NONE, Nothing)

\* _parse_pred_flags
EmaOf(flags) ==
  [k \in {j \in PredictorKeys : flags # NoFlags} |->
     One(flags, IF k = "alpha_percent" THEN "alpha" ELSE k)]

\* _applied_from_guard: what was put on the command line of the selected
\* algorithm, whether or not it arrived.
applied_from_guard(algo, params, pred_args) ==
  LET flags == schedtest_flags_for(algo, algo, params, pred_args)
      hints == ValsOf(flags, "hints")
  IN  IF algo \in PREDICTOR_ALGORITHMS
      THEN Applied(IF "alpha_percent" \in DOMAIN params THEN "llm_guard" ELSE "xv6_default",
             [k \in DOMAIN EmaOf(flags) \cup (IF hints # << >> THEN {"burst_hints"} ELSE {}) |->
                IF k = "burst_hints" THEN hints ELSE EmaOf(flags)[k]])
      ELSE IF flags = NoFlags THEN Applied(NONE, Nothing)
      ELSE CASE algo = "RR" -> Applied("llm_guard", [quantum |-> One(flags, "rr_quantum")])
             [] algo = "PRIORITY" -> Applied("llm_guard", [aging_threshold |-> One(flags, "aging")])
             [] algo = "MLFQ" ->
                  Applied("llm_guard",
                    [k \in {"queues", "quantum"} \cup
                           (IF Has(flags, "mlfq_boost") THEN {"boost_interval"} ELSE {}) |->
                       CASE k = "queues" -> One(flags, "mlfq_queues")
                         [] k = "quantum" -> ValsOf(flags, "mlfq_quantum")
                         [] k = "boost_interval" -> One(flags, "mlfq_boost")])

\* The record of the selected algorithm: the flags' word goes before the trace's.
applied_params(algo, params, pred_args, lines) ==
  LET claimed == applied_from_guard(algo, params, pred_args)
  IN  IF claimed.source # NONE THEN claimed ELSE derive_applied_params(algo, lines)

param_application_status(algo, applied) ==
  IF algo = "FCFS" THEN "not_applicable"
  ELSE IF applied.source = "llm_guard" THEN "fully_applied" ELSE "fixed_default"
=============================================================================
