----------------------------- MODULE HostProofs -----------------------------
(***************************************************************************)
(* The host's decisions in the order scripts/orchestrator.py takes them,   *)
(* for every set of answers: what is run is in range, and a correction of  *)
(* what the guard took as it was is never refused.                         *)
(***************************************************************************)
EXTENDS Host, GuardProofs, FiniteSetTheorems, SequenceTheorems

-----------------------------------------------------------------------------
(* The invariant.                                                          *)

Guarded == {"command", "typed", "run", "judge", "done"}

\* The recommendation's parameters are JSON values.
RecOk == JsonParams(ParamsGiven(rec))

\* guard_decision.json is the guard's word on recommendation.json.
DecisionOfRec == dec = guard(rec)

HostInv ==
  /\ stage \in Guarded \cup {"guard"} => RecOk
  /\ stage \in Guarded => DecisionOfRec
  /\ ProposalPassesGuard

\* What xv6 is told to run is an algorithm it has, its parameters in range.
RunInRange ==
  stage \in Guarded =>
    Selected(dec) \in SUPPORTED_ALGORITHMS /\ InRange(Selected(dec), dec.params)

-----------------------------------------------------------------------------
(* What the guard's decision says of the recommendation.                   *)

LEMMA TakenAsGiven ==
  ASSUME NEW r, guard(r).guard_result # "rejected"
  PROVE  /\ r.algorithm # NONE /\ Supported(r)
         /\ guard(r).algorithm = normalize_algo(r.algorithm)
<1> DEFINE algo == normalize_algo(r.algorithm)
           metric == check_metric(r)
           priors == clamp_predicted_bursts(r.predicted_bursts)
<1>1. ASSUME NEW a, NEW f, NEW p PROVE Fallen(a, f, p).guard_result = "rejected"
  BY SMT DEF Fallen, add_compat_keys
<1>2. validate_schema(r)
  BY <1>1, Zenon DEF guard
<1>3. Supported(r)
  BY <1>1, <1>2, Zenon DEF guard
<1>4. ~Rejected(algo, metric)
  BY <1>1, <1>2, <1>3, Zenon DEF guard
<1>5. guard(r) = add_compat_keys(decide(r, algo, metric), algo, NONE,
                                 normalize_params(algo, r), priors)
  BY <1>2, <1>3, <1>4, Zenon DEF guard
<1> HIDE DEF algo, metric, priors
<1>6. guard(r).algorithm = algo
  BY <1>5, SMT DEF add_compat_keys
<1>7. r.algorithm # NONE
  BY <1>2, SMT DEF validate_schema
<1> QED  BY <1>3, <1>6, <1>7 DEF algo

\* The advisors leave the parameters as they are, or empty.
LEMMA AdvisedParams ==
  ASSUME NEW a \in Answers, NEW summary
  PROVE  /\ JsonParams(ParamsGiven(a.answer))
         /\ JsonParams(ParamsGiven(validate(a.answer, summary)))
         /\ JsonParams(ParamsGiven(recommend_from_intent(a.answer)))
<1> DEFINE r == a.answer
<1>1. "params" \in DOMAIN r /\ (r.params.shape = "object" => JsonParams(r.params.of))
  BY AnswersAssumption
<1> HIDE DEF r
<1>2. JsonParams([x \in {} |-> Other])
  BY Zenon DEF JsonParams
<1>3. ASSUME NEW q, q.params = r.params PROVE JsonParams(ParamsGiven(q))
  BY <1>1, <1>2, <1>3, Zenon DEF ParamsGiven
<1>4. validate(r, summary).params = r.params
  BY <1>1, SMT DEF validate
<1>5. JsonParams(ParamsGiven(recommend_from_intent(r)))
  <2>1. recommend_from_intent(r).params
          = IF r.params.shape = "object" THEN r.params ELSE [shape |-> "object", of |-> << >>]
    BY <1>1, SMT DEF recommend_from_intent
  <2>2. CASE r.params.shape = "object"
    BY <1>3, <2>1, <2>2, Zenon
  <2>3. CASE r.params.shape # "object"
    <3>1. recommend_from_intent(r).params.of = << >>
      BY <2>1, <2>3, SMT
    <3>2. recommend_from_intent(r).params.shape = "object"
      BY <2>1, <2>3, SMT
    <3>3. JsonParams(<< >>)
      <4>1. DOMAIN << >> = {}
        BY SMT
      <4> QED  BY <4>1, Zenon DEF JsonParams
    <3> QED  BY <3>1, <3>2, <3>3, Zenon DEF ParamsGiven
  <2> QED  BY <2>2, <2>3
<1> QED  BY <1>3, <1>4, <1>5 DEF r

-----------------------------------------------------------------------------
(* The steps.                                                              *)

LEMMA HostInvInit == Init => HostInv
BY SMT DEF Init, HostInv, Guarded, ProposalPassesGuard

LEMMA HostInvStep == HostInv /\ [Next]_vars => HostInv'
<1> SUFFICES ASSUME HostInv, [Next]_vars PROVE HostInv'
  OBVIOUS
<1>1. ASSUME Advise PROVE HostInv'
  <2>1. PICK a \in Answers :
          LET refused == a.by = "model" /\ Refused(a.answer)
          IN  /\ stage' = IF refused THEN "stopped" ELSE "guard"
              /\ rec' = IF refused THEN rec
                        ELSE CASE a.by = "model" -> validate(a.answer, analyze_workload(MirrorWorkload))
                               [] a.by = "intent" -> recommend_from_intent(a.answer)
                               [] OTHER -> a.answer
    BY <1>1, Zenon DEF Advise
  <2>2. stage' \in {"stopped", "guard"}
    BY <2>1, SMT
  <2>3. stage' = "guard" => RecOk'
    <3> DEFINE byModel == validate(a.answer, analyze_workload(MirrorWorkload))
               byIntent == recommend_from_intent(a.answer)
    <3>1. JsonParams(ParamsGiven(a.answer)) /\ JsonParams(ParamsGiven(byModel))
         /\ JsonParams(ParamsGiven(byIntent))
      BY AdvisedParams, Zenon
    <3>2. stage' = "guard" => rec' \in {a.answer, byModel, byIntent}
      <4>1. stage' = "guard" => ~(a.by = "model" /\ Refused(a.answer))
        BY <2>1, SMT
      <4>2. stage' = "guard" =>
              rec' = CASE a.by = "model" -> byModel [] a.by = "intent" -> byIntent [] OTHER -> a.answer
        BY <2>1, <4>1, Zenon
      <4> HIDE DEF byModel, byIntent
      <4> QED  BY <4>2, SMT
    <3> HIDE DEF byModel, byIntent
    <3> QED  BY <3>1, <3>2, Zenon DEF RecOk
  <2> QED  BY <2>2, <2>3, SMT DEF HostInv, Guarded, ProposalPassesGuard
<1>2. ASSUME RunGuard PROVE HostInv'
  <2>1. stage = "guard" /\ dec' = guard(rec) /\ stage' = "command" /\ rec' = rec
    BY <1>2, Zenon DEF RunGuard
  <2>2. RecOk' /\ DecisionOfRec'
    BY <2>1, SMT DEF HostInv, Guarded, RecOk, DecisionOfRec
  <2> QED  BY <2>1, <2>2, SMT DEF HostInv, Guarded, ProposalPassesGuard
<1>3. ASSUME rec' = rec, dec' = dec, stage \in Guarded, stage' \in Guarded \ {"done"}
      PROVE  HostInv'
  <2>1. RecOk' /\ DecisionOfRec'
    BY <1>3, Zenon DEF HostInv, RecOk, DecisionOfRec
  <2> QED  BY <1>3, <2>1, SMT DEF HostInv, Guarded, ProposalPassesGuard
<1>4. ASSUME Type PROVE HostInv'
  <2>1. rec' = rec /\ dec' = dec /\ stage = "command" /\ stage' = "typed"
    BY <1>4, Zenon DEF Type
  <2> QED  BY <1>3, <2>1, SMT DEF Guarded
<1>5. ASSUME Start PROVE HostInv'
  <2>1. rec' = rec /\ dec' = dec /\ stage = "typed" /\ stage' = "run"
    BY <1>5, Zenon DEF Start
  <2> QED  BY <1>3, <2>1, SMT DEF Guarded
<1>6. ASSUME Run PROVE HostInv'
  <2>1. rec' = rec /\ dec' = dec /\ stage = "run" /\ stage' = "run"
    BY <1>6, Zenon DEF Run, hostVars
  <2> QED  BY <1>3, <2>1, SMT DEF Guarded
<1>7. ASSUME Capture PROVE HostInv'
  <2>1. rec' = rec /\ dec' = dec /\ stage = "run" /\ stage' = "judge"
    BY <1>7, Zenon DEF Capture
  <2> QED  BY <1>3, <2>1, SMT DEF Guarded
<1>8. ASSUME TimesOut PROVE HostInv'
  <2>1. stage' = "stopped"
    BY <1>8, Zenon DEF TimesOut
  <2> QED  BY <2>1, SMT DEF HostInv, Guarded, ProposalPassesGuard
<1>9. ASSUME Judges PROVE HostInv'
  <2>1. rec' = rec /\ dec' = dec /\ stage = "judge" /\ stage' = "done"
    BY <1>9, Zenon DEF Judges
  <2>2. RecOk' /\ DecisionOfRec' /\ RecOk /\ DecisionOfRec
    BY <2>1, SMT DEF HostInv, Guarded, RecOk, DecisionOfRec
  <2>3. PICK events :
          proposal' = IF events = << >> THEN Unset
                      ELSE LET p == propose(events, rec)
                           IN  [proposed |-> p, decision |-> cg_validate(p)]
    BY <1>9, Zenon DEF Judges
  <2>4. ASSUME proposal' # Unset, dec.guard_result # "rejected", ~ParamsWarn(dec.algorithm, rec)
        PROVE  proposal'.decision = "accepted"
    <3>1. proposal'.decision = cg_validate(propose(events, rec))
      BY <2>3, <2>4, SMT
    <3>2. rec.algorithm # NONE /\ Supported(rec) /\ dec.algorithm = normalize_algo(rec.algorithm)
      BY <2>2, <2>4, TakenAsGiven, Zenon DEF DecisionOfRec
    <3>3. cg_validate(propose(events, rec)) = "accepted"
      BY <2>2, <2>4, <3>2, ProposalAccepted, Zenon DEF RecOk
    <3> QED  BY <3>1, <3>3
  <2>5. ProposalPassesGuard'
    BY <2>1, <2>4, Zenon DEF ProposalPassesGuard
  <2> QED  BY <2>2, <2>5, Zenon DEF HostInv
<1>10. ASSUME UNCHANGED vars PROVE HostInv'
  BY <1>10, Zenon DEF vars, hostVars, HostInv, RecOk, DecisionOfRec, ProposalPassesGuard
<1> QED  BY <1>1, <1>2, <1>4, <1>5, <1>6, <1>7, <1>8, <1>9, <1>10, Zenon DEF Next

-----------------------------------------------------------------------------
(* The theorems.                                                           *)

LEMMA HostInvariant == HostSpec => []HostInv
<1>1. HostInv /\ UNCHANGED vars => HostInv'
  BY HostInvStep
<1> QED  BY HostInvInit, HostInvStep, PTL DEF HostSpec

\* No correction proposed for parameters the guard took as they were is refused.
THEOREM ProposalsPass == HostSpec => []ProposalPassesGuard
<1>1. HostInv => ProposalPassesGuard
  BY DEF HostInv
<1> QED  BY <1>1, HostInvariant, PTL

\* Whoever answers and whatever the answer holds, every command line is built
\* from an algorithm of xv6 and parameters in range.
THEOREM RunsInRange == HostSpec => []RunInRange
<1>1. HostInv => RunInRange
  <2> SUFFICES ASSUME HostInv, stage \in Guarded
               PROVE  Selected(dec) \in SUPPORTED_ALGORITHMS /\ InRange(Selected(dec), dec.params)
    BY DEF RunInRange
  <2>1. RecOk /\ dec = guard(rec)
    BY SMT DEF HostInv, DecisionOfRec
  <2>2. IntegerLists(ParamsGiven(rec))
    BY <2>1, Zenon DEF RecOk, JsonParams, IntegerLists
  <2> QED  BY <2>1, <2>2, GuardedRuns, Zenon DEF Selected
<1> QED  BY <1>1, HostInvariant, PTL

-----------------------------------------------------------------------------
(* The command line.                                                       *)

\* Where the pieces of a row end: the recursion has a solution, which only grows.
Grows(e, start, n, widths) ==
  /\ e \in [0..n -> Nat] /\ e[0] = start
  /\ \A i \in 1..n : e[i] = e[i - 1] + widths[i]
  /\ \A i \in 0..n : \A j \in 0..i : e[j] <= e[i]

LEMMA RowGrows ==
  ASSUME NEW start \in Nat, NEW n \in Nat, NEW widths \in [1..n -> Nat], Len(widths) = n
  PROVE  Grows(RowEnds(start, widths), start, n, widths)
<1> DEFINE Row(k, f) == /\ f \in [0..k -> Nat] /\ f[0] = start
                        /\ \A i \in 1..k : f[i] = f[i - 1] + widths[i]
           e == CHOOSE f : f = [i \in 0..n |-> IF i = 0 THEN start ELSE f[i - 1] + widths[i]]
<1>1. \E f : Row(n, f)
  <2> DEFINE D == {k \in 0..n : \E f : Row(k, f)}
  <2>1. 0 \in D
    <3>1. Row(0, [i \in 0..0 |-> start])
      OBVIOUS
    <3>2. \E f : Row(0, f)
      BY <3>1, Zenon
    <3>3. 0 \in 0..n
      OBVIOUS
    <3> QED  BY <3>2, <3>3, Zenon
  <2>2. ASSUME NEW k \in 0..n, k \in D, k + 1 <= n PROVE k + 1 \in D
    <3>1. PICK f : Row(k, f)
      BY <2>2
    <3> DEFINE g == [i \in 0..k + 1 |-> IF i = k + 1 THEN f[k] + widths[k + 1] ELSE f[i]]
    <3>2. k \in Nat /\ k + 1 \in 1..n /\ f[k] \in Nat /\ widths[k + 1] \in Nat
      BY <2>2, <3>1
    <3>3. g \in [0..k + 1 -> Nat] /\ g[0] = start
      BY <3>1, <3>2
    <3>4. \A i \in 1..k + 1 : g[i] = g[i - 1] + widths[i]
      BY <3>1, <3>2
    <3> HIDE DEF g
    <3>5. Row(k + 1, g)
      BY <3>3, <3>4
    <3>6. \E h : Row(k + 1, h)
      BY <3>5, Zenon
    <3>7. k + 1 \in 0..n
      BY <3>2
    <3> QED  BY <3>6, <3>7, Zenon
  <2>3. D \subseteq 0..n
    OBVIOUS
  <2>4. n \in D
    <3> HIDE DEF D
    <3>1. D = 0..n
      BY <2>1, <2>2, <2>3, UpTo
    <3> QED  BY <3>1
  <2> QED  BY <2>4
<1>2. e = [i \in 0..n |-> IF i = 0 THEN start ELSE e[i - 1] + widths[i]]
  <2>1. PICK f : Row(n, f)
    BY <1>1
  <2>2. f = [i \in 0..n |-> IF i = 0 THEN start ELSE f[i - 1] + widths[i]]
    BY <2>1
  <2> QED  BY <2>2, Zenon
<1>3. e = RowEnds(start, widths)
  BY Zenon DEF RowEnds
<1> HIDE DEF e
<1>4. DOMAIN e = 0..n /\ e = [i \in 0..n |-> e[i]]
  BY <1>2
<1>5. e[0] = start /\ \A i \in 1..n : e[i] = e[i - 1] + widths[i]
  BY <1>2
<1>6. \A i \in 0..n : e[i] \in Nat /\ \A j \in 0..i : e[j] <= e[i]
  <2> DEFINE D == {i \in 0..n : \A j \in 0..i : e[j] \in Nat /\ e[j] <= e[i]}
  <2>1. 0 \in D
    BY <1>5
  <2>2. ASSUME NEW k \in 0..n, k \in D, k + 1 <= n PROVE k + 1 \in D
    <3>1. k + 1 \in 1..n /\ e[k + 1] = e[k] + widths[k + 1] /\ widths[k + 1] \in Nat
      BY <1>5, <2>2
    <3>2. \A j \in 0..k + 1 : j \in 0..k \/ j = k + 1
      BY <3>1
    <3>3. /\ \A j \in 0..k : e[j] \in Nat /\ e[j] <= e[k]
          /\ k \in 0..k
      BY <2>2
    <3> QED  BY <3>1, <3>2, <3>3
  <2>3. D \subseteq 0..n
    OBVIOUS
  <2>4. D = 0..n
    <3> HIDE DEF D
    <3> QED  BY <2>1, <2>2, <2>3, UpTo
  <2>5. ASSUME NEW i \in 0..n PROVE e[i] \in Nat /\ \A j \in 0..i : e[j] <= e[i]
    <3>1. i \in D /\ i \in 0..i
      BY <2>4
    <3> QED  BY <3>1
  <2> QED  BY <2>5
<1>7. Grows(e, start, n, widths)
  BY <1>4, <1>5, <1>6 DEF Grows
<1> QED  BY <1>3, <1>7

LEMMA SomeDigits == ASSUME NEW k PROVE Digits(k) \in Nat /\ Digits(k) >= 1
<1> DEFINE T == {i \in 1..5 : k >= 10^i}
<1>1. IsFiniteSet(T)
  <2>1. T \subseteq 1..5
    BY Zenon
  <2>2. IsFiniteSet(1..5)
    <3>1. 1 \in Int /\ 5 \in Int
      OBVIOUS
    <3> QED  BY <3>1, FS_Interval, Zenon
  <2> HIDE DEF T
  <2> QED  BY <2>1, <2>2, FS_Subset
<1>2. Cardinality(T) \in Nat
  BY <1>1, FS_CardinalityType
<1>3. Digits(k) = Cardinality(T) + 1
  BY Zenon DEF Digits
<1> HIDE DEF T
<1> QED  BY <1>2, <1>3

\* A flag of a command, its values taken from S.
FlagOf(S) == [flag : DOMAIN FLAG_WIDTH, vals : Seq(S)]

LEMMA ValuesEnd ==
  ASSUME NEW S, NEW f \in FlagOf(S)
  PROVE  LET n == Len(f.vals)
             e == ValEnds(f)
         IN  /\ n \in Nat /\ e \in [0..n -> Nat]
             /\ \A i \in 1..n : e[i - 1] + 2 <= e[i]
             /\ \A i \in 0..n : e[i] <= e[n]
<1> DEFINE n == Len(f.vals)
           widths == [i \in DOMAIN f.vals |-> 1 + Digits(f.vals[i])]
           start == FLAG_WIDTH[f.flag] - 1
           e == ValEnds(f)
<1>1. n \in Nat /\ DOMAIN f.vals = 1..n
  BY DEF FlagOf
<1>2. start \in Nat
  BY SMT DEF FlagOf, FLAG_WIDTH
<1>3. widths \in [1..n -> Nat] /\ \A i \in 1..n : widths[i] >= 2
  BY <1>1, SomeDigits
<1>4. Len(widths) = n
  BY <1>1
<1>5. e = RowEnds(start, widths)
  BY Zenon DEF ValEnds
<1> HIDE DEF n, widths, start, e
<1>6. /\ e \in [0..n -> Nat]
      /\ \A i \in 1..n : e[i] = e[i - 1] + widths[i]
      /\ \A i \in 0..n : \A j \in 0..i : e[j] <= e[i]
  <2>1. Grows(e, start, n, widths)
    BY <1>1, <1>2, <1>3, <1>4, <1>5, RowGrows
  <2> QED  BY <2>1, Zenon DEF Grows
<1>7. \A i \in 1..n : e[i - 1] + 2 <= e[i]
  BY <1>1, <1>3, <1>6
<1>8. \A i \in 0..n : e[i] <= e[n]
  BY <1>1, <1>6
<1> QED  BY <1>1, <1>6, <1>7, <1>8 DEF n, e

\* A flag that ends within the line is read whole.
LEMMA ClipWhole ==
  ASSUME NEW S, NEW f \in FlagOf(S), NEW room \in Int, ValEnds(f)[Len(f.vals)] <= room
  PROVE  Clip(f, room) = f
<1> DEFINE n == Len(f.vals)
           e == ValEnds(f)
           begun == {i \in 1..Len(f.vals) : ValEnds(f)[i - 1] + 1 < room}
           kept == [i \in 1..Cardinality(begun) |->
                      IF ValEnds(f)[i] <= room THEN f.vals[i]
                      ELSE f.vals[i] \div 10^(ValEnds(f)[i] - room)]
<1>1. /\ n \in Nat /\ e \in [0..n -> Nat]
      /\ \A i \in 1..n : e[i - 1] + 2 <= e[i]
      /\ \A i \in 0..n : e[i] <= e[n]
  BY ValuesEnd
<1>2. e[n] <= room
  OBVIOUS
<1>3. begun = 1..n
  <2> HIDE DEF e
  <2>1. \A i \in 1..n : e[i - 1] + 1 < room
    <3> SUFFICES ASSUME NEW i \in 1..n PROVE e[i - 1] + 1 < room
      OBVIOUS
    <3>1. i - 1 \in 0..n /\ i \in 0..n /\ n \in 0..n
      BY <1>1
    <3>2. e[i - 1] \in Nat /\ e[i] \in Nat /\ e[n] \in Nat
      BY <1>1, <3>1
    <3> QED  BY <1>1, <1>2, <3>1, <3>2
  <2> QED  BY <2>1 DEF e
<1>4. Cardinality(1..n) = n
  BY <1>1, FS_Interval
<1>5. \A i \in 1..n : e[i] <= room
  <2> HIDE DEF n, e
  <2> QED  BY <1>1, <1>2
<1>6. kept = [i \in 1..n |-> f.vals[i]]
  <2>1. Cardinality(begun) = n
    BY <1>3, <1>4
  <2> HIDE DEF begun, n
  <2> QED  BY <1>5, <2>1, Zenon
<1>7. f.vals = [i \in 1..n |-> f.vals[i]]
  BY DEF FlagOf
<1>8. Clip(f, room) = [f EXCEPT !.vals = kept]
  BY Zenon DEF Clip
<1> HIDE DEF kept
<1>9. [f EXCEPT !.vals = f.vals] = f
  BY DEF FlagOf
<1> QED  BY <1>6, <1>7, <1>8, <1>9

\* A command that fits the line arrives as it was sent.
LEMMA ReceivedWhole ==
  ASSUME NEW S, NEW flags \in Seq(FlagOf(S)), CommandWidth(flags) <= LINE
  PROVE  Received(flags) = flags
<1> DEFINE n == Len(flags)
           Width(i) == ValEnds(flags[i])[Len(flags[i].vals)]
           widths == [i \in DOMAIN flags |-> Width(i)]
           e == FlagEnds(flags)
<1>1. n \in Nat /\ DOMAIN flags = 1..n /\ \A i \in 1..n : flags[i] \in FlagOf(S)
  OBVIOUS
<1>2. \A i \in 1..n : Width(i) \in Nat
  <2> SUFFICES ASSUME NEW i \in 1..n PROVE Width(i) \in Nat
    OBVIOUS
  <2> DEFINE f == flags[i]
  <2>1. f \in FlagOf(S)
    BY <1>1
  <2> HIDE DEF f
  <2>2. Len(f.vals) \in Nat /\ ValEnds(f) \in [0..Len(f.vals) -> Nat]
    BY <2>1, ValuesEnd
  <2>3. ValEnds(f)[Len(f.vals)] \in Nat
    BY <2>2
  <2> QED  BY <2>3 DEF f
<1>3. widths \in [1..n -> Nat] /\ Len(widths) = n
  <2> HIDE DEF Width
  <2> QED  BY <1>1, <1>2
<1>4. e = RowEnds(Prefix, widths)
  BY Zenon DEF FlagEnds
<1>5. Prefix \in Nat /\ LINE \in Nat
  BY FlagsAssumption
<1>6. CommandWidth(flags) = e[n]
  BY Zenon DEF CommandWidth
<1> HIDE DEF e, n, Width
<1>7. /\ e \in [0..n -> Nat] /\ \A i \in 1..n : e[i] = e[i - 1] + widths[i]
      /\ \A i \in 0..n : \A j \in 0..i : e[j] <= e[i]
  <2> HIDE DEF widths
  <2>1. Grows(e, Prefix, n, widths)
    BY <1>1, <1>3, <1>4, <1>5, RowGrows
  <2> QED  BY <2>1, Zenon DEF Grows
<1>8. ASSUME NEW i \in 1..n PROVE Clip(flags[i], LINE - e[i - 1]) = flags[i]
  <2>1. i - 1 \in 0..n /\ i \in 0..n /\ n \in 0..n
    BY <1>1
  <2>2. e[i - 1] \in Nat /\ e[i] \in Nat /\ e[n] \in Nat /\ e[i] <= e[n]
    BY <1>7, <2>1
  <2>3. e[i] = e[i - 1] + Width(i)
    BY <1>1, <1>7
  <2>4. Width(i) <= LINE - e[i - 1] /\ LINE - e[i - 1] \in Int
    BY <1>2, <1>5, <1>6, <2>2, <2>3
  <2> QED  BY <1>1, <2>4, ClipWhole, Zenon DEF Width
<1>9. Received(flags) = [i \in DOMAIN flags |-> Clip(flags[i], LINE - e[i - 1])]
  BY Zenon DEF Received, e
<1>10. flags = [i \in DOMAIN flags |-> flags[i]]
  OBVIOUS
<1> QED  BY <1>1, <1>8, <1>9, <1>10, Zenon

-----------------------------------------------------------------------------
(* What the kernel takes.                                                  *)

\* The parameters that leave the guard have the names of the defaults.
LEMMA NormalizedNames ==
  ASSUME NEW algo \in SUPPORTED_ALGORITHMS, NEW r
  PROVE  DOMAIN normalize_params(algo, r) = DOMAIN DEFAULT_PARAMS[algo]
<1> DEFINE params == ParamsGiven(r)
<1>1. ASSUME NEW a PROVE DOMAIN Ranged(a, params) = DOMAIN PARAM_RANGES[a]
  BY Zenon DEF Ranged
<1>2. CASE algo = "FCFS"
  <2>1. normalize_params("FCFS", r) = DEFAULT_PARAMS["FCFS"]
    BY SMT DEF normalize_params, PREDICTOR_ALGORITHMS
  <2> QED  BY <1>2, <2>1
<1>3. CASE algo = "MLFQ"
  <2>1. normalize_params("MLFQ", r) = MlfqParams(params)
    BY SMT DEF normalize_params, PREDICTOR_ALGORITHMS
  <2>2. DOMAIN MlfqParams(params) = {"queues", "aging_threshold", "boost_interval", "quantum"}
    BY SMT DEF MlfqParams
  <2>3. DOMAIN DEFAULT_PARAMS["MLFQ"] = {"queues", "quantum", "aging_threshold", "boost_interval"}
    BY Defaults
  <2> QED  BY <1>3, <2>1, <2>2, <2>3
<1>4. CASE algo = "RR"
  <2>1. normalize_params("RR", r) = Ranged("RR", params)
    BY SMT DEF normalize_params, PREDICTOR_ALGORITHMS
  <2>2. DOMAIN PARAM_RANGES["RR"] = {"quantum"} /\ DOMAIN DEFAULT_PARAMS["RR"] = {"quantum"}
    BY Ranges, Defaults
  <2> QED  BY <1>1, <1>4, <2>1, <2>2
<1>5. CASE algo = "PRIORITY"
  <2>1. normalize_params("PRIORITY", r) = Ranged("PRIORITY", params)
    BY SMT DEF normalize_params, PREDICTOR_ALGORITHMS
  <2>2. /\ DOMAIN PARAM_RANGES["PRIORITY"] = {"aging_threshold"}
        /\ DOMAIN DEFAULT_PARAMS["PRIORITY"] = {"aging_threshold"}
    BY Ranges, Defaults
  <2> QED  BY <1>1, <1>5, <2>1, <2>2
<1>6. CASE algo \in PREDICTOR_ALGORITHMS
  <2>1. normalize_params(algo, r) = PredictorParams(algo, params)
    BY <1>6, SMT DEF normalize_params, PREDICTOR_ALGORITHMS
  <2>2. DOMAIN PredictorParams(algo, params) = {"alpha_percent", "min", "max", "initial"}
    BY SMT DEF PredictorParams
  <2>3. DEFAULT_PARAMS[algo] = PREDICTOR_DEFAULTS
    BY <1>6, Defaults DEF PREDICTOR_ALGORITHMS
  <2>4. DOMAIN PREDICTOR_DEFAULTS = {"alpha_percent", "initial", "min", "max"}
    BY DEF PREDICTOR_DEFAULTS
  <2> QED  BY <2>1, <2>2, <2>3, <2>4
<1> QED  BY <1>2, <1>3, <1>4, <1>5, <1>6, Algorithms, SMT DEF PREDICTOR_ALGORITHMS

LEMMA GuardedNames ==
  ASSUME NEW r
  PROVE  DOMAIN guard(r).params = DOMAIN DEFAULT_PARAMS[get_guard_algorithm(guard(r))]
<1> DEFINE d == guard(r)
<1>1. ASSUME NEW algo \in SUPPORTED_ALGORITHMS, d.scheduling_algorithm = normalize_algorithm_name(algo)
      PROVE  get_guard_algorithm(d) = algo
  BY <1>1, NamesReadBack, Zenon DEF get_guard_algorithm
<1>2. ASSUME NEW algo, NEW fallback \in {"MLFQ", "RR"}, NEW priors, d = Fallen(algo, fallback, priors)
      PROVE  DOMAIN d.params = DOMAIN DEFAULT_PARAMS[get_guard_algorithm(d)]
  <2>1. fallback \in SUPPORTED_ALGORITHMS
    BY Algorithms, SMT
  <2> HIDE DEF d
  <2>2. d.params = DEFAULT_PARAMS[fallback]
    BY <1>2, SMT DEF Fallen, add_compat_keys
  <2>3. d.scheduling_algorithm = normalize_algorithm_name(fallback)
    BY <1>2, SMT DEF Fallen, add_compat_keys, NONE
  <2>4. get_guard_algorithm(d) = fallback
    BY <1>1, <2>1, <2>3
  <2> QED  BY <2>2, <2>4, Zenon
<1>3. ASSUME Supported(r), NEW result, NEW priors,
             d = add_compat_keys(result, normalize_algo(r.algorithm), NONE,
                                 normalize_params(normalize_algo(r.algorithm), r), priors)
      PROVE  DOMAIN d.params = DOMAIN DEFAULT_PARAMS[get_guard_algorithm(d)]
  <2> DEFINE algo == normalize_algo(r.algorithm)
             params == normalize_params(algo, r)
  <2>1. algo \in SUPPORTED_ALGORITHMS
    BY <1>3 DEF Supported
  <2>2. DOMAIN params = DOMAIN DEFAULT_PARAMS[algo]
    BY <2>1, NormalizedNames
  <2> HIDE DEF d, algo, params
  <2>3. d.params = params /\ d.scheduling_algorithm = normalize_algorithm_name(algo)
    BY <1>3, SMT DEF add_compat_keys, algo, params
  <2>4. get_guard_algorithm(d) = algo
    BY <1>1, <2>1, <2>3
  <2> QED  BY <2>2, <2>3, <2>4, Zenon
<1> QED  BY <1>2, <1>3, GuardCases, Zenon

\* The guard and the kernel have the same limits.
LEMMA SameLimits == MAX_TICKS = KERNEL_MAX_TICKS /\ MAX_BURST = KERNEL_MAX_BURST
<1>1. MAX_TICKS = KERNEL_MAX_TICKS
  BY DEF MAX_TICKS, KERNEL_MAX_TICKS
<1>2. MAX_BURST = KERNEL_MAX_BURST
  BY DEF MAX_BURST, KERNEL_MAX_BURST
<1> QED  BY <1>1, <1>2

\* A flag that is given once is found.
GivenOnce(flags, i, name, vals) ==
  /\ i \in DOMAIN flags /\ flags[i] = Flag(name, vals)
  /\ \A j \in DOMAIN flags : j # i => flags[j].flag # name

LEMMA FlagFound ==
  ASSUME NEW flags, NEW i, NEW name, NEW vals, GivenOnce(flags, i, name, vals)
  PROVE  ValsOf(flags, name) = vals
<1>1. flags[i].flag = name /\ flags[i].vals = vals /\ i \in DOMAIN flags
  BY DEF Flag, GivenOnce
<1>2. \A j \in DOMAIN flags : flags[j].flag = name => j = i
  BY DEF GivenOnce
<1>3. (CHOOSE j \in DOMAIN flags : flags[j].flag = name) = i
  BY <1>1, <1>2, Zenon
<1>4. \E j \in DOMAIN flags : flags[j].flag = name
  BY <1>1
<1> QED  BY <1>1, <1>3, <1>4, Zenon DEF ValsOf

LEMMA SingleValue ==
  ASSUME NEW flags, NEW name, NEW x, ValsOf(flags, name) = <<x>>
  PROVE  One(flags, name) = x /\ Arg(flags, name) = x /\ Has(flags, name)
<1>1. <<x>> # << >> /\ <<x>>[1] = x
  OBVIOUS
<1> QED  BY <1>1, Zenon DEF One, Arg, Has

\* The parameters are on the command line, as numbers, and the record of what was
\* applied is that of the configuration the kernel is given by it.
AsClaimed(algo, params, pred, lines) ==
  LET flags == schedtest_flags_for(algo, algo, params, pred)
      claimed == applied_params(algo, params, pred, lines)
  IN  /\ \E S : flags \in Seq(FlagOf(S))
      /\ \A k \in DOMAIN claimed.vals \ {"burst_hints"} : claimed.vals[k] = InForce(algo, flags)[k]

\* The record of the guard's word goes before that of the trace.
LEMMA GuardsWord ==
  ASSUME NEW algo, NEW params, NEW pred, NEW lines, NEW source, NEW vals,
         applied_from_guard(algo, params, pred) = Applied(source, vals), source # NONE
  PROVE  applied_params(algo, params, pred, lines).vals = vals
<1>1. Applied(source, vals).source = source /\ Applied(source, vals).vals = vals
  BY DEF Applied
<1>2. applied_params(algo, params, pred, lines) = Applied(source, vals)
  BY <1>1, Zenon DEF applied_params
<1> QED  BY <1>1, <1>2

LEMMA FcfsClaimed ==
  ASSUME NEW params, NEW pred, NEW lines
  PROVE  AsClaimed("FCFS", params, pred, lines)
<1> DEFINE flags == schedtest_flags_for("FCFS", "FCFS", params, pred)
<1>1. flags = << >>
  BY SMT DEF schedtest_flags_for, PREDICTOR_ALGORITHMS, NoFlags
<1> HIDE DEF flags
<1>2. applied_from_guard("FCFS", params, pred) = Applied(NONE, Nothing)
  BY <1>1, SMT DEF applied_from_guard, flags, NoFlags, PREDICTOR_ALGORITHMS
<1>3. derive_applied_params("FCFS", lines) = Applied(NONE, Nothing)
  BY SMT DEF derive_applied_params, PREDICTOR_ALGORITHMS
<1>4. applied_params("FCFS", params, pred, lines) = Applied(NONE, Nothing)
  BY <1>2, <1>3, Zenon DEF applied_params
<1>5. Applied(NONE, Nothing).vals = Nothing /\ DOMAIN Nothing = {}
  BY DEF Applied, Nothing
<1>6. flags \in Seq(FlagOf({}))
  BY <1>1
<1> QED  BY <1>4, <1>5, <1>6, Zenon DEF AsClaimed, flags

LEMMA OneFlag ==
  ASSUME NEW name \in DOMAIN FLAG_WIDTH, NEW x, NEW flags, flags = <<Flag(name, <<x>>)>>
  PROVE  flags \in Seq(FlagOf({x})) /\ ValsOf(flags, name) = <<x>>
<1>1. Flag(name, <<x>>) \in FlagOf({x})
  BY DEF Flag, FlagOf
<1>2. DOMAIN flags = 1..1 /\ flags[1] = Flag(name, <<x>>)
  OBVIOUS
<1>3. GivenOnce(flags, 1, name, <<x>>)
  BY <1>2 DEF GivenOnce
<1>4. ValsOf(flags, name) = <<x>>
  BY <1>3, FlagFound, Zenon
<1>5. flags \in Seq(FlagOf({x}))
  BY <1>1
<1> QED  BY <1>4, <1>5

LEMMA RrClaimed ==
  ASSUME NEW params, NEW pred, NEW lines, "quantum" \in DOMAIN params, params.quantum \in 1..100
  PROVE  AsClaimed("RR", params, pred, lines)
<1> DEFINE flags == schedtest_flags_for("RR", "RR", params, pred)
           q == params.quantum
<1>1. flags = <<Flag("rr_quantum", <<q>>)>>
  BY SMT DEF schedtest_flags_for, PREDICTOR_ALGORITHMS
<1>2. "rr_quantum" \in DOMAIN FLAG_WIDTH
  BY DEF FLAG_WIDTH
<1> HIDE DEF flags
<1>3. flags \in Seq(FlagOf({q})) /\ ValsOf(flags, "rr_quantum") = <<q>>
  BY <1>1, <1>2, OneFlag
<1>4. One(flags, "rr_quantum") = q /\ Arg(flags, "rr_quantum") = q
  BY <1>3, SingleValue
<1>5. flags # NoFlags
  BY <1>1 DEF NoFlags
<1>6. applied_from_guard("RR", params, pred) = Applied("llm_guard", [quantum |-> One(flags, "rr_quantum")])
  BY <1>5, SMT DEF applied_from_guard, flags, PREDICTOR_ALGORITHMS
<1>7. applied_params("RR", params, pred, lines).vals = [quantum |-> q]
  BY <1>4, <1>6, GuardsWord DEF NONE
<1>8. InForce("RR", flags) = [quantum |-> q]
  <2>1. InForce("RR", flags) = [quantum |-> IF Arg(flags, "rr_quantum") \in 1..100 THEN Arg(flags, "rr_quantum")
                                           ELSE KERNEL_RR_QUANTUM]
    BY SMT DEF InForce, PREDICTOR_ALGORITHMS
  <2>2. Arg(flags, "rr_quantum") \in 1..100
    BY <1>4
  <2> QED  BY <1>4, <2>1, <2>2, Zenon
<1> QED  BY <1>3, <1>7, <1>8, Zenon DEF AsClaimed, flags

LEMMA PriorityClaimed ==
  ASSUME NEW params, NEW pred, NEW lines,
         "aging_threshold" \in DOMAIN params, params.aging_threshold \in 1..MAX_TICKS
  PROVE  AsClaimed("PRIORITY", params, pred, lines)
<1> DEFINE flags == schedtest_flags_for("PRIORITY", "PRIORITY", params, pred)
           t == params.aging_threshold
<1>1. flags = <<Flag("aging", <<t>>)>>
  BY SMT DEF schedtest_flags_for, PREDICTOR_ALGORITHMS
<1>2. "aging" \in DOMAIN FLAG_WIDTH
  BY DEF FLAG_WIDTH
<1> HIDE DEF flags
<1>3. flags \in Seq(FlagOf({t})) /\ ValsOf(flags, "aging") = <<t>>
  BY <1>1, <1>2, OneFlag
<1>4. One(flags, "aging") = t /\ Arg(flags, "aging") = t
  BY <1>3, SingleValue
<1>5. flags # NoFlags
  BY <1>1 DEF NoFlags
<1>6. applied_from_guard("PRIORITY", params, pred)
        = Applied("llm_guard", [aging_threshold |-> One(flags, "aging")])
  BY <1>5, SMT DEF applied_from_guard, flags, PREDICTOR_ALGORITHMS
<1>7. applied_params("PRIORITY", params, pred, lines).vals = [aging_threshold |-> t]
  BY <1>4, <1>6, GuardsWord DEF NONE
<1>8. t \in 1..KERNEL_MAX_TICKS
  BY SameLimits
<1>9. InForce("PRIORITY", flags) = [aging_threshold |-> t]
  <2>1. InForce("PRIORITY", flags)
          = [aging_threshold |-> IF Arg(flags, "aging") \in 1..KERNEL_MAX_TICKS THEN Arg(flags, "aging")
                                 ELSE KERNEL_AGE_THRESHOLD]
    BY SMT DEF InForce, PREDICTOR_ALGORITHMS
  <2>2. Arg(flags, "aging") \in 1..KERNEL_MAX_TICKS
    BY <1>4, <1>8
  <2>3. InForce("PRIORITY", flags) = [aging_threshold |-> Arg(flags, "aging")]
    BY <2>1, <2>2
  <2> QED  BY <1>4, <2>3
<1> QED  BY <1>3, <1>7, <1>9, Zenon DEF AsClaimed, flags

Carries(flags, a, u, b, v, c, w) ==
  /\ flags \in Seq(FlagOf(Int))
  /\ ValsOf(flags, a) = u /\ ValsOf(flags, b) = v /\ ValsOf(flags, c) = w

LEMMA ThreeFlags ==
  ASSUME NEW a \in DOMAIN FLAG_WIDTH, NEW b \in DOMAIN FLAG_WIDTH, NEW c \in DOMAIN FLAG_WIDTH,
         a # b, b # c, a # c, NEW u \in Seq(Int), NEW v \in Seq(Int), NEW w \in Seq(Int),
         NEW flags, flags = <<Flag(a, u), Flag(b, v), Flag(c, w)>>
  PROVE  Carries(flags, a, u, b, v, c, w)
<1>1. Flag(a, u) \in FlagOf(Int) /\ Flag(b, v) \in FlagOf(Int) /\ Flag(c, w) \in FlagOf(Int)
  BY DEF Flag, FlagOf
<1>2. /\ DOMAIN flags = {1, 2, 3}
      /\ flags[1] = Flag(a, u) /\ flags[2] = Flag(b, v) /\ flags[3] = Flag(c, w)
  OBVIOUS
<1>3. flags[1].flag = a /\ flags[2].flag = b /\ flags[3].flag = c
  BY <1>2 DEF Flag
<1>4. GivenOnce(flags, 1, a, u) /\ GivenOnce(flags, 2, b, v) /\ GivenOnce(flags, 3, c, w)
  BY <1>2, <1>3 DEF GivenOnce
<1>5. ValsOf(flags, a) = u /\ ValsOf(flags, b) = v /\ ValsOf(flags, c) = w
  BY <1>4, FlagFound, Zenon
<1>6. flags \in Seq(FlagOf(Int))
  BY <1>1
<1> QED  BY <1>5, <1>6 DEF Carries

\* What setmlfqparams and setmlfqboost make of the three flags of MLFQ.
LEMMA MlfqTaken ==
  ASSUME NEW flags, NEW n \in 2..5, NEW q \in [1..n -> 1..100], Len(q) = n, q # << >>,
         NEW boost, Arg(flags, "mlfq_queues") = n, ValsOf(flags, "mlfq_quantum") = q,
         Arg(flags, "mlfq_boost") = boost, setmlfqboost(flags)
  PROVE  InForce("MLFQ", flags) = [queues |-> n, quantum |-> q, boost_interval |-> boost]
<1>2. Has(flags, "mlfq_quantum")
  BY DEF Has
<1> DEFINE padded == PaddedQuanta(flags)
<1>3. padded = [i \in 1..5 |-> IF i <= n THEN q[i] ELSE q[n]]
  <2>1. padded = [i \in 1..5 |-> IF i <= Len(ValsOf(flags, "mlfq_quantum"))
                                THEN ValsOf(flags, "mlfq_quantum")[i]
                                ELSE ValsOf(flags, "mlfq_quantum")[Len(ValsOf(flags, "mlfq_quantum"))]]
    BY SMT DEF PaddedQuanta, MLFQ_MAX_QUEUES
  <2> HIDE DEF padded
  <2> QED  BY <2>1
<1> HIDE DEF padded
<1>4. \A i \in 1..n : padded[i] = q[i] /\ padded[i] \in 1..100
  <2> SUFFICES ASSUME NEW i \in 1..n PROVE padded[i] = q[i] /\ padded[i] \in 1..100
    OBVIOUS
  <2>1. i \in 1..5 /\ i <= n /\ q[i] \in 1..100
    OBVIOUS
  <2>2. padded[i] = IF i <= n THEN q[i] ELSE q[n]
    BY <1>3, <2>1, Zenon
  <2> QED  BY <2>1, <2>2, Zenon
<1>5. setmlfqparams(flags)
  <2>1. Arg(flags, "mlfq_queues") \in 2..MLFQ_MAX_QUEUES
    BY DEF MLFQ_MAX_QUEUES
  <2>2. \A i \in 1..Arg(flags, "mlfq_queues") : padded[i] \in 1..100
    BY <1>4
  <2> QED  BY <1>2, <2>1, <2>2 DEF setmlfqparams, padded
<1>7. SubSeq(padded, 1, n) = q
  <2>1. padded \in Seq(1..100) /\ Len(padded) = 5
    BY <1>3
  <2>2. Len(SubSeq(padded, 1, n)) = n /\ \A i \in 1..n : SubSeq(padded, 1, n)[i] = padded[i]
    BY <2>1
  <2>3. SubSeq(padded, 1, n) = [i \in 1..n |-> padded[i]]
    BY <2>1, <2>2
  <2> QED  BY <1>4, <2>3
<1>8. InForce("MLFQ", flags) =
         [queues |-> IF setmlfqparams(flags) THEN Arg(flags, "mlfq_queues") ELSE KERNEL_MLFQ.queues,
          quantum |-> IF setmlfqparams(flags)
                      THEN SubSeq(PaddedQuanta(flags), 1, Arg(flags, "mlfq_queues"))
                      ELSE KERNEL_MLFQ.quantum,
          boost_interval |-> IF setmlfqparams(flags) /\ setmlfqboost(flags)
                             THEN Arg(flags, "mlfq_boost") ELSE KERNEL_MLFQ.boost_interval]
  BY SMT DEF InForce, PREDICTOR_ALGORITHMS
<1>9. InForce("MLFQ", flags) =
        [queues |-> Arg(flags, "mlfq_queues"),
         quantum |-> SubSeq(PaddedQuanta(flags), 1, Arg(flags, "mlfq_queues")),
         boost_interval |-> Arg(flags, "mlfq_boost")]
  BY <1>5, <1>8, Zenon
<1>10. SubSeq(PaddedQuanta(flags), 1, Arg(flags, "mlfq_queues")) = q
  BY <1>7 DEF padded
<1> QED  BY <1>9, <1>10

LEMMA BoostTaken ==
  ASSUME NEW flags, Arg(flags, "mlfq_boost") \in 10..MAX_TICKS
  PROVE  setmlfqboost(flags)
BY SameLimits, Bounds, SMT DEF setmlfqboost

LEMMA OneMore ==
  ASSUME NEW x, NEW y, NEW z PROVE <<x, y>> \o <<z>> = <<x, y, z>>
<1> DEFINE S == {x, y, z}
           c == <<x, y>> \o <<z>>
           t == <<x, y, z>>
<1>1. <<x, y>> \in Seq(S) /\ <<z>> \in Seq(S) /\ t \in Seq(S) /\ Len(t) = 3
  OBVIOUS
<1> HIDE DEF S, t
<1>2. c \in Seq(S) /\ Len(c) = 3
  BY <1>1
<1>3. \A i \in 1..3 : c[i] = t[i]
  BY <1>1 DEF t
<1> HIDE DEF c
<1>4. c = [i \in 1..3 |-> c[i]] /\ t = [i \in 1..3 |-> t[i]]
  BY <1>1, <1>2
<1>5. c = t
  BY <1>3, <1>4
<1> QED  BY <1>5 DEF c, t

LEMMA IntegersToo ==
  ASSUME NEW T, T \subseteq Int, NEW n \in Nat \ {0}, NEW q \in [1..n -> T]
  PROVE  <<n>> \in Seq(Int) /\ q \in Seq(T) /\ q \in Seq(Int) /\ Len(q) = n /\ q # << >>
<1>1. q \in [1..n -> Int]
  OBVIOUS
<1>2. q \in Seq(T) /\ Len(q) = n /\ q # << >>
  OBVIOUS
<1>3. q \in Seq(Int)
  BY <1>1
<1> QED  BY <1>2, <1>3

LEMMA MlfqClaimed ==
  ASSUME NEW params, NEW pred, NEW lines, {"queues", "quantum", "boost_interval"} \subseteq DOMAIN params,
         params.queues \in 2..5, params.quantum \in [1..params.queues -> 1..100],
         params.boost_interval \in 10..MAX_TICKS
  PROVE  AsClaimed("MLFQ", params, pred, lines)
<1> DEFINE flags == schedtest_flags_for("MLFQ", "MLFQ", params, pred)
           n == params.queues
           q == params.quantum
           boost == params.boost_interval
           kept == IF Len(q) > MLFQ_MAX_QUEUES THEN MLFQ_MAX_QUEUES ELSE Len(q)
<1>1. n \in 2..5 /\ q \in [1..n -> 1..100] /\ boost \in Int
  BY Bounds
<1>2. flags = mlfq_flags(params)
  BY SMT DEF schedtest_flags_for, PREDICTOR_ALGORITHMS
<1> HIDE DEF n, q, boost, flags
<1>3. q \in Seq(1..100) /\ Len(q) = n /\ q # << >> /\ <<n>> \in Seq(Int) /\ q \in Seq(Int)
  <2> DEFINE T == 1..100
  <2>1. n \in Nat \ {0} /\ T \subseteq Int /\ q \in [1..n -> T]
    BY <1>1
  <2> HIDE DEF T
  <2>2. q \in Seq(T) /\ Len(q) = n /\ q # << >> /\ <<n>> \in Seq(Int) /\ q \in Seq(Int)
    BY <2>1, IntegersToo, Zenon
  <2> QED  BY <2>2 DEF T
<1>4. SubSeq(q, 1, kept) = q
  <2>1. kept = n
    BY <1>1, <1>3 DEF MLFQ_MAX_QUEUES
  <2> HIDE DEF kept
  <2> QED  BY <1>3, <2>1
<1>5. mlfq_flags(params) = <<Flag("mlfq_queues", <<n>>), Flag("mlfq_quantum", q)>>
                           \o <<Flag("mlfq_boost", <<boost>>)>>
  BY <1>3, <1>4, Zenon DEF mlfq_flags, n, q, boost
<1>6. flags = <<Flag("mlfq_queues", <<n>>), Flag("mlfq_quantum", q), Flag("mlfq_boost", <<boost>>)>>
  BY <1>2, <1>5, OneMore, Zenon
<1>7. /\ flags \in Seq(FlagOf(Int)) /\ ValsOf(flags, "mlfq_queues") = <<n>>
      /\ ValsOf(flags, "mlfq_quantum") = q /\ ValsOf(flags, "mlfq_boost") = <<boost>>
  <2>1. "mlfq_queues" \in DOMAIN FLAG_WIDTH /\ "mlfq_quantum" \in DOMAIN FLAG_WIDTH
        /\ "mlfq_boost" \in DOMAIN FLAG_WIDTH
    BY DEF FLAG_WIDTH
  <2>2. <<n>> \in Seq(Int) /\ q \in Seq(Int) /\ <<boost>> \in Seq(Int)
    <3>1. <<boost>> \in Seq(Int)
      BY <1>1
    <3> QED  BY <1>3, <3>1
  <2>3. /\ "mlfq_queues" # "mlfq_quantum" /\ "mlfq_quantum" # "mlfq_boost"
        /\ "mlfq_queues" # "mlfq_boost"
    OBVIOUS
  <2>4. Carries(flags, "mlfq_queues", <<n>>, "mlfq_quantum", q, "mlfq_boost", <<boost>>)
    BY <1>6, <2>1, <2>2, <2>3, ThreeFlags, Zenon
  <2> QED  BY <2>4, Zenon DEF Carries
<1>8. InForce("MLFQ", flags) = [queues |-> n, quantum |-> q, boost_interval |-> boost]
  <2>1. Arg(flags, "mlfq_queues") = n /\ Arg(flags, "mlfq_boost") = boost
    BY <1>7, SingleValue, Zenon
  <2>2. setmlfqboost(flags)
    <3>1. Arg(flags, "mlfq_boost") \in 10..MAX_TICKS
      BY <2>1, Zenon DEF boost
    <3> QED  BY <3>1, BoostTaken
  <2> QED  BY <1>1, <1>3, <1>7, <2>1, <2>2, MlfqTaken, Zenon
<1> DEFINE sent == [k \in {"queues", "quantum"} \cup
                            (IF Has(flags, "mlfq_boost") THEN {"boost_interval"} ELSE {}) |->
                      CASE k = "queues" -> One(flags, "mlfq_queues")
                        [] k = "quantum" -> ValsOf(flags, "mlfq_quantum")
                        [] k = "boost_interval" -> One(flags, "mlfq_boost")]
<1>9. flags # NoFlags
  BY <1>6 DEF NoFlags
<1>10. applied_from_guard("MLFQ", params, pred) = Applied("llm_guard", sent)
  BY <1>9, SMT DEF applied_from_guard, flags, PREDICTOR_ALGORITHMS
<1>11. sent = [queues |-> n, quantum |-> q, boost_interval |-> boost]
  <2>1. One(flags, "mlfq_queues") = n /\ One(flags, "mlfq_boost") = boost /\ Has(flags, "mlfq_boost")
    BY <1>7, SingleValue
  <2> QED  BY <1>7, <2>1
<1> HIDE DEF sent
<1>12. applied_params("MLFQ", params, pred, lines).vals = [queues |-> n, quantum |-> q, boost_interval |-> boost]
  BY <1>10, <1>11, GuardsWord DEF NONE
<1> QED  BY <1>7, <1>8, <1>12, Zenon DEF AsClaimed, flags
\* The flags a predictor's four parameters are given by, one value each.
FourGiven(flags, p) ==
  /\ One(flags, "alpha") = p.alpha_percent /\ Arg(flags, "alpha") = p.alpha_percent
  /\ One(flags, "initial") = p.initial /\ Arg(flags, "initial") = p.initial
  /\ One(flags, "min") = p.min /\ Arg(flags, "min") = p.min
  /\ One(flags, "max") = p.max /\ Arg(flags, "max") = p.max

FourValues(flags, p) ==
  /\ ValsOf(flags, "alpha") = <<p.alpha_percent>> /\ ValsOf(flags, "initial") = <<p.initial>>
  /\ ValsOf(flags, "min") = <<p.min>> /\ ValsOf(flags, "max") = <<p.max>>

LEMMA FourRead ==
  ASSUME NEW flags, NEW p, FourValues(flags, p) PROVE FourGiven(flags, p)
BY SingleValue, Zenon DEF FourValues, FourGiven

\* They begin the command, whatever follows.
FourFirst(flags, p) ==
  /\ {1, 2, 3, 4} \subseteq DOMAIN flags
  /\ flags[1] = Flag("alpha", <<p.alpha_percent>>) /\ flags[2] = Flag("initial", <<p.initial>>)
  /\ flags[3] = Flag("min", <<p.min>>) /\ flags[4] = Flag("max", <<p.max>>)
  /\ \A j \in DOMAIN flags \ {1, 2, 3, 4} : flags[j].flag = "hints"

LEMMA FourFound ==
  ASSUME NEW flags, NEW p, FourFirst(flags, p) PROVE FourValues(flags, p)
<1>1. /\ flags[1].flag = "alpha" /\ flags[2].flag = "initial"
      /\ flags[3].flag = "min" /\ flags[4].flag = "max"
  BY DEF FourFirst, Flag
<1>2. \A j \in DOMAIN flags : j \in {1, 2, 3, 4} \/ flags[j].flag = "hints"
  BY DEF FourFirst
<1>3. /\ GivenOnce(flags, 1, "alpha", <<p.alpha_percent>>)
      /\ GivenOnce(flags, 2, "initial", <<p.initial>>)
      /\ GivenOnce(flags, 3, "min", <<p.min>>)
      /\ GivenOnce(flags, 4, "max", <<p.max>>)
  <2>1. /\ 1 \in DOMAIN flags /\ 2 \in DOMAIN flags /\ 3 \in DOMAIN flags /\ 4 \in DOMAIN flags
        /\ flags[1] = Flag("alpha", <<p.alpha_percent>>) /\ flags[2] = Flag("initial", <<p.initial>>)
        /\ flags[3] = Flag("min", <<p.min>>) /\ flags[4] = Flag("max", <<p.max>>)
    BY DEF FourFirst
  <2>2. /\ \A j \in DOMAIN flags : j # 1 => flags[j].flag # "alpha"
        /\ \A j \in DOMAIN flags : j # 2 => flags[j].flag # "initial"
        /\ \A j \in DOMAIN flags : j # 3 => flags[j].flag # "min"
        /\ \A j \in DOMAIN flags : j # 4 => flags[j].flag # "max"
    BY <1>1, <1>2
  <2> QED  BY <2>1, <2>2, Zenon DEF GivenOnce
<1> QED  BY <1>3, FlagFound, Zenon DEF FourValues

\* What setpredictor makes of parameters in range is what the host reads off the flags.
LEMMA PredictorTaken ==
  ASSUME NEW algo \in PREDICTOR_ALGORITHMS, NEW flags, NEW p, FourGiven(flags, p), flags # NoFlags,
         p.alpha_percent \in 0..100, {p.initial, p.min, p.max} \subseteq 1..MAX_BURST,
         p.min <= p.initial, p.initial <= p.max
  PROVE  \A k \in PredictorKeys : EmaOf(flags)[k] = InForce(algo, flags)[k]
<1>1. setpredictor(flags)
  <2>1. p.max \in p.min..KERNEL_MAX_BURST /\ p.min >= 1 /\ p.initial >= 1
    <3>1. p.initial \in 1..MAX_BURST /\ p.min \in 1..MAX_BURST /\ p.max \in 1..MAX_BURST
      OBVIOUS
    <3>2. /\ p.initial \in Int /\ p.min \in Int /\ p.max \in Int
          /\ p.min >= 1 /\ p.initial >= 1 /\ p.max <= MAX_BURST
      BY <3>1, Bounds
    <3>3. p.min <= p.max
      BY <3>2
    <3> QED  BY <3>2, <3>3, SameLimits, Bounds
  <2>2. /\ Arg(flags, "alpha") = p.alpha_percent /\ Arg(flags, "initial") = p.initial
        /\ Arg(flags, "min") = p.min /\ Arg(flags, "max") = p.max
    BY Zenon DEF FourGiven
  <2> QED  BY <2>1, <2>2 DEF setpredictor
<1>2. InForce(algo, flags) = [alpha_percent |-> p.alpha_percent, initial |-> p.initial,
                              min |-> p.min, max |-> p.max]
  <2>1. InForce(algo, flags) = IF setpredictor(flags)
         THEN [alpha_percent |-> Arg(flags, "alpha"), initial |-> Arg(flags, "initial"),
               min |-> Arg(flags, "min"), max |-> Arg(flags, "max")]
         ELSE KERNEL_PREDICTOR
    BY SMT DEF InForce, PREDICTOR_ALGORITHMS
  <2> QED  BY <1>1, <2>1 DEF FourGiven
<1>3. \A k \in PredictorKeys : EmaOf(flags)[k] = One(flags, IF k = "alpha_percent" THEN "alpha" ELSE k)
  BY Zenon DEF EmaOf
<1>4. PredictorKeys = {"alpha_percent", "initial", "min", "max"}
  BY DEF PredictorKeys
<1> QED  BY <1>2, <1>3, <1>4 DEF FourGiven
LEMMA FourThen ==
  ASSUME NEW S, NEW a \in S, NEW b \in S, NEW c \in S, NEW d \in S, NEW rest \in Seq(S), Len(rest) <= 1
  PROVE  LET all == <<a, b, c, d>> \o rest
         IN  /\ all \in Seq(S) /\ {1, 2, 3, 4} \subseteq DOMAIN all
             /\ all[1] = a /\ all[2] = b /\ all[3] = c /\ all[4] = d
             /\ \A j \in DOMAIN all \ {1, 2, 3, 4} : Len(rest) = 1 /\ all[j] = rest[1]
<1> DEFINE four == <<a, b, c, d>>
           all == four \o rest
<1>1. four \in Seq(S) /\ Len(four) = 4
  <2>1. four \in Seq(S)
    OBVIOUS
  <2>2. Len(four) = 4
    OBVIOUS
  <2> QED  BY <2>1, <2>2
<1>2. four[1] = a /\ four[2] = b /\ four[3] = c /\ four[4] = d
  OBVIOUS
<1> HIDE DEF four
<1>3. Len(rest) \in Nat /\ (Len(rest) = 0 \/ Len(rest) = 1)
  <2>1. Len(rest) \in Nat
    BY LenProperties
  <2> QED  BY <2>1
<1>4. /\ all \in Seq(S) /\ Len(all) = Len(four) + Len(rest)
      /\ \A i \in 1..Len(four) + Len(rest) :
           all[i] = IF i <= Len(four) THEN four[i] ELSE rest[i - Len(four)]
  BY <1>1, ConcatProperties, Zenon
<1> HIDE DEF all
<1>5. DOMAIN all = 1..(4 + Len(rest))
  BY <1>1, <1>4
<1>6. \A i \in 1..4 : i \in DOMAIN all /\ all[i] = four[i]
  BY <1>1, <1>3, <1>4, <1>5
<1>7. ASSUME NEW j \in DOMAIN all \ {1, 2, 3, 4} PROVE Len(rest) = 1 /\ all[j] = rest[1]
  <2>1. Len(rest) = 1 /\ j = 5
    BY <1>3, <1>5
  <2>2. j \in 1..Len(four) + Len(rest) /\ ~(j <= Len(four)) /\ j - Len(four) = 1
    BY <1>1, <2>1
  <2>3. all[j] = rest[j - Len(four)]
    BY <1>4, <2>2, Zenon
  <2> QED  BY <2>1, <2>2, <2>3
<1>8. {1, 2, 3, 4} \subseteq DOMAIN all
  BY <1>6
<1>9. all[1] = a /\ all[2] = b /\ all[3] = c /\ all[4] = d
  BY <1>2, <1>6
<1> QED  BY <1>4, <1>7, <1>8, <1>9 DEF all, four

\* Without a prior there is nothing to say; with one the four parameters are first.
LEMMA PredictorArgs ==
  ASSUME NEW d, PredictorKeys \subseteq DOMAIN d.params
  PROVE  LET flags == build_predictor_args(d)
         IN  \/ flags = NoFlags
             \/ (\E S : flags \in Seq(FlagOf(S))) /\ flags # NoFlags /\ FourFirst(flags, d.params)
<1> DEFINE p == d.params
           prior == d.predicted_bursts
           hints == [i \in DOMAIN Mirror |->
                       IF Mirror[i] \in DOMAIN prior THEN prior[Mirror[i]] ELSE p.initial]
           rest == IF hints = << >> THEN NoFlags ELSE <<Flag("hints", hints)>>
           a == Flag("alpha", <<p.alpha_percent>>)
           b == Flag("initial", <<p.initial>>)
           c == Flag("min", <<p.min>>)
           e == Flag("max", <<p.max>>)
           S == {p.alpha_percent, p.initial, p.min, p.max} \cup {hints[i] : i \in DOMAIN Mirror}
<1>1. PredictorOf(p) = p
  BY Zenon DEF PredictorOf
<1>2. CASE DOMAIN prior = {}
  <2>1. build_predictor_args(d) = NoFlags
    BY <1>2, Zenon DEF build_predictor_args
  <2> QED  BY <2>1
<1>3. CASE DOMAIN prior # {}
  <2>1. build_predictor_args(d) = <<a, b, c, e>> \o rest
    BY <1>1, <1>3, Zenon DEF build_predictor_args
  <2>2. hints \in Seq(S)
    <3>1. DOMAIN hints = 1..Len(Mirror) /\ Len(Mirror) \in Nat
      BY FlagsAssumption
    <3>2. \A i \in DOMAIN hints : hints[i] \in S
      OBVIOUS
    <3> HIDE DEF hints, S
    <3>3. hints = [i \in DOMAIN hints |-> hints[i]]
      BY DEF hints
    <3> QED  BY <3>1, <3>2, <3>3
  <2>3. /\ <<p.alpha_percent>> \in Seq(S) /\ <<p.initial>> \in Seq(S)
        /\ <<p.min>> \in Seq(S) /\ <<p.max>> \in Seq(S)
    <3> HIDE DEF hints
    <3> QED  OBVIOUS
  <2> HIDE DEF S, hints
  <2>4. /\ a \in FlagOf(S) /\ b \in FlagOf(S) /\ c \in FlagOf(S) /\ e \in FlagOf(S)
        /\ Flag("hints", hints) \in FlagOf(S)
    <3>1. \A w \in {"alpha", "initial", "min", "max", "hints"} : \A v \in Seq(S) : Flag(w, v) \in FlagOf(S)
      BY SMT DEF Flag, FlagOf, FLAG_WIDTH
    <3> QED  BY <2>2, <2>3, <3>1
  <2>5. /\ rest \in Seq(FlagOf(S)) /\ Len(rest) <= 1
        /\ Len(rest) = 1 => rest[1].flag = "hints"
    <3>1. CASE hints = << >>
      BY <3>1 DEF NoFlags
    <3>2. CASE hints # << >>
      <4>1. rest = <<Flag("hints", hints)>>
        BY <3>2
      <4>2. Flag("hints", hints).flag = "hints"
        BY DEF Flag
      <4> HIDE DEF rest
      <4> QED  BY <2>4, <4>1, <4>2
    <3> QED  BY <3>1, <3>2
  <2> DEFINE flags == <<a, b, c, e>> \o rest
  <2> HIDE DEF a, b, c, e, rest
  <2>6. /\ flags \in Seq(FlagOf(S)) /\ {1, 2, 3, 4} \subseteq DOMAIN flags
        /\ flags[1] = a /\ flags[2] = b /\ flags[3] = c /\ flags[4] = e
        /\ \A j \in DOMAIN flags \ {1, 2, 3, 4} : Len(rest) = 1 /\ flags[j] = rest[1]
    BY <2>4, <2>5, FourThen
  <2> HIDE DEF flags
  <2>7. FourFirst(flags, p)
    BY <2>5, <2>6, Zenon DEF FourFirst, a, b, c, e
  <2>8. flags # NoFlags
    BY <2>6 DEF NoFlags
  <2>9. \E T : flags \in Seq(FlagOf(T))
    BY <2>6, Zenon
  <2>10. build_predictor_args(d) = flags
    BY <2>1 DEF flags
  <2> QED  BY <2>7, <2>8, <2>9, <2>10, Zenon
<1> QED  BY <1>2, <1>3

LEMMA PredictorClaimed ==
  ASSUME NEW algo \in PREDICTOR_ALGORITHMS, NEW d, NEW lines,
         DOMAIN d.params = PredictorKeys, InRange(algo, d.params)
  PROVE  AsClaimed(algo, d.params, build_predictor_args(d), lines)
<1> DEFINE p == d.params
           pred == build_predictor_args(d)
           flags == schedtest_flags_for(algo, algo, p, pred)
           hints == ValsOf(flags, "hints")
           told == [k \in DOMAIN EmaOf(flags) \cup (IF hints # << >> THEN {"burst_hints"} ELSE {}) |->
                      IF k = "burst_hints" THEN hints ELSE EmaOf(flags)[k]]
           claimed == applied_params(algo, p, pred, lines)
<1>1. flags = pred
  BY Zenon DEF schedtest_flags_for
<1>2. "alpha_percent" \in DOMAIN p
  BY DEF PredictorKeys
<1>3. applied_from_guard(algo, p, pred) = Applied("llm_guard", told)
  BY <1>2, Zenon DEF applied_from_guard
<1>4. claimed.vals = told
  <2> HIDE DEF told
  <2>1. "llm_guard" # NONE
    BY DEF NONE
  <2>2. applied_params(algo, p, pred, lines).vals = told
    <3> HIDE DEF p, pred
    <3> QED  BY <1>3, <2>1, GuardsWord, Zenon
  <2> QED  BY <2>2
<1>5. DOMAIN told \ {"burst_hints"} = DOMAIN EmaOf(flags) \ {"burst_hints"}
      /\ \A k \in DOMAIN told \ {"burst_hints"} : told[k] = EmaOf(flags)[k]
  <2> HIDE DEF hints, flags
  <2> QED  OBVIOUS
<1>6. DOMAIN EmaOf(flags) = {j \in PredictorKeys : flags # NoFlags}
  BY Zenon DEF EmaOf
<1> HIDE DEF told, flags, hints, claimed
<1>7. CASE flags = NoFlags
  <2>1. DOMAIN told \ {"burst_hints"} = {}
    BY <1>5, <1>6, <1>7
  <2>2. flags \in Seq(FlagOf({}))
    BY <1>7 DEF NoFlags
  <2> QED  BY <1>4, <2>1, <2>2, Zenon DEF AsClaimed, flags, claimed
<1>8. CASE (\E S : flags \in Seq(FlagOf(S))) /\ flags # NoFlags /\ FourFirst(flags, p)
  <2>1. FourGiven(flags, p)
    BY <1>8, FourFound, FourRead, Zenon
  <2>2. /\ p.alpha_percent \in 0..100 /\ {p.initial, p.min, p.max} \subseteq 1..MAX_BURST
        /\ p.min <= p.initial /\ p.initial <= p.max
    BY SMT DEF InRange, PREDICTOR_ALGORITHMS
  <2>3. \A k \in PredictorKeys : EmaOf(flags)[k] = InForce(algo, flags)[k]
    BY <1>8, <2>1, <2>2, PredictorTaken, Zenon
  <2>4. \A k \in DOMAIN told \ {"burst_hints"} : told[k] = InForce(algo, flags)[k]
    BY <1>5, <1>6, <2>3, Zenon
  <2> QED  BY <1>4, <1>8, <2>4, Zenon DEF AsClaimed, flags, claimed
<1>9. PredictorKeys \subseteq DOMAIN d.params
  OBVIOUS
<1> QED  BY <1>1, <1>7, <1>8, <1>9, PredictorArgs, Zenon DEF pred
LEMMA EachClaimed ==
  ASSUME NEW algo \in SUPPORTED_ALGORITHMS, NEW d, NEW lines,
         InRange(algo, d.params), DOMAIN d.params = DOMAIN DEFAULT_PARAMS[algo]
  PROVE  AsClaimed(algo, d.params, build_predictor_args(d), lines)
<1> DEFINE p == d.params
           pred == build_predictor_args(d)
<1> HIDE DEF pred, p
<1>1. CASE algo = "FCFS"
  BY <1>1, FcfsClaimed, Zenon DEF p, pred
<1>2. CASE algo = "RR"
  <2>1. "quantum" \in DOMAIN p /\ p.quantum \in 1..100
    <3>1. p.quantum \in 1..100
      BY <1>2, SMT DEF InRange, p
    <3> QED  BY <1>2, <3>1, Defaults DEF p
  <2>2. AsClaimed("RR", p, pred, lines)
    BY <2>1, RrClaimed, Zenon
  <2> QED  BY <1>2, <2>2, Zenon DEF p, pred
<1>3. CASE algo = "PRIORITY"
  <2>1. "aging_threshold" \in DOMAIN p /\ p.aging_threshold \in 1..MAX_TICKS
    <3>1. p.aging_threshold \in 1..MAX_TICKS
      BY <1>3, SMT DEF InRange, p
    <3> QED  BY <1>3, <3>1, Defaults DEF p
  <2>2. AsClaimed("PRIORITY", p, pred, lines)
    BY <2>1, PriorityClaimed, Zenon
  <2> QED  BY <1>3, <2>2, Zenon DEF p, pred
<1>4. CASE algo = "MLFQ"
  <2>1. /\ p.queues \in 2..5 /\ p.quantum \in [1..p.queues -> 1..100]
        /\ p.boost_interval \in 10..MAX_TICKS
    <3>1. InRange("MLFQ", p)
      BY <1>4 DEF p
    <3>2. InRange("MLFQ", p) = /\ p.queues \in 2..5
                               /\ p.quantum \in [1..p.queues -> 1..100]
                               /\ p.aging_threshold \in 1..MAX_TICKS
                               /\ p.boost_interval \in 10..MAX_TICKS
      BY DEF InRange
    <3> QED  BY <3>1, <3>2, Zenon
  <2>2. {"queues", "quantum", "boost_interval"} \subseteq DOMAIN p
    <3>1. DOMAIN DEFAULT_PARAMS["MLFQ"] = {"queues", "quantum", "aging_threshold", "boost_interval"}
      BY Defaults
    <3> QED  BY <1>4, <3>1 DEF p
  <2>3. AsClaimed("MLFQ", p, pred, lines)
    BY <2>1, <2>2, MlfqClaimed, Zenon
  <2> QED  BY <1>4, <2>3, Zenon DEF p, pred
<1>5. CASE algo \in PREDICTOR_ALGORITHMS
  <2>1. DEFAULT_PARAMS[algo] = PREDICTOR_DEFAULTS
    BY <1>5, Defaults DEF PREDICTOR_ALGORITHMS
  <2>2. DOMAIN PREDICTOR_DEFAULTS = PredictorKeys
    BY DEF PREDICTOR_DEFAULTS, PredictorKeys
  <2> QED  BY <1>5, <2>1, <2>2, PredictorClaimed, Zenon
<1> QED  BY <1>1, <1>2, <1>3, <1>4, <1>5, Algorithms, SMT DEF PREDICTOR_ALGORITHMS

\* Whoever answers and whatever lines of the run were cut: when the command fits
\* the shell's line, every parameter the comparison says was applied is the one
\* the kernel runs under.
THEOREM ParamsArrive == HostSpec => []AppliedWithinLine
<1>1. HostInv => AppliedWithinLine
  <2> SUFFICES ASSUME HostInv, stage = "typed", CommandWidth(Flags(dec)) <= LINE
               PROVE  \A k \in DOMAIN Claimed(dec, seen).vals \ {"burst_hints"} :
                        Claimed(dec, seen).vals[k] = InForce(Selected(dec), Received(Flags(dec)))[k]
    BY Zenon DEF AppliedWithinLine
  <2> DEFINE algo == Selected(dec)
  <2>1. RecOk /\ dec = guard(rec)
    BY SMT DEF HostInv, DecisionOfRec, Guarded
  <2>2. IntegerLists(ParamsGiven(rec))
    BY <2>1, Zenon DEF RecOk, JsonParams, IntegerLists
  <2>3. algo \in SUPPORTED_ALGORITHMS /\ InRange(algo, dec.params)
    BY <2>1, <2>2, GuardedRuns, Zenon DEF Selected
  <2>4. DOMAIN dec.params = DOMAIN DEFAULT_PARAMS[algo]
    BY <2>1, GuardedNames, Zenon DEF Selected
  <2>5. AsClaimed(algo, dec.params, build_predictor_args(dec), seen)
    BY <2>3, <2>4, EachClaimed, Zenon
  <2>6. /\ \E S : Flags(dec) \in Seq(FlagOf(S))
        /\ \A k \in DOMAIN Claimed(dec, seen).vals \ {"burst_hints"} :
             Claimed(dec, seen).vals[k] = InForce(algo, Flags(dec))[k]
    BY <2>5, Zenon DEF AsClaimed, Flags, Claimed
  <2>7. Received(Flags(dec)) = Flags(dec)
    BY <2>6, ReceivedWhole, Zenon
  <2> QED  BY <2>6, <2>7, Zenon
<1> QED  BY <1>1, HostInvariant, PTL
=============================================================================
