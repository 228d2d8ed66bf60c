--------------------------- MODULE RunServerProofs ---------------------------
(***************************************************************************)
(* The run server of scripts/run_server.py, for any number of requests,    *)
(* handler threads and crashes: the status it shows is that of one run,    *)
(* and without a crash there is never a second orchestrator.  And the tab  *)
(* of the dashboard beside it, for any number of clicks, loads and reloads:*)
(* what it reveals is the run that was clicked.                            *)
(***************************************************************************)
EXTENDS Dashboard, FiniteSetTheorems, TLAPS

-----------------------------------------------------------------------------
(* The initial state *)

LEMMA RunInitInv == RunInit => RunInv
<1> SUFFICES ASSUME RunInit PROVE RunInv
  OBVIOUS
<1>1. Cardinality(Reqs) \in Nat
  BY ReqsAssumption, FS_CardinalityType
<1>2. RunTypeOK
  BY CrashesAssumption DEF RunInit, RunTypeOK, HandlerPoint, Kind, Counters
<1>3. StatusIsOfOneRun
  BY DEF RunInit, StatusIsOfOneRun, Ended
<1>4. Cardinality(Answered) = 0
  <2>1. Answered = {}
    BY DEF RunInit, Answered
  <2> QED  BY <2>1, FS_EmptySet
<1>5. Cardinality(orch \ {run}) = 0
  <2>1. orch \ {run} = {}
    BY DEF RunInit
  <2> QED  BY <2>1, FS_EmptySet
<1>6. RunShape
  BY <1>1, <1>4, <1>5 DEF RunInit, RunShape, RunId, NoRun, Busy
<1> QED  BY <1>2, <1>3, <1>6 DEF RunInv

-----------------------------------------------------------------------------
(* The handler threads *)

\* A handler that accepts nothing leaves RunState and the workers alone.
LEMMA HandlerStep ==
  ASSUME RunInv, NEW r \in Reqs, NEW k \in Kind,
         \/ Arrive(r, k) \/ Reject(r) \/ ReadSeed(r) \/ TruncateSeed(r)
         \/ WriteSeed(r) \/ Refuse(r)
  PROVE  RunInv'
<1>1. /\ at' \in [Reqs -> HandlerPoint] /\ kind' \in [Reqs -> Kind]
      /\ \A q \in Reqs : at'[q] = "answered" <=> at[q] = "answered"
  BY DEF RunInv, RunTypeOK, Arrive, Reject, ReadSeed, TruncateSeed, WriteSeed, Refuse,
         Goes, HandlerPoint
<1>2. base' \in [Reqs -> Counters] /\ file' \in Counters \cup {Empty}
  <2>1. CASE ReadSeed(r)
    <3>1. Parsed(file) \in Counters
      BY DEF RunInv, RunTypeOK, Parsed, Counters
    <3> QED  BY <2>1, <3>1 DEF RunInv, RunTypeOK, ReadSeed
  <2>2. CASE WriteSeed(r)
    <3>1. base[r] \in [Families -> Nat]
      BY DEF RunInv, RunTypeOK, Counters
    <3>2. [base[r] EXCEPT ![kind[r]] = @ + 1] \in Counters
      <4>1. CASE kind[r] \in Families
        BY <3>1, <4>1 DEF Counters
      <4>2. CASE kind[r] \notin Families
        BY <3>1, <4>2, Zenon DEF Counters
      <4> QED  BY <4>1, <4>2
    <3> QED  BY <2>2, <3>2 DEF RunInv, RunTypeOK, WriteSeed
  <2>3. CASE Arrive(r, k) \/ Reject(r) \/ TruncateSeed(r) \/ Refuse(r)
    BY <2>3 DEF RunInv, RunTypeOK, Arrive, Reject, TruncateSeed, Refuse
  <2> QED  BY <2>1, <2>2, <2>3
<1>3. UNCHANGED <<RunStateVars, childVars, accepted, crashes>>
  BY DEF Arrive, Reject, ReadSeed, TruncateSeed, WriteSeed, Refuse
<1>4. RunTypeOK'
  BY <1>1, <1>2, <1>3 DEF RunInv, RunTypeOK, RunStateVars, childVars
<1>5. StatusIsOfOneRun'
  BY <1>3 DEF RunInv, StatusIsOfOneRun, RunStateVars, childVars
<1>6. Answered' = Answered
  BY <1>1 DEF Answered
<1>7. RunShape'
  BY <1>3, <1>6 DEF RunInv, RunShape, RunStateVars, childVars
<1> QED  BY <1>4, <1>5, <1>7 DEF RunInv

\* There is a number left for the run that is accepted.
LEMMA RoomForOne ==
  ASSUME RunInv, NEW r \in Reqs, Begin(r)
  PROVE  /\ Len(accepted) + 1 \in RunId
         /\ Cardinality(Answered') = Len(accepted) + 1
<1>1. Answered' = Answered \cup {r} /\ r \notin Answered
  BY DEF RunInv, RunTypeOK, Begin, Goes, Answered
<1>2. Answered \in SUBSET Reqs /\ Answered \cup {r} \in SUBSET Reqs
  BY DEF Answered
<1>3. IsFiniteSet(Answered) /\ Cardinality(Answered \cup {r}) <= Cardinality(Reqs)
  BY <1>2, ReqsAssumption, FS_Subset
<1>4. Cardinality(Answered \cup {r}) = Cardinality(Answered) + 1
  BY <1>1, <1>3, FS_AddElement
<1>5. Cardinality(Reqs) \in Nat /\ Cardinality(Answered) \in Nat
  BY <1>3, ReqsAssumption, FS_CardinalityType
<1>6. Cardinality(Answered) = Len(accepted)
  BY DEF RunInv, RunShape
<1> QED  BY <1>1, <1>3, <1>4, <1>5, <1>6 DEF RunId

\* RunState.begin
LEMMA BeginStep ==
  ASSUME RunInv, NEW r \in Reqs, Begin(r)
  PROVE  RunInv'
<1>1. Len(accepted) + 1 \in RunId /\ Cardinality(Reqs) \in Nat
  BY RoomForOne, ReqsAssumption, FS_CardinalityType
<1>2. Len(accepted) \in Nat /\ Len(accepted') = Len(accepted) + 1
  BY DEF RunInv, RunTypeOK, Begin
<1>3. Params(r) \in [kind : Kind, seed : Nat, index : Nat]
  <2>1. kind[r] # Profile => base[r][kind[r]] \in Nat
    BY DEF RunInv, RunTypeOK, Counters, Kind
  <2> QED  BY <2>1 DEF RunInv, RunTypeOK, Params, Kind
<1>4. RunTypeOK'
  BY <1>1, <1>3 DEF RunInv, RunTypeOK, Begin, Goes, HandlerPoint, Busy
<1>5. \A i \in RunId : worker'[i] # "none" => i = run'
  BY <1>1 DEF RunInv, RunTypeOK, RunShape, Begin, Busy, Free
<1>6. StatusIsOfOneRun'
  BY <1>5 DEF StatusIsOfOneRun, Begin, Ended
<1>7. Len(accepted)' = Cardinality(Answered')
  BY <1>2, RoomForOne
<1>8. run' = Len(accepted)' /\ run' # NoRun /\ st' = "RUNNING"
  BY <1>2 DEF Begin, NoRun
<1>9. orch' = orch /\ rc' = rc /\ crashes' = crashes
  BY DEF Begin
<1>10. \A i \in RunId : worker'[i] = IF i = run' THEN "spawn" ELSE worker[i]
  BY <1>1 DEF RunInv, RunTypeOK, Begin
<1>11. \A i \in RunId : i > Len(accepted) =>
         worker[i] = "none" /\ i \notin orch /\ rc[i] = "none"
  BY DEF RunInv, RunShape
<1>12. \A i \in RunId : worker[i] = "none"
  BY DEF RunInv, RunShape, Begin, Busy, Free
<1>13. \A i \in RunId : i \in Nat
  BY <1>1 DEF RunId
<1>14. Cardinality(orch' \ {run'}) <= crashes'
  <2>1. run' \notin orch /\ run \notin orch
    BY <1>1, <1>2, <1>8, <1>11 DEF RunInv, RunShape, Begin, Busy, Free
  <2>2. orch' \ {run'} = orch \ {run}
    BY <2>1, <1>9
  <2> QED  BY <2>2, <1>9 DEF RunInv, RunShape
<1>15. RunShape'
  BY <1>1, <1>2, <1>7, <1>8, <1>9, <1>10, <1>11, <1>12, <1>13, <1>14 DEF RunShape, Busy
<1> QED  BY <1>4, <1>6, <1>15 DEF RunInv

-----------------------------------------------------------------------------
(* The workers and the orchestrators *)

\* The orchestrators that may have lost their worker, those other than that of run.
LEMMA LeftBehind ==
  ASSUME RunTypeOK, NEW S, S \subseteq orch \ {run}
  PROVE  /\ IsFiniteSet(orch \ {run})
         /\ Cardinality(orch \ {run}) \in Nat /\ Cardinality(S) \in Nat
         /\ Cardinality(S) <= Cardinality(orch \ {run})
<1>1. IsFiniteSet(RunId)
  BY ReqsAssumption, FS_CardinalityType, FS_Interval DEF RunId
<1>2. IsFiniteSet(orch \ {run})
  BY <1>1, FS_Subset DEF RunTypeOK
<1>3. Cardinality(S) <= Cardinality(orch \ {run}) /\ IsFiniteSet(S)
  BY <1>2, FS_Subset
<1> QED  BY <1>2, <1>3, FS_CardinalityType

LEMMA CrashesAreCounted == RunTypeOK => crashes \in Nat
BY CrashesAssumption DEF RunTypeOK

LEMMA WorkerStep ==
  ASSUME RunInv, NEW i \in RunId, NEW stage \in {"none", "PARSING", "EVALUATING"},
         NEW how \in {"ok", "fail"},
         \/ Spawn(i) \/ SpawnFails(i) \/ LineFails(i) \/ Finish(i)
         \/ Line(i, stage) \/ OrchestratorEnds(i, how)
  PROVE  RunInv'
<1> USE DEF RunInv, reqVars, RunStateVars, Answered
<1>0. Cardinality(orch' \ {run'}) <= crashes'
  <2>1. CASE Spawn(i)
    <3>1. i = run
      BY <2>1 DEF Spawn, StatusIsOfOneRun
    <3>2. orch' \ {run'} = orch \ {run}
      BY <2>1, <3>1 DEF Spawn
    <3> QED  BY <2>1, <3>2 DEF Spawn, RunShape
  <2>2. CASE OrchestratorEnds(i, how)
    <3>1. orch' \ {run'} \subseteq orch \ {run}
      BY <2>2 DEF OrchestratorEnds
    <3>2. /\ Cardinality(orch' \ {run'}) <= Cardinality(orch \ {run})
          /\ Cardinality(orch \ {run}) \in Nat /\ Cardinality(orch' \ {run'}) \in Nat
      BY <3>1, LeftBehind
    <3>3. Cardinality(orch \ {run}) <= crashes /\ crashes' = crashes /\ crashes \in Nat
      BY <2>2, CrashesAssumption DEF OrchestratorEnds, RunShape, RunTypeOK
    <3> QED  BY <3>2, <3>3
  <2>3. CASE SpawnFails(i) \/ LineFails(i) \/ Finish(i) \/ Line(i, stage)
    <3>1. orch' = orch /\ run' = run /\ crashes' = crashes
      BY <2>3 DEF SpawnFails, LineFails, Finish, Line, FinishWith, childVars
    <3> QED  BY <3>1 DEF RunShape
  <2> QED  BY <2>1, <2>2, <2>3
<1>1. CASE Spawn(i)
  <2>1. RunTypeOK'
    BY <1>1 DEF Spawn, RunTypeOK, Busy, Ended
  <2>2. StatusIsOfOneRun'
    BY <1>1 DEF Spawn, RunTypeOK, RunShape, StatusIsOfOneRun, Busy, Ended
  <2>3. RunShape'
    BY <1>1, <1>0 DEF Spawn, RunTypeOK, RunShape, StatusIsOfOneRun, Busy, Ended
  <2> QED  BY <2>1, <2>2, <2>3
<1>2. CASE SpawnFails(i)
  <2>1. RunTypeOK'
    BY <1>2 DEF SpawnFails, FinishWith, RunTypeOK, Busy, Ended
  <2>2. StatusIsOfOneRun'
    BY <1>2 DEF SpawnFails, FinishWith, RunTypeOK, RunShape, StatusIsOfOneRun, Busy, Ended
  <2>3. RunShape'
    BY <1>2, <1>0 DEF SpawnFails, FinishWith, RunTypeOK, RunShape, StatusIsOfOneRun, Busy, Ended
  <2> QED  BY <2>1, <2>2, <2>3
<1>3. CASE LineFails(i)
  <2>1. RunTypeOK'
    BY <1>3 DEF LineFails, RunTypeOK, Busy, Ended
  <2>2. StatusIsOfOneRun'
    BY <1>3 DEF LineFails, RunTypeOK, RunShape, StatusIsOfOneRun, Busy, Ended
  <2>3. RunShape'
    BY <1>3, <1>0 DEF LineFails, RunTypeOK, RunShape, StatusIsOfOneRun, Busy, Ended
  <2> QED  BY <2>1, <2>2, <2>3
<1>4. CASE Finish(i)
  <2>1. RunTypeOK'
    BY <1>4 DEF Finish, FinishWith, RunTypeOK, Busy, Ended
  <2>2. StatusIsOfOneRun'
    BY <1>4 DEF Finish, FinishWith, RunTypeOK, RunShape, StatusIsOfOneRun, Busy, Ended
  <2>3. RunShape'
    BY <1>4, <1>0 DEF Finish, FinishWith, RunTypeOK, RunShape, StatusIsOfOneRun, Busy, Ended
  <2> QED  BY <2>1, <2>2, <2>3
<1>5. CASE Line(i, stage)
  <2>1. RunTypeOK'
    BY <1>5 DEF Line, childVars, RunTypeOK, Busy, Ended
  <2>2. StatusIsOfOneRun'
    BY <1>5 DEF Line, childVars, RunTypeOK, RunShape, StatusIsOfOneRun, Busy, Ended
  <2>3. RunShape'
    BY <1>5, <1>0 DEF Line, childVars, RunTypeOK, RunShape, StatusIsOfOneRun, Busy, Ended
  <2> QED  BY <2>1, <2>2, <2>3
<1>6. CASE OrchestratorEnds(i, how)
  <2>1. RunTypeOK'
    BY <1>6 DEF OrchestratorEnds, RunTypeOK, Busy, Ended
  <2>2. StatusIsOfOneRun'
    BY <1>6 DEF OrchestratorEnds, RunTypeOK, RunShape, StatusIsOfOneRun, Busy, Ended
  <2>3. RunShape'
    BY <1>6, <1>0 DEF OrchestratorEnds, RunTypeOK, RunShape, StatusIsOfOneRun, Busy, Ended
  <2> QED  BY <2>1, <2>2, <2>3
<1> QED  BY <1>1, <1>2, <1>3, <1>4, <1>5, <1>6

LEMMA CrashStep ==
  ASSUME RunInv, Crash
  PROVE  RunInv'
<1>1. RunTypeOK'
  BY CrashesAssumption DEF RunInv, RunTypeOK, Crash, HandlerPoint
<1>2. StatusIsOfOneRun'
  BY DEF RunInv, StatusIsOfOneRun, Crash, Ended
<1>3. Answered' = Answered
  BY DEF Answered, RunInv, RunTypeOK, Crash, Handling
<1>4. Len(accepted) \in Nat
  BY DEF RunInv, RunTypeOK
<1>5. run' = NoRun /\ st' = "IDLE" /\ accepted' = accepted /\ orch' \subseteq orch
  BY DEF Crash
<1>6. \A i \in RunId : worker'[i] = "none"
  BY DEF Crash
<1>7. \A i \in RunId : rc'[i] = rc[i] \/ i \in orch
  BY DEF Crash, RunInv, RunTypeOK
<1>8. NoRun \notin RunId
  BY ReqsAssumption, FS_CardinalityType DEF NoRun, RunId
\* The crash leaves behind at most the orchestrator of run.
<1>9. Cardinality(orch' \ {run'}) <= crashes'
  <2>1. /\ IsFiniteSet(orch \ {run}) /\ Cardinality(orch \ {run}) \in Nat
        /\ Cardinality(orch \ {run}) <= crashes
    BY LeftBehind DEF RunInv, RunShape
  <2>2. IsFiniteSet(orch \cup {run}) /\ Cardinality(orch \cup {run}) <= crashes + 1
    <3>1. orch \cup {run} = (orch \ {run}) \cup {run} /\ run \notin orch \ {run}
      OBVIOUS
    <3>2. /\ IsFiniteSet((orch \ {run}) \cup {run})
          /\ Cardinality((orch \ {run}) \cup {run}) = Cardinality(orch \ {run}) + 1
      BY <2>1, FS_AddElement
    <3>3. crashes \in Nat
      BY CrashesAreCounted DEF RunInv
    <3>4. orch \cup {run} = (orch \ {run}) \cup {run}
      BY <3>1
    <3> QED  BY <2>1, <3>2, <3>3, <3>4
  <2>3. orch' \ {run'} \subseteq orch \cup {run}
    BY <1>5
  <2>4. /\ Cardinality(orch' \ {run'}) <= Cardinality(orch \cup {run})
        /\ IsFiniteSet(orch' \ {run'})
    BY <2>2, <2>3, FS_Subset
  <2>5. Cardinality(orch \cup {run}) \in Nat /\ Cardinality(orch' \ {run'}) \in Nat
    BY <2>2, <2>4, FS_CardinalityType
  <2> QED  BY <2>2, <2>4, <2>5, CrashesAssumption DEF RunInv, RunTypeOK, Crash
<1>10. RunShape'
  <2>1. orch' \subseteq RunId
    BY <1>1 DEF RunTypeOK
  <2>2. Len(accepted') = Cardinality(Answered') /\ NoRun <= Len(accepted')
    BY <1>3, <1>4, <1>5 DEF RunInv, RunShape, NoRun
  <2> QED  BY <1>5, <1>6, <1>7, <1>8, <1>9, <2>1, <2>2 DEF RunInv, RunShape
<1> QED  BY <1>1, <1>2, <1>10 DEF RunInv

LEMMA RunInvStep == RunInv /\ [RunNext]_runVars => RunInv'
<1> SUFFICES ASSUME RunInv, [RunNext]_runVars PROVE RunInv'
  OBVIOUS
<1>1. ASSUME NEW r \in Reqs, Begin(r) PROVE RunInv'
  BY <1>1, BeginStep
<1>2. ASSUME NEW r \in Reqs, NEW k \in Kind, Arrive(r, k) PROVE RunInv'
  BY <1>2, HandlerStep
<1>3. ASSUME NEW r \in Reqs,
             Reject(r) \/ ReadSeed(r) \/ TruncateSeed(r) \/ WriteSeed(r) \/ Refuse(r)
      PROVE  RunInv'
  <2>1. Profile \in Kind
    BY DEF Kind
  <2> QED  BY <1>3, <2>1, HandlerStep
<1>4. ASSUME NEW i \in RunId, NEW stage \in {"none", "PARSING", "EVALUATING"},
             Line(i, stage)
      PROVE  RunInv'
  BY <1>4, WorkerStep
<1>5. ASSUME NEW i \in RunId, NEW how \in {"ok", "fail"}, OrchestratorEnds(i, how)
      PROVE  RunInv'
  BY <1>5, WorkerStep
<1>6. ASSUME NEW i \in RunId, Spawn(i) \/ SpawnFails(i) \/ LineFails(i) \/ Finish(i)
      PROVE  RunInv'
  BY <1>6, WorkerStep
<1>7. CASE Crash
  BY <1>7, CrashStep
<1>8. CASE Quiet \/ UNCHANGED runVars
  BY <1>8 DEF Quiet, runVars, RunInv, RunTypeOK, StatusIsOfOneRun, RunShape, Answered, reqVars, RunStateVars, childVars, Ended
<1> QED  BY <1>1, <1>2, <1>3, <1>4, <1>5, <1>6, <1>7, <1>8 DEF RunNext

-----------------------------------------------------------------------------
\* RunState, the counters and the threads stay in their types.
THEOREM RunTypeCorrect == RunSpec => []RunTypeOK
<1>1. RunInv => RunTypeOK
  BY DEF RunInv
<1> QED  BY <1>1, RunInitInv, RunInvStep, PTL DEF RunSpec

\* What a client reads from /api/status is of the run named by run_id, and DONE is
\* said only of an orchestrator that exited with 0, crashes of the server included.
THEOREM StatusSafety == RunSpec => []StatusIsOfOneRun
<1>1. RunInv => StatusIsOfOneRun
  BY DEF RunInv
<1> QED  BY <1>1, RunInitInv, RunInvStep, PTL DEF RunSpec

\* A server that is not killed runs one orchestrator at a time, and every crash adds
\* at most one.
THEOREM SingleRun == RunSpec => []OneOrchestrator
<1>1. RunInv => OneOrchestrator
  <2> SUFFICES ASSUME RunInv PROVE OneOrchestrator
    OBVIOUS
  <2>1. /\ IsFiniteSet(orch \ {run}) /\ Cardinality(orch \ {run}) \in Nat
        /\ Cardinality(orch \ {run}) <= crashes /\ crashes \in Nat
    <3>1. RunTypeOK /\ Cardinality(orch \ {run}) <= crashes
      BY DEF RunInv, RunShape
    <3> QED  BY <3>1, LeftBehind, CrashesAreCounted
  <2>2. Cardinality(orch) <= crashes + 1
    <3>1. CASE run \in orch
      <4>1. orch = (orch \ {run}) \cup {run} /\ run \notin orch \ {run}
        BY <3>1
      <4>2. Cardinality((orch \ {run}) \cup {run}) = Cardinality(orch \ {run}) + 1
        BY <2>1, <4>1, FS_AddElement
      <4> QED  BY <2>1, <4>1, <4>2
    <3>2. CASE run \notin orch
      <4>1. orch = orch \ {run}
        BY <3>2
      <4> QED  BY <2>1, <4>1
    <3> QED  BY <3>1, <3>2
  <2>3. ASSUME crashes = 0, orch # {} PROVE orch = {run} /\ st \in Busy
    <3>1. Cardinality(orch \ {run}) = 0
      BY <2>1, <2>3
    <3>2. orch \ {run} = {}
      BY <2>1, <3>1, FS_EmptySet
    <3>3. orch = {run}
      BY <2>3, <3>2
    <3> QED  BY <3>3 DEF RunInv, RunShape
  <2> QED  BY <2>2, <2>3 DEF OneOrchestrator
<1> QED  BY <1>1, RunInitInv, RunInvStep, PTL DEF RunSpec

-----------------------------------------------------------------------------
(* The job slot that the clients see *)

\* A step that leaves the state's side of Busy, the run and the accepted requests
\* alone leaves the slot alone.
LEMMA SlotStutters ==
  ASSUME run' = run, accepted' = accepted, st' \in Busy <=> st \in Busy
  PROVE  UNCHANGED Slot!slotVars
BY DEF Slot!slotVars

\* finish() and the loss of the server give the slot back.
LEMMA SlotReleased ==
  ASSUME RunInv, st \in Busy, st' \notin Busy, accepted' = accepted
  PROVE  Slot!SlotNext
<1>1. run \in RunId /\ run <= Len(accepted)
  BY DEF RunInv, RunTypeOK, RunShape, Busy
<1>2. PICK j \in RunId : j = run
  BY <1>1
<1>3. Slot!Release(j)
  BY <1>1, <1>2 DEF Slot!Release
<1> QED  BY <1>3 DEF Slot!SlotNext

LEMMA SlotTaken ==
  ASSUME RunInv, NEW r \in Reqs, Begin(r)
  PROVE  Slot!SlotNext
<1>1. Len(accepted) + 1 \in RunId /\ RunId \subseteq Nat
  BY RoomForOne, ReqsAssumption, FS_CardinalityType DEF RunId
<1>2. Len(accepted) \in Nat /\ Len(accepted') = Len(accepted) + 1
  BY DEF RunInv, RunTypeOK, Begin
<1>3. st \notin Busy /\ st' \in Busy /\ run' = Len(accepted) + 1
  BY DEF Begin, Free, Busy
<1>4. \A i \in RunId : i <= Len(accepted) <=> i < Len(accepted) + 1
  BY <1>1, <1>2
<1>5. \A i \in RunId : i <= Len(accepted') /\ i # run' <=> i <= Len(accepted)
  BY <1>1, <1>2, <1>3
<1>6. PICK j \in RunId : j = Len(accepted) + 1
  BY <1>1
<1>7. Slot!Take(j)
  BY <1>1, <1>3, <1>4, <1>5, <1>6 DEF Slot!Take
<1> QED  BY <1>7 DEF Slot!SlotNext

LEMMA SlotStep ==
  RunInv /\ [RunNext]_runVars => [Slot!SlotNext]_(Slot!slotVars)
<1> SUFFICES ASSUME RunInv, [RunNext]_runVars
             PROVE  Slot!SlotNext \/ UNCHANGED Slot!slotVars
  OBVIOUS
<1>1. ASSUME NEW r \in Reqs, Begin(r) PROVE Slot!SlotNext
  BY <1>1, SlotTaken
<1>2. ASSUME NEW r \in Reqs, NEW k \in Kind,
             \/ Arrive(r, k) \/ Reject(r) \/ ReadSeed(r) \/ TruncateSeed(r)
             \/ WriteSeed(r) \/ Refuse(r)
      PROVE  UNCHANGED Slot!slotVars
  BY <1>2, SlotStutters
     DEF Arrive, Reject, ReadSeed, TruncateSeed, WriteSeed, Refuse, RunStateVars
<1>3. ASSUME NEW i \in RunId, NEW stage \in {"none", "PARSING", "EVALUATING"},
             NEW how \in {"ok", "fail"},
             \/ Spawn(i) \/ LineFails(i) \/ Line(i, stage) \/ OrchestratorEnds(i, how)
      PROVE  UNCHANGED Slot!slotVars
  <2>1. run' = run /\ accepted' = accepted
    BY <1>3 DEF Spawn, LineFails, Line, OrchestratorEnds, RunStateVars
  <2>2. worker[i] # "none" => st \in Busy
    BY DEF RunInv, RunShape
  <2>3. st' = st \/ (st' \in Busy /\ st \in Busy)
    BY <1>3, <2>2 DEF Spawn, LineFails, Line, OrchestratorEnds, RunStateVars, Busy
  <2> QED  BY <2>1, <2>3, SlotStutters
<1>4. ASSUME NEW i \in RunId, SpawnFails(i) \/ Finish(i) PROVE Slot!SlotNext
  <2>1. accepted' = accepted /\ st' \notin Busy
    BY <1>4 DEF SpawnFails, Finish, FinishWith, Busy
  <2>2. st \in Busy
    BY <1>4 DEF SpawnFails, Finish, RunInv, RunShape
  <2> QED  BY <2>1, <2>2, SlotReleased
<1>5. CASE Crash
  <2>1. accepted' = accepted /\ st' \notin Busy
    BY <1>5 DEF Crash, Busy
  <2>2. CASE st \in Busy
    BY <2>1, <2>2, SlotReleased
  <2>3. CASE st \notin Busy
    BY <2>1, <2>3 DEF Slot!slotVars, NoRun
  <2> QED  BY <2>2, <2>3
<1>6. CASE Quiet \/ UNCHANGED runVars
  BY <1>6, SlotStutters DEF Quiet, runVars
<1>7. Profile \in Kind
  BY DEF Kind
<1> QED  BY <1>1, <1>2, <1>3, <1>4, <1>5, <1>6, <1>7 DEF RunNext

\* Whatever the requests, the overlaps and the crashes, a client of run_server.py sees
\* a slot that one run holds from begin() to finish() and that no run holds twice.
THEOREM ServerIsAJobSlot == RunSpec => ImplementsJobSlot
<1>1. RunInit => Slot!SlotInit
  BY DEF RunInit, Slot!SlotInit, Busy, RunId, NoRun
<1> QED  BY <1>1, RunInitInv, RunInvStep, SlotStep, PTL
         DEF RunSpec, ImplementsJobSlot, Slot!SlotSpec

-----------------------------------------------------------------------------
(* The tab of the dashboard.  Its steps leave the server alone, or are the *)
(* server's.                                                               *)

LEMMA Numbered == Cardinality(Reqs) \in Nat /\ Reqs \subseteq Nat /\ RunId \subseteq Nat
BY ReqsAssumption, TabAssumption, FS_CardinalityType DEF RunId

LEMMA ServerSteps == DashNext => [RunNext]_runVars
<1> SUFFICES ASSUME DashNext PROVE RunNext \/ UNCHANGED runVars
  OBVIOUS
<1>1. CASE PollStep \/ AskAgain \/ TabStep \/ Click \/ Reload
  BY <1>1 DEF PollStep, AskAgain, TabStep, Click, Reload, Ask, Answer, Revealed, PollManifest,
              LoadStep, ReadData, ShowData, ShowLate, dashVars
<1>2. ASSUME NEW r \in Reqs, Accepted(r) \/ Failed(r) PROVE UNCHANGED runVars
  BY <1>2 DEF Accepted, Failed
<1>3. ASSUME NEW r \in Reqs, PostArrives(r) \/ Decide(r) PROVE RunNext
  <2>1. Profile \in Kind
    BY DEF Kind
  <2> QED  BY <1>3, <2>1 DEF PostArrives, Decide, RunNext
<1>4. ASSUME NEW i \in RunId, RunStep(i) PROVE RunNext \/ UNCHANGED runVars
  BY <1>4 DEF RunStep, Work, Publish, Ends, RunNext
<1> QED  BY <1>1, <1>2, <1>3, <1>4 DEF DashNext

\* Without a crash the run that is shown is the only one at work.
LEMMA OnlyRun ==
  ASSUME RunInv, crashes = 0
  PROVE  orch \subseteq {run}
<1>1. RunTypeOK /\ Cardinality(orch \ {run}) <= crashes
  BY DEF RunInv, RunShape
<1>2. IsFiniteSet(orch \ {run}) /\ Cardinality(orch \ {run}) \in Nat
  BY <1>1, LeftBehind
<1>3. Cardinality(orch \ {run}) = 0
  BY <1>1, <1>2
<1>4. orch \ {run} = {}
  BY <1>2, <1>3, FS_EmptySet
<1> QED  BY <1>4

\* A run that is shown as DONE has published everything.
LEMMA DoneIsWhole ==
  ASSUME RunInv, DashInv, st = "DONE"
  PROVE  /\ run \in RunId
         /\ live = [data |-> run, manifest |-> run, late |-> run]
         /\ CaughtUp(run)
<1>1. rc[run] = "ok"
  BY DEF RunInv, StatusIsOfOneRun, Ended
<1>2. run # NoRun /\ run \in RunId
  BY DEF RunInv, RunTypeOK, RunShape
<1> QED  BY <1>1, <1>2 DEF DashInv, RunIsWhole

LEMMA DashInitInv == DashInit => DashInv
<1> SUFFICES ASSUME DashInit PROVE DashInv
  OBVIOUS
<1>1. MaxLoads \in Nat /\ NoRun \in Nat
  BY TabAssumption DEF NoRun
<1>2. Opened \in [LoadId -> [stage : {"none", "first", "second"}, done : BOOLEAN,
                             data : Nat \cup {Unread}]]
  BY DEF Opened, NewLoad, NoLoad
<1>3. TabTypeOK
  BY <1>1, <1>2 DEF DashInit, TabTypeOK, NoReq, NoRun
<1>4. RequestsKnown
  BY Numbered DEF DashInit, RunInit, RequestsKnown, NoReq
<1>5. PublishOrder
  BY DEF DashInit, RunInit, PublishOrder, NoRun
<1>6. RunIsWhole /\ RevealIsDue
  BY DEF DashInit, RunInit, RunIsWhole, RevealIsDue
<1> QED  BY <1>3, <1>4, <1>5, <1>6 DEF DashInv

\* What the tab does between two clicks: it takes in what the server has, and puts
\* on the page what it has loaded.
LEMMA TabKeeps ==
  ASSUME RunInv, DashInv, TabTypeOK',
         UNCHANGED <<runVars, askVars, live, mine>>,
         \A r \in Reqs : r \in sent /\ r \notin sent' => Decided(r),
         initiated' => initiated,
         replies' \subseteq replies \cup {State},
         \A j \in LoadId : loads'[j].data \in {loads[j].data, live.data, Unread},
         \A j \in LoadId : loads'[j].done => loads[j].done \/ "DONE" \in replies,
         \A j \in LoadId : loads'[j].done /\ loads'[j].stage = "second" =>
           \/ shown'.data = live.data
           \/ \E i \in LoadId : shown'.data = loads[i].data /\ loads[i].data # Unread
           \/ shown'.data = shown.data /\ loads[j].done /\ loads[j].stage = "second"
  PROVE  DashInv'
<1>1. RequestsKnown'
  BY DEF DashInv, RequestsKnown, Decided, runVars
<1>2. PublishOrder'
  BY DEF DashInv, PublishOrder, runVars
<1>3. RunIsWhole'
  <2>1. SUFFICES ASSUME run # NoRun, rc[run] = "ok"
                 PROVE  /\ run \notin orch /\ worker[run] # "spawn"
                        /\ live = [data |-> run, manifest |-> run, late |-> run]
                        /\ \A j \in LoadId : loads'[j].data \in {Unread, run}
    BY DEF RunIsWhole, CaughtUp, runVars
  <2>2. /\ run \notin orch /\ worker[run] # "spawn"
        /\ live = [data |-> run, manifest |-> run, late |-> run]
        /\ \A j \in LoadId : loads[j].data \in {Unread, run}
    BY <2>1 DEF DashInv, RunIsWhole, CaughtUp
  <2>3. live.data = run
    BY <2>2
  <2> QED  BY <2>2, <2>3
<1>4. RevealIsDue'
  <2>1. SUFFICES ASSUME initiated, due # NoRun, ~stale
                 PROVE  /\ due = run /\ \A r \in Reqs : r <= mine => Decided(r)
                        /\ "DONE" \in replies' \/ (\E k \in LoadId : loads'[k].done) => st = "DONE"
                        /\ \A k \in LoadId : loads'[k].done /\ loads'[k].stage = "second" =>
                             shown'.data = due
    BY Zenon DEF RevealIsDue, Decided, runVars, askVars
  <2>2. /\ due = run /\ \A r \in Reqs : r <= mine => Decided(r)
        /\ "DONE" \in replies \/ (\E k \in LoadId : loads[k].done) => st = "DONE"
        /\ \A k \in LoadId : loads[k].done /\ loads[k].stage = "second" => shown.data = due
    BY <2>1 DEF DashInv, RevealIsDue
  <2>3. "DONE" \in replies' \/ (\E k \in LoadId : loads'[k].done) => st = "DONE"
    <3>1. State = "DONE" => st = "DONE"
      BY DEF State
    <3> QED  BY <2>2, <3>1
  <2>4. ASSUME NEW k \in LoadId, loads'[k].done, loads'[k].stage = "second"
        PROVE  shown'.data = due
    <3>1. st = "DONE"
      BY <2>3, <2>4
    <3>2. live.data = run /\ \A i \in LoadId : loads[i].data \in {Unread, run}
      BY <3>1, DoneIsWhole DEF CaughtUp
    <3> QED  BY <2>2, <2>4, <3>2
  <2> QED  BY <2>2, <2>3, <2>4
<1> QED  BY <1>1, <1>2, <1>3, <1>4 DEF DashInv

LEMMA SettleSays ==
  ASSUME NEW ph, NEW ini \in BOOLEAN, NEW s, Settle(ph, ini, s)
  PROVE  initiated' \in BOOLEAN /\ (initiated' => ini)
BY DEF Settle

\* Records of loads, their flag left open.
LEMMA DoneChanged ==
  ASSUME NEW s, NEW c, NEW d, NEW x
  PROVE  [[stage |-> s, done |-> c, data |-> x] EXCEPT !.done = d] = [stage |-> s, done |-> d, data |-> x]
OBVIOUS

LEMMA StageChanged ==
  ASSUME NEW s, NEW t, NEW d, NEW x, NEW l, l = [stage |-> s, done |-> d, data |-> x]
  PROVE  [l EXCEPT !.stage = t] = [stage |-> t, done |-> d, data |-> x]
OBVIOUS

LEMMA LoadFields ==
  ASSUME NEW s, NEW d, NEW x, NEW l, l = [stage |-> s, done |-> d, data |-> x]
  PROVE  l.stage = s /\ l.done = d /\ l.data = x
OBVIOUS

\* A load that begins has read nothing.
LEMMA LoadBegins ==
  ASSUME TabTypeOK, NEW d \in BOOLEAN, StartLoad(d)
  PROVE  /\ loads' \in [LoadId -> [stage : {"none", "first", "second"}, done : BOOLEAN,
                                   data : Nat \cup {Unread}]]
         /\ \A j \in LoadId : \/ loads'[j] = loads[j]
                              \/ loads'[j] = [stage |-> "first", done |-> d, data |-> Unread]
<1>1. PICK k \in LoadId : loads' = [loads EXCEPT ![k] = NewLoad(d)]
  BY DEF StartLoad
<1>2. NewLoad(d) = [stage |-> "first", done |-> d, data |-> Unread]
  <2> DEFINE no == FALSE
  <2>1. NoLoad = [stage |-> "none", done |-> no, data |-> Unread]
    BY DEF NoLoad
  <2>2. NewLoad(d) = [[NoLoad EXCEPT !.stage = "first"] EXCEPT !.done = d]
    BY DEF NewLoad
  <2> HIDE DEF no
  <2>3. [NoLoad EXCEPT !.stage = "first"] = [stage |-> "first", done |-> no, data |-> Unread]
    BY <2>1, StageChanged
  <2> QED  BY <2>2, <2>3, DoneChanged
<1> QED  BY <1>1, <1>2 DEF TabTypeOK

LEMMA TabStepKeeps ==
  ASSUME RunInv, DashInv, PollStep \/ TabStep \/ AskAgain
  PROVE  DashInv'
<1> TabTypeOK
  BY DEF DashInv
<1>1. CASE Ask
  <2>1. TabTypeOK'
    BY <1>1 DEF Ask, TabTypeOK, refVars, dataVars, postVars, askVars
  <2> QED  BY <1>1, <2>1, TabKeeps DEF Ask, refVars, dataVars, postVars
<1>2. ASSUME NEW s \in replies, Answer(s) PROVE DashInv'
  <2>1. initiated' \in BOOLEAN /\ (initiated' => initiated)
    BY <1>2, SettleSays DEF Answer, TabTypeOK
  <2>2. UNCHANGED <<runVars, shown, mine, sent, askVars, live>> /\ replies' \subseteq replies
    BY <1>2 DEF Answer, postVars
  <2>3. CASE Completes(s)
    <3>1. StartLoad(TRUE) /\ "DONE" \in replies
      BY <1>2, <2>3 DEF Answer, Completes
    <3>2. /\ loads' \in [LoadId -> [stage : {"none", "first", "second"}, done : BOOLEAN,
                                    data : Nat \cup {Unread}]]
          /\ \A j \in LoadId : \/ loads'[j] = loads[j]
                               \/ loads'[j] = [stage |-> "first", done |-> TRUE, data |-> Unread]
      BY <3>1, LoadBegins
    <3>3. TabTypeOK'
      BY <2>1, <2>2, <3>2 DEF TabTypeOK, askVars
    <3> QED  BY <2>1, <2>2, <3>1, <3>2, <3>3, TabKeeps
  <2>4. CASE ~Completes(s)
    <3>1. loads' = loads
      BY <1>2, <2>4 DEF Answer
    <3>2. TabTypeOK'
      BY <2>1, <2>2, <3>1 DEF TabTypeOK, askVars
    <3> QED  BY <2>1, <2>2, <3>1, <3>2, TabKeeps
  <2> QED  BY <2>3, <2>4
<1>3. ASSUME NEW k \in LoadId, ReadData(k) PROVE DashInv'
  <2>1. /\ loads' = [loads EXCEPT ![k] = [@ EXCEPT !.data = live.data]] /\ loads[k].stage = "first"
        /\ UNCHANGED <<runVars, initiated, replies, shown, mine, sent, askVars, live>>
    BY <1>3 DEF ReadData, refVars, statusVars, postVars
  <2>2. \A j \in LoadId : \/ loads'[j] = loads[j]
                          \/ loads'[j] = [loads[j] EXCEPT !.data = live.data] /\ loads[j].stage = "first"
    BY <2>1 DEF TabTypeOK
  <2>3. TabTypeOK'
    BY <2>1 DEF TabTypeOK, askVars
  <2>4. ASSUME NEW j \in LoadId
        PROVE  /\ loads'[j].data \in {loads[j].data, live.data, Unread}
               /\ loads'[j].done = loads[j].done /\ loads'[j].stage = loads[j].stage
    <3> DEFINE l == loads[j]
    <3>1. l \in [stage : {"none", "first", "second"}, done : BOOLEAN, data : Nat \cup {Unread}]
      BY DEF TabTypeOK
    <3> HIDE DEF l
    <3>2. LET n == [l EXCEPT !.data = live.data]
          IN  n.data = live.data /\ n.done = l.done /\ n.stage = l.stage
      BY <3>1
    <3>3. loads'[j] = l \/ loads'[j] = [l EXCEPT !.data = live.data]
      BY <2>2 DEF l
    <3> QED  BY <3>2, <3>3 DEF l
  <2> QED  BY <2>1, <2>3, <2>4, TabKeeps
<1>4. ASSUME NEW k \in LoadId, ShowData(k) PROVE DashInv'
  <2> DEFINE data == IF loads[k].data = Unread THEN live.data ELSE loads[k].data
  <2>1. /\ loads' = [loads EXCEPT ![k] = [[@ EXCEPT !.stage = "second"] EXCEPT !.data = Unread]]
        /\ shown' = [shown EXCEPT !.data = data]
        /\ UNCHANGED <<runVars, initiated, replies, mine, sent, askVars, live>>
    BY <1>4 DEF ShowData, refVars, statusVars, postVars
  <2>2. \A j \in LoadId : \/ loads'[j] = loads[j]
                          \/ loads'[j] = [stage |-> "second", done |-> loads[j].done, data |-> Unread]
    BY <2>1 DEF TabTypeOK
  <2>3. shown'.data = data /\ data \in Nat
    BY <2>1 DEF TabTypeOK
  <2>4. TabTypeOK'
    BY <2>1, <2>3 DEF TabTypeOK, askVars
  <2>5. ASSUME NEW j \in LoadId
        PROVE  /\ loads'[j].data \in {loads[j].data, live.data, Unread}
               /\ loads'[j].done = loads[j].done
    <3> DEFINE d == loads[j].done
    <3>1. loads'[j] = loads[j] \/ loads'[j] = [stage |-> "second", done |-> d, data |-> Unread]
      BY <2>2
    <3> HIDE DEF d
    <3>2. loads'[j] = loads[j] \/ (loads'[j].done = d /\ loads'[j].data = Unread)
      BY <3>1, LoadFields
    <3>3. loads'[j].data \in {loads[j].data, live.data, Unread}
      BY <3>2
    <3>4. loads'[j].done = loads[j].done
      BY <3>2, Zenon DEF d
    <3> QED  BY <3>3, <3>4
  <2>7. \/ shown'.data = live.data
        \/ \E i \in LoadId : shown'.data = loads[i].data /\ loads[i].data # Unread
    BY <2>3
  <2> QED  BY <2>1, <2>4, <2>5, <2>7, TabKeeps
<1>5. ASSUME NEW k \in LoadId, ShowLate(k) PROVE DashInv'
  <2>1. /\ loads' = [loads EXCEPT ![k] = NoLoad] /\ shown' = [shown EXCEPT !.late = live.late]
        /\ UNCHANGED <<runVars, replies, mine, sent, askVars, live>>
    BY <1>5 DEF ShowLate, postVars
  <2>2. initiated' \in BOOLEAN /\ (initiated' => initiated)
    BY <1>5, SettleSays DEF ShowLate, Reveal, refVars, TabTypeOK
  <2>3. /\ NoLoad = [stage |-> "none", done |-> FALSE, data |-> Unread]
        /\ \A j \in LoadId : loads'[j] = loads[j] \/ loads'[j] = NoLoad
    BY <2>1 DEF TabTypeOK, NoLoad
  <2>4. shown'.data = shown.data
    BY <2>1 DEF TabTypeOK
  <2>5. TabTypeOK'
    BY <2>1, <2>2, <2>3 DEF TabTypeOK, askVars
  <2> QED  BY <2>1, <2>2, <2>3, <2>4, <2>5, TabKeeps
<1>6. CASE Revealed
  <2>1. UNCHANGED <<runVars, initiated, replies, loads, shown, mine, sent, askVars, live>>
    BY <1>6 DEF Revealed, statusVars, dataVars, postVars
  <2>2. TabTypeOK'
    BY <2>1 DEF TabTypeOK, askVars
  <2> QED  BY <2>1, <2>2, TabKeeps
<1>7. CASE PollManifest
  <2>1. /\ StartLoad(FALSE)
        /\ UNCHANGED <<runVars, initiated, replies, shown, mine, sent, askVars, live>>
    BY <1>7 DEF PollManifest, refVars, statusVars, postVars
  <2>2. /\ loads' \in [LoadId -> [stage : {"none", "first", "second"}, done : BOOLEAN,
                                  data : Nat \cup {Unread}]]
        /\ \A j \in LoadId : \/ loads'[j] = loads[j]
                             \/ loads'[j] = [stage |-> "first", done |-> FALSE, data |-> Unread]
    BY <2>1, LoadBegins
  <2>3. TabTypeOK'
    BY <2>1, <2>2 DEF TabTypeOK, askVars
  <2> QED  BY <2>1, <2>2, <2>3, TabKeeps
<1>8. CASE AskAgain
  <2>1. UNCHANGED <<runVars, initiated, replies, loads, shown, mine, sent, askVars, live>>
    BY <1>8 DEF AskAgain, dashVars, tabVars, refVars, statusVars, dataVars, postVars
  <2>2. TabTypeOK'
    BY <2>1 DEF TabTypeOK, askVars
  <2> QED  BY <2>1, <2>2, TabKeeps
<1> QED  BY <1>1, <1>2, <1>3, <1>4, <1>5, <1>6, <1>7, <1>8 DEF PollStep, TabStep, LoadStep

\* A new click, and a new page, await no run yet.
LEMMA Begins ==
  ASSUME RunInv, DashInv, TabTypeOK', RequestsKnown',
         UNCHANGED <<runVars, live>>,
         \A j \in LoadId : loads'[j].data \in {loads[j].data, Unread},
         due' = NoRun
  PROVE  DashInv'
<1>1. PublishOrder'
  BY DEF DashInv, PublishOrder, runVars
<1>2. RunIsWhole'
  BY DEF DashInv, RunIsWhole, CaughtUp, runVars
<1>3. RevealIsDue'
  BY DEF RevealIsDue
<1> QED  BY <1>1, <1>2, <1>3 DEF DashInv

LEMMA ClickKeeps ==
  ASSUME RunInv, DashInv, Click \/ Reload
  PROVE  DashInv'
<1>1. TabTypeOK /\ RequestsKnown
  BY DEF DashInv
<1>2. CASE Click
  <2>1. /\ mine + 1 \in Reqs /\ mine' = mine + 1 /\ sent' = sent \cup {mine + 1}
        /\ UNCHANGED <<runVars, loads, shown, live>>
        /\ due' = NoRun /\ stale' = FALSE
    BY <1>2 DEF Click, dataVars
  <2>2. initiated' \in BOOLEAN
    BY <1>2, SettleSays DEF Click
  <2>3. TabTypeOK'
    <3>1. mine' \in Nat /\ sent' \subseteq 1..mine'
      BY <1>1, <2>1, Numbered DEF TabTypeOK
    <3>2. due' \in Nat /\ stale' \in BOOLEAN
      BY <2>1 DEF NoRun
    <3> QED  BY <1>1, <2>1, <2>2, <3>1, <3>2 DEF TabTypeOK
  <2>4. RequestsKnown'
    BY <1>1, <2>1, Numbered DEF RequestsKnown, Decided, TabTypeOK, runVars
  <2> QED  BY <2>1, <2>3, <2>4, Begins
<1>3. CASE Reload
  <2>1. /\ loads' = Opened /\ shown' = [data |-> NoRun, late |-> NoRun] /\ initiated' = FALSE
        /\ due' = NoRun /\ stale' = FALSE /\ UNCHANGED <<runVars, mine, sent, live>>
    BY <1>3 DEF Reload, postVars
  <2>2. /\ Opened \in [LoadId -> [stage : {"none", "first", "second"}, done : BOOLEAN,
                                  data : Nat \cup {Unread}]]
        /\ \A j \in LoadId : Opened[j].data = Unread
    BY DEF Opened, NewLoad, NoLoad
  <2>3. TabTypeOK'
    BY <1>1, <2>1, <2>2 DEF TabTypeOK, NoRun
  <2>4. RequestsKnown'
    BY <1>1, <2>1 DEF RequestsKnown, Decided, runVars
  <2> QED  BY <2>1, <2>2, <2>3, <2>4, Begins
<1> QED  BY <1>2, <1>3

LEMMA AnswerKeeps ==
  ASSUME RunInv, DashInv, NEW r \in Reqs, Accepted(r) \/ Failed(r)
  PROVE  DashInv'
<1>1. /\ sent' = sent \ {r} /\ Decided(r)
      /\ UNCHANGED <<runVars, replies, loads, shown, mine, askVars, live>>
  BY DEF Accepted, Failed, Decided, dataVars, statusVars
<1>2. initiated' \in BOOLEAN /\ (initiated' => initiated)
  BY SettleSays DEF Accepted, Failed, refVars, DashInv, TabTypeOK
<1>3. TabTypeOK'
  BY <1>1, <1>2 DEF DashInv, TabTypeOK, askVars
<1> QED  BY <1>1, <1>2, <1>3, TabKeeps

\* A request that is on its way when no earlier one is, and no DONE, begins the run
\* that the tab then awaits.
LEMMA RequestKeeps ==
  ASSUME RunInv, DashInv, NEW r \in Reqs, PostArrives(r) \/ Decide(r)
  PROVE  DashInv'
<1> DEFINE decided == at'[r] \in {"answered", "refused"}
<1>1. TabTypeOK /\ RequestsKnown /\ PublishOrder /\ RunIsWhole /\ RevealIsDue
  BY DEF DashInv
<1>2. /\ at[r] \in {"new", "begin"} /\ r <= mine
      /\ \A q \in Reqs : q # r => at'[q] = at[q]
      /\ UNCHANGED <<replies, loads, shown, mine, sent, live, initiated, crashes, orch, rc>>
  <2>1. at \in [Reqs -> HandlerPoint]
    BY DEF RunInv, RunTypeOK
  <2>2. CASE PostArrives(r)
    BY <2>1, <2>2, Numbered
       DEF PostArrives, Arrive, Goes, tabVars, refVars, statusVars, dataVars, postVars, childVars, TabTypeOK
  <2>3. CASE Decide(r)
    <3>1. at[r] = "begin"
      BY <2>3 DEF Decide, Begin, Refuse
    <3>2. r <= mine
      BY <1>1, <3>1, Numbered DEF RequestsKnown, TabTypeOK
    <3> QED  BY <2>1, <2>3, <3>1, <3>2
             DEF Decide, Begin, Refuse, Goes, refVars, statusVars, dataVars, postVars, childVars
  <2> QED  BY <2>2, <2>3
<1>3. r \in sent
  BY <1>1, <1>2 DEF RequestsKnown, Decided
<1>4. RequestsKnown'
  BY <1>1, <1>2, <1>3, Numbered DEF RequestsKnown, Decided, TabTypeOK
<1>5. PublishOrder' /\ RunIsWhole'
  <2>1. CASE run' = run /\ accepted' = accepted /\ worker' = worker
    BY <1>1, <1>2, <2>1 DEF PublishOrder, RunIsWhole, CaughtUp
  <2>2. CASE Begin(r)
    <3>1. /\ run' = Len(accepted) + 1 /\ accepted' = Append(accepted, Params(r))
      BY <2>2 DEF Begin
    <3>2. Len(accepted) \in Nat /\ Len(accepted') = Len(accepted) + 1
      BY <3>1 DEF RunInv, RunTypeOK
    <3>3. Len(accepted) + 1 \in RunId /\ rc[Len(accepted) + 1] = "none"
      BY <2>2, <3>2, RoomForOne DEF RunInv, RunShape
    <3>4. PublishOrder'
      BY <1>1, <1>2, <3>1, <3>2 DEF PublishOrder, TabTypeOK
    <3>5. RunIsWhole'
      BY <1>2, <3>1, <3>3 DEF RunIsWhole
    <3> QED  BY <3>4, <3>5
  <2> QED  BY <2>1, <2>2 DEF PostArrives, Decide, Arrive, Refuse, RunStateVars, childVars
<1>6. TabTypeOK' /\ RevealIsDue'
  <2>1. CASE due' = due /\ stale' = stale
    <3>1. TabTypeOK'
      BY <1>1, <1>2, <2>1 DEF TabTypeOK
    <3>2. ~(initiated /\ due # NoRun /\ ~stale)
      BY <1>1, <1>2 DEF RevealIsDue, Decided
    <3> QED  BY <1>2, <2>1, <3>1, <3>2 DEF RevealIsDue
  <2>2. CASE Begin(r) /\ r = mine /\ due' = run' /\ stale' \in BOOLEAN
             /\ (~stale' => /\ "DONE" \notin replies /\ \A k \in LoadId : ~loads[k].done
                            /\ \A q \in sent \ {r} : at'[q] \in {"answered", "refused"}
                                                      \/ at[q] \in {"answered", "refused"})
    <3>1. run' \in Nat
      BY <2>2, RoomForOne, Numbered DEF Begin
    <3>2. TabTypeOK'
      BY <1>1, <1>2, <2>2, <3>1 DEF TabTypeOK
    <3>3. at'[r] = "answered"
      BY <2>2 DEF Begin, Goes, RunInv, RunTypeOK
    <3>4. ~stale' => \A q \in Reqs : q <= mine => at'[q] \in {"answered", "refused"}
      BY <1>1, <1>2, <2>2, <3>3 DEF RequestsKnown, Decided
    <3>5. RevealIsDue'
      BY <1>2, <2>2, <3>4 DEF RevealIsDue, Decided
    <3> QED  BY <3>2, <3>5
  <2>3. CASE PostArrives(r)
    BY <2>1, <2>3 DEF PostArrives, tabVars, askVars
  <2>4. CASE Decide(r)
    <3>1. CASE r = mine /\ at'[r] = "answered" /\ r \in sent
      <4>1. Begin(r)
        BY <2>4, <3>1 DEF Decide, Refuse, Goes, RunInv, RunTypeOK
      <4>2. /\ due' = run'
            /\ stale' = ( \/ "DONE" \in replies
                          \/ \E k \in LoadId : loads[k].done
                          \/ \E q \in sent \ {r} : at[q] \notin {"answered", "refused"} )
        BY <2>4, <3>1 DEF Decide
      <4>3. /\ stale' \in BOOLEAN
            /\ ~stale' => /\ "DONE" \notin replies /\ \A k \in LoadId : ~loads[k].done
                          /\ \A q \in sent \ {r} : at[q] \in {"answered", "refused"}
        BY <4>2
      <4> QED  BY <2>2, <3>1, <4>1, <4>2, <4>3
    <3>2. CASE ~(r = mine /\ at'[r] = "answered" /\ r \in sent)
      BY <2>1, <2>4, <3>2 DEF Decide, askVars
    <3> QED  BY <3>1, <3>2
  <2> QED  BY <2>3, <2>4
<1> QED  BY <1>4, <1>5, <1>6 DEF DashInv

\* The run at work publishes in order, and has published everything when it succeeds.
LEMMA RunKeeps ==
  ASSUME RunInv, DashInv, NEW i \in RunId, RunStep(i)
  PROVE  DashInv'
<1>1. TabTypeOK /\ RequestsKnown /\ PublishOrder /\ RunIsWhole /\ RevealIsDue
  BY DEF DashInv
<1>2. /\ UNCHANGED <<at, crashes, accepted, run, tabVars>>
  BY DEF RunStep, Work, Publish, Ends, Spawn, SpawnFails, Finish, FinishWith, OrchestratorEnds,
         reqVars, RunStateVars, runVars
<1>3. orch \subseteq {run}
  BY <1>1, OnlyRun DEF RequestsKnown
<1>4. i = run /\ i \in Nat /\ i # NoRun /\ st \in Busy
  <2>1. \A j \in RunId : worker[j] # "none" => j = run /\ st \in Busy
    BY DEF RunInv, RunShape, StatusIsOfOneRun
  <2>2. st \notin Busy => run \notin orch
    BY DEF RunInv, RunShape
  <2>3. worker[i] # "none" \/ i \in orch
    BY DEF RunStep, Work, Publish, Ends, Spawn, SpawnFails, Finish, OrchestratorEnds
  <2>4. i \in Nat /\ i # NoRun
    BY Numbered DEF RunId, NoRun
  <2> QED  BY <1>3, <2>1, <2>2, <2>3, <2>4
<1>5. RequestsKnown'
  BY <1>1, <1>2 DEF RequestsKnown, Decided, tabVars, postVars
<1>6. RevealIsDue'
  <2>1. UNCHANGED <<initiated, due, stale, mine, replies, loads, shown>>
    BY <1>2 DEF tabVars, refVars, statusVars, dataVars, postVars, askVars
  <2>2. initiated /\ due # NoRun /\ ~stale => "DONE" \notin replies /\ \A k \in LoadId : ~loads[k].done
    BY <1>1, <1>4 DEF RevealIsDue, Busy
  <2> QED  BY <1>1, <1>2, <2>1, <2>2 DEF RevealIsDue, Decided
<1>7. TabTypeOK' /\ PublishOrder' /\ RunIsWhole'
  <2>1. UNCHANGED <<initiated, stale, loads, shown, mine, sent, due>>
    BY <1>2 DEF tabVars, refVars, statusVars, dataVars, postVars, askVars
  <2>4. run' = run /\ loads' = loads
    BY <1>2, <2>1
  <2>2. CASE live' = live
    <3>1. TabTypeOK' /\ PublishOrder'
      BY <1>1, <1>2, <2>1, <2>2 DEF TabTypeOK, PublishOrder
    <3>2. CASE rc' = rc
      <4>1. CASE rc[run] = "ok"
        <5>1. run \notin orch /\ worker[run] # "spawn"
          BY <1>1, <1>4, <4>1 DEF RunIsWhole
        <5>2. Finish(i)
          BY <1>4, <2>2, <5>1 DEF RunStep, Work, Spawn, SpawnFails, Publish, Ends, OrchestratorEnds
        <5>3. orch' = orch /\ worker'[run] = "none"
          BY <1>4, <5>2 DEF Finish, FinishWith, RunInv, RunTypeOK
        <5>4. /\ live = [data |-> run, manifest |-> run, late |-> run]
              /\ \A k \in LoadId : loads[k].data \in {Unread, run}
          BY <1>1, <1>4, <4>1 DEF RunIsWhole, CaughtUp
        <5> QED  BY <2>2, <2>4, <3>1, <5>1, <5>3, <5>4 DEF RunIsWhole, CaughtUp
      <4>2. CASE rc[run] # "ok"
        BY <2>4, <3>1, <3>2, <4>2 DEF RunIsWhole
      <4> QED  BY <4>1, <4>2
    <3>3. CASE Ends(i)
      <4>1. i \in orch /\ orch' = orch \ {i} /\ worker' = worker /\ rc' \in {[rc EXCEPT ![i] = "ok"], [rc EXCEPT ![i] = "fail"]}
        BY <3>3 DEF Ends, OrchestratorEnds
      <4>2. worker[i] # "spawn"
        BY <4>1 DEF RunInv, RunShape
      <4>3. CASE rc' = [rc EXCEPT ![i] = "fail"]
        <5>1. rc'[run] = "fail"
          BY <1>4, <4>3 DEF RunInv, RunTypeOK
        <5> QED  BY <2>4, <3>1, <5>1 DEF RunIsWhole
      <4>4. CASE rc' # [rc EXCEPT ![i] = "fail"]
        <5>1. live.late = i /\ CaughtUp(i)
          BY <3>3, <4>4 DEF Ends, OrchestratorEnds
        <5>2. live = [data |-> i, manifest |-> i, late |-> i]
          BY <1>1, <1>4, <5>1 DEF PublishOrder, TabTypeOK
        <5>3. run \notin orch' /\ worker'[run] # "spawn"
          BY <1>4, <4>1, <4>2
        <5>4. \A k \in LoadId : loads'[k].data \in {Unread, run}
          BY <1>4, <2>4, <5>1 DEF CaughtUp
        <5> QED  BY <1>4, <2>2, <2>4, <3>1, <5>2, <5>3, <5>4 DEF RunIsWhole, CaughtUp
      <4> QED  BY <3>1, <4>3, <4>4
    <3>4. rc' = rc \/ Ends(i)
      BY DEF RunStep, Work, Spawn, SpawnFails, Finish, Publish, reqVars, runVars
    <3> QED  BY <3>1, <3>2, <3>3, <3>4
  <2>3. CASE Publish(i)
    <3>1. /\ i \in orch /\ UNCHANGED <<rc, orch, worker>>
          /\ \/ live' = [live EXCEPT !.data = i]
             \/ live.data = i /\ live' = [live EXCEPT !.manifest = i]
             \/ live.manifest = i /\ live' = [live EXCEPT !.late = i]
      BY <2>3 DEF Publish, runVars
    <3>2. live' \in [data : Nat, manifest : Nat, late : Nat]
      BY <1>1, <1>4, <3>1 DEF TabTypeOK
    <3>3. TabTypeOK'
      BY <1>1, <2>1, <3>2 DEF TabTypeOK
    <3>4. live'.late <= live'.manifest /\ live'.manifest <= live'.data /\ live'.data <= Len(accepted)
      BY <1>1, <1>4, <3>1 DEF PublishOrder, TabTypeOK
    <3>5. PublishOrder'
      BY <1>1, <1>2, <3>4 DEF PublishOrder
    <3>6. rc[run] # "ok"
      BY <1>1, <1>4, <3>1 DEF RunIsWhole
    <3> QED  BY <1>2, <3>1, <3>3, <3>5, <3>6 DEF RunIsWhole
  <2> QED  BY <2>2, <2>3 DEF RunStep, Work, Ends
<1> QED  BY <1>5, <1>6, <1>7 DEF DashInv

LEMMA DashStep == RunInv /\ DashInv /\ [DashNext]_dashVars => (RunInv /\ DashInv)'
<1> SUFFICES ASSUME RunInv, DashInv, DashNext \/ UNCHANGED dashVars PROVE (RunInv /\ DashInv)'
  OBVIOUS
<1>1. RunInv'
  <2>1. RunNext \/ UNCHANGED runVars
    BY ServerSteps DEF dashVars
  <2> QED  BY <2>1, RunInvStep
<1>2. CASE UNCHANGED dashVars
  <2>1. UNCHANGED <<runVars, tabVars, live>>
    BY <1>2 DEF dashVars
  <2>2. TabTypeOK'
    BY <2>1 DEF DashInv, TabTypeOK, tabVars, refVars, dataVars, postVars, askVars
  <2> QED  BY <1>1, <2>1, <2>2, TabKeeps DEF tabVars, refVars, statusVars, dataVars, postVars
<1>3. CASE DashNext
  BY <1>1, <1>3, TabStepKeeps, ClickKeeps, AnswerKeeps, RequestKeeps, RunKeeps DEF DashNext
<1> QED  BY <1>2, <1>3

\* However many clicks, loads, polls and reloads there are and in whatever order their
\* answers come, an analysis that is revealed is that of the run that was clicked,
\* with everything that run published.
THEOREM RevealsAreFresh == DashSpec => RevealIsFresh
<1>1. ASSUME RunInv, DashInv, DashNext,
             Revealing, due # NoRun, ~stale
      PROVE  shown'.data = due /\ shown'.late = due
  <2>1. PICK k \in LoadId :
          /\ initiated /\ loads[k].stage = "second" /\ loads[k].done
          /\ loads'[k] = NoLoad /\ timers'
    BY <1>1 DEF Revealing
  <2>2. loads'[k] # loads[k]
    BY <2>1 DEF NoLoad
  <2>3. PICK j \in LoadId : ShowLate(j)
    <3>1. ASSUME NEW d, StartLoad(d) PROVE loads'[k] = loads[k]
      BY <2>1, <3>1 DEF StartLoad, NoLoad, TabTypeOK, DashInv
    <3>2. ASSUME NEW j \in LoadId, ReadData(j) \/ ShowData(j) PROVE FALSE
      <4>1. PICK l : loads' = [loads EXCEPT ![j] = l]
        BY <3>2 DEF ReadData, ShowData
      <4>2. j = k
        BY <1>1, <2>2, <4>1 DEF DashInv, TabTypeOK
      <4>3. loads[k].stage = "first"
        BY <3>2, <4>2 DEF ReadData, ShowData
      <4> QED  BY <2>1, <4>3
    <3>3. ~Reload
      BY <2>1 DEF Reload
    <3>4. ~(Ask \/ Click \/ Revealed \/ AskAgain)
      BY <2>2 DEF Ask, Click, Revealed, AskAgain, dashVars, tabVars, dataVars
    <3>5. ASSUME NEW s, Answer(s) PROVE FALSE
      BY <2>2, <3>1, <3>5 DEF Answer
    <3>6. ~PollManifest
      BY <2>2, <3>1 DEF PollManifest
    <3>7. ASSUME NEW r \in Reqs, Accepted(r) \/ Failed(r) \/ PostArrives(r) \/ Decide(r) PROVE FALSE
      BY <2>2, <3>7 DEF Accepted, Failed, PostArrives, Decide, tabVars, dataVars
    <3>8. ASSUME NEW i \in RunId, RunStep(i) PROVE FALSE
      BY <2>2, <3>8 DEF RunStep, Work, Publish, Ends, tabVars, dataVars
    <3> QED  BY <1>1, <3>2, <3>3, <3>4, <3>5, <3>6, <3>7, <3>8, Zenon
             DEF DashNext, PollStep, TabStep, LoadStep
  <2>4. shown' = [shown EXCEPT !.late = live.late] /\ shown \in [data : Nat, late : Nat]
    BY <1>1, <2>3 DEF ShowLate, DashInv, TabTypeOK
  <2>5. due = run /\ st = "DONE" /\ shown.data = due
    BY <1>1, <2>1 DEF DashInv, RevealIsDue
  <2>6. live.late = run
    BY <1>1, <2>5, DoneIsWhole
  <2> QED  BY <2>4, <2>5, <2>6
<1>2. RunInv /\ DashInv /\ [DashNext]_dashVars
        => [Revealing /\ due # NoRun /\ ~stale => shown'.data = due /\ shown'.late = due]_dashVars
  BY <1>1
<1>3. DashInit => RunInv /\ DashInv
  BY RunInitInv, DashInitInv DEF DashInit
<1> QED  BY <1>2, <1>3, DashStep, PTL DEF DashSpec, RevealIsFresh
=============================================================================
