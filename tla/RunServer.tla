------------------------------ MODULE RunServer ------------------------------
(***************************************************************************)
(* scripts/run_server.py: the threaded HTTP server behind the dashboard's  *)
(* RUN button.  Handler threads answer POST /api/run; an accepted request  *)
(* starts a worker thread, which runs orchestrator.py as a child process   *)
(* and feeds its output to the one RunState object.  A request for a       *)
(* random family first takes a seed from a counter kept in a file.         *)
(*                                                                         *)
(* A step is a critical section of RunState.lock, one access to the seed   *)
(* file, or a step of the child process.  Mutants are as in XvProc.        *)
(***************************************************************************)
EXTENDS Naturals, FiniteSets, Sequences

CONSTANTS
  Reqs,         \* the POST requests that ever arrive
  Families,     \* RANDOM_FAMILIES
  Profile,      \* the other kind of body: a curated profile, with its own seed
  Empty,        \* the seed file with nothing in it
  Overlap,      \* how many requests are handled at the same time
  MaxCrashes,   \* how often the server is killed and started again
  Undecodable   \* whether the output of the child may fail to decode

ASSUME ReqsAssumption == IsFiniteSet(Reqs)
ASSUME FamiliesAssumption == Profile \notin Families
ASSUME EmptyAssumption == Empty \notin [Families -> Nat]
ASSUME OverlapAssumption == Overlap \in Nat /\ Overlap >= 1
ASSUME CrashesAssumption == MaxCrashes \in Nat
ASSUME UndecodableAssumption == Undecodable \in BOOLEAN

Kind == Families \cup {Profile}
Busy == {"RUNNING", "PARSING", "EVALUATING"}
Ended == {"DONE", "ERROR"}
RunId == 1..Cardinality(Reqs)     \* run_id: the n-th request accepted
NoRun == 0
Counters == [Families -> Nat]

\* Where a handler thread is.
HandlerPoint == {"new", "read", "truncate", "write", "begin", "answered", "refused", "lost"}
Handling == {"read", "truncate", "write", "begin"}

VARIABLES
  at, kind, base,      \* of each request: its handler's place, its body, the counters it read
  file,                \* random_seq.json: the counters, or Empty between open and write
  st, run, logs,       \* RunState: state, run_id, and the runs whose lines are in log_tail
  worker,              \* the worker thread of each run
  orch, rc,            \* the orchestrator processes alive, and how the others ended
  accepted,            \* the parameters of the runs accepted, in order
  crashes

runVars == <<at, kind, base, file, st, run, logs, worker, orch, rc, accepted, crashes>>

reqVars == <<at, kind, base, file>>
RunStateVars == <<st, run, logs>>
childVars == <<worker, orch, rc>>

RunInit ==
  /\ at = [r \in Reqs |-> "new"]
  /\ kind = [r \in Reqs |-> Profile]
  /\ base = [r \in Reqs |-> [f \in Families |-> 0]]
  /\ file = [f \in Families |-> 0]
  /\ st = "IDLE" /\ run = NoRun /\ logs = {}
  /\ worker = [i \in RunId |-> "none"]
  /\ orch = {} /\ rc = [i \in RunId |-> "none"]
  /\ accepted = <<>>
  /\ crashes = 0

-----------------------------------------------------------------------------
(* A handler thread: do_POST *)

\* The requests answered with 202.
Answered == {r \in Reqs : at[r] = "answered"}

Goes(r, where) == at' = [at EXCEPT ![r] = where]

\* The body is valid; a family takes its seed before the run is begun.
Arrive(r, k) ==
  /\ at[r] = "new" /\ Cardinality({q \in Reqs : at[q] \in Handling}) < Overlap
  /\ Goes(r, IF k = Profile THEN "begin" ELSE "read")
  /\ kind' = [kind EXCEPT ![r] = k]
  /\ UNCHANGED <<base, file, RunStateVars, childVars, accepted, crashes>>

\* 400: nothing was touched.
Reject(r) ==
  /\ at[r] = "new"
  /\ Goes(r, "refused")
  /\ UNCHANGED <<kind, base, file, RunStateVars, childVars, accepted, crashes>>

\* A file that is empty does not parse, and counts as no counters at all.
Parsed(c) == IF c = Empty THEN [f \in Families |-> 0] ELSE c

ReadSeed(r) ==
  /\ at[r] = "read"
  /\ base' = [base EXCEPT ![r] = Parsed(file)]
  /\ Goes(r, "truncate")
  /\ UNCHANGED <<kind, file, RunStateVars, childVars, accepted, crashes>>

\* write_text opens the file, which empties it, ...
TruncateSeed(r) ==
  /\ at[r] = "truncate"
  /\ file' = Empty
  /\ Goes(r, "write")
  /\ UNCHANGED <<kind, base, RunStateVars, childVars, accepted, crashes>>

\* ... and then writes it.
WriteSeed(r) ==
  /\ at[r] = "write"
  /\ file' = [base[r] EXCEPT ![kind[r]] = @ + 1]
  /\ Goes(r, "begin")
  /\ UNCHANGED <<kind, base, RunStateVars, childVars, accepted, crashes>>

\* The seed, counted from SEED_BASE, and the run_index that go with request r.
Params(r) ==
  IF kind[r] = Profile THEN [kind |-> Profile, seed |-> 0, index |-> 0]
  ELSE [kind |-> kind[r], seed |-> base[r][kind[r]], index |-> base[r][kind[r]] + 1]

\* Mutant: begin() takes EVALUATING for the end of a run.
FreeToo == {"IDLE", "DONE", "ERROR", "EVALUATING"}

\* The states in which begin() accepts.
Free == {"IDLE", "DONE", "ERROR"}

\* RunState.begin, and the worker thread it is for.
Begin(r) ==
  /\ at[r] = "begin" /\ st \in Free
  /\ LET i == Len(accepted) + 1 IN
       /\ run' = i
       /\ worker' = [worker EXCEPT ![i] = "spawn"]
  /\ st' = "RUNNING" /\ logs' = {}
  /\ accepted' = Append(accepted, Params(r))
  /\ Goes(r, "answered")
  /\ UNCHANGED <<kind, base, file, orch, rc, crashes>>

\* 409
Refuse(r) ==
  /\ at[r] = "begin" /\ st \notin Free
  /\ Goes(r, "refused")
  /\ UNCHANGED <<kind, base, file, RunStateVars, childVars, accepted, crashes>>

-----------------------------------------------------------------------------
(* The worker thread of run i, and its orchestrator *)

\* Mutant: only success is reported.
FinishIfOk(i, ok) ==
  /\ st' = IF ok THEN "DONE" ELSE st
  /\ worker' = [worker EXCEPT ![i] = "none"]
  /\ UNCHANGED run

\* RunState.finish
FinishWith(i, ok) ==
  /\ st' = IF ok THEN "DONE" ELSE "ERROR"
  /\ worker' = [worker EXCEPT ![i] = "none"]
  /\ UNCHANGED run

\* The command line is logged whether or not the process can be started.
Spawn(i) ==
  /\ worker[i] = "spawn"
  /\ worker' = [worker EXCEPT ![i] = "read"]
  /\ orch' = orch \cup {i}
  /\ logs' = logs \cup {i}
  /\ UNCHANGED <<reqVars, st, run, rc, accepted, crashes>>

SpawnFails(i) ==
  /\ worker[i] = "spawn"
  /\ logs' = logs \cup {i}
  /\ FinishWith(i, FALSE)
  /\ UNCHANGED <<reqVars, orch, rc, accepted, crashes>>

\* A line of output, which may name a stage: append_log, then set_stage.  Nobody
\* else writes RunState between the two.
Line(i, stage) ==
  /\ worker[i] = "read" /\ i \in orch
  /\ logs' = logs \cup {i}
  /\ st' = IF stage = "none" THEN st ELSE stage
  /\ UNCHANGED <<reqVars, run, childVars, accepted, crashes>>

\* A line that does not decode (text=True, strict) ends the thread with an exception
\* nobody catches.
LineFails(i) ==
  /\ Undecodable /\ worker[i] = "read" /\ i \in orch
  /\ worker' = [worker EXCEPT ![i] = "dead"]
  /\ UNCHANGED <<reqVars, RunStateVars, orch, rc, accepted, crashes>>

OrchestratorEnds(i, how) ==
  /\ i \in orch
  /\ orch' = orch \ {i}
  /\ rc' = [rc EXCEPT ![i] = how]
  /\ UNCHANGED <<reqVars, RunStateVars, worker, accepted, crashes>>

\* End of output, then proc.wait().
Finish(i) ==
  /\ worker[i] = "read" /\ i \notin orch
  /\ FinishWith(i, rc[i] = "ok")
  /\ UNCHANGED <<reqVars, logs, orch, rc, accepted, crashes>>

\* The server process is killed and started again.  The threads and RunState are
\* gone; the orchestrator is killed with it (Ctrl-C in a terminal) or lives on.
Crash ==
  /\ crashes < MaxCrashes /\ crashes' = crashes + 1
  /\ at' = [r \in Reqs |-> IF at[r] \in Handling THEN "lost" ELSE at[r]]
  /\ st' = "IDLE" /\ run' = NoRun /\ logs' = {}
  /\ worker' = [i \in RunId |-> "none"]
  /\ \/ UNCHANGED <<orch, rc>>
     \/ orch' = {} /\ rc' = [i \in RunId |-> IF i \in orch THEN "fail" ELSE rc[i]]
  /\ UNCHANGED <<kind, base, file, accepted>>

\* Every request answered and every run over.
Quiet ==
  /\ \A r \in Reqs : at[r] \in {"answered", "refused", "lost"}
  /\ orch = {} /\ \A i \in RunId : worker[i] \in {"none", "dead"}
  /\ UNCHANGED runVars

-----------------------------------------------------------------------------
RunNext ==
  \/ \E r \in Reqs :
       \/ \E k \in Kind : Arrive(r, k)
       \/ Reject(r) \/ ReadSeed(r) \/ TruncateSeed(r) \/ WriteSeed(r)
       \/ Begin(r) \/ Refuse(r)
  \/ \E i \in RunId :
       \/ Spawn(i) \/ SpawnFails(i) \/ LineFails(i) \/ Finish(i)
       \/ \E stage \in {"none", "PARSING", "EVALUATING"} : Line(i, stage)
       \/ \E how \in {"ok", "fail"} : OrchestratorEnds(i, how)
  \/ Crash
  \/ Quiet

RunSpec == RunInit /\ [][RunNext]_runVars

\* The worker is a thread of its own.  The orchestrator ends: it stops QEMU after
\* QEMU_RUN_TIMEOUT, the model is asked with a timeout, and the builds and tools it
\* calls without one are batch programs over finite files.
RunFairness ==
  \A i \in RunId :
    /\ WF_runVars(Spawn(i) \/ SpawnFails(i)) /\ WF_runVars(Finish(i))
    /\ WF_runVars(\E how \in {"ok", "fail"} : OrchestratorEnds(i, how))

FairRunSpec == RunSpec /\ RunFairness

-----------------------------------------------------------------------------
(* Properties *)

\* Every variable stays in its type.
RunTypeOK ==
  /\ at \in [Reqs -> HandlerPoint]
  /\ kind \in [Reqs -> Kind]
  /\ base \in [Reqs -> Counters]
  /\ file \in Counters \cup {Empty}
  /\ st \in {"IDLE"} \cup Busy \cup Ended
  /\ run \in RunId \cup {NoRun} /\ logs \subseteq RunId
  /\ worker \in [RunId -> {"none", "spawn", "read", "dead"}]
  /\ orch \subseteq RunId /\ rc \in [RunId -> {"none", "ok", "fail"}]
  /\ accepted \in Seq([kind : Kind, seed : Nat, index : Nat])
  /\ crashes \in 0..MaxCrashes

\* Single-run-at-a-time (run_server.py:96): while the server lives two orchestrators
\* never share the repository's output directories, and the state says that one
\* is at work.  A crash leaves at most one behind, the one it was running.
OneOrchestrator ==
  /\ Cardinality(orch) <= crashes + 1
  /\ crashes = 0 /\ orch # {} => orch = {run} /\ st \in Busy

\* What GET /api/status shows is of one run: the worker that is alive is that of
\* run_id, DONE and ERROR tell how the orchestrator of run_id ended, and log_tail
\* holds no line of an earlier run.
StatusIsOfOneRun ==
  /\ \A i \in RunId : worker[i] # "none" => i = run
  /\ st \in Ended => (st = "DONE" <=> rc[run] = "ok")
  /\ logs \subseteq {run}

\* What the two invariants above need beside each other: runs are numbered as they
\* are accepted, a worker is alive only while its run is under way, an orchestrator
\* ends once, and only the crash of the server leaves one without its worker.
RunShape ==
  /\ Len(accepted) = Cardinality(Answered)
  /\ run <= Len(accepted) /\ (run = NoRun <=> st = "IDLE")
  /\ \A i \in RunId : i > Len(accepted) =>
       worker[i] = "none" /\ i \notin orch /\ rc[i] = "none"
  /\ \A i \in RunId : worker[i] # "none" => st \in Busy
  /\ \A i \in RunId : worker[i] = "spawn" => i \notin orch /\ rc[i] = "none"
  /\ st \notin Busy => run \notin orch
  /\ Cardinality(orch \ {run}) <= crashes

RunInv == RunTypeOK /\ StatusIsOfOneRun /\ RunShape

\* A run that has begun comes to DONE or ERROR, so that RUN works again, unless its
\* worker dies on a line it cannot decode: nothing ends such a run.
Attended == st \in Busy /\ worker[run] # "dead"
RunEnds == Attended ~> ~Attended

\* What RunServer promises its clients: one job at a time, see JobSlot.  The slot
\* is held from begin() until finish() or the loss of the server.
Slot ==
  INSTANCE JobSlot WITH
    Jobs <- RunId,
    holder <- IF st \in Busy THEN run ELSE NoRun,
    served <- {i \in RunId : i <= Len(accepted) /\ ~(i = run /\ st \in Busy)}

\* A client that knows only begin(), its 409 and the final state sees a job slot.
ImplementsJobSlot == Slot!SlotSpec
=============================================================================
