----------------------------- MODULE Dashboard -----------------------------
(***************************************************************************)
(* One tab of the dashboard (App.jsx, useRun.js) and the run server behind *)
(* it.  The RUN button posts a request; the tab polls the server's status  *)
(* and the manifest; a DONE it has not seen before makes it load the       *)
(* published files and, after a click, reveal the analysis.                *)
(*                                                                         *)
(* A step is one event of the browser's loop (a click, a timer, an answer) *)
(* with the effects React runs after it, the server reading what it is     *)
(* asked for, or a step of RunServer.  Answers come late.                  *)
(* To the tab RUNNING, PARSING and EVALUATING are alike ("busy"), so the   *)
(* stages of a run are left out.  Mutants are as in XvProc.                *)
(***************************************************************************)
EXTENDS RunServer

CONSTANTS
  Unread,       \* a file a load has not read yet
  MaxPolls,     \* status polls whose answers are under way
  MaxLoads,     \* loads under way
  MaxReloads    \* how often the user reloads the page

ASSUME TabAssumption ==
  /\ Reqs = 1..Cardinality(Reqs) /\ Families = {}
  /\ MaxPolls \in Nat \ {0} /\ MaxLoads \in Nat \ {0} /\ MaxReloads \in Nat
ASSUME UnreadAssumption == Unread \notin Nat

LoadId == 1..MaxLoads
NoReq == 0

\* demoPhase is idle, analyzing_llm or ready_to_visualize: the replay that follows
\* never leads back to idle.  A published file carries the run that wrote it.
VARIABLES
  phase, initiated, timers,   \* demoPhase, runInitiatedRef, whether reveal timers are set
  seen, last,                 \* status.state, lastStateRef
  replies,                    \* answers to status requests on their way
  loads,                      \* the loadAll calls under way
  known, shown,               \* manifestVersionRef, and the files on the page
  live,                       \* the published files: data and traces, manifest, late artifacts
  sent, mine,                 \* the POSTs not yet answered, and that of the last click
  due, stale,                 \* the run of that click; whether something older was then under way
  reloads

refVars == <<phase, initiated, timers>>
statusVars == <<seen, last, replies>>
dataVars == <<loads, known, shown>>
postVars == <<sent, mine>>
askVars == <<due, stale>>
tabVars == <<refVars, statusVars, dataVars, postVars, askVars, reloads>>
dashVars == <<runVars, tabVars, live>>

\* The status as the tab understands it.
State == IF st \in Busy THEN "busy" ELSE st

NoLoad == [stage |-> "none", done |-> FALSE, data |-> Unread]
NewLoad(done) == [NoLoad EXCEPT !.stage = "first", !.done = done]

\* Mutant: the load of a new manifest passes for that of a DONE.
StartAnyLoad(done) ==
  \E k \in LoadId :
    /\ loads[k] = NoLoad /\ \A j \in LoadId : j < k => loads[j] # NoLoad
    /\ loads' = [loads EXCEPT ![k] = NewLoad(TRUE)]

\* loadAll is called, for a DONE or not.
StartLoad(done) ==
  \E k \in LoadId :
    /\ loads[k] = NoLoad /\ \A j \in LoadId : j < k => loads[j] # NoLoad
    /\ loads' = [loads EXCEPT ![k] = NewLoad(done)]

\* A page that has just been opened: one load is under way.
Opened ==
  [k \in LoadId |-> IF k = 1 THEN NewLoad(FALSE) ELSE NoLoad]

DashInit ==
  /\ RunInit
  /\ phase = "idle" /\ initiated = FALSE /\ timers = FALSE
  /\ seen = "IDLE" /\ last = "IDLE" /\ replies = {}
  /\ loads = Opened /\ known = Unread
  /\ shown = [data |-> NoRun, late |-> NoRun]
  /\ live = [data |-> NoRun, manifest |-> NoRun, late |-> NoRun]
  /\ sent = {} /\ mine = NoReq /\ due = NoRun /\ stale = FALSE /\ reloads = 0

-----------------------------------------------------------------------------
(* Rendering *)

\* Mutant: a failed run leaves the phase as it is.
SettleRaw(ph, ini, s) == phase' = ph /\ initiated' = ini /\ seen' = s

\* The next render, and the effect after it: an ERROR on show ends the analysis,
\* whichever run it is of.
Settle(ph, ini, s) ==
  LET failed == ph = "analyzing_llm" /\ s = "ERROR" IN
  /\ phase' = IF failed THEN "idle" ELSE ph
  /\ initiated' = (ini /\ ~failed)
  /\ seen' = s

-----------------------------------------------------------------------------
(* useRun *)

\* The server reads its status for a poll.
Ask ==
  /\ {last, seen} # {State} /\ Cardinality(replies) < MaxPolls
  /\ replies' = replies \cup {State}
  /\ UNCHANGED <<runVars, refVars, seen, last, dataVars, postVars, askVars, reloads, live>>

\* A poll that finds what the tab knows already.
AskAgain == {last, seen} = {State} /\ UNCHANGED dashVars

\* Mutant: a DONE matters only to a tab that waits for one.
CompletesClick(s) == s = "DONE" /\ last # "DONE" /\ initiated

\* The answer that completes a run, as the tab sees it.
Completes(s) == s = "DONE" /\ last # "DONE"

\* The answer to a poll, in any order.
Answer(s) ==
  /\ s \in replies /\ replies' = replies \ {s}
  /\ Settle(phase, initiated, s)
  /\ last' = s
  /\ IF Completes(s) THEN StartLoad(TRUE) ELSE UNCHANGED loads
  /\ UNCHANGED <<runVars, timers, known, shown, postVars, askVars, reloads, live>>

\* RUN is pressed in IDLE, and the request leaves.
Click ==
  /\ phase = "idle" /\ mine + 1 \in Reqs
  /\ mine' = mine + 1 /\ sent' = sent \cup {mine'}
  /\ Settle("analyzing_llm", TRUE, seen)
  /\ due' = NoRun /\ stale' = FALSE
  /\ UNCHANGED <<runVars, timers, last, replies, dataVars, reloads, live>>

\* 202: the tab assumes RUNNING.
Accepted(r) ==
  /\ r \in sent /\ at[r] = "answered" /\ sent' = sent \ {r}
  /\ Settle(phase, initiated, "busy")
  /\ UNCHANGED <<runVars, timers, last, replies, dataVars, mine, askVars, reloads, live>>

\* 409: the error is shown, and nothing else happens.
Failed(r) ==
  /\ r \in sent /\ at[r] = "refused" /\ sent' = sent \ {r}
  /\ UNCHANGED <<runVars, refVars, statusVars, dataVars, mine, askVars, reloads, live>>

-----------------------------------------------------------------------------
(* Loading and revealing *)

\* The requests of the first part of a load are made side by side; the data may be
\* read before the manifest is.
ReadData(k) ==
  /\ loads[k].stage = "first" /\ loads[k].data = Unread
  /\ loads' = [loads EXCEPT ![k].data = live.data]
  /\ UNCHANGED <<runVars, refVars, statusVars, known, shown, postVars, askVars, reloads, live>>

\* With the manifest, and the data if not yet read, the first part goes on the page.
ShowData(k) ==
  /\ loads[k].stage = "first"
  /\ LET data == IF loads[k].data = Unread THEN live.data ELSE loads[k].data IN
       shown' = [shown EXCEPT !.data = data]
  /\ known' = live.manifest
  /\ loads' = [loads EXCEPT ![k].stage = "second", ![k].data = Unread]
  /\ UNCHANGED <<runVars, refVars, statusVars, postVars, askVars, reloads, live>>

\* The load of a DONE ends in the reveal, if a click waits for it.  startReveal
\* clears the timers of an earlier reveal and sets its own.
Reveal(k) == IF loads[k].done /\ initiated
  THEN Settle("analyzing_llm", FALSE, seen) /\ timers' = TRUE
  ELSE UNCHANGED <<refVars, seen>>

\* The second part: the explanation and what the correction loop left.
ShowLate(k) ==
  /\ loads[k].stage = "second"
  /\ shown' = [shown EXCEPT !.late = live.late]
  /\ loads' = [loads EXCEPT ![k] = NoLoad]
  /\ Reveal(k)
  /\ UNCHANGED <<runVars, last, replies, known, postVars, askVars, reloads, live>>

\* The last reveal timer, whatever the phase.
Revealed ==
  /\ timers /\ timers' = FALSE /\ phase' = "ready_to_visualize"
  /\ UNCHANGED <<runVars, initiated, statusVars, dataVars, postVars, askVars, reloads, live>>

\* A manifest that is not the known one is remembered, and everything is loaded.
PollManifest ==
  /\ live.manifest # known /\ known' = live.manifest
  /\ StartLoad(FALSE)
  /\ UNCHANGED <<runVars, refVars, statusVars, shown, postVars, askVars, reloads, live>>

\* The user reloads the page between two clicks, when the first one is answered.
\* Other answers on their way find no one.
Reload ==
  /\ mine # NoReq /\ mine + 1 \in Reqs /\ sent = {}
  /\ reloads < MaxReloads /\ reloads' = reloads + 1
  /\ phase' = "idle" /\ initiated' = FALSE /\ timers' = FALSE
  /\ seen' = "IDLE" /\ last' = "IDLE" /\ replies' = {}
  /\ loads' = Opened /\ known' = Unread
  /\ shown' = [data |-> NoRun, late |-> NoRun]
  /\ due' = NoRun /\ stale' = FALSE
  /\ UNCHANGED <<runVars, postVars, live>>

-----------------------------------------------------------------------------
(* The server and the files it publishes *)

PostArrives(r) ==
  /\ r \in 1..mine /\ Arrive(r, Profile)
  /\ UNCHANGED <<tabVars, live>>

\* begin() for request r; for the history, whether a DONE of an earlier run is then
\* on its way to a reveal, or an earlier request has not been decided.
Decide(r) ==
  /\ Begin(r) \/ Refuse(r)
  /\ IF r = mine /\ at'[r] = "answered" /\ r \in sent
     THEN /\ due' = run'
          /\ stale' = ( \/ "DONE" \in replies
                        \/ \E k \in LoadId : loads[k].done
                        \/ \E q \in sent \ {r} : at[q] \notin {"answered", "refused"} )
     ELSE UNCHANGED askVars
  /\ UNCHANGED <<refVars, statusVars, dataVars, postVars, reloads, live>>

\* The files move much faster than the run: a correction run or a call of the model
\* lies between two publications, and a fetch from localhost does not last so long.
CaughtUp(i) == \A k \in LoadId : loads[k].data \in {Unread, i}

\* export_to_live_data: traces, metrics and decisions first and the manifest last;
\* then what the correction loop and the explainer write.
Publish(i) ==
  /\ i \in orch
  /\ \/ live.data # i /\ live' = [live EXCEPT !.data = i]
     \/ live.data = i /\ live.manifest # i /\ live' = [live EXCEPT !.manifest = i]
     \/ live.manifest = i /\ live.late # i /\ CaughtUp(i) /\ live' = [live EXCEPT !.late = i]
  /\ UNCHANGED <<runVars, tabVars>>

\* A run of xv6 under QEMU outlasts a few polls (750 ms), so the tab that polls has
\* seen it run before it succeeds; a failure can come at once.
Observed == last = "busy" /\ replies \subseteq {"busy"}

Ends(i) ==
  /\ \/ OrchestratorEnds(i, "ok") /\ live.late = i /\ CaughtUp(i) /\ Observed
     \/ OrchestratorEnds(i, "fail") /\ live.data # i
     \/ OrchestratorEnds(i, "fail") /\ live.manifest = i /\ CaughtUp(i)
  /\ UNCHANGED <<tabVars, live>>

Work(i) ==
  /\ Spawn(i) \/ SpawnFails(i) \/ Finish(i)
  /\ UNCHANGED <<tabVars, live>>

-----------------------------------------------------------------------------
LoadStep(k) == ReadData(k) \/ ShowData(k) \/ ShowLate(k)
RunStep(i) == Work(i) \/ Publish(i) \/ Ends(i)

PollStep == Ask \/ \E s \in replies : Answer(s)
TabStep == Revealed \/ PollManifest \/ \E k \in LoadId : LoadStep(k)

DashNext ==
  \/ PollStep \/ AskAgain \/ TabStep \/ Click \/ Reload
  \/ \E r \in Reqs : Accepted(r) \/ Failed(r) \/ PostArrives(r) \/ Decide(r)
  \/ \E i \in RunId : RunStep(i)

DashSpec == DashInit /\ [][DashNext]_dashVars

\* The polls go on, what the tab has begun comes to its end, and so does a run.
DashFairness ==
  /\ WF_dashVars(PollStep) /\ WF_dashVars(TabStep)
  /\ WF_dashVars(\E i \in RunId : RunStep(i))

FairDashSpec == DashSpec /\ DashFairness

-----------------------------------------------------------------------------
(* Properties *)

\* The load of a DONE comes to its end while a click waits.
Revealing ==
  /\ initiated /\ timers'
  /\ \E k \in LoadId : loads[k].stage = "second" /\ loads[k].done /\ loads'[k] = NoLoad

\* The reveal shows the run that was clicked, with everything that run published
\* (App.jsx:384), unless, when the run was accepted, a DONE of an earlier run was on
\* its way to the tab or an earlier request was still undecided.
RevealIsFresh ==
  [][Revealing /\ due # NoRun /\ ~stale => shown'.data = due /\ shown'.late = due]_dashVars

\* What RevealIsFresh needs.  Every variable of the tab keeps its type; a request is
\* under way until it is decided; files are published in order, by one run after
\* another; a run that succeeded has published everything, and no load holds older
\* data; and while the tab awaits the run of its click, that run is the last one, and
\* a DONE under way, or a load that it began, is of that run.
TabTypeOK ==
  /\ initiated \in BOOLEAN /\ stale \in BOOLEAN
  /\ loads \in [LoadId -> [stage : {"none", "first", "second"}, done : BOOLEAN,
                           data : Nat \cup {Unread}]]
  /\ shown \in [data : Nat, late : Nat]
  /\ live \in [data : Nat, manifest : Nat, late : Nat]
  /\ mine \in Nat /\ sent \subseteq 1..mine /\ due \in Nat

Decided(r) == at[r] \in {"answered", "refused"}

RequestsKnown ==
  /\ crashes = 0
  /\ \A r \in Reqs : r > mine => at[r] = "new"
  /\ \A r \in Reqs : r <= mine /\ r \notin sent => Decided(r)

PublishOrder ==
  /\ live.late <= live.manifest /\ live.manifest <= live.data
  /\ live.data <= Len(accepted) /\ run = Len(accepted)

RunIsWhole ==
  run # NoRun /\ rc[run] = "ok" =>
    /\ run \notin orch /\ worker[run] # "spawn"
    /\ live = [data |-> run, manifest |-> run, late |-> run]
    /\ CaughtUp(run)

RevealIsDue ==
  initiated /\ due # NoRun /\ ~stale =>
    /\ due = run /\ \A r \in Reqs : r <= mine => Decided(r)
    /\ "DONE" \in replies \/ (\E k \in LoadId : loads[k].done) => st = "DONE"
    /\ \A k \in LoadId : loads[k].done /\ loads[k].stage = "second" => shown.data = due

DashInv == TabTypeOK /\ RequestsKnown /\ PublishOrder /\ RunIsWhole /\ RevealIsDue

\* A click whose run was accepted gets an answer: the reveal, or IDLE after an error.
ClickIsAnswered ==
  phase = "analyzing_llm" /\ due # NoRun ~> phase # "analyzing_llm"

\* Whatever the order of answers, the tab comes to know the last manifest, and when
\* the last run has succeeded, to show all it published.  (A run that failed after it
\* published may leave old files on the page beside the new key.)
UpToDate ==
  /\ known = live.manifest
  /\ st = "DONE" => shown.data = live.data /\ shown.late = live.late

PageCatchesUp == []<>UpToDate

\* App.jsx:409: after a run that failed the user can retry: the flag that lets the
\* reveal through is set between a click and the end of its run (App.jsx:224).
RetryIsAwaited ==
  due # NoRun /\ due = run /\ st \in Busy /\ reloads = 0 => initiated
=============================================================================
