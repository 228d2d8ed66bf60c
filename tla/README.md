# A verification of Visual Scheduler (Team Tricycle)

The repository runs CPU-scheduling experiments on a modified xv6 kernel under QEMU.
A language model recommends a policy and its parameters, a guard validates them, the
kernel runs the workload, and a dashboard shows the result. The TLA+ modules in this
directory model the parts whose correctness depends on the order of events, and the rules
of the host's Python tools that decide what is run and what is said of it. TLC checks them
on small instances; TLAPS proves the main results for every instance.

## 1. Inventory

| component | state | operations | hard behaviour | correct when | here |
|---|---|---|---|---|---|
| process table `kernel/proc.c`, `trap.c` | `proc[]`, `nextpid`, `cpus[0]` | fork, exit, wait, kill, sleep, wakeup, interrupts | critical sections interleave at every interrupt | no child, exit, kill, slot or pid is lost | modelled, proved |
| schedulers `proc.c` `sched_*`, `trap.c` | scheduler fields of `struct proc`, configuration globals, `ticks` | six policies, aging, boost, burst prediction, 9 configuration calls | settings change under a running pass | each policy's order, slice and waiting promise | modelled, proved but for starvation |
| pipes and files `pipe.c`, `file.c` | ring buffer, counters, reference counts | read, write, dup, fork, close, exit | wakeups, wrap-around, copies that fail half way | bounded FIFO, no lost wakeup, freed once | pipes modelled, proved |
| `user/schedtest.c` | workload, gate pipes, the console | fork children at their arrivals, define, release, wait | lines torn by preemption, the start against the timer | the console tells what happened | one profile modelled |
| orchestrator `scripts/orchestrator.py` | three directories of files, manifest, outcome store | twelve steps of a run; command line, capture window, comparison, correction | a step fails, or the process dies, and old files remain | what is published and learned is of this run | modelled, proved |
| guards and proposer `tools/*_guard.py`, `correction_proposer.py` | none (pure) | validate, clamp, fall back, propose | boundaries, two tables of limits | what passes is what the kernel takes | modelled, proved |
| detector, metrics, parser `tools/` | none (pure) | window, parse, rebuild, measure, judge | truncated runs, two evaluators | the numbers are what happened | modelled, proved |
| advisors `tools/*advisor.py`, store `experiments/outcome_store.py`, `retrieval_advisor.py` | outcome store, rules | analyse, ask, validate, retrieve, append, rewrite rules | a remote service; answers leak into prompts | what is learned is true, nothing leaks | partly modelled |
| run server `scripts/run_server.py` | `RunState`, seed file, worker thread, child process | POST, status, stages, finish | threads, crash, unlocked file | one run at a time, status of one run | modelled, proved |
| dashboard `App.jsx`, `useRun.js` | phase, reveal, last status | click, poll, load | responses late or out of order | reveal belongs to the click | run control modelled, reveal proved |
| log, buffers `log.c`, `bio.c`, `sleeplock.c` | header, cache, outstanding count | begin, write, end, commit, recover | crash anywhere | each operation happens or not | no |
| drivers `virtio_disk.c`, `console.c`, `uart.c` | rings | request, interrupt | shared rings | each request completes once | no |
| inodes `fs.c` | reference and link counts | get, put, link, unlink | last reference and last link together | freed once | no |

How they interact. The dashboard POSTs to the run server and polls it. The server starts
the orchestrator, which calls the analyser, the advisor and the guard, boots QEMU, types a
`schedtest` command for each algorithm, parses the console, compares the traces, publishes
files the dashboard fetches, tries a correction, and records the outcome for later runs. In
the kernel, `schedtest` configures the scheduler by system calls, forks the workload and
holds each child at a pipe until its metadata is set. Processes share the table, the pipes
and the hart; interrupts can be taken wherever no spinlock is held.

`PROJECT.json` lists every component with its status, and every hazard with its line.

## 2. The modules, and the plan

| layer | modules | what composes what |
|---|---|---|
| kernel | `XvProc` (abstract: `ProcLife`), `XvSched`, `XvSlice`, `Pipe` (abstract: `Channel`) | `XvSched` extends `XvProc`: each of its actions is one of the table's with the scheduler's part; `XvSlice` adds history variables |
| console and host rules | `Numbers`, `Console`, `Measure`, `Verdict`, `Judge`, `Guard`, `RunFlags`, `Correction`, `Advisor` | `Measure` over `Console`; `Judge` over `Measure` and `Verdict`; `RunFlags` and `Correction` over `Guard` |
| orchestrator | `Host` (one recommendation, from the answer to the verdict), `Pipeline` (several runs and their files) | each extends the rules it calls |
| server and browser | `RunServer` (abstract: `JobSlot`), `Dashboard` | `Dashboard` extends `RunServer` |
| instances | `MC*` | constants, fairness |
| proofs | `*Proofs`, eight modules | each extends the module it is about |

What is left, in the order in which it is worth doing:

1. A log with an abstract atomic disk and the buffer cache, in one composition with crashes.
   This code is xv6 as it came, and nothing the repository adds depends on more of it than
   that programs load.
2. The descriptors of the virtio disk, the input line of the console, inodes.

## 3. The process table: `XvProc`

*State.* One variable for each field of `struct proc` that the code's control depends on
(`state`, `pid`, `parent`, `chan`, `killed`), indexed by slot; `pc`, where a process is
inside the kernel; `child`, kfork's local `np`; `nextpid`; `cpu`, which is `cpus[0].proc`;
`panicked`.

*Steps.* The Makefile boots one hart, and holding a spinlock turns interrupts off, so what
lies between `acquire` and `release` is one step and the locks need no variable. kfork is
therefore three steps (`ForkAlloc`, `ForkLink`, `ForkReady`), kexit two (`ExitBegin`, which
stands for closing its files, and `ExitFinish` under `wait_lock`), and each turn of kwait's
loop one. allocproc releases each slot it passes, so it may take any slot that is free
(`ForkAlloc(p, np)`) or, when it has met none, fail. A system call that may be interrupted
between reading something and using it is `CallBegin` and `CallDone`; setbursthint() is one. A
timer interrupt may come between any two steps. Which RUNNABLE process runs is left open.

*Abstraction.* Memory, registers, files and exit statuses are left out; a failed
allocation is `ForkFail`. Waiting for a buffer, the log or the disk is `IoSleep` on a channel
of `IOChans`. `MaxPid` bounds the pids handed out; the proofs hold for every `MaxPid`.

*Abstract specification.* `ProcLife` knows pids, lives, guardians and who runs. The last
section of `XvProc` maps the table to it (`ImplementsProcLife`): no step of the kernel does
anything else to a life than a birth by the one that runs, its own death with its
reparenting, or a collection by the guardian. That every step has the running process as its
author is what catches a kwait that collects somebody else's child.

*Run `MCXvProc`* (70 thousand states): three slots, three pids, every call, and kill of 0, 2
and 3 (the free slots, and everybody but init, which a fault can mark). Three slots give init,
a parent and a child, hence orphans, zombies of a dead parent, and a full table; with three
pids a slot is used twice. Seven invariants, the refinement, and `KilledDies`: a killed
process dies, wherever the kill finds it. Without `KilledDies`, whose check is the slow one,
the run was also made with kill(1).

*Fairness* (`MCXvProc!Fairness`). Round robin is the mode the kernel boots with: every
RUNNABLE process is dispatched again and again (SF on `Dispatch`), code inside the kernel is
not preempted for ever (SF on `Progress`), timer and I/O interrupts keep coming (WF).

## 4. The schedulers: `XvSched`

Every action is an action of `XvProc` with what the code around it does to the scheduler's
fields: `sp[slot]` (priority, ctime, queue_level, ticks_in_level, wait_ticks,
predicted_burst, cur_burst_run, ready_since_tick), the globals `cfg`, `ticks`, and
sched_rr's position `rrpos` in its pass, with `intr`, whether interrupts are enabled between
its iterations. The pass goes slot by slot: it dispatches the slot it is at (`DispatchRR`) or
passes it (`RRSkip`), and interrupts come in between, so that a process which wakes up behind
the position waits for the next pass. set_burst_hint clamps its value under `sched_lock`,
releases it, and looks for the pid afterwards (`HintRead`, `HintWrite`, `HintMisses`, with the
value in `hint`). `DispatchBest` is the scan and the dispatch of the other five policies, whose
keys `Key` gives. Counters saturate at `MaxTicks`, `MaxBurst` and `MaxWait`: they are only
compared. `rtime` is statistics and left out. `BootConfigs` is the set of configurations a
behaviour may start from, so that one run covers several policies.

`XvSlice` adds history variables that count slices, rounds and overtakings independently of
the kernel's own counters, and the length of a slice as the configuration means it (`Slice`),
independently of `get_mlfq_quantum`. Three of its properties (`HelpInTime`, `FullSlice`,
`QueueMoves`) are about a configuration that stays as it
is (`Steady`): schedtest makes its configuration calls before it forks the workload
(schedtest.c:278-322) and goes back to RR when the workload has ended (schedtest.c:434).

| run | bounds | shows |
|---|---|---|
| `MCSchedSlices` (1.3 million states) | RR, MLFQ, PRIORITY, FCFS; 3 processes that block | RR overtakes nobody twice (`RRNoOvertake`); aging and boost come in time (`HelpInTime`); a process is preempted when it has had its slice, neither earlier nor later (`FullSlice`); queues change only as they should (`QueueMoves`); order of arrival (`ArrivalOrder`, `FcfsOrder`) |
| `MCSchedCalls` (1.5 million) | RR, switched to MLFQ at any moment; 2 slots; every call of the table but I/O; hints; settings accepted and refused | whatever is left over of another configuration, nobody outstays the slice of the one in force (`NoLongSlice`); a prediction moves only when a burst ends, towards what was observed, or to a hint that was clamped when it was given (`PredictionMoves`) |
| `MCStarvePriority` (violation) | PRIORITY; 3 processes that fork | aging does not exclude starvation |

Bounds. Order and overtaking need two rivals beside the one that waits, hence three slots;
quanta, thresholds and the boost interval are 1 and 2, so that "one too early" and "one too
late" differ; three queues, so that a demotion can skip one. The history counters must not saturate before
the limits they are compared with (`CountersAssumption`). `MCSchedCalls` has two slots because it is about one process and one
who changes the settings under it, or between the two halves of its call; its arguments
contain accepted values and refused ones (quantum 0, priority 21, one queue, a minimum above
the maximum) and values that are clamped (an initial estimate, and a hint of 5 under limits of
1..4 and 2..2). A burst is a tick or none there; longer bursts, and the switches back from
MLFQ and to the other policies, were checked in separate runs and are covered by the proofs.

*Fairness* (`SchedFairness`, used by `MCStarvePriority` only): the scheduler loop does not
stop and the timer interrupts whatever runs; nothing is assumed about the policies.

*Finding.* `tools/intent_advisor.py:31` recommends PRIORITY with aging for "no permanent
starvation". sched_priority breaks ties by age (proc.c:872): a process aged to priority 0
still loses to every older process there, so two that keep coming can keep it out for ever.

## 5. Pipes: `Pipe`

The files of the two ends with their reference counts, descriptor tables, the ring buffer
with counters modulo `Modulus` (2^32 in the code), and processes that read, write, dup,
fork, close, exit and are killed. A step is a critical section of `pi->lock`, `ftable.lock`
or `np->lock`; fileclose is two, with `closing` between them. copyin and copyout may fail at
any byte. Bytes are numbered, so that order, loss and duplication can be seen.

`Channel` is the bounded FIFO a pipe promises (`ImplementsChannel`).

*Run `MCPipe`* (135 thousand states): two processes that share the descriptors, a buffer of
2, counters modulo 4, writes of up to 3 and 5 bytes in all, so that a write is longer than
the buffer and both counters wrap; two descriptors each, so that a table is full. It shows
`NoLostWakeup`, `NoUseAfterFree`, `OpenWhileHeld`, the refinement, `EofIsFinal` and, with WF
of a process that is awake, `BlockedReturns`: a blocked call returns when the other side has
gone. All but the last are also proved, for every number of processes, descriptors and bytes.

The component is partly modelled: `file.c`'s inode and device files and the exhaustion of the
file table are left out.

## 6. A run on the console: `Console` and `Measure`

`Console` is one `schedtest` run as the host sees it: the harness that prints its markers,
waits for a tick, forks each child when its arrival has come, opens its gate and waits for
it; the children that define themselves, run for their burst and exit; the kernel, which
prints DISPATCH, PREEMPT and EXIT. The kernel prints a line in one piece; a process prints
character by character, so a line of a process may be cut by a preemption (`BeginCut`,
`DefineCut`), and is then lost or split in two. A line is the set of words the host looks for
and the event its parser finds. Which ready process runs is left open, and a burst may be
longer than its nominal length by `Jitter`. `job.slices` holds the lengths a slice may have
under the policy asked for: MLFQ preempts after the quantum of one of its levels. A process
in sys_pause is woken at every tick and goes back to sleep (`PauseOn`) until it is due. Left
out are the waits for the UART inside a line and the lines QUEUE_CHANGE and PRED_UPDATE, on
which no metric depends.

`Measure` translates the window (`_extract_run_window`), the parser, `build_processes` and
`compute_metrics`. Averages are kept in hundredths, throughput in thousandths, and rounding
is that of Python (`Numbers!Round`). `Judge` adds the second evaluator, in `metrics.py`, and
the event detector; `Verdict` is the comparison of `build_xv6_metrics` and the judgment of a
correction.

## 7. From an answer to a verdict: `Host`

`Guard` is `algorithm_guard.py` with the name tables of `schema_compat.py`; `RunFlags` the
flags, the shell line of at most `LINE` characters (`RowEnds` says where each flag and each
value of it ends, `Clip` what is left of a flag that is cut), what schedtest and the system
calls make of them, and the two records of "applied" parameters; `Correction` the rule proposer and its
guard; `Advisor` the analyser, the prompt, the check of an answer, retrieval, and the
rewriting of rules. `Host` composes them in the order in which the orchestrator calls them:
ask, guard, type the command, run, capture, judge, propose.

*Run `MCHost`* (1.4 million states). More than 200 answers: each algorithm with each parameter at and
beyond the edges of its range, of a wrong type, or absent; hints for a known process, for an
unknown one, twice, and out of range; algorithms by their aliases, unknown or missing; a
recommendation from an intent; a fixture, which nothing checks. Four of them, MLFQ with quanta of 1 and 2 among
them, are followed through the console, with two processes that overlap, five ticks, one tick of jitter, and any
line cut. `LINE` and `Prefix` are 75 and 28, so that some of the commands are too long.

- `AppliedWithinLine`: every parameter reported as applied is the one the kernel runs under,
  if the command fits the line. Also proved, for every answer and every length of the line.
- `WindowIsTheRun`: the trace has every kernel line about a child, in order, at its tick up
  to one shift, and none of the boot. Also proved, for every workload,
  wherever `Console` lets a line be cut.
- `MeasuredIsTrue`: response, turnaround and waiting time of each process are what happened,
  counted by history variables of `Console`. Also proved.
- `VerdictsAgree`: the two evaluators agree up to the floor that only one of them has. Also
  proved, for values of any size.
- `ProposalPassesGuard`: what the rules propose for parameters that were taken as they were,
  the second guard takes. Also proved, for every set of answers.

The thresholds of the detector and of starvation are scaled to five ticks (their ratios, not
their size, decide which cases occur).

*Finding* (`MCHostLine`). The workload injected by `--random-family interactive --seed 42`
fills 80 characters of the shell's 99 (`sh.c:152`). The guard's flags come last and are cut;
the run is made with the kernel's defaults and reported with the guard's parameters.

## 8. Several runs: `Pipeline`

`main` of the orchestrator: three directories, the manifest and the outcome store, and the
steps analyse, advise, guard, one capture for each algorithm, aggregate, export, manifest,
propose, apply, explain, persist, learn. A file is who wrote it, in which run, and what it
says. A step may fail, with whatever fallback its code has (a demo fixture, the file that is
there, a placeholder, nothing), and so may each of the tools a step calls: the detector, the
proposer and the correction guard in `ProposeStep`, the store in `PersistStep`; `Killed` ends the process between two steps; the next run
starts from the files that are left.

*Run `MCPipeline`* (605 thousand states): two runs, two faults between them, two workloads
with different winners, five command lines (plain; offline with retrieval and feedback;
offline with retrieval; an intent with a forced correction; a single algorithm), three
answers. Two runs are what is needed for one to leave something for the next. A third run
with one fault was checked as well and shows nothing new.

- `PublishedIsThisRun`: when a run ends well, the files the dashboard is given, and the traces
  of the algorithms asked for, are of that run, or the manifest says they are a fallback, or
  what is old stands in for a step that failed.
- `LearnsTruth`: a record of the store whose analysis and captures did not fail has the name
  and the features of the workload of its run, and if all six algorithms were run, none was
  measured better than the one it calls best. `Beaten` compares the measurements themselves
  (`found`, a history of what was captured), not the comparison's own verdict; an algorithm
  without a value is beaten by everyone.
- `PromptHidesAnswers`: no prompt has a burst, a class, the expected answer or the name of the
  workload, and no precedent shown is a record of the same workload. The record carries the
  workload it was made on as history, so that a name that lies would be noticed.
- `CorrectionConfirms`: a correction that takes over the winner repeats the flags under
  which it won, and is therefore confirmed, if the selected algorithm has a value for the
  target. This rests on `Measured` being a function: QEMU is started with `-icount`, and a
  configuration gives the same trace each time.

All four are also proved, for every number of runs and faults.

*Assumed*: one orchestrator at a time uses an output directory, and every workload file has
the mirror whose pids `Mirror` lists.

*Finding* (`MCPipelineStale`). The comparison takes every trace file of the directory. A
capture that fails leaves the file of an earlier run, of another workload, and it is compared
with the new ones as "this run's own trace".

## 9. The run server: `RunServer`

Handler threads (`at`, `kind`, `base`), the seed file (`file`; `Empty` between the open and
the write of `write_text`), `RunState` (`st`, `run`, `logs`), the worker thread of each run
and the orchestrator processes. A step is a critical section of `RunState.lock`, one access
to the seed file, or a step of the child. `Crash` loses the threads and `RunState`; the child
dies with the server or survives it.

`JobSlot` is what it promises its clients: a slot that is held by one request from its
acceptance to its end (`ImplementsJobSlot`). *Run `MCRunServer`* (190 thousand states): three
requests, two of them handled at the same time, one crash, output that may fail to decode.
`OneOrchestrator` says that without a crash there is one orchestrator, that of the run shown,
and that each crash leaves at most one behind; `StatusIsOfOneRun` that the state, the run
number and the log shown are of one run, and DONE means that it succeeded. Three requests
give one that runs, one that is refused and one that is accepted afterwards; more only repeat
this. `RunEnds` is about a run whose worker lives.

*Fairness*: the worker is a thread, and the orchestrator ends: QEMU is stopped after
`QEMU_RUN_TIMEOUT`, the calls of the model have a timeout, and the builds and tools without
one are batch programs over finite files.

*A worker that dies.* The worker reads with `text=True`, which decodes strictly, and nothing
catches its exception: a line that does not decode in the server's locale (`LineFails`) ends
it before finish(), and the state stays RUNNING until the server is restarted, though
run_server.py:98 knows no way out of a run but DONE and ERROR. With this step, "every run
ends" is false. Such a line needs tools that write in an encoding which is not the server's,
as with PYTHONIOENCODING=utf-8 in another locale: the guard prints an arrow.

## 10. The dashboard: `Dashboard`

One browser tab composed with `RunServer`, which it extends. `phase`, `initiated` and
`timers` are App.jsx's demoPhase, runInitiatedRef and reveal timers; `seen` and `last` are
useRun's status and lastStateRef; `replies` are answers of the server that have not arrived;
`loads` are the calls of loadAll under way, `known` is manifestVersionRef, `shown` and `live`
are the files on the page and in live-data, told apart by the run that wrote them. A step is
one event of the browser's loop together with the effect React runs after it (`Settle`).
Each client step leaves the server alone and the other way round; they meet in `Ask`,
`ReadData`, `ShowData`, `ShowLate` and `PollManifest`, which read the server, and in `sent`.

*What is assumed of time.* A run that succeeds lasts longer than a status poll (`Observed`):
QEMU runs six schedulers, a poll comes every 750 ms. A file that is fetched does not stay
under way from before an export until after the correction run or the explanation that
follows it (`CaughtUp`). The export itself does not fail half way. The user reloads the page
between two clicks only, and not before the first is answered.

*Run `MCDashboard`* (320 thousand states): two clicks, a reload, two loads that overlap, one
status poll under way, runs that succeed, fail before they publish, or fail afterwards.
`RevealIsFresh`: what is revealed is the run that was clicked, complete, unless, when the new
run was accepted, a DONE of an earlier run was on its way or an earlier request had not been
decided. Both exceptions are real. Just after a reload the tab takes a DONE of an old run for
news. A request that arrives after a later one was accepted and has ended begins a run whose
DONE, or whose files, the tab takes for those of its click; this takes three clicks, the
run's two do not show it, and it came out when the proof failed. `RevealIsFresh` and the
inductive invariant of its proof (`DashInv`) were therefore also checked with three clicks
and one load (2.1 million states). `RevealIsFresh` is proved for every number of clicks,
loads, polls and reloads. `ClickIsAnswered`: every
click whose run was accepted comes to its reveal or back to IDLE. `PageCatchesUp`: the tab
comes to know the last manifest, and after a success shows all that was published.
*Fairness*: polls go on, timers and loads end, and so does a run.

*Finding* (`MCDashboardRetry`). RUN pressed after a failed run sets the phase to
ANALYZING_LLM; the effect at App.jsx:412 finds the ERROR of the failed run still on show,
clears runInitiatedRef and returns to IDLE, while the request goes out. The new run is never
revealed, though App.jsx:409 says that the user can retry.

## 11. Proofs

TLC's instances are small; these results hold for every value of the constants that meets
the named assumptions.

**`XvProcProofs`** (assumption: at least two slots). `TypeCorrect` is inductive as it stands.
The safety invariants are not, one by one: that no parent's slot is freed under a child needs
reparenting (`ParentCanWait`) and that a parent in fork is awake (`OneForker`); that no exit
is lost needs to know who the parent is; and all need that init lives and that a free slot is
clean (`Shape`). Their conjunction `ProcInv` is inductive. Each action has a lemma, with one
step for each conjunct, `ProcInvStep` collects them, and `ProcSafety` follows; six corollaries
name the invariants. `TableImplementsLife` is the refinement of `ProcLife`: `LifeInv` says
which pids have been handed out and who answers for a fork that has not linked its child yet;
a lemma (`LifeRead`) reads status and guardian of a pid off its slot, and each action is then
a step of `ProcLife` or leaves every pid as it was.

**`XvSchedProofs`**. Each action of `XvSched` is one of `XvProc` or leaves the table alone (a
lemma), so that `SchedSafety` and `SchedulersKeepLives` carry `ProcInv` and the lives
over to all six policies. `ArrivalsInOrder` adds that a later pid has a later creation time,
on which the tie-breaks rely; its induction needs the creation time of a process still in
fork. `FcfsServesInOrder` follows for every configuration, also one that changes while a
process runs. `FieldsStayInRange` is the type invariant of the scheduler's fields and of the
value of a hint under way (`FieldsOK`). `PredictionsMoveAtBurstEnds` says what may move a
prediction, and that a weighted mean lies between what it is the mean of, so that it never
overshoots what was observed but for the limits.

Its last part is about `XvSlice` (assumptions: the ranges of the constants and
`CountersAssumption`). The
history variables only watch (`HistoryWatches`), so what is known of the schedulers
(`KernelOK`) holds with them; `CountsOK` types the counters. `NobodyOvertakenTwice` needs
where the pass of sched_rr is: `PassInv` says of each waiting process who may have run since,
behind the position and ahead of it, and that is kept by dispatches, by wakeups inside a pass
and by the end of a pass. `HelpComesInTime`: `WaitInv` ties the rounds a process has waited
to its `wait_ticks`, for PRIORITY from above, for MLFQ from both sides. `SlicesAreFull` and
`QueuesMoveByRule`: `SliceInv` ties what was charged since the dispatch to `ticks_in_level`,
which has to be 0 whenever a process gets the hart anew, and to the quantum from above. These
three assume `Steady`. `NobodyOutstaysSlice` does not: `LongInv` says that a process has never
run, since its dispatch or the last change of the configuration, for more ticks than its
counter shows, whatever the counter was left at.

**`PipeProofs`** (assumptions: finitely many processes, `PIPESIZE` divides `Modulus` and is
smaller, as 512 does 2^32). The first part is arithmetic: division with remainder, and from
it that a counter may be reduced at any time and that the slot of a byte does not see the
wrap. `PipeInv` has the types, the agreement of the counts with the descriptors
(`OpenWhileHeld`), `FileShape` (at most one process is closing an end, which nobody holds;
the page lives while a flag is set), `BufferShape` (the counters count what was written and
delivered modulo `Modulus`, and the bytes between lie in their slots) and `NoLostWakeup`.
`NoLostWakeup` is not inductive alone: piperead tells only the writers and pipewrite only the
readers, and that no other reader sleeps while there are bytes, or writer while there is room,
needs counters that are read right after any number of wraps. `WakeupsReach`, `EndsCloseLast`, `PageIsSafe`, `PipeIsAChannel` and
`EndOfFileIsFinal` follow.

**`RunServerProofs`** (assumptions: finitely many requests, and a mark for the emptied file
that is no counter). `RunInv` strengthens the invariants with the numbering of runs by
accepted requests (`RunShape`, which needs the cardinality of the set of answered requests)
and with a count of the orchestrators that lost their server. `RunTypeCorrect`,
`StatusSafety`, `SingleRun`, and `ServerIsAJobSlot`, the refinement of `JobSlot`, hold for
every number of requests, overlaps and crashes.

The module also holds the theorem about the dashboard, which extends the server.
`RevealsAreFresh` (`TabAssumption`: requests are numbered from 1, and there are no seed
families; at least one poll and one load): `DashInv` says that a request is under way until
it is decided (`RequestsKnown`), that files are published in order and by one run after the
other (`PublishOrder`), that a run that succeeded has published everything and no load still
holds older data (`RunIsWhole`, which is where the two assumptions about time are used), and
that while the tab awaits the run of its click, that run is the last one and every DONE under
way, and every load begun by one, is of that run (`RevealIsDue`). Each event of the browser
and each step of the server has a lemma.

**`GuardProofs`**, **`HostProofs`**. `ParamsInRange` and `PriorsInRange`: what
`normalize_params` and the burst priors hand on is in range and obeys the cross-field rules,
whatever the answer (`JsonParams`: a parameter is a whole number, a list of them, or something
else). `GuardedRuns`: what is run is an algorithm of xv6 with such parameters.
`ProposalAccepted`: the limits of the proposer and of the second guard agree, which is a
comparison of two tables of constants through six rules. `RunsInRange`, `ProposalsPass` and
`ParamsArrive` carry this to every behaviour of `Host` (assumption: `AnswersAssumption`;
invariant `HostInv`: guard_decision.json is the guard's word on recommendation.json).
`ParamsArrive` is the way of a parameter from the decision to the kernel. Where the flags of
a command end is a recursive function; `RowGrows` proves that it exists and grows, by
induction up to a bound (`UpTo`), and `ReceivedWhole` that a command which fits the line is
read as it was sent. `GuardedNames` says that the guard's parameters have the names of the
defaults, and one lemma per algorithm (`RrClaimed` and its like) that its flags carry them,
that the system call takes them, which compares the guard's ranges with the kernel's, and
that the record names the same values.

**`PipelineProofs`** (assumptions: the demo decision names an algorithm, and so do `--algo`
and a forced correction). `PublishedFresh`: the invariant says for each stage which files of
`--out-dir` this run has made by then (`Made`) and which of them the dashboard has been given
(`Shown`); when a correction is tried, no corrected trace of an earlier run is left. `Killed`
needs nothing: it leaves `complete` false. The other three are about what the files say.
`Contents` has, for each stage, the summary, the traces and the metrics as functions of the
request and of the decision (a trace is that of its algorithm under the flags of the
decision; the metrics are the comparison of the traces), unless the step that makes them
failed. On it rest `StoreTeachesTruth` (`StoreTrue` and `AllBest` of every record, kept by an
append), `AnswersHidden` (`SummariesAnalyzed`: what the advisor is given was made by the
analyser, of this or of an earlier workload; `PromptMade`: what the prompt leaves of it) and
`CorrectionsConfirm`. `StoreTeachesTruth` and `CorrectionsConfirm` have one hypothesis,
`MeasuredNumbers`: what is measured of a run is a number for each metric, or none for an
average of nothing, and a flag for starvation, which is what `compute_metrics` returns.

**`MeasureProofs`** (assumptions: the workload is a sequence of arrivals and bursts, ticks and
jitter are naturals, the thresholds of starvation are naturals, and each run that is compared
with this one has the numbers `compute_metrics` gives). What TLC shows for two processes and
five ticks holds here for every number of processes, any times, and
wherever a line is cut that `Console` lets be cut.
`MeasureInvariant` is the induction: `ConsoleInv` says what the console holds so far, and
`MeasureInv` adds that the trace and the metrics are those of that console. `ConsoleInv` has
three parts that the properties do not speak of and that the induction needs: the kernel's
lines carry ticks that never fall and every line after the two of the boot is sound
(`LinesInv`); which words have been printed by the point where schedtest is, and that the
marker or RUN_BEGIN stands before every line of a child (`WordsInv`); and for each child the
account of its time (`ChildInv`): the first and the last line about it, and that the slices
which the lines show add up to what it has used, less what no line shows and the slice that is
open.

- `TraceIsTheRun`: the window keeps every child's line (`Windowed`); sorting by tick leaves
  them in the order they have (`Listed`, a rank in a total order, so that what the parser
  drops and sorts is a matter of counting and needs no recursion), since their ticks do not
  fall; rebasing shifts all of them alike (`Told`).
- `NumbersAreTrue`: from the last two, the times rebuilt from the trace are those of
  `ChildInv`. A sum over processes or slices is a fold of the community modules; the proof
  that it does not depend on the order in which it is taken is by induction on the size of
  the set (`Iterates`, `SumsUp`).
- `MetricsAlwaysNumbers`: each measured run has a number for each metric, or none over no
  process. This is what the assumption about the compared runs says, and what
  `MeasuredNumbers` asks in `PipelineProofs`: neither is more than the tools deliver.
- `VerdictsAlwaysAgree`: a gap that is rounded over a larger denominator is graded no worse
  (`GradedDown`; `Round` is a division with remainder and a tie to the even side), and the
  floor only enlarges the denominator; a failure needs a gap, hence another run that is better
  in the target (`EvaluatorsAgree`).

*Only model-checked.* The liveness properties (`KilledDies`, `BlockedReturns`, `RunEnds`,
`ClickIsAnswered`, `PageCatchesUp`), since the prover does not handle fairness and ENABLED.
Every other property of a passing run is a theorem: each
invariant, each action property and each refinement.

## 12. Observations

What the code does that no document contradicts, or that a model reproduces without a
property; each is translated as it is.

*Kernel.* kkill does not skip free slots, whose pid is 0, and allocproc does not clear the
mark: kill(0) marks the first free slot, and the process born there next dies on its first
way to user mode, though nobody gave its pid; no property of the table excludes it. A
setpredictor() between the two halves of set_burst_hint leaves a prediction outside
the limits in force, and so does one after it: nothing clamps what is already predicted. A
process that sched_rr has just passed waits for the whole rest of the pass. The tie-break at proc.c:907 lets boosted MLFQ processes starve, as in
`MCStarvePriority`. kkill makes a process RUNNABLE without stamping `ready_since_tick`, as the
other three places do; only the waiting time in the trace depends on it. On several harts a
writer killed while it holds unread bytes would return without waking the readers; on one
hart it cannot be killed between two bytes.

*Run server.* Two handlers that read the seed counter before either writes it get the same
number (run_server.py:52 says that repeated runs get different seeds, and means runs that
follow each other). The counter moves before begin() refuses (run_server.py:240), so
`run_index` skips numbers. An orchestrator that survives its server shares the output
directories with the next one; `OneOrchestrator` counts it.

*Dashboard.* A refused request (`Failed`) leaves the tab at ANALYZING_LLM with the button
locked until a run of somebody else ends. A load that reads the data before an export and the
manifest after it leaves old data beside the new key; the DONE of the run repairs it, a run
that fails does not. Reveal timers are not cleared when an ERROR ends the analysis. A DONE is
missed if the run is over between two polls.

*Detector and metrics.* The gap event_detector.py:70 measures ends at a PREEMPT of the same
process and starts at its DISPATCH: a process that ran for the threshold is "starved", one
that never runs again is not. With no response time the detector ends in a TypeError, and
there are no events. build_processes does not see a slice that ends in a sleep, since no
line is printed for it: its ticks count as waiting (`hidden`). `metrics.py` compares
"Priority" with "PRIORITY" when it looks for the primary run. The judgment of a correction,
said to mirror the comparison's, applies the absolute floor of 0.5 to throughput as well and
ignores starvation; in the comparison, the floor on the denominator affects throughput too.
A target of starvation or fairness is judged by the response time, while the best algorithm is
chosen by the raw key.

*Guard and flags.* SJF and SRTF without priors are sent no flags and reported as
`llm_guard`. Burst hints are reported as sent, while the kernel clamps them; a derived list
of hints loses positions when a line is lost. The alias "starvation" of a metric is unknown to
one table of the guard, so that PRIORITY for starvation is rejected. `aging_strengthen` on a
threshold below 5 raises it to 5, and `quantum_decrease` on 1 raises it to 2. The proposer
reads the recommendation, not what the guard made of it.

*Orchestrator and store.* If the analyser fails, the old summary stays, and the store gets the
features of the old workload with the winner of the new one (`LearnsTruth` is about runs whose
analysis and captures did not fail); the precedent of the workload
itself may then be shown. A record's target is the workload's while its winner is by the
recommendation's. `--algo X` stores X as the best, with nothing compared; the manifest lists
six algorithms, and explanation and correction read the recommended one's old trace. Between
the export and the steps after it, explanation and correction of an earlier run lie beside
the new manifest, and a crash leaves them there: `PublishedIsThisRun` is about a run that
ended well. The contract is validated before the correction and the explanation are
refreshed. A crash in the middle of the export leaves new files under the old manifest.

## 13. Not modelled

- *Log, buffer cache, drivers, inodes, memory, boot code, library and user programs of
  xv6*: unchanged from the original; see the plan for what would be next.
- *Dashboard panels, trace explainer, model client*: presentation and one remote call.
- *Offline experiments, exports, contract validator*: batch scripts over finished files.
- *Inside modelled parts*: exec and sbrk, which do not touch the modelled state; the text of
  lines and prompts; the ranking of more than three precedents; `--dry-run`; the start of
  QEMU. A second hart is outside the models, as it is outside the Makefile.

## 14. Reading and running

A definition marked "Mutant" in a module is a faulty version of the definition that follows
it and is used by no specification; exchanging the two makes the property named in
`PROJECT.json` fail. To check a run: `tlc -config <run>.cfg <module>.tla`, with the module
`PROJECT.json` names for it; to check the proofs: `tlapm XvProcProofs.tla`, and likewise the
other seven. The runs take from a few seconds to two and a half minutes each with two workers.
The runs of `Host` and `Pipeline` do not check for deadlock: one recommendation, or a bounded
number of runs of the orchestrator, comes to an end.
