# Tailward in TLA+

Tailward is a local daemon that follows the transcripts Claude Code writes,
records what happens in them in an SQLite ledger, asks a local LLM for
judgements, and shows the result in a browser or desktop window. It is one
Python process with one asyncio event loop: what interleaves are tasks, at
their awaits. This directory holds TLA+ models of the parts of it where
interleavings, failures and restarts matter, TLC runs that check them on small
instances, and proofs that TLAPS checks for all instances.

Paths below are relative to the repository; `daemon/` and `storage/` mean
`src/tailward/daemon/` and `src/tailward/storage/`.

## 1. The system

| Part | State it keeps | Operations | Interacts with |
|---|---|---|---|
| Transcript watcher (`daemon/watcher.py`) | file table with offsets, seeded projects | start, prime, tail, seed a project | ledger, session states, dispatcher |
| Session states (`daemon/state.py`) | turn count, last message id, totals per session | get, hydrate | watcher, all workers |
| Ledger (`storage/ledger.py`) | SQLite tables, one shared connection, batch depth | one method per write or query, `batch_commits` | everything |
| Dispatcher (`daemon/app.py`, `on_event`) | turn in flight, last turn emitted | one handler per line | workers, live bus |
| Live bus (`daemon/livebus.py`) | subscriber queues | publish, subscribe, unsubscribe | ledger, SSE |
| SSE and polling (`src/tailward/web/sse.py`) | one generator per stream | replay, stream, poll | live bus, ledger, browser |
| Browser store (`frontend/src/lib/live.svelte.js`) | cursor, rendered ids, connection state | connect, push, load older, poll | SSE, routes |
| Session close (`daemon/session_close.py`) | none in memory; `session_close`, `session_reports` | poll, consolidate | ledger, LLM, live bus |
| Synthesis (`daemon/synthesis_worker.py`, `phase1.py`) | counters, in-flight flag, back-off per session | periodic, comprehensive and on-demand synthesis | LLM, files, live bus |
| Scope, rubric, user rubric workers | sets of files, windows of texts, in-flight flags | one handler per queued line | ledger, LLM, live bus |
| Constraints worker | violations seen per session | one handler per queued line | ledger, surfacer |
| Drift, audit, probe workers | queues | one LLM call per item | LLM, ledger, surfacer |
| Local LLM (`daemon/local_llm.py`) | semaphore of one, profiles | complete | HTTP server of the model |
| Surfacer (`daemon/surface.py`) | time of the last notification per key | surface, notify | ledger, desktop |
| Life cycle (`daemon/lifecycle.py`, `src-tauri/src/lib.rs`) | pid file, child handle | start, stop, status, spawn or reuse, shut down | the process |
| Paths, configuration, intent and event parsing | files | pure functions, atomic writes | all |

What is hard about it, and what makes each part correct:

- **Watcher.** Lines arrive in fragments; three kinds of task (priming, tailing,
  any number of seed requests) read the same file across awaits; the daemon may
  die anywhere; writes of a batch vanish together. Correct means: a stored
  offset never gets ahead of what was recorded, nothing is counted twice in
  normal running, every reported line is recorded in the end.
- **Live feed.** An event is persisted, then fanned out after an await, to
  bounded queues that drop; a tab replays, streams, breaks, reconnects, is
  refused, polls and pages back, and while a page is on its way the stream goes on.
  Correct means: a tab shows recorded rows only,
  and one it does not show was let pass at a place one can name.
- **Session close.** Each idle session is consolidated across many awaits while
  it may resume or be seeded, ledger writes fail, the LLM answers with values that
  cannot be converted, the daemon stops. Correct
  means: reports are whole, announced once, not shown as covering what came
  after, and eventually there.
- **Synthesis.** A serial worker and HTTP requests share flags and counters per
  session, and captures read the transcript ahead of the worker's queue.
- **Scope and rubrics.** Three serial workers with queues of their own; one of
  them makes the runs of another from within its own task. Correct means: no two
  runs of a session at once, no turn graded twice by the cadence, a creep recorded
  once, and no worker stuck behind another's call.
- **Dispatcher.** The tailing task and a seed request run the same handler on the
  same session state, and a restart forgets half of it. Correct means: a turn that
  began gets one metric, a message one entry in the feed, no turn with something
  to show goes missing, and permission modes and interruptions are told as the
  transcript has them.
- **Constraints, audit, surfacing.** A violation is marked as seen before it is
  recorded; live lines and those of the backlog share the mark; claims are checked
  in a thread while the session edits the files; three callers share one debounce.
  Correct means: a broken rule has one row and is announced, or one can say why
  not; a verdict agrees with files that were there; toasts keep their distance.
- **Local LLM and drift.** All workers wait at one semaphore, whose client may be
  replaced under them; a cap may cut a caller off while it waits, asks or has its
  metric written. Correct means: each request leaves its metric and goes where the
  settings pointed, a turn has its row or a reason, and nobody waits for ever.
- **Daemon and shell.** Two terminals, a desktop shell and daemons that boot, serve,
  drain and die share a pid file and a port, and a ping may fail though a daemon
  serves. Correct means: ordinary use never has two daemons on one ledger, a shell
  that found a daemon leaves it alone and one that spawned its own does not leave
  it behind without a reason, and a daemon told to stop dies.

## 2. The modules

| Module | What it is |
|---|---|
| `Feed` | what the live feed promises a tab: an abstract specification |
| `LiveBus` | the live bus, the SSE generators and the browser stores of one session |
| `MCLiveBus`, `LiveBusProofs` | its instances for TLC; its theorems |
| `Delivery` | what the watcher promises of the transcripts: an abstract specification |
| `Watcher` | watcher, offsets, commits, seeding, crashes |
| `MCWatcher`, `WatcherProofs` | its instances; its theorems |
| `SessionClose`, `SessionCloseProofs`, `MCSessionClose` | the close detector, its proofs and its instances |
| `Synthesis`, `MCSynthesis` | the synthesis worker and its instances |
| `SynthesisProofs` | the theorems about Synthesis |
| `Scoring`, `MCScoring` | scope, rubric and user rubric workers and their instances |
| `ScoringProofs` | the theorems about Scoring |
| `Dispatcher`, `DispatcherProofs`, `MCDispatcher` | what `on_event` does with a line, its proofs, its instances |
| `Alerts`, `MCAlerts` | constraints worker, audit worker and surfacer; their instances |
| `LocalLLM`, `MCLocalLLM` | LLM clients, drift worker and other callers; their instances |
| `WorkerProofs` | the theorems about `LocalLLM` and `Alerts` |
| `Lifecycle`, `LifecycleProofs`, `MCLifecycle` | start, stop, daemon processes, desktop shell; their proofs and instances |

How they fit together: `Watcher` reads lines and `Dispatcher` handles each; what it
hands to the workers is what `Scoring`, `Synthesis`, `Alerts` (`Hand`, `Say`) and
`LocalLLM` (`Escalate`, `TakeOnGoal`) begin with; what they publish is what
`LiveBus` carries to a tab. `SessionClose` reads what they recorded. A call of
the LLM is one step that may fail in `Synthesis`, `Scoring` and `SessionClose`, and
is taken apart in `LocalLLM`. A crash in any of them is what `Lifecycle` brings
about.

All models follow one rule of granularity: an action is what the event loop runs
between two awaits that matter, so that every interleaving of tasks the code
allows is one of the model. Awaits between which no other task can change or see
anything the stretch uses are merged, and the comment of the action says what it
stands for. Variables marked *history* belong to no code; they record facts the
properties speak of. Definitions called a *faulty variant* are not used by the
specification: they are plausible bugs, each of which makes a property fail when
it takes the place of the real definition.

### LiveBus

Event `n` is the `n`-th published and, if its insert succeeds, row `n`. `rows` is
the `live_events` table, `pending` the events between insert and fan-out,
`queue[c]` the subscriber queue of tab `c`. `phase[c]` is where its generator
is (`query`, `frames`, `live`), `conn[c]` where the store is (`boot`, `attach`,
`stream`, `poll`). `Persist`/`PersistFails` and `FanOut` are the two halves of
`publish`; `Bootstrap`, `Open`, `Query`, `Frame`, `Subscribe`/`Saturated` and
`Deliver` the way of a tab through `connect`, `#attachSSE` and `event_gen`;
`AttachFails`, `StreamError` and `Reap` what may go wrong; `Poll` and paging back
the other two ways to get rows. `loadOlder` is taken apart at its await: `AskOlder`
reads the oldest id shown (`asked`), events may be pushed meanwhile, and `OlderPage`
applies the answer to what is shown by then, or `OlderFails`. `jumped` marks, as
history, the tabs that were pushed an event older than all they showed.
`skipped` records the rows the
server let pass a tab, at exactly three places: broadcast or persisted before the
tab's queue existed, dropped off a full queue, or overtaken by a later event when
the stream broke. `LossAccounted` says that there is no fourth.

`Feed` has three variables only. `LiveBus` implements it with `log <- rows`,
`seen <- rendered` without the id 0, and `mark <- cursor`.

### Watcher

A file is measured in half lines, so that a chunk can end in the middle of one.
`db` is what the daemon's connection sees, `saved` what is committed; `Write`
copies one to the other unless a batch is open, `Crash` copies back. `job[t]` is
where task `t` is inside `_process_file` (`lookup`, `register`, `count`, `emit`,
`store`), `registry` the `_files` table; a job whose `FileState` was replaced
there is `own`. `Count` is `_ingest` up to the progress columns, `Emit` the event
handler that records the line, `Store` the offset after the chunk.
`PrimeMarkEof` is how a start hides what an unseeded project already contains.

`Delivery` leaves out the tasks, the `_files` table, the half lines and the batches:
lines are completed, recorded once whole, and passed over only when recorded or
hidden; every write is committed with all before it or not yet; a crash takes the
ledger back to what was committed, all transcripts together. `Watcher` implements it
with `whole` and `unseen` counting lines of `size` and `hidden` (a line that is half
hidden counts), and with the rows and offsets of `db` and `saved`, in lines, as `live`
and `kept`. That a position may go back (a seed, or a task that stores over another)
and a row come twice is part of the promise; that it skips nothing is its point.

### SessionClose

Of time stamps only the idle time (up to the threshold) and whether a session
was seen after its close are kept. `Poll`, `Check`, `Mark`, `Gather`, `Ask`,
`WriteRow`, `Announce`, `Finish` are the stretches of `_tick` and `_consolidate`;
`ConsolidateFails` and `MarkError` its inner handler, `TickFails` the outer one,
`Crash` a stop or a death. `Touch` is `upsert_session` for a real-time or a
backlog line. `report[s]` are the failure modes with a row made from the last
reading of the session, `byLlm` (history) the sessions that have a row the LLM
scored. The answer of the LLM scores some modes and for some of them, `broken`, gives
a score or a suggestion that cannot be converted: `BadAnswer` is the exception this
raises, outside the `try` of the LLM call, which sets the session to "error" and
brings it back at every poll. `QuietSessionsReported` therefore supposes that a
session which is consolidated again and again has a usable answer again and again.

### Synthesis

A transcript is the sequence of fullness levels of its turns; the worker's queue
is its suffix from `pos[s]`. `Observe`, `FireComprehensive` and `FireIncremental`
are the three outcomes of `_process`, `OnDemand` an accepted HTTP request. Then
`Return(t)`: the call fails (`CallFails`, then `Notify`), the snapshot is written
(`Capture`, then `Rebase`) or cannot be, the intent is rewritten (`Rewrite`, then
`RewriteDone`) or cannot be. `Rewrite` does not ask whether the LLM answered,
because `phase1` does not tell.

### Scoring

The queue of a worker is kept per session (`scopeQ`, `rubricQ`, `userQ`): what the
three workers do with a session's lines depends on that session alone, and a
worker with lines of two sessions takes them in any order, of which the real one
is one. `Line` is what the watcher's turn count and `on_event` do with an
assistant line, `Prompt` a prompt handed to the user rubric. `Snapshot` is
`_process` and `_emit_snapshot` up to `creep_fired`; `RecordDrift` or `DriftFails`
the write that follows; `GradeCreep` or `PassCreep` is `trigger`, run by the scope
worker, whose `task` is then in a rubric run. `Grade`/`PassText` and
`GradeUser`/`PassPrompt` are the two `_process` of the rubrics up to the LLM call,
`EndRun` and `EndUserRun` the end of a run, whatever it came to. `rows` is the
`scope_snapshots` table of the project; `Baseline` is the query over it and the
upper median of its result. `cadences` and `userRuns` are history.

### Dispatcher

`Dispatcher` takes up where `Watcher` ends: its lines are whole and its tasks are
two, but a line goes through the stages of `_ingest` and `on_event`. `CountTurn` is
the turn count up to its write; `TakeTurn` is `_close_turn_metric` up to its first
await, `RecordMetric`/`RecordMetricFails` the rest of it and what follows up to the
publication of the turn (`PublishTurn`, `PublishTurnFails`); `Open` and `Extend`
are a line that closes no turn, with and without beginning one. `NoteCall`,
`Interrupt`, `SameMode`, `ChangeMode` and `ModeChanged` are the later parts of
`on_event`. `inflight`, `emitted` and `lastMsg` are fields of the session state, of
which only `lastMsg` is in the ledger; `files` are the `FileState`s of one life of
the daemon, of which `reg` is in `_files`. A transcript is chosen at the start and
`written` grows; `metrics`, `entries`, `given`, `hidden`, `changes` and `stops` are
history. A crash inside a seed, whose writes are lost with it, is left to `Watcher`.
`EachTurnShownOnce` speaks of messages whose blocks come together, as Claude Code
writes them.

### Alerts

A policy is four lists of patterns; globs and regular expressions are the relation
`Matches`, and `FirstMatch` and `OffLimits` are the `violation_for` methods, which
name the first pattern that matches. A tool call is checked at numbered slots, in
the order of `_process`: the immutable list and the path policy for each path, then
the command, if there is one; a call may have any number of paths. `TakeLine` is `_process` up to the first violation that is not in
`seen`, which it adds; `Record`, `Publish`, `SurfaceViolation` and `Notify` are the awaits of
the loop, each with its failure, and `Proceed` is the way back to its head.
`owed`, `lost` and `unaired` are history: what a line broke by the rules at the time
it was taken, and what a failing ledger or publish kept back.

`TakeText`, `ScanFile`, `JudgeClaim`, `RecordClaim`, `SurfaceClaim` and `NotifyClaim` are
the audit worker; the scan reads one file a step, and `EditFile` may come
between any two. `steady` and `ever` record which names were in a file all along
and at some time since the scan began. `OsNotify` is the debounce; `Leak` its
third caller, besides the two workers. `Restart` empties everything that is not in
the ledger.

### LocalLLM

`clients` is the sequence of `LocalLLMClient` objects, by the configuration each
has read; the last is `daemon.local_llm`. A caller has one call at a time, and
`call[w]` keeps the latest, so that nothing bounds how many there are.
`ahead[w]` is the part of the semaphore's queue in front of `w`. `Ask` enters
the queue, `Send` is the body of `complete` up to its await, `Answer` and
`AnswerEmpty` what follows it, `RecordMetric` the write of the metric, with which
the semaphore is given back. `Cap` is the timer of `wait_for` in the drift worker
and strikes in any of three places; `Judge` is where `_process` goes on.
`Retry` is the second pass of `phase1`, which keeps the client it was given;
`Score` the worker that names the model in its row. A call is routed by a kind, and
`Kind` is the one each caller passes: its own, but "rubric" for the grader of users.

### Lifecycle

A process goes through `boot`, `priming`, `serving`, `draining`, `stopping` and
`dead`; at most one of them has the port. `Signal` is SIGTERM, which kills a process
that boots and otherwise leaves a request (`told`). `Start`, `StartSpawn` and
`StartReturns` are `start`, `StopSignal`, `StopReturns` and `StopNothing` are `stop`; all
their deadlines may strike at any time, and a ping or a probe may fail though a daemon
serves. That a process can be spawned and the pid file written is assumed. The
shell goes from `Launch` through
`Probe`, `SpawnSidecar` and `StoreChild`, and may `Quit` in any of them. With a child
in the slot `PostShutdown` and `QuitOver` follow; without one the shell is `leaving`,
and until it is `Gone` its spawn task, on another thread, may still spawn and store a
child that nobody will end. uvicorn is external: it closes its sockets, waits for
the responses under way, streams included, and then runs the second half of
the lifespan. `calm` is history and turns false once commands overlap, one runs
out of time, the ping of a `start` fails while a daemon serves that is on file, or a
shell is launched. `vain` is history: the shutdown request failed although somebody
had the port.

## 3. The runs

| Run | Shows |
|---|---|
| `livebus` | `LossAccounted`, `HistoryExhausted` (paging back reaches the first row, unless an event older than all shown was pushed), that `LiveBus` implements `Feed`, and `CaughtUp`: with publishing and faults over, a tab has everything the server did not let pass |
| `watcher` | `NoLineSkipped`, `ATurnPerMessage`, that `Watcher` implements `Delivery`, and `EventuallyRecorded`, on one file |
| `close` | `ReportComplete`, `ShownReportCovers`, `LlmForLiveOnly`, `SingleReportReady`, `QuietSessionsReported` |
| `close_stuck` | violation: a cut-off consolidation leaves a session "running" for ever |
| `synthesis` | `OneCallPerSession`, `FullnessIsCurrent`, `NotifiedOncePerStreak`, `RewrittenOncePerCrossing`, `KeepsUp` |
| `scoring` | `OneRunPerSession`, `CadenceOncePerTurn`, `CreepAccounted`, `UserCadence`, `AllJudged` |
| `scoring_prior` | violation: a session's own snapshots raise the baseline it is measured against |
| `dispatch` | `TurnsAccounted`, `EachTurnShownOnce`, `ModeChangesTrue`, `InterruptsNamed` |
| `dispatch_prime` | violation: lines read by the priming of a start reach no rule worker |
| `alerts` | `ViolationsAccounted`, `ViolationsShown`, `ToastsDebounced`, `VerdictGrounded` |
| `llm` | `MetricsAccounted`, `SettingsApply` (by the kind a caller passes), `TurnsJudged`, `DriftKeepsUp`, `EveryoneServed` |
| `lifecycle` | `CalmUseIsSafe`, `ShellExitAccounted`, `ToldDies` |

Every safety property of a passing run is also a theorem (section 4), and so is the
type invariant of every module.

Each violation run checks one sentence of the code's own comments against what
the code does; `PROJECT.json` quotes the sentence and explains the trace.

**Bounds.** Sizes are chosen so that every limit of the code is hit and passed.

- `livebus`: one tab, whose dead stream may hold the only slot when it comes back;
  queue, replay, poll and page limit are 2 and there are four events, so that a queue
  overflows, a replay is cut and a page is exactly full; two faults, so
  that `onerror` both retries and gives up. Tabs share the slots and the ledger
  only; several are covered by the theorems.
- `watcher`: three lines, two of them of one message, six half lines; one seed and
  one crash, anywhere. A second crash repeats the first from a state
  that is an initial one up to the ledger. More files and overlapping seeds are
  covered by the theorems.
- `close`: two sessions, because a tick visits one while the other's row grows
  old; two of the eight failure modes, because what can go wrong is a report cut
  between two; one ledger fault and one crash. Answers that cannot be converted are
  not bounded.
- `synthesis`: one session, since sessions share nothing but the serial worker; two
  requests besides the worker; four turns over three levels, enough for a
  growth, a compaction, and a second rise to the threshold; a limit of two
  failures and three in a row.
- `scoring`: one session, two files and a threshold of one, so that the second file
  is a creep; three lines, of which one may be a claim or come from the backlog;
  turn counts 0 to 4 at the start with an interval of 2, so that the cadence comes
  up, is skipped and comes up again; four prompts, two user runs; one failing write.
  Sessions share the rows and the serial workers only, and the two earlier ones
  supply the rows. `scoring_prior`: one earlier session, three files.
- `dispatch`: four transcripts of three or four lines, one for each thing the handler
  is about (a turn that thinks first and is followed by another; a synthetic turn
  and one without id; three calls against a cache of two, so that one is dropped;
  a mode that changes and returns); one seed, one crash, one failing write.

- `alerts`: one session; a tool call that edits three paths, of which one is a memory file, a push
  that breaks two rules, rules that are read, unreadable and read again; texts of one
  and two claims; two files and a budget of two; two items, one edit, one fault or
  restart; a debounce of two in a time of three, so that the first toast falls in the
  wait after boot as well as behind it.
- `llm`: drift, a synthesis and the grader of users. All kinds are routed to the second
  profile, which one change of settings turns on or off: that is the change that moves
  them; only the kind `user_rubric` stays with the first, which the grader's calls
  ignore. Calls, turns, retries and failures are not
  bounded.
- `lifecycle`: two terminals, one launch of the shell, two processes and one crash. A
  third process with one terminal was checked as well; with two terminals
  it is too large for a run, and the theorems cover it.

Deadlock is not checked: every system here may stop (nothing left to publish, no
more lines or turns, bounds reached) and that is no error.

**Fairness.** The event loop resumes every task whose await is over: weak fairness
of each fan-out, of each tab's and each generator's steps together, of the watcher,
of each seed, of the detector, of each returning synthesis call, and of each
scoring worker (to take a line of each session, and to go on with the one it has). A browser's
retry and poll timers fire, the poll timer of the detector fires, and calls of the
LLM and the ledger return or raise (the client has a time limit). In `LocalLLM` the drift worker goes on, its cap fires, a semaphore lets
its first waiter in and the ledger answers or raises; of the LLM nothing is
assumed, and `EveryoneServed` has its answers as a hypothesis. In `Lifecycle` only
processes are fair; tabs may stay open for ever. In
`Watcher` the daemon is started again after a crash. Nothing is assumed of
publishers, of writers of transcripts, of users, or of failures.

## 4. The proofs

The theorems hold for all values of the constants that satisfy the named
assumption of the module (`LiveBusAssumption`, `WatcherAssumption`,
`SynthesisAssumption`, `ScoringAssumption`, `DispatcherAssumption`,
`AlertsAssumption`, `LocalLLMAssumption`, `LifecycleAssumption`,
`SessionCloseAssumption`): naturals where the code has naturals, limits and queue sizes
above zero, finite sets of tabs, and null values that are no value of their set. Two
assumptions are about transcripts and say what a parsed line can be: in `Dispatcher`
only lines that are not the assistant's carry a permission mode, and only tool
results an interruption; in `Alerts` a tool call has finitely many paths and at
most one command.

- `LiveBusProofs!TypeCorrect`, `WatcherProofs!TypeCorrect`,
  `SynthesisProofs!TypeCorrect`, `ScoringProofs!TypeCorrect`,
  `DispatcherProofs!TypeCorrect`, `WorkerProofs!TypeCorrect`, `WorkerProofs!AlertsTyped`,
  `LifecycleProofs!TypeCorrect`, `SessionCloseProofs!TypeCorrect`: the type
  invariants. That of `LiveBus` is proved with the sequence facts that keep queues
  bounded; that of `SessionClose` needs that the session at hand is "running"
  from `Mark` on (`FlowInv`).
- `LiveBusProofs!NothingLostUnaccounted`: `LossAccounted`. It is not inductive: a
  row between a replay query and its frames is in none of the places it names. The
  invariant `LossInv` adds, for each phase of a generator, where the rows above
  and below the cursor are: a replay that has been read holds the *lowest* rows
  above the cursor, so that yielding them in order leaves no gap. The argument
  goes by tab: a step of one tab leaves the clause of another alone
  (`OtherTabs`), a publication is checked once for all (`LossPublish`), and
  `LossTab` treats the steps of a tab one by one.
- `LiveBusProofs!FeedImplemented`: `Spec => ImplementsFeed`, by mapping the initial
  state and every step; the work is in `ShowRows` (a push is a `Show`, including
  the high-water mark of the cursor) and in type correctness, which bounds ids.
- `LiveBusProofs!HistoryReached`: `HistoryExhausted`, under the hypothesis
  `PagesAreFull` that the server's window is no smaller than the page the browser
  compares with, as it is by default (100 and 100). The hypothesis is needed: with
  `ReplayLimit = 1` in `MCLiveBus.cfg` TLC refutes the property in six steps (section 5). `HistInv` is
  about a tab that was pushed nothing older than all it showed: `oldestEventId` is the
  least id shown, it is set before the button can go away, and it has not moved since
  the page under way was asked for, so that the answer fits what is shown when it
  comes. The
  step that matters is a short page (`ShortPageIsLast`): a page holds every row below
  its bound for which fewer rows lie between, so that one with room to spare holds all.
- `WatcherProofs!CommittedOffsetsAreRead`: `NoLineSkipped`. The inductive invariant
  `Inv` says the same of four more places than the committed offset: the offset
  the connection sees, the `_files` table, the offset a job has looked up, and a
  job in mid-chunk, whose rows below `next` must be recorded. Each is stated with
  the operator `Read`, against the ledger the place will be committed with; that
  `saved` and `db` only grow in rows (`ReadMono`) does the rest. The invariant
  was checked by TLC on both instances before it was proved.
- `WatcherProofs!MessagesAreTurns`: `ATurnPerMessage`. Its first half, that every
  message recorded is a turn, must hold of the committed ledger too, as a crash makes
  that the live one; and a line that continues the message counted last is no new
  turn. `TurnInv` therefore counts the recorded messages together with
  `last_message_id` and with the lines between `Count` and `Emit`. The second half is
  about a daemon that neither crashed nor seeded, where a single task is left:
  `CalmInv` says which line it comes to next (`NextLine`), by the file table or by the
  stored offset, that the lines from there on have no row, and, of files whose
  messages are contiguous (`Contiguous`), that the turns are no more than the messages
  behind that line. Two messages that alternate are counted at each change, in the
  code as in the model, which is why the upper bound needs the hypothesis.
- `WatcherProofs!DeliveryImplemented`: `Spec => ImplementsDelivery`. Every action is
  mapped to a step of `Delivery` or a stutter: `Emit` to `Deliver`, `Store` and a reset by
  a seed to `Move`, `PrimeMarkEof` to `Hide`, half an append to `Complete` and half to
  nothing, a turn or the end of a batch to `Commit` if it commits. That the line
  handed on is whole needs one more invariant, that the chunk of a task lies within
  the file (`JobsWithin`), and that the position skips nothing is what `Inv` says of a
  job about to store (`MoveMap`); the three lemmas on `InLines` turn a write of the
  ledger into one of lines.
- `SynthesisProofs!CallsExclude`: `OneCallPerSession`, inductive with the types.
  Every step does one of four things to the tasks and the flags (`TaskFlow`), so
  that exclusion is argued four times and not once per action.
- `SynthesisProofs!NotificationsCounted`: `NotifiedOncePerStreak`. It says nothing
  of a session whose call is in flight; the invariant `NoticesCount` does: a
  failure whose `synthesis_failed` is still being published has not had its
  notification yet. That no other task of the session can change the count
  meanwhile is `CallsExclude`.
- `SynthesisProofs!FullnessKnown`: `FullnessIsCurrent`, inductive with the types.
- `SynthesisProofs!RewritesBounded`: `RewrittenOncePerCrossing`, from `RewriteOwed`:
  while the trigger is armed and the last turn was at the threshold or above, there
  is a crossing that no rewrite has answered yet, and a rewrite is under way only
  then.
- `ScoringProofs!RunsExclude`: `OneRunPerSession`, inductive with the types: of two
  tasks that may begin a run each tests the flag that the other has taken.
- `ScoringProofs!CadenceNeverRepeats`: `CadenceOncePerTurn`. `CadenceInv` adds that
  the turn graded last, by whatever trigger, is not ahead of the turn count and no
  cadence run is of a later turn than that.
- `ScoringProofs!CreepsAccounted`: `CreepAccounted`. `CreepInv` adds that a session
  whose drift row is being written has its creep fired and no row yet; the
  baseline, its median included, does not matter to the argument.
- `ScoringProofs!UserCadenceExact`: `UserCadence`. `UserInv` adds that the prompt graded
  last is not ahead of the prompt count; `DivStep` is the arithmetic, how a quotient moves
  when its dividend grows by one; and `RunsExclude` says that the flag of the user
  rubric is never taken when its worker looks at it.
- `DispatcherProofs!TurnsAreAccounted`: `TurnsAccounted`. `TurnInv` adds that a
  metric being written belongs to one task only, is not the turn in flight and is
  not recorded yet, and that while one task reads and nothing has failed no turn is
  in flight as long as a metric is being written. Steps that touch no turn are
  argued together; taking a turn, opening one, recording a metric and a crash each
  have a lemma.
- `DispatcherProofs!TurnsShownOnce`: `EachTurnShownOnce`. That no turn goes missing is
  `ShownInv`: wherever an offset is kept, in the ledger, in a `FileState`, in a task,
  the turns before it are shown, and the one shown last has its entry. It needs
  `StageInv`, what kind of line a task has at each stage. That none is shown twice is
  said of a single reader: `FrontInv` places its front in the transcript, and
  `OnceInv` says that a message with an entry is the one told last, or has another
  message behind it on this side of the front, so that none of its blocks are to come.
- `DispatcherProofs!ModeChangesAreTrue`: `ModeChangesTrue`. The `ModeInv` of the reader:
  the `FileState` has the mode of the last line behind the front that carries one,
  and the `n`-th change told is the one at the `n`-th line that turns the mode, by its
  rank among them.
- `DispatcherProofs!InterruptsAreNamed`: `InterruptsNamed`. `NameInv` says how far a call is
  from the old end of the cache: an entry with `n` others after it survives as long
  as `n` is at most `Cap + 1 - Drop`, whether the cache was just cut, the name was taken
  out by its result, or came in again.
- `WorkerProofs!ViolationsKept`, `!ViolationsAnnounced`: `ViolationsAccounted` and
  `ViolationsShown`, from `RuleInv`. A rule is in `seen` exactly if it has a row of this
  run of the daemon, was lost, or is the one at hand on its way to the ledger
  (`SeenInv`); what a line owes is that or at a slot still ahead (`AccountInv`); and a row
  was aired, could not or must not be, or is about to be (`AirInv`).
- `WorkerProofs!VerdictsGrounded`: `VerdictGrounded`, from `AuditInv`: what the scan has
  found in the files behind it lies between what was there all along (`steady`) and what
  was there at some time (`ever`), however the session edits them.
- `WorkerProofs!ToastsSpaced`: `ToastsDebounced`, from `ToastInv`: the time kept per key is
  that of the latest toast of this run, and every toast held back has one within the
  debounce before it.
- `WorkerProofs!MetricsAreAccounted`, `!SettingsAreApplied`, `!TurnsAreJudged`: one
  inductive invariant, `IInv`. `ClientsOK` says that the last client has read
  the settings of now, so that a call asked of it wants what that client will
  give for the kind of its caller (`CallsOK`); `QueueOK` that only queued calls of the same client are ahead of
  one; `DriftOK` what `filed` and `fate` are at each place of `_process`, and that
  a call cancelled by the cap is one whose timeout is on record.
- `LifecycleProofs!ExitAccounted`: `ShellExitAccounted`, from `TypeInv`: a shell whose
  probe was answered has neither a sidecar nor a shutdown request to its name; the
  slot holds nothing but the sidecar; and once the hook has taken a sidecar that was up,
  it is serving or on its way out. That the request goes to the sidecar is not among
  it, nor true: the sidecar may have lost the port (section 5).
- `LifecycleProofs!CalmIsSafe`: `CalmUseIsSafe`, for users whose daemon answers the ping
  of `start` (section 5 says what happens otherwise). `CalmInv` says, while use is calm, that
  at most one command is under way and which live process there may be at each of
  its places, and that nothing live has been told to stop except under a `stop`.
- `SessionCloseProofs!ReportsWhole`, `!ReportsAnnouncedOnce`, `!ShownReportsCover`,
  `!LlmSparesBacklog`: each has an invariant of its own on top of the types.
  `WholeInv` says which modes have been written since the last reading; `SingleInv`
  that without a failure of the ledger only sessions never announced are
  consolidated, those in error included; `CoverInv` that a line
  which comes while a report is being made resumes its session; `LiveInv` that
  `is_backlog` tells the same in the table and in the rows a tick holds as in what
  has been seen.

Only model-checked: the liveness properties (`CaughtUp`, `EventuallyRecorded`,
`QuietSessionsReported`, `KeepsUp`, `AllJudged`, `DriftKeepsUp`, `EveryoneServed`,
`ToldDies`), since fairness is out of the prover's reach, and the properties the
violation runs refute.

## 5. Where the code and its words part

Three disagreements are violation runs (section 3). Others were met on the way;
the models follow the code:

- `web/sse.py:42`: an event whose insert and fan-out fall between the replay query
  and the subscription is in neither, although `livebus.py:142` calls the ledger
  what clients replay missed events from. `LossAccounted` names this place.
- `frontend/src/lib/live.svelte.js:345`: a page of less than 100 rows is taken for the
  last ("we've reached the start of the session", 343-344), but the server makes
  pages of `live_sse_replay_events` rows (`web/routes.py:857`), a user's setting of which
  `config.py:238` says that "a smaller window here just trims initial paint cost". With a
  smaller one the first "load older" withdraws the button and the older rows of
  the session cannot be reached. The proof of `HistoryExhausted` found it.
- `frontend/src/lib/live.svelte.js:342`: an event that is fanned out late, with an id
  below all that a tab shows, is pushed by the stream and becomes the bound of the next
  page (205-206), whatever rows lie between it and the window. A tab that opened on rows 3 and 4 and is pushed row 1 asks for the rows below 1, gets an
  empty page, withdraws the button (312-313) and never shows row 2. One that is pushed
  such events while a page is on its way may find nothing new on the page and withdraw
  the button (337-338), or have `oldestEventId` moved back above them (342).
  `HistoryExhausted` leaves out tabs this happens to (`jumped`).
- `storage/ledger.py:1266-1270`: "tailward's dispatcher publishes some messages as
  multiple turn events (a partial emit for the visible text, then a final emit once the
  full block stream lands)", and the query counts the last one of each message. The
  dispatcher (`daemon/app.py:299-316`) has no such partial emit: it publishes at the
  first line of a message with something to show and nothing for the lines of that
  message that follow, so that a stop reason they bring is not in the feed.
  `EachTurnShownOnce` states what the code does.
- `daemon/constraints_worker.py:5-8`: "Every violation is also pushed onto the LiveBus so
  the web UI sees it within a watcher tick" (`AUDIT_MAP.md:225` has it too), but of the
  violations of a rule only the first per session and run of the daemon is recorded
  and pushed (188), and if that one was in the backlog it is kept from open
  tabs (111), so that a session which breaks the rule live afterwards announces
  nothing. `ViolationsShown` exempts exactly these.
- `daemon/user_rubric_worker.py:270`: the grader of users calls with `kind="rubric"` (and
  275 names its model by that kind), "so cost / sampler / max_tokens accounting is
  unified". `local_llm_route_user_rubric` (`config.py:62` and 126, editable in Settings)
  therefore routes nothing: its calls go where `local_llm_route_rubric` points. In
  `SettingsApply` the settings are those of the kind passed.
- `daemon/session_close.py:194-203`: `float()` of the LLM's score and `strip()` of its
  suggestion are outside the `try` of 182-189, so that a null score or a suggestion
  that is no string puts the session in "error"; it is asked about again at every poll,
  and with such answers its results never "land in session_reports" (9).
- `storage/ledger.py:67`: `batch_commits` holds back the commits of all tasks, so a
  crash during a seed also loses lines of other projects, which no second seed
  brings back; the comment at 79 speaks of the seed's own.
- `daemon/audit.py:273`: a claim with both kinds of verb and nothing found is
  "contradicted", for the addition; its docstring (239-244) has it under removals as
  "verified" too.
- `daemon/local_llm.py:121`: "every code path below funnels back through
  `_record_metric`", but an answer without choices raises before it
  (`AnswerEmpty`), and so does a cancellation during the write.
- The one LLM request at a time holds per client: after a change of settings the old
  and the new one may each have one under way. `old._client.close()`
  (`web/routes.py:355`) closes nothing, as there is no such attribute.
- `daemon/drift.py:172`: `action_taken` is "surfaced" even if surfacing failed, and
  `phase1.py` retries with the client it began with.
- `daemon/lifecycle.py:134`: after five seconds `stop` removes the pid file and
  reports success though the process may be waiting for an open stream; the next
  start then runs a second daemon beside it. Overlapping starts leave the
  pid of either on file. A daemon whose port is taken exits with code 0.
- `daemon/lifecycle.py:72`: a ping that times out after half a second, or fails, while a
  daemon serves lets `start` go on: it spawns a second daemon, writes its pid over the
  first one's, and returns success as soon as the first one answers (104). The second
  finds the port taken and exits; until then both work on the ledger, and afterwards
  the pid file names a process that is dead. `CalmUseIsSafe` excludes this.
- `src-tauri/src/lib.rs:132-142`: a daemon that still boots, or takes more than half a
  second, does not answer the probe; the shell spawns its own, and whichever comes
  second exits.
- `src-tauri/src/lib.rs:359-361`: without ownership the exit hook is meant to be "a no-op",
  but the request of 395 goes to whoever has the port. If the shell's sidecar lost the
  port to a daemon the user started, and exited, its child is still in the slot and
  the user's daemon is shut down. `ShellExitAccounted` says only that a shell which
  reused a daemon ends none.
- `src-tauri/src/lib.rs:376`: the hook that finds the slot empty does not stop the spawn
  task (267-306), which may spawn a daemon before the process ends; nobody ends it.

## 6. Not modelled

- Scores, prompts, previews, formatting, parsing of lines, regular expressions,
  configuration files, rendering: data the properties do not tell apart. Among it
  `splitlines()` in `watcher.py:439`, which also splits at U+2028 and form feeds.
- The in-memory copy of the progress columns (`daemon/state.py`) is merged with
  the columns: each write goes to both in one stretch.
- Truncated, rotated or deleted transcripts: Claude Code only appends.
- In `Scoring`: profiles that call no creep or grade no dimension, a daemon without
  LLM (all three only switch parts off), windows of texts and prompts, a write that
  raises after its row is already in the table.
- In `Alerts`: severities, the text of rules, `memory_edit` and `claim` events.
- In `LocalLLM`: a daemon without LLM, the stop of the daemon, the salvage of JSON.
- In `Lifecycle`: Windows, where `stop` kills outright; pids that come again; the
  atomic writes and the one-time copy of `paths.py`.
- Exceptions of the ledger inside the watcher; observations recorded after a
  report; the cap that evicts rows from the browser's list; time limits as such.
- The probe worker, one periodic request and its row, which nothing else reads back
  into a decision; and the parts listed as `not_modelled` in `PROJECT.json`.

## 7. Plan

Done: all modules with their runs, the proofs of every safety property a passing
run checks, and of both refinements. In this order next:

1. `Dispatcher`: the fan-out of its events to open streams (the metrics of a seeded
   turn are, the turn itself is not) and away summaries.
2. The one-time copy of the home directory, with crashes.
