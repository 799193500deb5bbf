------------------------------ MODULE Scoring ------------------------------
(***************************************************************************)
(* The workers that judge the turns of the sessions of one project while   *)
(* they go on: scope creep (daemon/scope_worker.py), the rubric            *)
(* (daemon/rubric_worker.py) and the user rubric                           *)
(* (daemon/user_rubric_worker.py).  Each takes the real-time lines that    *)
(* on_event queued for it one at a time, and reads the turn count of the   *)
(* session when it comes to a line, not when the line came.  A scope creep *)
(* triggers a rubric run from within the scope worker.                     *)
(*                                                                         *)
(* All but the scope_snapshots table is in memory.  Init is a start of the *)
(* daemon, with turn counts and snapshots of earlier lives.                *)
(***************************************************************************)
EXTENDS Integers, Sequences, FiniteSets

CONSTANTS
    Sessions,     \* sessions of the project this daemon sees
    Earlier,      \* sessions of the project that are over
    None,         \* no session
    Scope, Rubric, User, \* the three workers, one task each
    Files,        \* files tools may touch
    Lines,        \* assistant lines that may come
    History,      \* scope_snapshots at the start
    Window,       \* scope_baseline_window
    Floor,        \* scope_creep_floor of the project's mode
    Factor,       \* scope_creep_factor
    Interval,     \* rubric_turn_interval
    UserInterval, \* user_rubric_turn_interval
    MaxTurns,     \* bound: turns of a session
    MaxLines,     \* bound: assistant lines
    MaxPrompts,   \* bound: prompts
    MaxFaults     \* bound: failed ledger writes and runs

\* What the workers look at in an assistant line: did it come in real time or
\* from the backlog, does it begin a turn, does it call a tool, which files
\* does the tool write, and is its text long enough to be graded, or even a
\* claim of completion.
LineShapes == [live : BOOLEAN, new : BOOLEAN, tool : BOOLEAN,
               files : SUBSET Files, prose : {"short", "long", "claim"}]

\* A row of scope_snapshots: session, files_touched_count, is_creep.
Rows == [s : Sessions \cup Earlier, n : Nat, creep : BOOLEAN]

Workers == {Scope, Rubric, User}

ASSUME ScoringAssumption ==
    /\ None \notin Sessions /\ Sessions \cap Earlier = {}
    /\ Scope # Rubric /\ Scope # User /\ Rubric # User
    /\ IsFiniteSet(Files)
    /\ Lines \subseteq LineShapes
    /\ History \in Seq(Rows)
    /\ Window \in Nat \ {0} /\ Floor \in Nat /\ Factor \in Nat
    /\ Interval \in Nat \ {0} /\ UserInterval \in Nat \ {0}
    /\ MaxTurns \in Nat /\ MaxLines \in Nat /\ MaxPrompts \in Nat
    /\ MaxFaults \in Nat

VARIABLES
    turns,    \* turns_seen of SessionState
    scopeQ,   \* scopeQ[s]: lines of s in the queue of the scope worker
    rubricQ,  \* rubricQ[s]: lines of s in the queue of the rubric worker
    userQ,    \* userQ[s]: long prompts of s in the queue of the user rubric
    touched,  \* files_touched
    fired,    \* creep_fired
    rows,     \* the scope_snapshots table
    drifts,   \* drifts[s]: scope_creep rows in drift_events
    texts,    \* texts[s]: length of _text_by_session[s]
    graded,   \* last_run_turn
    busy,     \* in_flight of the rubric
    prompts,  \* prompts[s]: length of _user_text_by_session[s]
    asked,    \* last_run_count of the user rubric
    userBusy, \* in_flight of the user rubric
    task,     \* task[w]: where worker w is, and for which session
    lines,    \* assistant lines so far
    sent,     \* prompts so far
    faults,   \* failures so far
    cadences, \* history: turn counts at which cadence runs of s began
    userRuns  \* history: user rubric runs of s begun

worldVars == <<turns, lines, sent>>
scopeVars == <<scopeQ, touched, fired, rows, drifts>>
rubricVars == <<rubricQ, texts, graded, busy, cadences>>
userVars == <<userQ, prompts, asked, userBusy, userRuns>>
vars == <<worldVars, scopeVars, rubricVars, userVars, task, faults>>

Idle == [pc |-> "idle", s |-> None]

\* Writing the drift row; publishing the creep, before the trigger; a rubric
\* or user rubric run, from in_flight to the finally clause.
Stages == {"drift", "creep", "run"}

TypeOK ==
    /\ turns \in [Sessions -> 0..MaxTurns]
    /\ scopeQ \in [Sessions -> Seq(Lines)]
    /\ rubricQ \in [Sessions -> Seq(Lines)]
    /\ userQ \in [Sessions -> Nat]
    /\ touched \in [Sessions -> SUBSET Files]
    /\ fired \in [Sessions -> BOOLEAN]
    /\ rows \in Seq(Rows)
    /\ drifts \in [Sessions -> Nat]
    /\ texts \in [Sessions -> Nat]
    /\ graded \in [Sessions -> -1..MaxTurns]
    /\ busy \in [Sessions -> BOOLEAN]
    /\ prompts \in [Sessions -> Nat]
    /\ asked \in [Sessions -> Nat]
    /\ userBusy \in [Sessions -> BOOLEAN]
    /\ task \in [Workers -> {Idle} \cup [pc : Stages, s : Sessions]]
    /\ \A w \in {Rubric, User} : task[w].pc \in {"idle", "run"}
    /\ lines \in 0..MaxLines /\ sent \in 0..MaxPrompts
    /\ faults \in 0..MaxFaults
    /\ cadences \in [Sessions -> Seq(Nat)]
    /\ userRuns \in [Sessions -> Nat]

Init ==
    /\ turns \in [Sessions -> 0..MaxTurns]
    /\ scopeQ = [s \in Sessions |-> <<>>]
    /\ rubricQ = [s \in Sessions |-> <<>>]
    /\ userQ = [s \in Sessions |-> 0]
    /\ touched = [s \in Sessions |-> {}]
    /\ fired = [s \in Sessions |-> FALSE]
    /\ rows = History
    /\ drifts = [s \in Sessions |-> 0]
    /\ texts = [s \in Sessions |-> 0]
    /\ graded = [s \in Sessions |-> -1]
    /\ busy = [s \in Sessions |-> FALSE]
    /\ prompts = [s \in Sessions |-> 0]
    /\ asked = [s \in Sessions |-> 0]
    /\ userBusy = [s \in Sessions |-> FALSE]
    /\ task = [w \in Workers |-> Idle]
    /\ lines = 0 /\ sent = 0 /\ faults = 0
    /\ cadences = [s \in Sessions |-> <<>>]
    /\ userRuns = [s \in Sessions |-> 0]

-----------------------------------------------------------------------------
(* Lines and prompts, as the watcher counts them and on_event queues them. *)

\* A worker that runs between the count and the hand-over is as one that runs
\* after both: the line is at the end of its queue.
Line(s) == \E l \in Lines :
    /\ lines < MaxLines
    /\ l.new => turns[s] < MaxTurns
    /\ turns[s] = 0 => l.new
    /\ turns' = [turns EXCEPT ![s] = IF l.new THEN @ + 1 ELSE @]
    /\ scopeQ' = [scopeQ EXCEPT ![s] = Append(@, l)]
    /\ rubricQ' = [rubricQ EXCEPT ![s] = IF l.live THEN Append(@, l) ELSE @]
    /\ lines' = lines + 1
    /\ UNCHANGED <<sent, touched, fired, rows, drifts, texts, graded, busy,
                   cadences, userVars, task, faults>>

\* A prompt of the user that is long enough to be graded; a shorter or a
\* synthesized one is dropped without effect.
Prompt(s) ==
    /\ sent < MaxPrompts
    /\ userQ' = [userQ EXCEPT ![s] = @ + 1]
    /\ sent' = sent + 1
    /\ UNCHANGED <<turns, lines, scopeVars, rubricVars, prompts, asked, userBusy,
                   userRuns, task, faults>>

-----------------------------------------------------------------------------
(* Scope. *)

MaxOf(S) == CHOOSE x \in S : \A y \in S : y <= x

RowsOf(table, s) == {i \in DOMAIN table : table[i].s = s}
Peak(table, s) == MaxOf({table[i].n : i \in RowsOf(table, s)})

\* The Window sessions, among those given, with the newest snapshots.
Recent(table, among) ==
    LET seen == {s \in among : RowsOf(table, s) # {}}
        newest(s) == MaxOf(RowsOf(table, s))
    IN  {s \in seen : Cardinality({r \in seen : newest(r) > newest(s)}) < Window}

\* The upper median of the peaks of some sessions; 0 for none.
Median(table, of) ==
    IF of = {} THEN 0
    ELSE CHOOSE m \in {Peak(table, s) : s \in of} :
            LET half == Cardinality(of) \div 2 IN
            /\ Cardinality({s \in of : Peak(table, s) < m}) <= half
            /\ Cardinality({s \in of : Peak(table, s) <= m}) > half

\* baseline_files_touched: every session of the project, the running ones too.
Baseline(table) == Median(table, Recent(table, Sessions \cup Earlier))

Outgrown(n, baseline) ==
    /\ n >= Floor
    /\ baseline > 0
    /\ n > MaxOf({Floor, baseline * Factor})

\* The next line is taken from the queue, and its files are added.
TakeLine(s) ==
    /\ task[Scope] = Idle
    /\ scopeQ[s] # <<>>
    /\ scopeQ' = [scopeQ EXCEPT ![s] = Tail(@)]
    /\ touched' = [touched EXCEPT ![s] =
                       IF Head(scopeQ[s]).tool THEN @ \cup Head(scopeQ[s]).files
                       ELSE @]

Noted(s) == Head(scopeQ[s]).tool \/ Head(scopeQ[s]).new

\* Faulty variant of Snapshot: every creep is recorded and triggers.
SnapshotRefires(s) ==
    LET n == Cardinality(touched'[s])
        creep == Outgrown(n, Baseline(rows))
    IN
    /\ TakeLine(s)
    /\ Noted(s)
    /\ rows' = Append(rows, [s |-> s, n |-> n, creep |-> creep])
    /\ fired' = [fired EXCEPT ![s] = @ \/ creep]
    /\ task' = [task EXCEPT ![Scope] = IF creep THEN [pc |-> "drift", s |-> s]
                                       ELSE Idle]
    /\ UNCHANGED <<worldVars, drifts, rubricVars, userVars, faults>>

\* A tool call, or the first line of a turn: a snapshot, and the first creep
\* of the session is on its way.  (The check of last_snapshot_turn is without
\* effect, nothing sets it.)
Snapshot(s) ==
    LET n == Cardinality(touched'[s])
        creep == Outgrown(n, Baseline(rows))
    IN
    /\ TakeLine(s)
    /\ Noted(s)
    /\ rows' = Append(rows, [s |-> s, n |-> n, creep |-> creep])
    /\ fired' = [fired EXCEPT ![s] = @ \/ creep]
    /\ task' = [task EXCEPT ![Scope] = IF creep /\ ~fired[s]
                                       THEN [pc |-> "drift", s |-> s] ELSE Idle]
    /\ UNCHANGED <<worldVars, drifts, rubricVars, userVars, faults>>

\* Any other line; nothing is recorded.
PassLine(s) ==
    /\ TakeLine(s)
    /\ ~Noted(s)
    /\ UNCHANGED <<worldVars, fired, rows, drifts, rubricVars, userVars, task,
                   faults>>

\* Reading the baseline or writing the snapshot raises: the line is done with.
SnapshotFails(s) ==
    /\ faults < MaxFaults
    /\ TakeLine(s)
    /\ Noted(s)
    /\ faults' = faults + 1
    /\ UNCHANGED <<worldVars, fired, rows, drifts, rubricVars, userVars, task>>

RecordDrift ==
    /\ task[Scope].pc = "drift"
    /\ drifts' = [drifts EXCEPT ![task[Scope].s] = @ + 1]
    /\ task' = [task EXCEPT ![Scope].pc = "creep"]
    /\ UNCHANGED <<worldVars, scopeQ, touched, fired, rows, rubricVars, userVars,
                   faults>>

\* Writing the drift row raises: creep_fired stays, the creep goes unrecorded.
DriftFails ==
    /\ task[Scope].pc = "drift"
    /\ faults < MaxFaults
    /\ faults' = faults + 1
    /\ task' = [task EXCEPT ![Scope] = Idle]
    /\ UNCHANGED <<worldVars, scopeVars, rubricVars, userVars>>

-----------------------------------------------------------------------------
(* The rubric. *)

\* Faulty variant of BeginRun: in_flight is not looked at.
BeginRunUnchecked(w, s) ==
    /\ busy' = [busy EXCEPT ![s] = TRUE]
    /\ graded' = [graded EXCEPT ![s] = turns[s]]
    /\ task' = [task EXCEPT ![w] = [pc |-> "run", s |-> s]]

\* in_flight is tested and taken under a lock that is never held across an
\* await, so that both are one step.
BeginRun(w, s) ==
    /\ ~busy[s]
    /\ busy' = [busy EXCEPT ![s] = TRUE]
    /\ graded' = [graded EXCEPT ![s] = turns[s]]
    /\ task' = [task EXCEPT ![w] = [pc |-> "run", s |-> s]]

\* trigger: the creep has been published, and the scope worker itself makes the
\* run, unless there is no text yet or another run is in flight.
GradeCreep ==
    LET s == task[Scope].s IN
    /\ task[Scope].pc = "creep"
    /\ texts[s] > 0
    /\ BeginRun(Scope, s)
    /\ UNCHANGED <<worldVars, scopeVars, rubricQ, texts, cadences, userVars, faults>>

PassCreep ==
    LET s == task[Scope].s IN
    /\ task[Scope].pc = "creep"
    /\ texts[s] = 0 \/ busy[s]
    /\ task' = [task EXCEPT ![Scope] = Idle]
    /\ UNCHANGED <<worldVars, scopeVars, rubricVars, userVars, faults>>

\* Faulty variant of CadenceDue: last_run_turn is not looked at.
CadenceDueAgain(s) == turns[s] > 0 /\ turns[s] % Interval = 0

\* The turn count of the moment, however many turns the queue lags behind.
CadenceDue(s) ==
    /\ turns[s] > 0
    /\ turns[s] # graded[s]
    /\ turns[s] % Interval = 0

TakeText(s) ==
    /\ task[Rubric] = Idle
    /\ rubricQ[s] # <<>>
    /\ rubricQ' = [rubricQ EXCEPT ![s] = Tail(@)]
    /\ texts' = [texts EXCEPT ![s] = IF Head(rubricQ[s]).prose = "short" THEN @
                                     ELSE @ + 1]

Wanted(s) ==
    /\ Head(rubricQ[s]).prose # "short"
    /\ CadenceDue(s) \/ Head(rubricQ[s]).prose = "claim"

Grade(s) ==
    /\ TakeText(s)
    /\ Wanted(s)
    /\ BeginRun(Rubric, s)
    /\ cadences' = [cadences EXCEPT ![s] = IF CadenceDue(s) THEN Append(@, turns[s])
                                           ELSE @]
    /\ UNCHANGED <<worldVars, scopeVars, userVars, faults>>

PassText(s) ==
    /\ TakeText(s)
    /\ Wanted(s) => busy[s]
    /\ UNCHANGED <<worldVars, scopeVars, graded, busy, cadences, userVars, task,
                   faults>>

\* Faulty variant of EndRun: a run that a creep triggered is not given back.
EndRunOfRubric(w) ==
    /\ w = Rubric
    /\ task[w].pc = "run"
    /\ busy' = [busy EXCEPT ![task[w].s] = FALSE]
    /\ task' = [task EXCEPT ![w] = Idle]
    /\ UNCHANGED <<worldVars, scopeVars, rubricQ, texts, graded, cadences, userVars,
                   faults>>

\* The run is over: the scores were recorded, or the LLM or the ledger raised.
EndRun(w) ==
    /\ w # User
    /\ task[w].pc = "run"
    /\ busy' = [busy EXCEPT ![task[w].s] = FALSE]
    /\ task' = [task EXCEPT ![w] = Idle]
    /\ UNCHANGED <<worldVars, scopeVars, rubricQ, texts, graded, cadences, userVars,
                   faults>>

-----------------------------------------------------------------------------
(* The user rubric, which goes by the number of prompts it has processed. *)

TakePrompt(s) ==
    /\ task[User] = Idle
    /\ userQ[s] > 0
    /\ userQ' = [userQ EXCEPT ![s] = @ - 1]
    /\ prompts' = [prompts EXCEPT ![s] = @ + 1]

UserDue(s) ==
    /\ prompts[s] + 1 # asked[s]
    /\ (prompts[s] + 1) % UserInterval = 0

GradeUser(s) ==
    /\ TakePrompt(s)
    /\ UserDue(s)
    /\ ~userBusy[s]
    /\ userBusy' = [userBusy EXCEPT ![s] = TRUE]
    /\ asked' = [asked EXCEPT ![s] = prompts'[s]]
    /\ task' = [task EXCEPT ![User] = [pc |-> "run", s |-> s]]
    /\ userRuns' = [userRuns EXCEPT ![s] = @ + 1]
    /\ UNCHANGED <<worldVars, scopeVars, rubricVars, faults>>

PassPrompt(s) ==
    /\ TakePrompt(s)
    /\ UserDue(s) => userBusy[s]
    /\ UNCHANGED <<worldVars, scopeVars, rubricVars, asked, userBusy, userRuns,
                   task, faults>>

\* Faulty variant of EndUserRun: in_flight stays.
EndUserRunBusy ==
    /\ task[User].pc = "run"
    /\ task' = [task EXCEPT ![User] = Idle]
    /\ UNCHANGED <<worldVars, scopeVars, rubricVars, userQ, prompts, asked, userBusy,
                   userRuns, faults>>

EndUserRun ==
    /\ task[User].pc = "run"
    /\ userBusy' = [userBusy EXCEPT ![task[User].s] = FALSE]
    /\ task' = [task EXCEPT ![User] = Idle]
    /\ UNCHANGED <<worldVars, scopeVars, rubricVars, userQ, prompts, asked,
                   userRuns, faults>>

-----------------------------------------------------------------------------
ScopeTakes(s) == Snapshot(s) \/ PassLine(s) \/ SnapshotFails(s)
ScopeGoesOn == RecordDrift \/ DriftFails \/ GradeCreep \/ PassCreep \/ EndRun(Scope)
RubricTakes(s) == Grade(s) \/ PassText(s)
UserTakes(s) == GradeUser(s) \/ PassPrompt(s)

Next ==
    \/ \E s \in Sessions :
          \/ Line(s) \/ Prompt(s)
          \/ ScopeTakes(s) \/ RubricTakes(s) \/ UserTakes(s)
    \/ ScopeGoesOn \/ EndRun(Rubric) \/ EndUserRun

Spec == Init /\ [][Next]_vars

\* The event loop resumes each worker, which takes the next line or goes on with
\* the one it has; calls of the LLM and of the ledger return or raise.
FairSpec ==
    /\ Spec
    /\ \A s \in Sessions : /\ WF_scopeQ(TakeLine(s))
                            /\ WF_rubricQ(TakeText(s))
                            /\ WF_userQ(TakePrompt(s))
    /\ WF_vars(ScopeGoesOn)
    /\ WF_vars(EndRun(Rubric))
    /\ WF_vars(EndUserRun)

-----------------------------------------------------------------------------
(* Properties. *)

Running(w, s) == task[w].pc = "run" /\ task[w].s = s

\* The scope worker's trigger and the rubric worker never have two rubric runs
\* of a session in flight, and neither flag outlives its run (_run_rubric).
OneRunPerSession ==
    \A s \in Sessions :
        /\ ~(Running(Scope, s) /\ Running(Rubric, s))
        /\ busy[s] <=> Running(Scope, s) \/ Running(Rubric, s)
        /\ userBusy[s] <=> Running(User, s)

\* The cadence grades a turn count at most once, though several lines of one
\* turn are processed at it, and creeps and claims are graded in between.
CadenceOncePerTurn ==
    \A s \in Sessions : \A i, j \in DOMAIN cadences[s] :
        i < j => cadences[s][i] < cadences[s][j]

DriftPending(s) == task[Scope].pc = "drift" /\ task[Scope].s = s

\* A session's first creep is recorded once and only once however many
\* snapshots outgrow the baseline, unless the ledger fails (_emit_snapshot).
CreepAccounted ==
    \A s \in Sessions :
        /\ fired[s] <=> \E i \in Len(History) + 1..Len(rows) :
                           rows[i].s = s /\ rows[i].creep
        /\ drifts[s] <= 1
        /\ faults = 0 => (drifts[s] = 1 <=>
                             fired[s] /\ ~DriftPending(s))

\* The user rubric runs at every UserInterval-th prompt exactly: the worker is
\* alone to run it, so that its flag never makes it pass one over.
UserCadence ==
    \A s \in Sessions : userRuns[s] = prompts[s] \div UserInterval

\* Everything queued is processed in the end, also while the scope worker
\* stands in for the rubric worker and whatever the calls come to.
AllJudged ==
    \A s \in Sessions :
        /\ []<>(scopeQ[s] = <<>> /\ rubricQ[s] = <<>> /\ userQ[s] = 0)
        /\ busy[s] ~> ~busy[s]

\* What scope_worker.py and baseline_files_touched say: growth is measured
\* against the prior sessions of the project.  A snapshot that outgrows the
\* median of the others is a creep.
OutgrowsPriorSessions ==
    \A i \in Len(History) + 1..Len(rows) :
        LET s == rows[i].s
            before == SubSeq(rows, 1, i - 1)
            prior == Median(before, Recent(before, (Sessions \cup Earlier) \ {s}))
        IN  Outgrown(rows[i].n, prior) => rows[i].creep

=============================================================================
