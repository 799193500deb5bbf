--------------------------- MODULE ScoringProofs ---------------------------
(***************************************************************************)
(* Proofs about Scoring for any sessions, lines, earlier snapshots and     *)
(* settings: type correctness, exclusion of rubric runs, the cadence of    *)
(* both rubrics, and the account of scope creeps.                          *)
(***************************************************************************)
EXTENDS Scoring, FiniteSetTheorems, SequenceTheorems, TLAPS

-----------------------------------------------------------------------------
(* Types. *)

LEMMA TaskStates ==
    ASSUME TypeOK, NEW w \in Workers
    PROVE  /\ task[w] = Idle \/ (task[w].pc \in Stages /\ task[w].s \in Sessions)
           /\ task[w].pc = "idle" <=> task[w] = Idle
           /\ task[w] # Idle => task[w] = [pc |-> task[w].pc, s |-> task[w].s]
  BY ScoringAssumption, SMTT(30) DEF TypeOK, Idle, Stages

LEMMA TheWorkers == Scope \in Workers /\ Rubric \in Workers /\ User \in Workers
  BY DEF Workers

\* Counting files is counting a finite set.
LEMMA FilesCounted ==
    ASSUME NEW S \in SUBSET Files
    PROVE  Cardinality(S) \in Nat
  BY ScoringAssumption, FS_Subset, FS_CardinalityType

\* The head and the rest of a queue of lines.
LEMMA QueueParts ==
    ASSUME NEW q \in Seq(Lines), q # <<>>
    PROVE  Head(q) \in LineShapes /\ Tail(q) \in Seq(Lines)
<1>1. Head(q) \in Lines /\ Tail(q) \in Seq(Lines)
  BY HeadTailProperties
<1> QED BY <1>1, ScoringAssumption

LEMMA TypeInit == Init => TypeOK
  BY ScoringAssumption DEF Init, TypeOK, Idle, Workers

LEMMA TypeLine == ASSUME TypeOK, NEW s \in Sessions, Line(s) PROVE TypeOK'
<1>1. PICK l \in Lines :
        /\ lines < MaxLines
        /\ l.new => turns[s] < MaxTurns
        /\ turns' = [turns EXCEPT ![s] = IF l.new THEN @ + 1 ELSE @]
        /\ scopeQ' = [scopeQ EXCEPT ![s] = Append(@, l)]
        /\ rubricQ' = [rubricQ EXCEPT ![s] = IF l.live THEN Append(@, l) ELSE @]
        /\ lines' = lines + 1
        /\ UNCHANGED <<sent, touched, fired, rows, drifts, texts, graded, busy,
                       cadences, userVars, task, faults>>
  BY DEF Line
<1>2. turns' \in [Sessions -> 0..MaxTurns]
  <2>1. turns[s] \in 0..MaxTurns /\ MaxTurns \in Nat
    BY ScoringAssumption DEF TypeOK
  <2>2. (IF l.new THEN turns[s] + 1 ELSE turns[s]) \in 0..MaxTurns
    BY <1>1, <2>1
  <2> QED BY <1>1, <2>2 DEF TypeOK
<1>3. lines' \in 0..MaxLines
  <2>1. lines \in 0..MaxLines /\ MaxLines \in Nat
    BY ScoringAssumption DEF TypeOK
  <2> QED BY <1>1, <2>1
<1>4. scopeQ' \in [Sessions -> Seq(Lines)] /\ rubricQ' \in [Sessions -> Seq(Lines)]
  BY <1>1, AppendProperties DEF TypeOK
<1>5. /\ touched' = touched /\ fired' = fired /\ rows' = rows /\ drifts' = drifts
      /\ texts' = texts /\ graded' = graded /\ busy' = busy
      /\ cadences' = cadences /\ userQ' = userQ /\ prompts' = prompts
      /\ asked' = asked /\ userBusy' = userBusy /\ userRuns' = userRuns
      /\ task' = task /\ sent' = sent /\ faults' = faults
  BY <1>1 DEF userVars
<1> QED BY <1>2, <1>3, <1>4, <1>5 DEF TypeOK

LEMMA TypePrompt == ASSUME TypeOK, NEW s \in Sessions, Prompt(s) PROVE TypeOK'
<1>1. userQ' \in [Sessions -> Nat]
  <2>1. userQ[s] + 1 \in Nat
    BY SMTT(30) DEF TypeOK
  <2> QED BY <2>1 DEF Prompt, TypeOK
<1>2. sent' \in 0..MaxPrompts
  BY ScoringAssumption DEF Prompt, TypeOK
<1>3. UNCHANGED <<turns, lines, scopeQ, touched, fired, rows, drifts, rubricQ, texts,
                  graded, busy, cadences, prompts, asked, userBusy, userRuns, task,
                  faults>>
  BY DEF Prompt, scopeVars, rubricVars
<1> QED BY <1>1, <1>2, <1>3 DEF TypeOK

\* What taking a line does to the queue and to the files touched.
LEMMA TypeTakeLine ==
    ASSUME TypeOK, NEW s \in Sessions, TakeLine(s)
    PROVE  /\ scopeQ' \in [Sessions -> Seq(Lines)]
           /\ touched' \in [Sessions -> SUBSET Files]
<1>1. scopeQ[s] \in Seq(Lines) /\ scopeQ[s] # <<>> /\ touched[s] \in SUBSET Files
  BY DEF TypeOK, TakeLine
<1>2. Head(scopeQ[s]).files \in SUBSET Files /\ Tail(scopeQ[s]) \in Seq(Lines)
  BY <1>1, QueueParts DEF LineShapes
<1>3. scopeQ' \in [Sessions -> Seq(Lines)]
  BY <1>2 DEF TakeLine, TypeOK
<1>4. touched' \in [Sessions -> SUBSET Files]
  BY <1>1, <1>2 DEF TakeLine, TypeOK
<1> QED BY <1>3, <1>4

\* What a snapshot appends, and where it leaves the scope worker.
Noting(s, creep) ==
    /\ rows' = Append(rows, [s |-> s, n |-> Cardinality(touched'[s]), creep |-> creep])
    /\ fired' = [fired EXCEPT ![s] = @ \/ creep]
    /\ task' = [task EXCEPT ![Scope] = IF creep /\ ~fired[s]
                                       THEN [pc |-> "drift", s |-> s] ELSE Idle]

LEMMA SnapshotNotes ==
    ASSUME NEW s \in Sessions, Snapshot(s)
    PROVE  /\ TakeLine(s)
           /\ \E creep \in BOOLEAN : Noting(s, creep)
           /\ UNCHANGED <<worldVars, drifts, rubricVars, userVars, faults>>
<1> DEFINE creep == Outgrown(Cardinality(touched'[s]), Baseline(rows))
<1>1. creep \in BOOLEAN
  BY DEF Outgrown
<1>2. Noting(s, creep)
  BY DEF Snapshot, Noting
<1> HIDE DEF creep
<1>3. \E c \in BOOLEAN : Noting(s, c)
  BY <1>1, <1>2
<1> QED BY <1>3 DEF Snapshot

LEMMA TypeSnapshot == ASSUME TypeOK, NEW s \in Sessions, Snapshot(s) PROVE TypeOK'
<1>1. PICK creep \in BOOLEAN : Noting(s, creep)
  BY SnapshotNotes
<1>2. scopeQ' \in [Sessions -> Seq(Lines)] /\ touched' \in [Sessions -> SUBSET Files]
  BY SnapshotNotes, TypeTakeLine
<1>3. Cardinality(touched'[s]) \in Nat
  BY <1>2, FilesCounted
<1>4. rows' \in Seq(Rows)
  BY <1>1, <1>3, AppendProperties DEF Noting, Rows, TypeOK
<1>5. fired' \in [Sessions -> BOOLEAN]
  BY <1>1 DEF Noting, TypeOK
<1>6. /\ task' \in [Workers -> {Idle} \cup [pc : Stages, s : Sessions]]
      /\ \A w \in {Rubric, User} : task'[w] = task[w]
  BY <1>1, TheWorkers, ScoringAssumption DEF Noting, TypeOK, Stages
<1> QED BY <1>2, <1>4, <1>5, <1>6, SnapshotNotes
        DEF TypeOK, worldVars, rubricVars, userVars

LEMMA TypePassLine ==
    ASSUME TypeOK, NEW s \in Sessions, PassLine(s) \/ SnapshotFails(s)
    PROVE  TypeOK'
<1>1. /\ TakeLine(s)
      /\ UNCHANGED <<worldVars, fired, rows, drifts, rubricVars, userVars, task>>
      /\ faults' \in 0..MaxFaults
  BY ScoringAssumption, SMTT(30) DEF PassLine, SnapshotFails, TypeOK
<1>2. scopeQ' \in [Sessions -> Seq(Lines)] /\ touched' \in [Sessions -> SUBSET Files]
  BY <1>1, TypeTakeLine
<1> QED BY <1>1, <1>2 DEF TypeOK, worldVars, rubricVars, userVars

\* The scope worker moves on, with a session it has.
LEMMA TypeScopeTask ==
    ASSUME TypeOK, NEW t \in {Idle} \cup [pc : Stages, s : Sessions],
           NEW w \in Workers, task' = [task EXCEPT ![w] = t],
           w # Scope => t.pc \in {"idle", "run"}
    PROVE  /\ task' \in [Workers -> {Idle} \cup [pc : Stages, s : Sessions]]
           /\ \A u \in {Rubric, User} : task'[u].pc \in {"idle", "run"}
  BY TheWorkers, ScoringAssumption DEF TypeOK

LEMMA TypeDrift == ASSUME TypeOK, RecordDrift \/ DriftFails PROVE TypeOK'
<1>1. task[Scope].s \in Sessions /\ task[Scope] = [pc |-> "drift", s |-> task[Scope].s]
  BY TaskStates, TheWorkers DEF RecordDrift, DriftFails, Idle
<1>2. CASE RecordDrift
  <2>1. task' = [task EXCEPT ![Scope] = [pc |-> "creep", s |-> task[Scope].s]]
    <3>1. [task[Scope] EXCEPT !.pc = "creep"] = [pc |-> "creep", s |-> task[Scope].s]
      BY <1>1
    <3> QED BY <1>2, <3>1 DEF RecordDrift
  <2>2. /\ task' \in [Workers -> {Idle} \cup [pc : Stages, s : Sessions]]
        /\ \A u \in {Rubric, User} : task'[u].pc \in {"idle", "run"}
    BY <1>1, <2>1, TypeScopeTask, TheWorkers DEF Stages
  <2>3. drifts' \in [Sessions -> Nat]
    <3>1. drifts[task[Scope].s] + 1 \in Nat
      BY <1>1, SMTT(30) DEF TypeOK
    <3> QED BY <1>2, <3>1 DEF RecordDrift, TypeOK
  <2> QED BY <1>2, <2>2, <2>3 DEF RecordDrift, TypeOK, worldVars, rubricVars, userVars
<1>3. CASE DriftFails
  <2>1. /\ task' \in [Workers -> {Idle} \cup [pc : Stages, s : Sessions]]
        /\ \A u \in {Rubric, User} : task'[u].pc \in {"idle", "run"}
    BY <1>3, TypeScopeTask, TheWorkers DEF DriftFails, Idle
  <2>2. faults' \in 0..MaxFaults
    BY <1>3, ScoringAssumption DEF DriftFails, TypeOK
  <2> QED BY <1>3, <2>1, <2>2
          DEF DriftFails, TypeOK, worldVars, scopeVars, rubricVars, userVars
<1> QED BY <1>2, <1>3

LEMMA TypeBeginRun ==
    ASSUME TypeOK, NEW w \in {Scope, Rubric}, NEW s \in Sessions, BeginRun(w, s)
    PROVE  /\ busy' \in [Sessions -> BOOLEAN]
           /\ graded' \in [Sessions -> -1..MaxTurns]
           /\ task' \in [Workers -> {Idle} \cup [pc : Stages, s : Sessions]]
           /\ \A u \in {Rubric, User} : task'[u].pc \in {"idle", "run"}
<1>1. busy' \in [Sessions -> BOOLEAN]
  BY DEF BeginRun, TypeOK
<1>2. graded' \in [Sessions -> -1..MaxTurns]
  <2>1. turns[s] \in -1..MaxTurns
    BY ScoringAssumption DEF TypeOK
  <2> QED BY <2>1 DEF BeginRun, TypeOK
<1>3. /\ task' \in [Workers -> {Idle} \cup [pc : Stages, s : Sessions]]
      /\ \A u \in {Rubric, User} : task'[u].pc \in {"idle", "run"}
  BY TypeScopeTask, TheWorkers DEF BeginRun, Stages
<1> QED BY <1>1, <1>2, <1>3

LEMMA TypeCreep == ASSUME TypeOK, GradeCreep \/ PassCreep PROVE TypeOK'
<1>1. task[Scope].s \in Sessions
  BY TaskStates, TheWorkers DEF GradeCreep, PassCreep, Idle
<1>2. CASE GradeCreep
  <2>1. BeginRun(Scope, task[Scope].s)
    BY <1>2 DEF GradeCreep
  <2>2. /\ busy' \in [Sessions -> BOOLEAN]
        /\ graded' \in [Sessions -> -1..MaxTurns]
        /\ task' \in [Workers -> {Idle} \cup [pc : Stages, s : Sessions]]
        /\ \A u \in {Rubric, User} : task'[u].pc \in {"idle", "run"}
    BY <1>1, <2>1, TypeBeginRun
  <2> QED BY <1>2, <2>2 DEF GradeCreep, TypeOK, worldVars, scopeVars, userVars
<1>3. CASE PassCreep
  <2>1. /\ task' \in [Workers -> {Idle} \cup [pc : Stages, s : Sessions]]
        /\ \A u \in {Rubric, User} : task'[u].pc \in {"idle", "run"}
    BY <1>3, TypeScopeTask, TheWorkers DEF PassCreep, Idle
  <2> QED BY <1>3, <2>1
          DEF PassCreep, TypeOK, worldVars, scopeVars, rubricVars, userVars
<1> QED BY <1>2, <1>3

LEMMA TypeTakeText ==
    ASSUME TypeOK, NEW s \in Sessions, TakeText(s)
    PROVE  /\ rubricQ' \in [Sessions -> Seq(Lines)]
           /\ texts' \in [Sessions -> Nat]
<1>1. rubricQ[s] \in Seq(Lines) /\ rubricQ[s] # <<>> /\ texts[s] \in Nat
  BY DEF TypeOK, TakeText
<1>2. Tail(rubricQ[s]) \in Seq(Lines)
  BY <1>1, QueueParts
<1>3. rubricQ' \in [Sessions -> Seq(Lines)]
  BY <1>2 DEF TakeText, TypeOK
<1>4. texts' \in [Sessions -> Nat]
  BY <1>1, SMTT(30) DEF TakeText, TypeOK
<1> QED BY <1>3, <1>4

LEMMA TypeRubric ==
    ASSUME TypeOK, NEW s \in Sessions, Grade(s) \/ PassText(s)
    PROVE  TypeOK'
<1>1. CASE Grade(s)
  <2>1. rubricQ' \in [Sessions -> Seq(Lines)] /\ texts' \in [Sessions -> Nat]
    BY <1>1, TypeTakeText DEF Grade
  <2>2. /\ busy' \in [Sessions -> BOOLEAN]
        /\ graded' \in [Sessions -> -1..MaxTurns]
        /\ task' \in [Workers -> {Idle} \cup [pc : Stages, s : Sessions]]
        /\ \A u \in {Rubric, User} : task'[u].pc \in {"idle", "run"}
    BY <1>1, TypeBeginRun DEF Grade
  <2>3. cadences' \in [Sessions -> Seq(Nat)]
    <3>1. turns[s] \in Nat /\ cadences[s] \in Seq(Nat)
      BY ScoringAssumption DEF TypeOK
    <3>2. Append(cadences[s], turns[s]) \in Seq(Nat)
      BY <3>1, AppendProperties
    <3> QED BY <1>1, <3>1, <3>2 DEF Grade, TypeOK
  <2> QED BY <1>1, <2>1, <2>2, <2>3 DEF Grade, TypeOK, worldVars, scopeVars, userVars
<1>2. CASE PassText(s)
  <2>1. rubricQ' \in [Sessions -> Seq(Lines)] /\ texts' \in [Sessions -> Nat]
    BY <1>2, TypeTakeText DEF PassText
  <2> QED BY <1>2, <2>1 DEF PassText, TypeOK, worldVars, scopeVars, userVars
<1> QED BY <1>1, <1>2

LEMMA TypeEndRun ==
    ASSUME TypeOK, NEW w \in {Scope, Rubric}, EndRun(w)
    PROVE  TypeOK'
<1>1. task[w].s \in Sessions
  BY TaskStates, TheWorkers DEF EndRun, Idle
<1>2. busy' \in [Sessions -> BOOLEAN]
  BY DEF EndRun, TypeOK
<1>3. /\ task' \in [Workers -> {Idle} \cup [pc : Stages, s : Sessions]]
      /\ \A u \in {Rubric, User} : task'[u].pc \in {"idle", "run"}
  BY TypeScopeTask, TheWorkers DEF EndRun, Idle
<1> QED BY <1>2, <1>3 DEF EndRun, TypeOK, worldVars, scopeVars, userVars

LEMMA TypeUser ==
    ASSUME TypeOK, NEW s \in Sessions, GradeUser(s) \/ PassPrompt(s)
    PROVE  TypeOK'
<1>1. TakePrompt(s)
  BY DEF GradeUser, PassPrompt
<1>2. userQ' \in [Sessions -> Nat] /\ prompts' \in [Sessions -> Nat]
  <2>1. userQ[s] - 1 \in Nat /\ prompts[s] + 1 \in Nat
    BY <1>1, SMTT(30) DEF TakePrompt, TypeOK
  <2> QED BY <1>1, <2>1 DEF TakePrompt, TypeOK
<1>3. CASE GradeUser(s)
  <2>1. userBusy' \in [Sessions -> BOOLEAN]
    BY <1>3 DEF GradeUser, TypeOK
  <2>2. asked' \in [Sessions -> Nat] /\ userRuns' \in [Sessions -> Nat]
    <3>1. prompts'[s] \in Nat /\ userRuns[s] + 1 \in Nat
      BY <1>2, SMTT(30) DEF TypeOK
    <3> QED BY <1>3, <3>1 DEF GradeUser, TypeOK
  <2>3. /\ task' \in [Workers -> {Idle} \cup [pc : Stages, s : Sessions]]
        /\ \A u \in {Rubric, User} : task'[u].pc \in {"idle", "run"}
    BY <1>3, TypeScopeTask, TheWorkers DEF GradeUser, Stages
  <2> QED BY <1>2, <1>3, <2>1, <2>2, <2>3
          DEF GradeUser, TypeOK, worldVars, scopeVars, rubricVars
<1>4. CASE PassPrompt(s)
  BY <1>2, <1>4 DEF PassPrompt, TypeOK, worldVars, scopeVars, rubricVars
<1> QED BY <1>3, <1>4

LEMMA TypeEndUserRun == ASSUME TypeOK, EndUserRun PROVE TypeOK'
<1>1. userBusy' \in [Sessions -> BOOLEAN]
  BY DEF EndUserRun, TypeOK
<1>2. /\ task' \in [Workers -> {Idle} \cup [pc : Stages, s : Sessions]]
      /\ \A u \in {Rubric, User} : task'[u].pc \in {"idle", "run"}
  BY TypeScopeTask, TheWorkers DEF EndUserRun, Idle
<1> QED BY <1>1, <1>2 DEF EndUserRun, TypeOK, worldVars, scopeVars, rubricVars

LEMMA TypeStep == TypeOK /\ [Next]_vars => TypeOK'
<1> SUFFICES ASSUME TypeOK, [Next]_vars PROVE TypeOK'
  OBVIOUS
<1>1. ASSUME NEW s \in Sessions, Line(s) \/ Prompt(s) PROVE TypeOK'
  BY <1>1, TypeLine, TypePrompt
<1>2. ASSUME NEW s \in Sessions, ScopeTakes(s) PROVE TypeOK'
  BY <1>2, TypeSnapshot, TypePassLine DEF ScopeTakes
<1>3. ASSUME NEW s \in Sessions, RubricTakes(s) PROVE TypeOK'
  BY <1>3, TypeRubric DEF RubricTakes
<1>4. ASSUME NEW s \in Sessions, UserTakes(s) PROVE TypeOK'
  BY <1>4, TypeUser DEF UserTakes
<1>5. ASSUME ScopeGoesOn PROVE TypeOK'
  BY <1>5, TypeDrift, TypeCreep, TypeEndRun DEF ScopeGoesOn
<1>6. CASE UNCHANGED vars
  BY <1>6 DEF TypeOK, vars, worldVars, scopeVars, rubricVars, userVars
<1> QED BY <1>1, <1>2, <1>3, <1>4, <1>5, <1>6, TypeEndRun, TypeEndUserRun DEF Next

\* The types of all variables, for any sessions, lines and settings: queues
\* hold lines, counts are counts, and only the scope worker has other states
\* than idle and grading.
THEOREM TypeCorrect == Spec => []TypeOK
  BY TypeInit, TypeStep, PTL DEF Spec

-----------------------------------------------------------------------------
(* Rubric runs exclude each other. *)

LEMMA ExclusionInit == Init => OneRunPerSession
  BY ScoringAssumption, TheWorkers DEF Init, OneRunPerSession, Running, Idle

\* A step that changes neither the flags nor who is running changes nothing.
LEMMA SameRuns ==
    ASSUME OneRunPerSession, UNCHANGED <<busy, userBusy>>,
           \A w \in Workers : \A s \in Sessions : Running(w, s)' <=> Running(w, s)
    PROVE  OneRunPerSession'
  BY TheWorkers DEF OneRunPerSession

LEMMA ExclusionStep ==
    ASSUME TypeOK, OneRunPerSession, [Next]_vars
    PROVE  OneRunPerSession'
<1> USE TheWorkers
<1>1. ASSUME NEW s \in Sessions, Line(s) \/ Prompt(s) PROVE OneRunPerSession'
  <2>1. UNCHANGED <<busy, userBusy, task>>
    BY <1>1 DEF Line, Prompt, userVars, rubricVars
  <2> QED BY <2>1, SameRuns DEF Running
<1>2. ASSUME NEW s \in Sessions, ScopeTakes(s) PROVE OneRunPerSession'
  <2>1. UNCHANGED <<busy, userBusy>>
    BY <1>2 DEF ScopeTakes, Snapshot, PassLine, SnapshotFails, userVars, rubricVars
  <2>2. CASE Snapshot(s)
    <3>1. task[Scope].pc = "idle" /\ task'[Scope].pc \in {"idle", "drift"}
      BY <2>2 DEF Snapshot, TakeLine, TypeOK, Idle
    <3>2. \A w \in Workers \ {Scope} : task'[w] = task[w]
      BY <2>2 DEF Snapshot, TypeOK
    <3>3. \A w \in Workers : \A x \in Sessions : Running(w, x)' <=> Running(w, x)
      BY <3>1, <3>2 DEF Running
    <3> QED BY <2>1, <3>3, SameRuns
  <2>3. CASE PassLine(s) \/ SnapshotFails(s)
    <3>1. task' = task
      BY <2>3 DEF PassLine, SnapshotFails
    <3> QED BY <2>1, <3>1, SameRuns DEF Running
  <2> QED BY <1>2, <2>2, <2>3 DEF ScopeTakes
<1>3. ASSUME RecordDrift \/ DriftFails \/ PassCreep PROVE OneRunPerSession'
  <2>1. UNCHANGED <<busy, userBusy>>
    BY <1>3 DEF RecordDrift, DriftFails, PassCreep, userVars, rubricVars
  <2>2. /\ task[Scope].pc \in {"drift", "creep"}
        /\ task' = [task EXCEPT ![Scope] = task'[Scope]]
        /\ task'[Scope].pc \in {"idle", "creep"}
    <3>1. Scope \in DOMAIN task
      BY DEF TypeOK
    <3>2. CASE RecordDrift
      <4>1. task[Scope] = [pc |-> "drift", s |-> task[Scope].s]
        BY <3>2, TaskStates DEF RecordDrift, Idle
      <4>2. task'[Scope] = [task[Scope] EXCEPT !.pc = "creep"]
        BY <3>1, <3>2 DEF RecordDrift
      <4>3. task'[Scope].pc = "creep"
        BY <4>1, <4>2
      <4> QED BY <3>1, <3>2, <4>3 DEF RecordDrift
    <3>3. CASE DriftFails \/ PassCreep
      BY <3>1, <3>3 DEF DriftFails, PassCreep, Idle
    <3> QED BY <1>3, <3>2, <3>3
  <2>3. \A w \in Workers : \A x \in Sessions : Running(w, x)' <=> Running(w, x)
    BY <2>2 DEF Running, TypeOK
  <2> QED BY <2>1, <2>3, SameRuns
<1>4. ASSUME NEW w \in {Scope, Rubric}, NEW s \in Sessions, BeginRun(w, s),
             task[w].pc # "run", userBusy' = userBusy
      PROVE  OneRunPerSession'
  <2>1. ~busy[s] /\ ~Running(Scope, s) /\ ~Running(Rubric, s)
    BY <1>4 DEF BeginRun, OneRunPerSession
  <2>2. \A x \in Sessions : ~Running(w, x)
    BY <1>4 DEF Running
  <2>3. \A x \in Sessions : Running(w, x)' <=> x = s
    BY <1>4 DEF BeginRun, Running, TypeOK
  <2>4. \A u \in Workers \ {w}, x \in Sessions : Running(u, x)' <=> Running(u, x)
    BY <1>4 DEF BeginRun, Running, TypeOK
  <2>5. \A x \in Sessions : busy'[x] <=> busy[x] \/ x = s
    BY <1>4 DEF BeginRun, TypeOK
  <2> QED BY <1>4, <2>1, <2>2, <2>3, <2>4, <2>5, ScoringAssumption DEF OneRunPerSession
<1>5. ASSUME GradeCreep PROVE OneRunPerSession'
  <2>1. task[Scope].s \in Sessions
    BY <1>5, TaskStates DEF GradeCreep, Idle
  <2> QED BY <1>4, <1>5, <2>1 DEF GradeCreep, userVars
<1>6. ASSUME NEW s \in Sessions, RubricTakes(s) PROVE OneRunPerSession'
  <2>1. CASE Grade(s)
    BY <1>4, <2>1 DEF Grade, TakeText, Idle, userVars
  <2>2. CASE PassText(s)
    <3>1. UNCHANGED <<busy, userBusy, task>>
      BY <2>2 DEF PassText, userVars
    <3> QED BY <3>1, SameRuns DEF Running
  <2> QED BY <1>6, <2>1, <2>2 DEF RubricTakes
<1>7. ASSUME NEW w \in {Scope, Rubric}, EndRun(w) PROVE OneRunPerSession'
  <2>1. PICK s \in Sessions : task[w].pc = "run" /\ task[w].s = s
    BY <1>7, TaskStates DEF EndRun, Idle
  <2>2. \A x \in Sessions : /\ Running(w, x) <=> x = s
                            /\ ~Running(w, x)'
    <3>1. task'[w].pc = "idle"
      BY <1>7, SMTT(30) DEF EndRun, TypeOK, Idle
    <3> QED BY <2>1, <3>1 DEF Running
  <2>3. \A u \in Workers \ {w}, x \in Sessions : Running(u, x)' <=> Running(u, x)
    BY <1>7 DEF EndRun, Running, TypeOK
  <2>4. \A x \in Sessions : busy'[x] <=> busy[x] /\ x # s
    BY <1>7, <2>1 DEF EndRun, TypeOK
  <2>5. userBusy' = userBusy
    BY <1>7 DEF EndRun, userVars
  <2>6. ASSUME NEW x \in Sessions
        PROVE  /\ ~(Running(Scope, x)' /\ Running(Rubric, x)')
               /\ busy'[x] <=> Running(Scope, x)' \/ Running(Rubric, x)'
               /\ userBusy'[x] <=> Running(User, x)'
    <3>1. /\ ~(Running(Scope, x) /\ Running(Rubric, x))
          /\ busy[x] <=> Running(Scope, x) \/ Running(Rubric, x)
          /\ userBusy[x] <=> Running(User, x)
      BY DEF OneRunPerSession
    <3>2. /\ Running(w, x) <=> x = s
          /\ ~Running(w, x)'
          /\ busy'[x] <=> busy[x] /\ x # s
          /\ Running(User, x)' <=> Running(User, x)
      <4>1. User \in Workers \ {w}
        BY ScoringAssumption
      <4> QED BY <2>2, <2>3, <2>4, <4>1 DEF Running
    <3>3. CASE w = Scope
      <4>1. Running(Rubric, x)' <=> Running(Rubric, x)
        BY <2>3, <3>3, ScoringAssumption
      <4> QED BY <2>5, <3>1, <3>2, <3>3, <4>1
    <3>4. CASE w = Rubric
      <4>1. Running(Scope, x)' <=> Running(Scope, x)
        BY <2>3, <3>4, ScoringAssumption
      <4> QED BY <2>5, <3>1, <3>2, <3>4, <4>1
    <3> QED BY <3>3, <3>4
  <2> QED BY <2>6 DEF OneRunPerSession
<1>8. ASSUME NEW s \in Sessions, UserTakes(s) PROVE OneRunPerSession'
  <2>1. UNCHANGED busy /\ task[User] = Idle
    BY <1>8 DEF UserTakes, GradeUser, PassPrompt, TakePrompt, rubricVars
  <2>2. CASE GradeUser(s)
    <3>1. \A x \in Sessions : ~Running(User, x)
      BY <2>1 DEF Running, Idle
    <3>2. \A x \in Sessions : Running(User, x)' <=> x = s
      <4>1. task'[User].pc = "run" /\ task'[User].s = s
        BY <2>2 DEF GradeUser, TypeOK
      <4> QED BY <4>1 DEF Running
    <3>3. \A x \in Sessions : userBusy'[x] <=> userBusy[x] \/ x = s
      BY <2>2 DEF GradeUser, TypeOK
    <3>4. \A w \in Workers \ {User} : task'[w] = task[w]
      BY <2>2 DEF GradeUser, TypeOK
    <3>5. \A w \in {Scope, Rubric}, x \in Sessions : Running(w, x)' <=> Running(w, x)
      BY <3>4, ScoringAssumption DEF Running
    <3> QED BY <2>1, <3>1, <3>2, <3>3, <3>5 DEF OneRunPerSession
  <2>3. CASE PassPrompt(s)
    <3>1. UNCHANGED <<busy, userBusy, task>>
      BY <2>3 DEF PassPrompt, rubricVars
    <3> QED BY <3>1, SameRuns DEF Running
  <2> QED BY <1>8, <2>2, <2>3 DEF UserTakes
<1>9. ASSUME EndUserRun PROVE OneRunPerSession'
  <2>1. PICK s \in Sessions : task[User].pc = "run" /\ task[User].s = s
    BY <1>9, TaskStates DEF EndUserRun, Idle
  <2>2. \A x \in Sessions : /\ Running(User, x) <=> x = s
                            /\ ~Running(User, x)'
    <3>1. task'[User].pc = "idle"
      BY <1>9 DEF EndUserRun, TypeOK, Idle
    <3> QED BY <2>1, <3>1 DEF Running
  <2>3. \A w \in {Scope, Rubric}, x \in Sessions : Running(w, x)' <=> Running(w, x)
    <3>1. \A w \in Workers \ {User} : task'[w] = task[w]
      BY <1>9 DEF EndUserRun, TypeOK
    <3> QED BY <3>1, ScoringAssumption DEF Running
  <2>5. \A x \in Sessions : userBusy'[x] <=> userBusy[x] /\ x # s
    BY <1>9, <2>1 DEF EndUserRun, TypeOK
  <2>4. busy' = busy
    BY <1>9 DEF EndUserRun, rubricVars
  <2> QED BY <2>2, <2>3, <2>4, <2>5 DEF OneRunPerSession
<1>10. CASE UNCHANGED vars
  <2>1. UNCHANGED <<busy, userBusy, task>>
    BY <1>10 DEF vars, rubricVars, userVars
  <2> QED BY <2>1, SameRuns DEF Running
<1> QED BY <1>1, <1>2, <1>3, <1>5, <1>6, <1>7, <1>8, <1>9, <1>10
        DEF Next, ScopeGoesOn

\* The scope worker's trigger and the rubric worker exclude each other, and the
\* flags say truly whether a run is in flight (_run_rubric).
THEOREM RunsExclude == Spec => []OneRunPerSession
  BY TypeInit, TypeStep, ExclusionInit, ExclusionStep, PTL DEF Spec

-----------------------------------------------------------------------------
(* The cadence. *)

\* What makes CadenceOncePerTurn inductive: the turn graded last is not ahead of
\* the turn count, and no cadence run is of a later turn than that.
CadenceInv ==
    \A s \in Sessions :
        /\ graded[s] <= turns[s]
        /\ \A i \in DOMAIN cadences[s] : cadences[s][i] <= graded[s]
        /\ \A i, j \in DOMAIN cadences[s] : i < j => cadences[s][i] < cadences[s][j]

LEMMA CadenceInit == Init => CadenceInv
<1> SUFFICES ASSUME Init, NEW s \in Sessions
             PROVE  graded[s] <= turns[s] /\ cadences[s] = <<>>
  BY DEF CadenceInv
<1>1. graded[s] = -1 /\ turns[s] \in 0..MaxTurns /\ cadences[s] = <<>>
  BY DEF Init
<1> QED BY <1>1, ScoringAssumption

LEMMA CadenceStep == ASSUME TypeOK, CadenceInv, [Next]_vars PROVE CadenceInv'
<1> SUFFICES ASSUME NEW s \in Sessions
             PROVE  /\ graded'[s] <= turns'[s]
                    /\ \A i \in DOMAIN cadences'[s] : cadences'[s][i] <= graded'[s]
                    /\ \A i, j \in DOMAIN cadences'[s] :
                           i < j => cadences'[s][i] < cadences'[s][j]
  BY DEF CadenceInv
<1>1. /\ graded[s] \in Int /\ turns[s] \in Nat /\ cadences[s] \in Seq(Nat)
      /\ graded[s] <= turns[s]
      /\ \A i \in DOMAIN cadences[s] : cadences[s][i] <= graded[s]
      /\ \A i, j \in DOMAIN cadences[s] : i < j => cadences[s][i] < cadences[s][j]
  BY ScoringAssumption DEF TypeOK, CadenceInv
<1>2. CASE UNCHANGED <<graded, cadences>> /\ turns'[s] >= turns[s] /\ turns'[s] \in Nat
  BY <1>1, <1>2
<1>3. CASE /\ UNCHANGED turns
           /\ graded'[s] = graded[s] \/ graded'[s] = turns[s]
           /\ cadences'[s] = cadences[s]
  BY <1>1, <1>3
<1>4. CASE /\ UNCHANGED turns
           /\ graded'[s] = turns[s] /\ graded[s] # turns[s]
           /\ cadences'[s] = Append(cadences[s], turns[s])
  <2>1. /\ DOMAIN cadences'[s] = 1..Len(cadences[s]) + 1
        /\ DOMAIN cadences[s] = 1..Len(cadences[s])
        /\ Len(cadences[s]) \in Nat
        /\ \A i \in 1..Len(cadences[s]) : cadences'[s][i] = cadences[s][i]
        /\ cadences'[s][Len(cadences[s]) + 1] = turns[s]
        /\ \A i \in 1..Len(cadences[s]) : cadences[s][i] \in Nat
    BY <1>1, <1>4, AppendProperties
  <2>2. \A i \in 1..Len(cadences[s]) : cadences[s][i] < turns[s]
    <3>1. graded[s] < turns[s]
      BY <1>1, <1>4
    <3>2. ASSUME NEW i \in 1..Len(cadences[s]) PROVE cadences[s][i] < turns[s]
      <4>1. cadences[s][i] <= graded[s] /\ cadences[s][i] \in Nat
        BY <1>1, <2>1
      <4> QED BY <1>1, <3>1, <4>1
    <3> QED BY <3>2
  <2> QED BY <1>1, <1>4, <2>1, <2>2, SMTT(30)
<1>5. ASSUME NEW x \in Sessions, Line(x)
      PROVE  UNCHANGED <<graded, cadences>> /\ turns'[s] >= turns[s] /\ turns'[s] \in Nat
  <2>1. PICK l \in Lines : turns' = [turns EXCEPT ![x] = IF l.new THEN @ + 1 ELSE @]
    BY <1>5 DEF Line
  <2>2. turns'[s] = turns[s] \/ turns'[s] = turns[s] + 1
    BY <2>1 DEF TypeOK
  <2>3. UNCHANGED <<graded, cadences>>
    BY <1>5 DEF Line
  <2> QED BY <1>1, <2>2, <2>3
<1>6. ASSUME NEW x \in Sessions, NEW w \in Workers, BeginRun(w, x)
      PROVE  graded'[s] = graded[s] \/ graded'[s] = turns[s]
  BY <1>6 DEF BeginRun, TypeOK
<1>7. ASSUME NEW x \in Sessions, Grade(x)
      PROVE  \/ /\ UNCHANGED turns
                /\ graded'[s] = graded[s] \/ graded'[s] = turns[s]
                /\ cadences'[s] = cadences[s]
             \/ /\ UNCHANGED turns
                /\ graded'[s] = turns[s] /\ graded[s] # turns[s]
                /\ cadences'[s] = Append(cadences[s], turns[s])
  <2>1. UNCHANGED turns
    BY <1>7 DEF Grade, worldVars
  <2>2. graded'[s] = graded[s] \/ graded'[s] = turns[s]
    BY <1>6, <1>7, TheWorkers DEF Grade
  <2>3. CASE CadenceDue(x) /\ x = s
    <3>1. graded'[s] = turns[s] /\ graded[s] # turns[s]
      BY <1>7, <2>3 DEF Grade, BeginRun, CadenceDue, TypeOK
    <3>2. cadences'[s] = Append(cadences[s], turns[s])
      BY <1>7, <2>3 DEF Grade, TypeOK
    <3> QED BY <2>1, <3>1, <3>2
  <2>4. CASE ~(CadenceDue(x) /\ x = s)
    <3>1. cadences'[s] = cadences[s]
      BY <1>7, <2>4 DEF Grade, TypeOK
    <3> QED BY <2>1, <2>2, <3>1
  <2> QED BY <2>3, <2>4
<1>8. ASSUME GradeCreep
      PROVE  /\ UNCHANGED turns
             /\ graded'[s] = graded[s] \/ graded'[s] = turns[s]
             /\ cadences'[s] = cadences[s]
  <2>1. task[Scope].s \in Sessions
    BY <1>8, TaskStates, TheWorkers DEF GradeCreep, Idle
  <2> QED BY <1>6, <1>8, <2>1, TheWorkers DEF GradeCreep, worldVars
<1>9. ASSUME \/ \E x \in Sessions : \/ Prompt(x) \/ ScopeTakes(x) \/ PassText(x)
                                   \/ UserTakes(x)
             \/ RecordDrift \/ DriftFails \/ PassCreep \/ EndRun(Scope)
             \/ EndRun(Rubric) \/ EndUserRun \/ UNCHANGED vars
      PROVE  UNCHANGED <<graded, cadences>> /\ turns'[s] >= turns[s] /\ turns'[s] \in Nat
  <2>1. UNCHANGED <<turns, graded, cadences>>
    <3>1. ASSUME NEW x \in Sessions,
                 Prompt(x) \/ ScopeTakes(x) \/ PassText(x) \/ UserTakes(x)
          PROVE  UNCHANGED <<turns, graded, cadences>>
      BY <3>1 DEF Prompt, ScopeTakes, Snapshot, PassLine, SnapshotFails, PassText,
                  UserTakes, GradeUser, PassPrompt, worldVars, rubricVars
    <3>2. ASSUME \/ RecordDrift \/ DriftFails \/ PassCreep
                 \/ EndRun(Scope) \/ EndRun(Rubric) \/ EndUserRun
          PROVE  UNCHANGED <<turns, graded, cadences>>
      BY <3>2 DEF RecordDrift, DriftFails, PassCreep, EndRun, EndUserRun,
                  worldVars, rubricVars
    <3> QED BY <1>9, <3>1, <3>2 DEF vars, worldVars, rubricVars
  <2> QED BY <1>1, <2>1
<1>10. \/ \E x \in Sessions : Line(x)
       \/ \E x \in Sessions : Grade(x)
       \/ GradeCreep
       \/ \E x \in Sessions : \/ Prompt(x) \/ ScopeTakes(x) \/ PassText(x)
                              \/ UserTakes(x)
       \/ RecordDrift \/ DriftFails \/ PassCreep \/ EndRun(Scope)
       \/ EndRun(Rubric) \/ EndUserRun \/ UNCHANGED vars
  BY DEF Next, ScopeGoesOn, RubricTakes
<1> QED BY <1>2, <1>3, <1>4, <1>5, <1>7, <1>8, <1>9, <1>10

\* A turn count is graded for the cadence at most once, whatever else is graded
\* in between and however many lines of a turn are processed at it.
THEOREM CadenceNeverRepeats == Spec => []CadenceOncePerTurn
<1>1. CadenceInv => CadenceOncePerTurn
  BY DEF CadenceInv, CadenceOncePerTurn
<1> QED BY <1>1, TypeInit, TypeStep, CadenceInit, CadenceStep, PTL DEF Spec

-----------------------------------------------------------------------------
(* Scope creeps. *)

\* Snapshots of s in this life of the daemon that outgrew the baseline.
Crept(s) == \E i \in Len(History) + 1..Len(rows) : rows[i].s = s /\ rows[i].creep

\* The three clauses of CreepAccounted, and what is true while the drift row of
\* the first creep is being written.
CreepInv ==
    /\ Len(History) <= Len(rows)
    /\ \A s \in Sessions :
          /\ fired[s] <=> Crept(s)
          /\ drifts[s] <= 1
          /\ drifts[s] = 1 => fired[s] /\ ~DriftPending(s)
          /\ DriftPending(s) => fired[s]
          /\ faults = 0 /\ fired[s] /\ ~DriftPending(s) => drifts[s] = 1

LEMMA CreepInit == Init => CreepInv
<1> SUFFICES ASSUME Init, NEW s \in Sessions
             PROVE  ~fired[s] /\ ~Crept(s) /\ drifts[s] = 0 /\ ~DriftPending(s)
  BY ScoringAssumption DEF CreepInv, Init
<1>1. Len(History) \in Nat /\ rows = History
  BY ScoringAssumption DEF Init
<1>2. ~Crept(s)
  BY <1>1 DEF Crept
<1>3. task[Scope] = Idle
  BY TheWorkers DEF Init
<1> QED BY <1>2, <1>3 DEF Init, DriftPending, Idle

\* A step that leaves the snapshots and creep_fired alone.
LEMMA CreepKept ==
    ASSUME TypeOK, CreepInv, UNCHANGED <<rows, fired>>,
           faults' = 0 => faults = 0,
           \A s \in Sessions : \/ /\ drifts'[s] = drifts[s]
                                  /\ DriftPending(s)' <=> DriftPending(s)
                               \/ /\ DriftPending(s) /\ ~DriftPending(s)'
                                  /\ \/ drifts'[s] = drifts[s] + 1
                                     \/ drifts'[s] = drifts[s] /\ faults' # 0
    PROVE  CreepInv'
<1> SUFFICES ASSUME NEW s \in Sessions
             PROVE  /\ fired'[s] <=> Crept(s)'
                    /\ drifts'[s] <= 1
                    /\ drifts'[s] = 1 => fired'[s] /\ ~DriftPending(s)'
                    /\ DriftPending(s)' => fired'[s]
                    /\ faults' = 0 /\ fired'[s] /\ ~DriftPending(s)' => drifts'[s] = 1
  BY DEF CreepInv
<1>1. (Crept(s)' <=> Crept(s)) /\ fired'[s] = fired[s]
  BY DEF Crept
<1>2. drifts[s] \in Nat
  BY DEF TypeOK
<1>3. /\ fired[s] <=> Crept(s)
      /\ drifts[s] <= 1
      /\ drifts[s] = 1 => fired[s] /\ ~DriftPending(s)
      /\ DriftPending(s) => fired[s]
      /\ faults = 0 /\ fired[s] /\ ~DriftPending(s) => drifts[s] = 1
  BY DEF CreepInv
<1>4. CASE drifts'[s] = drifts[s] /\ (DriftPending(s)' <=> DriftPending(s))
  BY <1>1, <1>3, <1>4
<1>5. CASE /\ DriftPending(s) /\ ~DriftPending(s)'
           /\ \/ drifts'[s] = drifts[s] + 1
              \/ drifts'[s] = drifts[s] /\ faults' # 0
  <2>1. fired[s] /\ drifts[s] = 0
    BY <1>2, <1>3, <1>5
  <2> QED BY <1>1, <1>3, <1>5, <2>1
<1> QED BY <1>4, <1>5 DEF DriftPending

\* A snapshot is the only step that adds to the table.
LEMMA CreepNoted ==
    ASSUME TypeOK, CreepInv, NEW s \in Sessions, Snapshot(s)
    PROVE  CreepInv'
<1>1. PICK creep \in BOOLEAN : Noting(s, creep)
  BY SnapshotNotes
<1>2. /\ rows' = Append(rows, [s |-> s, n |-> Cardinality(touched'[s]), creep |-> creep])
      /\ fired' = [fired EXCEPT ![s] = @ \/ creep]
  BY <1>1 DEF Noting
<1>3. rows \in Seq(Rows) /\ Len(History) \in Nat /\ Len(rows) \in Nat
      /\ Len(History) <= Len(rows)
  BY ScoringAssumption DEF TypeOK, CreepInv
<1>4. /\ Len(rows') = Len(rows) + 1
      /\ \A i \in 1..Len(rows) : rows'[i] = rows[i]
      /\ rows'[Len(rows) + 1].s = s /\ rows'[Len(rows) + 1].creep = creep
  <2> DEFINE row == [s |-> s, n |-> Cardinality(touched'[s]), creep |-> creep]
  <2>1. row.s = s /\ row.creep = creep
    OBVIOUS
  <2>2. rows' = Append(rows, row)
    BY <1>2
  <2> HIDE DEF row
  <2> QED BY <1>3, <2>1, <2>2, AppendProperties
<1>5. task[Scope] = Idle
  BY DEF Snapshot, TakeLine
<1>6. \A x \in Sessions : DriftPending(x)' <=> x = s /\ creep /\ ~fired[s]
  <2>1. task'[Scope] = IF creep /\ ~fired[s] THEN [pc |-> "drift", s |-> s] ELSE Idle
    BY <1>1, TheWorkers DEF Noting, TypeOK
  <2> QED BY <2>1 DEF DriftPending, Idle
<1>7. \A x \in Sessions : ~DriftPending(x)
  BY <1>5 DEF DriftPending, Idle
<1>8. drifts' = drifts /\ faults' = faults
  BY SnapshotNotes
<1>9. Len(History) <= Len(rows')
  BY <1>3, <1>4
<1>10. ASSUME NEW x \in Sessions
       PROVE  /\ fired'[x] <=> Crept(x)'
              /\ drifts'[x] <= 1
              /\ drifts'[x] = 1 => fired'[x] /\ ~DriftPending(x)'
              /\ DriftPending(x)' => fired'[x]
              /\ faults' = 0 /\ fired'[x] /\ ~DriftPending(x)' => drifts'[x] = 1
  <2>1. Crept(x)' <=> Crept(x) \/ (x = s /\ creep)
    BY <1>3, <1>4 DEF Crept
  <2>2. fired'[x] <=> fired[x] \/ (x = s /\ creep)
    BY <1>2 DEF TypeOK
  <2>3. /\ fired[x] <=> Crept(x)
        /\ drifts[x] <= 1 /\ drifts[x] \in Nat
        /\ drifts[x] = 1 => fired[x]
        /\ faults = 0 /\ fired[x] => drifts[x] = 1
    BY <1>7 DEF CreepInv, TypeOK
  <2>4. DriftPending(x)' <=> x = s /\ creep /\ ~fired[s]
    BY <1>6 DEF DriftPending
  <2> QED BY <1>8, <2>1, <2>2, <2>3, <2>4
<1> QED BY <1>9, <1>10 DEF CreepInv

\* A step beside the writing of snapshots and drift rows.
LEMMA CreepAside ==
    ASSUME TypeOK, CreepInv, UNCHANGED <<rows, fired, drifts>>,
           faults' = faults \/ faults' = faults + 1,
           \/ task'[Scope] = task[Scope]
           \/ task[Scope].pc # "drift" /\ task'[Scope].pc # "drift"
    PROVE  CreepInv'
<1>1. faults' = 0 => faults = 0
  BY ScoringAssumption DEF TypeOK
<1>2. ASSUME NEW x \in Sessions
      PROVE  drifts'[x] = drifts[x] /\ (DriftPending(x)' <=> DriftPending(x))
  BY DEF DriftPending
<1> QED BY <1>1, <1>2, CreepKept

\* The drift row of the creep at hand is written, or cannot be.
LEMMA CreepRecorded ==
    ASSUME TypeOK, CreepInv, RecordDrift \/ DriftFails
    PROVE  CreepInv'
<1>1. task[Scope].pc = "drift" /\ task[Scope].s \in Sessions
  BY TaskStates, TheWorkers DEF RecordDrift, DriftFails, Idle
<1>2. UNCHANGED <<rows, fired>>
  BY DEF RecordDrift, DriftFails, scopeVars
<1>3. faults \in Nat /\ (faults' = faults \/ faults' = faults + 1)
  <2>1. faults \in Nat
    BY ScoringAssumption DEF TypeOK
  <2>2. faults' = faults \/ faults' = faults + 1
    BY DEF RecordDrift, DriftFails
  <2> QED BY <2>1, <2>2
<1>4. task'[Scope].pc # "drift"
  BY <1>1, TheWorkers DEF RecordDrift, DriftFails, TypeOK, Idle
<1>5. ASSUME NEW x \in Sessions
      PROVE  \/ /\ drifts'[x] = drifts[x]
                /\ DriftPending(x)' <=> DriftPending(x)
             \/ /\ DriftPending(x) /\ ~DriftPending(x)'
                /\ \/ drifts'[x] = drifts[x] + 1
                   \/ drifts'[x] = drifts[x] /\ faults' # 0
  <2>1. ~DriftPending(x)'
    BY <1>4 DEF DriftPending
  <2>2. CASE x # task[Scope].s
    <3>1. drifts'[x] = drifts[x]
      BY <2>2 DEF RecordDrift, DriftFails, scopeVars, TypeOK
    <3>2. ~DriftPending(x)
      BY <2>2 DEF DriftPending
    <3> QED BY <2>1, <3>1, <3>2
  <2>3. CASE x = task[Scope].s
    <3>1. DriftPending(x)
      BY <1>1, <2>3 DEF DriftPending
    <3>2. CASE RecordDrift
      <4>1. drifts'[x] = drifts[x] + 1
        BY <2>3, <3>2 DEF RecordDrift, TypeOK
      <4> QED BY <2>1, <3>1, <4>1
    <3>3. CASE DriftFails
      <4>1. drifts'[x] = drifts[x] /\ faults' # 0
        BY <1>3, <3>3 DEF DriftFails, scopeVars
      <4> QED BY <2>1, <3>1, <4>1
    <3> QED BY <3>2, <3>3
  <2> QED BY <2>2, <2>3
<1> QED BY <1>2, <1>3, <1>5, CreepKept

LEMMA CreepStep == ASSUME TypeOK, CreepInv, [Next]_vars PROVE CreepInv'
<1>1. ASSUME NEW s \in Sessions, Line(s) \/ Prompt(s) PROVE CreepInv'
  <2>1. UNCHANGED <<rows, fired, drifts, faults, task>>
    BY <1>1 DEF Line, Prompt, scopeVars
  <2> QED BY <2>1, CreepAside
<1>2. ASSUME NEW s \in Sessions, ScopeTakes(s) PROVE CreepInv'
  <2>1. CASE Snapshot(s)
    BY <2>1, CreepNoted
  <2>2. CASE PassLine(s) \/ SnapshotFails(s)
    <3>1. /\ UNCHANGED <<rows, fired, drifts, task>>
          /\ faults' = faults \/ faults' = faults + 1
      BY <2>2 DEF PassLine, SnapshotFails
    <3> QED BY <3>1, CreepAside
  <2> QED BY <1>2, <2>1, <2>2 DEF ScopeTakes
<1>3. ASSUME NEW s \in Sessions, RubricTakes(s) PROVE CreepInv'
  <2>1. UNCHANGED <<rows, fired, drifts, faults>>
    BY <1>3 DEF RubricTakes, Grade, PassText, scopeVars
  <2>2. task'[Scope] = task[Scope]
    BY <1>3, TheWorkers, ScoringAssumption
       DEF RubricTakes, Grade, BeginRun, PassText, TypeOK
  <2> QED BY <2>1, <2>2, CreepAside
<1>4. ASSUME NEW s \in Sessions, UserTakes(s) PROVE CreepInv'
  <2>1. UNCHANGED <<rows, fired, drifts, faults>>
    BY <1>4 DEF UserTakes, GradeUser, PassPrompt, scopeVars
  <2>2. task'[Scope] = task[Scope]
    BY <1>4, TheWorkers, ScoringAssumption DEF UserTakes, GradeUser, PassPrompt, TypeOK
  <2> QED BY <2>1, <2>2, CreepAside
<1>5. CASE RecordDrift \/ DriftFails
  BY <1>5, CreepRecorded
<1>6. CASE GradeCreep \/ PassCreep \/ EndRun(Scope)
  <2>1. UNCHANGED <<rows, fired, drifts, faults>>
    BY <1>6 DEF GradeCreep, PassCreep, EndRun, scopeVars
  <2>2. task[Scope].pc # "drift" /\ task'[Scope].pc # "drift"
    BY <1>6, TheWorkers, SMTT(30) DEF GradeCreep, BeginRun, PassCreep, EndRun, TypeOK, Idle
  <2> QED BY <2>1, <2>2, CreepAside
<1>7. CASE EndRun(Rubric) \/ EndUserRun
  <2>1. UNCHANGED <<rows, fired, drifts, faults>>
    BY <1>7 DEF EndRun, EndUserRun, scopeVars
  <2>2. task'[Scope] = task[Scope]
    BY <1>7, TheWorkers, ScoringAssumption DEF EndRun, EndUserRun, TypeOK
  <2> QED BY <2>1, <2>2, CreepAside
<1>8. CASE UNCHANGED vars
  <2>1. UNCHANGED <<rows, fired, drifts, faults, task>>
    BY <1>8 DEF vars, scopeVars
  <2> QED BY <2>1, CreepAside
<1> QED BY <1>1, <1>2, <1>3, <1>4, <1>5, <1>6, <1>7, <1>8 DEF Next, ScopeGoesOn

\* The first creep of a session is recorded exactly once, unless the ledger
\* fails: creep_fired is taken before the drift row is written, so that no
\* later snapshot starts another (_emit_snapshot).
THEOREM CreepsAccounted == Spec => []CreepAccounted
<1>1. TypeOK /\ CreepInv => CreepAccounted
  <2> SUFFICES ASSUME TypeOK, CreepInv, NEW s \in Sessions
               PROVE  /\ fired[s] <=> Crept(s)
                      /\ drifts[s] <= 1
                      /\ faults = 0 => (drifts[s] = 1 <=> fired[s] /\ ~DriftPending(s))
    BY DEF CreepAccounted, Crept
  <2> QED BY DEF CreepInv
<1> QED BY <1>1, TypeInit, TypeStep, CreepInit, CreepStep, PTL DEF Spec

-----------------------------------------------------------------------------
(* The cadence of the user rubric. *)

\* Counting on by one reaches the next multiple of k exactly when the new count
\* is one.
LEMMA DivStep ==
    ASSUME NEW n \in Nat, NEW k \in Nat \ {0}
    PROVE  /\ (n + 1) % k = 0 => (n + 1) \div k = n \div k + 1
           /\ (n + 1) % k # 0 => (n + 1) \div k = n \div k
<1> DEFINE q == n \div k
           r == n % k
           p == (n + 1) \div k
           t == (n + 1) % k
<1>1. n = k * q + r /\ r \in 0..k-1 /\ q \in Int
  OBVIOUS
<1>2. n + 1 = k * p + t /\ t \in 0..k-1 /\ p \in Int
  OBVIOUS
<1> HIDE DEF q, r, p, t
<1>3. k * (p - q) = r + 1 - t
  BY <1>1, <1>2, SMT
<1>4. p - q >= 0
  BY <1>1, <1>2, <1>3, SMTT(60)
<1>5. p - q <= 1
  BY <1>1, <1>2, <1>3, SMTT(60)
<1> QED BY <1>1, <1>2, <1>3, <1>4, <1>5, SMTT(60) DEF q, r, p, t

\* What makes UserCadence inductive: last_run_count is not ahead of the count
\* of prompts, so that the next prompt is never taken for one already graded.
UserInv ==
    \A s \in Sessions :
        /\ asked[s] <= prompts[s]
        /\ userRuns[s] = prompts[s] \div UserInterval

LEMMA UserInit == Init => UserInv
<1>1. 0 \div UserInterval = 0
  BY ScoringAssumption
<1> QED BY <1>1 DEF Init, UserInv

\* The worker that takes a prompt is not grading, and in_flight says so: the
\* prompt is graded when, and only when, the count has come to a multiple.
LEMMA UserCounts ==
    ASSUME TypeOK, OneRunPerSession, UserInv, NEW s \in Sessions,
           GradeUser(s) \/ PassPrompt(s)
    PROVE  UserInv'
<1> USE TheWorkers
<1>1. TakePrompt(s)
  BY DEF GradeUser, PassPrompt
<1>2. ~userBusy[s]
  BY <1>1 DEF TakePrompt, OneRunPerSession, Running, Idle
<1>3. /\ prompts[s] \in Nat /\ asked[s] \in Nat /\ userRuns[s] \in Nat
      /\ asked[s] <= prompts[s] /\ userRuns[s] = prompts[s] \div UserInterval
      /\ UserInterval \in Nat \ {0}
  BY ScoringAssumption DEF TypeOK, UserInv
<1>4. prompts' = [prompts EXCEPT ![s] = @ + 1] /\ prompts'[s] = prompts[s] + 1
  BY <1>1 DEF TakePrompt, TypeOK
<1>5. UserDue(s) <=> (prompts[s] + 1) % UserInterval = 0
  BY <1>3 DEF UserDue
<1>6. asked'[s] <= prompts'[s] /\ userRuns'[s] = prompts'[s] \div UserInterval
  <2>1. CASE GradeUser(s)
    <3>1. asked'[s] = prompts'[s] /\ userRuns'[s] = userRuns[s] + 1
      BY <2>1 DEF GradeUser, TypeOK
    <3>2. (prompts[s] + 1) \div UserInterval = prompts[s] \div UserInterval + 1
      BY <1>3, <1>5, <2>1, DivStep DEF GradeUser
    <3> QED BY <1>3, <1>4, <3>1, <3>2
  <2>2. CASE PassPrompt(s)
    <3>1. asked'[s] = asked[s] /\ userRuns'[s] = userRuns[s]
      BY <2>2 DEF PassPrompt
    <3>2. (prompts[s] + 1) \div UserInterval = prompts[s] \div UserInterval
      BY <1>2, <1>3, <1>5, <2>2, DivStep DEF PassPrompt
    <3> QED BY <1>3, <1>4, <3>1, <3>2
  <2> QED BY <2>1, <2>2
<1>7. ASSUME NEW t \in Sessions, t # s
      PROVE  UNCHANGED <<prompts[t], asked[t], userRuns[t]>>
  BY <1>4, <1>7 DEF GradeUser, PassPrompt, TypeOK
<1>8. ASSUME NEW t \in Sessions
      PROVE  asked'[t] <= prompts'[t] /\ userRuns'[t] = prompts'[t] \div UserInterval
  <2>1. CASE t = s
    BY <1>6, <2>1
  <2>2. CASE t # s
    BY <1>7, <2>2 DEF UserInv
  <2> QED BY <2>1, <2>2
<1> QED BY <1>8 DEF UserInv

LEMMA UserStep ==
    ASSUME TypeOK, OneRunPerSession, UserInv, [Next]_vars
    PROVE  UserInv'
<1>1. ASSUME UNCHANGED <<prompts, asked, userRuns>> PROVE UserInv'
  BY <1>1 DEF UserInv
<1>2. ASSUME NEW s \in Sessions, Line(s) \/ Prompt(s) \/ ScopeTakes(s) \/ RubricTakes(s)
      PROVE  UserInv'
  BY <1>1, <1>2
     DEF Line, Prompt, ScopeTakes, Snapshot, PassLine, SnapshotFails, RubricTakes,
         Grade, PassText, userVars
<1>3. ASSUME NEW s \in Sessions, UserTakes(s) PROVE UserInv'
  BY <1>3, UserCounts DEF UserTakes
<1>4. CASE ScopeGoesOn \/ EndRun(Rubric)
  BY <1>1, <1>4
     DEF ScopeGoesOn, RecordDrift, DriftFails, GradeCreep, PassCreep, EndRun, userVars
<1>5. CASE EndUserRun
  BY <1>1, <1>5 DEF EndUserRun
<1>6. CASE UNCHANGED vars
  BY <1>1, <1>6 DEF vars, userVars
<1> QED BY <1>2, <1>3, <1>4, <1>5, <1>6 DEF Next

\* The user rubric grades every UserInterval-th prompt and no other, whatever
\* order prompts, runs and their ends come in: its worker is alone to set
\* in_flight, and a run is over before the next prompt is taken.
THEOREM UserCadenceExact == Spec => []UserCadence
<1>1. UserInv => UserCadence
  BY DEF UserInv, UserCadence
<1> QED BY <1>1, TypeInit, TypeStep, ExclusionInit, ExclusionStep, UserInit, UserStep,
           PTL DEF Spec

=============================================================================
