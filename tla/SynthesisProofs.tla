-------------------------- MODULE SynthesisProofs --------------------------
(***************************************************************************)
(* Proofs about Synthesis for any sessions, any number of requests at the  *)
(* same time and any transcripts: type correctness, mutual exclusion of    *)
(* calls, fullness, notifications, and rewrites of intent.md.              *)
(***************************************************************************)
EXTENDS Synthesis, SequenceTheorems, TLAPS

-----------------------------------------------------------------------------
(* The inductive invariants. *)

\* A failed call of s still publishes its failure.
Failing(s) == \E t \in Tasks : task[t].pc = "failing" /\ task[t].s = s

\* Failures of s that had their chance of a notification.
Settled(s) == IF Failing(s) THEN failures[s] - 1 ELSE failures[s]

NoticesCount ==
    \A s \in Sessions :
        /\ Failing(s) => failures[s] > 0
        /\ notices[s] = IF Settled(s) >= FailLimit THEN 1 ELSE 0

\* The last turn of s that the worker processed filled the context.
High(s) == pos[s] > 0 /\ transcript[s][pos[s]] >= Full

\* While the trigger is armed in a full context, a rewrite is still owed for
\* the crossing that led there; a rewrite under way is one that is owed.
RewriteOwed ==
    \A s \in Sessions :
        /\ rewrites[s] <= crossings[s]
        /\ armed[s] /\ High(s) => rewrites[s] < crossings[s]
        /\ task[Worker] = [pc |-> "intent", s |-> s] => armed[s] /\ High(s)

-----------------------------------------------------------------------------
(* Types. *)

LEMMA TaskStates ==
    ASSUME TypeOK, NEW t \in Tasks
    PROVE  /\ task[t] = Idle \/ (task[t].pc \in Stages /\ task[t].s \in Sessions)
           /\ task[t].pc = "idle" <=> task[t] = Idle
           /\ task[t] # Idle => task[t] = [pc |-> task[t].pc, s |-> task[t].s]
           /\ \A s \in Sessions : InFlight(t, s) => task[t].pc \in Stages
  BY SynthesisAssumption DEF TypeOK, Idle, Stages, InFlight

LEMMA TurnLevels ==
    ASSUME TypeOK, NEW s \in Sessions
    PROVE  /\ Len(transcript[s]) \in Nat
           /\ \A i \in 1..Len(transcript[s]) : transcript[s][i] \in Levels
           /\ transcript[s] = <<>> <=> Len(transcript[s]) = 0
           /\ Latest(s) \in Levels \cup {0}
           /\ pos[s] < Len(transcript[s]) => Level(s) \in Levels
<1>1. transcript[s] \in Seq(Levels) /\ last[s] \in Levels \cup {0} /\ pos[s] \in Nat
  BY SynthesisAssumption DEF TypeOK
<1>2. /\ Len(transcript[s]) \in Nat
      /\ \A i \in 1..Len(transcript[s]) : transcript[s][i] \in Levels
      /\ transcript[s] = <<>> <=> Len(transcript[s]) = 0
  BY <1>1
<1>3. Latest(s) \in Levels \cup {0}
  BY <1>1, <1>2 DEF Latest
<1>4. pos[s] < Len(transcript[s]) => Level(s) \in Levels
  BY <1>1, <1>2 DEF Level
<1> QED BY <1>2, <1>3, <1>4

LEMMA TypeInit == Init => TypeOK
  BY SynthesisAssumption DEF Init, TypeOK, Tasks, Idle

\* What a task becomes when it moves on inside a call.
LEMMA GotoTo ==
    ASSUME TypeOK, NEW t \in Tasks, task[t].pc \in Stages, NEW stage, Goto(t, stage)
    PROVE  /\ task[t].s \in Sessions
           /\ task' = [task EXCEPT ![t] = [pc |-> stage, s |-> task[t].s]]
<1>1. task[t] = [pc |-> task[t].pc, s |-> task[t].s] /\ task[t].s \in Sessions
  BY TaskStates DEF Idle, Stages
<1>2. [task[t] EXCEPT !.pc = stage] = [pc |-> stage, s |-> task[t].s]
  BY <1>1
<1> QED BY <1>1, <1>2 DEF Goto

\* The four things a step can do to the tasks and to in_flight.
Starting(t, s, stage) ==
    /\ task[t] = Idle /\ ~busy[s]
    /\ busy' = [busy EXCEPT ![s] = TRUE]
    /\ task' = [task EXCEPT ![t] = [pc |-> stage, s |-> s]]

Moving(t, stage) ==
    /\ task[t].pc \in Stages /\ task[t].s \in Sessions
    /\ task' = [task EXCEPT ![t] = [pc |-> stage, s |-> task[t].s]]
    /\ busy' = busy

Ending(t) ==
    /\ task[t].pc \in Stages /\ task[t].s \in Sessions
    /\ Release(t)

TaskFlow ==
    \/ UNCHANGED <<busy, task>>
    \/ \E t \in Tasks, s \in Sessions :
          \/ Starting(t, s, "snapshot")
          \/ t = Worker /\ Starting(t, s, "intent")
    \/ \E t \in Tasks :
          \/ Moving(t, "failing")
          \/ task[t].pc = "snapshot" /\ Moving(t, "captured")
          \/ task[t].pc = "intent" /\ Moving(t, "updated")
    \/ \E t \in Tasks : Ending(t)

\* A step of Next, or none, is one of the four.
LEMMA StepFlow ==
    ASSUME TypeOK, [Next]_vars
    PROVE  TaskFlow
<1>1. ASSUME NEW s \in Sessions, Turn(s) \/ Elapse(s) \/ Observe(s) PROVE TaskFlow
  BY <1>1 DEF Turn, Elapse, Observe, TaskFlow
<1>2. ASSUME NEW s \in Sessions, FireComprehensive(s) PROVE TaskFlow
  <2>1. Starting(Worker, s, "intent")
    BY <1>2 DEF FireComprehensive, WantsIntent, Track, Begin, Starting
  <2> QED BY <2>1 DEF TaskFlow, Tasks
<1>3. ASSUME NEW s \in Sessions, FireIncremental(s) PROVE TaskFlow
  <2>1. Starting(Worker, s, "snapshot")
    BY <1>3 DEF FireIncremental, WantsSnapshot, Track, Begin, Starting
  <2> QED BY <2>1 DEF TaskFlow, Tasks
<1>4. ASSUME NEW t \in Requests, NEW s \in Sessions, OnDemand(t, s) PROVE TaskFlow
  <2>1. Starting(t, s, "snapshot")
    BY <1>4 DEF OnDemand, Begin, Starting
  <2> QED BY <2>1 DEF TaskFlow, Tasks
<1>5. ASSUME NEW t \in Tasks, CallFails(t) PROVE TaskFlow
  <2>1. task[t].pc \in Stages /\ Goto(t, "failing") /\ busy' = busy
    BY <1>5 DEF CallFails, Stages
  <2>2. Moving(t, "failing")
    BY <2>1, GotoTo DEF Moving
  <2> QED BY <2>2 DEF TaskFlow
<1>6. ASSUME NEW t \in Tasks, Capture(t) PROVE TaskFlow
  <2>1. task[t].pc = "snapshot" /\ Goto(t, "captured") /\ busy' = busy
    BY <1>6 DEF Capture
  <2>2. Moving(t, "captured")
    BY <2>1, GotoTo DEF Moving, Stages
  <2> QED BY <2>1, <2>2 DEF TaskFlow
<1>7. ASSUME NEW t \in Tasks, Rewrite(t) PROVE TaskFlow
  <2>1. task[t].pc = "intent" /\ Goto(t, "updated") /\ busy' = busy
    BY <1>7 DEF Rewrite
  <2>2. Moving(t, "updated")
    BY <2>1, GotoTo DEF Moving, Stages
  <2> QED BY <2>1, <2>2 DEF TaskFlow
<1>8. ASSUME NEW t \in Tasks,
             \/ Notify(t) \/ CaptureUnsaved(t) \/ Rebase(t)
             \/ RewriteUnsaved(t) \/ RewriteDone(t)
      PROVE  TaskFlow
  <2>1. task[t].pc \in Stages /\ Release(t)
    BY <1>8 DEF Notify, CaptureUnsaved, Rebase, RewriteUnsaved, RewriteDone, Stages
  <2>2. task[t].s \in Sessions
    BY <2>1, TaskStates DEF Idle, Stages
  <2> QED BY <2>1, <2>2 DEF TaskFlow, Ending
<1>9. CASE UNCHANGED vars
  BY <1>9 DEF TaskFlow, vars
<1> QED
  BY <1>1, <1>2, <1>3, <1>4, <1>5, <1>6, <1>7, <1>8, <1>9 DEF Next, Trigger, Return

LEMMA FlowType ==
    ASSUME TypeOK, TaskFlow
    PROVE  /\ task' \in [Tasks -> {Idle} \cup [pc : Stages, s : Sessions]]
           /\ \A t \in Requests : task'[t].pc \notin {"intent", "updated"}
           /\ busy' \in [Sessions -> BOOLEAN]
<1>0. /\ task \in [Tasks -> {Idle} \cup [pc : Stages, s : Sessions]]
      /\ \A t \in Requests : task[t].pc \notin {"intent", "updated"}
      /\ busy \in [Sessions -> BOOLEAN]
      /\ Worker \notin Requests
  BY SynthesisAssumption DEF TypeOK
<1>1. CASE UNCHANGED <<busy, task>>
  BY <1>0, <1>1
<1>2. ASSUME NEW t \in Tasks, NEW s \in Sessions,
             \/ Starting(t, s, "snapshot")
             \/ t = Worker /\ Starting(t, s, "intent")
      PROVE  /\ task' \in [Tasks -> {Idle} \cup [pc : Stages, s : Sessions]]
             /\ \A r \in Requests : task'[r].pc \notin {"intent", "updated"}
             /\ busy' \in [Sessions -> BOOLEAN]
  <2>1. PICK stage \in Stages :
           /\ task' = [task EXCEPT ![t] = [pc |-> stage, s |-> s]]
           /\ stage = "snapshot" \/ (stage = "intent" /\ t = Worker)
           /\ busy' = [busy EXCEPT ![s] = TRUE]
    BY <1>2 DEF Starting, Stages
  <2>2. [pc |-> stage, s |-> s] \in [pc : Stages, s : Sessions]
    OBVIOUS
  <2>3. t \in Requests => stage = "snapshot"
    BY <1>0, <2>1
  <2>4. task' \in [Tasks -> {Idle} \cup [pc : Stages, s : Sessions]]
    BY <1>0, <2>1, <2>2
  <2>5. \A r \in Requests : task'[r].pc \notin {"intent", "updated"}
    BY <1>0, <2>1, <2>3 DEF Tasks
  <2>6. busy' \in [Sessions -> BOOLEAN]
    BY <1>0, <2>1
  <2> QED BY <2>4, <2>5, <2>6
<1>3. ASSUME NEW t \in Tasks,
             \/ Moving(t, "failing")
             \/ task[t].pc = "snapshot" /\ Moving(t, "captured")
             \/ task[t].pc = "intent" /\ Moving(t, "updated")
      PROVE  /\ task' \in [Tasks -> {Idle} \cup [pc : Stages, s : Sessions]]
             /\ \A r \in Requests : task'[r].pc \notin {"intent", "updated"}
             /\ busy' \in [Sessions -> BOOLEAN]
  <2>1. PICK stage \in Stages :
           /\ task' = [task EXCEPT ![t] = [pc |-> stage, s |-> task[t].s]]
           /\ stage = "updated" => task[t].pc = "intent"
           /\ stage # "intent"
    BY <1>3 DEF Moving, Stages
  <2>2. [pc |-> stage, s |-> task[t].s] \in [pc : Stages, s : Sessions]
    BY <1>3 DEF Moving
  <2>3. t \in Requests => stage # "updated"
    BY <1>0, <2>1
  <2>4. task' \in [Tasks -> {Idle} \cup [pc : Stages, s : Sessions]]
    BY <1>0, <2>1, <2>2
  <2>5. \A r \in Requests : task'[r].pc \notin {"intent", "updated"}
    BY <1>0, <2>1, <2>3 DEF Tasks
  <2>6. busy' = busy
    BY <1>3 DEF Moving
  <2> QED BY <1>0, <2>4, <2>5, <2>6
<1>4. ASSUME NEW t \in Tasks, Ending(t)
      PROVE  /\ task' \in [Tasks -> {Idle} \cup [pc : Stages, s : Sessions]]
             /\ \A r \in Requests : task'[r].pc \notin {"intent", "updated"}
             /\ busy' \in [Sessions -> BOOLEAN]
  BY <1>0, <1>4 DEF Ending, Release, Stages, Tasks, Idle
<1> QED BY <1>1, <1>2, <1>3, <1>4 DEF TaskFlow

-----------------------------------------------------------------------------
(* Mutual exclusion of calls. *)

LEMMA ExclusionStep ==
    ASSUME TypeOK, OneCallPerSession, TaskFlow
    PROVE  OneCallPerSession'
<1>0. /\ task \in [Tasks -> {Idle} \cup [pc : Stages, s : Sessions]]
      /\ busy \in [Sessions -> BOOLEAN]
      /\ Idle.pc \notin Stages
  BY DEF TypeOK, Idle, Stages
<1>1. CASE UNCHANGED <<busy, task>>
  BY <1>1 DEF OneCallPerSession, InFlight
<1>2. ASSUME NEW t \in Tasks, NEW s \in Sessions, NEW stage \in {"snapshot", "intent"},
             Starting(t, s, stage)
      PROVE  OneCallPerSession'
  <2>1. /\ \A z \in Sessions : busy'[z] = IF z = s THEN TRUE ELSE busy[z]
        /\ \A u \in Tasks : task'[u] = IF u = t THEN [pc |-> stage, s |-> s] ELSE task[u]
        /\ task[t] = Idle /\ ~busy[s]
        /\ [pc |-> stage, s |-> s] # Idle
    BY <1>0, <1>2 DEF Starting, Idle
  <2>2. ASSUME NEW z \in Sessions
        PROVE  \A u \in Tasks : InFlight(u, z)' <=> (u = t /\ z = s) \/ InFlight(u, z)
    BY <2>1 DEF InFlight
  <2>3. \A u \in Tasks : ~InFlight(u, s)
    BY <2>1 DEF OneCallPerSession
  <2>4. ASSUME NEW z \in Sessions
        PROVE  /\ \A u, v \in Tasks : InFlight(u, z)' /\ InFlight(v, z)' => u = v
               /\ busy'[z] <=> \E u \in Tasks : InFlight(u, z)'
    <3>1. CASE z = s
      BY <2>1, <2>2, <2>3, <3>1
    <3>2. CASE z # s
      <4>1. busy'[z] = busy[z] /\ \A u \in Tasks : InFlight(u, z)' <=> InFlight(u, z)
        BY <2>1, <2>2, <3>2
      <4> QED BY <4>1 DEF OneCallPerSession
    <3> QED BY <3>1, <3>2
  <2> QED BY <2>4 DEF OneCallPerSession
<1>3. ASSUME NEW t \in Tasks, NEW stage \in Stages, Moving(t, stage)
      PROVE  OneCallPerSession'
  <2>1. ASSUME NEW u \in Tasks, NEW z \in Sessions
        PROVE  InFlight(u, z)' <=> InFlight(u, z)
    <3>1. task[t] # Idle /\ [pc |-> stage, s |-> task[t].s] # Idle
      BY <1>0, <1>3 DEF Moving, Idle
    <3>2. task'[u] = IF u = t THEN [pc |-> stage, s |-> task[t].s] ELSE task[u]
      BY <1>0, <1>3 DEF Moving
    <3> QED BY <3>1, <3>2 DEF InFlight
  <2> QED BY <1>3, <2>1 DEF OneCallPerSession, Moving
<1>4. ASSUME NEW t \in Tasks, Ending(t) PROVE OneCallPerSession'
  <2>1. /\ \A z \in Sessions : busy'[z] = IF z = task[t].s THEN FALSE ELSE busy[z]
        /\ \A u \in Tasks : task'[u] = IF u = t THEN Idle ELSE task[u]
        /\ task[t].s \in Sessions /\ task[t] # Idle
    BY <1>0, <1>4 DEF Ending, Release
  <2>2. ASSUME NEW z \in Sessions, NEW u \in Tasks
        PROVE  InFlight(u, z)' <=> u # t /\ InFlight(u, z)
    BY <2>1 DEF InFlight
  <2>3. InFlight(t, task[t].s)
    BY <2>1 DEF InFlight
  <2>4. \A z \in Sessions : z # task[t].s => ~InFlight(t, z)
    BY DEF InFlight
  <2>5. ASSUME NEW z \in Sessions
        PROVE  /\ \A u, v \in Tasks : InFlight(u, z)' /\ InFlight(v, z)' => u = v
               /\ busy'[z] <=> \E u \in Tasks : InFlight(u, z)'
    <3>1. /\ \A u, v \in Tasks : InFlight(u, z) /\ InFlight(v, z) => u = v
          /\ busy[z] <=> \E u \in Tasks : InFlight(u, z)
      BY DEF OneCallPerSession
    <3>2. \A u \in Tasks : InFlight(u, z)' <=> u # t /\ InFlight(u, z)
      BY <2>2
    <3>3. CASE z = task[t].s
      BY <2>1, <2>3, <3>1, <3>2, <3>3
    <3>4. CASE z # task[t].s
      BY <2>1, <2>4, <3>1, <3>2, <3>4
    <3> QED BY <3>3, <3>4
  <2> QED BY <2>5 DEF OneCallPerSession
<1>5. Stages = {"snapshot", "intent", "failing", "captured", "updated"}
  BY DEF Stages
<1> QED BY <1>1, <1>2, <1>3, <1>4, <1>5 DEF TaskFlow

-----------------------------------------------------------------------------
(* Type correctness. *)

\* The types of everything but task and busy.
LEMMA OtherTypes ==
    ASSUME TypeOK,
           transcript' \in [Sessions -> Seq(Levels)],
           \A s \in Sessions : Len(transcript'[s]) <= MaxTurns,
           pos' \in [Sessions -> 0..MaxTurns],
           \A s \in Sessions : pos'[s] <= Len(transcript'[s]),
           last' \in [Sessions -> Levels \cup {0}],
           base' \in [Sessions -> Levels \cup {0}],
           armed' \in [Sessions -> BOOLEAN],
           failures' \in [Sessions -> 0..MaxFailures],
           paused' \in [Sessions -> BOOLEAN],
           \A s \in Sessions : paused'[s] => failures'[s] >= FailLimit,
           notices' \in [Sessions -> Nat],
           crossings' \in [Sessions -> Nat],
           rewrites' \in [Sessions -> Nat],
           TaskFlow
    PROVE  TypeOK'
  BY FlowType DEF TypeOK

\* What every turn the worker processes does to the types.
LEMMA TrackTypes ==
    ASSUME TypeOK, NEW s \in Sessions, Track(s)
    PROVE  /\ Level(s) \in Levels /\ Latest(s) \in Levels
           /\ pos' \in [Sessions -> 0..MaxTurns]
           /\ \A z \in Sessions : pos'[z] <= Len(transcript'[z])
           /\ base' \in [Sessions -> Levels \cup {0}]
           /\ armed' \in [Sessions -> BOOLEAN]
           /\ crossings' \in [Sessions -> Nat]
           /\ UNCHANGED <<transcript, failures, paused, notices, rewrites>>
<1>1. /\ base[s] \in Levels \cup {0} /\ pos \in [Sessions -> 0..MaxTurns]
      /\ armed[s] \in BOOLEAN /\ crossings \in [Sessions -> Nat]
      /\ pos[s] < Len(transcript[s]) /\ Len(transcript[s]) \in Nat
      /\ MaxTurns \in Nat
  BY TurnLevels, SynthesisAssumption DEF TypeOK, Track
<1>2. Level(s) \in Levels /\ Latest(s) \in Levels
  BY <1>1, TurnLevels DEF Latest
<1>3. Rebased(s) \in Levels \cup {0} /\ Armed(s) \in BOOLEAN
  BY <1>1, <1>2 DEF Rebased, Armed
<1>4. UNCHANGED <<transcript, failures, paused, notices, rewrites>>
  BY DEF Track, backoffVars
<1>5. pos[s] + 1 <= MaxTurns
  BY <1>1 DEF TypeOK
<1>6. pos' \in [Sessions -> 0..MaxTurns]
  BY <1>1, <1>5 DEF Track
<1>7. \A z \in Sessions : pos'[z] <= Len(transcript'[z])
  BY <1>1, <1>4 DEF Track, TypeOK
<1>8. base' \in [Sessions -> Levels \cup {0}] /\ armed' \in [Sessions -> BOOLEAN]
  BY <1>3 DEF Track, TypeOK
<1>9. crossings' \in [Sessions -> Nat]
  BY <1>1 DEF Track
<1> QED
  BY <1>2, <1>4, <1>6, <1>7, <1>8, <1>9

LEMMA ResetTypes ==
    ASSUME TypeOK, NEW s \in Sessions, ResetBackoff(s)
    PROVE  /\ failures' \in [Sessions -> 0..MaxFailures]
           /\ paused' \in [Sessions -> BOOLEAN]
           /\ \A z \in Sessions : paused'[z] => failures'[z] >= FailLimit
           /\ notices' \in [Sessions -> Nat]
  BY SynthesisAssumption DEF TypeOK, ResetBackoff

LEMMA TypeStep ==
    ASSUME TypeOK, [Next]_vars
    PROVE  TypeOK'
<1>0. TaskFlow
  BY StepFlow
<1>a. /\ Stages = {"snapshot", "intent", "failing", "captured", "updated"}
      /\ FailLimit \in Nat /\ MaxTurns \in Nat /\ MaxFailures \in Nat
  BY SynthesisAssumption DEF Stages
<1>1. ASSUME NEW s \in Sessions, Turn(s) PROVE TypeOK'
  <2>1. PICK level \in Levels :
           transcript' = [transcript EXCEPT ![s] = Append(@, level)]
    BY <1>1 DEF Turn
  <2>2. /\ Append(transcript[s], level) \in Seq(Levels)
        /\ Len(Append(transcript[s], level)) = Len(transcript[s]) + 1
        /\ Len(transcript[s]) \in Nat
    BY DEF TypeOK
  <2>3. /\ transcript' \in [Sessions -> Seq(Levels)]
        /\ \A z \in Sessions : Len(transcript[z]) <= Len(transcript'[z])
        /\ \A z \in Sessions : Len(transcript'[z]) <= MaxTurns
    <3>1. \A z \in Sessions : Len(transcript[z]) \in Nat
      BY DEF TypeOK
    <3> QED BY <1>1, <1>a, <2>1, <2>2, <3>1 DEF Turn, TypeOK
  <2>4. UNCHANGED <<trackVars, busy, backoffVars, task, fileVars>>
    BY <1>1 DEF Turn
  <2>5. \A z \in Sessions : pos'[z] <= Len(transcript'[z])
    <3>1. ASSUME NEW z \in Sessions PROVE pos'[z] <= Len(transcript'[z])
      <4>1. /\ pos[z] \in Nat /\ Len(transcript[z]) \in Nat /\ Len(transcript'[z]) \in Nat
            /\ pos[z] <= Len(transcript[z]) /\ pos' = pos
        BY <1>a, <2>3, <2>4, SMTT(30) DEF TypeOK, trackVars
      <4> QED BY <2>3, <4>1
    <3> QED BY <3>1
  <2> QED BY <1>0, <2>3, <2>4, <2>5, OtherTypes
       DEF TypeOK, trackVars, backoffVars, fileVars
<1>2. ASSUME NEW s \in Sessions, Elapse(s) PROVE TypeOK'
  BY <1>0, <1>2, OtherTypes DEF Elapse, TypeOK, trackVars, fileVars
<1>3. ASSUME NEW s \in Sessions, Trigger(s) PROVE TypeOK'
  <2>1. Track(s) /\ (last' = [last EXCEPT ![s] = Level(s)]
                     \/ last' = [last EXCEPT ![s] = Latest(s)])
    BY <1>3 DEF Trigger, Observe, FireComprehensive, FireIncremental
  <2>2. last' \in [Sessions -> Levels \cup {0}]
    <3>1. Level(s) \in Levels /\ Latest(s) \in Levels
      BY <2>1, TrackTypes
    <3>2. \E v \in Levels : last' = [last EXCEPT ![s] = v]
      BY <2>1, <3>1
    <3> QED BY <3>2 DEF TypeOK
  <2> QED BY <1>0, <2>1, <2>2, TrackTypes, OtherTypes DEF TypeOK
<1>4. ASSUME NEW t \in Requests, NEW s \in Sessions, OnDemand(t, s) PROVE TypeOK'
  <2>1. last' \in [Sessions -> Levels \cup {0}]
    BY <1>4, TurnLevels DEF OnDemand, TypeOK
  <2> QED BY <1>0, <1>4, <2>1, OtherTypes DEF OnDemand, TypeOK, backoffVars, fileVars
<1>5. ASSUME NEW t \in Tasks, CallFails(t) PROVE TypeOK'
  <2> DEFINE s == task[t].s
  <2>1. s \in Sessions
    BY <1>5, TaskStates DEF CallFails, Idle
  <2>2. /\ failures[s] \in 0..MaxFailures /\ failures[s] < MaxFailures
        /\ failures' = [failures EXCEPT ![s] = @ + 1]
        /\ paused' = [paused EXCEPT ![s] = @ \/ failures[s] + 1 >= FailLimit]
        /\ UNCHANGED <<transcript, trackVars, busy, notices, fileVars>>
    BY <1>5, <2>1 DEF CallFails, TypeOK
  <2> HIDE DEF s
  <2>3. /\ failures' \in [Sessions -> 0..MaxFailures]
        /\ paused' \in [Sessions -> BOOLEAN]
    BY <1>a, <2>1, <2>2 DEF TypeOK
  <2>4. \A z \in Sessions : paused'[z] => failures'[z] >= FailLimit
    BY <1>a, <2>1, <2>2 DEF TypeOK
  <2> QED BY <1>0, <2>2, <2>3, <2>4, OtherTypes DEF TypeOK, trackVars, fileVars
<1>6. ASSUME NEW t \in Tasks, Notify(t) PROVE TypeOK'
  <2>1. \E n \in Nat : notices' = [notices EXCEPT ![task[t].s] = n]
    <3>1. notices[task[t].s] \in Nat
      BY <1>6, TaskStates DEF Notify, TypeOK, Idle
    <3>2. \/ notices' = [notices EXCEPT ![task[t].s] = notices[task[t].s] + 1]
          \/ notices' = [notices EXCEPT ![task[t].s] = notices[task[t].s]]
      BY <1>6 DEF Notify
    <3> QED BY <3>1, <3>2
  <2>2. notices' \in [Sessions -> Nat]
    BY <2>1 DEF TypeOK
  <2> QED BY <1>0, <1>6, <2>2, OtherTypes DEF Notify, TypeOK, trackVars, fileVars
<1>7. ASSUME NEW t \in Tasks, Capture(t) \/ CaptureUnsaved(t) PROVE TypeOK'
  <2>1. /\ ResetBackoff(task[t].s) /\ task[t].s \in Sessions
        /\ UNCHANGED <<transcript, trackVars, fileVars>>
    BY <1>7, TaskStates DEF Capture, CaptureUnsaved, Idle
  <2> QED BY <1>0, <2>1, ResetTypes, OtherTypes DEF TypeOK, trackVars, fileVars
<1>8. ASSUME NEW t \in Tasks, Rebase(t) PROVE TypeOK'
  <2>1. task[t].s \in Sessions
    BY <1>8, TaskStates DEF Rebase, Idle
  <2>2. base' \in [Sessions -> Levels \cup {0}]
    BY <1>8, <2>1 DEF Rebase, TypeOK
  <2> QED BY <1>0, <1>8, <2>2, OtherTypes DEF Rebase, TypeOK, backoffVars, fileVars
<1>9. ASSUME NEW t \in Tasks, Rewrite(t) PROVE TypeOK'
  <2>1. /\ ResetBackoff(task[t].s) /\ task[t].s \in Sessions
        /\ UNCHANGED <<transcript, pos, last, base, crossings>>
    BY <1>9, TaskStates DEF Rewrite, Idle
  <2>2. armed' \in [Sessions -> BOOLEAN] /\ rewrites' \in [Sessions -> Nat]
    BY <1>9, <2>1 DEF Rewrite, TypeOK
  <2> QED BY <1>0, <2>1, <2>2, ResetTypes, OtherTypes DEF TypeOK
<1>10. ASSUME NEW t \in Tasks, RewriteUnsaved(t) \/ RewriteDone(t) PROVE TypeOK'
  <2>1. UNCHANGED <<transcript, trackVars, backoffVars, fileVars>>
    BY <1>10 DEF RewriteUnsaved, RewriteDone
  <2> QED BY <1>0, <2>1, OtherTypes DEF TypeOK, trackVars, backoffVars, fileVars
<1>11. CASE UNCHANGED vars
  BY <1>0, <1>11, OtherTypes DEF TypeOK, vars, trackVars, backoffVars, fileVars
<1> QED
  BY <1>1, <1>2, <1>3, <1>4, <1>5, <1>6, <1>7, <1>8, <1>9, <1>10, <1>11
  DEF Next, Return

\* The state of the worker and of every request, and of every counter, stays
\* what synthesis_worker.py declares it to be; a session is in back-off only
\* after FailLimit failures in a row.
THEOREM TypeCorrect == Spec => []TypeOK
  BY TypeInit, TypeStep, PTL DEF Spec

LEMMA ExclusionInit == Init => OneCallPerSession
  BY DEF Init, OneCallPerSession, InFlight, Idle, Tasks

\* in_flight works as a lock: for any number of requests racing the worker,
\* at most one call per session is in flight, and the flag never lies.
THEOREM CallsExclude == Spec => []OneCallPerSession
<1>1. TypeOK /\ OneCallPerSession /\ [Next]_vars => OneCallPerSession'
  BY StepFlow, ExclusionStep
<1> QED BY TypeCorrect, ExclusionInit, <1>1, PTL DEF Spec

-----------------------------------------------------------------------------
(* Notifications. *)

\* A step that leaves the counts alone and no failing call behind or ahead.
LEMMA CountSame ==
    ASSUME TypeOK, NoticesCount, UNCHANGED <<failures, notices>>,
           \A u \in Tasks : \/ task'[u] = task[u]
                            \/ task[u].pc # "failing" /\ task'[u].pc # "failing"
    PROVE  NoticesCount'
<1>1. \A s \in Sessions : Failing(s)' <=> Failing(s)
  BY DEF Failing
<1>2. \A s \in Sessions : Settled(s)' = Settled(s)
  BY <1>1 DEF Settled
<1> QED BY <1>1, <1>2 DEF NoticesCount

\* A call excludes other failing calls of its session, and its own failure is
\* seen in its session only.
LEMMA FailingCalls ==
    ASSUME TypeOK, OneCallPerSession, NEW t \in Tasks, task[t].pc \in Stages,
           NEW s \in Sessions, s = task[t].s,
           \A u \in Tasks \ {t} : task'[u] = task[u],
           task'[t] = Idle \/ task'[t].s = s
    PROVE  /\ Failing(s) <=> task[t].pc = "failing"
           /\ Failing(s)' <=> task'[t].pc = "failing"
           /\ \A z \in Sessions \ {s} : Failing(z)' <=> Failing(z)
<1>1. InFlight(t, s)
  BY TaskStates DEF Idle, Stages, InFlight
<1>2. \A u \in Tasks : InFlight(u, s) => u = t
  BY <1>1 DEF OneCallPerSession
<1>3. \A u \in Tasks \ {t} : ~(task[u].pc = "failing" /\ task[u].s = s)
  BY <1>2 DEF InFlight, Idle
<1>4. Idle.pc # "failing"
  BY DEF Idle
<1>5. \A z \in Sessions \ {s} : ~(task[t].pc = "failing" /\ task[t].s = z)
  OBVIOUS
<1>6. \A z \in Sessions \ {s} : ~(task'[t].pc = "failing" /\ task'[t].s = z)
  BY <1>4
<1>7. task'[t].pc = "failing" => task'[t].s = s
  BY <1>4
<1>8. Failing(s) <=> task[t].pc = "failing"
  BY <1>3 DEF Failing
<1>9. Failing(s)' <=> task'[t].pc = "failing"
  <2>1. (\E u \in Tasks : task'[u].pc = "failing" /\ task'[u].s = s)
        <=> task'[t].pc = "failing"
    BY <1>3, <1>7
  <2> QED BY <2>1 DEF Failing
<1>10. ASSUME NEW z \in Sessions \ {s} PROVE Failing(z)' <=> Failing(z)
  BY <1>5, <1>6 DEF Failing
<1> QED BY <1>8, <1>9, <1>10

\* The count over a step that changes one session's part of it.
LEMMA CountOne ==
    ASSUME TypeOK, NoticesCount, NEW s \in Sessions,
           \A z \in Sessions \ {s} :
               /\ Failing(z)' <=> Failing(z)
               /\ failures'[z] = failures[z] /\ notices'[z] = notices[z],
           Failing(s)' => failures'[s] > 0,
           notices'[s] = IF Settled(s)' >= FailLimit THEN 1 ELSE 0
    PROVE  NoticesCount'
<1>1. ASSUME NEW z \in Sessions, z # s
      PROVE  /\ Failing(z)' => failures'[z] > 0
             /\ notices'[z] = IF Settled(z)' >= FailLimit THEN 1 ELSE 0
  <2>1. Settled(z)' = Settled(z)
    BY <1>1 DEF Settled
  <2> QED BY <1>1, <2>1 DEF NoticesCount
<1> QED BY <1>1 DEF NoticesCount

LEMMA CountStep ==
    ASSUME TypeOK, OneCallPerSession, NoticesCount, [Next]_vars
    PROVE  NoticesCount'
<1>0. /\ task \in [Tasks -> {Idle} \cup [pc : Stages, s : Sessions]]
      /\ FailLimit \in Nat /\ FailLimit > 0 /\ failures \in [Sessions -> Nat]
      /\ Idle.pc = "idle" /\ Worker \in Tasks /\ Requests \subseteq Tasks
  BY SynthesisAssumption DEF TypeOK, Idle, Tasks
<1>1. ASSUME NEW s \in Sessions, Turn(s) \/ Elapse(s) \/ Observe(s)
      PROVE  NoticesCount'
  BY <1>1, CountSame DEF Turn, Elapse, Observe, Track, backoffVars
<1>2. ASSUME NEW t \in Tasks, NEW s \in Sessions, NEW stage \in {"snapshot", "intent"},
             task[t] = Idle, Begin(t, s, stage), UNCHANGED backoffVars
      PROVE  NoticesCount'
  <2>1. \A u \in Tasks : \/ task'[u] = task[u]
                         \/ task[u].pc # "failing" /\ task'[u].pc # "failing"
    BY <1>0, <1>2 DEF Begin
  <2> QED BY <1>2, <2>1, CountSame DEF backoffVars
<1>3. ASSUME NEW s \in Sessions, FireComprehensive(s) \/ FireIncremental(s)
      PROVE  NoticesCount'
  <2>1. /\ task[Worker] = Idle /\ UNCHANGED backoffVars
        /\ Begin(Worker, s, "intent") \/ Begin(Worker, s, "snapshot")
    BY <1>3 DEF FireComprehensive, FireIncremental, Track
  <2> QED BY <1>0, <1>2, <2>1
<1>4. ASSUME NEW t \in Requests, NEW s \in Sessions, OnDemand(t, s) PROVE NoticesCount'
  BY <1>0, <1>2, <1>4 DEF OnDemand
<1>5. ASSUME NEW t \in Tasks, CallFails(t) PROVE NoticesCount'
  <2>0. PICK s \in Sessions : s = task[t].s
    BY <1>5, TaskStates DEF Idle, CallFails, Notify, Capture, CaptureUnsaved, Rewrite
  <2>1. /\ task[t].pc \in Stages /\ task[t].pc # "failing"
        /\ Goto(t, "failing") /\ notices' = notices
        /\ failures' = [failures EXCEPT ![s] = @ + 1]
    BY <1>5, <2>0 DEF CallFails, Stages
  <2>2. /\ task'[t] = [pc |-> "failing", s |-> s]
        /\ \A u \in Tasks \ {t} : task'[u] = task[u]
    BY <1>0, <2>0, <2>1, GotoTo
  <2>3. /\ ~Failing(s) /\ Failing(s)'
        /\ \A z \in Sessions \ {s} : Failing(z)' <=> Failing(z)
    BY <1>0, <2>0, <2>1, <2>2, FailingCalls
  <2>4. failures'[s] = failures[s] + 1 /\ failures[s] \in Nat
    BY <1>0, <2>1, <2>2
  <2>5. Settled(s) = failures[s] /\ Settled(s)' = failures[s]
    BY <2>3, <2>4 DEF Settled
  <2>6. notices'[s] = IF Settled(s)' >= FailLimit THEN 1 ELSE 0
    BY <2>1, <2>2, <2>5 DEF NoticesCount
  <2>7. \A z \in Sessions \ {s} : failures'[z] = failures[z] /\ notices'[z] = notices[z]
    BY <1>0, <2>1
  <2>8. failures'[s] > 0
    BY <2>4
  <2> QED BY <2>2, <2>3, <2>6, <2>7, <2>8, CountOne
<1>6. ASSUME NEW t \in Tasks, Notify(t) PROVE NoticesCount'
  <2>0. PICK s \in Sessions : s = task[t].s
    BY <1>6, TaskStates DEF Idle, CallFails, Notify, Capture, CaptureUnsaved, Rewrite
  <2>1. /\ task[t].pc = "failing" /\ task[t].pc \in Stages
        /\ Release(t) /\ failures' = failures
        /\ notices' = [notices EXCEPT ![s] = IF failures[s] = FailLimit
                                             THEN @ + 1 ELSE @]
    BY <1>6, <2>0 DEF Notify, Stages
  <2>2. task'[t] = Idle /\ \A u \in Tasks \ {t} : task'[u] = task[u]
    BY <1>0, <2>1 DEF Release
  <2>3. /\ Failing(s) /\ ~Failing(s)'
        /\ \A z \in Sessions \ {s} : Failing(z)' <=> Failing(z)
    BY <1>0, <2>0, <2>1, <2>2, FailingCalls
  <2>4. Settled(s) = failures[s] - 1 /\ Settled(s)' = failures[s]
        /\ failures[s] \in Nat
    BY <1>0, <2>1, <2>3 DEF Settled
  <2>5. /\ notices[s] = IF failures[s] - 1 >= FailLimit THEN 1 ELSE 0
        /\ notices'[s] = IF failures[s] = FailLimit THEN notices[s] + 1 ELSE notices[s]
    BY <2>1, <2>3, <2>4 DEF NoticesCount, TypeOK
  <2>6. notices'[s] = IF Settled(s)' >= FailLimit THEN 1 ELSE 0
    BY <1>0, <2>4, <2>5
  <2>7. \A z \in Sessions \ {s} : failures'[z] = failures[z] /\ notices'[z] = notices[z]
    BY <2>1 DEF TypeOK
  <2> QED BY <2>3, <2>6, <2>7, CountOne
<1>7. ASSUME NEW t \in Tasks, Capture(t) \/ CaptureUnsaved(t) \/ Rewrite(t)
      PROVE  NoticesCount'
  <2>0. PICK s \in Sessions : s = task[t].s
    BY <1>7, TaskStates DEF Idle, CallFails, Notify, Capture, CaptureUnsaved, Rewrite
  <2>1. /\ task[t].pc \in Stages /\ task[t].pc # "failing" /\ ResetBackoff(s)
        /\ Goto(t, "captured") \/ Goto(t, "updated") \/ Release(t)
    BY <1>7, <2>0 DEF Capture, CaptureUnsaved, Rewrite, Stages
  <2>2. /\ \A u \in Tasks \ {t} : task'[u] = task[u]
        /\ task'[t] = Idle \/ task'[t].s = s
        /\ task'[t].pc # "failing"
    <3>1. CASE Release(t)
      BY <1>0, <3>1 DEF Release
    <3>2. ASSUME NEW stage \in {"captured", "updated"}, Goto(t, stage)
          PROVE  /\ \A u \in Tasks \ {t} : task'[u] = task[u]
                 /\ task'[t].s = s /\ task'[t].pc # "failing"
      BY <1>0, <2>0, <2>1, <3>2, GotoTo
    <3> QED BY <2>1, <3>1, <3>2
  <2>3. /\ ~Failing(s)'
        /\ \A z \in Sessions \ {s} : Failing(z)' <=> Failing(z)
    BY <1>0, <2>0, <2>1, <2>2, FailingCalls
  <2>4. /\ failures'[s] = 0 /\ notices'[s] = 0
        /\ \A z \in Sessions \ {s} : failures'[z] = failures[z] /\ notices'[z] = notices[z]
    BY <2>1, <2>3 DEF ResetBackoff, TypeOK
  <2>5. Settled(s)' = 0
    BY <2>3, <2>4 DEF Settled
  <2>6. notices'[s] = IF Settled(s)' >= FailLimit THEN 1 ELSE 0
    BY <1>0, <2>4, <2>5
  <2> QED BY <2>3, <2>4, <2>6, CountOne
<1>8. ASSUME NEW t \in Tasks, Rebase(t) \/ RewriteUnsaved(t) \/ RewriteDone(t)
      PROVE  NoticesCount'
  <2>1. /\ task[t].pc # "failing" /\ Release(t) /\ UNCHANGED backoffVars
    BY <1>8 DEF Rebase, RewriteUnsaved, RewriteDone
  <2>2. \A u \in Tasks : \/ task'[u] = task[u]
                         \/ task[u].pc # "failing" /\ task'[u].pc # "failing"
    BY <1>0, <2>1 DEF Release
  <2> QED BY <2>1, <2>2, CountSame DEF backoffVars
<1>9. CASE UNCHANGED vars
  BY <1>9, CountSame DEF vars, backoffVars
<1> QED
  BY <1>1, <1>3, <1>4, <1>5, <1>6, <1>7, <1>8, <1>9 DEF Next, Trigger, Return

\* However the failures of the worker's and the requests' calls interleave, and
\* whatever is published between a failure and its notification, a streak of
\* failures that reaches synthesis_failure_threshold is notified exactly once.
THEOREM NotificationsCounted == Spec => []NotifiedOncePerStreak
<1>1. Init => NoticesCount
  BY SynthesisAssumption DEF Init, NoticesCount, Settled, Failing, Idle, Tasks
<1>2. TypeOK /\ OneCallPerSession /\ NoticesCount /\ [Next]_vars => NoticesCount'
  BY CountStep
<1>3. TypeOK /\ OneCallPerSession /\ NoticesCount => NotifiedOncePerStreak
  <2>1. ASSUME OneCallPerSession, NEW s \in Sessions, ~busy[s] PROVE ~Failing(s)
    BY <2>1 DEF OneCallPerSession, Failing, InFlight, Idle
  <2> QED BY <2>1 DEF NoticesCount, NotifiedOncePerStreak, Settled
<1> QED BY TypeCorrect, CallsExclude, <1>1, <1>2, <1>3, PTL DEF Spec

-----------------------------------------------------------------------------
(* The fullness known is that of the last turn. *)

LEMMA FullnessStep ==
    ASSUME TypeOK, TypeOK', FullnessIsCurrent, [Next]_vars
    PROVE  FullnessIsCurrent'
<1>1. ASSUME UNCHANGED <<transcript, pos, last>> PROVE FullnessIsCurrent'
  BY <1>1 DEF FullnessIsCurrent, Latest
<1>2. ASSUME NEW s \in Sessions, Turn(s) PROVE FullnessIsCurrent'
  <2>1. PICK level \in Levels :
           /\ transcript' = [transcript EXCEPT ![s] = Append(@, level)]
           /\ pos' = pos /\ last' = last
    BY <1>2 DEF Turn, trackVars
  <2>2. Len(transcript'[s]) = Len(transcript[s]) + 1
    BY <2>1 DEF TypeOK
  <2>3. pos'[s] # Len(transcript'[s])
    BY <2>1, <2>2, SynthesisAssumption DEF TypeOK
  <2>4. \A z \in Sessions \ {s} : transcript'[z] = transcript[z]
    BY <2>1 DEF TypeOK
  <2> QED BY <2>1, <2>3, <2>4 DEF FullnessIsCurrent, Latest
<1>3. ASSUME NEW s \in Sessions, Trigger(s) PROVE FullnessIsCurrent'
  <2>1. /\ Track(s)
        /\ \/ last' = [last EXCEPT ![s] = Level(s)]
           \/ last' = [last EXCEPT ![s] = Latest(s)]
    BY <1>3 DEF Trigger, Observe, FireComprehensive, FireIncremental
  <2>2. /\ transcript' = transcript /\ pos' = [pos EXCEPT ![s] = @ + 1]
        /\ pos[s] < Len(transcript[s])
    BY <2>1 DEF Track
  <2>3. \A z \in Sessions \ {s} : pos'[z] = pos[z] /\ last'[z] = last[z]
    <3>1. DOMAIN pos = Sessions /\ DOMAIN last = Sessions
      BY DEF TypeOK
    <3>2. \A z \in Sessions \ {s} : pos'[z] = pos[z]
      BY <2>2, <3>1
    <3>3. \A z \in Sessions \ {s} : last'[z] = last[z]
      BY <2>1, <3>1
    <3> QED BY <3>2, <3>3
  <2>4. pos'[s] = pos[s] + 1 /\ last'[s] \in {Level(s), Latest(s)}
    <3>1. DOMAIN pos = Sessions /\ DOMAIN last = Sessions
      BY DEF TypeOK
    <3> QED BY <2>1, <2>2, <3>1
  <2>5. /\ transcript[s] # <<>>
        /\ pos'[s] = Len(transcript[s]) => Level(s) = Latest(s)
    BY <2>2, <2>4, TurnLevels, SynthesisAssumption DEF Level, Latest, TypeOK
  <2>6. pos'[s] = Len(transcript[s]) => last'[s] = transcript[s][Len(transcript[s])]
    BY <2>4, <2>5 DEF Latest
  <2> QED BY <2>2, <2>3, <2>5, <2>6 DEF FullnessIsCurrent, Latest
<1>4. ASSUME NEW t \in Requests, NEW s \in Sessions, OnDemand(t, s)
      PROVE  FullnessIsCurrent'
  <2>1. /\ last' = [last EXCEPT ![s] = Latest(s)]
        /\ transcript' = transcript /\ pos' = pos
    BY <1>4 DEF OnDemand
  <2>2. last'[s] = Latest(s) /\ \A z \in Sessions \ {s} : last'[z] = last[z]
    BY <2>1 DEF TypeOK
  <2> QED BY <2>1, <2>2 DEF FullnessIsCurrent, Latest
<1>5. ASSUME NEW s \in Sessions, Elapse(s) PROVE FullnessIsCurrent'
  BY <1>1, <1>5 DEF Elapse, trackVars
<1>6. ASSUME NEW t \in Tasks, Return(t) PROVE FullnessIsCurrent'
  BY <1>1, <1>6 DEF Return, CallFails, Notify, Capture, CaptureUnsaved, Rebase,
     Rewrite, RewriteUnsaved, RewriteDone, trackVars
<1>7. CASE UNCHANGED vars
  BY <1>1, <1>7 DEF vars, trackVars
<1> QED BY <1>2, <1>3, <1>4, <1>5, <1>6, <1>7 DEF Next

\* The growth and the compaction checks of _process work with the fullness of
\* the session's last turn, once the queue is drained: neither the window that
\* a capture reads ahead of the queue nor a turn that comes during a call
\* leaves an older one behind.
THEOREM FullnessKnown == Spec => []FullnessIsCurrent
<1>1. Init => FullnessIsCurrent
  BY DEF Init, FullnessIsCurrent, Latest
<1>2. TypeOK /\ TypeOK' /\ FullnessIsCurrent /\ [Next]_vars => FullnessIsCurrent'
  BY FullnessStep
<1> QED BY TypeCorrect, <1>1, <1>2, PTL DEF Spec

-----------------------------------------------------------------------------
(* Rewrites of intent.md. *)

\* A step that does not start, make or end a rewrite.
LEMMA OwedSame ==
    ASSUME RewriteOwed, UNCHANGED <<rewrites, crossings, armed>>,
           \A s \in Sessions : High(s)' = High(s),
           \A s \in Sessions : task'[Worker] = [pc |-> "intent", s |-> s]
                               => task[Worker] = [pc |-> "intent", s |-> s]
    PROVE  RewriteOwed'
  BY DEF RewriteOwed

\* A turn the worker processes.
LEMMA OwedTrack ==
    ASSUME TypeOK, RewriteOwed, NEW s \in Sessions, Track(s)
    PROVE  /\ \A z \in Sessions : /\ rewrites'[z] <= crossings'[z]
                                  /\ armed'[z] /\ High(z)' => rewrites'[z] < crossings'[z]
           /\ armed'[s] = Armed(s)
           /\ High(s)' <=> Level(s) >= Full
<1>1. /\ transcript' = transcript /\ rewrites' = rewrites
      /\ pos'[s] = pos[s] + 1 /\ armed'[s] = Armed(s) /\ pos[s] \in Nat
      /\ crossings'[s] = IF Level(s) >= Full /\ ~High(s) THEN crossings[s] + 1
                         ELSE crossings[s]
      /\ rewrites[s] \in Nat /\ crossings[s] \in Nat
      /\ Level(s) \in Nat /\ Full \in Nat
  <2>1. pos[s] \in Nat /\ Level(s) \in Nat /\ Full \in Nat
    <3>1. Level(s) \in Levels
      BY TrackTypes
    <3>2. pos \in [Sessions -> 0..MaxTurns] /\ MaxTurns \in Nat
      BY SynthesisAssumption DEF TypeOK
    <3>3. Levels \subseteq Nat /\ Full \in Nat
      BY SynthesisAssumption
    <3>4. Level(s) \in Nat
      BY <3>1, <3>3, Zenon
    <3>5. pos[s] \in Nat
      BY <3>2
    <3> QED BY <3>3, <3>4, <3>5
  <2>2. (pos[s] = 0 \/ transcript[s][pos[s]] < Full) <=> ~High(s)
    <3>1. CASE pos[s] = 0
      BY <3>1 DEF High
    <3>2. CASE pos[s] # 0
      <4>1. pos[s] \in 1..Len(transcript[s])
        BY <2>1, <3>2, TurnLevels DEF TypeOK
      <4>2. transcript[s][pos[s]] \in Nat
        BY <4>1, TurnLevels, SynthesisAssumption
      <4> QED BY <2>1, <3>2, <4>2 DEF High
    <3> QED BY <3>1, <3>2
  <2> QED BY <2>1, <2>2 DEF Track, TypeOK
<1>2. High(s)' <=> Level(s) >= Full
  BY <1>1 DEF High, Level
<1>3. /\ rewrites'[s] <= crossings'[s]
      /\ armed'[s] /\ High(s)' => rewrites'[s] < crossings'[s]
  <2>1. /\ rewrites[s] <= crossings[s]
        /\ armed[s] /\ High(s) => rewrites[s] < crossings[s]
    BY DEF RewriteOwed
  <2>2. crossings'[s] = crossings[s] \/ crossings'[s] = crossings[s] + 1
    BY <1>1
  <2>3. CASE Level(s) >= Full /\ ~High(s)
    <3>1. crossings'[s] = crossings[s] + 1
      BY <1>1, <2>3
    <3> QED BY <1>1, <2>1, <3>1
  <2>4. CASE Level(s) >= Full /\ High(s)
    <3>1. armed'[s] => armed[s]
      <4>1. ~(Level(s) < Full)
        BY <1>1, <2>4
      <4>2. armed'[s] = Armed(s)
        BY <1>1
      <4> QED BY <4>1, <4>2 DEF Armed
    <3>2. armed'[s] => rewrites[s] < crossings[s]
      BY <2>1, <2>4, <3>1
    <3>3. rewrites'[s] = rewrites[s] /\ crossings'[s] = crossings[s]
      BY <1>1, <2>4
    <3> QED BY <2>1, <3>2, <3>3
  <2>5. CASE ~(Level(s) >= Full)
    <3>1. ~High(s)'
      BY <1>2, <2>5
    <3>2. rewrites'[s] = rewrites[s]
      BY <1>1
    <3> QED BY <1>1, <2>1, <2>2, <3>1, <3>2
  <2> QED BY <2>3, <2>4, <2>5
<1>4. ASSUME NEW z \in Sessions \ {s}
      PROVE  /\ crossings'[z] = crossings[z] /\ armed'[z] = armed[z]
             /\ High(z)' = High(z)
  <2>1. pos'[z] = pos[z] /\ crossings'[z] = crossings[z] /\ armed'[z] = armed[z]
    BY DEF Track, TypeOK
  <2> QED BY <1>1, <2>1 DEF High
<1>5. ASSUME NEW z \in Sessions
      PROVE  /\ rewrites'[z] <= crossings'[z]
             /\ armed'[z] /\ High(z)' => rewrites'[z] < crossings'[z]
  <2>1. CASE z = s
    BY <1>3, <2>1
  <2>2. CASE z # s
    BY <1>1, <1>4, <2>2 DEF RewriteOwed
  <2> QED BY <2>1, <2>2
<1> QED BY <1>1, <1>2, <1>5

LEMMA OwedStep ==
    ASSUME TypeOK, RewriteOwed, [Next]_vars
    PROVE  RewriteOwed'
<1>0. /\ Worker \in Tasks /\ Worker \notin Requests
      /\ task[Worker] = Idle => \A s \in Sessions : task[Worker] # [pc |-> "intent", s |-> s]
      /\ task \in [Tasks -> {Idle} \cup [pc : Stages, s : Sessions]]
  BY SynthesisAssumption DEF Tasks, Idle, TypeOK
<1>1. ASSUME NEW s \in Sessions, Turn(s) PROVE RewriteOwed'
  <2>1. PICK level \in Levels :
           /\ transcript' = [transcript EXCEPT ![s] = Append(@, level)]
           /\ UNCHANGED <<pos, armed, task, crossings, rewrites>>
    BY <1>1 DEF Turn, trackVars, fileVars
  <2>2. ASSUME NEW z \in Sessions PROVE High(z)' = High(z)
    <3>1. CASE z # s
      BY <2>1, <3>1 DEF High, TypeOK
    <3>2. CASE z = s
      <4>1. /\ pos[s] \in Nat /\ transcript[s] \in Seq(Levels)
            /\ pos[s] <= Len(transcript[s])
        BY SynthesisAssumption DEF TypeOK
      <4>2. transcript'[s] = Append(transcript[s], level)
        BY <2>1 DEF TypeOK
      <4>3. pos[s] > 0 => transcript'[s][pos[s]] = transcript[s][pos[s]]
        BY <4>1, <4>2
      <4> QED BY <2>1, <3>2, <4>3 DEF High
    <3> QED BY <3>1, <3>2
  <2> QED BY <2>1, <2>2, OwedSame
<1>2. ASSUME NEW s \in Sessions, Elapse(s) PROVE RewriteOwed'
  BY <1>2, OwedSame DEF Elapse, trackVars, fileVars, High
<1>3. ASSUME NEW s \in Sessions, Observe(s) \/ FireIncremental(s) PROVE RewriteOwed'
  <2>1. Track(s) /\ task[Worker] = Idle
    BY <1>3 DEF Observe, FireIncremental, Track
  <2>2. \A z \in Sessions : task'[Worker] # [pc |-> "intent", s |-> z]
    BY <1>0, <1>3, <2>1 DEF Observe, FireIncremental, Begin
  <2> QED BY <2>1, <2>2, OwedTrack DEF RewriteOwed
<1>4. ASSUME NEW s \in Sessions, FireComprehensive(s) PROVE RewriteOwed'
  <2>1. /\ Track(s) /\ Level(s) >= Full /\ Armed(s)
        /\ task'[Worker] = [pc |-> "intent", s |-> s]
    BY <1>0, <1>4 DEF FireComprehensive, WantsIntent, Begin
  <2>2. \A z \in Sessions : task'[Worker] = [pc |-> "intent", s |-> z] => z = s
    BY <2>1
  <2>3. armed'[s] /\ High(s)'
    BY <2>1, OwedTrack
  <2> QED BY <2>1, <2>2, <2>3, OwedTrack DEF RewriteOwed
<1>5. ASSUME NEW t \in Requests, NEW s \in Sessions, OnDemand(t, s) PROVE RewriteOwed'
  <2>1. task'[Worker] = task[Worker]
    BY <1>0, <1>5 DEF OnDemand, Begin
  <2> QED BY <1>5, <2>1, OwedSame DEF OnDemand, fileVars, High
<1>6. ASSUME NEW t \in Tasks,
             \/ CallFails(t) \/ Notify(t) \/ Capture(t) \/ CaptureUnsaved(t)
             \/ Rebase(t) \/ RewriteUnsaved(t) \/ RewriteDone(t)
      PROVE  RewriteOwed'
  <2>1. UNCHANGED <<rewrites, crossings, armed, pos, transcript>>
    BY <1>6 DEF CallFails, Notify, Capture, CaptureUnsaved, Rebase, RewriteUnsaved,
       RewriteDone, trackVars, fileVars
  <2>2. task'[Worker] = task[Worker] \/ task'[Worker].pc # "intent"
    <3>1. \/ Goto(t, "failing") \/ Goto(t, "captured")
          \/ Release(t)
      BY <1>6 DEF CallFails, Notify, Capture, CaptureUnsaved, Rebase, RewriteUnsaved,
         RewriteDone
    <3>2. task[t].pc \in Stages
      BY <1>6 DEF CallFails, Notify, Capture, CaptureUnsaved, Rebase, RewriteUnsaved,
         RewriteDone, Stages
    <3>3. CASE Goto(t, "failing")
      BY <1>0, <3>2, <3>3, GotoTo
    <3>4. CASE Goto(t, "captured")
      BY <1>0, <3>2, <3>4, GotoTo
    <3>5. CASE Release(t)
      BY <1>0, <3>5 DEF Release, Idle
    <3> QED BY <3>1, <3>3, <3>4, <3>5
  <2>3. \A z \in Sessions : task'[Worker] = [pc |-> "intent", s |-> z]
                            => task[Worker] = [pc |-> "intent", s |-> z]
    BY <2>2
  <2> QED BY <2>1, <2>3, OwedSame DEF High
<1>7. ASSUME NEW t \in Tasks, Rewrite(t) PROVE RewriteOwed'
  <2> DEFINE s == task[t].s
  <2>1. t = Worker /\ s \in Sessions /\ task[t] = [pc |-> "intent", s |-> s]
    <3>1. task[t].pc = "intent"
      BY <1>7 DEF Rewrite
    <3> QED BY <3>1, TaskStates DEF Idle, TypeOK, Tasks
  <2>2. /\ armed' = [armed EXCEPT ![s] = FALSE]
        /\ rewrites' = [rewrites EXCEPT ![s] = @ + 1]
        /\ UNCHANGED <<transcript, pos, crossings>>
        /\ Goto(t, "updated")
    BY <1>7 DEF Rewrite
  <2>3. task'[Worker] = [pc |-> "updated", s |-> s]
    BY <1>0, <2>1, <2>2, GotoTo DEF Stages
  <2>4. rewrites[s] < crossings[s]
    BY <2>1 DEF RewriteOwed
  <2> HIDE DEF s
  <2>5. \A z \in Sessions : task'[Worker] # [pc |-> "intent", s |-> z]
    BY <2>3
  <2>6. /\ rewrites'[s] = rewrites[s] + 1 /\ armed'[s] = FALSE
        /\ rewrites[s] \in Nat /\ crossings[s] \in Nat
        /\ \A z \in Sessions \ {s} : rewrites'[z] = rewrites[z] /\ armed'[z] = armed[z]
    BY <2>1, <2>2 DEF TypeOK
  <2>7. \A z \in Sessions : High(z)' = High(z)
    BY <2>2 DEF High
  <2>8. ASSUME NEW z \in Sessions
        PROVE  /\ rewrites'[z] <= crossings'[z]
               /\ armed'[z] /\ High(z)' => rewrites'[z] < crossings'[z]
    <3>1. CASE z = s
      BY <2>2, <2>4, <2>6, <3>1
    <3>2. CASE z # s
      BY <2>2, <2>6, <2>7, <3>2 DEF RewriteOwed
    <3> QED BY <3>1, <3>2
  <2> QED BY <2>5, <2>8 DEF RewriteOwed
<1>8. CASE UNCHANGED vars
  BY <1>8, OwedSame DEF vars, trackVars, fileVars, High
<1> QED
  BY <1>1, <1>2, <1>3, <1>4, <1>5, <1>6, <1>7, <1>8 DEF Next, Trigger, Return

\* Each rise of a session's fullness to the comprehensive threshold pays for at
\* most one new intent.md, whatever fails in between: comprehensive_armed is
\* cleared by the rewrite and set again only by a turn below the threshold.
THEOREM RewritesBounded == Spec => []RewrittenOncePerCrossing
<1>1. Init => RewriteOwed
  BY DEF Init, RewriteOwed, High, Idle, Tasks
<1>2. TypeOK /\ RewriteOwed /\ [Next]_vars => RewriteOwed'
  BY OwedStep
<1>3. RewriteOwed => RewrittenOncePerCrossing
  BY DEF RewriteOwed, RewrittenOncePerCrossing
<1> QED BY TypeCorrect, <1>1, <1>2, <1>3, PTL DEF Spec
=============================================================================
