----------------------------- MODULE Synthesis -----------------------------
(***************************************************************************)
(* Session synthesis (daemon/synthesis_worker.py, phase1.py): a worker     *)
(* follows the assistant turns of every session one at a time and asks the *)
(* local LLM for a snapshot when the context has grown enough, or for a    *)
(* new intent.md when it is nearly full; HTTP requests ask for snapshots   *)
(* at any time.  Both share one lock flag, one failure count and one       *)
(* back-off per session.                                                   *)
(*                                                                         *)
(* All of this lives in memory, so that a restart is Init.  A transcript   *)
(* is the sequence of the fullness levels (input plus cache-read tokens)   *)
(* of its assistant turns; the worker's queue is the part of it that it    *)
(* has not processed.  Turns of different sessions come in any order.      *)
(***************************************************************************)
EXTENDS Integers, Sequences, FiniteSets

CONSTANTS
    Sessions,
    None,       \* no session
    Worker,     \* the task of _run
    Requests,   \* the tasks that serve on_demand
    Levels,     \* fullness levels a turn may report
    Periodic,   \* synthesis_periodic_tokens
    Full,       \* the comprehensive threshold
    FailLimit,  \* synthesis_failure_threshold
    MaxTurns,   \* bound: turns of a session
    MaxFailures \* bound: failures in a row

ASSUME SynthesisAssumption ==
    /\ None \notin Sessions
    /\ Worker \notin Requests
    /\ Levels \subseteq Nat
    /\ Periodic \in Nat \ {0} /\ Full \in Nat /\ FailLimit \in Nat \ {0}
    /\ MaxTurns \in Nat /\ MaxFailures \in Nat

Tasks == Requests \cup {Worker}

VARIABLES
    transcript, \* transcript[s]: the session's JSONL
    pos,        \* pos[s]: turns the worker has processed
    last,       \* last_input_tokens
    base,       \* last_snapshot_input_tokens
    armed,      \* comprehensive_armed
    busy,       \* in_flight
    failures,   \* consecutive_failures
    paused,     \* suppressed_until lies in the future
    task,       \* task[t]: where task t is, and for which session
    notices,    \* history: back-off notifications since the count was reset
    crossings,  \* history: turns processed at Full or above after one below
    rewrites    \* history: intent.md written for the session

trackVars == <<pos, last, base, armed>>
backoffVars == <<failures, paused, notices>>
fileVars == <<crossings, rewrites>>
vars == <<transcript, trackVars, busy, backoffVars, task, fileVars>>

Idle == [pc |-> "idle", s |-> None]

\* Awaiting a snapshot or an intent from the LLM; publishing synthesis_failed,
\* synthesis_captured or intent_updated.
Stages == {"snapshot", "intent", "failing", "captured", "updated"}

TypeOK ==
    /\ transcript \in [Sessions -> Seq(Levels)]
    /\ pos \in [Sessions -> 0..MaxTurns]
    /\ \A s \in Sessions : pos[s] <= Len(transcript[s])
    /\ \A s \in Sessions : Len(transcript[s]) <= MaxTurns
    /\ last \in [Sessions -> Levels \cup {0}]
    /\ base \in [Sessions -> Levels \cup {0}]
    /\ armed \in [Sessions -> BOOLEAN]
    /\ busy \in [Sessions -> BOOLEAN]
    /\ failures \in [Sessions -> 0..MaxFailures]
    /\ paused \in [Sessions -> BOOLEAN]
    /\ \A s \in Sessions : paused[s] => failures[s] >= FailLimit
    /\ task \in [Tasks -> {Idle} \cup [pc : Stages, s : Sessions]]
    /\ \A t \in Requests : task[t].pc \notin {"intent", "updated"}
    /\ notices \in [Sessions -> Nat]
    /\ crossings \in [Sessions -> Nat]
    /\ rewrites \in [Sessions -> Nat]

Init ==
    /\ transcript = [s \in Sessions |-> <<>>]
    /\ pos = [s \in Sessions |-> 0]
    /\ last = [s \in Sessions |-> 0]
    /\ base = [s \in Sessions |-> 0]
    /\ armed = [s \in Sessions |-> TRUE]
    /\ busy = [s \in Sessions |-> FALSE]
    /\ failures = [s \in Sessions |-> 0]
    /\ paused = [s \in Sessions |-> FALSE]
    /\ task = [t \in Tasks |-> Idle]
    /\ notices = [s \in Sessions |-> 0]
    /\ crossings = [s \in Sessions |-> 0]
    /\ rewrites = [s \in Sessions |-> 0]

-----------------------------------------------------------------------------
(* The world. *)

\* Claude Code writes an assistant turn.
Turn(s) ==
    /\ Len(transcript[s]) < MaxTurns
    /\ \E level \in Levels :
          transcript' = [transcript EXCEPT ![s] = Append(@, level)]
    /\ UNCHANGED <<trackVars, busy, backoffVars, task, fileVars>>

\* The back-off deadline goes by.
Elapse(s) ==
    /\ paused[s]
    /\ paused' = [paused EXCEPT ![s] = FALSE]
    /\ UNCHANGED <<transcript, trackVars, busy, failures, notices, task,
                   fileVars>>

-----------------------------------------------------------------------------
(* Triggers.  Between a trigger and the LLM call nothing awaits. *)

\* latest_fullness of _read_session_window, where there is a turn at all.
Latest(s) == IF transcript[s] = <<>> THEN last[s]
             ELSE transcript[s][Len(transcript[s])]

\* The turn the worker comes to next.
Level(s) == transcript[s][pos[s] + 1]

\* A sharp drop in fullness is a compaction: count growth from here.
Rebased(s) == IF Level(s) < last[s] \div 2 /\ last[s] > 0 THEN Level(s) ELSE base[s]

Armed(s) == armed[s] \/ Level(s) < Full

WantsIntent(s) == Level(s) >= Full /\ Armed(s) /\ ~busy[s]

WantsSnapshot(s) ==
    /\ ~WantsIntent(s)
    /\ Level(s) - Rebased(s) >= Periodic
    /\ ~busy[s]
    /\ ~paused[s]

\* _process up to its decision, for one turn of s; the counters always move.
Track(s) ==
    /\ task[Worker] = Idle
    /\ pos[s] < Len(transcript[s])
    /\ pos' = [pos EXCEPT ![s] = @ + 1]
    /\ base' = [base EXCEPT ![s] = Rebased(s)]
    /\ armed' = [armed EXCEPT ![s] = Armed(s)]
    /\ crossings' = [crossings EXCEPT ![s] =
            IF Level(s) >= Full /\ (pos[s] = 0 \/ transcript[s][pos[s]] < Full)
            THEN @ + 1 ELSE @]
    /\ UNCHANGED <<transcript, backoffVars, rewrites>>

\* in_flight is taken for task t.
Begin(t, s, stage) ==
    /\ busy' = [busy EXCEPT ![s] = TRUE]
    /\ task' = [task EXCEPT ![t] = [pc |-> stage, s |-> s]]

\* Faulty variant of Observe: turns are ignored while a call is in flight.
ObserveUnlessBusy(s) ==
    /\ Track(s)
    /\ ~WantsIntent(s) /\ ~WantsSnapshot(s)
    /\ last' = [last EXCEPT ![s] = IF busy[s] THEN @ ELSE Level(s)]
    /\ UNCHANGED <<busy, task>>

\* A turn that asks for nothing, or while a call is in flight or, for a
\* snapshot, during back-off.
Observe(s) ==
    /\ Track(s)
    /\ ~WantsIntent(s) /\ ~WantsSnapshot(s)
    /\ last' = [last EXCEPT ![s] = Level(s)]
    /\ UNCHANGED <<busy, task>>

\* _fire_comprehensive.
FireComprehensive(s) ==
    /\ Track(s)
    /\ WantsIntent(s)
    /\ last' = [last EXCEPT ![s] = Level(s)]
    /\ Begin(Worker, s, "intent")

\* _fire_incremental: the window read from disk runs ahead of the worker.
FireIncremental(s) ==
    /\ Track(s)
    /\ WantsSnapshot(s)
    /\ last' = [last EXCEPT ![s] = Latest(s)]
    /\ Begin(Worker, s, "snapshot")

\* Faulty variant of OnDemand: in_flight is not looked at.
OnDemandAlways(t, s) ==
    /\ task[t] = Idle
    /\ ~paused[s]
    /\ last' = [last EXCEPT ![s] = Latest(s)]
    /\ Begin(t, s, "snapshot")
    /\ UNCHANGED <<transcript, pos, base, armed, backoffVars, fileVars>>

\* on_demand; refused while a call is in flight and during back-off.
OnDemand(t, s) ==
    /\ task[t] = Idle
    /\ ~busy[s]
    /\ ~paused[s]
    /\ last' = [last EXCEPT ![s] = Latest(s)]
    /\ Begin(t, s, "snapshot")
    /\ UNCHANGED <<transcript, pos, base, armed, backoffVars, fileVars>>

-----------------------------------------------------------------------------
(* The LLM answers, or does not. *)

Goto(t, stage) == task' = [task EXCEPT ![t].pc = stage]

\* Faulty variant of Release: only a snapshot's end gives in_flight back.
ReleaseCaptured(t) ==
    /\ busy' = [busy EXCEPT ![task[t].s] = task[t].pc = "failing"]
    /\ task' = [task EXCEPT ![t] = Idle]

\* in_flight is given back, in the finally clause.
Release(t) ==
    /\ busy' = [busy EXCEPT ![task[t].s] = FALSE]
    /\ task' = [task EXCEPT ![t] = Idle]

\* A success ends the failure streak and the back-off.
ResetBackoff(s) ==
    /\ failures' = [failures EXCEPT ![s] = 0]
    /\ paused' = [paused EXCEPT ![s] = FALSE]
    /\ notices' = [notices EXCEPT ![s] = 0]

\* The call raises: one more failure in a row, and back-off from FailLimit on.
\* A comprehensive call raises only where the transcript cannot be read.
CallFails(t) ==
    LET s == task[t].s IN
    /\ task[t].pc \in {"snapshot", "intent"}
    /\ failures[s] < MaxFailures
    /\ failures' = [failures EXCEPT ![s] = @ + 1]
    /\ paused' = [paused EXCEPT ![s] = @ \/ failures[s] + 1 >= FailLimit]
    /\ Goto(t, "failing")
    /\ UNCHANGED <<transcript, trackVars, busy, notices, fileVars>>

\* Faulty variant of Notify: every failure from the limit on.
NotifyFromLimit(t) ==
    LET s == task[t].s IN
    /\ task[t].pc = "failing"
    /\ notices' = [notices EXCEPT ![s] = IF failures[s] >= FailLimit
                                         THEN @ + 1 ELSE @]
    /\ Release(t)
    /\ UNCHANGED <<transcript, trackVars, failures, paused, fileVars>>

\* After synthesis_failed is published: the notification, at the limit only.
Notify(t) ==
    LET s == task[t].s IN
    /\ task[t].pc = "failing"
    /\ notices' = [notices EXCEPT ![s] = IF failures[s] = FailLimit
                                         THEN @ + 1 ELSE @]
    /\ Release(t)
    /\ UNCHANGED <<transcript, trackVars, failures, paused, fileVars>>

\* The snapshot is there and written, and synthesis_captured is published.
Capture(t) ==
    /\ task[t].pc = "snapshot"
    /\ ResetBackoff(task[t].s)
    /\ Goto(t, "captured")
    /\ UNCHANGED <<transcript, trackVars, busy, fileVars>>

\* Writing it raises.
CaptureUnsaved(t) ==
    /\ task[t].pc = "snapshot"
    /\ ResetBackoff(task[t].s)
    /\ Release(t)
    /\ UNCHANGED <<transcript, trackVars, fileVars>>

\* The end of _capture: growth counts from the fullness known by now.
Rebase(t) ==
    LET s == task[t].s IN
    /\ task[t].pc = "captured"
    /\ base' = [base EXCEPT ![s] = last[s]]
    /\ Release(t)
    /\ UNCHANGED <<transcript, pos, last, armed, backoffVars, fileVars>>

\* Faulty variant of Rewrite: the trigger stays armed.
RewriteStaysArmed(t) ==
    LET s == task[t].s IN
    /\ task[t].pc = "intent"
    /\ ResetBackoff(s)
    /\ rewrites' = [rewrites EXCEPT ![s] = @ + 1]
    /\ Goto(t, "updated")
    /\ UNCHANGED <<transcript, trackVars, busy, crossings>>

\* phase1 returns an intent, whether the LLM answered or both tries raised:
\* archived, saved, and counted as a success.
Rewrite(t) ==
    LET s == task[t].s IN
    /\ task[t].pc = "intent"
    /\ ResetBackoff(s)
    /\ armed' = [armed EXCEPT ![s] = FALSE]
    /\ rewrites' = [rewrites EXCEPT ![s] = @ + 1]
    /\ Goto(t, "updated")
    /\ UNCHANGED <<transcript, pos, last, base, busy, crossings>>

\* Saving it raises: nothing is reset, not even armed.
RewriteUnsaved(t) ==
    /\ task[t].pc = "intent"
    /\ Release(t)
    /\ UNCHANGED <<transcript, trackVars, backoffVars, fileVars>>

\* intent_updated is published.
RewriteDone(t) ==
    /\ task[t].pc = "updated"
    /\ Release(t)
    /\ UNCHANGED <<transcript, trackVars, backoffVars, fileVars>>

-----------------------------------------------------------------------------
Trigger(s) == Observe(s) \/ FireComprehensive(s) \/ FireIncremental(s)

Return(t) ==
    \/ CallFails(t) \/ Notify(t)
    \/ Capture(t) \/ CaptureUnsaved(t) \/ Rebase(t)
    \/ Rewrite(t) \/ RewriteUnsaved(t) \/ RewriteDone(t)

Next ==
    \/ \E s \in Sessions : Turn(s) \/ Elapse(s) \/ Trigger(s)
    \/ \E t \in Requests, s \in Sessions : OnDemand(t, s)
    \/ \E t \in Tasks : Return(t)

Spec == Init /\ [][Next]_vars

\* The event loop resumes a task whose call returned, every LLM call returns
\* or times out, and the worker takes up what is queued.
FairSpec ==
    /\ Spec
    /\ \A t \in Tasks : WF_vars(Return(t))
    /\ \A s \in Sessions : WF_vars(Trigger(s))

-----------------------------------------------------------------------------
(* Properties. *)

InFlight(t, s) == task[t] # Idle /\ task[t].s = s

\* The worker and the requests never have two calls in flight for a session,
\* and in_flight says truly whether there is one, on every way out of a call.
OneCallPerSession ==
    \A s \in Sessions :
        /\ \A t, u \in Tasks : InFlight(t, s) /\ InFlight(u, s) => t = u
        /\ busy[s] <=> \E t \in Tasks : InFlight(t, s)

\* Once the worker has caught up with a transcript, the fullness it goes by is
\* that of the last turn, although captures read ahead of its queue and turns
\* go by while a call is in flight (_process, _capture).
FullnessIsCurrent ==
    \A s \in Sessions :
        pos[s] = Len(transcript[s]) => last[s] = Latest(s)

\* A failure streak that reaches the limit is notified once, however long it
\* lasts and whoever's calls it is made of; below it there is no notification.
NotifiedOncePerStreak ==
    \A s \in Sessions :
        ~busy[s] => notices[s] = IF failures[s] >= FailLimit THEN 1 ELSE 0

\* intent.md is rewritten at most once each time a session's fullness rises to
\* the threshold, though calls are skipped, fail or cannot be saved.
RewrittenOncePerCrossing ==
    \A s \in Sessions : rewrites[s] <= crossings[s]

\* Every turn of a session is looked at in the end, and a session whose call
\* is in flight becomes free again, whatever the call came to.
KeepsUp ==
    \A s \in Sessions :
        /\ []<>(pos[s] = Len(transcript[s]))
        /\ busy[s] ~> ~busy[s]

=============================================================================
