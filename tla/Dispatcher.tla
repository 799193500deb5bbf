----------------------------- MODULE Dispatcher -----------------------------
(***************************************************************************)
(* What on_event (daemon/app.py) does with the lines of a transcript: the  *)
(* assistant turn in flight and its metrics, the one feed entry of a turn, *)
(* the names of tool calls, the permission mode carried from line to line, *)
(* and the hand-over to the rule workers.  The tailing task and a seed     *)
(* request run it at the same time, on state of the session that they      *)
(* share and on a FileState that they may share.                           *)
(*                                                                         *)
(* Which lines a task reads is the matter of module Watcher.  Here a       *)
(* transcript is a sequence of whole lines, offsets count lines, a write   *)
(* is committed at once, and the awaits before a task's first line are     *)
(* left out.                                                               *)
(***************************************************************************)
EXTENDS Integers, Sequences, FiniteSets

CONSTANTS
    Watch, Seeder, \* the watcher's task, which also primes; a seed request
    None,         \* no message, tool call or permission mode
    Messages,     \* message ids
    Calls,        \* ids of tool calls
    Modes,        \* permission modes
    Transcripts,  \* transcripts Claude Code may write
    Cap, Drop,    \* bound of tool_use_names, entries dropped beyond it
    MaxCrashes,   \* bound: crashes
    MaxSeeds,     \* bound: seed requests
    MaxFaults     \* bound: failing ledger writes

Tasks == {Watch, Seeder}

\* What on_event looks at in a line.  show: visible text or a tool call;
\* real: the model is not the synthetic one; call: the tool call it makes;
\* stop: the tool call it says was interrupted.  A prompt is a user message,
\* typed or synthesized; only results say that a call was interrupted, and
\* assistant lines carry no mode.
Lines ==
    [kind : {"assistant", "prompt", "result", "other"},
     msg : Messages \cup {None}, show : BOOLEAN, real : BOOLEAN,
     call : Calls \cup {None}, stop : Calls \cup {None},
     mode : Modes \cup {None}]

ASSUME DispatcherAssumption ==
    /\ Watch # Seeder
    /\ None \notin Messages /\ None \notin Calls /\ None \notin Modes
    /\ Transcripts \subseteq Seq(Lines)
    /\ \A txt \in Transcripts : \A i \in DOMAIN txt :
          /\ txt[i].kind = "assistant" => txt[i].mode = None
          /\ txt[i].kind # "result" => txt[i].stop = None
    /\ Cap \in Nat /\ Drop \in 1..Cap
    /\ MaxCrashes \in Nat /\ MaxSeeds \in Nat /\ MaxFaults \in Nat

VARIABLES
    text,     \* the transcript, as far as it will ever get
    written,  \* lines of it that are there
    stored,   \* the offset in the ledger
    seeded,   \* the project is among the seeded ones
    lastMsg,  \* last_message_id, in memory and in the ledger
    life,     \* "down", "priming": without workers, "up"
    inflight, \* in_flight_turn: the number of a begun turn, or 0
    emitted,  \* last_turn_emit_msg_id
    files,    \* FileStates made in this life
    reg,      \* index of the registered one, or 0
    job,      \* job[t]: where task t is
    begun,    \* turns begun
    crashes, seeds, faults, \* so far
    metrics,  \* history: metrics[k], turn_metrics rows of the k-th turn begun
    entries,  \* history: entries[m], turn entries of message m in the feed
    given,    \* history: lines handed to the rule workers
    hidden,   \* history: lines that priming marked as read
    changes,  \* history: permission_mode_change events
    stops     \* history: tool_interrupted events

outerVars == <<text, written, stored, seeded, crashes, seeds>>
turnVars == <<inflight, begun, metrics>>
fileVars == <<files, reg>>
feedVars == <<emitted, entries>>
logVars == <<given, hidden>>
modeVars == <<changes, stops>>
vars == <<outerVars, lastMsg, life, turnVars, feedVars, fileVars, job, faults,
          logVars, modeVars>>

Idle == [pc |-> "idle", f |-> 0, at |-> 0, end |-> 0, taken |-> 0]

\* A line is next; its turn has been counted; the metric of the turn before is
\* being written; the turn, the prompt, the tool call, the interruption or the
\* mode change is being published; the chunk is done.
Stages == {"line", "open", "metric", "turn", "call", "told", "change", "store"}

FileStates == [at : Nat, mode : Modes \cup {None}, names : Seq(Calls)]

TypeOK ==
    /\ text \in Seq(Lines) /\ written \in 0..Len(text) /\ stored \in 0..written
    /\ seeded \in BOOLEAN
    /\ lastMsg \in Messages \cup {None} /\ emitted \in Messages \cup {None}
    /\ life \in {"down", "priming", "up"}
    /\ begun \in Nat /\ inflight \in 0..begun
    /\ files \in Seq(FileStates) /\ reg \in 0..Len(files)
    /\ \A f \in DOMAIN files : Len(files[f].names) <= Cap
    /\ job \in [Tasks -> [pc : Stages \cup {"idle"}, f : Nat, at : Nat, end : Nat,
                          taken : Nat]]
    /\ \A t \in Tasks : job[t].pc # "idle" =>
          /\ job[t].f \in 1..Len(files)
          /\ job[t].at \in 1..Len(text) /\ job[t].end \in job[t].at..written
          /\ job[t].taken \in 0..begun
    /\ crashes \in 0..MaxCrashes /\ seeds \in 0..MaxSeeds /\ faults \in 0..MaxFaults
    /\ metrics \in [1..begun -> Nat]
    /\ entries \in [Messages -> Nat]
    /\ given \subseteq DOMAIN text /\ hidden \subseteq DOMAIN text
    /\ changes \in Seq(Modes \X Modes)
    /\ stops \in Seq([at : Nat, named : BOOLEAN])

Init ==
    /\ text \in Transcripts /\ written \in 0..Len(text) /\ stored = 0
    /\ seeded \in BOOLEAN
    /\ lastMsg = None /\ emitted = None /\ life = "down"
    /\ begun = 0 /\ inflight = 0
    /\ files = <<>> /\ reg = 0 /\ job = [t \in Tasks |-> Idle]
    /\ crashes = 0 /\ seeds = 0 /\ faults = 0
    /\ metrics = [k \in 1..begun |-> 0] /\ entries = [m \in Messages |-> 0]
    /\ given = {} /\ hidden = {} /\ changes = <<>> /\ stops = <<>>

-----------------------------------------------------------------------------
(* Reading. *)

\* A file that no seed and no start has met.
Fresh(at) == [at |-> at, mode |-> None, names |-> <<>>]

Reading(f, from) == [pc |-> "line", f |-> f, at |-> from + 1, end |-> written,
                     taken |-> 0]

Write ==
    /\ written < Len(text)
    /\ written' = written + 1
    /\ UNCHANGED <<text, stored, seeded, crashes, seeds, lastMsg, life, turnVars,
                   feedVars, fileVars, job, faults, logVars, modeVars>>

\* The start of the daemon primes a seeded transcript without the workers, for
\* start() of the watcher returns when priming is done and they are made then.
StartPriming ==
    /\ life = "down" /\ seeded /\ written > stored
    /\ life' = "priming"
    /\ files' = <<Fresh(stored)>> /\ reg' = 1
    /\ job' = [job EXCEPT ![Watch] = Reading(1, stored)]
    /\ UNCHANGED <<outerVars, lastMsg, turnVars, feedVars, faults, logVars, modeVars>>

\* An unseeded one is marked as read to its end; a seeded one has nothing new.
StartHiding ==
    /\ life = "down" /\ (seeded => written = stored)
    /\ life' = "up"
    /\ stored' = written
    /\ hidden' = hidden \cup (stored + 1)..written
    /\ UNCHANGED <<text, written, seeded, crashes, seeds, lastMsg, turnVars, feedVars,
                   fileVars, job, faults, given, modeVars>>

\* Priming is over: the workers are made, and tailing begins.
MakeWorkers ==
    /\ life = "priming" /\ job[Watch] = Idle
    /\ life' = "up"
    /\ UNCHANGED <<outerVars, lastMsg, turnVars, feedVars, fileVars, job, faults,
                   logVars, modeVars>>

\* The tailing task reads on in the registered FileState, or in a new one.
Tails ==
    /\ life = "up" /\ job[Watch] = Idle
    /\ LET f == IF reg = 0 THEN Len(files) + 1 ELSE reg
           from == IF reg = 0 THEN stored ELSE files[reg].at
       IN  /\ from < written
           /\ files' = IF reg = 0 THEN Append(files, Fresh(stored)) ELSE files
           /\ reg' = f
           /\ job' = [job EXCEPT ![Watch] = Reading(f, from)]
    /\ UNCHANGED <<outerVars, lastMsg, life, turnVars, feedVars, faults, logVars,
                   modeVars>>

\* A seed request starts over with a FileState of its own.
StartSeed ==
    /\ life = "up" /\ job[Seeder] = Idle /\ seeds < MaxSeeds /\ written > 0
    /\ seeds' = seeds + 1
    /\ seeded' = TRUE /\ stored' = 0
    /\ files' = Append(files, Fresh(0)) /\ reg' = Len(files) + 1
    /\ job' = [job EXCEPT ![Seeder] = Reading(Len(files) + 1, 0)]
    /\ UNCHANGED <<text, written, crashes, lastMsg, life, turnVars, feedVars, faults,
                   logVars, modeVars>>

\* The chunk is done: its end is stored.
Store(t) ==
    /\ job[t].pc = "store"
    /\ stored' = job[t].end
    /\ job' = [job EXCEPT ![t] = Idle]
    /\ UNCHANGED <<text, written, seeded, crashes, seeds, lastMsg, life, turnVars,
                   feedVars, fileVars, faults, logVars, modeVars>>

\* A crash, or a stop, which cancels the tasks where they are.  One that takes
\* the uncommitted writes of a seed with it is left to module Watcher.
Crash ==
    /\ life # "down" /\ job[Seeder] = Idle /\ crashes < MaxCrashes
    /\ crashes' = crashes + 1
    /\ life' = "down"
    /\ inflight' = 0 /\ emitted' = None
    /\ files' = <<>> /\ reg' = 0 /\ job' = [t \in Tasks |-> Idle]
    /\ UNCHANGED <<text, written, stored, seeded, seeds, lastMsg, begun, metrics,
                   entries, faults, logVars, modeVars>>

-----------------------------------------------------------------------------
(* One line. *)

LineOf(t) == text[job[t].at]
FileOf(t) == files[job[t].f]

\* Task t goes on to stage pc of its line.
GoTo(t, pc) == job' = [job EXCEPT ![t].pc = pc]

\* Task t is done with its line, and its FileState is f but for the offset.
Done(t, f) ==
    LET last == job[t].at = job[t].end IN
    /\ job' = [job EXCEPT ![t].pc = IF last THEN "store" ELSE "line",
                          ![t].at = IF last THEN @ ELSE @ + 1]
    /\ files' = [files EXCEPT ![job[t].f] =
                     IF last THEN [f EXCEPT !.at = job[t].end] ELSE f]

IsNew(l) == l.kind = "assistant" /\ (l.msg = None \/ l.msg # lastMsg)

\* _ingest: the first block of a turn is counted, and the count stored.
CountTurn(t) ==
    /\ job[t].pc = "line" /\ IsNew(LineOf(t))
    /\ lastMsg' = LineOf(t).msg
    /\ GoTo(t, "open")
    /\ UNCHANGED <<outerVars, life, turnVars, feedVars, fileVars, faults, logVars,
                   modeVars>>

\* A new turn or a user message closes the turn in flight.
Closes(t) ==
    \/ job[t].pc = "open"
    \/ job[t].pc = "line" /\ LineOf(t).kind = "prompt"

\* Faulty variant of TakeTurn: in_flight_turn is not cleared first.
TakeTurnLate(t) ==
    /\ Closes(t) /\ inflight # 0
    /\ job' = [job EXCEPT ![t].pc = "metric", ![t].taken = inflight]
    /\ UNCHANGED <<outerVars, lastMsg, life, turnVars, feedVars, fileVars, faults,
                   logVars, modeVars>>

\* _close_turn_metric up to its first await.
TakeTurn(t) ==
    /\ Closes(t) /\ inflight # 0
    /\ inflight' = 0
    /\ job' = [job EXCEPT ![t].pc = "metric", ![t].taken = inflight]
    /\ UNCHANGED <<outerVars, lastMsg, life, begun, metrics, feedVars, fileVars, faults,
                   logVars, modeVars>>

\* The line is queued for the rule workers, if they are there.
HandOver(t) ==
    given' = IF life = "up" /\ LineOf(t).kind = "assistant" THEN given \cup {job[t].at}
             ELSE given

\* Faulty variant of Shows: only the line that begins a turn can show it.
ShowsFirst(t) ==
    LET l == LineOf(t) IN
    /\ job[t].pc # "line"
    /\ l.kind = "assistant" /\ l.msg # None /\ l.msg # emitted /\ l.show

\* The line is the first of its message that has something to show.
Shows(t) ==
    LET l == LineOf(t) IN
    /\ l.kind = "assistant" /\ l.msg # None /\ l.msg # emitted /\ l.show

\* What follows the turn in flight, up to the next await or the end of the line.
Onward(t) ==
    /\ HandOver(t)
    /\ IF LineOf(t).kind = "prompt" THEN GoTo(t, "told") /\ UNCHANGED files
       ELSE IF Shows(t) THEN GoTo(t, "turn") /\ UNCHANGED files
       ELSE IF LineOf(t).call # None THEN GoTo(t, "call") /\ UNCHANGED files
       ELSE Done(t, FileOf(t))

\* The turn of a new assistant line is now in flight, whatever was there.
Begins(t) ==
    LET l == LineOf(t) IN
    IF l.kind = "assistant" /\ l.msg # None /\ l.real
    THEN inflight' = begun + 1 /\ begun' = begun + 1
    ELSE UNCHANGED <<inflight, begun>>

\* No turn to close.
Open(t) ==
    /\ Closes(t) /\ inflight = 0
    /\ Begins(t) /\ metrics' = [k \in 1..begun' |-> IF k > begun THEN 0 ELSE metrics[k]]
    /\ Onward(t)
    /\ UNCHANGED <<outerVars, lastMsg, life, feedVars, reg, faults, hidden, modeVars>>

\* The metric of the turn before is in the ledger, or could not be written.
Recorded(t, n) ==
    /\ job[t].pc = "metric"
    /\ Begins(t)
    /\ metrics' = [k \in 1..begun' |->
                      IF k > begun THEN 0
                      ELSE IF k = job[t].taken THEN metrics[k] + n ELSE metrics[k]]
    /\ Onward(t)
    /\ UNCHANGED <<outerVars, lastMsg, life, feedVars, reg, hidden, modeVars>>

RecordMetric(t) == Recorded(t, 1) /\ UNCHANGED faults
RecordMetricFails(t) ==
    /\ faults < MaxFaults /\ faults' = faults + 1
    /\ Recorded(t, 0)

\* A further block of the turn.
Extend(t) ==
    /\ job[t].pc = "line" /\ LineOf(t).kind = "assistant" /\ ~IsNew(LineOf(t))
    /\ Onward(t)
    /\ UNCHANGED <<outerVars, lastMsg, life, turnVars, feedVars, reg, faults, hidden,
                   modeVars>>

\* The turn entry has been published, with a row in the ledger or without.
Published(t, n) ==
    LET m == LineOf(t).msg IN
    /\ job[t].pc = "turn"
    /\ entries' = [entries EXCEPT ![m] = @ + n]
    /\ emitted' = m
    /\ IF LineOf(t).call # None THEN GoTo(t, "call") /\ UNCHANGED files
       ELSE Done(t, FileOf(t))

PublishTurn(t) ==
    /\ Published(t, 1)
    /\ UNCHANGED <<outerVars, lastMsg, life, turnVars, reg, faults, logVars, modeVars>>

PublishTurnFails(t) ==
    /\ faults < MaxFaults /\ faults' = faults + 1
    /\ Published(t, 0)
    /\ UNCHANGED <<outerVars, lastMsg, life, turnVars, reg, logVars, modeVars>>

-----------------------------------------------------------------------------
(* Tool calls and permission modes. *)

\* Faulty variant of Named: a full cache is dropped from.
NamedEarly(names, c) ==
    LET all == Append(names, c)
    IN  IF Len(all) >= Cap THEN SubSeq(all, Drop + 1, Len(all)) ELSE all

\* tool_use_names with a call added.  An id that is known keeps its place.
Named(names, c) ==
    LET all == IF \E i \in DOMAIN names : names[i] = c THEN names
               ELSE Append(names, c)
    IN  IF Len(all) > Cap THEN SubSeq(all, Drop + 1, Len(all)) ELSE all

\* tool_use_names without a call.
Without(names, c) ==
    IF \E i \in DOMAIN names : names[i] = c
    THEN LET i == CHOOSE i \in DOMAIN names : names[i] = c
         IN  SubSeq(names, 1, i - 1) \o SubSeq(names, i + 1, Len(names))
    ELSE names

\* The tool call has been published.
NoteCall(t) ==
    /\ job[t].pc = "call"
    /\ Done(t, [FileOf(t) EXCEPT !.names = Named(@, LineOf(t).call)])
    /\ UNCHANGED <<outerVars, lastMsg, life, turnVars, feedVars, reg, faults, logVars,
                   modeVars>>

\* An interrupted tool result; the name is resolved, if it is known.
Interrupt(t) ==
    LET c == LineOf(t).stop
        known == FileOf(t).names
    IN
    /\ job[t].pc = "line" /\ LineOf(t).kind = "result" /\ c # None
    /\ stops' = Append(stops, [at |-> job[t].at,
                               named |-> \E i \in DOMAIN known : known[i] = c])
    /\ files' = [files EXCEPT ![job[t].f].names = Without(@, c)]
    /\ GoTo(t, "told")
    /\ UNCHANGED <<outerVars, lastMsg, life, turnVars, feedVars, reg, faults, logVars,
                   changes>>

\* The permission mode of a line is looked at last.
AtMode(t) ==
    \/ job[t].pc = "told"
    \/ /\ job[t].pc = "line" /\ LineOf(t).kind \in {"result", "other"}
       /\ LineOf(t).stop = None

Changes(t) ==
    /\ LineOf(t).mode # None /\ FileOf(t).mode # None
    /\ LineOf(t).mode # FileOf(t).mode

\* Faulty variant of KeepMode: only the first mode is kept.
KeepModeFirst(t) ==
    IF FileOf(t).mode # None THEN FileOf(t)
    ELSE [FileOf(t) EXCEPT !.mode = LineOf(t).mode]

KeepMode(t) ==
    IF LineOf(t).mode = None THEN FileOf(t)
    ELSE [FileOf(t) EXCEPT !.mode = LineOf(t).mode]

\* No transition, or the first mode the FileState sees.
SameMode(t) ==
    /\ AtMode(t) /\ ~Changes(t)
    /\ Done(t, KeepMode(t))
    /\ UNCHANGED <<outerVars, lastMsg, life, turnVars, feedVars, reg, faults, logVars,
                   modeVars>>

ChangeMode(t) ==
    /\ AtMode(t) /\ Changes(t)
    /\ changes' = Append(changes, <<FileOf(t).mode, LineOf(t).mode>>)
    /\ GoTo(t, "change")
    /\ UNCHANGED <<outerVars, lastMsg, life, turnVars, feedVars, fileVars, faults,
                   logVars, stops>>

\* The change has been published.
ModeChanged(t) ==
    /\ job[t].pc = "change"
    /\ Done(t, KeepMode(t))
    /\ UNCHANGED <<outerVars, lastMsg, life, turnVars, feedVars, reg, faults, logVars,
                   modeVars>>

-----------------------------------------------------------------------------
Turn(t) ==
    \/ CountTurn(t) \/ TakeTurn(t) \/ Open(t)
    \/ RecordMetric(t) \/ RecordMetricFails(t)
    \/ Extend(t) \/ PublishTurn(t) \/ PublishTurnFails(t)

Rest(t) ==
    NoteCall(t) \/ Interrupt(t) \/ SameMode(t) \/ ChangeMode(t) \/ ModeChanged(t)

Next ==
    \/ Write \/ StartPriming \/ StartHiding \/ MakeWorkers
    \/ Tails \/ StartSeed \/ Crash
    \/ \E t \in Tasks : Turn(t) \/ Rest(t) \/ Store(t)

Spec == Init /\ [][Next]_vars

-----------------------------------------------------------------------------
(* Properties. *)

Closing(k) == \E t \in Tasks : job[t].pc = "metric" /\ job[t].taken = k

\* _close_turn_metric calls itself idempotent: whichever of two tasks comes to
\* the end of a turn, its metric is recorded at most once, and without a seed,
\* a crash or a failing write no turn that began goes without one.
TurnsAccounted ==
    \A k \in 1..begun :
        /\ metrics[k] <= 1
        /\ metrics[k] = 1 => inflight # k /\ ~Closing(k)
        /\ seeds = 0 /\ crashes = 0 /\ faults = 0 =>
              metrics[k] = 1 \/ inflight = k \/ Closing(k)

\* No block of another message comes between those of m.
Together(m) ==
    LET block(i) == text[i].kind = "assistant" /\ text[i].msg = m
    IN  \A i, j, k \in DOMAIN text :
            block(i) /\ block(k) /\ i < j /\ j < k /\ text[j].kind = "assistant" =>
                text[j].msg \in {m, None}

\* What the offset has moved past has its turn entry in the feed, through
\* crashes and seeds, unless priming hid it or a write failed.  A message whose
\* blocks come together has one entry at most, however many there are and
\* whichever is the first to show something: but a restart forgets which
\* message was shown last, and a seed shows all again.
EachTurnShownOnce ==
    /\ faults = 0 =>
          \A i \in 1..stored \ hidden :
              LET l == text[i] IN
              l.kind = "assistant" /\ l.msg # None /\ l.show => entries[l.msg] > 0
    /\ seeds = 0 /\ crashes = 0 =>
          \A m \in Messages : Together(m) => entries[m] <= 1

\* Lines before the one task t is at, and lines it is done with.
Handled == IF job[Watch] = Idle THEN stored
           ELSE IF job[Watch].pc = "store" THEN job[Watch].end ELSE job[Watch].at - 1

HasMode(i) == i \notin hidden /\ text[i].mode # None

\* The mode changes at line i, from that of line p.
Turned(p, i) ==
    /\ HasMode(p) /\ HasMode(i) /\ text[p].mode # text[i].mode
    /\ \A j \in p + 1..i - 1 : ~HasMode(j)

\* The lines up to n at which it changes.
Turns(n) == {i \in 1..n : \E p \in 1..i - 1 : Turned(p, i)}

\* The permission mode changes of the feed are those of the transcript, in its
\* order and with the right mode before, as long as one task reads it.
ModeChangesTrue ==
    seeds = 0 /\ crashes = 0 /\ job[Watch].pc # "change" =>
        /\ Len(changes) = Cardinality(Turns(Handled))
        /\ \A i \in Turns(Handled) : \E p \in 1..i - 1 :
              /\ Turned(p, i)
              /\ changes[Cardinality(Turns(i))] = <<text[p].mode, text[i].mode>>

Called(k) == text[k].kind = "assistant" /\ text[k].call # None

\* Line k is the only one up to n that makes its call.
OnlyCall(k, n) ==
    Called(k) /\ \A l \in 1..n \ hidden : Called(l) /\ text[l].call = text[k].call => l = k

\* The calls from line k to line n.
CallsSince(k, n) == {l \in k..n : Called(l)}

\* An interrupted result names its tool if the call was read, under an id of its
\* own, was not interrupted before, and no more calls have come since than the
\* cache is sure to hold.
InterruptsNamed ==
    seeds = 0 /\ crashes = 0 =>
        \A j \in DOMAIN stops :
            LET i == stops[j].at IN
            (\E k \in 1..i - 1 \ hidden :
                /\ OnlyCall(k, i - 1) /\ text[k].call = text[i].stop
                /\ \A l \in k..i - 1 : text[l].stop # text[i].stop
                /\ Cardinality(CallsSince(k, i - 1)) <= Cap + 1 - Drop)
            => stops[j].named

\* What on_event says of the rule workers: they always fire, on backlog too.
\* Every assistant line the offset has moved past was handed to them.
RulesAlwaysFire ==
    \A i \in 1..stored \ hidden : text[i].kind = "assistant" => i \in given

=============================================================================
