------------------------------ MODULE Watcher ------------------------------
(***************************************************************************)
(* The transcript watcher (daemon/watcher.py) and the parts of the ledger  *)
(* it writes (storage/ledger.py): tailing append-only JSONL transcripts,   *)
(* counting assistant turns, recording every line, storing how far a file  *)
(* was read, priming on start, and re-parsing a project on request inside  *)
(* one batch of uncommitted writes, with crashes anywhere.                 *)
(*                                                                         *)
(* A file is measured in half lines: its line k is complete once the file  *)
(* holds 2k of them, so an odd length ends in the middle of a line.        *)
(* Lines up to Len(Msg) may be written; line k belongs to the assistant    *)
(* message Msg[k], or to none when that is 0.                              *)
(***************************************************************************)
EXTENDS Integers, FiniteSets, Sequences

CONSTANTS
    Files,      \* transcripts under the watched root, one session each
    Project,    \* those of the project a user may seed
    Watch,      \* the watcher's own task
    Seeders,    \* requests to seed the project, each a task of the daemon
    Msg,        \* message of each line
    MaxSeeds,   \* bound: seed requests served
    MaxCrashes  \* bound: crashes of the daemon

\* No transcript, or no offset.
None == -1

ASSUME WatcherAssumption ==
    /\ None \notin Files
    /\ Project \subseteq Files
    /\ Watch \notin Seeders
    /\ Msg \in Seq(Nat)
    /\ MaxSeeds \in Nat /\ MaxCrashes \in Nat

Tasks == Seeders \cup {Watch}
Lines == 1..Len(Msg)
Sizes == 0..2 * Len(Msg)

VARIABLES
    size,      \* size[f]: half lines in the file
    db,        \* the ledger as its connection sees it
    saved,     \* the ledger as committed
    registry,  \* registry[f]: offset of the FileState in _files, or None
    stage,     \* stage[t]: what the task is busy with as a whole
    todo,      \* todo[t]: files a prime or seed pass has not come to
    job,       \* job[t]: where the task is in _process_file
    dirty,     \* files awatch has reported, not yet processed
    seeds,     \* seed requests so far
    crashes,   \* crashes so far
    hidden,    \* history: half lines of f marked as read by a prime pass
    noticed,   \* history: length of f when awatch last reported it
    shown      \* history: lines of f handled in real time

taskVars == <<registry, stage, todo, job, dirty>>
historyVars == <<hidden, noticed, shown>>
vars == <<size, db, saved, taskVars, seeds, crashes, historyVars>>

\* seeded_projects, processed_offset, live_events and the progress columns of
\* session_state.  The in-memory SessionState is a write-through copy of those
\* columns, so that a single pair of fields stands for both.
LedgerState ==
    [seeded : BOOLEAN,
     offset : [Files -> Sizes],
     rows   : [Files -> [Lines -> Nat]],  \* how often line k was recorded
     turns  : [Files -> Nat],
     last   : [Files -> Nat]]             \* last_message_id, 0 for none

\* Position inside _process_file: awaiting get_offset or get_session, about to
\* ingest line next (count its turn, then hand it to on_event), about to store
\* the offset.  own: the task's FileState is not the one in _files (any more).
Job == [pc : {"idle", "lookup", "register", "count", "emit", "store"},
        file : Files \cup {None}, backlog : BOOLEAN, own : BOOLEAN,
        off : Sizes, next : 1..(Len(Msg) + 1), to : Sizes]

Idle == [pc |-> "idle", file |-> None, backlog |-> FALSE, own |-> FALSE,
         off |-> 0, next |-> 1, to |-> 0]

TypeOK ==
    /\ size \in [Files -> Sizes]
    /\ db \in LedgerState
    /\ saved \in LedgerState
    /\ registry \in [Files -> Sizes \cup {None}]
    /\ stage \in [Tasks -> {"off", "prime", "watch", "seed"}]
    /\ todo \in [Tasks -> SUBSET Files]
    /\ job \in [Tasks -> Job]
    /\ \A t \in Tasks :
        /\ job[t].pc # "idle" => job[t].file \in Files
        /\ job[t].pc \in {"count", "emit"} => 2 * job[t].next <= job[t].to
    /\ dirty \in SUBSET Files
    /\ seeds \in 0..MaxSeeds
    /\ crashes \in 0..MaxCrashes
    /\ hidden \in [Files -> Sizes]
    /\ noticed \in [Files -> Sizes]
    /\ shown \in [Files -> SUBSET Lines]

EmptyLedger ==
    [seeded |-> FALSE,
     offset |-> [f \in Files |-> 0],
     rows   |-> [f \in Files |-> [k \in Lines |-> 0]],
     turns  |-> [f \in Files |-> 0],
     last   |-> [f \in Files |-> 0]]

\* The daemon has never run; transcripts may already be there.
Init ==
    /\ size \in [Files -> Sizes]
    /\ db = EmptyLedger
    /\ saved = EmptyLedger
    /\ registry = [f \in Files |-> None]
    /\ stage = [t \in Tasks |-> "off"]
    /\ todo = [t \in Tasks |-> {}]
    /\ job = [t \in Tasks |-> Idle]
    /\ dirty = {}
    /\ seeds = 0
    /\ crashes = 0
    /\ hidden = [f \in Files |-> 0]
    /\ noticed = [f \in Files |-> 0]
    /\ shown = [f \in Files |-> {}]

-----------------------------------------------------------------------------
(* The ledger's commits. *)

Batching == \E s \in Seeders : stage[s] = "seed"

\* A write and the _commit() after it.  A batch, whoever opened it, holds back
\* the commits of every task of the daemon until the last batch ends.
Write(new) ==
    /\ db' = new
    /\ saved' = IF Batching THEN saved ELSE new

-----------------------------------------------------------------------------
(* _process_file, one action per stretch between two awaits. *)

\* FileStates of f other tasks still hold are no longer the registered one.
Disowned(jobs, f) ==
    [u \in Tasks |-> IF jobs[u].file = f THEN [jobs[u] EXCEPT !.own = TRUE]
                                         ELSE jobs[u]]

\* Faulty variant of Chunk: a trailing partial line is consumed too.
ChunkWithPartial(f, backlog, off) ==
    LET from == IF size[f] < off THEN 0 ELSE off
        to   == size[f]
        next == (from + 1) \div 2 + 1
    IN IF to <= from THEN Idle
       ELSE [pc |-> IF 2 * next <= to THEN "count" ELSE "store",
             file |-> f, backlog |-> backlog, own |-> FALSE,
             off |-> 0, next |-> next, to |-> to]

\* stat, seek, read, keep the complete lines.  A file shorter than the offset
\* is read from its start.  Reading from the middle of a line yields a
\* fragment that does not parse and is skipped.
Chunk(f, backlog, off) ==
    LET from == IF size[f] < off THEN 0 ELSE off
        to   == 2 * (size[f] \div 2)
        next == (from + 1) \div 2 + 1
    IN IF to <= from THEN Idle
       ELSE [pc |-> IF 2 * next <= to THEN "count" ELSE "store",
             file |-> f, backlog |-> backlog, own |-> FALSE,
             off |-> 0, next |-> next, to |-> to]

\* A new FileState takes its offset from the ledger.
Lookup(t) ==
    /\ job[t].pc = "lookup"
    /\ job' = [job EXCEPT ![t].pc = "register",
                          ![t].off = db.offset[job[t].file]]
    /\ UNCHANGED <<size, db, saved, registry, stage, todo, dirty, seeds, crashes,
                   historyVars>>

\* After get_session: the FileState enters _files, in place of one another
\* task may have registered meanwhile, and the file is read.
Register(t) ==
    /\ job[t].pc = "register"
    /\ LET f == job[t].file
           off == job[t].off IN
        /\ registry' = [registry EXCEPT ![f] = off]
        /\ job' = [Disowned(job, f) EXCEPT ![t] = Chunk(f, job[t].backlog, off)]
    /\ UNCHANGED <<size, db, saved, stage, todo, dirty, seeds, crashes,
                   historyVars>>

\* Faulty variant of Count: backlog lines do not count.
CountRealtimeOnly(t) ==
    /\ job[t].pc = "count"
    /\ LET f == job[t].file
           m == Msg[job[t].next] IN
        IF m # 0 /\ m # db.last[f] /\ ~job[t].backlog
        THEN Write([db EXCEPT !.turns[f] = @ + 1, !.last[f] = m])
        ELSE Write(db)
    /\ job' = [job EXCEPT ![t].pc = "emit"]
    /\ UNCHANGED <<size, registry, stage, todo, dirty, seeds, crashes, historyVars>>

\* _ingest up to update_session_progress: a line of another message than the
\* last one opens a turn.
Count(t) ==
    /\ job[t].pc = "count"
    /\ LET f == job[t].file
           m == Msg[job[t].next] IN
        IF m # 0 /\ m # db.last[f]
        THEN Write([db EXCEPT !.turns[f] = @ + 1, !.last[f] = m])
        ELSE Write(db)
    /\ job' = [job EXCEPT ![t].pc = "emit"]
    /\ UNCHANGED <<size, registry, stage, todo, dirty, seeds, crashes, historyVars>>

\* The rest of _ingest: on_event records the line.
Emit(t) ==
    /\ job[t].pc = "emit"
    /\ LET f == job[t].file
           k == job[t].next IN
        /\ Write([db EXCEPT !.rows[f][k] = @ + 1])
        /\ job' = [job EXCEPT ![t].pc = IF 2 * (k + 1) <= job[t].to
                                        THEN "count" ELSE "store",
                              ![t].next = k + 1]
        /\ shown' = IF job[t].backlog THEN shown
                    ELSE [shown EXCEPT ![f] = @ \cup {k}]
    /\ UNCHANGED <<size, registry, stage, todo, dirty, seeds, crashes, hidden,
                   noticed>>

\* Faulty variant of Store: the offset becomes the present length of the file.
StoreSize(t) ==
    /\ job[t].pc = "store"
    /\ LET f == job[t].file
           to == size[f] IN
        /\ Write([db EXCEPT !.offset[f] = to])
        /\ registry' = IF job[t].own THEN registry
                       ELSE [registry EXCEPT ![f] = to]
    /\ job' = [job EXCEPT ![t] = Idle]
    /\ UNCHANGED <<size, stage, todo, dirty, seeds, crashes, historyVars>>

\* The chunk is done: fs.offset and processed_offset move past it.
Store(t) ==
    /\ job[t].pc = "store"
    /\ LET f == job[t].file
           to == job[t].to IN
        /\ Write([db EXCEPT !.offset[f] = to])
        /\ registry' = IF job[t].own THEN registry
                       ELSE [registry EXCEPT ![f] = to]
    /\ job' = [job EXCEPT ![t] = Idle]
    /\ UNCHANGED <<size, stage, todo, dirty, seeds, crashes, historyVars>>

\* The first stretch of _process_file: a file with a FileState is read at
\* once, another one first needs its stored offset.
Enter(t, f, backlog) ==
    job' = [job EXCEPT ![t] =
              IF registry[f] # None
              THEN Chunk(f, backlog, registry[f])
              ELSE [Idle EXCEPT !.pc = "lookup", !.file = f,
                                !.backlog = backlog]]

-----------------------------------------------------------------------------
(* The watcher's task. *)

\* start(): the session states and the seeded set are loaded, priming begins.
Start ==
    /\ stage[Watch] = "off"
    /\ stage' = [stage EXCEPT ![Watch] = "prime"]
    /\ todo' = [todo EXCEPT ![Watch] = Files]
    /\ UNCHANGED <<size, db, saved, registry, job, dirty, seeds, crashes,
                   historyVars>>

Priming(f) ==
    /\ stage[Watch] = "prime"
    /\ job[Watch].pc = "idle"
    /\ f \in todo[Watch]
    /\ todo' = [todo EXCEPT ![Watch] = @ \ {f}]

Seeded(f) == db.seeded /\ f \in Project

\* A transcript of a seeded project, or an empty one, is processed.
PrimeParse(f) ==
    /\ Priming(f)
    /\ Seeded(f) \/ size[f] = 0
    /\ Enter(Watch, f, TRUE)
    /\ UNCHANGED <<size, db, saved, registry, stage, dirty, seeds, crashes,
                   historyVars>>

\* The content another transcript already has is to stay invisible.
PrimeMarkEof(f) ==
    /\ Priming(f)
    /\ ~(Seeded(f) \/ size[f] = 0)
    /\ Write([db EXCEPT !.offset[f] = size[f]])
    /\ hidden' = [hidden EXCEPT ![f] = size[f]]
    /\ UNCHANGED <<size, registry, stage, job, dirty, seeds, crashes, noticed,
                   shown>>

\* _prime_done, and awatch starts observing.
PrimeDone ==
    /\ stage[Watch] = "prime"
    /\ job[Watch].pc = "idle"
    /\ todo[Watch] = {}
    /\ stage' = [stage EXCEPT ![Watch] = "watch"]
    /\ UNCHANGED <<size, db, saved, registry, todo, job, dirty, seeds, crashes,
                   historyVars>>

\* The awatch loop comes to a changed file.
Notice(f) ==
    /\ stage[Watch] = "watch"
    /\ job[Watch].pc = "idle"
    /\ f \in dirty
    /\ dirty' = dirty \ {f}
    /\ Enter(Watch, f, FALSE)
    /\ UNCHANGED <<size, db, saved, registry, stage, todo, seeds, crashes,
                   historyVars>>

-----------------------------------------------------------------------------
(* seed_project. *)

StartSeed(s) ==
    /\ stage[Watch] = "watch"
    /\ stage[s] = "off"
    /\ seeds < MaxSeeds
    /\ seeds' = seeds + 1
    /\ stage' = [stage EXCEPT ![s] = "seed"]
    /\ todo' = [todo EXCEPT ![s] = Project]
    /\ db' = [db EXCEPT !.seeded = TRUE]
    /\ UNCHANGED <<size, saved, registry, job, dirty, crashes, historyVars>>

\* Offset 0, FileState forgotten, _process_file from there.
SeedFile(s, f) ==
    /\ stage[s] = "seed"
    /\ job[s].pc = "idle"
    /\ f \in todo[s]
    /\ todo' = [todo EXCEPT ![s] = @ \ {f}]
    /\ Write([db EXCEPT !.offset[f] = 0])
    /\ registry' = [registry EXCEPT ![f] = None]
    /\ job' = [Disowned(job, f) EXCEPT
                 ![s] = [Idle EXCEPT !.pc = "lookup", !.file = f,
                                     !.backlog = TRUE]]
    /\ UNCHANGED <<size, stage, dirty, seeds, crashes, historyVars>>

\* The batch ends; the last one to end commits.
FinishSeed(s) ==
    /\ stage[s] = "seed"
    /\ job[s].pc = "idle"
    /\ todo[s] = {}
    /\ stage' = [stage EXCEPT ![s] = "off"]
    /\ saved' = IF \E u \in Seeders \ {s} : stage[u] = "seed" THEN saved ELSE db
    /\ UNCHANGED <<size, db, registry, todo, job, dirty, seeds, crashes, historyVars>>

-----------------------------------------------------------------------------
(* The outside. *)

\* Claude Code writes to a transcript; awatch, once started, reports it.
AppendHalf(f) ==
    /\ size[f] < 2 * Len(Msg)
    /\ size' = [size EXCEPT ![f] = @ + 1]
    /\ IF stage[Watch] = "watch"
       THEN /\ dirty' = dirty \cup {f}
            /\ noticed' = [noticed EXCEPT ![f] = size'[f]]
       ELSE UNCHANGED <<dirty, noticed>>
    /\ UNCHANGED <<db, saved, registry, stage, todo, job, seeds, crashes, hidden,
                   shown>>

\* The process dies: what was not committed is rolled back.
Crash ==
    /\ stage[Watch] # "off"
    /\ crashes < MaxCrashes
    /\ crashes' = crashes + 1
    /\ db' = saved
    /\ registry' = [f \in Files |-> None]
    /\ stage' = [t \in Tasks |-> "off"]
    /\ todo' = [t \in Tasks |-> {}]
    /\ job' = [t \in Tasks |-> Idle]
    /\ dirty' = {}
    /\ UNCHANGED <<size, saved, seeds, historyVars>>

-----------------------------------------------------------------------------
Process(t) == Lookup(t) \/ Register(t) \/ Count(t) \/ Emit(t) \/ Store(t)

WatchStep ==
    \/ Start \/ PrimeDone
    \/ \E f \in Files : PrimeParse(f) \/ PrimeMarkEof(f) \/ Notice(f)
    \/ Process(Watch)

SeedStep(s) ==
    \/ \E f \in Files : SeedFile(s, f)
    \/ FinishSeed(s)
    \/ Process(s)

Next ==
    \/ WatchStep
    \/ \E s \in Seeders : StartSeed(s) \/ SeedStep(s)
    \/ \E f \in Files : AppendHalf(f)
    \/ Crash

Spec == Init /\ [][Next]_vars

\* The event loop resumes every task that can run, and the user restarts a
\* daemon that died.
FairSpec ==
    /\ Spec
    /\ WF_vars(WatchStep)
    /\ \A s \in Seeders : WF_vars(SeedStep(s))

-----------------------------------------------------------------------------
(* Properties. *)

\* Line k of f lies wholly past what a prime pass marked as read.
Due(f, k) == hidden[f] <= 2 * (k - 1)

\* At-least-once across crashes, batches and concurrent seeding: whatever the
\* committed offset of a transcript has moved past was recorded in a committed
\* row, but for what priming hides on purpose (watcher.py _process_file stores
\* the offset last; ledger.py batch_commits rolls both back together).
NoLineSkipped ==
    \A f \in Files : \A k \in Lines :
        Due(f, k) /\ 2 * k <= saved.offset[f] => saved.rows[f][k] > 0

\* Rows and position of a ledger, in lines.
InLines(ledger) ==
    [rows |-> [f \in Files |-> {k \in Lines : ledger.rows[f][k] > 0}],
     past |-> [f \in Files |-> ledger.offset[f] \div 2]]

\* The delivery promised to the rest of the daemon (Delivery.tla): whole lines
\* only, none passed over, and one step back for the whole ledger in a crash,
\* whatever tasks read the files and batches hold back commits.
Promise == INSTANCE Delivery WITH
              whole  <- [f \in Files |-> size[f] \div 2],
              unseen <- [f \in Files |-> (hidden[f] + 1) \div 2],
              live   <- InLines(db),
              kept   <- InLines(saved)

ImplementsDelivery == Promise!DeliverySpec

Messages(f, ledger) == {Msg[k] : k \in {j \in Lines : ledger.rows[f][j] > 0}} \ {0}

\* The writer ends a message before it begins another; lines of no message may
\* come in between.
Contiguous ==
    \A i, j, k \in Lines :
        i < j /\ j < k /\ Msg[i] = Msg[k] /\ Msg[i] # 0 => Msg[j] \in {0, Msg[i]}

\* Every message with a recorded line is a turn, in the live and in the
\* committed ledger, whichever tasks ingested its lines; each line is recorded
\* once, and a message is one turn if its lines are contiguous, as long as
\* nothing crashed and nothing was seeded, however the writer's partial lines
\* and the notifications fall (watcher.py _ingest coalesces on
\* last_message_id).
ATurnPerMessage ==
    \A f \in Files :
        /\ \A ledger \in {db, saved} :
              Cardinality(Messages(f, ledger)) <= ledger.turns[f]
        /\ crashes = 0 /\ seeds = 0 =>
              /\ \A k \in Lines : db.rows[f][k] <= 1
              /\ Contiguous => db.turns[f] <= Cardinality({Msg[k] : k \in Lines} \ {0})

\* Every line written by the time awatch last reported the file is recorded in
\* the end, even when seeding and crashes come in between.
EventuallyRecorded ==
    <>[](\A f \in Files : \A k \in Lines :
            Due(f, k) /\ 2 * k <= noticed[f] => db.rows[f][k] > 0)

=============================================================================
