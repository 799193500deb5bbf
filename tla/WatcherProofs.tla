--------------------------- MODULE WatcherProofs ---------------------------
(***************************************************************************)
(* Proofs about Watcher for any set of transcripts and of lines, any       *)
(* number of overlapping seed requests and any number of crashes: type     *)
(* correctness, NoLineSkipped, ATurnPerMessage, and that Watcher           *)
(* implements Delivery.                                                    *)
(***************************************************************************)
EXTENDS Watcher, FiniteSetTheorems, TLAPS

-----------------------------------------------------------------------------
(* The inductive invariant. *)

\* Every line that starts before offset o, and not before h, has a row.
Read(h, rows, o) ==
    \A k \in Lines : h <= 2 * (k - 1) /\ 2 * (k - 1) < o => rows[k] > 0

\* Both stored offsets, and that of a registered FileState, have been read to.
OffsetsRead ==
    \A f \in Files :
        /\ Read(hidden[f], db.rows[f], db.offset[f])
        /\ Read(hidden[f], saved.rows[f], saved.offset[f])
        /\ registry[f] # None => Read(hidden[f], db.rows[f], registry[f])
        /\ hidden[f] <= size[f]

\* A task inside _process_file has recorded every due line before the one it
\* is at; the offset it will store is a line boundary, and it has recorded the
\* lines before that when it comes to store it.
JobRead(h, rows, j) ==
    /\ j.pc = "register" => Read(h, rows, j.off)
    /\ j.pc \in {"count", "emit", "store"} =>
          /\ j.to % 2 = 0
          /\ Read(h, rows, 2 * (j.next - 1))
    /\ j.pc = "store" => j.to <= 2 * (j.next - 1)

JobsRead ==
    \A t \in Tasks : job[t].pc # "idle" =>
        JobRead(hidden[job[t].file], db.rows[job[t].file], job[t])

Inv == TypeOK /\ OffsetsRead /\ JobsRead

-----------------------------------------------------------------------------
(* Types. *)

LEMMA Sizing == /\ Len(Msg) \in Nat /\ Lines \subseteq Nat
                /\ Sizes \subseteq Nat /\ 0 \in Sizes /\ None \notin Sizes
                /\ \A k \in Lines : Msg[k] \in Nat
  BY WatcherAssumption DEF Lines, Sizes, None

LEMMA IdleIsJob == Idle \in Job
  BY Sizing DEF Idle, Job

\* What a write to the ledger may change, and that it stays a ledger.
LEMMA LedgerUpdates ==
    ASSUME NEW d \in LedgerState, NEW f \in Files
    PROVE  /\ \A o \in Sizes : [d EXCEPT !.offset[f] = o] \in LedgerState
           /\ \A m \in Nat :
                [d EXCEPT !.turns[f] = @ + 1, !.last[f] = m] \in LedgerState
           /\ \A k \in Lines : [d EXCEPT !.rows[f][k] = @ + 1] \in LedgerState
           /\ [d EXCEPT !.seeded = TRUE] \in LedgerState
<1>1. /\ d = [seeded |-> d.seeded, offset |-> d.offset, rows |-> d.rows,
               turns |-> d.turns, last |-> d.last]
      /\ d.seeded \in BOOLEAN /\ d.offset \in [Files -> Sizes]
      /\ d.rows \in [Files -> [Lines -> Nat]]
      /\ d.turns \in [Files -> Nat] /\ d.last \in [Files -> Nat]
  BY DEF LedgerState
<1>2. ASSUME NEW o \in Sizes PROVE [d EXCEPT !.offset[f] = o] \in LedgerState
  BY <1>1 DEF LedgerState
<1>3. ASSUME NEW m \in Nat
      PROVE  [d EXCEPT !.turns[f] = @ + 1, !.last[f] = m] \in LedgerState
  <2>1. [d.turns EXCEPT ![f] = @ + 1] \in [Files -> Nat]
    BY <1>1
  <2>2. [d.last EXCEPT ![f] = m] \in [Files -> Nat]
    BY <1>1
  <2> QED BY <1>1, <2>1, <2>2 DEF LedgerState
<1>4. ASSUME NEW k \in Lines
      PROVE  [d EXCEPT !.rows[f][k] = @ + 1] \in LedgerState
  <2>1. [d.rows EXCEPT ![f][k] = @ + 1] \in [Files -> [Lines -> Nat]]
    <3>1. [d.rows[f] EXCEPT ![k] = @ + 1] \in [Lines -> Nat]
      BY <1>1
    <3> QED BY <1>1, <3>1
  <2> QED BY <1>1, <2>1 DEF LedgerState
<1>5. [d EXCEPT !.seeded = TRUE] \in LedgerState
  BY <1>1 DEF LedgerState
<1> QED
  BY <1>2, <1>3, <1>4, <1>5

\* The job a chunk starts, if it has a complete line.
LEMMA ChunkType ==
    ASSUME TypeOK, NEW f \in Files, NEW backlog \in BOOLEAN, NEW off \in Sizes
    PROVE  /\ Chunk(f, backlog, off) \in Job
           /\ Chunk(f, backlog, off).pc \in {"idle", "count", "store"}
           /\ Chunk(f, backlog, off).pc # "idle" => Chunk(f, backlog, off).file = f
           /\ Chunk(f, backlog, off).pc = "count" =>
                 2 * Chunk(f, backlog, off).next <= Chunk(f, backlog, off).to
<1> DEFINE from == IF size[f] < off THEN 0 ELSE off
           to   == 2 * (size[f] \div 2)
           next == (from + 1) \div 2 + 1
<1>1. size[f] \in Nat /\ size[f] <= 2 * Len(Msg) /\ Len(Msg) \in Nat
  BY Sizing DEF TypeOK, Sizes
<1>2. from \in Nat /\ to \in Nat /\ next \in Nat /\ to <= size[f]
  BY <1>1 DEF Sizes
<1>3. to \in Sizes
  BY <1>1, <1>2 DEF Sizes
<1>4. from < to => next \in 1..(Len(Msg) + 1)
  BY <1>1, <1>2
<1>5. CASE to <= from
  BY <1>5, IdleIsJob DEF Chunk, Idle
<1>6. CASE ~(to <= from)
  <2> DEFINE j == [pc |-> IF 2 * next <= to THEN "count" ELSE "store",
                   file |-> f, backlog |-> backlog, own |-> FALSE,
                   off |-> 0, next |-> next, to |-> to]
  <2>1. Chunk(f, backlog, off) = j
    BY <1>6 DEF Chunk
  <2>2. next \in 1..(Len(Msg) + 1)
    BY <1>2, <1>4, <1>6
  <2> HIDE DEF from, to, next
  <2>3. j \in Job
    BY <1>3, <2>2, Sizing DEF Job
  <2> QED
    BY <2>1, <2>3
<1> QED
  BY <1>5, <1>6

LEMMA TypeInit == Init => TypeOK
<1> SUFFICES ASSUME Init PROVE TypeOK
  OBVIOUS
<1>1. EmptyLedger \in LedgerState
  BY Sizing DEF EmptyLedger, LedgerState
<1>2. /\ registry \in [Files -> Sizes \cup {None}]
      /\ job \in [Tasks -> Job] /\ \A t \in Tasks : job[t].pc = "idle"
  BY IdleIsJob DEF Init, Idle
<1>3. /\ stage \in [Tasks -> {"off", "prime", "watch", "seed"}]
      /\ todo \in [Tasks -> SUBSET Files]
      /\ hidden \in [Files -> Sizes] /\ noticed \in [Files -> Sizes]
      /\ shown \in [Files -> SUBSET Lines]
      /\ seeds \in 0..MaxSeeds /\ crashes \in 0..MaxCrashes
  BY Sizing, WatcherAssumption DEF Init
<1> QED
  BY <1>1, <1>2, <1>3 DEF Init, TypeOK

\* The conjunct of TypeOK that ties a task's fields together.
JobShape ==
    \A t \in Tasks :
        /\ job[t].pc # "idle" => job[t].file \in Files
        /\ job[t].pc \in {"count", "emit"} => 2 * job[t].next <= job[t].to

LEMMA WriteType ==
    ASSUME TypeOK, NEW new \in LedgerState, Write(new)
    PROVE  db' = new /\ db' \in LedgerState /\ saved' \in LedgerState
           /\ (saved' = saved \/ saved' = new)
  BY DEF Write, TypeOK

\* Replacing the job of one task.
LEMMA JobUpdate ==
    ASSUME TypeOK, NEW t \in Tasks, NEW j \in Job,
           j.pc # "idle" => j.file \in Files,
           j.pc \in {"count", "emit"} => 2 * j.next <= j.to,
           job' = [job EXCEPT ![t] = j]
    PROVE  job' \in [Tasks -> Job] /\ JobShape'
  BY DEF TypeOK, JobShape

LEMMA DisownedType ==
    ASSUME TypeOK, NEW f \in Files
    PROVE  /\ Disowned(job, f) \in [Tasks -> Job]
           /\ \A u \in Tasks :
                /\ Disowned(job, f)[u].pc = job[u].pc
                /\ Disowned(job, f)[u].file = job[u].file
                /\ Disowned(job, f)[u].off = job[u].off
                /\ Disowned(job, f)[u].next = job[u].next
                /\ Disowned(job, f)[u].to = job[u].to
<1>1. ASSUME NEW u \in Tasks
      PROVE  /\ [job[u] EXCEPT !.own = TRUE] \in Job
             /\ Disowned(job, f)[u] \in Job
             /\ Disowned(job, f)[u].pc = job[u].pc
             /\ Disowned(job, f)[u].file = job[u].file
             /\ Disowned(job, f)[u].off = job[u].off
             /\ Disowned(job, f)[u].next = job[u].next
             /\ Disowned(job, f)[u].to = job[u].to
  <2>1. job[u] \in Job
    BY DEF TypeOK
  <2>2. [job[u] EXCEPT !.own = TRUE] \in Job
    BY <2>1 DEF Job
  <2> QED BY <2>1, <2>2 DEF Disowned, Job
<1>2. Disowned(job, f) = [u \in Tasks |-> Disowned(job, f)[u]]
  BY DEF Disowned
<1> QED
  BY <1>1, <1>2

LEMMA TypeProcess ==
    ASSUME TypeOK, NEW t \in Tasks, Process(t)
    PROVE  TypeOK'
<1>0. job[t] \in Job /\ JobShape /\ db \in LedgerState /\ saved \in LedgerState
  BY DEF TypeOK, JobShape
<1>1. CASE Lookup(t)
  <2> DEFINE f == job[t].file
             j == [job[t] EXCEPT !.pc = "register", !.off = db.offset[f]]
  <2>1. f \in Files /\ db.offset[f] \in Sizes
    BY <1>0, <1>1 DEF Lookup, JobShape, LedgerState
  <2>2. j \in Job /\ j.pc = "register" /\ j.file \in Files
    BY <1>0, <2>1 DEF Job
  <2>3. job' = [job EXCEPT ![t] = j]
    BY <1>1 DEF Lookup, TypeOK
  <2> HIDE DEF j
  <2>4. job' \in [Tasks -> Job] /\ JobShape'
    BY <2>2, <2>3, JobUpdate
  <2> QED BY <1>1, <2>4 DEF Lookup, TypeOK, JobShape, historyVars
<1>2. CASE Register(t)
  <2> DEFINE f == job[t].file
             j == Chunk(f, job[t].backlog, job[t].off)
  <2>1. f \in Files /\ job[t].off \in Sizes /\ job[t].backlog \in BOOLEAN
    BY <1>0, <1>2 DEF Register, JobShape, Job
  <2>2. /\ j \in Job /\ j.pc \in {"idle", "count", "store"}
        /\ j.pc # "idle" => j.file = f
        /\ j.pc = "count" => 2 * j.next <= j.to
    BY <2>1, ChunkType
  <2>3. /\ registry' = [registry EXCEPT ![f] = job[t].off]
        /\ job' = [Disowned(job, f) EXCEPT ![t] = j]
        /\ UNCHANGED <<size, db, saved, stage, todo, dirty, seeds, crashes,
                       hidden, noticed, shown>>
    BY <1>2 DEF Register, historyVars
  <2> HIDE DEF j, f
  <2>4. job' \in [Tasks -> Job] /\ JobShape'
    BY <1>0, <2>1, <2>2, <2>3, DisownedType DEF JobShape
  <2>5. registry' \in [Files -> Sizes \cup {None}]
    BY <2>1, <2>3 DEF TypeOK
  <2> QED BY <2>3, <2>4, <2>5 DEF TypeOK, JobShape
<1>3. CASE Count(t)
  <2> DEFINE f == job[t].file
             m == Msg[job[t].next]
             j == [job[t] EXCEPT !.pc = "emit"]
  <2>1. f \in Files /\ 2 * job[t].next <= job[t].to /\ job[t].next \in Lines
    BY <1>0, <1>3, Sizing DEF Count, JobShape, Job, Lines, Sizes
  <2>2. m \in Nat
    BY <2>1, Sizing
  <2>3. Write([db EXCEPT !.turns[f] = @ + 1, !.last[f] = m]) \/ Write(db)
    BY <1>3 DEF Count
  <2>4. db' \in LedgerState /\ saved' \in LedgerState
    <3> HIDE DEF f, m
    <3> QED BY <1>0, <2>1, <2>2, <2>3, LedgerUpdates, WriteType
  <2>5. job' = [job EXCEPT ![t] = j]
    BY <1>3 DEF Count, TypeOK
  <2>6. j \in Job /\ j.file \in Files /\ 2 * j.next <= j.to
    BY <1>0, <2>1 DEF Job
  <2> HIDE DEF j
  <2>7. job' \in [Tasks -> Job] /\ JobShape'
    BY <2>5, <2>6, JobUpdate
  <2> QED BY <1>3, <2>4, <2>7 DEF Count, TypeOK, JobShape, historyVars
<1>4. CASE Emit(t)
  <2> DEFINE f == job[t].file
             k == job[t].next
             j == [job[t] EXCEPT !.pc = IF 2 * (k + 1) <= job[t].to
                                        THEN "count" ELSE "store",
                                 !.next = k + 1]
  <2>1. f \in Files /\ 2 * k <= job[t].to /\ k \in Lines /\ k + 1 \in 1..(Len(Msg) + 1)
    BY <1>0, <1>4, Sizing DEF Emit, JobShape, Job, Lines, Sizes
  <2>2. Write([db EXCEPT !.rows[f][k] = @ + 1])
    BY <1>4 DEF Emit
  <2>3. db' \in LedgerState /\ saved' \in LedgerState
    <3> HIDE DEF f, k
    <3> QED BY <1>0, <2>1, <2>2, LedgerUpdates, WriteType
  <2>4. job' = [job EXCEPT ![t] = j]
    BY <1>4 DEF Emit, TypeOK
  <2>5. j \in Job /\ j.file \in Files /\ (j.pc = "count" => 2 * j.next <= j.to)
        /\ j.pc \in {"count", "store"}
    BY <1>0, <2>1 DEF Job
  <2>6. shown' \in [Files -> SUBSET Lines]
    <3>1. shown[f] \cup {k} \subseteq Lines
      BY <2>1 DEF TypeOK
    <3>2. shown' = shown \/ shown' = [shown EXCEPT ![f] = shown[f] \cup {k}]
      BY <1>4 DEF Emit
    <3> QED BY <3>1, <3>2 DEF TypeOK
  <2> HIDE DEF j
  <2>7. job' \in [Tasks -> Job] /\ JobShape'
    BY <2>4, <2>5, JobUpdate
  <2> QED BY <1>4, <2>3, <2>6, <2>7 DEF Emit, TypeOK, JobShape
<1>5. CASE Store(t)
  <2> DEFINE f == job[t].file
             to == job[t].to
  <2>1. f \in Files /\ to \in Sizes
    BY <1>0, <1>5 DEF Store, JobShape, Job
  <2>2. Write([db EXCEPT !.offset[f] = to])
    BY <1>5 DEF Store
  <2>3. db' \in LedgerState /\ saved' \in LedgerState
    <3> HIDE DEF f, to
    <3> QED BY <1>0, <2>1, <2>2, LedgerUpdates, WriteType
  <2>4. registry' \in [Files -> Sizes \cup {None}]
    <3>1. registry' = registry \/ registry' = [registry EXCEPT ![f] = to]
      BY <1>5 DEF Store
    <3> HIDE DEF f, to
    <3> QED BY <2>1, <3>1 DEF TypeOK
  <2>5. job' = [job EXCEPT ![t] = Idle]
    BY <1>5 DEF Store
  <2>6. job' \in [Tasks -> Job] /\ JobShape'
    <3>1. Idle.pc = "idle"
      BY DEF Idle
    <3> QED BY <2>5, <3>1, IdleIsJob, JobUpdate
  <2> QED BY <1>5, <2>3, <2>4, <2>6 DEF Store, TypeOK, JobShape, historyVars
<1> QED
  BY <1>1, <1>2, <1>3, <1>4, <1>5 DEF Process

\* The job a task enters _process_file with.
LEMMA EnterType ==
    ASSUME TypeOK, NEW t \in Tasks, NEW f \in Files, NEW backlog \in BOOLEAN,
           Enter(t, f, backlog)
    PROVE  job' \in [Tasks -> Job] /\ JobShape'
<1> DEFINE j == IF registry[f] # None THEN Chunk(f, backlog, registry[f])
                ELSE [Idle EXCEPT !.pc = "lookup", !.file = f, !.backlog = backlog]
<1>1. job' = [job EXCEPT ![t] = j]
  BY DEF Enter
<1>2. /\ j \in Job /\ (j.pc # "idle" => j.file \in Files)
      /\ j.pc \in {"count", "emit"} => 2 * j.next <= j.to
  <2>1. CASE registry[f] # None
    <3>1. registry[f] \in Sizes /\ j = Chunk(f, backlog, registry[f])
      BY <2>1 DEF TypeOK
    <3> HIDE DEF j
    <3> QED BY <3>1, ChunkType
  <2>2. CASE registry[f] = None
    <3> DEFINE n == [Idle EXCEPT !.pc = "lookup", !.file = f, !.backlog = backlog]
    <3>1. n \in Job /\ n.pc = "lookup" /\ n.file = f
      BY IdleIsJob DEF Idle, Job
    <3>2. j = n
      BY <2>2
    <3> QED BY <3>1, <3>2
  <2> QED BY <2>1, <2>2
<1> HIDE DEF j
<1> QED
  BY <1>1, <1>2, JobUpdate

LEMMA TypeStep == TypeOK /\ [Next]_vars => TypeOK'
<1> SUFFICES ASSUME TypeOK, [Next]_vars PROVE TypeOK'
  OBVIOUS
<1>0. /\ JobShape /\ db \in LedgerState /\ saved \in LedgerState
      /\ Watch \in Tasks /\ Seeders \subseteq Tasks /\ Project \subseteq Files
  BY WatcherAssumption DEF TypeOK, JobShape, Tasks
<1>1. ASSUME NEW t \in Tasks, Process(t) PROVE TypeOK'
  BY <1>1, TypeProcess
<1>2. CASE Start \/ PrimeDone
  BY <1>0, <1>2 DEF Start, PrimeDone, TypeOK, historyVars
<1>3. ASSUME NEW f \in Files, PrimeParse(f) PROVE TypeOK'
  <2>1. job' \in [Tasks -> Job] /\ JobShape'
    BY <1>0, <1>3, EnterType DEF PrimeParse
  <2> QED BY <1>0, <1>3, <2>1 DEF PrimeParse, Priming, TypeOK, JobShape, historyVars
<1>4. ASSUME NEW f \in Files, PrimeMarkEof(f) PROVE TypeOK'
  <2>1. size[f] \in Sizes /\ Write([db EXCEPT !.offset[f] = size[f]])
    BY <1>4 DEF PrimeMarkEof, TypeOK
  <2>2. db' \in LedgerState /\ saved' \in LedgerState
    BY <1>0, <2>1, LedgerUpdates, WriteType
  <2>3. hidden' \in [Files -> Sizes]
    BY <1>4, <2>1 DEF PrimeMarkEof, TypeOK
  <2> QED BY <1>0, <1>4, <2>2, <2>3 DEF PrimeMarkEof, Priming, TypeOK, JobShape
<1>5. ASSUME NEW f \in Files, Notice(f) PROVE TypeOK'
  <2>1. job' \in [Tasks -> Job] /\ JobShape'
    BY <1>0, <1>5, EnterType DEF Notice
  <2> QED BY <1>0, <1>5, <2>1 DEF Notice, TypeOK, JobShape, historyVars
<1>6. ASSUME NEW s \in Seeders, StartSeed(s) PROVE TypeOK'
  <2>1. db' \in LedgerState
    <3>1. [db EXCEPT !.seeded = TRUE] \in LedgerState
      BY <1>0 DEF LedgerState
    <3> QED BY <1>6, <3>1 DEF StartSeed
  <2>2. seeds' \in 0..MaxSeeds
    BY <1>6, WatcherAssumption DEF StartSeed, TypeOK
  <2> QED BY <1>0, <1>6, <2>1, <2>2 DEF StartSeed, TypeOK, JobShape, historyVars
<1>7. ASSUME NEW s \in Seeders, NEW f \in Files, SeedFile(s, f) PROVE TypeOK'
  <2> DEFINE n == [Idle EXCEPT !.pc = "lookup", !.file = f, !.backlog = TRUE]
  <2>1. n \in Job /\ n.pc = "lookup" /\ n.file = f
    BY IdleIsJob DEF Idle, Job
  <2>2. job' = [Disowned(job, f) EXCEPT ![s] = n]
        /\ Write([db EXCEPT !.offset[f] = 0])
        /\ registry' = [registry EXCEPT ![f] = None]
    BY <1>7 DEF SeedFile
  <2> HIDE DEF n
  <2>3. job' \in [Tasks -> Job] /\ JobShape'
    BY <1>0, <2>1, <2>2, DisownedType DEF JobShape
  <2>4. db' \in LedgerState /\ saved' \in LedgerState
    BY <1>0, <2>2, Sizing, LedgerUpdates, WriteType
  <2>5. registry' \in [Files -> Sizes \cup {None}]
    BY <2>2 DEF TypeOK
  <2> QED BY <1>0, <1>7, <2>3, <2>4, <2>5 DEF SeedFile, TypeOK, JobShape, historyVars
<1>8. ASSUME NEW s \in Seeders, FinishSeed(s) PROVE TypeOK'
  BY <1>0, <1>8 DEF FinishSeed, TypeOK, historyVars
<1>9. ASSUME NEW f \in Files, AppendHalf(f) PROVE TypeOK'
  <2>1. size' \in [Files -> Sizes]
    <3>1. size[f] \in Nat /\ size[f] + 1 \in Sizes
      BY <1>9, Sizing DEF AppendHalf, TypeOK, Sizes
    <3> QED BY <1>9, <3>1 DEF AppendHalf, TypeOK
  <2>2. dirty' \subseteq Files /\ noticed' \in [Files -> Sizes]
    BY <1>9, <2>1 DEF AppendHalf, TypeOK
  <2> QED BY <1>9, <2>1, <2>2 DEF AppendHalf, TypeOK, JobShape
<1>10. CASE Crash
  <2>1. job' \in [Tasks -> Job] /\ \A t \in Tasks : job'[t].pc = "idle"
    BY <1>10, IdleIsJob DEF Crash, Idle
  <2>2. crashes' \in 0..MaxCrashes
    BY <1>10, WatcherAssumption DEF Crash, TypeOK
  <2>3. registry' \in [Files -> Sizes \cup {None}]
    BY <1>10 DEF Crash
  <2> QED BY <1>10, <2>1, <2>2, <2>3 DEF Crash, TypeOK, historyVars
<1>11. CASE UNCHANGED vars
  BY <1>11 DEF vars, taskVars, historyVars, TypeOK
<1> QED
  BY <1>0, <1>1, <1>2, <1>3, <1>4, <1>5, <1>6, <1>7, <1>8, <1>9, <1>10, <1>11
     DEF Next, WatchStep, SeedStep

\* Every reachable state of the watcher and its ledger is well typed; a task
\* never works on a line past the chunk it read (watcher.py _process_file).
THEOREM TypeCorrect == Spec => []TypeOK
  BY TypeInit, TypeStep, PTL DEF Spec

-----------------------------------------------------------------------------
(* No line is skipped. *)

\* Rows are only added and the hidden part of a file only grows.
Grows ==
    \A f \in Files :
        /\ hidden[f] <= hidden'[f]
        /\ \A k \in Lines : db.rows[f][k] > 0 => db'.rows[f][k] > 0

LEMMA ReadMono ==
    ASSUME NEW h \in Nat, NEW h2 \in Nat, h <= h2, NEW o \in Int, NEW o2 \in Int,
           o2 <= o, NEW rows, NEW rows2,
           \A k \in Lines : rows[k] > 0 => rows2[k] > 0, Read(h, rows, o)
    PROVE  Read(h2, rows2, o2)
  BY Sizing DEF Read

LEMMA JobMono ==
    ASSUME NEW h \in Nat, NEW h2 \in Nat, h <= h2, NEW rows, NEW rows2,
           \A k \in Lines : rows[k] > 0 => rows2[k] > 0,
           NEW j \in Job, NEW j2 \in Job, j2.pc = j.pc, j2.off = j.off,
           j2.next = j.next, j2.to = j.to, JobRead(h, rows, j)
    PROVE  JobRead(h2, rows2, j2)
<1>1. j.off \in Int /\ j.next \in Int /\ 2 * (j.next - 1) \in Int
  BY Sizing DEF Job, Sizes
<1>2. j.pc = "register" => Read(h2, rows2, j2.off)
  <2>1. j.pc = "register" => Read(h, rows, j.off)
    BY DEF JobRead
  <2>2. j.off <= j.off
    BY <1>1
  <2> QED BY <1>1, <2>1, <2>2, ReadMono
<1>3. j.pc \in {"count", "emit", "store"} => Read(h2, rows2, 2 * (j2.next - 1))
  <2> DEFINE o == 2 * (j.next - 1)
  <2>1. j.pc \in {"count", "emit", "store"} => Read(h, rows, o)
    BY DEF JobRead
  <2>2. o \in Int /\ o <= o /\ 2 * (j2.next - 1) = o
    BY <1>1
  <2> HIDE DEF o
  <2>3. Read(h, rows, o) => Read(h2, rows2, o)
    BY <2>2, ReadMono
  <2> QED BY <2>1, <2>2, <2>3
<1> QED BY <1>2, <1>3 DEF JobRead

\* A file read from an offset up to which its lines are recorded yields a job
\* for the lines after it.
LEMMA ChunkRead ==
    ASSUME TypeOK, NEW f \in Files, NEW backlog \in BOOLEAN, NEW off \in Sizes,
           NEW h \in Nat, NEW rows, Read(h, rows, off)
    PROVE  JobRead(h, rows, Chunk(f, backlog, off))
<1> DEFINE from == IF size[f] < off THEN 0 ELSE off
           to   == 2 * (size[f] \div 2)
           next == (from + 1) \div 2 + 1
           j    == Chunk(f, backlog, off)
<1>0. size[f] \in Nat /\ off \in Nat
  BY Sizing DEF TypeOK
<1>1. size[f] \in Nat /\ off \in Nat /\ from \in Nat /\ from <= off
  BY <1>0
<1>2. to \in Nat /\ to % 2 = 0 /\ next \in Nat /\ 2 * (next - 1) <= from + 1
  BY <1>1
<1>3. CASE to <= from
  BY <1>3 DEF Chunk, JobRead, Idle
<1>4. CASE ~(to <= from)
  <2>1. /\ j.pc = IF 2 * next <= to THEN "count" ELSE "store"
        /\ j.next = next /\ j.to = to
    BY <1>4 DEF Chunk
  <2>2. ASSUME NEW k \in Lines, 2 * (k - 1) < 2 * (next - 1) PROVE 2 * (k - 1) < off
    BY <1>1, <1>2, <2>2, Sizing
  <2>3. Read(h, rows, 2 * (next - 1))
    <3> HIDE DEF next
    <3> QED BY <2>2 DEF Read
  <2>4. ~(2 * next <= to) => to <= 2 * (next - 1)
    <3> HIDE DEF next, to
    <3> QED BY <1>2
  <2>5. to % 2 = 0
    BY <1>2
  <2> SUFFICES JobRead(h, rows, j)
    OBVIOUS
  <2> HIDE DEF next, to, j
  <2>6. CASE 2 * next <= to
    BY <2>1, <2>3, <2>5, <2>6 DEF JobRead
  <2>7. CASE ~(2 * next <= to)
    BY <2>1, <2>3, <2>4, <2>5, <2>7 DEF JobRead
  <2> QED BY <2>6, <2>7
<1> QED
  BY <1>3, <1>4

\* The invariant over a step, when the rows grow, given that the offsets and
\* the jobs it changes are read to.
LEMMA JobKept ==
    ASSUME TypeOK, TypeOK', JobsRead, Grows, NEW u \in Tasks,
           job[u].pc # "idle",
           job'[u].pc = job[u].pc, job'[u].file = job[u].file,
           job'[u].off = job[u].off, job'[u].next = job[u].next,
           job'[u].to = job[u].to
    PROVE  JobRead(hidden'[job'[u].file], db'.rows[job'[u].file], job'[u])
<1> DEFINE f == job[u].file
<1>1. f \in Files /\ hidden[f] \in Nat /\ hidden'[f] \in Nat
      /\ job[u] \in Job /\ job'[u] \in Job
  BY Sizing DEF TypeOK
<1>2. hidden[f] <= hidden'[f] /\ \A k \in Lines : db.rows[f][k] > 0 => db'.rows[f][k] > 0
  BY <1>1 DEF Grows
<1>3. JobRead(hidden[f], db.rows[f], job[u])
  BY DEF JobsRead
<1>4. job'[u].file = f
  OBVIOUS
<1> DEFINE h == hidden[f]
           h2 == hidden'[f]
           rows == db.rows[f]
           rows2 == db'.rows[f]
           j == job[u]
           j2 == job'[u]
<1>5. /\ h \in Nat /\ h2 \in Nat /\ h <= h2 /\ j \in Job /\ j2 \in Job
      /\ \A k \in Lines : rows[k] > 0 => rows2[k] > 0
      /\ j2.pc = j.pc /\ j2.off = j.off /\ j2.next = j.next /\ j2.to = j.to
      /\ JobRead(h, rows, j)
  BY <1>1, <1>2, <1>3
<1>6. JobRead(h2, rows2, j2)
  <2> HIDE DEF h, h2, rows, rows2, j, j2
  <2> QED BY <1>5, JobMono
<1> QED
  BY <1>4, <1>6

\* Offsets the step does not change.
LEMMA OffsetsKept ==
    ASSUME TypeOK, TypeOK', OffsetsRead, Grows, NEW f \in Files
    PROVE  /\ Read(hidden'[f], db'.rows[f], db.offset[f])
           /\ registry[f] # None => Read(hidden'[f], db'.rows[f], registry[f])
           /\ Read(hidden'[f], saved.rows[f], saved.offset[f])
<1>0. hidden[f] \in Nat /\ hidden'[f] \in Nat
  BY Sizing DEF TypeOK
<1>1. /\ db.offset[f] \in Int /\ db.offset[f] <= db.offset[f]
      /\ saved.offset[f] \in Int /\ saved.offset[f] <= saved.offset[f]
      /\ registry[f] # None => registry[f] \in Int /\ registry[f] <= registry[f]
  <2>1. db.offset[f] \in Sizes /\ saved.offset[f] \in Sizes
        /\ (registry[f] # None => registry[f] \in Sizes)
    BY DEF TypeOK, LedgerState
  <2>2. ASSUME NEW x \in Sizes PROVE x \in Int /\ x <= x
    BY Sizing
  <2> QED BY <2>1, <2>2
<1>2. /\ Read(hidden[f], db.rows[f], db.offset[f])
      /\ Read(hidden[f], saved.rows[f], saved.offset[f])
      /\ registry[f] # None => Read(hidden[f], db.rows[f], registry[f])
      /\ hidden[f] <= hidden'[f]
      /\ \A k \in Lines : db.rows[f][k] > 0 => db'.rows[f][k] > 0
  BY DEF OffsetsRead, Grows
<1>4. Read(hidden'[f], db'.rows[f], db.offset[f])
  BY <1>0, <1>1, <1>2, ReadMono
<1>5. registry[f] # None => Read(hidden'[f], db'.rows[f], registry[f])
  BY <1>0, <1>1, <1>2, ReadMono
<1>6. Read(hidden'[f], saved.rows[f], saved.offset[f])
  BY <1>0, <1>2, Sizing DEF Read
<1> QED
  BY <1>4, <1>5, <1>6

\* Only task t changes its job, but for the ownership of the others' FileStates.
LEMMA JobsKept ==
    ASSUME TypeOK, TypeOK', JobsRead, Grows, NEW t \in Tasks,
           \A u \in Tasks \ {t} :
               /\ job'[u].pc = job[u].pc /\ job'[u].file = job[u].file
               /\ job'[u].off = job[u].off /\ job'[u].next = job[u].next
               /\ job'[u].to = job[u].to,
           job'[t].pc # "idle" =>
               JobRead(hidden'[job'[t].file], db'.rows[job'[t].file], job'[t])
    PROVE  JobsRead'
<1>1. ASSUME NEW u \in Tasks, job'[u].pc # "idle"
      PROVE  JobRead(hidden'[job'[u].file], db'.rows[job'[u].file], job'[u])
  <2>1. CASE u = t
    BY <1>1, <2>1
  <2>2. CASE u # t
    <3>1. /\ job[u].pc # "idle" /\ job'[u].pc = job[u].pc
          /\ job'[u].file = job[u].file /\ job'[u].off = job[u].off
          /\ job'[u].next = job[u].next /\ job'[u].to = job[u].to
      BY <1>1, <2>2
    <3> QED BY <3>1, JobKept
  <2> QED BY <2>1, <2>2
<1> QED BY <1>1 DEF JobsRead

\* A step that leaves the rows and the hidden parts alone.
LEMMA SameGrows ==
    ASSUME TypeOK, db'.rows = db.rows, hidden' = hidden
    PROVE  Grows
<1>1. ASSUME NEW x \in Sizes PROVE x <= x
  BY Sizing
<1>2. \A f \in Files : hidden[f] \in Sizes
  BY DEF TypeOK
<1>3. \A f \in Files : hidden[f] <= hidden[f]
  BY <1>1, <1>2
<1> QED BY <1>3 DEF Grows

\* The offsets when rows, offsets and registered offsets are as before.
LEMMA OffsetsSame ==
    ASSUME TypeOK, TypeOK', OffsetsRead, Grows,
           db'.offset = db.offset, saved' = saved \/ saved' = db',
           \A f \in Files :
               /\ \/ registry'[f] \in {registry[f], None}
                  \/ Read(hidden'[f], db'.rows[f], registry'[f])
               /\ hidden'[f] <= size'[f]
    PROVE  OffsetsRead'
<1>1. ASSUME NEW f \in Files
      PROVE  /\ Read(hidden'[f], db'.rows[f], db'.offset[f])
             /\ Read(hidden'[f], saved'.rows[f], saved'.offset[f])
             /\ registry'[f] # None => Read(hidden'[f], db'.rows[f], registry'[f])
             /\ hidden'[f] <= size'[f]
  <2>1. /\ Read(hidden'[f], db'.rows[f], db.offset[f])
        /\ registry[f] # None => Read(hidden'[f], db'.rows[f], registry[f])
        /\ Read(hidden'[f], saved.rows[f], saved.offset[f])
    BY OffsetsKept
  <2>2. Read(hidden'[f], saved'.rows[f], saved'.offset[f])
    BY <2>1
  <2>3. registry'[f] # None => Read(hidden'[f], db'.rows[f], registry'[f])
    BY <2>1
  <2> QED BY <2>1, <2>2, <2>3
<1> QED BY <1>1 DEF OffsetsRead

LEMMA ReadInit == Init => Inv
<1> SUFFICES ASSUME Init PROVE Inv
  OBVIOUS
<1>1. TypeOK
  BY TypeInit
<1>2. ASSUME NEW h, NEW rows PROVE Read(h, rows, 0)
  <2>1. \A k \in Lines : ~(2 * (k - 1) < 0)
    BY Sizing DEF Lines
  <2> QED BY <2>1 DEF Read
<1>3. OffsetsRead
  <2>1. ASSUME NEW f \in Files
        PROVE  /\ db.offset[f] = 0 /\ saved.offset[f] = 0
               /\ registry[f] = None /\ hidden[f] = 0 /\ 0 <= size[f]
    <3>1. size[f] \in Nat
      BY <1>1, Sizing DEF TypeOK
    <3> QED BY <3>1 DEF Init, EmptyLedger
  <2> QED BY <1>2, <2>1 DEF OffsetsRead
<1>4. JobsRead
  BY DEF Init, JobsRead, Idle
<1> QED
  BY <1>1, <1>3, <1>4 DEF Inv

LEMMA ReadProcess ==
    ASSUME Inv, TypeOK', NEW t \in Tasks, Process(t)
    PROVE  OffsetsRead' /\ JobsRead'
<1> DEFINE f == job[t].file
<1>0. /\ TypeOK /\ OffsetsRead /\ JobsRead /\ job[t] \in Job
      /\ db \in LedgerState
      /\ job[t].pc # "idle" => f \in Files
  BY DEF Inv, TypeOK
<1>1. \A g \in Files : hidden[g] <= size[g]
  BY <1>0 DEF OffsetsRead
<1>2. CASE Lookup(t)
  <2>1. Grows
    BY <1>0, <1>2, SameGrows DEF Lookup, historyVars
  <2>2. OffsetsRead'
    BY <1>0, <1>1, <1>2, <2>1, OffsetsSame DEF Lookup, historyVars
  <2>3. /\ f \in Files /\ job' = [job EXCEPT ![t].pc = "register",
                                             ![t].off = db.offset[f]]
        /\ db' = db /\ hidden' = hidden
    BY <1>0, <1>2 DEF Lookup, historyVars
  <2>4. Read(hidden[f], db.rows[f], db.offset[f])
    BY <1>0, <2>3 DEF OffsetsRead
  <2>5. job'[t].pc = "register" /\ job'[t].off = db.offset[f] /\ job'[t].file = f
        /\ \A u \in Tasks \ {t} : job'[u] = job[u]
    BY <1>0, <2>3 DEF TypeOK, Job
  <2>6. JobRead(hidden'[job'[t].file], db'.rows[job'[t].file], job'[t])
    BY <2>3, <2>4, <2>5 DEF JobRead
  <2>7. JobsRead'
    BY <1>0, <2>1, <2>5, <2>6, JobsKept
  <2> QED BY <2>2, <2>7
<1>3. CASE Register(t)
  <2> DEFINE j == Chunk(f, job[t].backlog, job[t].off)
  <2>1. Grows
    BY <1>0, <1>3, SameGrows DEF Register, historyVars
  <2>2. /\ f \in Files /\ job[t].off \in Sizes /\ job[t].backlog \in BOOLEAN
        /\ job' = [Disowned(job, f) EXCEPT ![t] = j]
        /\ registry' = [registry EXCEPT ![f] = job[t].off]
        /\ UNCHANGED <<size, db, saved, hidden>>
    BY <1>0, <1>3 DEF Register, historyVars, Job
  <2>3. Read(hidden[f], db.rows[f], job[t].off)
    BY <1>0, <1>3 DEF Register, JobsRead, JobRead
  <2>4. hidden[f] \in Nat
    BY <1>0, <2>2, Sizing DEF TypeOK
  <2>5. JobRead(hidden[f], db.rows[f], j) /\ (j.pc # "idle" => j.file = f)
    BY <1>0, <2>2, <2>3, <2>4, ChunkRead, ChunkType
  <2> HIDE DEF j, f
  <2>6. OffsetsRead'
    <3>1. \A g \in Files : registry'[g] = registry[g]
                           \/ Read(hidden'[g], db'.rows[g], registry'[g])
      BY <1>0, <2>2, <2>3 DEF TypeOK
    <3> QED BY <1>0, <1>1, <2>1, <2>2, <3>1, OffsetsSame
  <2>7. job'[t] = j
    BY <1>0, <2>2, DisownedType
  <2>8. \A u \in Tasks \ {t} :
           /\ job'[u].pc = job[u].pc /\ job'[u].file = job[u].file
           /\ job'[u].off = job[u].off /\ job'[u].next = job[u].next
           /\ job'[u].to = job[u].to
    BY <1>0, <2>2, DisownedType
  <2>9. job'[t].pc # "idle" =>
           JobRead(hidden'[job'[t].file], db'.rows[job'[t].file], job'[t])
    <3>1. hidden' = hidden /\ db' = db
      BY <2>2
    <3> QED BY <2>5, <2>7, <3>1
  <2>10. JobsRead'
    BY <1>0, <2>1, <2>8, <2>9, JobsKept
  <2> QED BY <2>6, <2>10
<1>4. CASE Count(t)
  <2>1. /\ f \in Files /\ job[t].next \in Lines
    <3>1. /\ job[t].pc = "count" /\ job[t] \in Job /\ f \in Files
          /\ 2 * job[t].next <= job[t].to
      BY <1>0, <1>4 DEF Count, TypeOK
    <3>2. job[t].next \in 1..(Len(Msg) + 1) /\ job[t].to \in Sizes
      BY <3>1 DEF Job
    <3> QED BY <3>1, <3>2, Sizing DEF Lines, Sizes
  <2>2. /\ job' = [job EXCEPT ![t].pc = "emit"]
        /\ UNCHANGED <<size, registry, hidden>>
        /\ db'.rows = db.rows /\ db'.offset = db.offset
        /\ saved' = saved \/ saved' = db'
    <3> DEFINE new == [db EXCEPT !.turns[f] = @ + 1, !.last[f] = Msg[job[t].next]]
    <3>1. Write(new) \/ Write(db)
      BY <1>4 DEF Count
    <3>2. new.rows = db.rows /\ new.offset = db.offset
      BY <1>0 DEF LedgerState
    <3> HIDE DEF new
    <3> QED BY <1>4, <3>1, <3>2 DEF Count, Write, historyVars
  <2>3. Grows
    BY <1>0, <2>2, SameGrows
  <2>4. OffsetsRead'
    BY <1>0, <1>1, <2>2, <2>3, OffsetsSame
  <2>5. /\ job'[t].pc = "emit" /\ job'[t].file = f /\ job'[t].next = job[t].next
        /\ job'[t].to = job[t].to
        /\ \A u \in Tasks \ {t} : job'[u] = job[u]
    BY <1>0, <2>2 DEF TypeOK, Job
  <2>6. JobRead(hidden[f], db.rows[f], job[t]) /\ job[t].pc = "count"
    BY <1>0, <1>4 DEF JobsRead, Count
  <2>7. JobRead(hidden'[job'[t].file], db'.rows[job'[t].file], job'[t])
    BY <2>2, <2>5, <2>6 DEF JobRead
  <2> QED BY <1>0, <2>3, <2>4, <2>5, <2>7, JobsKept
<1>5. CASE Emit(t)
  <2> DEFINE k == job[t].next
  <2>1. /\ f \in Files /\ k \in Lines /\ k \in Nat /\ 2 * k <= job[t].to
        /\ job[t].to \in Nat /\ job[t].pc = "emit"
    <3>1. /\ f \in Files /\ job[t].to \in Sizes /\ k \in 1..(Len(Msg) + 1)
          /\ 2 * k <= job[t].to /\ job[t].pc = "emit"
      BY <1>0, <1>5 DEF Emit, TypeOK, Job
    <3> HIDE DEF f, k
    <3> QED BY <3>1, Sizing DEF Sizes, Lines
  <2>2. /\ db' = [db EXCEPT !.rows[f][k] = @ + 1]
        /\ saved' = saved \/ saved' = db'
        /\ job' = [job EXCEPT ![t].pc = IF 2 * (k + 1) <= job[t].to
                                        THEN "count" ELSE "store",
                              ![t].next = k + 1]
        /\ UNCHANGED <<size, registry, hidden>>
    BY <1>5 DEF Emit, Write
  <2>3. /\ db'.offset = db.offset
        /\ db'.rows[f][k] = db.rows[f][k] + 1
        /\ \A g \in Files : \A i \in Lines :
              g # f \/ i # k => db'.rows[g][i] = db.rows[g][i]
        /\ db.rows[f][k] \in Nat
    <3> HIDE DEF f, k
    <3>1. db \in LedgerState /\ db.rows \in [Files -> [Lines -> Nat]]
      BY <1>0 DEF LedgerState
    <3>2. /\ db' = [db EXCEPT !.rows = [db.rows EXCEPT ![f][k] = @ + 1]]
          /\ f \in Files /\ k \in Lines
      BY <2>1, <2>2
    <3>3. /\ db'.offset = db.offset
          /\ db'.rows = [db.rows EXCEPT ![f][k] = @ + 1]
      BY <3>1, <3>2 DEF LedgerState
    <3> QED BY <3>1, <3>2, <3>3
  <2>4. Grows
    <3>1. \A g \in Files : hidden[g] <= hidden[g]
      <4>1. \A g \in Files : hidden[g] \in Nat
        BY <1>0, Sizing DEF TypeOK
      <4> QED BY <4>1
    <3>2. ASSUME NEW g \in Files, NEW i \in Lines
          PROVE  db.rows[g][i] > 0 => db'.rows[g][i] > 0
      <4> HIDE DEF f, k
      <4>1. CASE g = f /\ i = k
        BY <2>3, <4>1
      <4>2. CASE g # f \/ i # k
        BY <2>3, <4>2
      <4> QED BY <4>1, <4>2
    <3> QED BY <2>2, <3>1, <3>2 DEF Grows
  <2>5. OffsetsRead'
    BY <1>0, <1>1, <2>2, <2>3, <2>4, OffsetsSame
  <2>6. /\ job'[t].pc = IF 2 * (k + 1) <= job[t].to THEN "count" ELSE "store"
        /\ job'[t].file = f /\ job'[t].next = k + 1 /\ job'[t].to = job[t].to
        /\ \A u \in Tasks \ {t} : job'[u] = job[u]
    <3>1. job \in [Tasks -> Job] /\ job[t] \in Job
      BY <1>0 DEF TypeOK
    <3>2. job'[t] = [job[t] EXCEPT !.pc = IF 2 * (k + 1) <= job[t].to
                                          THEN "count" ELSE "store",
                                   !.next = k + 1]
          /\ \A u \in Tasks \ {t} : job'[u] = job[u]
      BY <2>2, <3>1
    <3> QED BY <3>1, <3>2 DEF Job
  <2>7. Read(hidden[f], db.rows[f], 2 * (k - 1)) /\ job[t].to % 2 = 0
    BY <1>0, <2>1 DEF JobsRead, JobRead
  <2>8. Read(hidden'[f], db'.rows[f], 2 * ((k + 1) - 1))
    <3>1. ASSUME NEW i \in Lines, hidden[f] <= 2 * (i - 1), 2 * (i - 1) < 2 * k
          PROVE  db'.rows[f][i] > 0
      <4>1. CASE i = k
        BY <2>3, <4>1
      <4>2. CASE i # k
        <5>1. 2 * (i - 1) < 2 * (k - 1)
          BY <2>1, <3>1, <4>2, Sizing
        <5>2. db.rows[f][i] > 0
          BY <2>7, <3>1, <5>1 DEF Read
        <5> QED BY <2>1, <2>3, <4>2, <5>2
      <4> QED BY <4>1, <4>2
    <3>2. 2 * ((k + 1) - 1) = 2 * k
      BY <2>1
    <3> QED BY <2>2, <3>1, <3>2 DEF Read
  <2>9. ~(2 * (k + 1) <= job[t].to) => job[t].to <= 2 * ((k + 1) - 1)
    BY <2>1, <2>7
  <2> HIDE DEF k, f
  <2>10. JobRead(hidden'[job'[t].file], db'.rows[job'[t].file], job'[t])
    <3>1. CASE 2 * (k + 1) <= job[t].to
      BY <2>6, <2>7, <2>8, <3>1 DEF JobRead
    <3>2. CASE ~(2 * (k + 1) <= job[t].to)
      BY <2>6, <2>7, <2>8, <2>9, <3>2 DEF JobRead
    <3> QED BY <3>1, <3>2
  <2> QED BY <1>0, <2>4, <2>5, <2>6, <2>10, JobsKept
<1>6. CASE Store(t)
  <2> DEFINE to == job[t].to
  <2>1. /\ f \in Files /\ to \in Nat /\ job[t].next \in Nat
        /\ 2 * (job[t].next - 1) \in Int /\ hidden[f] \in Nat
    <3>1. /\ f \in Files /\ to \in Sizes /\ job[t].next \in 1..(Len(Msg) + 1)
          /\ hidden[f] \in Sizes
      BY <1>0, <1>6 DEF Store, TypeOK, Job
    <3> HIDE DEF f, to
    <3> QED BY <3>1, Sizing DEF Sizes
  <2>2. /\ db' = [db EXCEPT !.offset[f] = to]
        /\ saved' = saved \/ saved' = db'
        /\ registry' = registry \/ registry' = [registry EXCEPT ![f] = to]
        /\ job' = [job EXCEPT ![t] = Idle]
        /\ UNCHANGED <<size, hidden>>
    BY <1>6 DEF Store, Write, historyVars
  <2>3. /\ db'.rows = db.rows /\ db'.offset = [db.offset EXCEPT ![f] = to]
    BY <1>0, <2>2 DEF LedgerState
  <2>4. Grows
    BY <1>0, <2>2, <2>3, SameGrows
  <2>5. Read(hidden[f], db.rows[f], to)
    <3>1. Read(hidden[f], db.rows[f], 2 * (job[t].next - 1))
          /\ to <= 2 * (job[t].next - 1)
      BY <1>0, <1>6 DEF Store, JobsRead, JobRead
    <3> QED BY <2>1, <3>1, Sizing DEF Read
  <2>6. OffsetsRead'
    <3>1. ASSUME NEW g \in Files
          PROVE  /\ Read(hidden'[g], db'.rows[g], db'.offset[g])
                 /\ Read(hidden'[g], saved'.rows[g], saved'.offset[g])
                 /\ registry'[g] # None => Read(hidden'[g], db'.rows[g], registry'[g])
                 /\ hidden'[g] <= size'[g]
      <4>1. /\ Read(hidden'[g], db'.rows[g], db.offset[g])
            /\ registry[g] # None => Read(hidden'[g], db'.rows[g], registry[g])
            /\ Read(hidden'[g], saved.rows[g], saved.offset[g])
        BY <1>0, <2>4, OffsetsKept
      <4>2. /\ db'.offset[g] = IF g = f THEN to ELSE db.offset[g]
            /\ registry'[g] = registry[g] \/ (g = f /\ registry'[g] = to)
        BY <1>0, <2>1, <2>2, <2>3 DEF TypeOK, LedgerState
      <4>3. Read(hidden'[g], db'.rows[g], db'.offset[g])
        BY <2>2, <2>3, <2>5, <4>1, <4>2
      <4> QED BY <1>1, <2>2, <2>3, <2>5, <4>1, <4>2, <4>3
    <3> QED BY <3>1 DEF OffsetsRead
  <2>7. job'[t].pc = "idle" /\ \A u \in Tasks \ {t} : job'[u] = job[u]
    BY <1>0, <2>2 DEF TypeOK, Idle
  <2> QED BY <1>0, <2>4, <2>6, <2>7, JobsKept
<1> QED
  BY <1>2, <1>3, <1>4, <1>5, <1>6 DEF Process

LEMMA ReadStep == Inv /\ TypeOK' /\ [Next]_vars => Inv'
<1> SUFFICES ASSUME Inv, TypeOK', [Next]_vars PROVE OffsetsRead' /\ JobsRead'
  BY DEF Inv
<1>0. /\ TypeOK /\ OffsetsRead /\ JobsRead /\ db \in LedgerState
      /\ Watch \in Tasks /\ Seeders \subseteq Tasks
  BY WatcherAssumption DEF Inv, TypeOK, Tasks
<1>1. \A g \in Files : hidden[g] <= size[g] /\ hidden[g] \in Nat /\ size[g] \in Nat
  <2>1. \A g \in Files : hidden[g] \in Sizes /\ size[g] \in Sizes
    BY <1>0 DEF TypeOK
  <2> QED BY <1>0, <2>1, Sizing DEF OffsetsRead
<1>2. ASSUME NEW t \in Tasks, Process(t) PROVE OffsetsRead' /\ JobsRead'
  BY <1>2, ReadProcess
\* Steps that leave the jobs, the registry and the ledger's contents alone.
<1>3. CASE UNCHANGED <<size, hidden, registry, job, saved>>
           /\ db'.rows = db.rows /\ db'.offset = db.offset
  <2>1. Grows
    BY <1>0, <1>3, SameGrows
  <2>2. OffsetsRead'
    BY <1>0, <1>1, <1>3, <2>1, OffsetsSame
  <2>3. JobsRead'
    BY <1>0, <1>3 DEF JobsRead
  <2> QED BY <2>2, <2>3
<1>4. CASE Start \/ PrimeDone \/ UNCHANGED vars
  BY <1>3, <1>4 DEF Start, PrimeDone, vars, taskVars, historyVars
\* Entering _process_file.
<1>5. ASSUME NEW f \in Files, NEW backlog \in BOOLEAN, Enter(Watch, f, backlog),
             UNCHANGED <<size, hidden, registry, db, saved>>
      PROVE  OffsetsRead' /\ JobsRead'
  <2> DEFINE j == IF registry[f] # None THEN Chunk(f, backlog, registry[f])
                  ELSE [Idle EXCEPT !.pc = "lookup", !.file = f, !.backlog = backlog]
  <2>1. job' = [job EXCEPT ![Watch] = j]
    BY <1>5 DEF Enter
  <2>2. Grows
    BY <1>0, <1>5, SameGrows
  <2>3. OffsetsRead'
    BY <1>0, <1>1, <1>5, <2>2, OffsetsSame
  <2>4. j.pc # "idle" => j.file = f /\ JobRead(hidden[f], db.rows[f], j)
    <3>1. CASE registry[f] # None
      <4>1. registry[f] \in Sizes /\ Read(hidden[f], db.rows[f], registry[f])
            /\ j = Chunk(f, backlog, registry[f])
        BY <1>0, <3>1 DEF TypeOK, OffsetsRead
      <4> HIDE DEF j
      <4> QED BY <1>0, <1>1, <4>1, ChunkType, ChunkRead
    <3>2. CASE registry[f] = None
      <4>1. j.pc = "lookup" /\ j.file = f
        BY <3>2 DEF Idle
      <4> QED BY <4>1 DEF JobRead
    <3> QED BY <3>1, <3>2
  <2> HIDE DEF j
  <2>5. job'[Watch] = j /\ \A u \in Tasks \ {Watch} : job'[u] = job[u]
    BY <1>0, <2>1 DEF TypeOK
  <2>6. JobsRead'
    BY <1>0, <1>5, <2>2, <2>4, <2>5, JobsKept
  <2> QED BY <2>3, <2>6
<1>6. ASSUME NEW f \in Files, PrimeParse(f) \/ Notice(f)
      PROVE  OffsetsRead' /\ JobsRead'
  BY <1>5, <1>6 DEF PrimeParse, Notice, Priming, historyVars
\* Setting the stored offset of a file to o, up to which it is read or hidden.
<1>7. ASSUME NEW f \in Files, NEW o \in Sizes, Write([db EXCEPT !.offset[f] = o]),
             Grows, size' = size, \A g \in Files : hidden'[g] <= size[g],
             Read(hidden'[f], db.rows[f], o),
             \A g \in Files : registry'[g] \in {registry[g], None}
      PROVE  OffsetsRead'
  <2>1. /\ db'.rows = db.rows /\ db'.offset = [db.offset EXCEPT ![f] = o]
        /\ saved' = saved \/ saved' = db'
    BY <1>0, <1>7 DEF Write, LedgerState
  <2>2. ASSUME NEW g \in Files
        PROVE  /\ Read(hidden'[g], db'.rows[g], db'.offset[g])
               /\ Read(hidden'[g], saved'.rows[g], saved'.offset[g])
               /\ registry'[g] # None => Read(hidden'[g], db'.rows[g], registry'[g])
               /\ hidden'[g] <= size'[g]
    <3>1. /\ Read(hidden'[g], db'.rows[g], db.offset[g])
          /\ registry[g] # None => Read(hidden'[g], db'.rows[g], registry[g])
          /\ Read(hidden'[g], saved.rows[g], saved.offset[g])
      BY <1>0, <1>7, OffsetsKept
    <3>2. db'.offset[g] = IF g = f THEN o ELSE db.offset[g]
      BY <1>0, <2>1 DEF LedgerState
    <3>3. Read(hidden'[g], db'.rows[g], db'.offset[g])
      BY <1>7, <2>1, <3>1, <3>2
    <3> QED BY <1>7, <2>1, <3>1, <3>3
  <2> QED BY <2>2 DEF OffsetsRead
<1>8. ASSUME NEW f \in Files, PrimeMarkEof(f) PROVE OffsetsRead' /\ JobsRead'
  <2>1. /\ Write([db EXCEPT !.offset[f] = size[f]]) /\ size[f] \in Sizes
        /\ db' = [db EXCEPT !.offset[f] = size[f]]
        /\ hidden' = [hidden EXCEPT ![f] = size[f]]
        /\ UNCHANGED <<size, registry, job>>
    BY <1>0, <1>8 DEF PrimeMarkEof, Write, TypeOK
  <2>2. db'.rows = db.rows
    BY <1>0, <2>1 DEF LedgerState
  <2>3. \A g \in Files : hidden'[g] = IF g = f THEN size[f] ELSE hidden[g]
    BY <1>0, <2>1 DEF TypeOK
  <2>4. Grows /\ \A g \in Files : hidden'[g] <= size[g]
    BY <1>1, <2>2, <2>3 DEF Grows
  <2>5. Read(hidden'[f], db.rows[f], size[f])
    <3>1. \A k \in Lines : ~(size[f] <= 2 * (k - 1) /\ 2 * (k - 1) < size[f])
      BY <1>1, Sizing
    <3> QED BY <2>3, <3>1 DEF Read
  <2>6. OffsetsRead'
    BY <1>7, <2>1, <2>4, <2>5
  <2>7. JobsRead'
    BY <1>0, <2>1, <2>4, JobKept DEF JobsRead
  <2> QED BY <2>6, <2>7
<1>9. ASSUME NEW s \in Seeders, StartSeed(s) PROVE OffsetsRead' /\ JobsRead'
  BY <1>0, <1>3, <1>9 DEF StartSeed, historyVars, LedgerState
<1>10. ASSUME NEW s \in Seeders, NEW f \in Files, SeedFile(s, f)
       PROVE  OffsetsRead' /\ JobsRead'
  <2> DEFINE n == [Idle EXCEPT !.pc = "lookup", !.file = f, !.backlog = TRUE]
  <2>1. /\ Write([db EXCEPT !.offset[f] = 0])
        /\ db' = [db EXCEPT !.offset[f] = 0]
        /\ registry' = [registry EXCEPT ![f] = None]
        /\ job' = [Disowned(job, f) EXCEPT ![s] = n]
        /\ UNCHANGED <<size, hidden>>
    BY <1>10 DEF SeedFile, Write, historyVars
  <2>2. Grows
    BY <1>0, <2>1, SameGrows DEF LedgerState
  <2>3. Read(hidden'[f], db.rows[f], 0)
    <3>1. \A k \in Lines : ~(2 * (k - 1) < 0)
      BY Sizing DEF Lines
    <3> QED BY <3>1 DEF Read
  <2>4. \A g \in Files : registry'[g] \in {registry[g], None}
    BY <1>0, <2>1 DEF TypeOK
  <2>5. OffsetsRead'
    BY <1>1, <1>7, <2>1, <2>2, <2>3, <2>4, Sizing
  <2>6. n.pc = "lookup"
    BY DEF Idle
  <2> HIDE DEF n
  <2>7. /\ job'[s] = n
        /\ \A u \in Tasks \ {s} :
               /\ job'[u].pc = job[u].pc /\ job'[u].file = job[u].file
               /\ job'[u].off = job[u].off /\ job'[u].next = job[u].next
               /\ job'[u].to = job[u].to
    BY <1>0, <2>1, DisownedType
  <2>8. JobRead(hidden'[n.file], db'.rows[n.file], n)
    BY <2>6 DEF JobRead
  <2>9. JobsRead'
    BY <1>0, <2>2, <2>7, <2>8, JobsKept
  <2> QED BY <2>5, <2>9
<1>11. ASSUME NEW s \in Seeders, FinishSeed(s) PROVE OffsetsRead' /\ JobsRead'
  <2>1. /\ saved' = saved \/ saved' = db'
        /\ UNCHANGED <<size, hidden, db, registry, job>>
    BY <1>11 DEF FinishSeed, historyVars
  <2>2. Grows
    BY <1>0, <2>1, SameGrows
  <2>3. OffsetsRead'
    BY <1>0, <1>1, <2>1, <2>2, OffsetsSame
  <2>4. JobsRead'
    BY <1>0, <2>1 DEF JobsRead
  <2> QED BY <2>3, <2>4
<1>12. ASSUME NEW f \in Files, AppendHalf(f) PROVE OffsetsRead' /\ JobsRead'
  <2>1. /\ UNCHANGED <<hidden, db, saved, registry, job>>
        /\ size' = [size EXCEPT ![f] = @ + 1]
    BY <1>12 DEF AppendHalf
  <2>2. \A g \in Files : hidden[g] <= size'[g]
    BY <1>0, <1>1, <2>1 DEF TypeOK
  <2>3. Grows
    BY <1>0, <2>1, SameGrows
  <2>4. OffsetsRead'
    BY <1>0, <2>1, <2>2, <2>3, OffsetsSame
  <2>5. JobsRead'
    BY <1>0, <2>1 DEF JobsRead
  <2> QED BY <2>4, <2>5
<1>13. CASE Crash
  <2>1. /\ db' = saved /\ saved' = saved /\ size' = size /\ hidden' = hidden
        /\ \A f \in Files : registry'[f] = None
        /\ \A t \in Tasks : job'[t].pc = "idle"
    BY <1>13 DEF Crash, historyVars, Idle
  <2> QED BY <1>0, <2>1 DEF OffsetsRead, JobsRead
<1> QED
  BY <1>0, <1>2, <1>4, <1>6, <1>8, <1>9, <1>10, <1>11, <1>12, <1>13
     DEF Next, WatchStep, SeedStep

\* A transcript's committed offset never passes an unrecorded line, whatever
\* is crashed, seeded and tailed at the same time (watcher.py _process_file,
\* _prime_existing and seed_project; ledger.py batch_commits).
THEOREM CommittedOffsetsAreRead == Spec => []NoLineSkipped
<1>1. Inv => NoLineSkipped
  <2> SUFFICES ASSUME Inv, NEW f \in Files, NEW k \in Lines,
                      Due(f, k), 2 * k <= saved.offset[f]
               PROVE  saved.rows[f][k] > 0
    BY DEF NoLineSkipped
  <2>1. saved.offset[f] \in Nat
    BY Sizing DEF Inv, TypeOK, LedgerState
  <2>2. 2 * (k - 1) < saved.offset[f]
    BY <2>1, Sizing
  <2> QED BY <2>2 DEF Inv, OffsetsRead, Read, Due
<1>2. Inv /\ [Next]_vars => Inv'
  BY TypeStep, ReadStep DEF Inv
<1> QED
  BY ReadInit, <1>1, <1>2, PTL DEF Spec
-----------------------------------------------------------------------------
(* Every recorded message is a turn. *)

\* The messages a ledger knows of: recorded, or the last one counted.
Kept(f, ledger) == Messages(f, ledger) \cup ({ledger.last[f]} \ {0})

\* Messages of lines between their turn and their row.
AtHand(f) ==
    {Msg[job[t].next] : t \in {u \in Tasks : job[u].pc = "emit" /\ job[u].file = f}}
        \ {0}

Counted(f) == Kept(f, db) \cup AtHand(f)

\* What makes the first half of ATurnPerMessage inductive: the message counted
\* last and those at hand were counted too, in the committed ledger as in the
\* live one, so that neither coalescing nor a rollback loses a turn.
TurnInv ==
    \A f \in Files :
        /\ Cardinality(Counted(f)) <= db.turns[f]
        /\ Cardinality(Kept(f, saved)) <= saved.turns[f]

\* There are finitely many messages.
LEMMA FiniteMessages == IsFiniteSet({Msg[k] : k \in Lines})
<1> DEFINE All == {Msg[k] : k \in Lines}
           g == [k \in Lines |-> Msg[k]]
<1>1. IsFiniteSet(Lines)
  BY Sizing, FS_Interval DEF Lines
<1>2. g \in Surjection(Lines, All)
  BY DEF Surjection
<1> QED BY <1>1, <1>2, FS_Surjection

LEMMA KeptFinite ==
    ASSUME NEW f \in Files, NEW d \in LedgerState
    PROVE  IsFiniteSet(Kept(f, d)) /\ Cardinality(Kept(f, d)) \in Nat
<1> DEFINE All == {Msg[k] : k \in Lines}
<1>1. IsFiniteSet(All)
  BY FiniteMessages
<1>2. IsFiniteSet(All \cup {d.last[f]})
  BY <1>1, FS_AddElement
<1>3. Kept(f, d) \subseteq All \cup {d.last[f]}
  BY DEF Kept, Messages
<1>4. IsFiniteSet(Kept(f, d))
  BY <1>2, <1>3, FS_Subset
<1> QED BY <1>4, FS_CardinalityType

\* The line a task is at.
LEMMA LineAtHand ==
    ASSUME TypeOK, NEW t \in Tasks, job[t].pc \in {"count", "emit"}
    PROVE  job[t].next \in Lines /\ job[t].file \in Files
<1>1. /\ job[t] \in Job /\ 2 * job[t].next <= job[t].to /\ job[t].file \in Files
  BY DEF TypeOK
<1>2. job[t].next \in 1..(Len(Msg) + 1) /\ job[t].to \in Sizes
  BY <1>1 DEF Job
<1> QED BY <1>1, <1>2, Sizing DEF Lines, Sizes

FiniteCounts ==
    \A f \in Files : IsFiniteSet(Counted(f)) /\ Cardinality(Counted(f)) \in Nat

LEMMA CountedFinite == TypeOK => FiniteCounts
<1> SUFFICES ASSUME TypeOK, NEW f \in Files
             PROVE  IsFiniteSet(Counted(f)) /\ Cardinality(Counted(f)) \in Nat
  BY DEF FiniteCounts
<1> DEFINE All == {Msg[k] : k \in Lines}
<1>1. IsFiniteSet(Kept(f, db))
  BY KeptFinite DEF TypeOK
<1>2. IsFiniteSet(All)
  BY FiniteMessages
<1>3. AtHand(f) \subseteq All
  <2>1. \A t \in Tasks : job[t].pc = "emit" => job[t].next \in Lines
    BY LineAtHand
  <2> QED BY <2>1 DEF AtHand
<1>4. IsFiniteSet(AtHand(f))
  BY <1>2, <1>3, FS_Subset
<1>5. IsFiniteSet(Counted(f))
  BY <1>1, <1>4, FS_Union DEF Counted
<1> QED BY <1>5, FS_CardinalityType

\* The committed ledger is left alone, or becomes the live one.
LEMMA TurnSaved ==
    ASSUME TypeOK', TurnInv, saved' = saved \/ saved' = db',
           \A f \in Files : Cardinality(Counted(f)') <= db'.turns[f]
    PROVE  TurnInv'
<1>1. ASSUME NEW f \in Files PROVE Cardinality(Kept(f, saved)') <= saved'.turns[f]
  <2>1. CASE saved' = saved
    BY <2>1 DEF TurnInv, Kept, Messages
  <2>2. CASE saved' = db'
    <3>1. /\ IsFiniteSet(Counted(f)') /\ Cardinality(Counted(f)') \in Nat
          /\ Kept(f, saved)' \subseteq Counted(f)'
      <4>1. TypeOK' => FiniteCounts'
        BY CountedFinite, PTL
      <4>2. Kept(f, saved)' = Kept(f, db)'
        BY <2>2 DEF Kept, Messages
      <4> QED BY <4>1, <4>2 DEF FiniteCounts, Counted
    <3>2. Cardinality(Kept(f, saved)') <= Cardinality(Counted(f)')
          /\ Cardinality(Kept(f, saved)') \in Nat
      BY <3>1, FS_Subset, FS_CardinalityType
    <3>3. db'.turns[f] \in Nat
      BY DEF TypeOK, LedgerState
    <3> QED BY <2>2, <3>1, <3>2, <3>3
  <2> QED BY <2>1, <2>2
<1> QED BY <1>1 DEF TurnInv

\* A step that counts and records nothing.
LEMMA TurnKept ==
    ASSUME TypeOK, TypeOK', TurnInv, saved' = saved \/ saved' = db',
           db'.rows = db.rows, db'.last = db.last, db'.turns = db.turns,
           \A t \in Tasks : job'[t].pc = "emit" =>
               job[t].pc = "emit" /\ job'[t].next = job[t].next /\ job'[t].file = job[t].file
    PROVE  TurnInv'
<1>1. ASSUME NEW f \in Files PROVE Cardinality(Counted(f)') <= db'.turns[f]
  <2>1. AtHand(f)' \subseteq AtHand(f)
    BY DEF AtHand
  <2>2. Kept(f, db)' = Kept(f, db)
    BY DEF Kept, Messages
  <2>3. Counted(f)' \subseteq Counted(f)
    BY <2>1, <2>2 DEF Counted
  <2>4. Cardinality(Counted(f)') <= Cardinality(Counted(f))
        /\ Cardinality(Counted(f)') \in Nat /\ Cardinality(Counted(f)) \in Nat
    BY <2>3, CountedFinite, FS_Subset, FS_CardinalityType DEF FiniteCounts
  <2>5. Cardinality(Counted(f)) <= db.turns[f] /\ db.turns[f] \in Nat
    BY DEF TurnInv, TypeOK, LedgerState
  <2> QED BY <2>4, <2>5
<1> QED BY <1>1, TurnSaved

\* A message that is not the last counted one is a new turn; one that is was
\* counted before.
LEMMA TurnCount ==
    ASSUME TypeOK, TypeOK', TurnInv, NEW t \in Tasks, Count(t)
    PROVE  TurnInv'
<1>0. PICK f \in Files, m \in Nat : f = job[t].file /\ m = Msg[job[t].next]
  BY LineAtHand, Sizing DEF Count
<1>1. /\ db \in LedgerState /\ job \in [Tasks -> Job]
      /\ job[t].next \in Lines
  BY LineAtHand DEF Count, TypeOK
<1>2. /\ job'[t] = [job[t] EXCEPT !.pc = "emit"]
      /\ \A u \in Tasks \ {t} : job'[u] = job[u]
      /\ saved' = saved \/ saved' = db'
      /\ db' = IF m # 0 /\ m # db.last[f]
               THEN [db EXCEPT !.turns[f] = @ + 1, !.last[f] = m] ELSE db
  BY <1>0, <1>1 DEF Count, Write
<1>3. /\ db'.rows = db.rows
      /\ db'.last[f] = IF m # 0 THEN m ELSE db.last[f]
      /\ db'.turns[f] = IF m # 0 /\ m # db.last[f] THEN db.turns[f] + 1 ELSE db.turns[f]
      /\ \A g \in Files \ {f} : db'.last[g] = db.last[g] /\ db'.turns[g] = db.turns[g]
  BY <1>1, <1>2 DEF LedgerState
<1>4. ASSUME NEW g \in Files, NEW x \in AtHand(g)'
      PROVE  x \in AtHand(g) \/ (g = f /\ x = m /\ x # 0)
  <2>1. PICK u \in Tasks : /\ job'[u].pc = "emit" /\ job'[u].file = g
                           /\ x = Msg[job'[u].next] /\ x # 0
    BY <1>4 DEF AtHand
  <2>2. CASE u = t
    BY <1>0, <1>1, <1>2, <2>1, <2>2 DEF Job
  <2>3. CASE u # t
    BY <1>2, <2>1, <2>3 DEF AtHand
  <2> QED BY <2>2, <2>3
<1>5. ASSUME NEW g \in Files PROVE Cardinality(Counted(g)') <= db'.turns[g]
  <2>0. /\ IsFiniteSet(Counted(g)) /\ Cardinality(Counted(g)) \in Nat
        /\ Cardinality(Counted(g)) <= db.turns[g] /\ db.turns[g] \in Nat
    BY <1>1, CountedFinite DEF FiniteCounts, TurnInv, LedgerState
  <2>1. CASE g # f \/ m = 0 \/ m = db.last[f]
    <3>1. Kept(g, db)' \subseteq Kept(g, db)
      BY <1>3, <2>1 DEF Kept, Messages
    <3>2. AtHand(g)' \subseteq Counted(g)
      <4>1. ASSUME NEW x \in AtHand(g)' PROVE x \in Counted(g)
        BY <1>4, <2>1, <4>1 DEF Counted, Kept
      <4> QED BY <4>1
    <3>3. Counted(g)' \subseteq Counted(g)
      BY <3>1, <3>2 DEF Counted
    <3>4. Cardinality(Counted(g)') <= Cardinality(Counted(g))
          /\ Cardinality(Counted(g)') \in Nat
      BY <2>0, <3>3, FS_Subset, FS_CardinalityType
    <3>5. db'.turns[g] = db.turns[g]
      BY <1>3, <2>1
    <3> QED BY <2>0, <3>4, <3>5
  <2>2. CASE g = f /\ m # 0 /\ m # db.last[f]
    <3>1. Kept(g, db)' \subseteq Kept(g, db) \cup {m}
      BY <1>3, <2>2 DEF Kept, Messages
    <3>2. Counted(g)' \subseteq Counted(g) \cup {m}
      <4>1. AtHand(g)' \subseteq AtHand(g) \cup {m}
        BY <1>4
      <4> QED BY <3>1, <4>1 DEF Counted
    <3>3. /\ IsFiniteSet(Counted(g) \cup {m})
          /\ Cardinality(Counted(g) \cup {m}) <= Cardinality(Counted(g)) + 1
          /\ Cardinality(Counted(g) \cup {m}) \in Nat
      <4> DEFINE C == Counted(g)
      <4> HIDE DEF C
      <4>1. IsFiniteSet(C) /\ Cardinality(C) \in Nat
        BY <2>0 DEF C
      <4>2. /\ IsFiniteSet(C \cup {m})
            /\ Cardinality(C \cup {m}) = IF m \in C THEN Cardinality(C)
                                        ELSE Cardinality(C) + 1
        BY ONLY <4>1, FS_AddElement
      <4>3. Cardinality(C \cup {m}) <= Cardinality(C) + 1
            /\ Cardinality(C \cup {m}) \in Nat
        BY <4>1, <4>2
      <4> QED BY <4>2, <4>3 DEF C
    <3>4. Cardinality(Counted(g)') <= Cardinality(Counted(g) \cup {m})
          /\ Cardinality(Counted(g)') \in Nat
      BY <3>2, <3>3, FS_Subset, FS_CardinalityType
    <3>5. db'.turns[g] = db.turns[g] + 1
      BY <1>3, <2>2
    <3> QED BY <2>0, <3>3, <3>4, <3>5
  <2> QED BY <2>1, <2>2
<1> QED BY <1>2, <1>5, TurnSaved

\* The line that gets its row was at hand.
LEMMA TurnEmit ==
    ASSUME TypeOK, TypeOK', TurnInv, NEW t \in Tasks, Emit(t)
    PROVE  TurnInv'
<1> DEFINE f == job[t].file
           k == job[t].next
<1>1. /\ db \in LedgerState /\ job \in [Tasks -> Job]
      /\ f \in Files /\ k \in Lines /\ job[t].pc = "emit"
  BY LineAtHand DEF Emit, TypeOK
<1>2. /\ job'[t].pc # "emit"
      /\ \A u \in Tasks \ {t} : job'[u] = job[u]
      /\ saved' = saved \/ saved' = db'
      /\ db' = [db EXCEPT !.rows[f][k] = @ + 1]
  BY <1>1 DEF Emit, Write, Job
<1>3. Msg[k] \in AtHand(f) \cup {0}
  BY <1>1 DEF AtHand
<1> HIDE DEF f, k
<1>4. /\ db'.last = db.last /\ db'.turns = db.turns
      /\ \A g \in Files, j \in Lines : g # f \/ j # k => db'.rows[g][j] = db.rows[g][j]
  BY <1>1, <1>2 DEF LedgerState
<1>5. ASSUME NEW g \in Files PROVE Cardinality(Counted(g)') <= db'.turns[g]
  <2>0. /\ IsFiniteSet(Counted(g)) /\ Cardinality(Counted(g)) \in Nat
        /\ Cardinality(Counted(g)) <= db.turns[g] /\ db.turns[g] \in Nat
    BY <1>1, CountedFinite DEF FiniteCounts, TurnInv, LedgerState
  <2>1. AtHand(g)' \subseteq AtHand(g)
    BY <1>2 DEF AtHand
  <2>2. Messages(g, db)' \subseteq Messages(g, db) \cup AtHand(g)
    BY <1>3, <1>4 DEF Messages
  <2>3. Counted(g)' \subseteq Counted(g)
    BY <1>4, <2>1, <2>2 DEF Counted, Kept
  <2>4. Cardinality(Counted(g)') <= Cardinality(Counted(g))
        /\ Cardinality(Counted(g)') \in Nat
    BY <2>0, <2>3, FS_Subset, FS_CardinalityType
  <2> QED BY <1>4, <2>0, <2>4
<1> QED BY <1>2, <1>5, TurnSaved

\* A rollback takes the turns back with the rows and the last message.
LEMMA TurnCrash ==
    ASSUME TypeOK, TypeOK', TurnInv, Crash
    PROVE  TurnInv'
<1>1. /\ db' = saved /\ saved' = saved /\ \A t \in Tasks : job'[t].pc # "emit"
  BY DEF Crash, Idle
<1>2. ASSUME NEW f \in Files PROVE Counted(f)' = Kept(f, saved)
  <2>1. AtHand(f)' = {}
    BY <1>1 DEF AtHand
  <2>2. Kept(f, db)' = Kept(f, saved)
    BY <1>1 DEF Kept, Messages
  <2> QED BY <2>1, <2>2 DEF Counted
<1>3. \A f \in Files : Cardinality(Counted(f)') <= db'.turns[f]
  BY <1>1, <1>2 DEF TurnInv
<1> QED BY <1>1, <1>3, TurnSaved
LEMMA TurnInit == Init => TurnInv
<1> SUFFICES ASSUME Init, NEW f \in Files
             PROVE  /\ Counted(f) = {} /\ Kept(f, saved) = {}
                    /\ db.turns[f] = 0 /\ saved.turns[f] = 0
  BY FS_EmptySet DEF TurnInv
<1>1. AtHand(f) = {}
  BY DEF Init, AtHand, Idle
<1>2. Kept(f, db) = {} /\ Kept(f, saved) = {}
  BY DEF Init, EmptyLedger, Kept, Messages
<1> QED BY <1>1, <1>2 DEF Init, EmptyLedger, Counted

LEMMA TurnStep ==
    ASSUME TypeOK, TypeOK', TurnInv, [Next]_vars
    PROVE  TurnInv'
<1>0. /\ db \in LedgerState /\ job \in [Tasks -> Job]
      /\ Watch \in Tasks /\ Seeders \subseteq Tasks
  BY WatcherAssumption DEF TypeOK, Tasks
<1>a. ASSUME NEW f \in Files, NEW o \in Sizes, Write([db EXCEPT !.offset[f] = o])
      PROVE  /\ saved' = saved \/ saved' = db'
             /\ db'.rows = db.rows /\ db'.last = db.last /\ db'.turns = db.turns
  BY <1>0, <1>a DEF Write, LedgerState
\* Only Count brings a task to the point where its line awaits its row.
<1>b. ASSUME NEW t \in Tasks, NEW f \in Files, NEW backlog \in BOOLEAN, Enter(t, f, backlog)
      PROVE  \A u \in Tasks : job'[u].pc = "emit" => u # t /\ job'[u] = job[u]
  <2> DEFINE j == IF registry[f] # None THEN Chunk(f, backlog, registry[f])
                  ELSE [Idle EXCEPT !.pc = "lookup", !.file = f, !.backlog = backlog]
  <2>1. job' = [job EXCEPT ![t] = j]
    BY <1>b DEF Enter
  <2>2. j.pc # "emit"
    <3>1. CASE registry[f] # None
      <4>1. registry[f] \in Sizes /\ j = Chunk(f, backlog, registry[f])
        BY <3>1 DEF TypeOK
      <4> HIDE DEF j
      <4> QED BY <4>1, ChunkType
    <3>2. CASE registry[f] = None
      BY <3>2 DEF Idle
    <3> QED BY <3>1, <3>2
  <2> HIDE DEF j
  <2> QED BY <1>0, <2>1, <2>2
<1>1. ASSUME NEW t \in Tasks, Process(t) PROVE TurnInv'
  <2>1. CASE Lookup(t)
    <3>1. \A u \in Tasks : job'[u].pc = "emit" => job'[u] = job[u]
      BY <1>0, <2>1 DEF Lookup, Job
    <3> QED BY <2>1, <3>1, TurnKept DEF Lookup
  <2>2. CASE Register(t)
    <3> DEFINE f == job[t].file
               j == Chunk(f, job[t].backlog, job[t].off)
    <3>1. /\ f \in Files /\ job[t].off \in Sizes /\ job[t].backlog \in BOOLEAN
      BY <1>0, <2>2 DEF Register, TypeOK, Job
    <3>2. j.pc # "emit"
      BY <3>1, ChunkType
    <3>3. job' = [Disowned(job, f) EXCEPT ![t] = j] /\ UNCHANGED <<db, saved>>
      BY <2>2 DEF Register
    <3> HIDE DEF f, j
    <3>4. \A u \in Tasks : job'[u].pc = "emit" =>
             job[u].pc = "emit" /\ job'[u].next = job[u].next /\ job'[u].file = job[u].file
      BY <3>1, <3>2, <3>3, DisownedType
    <3> QED BY <3>3, <3>4, TurnKept
  <2>3. CASE Store(t)
    <3>1. /\ job[t].file \in Files /\ job[t].to \in Sizes
      BY <1>0, <2>3 DEF Store, TypeOK, Job
    <3>2. Write([db EXCEPT !.offset[job[t].file] = job[t].to])
      BY <2>3 DEF Store
    <3>3. \A u \in Tasks : job'[u].pc = "emit" => job'[u] = job[u]
      BY <1>0, <2>3 DEF Store, Idle
    <3> QED BY <1>a, <3>1, <3>2, <3>3, TurnKept
  <2> QED BY <1>1, <2>1, <2>2, <2>3, TurnCount, TurnEmit DEF Process
<1>2. CASE Start \/ PrimeDone \/ (\E f \in Files : AppendHalf(f)) \/ UNCHANGED vars
  <2>1. UNCHANGED <<db, saved, job>>
    BY <1>2 DEF Start, PrimeDone, AppendHalf, vars, taskVars
  <2> QED BY <2>1, TurnKept
<1>3. ASSUME NEW f \in Files, PrimeParse(f) \/ Notice(f) PROVE TurnInv'
  BY <1>0, <1>3, <1>b, TurnKept DEF PrimeParse, Notice
<1>4. ASSUME NEW f \in Files, PrimeMarkEof(f) PROVE TurnInv'
  <2>1. size[f] \in Sizes /\ Write([db EXCEPT !.offset[f] = size[f]]) /\ job' = job
    BY <1>4 DEF PrimeMarkEof, TypeOK
  <2> QED BY <1>a, <2>1, TurnKept
<1>5. ASSUME NEW s \in Seeders, StartSeed(s) PROVE TurnInv'
  <2>1. /\ job' = job /\ saved' = saved
        /\ db'.rows = db.rows /\ db'.last = db.last /\ db'.turns = db.turns
    BY <1>0, <1>5 DEF StartSeed, LedgerState
  <2> QED BY <2>1, TurnKept
<1>6. ASSUME NEW s \in Seeders, NEW f \in Files, SeedFile(s, f) PROVE TurnInv'
  <2> DEFINE n == [Idle EXCEPT !.pc = "lookup", !.file = f, !.backlog = TRUE]
  <2>1. /\ job' = [Disowned(job, f) EXCEPT ![s] = n]
        /\ Write([db EXCEPT !.offset[f] = 0])
    BY <1>6 DEF SeedFile
  <2>2. n.pc # "emit"
    BY DEF Idle
  <2> HIDE DEF n
  <2>3. \A u \in Tasks : job'[u].pc = "emit" =>
           job[u].pc = "emit" /\ job'[u].next = job[u].next /\ job'[u].file = job[u].file
    BY <1>0, <2>1, <2>2, DisownedType
  <2> QED BY <1>a, <2>1, <2>3, TurnKept, Sizing
<1>7. ASSUME NEW s \in Seeders, FinishSeed(s) PROVE TurnInv'
  <2>1. UNCHANGED <<db, job>> /\ (saved' = saved \/ saved' = db')
    BY <1>7 DEF FinishSeed
  <2> QED BY <2>1, TurnKept
<1> QED
  BY <1>0, <1>1, <1>2, <1>3, <1>4, <1>5, <1>6, <1>7, TurnCrash
     DEF Next, WatchStep, SeedStep
-----------------------------------------------------------------------------
(* Without crash and seed: a line once, a message once. *)

\* The first line that starts at half line o or later.
NextLine(o) == (o + 1) \div 2 + 1

\* Where the watcher's task stands in f: the first line without a row, and the
\* first that is not counted.
Working(f) == job[Watch].file = f /\ job[Watch].pc \in {"count", "emit", "store"}
ToRecord(f) == IF Working(f) THEN job[Watch].next ELSE NextLine(db.offset[f])
ToCount(f) == IF Working(f) /\ job[Watch].pc = "emit" THEN job[Watch].next + 1
              ELSE ToRecord(f)

\* The lines of f counted, and their messages.
Past(f) == {k \in Lines : NextLine(hidden[f]) <= k /\ k < ToCount(f)}
Told(f) == {Msg[k] : k \in Past(f)} \ {0}

\* The prime pass has not come to f.
Unread(f) == stage[Watch] = "off" \/ f \in todo[Watch]

FileCalm(f) ==
    /\ hidden[f] <= db.offset[f] /\ db.offset[f] <= size[f]
    /\ registry[f] \in {None, db.offset[f]}
    /\ Unread(f) => /\ registry[f] = None /\ db.turns[f] = 0
                    /\ job[Watch].file # f

\* No line from ToRecord(f) on has a row, and none has two.
RowsCalm(f) ==
    /\ NextLine(hidden[f]) <= ToRecord(f)
    /\ \A k \in Lines : /\ db.rows[f][k] <= 1
                        /\ db.rows[f][k] > 0 => k < ToRecord(f)

\* A counted message that goes on after ToCount(f) is the last one counted, so
\* that no message is counted twice.
TurnsCalm(f) ==
    /\ \A k \in Past(f), n \in Lines :
          n >= ToCount(f) /\ Msg[k] = Msg[n] /\ Msg[k] # 0 => db.last[f] = Msg[k]
    /\ db.turns[f] <= Cardinality(Told(f))

\* The watcher's FileState is the registered one; the chunk it works on begins
\* at the stored offset and ends at a line boundary within the file.
WatchCalm ==
    LET j == job[Watch] IN
    /\ ~j.own
    /\ stage[Watch] = "off" => j = Idle
    /\ stage[Watch] = "watch" => todo[Watch] = {}
    /\ j.pc = "idle" => j = Idle
    /\ j.pc = "register" => j.off = db.offset[j.file]
    /\ j.pc \in {"count", "emit", "store"} =>
          /\ db.offset[j.file] <= j.to /\ j.to <= size[j.file]
          /\ 2 * (j.next - 1) <= j.to

\* As long as nothing crashed and nothing was seeded the watcher's task is alone.
Calm == crashes = 0 /\ seeds = 0
Alone == \A s \in Seeders : stage[s] = "off" /\ job[s] = Idle

CalmFile(f) == FileCalm(f) /\ RowsCalm(f) /\ (Contiguous => TurnsCalm(f))

CalmInv == Calm => Alone /\ WatchCalm /\ \A f \in Files : CalmFile(f)

LEMMA CalmInit == Init => CalmInv
<1> SUFFICES ASSUME Init PROVE Alone /\ WatchCalm /\ \A f \in Files : CalmFile(f)
  BY DEF CalmInv
<1>1. Watch \in Tasks /\ Seeders \subseteq Tasks
  BY DEF Tasks
<1>2. Alone /\ WatchCalm
  BY <1>1 DEF Init, Alone, WatchCalm, Idle
<1>3. ASSUME NEW f \in Files PROVE CalmFile(f)
  <2>1. /\ hidden[f] = 0 /\ db.offset[f] = 0 /\ size[f] \in Nat /\ registry[f] = None
        /\ db.turns[f] = 0 /\ job[Watch].file # f /\ job[Watch].pc = "idle"
        /\ \A k \in Lines : db.rows[f][k] = 0
    <3>1. job[Watch].file = None /\ None \notin Files
      BY <1>1, WatcherAssumption DEF Init, Idle
    <3> QED BY <1>1, <3>1, Sizing DEF Init, EmptyLedger, Idle
  <2>2. FileCalm(f) /\ RowsCalm(f)
    <3>1. 0 <= 0 /\ 0 <= 1 /\ ~(0 > 0)
      OBVIOUS
    <3>2. 0 <= size[f]
      BY <2>1
    <3>3. NextLine(hidden[f]) <= ToRecord(f)
      BY <2>1 DEF ToRecord, Working, NextLine
    <3> QED BY <2>1, <3>1, <3>2, <3>3 DEF FileCalm, RowsCalm
  <2>3. TurnsCalm(f)
    <3>1. ToCount(f) = NextLine(hidden[f])
      BY <2>1 DEF ToCount, ToRecord, Working
    <3>2. NextLine(hidden[f]) \in Int
      BY <2>1 DEF NextLine
    <3>3. Past(f) = {}
      <4>1. ASSUME NEW x \in Int, NEW k \in Lines PROVE ~(x <= k /\ k < x)
        BY Sizing
      <4> QED BY <3>1, <3>2, <4>1 DEF Past
    <3>4. Told(f) = {}
      BY <3>3 DEF Told
    <3> QED BY <2>1, <3>3, <3>4, FS_EmptySet DEF TurnsCalm
  <2> QED BY <2>2, <2>3 DEF CalmFile
<1> QED BY <1>2, <1>3
AllCalm == Alone /\ WatchCalm /\ \A f \in Files : CalmFile(f)

LEMMA CalmTypes ==
    ASSUME TypeOK, NEW f \in Files
    PROVE  /\ hidden[f] \in Nat /\ size[f] \in Nat /\ db.offset[f] \in Nat
           /\ db.offset[f] \in Sizes /\ size[f] \in Sizes
           /\ db.turns[f] \in Nat /\ db.rows[f] \in [Lines -> Nat]
           /\ job \in [Tasks -> Job] /\ db \in LedgerState
           /\ Watch \in Tasks /\ Seeders \subseteq Tasks /\ Watch \notin Seeders
<1>1. hidden[f] \in Sizes /\ size[f] \in Sizes /\ db.offset[f] \in Sizes
  BY DEF TypeOK, LedgerState
<1>2. db.turns[f] \in Nat /\ db.rows[f] \in [Lines -> Nat]
  BY DEF TypeOK, LedgerState
<1> QED BY <1>1, <1>2, Sizing, WatcherAssumption DEF TypeOK, Tasks

\* A file the watcher is not at, or where it stays at the same line.
LEMMA CalmFileKept ==
    ASSUME TypeOK, TypeOK', NEW f \in Files, CalmFile(f),
           hidden'[f] = hidden[f], size[f] <= size'[f],
           db'.offset[f] = db.offset[f], db'.rows[f] = db.rows[f],
           db'.turns[f] = db.turns[f], db'.last[f] = db.last[f],
           registry'[f] \in {registry[f], db.offset[f]},
           Unread(f)' => Unread(f) /\ registry'[f] = registry[f] /\ job'[Watch].file # f,
           ToRecord(f)' = ToRecord(f), ToCount(f)' = ToCount(f)
    PROVE  CalmFile(f)'
<1>1. size[f] \in Nat /\ size'[f] \in Nat /\ db.offset[f] \in Nat
  <2>1. size'[f] \in Nat
    BY Sizing DEF TypeOK
  <2> QED BY <2>1, CalmTypes
<1>2. FileCalm(f)'
  BY <1>1 DEF CalmFile, FileCalm
<1>3. RowsCalm(f)'
  BY DEF CalmFile, RowsCalm
<1>4. Past(f)' = Past(f)
  BY DEF Past
<1>5. Told(f)' = Told(f)
  BY <1>4 DEF Told
<1>6. Contiguous => TurnsCalm(f)'
  BY <1>4, <1>5 DEF CalmFile, TurnsCalm
<1> QED BY <1>2, <1>3, <1>6 DEF CalmFile, Contiguous

\* A file the watcher is at neither before nor after a step.
LEMMA ElsewhereKept ==
    ASSUME NEW f \in Files, ~Working(f), ~Working(f)', db'.offset[f] = db.offset[f]
    PROVE  ToRecord(f)' = ToRecord(f) /\ ToCount(f)' = ToCount(f)
  BY DEF ToRecord, ToCount

\* Writers, the start of the daemon and the end of the prime pass.
LEMMA CalmOutside ==
    ASSUME TypeOK, TypeOK', AllCalm,
           \/ Start \/ PrimeDone \/ (\E f \in Files : AppendHalf(f)) \/ UNCHANGED vars
    PROVE  AllCalm'
<1>1. UNCHANGED <<db, registry, job, hidden>>
  BY DEF Start, PrimeDone, AppendHalf, vars, taskVars, historyVars
<1>2. ASSUME NEW g \in Files PROVE size[g] <= size'[g]
  <2>1. \A h \in Files : size[h] \in Nat
    BY CalmTypes
  <2>2. size' = size \/ \E f \in Files : size' = [size EXCEPT ![f] = @ + 1]
    BY DEF Start, PrimeDone, AppendHalf, vars
  <2>3. size'[g] = size[g] \/ size'[g] = size[g] + 1
    BY <2>2 DEF TypeOK
  <2> QED BY <2>1, <2>3
<1>3. /\ stage'[Watch] = "off" => stage[Watch] = "off"
      /\ stage'[Watch] = "watch" => todo'[Watch] = {}
      /\ \A s \in Seeders : stage'[s] = stage[s]
      /\ \A g \in Files : Unread(g)' => Unread(g)
  <2>1. stage \in [Tasks -> {"off", "prime", "watch", "seed"}] /\ Watch \in Tasks
        /\ todo \in [Tasks -> SUBSET Files] /\ Watch \notin Seeders
    BY WatcherAssumption DEF TypeOK, Tasks
  <2>2. CASE Start
    BY <2>1, <2>2 DEF Start, Unread
  <2>3. CASE PrimeDone
    BY <2>1, <2>3 DEF PrimeDone, Unread
  <2>4. CASE (\E f \in Files : AppendHalf(f)) \/ UNCHANGED vars
    BY <2>4 DEF AppendHalf, vars, taskVars, Unread, AllCalm, WatchCalm
  <2> QED BY <2>2, <2>3, <2>4
<1>4. Alone'
  BY <1>1, <1>3 DEF AllCalm, Alone
<1>5. WatchCalm'
  <2>1. job[Watch].pc # "idle" => job[Watch].file \in Files
    BY DEF TypeOK, Tasks
  <2>2. job[Watch].pc \in {"count", "emit", "store"} =>
           job[Watch].to <= size'[job[Watch].file]
    <3> SUFFICES ASSUME job[Watch].pc \in {"count", "emit", "store"}
                 PROVE  job[Watch].to <= size'[job[Watch].file]
      OBVIOUS
    <3>1. job[Watch].to \in Nat
      BY CalmTypes, Sizing, <2>1 DEF Job
    <3>2. size[job[Watch].file] \in Nat /\ size'[job[Watch].file] \in Nat
      BY <2>1, Sizing DEF TypeOK
    <3>3. job[Watch].to <= size[job[Watch].file]
      BY DEF AllCalm, WatchCalm
    <3> QED BY <1>2, <2>1, <3>1, <3>2, <3>3
  <2> QED BY <1>1, <1>3, <2>2 DEF AllCalm, WatchCalm
<1>6. ASSUME NEW f \in Files PROVE CalmFile(f)'
  <2>1. ToRecord(f)' = ToRecord(f) /\ ToCount(f)' = ToCount(f)
    BY <1>1 DEF ToRecord, ToCount, Working
  <2>2. CalmFile(f) /\ (Unread(f)' => job'[Watch].file # f)
    BY <1>1, <1>3 DEF AllCalm, CalmFile, FileCalm
  <2> QED BY <1>1, <1>2, <1>3, <2>1, <2>2, CalmFileKept
<1> QED BY <1>4, <1>5, <1>6 DEF AllCalm

\* The chunk read from the stored offset of a file begins with the first line
\* that starts there or later.
LEMMA ChunkCalm ==
    ASSUME TypeOK, NEW f \in Files, NEW backlog \in BOOLEAN, FileCalm(f)
    PROVE  LET c == Chunk(f, backlog, db.offset[f]) IN
              \/ c = Idle
              \/ /\ c.file = f /\ ~c.own /\ c.pc \in {"count", "store"}
                 /\ c.next = NextLine(db.offset[f])
                 /\ db.offset[f] <= c.to /\ c.to <= size[f]
                 /\ 2 * (c.next - 1) <= c.to
<1> DEFINE off  == db.offset[f]
           to   == 2 * (size[f] \div 2)
           next == (off + 1) \div 2 + 1
<1>1. off \in Nat /\ size[f] \in Nat /\ off <= size[f]
  BY CalmTypes DEF FileCalm
<1>2. Chunk(f, backlog, off) =
        IF to <= off THEN Idle
        ELSE [pc |-> IF 2 * next <= to THEN "count" ELSE "store",
              file |-> f, backlog |-> backlog, own |-> FALSE,
              off |-> 0, next |-> next, to |-> to]
  <2>1. (IF size[f] < off THEN 0 ELSE off) = off
    BY <1>1
  <2> HIDE DEF off
  <2> QED BY <2>1, Zenon DEF Chunk
<1>3. to <= size[f] /\ (off < to => 2 * (next - 1) <= to) /\ to \in Int
  BY <1>1
<1>4. next = NextLine(off)
  BY DEF NextLine
<1> HIDE DEF off, to, next
<1>5. CASE to <= off
  BY <1>2, <1>5 DEF off
<1>6. CASE ~(to <= off)
  <2>1. off < to
    BY <1>1, <1>3, <1>6
  <2> QED BY <1>1, <1>2, <1>3, <1>4, <1>6, <2>1 DEF off
<1> QED BY <1>5, <1>6
\* The task the watcher's turns to a file f, from its stored offset.
Begins(f, j) ==
    \/ j = Idle
    \/ /\ j.file = f /\ ~j.own
       /\ \/ j.pc = "lookup"
          \/ j.pc = "register" /\ j.off = db.offset[f]
          \/ /\ j.pc \in {"count", "store"}
             /\ j.next = NextLine(db.offset[f])
             /\ db.offset[f] <= j.to /\ j.to <= size[f]
             /\ 2 * (j.next - 1) <= j.to

LEMMA CalmBegins ==
    ASSUME TypeOK, TypeOK', AllCalm, NEW f \in Files,
           UNCHANGED <<size, db, hidden, stage>>, stage[Watch] # "off",
           todo'[Watch] \subseteq todo[Watch],
           job[Watch].pc \notin {"count", "emit", "store"},
           \A s \in Seeders : job'[s] = job[s],
           registry'[f] \in {registry[f], db.offset[f]},
           \A g \in Files \ {f} : registry'[g] = registry[g],
           ~Unread(f)', Begins(f, job'[Watch])
    PROVE  AllCalm'
<1>1. Alone'
  BY DEF AllCalm, Alone
<1>2. WatchCalm'
  <2>1. stage'[Watch] = "watch" => todo'[Watch] = {}
    BY DEF AllCalm, WatchCalm
  <2>2. CASE job'[Watch] = Idle
    BY <2>1, <2>2 DEF WatchCalm, Idle
  <2>3. CASE job'[Watch] # Idle
    BY <2>1, <2>3 DEF Begins, WatchCalm
  <2> QED BY <2>2, <2>3
<1>3. ASSUME NEW g \in Files PROVE CalmFile(g)'
  <2>1. CalmFile(g) /\ ~Working(g) /\ size'[g] = size[g] /\ size[g] <= size[g]
    BY CalmTypes DEF AllCalm, Working
  <2>2. ~Working(f)' \/ (job'[Watch].next = NextLine(db.offset[f]) /\ job'[Watch].pc # "emit")
    BY DEF Begins, Working, Idle
  <2>3. job'[Watch].file \in {f, None}
    BY DEF Begins, Idle
  <2>4. Unread(g)' => Unread(g) /\ g # f /\ job'[Watch].file # g
    BY <2>3, WatcherAssumption DEF Unread
  <2>5. ToRecord(g)' = ToRecord(g) /\ ToCount(g)' = ToCount(g)
    <3>1. CASE g = f
      BY <2>1, <2>2, <3>1 DEF ToRecord, ToCount
    <3>2. CASE g # f
      <4>1. ~Working(g)'
        BY <2>3, <3>2, WatcherAssumption DEF Working
      <4> QED BY <2>1, <4>1, ElsewhereKept
    <3> QED BY <3>1, <3>2
  <2>6. registry'[g] \in {registry[g], db.offset[g]}
        /\ (g # f => registry'[g] = registry[g])
    OBVIOUS
  <2> QED BY <2>1, <2>4, <2>5, <2>6, CalmFileKept
<1> QED BY <1>1, <1>2, <1>3 DEF AllCalm

\* A transcript the prime pass comes to, or one that changed.
LEMMA CalmEnter ==
    ASSUME TypeOK, TypeOK', AllCalm, NEW f \in Files, PrimeParse(f) \/ Notice(f)
    PROVE  AllCalm'
<1>1. PICK backlog \in BOOLEAN : Enter(Watch, f, backlog)
  BY DEF PrimeParse, Notice
<1> DEFINE j == IF registry[f] # None THEN Chunk(f, backlog, registry[f])
                ELSE [Idle EXCEPT !.pc = "lookup", !.file = f, !.backlog = backlog]
<1>2. job' = [job EXCEPT ![Watch] = j]
  BY <1>1 DEF Enter
<1>3. /\ Watch \in Tasks /\ Seeders \subseteq Tasks /\ Watch \notin Seeders
      /\ job \in [Tasks -> Job] /\ todo \in [Tasks -> SUBSET Files]
  BY CalmTypes DEF TypeOK
<1>4. /\ UNCHANGED <<size, db, hidden, stage, registry>>
      /\ stage[Watch] \in {"prime", "watch"} /\ job[Watch].pc = "idle"
      /\ todo'[Watch] \subseteq todo[Watch] /\ f \notin todo'[Watch]
  <2>1. CASE PrimeParse(f)
    BY <1>3, <2>1 DEF PrimeParse, Priming, historyVars
  <2>2. CASE Notice(f)
    BY <1>3, <2>2 DEF Notice, historyVars, AllCalm, WatchCalm
  <2> QED BY <2>1, <2>2
<1>5. Begins(f, j)
  <2>1. CASE registry[f] = None
    BY <2>1 DEF Begins, Idle
  <2>2. CASE registry[f] # None
    <3>1. FileCalm(f) /\ registry[f] = db.offset[f]
      BY <2>2 DEF AllCalm, CalmFile, FileCalm
    <3>2. j = Chunk(f, backlog, db.offset[f])
      BY <2>2, <3>1
    <3> HIDE DEF j
    <3> QED BY <3>1, <3>2, ChunkCalm DEF Begins
  <2> QED BY <2>1, <2>2
<1> HIDE DEF j
<1>6. job'[Watch] = j /\ \A s \in Seeders : job'[s] = job[s]
  BY <1>2, <1>3
<1>7. ~Unread(f)' /\ stage[Watch] # "off"
  BY <1>4 DEF Unread
<1> QED BY <1>4, <1>5, <1>6, <1>7, CalmBegins

\* The stored offset is fetched, and the chunk is read from it.
LEMMA CalmRegister ==
    ASSUME TypeOK, TypeOK', AllCalm, Lookup(Watch) \/ Register(Watch)
    PROVE  AllCalm'
<1>1. PICK f \in Files : f = job[Watch].file
  BY DEF Lookup, Register, TypeOK, Tasks
<1>2. /\ Watch \in Tasks /\ Seeders \subseteq Tasks /\ Watch \notin Seeders
      /\ job \in [Tasks -> Job]
  BY CalmTypes
<1>3. /\ UNCHANGED <<size, db, hidden, stage, todo>>
      /\ job[Watch].pc \in {"lookup", "register"}
  BY DEF Lookup, Register, historyVars
<1>4. stage[Watch] # "off" /\ ~Unread(f) /\ ~Unread(f)'
  <2>1. stage[Watch] # "off"
    BY <1>3 DEF AllCalm, WatchCalm, Idle
  <2>2. ~Unread(f)
    BY <1>1 DEF AllCalm, CalmFile, FileCalm
  <2> QED BY <1>3, <2>1, <2>2 DEF Unread
<1>5. CASE Lookup(Watch)
  <2>1. job'[Watch] = [job[Watch] EXCEPT !.pc = "register", !.off = db.offset[f]]
        /\ registry' = registry /\ \A s \in Seeders : job'[s] = job[s]
    BY <1>1, <1>2, <1>5 DEF Lookup
  <2>2. Begins(f, job'[Watch])
    BY <1>1, <1>2, <2>1 DEF Begins, AllCalm, WatchCalm, Job
  <2> QED BY <1>3, <1>4, <2>1, <2>2, CalmBegins
<1>6. CASE Register(Watch)
  <2> DEFINE j == Chunk(f, job[Watch].backlog, db.offset[f])
  <2>1. job[Watch].off = db.offset[f] /\ job[Watch].backlog \in BOOLEAN
    BY <1>1, <1>2, <1>6 DEF Register, AllCalm, WatchCalm, Job
  <2>2. /\ registry' = [registry EXCEPT ![f] = db.offset[f]]
        /\ job' = [Disowned(job, f) EXCEPT ![Watch] = j]
    BY <1>1, <1>6, <2>1 DEF Register
  <2>3. Begins(f, j)
    <3>1. FileCalm(f)
      BY DEF AllCalm, CalmFile
    <3> QED BY <2>1, <3>1, ChunkCalm DEF Begins
  <2> HIDE DEF j
  <2>4. \A s \in Seeders : job'[s] = job[s]
    <3>1. ASSUME NEW s \in Seeders PROVE Disowned(job, f)[s] = job[s]
      BY <1>2, WatcherAssumption DEF Disowned, AllCalm, Alone, Idle
    <3> QED BY <1>2, <2>2, <3>1, DisownedType
  <2>5. job'[Watch] = j
    BY <1>2, <2>2, DisownedType
  <2>6. registry'[f] \in {registry[f], db.offset[f]}
        /\ \A g \in Files \ {f} : registry'[g] = registry[g]
    BY <2>2 DEF TypeOK
  <2> QED BY <1>3, <1>4, <2>3, <2>4, <2>5, <2>6, CalmBegins
<1> QED BY <1>5, <1>6
\* What the watcher's task leaves alone while it works on f.
LEMMA CalmOthers ==
    ASSUME TypeOK, TypeOK', AllCalm, NEW f \in Files,
           job[Watch].file = f \/ job[Watch] = Idle, job'[Watch].file \in {f, None},
           UNCHANGED <<size, stage>>, todo'[Watch] \subseteq todo[Watch],
           NEW g \in Files \ {f},
           hidden'[g] = hidden[g], registry'[g] = registry[g],
           db'.offset[g] = db.offset[g], db'.rows[g] = db.rows[g],
           db'.turns[g] = db.turns[g], db'.last[g] = db.last[g]
    PROVE  CalmFile(g)'
<1>1. CalmFile(g) /\ size'[g] = size[g] /\ size[g] <= size[g]
  BY CalmTypes DEF AllCalm
<1>2. ~Working(g) /\ ~Working(g)' /\ job'[Watch].file # g
  BY WatcherAssumption DEF Working, Idle
<1>3. Unread(g)' => Unread(g)
  BY DEF Unread
<1> QED BY <1>1, <1>2, <1>3, ElsewhereKept, CalmFileKept

\* Facts about the task while it works on a line of f, or is about to store.
LEMMA AtWork ==
    ASSUME TypeOK, AllCalm, NEW f \in Files, f = job[Watch].file,
           job[Watch].pc \in {"count", "emit", "store"}
    PROVE  /\ ToRecord(f) = job[Watch].next /\ job[Watch].next \in Nat
           /\ ToCount(f) = IF job[Watch].pc = "emit" THEN job[Watch].next + 1
                           ELSE job[Watch].next
           /\ stage[Watch] # "off" /\ ~Unread(f)
           /\ CalmFile(f) /\ job[Watch].to \in Nat
           /\ db.offset[f] <= job[Watch].to /\ job[Watch].to <= size[f]
           /\ 2 * (job[Watch].next - 1) <= job[Watch].to
<1>1. job[Watch] \in Job
  BY CalmTypes
<1>2. job[Watch].next \in 1..(Len(Msg) + 1) /\ job[Watch].to \in Sizes
  BY <1>1 DEF Job
<1>3. job[Watch].next \in Nat /\ job[Watch].to \in Nat
  <2>1. job[Watch].to \in Nat
    BY <1>2, Sizing
  <2>2. ASSUME NEW x \in 1..(Len(Msg) + 1) PROVE x \in Nat
    BY Sizing
  <2> QED BY <1>2, <2>1, <2>2
<1>4. CalmFile(f) /\ WatchCalm
  BY DEF AllCalm
<1>5. stage[Watch] # "off" /\ ~Unread(f)
  BY <1>4 DEF WatchCalm, Idle, CalmFile, FileCalm
<1> QED BY <1>3, <1>4, <1>5 DEF ToRecord, ToCount, Working, WatchCalm

LEMMA ToldFinite ==
    ASSUME NEW f \in Files
    PROVE  IsFiniteSet(Told(f)) /\ Cardinality(Told(f)) \in Nat
<1>1. Told(f) \subseteq {Msg[k] : k \in Lines}
  BY DEF Told, Past
<1>2. IsFiniteSet(Told(f))
  BY <1>1, FiniteMessages, FS_Subset
<1> QED BY <1>2, FS_CardinalityType

\* A line is counted: a message that is not the last one is a new one, since
\* the writer does not come back to a message.
LEMMA CalmCount ==
    ASSUME TypeOK, TypeOK', AllCalm, Count(Watch)
    PROVE  AllCalm'
<1>0. PICK f \in Files, n \in Lines, m \in Nat :
         f = job[Watch].file /\ n = job[Watch].next /\ m = Msg[n]
  <2>1. Watch \in Tasks /\ job[Watch].pc = "count"
    BY DEF Count, Tasks
  <2>2. job[Watch].next \in Lines /\ job[Watch].file \in Files
    BY <2>1, LineAtHand
  <2> QED BY <2>2, Sizing
<1>1. /\ Watch \in Tasks /\ Seeders \subseteq Tasks /\ Watch \notin Seeders
      /\ job \in [Tasks -> Job] /\ db \in LedgerState /\ n \in Nat
  BY CalmTypes, Sizing
<1>2. /\ ToRecord(f) = n /\ ToCount(f) = n /\ stage[Watch] # "off" /\ ~Unread(f)
      /\ CalmFile(f) /\ job[Watch].pc = "count"
  BY <1>0, AtWork DEF Count
<1>3. /\ job'[Watch] = [job[Watch] EXCEPT !.pc = "emit"]
      /\ \A s \in Seeders : job'[s] = job[s]
      /\ UNCHANGED <<size, registry, stage, todo, hidden>>
      /\ db' = IF m # 0 /\ m # db.last[f]
               THEN [db EXCEPT !.turns[f] = @ + 1, !.last[f] = m] ELSE db
  BY <1>0, <1>1 DEF Count, Write, historyVars
<1>4. /\ db'.rows = db.rows /\ db'.offset = db.offset
      /\ db'.last[f] = IF m # 0 THEN m ELSE db.last[f]
      /\ db'.turns[f] = IF m # 0 /\ m # db.last[f] THEN db.turns[f] + 1 ELSE db.turns[f]
      /\ \A g \in Files \ {f} : db'.last[g] = db.last[g] /\ db'.turns[g] = db.turns[g]
  BY <1>1, <1>3 DEF LedgerState
<1>5. /\ job'[Watch].pc = "emit" /\ job'[Watch].file = f /\ job'[Watch].next = n
      /\ job'[Watch].to = job[Watch].to /\ job'[Watch].own = job[Watch].own
  BY <1>0, <1>1, <1>3 DEF Job
<1>6. Alone' /\ WatchCalm'
  BY <1>0, <1>2, <1>3, <1>4, <1>5 DEF AllCalm, Alone, WatchCalm
<1>7. ASSUME NEW g \in Files \ {f} PROVE CalmFile(g)'
  BY <1>0, <1>3, <1>4, <1>5, <1>7, CalmOthers
<1>8. ToRecord(f)' = n /\ ToCount(f)' = n + 1
  BY <1>5 DEF ToRecord, ToCount, Working
<1>9. FileCalm(f)' /\ RowsCalm(f)'
  BY <1>2, <1>3, <1>4, <1>8 DEF CalmFile, FileCalm, RowsCalm, Unread
<1>10. ASSUME Contiguous PROVE TurnsCalm(f)'
  <2>1. /\ NextLine(hidden[f]) <= n /\ NextLine(hidden[f]) \in Int
        /\ \A k \in Past(f), p \in Lines :
              p >= n /\ Msg[k] = Msg[p] /\ Msg[k] # 0 => db.last[f] = Msg[k]
        /\ db.turns[f] <= Cardinality(Told(f))
    BY <1>2, <1>10, CalmTypes DEF CalmFile, RowsCalm, TurnsCalm, NextLine
  <2>2. Past(f)' = Past(f) \cup {n} /\ \A k \in Past(f) : k < n
    <3>1. \A k \in Lines : k \in Nat /\ (k < n + 1 <=> k < n \/ k = n)
      BY <1>1, Sizing
    <3> QED BY <1>2, <1>3, <1>8, <2>1, <3>1 DEF Past
  <2>3. Told(f)' = Told(f) \cup ({m} \ {0})
    BY <1>0, <2>2 DEF Told
  <2>4. ASSUME NEW k \in Past(f)', NEW p \in Lines,
               p >= n + 1, Msg[k] = Msg[p], Msg[k] # 0
        PROVE  db'.last[f] = Msg[k]
    <3>1. CASE k = n
      BY <1>0, <1>4, <2>4, <3>1
    <3>2. CASE k # n
      <4>1. k \in Past(f) /\ k \in Lines /\ k < n /\ n < p /\ p >= n
        BY <1>1, <2>2, <2>4, <3>2, Sizing DEF Past
      <4>2. m \in {0, Msg[k]}
        BY <1>0, <1>10, <2>4, <4>1 DEF Contiguous
      <4>3. db.last[f] = Msg[k]
        BY <2>1, <2>4, <4>1
      <4> QED BY <1>4, <4>2, <4>3
    <3> QED BY <3>1, <3>2
  <2>5. db'.turns[f] <= Cardinality(Told(f)')
    <3>0. /\ IsFiniteSet(Told(f)) /\ Cardinality(Told(f)) \in Nat
          /\ db.turns[f] \in Nat
      BY ToldFinite, CalmTypes
    <3>1. CASE m # 0 /\ m # db.last[f]
      <4>1. m \notin Told(f)
        <5>1. ASSUME m \in Told(f) PROVE FALSE
          <6>1. PICK k \in Past(f) : m = Msg[k]
            BY <5>1 DEF Told
          <6>2. n >= n
            BY <1>1
          <6> QED BY <1>0, <2>1, <3>1, <6>1, <6>2
        <5> QED BY <5>1
      <4>2. Told(f)' = Told(f) \cup {m}
        BY <2>3, <3>1
      <4>3. Cardinality(Told(f)') = Cardinality(Told(f)) + 1
        <5> DEFINE T == Told(f)
        <5>1. IsFiniteSet(T) /\ m \notin T
          BY <3>0, <4>1
        <5> HIDE DEF T
        <5>2. Cardinality(T \cup {m}) = Cardinality(T) + 1
          BY <5>1, FS_AddElement
        <5> QED BY <4>2, <5>2 DEF T
      <4> QED BY <1>4, <2>1, <3>0, <3>1, <4>3
    <3>2. CASE m = 0 \/ m = db.last[f]
      <4>1. Told(f) \subseteq Told(f)' /\ IsFiniteSet(Told(f)')
        <5>1. IsFiniteSet(Told(f) \cup {m})
          BY <3>0, FS_AddElement
        <5>2. Told(f)' \subseteq Told(f) \cup {m}
          BY <2>3
        <5> QED BY <2>3, <5>1, <5>2, FS_Subset
      <4>2. Cardinality(Told(f)) <= Cardinality(Told(f)') /\ Cardinality(Told(f)') \in Nat
        BY <4>1, FS_Subset, FS_CardinalityType
      <4>3. db'.turns[f] = db.turns[f]
        BY <1>4, <3>2
      <4> QED BY <2>1, <3>0, <4>2, <4>3
    <3> QED BY <3>1, <3>2
  <2> QED BY <1>8, <2>4, <2>5 DEF TurnsCalm
<1>11. CalmFile(f)'
  BY <1>9, <1>10 DEF CalmFile, Contiguous
<1> QED BY <1>6, <1>7, <1>11 DEF AllCalm
\* The line gets its only row.
LEMMA CalmEmit ==
    ASSUME TypeOK, TypeOK', AllCalm, Emit(Watch)
    PROVE  AllCalm'
<1>0. PICK f \in Files, n \in Lines : f = job[Watch].file /\ n = job[Watch].next
  <2>1. Watch \in Tasks /\ job[Watch].pc = "emit"
    BY DEF Emit, Tasks
  <2> QED BY <2>1, LineAtHand
<1>1. /\ Watch \in Tasks /\ Seeders \subseteq Tasks /\ Watch \notin Seeders
      /\ job \in [Tasks -> Job] /\ db \in LedgerState /\ n \in Nat
      /\ 2 * n <= job[Watch].to
  <2>1. Watch \in Tasks /\ n \in Nat
    BY CalmTypes, Sizing
  <2>2. 2 * n <= job[Watch].to
    BY <1>0, <2>1 DEF Emit, TypeOK
  <2> QED BY <2>1, <2>2, CalmTypes
<1>2. /\ ToRecord(f) = n /\ ToCount(f) = n + 1 /\ stage[Watch] # "off" /\ ~Unread(f)
      /\ CalmFile(f) /\ db.offset[f] <= job[Watch].to /\ job[Watch].to <= size[f]
  BY <1>0, AtWork DEF Emit
<1>3. /\ job'[Watch] = [job[Watch] EXCEPT !.pc = IF 2 * (n + 1) <= job[Watch].to
                                                THEN "count" ELSE "store",
                                         !.next = n + 1]
      /\ \A s \in Seeders : job'[s] = job[s]
      /\ UNCHANGED <<size, registry, stage, todo, hidden>>
      /\ db' = [db EXCEPT !.rows[f][n] = @ + 1]
  BY <1>0, <1>1 DEF Emit, Write
<1>4. /\ db'.last = db.last /\ db'.turns = db.turns /\ db'.offset = db.offset
      /\ \A g \in Files, k \in Lines : db'.rows[g][k] =
            IF g = f /\ k = n THEN db.rows[f][n] + 1 ELSE db.rows[g][k]
      /\ \A g \in Files \ {f} : db'.rows[g] = db.rows[g]
  BY <1>1, <1>3 DEF LedgerState
<1>5. /\ job'[Watch].pc \in {"count", "store"} /\ job'[Watch].file = f
      /\ job'[Watch].next = n + 1
      /\ job'[Watch].to = job[Watch].to /\ job'[Watch].own = job[Watch].own
  BY <1>0, <1>1, <1>3 DEF Job
<1>6. Alone' /\ WatchCalm'
  <2>1. 2 * ((n + 1) - 1) = 2 * n
    BY <1>1
  <2> QED BY <1>1, <1>2, <1>3, <1>4, <1>5, <2>1 DEF AllCalm, Alone, WatchCalm
<1>7. ASSUME NEW g \in Files \ {f} PROVE CalmFile(g)'
  BY <1>0, <1>3, <1>4, <1>5, <1>7, CalmOthers
<1>8. ToRecord(f)' = n + 1 /\ ToCount(f)' = n + 1
  BY <1>5 DEF ToRecord, ToCount, Working
<1>9. FileCalm(f)'
  BY <1>2, <1>3, <1>4 DEF CalmFile, FileCalm, Unread
<1>10. RowsCalm(f)'
  <2>1. /\ NextLine(hidden[f]) <= n /\ NextLine(hidden[f]) \in Int
        /\ \A k \in Lines : /\ db.rows[f][k] <= 1 /\ db.rows[f][k] \in Nat
                            /\ db.rows[f][k] > 0 => k < n
                            /\ k \in Nat
    BY <1>2, CalmTypes, Sizing DEF CalmFile, RowsCalm, NextLine
  <2>2. db.rows[f][n] = 0
    BY <1>1, <2>1
  <2>3. ASSUME NEW k \in Lines
        PROVE  db'.rows[f][k] <= 1 /\ (db'.rows[f][k] > 0 => k < n + 1)
    <3>1. CASE k = n
      BY <1>1, <1>4, <2>2, <3>1
    <3>2. CASE k # n
      BY <1>1, <1>4, <2>1, <3>2
    <3> QED BY <3>1, <3>2
  <2>4. NextLine(hidden'[f]) <= n + 1
    BY <1>1, <1>3, <2>1
  <2> QED BY <1>8, <2>3, <2>4 DEF RowsCalm
<1>11. ASSUME Contiguous PROVE TurnsCalm(f)'
  <2>1. Past(f)' = Past(f)
    BY <1>2, <1>3, <1>8 DEF Past
  <2>2. Told(f)' = Told(f)
    BY <2>1 DEF Told
  <2> QED BY <1>2, <1>4, <1>8, <1>11, <2>1, <2>2 DEF CalmFile, TurnsCalm
<1>12. CalmFile(f)'
  BY <1>9, <1>10, <1>11 DEF CalmFile, Contiguous
<1> QED BY <1>6, <1>7, <1>12 DEF AllCalm

\* The stored offset becomes the end of the last line recorded.
LEMMA CalmStore ==
    ASSUME Inv, TypeOK', AllCalm, Store(Watch)
    PROVE  AllCalm'
<1> USE DEF Inv
<1>0. PICK f \in Files : f = job[Watch].file
  BY DEF Store, TypeOK, Tasks
<1> DEFINE n == job[Watch].next
           to == job[Watch].to
<1>1. /\ Watch \in Tasks /\ Seeders \subseteq Tasks /\ Watch \notin Seeders
      /\ job \in [Tasks -> Job] /\ db \in LedgerState
      /\ db.offset \in [Files -> Sizes] /\ registry \in [Files -> Sizes \cup {None}]
  BY CalmTypes DEF TypeOK, LedgerState
<1>2. /\ ToRecord(f) = n /\ ToCount(f) = n /\ n \in Nat /\ to \in Nat
      /\ stage[Watch] # "off" /\ ~Unread(f) /\ CalmFile(f)
      /\ db.offset[f] <= to /\ to <= size[f] /\ 2 * (n - 1) <= to
      /\ job[Watch].pc = "store"
  BY <1>0, AtWork DEF Store
<1>3. to <= 2 * (n - 1)
  BY <1>1, <1>2 DEF JobsRead, JobRead
<1>4. NextLine(to) = n
  <2>1. to = 2 * (n - 1)
    BY <1>2, <1>3
  <2> HIDE DEF n, to
  <2> QED BY <1>2, <2>1 DEF NextLine
<1> HIDE DEF n, to
<1>5. /\ job'[Watch] = Idle /\ \A s \in Seeders : job'[s] = job[s]
      /\ UNCHANGED <<size, stage, todo, hidden>>
      /\ db' = [db EXCEPT !.offset[f] = to]
      /\ registry' = [registry EXCEPT ![f] = to]
  BY <1>0, <1>1 DEF Store, Write, historyVars, AllCalm, WatchCalm, to
<1>6. /\ db'.last = db.last /\ db'.turns = db.turns /\ db'.rows = db.rows
      /\ db'.offset[f] = to /\ registry'[f] = to
      /\ \A g \in Files \ {f} : db'.offset[g] = db.offset[g] /\ registry'[g] = registry[g]
  BY <1>1, <1>5 DEF LedgerState
<1>7. Alone' /\ WatchCalm'
  <2>1. Idle.own = FALSE /\ Idle.pc = "idle"
    BY DEF Idle
  <2>2. Alone'
    BY <1>5 DEF AllCalm, Alone
  <2>3. WatchCalm'
    BY <1>5, <2>1 DEF AllCalm, WatchCalm
  <2> QED BY <2>2, <2>3
<1>8. ASSUME NEW g \in Files \ {f} PROVE CalmFile(g)'
  <2>1. job'[Watch].file \in {f, None}
    BY <1>5 DEF Idle
  <2> QED BY <1>0, <1>5, <1>6, <1>8, <2>1, CalmOthers
<1>9. ToRecord(f)' = n /\ ToCount(f)' = n
  <2>1. ~Working(f)'
    BY <1>5 DEF Working, Idle
  <2> QED BY <1>4, <1>6, <2>1 DEF ToRecord, ToCount
<1>10. FileCalm(f)'
  <2>1. hidden[f] <= to
    BY <1>2, CalmTypes DEF CalmFile, FileCalm
  <2> QED BY <1>2, <1>5, <1>6, <2>1 DEF FileCalm, Unread
<1>11. RowsCalm(f)'
  BY <1>2, <1>5, <1>6, <1>9 DEF CalmFile, RowsCalm
<1>12. ASSUME Contiguous PROVE TurnsCalm(f)'
  <2>1. Past(f)' = Past(f)
    BY <1>2, <1>5, <1>9 DEF Past
  <2>2. Told(f)' = Told(f)
    BY <2>1 DEF Told
  <2> QED BY <1>2, <1>6, <1>9, <1>12, <2>1, <2>2 DEF CalmFile, TurnsCalm
<1>13. CalmFile(f)'
  BY <1>10, <1>11, <1>12 DEF CalmFile, Contiguous
<1> QED BY <1>7, <1>8, <1>13 DEF AllCalm

\* Hiding what a transcript has moves its first line with the stored offset.
LEMMA CalmMark ==
    ASSUME TypeOK, TypeOK', AllCalm, NEW f \in Files, PrimeMarkEof(f)
    PROVE  AllCalm'
<1>1. /\ Watch \in Tasks /\ Seeders \subseteq Tasks /\ Watch \notin Seeders
      /\ job \in [Tasks -> Job] /\ db \in LedgerState
      /\ db.offset \in [Files -> Sizes] /\ hidden \in [Files -> Sizes]
      /\ todo \in [Tasks -> SUBSET Files]
      /\ size[f] \in Nat /\ db.offset[f] \in Nat /\ hidden[f] \in Nat
  BY CalmTypes DEF TypeOK, LedgerState
<1>2. /\ UNCHANGED <<size, registry, stage, job>>
      /\ todo' = [todo EXCEPT ![Watch] = @ \ {f}]
      /\ db' = [db EXCEPT !.offset[f] = size[f]]
      /\ hidden' = [hidden EXCEPT ![f] = size[f]]
      /\ stage[Watch] = "prime" /\ f \in todo[Watch] /\ job[Watch] = Idle
  BY DEF PrimeMarkEof, Priming, Write, AllCalm, WatchCalm
<1>3. /\ db'.last = db.last /\ db'.turns = db.turns /\ db'.rows = db.rows
      /\ db'.offset[f] = size[f] /\ hidden'[f] = size[f]
      /\ \A g \in Files \ {f} : db'.offset[g] = db.offset[g] /\ hidden'[g] = hidden[g]
  BY <1>1, <1>2 DEF LedgerState
<1>4. CalmFile(f) /\ Unread(f) /\ ~Unread(f)' /\ todo'[Watch] \subseteq todo[Watch]
  BY <1>1, <1>2 DEF AllCalm, Unread
<1>5. Alone' /\ WatchCalm'
  <2>1. Idle.own = FALSE /\ Idle.pc = "idle"
    BY DEF Idle
  <2>2. Alone'
    BY <1>2 DEF AllCalm, Alone
  <2>3. WatchCalm'
    BY <1>2, <2>1 DEF WatchCalm
  <2> QED BY <2>2, <2>3
<1>6. ASSUME NEW g \in Files \ {f} PROVE CalmFile(g)'
  <2>1. job[Watch] = Idle /\ job'[Watch].file \in {f, None}
    BY <1>2 DEF Idle
  <2> QED BY <1>2, <1>3, <1>4, <1>6, <2>1, CalmOthers
<1>7. /\ registry[f] = None /\ db.turns[f] = 0 /\ db.offset[f] <= size[f]
      /\ ToRecord(f) = NextLine(db.offset[f])
  <2>1. ~Working(f)
    BY <1>2 DEF Working, Idle
  <2> QED BY <1>4, <2>1 DEF CalmFile, FileCalm, ToRecord
<1>8. ToRecord(f)' = NextLine(size[f]) /\ ToCount(f)' = NextLine(size[f])
  <2>1. ~Working(f)'
    BY <1>2 DEF Working, Idle
  <2> QED BY <1>3, <2>1 DEF ToRecord, ToCount
<1>9. /\ NextLine(size[f]) \in Int /\ NextLine(db.offset[f]) \in Int
      /\ NextLine(db.offset[f]) <= NextLine(size[f])
  BY <1>1, <1>7 DEF NextLine
<1>10. FileCalm(f)'
  BY <1>1, <1>2, <1>3, <1>4, <1>7 DEF FileCalm
<1>11. RowsCalm(f)'
  <2>1. NextLine(hidden'[f]) <= ToRecord(f)'
    BY <1>3, <1>8, <1>9
  <2>2. ASSUME NEW k \in Lines, k < NextLine(db.offset[f])
        PROVE  k < NextLine(size[f])
    BY <1>9, <2>2, Sizing
  <2>3. \A k \in Lines : db.rows[f][k] <= 1
                         /\ (db.rows[f][k] > 0 => k < NextLine(db.offset[f]))
    BY <1>4, <1>7 DEF CalmFile, RowsCalm
  <2> QED BY <1>3, <1>8, <2>1, <2>2, <2>3 DEF RowsCalm
<1>12. TurnsCalm(f)'
  <2>1. \A k \in Lines : ~(NextLine(size[f]) <= k /\ k < NextLine(size[f]))
    <3>1. ASSUME NEW x \in Int, NEW k \in Lines PROVE ~(x <= k /\ k < x)
      BY Sizing
    <3> QED BY <1>9, <3>1
  <2>2. Past(f)' = {}
    BY <1>3, <1>8, <2>1 DEF Past
  <2>3. Told(f)' = {}
    BY <2>2 DEF Told
  <2> QED BY <1>3, <1>7, <2>2, <2>3, FS_EmptySet DEF TurnsCalm
<1>13. CalmFile(f)'
  BY <1>10, <1>11, <1>12 DEF CalmFile
<1> QED BY <1>5, <1>6, <1>13 DEF AllCalm

LEMMA CalmStep ==
    ASSUME Inv, TypeOK', CalmInv, [Next]_vars
    PROVE  CalmInv'
<1> USE DEF Inv
<1>0. crashes \in Nat /\ seeds \in Nat
  BY WatcherAssumption DEF TypeOK
<1>1. CASE Crash
  BY <1>0, <1>1 DEF Crash, CalmInv, Calm
<1>2. CASE \E s \in Seeders : StartSeed(s)
  BY <1>0, <1>2 DEF StartSeed, CalmInv, Calm
<1>3. ASSUME ~Crash, ~\E s \in Seeders : StartSeed(s), Calm' PROVE AllCalm'
  <2>1. Calm
    BY <1>0, <1>3 DEF Calm, Next, WatchStep, SeedStep, Process, Start, PrimeDone,
       PrimeParse, PrimeMarkEof, Notice, Lookup, Register, Count, Emit, Store,
       SeedFile, FinishSeed, AppendHalf, vars
  <2>2. AllCalm
    BY <2>1 DEF CalmInv, AllCalm
  <2>3. ~\E s \in Seeders : SeedStep(s)
    <3>1. ASSUME NEW s \in Seeders, SeedStep(s) PROVE FALSE
      <4>1. stage[s] = "off" /\ job[s].pc = "idle"
        BY <2>2 DEF AllCalm, Alone, Idle
      <4> QED BY <3>1, <4>1 DEF SeedStep, SeedFile, FinishSeed, Process, Lookup,
              Register, Count, Emit, Store
    <3> QED BY <3>1
  <2>4. \/ Start \/ PrimeDone \/ (\E f \in Files : AppendHalf(f)) \/ UNCHANGED vars
        \/ \E f \in Files : PrimeParse(f) \/ PrimeMarkEof(f) \/ Notice(f)
        \/ Process(Watch)
    BY <1>3, <2>3 DEF Next, WatchStep
  <2> QED BY <2>2, <2>4, CalmOutside, CalmEnter, CalmMark, CalmRegister, CalmCount,
          CalmEmit, CalmStore DEF Process
<1> QED BY <1>1, <1>2, <1>3 DEF CalmInv, AllCalm

\* Every recorded message is a turn, through crashes, rollbacks and overlapping
\* seeds; and without those each line is recorded once and each message the
\* writer does not come back to is one turn (watcher.py _ingest).
THEOREM MessagesAreTurns == Spec => []ATurnPerMessage
<1>1. TypeOK /\ TurnInv /\ CalmInv => ATurnPerMessage
  <2> SUFFICES ASSUME TypeOK, TurnInv, CalmInv, NEW f \in Files
               PROVE  /\ \A ledger \in {db, saved} :
                            Cardinality(Messages(f, ledger)) <= ledger.turns[f]
                      /\ Calm => /\ \A k \in Lines : db.rows[f][k] <= 1
                                 /\ Contiguous => db.turns[f]
                                       <= Cardinality({Msg[k] : k \in Lines} \ {0})
    BY DEF ATurnPerMessage, Calm
  <2>1. ASSUME NEW ledger \in {db, saved}
        PROVE  Cardinality(Messages(f, ledger)) <= ledger.turns[f]
    <3>1. ledger \in LedgerState /\ ledger.turns[f] \in Nat
      BY <2>1 DEF TypeOK, LedgerState
    <3>2. PICK S : /\ IsFiniteSet(S) /\ Cardinality(S) \in Nat
                   /\ Cardinality(S) <= ledger.turns[f] /\ Messages(f, ledger) \subseteq S
      <4>1. CASE ledger = db
        <5>1. /\ IsFiniteSet(Counted(f)) /\ Cardinality(Counted(f)) \in Nat
              /\ Cardinality(Counted(f)) <= db.turns[f]
          BY CountedFinite DEF FiniteCounts, TurnInv
        <5>2. Messages(f, db) \subseteq Counted(f)
          BY DEF Counted, Kept
        <5> QED BY <4>1, <5>1, <5>2
      <4>2. CASE ledger = saved
        <5>1. /\ IsFiniteSet(Kept(f, saved)) /\ Cardinality(Kept(f, saved)) \in Nat
              /\ Cardinality(Kept(f, saved)) <= saved.turns[f]
          BY <3>1, <4>2, KeptFinite DEF TurnInv
        <5>2. Messages(f, saved) \subseteq Kept(f, saved)
          BY DEF Kept
        <5> QED BY <4>2, <5>1, <5>2
      <4> QED BY <2>1, <4>1, <4>2
    <3>3. Cardinality(Messages(f, ledger)) <= Cardinality(S)
          /\ Cardinality(Messages(f, ledger)) \in Nat
      BY <3>2, FS_Subset, FS_CardinalityType
    <3> QED BY <3>1, <3>2, <3>3
  <2>2. ASSUME Calm PROVE \A k \in Lines : db.rows[f][k] <= 1
    BY <2>2 DEF CalmInv, CalmFile, RowsCalm
  <2>3. ASSUME Calm, Contiguous
        PROVE  db.turns[f] <= Cardinality({Msg[k] : k \in Lines} \ {0})
    <3> DEFINE All == {Msg[k] : k \in Lines} \ {0}
    <3>1. db.turns[f] <= Cardinality(Told(f)) /\ db.turns[f] \in Nat
      BY <2>3, CalmTypes DEF CalmInv, CalmFile, TurnsCalm
    <3>2. Told(f) \subseteq All
      BY DEF Told, Past
    <3>3. IsFiniteSet(All)
      BY FiniteMessages, FS_Subset
    <3>4. Cardinality(Told(f)) <= Cardinality(All)
          /\ Cardinality(All) \in Nat /\ Cardinality(Told(f)) \in Nat
      BY <3>2, <3>3, FS_Subset, FS_CardinalityType
    <3> QED BY <3>1, <3>4
  <2> QED BY <2>1, <2>2, <2>3
<1>2. Inv /\ TurnInv /\ CalmInv /\ [Next]_vars => Inv' /\ TurnInv' /\ CalmInv'
  BY TypeStep, ReadStep, TurnStep, CalmStep DEF Inv
<1>3. Init => Inv /\ TurnInv /\ CalmInv
  BY ReadInit, TurnInit, CalmInit
<1>4. Inv => TypeOK
  BY DEF Inv
<1> QED BY <1>1, <1>2, <1>3, <1>4, PTL DEF Spec

-----------------------------------------------------------------------------
(* Watcher implements Delivery. *)

AtLines == {"count", "emit", "store"}

\* The chunk a task works on lies within the file.
JobsWithin ==
    \A t \in Tasks : job[t].pc \in AtLines => job[t].to <= size[job[t].file]

LEMMA ChunkWithin ==
    ASSUME TypeOK, NEW f \in Files, NEW backlog \in BOOLEAN, NEW off \in Sizes
    PROVE  /\ Chunk(f, backlog, off).pc \in {"idle", "count", "store"}
           /\ Chunk(f, backlog, off).pc # "idle" =>
                 /\ Chunk(f, backlog, off).file = f
                 /\ Chunk(f, backlog, off).to <= size[f]
<1> DEFINE from == IF size[f] < off THEN 0 ELSE off
           to   == 2 * (size[f] \div 2)
           j    == Chunk(f, backlog, off)
<1>1. to <= size[f]
  <2>1. size[f] \in Nat
    BY Sizing DEF TypeOK
  <2> QED BY <2>1
<1>2. CASE to <= from
  <2>1. j = Idle
    BY <1>2 DEF Chunk
  <2> QED BY <2>1, ChunkType DEF Idle
<1>3. CASE ~(to <= from)
  <2>1. j.to = to
    BY <1>3 DEF Chunk
  <2> QED BY <1>1, <2>1, ChunkType
<1> QED BY <1>2, <1>3

LEMMA WorkTypes ==
    ASSUME TypeOK, TypeOK', NEW t \in Tasks, job[t].pc # "idle"
    PROVE  /\ job[t].file \in Files /\ job[t].to \in Int
           /\ size[job[t].file] \in Int /\ size'[job[t].file] \in Int
<1>1. \A x \in Sizes : x \in Int
  BY DEF Sizes
<1>2. job[t].file \in Files /\ job[t] \in Job
      /\ size \in [Files -> Sizes] /\ size' \in [Files -> Sizes]
  BY DEF TypeOK
<1>3. job[t].to \in Sizes
  BY <1>2 DEF Job
<1> QED BY <1>1, <1>2, <1>3

\* Files only grow, and only task t comes to another chunk.
LEMMA WithinKept ==
    ASSUME TypeOK, TypeOK', JobsWithin, NEW t \in Tasks,
           \A f \in Files : size[f] <= size'[f],
           \A u \in Tasks \ {t} :
               /\ job'[u].pc = job[u].pc /\ job'[u].file = job[u].file
               /\ job'[u].to = job[u].to,
           job'[t].pc \in AtLines => job'[t].to <= size'[job'[t].file]
    PROVE  JobsWithin'
<1>1. ASSUME NEW u \in Tasks, job'[u].pc \in AtLines
      PROVE  job'[u].to <= size'[job'[u].file]
  <2>1. CASE u = t
    BY <1>1, <2>1
  <2>2. CASE u # t
    <3> DEFINE f == job[u].file
               to == job[u].to
    <3>1. /\ job[u].pc \in AtLines /\ job'[u].file = f /\ job'[u].to = to
      BY <1>1, <2>2
    <3>2. job[u].pc # "idle"
      BY <3>1 DEF AtLines
    <3>3. /\ f \in Files /\ to \in Int /\ size[f] \in Int /\ size'[f] \in Int
      BY <3>2, WorkTypes
    <3>4. to <= size[f] /\ size[f] <= size'[f]
      BY <3>1, <3>3 DEF JobsWithin
    <3> HIDE DEF f, to
    <3> QED BY <3>1, <3>3, <3>4
  <2> QED BY <2>1, <2>2
<1> QED BY <1>1 DEF JobsWithin

LEMMA SizesReflexive ==
    ASSUME TypeOK
    PROVE  \A f \in Files : size[f] \in Int /\ size[f] <= size[f]
<1>1. \A f \in Files : size[f] \in Nat
  BY Sizing DEF TypeOK
<1> QED BY <1>1

LEMMA WithinEnter ==
    ASSUME TypeOK, TypeOK', JobsWithin, NEW t \in Tasks, NEW f \in Files,
           NEW backlog \in BOOLEAN, Enter(t, f, backlog), size' = size
    PROVE  JobsWithin'
<1>1. \A u \in Tasks \ {t} : job'[u] = job[u]
  BY DEF Enter, TypeOK
<1>2. job'[t].pc \in AtLines => job'[t].to <= size'[job'[t].file]
  <2>1. CASE registry[f] # None
    <3>1. registry[f] \in Sizes /\ job'[t] = Chunk(f, backlog, registry[f])
      BY <2>1 DEF Enter, TypeOK
    <3>2. job'[t].pc \in AtLines => job'[t].pc # "idle"
      BY DEF AtLines
    <3> QED BY <3>1, <3>2, ChunkWithin
  <2>2. CASE registry[f] = None
    <3>1. job'[t].pc = "lookup"
      BY <2>2 DEF Enter, TypeOK, Idle
    <3> QED BY <3>1 DEF AtLines
  <2> QED BY <2>1, <2>2
<1> QED BY <1>1, <1>2, SizesReflexive, WithinKept

LEMMA WithinProcess ==
    ASSUME TypeOK, TypeOK', JobsWithin, NEW t \in Tasks, Process(t)
    PROVE  JobsWithin'
<1>0. job \in [Tasks -> Job] /\ job[t] \in Job /\ size' = size
  BY DEF TypeOK, Process, Lookup, Register, Count, Emit, Store
<1>1. CASE Register(t)
  <2> DEFINE f == job[t].file
             j == Chunk(f, job[t].backlog, job[t].off)
  <2>1. /\ f \in Files /\ job[t].off \in Sizes /\ job[t].backlog \in BOOLEAN
        /\ job' = [Disowned(job, f) EXCEPT ![t] = j]
    BY <1>0, <1>1 DEF Register, TypeOK, Job
  <2>2. j.pc \in AtLines => j.to <= size[j.file]
    <3>1. j.pc \in AtLines => j.pc # "idle"
      BY DEF AtLines
    <3> QED BY <2>1, <3>1, ChunkWithin
  <2> HIDE DEF j, f
  <2>3. job'[t] = j
        /\ \A u \in Tasks \ {t} :
              /\ job'[u].pc = job[u].pc /\ job'[u].file = job[u].file
              /\ job'[u].to = job[u].to
    BY <2>1, DisownedType
  <2> QED BY <1>0, <2>2, <2>3, SizesReflexive, WithinKept
<1>2. CASE ~Register(t)
  <2>1. /\ \A u \in Tasks \ {t} : job'[u] = job[u]
        /\ \/ job'[t].pc \in {"idle", "register"}
           \/ /\ job[t].pc \in AtLines
              /\ job'[t].to = job[t].to /\ job'[t].file = job[t].file
    <3>1. CASE Lookup(t)
      BY <1>0, <3>1 DEF Lookup, Job
    <3>2. CASE Count(t)
      BY <1>0, <3>2 DEF Count, Job, AtLines
    <3>3. CASE Emit(t)
      BY <1>0, <3>3 DEF Emit, Job, AtLines
    <3>4. CASE Store(t)
      BY <1>0, <3>4 DEF Store, Idle
    <3> QED BY <1>2, <3>1, <3>2, <3>3, <3>4 DEF Process
  <2>2. job'[t].pc \in AtLines => job'[t].to <= size'[job'[t].file]
    <3>1. job[t].pc \in AtLines => job[t].to <= size[job[t].file]
      BY DEF JobsWithin
    <3>2. job'[t].pc \in {"idle", "register"} => job'[t].pc \notin AtLines
      BY DEF AtLines
    <3> QED BY <1>0, <2>1, <3>1, <3>2
  <2> QED BY <1>0, <2>1, <2>2, SizesReflexive, WithinKept
<1> QED BY <1>1, <1>2

LEMMA WithinInit == Init => JobsWithin
  BY DEF Init, JobsWithin, Idle, AtLines

LEMMA WithinStep ==
    ASSUME TypeOK, TypeOK', JobsWithin, [Next]_vars
    PROVE  JobsWithin'
<1>0. Watch \in Tasks /\ Seeders \subseteq Tasks
  BY DEF Tasks
<1>1. ASSUME NEW t \in Tasks, Process(t) PROVE JobsWithin'
  BY <1>1, WithinProcess
<1>2. ASSUME NEW f \in Files, PrimeParse(f) \/ Notice(f) PROVE JobsWithin'
  BY <1>0, <1>2, WithinEnter DEF PrimeParse, Notice
<1>3. ASSUME NEW s \in Seeders, NEW f \in Files, SeedFile(s, f) PROVE JobsWithin'
  <2> DEFINE n == [Idle EXCEPT !.pc = "lookup", !.file = f, !.backlog = TRUE]
  <2>1. n.pc \notin AtLines
    BY DEF Idle, AtLines
  <2>2. job' = [Disowned(job, f) EXCEPT ![s] = n] /\ size' = size
    BY <1>3 DEF SeedFile
  <2> HIDE DEF n
  <2>3. job'[s] = n
        /\ \A u \in Tasks \ {s} :
              /\ job'[u].pc = job[u].pc /\ job'[u].file = job[u].file
              /\ job'[u].to = job[u].to
    BY <1>0, <2>2, DisownedType
  <2> QED BY <1>0, <2>1, <2>2, <2>3, SizesReflexive, WithinKept
<1>4. CASE /\ job' = job
           /\ size' = size \/ \E f \in Files : size' = [size EXCEPT ![f] = @ + 1]
  <2>1. \A f \in Files : size[f] <= size'[f]
    <3>1. size \in [Files -> Sizes] /\ \A f \in Files : size[f] \in Int
      BY SizesReflexive DEF TypeOK
    <3> QED BY <1>4, <3>1
  <2>2. job[Watch].pc \in AtLines => job[Watch].to <= size'[job[Watch].file]
    <3>1. ASSUME job[Watch].pc \in AtLines
          PROVE  job[Watch].to <= size'[job[Watch].file]
      <4>1. job[Watch].pc # "idle"
        BY <3>1 DEF AtLines
      <4>2. /\ job[Watch].file \in Files /\ job[Watch].to \in Int
            /\ size[job[Watch].file] \in Int /\ size'[job[Watch].file] \in Int
        BY <1>0, <4>1, WorkTypes
      <4>3. job[Watch].to <= size[job[Watch].file]
        BY <1>0, <3>1 DEF JobsWithin
      <4> QED BY <2>1, <4>2, <4>3
    <3> QED BY <3>1
  <2> QED BY <1>0, <1>4, <2>1, <2>2, WithinKept
<1>5. CASE Crash
  BY <1>5 DEF Crash, JobsWithin, Idle, AtLines
<1>6. CASE UNCHANGED vars
  BY <1>4, <1>6 DEF vars, taskVars
<1>7. CASE \/ Start \/ PrimeDone
           \/ \E f \in Files : PrimeMarkEof(f) \/ AppendHalf(f)
           \/ \E s \in Seeders : StartSeed(s) \/ FinishSeed(s)
  BY <1>4, <1>7 DEF Start, PrimeDone, PrimeMarkEof, AppendHalf, StartSeed, FinishSeed
<1> QED BY <1>0, <1>1, <1>2, <1>3, <1>5, <1>6, <1>7 DEF Next, WatchStep, SeedStep

\* What a write to a ledger is in lines.
LEMMA OffsetInLines ==
    ASSUME NEW d \in LedgerState, NEW f \in Files, NEW o \in Sizes
    PROVE  InLines([d EXCEPT !.offset[f] = o]) = [InLines(d) EXCEPT !.past[f] = o \div 2]
<1>0. /\ d.offset \in [Files -> Sizes] /\ d.rows \in [Files -> [Lines -> Nat]]
  BY DEF LedgerState
<1> DEFINE e == [d EXCEPT !.offset[f] = o]
<1>1. e.rows = d.rows /\ e.offset = [d.offset EXCEPT ![f] = o]
  BY DEF LedgerState
<1> HIDE DEF e
<1>2. [g \in Files |-> e.offset[g] \div 2]
         = [[g \in Files |-> d.offset[g] \div 2] EXCEPT ![f] = o \div 2]
  BY <1>0, <1>1
<1> DEFINE R == [g \in Files |-> {i \in Lines : d.rows[g][i] > 0}]
           P == [g \in Files |-> d.offset[g] \div 2]
<1>3. /\ InLines(e) = [rows |-> R, past |-> [P EXCEPT ![f] = o \div 2]]
      /\ InLines(d) = [rows |-> R, past |-> P]
  BY <1>1, <1>2 DEF InLines
<1> HIDE DEF R, P
<1>4. InLines(e) = [InLines(d) EXCEPT !.past[f] = o \div 2]
  BY <1>3
<1> QED BY <1>4 DEF e

LEMMA TurnInLines ==
    ASSUME NEW d \in LedgerState, NEW f \in Files, NEW m
    PROVE  InLines([d EXCEPT !.turns[f] = @ + 1, !.last[f] = m]) = InLines(d)
<1> DEFINE e == [d EXCEPT !.turns[f] = @ + 1, !.last[f] = m]
<1>1. e.rows = d.rows /\ e.offset = d.offset
  BY DEF LedgerState
<1> HIDE DEF e
<1>2. InLines(e) = InLines(d)
  BY <1>1 DEF InLines
<1> QED BY <1>2 DEF e

LEMMA RowInLines ==
    ASSUME NEW d \in LedgerState, NEW f \in Files, NEW k \in Lines,
           NEW n \in Nat, n > 0
    PROVE  InLines([d EXCEPT !.rows[f][k] = n])
              = [InLines(d) EXCEPT !.rows[f] = @ \cup {k}]
<1>0. /\ d.offset \in [Files -> Sizes] /\ d.rows \in [Files -> [Lines -> Nat]]
  BY DEF LedgerState
<1> DEFINE e == [d EXCEPT !.rows[f][k] = n]
           In(rows, g) == {i \in Lines : rows[g][i] > 0}
<1>1. e.offset = d.offset
      /\ e.rows = [d.rows EXCEPT ![f] = [d.rows[f] EXCEPT ![k] = n]]
  BY DEF LedgerState
<1> HIDE DEF e
<1>2. \A g \in Files : In(e.rows, g) = IF g = f THEN In(d.rows, f) \cup {k}
                                       ELSE In(d.rows, g)
  <2>1. /\ \A g \in Files \ {f} : e.rows[g] = d.rows[g]
        /\ \A i \in Lines : e.rows[f][i] = IF i = k THEN n ELSE d.rows[f][i]
    BY <1>0, <1>1
  <2>2. In(e.rows, f) = In(d.rows, f) \cup {k}
    BY <2>1
  <2> QED BY <2>1, <2>2
<1> HIDE DEF In
<1> DEFINE R == [g \in Files |-> In(d.rows, g)]
           P == [g \in Files |-> d.offset[g] \div 2]
<1>3. [g \in Files |-> In(e.rows, g)] = [R EXCEPT ![f] = @ \cup {k}]
  BY <1>2
<1>4. /\ InLines(e) = [rows |-> [g \in Files |-> In(e.rows, g)], past |-> P]
      /\ InLines(d) = [rows |-> R, past |-> P]
  BY <1>1 DEF InLines, In
<1> HIDE DEF R, P
<1>5. InLines(e) = [InLines(d) EXCEPT !.rows[f] = @ \cup {k}]
  BY <1>3, <1>4
<1> QED BY <1>5 DEF e

LEMMA DeliveryInitMap == Init => Promise!DeliveryInit
<1> SUFFICES ASSUME Init PROVE Promise!DeliveryInit
  OBVIOUS
<1>1. [f \in Files |-> size[f] \div 2] \in [Files -> Lines \cup {0}]
  <2>1. ASSUME NEW n \in Sizes PROVE n \div 2 \in Lines \cup {0}
    BY <2>1, Sizing DEF Sizes, Lines
  <2> QED BY <2>1 DEF Init
<1>2. [f \in Files |-> (hidden[f] + 1) \div 2] = [f \in Files |-> 0]
  BY DEF Init
<1>3. InLines(db) = [rows |-> [f \in Files |-> {}], past |-> [f \in Files |-> 0]]
  <2>1. \A f \in Files : {k \in Lines : EmptyLedger.rows[f][k] > 0} = {}
                         /\ EmptyLedger.offset[f] \div 2 = 0
    BY DEF EmptyLedger
  <2> QED BY <2>1 DEF Init, InLines
<1>4. InLines(saved) = InLines(db)
  BY DEF Init
<1> QED BY <1>1, <1>2, <1>3, <1>4 DEF Promise!DeliveryInit

\* A commit follows every write, or is held back by a batch.
LEMMA WriteSettles ==
    ASSUME saved' = saved \/ saved' = db'
    PROVE  Promise!Settle
<1>1. CASE saved' = saved
  <2>1. InLines(saved)' = InLines(saved)
    BY <1>1
  <2> QED BY <2>1 DEF Promise!Settle
<1>2. CASE saved' = db'
  <2>1. InLines(saved)' = InLines(db)'
    BY <1>2
  <2> QED BY <2>1 DEF Promise!Settle
<1> QED BY <1>1, <1>2

\* A step that changes neither rows nor offsets, committed or not.
LEMMA SameLines ==
    ASSUME size' = size, hidden' = hidden, InLines(db)' = InLines(db),
           saved' = saved \/ saved' = db'
    PROVE  Promise!DeliveryNext \/ UNCHANGED Promise!deliveryVars
<1>1. [f \in Files |-> size[f] \div 2]' = [f \in Files |-> size[f] \div 2]
      /\ [f \in Files |-> (hidden[f] + 1) \div 2]' = [f \in Files |-> (hidden[f] + 1) \div 2]
  OBVIOUS
<1>2. CASE saved' = saved
  <2>1. InLines(saved)' = InLines(saved)
    BY <1>2
  <2> QED BY <1>1, <2>1 DEF Promise!deliveryVars
<1>3. CASE saved' = db'
  <2>1. InLines(saved)' = InLines(db)
    BY <1>3
  <2> QED BY <1>1, <2>1 DEF Promise!DeliveryNext, Promise!Commit
<1> QED BY <1>2, <1>3

\* Moving the stored offset to the end of line n, all due lines before it
\* having rows.
LEMMA MoveMap ==
    ASSUME TypeOK, NEW f \in Files, NEW o \in Sizes, o % 2 = 0, o <= size[f],
           Read(hidden[f], db.rows[f], o),
           Write([db EXCEPT !.offset[f] = o]), size' = size, hidden' = hidden
    PROVE  Promise!DeliveryNext
<1> DEFINE n == o \div 2
<1>1. /\ o \in Nat /\ size[f] \in Nat /\ hidden[f] \in Nat /\ db \in LedgerState
  BY Sizing DEF TypeOK
<1>2. n \in Lines \cup {0} /\ n <= size[f] \div 2 /\ o = 2 * n
  <2>1. n \in Nat /\ o = 2 * n /\ n <= size[f] \div 2
    BY <1>1
  <2>2. o <= 2 * Len(Msg) /\ Len(Msg) \in Nat
    BY Sizing DEF Sizes
  <2> QED BY <2>1, <2>2 DEF Lines
<1>3. ASSUME NEW k \in Lines, (hidden[f] + 1) \div 2 < k, k <= n
      PROVE  k \in InLines(db).rows[f]
  <2>1. k \in Nat /\ hidden[f] <= 2 * (k - 1) /\ 2 * (k - 1) < o
    <3>1. k \in Nat
      BY Sizing
    <3>2. n \in Nat
      BY <1>1
    <3> HIDE DEF n
    <3> QED BY <1>1, <1>2, <1>3, <3>1, <3>2
  <2>2. db.rows[f][k] > 0
    BY <2>1 DEF Read
  <2> QED BY <2>2 DEF InLines
<1>4. /\ InLines(db)' = [InLines(db) EXCEPT !.past[f] = n]
      /\ Promise!Settle
  <2>1. /\ db' = [db EXCEPT !.offset[f] = o]
        /\ saved' = saved \/ saved' = db'
    BY DEF Write
  <2>2. InLines(db)' = InLines([db EXCEPT !.offset[f] = o])
    BY <2>1
  <2>3. InLines([db EXCEPT !.offset[f] = o]) = [InLines(db) EXCEPT !.past[f] = n]
    BY <1>1, OffsetInLines, Zenon
  <2> QED BY <2>1, <2>2, <2>3, WriteSettles
<1>5. /\ [g \in Files |-> size[g] \div 2]' = [g \in Files |-> size[g] \div 2]
      /\ [g \in Files |-> (hidden[g] + 1) \div 2]' = [g \in Files |-> (hidden[g] + 1) \div 2]
  OBVIOUS
<1> HIDE DEF n
<1>6. Promise!Move(f, n)
  BY <1>2, <1>3, <1>4, <1>5 DEF Promise!Move
<1> QED BY <1>2, <1>6 DEF Promise!DeliveryNext

\* A line handed on was whole, for the chunk it is of lies within the file.
LEMMA EmitMap ==
    ASSUME TypeOK, JobsWithin, NEW t \in Tasks, Emit(t)
    PROVE  Promise!DeliveryNext
<1> DEFINE f == job[t].file
           k == job[t].next
<1>1. /\ f \in Files /\ k \in Lines /\ size[f] \in Nat /\ db \in LedgerState
      /\ 2 * k <= size[f]
  <2>1. job[t].pc = "emit" /\ job[t].pc # "idle" /\ job[t].pc \in AtLines
    BY DEF Emit, AtLines
  <2>2. /\ f \in Files /\ 2 * k <= job[t].to /\ job[t] \in Job /\ db \in LedgerState
        /\ size \in [Files -> Sizes] /\ job[t].to <= size[f]
    BY <2>1 DEF TypeOK, JobsWithin
  <2>3. k \in 1..(Len(Msg) + 1) /\ job[t].to \in Sizes /\ size[f] \in Sizes
    BY <2>2 DEF Job
  <2> HIDE DEF f, k
  <2> QED BY <2>2, <2>3, Sizing DEF Sizes, Lines
<1>2. /\ Write([db EXCEPT !.rows[f][k] = @ + 1]) /\ size' = size /\ hidden' = hidden
  BY DEF Emit
<1> HIDE DEF f, k
<1>3. k <= size[f] \div 2
  <2>1. k \in Nat
    BY <1>1, Sizing
  <2> QED BY <1>1, <2>1
<1>4. /\ InLines(db)' = [InLines(db) EXCEPT !.rows[f] = @ \cup {k}]
      /\ Promise!Settle
  <2>1. /\ db' = [db EXCEPT !.rows[f][k] = @ + 1]
        /\ saved' = saved \/ saved' = db'
    BY <1>2 DEF Write
  <2>2. InLines(db)' = InLines([db EXCEPT !.rows[f][k] = @ + 1])
    BY <2>1
  <2>3. InLines([db EXCEPT !.rows[f][k] = @ + 1]) = [InLines(db) EXCEPT !.rows[f] = @ \cup {k}]
    <3> DEFINE n == db.rows[f][k] + 1
    <3>1. n \in Nat /\ n > 0
      <4>1. db.rows[f][k] \in Nat
        BY <1>1 DEF LedgerState
      <4> QED BY <4>1
    <3>2. [db EXCEPT !.rows[f][k] = @ + 1] = [db EXCEPT !.rows[f][k] = n]
      OBVIOUS
    <3> HIDE DEF n
    <3>3. InLines([db EXCEPT !.rows[f][k] = n]) = [InLines(db) EXCEPT !.rows[f] = @ \cup {k}]
      BY <1>1, <3>1, RowInLines
    <3> QED BY <3>2, <3>3
  <2> QED BY <2>1, <2>2, <2>3, WriteSettles
<1>5. /\ [g \in Files |-> size[g] \div 2]' = [g \in Files |-> size[g] \div 2]
      /\ [g \in Files |-> (hidden[g] + 1) \div 2]' = [g \in Files |-> (hidden[g] + 1) \div 2]
  BY <1>2
<1>6. Promise!Deliver(f, k)
  BY <1>1, <1>3, <1>4, <1>5 DEF Promise!Deliver
<1> QED BY <1>1, <1>6 DEF Promise!DeliveryNext

\* The chunk has been recorded by the time its end is stored.
LEMMA StoreMap ==
    ASSUME Inv, JobsWithin, NEW t \in Tasks, Store(t)
    PROVE  Promise!DeliveryNext
<1> DEFINE f == job[t].file
           o == job[t].to
           at == 2 * (job[t].next - 1)
<1>1. TypeOK /\ job[t].pc = "store" /\ job[t] \in Job /\ f \in Files
  BY DEF Inv, Store, TypeOK
<1>2. /\ o \in Sizes /\ o \in Int /\ at \in Int
  <2>1. o \in Sizes /\ job[t].next \in 1..(Len(Msg) + 1)
    BY <1>1 DEF Job
  <2>2. at \in Int
    BY <2>1
  <2>3. o \in Int
    BY <2>1 DEF Sizes
  <2> QED BY <2>1, <2>2, <2>3
<1>3. o <= size[f]
  BY <1>1 DEF JobsWithin, AtLines
<1>4. o % 2 = 0 /\ Read(hidden[f], db.rows[f], at) /\ o <= at
  BY <1>1 DEF Inv, JobsRead, JobRead
<1>5. /\ Write([db EXCEPT !.offset[f] = o]) /\ size' = size /\ hidden' = hidden
  BY DEF Store, historyVars
<1> HIDE DEF f, o, at
<1>6. Read(hidden[f], db.rows[f], o)
  <2>1. \A k \in Lines : k \in Nat
    BY Sizing
  <2> QED BY <1>2, <1>4, <2>1 DEF Read
<1> QED BY <1>1, <1>2, <1>3, <1>4, <1>5, <1>6, MoveMap

\* The half line being written counts as hidden too.
LEMMA MarkMap ==
    ASSUME Inv, NEW f \in Files, PrimeMarkEof(f)
    PROVE  Promise!DeliveryNext
<1>1. /\ TypeOK /\ size[f] \in Sizes /\ size[f] \in Nat /\ hidden[f] \in Nat
      /\ db \in LedgerState /\ hidden[f] <= size[f] /\ hidden \in [Files -> Sizes]
  BY Sizing DEF Inv, TypeOK, OffsetsRead
<1>2. /\ Write([db EXCEPT !.offset[f] = size[f]]) /\ size' = size
      /\ hidden' = [hidden EXCEPT ![f] = size[f]]
  BY DEF PrimeMarkEof
<1>3. /\ InLines(db)' = [InLines(db) EXCEPT !.past[f] = size[f] \div 2]
      /\ Promise!Settle
  <2>1. /\ db' = [db EXCEPT !.offset[f] = size[f]]
        /\ saved' = saved \/ saved' = db'
    BY <1>2 DEF Write
  <2>2. InLines(db)' = InLines([db EXCEPT !.offset[f] = size[f]])
    BY <2>1
  <2>3. InLines([db EXCEPT !.offset[f] = size[f]]) = [InLines(db) EXCEPT !.past[f] = size[f] \div 2]
    BY <1>1, OffsetInLines, Zenon
  <2> QED BY <2>1, <2>2, <2>3, WriteSettles
<1> DEFINE U == [g \in Files |-> (hidden[g] + 1) \div 2]
           n == (size[f] + 1) \div 2
<1>4. [g \in Files |-> (hidden[g] + 1) \div 2]' = [U EXCEPT ![f] = n]
  BY <1>1, <1>2
<1>5. /\ n \in {size[f] \div 2, size[f] \div 2 + 1} /\ U[f] <= n
  BY <1>1
<1>6. [g \in Files |-> size[g] \div 2]' = [g \in Files |-> size[g] \div 2]
  BY <1>2
<1>7. [U EXCEPT ![f] = n][f] = n
  OBVIOUS
<1> HIDE DEF n
<1>8. Promise!Hide(f)
  BY <1>3, <1>4, <1>5, <1>6, <1>7 DEF Promise!Hide
<1> QED BY <1>8 DEF Promise!DeliveryNext

\* A half line more is a line more, or none.
LEMMA AppendMap ==
    ASSUME TypeOK, NEW f \in Files, AppendHalf(f)
    PROVE  Promise!DeliveryNext \/ UNCHANGED Promise!deliveryVars
<1>1. /\ size \in [Files -> Sizes] /\ size[f] \in Nat
  BY Sizing DEF TypeOK
<1>2. /\ size' = [size EXCEPT ![f] = @ + 1]
      /\ db' = db /\ saved' = saved /\ hidden' = hidden
  BY DEF AppendHalf
<1> DEFINE W == [g \in Files |-> size[g] \div 2]
           n == (size[f] + 1) \div 2
<1>3. [g \in Files |-> size[g] \div 2]' = [W EXCEPT ![f] = n]
  BY <1>1, <1>2
<1>4. n = W[f] \/ n = W[f] + 1
  BY <1>1
<1>5. /\ InLines(db)' = InLines(db) /\ InLines(saved)' = InLines(saved)
      /\ [g \in Files |-> (hidden[g] + 1) \div 2]' = [g \in Files |-> (hidden[g] + 1) \div 2]
  BY <1>2
<1>6. CASE n = W[f]
  <2>1. [W EXCEPT ![f] = n] = W
    BY <1>6
  <2> QED BY <1>3, <1>5, <2>1 DEF Promise!deliveryVars
<1>7. CASE n = W[f] + 1
  <2>1. Promise!Complete(f)
    BY <1>3, <1>5, <1>7 DEF Promise!Complete
  <2> QED BY <2>1 DEF Promise!DeliveryNext
<1> QED BY <1>4, <1>6, <1>7

LEMMA CountMap ==
    ASSUME TypeOK, NEW t \in Tasks, Count(t)
    PROVE  Promise!DeliveryNext \/ UNCHANGED Promise!deliveryVars
<1> DEFINE f == job[t].file
           m == Msg[job[t].next]
           new == [db EXCEPT !.turns[f] = @ + 1, !.last[f] = m]
<1>1. /\ f \in Files /\ db \in LedgerState /\ size' = size /\ hidden' = hidden
      /\ Write(new) \/ Write(db)
  BY DEF Count, TypeOK, historyVars
<1>2. InLines(new) = InLines(db)
  <2> HIDE DEF f, m
  <2> QED BY <1>1, TurnInLines
<1> HIDE DEF new
<1>3. InLines(db)' = InLines(db) /\ (saved' = saved \/ saved' = db')
  BY <1>1, <1>2 DEF Write
<1> QED BY <1>1, <1>3, SameLines

LEMMA SeedFileMap ==
    ASSUME Inv, NEW s \in Seeders, NEW f \in Files, SeedFile(s, f)
    PROVE  Promise!DeliveryNext
<1>1. TypeOK /\ 0 \in Sizes /\ 0 % 2 = 0 /\ 0 <= size[f]
  <2>1. TypeOK /\ 0 \in Sizes /\ size[f] \in Nat
    BY Sizing DEF Inv, TypeOK
  <2> QED BY <2>1
<1>2. Read(hidden[f], db.rows[f], 0)
  <2>1. \A k \in Lines : ~(2 * (k - 1) < 0)
    BY Sizing DEF Lines
  <2> QED BY <2>1 DEF Read
<1>3. Write([db EXCEPT !.offset[f] = 0]) /\ size' = size /\ hidden' = hidden
  BY DEF SeedFile, historyVars
<1> QED BY <1>1, <1>2, <1>3, MoveMap

LEMMA DeliveryStepMap ==
    Inv /\ JobsWithin /\ [Next]_vars => [Promise!DeliveryNext]_(Promise!deliveryVars)
<1> SUFFICES ASSUME Inv, JobsWithin, [Next]_vars
             PROVE  Promise!DeliveryNext \/ UNCHANGED Promise!deliveryVars
  OBVIOUS
<1>0. TypeOK /\ Watch \in Tasks /\ Seeders \subseteq Tasks
  BY DEF Inv, Tasks
<1>1. CASE UNCHANGED <<size, db, saved, hidden>>
  <2>1. InLines(db)' = InLines(db)
    BY <1>1
  <2> QED BY <1>1, <2>1, SameLines
<1>2. ASSUME NEW t \in Tasks, Process(t)
      PROVE  Promise!DeliveryNext \/ UNCHANGED Promise!deliveryVars
  <2>1. CASE Lookup(t) \/ Register(t)
    BY <1>1, <2>1 DEF Lookup, Register, historyVars
  <2>2. CASE Count(t) \/ Emit(t) \/ Store(t)
    BY <1>0, <2>2, CountMap, EmitMap, StoreMap
  <2> QED BY <1>2, <2>1, <2>2 DEF Process
<1>3. ASSUME NEW f \in Files, PrimeParse(f) \/ Notice(f)
      PROVE  Promise!DeliveryNext \/ UNCHANGED Promise!deliveryVars
  BY <1>1, <1>3 DEF PrimeParse, Notice, historyVars
<1>4. ASSUME NEW s \in Seeders, StartSeed(s)
      PROVE  Promise!DeliveryNext \/ UNCHANGED Promise!deliveryVars
  <2>1. /\ db' = [db EXCEPT !.seeded = TRUE] /\ db \in LedgerState
        /\ size' = size /\ saved' = saved /\ hidden' = hidden
    BY <1>0, <1>4 DEF StartSeed, TypeOK, historyVars
  <2>2. db'.rows = db.rows /\ db'.offset = db.offset
    BY <2>1 DEF LedgerState
  <2>3. InLines(db)' = InLines(db)
    BY <2>2 DEF InLines
  <2> QED BY <2>1, <2>3, SameLines
<1>5. ASSUME NEW s \in Seeders, FinishSeed(s)
      PROVE  Promise!DeliveryNext \/ UNCHANGED Promise!deliveryVars
  <2>1. /\ db' = db /\ size' = size /\ hidden' = hidden
        /\ saved' = saved \/ saved' = db'
    BY <1>5 DEF FinishSeed, historyVars
  <2>2. InLines(db)' = InLines(db)
    BY <2>1
  <2> QED BY <2>1, <2>2, SameLines
<1>6. CASE Crash
  <2>1. /\ db' = saved /\ saved' = saved /\ size' = size /\ hidden' = hidden
    BY <1>6 DEF Crash, historyVars
  <2>2. /\ InLines(db)' = InLines(saved) /\ InLines(saved)' = InLines(saved)
        /\ [f \in Files |-> size[f] \div 2]' = [f \in Files |-> size[f] \div 2]
        /\ [f \in Files |-> (hidden[f] + 1) \div 2]'
              = [f \in Files |-> (hidden[f] + 1) \div 2]
    BY <2>1
  <2> QED BY <2>2 DEF Promise!DeliveryNext, Promise!Recover
<1>7. CASE Start \/ PrimeDone \/ UNCHANGED vars
  BY <1>1, <1>7 DEF Start, PrimeDone, historyVars, vars
<1> QED
  BY <1>0, <1>2, <1>3, <1>4, <1>5, <1>6, <1>7, MarkMap, AppendMap, SeedFileMap
     DEF Next, WatchStep, SeedStep

\* The watcher implements Delivery: whole lines only are recorded, the position
\* moves past none that is neither recorded nor hidden, and a crash takes rows
\* and positions of all transcripts back together, whatever the tasks, batches
\* and offsets in bytes behind it do (watcher.py _process_file and
\* _prime_existing, ledger.py batch_commits).
THEOREM DeliveryImplemented == Spec => ImplementsDelivery
<1>1. Inv /\ JobsWithin /\ [Next]_vars => Inv' /\ JobsWithin'
  BY TypeStep, ReadStep, WithinStep DEF Inv
<1>2. Init => Inv /\ JobsWithin
  BY ReadInit, WithinInit
<1> QED
  BY <1>1, <1>2, DeliveryInitMap, DeliveryStepMap, PTL
     DEF Spec, ImplementsDelivery, Promise!DeliverySpec

=============================================================================
