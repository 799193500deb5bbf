-------------------------- MODULE DispatcherProofs --------------------------
(***************************************************************************)
(* Proofs about Dispatcher for any transcripts, cache bounds and numbers   *)
(* of crashes, seeds and failing writes: type correctness, the account of  *)
(* turn metrics, the feed's turn entries, and, of a single reader, that no *)
(* turn is shown twice, that mode changes are those of the transcript and  *)
(* that interrupted calls are named.                                       *)
(***************************************************************************)
EXTENDS Dispatcher, SequenceTheorems, FiniteSetTheorems, TLAPS

-----------------------------------------------------------------------------
(* Types. *)

Jobs == [pc : Stages \cup {"idle"}, f : Nat, at : Nat, end : Nat, taken : Nat]

\* A job in transcript txt, n lines of which are there, with k FileStates and b
\* turns begun.
JobOK(j, txt, n, k, b) ==
    /\ j \in Jobs
    /\ j.pc # "idle" =>
          /\ j.f \in 1..k /\ j.at \in 1..Len(txt) /\ j.end \in j.at..n
          /\ j.taken \in 0..b
          /\ j.pc = "call" => txt[j.at].call # None

\* The conjuncts of the type invariant, and what the stage of a tool call adds.
WorldOK ==
    /\ text \in Seq(Lines) /\ written \in 0..Len(text) /\ stored \in 0..written
    /\ seeded \in BOOLEAN
    /\ lastMsg \in Messages \cup {None} /\ emitted \in Messages \cup {None}
    /\ life \in {"down", "priming", "up"}
    /\ crashes \in 0..MaxCrashes /\ seeds \in 0..MaxSeeds /\ faults \in 0..MaxFaults

TurnsOK == begun \in Nat /\ inflight \in 0..begun /\ metrics \in [1..begun -> Nat]

FilesOK ==
    /\ files \in Seq(FileStates) /\ reg \in 0..Len(files)
    /\ \A f \in 1..Len(files) : Len(files[f].names) <= Cap

JobsOK ==
    /\ job \in [Tasks -> Jobs]
    /\ \A t \in Tasks : JobOK(job[t], text, written, Len(files), begun)
    /\ life = "down" => \A t \in Tasks : job[t] = Idle

HistoryOK ==
    /\ entries \in [Messages -> Nat]
    /\ given \subseteq 1..Len(text) /\ hidden \subseteq 1..Len(text)
    /\ changes \in Seq(Modes \X Modes)
    /\ stops \in Seq([at : Nat, named : BOOLEAN])

TypeInv == WorldOK /\ TurnsOK /\ FilesOK /\ JobsOK /\ HistoryOK

LEMMA TypeInvTypes == TypeInv => TypeOK
<1> SUFFICES ASSUME TypeInv PROVE TypeOK
  OBVIOUS
<1>1. DOMAIN text = 1..Len(text) /\ DOMAIN files = 1..Len(files)
  BY DEF TypeInv, WorldOK, FilesOK
<1>2. \A t \in Tasks : job[t].pc # "idle" =>
          /\ job[t].f \in 1..Len(files)
          /\ job[t].at \in 1..Len(text) /\ job[t].end \in job[t].at..written
          /\ job[t].taken \in 0..begun
  BY DEF TypeInv, JobsOK, JobOK
<1> QED BY <1>1, <1>2
        DEF TypeInv, WorldOK, TurnsOK, FilesOK, JobsOK, HistoryOK, Jobs, TypeOK

LEMMA IdleOK ==
    ASSUME NEW txt, NEW n, NEW k, NEW b
    PROVE  JobOK(Idle, txt, n, k, b)
  BY DEF JobOK, Jobs, Idle

\* The line a task is at.
LEMMA LineTypes ==
    ASSUME TypeInv, NEW t \in Tasks, job[t].pc # "idle"
    PROVE  /\ job[t] \in Jobs /\ JobOK(job[t], text, written, Len(files), begun)
           /\ job[t].f \in 1..Len(files) /\ FileOf(t) \in FileStates
           /\ Len(FileOf(t).names) <= Cap
           /\ job[t].at \in 1..Len(text) /\ LineOf(t) \in Lines
           /\ job[t].end \in job[t].at..written
           /\ job[t].taken \in 0..begun
<1>1. JobOK(job[t], text, written, Len(files), begun)
  BY DEF TypeInv, JobsOK
<1>2. text \in Seq(Lines) /\ files \in Seq(FileStates)
  BY DEF TypeInv, WorldOK, FilesOK
<1>3. job[t].f \in 1..Len(files) /\ job[t].at \in 1..Len(text)
  BY <1>1 DEF JobOK
<1>4. files[job[t].f] \in FileStates /\ text[job[t].at] \in Lines
  BY <1>2, <1>3, ElementOfSeq
<1>5. Len(files[job[t].f].names) <= Cap
  BY <1>3 DEF TypeInv, FilesOK
<1> QED BY <1>1, <1>3, <1>4, <1>5 DEF JobOK, FileOf, LineOf

\* One task gets a new job; the others keep theirs while lines, FileStates and
\* turns are only added.
LEMMA JobsStep ==
    ASSUME TypeInv, NEW t \in Tasks, NEW j, job' = [job EXCEPT ![t] = j],
           life' # "down",
           text' = text, written' \in Nat, written <= written',
           Len(files') \in Nat, Len(files) <= Len(files'),
           begun' \in Nat, begun <= begun',
           JobOK(j, text, written', Len(files'), begun')
    PROVE  JobsOK'
<1>1. /\ job \in [Tasks -> Jobs]
      /\ \A u \in Tasks : JobOK(job[u], text, written, Len(files), begun)
      /\ life = "down" => \A u \in Tasks : job[u] = Idle
  BY DEF TypeInv, JobsOK
<1>2. /\ written \in Nat /\ Len(files) \in Nat /\ begun \in Nat
  BY DEF TypeInv, WorldOK, FilesOK, TurnsOK
<1>3. ASSUME NEW u \in Tasks, u # t
      PROVE  JobOK(job[u], text, written', Len(files'), begun')
  BY <1>1, <1>2, <1>3, SMTT(30) DEF JobOK, Jobs
<1>4. j \in Jobs
  BY DEF JobOK
<1>5. job' \in [Tasks -> Jobs]
  BY <1>1, <1>4
<1>6. \A u \in Tasks : job'[u] = IF u = t THEN j ELSE job[u]
  BY <1>1
<1> QED BY <1>3, <1>5, <1>6 DEF JobsOK

\* All jobs stay.
LEMMA JobsStay ==
    ASSUME TypeInv, job' = job, life' = "down" => life = "down", text' = text, written' \in Nat, written <= written',
           files' = files, begun' = begun
    PROVE  JobsOK'
<1>1. /\ job \in [Tasks -> Jobs]
      /\ \A u \in Tasks : JobOK(job[u], text, written, Len(files), begun)
      /\ life = "down" => \A u \in Tasks : job[u] = Idle
  BY DEF TypeInv, JobsOK
<1>2. written \in Nat
  BY DEF TypeInv, WorldOK
<1>3. ASSUME NEW u \in Tasks
      PROVE  JobOK(job[u], text, written', Len(files), begun)
  BY <1>1, <1>2 DEF JobOK, Jobs
<1> QED BY <1>1, <1>3 DEF JobsOK

\* All jobs end.
LEMMA JobsEnd == ASSUME job' = [t \in Tasks |-> Idle] PROVE JobsOK'
<1>1. \A t \in Tasks : JobOK(job'[t], text', written', Len(files'), begun')
  BY IdleOK
<1>2. Idle \in Jobs
  BY DEF Idle, Jobs
<1> QED BY <1>1, <1>2 DEF JobsOK

-----------------------------------------------------------------------------
(* Types: starting, reading, stopping. *)

LEMMA FreshTypes ==
    ASSUME NEW at \in Nat
    PROVE  Fresh(at) \in FileStates /\ Len(Fresh(at).names) <= Cap
  BY DispatcherAssumption DEF Fresh, FileStates

LEMMA ReadingTypes ==
    ASSUME TypeInv, NEW k \in Nat, NEW f \in 1..k, NEW from \in Nat, from < written
    PROVE  JobOK(Reading(f, from), text, written, k, begun)
  BY DEF TypeInv, WorldOK, TurnsOK, JobOK, Jobs, Stages, Reading

\* A FileState is added and registered.
LEMMA FileAdded ==
    ASSUME TypeInv, NEW at \in Nat, files' = Append(files, Fresh(at)),
           reg' = Len(files) + 1
    PROVE  FilesOK' /\ Len(files') = Len(files) + 1
<1>1. files \in Seq(FileStates) /\ \A f \in 1..Len(files) : Len(files[f].names) <= Cap
  BY DEF TypeInv, FilesOK
<1>2. Fresh(at) \in FileStates /\ Len(Fresh(at).names) <= Cap
  BY FreshTypes
<1>3. /\ files' \in Seq(FileStates) /\ Len(files') = Len(files) + 1
      /\ files'[Len(files) + 1] = Fresh(at)
      /\ \A f \in 1..Len(files) : files'[f] = files[f]
  BY <1>1, <1>2, AppendProperties
<1>4. \A f \in 1..Len(files') : f = Len(files) + 1 \/ f \in 1..Len(files)
  BY <1>1, <1>3
<1> QED BY <1>1, <1>2, <1>3, <1>4 DEF FilesOK

LEMMA TypeInit == Init => TypeInv
<1> SUFFICES ASSUME Init PROVE TypeInv
  OBVIOUS
<1>1. WorldOK
  BY DispatcherAssumption DEF Init, WorldOK
<1>2. TurnsOK /\ FilesOK /\ HistoryOK
  BY DEF Init, TurnsOK, FilesOK, HistoryOK
<1>3. JobsOK
  BY IdleOK DEF Init, JobsOK, JobOK
<1> QED BY <1>1, <1>2, <1>3 DEF TypeInv

LEMMA TypeWrite == ASSUME TypeInv, Write PROVE TypeInv'
<1> USE DEF Write, turnVars, feedVars, fileVars, logVars, modeVars
<1>1. WorldOK'
  BY DEF TypeInv, WorldOK
<1>2. JobsOK'
  <2>1. written' \in Nat /\ written <= written'
    BY DEF TypeInv, WorldOK
  <2> QED BY <2>1, JobsStay
<1>3. TurnsOK' /\ FilesOK' /\ HistoryOK'
  BY DEF TypeInv, TurnsOK, FilesOK, HistoryOK
<1> QED BY <1>1, <1>2, <1>3 DEF TypeInv


LEMMA TypeStartPriming == ASSUME TypeInv, StartPriming PROVE TypeInv'
<1> USE DEF StartPriming, outerVars, turnVars, feedVars, logVars, modeVars
<1>1. stored \in Nat /\ written \in Nat /\ text \in Seq(Lines)
  BY DEF TypeInv, WorldOK
<1>2. FilesOK' /\ Len(files') = 1
  BY <1>1, FreshTypes DEF FilesOK
<1>3. JobsOK'
  <2>1. /\ job \in [Tasks -> Jobs] /\ \A t \in Tasks : job[t] = Idle
        /\ Watch \in Tasks
    BY DEF TypeInv, JobsOK, Tasks
  <2>2. JobOK(Reading(1, stored), text, written, 1, begun)
    BY <1>1, ReadingTypes
  <2>3. \A t \in Tasks : job'[t] = IF t = Watch THEN Reading(1, stored) ELSE Idle
    BY <2>1
  <2>4. \A t \in Tasks : JobOK(job'[t], text, written, 1, begun)
    BY <2>2, <2>3, IdleOK
  <2>5. job' \in [Tasks -> Jobs]
    BY <2>1, <2>2 DEF JobOK
  <2> QED BY <1>2, <2>4, <2>5 DEF JobsOK
<1>4. WorldOK' /\ TurnsOK' /\ HistoryOK'
  BY DEF TypeInv, WorldOK, TurnsOK, HistoryOK
<1> QED BY <1>2, <1>3, <1>4 DEF TypeInv

LEMMA TypeStartHiding == ASSUME TypeInv, StartHiding PROVE TypeInv'
<1> USE DEF StartHiding, turnVars, feedVars, fileVars, modeVars
<1>1. stored \in Nat /\ written \in 0..Len(text) /\ text \in Seq(Lines)
  BY DEF TypeInv, WorldOK
<1>2. WorldOK' /\ TurnsOK' /\ FilesOK'
  BY DEF TypeInv, WorldOK, TurnsOK, FilesOK
<1>3. JobsOK'
  BY <1>1, JobsStay
<1>4. HistoryOK'
  <2>1. hidden' \subseteq 1..Len(text)
    BY <1>1 DEF TypeInv, HistoryOK
  <2> QED BY <2>1 DEF TypeInv, HistoryOK
<1> QED BY <1>2, <1>3, <1>4 DEF TypeInv

LEMMA TypeMakeWorkers == ASSUME TypeInv, MakeWorkers PROVE TypeInv'
<1> USE DEF MakeWorkers, outerVars, turnVars, feedVars, fileVars, logVars, modeVars
<1>1. WorldOK' /\ TurnsOK' /\ FilesOK' /\ HistoryOK'
  BY DEF TypeInv, WorldOK, TurnsOK, FilesOK, HistoryOK
<1>2. JobsOK'
  <2>1. written \in Nat
    BY DEF TypeInv, WorldOK
  <2> QED BY <2>1, JobsStay
<1> QED BY <1>1, <1>2 DEF TypeInv

LEMMA TypeTails == ASSUME TypeInv, Tails PROVE TypeInv'
<1> USE DEF Tails, outerVars, turnVars, feedVars, logVars, modeVars
<1>1. /\ stored \in Nat /\ written \in Nat /\ begun \in Nat
      /\ files \in Seq(FileStates) /\ reg \in 0..Len(files) /\ Watch \in Tasks
  BY DEF TypeInv, WorldOK, TurnsOK, FilesOK, Tasks
<1>2. WorldOK' /\ TurnsOK' /\ HistoryOK'
  BY DEF TypeInv, WorldOK, TurnsOK, HistoryOK
<1>3. CASE reg = 0
  <2>1. FilesOK' /\ Len(files') = Len(files) + 1
    BY <1>1, <1>3, FileAdded
  <2>2. JobOK(Reading(Len(files) + 1, stored), text, written, Len(files'), begun)
    BY <1>1, <1>3, <2>1, ReadingTypes
  <2>3. job' = [job EXCEPT ![Watch] = Reading(Len(files) + 1, stored)]
    BY <1>3
  <2>4. JobsOK'
    <3>1. /\ life' # "down" /\ text' = text /\ written' = written /\ begun' = begun
          /\ Len(files) \in Nat
      BY <1>1
    <3>2. /\ written' \in Nat /\ written <= written' /\ Len(files') \in Nat
          /\ Len(files) <= Len(files') /\ begun' \in Nat /\ begun <= begun'
      BY <1>1, <2>1, <3>1
    <3>3. JobOK(Reading(Len(files) + 1, stored), text, written', Len(files'), begun')
      BY <2>2, <3>1
    <3> HIDE DEF Tails
    <3> QED BY <1>1, <2>3, <3>1, <3>2, <3>3, JobsStep
  <2> QED BY <1>2, <2>1, <2>4 DEF TypeInv
<1>4. CASE reg # 0
  <2>1. FilesOK' /\ files' = files
    BY <1>4 DEF TypeInv, FilesOK
  <2>2. files[reg].at \in Nat
    <3>1. reg \in 1..Len(files)
      BY <1>1, <1>4
    <3>2. files[reg] \in FileStates
      BY <1>1, <3>1, ElementOfSeq
    <3> QED BY <3>2 DEF FileStates
  <2>3. JobOK(Reading(reg, files[reg].at), text, written, Len(files), begun)
    BY <1>1, <1>4, <2>2, ReadingTypes
  <2>4. job' = [job EXCEPT ![Watch] = Reading(reg, files[reg].at)]
    BY <1>4
  <2>5. JobsOK'
    <3>1. /\ life' # "down" /\ text' = text /\ written' = written /\ begun' = begun
          /\ Len(files) \in Nat
      BY <1>1
    <3>2. /\ written' \in Nat /\ written <= written' /\ Len(files') \in Nat
          /\ Len(files) <= Len(files') /\ begun' \in Nat /\ begun <= begun'
      BY <1>1, <2>1, <3>1
    <3>3. JobOK(Reading(reg, files[reg].at), text, written', Len(files'), begun')
      BY <2>1, <2>3, <3>1
    <3> HIDE DEF Tails
    <3> QED BY <1>1, <2>4, <3>1, <3>2, <3>3, JobsStep
  <2> QED BY <1>2, <2>1, <2>5 DEF TypeInv
<1> QED BY <1>3, <1>4

LEMMA TypeStartSeed == ASSUME TypeInv, StartSeed PROVE TypeInv'
<1> USE DEF StartSeed, turnVars, feedVars, logVars, modeVars
<1>1. /\ written \in Nat /\ begun \in Nat
      /\ files \in Seq(FileStates) /\ Seeder \in Tasks
  BY DEF TypeInv, WorldOK, TurnsOK, FilesOK, Tasks
<1>2. WorldOK' /\ TurnsOK' /\ HistoryOK'
  BY DispatcherAssumption DEF TypeInv, WorldOK, TurnsOK, HistoryOK
<1>3. FilesOK' /\ Len(files') = Len(files) + 1
  BY FileAdded
<1>4. JobOK(Reading(Len(files) + 1, 0), text, written, Len(files'), begun)
  BY <1>1, <1>3, ReadingTypes
<1>5. JobsOK'
  <2>1. /\ life' # "down" /\ text' = text /\ written' = written /\ begun' = begun
        /\ Len(files) \in Nat
    BY <1>1
  <2>2. job' = [job EXCEPT ![Seeder] = Reading(Len(files) + 1, 0)]
    OBVIOUS
  <2>3. /\ written' \in Nat /\ written <= written' /\ Len(files') \in Nat
        /\ Len(files) <= Len(files') /\ begun' \in Nat /\ begun <= begun'
    BY <1>1, <1>3, <2>1
  <2>4. JobOK(Reading(Len(files) + 1, 0), text, written', Len(files'), begun')
    BY <1>4, <2>1
  <2> HIDE DEF StartSeed
  <2> QED BY <1>1, <2>1, <2>2, <2>3, <2>4, JobsStep
<1> QED BY <1>2, <1>3, <1>5 DEF TypeInv

LEMMA TypeStore == ASSUME TypeInv, NEW t \in Tasks, Store(t) PROVE TypeInv'
<1> USE DEF Store, turnVars, feedVars, fileVars, logVars, modeVars
<1>1. job[t].end \in job[t].at..written /\ job[t].at \in 1..Len(text)
  BY LineTypes
<1>2. written \in Nat /\ begun \in Nat /\ files \in Seq(FileStates) /\ life # "down"
  BY DEF TypeInv, WorldOK, TurnsOK, FilesOK, JobsOK, Idle
<1>3. WorldOK'
  BY <1>1 DEF TypeInv, WorldOK
<1>4. TurnsOK' /\ FilesOK' /\ HistoryOK'
  BY DEF TypeInv, TurnsOK, FilesOK, HistoryOK
<1>5. JobsOK'
  <2>1. /\ life' # "down" /\ text' = text /\ written' = written /\ begun' = begun
        /\ Len(files) \in Nat /\ files' = files
    BY <1>2
  <2>2. job' = [job EXCEPT ![t] = Idle]
    OBVIOUS
  <2>3. JobOK(Idle, text, written', Len(files'), begun')
    BY IdleOK
  <2>4. /\ written' \in Nat /\ written <= written' /\ Len(files') \in Nat
        /\ Len(files) <= Len(files') /\ begun' \in Nat /\ begun <= begun'
    BY <1>2, <2>1
  <2> HIDE DEF Store
  <2> QED BY <2>1, <2>2, <2>3, <2>4, JobsStep
<1> QED BY <1>3, <1>4, <1>5 DEF TypeInv

LEMMA TypeCrash == ASSUME TypeInv, Crash PROVE TypeInv'
<1> USE DEF Crash, logVars, modeVars
<1>1. WorldOK'
  BY DispatcherAssumption DEF TypeInv, WorldOK
<1>2. TurnsOK' /\ FilesOK' /\ HistoryOK'
  BY DEF TypeInv, TurnsOK, FilesOK, HistoryOK
<1>3. JobsOK'
  BY JobsEnd
<1> QED BY <1>1, <1>2, <1>3 DEF TypeInv

-----------------------------------------------------------------------------
(* Types: one line. *)

\* A task goes on in its line, or to the next.
LEMMA JobsLine ==
    ASSUME TypeInv, NEW t \in Tasks, job[t].pc # "idle", NEW j,
           job' = [job EXCEPT ![t] = j], UNCHANGED <<life, text, written>>,
           Len(files') = Len(files), begun' \in Nat, begun <= begun',
           JobOK(j, text, written, Len(files), begun')
    PROVE  JobsOK'
<1>1. written \in Nat /\ files \in Seq(FileStates) /\ life # "down"
  BY DEF TypeInv, WorldOK, FilesOK, JobsOK, Idle
<1>2. /\ written' \in Nat /\ written <= written' /\ Len(files') \in Nat
      /\ Len(files) <= Len(files') /\ life' # "down" /\ text' = text
  BY <1>1
<1>3. JobOK(j, text, written', Len(files'), begun')
  OBVIOUS
<1> QED BY <1>2, <1>3, JobsStep

LEMMA GoToTypes ==
    ASSUME TypeInv, NEW t \in Tasks, job[t].pc # "idle", NEW pc \in Stages,
           GoTo(t, pc), pc = "call" => LineOf(t).call # None,
           UNCHANGED <<life, text, written>>, Len(files') = Len(files),
           begun' \in Nat, begun <= begun'
    PROVE  JobsOK'
<1> DEFINE j == [job[t] EXCEPT !.pc = pc]
<1>1. /\ job[t] \in Jobs /\ JobOK(job[t], text, written, Len(files), begun)
      /\ begun \in Nat
  BY LineTypes DEF TypeInv, TurnsOK
<1>2. job' = [job EXCEPT ![t] = j]
  BY DEF GoTo
<1>3. j \in Jobs /\ j.pc = pc /\ j.f = job[t].f /\ j.at = job[t].at
      /\ j.end = job[t].end /\ j.taken = job[t].taken
  BY <1>1 DEF Jobs
<1> HIDE DEF j
<1>4. JobOK(j, text, written, Len(files), begun')
  BY <1>1, <1>3 DEF JobOK, LineOf
<1> QED BY <1>2, <1>4, JobsLine

\* What ends a line leaves the FileStates and the jobs in order.
LEMMA DoneTypes ==
    ASSUME TypeInv, NEW t \in Tasks, job[t].pc # "idle", NEW f \in FileStates,
           Len(f.names) <= Cap, Done(t, f), UNCHANGED <<life, text, written, reg>>,
           begun' \in Nat, begun <= begun'
    PROVE  JobsOK' /\ FilesOK' /\ Len(files') = Len(files)
<1> DEFINE last == job[t].at = job[t].end
           g == IF last THEN [f EXCEPT !.at = job[t].end] ELSE f
           j == [job[t] EXCEPT !.pc = IF last THEN "store" ELSE "line",
                               !.at = IF last THEN @ ELSE @ + 1]
<1>1. /\ job[t] \in Jobs /\ JobOK(job[t], text, written, Len(files), begun)
      /\ job[t].f \in 1..Len(files) /\ job[t].at \in 1..Len(text)
      /\ job[t].end \in job[t].at..written
      /\ written \in 0..Len(text) /\ begun \in Nat /\ text \in Seq(Lines)
  BY LineTypes DEF TypeInv, TurnsOK, WorldOK
<1>2. job' = [job EXCEPT ![t] = j] /\ files' = [files EXCEPT ![job[t].f] = g]
  BY DEF Done
<1>3. /\ j \in Jobs /\ j.pc \in {"line", "store"} /\ j.f = job[t].f
      /\ j.end = job[t].end /\ j.taken = job[t].taken
      /\ j.at \in 1..Len(text) /\ j.end \in j.at..written
  <2>1. /\ job[t].at \in Nat /\ job[t].end \in Nat /\ written \in Nat
        /\ Len(text) \in Nat
    BY <1>1 DEF Jobs
  <2>2. CASE last
    <3>1. j = [job[t] EXCEPT !.pc = "store", !.at = job[t].at]
      BY <2>2
    <3> HIDE DEF j, g
    <3> QED BY <1>1, <2>1, <3>1 DEF Jobs, Stages
  <2>3. CASE ~last
    <3>1. j = [job[t] EXCEPT !.pc = "line", !.at = job[t].at + 1]
      BY <2>3
    <3>2. job[t].at + 1 \in 1..Len(text) /\ job[t].end \in job[t].at + 1..written
      BY <1>1, <2>1, <2>3, SMTT(30)
    <3>3. job[t].at + 1 \in Nat
      BY <2>1
    <3> HIDE DEF j, g
    <3>4. /\ j \in Jobs /\ j.pc = "line" /\ j.f = job[t].f
          /\ j.end = job[t].end /\ j.taken = job[t].taken /\ j.at = job[t].at + 1
      BY <1>1, <3>1, <3>3 DEF Jobs, Stages
    <3> QED BY <3>2, <3>4
  <2> QED BY <2>2, <2>3
<1>4. g \in FileStates /\ g.names = f.names
  BY <1>1 DEF FileStates, Jobs
<1> HIDE DEF j, g
<1>5. files \in Seq(FileStates) /\ \A k \in 1..Len(files) : Len(files[k].names) <= Cap
  BY DEF TypeInv, FilesOK
<1>6. /\ files' \in Seq(FileStates) /\ Len(files') = Len(files)
      /\ \A k \in 1..Len(files) : files'[k] = IF k = job[t].f THEN g ELSE files[k]
  BY <1>1, <1>2, <1>4, <1>5, ExceptSeq
<1>7. FilesOK'
  BY <1>4, <1>5, <1>6 DEF FilesOK, TypeInv
<1>8. JobOK(j, text, written, Len(files), begun')
  BY <1>1, <1>3 DEF JobOK
<1>9. JobsOK'
  BY <1>2, <1>6, <1>8, JobsLine
<1> QED BY <1>6, <1>7, <1>9

\* Going on after the turn in flight has been seen to.
LEMMA OnwardTypes ==
    ASSUME TypeInv, NEW t \in Tasks, job[t].pc # "idle", Onward(t),
           UNCHANGED <<life, text, written, reg>>, begun' \in Nat, begun <= begun'
    PROVE  /\ JobsOK' /\ FilesOK' /\ Len(files') = Len(files)
           /\ given' \subseteq 1..Len(text)
<1>1. /\ FileOf(t) \in FileStates /\ Len(FileOf(t).names) <= Cap
      /\ job[t].at \in 1..Len(text) /\ given \subseteq 1..Len(text)
  BY LineTypes DEF TypeInv, HistoryOK
<1>2. given' \subseteq 1..Len(text)
  BY <1>1 DEF Onward, HandOver
<1>3. CASE Done(t, FileOf(t))
  BY <1>1, <1>2, <1>3, DoneTypes
<1>4. CASE files' = files /\ \E pc \in {"told", "turn", "call"} :
              GoTo(t, pc) /\ (pc = "call" => LineOf(t).call # None)
  <2>1. PICK pc \in {"told", "turn", "call"} :
              GoTo(t, pc) /\ (pc = "call" => LineOf(t).call # None)
    BY <1>4
  <2>2. pc \in Stages /\ Len(files') = Len(files)
    BY <1>4 DEF Stages
  <2>3. JobsOK'
    BY <2>1, <2>2, GoToTypes
  <2>4. FilesOK'
    BY <1>4 DEF TypeInv, FilesOK
  <2> QED BY <1>2, <2>2, <2>3, <2>4
<1>5. \/ Done(t, FileOf(t))
      \/ files' = files /\ \E pc \in {"told", "turn", "call"} :
              GoTo(t, pc) /\ (pc = "call" => LineOf(t).call # None)
  BY DEF Onward
<1> QED BY <1>3, <1>4, <1>5

LEMMA BeginsTypes ==
    ASSUME TypeInv, NEW t \in Tasks, Begins(t)
    PROVE  begun' \in Nat /\ begun <= begun' /\ begun' <= begun + 1
           /\ inflight' \in 0..begun'
  BY DEF TypeInv, TurnsOK, Begins

LEMMA TypeCountTurn == ASSUME TypeInv, NEW t \in Tasks, CountTurn(t) PROVE TypeInv'
<1> USE DEF CountTurn, outerVars, turnVars, feedVars, fileVars, logVars, modeVars
<1>1. LineOf(t).msg \in Messages \cup {None} /\ begun \in Nat
  BY LineTypes DEF Lines, TypeInv, TurnsOK
<1>2. WorldOK' /\ TurnsOK' /\ FilesOK' /\ HistoryOK'
  BY <1>1 DEF TypeInv, WorldOK, TurnsOK, FilesOK, HistoryOK
<1>3. JobsOK'
  BY <1>1, GoToTypes DEF Stages
<1> QED BY <1>2, <1>3 DEF TypeInv

LEMMA TypeTakeTurn == ASSUME TypeInv, NEW t \in Tasks, TakeTurn(t) PROVE TypeInv'
<1> USE DEF TakeTurn, outerVars, feedVars, fileVars, logVars, modeVars
<1> DEFINE j == [job[t] EXCEPT !.pc = "metric", !.taken = inflight]
<1>1. /\ job[t] \in Jobs /\ JobOK(job[t], text, written, Len(files), begun)
      /\ inflight \in 0..begun /\ begun \in Nat
  BY LineTypes DEF Closes, TypeInv, TurnsOK
<1>2. WorldOK' /\ TurnsOK' /\ FilesOK' /\ HistoryOK'
  BY SMTT(30) DEF TypeInv, WorldOK, TurnsOK, FilesOK, HistoryOK
<1>3. JobsOK'
  <2>1. job' = [job EXCEPT ![t] = j]
    OBVIOUS
  <2>2. JobOK(j, text, written, Len(files), begun)
    <3>1. /\ j \in Jobs /\ j.pc = "metric" /\ j.f = job[t].f /\ j.at = job[t].at
          /\ j.end = job[t].end /\ j.taken = inflight
      <4>1. inflight \in Nat /\ job[t] \in Jobs
        BY <1>1
      <4> HIDE DEF TakeTurn
      <4> QED BY <4>1 DEF Jobs, Stages
    <3>2. job[t].pc # "idle"
      BY DEF Closes
    <3> HIDE DEF j, TakeTurn
    <3> QED BY <1>1, <3>1, <3>2 DEF JobOK
  <2>3. /\ UNCHANGED <<life, text, written>> /\ Len(files') = Len(files)
        /\ begun' = begun /\ begun <= begun' /\ job[t].pc # "idle"
    BY <1>1 DEF Closes
  <2> HIDE DEF j, TakeTurn
  <2> QED BY <1>1, <2>1, <2>2, <2>3, JobsLine
<1> QED BY <1>2, <1>3 DEF TypeInv

LEMMA TypeOpen == ASSUME TypeInv, NEW t \in Tasks, Open(t) PROVE TypeInv'
<1> USE DEF Open, outerVars, feedVars, modeVars
<1>1. begun' \in Nat /\ begun <= begun' /\ inflight' \in 0..begun'
  BY BeginsTypes
<1>2. TurnsOK'
  <2>1. \A k \in 1..begun' : (IF k > begun THEN 0 ELSE metrics[k]) \in Nat
    BY <1>1 DEF TypeInv, TurnsOK
  <2> QED BY <1>1, <2>1 DEF TurnsOK
<1>3. JobsOK' /\ FilesOK' /\ given' \subseteq 1..Len(text)
  BY <1>1, OnwardTypes DEF Closes
<1>4. WorldOK' /\ HistoryOK'
  BY <1>3 DEF TypeInv, WorldOK, HistoryOK
<1> QED BY <1>2, <1>3, <1>4 DEF TypeInv

LEMMA TypeRecord ==
    ASSUME TypeInv, NEW t \in Tasks, RecordMetric(t) \/ RecordMetricFails(t)
    PROVE  TypeInv'
<1>1. PICK n \in {0, 1} : Recorded(t, n)
  BY DEF RecordMetric, RecordMetricFails
<1> USE DEF Recorded, outerVars, feedVars, modeVars
<1>2. begun' \in Nat /\ begun <= begun' /\ inflight' \in 0..begun'
  BY <1>1, BeginsTypes
<1>3. TurnsOK'
  <2>1. \A k \in 1..begun' : (IF k > begun THEN 0
                              ELSE IF k = job[t].taken THEN metrics[k] + n
                              ELSE metrics[k]) \in Nat
    BY <1>2 DEF TypeInv, TurnsOK
  <2> QED BY <1>1, <1>2, <2>1 DEF TurnsOK
<1>4. JobsOK' /\ FilesOK' /\ given' \subseteq 1..Len(text)
  BY <1>1, <1>2, OnwardTypes
<1>5. faults' \in 0..MaxFaults
  BY DispatcherAssumption DEF RecordMetric, RecordMetricFails, TypeInv, WorldOK
<1>6. WorldOK' /\ HistoryOK'
  BY <1>1, <1>4, <1>5 DEF TypeInv, WorldOK, HistoryOK
<1> QED BY <1>3, <1>4, <1>6 DEF TypeInv

LEMMA TypeExtend == ASSUME TypeInv, NEW t \in Tasks, Extend(t) PROVE TypeInv'
<1> USE DEF Extend, outerVars, turnVars, feedVars, modeVars
<1>1. begun' \in Nat /\ begun <= begun'
  BY DEF TypeInv, TurnsOK
<1>2. JobsOK' /\ FilesOK' /\ given' \subseteq 1..Len(text)
  BY <1>1, OnwardTypes
<1>3. WorldOK' /\ TurnsOK' /\ HistoryOK'
  BY <1>2 DEF TypeInv, WorldOK, TurnsOK, HistoryOK
<1> QED BY <1>2, <1>3 DEF TypeInv

LEMMA TypePublish ==
    ASSUME TypeInv, NEW t \in Tasks, PublishTurn(t) \/ PublishTurnFails(t)
    PROVE  TypeInv'
<1>1. PICK n \in {0, 1} : Published(t, n)
  BY DEF PublishTurn, PublishTurnFails
<1>2. /\ faults' \in 0..MaxFaults
      /\ UNCHANGED <<outerVars, lastMsg, life, turnVars, reg, logVars, modeVars>>
  BY DispatcherAssumption DEF PublishTurn, PublishTurnFails, TypeInv, WorldOK
<1> USE DEF outerVars, turnVars, logVars, modeVars
<1>3. /\ LineOf(t).msg \in Messages \cup {None} /\ job[t].pc # "idle"
      /\ FileOf(t) \in FileStates /\ Len(FileOf(t).names) <= Cap
      /\ begun \in Nat
  BY <1>1, LineTypes DEF Published, Lines, TypeInv, TurnsOK
<1>4. entries' \in [Messages -> Nat]
  <2>1. \A m \in Messages : entries[m] + n \in Nat
    BY DEF TypeInv, HistoryOK
  <2> QED BY <1>1, <2>1 DEF Published, TypeInv, HistoryOK
<1>5. WorldOK' /\ TurnsOK' /\ HistoryOK'
  BY <1>1, <1>2, <1>3, <1>4 DEF Published, TypeInv, WorldOK, TurnsOK, HistoryOK
<1>6. JobsOK' /\ FilesOK'
  <2>1. CASE LineOf(t).call # None
    <3>1. GoTo(t, "call") /\ files' = files /\ "call" \in Stages
      BY <1>1, <2>1 DEF Published, Stages
    <3>2. JobsOK'
      BY <1>2, <1>3, <2>1, <3>1, GoToTypes
    <3> QED BY <1>2, <3>1, <3>2 DEF TypeInv, FilesOK
  <2>2. CASE LineOf(t).call = None
    <3>1. Done(t, FileOf(t))
      BY <1>1, <2>2 DEF Published
    <3> QED BY <1>2, <1>3, <3>1, DoneTypes
  <2> QED BY <2>1, <2>2
<1> QED BY <1>5, <1>6 DEF TypeInv

\* The names of tool calls stay within their bound.
LEMMA NamedTypes ==
    ASSUME NEW names \in Seq(Calls), Len(names) <= Cap, NEW c \in Calls
    PROVE  Named(names, c) \in Seq(Calls) /\ Len(Named(names, c)) <= Cap
<1> DEFINE all == IF \E i \in DOMAIN names : names[i] = c THEN names
                  ELSE Append(names, c)
<1>1. all \in Seq(Calls) /\ Len(all) \in 0..Cap + 1
  BY AppendProperties, DispatcherAssumption
<1>2. Named(names, c) = IF Len(all) > Cap THEN SubSeq(all, Drop + 1, Len(all)) ELSE all
  BY DEF Named
<1> HIDE DEF all
<1>3. CASE Len(all) > Cap
  <2>1. Drop \in 1..Len(all) /\ Drop \in Nat /\ Drop >= 1 /\ Len(all) = Cap + 1
    BY <1>1, <1>3, DispatcherAssumption
  <2>2. Drop + 1 \in 1..Len(all) + 1 /\ Len(all) \in 0..Len(all)
    BY <1>1, <2>1
  <2>3. /\ SubSeq(all, Drop + 1, Len(all)) \in Seq(Calls)
        /\ Len(SubSeq(all, Drop + 1, Len(all))) = Len(all) - Drop
    <3>1. \A i \in Drop + 1..Len(all) : all[i] \in Calls
      BY <1>1, <2>1, ElementOfSeq
    <3> QED BY <1>1, <2>1, <3>1
  <2> QED BY <1>2, <1>3, <2>1, <2>3, DispatcherAssumption
<1>4. CASE ~(Len(all) > Cap)
  BY <1>1, <1>2, <1>4, DispatcherAssumption
<1> QED BY <1>3, <1>4

LEMMA WithoutTypes ==
    ASSUME NEW names \in Seq(Calls), Len(names) <= Cap, NEW c
    PROVE  Without(names, c) \in Seq(Calls) /\ Len(Without(names, c)) <= Cap
<1>1. CASE \E i \in DOMAIN names : names[i] = c
  <2> DEFINE i == CHOOSE i \in DOMAIN names : names[i] = c
             a == SubSeq(names, 1, i - 1)
             b == SubSeq(names, i + 1, Len(names))
  <2>1. i \in 1..Len(names) /\ Len(names) \in Nat
    BY <1>1
  <2>2. Without(names, c) = a \o b
    BY <1>1 DEF Without
  <2> HIDE DEF i
  <2>3. a \in Seq(Calls) /\ Len(a) = i - 1
    BY <2>1
  <2>4. b \in Seq(Calls) /\ Len(b) = Len(names) - i
    BY <2>1
  <2> HIDE DEF a, b
  <2>5. a \o b \in Seq(Calls) /\ Len(a \o b) = Len(a) + Len(b)
    BY <2>3, <2>4, ConcatProperties
  <2> QED BY <2>1, <2>2, <2>3, <2>4, <2>5, DispatcherAssumption
<1>2. CASE ~\E i \in DOMAIN names : names[i] = c
  BY <1>2 DEF Without
<1> QED BY <1>1, <1>2

\* The FileState of a task with other names or another mode.
LEMMA FileTypes ==
    ASSUME NEW f \in FileStates, NEW names \in Seq(Calls),
           NEW mode \in Modes \cup {None}
    PROVE  /\ [f EXCEPT !.names = names] \in FileStates
           /\ [f EXCEPT !.names = names].names = names
           /\ [f EXCEPT !.mode = mode] \in FileStates
           /\ [f EXCEPT !.mode = mode].names = f.names
  BY DEF FileStates

LEMMA TypeNoteCall == ASSUME TypeInv, NEW t \in Tasks, NoteCall(t) PROVE TypeInv'
<1> USE DEF NoteCall, outerVars, turnVars, feedVars, logVars, modeVars
<1>1. /\ job[t].pc # "idle" /\ FileOf(t) \in FileStates
      /\ Len(FileOf(t).names) <= Cap
      /\ LineOf(t) \in Lines /\ LineOf(t).call # None
  BY LineTypes DEF JobOK, LineOf
<1>2. LineOf(t).call \in Calls /\ FileOf(t).names \in Seq(Calls)
  BY <1>1 DEF Lines, FileStates
<1> DEFINE names == Named(FileOf(t).names, LineOf(t).call)
           f == [FileOf(t) EXCEPT !.names = names]
<1>3. names \in Seq(Calls) /\ Len(names) <= Cap
  BY <1>1, <1>2, NamedTypes
<1>4. Done(t, f)
  OBVIOUS
<1> HIDE DEF names
<1>5. f \in FileStates /\ f.names = names
  BY <1>1, <1>3 DEF FileStates
<1> HIDE DEF f
<1>6. begun' \in Nat /\ begun <= begun'
  BY DEF TypeInv, TurnsOK
<1>7. JobsOK' /\ FilesOK'
  BY <1>1, <1>3, <1>4, <1>5, <1>6, DoneTypes
<1>8. WorldOK' /\ TurnsOK' /\ HistoryOK'
  BY DEF TypeInv, WorldOK, TurnsOK, HistoryOK
<1> QED BY <1>7, <1>8 DEF TypeInv

LEMMA TypeInterrupt == ASSUME TypeInv, NEW t \in Tasks, Interrupt(t) PROVE TypeInv'
<1> USE DEF outerVars, turnVars, feedVars, logVars
<1> DEFINE names == Without(FileOf(t).names, LineOf(t).stop)
           f == [FileOf(t) EXCEPT !.names = names]
<1>1. /\ job[t].pc # "idle" /\ FileOf(t) \in FileStates
      /\ Len(FileOf(t).names) <= Cap /\ job[t].f \in 1..Len(files)
      /\ job[t].at \in Nat
      /\ files \in Seq(FileStates) /\ begun \in Nat
      /\ \A k \in 1..Len(files) : Len(files[k].names) <= Cap
  BY LineTypes DEF Interrupt, Jobs, TypeInv, FilesOK, TurnsOK
<1>2. FileOf(t).names \in Seq(Calls)
  BY <1>1 DEF FileStates
<1>3. names \in Seq(Calls) /\ Len(names) <= Cap
  BY <1>1, <1>2, WithoutTypes
<1>4. /\ files' = [files EXCEPT ![job[t].f] = f]
      /\ \E n \in BOOLEAN : stops' = Append(stops, [at |-> job[t].at, named |-> n])
      /\ GoTo(t, "told")
      /\ UNCHANGED <<outerVars, lastMsg, life, turnVars, feedVars, reg, faults, logVars,
                     changes>>
  BY DEF Interrupt, FileOf
<1> HIDE DEF names
<1>5. f \in FileStates /\ f.names = names
  BY <1>1, <1>3 DEF FileStates
<1> HIDE DEF f
<1>6. /\ files' \in Seq(FileStates) /\ Len(files') = Len(files)
      /\ \A k \in 1..Len(files) : files'[k] = IF k = job[t].f THEN f ELSE files[k]
  BY <1>1, <1>4, <1>5, ExceptSeq
<1>7. FilesOK'
  BY <1>1, <1>3, <1>4, <1>5, <1>6 DEF FilesOK, TypeInv
<1>8. JobsOK'
  <2>1. "told" \in Stages /\ begun' \in Nat /\ begun <= begun'
    BY <1>1, <1>4 DEF Stages
  <2> QED BY <1>1, <1>4, <1>6, <2>1, GoToTypes
<1>9. HistoryOK'
  <2>1. PICK n \in BOOLEAN : stops' = Append(stops, [at |-> job[t].at, named |-> n])
    BY <1>4
  <2>2. stops' \in Seq([at : Nat, named : BOOLEAN])
    BY <1>1, <2>1, AppendProperties DEF TypeInv, HistoryOK
  <2> QED BY <1>4, <2>2 DEF TypeInv, HistoryOK
<1>10. WorldOK' /\ TurnsOK'
  BY <1>4 DEF TypeInv, WorldOK, TurnsOK
<1> QED BY <1>7, <1>8, <1>9, <1>10 DEF TypeInv

LEMMA TypeMode ==
    ASSUME TypeInv, NEW t \in Tasks, SameMode(t) \/ ChangeMode(t) \/ ModeChanged(t)
    PROVE  TypeInv'
<1> USE DEF outerVars, turnVars, feedVars, fileVars, logVars, modeVars
<1>1. /\ job[t].pc # "idle" /\ FileOf(t) \in FileStates
      /\ Len(FileOf(t).names) <= Cap /\ LineOf(t) \in Lines
      /\ begun' \in Nat /\ begun <= begun'
  BY LineTypes DEF SameMode, ChangeMode, ModeChanged, AtMode, TypeInv, TurnsOK
<1>2. WorldOK' /\ TurnsOK'
  BY DEF SameMode, ChangeMode, ModeChanged, TypeInv, WorldOK, TurnsOK
<1>3. CASE SameMode(t) \/ ModeChanged(t)
  <2>1. KeepMode(t) \in FileStates /\ Len(KeepMode(t).names) <= Cap
    BY <1>1 DEF KeepMode, FileStates, Lines
  <2>2. Done(t, KeepMode(t)) /\ UNCHANGED <<life, text, written, reg>>
    BY <1>3 DEF SameMode, ModeChanged
  <2>3. JobsOK' /\ FilesOK'
    BY <1>1, <2>1, <2>2, DoneTypes
  <2>4. HistoryOK'
    BY <1>3 DEF SameMode, ModeChanged, TypeInv, HistoryOK
  <2> QED BY <1>2, <2>3, <2>4 DEF TypeInv
<1>4. CASE ChangeMode(t)
  <2>1. FileOf(t).mode \in Modes /\ LineOf(t).mode \in Modes
    BY <1>1, <1>4 DEF ChangeMode, Changes, FileStates, Lines
  <2>2. changes' \in Seq(Modes \X Modes)
    <3>1. <<FileOf(t).mode, LineOf(t).mode>> \in Modes \X Modes
      BY <2>1
    <3> QED BY <1>4, <3>1, AppendProperties DEF ChangeMode, TypeInv, HistoryOK
  <2>3. HistoryOK' /\ FilesOK'
    BY <1>4, <2>2 DEF ChangeMode, TypeInv, HistoryOK, FilesOK
  <2>4. JobsOK'
    <3>1. /\ GoTo(t, "change") /\ UNCHANGED <<life, text, written>>
          /\ Len(files') = Len(files) /\ "change" \in Stages
      BY <1>4 DEF ChangeMode, Stages
    <3> QED BY <1>1, <3>1, GoToTypes
  <2> QED BY <1>2, <2>3, <2>4 DEF TypeInv
<1> QED BY <1>3, <1>4

LEMMA TypeStep == TypeInv /\ [Next]_vars => TypeInv'
<1> SUFFICES ASSUME TypeInv, [Next]_vars PROVE TypeInv'
  OBVIOUS
<1>1. CASE UNCHANGED vars
  <2> USE <1>1 DEF vars, outerVars, turnVars, feedVars, fileVars, logVars, modeVars
  <2>1. WorldOK' /\ TurnsOK' /\ FilesOK' /\ HistoryOK'
    BY DEF TypeInv, WorldOK, TurnsOK, FilesOK, HistoryOK
  <2>2. JobsOK'
    BY DEF TypeInv, JobsOK
  <2> QED BY <2>1, <2>2 DEF TypeInv
<1>2. ASSUME NEW t \in Tasks, Turn(t) \/ Rest(t) PROVE TypeInv'
  BY <1>2, TypeCountTurn, TypeTakeTurn, TypeOpen, TypeRecord, TypeExtend, TypePublish,
     TypeNoteCall, TypeInterrupt, TypeMode DEF Turn, Rest
<1> QED BY <1>1, <1>2, TypeWrite, TypeStartPriming, TypeStartHiding, TypeMakeWorkers,
           TypeTails, TypeStartSeed, TypeCrash, TypeStore DEF Next

\* Dispatcher is type correct: tool_use_names stays within its bound and tasks
\* stay within the lines there are.
THEOREM TypeCorrect == Spec => []TypeOK
<1>1. Spec => []TypeInv
  BY TypeInit, TypeStep, PTL DEF Spec
<1> QED BY <1>1, TypeInvTypes, PTL

-----------------------------------------------------------------------------
(* The account of turn metrics. *)

\* Whose metric is being written, told apart for two tasks, and what is known
\* while one task reads and nothing has failed.
TurnInv ==
    /\ \A k \in 1..begun :
          metrics[k] <= 1 /\ (metrics[k] = 1 => inflight # k /\ ~Closing(k))
    /\ \A t \in Tasks : job[t].pc = "metric" => job[t].taken \notin {0, inflight}
    /\ \A t, u \in Tasks :
          job[t].pc = "metric" /\ job[u].pc = "metric" /\ job[t].taken = job[u].taken
             => t = u
    /\ seeds = 0 => job[Seeder] = Idle
    /\ seeds = 0 /\ crashes = 0 /\ faults = 0 =>
          /\ \A k \in 1..begun : metrics[k] = 1 \/ inflight = k \/ Closing(k)
          /\ job[Watch].pc = "metric" => inflight = 0

\* Seeds, crashes and failures are never taken back, and no seed runs unless
\* one was asked for.
CountsGrow ==
    /\ seeds' = 0 => seeds = 0 /\ job'[Seeder] = Idle
    /\ crashes' = 0 => crashes = 0
    /\ faults' = 0 => faults = 0

LEMMA GoToMoves ==
    ASSUME TypeInv, NEW t \in Tasks, NEW pc, GoTo(t, pc)
    PROVE  job'[t].pc = pc /\ \A u \in Tasks \ {t} : job'[u] = job[u]
  BY DEF GoTo, TypeInv, JobsOK, Jobs

LEMMA DoneMoves ==
    ASSUME TypeInv, NEW t \in Tasks, NEW f, Done(t, f)
    PROVE  /\ job'[t].pc \in {"line", "store"}
           /\ \A u \in Tasks \ {t} : job'[u] = job[u]
  BY DEF Done, TypeInv, JobsOK, Jobs

LEMMA OnwardMoves ==
    ASSUME TypeInv, NEW t \in Tasks, Onward(t)
    PROVE  /\ job'[t].pc # "metric"
           /\ \A u \in Tasks \ {t} : job'[u] = job[u]
<1>1. \/ Done(t, FileOf(t))
      \/ \E pc \in {"told", "turn", "call"} : GoTo(t, pc)
  BY DEF Onward
<1> QED BY <1>1, GoToMoves, DoneMoves

\* A step on a task's line leaves the seeds alone.
LEMMA LineCounts ==
    ASSUME TypeInv, TurnInv, NEW t \in Tasks, job[t].pc # "idle",
           \A u \in Tasks \ {t} : job'[u] = job[u],
           seeds' = seeds, crashes' = crashes, faults' = 0 => faults = 0
    PROVE  CountsGrow
<1>1. ASSUME seeds = 0 PROVE job'[Seeder] = Idle
  <2>1. job[Seeder] = Idle /\ t # Seeder
    BY <1>1 DEF TurnInv, Idle
  <2> QED BY <2>1 DEF Tasks
<1> QED BY <1>1 DEF CountsGrow

\* A step that touches neither the turns nor the writing of metrics.
LEMMA TurnQuiet ==
    ASSUME TypeInv, TurnInv, UNCHANGED turnVars, CountsGrow,
           \A u \in Tasks : /\ job'[u].pc = "metric" <=> job[u].pc = "metric"
                            /\ job[u].pc = "metric" => job'[u].taken = job[u].taken
    PROVE  TurnInv'
<1>1. begun' = begun /\ inflight' = inflight /\ metrics' = metrics
  BY DEF turnVars
<1>2. \A k : Closing(k)' <=> Closing(k)
  BY DEF Closing
<1>3. Watch \in Tasks
  BY DEF Tasks
<1> QED BY <1>1, <1>2, <1>3 DEF TurnInv, CountsGrow

\* A task takes the turn in flight.
LEMMA TurnTaken == ASSUME TypeInv, TurnInv, NEW t \in Tasks, TakeTurn(t) PROVE TurnInv'
<1>1. /\ inflight # 0 /\ inflight \in 1..begun /\ begun \in Nat /\ inflight' = 0
      /\ begun' = begun /\ metrics' = metrics /\ job[t].pc \notin {"metric", "idle"}
  BY DEF TakeTurn, Closes, TypeInv, TurnsOK
<1>2. /\ job'[t].pc = "metric" /\ job'[t].taken = inflight
      /\ \A u \in Tasks \ {t} : job'[u] = job[u]
  BY DEF TakeTurn, TypeInv, JobsOK, Jobs
<1>3. CountsGrow
  BY <1>1, <1>2, LineCounts DEF TakeTurn, outerVars
<1>4. \A k : Closing(k)' <=> Closing(k) \/ k = inflight
  BY <1>1, <1>2 DEF Closing
<1>5. \A k \in 1..begun' :
        metrics'[k] <= 1 /\ (metrics'[k] = 1 => inflight' # k /\ ~Closing(k)')
  BY <1>1, <1>4 DEF TurnInv
<1>6. \A u \in Tasks : job'[u].pc = "metric" => job'[u].taken \notin {0, inflight'}
  BY <1>1, <1>2 DEF TurnInv
<1>7. \A v, u \in Tasks :
        job'[v].pc = "metric" /\ job'[u].pc = "metric" /\ job'[v].taken = job'[u].taken
           => v = u
  BY <1>1, <1>2 DEF TurnInv
<1>8. seeds' = 0 /\ crashes' = 0 /\ faults' = 0 =>
        \A k \in 1..begun' : metrics'[k] = 1 \/ inflight' = k \/ Closing(k)'
  BY <1>1, <1>3, <1>4 DEF TurnInv, CountsGrow
<1> QED BY <1>1, <1>3, <1>5, <1>6, <1>7, <1>8 DEF TurnInv, CountsGrow

\* A task opens a turn, or not, when no turn is in flight.
LEMMA TurnOpened == ASSUME TypeInv, TurnInv, NEW t \in Tasks, Open(t) PROVE TurnInv'
<1>1. /\ inflight = 0 /\ begun \in Nat /\ job[t].pc \notin {"metric", "idle"}
      /\ Begins(t) /\ Onward(t)
      /\ metrics' = [k \in 1..begun' |-> IF k > begun THEN 0 ELSE metrics[k]]
      /\ metrics \in [1..begun -> Nat]
  BY DEF Open, Closes, TypeInv, TurnsOK
<1>2. \/ inflight' = begun + 1 /\ begun' = begun + 1
      \/ inflight' = 0 /\ begun' = begun
  BY <1>1 DEF Begins
<1>3. job'[t].pc # "metric" /\ \A u \in Tasks \ {t} : job'[u] = job[u]
  BY <1>1, OnwardMoves
<1>4. CountsGrow
  BY <1>1, <1>3, LineCounts DEF Open, outerVars
<1>5. \A k : Closing(k)' <=> Closing(k)
  BY <1>1, <1>3 DEF Closing
<1>6. \A u \in Tasks : job[u].pc = "metric" => job[u].taken \in 0..begun
  BY LineTypes
<1>7. \A k : Closing(k) => k \in 0..begun
  BY <1>6 DEF Closing
<1>8. \A k \in 1..begun' : \/ k = begun + 1 /\ inflight' = k /\ metrics'[k] = 0
                           \/ k \in 1..begun /\ metrics'[k] = metrics[k] /\ inflight' # k
  BY <1>1, <1>2
<1>9. \A k \in 1..begun' :
        metrics'[k] <= 1 /\ (metrics'[k] = 1 => inflight' # k /\ ~Closing(k)')
  BY <1>5, <1>8 DEF TurnInv
<1>10. \A u \in Tasks : job'[u].pc = "metric" => job'[u].taken \notin {0, inflight'}
  BY <1>1, <1>2, <1>3, <1>6 DEF TurnInv
<1>11. \A v, u \in Tasks :
        job'[v].pc = "metric" /\ job'[u].pc = "metric" /\ job'[v].taken = job'[u].taken
           => v = u
  BY <1>3 DEF TurnInv
<1>12. seeds' = 0 /\ crashes' = 0 /\ faults' = 0 =>
        /\ \A k \in 1..begun' : metrics'[k] = 1 \/ inflight' = k \/ Closing(k)'
        /\ job'[Watch].pc # "metric"
  <2> SUFFICES ASSUME seeds' = 0, crashes' = 0, faults' = 0
               PROVE  /\ \A k \in 1..begun' :
                            metrics'[k] = 1 \/ inflight' = k \/ Closing(k)'
                      /\ job'[Watch].pc # "metric"
    OBVIOUS
  <2>1. seeds = 0 /\ crashes = 0 /\ faults = 0 /\ t # Seeder
    BY <1>1, <1>4 DEF CountsGrow, TurnInv, Idle
  <2>2. t = Watch
    BY <2>1 DEF Tasks
  <2>3. \A k \in 1..begun : metrics[k] = 1 \/ Closing(k)
    BY <1>1, <2>1 DEF TurnInv
  <2> QED BY <1>3, <1>5, <1>8, <2>2, <2>3
<1> QED BY <1>4, <1>9, <1>10, <1>11, <1>12 DEF TurnInv, CountsGrow

\* The metric of a turn is in the ledger, or could not be written.
LEMMA TurnRecorded ==
    ASSUME TypeInv, TurnInv, NEW t \in Tasks, RecordMetric(t) \/ RecordMetricFails(t)
    PROVE  TurnInv'
<1>1. PICK n \in {0, 1} : Recorded(t, n) /\ (n = 0 => faults' = faults + 1)
                         /\ (n = 1 => faults' = faults)
  BY DEF RecordMetric, RecordMetricFails
<1> DEFINE k0 == job[t].taken
<1>2. /\ begun \in Nat /\ job[t].pc = "metric" /\ Begins(t) /\ Onward(t)
      /\ metrics' = [k \in 1..begun' |-> IF k > begun THEN 0
                                         ELSE IF k = k0 THEN metrics[k] + n
                                         ELSE metrics[k]]
      /\ metrics \in [1..begun -> Nat] /\ inflight \in 0..begun /\ faults \in Nat
  BY <1>1, DispatcherAssumption DEF Recorded, TypeInv, TurnsOK, WorldOK
<1>3. k0 \in 1..begun /\ k0 # inflight /\ Closing(k0)
  BY <1>2, LineTypes DEF TurnInv, Closing
<1>4. metrics[k0] = 0
  <2>1. metrics[k0] \in Nat /\ metrics[k0] <= 1 /\ metrics[k0] # 1
    BY <1>2, <1>3 DEF TurnInv
  <2> QED BY <2>1
<1> HIDE DEF k0
<1>5. \/ inflight' = begun + 1 /\ begun' = begun + 1
      \/ inflight' = inflight /\ begun' = begun
  BY <1>2 DEF Begins
<1>6. job'[t].pc # "metric" /\ \A u \in Tasks \ {t} : job'[u] = job[u]
  BY <1>2, OnwardMoves
<1>7. CountsGrow
  BY <1>1, <1>2, <1>6, LineCounts DEF Recorded, outerVars
<1>8. /\ \A k : Closing(k)' <=> Closing(k) /\ k # k0
      /\ \A u \in Tasks : job[u].pc = "metric" => job[u].taken \in 0..begun
  <2>1. \A u \in Tasks \ {t} : job[u].pc = "metric" => job[u].taken # k0
    BY <1>2 DEF TurnInv, k0
  <2>2. \A k : Closing(k) /\ k # k0 => Closing(k)'
    BY <1>6 DEF Closing, k0
  <2>3. \A k : Closing(k)' => Closing(k) /\ k # k0
    BY <1>6, <2>1 DEF Closing
  <2> QED BY <2>2, <2>3, LineTypes
<1>9. \A k \in 1..begun' :
        \/ k = begun + 1 /\ inflight' = k /\ metrics'[k] = 0
        \/ k = k0 /\ inflight' # k /\ metrics'[k] = n
        \/ k \in 1..begun /\ k # k0 /\ metrics'[k] = metrics[k]
           /\ (inflight' = k => inflight = k)
  BY <1>2, <1>3, <1>4, <1>5, SMTT(30)
<1>10. \A k \in 1..begun' :
        metrics'[k] <= 1 /\ (metrics'[k] = 1 => inflight' # k /\ ~Closing(k)')
  BY <1>8, <1>9 DEF TurnInv
<1>11. \A u \in Tasks : job'[u].pc = "metric" => job'[u].taken \notin {0, inflight'}
  BY <1>2, <1>5, <1>6, <1>8 DEF TurnInv
<1>12. \A v, u \in Tasks :
        job'[v].pc = "metric" /\ job'[u].pc = "metric" /\ job'[v].taken = job'[u].taken
           => v = u
  BY <1>6 DEF TurnInv
<1>13. seeds' = 0 /\ crashes' = 0 /\ faults' = 0 =>
        /\ \A k \in 1..begun' : metrics'[k] = 1 \/ inflight' = k \/ Closing(k)'
        /\ job'[Watch].pc # "metric"
  <2> SUFFICES ASSUME seeds' = 0, crashes' = 0, faults' = 0
               PROVE  /\ \A k \in 1..begun' :
                            metrics'[k] = 1 \/ inflight' = k \/ Closing(k)'
                      /\ job'[Watch].pc # "metric"
    OBVIOUS
  <2>1. seeds = 0 /\ crashes = 0 /\ faults = 0 /\ n = 1 /\ t # Seeder
    BY <1>1, <1>2, <1>7 DEF CountsGrow, TurnInv, Idle
  <2>2. t = Watch /\ inflight = 0
    BY <1>2, <2>1 DEF Tasks, TurnInv
  <2>3. \A k \in 1..begun : metrics[k] = 1 \/ Closing(k)
    BY <2>1, <2>2 DEF TurnInv
  <2> QED BY <1>6, <1>8, <1>9, <2>1, <2>2, <2>3
<1> QED BY <1>7, <1>10, <1>11, <1>12, <1>13 DEF TurnInv, CountsGrow

LEMMA TurnCrash == ASSUME TypeInv, TurnInv, Crash PROVE TurnInv'
<1>1. /\ inflight' = 0 /\ begun' = begun /\ metrics' = metrics
      /\ \A t \in Tasks : job'[t] = Idle
      /\ crashes' # 0 /\ Seeder \in Tasks
  BY DispatcherAssumption DEF Crash, TypeInv, WorldOK, Tasks
<1>2. \A k : ~Closing(k)'
  BY <1>1 DEF Closing, Idle
<1> QED BY <1>1, <1>2 DEF TurnInv, TypeInv, TurnsOK, Idle

\* Steps that start to read or write a line, or make the workers.
LEMMA TurnRead ==
    ASSUME TypeInv, TurnInv,
           Write \/ StartPriming \/ StartHiding \/ MakeWorkers \/ Tails \/ StartSeed
    PROVE  TurnInv'
<1>1. UNCHANGED turnVars /\ UNCHANGED <<crashes, faults>>
  BY DEF Write, StartPriming, StartHiding, MakeWorkers, Tails, StartSeed, outerVars
<1>2. CASE job' = job /\ seeds' = seeds
  <2>1. CountsGrow
    BY <1>1, <1>2 DEF CountsGrow, TurnInv
  <2> QED BY <1>1, <1>2, <2>1, TurnQuiet
<1>3. CASE /\ seeds' = seeds
           /\ \E j : j.pc = "line" /\ job[Watch] = Idle /\ job' = [job EXCEPT ![Watch] = j]
  <2>1. PICK j : /\ j.pc = "line" /\ job[Watch] = Idle
                 /\ job' = [job EXCEPT ![Watch] = j]
    BY <1>3
  <2>2. job'[Watch].pc = "line" /\ \A u \in Tasks \ {Watch} : job'[u] = job[u]
    BY <2>1 DEF TypeInv, JobsOK, Tasks
  <2>3. CountsGrow
    BY <1>1, <1>3, <2>2, DispatcherAssumption DEF CountsGrow, TurnInv, Tasks
  <2>4. \A u \in Tasks : /\ job'[u].pc = "metric" <=> job[u].pc = "metric"
                         /\ job[u].pc = "metric" => job'[u].taken = job[u].taken
    BY <2>1, <2>2 DEF Idle
  <2> QED BY <1>1, <2>3, <2>4, TurnQuiet
<1>4. CASE StartSeed
  <2>1. /\ job'[Seeder].pc = "line" /\ job[Seeder] = Idle
        /\ \A u \in Tasks \ {Seeder} : job'[u] = job[u]
    BY <1>4 DEF StartSeed, Reading, TypeInv, JobsOK, Tasks
  <2>2. CountsGrow
    <3>1. seeds' # 0
      BY <1>4, DispatcherAssumption DEF StartSeed, TypeInv, WorldOK
    <3> QED BY <1>1, <3>1 DEF CountsGrow
  <2>3. \A u \in Tasks : /\ job'[u].pc = "metric" <=> job[u].pc = "metric"
                         /\ job[u].pc = "metric" => job'[u].taken = job[u].taken
    BY <2>1 DEF Idle
  <2> QED BY <1>1, <2>2, <2>3, TurnQuiet
<1>5. \/ StartSeed
      \/ job' = job /\ seeds' = seeds
      \/ /\ seeds' = seeds
         /\ \E j : j.pc = "line" /\ job[Watch] = Idle /\ job' = [job EXCEPT ![Watch] = j]
  <2>1. CASE StartPriming
    <3>1. job[Watch] = Idle
      BY <2>1 DEF StartPriming, TypeInv, JobsOK, Tasks
    <3>2. /\ Reading(1, stored).pc = "line"
          /\ job' = [job EXCEPT ![Watch] = Reading(1, stored)] /\ seeds' = seeds
      BY <2>1 DEF StartPriming, Reading, outerVars
    <3> QED BY <3>1, <3>2
  <2>2. CASE Tails
    <3>1. PICK f, from : job' = [job EXCEPT ![Watch] = Reading(f, from)]
      BY <2>2 DEF Tails
    <3>2. Reading(f, from).pc = "line" /\ job[Watch] = Idle /\ seeds' = seeds
      BY <2>2 DEF Tails, Reading, outerVars
    <3> QED BY <3>1, <3>2
  <2>3. CASE Write \/ StartHiding \/ MakeWorkers
    BY <2>3 DEF Write, StartHiding, MakeWorkers, outerVars
  <2> QED BY <2>1, <2>2, <2>3
<1> QED BY <1>2, <1>3, <1>4, <1>5

\* Steps on a line that have nothing to do with its turn.
LEMMA TurnLine ==
    ASSUME TypeInv, TurnInv, NEW t \in Tasks,
           \/ CountTurn(t) \/ Extend(t) \/ PublishTurn(t) \/ PublishTurnFails(t)
           \/ Rest(t) \/ Store(t)
    PROVE  TurnInv'
<1>1. /\ job[t].pc \notin {"idle", "metric"} /\ UNCHANGED turnVars
      /\ seeds' = seeds /\ crashes' = crashes /\ faults' \in {faults, faults + 1}
  BY DEF CountTurn, Extend, PublishTurn, PublishTurnFails, Published, Rest, Store,
         NoteCall, Interrupt, SameMode, ChangeMode, ModeChanged, AtMode, outerVars
<1>2. job'[t].pc # "metric" /\ \A u \in Tasks \ {t} : job'[u] = job[u]
  <2>1. CASE Store(t)
    BY <2>1 DEF Store, Idle, TypeInv, JobsOK
  <2>2. CASE Extend(t)
    BY <2>2, OnwardMoves DEF Extend
  <2>3. CASE (\E f : Done(t, f)) \/ \E pc \in Stages \ {"metric"} : GoTo(t, pc)
    BY <2>3, DoneMoves, GoToMoves
  <2>4. \/ Store(t) \/ Extend(t) \/ (\E f : Done(t, f))
        \/ \E pc \in Stages \ {"metric"} : GoTo(t, pc)
    <3>1. CASE CountTurn(t)
      BY <3>1 DEF CountTurn, Stages
    <3>2. CASE PublishTurn(t) \/ PublishTurnFails(t)
      BY <3>2 DEF PublishTurn, PublishTurnFails, Published, Stages
    <3>3. CASE NoteCall(t) \/ SameMode(t) \/ ModeChanged(t)
      BY <3>3 DEF NoteCall, SameMode, ModeChanged
    <3>4. CASE Interrupt(t) \/ ChangeMode(t)
      BY <3>4 DEF Interrupt, ChangeMode, Stages
    <3> QED BY <3>1, <3>2, <3>3, <3>4 DEF Rest
  <2> QED BY <2>1, <2>2, <2>3, <2>4
<1>3. CountsGrow
  <2>1. faults' = 0 => faults = 0
    BY <1>1 DEF TypeInv, WorldOK
  <2> QED BY <1>1, <1>2, <2>1, LineCounts
<1>4. \A u \in Tasks : /\ job'[u].pc = "metric" <=> job[u].pc = "metric"
                       /\ job[u].pc = "metric" => job'[u].taken = job[u].taken
  BY <1>1, <1>2
<1> QED BY <1>1, <1>3, <1>4, TurnQuiet

LEMMA TurnInit == Init => TurnInv
  BY DEF Init, TurnInv, Closing, Idle, Tasks

LEMMA TurnStep == TypeInv /\ TurnInv /\ [Next]_vars => TurnInv'
<1> SUFFICES ASSUME TypeInv, TurnInv, [Next]_vars PROVE TurnInv'
  OBVIOUS
<1>1. CASE UNCHANGED vars
  <2>1. CountsGrow /\ UNCHANGED turnVars /\ job' = job
    BY <1>1 DEF vars, outerVars, CountsGrow, TurnInv
  <2> QED BY <2>1, TurnQuiet
<1>2. ASSUME NEW t \in Tasks, Turn(t) \/ Rest(t) \/ Store(t) PROVE TurnInv'
  BY <1>2, TurnTaken, TurnOpened, TurnRecorded, TurnLine DEF Turn
<1> QED BY <1>1, <1>2, TurnCrash, TurnRead DEF Next

\* The metric of a turn is recorded at most once, and while one task reads and
\* nothing fails no turn that began goes without one: what _close_turn_metric
\* means by idempotent.
THEOREM TurnsAreAccounted == Spec => []TurnsAccounted
<1>1. TypeInv /\ TurnInv => TurnsAccounted
  BY DEF TurnInv, TurnsAccounted
<1>2. Spec => [](TypeInv /\ TurnInv)
  BY TypeInit, TypeStep, TurnInit, TurnStep, PTL DEF Spec
<1> QED BY <1>1, <1>2, PTL

-----------------------------------------------------------------------------
(* Every turn shown: whatever is read and by whom. *)

\* What a line is when a task is at a stage of it.
StageOK(j, txt) ==
    /\ j.pc = "idle" => j = Idle
    /\ j.pc \in {"open", "turn", "call"} => txt[j.at].kind = "assistant"
    /\ j.pc = "metric" => txt[j.at].kind \in {"assistant", "prompt"}
    /\ j.pc \in {"told", "change"} => txt[j.at].kind # "assistant"
    /\ j.pc = "turn" => txt[j.at].msg # None /\ txt[j.at].show
    /\ j.pc = "store" => j.at = j.end

StageInv == text \in Transcripts /\ \A t \in Tasks : StageOK(job[t], text)

ShowsTurn(i) == text[i].kind = "assistant" /\ text[i].msg # None /\ text[i].show

\* Lines up to n that priming did not hide have their entry.
ShownTo(n) ==
    \A i \in 1..Len(text) : i <= n /\ i \notin hidden /\ ShowsTurn(i) =>
        entries[text[i].msg] > 0

\* The lines of its chunk that a task is done with, as far as turns go.
Got(j) == CASE j.pc = "store" -> j.end [] j.pc = "call" -> j.at [] OTHER -> j.at - 1

\* Wherever an offset is, in the ledger, in a FileState or in a task, the turns
\* before it are shown; and the turn shown last has its entry.
ShownInv ==
    faults = 0 =>
        /\ emitted # None => entries[emitted] > 0
        /\ ShownTo(stored)
        /\ \A f \in 1..Len(files) : ShownTo(files[f].at)
        /\ \A t \in Tasks : job[t].pc # "idle" => ShownTo(Got(job[t]))

-----------------------------------------------------------------------------
(* One reader: without seeds and crashes a single task reads each line once. *)

Alone == seeds = 0 /\ crashes = 0

FileMode == IF reg = 0 THEN None ELSE files[reg].mode
FileNames == IF reg = 0 THEN <<>> ELSE files[reg].names

\* Where the reader is, and that priming hides lines before anything is read.
FrontInv ==
    /\ life = "down" => reg = 0
    /\ Alone =>
         /\ job[Seeder] = Idle
         /\ life = "down" => stored = 0 /\ hidden = {} /\ changes = <<>> /\ stops = <<>>
         /\ \A i \in hidden : i <= Handled
         /\ job[Watch].pc = "idle" /\ reg # 0 => files[reg].at = stored
         /\ job[Watch].pc # "idle" => job[Watch].f = reg /\ reg # 0
         /\ job[Watch].pc = "store" => files[reg].at = job[Watch].end

\* Lines whose turn entry, if they begin one, is published.
Showed == IF job[Watch].pc = "call" THEN job[Watch].at ELSE Handled

BlockOf(i, m) == text[i].kind = "assistant" /\ text[i].msg = m

\* A message with an entry has a block behind the reader, and unless it was
\* shown last another message has one behind that.
Past(m) ==
    \E i \in 1..Showed :
        /\ BlockOf(i, m)
        /\ \/ emitted = m
           \/ \E j \in i + 1..Showed :
                 text[j].kind = "assistant" /\ text[j].msg \notin {m, None}

OnceInv ==
    Alone =>
        /\ \A m \in Messages : Together(m) =>
              entries[m] <= 1 /\ (entries[m] = 1 => Past(m))
        /\ job[Watch].pc = "turn" => LineOf(Watch).msg # emitted

\* The changes published are those of the lines up to n.
ChangesTo(n) ==
    /\ Len(changes) = Cardinality(Turns(n))
    /\ \A i \in Turns(n) : \E p \in 1..i - 1 :
          /\ Turned(p, i)
          /\ changes[Cardinality(Turns(i))] = <<text[p].mode, text[i].mode>>

\* m is the mode of the last line with one up to line n.
LastMode(m, n) ==
    IF m = None THEN \A i \in 1..n : ~HasMode(i)
    ELSE \E p \in 1..n : /\ HasMode(p) /\ text[p].mode = m
                         /\ \A j \in p + 1..n : ~HasMode(j)

ModeInv ==
    Alone =>
        /\ ChangesTo(IF job[Watch].pc = "change" THEN job[Watch].at ELSE Handled)
        /\ LastMode(FileMode, Handled)

\* Lines whose interruption, if they tell one, is published.
ToldTo ==
    IF job[Watch].pc \in {"told", "change"} THEN job[Watch].at ELSE Handled

\* Call c is in names, with at most n - 1 calls after it.
Held(names, c, n) ==
    \E q \in 1..Len(names) : names[q] = c /\ Len(names) - q + 1 <= n

\* Names are of calls read up to line n, and among them is every such call that
\* was not interrupted up to line u and not pushed out.
KnownIn(names, n) ==
    \A q \in 1..Len(names) :
        \E k \in 1..n \ hidden : Called(k) /\ text[k].call = names[q]

KeptIn(names, n, u) ==
    \A k \in 1..n \ hidden :
        /\ OnlyCall(k, n)
        /\ \A l \in k..u : text[l].stop # text[k].call
        /\ Cardinality(CallsSince(k, n)) <= Cap + 1 - Drop
        => Held(names, text[k].call, Cardinality(CallsSince(k, n)))

\* The cache of the reader has the names it should.
NameInv ==
    Alone =>
        /\ KnownIn(FileNames, Handled) /\ KeptIn(FileNames, Handled, ToldTo)
        /\ InterruptsNamed

-----------------------------------------------------------------------------
(* Stages. *)

\* A task goes on in its line.
LEMMA GoToIs ==
    ASSUME TypeInv, NEW t \in Tasks, NEW pc, GoTo(t, pc)
    PROVE  /\ job'[t].pc = pc /\ job'[t].at = job[t].at /\ job'[t].end = job[t].end
           /\ job'[t].f = job[t].f
           /\ \A u \in Tasks \ {t} : job'[u] = job[u]
  BY DEF GoTo, TypeInv, JobsOK, Jobs

\* A task goes on to the next line, or ends its chunk.
LEMMA DoneIs ==
    ASSUME TypeInv, NEW t \in Tasks, job[t].pc # "idle", NEW f \in FileStates,
           Done(t, f)
    PROVE  /\ \A u \in Tasks \ {t} : job'[u] = job[u]
           /\ job'[t].f = job[t].f /\ job'[t].end = job[t].end
           /\ job[t].at = job[t].end =>
                 job'[t].pc = "store" /\ job'[t].at = job[t].at
           /\ job[t].at # job[t].end =>
                 job'[t].pc = "line" /\ job'[t].at = job[t].at + 1
           /\ Len(files') = Len(files)
           /\ \A k \in 1..Len(files) : k # job[t].f => files'[k] = files[k]
           /\ files'[job[t].f].at = IF job[t].at = job[t].end THEN job[t].end ELSE f.at
           /\ files'[job[t].f].mode = f.mode /\ files'[job[t].f].names = f.names
<1> DEFINE last == job[t].at = job[t].end
           g == IF last THEN [f EXCEPT !.at = job[t].end] ELSE f
<1>1. /\ job \in [Tasks -> Jobs] /\ job[t] \in Jobs /\ job[t].f \in 1..Len(files)
      /\ files \in Seq(FileStates)
  BY LineTypes DEF TypeInv, JobsOK, FilesOK
<1>2. /\ job' = [job EXCEPT ![t].pc = IF last THEN "store" ELSE "line",
                            ![t].at = IF last THEN @ ELSE @ + 1]
      /\ files' = [files EXCEPT ![job[t].f] = g]
  BY DEF Done
<1>3. /\ \A u \in Tasks \ {t} : job'[u] = job[u]
      /\ job'[t].f = job[t].f /\ job'[t].end = job[t].end
      /\ last => job'[t].pc = "store" /\ job'[t].at = job[t].at
      /\ ~last => job'[t].pc = "line" /\ job'[t].at = job[t].at + 1
  <2> HIDE DEF last
  <2> QED BY <1>1, <1>2 DEF Jobs
<1>4. /\ g.at = IF last THEN job[t].end ELSE f.at
      /\ g.mode = f.mode /\ g.names = f.names /\ g \in FileStates
  BY <1>1 DEF FileStates, Jobs
<1> HIDE DEF g
<1>5. /\ Len(files') = Len(files)
      /\ \A k \in 1..Len(files) : files'[k] = IF k = job[t].f THEN g ELSE files[k]
  BY <1>1, <1>2, <1>4, ExceptSeq
<1> QED BY <1>1, <1>3, <1>4, <1>5

\* Where a line goes after its turn has been seen to.
LEMMA OnwardIs ==
    ASSUME NEW t, Onward(t), LineOf(t).kind \in {"assistant", "prompt"}
    PROVE  \/ Done(t, FileOf(t)) /\ LineOf(t).kind = "assistant" /\ ~Shows(t)
              /\ LineOf(t).call = None
           \/ files' = files /\ GoTo(t, "told") /\ LineOf(t).kind = "prompt"
           \/ files' = files /\ GoTo(t, "turn") /\ Shows(t)
           \/ files' = files /\ GoTo(t, "call") /\ ~Shows(t) /\ LineOf(t).call # None
              /\ LineOf(t).kind = "assistant"
  BY DEF Onward

\* The stage of a task that goes through one of these steps.
LEMMA StageLine ==
    ASSUME TypeInv, StageInv, NEW t \in Tasks, Turn(t) \/ Rest(t) \/ Store(t)
    PROVE  StageInv'
<1>1. /\ job[t].pc # "idle" /\ StageOK(job[t], text) /\ job[t] \in Jobs
      /\ LineOf(t) = text[job[t].at] /\ FileOf(t) \in FileStates
      /\ LineOf(t) \in Lines
  <2>1. job[t].pc # "idle"
    BY DEF Turn, Rest, Store, CountTurn, TakeTurn, Open, RecordMetric, Closes,
           RecordMetricFails, Recorded, Extend, PublishTurn, PublishTurnFails,
           Published, NoteCall, Interrupt, SameMode, ChangeMode, ModeChanged, AtMode
  <2> QED BY <2>1, LineTypes DEF StageInv, LineOf
<1>2. text' = text
  BY DEF Turn, Rest, Store, CountTurn, TakeTurn, Open, RecordMetric,
         RecordMetricFails, Recorded, Extend, PublishTurn, PublishTurnFails,
         Published, NoteCall, Interrupt, SameMode, ChangeMode, ModeChanged, outerVars
<1>3. ASSUME \A u \in Tasks \ {t} : job'[u] = job[u], StageOK(job'[t], text)
      PROVE  StageInv'
  BY <1>2, <1>3 DEF StageInv
<1>4. ASSUME NEW f \in FileStates, Done(t, f) PROVE StageInv'
  <2>1. StageOK(job'[t], text)
    BY <1>1, <1>4, DoneIs DEF StageOK
  <2> QED BY <1>1, <1>3, <1>4, <2>1, DoneIs
<1>5. ASSUME Onward(t), LineOf(t).kind \in {"assistant", "prompt"} PROVE StageInv'
  <2>1. CASE Done(t, FileOf(t))
    BY <1>1, <1>4, <2>1
  <2>2. ASSUME NEW pc \in {"told", "turn", "call"}, GoTo(t, pc),
               pc = "told" => LineOf(t).kind = "prompt",
               pc = "turn" => Shows(t),
               pc = "call" => LineOf(t).kind = "assistant"
        PROVE  StageInv'
    <3>1. StageOK(job'[t], text)
      BY <1>1, <2>2, GoToIs DEF StageOK, Shows
    <3> QED BY <1>3, <2>2, <3>1, GoToIs
  <2> QED BY <1>5, <2>1, <2>2, OnwardIs
<1>6. CASE Store(t)
  <2>1. job'[t] = Idle /\ \A u \in Tasks \ {t} : job'[u] = job[u]
    BY <1>6 DEF Store, TypeInv, JobsOK
  <2> QED BY <1>3, <2>1 DEF StageOK, Idle
<1>7. CASE CountTurn(t)
  <2>1. GoTo(t, "open") /\ LineOf(t).kind = "assistant"
    BY <1>7 DEF CountTurn, IsNew
  <2>2. StageOK(job'[t], text)
    BY <1>1, <2>1, GoToIs DEF StageOK
  <2> QED BY <1>3, <2>1, <2>2, GoToIs
<1>8. CASE TakeTurn(t)
  <2>1. /\ job'[t].pc = "metric" /\ job'[t].at = job[t].at
        /\ \A u \in Tasks \ {t} : job'[u] = job[u]
    BY <1>8 DEF TakeTurn, TypeInv, JobsOK, Jobs
  <2>2. LineOf(t).kind \in {"assistant", "prompt"}
    BY <1>1, <1>8 DEF TakeTurn, Closes, StageOK
  <2> QED BY <1>1, <1>3, <2>1, <2>2 DEF StageOK
<1>9. CASE Open(t) \/ RecordMetric(t) \/ RecordMetricFails(t) \/ Extend(t)
  <2>1. LineOf(t).kind \in {"assistant", "prompt"} /\ Onward(t)
    BY <1>1, <1>9
       DEF Open, RecordMetric, RecordMetricFails, Recorded, Extend, Closes, StageOK
  <2> QED BY <1>5, <2>1
<1>10. CASE PublishTurn(t) \/ PublishTurnFails(t)
  <2>1. Done(t, FileOf(t)) \/ (GoTo(t, "call") /\ LineOf(t).kind = "assistant")
    BY <1>1, <1>10 DEF PublishTurn, PublishTurnFails, Published, StageOK
  <2>2. CASE GoTo(t, "call") /\ LineOf(t).kind = "assistant"
    <3>1. StageOK(job'[t], text)
      BY <1>1, <2>2, GoToIs DEF StageOK
    <3> QED BY <1>3, <2>2, <3>1, GoToIs
  <2> QED BY <1>1, <1>4, <2>1, <2>2
<1>11. CASE NoteCall(t)
  <2>1. LineOf(t).call # None /\ job[t].pc = "call"
    BY <1>1, <1>11, LineTypes DEF NoteCall, JobOK
  <2>2. Named(FileOf(t).names, LineOf(t).call) \in Seq(Calls)
    BY <1>1, <2>1, LineTypes, NamedTypes DEF Lines, FileStates
  <2>3. [FileOf(t) EXCEPT !.names = Named(@, LineOf(t).call)] \in FileStates
    BY <1>1, <2>2 DEF FileStates
  <2> QED BY <1>4, <1>11, <2>3 DEF NoteCall
<1>12. CASE SameMode(t) \/ ModeChanged(t)
  <2>1. KeepMode(t) \in FileStates
    BY <1>1 DEF KeepMode, FileStates, Lines
  <2> QED BY <1>4, <1>12, <2>1 DEF SameMode, ModeChanged
<1>13. CASE Interrupt(t) \/ ChangeMode(t)
  <2>1. PICK pc \in {"told", "change"} : GoTo(t, pc)
    BY <1>13 DEF Interrupt, ChangeMode
  <2>2. LineOf(t).kind # "assistant"
    BY <1>1, <1>13 DEF Interrupt, ChangeMode, AtMode, StageOK
  <2>3. StageOK(job'[t], text)
    BY <1>1, <2>1, <2>2, GoToIs DEF StageOK
  <2> QED BY <1>3, <2>1, <2>3, GoToIs
<1> QED BY <1>6, <1>7, <1>8, <1>9, <1>10, <1>11, <1>12, <1>13 DEF Turn, Rest

\* A task starts to read after line from.
LEMMA ReadingIs ==
    ASSUME NEW f, NEW from \in Nat
    PROVE  /\ Reading(f, from).pc = "line" /\ Reading(f, from).f = f
           /\ Reading(f, from).at = from + 1 /\ Reading(f, from).end = written
           /\ \A txt : StageOK(Reading(f, from), txt)
  BY DEF Reading, StageOK

LEMMA StageStep ==
    ASSUME TypeInv, StageInv, [Next]_vars
    PROVE  StageInv'
<1>1. CASE UNCHANGED vars
  BY <1>1 DEF vars, outerVars, StageInv
<1>2. CASE Write \/ StartHiding \/ MakeWorkers
  BY <1>2 DEF Write, StartHiding, MakeWorkers, outerVars, StageInv
<1>3. ASSUME text' = text, NEW t \in Tasks, NEW f, NEW from \in Nat,
             job' = [job EXCEPT ![t] = Reading(f, from)]
      PROVE  StageInv'
  <2>1. job \in [Tasks -> Jobs]
    BY DEF TypeInv, JobsOK
  <2>2. job'[t] = Reading(f, from) /\ \A u \in Tasks \ {t} : job'[u] = job[u]
    BY <1>3, <2>1
  <2> QED BY <1>3, <2>2, ReadingIs DEF StageInv
<1>4. CASE StartPriming
  <2>1. stored \in Nat /\ Watch \in Tasks /\ text' = text
        /\ job' = [job EXCEPT ![Watch] = Reading(1, stored)]
    BY <1>4 DEF StartPriming, outerVars, Tasks, TypeInv, WorldOK
  <2> QED BY <1>3, <2>1
<1>5. CASE Tails
  <2>1. ASSUME reg # 0 PROVE files[reg].at \in Nat
    <3>1. files[reg] \in FileStates
      BY <2>1, ElementOfSeq DEF TypeInv, FilesOK
    <3> QED BY <3>1 DEF FileStates
  <2>2. stored \in Nat /\ Watch \in Tasks /\ text' = text
    BY <1>5 DEF Tails, outerVars, Tasks, TypeInv, WorldOK
  <2>3. \E f : \E from \in Nat : job' = [job EXCEPT ![Watch] = Reading(f, from)]
    BY <1>5, <2>1, <2>2 DEF Tails
  <2> QED BY <1>3, <2>2, <2>3
<1>6. CASE StartSeed
  <2>1. Seeder \in Tasks /\ text' = text /\ 0 \in Nat
        /\ job' = [job EXCEPT ![Seeder] = Reading(Len(files) + 1, 0)]
    BY <1>6 DEF StartSeed, Tasks
  <2> QED BY <1>3, <2>1
<1>7. CASE Crash
  BY <1>7 DEF Crash, StageInv, StageOK, Idle
<1> QED BY <1>1, <1>2, <1>4, <1>5, <1>6, <1>7, StageLine DEF Next

-----------------------------------------------------------------------------
(* Every turn shown. *)

\* The transcript stays and the feed grows.
FeedGrows ==
    /\ text' = text /\ hidden \subseteq hidden'
    /\ \A m \in Messages : entries'[m] >= entries[m]
    /\ faults' = 0 => faults = 0

LEMMA MsgTypes ==
    ASSUME TypeInv, NEW i \in 1..Len(text), ShowsTurn(i)
    PROVE  text[i].msg \in Messages /\ entries[text[i].msg] \in Nat
<1>1. text[i] \in Lines
  BY ElementOfSeq DEF TypeInv, WorldOK
<1> QED BY <1>1 DEF Lines, ShowsTurn, TypeInv, HistoryOK

LEMMA ShownKept ==
    ASSUME TypeInv, TypeInv', FeedGrows
    PROVE  \A n : ShownTo(n) => ShownTo(n)'
<1> SUFFICES ASSUME NEW n, ShownTo(n), NEW i \in 1..Len(text), i <= n, i \notin hidden',
                    ShowsTurn(i)
             PROVE  entries'[text[i].msg] > 0
  BY DEF ShownTo, FeedGrows, ShowsTurn
<1>1. text[i].msg \in Messages /\ entries[text[i].msg] \in Nat
  BY MsgTypes
<1>2. entries[text[i].msg] > 0 /\ entries'[text[i].msg] \in Nat
  BY <1>1 DEF ShownTo, FeedGrows, TypeInv, HistoryOK
<1> QED BY <1>1, <1>2 DEF FeedGrows

\* The line a task is at shows no turn, or its turn has an entry.
LineShown(t) ==
    ShowsTurn(job[t].at) /\ job[t].at \notin hidden => entries'[LineOf(t).msg] > 0

LEMMA ShownLine ==
    ASSUME TypeInv, TypeInv', FeedGrows, NEW t \in Tasks, job[t].pc # "idle",
           ShownTo(Got(job[t])), job[t].pc # "store", LineShown(t)
    PROVE  \A n : n = job[t].at => ShownTo(n)'
<1>1. job[t].at \in Nat
  BY LineTypes DEF Jobs
<1>2. CASE job[t].pc = "call"
  BY <1>2, ShownKept DEF Got
<1>3. CASE job[t].pc # "call"
  <2>1. ShownTo(job[t].at - 1)
    BY <1>3 DEF Got
  <2>2. \A n : n = job[t].at - 1 => ShownTo(n)'
    BY <2>1, ShownKept
  <2>3. \A n : n = job[t].at - 1 =>
           \A i \in 1..Len(text) : i <= n /\ i \notin hidden' /\ ShowsTurn(i) =>
               entries'[text[i].msg] > 0
    BY <2>2 DEF ShownTo, FeedGrows, ShowsTurn
  <2>4. \A i \in 1..Len(text) : i <= job[t].at /\ i \notin hidden' /\ ShowsTurn(i) =>
               entries'[text[i].msg] > 0
    <3> SUFFICES ASSUME NEW i \in 1..Len(text), i <= job[t].at, i \notin hidden',
                        ShowsTurn(i)
                 PROVE  entries'[text[i].msg] > 0
      OBVIOUS
    <3>1. i \notin hidden
      BY DEF FeedGrows
    <3>2. CASE i = job[t].at
      BY <3>1, <3>2 DEF LineShown, LineOf
    <3>3. CASE i <= job[t].at - 1
      BY <2>3, <3>3
    <3> QED BY <1>1, <3>2, <3>3
  <2> QED BY <2>4 DEF ShownTo, FeedGrows, ShowsTurn
<1> QED BY <1>2, <1>3

\* What the steps on a line leave to be shown.
LEMMA ShownDone ==
    ASSUME TypeInv, TypeInv', StageInv, ShownInv, FeedGrows, NEW t \in Tasks,
           job[t].pc \notin {"idle", "store"}, NEW f \in FileStates,
           f.at = FileOf(t).at, Done(t, f), LineShown(t), stored' = stored,
           faults' = 0 /\ emitted' # None => entries'[emitted'] > 0
    PROVE  ShownInv'
<1> SUFFICES ASSUME faults' = 0 PROVE ShownInv'
  BY DEF ShownInv
<1>1. faults = 0 /\ ShownTo(Got(job[t]))
  BY DEF FeedGrows, ShownInv
<1>2. \A n : n = job[t].at => ShownTo(n)'
  BY <1>1, ShownLine
<1>3. \A n : ShownTo(n) => ShownTo(n)'
  BY ShownKept
<1>4. job[t].at \in Nat /\ job[t].f \in 1..Len(files)
  BY LineTypes DEF Jobs
<1>5. Got(job'[t]) = job[t].at
  BY <1>4, DoneIs DEF Got
<1>6. \A u \in Tasks : job'[u].pc # "idle" =>
         \A n : n = Got(job'[u]) => ShownTo(n)'
  BY <1>1, <1>2, <1>3, <1>5, DoneIs DEF ShownInv
<1>7. \A k \in 1..Len(files) : \A n : n = files'[k].at => ShownTo(n)'
  <2> SUFFICES ASSUME NEW k \in 1..Len(files), NEW n, n = files'[k].at PROVE ShownTo(n)'
    OBVIOUS
  <2>1. CASE k = job[t].f
    BY <1>1, <1>2, <1>3, <2>1, DoneIs DEF ShownInv, FileOf
  <2>2. CASE k # job[t].f
    BY <1>1, <1>3, <2>2, DoneIs DEF ShownInv
  <2> QED BY <2>1, <2>2
<1>8. ShownTo(stored)'
  BY <1>1, <1>3 DEF ShownInv
<1>9. Len(files') = Len(files)
  BY DoneIs
<1> QED BY <1>6, <1>7, <1>8, <1>9 DEF ShownInv

LEMMA ShownGoTo ==
    ASSUME TypeInv, TypeInv', StageInv, ShownInv, FeedGrows, NEW t \in Tasks,
           job[t].pc \notin {"idle", "store"}, NEW pc \in Stages \ {"store"},
           GoTo(t, pc), pc = "call" => LineShown(t), stored' = stored,
           job[t].pc # "call", Len(files') = Len(files),
           \A k \in 1..Len(files) : files'[k].at = files[k].at,
           faults' = 0 /\ emitted' # None => entries'[emitted'] > 0
    PROVE  ShownInv'
<1> SUFFICES ASSUME faults' = 0 PROVE ShownInv'
  BY DEF ShownInv
<1>1. faults = 0 /\ ShownTo(Got(job[t]))
  BY DEF FeedGrows, ShownInv
<1>2. pc = "call" => \A n : n = job[t].at => ShownTo(n)'
  BY <1>1, ShownLine
<1>3. \A n : ShownTo(n) => ShownTo(n)'
  BY ShownKept
<1>4. \A u \in Tasks : job'[u].pc # "idle" =>
         \A n : n = Got(job'[u]) => ShownTo(n)'
  <2>1. CASE pc = "call"
    <3>1. Got(job'[t]) = job[t].at
      BY <2>1, GoToIs DEF Got
    <3> QED BY <1>1, <1>2, <1>3, <2>1, <3>1, GoToIs DEF ShownInv
  <2>2. CASE pc # "call"
    <3>1. Got(job'[t]) = Got(job[t])
      BY <2>2, GoToIs DEF Got, Stages
    <3> QED BY <1>1, <1>3, <3>1, GoToIs DEF ShownInv
  <2> QED BY <2>1, <2>2
<1>5. \A k \in 1..Len(files) : \A n : n = files'[k].at => ShownTo(n)'
  BY <1>1, <1>3 DEF ShownInv
<1>6. ShownTo(stored)'
  BY <1>1, <1>3 DEF ShownInv
<1> QED BY <1>4, <1>5, <1>6 DEF ShownInv

\* A step that shows nothing and only moves to where all is shown.
LEMMA ShownMoves ==
    ASSUME TypeInv, TypeInv', ShownInv, FeedGrows, UNCHANGED entries,
           emitted' \in {emitted, None},
           \A n : ShownTo(n) => ShownTo(n)',
           faults = 0 => ShownTo(stored)',
           faults = 0 => \A k \in 1..Len(files') :
              \A n : n = files'[k].at => ShownTo(n)',
           faults = 0 => \A u \in Tasks : job'[u] = job[u] \/ job'[u].pc = "idle"
              \/ \A n : n = Got(job'[u]) => ShownTo(n)'
    PROVE  ShownInv'
<1> SUFFICES ASSUME faults' = 0 PROVE ShownInv'
  BY DEF ShownInv
<1>1. faults = 0
  BY DEF FeedGrows
<1>2. \A u \in Tasks : job'[u].pc # "idle" => \A n : n = Got(job'[u]) => ShownTo(n)'
  BY <1>1 DEF ShownInv
<1> QED BY <1>1, <1>2 DEF ShownInv
\* A step that goes on with the line after its turn has been seen to.
LEMMA ShownOnward ==
    ASSUME TypeInv, TypeInv', StageInv, ShownInv, FeedGrows, NEW t \in Tasks,
           job[t].pc \notin {"idle", "store", "call"},
           LineOf(t).kind \in {"assistant", "prompt"}, Onward(t),
           UNCHANGED <<stored, entries, emitted>>
    PROVE  ShownInv'
<1> SUFFICES ASSUME faults' = 0 PROVE ShownInv'
  BY DEF ShownInv
<1>1. faults = 0 /\ (emitted # None => entries[emitted] > 0)
  BY DEF FeedGrows, ShownInv
<1>2. ~Shows(t) => LineShown(t)
  BY <1>1 DEF Shows, LineShown, ShowsTurn, LineOf
<1>3. FileOf(t) \in FileStates
  BY LineTypes
<1>4. CASE Done(t, FileOf(t)) /\ ~Shows(t)
  BY <1>1, <1>2, <1>3, <1>4, ShownDone
<1>5. CASE files' = files /\ \E pc \in {"told", "turn", "call"} :
                GoTo(t, pc) /\ (pc = "call" => ~Shows(t))
  <2>1. PICK pc \in {"told", "turn", "call"} : GoTo(t, pc) /\ (pc = "call" => ~Shows(t))
    BY <1>5
  <2>2. pc \in Stages \ {"store"}
    BY DEF Stages
  <2> QED BY <1>1, <1>2, <1>5, <2>1, <2>2, ShownGoTo
<1> QED BY <1>4, <1>5, OnwardIs

\* The turn entry has been published, or could not be.
LEMMA ShownPublished ==
    ASSUME TypeInv, TypeInv', StageInv, ShownInv, NEW t \in Tasks,
           PublishTurn(t) \/ PublishTurnFails(t)
    PROVE  ShownInv'
<1> SUFFICES ASSUME faults' = 0 PROVE ShownInv'
  BY DEF ShownInv
<1>1. PublishTurn(t)
  BY DEF PublishTurnFails, TypeInv, WorldOK
<1> DEFINE m == LineOf(t).msg
<1>2. /\ job[t].pc = "turn" /\ entries' = [entries EXCEPT ![m] = @ + 1]
      /\ emitted' = m /\ text' = text /\ hidden' = hidden /\ faults' = faults
      /\ stored' = stored
  BY <1>1 DEF PublishTurn, Published, outerVars, logVars
<1>3. m \in Messages /\ LineOf(t).kind = "assistant"
  BY <1>2, LineTypes DEF StageInv, StageOK, LineOf, Lines
<1>4. entries \in [Messages -> Nat]
  BY DEF TypeInv, HistoryOK
<1>5. entries'[m] > 0 /\ \A l \in Messages : entries'[l] >= entries[l]
  BY <1>2, <1>3, <1>4
<1>6. FeedGrows /\ LineShown(t)
  BY <1>2, <1>5 DEF FeedGrows, LineShown
<1>7. faults' = 0 /\ emitted' # None => entries'[emitted'] > 0
  BY <1>2, <1>5
<1>8. FileOf(t) \in FileStates
  BY <1>2, LineTypes
<1>9. CASE Done(t, FileOf(t))
  BY <1>2, <1>6, <1>7, <1>8, <1>9, ShownDone
<1>10. CASE GoTo(t, "call") /\ files' = files
  BY <1>2, <1>6, <1>7, <1>10, ShownGoTo DEF Stages
<1> QED BY <1>1, <1>9, <1>10 DEF PublishTurn, Published

\* A further step on a line that has nothing to do with its turn.
LEMMA ShownRest ==
    ASSUME TypeInv, TypeInv', StageInv, ShownInv, NEW t \in Tasks,
           CountTurn(t) \/ Rest(t)
    PROVE  ShownInv'
<1> SUFFICES ASSUME faults' = 0 PROVE ShownInv'
  BY DEF ShownInv
<1>1. /\ job[t].pc \notin {"idle", "store"}
      /\ UNCHANGED <<text, stored, hidden, faults, entries, emitted>>
  BY DEF CountTurn, Rest, NoteCall, Interrupt, SameMode, ChangeMode, ModeChanged, AtMode,
         outerVars, feedVars, logVars
<1>2. FeedGrows /\ (emitted' # None => entries'[emitted'] > 0)
  BY <1>1 DEF FeedGrows, ShownInv, TypeInv, HistoryOK
<1>3. /\ LineOf(t) \in Lines /\ FileOf(t) \in FileStates /\ job[t].f \in 1..Len(files)
      /\ LineOf(t) = text[job[t].at] /\ StageOK(job[t], text)
      /\ files \in Seq(FileStates)
  BY <1>1, LineTypes DEF LineOf, StageInv, TypeInv, FilesOK
<1>4. CASE CountTurn(t)
  BY <1>1, <1>2, <1>4, ShownGoTo DEF CountTurn, fileVars, Stages
<1>5. CASE NoteCall(t)
  <2>1. LineOf(t).call # None /\ job[t].pc = "call"
    BY <1>1, <1>3, <1>5, LineTypes DEF NoteCall, JobOK
  <2>2. Named(FileOf(t).names, LineOf(t).call) \in Seq(Calls)
    BY <1>1, <1>3, <2>1, LineTypes, NamedTypes DEF Lines, FileStates
  <2> DEFINE f == [FileOf(t) EXCEPT !.names = Named(@, LineOf(t).call)]
  <2>3. f \in FileStates /\ f.at = FileOf(t).at
    BY <1>3, <2>2 DEF FileStates
  <2>4. LineShown(t)
    <3>1. job[t].at \in 1..Len(text) /\ job[t].at \in Nat /\ Got(job[t]) = job[t].at
      BY <1>1, <2>1, LineTypes DEF Jobs, Got
    <3>2. ASSUME ShowsTurn(job[t].at), job[t].at \notin hidden
          PROVE  entries[LineOf(t).msg] > 0
      BY <1>1, <3>1, <3>2 DEF ShownInv, ShownTo, LineOf
    <3> QED BY <1>1, <3>2 DEF LineShown
  <2>5. Done(t, f)
    BY <1>5 DEF NoteCall
  <2> HIDE DEF f
  <2> QED BY <1>1, <1>2, <2>3, <2>4, <2>5, ShownDone
<1>6. ASSUME LineOf(t).kind # "assistant" PROVE LineShown(t)
  BY <1>3, <1>6 DEF LineShown, ShowsTurn
<1>7. CASE SameMode(t) \/ ModeChanged(t)
  <2>1. KeepMode(t) \in FileStates /\ KeepMode(t).at = FileOf(t).at
    BY <1>3 DEF KeepMode, FileStates, Lines
  <2>2. LineOf(t).kind # "assistant"
    BY <1>3, <1>7 DEF SameMode, ModeChanged, AtMode, StageOK
  <2> QED BY <1>1, <1>2, <1>6, <1>7, <2>1, <2>2, ShownDone DEF SameMode, ModeChanged
<1>8. CASE ChangeMode(t)
  <2>1. job[t].pc # "call"
    BY <1>8 DEF ChangeMode, AtMode
  <2> QED BY <1>1, <1>2, <1>8, <2>1, ShownGoTo DEF ChangeMode, fileVars, Stages
<1>9. CASE Interrupt(t)
  <2>1. Without(FileOf(t).names, LineOf(t).stop) \in Seq(Calls)
    BY <1>1, <1>3, LineTypes, WithoutTypes DEF FileStates
  <2> DEFINE g == [FileOf(t) EXCEPT !.names = Without(@, LineOf(t).stop)]
  <2>2. g \in FileStates /\ g.at = FileOf(t).at
    BY <1>3, <2>1 DEF FileStates
  <2>3. files' = [files EXCEPT ![job[t].f] = g]
    BY <1>9 DEF Interrupt, FileOf
  <2> HIDE DEF g
  <2>4. Len(files') = Len(files) /\ \A k \in 1..Len(files) : files'[k].at = files[k].at
    BY <1>3, <2>2, <2>3, ExceptSeq DEF FileOf
  <2> QED BY <1>1, <1>2, <1>9, <2>4, ShownGoTo DEF Interrupt, Stages
<1> QED BY <1>4, <1>5, <1>7, <1>8, <1>9 DEF Rest
\* A task starts to read from where an offset is.
LEMMA ShownReads ==
    ASSUME TypeInv, TypeInv', ShownInv, FeedGrows, NEW t \in Tasks, NEW f,
           NEW from \in Nat, job' = [job EXCEPT ![t] = Reading(f, from)],
           UNCHANGED <<entries, emitted>>, hidden' = hidden,
           faults = 0 => ShownTo(from), stored' \in {stored, from},
           \A k \in 1..Len(files') :
              files'[k].at = from \/ (k \in 1..Len(files) /\ files'[k] = files[k])
    PROVE  ShownInv'
<1>1. \A n : ShownTo(n) => ShownTo(n)'
  BY ShownKept
<1>2. job'[t] = Reading(f, from) /\ \A u \in Tasks \ {t} : job'[u] = job[u]
  BY DEF TypeInv, JobsOK
<1>3. Got(job'[t]) = from
  BY <1>2, ReadingIs DEF Got
<1>4. faults = 0 => \A k \in 1..Len(files') : \A n : n = files'[k].at => ShownTo(n)'
  BY <1>1 DEF ShownInv
<1>5. faults = 0 => ShownTo(stored)'
  BY <1>1 DEF ShownInv
<1>6. faults = 0 => \A u \in Tasks : job'[u] = job[u] \/ job'[u].pc = "idle"
              \/ \A n : n = Got(job'[u]) => ShownTo(n)'
  BY <1>1, <1>2, <1>3
<1> QED BY <1>1, <1>4, <1>5, <1>6, ShownMoves

LEMMA ShownStart ==
    ASSUME TypeInv, TypeInv', ShownInv, StartPriming \/ Tails \/ StartSeed
    PROVE  ShownInv'
<1>1. /\ UNCHANGED <<text, hidden, faults, entries, emitted>> /\ Watch \in Tasks
      /\ Seeder \in Tasks /\ stored \in Nat
  BY DEF StartPriming, Tails, StartSeed, outerVars, feedVars, logVars, Tasks, TypeInv,
         WorldOK
<1>2. FeedGrows
  BY <1>1 DEF FeedGrows, TypeInv, HistoryOK
<1>3. files \in Seq(FileStates) /\ (faults = 0 => ShownTo(stored))
  BY DEF TypeInv, FilesOK, ShownInv
<1>4. CASE StartPriming
  <2>1. /\ files' = <<Fresh(stored)>> /\ stored' = stored
        /\ job' = [job EXCEPT ![Watch] = Reading(1, stored)]
    BY <1>4 DEF StartPriming, outerVars
  <2>2. \A k \in 1..Len(files') : files'[k].at = stored
    BY <2>1 DEF Fresh
  <2> QED BY <1>1, <1>2, <1>3, <2>1, <2>2, ShownReads
<1>5. ASSUME NEW at \in Nat, files' = Append(files, Fresh(at))
      PROVE  \A k \in 1..Len(files') :
                files'[k].at = at \/ (k \in 1..Len(files) /\ files'[k] = files[k])
  <2>1. Fresh(at).at = at
    BY DEF Fresh
  <2>2. /\ Len(files') = Len(files) + 1 /\ files'[Len(files) + 1] = Fresh(at)
        /\ \A k \in 1..Len(files) : files'[k] = files[k]
    BY <1>3, <1>5, FreshTypes, AppendProperties
  <2> QED BY <1>3, <2>1, <2>2
<1>6. CASE StartSeed
  <2>1. ShownTo(0) /\ stored' = 0 /\ files' = Append(files, Fresh(0))
        /\ job' = [job EXCEPT ![Seeder] = Reading(Len(files) + 1, 0)]
    BY <1>6 DEF StartSeed, ShownTo
  <2> QED BY <1>1, <1>2, <1>5, <2>1, ShownReads
<1>7. CASE Tails /\ reg = 0
  <2>1. /\ stored' = stored /\ files' = Append(files, Fresh(stored))
        /\ job' = [job EXCEPT ![Watch] = Reading(Len(files) + 1, stored)]
    BY <1>7 DEF Tails, outerVars
  <2> QED BY <1>1, <1>2, <1>3, <1>5, <2>1, ShownReads
<1>8. CASE Tails /\ reg # 0
  <2>1. reg \in 1..Len(files) /\ files[reg] \in FileStates
    BY <1>8, ElementOfSeq DEF TypeInv, FilesOK
  <2>2. files[reg].at \in Nat /\ (faults = 0 => ShownTo(files[reg].at))
    BY <2>1 DEF FileStates, ShownInv
  <2>3. /\ stored' = stored /\ files' = files
        /\ job' = [job EXCEPT ![Watch] = Reading(reg, files[reg].at)]
    BY <1>8 DEF Tails, outerVars
  <2> QED BY <1>1, <1>2, <2>2, <2>3, ShownReads
<1> QED BY <1>4, <1>6, <1>7, <1>8

\* Steps that move no task forward.
LEMMA ShownStill ==
    ASSUME TypeInv, TypeInv', StageInv, ShownInv,
           \/ Write \/ StartHiding \/ MakeWorkers \/ Crash \/ UNCHANGED vars
           \/ \E t \in Tasks : Store(t) \/ TakeTurn(t)
    PROVE  ShownInv'
<1>1. /\ UNCHANGED <<text, faults, entries>> /\ emitted' \in {emitted, None}
      /\ hidden \subseteq hidden'
  BY DEF Write, StartHiding, MakeWorkers, Crash, Store, TakeTurn, vars, outerVars,
         feedVars, logVars
<1>2. FeedGrows
  BY <1>1 DEF FeedGrows, TypeInv, HistoryOK
<1>3. \A n : ShownTo(n) => ShownTo(n)'
  BY <1>2, ShownKept
<1>4. faults = 0 => ShownTo(stored)'
  <2>1. CASE stored' = stored
    BY <1>3, <2>1 DEF ShownInv
  <2>2. CASE StartHiding
    <3>1. stored' = written /\ hidden' = hidden \cup (stored + 1)..written
          /\ stored \in Nat /\ written \in Nat
      BY <2>2 DEF StartHiding, TypeInv, WorldOK
    <3>2. faults = 0 => \A i \in 1..Len(text) : i <= written /\ i \notin hidden'
             /\ ShowsTurn(i) => entries[text[i].msg] > 0
      BY <3>1 DEF ShownInv, ShownTo
    <3> QED BY <1>1, <3>1, <3>2 DEF ShownTo, ShowsTurn
  <2>3. CASE \E t \in Tasks : Store(t)
    <3>1. PICK t \in Tasks : Store(t)
      BY <2>3
    <3>2. job[t].pc = "store" /\ stored' = job[t].end /\ Got(job[t]) = job[t].end
      BY <3>1 DEF Store, Got
    <3> QED BY <1>3, <3>2 DEF ShownInv
  <2> QED BY <2>1, <2>2, <2>3
          DEF Write, MakeWorkers, Crash, TakeTurn, vars, outerVars
<1>5. faults = 0 => \A k \in 1..Len(files') : \A n : n = files'[k].at => ShownTo(n)'
  <2>1. files' = files \/ files' = <<>>
    BY DEF Write, StartHiding, MakeWorkers, Crash, Store, TakeTurn, vars, fileVars
  <2> QED BY <1>3, <2>1 DEF ShownInv
<1>6. faults = 0 => \A u \in Tasks : job'[u] = job[u] \/ job'[u].pc = "idle"
              \/ \A n : n = Got(job'[u]) => ShownTo(n)'
  <2>1. CASE job' = job
    BY <2>1
  <2>2. CASE Crash
    BY <2>2 DEF Crash, Idle
  <2>3. CASE \E t \in Tasks : Store(t)
    BY <2>3 DEF Store, TypeInv, JobsOK, Idle
  <2>4. ASSUME NEW t \in Tasks, TakeTurn(t), faults = 0
        PROVE \A u \in Tasks : job'[u] = job[u] \/ \A n : n = Got(job'[u]) => ShownTo(n)'
    <3>1. /\ job'[t].pc = "metric" /\ job'[t].at = job[t].at /\ job[t].pc \in {"open", "line"}
          /\ \A u \in Tasks \ {t} : job'[u] = job[u]
      BY <2>4 DEF TakeTurn, Closes, TypeInv, JobsOK, Jobs
    <3>2. Got(job'[t]) = Got(job[t]) /\ job[t].pc # "idle"
      BY <3>1 DEF Got
    <3> QED BY <1>3, <2>4, <3>1, <3>2 DEF ShownInv
  <2> QED BY <2>1, <2>2, <2>3, <2>4 DEF Write, StartHiding, MakeWorkers, vars
<1> QED BY <1>1, <1>2, <1>3, <1>4, <1>5, <1>6, ShownMoves

LEMMA ShownStep ==
    ASSUME TypeInv, TypeInv', StageInv, ShownInv, [Next]_vars
    PROVE  ShownInv'
<1>1. ASSUME NEW t \in Tasks,
             Open(t) \/ RecordMetric(t) \/ RecordMetricFails(t) \/ Extend(t)
      PROVE  ShownInv'
  <2>1. /\ Onward(t) /\ job[t].pc \in {"line", "open", "metric"}
        /\ UNCHANGED <<text, stored, hidden, entries, emitted>>
        /\ faults' \in {faults, faults + 1}
    BY <1>1 DEF Open, RecordMetric, RecordMetricFails, Recorded, Extend, Closes, outerVars,
                feedVars, logVars
  <2>2. FeedGrows
    BY <2>1, SMTT(30) DEF FeedGrows, TypeInv, HistoryOK, WorldOK
  <2>3. LineOf(t).kind \in {"assistant", "prompt"}
    BY <1>1, <2>1 DEF Open, RecordMetric, RecordMetricFails, Recorded, Extend, Closes,
                      StageInv, StageOK, LineOf
  <2> QED BY <2>1, <2>2, <2>3, ShownOnward
<1> QED BY <1>1, ShownPublished, ShownRest, ShownStart, ShownStill DEF Next, Turn

LEMMA ShownInit == Init => StageInv /\ ShownInv
  BY DEF Init, StageInv, StageOK, Idle, ShownInv, ShownTo
-----------------------------------------------------------------------------
(* The steps of a single reader. *)

\* Its steps that have to do with no line, but for hiding.
Rests == Write \/ MakeWorkers \/ StartPriming \/ Tails \/ Store(Watch) \/ UNCHANGED vars

LEMMA AloneNext ==
    ASSUME TypeInv, StageInv, FrontInv, [Next]_vars, Alone'
    PROVE  /\ Alone
           /\ Rests \/ StartHiding \/ Turn(Watch) \/ Rest(Watch)
           /\ job[Seeder] = Idle
<1>1. seeds \in Nat /\ crashes \in Nat
  BY DispatcherAssumption DEF TypeInv, WorldOK
<1>2. /\ ~StartSeed /\ ~Crash
      /\ seeds' = seeds /\ crashes' = crashes
  <2>1. ~StartSeed /\ ~Crash
    BY <1>1 DEF Alone, StartSeed, Crash
  <2>2. ASSUME NEW t \in Tasks, Turn(t) \/ Rest(t) \/ Store(t)
        PROVE  seeds' = seeds /\ crashes' = crashes
    BY <2>2 DEF Turn, Rest, Store, CountTurn, TakeTurn, Open, RecordMetric,
                RecordMetricFails, Recorded, Extend, PublishTurn, PublishTurnFails,
                NoteCall, Interrupt, SameMode, ChangeMode, ModeChanged, outerVars
  <2>3. ASSUME Write \/ StartPriming \/ StartHiding \/ MakeWorkers \/ Tails \/ UNCHANGED vars
        PROVE  seeds' = seeds /\ crashes' = crashes
    BY <2>3 DEF Write, StartPriming, StartHiding, MakeWorkers, Tails, vars, outerVars
  <2> QED BY <2>1, <2>2, <2>3 DEF Next
<1>3. Alone /\ job[Seeder] = Idle
  BY <1>2 DEF Alone, FrontInv
<1>4. ASSUME NEW t \in Tasks, Turn(t) \/ Rest(t) \/ Store(t) PROVE t = Watch
  <2>1. job[t].pc # "idle"
    BY <1>4 DEF Turn, Rest, Store, CountTurn, TakeTurn, Open, RecordMetric, Closes,
           RecordMetricFails, Recorded, Extend, PublishTurn, PublishTurnFails,
           Published, NoteCall, Interrupt, SameMode, ChangeMode, ModeChanged, AtMode
  <2> QED BY <1>3, <2>1 DEF Idle, Tasks
<1> QED BY <1>2, <1>3, <1>4 DEF Next, Rests

\* Where the reader is while it is at a line.
LEMMA ReaderAt ==
    ASSUME TypeInv, StageInv, FrontInv, Alone, job[Watch].pc \notin {"idle", "store"}
    PROVE  /\ job[Watch].at \in 1..Len(text) /\ job[Watch].at \in Nat
           /\ Handled = job[Watch].at - 1 /\ job[Watch].at \notin hidden
           /\ job[Watch].f = reg /\ reg \in 1..Len(files) /\ FileOf(Watch) = files[reg]
           /\ FileOf(Watch) \in FileStates /\ FileOf(Watch).names \in Seq(Calls)
           /\ Len(FileOf(Watch).names) <= Cap
           /\ FileMode = FileOf(Watch).mode /\ FileNames = FileOf(Watch).names
           /\ LineOf(Watch) = text[job[Watch].at] /\ LineOf(Watch) \in Lines
           /\ StageOK(job[Watch], text)
<1>1. Watch \in Tasks
  BY DEF Tasks
<1>2. /\ job[Watch].at \in 1..Len(text) /\ job[Watch].at \in Nat
      /\ FileOf(Watch) \in FileStates /\ LineOf(Watch) \in Lines
      /\ Len(FileOf(Watch).names) <= Cap /\ job[Watch].f \in 1..Len(files)
  BY <1>1, LineTypes DEF Jobs
<1>3. Handled = job[Watch].at - 1 /\ job[Watch].f = reg /\ reg # 0
      /\ \A i \in hidden : i <= Handled
  BY DEF Handled, Idle, FrontInv
<1>4. job[Watch].at \notin hidden
  BY <1>2, <1>3
<1>5. FileOf(Watch).names \in Seq(Calls)
  BY <1>2 DEF FileStates
<1> QED BY <1>1, <1>2, <1>3, <1>4, <1>5
        DEF FileOf, LineOf, FileMode, FileNames, StageInv

\* The reader goes on in its line.
LEMMA ReaderGoes ==
    ASSUME TypeInv, StageInv, FrontInv, Alone, job[Watch].pc \notin {"idle", "store"},
           NEW pc \in Stages \ {"store"}, GoTo(Watch, pc), reg' = reg
    PROVE  /\ job'[Watch].pc = pc /\ job'[Watch].at = job[Watch].at
           /\ job'[Watch].f = reg /\ \A u \in Tasks \ {Watch} : job'[u] = job[u]
           /\ Handled' = Handled
           /\ FileMode' = files'[reg].mode /\ FileNames' = files'[reg].names
<1>1. Watch \in Tasks /\ pc # "idle" /\ reg # 0 /\ job[Watch].f = reg
  BY ReaderAt DEF Tasks, Stages
<1>2. /\ job'[Watch].pc = pc /\ job'[Watch].at = job[Watch].at
      /\ job'[Watch].f = job[Watch].f /\ \A u \in Tasks \ {Watch} : job'[u] = job[u]
  BY <1>1, GoToIs
<1>3. Handled' = job'[Watch].at - 1 /\ Handled = job[Watch].at - 1
  BY <1>1, <1>2 DEF Handled, Idle
<1> QED BY <1>1, <1>2, <1>3 DEF FileMode, FileNames

\* The reader is done with its line.
LEMMA ReaderDone ==
    ASSUME TypeInv, StageInv, FrontInv, Alone, job[Watch].pc \notin {"idle", "store"},
           NEW f \in FileStates, Done(Watch, f), reg' = reg
    PROVE  /\ job'[Watch].pc \in {"line", "store"} /\ job'[Watch].f = reg
           /\ \A u \in Tasks \ {Watch} : job'[u] = job[u]
           /\ Handled' = Handled + 1 /\ Handled' = job[Watch].at
           /\ Showed' = Handled' /\ ToldTo' = Handled'
           /\ job'[Watch].pc = "store" => files'[reg].at = job'[Watch].end
           /\ FileMode' = f.mode /\ FileNames' = f.names
<1>1. Watch \in Tasks /\ reg # 0 /\ job[Watch].f = reg /\ Handled = job[Watch].at - 1
      /\ job[Watch].at \in Nat
  BY ReaderAt DEF Tasks
<1>2. /\ job'[Watch].pc \in {"line", "store"} /\ job'[Watch].f = reg
      /\ \A u \in Tasks \ {Watch} : job'[u] = job[u]
      /\ job'[Watch].pc = "store" =>
            job'[Watch].end = job[Watch].at /\ files'[reg].at = job'[Watch].end
      /\ job'[Watch].pc = "line" => job'[Watch].at = job[Watch].at + 1
      /\ files'[reg].mode = f.mode /\ files'[reg].names = f.names
  BY <1>1, DoneIs
<1>3. Handled' = job[Watch].at
  BY <1>1, <1>2 DEF Handled, Idle
<1> QED BY <1>1, <1>2, <1>3 DEF Showed, ToldTo, FileMode, FileNames
\* What the steps on a line have in common.
LEMMA LineStill ==
    ASSUME TypeInv, StageInv, NEW t \in Tasks, Turn(t) \/ Rest(t)
    PROVE  /\ job[t].pc \notin {"idle", "store"}
           /\ UNCHANGED <<text, stored, reg, hidden, life>> /\ life # "down"
<1>1. job[t].pc \notin {"idle", "store"}
  BY DEF Turn, Rest, CountTurn, TakeTurn, Open, RecordMetric, Closes,
         RecordMetricFails, Recorded, Extend, PublishTurn, PublishTurnFails,
         Published, NoteCall, Interrupt, SameMode, ChangeMode, ModeChanged, AtMode
<1>2. UNCHANGED <<text, stored, reg, hidden, life>>
  BY DEF Turn, Rest, CountTurn, TakeTurn, Open, RecordMetric,
         RecordMetricFails, Recorded, Extend, PublishTurn, PublishTurnFails,
         NoteCall, Interrupt, SameMode, ChangeMode, ModeChanged,
         outerVars, fileVars, logVars
<1>3. life # "down"
  BY <1>1 DEF TypeInv, JobsOK, Idle
<1> QED BY <1>1, <1>2, <1>3

\* A tool call or a mode ends the line, with a proper FileState.
LEMMA RestDone ==
    ASSUME TypeInv, NEW t \in Tasks, NoteCall(t) \/ SameMode(t) \/ ModeChanged(t)
    PROVE  \E f \in FileStates : Done(t, f)
<1>1. job[t].pc # "idle" /\ FileOf(t) \in FileStates /\ LineOf(t) \in Lines
  BY LineTypes DEF NoteCall, SameMode, ModeChanged, AtMode
<1>2. CASE NoteCall(t)
  <2>1. LineOf(t).call # None
    BY <1>1, <1>2, LineTypes DEF NoteCall, JobOK, LineOf
  <2>2. Named(FileOf(t).names, LineOf(t).call) \in Seq(Calls)
    BY <1>1, <2>1, LineTypes, NamedTypes DEF Lines, FileStates
  <2>3. [FileOf(t) EXCEPT !.names = Named(@, LineOf(t).call)] \in FileStates
    BY <1>1, <2>2 DEF FileStates
  <2> QED BY <1>2, <2>3 DEF NoteCall
<1>3. CASE SameMode(t) \/ ModeChanged(t)
  <2>1. KeepMode(t) \in FileStates
    BY <1>1 DEF KeepMode, FileStates, Lines
  <2> QED BY <1>3, <2>1 DEF SameMode, ModeChanged
<1> QED BY <1>2, <1>3

\* A step on a line goes on in it, or is done with it.
LEMMA LineMoves ==
    ASSUME TypeInv, StageInv, NEW t \in Tasks, Turn(t) \/ Rest(t)
    PROVE  \/ \E pc \in Stages \ {"store"} : GoTo(t, pc)
           \/ TakeTurn(t)
           \/ \E f \in FileStates : Done(t, f)
<1>1. job[t].pc # "idle" /\ FileOf(t) \in FileStates /\ LineOf(t) \in Lines
  BY LineStill, LineTypes
<1>2. ASSUME Onward(t)
      PROVE  Done(t, FileOf(t)) \/ \E pc \in Stages \ {"store"} : GoTo(t, pc)
  BY <1>2 DEF Onward, Stages
<1>3. CASE Turn(t)
  BY <1>1, <1>2, <1>3
     DEF Turn, CountTurn, Open, RecordMetric, RecordMetricFails, Recorded, Extend,
         PublishTurn, PublishTurnFails, Published, Stages
<1>4. CASE NoteCall(t) \/ SameMode(t) \/ ModeChanged(t)
  BY <1>4, RestDone
<1>5. CASE Interrupt(t) \/ ChangeMode(t)
  BY <1>5 DEF Interrupt, ChangeMode, Stages
<1> QED BY <1>3, <1>4, <1>5 DEF Rest

\* A reader that was taken to the metric of a turn is still at its line.
LEMMA ReaderTakes ==
    ASSUME TypeInv, StageInv, FrontInv, Alone, TakeTurn(Watch)
    PROVE  /\ job'[Watch].pc = "metric" /\ job'[Watch].at = job[Watch].at
           /\ job'[Watch].f = reg /\ \A u \in Tasks \ {Watch} : job'[u] = job[u]
           /\ job[Watch].pc \in {"line", "open"} /\ Handled' = Handled
<1>1. Watch \in Tasks /\ job[Watch].pc \in {"line", "open"}
  BY DEF TakeTurn, Closes, Tasks
<1>2. /\ job'[Watch].pc = "metric" /\ job'[Watch].at = job[Watch].at
      /\ job'[Watch].f = job[Watch].f /\ \A u \in Tasks \ {Watch} : job'[u] = job[u]
  BY <1>1 DEF TakeTurn, TypeInv, JobsOK, Jobs
<1>3. Handled' = job'[Watch].at - 1 /\ Handled = job[Watch].at - 1
  BY <1>1, <1>2 DEF Handled, Idle
<1> QED BY <1>1, <1>2, <1>3, ReaderAt

LEMMA FrontLine ==
    ASSUME TypeInv, StageInv, FrontInv, Alone, job[Seeder] = Idle,
           Turn(Watch) \/ Rest(Watch)
    PROVE  FrontInv'
<1>1. /\ job[Watch].pc \notin {"idle", "store"} /\ Watch \in Tasks
      /\ UNCHANGED <<text, stored, reg, hidden, life>> /\ life # "down"
  BY LineStill DEF Tasks
<1>2. Seeder \in Tasks \ {Watch} /\ Handled \in Nat /\ hidden \subseteq Nat /\ reg # 0
  <2>1. hidden \subseteq Nat
    BY DEF TypeInv, HistoryOK
  <2> QED BY <1>1, <2>1, ReaderAt, DispatcherAssumption DEF Tasks
<1>3. CASE \E pc \in Stages \ {"store"} : GoTo(Watch, pc)
  <2>1. PICK pc \in Stages \ {"store"} : GoTo(Watch, pc)
    BY <1>3
  <2>2. /\ job'[Watch].pc \notin {"store", "idle"}
        /\ job'[Watch].f = reg /\ job'[Seeder] = job[Seeder] /\ Handled' = Handled
    BY <1>1, <1>2, <2>1, ReaderGoes DEF Stages
  <2> QED BY <1>1, <1>2, <2>2 DEF FrontInv
<1>4. CASE TakeTurn(Watch)
  BY <1>1, <1>2, <1>4, ReaderTakes DEF FrontInv
<1>5. CASE \E f \in FileStates : Done(Watch, f)
  <2>1. PICK f \in FileStates : Done(Watch, f)
    BY <1>5
  <2>2. /\ job'[Watch].pc \in {"line", "store"} /\ job'[Watch].f = reg
        /\ job'[Seeder] = job[Seeder] /\ Handled' = Handled + 1
        /\ job'[Watch].pc = "store" => files'[reg].at = job'[Watch].end
    BY <1>1, <1>2, <2>1, ReaderDone
  <2> QED BY <1>1, <1>2, <2>2 DEF FrontInv
<1> QED BY <1>1, <1>3, <1>4, <1>5, LineMoves
\* A step that the feed does not see.
Quiet ==
    /\ UNCHANGED <<text, hidden, entries, emitted, changes, stops>>
    /\ Handled' = Handled /\ FileMode' = FileMode /\ FileNames' = FileNames
    /\ \/ job'[Watch] = job[Watch]
       \/ {job[Watch].pc, job'[Watch].pc} \cap {"turn", "call", "told", "change"} = {}

\* The reader starts to read where it left off.
LEMMA ReaderStarts ==
    ASSUME TypeInv, StageInv, FrontInv, Alone, StartPriming \/ Tails
    PROVE  /\ job[Watch].pc = "idle" /\ job'[Watch].pc = "line"
           /\ job'[Watch].f = reg' /\ reg' # 0
           /\ \A u \in Tasks \ {Watch} : job'[u] = job[u]
           /\ Handled' = Handled /\ FileMode' = FileMode /\ FileNames' = FileNames
<1>1. /\ Watch \in Tasks /\ job[Watch] = Idle /\ Handled = stored
      /\ job \in [Tasks -> Jobs] /\ files \in Seq(FileStates) /\ stored \in Nat
      /\ reg \in 0..Len(files)
  BY DEF Tasks, Handled, TypeInv, WorldOK, JobsOK, FilesOK, StartPriming, Tails
<1>2. ASSUME NEW f, NEW from \in Nat, from = stored,
             job' = [job EXCEPT ![Watch] = Reading(f, from)]
      PROVE  /\ job'[Watch].pc = "line" /\ job'[Watch].f = f
             /\ \A u \in Tasks \ {Watch} : job'[u] = job[u]
             /\ Handled' = Handled
  <2>1. job'[Watch] = Reading(f, from) /\ \A u \in Tasks \ {Watch} : job'[u] = job[u]
    BY <1>1, <1>2
  <2>2. job'[Watch].pc = "line" /\ job'[Watch].f = f /\ job'[Watch].at = from + 1
    BY <2>1, ReadingIs
  <2>3. Handled' = from
    BY <2>2, <1>2 DEF Handled, Idle
  <2> QED BY <1>1, <1>2, <2>1, <2>2, <2>3
<1>3. Fresh(stored).mode = None /\ Fresh(stored).names = <<>>
  BY DEF Fresh
<1>4. CASE StartPriming
  <2>1. /\ job' = [job EXCEPT ![Watch] = Reading(1, stored)] /\ reg' = 1 /\ reg = 0
        /\ files' = <<Fresh(stored)>>
    BY <1>4 DEF StartPriming, FrontInv
  <2>2. FileMode' = None /\ FileNames' = <<>>
    BY <1>3, <2>1 DEF FileMode, FileNames
  <2>3. FileMode = None /\ FileNames = <<>>
    BY <2>1 DEF FileMode, FileNames
  <2>4. /\ job'[Watch].pc = "line" /\ job'[Watch].f = 1
        /\ \A u \in Tasks \ {Watch} : job'[u] = job[u]
        /\ Handled' = Handled
    BY <1>1, <1>2, <2>1
  <2> QED BY <1>1, <2>1, <2>2, <2>3, <2>4 DEF Idle
<1>5. CASE Tails /\ reg = 0
  <2>1. /\ job' = [job EXCEPT ![Watch] = Reading(Len(files) + 1, stored)]
        /\ reg' = Len(files) + 1 /\ files' = Append(files, Fresh(stored))
    BY <1>5 DEF Tails
  <2>2. files'[reg'] = Fresh(stored) /\ reg' # 0
    BY <1>1, <2>1, FreshTypes, AppendProperties
  <2>3. FileMode' = None /\ FileNames' = <<>>
    BY <1>3, <2>2 DEF FileMode, FileNames
  <2>4. FileMode = None /\ FileNames = <<>>
    BY <1>5 DEF FileMode, FileNames
  <2>5. /\ job'[Watch].pc = "line" /\ job'[Watch].f = Len(files) + 1
        /\ \A u \in Tasks \ {Watch} : job'[u] = job[u]
        /\ Handled' = Handled
    BY <1>1, <1>2, <2>1
  <2> QED BY <1>1, <2>1, <2>2, <2>3, <2>4, <2>5 DEF Idle
<1>6. CASE Tails /\ reg # 0
  <2>1. /\ job' = [job EXCEPT ![Watch] = Reading(reg, files[reg].at)]
        /\ reg' = reg /\ files' = files /\ files[reg].at = stored
    BY <1>1, <1>6 DEF Tails, FrontInv, Idle
  <2>2. /\ job'[Watch].pc = "line" /\ job'[Watch].f = reg
        /\ \A u \in Tasks \ {Watch} : job'[u] = job[u]
        /\ Handled' = Handled
    BY <1>1, <1>2, <2>1
  <2>3. FileMode' = FileMode /\ FileNames' = FileNames
    BY <2>1 DEF FileMode, FileNames
  <2> QED BY <1>1, <1>6, <2>1, <2>2, <2>3 DEF Idle
<1> QED BY <1>4, <1>5, <1>6

LEMMA ReaderQuiet ==
    ASSUME TypeInv, StageInv, FrontInv, Alone,
           Rests \/ CountTurn(Watch) \/ TakeTurn(Watch)
    PROVE  Quiet
<1>1. UNCHANGED <<text, hidden, entries, emitted, changes, stops>>
  BY DEF Rests, Write, MakeWorkers, StartPriming, Tails, Store, CountTurn, TakeTurn,
         vars, outerVars, feedVars, logVars, modeVars
<1>2. CASE StartPriming \/ Tails
  BY <1>1, <1>2, ReaderStarts DEF Quiet
<1>3. CASE Write \/ MakeWorkers \/ UNCHANGED vars
  BY <1>1, <1>3
     DEF Quiet, Handled, FileMode, FileNames, Write, MakeWorkers, vars, outerVars, fileVars
<1>4. CASE Store(Watch)
  <2>1. /\ job[Watch].pc = "store" /\ job'[Watch] = Idle /\ stored' = job[Watch].end
        /\ UNCHANGED fileVars /\ job[Watch] # Idle
    BY <1>4 DEF Store, Tasks, TypeInv, JobsOK, Idle
  <2>2. Handled' = Handled
    BY <2>1 DEF Handled
  <2>3. job'[Watch].pc = "idle"
    BY <2>1 DEF Idle
  <2> QED BY <1>1, <2>1, <2>2, <2>3 DEF Quiet, FileMode, FileNames, fileVars
<1>5. CASE CountTurn(Watch)
  <2>1. job[Watch].pc = "line" /\ GoTo(Watch, "open") /\ UNCHANGED fileVars
    BY <1>5 DEF CountTurn
  <2>2. Handled' = Handled /\ job'[Watch].pc = "open"
    BY <2>1, ReaderGoes DEF Stages, fileVars
  <2> QED BY <1>1, <2>1, <2>2 DEF Quiet, FileMode, FileNames, fileVars
<1>6. CASE TakeTurn(Watch)
  <2>1. UNCHANGED fileVars
    BY <1>6 DEF TakeTurn
  <2> QED BY <1>1, <1>6, <2>1, ReaderTakes DEF Quiet, FileMode, FileNames, fileVars
<1> QED BY <1>2, <1>3, <1>4, <1>5, <1>6 DEF Rests

LEMMA FrontStep ==
    ASSUME TypeInv, StageInv, FrontInv, [Next]_vars
    PROVE  FrontInv'
<1>1. life' = "down" => reg' = 0
  <2>1. ASSUME NEW t \in Tasks, Turn(t) \/ Rest(t) PROVE life' # "down"
    BY <2>1, LineStill
  <2>2. ASSUME NEW t \in Tasks, Store(t) PROVE life' = life /\ reg' = reg
    BY <2>2 DEF Store, fileVars
  <2> QED BY <2>1, <2>2 DEF Next, FrontInv, Write, StartPriming, StartHiding, MakeWorkers,
             Tails, StartSeed, Crash, vars, fileVars
<1> SUFFICES ASSUME Alone' PROVE FrontInv'
  BY <1>1 DEF FrontInv
<1>2. Alone /\ job[Seeder] = Idle /\ Seeder \in Tasks \ {Watch}
  BY AloneNext, DispatcherAssumption DEF Tasks
<1>3. CASE Turn(Watch) \/ Rest(Watch)
  BY <1>2, <1>3, FrontLine
<1>4. CASE Write \/ MakeWorkers \/ UNCHANGED vars
  BY <1>1, <1>2, <1>4
     DEF FrontInv, Write, MakeWorkers, vars, outerVars, fileVars, logVars, modeVars, Handled
<1>5. CASE StartPriming \/ Tails
  <2>1. /\ life' # "down" /\ hidden' = hidden
        /\ job'[Watch].pc = "line" /\ job'[Watch].f = reg' /\ reg' # 0
        /\ job'[Seeder] = Idle /\ Handled' = Handled
    BY <1>2, <1>5, ReaderStarts DEF StartPriming, Tails, logVars
  <2> QED BY <1>2, <2>1 DEF FrontInv
<1>6. CASE Store(Watch)
  <2>1. /\ job[Watch].pc = "store" /\ stored' = job[Watch].end
        /\ job' = [job EXCEPT ![Watch] = Idle]
        /\ UNCHANGED <<life, fileVars, hidden>> /\ life # "down"
    BY <1>6 DEF Store, TypeInv, JobsOK, Idle, Tasks, logVars
  <2>2. job'[Watch] = Idle /\ job'[Seeder] = Idle
    BY <1>2, <2>1 DEF TypeInv, JobsOK, Tasks
  <2>3. Handled' = Handled
    <3>1. Rests
      BY <1>6 DEF Rests
    <3> QED BY <1>2, <3>1, ReaderQuiet DEF Quiet
  <2> QED BY <1>2, <2>1, <2>2, <2>3 DEF FrontInv, Idle, fileVars
<1>7. CASE StartHiding
  <2>1. /\ life = "down" /\ life' # "down" /\ stored' = written /\ reg' = 0
        /\ hidden' = hidden \cup (stored + 1)..written /\ job' = job /\ stored = 0
        /\ hidden = {}
    BY <1>2, <1>7 DEF StartHiding, fileVars, FrontInv
  <2>2. job[Watch] = Idle
    BY <2>1 DEF TypeInv, JobsOK, Tasks
  <2>3. Handled' = written /\ \A i \in hidden' : i <= written
    BY <2>1, <2>2 DEF Handled, TypeInv, WorldOK
  <2> QED BY <1>2, <2>1, <2>2, <2>3 DEF FrontInv, Idle
<1> QED BY <1>2, <1>3, <1>4, <1>5, <1>6, <1>7, AloneNext DEF Rests

LEMMA FrontInit == Init => FrontInv
  BY DEF Init, FrontInv, Idle, Tasks
-----------------------------------------------------------------------------
(* One reader: no turn is shown twice. *)

\* A step that shows nothing new, with the reader nowhere behind where it was.
LEMMA OnceKept ==
    ASSUME OnceInv, Alone, UNCHANGED <<text, entries, emitted>>,
           Showed \in Nat, Showed' \in Nat, Showed <= Showed',
           job'[Watch].pc = "turn" => text[job'[Watch].at].msg # emitted
    PROVE  OnceInv'
<1>1. \A m : Past(m) => Past(m)'
  <2> SUFFICES ASSUME NEW m, Past(m) PROVE Past(m)'
    OBVIOUS
  <2>1. PICK i \in 1..Showed :
            /\ BlockOf(i, m)
            /\ \/ emitted = m
               \/ \E j \in i + 1..Showed :
                     text[j].kind = "assistant" /\ text[j].msg \notin {m, None}
    BY DEF Past
  <2>2. i \in 1..Showed' /\ \A j \in i + 1..Showed : j \in i + 1..Showed'
    OBVIOUS
  <2>3. BlockOf(i, m)'
    BY <2>1 DEF BlockOf
  <2>4. \/ emitted' = m
        \/ \E j \in i + 1..Showed' :
              text'[j].kind = "assistant" /\ text'[j].msg \notin {m, None}
    BY <2>1, <2>2
  <2> QED BY <2>2, <2>3, <2>4 DEF Past
<1>2. \A m : Together(m)' => Together(m)
  BY DEF Together
<1>3. \A m \in Messages : Together(m)' =>
              entries'[m] <= 1 /\ (entries'[m] = 1 => Past(m)')
  BY <1>1, <1>2 DEF OnceInv
<1>4. job'[Watch].pc = "turn" => LineOf(Watch)'.msg # emitted'
  BY DEF LineOf
<1> QED BY <1>3, <1>4 DEF OnceInv

\* How far turns are shown, and what the reader's steps do to that.
LEMMA ShowedIs ==
    ASSUME TypeInv, StageInv, FrontInv, Alone
    PROVE  /\ Handled \in Nat /\ Showed \in Nat /\ Handled <= Showed
           /\ job[Watch].pc # "call" => Showed = Handled
<1>1. Handled \in Nat
  <2>1. CASE job[Watch].pc = "idle"
    <3>1. job[Watch] = Idle /\ stored \in Nat
      BY <2>1 DEF StageInv, StageOK, Tasks, TypeInv, WorldOK
    <3> QED BY <3>1 DEF Handled
  <2>2. CASE job[Watch].pc # "idle"
    <3>1. /\ job[Watch].at \in Nat /\ job[Watch].end \in Nat
          /\ job[Watch].at \in 1..Len(text)
      BY <2>2, LineTypes DEF Tasks, Jobs
    <3> QED BY <2>2, <3>1 DEF Handled, Idle
  <2> QED BY <2>1, <2>2
<1>2. CASE job[Watch].pc = "call"
  BY <1>1, <1>2, ReaderAt DEF Showed
<1>3. CASE job[Watch].pc # "call"
  BY <1>1, <1>3 DEF Showed
<1> QED BY <1>1, <1>2, <1>3

\* The turn of a message is shown.
LEMMA OncePublished ==
    ASSUME TypeInv, TypeInv', StageInv, FrontInv, OnceInv, Alone,
           PublishTurn(Watch) \/ PublishTurnFails(Watch)
    PROVE  OnceInv'
<1> DEFINE at == job[Watch].at
           m0 == LineOf(Watch).msg
<1>1. PICK n \in {0, 1} : Published(Watch, n)
  BY DEF PublishTurn, PublishTurnFails
<1>2. /\ job[Watch].pc = "turn" /\ text' = text /\ reg' = reg /\ emitted' = m0
      /\ entries' = [entries EXCEPT ![m0] = @ + n]
  BY <1>1 DEF Published, PublishTurn, PublishTurnFails, outerVars
<1>3. /\ at \in 1..Len(text) /\ at \in Nat /\ Handled = at - 1
      /\ Showed = at - 1 /\ m0 = text[at].msg
      /\ text[at].kind = "assistant" /\ m0 # None /\ m0 \in Messages
      /\ FileOf(Watch) \in FileStates
  BY <1>2, ReaderAt, ShowedIs DEF StageOK, Lines
<1>4. Showed' = at /\ job'[Watch].pc # "turn"
  <2>1. CASE Done(Watch, FileOf(Watch))
    BY <1>2, <1>3, <2>1, ReaderDone
  <2>2. CASE GoTo(Watch, "call")
    BY <1>2, <2>2, ReaderGoes DEF Showed, Stages
  <2> QED BY <1>1, <2>1, <2>2 DEF Published
<1>5. entries \in [Messages -> Nat] /\ text \in Seq(Lines) /\ m0 # emitted
  BY <1>2 DEF TypeInv, HistoryOK, WorldOK, OnceInv
<1>6. \A m : Together(m)' => Together(m)
  BY <1>2 DEF Together
<1> SUFFICES ASSUME NEW m \in Messages, Together(m)
             PROVE  entries'[m] <= 1 /\ (entries'[m] = 1 => Past(m)')
  BY <1>4, <1>6 DEF OnceInv
<1> HIDE DEF at, m0
<1>7. CASE m = m0
  <2>1. ASSUME entries[m0] = 1 PROVE FALSE
    <3>1. Past(m0)
      BY <1>7, <2>1 DEF OnceInv
    <3>2. PICK i, j \in 1..at - 1 : /\ i < j /\ BlockOf(i, m0)
                                    /\ text[j].kind = "assistant"
                                    /\ text[j].msg \notin {m0, None}
      <4>1. PICK i \in 1..at - 1 :
                BlockOf(i, m0) /\ \E j \in i + 1..at - 1 :
                     text[j].kind = "assistant" /\ text[j].msg \notin {m0, None}
        BY <1>3, <1>5, <3>1 DEF Past
      <4> QED BY <1>3, <4>1
    <3>3. i \in DOMAIN text /\ j \in DOMAIN text /\ at \in DOMAIN text /\ i < j /\ j < at
      BY <1>3, <1>5, <3>2
    <3>4. text[i].kind = "assistant" /\ text[i].msg = m0
      BY <3>2 DEF BlockOf
    <3> QED BY <1>3, <1>7, <3>2, <3>3, <3>4 DEF Together
  <2>2. entries[m0] = 0
    BY <1>3, <1>5, <1>7, <2>1 DEF OnceInv
  <2>3. entries'[m] <= 1
    BY <1>2, <1>3, <1>5, <1>7, <2>2
  <2>4. Past(m)'
    <3>1. \A i : i = at => BlockOf(i, m)' /\ i \in 1..Showed' /\ emitted' = m
      BY <1>2, <1>3, <1>4, <1>7 DEF BlockOf
    <3> QED BY <3>1 DEF Past
  <2> QED BY <2>3, <2>4
<1>8. CASE m # m0
  <2>1. entries'[m] = entries[m]
    BY <1>2, <1>5, <1>8
  <2>2. ASSUME entries[m] = 1 PROVE Past(m)'
    <3>1. PICK i \in 1..at - 1 : BlockOf(i, m)
      BY <1>3, <2>2 DEF OnceInv, Past
    <3>2. i \in 1..Showed' /\ at \in i + 1..Showed'
      BY <1>3, <1>4, <3>1
    <3>3. BlockOf(i, m)' /\ text'[at].kind = "assistant" /\ text'[at].msg \notin {m, None}
      BY <1>2, <1>3, <1>8, <3>1 DEF BlockOf
    <3> QED BY <3>2, <3>3 DEF Past
  <2> QED BY <2>1, <2>2 DEF OnceInv
<1> QED BY <1>7, <1>8

\* What the steps that go on with a line leave alone.
LEMMA ReaderOnward ==
    ASSUME TypeInv, StageInv, NEW t \in Tasks,
           Open(t) \/ RecordMetric(t) \/ RecordMetricFails(t) \/ Extend(t)
    PROVE  /\ Onward(t) /\ job[t].pc \in {"line", "open", "metric"}
           /\ LineOf(t).kind \in {"assistant", "prompt"}
           /\ UNCHANGED <<text, stored, hidden, entries, emitted, changes, stops, reg>>
<1>1. /\ Onward(t) /\ job[t].pc \in {"line", "open", "metric"}
      /\ UNCHANGED <<text, stored, hidden, entries, emitted, changes, stops, reg>>
  BY DEF Open, RecordMetric, RecordMetricFails, Recorded, Extend, Closes, outerVars,
         feedVars, modeVars
<1>2. LineOf(t).kind \in {"assistant", "prompt"}
  BY <1>1 DEF Open, RecordMetric, RecordMetricFails, Recorded, Extend, Closes,
                    StageInv, StageOK, LineOf
<1> QED BY <1>1, <1>2
LEMMA OnceGoes ==
    ASSUME TypeInv, StageInv, FrontInv, OnceInv, Alone,
           job[Watch].pc \notin {"idle", "store", "call"},
           UNCHANGED <<text, entries, emitted, reg>>,
           NEW pc \in Stages \ {"store"}, GoTo(Watch, pc), pc = "turn" => Shows(Watch)
    PROVE  OnceInv'
<1>1. /\ job'[Watch].pc = pc /\ job'[Watch].at = job[Watch].at /\ Handled' = Handled
      /\ Handled \in Nat /\ Showed = Handled /\ Handled = job[Watch].at - 1
      /\ job[Watch].at \in Nat
  BY ReaderGoes, ReaderAt, ShowedIs
<1>2. Showed' \in Nat /\ Showed <= Showed'
  BY <1>1 DEF Showed
<1>3. job'[Watch].pc = "turn" => text[job'[Watch].at].msg # emitted
  BY <1>1 DEF Shows, LineOf
<1> QED BY <1>1, <1>2, <1>3, OnceKept

LEMMA OnceDone ==
    ASSUME TypeInv, StageInv, FrontInv, OnceInv, Alone,
           job[Watch].pc \notin {"idle", "store"},
           UNCHANGED <<text, entries, emitted, reg>>,
           NEW f \in FileStates, Done(Watch, f)
    PROVE  OnceInv'
<1>1. /\ job'[Watch].pc # "turn" /\ Showed' = job[Watch].at /\ Handled = job[Watch].at - 1
      /\ job[Watch].at \in Nat
  BY ReaderDone, ReaderAt
<1>2. Showed \in Nat /\ (Showed = Handled \/ Showed = job[Watch].at)
  BY ShowedIs DEF Showed
<1> QED BY <1>1, <1>2, OnceKept

LEMMA OnceStep ==
    ASSUME TypeInv, TypeInv', StageInv, FrontInv, OnceInv, [Next]_vars
    PROVE  OnceInv'
<1> SUFFICES ASSUME Alone' PROVE OnceInv'
  BY DEF OnceInv
<1>1. Alone /\ Watch \in Tasks
  BY AloneNext DEF Tasks
<1>2. CASE Quiet
  <2>1. UNCHANGED <<text, entries, emitted>> /\ Handled' = Handled /\ Handled \in Nat
        /\ Showed \in Nat /\ (job[Watch].pc # "call" => Showed = Handled)
    BY <1>1, <1>2, ShowedIs DEF Quiet
  <2>2. Showed' = Showed /\ (job'[Watch].pc = "turn" => job'[Watch] = job[Watch])
    BY <1>2, <2>1 DEF Quiet, Showed
  <2>3. job'[Watch].pc = "turn" => text[job'[Watch].at].msg # emitted
    BY <1>1, <2>2 DEF OnceInv, LineOf
  <2> QED BY <1>1, <2>1, <2>2, <2>3, OnceKept
<1>3. CASE StartHiding
  <2>1. /\ UNCHANGED <<text, entries, emitted>> /\ job' = job /\ stored' = written
        /\ stored = 0 /\ written \in Nat
    BY <1>1, <1>3 DEF StartHiding, feedVars, FrontInv, TypeInv, WorldOK
  <2>2. job[Watch] = Idle
    BY <1>1, <1>3 DEF StartHiding, TypeInv, JobsOK
  <2>3. Showed = 0 /\ Showed' = written /\ job'[Watch].pc # "turn"
    BY <2>1, <2>2 DEF Showed, Handled, Idle
  <2> QED BY <1>1, <2>1, <2>3, OnceKept
<1>4. CASE Open(Watch) \/ RecordMetric(Watch) \/ RecordMetricFails(Watch) \/ Extend(Watch)
  <2>1. /\ Onward(Watch) /\ job[Watch].pc \in {"line", "open", "metric"}
        /\ LineOf(Watch).kind \in {"assistant", "prompt"}
        /\ UNCHANGED <<text, entries, emitted, reg>>
    BY <1>1, <1>4, ReaderOnward
  <2>2. FileOf(Watch) \in FileStates
    BY <1>1, <2>1, LineTypes
  <2>3. CASE Done(Watch, FileOf(Watch))
    BY <1>1, <2>1, <2>2, <2>3, OnceDone
  <2>4. CASE \E pc \in {"told", "turn", "call"} :
                GoTo(Watch, pc) /\ (pc = "turn" => Shows(Watch))
    BY <1>1, <2>1, <2>4, OnceGoes DEF Stages
  <2> QED BY <2>1, <2>3, <2>4, OnwardIs
<1>5. CASE PublishTurn(Watch) \/ PublishTurnFails(Watch)
  BY <1>1, <1>5, OncePublished
<1>6. CASE Rest(Watch)
  <2>1. /\ job[Watch].pc \notin {"idle", "store"}
        /\ UNCHANGED <<text, reg, entries, emitted>>
    BY <1>1, <1>6, LineStill
       DEF Rest, NoteCall, Interrupt, SameMode, ChangeMode, ModeChanged, feedVars
  <2>2. CASE NoteCall(Watch) \/ SameMode(Watch) \/ ModeChanged(Watch)
    BY <1>1, <2>1, <2>2, RestDone, OnceDone
  <2>3. CASE Interrupt(Watch) \/ ChangeMode(Watch)
    <3>1. job[Watch].pc # "call" /\ \E pc \in {"told", "change"} : GoTo(Watch, pc)
      BY <2>3 DEF Interrupt, ChangeMode, AtMode
    <3> QED BY <1>1, <2>1, <3>1, OnceGoes DEF Stages
  <2> QED BY <1>6, <2>2, <2>3 DEF Rest
<1> QED BY <1>1, <1>2, <1>3, <1>4, <1>5, <1>6, ReaderQuiet, AloneNext DEF Turn

LEMMA OnceInit == Init => OnceInv
  BY DEF Init, OnceInv, Idle, Tasks
\* The feed shows every turn the offset has moved past, through crashes and
\* seeds, and while one task reads no turn twice: on_event's test of
\* last_turn_emit_msg_id (daemon/app.py) is enough whichever block of a turn is
\* the first to show something.
THEOREM TurnsShownOnce == Spec => []EachTurnShownOnce
<1>1. TypeInv /\ ShownInv /\ OnceInv => EachTurnShownOnce
  <2> SUFFICES ASSUME TypeInv, ShownInv, OnceInv PROVE EachTurnShownOnce
    OBVIOUS
  <2>1. ASSUME faults = 0, NEW i \in 1..stored \ hidden, text[i].kind = "assistant",
               text[i].msg # None, text[i].show
        PROVE  entries[text[i].msg] > 0
    <3>1. i \in 1..Len(text) /\ i <= stored
      BY DEF TypeInv, WorldOK
    <3> QED BY <2>1, <3>1 DEF ShownInv, ShownTo, ShowsTurn
  <2>2. ASSUME Alone, NEW m \in Messages, Together(m) PROVE entries[m] <= 1
    BY <2>2 DEF OnceInv
  <2> QED BY <2>1, <2>2 DEF EachTurnShownOnce, Alone
<1>2. Init => TypeInv /\ StageInv /\ ShownInv /\ FrontInv /\ OnceInv
  BY TypeInit, ShownInit, FrontInit, OnceInit
<1>3. TypeInv /\ StageInv /\ ShownInv /\ FrontInv /\ OnceInv /\ [Next]_vars =>
        (TypeInv /\ StageInv /\ ShownInv /\ FrontInv /\ OnceInv)'
  BY TypeStep, StageStep, ShownStep, FrontStep, OnceStep
<1>4. Spec => [](TypeInv /\ StageInv /\ ShownInv /\ FrontInv /\ OnceInv)
  BY <1>2, <1>3, PTL DEF Spec
<1> QED BY <1>1, <1>4, PTL

-----------------------------------------------------------------------------
(* One reader: the changes of permission mode. *)

\* The lines at which the mode changes, one line further.
LEMMA TurnsNext ==
    ASSUME NEW n \in Nat, NEW m, LastMode(m, n)
    PROVE  Turns(n + 1) = IF HasMode(n + 1) /\ m # None /\ text[n + 1].mode # m
                          THEN Turns(n) \cup {n + 1} ELSE Turns(n)
<1>1. \A i : i \in 1..n + 1 <=> i \in 1..n \/ i = n + 1
  OBVIOUS
<1>2. n + 1 - 1 = n
  OBVIOUS
<1>3. (\E p \in 1..n : Turned(p, n + 1))
         <=> HasMode(n + 1) /\ m # None /\ text[n + 1].mode # m
  <2>1. CASE m = None
    BY <2>1 DEF LastMode, Turned
  <2>2. CASE m # None
    <3>1. PICK q \in 1..n : /\ HasMode(q) /\ text[q].mode = m
                            /\ \A j \in q + 1..n : ~HasMode(j)
      BY <2>2 DEF LastMode
    <3>2. ASSUME NEW p \in 1..n, Turned(p, n + 1) PROVE p = q
      <4>1. HasMode(p) /\ \A j \in p + 1..n + 1 - 1 : ~HasMode(j)
        BY <3>2 DEF Turned
      <4>2. ~(p < q)
        BY <3>1, <4>1
      <4>3. ~(q < p)
        BY <3>1, <4>1
      <4> QED BY <4>2, <4>3
    <3>3. Turned(q, n + 1) <=> HasMode(n + 1) /\ text[n + 1].mode # m
      BY <3>1 DEF Turned
    <3> QED BY <2>2, <3>2, <3>3 DEF Turned
  <2> QED BY <2>1, <2>2
<1>4. \A i : i \in Turns(n + 1) <=> i \in Turns(n) \/ (i = n + 1 /\ \E p \in 1..n : Turned(p, n + 1))
  BY <1>1, <1>2 DEF Turns
<1> QED BY <1>3, <1>4

LEMMA LastModeNext ==
    ASSUME NEW n \in Nat, NEW m, LastMode(m, n)
    PROVE  LastMode(IF HasMode(n + 1) THEN text[n + 1].mode ELSE m, n + 1)
<1>1. CASE HasMode(n + 1)
  <2>1. n + 1 \in 1..n + 1 /\ \A j \in n + 1 + 1..n + 1 : FALSE
    OBVIOUS
  <2> QED BY <1>1, <2>1 DEF LastMode, HasMode
<1>2. CASE ~HasMode(n + 1)
  <2>1. \A j, p \in Nat : j \in p..n + 1 => j \in p..n \/ j = n + 1
    OBVIOUS
  <2>2. CASE m = None
    BY <1>2, <2>2 DEF LastMode
  <2>3. CASE m # None
    <3>1. PICK q \in 1..n : /\ HasMode(q) /\ text[q].mode = m
                            /\ \A j \in q + 1..n : ~HasMode(j)
      BY <2>3 DEF LastMode
    <3>2. q \in 1..n + 1 /\ \A j \in q + 1..n + 1 : ~HasMode(j)
      <4>1. \A j \in q + 1..n + 1 : j \in q + 1..n \/ j = n + 1
        OBVIOUS
      <4> QED BY <1>2, <3>1, <4>1
    <3> QED BY <1>2, <2>3, <3>1, <3>2 DEF LastMode
  <2> QED BY <2>2, <2>3
<1> QED BY <1>1, <1>2

\* The turns up to n are finitely many lines.
LEMMA TurnsFinite ==
    ASSUME NEW n \in Nat
    PROVE  IsFiniteSet(Turns(n)) /\ Turns(n) \subseteq 1..n
<1>1. Turns(n) \subseteq 1..n
  BY DEF Turns
<1>2. IsFiniteSet(1..n)
  BY FS_Interval
<1> QED BY <1>1, <1>2, FS_Subset

\* Where a turn's change is in the feed.
LEMMA TurnsRank ==
    ASSUME NEW n \in Nat, NEW i \in Turns(n)
    PROVE  Cardinality(Turns(i)) \in 1..Cardinality(Turns(n))
<1>1. i \in 1..n /\ i \in Turns(i) /\ Turns(i) \subseteq Turns(n)
  BY DEF Turns
<1>2. IsFiniteSet(Turns(n)) /\ IsFiniteSet(Turns(i))
  BY <1>1, TurnsFinite
<1>3. Cardinality(Turns(i)) <= Cardinality(Turns(n))
  BY <1>1, <1>2, FS_Subset
<1>4. Cardinality(Turns(i)) # 0 /\ Cardinality(Turns(i)) \in Nat
      /\ Cardinality(Turns(n)) \in Nat
  BY <1>1, <1>2, FS_EmptySet, FS_CardinalityType
<1> QED BY <1>3, <1>4
\* What the feed says stays true of the lines it is about.
LEMMA ModeSame ==
    ASSUME text' = text, hidden' = hidden, changes' = changes
    PROVE  /\ \A n : ChangesTo(n) => ChangesTo(n)'
           /\ \A m, n : LastMode(m, n) => LastMode(m, n)'
<1>1. \A i : HasMode(i)' <=> HasMode(i)
  BY DEF HasMode
<1>2. \A p, i : Turned(p, i)' <=> Turned(p, i)
  BY <1>1 DEF Turned
<1>3. \A n : Turns(n)' = Turns(n)
  BY <1>2 DEF Turns
<1>4. \A n : ChangesTo(n) => ChangesTo(n)'
  BY <1>2, <1>3 DEF ChangesTo
<1>5. \A m, n : LastMode(m, n) => LastMode(m, n)'
  BY <1>1 DEF LastMode
<1> QED BY <1>4, <1>5

\* A line that changes no mode.
LEMMA ChangesNext ==
    ASSUME NEW n \in Nat, NEW m, LastMode(m, n), ChangesTo(n),
           ~(HasMode(n + 1) /\ m # None /\ text[n + 1].mode # m)
    PROVE  ChangesTo(n + 1)
<1>1. Turns(n + 1) = Turns(n)
  BY TurnsNext
<1> QED BY <1>1 DEF ChangesTo

\* A line that changes it, and the change published.
LEMMA ChangesAdded ==
    ASSUME TypeInv, NEW n \in Nat, NEW m, LastMode(m, n), ChangesTo(n),
           HasMode(n + 1), m # None, text[n + 1].mode # m,
           text' = text, hidden' = hidden,
           changes' = Append(changes, <<m, text[n + 1].mode>>)
    PROVE  \A k : k = n + 1 => ChangesTo(k)'
<1> DEFINE e == <<m, text[n + 1].mode>>
<1>1. Turns(n + 1) = Turns(n) \cup {n + 1} /\ n + 1 \notin Turns(n)
  <2>1. n + 1 \notin 1..n /\ Turns(n) \subseteq 1..n
    BY TurnsFinite
  <2>2. Turns(n + 1) = Turns(n) \cup {n + 1}
    BY TurnsNext
  <2> QED BY <2>1, <2>2
<1>2. Cardinality(Turns(n + 1)) = Cardinality(Turns(n)) + 1
      /\ Cardinality(Turns(n)) \in Nat
  BY <1>1, TurnsFinite, FS_AddElement, FS_CardinalityType
<1>3. Len(changes) = Cardinality(Turns(n)) /\ changes \in Seq(Modes \X Modes)
  BY DEF ChangesTo, TypeInv, HistoryOK
<1> HIDE DEF e
<1>4. /\ Len(changes') = Len(changes) + 1
      /\ changes'[Len(changes) + 1] = e
      /\ \A j \in 1..Len(changes) : changes'[j] = changes[j]
  <2>1. changes' = Append(changes, e)
    BY DEF e
  <2> DEFINE S == (Modes \X Modes) \cup {e}
  <2>2. changes \in Seq(S) /\ e \in S
    BY <1>3
  <2> HIDE DEF S
  <2>3. /\ Len(Append(changes, e)) = Len(changes) + 1
        /\ Append(changes, e)[Len(changes) + 1] = e
        /\ \A j \in 1..Len(changes) : Append(changes, e)[j] = changes[j]
    BY <2>2, AppendProperties
  <2> QED BY <2>1, <2>3
<1>5. \A i : HasMode(i)' <=> HasMode(i)
  BY DEF HasMode
<1>6. \A p, i : Turned(p, i)' <=> Turned(p, i)
  BY <1>5 DEF Turned
<1>7. \A k : Turns(k)' = Turns(k)
  BY <1>6 DEF Turns
<1>8. Len(changes') = Cardinality(Turns(n + 1))
  BY <1>2, <1>3, <1>4
<1>9. ASSUME NEW i \in Turns(n + 1)
      PROVE  \E p \in 1..i - 1 :
                /\ Turned(p, i)
                /\ changes'[Cardinality(Turns(i))] = <<text[p].mode, text[i].mode>>
  <2>1. CASE i \in Turns(n)
    <3>1. Cardinality(Turns(i)) \in 1..Len(changes)
      BY <1>3, <2>1, TurnsRank
    <3>2. PICK p \in 1..i - 1 :
                /\ Turned(p, i)
                /\ changes[Cardinality(Turns(i))] = <<text[p].mode, text[i].mode>>
      BY <2>1 DEF ChangesTo
    <3> QED BY <1>4, <3>1, <3>2
  <2>2. CASE i = n + 1
    <3>1. PICK p \in 1..i - 1 : Turned(p, i)
      BY <1>9 DEF Turns
    <3>2. text[p].mode = m
      <4>1. PICK q \in 1..n : /\ HasMode(q) /\ text[q].mode = m
                              /\ \A j \in q + 1..n : ~HasMode(j)
        BY DEF LastMode
      <4>2. p \in 1..n /\ HasMode(p) /\ \A j \in p + 1..n : ~HasMode(j)
        BY <2>2, <3>1 DEF Turned
      <4> QED BY <4>1, <4>2
    <3>3. changes'[Cardinality(Turns(i))] = <<text[p].mode, text[i].mode>>
      BY <1>2, <1>3, <1>4, <2>2, <3>2 DEF e
    <3> QED BY <3>1, <3>3
  <2> QED BY <1>1, <1>9, <2>1, <2>2
<1>10. \A k : k = n + 1 => Turns(k)' = Turns(n + 1)
  BY <1>7
<1> QED BY <1>6, <1>7, <1>8, <1>9 DEF ChangesTo
\* Lines whose mode change is published.
ChangedTo == IF job[Watch].pc = "change" THEN job[Watch].at ELSE Handled

\* The reader goes on in its line, and its FileState keeps its mode.
LEMMA ModeGoes ==
    ASSUME TypeInv, StageInv, FrontInv, ModeInv, Alone,
           job[Watch].pc \notin {"idle", "store", "change"},
           UNCHANGED <<text, hidden, changes, reg>>, files'[reg].mode = files[reg].mode,
           NEW pc \in Stages \ {"store", "change"}, GoTo(Watch, pc)
    PROVE  ModeInv'
<1>1. /\ job'[Watch].pc = pc /\ Handled' = Handled /\ FileMode' = FileMode
  BY ReaderGoes, ReaderAt
<1>2. ChangesTo(Handled) /\ LastMode(FileMode, Handled)
  BY DEF ModeInv
<1>3. ChangesTo(Handled)' /\ LastMode(FileMode, Handled)'
  <2>1. \A n : n = Handled => ChangesTo(n)'
    BY <1>2, ModeSame
  <2>2. \A m, n : m = FileMode /\ n = Handled => LastMode(m, n)'
    BY <1>2, ModeSame
  <2> QED BY <1>1, <2>1, <2>2
<1> QED BY <1>1, <1>3 DEF ModeInv

\* The reader is done with its line, and its FileState has the mode of it.
LEMMA ModeDone ==
    ASSUME TypeInv, StageInv, FrontInv, ModeInv, Alone,
           job[Watch].pc \notin {"idle", "store"},
           UNCHANGED <<text, hidden, changes, reg>>,
           NEW f \in FileStates, Done(Watch, f),
           f.mode = IF LineOf(Watch).mode = None THEN FileOf(Watch).mode
                    ELSE LineOf(Watch).mode,
           job[Watch].pc = "change" \/ ~Changes(Watch)
    PROVE  ModeInv'
<1> DEFINE n == Handled
           m == FileMode
<1>1. /\ Handled' = n + 1 /\ n + 1 = job[Watch].at /\ n \in Nat /\ FileMode' = f.mode
      /\ job'[Watch].pc # "change"
  BY ReaderDone, ReaderAt
<1>2. /\ HasMode(n + 1) <=> LineOf(Watch).mode # None
      /\ LineOf(Watch).mode = text[n + 1].mode /\ m = FileOf(Watch).mode
  BY <1>1, ReaderAt DEF HasMode
<1>3. LastMode(m, n)
  BY DEF ModeInv
<1> HIDE DEF n, m
<1>4. LastMode(f.mode, n + 1)
  BY <1>1, <1>2, <1>3, LastModeNext
<1>5. ChangesTo(n + 1)
  <2>1. CASE job[Watch].pc = "change"
    BY <1>1, <2>1 DEF ModeInv
  <2>2. CASE ~Changes(Watch) /\ job[Watch].pc # "change"
    <3>1. ChangesTo(n)
      BY <2>2 DEF ModeInv, n
    <3>2. ~(HasMode(n + 1) /\ m # None /\ text[n + 1].mode # m)
      BY <1>2, <2>2 DEF Changes
    <3> QED BY <1>1, <1>3, <3>1, <3>2, ChangesNext
  <2> QED BY <2>1, <2>2
<1>6. \A k : k = n + 1 => ChangesTo(k)' /\ LastMode(f.mode, k)'
  <2>1. \A k : k = n + 1 => ChangesTo(k)'
    BY <1>5, ModeSame
  <2>2. \A l, k : l = f.mode /\ k = n + 1 => LastMode(l, k)'
    BY <1>4, ModeSame
  <2> QED BY <2>1, <2>2
<1> QED BY <1>1, <1>6 DEF ModeInv

\* Assistant lines carry no mode, and results alone say what was interrupted.
LEMMA LinePlain ==
    ASSUME StageInv, NEW i \in 1..Len(text), text \in Seq(Lines)
    PROVE  /\ text[i].kind = "assistant" => text[i].mode = None
           /\ text[i].kind # "result" => text[i].stop = None
<1>1. i \in DOMAIN text
  OBVIOUS
<1> QED BY <1>1, DispatcherAssumption DEF StageInv

LEMMA ModeTurn ==
    ASSUME TypeInv, StageInv, FrontInv, ModeInv, Alone,
           \/ Open(Watch) \/ RecordMetric(Watch) \/ RecordMetricFails(Watch)
           \/ Extend(Watch) \/ PublishTurn(Watch) \/ PublishTurnFails(Watch)
           \/ NoteCall(Watch)
    PROVE  ModeInv'
<1>1. Watch \in Tasks
  BY DEF Tasks
<1>2. /\ job[Watch].pc \in {"line", "open", "metric", "turn", "call"}
      /\ UNCHANGED <<text, hidden, changes, reg>>
  <2>1. UNCHANGED <<text, hidden, reg>>
    BY <1>1, LineStill DEF Turn, Rest
  <2>2. changes' = changes
    BY DEF Open, RecordMetric, RecordMetricFails, Recorded, Extend, PublishTurn,
           PublishTurnFails, NoteCall, modeVars
  <2>3. job[Watch].pc \in {"line", "open", "metric", "turn", "call"}
    BY DEF Open, RecordMetric, RecordMetricFails, Recorded, Extend, PublishTurn,
           PublishTurnFails, Published, NoteCall, Closes
  <2> QED BY <2>1, <2>2, <2>3
<1>3. /\ FileOf(Watch) \in FileStates /\ LineOf(Watch) = text[job[Watch].at]
      /\ job[Watch].at \in 1..Len(text) /\ StageOK(job[Watch], text)
      /\ LineOf(Watch) \in Lines /\ text \in Seq(Lines)
  BY <1>2, ReaderAt DEF TypeInv, WorldOK
<1>4. ASSUME LineOf(Watch).kind = "assistant", NEW f \in FileStates,
             Done(Watch, f), f.mode = FileOf(Watch).mode
      PROVE  ModeInv'
  <2>1. LineOf(Watch).mode = None
    BY <1>3, <1>4, LinePlain
  <2> QED BY <1>2, <1>4, <2>1, ModeDone DEF Changes
<1>5. ASSUME files' = files, NEW pc \in {"told", "turn", "call"}, GoTo(Watch, pc)
      PROVE  ModeInv'
  BY <1>2, <1>5, ModeGoes DEF Stages
<1>6. CASE Open(Watch) \/ RecordMetric(Watch) \/ RecordMetricFails(Watch) \/ Extend(Watch)
  <2>1. Onward(Watch) /\ LineOf(Watch).kind \in {"assistant", "prompt"}
    BY <1>1, <1>6, ReaderOnward
  <2> QED BY <1>3, <1>4, <1>5, <2>1, OnwardIs
<1>7. CASE PublishTurn(Watch) \/ PublishTurnFails(Watch)
  <2>1. LineOf(Watch).kind = "assistant"
    BY <1>3, <1>7 DEF PublishTurn, PublishTurnFails, Published, StageOK
  <2>2. \/ Done(Watch, FileOf(Watch))
        \/ files' = files /\ GoTo(Watch, "call")
    BY <1>7 DEF PublishTurn, PublishTurnFails, Published
  <2> QED BY <1>3, <1>4, <1>5, <2>1, <2>2
<1>8. CASE NoteCall(Watch)
  <2> DEFINE f == [FileOf(Watch) EXCEPT !.names = Named(@, LineOf(Watch).call)]
  <2>1. Done(Watch, f) /\ LineOf(Watch).kind = "assistant" /\ LineOf(Watch).call # None
    BY <1>1, <1>3, <1>8, LineTypes DEF NoteCall, StageOK, JobOK
  <2>2. Named(FileOf(Watch).names, LineOf(Watch).call) \in Seq(Calls)
    BY <1>2, <1>3, <2>1, ReaderAt, NamedTypes DEF Lines
  <2>3. f \in FileStates /\ f.mode = FileOf(Watch).mode
    BY <1>3, <2>2 DEF FileStates
  <2> HIDE DEF f
  <2> QED BY <1>4, <2>1, <2>3
<1> QED BY <1>6, <1>7, <1>8
\* An interruption names its tool, or not; the FileState keeps the rest.
LEMMA InterruptIs ==
    ASSUME TypeInv, StageInv, FrontInv, Alone, Interrupt(Watch)
    PROVE  /\ job[Watch].pc = "line" /\ LineOf(Watch).stop # None
           /\ UNCHANGED <<text, hidden, changes, entries, emitted, reg>>
           /\ GoTo(Watch, "told") /\ files'[reg].mode = files[reg].mode
           /\ files'[reg].names = Without(FileNames, LineOf(Watch).stop)
           /\ stops' = Append(stops, [at |-> job[Watch].at, named |->
                 \E q \in 1..Len(FileNames) : FileNames[q] = LineOf(Watch).stop])
<1> DEFINE names == Without(FileOf(Watch).names, LineOf(Watch).stop)
           g == [FileOf(Watch) EXCEPT !.names = names]
<1>1. /\ job[Watch].pc = "line" /\ LineOf(Watch).stop # None
      /\ UNCHANGED <<text, hidden, changes, entries, emitted, reg>>
      /\ GoTo(Watch, "told")
  BY DEF Interrupt, outerVars, logVars, feedVars
<1>2. /\ FileOf(Watch) \in FileStates /\ reg \in 1..Len(files) /\ job[Watch].f = reg
      /\ FileOf(Watch) = files[reg] /\ FileOf(Watch).names = FileNames
      /\ FileNames \in Seq(Calls) /\ Len(FileNames) <= Cap
      /\ files \in Seq(FileStates)
  BY <1>1, ReaderAt DEF TypeInv, FilesOK
<1>3. names \in Seq(Calls)
  BY <1>2, WithoutTypes
<1>4. files' = [files EXCEPT ![reg] = g]
  BY <1>2 DEF Interrupt, FileOf
<1>5. DOMAIN FileNames = 1..Len(FileNames)
  BY <1>2
<1>6. stops' = Append(stops, [at |-> job[Watch].at, named |->
                 \E q \in 1..Len(FileNames) : FileNames[q] = LineOf(Watch).stop])
  BY <1>2, <1>5 DEF Interrupt
<1> HIDE DEF names
<1>7. g \in FileStates /\ g.names = names /\ g.mode = FileOf(Watch).mode
  BY <1>2, <1>3 DEF FileStates
<1> HIDE DEF g
<1>8. files'[reg] = g
  BY <1>2, <1>4
<1> QED BY <1>1, <1>2, <1>6, <1>7, <1>8 DEF names

LEMMA ModeRest ==
    ASSUME TypeInv, StageInv, FrontInv, ModeInv, Alone,
           Interrupt(Watch) \/ SameMode(Watch) \/ ChangeMode(Watch) \/ ModeChanged(Watch)
    PROVE  ModeInv'
<1>1. CASE Interrupt(Watch)
  BY <1>1, InterruptIs, ModeGoes DEF Stages
<1>2. ASSUME job[Watch].pc \notin {"idle", "store"}
      PROVE  /\ KeepMode(Watch) \in FileStates
             /\ KeepMode(Watch).mode = IF LineOf(Watch).mode = None
                                       THEN FileOf(Watch).mode ELSE LineOf(Watch).mode
             /\ KeepMode(Watch).names = FileOf(Watch).names
  BY <1>2, ReaderAt DEF KeepMode, FileStates, Lines
<1>3. CASE SameMode(Watch)
  <2>1. /\ job[Watch].pc \notin {"idle", "store"} /\ ~Changes(Watch)
        /\ Done(Watch, KeepMode(Watch)) /\ UNCHANGED <<text, hidden, changes, reg>>
    BY <1>3 DEF SameMode, AtMode, outerVars, logVars, modeVars
  <2> QED BY <1>2, <2>1, ModeDone
<1>4. CASE ModeChanged(Watch)
  <2>1. /\ job[Watch].pc = "change"
        /\ Done(Watch, KeepMode(Watch)) /\ UNCHANGED <<text, hidden, changes, reg>>
    BY <1>4 DEF ModeChanged, outerVars, logVars, modeVars
  <2> QED BY <1>2, <2>1, ModeDone
<1>5. CASE ChangeMode(Watch)
  <2> DEFINE n == Handled
             m == FileMode
  <2>1. /\ job[Watch].pc \notin {"idle", "store", "change"} /\ Changes(Watch)
        /\ changes' = Append(changes, <<FileOf(Watch).mode, LineOf(Watch).mode>>)
        /\ GoTo(Watch, "change") /\ UNCHANGED <<text, hidden, files, reg>>
    BY <1>5 DEF ChangeMode, AtMode, outerVars, logVars, fileVars
  <2>2. /\ n \in Nat /\ n + 1 = job[Watch].at /\ m = FileOf(Watch).mode
        /\ HasMode(n + 1) <=> LineOf(Watch).mode # None
        /\ LineOf(Watch).mode = text[n + 1].mode
    BY <2>1, ReaderAt DEF HasMode
  <2>3. /\ job'[Watch].pc = "change" /\ job'[Watch].at = n + 1 /\ Handled' = n
        /\ FileMode' = m
    BY <2>1, <2>2, ReaderGoes DEF FileMode, Stages
  <2>4. ChangesTo(n) /\ LastMode(m, n)
    BY <2>1 DEF ModeInv
  <2> HIDE DEF n, m
  <2>5. \A k : k = n + 1 => ChangesTo(k)'
    BY <2>1, <2>2, <2>4, ChangesAdded DEF Changes
  <2>6. \A l, k : l = m /\ k = n => LastMode(l, k)'
    <3>1. n \in Nat /\ text' = text /\ hidden' = hidden
      BY <2>1, <2>2
    <3>2. \A i : HasMode(i)' <=> HasMode(i)
      BY <3>1 DEF HasMode
    <3> QED BY <2>4, <3>1, <3>2 DEF LastMode
  <2> QED BY <2>3, <2>5, <2>6 DEF ModeInv
<1> QED BY <1>1, <1>3, <1>4, <1>5

LEMMA ModeStep ==
    ASSUME TypeInv, StageInv, FrontInv, ModeInv, [Next]_vars
    PROVE  ModeInv'
<1> SUFFICES ASSUME Alone' PROVE ModeInv'
  BY DEF ModeInv
<1>1. Alone
  BY AloneNext
<1>2. CASE Quiet
  <2>1. /\ UNCHANGED <<text, hidden, changes>> /\ ChangedTo' = ChangedTo
        /\ FileMode' = FileMode /\ Handled' = Handled
    BY <1>2 DEF Quiet, ChangedTo
  <2>2. \A k : k = ChangedTo => ChangesTo(k)'
    BY <1>1, <2>1, ModeSame DEF ModeInv, ChangedTo
  <2>3. \A l, k : l = FileMode /\ k = Handled => LastMode(l, k)'
    BY <1>1, <2>1, ModeSame DEF ModeInv
  <2> QED BY <2>1, <2>2, <2>3 DEF ModeInv, ChangedTo
<1>3. CASE StartHiding
  <2>1. /\ text' = text /\ hidden' = hidden \cup (stored + 1)..written /\ stored' = written
        /\ changes' = changes /\ changes = <<>> /\ reg' = 0 /\ stored = 0
        /\ written \in Nat /\ job' = job /\ job[Watch] = Idle
    BY <1>1, <1>3 DEF StartHiding, FrontInv, fileVars, modeVars, TypeInv, WorldOK, JobsOK,
                      Tasks
  <2>2. /\ Handled' = written /\ FileMode' = None /\ job'[Watch].pc # "change"
    BY <2>1 DEF Handled, FileMode, Idle
  <2>3. \A i \in 1..written : ~HasMode(i)'
    BY <2>1 DEF HasMode
  <2>4. \A k : k = written => LastMode(None, k)' /\ Turns(k)' = {}
    <3>1. \A i, p \in 1..written : ~Turned(p, i)'
      BY <2>3 DEF Turned
    <3>2. \A i \in 1..written : \A p \in 1..i - 1 : p \in 1..written
      BY <2>1
    <3>3. \A k : k = written => Turns(k)' = {}
      BY <3>1, <3>2 DEF Turns
    <3> QED BY <2>3, <3>3 DEF LastMode
  <2>5. \A k : k = written => ChangesTo(k)'
    BY <2>1, <2>4, FS_EmptySet DEF ChangesTo
  <2> QED BY <2>2, <2>4, <2>5 DEF ModeInv
<1> QED BY <1>1, <1>2, <1>3, ReaderQuiet, ModeTurn, ModeRest, AloneNext DEF Turn, Rest

LEMMA ModeInit == Init => ModeInv
<1> SUFFICES ASSUME Init PROVE ModeInv
  OBVIOUS
<1>1. Handled = 0 /\ FileMode = None /\ changes = <<>> /\ job[Watch].pc # "change"
  BY DEF Init, Handled, FileMode, Idle, Tasks
<1>2. Turns(0) = {} /\ LastMode(None, 0)
  BY DEF Turns, LastMode
<1>3. ChangesTo(0)
  BY <1>1, <1>2, FS_EmptySet DEF ChangesTo
<1> QED BY <1>1, <1>2, <1>3 DEF ModeInv

\* While one task reads, the feed's permission_mode_change events are those of
\* the transcript, each once, in its order and with the mode before it: what
\* on_event (daemon/app.py) means to say of a mode that it carries from line to
\* line in the FileState, and keeps only after the event has been published.
THEOREM ModeChangesAreTrue == Spec => []ModeChangesTrue
<1>1. ModeInv => ModeChangesTrue
  BY DEF ModeInv, ModeChangesTrue, Alone, ChangesTo
<1>2. Init => TypeInv /\ StageInv /\ FrontInv /\ ModeInv
  BY TypeInit, ShownInit, FrontInit, ModeInit
<1>3. TypeInv /\ StageInv /\ FrontInv /\ ModeInv /\ [Next]_vars =>
        (TypeInv /\ StageInv /\ FrontInv /\ ModeInv)'
  BY TypeStep, StageStep, FrontStep, ModeStep
<1>4. Spec => [](TypeInv /\ StageInv /\ FrontInv /\ ModeInv)
  BY <1>2, <1>3, PTL DEF Spec
<1> QED BY <1>1, <1>4, PTL
-----------------------------------------------------------------------------
(* One reader: the names of interrupted calls. *)

\* tool_use_names with a call added: as it was or with the call at its end, and
\* without its first entries when it would be too long.
LEMMA NamedIs ==
    ASSUME NEW names \in Seq(Calls), Len(names) <= Cap, NEW c \in Calls
    PROVE  \/ Named(names, c) = names /\ \E i \in 1..Len(names) : names[i] = c
           \/ \E d \in Nat :
                /\ d = 0 \/ (d = Drop /\ Len(names) = Cap)
                /\ Named(names, c) \in Seq(Calls)
                /\ Len(Named(names, c)) = Len(names) + 1 - d
                /\ \A q \in 1..Len(names) - d : Named(names, c)[q] = names[q + d]
                /\ Named(names, c)[Len(names) + 1 - d] = c
                /\ \A i \in 1..Len(names) : names[i] # c
<1>1. CASE \E i \in 1..Len(names) : names[i] = c
  <2>1. \E i \in DOMAIN names : names[i] = c
    BY <1>1
  <2>2. ~(Len(names) > Cap)
    BY DispatcherAssumption
  <2> QED BY <1>1, <2>1, <2>2 DEF Named
<1>2. CASE ~\E i \in 1..Len(names) : names[i] = c
  <2> DEFINE all == Append(names, c)
  <2>1. /\ all \in Seq(Calls) /\ Len(all) = Len(names) + 1
        /\ \A i \in 1..Len(names) : all[i] = names[i]
        /\ all[Len(names) + 1] = c
    BY AppendProperties
  <2>2. Named(names, c) = IF Len(all) > Cap THEN SubSeq(all, Drop + 1, Len(all)) ELSE all
    BY <1>2 DEF Named
  <2>3. Len(names) \in Nat /\ Cap \in Nat /\ Drop \in 1..Cap
    BY DispatcherAssumption
  <2> HIDE DEF all
  <2>4. CASE ~(Len(all) > Cap)
    <3>1. /\ Len(all) = Len(names) + 1 - 0
          /\ \A q \in 1..Len(names) - 0 : all[q] = names[q + 0]
          /\ all[Len(names) + 1 - 0] = c /\ 0 \in Nat
      BY <2>1, <2>3
    <3>2. Named(names, c) = all
      BY <2>2, <2>4
    <3> QED BY <1>2, <2>1, <3>1, <3>2
  <2>5. CASE Len(all) > Cap
    <3>1. Len(names) = Cap /\ Drop \in Nat
      BY <2>1, <2>3, <2>5
    <3> DEFINE s == SubSeq(all, Drop + 1, Len(all))
    <3>2. /\ s \in Seq(Calls) /\ Len(s) = Len(all) - Drop
          /\ \A q \in 1..Len(all) - Drop : s[q] = all[q + Drop]
      <4>1. \A i \in Drop + 1..Len(all) : all[i] \in Calls
        BY <2>1, <2>3, ElementOfSeq
      <4> QED BY <2>1, <2>3, <2>5, <4>1
    <3>3. Named(names, c) = s
      BY <2>2, <2>5
    <3> HIDE DEF s
    <3>4. /\ Len(s) = Len(names) + 1 - Drop
          /\ \A q \in 1..Len(names) - Drop : s[q] = names[q + Drop]
          /\ s[Len(names) + 1 - Drop] = c
      <4>1. ASSUME NEW q \in 1..Len(names) - Drop PROVE s[q] = names[q + Drop]
        <5>1. q \in 1..Len(all) - Drop /\ q + Drop \in 1..Len(names)
          BY <2>1, <2>3
        <5> QED BY <2>1, <3>2, <5>1
      <4>2. s[Len(names) + 1 - Drop] = c
        <5>1. Len(names) + 1 - Drop \in 1..Len(all) - Drop
              /\ Len(names) + 1 - Drop + Drop = Len(names) + 1
          BY <2>1, <2>3, <3>1
        <5> QED BY <2>1, <3>2, <5>1
      <4> QED BY <2>1, <2>3, <3>2, <4>1, <4>2
    <3> QED BY <1>2, <3>1, <3>2, <3>3, <3>4
  <2> QED BY <2>4, <2>5
<1> QED BY <1>1, <1>2

\* It holds the call added, and no other that it did not hold before.
LEMMA NamedFrom ==
    ASSUME NEW names \in Seq(Calls), Len(names) <= Cap, NEW c \in Calls
    PROVE  /\ \A q \in 1..Len(Named(names, c)) : \/ Named(names, c)[q] = c
                 \/ \E i \in 1..Len(names) : names[i] = Named(names, c)[q]
           /\ (\A i \in 1..Len(names) : names[i] # c) => Held(Named(names, c), c, 1)
<1>1. CASE Named(names, c) = names /\ \E i \in 1..Len(names) : names[i] = c
  BY <1>1
<1>2. CASE \E d \in Nat :
                /\ d = 0 \/ (d = Drop /\ Len(names) = Cap)
                /\ Len(Named(names, c)) = Len(names) + 1 - d
                /\ \A q \in 1..Len(names) - d : Named(names, c)[q] = names[q + d]
                /\ Named(names, c)[Len(names) + 1 - d] = c
  <2>1. PICK d \in Nat :
                /\ d = 0 \/ (d = Drop /\ Len(names) = Cap)
                /\ Len(Named(names, c)) = Len(names) + 1 - d
                /\ \A q \in 1..Len(names) - d : Named(names, c)[q] = names[q + d]
                /\ Named(names, c)[Len(names) + 1 - d] = c
    BY <1>2
  <2>2. Len(names) \in Nat /\ d <= Len(names)
    BY <2>1, DispatcherAssumption
  <2>3. ASSUME NEW q \in 1..Len(Named(names, c))
        PROVE  \/ Named(names, c)[q] = c
               \/ \E i \in 1..Len(names) : names[i] = Named(names, c)[q]
    <3>1. CASE q = Len(names) + 1 - d
      BY <2>1, <3>1
    <3>2. CASE q # Len(names) + 1 - d
      <4>1. q \in 1..Len(names) - d /\ q + d \in 1..Len(names)
        BY <2>1, <2>2, <3>2
      <4> QED BY <2>1, <4>1
    <3> QED BY <3>1, <3>2
  <2>4. Held(Named(names, c), c, 1)
    <3>1. Len(names) + 1 - d \in 1..Len(Named(names, c))
      BY <2>1, <2>2
    <3> QED BY <2>1, <2>2, <3>1 DEF Held
  <2> QED BY <2>3, <2>4
<1> QED BY <1>1, <1>2, NamedIs

\* A call it held moves back by one place at most, and is dropped only if more
\* calls come after it than the cache is sure to hold.
LEMMA NamedHeld ==
    ASSUME NEW names \in Seq(Calls), Len(names) <= Cap, NEW c \in Calls, NEW e,
           NEW r \in Nat, Held(names, e, r), r + 1 <= Cap + 1 - Drop
    PROVE  Held(Named(names, c), e, r + 1)
<1>1. PICK q \in 1..Len(names) : names[q] = e /\ Len(names) - q + 1 <= r
  BY DEF Held
<1>2. Len(names) \in Nat /\ Cap \in Nat /\ Drop \in 1..Cap
  BY DispatcherAssumption
<1>3. CASE Named(names, c) = names
  BY <1>1, <1>2, <1>3 DEF Held
<1>4. CASE \E d \in Nat :
                /\ d = 0 \/ (d = Drop /\ Len(names) = Cap)
                /\ Len(Named(names, c)) = Len(names) + 1 - d
                /\ \A p \in 1..Len(names) - d : Named(names, c)[p] = names[p + d]
  <2>1. PICK d \in Nat :
                /\ d = 0 \/ (d = Drop /\ Len(names) = Cap)
                /\ Len(Named(names, c)) = Len(names) + 1 - d
                /\ \A p \in 1..Len(names) - d : Named(names, c)[p] = names[p + d]
    BY <1>4
  <2>2. q - d \in 1..Len(names) - d /\ q - d + d = q
    BY <1>1, <1>2, <2>1
  <2>3. Named(names, c)[q - d] = e
    BY <1>1, <2>1, <2>2
  <2>4. q - d \in 1..Len(Named(names, c))
        /\ Len(Named(names, c)) - (q - d) + 1 <= r + 1
    BY <1>1, <1>2, <2>1, <2>2
  <2> QED BY <2>3, <2>4 DEF Held
<1> QED BY <1>3, <1>4, NamedIs

\* tool_use_names without a call: the others keep their order and are no further
\* from the end.
LEMMA WithoutHeld ==
    ASSUME NEW names \in Seq(Calls), NEW c
    PROVE  /\ \A q \in 1..Len(Without(names, c)) :
                 \E i \in 1..Len(names) : names[i] = Without(names, c)[q]
           /\ \A e, r : e # c /\ r \in Nat /\ Held(names, e, r) =>
                 Held(Without(names, c), e, r)
<1>1. CASE ~\E i \in DOMAIN names : names[i] = c
  BY <1>1 DEF Without
<1>2. CASE \E i \in DOMAIN names : names[i] = c
  <2> DEFINE i == CHOOSE i \in DOMAIN names : names[i] = c
             a == SubSeq(names, 1, i - 1)
             b == SubSeq(names, i + 1, Len(names))
             w == a \o b
  <2>1. i \in 1..Len(names) /\ Len(names) \in Nat /\ names[i] = c
    BY <1>2
  <2>2. Without(names, c) = w
    BY <1>2 DEF Without
  <2> HIDE DEF i
  <2>3. a \in Seq(Calls) /\ Len(a) = i - 1 /\ \A q \in 1..i - 1 : a[q] = names[q]
    BY <2>1
  <2>4. /\ b \in Seq(Calls) /\ Len(b) = Len(names) - i
        /\ \A q \in 1..Len(names) - i : b[q] = names[q + i]
    BY <2>1
  <2> HIDE DEF a, b
  <2>5. /\ Len(w) = Len(names) - 1
        /\ \A q \in 1..Len(names) - 1 : w[q] = IF q < i THEN names[q] ELSE names[q + 1]
    <3>1. /\ Len(w) = Len(a) + Len(b)
          /\ \A q \in 1..Len(a) + Len(b) :
                w[q] = IF q <= Len(a) THEN a[q] ELSE b[q - Len(a)]
      BY <2>3, <2>4, ConcatProperties
    <3>2. ASSUME NEW q \in 1..Len(names) - 1, q < i PROVE w[q] = names[q]
      BY <2>1, <2>3, <2>4, <3>1, <3>2
    <3>3. ASSUME NEW q \in 1..Len(names) - 1, ~(q < i) PROVE w[q] = names[q + 1]
      <4>1. w[q] = b[q - (i - 1)]
        BY <2>1, <2>3, <2>4, <3>1, <3>3
      <4>2. q - (i - 1) \in 1..Len(names) - i /\ q - (i - 1) + i = q + 1
        BY <2>1, <3>3
      <4> QED BY <2>4, <4>1, <4>2
    <3> QED BY <2>1, <2>3, <2>4, <3>1, <3>2, <3>3
  <2> HIDE DEF w
  <2>6. \A q \in 1..Len(w) : \E k \in 1..Len(names) : names[k] = w[q]
    <3> SUFFICES ASSUME NEW q \in 1..Len(w)
                 PROVE  \E k \in 1..Len(names) : names[k] = w[q]
      OBVIOUS
    <3>1. q \in 1..Len(names) - 1 /\ q \in 1..Len(names) /\ q + 1 \in 1..Len(names)
      BY <2>1, <2>5
    <3> QED BY <2>5, <3>1
  <2>7. ASSUME NEW e, NEW r \in Nat, e # c, Held(names, e, r) PROVE Held(w, e, r)
    <3>1. PICK q \in 1..Len(names) : names[q] = e /\ Len(names) - q + 1 <= r
      BY <2>7 DEF Held
    <3>2. q # i
      BY <2>1, <2>7, <3>1
    <3>3. CASE q < i
      <4>1. q \in 1..Len(w) /\ w[q] = e /\ Len(w) - q + 1 <= r
        BY <2>1, <2>5, <3>1, <3>3
      <4> QED BY <4>1 DEF Held
    <3>4. CASE i < q
      <4>1. q - 1 \in 1..Len(names) - 1 /\ ~(q - 1 < i) /\ q - 1 + 1 = q
        BY <2>1, <3>1, <3>4
      <4>2. q - 1 \in 1..Len(w) /\ w[q - 1] = e /\ Len(w) - (q - 1) + 1 <= r
        BY <2>1, <2>5, <3>1, <4>1
      <4> QED BY <4>2 DEF Held
    <3> QED BY <2>1, <3>2, <3>3, <3>4
  <2> QED BY <2>2, <2>6, <2>7
<1> QED BY <1>1, <1>2
\* The calls since line k, one line further.
LEMMA CallsSinceNext ==
    ASSUME NEW n \in Nat, NEW k \in 1..n
    PROVE  /\ Cardinality(CallsSince(k, n)) \in Nat
           /\ ~Called(n + 1) => CallsSince(k, n + 1) = CallsSince(k, n)
           /\ Called(n + 1) => Cardinality(CallsSince(k, n + 1)) =
                                  Cardinality(CallsSince(k, n)) + 1
<1>1. \A l : l \in k..n + 1 <=> l \in k..n \/ l = n + 1
  OBVIOUS
<1>2. CallsSince(k, n) \subseteq k..n /\ n + 1 \notin k..n
  BY DEF CallsSince
<1>3. IsFiniteSet(CallsSince(k, n))
  BY <1>2, FS_Interval, FS_Subset
<1>4. ~Called(n + 1) => CallsSince(k, n + 1) = CallsSince(k, n)
  BY <1>1 DEF CallsSince
<1>5. Called(n + 1) => CallsSince(k, n + 1) = CallsSince(k, n) \cup {n + 1}
  BY <1>1 DEF CallsSince
<1> QED BY <1>2, <1>3, <1>4, <1>5, FS_AddElement, FS_CardinalityType

LEMMA CallsSinceOwn ==
    ASSUME NEW k \in Nat, Called(k)
    PROVE  Cardinality(CallsSince(k, k)) = 1
<1>1. CallsSince(k, k) = {k}
  <2>1. \A l : l \in k..k <=> l = k
    OBVIOUS
  <2> QED BY <2>1 DEF CallsSince
<1> QED BY <1>1, FS_Singleton

LEMMA KnownNext ==
    ASSUME NEW names, NEW n \in Nat, KnownIn(names, n)
    PROVE  KnownIn(names, n + 1)
<1>1. \A k \in 1..n \ hidden : k \in 1..n + 1 \ hidden
  OBVIOUS
<1> QED BY <1>1 DEF KnownIn

\* A line without a call.
LEMMA KeptNext ==
    ASSUME NEW names, NEW n \in Nat, NEW u \in {n, n + 1}, KeptIn(names, n, u),
           ~Called(n + 1)
    PROVE  KeptIn(names, n + 1, n + 1)
<1> SUFFICES ASSUME NEW k \in 1..n + 1 \ hidden, OnlyCall(k, n + 1),
                    \A l \in k..n + 1 : text[l].stop # text[k].call,
                    Cardinality(CallsSince(k, n + 1)) <= Cap + 1 - Drop
             PROVE  Held(names, text[k].call, Cardinality(CallsSince(k, n + 1)))
  BY DEF KeptIn
<1>1. k \in 1..n
  BY DEF OnlyCall
<1>2. OnlyCall(k, n) /\ CallsSince(k, n + 1) = CallsSince(k, n)
  BY <1>1, CallsSinceNext DEF OnlyCall
<1>3. \A l \in k..u : text[l].stop # text[k].call
  OBVIOUS
<1> QED BY <1>1, <1>2, <1>3 DEF KeptIn

\* More interruptions are known of.
LEMMA KeptTold ==
    ASSUME NEW names, NEW n \in Nat, KeptIn(names, n, n)
    PROVE  KeptIn(names, n, n + 1)
<1> SUFFICES ASSUME NEW k \in 1..n \ hidden, OnlyCall(k, n),
                    \A l \in k..n + 1 : text[l].stop # text[k].call,
                    Cardinality(CallsSince(k, n)) <= Cap + 1 - Drop
             PROVE  Held(names, text[k].call, Cardinality(CallsSince(k, n)))
  BY DEF KeptIn
<1>1. \A l \in k..n : text[l].stop # text[k].call
  OBVIOUS
<1> QED BY <1>1 DEF KeptIn

\* An interrupted call is taken out.
LEMMA KeptWithout ==
    ASSUME NEW names \in Seq(Calls), NEW n \in Nat, KnownIn(names, n), KeptIn(names, n, n)
    PROVE  /\ KnownIn(Without(names, text[n + 1].stop), n)
           /\ KeptIn(Without(names, text[n + 1].stop), n, n + 1)
<1> DEFINE w == Without(names, text[n + 1].stop)
<1>1. KnownIn(w, n)
  <2> SUFFICES ASSUME NEW q \in 1..Len(w)
               PROVE  \E k \in 1..n \ hidden : Called(k) /\ text[k].call = w[q]
    BY DEF KnownIn
  <2>1. PICK i \in 1..Len(names) : names[i] = w[q]
    BY WithoutHeld
  <2> QED BY <2>1 DEF KnownIn
<1>2. KeptIn(w, n, n + 1)
  <2> SUFFICES ASSUME NEW k \in 1..n \ hidden, OnlyCall(k, n),
                      \A l \in k..n + 1 : text[l].stop # text[k].call,
                      Cardinality(CallsSince(k, n)) <= Cap + 1 - Drop
               PROVE  Held(w, text[k].call, Cardinality(CallsSince(k, n)))
    BY DEF KeptIn
  <2>1. Held(names, text[k].call, Cardinality(CallsSince(k, n)))
    <3>1. \A l \in k..n : text[l].stop # text[k].call
      OBVIOUS
    <3> QED BY <3>1 DEF KeptIn
  <2>2. n + 1 \in k..n + 1 /\ Cardinality(CallsSince(k, n)) \in Nat
    BY CallsSinceNext
  <2> QED BY <2>1, <2>2, WithoutHeld
<1> QED BY <1>1, <1>2

\* A call is noted.
LEMMA KeptNamed ==
    ASSUME NEW names \in Seq(Calls), Len(names) <= Cap, NEW n \in Nat,
           KnownIn(names, n), KeptIn(names, n, n),
           n + 1 \notin hidden, Called(n + 1), text[n + 1].call \in Calls
    PROVE  /\ KnownIn(Named(names, text[n + 1].call), n + 1)
           /\ KeptIn(Named(names, text[n + 1].call), n + 1, n + 1)
<1> DEFINE c == text[n + 1].call
           w == Named(names, c)
<1>1. n + 1 \in 1..n + 1 \ hidden /\ \A k \in 1..n \ hidden : k \in 1..n + 1 \ hidden
  OBVIOUS
<1>2. KnownIn(w, n + 1)
  <2> SUFFICES ASSUME NEW q \in 1..Len(w)
               PROVE  \E k \in 1..n + 1 \ hidden : Called(k) /\ text[k].call = w[q]
    BY DEF KnownIn
  <2>1. CASE w[q] = c
    BY <1>1, <2>1
  <2>2. CASE \E i \in 1..Len(names) : names[i] = w[q]
    <3>1. \E k \in 1..n \ hidden : Called(k) /\ text[k].call = w[q]
      BY <2>2 DEF KnownIn
    <3> QED BY <1>1, <3>1
  <2> QED BY <2>1, <2>2, NamedFrom
<1>3. KeptIn(w, n + 1, n + 1)
  <2> SUFFICES ASSUME NEW k \in 1..n + 1 \ hidden, OnlyCall(k, n + 1),
                      \A l \in k..n + 1 : text[l].stop # text[k].call,
                      Cardinality(CallsSince(k, n + 1)) <= Cap + 1 - Drop
               PROVE  Held(w, text[k].call, Cardinality(CallsSince(k, n + 1)))
    BY DEF KeptIn
  <2>1. CASE k = n + 1
    <3>1. \A i \in 1..Len(names) : names[i] # c
      <4> SUFFICES ASSUME NEW i \in 1..Len(names), names[i] = c PROVE FALSE
        OBVIOUS
      <4>1. PICK l \in 1..n \ hidden : Called(l) /\ text[l].call = c
        BY DEF KnownIn
      <4>2. l = n + 1
        BY <1>1, <2>1, <4>1 DEF OnlyCall
      <4> QED BY <4>1, <4>2
    <3>2. Cardinality(CallsSince(n + 1, n + 1)) = 1
      BY CallsSinceOwn
    <3> QED BY <2>1, <3>1, <3>2, NamedFrom
  <2>2. CASE k # n + 1
    <3>1. k \in 1..n /\ k \in 1..n \ hidden
      BY <2>2
    <3> DEFINE r == Cardinality(CallsSince(k, n))
    <3>2. r \in Nat /\ Cardinality(CallsSince(k, n + 1)) = r + 1
      BY <3>1, CallsSinceNext
    <3>3. OnlyCall(k, n) /\ \A l \in k..n : text[l].stop # text[k].call
      BY <3>1 DEF OnlyCall
    <3>4. r <= Cap + 1 - Drop /\ r + 1 <= Cap + 1 - Drop
      BY <3>2, DispatcherAssumption
    <3>5. Held(names, text[k].call, r)
      BY <3>1, <3>3, <3>4 DEF KeptIn
    <3> HIDE DEF r
    <3> QED BY <3>2, <3>4, <3>5, NamedHeld
  <2> QED BY <2>1, <2>2
<1> QED BY <1>2, <1>3
\* What is said of names stays true of the lines it is about.
LEMMA NameSame ==
    ASSUME text' = text, hidden' = hidden
    PROVE  /\ \A names, n : KnownIn(names, n) => KnownIn(names, n)'
           /\ \A names, n, u : KeptIn(names, n, u) => KeptIn(names, n, u)'
           /\ \A k, n : OnlyCall(k, n)' <=> OnlyCall(k, n)
           /\ \A k, n : CallsSince(k, n)' = CallsSince(k, n)
<1>1. \A k : Called(k)' <=> Called(k)
  BY DEF Called
<1>2. \A k, n : OnlyCall(k, n)' <=> OnlyCall(k, n)
  BY <1>1 DEF OnlyCall
<1>3. \A k, n : CallsSince(k, n)' = CallsSince(k, n)
  BY <1>1 DEF CallsSince
<1>4. \A names, n : KnownIn(names, n) => KnownIn(names, n)'
  BY <1>1 DEF KnownIn
<1>5. \A names, n, u : KeptIn(names, n, u) => KeptIn(names, n, u)'
  BY <1>2, <1>3 DEF KeptIn
<1> QED BY <1>2, <1>3, <1>4, <1>5

LEMMA StopsSame ==
    ASSUME text' = text, hidden' = hidden, stops' = stops, Alone, InterruptsNamed
    PROVE  InterruptsNamed'
<1>1. /\ \A k, n : OnlyCall(k, n)' <=> OnlyCall(k, n)
      /\ \A k, n : CallsSince(k, n)' = CallsSince(k, n)
  BY NameSame
<1> QED BY <1>1 DEF InterruptsNamed, Alone

\* Where interruptions are told.
LEMMA ToldIs ==
    ASSUME TypeInv, StageInv, FrontInv, Alone, job[Watch].pc \notin {"idle", "store"}
    PROVE  ToldTo = IF job[Watch].pc \in {"told", "change"} THEN Handled + 1 ELSE Handled
  BY ReaderAt DEF ToldTo

\* The reader goes on in its line, and its FileState keeps its names.
LEMMA NameGoes ==
    ASSUME TypeInv, StageInv, FrontInv, NameInv, Alone,
           job[Watch].pc \notin {"idle", "store"},
           UNCHANGED <<text, hidden, stops, reg>>, files'[reg].names = files[reg].names,
           NEW pc \in Stages \ {"store"}, GoTo(Watch, pc),
           job[Watch].pc \in {"told", "change"} => pc \in {"told", "change"}
    PROVE  NameInv'
<1> DEFINE n == Handled
           names == FileNames
<1>1. /\ job'[Watch].pc = pc /\ Handled' = n /\ FileNames' = names /\ n \in Nat
      /\ job'[Watch].at = n + 1
  BY ReaderGoes, ReaderAt
<1>2. /\ KnownIn(names, n) /\ KeptIn(names, n, ToldTo) /\ InterruptsNamed
      /\ ToldTo = IF job[Watch].pc \in {"told", "change"} THEN n + 1 ELSE n
      /\ ToldTo' = IF pc \in {"told", "change"} THEN n + 1 ELSE n
  BY <1>1, ToldIs DEF NameInv, ToldTo
<1> HIDE DEF n, names
<1>3. KeptIn(names, n, IF pc \in {"told", "change"} THEN n + 1 ELSE n)
  <2>1. CASE job[Watch].pc \in {"told", "change"} \/ pc \notin {"told", "change"}
    BY <1>2, <2>1
  <2>2. CASE job[Watch].pc \notin {"told", "change"} /\ pc \in {"told", "change"}
    BY <1>1, <1>2, <2>2, KeptTold
  <2> QED BY <2>1, <2>2
<1>4. \A l, k, u : /\ l = names /\ k = n
                   /\ u = (IF pc \in {"told", "change"} THEN n + 1 ELSE n)
                   => KnownIn(l, k)' /\ KeptIn(l, k, u)'
  BY <1>2, <1>3, NameSame
<1>5. InterruptsNamed'
  BY <1>2, StopsSame
<1> QED BY <1>1, <1>2, <1>4, <1>5 DEF NameInv

\* The reader is done with a line without a call.
LEMMA NameDone ==
    ASSUME TypeInv, StageInv, FrontInv, NameInv, Alone,
           job[Watch].pc \notin {"idle", "store"},
           UNCHANGED <<text, hidden, stops, reg>>,
           NEW f \in FileStates, Done(Watch, f), f.names = FileOf(Watch).names,
           ~Called(job[Watch].at)
    PROVE  NameInv'
<1> DEFINE n == Handled
           names == FileNames
<1>1. /\ Handled' = n + 1 /\ ToldTo' = n + 1 /\ FileNames' = names /\ n \in Nat
      /\ n + 1 = job[Watch].at
  BY ReaderDone, ReaderAt
<1>2. /\ KnownIn(names, n) /\ KeptIn(names, n, ToldTo) /\ InterruptsNamed
      /\ ToldTo \in {n, n + 1}
  BY ToldIs DEF NameInv
<1> HIDE DEF n, names
<1>3. KnownIn(names, n + 1) /\ KeptIn(names, n + 1, n + 1)
  BY <1>1, <1>2, KnownNext, KeptNext
<1>4. \A l, k : l = names /\ k = n + 1 => KnownIn(l, k)' /\ KeptIn(l, k, k)'
  BY <1>3, NameSame
<1>5. InterruptsNamed'
  BY <1>2, StopsSame
<1> QED BY <1>1, <1>4, <1>5 DEF NameInv

\* A call is noted.
LEMMA NameNote ==
    ASSUME TypeInv, StageInv, FrontInv, NameInv, Alone, NoteCall(Watch)
    PROVE  NameInv'
<1> DEFINE n == Handled
           names == FileNames
           c == LineOf(Watch).call
           w == Named(names, c)
           f == [FileOf(Watch) EXCEPT !.names = Named(@, c)]
<1>1. /\ job[Watch].pc = "call" /\ Done(Watch, f)
      /\ UNCHANGED <<text, hidden, stops, reg>> /\ Watch \in Tasks
  BY DEF NoteCall, outerVars, logVars, modeVars, Tasks
<1>2. /\ n \in Nat /\ n + 1 = job[Watch].at /\ n + 1 \notin hidden
      /\ names \in Seq(Calls) /\ Len(names) <= Cap
      /\ FileOf(Watch) \in FileStates /\ FileOf(Watch).names = names
      /\ LineOf(Watch) = text[n + 1] /\ LineOf(Watch) \in Lines
      /\ text[n + 1].kind = "assistant"
  BY <1>1, ReaderAt DEF StageOK
<1>3. c # None /\ c \in Calls /\ c = text[n + 1].call
  BY <1>1, <1>2, LineTypes DEF JobOK, Lines
<1>4. Called(n + 1)
  BY <1>2, <1>3 DEF Called
<1>5. w \in Seq(Calls)
  BY <1>2, <1>3, NamedTypes
<1> HIDE DEF c
<1>6. f \in FileStates /\ f.names = w
  BY <1>2, <1>5 DEF FileStates
<1>7. Handled' = n + 1 /\ ToldTo' = n + 1 /\ FileNames' = w
  <2> HIDE DEF f, w, names
  <2> QED BY <1>1, <1>2, <1>6, ReaderDone
<1>8. KnownIn(names, n) /\ KeptIn(names, n, n) /\ InterruptsNamed
  BY <1>1, ToldIs DEF NameInv
<1> HIDE DEF n, names, f
<1>9. KnownIn(w, n + 1) /\ KeptIn(w, n + 1, n + 1)
  BY <1>2, <1>3, <1>4, <1>8, KeptNamed
<1> HIDE DEF w
<1>10. \A l, k : l = w /\ k = n + 1 => KnownIn(l, k)' /\ KeptIn(l, k, k)'
  BY <1>1, <1>9, NameSame
<1>11. InterruptsNamed'
  BY <1>1, <1>8, StopsSame
<1> QED BY <1>7, <1>10, <1>11 DEF NameInv

\* A call is interrupted.
LEMMA NameInterrupt ==
    ASSUME TypeInv, StageInv, FrontInv, NameInv, Alone, Interrupt(Watch)
    PROVE  NameInv'
<1> DEFINE n == Handled
           names == FileNames
           c == LineOf(Watch).stop
           w == Without(names, c)
           e == [at |-> job[Watch].at, named |-> \E q \in 1..Len(names) : names[q] = c]
<1>1. /\ job[Watch].pc = "line" /\ c # None
      /\ UNCHANGED <<text, hidden, reg>>
      /\ GoTo(Watch, "told") /\ files'[reg].names = w
      /\ stops' = Append(stops, e)
  BY InterruptIs
<1>2. /\ n \in Nat /\ n + 1 = job[Watch].at /\ c = text[n + 1].stop
      /\ names \in Seq(Calls) /\ n + 1 - 1 = n
  BY <1>1, ReaderAt, SMTT(30)
<1>3. /\ Handled' = n /\ job'[Watch].pc = "told" /\ job'[Watch].at = n + 1
      /\ FileNames' = w
  BY <1>1, <1>2, ReaderGoes DEF Stages
<1>4. KnownIn(names, n) /\ KeptIn(names, n, n) /\ InterruptsNamed
  BY <1>1, ToldIs DEF NameInv
<1> HIDE DEF n, names
<1>5. KnownIn(w, n) /\ KeptIn(w, n, n + 1)
  BY <1>2, <1>4, KeptWithout
<1> HIDE DEF w
<1>6. \A l, k, u : l = w /\ k = n /\ u = n + 1 => KnownIn(l, k)' /\ KeptIn(l, k, u)'
  BY <1>1, <1>5, NameSame
<1>7. InterruptsNamed'
  <2>1. stops \in Seq([at : Nat, named : BOOLEAN])
    BY DEF TypeInv, HistoryOK
  <2>2. e \in [at : Nat, named : BOOLEAN]
    BY <1>2
  <2>3. e.at = n + 1 /\ (e.named <=> \E q \in 1..Len(names) : names[q] = c)
    BY <1>2
  <2> HIDE DEF e
  <2>4. /\ stops' \in Seq([at : Nat, named : BOOLEAN]) /\ Len(stops') = Len(stops) + 1
        /\ stops'[Len(stops) + 1] = e
        /\ \A j \in 1..Len(stops) : stops'[j] = stops[j]
    BY <1>1, <2>1, <2>2, AppendProperties
  <2>5. /\ \A k, m : OnlyCall(k, m)' <=> OnlyCall(k, m)
        /\ \A k, m : CallsSince(k, m)' = CallsSince(k, m)
    BY <1>1, NameSame
  <2>6. ASSUME NEW j \in 1..Len(stops'),
               NEW k \in 1..stops'[j].at - 1 \ hidden,
               OnlyCall(k, stops'[j].at - 1),
               text[k].call = text[stops'[j].at].stop,
               \A l \in k..stops'[j].at - 1 : text[l].stop # text[stops'[j].at].stop,
               Cardinality(CallsSince(k, stops'[j].at - 1)) <= Cap + 1 - Drop
        PROVE  stops'[j].named
    <3>1. CASE j \in 1..Len(stops)
      <4>1. stops'[j] = stops[j] /\ j \in DOMAIN stops
        BY <2>1, <2>4, <3>1
      <4> QED BY <1>4, <2>6, <4>1 DEF InterruptsNamed, Alone
    <3>2. CASE j = Len(stops) + 1
      <4>1. stops'[j] = e /\ e.at - 1 = n
        BY <1>2, <2>3, <2>4, <3>2
      <4>2. Held(names, text[k].call, Cardinality(CallsSince(k, n)))
        BY <1>4, <2>6, <2>3, <4>1 DEF KeptIn
      <4>3. text[k].call = c
        BY <1>2, <2>6, <2>3, <4>1
      <4> QED BY <2>3, <4>1, <4>2, <4>3 DEF Held
    <3> QED BY <2>1, <2>4, <3>1, <3>2
  <2>7. DOMAIN stops' = 1..Len(stops')
    BY <2>4
  <2> QED BY <1>1, <2>5, <2>6, <2>7 DEF InterruptsNamed
<1> QED BY <1>3, <1>6, <1>7 DEF NameInv, ToldTo
\* A turn or a mode is seen to: no call is noted and none is interrupted.
LEMMA NameTurn ==
    ASSUME TypeInv, StageInv, FrontInv, NameInv, Alone,
           \/ Open(Watch) \/ RecordMetric(Watch) \/ RecordMetricFails(Watch)
           \/ Extend(Watch) \/ PublishTurn(Watch) \/ PublishTurnFails(Watch)
    PROVE  NameInv'
<1>1. Watch \in Tasks
  BY DEF Tasks
<1>2. /\ job[Watch].pc \in {"line", "open", "metric", "turn"}
      /\ UNCHANGED <<text, hidden, stops, reg>>
  <2>1. UNCHANGED <<text, hidden, reg>>
    BY <1>1, LineStill DEF Turn
  <2>2. stops' = stops
    BY DEF Open, RecordMetric, RecordMetricFails, Recorded, Extend, PublishTurn,
           PublishTurnFails, modeVars
  <2>3. job[Watch].pc \in {"line", "open", "metric", "turn"}
    BY DEF Open, RecordMetric, RecordMetricFails, Recorded, Extend, PublishTurn,
           PublishTurnFails, Published, Closes
  <2> QED BY <2>1, <2>2, <2>3
<1>3. FileOf(Watch) \in FileStates /\ LineOf(Watch) = text[job[Watch].at]
  BY <1>2, ReaderAt
<1>4. ASSUME Done(Watch, FileOf(Watch)), LineOf(Watch).call = None
      PROVE  NameInv'
  BY <1>2, <1>3, <1>4, NameDone DEF Called
<1>5. ASSUME files' = files, NEW pc \in {"told", "turn", "call"}, GoTo(Watch, pc)
      PROVE  NameInv'
  BY <1>2, <1>5, NameGoes DEF Stages
<1>6. CASE Open(Watch) \/ RecordMetric(Watch) \/ RecordMetricFails(Watch) \/ Extend(Watch)
  <2>1. Onward(Watch) /\ LineOf(Watch).kind \in {"assistant", "prompt"}
    BY <1>1, <1>6, ReaderOnward
  <2> QED BY <1>4, <1>5, <2>1, OnwardIs
<1>7. CASE PublishTurn(Watch) \/ PublishTurnFails(Watch)
  <2>1. \/ Done(Watch, FileOf(Watch)) /\ LineOf(Watch).call = None
        \/ files' = files /\ GoTo(Watch, "call")
    BY <1>7 DEF PublishTurn, PublishTurnFails, Published
  <2> QED BY <1>4, <1>5, <2>1
<1> QED BY <1>6, <1>7

LEMMA NameMode ==
    ASSUME TypeInv, StageInv, FrontInv, NameInv, Alone,
           SameMode(Watch) \/ ChangeMode(Watch) \/ ModeChanged(Watch)
    PROVE  NameInv'
<1>1. /\ job[Watch].pc \notin {"idle", "store"} /\ UNCHANGED <<text, hidden, stops, reg>>
  BY DEF SameMode, ChangeMode, ModeChanged, AtMode, outerVars, logVars, modeVars, fileVars
<1>2. /\ FileOf(Watch) \in FileStates /\ LineOf(Watch) = text[job[Watch].at]
      /\ StageOK(job[Watch], text) /\ LineOf(Watch) \in Lines
  BY <1>1, ReaderAt
<1>3. CASE ChangeMode(Watch)
  <2>1. GoTo(Watch, "change") /\ files' = files
    BY <1>3 DEF ChangeMode, fileVars
  <2> QED BY <1>1, <2>1, NameGoes DEF Stages
<1>4. CASE SameMode(Watch) \/ ModeChanged(Watch)
  <2>1. Done(Watch, KeepMode(Watch)) /\ LineOf(Watch).kind # "assistant"
    BY <1>2, <1>4 DEF SameMode, ModeChanged, AtMode, StageOK
  <2>2. KeepMode(Watch) \in FileStates /\ KeepMode(Watch).names = FileOf(Watch).names
    BY <1>2 DEF KeepMode, FileStates, Lines
  <2>3. ~Called(job[Watch].at)
    BY <1>2, <2>1 DEF Called
  <2> QED BY <1>1, <2>1, <2>2, <2>3, NameDone
<1> QED BY <1>3, <1>4

LEMMA NameStep ==
    ASSUME TypeInv, StageInv, FrontInv, NameInv, [Next]_vars
    PROVE  NameInv'
<1> SUFFICES ASSUME Alone' PROVE NameInv'
  BY DEF NameInv
<1>1. Alone
  BY AloneNext
<1>2. CASE Quiet
  <2>1. /\ UNCHANGED <<text, hidden, stops>> /\ ToldTo' = ToldTo
        /\ FileNames' = FileNames /\ Handled' = Handled
    BY <1>2 DEF Quiet, ToldTo
  <2>2. \A l, k, u : l = FileNames /\ k = Handled /\ u = ToldTo =>
           KnownIn(l, k)' /\ KeptIn(l, k, u)'
    BY <1>1, <2>1, NameSame DEF NameInv
  <2>3. InterruptsNamed'
    BY <1>1, <2>1, StopsSame DEF NameInv
  <2> QED BY <2>1, <2>2, <2>3 DEF NameInv
<1>3. CASE StartHiding
  <2>1. /\ text' = text /\ hidden' = hidden \cup (stored + 1)..written /\ stored' = written
        /\ stops' = stops /\ stops = <<>> /\ reg' = 0 /\ stored = 0
        /\ written \in Nat /\ job' = job /\ job[Watch] = Idle
    BY <1>1, <1>3 DEF StartHiding, FrontInv, fileVars, modeVars, TypeInv, WorldOK, JobsOK,
                      Tasks
  <2>2. Handled' = written /\ FileNames' = <<>>
    BY <2>1 DEF Handled, FileNames
  <2>3. 1..written \subseteq hidden'
    BY <2>1
  <2>4. \A k : k = written => KnownIn(<<>>, k)' /\ \A u : KeptIn(<<>>, k, u)'
    BY <2>3 DEF KnownIn, KeptIn
  <2>5. InterruptsNamed'
    BY <2>1 DEF InterruptsNamed
  <2> QED BY <2>2, <2>4, <2>5 DEF NameInv
<1> QED BY <1>1, <1>2, <1>3, ReaderQuiet, NameTurn, NameMode, NameNote, NameInterrupt,
           AloneNext DEF Turn, Rest

LEMMA NameInit == Init => NameInv
<1> SUFFICES ASSUME Init PROVE NameInv
  OBVIOUS
<1>1. Handled = 0 /\ FileNames = <<>> /\ stops = <<>>
  BY DEF Init, Handled, FileNames, Tasks
<1>2. KnownIn(<<>>, 0) /\ \A u : KeptIn(<<>>, 0, u)
  BY DEF KnownIn, KeptIn
<1> QED BY <1>1, <1>2 DEF NameInv, InterruptsNamed

\* While one task reads, an interrupted result names its tool whenever the call
\* has an id of its own, was not interrupted before and is among the last
\* Cap + 1 - Drop calls: for any cache bounds, what the eviction of the oldest
\* entries of tool_use_names (daemon/app.py) leaves on_event to count on.
THEOREM InterruptsAreNamed == Spec => []InterruptsNamed
<1>1. NameInv => InterruptsNamed
  BY DEF NameInv, InterruptsNamed, Alone
<1>2. Init => TypeInv /\ StageInv /\ FrontInv /\ NameInv
  BY TypeInit, ShownInit, FrontInit, NameInit
<1>3. TypeInv /\ StageInv /\ FrontInv /\ NameInv /\ [Next]_vars =>
        (TypeInv /\ StageInv /\ FrontInv /\ NameInv)'
  BY TypeStep, StageStep, FrontStep, NameStep
<1>4. Spec => [](TypeInv /\ StageInv /\ FrontInv /\ NameInv)
  BY <1>2, <1>3, PTL DEF Spec
<1> QED BY <1>1, <1>4, PTL

=============================================================================
