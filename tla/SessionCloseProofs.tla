------------------------- MODULE SessionCloseProofs -------------------------
(***************************************************************************)
(* Proofs about SessionClose for any sessions, failure modes, idle times   *)
(* and numbers of faults and crashes: type correctness, whole reports,     *)
(* reports that are shown only while they cover their session, no LLM for  *)
(* the backlog, and a single announcement.                                 *)
(***************************************************************************)
EXTENDS SessionClose, TLAPS

-----------------------------------------------------------------------------
(* Types.                                                                  *)

TableTypes ==
    /\ known \subseteq Sessions
    /\ age \in [Sessions -> 0..Idle]
    /\ backlog \in [Sessions -> BOOLEAN]
    /\ live \subseteq Sessions

CloseTypes ==
    /\ status \in [Sessions -> {"none", "running", "done", "error"}]
    /\ resumed \in [Sessions -> BOOLEAN]
    /\ report \in [Sessions -> SUBSET Modes]

TickTypes ==
    /\ pc \in {"sleep", "next", "mark", "gather", "llm", "write", "announce",
               "finish", "error"}
    /\ batch \subseteq Sessions
    /\ DOMAIN flags = IF pc \in {"sleep", "next"} THEN batch ELSE batch \cup {cur}
    /\ flags \in [DOMAIN flags -> BOOLEAN]
    /\ liveRead \subseteq Sessions

LocalTypes ==
    /\ cur \in Sessions \cup {None}
    /\ pc \notin {"sleep", "next"} => cur \in Sessions
    /\ scored \subseteq Modes
    /\ broken \subseteq scored
    /\ left \subseteq Modes
    /\ pc \in {"announce", "finish"} => left = {}

ReadTypes ==
    /\ byLlm \subseteq Sessions
    /\ unread \subseteq Sessions

OtherTypes ==
    /\ faults \in 0..MaxFaults
    /\ crashes \in 0..MaxCrashes
    /\ ready \in [Sessions -> Nat]
    /\ orphaned \subseteq Sessions

\* The status of the session at hand is what the tick has made it.
FlowInv ==
    /\ Working => status[cur] = "running"
    /\ pc = "mark" => status[cur] \in {"none", "error"}

TypeInv ==
    /\ TableTypes /\ CloseTypes /\ TickTypes /\ LocalTypes /\ ReadTypes
    /\ OtherTypes /\ FlowInv

LEMMA TypeInvTypes == TypeInv => TypeOK
<1> SUFFICES ASSUME TypeInv PROVE TypeOK
  OBVIOUS
<1>1. \E R \in SUBSET Sessions : flags \in [R -> BOOLEAN]
  <2>1. DOMAIN flags \in SUBSET Sessions
    BY DEF TypeInv, TickTypes, LocalTypes
  <2> QED BY <2>1 DEF TypeInv, TickTypes
<1> QED
  BY <1>1 DEF TypeInv, TableTypes, CloseTypes, TickTypes, LocalTypes, ReadTypes,
              OtherTypes, TypeOK

LEMMA TypeInit == Init => TypeInv
<1> SUFFICES ASSUME Init PROVE TypeInv
  OBVIOUS
<1>1. TableTypes /\ CloseTypes /\ ReadTypes /\ OtherTypes
  BY SessionCloseAssumption
     DEF Init, TableTypes, CloseTypes, ReadTypes, OtherTypes
<1>2. TickTypes /\ LocalTypes
  BY DEF Init, TickTypes, LocalTypes
<1>3. FlowInv
  BY DEF Init, FlowInv, Working
<1> QED BY <1>1, <1>2, <1>3 DEF TypeInv

\* The tick goes on, with the rows of R only.
LEMMA KeepTypes ==
  ASSUME NEW R, R \subseteq DOMAIN flags, flags \in [DOMAIN flags -> BOOLEAN],
         liveRead \subseteq Sessions, Keep(R)
  PROVE  DOMAIN flags' = R /\ flags' \in [R -> BOOLEAN] /\ liveRead' \subseteq Sessions
         /\ \A s \in R : flags'[s] = flags[s]
  BY DEF Keep

\* What the rest of the daemon does leaves the detector alone.
LEMMA OutsideTypes ==
  ASSUME TypeInv, (\E s \in Sessions : \E bl \in BOOLEAN : Touch(s, bl)) \/ Pass
  PROVE  TypeInv'
<1>1. CASE \E s \in Sessions : \E bl \in BOOLEAN : Touch(s, bl)
  <2> PICK s \in Sessions, bl \in BOOLEAN : Touch(s, bl)
    BY <1>1
  <2>1. UNCHANGED <<status, report, detectorVars, byLlm, boundVars, outcomeVars>>
    BY DEF Touch
  <2>2. TableTypes' /\ unread' \subseteq Sessions
    BY SessionCloseAssumption DEF Touch, TypeInv, TableTypes, ReadTypes
  <2>3. resumed' \in [Sessions -> BOOLEAN]
    BY DEF Touch, TypeInv, CloseTypes
  <2> QED
    BY <2>1, <2>2, <2>3
       DEF TypeInv, CloseTypes, TickTypes, LocalTypes, ReadTypes, OtherTypes,
           FlowInv, Working, detectorVars, tickVars, localVars,
           boundVars, outcomeVars
<1>2. CASE Pass
  <2>1. age' \in [Sessions -> 0..Idle]
    <3>1. \A s \in Sessions : age[s] < Idle => age[s] + 1 \in 0..Idle
      BY SessionCloseAssumption DEF TypeInv, TableTypes
    <3> QED BY <1>2, <3>1 DEF Pass, TypeInv, TableTypes
  <2> QED
    BY <1>2, <2>1
       DEF Pass, TypeInv, TableTypes, CloseTypes, TickTypes, LocalTypes, ReadTypes,
           OtherTypes, FlowInv, Working, detectorVars, tickVars, localVars,
           closeVars, readVars, boundVars, outcomeVars
<1> QED BY <1>1, <1>2

\* The tick ends, or is ended.
LEMMA SleepTypes ==
  ASSUME TypeInv, Sleep, UNCHANGED <<tableVars, closeVars, readVars, ready>>,
         faults' \in {faults, faults + 1}, faults' <= MaxFaults,
         crashes' \in 0..MaxCrashes, orphaned' \subseteq Sessions
  PROVE  TypeInv'
<1>1. TableTypes' /\ CloseTypes' /\ ReadTypes'
  BY DEF TypeInv, TableTypes, CloseTypes, ReadTypes, tableVars, closeVars, readVars
<1>2. TickTypes' /\ LocalTypes'
  BY DEF Sleep, Leave, Return, TickTypes, LocalTypes
<1>3. OtherTypes'
  BY SessionCloseAssumption DEF TypeInv, OtherTypes
<1>4. FlowInv'
  BY DEF Sleep, FlowInv, Working
<1> QED BY <1>1, <1>2, <1>3, <1>4 DEF TypeInv

\* The start of a tick and its turn to one row.
LEMMA TickStepTypes ==
  ASSUME TypeInv, Poll \/ Check \/ Mark
  PROVE  TypeInv'
<1> USE DEF TypeInv
<1>1. CASE Poll
  <2>1. TickTypes' /\ LocalTypes'
    BY <1>1 DEF Poll, TickTypes, LocalTypes, TableTypes, localVars
  <2> QED
    BY <1>1, <2>1
       DEF Poll, TableTypes, CloseTypes, ReadTypes, OtherTypes, FlowInv,
           Working, tableVars, closeVars, readVars, localVars, boundVars, outcomeVars
<1>2. CASE Check
  <2> PICK s \in batch :
        /\ batch' = batch \ {s}
        /\ IF status[s] \in {"done", "running"}
           THEN UNCHANGED <<pc, cur>> /\ Keep(batch')
           ELSE pc' = "mark" /\ cur' = s /\ Keep(batch' \cup {s})
    BY <1>2 DEF Check
  <2>1. s \in Sessions /\ DOMAIN flags = batch /\ pc = "next"
    BY <1>2 DEF Check, TickTypes
  <2>2. TickTypes' /\ LocalTypes' /\ FlowInv'
    <3>1. CASE status[s] \in {"done", "running"}
      BY <1>2, <2>1, <3>1, KeepTypes
         DEF Check, TickTypes, LocalTypes, FlowInv, Working, closeVars
    <3>2. CASE status[s] \notin {"done", "running"}
      <4>1. status[s] \in {"none", "error"}
        BY <2>1, <3>2 DEF CloseTypes
      <4> QED
        BY <1>2, <2>1, <3>2, <4>1, KeepTypes
           DEF Check, TickTypes, LocalTypes, FlowInv, Working, closeVars
    <3> QED BY <3>1, <3>2
  <2>3. TableTypes' /\ CloseTypes' /\ ReadTypes' /\ OtherTypes'
    BY <1>2
       DEF Check, TableTypes, CloseTypes, ReadTypes, OtherTypes, tableVars,
           closeVars, readVars, boundVars, outcomeVars
  <2> QED BY <2>2, <2>3
<1>3. CASE Mark
  <2>1. cur \in Sessions /\ status[cur] \in {"none", "error"}
    BY <1>3 DEF Mark, LocalTypes, FlowInv
  <2>2. CloseTypes' /\ FlowInv'
    BY <1>3, <2>1 DEF Mark, CloseTypes, FlowInv, Working, localVars
  <2> QED
    BY <1>3, <2>2
       DEF Mark, TableTypes, TickTypes, LocalTypes, ReadTypes, OtherTypes,
           tableVars, readVars, tickVars, localVars, boundVars, outcomeVars
<1> QED BY <1>1, <1>2, <1>3

\* A consolidation up to its last await.
LEMMA ConsolidateTypes ==
  ASSUME TypeInv,
         Gather \/ Ask \/ WriteRow \/ BadAnswer \/ Announce \/ ConsolidateFails
  PROVE  TypeInv'
<1> USE DEF TypeInv
<1>0. cur \in Sessions /\ status[cur] = "running"
  BY DEF LocalTypes, FlowInv, Working, Gather, Ask, WriteRow, BadAnswer, Announce,
         ConsolidateFails
<1>1. CASE Gather
  <2>1. CloseTypes' /\ ReadTypes'
    BY <1>0, <1>1 DEF Gather, CloseTypes, ReadTypes
  <2> QED
    BY <1>1, <2>1
       DEF Gather, TableTypes, TickTypes, LocalTypes, OtherTypes, FlowInv,
           Working, tableVars, tickVars, localVars, boundVars, outcomeVars
<1>2. CASE Ask
  <2>1. scored' \subseteq Modes /\ broken' \subseteq scored' /\ left' = Modes
    BY <1>2 DEF Ask
  <2> QED
    BY <1>2, <2>1
       DEF Ask, TableTypes, CloseTypes, TickTypes, LocalTypes, ReadTypes, OtherTypes,
           FlowInv, Working, tableVars, closeVars, readVars, tickVars, boundVars,
           outcomeVars
<1>3. CASE WriteRow
  <2> PICK m \in left \ broken :
        /\ left' = left \ {m}
        /\ scored' = scored \ {m}
        /\ report' = [report EXCEPT ![cur] = @ \cup {m}]
        /\ byLlm' = IF m \in scored THEN byLlm \cup {cur} ELSE byLlm
        /\ pc' = IF left' = {} THEN "announce" ELSE "write"
    BY <1>3 DEF WriteRow
  <2>1. report' \in [Sessions -> SUBSET Modes] /\ byLlm' \subseteq Sessions
    BY <1>0 DEF CloseTypes, LocalTypes, ReadTypes
  <2>2. TickTypes' /\ LocalTypes'
    BY <1>0, <1>3 DEF WriteRow, TickTypes, LocalTypes, tickVars
  <2> QED
    BY <1>0, <1>3, <2>1, <2>2
       DEF WriteRow, TableTypes, CloseTypes, ReadTypes, OtherTypes, FlowInv,
           Working, tableVars, boundVars, outcomeVars
<1>4. CASE Announce
  <2>1. ready' \in [Sessions -> Nat]
    BY <1>0, <1>4 DEF Announce, OtherTypes
  <2> QED
    BY <1>4, <2>1
       DEF Announce, TableTypes, CloseTypes, TickTypes, LocalTypes, ReadTypes,
           OtherTypes, FlowInv, Working, tableVars, closeVars, readVars,
           tickVars, localVars, boundVars
<1>5. CASE BadAnswer \/ ConsolidateFails
  <2>1. faults' \in 0..MaxFaults
    BY <1>5, SessionCloseAssumption
       DEF BadAnswer, ConsolidateFails, Fault, OtherTypes, boundVars
  <2> QED
    BY <1>0, <1>5, <2>1
       DEF BadAnswer, ConsolidateFails, Return, TableTypes, CloseTypes, TickTypes,
           LocalTypes, ReadTypes, OtherTypes, FlowInv, Working, tableVars,
           closeVars, readVars, tickVars, boundVars, outcomeVars
<1> QED BY <1>1, <1>2, <1>3, <1>4, <1>5

LEMMA EndTypes ==
  ASSUME TypeInv, Finish \/ MarkError
  PROVE  TypeInv'
<1> USE DEF TypeInv
<1>1. cur \in Sessions /\ pc' = "next" /\ DOMAIN flags = batch \cup {cur}
  BY DEF Finish, MarkError, LocalTypes, TickTypes
<1>2. TickTypes' /\ LocalTypes'
  BY <1>1, KeepTypes DEF Finish, MarkError, TickTypes, LocalTypes, Leave, Return
<1>3. CloseTypes' /\ FlowInv'
  BY <1>1 DEF Finish, MarkError, CloseTypes, FlowInv, Working
<1> QED
  BY <1>1, <1>2, <1>3
     DEF Finish, MarkError, TableTypes, ReadTypes, OtherTypes, tableVars, readVars,
         boundVars, outcomeVars

LEMMA TypeStep == TypeInv /\ [Next]_vars => TypeInv'
<1> SUFFICES ASSUME TypeInv, [Next]_vars PROVE TypeInv'
  OBVIOUS
<1>1. CASE (\E s \in Sessions : \E bl \in BOOLEAN : Touch(s, bl)) \/ Pass
  BY <1>1, OutsideTypes
<1>2. CASE TickEnds \/ TickFails \/ Crash
  <2>1. Sleep /\ UNCHANGED <<tableVars, closeVars, readVars, ready>>
    BY <1>2 DEF TickEnds, TickFails, Crash, outcomeVars
  <2>2. faults' \in {faults, faults + 1} /\ faults' <= MaxFaults
        /\ crashes' \in 0..MaxCrashes
    BY <1>2, SessionCloseAssumption
       DEF TickEnds, TickFails, Crash, Fault, TypeInv, OtherTypes, boundVars
  <2>3. orphaned' \subseteq Sessions
    BY <1>2
       DEF TickEnds, TickFails, Crash, TypeInv, OtherTypes, LocalTypes, Working,
           outcomeVars
  <2> QED BY <2>1, <2>2, <2>3, SleepTypes
<1>3. CASE Poll \/ Check \/ Mark
  BY <1>3, TickStepTypes
<1>4. CASE Gather \/ Ask \/ WriteRow \/ BadAnswer \/ Announce \/ ConsolidateFails
  BY <1>4, ConsolidateTypes
<1>5. CASE Finish \/ MarkError
  BY <1>5, EndTypes
<1>6. CASE UNCHANGED vars
  BY <1>6
     DEF vars, tableVars, closeVars, detectorVars, tickVars, localVars, readVars,
         outcomeVars, boundVars, TypeInv, TableTypes, CloseTypes, TickTypes,
         LocalTypes, ReadTypes, OtherTypes, FlowInv, Working
<1> QED BY <1>1, <1>2, <1>3, <1>4, <1>5, <1>6 DEF Next, Detector

LEMMA TypeAlways == Spec => []TypeInv
  BY TypeInit, TypeStep, PTL DEF Spec

\* Every variable stays in its type: the detector consolidates a session it has
\* a row of, and announces it only with no row left to write (_tick,
\* _consolidate).
THEOREM TypeCorrect == Spec => []TypeOK
  BY TypeAlways, TypeInvTypes, PTL

-----------------------------------------------------------------------------
(* The LLM is for sessions seen in real time.                              *)

\* is_backlog tells, in the table and in the rows a tick has read, which
\* sessions had no line in real time; the LLM scores the others only.
LiveInv ==
    /\ live \subseteq known
    /\ \A s \in known : backlog[s] <=> s \notin live
    /\ liveRead \subseteq live
    /\ \A s \in DOMAIN flags : flags[s] <=> s \notin liveRead
    /\ pc \in {"sleep", "next", "mark", "gather", "llm", "error"} => scored = {}
    /\ scored # {} => cur \in live
    /\ byLlm \subseteq live

LEMMA LiveInit == Init => LiveInv
  BY DEF Init, LiveInv

LEMMA LiveStep == TypeInv /\ LiveInv /\ [Next]_vars => LiveInv'
<1> SUFFICES ASSUME TypeInv, LiveInv, [Next]_vars PROVE LiveInv'
  OBVIOUS
<1> USE DEF LiveInv
<1>1. ASSUME NEW s \in Sessions, NEW bl \in BOOLEAN, Touch(s, bl) PROVE LiveInv'
  <2>1. UNCHANGED <<byLlm, pc, flags, liveRead, cur, scored>> /\ live \subseteq live'
    BY <1>1 DEF Touch, detectorVars, tickVars, localVars
  <2>2. live' \subseteq known' /\ \A x \in known' : backlog'[x] <=> x \notin live'
    BY <1>1 DEF Touch, TypeInv, TableTypes
  <2> QED BY <2>1, <2>2
<1>2. CASE Pass
  BY <1>2 DEF Pass, readVars, detectorVars, tickVars, localVars
<1>3. CASE Poll
  BY <1>3 DEF Poll, tableVars, readVars, localVars
<1>4. CASE Check
  <2> PICK s \in batch :
        /\ batch' = batch \ {s}
        /\ IF status[s] \in {"done", "running"}
           THEN UNCHANGED <<pc, cur>> /\ Keep(batch')
           ELSE pc' = "mark" /\ cur' = s /\ Keep(batch' \cup {s})
    BY <1>4 DEF Check
  <2>1. DOMAIN flags = batch /\ pc = "next" /\ scored = {} /\ scored' = {}
    BY <1>4 DEF Check, TypeInv, TickTypes
  <2>2. /\ liveRead' \subseteq live
        /\ \A x \in DOMAIN flags' : flags'[x] <=> x \notin liveRead'
    BY <2>1 DEF Keep
  <2> QED BY <1>4, <2>1, <2>2 DEF Check, tableVars, readVars
<1>5. CASE TickEnds \/ TickFails \/ Crash
  BY <1>5 DEF TickEnds, TickFails, Crash, Sleep, Leave, Return, tableVars, readVars
<1>6. CASE Mark \/ Gather \/ Announce \/ BadAnswer \/ ConsolidateFails
  BY <1>6
     DEF Mark, Gather, Announce, BadAnswer, ConsolidateFails, Return, tableVars,
         readVars, tickVars, localVars
<1>7. CASE Ask
  <2>1. cur \in DOMAIN flags
    BY <1>7 DEF Ask, TypeInv, TickTypes
  <2>2. scored' # {} => cur \in live
    BY <1>7, <2>1 DEF Ask
  <2> QED BY <1>7, <2>2 DEF Ask, tableVars, readVars, tickVars
<1>8. CASE WriteRow
  <2>1. byLlm' \subseteq live /\ scored' \subseteq scored /\ pc' \in {"announce", "write"}
    BY <1>8 DEF WriteRow
  <2> QED BY <1>8, <2>1 DEF WriteRow, tableVars, tickVars
<1>9. CASE Finish \/ MarkError
  <2>1. DOMAIN flags = batch \cup {cur}
    BY <1>9 DEF Finish, MarkError, TypeInv, TickTypes
  <2> QED BY <1>9, <2>1 DEF Finish, MarkError, Leave, Return, Keep, readVars, tableVars
<1>10. CASE UNCHANGED vars
  BY <1>10
     DEF vars, tableVars, readVars, detectorVars, tickVars, localVars
<1> QED
  BY <1>1, <1>2, <1>3, <1>4, <1>5, <1>6, <1>7, <1>8, <1>9, <1>10 DEF Next, Detector

\* A mode is scored by the LLM for sessions seen in real time only, and those
\* are never taken for backlog ones, whatever is seeded again and whenever the
\* detector read its rows (upsert_session, _consolidate).
THEOREM LlmSparesBacklog == Spec => []LlmForLiveOnly
<1>1. TypeInv /\ LiveInv => LlmForLiveOnly
  BY DEF TypeInv, TickTypes, LiveInv, LlmForLiveOnly
<1> QED BY <1>1, TypeAlways, LiveInit, LiveStep, PTL DEF Spec

-----------------------------------------------------------------------------
(* A report is shown only while it covers the session.                     *)

\* A session with lines since its observations were read has been resumed by
\* the time its status can be "done".
CoverInv ==
    /\ pc \in {"llm", "write", "announce", "finish"} /\ cur \in unread
         => resumed[cur]
    /\ \A s \in Sessions : status[s] = "done" /\ ~resumed[s] => s \notin unread

LEMMA CoverInit == Init => CoverInv
  BY DEF Init, CoverInv

LEMMA CoverStep == TypeInv /\ CoverInv /\ [Next]_vars => CoverInv'
<1> SUFFICES ASSUME TypeInv, CoverInv, [Next]_vars PROVE CoverInv'
  OBVIOUS
<1> USE DEF CoverInv
<1>1. ASSUME NEW s \in Sessions, NEW bl \in BOOLEAN, Touch(s, bl) PROVE CoverInv'
  <2>1. pc \in {"llm", "write", "announce", "finish"} =>
          cur \in Sessions /\ status[cur] = "running"
    BY DEF TypeInv, LocalTypes, FlowInv, Working
  <2> QED
    BY <1>1, <2>1
       DEF Touch, detectorVars, localVars, TypeInv, CloseTypes
<1>2. CASE Pass
  BY <1>2 DEF Pass, closeVars, detectorVars, localVars, readVars
<1>3. CASE Poll \/ Check \/ TickEnds \/ TickFails \/ Crash
  BY <1>3
     DEF Poll, Check, TickEnds, TickFails, Crash, Sleep, closeVars, readVars,
         TypeInv, TickTypes
<1>4. CASE Mark
  BY <1>4 DEF Mark, readVars, TypeInv, CloseTypes, LocalTypes
<1>5. CASE Gather
  BY <1>5 DEF Gather, closeVars, localVars
<1>6. CASE Ask \/ Announce \/ BadAnswer \/ ConsolidateFails
  BY <1>6
     DEF Ask, Announce, BadAnswer, ConsolidateFails, closeVars, readVars, localVars
<1>7. CASE WriteRow
  BY <1>7 DEF WriteRow, readVars
<1>8. CASE Finish \/ MarkError
  <2>1. cur \in Sessions
    BY <1>8 DEF Finish, MarkError, TypeInv, LocalTypes
  <2> QED BY <1>8, <2>1 DEF Finish, MarkError, readVars, TypeInv, CloseTypes
<1>9. CASE UNCHANGED vars
  BY <1>9 DEF vars, closeVars, detectorVars, localVars, readVars
<1> QED
  BY <1>1, <1>2, <1>3, <1>4, <1>5, <1>6, <1>7, <1>8, <1>9 DEF Next, Detector

\* What is shown as closed with a report has had no line since the report's
\* observations were read, a line that came while it was being written
\* included (_consolidate, live_state).
THEOREM ShownReportsCover == Spec => []ShownReportCovers
<1>1. CoverInv => ShownReportCovers
  BY DEF CoverInv, ShownReportCovers, Shown
<1> QED BY <1>1, TypeAlways, CoverInit, CoverStep, PTL DEF Spec

-----------------------------------------------------------------------------
(* A report is whole.                                                      *)

\* What is not left to write has been written since the last reading.
WholeInv ==
    /\ \A s \in Sessions : status[s] = "done" => report[s] = Modes
    /\ pc = "write" => Modes \ left \subseteq report[cur]
    /\ pc \in {"announce", "finish"} => report[cur] = Modes

LEMMA WholeInit == Init => WholeInv
  BY DEF Init, WholeInv

LEMMA WholeStep == TypeInv /\ WholeInv /\ [Next]_vars => WholeInv'
<1> SUFFICES ASSUME TypeInv, WholeInv, [Next]_vars PROVE WholeInv'
  OBVIOUS
<1> USE DEF WholeInv
<1>1. CASE (\E s \in Sessions : \E bl \in BOOLEAN : Touch(s, bl)) \/ Pass
  BY <1>1 DEF Touch, Pass, detectorVars, localVars, closeVars
<1>2. CASE Poll \/ Check \/ TickEnds \/ TickFails \/ Crash
  BY <1>2
     DEF Poll, Check, TickEnds, TickFails, Crash, Sleep, closeVars
<1>3. CASE Mark
  BY <1>3 DEF Mark, TypeInv, CloseTypes
<1>4. CASE Gather
  <2>1. cur \in Sessions /\ status[cur] = "running"
    BY <1>4 DEF Gather, TypeInv, LocalTypes, FlowInv, Working
  <2> QED BY <1>4, <2>1 DEF Gather, TypeInv, CloseTypes
<1>5. CASE Ask
  BY <1>5 DEF Ask, closeVars
<1>6. CASE WriteRow
  <2> PICK m \in left \ broken :
        /\ left' = left \ {m}
        /\ report' = [report EXCEPT ![cur] = @ \cup {m}]
        /\ pc' = IF left' = {} THEN "announce" ELSE "write"
    BY <1>6 DEF WriteRow
  <2>1. cur \in Sessions /\ status[cur] = "running" /\ pc = "write"
    BY <1>6 DEF WriteRow, TypeInv, LocalTypes, FlowInv, Working
  <2>2. report \in [Sessions -> SUBSET Modes] /\ m \in Modes
    BY DEF TypeInv, CloseTypes, LocalTypes
  <2>3. Modes \ left' \subseteq report'[cur] /\ report'[cur] \subseteq Modes
    BY <2>1, <2>2
  <2>4. \A s \in Sessions : s # cur => report'[s] = report[s]
    BY <2>2
  <2> QED BY <1>6, <2>1, <2>3, <2>4 DEF WriteRow
<1>7. CASE Announce
  BY <1>7 DEF Announce, closeVars, localVars
<1>8. CASE BadAnswer \/ ConsolidateFails
  BY <1>8 DEF BadAnswer, ConsolidateFails, closeVars
<1>9. CASE Finish \/ MarkError
  <2>1. cur \in Sessions
    BY <1>9 DEF Finish, MarkError, TypeInv, LocalTypes
  <2> QED BY <1>9, <2>1 DEF Finish, MarkError, TypeInv, CloseTypes
<1>10. CASE UNCHANGED vars
  BY <1>10 DEF vars, closeVars, detectorVars, localVars
<1> QED
  BY <1>1, <1>2, <1>3, <1>4, <1>5, <1>6, <1>7, <1>8, <1>9, <1>10 DEF Next, Detector

\* A session marked "done" has a row for every failure mode, all of them from
\* one reading of its observations, whatever failed and was tried again
\* before (_consolidate).
THEOREM ReportsWhole == Spec => []ReportComplete
<1>1. WholeInv => ReportComplete
  BY DEF WholeInv, ReportComplete
<1> QED BY <1>1, TypeAlways, WholeInit, WholeStep, PTL DEF Spec

-----------------------------------------------------------------------------
(* A report is announced once.                                             *)

\* As long as no ledger operation has failed, only sessions never announced
\* are consolidated, and an answer that cannot be converted makes itself felt
\* before the announcement.
SingleInv ==
    faults = 0 =>
      /\ \A s \in Sessions : /\ ready[s] <= 1
                             /\ status[s] \in {"none", "error"} => ready[s] = 0
      /\ pc \in {"mark", "gather", "llm", "write", "announce", "error"}
           => ready[cur] = 0

LEMMA SingleInit == Init => SingleInv
  BY DEF Init, SingleInv

LEMMA SingleStep == TypeInv /\ SingleInv /\ [Next]_vars => SingleInv'
<1> SUFFICES ASSUME TypeInv, SingleInv, [Next]_vars PROVE SingleInv'
  OBVIOUS
<1>0. faults \in Nat
  BY SessionCloseAssumption DEF TypeInv, OtherTypes
<1> USE DEF SingleInv
<1>1. CASE (\E s \in Sessions : \E bl \in BOOLEAN : Touch(s, bl)) \/ Pass
  BY <1>1
     DEF Touch, Pass, detectorVars, localVars, closeVars, boundVars, outcomeVars
<1>2. CASE Poll \/ TickEnds \/ Crash
  BY <1>2
     DEF Poll, TickEnds, Crash, Sleep, closeVars, localVars, boundVars, outcomeVars
<1>3. CASE ConsolidateFails \/ TickFails
  BY <1>0, <1>3 DEF ConsolidateFails, TickFails, Fault
<1>4. CASE Check
  <2>1. pc = "next" /\ batch \subseteq Sessions
    BY <1>4 DEF Check, TypeInv, TickTypes
  <2>2. \A s \in batch : status[s] \notin {"done", "running"}
                         => status[s] \in {"none", "error"}
    BY <2>1 DEF TypeInv, CloseTypes
  <2> QED BY <1>4, <2>1, <2>2 DEF Check, closeVars, boundVars, outcomeVars
<1>5. CASE Mark
  BY <1>5
     DEF Mark, localVars, boundVars, outcomeVars, TypeInv, CloseTypes
<1>6. CASE Gather \/ Ask
  BY <1>6 DEF Gather, Ask, closeVars, localVars, boundVars, outcomeVars
<1>7. CASE WriteRow \/ BadAnswer
  BY <1>7 DEF WriteRow, BadAnswer, closeVars, boundVars, outcomeVars
<1>8. CASE Announce
  <2>1. cur \in Sessions /\ status[cur] = "running"
    BY <1>8 DEF Announce, TypeInv, LocalTypes, FlowInv, Working
  <2> QED
    BY <1>8, <2>1
       DEF Announce, closeVars, localVars, boundVars, TypeInv, OtherTypes
<1>9. CASE Finish \/ MarkError
  BY <1>9 DEF Finish, MarkError, boundVars, outcomeVars, TypeInv, CloseTypes
<1>10. CASE UNCHANGED vars
  BY <1>10
     DEF vars, closeVars, detectorVars, localVars, boundVars, outcomeVars
<1> QED
  BY <1>1, <1>2, <1>3, <1>4, <1>5, <1>6, <1>7, <1>8, <1>9, <1>10 DEF Next, Detector

\* A session gets a second report_ready only if a ledger operation failed:
\* neither crashes nor polls during a consolidation repeat it (_tick).
THEOREM ReportsAnnouncedOnce == Spec => []SingleReportReady
<1>1. TypeInv /\ SingleInv => SingleReportReady
  BY SessionCloseAssumption
     DEF TypeInv, OtherTypes, SingleInv, SingleReportReady
<1> QED BY <1>1, TypeAlways, SingleInit, SingleStep, PTL DEF Spec

=============================================================================
