---------------------------- MODULE SessionClose ----------------------------
(***************************************************************************)
(* Closing idle sessions (daemon/session_close.py): a poll takes the rows  *)
(* of session_state, and for each idle one that has no report yet marks it *)
(* "running", reads what was observed, asks the local LLM, writes one      *)
(* report row per failure mode, announces the report and marks it "done",  *)
(* while sessions resume, are seeded and are still being observed, the LLM *)
(* answers with values that cannot be converted, ledger writes fail and    *)
(* the daemon is stopped or crashes.                                       *)
(*                                                                         *)
(* Only two facts about time stamps matter and are kept: how long ago a    *)
(* session was last seen, up to the idle threshold, and whether that was   *)
(* after its close.                                                        *)
(***************************************************************************)
EXTENDS Integers, FiniteSets

CONSTANTS
    Sessions,
    None,        \* no session
    Modes,       \* ids of FAILURE_MODES
    Idle,        \* session_idle_seconds, in units of Pass
    HasLLM,      \* local_llm is not None
    MaxFaults,   \* bound: ledger operations that raise
    MaxCrashes   \* bound: stops and crashes of the daemon

ASSUME SessionCloseAssumption ==
    /\ None \notin Sessions
    /\ Modes \subseteq Nat /\ IsFiniteSet(Modes) /\ Modes # {}
    /\ Idle \in Nat \ {0}
    /\ HasLLM \in BOOLEAN
    /\ MaxFaults \in Nat /\ MaxCrashes \in Nat

VARIABLES
    known,     \* sessions with a session_state row
    age,       \* age[s]: time since last_seen_at, up to Idle
    backlog,   \* backlog[s]: its is_backlog column
    status,    \* status[s]: consolidation_status, or "none" without a row
    resumed,   \* resumed[s]: last_seen_at is after closed_at
    report,    \* report[s]: modes with a row made from the last reading of s
    pc,        \* where the detector's task is
    batch,     \* idle rows of this tick not yet visited
    flags,     \* is_backlog of those rows, and of cur's, as the tick read them
    cur,       \* session being consolidated
    scored,    \* those of the modes still to be written that the LLM scored
    broken,    \* those of them with a score or suggestion that cannot be converted
    left,      \* modes whose row is still to be written
    faults,
    crashes,
    live,      \* history: sessions observed in real time
    liveRead,  \* history: those of them the tick's read could see
    ready,     \* history: ready[s] report_ready events of s
    byLlm,     \* history: sessions some row of which the LLM scored
    orphaned,  \* history: sessions left "running" by nobody
    unread     \* history: sessions with lines since their observations were read

tableVars == <<known, age, backlog, live>>
closeVars == <<status, resumed, report>>
tickVars == <<batch, flags, liveRead>>
localVars == <<cur, scored, broken, left>>
detectorVars == <<pc, tickVars, localVars>>
readVars == <<byLlm, unread>>
outcomeVars == <<ready, orphaned>>
boundVars == <<faults, crashes>>
vars == <<tableVars, closeVars, detectorVars, readVars, outcomeVars, boundVars>>

\* The detector is between mark_session_closed and the last
\* update_close_status of cur.
Working == pc \in {"gather", "llm", "write", "announce", "finish", "error"}

TypeOK ==
    /\ known \in SUBSET Sessions
    /\ age \in [Sessions -> 0..Idle]
    /\ backlog \in [Sessions -> BOOLEAN]
    /\ status \in [Sessions -> {"none", "running", "done", "error"}]
    /\ resumed \in [Sessions -> BOOLEAN]
    /\ report \in [Sessions -> SUBSET Modes]
    /\ pc \in {"sleep", "next", "mark", "gather", "llm", "write", "announce",
               "finish", "error"}
    /\ batch \in SUBSET Sessions
    /\ \E R \in SUBSET Sessions : flags \in [R -> BOOLEAN]
    /\ DOMAIN flags = IF pc \in {"sleep", "next"} THEN batch ELSE batch \cup {cur}
    /\ cur \in Sessions \cup {None}
    /\ pc \notin {"sleep", "next"} => cur \in Sessions
    /\ scored \in SUBSET Modes
    /\ broken \in SUBSET scored
    /\ left \in SUBSET Modes
    /\ pc \in {"announce", "finish"} => left = {}
    /\ faults \in 0..MaxFaults
    /\ crashes \in 0..MaxCrashes
    /\ live \in SUBSET Sessions
    /\ liveRead \in SUBSET Sessions
    /\ ready \in [Sessions -> Nat]
    /\ orphaned \in SUBSET Sessions
    /\ unread \in SUBSET Sessions
    /\ byLlm \in SUBSET Sessions

Init ==
    /\ known = {}
    /\ age = [s \in Sessions |-> 0]
    /\ backlog = [s \in Sessions |-> FALSE]
    /\ status = [s \in Sessions |-> "none"]
    /\ resumed = [s \in Sessions |-> FALSE]
    /\ report = [s \in Sessions |-> {}]
    /\ pc = "sleep"
    /\ batch = {}
    /\ flags = [s \in {} |-> FALSE]
    /\ cur = None
    /\ scored = {}
    /\ broken = {}
    /\ left = {}
    /\ faults = 0
    /\ crashes = 0
    /\ live = {}
    /\ liveRead = {}
    /\ ready = [s \in Sessions |-> 0]
    /\ orphaned = {}
    /\ unread = {}
    /\ byLlm = {}

\* The tick still needs the rows of R only.
Keep(R) ==
    /\ flags' = [s \in R |-> flags[s]]
    /\ liveRead' = liveRead \cap R

\* The local variables of a consolidation go out of scope.
Return == scored' = {} /\ broken' = {} /\ left' = {}
Leave == cur' = None /\ Return

\* So do the rows a tick has read.
Sleep ==
    /\ pc' = "sleep"
    /\ batch' = {}
    /\ flags' = [s \in {} |-> FALSE]
    /\ liveRead' = {}
    /\ Leave

-----------------------------------------------------------------------------
(* The rest of the daemon. *)

\* Faulty variant of Touch: the last call's flag wins.
TouchLastWins(s, bl) ==
    /\ known' = known \cup {s}
    /\ age' = [age EXCEPT ![s] = 0]
    /\ backlog' = [backlog EXCEPT ![s] = bl]
    /\ resumed' = [resumed EXCEPT ![s] = status[s] # "none"]
    /\ live' = IF bl THEN live ELSE live \cup {s}
    /\ unread' = unread \cup {s}
    /\ UNCHANGED <<status, report, detectorVars, byLlm, boundVars,
                   outcomeVars>>

\* upsert_session for a line of s: last_seen_at becomes the present time, for
\* a backlog line as well; a realtime line clears is_backlog for good.
Touch(s, bl) ==
    /\ known' = known \cup {s}
    /\ age' = [age EXCEPT ![s] = 0]
    /\ backlog' = [backlog EXCEPT ![s] = bl /\ (s \in known => @)]
    /\ resumed' = [resumed EXCEPT ![s] = status[s] # "none"]
    /\ live' = IF bl THEN live ELSE live \cup {s}
    /\ unread' = unread \cup {s}
    /\ UNCHANGED <<status, report, detectorVars, byLlm, boundVars,
                   outcomeVars>>

\* Time goes by.
Pass ==
    /\ \E s \in known : age[s] < Idle
    /\ age' = [s \in Sessions |-> IF s \in known /\ age[s] < Idle
                                  THEN age[s] + 1 ELSE age[s]]
    /\ UNCHANGED <<known, backlog, live, closeVars, detectorVars, readVars,
                   boundVars, outcomeVars>>

-----------------------------------------------------------------------------
(* _tick, one action per stretch between two awaits. *)

\* all_session_state; a row's idle time is computed against this moment, and
\* rows that are not idle are passed over.
Poll ==
    /\ pc = "sleep"
    /\ pc' = "next"
    /\ batch' = {s \in known : age[s] >= Idle}
    /\ flags' = [s \in batch' |-> backlog[s]]
    /\ liveRead' = live \cap batch'
    /\ UNCHANGED <<tableVars, closeVars, readVars, localVars, boundVars,
                   outcomeVars>>

\* Faulty variant of Check: closed sessions are taken up again.
CheckRunningOnly ==
    /\ pc = "next"
    /\ \E s \in batch :
        /\ batch' = batch \ {s}
        /\ IF status[s] = "running"
           THEN UNCHANGED <<pc, cur>> /\ Keep(batch')
           ELSE pc' = "mark" /\ cur' = s /\ Keep(batch' \cup {s})
    /\ UNCHANGED <<tableVars, closeVars, readVars, scored, broken, left,
                   boundVars, outcomeVars>>

\* Faulty variant of Check: a consolidation that failed is not tried again.
CheckNoRetry ==
    /\ pc = "next"
    /\ \E s \in batch :
        /\ batch' = batch \ {s}
        /\ IF status[s] # "none"
           THEN UNCHANGED <<pc, cur>> /\ Keep(batch')
           ELSE pc' = "mark" /\ cur' = s /\ Keep(batch' \cup {s})
    /\ UNCHANGED <<tableVars, closeVars, readVars, scored, broken, left,
                   boundVars, outcomeVars>>

\* session_close_status of the next idle row.  Rows come most recently seen
\* first; among rows that all are idle, any order.
Check ==
    /\ pc = "next"
    /\ \E s \in batch :
        /\ batch' = batch \ {s}
        /\ IF status[s] \in {"done", "running"}
           THEN UNCHANGED <<pc, cur>> /\ Keep(batch')
           ELSE pc' = "mark" /\ cur' = s /\ Keep(batch' \cup {s})
    /\ UNCHANGED <<tableVars, closeVars, readVars, scored, broken, left,
                   boundVars, outcomeVars>>

TickEnds ==
    /\ pc = "next"
    /\ batch = {}
    /\ Sleep
    /\ UNCHANGED <<tableVars, closeVars, readVars, boundVars, outcomeVars>>

\* mark_session_closed(..., "running") stamps closed_at.
Mark ==
    /\ pc = "mark"
    /\ pc' = "gather"
    /\ status' = [status EXCEPT ![cur] = "running"]
    /\ resumed' = [resumed EXCEPT ![cur] = FALSE]
    /\ UNCHANGED <<tableVars, readVars, report, tickVars, localVars, boundVars,
                   outcomeVars>>

-----------------------------------------------------------------------------
(* _consolidate. *)

\* The three queries, and report_progress.  Rows of an earlier attempt are out
\* of date from here on.
Gather ==
    /\ pc = "gather"
    /\ pc' = "llm"
    /\ report' = [report EXCEPT ![cur] = {}]
    /\ unread' = unread \ {cur}
    /\ UNCHANGED <<tableVars, status, resumed, byLlm, tickVars, localVars, boundVars,
                   outcomeVars>>

\* The consolidator call, skipped for a backlog session.  It may fail, and its
\* answer may leave modes out, which fall back to the rule-based score, or give
\* them values of any type.
Ask ==
    /\ pc = "llm"
    /\ pc' = "write"
    /\ \E S \in IF HasLLM /\ ~flags[cur] THEN SUBSET Modes ELSE {{}} :
        /\ scored' = S
        /\ broken' \in SUBSET S
    /\ left' = Modes
    /\ UNCHANGED <<tableVars, closeVars, readVars, tickVars, cur, boundVars,
                   outcomeVars>>

\* Faulty variant of WriteRow: the last mode is left out.
WriteRowShort ==
    /\ pc = "write"
    /\ \E m \in left \ broken :
        /\ \A n \in left : m <= n
        /\ left' = left \ {m}
        /\ scored' = scored \ {m}
        /\ report' = [report EXCEPT ![cur] = @ \cup {m}]
        /\ byLlm' = IF m \in scored THEN byLlm \cup {cur} ELSE byLlm
        /\ pc' = IF \A n \in left' : \A k \in left' : n = k
                 THEN "announce" ELSE "write"
    /\ UNCHANGED <<tableVars, unread, status, resumed, tickVars, cur, broken,
                   boundVars, outcomeVars>>

\* upsert_session_report, mode after mode.
WriteRow ==
    /\ pc = "write"
    /\ \E m \in left \ broken :
        /\ \A n \in left : m <= n
        /\ left' = left \ {m}
        /\ scored' = scored \ {m}
        /\ report' = [report EXCEPT ![cur] = @ \cup {m}]
        /\ byLlm' = IF m \in scored THEN byLlm \cup {cur} ELSE byLlm
        /\ pc' = IF left' = {} THEN "announce" ELSE "write"
    /\ UNCHANGED <<tableVars, unread, status, resumed, tickVars, cur, broken,
                   boundVars, outcomeVars>>

\* The LLM's score or suggestion for the next mode is of the wrong type: its
\* conversion is outside the try around the call and raises.
BadAnswer ==
    /\ pc = "write"
    /\ \E m \in left \cap broken : \A n \in left : m <= n
    /\ pc' = "error"
    /\ Return
    /\ UNCHANGED <<tableVars, closeVars, readVars, tickVars, cur, boundVars,
                   outcomeVars>>

\* report_ready, session_closed and, unless backlog, the tray notification.
Announce ==
    /\ pc = "announce"
    /\ pc' = "finish"
    /\ ready' = [ready EXCEPT ![cur] = @ + 1]
    /\ UNCHANGED <<tableVars, closeVars, readVars, tickVars, localVars,
                   boundVars, orphaned>>

\* Faulty variant of Finish: closed_at is stamped again.
FinishStamps ==
    /\ pc = "finish"
    /\ pc' = "next"
    /\ status' = [status EXCEPT ![cur] = "done"]
    /\ resumed' = [resumed EXCEPT ![cur] = FALSE]
    /\ Leave
    /\ Keep(batch)
    /\ UNCHANGED <<tableVars, readVars, report, batch, boundVars,
                   outcomeVars>>

Finish ==
    /\ pc = "finish"
    /\ pc' = "next"
    /\ status' = [status EXCEPT ![cur] = "done"]
    /\ Leave
    /\ Keep(batch)
    /\ UNCHANGED <<tableVars, readVars, resumed, report, batch, boundVars,
                   outcomeVars>>

\* Faulty variant of MarkError: the handler falls through to "done".
MarkErrorDone ==
    /\ pc = "error"
    /\ pc' = "next"
    /\ status' = [status EXCEPT ![cur] = "done"]
    /\ Leave
    /\ Keep(batch)
    /\ UNCHANGED <<tableVars, readVars, resumed, report, batch, boundVars,
                   outcomeVars>>

\* The exception handler of _tick.
MarkError ==
    /\ pc = "error"
    /\ pc' = "next"
    /\ status' = [status EXCEPT ![cur] = "error"]
    /\ Leave
    /\ Keep(batch)
    /\ UNCHANGED <<tableVars, readVars, resumed, report, batch, boundVars,
                   outcomeVars>>

-----------------------------------------------------------------------------
(* Failures. *)

Fault == /\ faults < MaxFaults
         /\ faults' = faults + 1

\* A ledger operation inside the try block raises.
ConsolidateFails ==
    /\ pc \in {"gather", "write", "finish"}
    /\ Fault
    /\ pc' = "error"
    /\ Return
    /\ UNCHANGED <<tableVars, closeVars, readVars, tickVars, cur, crashes,
                   outcomeVars>>

\* One outside it, or in its handler, raises: _run logs it and sleeps.
TickFails ==
    /\ pc \in {"next", "mark", "error"}
    /\ pc = "next" => batch # {}
    /\ Fault
    /\ Sleep
    /\ orphaned' = IF pc = "error" THEN orphaned \cup {cur} ELSE orphaned
    /\ UNCHANGED <<tableVars, closeVars, readVars, crashes, ready>>

\* stop() cancels the task wherever it is (CancelledError is no Exception), or
\* the process dies; the next daemon starts with a sleeping detector.
Crash ==
    /\ crashes < MaxCrashes
    /\ crashes' = crashes + 1
    /\ Sleep
    /\ orphaned' = IF Working THEN orphaned \cup {cur} ELSE orphaned
    /\ UNCHANGED <<tableVars, closeVars, readVars, faults, ready>>

-----------------------------------------------------------------------------
Detector ==
    \/ Poll \/ Check \/ TickEnds \/ Mark
    \/ Gather \/ Ask \/ WriteRow \/ BadAnswer \/ Announce \/ Finish
    \/ MarkError

Next ==
    \/ Detector
    \/ \E s \in Sessions : \E bl \in BOOLEAN : Touch(s, bl)
    \/ Pass
    \/ ConsolidateFails \/ TickFails \/ Crash

Spec == Init /\ [][Next]_vars

\* The poll timer fires and every awaited call returns or raises.
FairSpec == Spec /\ WF_vars(Detector)

-----------------------------------------------------------------------------
(* Properties. *)

\* A session marked "done" has a row for every failure mode, all of them
\* written from one reading of its observations, whatever failed and was
\* retried before (_consolidate writes the rows one by one).
ReportComplete ==
    \A s \in Sessions : status[s] = "done" => report[s] = Modes

\* No LLM on backlog: a mode is scored by the LLM only for a session that was
\* seen in real time, and such a session is never taken for a backlog one,
\* however often its project is seeded again (upsert_session, _consolidate).
LlmForLiveOnly ==
    /\ byLlm \subseteq live
    /\ pc = "llm" => (flags[cur] <=> cur \notin liveRead)

\* What live_state (web/routes.py) shows as the close status.
Shown(s) == IF resumed[s] THEN "none" ELSE status[s]

\* A session shown as closed with a report had no line since its observations
\* were read for that report: one that resumed while it was being consolidated
\* is shown as open again.
ShownReportCovers ==
    \A s \in Sessions : Shown(s) = "done" => s \notin unread

\* As the module comment of session_close.py says, a session gets a single
\* report_ready, unless a ledger write failed after it was announced.
SingleReportReady ==
    \A s \in Sessions : ready[s] > 1 => faults > 0

\* The detector is about to write the rows of s, with an answer of the LLM that
\* can be converted.
Usable(s) == pc = "write" /\ cur = s /\ broken = {}

\* A session that stays quiet ends up with a report, failed attempts being
\* retried, unless its consolidation was cut off, provided that the LLM does not
\* answer it for ever with values that cannot be converted.
QuietSessionsReported ==
    \A s \in Sessions :
        ([]<>(pc = "write" /\ cur = s) => []<>Usable(s))
            => []<>(s \in known => \/ age[s] < Idle
                                   \/ status[s] = "done"
                                   \/ s \in orphaned)

\* What the module comment says without exception: any idle session is closed,
\* consolidated, and its results land in session_reports.
EveryIdleSessionReported ==
    \A s \in Sessions :
        []<>(s \in known => age[s] < Idle \/ status[s] = "done")

\* What live_state in web/routes.py says of the stamp: a session is closed
\* when it has gone idle.
ClosedWhenIdle ==
    [][\A s \in Sessions :
          status[s] # "running" /\ status'[s] = "running" => age[s] >= Idle]_vars

=============================================================================
