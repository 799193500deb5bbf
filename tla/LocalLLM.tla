------------------------------ MODULE LocalLLM ------------------------------
(***************************************************************************)
(* The calls to the local LLM (daemon/local_llm.py): clients that queue    *)
(* their callers at a semaphore, leave a metric row for every call, and    *)
(* are replaced when the settings change (web/routes.py); the profile a    *)
(* call is routed to (config.py); and its callers: the drift worker        *)
(* (daemon/drift.py), whose turns have a hard cap, the comprehensive       *)
(* synthesis (phase1.py), which asks a second time after an answer that    *)
(* does not validate, and workers that record the answer under the name    *)
(* of a model (rubric_worker.py and its like).                             *)
(*                                                                         *)
(* A caller is one task with at most one call at a time, of which the      *)
(* model keeps the latest, and likewise the latest turn of the drift       *)
(* worker; so nothing bounds the number of calls, turns or failures.       *)
(* Prompts, the repair of JSON and the heuristics are data: only what they *)
(* lead to is here.                                                        *)
(***************************************************************************)
EXTENDS Naturals, Sequences

CONSTANTS
    Drift,      \* the drift worker
    Synth,      \* the synthesis worker, in a comprehensive run
    Rubric,     \* the rubric worker
    UserRubric, \* the grader of the user's own prompts
    Graders,    \* workers that record scores
    Settings,   \* configurations the user may choose
    MaxChanges  \* bound: changes of the settings

Callers == {Drift, Synth} \cup Graders

\* The kinds of calls that have a route, each named for the worker it is for.
CallKinds == Callers \cup {Rubric, UserRubric}

\* The kind under which worker w calls: the grader of the user's prompts calls
\* under that of the rubric.
Kind(w) == IF w = UserRubric THEN Rubric ELSE w

\* The part of Config that routes calls: local_llm_route_<kind> and
\* local_llm_2_enabled.
Config == [route : [CallKinds -> {1, 2}], second : BOOLEAN]

ASSUME LocalLLMAssumption ==
    /\ Drift # Synth /\ {Drift, Synth} \cap (Graders \cup {Rubric, UserRubric}) = {}
    /\ Rubric # UserRubric
    /\ Settings # {} /\ Settings \subseteq Config
    /\ MaxChanges \in Nat

VARIABLES
    settings,  \* config.toml, and the cache of get_config
    clients,   \* the LocalLLMClient objects by their _cfg; the last is in use
    ahead,     \* ahead[w]: who came to the semaphore before w and is still there
    call,      \* call[w]: the latest call of w
    pc,        \* where the drift worker is in _process
    verdict,   \* severity of the turn it is at
    filed,     \* rows of drift_events for that turn
    fate       \* history: what else became of the turn

llmVars == <<settings, clients>>
driftVars == <<pc, verdict, filed, fate>>
vars == <<llmVars, ahead, call, driftVars>>

\* A call: its client; the profile the settings named for its kind when it
\* was asked for, and the one it was sent to (0: not sent); whether it succeeded;
\* what became of its metric row; and the model a score was filed under.
Call == [at : {"idle", "queued", "sent", "recording", "told", "cut"},
         client : 1..MaxChanges + 1, want : {1, 2}, profile : {0, 1, 2},
         error : {"none", "failed", "cancelled"}, retry : BOOLEAN,
         metric : {"none", "row", "lost"}, model : {0, 1, 2}]

\* "med" leads to the same steps as "low".
Severities == {"low", "high"}

TypeOK ==
    /\ settings \in Settings
    /\ clients \in Seq(Settings) /\ Len(clients) \in 1..MaxChanges + 1
    /\ ahead \in [Callers -> SUBSET Callers]
    /\ call \in [Callers -> Call]
    /\ \A w \in Callers :
          /\ call[w].client <= Len(clients)
          /\ call[w].at \in {"sent", "recording"} => call[w].profile # 0
          /\ call[w].at = "cut" => w = Drift
          /\ \A v \in ahead[w] :
                /\ call[v].at = "queued" /\ call[w].at = "queued"
                /\ call[v].client = call[w].client /\ w \notin ahead[v]
    /\ pc \in {"idle", "asking", "surface", "record", "publish"}
    /\ pc = "asking" <=> call[Drift].at # "idle"
    /\ verdict \in Severities
    /\ filed \in 0..2
    /\ fate \subseteq {"none yet", "timeout", "surfaced", "unshown", "lost", "aired"}

Never == [at |-> "idle", client |-> 1, want |-> 1, profile |-> 0,
          error |-> "none", retry |-> FALSE, metric |-> "none", model |-> 0]

Init ==
    /\ settings \in Settings
    /\ clients = <<settings>>
    /\ ahead = [w \in Callers |-> {}]
    /\ call = [w \in Callers |-> Never]
    /\ pc = "idle"
    /\ verdict = "low"
    /\ filed = 0
    /\ fate = {"none yet"}

-----------------------------------------------------------------------------
(* Clients and settings. *)

\* profile_for: a route to a second profile that is off falls back.
ProfileFor(cfg, kind) == IF cfg.route[kind] = 2 /\ cfg.second THEN 2 ELSE 1

\* Faulty variant of Rebuilt: the new client still reads the old cache.
RebuiltStale(c) == settings

\* The configuration of a client made once the settings are c.
Rebuilt(c) == c

\* update_local_llm_config: the file is written, the cache reloaded and the
\* client replaced at one go.  The old one, with its own semaphore, lives on
\* for those that are queued at it.
ChangeSettings(c) ==
    /\ Len(clients) <= MaxChanges
    /\ settings' = c
    /\ clients' = Append(clients, Rebuilt(c))
    /\ UNCHANGED <<ahead, call, driftVars>>

-----------------------------------------------------------------------------
(* complete() *)

NewCall(w, g, retry) ==
    [at |-> "queued", client |-> g, want |-> ProfileFor(settings, Kind(w)),
     profile |-> 0, error |-> "none", retry |-> retry, metric |-> "none",
     model |-> 0]

\* A worker asks client g.
Ask(w, g, retry) ==
    /\ call' = [call EXCEPT ![w] = NewCall(w, g, retry)]
    /\ ahead' = [ahead EXCEPT ![w] =
          {v \in Callers \ {w} : call[v].at = "queued" /\ call[v].client = g}]

InUse == Len(clients)

Holds(w) == call[w].at \in {"sent", "recording"}

\* The semaphore of client g, held until the metric has been dealt with.
Free(g) == \A w \in Callers : call[w].client = g => ~Holds(w)

\* Faulty variant of Foremost: the one that came last goes first.
ForemostLast(w) == \A v \in Callers : w \notin ahead[v]

\* It has waited longest.
Foremost(w) == ahead[w] = {}

\* The queue without w.
Left(w) == [v \in Callers |-> IF v = w THEN {} ELSE ahead[v] \ {w}]

\* It enters and sends its request.
Send(w) ==
    /\ call[w].at = "queued"
    /\ Free(call[w].client)
    /\ Foremost(w)
    /\ ahead' = Left(w)
    /\ call' = [call EXCEPT ![w].at = "sent",
          ![w].profile = ProfileFor(clients[call[w].client], Kind(w))]
    /\ UNCHANGED <<llmVars, driftVars>>

\* Content, or no content, or an exception.
Answer(w, e) ==
    /\ call[w].at = "sent"
    /\ call' = [call EXCEPT ![w].at = "recording", ![w].error = e]
    /\ UNCHANGED <<llmVars, ahead, driftVars>>

\* An answer without choices raises past the metric.
AnswerEmpty(w) ==
    /\ call[w].at = "sent"
    /\ call' = [call EXCEPT ![w].at = "told", ![w].error = "failed",
                            ![w].metric = "lost"]
    /\ UNCHANGED <<llmVars, ahead, driftVars>>

\* complete() returns or raises, and the semaphore is released; a failure to
\* write the metric is swallowed.
RecordMetric(w) ==
    /\ call[w].at = "recording"
    /\ \E m \in {"row", "lost"} :
          call' = [call EXCEPT ![w].at = "told", ![w].metric = m]
    /\ UNCHANGED <<llmVars, ahead, driftVars>>

-----------------------------------------------------------------------------
(* Synthesis and graders; when they ask is in modules Synthesis, Scoring and *)
(* SessionClose.                                                             *)

Begin(w) ==
    /\ w # Drift
    /\ call[w].at = "idle"
    /\ Ask(w, InUse, FALSE)
    /\ UNCHANGED <<llmVars, driftVars>>

\* _run_synth: a payload that does not validate, or none, is asked for once
\* more, of the client that was passed in.
Retry ==
    /\ call[Synth].at = "told"
    /\ ~call[Synth].retry
    /\ Ask(Synth, call[Synth].client, TRUE)
    /\ UNCHANGED <<llmVars, driftVars>>

EndSynth ==
    /\ call[Synth].at = "told"
    /\ call[Synth].error = "none" \/ call[Synth].retry
    /\ call' = [call EXCEPT ![Synth] = Never]
    /\ UNCHANGED <<llmVars, ahead, driftVars>>

\* _record: model_used is what the client in use now would call.
Score(w) ==
    /\ w \in Graders
    /\ call[w].at = "told"
    /\ call' = [call EXCEPT ![w] =
          IF call[w].error = "none"
          THEN [Never EXCEPT !.client = call[w].client,
                             !.profile = call[w].profile,
                             !.want = call[w].want,
                             !.model = ProfileFor(clients[InUse], Kind(w))]
          ELSE Never]
    /\ UNCHANGED <<llmVars, ahead, driftVars>>

-----------------------------------------------------------------------------
(* The drift worker. *)

\* A turn of a session with intent.md and with enough prose.
NextTurn ==
    /\ pc = "idle"
    /\ filed' = 0
    /\ fate' = {}

\* The heuristics find it on goal.
TakeOnGoal ==
    /\ NextTurn
    /\ verdict' = "low"
    /\ pc' = "record"
    /\ UNCHANGED <<llmVars, ahead, call>>

Escalate ==
    /\ NextTurn
    /\ pc' = "asking"
    /\ Ask(Drift, InUse, FALSE)
    /\ UNCHANGED <<llmVars, verdict>>

\* The severities a call may lead to: one that failed counts as "low".
Judged(c) == IF c.error = "none" THEN Severities ELSE {"low"}

\* Faulty variant of TimedOut: only a wait at the semaphore times out, and a
\* call torn down counts as one that failed.
TimedOutWaiting(c) == c.at = "cut"

TimedOut(c) == c.at = "cut" \/ c.error = "cancelled"

\* wait_for(_analyze) returns, and only a high verdict is surfaced; or it
\* raises TimeoutError, which leaves _process.
Judge ==
    /\ call[Drift].at \in {"told", "cut"}
    /\ \/ /\ ~TimedOut(call[Drift])
          /\ verdict' \in Judged(call[Drift])
          /\ pc' = IF verdict' = "high" THEN "surface" ELSE "record"
       \/ /\ TimedOut(call[Drift])
          /\ pc' = "idle"
          /\ UNCHANGED verdict
    /\ call' = [call EXCEPT ![Drift] = Never]
    /\ UNCHANGED <<llmVars, ahead, filed, fate>>

\* Faulty variant of Capped: the time at the semaphore does not count.
CappedSent(c) == c.at \in {"sent", "recording"}

\* wait_for measures from the question, the wait at the semaphore included,
\* and cancels once.
Capped(c) == c.at \in {"queued", "sent", "recording"} /\ c.error # "cancelled"

\* Faulty variant of TornDown: the cancellation goes past the metric.
TornDownAtOnce(c) == [c EXCEPT !.at = "cut", !.error = "cancelled"]

\* A request that is cancelled: its metric is written all the same.
TornDown(c) == [c EXCEPT !.at = "recording", !.error = "cancelled"]

\* per_turn_hard_cap_seconds are over: a caller at the semaphore leaves the
\* queue, a request under way is torn down, and a write of a metric is
\* abandoned, whether or not it takes effect.
Cap ==
    /\ Capped(call[Drift])
    /\ fate' = fate \cup {"timeout"}
    /\ \/ /\ call[Drift].at = "queued"
          /\ ahead' = Left(Drift)
          /\ call' = [call EXCEPT ![Drift].at = "cut"]
       \/ /\ call[Drift].at = "sent"
          /\ call' = [call EXCEPT ![Drift] = TornDown(@)]
          /\ UNCHANGED ahead
       \/ /\ call[Drift].at = "recording"
          /\ \E m \in {"row", "lost"} :
                call' = [call EXCEPT ![Drift].at = "cut", ![Drift].metric = m]
          /\ UNCHANGED ahead
    /\ UNCHANGED <<llmVars, pc, verdict, filed>>

\* A failure is logged, and action_taken is "surfaced" all the same.
Surface ==
    /\ pc = "surface"
    /\ \E f \in {"surfaced", "unshown"} : fate' = fate \cup {f}
    /\ pc' = "record"
    /\ UNCHANGED <<llmVars, ahead, call, verdict, filed>>

RecordDrift ==
    /\ pc = "record"
    /\ filed' = filed + 1
    /\ pc' = "publish"
    /\ UNCHANGED <<llmVars, ahead, call, verdict, fate>>

\* The exception leaves _process: neither row nor event.
RecordDriftFails ==
    /\ pc = "record"
    /\ fate' = fate \cup {"lost"}
    /\ pc' = "idle"
    /\ UNCHANGED <<llmVars, ahead, call, verdict, filed>>

\* Published, or the failure swallowed.
PublishDrift ==
    /\ pc = "publish"
    /\ fate' \in {fate, fate \cup {"aired"}}
    /\ pc' = "idle"
    /\ UNCHANGED <<llmVars, ahead, call, verdict, filed>>

-----------------------------------------------------------------------------

\* What the drift worker does with a turn once it has it.
DriftStep == Judge \/ Surface \/ RecordDrift \/ RecordDriftFails \/ PublishDrift

Next ==
    \/ \E c \in Settings : ChangeSettings(c)
    \/ \E w \in Callers :
          \/ Begin(w)
          \/ Send(w)
          \/ \E e \in {"none", "failed"} : Answer(w, e)
          \/ AnswerEmpty(w)
          \/ RecordMetric(w)
          \/ Score(w)
    \/ Retry
    \/ EndSynth
    \/ TakeOnGoal
    \/ Escalate
    \/ DriftStep
    \/ Cap

Spec == Init /\ [][Next]_vars

\* The event loop runs the drift worker and whoever a semaphore lets in, the
\* cap is one of its timers, and the ledger answers or raises.  Nothing is
\* assumed of the LLM, nor of when the other callers ask and what they do with
\* an answer.
FairSpec ==
    /\ Spec
    /\ WF_vars(DriftStep)
    /\ WF_vars(Cap)
    /\ \A w \in Callers : WF_vars(Send(w)) /\ WF_vars(RecordMetric(w))

-----------------------------------------------------------------------------
(* Properties. *)

\* Every request sent leaves a metric row before its caller goes on, unless
\* the write failed or was cut short or the answer had no choices; a caller
\* that gave up at the semaphore leaves none (_record_metric in complete).
MetricsAccounted ==
    \A w \in Callers :
        call[w].at \in {"told", "cut"} =>
            (call[w].profile # 0 <=> call[w].metric \in {"row", "lost"})

\* A request goes to the profile that the settings named for its kind when it
\* was asked for, whatever was changed while it was queued; only the retry of
\* a synthesis may still go by older ones.  A score names the model that gave
\* it unless the settings changed meanwhile (update_local_llm_config,
\* resolve_model).
SettingsApply ==
    \A w \in Callers :
        /\ call[w].profile \in {0, call[w].want} \/ call[w].retry
        /\ call[w].model \in {0, call[w].profile} \/ call[w].client < InUse

\* A turn the drift worker is done with has exactly one row, or it timed out
\* or the ledger failed; what it says of a surfacing was tried before the row
\* was written, and only for a high verdict; and nothing is published that has
\* no row (DriftWorker._process).
TurnsJudged ==
    /\ pc = "idle" =>
          \/ filed = 1 /\ fate \cap {"timeout", "lost"} = {}
          \/ filed = 0 /\ fate \cap {"none yet", "timeout", "lost"} # {}
    /\ filed = 1 =>
          (verdict = "high" <=> fate \cap {"surfaced", "unshown"} # {})
    /\ "aired" \in fate => filed = 1

\* The drift worker gets through its turns even if no LLM ever answers it or
\* the caller before it (per_turn_hard_cap_seconds).
DriftKeepsUp == []<>(pc = "idle")

\* As long as the LLM answers every request in the end, nobody waits at a
\* semaphore for ever, however often the others come back.
EveryoneServed ==
    (\A w \in Callers : []<>(call[w].at # "sent"))
    => \A w \in Callers : []<>(call[w].at # "queued")

=============================================================================
