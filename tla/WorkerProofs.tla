---------------------------- MODULE WorkerProofs ----------------------------
(***************************************************************************)
(* Proofs about the workers behind the dispatcher, for any constants.      *)
(* LocalLLM: type correctness, metrics, routing, the account of a drift    *)
(* turn.  Alerts: type correctness, violations with their rows and their   *)
(* announcements, toasts, the verdicts of the audit worker.                *)
(***************************************************************************)
EXTENDS Alerts, LocalLLM, SequenceTheorems, TLAPS

-----------------------------------------------------------------------------
(* The invariant, caller by caller, with the queue and the drift worker. *)

Started(c) == c.at \in {"sent", "recording"}
Ended(c) == c.at \in {"told", "cut"}

\* What holds of a call c of w, whose client is one of gs.
CallOK(w, c, gs) ==
    /\ c \in Call /\ c.client <= Len(gs)
    /\ c.at = "queued" => c.profile = 0 /\ c.metric = "none"
    /\ c.at \in {"queued", "sent"} => c.error = "none"
    /\ Started(c) => c.profile # 0 /\ c.metric = "none"
    /\ Ended(c) => (c.profile # 0 <=> c.metric \in {"row", "lost"})
    /\ c.at = "told" => c.profile # 0
    /\ c.at = "cut" => w = Drift
    /\ c.retry => w = Synth
    /\ c.at = "queued" => c.retry \/ c.want = ProfileFor(gs[c.client], Kind(w))
    /\ c.profile # 0 => c.profile = ProfileFor(gs[c.client], Kind(w))
    /\ c.profile \in {0, c.want} \/ c.retry
    /\ c.model \in {0, c.profile} \/ c.client < Len(gs)

\* The client in use was made for the present settings.
ClientsOK ==
    /\ settings \in Settings
    /\ clients \in Seq(Settings) /\ Len(clients) \in 1..MaxChanges + 1
    /\ clients[Len(clients)] = settings

CallsOK ==
    /\ call \in [Callers -> Call]
    /\ \A w \in Callers : CallOK(w, call[w], clients)

QueueOK ==
    /\ ahead \in [Callers -> SUBSET Callers]
    /\ \A w \in Callers : \A v \in ahead[w] :
          /\ call[v].at = "queued" /\ call[w].at = "queued"
          /\ call[v].client = call[w].client /\ w \notin ahead[v]

Shown == fate \cap {"surfaced", "unshown"} # {}

\* Where the turn has got to and what became of it.
DriftOK ==
    /\ pc \in {"idle", "asking", "surface", "record", "publish"}
    /\ verdict \in Severities
    /\ filed \in {0, 1}
    /\ fate \subseteq {"none yet", "timeout", "surfaced", "unshown", "lost", "aired"}
    /\ pc = "asking" <=> call[Drift].at # "idle"
    /\ pc = "idle" =>
          \/ filed = 1 /\ fate \cap {"timeout", "lost"} = {}
          \/ filed = 0 /\ fate \cap {"none yet", "timeout", "lost"} # {}
    /\ pc = "asking" =>
          filed = 0 /\ fate = IF TimedOut(call[Drift]) THEN {"timeout"} ELSE {}
    /\ pc = "surface" => filed = 0 /\ fate = {} /\ verdict = "high"
    /\ pc \in {"record", "publish"} => fate \subseteq {"surfaced", "unshown"}
    /\ pc = "record" => filed = 0 /\ (verdict = "high" <=> Shown)
    /\ pc = "publish" => filed = 1
    /\ filed = 1 => (verdict = "high" <=> Shown)
    /\ "aired" \in fate => filed = 1

IInv == ClientsOK /\ CallsOK /\ QueueOK /\ DriftOK

\* The invariant holds what the runs check.
LEMMA IInvHolds ==
  IInv => TypeOK /\ MetricsAccounted /\ SettingsApply /\ TurnsJudged
<1> SUFFICES ASSUME IInv
             PROVE  TypeOK /\ MetricsAccounted /\ SettingsApply /\ TurnsJudged
  OBVIOUS
<1>1. \A w \in Callers : CallOK(w, call[w], clients)
  BY DEF IInv, CallsOK
<1>2. MetricsAccounted
  BY <1>1 DEF MetricsAccounted, CallOK, Ended
<1>3. SettingsApply
  BY <1>1 DEF SettingsApply, CallOK, InUse
<1>4. TurnsJudged
  BY DEF TurnsJudged, IInv, DriftOK, Shown
<1>5. \A w \in Callers :
        /\ call[w].client <= Len(clients)
        /\ call[w].at \in {"sent", "recording"} => call[w].profile # 0
        /\ call[w].at = "cut" => w = Drift
  BY <1>1 DEF CallOK, Started
<1>6. filed \in 0..2
  <2>1. filed \in {0, 1}
    BY DEF IInv, DriftOK
  <2> QED BY <2>1
<1>7. TypeOK
  BY <1>5, <1>6 DEF TypeOK, IInv, ClientsOK, CallsOK, QueueOK, DriftOK
<1> QED BY <1>2, <1>3, <1>4, <1>7

LEMMA IInvInit == Init => IInv
<1> SUFFICES ASSUME Init PROVE IInv
  OBVIOUS
<1>1. ClientsOK
  <2>1. 1 \in 1..MaxChanges + 1
    BY LocalLLMAssumption
  <2>2. clients = <<settings>> /\ settings \in Settings
    BY DEF Init
  <2>3. clients \in Seq(Settings) /\ Len(clients) = 1 /\ clients[1] = settings
    BY <2>2
  <2> QED BY <2>1, <2>2, <2>3 DEF ClientsOK
<1>2. Never \in Call
  BY LocalLLMAssumption DEF Never, Call
<1>3. CallsOK
  <2>1. ASSUME NEW w \in Callers PROVE CallOK(w, Never, clients)
    BY <1>1, <1>2 DEF CallOK, ClientsOK, Never, Started, Ended
  <2> QED BY <1>2, <2>1 DEF Init, CallsOK
<1>4. QueueOK
  BY DEF Init, QueueOK
<1>5. DriftOK
  BY DEF Init, DriftOK, Never, Severities, Shown, Callers
<1> QED BY <1>1, <1>3, <1>4, <1>5 DEF IInv

-----------------------------------------------------------------------------
(* Steps in general. *)

\* The call of w becomes c.
LEMMA OneCall ==
  ASSUME CallsOK, NEW w \in Callers, NEW c, CallOK(w, c, clients),
         call' = [call EXCEPT ![w] = c], clients' = clients
  PROVE  CallsOK'
<1>1. \A v \in Callers : call'[v] = IF v = w THEN c ELSE call[v]
  BY DEF CallsOK
<1>2. call' \in [Callers -> Call]
  BY DEF CallsOK, CallOK
<1>3. \A v \in Callers : CallOK(v, call'[v], clients)
  BY <1>1 DEF CallsOK
<1> QED BY <1>2, <1>3 DEF CallsOK

\* A new call of w joins the queue of client g.
LEMMA Joins ==
  ASSUME CallsOK, QueueOK, ClientsOK, clients' = clients,
         NEW w \in Callers, call[w].at # "queued",
         NEW g \in 1..Len(clients), NEW retry \in BOOLEAN, Ask(w, g, retry),
         retry => w = Synth, retry \/ g = Len(clients)
  PROVE  CallsOK' /\ QueueOK'
<1> DEFINE c == NewCall(w, g, retry)
<1>1. ProfileFor(settings, Kind(w)) \in {1, 2}
  BY DEF ProfileFor
<1>2. g \in 1..MaxChanges + 1
  BY LocalLLMAssumption DEF ClientsOK
<1>3. c = [at |-> "queued", client |-> g, want |-> ProfileFor(settings, Kind(w)),
           profile |-> 0, error |-> "none", retry |-> retry, metric |-> "none",
           model |-> 0]
  BY DEF NewCall
<1>4. c \in Call
  BY <1>1, <1>2, <1>3 DEF Call
<1>5. CallOK(w, c, clients)
  BY <1>3, <1>4 DEF CallOK, Started, Ended, ClientsOK
<1>6. call' = [call EXCEPT ![w] = c]
  BY DEF Ask
<1>7. CallsOK'
  BY <1>5, <1>6, OneCall
<1>8. \A v \in Callers : call'[v] = IF v = w THEN c ELSE call[v]
  BY <1>6 DEF CallsOK
<1>9. \A v \in Callers :
        ahead'[v] = IF v = w
                    THEN {u \in Callers \ {w} : call[u].at = "queued" /\ call[u].client = g}
                    ELSE ahead[v]
  BY DEF Ask, QueueOK
<1>10. ahead' \in [Callers -> SUBSET Callers]
  BY DEF Ask, QueueOK
<1>11. QueueOK'
  BY <1>3, <1>8, <1>9, <1>10 DEF QueueOK
<1> QED BY <1>7, <1>11

\* The call of w moves on, and w leaves the queue if it was there.
LEMMA Leaves ==
  ASSUME CallsOK, QueueOK, NEW w \in Callers, NEW c, c.at # "queued",
         call' = [call EXCEPT ![w] = c], ahead' = Left(w)
  PROVE  QueueOK'
<1>1. \A v \in Callers : call'[v] = IF v = w THEN c ELSE call[v]
  BY DEF CallsOK
<1>2. \A v \in Callers : ahead'[v] = IF v = w THEN {} ELSE ahead[v] \ {w}
  BY DEF Left
<1>3. ahead' \in [Callers -> SUBSET Callers]
  BY DEF Left, QueueOK
<1> QED BY <1>1, <1>2, <1>3 DEF QueueOK

LEMMA StaysOut ==
  ASSUME CallsOK, QueueOK, NEW w \in Callers, call[w].at # "queued", NEW c,
         c.at # "queued", call' = [call EXCEPT ![w] = c], ahead' = ahead
  PROVE  QueueOK'
<1>1. \A v \in Callers : call'[v] = IF v = w THEN c ELSE call[v]
  BY DEF CallsOK
<1> QED BY <1>1 DEF QueueOK

\* The drift worker is where it was, with its call in the same state.
LEMMA DriftStays ==
  ASSUME DriftOK, UNCHANGED driftVars,
         call'[Drift].at = "idle" <=> call[Drift].at = "idle",
         TimedOut(call[Drift]) <=> TimedOut(call[Drift])'
  PROVE  DriftOK'
  BY DEF DriftOK, driftVars, Shown

-----------------------------------------------------------------------------
(* Steps of the clients. *)

LEMMA SettingsStep ==
  ASSUME IInv, NEW cfg \in Settings, ChangeSettings(cfg)
  PROVE  IInv'
<1>1. /\ clients \in Seq(Settings) /\ Len(clients) <= MaxChanges
      /\ Len(clients) \in 1..MaxChanges + 1
      /\ clients' = Append(clients, cfg) /\ settings' = cfg
      /\ UNCHANGED <<ahead, call, driftVars>>
  BY DEF ChangeSettings, Rebuilt, IInv, ClientsOK
<1>2. /\ clients' \in Seq(Settings) /\ Len(clients') = Len(clients) + 1
      /\ clients'[Len(clients) + 1] = cfg
      /\ \A i \in 1..Len(clients) : clients'[i] = clients[i]
  BY <1>1
<1>3. ClientsOK'
  <2>1. Len(clients') \in 1..MaxChanges + 1
    BY <1>1, <1>2, LocalLLMAssumption
  <2> QED BY <1>1, <1>2, <2>1 DEF ClientsOK
<1>4. CallsOK'
  <2>1. ASSUME NEW w \in Callers PROVE CallOK(w, call[w], clients')
    <3>1. CallOK(w, call[w], clients) /\ call[w] \in Call
      BY DEF IInv, CallsOK, CallOK
    <3>2. call[w].client \in 1..Len(clients)
      BY <1>1, <3>1, LocalLLMAssumption DEF CallOK, Call
    <3>3. clients'[call[w].client] = clients[call[w].client]
      BY <1>2, <3>2
    <3>4. call[w].client < Len(clients')
      BY <1>1, <1>2, <3>2
    <3>5. call[w].client <= Len(clients')
      BY <1>1, <1>2, <3>2
    <3> QED BY <3>1, <3>3, <3>4, <3>5 DEF CallOK
  <2> QED BY <1>1, <2>1 DEF CallsOK, IInv
<1>5. QueueOK' /\ DriftOK'
  BY <1>1, ZenonT(40) DEF IInv, QueueOK, DriftOK, driftVars, Shown, TimedOut
<1> QED BY <1>3, <1>4, <1>5 DEF IInv

LEMMA SendStep ==
  ASSUME IInv, NEW w \in Callers, Send(w)
  PROVE  IInv'
<1> DEFINE c == [call[w] EXCEPT !.at = "sent",
                    !.profile = ProfileFor(clients[call[w].client], Kind(w))]
<1>1. /\ call[w].at = "queued" /\ ahead' = Left(w)
      /\ call' = [call EXCEPT ![w] = c] /\ UNCHANGED <<llmVars, driftVars>>
  BY DEF Send
<1>2. CallOK(w, call[w], clients) /\ call[w] \in Call
  BY DEF IInv, CallsOK, CallOK
<1>3. ProfileFor(clients[call[w].client], Kind(w)) \in {1, 2}
  BY DEF ProfileFor
<1>4. c \in Call /\ c.at = "sent"
  BY <1>2, <1>3 DEF Call
<1>5. CallOK(w, c, clients)
  BY <1>1, <1>2, <1>3, <1>4 DEF CallOK, Call, Started, Ended
<1>6. CallsOK' /\ QueueOK' /\ ClientsOK'
  BY <1>1, <1>4, <1>5, OneCall, Leaves DEF IInv, ClientsOK, llmVars
<1>7. call'[Drift] = IF w = Drift THEN c ELSE call[Drift]
  BY <1>1 DEF IInv, CallsOK, Callers
<1>8. DriftOK'
  BY <1>1, <1>2, <1>7, DriftStays DEF IInv, TimedOut
<1> QED BY <1>6, <1>8 DEF IInv

\* The call of w moves on at a client, outside the queue, and the drift worker
\* waits for it as before.
LEMMA Advances ==
  ASSUME IInv, NEW w \in Callers, NEW c, CallOK(w, c, clients),
         call' = [call EXCEPT ![w] = c], UNCHANGED <<llmVars, ahead, driftVars>>,
         call[w].at # "queued", c.at # "queued",
         w = Drift => /\ c.at = "idle" <=> call[w].at = "idle"
                      /\ TimedOut(c) <=> TimedOut(call[w])
  PROVE  IInv'
<1>1. CallsOK' /\ QueueOK' /\ ClientsOK'
  BY OneCall, StaysOut DEF IInv, ClientsOK, llmVars
<1>2. call'[Drift] = IF w = Drift THEN c ELSE call[Drift]
  BY DEF IInv, CallsOK, Callers
<1>3. DriftOK'
  BY <1>2, DriftStays DEF IInv, TimedOut
<1> QED BY <1>1, <1>3 DEF IInv

LEMMA AnswerStep ==
  ASSUME IInv, NEW w \in Callers,
         (\E e \in {"none", "failed"} : Answer(w, e)) \/ AnswerEmpty(w)
  PROVE  IInv'
<1>1. CallOK(w, call[w], clients) /\ call[w] \in Call /\ call[w].at = "sent"
  BY DEF Answer, AnswerEmpty, IInv, CallsOK, CallOK
<1>2. ASSUME NEW e \in {"none", "failed"}, Answer(w, e) PROVE IInv'
  <2> DEFINE c == [call[w] EXCEPT !.at = "recording", !.error = e]
  <2>1. c \in Call /\ call' = [call EXCEPT ![w] = c]
    BY <1>1, <1>2 DEF Answer, Call
  <2>2. CallOK(w, c, clients)
    BY <1>1, <2>1 DEF CallOK, Call, Started, Ended
  <2>3. TimedOut(c) <=> TimedOut(call[w])
    BY <1>1 DEF TimedOut, CallOK, Call
  <2>4. UNCHANGED <<llmVars, ahead, driftVars>> /\ c.at = "recording"
    BY <1>1, <1>2 DEF Answer, Call
  <2> QED BY <1>1, <2>1, <2>2, <2>3, <2>4, Advances
<1>3. ASSUME AnswerEmpty(w) PROVE IInv'
  <2> DEFINE c == [call[w] EXCEPT !.at = "told", !.error = "failed", !.metric = "lost"]
  <2>1. c \in Call /\ call' = [call EXCEPT ![w] = c]
    BY <1>1, <1>3 DEF AnswerEmpty, Call
  <2>2. CallOK(w, c, clients)
    BY <1>1, <2>1 DEF CallOK, Call, Started, Ended
  <2>3. TimedOut(c) <=> TimedOut(call[w])
    BY <1>1 DEF TimedOut, CallOK, Call
  <2>4. UNCHANGED <<llmVars, ahead, driftVars>> /\ c.at = "told"
    BY <1>1, <1>3 DEF AnswerEmpty, Call
  <2> QED BY <1>1, <2>1, <2>2, <2>3, <2>4, Advances
<1> QED BY <1>2, <1>3

LEMMA MetricStep ==
  ASSUME IInv, NEW w \in Callers, RecordMetric(w)
  PROVE  IInv'
<1>1. CallOK(w, call[w], clients) /\ call[w] \in Call /\ call[w].at = "recording"
  BY DEF RecordMetric, IInv, CallsOK, CallOK
<1>2. PICK m \in {"row", "lost"} :
        call' = [call EXCEPT ![w].at = "told", ![w].metric = m]
  BY DEF RecordMetric
<1> DEFINE c == [call[w] EXCEPT !.at = "told", !.metric = m]
<1>3. c \in Call /\ call' = [call EXCEPT ![w] = c]
  BY <1>1, <1>2 DEF Call
<1>4. CallOK(w, c, clients)
  BY <1>1, <1>3 DEF CallOK, Call, Started, Ended
<1>5. TimedOut(c) <=> TimedOut(call[w])
  BY <1>1 DEF TimedOut, Call
<1>6. UNCHANGED <<llmVars, ahead, driftVars>> /\ c.at = "told"
  BY <1>1 DEF RecordMetric, Call
<1> QED BY <1>1, <1>3, <1>4, <1>5, <1>6, Advances

-----------------------------------------------------------------------------
(* Steps of the synthesis and the graders. *)

\* Drift is not a caller of these.
LEMMA Others == Synth # Drift /\ (\A w \in Graders : w # Drift /\ w # Synth)
  BY LocalLLMAssumption

LEMMA NeverOK == ASSUME IInv, NEW w \in Callers PROVE CallOK(w, Never, clients)
<1>1. Never \in Call
  BY LocalLLMAssumption DEF Never, Call
<1> QED BY <1>1 DEF IInv, ClientsOK, CallOK, Never, Started, Ended

\* w, which is not the drift worker, asks anew.
LEMMA Asks ==
  ASSUME IInv, NEW w \in Callers, w # Drift, call[w].at # "queued",
         NEW g \in 1..Len(clients), NEW retry \in BOOLEAN, Ask(w, g, retry),
         retry => w = Synth, retry \/ g = Len(clients),
         UNCHANGED <<llmVars, driftVars>>
  PROVE  IInv'
<1>1. clients' = clients /\ ClientsOK'
  BY DEF IInv, ClientsOK, llmVars
<1>2. CallsOK' /\ QueueOK'
  BY <1>1, Joins DEF IInv
<1>3. call'[Drift] = call[Drift]
  BY DEF Ask, IInv, CallsOK, Callers
<1>4. DriftOK'
  BY <1>3, DriftStays DEF IInv, TimedOut
<1> QED BY <1>1, <1>2, <1>4 DEF IInv

LEMMA BeginStep == ASSUME IInv, NEW w \in Callers, Begin(w) PROVE IInv'
<1>1. Len(clients) \in 1..Len(clients)
  BY DEF IInv, ClientsOK
<1> QED BY <1>1, Asks DEF Begin, InUse

LEMMA RetryStep == ASSUME IInv, Retry PROVE IInv'
<1>1. CallOK(Synth, call[Synth], clients) /\ Synth \in Callers
  BY DEF IInv, CallsOK, Callers
<1>2. call[Synth].client \in 1..Len(clients)
  BY <1>1, LocalLLMAssumption DEF CallOK, Call, IInv, ClientsOK
<1> QED BY <1>1, <1>2, Others, Asks DEF Retry

LEMMA EndSynthStep == ASSUME IInv, EndSynth PROVE IInv'
<1>1. Synth \in Callers /\ Never.at = "idle"
  BY DEF Callers, Never
<1>2. CallOK(Synth, Never, clients)
  BY <1>1, NeverOK
<1> QED BY <1>1, <1>2, Others, Advances DEF EndSynth

LEMMA ScoreStep == ASSUME IInv, NEW w \in Callers, Score(w) PROVE IInv'
<1>1. CallOK(w, call[w], clients) /\ call[w] \in Call /\ call[w].at = "told"
      /\ w \in Graders /\ UNCHANGED <<llmVars, ahead, driftVars>>
  BY DEF Score, IInv, CallsOK, CallOK
<1> DEFINE s == [Never EXCEPT !.client = call[w].client,
                              !.profile = call[w].profile,
                              !.want = call[w].want,
                              !.model = ProfileFor(clients[InUse], Kind(w))]
           c == IF call[w].error = "none" THEN s ELSE Never
<1>2. call' = [call EXCEPT ![w] = c]
  BY DEF Score
<1>3. ProfileFor(clients[InUse], Kind(w)) \in {1, 2}
  BY DEF ProfileFor
<1>4. s \in Call /\ s.at = "idle" /\ s.retry = FALSE
  BY <1>1, <1>3 DEF Call, Never
<1>5. s.client = call[w].client /\ s.profile = call[w].profile
      /\ s.want = call[w].want /\ s.model = ProfileFor(clients[InUse], Kind(w))
  BY DEF Never
<1>6. s.model \in {0, s.profile} \/ s.client < Len(clients)
  <2>1. CASE call[w].client = Len(clients)
    BY <1>1, <1>5, <2>1 DEF CallOK, InUse
  <2>2. CASE call[w].client # Len(clients)
    BY <1>1, <1>5, <2>2, LocalLLMAssumption DEF CallOK, Call, IInv, ClientsOK
  <2> QED BY <2>1, <2>2
<1>7. CallOK(w, s, clients)
  BY <1>1, <1>4, <1>5, <1>6, Others DEF CallOK, Started, Ended
<1>8. CallOK(w, c, clients) /\ c.at = "idle"
  BY <1>4, <1>7, NeverOK DEF Never
<1> QED BY <1>1, <1>2, <1>8, Others, Advances

-----------------------------------------------------------------------------
(* Steps of the drift worker. *)

\* Only the drift worker takes a step, without a call.
LEMMA TurnAlone ==
  ASSUME IInv, TakeOnGoal \/ Surface \/ RecordDrift \/ RecordDriftFails \/ PublishDrift
  PROVE  IInv'
<1>1. UNCHANGED <<llmVars, ahead, call>>
  BY DEF TakeOnGoal, Surface, RecordDrift, RecordDriftFails, PublishDrift
<1>2. ClientsOK' /\ CallsOK' /\ QueueOK'
  BY <1>1 DEF IInv, ClientsOK, CallsOK, QueueOK, llmVars
<1>3. ASSUME TakeOnGoal PROVE DriftOK'
  BY <1>1, <1>3 DEF TakeOnGoal, NextTurn, IInv, DriftOK, Severities, Shown
<1>4. ASSUME Surface PROVE DriftOK'
  BY <1>1, <1>4 DEF Surface, IInv, DriftOK, Shown
<1>5. ASSUME RecordDrift PROVE DriftOK'
  <2>1. /\ pc = "record" /\ pc' = "publish" /\ UNCHANGED <<call, verdict, fate>>
        /\ filed' = filed + 1
    BY <1>5 DEF RecordDrift
  <2>2. /\ filed = 0 /\ fate \subseteq {"surfaced", "unshown"}
        /\ verdict \in Severities /\ (verdict = "high" <=> Shown)
        /\ call[Drift].at = "idle"
    BY <2>1 DEF IInv, DriftOK
  <2>3. filed' = 1 /\ fate' \subseteq {"surfaced", "unshown"} /\ call'[Drift].at = "idle"
        /\ (verdict' = "high" <=> Shown') /\ verdict' \in Severities
    BY <2>1, <2>2 DEF Shown
  <2> QED BY <2>1, <2>3 DEF DriftOK
<1>6. ASSUME RecordDriftFails PROVE DriftOK'
  <2>1. /\ pc = "record" /\ pc' = "idle" /\ UNCHANGED <<call, verdict, filed>>
        /\ fate' = fate \cup {"lost"}
    BY <1>6 DEF RecordDriftFails
  <2>2. /\ filed = 0 /\ fate \subseteq {"surfaced", "unshown"}
        /\ verdict \in Severities /\ call[Drift].at = "idle"
    BY <2>1 DEF IInv, DriftOK
  <2>3. /\ "lost" \in fate' /\ "aired" \notin fate'
        /\ fate' \subseteq {"none yet", "timeout", "surfaced", "unshown", "lost", "aired"}
    BY <2>1, <2>2
  <2>4. filed' = 0 /\ verdict' \in Severities /\ call'[Drift].at = "idle" /\ pc' = "idle"
    BY <2>1, <2>2
  <2>5. pc' \notin {"asking", "surface", "record", "publish"} /\ filed' # 1
    BY <2>4
  <2>6. fate' \cap {"none yet", "timeout", "lost"} # {}
    BY <2>3
  <2> QED BY <2>3, <2>4, <2>5, <2>6 DEF DriftOK
<1>7. ASSUME PublishDrift PROVE DriftOK'
  <2>1. /\ pc = "publish" /\ pc' = "idle" /\ UNCHANGED <<call, verdict, filed>>
        /\ fate' = fate \/ fate' = fate \cup {"aired"}
    BY <1>7 DEF PublishDrift
  <2>2. /\ filed = 1 /\ fate \subseteq {"surfaced", "unshown"}
        /\ verdict \in Severities /\ (verdict = "high" <=> Shown)
    BY <2>1 DEF IInv, DriftOK
  <2>3. Shown' <=> Shown
    BY <2>1 DEF Shown
  <2>4. fate' \subseteq {"surfaced", "unshown", "aired"}
    BY <2>1, <2>2
  <2>5. call'[Drift].at = "idle"
    BY <2>1 DEF IInv, DriftOK
  <2>6. /\ fate' \cap {"timeout", "lost"} = {}
        /\ fate' \subseteq {"none yet", "timeout", "surfaced", "unshown", "lost", "aired"}
    BY <2>4
  <2>7. filed' = 1 /\ pc' = "idle" /\ verdict' \in Severities
        /\ (verdict' = "high" <=> Shown')
    BY <2>1, <2>2, <2>3
  <2> QED BY <2>5, <2>6, <2>7 DEF DriftOK
<1> QED BY <1>2, <1>3, <1>4, <1>5, <1>6, <1>7 DEF IInv

LEMMA EscalateStep == ASSUME IInv, Escalate PROVE IInv'
<1>1. /\ pc = "idle" /\ filed' = 0 /\ fate' = {} /\ pc' = "asking"
      /\ UNCHANGED <<llmVars, verdict>>
      /\ Ask(Drift, Len(clients), FALSE)
  BY DEF Escalate, NextTurn, InUse
<1>2. Drift \in Callers /\ call[Drift].at = "idle" /\ Len(clients) \in 1..Len(clients)
  <2>1. Len(clients) \in 1..Len(clients)
    BY DEF IInv, ClientsOK
  <2>2. call[Drift].at = "idle"
    BY <1>1 DEF IInv, DriftOK
  <2> QED BY <2>1, <2>2 DEF Callers
<1>3. ClientsOK' /\ clients' = clients
  BY <1>1 DEF IInv, ClientsOK, llmVars
<1>4. CallsOK' /\ QueueOK'
  BY <1>1, <1>2, <1>3, Joins DEF IInv
<1>5. call'[Drift] = NewCall(Drift, Len(clients), FALSE)
  BY <1>1, <1>2 DEF Ask, IInv, CallsOK
<1>6. call'[Drift].at = "queued" /\ ~TimedOut(call[Drift])'
  BY <1>5 DEF NewCall, TimedOut
<1>7. verdict' \in Severities
  BY <1>1 DEF IInv, DriftOK
<1>8. DriftOK'
  BY <1>1, <1>6, <1>7 DEF DriftOK, Shown
<1> QED BY <1>3, <1>4, <1>8 DEF IInv

LEMMA JudgeStep == ASSUME IInv, Judge PROVE IInv'
<1>1. /\ call[Drift].at \in {"told", "cut"} /\ call' = [call EXCEPT ![Drift] = Never]
      /\ UNCHANGED <<llmVars, ahead, filed, fate>>
  BY DEF Judge
<1>2. Drift \in Callers /\ Never.at = "idle"
  BY DEF Callers, Never
<1>3. ClientsOK' /\ CallsOK' /\ QueueOK'
  BY <1>1, <1>2, NeverOK, OneCall, StaysOut DEF IInv, ClientsOK, llmVars
<1>4. call'[Drift].at = "idle"
  BY <1>1, <1>2 DEF IInv, CallsOK
<1>5. pc = "asking"
  BY <1>1 DEF IInv, DriftOK
<1>6. CASE ~TimedOut(call[Drift])
  <2>1. verdict' \in Severities /\ pc' = IF verdict' = "high" THEN "surface" ELSE "record"
    BY <1>6 DEF Judge, Judged, Severities
  <2>2. filed' = 0 /\ fate' = {}
    BY <1>1, <1>5, <1>6 DEF IInv, DriftOK
  <2>3. DriftOK'
    BY <1>4, <2>1, <2>2 DEF DriftOK, Shown
  <2> QED BY <1>3, <2>3 DEF IInv
<1>7. CASE TimedOut(call[Drift])
  <2>1. pc' = "idle" /\ verdict' = verdict
    BY <1>7 DEF Judge
  <2>2. filed' = 0 /\ fate' = {"timeout"} /\ verdict \in Severities
    BY <1>1, <1>5, <1>7 DEF IInv, DriftOK
  <2>3. DriftOK'
    BY <1>4, <2>1, <2>2 DEF DriftOK, Shown
  <2> QED BY <1>3, <2>3 DEF IInv
<1> QED BY <1>6, <1>7

\* Whatever the call was doing, c is a call that has run into the cap.
LEMMA Timeouts ==
  ASSUME IInv, Cap, NEW c, call' = [call EXCEPT ![Drift] = c], TimedOut(c),
         c.at # "idle", CallOK(Drift, c, clients), QueueOK'
  PROVE  IInv'
<1>1. UNCHANGED <<llmVars, pc, verdict, filed>> /\ fate' = fate \cup {"timeout"}
      /\ Capped(call[Drift]) /\ Drift \in Callers
  BY DEF Cap, Callers
<1>2. ClientsOK' /\ CallsOK' /\ call'[Drift] = c
  BY <1>1, OneCall DEF IInv, ClientsOK, CallsOK, llmVars
<1>3. pc = "asking" /\ ~TimedOut(call[Drift])
  BY <1>1 DEF Capped, TimedOut, IInv, DriftOK
<1>4. filed' = 0 /\ fate' = {"timeout"} /\ pc' = "asking" /\ verdict' \in Severities
  BY <1>1, <1>3 DEF IInv, DriftOK
<1>5. TimedOut(call[Drift])' /\ call'[Drift].at # "idle"
  BY <1>2 DEF TimedOut
<1>6. DriftOK'
  BY <1>4, <1>5 DEF DriftOK, Shown
<1> QED BY <1>2, <1>6 DEF IInv

LEMMA CapStep == ASSUME IInv, Cap PROVE IInv'
<1>1. CallOK(Drift, call[Drift], clients) /\ call[Drift] \in Call /\ Drift \in Callers
  BY DEF IInv, CallsOK, CallOK, Callers
<1>2. CASE call[Drift].at = "queued"
  <2> DEFINE c == [call[Drift] EXCEPT !.at = "cut"]
  <2>1. ahead' = Left(Drift) /\ call' = [call EXCEPT ![Drift] = c]
    BY <1>2 DEF Cap
  <2>2. c \in Call /\ c.at = "cut"
    BY <1>1 DEF Call
  <2>3. CallOK(Drift, c, clients)
    BY <1>1, <1>2, <2>2 DEF CallOK, Call, Started, Ended
  <2>4. QueueOK'
    BY <1>1, <2>1, <2>2, Leaves DEF IInv
  <2> QED BY <2>1, <2>2, <2>3, <2>4, Timeouts DEF TimedOut
<1>3. CASE call[Drift].at = "sent"
  <2> DEFINE c == TornDown(call[Drift])
  <2>1. ahead' = ahead /\ call' = [call EXCEPT ![Drift] = c]
    BY <1>3 DEF Cap
  <2>2. c \in Call /\ c.at = "recording" /\ c.error = "cancelled"
    BY <1>1 DEF Call, TornDown
  <2>3. CallOK(Drift, c, clients)
    BY <1>1, <1>3, <2>2 DEF CallOK, Call, Started, Ended, TornDown
  <2>4. QueueOK'
    BY <1>1, <1>3, <2>1, <2>2, StaysOut DEF IInv
  <2> QED BY <2>1, <2>2, <2>3, <2>4, Timeouts DEF TimedOut
<1>4. CASE call[Drift].at = "recording"
  <2>1. PICK m \in {"row", "lost"} :
          call' = [call EXCEPT ![Drift].at = "cut", ![Drift].metric = m]
    BY <1>4 DEF Cap
  <2> DEFINE c == [call[Drift] EXCEPT !.at = "cut", !.metric = m]
  <2>2. ahead' = ahead /\ call' = [call EXCEPT ![Drift] = c]
    BY <1>4, <2>1 DEF Cap
  <2>3. c \in Call /\ c.at = "cut"
    BY <1>1 DEF Call
  <2>4. CallOK(Drift, c, clients)
    BY <1>1, <1>4, <2>3 DEF CallOK, Call, Started, Ended
  <2>5. QueueOK'
    BY <1>1, <1>4, <2>2, <2>3, StaysOut DEF IInv
  <2> QED BY <2>2, <2>3, <2>4, <2>5, Timeouts DEF TimedOut
<1> QED BY <1>2, <1>3, <1>4 DEF Cap

-----------------------------------------------------------------------------

LEMMA IInvStep == IInv /\ [Next]_vars => IInv'
<1>1. ASSUME IInv, UNCHANGED vars PROVE IInv'
  BY <1>1, ZenonT(40) DEF IInv, ClientsOK, CallsOK, QueueOK, DriftOK, Shown, TimedOut, vars,
              llmVars, driftVars
<1> QED
  BY <1>1, SettingsStep, BeginStep, SendStep, AnswerStep, MetricStep, ScoreStep,
     RetryStep, EndSynthStep, TurnAlone, EscalateStep, JudgeStep, CapStep
  DEF Next, DriftStep

LEMMA Invariant == Spec => []IInv
  BY IInvInit, IInvStep, PTL DEF Spec

\* The type invariant of the LLM calls: those ahead of a caller at a semaphore
\* wait at the same one, and a turn in the cap's hands has a call.
THEOREM TypeCorrect == Spec => []TypeOK
  BY Invariant, IInvHolds, PTL

\* Every request that was sent leaves its metric, and none that was not,
\* whatever is cancelled, fails or is replaced.
THEOREM MetricsAreAccounted == Spec => []MetricsAccounted
  BY Invariant, IInvHolds, PTL

\* A call goes to the profile the settings named when it was asked for, for any
\* number of changes in between.
THEOREM SettingsAreApplied == Spec => []SettingsApply
  BY Invariant, IInvHolds, PTL

\* A turn the drift worker is done with has one row or a reason not to.
THEOREM TurnsAreJudged == Spec => []TurnsJudged
  BY Invariant, IInvHolds, PTL

-----------------------------------------------------------------------------
(* Alerts: the constraints worker.                                         *)

Line == [session : Sessions, call : Calls, backlog : BOOLEAN]

\* What the worker and its history are made of.
RuleTypes ==
    /\ rules \in Overlays \cup {Unreadable}
    /\ items \in 0..MaxItems
    /\ lines \in Seq(Line) /\ Len(lines) <= items
    /\ taken \in 0..Len(lines) /\ first \in 0..taken
    /\ seen \in [Sessions -> SUBSET Key]
    /\ rulePc \in {"idle", "record", "publish", "surface", "notify"}
    /\ rulePc # "idle" => taken > first
    /\ policy \in Policies /\ slot \in Slots
    /\ rows \subseteq Violation /\ owed \subseteq Violation
    /\ lost \subseteq Sessions \X Key
    /\ aired \subseteq rows /\ unaired \subseteq rows

\* Rule k, once broken by session s since the last restart, has a row or was
\* dropped by a failing ledger.
Kept(s, k) ==
    \/ <<s, k>> \in lost
    \/ \E r \in rows : r.line > first /\ lines[r.line].session = s /\ r.key = k

\* The violation at hand is one of the line at hand, and so are its rows and
\* what it owes.
AtHand ==
    rulePc # "idle" =>
      /\ \E v \in Violations(taken, policy) : v.slot = slot
      /\ \A v \in rows \cup owed : v.line = taken => v \in Violations(taken, policy)
      /\ rulePc # "record" => Found \in rows

\* Rules are marked as seen exactly for what has a row, was lost, or is about
\* to be recorded, and that has no row yet.
SeenInv ==
    /\ \A s \in Sessions : \A k \in seen[s] :
          Kept(s, k) \/ (rulePc = "record" /\ s = Cur.session /\ k = Found.key)
    /\ \A r \in rows : r.line > first => r.key \in seen[lines[r.line].session]
    /\ rulePc = "record" =>
          /\ Found.key \in seen[Cur.session]
          /\ \A r \in rows : r.line > first /\ lines[r.line].session = Cur.session
                                => r.key # Found.key

AccountInv ==
    /\ \A r \in rows : r.line <= taken
    /\ \A v \in owed : v.line > first /\ v.line <= taken
    /\ \A v \in owed : Pending(v) \/ Kept(lines[v.line].session, v.key)
    /\ \A r, q \in rows :
          r.line > first /\ q.line > first /\ SameRule(r, q) => r = q

\* What has a row of this run was aired, could not be, must not be, or is about
\* to be.
AirInv ==
    /\ \A r \in aired : ~lines[r.line].backlog
    /\ \A r \in rows : r.line > first =>
          \/ r \in aired \cup unaired
          \/ lines[r.line].backlog
          \/ r.line = taken /\ r.slot = slot /\ rulePc = "publish"

RuleInv == RuleTypes /\ AtHand /\ SeenInv /\ AccountInv /\ AirInv

-----------------------------------------------------------------------------
(* Alerts: the audit worker.                                               *)

AuditTypes ==
    /\ texts \in Seq(Sessions \X Texts)
    /\ auditPc \in {"idle", "scan", "record", "surface", "notify"}
    /\ who \in Sessions
    /\ claims \in Seq(Claim)
    /\ auditPc # "idle" => claims # <<>>
    /\ pos \in 0..Limit
    /\ found \subseteq Names
    /\ status \in {"verified", "contradicted", "unverifiable", "skip"}
    /\ auditPc \in {"surface", "notify"} => status = "contradicted"
    /\ verdicts \subseteq Claim \X {"verified", "contradicted"}
    /\ repo \in [Files -> SUBSET Names]
    /\ steady \subseteq Files \X Names /\ ever \subseteq Files \X Names

\* The history of the scan brackets the files, and what the scan has found in
\* the files behind it is bracketed by the history.
ScanInv ==
    /\ steady \subseteq Holdings
    /\ auditPc # "idle" =>
         /\ Holdings \subseteq ever
         /\ \A n \in found : n \in Head(claims).names
                             /\ \E f \in 1..pos : <<f, n>> \in ever
         /\ \A f \in 1..pos, n \in Head(claims).names :
               n \notin found => <<f, n>> \notin steady
    /\ auditPc \in {"record", "surface", "notify"} =>
         /\ status = Verdict(Head(claims))
         /\ status \in {"verified", "contradicted"}
         /\ Scanned

-----------------------------------------------------------------------------
(* Alerts: toasts.                                                         *)

ToastTypes ==
    /\ now \in 0..MaxTime
    /\ edits \in 0..MaxEdits /\ faults \in 0..MaxFaults
    /\ surfaced \subseteq ToastKeys
    /\ last \in [ToastKeys -> 0..now]
    /\ toasts \in [ToastKeys -> SUBSET (0..now)]
    /\ suppressed \in [ToastKeys -> SUBSET (0..now)]

\* The time kept for a key is that of its latest toast.
KeptTime(k) ==
    /\ toasts[k] = {} => last[k] = 0
    /\ toasts[k] # {} => last[k] \in toasts[k]
    /\ \A t \in toasts[k] : t <= last[k]

\* Toasts keep their distance and nothing is held back without a reason.
Spaced(k) ==
    /\ \A t, u \in toasts[k] : t < u => u - t >= Debounce
    /\ \A t \in suppressed[k] :
          t < Debounce \/ \E u \in toasts[k] : u <= t /\ t - u < Debounce

\* What is raised at key k has its row.
HasRow(k) == toasts[k] \cup suppressed[k] # {} => k \in surfaced \/ k[2] = "exfiltration"

ToastInv ==
    /\ \A k \in ToastKeys : KeptTime(k) /\ Spaced(k) /\ HasRow(k)
    /\ rulePc = "notify" => <<Cur.session, "constraint">> \in surfaced
    /\ auditPc = "notify" => <<who, "claim">> \in surfaced

-----------------------------------------------------------------------------
(* Alerts: what a check finds.                                             *)

\* A check finds at most one violation: violation_for returns the first, and
\* a call has at most one command.
LEMMA MatchOnce ==
    ASSUME NEW kind, NEW list, NEW x, NEW a \in FirstMatch(kind, list, x),
           NEW b \in FirstMatch(kind, list, x)
    PROVE  a = b
  BY DEF FirstMatch

LEMMA OffLimitsOnce ==
    ASSUME NEW p, NEW x, NEW a \in OffLimits(p, x), NEW b \in OffLimits(p, x)
    PROVE  a = b
  BY MatchOnce DEF OffLimits

LEMMA BrokenOnce ==
    ASSUME AlertsAssumption, NEW p, NEW c \in Calls, NEW n \in Slots,
           NEW a \in Broken(p, c, n), NEW b \in Broken(p, c, n)
    PROVE  a = b
<1> DEFINE i == (n + 1) \div 2
<1>1. CASE i \notin DOMAIN c.paths
  <2>1. Broken(p, c, n) =
          UNION {FirstMatch("forbidden-bash", p["bash"], x) : x \in c.commands}
    BY <1>1 DEF Broken
  <2>2. \A x, y \in c.commands : x = y
    BY DEF AlertsAssumption
  <2> QED BY <2>1, <2>2, MatchOnce
<1>2. CASE i \in DOMAIN c.paths /\ n % 2 = 1
  <2>1. Broken(p, c, n) = FirstMatch("immutable", p["immutable"], c.paths[i])
    BY <1>2 DEF Broken
  <2> QED BY <2>1, MatchOnce
<1>3. CASE i \in DOMAIN c.paths /\ n % 2 = 0
  <2>1. Broken(p, c, n) =
          IF c.paths[i] \in Memory THEN {} ELSE OffLimits(p, c.paths[i])
    BY <1>3 DEF Broken
  <2> QED BY <2>1, OffLimitsOnce
<1>4. n % 2 \in {0, 1}
  BY DEF Slots
<1> QED BY <1>1, <1>2, <1>3, <1>4

LEMMA SlotOnce ==
    ASSUME AlertsAssumption, RuleTypes, NEW n \in 1..Len(lines), NEW p,
           NEW v \in Violations(n, p), NEW w \in Violations(n, p), v.slot = w.slot
    PROVE  v = w
<1>1. lines[n].call \in Calls
  <2>1. lines[n] \in Line
    BY ElementOfSeq DEF RuleTypes
  <2> QED BY <2>1 DEF Line
<1>2. v.slot \in Slots /\ v.key \in Broken(p, lines[n].call, v.slot)
      /\ w.key \in Broken(p, lines[n].call, v.slot)
  BY <1>1 DEF Violations, Checks, Slots, AlertsAssumption
<1>3. v.key = w.key
  BY <1>1, <1>2, BrokenOnce
<1> QED BY <1>3 DEF Violations

\* The violation at hand, and where it may be.
LEMMA FoundIs ==
    ASSUME RuleTypes, AtHand, rulePc # "idle"
    PROVE  /\ Found \in Violations(taken, policy) /\ Found.slot = slot
           /\ Found.line = taken /\ Found.key \in Key /\ Found \in Violation
           /\ \A v \in Violations(taken, policy) : v.slot = slot => v = Found
           /\ taken \in 1..Len(lines) /\ taken > first
           /\ Cur \in Line /\ Cur.session \in Sessions
<1>1. taken \in 1..Len(lines) /\ taken > first /\ taken \in 1..MaxItems
  BY AlertsAssumption DEF RuleTypes
<1>2. Cur \in Line
  BY <1>1, ElementOfSeq DEF RuleTypes, Cur
<1>3. Found \in Violations(taken, policy) /\ Found.slot = slot
  BY DEF AtHand, Found
<1>4. \A v \in Violations(taken, policy) : v.slot = slot => v = Found
  BY <1>1, <1>3, SlotOnce, AlertsAssumption
<1>5. Found.line = taken /\ Found.key \in Key /\ Found \in Violation
  <2>1. slot \in Slots
    BY DEF RuleTypes
  <2> QED BY <1>1, <1>3, <2>1 DEF Violations, Violation
<1> QED BY <1>1, <1>2, <1>3, <1>4, <1>5 DEF Line

-----------------------------------------------------------------------------
(* Alerts: toasts, step by step.                                           *)

\* An alert whose row is there, with the toast or without.
LEMMA ToastRaised ==
    ASSUME AlertsAssumption, ToastTypes, ToastInv, NEW k \in ToastKeys, OsNotify(k),
           k \in surfaced \/ k[2] = "exfiltration", now' = now,
           surfaced' = surfaced
    PROVE  /\ last' \in [ToastKeys -> 0..now]
           /\ toasts' \in [ToastKeys -> SUBSET (0..now)]
           /\ suppressed' \in [ToastKeys -> SUBSET (0..now)]
           /\ \A j \in ToastKeys : (KeptTime(j) /\ Spaced(j) /\ HasRow(j))'
<1>1. /\ now \in Nat /\ Debounce \in Nat /\ Debounce # 0
      /\ last[k] \in 0..now /\ toasts[k] \subseteq 0..now
      /\ KeptTime(k) /\ Spaced(k)
  BY DEF ToastTypes, ToastInv, AlertsAssumption
<1>2. CASE now - last[k] < Debounce
  <2>1. /\ suppressed' = [suppressed EXCEPT ![k] = @ \cup {now}]
        /\ last' = last /\ toasts' = toasts
    BY <1>2 DEF OsNotify
  <2>2. now < Debounce \/ \E u \in toasts[k] : u <= now /\ now - u < Debounce
    <3>1. CASE toasts[k] = {}
      BY <1>1, <1>2, <3>1 DEF KeptTime
    <3>2. CASE toasts[k] # {}
      BY <1>1, <1>2, <3>2 DEF KeptTime
    <3> QED BY <3>1, <3>2
  <2>3. suppressed' \in [ToastKeys -> SUBSET (0..now)]
    BY <1>1, <2>1 DEF ToastTypes
  <2>4. \A j \in ToastKeys : suppressed'[j] = IF j = k THEN suppressed[k] \cup {now}
                                              ELSE suppressed[j]
    BY <2>1 DEF ToastTypes
  <2> QED
    BY <2>1, <2>2, <2>3, <2>4
       DEF ToastTypes, ToastInv, KeptTime, Spaced, HasRow
<1>3. CASE ~(now - last[k] < Debounce)
  <2>1. /\ last' = [last EXCEPT ![k] = now] /\ suppressed' = suppressed
        /\ toasts' = [toasts EXCEPT ![k] = @ \cup {now}]
    BY <1>3 DEF OsNotify
  <2>2. /\ last' \in [ToastKeys -> 0..now]
        /\ toasts' \in [ToastKeys -> SUBSET (0..now)]
        /\ suppressed' \in [ToastKeys -> SUBSET (0..now)]
    BY <1>1, <2>1 DEF ToastTypes
  <2>3. /\ last'[k] = now /\ toasts'[k] = toasts[k] \cup {now}
        /\ \A j \in ToastKeys \ {k} : last'[j] = last[j] /\ toasts'[j] = toasts[j]
    BY <2>1 DEF ToastTypes
  <2>4. \A t \in toasts[k] : t \in Nat /\ now - t >= Debounce
    BY <1>1, <1>3 DEF KeptTime
  <2>5. KeptTime(k)'
    BY <1>1, <2>3 DEF KeptTime
  <2>6. Spaced(k)'
    BY <1>1, <2>1, <2>3, <2>4 DEF Spaced
  <2>7. \A j \in ToastKeys \ {k} : (KeptTime(j) /\ Spaced(j) /\ HasRow(j))'
    BY <2>1, <2>3 DEF ToastInv, KeptTime, Spaced, HasRow
  <2> QED BY <2>2, <2>5, <2>6, <2>7 DEF HasRow
<1> QED BY <1>2, <1>3

\* Time or the set of rows goes on, or no part of it moves.
LEMMA ToastStays ==
    ASSUME ToastTypes, ToastInv, UNCHANGED toastVars, surfaced \subseteq surfaced',
           now' \in {now, now + 1}
    PROVE  /\ last' \in [ToastKeys -> 0..now']
           /\ toasts' \in [ToastKeys -> SUBSET (0..now')]
           /\ suppressed' \in [ToastKeys -> SUBSET (0..now')]
           /\ \A j \in ToastKeys : (KeptTime(j) /\ Spaced(j) /\ HasRow(j))'
<1>1. 0..now \subseteq 0..now'
  BY DEF ToastTypes
<1>2. last' = last /\ toasts' = toasts /\ suppressed' = suppressed
  BY DEF toastVars
<1>3. \A j \in ToastKeys : (KeptTime(j) /\ Spaced(j) /\ HasRow(j))'
  BY <1>2 DEF ToastInv, KeptTime, Spaced, HasRow
<1> QED BY <1>1, <1>2, <1>3 DEF ToastTypes

\* What a step does to the clock, the rows and the bounds.
WorldStep ==
    /\ now' = now \/ (now < MaxTime /\ now' = now + 1)
    /\ edits' = edits \/ (edits < MaxEdits /\ edits' = edits + 1)
    /\ faults' = faults \/ (faults < MaxFaults /\ faults' = faults + 1)
    /\ surfaced \subseteq surfaced' /\ surfaced' \subseteq ToastKeys
    /\ rulePc' = "notify" => <<Cur'.session, "constraint">> \in surfaced'
    /\ auditPc' = "notify" => <<who', "claim">> \in surfaced'

LEMMA ToastQuiet ==
    ASSUME AlertsAssumption, ToastTypes, ToastInv, WorldStep, UNCHANGED toastVars
    PROVE  ToastTypes' /\ ToastInv'
<1>1. now' \in {now, now + 1} /\ surfaced \subseteq surfaced'
  BY DEF WorldStep
<1>2. now' \in 0..MaxTime /\ edits' \in 0..MaxEdits /\ faults' \in 0..MaxFaults
  BY DEF WorldStep, ToastTypes, AlertsAssumption
<1> QED BY <1>1, <1>2, ToastStays DEF WorldStep, ToastTypes, ToastInv

LEMMA ToastLoud ==
    ASSUME AlertsAssumption, ToastTypes, ToastInv, WorldStep,
           NEW k \in ToastKeys, OsNotify(k), k \in surfaced \/ k[2] = "exfiltration",
           now' = now, surfaced' = surfaced
    PROVE  ToastTypes' /\ ToastInv'
<1>1. now' \in 0..MaxTime /\ edits' \in 0..MaxEdits /\ faults' \in 0..MaxFaults
  BY DEF WorldStep, ToastTypes, AlertsAssumption
<1> QED BY <1>1, ToastRaised DEF WorldStep, ToastTypes, ToastInv

LEMMA ToastStep ==
    ASSUME AlertsAssumption, RuleTypes, AtHand, AuditTypes, ToastTypes, ToastInv,
           [AlertsNext]_alertsVars
    PROVE  ToastTypes' /\ ToastInv'
<1> USE DEF toastVars, boundVars, workVars, auditVars
<1>1. ASSUME NEW s \in Sessions, Leak(s) PROVE ToastTypes' /\ ToastInv'
  <2>1. <<s, "exfiltration">> \in ToastKeys /\ OsNotify(<<s, "exfiltration">>)
    BY <1>1 DEF Leak, ToastKeys
  <2>2. now' = now /\ surfaced' = surfaced
    BY <1>1 DEF Leak
  <2>3. WorldStep
    BY <1>1 DEF Leak, WorldStep, ToastTypes, ToastInv, Cur
  <2>4. <<s, "exfiltration">>[2] = "exfiltration"
    OBVIOUS
  <2> QED BY <2>1, <2>2, <2>3, <2>4, ToastLoud
<1>2. CASE Notify
  <2>1. rulePc = "notify" /\ OsNotify(<<Cur.session, "constraint">>)
    BY <1>2 DEF Notify
  <2>2. <<Cur.session, "constraint">> \in ToastKeys
        /\ <<Cur.session, "constraint">> \in surfaced
    BY <2>1 DEF ToastInv, ToastTypes
  <2>3. WorldStep /\ now' = now /\ surfaced' = surfaced
    BY <1>2 DEF Notify, Proceed, WorldStep, ToastTypes, ToastInv
  <2> QED BY <2>1, <2>2, <2>3, ToastLoud
<1>3. CASE NotifyClaim
  <2>1. auditPc = "notify" /\ OsNotify(<<who, "claim">>)
    BY <1>3 DEF NotifyClaim
  <2>2. <<who, "claim">> \in ToastKeys /\ <<who, "claim">> \in surfaced
    BY <2>1 DEF ToastInv, ToastTypes
  <2>3. WorldStep /\ now' = now /\ surfaced' = surfaced
    BY <1>3 DEF NotifyClaim, NextClaim, WorldStep, ToastTypes, ToastInv, Cur
  <2> QED BY <2>1, <2>2, <2>3, ToastLoud
<1>4. ASSUME NEW s \in Sessions, NEW c \in Calls, NEW bl \in BOOLEAN, Hand(s, c, bl)
      PROVE  ToastTypes' /\ ToastInv'
  <2>1. rulePc = "notify" => Cur' = Cur
    <3> SUFFICES ASSUME rulePc = "notify" PROVE Cur' = Cur
      OBVIOUS
    <3>1. taken \in 1..Len(lines) /\ lines \in Seq(Line)
      BY FoundIs DEF RuleTypes
    <3>2. lines' = Append(lines, [session |-> s, call |-> c, backlog |-> bl])
          /\ taken' = taken
      BY <1>4 DEF Hand
    <3> QED BY <3>1, <3>2, AppendProperties DEF Cur
  <2>2. WorldStep /\ UNCHANGED toastVars
    BY <1>4, <2>1 DEF Hand, WorldStep, ToastTypes, ToastInv
  <2> QED BY <2>2, ToastQuiet
<1>5. CASE SurfaceViolation
  <2>1. <<Cur.session, "constraint">> \in ToastKeys
    <3>1. Cur.session \in Sessions
      BY <1>5, FoundIs DEF SurfaceViolation
    <3> QED BY <3>1 DEF ToastKeys
  <2>2. WorldStep /\ UNCHANGED toastVars
    BY <1>5, <2>1
       DEF SurfaceViolation, SurfacingRow, WorldStep, ToastTypes, ToastInv, Cur
  <2> QED BY <2>2, ToastQuiet
<1>6. CASE SurfaceClaim
  <2>1. <<who, "claim">> \in ToastKeys
    BY DEF AuditTypes, ToastKeys
  <2>2. WorldStep /\ UNCHANGED toastVars
    BY <1>6, <2>1
       DEF SurfaceClaim, SurfacingRow, WorldStep, ToastTypes, ToastInv, Cur
  <2> QED BY <2>2, ToastQuiet
<1>7. CASE TakeLine \/ SurfaceFails
  <2>1. WorldStep /\ UNCHANGED toastVars
    BY <1>7
       DEF TakeLine, SurfaceFails, Proceed, Fault, WorldStep, ToastTypes, ToastInv
  <2> QED BY <2>1, ToastQuiet
<1>8. CASE Record \/ RecordFails \/ Publish \/ PublishFails
  <2>1. WorldStep /\ UNCHANGED toastVars
    BY <1>8
       DEF Record, RecordFails, Publish, PublishFails, Fault, WorldStep, ToastTypes,
           ToastInv
  <2> QED BY <2>1, ToastQuiet
<1>9. CASE TakeText \/ ScanFile \/ JudgeClaim
  <2>1. WorldStep /\ UNCHANGED toastVars
    BY <1>9
       DEF TakeText, ScanFile, JudgeClaim, NextClaim, WorldStep, ToastTypes, ToastInv, Cur
  <2> QED BY <2>1, ToastQuiet
<1>10. CASE RecordClaim \/ RecordClaimFails \/ SurfaceClaimFails
  <2>1. WorldStep /\ UNCHANGED toastVars
    BY <1>10
       DEF RecordClaim, RecordClaimFails, SurfaceClaimFails, NextClaim, Fault, WorldStep,
           ToastTypes, ToastInv, Cur
  <2> QED BY <2>1, ToastQuiet
<1>11. ASSUME (\E s \in Sessions, t \in Texts : Say(s, t)) \/ Tick
              \/ (\E r \in Overlays \cup {Unreadable} : EditRules(r))
              \/ (\E f \in Files, S \in SUBSET Names : EditFile(f, S))
       PROVE  ToastTypes' /\ ToastInv'
  <2>1. WorldStep /\ UNCHANGED toastVars
    BY <1>11 DEF Say, Tick, EditRules, EditFile, Edit, WorldStep, ToastTypes, ToastInv, Cur
  <2> QED BY <2>1, ToastQuiet
<1>12. CASE Restart
  <2>1. /\ last' = [k \in ToastKeys |-> 0] /\ toasts' = [k \in ToastKeys |-> {}]
        /\ suppressed' = [k \in ToastKeys |-> {}]
        /\ now' = now /\ edits' = edits /\ surfaced' = surfaced
        /\ faults < MaxFaults /\ faults' = faults + 1
        /\ rulePc' = "idle" /\ auditPc' = "idle"
    BY <1>12 DEF Restart, Fault, NextClaim
  <2>2. now \in Nat /\ 0 \in 0..now
    BY DEF ToastTypes
  <2>3. ToastTypes'
    BY <2>1, <2>2 DEF ToastTypes, AlertsAssumption
  <2> QED BY <2>1, <2>3 DEF ToastInv, KeptTime, Spaced, HasRow
<1>13. CASE UNCHANGED alertsVars
  <2>1. WorldStep /\ UNCHANGED toastVars
    BY <1>13 DEF alertsVars, WorldStep, ToastTypes, ToastInv, Cur
  <2> QED BY <2>1, ToastQuiet
<1> QED
  BY <1>1, <1>2, <1>3, <1>4, <1>5, <1>6, <1>7, <1>8, <1>9, <1>10, <1>11, <1>12, <1>13
     DEF AlertsNext

-----------------------------------------------------------------------------
(* Alerts: a scan, step by step.                                           *)

AuditInv == AuditTypes /\ ScanInv

\* What concerns the claims and the scan only.
ClaimTypes ==
    /\ auditPc \in {"idle", "scan", "record", "surface", "notify"}
    /\ claims \in Seq(Claim) /\ (auditPc # "idle" => claims # <<>>)
    /\ pos \in 0..Limit /\ found \subseteq Names
    /\ status \in {"verified", "contradicted", "unverifiable", "skip"}
    /\ auditPc \in {"surface", "notify"} => status = "contradicted"
    /\ steady \subseteq Files \X Names /\ ever \subseteq Files \X Names

LEMMA LimitIs ==
    ASSUME AlertsAssumption
    PROVE  Limit \in Nat /\ Limit <= NFiles /\ Limit <= Budget
           /\ \A f \in Files : f <= Budget => f <= Limit
  BY DEF Limit, AlertsAssumption, Files

LEMMA HoldingsTypes == ASSUME AuditTypes PROVE Holdings \subseteq Files \X Names
  BY DEF Holdings

\* The worker turns to the next claim.
LEMMA NextClaimOK ==
    ASSUME AlertsAssumption, AuditTypes, NEW rest \in Seq(Claim), NextClaim(rest),
           repo' = repo
    PROVE  ClaimTypes' /\ ScanInv'
<1>1. Holdings' = Holdings /\ Holdings \subseteq Files \X Names
  BY HoldingsTypes DEF Holdings
<1>2. ClaimTypes'
  BY <1>1, LimitIs DEF NextClaim, ClaimTypes, Limit
<1>3. ScanInv'
  BY <1>1 DEF NextClaim, ScanInv
<1> QED BY <1>2, <1>3

\* The current claim, and those after it.
LEMMA HeadClaim ==
    ASSUME AuditTypes, auditPc # "idle"
    PROVE  Head(claims) \in Claim /\ Tail(claims) \in Seq(Claim)
  BY HeadTailProperties DEF AuditTypes

LEMMA AuditScan ==
    ASSUME AlertsAssumption, AuditInv, ScanFile
    PROVE  AuditInv'
<1> USE DEF AuditInv
<1>1. /\ auditPc = "scan" /\ pos \in Nat /\ pos + 1 \in 1..Limit
      /\ pos + 1 \in Files /\ pos' = pos + 1
      /\ found' = found \cup (Head(claims).names \cap repo[pos + 1])
      /\ UNCHANGED <<texts, auditPc, who, claims, status, verdicts, repo, steady, ever>>
  BY LimitIs DEF ScanFile, Scanned, AuditTypes, repoVars, Files
<1>2. Head(claims) \in Claim
  BY <1>1, HeadClaim
<1>3. AuditTypes'
  BY <1>1, <1>2 DEF AuditTypes, Claim, Limit
<1>4. \A n \in Head(claims).names :
        n \in repo[pos + 1] => <<pos + 1, n>> \in Holdings
  BY <1>1, <1>2 DEF Holdings, Claim
<1>5. \A n : n \notin repo[pos + 1] => <<pos + 1, n>> \notin Holdings
  BY DEF Holdings
<1>6. \A n \in found' : n \in Head(claims).names
                        /\ \E f \in 1..pos' : <<f, n>> \in ever
  BY <1>1, <1>4 DEF ScanInv
<1>7. \A f \in 1..pos', n \in Head(claims).names :
         n \notin found' => <<f, n>> \notin steady
  BY <1>1, <1>5 DEF ScanInv
<1>8. ScanInv'
  BY <1>1, <1>6, <1>7 DEF ScanInv, Holdings
<1> QED BY <1>3, <1>8

LEMMA AuditEdit ==
    ASSUME AlertsAssumption, AuditInv, NEW f \in Files, NEW S \in SUBSET Names,
           EditFile(f, S)
    PROVE  AuditInv'
<1> USE DEF AuditInv
<1>1. /\ repo' = [repo EXCEPT ![f] = S]
      /\ steady' = {h \in steady : h[1] = f => h[2] \in S}
      /\ ever' = IF claims = <<>> THEN {} ELSE ever \cup {f} \X S
      /\ UNCHANGED <<texts, auditPc, who, claims, pos, found, status, verdicts>>
  BY DEF EditFile, auditVars
<1>2. AuditTypes'
  BY <1>1 DEF AuditTypes, Limit
<1>3. repo' \in [Files -> SUBSET Names]
      /\ \A g \in Files : repo'[g] = IF g = f THEN S ELSE repo[g]
  BY <1>1 DEF AuditTypes
<1>4. steady' \subseteq Holdings'
  BY <1>1, <1>3 DEF ScanInv, Holdings, AuditTypes
<1>5. auditPc # "idle" => Holdings' \subseteq ever' /\ ever \subseteq ever'
  BY <1>1, <1>3 DEF ScanInv, Holdings, AuditTypes
<1>6. steady' \subseteq steady
  BY <1>1
<1>7. ScanInv'
  BY <1>1, <1>4, <1>5, <1>6 DEF ScanInv, Verdict, Scanned, Limit
<1> QED BY <1>2, <1>7

LEMMA AuditJudge ==
    ASSUME AlertsAssumption, AuditInv, JudgeClaim
    PROVE  AuditInv'
<1> USE DEF AuditInv
<1>1. auditPc = "scan" /\ UNCHANGED <<texts, who, verdicts, repo>>
  BY DEF JudgeClaim, repoVars, NextClaim
<1>2. Head(claims) \in Claim /\ Tail(claims) \in Seq(Claim)
  BY <1>1, HeadClaim
<1>3. CASE NextClaim(Tail(claims))
  BY <1>1, <1>2, <1>3, NextClaimOK DEF AuditTypes, ClaimTypes
<1>4. CASE /\ Verdict(Head(claims)) \in {"verified", "contradicted"}
           /\ status' = Verdict(Head(claims)) /\ auditPc' = "record"
           /\ UNCHANGED <<claims, pos, found, repoVars>>
  <2>1. Head(claims).names # {}
    BY <1>4 DEF Verdict
  <2>2. Scanned
    BY <2>1 DEF JudgeClaim
  <2>3. AuditTypes'
    BY <1>1, <1>4 DEF AuditTypes, repoVars, Limit
  <2>4. ScanInv'
    BY <1>1, <1>4, <2>2 DEF ScanInv, Holdings, Verdict, Scanned, repoVars, Limit
  <2> QED BY <2>3, <2>4
<1> QED BY <1>3, <1>4 DEF JudgeClaim

LEMMA AuditRecord ==
    ASSUME AlertsAssumption, AuditInv, RecordClaim \/ SurfaceClaim
    PROVE  AuditInv'
<1> USE DEF AuditInv
<1>1. auditPc \in {"record", "surface"} /\ UNCHANGED <<texts, who, repo>>
  BY DEF RecordClaim, SurfaceClaim, repoVars, NextClaim
<1>2. Head(claims) \in Claim /\ Tail(claims) \in Seq(Claim)
  BY <1>1, HeadClaim
<1>3. verdicts' \subseteq Claim \X {"verified", "contradicted"}
  BY <1>1, <1>2 DEF RecordClaim, SurfaceClaim, AuditTypes, ScanInv
<1>4. CASE NextClaim(Tail(claims))
  BY <1>1, <1>2, <1>3, <1>4, NextClaimOK DEF AuditTypes, ClaimTypes
<1>5. CASE /\ auditPc' \in {"surface", "notify"} /\ status = "contradicted"
           /\ UNCHANGED <<claims, pos, found, status, repoVars>>
  <2>1. AuditTypes'
    BY <1>1, <1>3, <1>5 DEF AuditTypes, repoVars, Limit
  <2>2. ScanInv'
    BY <1>1, <1>5 DEF ScanInv, Holdings, Verdict, Scanned, repoVars, Limit
  <2> QED BY <2>1, <2>2
<1>6. CASE SurfaceClaim
  <2>1. auditPc = "surface" /\ auditPc' = "notify"
        /\ UNCHANGED <<claims, pos, found, status, repoVars>>
    BY <1>6 DEF SurfaceClaim
  <2> QED BY <1>5, <2>1 DEF AuditTypes
<1> QED BY <1>4, <1>5, <1>6 DEF RecordClaim

LEMMA AuditStep ==
    ASSUME AlertsAssumption, AuditInv, [AlertsNext]_alertsVars
    PROVE  AuditInv'
<1> USE DEF AuditInv
<1>1. CASE UNCHANGED <<auditVars, repoVars>>
  BY <1>1
     DEF auditVars, repoVars, AuditTypes, ScanInv, Holdings, Verdict, Scanned, Limit
<1>2. ASSUME NEW s \in Sessions, NEW x \in Texts, Say(s, x) PROVE AuditInv'
  <2>1. /\ texts' = Append(texts, <<s, x>>)
        /\ UNCHANGED <<auditPc, who, claims, pos, found, status, verdicts, repoVars>>
    BY <1>2 DEF Say
  <2>2. texts' \in Seq(Sessions \X Texts)
    BY <2>1, AppendProperties DEF AuditTypes
  <2> QED
    BY <2>1, <2>2
       DEF repoVars, AuditTypes, ScanInv, Holdings, Verdict, Scanned, Limit
<1>3. CASE TakeText
  <2>1. Head(texts) \in Sessions \X Texts /\ Tail(texts) \in Seq(Sessions \X Texts)
    BY <1>3, HeadTailProperties DEF TakeText, AuditTypes
  <2>2. Head(texts)[2] \in Seq(Claim)
    BY <2>1 DEF AlertsAssumption
  <2>3. ClaimTypes' /\ ScanInv'
    BY <1>3, <2>2, NextClaimOK DEF TakeText
  <2> QED BY <1>3, <2>1, <2>3 DEF TakeText, AuditTypes, ClaimTypes
<1>4. CASE RecordClaimFails \/ Restart
  <2>1. <<>> \in Seq(Claim) /\ NextClaim(<<>>) /\ repo' = repo
    BY <1>4 DEF RecordClaimFails, Restart
  <2>2. ClaimTypes' /\ ScanInv'
    BY <2>1, NextClaimOK
  <2>3. UNCHANGED <<who, verdicts>> /\ texts' \in {texts, <<>>}
    BY <1>4 DEF RecordClaimFails, Restart
  <2>4. texts' \in Seq(Sessions \X Texts)
    BY <2>3, EmptySeq DEF AuditTypes
  <2> QED BY <2>1, <2>2, <2>3, <2>4 DEF AuditTypes, ClaimTypes
<1>5. CASE NotifyClaim \/ SurfaceClaimFails
  <2>1. auditPc # "idle" /\ NextClaim(Tail(claims)) /\ repo' = repo
    BY <1>5 DEF NotifyClaim, SurfaceClaimFails
  <2>2. ClaimTypes' /\ ScanInv'
    BY <2>1, HeadClaim, NextClaimOK
  <2> QED BY <1>5, <2>2 DEF NotifyClaim, SurfaceClaimFails, AuditTypes, ClaimTypes
<1>6. CASE \/ \E s \in Sessions : Leak(s)
           \/ \E s \in Sessions, c \in Calls, bl \in BOOLEAN : Hand(s, c, bl)
           \/ TakeLine \/ Record \/ RecordFails \/ Publish \/ PublishFails
  BY <1>1, <1>6 DEF Leak, Hand, TakeLine, Record, RecordFails, Publish, PublishFails
<1>7. CASE \/ SurfaceViolation \/ Notify \/ SurfaceFails
           \/ (\E r \in Overlays \cup {Unreadable} : EditRules(r))
           \/ Tick \/ UNCHANGED alertsVars
  BY <1>1, <1>7 DEF SurfaceViolation, Notify, SurfaceFails, EditRules, Tick, alertsVars
<1> QED
  BY <1>2, <1>3, <1>4, <1>5, <1>6, <1>7, AuditScan, AuditEdit, AuditJudge, AuditRecord
     DEF AlertsNext

LEMMA AuditGrounds == ASSUME AlertsAssumption, AuditInv PROVE VerdictGrounded
<1> SUFFICES ASSUME auditPc \in {"record", "surface", "notify"} PROVE VerdictGrounded
  BY DEF VerdictGrounded
<1> DEFINE c == Head(claims)
           within(H) == {h \in H : h[1] <= Budget /\ h[2] \in c.names}
<1>1. /\ status = Verdict(c) /\ status \in {"verified", "contradicted"}
      /\ pos \in Nat /\ Limit <= pos
      /\ \A n \in found : n \in c.names /\ \E f \in 1..pos : <<f, n>> \in ever
      /\ \A f \in 1..pos, n \in c.names : n \notin found => <<f, n>> \notin steady
  <2>1. AuditTypes /\ ScanInv /\ auditPc # "idle" /\ pos \in 0..Limit /\ Limit \in Nat
    BY LimitIs DEF AuditInv, AuditTypes
  <2>2. /\ status = Verdict(c) /\ status \in {"verified", "contradicted"}
        /\ Scanned
    BY <2>1 DEF ScanInv
  <2>3. /\ \A n \in found : n \in c.names /\ \E f \in 1..pos : <<f, n>> \in ever
        /\ \A f \in 1..pos, n \in c.names : n \notin found => <<f, n>> \notin steady
    BY <2>1 DEF ScanInv
  <2>4. pos \in Nat /\ Limit <= pos
    BY <2>1, <2>2 DEF Scanned
  <2> QED BY <2>2, <2>3, <2>4
<1>2. c \in Claim
  BY HeadClaim DEF AuditInv
<1>3. CASE found # {}
  <2>1. status = IF c.removal THEN "contradicted" ELSE "verified"
    BY <1>1, <1>2, <1>3 DEF Verdict, Claim
  <2>2. PICK n \in found, f \in 1..pos : n \in c.names /\ <<f, n>> \in ever
    BY <1>1, <1>3
  <2>3. f <= Budget
    BY LimitIs, <1>1, AlertsAssumption DEF AlertsAssumption, AuditInv, AuditTypes
  <2>4. within(ever) # {}
    BY <2>2, <2>3
  <2> QED BY <2>1, <2>4 DEF VerdictGrounded
<1>4. CASE found = {}
  <2>1. status = IF c.addition THEN "contradicted" ELSE "verified"
    BY <1>1, <1>2, <1>4 DEF Verdict, Claim
  <2>2. ASSUME NEW h \in steady, h[1] <= Budget, h[2] \in c.names PROVE FALSE
    <3>1. h[1] \in Files /\ h = <<h[1], h[2]>>
      BY DEF AuditInv, AuditTypes
    <3>2. h[1] \in 1..pos
      BY <1>1, <2>2, <3>1, LimitIs DEF Files, AlertsAssumption
    <3> QED BY <1>1, <1>4, <2>2, <3>1, <3>2
  <2>3. within(steady) = {}
    BY <2>2
  <2> QED BY <2>1, <2>3 DEF VerdictGrounded
<1> QED BY <1>3, <1>4

-----------------------------------------------------------------------------
(* Alerts: a line, step by step.                                           *)

LEMMA PolicyOK == ASSUME AlertsAssumption, RuleTypes PROVE InForce \in Policies
<1>1. CASE rules = Unreadable
  BY <1>1 DEF InForce, AlertsAssumption
<1>2. CASE rules \in Overlays
  <2>1. Base \in [Lists -> Seq(Patterns)] /\ rules \in [Lists -> Seq(Patterns)]
    BY <1>2 DEF AlertsAssumption, Policies
  <2>2. \A l \in Lists : Base[l] \o rules[l] \in Seq(Patterns)
    BY <2>1, ConcatProperties
  <2>3. Merge(Base, rules) \in Policies
    BY <2>2 DEF Merge, Policies
  <2> QED BY <1>2, <2>1, <2>3 DEF InForce, AlertsAssumption
<1> QED BY <1>1, <1>2 DEF RuleTypes

LEMMA ViolationTypes ==
    ASSUME AlertsAssumption, RuleTypes, NEW n \in 1..Len(lines), NEW p
    PROVE  /\ Violations(n, p) \subseteq Violation
           /\ \A v \in Violations(n, p) : v.line = n /\ v.slot \in Slots /\ v.key \in Key
           /\ lines[n] \in Line /\ lines[n].session \in Sessions
<1>1. n \in 1..MaxItems
  BY DEF AlertsAssumption, RuleTypes
<1>2. lines[n] \in Line
  BY ElementOfSeq DEF RuleTypes
<1>3. \A k \in Checks(lines[n].call) : k \in Slots
  BY <1>2 DEF Line, Checks, Slots, AlertsAssumption
<1> QED BY <1>1, <1>2, <1>3 DEF Violations, Violation, Line

\* The loop goes on at slot from of line n: what it has passed of that line is
\* accounted for, and everything it has marked as seen is.
LEMMA ProceedOK ==
    ASSUME AlertsAssumption, RuleTypes, NEW n \in 1..Len(lines), n > first,
           NEW p \in Policies, NEW from \in Nat, Proceed(n, p, from),
           UNCHANGED <<rules, lines, rows, aired, unaired, lost, first, items>>,
           taken' = n, owed' \subseteq Violation,
           \A s \in Sessions : \A k \in seen[s] : Kept(s, k),
           \A r \in rows : r.line > first => r.key \in seen[lines[r.line].session],
           \A v \in rows \cup owed' : v.line = n => v \in Violations(n, p),
           \A v \in owed' :
              /\ v.line > first /\ v.line <= n
              /\ Kept(lines[v.line].session, v.key) \/ (v.line = n /\ v.slot >= from),
           \A r \in rows : r.line <= n,
           \A r, q \in rows : r.line > first /\ q.line > first /\ SameRule(r, q) => r = q,
           \A r \in aired : ~lines[r.line].backlog,
           \A r \in rows : r.line > first =>
              r \in aired \cup unaired \/ lines[r.line].backlog
    PROVE  RuleInv'
<1> DEFINE ses == lines[n].session
<1>1. /\ ses \in Sessions
      /\ \A v \in Violations(n, p) : v.line = n /\ v.slot \in Slots /\ v.key \in Key
  BY ViolationTypes
<1>2. /\ \A s, k : Kept(s, k)' <=> Kept(s, k)
      /\ \A r, q : SameRule(r, q)' <=> SameRule(r, q)
      /\ Cur' = lines[n]
  BY DEF Kept, SameRule, Cur
<1>3. n \in Nat /\ n <= Len(lines) /\ first \in Nat /\ Len(lines) \in Nat /\ first \in 0..n
  BY LenProperties DEF RuleTypes
<1>4. \A v \in Violations(n, p) :
         v.slot >= from /\ v.key \in seen[ses] => Kept(lines[v.line].session, v.key)
  BY <1>1
<1>5. CASE Due(n, p, from) = {} /\ rulePc' = "idle" /\ slot' = 1 /\ policy' = Base
           /\ UNCHANGED seen
  <2>1. RuleTypes'
    BY <1>3, <1>5 DEF RuleTypes, AlertsAssumption, Slots
  <2>2. SeenInv' /\ AtHand'
    BY <1>2, <1>5 DEF SeenInv, AtHand
  <2>3. ASSUME NEW v \in owed' PROVE Kept(lines[v.line].session, v.key)
    BY <1>1, <1>4, <1>5 DEF Due
  <2>4. AccountInv'
    BY <1>2, <2>3 DEF AccountInv
  <2>5. AirInv'
    BY DEF AirInv
  <2> QED BY <2>1, <2>2, <2>4, <2>5 DEF RuleInv
<1>6. ASSUME NEW v \in Due(n, p, from),
             \A w \in Due(n, p, from) : v.slot <= w.slot,
             rulePc' = "record", slot' = v.slot, policy' = p,
             seen' = [seen EXCEPT ![ses] = @ \cup {v.key}]
      PROVE  RuleInv'
  <2>1. v \in Violations(n, p) /\ v.slot >= from /\ v.key \notin seen[ses]
        /\ v.line = n /\ v.slot \in Slots /\ v.key \in Key
    BY <1>1, <1>6 DEF Due
  <2>2. Violations(taken, policy)' = Violations(n, p)
    BY <1>6 DEF Violations
  <2>3. Found' = v
    <3>1. \A w \in Violations(n, p) : w.slot = v.slot => w = v
      BY <2>1, SlotOnce
    <3>2. Found' = CHOOSE w \in Violations(n, p) : w.slot = v.slot
      BY <1>6, <2>2 DEF Found
    <3> QED BY <2>1, <3>1, <3>2
  <2>4. RuleTypes'
    BY <1>1, <1>3, <1>6, <2>1 DEF RuleTypes
  <2>5. AtHand'
    BY <1>6, <2>1, <2>2 DEF AtHand
  <2>6. \A s \in Sessions : seen'[s] = IF s = ses THEN seen[s] \cup {v.key} ELSE seen[s]
    BY <1>6 DEF RuleTypes
  <2>7. \A r \in rows : r.line > first => lines[r.line].session \in Sessions
    <3>1. \A r \in rows : r.line \in 1..Len(lines)
      BY <1>3, AlertsAssumption DEF RuleTypes, Violation, AlertsAssumption
    <3>2. \A r \in rows : lines[r.line] \in Line
      BY <3>1, ElementOfSeq DEF RuleTypes
    <3> QED BY <3>2 DEF Line
  <2>8. SeenInv'
    <3>1. \A s \in Sessions : \A k \in seen'[s] :
             Kept(s, k) \/ (s = ses /\ k = v.key)
      <4> SUFFICES ASSUME NEW s \in Sessions, NEW k \in seen'[s]
                   PROVE  Kept(s, k) \/ (s = ses /\ k = v.key)
        OBVIOUS
      <4>1. k \in seen[s] \/ (s = ses /\ k = v.key)
        <5>1. CASE s = ses
          <6>1. seen'[s] = seen[s] \cup {v.key}
            BY <2>6, <5>1
          <6> QED BY <5>1, <6>1
        <5>2. CASE s # ses
          <6>1. seen'[s] = seen[s]
            BY <2>6, <5>2
          <6> QED BY <6>1
        <5> QED BY <5>1, <5>2
      <4>2. k \in seen[s] => Kept(s, k)
        OBVIOUS
      <4> QED BY <4>1, <4>2
    <3>2. \A r \in rows : r.line > first => r.key \in seen'[lines[r.line].session]
      BY <2>6, <2>7
    <3>3. v.key \in seen'[ses]
      BY <1>1, <2>6, ZenonT(40)
    <3>4. \A r \in rows : r.line > first /\ lines[r.line].session = ses
                            => r.key # v.key
      BY <2>1
    <3> QED BY <1>2, <1>6, <2>3, <3>1, <3>2, <3>3, <3>4 DEF SeenInv
  <2>9. ASSUME NEW w \in owed'
        PROVE  Pending(w)' \/ Kept(lines[w.line].session, w.key)
    <3>1. CASE Kept(lines[w.line].session, w.key)
      BY <3>1
    <3>2. CASE w.line = n /\ w.slot >= from
      <4>1. w \in Violations(n, p) /\ w.slot \in Slots
        BY <1>1, <3>2
      <4>2. CASE w.key \in seen[ses]
        BY <1>4, <3>2, <4>1, <4>2
      <4>3. CASE w.key \notin seen[ses]
        <5>1. v.slot <= w.slot
          BY <1>6, <3>2, <4>1, <4>3 DEF Due
        <5> QED BY <1>6, <2>1, <3>2, <4>1, <5>1 DEF Pending, Slots
      <4> QED BY <4>2, <4>3
    <3> QED BY <3>1, <3>2
  <2>10. AccountInv'
    BY <1>2, <2>9 DEF AccountInv
  <2>11. AirInv'
    BY DEF AirInv
  <2> QED BY <2>4, <2>5, <2>8, <2>10, <2>11 DEF RuleInv
<1> QED BY <1>5, <1>6 DEF Proceed

LEMMA TakeLineOK ==
    ASSUME AlertsAssumption, RuleInv, TakeLine
    PROVE  RuleInv'
<1> USE DEF RuleInv
<1> DEFINE n == taken + 1
<1>1. /\ rulePc = "idle" /\ taken < Len(lines) /\ taken' = n
      /\ owed' = owed \cup Violations(n, InForce) /\ Proceed(n, InForce, 1)
      /\ UNCHANGED <<rules, lines, rows, aired, unaired, lost, first, items>>
  BY DEF TakeLine, tableVars, boundVars
<1>2. n \in 1..Len(lines) /\ n > first /\ taken \in Nat /\ taken < n /\ first \in Nat
  BY <1>1, LenProperties DEF RuleTypes
<1>3. /\ Violations(n, InForce) \subseteq Violation
      /\ \A v \in Violations(n, InForce) : v.line = n /\ v.slot \in Slots
  BY <1>2, ViolationTypes
<1>4. \A v \in rows \cup owed : v.line \in Nat /\ v.line <= taken
  BY DEF AccountInv, RuleTypes, Violation
<1>5. \A s \in Sessions : \A k \in seen[s] : Kept(s, k)
  BY <1>1 DEF SeenInv
<1>6. \A v \in owed' :
         /\ v.line > first /\ v.line <= n
         /\ Kept(lines[v.line].session, v.key) \/ (v.line = n /\ v.slot >= 1)
  <2>1. \A v \in owed : v.line > first /\ v.line <= n
                        /\ Kept(lines[v.line].session, v.key)
    BY <1>1, <1>2, <1>4 DEF AccountInv, Pending
  <2> QED BY <1>1, <1>2, <1>3, <2>1 DEF Slots
<1>7. \A v \in rows \cup owed' : v.line = n => v \in Violations(n, InForce)
  BY <1>1, <1>2, <1>4
<1>8. \A r \in rows : r.line <= n
  BY <1>2, <1>4
<1>9. owed' \subseteq Violation
  BY <1>1, <1>3 DEF RuleTypes
<1>10. /\ \A r \in rows : r.line > first => r.key \in seen[lines[r.line].session]
       /\ \A r, q \in rows : r.line > first /\ q.line > first /\ SameRule(r, q) => r = q
       /\ \A r \in aired : ~lines[r.line].backlog
       /\ \A r \in rows : r.line > first =>
             r \in aired \cup unaired \/ lines[r.line].backlog
  BY <1>1 DEF SeenInv, AccountInv, AirInv
<1>11. InForce \in Policies
  BY PolicyOK
<1>12. RuleTypes
  OBVIOUS
<1> HIDE DEF n
<1>13. Proceed(n, InForce, 1) /\ 1 \in Nat
  BY <1>1
<1> QED
  BY <1>1, <1>2, <1>5, <1>6, <1>7, <1>8, <1>9, <1>10, <1>11, <1>12, <1>13, ProceedOK

LEMMA NotifyOK ==
    ASSUME AlertsAssumption, RuleInv, Notify \/ SurfaceFails
    PROVE  RuleInv'
<1> USE DEF RuleInv
<1>1. /\ rulePc \in {"surface", "notify"} /\ taken' = taken /\ owed' = owed
      /\ Proceed(taken, policy, slot + 1)
      /\ UNCHANGED <<rules, lines, rows, aired, unaired, lost, first, items>>
  BY DEF Notify, SurfaceFails, tableVars, boundVars, pastVars
<1>2. taken \in 1..Len(lines) /\ taken > first /\ slot + 1 \in Nat /\ slot \in Nat
  BY <1>1, FoundIs DEF RuleTypes, Slots
<1>3. \A v \in owed : v.slot \in Nat
  BY DEF RuleTypes, Violation, Slots
<1>4. \A v \in owed' :
         /\ v.line > first /\ v.line <= taken
         /\ Kept(lines[v.line].session, v.key) \/ (v.line = taken /\ v.slot >= slot + 1)
  BY <1>1, <1>2, <1>3 DEF AccountInv, Pending
<1>5. /\ \A s \in Sessions : \A k \in seen[s] : Kept(s, k)
      /\ \A r \in rows : r.line > first => r.key \in seen[lines[r.line].session]
      /\ \A v \in rows \cup owed' : v.line = taken => v \in Violations(taken, policy)
      /\ \A r \in rows : r.line <= taken
      /\ \A r, q \in rows : r.line > first /\ q.line > first /\ SameRule(r, q) => r = q
      /\ \A r \in aired : ~lines[r.line].backlog
      /\ \A r \in rows : r.line > first =>
            r \in aired \cup unaired \/ lines[r.line].backlog
  BY <1>1 DEF SeenInv, AccountInv, AirInv, AtHand
<1>6. owed' \subseteq Violation /\ policy \in Policies /\ RuleTypes
  BY <1>1 DEF RuleTypes
<1> QED BY <1>1, <1>2, <1>4, <1>5, <1>6, ProceedOK

\* The lines taken, the line at hand and the violation at hand stay.
LEMMA SameLine ==
    ASSUME RuleTypes, AtHand, UNCHANGED <<taken, policy, slot>>,
           \A n \in 1..taken : lines'[n] = lines[n]
    PROVE  /\ taken \in 1..Len(lines) =>
                Cur' = Cur /\ Violations(taken, policy)' = Violations(taken, policy)
           /\ rulePc # "idle" => Found' = Found
<1>1. CASE taken \in 1..Len(lines)
  <2>1. lines'[taken] = lines[taken]
    BY <1>1
  <2>2. Cur' = Cur /\ Violations(taken, policy)' = Violations(taken, policy)
    BY <2>1 DEF Cur, Violations
  <2>3. Found' = Found
    BY <2>2 DEF Found
  <2> QED BY <2>2, <2>3
<1>2. rulePc # "idle" => taken \in 1..Len(lines)
  BY FoundIs
<1> QED BY <1>1, <1>2

LEMMA RuleStays ==
    ASSUME AlertsAssumption, RuleInv, RuleTypes',
           UNCHANGED <<taken, seen, policy, slot, tableVars, pastVars>>,
           rulePc' = rulePc \/ (rulePc = "surface" /\ rulePc' = "notify"),
           \A n \in 1..taken : lines'[n] = lines[n]
    PROVE  RuleInv'
<1> USE DEF RuleInv
<1>1. /\ taken \in 1..Len(lines) =>
           Cur' = Cur /\ Violations(taken, policy)' = Violations(taken, policy)
      /\ rulePc # "idle" => Found' = Found /\ taken \in 1..Len(lines)
  BY SameLine, FoundIs
<1>2. \A v \in rows \cup owed : lines'[v.line] = lines[v.line]
  BY DEF AccountInv, RuleTypes, Violation
<1>3. /\ rows' = rows /\ aired' = aired /\ first' = first /\ owed' = owed
      /\ lost' = lost /\ unaired' = unaired
  BY DEF tableVars, pastVars
<1>4. AtHand'
  BY <1>1, <1>3 DEF AtHand
<1>5. \A s, k : Kept(s, k)' <=> Kept(s, k)
  BY <1>2, <1>3 DEF Kept
<1>6. SeenInv'
  BY <1>1, <1>2, <1>3, <1>5 DEF SeenInv
<1>7. AccountInv'
  BY <1>2, <1>3, <1>5 DEF AccountInv, Pending, SameRule
<1>8. AirInv'
  BY <1>2, <1>3, <1>7 DEF AirInv, RuleTypes
<1> QED BY <1>4, <1>6, <1>7, <1>8

LEMMA HandOK ==
    ASSUME AlertsAssumption, RuleInv, NEW s \in Sessions, NEW c \in Calls,
           NEW bl \in BOOLEAN, Hand(s, c, bl)
    PROVE  RuleInv'
<1> DEFINE e == [session |-> s, call |-> c, backlog |-> bl]
<1>1. /\ items < MaxItems /\ items' = items + 1 /\ lines' = Append(lines, e)
      /\ UNCHANGED <<rules, taken, seen, rulePc, policy, slot, tableVars, pastVars>>
  BY DEF Hand, Item
<1>2. e \in Line /\ lines \in Seq(Line)
  BY DEF Line, RuleInv, RuleTypes
<1> HIDE DEF e
<1>3. /\ lines' \in Seq(Line) /\ Len(lines') = Len(lines) + 1 /\ Len(lines) \in Nat
      /\ \A n \in 1..Len(lines) : lines'[n] = lines[n]
  BY <1>1, <1>2, AppendProperties
<1>4. RuleTypes'
  BY <1>1, <1>3 DEF RuleInv, RuleTypes, tableVars, pastVars, AlertsAssumption
<1>5. \A n \in 1..taken : lines'[n] = lines[n]
  BY <1>3 DEF RuleInv, RuleTypes
<1> QED BY <1>1, <1>4, <1>5, RuleStays

LEMMA RecordOK ==
    ASSUME AlertsAssumption, RuleInv, Record
    PROVE  RuleInv'
<1> USE DEF RuleInv
<1>1. /\ rulePc = "record" /\ rulePc' = "publish" /\ rows' = rows \cup {Found}
      /\ UNCHANGED <<rules, lines, taken, seen, policy, slot, aired, items, first,
                     owed, lost, unaired>>
  BY DEF Record, boundVars, pastVars
<1>2. /\ Found \in Violations(taken, policy) /\ Found.slot = slot
      /\ Found.line = taken /\ Found.key \in Key /\ Found \in Violation
      /\ \A v \in Violations(taken, policy) : v.slot = slot => v = Found
      /\ taken \in 1..Len(lines) /\ taken > first /\ Cur \in Line
      /\ Cur.session \in Sessions
  BY <1>1, FoundIs
<1>3. Cur' = Cur /\ Violations(taken, policy)' = Violations(taken, policy)
      /\ Found' = Found
  BY <1>1, <1>2, SameLine
<1>4. RuleTypes'
  BY <1>1, <1>2 DEF RuleTypes
<1>5. AtHand'
  BY <1>1, <1>2, <1>3 DEF AtHand
<1>6. /\ \A s, k : Kept(s, k) => Kept(s, k)'
      /\ Kept(Cur.session, Found.key)'
  <2>1. \A s, k : Kept(s, k) => Kept(s, k)'
    BY <1>1 DEF Kept
  <2>2. Found \in rows' /\ Found.line > first' /\ lines'[Found.line] = Cur
    BY <1>1, <1>2 DEF Cur
  <2> QED BY <1>3, <2>1, <2>2 DEF Kept
<1>7. SeenInv'
  BY <1>1, <1>2, <1>3, <1>6 DEF SeenInv, Cur
<1>8. ASSUME NEW v \in owed PROVE Pending(v)' \/ Kept(lines[v.line].session, v.key)'
  <2>1. CASE Pending(v) /\ v.slot = slot
    <3>1. v = Found
      BY <1>2, <2>1 DEF AtHand, Pending
    <3>2. lines'[v.line] = Cur' /\ v.key = Found'.key
      BY <1>1, <1>2, <1>3, <3>1 DEF Cur
    <3> QED BY <1>6, <3>2
  <2>2. CASE Pending(v) /\ v.slot # slot
    BY <1>1, <2>2 DEF Pending
  <2>3. CASE Kept(lines[v.line].session, v.key)
    BY <1>1, <1>6, <2>3
  <2> QED BY <2>1, <2>2, <2>3 DEF AccountInv
<1>9. \A r \in rows : r.line > first => ~SameRule(r, Found) /\ ~SameRule(Found, r)
  BY <1>1, <1>2 DEF SeenInv, SameRule, Cur
<1>10. AccountInv'
  <2>1. \A r \in rows' : r.line <= taken
    BY <1>1, <1>2 DEF AccountInv, RuleTypes
  <2>2. \A r, q \in rows' :
           r.line > first /\ q.line > first /\ SameRule(r, q) => r = q
    BY <1>1, <1>9 DEF AccountInv
  <2>3. \A v \in owed : v.line > first /\ v.line <= taken
    BY DEF AccountInv
  <2> QED BY <1>1, <1>8, <2>1, <2>2, <2>3 DEF AccountInv, SameRule
<1>11. AirInv'
  BY <1>1, <1>2 DEF AirInv
<1> QED BY <1>4, <1>5, <1>7, <1>10, <1>11

LEMMA RecordFailsOK ==
    ASSUME AlertsAssumption, RuleInv, RecordFails
    PROVE  RuleInv'
<1> USE DEF RuleInv
<1> DEFINE gone == {Found} \cup Due(taken, policy, slot)
<1>1. /\ rulePc = "record" /\ rulePc' = "idle" /\ slot' = 1 /\ policy' = Base
      /\ lost' = lost \cup {<<Cur.session, v.key>> : v \in gone}
      /\ UNCHANGED <<rules, lines, taken, seen, rows, aired, items, first, owed, unaired>>
  BY DEF RecordFails, tableVars
<1>2. /\ Found \in Violations(taken, policy) /\ Found.key \in Key
      /\ taken \in 1..Len(lines) /\ Cur.session \in Sessions
      /\ \A v \in Violations(taken, policy) : v.key \in Key /\ v.line = taken
  BY <1>1, FoundIs, ViolationTypes
<1>3. \A v \in gone : v.key \in Key
  BY <1>2 DEF Due
<1>4. lost' \subseteq Sessions \X Key
  <2>1. lost \subseteq Sessions \X Key
    BY DEF RuleTypes
  <2> QED BY <1>1, <1>2, <1>3, <2>1
<1>5. RuleTypes'
  BY <1>1, <1>4 DEF RuleTypes, AlertsAssumption, Slots
<1>6. AtHand'
  BY <1>1 DEF AtHand
<1>7. /\ \A s, k : Kept(s, k) => Kept(s, k)'
      /\ \A s, v : s = Cur.session /\ v \in gone => Kept(s, v.key)'
  <2>1. lost \subseteq lost' /\ \A v \in gone : <<Cur.session, v.key>> \in lost'
    BY <1>1
  <2> HIDE DEF gone
  <2>2. \A s, k : Kept(s, k) => Kept(s, k)'
    BY <1>1, <2>1 DEF Kept
  <2>3. \A s, v : s = Cur.session /\ v \in gone => <<s, v.key>> \in lost'
    BY <2>1
  <2> QED BY <2>2, <2>3 DEF Kept
<1> HIDE DEF gone
<1>8. \A s \in Sessions : \A k \in seen[s] : Kept(s, k)'
  <2>1. Found \in gone
    BY DEF gone
  <2> QED BY <1>7, <2>1 DEF SeenInv
<1>9. SeenInv'
  BY <1>1, <1>8 DEF SeenInv
<1>10. ASSUME NEW v \in owed PROVE Kept(lines[v.line].session, v.key)'
  <2>1. CASE Pending(v)
    <3>1. v \in Violations(taken, policy) /\ v.slot >= slot /\ lines[v.line] = Cur
      BY <1>1, <1>2, <2>1 DEF AtHand, Pending, Cur, RuleTypes, Violation, Slots
    <3>2. v.key \in seen[Cur.session] \/ v \in gone
      BY <3>1 DEF Due, Cur, gone
    <3>3. lines'[v.line].session = lines[v.line].session
      BY <1>1
    <3> QED BY <1>2, <1>7, <1>8, <3>1, <3>2, <3>3
  <2>2. CASE Kept(lines[v.line].session, v.key)
    BY <1>1, <1>7, <2>2
  <2> QED BY <2>1, <2>2 DEF AccountInv
<1>11. AccountInv'
  BY <1>1, <1>10 DEF AccountInv, SameRule
<1>12. AirInv'
  BY <1>1 DEF AirInv
<1> QED BY <1>5, <1>6, <1>9, <1>11, <1>12

LEMMA PublishOK ==
    ASSUME AlertsAssumption, RuleInv, Publish \/ PublishFails
    PROVE  RuleInv'
<1> USE DEF RuleInv
<1>1. /\ rulePc = "publish" /\ rulePc' = "surface"
      /\ UNCHANGED <<rules, lines, taken, seen, policy, slot, rows, items, first,
                     owed, lost>>
      /\ \/ Cur.backlog /\ UNCHANGED <<aired, unaired>>
         \/ ~Cur.backlog /\ aired' = aired \cup {Found} /\ UNCHANGED unaired
         \/ unaired' = unaired \cup {Found} /\ UNCHANGED aired
  BY DEF Publish, PublishFails, Broadcast, boundVars, pastVars, tableVars
<1>2. /\ Found \in rows /\ Found.line = taken /\ taken \in 1..Len(lines)
      /\ \A r \in rows : r.line = taken /\ r.slot = slot => r = Found
  BY <1>1, FoundIs DEF AtHand
<1>3. Cur' = Cur /\ Violations(taken, policy)' = Violations(taken, policy)
      /\ Found' = Found
  BY <1>1, <1>2, SameLine
<1>4. RuleTypes'
  BY <1>1, <1>2 DEF RuleTypes
<1>5. AtHand'
  BY <1>1, <1>3 DEF AtHand
<1>6. \A s, k : Kept(s, k)' <=> Kept(s, k)
  BY <1>1 DEF Kept
<1>7. SeenInv'
  BY <1>1, <1>6 DEF SeenInv
<1>8. AccountInv'
  BY <1>1, <1>6 DEF AccountInv, Pending, SameRule
<1>9. AirInv'
  <2>1. \A r \in aired' : ~lines[r.line].backlog
    BY <1>1, <1>2 DEF AirInv, Cur
  <2>2. \A r \in rows : r.line > first =>
           r \in aired' \cup unaired' \/ lines[r.line].backlog
    BY <1>1, <1>2 DEF AirInv, Cur
  <2> QED BY <1>1, <2>1, <2>2 DEF AirInv
<1> QED BY <1>4, <1>5, <1>7, <1>8, <1>9

LEMMA RestartOK ==
    ASSUME AlertsAssumption, RuleInv, Restart
    PROVE  RuleInv'
<1> USE DEF RuleInv
<1>1. /\ taken' = Len(lines) /\ first' = Len(lines) /\ rulePc' = "idle" /\ slot' = 1
      /\ policy' = Base /\ owed' = {} /\ lost' = {}
      /\ seen' = [s \in Sessions |-> {}]
      /\ UNCHANGED <<rules, lines, rows, aired, items, unaired>>
  BY DEF Restart, tableVars
<1>2. Len(lines) \in Nat /\ \A r \in rows : r.line <= Len(lines) /\ r.line \in Nat
  BY LenProperties DEF AccountInv, RuleTypes, Violation
<1>3. RuleTypes'
  BY <1>1, <1>2 DEF RuleTypes, AlertsAssumption, Slots
<1>4. AtHand' /\ SeenInv' /\ AccountInv'
  BY <1>1, <1>2 DEF AtHand, SeenInv, AccountInv
<1>5. AirInv'
  BY <1>1, <1>2 DEF AirInv
<1> QED BY <1>3, <1>4, <1>5

LEMMA RuleStep ==
    ASSUME AlertsAssumption, RuleInv, [AlertsNext]_alertsVars
    PROVE  RuleInv'
<1>1. ASSUME lines' = lines, rules' \in Overlays \cup {Unreadable},
             items' \in 0..MaxItems, items <= items',
             rulePc' = rulePc \/ (rulePc = "surface" /\ rulePc' = "notify"),
             UNCHANGED <<taken, seen, policy, slot, tableVars, pastVars>>
      PROVE  RuleInv'
  <2>1. items \in Nat /\ items' \in Nat /\ Len(lines) \in Nat
    BY <1>1, LenProperties DEF RuleInv, RuleTypes
  <2>2. RuleTypes'
    BY <1>1, <2>1 DEF RuleInv, RuleTypes, tableVars, pastVars
  <2> QED BY <1>1, <2>2, RuleStays
<1> USE DEF workVars
<1>2. /\ rules \in Overlays \cup {Unreadable} /\ items \in 0..MaxItems /\ items <= items
      /\ items < MaxItems => items + 1 \in 0..MaxItems /\ items <= items + 1
  BY DEF RuleInv, RuleTypes, AlertsAssumption
<1>3. CASE \/ \E s \in Sessions : Leak(s)
           \/ \E s \in Sessions, x \in Texts : Say(s, x)
  BY <1>1, <1>2, <1>3 DEF Leak, Say, Item
<1>4. CASE \/ TakeText \/ ScanFile \/ JudgeClaim \/ RecordClaim \/ RecordClaimFails
           \/ SurfaceClaim \/ NotifyClaim \/ SurfaceClaimFails
  BY <1>1, <1>2, <1>4
     DEF TakeText, ScanFile, JudgeClaim, RecordClaim, RecordClaimFails, SurfaceClaim,
         NotifyClaim, SurfaceClaimFails, boundVars
<1>5. CASE \/ SurfaceViolation
           \/ (\E r \in Overlays \cup {Unreadable} : EditRules(r))
           \/ (\E f \in Files, S \in SUBSET Names : EditFile(f, S))
           \/ Tick \/ UNCHANGED alertsVars
  BY <1>1, <1>2, <1>5
     DEF SurfaceViolation, EditRules, EditFile, Tick, alertsVars, boundVars
<1> QED
  BY <1>3, <1>4, <1>5, TakeLineOK, NotifyOK, HandOK, RecordOK, RecordFailsOK, PublishOK,
     RestartOK DEF AlertsNext

-----------------------------------------------------------------------------
(* Alerts: theorems.                                                       *)

AlertsInv == RuleInv /\ AuditInv /\ ToastTypes /\ ToastInv

LEMMA AlertsStart == ASSUME AlertsInit PROVE AlertsInv
<1> USE AlertsAssumption DEF AlertsInit
<1>1. RuleTypes
  <2>1. <<>> \in Seq(Line) /\ Len(<<>>) = 0
    BY EmptySeq
  <2> QED BY <2>1 DEF RuleTypes, AlertsAssumption, Slots
<1>2. RuleInv
  BY <1>1 DEF RuleInv, AtHand, SeenInv, AccountInv, AirInv
<1>3. AuditTypes
  <2>1. <<>> \in Seq(Claim) /\ <<>> \in Seq(Sessions \X Texts)
    BY EmptySeq
  <2> QED BY <2>1, LimitIs DEF AuditTypes
<1>4. ToastTypes
  BY DEF ToastTypes, AlertsAssumption
<1>5. ScanInv /\ ToastInv
  BY DEF ScanInv, ToastInv, KeptTime, Spaced, HasRow
<1> QED BY <1>2, <1>3, <1>4, <1>5 DEF AlertsInv, AuditInv

LEMMA AlertsInvariant == AlertsSpec => []AlertsInv
<1> USE AlertsAssumption
<1>1. AlertsInit => AlertsInv
  BY AlertsStart
<1>2. AlertsInv /\ [AlertsNext]_alertsVars => AlertsInv'
  BY RuleStep, AuditStep, ToastStep DEF AlertsInv, RuleInv, AuditInv
<1> QED BY <1>1, <1>2, PTL DEF AlertsSpec

\* Every variable of the rules-only workers keeps its type, and a worker is
\* only ever at a step that its line, claim or verdict allows.
THEOREM AlertsTyped == AlertsSpec => []AlertsTypeOK
<1>1. ASSUME AlertsAssumption, AlertsInv PROVE AlertsTypeOK
  <2>1. /\ pos \in 0..NFiles /\ pos <= Budget
    BY <1>1, LimitIs DEF AlertsInv, AuditInv, AuditTypes, AlertsAssumption
  <2> QED
    BY <1>1, <2>1
       DEF AlertsInv, RuleInv, RuleTypes, AuditInv, AuditTypes, ToastTypes,
           AlertsTypeOK, Line
<1> QED BY <1>1, AlertsInvariant, AlertsAssumption, PTL

\* Every rule that a call broke, by the rules in force when the constraints
\* worker took the call, has exactly one row per session and run of the daemon,
\* or was dropped by a failing ledger, however the rules are edited meanwhile
\* (_seen_violations in ConstraintsWorker._process).
THEOREM ViolationsKept == AlertsSpec => []ViolationsAccounted
<1>1. ASSUME AlertsInv PROVE ViolationsAccounted
  BY <1>1 DEF AlertsInv, RuleInv, AccountInv, Kept, ViolationsAccounted, Lost, SameRule
<1> QED BY <1>1, AlertsInvariant, PTL

\* A broken rule is announced on the live feed unless its publish failed or a
\* line of the backlog broke it first, and nothing of the backlog is announced
\* (the broadcast flag that rides through the queue with each line).
THEOREM ViolationsAnnounced == AlertsSpec => []ViolationsShown
<1>1. ASSUME AlertsInv PROVE ViolationsShown
  <2>1. ASSUME NEW v \in owed, Kept(lines[v.line].session, v.key)
        PROVE  \/ Lost(v)
               \/ \E r \in rows :
                    /\ r.line > first /\ SameRule(r, v)
                    /\ \/ r \in aired \cup unaired
                       \/ lines[r.line].backlog
                       \/ r.line = taken /\ r.slot = slot /\ rulePc = "publish"
    BY <1>1, <2>1 DEF AlertsInv, RuleInv, AirInv, Kept, Lost, SameRule
  <2> QED BY <1>1, <2>1 DEF AlertsInv, RuleInv, AccountInv, AirInv, ViolationsShown
<1> QED BY <1>1, AlertsInvariant, PTL

\* Toasts of one session and kind keep the debounce, an alert is held back only
\* for a toast less than that before (or right after the machine booted), and
\* what surface() raises has its row (os_notify, Surfacer.surface).
THEOREM ToastsSpaced == AlertsSpec => []ToastsDebounced
<1>1. ASSUME AlertsInv PROVE ToastsDebounced
  BY <1>1 DEF AlertsInv, ToastInv, Spaced, HasRow, ToastsDebounced
<1> QED BY <1>1, AlertsInvariant, PTL

\* What the audit worker says of a claim agrees with the files within its budget
\* as they were while it read them, however they were edited meanwhile
\* (_verify_claim, _grep_identifiers).
THEOREM VerdictsGrounded == AlertsSpec => []VerdictGrounded
<1>1. ASSUME AlertsAssumption, AlertsInv PROVE VerdictGrounded
  BY <1>1, AuditGrounds DEF AlertsInv
<1> QED BY <1>1, AlertsInvariant, AlertsAssumption, PTL

=============================================================================
