------------------------------- MODULE Alerts -------------------------------
(***************************************************************************)
(* What tailward raises by rules alone: the constraints worker             *)
(* (daemon/constraints_worker.py) judges tool calls by the policy of the   *)
(* project (schema/constraints.py), the audit worker (daemon/audit.py)     *)
(* checks claims against the files of the project while they are being     *)
(* edited, the dispatcher raises leaked secrets, and all of them go        *)
(* through one Surfacer (daemon/surface.py) with its debounced toasts.     *)
(*                                                                         *)
(* Globs and regular expressions are the relation Matches; a claim is the  *)
(* verbs and the identifiers found in it; memory_edit and claim events of  *)
(* the live feed, texts and artifacts are left out.                        *)
(***************************************************************************)
EXTENDS Naturals, Sequences

CONSTANTS
    Sessions,
    Patterns,    \* globs and regular expressions of rules
    Matches,     \* pairs of a pattern and a path or command it matches
    Memory,      \* paths in Claude Code's memory directories
    NotAllowed,  \* the pattern of a path that no allow rule matches
    Base,        \* default_policy()
    Overlays,    \* policies parsed from an Active Rules section
    Unreadable,  \* load_intent raises
    Calls,       \* tool calls: the paths they edit, the commands they run
    Texts,       \* texts of messages, as the sequences of their claims
    Names,       \* identifiers in claims
    NFiles,      \* files of the project, in the order rglob lists them
    Budget,      \* claim_grep_budget
    Debounce,    \* _NOTIFY_DEBOUNCE_SECONDS
    MaxItems,    \* bound: tool calls, texts with claims and leaks together
    MaxEdits,    \* bound: edits of the rules and of the files
    MaxTime,     \* bound: the clock, which is 0 when the machine boots
    MaxFaults    \* bound: ledger, publish and artifact failures and restarts

\* CompiledPolicy: four ordered lists of patterns.
Lists == {"immutable", "deny", "allow", "bash"}
Policies == [Lists -> Seq(Patterns)]
Claim == [removal : BOOLEAN, addition : BOOLEAN, names : SUBSET Names]

ASSUME AlertsAssumption ==
    /\ NotAllowed \notin Patterns
    /\ Base \in Policies /\ Overlays \subseteq Policies
    /\ Overlays # {} /\ Unreadable \notin Overlays
    /\ \A c \in Calls : /\ Len(c.paths) \in Nat
                         /\ DOMAIN c.paths = 1..Len(c.paths)
                         /\ \A x, y \in c.commands : x = y
    /\ Texts \subseteq Seq(Claim)
    /\ NFiles \in Nat /\ Budget \in Nat /\ Debounce \in Nat \ {0}
    /\ MaxItems \in Nat /\ MaxEdits \in Nat /\ MaxTime \in Nat
    /\ MaxFaults \in Nat

VARIABLES
    rules,       \* the Active Rules on disk
    lines,       \* tool calls handed to the constraints worker
    taken,       \* how many of them it has taken, or lost in a restart
    seen,        \* seen[s]: _seen_violations
    rulePc,      \* where the constraints worker is
    policy,      \* the policy it judges lines[taken] by
    slot,        \* the check of that line it is at
    rows,        \* rows of constraint_violations
    aired,       \* violations broadcast on the live feed
    texts,       \* texts queued for the audit worker
    auditPc,     \* where the audit worker is
    who,         \* the session whose text it checks
    claims,      \* claims of that text still to be checked, the current first
    pos,         \* files scanned for the current claim
    found,       \* names of it found in them
    status,      \* its verdict
    verdicts,    \* rows of verification_ledger: claims with their verdicts
    repo,        \* repo[f]: identifiers in file f
    surfaced,    \* sessions and kinds that have rows of surfacings
    now,         \* time.monotonic()
    last,        \* last[k]: _last_notified, 0 where it has no entry
    items, edits, faults,
    first,       \* history: how many lines came before the last restart
    owed,        \* history: violations of lines taken since, by the rules then
    lost,        \* history: those a failing ledger kept from being recorded
    unaired,     \* history: violations whose publish failed
    steady,      \* history: names in files ever since the scan began
    ever,        \* history: names in files at some time since
    toasts,      \* history: toasts[k]: times of OS toasts
    suppressed   \* history: suppressed[k]: times of debounced ones

workVars == <<lines, taken, seen, rulePc, policy, slot>>
tableVars == <<rows, aired>>
auditVars == <<texts, auditPc, who, claims, pos, found, status, verdicts>>
repoVars == <<repo, steady, ever>>
toastVars == <<last, toasts, suppressed>>
boundVars == <<items, edits, faults>>
pastVars == <<first, owed, lost, unaired>>
alertsVars == <<rules, workVars, tableVars, auditVars, repoVars, surfaced, now,
                toastVars, boundVars, pastVars>>

Files == 1..NFiles

\* A call is checked at numbered places, in the order of _process: for each
\* path the immutable list and then the path policy, and the command last.
Slots == Nat \ {0}
Checks(call) == 1..2 * Len(call.paths) + 1
Kinds == {"immutable", "path-policy", "forbidden-bash"}
Key == [kind : Kinds, pat : Patterns \cup {NotAllowed}]
Violation == [line : 1..MaxItems, slot : Slots, key : Key]

\* Toasts are debounced per session and kind of alert.
ToastKeys == Sessions \X {"constraint", "claim", "exfiltration"}

AlertsTypeOK ==
    /\ rules \in Overlays \cup {Unreadable}
    /\ lines \in Seq([session : Sessions, call : Calls, backlog : BOOLEAN])
    /\ Len(lines) <= items
    /\ taken \in 0..Len(lines)
    /\ seen \in [Sessions -> SUBSET Key]
    /\ rulePc \in {"idle", "record", "publish", "surface", "notify"}
    /\ policy \in Policies
    /\ slot \in Slots
    /\ rulePc # "idle" => taken > first
    /\ rows \subseteq Violation /\ aired \subseteq rows
    /\ texts \in Seq(Sessions \X Texts)
    /\ auditPc \in {"idle", "scan", "record", "surface", "notify"}
    /\ who \in Sessions
    /\ claims \in Seq(Claim)
    /\ auditPc # "idle" => claims # <<>>
    /\ pos \in 0..NFiles /\ pos <= Budget
    /\ found \subseteq Names
    /\ status \in {"verified", "contradicted", "unverifiable", "skip"}
    /\ auditPc \in {"surface", "notify"} => status = "contradicted"
    /\ verdicts \subseteq Claim \X {"verified", "contradicted"}
    /\ repo \in [Files -> SUBSET Names]
    /\ surfaced \subseteq ToastKeys
    /\ now \in 0..MaxTime
    /\ last \in [ToastKeys -> 0..now]
    /\ items \in 0..MaxItems
    /\ edits \in 0..MaxEdits
    /\ faults \in 0..MaxFaults
    /\ first \in 0..taken
    /\ owed \subseteq Violation
    /\ lost \subseteq Sessions \X Key
    /\ unaired \subseteq rows
    /\ steady \subseteq Files \X Names /\ ever \subseteq Files \X Names
    /\ toasts \in [ToastKeys -> SUBSET (0..now)]
    /\ suppressed \in [ToastKeys -> SUBSET (0..now)]

AlertsInit ==
    /\ rules \in Overlays
    /\ lines = <<>>
    /\ taken = 0
    /\ seen = [s \in Sessions |-> {}]
    /\ rulePc = "idle"
    /\ policy = Base
    /\ slot = 1
    /\ rows = {}
    /\ aired = {}
    /\ texts = <<>>
    /\ auditPc = "idle"
    /\ who \in Sessions
    /\ claims = <<>>
    /\ pos = 0
    /\ found = {}
    /\ status = "skip"
    /\ verdicts = {}
    /\ repo \in [Files -> SUBSET Names]
    /\ surfaced = {}
    /\ now = 0
    /\ last = [k \in ToastKeys |-> 0]
    /\ items = 0
    /\ edits = 0
    /\ faults = 0
    /\ first = 0
    /\ owed = {}
    /\ lost = {}
    /\ unaired = {}
    /\ steady = {}
    /\ ever = {}
    /\ toasts = [k \in ToastKeys |-> {}]
    /\ suppressed = [k \in ToastKeys |-> {}]

Item == items < MaxItems /\ items' = items + 1
Edit == edits < MaxEdits /\ edits' = edits + 1
Fault == faults < MaxFaults /\ faults' = faults + 1

-----------------------------------------------------------------------------
(* Policies. *)

Matching(list, x) == SelectSeq(list, LAMBDA p : <<p, x>> \in Matches)

\* violation_for: at most one violation, of the first pattern that matches.
FirstMatch(kind, list, x) ==
    {[kind |-> kind, pat |-> Matching(list, x)[i]] :
        i \in DOMAIN Matching(list, x) \cap {1}}

\* PathPolicy.violation_for: the deny list goes before the allow list.
OffLimits(p, path) ==
    IF Matching(p["deny"], path) = <<>> /\ p["allow"] # <<>>
       /\ Matching(p["allow"], path) = <<>>
    THEN {[kind |-> "path-policy", pat |-> NotAllowed]}
    ELSE FirstMatch("path-policy", p["deny"], path)

\* What the check of a call at slot n finds.  A path in Claude Code's memory
\* directories is subject to no path policy.
Broken(p, call, n) ==
    LET i == (n + 1) \div 2
        path == call.paths[i]
    IN  CASE i \notin DOMAIN call.paths ->
                UNION {FirstMatch("forbidden-bash", p["bash"], c) :
                       c \in call.commands}
          [] i \in DOMAIN call.paths /\ n % 2 = 1 ->
                FirstMatch("immutable", p["immutable"], path)
          [] i \in DOMAIN call.paths /\ n % 2 = 0 ->
                IF path \in Memory THEN {} ELSE OffLimits(p, path)

\* merge: the rules of the project come after the baseline.
Merge(base, overlay) == [l \in Lists |-> base[l] \o overlay[l]]

\* _compute_policy: without a readable intent.md the baseline alone.  The
\* cache it keeps is keyed by the text of the rules.
InForce == IF rules = Unreadable THEN Base ELSE Merge(Base, rules)

-----------------------------------------------------------------------------
(* The Surfacer. *)

\* Faulty variant of OsNotify: a debounced alert starts the wait anew.
OsNotifySliding(k) ==
    LET quiet == now - last[k] < Debounce
    IN  /\ last' = [last EXCEPT ![k] = now]
        /\ toasts' = [toasts EXCEPT ![k] = IF quiet THEN @ ELSE @ \cup {now}]
        /\ suppressed' = [suppressed EXCEPT ![k] = IF quiet THEN @ \cup {now} ELSE @]

\* os_notify; a toast that the system refuses counts like one it shows.
OsNotify(k) ==
    IF now - last[k] < Debounce
    THEN /\ suppressed' = [suppressed EXCEPT ![k] = @ \cup {now}]
         /\ UNCHANGED <<last, toasts>>
    ELSE /\ last' = [last EXCEPT ![k] = now]
         /\ toasts' = [toasts EXCEPT ![k] = @ \cup {now}]
         /\ UNCHANGED suppressed

\* _check_leaks: the alert of a leaked secret, of live lines only.
Leak(s) ==
    /\ Item
    /\ OsNotify(<<s, "exfiltration">>)
    /\ UNCHANGED <<rules, workVars, tableVars, auditVars, repoVars, surfaced,
                   now, edits, faults, pastVars>>

\* surface: the row, and in a later step the artifact and the toast.
SurfacingRow(k) == surfaced' = surfaced \cup {k}

-----------------------------------------------------------------------------
(* The constraints worker. *)

\* The dispatcher hands over a tool call, as it happens or from the backlog.
Hand(s, c, bl) ==
    /\ Item
    /\ lines' = Append(lines, [session |-> s, call |-> c, backlog |-> bl])
    /\ UNCHANGED <<rules, taken, seen, rulePc, policy, slot, tableVars, auditVars,
                   repoVars, surfaced, now, toastVars, edits, faults, pastVars>>

Cur == lines[taken]

\* The violations a line has under policy p.
Violations(n, p) ==
    {v \in [line : {n}, slot : Checks(lines[n].call), key : Key] :
        v.key \in Broken(p, lines[n].call, v.slot)}

\* Faulty variant of Due: the loop ends at a rule already seen.
DueUntilSeen(n, p, from) ==
    {v \in Violations(n, p) :
        /\ v.slot >= from
        /\ v.key \notin seen[lines[n].session]
        /\ \A w \in Violations(n, p) :
              from <= w.slot /\ w.slot < v.slot =>
                  w.key \notin seen[lines[n].session]}

\* Those the loop still has to record, from a slot on.
Due(n, p, from) ==
    {v \in Violations(n, p) :
        v.slot >= from /\ v.key \notin seen[lines[n].session]}

\* The loop goes on to the next one, which is seen from here on, or is over.
Proceed(n, p, from) ==
    \/ /\ Due(n, p, from) = {}
       /\ rulePc' = "idle"
       /\ slot' = 1
       /\ policy' = Base
       /\ UNCHANGED seen
    \/ \E v \in Due(n, p, from) :
          /\ \A w \in Due(n, p, from) : v.slot <= w.slot
          /\ rulePc' = "record"
          /\ slot' = v.slot
          /\ policy' = p
          /\ seen' = [seen EXCEPT ![lines[n].session] = @ \cup {v.key}]

TakeLine ==
    /\ rulePc = "idle"
    /\ taken < Len(lines)
    /\ taken' = taken + 1
    /\ owed' = owed \cup Violations(taken + 1, InForce)
    /\ Proceed(taken + 1, InForce, 1)
    /\ UNCHANGED <<rules, lines, tableVars, auditVars, repoVars, surfaced, now,
                   toastVars, boundVars, first, lost, unaired>>

\* The violation being recorded.
Found == CHOOSE v \in Violations(taken, policy) : v.slot = slot

Record ==
    /\ rulePc = "record"
    /\ rows' = rows \cup {Found}
    /\ rulePc' = "publish"
    /\ UNCHANGED <<rules, lines, taken, seen, policy, slot, aired, auditVars,
                   repoVars, surfaced, now, toastVars, boundVars, pastVars>>

\* The exception leaves _process: this violation will never be recorded, and
\* the rest of the line is not looked at.
RecordFails ==
    /\ rulePc = "record"
    /\ Fault
    /\ lost' = lost \cup {<<Cur.session, v.key>> :
                            v \in {Found} \cup Due(taken, policy, slot)}
    /\ rulePc' = "idle"
    /\ slot' = 1
    /\ policy' = Base
    /\ UNCHANGED <<rules, lines, taken, seen, tableVars, auditVars, repoVars,
                   surfaced, now, toastVars, items, edits, first, owed,
                   unaired>>

\* Faulty variant of Broadcast: the flag of the line that came in last.
BroadcastNewest == ~lines[Len(lines)].backlog

\* The flag that rode through the queue with the line.
Broadcast == ~Cur.backlog

Publish ==
    /\ rulePc = "publish"
    /\ aired' = IF Broadcast THEN aired \cup {Found} ELSE aired
    /\ rulePc' = "surface"
    /\ UNCHANGED <<rules, lines, taken, seen, policy, slot, rows, auditVars,
                   repoVars, surfaced, now, toastVars, boundVars, pastVars>>

PublishFails ==
    /\ rulePc = "publish"
    /\ Fault
    /\ unaired' = unaired \cup {Found}
    /\ rulePc' = "surface"
    /\ UNCHANGED <<rules, lines, taken, seen, policy, slot, tableVars,
                   auditVars, repoVars, surfaced, now, toastVars, items, edits,
                   first, owed, lost>>

SurfaceViolation ==
    /\ rulePc = "surface"
    /\ SurfacingRow(<<Cur.session, "constraint">>)
    /\ rulePc' = "notify"
    /\ UNCHANGED <<rules, lines, taken, seen, policy, slot, tableVars,
                   auditVars, repoVars, now, toastVars, boundVars, pastVars>>

Notify ==
    /\ rulePc = "notify"
    /\ OsNotify(<<Cur.session, "constraint">>)
    /\ Proceed(taken, policy, slot + 1)
    /\ UNCHANGED <<rules, lines, taken, tableVars, auditVars, repoVars,
                   surfaced, now, boundVars, pastVars>>

\* A failing row or artifact is swallowed and the loop goes on.
SurfaceFails ==
    /\ rulePc \in {"surface", "notify"}
    /\ Fault
    /\ Proceed(taken, policy, slot + 1)
    /\ UNCHANGED <<rules, lines, taken, tableVars, auditVars, repoVars,
                   surfaced, now, toastVars, items, edits, pastVars>>

-----------------------------------------------------------------------------
(* The audit worker. *)

\* The dispatcher hands over the text of a message, live ones only.
Say(s, t) ==
    /\ Item
    /\ texts' = Append(texts, <<s, t>>)
    /\ UNCHANGED <<rules, workVars, tableVars, auditPc, who, claims, pos,
                   found, status, verdicts, repoVars, surfaced, now, toastVars,
                   edits, faults, pastVars>>

\* Files the scan visits: the budget ends it early.
Limit == IF Budget < NFiles THEN Budget ELSE NFiles

\* Faulty variant of Scanned: the file that uses up the budget is not read.
ScannedShort == pos + 1 >= Limit

\* The scan is over.
Scanned == pos >= Limit

\* _verify_claim, in the order of its tests.
Verdict(c) ==
    IF c.names = {} THEN "unverifiable"
    ELSE CASE c.removal /\ found # {}              -> "contradicted"
           [] c.addition /\ found = {}             -> "contradicted"
           [] c.removal /\ ~c.addition /\ found = {} -> "verified"
           [] c.addition /\ ~c.removal /\ found # {} -> "verified"
           [] OTHER                                -> "skip"

\* Names in files, for the history of a scan.
Holdings == {h \in Files \X Names : h[2] \in repo[h[1]]}

\* The loop goes on to claims rest, or is over.
NextClaim(rest) ==
    /\ claims' = rest
    /\ auditPc' = IF rest = <<>> THEN "idle" ELSE "scan"
    /\ pos' = 0
    /\ found' = {}
    /\ status' = "skip"
    /\ steady' = IF rest = <<>> THEN {} ELSE Holdings
    /\ ever' = IF rest = <<>> THEN {} ELSE Holdings

TakeText ==
    /\ auditPc = "idle"
    /\ texts # <<>>
    /\ texts' = Tail(texts)
    /\ who' = Head(texts)[1]
    /\ NextClaim(Head(texts)[2])
    /\ UNCHANGED <<rules, workVars, tableVars, verdicts, repo, surfaced, now,
                   toastVars, boundVars, pastVars>>

\* _grep_identifiers reads one file, in a thread of its own.
ScanFile ==
    /\ auditPc = "scan"
    /\ Head(claims).names # {}
    /\ ~Scanned
    /\ found' = found \cup (Head(claims).names \cap repo[pos + 1])
    /\ pos' = pos + 1
    /\ UNCHANGED <<rules, workVars, tableVars, texts, auditPc, who, claims,
                   status, verdicts, repoVars, surfaced, now, toastVars,
                   boundVars, pastVars>>

\* The thread returns; claims without a verdict leave no row.
JudgeClaim ==
    /\ auditPc = "scan"
    /\ Head(claims).names = {} \/ Scanned
    /\ \/ /\ Verdict(Head(claims)) \in {"skip", "unverifiable"}
          /\ NextClaim(Tail(claims))
          /\ UNCHANGED repo
       \/ /\ Verdict(Head(claims)) \in {"verified", "contradicted"}
          /\ status' = Verdict(Head(claims))
          /\ auditPc' = "record"
          /\ UNCHANGED <<claims, pos, found, repoVars>>
    /\ UNCHANGED <<rules, workVars, tableVars, texts, who, verdicts, surfaced,
                   now, toastVars, boundVars, pastVars>>

\* record_claim, and the publish that follows it.
RecordClaim ==
    /\ auditPc = "record"
    /\ verdicts' = verdicts \cup {<<Head(claims), status>>}
    /\ \/ /\ status = "contradicted"
          /\ auditPc' = "surface"
          /\ UNCHANGED <<claims, pos, found, status, repoVars>>
       \/ /\ status # "contradicted"
          /\ NextClaim(Tail(claims))
          /\ UNCHANGED repo
    /\ UNCHANGED <<rules, workVars, tableVars, texts, who, surfaced, now,
                   toastVars, boundVars, pastVars>>

\* The exception leaves _process and the rest of the text is not checked.
RecordClaimFails ==
    /\ auditPc = "record"
    /\ Fault
    /\ NextClaim(<<>>)
    /\ UNCHANGED <<rules, workVars, tableVars, texts, who, verdicts, repo,
                   surfaced, now, toastVars, items, edits, pastVars>>

SurfaceClaim ==
    /\ auditPc = "surface"
    /\ SurfacingRow(<<who, "claim">>)
    /\ auditPc' = "notify"
    /\ UNCHANGED <<rules, workVars, tableVars, texts, who, claims, pos, found,
                   status, verdicts, repoVars, now, toastVars, boundVars,
                   pastVars>>

NotifyClaim ==
    /\ auditPc = "notify"
    /\ OsNotify(<<who, "claim">>)
    /\ NextClaim(Tail(claims))
    /\ UNCHANGED <<rules, workVars, tableVars, texts, who, verdicts, repo,
                   surfaced, now, boundVars, pastVars>>

SurfaceClaimFails ==
    /\ auditPc \in {"surface", "notify"}
    /\ Fault
    /\ NextClaim(Tail(claims))
    /\ UNCHANGED <<rules, workVars, tableVars, texts, who, verdicts, repo,
                   surfaced, now, toastVars, items, edits, pastVars>>

-----------------------------------------------------------------------------
(* The rest of the world. *)

\* The user or a rewrite changes intent.md, or it cannot be read for a while.
EditRules(r) ==
    /\ Edit
    /\ r # rules
    /\ rules' = r
    /\ UNCHANGED <<workVars, tableVars, auditVars, repoVars, surfaced, now,
                   toastVars, items, faults, pastVars>>

\* The session goes on editing the project while a claim is checked.
EditFile(f, S) ==
    /\ Edit
    /\ S # repo[f]
    /\ repo' = [repo EXCEPT ![f] = S]
    /\ steady' = {h \in steady : h[1] = f => h[2] \in S}
    /\ ever' = IF claims = <<>> THEN {} ELSE ever \cup {f} \X S
    /\ UNCHANGED <<rules, workVars, tableVars, auditVars, surfaced, now,
                   toastVars, items, faults, pastVars>>

Tick ==
    /\ now < MaxTime
    /\ now' = now + 1
    /\ UNCHANGED <<rules, workVars, tableVars, auditVars, repoVars, surfaced,
                   toastVars, boundVars, pastVars>>

\* The daemon stops or crashes and comes up again: queues, seen violations and
\* debounce times are gone.
Restart ==
    /\ Fault
    /\ taken' = Len(lines)
    /\ first' = Len(lines)
    /\ seen' = [s \in Sessions |-> {}]
    /\ rulePc' = "idle"
    /\ slot' = 1
    /\ policy' = Base
    /\ owed' = {}
    /\ lost' = {}
    /\ texts' = <<>>
    /\ NextClaim(<<>>)
    /\ last' = [k \in ToastKeys |-> 0]
    /\ toasts' = [k \in ToastKeys |-> {}]
    /\ suppressed' = [k \in ToastKeys |-> {}]
    /\ UNCHANGED <<rules, lines, tableVars, who, verdicts, repo, surfaced, now,
                   items, edits, unaired>>

AlertsNext ==
    \/ \E s \in Sessions : Leak(s)
    \/ \E s \in Sessions, c \in Calls, bl \in BOOLEAN : Hand(s, c, bl)
    \/ TakeLine
    \/ Record
    \/ RecordFails
    \/ Publish
    \/ PublishFails
    \/ SurfaceViolation
    \/ Notify
    \/ SurfaceFails
    \/ \E s \in Sessions, t \in Texts : Say(s, t)
    \/ TakeText
    \/ ScanFile
    \/ JudgeClaim
    \/ RecordClaim
    \/ RecordClaimFails
    \/ SurfaceClaim
    \/ NotifyClaim
    \/ SurfaceClaimFails
    \/ \E r \in Overlays \cup {Unreadable} : EditRules(r)
    \/ \E f \in Files, S \in SUBSET Names : EditFile(f, S)
    \/ Tick
    \/ Restart

AlertsSpec == AlertsInit /\ [][AlertsNext]_alertsVars

-----------------------------------------------------------------------------
(* Properties. *)

SameRule(v, w) ==
    v.key = w.key /\ lines[v.line].session = lines[w.line].session

\* The loop has still to come to v, or is about to record it.
Pending(v) ==
    /\ v.line = taken
    /\ rulePc # "idle"
    /\ v.slot > slot \/ (rulePc = "record" /\ v.slot = slot)

Lost(v) == <<lines[v.line].session, v.key>> \in lost

\* Whatever rule a call broke, by the rules as they were when the worker took
\* it, has exactly one row per session and run of the daemon, or was dropped
\* by a failing ledger (_seen_violations in ConstraintsWorker._process).
ViolationsAccounted ==
    /\ \A v \in owed :
          \/ Pending(v)
          \/ Lost(v)
          \/ \E r \in rows : r.line > first /\ SameRule(r, v)
    /\ \A r, q \in rows :
          r.line > first /\ q.line > first /\ SameRule(r, q) => r = q

\* A rule broken in real time is announced on the live feed in that run of the
\* daemon, unless the publish failed or a line of the backlog broke it first;
\* and nothing of the backlog is announced (the broadcast flag that rides
\* through the queue).
ViolationsShown ==
    /\ \A r \in aired : ~lines[r.line].backlog
    /\ \A v \in owed :
          \/ lines[v.line].backlog
          \/ Pending(v)
          \/ Lost(v)
          \/ \E r \in rows :
                /\ r.line > first
                /\ SameRule(r, v)
                /\ \/ r \in aired \cup unaired
                   \/ lines[r.line].backlog
                   \/ r.line = taken /\ r.slot = slot /\ rulePc = "publish"

\* Two toasts of a session and kind are never closer than the debounce, and an
\* alert goes without one only when another was raised less than that before,
\* or the machine has been up for less than that; and what surface() raises
\* has its row by then (Surfacer.surface, os_notify).
ToastsDebounced ==
    \A k \in ToastKeys :
        /\ toasts[k] \cup suppressed[k] # {} => k \in surfaced \/ k[2] = "exfiltration"
        /\ \A t, u \in toasts[k] : t < u => u - t >= Debounce
        /\ \A t \in suppressed[k] :
              \/ t < Debounce
              \/ \E u \in toasts[k] : u <= t /\ t - u < Debounce

\* The verdict on a claim agrees with the files the scan could visit: what it
\* calls absent was in none of them all along, what it calls present was in
\* one of them at some time (_verify_claim reads them while they change).
VerdictGrounded ==
    auditPc \in {"record", "surface", "notify"} =>
        LET c == Head(claims)
            within(H) == {h \in H : h[1] <= Budget /\ h[2] \in c.names}
        IN  \/ /\ status = IF c.removal THEN "contradicted" ELSE "verified"
               /\ within(ever) # {}
            \/ /\ status = IF c.addition THEN "contradicted" ELSE "verified"
               /\ within(steady) = {}

=============================================================================
