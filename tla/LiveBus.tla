------------------------------ MODULE LiveBus ------------------------------
(***************************************************************************)
(* The live feed of one session: publishers that persist an event and then *)
(* fan it out (daemon/livebus.py), the Server-Sent-Events generator of     *)
(* each open stream (web/sse.py), and the browser store that bootstraps,   *)
(* streams, reconnects and falls back to polling                           *)
(* (frontend/src/lib/live.svelte.js).                                      *)
(*                                                                         *)
(* Event n is the n-th one published.  When its insert succeeds its row id *)
(* is n: AUTOINCREMENT ids grow in insertion order and nothing here        *)
(* depends on their gaps.  When the insert fails the event keeps id 0.     *)
(***************************************************************************)
EXTENDS Integers, FiniteSets, Sequences

CONSTANTS
    Clients,      \* browser tabs showing the session
    MaxSubs,      \* LiveBus max_subscribers_per_session
    QueueSize,    \* LiveBus queue_size
    ReplayLimit,  \* Config.live_sse_replay_events
    PollLimit,    \* limit=500 of poll_events
    PageSize,     \* the literal 100 of loadOlder
    Broadcasts,   \* broadcast flags its publishers pass (FALSE: backlog replay)
    MaxEvents,    \* bound: events published
    MaxFaults     \* bound: failed inserts, fetches and connections

ASSUME LiveBusAssumption ==
    /\ MaxSubs \in Nat /\ QueueSize \in Nat \ {0}
    /\ ReplayLimit \in Nat \ {0} /\ PollLimit \in Nat \ {0}
    /\ PageSize \in Nat \ {0}
    /\ Broadcasts \subseteq BOOLEAN
    /\ MaxEvents \in Nat /\ MaxFaults \in Nat
    /\ IsFiniteSet(Clients)

VARIABLES
    published,  \* number of events published so far
    rows,       \* ids in the live_events table
    pending,    \* broadcast events past their insert, not yet fanned out
    conn,       \* conn[c]: where tab c is in its connection life cycle
    cursor,     \* #lastEventId
    rendered,   \* #renderedIds
    failures,   \* #esFailures
    oldest,     \* oldestEventId
    hasMore,    \* hasMoreOlder
    asked,      \* the `before` of the "load older" fetch under way, 0 if none
    phase,      \* where the generator serving tab c is
    replay,     \* rows its replay query returned, not yet yielded
    queue,      \* its subscriber queue
    zombies,    \* subscribed generators whose tab is gone
    faults,     \* faults so far
    base,       \* history: tab c's window holds the rows above base[c]
    skipped,    \* history: rows the server let pass tab c by
    jumped      \* history: tabs an event older than all they showed was pushed to

ledgerVars == <<published, rows, pending>>
browserVars == <<conn, cursor, rendered, failures, oldest, hasMore, asked>>
streamVars == <<phase, replay, queue, zombies>>
historyVars == <<base, skipped, jumped>>
vars == <<ledgerVars, browserVars, streamVars, faults, historyVars>>

Events == 1..MaxEvents
Ids == 0..MaxEvents

TypeOK ==
    /\ published \in Ids
    /\ rows \in SUBSET (1..published)
    /\ pending \in SUBSET (1..published)
    /\ conn \in [Clients -> {"boot", "attach", "stream", "poll"}]
    /\ cursor \in [Clients -> Ids]
    /\ rendered \in [Clients -> SUBSET Ids]
    /\ failures \in [Clients -> 0..2]
    /\ oldest \in [Clients -> Ids]
    /\ hasMore \in [Clients -> BOOLEAN]
    /\ asked \in [Clients -> Ids]
    /\ phase \in [Clients -> {"none", "query", "frames", "live"}]
    /\ replay \in [Clients -> SUBSET Events]
    /\ queue \in [Clients -> Seq(Events)]
    /\ \A c \in Clients : Len(queue[c]) <= QueueSize
    /\ zombies \in Nat
    /\ faults \in 0..MaxFaults
    /\ base \in [Clients -> Ids]
    /\ skipped \in [Clients -> SUBSET Events]
    /\ jumped \in SUBSET Clients

Init ==
    /\ published = 0
    /\ rows = {}
    /\ pending = {}
    /\ conn = [c \in Clients |-> "boot"]
    /\ cursor = [c \in Clients |-> 0]
    /\ rendered = [c \in Clients |-> {}]
    /\ failures = [c \in Clients |-> 0]
    /\ oldest = [c \in Clients |-> 0]
    /\ hasMore = [c \in Clients |-> TRUE]
    /\ asked = [c \in Clients |-> 0]
    /\ phase = [c \in Clients |-> "none"]
    /\ replay = [c \in Clients |-> {}]
    /\ queue = [c \in Clients |-> <<>>]
    /\ zombies = 0
    /\ faults = 0
    /\ base = [c \in Clients |-> 0]
    /\ skipped = [c \in Clients |-> {}]
    /\ jumped = {}

-----------------------------------------------------------------------------
(* The ledger's three queries over live_events. *)

\* Faulty variant of RowsAfter: the tail of the table instead of the prefix.
TailAfter(since, limit) ==
    {r \in rows : /\ r > since
                  /\ Cardinality({x \in rows : r < x}) < limit}

\* live_events_for_session: the oldest `limit` rows above since.
RowsAfter(since, limit) ==
    {r \in rows : /\ r > since
                  /\ Cardinality({x \in rows : since < x /\ x < r}) < limit}

\* live_events_before: the newest `limit` rows below before.
RowsBefore(before, limit) ==
    {r \in rows : /\ r < before
                  /\ Cardinality({x \in rows : r < x /\ x < before}) < limit}

\* live_events_recent: the tail of the table.
RowsRecent(limit) == RowsBefore(published + 1, limit)

-----------------------------------------------------------------------------
(* Publishing. *)

Fault == /\ faults < MaxFaults
         /\ faults' = faults + 1

\* publish() up to the end of the awaited persist.  A historical event
\* (broadcast=False) ends here.  The insert may raise: the event then goes on
\* to the fan-out without an id.
Persist(broadcast) ==
    /\ published < MaxEvents
    /\ published' = published + 1
    /\ rows' = rows \cup {published'}
    /\ IF broadcast
       THEN /\ pending' = pending \cup {published'}
            /\ UNCHANGED skipped
       ELSE /\ skipped' = [c \in Clients |-> IF phase[c] = "live"
                                             THEN skipped[c] \cup {published'}
                                             ELSE skipped[c]]
            /\ UNCHANGED pending
    /\ UNCHANGED <<browserVars, streamVars, faults, base, jumped>>

PersistFails ==
    /\ published < MaxEvents
    /\ Fault
    /\ published' = published + 1
    /\ pending' = pending \cup {published'}
    /\ UNCHANGED <<rows, browserVars, streamVars, historyVars>>

\* put_nowait on a bounded queue, dropping the oldest entry when it is full.
Offer(q, n) == Append(IF Len(q) < QueueSize THEN q ELSE Tail(q), n)

\* The fan-out after the await.  Publishers resume in any order: one that
\* found a ledger batch open skips the commit another is still waiting for.
FanOut(n) ==
    /\ n \in pending
    /\ pending' = pending \ {n}
    /\ queue' = [c \in Clients |->
                    IF phase[c] = "live" THEN Offer(queue[c], n) ELSE queue[c]]
    /\ skipped' = [c \in Clients |->
                    IF phase[c] = "live" /\ Len(queue[c]) = QueueSize
                    THEN skipped[c] \cup {Head(queue[c])}
                    ELSE skipped[c]]
    /\ UNCHANGED <<published, rows, browserVars, phase, replay, zombies,
                   faults, base, jumped>>

-----------------------------------------------------------------------------
(* The browser store's push(): dedupe by id, advance the cursor. *)

\* The larger of m and the largest member of S.
HighWater(m, S) == CHOOSE x \in S \cup {m} : \A y \in S \cup {m} : y <= x

Least(S) == CHOOSE x \in S : \A y \in S : x <= y

\* Faulty variant of Push: the cursor follows the last id pushed, even when a
\* later publisher overtook it.
PushLast(c, S) ==
    LET fresh == S \ rendered[c] IN
    /\ rendered' = [rendered EXCEPT ![c] = @ \cup S]
    /\ cursor' = [cursor EXCEPT ![c] = IF S = {} THEN @ ELSE HighWater(0, S)]
    /\ oldest' = [oldest EXCEPT ![c] =
                    IF fresh # {} /\ (@ = 0 \/ Least(fresh) < @)
                    THEN Least(fresh) ELSE @]
    /\ jumped' = IF fresh # {} /\ oldest[c] # 0 /\ Least(fresh) < oldest[c]
                 THEN jumped \cup {c} ELSE jumped

\* push() of the ids in S, in increasing order.
Push(c, S) ==
    LET fresh == S \ rendered[c] IN
    /\ rendered' = [rendered EXCEPT ![c] = @ \cup S]
    /\ cursor' = [cursor EXCEPT ![c] = HighWater(@, S)]
    /\ oldest' = [oldest EXCEPT ![c] =
                    IF fresh # {} /\ (@ = 0 \/ Least(fresh) < @)
                    THEN Least(fresh) ELSE @]
    /\ jumped' = IF fresh # {} /\ oldest[c] # 0 /\ Least(fresh) < oldest[c]
                 THEN jumped \cup {c} ELSE jumped

\* connect(): the page-load replay, before any stream is attached.
Bootstrap(c) ==
    /\ conn[c] = "boot"
    /\ LET tail == RowsRecent(ReplayLimit) IN
        /\ Push(c, tail)
        /\ base' = [base EXCEPT ![c] = IF tail = {} THEN 0 ELSE Least(tail) - 1]
    /\ conn' = [conn EXCEPT ![c] = "attach"]
    /\ UNCHANGED <<ledgerVars, failures, hasMore, asked, streamVars, faults,
                   skipped>>

\* The replay fetch fails; connect() logs it and attaches all the same.
BootstrapFails(c) ==
    /\ conn[c] = "boot"
    /\ Fault
    /\ conn' = [conn EXCEPT ![c] = "attach"]
    /\ UNCHANGED <<ledgerVars, cursor, rendered, failures, oldest, hasMore,
                   asked, streamVars, historyVars>>

\* The EventSource opens: onopen, and the server starts the generator.
Open(c) ==
    /\ conn[c] = "attach"
    /\ conn' = [conn EXCEPT ![c] = "stream"]
    /\ failures' = [failures EXCEPT ![c] = 0]
    /\ phase' = [phase EXCEPT ![c] = "query"]
    /\ UNCHANGED <<ledgerVars, cursor, rendered, oldest, hasMore, asked, replay,
                   queue, zombies, faults, historyVars>>

\* onerror: reattach after the first failure in a row, poll after the second.
OnError(c) ==
    /\ failures' = [failures EXCEPT ![c] = @ + 1]
    /\ conn' = [conn EXCEPT ![c] = IF failures[c] + 1 >= 2
                                   THEN "poll" ELSE "attach"]

\* The connection attempt fails before it opens.
AttachFails(c) ==
    /\ conn[c] = "attach"
    /\ Fault
    /\ OnError(c)
    /\ UNCHANGED <<ledgerVars, cursor, rendered, oldest, hasMore, asked,
                   streamVars, historyVars>>

\* #pollOnce: one page of rows above the cursor.
Poll(c) ==
    /\ conn[c] = "poll"
    /\ Push(c, RowsAfter(cursor[c], PollLimit))
    /\ UNCHANGED <<ledgerVars, conn, failures, hasMore, asked, streamVars,
                   faults, base, skipped>>

\* loadOlder() up to its await: it asks for the page below the oldest id shown.
AskOlder(c) ==
    /\ asked[c] = 0
    /\ hasMore[c]
    /\ oldest[c] # 0
    /\ asked' = [asked EXCEPT ![c] = oldest[c]]
    /\ UNCHANGED <<ledgerVars, conn, cursor, rendered, failures, oldest, hasMore,
                   streamVars, faults, historyVars>>

\* Faulty variant of OlderPage: a page that is exactly full is taken for the
\* last one.
OlderFullIsLast(c) ==
    /\ asked[c] # 0
    /\ LET page  == RowsBefore(asked[c], ReplayLimit)
           fresh == page \ rendered[c]
       IN /\ rendered' = [rendered EXCEPT ![c] = @ \cup fresh]
          /\ oldest' = [oldest EXCEPT ![c] = IF fresh = {} THEN @ ELSE Least(fresh)]
          /\ hasMore' = [hasMore EXCEPT ![c] =
                           @ /\ fresh # {} /\ Cardinality(page) > PageSize]
    /\ asked' = [asked EXCEPT ![c] = 0]
    /\ UNCHANGED <<ledgerVars, conn, cursor, failures, streamVars, faults,
                   historyVars>>

\* loadOlder() after it: the page, whose rows were all there when it was asked
\* for, is merged into what the stream has pushed meanwhile.
OlderPage(c) ==
    /\ asked[c] # 0
    /\ LET page  == RowsBefore(asked[c], ReplayLimit)
           fresh == page \ rendered[c]
       IN /\ rendered' = [rendered EXCEPT ![c] = @ \cup fresh]
          /\ oldest' = [oldest EXCEPT ![c] = IF fresh = {} THEN @ ELSE Least(fresh)]
          /\ hasMore' = [hasMore EXCEPT ![c] =
                           @ /\ fresh # {} /\ Cardinality(page) >= PageSize]
    /\ asked' = [asked EXCEPT ![c] = 0]
    /\ UNCHANGED <<ledgerVars, conn, cursor, failures, streamVars, faults,
                   historyVars>>

\* The fetch fails, or its answer is not ok: the button may be tried again.
OlderFails(c) ==
    /\ asked[c] # 0
    /\ asked' = [asked EXCEPT ![c] = 0]
    /\ UNCHANGED <<ledgerVars, conn, cursor, rendered, failures, oldest, hasMore,
                   streamVars, faults, historyVars>>

-----------------------------------------------------------------------------
(* The generator behind an open stream. *)

\* The replay query, from the `since` the tab connected with.
Query(c) ==
    /\ phase[c] = "query"
    /\ replay' = [replay EXCEPT ![c] = RowsAfter(cursor[c], ReplayLimit)]
    /\ phase' = [phase EXCEPT ![c] = "frames"]
    /\ UNCHANGED <<ledgerVars, browserVars, queue, zombies, faults, historyVars>>

\* One replayed row reaches the tab.
Frame(c) ==
    /\ phase[c] = "frames"
    /\ \E r \in replay[c] :
        /\ \A x \in replay[c] : r <= x
        /\ Push(c, {r})
        /\ replay' = [replay EXCEPT ![c] = @ \ {r}]
    /\ UNCHANGED <<ledgerVars, conn, failures, hasMore, asked, phase, queue,
                   zombies, faults, base, skipped>>

Live == {c \in Clients : phase[c] = "live"}

\* Gone tabs whose generator is still subscribed count against the cap.
SlotFree == Cardinality(Live) + zombies < MaxSubs

\* bus.subscribe once the replay is out.  Rows above the cursor whose fan-out
\* is already over (or that have none) will not enter the new queue.
Subscribe(c) ==
    /\ phase[c] = "frames"
    /\ replay[c] = {}
    /\ SlotFree
    /\ phase' = [phase EXCEPT ![c] = "live"]
    /\ skipped' = [skipped EXCEPT ![c] =
                      @ \cup {r \in rows \ pending : r > cursor[c]}]
    /\ UNCHANGED <<ledgerVars, browserVars, replay, queue, zombies, faults, base,
                   jumped>>

\* Faulty variant of Saturated: the tab closes the stream and does not poll.
SaturatedNoPoll(c) ==
    /\ phase[c] = "frames"
    /\ replay[c] = {}
    /\ ~SlotFree
    /\ phase' = [phase EXCEPT ![c] = "none"]
    /\ conn' = [conn EXCEPT ![c] = "stream"]
    /\ UNCHANGED <<ledgerVars, cursor, rendered, failures, oldest, hasMore, asked,
                   replay, queue, zombies, faults, historyVars>>

\* The bus is full: the saturated event sends the tab to polling for good.
Saturated(c) ==
    /\ phase[c] = "frames"
    /\ replay[c] = {}
    /\ ~SlotFree
    /\ phase' = [phase EXCEPT ![c] = "none"]
    /\ conn' = [conn EXCEPT ![c] = "poll"]
    /\ UNCHANGED <<ledgerVars, cursor, rendered, failures, oldest, hasMore, asked,
                   replay, queue, zombies, faults, historyVars>>

Id(n) == IF n \in rows THEN n ELSE 0

\* An event leaves the queue and reaches the tab.
Deliver(c) ==
    /\ phase[c] = "live"
    /\ queue[c] # <<>>
    /\ Push(c, {Id(Head(queue[c]))})
    /\ queue' = [queue EXCEPT ![c] = Tail(@)]
    /\ UNCHANGED <<ledgerVars, conn, failures, hasMore, asked, phase, replay,
                   zombies, faults, base, skipped>>

Elems(s) == {s[i] : i \in DOMAIN s}

\* Recorded events the open stream of c still had to hand over.
Overtaken(c) == (rows \cap (pending \cup Elems(queue[c]))) \ rendered[c]

\* The stream breaks: onerror closes it and what was under way is gone.  The
\* generator keeps its slot until it notices.  An event overtaken by a later
\* one is below the cursor and will not be replayed.
StreamError(c) ==
    /\ conn[c] = "stream"
    /\ Fault
    /\ OnError(c)
    /\ zombies' = IF phase[c] = "live" THEN zombies + 1 ELSE zombies
    /\ phase' = [phase EXCEPT ![c] = "none"]
    /\ replay' = [replay EXCEPT ![c] = {}]
    /\ queue' = [queue EXCEPT ![c] = <<>>]
    /\ skipped' = [skipped EXCEPT ![c] =
                      @ \cup {r \in Overtaken(c) : r <= cursor[c]}]
    /\ UNCHANGED <<ledgerVars, cursor, rendered, oldest, hasMore, asked, base, jumped>>

\* A generator sees that its tab is gone and unsubscribes.
Reap ==
    /\ zombies > 0
    /\ zombies' = zombies - 1
    /\ UNCHANGED <<ledgerVars, browserVars, phase, replay, queue, faults,
                   historyVars>>

-----------------------------------------------------------------------------
Publish ==
    \/ \E broadcast \in Broadcasts : Persist(broadcast)
    \/ PersistFails

\* Steps the scheduling of the event loop, or the tab's timers, will take.
Step(c) ==
    \/ Bootstrap(c) \/ Open(c) \/ Poll(c)
    \/ Query(c) \/ Frame(c) \/ Subscribe(c) \/ Saturated(c) \/ Deliver(c)

Trouble(c) == BootstrapFails(c) \/ AttachFails(c) \/ StreamError(c)

\* The user pages back.
PageBack(c) == AskOlder(c) \/ OlderPage(c) \/ OlderFails(c)

Next ==
    \/ Publish
    \/ \E n \in Events : FanOut(n)
    \/ \E c \in Clients : Step(c) \/ Trouble(c) \/ PageBack(c)
    \/ Reap

Spec == Init /\ [][Next]_vars

\* The event loop resumes every task that can run, a tab's retry and poll
\* timers fire, and a generator notices within a keepalive that its tab is gone.
Fairness ==
    /\ \A n \in Events : WF_vars(FanOut(n))
    /\ \A c \in Clients : WF_vars(Step(c))
    /\ WF_vars(Reap)

FairSpec == Spec /\ Fairness

-----------------------------------------------------------------------------
(* Properties. *)

\* What the open stream of c will still hand over.
OnItsWay(c) == IF phase[c] = "live" THEN pending \cup Elems(queue[c]) ELSE {}

\* Every recorded row between the start of a tab's window and its cursor is on
\* screen, is on its way through the open stream, or is one the server let
\* pass at a known place: before a late subscription, off the end of a full
\* queue, or cut off behind a later event (livebus.py publish, sse.py
\* event_gen).  Reconnecting, polling and falling back lose nothing more.
LossAccounted ==
    \A c \in Clients : \A r \in rows :
        base[c] < r /\ r <= cursor[c]
            => r \in rendered[c] \cup skipped[c] \cup OnItsWay(c)

\* Once "load older" is withdrawn the tab shows the session from its first
\* row to the start of the window it opened with: paging back has skipped
\* nothing, whatever was pushed while a page was on its way (live.svelte.js
\* loadOlder).  Stated for tabs that were pushed no event without an id and none
\* older than all they showed: such an event moves the point the next page is
\* asked from past rows not shown.  It depends on the server's pages being no
\* smaller than the browser takes them to be.
HistoryExhausted ==
    \A c \in Clients \ jumped :
        ~hasMore[c] /\ 0 \notin rendered[c] =>
            \A r \in rows : oldest[c] <= r /\ (r <= base[c] => r \in rendered[c])

\* The feed promised to a tab (Feed.tla): only recorded rows, none forgotten,
\* and a resume point that is the newest row shown.
Promise == INSTANCE Feed WITH
              log  <- rows,
              seen <- [c \in Clients |-> rendered[c] \ {0}],
              mark <- cursor

ImplementsFeed == Promise!FeedSpec

\* When publishing and faults are over, every tab ends up, through whichever
\* of stream and poll it is left with, with every row of its window on screen
\* but those the server let pass.
CaughtUp ==
    <>[](\A c \in Clients : \A r \in rows :
            base[c] < r => r \in rendered[c] \cup skipped[c])

=============================================================================
