--------------------------- MODULE LiveBusProofs ---------------------------
(***************************************************************************)
(* Proofs about LiveBus for any number of tabs, any queue size, any replay *)
(* and poll limits and any number of events and faults: type correctness,  *)
(* LossAccounted, the refinement of Feed and, if a page is as large as     *)
(* "load older" takes it to be, HistoryExhausted.                          *)
(***************************************************************************)
EXTENDS LiveBus, FiniteSetTheorems, WellFoundedInduction, TLAPS

-----------------------------------------------------------------------------
(* The inductive invariant. *)

\* A tab that is not polling has seen at most one failure in a row, and has an
\* open stream exactly when a generator serves it.
ConnShape ==
    \A c \in Clients :
        /\ conn[c] # "poll" => failures[c] <= 1
        /\ conn[c] = "stream" <=> phase[c] # "none"
        /\ phase[c] # "live" => queue[c] = <<>>
        /\ phase[c] # "frames" => replay[c] = {}

\* Before the page-load replay a tab has shown nothing.
BootShape ==
    \A c \in Clients :
        conn[c] = "boot" => cursor[c] = 0 /\ base[c] = 0 /\ rendered[c] = {}

\* What a tab knows never exceeds what was published.
Bounds ==
    \A c \in Clients :
        /\ cursor[c] <= published
        /\ oldest[c] <= cursor[c]
        /\ asked[c] <= cursor[c]
        /\ base[c] <= cursor[c]
        /\ replay[c] \subseteq rows

TypeInv == TypeOK /\ ConnShape /\ BootShape /\ Bounds

\* While a replay is being handed over, every row above the cursor that is not
\* part of it is newer than all of it.
ReplayIsPrefix ==
    \A c \in Clients : phase[c] = "frames" =>
        \A r \in rows : r > cursor[c] /\ r \notin replay[c]
                           => \A x \in replay[c] : x < r

\* While a stream is live, every row above the cursor is on its way or is one
\* the server let pass.
LiveCovered ==
    \A c \in Clients : phase[c] = "live" =>
        \A r \in rows : r > cursor[c]
            => r \in rendered[c] \cup skipped[c] \cup OnItsWay(c)

LossInv == LossAccounted /\ ReplayIsPrefix /\ LiveCovered

-----------------------------------------------------------------------------
(* Least and greatest members. *)

\* Least is what its name says: every nonempty set of naturals has a least
\* member.
LEMMA LeastIsLeast ==
    ASSUME NEW S \in SUBSET Nat, S # {}
    PROVE  Least(S) \in S /\ \A y \in S : Least(S) <= y
<1> DEFINE R == {p \in Nat \X Nat : p[1] < p[2]}
<1>1. R = OpToRel(<, Nat)
  BY DEF OpToRel
<1>2. IsWellFoundedOn(R, Nat)
  BY <1>1, NatLessThanWellFounded
<1>3. \A x, y \in Nat : <<y, x>> \in R <=> y < x
  OBVIOUS
<1> HIDE DEF R
<1>4. PICK x \in S : \A y \in S : ~(<<y, x>> \in R)
  BY WFMin, <1>2
<1>5. \A y \in S : x <= y
  <2> TAKE y \in S
  <2>1. y \in Nat /\ x \in Nat /\ ~(y < x)
    BY <1>3, <1>4
  <2> QED BY <2>1
<1> QED
  BY <1>5 DEF Least

\* A nonempty set of naturals with an upper bound has a greatest member.
LEMMA GreatestExists ==
    ASSUME NEW b \in Nat, NEW S \in SUBSET (0..b), S # {}
    PROVE  \E x \in S : \A y \in S : y <= x
<1> DEFINE T == {b - x : x \in S}
<1>1. T \in SUBSET Nat
  OBVIOUS
<1>2. T # {}
  <2>1. PICK x \in S : TRUE
    OBVIOUS
  <2> QED BY <2>1
<1>3. Least(T) \in T /\ \A u \in T : Least(T) <= u
  BY ONLY <1>1, <1>2, LeastIsLeast
<1>4. PICK x \in S : Least(T) = b - x
  BY <1>3
<1>5. \A y \in S : y <= x
  <2> TAKE y \in S
  <2>1. b - y \in T
    OBVIOUS
  <2>2. x \in Int /\ y \in Int
    OBVIOUS
  <2> HIDE DEF T
  <2>3. b - x <= b - y
    BY <2>1, <1>3, <1>4
  <2> QED BY <2>2, <2>3
<1> QED
  BY <1>5

\* The high-water mark push() leaves: the larger of the cursor and what was
\* pushed.
LEMMA HighWaterIsGreatest ==
    ASSUME NEW b \in Nat, NEW m \in 0..b, NEW S \in SUBSET (0..b)
    PROVE  /\ HighWater(m, S) \in S \cup {m}
           /\ HighWater(m, S) \in m..b
           /\ \A y \in S : y <= HighWater(m, S)
<1> DEFINE T == S \cup {m}
<1>1. T \in SUBSET (0..b) /\ T # {}
  OBVIOUS
<1>2. \E x \in T : \A y \in T : y <= x
  BY <1>1, GreatestExists
<1>3. HighWater(m, S) \in T /\ \A y \in T : y <= HighWater(m, S)
  BY <1>2 DEF HighWater
<1>4. HighWater(m, S) \in 0..b /\ m <= HighWater(m, S)
  BY <1>1, <1>3
<1>5. HighWater(m, S) \in m..b
  BY <1>4
<1> QED
  BY <1>3, <1>5

\* There is only one such mark.
LEMMA HighWaterUnique ==
    ASSUME NEW b \in Nat, NEW m \in 0..b, NEW S \in SUBSET (0..b),
           NEW x \in S \cup {m}, \A y \in S \cup {m} : y <= x
    PROVE  HighWater(m, S) = x
<1>1. /\ HighWater(m, S) \in S \cup {m}
      /\ HighWater(m, S) \in m..b
      /\ \A y \in S : y <= HighWater(m, S)
  BY HighWaterIsGreatest
<1>2. x <= HighWater(m, S) /\ HighWater(m, S) <= x
  BY <1>1
<1>3. x \in Int /\ HighWater(m, S) \in Int
  BY <1>1
<1> QED
  BY <1>2, <1>3

-----------------------------------------------------------------------------
(* The queries, the browser's push() and the queue. *)

\* A replay or poll page is the oldest part of what lies above `since`: it
\* leaves no gap below a row it returns.
LEMMA RowsAfterIsPrefix ==
    ASSUME NEW since \in Nat, NEW limit \in Nat, published \in Nat,
           rows \in SUBSET (1..published)
    PROVE  /\ RowsAfter(since, limit) \subseteq rows
           /\ \A x \in RowsAfter(since, limit) :
                \A r \in rows : since < r /\ r <= x => r \in RowsAfter(since, limit)
<1>1. ASSUME NEW x \in RowsAfter(since, limit), NEW r \in rows,
             since < r, r <= x
      PROVE  r \in RowsAfter(since, limit)
  <2> DEFINE A == {y \in rows : since < y /\ y < r}
             B == {y \in rows : since < y /\ y < x}
  <2>1. x \in rows /\ x \in Int /\ r \in Int
    BY <1>1 DEF RowsAfter
  <2>2. A \in SUBSET B
    <3>1. \A y \in rows : y \in Int
      OBVIOUS
    <3>2. \A y \in A : y \in B
      BY <1>1, <2>1, <3>1
    <3> QED BY <3>2
  <2>3. IsFiniteSet(B) /\ Cardinality(B) \in Nat
    <3>1. IsFiniteSet(1..published)
      BY FS_Interval
    <3>2. IsFiniteSet(B)
      BY <3>1, FS_Subset
    <3> QED BY <3>2, FS_CardinalityType
  <2>4. IsFiniteSet(A) /\ Cardinality(A) <= Cardinality(B)
    BY <2>2, <2>3, FS_Subset
  <2>5. Cardinality(A) \in Nat
    BY <2>4, FS_CardinalityType
  <2>6. Cardinality(B) < limit
    BY <1>1 DEF RowsAfter
  <2>7. Cardinality(A) < limit
    BY <2>3, <2>4, <2>5, <2>6
  <2> QED
    BY <1>1, <2>7 DEF RowsAfter
<1> QED
  BY <1>1 DEF RowsAfter

\* A page of older rows is the newest part of what lies below `before`.
LEMMA RowsBeforeIsSuffix ==
    ASSUME NEW before \in Nat, NEW limit \in Nat, published \in Nat,
           rows \in SUBSET (1..published)
    PROVE  /\ RowsBefore(before, limit) \subseteq rows
           /\ \A x \in RowsBefore(before, limit) : x < before
           /\ \A x \in RowsBefore(before, limit) :
                \A r \in rows : x <= r /\ r < before => r \in RowsBefore(before, limit)
<1>1. ASSUME NEW x \in RowsBefore(before, limit), NEW r \in rows,
             x <= r, r < before
      PROVE  r \in RowsBefore(before, limit)
  <2> DEFINE A == {y \in rows : r < y /\ y < before}
             B == {y \in rows : x < y /\ y < before}
  <2>1. x \in rows /\ x \in Int /\ r \in Int
    BY <1>1 DEF RowsBefore
  <2>2. A \in SUBSET B
    <3>1. \A y \in rows : y \in Int
      OBVIOUS
    <3>2. \A y \in A : y \in B
      BY <1>1, <2>1, <3>1
    <3> QED BY <3>2
  <2>3. IsFiniteSet(B) /\ Cardinality(B) \in Nat
    <3>1. IsFiniteSet(1..published)
      BY FS_Interval
    <3>2. IsFiniteSet(B)
      BY <3>1, FS_Subset
    <3> QED BY <3>2, FS_CardinalityType
  <2>4. IsFiniteSet(A) /\ Cardinality(A) <= Cardinality(B)
    BY <2>2, <2>3, FS_Subset
  <2>5. Cardinality(A) \in Nat
    BY <2>4, FS_CardinalityType
  <2>6. Cardinality(B) < limit
    BY <1>1 DEF RowsBefore
  <2>7. Cardinality(A) < limit
    BY <2>3, <2>4, <2>5, <2>6
  <2> QED
    BY <1>1, <2>7 DEF RowsBefore
<1> QED
  BY <1>1 DEF RowsBefore

\* What push() does to the tab: it shows the ids, and its cursor becomes the
\* largest id it knows; oldestEventId stays at or below the cursor.
LEMMA PushEffect ==
    ASSUME TypeOK, NEW c \in Clients, NEW S \in SUBSET (0..published), Push(c, S),
           cursor[c] <= published, oldest[c] <= cursor[c]
    PROVE  /\ rendered' \in [Clients -> SUBSET Ids]
           /\ rendered' = [rendered EXCEPT ![c] = @ \cup S]
           /\ cursor' \in [Clients -> Ids]
           /\ cursor' = [cursor EXCEPT ![c] = HighWater(cursor[c], S)]
           /\ cursor'[c] \in S \cup {cursor[c]}
           /\ cursor[c] <= cursor'[c] /\ cursor'[c] <= published
           /\ \A y \in S : y <= cursor'[c]
           /\ oldest' \in [Clients -> Ids]
           /\ oldest'[c] <= cursor'[c]
           /\ \A d \in Clients \ {c} : oldest'[d] = oldest[d]
           /\ jumped' \in SUBSET Clients
<1>1. /\ published \in Nat /\ MaxEvents \in Nat /\ published <= MaxEvents
      /\ 0..published \subseteq Ids
      /\ cursor[c] \in 0..published /\ oldest[c] \in Nat
  BY LiveBusAssumption DEF TypeOK, Ids
<1>2. /\ HighWater(cursor[c], S) \in S \cup {cursor[c]}
      /\ HighWater(cursor[c], S) \in cursor[c]..published
      /\ \A y \in S : y <= HighWater(cursor[c], S)
  BY <1>1, HighWaterIsGreatest
<1>3. cursor' = [cursor EXCEPT ![c] = HighWater(cursor[c], S)]
  BY DEF Push
<1>4. /\ cursor' \in [Clients -> Ids] /\ cursor'[c] = HighWater(cursor[c], S)
      /\ cursor[c] <= cursor'[c] /\ cursor'[c] <= published
  BY <1>1, <1>2, <1>3 DEF TypeOK
<1>5. rendered' = [rendered EXCEPT ![c] = @ \cup S]
  BY DEF Push
<1>6. rendered' \in [Clients -> SUBSET Ids]
  BY <1>1, <1>5 DEF TypeOK
<1> DEFINE fresh == S \ rendered[c]
<1>7. oldest' = [oldest EXCEPT ![c] =
                    IF fresh # {} /\ (oldest[c] = 0 \/ Least(fresh) < oldest[c])
                    THEN Least(fresh) ELSE oldest[c]]
  BY DEF Push
<1>8. fresh # {} => Least(fresh) \in S
  BY <1>1, LeastIsLeast
<1>9. oldest'[c] \in S \cup {oldest[c]}
  BY <1>7, <1>8 DEF TypeOK
<1>10. oldest'[c] \in Ids /\ oldest'[c] <= cursor'[c]
  <2>1. \A y \in S \cup {oldest[c]} : y \in Ids /\ y <= cursor'[c]
    <3>1. \A y \in S : y \in Ids /\ y <= cursor'[c]
      BY <1>1, <1>2, <1>4
    <3>2. oldest[c] \in Ids /\ oldest[c] <= cursor'[c]
      BY <1>1, <1>4 DEF TypeOK, Ids
    <3> QED BY <3>1, <3>2
  <2> HIDE DEF fresh
  <2> QED BY <1>9, <2>1
<1>11. oldest' \in [Clients -> Ids]
  <2>1. oldest' = [oldest EXCEPT ![c] = oldest'[c]]
    BY <1>7 DEF TypeOK
  <2> QED BY <1>10, <2>1 DEF TypeOK
<1>12. jumped' \in SUBSET Clients
  BY DEF Push, TypeOK
<1> QED
  BY <1>2, <1>3, <1>4, <1>5, <1>6, <1>7, <1>10, <1>11, <1>12 DEF TypeOK

\* A full queue drops its head and nothing else.
LEMMA OfferEffect ==
    ASSUME NEW q \in Seq(Events), Len(q) <= QueueSize, NEW n \in Events
    PROVE  /\ Offer(q, n) \in Seq(Events)
           /\ Len(Offer(q, n)) <= QueueSize
           /\ n \in Elems(Offer(q, n))
           /\ \A x \in Elems(q) : \/ x \in Elems(Offer(q, n))
                                  \/ Len(q) = QueueSize /\ x = Head(q)
<1>1. QueueSize \in Nat \ {0}
  BY LiveBusAssumption
<1>2. CASE Len(q) < QueueSize
  <2>1. /\ Offer(q, n) = Append(q, n)
        /\ Append(q, n) \in Seq(Events)
        /\ Len(Append(q, n)) = Len(q) + 1
        /\ Append(q, n)[Len(q) + 1] = n
        /\ \A i \in 1..Len(q) : Append(q, n)[i] = q[i]
    BY <1>2 DEF Offer
  <2>2. \A i \in 1..Len(q) : q[i] \in Elems(Offer(q, n))
    BY <2>1 DEF Elems
  <2> QED
    BY <1>1, <1>2, <2>1, <2>2 DEF Elems
<1>3. CASE Len(q) = QueueSize
  <2>1. /\ q # <<>> /\ Tail(q) \in Seq(Events)
        /\ Len(Tail(q)) = Len(q) - 1
        /\ \A i \in 1..Len(Tail(q)) : Tail(q)[i] = q[i + 1]
    BY <1>1, <1>3
  <2>2. Offer(q, n) = Append(Tail(q), n)
    BY <1>3 DEF Offer
  <2>3. /\ Offer(q, n) \in Seq(Events)
        /\ Len(Offer(q, n)) = Len(q)
        /\ Offer(q, n)[Len(q)] = n
        /\ \A i \in 1..(Len(q) - 1) : Offer(q, n)[i] = q[i + 1]
    BY <1>1, <1>3, <2>1, <2>2
  <2>4. \A i \in 1..Len(q) : i = 1 \/ q[i] = Offer(q, n)[i - 1]
    BY <1>1, <1>3, <2>3
  <2>5. \A i \in 1..Len(q) : q[i] = Head(q) \/ q[i] \in Elems(Offer(q, n))
    BY <1>1, <1>3, <2>3, <2>4 DEF Elems
  <2> QED
    BY <1>1, <1>3, <2>3, <2>5 DEF Elems
<1> QED
  BY <1>1, <1>2, <1>3

-----------------------------------------------------------------------------
(* Type correctness. *)

LEMMA TypeInit == Init => TypeInv
  BY LiveBusAssumption DEF Init, TypeInv, TypeOK, ConnShape, BootShape, Bounds, Ids

\* The three facts a step of a tab needs about the pages it is handed: the
\* rows, or the id 0 of an event whose insert failed.
LEMMA PageTypes ==
    ASSUME TypeInv, NEW c \in Clients
    PROVE  /\ rows \subseteq Events /\ rows \subseteq 1..published
           /\ published \in Nat /\ 0..published \subseteq Ids
           /\ cursor[c] \in Nat /\ cursor[c] <= published
           /\ oldest[c] \in Nat /\ oldest[c] <= cursor[c]
           /\ RowsAfter(cursor[c], PollLimit) \subseteq rows
           /\ RowsAfter(cursor[c], ReplayLimit) \subseteq rows
           /\ asked[c] \in Nat /\ asked[c] <= cursor[c]
           /\ base[c] \in Nat /\ base[c] <= cursor[c]
           /\ RowsBefore(asked[c], ReplayLimit) \subseteq rows
           /\ RowsRecent(ReplayLimit) \subseteq rows
           /\ \A n \in Events : Id(n) \in rows \cup {0}
<1>1. /\ published \in Nat /\ MaxEvents \in Nat /\ published <= MaxEvents
      /\ rows \subseteq 1..published
      /\ cursor[c] \in Nat /\ cursor[c] <= published
      /\ oldest[c] \in Nat /\ oldest[c] <= cursor[c]
      /\ asked[c] \in Nat /\ asked[c] <= cursor[c]
      /\ base[c] \in Nat /\ base[c] <= cursor[c]
  BY LiveBusAssumption DEF TypeInv, TypeOK, Bounds, Ids
<1>2. rows \subseteq Events /\ 0..published \subseteq Ids
  BY <1>1 DEF Events, Ids
<1>3. \A n \in Events : Id(n) \in rows \cup {0}
  BY DEF Id
<1> QED
  BY <1>1, <1>2, <1>3 DEF RowsAfter, RowsBefore, RowsRecent

\* onerror leaves the tab reattaching after a first failure, polling after a
\* second.
LEMMA OnErrorEffect ==
    ASSUME TypeInv, NEW c \in Clients, conn[c] \in {"attach", "stream"}, OnError(c)
    PROVE  \E k \in {"attach", "poll"}, f \in 1..2 :
              /\ conn' = [conn EXCEPT ![c] = k]
              /\ failures' = [failures EXCEPT ![c] = f]
              /\ k # "poll" => f <= 1
<1>1. failures[c] \in 0..1
  <2>1. conn[c] # "poll"
    OBVIOUS
  <2>2. failures[c] \in 0..2 /\ failures[c] <= 1
    BY <2>1 DEF TypeInv, TypeOK, ConnShape
  <2> QED BY <2>2
<1>2. CASE failures[c] = 0
  <2>1. conn' = [conn EXCEPT ![c] = "attach"] /\ failures' = [failures EXCEPT ![c] = 1]
    BY <1>2 DEF OnError
  <2> QED BY <2>1
<1>3. CASE failures[c] = 1
  <2>1. conn' = [conn EXCEPT ![c] = "poll"] /\ failures' = [failures EXCEPT ![c] = 2]
    BY <1>3 DEF OnError
  <2> QED BY <2>1
<1> QED
  BY <1>1, <1>2, <1>3

\* A push that leaves the connection alone preserves the type invariant,
\* whatever it does to the replay and the queue of its stream.
LEMMA PushPreserves ==
    ASSUME TypeInv, NEW c \in Clients, NEW S \in SUBSET (0..published), Push(c, S),
           conn[c] # "boot",
           UNCHANGED <<published, rows, pending, conn, failures, hasMore, asked,
                       phase, zombies, faults, base, skipped>>,
           replay' \in [Clients -> SUBSET Events],
           \A d \in Clients : replay'[d] \subseteq replay[d],
           queue' \in [Clients -> Seq(Events)],
           \A d \in Clients : Len(queue'[d]) <= QueueSize,
           \A d \in Clients : phase[d] # "live" => queue'[d] = queue[d]
    PROVE  TypeInv'
<1>1. TypeOK /\ ConnShape /\ BootShape /\ Bounds
  BY DEF TypeInv
<1>2. /\ rendered' \in [Clients -> SUBSET Ids]
      /\ rendered' = [rendered EXCEPT ![c] = @ \cup S]
      /\ cursor' \in [Clients -> Ids]
      /\ cursor' = [cursor EXCEPT ![c] = HighWater(cursor[c], S)]
      /\ cursor[c] <= cursor'[c] /\ cursor'[c] <= published
      /\ oldest' \in [Clients -> Ids] /\ oldest'[c] <= cursor'[c]
      /\ \A d \in Clients \ {c} : oldest'[d] = oldest[d]
      /\ jumped' \in SUBSET Clients
  BY <1>1, PushEffect DEF Bounds
<1>3. TypeOK'
  BY <1>1, <1>2 DEF TypeOK
<1>4. ConnShape' /\ BootShape'
  BY <1>1, <1>2 DEF TypeOK, ConnShape, BootShape
<1>5. Bounds'
  <2>1. /\ asked[c] \in Nat /\ base[c] \in Nat /\ cursor[c] \in Nat
        /\ cursor'[c] \in Nat /\ asked[c] <= cursor[c] /\ base[c] <= cursor[c]
    BY <1>2, PageTypes DEF Ids
  <2>2. asked'[c] <= cursor'[c] /\ base'[c] <= cursor'[c]
    BY <1>2, <2>1
  <2>3. \A d \in Clients \ {c} : cursor'[d] = cursor[d]
    BY <1>1, <1>2 DEF TypeOK
  <2>4. /\ cursor'[c] <= published' /\ oldest'[c] <= cursor'[c]
        /\ replay'[c] \subseteq rows'
    BY <1>1, <1>2 DEF Bounds
  <2>5. \A d \in Clients \ {c} :
            /\ cursor'[d] <= published' /\ oldest'[d] <= cursor'[d]
            /\ asked'[d] <= cursor'[d] /\ base'[d] <= cursor'[d]
            /\ replay'[d] \subseteq rows'
    BY <1>1, <1>2, <2>3 DEF Bounds
  <2> QED BY <2>2, <2>4, <2>5 DEF Bounds
<1> QED
  BY <1>3, <1>4, <1>5 DEF TypeInv

LEMMA TypeStep == TypeInv /\ [Next]_vars => TypeInv'
<1> SUFFICES ASSUME TypeInv, [Next]_vars
             PROVE  TypeInv'
  OBVIOUS
<1>0. TypeOK /\ ConnShape /\ BootShape /\ Bounds
  BY DEF TypeInv
<1>a. /\ published \in Nat /\ MaxEvents \in Nat /\ MaxFaults \in Nat
      /\ QueueSize \in Nat \ {0}
  BY <1>0, LiveBusAssumption DEF TypeOK, Ids
<1>1. ASSUME NEW broadcast \in Broadcasts, Persist(broadcast)
      PROVE  TypeInv'
  <2>1. published' = published + 1 /\ published' \in Ids /\ published' \in Events
    BY <1>1, <1>a DEF Persist, Ids, Events
  <2>2. 1..published \subseteq 1..published' /\ published' \in 1..published'
    BY <1>a, <2>1
  <2>3. TypeOK'
    <3>1. rows' \in SUBSET (1..published') /\ pending' \in SUBSET (1..published')
      BY <1>0, <1>1, <2>1, <2>2 DEF TypeOK, Persist
    <3>2. skipped' \in [Clients -> SUBSET Events]
      <4>1. CASE broadcast
        BY <1>0, <1>1, <4>1 DEF TypeOK, Persist
      <4>2. CASE ~broadcast
        <5>1. skipped' = [c \in Clients |-> IF phase[c] = "live"
                                            THEN skipped[c] \cup {published'}
                                            ELSE skipped[c]]
          BY <1>1, <4>2 DEF Persist
        <5>2. \A c \in Clients : skipped[c] \cup {published'} \subseteq Events
          BY <1>0, <2>1 DEF TypeOK
        <5> QED BY <1>0, <5>1, <5>2 DEF TypeOK
      <4> QED BY <4>1, <4>2
    <3> QED
      BY <1>0, <1>1, <2>1, <3>1, <3>2 DEF TypeOK, Persist, browserVars, streamVars
  <2>4. ConnShape' /\ BootShape'
    BY <1>0, <1>1 DEF ConnShape, BootShape, Persist, browserVars, streamVars
  <2>5. Bounds'
    BY <1>0, <1>1, <1>a, <2>1 DEF Bounds, TypeOK, Ids, Persist, browserVars, streamVars
  <2> QED BY <2>3, <2>4, <2>5 DEF TypeInv
<1>2. ASSUME PersistFails PROVE TypeInv'
  <2>1. published' = published + 1 /\ published' \in Ids /\ published' \in Events
    BY <1>2, <1>a DEF PersistFails, Ids, Events
  <2>2. 1..published \subseteq 1..published' /\ published' \in 1..published'
    BY <1>a, <2>1
  <2>3. TypeOK'
    BY <1>0, <1>2, <1>a, <2>1, <2>2
       DEF TypeOK, PersistFails, Fault, browserVars, streamVars, historyVars
  <2>4. ConnShape' /\ BootShape'
    BY <1>0, <1>2
       DEF ConnShape, BootShape, PersistFails, browserVars, streamVars, historyVars
  <2>5. Bounds'
    BY <1>0, <1>2, <1>a, <2>1
       DEF Bounds, TypeOK, Ids, PersistFails, browserVars, streamVars, historyVars
  <2> QED BY <2>3, <2>4, <2>5 DEF TypeInv
<1>3. ASSUME NEW n \in Events, FanOut(n) PROVE TypeInv'
  <2>1. \A c \in Clients :
            /\ queue'[c] \in Seq(Events)
            /\ Len(queue'[c]) <= QueueSize
            /\ phase[c] # "live" => queue'[c] = queue[c]
    BY <1>0, <1>3, OfferEffect DEF FanOut, TypeOK
  <2>2. \A c \in Clients : skipped'[c] \in SUBSET Events
    BY <1>0, <1>3, <1>a DEF FanOut, TypeOK
  <2>3. queue' \in [Clients -> Seq(Events)] /\ skipped' \in [Clients -> SUBSET Events]
    <3>1. /\ queue' = [c \in Clients |-> queue'[c]]
          /\ skipped' = [c \in Clients |-> skipped'[c]]
      BY <1>3 DEF FanOut
    <3> QED BY <2>1, <2>2, <3>1
  <2>4. TypeOK'
    <3>1. /\ pending' \subseteq pending
          /\ UNCHANGED <<published, rows, conn, cursor, rendered, failures,
                         oldest, hasMore, asked, phase, replay, zombies, faults,
                         base, jumped>>
      BY <1>3 DEF FanOut, browserVars
    <3>2. \A c \in Clients : Len(queue'[c]) <= QueueSize
      BY <2>1
    <3>3. pending' \in SUBSET (1..published')
      BY <1>0, <3>1 DEF TypeOK
    <3> QED BY <1>0, <2>3, <3>1, <3>2, <3>3 DEF TypeOK
  <2>5. ConnShape' /\ BootShape' /\ Bounds'
    BY <1>0, <1>3, <2>1 DEF FanOut, ConnShape, BootShape, Bounds, browserVars
  <2> QED BY <2>4, <2>5 DEF TypeInv
<1>4. ASSUME NEW c \in Clients, Bootstrap(c) PROVE TypeInv'
  <2> DEFINE tail == RowsRecent(ReplayLimit)
  <2>1. tail \in SUBSET (0..published) /\ tail \in SUBSET Nat /\ 0 \notin tail
    BY PageTypes
  <2>2. Push(c, tail) /\ conn[c] = "boot" /\ phase[c] = "none"
    BY <1>0, <1>4 DEF Bootstrap, ConnShape
  <2>3. cursor[c] <= published /\ oldest[c] <= cursor[c] /\ rows \subseteq Events
    BY PageTypes
  <2> HIDE DEF tail
  <2>4. /\ rendered' \in [Clients -> SUBSET Ids]
        /\ rendered' = [rendered EXCEPT ![c] = @ \cup tail]
        /\ cursor' \in [Clients -> Ids]
        /\ cursor' = [cursor EXCEPT ![c] = HighWater(cursor[c], tail)]
        /\ cursor'[c] <= published
        /\ oldest' \in [Clients -> Ids] /\ oldest'[c] <= cursor'[c]
        /\ \A d \in Clients \ {c} : oldest'[d] = oldest[d]
        /\ cursor[c] <= cursor'[c] /\ \A x \in tail : x <= cursor'[c]
        /\ jumped' \in SUBSET Clients
    BY <1>0, <2>1, <2>2, <2>3, PushEffect
  <2>5. base' \in [Clients -> Ids]
    <3>1. tail # {} => Least(tail) \in tail
      BY <2>1, LeastIsLeast
    <3>2. \A x \in tail : x - 1 \in Ids
      BY <1>0, <1>a, <2>1 DEF TypeOK, Ids
    <3>3. (IF tail = {} THEN 0 ELSE Least(tail) - 1) \in Ids
      BY <1>a, <3>1, <3>2 DEF Ids
    <3> QED BY <1>0, <1>4, <3>3 DEF Bootstrap, TypeOK, tail
  <2>6. TypeOK'
    BY <1>0, <1>4, <2>4, <2>5 DEF Bootstrap, TypeOK, ledgerVars, streamVars
  <2>7. ConnShape' /\ BootShape'
    BY <1>0, <1>4, <2>2, <2>4
       DEF Bootstrap, TypeOK, ConnShape, BootShape, ledgerVars, streamVars
  <2>8. Bounds'
    <3>1. base'[c] <= cursor'[c]
      <4>1. cursor'[c] \in Nat
        BY <2>4 DEF Ids
      <4>2. base'[c] = IF tail = {} THEN 0 ELSE Least(tail) - 1
        BY <1>0, <1>4 DEF Bootstrap, TypeOK, tail
      <4>3. tail # {} => Least(tail) \in tail
        BY <2>1, LeastIsLeast
      <4>4. \A x \in tail : x \in Nat /\ x <= cursor'[c]
        BY <2>1, <2>4
      <4> QED BY <4>1, <4>2, <4>3, <4>4
    <3>2. asked'[c] <= cursor'[c]
      <4>1. /\ asked' = asked /\ asked[c] \in Nat /\ cursor[c] \in Nat
            /\ asked[c] <= cursor[c] /\ cursor'[c] \in Nat
        BY <1>4, <2>4, PageTypes DEF Bootstrap, Ids
      <4> QED BY <2>4, <4>1
    <3>3. \A d \in Clients \ {c} :
              /\ cursor'[d] = cursor[d] /\ base'[d] = base[d]
              /\ asked'[d] = asked[d]
      BY <1>0, <1>4, <2>4 DEF Bootstrap, TypeOK
    <3> QED BY <1>0, <1>4, <2>4, <3>1, <3>2, <3>3
         DEF Bootstrap, TypeOK, Bounds, ledgerVars, streamVars
  <2> QED BY <2>6, <2>7, <2>8 DEF TypeInv
<1>5. ASSUME NEW c \in Clients, BootstrapFails(c) PROVE TypeInv'
  BY <1>0, <1>5, <1>a DEF BootstrapFails, Fault, TypeInv, TypeOK, ConnShape,
     BootShape, Bounds, ledgerVars, streamVars, historyVars
<1>6. ASSUME NEW c \in Clients, Open(c) PROVE TypeInv'
  BY <1>0, <1>6, <1>a DEF Open, TypeInv, TypeOK, ConnShape,
     BootShape, Bounds, ledgerVars, historyVars
<1>7. ASSUME NEW c \in Clients, AttachFails(c) PROVE TypeInv'
  <2>1. PICK k \in {"attach", "poll"}, f \in 1..2 :
            /\ conn' = [conn EXCEPT ![c] = k]
            /\ failures' = [failures EXCEPT ![c] = f]
            /\ k # "poll" => f <= 1
    BY <1>7, OnErrorEffect DEF AttachFails
  <2>2. /\ conn[c] = "attach" /\ Fault
        /\ UNCHANGED <<ledgerVars, cursor, rendered, oldest, hasMore, asked,
                       streamVars, historyVars>>
    BY <1>7 DEF AttachFails
  <2> QED
    BY <1>0, <1>a, <2>1, <2>2 DEF Fault, TypeInv, TypeOK, ConnShape,
       BootShape, Bounds, ledgerVars, streamVars, historyVars
<1>8. ASSUME NEW c \in Clients, Query(c) PROVE TypeInv'
  <2>1. RowsAfter(cursor[c], ReplayLimit) \subseteq rows /\ rows \subseteq Events
    BY PageTypes
  <2> QED
    BY <1>0, <1>8, <2>1 DEF Query, TypeInv, TypeOK, ConnShape,
       BootShape, Bounds, ledgerVars, browserVars, historyVars
<1>9. ASSUME NEW c \in Clients, Subscribe(c) PROVE TypeInv'
  <2>1. rows \subseteq Events
    BY PageTypes
  <2> QED
    BY <1>0, <1>9, <2>1 DEF Subscribe, TypeInv, TypeOK, ConnShape,
       BootShape, Bounds, ledgerVars, browserVars, historyVars
<1>10. ASSUME NEW c \in Clients, Saturated(c) PROVE TypeInv'
  BY <1>0, <1>10 DEF Saturated, TypeInv, TypeOK, ConnShape,
     BootShape, Bounds, ledgerVars, historyVars
<1>11. ASSUME Reap PROVE TypeInv'
  BY <1>0, <1>11 DEF Reap, TypeInv, TypeOK, ConnShape,
     BootShape, Bounds, ledgerVars, browserVars, historyVars
<1>12. ASSUME NEW c \in Clients, StreamError(c) PROVE TypeInv'
  <2>1. rows \subseteq Events
    BY PageTypes
  <2>2. Overtaken(c) \subseteq Events
    BY <2>1 DEF Overtaken
  <2>3. PICK k \in {"attach", "poll"}, f \in 1..2 :
            /\ conn' = [conn EXCEPT ![c] = k]
            /\ failures' = [failures EXCEPT ![c] = f]
            /\ k # "poll" => f <= 1
    BY <1>12, OnErrorEffect DEF StreamError
  <2>4. /\ conn[c] = "stream" /\ Fault
        /\ phase' = [phase EXCEPT ![c] = "none"]
        /\ replay' = [replay EXCEPT ![c] = {}]
        /\ queue' = [queue EXCEPT ![c] = <<>>]
        /\ zombies' \in Nat
        /\ skipped' \in [Clients -> SUBSET Events]
        /\ UNCHANGED <<ledgerVars, cursor, rendered, oldest, hasMore, asked, base,
                       jumped>>
    BY <1>0, <1>12, <2>2 DEF StreamError, TypeOK
  <2>5. TypeOK'
    BY <1>0, <1>a, <2>3, <2>4 DEF Fault, TypeOK, ledgerVars
  <2>6. ConnShape'
    BY <1>0, <2>3, <2>4 DEF TypeOK, ConnShape
  <2>7. BootShape' /\ Bounds'
    BY <1>0, <2>3, <2>4 DEF TypeOK, BootShape, Bounds, ledgerVars
  <2> QED BY <2>5, <2>6, <2>7 DEF TypeInv
<1>13. ASSUME NEW c \in Clients, Poll(c) PROVE TypeInv'
  <2> DEFINE S == RowsAfter(cursor[c], PollLimit)
  <2>1. S \subseteq 0..published /\ conn[c] = "poll" /\ Push(c, S)
        /\ UNCHANGED <<ledgerVars, conn, failures, hasMore, asked, streamVars,
                       faults, base, skipped>>
    BY <1>13, PageTypes DEF Poll
  <2> HIDE DEF S
  <2>2. /\ replay' \in [Clients -> SUBSET Events] /\ queue' \in [Clients -> Seq(Events)]
        /\ \A d \in Clients : Len(queue'[d]) <= QueueSize
        /\ replay' = replay /\ queue' = queue
    BY <1>0, <2>1 DEF TypeOK, streamVars
  <2> QED BY <2>1, <2>2, PushPreserves
       DEF ledgerVars, streamVars, historyVars
<1>14. ASSUME NEW c \in Clients, Frame(c) PROVE TypeInv'
  <2>1. PICK r \in replay[c] : /\ Push(c, {r})
                               /\ replay' = [replay EXCEPT ![c] = @ \ {r}]
    BY <1>14 DEF Frame
  <2>2. {r} \subseteq 0..published /\ conn[c] = "stream"
    BY <1>0, <1>14, PageTypes DEF Frame, Bounds, ConnShape
  <2>3. UNCHANGED <<ledgerVars, conn, failures, hasMore, asked, phase, queue,
                    zombies, faults, base, skipped>>
    BY <1>14 DEF Frame
  <2>4. /\ replay' \in [Clients -> SUBSET Events]
        /\ \A d \in Clients : replay'[d] \subseteq replay[d]
    BY <1>0, <2>1 DEF TypeOK
  <2> QED BY <1>0, <2>1, <2>2, <2>3, <2>4, PushPreserves
       DEF TypeOK, ledgerVars, historyVars
<1>15. ASSUME NEW c \in Clients, Deliver(c) PROVE TypeInv'
  <2> DEFINE S == {Id(Head(queue[c]))}
  <2>1. /\ queue[c] \in Seq(Events) /\ queue[c] # <<>>
        /\ phase[c] = "live" /\ conn[c] = "stream" /\ Push(c, S)
        /\ queue' = [queue EXCEPT ![c] = Tail(@)]
        /\ UNCHANGED <<ledgerVars, conn, failures, hasMore, asked, phase, replay,
                       zombies, faults, base, skipped>>
    BY <1>0, <1>15 DEF Deliver, TypeOK, ConnShape
  <2>2. /\ Head(queue[c]) \in Events /\ Tail(queue[c]) \in Seq(Events)
        /\ Len(Tail(queue[c])) <= Len(queue[c])
    BY <2>1
  <2>3. S \subseteq 0..published
    BY <2>2, PageTypes
  <2>4. /\ queue' \in [Clients -> Seq(Events)]
        /\ \A d \in Clients : Len(queue'[d]) <= QueueSize
        /\ \A d \in Clients : phase[d] # "live" => queue'[d] = queue[d]
    <3>1. Len(queue[c]) <= QueueSize /\ Len(Tail(queue[c])) <= QueueSize
      BY <1>0, <1>a, <2>1, <2>2 DEF TypeOK
    <3> QED BY <1>0, <2>1, <2>2, <3>1 DEF TypeOK
  <2> HIDE DEF S
  <2> QED BY <1>0, <2>1, <2>3, <2>4, PushPreserves
       DEF TypeOK, ledgerVars, historyVars
<1>16. ASSUME NEW c \in Clients, OlderPage(c) PROVE TypeInv'
  <2> DEFINE fresh == RowsBefore(asked[c], ReplayLimit) \ rendered[c]
  <2>1. fresh \subseteq rows /\ rows \subseteq 0..published /\ rows \subseteq Ids
        /\ \A x \in fresh : x \in Nat /\ x < asked[c]
    BY PageTypes DEF RowsBefore
  <2>2. fresh # {} => Least(fresh) \in fresh
    BY <2>1, LeastIsLeast
  <2>3. /\ rendered' = [rendered EXCEPT ![c] = @ \cup fresh]
        /\ oldest' = [oldest EXCEPT ![c] = IF fresh = {} THEN @ ELSE Least(fresh)]
        /\ hasMore' \in [Clients -> BOOLEAN]
        /\ asked' = [asked EXCEPT ![c] = 0]
        /\ UNCHANGED <<ledgerVars, conn, cursor, failures, streamVars, faults,
                       historyVars>>
    BY <1>0, <1>16 DEF OlderPage, TypeOK
  <2>4. conn[c] # "boot"
    <3>1. asked[c] # 0 /\ asked[c] \in Nat /\ asked[c] <= cursor[c]
      BY <1>16, PageTypes DEF OlderPage
    <3>2. cursor[c] # 0
      BY <3>1
    <3> QED BY <1>0, <3>2 DEF BootShape
  <2> HIDE DEF fresh
  <2>5. rendered' \in [Clients -> SUBSET Ids] /\ asked' \in [Clients -> Ids]
    <3>1. 0 \in Ids
      BY <1>a DEF Ids
    <3> QED BY <1>0, <2>1, <2>3, <3>1 DEF TypeOK
  <2>6. oldest' \in [Clients -> Ids] /\ oldest'[c] <= cursor[c]
        /\ \A d \in Clients \ {c} : oldest'[d] = oldest[d]
    <3>1. PICK k \in Ids : k <= cursor[c] /\ oldest' = [oldest EXCEPT ![c] = k]
      <4>1. oldest[c] \in Ids /\ cursor[c] \in Nat /\ oldest[c] \in Nat
            /\ oldest[c] <= cursor[c] /\ asked[c] \in Nat /\ asked[c] <= cursor[c]
        BY <1>0, PageTypes DEF TypeOK
      <4>2. \A x \in fresh : x \in Ids /\ x <= cursor[c]
        BY <2>1, <4>1
      <4>3. CASE fresh = {}
        BY <2>3, <4>1, <4>3
      <4>4. CASE fresh # {}
        BY <2>2, <2>3, <4>2, <4>4
      <4> QED BY <4>3, <4>4
    <3> QED BY <1>0, <3>1 DEF TypeOK
  <2>7. TypeOK'
    BY <1>0, <2>3, <2>5, <2>6 DEF TypeOK, ledgerVars, streamVars, historyVars
  <2>8. ConnShape' /\ BootShape'
    BY <1>0, <2>3, <2>4, <2>6 DEF TypeOK, ConnShape, BootShape, ledgerVars,
       streamVars, historyVars
  <2>9. Bounds'
    <3>1. 0 <= cursor[c] /\ asked'[c] = 0
          /\ \A d \in Clients \ {c} : asked'[d] = asked[d]
      BY <1>0, <2>3, PageTypes DEF TypeOK
    <3> QED BY <1>0, <2>3, <2>6, <3>1 DEF TypeOK, Bounds, ledgerVars, streamVars,
         historyVars
  <2> QED BY <2>7, <2>8, <2>9 DEF TypeInv
<1>18. ASSUME NEW c \in Clients, AskOlder(c) \/ OlderFails(c) PROVE TypeInv'
  <2>1. PICK k \in {0, oldest[c]} : asked' = [asked EXCEPT ![c] = k]
    BY <1>18 DEF AskOlder, OlderFails
  <2>2. k \in Ids /\ k <= cursor[c]
    <3>1. oldest[c] \in Ids /\ 0 \in Ids /\ cursor[c] \in Nat
          /\ oldest[c] <= cursor[c]
      BY <1>0, <1>a, PageTypes DEF TypeOK, Ids
    <3> QED BY <3>1
  <2>3. UNCHANGED <<ledgerVars, conn, cursor, rendered, failures, oldest, hasMore,
                    streamVars, faults, historyVars>>
    BY <1>18 DEF AskOlder, OlderFails
  <2> QED BY <1>0, <2>1, <2>2, <2>3 DEF TypeInv, TypeOK, ConnShape, BootShape,
       Bounds, ledgerVars, streamVars, historyVars
<1>17. CASE UNCHANGED vars
  BY <1>0, <1>17 DEF vars, TypeInv, TypeOK, ConnShape, BootShape, Bounds,
     ledgerVars, browserVars, streamVars, historyVars
<1> QED
  BY <1>1, <1>2, <1>3, <1>4, <1>5, <1>6, <1>7, <1>8, <1>9, <1>10, <1>11, <1>12,
     <1>13, <1>14, <1>15, <1>16, <1>17, <1>18
     DEF Next, Publish, Step, Trouble, PageBack

\* Every reachable state is well typed: no queue outgrows QueueSize, no row id
\* runs ahead of what was published, and no tab collects a third failure in a
\* row (livebus.py, sse.py, live.svelte.js).
THEOREM TypeCorrect == Spec => []TypeOK
<1>1. Spec => []TypeInv
  BY TypeInit, TypeStep, PTL DEF Spec
<1>2. TypeInv => TypeOK
  BY DEF TypeInv
<1> QED
  BY <1>1, <1>2, PTL

-----------------------------------------------------------------------------
(* No row is lost unaccounted for. *)

LEMMA LossInit == Init => LossInv
  BY DEF Init, LossInv, LossAccounted, ReplayIsPrefix, LiveCovered

\* What LossInv says of one tab: the row r is on screen, passed or on its way
\* whenever the tab's window and cursor include it, or its stream is live.
Covered(c, r) == r \in rendered[c] \cup skipped[c] \cup OnItsWay(c)

\* The clauses of LossInv for one tab.
LossOf(c) ==
    /\ \A r \in rows : base[c] < r /\ r <= cursor[c] => Covered(c, r)
    /\ phase[c] = "frames" =>
          \A r \in rows : r > cursor[c] /\ r \notin replay[c]
                             => \A x \in replay[c] : x < r
    /\ phase[c] = "live" => \A r \in rows : r > cursor[c] => Covered(c, r)

LEMMA LossInvSplit == LossInv <=> \A c \in Clients : LossOf(c)
  BY DEF LossInv, LossAccounted, ReplayIsPrefix, LiveCovered, LossOf, Covered

\* The state LossOf(c) is about.
tabVars(c) == <<rows, rendered[c], skipped[c], base[c], cursor[c], phase[c],
                replay[c], OnItsWay(c)>>

LEMMA LossOfUnchanged ==
    ASSUME NEW c \in Clients, LossOf(c), UNCHANGED tabVars(c)
    PROVE  LossOf(c)'
  BY DEF LossOf, Covered, tabVars

LEMMA LossPublish ==
    ASSUME TypeInv, LossInv, Publish \/ \E n \in Events : FanOut(n)
    PROVE  LossInv'
<1> SUFFICES ASSUME NEW c \in Clients PROVE LossOf(c)'
  <2>1. (\A c \in Clients : LossOf(c)') => LossInv'
    BY DEF LossInv, LossAccounted, ReplayIsPrefix, LiveCovered, LossOf, Covered
  <2> QED BY <2>1
<1>0. LossOf(c)
  BY LossInvSplit
<1>a. /\ published \in Nat /\ rows \subseteq 1..published
      /\ cursor[c] \in Nat /\ cursor[c] <= published /\ base[c] \in Nat
      /\ replay[c] \subseteq rows
      /\ skipped \in [Clients -> SUBSET Events]
      /\ queue[c] \in Seq(Events) /\ Len(queue[c]) <= QueueSize
  BY LiveBusAssumption DEF TypeInv, TypeOK, Bounds, Ids
<1>1. ASSUME NEW broadcast \in Broadcasts, Persist(broadcast) PROVE LossOf(c)'
  <2>0. PICK n : n = published + 1
    OBVIOUS
  <2>1. /\ rows' = rows \cup {n}
        /\ rendered' = rendered /\ base' = base /\ cursor' = cursor
        /\ phase' = phase /\ replay' = replay /\ queue' = queue
    BY <1>1, <2>0 DEF Persist, browserVars, streamVars
  <2>2. /\ skipped[c] \subseteq skipped'[c]
        /\ OnItsWay(c) \subseteq OnItsWay(c)'
        /\ phase[c] = "live" => n \in skipped'[c] \cup OnItsWay(c)'
    <3>1. CASE broadcast
      <4>1. skipped' = skipped /\ pending' = pending \cup {n}
        BY <1>1, <2>0, <3>1 DEF Persist
      <4> QED BY <2>1, <4>1 DEF OnItsWay
    <3>2. CASE ~broadcast
      <4>1. /\ pending' = pending
            /\ skipped' = [d \in Clients |-> IF phase[d] = "live"
                                             THEN skipped[d] \cup {n}
                                             ELSE skipped[d]]
        BY <1>1, <2>0, <3>2 DEF Persist
      <4> QED BY <2>1, <4>1 DEF OnItsWay
    <3> QED BY <3>1, <3>2
  <2>3. \A r \in rows : Covered(c, r) => Covered(c, r)'
    BY <2>1, <2>2 DEF Covered
  <2>4. ~(n <= cursor[c])
    BY <1>a, <2>0
  <2>6. \A x \in replay[c] : x < n
    <3>1. \A x \in 1..published : x < n
      BY <1>a, <2>0
    <3>2. replay[c] \subseteq 1..published
      BY <1>a
    <3> QED BY <3>1, <3>2
  <2>5. phase[c] = "live" => Covered(c, n)'
    BY <2>2 DEF Covered
  <2> QED BY <1>0, <2>1, <2>3, <2>4, <2>6, <2>5 DEF LossOf
<1>2. ASSUME PersistFails PROVE LossOf(c)'
  <2>1. /\ UNCHANGED <<rows, rendered, skipped, base, cursor, phase, replay, queue>>
        /\ pending \subseteq pending'
    BY <1>2 DEF PersistFails, browserVars, streamVars, historyVars
  <2>2. \A r \in rows : Covered(c, r) => Covered(c, r)'
    BY <2>1 DEF Covered, OnItsWay
  <2> QED BY <1>0, <2>1, <2>2 DEF LossOf
<1>3. ASSUME NEW n \in Events, FanOut(n) PROVE LossOf(c)'
  <2>1. UNCHANGED <<rows, rendered, base, cursor, phase, replay>>
    BY <1>3 DEF FanOut, browserVars
  <2>2. \A r \in rows : Covered(c, r) => Covered(c, r)'
    <3>1. CASE phase[c] # "live"
      BY <1>a, <1>3, <2>1, <3>1 DEF FanOut, Covered, OnItsWay
    <3>2. CASE phase[c] = "live"
      <4>1. /\ queue'[c] = Offer(queue[c], n)
            /\ pending' = pending \ {n}
            /\ skipped'[c] = IF Len(queue[c]) = QueueSize
                             THEN skipped[c] \cup {Head(queue[c])}
                             ELSE skipped[c]
        BY <1>3, <3>2 DEF FanOut
      <4>2. /\ n \in Elems(Offer(queue[c], n))
            /\ \A x \in Elems(queue[c]) : \/ x \in Elems(Offer(queue[c], n))
                                          \/ Len(queue[c]) = QueueSize /\ x = Head(queue[c])
        BY <1>a, OfferEffect
      <4>3. /\ skipped[c] \subseteq skipped'[c]
            /\ pending \cup Elems(queue[c])
                  \subseteq pending' \cup Elems(queue'[c]) \cup skipped'[c]
        BY <4>1, <4>2
      <4> QED BY <2>1, <3>2, <4>3 DEF Covered, OnItsWay
    <3> QED BY <3>1, <3>2
  <2> QED BY <1>0, <2>1, <2>2 DEF LossOf
<1> QED
  BY <1>1, <1>2, <1>3 DEF Publish

\* A step of one tab, or of its stream, leaves the other tabs alone.
LEMMA OtherTabs ==
    ASSUME TypeInv, NEW c \in Clients, Step(c) \/ Trouble(c) \/ PageBack(c),
           NEW d \in Clients \ {c}
    PROVE  UNCHANGED tabVars(d)
<1>1. TypeOK
  BY DEF TypeInv
<1>2. CASE Bootstrap(c) \/ Poll(c) \/ Frame(c) \/ Deliver(c)
  <2>1. PICK S : Push(c, S)
    BY <1>2 DEF Bootstrap, Poll, Frame, Deliver
  <2>2. rendered'[d] = rendered[d] /\ cursor'[d] = cursor[d]
    BY <1>1, <2>1 DEF Push, TypeOK
  <2>3. /\ rows' = rows /\ pending' = pending /\ base'[d] = base[d]
        /\ skipped'[d] = skipped[d] /\ phase'[d] = phase[d]
        /\ replay'[d] = replay[d] /\ queue'[d] = queue[d]
    BY <1>1, <1>2 DEF Bootstrap, Poll, Frame, Deliver, TypeOK,
       ledgerVars, streamVars, historyVars
  <2> QED BY <2>2, <2>3 DEF tabVars, OnItsWay
<1>3. CASE BootstrapFails(c) \/ Open(c) \/ AttachFails(c)
  BY <1>1, <1>3 DEF BootstrapFails, Open, AttachFails, TypeOK,
     ledgerVars, streamVars, historyVars, tabVars, OnItsWay
<1>4. CASE PageBack(c) \/ Query(c) \/ Subscribe(c) \/ Saturated(c)
  <2>1. /\ rows' = rows /\ pending' = pending /\ base'[d] = base[d]
        /\ skipped'[d] = skipped[d] /\ phase'[d] = phase[d]
        /\ replay'[d] = replay[d] /\ queue'[d] = queue[d]
        /\ rendered'[d] = rendered[d] /\ cursor'[d] = cursor[d]
    BY <1>1, <1>4 DEF PageBack, AskOlder, OlderPage, OlderFails, Query, Subscribe,
       Saturated, TypeOK,
       ledgerVars, browserVars, streamVars, historyVars
  <2> QED BY <2>1 DEF tabVars, OnItsWay
<1>5. CASE StreamError(c)
  <2>1. /\ rows' = rows /\ pending' = pending /\ base'[d] = base[d]
        /\ skipped'[d] = skipped[d] /\ phase'[d] = phase[d]
        /\ replay'[d] = replay[d] /\ queue'[d] = queue[d]
        /\ rendered'[d] = rendered[d] /\ cursor'[d] = cursor[d]
    BY <1>1, <1>5 DEF StreamError, TypeOK, ledgerVars
  <2> QED BY <2>1 DEF tabVars, OnItsWay
<1> QED
  BY <1>2, <1>3, <1>4, <1>5 DEF Step, Trouble

LEMMA LossTab ==
    ASSUME TypeInv, LossInv, NEW c \in Clients, Step(c) \/ Trouble(c) \/ PageBack(c)
    PROVE  LossOf(c)'
<1>0. LossOf(c) /\ TypeOK /\ ConnShape /\ BootShape /\ Bounds
  BY LossInvSplit DEF TypeInv
<1>a. /\ published \in Nat /\ rows \subseteq 1..published /\ rows \subseteq Nat
      /\ cursor[c] \in Nat /\ cursor[c] <= published /\ base[c] \in Nat
      /\ oldest[c] <= cursor[c]
      /\ replay[c] \subseteq rows
      /\ ReplayLimit \in Nat /\ PollLimit \in Nat
  BY LiveBusAssumption DEF TypeInv, TypeOK, Bounds, Ids
<1>1. ASSUME Bootstrap(c) PROVE LossOf(c)'
  <2> DEFINE tail == RowsRecent(ReplayLimit)
  <2>1. /\ conn[c] = "boot" /\ phase[c] = "none" /\ cursor[c] = 0 /\ base[c] = 0
        /\ Push(c, tail)
    BY <1>0, <1>1 DEF Bootstrap, ConnShape, BootShape
  <2>2. /\ rows' = rows /\ phase' = phase
        /\ base'[c] = IF tail = {} THEN 0 ELSE Least(tail) - 1
    BY <1>0, <1>1 DEF Bootstrap, ledgerVars, streamVars, TypeOK
  <2>3. tail \subseteq rows /\ \A x \in tail, r \in rows : x <= r => r \in tail
    <3>1. \A r \in 1..published : r < published + 1
      BY <1>a
    <3>2. \A r \in rows : r < published + 1
      BY <1>a, <3>1
    <3>3. published + 1 \in Nat /\ rows \in SUBSET (1..published)
      BY <1>a
    <3>4. tail = RowsBefore(published + 1, ReplayLimit)
      BY DEF RowsRecent
    <3> HIDE DEF tail
    <3> QED BY <1>a, <3>2, <3>3, <3>4, RowsBeforeIsSuffix
  <2> HIDE DEF tail
  <2>4. /\ rendered'[c] = rendered[c] \cup tail
        /\ cursor'[c] \in tail \cup {cursor[c]}
    <3>1. tail \in SUBSET (0..published)
      <4>1. tail \subseteq rows
        BY <2>3
      <4>2. rows \subseteq 0..published
        <5>1. ASSUME NEW r \in rows PROVE r \in 0..published
          <6>1. r \in 1..published
            BY <1>a
          <6> QED BY <1>a, <6>1
        <5> QED BY <5>1
      <4> QED BY <4>1, <4>2
    <3>2. /\ rendered' = [rendered EXCEPT ![c] = @ \cup tail]
          /\ cursor'[c] \in tail \cup {cursor[c]}
      BY <1>0, <1>a, <2>1, <3>1, PushEffect
    <3> QED BY <1>0, <3>2 DEF TypeOK
  <2>5. \A r \in rows : base'[c] < r /\ r <= cursor'[c] => r \in tail
    <3>1. CASE tail = {}
      <4>1. cursor'[c] = 0
        BY <2>1, <2>4, <3>1
      <4>2. \A r \in rows : ~(r <= 0)
        <5> TAKE r \in rows
        <5>1. r \in 1..published
          BY <1>a
        <5> QED BY <5>1
      <4> QED BY <4>1, <4>2
    <3>2. CASE tail # {}
      <4>1. Least(tail) \in tail
        BY <1>a, <2>3, <3>2, LeastIsLeast
      <4>2. \A r \in rows : Least(tail) - 1 < r => Least(tail) <= r
        <5>1. Least(tail) \in Nat /\ \A r \in rows : r \in Nat
          BY <1>a, <2>3, <4>1
        <5> QED BY <5>1
      <4>3. base'[c] = Least(tail) - 1
        BY <2>2, <3>2
      <4>4. \A r \in rows : Least(tail) <= r => r \in tail
        BY <2>3, <4>1
      <4> QED BY <4>2, <4>3, <4>4
    <3> QED BY <3>1, <3>2
  <2> QED BY <2>1, <2>2, <2>4, <2>5 DEF LossOf, Covered
<1>2. ASSUME Poll(c) PROVE LossOf(c)'
  <2> DEFINE S == RowsAfter(cursor[c], PollLimit)
  <2>1. /\ conn[c] = "poll" /\ phase[c] = "none" /\ Push(c, S)
        /\ rows' = rows /\ phase' = phase /\ base' = base /\ skipped' = skipped
    BY <1>0, <1>2 DEF Poll, ConnShape, ledgerVars, streamVars, historyVars
  <2>2. /\ S \subseteq rows
        /\ \A x \in S, r \in rows : cursor[c] < r /\ r <= x => r \in S
    BY <1>a, RowsAfterIsPrefix
  <2> HIDE DEF S
  <2>3. /\ rendered'[c] = rendered[c] \cup S
        /\ cursor'[c] \in S \cup {cursor[c]}
    <3>1. S \in SUBSET (0..published)
      BY <1>a, <2>2
    <3>2. /\ rendered' = [rendered EXCEPT ![c] = @ \cup S]
          /\ cursor'[c] \in S \cup {cursor[c]}
      BY <1>0, <1>a, <2>1, <3>1, PushEffect
    <3> QED BY <1>0, <3>2 DEF TypeOK
  <2>4. ASSUME NEW r \in rows, r <= cursor'[c], ~(r <= cursor[c])
        PROVE  r \in S
    <3>1. r \in Nat /\ cursor[c] < r
      BY <1>a, <2>4
    <3>2. cursor'[c] \in S
      BY <2>3, <2>4
    <3> QED BY <2>2, <2>4, <3>1, <3>2
  <2> QED BY <1>0, <2>1, <2>3, <2>4 DEF LossOf, Covered, OnItsWay
<1>3. ASSUME Frame(c) PROVE LossOf(c)'
  <2>1. PICK r \in replay[c] : /\ \A x \in replay[c] : r <= x
                               /\ Push(c, {r})
                               /\ replay' = [replay EXCEPT ![c] = @ \ {r}]
    BY <1>3 DEF Frame
  <2>2. /\ phase[c] = "frames" /\ phase' = phase
        /\ rows' = rows /\ base' = base /\ skipped' = skipped
    BY <1>3 DEF Frame, ledgerVars, historyVars
  <2>3. /\ rendered'[c] = rendered[c] \cup {r}
        /\ cursor'[c] \in {r, cursor[c]} /\ cursor[c] <= cursor'[c] /\ r <= cursor'[c]
        /\ cursor'[c] \in Nat
    <3>1. {r} \in SUBSET (0..published)
      <4>1. r \in 1..published
        BY <1>a
      <4> QED BY <1>a, <4>1
    <3>2. /\ rendered' = [rendered EXCEPT ![c] = @ \cup {r}]
          /\ cursor'[c] \in {r} \cup {cursor[c]}
          /\ cursor[c] <= cursor'[c] /\ \A y \in {r} : y <= cursor'[c]
      BY <1>0, <1>a, <2>1, <3>1, PushEffect
    <3> QED BY <1>0, <1>a, <3>2 DEF TypeOK
  <2>4. replay'[c] = replay[c] \ {r}
    BY <1>0, <2>1 DEF TypeOK
  <2>5. \A q \in rows : cursor[c] < q /\ q <= cursor'[c] => q = r
    <3>1. \A q \in rows : q > cursor[c] /\ q \notin replay[c] => r < q
      BY <1>0, <1>a, <2>1, <2>2 DEF LossOf
    <3> TAKE q \in rows
    <3> HAVE cursor[c] < q /\ q <= cursor'[c]
    <3>2. q \in Nat /\ r \in Nat /\ cursor[c] \in Nat
      BY <1>a
    <3>3. cursor'[c] = r
      BY <2>3, <3>2
    <3>4. CASE q \in replay[c]
      BY <2>1, <3>2, <3>3, <3>4
    <3>5. CASE q \notin replay[c]
      BY <3>1, <3>2, <3>3, <3>5
    <3> QED BY <3>4, <3>5
  <2>6. ASSUME NEW q \in rows, q > cursor'[c] PROVE q > cursor[c] /\ q # r
    <3>1. q \in Nat /\ r \in Nat
      BY <1>a
    <3> QED BY <1>a, <2>3, <2>6, <3>1
  <2>7. \A q \in rows : base[c] < q /\ q <= cursor'[c] => Covered(c, q)'
    BY <1>0, <1>a, <2>2, <2>3, <2>5 DEF LossOf, Covered, OnItsWay
  <2>8. \A q \in rows : q > cursor'[c] /\ q \notin replay'[c]
                           => \A x \in replay'[c] : x < q
    BY <1>0, <2>2, <2>4, <2>6 DEF LossOf
  <2> QED BY <2>2, <2>7, <2>8 DEF LossOf
<1>4. ASSUME PageBack(c) PROVE LossOf(c)'
  <2>1. /\ rows' = rows /\ cursor' = cursor /\ phase' = phase /\ replay' = replay
        /\ queue' = queue /\ pending' = pending /\ base' = base /\ skipped' = skipped
    BY <1>4 DEF PageBack, AskOlder, OlderPage, OlderFails, ledgerVars, streamVars,
       historyVars
  <2>2. rendered[c] \subseteq rendered'[c]
    BY <1>0, <1>4 DEF PageBack, AskOlder, OlderPage, OlderFails, TypeOK
  <2>3. \A r \in rows : Covered(c, r) => Covered(c, r)'
    BY <2>1, <2>2 DEF Covered, OnItsWay
  <2> QED BY <1>0, <2>1, <2>3 DEF LossOf
<1>5. ASSUME BootstrapFails(c) \/ Open(c) \/ AttachFails(c) \/ Saturated(c)
      PROVE  LossOf(c)'
  <2>1. /\ rows' = rows /\ cursor' = cursor /\ rendered' = rendered
        /\ base' = base /\ skipped' = skipped
        /\ \/ phase[c] # "live" /\ phase'[c] \notin {"live", "frames"}
           \/ phase' = phase
        /\ replay' = replay /\ queue' = queue /\ pending' = pending
    BY <1>0, <1>5 DEF BootstrapFails, Open, AttachFails, Saturated, ConnShape,
       TypeOK, ledgerVars, streamVars, historyVars
  <2>2. \A r \in rows : Covered(c, r) => Covered(c, r)'
    BY <2>1 DEF Covered, OnItsWay
  <2> QED BY <1>0, <2>1, <2>2 DEF LossOf
<1>6. ASSUME Query(c) PROVE LossOf(c)'
  <2> DEFINE S == RowsAfter(cursor[c], ReplayLimit)
  <2>1. /\ phase[c] = "query" /\ phase'[c] = "frames" /\ replay'[c] = S
        /\ rows' = rows /\ cursor' = cursor /\ rendered' = rendered
        /\ base' = base /\ skipped' = skipped
    BY <1>0, <1>6 DEF Query, TypeOK, ledgerVars, browserVars, historyVars
  <2>2. /\ S \subseteq rows
        /\ \A x \in S, r \in rows : cursor[c] < r /\ r <= x => r \in S
    BY <1>a, RowsAfterIsPrefix
  <2> HIDE DEF S
  <2>3. ASSUME NEW r \in rows, r > cursor[c], r \notin S, NEW x \in S
        PROVE  x < r
    <3>1. r \in Nat /\ x \in Nat /\ ~(r <= x)
      BY <1>a, <2>2, <2>3
    <3> QED BY <3>1
  <2> QED BY <1>0, <2>1, <2>3 DEF LossOf, Covered, OnItsWay
<1>7. ASSUME Subscribe(c) PROVE LossOf(c)'
  <2>1. /\ phase[c] = "frames" /\ phase'[c] = "live"
        /\ rows' = rows /\ cursor' = cursor /\ rendered' = rendered
        /\ pending' = pending /\ base' = base
        /\ skipped'[c] = skipped[c] \cup {r \in rows \ pending : r > cursor[c]}
    BY <1>0, <1>7 DEF Subscribe, TypeOK, ledgerVars, browserVars
  <2>2. \A r \in rows : Covered(c, r) \/ r > cursor[c] => Covered(c, r)'
    BY <2>1 DEF Covered, OnItsWay
  <2> QED BY <1>0, <2>1, <2>2 DEF LossOf
<1>8. ASSUME Deliver(c) PROVE LossOf(c)'
  <2> DEFINE head == Head(queue[c])
             S == {Id(head)}
  <2>1. /\ queue[c] \in Seq(Events) /\ queue[c] # <<>>
        /\ phase[c] = "live" /\ Push(c, S)
        /\ queue'[c] = Tail(queue[c])
        /\ rows' = rows /\ pending' = pending /\ phase' = phase
        /\ base' = base /\ skipped' = skipped
    BY <1>0, <1>8 DEF Deliver, TypeOK, ledgerVars, historyVars
  <2>2. head \in Events /\ Elems(queue[c]) \subseteq Elems(Tail(queue[c])) \cup {head}
    <3>1. /\ Len(Tail(queue[c])) = Len(queue[c]) - 1
          /\ \A i \in 1..(Len(queue[c]) - 1) : Tail(queue[c])[i] = queue[c][i + 1]
          /\ Tail(queue[c]) \in Seq(Events)
      BY <2>1
    <3>2. ASSUME NEW i \in 1..Len(queue[c]), i # 1
          PROVE  queue[c][i] \in Elems(Tail(queue[c]))
      <4>1. i - 1 \in 1..(Len(queue[c]) - 1) /\ queue[c][i] = Tail(queue[c])[i - 1]
        BY <2>1, <3>1, <3>2
      <4>2. DOMAIN Tail(queue[c]) = 1..(Len(queue[c]) - 1)
        BY <3>1
      <4> QED BY <4>1, <4>2 DEF Elems
    <3>3. head = queue[c][1]
      BY <2>1
    <3> QED BY <2>1, <3>2, <3>3 DEF Elems
  <2>3. /\ S \in SUBSET (0..published)
        /\ head \in rows => S = {head}
    <3>1. Id(head) \in rows \cup {0} /\ rows \cup {0} \subseteq 0..published
      <4>1. rows \subseteq 0..published /\ 0 \in 0..published
        BY <1>a
      <4> QED BY <2>2, <4>1, PageTypes
    <3>2. head \in rows => Id(head) = head
      BY DEF Id
    <3> HIDE DEF head
    <3> QED BY <3>1, <3>2
  <2> HIDE DEF head, S
  <2>4. /\ rendered'[c] = rendered[c] \cup S
        /\ cursor[c] <= cursor'[c] /\ cursor'[c] \in Nat
    <3>1. /\ rendered' = [rendered EXCEPT ![c] = @ \cup S]
          /\ cursor[c] <= cursor'[c] /\ cursor' \in [Clients -> Ids]
      BY <1>0, <1>a, <2>1, <2>3, PushEffect
    <3> QED BY <1>0, <3>1 DEF TypeOK, Ids
  <2>5. \A r \in rows : Covered(c, r) => Covered(c, r)'
    BY <2>1, <2>2, <2>3, <2>4 DEF Covered, OnItsWay
  <2>6. ASSUME NEW r \in rows
        PROVE  /\ r > cursor'[c] => r > cursor[c]
               /\ r > cursor[c] \/ r <= cursor[c]
    <3>1. r \in Nat
      BY <1>a
    <3> QED BY <1>a, <2>4, <3>1
  <2> QED BY <1>0, <2>1, <2>5, <2>6 DEF LossOf
<1>9. ASSUME StreamError(c) PROVE LossOf(c)'
  <2>1. /\ phase'[c] = "none"
        /\ rows' = rows /\ cursor' = cursor /\ rendered' = rendered /\ base' = base
        /\ skipped'[c] = skipped[c] \cup {r \in Overtaken(c) : r <= cursor[c]}
    BY <1>0, <1>9 DEF StreamError, TypeOK, ledgerVars
  <2>2. \A r \in rows : Covered(c, r) /\ r <= cursor[c] => Covered(c, r)'
    BY <2>1 DEF Covered, OnItsWay, Overtaken
  <2> QED BY <1>0, <2>1, <2>2 DEF LossOf
<1> QED
  BY <1>1, <1>2, <1>3, <1>4, <1>5, <1>6, <1>7, <1>8, <1>9 DEF Step, Trouble

LEMMA LossStep == TypeInv /\ LossInv /\ [Next]_vars => LossInv'
<1> SUFFICES ASSUME TypeInv, LossInv, [Next]_vars
             PROVE  LossInv'
  OBVIOUS
<1>1. (\A c \in Clients : LossOf(c)') => LossInv'
  BY DEF LossInv, LossAccounted, ReplayIsPrefix, LiveCovered, LossOf, Covered
<1>2. \A c \in Clients : LossOf(c)
  BY LossInvSplit
<1>3. CASE Publish \/ \E n \in Events : FanOut(n)
  BY <1>3, LossPublish
<1>4. ASSUME NEW c \in Clients, Step(c) \/ Trouble(c) \/ PageBack(c)
      PROVE  LossInv'
  <2>1. \A d \in Clients \ {c} : LossOf(d)'
    BY <1>2, <1>4, OtherTabs, LossOfUnchanged
  <2>2. LossOf(c)'
    BY <1>4, LossTab
  <2> QED BY <1>1, <2>1, <2>2
<1>5. CASE Reap \/ UNCHANGED vars
  <2>1. \A c \in Clients : UNCHANGED tabVars(c)
    BY <1>5 DEF Reap, vars, ledgerVars, browserVars, streamVars, historyVars,
       tabVars, OnItsWay
  <2> QED BY <1>1, <1>2, <2>1, LossOfUnchanged
<1> QED
  BY <1>3, <1>4, <1>5 DEF Next

\* For any number of tabs, queue and replay sizes: a recorded row between the
\* start of a tab's window and its cursor is on screen, still on its way through
\* the open stream, or one the server let pass at a known place.
THEOREM NothingLostUnaccounted == Spec => []LossAccounted
<1>1. Spec => [](TypeInv /\ LossInv)
  BY TypeInit, TypeStep, LossInit, LossStep, PTL DEF Spec
<1>2. LossInv => LossAccounted
  BY DEF LossInv
<1> QED
  BY <1>1, <1>2, PTL

-----------------------------------------------------------------------------
(* LiveBus implements Feed. *)

\* The tab's part of the refinement mapping.
seenMap == [c \in Clients |-> rendered[c] \ {0}]

LEMMA SameHighWater == \A m, S : Promise!HighWater(m, S) = HighWater(m, S)
  BY DEF Promise!HighWater, HighWater

\* The id 0 of an event without a row never moves the cursor.
LEMMA HighWaterOfRows ==
    ASSUME NEW b \in Nat, NEW m \in 0..b, NEW S \in SUBSET (0..b)
    PROVE  HighWater(m, S \ {0}) = HighWater(m, S)
<1> DEFINE x == HighWater(m, S)
<1>1. /\ x \in S \cup {m} /\ x \in m..b
      /\ \A y \in S : y <= x
  BY HighWaterIsGreatest
<1> HIDE DEF x
<1>2. x \in (S \ {0}) \cup {m}
  BY <1>1
<1>3. \A y \in (S \ {0}) \cup {m} : y <= x
  BY <1>1
<1>4. S \ {0} \in SUBSET (0..b)
  OBVIOUS
<1> QED
  BY <1>2, <1>3, <1>4, HighWaterUnique DEF x

\* Showing ids of rows to one tab is Feed's Show.
LEMMA ShowRows ==
    ASSUME TypeInv, NEW c \in Clients, NEW S \in SUBSET (rows \cup {0}),
           rendered' = [rendered EXCEPT ![c] = @ \cup S],
           cursor' = [cursor EXCEPT ![c] = HighWater(cursor[c], S)],
           rows' = rows
    PROVE  Promise!Show(c)
<1>1. /\ published \in Nat /\ cursor[c] \in 0..published
      /\ S \in SUBSET (0..published) /\ rows \subseteq 1..published
      /\ rendered \in [Clients -> SUBSET Ids]
      /\ cursor \in [Clients -> Ids]
  <2>1. /\ published \in Nat /\ cursor[c] \in Nat /\ cursor[c] <= published
        /\ rows \subseteq 1..published
    BY PageTypes
  <2>2. cursor[c] \in 0..published /\ 0 \in 0..published
        /\ 1..published \subseteq 0..published
    BY <2>1
  <2> QED BY <2>1, <2>2 DEF TypeInv, TypeOK
<1> DEFINE T == S \ {0}
<1>2. T \in SUBSET rows
  OBVIOUS
<1>3. seenMap' = [seenMap EXCEPT ![c] = @ \cup T]
  <2>1. \A d \in Clients : rendered'[d] \ {0} =
            IF d = c THEN (rendered[c] \ {0}) \cup T ELSE rendered[d] \ {0}
    BY <1>1
  <2> HIDE DEF T
  <2> QED BY <2>1 DEF seenMap
<1>4. cursor' = [cursor EXCEPT ![c] = Promise!HighWater(cursor[c], T)]
  BY <1>1, HighWaterOfRows, SameHighWater
<1> HIDE DEF T
<1> QED
  BY <1>2, <1>3, <1>4 DEF Promise!Show, seenMap

LEMMA FeedInitMap == Init => Promise!FeedInit
  BY DEF Init, Promise!FeedInit

LEMMA FeedStepMap ==
    TypeInv /\ [Next]_vars => [Promise!FeedNext]_(Promise!feedVars)
<1> SUFFICES ASSUME TypeInv, [Next]_vars
             PROVE  Promise!FeedNext \/ UNCHANGED <<rows, rendered, cursor>>
  BY DEF Promise!feedVars
<1>1. ASSUME NEW broadcast \in Broadcasts, Persist(broadcast)
      PROVE  Promise!FeedNext
  <2>1. /\ published' \in 1..MaxEvents /\ rows' = rows \cup {published'}
        /\ \A m \in rows : m < published'
        /\ rendered' = rendered /\ cursor' = cursor
    <3>1. published \in Nat /\ MaxEvents \in Nat /\ rows \subseteq 1..published
      BY LiveBusAssumption DEF TypeInv, TypeOK, Ids
    <3>2. published' = published + 1 /\ published < MaxEvents
          /\ rows' = rows \cup {published'} /\ rendered' = rendered /\ cursor' = cursor
      BY <1>1 DEF Persist, browserVars
    <3>3. \A m \in 1..published : m < published'
      BY <3>1, <3>2
    <3> QED BY <3>1, <3>2, <3>3
  <2> QED BY <2>1 DEF Promise!FeedNext, Promise!Record
<1>2. CASE PersistFails \/ (\E n \in Events : FanOut(n)) \/ Reap \/ UNCHANGED vars
  BY <1>2 DEF PersistFails, FanOut, Reap, vars, ledgerVars, browserVars
<1>3. ASSUME NEW c \in Clients,
             \/ BootstrapFails(c) \/ Open(c) \/ AttachFails(c) \/ StreamError(c)
             \/ Query(c) \/ Subscribe(c) \/ Saturated(c)
             \/ AskOlder(c) \/ OlderFails(c)
      PROVE  UNCHANGED <<rows, rendered, cursor>>
  BY <1>3 DEF BootstrapFails, Open, AttachFails, StreamError, Query, Subscribe,
     Saturated, AskOlder, OlderFails, ledgerVars, browserVars
<1>4. ASSUME NEW c \in Clients, NEW S \in SUBSET (rows \cup {0}),
             Push(c, S), rows' = rows
      PROVE  Promise!FeedNext
  BY <1>4, ShowRows DEF Push, Promise!FeedNext
<1>5. ASSUME NEW c \in Clients, Bootstrap(c) \/ Poll(c) \/ Frame(c) \/ Deliver(c)
      PROVE  Promise!FeedNext
  <2>1. CASE Bootstrap(c)
    BY <1>4, <2>1, PageTypes DEF Bootstrap, ledgerVars
  <2>2. CASE Poll(c)
    BY <1>4, <2>2, PageTypes DEF Poll, ledgerVars
  <2>3. CASE Frame(c)
    <3>1. PICK r \in replay[c] : Push(c, {r})
      BY <2>3 DEF Frame
    <3>2. r \in rows
      BY <3>1 DEF TypeInv, Bounds
    <3> QED BY <1>4, <2>3, <3>1, <3>2 DEF Frame, ledgerVars
  <2>4. CASE Deliver(c)
    <3>1. Head(queue[c]) \in Events
      BY <2>4 DEF Deliver, TypeInv, TypeOK
    <3>2. Id(Head(queue[c])) \in rows \cup {0}
      BY <3>1, PageTypes
    <3> QED BY <1>4, <2>4, <3>2 DEF Deliver, ledgerVars
  <2> QED BY <1>5, <2>1, <2>2, <2>3, <2>4
<1>6. ASSUME NEW c \in Clients, OlderPage(c) PROVE Promise!FeedNext
  <2> DEFINE fresh == RowsBefore(asked[c], ReplayLimit) \ rendered[c]
  <2>1. /\ rendered' = [rendered EXCEPT ![c] = @ \cup fresh]
        /\ cursor' = cursor /\ rows' = rows
    BY <1>6 DEF OlderPage, ledgerVars
  <2>2. /\ published \in Nat /\ cursor[c] \in 0..published
        /\ fresh \in SUBSET (0..published) /\ fresh \in SUBSET rows
        /\ \A y \in fresh \cup {cursor[c]} : y <= cursor[c]
        /\ cursor \in [Clients -> Ids]
    <3>1. /\ published \in Nat /\ rows \subseteq 1..published
          /\ cursor[c] \in Nat /\ cursor[c] <= published
          /\ asked[c] \in Nat /\ asked[c] <= cursor[c]
          /\ fresh \subseteq rows
      BY PageTypes
    <3>2. \A y \in fresh : y < asked[c] /\ y \in Nat
      <4>1. \A y \in fresh : y < asked[c]
        BY DEF RowsBefore
      <4>2. \A y \in 1..published : y \in Nat
        BY <3>1
      <4> HIDE DEF fresh
      <4> QED BY <3>1, <4>1, <4>2
    <3>3. 1..published \subseteq 0..published /\ cursor[c] \in 0..published
      BY <3>1
    <3> HIDE DEF fresh
    <3>4. \A y \in fresh \cup {cursor[c]} : y <= cursor[c]
      BY <3>1, <3>2
    <3> QED BY <3>1, <3>3, <3>4 DEF TypeInv, TypeOK
  <2> HIDE DEF fresh
  <2>3. HighWater(cursor[c], fresh) = cursor[c]
    BY <2>2, HighWaterUnique
  <2>4. cursor' = [cursor EXCEPT ![c] = HighWater(cursor[c], fresh)]
    BY <2>1, <2>2, <2>3
  <2> QED BY <2>1, <2>2, <2>4, ShowRows DEF Promise!FeedNext
<1> QED
  BY <1>1, <1>2, <1>3, <1>5, <1>6 DEF Next, Publish, Step, Trouble, PageBack

\* The streams, queues, reconnections and polls of LiveBus together keep what
\* Feed promises: a tab is shown recorded rows only, never loses one it was
\* shown, and its resume point is the newest row it was shown.
THEOREM FeedImplemented == Spec => ImplementsFeed
<1>1. Spec => []TypeInv
  BY TypeInit, TypeStep, PTL DEF Spec
<1> QED
  BY <1>1, FeedInitMap, FeedStepMap, PTL DEF Spec, ImplementsFeed, Promise!FeedSpec

-----------------------------------------------------------------------------
(* Paging back reaches the start of the session. *)

\* The page size the browser takes for granted is one the server fills.  It is
\* with the default replay window (100 and 100), and not with a smaller one.
PagesAreFull == PageSize <= ReplayLimit

\* A page that is not full is all there is below `before`.
LEMMA ShortPageIsLast ==
    ASSUME NEW before \in Nat, NEW limit \in Nat, published \in Nat,
           rows \in SUBSET (1..published),
           Cardinality(RowsBefore(before, limit)) < limit
    PROVE  \A r \in rows : r < before => r \in RowsBefore(before, limit)
<1> DEFINE P == RowsBefore(before, limit)
           T == {r \in rows : r < before /\ r \notin P}
<1> SUFFICES ASSUME T # {} PROVE FALSE
  OBVIOUS
<1>1. T \in SUBSET (0..published)
  <2>1. \A r \in 1..published : r \in 0..published
    OBVIOUS
  <2> QED BY <2>1
<1>2. PICK t \in T : \A y \in T : y <= t
  BY <1>1, GreatestExists
<1> DEFINE A == {x \in rows : t < x /\ x < before}
<1>3. A \in SUBSET P
  <2>1. ASSUME NEW x \in A PROVE x \in P
    <3>1. x \in rows /\ x < before /\ t < x /\ x \in Int /\ t \in Int
      BY <1>2
    <3>2. x \notin T
      BY <1>2, <3>1
    <3> QED BY <3>1, <3>2
  <2> QED BY <2>1
<1>4. IsFiniteSet(P) /\ Cardinality(P) \in Nat
  <2>1. IsFiniteSet(1..published)
    BY FS_Interval
  <2>2. P \in SUBSET (1..published)
    BY DEF RowsBefore
  <2>3. IsFiniteSet(P)
    BY <2>1, <2>2, FS_Subset
  <2> QED BY <2>3, FS_CardinalityType
<1>5. IsFiniteSet(A) /\ Cardinality(A) <= Cardinality(P)
  BY <1>3, <1>4, FS_Subset
<1>6. Cardinality(A) \in Nat
  BY <1>5, FS_CardinalityType
<1>7. Cardinality(A) < limit
  BY <1>4, <1>5, <1>6
<1>8. t \in P
  BY <1>2, <1>7 DEF RowsBefore
<1> QED BY <1>2, <1>8

\* What makes HistoryExhausted inductive: oldestEventId is the least id shown,
\* is set by the time the button can go away and stays what it was while a page
\* is on its way, and no row is missing between it and the window.
HistOf(c) ==
    c \notin jumped /\ 0 \notin rendered[c] =>
        /\ \A r \in rendered[c] : oldest[c] <= r
        /\ oldest[c] = 0 => rendered[c] = {} /\ hasMore[c]
        /\ asked[c] \in {0, oldest[c]}
        /\ ~hasMore[c] => \A r \in rows : oldest[c] <= r
        /\ \A r \in rows : oldest[c] <= r /\ r <= base[c] => r \in rendered[c]

HistInv == \A c \in Clients : HistOf(c)

LEMMA HistInit == Init => HistInv
  BY DEF Init, HistInv, HistOf

\* A tab with no event older than all it showed behind it: HistOf, unfolded.
LEMMA HistFacts ==
    ASSUME NEW c \in Clients, HistOf(c), c \notin jumped, 0 \notin rendered[c]
    PROVE  /\ \A r \in rendered[c] : oldest[c] <= r
           /\ oldest[c] = 0 => rendered[c] = {} /\ hasMore[c]
           /\ asked[c] \in {0, oldest[c]}
           /\ ~hasMore[c] => \A r \in rows : oldest[c] <= r
           /\ \A r \in rows : oldest[c] <= r /\ r <= base[c] => r \in rendered[c]
  BY DEF HistOf

\* New rows are newer than anything a tab shows.
LEMMA HistKept ==
    ASSUME TypeInv, NEW c \in Clients, HistOf(c),
           rows' \subseteq rows \cup {published + 1},
           UNCHANGED <<rendered[c], oldest[c], hasMore[c], asked[c], base[c]>>,
           c \in jumped => c \in jumped'
    PROVE  HistOf(c)'
<1>1. /\ oldest[c] \in Nat /\ published \in Nat /\ oldest[c] <= published + 1
      /\ base[c] \in Nat /\ ~(published + 1 <= base[c])
  BY PageTypes
<1> QED BY <1>1 DEF HistOf

\* push() of rows, none of them older than all a tab shows.
LEMMA HistPush ==
    ASSUME TypeInv, NEW c \in Clients, HistOf(c), NEW S \in SUBSET (rows \cup {0}),
           Push(c, S), rows' = rows,
           UNCHANGED <<hasMore[c], asked[c], base[c]>>
    PROVE  HistOf(c)'
<1> DEFINE fresh == S \ rendered[c]
<1>1. /\ \A r \in rows : r \in Nat \ {0}
      /\ rendered[c] \subseteq Nat /\ oldest[c] \in Nat
  <2>1. rendered[c] \subseteq Nat
    BY LiveBusAssumption DEF TypeInv, TypeOK, Ids
  <2>2. rows \subseteq 1..published /\ published \in Nat /\ oldest[c] \in Nat
    BY PageTypes
  <2> QED BY <2>1, <2>2
<1>2. /\ rendered'[c] = rendered[c] \cup S
      /\ oldest'[c] = IF fresh # {} /\ (oldest[c] = 0 \/ Least(fresh) < oldest[c])
                      THEN Least(fresh) ELSE oldest[c]
      /\ jumped' = IF fresh # {} /\ oldest[c] # 0 /\ Least(fresh) < oldest[c]
                   THEN jumped \cup {c} ELSE jumped
  BY DEF Push, TypeInv, TypeOK
<1> SUFFICES ASSUME c \notin jumped', 0 \notin rendered'[c]
             PROVE  /\ \A r \in rendered'[c] : oldest'[c] <= r
                    /\ oldest'[c] = 0 => rendered'[c] = {} /\ hasMore[c]
                    /\ asked[c] \in {0, oldest'[c]}
                    /\ ~hasMore[c] => \A r \in rows : oldest'[c] <= r
                    /\ \A r \in rows : oldest'[c] <= r /\ r <= base[c]
                                          => r \in rendered'[c]
  BY DEF HistOf
<1>3. /\ c \notin jumped /\ 0 \notin rendered[c] /\ 0 \notin S
      /\ fresh # {} /\ oldest[c] # 0 => ~(Least(fresh) < oldest[c])
  BY <1>2
<1>4. fresh \in SUBSET Nat /\ \A r \in fresh : r \in rows
  BY <1>1, <1>3
<1>5. fresh # {} => /\ Least(fresh) \in fresh /\ Least(fresh) \in Nat \ {0}
                    /\ \A y \in fresh : Least(fresh) <= y
  <2>1. fresh # {} => Least(fresh) \in fresh /\ \A y \in fresh : Least(fresh) <= y
    BY <1>4, LeastIsLeast
  <2> QED BY <1>1, <1>4, <2>1
<1>6. /\ \A r \in rendered[c] : oldest[c] <= r
      /\ oldest[c] = 0 => rendered[c] = {} /\ hasMore[c]
      /\ asked[c] \in {0, oldest[c]}
      /\ ~hasMore[c] => \A r \in rows : oldest[c] <= r
      /\ \A r \in rows : oldest[c] <= r /\ r <= base[c] => r \in rendered[c]
  BY <1>3, HistFacts
<1>7. \A r \in rendered'[c] : r \in rendered[c] \/ r \in fresh
  BY <1>2
<1>8. rendered[c] \subseteq rendered'[c]
  BY <1>2
<1> HIDE DEF fresh
<1>9. CASE fresh = {}
  <2>1. oldest'[c] = oldest[c] /\ rendered'[c] = rendered[c]
    BY <1>2, <1>7, <1>8, <1>9
  <2> QED BY <1>6, <2>1
<1>10. CASE fresh # {} /\ oldest[c] = 0
  <2>1. oldest'[c] = Least(fresh) /\ rendered[c] = {} /\ hasMore[c] /\ asked[c] = 0
    BY <1>2, <1>6, <1>10
  <2>2. \A r \in rows : ~(r <= base[c])
    BY <1>1, <1>6, <1>10, <2>1
  <2> QED BY <1>5, <1>7, <1>10, <2>1, <2>2
<1>11. CASE fresh # {} /\ oldest[c] # 0
  <2>1. oldest'[c] = oldest[c]
    BY <1>2, <1>3, <1>11
  <2>2. \A r \in fresh : oldest[c] <= r
    BY <1>1, <1>3, <1>4, <1>5, <1>11
  <2> QED BY <1>6, <1>7, <1>8, <1>11, <2>1, <2>2
<1> QED BY <1>9, <1>10, <1>11

\* The page-load replay opens the window at its first row.
LEMMA HistBootstrap ==
    ASSUME TypeInv, NEW c \in Clients, HistOf(c), Bootstrap(c)
    PROVE  HistOf(c)'
<1> DEFINE tail == RowsRecent(ReplayLimit)
<1>1. /\ rendered[c] = {} /\ oldest[c] = 0 /\ asked[c] = 0
  <2>1. rendered[c] = {} /\ cursor[c] = 0
    BY DEF Bootstrap, TypeInv, BootShape
  <2>2. oldest[c] \in Nat /\ oldest[c] <= 0 /\ asked[c] \in Nat /\ asked[c] <= 0
    BY <2>1, PageTypes
  <2> QED BY <2>1, <2>2
<1>2. /\ tail \subseteq rows /\ tail \in SUBSET Nat
      /\ \A r \in rows : r \in Nat \ {0}
  <2>1. tail \subseteq rows /\ rows \subseteq 1..published
    BY PageTypes
  <2>2. \A r \in 1..published : r \in Nat \ {0}
    BY PageTypes
  <2> HIDE DEF tail
  <2> QED BY <2>1, <2>2
<1>3. /\ rendered'[c] = tail /\ rows' = rows
      /\ oldest'[c] = IF tail # {} THEN Least(tail) ELSE 0
      /\ base'[c] = IF tail = {} THEN 0 ELSE Least(tail) - 1
      /\ hasMore'[c] = hasMore[c] /\ asked'[c] = 0
      /\ c \notin jumped' => c \notin jumped
  <2>1. Push(c, tail)
    BY DEF Bootstrap
  <2>2. /\ rendered'[c] = rendered[c] \cup tail
        /\ oldest'[c] = IF tail \ rendered[c] # {}
                            /\ (oldest[c] = 0 \/ Least(tail \ rendered[c]) < oldest[c])
                        THEN Least(tail \ rendered[c]) ELSE oldest[c]
        /\ c \notin jumped' => c \notin jumped
    BY <2>1 DEF Push, TypeInv, TypeOK
  <2>3. tail \ rendered[c] = tail /\ rendered[c] \cup tail = tail
    BY <1>1
  <2>4. /\ rows' = rows /\ hasMore' = hasMore /\ asked' = asked
        /\ base'[c] = IF tail = {} THEN 0 ELSE Least(tail) - 1
    BY DEF Bootstrap, ledgerVars, TypeInv, TypeOK
  <2> HIDE DEF tail
  <2> QED BY <1>1, <2>2, <2>3, <2>4
<1> HIDE DEF tail
<1>4. tail # {} => /\ Least(tail) \in tail /\ Least(tail) \in Nat \ {0}
                   /\ \A y \in tail : Least(tail) <= y
  <2>1. tail # {} => Least(tail) \in tail /\ \A y \in tail : Least(tail) <= y
    BY <1>2, LeastIsLeast
  <2> QED BY <1>2, <2>1
<1>5. c \notin jumped' => hasMore[c]
  <2>1. c \notin jumped => hasMore[c]
    BY <1>1, HistFacts
  <2> QED BY <1>3, <2>1
<1>6. CASE tail = {}
  <2>1. \A r \in rows : ~(r <= 0)
    BY <1>2
  <2> QED BY <1>3, <1>5, <1>6, <2>1 DEF HistOf
<1>7. CASE tail # {}
  <2>1. \A r \in rows : ~(Least(tail) <= r /\ r <= Least(tail) - 1)
    BY <1>2, <1>4, <1>7
  <2> QED BY <1>3, <1>4, <1>5, <1>7, <2>1 DEF HistOf
<1> QED BY <1>6, <1>7

\* The button goes away with a page that is short, or that brings nothing new:
\* with pages the server fills, either says that nothing is left below.
LEMMA HistOlderPage ==
    ASSUME PagesAreFull, TypeInv, NEW c \in Clients, HistOf(c), OlderPage(c)
    PROVE  HistOf(c)'
<1> DEFINE page == RowsBefore(asked[c], ReplayLimit)
           fresh == page \ rendered[c]
<1>1. /\ rows \subseteq 1..published /\ published \in Nat
      /\ \A r \in rows : r \in Nat \ {0}
      /\ asked[c] \in Nat /\ asked[c] # 0 /\ rendered[c] \subseteq Nat
      /\ ReplayLimit \in Nat \ {0} /\ PageSize \in Nat \ {0}
      /\ PageSize <= ReplayLimit
  <2>1. rendered[c] \subseteq Nat
    BY LiveBusAssumption DEF TypeInv, TypeOK, Ids
  <2>2. asked[c] # 0
    BY DEF OlderPage
  <2> QED BY <2>1, <2>2, PageTypes, LiveBusAssumption DEF PagesAreFull
<1>2. /\ rows' = rows /\ base' = base /\ jumped' = jumped /\ asked'[c] = 0
      /\ rendered'[c] = rendered[c] \cup fresh
      /\ oldest'[c] = IF fresh = {} THEN oldest[c] ELSE Least(fresh)
      /\ hasMore'[c] = (hasMore[c] /\ fresh # {} /\ Cardinality(page) >= PageSize)
  BY DEF OlderPage, ledgerVars, historyVars, TypeInv, TypeOK
<1> SUFFICES ASSUME c \notin jumped, 0 \notin rendered'[c]
             PROVE  /\ \A r \in rendered'[c] : oldest'[c] <= r
                    /\ oldest'[c] = 0 => rendered'[c] = {} /\ hasMore'[c]
                    /\ ~hasMore'[c] => \A r \in rows : oldest'[c] <= r
                    /\ \A r \in rows : oldest'[c] <= r /\ r <= base[c]
                                          => r \in rendered'[c]
  BY <1>2 DEF HistOf
<1>3. /\ \A r \in rendered[c] : oldest[c] <= r
      /\ asked[c] = oldest[c]
      /\ ~hasMore[c] => \A r \in rows : oldest[c] <= r
      /\ \A r \in rows : oldest[c] <= r /\ r <= base[c] => r \in rendered[c]
  <2>1. 0 \notin rendered[c]
    BY <1>2
  <2> QED BY <1>1, <2>1, HistFacts
<1>4. /\ page \subseteq rows
      /\ \A x \in page : x < oldest[c]
      /\ \A x \in page : \A r \in rows : x <= r /\ r < oldest[c] => r \in page
  <2>1. /\ page \subseteq rows
        /\ \A x \in page : x < asked[c]
        /\ \A x \in page : \A r \in rows : x <= r /\ r < asked[c] => r \in page
    BY <1>1, RowsBeforeIsSuffix
  <2> HIDE DEF page, fresh
  <2> QED BY <1>3, <2>1
<1>5. Cardinality(page) < ReplayLimit
        => \A r \in rows : r < oldest[c] => r \in page
  <2>1. Cardinality(page) < ReplayLimit
          => \A r \in rows : r < asked[c] => r \in page
    BY <1>1, ShortPageIsLast
  <2> HIDE DEF page, fresh
  <2> QED BY <1>3, <2>1
<1>6. fresh = page
  <2>1. \A x \in page : x \notin rendered[c]
    <3>1. \A r \in rendered[c] : r \in Nat
      BY <1>1
    <3>2. \A x \in page : x \in Nat /\ x < oldest[c]
      BY <1>1, <1>4
    <3>3. oldest[c] \in Nat
      BY <1>1, <1>3
    <3> HIDE DEF page, fresh
    <3> QED BY <1>3, <3>1, <3>2, <3>3
  <2> QED BY <2>1
<1>a. oldest[c] \in Nat \ {0}
  BY <1>1, <1>3
<1>7. CASE fresh = {}
  <2>1. Cardinality(page) = 0
    BY <1>6, <1>7, FS_EmptySet
  <2>2. \A r \in rows : ~(r < oldest[c])
    <3>1. page = {}
      BY <1>6, <1>7
    <3> HIDE DEF page, fresh
    <3>2. Cardinality(page) < ReplayLimit
      BY <1>1, <2>1
    <3> QED BY <1>5, <3>1, <3>2
  <2> HIDE DEF page, fresh
  <2>3. rendered'[c] = rendered[c] /\ oldest'[c] = oldest[c]
    BY <1>2, <1>7
  <2>4. \A r \in rows : oldest[c] <= r
    <3> TAKE r \in rows
    <3>1. r \in Nat /\ oldest[c] \in Nat /\ ~(r < oldest[c])
      BY <1>1, <1>a, <2>2
    <3> QED BY <3>1
  <2> QED BY <1>3, <1>a, <2>3, <2>4
<1>8. CASE fresh # {}
  <2>1. /\ Least(fresh) \in fresh /\ \A y \in fresh : Least(fresh) <= y
        /\ Least(fresh) \in Nat \ {0} /\ Least(fresh) < oldest[c]
    <3>1. fresh \in SUBSET Nat /\ \A y \in fresh : y \in Nat \ {0} /\ y < oldest[c]
      BY <1>1, <1>4
    <3> HIDE DEF fresh
    <3>2. Least(fresh) \in fresh /\ \A y \in fresh : Least(fresh) <= y
      BY <1>8, <3>1, LeastIsLeast
    <3> QED BY <3>1, <3>2
  <2>2. ASSUME ~hasMore'[c] PROVE \A r \in rows : oldest'[c] <= r
    <3>1. CASE ~hasMore[c]
      <4> HIDE DEF page, fresh
      <4>1. Least(fresh) \in rows
        BY <1>4, <1>6, <2>1
      <4> QED BY <1>3, <1>a, <2>1, <3>1, <4>1
    <3>2. CASE hasMore[c]
      <4>1. IsFiniteSet(1..published) /\ page \subseteq 1..published
        <5>1. published \in Int
          BY <1>1
        <5>2. IsFiniteSet(1..published)
          BY <5>1, FS_Interval
        <5> QED BY <1>1, <1>4, <5>2
      <4>2. Cardinality(page) \in Nat
        BY <4>1, FS_Subset, FS_CardinalityType
      <4>3. Cardinality(page) < ReplayLimit
        <5> HIDE DEF page, fresh
        <5>1. ~(Cardinality(page) >= PageSize)
          BY <1>2, <1>8, <2>2, <3>2
        <5> QED BY <1>1, <4>2, <5>1
      <4> HIDE DEF page, fresh
      <4>4. \A r \in rows : r < oldest[c] => r \in fresh
        BY <1>5, <1>6, <4>3
      <4> QED BY <1>1, <1>2, <1>8, <1>a, <2>1, <4>4
    <3> QED BY <3>1, <3>2
  <2> HIDE DEF page, fresh
  <2>3. \A r \in rendered'[c] : oldest'[c] <= r
    BY <1>1, <1>2, <1>3, <1>8, <1>a, <2>1
  <2>4. ASSUME NEW r \in rows, oldest'[c] <= r, r <= base[c]
        PROVE  r \in rendered'[c]
    <3>1. CASE oldest[c] <= r
      BY <1>2, <1>3, <2>4, <3>1
    <3>2. CASE ~(oldest[c] <= r)
      <4>1. r < oldest[c] /\ Least(fresh) <= r
        BY <1>1, <1>2, <1>8, <1>a, <2>4, <3>2
      <4>2. r \in fresh
        BY <1>4, <1>6, <2>1, <4>1
      <4> QED BY <1>2, <4>2
    <3> QED BY <3>1, <3>2
  <2> QED BY <1>2, <1>8, <2>1, <2>2, <2>3, <2>4
<1> QED BY <1>7, <1>8

\* A step of one tab leaves what the other tabs show alone.
LEMMA HistOthers ==
    ASSUME TypeInv, NEW c \in Clients, Step(c) \/ Trouble(c) \/ PageBack(c),
           NEW d \in Clients \ {c}
    PROVE  /\ UNCHANGED <<rendered[d], oldest[d], hasMore[d], asked[d], base[d]>>
           /\ d \in jumped => d \in jumped'
<1>1. TypeOK
  BY DEF TypeInv
<1>2. CASE Bootstrap(c) \/ Poll(c) \/ Frame(c) \/ Deliver(c)
  <2>1. PICK S : Push(c, S)
    BY <1>2 DEF Bootstrap, Poll, Frame, Deliver
  <2>2. rendered'[d] = rendered[d] /\ oldest'[d] = oldest[d]
    BY <1>1, <2>1 DEF Push, TypeOK
  <2>3. d \in jumped => d \in jumped'
    BY <2>1 DEF Push
  <2>4. hasMore' = hasMore /\ asked' = asked /\ base'[d] = base[d]
    BY <1>1, <1>2 DEF Bootstrap, Poll, Frame, Deliver, TypeOK
  <2> QED BY <2>2, <2>3, <2>4
<1>3. CASE Open(c) \/ Query(c) \/ Subscribe(c) \/ Saturated(c) \/ Trouble(c)
  BY <1>3 DEF Open, Query, Subscribe, Saturated, Trouble, BootstrapFails,
     AttachFails, StreamError, browserVars, historyVars
<1>4. CASE PageBack(c)
  <2>1. base' = base /\ jumped' = jumped
    BY <1>4 DEF PageBack, AskOlder, OlderPage, OlderFails, historyVars
  <2>2. /\ rendered'[d] = rendered[d] /\ oldest'[d] = oldest[d]
        /\ hasMore'[d] = hasMore[d] /\ asked'[d] = asked[d]
    BY <1>1, <1>4 DEF PageBack, AskOlder, OlderPage, OlderFails, TypeOK
  <2> QED BY <2>1, <2>2
<1> QED BY <1>2, <1>3, <1>4 DEF Step

LEMMA HistTab ==
    ASSUME PagesAreFull, TypeInv, NEW c \in Clients, HistOf(c),
           Step(c) \/ Trouble(c) \/ PageBack(c)
    PROVE  HistOf(c)'
<1>1. CASE Poll(c) \/ Frame(c) \/ Deliver(c)
  <2>1. rows' = rows /\ UNCHANGED <<hasMore[c], asked[c], base[c]>>
    BY <1>1 DEF Poll, Frame, Deliver, ledgerVars
  <2>2. \E S \in SUBSET (rows \cup {0}) : Push(c, S)
    <3>1. CASE Poll(c)
      BY <3>1, PageTypes DEF Poll
    <3>2. CASE Frame(c)
      <4>1. PICK r \in replay[c] : Push(c, {r})
        BY <3>2 DEF Frame
      <4>2. r \in rows
        BY <4>1 DEF TypeInv, Bounds
      <4> QED BY <4>1, <4>2
    <3>3. CASE Deliver(c)
      <4>1. Push(c, {Id(Head(queue[c]))})
        BY <3>3 DEF Deliver
      <4>2. Id(Head(queue[c])) \in rows \cup {0}
        BY DEF Id
      <4> QED BY <4>1, <4>2
    <3> QED BY <1>1, <3>1, <3>2, <3>3
  <2> QED BY <2>1, <2>2, HistPush
<1>2. CASE Open(c) \/ Query(c) \/ Subscribe(c) \/ Saturated(c) \/ Trouble(c)
  <2>1. /\ rows' = rows /\ jumped' = jumped
        /\ UNCHANGED <<rendered[c], oldest[c], hasMore[c], asked[c], base[c]>>
    BY <1>2 DEF Open, Query, Subscribe, Saturated, Trouble, BootstrapFails,
       AttachFails, StreamError, browserVars, ledgerVars, historyVars
  <2> QED BY <2>1, HistKept
<1>3. CASE AskOlder(c)
  <2>1. /\ UNCHANGED <<rows, rendered, oldest, hasMore, base, jumped>>
        /\ asked'[c] = oldest[c]
    BY <1>3 DEF AskOlder, ledgerVars, historyVars, TypeInv, TypeOK
  <2> QED BY <2>1 DEF HistOf
<1>4. CASE OlderFails(c)
  <2>1. /\ UNCHANGED <<rows, rendered, oldest, hasMore, base, jumped>>
        /\ asked'[c] = 0
    BY <1>4 DEF OlderFails, ledgerVars, historyVars, TypeInv, TypeOK
  <2> QED BY <2>1 DEF HistOf
<1> QED BY <1>1, <1>2, <1>3, <1>4, HistBootstrap, HistOlderPage DEF Step, PageBack

LEMMA HistStep == ASSUME PagesAreFull PROVE TypeInv /\ HistInv /\ [Next]_vars => HistInv'
<1> SUFFICES ASSUME TypeInv, HistInv, [Next]_vars, NEW c \in Clients
             PROVE  HistOf(c)'
  BY DEF HistInv
<1>1. HistOf(c)
  BY DEF HistInv
<1>2. CASE Publish \/ (\E n \in Events : FanOut(n)) \/ Reap \/ UNCHANGED vars
  <2>1. rows' \subseteq rows \cup {published + 1}
    BY <1>2 DEF Publish, Persist, PersistFails, FanOut, Reap, vars, ledgerVars
  <2>2. /\ UNCHANGED <<rendered[c], oldest[c], hasMore[c], asked[c], base[c]>>
        /\ jumped' = jumped
    BY <1>2 DEF Publish, Persist, PersistFails, FanOut, Reap, vars, browserVars,
       historyVars
  <2> QED BY <1>1, <2>1, <2>2, HistKept
<1>3. ASSUME NEW d \in Clients, Step(d) \/ Trouble(d) \/ PageBack(d)
      PROVE  HistOf(c)'
  <2>1. CASE d = c
    BY <1>1, <1>3, <2>1, HistTab
  <2>2. CASE d # c
    <3>1. /\ UNCHANGED <<rendered[c], oldest[c], hasMore[c], asked[c], base[c]>>
          /\ c \in jumped => c \in jumped'
      BY <1>3, <2>2, HistOthers
    <3>2. rows' = rows
      BY <1>3 DEF Step, Bootstrap, Open, Poll, Query, Frame, Subscribe, Saturated,
         Deliver, Trouble, BootstrapFails, AttachFails, StreamError, PageBack,
         AskOlder, OlderPage, OlderFails, ledgerVars
    <3> QED BY <1>1, <3>1, <3>2, HistKept
  <2> QED BY <2>1, <2>2
<1> QED BY <1>2, <1>3 DEF Next

\* When the server fills the pages the browser asks for, a tab that was pushed
\* no event older than all it showed has every row of the session below its
\* window on screen by the time "load older" goes away, whatever is published,
\* streamed, polled or lost while its pages are on their way (live.svelte.js
\* loadOlder).
THEOREM HistoryReached == PagesAreFull => (Spec => []HistoryExhausted)
<1> SUFFICES ASSUME PagesAreFull PROVE Spec => []HistoryExhausted
  OBVIOUS
<1>1. HistInv => HistoryExhausted
  BY DEF HistInv, HistOf, HistoryExhausted
<1>2. TypeInv /\ HistInv /\ [Next]_vars => HistInv'
  BY HistStep
<1> QED BY <1>1, <1>2, TypeInit, TypeStep, HistInit, PTL DEF Spec

=============================================================================
