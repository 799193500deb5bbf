-------------------------------- MODULE Feed --------------------------------
(***************************************************************************)
(* What the live feed of one session promises a browser tab, with the      *)
(* streams, queues and polls of LiveBus left out: the ledger's rows appear *)
(* under growing ids, a tab is shown recorded rows only and never forgets  *)
(* one, and the point it would resume from is the newest row it was shown. *)
(* LiveBus implements this specification.                                  *)
(***************************************************************************)
EXTENDS Integers

CONSTANTS
    Clients,    \* browser tabs
    MaxEvents   \* bound on the events recorded

VARIABLES
    log,    \* ids of the recorded rows
    seen,   \* seen[c]: ids shown in tab c
    mark    \* mark[c]: the id tab c would resume from

feedVars == <<log, seen, mark>>

\* The larger of m and the largest member of the finite set S.
HighWater(m, S) == CHOOSE x \in S \cup {m} : \A y \in S \cup {m} : y <= x

FeedInit ==
    /\ log = {}
    /\ seen = [c \in Clients |-> {}]
    /\ mark = [c \in Clients |-> 0]

\* A row is recorded under an id above every earlier one.
Record ==
    /\ \E n \in 1..MaxEvents :
        /\ \A m \in log : m < n
        /\ log' = log \cup {n}
    /\ UNCHANGED <<seen, mark>>

\* A tab is shown some recorded rows, old or new.
Show(c) ==
    /\ \E S \in SUBSET log :
        /\ seen' = [seen EXCEPT ![c] = @ \cup S]
        /\ mark' = [mark EXCEPT ![c] = HighWater(@, S)]
    /\ UNCHANGED log

FeedNext == Record \/ \E c \in Clients : Show(c)

FeedSpec == FeedInit /\ [][FeedNext]_feedVars

=============================================================================
