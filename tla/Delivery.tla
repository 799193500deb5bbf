------------------------------ MODULE Delivery ------------------------------
(***************************************************************************)
(* What the watcher promises of the transcripts, with its tasks, file      *)
(* table, offsets in bytes and batches left out: a line is recorded once   *)
(* it is whole; the ledger moves past a line, or back, but past none that  *)
(* is neither recorded nor hidden on purpose; and a crash takes rows and   *)
(* position of all transcripts back to one state that was committed.       *)
(* Watcher implements this specification.                                  *)
(***************************************************************************)
EXTENDS Integers

CONSTANTS
    Files,      \* transcripts
    Lines       \* numbers of their lines, from 1 on

VARIABLES
    whole,   \* whole[f]: lines of f that are complete
    unseen,  \* unseen[f]: lines at the head of f that priming hid
    live,    \* rows and position in the ledger
    kept     \* those committed

deliveryVars == <<whole, unseen, live, kept>>

DeliveryInit ==
    /\ whole \in [Files -> Lines \cup {0}]
    /\ unseen = [f \in Files |-> 0]
    /\ live = [rows |-> [f \in Files |-> {}], past |-> [f \in Files |-> 0]]
    /\ kept = live

\* A write is committed together with all before it, or not yet.
Settle == kept' \in {kept, live'}

\* The writer ends a line.
Complete(f) ==
    /\ whole' = [whole EXCEPT ![f] = @ + 1]
    /\ UNCHANGED <<unseen, live, kept>>

\* A whole line is recorded, maybe not for the first time.
Deliver(f, k) ==
    /\ k <= whole[f]
    /\ live' = [live EXCEPT !.rows[f] = @ \cup {k}]
    /\ Settle
    /\ UNCHANGED <<whole, unseen>>

\* The position moves to where nothing before it is missing.
Move(f, n) ==
    /\ n <= whole[f]
    /\ \A k \in Lines : unseen[f] < k /\ k <= n => k \in live.rows[f]
    /\ live' = [live EXCEPT !.past[f] = n]
    /\ Settle
    /\ UNCHANGED <<whole, unseen>>

\* What is there of f, the line being written included, is not to be shown.
Hide(f) ==
    /\ unseen' \in {[unseen EXCEPT ![f] = n] : n \in {whole[f], whole[f] + 1}}
    /\ unseen[f] <= unseen'[f]
    /\ live' = [live EXCEPT !.past[f] = whole[f]]
    /\ Settle
    /\ UNCHANGED whole

Commit ==
    /\ kept' = live
    /\ UNCHANGED <<whole, unseen, live>>

Recover ==
    /\ live' = kept
    /\ UNCHANGED <<whole, unseen, kept>>

DeliveryNext ==
    \/ \E f \in Files :
          \/ Complete(f) \/ Hide(f)
          \/ \E k \in Lines : Deliver(f, k)
          \/ \E n \in Lines \cup {0} : Move(f, n)
    \/ Commit \/ Recover

DeliverySpec == DeliveryInit /\ [][DeliveryNext]_deliveryVars

=============================================================================
