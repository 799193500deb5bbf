----------------------------- MODULE MCWatcher -----------------------------
(* Instances of Watcher for TLC. *)
EXTENDS Watcher, TLC

\* Two content blocks of one message, then another message.
Msg3 == <<1, 1, 2>>
=============================================================================
