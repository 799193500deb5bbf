----------------------------- MODULE MCLiveBus -----------------------------
(* The instance of LiveBus that TLC checks. *)
EXTENDS LiveBus
=============================================================================
