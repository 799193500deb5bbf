--------------------------- MODULE MCSessionClose ---------------------------
(* Instances of SessionClose for TLC; sessions are interchangeable in the    *)
(* safety properties only, so no symmetry is declared.                       *)
EXTENDS SessionClose, TLC

\* Two of the eight failure modes: a report can be cut off in the middle.
TwoModes == {1, 2}
=============================================================================
