---------------------------- MODULE MCSynthesis ----------------------------
(* Instances of Synthesis for TLC. *)
EXTENDS Synthesis, TLC

\* A little, some growth, a full context; from Full to 1 is a compaction.
ThreeLevels == {1, 3, 5}

Symmetry == Permutations(Requests)
=============================================================================
