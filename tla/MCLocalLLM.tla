----------------------------- MODULE MCLocalLLM -----------------------------
(* The instance of LocalLLM that TLC checks, with the grader that calls under *)
(* another one's kind: calls go to the second profile while it is on, those   *)
(* of the kind user_rubric, which nobody uses, excepted.                      *)
EXTENDS LocalLLM

CONSTANTS drift, synth, rubric, user

ToSecond == [k \in {drift, synth, rubric, user} |-> IF k = user THEN 1 ELSE 2]
OnAndOff == {[route |-> ToSecond, second |-> TRUE],
            [route |-> ToSecond, second |-> FALSE]}
=============================================================================
