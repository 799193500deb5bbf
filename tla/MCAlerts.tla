------------------------------ MODULE MCAlerts ------------------------------
(* The instances of Alerts that TLC checks. *)
EXTENDS Alerts, TLC

CONSTANTS ci, src, mem, push, w, only, force, verify, x

\* The baseline guards CI files and two flags of git; the project allows edits
\* of its sources only, as long as its rules can be read.
Baseline == [immutable |-> <<w>>, deny |-> <<>>, allow |-> <<>>,
             bash |-> <<force, verify>>]
OnlySources == [immutable |-> <<>>, deny |-> <<>>, allow |-> <<only>>,
                bash |-> <<>>]
RuleSets == {OnlySources}

Matching1 == {<<w, ci>>, <<only, src>>, <<force, push>>, <<verify, push>>}

\* An edit of a memory file, a source and a CI file, and a push that breaks two
\* rules.
ToolCalls == {[paths |-> <<mem, src, ci>>, commands |-> {}],
              [paths |-> <<>>, commands |-> {push}]}

Removed == [removal |-> TRUE, addition |-> FALSE, names |-> {x}]
Added == [removal |-> FALSE, addition |-> TRUE, names |-> {x}]
Vague == [removal |-> FALSE, addition |-> TRUE, names |-> {}]
OneVerb == {<<Vague, Removed>>, <<Added>>}
=============================================================================
