----------------------------- MODULE MCScoring -----------------------------
(* Instances of Scoring for TLC. *)
EXTENDS Scoring

Text(live, new, prose) == [live |-> live, new |-> new, tool |-> FALSE,
                           files |-> {}, prose |-> prose]
Tool(live, new, files) == [live |-> live, new |-> new, tool |-> TRUE,
                           files |-> files, prose |-> "short"]

\* Prose that begins a turn or goes on with it, a claim, tool calls that write
\* a file or none, and a tool call from the backlog.
SomeLines ==
    {Text(TRUE, TRUE, "long"), Text(TRUE, FALSE, "long"),
     Text(TRUE, FALSE, "claim"), Tool(FALSE, TRUE, {})} \cup {Tool(TRUE, FALSE, {f}) : f \in Files}

\* One file at a time and nothing else.
Edits == {Tool(TRUE, TRUE, {f}) : f \in Files}

\* Earlier sessions of the project wrote one file each.
Row(e) == [s |-> e, n |-> 1, creep |-> FALSE]
CONSTANTS Old1, Old2
TwoEarlier == <<Row(Old1), Row(Old2)>>
OneEarlier == <<Row(Old1)>>
=============================================================================
