---------------------------- MODULE MCDispatcher ----------------------------
(* Instances of Dispatcher for TLC. *)
EXTENDS Dispatcher

CONSTANTS m1, m2, m3, c1, c2, c3, x, y

Block(m, show) == [kind |-> "assistant", msg |-> m, show |-> show, real |-> TRUE,
                   call |-> None, stop |-> None, mode |-> None]
Synthetic(m) == [Block(m, TRUE) EXCEPT !.real = FALSE]
Tool(m, c) == [Block(m, TRUE) EXCEPT !.call = c]
User(mode) == [Block(None, FALSE) EXCEPT !.kind = "prompt", !.mode = mode]
Result(c, mode) == [Block(None, FALSE) EXCEPT !.kind = "result", !.stop = c,
                                              !.mode = mode]
Other(mode) == [Block(None, FALSE) EXCEPT !.kind = "other", !.mode = mode]

\* A turn that thinks before it speaks, and another; a synthetic turn and one
\* without id after a first; three calls of which the second is interrupted; a
\* mode that changes and returns.
SomeTranscripts ==
    {<<Block(m1, FALSE), Block(m1, TRUE), Block(m2, TRUE)>>,
     <<Block(m1, TRUE), Synthetic(m2), Block(None, TRUE)>>,
     <<Tool(m1, c1), Tool(m1, c2), Tool(m1, c3), Result(c2, None)>>,
     <<User(x), Other(y), User(x)>>}
=============================================================================
