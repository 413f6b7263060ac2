--------------------------- MODULE OrderedStream ---------------------------
(***************************************************************************)
(* What a writer of a TCP stream promises: the socket gets the content from *)
(* its beginning, in order and each byte once, until the stream is over.    *)
(***************************************************************************)
EXTENDS Naturals, Sequences

VARIABLES
    content,  \* the bytes to write, fixed from the start
    output,   \* the bytes the socket has taken
    over      \* the stream has been shut down or has failed

vars == <<content, output, over>>

Init == output = <<>> /\ over = FALSE

\* More of the content is written, and with its last byte the stream may end
Write ==
    /\ ~over
    /\ \E n \in Len(output) + 1 .. Len(content) :
         /\ output' = SubSeq(content, 1, n)
         /\ over' => n = Len(content)
    /\ over' \in BOOLEAN
    /\ UNCHANGED content

End ==
    /\ ~over /\ over'
    /\ UNCHANGED <<content, output>>

Next == Write \/ End

Spec == Init /\ [][Next]_vars
=============================================================================
