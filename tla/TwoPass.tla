-------------------------------- MODULE TwoPass --------------------------------
(***************************************************************************)
(* What the 2-pass service promises of every segment of speech: the         *)
(* streaming recogniser hears it once, in adjoining pieces from its         *)
(* beginning to its end, of which exactly the last is marked final; and the *)
(* second pass hears it once as a whole.  A client that asks for one of the *)
(* two passes only gets that one.                                           *)
(***************************************************************************)
EXTENDS Integers, Sequences

CONSTANT Time   \* positions in a stream

VARIABLES
    open,     \* where the segment that has no end yet began, or -1
    given,    \* the pieces the streaming recogniser heard of its utterance
    ended,    \* segments that ended and that it did not hear to their end
    second,   \* segments the second pass still has to hear
    kept      \* FALSE while an utterance is left without its final piece

vars == <<open, given, ended, second, kept>>

Init == open = -1 /\ given = <<>> /\ ended = <<>> /\ second = <<>> /\ kept = TRUE

\* The streaming recogniser is within an utterance.
Within == given # <<>> /\ ~given[Len(given)].final

Opens == open = -1 /\ open' \in Time /\ UNCHANGED <<given, ended, second, kept>>

\* online and offline are the passes the client asks for: one that gives up the
\* first pass while it speaks leaves the streaming recogniser in the middle.
Closes(s, e, online, offline) ==
    /\ s < e /\ (open = -1 \/ s = open)
    /\ open' = -1 /\ given' = given
    /\ ended' = IF online THEN Append(ended, <<s, e>>) ELSE ended
    /\ second' = IF offline THEN Append(second, <<s, e>>) ELSE second
    /\ kept' = (kept /\ (online \/ ~Within))

\* Where the next piece begins, when the recogniser was not left in the middle.
NextFrom ==
    IF Within THEN given[Len(given)].to
    ELSE IF ended # <<>> THEN ended[1][1] ELSE open

\* The last piece reaches the end of the segment, unless that was put back behind
\* what the recogniser heard already.
Hears(from, to, final) ==
    /\ given' = Append(IF Within THEN given ELSE <<>>,
                       [from |-> from, to |-> to, final |-> final])
    /\ kept => from = NextFrom
    /\ IF final
       THEN /\ ended # <<>> /\ ended' = Tail(ended)
            /\ to = IF from > ended[1][2] THEN from ELSE ended[1][2]
       ELSE /\ ended # <<>> \/ open # -1
            /\ from < to /\ (ended # <<>> => to < ended[1][2])
            /\ ended' = ended
    /\ kept' = (kept \/ final)
    /\ UNCHANGED <<open, second>>

Rereads == second # <<>> /\ second' = Tail(second) /\ UNCHANGED <<open, given, ended, kept>>

\* The stream is over: neither recogniser is left with a part of it.
Restart ==
    /\ ended = <<>> /\ second = <<>> /\ (kept => ~Within)
    /\ open' = -1
    /\ UNCHANGED <<given, ended, second, kept>>

Next ==
    \/ Opens \/ Rereads \/ Restart
    \/ /\ open' = -1 /\ given' = given
       /\ \E s, e \in Time, online, offline \in BOOLEAN : Closes(s, e, online, offline)
    \/ /\ <<given', ended'>> # <<given, ended>>
       /\ \E from, to \in Time, final \in BOOLEAN : Hears(from, to, final)

Spec == Init /\ [][Next]_vars
=============================================================================
