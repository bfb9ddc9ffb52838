----------------------------- MODULE SegmentStream -----------------------------
(***************************************************************************)
(* What Audio::Split relies on when it reads the segments of the VAD: the   *)
(* beginnings and ends it is told alternate, they move forward, and they    *)
(* lie in the audio that was analysed.  Times are in ms from the start of   *)
(* the stream; -1 stands for "no segment", as in the code.  What is heard    *)
(* of late is what Split still holds: a segment begins no more than Lag ago.*)
(***************************************************************************)
EXTENDS Integers

CONSTANT Lag    \* how late the VAD may tell that a segment began

VARIABLES
    heard,  \* how much audio was analysed
    open,   \* where the segment that has no end yet began
    last    \* where the last segment that was told ended

vars == <<heard, open, last>>

Init == heard = 0 /\ open = -1 /\ last = 0

Hear == heard' > heard /\ UNCHANGED <<open, last>>

\* [s, -1]
Begin(s) ==
    /\ open = -1 /\ s \in last..heard - 1 /\ s >= heard - Lag
    /\ open' = s
    /\ UNCHANGED <<heard, last>>

\* [-1, e]
End(e) ==
    /\ open # -1 /\ e \in open + 1..heard
    /\ open' = -1 /\ last' = e /\ heard' = heard

\* [s, e]
Whole(s, e) ==
    /\ open = -1 /\ s \in last..heard - 1 /\ s >= heard - Lag /\ e \in s + 1..heard
    /\ last' = e
    /\ UNCHANGED <<heard, open>>

\* The stream is over, the next one starts anew.  A segment that the end leaves
\* open has just begun.
Restart ==
    /\ open = -1 \/ heard - open <= Lag
    /\ heard' = 0 /\ open' = -1 /\ last' = 0

Next ==
    \/ Hear \/ Restart
    \/ \E t \in last..heard : Begin(t) \/ End(t) \/ \E s \in last..heard : Whole(s, t)

Spec == Init /\ [][Next]_vars
=============================================================================
