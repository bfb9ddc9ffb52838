-------------------------- MODULE MCCtcPrefixDecoder --------------------------
(***************************************************************************)
(* Blank and two tokens, one of one character and one of two.               *)
(***************************************************************************)
EXTENDS CtcPrefixDecoder

MCTokens == 0..2
MCLengths == [w \in MCTokens |-> IF w = 2 THEN 2 ELSE 1]

FrameOf(t) == [w \in MCTokens |-> t[w + 1]]
MCFrames == {FrameOf(<<4, 2, 1>>), FrameOf(<<1, 3, 3>>)}

Hotword(words, n) == [words |-> words, score |-> n, size |-> Len(words), no_oov |-> TRUE]

\* Four, one more than a graph takes, two of them with the same beginning; two
\* that begin differently; single tokens; one that is unknown; one that is too
\* long and comes last, or first, where it shifts the scores; one that another
\* begins with, of a lower score and of a higher one; and both of these in one.
MCLists ==
    {<<Hotword(<<2, 2>>, 1), Hotword(<<2, 1>>, 2), Hotword(<<1>>, 1), Hotword(<<2>>, 3)>>,
     <<Hotword(<<1, 2>>, 1), Hotword(<<2, 1, 1>>, 1)>>,
     <<Hotword(<<1>>, 1), Hotword(<<2>>, 1)>>,
     <<Hotword(<<1, 1>>, 1), [Hotword(<<2>>, 3) EXCEPT !.no_oov = FALSE], Hotword(<<1, 2, 1>>, 1)>>,
     <<Hotword(<<1, 2>>, 2), Hotword(<<1, 1, 2, 1>>, 3)>>,
     <<Hotword(<<1, 1, 2, 1>>, 3), Hotword(<<1, 2>>, 2), Hotword(<<2>>, 1)>>,
     <<Hotword(<<1>>, 1), Hotword(<<1, 2>>, 2)>>,
     <<Hotword(<<1, 2, 1>>, 1), Hotword(<<1>>, 3), Hotword(<<2>>, 2)>>,
     <<Hotword(<<1>>, 2), Hotword(<<1, 1, 2, 1>>, 1), Hotword(<<1, 2>>, 3)>>}
=============================================================================
