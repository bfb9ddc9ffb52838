------------------------------ MODULE Punctuation ------------------------------
(***************************************************************************)
(* AddPunc of the two punctuation models (ct-transformer.cpp and            *)
(* ct-transformer-online.cpp) over the texts of one connection, with the    *)
(* callers that end an utterance: FunTpassInferBuffer, which makes any      *)
(* number of texts in a call, and do_decoder of the two-pass server, which  *)
(* clears the cache behind the final call.  A text goes through the network *)
(* in batches of TokenLen tokens; what follows the last sentence end of a   *)
(* batch is put before the next batch.  The online model also keeps, from   *)
(* text to text, the words behind the last sentence end: they are read      *)
(* again, before the new text, but not told again.                          *)
(*                                                                          *)
(* A word is the number of its place in everything the connection says; the *)
(* words of a text are its tokens, one for a Chinese character and one for  *)
(* a run of other letters (seg_jieba is off; the texts are joined so that   *)
(* two such runs stay apart).  Spaces are left out.                         *)
(***************************************************************************)
EXTENDS Integers, Sequences, SequencesExt

CONSTANTS
    TokenLen,  \* TOKEN_LEN
    PopLimit,  \* CACHE_POP_TRIGGER_LIMIT
    MaxText,   \* bound: the words of one text
    MaxWords   \* bound: the words of all texts

ASSUME LengthAssumption == TokenLen \in Nat \ {0} /\ PopLimit \in Nat
ASSUME BoundAssumption == MaxText \in Nat /\ MaxWords \in Nat

VARIABLES
    use,       \* the model and its caller: "offline" (CTTransformer), "2pass"
               \* (CTTransformerOnline on the second pass), "online" (on the first)
    pc,        \* "idle" between two texts, "batch" in the loop
    heard,     \* words of all texts so far
    said,      \* those told before this text
    fin,       \* the text is made in a final call (input_finished)
    arr_cache, \* the words kept for the next text
    input,     \* InputData and strOut from i on
    remain,    \* RemainStr and RemainIDs
    words, puncs, \* sentence_words_list and new_mini_sentence_punc; offline, the
                  \* words and marks that went into NewString
    result,    \* the text with its marks
    cleared,   \* ghost: words heard when the cache was last cleared
    shut       \* ghost: the text before, of the same call, ends in a mark

ghosts == <<cleared, shut>>
vars == <<use, pc, heard, said, fin, arr_cache, input, remain, words, puncs, result, ghosts>>

\* The network's classes; "period" also stands for the question mark, which is
\* treated like it.
Marks == {"none", "comma", "dun", "period"}

Word(w) == <<"word", w>>
Mark(m) == <<"mark", m>>
IsMark(x) == x[1] = "mark"
EndsInMark(s) == s # <<>> /\ IsMark(Last(s))

Init ==
    /\ use \in {"offline", "2pass", "online"}
    /\ pc = "idle" /\ heard = 0 /\ said = 0 /\ fin = FALSE
    /\ arr_cache = <<>> /\ input = <<>> /\ remain = <<>>
    /\ words = <<>> /\ puncs = <<>> /\ result = <<>>
    /\ cleared = 0 /\ shut = FALSE

-----------------------------------------------------------------------------
Text(n) == [k \in 1..n |-> heard + k]

\* A text of n words, behind those of the cache.  Behind a text of a final call
\* only the same call can make another; offline there are no such calls.
AddPunc(n, final) ==
    /\ pc = "idle" /\ n <= MaxText /\ heard + n <= MaxWords
    /\ fin => final
    /\ use = "offline" => ~final
    /\ pc' = "batch" /\ fin' = final
    /\ input' = arr_cache \o Text(n)
    /\ said' = heard /\ heard' = heard + n
    /\ remain' = <<>> /\ words' = <<>> /\ puncs' = <<>> /\ result' = <<>>
    /\ shut' = EndsInMark(result)
    /\ UNCHANGED <<use, arr_cache, cleared>>

\* Where a batch is cut: behind its last sentence end, but for one at its first or
\* last token; if there is none and it has grown long, behind its last comma.
Inner(marks, m) == {k \in 2..Len(marks) - 1 : marks[k] = m}
LastOf(S) == CHOOSE k \in S : \A j \in S : j <= k
LastEnd(marks) ==
    IF Inner(marks, "period") = {} THEN 0 ELSE LastOf(Inner(marks, "period"))
AtComma(marks) ==
    /\ LastEnd(marks) = 0
    /\ Len(marks) > PopLimit /\ Inner(marks, "comma") # {}
Cut(marks) == IF AtComma(marks) THEN LastOf(Inner(marks, "comma")) ELSE LastEnd(marks)

\* The comma it is cut at becomes a period.
Ended(marks) == IF AtComma(marks) THEN [marks EXCEPT ![Cut(marks)] = "period"] ELSE marks

\* Variants: the marks are not cut with the words; the token behind the cut goes.
KeptMarks(marks, k) == marks
RestBehind(ids, k) == SubSeq(ids, k + 2, Len(ids))

Kept(marks, k) == SubSeq(marks, 1, k)
Rest(ids, k) == SubSeq(ids, k + 1, Len(ids))

\* One batch; the last one is not cut.
Batch(marks) ==
    LET n   == IF Len(input) < TokenLen THEN Len(input) ELSE TokenLen
        ids == remain \o SubSeq(input, 1, n)
        k   == IF n = Len(input) THEN Len(ids) ELSE Cut(marks)
    IN  /\ pc = "batch" /\ input # <<>>
        /\ marks \in [1..Len(ids) -> Marks]
        /\ input' = Rest(input, n)
        /\ remain' = Rest(ids, k)
        /\ words' = words \o SubSeq(ids, 1, k)
        /\ puncs' = puncs \o Kept(IF n = Len(input) THEN marks ELSE Ended(marks), k)
        /\ UNCHANGED <<use, pc, heard, said, fin, arr_cache, result, ghosts>>

\* The words from the skip-th on with their marks; of the word at the end of the
\* cache only the mark, which the text before could not tell yet.
Told(skip) ==
    FlattenSeq([k \in DOMAIN words |->
        (IF k > skip THEN <<Word(words[k])>> ELSE <<>>)
          \o (IF k >= skip /\ puncs[k] # "none" THEN <<Mark(puncs[k])>> ELSE <<>>)])

\* Variant: the mark of the last word is told, and told again with the next text.
LeftAsIs(s) == s

\* A mark at the very end is taken off: the next text may show that it is wrong.
WithoutLast(s) == IF EndsInMark(s) THEN Front(s) ELSE s

\* The words behind the last sentence end, but for one at the first or last word.
NextCache == Rest(words, LastEnd(puncs))

\* CTTransformerOnline::AddPunc returns.  On the second pass a text of a final call
\* gets a period from the caller, whether another follows or not.
Returns ==
    /\ pc = "batch" /\ input = <<>> /\ use # "offline"
    /\ result' = WithoutLast(Told(Len(arr_cache)))
                   \o (IF fin /\ use = "2pass" THEN <<Mark("period")>> ELSE <<>>)
    /\ arr_cache' = NextCache
    /\ pc' = "idle"
    /\ UNCHANGED <<use, heard, said, fin, input, remain, words, puncs, ghosts>>

\* No text is waiting for one that would follow it in the same call.
NoText ==
    /\ said' = heard /\ fin' = FALSE /\ shut' = FALSE
    /\ words' = <<>> /\ puncs' = <<>> /\ result' = <<>>

\* A final call returns to do_decoder, with texts or without one: the cache is
\* cleared, and a mark that was withheld is never told.
FinalReturns ==
    /\ pc = "idle" /\ use # "offline"
    /\ arr_cache' = <<>> /\ cleared' = heard
    /\ NoText
    /\ UNCHANGED <<use, pc, heard, input, remain>>

\* A call throws, outside AddPunc: its texts are lost, and do_decoder clears
\* nothing, not even if the call was the final one.
CallThrows ==
    /\ pc = "idle" /\ use # "offline"
    /\ NoText
    /\ UNCHANGED <<use, pc, heard, input, remain, arr_cache, cleared>>

\* A period takes the place of a comma at the end, or follows the last word.
Closed(s) ==
    IF s = <<>> \/ (EndsInMark(s) /\ Last(s) = Mark("period")) THEN s
    ELSE Append(IF EndsInMark(s) THEN Front(s) ELSE s, Mark("period"))

\* CTTransformer::AddPunc returns; nothing is kept.
ReturnsOffline ==
    /\ pc = "batch" /\ input = <<>> /\ use = "offline"
    /\ result' = Closed(Told(0))
    /\ pc' = "idle"
    /\ UNCHANGED <<use, heard, said, fin, arr_cache, input, remain, words, puncs, ghosts>>

Next ==
    \/ \E n \in 0..MaxText, final \in BOOLEAN : AddPunc(n, final)
    \/ \E k \in 1..Len(remain) + TokenLen : \E marks \in [1..k -> Marks] : Batch(marks)
    \/ Returns \/ ReturnsOffline
    \/ FinalReturns \/ CallThrows

Spec == Init /\ [][Next]_vars

-----------------------------------------------------------------------------
(* Properties.                                                               *)

\* Every variable; each word that left the loop of AddPunc has its mark.
TypeOK ==
    /\ use \in {"offline", "2pass", "online"} /\ pc \in {"idle", "batch"}
    /\ heard \in 0..MaxWords /\ said \in 0..heard /\ cleared \in 0..said
    /\ fin \in BOOLEAN /\ shut \in BOOLEAN
    /\ \A s \in {input, remain, words} : \A k \in DOMAIN s : s[k] \in 1..heard
    /\ Len(puncs) = Len(words) /\ \A k \in DOMAIN puncs : puncs[k] \in Marks
    /\ Len(arr_cache) <= heard

WordsOf(s) == FlattenSeq([k \in DOMAIN s |-> IF IsMark(s[k]) THEN <<>> ELSE <<s[k]>>])
SaidWords == WordsOf(result)

\* Each word of a text is told once, in its text and in its place, however the text
\* falls into batches, wherever they are cut, and whatever the cache holds: the
\* cached words, which AddPunc skips by their number alone, are those before the text,
\* and none of an utterance whose final call has returned.
WordsOnce ==
    pc = "idle" =>
        /\ SaidWords = [k \in 1..heard - said |-> Word(said + k)]
        /\ arr_cache = [k \in 1..Len(arr_cache) |-> heard - Len(arr_cache) + k]
        /\ Len(arr_cache) <= heard - cleared

\* The mark the network has now put behind the last word of the text before, which
\* AddPunc has read again with the cache.
MarkBefore == LET k == Len(words) - (heard - said) IN k > 0 /\ puncs[k] # "none"

\* No text has two marks at one place.  A period stands at its end offline, and on
\* the second pass if the final call makes it; any other text ends without a mark.
\* That mark is told at the beginning of the next text, as the network then sees it,
\* unless a final call has returned in between; for this AddPunc always keeps a
\* word.  Two marks can meet where two texts do only within one final call.
MarksPlaced ==
    pc = "idle" =>
        /\ \A k \in 1..Len(result) - 1 : ~(IsMark(result[k]) /\ IsMark(result[k + 1]))
        /\ EndsInMark(result) <=> \/ use = "offline" /\ result # <<>>
                                  \/ use = "2pass" /\ fin
        /\ EndsInMark(result) => Last(result) = Mark("period")
        /\ use # "offline" =>
              /\ heard > cleared => arr_cache # <<>>
              /\ heard > said => (IsMark(result[1]) <=> said > cleared /\ MarkBefore)
              /\ shut => fin
=============================================================================
