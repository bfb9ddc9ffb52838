--------------------------- MODULE CtcPrefixDecoder ---------------------------
(***************************************************************************)
(* The prefix beam search with hotwords of                                  *)
(* src/onnxruntime/src/ctc-prefix-decoder.cpp, one frame after the other.   *)
(*                                                                          *)
(* Scores are probabilities, not their logarithms: LogAdd is +, the sum of  *)
(* two log probabilities their product, -kFloatMax is 0 (to which float     *)
(* arithmetic sticks as a product does), and a hotword score n multiplies   *)
(* by 2^n.                                                                  *)
(***************************************************************************)
EXTENDS ContextGraph

CONSTANTS
    Tokens,          \* ids of the vocabulary
    first_beam_size, second_beam_size,
    Frames,          \* the probabilities a frame may give the tokens
    HotwordLists,    \* what a client may send as hotwords
    MaxFrames        \* bound: frames of an utterance

blank == 0

ASSUME TokenAssumption == blank \in Tokens /\ Tokens \subseteq Nat /\ IsFiniteSet(Tokens)
ASSUME LengthAssumption == UTF8StringLength \in [Tokens -> Nat]
ASSUME BeamAssumption ==
    first_beam_size \in Nat \ {0} /\ second_beam_size \in Nat \ {0}
ASSUME FrameAssumption == Frames \subseteq [Tokens -> Nat \ {0}]
ASSUME HotwordAssumption ==
    HotwordLists \subseteq
      Seq([words : Seq(Tokens \ {blank}), score : Nat, size : Nat, no_oov : BOOLEAN])

VARIABLES
    context_graph,   \* the hotwords of context_graph_
    cur_hyps,        \* cur_hyps_: hypotheses and their PrefixScore
    abs_time_step,
    phase,           \* the utterance: "fresh", "search", "done"
    text,            \* the hypothesis of result_[0]
    heard, survivors, \* ghosts: its frames, and what each left in cur_hyps_
    hotwords         \* ghost: what was loaded

vars == <<context_graph, cur_hyps, abs_time_step, phase, text, heard, survivors, hotwords>>

\* nullptr, which does what a graph without hotwords does.
NoGraph == {}

-----------------------------------------------------------------------------
(* PrefixScore.                                                              *)

NoScore == [s |-> 0, ns |-> 0, v_s |-> 0, v_ns |-> 0, cur_token_prob |-> 0,
            times_s |-> <<>>, times_ns |-> <<>>,
            context_state |-> Root, context_score |-> 0]

score(h) == h.s + h.ns
viterbi_score(h) == Max({h.v_s, h.v_ns})
times(h) == IF h.v_s > h.v_ns THEN h.times_s ELSE h.times_ns

TwoTo(n) == LET p[i \in 0..n] == IF i = 0 THEN 1 ELSE 2 * p[i - 1] IN p[n]
total_score(h) == score(h) * TwoTo(h.context_score)

CopyContext(n, h) ==
    [n EXCEPT !.context_state = h.context_state, !.context_score = h.context_score]

UpdateContext(n, h, word) ==
    LET next == GetNextState(context_graph, h.context_state, word)
    IN  [n EXCEPT !.context_state = next.state,
                  !.context_score = h.context_score + next.score]

-----------------------------------------------------------------------------
(* Token passing: what a hypothesis h gives a hypothesis n of the next frame *)
(* for a token of probability prob.                                          *)

\* Case 0: *a and blank.
Blanked(n, h, prob) ==
    [n EXCEPT !.s = @ + score(h) * prob, !.v_s = viterbi_score(h) * prob,
              !.times_s = times(h)]

\* Case 1: *a and a stay *a.
Repeated(n, h, prob) ==
    LET sum == [n EXCEPT !.ns = @ + h.ns * prob]
        best == [sum EXCEPT !.v_ns = h.v_ns * prob]
    IN  IF n.v_ns >= h.v_ns * prob THEN sum
        ELSE IF n.cur_token_prob >= prob THEN best
        ELSE [best EXCEPT !.cur_token_prob = prob,
                          !.times_ns = Append(Front(h.times_ns), abs_time_step)]

\* Variants: a token is repeated without a blank; with the times of the paths
\* that end in the token.
SourceAny(h, same) == [sum |-> score(h), best |-> viterbi_score(h), times |-> times(h)]
SourceTimes(h, same) ==
    IF same THEN [sum |-> h.s, best |-> h.v_s, times |-> h.times_ns] ELSE SourceAny(h, same)

\* Case 2: *a, blank and a make *aa; case 3: *a and b, after a blank or not.
Source(h, same) ==
    IF same THEN [sum |-> h.s, best |-> h.v_s, times |-> h.times_s]
    ELSE [sum |-> score(h), best |-> viterbi_score(h), times |-> times(h)]

Appended(n, h, same, prob) ==
    LET from == Source(h, same)
        sum == [n EXCEPT !.ns = @ + from.sum * prob]
    IN  IF n.v_ns >= from.best * prob THEN sum
        ELSE [sum EXCEPT !.v_ns = from.best * prob, !.cur_token_prob = prob,
                         !.times_ns = Append(from.times, abs_time_step)]

\* The order in which TopK returns tokens.
Before(f, v, w) == f[v] > f[w] \/ (f[v] = f[w] /\ v < w)
TopK(f) == {w \in Tokens : Cardinality({v \in Tokens : Before(f, v, w)}) < first_beam_size}

Hyps == DOMAIN cur_hyps
Extends(p, top) == p # <<>> /\ Last(p) \in top /\ Front(p) \in Hyps
Repeats(p, top) == p # <<>> /\ Last(p) \in top /\ p \in Hyps

NextHyps(top) ==
    {p \in Hyps : blank \in top \/ Repeats(p, top)}
      \cup {Append(p, w) : p \in Hyps, w \in top \ {blank}}

\* The PrefixScore of p after a frame f.  Both p and the hypothesis it extends
\* may write it, and the first writer gives the context: ahead says that
\* cur_hyps_, a hash table, has the latter first.
Passed(p, f, top, ahead) ==
    LET Blank(n) == IF p \in Hyps /\ blank \in top THEN Blanked(n, cur_hyps[p], f[blank]) ELSE n
        Repeat(n) == IF Repeats(p, top) THEN Repeated(n, cur_hyps[p], f[Last(p)]) ELSE n
        Extend(n) == IF Extends(p, top)
                     THEN LET q == Front(p)
                          IN  Appended(n, cur_hyps[q], q # <<>> /\ Last(q) = Last(p), f[Last(p)])
                     ELSE n
        n == Blank(IF ahead THEN Repeat(Extend(NoScore)) ELSE Extend(Repeat(NoScore)))
        copied == p \in Hyps /\ \/ ~Extends(p, top)
                                \/ blank \in top /\ Before(f, blank, Last(p))
                                \/ ~ahead
    IN  IF copied THEN CopyContext(n, cur_hyps[p])
        ELSE UpdateContext(n, cur_hyps[Front(p)], Last(p))

\* nth_element keeps the best; of equals, any.
Beams(next) ==
    LET size == Min({Cardinality(DOMAIN next), second_beam_size})
        total == [p \in DOMAIN next |-> total_score(next[p])]
        best == {p \in DOMAIN next :
                   Cardinality({q \in DOMAIN next : total[q] >= total[p]}) <= size}
        equal == {p \in DOMAIN next \ best :
                    Cardinality({q \in DOMAIN next : total[q] > total[p]}) < size}
    IN  {best \cup some : some \in kSubset(size - Cardinality(best), equal)}

-----------------------------------------------------------------------------

FirstHyps == [p \in {<<>>} |-> [NoScore EXCEPT !.s = 1, !.v_s = 1, !.v_ns = 1]]

Init ==
    /\ context_graph = NoGraph /\ hotwords = <<>>
    /\ cur_hyps = FirstHyps /\ abs_time_step = 0
    /\ phase = "fresh" /\ text = <<>> /\ heard = <<>> /\ survivors = <<>>

\* Variant: the hypotheses of the piece before are still there.
StartKeepsHyps ==
    /\ phase = "done"
    /\ abs_time_step' = 0
    /\ phase' = "fresh" /\ heard' = <<>> /\ survivors' = <<>>
    /\ UNCHANGED <<context_graph, cur_hyps, text, hotwords>>

\* Reset, before every piece of audio.
StartUtterance ==
    /\ phase = "done"
    /\ cur_hyps' = FirstHyps /\ abs_time_step' = 0
    /\ phase' = "fresh" /\ heard' = <<>> /\ survivors' = <<>>
    /\ UNCHANGED <<context_graph, text, hotwords>>

\* A client that sends no hotwords leaves the graph that is there.
LoadHwsRes(list) ==
    /\ phase = "fresh" /\ list # <<>>
    /\ context_graph' = Compiled(list) /\ hotwords' = list
    /\ UNCHANGED <<cur_hyps, abs_time_step, phase, text, heard, survivors>>

UnloadHwsRes ==
    /\ phase = "fresh"
    /\ context_graph' = NoGraph /\ hotwords' = <<>>
    /\ UNCHANGED <<cur_hyps, abs_time_step, phase, text, heard, survivors>>

\* One turn of CtcSearch's loop.
CtcSearchFrame(f) ==
    /\ phase \in {"fresh", "search"} /\ abs_time_step < MaxFrames
    /\ LET top == TopK(f)
           differ == {p \in Hyps : Passed(p, f, top, TRUE) # Passed(p, f, top, FALSE)}
       IN  \E ahead \in SUBSET differ :
             LET next == [p \in NextHyps(top) |-> Passed(p, f, top, p \in ahead)]
             IN  \E kept \in Beams(next) :
                   /\ cur_hyps' = Restrict(next, kept)
                   /\ survivors' = Append(survivors, kept)
    /\ abs_time_step' = abs_time_step + 1
    /\ phase' = "search" /\ heard' = Append(heard, f)
    /\ UNCHANGED <<context_graph, text, hotwords>>

\* UpdateFinalContext of one hypothesis.
FinalContext(h) == IF h.context_state # Root THEN UpdateContext(h, h, Epsilon) ELSE h

\* UpdateFinalContext and UpdateResult, at the end of CtcSearch.
CtcFinalizeDecode ==
    /\ phase = "search"
    /\ cur_hyps' = [p \in Hyps |-> FinalContext(cur_hyps[p])]
    /\ text' \in {p \in Hyps : \A q \in Hyps : total_score(cur_hyps'[p]) >= total_score(cur_hyps'[q])}
    /\ phase' = "done"
    /\ UNCHANGED <<context_graph, abs_time_step, heard, survivors, hotwords>>

Next ==
    \/ StartUtterance
    \/ \E list \in HotwordLists : LoadHwsRes(list)
    \/ UnloadHwsRes
    \/ \E f \in Frames : CtcSearchFrame(f)
    \/ CtcFinalizeDecode

Spec == Init /\ [][Next]_vars

-----------------------------------------------------------------------------
(* What the search should compute: a sum over alignments, one token a frame. *)

Prob(a) ==
    LET prob[i \in 0..Len(a)] == IF i = 0 THEN 1 ELSE prob[i - 1] * heard[i][a[i]]
    IN  prob[Len(a)]

\* The text of an alignment: what is neither blank nor a repetition.
Collapsed(a) ==
    LET made[i \in 0..Len(a)] ==
          IF i = 0 THEN <<>>
          ELSE IF a[i] = blank \/ (i > 1 /\ a[i - 1] = a[i]) THEN made[i - 1]
          ELSE Append(made[i - 1], a[i])
    IN  made[Len(a)]

\* No beam has cut an alignment: each of its tokens was among the best of its
\* frame, and each of its beginnings makes a text that was kept.
Alignments ==
    {a \in [1..Len(heard) -> Tokens] :
       \A i \in DOMAIN a : /\ a[i] \in TopK(heard[i])
                           /\ Collapsed(SubSeq(a, 1, i)) \in survivors[i]}

ProbSum(S) == SumFunction([a \in S |-> Prob(a)])
ProbMax(S) == Max({0} \cup {Prob(a) : a \in S})

\* Hotwords that are neither too long, nor too many, nor unknown.  The j-th of those
\* that are not too long has the j-th score of the list, whosever that is: one that
\* is too long shifts the scores of all behind it.
Usable ==
    LET Short(h) == h.size <= max_context_length
        place(j) == Cardinality({k \in 1..j : Short(hotwords[k])})
    IN  {[words |-> hotwords[j].words, score |-> hotwords[place(j)].score] :
           j \in {j \in DOMAIN hotwords :
                     /\ Short(hotwords[j]) /\ hotwords[j].no_oov /\ hotwords[j].words # <<>>
                     /\ place(j) <= max_contexts}}

HotwordScore(h) == h.score * SumFunction([i \in DOMAIN h.words |-> UTF8StringLength[h.words[i]]])

\* The scores of all ways to read the words of p from the i-th to the j-th as
\* hotwords one after the other, for every j; and the same where one more has
\* been begun, which counts nothing.
Wholes(p, i) ==
    LET whole[j \in i - 1..Len(p)] ==
          IF j = i - 1 THEN {0}
          ELSE UNION {{n + HotwordScore(h) : n \in whole[j - Len(h.words)]} :
                        h \in {h \in Usable : /\ Len(h.words) <= j - i + 1
                                             /\ h.words = SubSeq(p, j - Len(h.words) + 1, j)}}
    IN  whole

Begun(p, i) ==
    LET whole == Wholes(p, i)
        Begins(q) == \E h \in Usable : Len(q) < Len(h.words) /\ IsPrefix(q, h.words)
    IN  [j \in i - 1..Len(p) |->
           UNION {whole[k] : k \in {k \in i - 1..j - 1 : Begins(SubSeq(p, k + 1, j))}}]

\* A text is read from left to right, as far as hotwords go; the word that they do
\* not go on with is not tried as the beginning of another.  Where what is read can
\* end within a hotword it is taken to: that one is paid back, and with it a shorter
\* one that it begins with.  Of several ways to read it, the least score counts.
Bonus(p) ==
    LET from[i \in 1..Len(p) + 2] ==
          IF i > Len(p) THEN 0
          ELSE LET whole == Wholes(p, i)
                   begun == Begun(p, i)
                   end == Max({j \in i - 1..Len(p) : whole[j] \cup begun[j] # {}})
               IN  Min(IF begun[end] # {} THEN begun[end] ELSE whole[end]) + from[end + 2]
    IN  from[1]

-----------------------------------------------------------------------------

\* The type of every variable.
TypeOK ==
    /\ context_graph \in SUBSET
         {h \in [words : Seq(Tokens \ {blank}), score : Nat, at : {0}] : h.words # <<>>}
    /\ <<>> \in Hyps \/ abs_time_step > 0
    /\ \A p \in Hyps : p \in Seq(Tokens \ {blank}) /\ Len(p) <= abs_time_step
    /\ Hyps # {} /\ Cardinality(Hyps) <= second_beam_size
    /\ abs_time_step = Len(heard) /\ heard \in Seq(Frames)
    /\ Len(survivors) = Len(heard)
    /\ phase \in {"fresh", "search", "done"}

\* Pruning is all the search loses: after every frame the two scores of a text
\* are the sums over its alignments that no beam has cut, and the two Viterbi
\* scores the best of them.  None is counted twice, none with another text, and
\* the order in which the hypotheses are visited does not show.
Exact ==
    phase # "fresh" =>
      LET alignments == Alignments
          collapsed == [a \in alignments |-> Collapsed(a)]
      IN  \A p \in Hyps :
            LET all == {a \in alignments : collapsed[a] = p}
                blanked == {a \in all : Last(a) = blank}
            IN  /\ cur_hyps[p].s = ProbSum(blanked)
                /\ cur_hyps[p].ns = ProbSum(all \ blanked)
                /\ cur_hyps[p].v_s = ProbMax(blanked)
                /\ cur_hyps[p].v_ns = ProbMax(all \ blanked)

\* When the search is over, a hypothesis has the scores of the hotwords its text
\* is read as, whatever their order in the list, and none that was only begun: what
\* the graph gives word by word and takes back adds up to one reading of the text.
ContextScore ==
    phase = "done" => \A p \in Hyps : cur_hyps[p].context_score = Bonus(p)

\* The times of a text are in order and within the utterance, and the assertions
\* about them hold: CHECK_GT in CtcSearch (there is a last time to replace) and
\* CHECK_EQ in UpdateResult (a time for every token).
TimesMatch ==
    /\ \A p \in Hyps : LET t == times(cur_hyps[p])
                       IN  /\ \A j \in DOMAIN t : t[j] \in 0..abs_time_step - 1
                           /\ \A j \in DOMAIN t : j > 1 => t[j - 1] < t[j]
    /\ \A p \in Hyps \ {<<>>} : cur_hyps[p].v_ns > 0 => cur_hyps[p].times_ns # <<>>
    /\ phase = "done" => \A p \in Hyps : Len(times(cur_hyps[p])) = Len(p)
=============================================================================
