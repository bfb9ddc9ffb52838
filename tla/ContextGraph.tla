----------------------------- MODULE ContextGraph -----------------------------
(***************************************************************************)
(* The hotword graph of src/onnxruntime/src/context_graph.cpp.              *)
(*                                                                          *)
(* BuildContextGraph makes a loop from a start state for every hotword, and *)
(* an escape arc from every state within one that takes its score back; fst *)
(* makes the whole deterministic.  A state of the graph is therefore a set  *)
(* of <<n, r>>: n a state of the loops, r the score that reading it owes.   *)
(***************************************************************************)
EXTENDS Integers, Sequences, FiniteSets, FiniteSetsExt, SequencesExt, Functions

CONSTANTS
    UTF8StringLength,   \* characters of a token
    max_context_length, \* ContextConfig: bytes of a hotword
    max_contexts        \* ContextConfig: hotwords of a graph

\* The label of the escape arcs, which is also the id of blank.
Epsilon == 0

\* A state of the loops: so many tokens of words are read.
Start == [words |-> <<>>, score |-> 0, at |-> 0]

\* A hotword as LoadHwsRes passes it: its size in bytes, whether the vocabulary
\* spells it, its tokens and its score.  count moves on for hotwords that are
\* not skipped only, and context_scores is read at count.  One without tokens
\* makes no arc.
Compiled(hotwords) ==
    LET count(i) == Cardinality({k \in 1..i : hotwords[k].size <= max_context_length})
    IN  {[words |-> hotwords[i].words, score |-> hotwords[count(i)].score, at |-> 0] :
           i \in {i \in DOMAIN hotwords :
                     /\ hotwords[i].size <= max_context_length /\ count(i) <= max_contexts
                     /\ hotwords[i].no_oov /\ hotwords[i].words # <<>>}}

\* incremental_context_score is 0 in every configuration.
TokenScore(n, i) == n.score * UTF8StringLength[n.words[i]]

ReadArc(n) ==
    [label |-> n.words[n.at + 1], weight |-> TokenScore(n, n.at + 1),
     to |-> IF n.at + 1 = Len(n.words) THEN Start ELSE [n EXCEPT !.at = @ + 1]]

EscapeArc(n) ==
    [label |-> Epsilon, to |-> Start,
     weight |-> -SumFunction([i \in 1..n.at |-> TokenScore(n, i)])]

Arcs(graph, n) == IF n = Start THEN {ReadArc(h) : h \in graph}
                  ELSE {ReadArc(n), EscapeArc(n)}

-----------------------------------------------------------------------------
(* fst::Determinize, over the tropical semiring: of the scores with which a  *)
(* label reaches a state the least counts, the least of all is the arc's,    *)
(* and what is left of each goes with the state.                             *)

Root == {<<Start, 0>>}

Reached(graph, state, label) ==
    UNION {{<<a.to, nr[2] + a.weight>> : a \in {a \in Arcs(graph, nr[1]) : a.label = label}} :
             nr \in state}

ArcWeight(graph, state, label) == Min({nr[2] : nr \in Reached(graph, state, label)})

ArcTarget(graph, state, label) ==
    LET reached == Reached(graph, state, label)
        w == ArcWeight(graph, state, label)
        Least(n) == Min({nr[2] : nr \in {nr \in reached : nr[1] = n}})
    IN  {<<nr[1], Least(nr[1]) - w>> : nr \in reached}

-----------------------------------------------------------------------------

\* Variant: a word that breaks off a hotword leaves its score.
NextStateKept(graph, state, word) ==
    IF Reached(graph, state, word) # {}
    THEN [state |-> ArcTarget(graph, state, word), score |-> ArcWeight(graph, state, word)]
    ELSE [state |-> Root, score |-> 0]

\* GetNextState: the arc of the word, or else the escape arc, or none; whatever
\* is not read leads to state 0.
GetNextState(graph, state, word) ==
    IF word # Epsilon /\ Reached(graph, state, word) # {}
    THEN [state |-> ArcTarget(graph, state, word), score |-> ArcWeight(graph, state, word)]
    ELSE [state |-> Root,
          score |-> IF Reached(graph, state, Epsilon) = {} THEN 0
                    ELSE ArcWeight(graph, state, Epsilon)]
=============================================================================
