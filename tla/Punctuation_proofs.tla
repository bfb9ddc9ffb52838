--------------------------- MODULE Punctuation_proofs --------------------------
(***************************************************************************)
(* Proofs about Punctuation, for texts, batches and caches of any length    *)
(* and any marks the network may give: every word is told once and in its   *)
(* place, and no two marks stand at one place.                              *)
(***************************************************************************)
EXTENDS Punctuation, SequenceTheorems, WellFoundedInduction, TLAPS

-----------------------------------------------------------------------------
(* Induction over numbers, and what it gives about FlattenSeq.               *)

\* A set of numbers has a least one.
LEMMA Least ==
    ASSUME NEW T, T \subseteq Nat, T # {}
    PROVE  \E n \in T : \A m \in T : n <= m
<1> DEFINE R == OpToRel(<, Nat)
<1>1. IsWellFoundedOn(R, Nat)
  BY NatLessThanWellFounded
<1>2. \A x, y \in Nat : <<x, y>> \in R <=> x < y
  BY DEF OpToRel
<1>. HIDE DEF R
<1>3. PICK n \in T : \A m \in T : ~ (<<m, n>> \in R)
  BY <1>1, WFMin
<1>4. n \in Nat
  OBVIOUS
<1>5. ASSUME NEW m \in T PROVE n <= m
  <2>1. m \in Nat
    OBVIOUS
  <2>2. ~(m < n)
    BY <1>2, <1>3, <1>4, <2>1
  <2>. QED  BY <1>4, <2>1, <2>2
<1>. QED  BY <1>5

\* Hence induction: what holds of 0, and with k of k + 1, holds up to n.
LEMMA UpTo ==
    ASSUME NEW n \in Nat, NEW H, H \subseteq Nat, 0 \in H,
           \A k \in 0..n - 1 : k \in H => k + 1 \in H
    PROVE  \A k \in 0..n : k \in H
<1> DEFINE T == {k \in Nat : k <= n /\ k \notin H}
<1>1. SUFFICES ASSUME T # {} PROVE FALSE
  OBVIOUS
<1>2. T \subseteq Nat
  OBVIOUS
<1>3. \E k \in T : \A m \in T : k <= m
  BY <1>1, <1>2, Least
<1>4. PICK k \in T : \A m \in T : k <= m
  BY <1>3
<1>5. k \in Nat /\ k <= n /\ k \notin H /\ k # 0
  OBVIOUS
<1>6. k - 1 \in Nat /\ k - 1 <= n /\ k - 1 \in 0..n - 1 /\ (k - 1) + 1 = k
  BY <1>5
<1>7. k - 1 \notin T
  BY <1>4, <1>5, <1>6
<1>8. k - 1 \in H
  BY <1>6, <1>7
<1>9. (k - 1) + 1 \in H
  BY <1>6, <1>8
<1>. QED  BY <1>5, <1>6, <1>9

\* g[k] is what the first k sequences of ss make.
Joins(ss, n, g) == g[0] = <<>> /\ \A k \in 1..n : g[k] = g[k - 1] \o ss[k]

\* There is but one g for n sequences.
LEMMA OneJoins ==
    ASSUME NEW n \in Nat, NEW ss, NEW g, NEW h, Joins(ss, n, g), Joins(ss, n, h)
    PROVE  g[n] = h[n]
<1> DEFINE H == {k \in Nat : g[k] = h[k]}
<1>1. 0 \in H
  BY DEF Joins
<1>2. ASSUME NEW k \in 0..n - 1, k \in H PROVE k + 1 \in H
  <2>1. k + 1 \in 1..n /\ (k + 1) - 1 = k
    OBVIOUS
  <2>2. g[k + 1] = g[k] \o ss[k + 1]
    BY <2>1 DEF Joins
  <2>3. h[k + 1] = h[k] \o ss[k + 1]
    BY <2>1 DEF Joins
  <2>4. g[k] = h[k]
    BY <1>2
  <2>5. g[k + 1] = h[k + 1]
    BY <2>2, <2>3, <2>4
  <2>. QED  BY <2>1, <2>5
<1>3. H \subseteq Nat
  OBVIOUS
<1>. HIDE DEF H
<1>4. \A k \in 0..n : k \in H
  BY <1>1, <1>2, <1>3, UpTo
<1>5. n \in H
  BY <1>4
<1>. QED  BY <1>5 DEF H

\* There is one.
LEMMA SomeJoins ==
    ASSUME NEW S, NEW n \in Nat, NEW ss, \A k \in 1..n : ss[k] \in Seq(S)
    PROVE  \E g \in [0..n -> Seq(S)] : Joins(ss, n, g)
<1> DEFINE H == {m \in Nat : \E g \in [0..m -> Seq(S)] : Joins(ss, m, g)}
<1>1. 0 \in H
  <2> DEFINE g == [k \in 0..0 |-> <<>>]
  <2>1. g \in [0..0 -> Seq(S)]
    OBVIOUS
  <2>2. Joins(ss, 0, g)
    BY DEF Joins
  <2>. QED  BY <2>1, <2>2
<1>2. ASSUME NEW m \in 0..n - 1, m \in H PROVE m + 1 \in H
  <2>1. PICK g \in [0..m -> Seq(S)] : Joins(ss, m, g)
    BY <1>2
  <2>2. m \in Nat /\ m + 1 \in Nat /\ m + 1 \in 1..n /\ (m + 1) - 1 = m /\ m \in 0..m
    OBVIOUS
  <2> DEFINE s == g[m] \o ss[m + 1]
             h == [k \in 0..m + 1 |-> IF k = m + 1 THEN s ELSE g[k]]
  <2>3. ss[m + 1] \in Seq(S) /\ g[m] \in Seq(S)
    BY <2>2
  <2>4. s \in Seq(S)
    BY <2>3, ConcatProperties
  <2>. HIDE DEF s
  <2>5. h \in [0..m + 1 -> Seq(S)]
    BY <2>4, <2>2
  <2>6. h[0] = <<>>
    BY <2>1, <2>2 DEF Joins
  <2>7. ASSUME NEW k \in 1..m + 1 PROVE h[k] = h[k - 1] \o ss[k]
    <3>1. CASE k = m + 1
      <4>1. h[k] = s /\ h[k - 1] = g[m]
        BY <3>1, <2>2
      <4>. QED  BY <3>1, <4>1 DEF s
    <3>2. CASE k # m + 1
      <4>1. k \in 1..m /\ k \in 0..m + 1 /\ k - 1 \in 0..m + 1 /\ k - 1 # m + 1
        BY <3>2, <2>2
      <4>2. g[k] = g[k - 1] \o ss[k]
        BY <2>1, <4>1 DEF Joins
      <4>3. h[k] = g[k] /\ h[k - 1] = g[k - 1]
        BY <3>2, <4>1
      <4>. QED  BY <4>2, <4>3
    <3>. QED  BY <3>1, <3>2
  <2>. HIDE DEF h
  <2>8. Joins(ss, m + 1, h)
    BY <2>6, <2>7 DEF Joins
  <2>. QED  BY <2>2, <2>5, <2>8
<1>3. H \subseteq Nat
  OBVIOUS
<1>. HIDE DEF H
<1>4. \A k \in 0..n : k \in H
  BY <1>1, <1>2, <1>3, UpTo
<1>5. n \in H
  BY <1>4
<1>. QED  BY <1>5 DEF H

\* FlattenSeq is such a g, taken at the end.
LEMMA FlattenJoins ==
    ASSUME NEW S, NEW ss \in Seq(Seq(S)), NEW n, n = Len(ss), NEW g, Joins(ss, n, g)
    PROVE  FlattenSeq(ss) = g[n]
<1>0. n \in Nat /\ (n = 0 => ss = <<>>) /\ \A k \in 1..n : ss[k] \in Seq(S)
  OBVIOUS
<1>1. CASE n = 0
  <2>1. Len(ss) = 0
    BY <1>0, <1>1
  <2>2. FlattenSeq(ss) = <<>>
    BY <2>1, <1>1 DEF FlattenSeq
  <2>. QED  BY <1>1, <2>2 DEF Joins
<1>2. CASE n # 0
  <2> DEFINE Eq(f) == f = [i \in 1..n |-> IF i = 1 THEN ss[i] ELSE f[i - 1] \o ss[i]]
             h == CHOOSE f : Eq(f)
             d == [i \in 1..n |-> g[i]]
  <2>1. g[1] = ss[1]
    <3>1. 1 \in 1..n /\ 1 - 1 = 0
      BY <1>0, <1>2
    <3>2. g[1] = g[0] \o ss[1]
      BY <3>1, <1>0 DEF Joins
    <3>3. g[0] = <<>>
      BY <1>0 DEF Joins
    <3>4. <<>> \o ss[1] = ss[1]
      BY <3>1, <1>0, ConcatEmptySeq
    <3>. QED  BY <3>2, <3>3, <3>4
  <2>2. ASSUME NEW i \in 1..n PROVE d[i] = IF i = 1 THEN ss[i] ELSE d[i - 1] \o ss[i]
    <3>1. CASE i = 1
      BY <3>1, <2>1
    <3>2. CASE i # 1
      <4>1. g[i] = g[i - 1] \o ss[i]
        BY <1>0 DEF Joins
      <4>2. i - 1 \in 1..n
        BY <3>2, <1>0
      <4>3. d[i] = g[i] /\ d[i - 1] = g[i - 1]
        BY <4>2
      <4>. QED  BY <3>2, <4>1, <4>3
    <3>. QED  BY <3>1, <3>2
  <2>3. Eq(d)
    BY <2>2
  <2>4. Eq(h)
    BY <2>3
  <2>5. FlattenSeq(ss) = h[n]
    BY <1>0, <1>2 DEF FlattenSeq
  <2> DEFINE e == [k \in 0..n |-> IF k = 0 THEN <<>> ELSE h[k]]
  <2>. HIDE DEF h, d
  <2>6. ASSUME NEW k \in 1..n PROVE e[k] = e[k - 1] \o ss[k]
    <3>1. h[k] = IF k = 1 THEN ss[k] ELSE h[k - 1] \o ss[k]
      BY <2>4
    <3>2. e[k] = h[k]
      BY <1>0
    <3>3. CASE k = 1
      <4>1. <<>> \o ss[k] = ss[k]
        BY <1>0, ConcatEmptySeq
      <4>2. e[k - 1] = <<>>
        BY <3>3, <1>0
      <4>. QED  BY <3>1, <3>2, <3>3, <4>1, <4>2
    <3>4. CASE k # 1
      <4>1. k - 1 \in 0..n /\ k - 1 # 0
        BY <3>4, <1>0
      <4>2. e[k - 1] = h[k - 1]
        BY <4>1
      <4>. QED  BY <3>1, <3>2, <3>4, <4>2
    <3>. QED  BY <3>3, <3>4
  <2>7. e[0] = <<>> /\ e[n] = h[n]
    BY <1>0, <1>2
  <2>. HIDE DEF e
  <2>8. Joins(ss, n, e)
    BY <2>6, <2>7 DEF Joins
  <2>9. g[n] = e[n]
    BY <2>8, <1>0, OneJoins
  <2>. QED  BY <2>5, <2>7, <2>9
<1>. QED  BY <1>1, <1>2

\* Nothing makes nothing.
LEMMA FlattenEmpty == FlattenSeq(<<>>) = <<>>
BY DEF FlattenSeq

\* One sequence more goes to the end.
LEMMA FlattenAppend ==
    ASSUME NEW S, NEW ss \in Seq(Seq(S)), NEW s \in Seq(S)
    PROVE  /\ FlattenSeq(Append(ss, s)) = FlattenSeq(ss) \o s
           /\ FlattenSeq(ss) \in Seq(S)
<1> DEFINE tt == Append(ss, s)
           n == Len(ss)
<1>1. n \in Nat /\ tt \in Seq(Seq(S)) /\ Len(tt) = n + 1 /\ tt[n + 1] = s
      /\ \A k \in 1..n : tt[k] = ss[k]
  BY AppendProperties
<1>2. \A k \in 1..n + 1 : tt[k] \in Seq(S)
  BY <1>1
<1>3. \A k \in 1..n : ss[k] \in Seq(S)
  OBVIOUS
<1>4. n = 0 => ss = <<>>
  OBVIOUS
<1>. HIDE DEF tt, n
<1>5. n + 1 \in Nat /\ n + 1 \in 1..n + 1 /\ (n + 1) - 1 = n /\ n \in 0..n + 1
      /\ n + 1 # 0
  BY <1>1
<1>6. \E g \in [0..n + 1 -> Seq(S)] : Joins(tt, n + 1, g)
  BY <1>2, <1>5, SomeJoins
<1>7. PICK g \in [0..n + 1 -> Seq(S)] : Joins(tt, n + 1, g)
  BY <1>6
<1>8. FlattenSeq(tt) = g[n + 1]
  BY <1>1, <1>7, FlattenJoins
<1>9. Joins(ss, n, g)
  <2>1. g[0] = <<>>
    BY <1>7 DEF Joins
  <2>2. ASSUME NEW k \in 1..n PROVE g[k] = g[k - 1] \o ss[k]
    <3>1. k \in 1..n + 1
      BY <1>1
    <3>2. g[k] = g[k - 1] \o tt[k]
      BY <1>7, <3>1 DEF Joins
    <3>. QED  BY <3>2, <1>1
  <2>. QED  BY <2>1, <2>2 DEF Joins
<1>10. Len(ss) = n
  BY DEF n
<1>11. FlattenSeq(ss) = g[n]
  BY <1>9, <1>10, FlattenJoins
<1>12. g[n + 1] = g[n] \o s
  BY <1>1, <1>5, <1>7 DEF Joins
<1>13. g[n] \in Seq(S)
  BY <1>5
<1>. QED  BY <1>8, <1>11, <1>12, <1>13 DEF tt

-----------------------------------------------------------------------------
(* Words and marks of a text.                                                *)

\* What a result is made of.
Items == {Word(w) : w \in Nat} \cup {Mark(m) : m \in Marks}

TwoMarksAt(s, k) == IsMark(s[k]) /\ IsMark(s[k + 1])
OneMark(s) == \A k \in 1..Len(s) - 1 : ~TwoMarksAt(s, k)

\* A word is no mark.
LEMMA Kinds ==
    /\ \A w : ~IsMark(Word(w))
    /\ \A m : IsMark(Mark(m))
    /\ \A w \in Nat : Word(w) \in Items
    /\ \A m \in Marks : Mark(m) \in Items
BY DEF Word, Mark, IsMark, Items

\* The words of one item.
WordIn(x) == IF IsMark(x) THEN <<>> ELSE <<x>>

\* The empty text has no words and no marks.
LEMMA WordsOfEmpty == WordsOf(<<>>) = <<>> /\ <<>> \in Seq(Items) /\ OneMark(<<>>)
<1>1. [k \in DOMAIN <<>> |-> IF IsMark(<<>>[k]) THEN <<>> ELSE <<(<<>>)[k]>>] = <<>>
  OBVIOUS
<1>2. FlattenSeq(<<>>) = <<>>
  BY DEF FlattenSeq
<1>3. WordsOf(<<>>) = <<>>
  BY <1>1, <1>2 DEF WordsOf
<1>4. OneMark(<<>>)
  BY DEF OneMark
<1>. QED  BY <1>3, <1>4

\* An item more at the end of a text: its words, and its marks.
LEMMA WordsOfAppend ==
    ASSUME NEW s \in Seq(Items), NEW x \in Items
    PROVE  /\ Append(s, x) \in Seq(Items)
           /\ WordsOf(Append(s, x)) = WordsOf(s) \o WordIn(x)
           /\ WordsOf(s) \in Seq(Items)
<1> DEFINE t == Append(s, x)
           n == Len(s)
           ws == [k \in DOMAIN s |-> WordIn(s[k])]
           wt == [k \in DOMAIN t |-> WordIn(t[k])]
<1>1. n \in Nat /\ t \in Seq(Items) /\ Len(t) = n + 1 /\ t[n + 1] = x
      /\ (\A k \in 1..n : t[k] = s[k]) /\ DOMAIN s = 1..n /\ DOMAIN t = 1..n + 1
  BY AppendProperties
<1>2. \A y \in Items : WordIn(y) \in Seq(Items)
  BY DEF WordIn
<1>3. \A k \in 1..n : s[k] \in Items
  OBVIOUS
<1>4. ws \in [1..n -> Seq(Items)]
  BY <1>1, <1>2, <1>3
<1>5. ws \in Seq(Seq(Items)) /\ Len(ws) = n
  BY <1>1, <1>4
<1>6. WordIn(x) \in Seq(Items)
  BY <1>2
<1>. HIDE DEF ws, wt
<1>7. Append(ws, WordIn(x)) \in Seq(Seq(Items)) /\ Len(Append(ws, WordIn(x))) = n + 1
      /\ Append(ws, WordIn(x))[n + 1] = WordIn(x)
      /\ \A k \in 1..n : Append(ws, WordIn(x))[k] = ws[k]
  BY <1>5, <1>6, AppendProperties
<1>. HIDE DEF t, n
<1>8. wt \in Seq(Seq(Items)) /\ Len(wt) = n + 1
  <2>1. \A k \in 1..n + 1 : t[k] \in Items
    BY <1>1
  <2>2. wt \in [1..n + 1 -> Seq(Items)]
    BY <1>1, <1>2, <2>1 DEF wt
  <2>. QED  BY <1>1, <2>2
<1>9. ASSUME NEW k \in 1..n + 1 PROVE wt[k] = Append(ws, WordIn(x))[k]
  <2>1. wt[k] = WordIn(t[k])
    BY <1>1 DEF wt
  <2>2. CASE k = n + 1
    BY <1>1, <1>7, <2>1, <2>2
  <2>3. CASE k # n + 1
    <3>1. k \in 1..n
      BY <1>1, <2>3
    <3>2. ws[k] = WordIn(s[k])
      BY <1>1, <3>1 DEF ws
    <3>. QED  BY <1>1, <1>7, <2>1, <3>1, <3>2
  <2>. QED  BY <2>2, <2>3
<1>10. wt = Append(ws, WordIn(x))
  BY <1>7, <1>8, <1>9, SeqEqual
<1>11. FlattenSeq(wt) = FlattenSeq(ws) \o WordIn(x) /\ FlattenSeq(ws) \in Seq(Items)
  BY <1>5, <1>6, <1>10, FlattenAppend
<1>12. WordsOf(s) = FlattenSeq(ws) /\ WordsOf(t) = FlattenSeq(wt)
  BY DEF WordsOf, WordIn, ws, wt
<1>. QED  BY <1>1, <1>11, <1>12 DEF t

\* A word more at the end of a text.
LEMMA AddWord ==
    ASSUME NEW s \in Seq(Items), OneMark(s), NEW w \in Nat
    PROVE  LET t == Append(s, Word(w))
           IN  /\ t \in Seq(Items) /\ OneMark(t) /\ ~EndsInMark(t) /\ t # <<>>
               /\ WordsOf(t) = Append(WordsOf(s), Word(w))
<1> DEFINE t == Append(s, Word(w))
<1>1. Word(w) \in Items /\ ~IsMark(Word(w))
  BY Kinds
<1>2. t \in Seq(Items) /\ WordsOf(t) = WordsOf(s) \o <<Word(w)>> /\ WordsOf(s) \in Seq(Items)
  BY <1>1, WordsOfAppend DEF WordIn
<1>3. WordsOf(s) \o <<Word(w)>> = Append(WordsOf(s), Word(w))
  BY <1>1, <1>2, AppendIsConcat
<1>4. Len(s) \in Nat /\ Len(t) = Len(s) + 1 /\ t[Len(s) + 1] = Word(w)
      /\ \A k \in 1..Len(s) : t[k] = s[k]
  BY <1>1, AppendProperties
<1>. HIDE DEF t
<1>5. OneMark(t)
  <2>1. SUFFICES ASSUME NEW k \in 1..Len(t) - 1 PROVE ~TwoMarksAt(t, k)
    BY DEF OneMark
  <2>2. CASE k = Len(s)
    BY <1>1, <1>4, <2>2 DEF TwoMarksAt
  <2>3. CASE k # Len(s)
    <3>1. k \in 1..Len(s) - 1 /\ k \in 1..Len(s) /\ k + 1 \in 1..Len(s)
      BY <1>4, <2>3
    <3>. QED  BY <1>4, <3>1 DEF OneMark, TwoMarksAt
  <2>. QED  BY <2>2, <2>3
<1>6. t # <<>> /\ ~EndsInMark(t)
  <2>1. Last(t) = Word(w)
    BY <1>4 DEF Last
  <2>. QED  BY <1>1, <1>4, <2>1 DEF EndsInMark
<1>. QED  BY <1>2, <1>3, <1>5, <1>6 DEF t

\* A mark more, at a text that ends without one.
LEMMA AddMark ==
    ASSUME NEW s \in Seq(Items), OneMark(s), ~EndsInMark(s), NEW m \in Marks
    PROVE  LET t == Append(s, Mark(m))
           IN  /\ t \in Seq(Items) /\ OneMark(t) /\ EndsInMark(t)
               /\ Last(t) = Mark(m)
               /\ WordsOf(t) = WordsOf(s)
<1> DEFINE t == Append(s, Mark(m))
<1>1. Mark(m) \in Items /\ IsMark(Mark(m))
  BY Kinds
<1>2. t \in Seq(Items) /\ WordsOf(t) = WordsOf(s) \o <<>> /\ WordsOf(s) \in Seq(Items)
  BY <1>1, WordsOfAppend DEF WordIn
<1>3. WordsOf(s) \o <<>> = WordsOf(s)
  BY <1>2, ConcatEmptySeq
<1>4. Len(s) \in Nat /\ Len(t) = Len(s) + 1 /\ t[Len(s) + 1] = Mark(m)
      /\ \A k \in 1..Len(s) : t[k] = s[k]
  BY <1>1, AppendProperties
<1>. HIDE DEF t
<1>5. OneMark(t)
  <2>1. SUFFICES ASSUME NEW k \in 1..Len(t) - 1 PROVE ~TwoMarksAt(t, k)
    BY DEF OneMark
  <2>2. CASE k = Len(s)
    <3>1. s # <<>> /\ k \in 1..Len(s)
      BY <1>4, <2>2
    <3>2. ~IsMark(s[Len(s)])
      BY <3>1 DEF EndsInMark, Last
    <3>. QED  BY <1>4, <2>2, <3>1, <3>2 DEF TwoMarksAt
  <2>3. CASE k # Len(s)
    <3>1. k \in 1..Len(s) - 1 /\ k \in 1..Len(s) /\ k + 1 \in 1..Len(s)
      BY <1>4, <2>3
    <3>. QED  BY <1>4, <3>1 DEF OneMark, TwoMarksAt
  <2>. QED  BY <2>2, <2>3
<1>6. EndsInMark(t) /\ Last(t) = Mark(m)
  <2>1. Last(t) = Mark(m)
    BY <1>4 DEF Last
  <2>. QED  BY <1>1, <1>4, <2>1 DEF EndsInMark
<1>. QED  BY <1>2, <1>3, <1>5, <1>6 DEF t

\* The mark at the end taken off.
LEMMA TakeMark ==
    ASSUME NEW t \in Seq(Items), OneMark(t), EndsInMark(t)
    PROVE  /\ Front(t) \in Seq(Items) /\ OneMark(Front(t)) /\ ~EndsInMark(Front(t))
           /\ WordsOf(Front(t)) = WordsOf(t)
           /\ Front(t) # <<>> => Front(t)[1] = t[1]
<1>1. PICK s \in Seq(Items), x \in Items : t = Append(s, x)
  BY SequenceEmptyOrAppend DEF EndsInMark
<1>2. Len(s) \in Nat /\ Len(t) = Len(s) + 1 /\ t[Len(s) + 1] = x
      /\ \A k \in 1..Len(s) : t[k] = s[k]
  BY <1>1, AppendProperties
<1>3. Front(t) = s
  <2>1. Front(t) = SubSeq(t, 1, Len(s))
    BY <1>2 DEF Front
  <2>2. \A k \in 1..Len(s) : t[k] \in Items
    BY <1>2
  <2>3. SubSeq(t, 1, Len(s)) \in Seq(Items) /\ Len(SubSeq(t, 1, Len(s))) = Len(s)
        /\ \A k \in 1..Len(s) : SubSeq(t, 1, Len(s))[k] = t[k]
    BY <1>2, <2>2
  <2>. QED  BY <1>2, <2>1, <2>3, SeqEqual
<1>4. IsMark(x)
  BY <1>2 DEF EndsInMark, Last
<1>5. WordsOf(t) = WordsOf(s) \o <<>> /\ WordsOf(s) \in Seq(Items)
  BY <1>1, <1>4, WordsOfAppend DEF WordIn
<1>6. WordsOf(t) = WordsOf(s)
  BY <1>5, ConcatEmptySeq
<1>7. OneMark(s)
  <2>1. SUFFICES ASSUME NEW k \in 1..Len(s) - 1 PROVE ~TwoMarksAt(s, k)
    BY DEF OneMark
  <2>2. k \in 1..Len(t) - 1 /\ k \in 1..Len(s) /\ k + 1 \in 1..Len(s)
    BY <1>2
  <2>. QED  BY <1>2, <2>2 DEF OneMark, TwoMarksAt
<1>8. ~EndsInMark(s)
  <2>1. SUFFICES ASSUME s # <<>>, IsMark(s[Len(s)]) PROVE FALSE
    BY DEF EndsInMark, Last
  <2>2. Len(s) \in 1..Len(t) - 1 /\ Len(s) \in 1..Len(s)
    BY <1>2, <2>1
  <2>3. TwoMarksAt(t, Len(s))
    BY <1>2, <1>4, <2>1, <2>2 DEF TwoMarksAt
  <2>. QED  BY <2>2, <2>3 DEF OneMark
<1>9. s # <<>> => s[1] = t[1]
  <2>1. s # <<>> => 1 \in 1..Len(s)
    BY <1>2
  <2>. QED  BY <1>2, <2>1
<1>. QED  BY <1>3, <1>6, <1>7, <1>8, <1>9

-----------------------------------------------------------------------------
(* Words in their order.                                                     *)

\* The words of s are those behind the b-th, in their order.
Follow(s, b) ==
    /\ s \in Seq(Nat)
    /\ \A k \in 1..Len(s) : s[k] = b + k

\* Two such sequences put together.
LEMMA FollowConcat ==
    ASSUME NEW b \in Nat, NEW s, NEW t, NEW e, e = b + Len(s), Follow(s, b), Follow(t, e)
    PROVE  Follow(s \o t, b) /\ Len(s \o t) = Len(s) + Len(t)
<1>1. s \in Seq(Nat) /\ t \in Seq(Nat) /\ Len(s) \in Nat /\ Len(t) \in Nat
  BY DEF Follow
<1>2. s \o t \in Seq(Nat) /\ Len(s \o t) = Len(s) + Len(t)
      /\ \A i \in 1..Len(s) + Len(t) : (s \o t)[i] = IF i <= Len(s) THEN s[i] ELSE t[i - Len(s)]
  BY <1>1, ConcatProperties
<1> DEFINE u == s \o t
<1>. HIDE DEF u
<1>3. ASSUME NEW k \in 1..Len(u) PROVE u[k] = b + k
  <2>1. CASE k <= Len(s)
    <3>1. k \in 1..Len(s)
      BY <1>1, <2>1
    <3>. QED  BY <1>1, <1>2, <2>1, <3>1 DEF Follow, u
  <2>2. CASE ~(k <= Len(s))
    <3>1. k - Len(s) \in 1..Len(t)
      BY <1>1, <1>2, <2>2 DEF u
    <3>2. t[k - Len(s)] = e + (k - Len(s))
      BY <3>1 DEF Follow
    <3>3. u[k] = t[k - Len(s)]
      BY <1>1, <1>2, <2>2 DEF u
    <3>. QED  BY <1>1, <3>2, <3>3
  <2>. QED  BY <2>1, <2>2
<1>. QED  BY <1>2, <1>3 DEF Follow, u

\* One cut in two.
LEMMA FollowCut ==
    ASSUME NEW b \in Nat, NEW s, Follow(s, b), NEW k \in 0..Len(s)
    PROVE  /\ Follow(SubSeq(s, 1, k), b) /\ Len(SubSeq(s, 1, k)) = k
           /\ Follow(Rest(s, k), b + k) /\ Len(Rest(s, k)) = Len(s) - k
<1>1. s \in Seq(Nat) /\ Len(s) \in Nat /\ \A i \in 1..Len(s) : s[i] \in Nat
  BY DEF Follow
<1>2. SubSeq(s, 1, k) \in Seq(Nat) /\ Len(SubSeq(s, 1, k)) = k
      /\ \A i \in 1..k : SubSeq(s, 1, k)[i] = s[i]
  <2>1. \A i \in 1..k : s[i] \in Nat
    BY <1>1
  <2>. QED  BY <1>1, <2>1, SubSeqProperties
<1>3. Rest(s, k) \in Seq(Nat) /\ Len(Rest(s, k)) = Len(s) - k
      /\ \A i \in 1..Len(s) - k : Rest(s, k)[i] = s[k + i]
  <2>1. \A i \in k + 1..Len(s) : s[i] \in Nat
    BY <1>1
  <2> DEFINE r == SubSeq(s, k + 1, Len(s))
             m == k + 1
             n == Len(s)
  <2>2. m \in Int /\ n \in Int
    BY <1>1
  <2>3. r \in Seq(Nat) /\ Len(r) = (IF m <= n THEN n - m + 1 ELSE 0)
        /\ \A i \in 1..n - m + 1 : r[i] = s[m + i - 1]
    <3>. HIDE DEF m, n
    <3>1. SubSeq(s, m, n) = r
      BY DEF m, n, r
    <3>2. \A i \in m..n : s[i] \in Nat
      BY <2>1 DEF m, n
    <3>. HIDE DEF r
    <3>3. /\ SubSeq(s, m, n) \in Seq(Nat)
          /\ Len(SubSeq(s, m, n)) = IF m <= n THEN n - m + 1 ELSE 0
          /\ \A i \in 1..n - m + 1 : SubSeq(s, m, n)[i] = s[m + i - 1]
      BY <2>2, <3>2, SubSeqProperties
    <3>. QED  BY <3>1, <3>3
  <2>. HIDE DEF r
  <2>4. Len(r) = Len(s) - k
    BY <1>1, <2>3
  <2>5. \A i \in 1..Len(s) - k : r[i] = s[k + i]
    <3>1. ASSUME NEW i \in 1..Len(s) - k PROVE r[i] = s[k + i]
      <4>1. i \in 1..n - m + 1 /\ m + i - 1 = k + i
        BY <1>1
      <4>. QED  BY <2>3, <4>1
    <3>. QED  BY <3>1
  <2>. QED  BY <2>3, <2>4, <2>5 DEF Rest, r
<1>4. Follow(SubSeq(s, 1, k), b)
  BY <1>1, <1>2 DEF Follow
<1>5. Follow(Rest(s, k), b + k)
  <2> DEFINE r == Rest(s, k)
  <2>. HIDE DEF r
  <2>1. ASSUME NEW i \in 1..Len(r) PROVE r[i] = (b + k) + i
    <3>1. i \in 1..Len(s) - k /\ k + i \in 1..Len(s)
      BY <1>1, <1>3 DEF r
    <3>2. r[i] = s[k + i]
      BY <1>3, <3>1 DEF r
    <3>3. s[k + i] = b + (k + i)
      BY <3>1 DEF Follow
    <3>. QED  BY <3>2, <3>3
  <2>. QED  BY <1>3, <2>1 DEF Follow, r
<1>. QED  BY <1>2, <1>3, <1>4, <1>5

\* What a batch is cut at is within it.
LEMMA LastIn ==
    ASSUME NEW n \in Nat, NEW S, S \subseteq 1..n, S # {}
    PROVE  LastOf(S) \in S
<1> DEFINE T == {n - k : k \in S}
<1>1. T \subseteq Nat /\ T # {}
  OBVIOUS
<1>2. PICK m \in T : \A l \in T : m <= l
  BY <1>1, Least
<1>3. PICK k \in S : m = n - k
  OBVIOUS
<1>4. ASSUME NEW j \in S PROVE j <= k
  <2>1. n - j \in T
    OBVIOUS
  <2>2. n - k <= n - j
    BY <1>2, <1>3, <2>1
  <2>3. j \in Int /\ k \in Int
    OBVIOUS
  <2>. QED  BY <2>2, <2>3
<1>5. \E i \in S : \A j \in S : j <= i
  BY <1>4
<1>. QED  BY <1>5 DEF LastOf

\* The cut of a batch of n tokens, and its last sentence end, which is not its last token.
LEMMA CutWithin ==
    ASSUME NEW marks, NEW n \in Nat, marks \in [1..n -> Marks]
    PROVE  /\ Len(marks) = n
           /\ Cut(marks) \in 0..n /\ LastEnd(marks) \in 0..n
           /\ n > 0 => LastEnd(marks) < n
           /\ Ended(marks) \in [1..n -> Marks]
<1>1. Len(marks) = n
  OBVIOUS
<1>2. \A m : Inner(marks, m) \subseteq 1..n /\ \A k \in Inner(marks, m) : k < n
  BY <1>1 DEF Inner
<1>3. LastEnd(marks) \in 0..n /\ (n > 0 => LastEnd(marks) < n)
  <2>1. CASE Inner(marks, "period") = {}
    BY <2>1 DEF LastEnd
  <2>2. CASE Inner(marks, "period") # {}
    <3>1. LastEnd(marks) \in Inner(marks, "period")
      BY <1>2, <2>2, LastIn DEF LastEnd
    <3>. QED  BY <1>2, <3>1
  <2>. QED  BY <2>1, <2>2
<1>4. Cut(marks) \in 0..n
  <2>1. CASE AtComma(marks)
    <3>1. LastOf(Inner(marks, "comma")) \in Inner(marks, "comma")
      BY <1>2, <2>1, LastIn DEF AtComma
    <3>. QED  BY <1>2, <2>1, <3>1 DEF Cut
  <2>2. CASE ~AtComma(marks)
    BY <1>3, <2>2 DEF Cut
  <2>. QED  BY <2>1, <2>2
<1>5. Ended(marks) \in [1..n -> Marks]
  BY DEF Ended, Marks
<1>. QED  BY <1>1, <1>3, <1>4, <1>5

-----------------------------------------------------------------------------
(* What the text of the words is.                                            *)

\* Two items put together.
LEMMA TwoItems ==
    ASSUME NEW a \in Items, NEW b \in Items
    PROVE  <<a>> \o <<b>> = <<a, b>>
<1> DEFINE s == <<a>> \o <<b>>
           t == <<a, b>>
<1>1. <<a>> \in Seq(Items) /\ <<b>> \in Seq(Items) /\ Len(<<a>>) = 1 /\ Len(<<b>>) = 1
  OBVIOUS
<1>2. s \in Seq(Items) /\ Len(s) = 2 /\ s[1] = a /\ s[2] = b
  BY <1>1, ConcatProperties
<1>3. t \in Seq(Items) /\ Len(t) = 2 /\ t[1] = a /\ t[2] = b
  OBVIOUS
<1>. HIDE DEF s, t
<1>4. \A k \in 1..2 : s[k] = t[k]
  BY <1>2, <1>3
<1>5. s = t
  BY <1>2, <1>3, <1>4, SeqEqual
<1>. QED  BY <1>5 DEF s, t

\* n words, from the one behind the b-th on.
After(b, n) == [j \in 1..n |-> Word(b + j)]

\* The word behind n words.
LEMMA AfterAppend ==
    ASSUME NEW b \in Nat, NEW n \in Nat
    PROVE  /\ After(b, 0) = <<>>
           /\ After(b, n) \in Seq(Items)
           /\ Append(After(b, n), Word(b + (n + 1))) = After(b, n + 1)
<1>1. \A j \in Nat : b + j \in Nat /\ Word(b + j) \in Items
  BY Kinds
<1>2. \A i \in Nat : After(b, i) \in Seq(Items) /\ Len(After(b, i)) = i
                     /\ \A j \in 1..i : After(b, i)[j] = Word(b + j)
  <2>1. SUFFICES ASSUME NEW i \in Nat
                 PROVE  After(b, i) \in Seq(Items) /\ Len(After(b, i)) = i
                        /\ \A j \in 1..i : After(b, i)[j] = Word(b + j)
    OBVIOUS
  <2>2. After(b, i) \in [1..i -> Items]
    BY <1>1 DEF After
  <2>3. \A j \in 1..i : After(b, i)[j] = Word(b + j)
    BY DEF After
  <2>. QED  BY <2>2, <2>3
<1>3. After(b, 0) = <<>>
  BY DEF After
<1>4. Append(After(b, n), Word(b + (n + 1))) = After(b, n + 1)
  <2> DEFINE s == Append(After(b, n), Word(b + (n + 1)))
             t == After(b, n + 1)
  <2>1. n + 1 \in Nat /\ Word(b + (n + 1)) \in Items
    BY <1>1
  <2>2. After(b, n) \in Seq(Items) /\ Len(After(b, n)) = n
        /\ \A j \in 1..n : After(b, n)[j] = Word(b + j)
    BY <1>2
  <2>3. s \in Seq(Items) /\ Len(s) = n + 1 /\ s[n + 1] = Word(b + (n + 1))
        /\ \A j \in 1..n : s[j] = After(b, n)[j]
    BY <2>1, <2>2, AppendProperties
  <2>4. t \in Seq(Items) /\ Len(t) = n + 1 /\ \A j \in 1..n + 1 : t[j] = Word(b + j)
    BY <1>2, <2>1
  <2>. HIDE DEF s, t
  <2>5. ASSUME NEW j \in 1..n + 1 PROVE s[j] = t[j]
    <3>1. CASE j = n + 1
      BY <2>3, <2>4, <3>1
    <3>2. CASE j # n + 1
      <4>1. j \in 1..n
        BY <3>2
      <4>. QED  BY <2>2, <2>3, <2>4, <4>1
    <3>. QED  BY <3>1, <3>2
  <2>6. s = t
    BY <2>3, <2>4, <2>5, SeqEqual
  <2>. QED  BY <2>6 DEF s, t
<1>. QED  BY <1>2, <1>3, <1>4

\* What a word adds to the text, and what the first m words make.
Piece(skip, k) ==
    (IF k > skip THEN <<Word(words[k])>> ELSE <<>>)
      \o (IF k >= skip /\ puncs[k] # "none" THEN <<Mark(puncs[k])>> ELSE <<>>)
ToldTo(skip, m) == FlattenSeq([k \in 1..m |-> Piece(skip, k)])

Spoken == words \in Seq(Nat) /\ puncs \in Seq(Marks) /\ Len(puncs) = Len(words)

\* One word more.
LEMMA ToldStep ==
    ASSUME Spoken, NEW skip \in Nat, NEW m \in 0..Len(words) - 1
    PROVE  /\ ToldTo(skip, m) \in Seq(Items)
           /\ ToldTo(skip, m + 1) = ToldTo(skip, m) \o Piece(skip, m + 1)
           /\ Piece(skip, m + 1) =
                IF m + 1 < skip THEN <<>>
                ELSE IF m + 1 = skip
                THEN IF puncs[m + 1] # "none" THEN <<Mark(puncs[m + 1])>> ELSE <<>>
                ELSE IF puncs[m + 1] # "none" THEN <<Word(words[m + 1]), Mark(puncs[m + 1])>>
                ELSE <<Word(words[m + 1])>>
<1>1. \A k \in 1..Len(words) : words[k] \in Nat /\ puncs[k] \in Marks
      /\ Word(words[k]) \in Items /\ Mark(puncs[k]) \in Items
  BY Kinds DEF Spoken
<1>2. Len(words) \in Nat /\ m \in Nat /\ m + 1 \in Nat /\ m + 1 <= Len(words)
      /\ m + 1 \in 1..Len(words)
  BY DEF Spoken
<1>3. ASSUME NEW k \in 1..Len(words) PROVE Piece(skip, k) \in Seq(Items)
  <2> DEFINE x == IF k > skip THEN <<Word(words[k])>> ELSE <<>>
             y == IF k >= skip /\ puncs[k] # "none" THEN <<Mark(puncs[k])>> ELSE <<>>
  <2>1. x \in Seq(Items) /\ y \in Seq(Items)
    BY <1>1
  <2>. HIDE DEF x, y
  <2>2. x \o y \in Seq(Items)
    BY <2>1, ConcatProperties
  <2>. QED  BY <2>2 DEF Piece, x, y
<1> DEFINE p == [k \in 1..m |-> Piece(skip, k)]
           q == [k \in 1..m + 1 |-> Piece(skip, k)]
           z == Piece(skip, m + 1)
<1>4. p \in [1..m -> Seq(Items)] /\ q \in [1..m + 1 -> Seq(Items)]
  BY <1>2, <1>3
<1>5. p \in Seq(Seq(Items)) /\ Len(p) = m /\ q \in Seq(Seq(Items)) /\ Len(q) = m + 1
      /\ z \in Seq(Items)
  BY <1>2, <1>3, <1>4
<1>6. \A k \in 1..m : p[k] = q[k]
  BY <1>2
<1>7. q[m + 1] = z
  BY <1>2
<1>. HIDE DEF p, q, z
<1>8. Append(p, z) \in Seq(Seq(Items)) /\ Len(Append(p, z)) = m + 1
      /\ Append(p, z)[m + 1] = z /\ \A k \in 1..m : Append(p, z)[k] = p[k]
  BY <1>5, AppendProperties
<1>9. ASSUME NEW k \in 1..m + 1 PROVE q[k] = Append(p, z)[k]
  <2>1. CASE k = m + 1
    BY <1>7, <1>8, <2>1
  <2>2. CASE k # m + 1
    <3>1. k \in 1..m
      BY <2>2, <1>2
    <3>. QED  BY <1>6, <1>8, <3>1
  <2>. QED  BY <2>1, <2>2
<1>10. q = Append(p, z)
  BY <1>5, <1>8, <1>9, SeqEqual
<1>11. FlattenSeq(q) = FlattenSeq(p) \o z /\ FlattenSeq(p) \in Seq(Items)
  BY <1>5, <1>10, FlattenAppend
<1>12. ToldTo(skip, m) = FlattenSeq(p) /\ ToldTo(skip, m + 1) = FlattenSeq(q)
  BY DEF ToldTo, p, q
<1>13. z = IF m + 1 < skip THEN <<>>
           ELSE IF m + 1 = skip
           THEN IF puncs[m + 1] # "none" THEN <<Mark(puncs[m + 1])>> ELSE <<>>
           ELSE IF puncs[m + 1] # "none" THEN <<Word(words[m + 1]), Mark(puncs[m + 1])>>
           ELSE <<Word(words[m + 1])>>
  <2> DEFINE x == <<Word(words[m + 1])>>
             y == <<Mark(puncs[m + 1])>>
  <2>1. x \in Seq(Items) /\ y \in Seq(Items) /\ <<>> \in Seq(Items)
    BY <1>1, <1>2
  <2>2. x \o y = <<Word(words[m + 1]), Mark(puncs[m + 1])>>
    BY <1>1, <1>2, TwoItems
  <2>3. x \o <<>> = x /\ <<>> \o y = y /\ <<>> \o <<>> = <<>>
    BY <2>1, ConcatEmptySeq
  <2>4. z = (IF m + 1 > skip THEN x ELSE <<>>)
              \o (IF m + 1 >= skip /\ puncs[m + 1] # "none" THEN y ELSE <<>>)
    BY DEF z, Piece
  <2>. HIDE DEF x, y
  <2>5. CASE m + 1 < skip
    BY <1>2, <2>3, <2>4, <2>5
  <2>6. CASE m + 1 = skip
    <3>1. ~(m + 1 > skip) /\ ~(m + 1 < skip) /\ m + 1 >= skip
      BY <1>2, <2>6
    <3>2. CASE puncs[m + 1] # "none"
      <4>1. z = <<>> \o y
        BY <2>4, <3>1, <3>2
      <4>. QED  BY <2>3, <2>6, <3>1, <3>2, <4>1 DEF y
    <3>3. CASE puncs[m + 1] = "none"
      <4>1. z = <<>> \o <<>>
        BY <2>4, <3>1, <3>3
      <4>. QED  BY <2>3, <2>6, <3>1, <3>3, <4>1
    <3>. QED  BY <3>2, <3>3
  <2>7. CASE m + 1 > skip
    <3>1. ~(m + 1 < skip) /\ m + 1 # skip /\ m + 1 >= skip
      BY <1>2, <2>7
    <3>2. CASE puncs[m + 1] # "none"
      <4>1. z = x \o y
        BY <2>4, <2>7, <3>1, <3>2
      <4>. QED  BY <2>2, <3>1, <3>2, <4>1
    <3>3. CASE puncs[m + 1] = "none"
      <4>1. z = x \o <<>>
        BY <2>4, <2>7, <3>1, <3>3
      <4>. QED  BY <2>3, <3>1, <3>3, <4>1 DEF x
    <3>. QED  BY <3>2, <3>3
  <2>. QED  BY <1>2, <2>5, <2>6, <2>7
<1>. QED  BY <1>11, <1>12, <1>13 DEF z

\* The skip-th word has a mark, and the text t begins with one just then.
Leading(skip) == skip > 0 /\ puncs[skip] # "none"
LeadsAs(t, skip) ==
    /\ t # <<>> => (IsMark(t[1]) <=> Leading(skip))
    /\ Leading(skip) => t # <<>>

\* An item more, a word if there is no other, leaves the beginning as it is.
LEMMA LeadsAppend ==
    ASSUME NEW t \in Seq(Items), NEW x \in Items, NEW skip, LeadsAs(t, skip),
           t = <<>> => ~IsMark(x)
    PROVE  LeadsAs(Append(t, x), skip)
<1> DEFINE u == Append(t, x)
<1>1. Len(t) \in Nat /\ Len(u) = Len(t) + 1 /\ u[Len(t) + 1] = x
      /\ \A k \in 1..Len(t) : u[k] = t[k]
  BY AppendProperties
<1>. HIDE DEF u
<1>2. u # <<>>
  BY <1>1
<1>3. CASE t = <<>>
  <2>1. u[1] = x
    BY <1>1, <1>3
  <2>. QED  BY <1>2, <1>3, <2>1 DEF LeadsAs, u
<1>4. CASE t # <<>>
  <2>1. 1 \in 1..Len(t)
    BY <1>1, <1>4
  <2>2. u[1] = t[1]
    BY <1>1, <2>1
  <2>. QED  BY <1>2, <1>4, <2>2 DEF LeadsAs, u
<1>. QED  BY <1>3, <1>4

\* The first m words make a text of the words behind the skip-th, in their order,
\* without two marks at one place; it begins with the mark of the skip-th.
LEMMA ToldIs ==
    ASSUME Spoken, NEW skip \in Nat, NEW b \in Nat, NEW from \in Nat, from = b + skip,
           Follow(words, b)
    PROVE  /\ Told(skip) \in Seq(Items) /\ OneMark(Told(skip))
           /\ WordsOf(Told(skip)) =
                IF Len(words) >= skip THEN After(from, Len(words) - skip) ELSE <<>>
           /\ Len(words) >= skip => LeadsAs(Told(skip), skip)
<1> DEFINE n == Len(words)
           Good(m) == LET t == ToldTo(skip, m)
                      IN  /\ t \in Seq(Items) /\ OneMark(t)
                          /\ m < skip => t = <<>>
                          /\ WordsOf(t) = IF m >= skip THEN After(from, m - skip) ELSE <<>>
                          /\ m >= skip => LeadsAs(t, skip)
           H == {m \in Nat : Good(m)}
<1>1. n \in Nat
  BY DEF Spoken
<1>2. 0 \in H
  <2>1. ToldTo(skip, 0) = <<>>
    BY FlattenEmpty DEF ToldTo
  <2>2. Good(0)
    <3>1. skip = 0 => After(from, 0 - skip) = <<>>
      BY AfterAppend
    <3>2. 0 >= skip => skip = 0
      OBVIOUS
    <3>3. 0 >= skip => LeadsAs(<<>>, skip)
      BY <3>2 DEF LeadsAs, Leading
    <3>. QED  BY <2>1, <3>1, <3>2, <3>3, WordsOfEmpty
  <2>. QED  BY <2>2
<1>3. ASSUME NEW m \in 0..n - 1, m \in H PROVE m + 1 \in H
  <2> DEFINE t == ToldTo(skip, m)
             u == ToldTo(skip, m + 1)
             w == words[m + 1]
             p == puncs[m + 1]
  <2>1. m \in Nat /\ m + 1 \in Nat /\ m + 1 \in 1..n
    BY <1>1
  <2>2. w \in Nat /\ p \in Marks /\ w = b + (m + 1)
    BY <2>1 DEF Spoken, Follow
  <2>3. t \in Seq(Items) /\ OneMark(t) /\ (m < skip => t = <<>>)
        /\ WordsOf(t) = (IF m >= skip THEN After(from, m - skip) ELSE <<>>)
        /\ (m >= skip => LeadsAs(t, skip))
    BY <1>3
  <2>4. u = t \o Piece(skip, m + 1)
        /\ Piece(skip, m + 1) =
             IF m + 1 < skip THEN <<>>
             ELSE IF m + 1 = skip
             THEN IF p # "none" THEN <<Mark(p)>> ELSE <<>>
             ELSE IF p # "none" THEN <<Word(w), Mark(p)>>
             ELSE <<Word(w)>>
    BY ToldStep
  <2>5. Word(w) \in Items /\ Mark(p) \in Items
    BY <2>2, Kinds
  <2>6. t \o <<>> = t
    BY <2>3, ConcatEmptySeq
  <2>. HIDE DEF t, u, w, p
  <2>7. CASE m + 1 < skip
    <3>1. u = t
      BY <2>4, <2>6, <2>7
    <3>2. m < skip /\ ~(m + 1 >= skip) /\ ~(m >= skip)
      BY <2>1, <2>7
    <3>. QED  BY <2>1, <2>3, <2>7, <3>1, <3>2 DEF u
  <2>8. CASE m + 1 = skip
    <3>1. t = <<>> /\ WordsOf(t) = <<>> /\ ~EndsInMark(t)
      <4>1. m < skip /\ ~(m >= skip)
        BY <2>1, <2>8
      <4>. QED  BY <2>3, <4>1 DEF EndsInMark
    <3>0. Leading(skip) <=> p # "none"
      BY <2>1, <2>8 DEF Leading, p
    <3>2. u \in Seq(Items) /\ OneMark(u) /\ WordsOf(u) = <<>> /\ LeadsAs(u, skip)
      <4>1. CASE p = "none"
        <5>1. u = t
          BY <2>1, <2>4, <2>6, <2>8, <4>1
        <5>2. LeadsAs(u, skip)
          BY <3>0, <3>1, <4>1, <5>1 DEF LeadsAs
        <5>. QED  BY <2>3, <3>1, <5>1, <5>2
      <4>2. CASE p # "none"
        <5>0. ~(m + 1 < skip)
          BY <2>1, <2>8
        <5>1. u = t \o <<Mark(p)>>
          BY <2>4, <2>8, <4>2, <5>0
        <5>2. u = Append(t, Mark(p))
          BY <2>3, <2>5, <5>1, AppendIsConcat
        <5>3. u # <<>> /\ u[1] = Mark(p)
          BY <3>1, <5>2
        <5>4. LeadsAs(u, skip)
          BY <3>0, <4>2, <5>3, Kinds DEF LeadsAs
        <5>. QED  BY <2>2, <2>3, <3>1, <5>2, <5>4, AddMark
      <4>. QED  BY <4>1, <4>2
    <3>3. After(from, (m + 1) - skip) = <<>>
      <4>1. (m + 1) - skip = 0
        BY <2>1, <2>8
      <4>. QED  BY <4>1, AfterAppend
    <3>4. m + 1 >= skip /\ ~(m + 1 < skip)
      BY <2>1, <2>8
    <3>. QED  BY <2>1, <3>2, <3>3, <3>4 DEF u
  <2>9. CASE m >= skip
    <3>1. ~(m + 1 < skip) /\ m + 1 # skip /\ m + 1 >= skip /\ m - skip \in Nat
          /\ (m + 1) - skip = (m - skip) + 1 /\ from + ((m - skip) + 1) = b + (m + 1)
      BY <2>1, <2>9
    <3> DEFINE v == Append(t, Word(w))
    <3>2. v \in Seq(Items) /\ OneMark(v) /\ ~EndsInMark(v)
          /\ WordsOf(v) = Append(WordsOf(t), Word(w))
      BY <2>2, <2>3, AddWord
    <3>3. WordsOf(v) = After(from, (m + 1) - skip)
      <4>1. WordsOf(t) = After(from, m - skip)
        BY <2>3, <2>9
      <4>2. Append(After(from, m - skip), Word(from + ((m - skip) + 1)))
              = After(from, (m - skip) + 1)
        BY <3>1, AfterAppend
      <4>. QED  BY <2>2, <3>1, <3>2, <4>1, <4>2
    <3>4. t \o <<Word(w)>> = v
      BY <2>3, <2>5, AppendIsConcat
    <3>6. LeadsAs(v, skip) /\ v # <<>>
      <4>1. ~IsMark(Word(w))
        BY Kinds
      <4>. QED  BY <2>3, <2>5, <2>9, <3>2, <4>1, LeadsAppend
    <3>. HIDE DEF v
    <3>5. u \in Seq(Items) /\ OneMark(u) /\ WordsOf(u) = After(from, (m + 1) - skip)
          /\ LeadsAs(u, skip)
      <4>1. CASE p = "none"
        <5>1. u = v
          BY <2>4, <3>1, <3>4, <4>1
        <5>. QED  BY <3>2, <3>3, <3>6, <5>1
      <4>2. CASE p # "none"
        <5>1. u = t \o <<Word(w), Mark(p)>>
          BY <2>4, <3>1, <4>2
        <5>2. <<Word(w), Mark(p)>> = <<Word(w)>> \o <<Mark(p)>>
          BY <2>5, TwoItems
        <5>3. t \o (<<Word(w)>> \o <<Mark(p)>>) = (t \o <<Word(w)>>) \o <<Mark(p)>>
          <6>1. <<Word(w)>> \in Seq(Items) /\ <<Mark(p)>> \in Seq(Items)
            BY <2>5
          <6>. QED  BY <2>3, <6>1, ConcatAssociative
        <5>4. u = v \o <<Mark(p)>>
          BY <3>4, <5>1, <5>2, <5>3
        <5>5. u = Append(v, Mark(p))
          BY <2>5, <3>2, <5>4, AppendIsConcat
        <5>6. u \in Seq(Items) /\ OneMark(u) /\ WordsOf(u) = WordsOf(v)
          BY <2>2, <3>2, <5>5, AddMark
        <5>7. LeadsAs(u, skip)
          BY <2>5, <3>2, <3>6, <5>5, LeadsAppend
        <5>. QED  BY <3>3, <5>6, <5>7
      <4>. QED  BY <4>1, <4>2
    <3>. QED  BY <2>1, <3>1, <3>5 DEF u
  <2>. QED  BY <2>1, <2>7, <2>8, <2>9
<1>4. H \subseteq Nat
  OBVIOUS
<1>. HIDE DEF H
<1>5. \A m \in 0..n : m \in H
  BY <1>1, <1>2, <1>3, <1>4, UpTo
<1>6. n \in H
  BY <1>1, <1>5
<1>7. Told(skip) = ToldTo(skip, n)
  <2>1. DOMAIN words = 1..n
    BY DEF Spoken
  <2>. QED  BY <2>1 DEF Told, ToldTo, Piece
<1>. QED  BY <1>6, <1>7 DEF H

-----------------------------------------------------------------------------
(* The inductive invariant.                                                  *)

\* The cache holds the last words of the texts before, none from before it was
\* cleared, and at least one that has come since.
Cached ==
    LET n == IF pc = "idle" THEN heard ELSE said
    IN  /\ Len(arr_cache) \in 0..n
        /\ Follow(arr_cache, n - Len(arr_cache))
        /\ use = "offline" => arr_cache = <<>>
        /\ Len(arr_cache) <= n - cleared
        /\ use # "offline" /\ n > cleared => arr_cache # <<>>

\* A text behind one that ends in a mark is of the same final call.
OneCall == use # "offline" /\ shut => fin

\* What left the loop, the rest of the batch before and what is still to come are the
\* words of the cache and of the text, in their order.
InOrder ==
    pc = "batch" =>
        LET b == said - Len(arr_cache)
        IN  /\ Follow(words, b)
            /\ Follow(remain, b + Len(words))
            /\ Follow(input, b + Len(words) + Len(remain))
            /\ b + Len(words) + Len(remain) + Len(input) = heard
            /\ input = <<>> => remain = <<>>

IInv == TypeOK /\ Spoken /\ Cached /\ OneCall /\ InOrder /\ WordsOnce /\ MarksPlaced

\* Words that follow each other from b are among those heard.
LEMMA FollowBelow ==
    ASSUME NEW b \in Nat, NEW s, Follow(s, b), NEW h \in Nat, b + Len(s) <= h
    PROVE  \A k \in DOMAIN s : s[k] \in 1..h
<1>1. s \in Seq(Nat) /\ Len(s) \in Nat /\ DOMAIN s = 1..Len(s)
  BY DEF Follow
<1>2. ASSUME NEW k \in 1..Len(s) PROVE s[k] \in 1..h
  <2>1. s[k] = b + k
    BY DEF Follow
  <2>. QED  BY <1>1, <2>1
<1>. QED  BY <1>1, <1>2

\* No words follow any.
LEMMA FollowNothing ==
    ASSUME NEW b \in Nat
    PROVE  Follow(<<>>, b) /\ Len(<<>>) = 0
BY DEF Follow

\* A text is the words behind those heard before.
LEMMA FollowText ==
    ASSUME NEW n \in Nat, heard \in Nat
    PROVE  Follow(Text(n), heard) /\ Len(Text(n)) = n
<1>1. Text(n) \in [1..n -> Nat]
  BY DEF Text
<1>2. Text(n) \in Seq(Nat) /\ Len(Text(n)) = n
  BY <1>1
<1>3. \A k \in 1..n : Text(n)[k] = heard + k
  BY DEF Text
<1>. QED  BY <1>2, <1>3 DEF Follow

-----------------------------------------------------------------------------
(* The invariant, step by step.                                             *)

\* The initial states.
LEMMA InitIInv ==
    ASSUME Init
    PROVE  IInv
<1>1. use \in {"offline", "2pass", "online"} /\ pc = "idle" /\ heard = 0 /\ said = 0
      /\ fin = FALSE /\ arr_cache = <<>> /\ input = <<>> /\ remain = <<>>
      /\ words = <<>> /\ puncs = <<>> /\ result = <<>> /\ cleared = 0 /\ shut = FALSE
  BY DEF Init
<1>2. TypeOK
  <2>1. DOMAIN input = {} /\ DOMAIN remain = {} /\ DOMAIN words = {} /\ DOMAIN puncs = {}
    BY <1>1
  <2>2. \A s \in {input, remain, words} : \A k \in DOMAIN s : s[k] \in 1..heard
    BY <2>1
  <2>3. heard \in 0..MaxWords /\ said \in 0..heard /\ Len(arr_cache) <= heard
        /\ Len(puncs) = Len(words) /\ cleared \in 0..said
    BY <1>1, BoundAssumption
  <2>. QED  BY <1>1, <2>1, <2>2, <2>3 DEF TypeOK
<1>3. Spoken
  BY <1>1 DEF Spoken
<1>4. Cached /\ OneCall
  BY <1>1, FollowNothing DEF Cached, OneCall
<1>5. InOrder
  BY <1>1 DEF InOrder
<1>6. WordsOnce
  <2>1. SaidWords = <<>>
    BY <1>1, WordsOfEmpty DEF SaidWords
  <2>2. [k \in 1..heard - said |-> Word(said + k)] = <<>>
    BY <1>1
  <2>3. arr_cache = [k \in 1..Len(arr_cache) |-> heard - Len(arr_cache) + k]
    BY <1>1
  <2>. QED  BY <1>1, <2>1, <2>2, <2>3 DEF WordsOnce
<1>7. MarksPlaced
  <2>1. ~EndsInMark(result) /\ Len(result) = 0
    BY <1>1 DEF EndsInMark
  <2>. QED  BY <1>1, <2>1 DEF MarksPlaced
<1>. QED  BY <1>2, <1>3, <1>4, <1>5, <1>6, <1>7 DEF IInv

\* AddPunc puts the text behind the cache.
LEMMA AddPuncIInv ==
    ASSUME IInv, NEW n \in 0..MaxText, NEW final \in BOOLEAN, AddPunc(n, final)
    PROVE  IInv'
<1>1. pc = "idle" /\ n \in Nat /\ heard + n <= MaxWords /\ pc' = "batch" /\ fin' = final
      /\ input' = arr_cache \o Text(n) /\ said' = heard /\ heard' = heard + n
      /\ remain' = <<>> /\ words' = <<>> /\ puncs' = <<>>
      /\ use' = use /\ arr_cache' = arr_cache /\ cleared' = cleared
      /\ shut' = EndsInMark(result) /\ (fin => final)
  BY BoundAssumption DEF AddPunc
<1>2. heard \in Nat /\ heard + n \in 0..MaxWords /\ use \in {"offline", "2pass", "online"}
      /\ cleared \in 0..heard
  BY <1>1, BoundAssumption DEF IInv, TypeOK
<1>3. Len(arr_cache) \in 0..heard /\ Follow(arr_cache, heard - Len(arr_cache))
      /\ (use = "offline" => arr_cache = <<>>)
      /\ Len(arr_cache) <= heard - cleared
      /\ (use # "offline" /\ heard > cleared => arr_cache # <<>>)
  BY <1>1 DEF IInv, Cached
<1>4. PICK c \in Nat, b \in Nat : c = Len(arr_cache) /\ b = heard - c /\ b + c = heard
  BY <1>2, <1>3
<1>5. Follow(input', b) /\ Len(input') = c + n
  <2>1. Follow(Text(n), heard) /\ Len(Text(n)) = n
    BY <1>1, <1>2, FollowText
  <2>2. Follow(arr_cache, b) /\ heard = b + Len(arr_cache)
    BY <1>3, <1>4
  <2>3. Follow(arr_cache \o Text(n), b)
        /\ Len(arr_cache \o Text(n)) = Len(arr_cache) + Len(Text(n))
    BY <2>1, <2>2, FollowConcat
  <2>. QED  BY <1>1, <1>4, <2>1, <2>3
<1>6. TypeOK'
  <2>1. \A k \in DOMAIN input' : input'[k] \in 1..heard'
    <3>1. heard' \in Nat /\ b + Len(input') <= heard'
      BY <1>1, <1>2, <1>4, <1>5
    <3>. QED  BY <1>5, <3>1, FollowBelow
  <2>2. \A s \in {input', remain', words'} : \A k \in DOMAIN s : s[k] \in 1..heard'
    <3>1. DOMAIN remain' = {} /\ DOMAIN words' = {}
      BY <1>1
    <3>. QED  BY <2>1, <3>1
  <2>3. heard' \in 0..MaxWords /\ said' \in 0..heard' /\ fin' \in BOOLEAN
        /\ Len(arr_cache') <= heard' /\ cleared' \in 0..said'
    BY <1>1, <1>2, <1>3
  <2>4. Len(puncs') = Len(words') /\ \A k \in DOMAIN puncs' : puncs'[k] \in Marks
    BY <1>1
  <2>5. shut' \in BOOLEAN
    BY <1>1 DEF EndsInMark, IsMark
  <2>. QED  BY <1>1, <1>2, <2>2, <2>3, <2>4, <2>5 DEF TypeOK
<1>7. Spoken'
  BY <1>1 DEF Spoken
<1>8. Cached' /\ OneCall'
  <2>1. OneCall'
    BY <1>1 DEF OneCall, IInv, MarksPlaced
  <2>. QED  BY <1>1, <1>3, <2>1 DEF Cached
<1>9. InOrder'
  <2>1. said' - Len(arr_cache') = b /\ Len(words') = 0 /\ Len(remain') = 0
        /\ b + 0 = b /\ b + 0 + 0 = b /\ b + 0 + 0 + Len(input') = heard'
    BY <1>1, <1>4, <1>5
  <2>2. Follow(words', b) /\ Follow(remain', b)
    BY <1>1, FollowNothing
  <2>. QED  BY <1>1, <1>5, <2>1, <2>2 DEF InOrder
<1>10. WordsOnce' /\ MarksPlaced'
  BY <1>1 DEF WordsOnce, MarksPlaced
<1>. QED  BY <1>6, <1>7, <1>8, <1>9, <1>10 DEF IInv

\* A batch moves words from the input to the rest and from the rest to the result.
LEMMA BatchIInv ==
    ASSUME IInv, NEW marks, Batch(marks)
    PROVE  IInv'
<1> DEFINE n == IF Len(input) < TokenLen THEN Len(input) ELSE TokenLen
           ids == remain \o SubSeq(input, 1, n)
           k == IF n = Len(input) THEN Len(ids) ELSE Cut(marks)
           ended == IF n = Len(input) THEN marks ELSE Ended(marks)
<1>1. pc = "batch" /\ input # <<>> /\ marks \in [1..Len(ids) -> Marks]
      /\ input' = Rest(input, n) /\ remain' = Rest(ids, k)
      /\ words' = words \o SubSeq(ids, 1, k) /\ puncs' = puncs \o Kept(ended, k)
  BY DEF Batch
<1>0. /\ use' = use /\ pc' = pc /\ heard' = heard /\ said' = said /\ fin' = fin
      /\ arr_cache' = arr_cache /\ cleared' = cleared /\ shut' = shut
  BY DEF Batch, ghosts
<1>2. heard \in Nat /\ heard <= MaxWords /\ said \in Nat /\ said <= heard /\ fin \in BOOLEAN
      /\ cleared \in 0..said /\ shut \in BOOLEAN
      /\ use \in {"offline", "2pass", "online"} /\ Len(arr_cache) <= heard
  BY BoundAssumption DEF IInv, TypeOK
<1>3. Len(arr_cache) \in 0..said
  BY <1>1 DEF IInv, Cached
<1>4. PICK b \in Nat : b = said - Len(arr_cache)
  BY <1>2, <1>3
<1>5. Follow(words, b) /\ Follow(remain, b + Len(words))
      /\ Follow(input, b + Len(words) + Len(remain))
      /\ b + Len(words) + Len(remain) + Len(input) = heard
  BY <1>1, <1>4 DEF IInv, InOrder
<1>6. Len(words) \in Nat /\ Len(remain) \in Nat /\ Len(input) \in Nat /\ Len(input) # 0
  BY <1>1, <1>5 DEF Follow
<1>7. n \in 0..Len(input) /\ n \in Nat
  BY <1>6, LengthAssumption
<1>. HIDE DEF n
<1>8. PICK w \in Nat, r \in Nat, i \in Nat, bw \in Nat, br \in Nat :
        /\ w = Len(words) /\ r = Len(remain) /\ i = Len(input)
        /\ bw = b + w /\ br = b + w + r
  BY <1>6
<1>9. Follow(remain, bw) /\ Follow(input, br) /\ br = bw + Len(remain) /\ br + i = heard
  BY <1>5, <1>8
<1>10. Follow(SubSeq(input, 1, n), br) /\ Len(SubSeq(input, 1, n)) = n
       /\ Follow(Rest(input, n), br + n) /\ Len(Rest(input, n)) = i - n
  BY <1>7, <1>8, <1>9, FollowCut
<1>11. Follow(ids, bw) /\ Len(ids) = r + n
  <2> DEFINE t == SubSeq(input, 1, n)
  <2>1. Follow(t, br) /\ Len(t) = n
    BY <1>10
  <2>2. ids = remain \o t
    OBVIOUS
  <2>. HIDE DEF t, ids
  <2>3. Follow(remain \o t, bw) /\ Len(remain \o t) = Len(remain) + Len(t)
    BY <1>8, <1>9, <2>1, FollowConcat
  <2>. QED  BY <1>8, <2>1, <2>2, <2>3
<1>. HIDE DEF ids
<1>12. Len(ids) \in Nat
  BY <1>7, <1>8, <1>11
<1>13. /\ Len(marks) = Len(ids) /\ Cut(marks) \in 0..Len(ids)
       /\ Ended(marks) \in [1..Len(ids) -> Marks]
  BY <1>1, <1>12, CutWithin
<1>14. k \in 0..Len(ids) /\ k \in Nat /\ (n = Len(input) => k = Len(ids))
  BY <1>12, <1>13
<1>15. ended \in [1..Len(ids) -> Marks]
  BY <1>1, <1>13
<1>. HIDE DEF k, ended
<1>16. Follow(SubSeq(ids, 1, k), bw) /\ Len(SubSeq(ids, 1, k)) = k
       /\ Follow(Rest(ids, k), bw + k) /\ Len(Rest(ids, k)) = Len(ids) - k
  BY <1>8, <1>11, <1>14, FollowCut
<1>17. Follow(words', b) /\ Len(words') = w + k
  <2>1. bw = b + Len(words)
    BY <1>8
  <2> DEFINE t == SubSeq(ids, 1, k)
  <2>2. Follow(t, bw) /\ Len(t) = k
    BY <1>16
  <2>3. words' = words \o t
    BY <1>1
  <2>4. Follow(words, b)
    BY <1>5
  <2>. HIDE DEF t
  <2>5. Follow(words \o t, b) /\ Len(words \o t) = Len(words) + Len(t)
    BY <1>8, <2>1, <2>2, <2>4, FollowConcat
  <2>. QED  BY <1>8, <2>2, <2>3, <2>5
<1>18. Follow(remain', b + Len(words')) /\ Len(remain') = r + n - k
  <2>1. b + Len(words') = bw + k
    BY <1>8, <1>14, <1>17
  <2>2. Follow(remain', bw + k) /\ Len(remain') = Len(ids) - k
    BY <1>1, <1>16
  <2>3. Len(remain') = r + n - k
    BY <1>7, <1>8, <1>11, <1>12, <1>14, <2>2
  <2>. QED  BY <2>1, <2>2, <2>3
<1>19. Follow(input', b + Len(words') + Len(remain')) /\ Len(input') = i - n
  <2>1. b + Len(words') + Len(remain') = br + n
    BY <1>7, <1>8, <1>14, <1>17, <1>18
  <2>2. Follow(input', br + n) /\ Len(input') = i - n
    BY <1>1, <1>10
  <2>. QED  BY <2>1, <2>2
<1>20. InOrder'
  <2>1. said' - Len(arr_cache') = b
    BY <1>0, <1>4
  <2>2. b + Len(words') + Len(remain') + Len(input') = heard'
    BY <1>0, <1>7, <1>8, <1>9, <1>14, <1>17, <1>18, <1>19
  <2>3. input' = <<>> => remain' = <<>>
    <3>1. SUFFICES ASSUME input' = <<>> PROVE remain' = <<>>
      OBVIOUS
    <3>2. n = i
      BY <1>7, <1>8, <1>19, <3>1
    <3>3. Len(remain') = 0
      BY <1>8, <1>11, <1>14, <1>18, <3>2
    <3>. QED  BY <1>18, <3>3 DEF Follow
  <2>. QED  BY <1>17, <1>18, <1>19, <2>1, <2>2, <2>3 DEF InOrder
<1>21. puncs \in Seq(Marks) /\ Len(puncs) = w
  BY <1>8 DEF IInv, Spoken
<1>22. Kept(ended, k) \in Seq(Marks) /\ Len(Kept(ended, k)) = k
  <2>1. \A j \in 1..k : ended[j] \in Marks
    BY <1>12, <1>14, <1>15
  <2>2. SubSeq(ended, 1, k) \in Seq(Marks) /\ Len(SubSeq(ended, 1, k)) = k
    BY <1>14, <2>1, SubSeqProperties
  <2>. QED  BY <2>2 DEF Kept
<1>23. puncs' \in Seq(Marks) /\ Len(puncs') = w + k
  BY <1>1, <1>21, <1>22, ConcatProperties
<1>24. Spoken'
  BY <1>17, <1>23 DEF Spoken, Follow
<1>25. TypeOK'
  <2>1. heard' \in Nat /\ Len(words') \in Nat /\ Len(remain') \in Nat /\ Len(input') \in Nat
        /\ b + Len(words') \in Nat /\ b + Len(words') + Len(remain') \in Nat
        /\ b + Len(words') <= heard' /\ b + Len(words') + Len(remain') <= heard'
        /\ b + Len(words') + Len(remain') + Len(input') <= heard'
    BY <1>0, <1>2, <1>7, <1>8, <1>9, <1>11, <1>14, <1>17, <1>18, <1>19
  <2>2. \A j \in DOMAIN words' : words'[j] \in 1..heard'
    BY <1>17, <2>1, FollowBelow
  <2>3. \A j \in DOMAIN remain' : remain'[j] \in 1..heard'
    BY <1>18, <2>1, FollowBelow
  <2>4. \A j \in DOMAIN input' : input'[j] \in 1..heard'
    BY <1>19, <2>1, FollowBelow
  <2>5. \A s \in {input', remain', words'} : \A j \in DOMAIN s : s[j] \in 1..heard'
    BY <2>2, <2>3, <2>4
  <2>6. Len(puncs') = Len(words') /\ \A j \in DOMAIN puncs' : puncs'[j] \in Marks
    BY <1>17, <1>23
  <2>7. heard' \in 0..MaxWords /\ said' \in 0..heard' /\ Len(arr_cache') <= heard'
    BY <1>0, <1>2, BoundAssumption
  <2>. QED  BY <1>0, <1>1, <1>2, <2>5, <2>6, <2>7 DEF TypeOK
<1>26. Cached' /\ OneCall'
  BY <1>0, <1>1 DEF IInv, Cached, OneCall
<1>27. WordsOnce' /\ MarksPlaced'
  BY <1>0, <1>1 DEF WordsOnce, MarksPlaced
<1>. QED  BY <1>20, <1>24, <1>25, <1>26, <1>27 DEF IInv

\* Such a sequence as a function.
LEMMA FollowIs ==
    ASSUME NEW b \in Nat, NEW s, Follow(s, b)
    PROVE  s = [k \in 1..Len(s) |-> b + k]
<1>1. s \in Seq(Nat) /\ DOMAIN s = 1..Len(s) /\ \A k \in 1..Len(s) : s[k] = b + k
  BY DEF Follow
<1>2. s = [k \in DOMAIN s |-> s[k]]
  BY <1>1
<1>. QED  BY <1>1, <1>2

\* Where the loop ends, the text holds the words behind those told before.
LEMMA LoopEnds ==
    ASSUME IInv, pc = "batch", input = <<>>
    PROVE  LET c == Len(arr_cache)
           IN  /\ heard \in Nat /\ said \in Nat /\ said <= heard /\ c \in 0..said
               /\ Len(words) = heard - (said - c) /\ Follow(words, said - c)
               /\ Told(c) \in Seq(Items) /\ OneMark(Told(c))
               /\ WordsOf(Told(c)) = After(said, heard - said)
               /\ LeadsAs(Told(c), c)
<1>1. heard \in Nat /\ said \in Nat /\ said <= heard
  BY BoundAssumption DEF IInv, TypeOK
<1>2. Len(arr_cache) \in 0..said
  BY DEF IInv, Cached
<1>3. PICK b \in Nat, c \in Nat : c = Len(arr_cache) /\ b = said - c /\ said = b + c
  BY <1>1, <1>2
<1>4. Follow(words, b) /\ b + Len(words) + Len(remain) + Len(input) = heard /\ remain = <<>>
  BY <1>3 DEF IInv, InOrder
<1>5. Len(input) = 0 /\ Len(remain) = 0 /\ Len(words) \in Nat
  BY <1>4 DEF Follow
<1>6. Len(words) = heard - b /\ Len(words) >= c /\ Len(words) - c = heard - said
  BY <1>1, <1>3, <1>4, <1>5
<1>7. /\ Told(c) \in Seq(Items) /\ OneMark(Told(c))
      /\ WordsOf(Told(c)) =
           IF Len(words) >= c THEN After(said, Len(words) - c) ELSE <<>>
      /\ (Len(words) >= c => LeadsAs(Told(c), c))
  <2>1. Spoken
    BY DEF IInv
  <2>. QED  BY <1>1, <1>3, <1>4, <2>1, ToldIs
<1>. QED  BY <1>1, <1>2, <1>3, <1>4, <1>6, <1>7

\* Without its last mark a text has the same words.
LEMMA WithoutLastIs ==
    ASSUME NEW t \in Seq(Items), OneMark(t)
    PROVE  LET u == WithoutLast(t)
           IN  /\ u \in Seq(Items) /\ OneMark(u) /\ ~EndsInMark(u)
               /\ WordsOf(u) = WordsOf(t)
               /\ u # <<>> => u[1] = t[1]
<1>1. CASE EndsInMark(t)
  BY <1>1, TakeMark DEF WithoutLast
<1>2. CASE ~EndsInMark(t)
  BY <1>2 DEF WithoutLast
<1>. QED  BY <1>1, <1>2

\* The period the callers put is a mark.
LEMMA PeriodKnown == "period" \in Marks
BY DEF Marks

\* A text with words is not empty.
LEMMA SomeWords ==
    ASSUME NEW n \in Nat, n > 0, NEW b, NEW u, WordsOf(u) = After(b, n)
    PROVE  u # <<>>
<1>1. 1 \in DOMAIN After(b, n)
  BY DEF After
<1>2. After(b, n) # <<>>
  BY <1>1
<1>. QED  BY <1>2, WordsOfEmpty

\* CTTransformerOnline::AddPunc returns.
LEMMA ReturnsIInv ==
    ASSUME IInv, Returns
    PROVE  IInv'
<1>1. pc = "batch" /\ input = <<>> /\ use # "offline" /\ pc' = "idle"
      /\ use' = use /\ heard' = heard /\ said' = said /\ fin' = fin /\ input' = input
      /\ remain' = remain /\ words' = words /\ puncs' = puncs
      /\ cleared' = cleared /\ shut' = shut
  BY DEF Returns, ghosts
<1>2. result' = WithoutLast(Told(Len(arr_cache)))
                  \o (IF fin /\ use = "2pass" THEN <<Mark("period")>> ELSE <<>>)
      /\ arr_cache' = NextCache
  BY DEF Returns
<1>3. heard \in Nat /\ said \in Nat /\ said <= heard /\ Len(arr_cache) \in 0..said
      /\ cleared \in 0..said
  BY <1>1, LoopEnds DEF IInv, TypeOK
<1>3a. Len(arr_cache) <= said - cleared /\ (said > cleared => arr_cache # <<>>)
       /\ (said > cleared => Len(arr_cache) # 0)
  BY <1>1 DEF IInv, Cached, Follow
<1>4. PICK b \in Nat, c \in Nat, w \in Nat :
        c = Len(arr_cache) /\ b = said - c /\ w = heard - b /\ b + w = heard
  BY <1>3
<1>5. Len(words) = w /\ Follow(words, b) /\ Told(c) \in Seq(Items) /\ OneMark(Told(c))
      /\ WordsOf(Told(c)) = After(said, heard - said) /\ LeadsAs(Told(c), c)
  BY <1>1, <1>4, LoopEnds
<1> DEFINE u == WithoutLast(Told(c))
<1>6. u \in Seq(Items) /\ OneMark(u) /\ ~EndsInMark(u) /\ WordsOf(u) = After(said, heard - said)
      /\ (u # <<>> => u[1] = Told(c)[1])
  BY <1>5, WithoutLastIs
<1>7. result' = u \o (IF fin /\ use = "2pass" THEN <<Mark("period")>> ELSE <<>>)
  BY <1>2, <1>4
<1>7a. heard > said => u # <<>> /\ (IsMark(u[1]) <=> Leading(c))
  <2>1. SUFFICES ASSUME heard > said PROVE u # <<>> /\ (IsMark(u[1]) <=> Leading(c))
    OBVIOUS
  <2>2. heard - said \in Nat /\ heard - said > 0
    BY <1>3, <2>1
  <2>3. u # <<>> /\ Told(c) # <<>>
    BY <1>5, <1>6, <2>2, SomeWords
  <2>. QED  BY <1>5, <1>6, <2>3 DEF LeadsAs
<1>. HIDE DEF u
<1>8. /\ OneMark(result') /\ WordsOf(result') = After(said, heard - said)
      /\ EndsInMark(result') <=> use = "2pass" /\ fin
      /\ EndsInMark(result') => Last(result') = Mark("period")
      /\ u # <<>> => result'[1] = u[1]
  <2>1. CASE fin /\ use = "2pass"
    <3>1. result' = u \o <<Mark("period")>>
      BY <1>7, <2>1
    <3>2. result' = Append(u, Mark("period"))
      BY <1>6, <3>1, Kinds, PeriodKnown, AppendIsConcat
    <3>3. u # <<>> => result'[1] = u[1]
      BY <1>6, <3>2
    <3>. QED  BY <1>6, <2>1, <3>2, <3>3, PeriodKnown, AddMark
  <2>2. CASE ~(fin /\ use = "2pass")
    <3>1. result' = u \o <<>>
      BY <1>7, <2>2
    <3>2. result' = u
      BY <1>6, <3>1, ConcatEmptySeq
    <3>. QED  BY <1>6, <2>2, <3>2
  <2>. QED  BY <2>1, <2>2
<1>9. /\ Follow(arr_cache', heard - Len(arr_cache')) /\ Len(arr_cache') \in 0..heard
      /\ Len(arr_cache') <= heard - cleared
      /\ heard > cleared => arr_cache' # <<>>
  <2> DEFINE k == LastEnd(puncs)
  <2>1. puncs \in [1..w -> Marks]
    BY <1>5 DEF IInv, Spoken
  <2>2. k \in 0..w /\ (w > 0 => k < w)
    BY <2>1, CutWithin
  <2>3. arr_cache' = Rest(words, k)
    BY <1>2 DEF NextCache
  <2>. HIDE DEF k
  <2>4. Follow(Rest(words, k), b + k) /\ Len(Rest(words, k)) = w - k
    BY <1>5, <2>2, FollowCut
  <2>5. PICK j \in Nat, l \in Nat : j = k /\ l = Len(arr_cache') /\ l = w - j
    BY <2>2, <2>3, <2>4
  <2>6. heard - l = b + j /\ l \in 0..heard
    BY <1>3, <1>4, <2>5
  <2>7. b >= cleared /\ l <= heard - cleared
    BY <1>3, <1>3a, <1>4, <2>5
  <2>8. heard > cleared => w > 0
    <3>1. CASE said > cleared
      BY <1>3, <1>3a, <1>4, <3>1
    <3>2. CASE ~(said > cleared)
      BY <1>3, <1>4, <3>2
    <3>. QED  BY <3>1, <3>2
  <2>9. heard > cleared => l # 0
    BY <2>2, <2>5, <2>8
  <2>. QED  BY <1>3, <2>3, <2>4, <2>5, <2>6, <2>7, <2>9
<1>10. TypeOK'
  BY <1>1, <1>9, BoundAssumption DEF IInv, TypeOK
<1>11. Spoken'
  BY <1>1 DEF IInv, Spoken
<1>12. Cached' /\ OneCall'
  BY <1>1, <1>9 DEF IInv, Cached, OneCall
<1>13. InOrder'
  BY <1>1 DEF InOrder
<1>14. WordsOnce'
  <2>1. SaidWords' = [k \in 1..heard' - said' |-> Word(said' + k)]
    BY <1>1, <1>8 DEF SaidWords, After
  <2>2. PICK e \in Nat : e = heard - Len(arr_cache')
    BY <1>3, <1>9
  <2>3. arr_cache' = [k \in 1..Len(arr_cache') |-> e + k]
    BY <1>9, <2>2, FollowIs
  <2>4. arr_cache' = [k \in 1..Len(arr_cache') |-> heard' - Len(arr_cache') + k]
    BY <1>1, <2>2, <2>3
  <2>. QED  BY <1>1, <1>9, <2>1, <2>4 DEF WordsOnce
<1>15. MarksPlaced'
  <2>1. heard > said => (IsMark(result'[1]) <=> Leading(c))
    BY <1>7a, <1>8
  <2>2. Leading(c) <=> said > cleared /\ MarkBefore'
    <3>1. Len(words') - (heard' - said') = c /\ puncs' = puncs
      BY <1>1, <1>3, <1>4, <1>5
    <3>2. MarkBefore' <=> Leading(c)
      BY <3>1 DEF MarkBefore, Leading
    <3>3. c > 0 => said > cleared
      BY <1>3, <1>3a, <1>4
    <3>. QED  BY <3>2, <3>3 DEF Leading
  <2>3. heard' > said' => (IsMark(result'[1]) <=> said' > cleared' /\ MarkBefore')
    BY <1>1, <2>1, <2>2
  <2>4. \A k \in 1..Len(result') - 1 : ~(IsMark(result'[k]) /\ IsMark(result'[k + 1]))
    BY <1>8 DEF OneMark, TwoMarksAt
  <2>. QED  BY <1>1, <1>8, <1>9, <1>12, <2>3, <2>4 DEF MarksPlaced, OneCall
<1>. QED  BY <1>10, <1>11, <1>12, <1>13, <1>14, <1>15 DEF IInv

CacheKept == arr_cache' = arr_cache /\ cleared' = cleared
CacheCleared == arr_cache' = <<>> /\ cleared' = heard

\* A final call returns, or a call throws: there is no text any more, and the cache
\* is empty or what it was.
LEMMA NoTextIInv ==
    ASSUME IInv, pc = "idle", use # "offline", NoText,
           CacheKept \/ CacheCleared, UNCHANGED <<use, pc, heard, input, remain>>
    PROVE  IInv'
<1>1. /\ said' = heard /\ fin' = FALSE /\ shut' = FALSE /\ words' = <<>> /\ puncs' = <<>>
      /\ result' = <<>> /\ use' = use /\ pc' = pc /\ heard' = heard
      /\ input' = input /\ remain' = remain
  BY DEF NoText
<1>2. heard \in Nat /\ heard \in 0..MaxWords /\ cleared \in 0..heard
  BY BoundAssumption DEF IInv, TypeOK
<1>3. /\ cleared' \in 0..heard /\ Len(arr_cache') \in 0..heard
      /\ Follow(arr_cache', heard - Len(arr_cache'))
      /\ Len(arr_cache') <= heard - cleared' /\ (heard > cleared' => arr_cache' # <<>>)
      /\ arr_cache' = [k \in 1..Len(arr_cache') |-> heard - Len(arr_cache') + k]
  <2>1. CASE CacheKept
    BY <1>2, <2>1 DEF CacheKept, IInv, Cached, WordsOnce
  <2>2. CASE CacheCleared
    <3>1. Follow(<<>>, heard) /\ Len(<<>>) = 0 /\ heard - 0 = heard
      BY <1>2, FollowNothing
    <3>2. <<>> = [k \in 1..0 |-> heard - 0 + k]
      OBVIOUS
    <3>. QED  BY <1>2, <2>2, <3>1, <3>2 DEF CacheCleared
  <2>. QED  BY <2>1, <2>2
<1>4. TypeOK'
  <2>1. \A s \in {input', remain', words'} : \A k \in DOMAIN s : s[k] \in 1..heard'
    BY <1>1 DEF IInv, TypeOK
  <2>2. said' \in 0..heard' /\ cleared' \in 0..said' /\ Len(arr_cache') <= heard'
    BY <1>1, <1>2, <1>3
  <2>3. Len(puncs') = Len(words') /\ \A k \in DOMAIN puncs' : puncs'[k] \in Marks
    BY <1>1
  <2>. QED  BY <1>1, <1>2, <2>1, <2>2, <2>3 DEF IInv, TypeOK
<1>5. Spoken' /\ OneCall' /\ InOrder'
  BY <1>1 DEF Spoken, OneCall, InOrder
<1>6. Cached'
  BY <1>1, <1>3 DEF Cached
<1>7. WordsOnce'
  <2>1. [k \in 1..heard' - said' |-> Word(said' + k)] = <<>>
    BY <1>1, <1>2
  <2>2. SaidWords' = <<>>
    BY <1>1, WordsOfEmpty DEF SaidWords
  <2>. QED  BY <1>1, <1>3, <2>1, <2>2 DEF WordsOnce
<1>8. MarksPlaced'
  <2>1. ~EndsInMark(result') /\ Len(result') = 0 /\ ~(heard' > said')
    BY <1>1, <1>2 DEF EndsInMark
  <2>. QED  BY <1>1, <1>3, <2>1 DEF MarksPlaced
<1>. QED  BY <1>4, <1>5, <1>6, <1>7, <1>8 DEF IInv

\* Closed with a period, a text has the same words.
LEMMA ClosedIs ==
    ASSUME NEW t \in Seq(Items), OneMark(t)
    PROVE  LET u == Closed(t)
           IN  /\ OneMark(u) /\ WordsOf(u) = WordsOf(t)
               /\ EndsInMark(u) <=> u # <<>>
               /\ EndsInMark(u) => Last(u) = Mark("period")
<1>1. CASE t = <<>>
  <2>1. Closed(t) = t
    BY <1>1 DEF Closed
  <2>2. ~EndsInMark(t)
    BY <1>1 DEF EndsInMark
  <2>. QED  BY <1>1, <2>1, <2>2
<1>2. CASE EndsInMark(t) /\ Last(t) = Mark("period")
  <2>1. Closed(t) = t
    BY <1>2 DEF Closed
  <2>. QED  BY <1>2, <2>1 DEF EndsInMark
<1>3. CASE t # <<>> /\ ~(EndsInMark(t) /\ Last(t) = Mark("period"))
  <2> DEFINE v == IF EndsInMark(t) THEN Front(t) ELSE t
  <2>1. Closed(t) = Append(v, Mark("period"))
    BY <1>3 DEF Closed
  <2>2. v = WithoutLast(t)
    BY DEF WithoutLast
  <2>3. v \in Seq(Items) /\ OneMark(v) /\ ~EndsInMark(v) /\ WordsOf(v) = WordsOf(t)
    BY <2>2, WithoutLastIs
  <2>. HIDE DEF v
  <2>4. /\ OneMark(Closed(t)) /\ WordsOf(Closed(t)) = WordsOf(t)
        /\ EndsInMark(Closed(t)) /\ Last(Closed(t)) = Mark("period")
    BY <2>1, <2>3, PeriodKnown, AddMark
  <2>. QED  BY <2>4 DEF EndsInMark
<1>. QED  BY <1>1, <1>2, <1>3

\* CTTransformer::AddPunc returns.
LEMMA ReturnsOfflineIInv ==
    ASSUME IInv, ReturnsOffline
    PROVE  IInv'
<1>1. pc = "batch" /\ input = <<>> /\ use = "offline" /\ pc' = "idle"
      /\ use' = use /\ heard' = heard /\ said' = said /\ fin' = fin /\ input' = input
      /\ remain' = remain /\ words' = words /\ puncs' = puncs /\ arr_cache' = arr_cache
      /\ cleared' = cleared /\ shut' = shut /\ result' = Closed(Told(0))
  BY DEF ReturnsOffline, ghosts
<1>2. arr_cache = <<>> /\ Len(arr_cache) = 0 /\ cleared \in 0..said
  BY <1>1 DEF IInv, Cached, TypeOK
<1>3. heard \in Nat /\ said \in Nat /\ said <= heard
      /\ Told(0) \in Seq(Items) /\ OneMark(Told(0))
      /\ WordsOf(Told(0)) = After(said, heard - said)
  BY <1>1, <1>2, LoopEnds
<1>4. /\ OneMark(result') /\ WordsOf(result') = After(said, heard - said)
      /\ EndsInMark(result') <=> result' # <<>>
      /\ EndsInMark(result') => Last(result') = Mark("period")
  BY <1>1, <1>3, ClosedIs
<1>5. TypeOK'
  BY <1>1 DEF IInv, TypeOK
<1>6. Spoken'
  BY <1>1 DEF IInv, Spoken
<1>7. Cached' /\ OneCall'
  <2>1. Follow(<<>>, heard - 0)
    BY <1>3, FollowNothing
  <2>. QED  BY <1>1, <1>2, <1>3, <2>1 DEF Cached, OneCall
<1>8. InOrder'
  BY <1>1 DEF InOrder
<1>9. WordsOnce'
  <2>1. SaidWords' = [k \in 1..heard' - said' |-> Word(said' + k)]
    BY <1>1, <1>4 DEF SaidWords, After
  <2>2. arr_cache' = [k \in 1..Len(arr_cache') |-> heard' - Len(arr_cache') + k]
    BY <1>1, <1>2
  <2>. QED  BY <1>1, <1>2, <1>3, <2>1, <2>2 DEF WordsOnce
<1>10. MarksPlaced'
  BY <1>1, <1>4 DEF MarksPlaced, OneMark, TwoMarksAt
<1>. QED  BY <1>5, <1>6, <1>7, <1>8, <1>9, <1>10 DEF IInv

\* Every step of AddPunc and of its callers keeps the order of the words in the cache,
\* in the rest of the batch and in the text to come, and with it what the
\* connection has been told.
THEOREM Invariance == Spec => []IInv
<1>1. Init => IInv
  BY InitIInv
<1>2. IInv /\ [Next]_vars => IInv'
  <2>1. SUFFICES ASSUME IInv, [Next]_vars PROVE IInv'
    OBVIOUS
  <2>2. ASSUME NEW n \in 0..MaxText, NEW final \in BOOLEAN, AddPunc(n, final) PROVE IInv'
    BY <2>1, <2>2, AddPuncIInv
  <2>3. ASSUME NEW k \in 1..Len(remain) + TokenLen, NEW marks \in [1..k -> Marks], Batch(marks)
        PROVE  IInv'
    BY <2>1, <2>3, BatchIInv
  <2>4. CASE Returns
    BY <2>1, <2>4, ReturnsIInv
  <2>5. CASE ReturnsOffline
    BY <2>1, <2>5, ReturnsOfflineIInv
  <2>6. CASE FinalReturns
    BY <2>1, <2>6, NoTextIInv DEF FinalReturns, CacheCleared
  <2>7. CASE CallThrows
    <3>1. pc = "idle" /\ use # "offline" /\ NoText /\ CacheKept
          /\ UNCHANGED <<use, pc, heard, input, remain>>
      BY <2>7 DEF CallThrows, CacheKept
    <3>. QED  BY <2>1, <3>1, NoTextIInv
  <2>8. CASE UNCHANGED vars
    BY <2>1, <2>8 DEF vars, ghosts, IInv, TypeOK, Spoken, Cached, OneCall, InOrder, WordsOnce,
       SaidWords, MarksPlaced, MarkBefore
  <2>. QED  BY <2>1, <2>2, <2>3, <2>4, <2>5, <2>6, <2>7, <2>8 DEF Next
<1>. QED  BY <1>1, <1>2, PTL DEF Spec

\* Every variable of AddPunc has its type, and each word that left the loop its mark.
THEOREM TypeCorrect == Spec => []TypeOK
<1>1. IInv => TypeOK
  BY DEF IInv
<1>. QED  BY <1>1, Invariance, PTL

\* AddPunc tells each word of a text once and in its place, and its cache holds the
\* words before the next text, for batches, texts and limits of any length.
THEOREM WordsCorrect == Spec => []WordsOnce
<1>1. IInv => WordsOnce
  BY DEF IInv
<1>. QED  BY <1>1, Invariance, PTL

\* No place within a text has two marks, and of two texts only within one final call;
\* a text ends in a period where its caller puts one; and the mark a text withholds
\* begins the next one unless the final call has returned in between.
THEOREM MarksCorrect == Spec => []MarksPlaced
<1>1. IInv => MarksPlaced
  BY DEF IInv
<1>. QED  BY <1>1, Invariance, PTL
=============================================================================
