------------------------ MODULE CtcPrefixDecoder_proofs -----------------------
(***************************************************************************)
(* Proofs about CtcPrefixDecoder, for any vocabulary, beams, frames and     *)
(* hotwords, and utterances of any length: pruning is all that the prefix   *)
(* beam search loses, the times of the tokens are in order and as many as   *)
(* there are tokens, and no hotword takes back what it has not given.       *)
(***************************************************************************)
EXTENDS CtcPrefixDecoder, SequenceTheorems, FiniteSetTheorems, WellFoundedInduction, TLAPS

-----------------------------------------------------------------------------
(* Induction over numbers, and over the subsets of a finite set.            *)

\* A set of numbers has a least one.
LEMMA Least ==
    ASSUME NEW T, T \subseteq Nat, T # {}
    PROVE  \E n \in T : \A m \in T : n <= m
<1> DEFINE R == OpToRel(<, Nat)
<1>1. IsWellFoundedOn(R, Nat)
  BY NatLessThanWellFounded
<1>2. \A x, y \in Nat : <<x, y>> \in R <=> x < y
  BY DEF OpToRel
<1>. HIDE DEF R
<1>3. PICK n \in T : \A m \in T : ~ (<<m, n>> \in R)
  BY <1>1, WFMin
<1>4. n \in Nat
  OBVIOUS
<1>5. ASSUME NEW m \in T PROVE n <= m
  <2>1. m \in Nat
    OBVIOUS
  <2>2. ~(m < n)
    BY <1>2, <1>3, <1>4, <2>1
  <2>. QED  BY <1>4, <2>1, <2>2
<1>. QED  BY <1>5

\* Induction up to a number.
LEMMA UpTo ==
    ASSUME NEW n \in Nat, NEW H, H \subseteq Nat, 0 \in H,
           \A k \in 0..n - 1 : k \in H => k + 1 \in H
    PROVE  \A k \in 0..n : k \in H
<1> DEFINE T == {k \in Nat : k <= n /\ k \notin H}
<1>1. SUFFICES ASSUME T # {} PROVE FALSE
  OBVIOUS
<1>2. T \subseteq Nat
  OBVIOUS
<1>3. \E k \in T : \A m \in T : k <= m
  BY <1>1, <1>2, Least
<1>4. PICK k \in T : \A m \in T : k <= m
  BY <1>3
<1>5. k \in Nat /\ k <= n /\ k \notin H /\ k # 0
  OBVIOUS
<1>6. k - 1 \in Nat /\ k - 1 <= n /\ k - 1 \in 0..n - 1 /\ (k - 1) + 1 = k
  BY <1>5
<1>7. k - 1 \notin T
  BY <1>4, <1>5, <1>6
<1>8. k - 1 \in H
  BY <1>6, <1>7
<1>9. (k - 1) + 1 \in H
  BY <1>6, <1>8
<1>. QED  BY <1>5, <1>6, <1>9

\* Induction over the subsets of a finite set.
LEMMA SubsetsOf ==
    ASSUME NEW U, IsFiniteSet(U), NEW F, {} \in F,
           \A S \in SUBSET U : \A x \in U \ S : S \in F => S \cup {x} \in F
    PROVE  \A S \in SUBSET U : S \in F
<1> DEFINE n == Cardinality(U)
           H == {k \in Nat : \A S \in SUBSET U : Cardinality(S) = k => S \in F}
<1>1. n \in Nat /\ \A S \in SUBSET U : IsFiniteSet(S) /\ Cardinality(S) \in 0..n
  <2>1. n \in Nat
    BY FS_CardinalityType
  <2>2. ASSUME NEW S \in SUBSET U PROVE IsFiniteSet(S) /\ Cardinality(S) \in 0..n
    <3>1. IsFiniteSet(S) /\ Cardinality(S) <= n
      BY FS_Subset
    <3>2. Cardinality(S) \in Nat
      BY <3>1, FS_CardinalityType
    <3>. QED  BY <2>1, <3>1, <3>2
  <2>. QED  BY <2>1, <2>2
<1>2. 0 \in H
  <2>1. ASSUME NEW S \in SUBSET U, Cardinality(S) = 0 PROVE S \in F
    <3>1. S = {}
      BY <1>1, <2>1, FS_EmptySet
    <3>. QED  BY <3>1
  <2>. QED  BY <2>1
<1>3. ASSUME NEW k \in 0..n - 1, k \in H PROVE k + 1 \in H
  <2>1. k \in Nat /\ k + 1 \in Nat /\ k + 1 # 0 /\ (k + 1) - 1 = k
    BY <1>1
  <2>2. ASSUME NEW S \in SUBSET U, Cardinality(S) = k + 1 PROVE S \in F
    <3>1. S # {}
      BY <2>1, <2>2, FS_EmptySet
    <3>2. PICK x \in S : TRUE
      BY <3>1
    <3>3. IsFiniteSet(S)
      BY <1>1
    <3>4. Cardinality(S \ {x}) = Cardinality(S) - 1
      BY <3>3, FS_RemoveElement
    <3>5. Cardinality(S \ {x}) = k
      BY <2>1, <2>2, <3>4
    <3>6. S \ {x} \in F
      BY <1>3, <3>5
    <3>7. x \in U \ (S \ {x}) /\ S \ {x} \in SUBSET U /\ (S \ {x}) \cup {x} = S
      OBVIOUS
    <3>8. (S \ {x}) \cup {x} \in F
      BY <3>6, <3>7
    <3>. QED  BY <3>7, <3>8
  <2>. QED  BY <2>1, <2>2
<1>4. H \subseteq Nat
  OBVIOUS
<1>. HIDE DEF H
<1>5. \A k \in 0..n : k \in H
  BY <1>1, <1>2, <1>3, <1>4, UpTo
<1>6. ASSUME NEW S \in SUBSET U PROVE S \in F
  <2>1. Cardinality(S) \in H
    BY <1>1, <1>5
  <2>. QED  BY <2>1 DEF H
<1>. QED  BY <1>6

-----------------------------------------------------------------------------
(* Sums over finite sets: SumFunction adds every element once.              *)

\* Sums: what SumFunctionOnSet makes of the subsets of a finite set, taking an element
\* away at a time.
AnyOf(S) == CHOOSE x \in S : TRUE
Sums(g, U, t) ==
    /\ t \in [SUBSET U -> Nat] /\ t[{}] = 0
    /\ \A S \in SUBSET U : \A x \in S : t[S] = g[x] + t[S \ {x}]

Unfolds(g, U, t) ==
    t[{}] = 0 /\ \A S \in SUBSET U : S # {} => t[S] = g[AnyOf(S)] + t[S \ {AnyOf(S)}]

\* On the subsets of a finite set there is a sum, one element after the other.
LEMMA SomeSums ==
    ASSUME NEW U, IsFiniteSet(U), NEW g \in [U -> Nat]
    PROVE  \E t \in [SUBSET U -> Nat] : Unfolds(g, U, t)
<1> DEFINE n == Cardinality(U)
           Up(k) == {S \in SUBSET U : Cardinality(S) <= k}
           Good(k, t) == /\ t[{}] = 0
                         /\ \A S \in Up(k) : S # {} => t[S] = g[AnyOf(S)] + t[S \ {AnyOf(S)}]
           H == {k \in Nat : \E t \in [SUBSET U -> Nat] : Good(k, t)}
<1>1. n \in Nat /\ \A S \in SUBSET U : IsFiniteSet(S) /\ Cardinality(S) \in 0..n
  <2>1. n \in Nat
    BY FS_CardinalityType
  <2>2. ASSUME NEW S \in SUBSET U PROVE IsFiniteSet(S) /\ Cardinality(S) \in 0..n
    <3>1. IsFiniteSet(S) /\ Cardinality(S) <= n
      BY FS_Subset
    <3>2. Cardinality(S) \in Nat
      BY <3>1, FS_CardinalityType
    <3>. QED  BY <2>1, <3>1, <3>2
  <2>. QED  BY <2>1, <2>2
<1>2. \A S \in SUBSET U : S # {} => /\ AnyOf(S) \in S /\ S \ {AnyOf(S)} \in SUBSET U
                                    /\ Cardinality(S \ {AnyOf(S)}) = Cardinality(S) - 1
  <2>1. ASSUME NEW S \in SUBSET U, S # {}
        PROVE  /\ AnyOf(S) \in S /\ S \ {AnyOf(S)} \in SUBSET U
               /\ Cardinality(S \ {AnyOf(S)}) = Cardinality(S) - 1
    <3>1. AnyOf(S) \in S
      BY <2>1 DEF AnyOf
    <3>2. IsFiniteSet(S)
      BY <1>1
    <3>. QED  BY <3>1, <3>2, FS_RemoveElement
  <2>. QED  BY <2>1
<1>3. 0 \in H
  <2> DEFINE t == [S \in SUBSET U |-> 0]
  <2>1. t \in [SUBSET U -> Nat] /\ t[{}] = 0
    OBVIOUS
  <2>2. ASSUME NEW S \in Up(0), S # {} PROVE FALSE
    <3>1. S \in SUBSET U /\ Cardinality(S) <= 0
      OBVIOUS
    <3>2. Cardinality(S) = 0 /\ IsFiniteSet(S)
      BY <1>1, <3>1
    <3>. QED  BY <2>2, <3>2, FS_EmptySet
  <2>. HIDE DEF t, Up
  <2>3. Good(0, t)
    BY <2>1, <2>2
  <2>. QED  BY <2>1, <2>3
<1>4. ASSUME NEW k \in 0..n - 1, k \in H PROVE k + 1 \in H
  <2>1. k \in Nat /\ k + 1 \in Nat /\ k + 1 # 0 /\ (k + 1) - 1 = k
    BY <1>1
  <2>2. PICK t \in [SUBSET U -> Nat] : Good(k, t)
    BY <1>4
  <2> DEFINE u == [S \in SUBSET U |-> IF Cardinality(S) = k + 1 THEN g[AnyOf(S)] + t[S \ {AnyOf(S)}]
                                      ELSE t[S]]
  <2>3. ASSUME NEW S \in SUBSET U PROVE u[S] \in Nat
    <3>1. CASE Cardinality(S) = k + 1
      <4>1. S # {}
        BY <2>1, <3>1, FS_EmptySet
      <4>2. g[AnyOf(S)] \in Nat /\ t[S \ {AnyOf(S)}] \in Nat
        BY <1>2, <4>1
      <4>. QED  BY <3>1, <4>2
    <3>2. CASE Cardinality(S) # k + 1
      BY <3>2
    <3>. QED  BY <3>1, <3>2
  <2>4. u \in [SUBSET U -> Nat]
    BY <2>3
  <2>5. u[{}] = 0
    <3>1. Cardinality({}) # k + 1
      BY <2>1, FS_EmptySet
    <3>. QED  BY <2>2, <3>1
  <2>6. ASSUME NEW S \in Up(k + 1), S # {} PROVE u[S] = g[AnyOf(S)] + u[S \ {AnyOf(S)}]
    <3>1. S \in SUBSET U /\ Cardinality(S) \in Nat /\ Cardinality(S) <= k + 1
      BY <1>1
    <3>2. AnyOf(S) \in S /\ S \ {AnyOf(S)} \in SUBSET U
          /\ Cardinality(S \ {AnyOf(S)}) = Cardinality(S) - 1
      BY <1>2, <2>6, <3>1
    <3>3. Cardinality(S \ {AnyOf(S)}) # k + 1
      BY <2>1, <3>1, <3>2
    <3>4. u[S \ {AnyOf(S)}] = t[S \ {AnyOf(S)}]
      BY <3>2, <3>3
    <3>5. CASE Cardinality(S) = k + 1
      BY <3>1, <3>4, <3>5
    <3>6. CASE Cardinality(S) # k + 1
      <4>1. S \in Up(k)
        BY <2>1, <3>1, <3>6
      <4>2. t[S] = g[AnyOf(S)] + t[S \ {AnyOf(S)}]
        BY <2>2, <2>6, <4>1
      <4>3. u[S] = t[S]
        BY <3>1, <3>6
      <4>. QED  BY <3>4, <4>2, <4>3
    <3>. QED  BY <3>5, <3>6
  <2>. HIDE DEF u, Up
  <2>7. Good(k + 1, u)
    BY <2>5, <2>6
  <2>. QED  BY <2>1, <2>4, <2>7
<1>5. H \subseteq Nat
  OBVIOUS
<1>. HIDE DEF H
<1>6. \A k \in 0..n : k \in H
  BY <1>1, <1>3, <1>4, <1>5, UpTo
<1>7. n \in H
  BY <1>1, <1>6
<1>8. PICK t \in [SUBSET U -> Nat] : Good(n, t)
  BY <1>7 DEF H
<1>9. \A S \in SUBSET U : S \in Up(n)
  BY <1>1
<1>. HIDE DEF Up
<1>10. Unfolds(g, U, t)
  BY <1>8, <1>9 DEF Unfolds
<1>. QED  BY <1>10

\* The order does not matter.
LEMMA SumsAnyOrder ==
    ASSUME NEW U, IsFiniteSet(U), NEW g \in [U -> Nat], NEW t \in [SUBSET U -> Nat],
           Unfolds(g, U, t)
    PROVE  Sums(g, U, t)
<1> DEFINE n == Cardinality(U)
           H == {k \in Nat : \A S \in SUBSET U : Cardinality(S) = k =>
                               \A x \in S : t[S] = g[x] + t[S \ {x}]}
<1>1. n \in Nat /\ \A S \in SUBSET U : IsFiniteSet(S) /\ Cardinality(S) \in 0..n
  <2>1. n \in Nat
    BY FS_CardinalityType
  <2>2. ASSUME NEW S \in SUBSET U PROVE IsFiniteSet(S) /\ Cardinality(S) \in 0..n
    <3>1. IsFiniteSet(S) /\ Cardinality(S) <= n
      BY FS_Subset
    <3>2. Cardinality(S) \in Nat
      BY <3>1, FS_CardinalityType
    <3>. QED  BY <2>1, <3>1, <3>2
  <2>. QED  BY <2>1, <2>2
<1>2. 0 \in H
  <2>1. ASSUME NEW S \in SUBSET U, Cardinality(S) = 0, NEW x \in S PROVE FALSE
    BY <1>1, <2>1, FS_EmptySet
  <2>. QED  BY <2>1
<1>3. ASSUME NEW k \in 0..n - 1, k \in H PROVE k + 1 \in H
  <2>1. k \in Nat /\ k + 1 \in Nat /\ (k + 1) - 1 = k
    BY <1>1
  <2>2. ASSUME NEW S \in SUBSET U, Cardinality(S) = k + 1, NEW x \in S
        PROVE  t[S] = g[x] + t[S \ {x}]
    <3> DEFINE z == AnyOf(S)
    <3>1. z \in S
      BY DEF AnyOf
    <3>2. t[S] = g[z] + t[S \ {z}]
      <4>1. S # {}
        OBVIOUS
      <4>. QED  BY <4>1 DEF Unfolds
    <3>. HIDE DEF z
    <3>3. CASE z = x
      BY <3>2, <3>3
    <3>4. CASE z # x
      <4> DEFINE V == S \ {z}
                 W == S \ {x}
                 R == (S \ {z}) \ {x}
      <4>1. V \in SUBSET U /\ W \in SUBSET U /\ R \in SUBSET U /\ V \ {x} = R /\ W \ {z} = R
            /\ x \in V /\ z \in W
        BY <3>1, <3>4
      <4>2. IsFiniteSet(S)
        BY <1>1
      <4>3. Cardinality(V) = k /\ Cardinality(W) = k
        BY <2>1, <2>2, <3>1, <4>2, FS_RemoveElement
      <4>. HIDE DEF V, W, R
      <4>4. t[V] = g[x] + t[V \ {x}]
        BY <1>3, <4>1, <4>3
      <4>5. t[W] = g[z] + t[W \ {z}]
        BY <1>3, <4>1, <4>3
      <4>6. g[x] \in Nat /\ g[z] \in Nat /\ t[R] \in Nat
        BY <3>1, <4>1
      <4>7. t[S] = g[z] + (g[x] + t[R])
        BY <3>2, <4>1, <4>4 DEF V
      <4>8. t[W] = g[z] + t[R]
        BY <4>1, <4>5
      <4>9. t[S] = g[x] + t[W]
        BY <4>6, <4>7, <4>8
      <4>. QED  BY <4>9 DEF W
    <3>. QED  BY <3>3, <3>4
  <2>. QED  BY <2>1, <2>2
<1>4. H \subseteq Nat
  OBVIOUS
<1>. HIDE DEF H
<1>5. \A k \in 0..n : k \in H
  BY <1>1, <1>2, <1>3, <1>4, UpTo
<1>6. ASSUME NEW S \in SUBSET U, NEW x \in S PROVE t[S] = g[x] + t[S \ {x}]
  <2>1. Cardinality(S) \in H
    BY <1>1, <1>5
  <2>. QED  BY <2>1 DEF H
<1>7. t[{}] = 0
  BY DEF Unfolds
<1>. QED  BY <1>6, <1>7 DEF Sums

\* There is no other.
LEMMA SumsUnique ==
    ASSUME NEW U, IsFiniteSet(U), NEW g, NEW t, NEW u,
           Unfolds(g, U, t), Unfolds(g, U, u)
    PROVE  \A S \in SUBSET U : t[S] = u[S]
<1> DEFINE n == Cardinality(U)
           H == {k \in Nat : \A S \in SUBSET U : Cardinality(S) = k => t[S] = u[S]}
<1>1. n \in Nat /\ \A S \in SUBSET U : IsFiniteSet(S) /\ Cardinality(S) \in 0..n
  <2>1. n \in Nat
    BY FS_CardinalityType
  <2>2. ASSUME NEW S \in SUBSET U PROVE IsFiniteSet(S) /\ Cardinality(S) \in 0..n
    <3>1. IsFiniteSet(S) /\ Cardinality(S) <= n
      BY FS_Subset
    <3>2. Cardinality(S) \in Nat
      BY <3>1, FS_CardinalityType
    <3>. QED  BY <2>1, <3>1, <3>2
  <2>. QED  BY <2>1, <2>2
<1>2. 0 \in H
  <2>1. ASSUME NEW S \in SUBSET U, Cardinality(S) = 0 PROVE t[S] = u[S]
    <3>1. S = {}
      BY <1>1, <2>1, FS_EmptySet
    <3>. QED  BY <3>1 DEF Unfolds
  <2>. QED  BY <2>1
<1>3. ASSUME NEW k \in 0..n - 1, k \in H PROVE k + 1 \in H
  <2>1. k \in Nat /\ k + 1 \in Nat /\ (k + 1) - 1 = k /\ k + 1 # 0
    BY <1>1
  <2>2. ASSUME NEW S \in SUBSET U, Cardinality(S) = k + 1
        PROVE  t[S] = u[S]
    <3>1. S # {}
      BY <2>1, <2>2, FS_EmptySet
    <3> DEFINE z == AnyOf(S)
    <3>2. z \in S
      BY <3>1 DEF AnyOf
    <3>3. t[S] = g[z] + t[S \ {z}] /\ u[S] = g[z] + u[S \ {z}]
      BY <3>1 DEF Unfolds
    <3>. HIDE DEF z
    <3>4. IsFiniteSet(S)
      BY <1>1
    <3>5. Cardinality(S \ {z}) = k
      BY <2>1, <2>2, <3>2, <3>4, FS_RemoveElement
    <3>6. t[S \ {z}] = u[S \ {z}]
      BY <1>3, <3>5
    <3>. QED  BY <3>3, <3>6
  <2>. QED  BY <2>1, <2>2
<1>4. H \subseteq Nat
  OBVIOUS
<1>. HIDE DEF H
<1>5. \A k \in 0..n : k \in H
  BY <1>1, <1>2, <1>3, <1>4, UpTo
<1>6. ASSUME NEW S \in SUBSET U PROVE t[S] = u[S]
  <2>1. Cardinality(S) \in H
    BY <1>1, <1>5
  <2>. QED  BY <2>1 DEF H
<1>. QED  BY <1>6

\* SumFunctionOnSet unfolded.
LEMMA SumIs ==
    ASSUME NEW U, IsFiniteSet(U), NEW g \in [U -> Nat]
    PROVE  \E t : Sums(g, U, t) /\ \A S \in SUBSET U : SumFunctionOnSet(g, S) = t[S]
<1>1. PICK t \in [SUBSET U -> Nat] : Unfolds(g, U, t)
  BY SomeSums
<1>2. Sums(g, U, t)
  BY <1>1, SumsAnyOrder
<1>3. ASSUME NEW S \in SUBSET U PROVE SumFunctionOnSet(g, S) = t[S]
  <2> DEFINE Eq(f) == f = [s \in SUBSET S |-> IF s = {} THEN 0
                                               ELSE g[AnyOf(s)] + f[s \ {AnyOf(s)}]]
             h == CHOOSE f : Eq(f)
             d == [s \in SUBSET S |-> t[s]]
  <2>1. ASSUME NEW s \in SUBSET S
        PROVE  d[s] = IF s = {} THEN 0 ELSE g[AnyOf(s)] + d[s \ {AnyOf(s)}]
    <3>1. s \in SUBSET U /\ s \ {AnyOf(s)} \in SUBSET S
      OBVIOUS
    <3>2. d[s] = t[s] /\ d[s \ {AnyOf(s)}] = t[s \ {AnyOf(s)}]
      BY <3>1
    <3>. QED  BY <1>1, <3>1, <3>2 DEF Unfolds
  <2>2. Eq(d)
    BY <2>1
  <2>3. Eq(h)
    BY <2>2
  <2>4. SumFunctionOnSet(g, S) = h[S]
    BY DEF SumFunctionOnSet, FoldFunctionOnSet, MapThenFoldSet, AnyOf
  <2>. HIDE DEF h, d
  <2>5. Unfolds(g, S, h)
    BY <2>3 DEF Unfolds
  <2>6. Unfolds(g, S, t)
    BY <1>1 DEF Unfolds
  <2>7. IsFiniteSet(S)
    BY FS_Subset
  <2>9. \A s \in SUBSET S : h[s] = t[s]
    BY <2>5, <2>6, <2>7, SumsUnique
  <2>. QED  BY <2>4, <2>9
<1>. QED  BY <1>2, <1>3

\* Products of numbers.
LEMMA Distributes == \A a, b, c \in Nat : (a + b) * c = a * c + b * c /\ a * c \in Nat
OBVIOUS

\* A sum of numbers is a number, and nothing adds up to 0.
LEMMA SumNat ==
    ASSUME NEW S, IsFiniteSet(S), NEW g \in [S -> Nat]
    PROVE  SumFunction(g) \in Nat /\ (S = {} => SumFunction(g) = 0)
<1>1. PICK t : Sums(g, S, t) /\ \A V \in SUBSET S : SumFunctionOnSet(g, V) = t[V]
  BY SumIs
<1>2. SumFunction(g) = t[S]
  <2>1. DOMAIN g = S
    OBVIOUS
  <2>. QED  BY <1>1, <2>1 DEF SumFunction
<1>3. t \in [SUBSET S -> Nat] /\ t[{}] = 0
  BY <1>1 DEF Sums
<1>. QED  BY <1>2, <1>3

Agree(k, g, S) == \A x \in S : k[x] = g[x]

\* Of two functions that agree.
LEMMA SumAgrees ==
    ASSUME NEW U, IsFiniteSet(U), NEW g \in [U -> Nat], NEW S, S \subseteq U,
           NEW k \in [S -> Nat], Agree(k, g, S)
    PROVE  SumFunction(k) = SumFunctionOnSet(g, S)
<1>1. PICK t : Sums(g, U, t) /\ \A V \in SUBSET U : SumFunctionOnSet(g, V) = t[V]
  BY SumIs
<1>2. IsFiniteSet(S)
  BY FS_Subset
<1>3. PICK u : Sums(k, S, u) /\ \A V \in SUBSET S : SumFunctionOnSet(k, V) = u[V]
  BY <1>2, SumIs
<1>4. SumFunction(k) = u[S]
  <2>1. DOMAIN k = S
    OBVIOUS
  <2>. QED  BY <1>3, <2>1 DEF SumFunction
<1>5. Unfolds(k, S, u)
  <2>1. ASSUME NEW V \in SUBSET S, V # {} PROVE u[V] = k[AnyOf(V)] + u[V \ {AnyOf(V)}]
    <3>1. AnyOf(V) \in V
      BY <2>1 DEF AnyOf
    <3>. QED  BY <1>3, <3>1 DEF Sums
  <2>2. u[{}] = 0
    BY <1>3 DEF Sums
  <2>. QED  BY <2>1, <2>2 DEF Unfolds
<1>6. Unfolds(k, S, t)
  <2>1. ASSUME NEW V \in SUBSET S, V # {} PROVE t[V] = k[AnyOf(V)] + t[V \ {AnyOf(V)}]
    <3>1. AnyOf(V) \in V
      BY <2>1 DEF AnyOf
    <3>2. t[V] = g[AnyOf(V)] + t[V \ {AnyOf(V)}]
      BY <1>1, <3>1 DEF Sums
    <3>3. k[AnyOf(V)] = g[AnyOf(V)]
      BY <3>1 DEF Agree
    <3>. QED  BY <3>2, <3>3
  <2>2. t[{}] = 0
    BY <1>1 DEF Sums
  <2>. QED  BY <2>1, <2>2 DEF Unfolds
<1>7. u[S] = t[S]
  BY <1>2, <1>5, <1>6, SumsUnique
<1>. QED  BY <1>1, <1>4, <1>7

\* g is gs on S and gt on T, which share nothing.
Splits(g, U, gs, S, gt, T) ==
    /\ g \in [U -> Nat] /\ gs \in [S -> Nat] /\ gt \in [T -> Nat]
    /\ U = S \cup T /\ S \cap T = {}
    /\ Agree(gs, g, S) /\ Agree(gt, g, T)

\* Of two sets without common elements.
LEMMA SumOfUnion ==
    ASSUME NEW U, NEW S, NEW T, IsFiniteSet(S), IsFiniteSet(T), NEW g, NEW gs, NEW gt,
           Splits(g, U, gs, S, gt, T)
    PROVE  SumFunction(g) = SumFunction(gs) + SumFunction(gt)
<1>0. /\ g \in [U -> Nat] /\ gs \in [S -> Nat] /\ gt \in [T -> Nat]
      /\ U = S \cup T /\ S \cap T = {}
      /\ Agree(gs, g, S) /\ Agree(gt, g, T)
  BY DEF Splits
<1>1. IsFiniteSet(U) /\ S \subseteq U /\ T \subseteq U
  BY <1>0, FS_Union
<1>2. PICK t : Sums(g, U, t) /\ \A V \in SUBSET U : SumFunctionOnSet(g, V) = t[V]
  BY <1>0, <1>1, SumIs
<1>3. t \in [SUBSET U -> Nat] /\ t[{}] = 0
      /\ \A V \in SUBSET U : \A x \in V : t[V] = g[x] + t[V \ {x}]
  BY <1>2 DEF Sums
<1> DEFINE F == {V \in SUBSET T : t[S \cup V] = t[S] + t[V]}
<1>4. {} \in F
  <2>1. S \cup {} = S /\ t[S] \in Nat
    BY <1>1, <1>3
  <2>. QED  BY <1>3, <2>1
<1>5. ASSUME NEW V \in SUBSET T, NEW x \in T \ V, V \in F PROVE V \cup {x} \in F
  <2> DEFINE W == V \cup {x}
             X == S \cup W
             Y == S \cup V
  <2>1. W \in SUBSET T /\ W \in SUBSET U /\ X \in SUBSET U /\ Y \in SUBSET U /\ V \in SUBSET U
        /\ x \in W /\ x \in X /\ W \ {x} = V /\ X \ {x} = Y /\ x \in U
    BY <1>0, <1>1
  <2>. HIDE DEF W, X, Y
  <2>2. t[W] = g[x] + t[V] /\ t[X] = g[x] + t[Y]
    BY <1>3, <2>1
  <2>3. t[Y] = t[S] + t[V]
    BY <1>5 DEF Y
  <2>4. g[x] \in Nat /\ t[S] \in Nat /\ t[V] \in Nat
    BY <1>0, <1>1, <1>3, <2>1
  <2>5. t[X] = t[S] + t[W]
    BY <2>2, <2>3, <2>4
  <2>. QED  BY <2>1, <2>5 DEF X, W
<1>. HIDE DEF F
<1>6. T \in SUBSET T
  OBVIOUS
<1>7. T \in F
  BY <1>4, <1>5, <1>6, SubsetsOf
<1>8. t[U] = t[S] + t[T]
  BY <1>0, <1>7 DEF F
<1>9. SumFunction(g) = t[U]
  <2>1. DOMAIN g = U
    BY <1>0, <1>1
  <2>. QED  BY <1>2, <2>1 DEF SumFunction
<1>10. SumFunction(gs) = t[S]
  BY <1>0, <1>1, <1>2, SumAgrees
<1>11. SumFunction(gt) = t[T]
  BY <1>0, <1>1, <1>2, SumAgrees
<1>. QED  BY <1>8, <1>9, <1>10, <1>11

\* e moves S to T, where k is g times c.
Moves(e, S, T) ==
    /\ e \in [S -> T] /\ \A x, y \in S : e[x] = e[y] => x = y
    /\ \A z \in T : \E x \in S : e[x] = z
Scales(k, g, e, S, c) == \A x \in S : k[e[x]] = g[x] * c

\* Of a function that is another, moved and scaled.
LEMMA SumScaled ==
    ASSUME NEW S, NEW T, IsFiniteSet(S), IsFiniteSet(T), NEW c \in Nat,
           NEW g \in [S -> Nat], NEW k \in [T -> Nat], NEW e,
           Moves(e, S, T), Scales(k, g, e, S, c)
    PROVE  SumFunction(k) = SumFunction(g) * c
<1>0. /\ e \in [S -> T] /\ \A x, y \in S : e[x] = e[y] => x = y
      /\ \A z \in T : \E x \in S : e[x] = z
      /\ \A x \in S : k[e[x]] = g[x] * c
  BY DEF Moves, Scales
<1>1. PICK t : Sums(g, S, t) /\ \A V \in SUBSET S : SumFunctionOnSet(g, V) = t[V]
  BY SumIs
<1>2. PICK u : Sums(k, T, u) /\ \A V \in SUBSET T : SumFunctionOnSet(k, V) = u[V]
  BY SumIs
<1>3. t \in [SUBSET S -> Nat] /\ t[{}] = 0
      /\ \A V \in SUBSET S : \A x \in V : t[V] = g[x] + t[V \ {x}]
  BY <1>1 DEF Sums
<1>4. u[{}] = 0 /\ \A V \in SUBSET T : \A x \in V : u[V] = k[x] + u[V \ {x}]
  BY <1>2 DEF Sums
<1> DEFINE Img(V) == {e[x] : x \in V}
           F == {V \in SUBSET S : u[Img(V)] = t[V] * c}
<1>5. {} \in F
  <2>1. Img({}) = {}
    OBVIOUS
  <2>2. 0 * c = 0
    OBVIOUS
  <2>3. u[Img({})] = t[{}] * c
    BY <1>3, <1>4, <2>1, <2>2
  <2>. QED  BY <2>3
<1>6. ASSUME NEW V \in SUBSET S, NEW x \in S \ V, V \in F PROVE V \cup {x} \in F
  <2> DEFINE W == V \cup {x}
             X == Img(W)
             Y == Img(V)
  <2>1. W \in SUBSET S /\ x \in W /\ W \ {x} = V /\ X \in SUBSET T /\ e[x] \in X
    BY <1>0
  <2>2. X \ {e[x]} = Y
    BY <1>0
  <2>. HIDE DEF W, X, Y
  <2>3. t[W] = g[x] + t[V]
    BY <1>3, <2>1
  <2>4. u[X] = k[e[x]] + u[Y]
    BY <1>4, <2>1, <2>2
  <2>5. u[Y] = t[V] * c
    BY <1>6 DEF Y
  <2>6. k[e[x]] = g[x] * c
    BY <1>0
  <2>7. g[x] \in Nat /\ t[V] \in Nat
    BY <1>3
  <2>8. (g[x] + t[V]) * c = g[x] * c + t[V] * c
    BY <2>7, Distributes
  <2>9. u[X] = t[W] * c
    BY <2>3, <2>4, <2>5, <2>6, <2>8
  <2>. QED  BY <2>1, <2>9 DEF X, W
<1>7. Img(S) = T
  BY <1>0
<1>. HIDE DEF F
<1>8. S \in SUBSET S
  OBVIOUS
<1>9. S \in F
  BY <1>5, <1>6, <1>8, SubsetsOf
<1>10. u[T] = t[S] * c
  BY <1>7, <1>9 DEF F
<1>11. DOMAIN g = S /\ DOMAIN k = T
  OBVIOUS
<1>12. SumFunction(g) = t[S] /\ SumFunction(k) = u[T]
  BY <1>1, <1>2, <1>11 DEF SumFunction
<1>. QED  BY <1>10, <1>12

-----------------------------------------------------------------------------
(* Recursive functions: the probability of an alignment, and its text.      *)

\* f is made from base, one step after the other.
Steps(f, n, base, step) == f[0] = base /\ \A i \in 1..n : f[i] = step[<<i, f[i - 1]>>]

\* There is such a function.
LEMMA SomeSteps ==
    ASSUME NEW n \in Nat, NEW S, NEW base \in S, NEW step \in [(1..n) \X S -> S]
    PROVE  \E f \in [0..n -> S] : Steps(f, n, base, step)
<1> DEFINE H == {m \in Nat : \E f \in [0..m -> S] : Steps(f, m, base, step)}
<1>1. 0 \in H
  <2> DEFINE f == [k \in 0..0 |-> base]
  <2>1. f \in [0..0 -> S]
    OBVIOUS
  <2>2. Steps(f, 0, base, step)
    BY DEF Steps
  <2>. QED  BY <2>1, <2>2
<1>2. ASSUME NEW m \in 0..n - 1, m \in H PROVE m + 1 \in H
  <2>1. PICK f \in [0..m -> S] : Steps(f, m, base, step)
    BY <1>2
  <2>2. m \in Nat /\ m + 1 \in Nat /\ m + 1 \in 1..n /\ (m + 1) - 1 = m /\ m \in 0..m
    OBVIOUS
  <2> DEFINE x == step[<<m + 1, f[m]>>]
             g == [k \in 0..m + 1 |-> IF k = m + 1 THEN x ELSE f[k]]
  <2>3. x \in S
    BY <2>2
  <2>. HIDE DEF x
  <2>4. g \in [0..m + 1 -> S]
    BY <2>2, <2>3
  <2>5. g[0] = base
    <3>1. 0 \in 0..m + 1 /\ 0 # m + 1
      BY <2>2
    <3>2. g[0] = f[0]
      BY <3>1
    <3>. QED  BY <2>1, <3>2 DEF Steps
  <2>6. ASSUME NEW k \in 1..m + 1 PROVE g[k] = step[<<k, g[k - 1]>>]
    <3>1. CASE k = m + 1
      <4>1. g[k] = x /\ g[k - 1] = f[m]
        BY <2>2, <3>1
      <4>. QED  BY <3>1, <4>1 DEF x
    <3>2. CASE k # m + 1
      <4>1. k \in 1..m /\ k \in 0..m + 1 /\ k - 1 \in 0..m + 1 /\ k - 1 # m + 1
        BY <2>2, <3>2
      <4>2. f[k] = step[<<k, f[k - 1]>>]
        BY <2>1, <4>1 DEF Steps
      <4>3. g[k] = f[k] /\ g[k - 1] = f[k - 1]
        BY <3>2, <4>1
      <4>. QED  BY <4>2, <4>3
    <3>. QED  BY <3>1, <3>2
  <2>. HIDE DEF g
  <2>7. Steps(g, m + 1, base, step)
    BY <2>5, <2>6 DEF Steps
  <2>. QED  BY <2>2, <2>4, <2>7
<1>3. H \subseteq Nat
  OBVIOUS
<1>. HIDE DEF H
<1>4. \A k \in 0..n : k \in H
  BY <1>1, <1>2, <1>3, UpTo
<1>5. n \in H
  BY <1>4
<1>. QED  BY <1>5 DEF H

\* Prob, of an alignment of the frames fs.
PathProb(fs, a) ==
    LET prob[i \in 0..Len(a)] == IF i = 0 THEN 1 ELSE prob[i - 1] * fs[i][a[i]]
    IN  prob[Len(a)]

\* g multiplies the probabilities, token by token.
Multiplies(g, n, fs, a) == g[0] = 1 /\ \A i \in 1..n : g[i] = g[i - 1] * fs[i][a[i]]

\* A recursive function is the one function of its equation.
LEMMA PathProbIs ==
    ASSUME NEW n \in Nat, NEW fs, NEW a, Len(a) = n, NEW g, Multiplies(g, n, fs, a)
    PROVE  PathProb(fs, a) = g[n]
<1>0. g[0] = 1 /\ \A i \in 1..n : g[i] = g[i - 1] * fs[i][a[i]]
  BY DEF Multiplies
<1> DEFINE Eq(p) == p = [i \in 0..n |-> IF i = 0 THEN 1 ELSE p[i - 1] * fs[i][a[i]]]
           h == CHOOSE p : Eq(p)
           d == [i \in 0..n |-> g[i]]
<1>1. ASSUME NEW i \in 0..n PROVE d[i] = IF i = 0 THEN 1 ELSE d[i - 1] * fs[i][a[i]]
  <2>1. CASE i = 0
    BY <1>0, <2>1
  <2>2. CASE i # 0
    <3>1. i \in 1..n /\ i - 1 \in 0..n
      BY <2>2
    <3>2. d[i] = g[i] /\ d[i - 1] = g[i - 1]
      BY <3>1
    <3>. QED  BY <1>0, <2>2, <3>1, <3>2
  <2>. QED  BY <2>1, <2>2
<1>2. Eq(d)
  BY <1>1
<1>3. Eq(h)
  BY <1>2
<1>4. PathProb(fs, a) = h[n]
  BY DEF PathProb
<1>. HIDE DEF h, d
<1> DEFINE H == {k \in Nat : h[k] = g[k]}
<1>5. 0 \in H
  BY <1>0, <1>3
<1>6. ASSUME NEW k \in 0..n - 1, k \in H PROVE k + 1 \in H
  <2>1. k + 1 \in 1..n /\ k + 1 \in 0..n /\ (k + 1) - 1 = k /\ k + 1 # 0
    OBVIOUS
  <2>2. h[k + 1] = h[k] * fs[k + 1][a[k + 1]]
    BY <1>3, <2>1
  <2>3. g[k + 1] = g[k] * fs[k + 1][a[k + 1]]
    BY <1>0, <2>1
  <2>4. h[k] = g[k]
    BY <1>6
  <2>5. h[k + 1] = g[k + 1]
    BY <2>2, <2>3, <2>4
  <2>. QED  BY <2>1, <2>5
<1>7. H \subseteq Nat
  OBVIOUS
<1>. HIDE DEF H
<1>8. \A k \in 0..n : k \in H
  BY <1>5, <1>6, <1>7, UpTo
<1>9. n \in H
  BY <1>8
<1>. QED  BY <1>4, <1>9 DEF H

\* g makes the text of an alignment, token by token.
Spells(g, n, a) ==
    /\ g[0] = <<>>
    /\ \A i \in 1..n : g[i] = IF a[i] = blank \/ (i > 1 /\ a[i - 1] = a[i]) THEN g[i - 1]
                               ELSE Append(g[i - 1], a[i])

\* Collapsed, by the same argument.
LEMMA CollapsedIs ==
    ASSUME NEW n \in Nat, NEW a, Len(a) = n, NEW g, Spells(g, n, a)
    PROVE  Collapsed(a) = g[n]
<1>0. /\ g[0] = <<>>
      /\ \A i \in 1..n : g[i] = IF a[i] = blank \/ (i > 1 /\ a[i - 1] = a[i]) THEN g[i - 1]
                                 ELSE Append(g[i - 1], a[i])
  BY DEF Spells
<1> DEFINE Eq(p) == p = [i \in 0..n |->
                           IF i = 0 THEN <<>>
                           ELSE IF a[i] = blank \/ (i > 1 /\ a[i - 1] = a[i]) THEN p[i - 1]
                           ELSE Append(p[i - 1], a[i])]
           h == CHOOSE p : Eq(p)
           d == [i \in 0..n |-> g[i]]
<1>1. ASSUME NEW i \in 0..n
      PROVE  d[i] = IF i = 0 THEN <<>>
                    ELSE IF a[i] = blank \/ (i > 1 /\ a[i - 1] = a[i]) THEN d[i - 1]
                    ELSE Append(d[i - 1], a[i])
  <2>1. CASE i = 0
    BY <1>0, <2>1
  <2>2. CASE i # 0
    <3>1. i \in 1..n /\ i - 1 \in 0..n
      BY <2>2
    <3>2. d[i] = g[i] /\ d[i - 1] = g[i - 1]
      BY <3>1
    <3>. HIDE DEF d
    <3>. QED  BY <1>0, <2>2, <3>1, <3>2
  <2>. QED  BY <2>1, <2>2
<1>2. Eq(d)
  BY <1>1
<1>3. Eq(h)
  BY <1>2
<1>4. Collapsed(a) = h[n]
  BY DEF Collapsed
<1>. HIDE DEF h, d
<1> DEFINE H == {k \in Nat : h[k] = g[k]}
<1>5. 0 \in H
  BY <1>0, <1>3
<1>6. ASSUME NEW k \in 0..n - 1, k \in H PROVE k + 1 \in H
  <2>1. k + 1 \in 1..n /\ k + 1 \in 0..n /\ (k + 1) - 1 = k /\ k + 1 # 0
    OBVIOUS
  <2> DEFINE stays == a[k + 1] = blank \/ (k + 1 > 1 /\ a[k] = a[k + 1])
  <2>2. h[k + 1] = IF stays THEN h[k] ELSE Append(h[k], a[k + 1])
    BY <1>3, <2>1
  <2>3. g[k + 1] = IF stays THEN g[k] ELSE Append(g[k], a[k + 1])
    BY <1>0, <2>1
  <2>4. h[k] = g[k]
    BY <1>6
  <2>. HIDE DEF stays
  <2>5. h[k + 1] = g[k + 1]
    BY <2>2, <2>3, <2>4
  <2>. QED  BY <2>1, <2>5
<1>7. H \subseteq Nat
  OBVIOUS
<1>. HIDE DEF H
<1>8. \A k \in 0..n : k \in H
  BY <1>5, <1>6, <1>7, UpTo
<1>9. n \in H
  BY <1>8
<1>. QED  BY <1>4, <1>9 DEF H

\* One frame and one token more.
LEMMA PathProbAppend ==
    ASSUME NEW n \in Nat, NEW fs \in Seq(Frames), Len(fs) = n, NEW f \in Frames,
           NEW a \in [1..n -> Tokens], NEW w \in Tokens
    PROVE  /\ PathProb(fs, a) \in Nat
           /\ PathProb(Append(fs, f), Append(a, w)) = PathProb(fs, a) * f[w]
<1> DEFINE gs == Append(fs, f)
           b == Append(a, w)
<1>1. a \in Seq(Tokens) /\ Len(a) = n
  OBVIOUS
<1>2. Len(gs) = n + 1 /\ gs[n + 1] = f /\ \A i \in 1..n : gs[i] = fs[i]
  BY AppendProperties
<1>3. Len(b) = n + 1 /\ b[n + 1] = w /\ \A i \in 1..n : b[i] = a[i]
  BY <1>1, AppendProperties
<1>. HIDE DEF gs, b
<1>4. \A i \in 1..n + 1 : gs[i][b[i]] \in Nat
  <2>1. ASSUME NEW i \in 1..n + 1 PROVE gs[i][b[i]] \in Nat
    <3>1. gs[i] \in Frames /\ b[i] \in Tokens
      <4>1. CASE i = n + 1
        BY <1>2, <1>3, <4>1
      <4>2. CASE i # n + 1
        <5>1. i \in 1..n
          BY <4>2
        <5>2. fs[i] \in Frames /\ a[i] \in Tokens
          BY <5>1
        <5>. QED  BY <1>2, <1>3, <5>1, <5>2
      <4>. QED  BY <4>1, <4>2
    <3>2. gs[i] \in [Tokens -> Nat]
      BY <3>1, FrameAssumption
    <3>. QED  BY <3>1, <3>2
  <2>. QED  BY <2>1
<1> DEFINE step == [ix \in (1..n + 1) \X Nat |-> ix[2] * gs[ix[1]][b[ix[1]]]]
<1>5. step \in [(1..n + 1) \X Nat -> Nat]
  <2>1. ASSUME NEW i \in 1..n + 1, NEW x \in Nat PROVE x * gs[i][b[i]] \in Nat
    BY <1>4, Distributes
  <2>. QED  BY <2>1
<1>6. ASSUME NEW i \in 1..n + 1, NEW x \in Nat PROVE step[<<i, x>>] = x * gs[i][b[i]]
  OBVIOUS
<1>. HIDE DEF step
<1>7. n + 1 \in Nat /\ n + 1 \in 1..n + 1 /\ (n + 1) - 1 = n /\ n \in 0..n + 1 /\ 1 \in Nat
  OBVIOUS
<1>8. PICK g \in [0..n + 1 -> Nat] : Steps(g, n + 1, 1, step)
  BY <1>5, <1>7, SomeSteps
<1>9. g[0] = 1 /\ \A i \in 1..n + 1 : g[i] = g[i - 1] * gs[i][b[i]]
  <2>1. ASSUME NEW i \in 1..n + 1 PROVE g[i] = g[i - 1] * gs[i][b[i]]
    <3>1. i - 1 \in 0..n + 1
      OBVIOUS
    <3>2. g[i] = step[<<i, g[i - 1]>>]
      BY <1>8 DEF Steps
    <3>. QED  BY <1>6, <3>1, <3>2
  <2>2. g[0] = 1
    BY <1>8 DEF Steps
  <2>. QED  BY <2>1, <2>2
<1>10. PathProb(gs, b) = g[n + 1]
  <2>1. Multiplies(g, n + 1, gs, b)
    BY <1>9 DEF Multiplies
  <2>. QED  BY <1>3, <1>7, <2>1, PathProbIs
<1>11. PathProb(fs, a) = g[n]
  <2>1. \A i \in 1..n : g[i] = g[i - 1] * fs[i][a[i]]
    <3>1. ASSUME NEW i \in 1..n PROVE g[i] = g[i - 1] * fs[i][a[i]]
      <4>1. i \in 1..n + 1
        OBVIOUS
      <4>2. gs[i] = fs[i] /\ b[i] = a[i]
        BY <1>2, <1>3
      <4>. QED  BY <1>9, <4>1, <4>2
    <3>. QED  BY <3>1
  <2>2. Multiplies(g, n, fs, a)
    BY <1>9, <2>1 DEF Multiplies
  <2>. QED  BY <1>1, <2>2, PathProbIs
<1>12. g[n + 1] = g[n] * f[w]
  BY <1>2, <1>3, <1>7, <1>9
<1>13. g[n] \in Nat
  BY <1>7
<1>. QED  BY <1>10, <1>11, <1>12, <1>13 DEF gs, b

\* Its text, made token by token.
LEMMA SomeCollapsed ==
    ASSUME NEW n \in Nat, NEW a \in [1..n -> Tokens]
    PROVE  \E g \in [0..n -> Seq(Tokens \ {blank})] : Spells(g, n, a)
<1> DEFINE T == Seq(Tokens \ {blank})
           stays(i) == a[i] = blank \/ (i > 1 /\ a[i - 1] = a[i])
           step == [ix \in (1..n) \X T |-> IF stays(ix[1]) THEN ix[2] ELSE Append(ix[2], a[ix[1]])]
<1>1. ASSUME NEW i \in 1..n, NEW x \in T
      PROVE  (IF stays(i) THEN x ELSE Append(x, a[i])) \in T
  <2>1. CASE stays(i)
    BY <2>1
  <2>2. CASE ~stays(i)
    <3>1. a[i] \in Tokens \ {blank}
      BY <2>2
    <3>2. Append(x, a[i]) \in T
      BY <3>1, AppendProperties
    <3>. QED  BY <2>2, <3>2
  <2>. QED  BY <2>1, <2>2
<1>. HIDE DEF T, stays
<1>2. step \in [(1..n) \X T -> T]
  BY <1>1
<1>3. ASSUME NEW i \in 1..n, NEW x \in T
      PROVE  step[<<i, x>>] = IF stays(i) THEN x ELSE Append(x, a[i])
  OBVIOUS
<1>. HIDE DEF step
<1>4. <<>> \in T
  BY DEF T
<1>5. PICK g \in [0..n -> T] : Steps(g, n, <<>>, step)
  BY <1>2, <1>4, SomeSteps
<1>6. g[0] = <<>>
  BY <1>5 DEF Steps
<1>7. ASSUME NEW i \in 1..n
      PROVE  g[i] = IF stays(i) THEN g[i - 1] ELSE Append(g[i - 1], a[i])
  <2>1. i - 1 \in 0..n
    OBVIOUS
  <2>2. g[i] = step[<<i, g[i - 1]>>]
    BY <1>5 DEF Steps
  <2>. QED  BY <1>3, <2>1, <2>2
<1>. QED  BY <1>6, <1>7 DEF T, stays, Spells

\* One token more adds itself to the text, unless it is blank or repeated.
LEMMA CollapsedAppend ==
    ASSUME NEW n \in Nat, NEW a \in [1..n -> Tokens], NEW w \in Tokens
    PROVE  /\ Collapsed(a) \in Seq(Tokens \ {blank})
           /\ Collapsed(Append(a, w)) = IF w = blank \/ (n > 0 /\ a[n] = w) THEN Collapsed(a)
                                        ELSE Append(Collapsed(a), w)
<1> DEFINE b == Append(a, w)
<1>1. a \in Seq(Tokens) /\ Len(a) = n
  OBVIOUS
<1>2. b \in Seq(Tokens) /\ Len(b) = n + 1 /\ b[n + 1] = w /\ \A i \in 1..n : b[i] = a[i]
  BY <1>1, AppendProperties
<1>. HIDE DEF b
<1>3. b \in [1..n + 1 -> Tokens]
  BY <1>2
<1>4. n + 1 \in Nat /\ n + 1 \in 1..n + 1 /\ (n + 1) - 1 = n /\ n \in 0..n + 1
  OBVIOUS
<1>5. PICK g \in [0..n + 1 -> Seq(Tokens \ {blank})] : Spells(g, n + 1, b)
  BY <1>3, <1>4, SomeCollapsed
<1>6. Collapsed(b) = g[n + 1]
  BY <1>2, <1>4, <1>5, CollapsedIs
<1>7. ASSUME NEW i \in 1..n
      PROVE  g[i] = IF a[i] = blank \/ (i > 1 /\ a[i - 1] = a[i]) THEN g[i - 1]
                    ELSE Append(g[i - 1], a[i])
  <2>1. i \in 1..n + 1 /\ b[i] = a[i]
    BY <1>2
  <2>2. i > 1 => b[i - 1] = a[i - 1]
    <3>1. SUFFICES ASSUME i > 1 PROVE b[i - 1] = a[i - 1]
      OBVIOUS
    <3>2. i - 1 \in 1..n
      BY <3>1
    <3>. QED  BY <1>2, <3>2
  <2>3. g[i] = IF b[i] = blank \/ (i > 1 /\ b[i - 1] = b[i]) THEN g[i - 1]
               ELSE Append(g[i - 1], b[i])
    BY <1>5, <2>1 DEF Spells
  <2>. QED  BY <2>1, <2>2, <2>3
<1>8. Collapsed(a) = g[n]
  <2>1. Spells(g, n, a)
    BY <1>5, <1>7 DEF Spells
  <2>. QED  BY <1>1, <2>1, CollapsedIs
<1>9. g[n + 1] = IF b[n + 1] = blank \/ (n + 1 > 1 /\ b[n] = b[n + 1]) THEN g[n]
                 ELSE Append(g[n], b[n + 1])
  BY <1>4, <1>5 DEF Spells
<1>10. n > 0 => b[n] = a[n]
  BY <1>2
<1>11. g[n] \in Seq(Tokens \ {blank})
  BY <1>4
<1>. QED  BY <1>2, <1>6, <1>8, <1>9, <1>10, <1>11 DEF b

\* What Append has put at the end.
LEMMA LastAppended ==
    ASSUME NEW S, NEW s \in Seq(S), NEW x \in S
    PROVE  /\ Append(s, x) \in Seq(S) /\ Append(s, x) # <<>>
           /\ Last(Append(s, x)) = x /\ Front(Append(s, x)) = s
<1>1. Append(s, x) \in Seq(S) /\ Append(s, x) # <<>>
  BY AppendProperties
<1>2. Len(Append(s, x)) = Len(s) + 1 /\ Append(s, x)[Len(s) + 1] = x
  BY AppendProperties
<1>3. Last(Append(s, x)) = x
  BY <1>2 DEF Last
<1>4. Front(Append(s, x)) = s
  BY AppendProperties, SubSeqProperties, SeqEqual DEF Front
<1>. QED  BY <1>1, <1>3, <1>4

\* A text ends in the last token of its alignment, unless that is blank.
LEMMA CollapsedLast ==
    ASSUME NEW n \in Nat, NEW a \in [1..n -> Tokens], n > 0, a[n] # blank
    PROVE  Collapsed(a) # <<>> /\ Last(Collapsed(a)) = a[n]
<1>1. a \in Seq(Tokens) /\ Len(a) = n
  OBVIOUS
<1>2. PICK g \in [0..n -> Seq(Tokens \ {blank})] : Spells(g, n, a)
  BY SomeCollapsed
<1>3. Collapsed(a) = g[n]
  BY <1>1, <1>2, CollapsedIs
<1> DEFINE H == {k \in Nat : k > 0 /\ a[k] # blank => g[k] # <<>> /\ Last(g[k]) = a[k]}
<1>4. 0 \in H
  OBVIOUS
<1>5. ASSUME NEW k \in 0..n - 1, k \in H PROVE k + 1 \in H
  <2>1. k + 1 \in 1..n /\ (k + 1) - 1 = k /\ k \in 0..n /\ k \in Nat /\ k + 1 \in Nat
    OBVIOUS
  <2>2. g[k + 1] = IF a[k + 1] = blank \/ (k + 1 > 1 /\ a[k] = a[k + 1]) THEN g[k]
                   ELSE Append(g[k], a[k + 1])
    BY <1>2, <2>1 DEF Spells
  <2>3. SUFFICES ASSUME a[k + 1] # blank PROVE g[k + 1] # <<>> /\ Last(g[k + 1]) = a[k + 1]
    BY <2>1
  <2>4. CASE k + 1 > 1 /\ a[k] = a[k + 1]
    <3>1. g[k + 1] = g[k] /\ k > 0
      BY <2>1, <2>2, <2>4
    <3>2. g[k] # <<>> /\ Last(g[k]) = a[k]
      BY <1>5, <2>3, <2>4, <3>1
    <3>. QED  BY <2>4, <3>1, <3>2
  <2>5. CASE ~(k + 1 > 1 /\ a[k] = a[k + 1])
    <3> DEFINE s == g[k]
    <3>1. g[k + 1] = Append(s, a[k + 1])
      BY <2>2, <2>3, <2>5
    <3>2. s \in Seq(Tokens \ {blank}) /\ a[k + 1] \in Tokens \ {blank}
      BY <2>1, <2>3
    <3>. HIDE DEF s
    <3>3. Len(Append(s, a[k + 1])) = Len(s) + 1 /\ Append(s, a[k + 1])[Len(s) + 1] = a[k + 1]
          /\ Len(s) \in Nat
      BY <3>2, AppendProperties
    <3>4. Append(s, a[k + 1]) # <<>>
      BY <3>2, LastAppended
    <3>5. Last(Append(s, a[k + 1])) = a[k + 1]
      BY <3>3 DEF Last
    <3>. QED  BY <3>1, <3>4, <3>5
  <2>. QED  BY <2>4, <2>5
<1>6. H \subseteq Nat
  OBVIOUS
<1>. HIDE DEF H
<1>7. \A k \in 0..n : k \in H
  BY <1>4, <1>5, <1>6, UpTo
<1>8. n \in H
  BY <1>7
<1>. QED  BY <1>3, <1>8 DEF H

\* Of the alignment without tokens.
LEMMA EmptyAlignment ==
    /\ Collapsed(<<>>) = <<>>
    /\ \A fs : PathProb(fs, <<>>) = 1
<1> DEFINE c == [i \in 0..0 |-> <<>>]
           p == [i \in 0..0 |-> 1]
<1>1. Len(<<>>) = 0 /\ c[0] = <<>> /\ p[0] = 1
  OBVIOUS
<1>. HIDE DEF c, p
<1>2. Collapsed(<<>>) = c[0]
  <2>1. Spells(c, 0, <<>>)
    BY <1>1 DEF Spells
  <2>. QED  BY <1>1, <2>1, CollapsedIs
<1>3. ASSUME NEW fs PROVE PathProb(fs, <<>>) = p[0]
  <2>1. Multiplies(p, 0, fs, <<>>)
    BY <1>1 DEF Multiplies
  <2>. QED  BY <1>1, <2>1, PathProbIs
<1>. QED  BY <1>1, <1>2, <1>3

-----------------------------------------------------------------------------
(* Alignments, one frame more.                                              *)

\* A token a frame.
Paths(fs) == [1..Len(fs) -> Tokens]

\* Alignments, of the frames fs that left the texts surv.
Among(fs, surv) ==
    {a \in Paths(fs) :
       \A i \in DOMAIN a : /\ a[i] \in TopK(fs[i])
                           /\ Collapsed(SubSeq(a, 1, i)) \in surv[i]}

\* Alignments, for the frames of the state.
LEMMA AlignmentsAre == Alignments = Among(heard, survivors)
BY DEF Alignments, Among, Paths

\* A path is a sequence of as many tokens as there are frames.
LEMMA PathSeq ==
    ASSUME NEW fs \in Seq(Frames), NEW a \in Paths(fs)
    PROVE  a \in Seq(Tokens) /\ Len(a) = Len(fs)
<1> DEFINE n == Len(fs)
<1>1. n \in Nat /\ a \in [1..n -> Tokens]
  BY DEF Paths
<1>. HIDE DEF n
<1>2. a \in Seq(Tokens) /\ Len(a) = n
  BY <1>1
<1>. QED  BY <1>2 DEF n

\* Sequences that agree have the same beginnings.
LEMMA SubSeqSame ==
    ASSUME NEW m \in Nat, NEW i \in 1..m, NEW a \in Seq(Tokens), NEW b \in Seq(Tokens),
           Len(a) >= m, Len(b) >= m, \A j \in 1..m : a[j] = b[j]
    PROVE  SubSeq(a, 1, i) = SubSeq(b, 1, i)
<1>1. 1 \in Int /\ i \in Int /\ 1 <= i
  OBVIOUS
<1>2. \A j \in 1..i : a[j] \in Tokens /\ b[j] \in Tokens /\ a[j] = b[j]
  OBVIOUS
<1>3. /\ SubSeq(a, 1, i) \in Seq(Tokens)
      /\ Len(SubSeq(a, 1, i)) = IF 1 <= i THEN i - 1 + 1 ELSE 0
      /\ \A j \in 1..i - 1 + 1 : SubSeq(a, 1, i)[j] = a[1 + j - 1]
  BY <1>1, <1>2, SubSeqProperties
<1>4. /\ SubSeq(b, 1, i) \in Seq(Tokens)
      /\ Len(SubSeq(b, 1, i)) = IF 1 <= i THEN i - 1 + 1 ELSE 0
      /\ \A j \in 1..i - 1 + 1 : SubSeq(b, 1, i)[j] = b[1 + j - 1]
  BY <1>1, <1>2, SubSeqProperties
<1> DEFINE x == SubSeq(a, 1, i)
           y == SubSeq(b, 1, i)
<1>5. Len(x) = i /\ Len(y) = i
  BY <1>1, <1>3, <1>4
<1>6. ASSUME NEW j \in 1..i PROVE x[j] = y[j]
  <2>1. j \in 1..i - 1 + 1 /\ 1 + j - 1 = j
    OBVIOUS
  <2>2. x[j] = a[j]
    BY <1>3, <2>1
  <2>3. y[j] = b[j]
    BY <1>4, <2>1
  <2>. QED  BY <1>2, <2>2, <2>3
<1>7. x \in Seq(Tokens) /\ y \in Seq(Tokens)
  BY <1>3, <1>4
<1>. HIDE DEF x, y
<1>8. x = y
  BY <1>5, <1>6, <1>7, SeqEqual
<1>. QED  BY <1>8 DEF x, y

\* A path of one frame more.
LEMMA PathAppend ==
    ASSUME NEW fs \in Seq(Frames), NEW f \in Frames
    PROVE  /\ \A a \in Paths(fs), w \in Tokens :
                /\ Append(a, w) \in Paths(Append(fs, f))
                /\ \A v \in Tokens, b \in Paths(fs) : Append(a, w) = Append(b, v) => a = b /\ w = v
           /\ \A b \in Paths(Append(fs, f)) :
                \E a \in Paths(fs), w \in Tokens : b = Append(a, w)
<1> DEFINE n == Len(fs)
           gs == Append(fs, f)
<1>1. n \in Nat /\ Len(gs) = n + 1
  BY AppendProperties
<1>. HIDE DEF n, gs
<1>2. ASSUME NEW a \in Paths(fs), NEW w \in Tokens
      PROVE  /\ Append(a, w) \in Paths(gs)
             /\ \A v \in Tokens, b \in Paths(fs) : Append(a, w) = Append(b, v) => a = b /\ w = v
  <2>1. a \in Seq(Tokens) /\ Len(a) = n
    BY <1>1 DEF Paths, n
  <2>2. Append(a, w) \in Seq(Tokens) /\ Len(Append(a, w)) = n + 1
    BY <2>1, AppendProperties
  <2>3. Append(a, w) \in [1..Len(gs) -> Tokens]
    <3> DEFINE b == Append(a, w)
    <3>. HIDE DEF b
    <3>1. b \in Seq(Tokens) /\ Len(b) = n + 1
      BY <2>2 DEF b
    <3>2. b \in [1..Len(gs) -> Tokens]
      BY <1>1, <3>1
    <3>. QED  BY <3>2 DEF b
  <2>4. ASSUME NEW v \in Tokens, NEW b \in Paths(fs), Append(a, w) = Append(b, v)
        PROVE  a = b /\ w = v
    <3>1. b \in Seq(Tokens) /\ Len(b) = n
      BY <1>1 DEF Paths, n
    <3>. QED  BY <2>1, <2>4, <3>1, LastAppended
  <2>. QED  BY <2>3, <2>4 DEF Paths
<1>3. ASSUME NEW b \in Paths(gs)
      PROVE  \E a \in Paths(fs), w \in Tokens : b = Append(a, w)
  <2> DEFINE a == [i \in 1..n |-> b[i]]
             w == b[n + 1]
  <2>1. b \in [1..n + 1 -> Tokens]
    BY <1>1 DEF Paths
  <2>2. a \in [1..n -> Tokens] /\ w \in Tokens
    BY <1>1, <2>1
  <2>3. a \in Seq(Tokens) /\ Len(a) = n /\ \A i \in 1..n : a[i] = b[i]
    BY <1>1, <2>2
  <2>. HIDE DEF a, w
  <2>4. Append(a, w) \in Seq(Tokens) /\ Len(Append(a, w)) = n + 1
        /\ (\A i \in 1..n : Append(a, w)[i] = a[i]) /\ Append(a, w)[n + 1] = w
    BY <2>2, <2>3, AppendProperties
  <2>5. b \in Seq(Tokens) /\ Len(b) = n + 1
    BY <1>1, <2>1
  <2>6. ASSUME NEW i \in 1..n + 1 PROVE b[i] = Append(a, w)[i]
    <3>1. CASE i = n + 1
      BY <2>4, <3>1 DEF w
    <3>2. CASE i # n + 1
      <4>1. i \in 1..n
        BY <1>1, <3>2
      <4>. QED  BY <2>3, <2>4, <4>1
    <3>. QED  BY <3>1, <3>2
  <2>7. b = Append(a, w)
    BY <2>4, <2>5, <2>6, SeqEqual
  <2>8. a \in Paths(fs)
    BY <2>2 DEF Paths, n
  <2>. QED  BY <2>2, <2>7, <2>8
<1>. QED  BY <1>2, <1>3 DEF gs

\* No beam has cut the longer path: none has cut the shorter, nor its last token,
\* nor its text.
LEMMA AmongAppend ==
    ASSUME NEW fs \in Seq(Frames), NEW f \in Frames, NEW T, NEW surv \in Seq(T), NEW kept \in T,
           Len(surv) = Len(fs), NEW a \in Paths(fs), NEW w \in Tokens
    PROVE  Append(a, w) \in Among(Append(fs, f), Append(surv, kept))
             <=> /\ a \in Among(fs, surv) /\ w \in TopK(f)
                 /\ Collapsed(Append(a, w)) \in kept
<1> DEFINE n == Len(fs)
           gs == Append(fs, f)
           b == Append(a, w)
           su == Append(surv, kept)
<1>1. n \in Nat /\ Len(gs) = n + 1 /\ gs[n + 1] = f /\ \A i \in 1..n : gs[i] = fs[i]
  BY AppendProperties
<1>2. su[n + 1] = kept /\ \A i \in 1..n : su[i] = surv[i]
  BY AppendProperties
<1>3. a \in Seq(Tokens) /\ Len(a) = n /\ DOMAIN a = 1..n
  BY <1>1 DEF Paths
<1>4. b \in Seq(Tokens) /\ Len(b) = n + 1 /\ b[n + 1] = w /\ \A i \in 1..n : b[i] = a[i]
  BY <1>3, AppendProperties
<1>5. b \in Paths(gs)
  BY PathAppend
<1>6. DOMAIN b = 1..n + 1
  BY <1>1, <1>4
<1>. HIDE DEF n, gs, b, su
<1>7. ASSUME NEW i \in 1..n
      PROVE  /\ i \in DOMAIN a /\ i \in DOMAIN b /\ gs[i] = fs[i] /\ b[i] = a[i] /\ su[i] = surv[i]
             /\ SubSeq(b, 1, i) = SubSeq(a, 1, i)
  <2>1. SubSeq(b, 1, i) = SubSeq(a, 1, i)
    <3>1. Len(a) >= n /\ Len(b) >= n
      BY <1>1, <1>3, <1>4
    <3>. QED  BY <1>1, <1>3, <1>4, <3>1, SubSeqSame
  <2>. QED  BY <1>1, <1>2, <1>3, <1>4, <1>6, <2>1
<1>8. SubSeq(b, 1, n + 1) = b
  BY <1>4, SubSeqFull
<1>9. n + 1 \in DOMAIN b
  BY <1>1, <1>6
<1>10. ASSUME b \in Among(gs, su)
       PROVE  a \in Among(fs, surv) /\ w \in TopK(f) /\ Collapsed(b) \in kept
  <2>1. \A i \in DOMAIN b : b[i] \in TopK(gs[i]) /\ Collapsed(SubSeq(b, 1, i)) \in su[i]
    BY <1>10 DEF Among
  <2>2. w \in TopK(f) /\ Collapsed(b) \in kept
    BY <1>1, <1>2, <1>4, <1>8, <1>9, <2>1
  <2>3. ASSUME NEW i \in DOMAIN a
        PROVE  a[i] \in TopK(fs[i]) /\ Collapsed(SubSeq(a, 1, i)) \in surv[i]
    <3>1. i \in 1..n
      BY <1>3
    <3>. QED  BY <1>7, <2>1, <3>1
  <2>. QED  BY <2>2, <2>3 DEF Among
<1>11. ASSUME a \in Among(fs, surv), w \in TopK(f), Collapsed(b) \in kept
       PROVE  b \in Among(gs, su)
  <2>1. \A i \in DOMAIN a : a[i] \in TopK(fs[i]) /\ Collapsed(SubSeq(a, 1, i)) \in surv[i]
    BY <1>11 DEF Among
  <2>2. ASSUME NEW i \in DOMAIN b
        PROVE  b[i] \in TopK(gs[i]) /\ Collapsed(SubSeq(b, 1, i)) \in su[i]
    <3>1. CASE i = n + 1
      BY <1>1, <1>2, <1>4, <1>8, <1>11, <3>1
    <3>2. CASE i # n + 1
      <4>1. i \in 1..n
        BY <1>1, <1>6, <3>2
      <4>. QED  BY <1>7, <2>1, <4>1
    <3>. QED  BY <3>1, <3>2
  <2>. QED  BY <1>5, <2>2 DEF Among
<1>. QED  BY <1>10, <1>11 DEF gs, b, su

\* There are finitely many.
LEMMA AmongFinite ==
    ASSUME NEW fs \in Seq(Frames), NEW f \in Frames, NEW T, NEW surv \in Seq(T), NEW kept \in T,
           Len(surv) = Len(fs), IsFiniteSet(Among(fs, surv))
    PROVE  IsFiniteSet(Among(Append(fs, f), Append(surv, kept)))
<1> DEFINE A == Among(fs, surv)
           B == Among(Append(fs, f), Append(surv, kept))
           D == A \X Tokens
           e == [aw \in D |-> Append(aw[1], aw[2])]
           E == {e[x] : x \in D}
<1>1. IsFiniteSet(D)
  BY TokenAssumption, FS_Product
<1>2. e \in Surjection(D, E)
  BY DEF Surjection
<1>3. IsFiniteSet(E)
  BY <1>1, <1>2, FS_Surjection DEF ExistsSurjection
<1>4. ASSUME NEW b \in B PROVE b \in E
  <2>1. b \in Paths(Append(fs, f))
    BY DEF Among
  <2>2. PICK a \in Paths(fs), w \in Tokens : b = Append(a, w)
    BY <2>1, PathAppend
  <2>3. a \in A
    BY <2>2, AmongAppend
  <2>4. <<a, w>> \in D /\ e[<<a, w>>] = b
    BY <2>2, <2>3
  <2>. QED  BY <2>4
<1>. HIDE DEF B, E
<1>5. B \subseteq E
  BY <1>4
<1>6. IsFiniteSet(B)
  BY <1>3, <1>5, FS_Subset
<1>. QED  BY <1>6 DEF B

-----------------------------------------------------------------------------
(* The probability of a set of alignments, and of its best.                 *)

\* The probability of a set of paths, and of its best.
PathSum(fs, S) == SumFunction([a \in S |-> PathProb(fs, a)])
IsBest(v, fs, S) ==
    /\ v \in Nat /\ \A a \in S : PathProb(fs, a) <= v
    /\ v = 0 \/ \E a \in S : PathProb(fs, a) = v

Weighs(x, v, fs, S) == x \in Nat /\ x = PathSum(fs, S) /\ IsBest(v, fs, S)

\* Probabilities of paths, and their sums, are numbers.
LEMMA PathProbNat ==
    ASSUME NEW fs \in Seq(Frames), NEW S, S \subseteq Paths(fs), IsFiniteSet(S)
    PROVE  /\ \A a \in S : PathProb(fs, a) \in Nat
           /\ [a \in S |-> PathProb(fs, a)] \in [S -> Nat]
           /\ PathSum(fs, S) \in Nat
<1>1. ASSUME NEW a \in S PROVE PathProb(fs, a) \in Nat
  <2> DEFINE n == Len(fs)
  <2>1. n \in Nat
    OBVIOUS
  <2>2. a \in [1..n -> Tokens]
    BY DEF Paths
  <2>. HIDE DEF n
  <2>3. Len(fs) = n
    BY DEF n
  <2>4. blank \in Tokens
    BY TokenAssumption
  <2>5. ASSUME NEW f \in Frames PROVE PathProb(fs, a) \in Nat
    BY <2>1, <2>2, <2>3, <2>4, PathProbAppend
  <2>6. CASE n = 0
    <3>1. a = <<>>
      BY <2>2, <2>6
    <3>. QED  BY <3>1, EmptyAlignment
  <2>7. CASE n # 0
    <3>1. fs[1] \in Frames
      BY <2>1, <2>3, <2>7
    <3>. QED  BY <2>5, <3>1
  <2>. QED  BY <2>6, <2>7
<1>2. [a \in S |-> PathProb(fs, a)] \in [S -> Nat]
  BY <1>1
<1>3. PathSum(fs, S) \in Nat
  BY <1>2, SumNat DEF PathSum
<1>. QED  BY <1>1, <1>2, <1>3

\* Of no paths.
LEMMA WeighsNothing == \A fs : Weighs(0, 0, fs, {})
<1>1. ASSUME NEW fs PROVE PathSum(fs, {}) = 0
  <2> DEFINE g == [a \in {} |-> PathProb(fs, a)]
  <2>1. g \in [{} -> Nat] /\ IsFiniteSet({})
    BY FS_EmptySet
  <2>. HIDE DEF g
  <2>2. SumFunction(g) = 0
    BY <2>1, SumNat
  <2>. QED  BY <2>2 DEF PathSum, g
<1>. QED  BY <1>1 DEF Weighs, IsBest

\* Of two sets of paths.
LEMMA WeighsUnion ==
    ASSUME NEW fs \in Seq(Frames), NEW S, NEW T, S \subseteq Paths(fs), T \subseteq Paths(fs),
           IsFiniteSet(S), IsFiniteSet(T), S \cap T = {},
           NEW x, NEW y, NEW v, NEW w, Weighs(x, v, fs, S), Weighs(y, w, fs, T)
    PROVE  Weighs(x + y, IF v >= w THEN v ELSE w, fs, S \cup T)
<1> DEFINE U == S \cup T
           g == [a \in U |-> PathProb(fs, a)]
           gs == [a \in S |-> PathProb(fs, a)]
           gt == [a \in T |-> PathProb(fs, a)]
<1>1. IsFiniteSet(U) /\ U \subseteq Paths(fs) 
  BY FS_Union
<1>2. g \in [U -> Nat] /\ gs \in [S -> Nat] /\ gt \in [T -> Nat]
  BY <1>1, PathProbNat
<1>3. Agree(gs, g, S)
  BY DEF Agree
<1>4. Agree(gt, g, T)
  BY DEF Agree
<1>. HIDE DEF U, g, gs, gt
<1>5. SumFunction(g) = SumFunction(gs) + SumFunction(gt)
  <2>1. Splits(g, U, gs, S, gt, T)
    BY <1>2, <1>3, <1>4 DEF Splits, U
  <2>. QED  BY <2>1, SumOfUnion
<1>6. PathSum(fs, U) = x + y /\ x \in Nat /\ y \in Nat
  BY <1>5 DEF g, gs, gt, PathSum, Weighs
<1>7. IsBest(IF v >= w THEN v ELSE w, fs, U)
  <2>1. v \in Nat /\ w \in Nat
    BY DEF Weighs, IsBest, U
  <2>2. \A a \in U : PathProb(fs, a) \in Nat
    BY <1>1, PathProbNat
  <2>3. CASE v >= w
    BY <2>1, <2>2, <2>3 DEF Weighs, IsBest, U
  <2>4. CASE ~(v >= w)
    BY <2>1, <2>2, <2>4 DEF Weighs, IsBest, U
  <2>. QED  BY <2>3, <2>4
<1>8. x + y \in Nat
  BY <1>6
<1>. QED  BY <1>6, <1>7, <1>8 DEF Weighs, U

\* A product grows with its factor.
LEMMA Monotone ==
    ASSUME NEW x \in Nat, NEW y \in Nat, NEW c \in Nat, x <= y
    PROVE  x * c <= y * c
<1> DEFINE d == y - x
<1>1. d \in Nat /\ y = x + d
  OBVIOUS
<1>. HIDE DEF d
<1>2. (x + d) * c = x * c + d * c /\ x * c \in Nat /\ d * c \in Nat
  BY <1>1, Distributes
<1>. QED  BY <1>1, <1>2

\* Of a set of paths that all get the same token more.
Longer(S, w) == {Append(a, w) : a \in S}

\* They are paths of a frame more.
LEMMA LongerPaths ==
    ASSUME NEW fs \in Seq(Frames), NEW f \in Frames, NEW S, S \subseteq Paths(fs), IsFiniteSet(S),
           NEW w \in Tokens
    PROVE  Longer(S, w) \subseteq Paths(Append(fs, f)) /\ IsFiniteSet(Longer(S, w))
<1> DEFINE T == Longer(S, w)
           e == [a \in S |-> Append(a, w)]
<1>1. ASSUME NEW a \in S PROVE Append(a, w) \in Paths(Append(fs, f))
  <2>1. a \in Paths(fs)
    OBVIOUS
  <2>. QED  BY <2>1, PathAppend
<1>2. T \subseteq Paths(Append(fs, f))
  BY <1>1 DEF Longer
<1>3. e \in Surjection(S, T)
  BY DEF Surjection, Longer
<1>4. IsFiniteSet(T)
  BY <1>3, FS_Surjection DEF ExistsSurjection
<1>. QED  BY <1>2, <1>4

\* Their probabilities are multiplied by that of the token.
LEMMA WeighsLonger ==
    ASSUME NEW fs \in Seq(Frames), NEW f \in Frames, NEW S, S \subseteq Paths(fs), IsFiniteSet(S),
           NEW w \in Tokens, NEW x, NEW v, Weighs(x, v, fs, S)
    PROVE  Weighs(x * f[w], v * f[w], Append(fs, f), Longer(S, w))
<1> DEFINE gs == Append(fs, f)
           T == Longer(S, w)
           e == [a \in S |-> Append(a, w)]
           c == f[w]
           g == [a \in S |-> PathProb(fs, a)]
           k == [b \in T |-> PathProb(gs, b)]
<1>1. T \subseteq Paths(gs) /\ IsFiniteSet(T) /\ gs \in Seq(Frames)
  BY LongerPaths, AppendProperties
<1>2. c \in Nat
  BY FrameAssumption
<1>3. ASSUME NEW a \in S
      PROVE  /\ PathProb(fs, a) \in Nat
             /\ PathProb(gs, Append(a, w)) = PathProb(fs, a) * c
  <2> DEFINE n == Len(fs)
  <2>1. n \in Nat
    OBVIOUS
  <2>2. a \in [1..n -> Tokens]
    BY DEF Paths
  <2>. HIDE DEF n
  <2>3. Len(fs) = n
    BY DEF n
  <2>. QED  BY <2>1, <2>2, <2>3, PathProbAppend
<1>4. PathSum(gs, T) = x * c
  <2>1. g \in [S -> Nat] /\ k \in [T -> Nat]
    BY <1>1, PathProbNat
  <2>2. e \in [S -> T] /\ \A z \in T : \E a \in S : e[a] = z
    BY DEF Longer
  <2>3. ASSUME NEW a \in S, NEW b \in S, e[a] = e[b] PROVE a = b
    <3>1. a \in Paths(fs) /\ b \in Paths(fs) /\ Append(a, w) = Append(b, w)
      BY <2>3
    <3>2. a \in Seq(Tokens) /\ b \in Seq(Tokens)
      BY <3>1, PathSeq
    <3>3. Front(Append(a, w)) = a
      BY <3>2, LastAppended
    <3>4. Front(Append(b, w)) = b
      BY <3>2, LastAppended
    <3>. QED  BY <3>1, <3>3, <3>4
  <2>4. ASSUME NEW a \in S PROVE k[e[a]] = g[a] * c
    <3>1. e[a] = Append(a, w) /\ e[a] \in T /\ g[a] = PathProb(fs, a)
      BY <2>2
    <3>2. k[e[a]] = PathProb(gs, e[a])
      BY <3>1
    <3>. QED  BY <1>3, <3>1, <3>2
  <2>. HIDE DEF e, g, k, c, T
  <2>5. Moves(e, S, T)
    BY <2>2, <2>3 DEF Moves
  <2>6. Scales(k, g, e, S, c)
    BY <2>4 DEF Scales
  <2>7. SumFunction(k) = SumFunction(g) * c
    BY <1>1, <1>2, <2>1, <2>5, <2>6, SumScaled
  <2>8. SumFunction(k) = PathSum(gs, T) /\ SumFunction(g) = x
    BY DEF k, g, PathSum, Weighs
  <2>. QED  BY <2>7, <2>8
<1>5. IsBest(v * c, gs, T)
  <2>1. v \in Nat
    BY DEF Weighs, IsBest
  <2>2. v * c \in Nat /\ 0 * c = 0
    BY <1>2, <2>1, Distributes
  <2>3. ASSUME NEW b \in T PROVE PathProb(gs, b) <= v * c
    <3>1. PICK a \in S : b = Append(a, w)
      BY DEF Longer
    <3>2. PathProb(fs, a) <= v
      BY DEF Weighs, IsBest
    <3>3. PathProb(fs, a) * c <= v * c
      BY <1>2, <1>3, <2>1, <3>2, Monotone
    <3>. QED  BY <1>3, <3>1, <3>3
  <2>4. v * c = 0 \/ \E b \in T : PathProb(gs, b) = v * c
    <3>1. CASE v = 0
      BY <2>2, <3>1
    <3>2. CASE v # 0
      <4>1. PICK a \in S : PathProb(fs, a) = v
        BY <3>2 DEF Weighs, IsBest
      <4>2. Append(a, w) \in T
        BY DEF Longer
      <4>. QED  BY <1>3, <4>1, <4>2
    <3>. QED  BY <3>1, <3>2
  <2>. HIDE DEF T, c, gs
  <2>. QED  BY <2>2, <2>3, <2>4 DEF IsBest
<1>6. x * c \in Nat
  <2>1. x \in Nat
    BY DEF Weighs
  <2>. QED  BY <1>2, <2>1, Distributes
<1>. HIDE DEF T, c, gs
<1>7. Weighs(x * c, v * c, gs, T)
  BY <1>4, <1>5, <1>6 DEF Weighs
<1>. QED  BY <1>7 DEF T, c, gs

\* The best probability is the maximum.
LEMMA BestIs ==
    ASSUME NEW fs \in Seq(Frames), NEW S, S \subseteq Paths(fs), IsFiniteSet(S),
           NEW v, IsBest(v, fs, S)
    PROVE  Max({0} \cup {PathProb(fs, a) : a \in S}) = v
<1> DEFINE V == {0} \cup {PathProb(fs, a) : a \in S}
<1>1. V \subseteq Nat /\ v \in V /\ \A y \in V : y <= v
  <2>1. \A a \in S : PathProb(fs, a) \in Nat
    BY PathProbNat
  <2>. QED  BY <2>1 DEF IsBest
<1>. HIDE DEF V
<1>2. \E x \in V : \A y \in V : x >= y
  BY <1>1
<1> DEFINE m == CHOOSE x \in V : \A y \in V : x >= y
<1>3. m \in V /\ \A y \in V : m >= y
  BY <1>2
<1>. HIDE DEF m
<1>4. m = v
  <2>1. m \in Nat /\ v \in Nat
    BY <1>1, <1>3
  <2>2. m <= v /\ m >= v
    BY <1>1, <1>3
  <2>. QED  BY <2>1, <2>2
<1>. QED  BY <1>4 DEF Max, m, V

-----------------------------------------------------------------------------
(* The text of an alignment, and what ends it.                              *)

\* What texts are made of.
Words == Tokens \ {blank}

\* A sequence is its front and its last element.
LEMMA FrontLast ==
    ASSUME NEW S, NEW p \in Seq(S), p # <<>>
    PROVE  /\ Len(p) > 0 /\ Last(p) \in S /\ Front(p) \in Seq(S)
           /\ Len(Front(p)) = Len(p) - 1 /\ Append(Front(p), Last(p)) = p /\ Front(p) # p
           /\ \A j \in 1..Len(p) - 1 : Front(p)[j] = p[j]
<1> DEFINE n == Len(p)
           q == Front(p)
           w == Last(p)
<1>1. n \in Nat /\ n # 0 /\ n > 0
  BY EmptySeq
<1>2. w \in S /\ w = p[n]
  BY <1>1 DEF Last
<1>3. 1 \in Int /\ n - 1 \in Int /\ \A i \in 1..n - 1 : p[i] \in S
  BY <1>1
<1>4. q = SubSeq(p, 1, n - 1)
  BY DEF Front
<1>5. /\ q \in Seq(S) /\ Len(q) = IF 1 <= n - 1 THEN n - 1 - 1 + 1 ELSE 0
      /\ \A i \in 1..n - 1 - 1 + 1 : q[i] = p[1 + i - 1]
  <2>. HIDE DEF q, n
  <2>. QED  BY <1>3, <1>4, SubSeqProperties
<1>6. Len(q) = n - 1 /\ \A i \in 1..n - 1 : q[i] = p[i]
  <2>. HIDE DEF n, q
  <2>1. Len(q) = n - 1
    <3>1. CASE n = 1
      BY <1>1, <1>5, <3>1
    <3>2. CASE n # 1
      <4>1. 1 <= n - 1 /\ n - 1 - 1 + 1 = n - 1
        BY <1>1, <3>2
      <4>. QED  BY <1>5, <4>1
    <3>. QED  BY <3>1, <3>2
  <2>2. ASSUME NEW i \in 1..n - 1 PROVE q[i] = p[i]
    <3>1. i \in 1..n - 1 - 1 + 1 /\ 1 + i - 1 = i
      BY <1>1
    <3>. QED  BY <1>5, <3>1
  <2>. QED  BY <2>1, <2>2
<1>. HIDE DEF n, q, w
<1>7. /\ Append(q, w) \in Seq(S) /\ Len(Append(q, w)) = n /\ Append(q, w)[n] = w
      /\ \A i \in 1..n - 1 : Append(q, w)[i] = q[i]
  <2>1. Len(q) + 1 = n
    BY <1>1, <1>6
  <2>. QED  BY <1>2, <1>5, <1>6, <2>1, AppendProperties
<1>8. ASSUME NEW i \in 1..n PROVE Append(q, w)[i] = p[i]
  <2>1. CASE i = n
    BY <1>2, <1>7, <2>1
  <2>2. CASE i # n
    <3>1. i \in 1..n - 1
      BY <1>1, <2>2
    <3>. QED  BY <1>6, <1>7, <3>1
  <2>. QED  BY <2>1, <2>2
<1>9. Append(q, w) = p
  <2>1. Len(p) = n
    BY DEF n
  <2>. QED  BY <1>7, <1>8, <2>1, SeqEqual
<1>10. q # p
  BY <1>1, <1>6 DEF n
<1>. QED  BY <1>1, <1>2, <1>5, <1>6, <1>9, <1>10 DEF n, q, w

\* What the last token of a path says of its text.
LEMMA PathText ==
    ASSUME NEW fs \in Seq(Frames), NEW a \in Paths(fs)
    PROVE  /\ Collapsed(a) \in Seq(Words)
           /\ Collapsed(a) # <<>> => a # <<>> /\ Last(a) \in Tokens
           /\ a # <<>> /\ Last(a) # blank => Collapsed(a) # <<>> /\ Last(Collapsed(a)) = Last(a)
           /\ \A w \in Tokens : Collapsed(Append(a, w)) =
                IF w = blank \/ (a # <<>> /\ Last(a) = w) THEN Collapsed(a)
                ELSE Append(Collapsed(a), w)
<1> DEFINE n == Len(fs)
<1>1. n \in Nat
  OBVIOUS
<1>2. a \in [1..n -> Tokens]
  BY DEF Paths
<1>. HIDE DEF n
<1>3. a \in Seq(Tokens) /\ Len(a) = n /\ (a = <<>> <=> n = 0)
  BY <1>1, <1>2, EmptySeq
<1>4. Last(a) = a[n]
  BY <1>3 DEF Last
<1>5. blank \in Tokens
  BY TokenAssumption
<1>6. \A w \in Tokens : /\ Collapsed(a) \in Seq(Tokens \ {blank})
                        /\ Collapsed(Append(a, w)) =
                             IF w = blank \/ (n > 0 /\ a[n] = w) THEN Collapsed(a)
                             ELSE Append(Collapsed(a), w)
  BY <1>1, <1>2, CollapsedAppend
<1>7. n > 0 /\ a[n] # blank => Collapsed(a) # <<>> /\ Last(Collapsed(a)) = a[n]
  BY <1>1, <1>2, CollapsedLast
<1>8. n > 0 <=> n # 0
  BY <1>1
<1>9. Collapsed(a) # <<>> => a # <<>> /\ Last(a) \in Tokens
  <2>1. SUFFICES ASSUME Collapsed(a) # <<>> PROVE a # <<>> /\ Last(a) \in Tokens
    OBVIOUS
  <2>2. a # <<>>
    BY <2>1, EmptyAlignment
  <2>3. n > 0
    BY <1>3, <1>8, <2>2
  <2>. QED  BY <1>1, <1>2, <1>4, <2>2, <2>3
<1>10. Collapsed(a) \in Seq(Words)
  BY <1>5, <1>6 DEF Words
<1>11. a # <<>> /\ Last(a) # blank => Collapsed(a) # <<>> /\ Last(Collapsed(a)) = Last(a)
  BY <1>3, <1>4, <1>7, <1>8
<1>12. \A w \in Tokens : Collapsed(Append(a, w)) =
         IF w = blank \/ (a # <<>> /\ Last(a) = w) THEN Collapsed(a)
         ELSE Append(Collapsed(a), w)
  BY <1>3, <1>4, <1>6, <1>8
<1>. QED  BY <1>9, <1>10, <1>11, <1>12

\* The alignments of a text, that end in blank or in its last token.
Texts(A, p) == {a \in A : Collapsed(a) = p}
BlankEnds(A, p) == {a \in Texts(A, p) : Last(a) = blank}
TokenEnds(A, p) == Texts(A, p) \ BlankEnds(A, p)

\* Those a text is extended from by w, its last token.
Sources(A, q, w) == IF q # <<>> /\ Last(q) = w THEN BlankEnds(A, q) ELSE Texts(A, q)

\* The setting of a frame more: A what there was, B what there is then.
Grown(fs, f, surv, kept, A, B) ==
    /\ fs \in Seq(Frames) /\ f \in Frames /\ A \subseteq Paths(fs)
    /\ A = Among(fs, surv) /\ B = Among(Append(fs, f), Append(surv, kept))
    /\ \A a \in Paths(fs), w \in Tokens :
         Append(a, w) \in B <=> /\ a \in A /\ w \in TopK(f)
                                /\ Collapsed(Append(a, w)) \in kept
    /\ \A b \in B : \E a \in A, w \in TopK(f) : b = Append(a, w) /\ Collapsed(b) \in kept

\* Frame by frame that is the setting.
LEMMA GrownIs ==
    ASSUME NEW fs \in Seq(Frames), NEW f \in Frames, NEW T, NEW surv \in Seq(T), NEW kept \in T,
           Len(surv) = Len(fs)
    PROVE  Grown(fs, f, surv, kept, Among(fs, surv), Among(Append(fs, f), Append(surv, kept)))
<1> DEFINE A == Among(fs, surv)
           B == Among(Append(fs, f), Append(surv, kept))
<1>1. A \subseteq Paths(fs)
  BY DEF Among
<1>2. \A a \in Paths(fs), w \in Tokens :
        Append(a, w) \in B <=> /\ a \in A /\ w \in TopK(f)
                               /\ Collapsed(Append(a, w)) \in kept
  BY AmongAppend
<1>3. ASSUME NEW b \in B
      PROVE  \E a \in A, w \in TopK(f) : b = Append(a, w) /\ Collapsed(b) \in kept
  <2>1. b \in Paths(Append(fs, f))
    BY DEF Among
  <2>2. PICK a \in Paths(fs), w \in Tokens : b = Append(a, w)
    BY <2>1, PathAppend
  <2>. HIDE DEF A, B
  <2>. QED  BY <1>2, <2>2
<1>. HIDE DEF A, B
<1>4. Grown(fs, f, surv, kept, A, B)
  BY <1>1, <1>2, <1>3 DEF Grown, A, B
<1>. QED  BY <1>4 DEF A, B

\* Of a frame more, the paths of a text that end in blank.
LEMMA BlankGrows ==
    ASSUME NEW fs, NEW f, NEW surv, NEW kept, NEW A, NEW B, Grown(fs, f, surv, kept, A, B),
           NEW p \in kept
    PROVE  BlankEnds(B, p) = IF blank \in TopK(f) THEN Longer(Texts(A, p), blank) ELSE {}
<1>1. blank \in Tokens
  BY TokenAssumption
<1>2. ASSUME NEW a \in Paths(fs), NEW w \in Tokens
      PROVE  /\ Last(Append(a, w)) = w
             /\ w = blank => Collapsed(Append(a, w)) = Collapsed(a)
  <2>1. a \in Seq(Tokens)
    BY DEF Grown, Paths
  <2>2. fs \in Seq(Frames)
    BY DEF Grown
  <2>. QED  BY <2>1, <2>2, LastAppended, PathText
<1>3. TopK(f) \subseteq Tokens /\ A \subseteq Paths(fs)
  BY DEF TopK, Grown
<1>4. ASSUME NEW b \in BlankEnds(B, p)
      PROVE  blank \in TopK(f) /\ b \in Longer(Texts(A, p), blank)
  <2>1. b \in B /\ Collapsed(b) = p /\ Last(b) = blank
    BY DEF BlankEnds, Texts
  <2>2. PICK a \in A, w \in TopK(f) : b = Append(a, w)
    BY <2>1 DEF Grown
  <2>3. w = blank /\ Collapsed(a) = p
    BY <1>2, <1>3, <2>1, <2>2
  <2>. QED  BY <2>2, <2>3 DEF Longer, Texts
<1>5. ASSUME blank \in TopK(f), NEW b \in Longer(Texts(A, p), blank)
      PROVE  b \in BlankEnds(B, p)
  <2>1. PICK a \in A : Collapsed(a) = p /\ b = Append(a, blank)
    BY DEF Longer, Texts
  <2>2. Collapsed(b) = p /\ Last(b) = blank
    BY <1>1, <1>2, <1>3, <2>1
  <2>3. a \in Paths(fs)
    BY <1>3
  <2>4. b \in B
    BY <1>1, <1>5, <2>1, <2>2, <2>3 DEF Grown
  <2>. QED  BY <2>2, <2>4 DEF BlankEnds, Texts
<1>. QED  BY <1>4, <1>5

\* Those that end in a token: repeated, or appended to the text before it.
LEMMA TokenGrows ==
    ASSUME NEW fs, NEW f, NEW surv, NEW kept, NEW A, NEW B, Grown(fs, f, surv, kept, A, B),
           NEW p \in kept, p \in Seq(Words)
    PROVE  /\ p = <<>> => TokenEnds(B, p) = {}
           /\ p # <<>> =>
                IF Last(p) \in TopK(f)
                THEN TokenEnds(B, p) = Longer(TokenEnds(A, p), Last(p))
                                         \cup Longer(Sources(A, Front(p), Last(p)), Last(p))
                ELSE TokenEnds(B, p) = {}
<1>1. TopK(f) \subseteq Tokens /\ A \subseteq Paths(fs) /\ fs \in Seq(Frames)
  BY DEF TopK, Grown
<1>2. ASSUME NEW a \in Paths(fs)
      PROVE  /\ Collapsed(a) \in Seq(Words)
             /\ Collapsed(a) # <<>> => a # <<>> /\ Last(a) \in Tokens
             /\ a # <<>> /\ Last(a) # blank => Collapsed(a) # <<>> /\ Last(Collapsed(a)) = Last(a)
  BY <1>1, PathText
<1>3. ASSUME NEW a \in Paths(fs), NEW w \in Tokens
      PROVE  /\ Last(Append(a, w)) = w
             /\ Collapsed(Append(a, w)) =
                  IF w = blank \/ (a # <<>> /\ Last(a) = w) THEN Collapsed(a)
                  ELSE Append(Collapsed(a), w)
  <2>1. a \in Seq(Tokens)
    BY <1>1 DEF Paths
  <2>. QED  BY <1>1, <2>1, LastAppended, PathText
<1>4. ASSUME NEW a \in A, NEW w \in TopK(f), w # blank, Collapsed(Append(a, w)) = p
      PROVE  /\ p # <<>> /\ Last(p) = w
             /\ a \in TokenEnds(A, p) \/ a \in Sources(A, Front(p), w)
  <2>1. a \in Paths(fs) /\ w \in Tokens /\ w \in Words
    BY <1>1, <1>4 DEF Words
  <2>2. CASE a # <<>> /\ Last(a) = w
    <3>1. Collapsed(a) = p
      BY <1>3, <1>4, <2>1, <2>2
    <3>2. p # <<>> /\ Last(p) = w
      BY <1>2, <1>4, <2>1, <2>2, <3>1
    <3>3. a \in TokenEnds(A, p)
      BY <1>4, <2>2, <3>1 DEF TokenEnds, BlankEnds, Texts
    <3>. QED  BY <3>2, <3>3
  <2>3. CASE ~(a # <<>> /\ Last(a) = w)
    <3> DEFINE q == Collapsed(a)
    <3>1. p = Append(q, w)
      BY <1>3, <1>4, <2>1, <2>3
    <3>2. q \in Seq(Words)
      BY <1>2, <2>1
    <3>3. p # <<>> /\ Last(p) = w /\ Front(p) = q
      <4>. HIDE DEF q
      <4>. QED  BY <2>1, <3>1, <3>2, LastAppended
    <3>4. a \in Texts(A, q)
      BY DEF Texts
    <3>5. q # <<>> /\ Last(q) = w => Last(a) = blank
      BY <1>2, <2>1, <2>3
    <3>. HIDE DEF q
    <3>6. a \in Sources(A, q, w)
      BY <3>4, <3>5 DEF Sources, BlankEnds
    <3>. QED  BY <3>3, <3>6
  <2>. QED  BY <2>2, <2>3
<1>5. ASSUME NEW a \in A, NEW w \in TopK(f), w # blank, p # <<>>, Last(p) = w,
             a \in TokenEnds(A, p) \/ a \in Sources(A, Front(p), w)
      PROVE  Collapsed(Append(a, w)) = p
  <2>1. a \in Paths(fs) /\ w \in Tokens
    BY <1>1
  <2>2. CASE a \in TokenEnds(A, p)
    <3>1. Collapsed(a) = p /\ Last(a) # blank
      BY <2>2 DEF TokenEnds, BlankEnds, Texts
    <3>2. a # <<>> /\ Last(a) = w
      BY <1>2, <1>5, <2>1, <3>1
    <3>. QED  BY <1>3, <2>1, <3>1, <3>2
  <2>3. CASE a \in Sources(A, Front(p), w)
    <3>1. Collapsed(a) = Front(p)
      BY <2>3 DEF Sources, BlankEnds, Texts
    <3>2. ~(a # <<>> /\ Last(a) = w)
      <4>1. SUFFICES ASSUME a # <<>>, Last(a) = w PROVE FALSE
        OBVIOUS
      <4>2. Front(p) # <<>> /\ Last(Front(p)) = w
        BY <1>2, <1>5, <2>1, <3>1, <4>1
      <4>3. Last(a) = blank
        BY <2>3, <4>2 DEF Sources, BlankEnds
      <4>. QED  BY <1>5, <4>1, <4>3
    <3>3. Collapsed(Append(a, w)) = Append(Front(p), w)
      BY <1>3, <1>5, <2>1, <3>1, <3>2
    <3>4. Append(Front(p), w) = p
      BY <1>5, FrontLast
    <3>. QED  BY <3>3, <3>4
  <2>. QED  BY <1>5, <2>2, <2>3
<1>6. ASSUME NEW b \in TokenEnds(B, p)
      PROVE  \E a \in A, w \in TopK(f) : /\ b = Append(a, w) /\ w # blank
                                        /\ Collapsed(Append(a, w)) = p
  <2>1. b \in B /\ Collapsed(b) = p /\ Last(b) # blank
    BY DEF TokenEnds, BlankEnds, Texts
  <2>2. PICK a \in A, w \in TopK(f) : b = Append(a, w)
    BY <2>1 DEF Grown
  <2>3. w # blank
    BY <1>1, <1>3, <2>1, <2>2
  <2>. QED  BY <2>1, <2>2, <2>3
<1>7. ASSUME NEW a \in A, NEW w \in TopK(f), w # blank, Collapsed(Append(a, w)) = p
      PROVE  Append(a, w) \in TokenEnds(B, p)
  <2>1. a \in Paths(fs) /\ w \in Tokens
    BY <1>1
  <2>2. Append(a, w) \in B
    BY <1>7, <2>1 DEF Grown
  <2>3. Last(Append(a, w)) # blank
    BY <1>3, <1>7, <2>1
  <2>. QED  BY <1>7, <2>2, <2>3 DEF TokenEnds, BlankEnds, Texts
<1>8. CASE p = <<>>
  <2>1. ASSUME NEW b \in TokenEnds(B, p) PROVE FALSE
    <3>1. PICK a \in A, w \in TopK(f) : w # blank /\ Collapsed(Append(a, w)) = p
      BY <1>6
    <3>. QED  BY <1>4, <1>8, <3>1
  <2>. QED  BY <1>8, <2>1
<1>9. CASE p # <<>>
  <2> DEFINE w == Last(p)
             X == TokenEnds(A, p)
             Y == Sources(A, Front(p), w)
  <2>1. w # blank
    BY <1>9, FrontLast DEF Words
  <2>2. X \subseteq A /\ Y \subseteq A
    BY DEF TokenEnds, Sources, BlankEnds, Texts
  <2>. HIDE DEF X, Y, w
  <2>3. ASSUME NEW b \in TokenEnds(B, p)
        PROVE  w \in TopK(f) /\ b \in Longer(X, w) \cup Longer(Y, w)
    <3>1. PICK a \in A, v \in TopK(f) : /\ b = Append(a, v) /\ v # blank
                                        /\ Collapsed(Append(a, v)) = p
      BY <1>6
    <3>2. v = w /\ (a \in X \/ a \in Y)
      BY <1>4, <3>1 DEF X, Y, w
    <3>. QED  BY <3>1, <3>2 DEF Longer
  <2>4. ASSUME w \in TopK(f), NEW b \in Longer(X, w) \cup Longer(Y, w)
        PROVE  b \in TokenEnds(B, p)
    <3>1. PICK a \in X \cup Y : b = Append(a, w)
      BY DEF Longer
    <3>2. a \in A
      BY <2>2
    <3>3. Collapsed(Append(a, w)) = p
      BY <1>5, <1>9, <2>1, <2>4, <3>1, <3>2 DEF X, Y, w
    <3>. QED  BY <1>7, <2>1, <2>4, <3>1, <3>2, <3>3
  <2>5. CASE w \in TopK(f)
    <3>1. TokenEnds(B, p) = Longer(X, w) \cup Longer(Y, w)
      BY <2>3, <2>4, <2>5
    <3>. QED  BY <1>9, <2>5, <3>1 DEF X, Y, w
  <2>6. CASE w \notin TopK(f)
    <3>1. TokenEnds(B, p) = {}
      BY <2>3, <2>6
    <3>. QED  BY <1>9, <2>6, <3>1 DEF w
  <2>. QED  BY <2>5, <2>6
<1>. QED  BY <1>8, <1>9

-----------------------------------------------------------------------------
(* What token passing writes into a PrefixScore.                            *)

\* The larger of two numbers.
Larger(x, y) == IF x >= y THEN x ELSE y

\* Max, of two numbers.
LEMMA MaxPair == \A x, y \in Nat : Max({x, y}) = Larger(x, y)
<1>1. ASSUME NEW x \in Nat, NEW y \in Nat PROVE Max({x, y}) = Larger(x, y)
  <2> DEFINE m == CHOOSE z \in {x, y} : \A w \in {x, y} : z >= w
             l == Larger(x, y)
  <2>1. l \in {x, y} /\ \A w \in {x, y} : l >= w
    BY DEF Larger
  <2>2. m \in {x, y} /\ \A w \in {x, y} : m >= w
    BY <2>1
  <2>3. Max({x, y}) = m
    BY DEF Max
  <2>. HIDE DEF m, l
  <2>4. m \in Nat /\ l \in Nat
    BY <2>1, <2>2
  <2>5. m >= l /\ l >= m
    BY <2>1, <2>2
  <2>6. m = l
    BY <2>4, <2>5
  <2>. QED  BY <2>3, <2>6 DEF l
<1>. QED  BY <1>1

\* It does not depend on their order, and that with 0 is the number.
LEMMA LargerNat == \A x, y \in Nat : /\ Larger(x, y) \in Nat /\ Larger(x, y) = Larger(y, x)
                                     /\ Larger(x, 0) = x /\ Larger(0, x) = x
BY DEF Larger

Keys == {"s", "ns", "v_s", "v_ns", "cur_token_prob", "times_s", "times_ns",
         "context_state", "context_score"}

\* A PrefixScore.
IsScore(h) ==
    /\ DOMAIN h = Keys
    /\ h.s \in Nat /\ h.ns \in Nat /\ h.v_s \in Nat /\ h.v_ns \in Nat
    /\ h.cur_token_prob \in Nat

\* n and m differ in their contexts at most.
SameButContext(n, m) ==
    /\ m.s = n.s /\ m.ns = n.ns /\ m.v_s = n.v_s /\ m.v_ns = n.v_ns
    /\ m.cur_token_prob = n.cur_token_prob
    /\ m.times_s = n.times_s /\ m.times_ns = n.times_ns

\* The empty PrefixScore.
LEMMA NoScoreIs ==
    /\ IsScore(NoScore)
    /\ NoScore.s = 0 /\ NoScore.ns = 0 /\ NoScore.v_s = 0 /\ NoScore.v_ns = 0
    /\ NoScore.cur_token_prob = 0 /\ NoScore.times_s = <<>> /\ NoScore.times_ns = <<>>
BY DEF NoScore, IsScore, Keys

\* CopyContext and UpdateContext write the context alone.
LEMMA ContextIs ==
    ASSUME NEW n, IsScore(n), NEW h, NEW word
    PROVE  /\ IsScore(CopyContext(n, h)) /\ SameButContext(n, CopyContext(n, h))
           /\ IsScore(UpdateContext(n, h, word)) /\ SameButContext(n, UpdateContext(n, h, word))
BY DEF IsScore, Keys, SameButContext, CopyContext, UpdateContext

\* The scores of a PrefixScore are numbers.
LEMMA ScoreIs ==
    ASSUME NEW h, IsScore(h)
    PROVE  /\ score(h) \in Nat /\ score(h) = h.s + h.ns
           /\ viterbi_score(h) \in Nat /\ viterbi_score(h) = Larger(h.v_s, h.v_ns)
<1>1. h.s \in Nat /\ h.ns \in Nat /\ h.v_s \in Nat /\ h.v_ns \in Nat
  BY DEF IsScore
<1>2. score(h) = h.s + h.ns /\ score(h) \in Nat
  BY <1>1 DEF score
<1>3. viterbi_score(h) = Larger(h.v_s, h.v_ns)
  BY <1>1, MaxPair DEF viterbi_score
<1>4. Larger(h.v_s, h.v_ns) \in Nat
  BY <1>1, LargerNat
<1>. QED  BY <1>2, <1>3, <1>4

\* What case 0 writes.
LEMMA BlankedIs ==
    ASSUME NEW n, IsScore(n), NEW h, IsScore(h), NEW prob \in Nat
    PROVE  LET m == Blanked(n, h, prob)
           IN  /\ IsScore(m)
               /\ m.s = n.s + score(h) * prob /\ m.v_s = viterbi_score(h) * prob
               /\ m.ns = n.ns /\ m.v_ns = n.v_ns /\ m.cur_token_prob = n.cur_token_prob
               /\ m.times_s = times(h) /\ m.times_ns = n.times_ns
<1> DEFINE x == score(h) * prob
           v == viterbi_score(h) * prob
           t == times(h)
<1>1. x \in Nat /\ v \in Nat
  BY ScoreIs, Distributes
<1>2. Blanked(n, h, prob) = [n EXCEPT !.s = @ + x, !.v_s = v, !.times_s = t]
  BY DEF Blanked
<1>. HIDE DEF x, v, t
<1>3. /\ IsScore([n EXCEPT !.s = @ + x, !.v_s = v, !.times_s = t])
      /\ [n EXCEPT !.s = @ + x, !.v_s = v, !.times_s = t].s = n.s + x
      /\ [n EXCEPT !.s = @ + x, !.v_s = v, !.times_s = t].v_s = v
      /\ [n EXCEPT !.s = @ + x, !.v_s = v, !.times_s = t].ns = n.ns
      /\ [n EXCEPT !.s = @ + x, !.v_s = v, !.times_s = t].v_ns = n.v_ns
      /\ [n EXCEPT !.s = @ + x, !.v_s = v, !.times_s = t].cur_token_prob = n.cur_token_prob
      /\ [n EXCEPT !.s = @ + x, !.v_s = v, !.times_s = t].times_s = t
      /\ [n EXCEPT !.s = @ + x, !.v_s = v, !.times_s = t].times_ns = n.times_ns
  BY <1>1 DEF IsScore, Keys
<1>. QED  BY <1>2, <1>3 DEF x, v, t

\* m is n with paths of weight x, the best of weight v, that end in a token.
Writes(m, n, x, v) ==
    /\ IsScore(m) /\ m.s = n.s /\ m.v_s = n.v_s /\ m.times_s = n.times_s
    /\ m.ns = n.ns + x /\ m.v_ns = Larger(n.v_ns, v)

\* It keeps its times, or has those of the new best path.
NoTimes(m, n, v, prob) ==
    /\ m.times_ns = n.times_ns /\ m.cur_token_prob = n.cur_token_prob
    /\ n.v_ns >= v \/ n.cur_token_prob >= prob
NewTimes(m, n, v, prob, t) ==
    m.times_ns = t /\ m.cur_token_prob = prob /\ ~(n.v_ns >= v)

\* What case 1 writes.
LEMMA RepeatedIs ==
    ASSUME NEW n, IsScore(n), NEW h, IsScore(h), NEW prob \in Nat
    PROVE  /\ Writes(Repeated(n, h, prob), n, h.ns * prob, h.v_ns * prob)
           /\ \/ NoTimes(Repeated(n, h, prob), n, h.v_ns * prob, prob)
              \/ NewTimes(Repeated(n, h, prob), n, h.v_ns * prob, prob,
                          Append(Front(h.times_ns), abs_time_step))
<1> DEFINE x == h.ns * prob
           v == h.v_ns * prob
           t == Append(Front(h.times_ns), abs_time_step)
           sum == [n EXCEPT !.ns = @ + x]
           best == [sum EXCEPT !.v_ns = v]
           anew == [best EXCEPT !.cur_token_prob = prob, !.times_ns = t]
<1>1. x \in Nat /\ v \in Nat
  BY Distributes DEF IsScore
<1>2. Repeated(n, h, prob) = IF n.v_ns >= v THEN sum
                             ELSE IF n.cur_token_prob >= prob THEN best ELSE anew
  BY DEF Repeated
<1>. HIDE DEF x, v, t
<1>3. /\ IsScore(sum) /\ sum.s = n.s /\ sum.v_s = n.v_s /\ sum.times_s = n.times_s
      /\ sum.ns = n.ns + x /\ sum.v_ns = n.v_ns
      /\ sum.times_ns = n.times_ns /\ sum.cur_token_prob = n.cur_token_prob
  BY <1>1 DEF IsScore, Keys
<1>. HIDE DEF sum
<1>4. /\ IsScore(best) /\ best.s = n.s /\ best.v_s = n.v_s /\ best.times_s = n.times_s
      /\ best.ns = n.ns + x /\ best.v_ns = v
      /\ best.times_ns = n.times_ns /\ best.cur_token_prob = n.cur_token_prob
  BY <1>1, <1>3 DEF IsScore, Keys
<1>. HIDE DEF best
<1>5. /\ IsScore(anew) /\ anew.s = n.s /\ anew.v_s = n.v_s /\ anew.times_s = n.times_s
      /\ anew.ns = n.ns + x /\ anew.v_ns = v
      /\ anew.times_ns = t /\ anew.cur_token_prob = prob
  BY <1>1, <1>4 DEF IsScore, Keys
<1>. HIDE DEF anew
<1> DEFINE m == Repeated(n, h, prob)
<1>6. Writes(m, n, x, v) /\ (NoTimes(m, n, v, prob) \/ NewTimes(m, n, v, prob, t))
  <2>. HIDE DEF m
  <2>1. CASE n.v_ns >= v
    <3>1. m = sum /\ Larger(n.v_ns, v) = n.v_ns
      BY <1>2, <2>1 DEF Larger, m
    <3>. QED  BY <1>3, <2>1, <3>1 DEF Writes, NoTimes
  <2>2. CASE ~(n.v_ns >= v) /\ n.cur_token_prob >= prob
    <3>1. m = best /\ Larger(n.v_ns, v) = v
      BY <1>2, <2>2 DEF Larger, m
    <3>. QED  BY <1>4, <2>2, <3>1 DEF Writes, NoTimes
  <2>3. CASE ~(n.v_ns >= v) /\ ~(n.cur_token_prob >= prob)
    <3>1. m = anew /\ Larger(n.v_ns, v) = v
      BY <1>2, <2>3 DEF Larger, m
    <3>. QED  BY <1>5, <2>3, <3>1 DEF Writes, NewTimes
  <2>. QED  BY <2>1, <2>2, <2>3
<1>. QED  BY <1>6 DEF x, v, t

\* What cases 2 and 3 read.
LEMMA SourceIs ==
    ASSUME NEW h, IsScore(h), NEW same \in BOOLEAN
    PROVE  /\ Source(h, same).sum = (IF same THEN h.s ELSE score(h))
           /\ Source(h, same).best = (IF same THEN h.v_s ELSE viterbi_score(h))
           /\ Source(h, same).times = (IF same THEN h.times_s ELSE times(h))
           /\ Source(h, same).sum \in Nat /\ Source(h, same).best \in Nat
<1> DEFINE r == Source(h, same)
           y == score(h)
           v == viterbi_score(h)
           t == times(h)
           z == h.s
           u == h.v_s
           o == h.times_s
<1>1. y \in Nat /\ v \in Nat
  BY ScoreIs
<1>2. z \in Nat /\ u \in Nat
  BY DEF IsScore
<1>3. r = IF same THEN [sum |-> z, best |-> u, times |-> o] ELSE [sum |-> y, best |-> v, times |-> t]
  BY DEF Source
<1>. HIDE DEF r, y, v, t, z, u, o
<1>4. /\ r.sum = (IF same THEN z ELSE y) /\ r.best = (IF same THEN u ELSE v)
      /\ r.times = (IF same THEN o ELSE t)
  <2>1. CASE same
    BY <1>3, <2>1
  <2>2. CASE ~same
    BY <1>3, <2>2
  <2>. QED  BY <2>1, <2>2
<1>5. r.sum \in Nat /\ r.best \in Nat
  BY <1>1, <1>2, <1>4
<1>. QED  BY <1>4, <1>5 DEF r, y, v, t, z, u, o

\* What cases 2 and 3 write.
LEMMA AppendedIs ==
    ASSUME NEW n, IsScore(n), NEW h, IsScore(h), NEW same \in BOOLEAN, NEW prob \in Nat
    PROVE  /\ Writes(Appended(n, h, same, prob), n, Source(h, same).sum * prob,
                     Source(h, same).best * prob)
           /\ \/ NoTimes(Appended(n, h, same, prob), n, Source(h, same).best * prob, prob)
                 /\ n.v_ns >= Source(h, same).best * prob
              \/ NewTimes(Appended(n, h, same, prob), n, Source(h, same).best * prob, prob,
                          Append(Source(h, same).times, abs_time_step))
<1> DEFINE from == Source(h, same)
           x == from.sum * prob
           v == from.best * prob
           t == Append(from.times, abs_time_step)
           sum == [n EXCEPT !.ns = @ + x]
           anew == [sum EXCEPT !.v_ns = v, !.cur_token_prob = prob, !.times_ns = t]
<1>1. x \in Nat /\ v \in Nat
  BY SourceIs, Distributes
<1>2. Appended(n, h, same, prob) = IF n.v_ns >= v THEN sum ELSE anew
  BY DEF Appended
<1>. HIDE DEF from, x, v, t
<1>3. /\ IsScore(sum) /\ sum.s = n.s /\ sum.v_s = n.v_s /\ sum.times_s = n.times_s
      /\ sum.ns = n.ns + x /\ sum.v_ns = n.v_ns
      /\ sum.times_ns = n.times_ns /\ sum.cur_token_prob = n.cur_token_prob
  BY <1>1 DEF IsScore, Keys
<1>. HIDE DEF sum
<1>4. /\ IsScore(anew) /\ anew.s = n.s /\ anew.v_s = n.v_s /\ anew.times_s = n.times_s
      /\ anew.ns = n.ns + x /\ anew.v_ns = v
      /\ anew.times_ns = t /\ anew.cur_token_prob = prob
  BY <1>1, <1>3 DEF IsScore, Keys
<1>. HIDE DEF anew
<1> DEFINE m == Appended(n, h, same, prob)
<1>5. /\ Writes(m, n, x, v)
      /\ (NoTimes(m, n, v, prob) /\ n.v_ns >= v) \/ NewTimes(m, n, v, prob, t)
  <2>. HIDE DEF m
  <2>1. CASE n.v_ns >= v
    <3>1. m = sum /\ Larger(n.v_ns, v) = n.v_ns
      BY <1>2, <2>1 DEF Larger, m
    <3>. QED  BY <1>3, <2>1, <3>1 DEF Writes, NoTimes
  <2>2. CASE ~(n.v_ns >= v)
    <3>1. m = anew /\ Larger(n.v_ns, v) = v
      BY <1>2, <2>2 DEF Larger, m
    <3>. QED  BY <1>4, <2>2, <3>1 DEF Writes, NewTimes
  <2>. QED  BY <2>1, <2>2
<1>. QED  BY <1>5 DEF x, v, t, from

\* The steps of Passed.
Same(p) == Front(p) # <<>> /\ Last(Front(p)) = Last(p)
RepeatOf(n, p, f, top) ==
    IF Repeats(p, top) THEN Repeated(n, cur_hyps[p], f[Last(p)]) ELSE n
ExtendOf(n, p, f, top) ==
    IF Extends(p, top) THEN Appended(n, cur_hyps[Front(p)], Same(p), f[Last(p)]) ELSE n
BlankOf(n, p, f, top) ==
    IF p \in Hyps /\ blank \in top THEN Blanked(n, cur_hyps[p], f[blank]) ELSE n
TokenOf(p, f, top, ahead) ==
    IF ahead THEN RepeatOf(ExtendOf(NoScore, p, f, top), p, f, top)
    ELSE ExtendOf(RepeatOf(NoScore, p, f, top), p, f, top)

Scores == \A p \in Hyps : IsScore(cur_hyps[p])

\* Passed is its steps, and a context.
LEMMA PassedForm ==
    ASSUME NEW p, NEW f, NEW top, NEW ahead \in BOOLEAN,
           IsScore(BlankOf(TokenOf(p, f, top, ahead), p, f, top))
    PROVE  /\ IsScore(Passed(p, f, top, ahead))
           /\ SameButContext(BlankOf(TokenOf(p, f, top, ahead), p, f, top), Passed(p, f, top, ahead))
<1> DEFINE n == BlankOf(TokenOf(p, f, top, ahead), p, f, top)
           r == Passed(p, f, top, ahead)
<1>1. r = CopyContext(n, cur_hyps[p]) \/ r = UpdateContext(n, cur_hyps[Front(p)], Last(p))
  BY DEF Passed, TokenOf, RepeatOf, ExtendOf, BlankOf, Same
<1>. HIDE DEF n, r
<1>2. IsScore(n)
  BY DEF n
<1>3. IsScore(r) /\ SameButContext(n, r)
  BY <1>1, <1>2, ContextIs
<1>. QED  BY <1>3 DEF n, r

\* What p gets of its own paths and of those of the hypothesis it extends.
RepeatSum(p, f, top) == IF Repeats(p, top) THEN cur_hyps[p].ns * f[Last(p)] ELSE 0
RepeatBest(p, f, top) == IF Repeats(p, top) THEN cur_hyps[p].v_ns * f[Last(p)] ELSE 0
ExtendSum(p, f, top) ==
    IF Extends(p, top) THEN Source(cur_hyps[Front(p)], Same(p)).sum * f[Last(p)] ELSE 0
ExtendBest(p, f, top) ==
    IF Extends(p, top) THEN Source(cur_hyps[Front(p)], Same(p)).best * f[Last(p)] ELSE 0

\* They are numbers.
LEMMA PartsNat ==
    ASSUME Scores, NEW f \in Frames, NEW p, NEW top, top \subseteq Tokens
    PROVE  /\ RepeatSum(p, f, top) \in Nat /\ RepeatBest(p, f, top) \in Nat
           /\ ExtendSum(p, f, top) \in Nat /\ ExtendBest(p, f, top) \in Nat
<1>1. \A w \in Tokens : f[w] \in Nat
  BY FrameAssumption
<1>2. ASSUME Repeats(p, top) PROVE RepeatSum(p, f, top) \in Nat /\ RepeatBest(p, f, top) \in Nat
  <2>1. p \in Hyps /\ Last(p) \in Tokens
    BY <1>2 DEF Repeats
  <2>2. f[Last(p)] \in Nat
    BY <1>1, <2>1
  <2>3. cur_hyps[p].ns \in Nat /\ cur_hyps[p].v_ns \in Nat
    BY <2>1 DEF Scores, IsScore
  <2>. QED  BY <1>2, <2>2, <2>3, Distributes DEF RepeatSum, RepeatBest
<1>3. ASSUME Extends(p, top) PROVE ExtendSum(p, f, top) \in Nat /\ ExtendBest(p, f, top) \in Nat
  <2>1. Front(p) \in Hyps /\ Last(p) \in Tokens
    BY <1>3 DEF Extends
  <2>2. f[Last(p)] \in Nat
    BY <1>1, <2>1
  <2>3. IsScore(cur_hyps[Front(p)]) /\ Same(p) \in BOOLEAN
    BY <2>1 DEF Scores, Same
  <2>4. Source(cur_hyps[Front(p)], Same(p)).sum \in Nat
        /\ Source(cur_hyps[Front(p)], Same(p)).best \in Nat
    BY <2>3, SourceIs
  <2>. QED  BY <1>3, <2>2, <2>4, Distributes DEF ExtendSum, ExtendBest
<1>. QED  BY <1>2, <1>3 DEF RepeatSum, RepeatBest, ExtendSum, ExtendBest

\* A step that is not taken writes nothing.
LEMMA WritesNothing == \A n : IsScore(n) => Writes(n, n, 0, 0)
<1>1. ASSUME NEW n, IsScore(n) PROVE Writes(n, n, 0, 0)
  <2>1. n.ns \in Nat /\ n.v_ns \in Nat
    BY <1>1 DEF IsScore
  <2>2. n.ns + 0 = n.ns /\ Larger(n.v_ns, 0) = n.v_ns
    BY <2>1, LargerNat
  <2>. QED  BY <1>1, <2>2 DEF Writes
<1>. QED  BY <1>1

\* What the repeated token writes.
LEMMA RepeatOfIs ==
    ASSUME Scores, NEW f \in Frames, NEW p, NEW top, top \subseteq Tokens, NEW n, IsScore(n)
    PROVE  Writes(RepeatOf(n, p, f, top), n, RepeatSum(p, f, top), RepeatBest(p, f, top))
<1>1. CASE Repeats(p, top)
  <2> DEFINE h == cur_hyps[p]
             prob == f[Last(p)]
  <2>1. IsScore(h) /\ prob \in Nat
    BY <1>1, FrameAssumption DEF Repeats, Scores
  <2>. HIDE DEF h, prob
  <2>2. RepeatOf(n, p, f, top) = Repeated(n, h, prob)
        /\ RepeatSum(p, f, top) = h.ns * prob /\ RepeatBest(p, f, top) = h.v_ns * prob
    BY <1>1 DEF RepeatOf, RepeatSum, RepeatBest, h, prob
  <2> DEFINE m == Repeated(n, h, prob)
  <2>. HIDE DEF m
  <2>3. Writes(m, n, h.ns * prob, h.v_ns * prob)
    BY <2>1, RepeatedIs DEF m
  <2>. QED  BY <2>2, <2>3 DEF m
<1>2. CASE ~Repeats(p, top)
  <2>1. RepeatOf(n, p, f, top) = n
        /\ RepeatSum(p, f, top) = 0 /\ RepeatBest(p, f, top) = 0
    BY <1>2 DEF RepeatOf, RepeatSum, RepeatBest
  <2>. QED  BY <2>1, WritesNothing
<1>. QED  BY <1>1, <1>2

\* What the appended token writes.
LEMMA ExtendOfIs ==
    ASSUME Scores, NEW f \in Frames, NEW p, NEW top, top \subseteq Tokens, NEW n, IsScore(n)
    PROVE  Writes(ExtendOf(n, p, f, top), n, ExtendSum(p, f, top), ExtendBest(p, f, top))
<1>1. CASE Extends(p, top)
  <2> DEFINE h == cur_hyps[Front(p)]
             prob == f[Last(p)]
  <2>1. IsScore(h) /\ prob \in Nat /\ Same(p) \in BOOLEAN
    BY <1>1, FrameAssumption DEF Extends, Scores, Same
  <2>. HIDE DEF h, prob
  <2>2. ExtendOf(n, p, f, top) = Appended(n, h, Same(p), prob)
        /\ ExtendSum(p, f, top) = Source(h, Same(p)).sum * prob
        /\ ExtendBest(p, f, top) = Source(h, Same(p)).best * prob
    BY <1>1 DEF ExtendOf, ExtendSum, ExtendBest, h, prob
  <2> DEFINE m == Appended(n, h, Same(p), prob)
             from == Source(h, Same(p))
  <2>. HIDE DEF m, from
  <2>3. Writes(m, n, from.sum * prob, from.best * prob)
    BY <2>1, AppendedIs DEF m, from
  <2>. QED  BY <2>2, <2>3 DEF m, from
<1>2. CASE ~Extends(p, top)
  <2>1. ExtendOf(n, p, f, top) = n
        /\ ExtendSum(p, f, top) = 0 /\ ExtendBest(p, f, top) = 0
    BY <1>2 DEF ExtendOf, ExtendSum, ExtendBest
  <2>. QED  BY <2>1, WritesNothing
<1>. QED  BY <1>1, <1>2

IsTokenPart(m, x, v) == IsScore(m) /\ m.s = 0 /\ m.v_s = 0 /\ m.ns = x /\ m.v_ns = v

\* In either order.
LEMMA TokenOfIs ==
    ASSUME Scores, NEW f \in Frames, NEW p, NEW top, top \subseteq Tokens, NEW ahead \in BOOLEAN
    PROVE  IsTokenPart(TokenOf(p, f, top, ahead),
                       RepeatSum(p, f, top) + ExtendSum(p, f, top),
                       Larger(RepeatBest(p, f, top), ExtendBest(p, f, top)))
<1> DEFINE rs == RepeatSum(p, f, top)
           rb == RepeatBest(p, f, top)
           es == ExtendSum(p, f, top)
           eb == ExtendBest(p, f, top)
           x == ExtendOf(NoScore, p, f, top)
           y == RepeatOf(NoScore, p, f, top)
           xy == RepeatOf(x, p, f, top)
           yx == ExtendOf(y, p, f, top)
<1>1. rs \in Nat /\ rb \in Nat /\ es \in Nat /\ eb \in Nat
  BY PartsNat
<1>2. TokenOf(p, f, top, ahead) = IF ahead THEN xy ELSE yx
  BY DEF TokenOf
<1>. HIDE DEF rs, rb, es, eb
<1>3. Writes(x, NoScore, es, eb) /\ Writes(y, NoScore, rs, rb)
  BY NoScoreIs, ExtendOfIs, RepeatOfIs DEF es, eb, rs, rb
<1>. HIDE DEF x, y
<1>4. IsScore(x) /\ x.s = 0 /\ x.v_s = 0 /\ x.ns = 0 + es /\ x.v_ns = Larger(0, eb)
  BY <1>3, NoScoreIs DEF Writes
<1>5. IsScore(y) /\ y.s = 0 /\ y.v_s = 0 /\ y.ns = 0 + rs /\ y.v_ns = Larger(0, rb)
  BY <1>3, NoScoreIs DEF Writes
<1>6. Writes(xy, x, rs, rb) /\ Writes(yx, y, es, eb)
  BY <1>4, <1>5, ExtendOfIs, RepeatOfIs DEF es, eb, rs, rb
<1>. HIDE DEF xy, yx
<1>7. x.ns = es /\ x.v_ns = eb /\ y.ns = rs /\ y.v_ns = rb
  BY <1>1, <1>4, <1>5, LargerNat
<1>11. IsTokenPart(xy, es + rs, Larger(eb, rb))
  BY <1>4, <1>6, <1>7 DEF Writes, IsTokenPart
<1>12. IsTokenPart(yx, rs + es, Larger(rb, eb))
  BY <1>5, <1>6, <1>7 DEF Writes, IsTokenPart
<1>8. es + rs = rs + es /\ Larger(eb, rb) = Larger(rb, eb)
  BY <1>1, LargerNat
<1>9. CASE ahead
  BY <1>2, <1>8, <1>9, <1>11 DEF rs, rb, es, eb
<1>10. CASE ~ahead
  BY <1>2, <1>10, <1>12 DEF rs, rb, es, eb
<1>. QED  BY <1>9, <1>10

BlankSum(p, f, top) ==
    IF p \in Hyps /\ blank \in top THEN score(cur_hyps[p]) * f[blank] ELSE 0
BlankBest(p, f, top) ==
    IF p \in Hyps /\ blank \in top THEN viterbi_score(cur_hyps[p]) * f[blank] ELSE 0

AddsBlank(m, n, x, v) ==
    IsScore(m) /\ m.ns = n.ns /\ m.v_ns = n.v_ns /\ m.s = x /\ m.v_s = v

\* What blank writes.
LEMMA BlankOfIs ==
    ASSUME Scores, NEW f \in Frames, NEW p, NEW top, top \subseteq Tokens, NEW n, IsScore(n),
           n.s = 0, n.v_s = 0
    PROVE  AddsBlank(BlankOf(n, p, f, top), n, BlankSum(p, f, top), BlankBest(p, f, top))
<1>1. CASE p \in Hyps /\ blank \in top
  <2> DEFINE h == cur_hyps[p]
             prob == f[blank]
             x == score(h) * prob
  <2>1. IsScore(h) /\ prob \in Nat
    BY <1>1, FrameAssumption DEF Scores
  <2>2. x \in Nat
    BY <2>1, ScoreIs, Distributes
  <2>. HIDE DEF h, prob
  <2>3. BlankOf(n, p, f, top) = Blanked(n, h, prob)
        /\ BlankSum(p, f, top) = score(h) * prob /\ BlankBest(p, f, top) = viterbi_score(h) * prob
    BY <1>1 DEF BlankOf, BlankSum, BlankBest, h, prob
  <2> DEFINE m == Blanked(n, h, prob)
  <2>4. /\ IsScore(m) /\ m.ns = n.ns /\ m.v_ns = n.v_ns
        /\ m.s = n.s + score(h) * prob /\ m.v_s = viterbi_score(h) * prob
    BY <2>1, BlankedIs
  <2>. HIDE DEF m
  <2>5. n.s + x = x
    <3>. HIDE DEF x
    <3>. QED  BY <2>2
  <2>6. AddsBlank(m, n, x, viterbi_score(h) * prob)
    BY <2>4, <2>5 DEF AddsBlank
  <2>. QED  BY <2>3, <2>6 DEF m
<1>2. CASE ~(p \in Hyps /\ blank \in top)
  BY <1>2 DEF BlankOf, BlankSum, BlankBest, AddsBlank
<1>. QED  BY <1>1, <1>2

HasScores(r, s, v_s, ns, v_ns) ==
    IsScore(r) /\ r.s = s /\ r.v_s = v_s /\ r.ns = ns /\ r.v_ns = v_ns

\* The scores of p after a frame.
LEMMA PassedIs ==
    ASSUME Scores, NEW f \in Frames, NEW p, NEW top, top \subseteq Tokens, NEW ahead \in BOOLEAN
    PROVE  HasScores(Passed(p, f, top, ahead), BlankSum(p, f, top), BlankBest(p, f, top),
                     RepeatSum(p, f, top) + ExtendSum(p, f, top),
                     Larger(RepeatBest(p, f, top), ExtendBest(p, f, top)))
<1> DEFINE t == TokenOf(p, f, top, ahead)
           n == BlankOf(t, p, f, top)
           r == Passed(p, f, top, ahead)
<1>1. IsTokenPart(t, RepeatSum(p, f, top) + ExtendSum(p, f, top),
                  Larger(RepeatBest(p, f, top), ExtendBest(p, f, top)))
  BY TokenOfIs
<1>. HIDE DEF t
<1>2. AddsBlank(n, t, BlankSum(p, f, top), BlankBest(p, f, top))
  <2>1. IsScore(t) /\ t.s = 0 /\ t.v_s = 0
    BY <1>1 DEF IsTokenPart
  <2>. QED  BY <2>1, BlankOfIs
<1>3. IsScore(r) /\ SameButContext(n, r)
  BY <1>2, PassedForm DEF t, AddsBlank
<1>. HIDE DEF n, r
<1>4. r.s = n.s /\ r.ns = n.ns /\ r.v_s = n.v_s /\ r.v_ns = n.v_ns
  BY <1>3 DEF SameButContext
<1>5. HasScores(r, BlankSum(p, f, top), BlankBest(p, f, top),
                RepeatSum(p, f, top) + ExtendSum(p, f, top),
                Larger(RepeatBest(p, f, top), ExtendBest(p, f, top)))
  BY <1>1, <1>2, <1>3, <1>4 DEF IsTokenPart, AddsBlank, HasScores
<1>. QED  BY <1>5 DEF r

-----------------------------------------------------------------------------
(* One frame more: the scores are those of the alignments.                  *)

\* A PrefixScore is what the paths of its text, among A, are.
Exactly(h, p, fs, A) ==
    Weighs(h.s, h.v_s, fs, BlankEnds(A, p)) /\ Weighs(h.ns, h.v_ns, fs, TokenEnds(A, p))
Wholly(h, p, fs, A) == Weighs(score(h), viterbi_score(h), fs, Texts(A, p))

\* The score of a text is that of all its paths.
LEMMA WhollyIs ==
    ASSUME NEW h, IsScore(h), NEW p, NEW fs \in Seq(Frames), NEW A, A \subseteq Paths(fs),
           IsFiniteSet(A), Exactly(h, p, fs, A)
    PROVE  Wholly(h, p, fs, A)
<1> DEFINE S == BlankEnds(A, p)
           T == TokenEnds(A, p)
           U == Texts(A, p)
<1>1. U = S \cup T /\ S \cap T = {} /\ S \subseteq A /\ T \subseteq A
  BY DEF BlankEnds, TokenEnds, Texts
<1>2. Weighs(h.s, h.v_s, fs, S) /\ Weighs(h.ns, h.v_ns, fs, T)
  BY DEF Exactly
<1>. HIDE DEF S, T, U
<1>3. IsFiniteSet(S) /\ IsFiniteSet(T) /\ S \subseteq Paths(fs) /\ T \subseteq Paths(fs)
  BY <1>1, FS_Subset
<1>4. Weighs(h.s + h.ns, IF h.v_s >= h.v_ns THEN h.v_s ELSE h.v_ns, fs, S \cup T)
  BY <1>1, <1>2, <1>3, WeighsUnion
<1>5. score(h) = h.s + h.ns
      /\ viterbi_score(h) = IF h.v_s >= h.v_ns THEN h.v_s ELSE h.v_ns
  BY ScoreIs DEF Larger
<1>6. Weighs(score(h), viterbi_score(h), fs, U)
  BY <1>1, <1>4, <1>5
<1>. QED  BY <1>6 DEF Wholly, U

\* What holds between two frames of the hypotheses and the alignments A.
Totals(A) == \A p \in Hyps : Wholly(cur_hyps[p], p, heard, A)
Parts(A) == \A p \in Hyps \ {<<>>} : Exactly(cur_hyps[p], p, heard, A)
Covers(A) == \A a \in A : Collapsed(a) \in Hyps

Setting(f, kept, A, B) ==
    /\ Scores /\ IsFiniteSet(A) /\ Grown(heard, f, survivors, kept, A, B)
    /\ Totals(A) /\ Parts(A) /\ Covers(A)

\* What the setting says of the paths.
LEMMA SettingIs ==
    ASSUME NEW f, NEW kept, NEW A, NEW B, Setting(f, kept, A, B)
    PROVE  /\ heard \in Seq(Frames) /\ f \in Frames /\ A \subseteq Paths(heard)
           /\ TopK(f) \subseteq Tokens /\ blank \in Tokens
           /\ \A S \in SUBSET A : IsFiniteSet(S) /\ S \subseteq Paths(heard)
           /\ \A p : p \notin Hyps => Texts(A, p) = {} /\ BlankEnds(A, p) = {} /\ TokenEnds(A, p) = {}
<1>1. heard \in Seq(Frames) /\ f \in Frames /\ A \subseteq Paths(heard)
  BY DEF Setting, Grown
<1>2. TopK(f) \subseteq Tokens /\ blank \in Tokens
  BY TokenAssumption DEF TopK
<1>3. IsFiniteSet(A)
  BY DEF Setting
<1>4. \A S \in SUBSET A : IsFiniteSet(S) /\ S \subseteq Paths(heard)
  BY <1>1, <1>3, FS_Subset
<1>5. ASSUME NEW p, p \notin Hyps
      PROVE  Texts(A, p) = {} /\ BlankEnds(A, p) = {} /\ TokenEnds(A, p) = {}
  <2>1. \A a \in A : Collapsed(a) # p
    BY <1>5 DEF Setting, Covers
  <2>. QED  BY <2>1 DEF Texts, BlankEnds, TokenEnds
<1>. QED  BY <1>1, <1>2, <1>4, <1>5

\* No paths have no longer ones.
LEMMA LongerNone == \A w : Longer({}, w) = {}
BY DEF Longer

\* Blank: what p had altogether, for one token more.
LEMMA BlankStep ==
    ASSUME NEW f, NEW kept, NEW A, NEW B, Setting(f, kept, A, B), NEW p \in kept
    PROVE  Weighs(BlankSum(p, f, TopK(f)), BlankBest(p, f, TopK(f)), Append(heard, f),
                  BlankEnds(B, p))
<1> DEFINE top == TopK(f)
           gs == Append(heard, f)
<1>1. heard \in Seq(Frames) /\ f \in Frames /\ blank \in Tokens
      /\ \A S \in SUBSET A : IsFiniteSet(S) /\ S \subseteq Paths(heard)
  BY SettingIs
<1>2. BlankEnds(B, p) = IF blank \in top THEN Longer(Texts(A, p), blank) ELSE {}
  BY BlankGrows DEF Setting
<1>3. Texts(A, p) \in SUBSET A
  BY DEF Texts
<1>. HIDE DEF top, gs
<1>4. CASE p \in Hyps /\ blank \in top
  <2> DEFINE h == cur_hyps[p]
             x == score(h)
             v == viterbi_score(h)
             S == Texts(A, p)
  <2>1. Weighs(x, v, heard, S)
    BY <1>4 DEF Setting, Totals, Wholly
  <2>2. IsFiniteSet(S) /\ S \subseteq Paths(heard)
    BY <1>1, <1>3
  <2>3. BlankEnds(B, p) = Longer(S, blank)
    BY <1>2, <1>4
  <2>4. BlankSum(p, f, top) = x * f[blank] /\ BlankBest(p, f, top) = v * f[blank]
    BY <1>4 DEF BlankSum, BlankBest
  <2>. HIDE DEF x, v, S
  <2>5. Weighs(x * f[blank], v * f[blank], Append(heard, f), Longer(S, blank))
    BY <1>1, <2>1, <2>2, WeighsLonger
  <2>. QED  BY <2>3, <2>4, <2>5 DEF top
<1>5. CASE ~(p \in Hyps /\ blank \in top)
  <2>1. BlankSum(p, f, top) = 0 /\ BlankBest(p, f, top) = 0
    BY <1>5 DEF BlankSum, BlankBest
  <2>2. BlankEnds(B, p) = {}
    <3>1. CASE blank \notin top
      BY <1>2, <3>1
    <3>2. CASE p \notin Hyps
      <4>1. Texts(A, p) = {}
        BY <3>2, SettingIs
      <4>. QED  BY <1>2, <4>1, LongerNone
    <3>. QED  BY <1>5, <3>1, <3>2
  <2>. QED  BY <2>1, <2>2, WeighsNothing DEF top
<1>. QED  BY <1>4, <1>5

\* The repeated token: what p had with its token last.
LEMMA RepeatStep ==
    ASSUME NEW f, NEW kept, NEW A, NEW B, Setting(f, kept, A, B),
           NEW p, p # <<>>, Last(p) \in TopK(f)
    PROVE  Weighs(RepeatSum(p, f, TopK(f)), RepeatBest(p, f, TopK(f)), Append(heard, f),
                  Longer(TokenEnds(A, p), Last(p)))
<1> DEFINE top == TopK(f)
           w == Last(p)
           S == TokenEnds(A, p)
<1>1. heard \in Seq(Frames) /\ f \in Frames /\ w \in Tokens
      /\ \A V \in SUBSET A : IsFiniteSet(V) /\ V \subseteq Paths(heard)
  BY SettingIs
<1>2. S \in SUBSET A
  BY DEF TokenEnds, Texts
<1>3. CASE p \in Hyps
  <2> DEFINE x == cur_hyps[p].ns
             v == cur_hyps[p].v_ns
  <2>1. Weighs(x, v, heard, S)
    BY <1>3 DEF Setting, Parts, Exactly
  <2>2. IsFiniteSet(S) /\ S \subseteq Paths(heard)
    BY <1>1, <1>2
  <2>3. RepeatSum(p, f, top) = x * f[w] /\ RepeatBest(p, f, top) = v * f[w]
    BY <1>3 DEF RepeatSum, RepeatBest, Repeats
  <2>. HIDE DEF x, v, S, w, top
  <2>4. Weighs(x * f[w], v * f[w], Append(heard, f), Longer(S, w))
    BY <1>1, <2>1, <2>2, WeighsLonger
  <2>. QED  BY <2>3, <2>4 DEF top, w, S
<1>4. CASE p \notin Hyps
  <2>1. S = {}
    BY <1>4, SettingIs
  <2>2. RepeatSum(p, f, top) = 0 /\ RepeatBest(p, f, top) = 0
    BY <1>4 DEF RepeatSum, RepeatBest, Repeats
  <2>3. Longer(S, w) = {}
    BY <2>1, LongerNone
  <2>. HIDE DEF S, w, top
  <2>. QED  BY <2>2, <2>3, WeighsNothing DEF top, w, S
<1>. QED  BY <1>3, <1>4

\* The appended token: what the shorter text had, after a blank if it ends alike.
LEMMA ExtendStep ==
    ASSUME NEW f, NEW kept, NEW A, NEW B, Setting(f, kept, A, B),
           NEW p, p # <<>>, Last(p) \in TopK(f)
    PROVE  Weighs(ExtendSum(p, f, TopK(f)), ExtendBest(p, f, TopK(f)), Append(heard, f),
                  Longer(Sources(A, Front(p), Last(p)), Last(p)))
<1> DEFINE top == TopK(f)
           w == Last(p)
           q == Front(p)
           S == Sources(A, q, w)
<1>1. heard \in Seq(Frames) /\ f \in Frames /\ w \in Tokens
      /\ \A V \in SUBSET A : IsFiniteSet(V) /\ V \subseteq Paths(heard)
  BY SettingIs
<1>2. S \in SUBSET A
  BY DEF Sources, BlankEnds, Texts
<1>3. CASE q \in Hyps
  <2> DEFINE h == cur_hyps[q]
             from == Source(h, Same(p))
             x == from.sum
             v == from.best
  <2>1. IsScore(h) /\ Same(p) \in BOOLEAN
    BY <1>3 DEF Setting, Scores, Same
  <2>2. x = (IF Same(p) THEN h.s ELSE score(h)) /\ v = (IF Same(p) THEN h.v_s ELSE viterbi_score(h))
    <3>. HIDE DEF h
    <3>. QED  BY <2>1, SourceIs
  <2>3. Weighs(x, v, heard, S)
    <3>1. CASE Same(p)
      <4>1. q \in Hyps \ {<<>>} /\ S = BlankEnds(A, q)
        BY <1>3, <3>1 DEF Same, Sources
      <4>2. Weighs(h.s, h.v_s, heard, BlankEnds(A, q))
        BY <4>1 DEF Setting, Parts, Exactly
      <4>. HIDE DEF from, x, v, S, h
      <4>. QED  BY <2>2, <3>1, <4>1, <4>2
    <3>2. CASE ~Same(p)
      <4>1. S = Texts(A, q)
        BY <3>2 DEF Same, Sources
      <4>2. Weighs(score(h), viterbi_score(h), heard, Texts(A, q))
        BY <1>3 DEF Setting, Totals, Wholly
      <4>. HIDE DEF from, x, v, S, h
      <4>. QED  BY <2>2, <3>2, <4>1, <4>2
    <3>. QED  BY <3>1, <3>2
  <2>4. IsFiniteSet(S) /\ S \subseteq Paths(heard)
    BY <1>1, <1>2
  <2>5. ExtendSum(p, f, top) = x * f[w] /\ ExtendBest(p, f, top) = v * f[w]
    BY <1>3 DEF ExtendSum, ExtendBest, Extends
  <2>. HIDE DEF x, v, S, w, top, q
  <2>6. Weighs(x * f[w], v * f[w], Append(heard, f), Longer(S, w))
    BY <1>1, <2>3, <2>4, WeighsLonger
  <2>. QED  BY <2>5, <2>6 DEF top, w, S, q
<1>4. CASE q \notin Hyps
  <2>1. S = {}
    <3>1. Texts(A, q) = {} /\ BlankEnds(A, q) = {}
      BY <1>4, SettingIs
    <3>. QED  BY <3>1 DEF Sources
  <2>2. ExtendSum(p, f, top) = 0 /\ ExtendBest(p, f, top) = 0
    BY <1>4 DEF ExtendSum, ExtendBest, Extends
  <2>3. Longer(S, w) = {}
    BY <2>1, LongerNone
  <2>. HIDE DEF S, w, top, q
  <2>. QED  BY <2>2, <2>3, WeighsNothing DEF top, w, S, q
<1>. QED  BY <1>3, <1>4

\* One frame more, and every hypothesis is exact again.
LEMMA ExactStep ==
    ASSUME NEW f, NEW kept, NEW A, NEW B, Setting(f, kept, A, B),
           NEW p \in kept, p \in Seq(Words), NEW ahead \in BOOLEAN
    PROVE  /\ Exactly(Passed(p, f, TopK(f), ahead), p, Append(heard, f), B)
           /\ IsScore(Passed(p, f, TopK(f), ahead))
<1> DEFINE top == TopK(f)
           gs == Append(heard, f)
           r == Passed(p, f, top, ahead)
           w == Last(p)
<1>1. heard \in Seq(Frames) /\ f \in Frames /\ A \subseteq Paths(heard) /\ top \subseteq Tokens
      /\ \A V \in SUBSET A : IsFiniteSet(V) /\ V \subseteq Paths(heard)
  BY SettingIs
<1>2. HasScores(r, BlankSum(p, f, top), BlankBest(p, f, top),
                RepeatSum(p, f, top) + ExtendSum(p, f, top),
                Larger(RepeatBest(p, f, top), ExtendBest(p, f, top)))
  <2>1. Scores
    BY DEF Setting
  <2>. HIDE DEF top
  <2>. QED  BY <1>1, <2>1, PassedIs
<1>3. Weighs(BlankSum(p, f, top), BlankBest(p, f, top), gs, BlankEnds(B, p))
  BY BlankStep
<1>4. /\ p = <<>> => TokenEnds(B, p) = {}
      /\ p # <<>> =>
           IF w \in top
           THEN TokenEnds(B, p) = Longer(TokenEnds(A, p), w) \cup Longer(Sources(A, Front(p), w), w)
           ELSE TokenEnds(B, p) = {}
  BY TokenGrows DEF Setting
<1>5. Weighs(RepeatSum(p, f, top) + ExtendSum(p, f, top),
             Larger(RepeatBest(p, f, top), ExtendBest(p, f, top)), gs, TokenEnds(B, p))
  <2>1. CASE p = <<>> \/ w \notin top
    <3>1. /\ RepeatSum(p, f, top) = 0 /\ RepeatBest(p, f, top) = 0
          /\ ExtendSum(p, f, top) = 0 /\ ExtendBest(p, f, top) = 0
      BY <2>1 DEF RepeatSum, RepeatBest, ExtendSum, ExtendBest, Repeats, Extends
    <3>2. TokenEnds(B, p) = {}
      BY <1>4, <2>1
    <3>3. 0 + 0 = 0 /\ Larger(0, 0) = 0
      BY DEF Larger
    <3>. QED  BY <3>1, <3>2, <3>3, WeighsNothing
  <2>2. CASE p # <<>> /\ w \in top
    <3> DEFINE X == TokenEnds(A, p)
               Y == Sources(A, Front(p), w)
               LX == Longer(X, w)
               LY == Longer(Y, w)
               x == RepeatSum(p, f, top)
               v == RepeatBest(p, f, top)
               y == ExtendSum(p, f, top)
               u == ExtendBest(p, f, top)
    <3>1. Weighs(x, v, gs, LX)
      BY <2>2, RepeatStep
    <3>2. Weighs(y, u, gs, LY)
      BY <2>2, ExtendStep
    <3>3. TokenEnds(B, p) = LX \cup LY
      BY <1>4, <2>2
    <3>4. X \in SUBSET A /\ Y \in SUBSET A /\ X \cap Y = {}
      <4>1. Front(p) # p
        BY <2>2, FrontLast
      <4>. QED  BY <4>1 DEF TokenEnds, Sources, BlankEnds, Texts
    <3>5. gs \in Seq(Frames) /\ w \in Tokens
      BY <1>1, <2>2, AppendProperties
    <3>. HIDE DEF X, Y, w, gs
    <3>6. IsFiniteSet(X) /\ IsFiniteSet(Y) /\ X \subseteq Paths(heard) /\ Y \subseteq Paths(heard)
      BY <1>1, <3>4
    <3>7. LX \subseteq Paths(gs) /\ LY \subseteq Paths(gs) /\ IsFiniteSet(LX) /\ IsFiniteSet(LY)
      BY <1>1, <3>5, <3>6, LongerPaths DEF gs
    <3>8. LX \cap LY = {}
      <4>1. ASSUME NEW b \in LX, b \in LY PROVE FALSE
        <5>1. PICK a \in X : b = Append(a, w)
          BY DEF Longer
        <5>2. PICK c \in Y : b = Append(c, w)
          BY <4>1 DEF Longer
        <5>3. a \in Paths(heard) /\ c \in Paths(heard)
          BY <3>6
        <5>4. a \in Seq(Tokens) /\ c \in Seq(Tokens)
          BY <1>1, <5>3, PathSeq
        <5>5. Front(b) = a
          BY <3>5, <5>1, <5>4, LastAppended
        <5>6. Front(b) = c
          BY <3>5, <5>2, <5>4, LastAppended
        <5>. QED  BY <3>4, <5>5, <5>6
      <4>. QED  BY <4>1
    <3>. HIDE DEF LX, LY, x, y, u, v
    <3>9. Weighs(x + y, IF v >= u THEN v ELSE u, gs, LX \cup LY)
      BY <3>1, <3>2, <3>5, <3>7, <3>8, WeighsUnion
    <3>. QED  BY <3>3, <3>9 DEF x, y, u, v, Larger
  <2>. QED  BY <2>1, <2>2
<1>. HIDE DEF r, top, gs
<1>6. Exactly(r, p, gs, B) /\ IsScore(r)
  BY <1>2, <1>3, <1>5 DEF HasScores, Exactly
<1>. QED  BY <1>6 DEF r, top, gs

-----------------------------------------------------------------------------
(* The times of the tokens.                                                 *)

\* Times: in order, and before now.
Increasing(t, now) ==
    t \in Seq(Nat) /\ \A j \in 1..Len(t) : t[j] < now /\ (j > 1 => t[j - 1] < t[j])

\* No times are in order.
LEMMA IncreasingNone == \A now : Increasing(<<>>, now)
BY DEF Increasing

\* Times that are in order stay so.
LEMMA IncreasingLater ==
    ASSUME NEW now \in Nat, NEW t, Increasing(t, now)
    PROVE  Increasing(t, now + 1)
<1>1. ASSUME NEW j \in 1..Len(t) PROVE t[j] < now + 1 /\ (j > 1 => t[j - 1] < t[j])
  <2>1. t[j] \in Nat /\ t[j] < now /\ (j > 1 => t[j - 1] < t[j])
    BY DEF Increasing
  <2>. QED  BY <2>1
<1>. QED  BY <1>1 DEF Increasing

\* One time more, which is now.
LEMMA IncreasingAppend ==
    ASSUME NEW now \in Nat, NEW t, Increasing(t, now)
    PROVE  Increasing(Append(t, now), now + 1) /\ Len(Append(t, now)) = Len(t) + 1
<1> DEFINE u == Append(t, now)
           n == Len(t)
<1>1. t \in Seq(Nat) /\ n \in Nat
  BY DEF Increasing
<1>2. u \in Seq(Nat) /\ Len(u) = n + 1 /\ u[n + 1] = now /\ \A j \in 1..n : u[j] = t[j]
  BY <1>1, AppendProperties
<1>3. \A j \in 1..n : t[j] \in Nat /\ t[j] < now /\ (j > 1 => t[j - 1] < t[j])
  BY DEF Increasing
<1>. HIDE DEF u, n
<1>4. ASSUME NEW j \in 1..n + 1 PROVE u[j] < now + 1 /\ (j > 1 => u[j - 1] < u[j])
  <2>1. CASE j = n + 1
    <3>1. u[j] = now
      BY <1>2, <2>1
    <3>2. j > 1 => u[j - 1] < now
      <4>1. SUFFICES ASSUME j > 1 PROVE u[j - 1] < now
        OBVIOUS
      <4>2. j - 1 \in 1..n
        BY <1>1, <2>1, <4>1
      <4>. QED  BY <1>2, <1>3, <4>2
    <3>. QED  BY <3>1, <3>2
  <2>2. CASE j # n + 1
    <3>1. j \in 1..n
      BY <1>1, <2>2
    <3>2. u[j] = t[j] /\ t[j] \in Nat /\ t[j] < now
      BY <1>2, <1>3, <3>1
    <3>3. j > 1 => u[j - 1] < u[j]
      <4>1. SUFFICES ASSUME j > 1 PROVE u[j - 1] < u[j]
        OBVIOUS
      <4>2. j - 1 \in 1..n
        BY <1>1, <3>1, <4>1
      <4>. QED  BY <1>2, <1>3, <3>1, <4>1, <4>2
    <3>. QED  BY <3>2, <3>3
  <2>. QED  BY <2>1, <2>2
<1>5. Increasing(u, now + 1)
  BY <1>2, <1>4 DEF Increasing
<1>. QED  BY <1>2, <1>5 DEF u, n

\* One time less.
LEMMA IncreasingFront ==
    ASSUME NEW now, NEW t, Increasing(t, now), t # <<>>
    PROVE  Increasing(Front(t), now) /\ Len(Front(t)) = Len(t) - 1
<1> DEFINE u == Front(t)
           n == Len(t)
<1>1. t \in Seq(Nat) /\ n \in Nat
  BY DEF Increasing
<1>2. u \in Seq(Nat) /\ Len(u) = n - 1 /\ \A j \in 1..n - 1 : u[j] = t[j]
  BY <1>1, FrontLast
<1>3. \A j \in 1..n : t[j] < now /\ (j > 1 => t[j - 1] < t[j])
  BY DEF Increasing
<1>. HIDE DEF u, n
<1>4. ASSUME NEW j \in 1..n - 1 PROVE u[j] < now /\ (j > 1 => u[j - 1] < u[j])
  <2>1. j \in 1..n /\ (j > 1 => j - 1 \in 1..n - 1)
    BY <1>1
  <2>. QED  BY <1>2, <1>3, <2>1
<1>5. Increasing(u, now)
  BY <1>2, <1>4 DEF Increasing
<1>. QED  BY <1>2, <1>5 DEF u, n

\* The times of a PrefixScore of p: one for each of its tokens, if there is a path.
Timely(h, p, now) ==
    /\ Increasing(h.times_s, now) /\ Increasing(h.times_ns, now)
    /\ h.v_s > 0 => Len(h.times_s) = Len(p)
    /\ h.v_ns > 0 => Len(h.times_ns) = Len(p)
    /\ h.cur_token_prob > 0 => Len(h.times_ns) = Len(p)

\* Either of the two times of a PrefixScore is in order, whichever is asked for.
LEMMA TimesIs ==
    ASSUME NEW h, IsScore(h), NEW p, NEW now, Timely(h, p, now)
    PROVE  Increasing(times(h), now) /\ (viterbi_score(h) > 0 => Len(times(h)) = Len(p))
<1>1. h.v_s \in Nat /\ h.v_ns \in Nat
  BY DEF IsScore
<1>2. viterbi_score(h) = Larger(h.v_s, h.v_ns)
  BY ScoreIs
<1>3. CASE h.v_s > h.v_ns
  <2>1. times(h) = h.times_s
    BY <1>3 DEF times
  <2>2. h.v_s > 0
    BY <1>1, <1>3
  <2>. QED  BY <2>1, <2>2 DEF Timely
<1>4. CASE ~(h.v_s > h.v_ns)
  <2>1. times(h) = h.times_ns
    BY <1>4 DEF times
  <2>2. viterbi_score(h) > 0 => h.v_ns > 0
    BY <1>1, <1>2, <1>4 DEF Larger
  <2>. QED  BY <2>1, <2>2 DEF Timely
<1>. QED  BY <1>3, <1>4

\* A product that is not 0 has no factor 0.
LEMMA Positive == \A x, c \in Nat : x * c > 0 => x > 0
<1>1. ASSUME NEW x \in Nat, NEW c \in Nat, x * c > 0 PROVE x > 0
  <2>1. x = 0 => x * c = 0
    BY Distributes
  <2>. QED  BY <1>1, <2>1
<1>. QED  BY <1>1

\* Case 0 keeps the times.
LEMMA BlankedTimely ==
    ASSUME NEW n, IsScore(n), NEW h, IsScore(h), NEW prob \in Nat, NEW p, NEW now \in Nat,
           Timely(n, p, now + 1), Timely(h, p, now)
    PROVE  Timely(Blanked(n, h, prob), p, now + 1) /\ IsScore(Blanked(n, h, prob))
<1> DEFINE m == Blanked(n, h, prob)
           t == times(h)
           v == viterbi_score(h)
<1>1. /\ IsScore(m) /\ m.v_s = v * prob /\ m.v_ns = n.v_ns
      /\ m.cur_token_prob = n.cur_token_prob /\ m.times_s = t /\ m.times_ns = n.times_ns
  BY BlankedIs
<1>2. Increasing(t, now) /\ (v > 0 => Len(t) = Len(p)) /\ v \in Nat
  BY TimesIs, ScoreIs
<1>. HIDE DEF m, t, v
<1>3. Increasing(t, now + 1)
  BY <1>2, IncreasingLater
<1>4. m.v_s > 0 => Len(m.times_s) = Len(p)
  BY <1>1, <1>2, Positive
<1>5. Timely(m, p, now + 1)
  BY <1>1, <1>3, <1>4 DEF Timely
<1>. QED  BY <1>1, <1>5 DEF m

\* The larger of two numbers is one of them.
LEMMA LargerIs ==
    \A x, y \in Nat : (x >= y => Larger(x, y) = x) /\ (~(x >= y) => Larger(x, y) = y /\ y > 0)
BY DEF Larger

\* Case 1 replaces the last time, and there is one to replace.
LEMMA RepeatedTimely ==
    ASSUME NEW n, IsScore(n), NEW h, IsScore(h), NEW prob \in Nat, prob > 0,
           NEW p \in Seq(Words), p # <<>>, abs_time_step \in Nat,
           Timely(n, p, abs_time_step + 1), Timely(h, p, abs_time_step)
    PROVE  Timely(Repeated(n, h, prob), p, abs_time_step + 1) /\ IsScore(Repeated(n, h, prob))
<1> DEFINE m == Repeated(n, h, prob)
           now == abs_time_step
           v == h.v_ns * prob
           u == h.times_ns
           t == Append(Front(u), now)
<1>1. Writes(m, n, h.ns * prob, v) /\ (NoTimes(m, n, v, prob) \/ NewTimes(m, n, v, prob, t))
  BY RepeatedIs
<1>2. /\ n.v_ns \in Nat /\ n.cur_token_prob \in Nat /\ v \in Nat /\ h.v_ns \in Nat
      /\ now \in Nat
  BY Distributes DEF IsScore
<1>. HIDE DEF m, t, v, now, u
<1>3. IsScore(m) /\ m.v_s = n.v_s /\ m.times_s = n.times_s /\ m.v_ns = Larger(n.v_ns, v)
  BY <1>1 DEF Writes
<1>4. CASE NoTimes(m, n, v, prob)
  <2>1. m.v_ns > 0 => Len(m.times_ns) = Len(p)
    <3>1. CASE n.v_ns >= v
      <4>1. m.v_ns = n.v_ns
        BY <1>2, <1>3, <3>1, LargerIs
      <4>. QED  BY <1>4, <4>1 DEF Timely, NoTimes
    <3>2. CASE n.cur_token_prob >= prob
      <4>1. n.cur_token_prob > 0
        BY <1>2, <3>2
      <4>. QED  BY <1>4, <4>1 DEF Timely, NoTimes
    <3>. QED  BY <1>4, <3>1, <3>2 DEF NoTimes
  <2>2. Timely(m, p, now + 1)
    BY <1>4, <1>3, <2>1 DEF Timely, NoTimes, now
  <2>. QED  BY <1>3, <2>2 DEF m, now
<1>5. CASE NewTimes(m, n, v, prob, t)
  <2>1. v > 0
    BY <1>2, <1>5 DEF NewTimes
  <2>2. h.v_ns > 0
    BY <1>2, <2>1, Positive DEF v
  <2>3. Len(u) = Len(p) /\ Increasing(u, now)
    BY <2>2 DEF Timely, u, now
  <2>4. Len(p) > 0 /\ Len(p) \in Nat
    BY EmptySeq, FrontLast
  <2>5. u # <<>>
    <3>1. Len(<<>>) = 0
      OBVIOUS
    <3>. QED  BY <2>3, <2>4, <3>1
  <2>6. Increasing(Front(u), now) /\ Len(Front(u)) = Len(u) - 1
    BY <2>3, <2>5, IncreasingFront
  <2>7. Increasing(t, now + 1) /\ Len(t) = Len(Front(u)) + 1
    BY <1>2, <2>6, IncreasingAppend DEF t
  <2>8. Len(t) = Len(p)
    BY <2>3, <2>4, <2>6, <2>7
  <2>9. Timely(m, p, now + 1)
    BY <1>5, <1>3, <2>7, <2>8 DEF Timely, NewTimes, now
  <2>. QED  BY <1>3, <2>9 DEF m, now
<1>. QED  BY <1>1, <1>4, <1>5

\* Cases 2 and 3 add a time.
LEMMA AppendedTimely ==
    ASSUME NEW n, IsScore(n), NEW h, IsScore(h), NEW same \in BOOLEAN, NEW prob \in Nat,
           NEW p \in Seq(Words), p # <<>>, abs_time_step \in Nat,
           Timely(n, p, abs_time_step + 1), Timely(h, Front(p), abs_time_step)
    PROVE  Timely(Appended(n, h, same, prob), p, abs_time_step + 1)
           /\ IsScore(Appended(n, h, same, prob))
<1> DEFINE m == Appended(n, h, same, prob)
           now == abs_time_step
           from == Source(h, same)
           v == from.best * prob
           b == from.best
           u == from.times
           t == Append(u, now)
           q == Front(p)
<1>1. /\ Writes(m, n, from.sum * prob, v)
      /\ (NoTimes(m, n, v, prob) /\ n.v_ns >= v) \/ NewTimes(m, n, v, prob, t)
  BY AppendedIs
<1>2. /\ b \in Nat /\ b = (IF same THEN h.v_s ELSE viterbi_score(h))
      /\ u = (IF same THEN h.times_s ELSE times(h))
  BY SourceIs
<1>3. v = b * prob /\ v \in Nat /\ n.v_ns \in Nat /\ now \in Nat
  BY <1>2, Distributes DEF IsScore
<1>. HIDE DEF m, from, v, b, u, t, now
<1>4. Increasing(u, now) /\ (b > 0 => Len(u) = Len(q))
  <2>1. CASE same
    BY <1>2, <2>1 DEF Timely, now
  <2>2. CASE ~same
    <3>1. u = times(h) /\ b = viterbi_score(h)
      BY <1>2, <2>2
    <3>2. Timely(h, q, now)
      BY DEF now
    <3>. QED  BY <3>1, <3>2, TimesIs
  <2>. QED  BY <2>1, <2>2
<1>5. IsScore(m) /\ m.v_s = n.v_s /\ m.times_s = n.times_s /\ m.v_ns = Larger(n.v_ns, v)
  BY <1>1 DEF Writes
<1>6. CASE NoTimes(m, n, v, prob) /\ n.v_ns >= v
  <2>1. m.v_ns = n.v_ns
    BY <1>3, <1>6, <1>5, LargerIs
  <2>2. Timely(m, p, now + 1)
    BY <1>6, <1>5, <2>1 DEF Timely, NoTimes, now
  <2>. QED  BY <1>5, <2>2 DEF m, now
<1>7. CASE NewTimes(m, n, v, prob, t)
  <2>1. v > 0
    BY <1>3, <1>7 DEF NewTimes
  <2>2. b > 0
    BY <1>2, <1>3, <2>1, Positive
  <2>3. Increasing(t, now + 1) /\ Len(t) = Len(u) + 1
    BY <1>3, <1>4, IncreasingAppend DEF t
  <2>4. Len(q) = Len(p) - 1 /\ Len(p) \in Nat
    BY FrontLast
  <2>5. Len(t) = Len(p)
    BY <1>4, <2>2, <2>3, <2>4
  <2>6. Timely(m, p, now + 1)
    BY <1>7, <1>5, <2>3, <2>5 DEF Timely, NewTimes, now
  <2>. QED  BY <1>5, <2>6 DEF m, now
<1>. QED  BY <1>1, <1>6, <1>7

\* Of all hypotheses.
TimelyHyps == \A p \in Hyps : Timely(cur_hyps[p], p, abs_time_step)

\* The empty PrefixScore has no times.
LEMMA NoScoreTimely == \A p, now : Timely(NoScore, p, now)
BY NoScoreIs, IncreasingNone DEF Timely

\* The times after the repeated token.
LEMMA RepeatOfTimely ==
    ASSUME Scores, TimelyHyps, abs_time_step \in Nat, NEW f \in Frames, NEW p \in Seq(Words),
           NEW top, top \subseteq Tokens,
           NEW n, IsScore(n), Timely(n, p, abs_time_step + 1)
    PROVE  IsScore(RepeatOf(n, p, f, top)) /\ Timely(RepeatOf(n, p, f, top), p, abs_time_step + 1)
<1>1. CASE Repeats(p, top)
  <2> DEFINE h == cur_hyps[p]
             prob == f[Last(p)]
  <2>1. IsScore(h) /\ Timely(h, p, abs_time_step) /\ p # <<>>
    BY <1>1 DEF Repeats, Scores, TimelyHyps
  <2>2. prob \in Nat /\ prob > 0
    <3>1. prob \in Nat \ {0}
      BY <1>1, FrameAssumption DEF Repeats
    <3>. QED  BY <3>1
  <2>3. RepeatOf(n, p, f, top) = Repeated(n, h, prob)
    BY <1>1 DEF RepeatOf
  <2>. HIDE DEF h, prob
  <2>. QED  BY <2>1, <2>2, <2>3, RepeatedTimely
<1>2. CASE ~Repeats(p, top)
  BY <1>2 DEF RepeatOf
<1>. QED  BY <1>1, <1>2

\* The times after the appended token.
LEMMA ExtendOfTimely ==
    ASSUME Scores, TimelyHyps, abs_time_step \in Nat, NEW f \in Frames, NEW p \in Seq(Words),
           NEW top, top \subseteq Tokens,
           NEW n, IsScore(n), Timely(n, p, abs_time_step + 1)
    PROVE  IsScore(ExtendOf(n, p, f, top)) /\ Timely(ExtendOf(n, p, f, top), p, abs_time_step + 1)
<1>1. CASE Extends(p, top)
  <2> DEFINE h == cur_hyps[Front(p)]
             prob == f[Last(p)]
  <2>1. IsScore(h) /\ Timely(h, Front(p), abs_time_step) /\ p # <<>> /\ Same(p) \in BOOLEAN
    BY <1>1 DEF Extends, Scores, TimelyHyps, Same
  <2>2. prob \in Nat
    BY <1>1, FrameAssumption DEF Extends
  <2>3. ExtendOf(n, p, f, top) = Appended(n, h, Same(p), prob)
    BY <1>1 DEF ExtendOf
  <2>. HIDE DEF h, prob
  <2>. QED  BY <2>1, <2>2, <2>3, AppendedTimely
<1>2. CASE ~Extends(p, top)
  BY <1>2 DEF ExtendOf
<1>. QED  BY <1>1, <1>2

\* The times of p after a frame.
LEMMA PassedTimely ==
    ASSUME Scores, TimelyHyps, abs_time_step \in Nat, NEW f \in Frames, NEW p \in Seq(Words),
           NEW top, top \subseteq Tokens, NEW ahead \in BOOLEAN
    PROVE  Timely(Passed(p, f, top, ahead), p, abs_time_step + 1)
<1> DEFINE now == abs_time_step + 1
           x == ExtendOf(NoScore, p, f, top)
           y == RepeatOf(NoScore, p, f, top)
           t == TokenOf(p, f, top, ahead)
           n == BlankOf(t, p, f, top)
           r == Passed(p, f, top, ahead)
<1>1. IsScore(NoScore) /\ Timely(NoScore, p, now)
  BY NoScoreIs, NoScoreTimely
<1>2. IsScore(x) /\ Timely(x, p, now)
  BY <1>1, ExtendOfTimely
<1>3. IsScore(y) /\ Timely(y, p, now)
  BY <1>1, RepeatOfTimely
<1>4. IsScore(t) /\ Timely(t, p, now)
  <2>1. t = IF ahead THEN RepeatOf(x, p, f, top) ELSE ExtendOf(y, p, f, top)
    BY DEF TokenOf
  <2>. HIDE DEF x, y, t
  <2>2. IsScore(RepeatOf(x, p, f, top)) /\ Timely(RepeatOf(x, p, f, top), p, now)
    BY <1>2, RepeatOfTimely
  <2>3. IsScore(ExtendOf(y, p, f, top)) /\ Timely(ExtendOf(y, p, f, top), p, now)
    BY <1>3, ExtendOfTimely
  <2>. QED  BY <2>1, <2>2, <2>3
<1>. HIDE DEF t
<1>5. IsScore(n) /\ Timely(n, p, now)
  <2>1. CASE p \in Hyps /\ blank \in top
    <3> DEFINE h == cur_hyps[p]
               prob == f[blank]
    <3>1. IsScore(h) /\ Timely(h, p, abs_time_step)
      BY <2>1 DEF Scores, TimelyHyps
    <3>2. prob \in Nat
      BY <2>1, FrameAssumption
    <3>3. n = Blanked(t, h, prob)
      BY <2>1 DEF BlankOf
    <3>. HIDE DEF h, prob, n
    <3>. QED  BY <1>4, <3>1, <3>2, <3>3, BlankedTimely
  <2>2. CASE ~(p \in Hyps /\ blank \in top)
    BY <1>4, <2>2 DEF BlankOf
  <2>. QED  BY <2>1, <2>2
<1>6. IsScore(r) /\ SameButContext(n, r)
  BY <1>5, PassedForm DEF t
<1>. HIDE DEF n, r, now
<1>7. Timely(r, p, now)
  BY <1>5, <1>6 DEF Timely, SameButContext
<1>. QED  BY <1>7 DEF r, now

-----------------------------------------------------------------------------
(* The tokens of a frame, and the beam.                                     *)

\* Min, of two numbers.
LEMMA MinPair == \A x, y \in Nat : Min({x, y}) \in {x, y} /\ Min({x, y}) <= x /\ Min({x, y}) <= y
<1>1. ASSUME NEW x \in Nat, NEW y \in Nat
      PROVE  Min({x, y}) \in {x, y} /\ Min({x, y}) <= x /\ Min({x, y}) <= y
  <2> DEFINE m == CHOOSE z \in {x, y} : \A w \in {x, y} : w >= z
             l == IF x <= y THEN x ELSE y
  <2>1. l \in {x, y} /\ \A w \in {x, y} : w >= l
    OBVIOUS
  <2>2. m \in {x, y} /\ \A w \in {x, y} : w >= m
    BY <2>1
  <2>3. Min({x, y}) = m
    BY DEF Min
  <2>. HIDE DEF m, l
  <2>4. m \in Nat
    BY <2>2
  <2>5. m <= x /\ m <= y
    BY <2>2, <2>4
  <2>. QED  BY <2>2, <2>3, <2>5
<1>. QED  BY <1>1

\* Of any tokens there is one that TopK returns first.
LEMMA EachHasFirst ==
    ASSUME NEW f \in Frames, NEW R \in SUBSET Tokens, R # {}
    PROVE  \E w \in R : \A v \in R : ~Before(f, v, w)
<1>1. f \in [Tokens -> Nat] /\ Tokens \subseteq Nat /\ IsFiniteSet(Tokens) /\ Tokens # {}
  BY FrameAssumption, TokenAssumption
<1> DEFINE F == {S \in SUBSET Tokens : S # {} => \E w \in S : \A v \in S : ~Before(f, v, w)}
<1>2. {} \in F
  OBVIOUS
<1>3. ASSUME NEW S \in SUBSET Tokens, NEW x \in Tokens \ S, S \in F PROVE S \cup {x} \in F
  <2>1. ~Before(f, x, x)
    <3>1. x \in Nat /\ f[x] \in Nat
      BY <1>1
    <3>. QED  BY <3>1 DEF Before
  <2>2. CASE S = {}
    BY <2>1, <2>2
  <2>3. CASE S # {}
    <3>1. PICK w \in S : \A v \in S : ~Before(f, v, w)
      BY <1>3, <2>3
    <3>2. CASE Before(f, x, w)
      <4>1. ASSUME NEW v \in S, Before(f, v, x) PROVE FALSE
        <5>1. /\ v \in Nat /\ f[v] \in Nat /\ x \in Nat /\ f[x] \in Nat
              /\ w \in Nat /\ f[w] \in Nat
          BY <1>1
        <5>2. Before(f, v, w)
          BY <3>2, <4>1, <5>1 DEF Before
        <5>. QED  BY <3>1, <5>2
      <4>. QED  BY <2>1, <4>1
    <3>3. CASE ~Before(f, x, w)
      BY <3>1, <3>3
    <3>. QED  BY <3>2, <3>3
  <2>. QED  BY <2>2, <2>3
<1>. HIDE DEF F
<1>4. \A S \in SUBSET Tokens : S \in F
  BY <1>1, <1>2, <1>3, SubsetsOf
<1>5. R \in F
  BY <1>4
<1>. QED  BY <1>5 DEF F

\* A frame has a best token.
LEMMA TopKSome ==
    ASSUME NEW f \in Frames
    PROVE  /\ TopK(f) # {} /\ TopK(f) \subseteq Tokens /\ IsFiniteSet(TopK(f))
<1>1. f \in [Tokens -> Nat] /\ Tokens \subseteq Nat /\ IsFiniteSet(Tokens) /\ Tokens # {}
  BY FrameAssumption, TokenAssumption
<1>2. PICK w \in Tokens : \A v \in Tokens : ~Before(f, v, w)
  <2>1. Tokens \in SUBSET Tokens
    OBVIOUS
  <2>. QED  BY <1>1, <2>1, EachHasFirst
<1>3. {v \in Tokens : Before(f, v, w)} = {}
  BY <1>2
<1>4. w \in TopK(f)
  <2>1. Cardinality({v \in Tokens : Before(f, v, w)}) = 0
    BY <1>3, FS_EmptySet
  <2>2. 0 < first_beam_size
    BY BeamAssumption
  <2>. QED  BY <2>1, <2>2 DEF TopK
<1>5. TopK(f) \subseteq Tokens
  BY DEF TopK
<1>. QED  BY <1>1, <1>4, <1>5, FS_Subset

\* Texts are not longer than what was heard.
Texted == \A p \in Hyps : p \in Seq(Words) /\ Len(p) <= abs_time_step

\* The next hypotheses are texts of a token more at most, and there is one.
LEMMA NextHypsIs ==
    ASSUME NEW top, top # {}, top \subseteq Tokens, IsFiniteSet(top), IsFiniteSet(Hyps), Hyps # {},
           Texted, abs_time_step \in Nat
    PROVE  /\ IsFiniteSet(NextHyps(top)) /\ NextHyps(top) # {}
           /\ \A p \in NextHyps(top) : p \in Seq(Words) /\ Len(p) <= abs_time_step + 1
<1> DEFINE O == {p \in Hyps : blank \in top \/ Repeats(p, top)}
           D == Hyps \X (top \ {blank})
           e == [pw \in D |-> Append(pw[1], pw[2])]
           E == {Append(p, w) : p \in Hyps, w \in top \ {blank}}
<1>1. NextHyps(top) = O \cup E
  BY DEF NextHyps
<1>2. IsFiniteSet(O) /\ O \subseteq Hyps
  BY FS_Subset
<1>3. IsFiniteSet(E)
  <2>1. IsFiniteSet(top \ {blank})
    BY FS_Subset
  <2>2. IsFiniteSet(D)
    BY <2>1, FS_Product
  <2>3. e \in Surjection(D, E)
    <3>1. e \in [D -> E]
      OBVIOUS
    <3>2. ASSUME NEW z \in E PROVE \E d \in D : e[d] = z
      <4>1. PICK p \in Hyps, w \in top \ {blank} : z = Append(p, w)
        OBVIOUS
      <4>2. <<p, w>> \in D /\ e[<<p, w>>] = z
        BY <4>1
      <4>. QED  BY <4>2
    <3>. HIDE DEF e, D, E
    <3>. QED  BY <3>1, <3>2 DEF Surjection
  <2>. QED  BY <2>2, <2>3, FS_Surjection DEF ExistsSurjection
<1>4. \E p : p \in O \cup E
  <2>1. PICK p \in Hyps : TRUE
    OBVIOUS
  <2>2. CASE blank \in top
    <3>1. p \in O
      BY <2>2
    <3>. QED  BY <3>1
  <2>3. CASE blank \notin top
    <3>1. PICK w \in top \ {blank} : TRUE
      BY <2>3
    <3>2. Append(p, w) \in E
      OBVIOUS
    <3>. HIDE DEF O, E
    <3>. QED  BY <3>2
  <2>. QED  BY <2>2, <2>3
<1>5. ASSUME NEW p \in O \cup E PROVE p \in Seq(Words) /\ Len(p) <= abs_time_step + 1
  <2>1. CASE p \in O
    <3>1. p \in Seq(Words) /\ Len(p) <= abs_time_step
      BY <2>1 DEF Texted
    <3>2. Len(p) \in Nat
      BY <3>1
    <3>. QED  BY <3>1, <3>2
  <2>2. CASE p \in E
    <3>1. PICK q \in Hyps, w \in top \ {blank} : p = Append(q, w)
      BY <2>2
    <3>2. q \in Seq(Words) /\ Len(q) <= abs_time_step /\ w \in Words
      BY DEF Texted, Words
    <3>3. Append(q, w) \in Seq(Words) /\ Len(Append(q, w)) = Len(q) + 1 /\ Len(q) \in Nat
      BY <3>2, AppendProperties
    <3>. QED  BY <3>1, <3>2, <3>3
  <2>. QED  BY <2>1, <2>2
<1>. HIDE DEF O, E
<1>6. IsFiniteSet(O \cup E)
  BY <1>2, <1>3, FS_Union
<1>. QED  BY <1>1, <1>4, <1>5, <1>6

\* A beam is neither empty nor too big.
LEMMA BeamsAre ==
    ASSUME NEW next, IsFiniteSet(DOMAIN next), DOMAIN next # {}, NEW kept \in Beams(next)
    PROVE  /\ kept \subseteq DOMAIN next /\ IsFiniteSet(kept) /\ kept # {}
           /\ Cardinality(kept) <= second_beam_size
           /\ Cardinality(kept) = Min({Cardinality(DOMAIN next), second_beam_size})
<1> DEFINE D == DOMAIN next
           size == Min({Cardinality(D), second_beam_size})
           total == [p \in D |-> total_score(next[p])]
           best == {p \in D : Cardinality({q \in D : total[q] >= total[p]}) <= size}
           equal == {p \in D \ best : Cardinality({q \in D : total[q] > total[p]}) < size}
<1>1. PICK some \in kSubset(size - Cardinality(best), equal) : kept = best \cup some
  BY DEF Beams
<1>2. best \subseteq D /\ equal \subseteq D \ best
  OBVIOUS
<1>3. some \subseteq equal /\ Cardinality(some) = size - Cardinality(best)
  BY <1>1 DEF kSubset
<1>. HIDE DEF total, best, equal
<1>4. IsFiniteSet(best) /\ IsFiniteSet(some) /\ some \subseteq D /\ best \cap some = {}
  BY <1>2, <1>3, FS_Subset
<1>5. Cardinality(D) \in Nat /\ Cardinality(D) # 0
  BY FS_CardinalityType, FS_EmptySet
<1>6. size \in Nat /\ size # 0 /\ size <= second_beam_size
  <2>1. second_beam_size \in Nat /\ second_beam_size # 0
    BY BeamAssumption
  <2>2. size \in {Cardinality(D), second_beam_size} /\ size <= second_beam_size
    BY <1>5, <2>1, MinPair
  <2>. HIDE DEF size
  <2>. QED  BY <1>5, <2>1, <2>2
<1>. HIDE DEF size
<1>7. kept \subseteq D
  BY <1>1, <1>2, <1>4
<1>8. IsFiniteSet(kept)
  BY <1>7, FS_Subset
<1>9. Cardinality(kept) = size
  <2>1. Cardinality(best \cup some) = Cardinality(best) + Cardinality(some) - Cardinality(best \cap some)
    BY <1>4, FS_Union
  <2>2. Cardinality(best \cap some) = 0
    BY <1>4, FS_EmptySet
  <2>3. Cardinality(best) \in Nat
    BY <1>4, FS_CardinalityType
  <2>. QED  BY <1>1, <1>3, <1>6, <2>1, <2>2, <2>3
<1>10. kept # {}
  BY <1>6, <1>9, FS_EmptySet
<1>. QED  BY <1>6, <1>7, <1>8, <1>9, <1>10 DEF size

-----------------------------------------------------------------------------
(* The invariant: the scores of a hypothesis are the sums and maxima        *)
(* over the alignments of its text that no beam has cut.                    *)

\* Where the utterance stands.
Stands ==
    /\ survivors \in Seq(SUBSET Seq(Words))
    /\ IF phase = "fresh" THEN heard = <<>> /\ cur_hyps = FirstHyps
       ELSE heard # <<>> /\ survivors[Len(heard)] = Hyps

\* The scores are those of the alignments.
Counted == phase # "fresh" => \A p \in Hyps : Exactly(cur_hyps[p], p, heard, Alignments)

IInv ==
    /\ TypeOK /\ Stands /\ Scores /\ TimelyHyps /\ Counted
    /\ IsFiniteSet(Hyps) /\ IsFiniteSet(Alignments)

\* The first hypothesis.
LEMMA FirstIs ==
    /\ DOMAIN FirstHyps = {<<>>} /\ IsScore(FirstHyps[<<>>])
    /\ FirstHyps[<<>>].s = 1 /\ FirstHyps[<<>>].ns = 0
    /\ FirstHyps[<<>>].v_s = 1 /\ FirstHyps[<<>>].v_ns = 1
    /\ FirstHyps[<<>>].cur_token_prob = 0
    /\ FirstHyps[<<>>].times_s = <<>> /\ FirstHyps[<<>>].times_ns = <<>>
<1> DEFINE h == [NoScore EXCEPT !.s = 1, !.v_s = 1, !.v_ns = 1]
<1>1. DOMAIN FirstHyps = {<<>>} /\ FirstHyps[<<>>] = h
  <2>1. FirstHyps = [p \in {<<>>} |-> h]
    BY DEF FirstHyps
  <2>. HIDE DEF h
  <2>. QED  BY <2>1
<1>2. /\ IsScore(h) /\ h.s = 1 /\ h.ns = 0 /\ h.v_s = 1 /\ h.v_ns = 1 /\ h.cur_token_prob = 0
      /\ h.times_s = <<>> /\ h.times_ns = <<>>
  BY DEF NoScore, IsScore, Keys
<1>. QED  BY <1>1, <1>2

\* Before the first frame there is one alignment, the empty one.
LEMMA FirstAmong == \A surv : Among(<<>>, surv) = {<<>>}
<1>1. ASSUME NEW surv PROVE Among(<<>>, surv) = {<<>>}
  <2>1. Paths(<<>>) = {<<>>}
    <3>1. Paths(<<>>) = [1..0 -> Tokens] /\ 1..0 = {}
      BY DEF Paths
    <3>2. ASSUME NEW a \in [1..0 -> Tokens] PROVE a = <<>>
      <4>1. a \in Seq(Tokens) /\ Len(a) = 0
        OBVIOUS
      <4>. QED  BY <4>1, EmptySeq
    <3>3. <<>> \in [1..0 -> Tokens]
      OBVIOUS
    <3>. QED  BY <3>1, <3>2, <3>3
  <2>2. DOMAIN <<>> = {}
    OBVIOUS
  <2>. QED  BY <2>1, <2>2 DEF Among
<1>. QED  BY <1>1

\* Its score is that of the empty alignment.
LEMMA FirstWeighs == Weighs(1, 1, <<>>, {<<>>})
<1> DEFINE U == {<<>>}
           g == [a \in U |-> PathProb(<<>>, a)]
<1>1. PathProb(<<>>, <<>>) = 1
  BY EmptyAlignment
<1>2. IsFiniteSet(U)
  BY FS_Singleton
<1>3. g \in [U -> Nat] /\ g[<<>>] = 1 /\ DOMAIN g = U
  BY <1>1
<1>4. PathSum(<<>>, U) = SumFunction(g)
  BY DEF PathSum
<1>5. <<>> \in U /\ U \ {<<>>} = {} /\ {} \in SUBSET U /\ U \in SUBSET U
  OBVIOUS
<1>. HIDE DEF U, g
<1>6. PICK t : Sums(g, U, t) /\ \A S \in SUBSET U : SumFunctionOnSet(g, S) = t[S]
  BY <1>2, <1>3, SumIs
<1>7. SumFunction(g) = t[U]
  BY <1>3, <1>5, <1>6 DEF SumFunction
<1>8. t[U] = g[<<>>] + t[U \ {<<>>}] /\ t[{}] = 0
  BY <1>5, <1>6 DEF Sums
<1>9. t[U] = 1
  <2>1. t[U \ {<<>>}] = 0
    BY <1>5, <1>8
  <2>2. t[U] = 1 + t[U \ {<<>>}]
    BY <1>3, <1>8
  <2>. QED  BY <2>1, <2>2
<1>10. IsBest(1, <<>>, U)
  BY <1>1 DEF IsBest, U
<1>11. Weighs(1, 1, <<>>, U)
  BY <1>4, <1>7, <1>9, <1>10 DEF Weighs
<1>. QED  BY <1>11 DEF U

\* What a state gives for the step to the next frame.
LEMMA Balanced ==
    ASSUME IInv
    PROVE  /\ Totals(Alignments) /\ Parts(Alignments) /\ Covers(Alignments)
           /\ heard \in Seq(Frames) /\ survivors \in Seq(SUBSET Seq(Words))
           /\ Len(survivors) = Len(heard) /\ Alignments = Among(heard, survivors)
           /\ abs_time_step = Len(heard) /\ abs_time_step \in Nat /\ Texted
<1> DEFINE A == Alignments
<1>1. /\ heard \in Seq(Frames) /\ survivors \in Seq(SUBSET Seq(Words))
      /\ Len(survivors) = Len(heard) /\ A = Among(heard, survivors)
      /\ abs_time_step = Len(heard)
  BY AlignmentsAre DEF IInv, TypeOK, Stands
<1>2. abs_time_step \in Nat
  BY <1>1
<1>3. Texted
  BY DEF IInv, TypeOK, Texted, Words
<1>. HIDE DEF A
<1>4. Totals(A) /\ Parts(A) /\ Covers(A)
  <2>1. CASE phase = "fresh"
    <3>1. heard = <<>> /\ cur_hyps = FirstHyps
      BY <2>1 DEF IInv, Stands
    <3>2. A = {<<>>}
      BY <1>1, <3>1, FirstAmong
    <3>3. Hyps = {<<>>}
      BY <3>1, FirstIs DEF Hyps
    <3>4. Texts(A, <<>>) = {<<>>} /\ Covers(A)
      BY <3>2, <3>3, EmptyAlignment DEF Texts, Covers
    <3> DEFINE h == FirstHyps[<<>>]
    <3>5. score(h) = 1 /\ viterbi_score(h) = 1
      <4>1. IsScore(h) /\ h.s = 1 /\ h.ns = 0 /\ h.v_s = 1 /\ h.v_ns = 1
        BY FirstIs
      <4>. HIDE DEF h
      <4>2. score(h) = h.s + h.ns /\ viterbi_score(h) = Larger(h.v_s, h.v_ns)
        BY <4>1, ScoreIs
      <4>3. 1 + 0 = 1 /\ Larger(1, 1) = 1
        BY DEF Larger
      <4>. QED  BY <4>1, <4>2, <4>3
    <3>6. Wholly(h, <<>>, heard, A)
      <4>. HIDE DEF h
      <4>. QED  BY <3>1, <3>4, <3>5, FirstWeighs DEF Wholly
    <3>7. Totals(A)
      BY <3>1, <3>3, <3>6 DEF Totals
    <3>8. Parts(A)
      BY <3>3 DEF Parts
    <3>. QED  BY <3>4, <3>7, <3>8
  <2>2. CASE phase # "fresh"
    <3>1. \A p \in Hyps : Exactly(cur_hyps[p], p, heard, A)
      BY <2>2 DEF IInv, Counted, A
    <3>2. A \subseteq Paths(heard) /\ IsFiniteSet(A)
      BY <1>1 DEF Among, IInv, A
    <3>3. ASSUME NEW p \in Hyps PROVE Wholly(cur_hyps[p], p, heard, A)
      <4>1. IsScore(cur_hyps[p])
        BY DEF IInv, Scores
      <4>. QED  BY <1>1, <3>1, <3>2, <4>1, WhollyIs
    <3>4. ASSUME NEW a \in A PROVE Collapsed(a) \in Hyps
      <4> DEFINE n == Len(heard)
      <4>1. heard # <<>> /\ survivors[n] = Hyps
        BY <2>2 DEF IInv, Stands
      <4>2. n \in Nat /\ n # 0
        BY <1>1, <4>1, EmptySeq
      <4>3. a \in Paths(heard) /\ a \in Seq(Tokens) /\ Len(a) = n
        BY <1>1, <3>2, PathSeq
      <4>4. n \in DOMAIN a
        BY <4>2, <4>3
      <4>5. Collapsed(SubSeq(a, 1, n)) \in survivors[n]
        BY <1>1, <4>4 DEF Among
      <4>6. SubSeq(a, 1, n) = a
        BY <4>3, SubSeqFull
      <4>. QED  BY <4>1, <4>5, <4>6
    <3>. QED  BY <3>1, <3>3, <3>4 DEF Totals, Parts, Covers
  <2>. QED  BY <2>1, <2>2
<1>. QED  BY <1>1, <1>2, <1>3, <1>4 DEF A

\* The hotwords that make the graph.
LEMMA CompiledIs ==
    ASSUME NEW list \in HotwordLists
    PROVE  Compiled(list) \in SUBSET
             {h \in [words : Seq(Tokens \ {blank}), score : Nat, at : {0}] : h.words # <<>>}
<1> DEFINE Hot == [words : Seq(Tokens \ {blank}), score : Nat, size : Nat, no_oov : BOOLEAN]
           Graph == {h \in [words : Seq(Tokens \ {blank}), score : Nat, at : {0}] : h.words # <<>>}
           count(i) == Cardinality({k \in 1..i : list[k].size <= max_context_length})
<1>1. list \in Seq(Hot)
  BY HotwordAssumption
<1>2. ASSUME NEW i \in DOMAIN list, list[i].size <= max_context_length, list[i].words # <<>>
      PROVE  [words |-> list[i].words, score |-> list[count(i)].score, at |-> 0] \in Graph
  <2> DEFINE V == {k \in 1..i : list[k].size <= max_context_length}
             c == Cardinality(V)
  <2>1. i \in Nat /\ i \in 1..Len(list) /\ i \in V
    BY <1>1, <1>2
  <2>2. IsFiniteSet(1..i) /\ Cardinality(1..i) = i
    BY <2>1, FS_Interval
  <2>3. V \subseteq 1..i
    OBVIOUS
  <2>. HIDE DEF V
  <2>4. IsFiniteSet(V) /\ Cardinality(V) <= i
    BY <2>2, <2>3, FS_Subset
  <2>5. c \in Nat /\ c # 0
    BY <2>1, <2>4, FS_CardinalityType, FS_EmptySet
  <2>6. c \in 1..Len(list)
    BY <2>1, <2>4, <2>5
  <2>. HIDE DEF c, Hot, Graph
  <2>7. list[c] \in Hot /\ list[i] \in Hot
    BY <1>1, <2>1, <2>6
  <2>8. list[c].score \in Nat /\ list[i].words \in Seq(Tokens \ {blank})
    BY <2>7 DEF Hot
  <2>9. [words |-> list[i].words, score |-> list[c].score, at |-> 0] \in Graph
    BY <1>2, <2>8 DEF Graph
  <2>. QED  BY <2>9 DEF c, V
<1>3. ASSUME NEW h \in Compiled(list) PROVE h \in Graph
  <2>1. PICK i \in DOMAIN list : /\ list[i].size <= max_context_length /\ list[i].words # <<>>
                                 /\ h = [words |-> list[i].words,
                                         score |-> list[count(i)].score, at |-> 0]
    BY DEF Compiled
  <2>. QED  BY <1>2, <2>1
<1>. QED  BY <1>3

-----------------------------------------------------------------------------
(* Every step keeps the invariant.                                          *)

\* The first hypotheses, with nothing heard: a fresh utterance.
LEMMA Fresh ==
    ASSUME /\ cur_hyps = FirstHyps /\ abs_time_step = 0 /\ phase = "fresh"
           /\ heard = <<>> /\ survivors = <<>>,
           context_graph \in SUBSET
             {h \in [words : Seq(Tokens \ {blank}), score : Nat, at : {0}] : h.words # <<>>}
    PROVE  IInv
<1>1. Hyps = {<<>>} /\ cur_hyps[<<>>] = FirstHyps[<<>>]
  BY FirstIs DEF Hyps
<1>2. TypeOK
  <2>1. Cardinality({<<>>}) = 1 /\ IsFiniteSet({<<>>})
    BY FS_Singleton
  <2>2. 1 <= second_beam_size
    BY BeamAssumption
  <2>3. <<>> \in Seq(Tokens \ {blank}) /\ <<>> \in Seq(Frames) /\ Len(<<>>) = 0
    OBVIOUS
  <2>. QED  BY <1>1, <2>1, <2>2, <2>3 DEF TypeOK
<1>3. Stands
  BY DEF Stands
<1> DEFINE h == FirstHyps[<<>>]
<1>4. /\ IsScore(h) /\ h.v_s = 1 /\ h.v_ns = 1 /\ h.cur_token_prob = 0
      /\ h.times_s = <<>> /\ h.times_ns = <<>>
  BY FirstIs
<1>. HIDE DEF h
<1>5. Scores
  BY <1>1, <1>4 DEF Scores, h
<1>6. Timely(h, <<>>, 0)
  <2>1. Len(<<>>) = 0
    OBVIOUS
  <2>. QED  BY <1>4, <2>1, IncreasingNone DEF Timely
<1>7. TimelyHyps
  BY <1>1, <1>6 DEF TimelyHyps, h
<1>8. Counted
  BY DEF Counted
<1>9. IsFiniteSet(Hyps)
  BY <1>1, FS_Singleton
<1>10. IsFiniteSet(Alignments)
  <2>1. Alignments = {<<>>}
    BY AlignmentsAre, FirstAmong
  <2>. QED  BY <2>1, FS_Singleton
<1>. QED  BY <1>2, <1>3, <1>5, <1>7, <1>8, <1>9, <1>10 DEF IInv

\* The same, of the state that a step leads to.
LEMMA FreshNext ==
    ASSUME /\ cur_hyps' = FirstHyps /\ abs_time_step' = 0 /\ phase' = "fresh"
           /\ heard' = <<>> /\ survivors' = <<>>,
           context_graph' \in SUBSET
             {h \in [words : Seq(Tokens \ {blank}), score : Nat, at : {0}] : h.words # <<>>}
    PROVE  IInv'
<1>1. Hyps' = {<<>>} /\ cur_hyps'[<<>>] = FirstHyps[<<>>]
  BY FirstIs DEF Hyps
<1>2. TypeOK'
  <2>1. Cardinality({<<>>}) = 1 /\ IsFiniteSet({<<>>})
    BY FS_Singleton
  <2>2. 1 <= second_beam_size
    BY BeamAssumption
  <2>3. <<>> \in Seq(Tokens \ {blank}) /\ <<>> \in Seq(Frames) /\ Len(<<>>) = 0
    OBVIOUS
  <2>. QED  BY <1>1, <2>1, <2>2, <2>3 DEF TypeOK
<1>3. Stands'
  BY DEF Stands
<1> DEFINE h == FirstHyps[<<>>]
<1>4. /\ IsScore(h) /\ h.v_s = 1 /\ h.v_ns = 1 /\ h.cur_token_prob = 0
      /\ h.times_s = <<>> /\ h.times_ns = <<>>
  BY FirstIs
<1>. HIDE DEF h
<1>5. Scores'
  BY <1>1, <1>4 DEF Scores, h
<1>6. Timely(h, <<>>, 0)
  <2>1. Len(<<>>) = 0
    OBVIOUS
  <2>. QED  BY <1>4, <2>1, IncreasingNone DEF Timely
<1>7. TimelyHyps'
  BY <1>1, <1>6 DEF TimelyHyps, h
<1>8. Counted'
  BY DEF Counted
<1>9. IsFiniteSet(Hyps')
  BY <1>1, FS_Singleton
<1>10. IsFiniteSet(Alignments')
  <2>1. Alignments' = Among(heard', survivors')
    BY DEF Alignments, Among, Paths
  <2>2. Alignments' = {<<>>}
    BY <2>1, FirstAmong
  <2>. QED  BY <2>2, FS_Singleton
<1>. QED  BY <1>2, <1>3, <1>5, <1>7, <1>8, <1>9, <1>10 DEF IInv

\* What a turn of CtcSearch's loop does: a beam of the next hypotheses is kept.
Turn(f, ahead, kept) ==
    /\ kept \subseteq NextHyps(TopK(f)) /\ IsFiniteSet(kept) /\ kept # {}
    /\ Cardinality(kept) <= second_beam_size
    /\ cur_hyps' = [p \in kept |-> Passed(p, f, TopK(f), p \in ahead)]
    /\ survivors' = Append(survivors, kept)

\* A turn of the loop keeps such a beam.
LEMMA SomeTurn ==
    ASSUME IInv, NEW f \in Frames, CtcSearchFrame(f)
    PROVE  \E ahead, kept : Turn(f, ahead, kept)
<1> DEFINE top == TopK(f)
           next(ahead) == [p \in NextHyps(top) |-> Passed(p, f, top, p \in ahead)]
<1>1. PICK ahead : \E kept \in Beams(next(ahead)) :
                     /\ cur_hyps' = Restrict(next(ahead), kept)
                     /\ survivors' = Append(survivors, kept)
  BY DEF CtcSearchFrame
<1> DEFINE after == next(ahead)
<1>2. PICK kept \in Beams(after) : /\ cur_hyps' = Restrict(after, kept)
                                   /\ survivors' = Append(survivors, kept)
  BY <1>1
<1>3. DOMAIN after = NextHyps(top)
  OBVIOUS
<1>4. IsFiniteSet(NextHyps(top)) /\ NextHyps(top) # {}
  <2>1. top # {} /\ top \subseteq Tokens /\ IsFiniteSet(top)
    BY TopKSome
  <2>2. Texted /\ abs_time_step \in Nat
    BY Balanced
  <2>3. IsFiniteSet(Hyps) /\ Hyps # {}
    BY DEF IInv, TypeOK
  <2>. HIDE DEF top
  <2>. QED  BY <2>1, <2>2, <2>3, NextHypsIs
<1>5. /\ kept \subseteq NextHyps(top) /\ IsFiniteSet(kept) /\ kept # {}
      /\ Cardinality(kept) <= second_beam_size
  <2>. HIDE DEF after
  <2>. QED  BY <1>2, <1>3, <1>4, BeamsAre
<1>6. Restrict(after, kept) = [p \in kept |-> Passed(p, f, top, p \in ahead)]
  <2>1. Restrict(after, kept) = [p \in kept |-> after[p]]
    BY DEF Restrict
  <2>2. \A p \in kept : after[p] = Passed(p, f, top, p \in ahead)
    BY <1>5
  <2>. HIDE DEF after
  <2>. QED  BY <2>1, <2>2
<1>. HIDE DEF top, after
<1>7. Turn(f, ahead, kept)
  BY <1>2, <1>5, <1>6 DEF Turn, top
<1>. QED  BY <1>7

\* A turn of the loop keeps the invariant: every hypothesis is exact again.
LEMMA FrameKeeps ==
    ASSUME IInv, NEW f \in Frames, CtcSearchFrame(f)
    PROVE  IInv'
<1> DEFINE top == TopK(f)
           fs == heard
           gs == Append(heard, f)
           A == Alignments
           now == abs_time_step
<1>1. PICK ahead, kept : Turn(f, ahead, kept)
  BY SomeTurn
<1> DEFINE B == Among(gs, Append(survivors, kept))
           r(p) == Passed(p, f, top, p \in ahead)
<1>2. abs_time_step' = now + 1 /\ phase' = "search" /\ heard' = gs /\ context_graph' = context_graph
  BY DEF CtcSearchFrame
<1>3. /\ kept \subseteq NextHyps(top) /\ IsFiniteSet(kept) /\ kept # {}
      /\ Cardinality(kept) <= second_beam_size
      /\ survivors' = Append(survivors, kept)
  BY <1>1 DEF Turn
<1>4. Hyps' = kept /\ \A p \in kept : cur_hyps'[p] = r(p)
  <2>1. cur_hyps' = [p \in kept |-> r(p)]
    BY <1>1 DEF Turn
  <2>. QED  BY <2>1 DEF Hyps
<1>5. /\ Totals(A) /\ Parts(A) /\ Covers(A)
      /\ fs \in Seq(Frames) /\ survivors \in Seq(SUBSET Seq(Words))
      /\ Len(survivors) = Len(fs) /\ A = Among(fs, survivors)
      /\ now = Len(fs) /\ now \in Nat /\ Texted
  BY Balanced
<1>6. Scores /\ TimelyHyps /\ IsFiniteSet(Hyps) /\ Hyps # {} /\ IsFiniteSet(A)
  BY DEF IInv, TypeOK
<1>7. top # {} /\ top \subseteq Tokens /\ IsFiniteSet(top)
  BY TopKSome
<1>8. \A p \in kept : p \in Seq(Words) /\ Len(p) <= now + 1
  <2>. HIDE DEF top
  <2>. QED  BY <1>3, <1>5, <1>6, <1>7, NextHypsIs
<1>9. kept \in SUBSET Seq(Words)
  BY <1>8
<1>10. Setting(f, kept, A, B)
  <2>1. Grown(fs, f, survivors, kept, A, B)
    BY <1>5, <1>9, GrownIs
  <2>. HIDE DEF A, B
  <2>. QED  BY <1>5, <1>6, <2>1 DEF Setting
<1>11. IsFiniteSet(B)
  BY <1>5, <1>6, <1>9, AmongFinite
<1>. HIDE DEF A, B
<1>12. ASSUME NEW p \in kept
       PROVE  IsScore(r(p)) /\ Exactly(r(p), p, gs, B) /\ Timely(r(p), p, now + 1)
  <2>1. p \in Seq(Words) /\ (p \in ahead) \in BOOLEAN
    BY <1>8
  <2>2. Exactly(r(p), p, gs, B) /\ IsScore(r(p))
    BY <1>10, <2>1, ExactStep
  <2>3. Timely(r(p), p, now + 1)
    BY <1>5, <1>6, <1>7, <2>1, PassedTimely
  <2>. QED  BY <2>2, <2>3
<1>13. gs \in Seq(Frames) /\ Len(gs) = now + 1 /\ gs # <<>>
  BY <1>5, AppendProperties
<1>14. /\ survivors' \in Seq(SUBSET Seq(Words)) /\ Len(survivors') = now + 1
       /\ survivors'[now + 1] = kept
  BY <1>3, <1>5, <1>9, AppendProperties
<1>. HIDE DEF top, gs, now, r
<1>15. TypeOK'
  <2>1. now + 1 > 0
    BY <1>5 DEF now
  <2>2. \A p \in kept : p \in Seq(Tokens \ {blank}) /\ Len(p) <= now + 1
    BY <1>8 DEF Words
  <2>3. context_graph \in SUBSET
          {h \in [words : Seq(Tokens \ {blank}), score : Nat, at : {0}] : h.words # <<>>}
    BY DEF IInv, TypeOK
  <2>. QED  BY <1>2, <1>3, <1>4, <1>13, <1>14, <2>1, <2>2, <2>3 DEF TypeOK
<1>16. Stands'
  BY <1>2, <1>4, <1>13, <1>14 DEF Stands
<1>17. Scores'
  BY <1>4, <1>12 DEF Scores
<1>18. TimelyHyps'
  BY <1>2, <1>4, <1>12 DEF TimelyHyps
<1>19. Alignments' = B
  <2>1. Alignments' = Among(heard', survivors')
    BY DEF Alignments, Among, Paths
  <2>. QED  BY <1>2, <1>3, <2>1 DEF B
<1>20. Counted'
  BY <1>2, <1>4, <1>12, <1>19 DEF Counted
<1>. QED  BY <1>3, <1>4, <1>11, <1>15, <1>16, <1>17, <1>18, <1>19, <1>20 DEF IInv

\* The end of CtcSearch writes contexts only.
LEMMA FinalizeKeeps ==
    ASSUME IInv, CtcFinalizeDecode
    PROVE  IInv'
<1>1. /\ cur_hyps' = [p \in Hyps |-> FinalContext(cur_hyps[p])] /\ phase = "search"
      /\ phase' = "done" /\ UNCHANGED <<context_graph, abs_time_step, heard, survivors>>
  BY DEF CtcFinalizeDecode
<1>2. Hyps' = Hyps /\ \A p \in Hyps : cur_hyps'[p] = FinalContext(cur_hyps[p])
  BY <1>1 DEF Hyps
<1>3. ASSUME NEW p \in Hyps
      PROVE  IsScore(cur_hyps'[p]) /\ SameButContext(cur_hyps[p], cur_hyps'[p])
  <2> DEFINE h == cur_hyps[p]
             m == cur_hyps'[p]
  <2>1. IsScore(h)
    BY DEF IInv, Scores
  <2>2. m = h \/ m = UpdateContext(h, h, Epsilon)
    BY <1>2 DEF FinalContext
  <2>. HIDE DEF h, m
  <2>3. IsScore(m) /\ SameButContext(h, m)
    <3>1. CASE m = h
      BY <2>1, <3>1 DEF SameButContext
    <3>2. CASE m = UpdateContext(h, h, Epsilon)
      BY <2>1, <3>2, ContextIs
    <3>. QED  BY <2>2, <3>1, <3>2
  <2>. QED  BY <2>3 DEF h, m
<1>4. TypeOK'
  BY <1>1, <1>2 DEF IInv, TypeOK
<1>5. Stands'
  BY <1>1, <1>2 DEF IInv, Stands
<1>6. Scores'
  BY <1>2, <1>3 DEF Scores
<1>7. TimelyHyps'
  <2>1. ASSUME NEW p \in Hyps PROVE Timely(cur_hyps'[p], p, abs_time_step)
    <3>1. Timely(cur_hyps[p], p, abs_time_step)
      BY DEF IInv, TimelyHyps
    <3>. QED  BY <1>3, <3>1 DEF Timely, SameButContext
  <2>. QED  BY <1>1, <1>2, <2>1 DEF TimelyHyps
<1>8. Alignments' = Alignments
  BY <1>1 DEF Alignments
<1>9. Counted'
  <2>1. ASSUME NEW p \in Hyps PROVE Exactly(cur_hyps'[p], p, heard, Alignments)
    <3>1. Exactly(cur_hyps[p], p, heard, Alignments)
      BY <1>1 DEF IInv, Counted
    <3>. QED  BY <1>3, <3>1 DEF Exactly, SameButContext
  <2>. QED  BY <1>1, <1>2, <1>8, <2>1 DEF Counted
<1>. QED  BY <1>2, <1>4, <1>5, <1>6, <1>7, <1>8, <1>9 DEF IInv

-----------------------------------------------------------------------------
\* The invariant: the scores are sums over alignments, and the times are in order.
THEOREM Invariance == Spec => []IInv
<1>1. Init => IInv
  BY Fresh DEF Init, NoGraph
<1>2. IInv /\ [Next]_vars => IInv'
  <2>. SUFFICES ASSUME IInv, [Next]_vars PROVE IInv'
    OBVIOUS
  <2>1. CASE StartUtterance
    <3>1. context_graph' = context_graph
      BY <2>1 DEF StartUtterance
    <3>2. context_graph \in SUBSET
            {h \in [words : Seq(Tokens \ {blank}), score : Nat, at : {0}] : h.words # <<>>}
      BY DEF IInv, TypeOK
    <3>. QED  BY <2>1, <3>1, <3>2, FreshNext DEF StartUtterance
  <2>2. ASSUME NEW list \in HotwordLists, LoadHwsRes(list) PROVE IInv'
    <3>1. context_graph' = Compiled(list)
          /\ UNCHANGED <<cur_hyps, abs_time_step, phase, heard, survivors>>
      BY <2>2 DEF LoadHwsRes
    <3>2. Compiled(list) \in SUBSET
            {h \in [words : Seq(Tokens \ {blank}), score : Nat, at : {0}] : h.words # <<>>}
      BY CompiledIs
    <3>3. TypeOK'
      BY <3>1, <3>2 DEF IInv, TypeOK, Hyps
    <3>. QED  BY <3>1, <3>3 DEF IInv, Stands, Scores, TimelyHyps, Counted, Hyps, Alignments
  <2>3. CASE UnloadHwsRes
    <3>1. context_graph' = {}
          /\ UNCHANGED <<cur_hyps, abs_time_step, phase, heard, survivors>>
      BY <2>3 DEF UnloadHwsRes, NoGraph
    <3>2. TypeOK'
      BY <3>1 DEF IInv, TypeOK, Hyps
    <3>. QED  BY <3>1, <3>2 DEF IInv, Stands, Scores, TimelyHyps, Counted, Hyps, Alignments
  <2>4. ASSUME NEW f \in Frames, CtcSearchFrame(f) PROVE IInv'
    BY <2>4, FrameKeeps
  <2>5. CASE CtcFinalizeDecode
    BY <2>5, FinalizeKeeps
  <2>6. CASE UNCHANGED vars
    BY <2>6 DEF vars, IInv, TypeOK, Stands, Scores, TimelyHyps, Counted, Hyps, Alignments
  <2>. QED  BY <2>1, <2>2, <2>3, <2>4, <2>5, <2>6 DEF Next
<1>. QED  BY <1>1, <1>2, PTL DEF Spec

\* The type of every variable.
THEOREM TypeCorrect == Spec => []TypeOK
<1>1. IInv => TypeOK
  BY DEF IInv
<1>. QED  BY <1>1, Invariance, PTL

\* The probability of an alignment is that of a path of the frames heard.
LEMMA ProbIs == \A a : Len(a) = Len(heard) => Prob(a) = PathProb(heard, a)
BY DEF Prob, PathProb

\* Pruning is all the search loses: the scores of a text are the sums, and the
\* best, over its alignments that no beam has cut.
THEOREM ExactCorrect == Spec => []Exact
<1>1. ASSUME IInv PROVE Exact
  <2>. SUFFICES ASSUME phase # "fresh", NEW p \in Hyps
       PROVE  LET all == {a \in Alignments : [b \in Alignments |-> Collapsed(b)][a] = p}
                  blanked == {a \in all : Last(a) = blank}
              IN  /\ cur_hyps[p].s = ProbSum(blanked)
                  /\ cur_hyps[p].ns = ProbSum(all \ blanked)
                  /\ cur_hyps[p].v_s = ProbMax(blanked)
                  /\ cur_hyps[p].v_ns = ProbMax(all \ blanked)
    BY DEF Exact
  <2> DEFINE A == Alignments
             all == {a \in A : [b \in A |-> Collapsed(b)][a] = p}
             blanked == {a \in all : Last(a) = blank}
  <2>1. A = Among(heard, survivors) /\ heard \in Seq(Frames) /\ IsFiniteSet(A)
    BY <1>1, AlignmentsAre DEF IInv, TypeOK
  <2>2. A \subseteq Paths(heard)
    BY <2>1 DEF Among
  <2>3. Exactly(cur_hyps[p], p, heard, A)
    BY <1>1 DEF IInv, Counted
  <2>. HIDE DEF A
  <2>4. all = Texts(A, p)
    BY DEF Texts
  <2>5. blanked = BlankEnds(A, p) /\ all \ blanked = TokenEnds(A, p)
    BY <2>4 DEF BlankEnds, TokenEnds
  <2>6. BlankEnds(A, p) \subseteq A /\ TokenEnds(A, p) \subseteq A
    BY DEF BlankEnds, TokenEnds, Texts
  <2>7. ASSUME NEW S, S \subseteq A, NEW x, NEW v, Weighs(x, v, heard, S)
        PROVE  x = ProbSum(S) /\ v = ProbMax(S)
    <3>1. S \subseteq Paths(heard) /\ IsFiniteSet(S)
      BY <2>1, <2>2, <2>7, FS_Subset
    <3>2. \A a \in S : Prob(a) = PathProb(heard, a)
      BY <2>1, <3>1, PathSeq, ProbIs
    <3>3. ProbSum(S) = PathSum(heard, S)
      <4>1. [a \in S |-> Prob(a)] = [a \in S |-> PathProb(heard, a)]
        BY <3>2
      <4>. QED  BY <4>1 DEF ProbSum, PathSum
    <3>4. ProbMax(S) = Max({0} \cup {PathProb(heard, a) : a \in S})
      <4>1. {Prob(a) : a \in S} = {PathProb(heard, a) : a \in S}
        BY <3>2
      <4>. QED  BY <4>1 DEF ProbMax
    <3>5. x = PathSum(heard, S) /\ IsBest(v, heard, S)
      BY <2>7 DEF Weighs
    <3>6. Max({0} \cup {PathProb(heard, a) : a \in S}) = v
      BY <2>1, <3>1, <3>5, BestIs
    <3>. QED  BY <3>3, <3>4, <3>5, <3>6
  <2>. HIDE DEF all, blanked
  <2>8. /\ cur_hyps[p].s = ProbSum(blanked) /\ cur_hyps[p].v_s = ProbMax(blanked)
        /\ cur_hyps[p].ns = ProbSum(all \ blanked) /\ cur_hyps[p].v_ns = ProbMax(all \ blanked)
    BY <2>3, <2>5, <2>6, <2>7 DEF Exactly
  <2>. QED  BY <2>8 DEF all, blanked, A
<1>. QED  BY <1>1, Invariance, PTL

-----------------------------------------------------------------------------
\* The times of a text are in order and within the utterance, and there is one
\* for each of its tokens as soon as one of its paths has a probability.
TimesInOrder ==
    \A p \in Hyps :
      LET t == times(cur_hyps[p])
      IN  /\ \A j \in DOMAIN t : t[j] \in 0..abs_time_step - 1
          /\ \A j \in DOMAIN t : j > 1 => t[j - 1] < t[j]
          /\ viterbi_score(cur_hyps[p]) > 0 => Len(t) = Len(p)
          /\ p # <<>> /\ cur_hyps[p].v_ns > 0 => cur_hyps[p].times_ns # <<>>

\* So they are in every state: the last time that Repeated replaces is there
\* (CHECK_GT in CtcSearch).
THEOREM TimesCorrect == Spec => []TimesInOrder
<1>1. ASSUME IInv PROVE TimesInOrder
  <2>1. ASSUME NEW p \in Hyps
        PROVE  /\ \A j \in DOMAIN times(cur_hyps[p]) :
                    /\ times(cur_hyps[p])[j] \in 0..abs_time_step - 1
                    /\ j > 1 => times(cur_hyps[p])[j - 1] < times(cur_hyps[p])[j]
               /\ viterbi_score(cur_hyps[p]) > 0 => Len(times(cur_hyps[p])) = Len(p)
               /\ p # <<>> /\ cur_hyps[p].v_ns > 0 => cur_hyps[p].times_ns # <<>>
    <3> DEFINE h == cur_hyps[p]
               t == times(h)
    <3>1. IsScore(h) /\ Timely(h, p, abs_time_step)
      BY <1>1 DEF IInv, Scores, TimelyHyps
    <3>2. p \in Seq(Words) /\ abs_time_step \in Nat
      BY <1>1, Balanced DEF Texted
    <3>. HIDE DEF h
    <3>3. Increasing(t, abs_time_step) /\ (viterbi_score(h) > 0 => Len(t) = Len(p))
      BY <3>1, TimesIs
    <3>4. p # <<>> /\ h.v_ns > 0 => h.times_ns # <<>>
      <4>1. SUFFICES ASSUME p # <<>>, h.v_ns > 0, h.times_ns = <<>> PROVE FALSE
        OBVIOUS
      <4>2. Len(h.times_ns) = Len(p)
        BY <3>1, <4>1 DEF Timely
      <4>3. Len(p) = 0
        BY <4>1, <4>2
      <4>. QED  BY <3>2, <4>1, <4>3, EmptySeq
    <3>. HIDE DEF t
    <3>5. ASSUME NEW j \in DOMAIN t
          PROVE  t[j] \in 0..abs_time_step - 1 /\ (j > 1 => t[j - 1] < t[j])
      <4>1. t \in Seq(Nat) /\ j \in 1..Len(t)
        BY <3>3 DEF Increasing
      <4>2. t[j] \in Nat /\ t[j] < abs_time_step /\ (j > 1 => t[j - 1] < t[j])
        BY <3>3, <4>1 DEF Increasing
      <4>. QED  BY <3>2, <4>2
    <3>. QED  BY <3>3, <3>4, <3>5 DEF h, t
  <2>. QED  BY <2>1 DEF TimesInOrder
<1>. QED  BY <1>1, Invariance, PTL

-----------------------------------------------------------------------------
(* The scores of hotwords: what is taken back was given before.              *)

\* Powers of two are positive.
LEMMA TwoToNat == \A n \in Nat : TwoTo(n) \in Nat /\ TwoTo(n) > 0
<1>. SUFFICES ASSUME NEW n \in Nat PROVE TwoTo(n) \in Nat /\ TwoTo(n) > 0
  OBVIOUS
<1> DEFINE T == Nat \ {0}
           step == [ix \in (1..n) \X T |-> 2 * ix[2]]
           Eq(p) == p = [i \in 0..n |-> IF i = 0 THEN 1 ELSE 2 * p[i - 1]]
           h == CHOOSE p : Eq(p)
<1>1. step \in [(1..n) \X T -> T] /\ 1 \in T
  <2>1. ASSUME NEW ix \in (1..n) \X T PROVE 2 * ix[2] \in T
    <3>1. ix[2] \in Nat /\ ix[2] # 0
      OBVIOUS
    <3>. QED  BY <3>1
  <2>. QED  BY <2>1
<1>2. ASSUME NEW i \in 1..n, NEW x \in T PROVE step[<<i, x>>] = 2 * x
  OBVIOUS
<1>. HIDE DEF step
<1>3. PICK g \in [0..n -> T] : Steps(g, n, 1, step)
  BY <1>1, SomeSteps
<1>4. ASSUME NEW i \in 0..n PROVE g[i] = IF i = 0 THEN 1 ELSE 2 * g[i - 1]
  <2>1. CASE i = 0
    BY <1>3, <2>1 DEF Steps
  <2>2. CASE i # 0
    <3>1. i \in 1..n /\ i - 1 \in 0..n
      BY <2>2
    <3>2. g[i] = step[<<i, g[i - 1]>>] /\ g[i - 1] \in T
      BY <1>3, <3>1 DEF Steps
    <3>. QED  BY <1>2, <2>2, <3>1, <3>2
  <2>. QED  BY <2>1, <2>2
<1>5. Eq(g)
  <2>1. g = [i \in 0..n |-> g[i]]
    OBVIOUS
  <2>. QED  BY <1>4, <2>1
<1>6. Eq(h)
  BY <1>5
<1>7. TwoTo(n) = h[n]
  BY DEF TwoTo
<1>. HIDE DEF h
<1> DEFINE H == {k \in Nat : h[k] \in Nat /\ h[k] > 0}
<1>8. 0 \in H
  BY <1>6
<1>9. ASSUME NEW k \in 0..n - 1, k \in H PROVE k + 1 \in H
  <2>1. k + 1 \in Nat /\ k + 1 \in 0..n /\ (k + 1) - 1 = k /\ k + 1 # 0
    OBVIOUS
  <2>2. h[k + 1] = 2 * h[k]
    BY <1>6, <2>1
  <2>3. h[k] \in Nat /\ h[k] > 0
    BY <1>9
  <2>4. h[k + 1] \in Nat /\ h[k + 1] > 0
    BY <2>2, <2>3
  <2>. QED  BY <2>1, <2>4
<1>10. H \subseteq Nat
  OBVIOUS
<1>. HIDE DEF H
<1>11. \A k \in 0..n : k \in H
  BY <1>8, <1>9, <1>10, UpTo
<1>12. n \in H
  BY <1>11
<1>. QED  BY <1>7, <1>12 DEF H

\* A set of integers that is bounded below has a least one.
LEMMA MinIs ==
    ASSUME NEW V, V \subseteq Int, V # {}, NEW c \in Nat, \A v \in V : 0 <= v + c
    PROVE  Min(V) \in V /\ \A v \in V : Min(V) <= v
<1> DEFINE T == {v + c : v \in V}
           m == CHOOSE x \in V : \A y \in V : x =< y
<1>1. T \subseteq Nat /\ T # {}
  <2>1. ASSUME NEW v \in V PROVE v + c \in Nat
    <3>1. v \in Int /\ 0 <= v + c
      OBVIOUS
    <3>. QED  BY <3>1
  <2>2. PICK v \in V : TRUE
    OBVIOUS
  <2>3. v + c \in T
    BY <2>2
  <2>. QED  BY <2>1, <2>3
<1>2. PICK n \in T : \A k \in T : n <= k
  <2>. HIDE DEF T
  <2>. QED  BY <1>1, Least
<1>3. PICK x \in V : n = x + c
  BY <1>2
<1>4. \A y \in V : x =< y
  <2>1. ASSUME NEW y \in V PROVE x =< y
    <3>1. y + c \in T
      OBVIOUS
    <3>2. x + c <= y + c
      BY <1>2, <1>3, <3>1
    <3>. QED  BY <3>2
  <2>. QED  BY <2>1
<1>5. m \in V /\ \A y \in V : m =< y
  BY <1>4
<1>. HIDE DEF m
<1>6. Min(V) = m
  BY DEF Min, m
<1>. QED  BY <1>5, <1>6

\* A place within a hotword: Start, or behind its first tokens.
Places == [words : Seq(Words), score : Nat, at : Nat]
Within(n) == n = Start \/ n.at < Len(n.words)
ReadScore(n) == SumFunction([i \in 1..n.at |-> TokenScore(n, i)])

\* A token has a score that is not negative.
LEMMA TokenScoreNat ==
    ASSUME NEW n \in Places, NEW i \in 1..Len(n.words)
    PROVE  TokenScore(n, i) \in Nat
<1>1. n.words \in Seq(Words) /\ n.score \in Nat
  BY DEF Places
<1>2. n.words[i] \in Tokens
  BY <1>1 DEF Words
<1>3. UTF8StringLength[n.words[i]] \in Nat
  BY <1>2, LengthAssumption
<1>. QED  BY <1>1, <1>3, Distributes DEF TokenScore

\* Nothing of a hotword is read yet.
LEMMA StartIs == Start \in Places /\ Within(Start) /\ ReadScore(Start) = 0
<1>1. Start \in Places /\ Start.at = 0
  BY DEF Start, Places
<1> DEFINE g == [i \in 1..Start.at |-> TokenScore(Start, i)]
<1>2. IsFiniteSet({}) /\ 1..0 = {}
  BY FS_EmptySet
<1>3. g \in [{} -> Nat]
  BY <1>1, <1>2
<1>. HIDE DEF g
<1>4. SumFunction(g) = 0
  BY <1>2, <1>3, SumNat
<1>. QED  BY <1>1, <1>4 DEF Within, ReadScore, g

\* A hotword that is not begun owes nothing, and a token more its own score.
LEMMA ReadMore ==
    ASSUME NEW n \in Places, n.at < Len(n.words)
    PROVE  /\ ReadScore(n) \in Nat /\ (n.at = 0 => ReadScore(n) = 0)
           /\ [n EXCEPT !.at = @ + 1] \in Places
           /\ ReadScore([n EXCEPT !.at = @ + 1]) = ReadScore(n) + TokenScore(n, n.at + 1)
<1> DEFINE k == n.at
           l == Len(n.words)
           m == [n EXCEPT !.at = @ + 1]
           U == 1..k + 1
           g == [i \in U |-> TokenScore(n, i)]
           gn == [i \in 1..k |-> TokenScore(n, i)]
<1>1. k \in Nat /\ l \in Nat /\ n.words \in Seq(Words) /\ k + 1 <= l
  BY DEF Places
<1>2. m \in Places /\ m.at = k + 1 /\ m.words = n.words /\ m.score = n.score
  BY DEF Places
<1>3. \A i \in U : TokenScore(n, i) \in Nat
  BY <1>1, TokenScoreNat
<1>4. g \in [U -> Nat] /\ gn \in [1..k -> Nat]
  BY <1>1, <1>3
<1>5. IsFiniteSet(U) /\ IsFiniteSet(1..k)
  BY <1>1, FS_Interval
<1>6. k + 1 \in U /\ U \ {k + 1} = 1..k /\ 1..k \in SUBSET U /\ U \in SUBSET U
  BY <1>1
<1>7. [i \in 1..m.at |-> TokenScore(m, i)] = g
  BY <1>2 DEF TokenScore
<1>8. Agree(gn, g, 1..k)
  BY <1>6 DEF Agree
<1>9. DOMAIN g = U /\ g[k + 1] = TokenScore(n, k + 1)
  BY <1>6
<1>10. ReadScore(n) = SumFunction(gn) /\ ReadScore(m) = SumFunction(g)
  BY <1>7 DEF ReadScore
<1>. HIDE DEF g, gn, U, m, k, l
<1>11. SumFunction(gn) = SumFunctionOnSet(g, 1..k)
  BY <1>4, <1>5, <1>6, <1>8, SumAgrees
<1>12. PICK t : Sums(g, U, t) /\ \A V \in SUBSET U : SumFunctionOnSet(g, V) = t[V]
  BY <1>4, <1>5, SumIs
<1>13. SumFunction(g) = t[U]
  BY <1>6, <1>9, <1>12 DEF SumFunction
<1>14. SumFunction(gn) = t[1..k]
  BY <1>6, <1>11, <1>12
<1>15. t[U] = g[k + 1] + t[U \ {k + 1}] /\ t[1..k] \in Nat
  BY <1>6, <1>12 DEF Sums
<1>16. g[k + 1] \in Nat
  BY <1>4, <1>6
<1>17. t[U] = t[1..k] + g[k + 1]
  <2>1. t[U \ {k + 1}] = t[1..k]
    BY <1>6
  <2>2. t[U] = g[k + 1] + t[1..k]
    BY <1>15, <2>1
  <2>. QED  BY <1>15, <1>16, <2>2
<1>18. k = 0 => SumFunction(gn) = 0
  <2>1. k = 0 => 1..k = {}
    OBVIOUS
  <2>. QED  BY <1>4, <1>5, <2>1, SumNat
<1>19. ReadScore(n) \in Nat /\ (k = 0 => ReadScore(n) = 0)
  BY <1>10, <1>14, <1>15, <1>18
<1>20. ReadScore(m) = ReadScore(n) + TokenScore(n, k + 1)
  BY <1>9, <1>10, <1>13, <1>14, <1>17
<1>. QED  BY <1>2, <1>19, <1>20 DEF m, k

\* The score c covers what reading to place n, with r still owed, has earned.
Covered(c, n, r) == n \in Places /\ Within(n) /\ r \in Int /\ ReadScore(n) <= c + r
IsGraph(graph) ==
    graph \in SUBSET {h \in [words : Seq(Words), score : Nat, at : {0}] : h.words # <<>>}
Paid(c, state) ==
    /\ c \in Nat
    /\ \A nr \in state : Covered(c, nr[1], nr[2]) /\ nr[2] >= 0

\* What was read of a hotword has such a score too.
LEMMA ReadScoreNat ==
    ASSUME NEW n \in Places, Within(n)
    PROVE  ReadScore(n) \in Nat
<1>1. CASE n = Start
  <2>1. ReadScore(Start) = 0
    BY StartIs
  <2>. QED  BY <1>1, <2>1
<1>2. CASE n.at < Len(n.words)
  BY <1>2, ReadMore
<1>. QED  BY <1>1, <1>2 DEF Within

\* Reading a token earns its score, and escaping takes back what is earned.
LEMMA ArcCovers ==
    ASSUME NEW graph, IsGraph(graph), NEW c \in Nat, NEW n, NEW r, Covered(c, n, r), r >= 0,
           NEW a \in Arcs(graph, n)
    PROVE  Covered(c, a.to, r + a.weight)
<1>1. r \in Nat /\ n \in Places /\ Within(n) /\ ReadScore(n) <= c + r /\ ReadScore(n) \in Nat
  BY ReadScoreNat DEF Covered
<1>2. ASSUME NEW m \in Places, m.at < Len(m.words), ReadScore(m) <= c + r
      PROVE  Covered(c, ReadArc(m).to, r + ReadArc(m).weight)
  <2> DEFINE t == TokenScore(m, m.at + 1)
             more == [m EXCEPT !.at = @ + 1]
  <2>1. m.at \in Nat /\ m.words \in Seq(Words) /\ m.at + 1 \in 1..Len(m.words)
    BY <1>2 DEF Places
  <2>2. t \in Nat
    BY <2>1, TokenScoreNat
  <2>3. ReadScore(m) \in Nat /\ more \in Places /\ ReadScore(more) = ReadScore(m) + t
    BY <1>2, ReadMore
  <2>4. /\ ReadArc(m).to = IF m.at + 1 = Len(m.words) THEN Start ELSE more
        /\ ReadArc(m).weight = t
    BY DEF ReadArc
  <2>5. more.at = m.at + 1 /\ more.words = m.words
    BY DEF Places
  <2>6. r + t \in Int
    BY <1>1, <2>2
  <2>. HIDE DEF t, more
  <2>7. CASE m.at + 1 = Len(m.words)
    <3>1. 0 <= c + (r + t)
      BY <1>1, <2>2
    <3>2. Covered(c, Start, r + t)
      BY <2>6, <3>1, StartIs DEF Covered
    <3>. QED  BY <2>4, <2>7, <3>2
  <2>8. CASE m.at + 1 # Len(m.words)
    <3>1. Within(more)
      BY <2>1, <2>5, <2>8 DEF Within
    <3>2. ReadScore(m) <= c + r
      BY <1>2
    <3>3. ReadScore(m) + t <= c + (r + t)
      BY <1>1, <2>2, <2>3, <3>2
    <3>4. Covered(c, more, r + t)
      BY <2>3, <2>6, <3>1, <3>3 DEF Covered
    <3>. QED  BY <2>4, <2>8, <3>4
  <2>. QED  BY <2>7, <2>8
<1>3. CASE n = Start
  <2>1. PICK h \in graph : a = ReadArc(h)
    BY <1>3 DEF Arcs
  <2>2. h \in [words : Seq(Words), score : Nat, at : {0}] /\ h.words # <<>>
    BY DEF IsGraph
  <2>3. h \in Places /\ h.at = 0 /\ h.words \in Seq(Words)
    BY <2>2 DEF Places
  <2>4. h.at < Len(h.words)
    BY <2>2, <2>3
  <2>5. ReadScore(h) = 0
    BY <2>3, <2>4, ReadMore
  <2>6. ReadScore(h) <= c + r
    BY <1>1, <2>5
  <2>. QED  BY <1>2, <2>1, <2>3, <2>4, <2>6
<1>4. CASE n # Start
  <2>1. n.at < Len(n.words)
    BY <1>1, <1>4 DEF Within
  <2>2. a = ReadArc(n) \/ a = EscapeArc(n)
    BY <1>4 DEF Arcs
  <2>3. CASE a = ReadArc(n)
    BY <1>1, <1>2, <2>1, <2>3
  <2>4. CASE a = EscapeArc(n)
    <3>1. a.to = Start /\ a.weight = -ReadScore(n)
      BY <2>4 DEF EscapeArc, ReadScore
    <3>2. r + -ReadScore(n) \in Int /\ 0 <= c + (r + -ReadScore(n))
      BY <1>1
    <3>. QED  BY <3>1, <3>2, StartIs DEF Covered
  <2>. QED  BY <2>2, <2>3, <2>4
<1>. QED  BY <1>3, <1>4

\* So is every place that a label leads to.
LEMMA ReachedCovers ==
    ASSUME NEW graph, IsGraph(graph), NEW c, NEW state, Paid(c, state), NEW label,
           NEW nr \in Reached(graph, state, label)
    PROVE  Covered(c, nr[1], nr[2]) /\ 0 <= nr[2] + c /\ nr[2] \in Int
<1>1. PICK mr \in state : nr \in {<<a.to, mr[2] + a.weight>> :
                                    a \in {a \in Arcs(graph, mr[1]) : a.label = label}}
  BY DEF Reached
<1>2. PICK a \in Arcs(graph, mr[1]) : nr = <<a.to, mr[2] + a.weight>>
  BY <1>1
<1>3. c \in Nat /\ Covered(c, mr[1], mr[2]) /\ mr[2] >= 0
  BY DEF Paid
<1>4. Covered(c, nr[1], nr[2])
  BY <1>2, <1>3, ArcCovers
<1>5. ReadScore(nr[1]) \in Nat /\ nr[2] \in Int /\ ReadScore(nr[1]) <= c + nr[2]
  BY <1>4, ReadScoreNat DEF Covered
<1>. QED  BY <1>3, <1>4, <1>5

\* One word more: the score that has been given never falls below 0.
LEMMA StepPaid ==
    ASSUME NEW graph, IsGraph(graph), NEW c, NEW state, Paid(c, state), NEW label,
           Reached(graph, state, label) # {}
    PROVE  /\ Paid(c + ArcWeight(graph, state, label), ArcTarget(graph, state, label))
           /\ c + ArcWeight(graph, state, label) \in Nat
<1> DEFINE reached == Reached(graph, state, label)
           V == {nr[2] : nr \in reached}
           w == ArcWeight(graph, state, label)
           L(n) == {nr[2] : nr \in {nr \in reached : nr[1] = n}}
<1>1. c \in Nat
  BY DEF Paid
<1>2. \A nr \in reached : Covered(c, nr[1], nr[2]) /\ 0 <= nr[2] + c /\ nr[2] \in Int
  BY ReachedCovers
<1>3. V \subseteq Int /\ V # {} /\ \A v \in V : 0 <= v + c
  BY <1>2
<1>4. w = Min(V)
  BY DEF ArcWeight
<1>. HIDE DEF w
<1>5. w \in V /\ \A v \in V : w <= v
  <2>. HIDE DEF V
  <2>. QED  BY <1>1, <1>3, <1>4, MinIs
<1>6. w \in Int /\ 0 <= w + c
  BY <1>3, <1>5
<1>7. c + w \in Nat
  BY <1>1, <1>6
<1>8. ASSUME NEW nr \in reached
      PROVE  /\ Covered(c + w, nr[1], Min(L(nr[1])) - w)
             /\ Min(L(nr[1])) - w >= 0
  <2> DEFINE n == nr[1]
             l == Min(L(n))
  <2>1. L(n) \subseteq Int /\ L(n) # {} /\ \A v \in L(n) : 0 <= v + c
    BY <1>2
  <2>2. l \in L(n)
    <3>. HIDE DEF L
    <3>. QED  BY <1>1, <2>1, MinIs
  <2>. HIDE DEF l
  <2>3. PICK mr \in reached : mr[1] = n /\ mr[2] = l
    BY <2>2
  <2>4. Covered(c, n, l) /\ l \in Int
    BY <1>2, <2>3
  <2>5. l \in V
    BY <2>3
  <2>6. w <= l
    BY <1>5, <2>5
  <2>7. l - w \in Int /\ l - w >= 0 /\ (c + w) + (l - w) = c + l
    BY <1>1, <1>6, <2>4, <2>6
  <2>8. Covered(c + w, n, l - w)
    <3>1. ReadScore(n) <= (c + w) + (l - w)
      BY <2>4, <2>7 DEF Covered
    <3>. QED  BY <2>4, <2>7, <3>1 DEF Covered
  <2>. QED  BY <2>7, <2>8 DEF l
<1>9. ArcTarget(graph, state, label) = {<<nr[1], Min(L(nr[1])) - w>> : nr \in reached}
  BY DEF ArcTarget, w
<1>. HIDE DEF L, V, reached
<1>10. ASSUME NEW mr \in ArcTarget(graph, state, label)
       PROVE  Covered(c + w, mr[1], mr[2]) /\ mr[2] >= 0
  <2>1. PICK nr \in reached : mr = <<nr[1], Min(L(nr[1])) - w>>
    BY <1>9
  <2>2. mr[1] = nr[1] /\ mr[2] = Min(L(nr[1])) - w
    BY <2>1
  <2>. QED  BY <1>8, <2>2
<1>11. Paid(c + w, ArcTarget(graph, state, label))
  BY <1>7, <1>10 DEF Paid
<1>. QED  BY <1>7, <1>11 DEF w

\* At the root nothing is owed.
LEMMA RootPaid == \A c \in Nat : Paid(c, Root)
<1>1. ASSUME NEW c \in Nat PROVE Paid(c, Root)
  <2>1. \A nr \in Root : nr[1] = Start /\ nr[2] = 0
    BY DEF Root
  <2>2. Covered(c, Start, 0)
    BY StartIs DEF Covered
  <2>. QED  BY <2>1, <2>2 DEF Paid
<1>. QED  BY <1>1

\* GetNextState, whether the word is read or not.
LEMMA NextPaid ==
    ASSUME NEW graph, IsGraph(graph), NEW c, NEW state, Paid(c, state), NEW word
    PROVE  Paid(c + GetNextState(graph, state, word).score, GetNextState(graph, state, word).state)
<1>1. c \in Nat /\ c + 0 = c
  BY DEF Paid
<1>2. CASE word # Epsilon /\ Reached(graph, state, word) # {}
  <2>1. Paid(c + ArcWeight(graph, state, word), ArcTarget(graph, state, word))
    BY <1>2, StepPaid
  <2>2. /\ GetNextState(graph, state, word).state = ArcTarget(graph, state, word)
        /\ GetNextState(graph, state, word).score = ArcWeight(graph, state, word)
    BY <1>2 DEF GetNextState
  <2>. QED  BY <2>1, <2>2
<1>3. CASE ~(word # Epsilon /\ Reached(graph, state, word) # {})
  <2>1. /\ GetNextState(graph, state, word).state = Root
        /\ GetNextState(graph, state, word).score =
             IF Reached(graph, state, Epsilon) = {} THEN 0 ELSE ArcWeight(graph, state, Epsilon)
    BY <1>3 DEF GetNextState
  <2>2. CASE Reached(graph, state, Epsilon) = {}
    <3>1. GetNextState(graph, state, word).score = 0
      BY <2>1, <2>2
    <3>. QED  BY <1>1, <2>1, <3>1, RootPaid
  <2>3. CASE Reached(graph, state, Epsilon) # {}
    <3>1. c + ArcWeight(graph, state, Epsilon) \in Nat
      BY <2>3, StepPaid
    <3>2. GetNextState(graph, state, word).score = ArcWeight(graph, state, Epsilon)
      BY <2>1, <2>3
    <3>. QED  BY <2>1, <3>1, <3>2, RootPaid
  <2>. QED  BY <2>2, <2>3
<1>. QED  BY <1>2, <1>3

\* The scores that the hypotheses have for hotwords.
PaidHyps == \A p \in Hyps : Paid(cur_hyps[p].context_score, cur_hyps[p].context_state)

\* A hypothesis hands its context on, or that of a word more.
LEMMA ContextPaid ==
    ASSUME IsGraph(context_graph), NEW n, IsScore(n),
           NEW h, Paid(h.context_score, h.context_state), NEW word
    PROVE  /\ Paid(CopyContext(n, h).context_score, CopyContext(n, h).context_state)
           /\ Paid(UpdateContext(n, h, word).context_score, UpdateContext(n, h, word).context_state)
<1>1. DOMAIN n = Keys /\ "context_state" \in Keys /\ "context_score" \in Keys
  BY DEF IsScore, Keys
<1>2. /\ CopyContext(n, h).context_score = h.context_score
      /\ CopyContext(n, h).context_state = h.context_state
  BY <1>1 DEF CopyContext
<1> DEFINE next == GetNextState(context_graph, h.context_state, word)
<1>3. /\ UpdateContext(n, h, word).context_score = h.context_score + next.score
      /\ UpdateContext(n, h, word).context_state = next.state
  <2>. HIDE DEF next
  <2>. QED  BY <1>1 DEF UpdateContext, next
<1>4. Paid(h.context_score + next.score, next.state)
  BY NextPaid
<1>. QED  BY <1>2, <1>3, <1>4

\* The hypothesis that a next one gets its context from is there.
LEMMA FrontIsHyp ==
    ASSUME Texted, NEW top, top \subseteq Tokens, NEW p \in NextHyps(top)
    PROVE  p \in Hyps \/ (Extends(p, top) /\ p \notin Hyps)
<1>1. CASE p \in Hyps
  BY <1>1
<1>2. CASE p \notin Hyps
  <2>1. PICK q \in Hyps, w \in top \ {blank} : p = Append(q, w)
    BY <1>2 DEF NextHyps
  <2>2. q \in Seq(Words) /\ w \in Words
    BY DEF Texted, Words
  <2>3. p # <<>> /\ Last(p) = w /\ Front(p) = q
    BY <2>1, <2>2, LastAppended
  <2>. QED  BY <1>2, <2>3 DEF Extends
<1>. QED  BY <1>1, <1>2

\* So does every next hypothesis have a context that is paid for.
LEMMA PassedPaid ==
    ASSUME IsGraph(context_graph), Scores, PaidHyps, Texted, NEW f \in Frames,
           NEW top, top \subseteq Tokens, NEW p \in NextHyps(top), NEW ahead \in BOOLEAN
    PROVE  Paid(Passed(p, f, top, ahead).context_score, Passed(p, f, top, ahead).context_state)
<1> DEFINE t == TokenOf(p, f, top, ahead)
           n == BlankOf(t, p, f, top)
           r == Passed(p, f, top, ahead)
           copied == p \in Hyps /\ \/ ~Extends(p, top)
                                   \/ blank \in top /\ Before(f, blank, Last(p))
                                   \/ ~ahead
<1>1. IsScore(n)
  <2>1. IsScore(t) /\ t.s = 0 /\ t.v_s = 0
    BY TokenOfIs DEF IsTokenPart
  <2>. HIDE DEF t
  <2>. QED  BY <2>1, BlankOfIs DEF AddsBlank
<1>2. r = IF copied THEN CopyContext(n, cur_hyps[p])
          ELSE UpdateContext(n, cur_hyps[Front(p)], Last(p))
  BY DEF Passed, TokenOf, RepeatOf, ExtendOf, BlankOf, Same
<1>3. copied => p \in Hyps
  OBVIOUS
<1>4. ~copied => Front(p) \in Hyps
  BY FrontIsHyp DEF Extends
<1>. HIDE DEF n, r, copied
<1>5. CASE copied
  <2>1. Paid(cur_hyps[p].context_score, cur_hyps[p].context_state)
    BY <1>3, <1>5 DEF PaidHyps
  <2>. QED  BY <1>1, <1>2, <1>5, <2>1, ContextPaid DEF r
<1>6. CASE ~copied
  <2>1. Paid(cur_hyps[Front(p)].context_score, cur_hyps[Front(p)].context_state)
    BY <1>4, <1>6 DEF PaidHyps
  <2>. QED  BY <1>1, <1>2, <1>6, <2>1, ContextPaid DEF r
<1>. QED  BY <1>5, <1>6

\* The first hypothesis has no hotword.
LEMMA FirstPaid == Paid(FirstHyps[<<>>].context_score, FirstHyps[<<>>].context_state)
<1>1. FirstHyps[<<>>] = [NoScore EXCEPT !.s = 1, !.v_s = 1, !.v_ns = 1]
  BY DEF FirstHyps
<1>2. FirstHyps[<<>>].context_score = 0 /\ FirstHyps[<<>>].context_state = Root
  BY <1>1 DEF NoScore
<1>. QED  BY <1>2, RootPaid

\* Every step keeps what is paid for.
LEMMA PaidStep ==
    ASSUME IInv, PaidHyps, [Next]_vars
    PROVE  PaidHyps'
<1>1. IsGraph(context_graph)
  BY DEF IInv, TypeOK, IsGraph, Words
<1>2. CASE StartUtterance
  <2>1. cur_hyps' = FirstHyps
    BY <1>2 DEF StartUtterance
  <2>2. Hyps' = {<<>>} /\ cur_hyps'[<<>>] = FirstHyps[<<>>]
    BY <2>1, FirstIs DEF Hyps
  <2>. QED  BY <2>2, FirstPaid DEF PaidHyps
<1>3. CASE UNCHANGED cur_hyps
  BY <1>3 DEF PaidHyps, Hyps
<1>4. ASSUME NEW f \in Frames, CtcSearchFrame(f) PROVE PaidHyps'
  <2> DEFINE top == TopK(f)
  <2>1. PICK ahead, kept : Turn(f, ahead, kept)
    BY <1>4, SomeTurn
  <2>2. kept \subseteq NextHyps(top)
        /\ cur_hyps' = [p \in kept |-> Passed(p, f, top, p \in ahead)]
    BY <2>1 DEF Turn
  <2>3. top \subseteq Tokens /\ Texted /\ Scores
    BY TopKSome, Balanced DEF IInv
  <2>. HIDE DEF top
  <2>4. ASSUME NEW p \in kept
        PROVE  Paid(Passed(p, f, top, p \in ahead).context_score,
                    Passed(p, f, top, p \in ahead).context_state)
    <3>1. p \in NextHyps(top) /\ (p \in ahead) \in BOOLEAN
      BY <2>2
    <3>. QED  BY <1>1, <2>3, <3>1, PassedPaid
  <2>5. Hyps' = kept /\ \A p \in kept : cur_hyps'[p] = Passed(p, f, top, p \in ahead)
    BY <2>2 DEF Hyps
  <2>. QED  BY <2>4, <2>5 DEF PaidHyps
<1>5. CASE CtcFinalizeDecode
  <2>1. cur_hyps' = [p \in Hyps |-> FinalContext(cur_hyps[p])]
    BY <1>5 DEF CtcFinalizeDecode
  <2>2. Hyps' = Hyps /\ \A p \in Hyps : cur_hyps'[p] = FinalContext(cur_hyps[p])
    BY <2>1 DEF Hyps
  <2>3. ASSUME NEW p \in Hyps
        PROVE  Paid(FinalContext(cur_hyps[p]).context_score, FinalContext(cur_hyps[p]).context_state)
    <3> DEFINE h == cur_hyps[p]
    <3>1. IsScore(h) /\ Paid(h.context_score, h.context_state)
      BY DEF IInv, Scores, PaidHyps
    <3>2. FinalContext(h) = h \/ FinalContext(h) = UpdateContext(h, h, Epsilon)
      BY DEF FinalContext
    <3>. HIDE DEF h
    <3>3. CASE FinalContext(h) = h
      BY <3>1, <3>3 DEF h
    <3>4. CASE FinalContext(h) = UpdateContext(h, h, Epsilon)
      <4>1. Paid(UpdateContext(h, h, Epsilon).context_score,
                 UpdateContext(h, h, Epsilon).context_state)
        BY <1>1, <3>1, ContextPaid
      <4>. QED  BY <3>4, <4>1 DEF h
    <3>. QED  BY <3>2, <3>3, <3>4
  <2>. QED  BY <2>2, <2>3 DEF PaidHyps
<1>. QED  BY <1>2, <1>3, <1>4, <1>5 DEF Next, vars, LoadHwsRes, UnloadHwsRes

\* What is taken back of hotwords that were begun was given before.
ContextGiven == \A p \in Hyps : cur_hyps[p].context_score \in Nat

\* So the score that hotwords give a hypothesis never falls below 0, whatever
\* paths of the graph determinization has put together.
THEOREM ContextCorrect == Spec => []ContextGiven
<1>1. Init => PaidHyps
  <2>. SUFFICES ASSUME Init PROVE PaidHyps
    OBVIOUS
  <2>1. cur_hyps = FirstHyps /\ Hyps = {<<>>}
    BY FirstIs DEF Init, Hyps
  <2>. QED  BY <2>1, FirstPaid DEF PaidHyps
<1>2. IInv /\ PaidHyps /\ [Next]_vars => PaidHyps'
  BY PaidStep
<1>3. PaidHyps => ContextGiven
  BY DEF PaidHyps, Paid, ContextGiven
<1>. QED  BY <1>1, <1>2, <1>3, Invariance, PTL DEF Spec

-----------------------------------------------------------------------------
(* The beam is full of hypotheses that have a path.                         *)

\* Enough tokens pass the first beam for the second to be filled.
BeamsFit ==
    second_beam_size <= first_beam_size /\ first_beam_size <= Cardinality(Tokens)

\* The sum over the paths of p is 0 if the best of them is.
Alike(p, h) ==
    /\ score(h) > 0 <=> viterbi_score(h) > 0
    /\ p # <<>> => (h.s > 0 <=> h.v_s > 0) /\ (h.ns > 0 <=> h.v_ns > 0)
AlikeHyps == \A p \in Hyps : Alike(p, cur_hyps[p])
Alive == \A p \in Hyps : score(cur_hyps[p]) > 0

\* With one factor above 0, a product is above 0 just when the other is.
LEMMA ProductPositive == \A x, c \in Nat : c > 0 => (x > 0 <=> x * c > 0)
<1>1. ASSUME NEW x \in Nat, NEW c \in Nat, c > 0 PROVE x > 0 <=> x * c > 0
  <2>1. x * c \in Nat
    BY Distributes
  <2>2. ASSUME x > 0 PROVE x * c > 0
    <3>1. 1 \in Nat /\ 1 <= x
      BY <2>2
    <3>2. 1 * c <= x * c
      BY <3>1, Monotone
    <3>3. 1 * c = c
      OBVIOUS
    <3>. HIDE <1>1
    <3>4. c <= x * c
      BY <3>2, <3>3
    <3> DEFINE y == x * c
    <3>5. y \in Nat /\ c <= y
      BY <2>1, <3>4
    <3>. HIDE DEF y
    <3>6. y > 0
      BY <1>1, <3>5
    <3>. QED  BY <3>6 DEF y
  <2>. QED  BY <2>2, Positive
<1>. QED  BY <1>1

\* A frame gives its tokens a probability.
LEMMA FramePositive ==
    ASSUME NEW f \in Frames, NEW w \in Tokens
    PROVE  f[w] \in Nat /\ f[w] > 0
<1>1. f[w] \in Nat \ {0}
  BY FrameAssumption
<1>. QED  BY <1>1

\* What cases 2 and 3 read is 0 in both scores, or in none.
LEMMA SourceAlike ==
    ASSUME NEW q, NEW h, IsScore(h), Alike(q, h), NEW same \in BOOLEAN, same => q # <<>>
    PROVE  Source(h, same).sum > 0 <=> Source(h, same).best > 0
<1>1. /\ Source(h, same).sum = (IF same THEN h.s ELSE score(h))
      /\ Source(h, same).best = (IF same THEN h.v_s ELSE viterbi_score(h))
  BY SourceIs
<1>. QED  BY <1>1 DEF Alike

\* Token passing keeps the two scores alike.
LEMMA PassedAlike ==
    ASSUME Scores, AlikeHyps, NEW f \in Frames, NEW p, NEW top, top \subseteq Tokens,
           NEW ahead \in BOOLEAN
    PROVE  /\ Alike(p, Passed(p, f, top, ahead))
           /\ score(Passed(p, f, top, ahead))
                = BlankSum(p, f, top) + (RepeatSum(p, f, top) + ExtendSum(p, f, top))
<1> DEFINE r == Passed(p, f, top, ahead)
           bs == BlankSum(p, f, top)
           bb == BlankBest(p, f, top)
           rs == RepeatSum(p, f, top)
           rb == RepeatBest(p, f, top)
           es == ExtendSum(p, f, top)
           eb == ExtendBest(p, f, top)
<1>1. HasScores(r, bs, bb, rs + es, Larger(rb, eb))
  BY PassedIs
<1>2. rs \in Nat /\ rb \in Nat /\ es \in Nat /\ eb \in Nat
  BY PartsNat
<1>3. bs > 0 <=> bb > 0
  <2>1. CASE p \in Hyps /\ blank \in top
    <3> DEFINE h == cur_hyps[p]
    <3>1. IsScore(h) /\ Alike(p, h) /\ f[blank] \in Nat /\ f[blank] > 0
      BY <2>1, FramePositive DEF Scores, AlikeHyps
    <3>2. score(h) \in Nat /\ viterbi_score(h) \in Nat
      BY <3>1, ScoreIs
    <3>3. bs = score(h) * f[blank] /\ bb = viterbi_score(h) * f[blank]
      BY <2>1 DEF BlankSum, BlankBest
    <3>. HIDE DEF h, bs, bb
    <3>4. (score(h) > 0 <=> bs > 0) /\ (viterbi_score(h) > 0 <=> bb > 0)
      BY <3>1, <3>2, <3>3, ProductPositive
    <3>. QED  BY <3>1, <3>4 DEF Alike
  <2>2. CASE ~(p \in Hyps /\ blank \in top)
    BY <2>2 DEF BlankSum, BlankBest
  <2>. QED  BY <2>1, <2>2
<1>4. rs > 0 <=> rb > 0
  <2>1. CASE Repeats(p, top)
    <3> DEFINE h == cur_hyps[p]
               w == Last(p)
    <3>1. p \in Hyps /\ p # <<>> /\ w \in Tokens
      BY <2>1 DEF Repeats
    <3>2. IsScore(h) /\ Alike(p, h)
      BY <3>1 DEF Scores, AlikeHyps
    <3>3. h.ns \in Nat /\ h.v_ns \in Nat
      BY <3>2 DEF IsScore
    <3>4. rs = h.ns * f[w] /\ rb = h.v_ns * f[w]
      BY <2>1 DEF RepeatSum, RepeatBest
    <3>. HIDE DEF h, w, rs, rb
    <3>5. f[w] \in Nat /\ f[w] > 0
      BY <3>1, FramePositive
    <3>6. (h.ns > 0 <=> rs > 0) /\ (h.v_ns > 0 <=> rb > 0)
      BY <3>3, <3>4, <3>5, ProductPositive
    <3>. QED  BY <3>1, <3>2, <3>6 DEF Alike
  <2>2. CASE ~Repeats(p, top)
    BY <2>2 DEF RepeatSum, RepeatBest
  <2>. QED  BY <2>1, <2>2
<1>5. es > 0 <=> eb > 0
  <2>1. CASE Extends(p, top)
    <3> DEFINE h == cur_hyps[Front(p)]
               w == Last(p)
               src == Source(h, Same(p))
    <3>1. Front(p) \in Hyps /\ w \in Tokens
      BY <2>1 DEF Extends
    <3>2. IsScore(h) /\ Alike(Front(p), h)
      BY <3>1 DEF Scores, AlikeHyps
    <3>3. Same(p) \in BOOLEAN /\ (Same(p) => Front(p) # <<>>)
      BY DEF Same
    <3>4. es = src.sum * f[w] /\ eb = src.best * f[w]
      BY <2>1 DEF ExtendSum, ExtendBest
    <3>5. src.sum \in Nat /\ src.best \in Nat
      <4>. HIDE DEF h
      <4>. QED  BY <3>2, <3>3, SourceIs
    <3>6. src.sum > 0 <=> src.best > 0
      <4>. HIDE DEF h
      <4>. QED  BY <3>2, <3>3, SourceAlike
    <3>. HIDE DEF h, w, src, es, eb
    <3>7. f[w] \in Nat /\ f[w] > 0
      BY <3>1, FramePositive
    <3>8. (src.sum > 0 <=> es > 0) /\ (src.best > 0 <=> eb > 0)
      BY <3>4, <3>5, <3>7, ProductPositive
    <3>. QED  BY <3>6, <3>8
  <2>2. CASE ~Extends(p, top)
    BY <2>2 DEF ExtendSum, ExtendBest
  <2>. QED  BY <2>1, <2>2
<1>. HIDE DEF r, bs, bb, rs, rb, es, eb
<1>6. /\ IsScore(r) /\ r.s = bs /\ r.v_s = bb /\ r.ns = rs + es /\ r.v_ns = Larger(rb, eb)
  BY <1>1 DEF HasScores
<1>7. bs \in Nat /\ bb \in Nat
  BY <1>6 DEF IsScore
<1>8. score(r) = bs + (rs + es) /\ viterbi_score(r) = Larger(bb, Larger(rb, eb))
  BY <1>6, ScoreIs
<1>9. rs + es > 0 <=> Larger(rb, eb) > 0
  BY <1>2, <1>4, <1>5 DEF Larger
<1>10. bs + (rs + es) > 0 <=> bs > 0 \/ rs + es > 0
  BY <1>2, <1>7
<1>11. Larger(bb, Larger(rb, eb)) > 0 <=> bb > 0 \/ Larger(rb, eb) > 0
  BY <1>2, <1>7 DEF Larger
<1>12. Alike(p, r)
  BY <1>3, <1>6, <1>8, <1>9, <1>10, <1>11 DEF Alike
<1>. QED  BY <1>8, <1>12 DEF r, bs, rs, es

\* As many tokens pass the first beam as it has places.
LEMMA TopKFull ==
    ASSUME BeamsFit, NEW f \in Frames
    PROVE  Cardinality(TopK(f)) >= first_beam_size
<1> DEFINE top == TopK(f)
           R == Tokens \ top
           k == first_beam_size
<1>1. top \subseteq Tokens /\ IsFiniteSet(top) /\ IsFiniteSet(Tokens) /\ k \in Nat
  BY TopKSome, TokenAssumption, BeamAssumption
<1>2. Cardinality(top) \in Nat /\ Cardinality(Tokens) \in Nat /\ k <= Cardinality(Tokens)
  BY <1>1, FS_CardinalityType DEF BeamsFit
<1>3. SUFFICES ASSUME Cardinality(top) < k PROVE FALSE
  BY <1>1, <1>2
<1>4. R # {}
  <2>1. top # Tokens
    BY <1>1, <1>2, <1>3
  <2>. QED  BY <1>1, <2>1
<1>5. PICK w \in R : \A v \in R : ~Before(f, v, w)
  <2>1. R \in SUBSET Tokens
    OBVIOUS
  <2>. HIDE DEF R
  <2>. QED  BY <1>4, <2>1, EachHasFirst
<1> DEFINE S == {v \in Tokens : Before(f, v, w)}
<1>6. S \subseteq top
  BY <1>5
<1>. HIDE DEF S
<1>7. Cardinality(S) <= Cardinality(top) /\ IsFiniteSet(S)
  BY <1>1, <1>6, FS_Subset
<1>8. Cardinality(S) \in Nat
  BY <1>7, FS_CardinalityType
<1>9. Cardinality(S) < k
  BY <1>1, <1>2, <1>3, <1>7, <1>8
<1>10. w \in top
  BY <1>5, <1>9 DEF TopK, S
<1>. QED  BY <1>5, <1>10

\* What p gets of all its sources, and the next hypotheses that get something.
Gets(p, f, top) == BlankSum(p, f, top) + (RepeatSum(p, f, top) + ExtendSum(p, f, top))
Living(f, top) == {p \in NextHyps(top) : Gets(p, f, top) > 0}

\* A sum is more than 0 if a part of it is.
LEMMA GetsIs ==
    ASSUME Scores, NEW f \in Frames, NEW p, NEW top, top \subseteq Tokens
    PROVE  /\ Gets(p, f, top) \in Nat
           /\ Gets(p, f, top) > 0 <=> \/ BlankSum(p, f, top) > 0 \/ RepeatSum(p, f, top) > 0
                                      \/ ExtendSum(p, f, top) > 0
<1> DEFINE bs == BlankSum(p, f, top)
           rs == RepeatSum(p, f, top)
           es == ExtendSum(p, f, top)
<1>1. rs \in Nat /\ es \in Nat
  BY PartsNat
<1>2. bs \in Nat
  <2>1. CASE p \in Hyps /\ blank \in top
    <3>1. score(cur_hyps[p]) \in Nat /\ f[blank] \in Nat
      BY <2>1, ScoreIs, FramePositive DEF Scores
    <3>. QED  BY <2>1, <3>1, Distributes DEF BlankSum
  <2>2. CASE ~(p \in Hyps /\ blank \in top)
    BY <2>2 DEF BlankSum
  <2>. QED  BY <2>1, <2>2
<1>3. Gets(p, f, top) = bs + (rs + es)
  BY DEF Gets
<1>. HIDE DEF bs, rs, es
<1>4. bs + (rs + es) \in Nat /\ (bs + (rs + es) > 0 <=> bs > 0 \/ rs > 0 \/ es > 0)
  BY <1>1, <1>2
<1>. QED  BY <1>3, <1>4 DEF bs, rs, es

\* Blank keeps every hypothesis.
LEMMA BlankLives ==
    ASSUME Scores, Alive, NEW f \in Frames, NEW top, top \subseteq Tokens, blank \in top,
           NEW p \in Hyps
    PROVE  p \in Living(f, top)
<1>1. score(cur_hyps[p]) \in Nat /\ score(cur_hyps[p]) > 0 /\ f[blank] \in Nat /\ f[blank] > 0
  BY ScoreIs, FramePositive DEF Scores, Alive
<1>2. BlankSum(p, f, top) = score(cur_hyps[p]) * f[blank]
  BY DEF BlankSum
<1>3. BlankSum(p, f, top) > 0
  BY <1>1, <1>2, ProductPositive
<1>4. p \in NextHyps(top)
  BY DEF NextHyps
<1>. QED  BY <1>3, <1>4, GetsIs DEF Living

\* What another token makes of a hypothesis: a longer one.
LEMMA ExtendedIs ==
    ASSUME Texted, NEW top, top \subseteq Tokens, NEW q \in Hyps, NEW w \in top \ {blank}
    PROVE  /\ Append(q, w) \in NextHyps(top) /\ Extends(Append(q, w), top)
           /\ Front(Append(q, w)) = q /\ Last(Append(q, w)) = w /\ Append(q, w) # <<>>
           /\ Same(Append(q, w)) <=> q # <<>> /\ Last(q) = w
<1>1. q \in Seq(Words) /\ w \in Words
  BY DEF Texted, Words
<1>2. Front(Append(q, w)) = q /\ Last(Append(q, w)) = w /\ Append(q, w) # <<>>
  BY <1>1, LastAppended
<1>. QED  BY <1>2 DEF NextHyps, Extends, Same

\* Another token than the last makes a text that has a path.
LEMMA TokenLives ==
    ASSUME Scores, Alive, Texted, NEW f \in Frames, NEW top, top \subseteq Tokens,
           NEW q \in Hyps, NEW w \in top \ {blank}, ~(q # <<>> /\ Last(q) = w)
    PROVE  Append(q, w) \in Living(f, top)
<1> DEFINE p == Append(q, w)
           h == cur_hyps[q]
<1>1. /\ p \in NextHyps(top) /\ Extends(p, top) /\ Front(p) = q /\ Last(p) = w /\ ~Same(p)
  BY ExtendedIs
<1>. HIDE DEF p
<1>2. IsScore(h) /\ score(h) > 0 /\ f[w] \in Nat /\ f[w] > 0
  BY FramePositive DEF Scores, Alive
<1>3. score(h) \in Nat
  BY <1>2, ScoreIs
<1>4. ExtendSum(p, f, top) = Source(h, Same(p)).sum * f[w]
  BY <1>1 DEF ExtendSum
<1>5. Source(h, Same(p)).sum = score(h)
  BY <1>1 DEF Source
<1>. HIDE DEF h
<1>6. ExtendSum(p, f, top) > 0
  BY <1>2, <1>3, <1>4, <1>5, ProductPositive
<1>. QED  BY <1>1, <1>6, GetsIs DEF Living, p

\* The last token once more lets a hypothesis live, or the longer one.
LEMMA LastLives ==
    ASSUME Scores, Alive, Texted, NEW f \in Frames, NEW top, top \subseteq Tokens,
           NEW q \in Hyps, q # <<>>, Last(q) \in top
    PROVE  q \in Living(f, top) \/ Append(q, Last(q)) \in Living(f, top)
<1> DEFINE w == Last(q)
           p == Append(q, w)
           h == cur_hyps[q]
<1>1. w \in top \ {blank}
  <2>1. q \in Seq(Words)
    BY DEF Texted
  <2>2. w \in Words
    BY <2>1, FrontLast
  <2>. QED  BY <2>2 DEF Words
<1>. HIDE DEF w
<1>2. /\ p \in NextHyps(top) /\ Extends(p, top) /\ Front(p) = q /\ Last(p) = w /\ Same(p)
  BY <1>1, ExtendedIs DEF w
<1>. HIDE DEF p
<1>3. q \in NextHyps(top) /\ Repeats(q, top)
  BY <1>1 DEF NextHyps, Repeats, w
<1>4. IsScore(h) /\ score(h) > 0 /\ f[w] \in Nat /\ f[w] > 0
  BY <1>1, FramePositive DEF Scores, Alive
<1>5. score(h) = h.s + h.ns /\ h.s \in Nat /\ h.ns \in Nat
  BY <1>4, ScoreIs DEF IsScore
<1>6. ExtendSum(p, f, top) = h.s * f[w] /\ RepeatSum(q, f, top) = h.ns * f[w]
  BY <1>2, <1>3 DEF ExtendSum, RepeatSum, Source, w
<1>. HIDE DEF h
<1>7. h.s > 0 \/ h.ns > 0
  BY <1>4, <1>5
<1>8. ExtendSum(p, f, top) > 0 \/ RepeatSum(q, f, top) > 0
  BY <1>4, <1>5, <1>6, <1>7, ProductPositive
<1>. QED  BY <1>2, <1>3, <1>8, GetsIs DEF Living, p, w

\* In the first frame every token of the first beam makes a text of its own.
LEMMA FirstLiving ==
    ASSUME Scores, Alive, Texted, Hyps = {<<>>}, NEW f \in Frames,
           NEW top, top \subseteq Tokens, IsFiniteSet(top), IsFiniteSet(Living(f, top))
    PROVE  Cardinality(top) <= Cardinality(Living(f, top))
<1> DEFINE e == [w \in top |-> IF w = blank THEN <<>> ELSE Append(<<>>, w)]
<1>1. ASSUME NEW w \in top PROVE e[w] \in Living(f, top)
  <2>1. CASE w = blank
    BY <2>1, BlankLives
  <2>2. CASE w # blank
    <3>1. Append(<<>>, w) \in Living(f, top)
      BY <2>2, TokenLives
    <3>. QED  BY <2>2, <3>1
  <2>. QED  BY <2>1, <2>2
<1>2. ASSUME NEW v \in top, NEW w \in top, e[v] = e[w] PROVE v = w
  BY <1>2
<1>3. e \in Injection(top, Living(f, top))
  <2>1. e \in [top -> Living(f, top)]
    BY <1>1
  <2>. HIDE DEF e
  <2>. QED  BY <1>2, <2>1 DEF Injection, IsInjective
<1>. QED  BY <1>3, FS_Injection

\* Later on no frame can leave fewer texts than there are.
LEMMA LaterLiving ==
    ASSUME Scores, Alive, Texted, IsFiniteSet(Hyps), Hyps # {}, NEW f \in Frames,
           NEW top, top \subseteq Tokens, IsFiniteSet(top), IsFiniteSet(Living(f, top)),
           top # {}, Cardinality(Hyps) <= Cardinality(top)
    PROVE  Cardinality(Hyps) <= Cardinality(Living(f, top))
<1>1. CASE blank \in top
  <2>1. Hyps \subseteq Living(f, top)
    BY <1>1, BlankLives
  <2>. QED  BY <2>1, FS_Subset
<1>2. CASE blank \notin top /\ \A q \in Hyps : \E w \in top : ~(q # <<>> /\ Last(q) = w)
  <2> DEFINE w(q) == CHOOSE v \in top : ~(q # <<>> /\ Last(q) = v)
             e == [q \in Hyps |-> Append(q, w(q))]
  <2>1. ASSUME NEW q \in Hyps PROVE w(q) \in top \ {blank} /\ ~(q # <<>> /\ Last(q) = w(q))
    BY <1>2
  <2>. HIDE DEF w
  <2>2. ASSUME NEW q \in Hyps PROVE e[q] \in Living(f, top) /\ Front(e[q]) = q
    <3>1. Append(q, w(q)) \in Living(f, top)
      BY <2>1, TokenLives
    <3>2. Front(Append(q, w(q))) = q
      BY <2>1, ExtendedIs
    <3>. QED  BY <3>1, <3>2
  <2>3. e \in [Hyps -> Living(f, top)]
    BY <2>2
  <2>. HIDE DEF e
  <2>4. e \in Injection(Hyps, Living(f, top))
    BY <2>2, <2>3 DEF Injection, IsInjective
  <2>. QED  BY <2>4, FS_Injection
<1>3. ASSUME blank \notin top, NEW q \in Hyps, \A w \in top : q # <<>> /\ Last(q) = w
      PROVE  Cardinality(Hyps) <= Cardinality(Living(f, top))
  <2>1. top = {Last(q)} /\ q # <<>> /\ Last(q) \in top
    BY <1>3
  <2>2. Cardinality(Hyps) <= 1
    BY <2>1, FS_Singleton
  <2>3. Living(f, top) # {}
    BY <2>1, LastLives
  <2>4. Cardinality(Living(f, top)) # 0 /\ Cardinality(Living(f, top)) \in Nat
    BY <2>3, FS_EmptySet, FS_CardinalityType
  <2>5. Cardinality(Hyps) \in Nat
    BY FS_CardinalityType
  <2>. QED  BY <2>2, <2>4, <2>5
<1>. QED  BY <1>1, <1>2, <1>3

\* A beam of as many hypotheses as it has places takes none without a path before
\* one that has one.
LEMMA BeamLives ==
    ASSUME NEW next, IsFiniteSet(DOMAIN next), DOMAIN next # {}, NEW kept \in Beams(next),
           \A p \in DOMAIN next : total_score(next[p]) \in Nat,
           NEW P, P = {p \in DOMAIN next : total_score(next[p]) > 0},
           second_beam_size <= Cardinality(P)
    PROVE  Cardinality(kept) = second_beam_size /\ kept \subseteq P
<1> DEFINE D == DOMAIN next
           size == Min({Cardinality(D), second_beam_size})
           total == [p \in D |-> total_score(next[p])]
           best == {p \in D : Cardinality({q \in D : total[q] >= total[p]}) <= size}
           equal == {p \in D \ best : Cardinality({q \in D : total[q] > total[p]}) < size}
<1>1. PICK some \in kSubset(size - Cardinality(best), equal) : kept = best \cup some
  BY DEF Beams
<1>2. some \subseteq equal
  BY <1>1 DEF kSubset
<1>3. IsFiniteSet(P) /\ P \subseteq D /\ Cardinality(P) <= Cardinality(D)
  BY FS_Subset
<1>4. /\ Cardinality(P) \in Nat /\ Cardinality(D) \in Nat
      /\ second_beam_size \in Nat
  BY <1>3, FS_CardinalityType, BeamAssumption
<1>5. size = second_beam_size
  <2>1. size \in {Cardinality(D), second_beam_size} /\ size <= second_beam_size
        /\ size <= Cardinality(D)
    BY <1>4, MinPair
  <2>. HIDE DEF size
  <2>. QED  BY <1>3, <1>4, <2>1
<1>6. Cardinality(kept) = size
  <2>. HIDE DEF D
  <2>. QED  BY BeamsAre DEF D
<1>7. ASSUME NEW p \in kept, p \notin P PROVE FALSE
  <2>1. p \in D /\ (p \in best \/ p \in equal)
    BY <1>1, <1>2, <1>7
  <2>2. total[p] = 0 /\ \A q \in D : total[q] \in Nat /\ total[q] = total_score(next[q])
    BY <1>7, <2>1
  <2>3. Cardinality(P) < Cardinality(D)
    <3>1. P # D
      BY <1>7, <2>1
    <3>. HIDE DEF D
    <3>2. Cardinality(P) # Cardinality(D)
      BY <1>3, <3>1, FS_Subset DEF D
    <3>. QED  BY <1>3, <1>4, <3>2
  <2>4. {q \in D : total[q] >= total[p]} = D
    <3>. HIDE DEF total, best, equal
    <3>. QED  BY <2>2
  <2>5. {q \in D : total[q] > total[p]} = P
    <3>. HIDE DEF total, best, equal
    <3>. QED  BY <2>2
  <2>. HIDE DEF size
  <2>6. CASE p \in best
    <3>1. Cardinality(D) <= size
      BY <2>4, <2>6
    <3>. QED  BY <1>4, <1>5, <2>3, <3>1
  <2>7. CASE p \in equal
    <3>1. Cardinality(P) < size
      BY <2>5, <2>7
    <3>. QED  BY <1>4, <1>5, <3>1
  <2>. QED  BY <2>1, <2>6, <2>7
<1>. HIDE DEF size
<1>. QED  BY <1>5, <1>6, <1>7

\* What the beam holds: as many hypotheses as it has places, all of them with a path.
Held ==
    /\ AlikeHyps /\ Alive
    /\ phase # "fresh" => Cardinality(Hyps) = second_beam_size

\* A turn of the loop fills it again.
LEMMA HeldTurn ==
    ASSUME BeamsFit, IInv, PaidHyps, Held, NEW f \in Frames, CtcSearchFrame(f)
    PROVE  Held'
<1> DEFINE top == TopK(f)
           next(ahead) == [p \in NextHyps(top) |-> Passed(p, f, top, p \in ahead)]
<1>1. PICK ahead : \E kept \in Beams(next(ahead)) :
                     /\ cur_hyps' = Restrict(next(ahead), kept)
                     /\ survivors' = Append(survivors, kept)
  BY DEF CtcSearchFrame
<1> DEFINE after == next(ahead)
<1>2. PICK kept \in Beams(after) : cur_hyps' = Restrict(after, kept)
  BY <1>1
<1>3. DOMAIN after = NextHyps(top)
  OBVIOUS
<1>4. /\ top # {} /\ top \subseteq Tokens /\ IsFiniteSet(top)
      /\ Texted /\ abs_time_step \in Nat /\ Scores /\ AlikeHyps /\ Alive
      /\ IsFiniteSet(Hyps) /\ Hyps # {} /\ IsGraph(context_graph)
  BY TopKSome, Balanced DEF IInv, TypeOK, Held, IsGraph, Words
<1>5. Cardinality(top) >= first_beam_size
  BY TopKFull
<1>. HIDE DEF top
<1>6. IsFiniteSet(NextHyps(top)) /\ NextHyps(top) # {}
  BY <1>4, NextHypsIs
<1>7. ASSUME NEW p \in NextHyps(top)
      PROVE  /\ Alike(p, after[p]) /\ score(after[p]) = Gets(p, f, top) /\ score(after[p]) \in Nat
             /\ total_score(after[p]) \in Nat
             /\ total_score(after[p]) > 0 <=> Gets(p, f, top) > 0
  <2> DEFINE r == Passed(p, f, top, p \in ahead)
             c == TwoTo(r.context_score)
  <2>1. (p \in ahead) \in BOOLEAN
    OBVIOUS
  <2>2. Alike(p, r) /\ score(r) = Gets(p, f, top)
    BY <1>4, <2>1, PassedAlike DEF Gets
  <2>3. Gets(p, f, top) \in Nat
    BY <1>4, GetsIs
  <2>4. Paid(r.context_score, r.context_state)
    BY <1>4, <2>1, PassedPaid
  <2>5. after[p] = r
    OBVIOUS
  <2>. HIDE DEF r, after
  <2>6. r.context_score \in Nat
    BY <2>4 DEF Paid
  <2>7. c \in Nat /\ c > 0
    BY <2>6, TwoToNat
  <2>8. total_score(r) = score(r) * c
    BY DEF total_score
  <2>. HIDE DEF c
  <2>9. score(r) \in Nat
    BY <2>2, <2>3
  <2>10. score(r) * c \in Nat /\ (score(r) > 0 <=> score(r) * c > 0)
    BY <2>7, <2>9, ProductPositive, Distributes
  <2>. QED  BY <2>2, <2>5, <2>8, <2>9, <2>10
<1> DEFINE P == {p \in DOMAIN after : total_score(after[p]) > 0}
<1>8. P = Living(f, top)
  <2>. HIDE DEF after
  <2>. QED  BY <1>3, <1>7 DEF Living
<1>9. second_beam_size <= Cardinality(P)
  <2>1. Living(f, top) \subseteq NextHyps(top)
    BY DEF Living
  <2>2. IsFiniteSet(Living(f, top))
    BY <1>6, <2>1, FS_Subset
  <2>3. /\ Cardinality(top) \in Nat /\ Cardinality(Living(f, top)) \in Nat
        /\ first_beam_size \in Nat /\ second_beam_size \in Nat /\ Cardinality(Hyps) \in Nat
    BY <1>4, <2>2, FS_CardinalityType, BeamAssumption
  <2>4. second_beam_size <= Cardinality(top)
    BY <1>5, <2>3 DEF BeamsFit
  <2>5. CASE phase = "fresh"
    <3>1. Hyps = {<<>>}
      BY <2>5, FirstIs DEF IInv, Stands, Hyps
    <3>2. Cardinality(top) <= Cardinality(Living(f, top))
      BY <1>4, <2>2, <3>1, FirstLiving
    <3>. QED  BY <1>8, <2>3, <2>4, <3>2
  <2>6. CASE phase # "fresh"
    <3>1. Cardinality(Hyps) = second_beam_size
      BY <2>6 DEF Held
    <3>2. Cardinality(Hyps) <= Cardinality(top)
      BY <2>4, <3>1
    <3>3. Cardinality(Hyps) <= Cardinality(Living(f, top))
      BY <1>4, <2>2, <3>2, LaterLiving
    <3>. QED  BY <1>8, <3>1, <3>3
  <2>. QED  BY <2>5, <2>6
<1>10. Cardinality(kept) = second_beam_size /\ kept \subseteq P
  <2>1. \A p \in DOMAIN after : total_score(after[p]) \in Nat
    BY <1>3, <1>7
  <2>2. IsFiniteSet(DOMAIN after) /\ DOMAIN after # {}
    BY <1>3, <1>6
  <2>3. P = {p \in DOMAIN after : total_score(after[p]) > 0}
    OBVIOUS
  <2>. HIDE DEF P, after
  <2>. QED  BY <1>2, <1>9, <2>1, <2>2, <2>3, BeamLives
<1>. HIDE DEF P
<1>11. Hyps' = kept /\ \A p \in kept : cur_hyps'[p] = after[p] /\ p \in NextHyps(top) /\ p \in Living(f, top)
  <2>1. cur_hyps' = [p \in kept |-> after[p]]
    BY <1>2 DEF Restrict
  <2>2. kept \subseteq Living(f, top)
    BY <1>8, <1>10
  <2>. HIDE DEF after
  <2>. QED  BY <2>1, <2>2 DEF Hyps, Living
<1>. HIDE DEF after
<1>12. ASSUME NEW p \in kept PROVE Alike(p, cur_hyps'[p]) /\ score(cur_hyps'[p]) > 0
  BY <1>7, <1>11 DEF Living
<1>13. AlikeHyps' /\ Alive'
  BY <1>11, <1>12 DEF AlikeHyps, Alive
<1>. QED  BY <1>10, <1>11, <1>13 DEF Held

\* So does every step, with the beams that fit.
LEMMA HeldStep ==
    ASSUME BeamsFit, IInv, PaidHyps, Held, [Next]_vars
    PROVE  Held'
<1>1. CASE StartUtterance
  <2>1. cur_hyps' = FirstHyps /\ phase' = "fresh"
    BY <1>1 DEF StartUtterance
  <2>2. Hyps' = {<<>>} /\ cur_hyps'[<<>>] = FirstHyps[<<>>]
    BY <2>1, FirstIs DEF Hyps
  <2> DEFINE h == FirstHyps[<<>>]
  <2>3. IsScore(h) /\ h.s = 1 /\ h.ns = 0 /\ h.v_s = 1 /\ h.v_ns = 1
    BY FirstIs
  <2>. HIDE DEF h
  <2>4. score(h) = 1 + 0 /\ viterbi_score(h) = Larger(1, 1)
    BY <2>3, ScoreIs
  <2>5. 1 + 0 > 0 /\ Larger(1, 1) > 0
    BY DEF Larger
  <2>6. Alike(<<>>, h) /\ score(h) > 0
    BY <2>4, <2>5 DEF Alike
  <2>. QED  BY <2>1, <2>2, <2>6 DEF Held, AlikeHyps, Alive, h
<1>2. CASE UNCHANGED <<cur_hyps, phase>>
  BY <1>2 DEF Held, AlikeHyps, Alive, Hyps
<1>3. ASSUME NEW f \in Frames, CtcSearchFrame(f) PROVE Held'
  BY <1>3, HeldTurn
<1>4. CASE CtcFinalizeDecode
  <2>1. cur_hyps' = [p \in Hyps |-> FinalContext(cur_hyps[p])] /\ phase = "search"
    BY <1>4 DEF CtcFinalizeDecode
  <2>2. Hyps' = Hyps /\ \A p \in Hyps : cur_hyps'[p] = FinalContext(cur_hyps[p])
    BY <2>1 DEF Hyps
  <2>3. ASSUME NEW p \in Hyps
        PROVE  Alike(p, FinalContext(cur_hyps[p])) /\ score(FinalContext(cur_hyps[p])) > 0
    <3> DEFINE h == cur_hyps[p]
               m == FinalContext(h)
    <3>1. IsScore(h) /\ Alike(p, h) /\ score(h) > 0
      BY DEF IInv, Scores, Held, AlikeHyps, Alive
    <3>2. m = h \/ m = UpdateContext(h, h, Epsilon)
      BY DEF FinalContext
    <3>. HIDE DEF h, m
    <3>3. IsScore(m) /\ SameButContext(h, m)
      <4>1. CASE m = h
        BY <3>1, <4>1 DEF SameButContext
      <4>2. CASE m = UpdateContext(h, h, Epsilon)
        BY <3>1, <4>2, ContextIs
      <4>. QED  BY <3>2, <4>1, <4>2
    <3>4. score(m) = score(h) /\ viterbi_score(m) = viterbi_score(h)
      BY <3>3 DEF SameButContext, score, viterbi_score
    <3>5. m.s = h.s /\ m.ns = h.ns /\ m.v_s = h.v_s /\ m.v_ns = h.v_ns
      BY <3>3 DEF SameButContext
    <3>. QED  BY <3>1, <3>4, <3>5 DEF Alike, h, m
  <2>4. phase # "fresh"
    BY <2>1
  <2>5. Cardinality(Hyps') = second_beam_size
    BY <2>2, <2>4 DEF Held
  <2>. QED  BY <2>2, <2>3, <2>5 DEF Held, AlikeHyps, Alive
<1>. QED  BY <1>1, <1>2, <1>3, <1>4 DEF Next, vars, LoadHwsRes, UnloadHwsRes

\* They hold at the beginning.
LEMMA HeldFirst == Init => PaidHyps /\ Held
<1>. SUFFICES ASSUME Init PROVE PaidHyps /\ Held
  OBVIOUS
<1>1. cur_hyps = FirstHyps /\ Hyps = {<<>>} /\ phase = "fresh"
  BY FirstIs DEF Init, Hyps
<1> DEFINE h == FirstHyps[<<>>]
<1>2. IsScore(h) /\ h.s = 1 /\ h.ns = 0 /\ h.v_s = 1 /\ h.v_ns = 1
  BY FirstIs
<1>. HIDE DEF h
<1>3. score(h) = 1 + 0 /\ viterbi_score(h) = Larger(1, 1)
  BY <1>2, ScoreIs
<1>4. 1 + 0 > 0 /\ Larger(1, 1) > 0
  BY DEF Larger
<1>5. Alike(<<>>, h) /\ score(h) > 0
  BY <1>3, <1>4 DEF Alike
<1>6. Held
  BY <1>1, <1>5 DEF Held, AlikeHyps, Alive, h
<1>7. PaidHyps
  BY <1>1, FirstPaid DEF PaidHyps
<1>. QED  BY <1>6, <1>7

\* The beam is full of hypotheses that have a path, after every frame.
THEOREM BeamCorrect == BeamsFit => (Spec => [](PaidHyps /\ Held))
<1>. SUFFICES ASSUME BeamsFit PROVE Spec => [](PaidHyps /\ Held)
  OBVIOUS
<1>1. Init => PaidHyps /\ Held
  BY HeldFirst
<1>2. IInv /\ (PaidHyps /\ Held) /\ [Next]_vars => (PaidHyps /\ Held)'
  BY PaidStep, HeldStep
<1>. QED  BY <1>1, <1>2, Invariance, PTL DEF Spec

\* With the beams that fit, the assertions of UpdateResult hold too: the times of
\* every text are in order, and at the end there is one for each of its tokens.
THEOREM TimesMatchCorrect == BeamsFit => (Spec => []TimesMatch)
<1>. SUFFICES ASSUME BeamsFit PROVE Spec => []TimesMatch
  OBVIOUS
<1>1. ASSUME IInv, Held, TimesInOrder PROVE TimesMatch
  <2>1. \A p \in Hyps : /\ \A j \in DOMAIN times(cur_hyps[p]) :
                             times(cur_hyps[p])[j] \in 0..abs_time_step - 1
                        /\ \A j \in DOMAIN times(cur_hyps[p]) :
                             j > 1 => times(cur_hyps[p])[j - 1] < times(cur_hyps[p])[j]
    BY <1>1 DEF TimesInOrder
  <2>2. \A p \in Hyps \ {<<>>} : cur_hyps[p].v_ns > 0 => cur_hyps[p].times_ns # <<>>
    BY <1>1 DEF TimesInOrder
  <2>3. ASSUME NEW p \in Hyps PROVE Len(times(cur_hyps[p])) = Len(p)
    <3>1. viterbi_score(cur_hyps[p]) > 0
      BY <1>1 DEF Held, AlikeHyps, Alike, Alive
    <3>. QED  BY <1>1, <3>1 DEF TimesInOrder
  <2>. QED  BY <2>1, <2>2, <2>3 DEF TimesMatch
<1>2. IInv /\ (PaidHyps /\ Held) /\ TimesInOrder => TimesMatch
  BY <1>1
<1>. QED  BY <1>2, Invariance, BeamCorrect, TimesCorrect, PTL
=============================================================================
