--------------------------- MODULE OnlineFeats_proofs --------------------------
(***************************************************************************)
(* Proofs about OnlineFeats, for any sizes of frames, LFR frames, chunks and *)
(* pieces that fit together as the assumptions say: however an utterance is *)
(* sliced into calls, its LFR frames are those of the whole, the detector   *)
(* gets enough audio with them, the recogniser each of them once, and the   *)
(* next utterance finds nothing of it.                                      *)
(***************************************************************************)
EXTENDS OnlineFeats, TLAPS, FiniteSetTheorems, SequenceTheorems

-----------------------------------------------------------------------------
(* The inductive invariant.                                                  *)

\* Frames that the samples at the end of an utterance cannot give yet.
Left == (FrameLen - 1) \div FrameShift
Clip(f) == IF f < 0 THEN 0 ELSE f

Types ==
    /\ reader \in {"vad", "asr"}
    /\ fe \in [input : Nat, reserve : Nat, splice : Seq(Nat)]
    /\ feats_cache \in Seq(Nat) /\ Len(feats_cache) = Pre + Suf
    /\ start_idx \in Nat /\ is_first_chunk \in BOOLEAN /\ scored \in BOOLEAN
    /\ cif \in {"fresh", "used"} /\ decoder_onnx \in {"fresh", "used", "broken"}
    /\ call \in [final : BOOLEAN, n : Nat, feats : Seq(Seq(Nat)), raw : BOOLEAN, body : Seq(Nat)]
    /\ samples \in Nat /\ frames \in Nat /\ outs \in Nat /\ bodies \in Nat /\ streams \in Nat
    /\ surplus \in Int /\ missed \in BOOLEAN /\ failed \in BOOLEAN

\* What stands behind the LFR frames made of total frames so far.
Follow(all, made, total) ==
    /\ Len(all) = total + Pad - Row(made)
    /\ \A p \in 1..Len(all) : all[p] = At(Clip(Row(made) + p - 1 - Pad))

\* Between two calls of an utterance every sample is in a frame or waits, and the
\* frames that wait are less than one more LFR frame needs.
Within ==
    ~call.final =>
        /\ ~call.raw
        /\ fe.input = samples - At(frames) /\ 1 <= frames
        /\ Follow(fe.splice, outs, frames)
        /\ Len(fe.splice) \in M - N..M - 1

\* What the detector has been given in advance never falls below the padding, unless
\* the first call did not reach it; and never below nothing while it is in a stream.
VadWithin ==
    reader = "vad" =>
        /\ feats_cache = Zeros /\ start_idx = 0 /\ cif = "fresh" /\ decoder_onnx = "fresh"
        /\ is_first_chunk
        /\ ~call.final => /\ \E r \in Nat : r >= 2 /\ fe.reserve = At(r)
                          /\ ~missed => scored /\ surplus >= At(Pad)
        /\ scored => surplus >= 0

\* Pieces are whole chunks, so the recogniser is always as far behind.
AsrWithin ==
    reader = "asr" =>
        /\ ~scored /\ surplus = 0
        /\ ~call.final =>
              /\ ~is_first_chunk /\ Body <= outs
              /\ frames = Row(outs) - Left /\ samples = At(Row(outs))
              /\ fe.reserve = At(Pad - Left)
              /\ \A k \in 1..Pre + Suf : feats_cache[k] = Clip(outs - (Pre + Suf) + k)

IndInv ==
    /\ Types /\ Within /\ VadWithin /\ AsrWithin
    /\ LfrAsOffline /\ WavesEnough /\ BodiesTile /\ UtteranceFresh

-----------------------------------------------------------------------------
(* Numbers of samples and of frames.                                         *)

LEMMA AtInt ==
    ASSUME NEW a \in Int
    PROVE  At(a) \in Int /\ (a >= 0 => At(a) \in Nat)
BY FrameAssumption DEF At

LEMMA AtZero == At(0) = 0 /\ At(1) = FrameShift
BY FrameAssumption DEF At

LEMMA AtAdd ==
    ASSUME NEW a \in Int, NEW b \in Int
    PROVE  At(a + b) = At(a) + At(b) /\ At(a - b) = At(a) - At(b)
BY FrameAssumption DEF At

LEMMA AtGrows ==
    ASSUME NEW a \in Int, NEW b \in Int
    PROVE  (a <= b => At(a) <= At(b)) /\ (a < b => At(a) + FrameShift <= At(b))
<1>1. ASSUME NEW c \in Nat PROVE At(a) <= At(a + c) /\ At(a) + FrameShift <= At(a + c + 1)
  <2>1. c * FrameShift \in Nat
    BY FrameAssumption
  <2>. QED  BY <2>1, FrameAssumption DEF At
<1>2. CASE a <= b
  <2>1. b - a \in Nat /\ a + (b - a) = b
    BY <1>2
  <2>2. CASE a < b
    <3>1. b - a - 1 \in Nat /\ a + (b - a - 1) + 1 = b
      BY <2>2
    <3>. QED  BY <1>1, <2>1, <3>1
  <2>. QED  BY <1>1, <1>2, <2>1, <2>2
<1>. QED  BY <1>2

\* A division by the frame shift.
LEMMA AtQuotient ==
    ASSUME NEW m \in Int
    PROVE  m \div FrameShift \in Int /\ At(m \div FrameShift) <= m /\ m < At(m \div FrameShift) + FrameShift
BY FrameAssumption, SMT DEF At

LEMMA AtBounds ==
    ASSUME NEW a \in Int, NEW b \in Int
    PROVE  (At(a) <= At(b) => a <= b) /\ (At(a) < At(b) + FrameShift => a <= b)
<1>1. At(a) \in Int /\ At(b) \in Int /\ FrameShift \in Int
  BY AtInt, FrameAssumption
<1>2. a > b => At(b) + FrameShift <= At(a)
  BY AtGrows
<1>. QED  BY <1>1, <1>2, FrameAssumption

\* The two models.
LEMMA Sizes ==
    ASSUME reader \in {"vad", "asr"}
    PROVE  /\ M \in Nat /\ N \in Nat /\ Pad \in Nat
           /\ 1 <= N /\ N < M /\ 2 * Pad < M /\ M <= 2 * Pad + 2
           /\ reader = "vad" => N = 1 /\ M = 2 * Pad + 1 /\ Pad >= 1
BY LfrAssumption, VadFitAssumption DEF M, N, Pad

LEMMA RowInt ==
    ASSUME reader \in {"vad", "asr"}, NEW a \in Int
    PROVE  Row(a) \in Int /\ (a >= 0 => Row(a) \in Nat)
BY LfrAssumption DEF Row, N

LEMMA RowAdd ==
    ASSUME reader \in {"vad", "asr"}, NEW a \in Int, NEW b \in Int
    PROVE  /\ Row(a + b) = Row(a) + Row(b) /\ Row(a - b) = Row(a) - Row(b)
           /\ Row(0) = 0 /\ Row(1) = N /\ (N = 1 => Row(a) = a)
BY LfrAssumption DEF Row, N

LEMMA RowGrows ==
    ASSUME reader \in {"vad", "asr"}, NEW a \in Int, NEW b \in Int
    PROVE  (a <= b => Row(a) <= Row(b)) /\ (a < b => Row(a) + N <= Row(b))
<1>1. N \in Nat /\ N >= 1
  BY Sizes
<1>2. ASSUME NEW c \in Nat PROVE Row(a) <= Row(a + c) /\ Row(a) + N <= Row(a + c + 1)
  <2>1. c * N \in Nat
    BY <1>1
  <2>. QED  BY <2>1, <1>1 DEF Row
<1>3. CASE a < b
  <2>1. b - a \in Nat /\ a + (b - a) = b /\ b - a - 1 \in Nat /\ a + (b - a - 1) + 1 = b
    BY <1>3
  <2>. QED  BY <1>2, <2>1
<1>4. CASE a = b
  BY <1>4, <1>1 DEF Row
<1>. QED  BY <1>3, <1>4

LEMMA RowQuotient ==
    ASSUME reader \in {"vad", "asr"}, NEW m \in Int
    PROVE  m \div N \in Int /\ Row(m \div N) <= m /\ m < Row(m \div N) + N
<1>1. N \in Nat /\ N > 0
  BY Sizes
<1>. QED  BY <1>1, SMT DEF Row

LEMMA RowBounds ==
    ASSUME reader \in {"vad", "asr"}, NEW a \in Int, NEW b \in Int
    PROVE  (Row(a) <= Row(b) => a <= b) /\ (Row(a) < Row(b) + N => a <= b)
<1>1. Row(a) \in Int /\ Row(b) \in Int /\ N \in Nat /\ N >= 1
  BY RowInt, Sizes
<1>2. a > b => Row(b) + N <= Row(a)
  BY RowGrows
<1>. QED  BY <1>1, <1>2

-----------------------------------------------------------------------------
(* What a call makes of its audio.                                           *)

LEMMA FrameCount ==
    ASSUME NEW len \in Nat
    PROVE  /\ ComputeFrameNum(len) \in Nat
           /\ ComputeFrameNum(len) = 0 <=> len < FrameLen
           /\ At(ComputeFrameNum(len)) <= len
           /\ ComputeFrameNum(len) > 0 =>
                /\ At(ComputeFrameNum(len) - 1) + FrameLen <= len
                /\ len < At(ComputeFrameNum(len)) + FrameLen
<1>1. FrameLen \in Nat /\ FrameShift \in Nat /\ 1 <= FrameShift /\ FrameShift <= FrameLen
  BY FrameAssumption
<1>2. CASE len < FrameLen
  BY <1>1, <1>2, AtZero DEF ComputeFrameNum
<1>3. CASE ~(len < FrameLen)
  <2> DEFINE q == (len - FrameLen) \div FrameShift
  <2>1. len - FrameLen \in Nat
    BY <1>1, <1>3
  <2>2. q \in Int /\ At(q) <= len - FrameLen /\ len - FrameLen < At(q) + FrameShift
    BY <2>1, AtQuotient
  <2>5. ComputeFrameNum(len) = q + 1
    BY <1>3 DEF ComputeFrameNum
  <2>. HIDE DEF q
  <2>6. At(q) \in Int /\ At(0) = 0
    BY <2>2, AtZero, AtInt
  <2>3. At(0) < At(q) + FrameShift
    BY <1>1, <2>1, <2>2, <2>6
  <2>4. q >= 0
    BY <2>2, <2>3, AtBounds
  <2>7. At(q + 1) = At(q) + FrameShift /\ q + 1 - 1 = q
    BY <2>2, AtAdd, AtZero
  <2>8. q + 1 \in Nat /\ q + 1 > 0
    BY <2>2, <2>4
  <2>9. At(q) + FrameLen <= len /\ len < At(q + 1) + FrameLen /\ At(q + 1) <= len
    BY <1>1, <2>1, <2>2, <2>6, <2>7
  <2>10. PICK c \in Nat : c = ComputeFrameNum(len) /\ c = q + 1
    BY <2>5, <2>8
  <2>a. c > 0 /\ c - 1 = q
    BY <2>2, <2>8, <2>10
  <2>11. c > 0 /\ At(c) = At(q + 1) /\ At(c - 1) = At(q)
    BY <2>10, <2>a
  <2>. QED  BY <2>9, <2>10, <2>11, <1>3
<1>. QED  BY <1>2, <1>3

LEMMA FbankIs ==
    ASSUME fe.input \in Nat, NEW before \in Nat, NEW n \in Nat, fe.input <= before
    PROVE  LET k == Fbank(before, n)
               F == Len(k.frames)
           IN  /\ F \in Nat /\ k.frames \in Seq(Nat)
               /\ F = ComputeFrameNum(fe.input + n)
               /\ \A i \in 1..F : k.frames[i] = before - fe.input + At(i - 1)
               /\ k.waves = IF F = 0 THEN fe.input + n ELSE At(F - 1) + FrameLen
               /\ k.waves \in Nat
               /\ k.input = fe.input + n - At(F) /\ k.input \in Nat
<1> DEFINE k == Fbank(before, n)
           F == ComputeFrameNum(fe.input + n)
           s == [i \in 1..F |-> before - fe.input + At(i - 1)]
<1>1. fe.input + n \in Nat /\ before - fe.input \in Nat /\ FrameLen \in Nat
  BY FrameAssumption
<1>2. F \in Nat /\ At(F) <= fe.input + n
  BY <1>1, FrameCount
<1>a. k.frames = s
  BY DEF Fbank
<1>10b. k.input = fe.input + n - At(F)
  <2>1. At(F) \in Int
    BY <1>2, AtInt
  <2>. QED  BY <1>1, <1>2, <2>1 DEF Fbank
<1>c. k.waves = IF F = 0 THEN fe.input + n ELSE At(F - 1) + FrameLen
  BY DEF Fbank
<1>3. k.frames = s /\ k.input = fe.input + n - At(F)
      /\ k.waves = IF F = 0 THEN fe.input + n ELSE At(F - 1) + FrameLen
  BY <1>a, <1>10b, <1>c
<1>. HIDE DEF k, F
<1>4. ASSUME NEW i \in 1..F PROVE before - fe.input + At(i - 1) \in Nat
  <2>1. At(i - 1) \in Nat
    BY <1>2, AtInt
  <2>. QED  BY <1>1, <2>1
<1>5. s \in Seq(Nat) /\ Len(s) = F
  BY <1>2, <1>4
<1>6. \A i \in 1..F : s[i] = before - fe.input + At(i - 1)
  OBVIOUS
<1>7. k.input \in Nat
  <2>1. At(F) \in Int
    BY <1>2, AtInt
  <2>. QED  BY <1>1, <1>2, <1>3, <2>1
<1>8. k.waves \in Nat
  <2>1. CASE F = 0
    BY <2>1, <1>1, <1>3
  <2>2. CASE F # 0
    <3>1. At(F - 1) \in Nat
      BY <2>2, <1>2, AtInt
    <3>. QED  BY <3>1, <2>2, <1>1, <1>3
  <2>. QED  BY <2>1, <2>2
<1>. HIDE DEF s
<1>9. Len(k.frames) = F
  BY <1>3, <1>5
<1>10. k.frames \in Seq(Nat) /\ \A i \in 1..F : k.frames[i] = before - fe.input + At(i - 1)
  BY <1>3, <1>5, <1>6
<1>11. F = ComputeFrameNum(fe.input + n)
  BY DEF F
<1>. QED  BY <1>2, <1>3, <1>7, <1>8, <1>9, <1>10, <1>11 DEF k

\* The LFR frames that find all their frames are the first ones.
LEMMA ReadyIs ==
    ASSUME reader \in {"vad", "asr"}, NEW T \in Nat, M <= T
    PROVE  /\ Ready(T) \in Nat /\ 1 <= Ready(T)
           /\ Row(Ready(T) - 1) + M <= T /\ T < Row(Ready(T)) + M
<1> DEFINE q == (T - M) \div N
           c == LfrCount(T)
           S == {i \in 0..c - 1 : M <= T - Row(i)}
<1>1. /\ M \in Nat /\ N \in Nat /\ Pad \in Nat /\ 1 <= N /\ N < M /\ 2 * Pad < M
  BY Sizes
<1>2. q \in Int /\ Row(q) <= T - M /\ T - M < Row(q) + N
  BY <1>1, RowQuotient
<1>3. c \in Int /\ Row(c) <= T - Pad + N - 1 /\ T - Pad + N - 1 < Row(c) + N
  <2>1. PICK m \in Int : m = T - Pad + N - 1
    BY <1>1
  <2>2. c = m \div N
    BY <2>1 DEF LfrCount
  <2>. QED  BY <2>1, <2>2, RowQuotient
<1>4. Row(0) = 0 /\ \A a \in Int : Row(a) \in Int
  BY RowAdd, RowInt
<1>5. 0 <= q
  <2>1. Row(0) < Row(q) + N
    BY <1>1, <1>2, <1>4
  <2>. QED  BY <1>2, <2>1, RowBounds
<1>6. q + 1 <= c
  <2>1. Row(q) < Row(c)
    BY <1>1, <1>2, <1>3, <1>4
  <2>2. Row(c) <= Row(q) => FALSE
    BY <2>1, <1>2, <1>3, <1>4
  <2>3. c <= q => Row(c) <= Row(q)
    BY <1>2, <1>3, RowGrows
  <2>. QED  BY <2>2, <2>3, <1>2, <1>3
<1>7. ASSUME NEW i \in Int PROVE M <= T - Row(i) <=> i <= q
  <2>1. i <= q => Row(i) <= Row(q)
    BY <1>2, RowGrows
  <2>2. i > q => Row(q) + N <= Row(i)
    BY <1>2, RowGrows
  <2>3. Row(i) \in Int /\ Row(q) \in Int
    BY <1>2, <1>4
  <2>. QED  BY <2>1, <2>2, <2>3, <1>1, <1>2
<1>8. S = 0..q
  BY <1>2, <1>3, <1>5, <1>6, <1>7
<1>9. Ready(T) = Cardinality(0..q)
  BY <1>8 DEF Ready
<1>10. Cardinality(0..q) = q + 1
  BY <1>2, <1>5, FS_Interval
<1>11. Row(q + 1) = Row(q) + N
  BY <1>2, RowAdd
<1>. HIDE DEF q
<1>12. Ready(T) = q + 1 /\ Ready(T) - 1 = q
  BY <1>2, <1>9, <1>10
<1>. QED  BY <1>1, <1>2, <1>4, <1>5, <1>11, <1>12

\* All LFR frames of what is left.
LEMMA LfrCountIs ==
    ASSUME reader \in {"vad", "asr"}, NEW T \in Nat, M - N <= T
    PROVE  /\ LfrCount(T) \in Nat
           /\ Row(LfrCount(T)) <= T - Pad + N - 1 /\ T - Pad <= Row(LfrCount(T))
           /\ T > Pad => 1 <= LfrCount(T)
           /\ N = 1 => LfrCount(T) = T - Pad
<1> DEFINE c == LfrCount(T)
<1>1. M \in Nat /\ N \in Nat /\ Pad \in Nat /\ 1 <= N /\ N < M /\ 2 * Pad < M
  BY Sizes
<1>2. c \in Int /\ Row(c) <= T - Pad + N - 1 /\ T - Pad + N - 1 < Row(c) + N
  <2>1. PICK m \in Int : m = T - Pad + N - 1
    BY <1>1
  <2>2. c = m \div N
    BY <2>1 DEF LfrCount
  <2>. QED  BY <2>1, <2>2, RowQuotient
<1>3. Row(c) \in Int /\ Row(0) = 0 /\ Row(1) = N
  BY <1>2, RowInt, RowAdd
<1>4. 0 <= c
  <2>1. Row(0) < Row(c) + N
    BY <1>1, <1>2, <1>3
  <2>. QED  BY <1>2, <2>1, RowBounds
<1>5. T > Pad => 1 <= c
  <2>1. T > Pad => Row(1) < Row(c) + N
    BY <1>1, <1>2, <1>3
  <2>. QED  BY <1>2, <2>1, RowBounds
<1>6. N = 1 => Row(c) = c
  BY <1>2, RowAdd
<1>. HIDE DEF c
<1>. QED  BY <1>1, <1>2, <1>3, <1>4, <1>5, <1>6 DEF c

\* The frames of a call continue those of the calls before.
LEMMA FramesFollow ==
    ASSUME Types, Within, UtteranceFresh, NEW n \in Nat
    PROVE  LET k == Fbank(Was(samples), n)
               F == Len(k.frames)
           IN  /\ F \in Nat /\ k.frames \in Seq(Nat)
               /\ F = ComputeFrameNum(fe.input + n)
               /\ \A i \in 1..F : k.frames[i] = At(Was(frames) + i - 1)
               /\ k.waves = IF F = 0 THEN fe.input + n ELSE At(F - 1) + FrameLen
               /\ k.waves \in Nat
               /\ k.input = Was(samples) + n - At(Was(frames) + F) /\ k.input \in Nat
<1> DEFINE b == Was(samples)
           t == Was(frames)
           k == Fbank(b, n)
           F == Len(k.frames)
<1>1. fe.input \in Nat /\ samples \in Nat /\ frames \in Nat /\ call.final \in BOOLEAN
  BY DEF Types
<1>2. b \in Nat /\ t \in Nat
  BY <1>1 DEF Was
<1>3. b - fe.input = At(t)
  <2>1. CASE call.final
    BY <2>1, AtZero DEF UtteranceFresh, NoCache, Was
  <2>2. CASE ~call.final
    <3>1. At(frames) \in Int
      BY <1>1, AtInt
    <3>. QED  BY <2>2, <3>1, <1>1 DEF Within, Was
  <2>. QED  BY <2>1, <2>2
<1>4. At(t) \in Nat
  BY <1>2, AtInt
<1>5. fe.input <= b
  BY <1>1, <1>2, <1>3, <1>4
<1>. HIDE DEF b, t
<1>6. /\ F \in Nat /\ k.frames \in Seq(Nat)
      /\ F = ComputeFrameNum(fe.input + n)
      /\ k.waves = IF F = 0 THEN fe.input + n ELSE At(F - 1) + FrameLen
      /\ k.waves \in Nat /\ k.input \in Nat
  BY <1>1, <1>2, <1>5, FbankIs
<1>7. \A i \in 1..F : k.frames[i] = b - fe.input + At(i - 1)
  BY <1>1, <1>2, <1>5, FbankIs
<1>8. k.input = fe.input + n - At(F)
  BY <1>1, <1>2, <1>5, FbankIs
<1>. HIDE DEF k, F
<1>9. ASSUME NEW i \in 1..F PROVE k.frames[i] = At(t + i - 1)
  <2>1. i \in Int /\ i - 1 \in Int /\ t + (i - 1) = t + i - 1
    BY <1>2, <1>6
  <2>2. At(t + (i - 1)) = At(t) + At(i - 1)
    BY <1>2, <2>1, AtAdd
  <2>. QED  BY <1>3, <1>7, <2>1, <2>2
<1>10. k.input = b + n - At(t + F)
  <2>1. At(t + F) = At(t) + At(F) /\ At(F) \in Int
    BY <1>2, <1>6, AtAdd, AtInt
  <2>. QED  BY <1>1, <1>2, <1>3, <1>4, <1>8, <2>1
<1>. QED  BY <1>6, <1>9, <1>10 DEF b, t, k, F

LEMMA JoinedIs ==
    ASSUME Types, Within, UtteranceFresh, NEW new \in Seq(Nat),
           \A i \in 1..Len(new) : new[i] = At(Was(frames) + i - 1),
           new # <<>> \/ ~call.final
    PROVE  /\ Joined(new) \in Seq(Nat)
           /\ Follow(Joined(new), Was(outs), Was(frames) + Len(new))
<1>1. /\ fe.splice \in Seq(Nat) /\ frames \in Nat /\ outs \in Nat
      /\ reader \in {"vad", "asr"}
  BY DEF Types
<1>2. Pad \in Nat /\ M \in Nat /\ N \in Nat /\ N < M
  BY <1>1, Sizes
<1>3. Len(new) \in Nat
  OBVIOUS
<1>4. CASE call.final
  <2>1. new # <<>> /\ Len(new) >= 1 /\ 1 \in 1..Len(new)
    BY <1>3, <1>4
  <2>2. fe.splice = <<>> /\ Was(frames) = 0 /\ Was(outs) = 0
    BY <1>4 DEF UtteranceFresh, NoCache, Was
  <2> DEFINE pad == [i \in 1..Pad |-> new[1]]
  <2>3. pad \in Seq(Nat) /\ Len(pad) = Pad /\ \A p \in 1..Pad : pad[p] = new[1]
    BY <1>2, <2>1
  <2>4. Joined(new) = pad \o new
    BY <2>1, <2>2 DEF Joined
  <2>. HIDE DEF pad
  <2>5. Joined(new) \in Seq(Nat) /\ Len(Joined(new)) = Pad + Len(new)
    BY <2>3, <2>4, ConcatProperties
  <2>6. Row(0) = 0
    BY <1>1, RowAdd
  <2>7. ASSUME NEW p \in 1..Pad + Len(new)
        PROVE  Joined(new)[p] = At(Clip(0 + p - 1 - Pad))
    <3>1. CASE p <= Pad
      <4>1. Joined(new)[p] = new[1]
        BY <3>1, <1>2, <2>3, <2>4
      <4>2. new[1] = At(0)
        BY <2>1, <2>2
      <4>3. Clip(0 + p - 1 - Pad) = 0
        BY <3>1, <1>2, <1>3 DEF Clip
      <4>. QED  BY <4>1, <4>2, <4>3
    <3>2. CASE p > Pad
      <4>1. p - Pad \in 1..Len(new)
        BY <3>2, <1>2, <1>3
      <4>2. Joined(new)[p] = new[p - Pad]
        BY <3>2, <4>1, <1>2, <2>3, <2>4
      <4>3. new[p - Pad] = At(0 + (p - Pad) - 1)
        BY <4>1, <2>2
      <4>4. Clip(0 + p - 1 - Pad) = 0 + (p - Pad) - 1
        BY <3>2, <1>2, <1>3 DEF Clip
      <4>. QED  BY <4>2, <4>3, <4>4
    <3>. QED  BY <3>1, <3>2, <1>2, <1>3
  <2>8. Pad + Len(new) = 0 + Len(new) + Pad - 0
    BY <1>2, <1>3
  <2>. QED  BY <2>2, <2>5, <2>6, <2>7, <2>8 DEF Follow
<1>5. CASE ~call.final
  <2> DEFINE s == fe.splice
  <2>1. /\ Len(s) = frames + Pad - Row(outs)
        /\ Len(s) \in M - N..M - 1
        /\ \A p \in 1..Len(s) : s[p] = At(Clip(Row(outs) + p - 1 - Pad))
    BY <1>5 DEF Within, Follow
  <2>2. Was(frames) = frames /\ Was(outs) = outs
    BY <1>5 DEF Was
  <2>3. s # <<>>
    BY <1>1, <1>2, <2>1
  <2>4. Joined(new) = s \o new
    BY <2>3 DEF Joined
  <2>5. s \in Seq(Nat) /\ Len(s) \in Nat
    BY <1>1
  <2>. HIDE DEF s
  <2>6. Joined(new) \in Seq(Nat) /\ Len(Joined(new)) = Len(s) + Len(new)
    BY <2>4, <2>5
  <2>7. Row(outs) \in Nat
    <3>1. outs \in Int /\ outs >= 0
      BY <1>1
    <3>. QED  BY <3>1, <1>1, RowInt
  <2>8. ASSUME NEW p \in 1..Len(s) + Len(new)
        PROVE  Joined(new)[p] = At(Clip(Row(outs) + p - 1 - Pad))
    <3>1. CASE p <= Len(s)
      <4>1. Joined(new)[p] = s[p] /\ p \in 1..Len(s)
        BY <3>1, <2>4, <2>5, <1>3
      <4>. QED  BY <4>1, <2>1
    <3>2. CASE p > Len(s)
      <4>1. p - Len(s) \in 1..Len(new)
        BY <3>2, <2>5, <1>3
      <4>2. Joined(new)[p] = new[p - Len(s)]
        BY <3>2, <4>1, <2>4, <2>5
      <4>3. new[p - Len(s)] = At(frames + (p - Len(s)) - 1)
        BY <4>1, <2>2
      <4>4. Row(outs) + p - 1 - Pad = frames + (p - Len(s)) - 1
        <5>1. p \in Int
          OBVIOUS
        <5>2. Len(s) = frames + Pad - Row(outs)
          BY <2>1
        <5>. QED  BY <5>1, <5>2, <1>1, <1>2, <2>5, <2>7
      <4>5. frames + (p - Len(s)) - 1 >= 0
        BY <4>1, <1>1, <1>3
      <4>6. Clip(Row(outs) + p - 1 - Pad) = frames + (p - Len(s)) - 1
        BY <4>4, <4>5, <2>7, <1>1, <1>2, <2>5 DEF Clip
      <4>. QED  BY <4>2, <4>3, <4>6
    <3>. QED  BY <3>1, <3>2, <2>5, <1>3
  <2>9. Len(s) + Len(new) = frames + Len(new) + Pad - Row(outs)
    BY <1>1, <1>2, <1>3, <2>1, <2>5, <2>7
  <2>. QED  BY <2>2, <2>6, <2>8, <2>9 DEF Follow
<1>. QED  BY <1>4, <1>5

LEMMA RowDivides ==
    ASSUME reader \in {"vad", "asr"}, NEW a \in Int, NEW m \in Int, Row(a) <= m, m < Row(a) + N
    PROVE  m \div N = a
<1> DEFINE q == m \div N
<1>1. q \in Int /\ Row(q) <= m /\ m < Row(q) + N
  BY RowQuotient
<1>2. Row(a) \in Int /\ Row(q) \in Int /\ N \in Int
  BY <1>1, RowInt, Sizes
<1>. HIDE DEF q
<1>3. Row(a) < Row(q) + N /\ Row(q) < Row(a) + N
  BY <1>1, <1>2
<1>4. a <= q /\ q <= a
  BY <1>1, <1>3, RowBounds
<1>5. q = a
  BY <1>1, <1>4
<1>. QED  BY <1>5 DEF q

\* The j-th frame of an LFR frame is the one the offline front end takes.
LEMMA FrameOfRow ==
    ASSUME reader \in {"vad", "asr"}, NEW all \in Seq(Nat), NEW made \in Nat,
           NEW total \in Nat, 1 <= total, Follow(all, made, total), 1 <= Len(all),
           NEW k \in Nat, 1 <= k, NEW j \in 1..M
    PROVE  LET p == Lesser(Len(all), Row(k - 1) + j)
               f == Row(made + k - 1) + j - 1 - Pad
           IN  /\ p \in 1..Len(all) /\ all[p] \in Nat
               /\ all[p] = At(IF f < 0 THEN 0 ELSE Lesser(f, total - 1))
<1> DEFINE T == Len(all)
           p == Lesser(T, Row(k - 1) + j)
           f == Row(made + k - 1) + j - 1 - Pad
           g == Row(made) + p - 1 - Pad
<1>1. M \in Nat /\ Pad \in Nat /\ T \in Nat /\ j \in Int /\ 1 <= j /\ 1 <= T
  BY Sizes
<1>2. made \in Int /\ made >= 0 /\ k - 1 \in Int /\ k - 1 >= 0 /\ made + (k - 1) = made + k - 1
  OBVIOUS
<1>3. Row(made) \in Nat /\ Row(k - 1) \in Nat
  BY <1>2, RowInt
<1>4. Row(made + k - 1) = Row(made) + Row(k - 1)
  <2>1. Row(made + (k - 1)) = Row(made) + Row(k - 1)
    BY <1>2, RowAdd
  <2>. QED  BY <2>1, <1>2
<1>5. p \in 1..T
  BY <1>1, <1>3 DEF Lesser
<1>6. all[p] = At(Clip(g))
  BY <1>5 DEF Follow
<1>7. T = total + Pad - Row(made)
  BY DEF Follow
<1>8. all[p] \in Nat
  BY <1>5
<1>9. Clip(g) = IF f < 0 THEN 0 ELSE Lesser(f, total - 1)
  <2>1. PICK a \in Nat : a = Row(made)
    BY <1>3
  <2>2. PICK b \in Nat : b = Row(k - 1)
    BY <1>3
  <2>3. PICK c \in Nat : c = Pad
    BY <1>1
  <2>4. PICK t \in Nat : t = T
    BY <1>1
  <2>5. PICK i \in Int : i = j /\ 1 <= i
    BY <1>1
  <2>6. 1 <= t /\ t = total + c - a
    BY <1>1, <1>7, <2>1, <2>3, <2>4
  <2>. DEFINE ff == a + b + i - 1 - c
              gg == a + Lesser(t, b + i) - 1 - c
  <2>7. Clip(gg) = IF ff < 0 THEN 0 ELSE Lesser(ff, total - 1)
    <3>1. CASE b + i < t
      BY <2>5, <2>6, <3>1 DEF Clip, Lesser
    <3>2. CASE ~ (b + i < t)
      BY <2>5, <2>6, <3>2 DEF Clip, Lesser
    <3>. QED  BY <3>1, <3>2
  <2>8. f = ff
    BY <1>4, <2>1, <2>2, <2>3, <2>5
  <2>9. g = gg
    BY <2>1, <2>2, <2>3, <2>4, <2>5
  <2>. QED  BY <2>7, <2>8, <2>9
<1>. QED  BY <1>5, <1>6, <1>8, <1>9

\* LFR frames that follow those made so far, as the offline front end makes them.
Made(feats, made, total) == \A k \in 1..Len(feats) : feats[k] = OfflineLfr(made + k, total)

LEMMA LfrJoins ==
    ASSUME reader \in {"vad", "asr"}, NEW all \in Seq(Nat), NEW made \in Nat,
           NEW total \in Nat, 1 <= total, Follow(all, made, total), M - N <= Len(all),
           NEW final \in BOOLEAN, final \/ M <= Len(all)
    PROVE  LET lfr == OnlineLfr(all, final)
               R == Len(lfr.feats)
           IN  /\ R = IF final THEN LfrCount(Len(all)) ELSE Ready(Len(all))
               /\ R \in Nat /\ lfr.feats \in Seq(Seq(Nat))
               /\ Made(lfr.feats, made, total)
<1> DEFINE T == Len(all)
           R == IF final THEN LfrCount(T) ELSE Ready(T)
           row(k) == [j \in 1..M |-> all[Lesser(T, Row(k - 1) + j)]]
           s == [k \in 1..R |-> row(k)]
           lfr == OnlineLfr(all, final)
<1>1. lfr.feats = s
  BY DEF OnlineLfr
<1>2. M \in Nat /\ N \in Nat /\ 1 <= N /\ N < M /\ T \in Nat
  BY Sizes
<1>3. R \in Nat
  <2>1. final => LfrCount(T) \in Nat
    BY <1>2, LfrCountIs
  <2>2. ~final => Ready(T) \in Nat
    BY <1>2, ReadyIs
  <2>. QED  BY <2>1, <2>2
<1>4. 1 <= T
  BY <1>2
<1>. HIDE DEF R
<1>5. ASSUME NEW k \in 1..R PROVE row(k) \in Seq(Nat) /\ row(k) = OfflineLfr(made + k, total)
  <2>1. k \in Nat /\ 1 <= k
    BY <1>3
  <2>2. ASSUME NEW j \in 1..M
        PROVE  /\ all[Lesser(T, Row(k - 1) + j)] \in Nat
               /\ all[Lesser(T, Row(k - 1) + j)]
                    = LET f == Row(made + k - 1) + j - 1 - Pad
                      IN  At(IF f < 0 THEN 0 ELSE Lesser(f, total - 1))
    BY <2>1, <1>4, FrameOfRow
  <2>3. row(k) \in Seq(Nat)
    BY <2>2, <1>2
  <2>4. row(k) = OfflineLfr(made + k, total)
    BY <2>2 DEF OfflineLfr
  <2>. QED  BY <2>3, <2>4
<1>. HIDE DEF row
<1>6. s \in Seq(Seq(Nat)) /\ Len(s) = R
  BY <1>3, <1>5
<1>7. \A k \in 1..R : s[k] = OfflineLfr(made + k, total)
  BY <1>5
<1>. HIDE DEF s, lfr
<1>8. Len(lfr.feats) = R
  BY <1>1, <1>6
<1>9. Made(lfr.feats, made, total)
  BY <1>1, <1>7, <1>8 DEF Made
<1>. QED  BY <1>1, <1>3, <1>6, <1>8, <1>9 DEF R, lfr

\* The last call makes what is left, as many LFR frames as the offline front end.
LEMMA LfrEnds ==
    ASSUME reader \in {"vad", "asr"}, NEW T \in Nat, NEW made \in Nat, NEW total \in Nat,
           T = total + Pad - Row(made), M - N <= T
    PROVE  made + LfrCount(T) = (total + N - 1) \div N
<1> DEFINE c == LfrCount(T)
<1>1. M \in Nat /\ N \in Nat /\ Pad \in Nat /\ 1 <= N
  BY Sizes
<1>2. c \in Nat /\ Row(c) <= T - Pad + N - 1 /\ T - Pad <= Row(c)
  BY LfrCountIs
<1>. HIDE DEF c
<1>3. c \in Int /\ made \in Int /\ c >= 0 /\ made >= 0
  BY <1>2
<1>4. Row(made + c) = Row(made) + Row(c) /\ Row(made) \in Int /\ Row(c) \in Int
  BY <1>3, RowAdd, RowInt
<1>5. Row(made + c) <= total + N - 1 /\ total + N - 1 < Row(made + c) + N
  BY <1>1, <1>2, <1>4
<1>6. PICK m \in Int : m = total + N - 1
  BY <1>1
<1>7. made + c \in Int
  BY <1>3
<1>8. m \div N = made + c
  BY <1>5, <1>6, <1>7, RowDivides
<1>. QED  BY <1>6, <1>8 DEF c

\* A call in the middle makes the LFR frames that have all their frames, and keeps
\* what stands behind them.
LEMMA LfrWaits ==
    ASSUME reader \in {"vad", "asr"}, NEW all \in Seq(Nat), NEW made \in Nat,
           NEW total \in Nat, Follow(all, made, total), M <= Len(all)
    PROVE  LET lfr == OnlineLfr(all, FALSE)
               R == Ready(Len(all))
           IN  /\ R \in Nat /\ 1 <= R /\ lfr.idx = Row(R)
               /\ \A k \in 1..R : Row(made + k - 1) + M - Pad <= total
               /\ lfr.splice \in Seq(Nat) /\ Follow(lfr.splice, made + R, total)
               /\ Len(lfr.splice) = Len(all) - Row(R)
               /\ Len(lfr.splice) \in M - N..M - 1
<1> DEFINE T == Len(all)
           R == Ready(T)
           lfr == OnlineLfr(all, FALSE)
<1>1. M \in Nat /\ N \in Nat /\ Pad \in Nat /\ 1 <= N /\ N < M /\ T \in Nat
  BY Sizes
<1>2. R \in Nat /\ 1 <= R /\ Row(R - 1) + M <= T /\ T < Row(R) + M
  BY <1>1, ReadyIs
<1>3. lfr.idx = Lesser(T - 1, Row(R)) /\ lfr.splice = SubSeq(all, lfr.idx + 1, T)
  BY DEF OnlineLfr, SpliceAt
<1>. HIDE DEF R, lfr
<1>4. R \in Int /\ R - 1 \in Int /\ made \in Int /\ R >= 0 /\ made >= 0 /\ R - 1 + 1 = R
  BY <1>2
<1>5. Row(R) \in Nat /\ Row(made) \in Nat /\ Row(made + R) = Row(made) + Row(R)
  BY <1>4, RowInt, RowAdd
<1>6. Row(R) = Row(R - 1) + N /\ Row(R - 1) \in Int
  <2>1. Row(R - 1 + 1) = Row(R - 1) + Row(1) /\ Row(1) = N
    BY <1>4, RowAdd
  <2>. QED  BY <2>1, <1>4, RowInt
<1>7. Row(R) <= T - 1 /\ lfr.idx = Row(R)
  <2>1. Row(R) <= T - 1
    BY <1>1, <1>2, <1>5, <1>6
  <2>. QED  BY <2>1, <1>1, <1>3, <1>5 DEF Lesser
<1>8. T = total + Pad - Row(made)
  BY DEF Follow
<1> DEFINE s == SubSeq(all, Row(R) + 1, T)
<1>9. s \in Seq(Nat) /\ Len(s) = T - Row(R)
      /\ \A p \in 1..T - Row(R) : s[p] = all[Row(R) + p]
  <2>1. PICK a \in 1..T : a = Row(R) + 1
    BY <1>1, <1>5, <1>7
  <2>2. \A p \in a..T : all[p] \in Nat
    BY <2>1, <1>1
  <2>3. a \in Int /\ T \in Int /\ a <= T
    BY <2>1, <1>1
  <2>4. /\ SubSeq(all, a, T) \in Seq(Nat) /\ Len(SubSeq(all, a, T)) = T - a + 1
        /\ \A p \in 1..T - a + 1 : SubSeq(all, a, T)[p] = all[a + p - 1]
    BY <2>2, <2>3, SubSeqProperties
  <2>5. T - a + 1 = T - Row(R)
    BY <2>1, <1>1, <1>5
  <2>6. ASSUME NEW p \in 1..T - Row(R) PROVE a + p - 1 = Row(R) + p
    BY <2>1, <1>1, <1>5
  <2>. QED  BY <2>1, <2>4, <2>5, <2>6
<1>10. lfr.splice = s
  BY <1>3, <1>7
<1>. HIDE DEF s
<1>11. T - Row(R) \in M - N..M - 1
  <2>1. T - Row(R) \in Int /\ T - Row(R) <= M - 1
    BY <1>1, <1>2, <1>5
  <2>2. M - N <= T - Row(R)
    BY <1>1, <1>2, <1>5, <1>6
  <2>. QED  BY <2>1, <2>2, <1>1
<1>12. Follow(s, made + R, total)
  <2>1. Len(s) = total + Pad - Row(made + R)
    BY <1>1, <1>5, <1>8, <1>9
  <2>2. ASSUME NEW p \in 1..T - Row(R)
        PROVE  s[p] = At(Clip(Row(made + R) + p - 1 - Pad))
    <3>1. Row(R) + p \in 1..T
      BY <1>1, <1>5, <1>7
    <3>2. all[Row(R) + p] = At(Clip(Row(made) + (Row(R) + p) - 1 - Pad))
      BY <3>1 DEF Follow
    <3>3. p \in Int
      BY <1>1, <1>5
    <3>4. Row(made) + (Row(R) + p) - 1 - Pad = Row(made + R) + p - 1 - Pad
      BY <3>3, <1>1, <1>5
    <3>. QED  BY <3>2, <3>4, <1>9
  <2>. QED  BY <2>1, <2>2, <1>9 DEF Follow
<1>13. ASSUME NEW k \in 1..R PROVE Row(made + k - 1) + M - Pad <= total
  <2>1. k - 1 \in Int /\ k - 1 <= R - 1 /\ made + (k - 1) = made + k - 1
    BY <1>2
  <2>2. Row(k - 1) <= Row(R - 1) /\ Row(k - 1) \in Int
    BY <2>1, <1>4, RowGrows, RowInt
  <2>3. Row(made + (k - 1)) = Row(made) + Row(k - 1)
    BY <2>1, <1>4, RowAdd
  <2>4. Row(made + k - 1) = Row(made) + Row(k - 1)
    BY <2>1, <2>3
  <2>5. Row(R - 1) + M <= total + Pad - Row(made)
    BY <1>2, <1>8
  <2>6. PICK a \in Int, b \in Int, c \in Int : a = Row(k - 1) /\ b = Row(R - 1) /\ c = Row(made)
    BY <2>2, <1>5, <1>6
  <2>7. a <= b /\ b + M <= total + Pad - c
    BY <2>2, <2>5, <2>6
  <2>8. c + a + M - Pad <= total
    BY <2>7, <1>1
  <2>. QED  BY <2>4, <2>6, <2>8
<1>. QED  BY <1>2, <1>7, <1>9, <1>10, <1>11, <1>12, <1>13 DEF R, lfr

\* The frames in the audio that goes with the features.
FramesIn(waves) == ((waves + fe.reserve) - FrameLen) \div FrameShift + 1

\* The four ways of a call: it joins frames, or has too few for that, or joins what
\* is left, or does nothing.
Ways(x, k, F, all, lfr, final) ==
    /\ x.count = F
    /\ final => x.fe = NoCache
    /\ F > 0 /\ Len(all) >= M =>
         /\ x.feats = lfr.feats /\ x.raw = FALSE
         /\ x.waves = At(FramesIn(k.waves) - 1) + FrameLen
         /\ ~final => x.fe = [input |-> k.input, splice |-> lfr.splice, reserve |->
                                At(FramesIn(k.waves) - ReserveFrom(lfr.idx, fe.reserve = 0))]
    /\ F > 0 /\ ~(Len(all) >= M) =>
         /\ x.feats = [i \in 1..F |-> <<k.frames[i]>>] /\ x.raw = TRUE
    /\ ~(F > 0) /\ final /\ fe.splice # <<>> =>
         /\ x.feats = lfr.feats /\ x.raw = FALSE
         /\ x.waves = IF fe.reserve > 0 THEN fe.reserve ELSE k.waves
    /\ ~(F > 0) /\ ~(final /\ fe.splice # <<>>) =>
         /\ x.feats = <<>> /\ x.raw = FALSE
         /\ ~final => x.fe = [input |-> k.input, splice |-> fe.splice, reserve |-> fe.reserve]

LEMMA ExtractIs ==
    ASSUME NEW before, NEW n, NEW final \in BOOLEAN,
           NEW k, k = Fbank(before, n), NEW F, F = Len(k.frames),
           NEW all, all = Joined(k.frames), NEW lfr, lfr = OnlineLfr(all, final),
           NEW x, x = ExtractFeats(before, n, final)
    PROVE  Ways(x, k, F, all, lfr, final)
<1> DEFINE waves == k.waves + fe.reserve
           Result(feats, raw, len, reserve, splice) ==
             [count |-> F, feats |-> feats, raw |-> raw, waves |-> len,
              fe |-> IF final THEN NoCache
                     ELSE [input |-> k.input, reserve |-> reserve, splice |-> splice]]
<1>1. x = IF F > 0 /\ Len(all) >= M
          THEN Result(lfr.feats, FALSE, At(FramesIn(k.waves) - 1) + FrameLen,
                      At(FramesIn(k.waves) - ReserveFrom(lfr.idx, fe.reserve = 0)), lfr.splice)
          ELSE IF F > 0
          THEN Result([i \in 1..F |-> <<k.frames[i]>>], TRUE, waves,
                      waves - (FrameLen - FrameShift), all)
          ELSE IF final /\ fe.splice # <<>>
          THEN Result(lfr.feats, FALSE, IF fe.reserve > 0 THEN fe.reserve ELSE k.waves, 0, <<>>)
          ELSE Result(<<>>, FALSE, k.waves, fe.reserve, fe.splice)
  <2> DEFINE kk == Fbank(before, n)
             FF == Len(kk.frames)
             aa == Joined(kk.frames)
             ll == OnlineLfr(aa, final)
             ww == kk.waves + fe.reserve
             Res(feats, raw, len, reserve, splice) ==
               [count |-> FF, feats |-> feats, raw |-> raw, waves |-> len,
                fe |-> IF final THEN NoCache
                       ELSE [input |-> kk.input, reserve |-> reserve, splice |-> splice]]
  <2>1. ExtractFeats(before, n, final)
          = IF FF > 0 /\ Len(aa) >= M
            THEN Res(ll.feats, FALSE, At(FramesIn(kk.waves) - 1) + FrameLen,
                     At(FramesIn(kk.waves) - ReserveFrom(ll.idx, fe.reserve = 0)), ll.splice)
            ELSE IF FF > 0
            THEN Res([i \in 1..FF |-> <<kk.frames[i]>>], TRUE, ww,
                     ww - (FrameLen - FrameShift), aa)
            ELSE IF final /\ fe.splice # <<>>
            THEN Res(ll.feats, FALSE, IF fe.reserve > 0 THEN fe.reserve ELSE kk.waves, 0, <<>>)
            ELSE Res(<<>>, FALSE, kk.waves, fe.reserve, fe.splice)
    BY Zenon DEF ExtractFeats, FramesIn
  <2>2. kk = k
    OBVIOUS
  <2>3. FF = F /\ aa = all /\ ww = waves
    BY <2>2
  <2>4. ll = lfr
    BY <2>3
  <2>. HIDE DEF kk, FF, aa, ll, ww
  <2>. QED  BY Zenon, <2>1, <2>2, <2>3, <2>4
<1>. HIDE DEF waves
<1>2. x.count = F /\ (final => x.fe = NoCache)
  BY <1>1
<1>3. ASSUME F > 0 /\ Len(all) >= M
      PROVE  /\ x.feats = lfr.feats /\ x.raw = FALSE
             /\ x.waves = At(FramesIn(k.waves) - 1) + FrameLen
             /\ ~final => x.fe = [input |-> k.input, splice |-> lfr.splice, reserve |->
                                    At(FramesIn(k.waves) - ReserveFrom(lfr.idx, fe.reserve = 0))]
  BY <1>1, <1>3
<1>4. ASSUME F > 0 /\ ~(Len(all) >= M)
      PROVE  x.feats = [i \in 1..F |-> <<k.frames[i]>>] /\ x.raw = TRUE
  BY <1>1, <1>4
<1>5. ASSUME ~(F > 0) /\ final /\ fe.splice # <<>>
      PROVE  /\ x.feats = lfr.feats /\ x.raw = FALSE
             /\ x.waves = IF fe.reserve > 0 THEN fe.reserve ELSE k.waves
  <2>1. x = Result(lfr.feats, FALSE, IF fe.reserve > 0 THEN fe.reserve ELSE k.waves, 0, <<>>)
    BY <1>1, <1>5, Zenon
  <2>2. x.feats = lfr.feats /\ x.raw = FALSE
    BY <2>1
  <2>3. x.waves = IF fe.reserve > 0 THEN fe.reserve ELSE k.waves
    BY <2>1
  <2>. QED  BY <2>2, <2>3
<1>6. ASSUME ~(F > 0) /\ ~(final /\ fe.splice # <<>>)
      PROVE  /\ x.feats = <<>> /\ x.raw = FALSE
             /\ ~final => x.fe = [input |-> k.input, splice |-> fe.splice,
                                  reserve |-> fe.reserve]
  BY <1>1, <1>6
<1>. QED  BY Zenon, <1>2, <1>3, <1>4, <1>5, <1>6 DEF Ways

LEMMA ExtractWays ==
    ASSUME NEW before, NEW n, NEW final \in BOOLEAN
    PROVE  \E k, F, all, lfr :
             /\ k = Fbank(before, n) /\ F = Len(k.frames) /\ all = Joined(k.frames)
             /\ lfr = OnlineLfr(all, final)
             /\ Ways(ExtractFeats(before, n, final), k, F, all, lfr, final)
<1>1. PICK k : k = Fbank(before, n)
  OBVIOUS
<1>2. PICK F, all : F = Len(k.frames) /\ all = Joined(k.frames)
  OBVIOUS
<1>3. PICK lfr : lfr = OnlineLfr(all, final)
  OBVIOUS
<1>4. PICK x : x = ExtractFeats(before, n, final)
  OBVIOUS
<1>5. Ways(x, k, F, all, lfr, final)
  BY <1>1, <1>2, <1>3, <1>4, ExtractIs
<1>. QED  BY Zenon, <1>1, <1>2, <1>3, <1>4, <1>5

\* What every call keeps of the whole, whichever way it goes: it makes the next LFR
\* frames of the utterance, and what it leaves stands behind them.
Whole(x, made, total, final) ==
    /\ \A k \in 1..Len(x.feats) :
          /\ x.feats[k] = OfflineLfr(made + k, total)
          /\ final \/ Row(made + k - 1) + M - Pad <= total
    /\ final /\ x.feats # <<>> => made + Len(x.feats) = (total + N - 1) \div N

Keeps(x, n, made, total) ==
    /\ 1 <= total
    /\ x.fe = [input |-> Was(samples) + n - At(total), reserve |-> x.fe.reserve,
               splice |-> x.fe.splice]
    /\ Was(samples) + n - At(total) \in Nat
    /\ x.fe.splice \in Seq(Nat) /\ Follow(x.fe.splice, made + Len(x.feats), total)
    /\ Len(x.fe.splice) \in M - N..M - 1

\* A call, and the numbers of LFR frames before it, of frames with it, and of those
\* it has to join.
Setting(x, n, final, made, total, T) ==
    /\ x = ExtractFeats(Was(samples), n, final)
    /\ made = Was(outs) /\ total = Was(frames) + x.count
    /\ T = total + Pad - Row(made)

Outcome(x, n, final, made, total, T) ==
    /\ made \in Nat /\ total \in Nat /\ T \in Int
    /\ x.count \in Nat /\ x.count = ComputeFrameNum(fe.input + n)
    /\ x.feats \in Seq(Seq(Nat)) /\ x.raw \in BOOLEAN
    /\ x.raw => 1 <= x.count /\ T < M /\ x.feats # <<>>
    /\ ~x.raw /\ 1 <= x.count =>
         M <= T /\ Len(x.feats) = IF final THEN LfrCount(T) ELSE Ready(T)
    /\ x.count = 0 /\ final /\ ~call.final => M - N <= T /\ Len(x.feats) = LfrCount(T)
    /\ x.count = 0 /\ ~(final /\ ~call.final) => x.feats = <<>>
    /\ ~x.raw => Whole(x, made, total, final)
    /\ final => x.fe = NoCache
    /\ ~final /\ ~x.raw /\ (1 <= x.count \/ ~call.final) => Keeps(x, n, made, total)

LEMMA CallJoins ==
    ASSUME Types, Within, UtteranceFresh, NEW n \in Nat, NEW final \in BOOLEAN,
           NEW x, NEW made, NEW total, NEW T, Setting(x, n, final, made, total, T)
    PROVE  Outcome(x, n, final, made, total, T)
<1>1. /\ reader \in {"vad", "asr"} /\ fe.splice \in Seq(Nat) /\ fe.input \in Nat
      /\ frames \in Nat /\ outs \in Nat /\ samples \in Nat /\ call.final \in BOOLEAN
  BY DEF Types
<1>2. M \in Nat /\ N \in Nat /\ Pad \in Nat /\ 1 <= N /\ N < M /\ 2 * Pad < M
  BY <1>1, Sizes
<1>10b. PICK b \in Nat : b = Was(samples)
  BY <1>1 DEF Was
<1>10a. PICK t \in Nat : t = Was(frames)
  BY <1>1 DEF Was
<1>3. made \in Nat /\ made = Was(outs)
  BY <1>1 DEF Was, Setting
<1>4. Row(made) \in Nat
  <2>1. made \in Int /\ made >= 0
    BY <1>3
  <2>. QED  BY <2>1, <1>1, RowInt
<1>5. x = ExtractFeats(b, n, final)
  BY <1>10b DEF Setting
<1>6. PICK k, F, all, lfr :
        /\ k = Fbank(b, n) /\ F = Len(k.frames) /\ all = Joined(k.frames)
        /\ lfr = OnlineLfr(all, final) /\ Ways(ExtractFeats(b, n, final), k, F, all, lfr, final)
  BY ExtractWays
<1>7. F = Len(k.frames)
  BY <1>6
<1>8. lfr = OnlineLfr(all, final) /\ all = Joined(k.frames)
  BY <1>6
<1>10c. Ways(x, k, F, all, lfr, final)
  BY <1>5, <1>6
<1>9. /\ F \in Nat /\ k.frames \in Seq(Nat) /\ F = ComputeFrameNum(fe.input + n)
      /\ \A i \in 1..F : k.frames[i] = At(t + i - 1)
      /\ k.input = b + n - At(t + F) /\ k.input \in Nat
  BY <1>10b, <1>10a, <1>6, FramesFollow
<1>10. x.count = F
  BY <1>10c DEF Ways
<1>11. final => x.fe = NoCache
  BY <1>10c DEF Ways
<1>12. total = t + F /\ total \in Nat /\ T \in Int
  <2>1. total = t + F
    BY <1>10, <1>10a DEF Setting
  <2>2. T = total + Pad - Row(made)
    BY DEF Setting
  <2>3. F \in Nat /\ Pad \in Nat
    BY <1>2, <1>9
  <2>4. total \in Nat
    BY <2>1, <2>3
  <2>. QED  BY <2>1, <2>2, <2>3, <2>4, <1>4
<1>12a. T = total + Pad - Row(made)
  BY DEF Setting
<1>12b. F \in Nat /\ x.count = F /\ F = ComputeFrameNum(fe.input + n)
  BY <1>9, <1>10
<1>12c. made \in Nat /\ total \in Nat /\ T \in Int
  BY <1>3, <1>12
<1>12d. k.frames \in Seq(Nat)
  BY <1>9
<1>13. F >= 1 \/ ~call.final => all \in Seq(Nat) /\ Follow(all, made, total) /\ Len(all) = T
  <2>1. HAVE F >= 1 \/ ~call.final
  <2>2. k.frames # <<>> \/ ~call.final
    <3>1. k.frames = <<>> => Len(k.frames) = 0
      OBVIOUS
    <3>. QED  BY <3>1, <2>1, <1>7, <1>12b
  <2>3. \A i \in 1..Len(k.frames) : k.frames[i] = At(Was(frames) + i - 1)
    BY <1>10a, <1>7, <1>9
  <2>4. Joined(k.frames) \in Seq(Nat) /\ Follow(Joined(k.frames), Was(outs), Was(frames) + Len(k.frames))
    BY <2>2, <2>3, <1>12d, JoinedIs
  <2>5. Was(frames) + Len(k.frames) = total
    BY <1>10a, <1>7, <1>12
  <2>6. all \in Seq(Nat) /\ Follow(all, made, total)
    BY <2>4, <2>5, <1>3, <1>8
  <2>. QED  BY <2>6, <1>12a DEF Follow
<1>14. ~call.final => /\ 1 <= total /\ fe.splice # <<>> /\ Len(fe.splice) \in M - N..M - 1
                      /\ Follow(fe.splice, made, t)
  <2>1. HAVE ~call.final
  <2>2. t = frames /\ made = outs /\ 1 <= frames
    BY <2>1, <1>10a, <1>3 DEF Was, Within
  <2>3. Len(fe.splice) \in M - N..M - 1 /\ Follow(fe.splice, made, t)
    BY <2>1, <2>2 DEF Within
  <2>4. fe.splice # <<>>
    <3>1. Len(fe.splice) >= 1
      BY <2>3, <1>2
    <3>. QED  BY <3>1
  <2>5. 1 <= total
    BY <2>2, <1>1, <1>12b, <1>12
  <2>. QED  BY <2>3, <2>4, <2>5
<1>15. call.final => fe.splice = <<>>
  BY DEF UtteranceFresh, NoCache
<1>16. F >= 1 => 1 <= total
  BY <1>10a, <1>12b, <1>12
<1>17. CASE F >= 1 /\ Len(all) >= M
  <2>1. all \in Seq(Nat) /\ Follow(all, made, total) /\ Len(all) = T /\ 1 <= total
    BY <1>13, <1>16, <1>17
  <2>1a. M <= T /\ M - N <= T /\ T \in Nat /\ M <= Len(all) /\ M - N <= Len(all)
    BY <2>1, <1>2, <1>17
  <2>2. x.feats = lfr.feats /\ x.raw = FALSE
    BY <1>10c, <1>12b, <1>17 DEF Ways
  <2>3. /\ Len(lfr.feats) = IF final THEN LfrCount(T) ELSE Ready(T)
        /\ lfr.feats \in Seq(Seq(Nat))
    BY <2>1, <2>1a, <1>1, <1>12c, <1>8, LfrJoins
  <2>4. Made(lfr.feats, made, total)
    BY <2>1, <2>1a, <1>1, <1>12c, <1>8, LfrJoins
  <2>a. ~x.raw /\ x.raw \in BOOLEAN
    BY <2>2
  <2>b. x.count \in Nat /\ x.count = ComputeFrameNum(fe.input + n) /\ 1 <= x.count /\ x.count # 0
    BY <1>12b, <1>17
  <2>c. x.feats \in Seq(Seq(Nat))
    BY <2>2, <2>3
  <2>5. CASE final
    <3>1. made + LfrCount(T) = (total + N - 1) \div N
      BY <2>1a, <1>1, <1>12c, <1>12a, LfrEnds
    <3>2. Whole(x, made, total, final)
      BY <2>2, <2>3, <2>4, <2>5, <3>1 DEF Whole, Made
    <3>3. Len(x.feats) = LfrCount(T)
      BY <2>2, <2>3, <2>5
    <3>4. x.fe = NoCache
      BY <2>5, <1>11
    <3>. QED  BY Zenon, <3>2, <3>3, <3>4, <2>1a, <2>2, <2>a, <2>b, <2>c, <2>5, <1>12c DEF Outcome
  <2>6. CASE ~final
    <3>1. lfr = OnlineLfr(all, FALSE)
      BY <2>6, <1>8
    <3>2. /\ \A i \in 1..Ready(T) : Row(made + i - 1) + M - Pad <= total
          /\ lfr.splice \in Seq(Nat) /\ Follow(lfr.splice, made + Ready(T), total)
          /\ Len(lfr.splice) \in M - N..M - 1
      BY <3>1, <2>1, <2>1a, <1>1, <1>12c, LfrWaits
    <3>3. Whole(x, made, total, final)
      BY <3>2, <2>2, <2>3, <2>4, <2>6 DEF Whole, Made
    <3>4. x.fe = [input |-> k.input, splice |-> lfr.splice, reserve |->
                   At(FramesIn(k.waves) - ReserveFrom(lfr.idx, fe.reserve = 0))]
      BY <1>10c, <1>12b, <1>17, <2>6 DEF Ways
    <3>5. x.fe = [input |-> k.input, splice |-> x.fe.splice, reserve |-> x.fe.reserve]
          /\ x.fe.splice = lfr.splice
      BY <3>4
    <3>6. k.input = Was(samples) + n - At(total) /\ k.input \in Nat
      BY <1>10b, <1>9, <1>12
    <3>7. Keeps(x, n, made, total)
      BY <3>2, <3>5, <3>6, <2>1, <2>2, <2>3, <2>6 DEF Keeps
    <3>8. Len(x.feats) = Ready(T)
      BY <2>2, <2>3, <2>6
    <3>. QED  BY Zenon, <3>3, <3>7, <3>8, <2>1a, <2>2, <2>a, <2>b, <2>c, <2>6, <1>12c DEF Outcome
  <2>. QED  BY <2>5, <2>6
<1>18. CASE F >= 1 /\ ~(Len(all) >= M)
  <2>1. x.feats = [i \in 1..F |-> <<k.frames[i]>>] /\ x.raw = TRUE
    BY <1>10c, <1>12b, <1>18 DEF Ways
  <2>2. T < M
    BY <1>13, <1>18, <1>2, <1>12c
  <2>3. ASSUME NEW i \in 1..F PROVE <<k.frames[i]>> \in Seq(Nat)
    <3>1. i \in 1..Len(k.frames)
      BY <1>7
    <3>2. k.frames[i] \in Nat
      BY <3>1, <1>12d
    <3>. QED  BY <3>2
  <2>4. x.feats \in Seq(Seq(Nat)) /\ Len(x.feats) = F
    <3> DEFINE w(i) == <<k.frames[i]>>
               raws == [i \in 1..F |-> w(i)]
    <3>1. \A i \in 1..F : w(i) \in Seq(Nat)
      BY <2>3
    <3>. HIDE DEF w
    <3>2. raws \in Seq(Seq(Nat)) /\ Len(raws) = F
      BY <3>1, <1>12b
    <3>3. x.feats = raws
      BY <2>1 DEF w
    <3>. HIDE DEF raws
    <3>. QED  BY <3>2, <3>3
  <2>5. x.feats # <<>>
    BY <2>4, <1>18
  <2>6. x.raw /\ x.raw \in BOOLEAN
    BY <2>1
  <2>7. x.count \in Nat /\ x.count = ComputeFrameNum(fe.input + n) /\ 1 <= x.count /\ x.count # 0
    BY <1>12b, <1>18
  <2>. QED  BY Zenon, <2>2, <2>4, <2>5, <2>6, <2>7, <1>12c, <1>11 DEF Outcome
<1>19. CASE F = 0 /\ final /\ ~call.final
  <2>1. /\ all \in Seq(Nat) /\ Follow(all, made, total) /\ Len(all) = T /\ 1 <= total
        /\ fe.splice # <<>> /\ total = t
    BY <1>10a, <1>12, <1>13, <1>14, <1>19
  <2>2. x.feats = lfr.feats /\ x.raw = FALSE
    BY <2>1, <1>10c, <1>19 DEF Ways
  <2>3. M - N <= T /\ T \in Nat /\ M - N <= Len(all)
    <3>1. Len(fe.splice) = t + Pad - Row(made) /\ Len(fe.splice) >= M - N
      BY <1>14, <1>19, <1>2 DEF Follow
    <3>2. M - N <= T
      BY <3>1, <2>1, <1>12a
    <3>. QED  BY <3>2, <2>1, <1>2, <1>12c
  <2>4. /\ Len(lfr.feats) = LfrCount(T) /\ lfr.feats \in Seq(Seq(Nat))
    BY <2>1, <2>3, <1>1, <1>12c, <1>8, <1>19, LfrJoins
  <2>5. Made(lfr.feats, made, total)
    BY <2>1, <2>3, <1>1, <1>12c, <1>8, <1>19, LfrJoins
  <2>6. made + LfrCount(T) = (total + N - 1) \div N
    BY <2>3, <1>1, <1>12c, <1>12a, LfrEnds
  <2>7. Whole(x, made, total, final)
    BY <2>2, <2>4, <2>5, <2>6, <1>19 DEF Whole, Made
  <2>8. ~x.raw /\ x.raw \in BOOLEAN
    BY <2>2
  <2>9. x.count \in Nat /\ x.count = ComputeFrameNum(fe.input + n) /\ ~(1 <= x.count)
    BY <1>12b, <1>19
  <2>10. x.feats \in Seq(Seq(Nat)) /\ Len(x.feats) = LfrCount(T)
    BY <2>2, <2>4
  <2>. QED  BY Zenon, <2>3, <2>7, <2>8, <2>9, <2>10, <1>12c, <1>11, <1>19 DEF Outcome
<1>20. CASE F = 0 /\ ~(final /\ ~call.final)
  <2>1. ~(final /\ fe.splice # <<>>)
    BY <1>15, <1>20
  <2>2. x.feats = <<>> /\ x.raw = FALSE
    BY <2>1, <1>10c, <1>20 DEF Ways
  <2>3. Whole(x, made, total, final)
    BY <2>2 DEF Whole
  <2>c. x.feats \in Seq(Seq(Nat))
    BY <2>2
  <2>d. ~x.raw /\ x.raw \in BOOLEAN
    BY <2>2
  <2>a. ~x.raw /\ x.raw \in BOOLEAN /\ x.feats = <<>> /\ x.feats \in Seq(Seq(Nat))
    BY <2>2, <2>c, <2>d
  <2>b. x.count \in Nat /\ x.count = ComputeFrameNum(fe.input + n) /\ ~(1 <= x.count)
    BY <1>12b, <1>20
  <2>4. CASE final \/ call.final
    BY Zenon, <2>a, <2>b, <2>3, <2>4, <1>12c, <1>11, <1>20 DEF Outcome
  <2>5. CASE ~final /\ ~call.final
    <3>1. x.fe = [input |-> k.input, splice |-> fe.splice, reserve |-> fe.reserve]
      BY <2>1, <2>5, <1>10c, <1>20 DEF Ways
    <3>2. x.fe = [input |-> k.input, splice |-> x.fe.splice, reserve |-> x.fe.reserve]
          /\ x.fe.splice = fe.splice
      BY <3>1
    <3>3. total = t /\ made + Len(x.feats) = made
      BY <2>2, <1>10a, <1>12c, <1>12, <1>20
    <3>4. k.input = Was(samples) + n - At(total) /\ k.input \in Nat
      BY <1>10b, <1>9, <1>12
    <3>5. Keeps(x, n, made, total)
      BY <3>2, <3>3, <3>4, <2>5, <1>1, <1>14 DEF Keeps
    <3>. QED  BY Zenon, <3>5, <2>a, <2>b, <2>3, <2>5, <1>12c, <1>20 DEF Outcome
  <2>. QED  BY <2>4, <2>5
<1>. QED  BY <1>12b, <1>17, <1>18, <1>19, <1>20

\* LfrAsOffline as a statement about values, to be made of the next state.
MOf(r) == IF r = "vad" THEN VadM ELSE AsrM
NOf(r) == IF r = "vad" THEN VadN ELSE AsrN
LfrOf(r, i, total) ==
    [j \in 1..MOf(r) |->
        LET f == (i - 1) * NOf(r) + j - 1 - (MOf(r) - 1) \div 2
        IN  At(IF f < 0 THEN 0 ELSE Lesser(f, total - 1))]
EndOf(r, i) == (i - 1) * NOf(r) + MOf(r) - (MOf(r) - 1) \div 2
AsOffline(r, feats, raw, final, made, total) ==
    ~raw =>
        /\ \A k \in DOMAIN feats :
              LET i == made - Len(feats) + k
              IN  /\ feats[k] = LfrOf(r, i, total)
                  /\ final \/ EndOf(r, i) <= total
        /\ final /\ feats # <<>> => made = (total + NOf(r) - 1) \div NOf(r)

LEMMA AsOfflineNext ==
    LfrAsOffline' = AsOffline(reader', call'.feats, call'.raw, call'.final, outs', frames')
BY Zenon DEF LfrAsOffline, AsOffline, LfrOf, OfflineLfr, EndOf, MOf, NOf, Row, Pad, M, N

LEMMA OfValues ==
    /\ MOf(reader) = M /\ NOf(reader) = N
    /\ \A i, total : LfrOf(reader, i, total) = OfflineLfr(i, total)
    /\ \A i : EndOf(reader, i) = Row(i - 1) + M - Pad
BY Zenon DEF LfrOf, OfflineLfr, EndOf, MOf, NOf, Row, Pad, M, N

LEMMA WholeIsOffline ==
    ASSUME NEW x, NEW made \in Nat, NEW total \in Nat, NEW final \in BOOLEAN,
           x.feats \in Seq(Seq(Nat)), x.raw \in BOOLEAN,
           ~x.raw => Whole(x, made, total, final)
    PROVE  AsOffline(reader, x.feats, x.raw, final,
                     made + (IF x.raw THEN 0 ELSE Len(x.feats)), total)
<1>1. CASE x.raw
  BY <1>1 DEF AsOffline
<1>2. CASE ~x.raw
  <2>1. PICK R \in Nat : R = Len(x.feats)
    OBVIOUS
  <2>2. DOMAIN x.feats = 1..R
    BY <2>1
  <2>3. ASSUME NEW k \in 1..R
        PROVE  LET i == (made + R) - R + k
               IN  /\ x.feats[k] = LfrOf(reader, i, total)
                   /\ final \/ EndOf(reader, i) <= total
    <3>1. (made + R) - R + k = made + k
      OBVIOUS
    <3>2. x.feats[k] = OfflineLfr(made + k, total)
          /\ (final \/ Row(made + k - 1) + M - Pad <= total)
      BY <1>2, <2>1 DEF Whole
    <3>3. EndOf(reader, made + k) = Row(made + k - 1) + M - Pad
          /\ LfrOf(reader, made + k, total) = OfflineLfr(made + k, total)
      BY OfValues
    <3>. QED  BY <3>1, <3>2, <3>3
  <2>4. final /\ x.feats # <<>> => made + R = (total + NOf(reader) - 1) \div NOf(reader)
    BY <1>2, <2>1, OfValues DEF Whole
  <2>5. AsOffline(reader, x.feats, x.raw, final, made + R, total)
    BY <2>1, <2>2, <2>3, <2>4 DEF AsOffline
  <2>. QED  BY <1>2, <2>1, <2>5
<1>. QED  BY <1>1, <1>2

-----------------------------------------------------------------------------
(* What the invariant says of a call whatever the reader does with it.       *)

LEMMA InitInv ==
    ASSUME Init
    PROVE  IndInv
<1>1. Zeros \in Seq(Nat) /\ Len(Zeros) = Pre + Suf
  BY ChunkAssumption DEF Zeros, Zero
<1>2. /\ call = NoCall /\ fe = NoCache /\ feats_cache = Zeros /\ start_idx = 0 /\ is_first_chunk
      /\ cif = "fresh" /\ decoder_onnx = "fresh" /\ scored = FALSE /\ reader \in {"vad", "asr"}
      /\ missed = FALSE /\ failed = FALSE
      /\ samples = 0 /\ frames = 0 /\ outs = 0 /\ bodies = 0 /\ surplus = 0 /\ streams = 0
  BY DEF Init
<1>3. call.final /\ ~call.raw /\ call.feats = <<>> /\ call.body = <<>>
  BY <1>2 DEF NoCall
<1>4. call \in [final : BOOLEAN, n : Nat, feats : Seq(Seq(Nat)), raw : BOOLEAN, body : Seq(Nat)]
  <2>1. <<>> \in Seq(Seq(Nat)) /\ <<>> \in Seq(Nat)
    OBVIOUS
  <2>. QED  BY <2>1, <1>2 DEF NoCall
<1>5. fe \in [input : Nat, reserve : Nat, splice : Seq(Nat)]
  BY <1>2 DEF NoCache
<1>6. Types
  <2>1. feats_cache \in Seq(Nat) /\ Len(feats_cache) = Pre + Suf
    BY <1>1, <1>2
  <2>2. start_idx \in Nat /\ is_first_chunk \in BOOLEAN /\ scored \in BOOLEAN
    <3>1. is_first_chunk = TRUE
      BY DEF Init
    <3>. QED  BY <3>1, <1>2
  <2>4. cif \in {"fresh", "used"} /\ decoder_onnx \in {"fresh", "used", "broken"}
    BY <1>2
  <2>3. /\ samples \in Nat /\ frames \in Nat /\ outs \in Nat /\ bodies \in Nat
        /\ streams \in Nat /\ surplus \in Int
    BY <1>2
  <2>5. missed \in BOOLEAN /\ failed \in BOOLEAN
    <3>1. missed = FALSE /\ failed = FALSE
      BY <1>2
    <3>. QED  BY <3>1
  <2>. QED  BY Zenon, <1>2, <1>4, <1>5, <2>1, <2>2, <2>3, <2>4, <2>5 DEF Types
<1>7. Within /\ VadWithin /\ AsrWithin
  BY <1>2, <1>3 DEF Within, VadWithin, AsrWithin
<1>8. LfrAsOffline /\ WavesEnough /\ UtteranceFresh
  BY <1>2, <1>3 DEF LfrAsOffline, WavesEnough, UtteranceFresh
<1>9. BodiesTile
  <2>1. call.body = [k \in 1..Len(call.body) |-> bodies - Len(call.body) + k]
    BY <1>3
  <2>. QED  BY <2>1, <1>2, <1>3 DEF BodiesTile
<1>. QED  BY <1>6, <1>7, <1>8, <1>9 DEF IndInv

\* Within as a statement about values, to be made of the next state.
FollowOf(r, all, made, total) ==
    /\ Len(all) = total + ((MOf(r) - 1) \div 2) - (made * NOf(r))
    /\ \A p \in 1..Len(all) :
          all[p] = At(Clip((made * NOf(r)) + p - 1 - ((MOf(r) - 1) \div 2)))
WithinOf(r, final, raw, caches, have, made, total) ==
    ~final =>
        /\ ~raw
        /\ caches.input = have - At(total) /\ 1 <= total
        /\ FollowOf(r, caches.splice, made, total)
        /\ Len(caches.splice) \in MOf(r) - NOf(r)..MOf(r) - 1

LEMMA WithinNext ==
    Within' = WithinOf(reader', call'.final, call'.raw, fe', samples', outs', frames')
BY Zenon DEF Within, WithinOf, Follow, FollowOf, MOf, NOf, Row, Pad, M, N

LEMMA FollowIs ==
    ASSUME NEW all, NEW made, NEW total
    PROVE  FollowOf(reader, all, made, total) = Follow(all, made, total)
BY Zenon DEF Follow, FollowOf, MOf, NOf, Row, Pad, M, N

\* The variables a call and no reader of it sets.
CallTypes ==
    /\ reader \in {"vad", "asr"}
    /\ fe \in [input : Nat, reserve : Nat, splice : Seq(Nat)]
    /\ call \in [final : BOOLEAN, n : Nat, feats : Seq(Seq(Nat)), raw : BOOLEAN, body : Seq(Nat)]
    /\ samples \in Nat /\ frames \in Nat /\ outs \in Nat /\ bodies \in Nat /\ streams \in Nat

\* What the utterance needs of a call.
Gives(x, n, final, made, total) ==
    /\ made \in Nat /\ total \in Nat
    /\ x.feats \in Seq(Seq(Nat)) /\ x.raw \in BOOLEAN
    /\ ~x.raw => Whole(x, made, total, final)
    /\ final => x.fe = NoCache
    /\ ~final => ~x.raw /\ x.fe.reserve \in Nat /\ Keeps(x, n, made, total)

LEMMA OutcomeGives ==
    ASSUME NEW n, NEW final, NEW x, NEW made, NEW total, NEW T,
           Outcome(x, n, final, made, total, T),
           ~final => ~x.raw /\ (1 <= x.count \/ ~call.final) /\ x.fe.reserve \in Nat
    PROVE  Gives(x, n, final, made, total)
BY Zenon DEF Outcome, Gives

LEMMA CalledKeeps ==
    ASSUME Types, NEW n \in Nat, NEW final \in BOOLEAN, NEW x, NEW body \in Seq(Nat),
           NEW made, NEW total, Called(n, final, x, body),
           made = Was(outs), total = Was(frames) + x.count, Gives(x, n, final, made, total)
    PROVE  /\ CallTypes' /\ Within' /\ LfrAsOffline'
           /\ reader' = reader /\ fe' = x.fe
           /\ call' = [final |-> final, n |-> n, feats |-> x.feats, raw |-> x.raw, body |-> body]
           /\ samples' = Was(samples) + n /\ frames' = total
           /\ outs' = made + (IF x.raw THEN 0 ELSE Len(x.feats))
           /\ bodies' = Was(bodies) + Len(body)
<1>1. /\ reader \in {"vad", "asr"} /\ samples \in Nat /\ frames \in Nat /\ outs \in Nat
      /\ bodies \in Nat /\ streams \in Nat /\ call.final \in BOOLEAN
  BY DEF Types
<1>2. /\ reader' = reader /\ fe' = x.fe
      /\ call' = [final |-> final, n |-> n, feats |-> x.feats, raw |-> x.raw, body |-> body]
      /\ samples' = Was(samples) + n /\ frames' = total
      /\ outs' = made + (IF x.raw THEN 0 ELSE Len(x.feats))
      /\ bodies' = Was(bodies) + Len(body)
      /\ streams' = streams + (IF final THEN 1 ELSE 0)
  BY DEF Called
<1>3. Was(samples) \in Nat /\ Was(bodies) \in Nat
  BY <1>1 DEF Was
<1>4. made \in Nat /\ total \in Nat /\ x.feats \in Seq(Seq(Nat)) /\ x.raw \in BOOLEAN
  BY DEF Gives
<1>5. final => x.fe = NoCache
  BY DEF Gives
<1>6. ~final => Keeps(x, n, made, total)
  BY DEF Gives
<1>7. ~x.raw => Whole(x, made, total, final)
  BY DEF Gives
<1>8. call'.final = final /\ call'.raw = x.raw /\ call'.feats = x.feats
  BY <1>2
<1>9. Len(x.feats) \in Nat /\ Len(body) \in Nat
  BY <1>4
<1>10. CallTypes'
  <2>1. x.fe \in [input : Nat, reserve : Nat, splice : Seq(Nat)]
    <3>1. CASE final
      <4>1. x.fe = [input |-> 0, reserve |-> 0, splice |-> <<>>] /\ <<>> \in Seq(Nat)
        BY <3>1, <1>5 DEF NoCache
      <4>. QED  BY <4>1
    <3>2. CASE ~final
      <4>1. /\ x.fe = [input |-> Was(samples) + n - At(total), reserve |-> x.fe.reserve,
                      splice |-> x.fe.splice]
            /\ Was(samples) + n - At(total) \in Nat /\ x.fe.splice \in Seq(Nat)
        BY <3>2, <1>6 DEF Keeps
      <4>2. x.fe.reserve \in Nat
        BY <3>2 DEF Gives
      <4>. QED  BY <4>1, <4>2
    <3>. QED  BY <3>1, <3>2
  <2>2. call' \in [final : BOOLEAN, n : Nat, feats : Seq(Seq(Nat)), raw : BOOLEAN, body : Seq(Nat)]
    BY <1>2, <1>4
  <2>3. /\ samples' \in Nat /\ frames' \in Nat /\ outs' \in Nat /\ bodies' \in Nat
        /\ streams' \in Nat
    <3>1. samples' \in Nat
      BY <1>2, <1>3
    <3>2. frames' \in Nat /\ bodies' \in Nat
      BY <1>2, <1>3, <1>4, <1>9
    <3>3. outs' \in Nat
      BY <1>2, <1>4, <1>9
    <3>4. streams' \in Nat
      BY <1>1, <1>2
    <3>. QED  BY <3>1, <3>2, <3>3, <3>4
  <2>4. reader' \in {"vad", "asr"} /\ fe' \in [input : Nat, reserve : Nat, splice : Seq(Nat)]
    BY <1>1, <1>2, <2>1
  <2>. QED  BY <2>2, <2>3, <2>4 DEF CallTypes
<1>11. Within'
  <2>1. WithinOf(reader, final, x.raw, x.fe, Was(samples) + n, outs', total)
    <3>1. SUFFICES ASSUME ~final
                   PROVE  WithinOf(reader, final, x.raw, x.fe, Was(samples) + n, outs', total)
      BY DEF WithinOf
    <3>2. outs' = made + Len(x.feats) /\ ~x.raw
      <4>1. ~x.raw
        BY <3>1 DEF Gives
      <4>. QED  BY <4>1, <1>2, <1>4
    <3>3. x.fe.input = (Was(samples) + n) - At(total) /\ 1 <= total
      <4>1. x.fe.input = Was(samples) + n - At(total) /\ 1 <= total
        BY <3>1, <1>6 DEF Keeps
      <4>a. total \in Int
        BY <1>4
      <4>2. At(total) \in Int
        BY <4>a, AtInt
      <4>. QED  BY <4>1, <4>2, <1>3
    <3>4. FollowOf(reader, x.fe.splice, outs', total)
      BY <3>1, <3>2, <1>6, FollowIs DEF Keeps
    <3>5. Len(x.fe.splice) \in MOf(reader) - NOf(reader)..MOf(reader) - 1
      BY <3>1, <1>6, OfValues DEF Keeps
    <3>. QED  BY Zenon, <3>2, <3>3, <3>4, <3>5 DEF WithinOf
  <2>. QED  BY <2>1, <1>2, <1>8, WithinNext
<1>12. LfrAsOffline'
  <2>1. AsOffline(reader, x.feats, x.raw, final, made + (IF x.raw THEN 0 ELSE Len(x.feats)), total)
    BY <1>4, <1>7, WholeIsOffline
  <2>. QED  BY <2>1, <1>2, <1>8, AsOfflineNext
<1>. QED  BY <1>2, <1>10, <1>11, <1>12

LEMMA AtDivides ==
    ASSUME NEW a \in Int, NEW m \in Int, m = At(a)
    PROVE  m \div FrameShift = a
<1> DEFINE q == m \div FrameShift
<1>1. q \in Int /\ At(q) <= m /\ m < At(q) + FrameShift
  BY AtQuotient
<1>2. FrameShift \in Nat /\ 1 <= FrameShift /\ At(a) \in Int
  BY FrameAssumption, AtInt
<1>. HIDE DEF q
<1>3. At(q) \in Int
  BY <1>1, AtInt
<1>4. At(q) < At(a) + FrameShift /\ At(a) < At(q) + FrameShift
  BY <1>1, <1>2, <1>3
<1>5. q <= a /\ a <= q
  BY <1>1, <1>4, AtBounds
<1>6. q = a
  BY <1>1, <1>5
<1>. QED  BY <1>6 DEF q

\* Between calls the audio that waits is a number of frame shifts.
LEMMA FramesInIs ==
    ASSUME NEW F \in Nat, NEW r \in Nat, fe.reserve = At(r)
    PROVE  FramesIn(At(F - 1) + FrameLen) = F + r
<1>1. FrameLen \in Nat /\ F - 1 \in Int /\ r \in Int /\ (F - 1) + r \in Int
  BY FrameAssumption
<1>2. At(F - 1) \in Int /\ At(r) \in Int /\ At((F - 1) + r) = At(F - 1) + At(r)
  BY <1>1, AtInt, AtAdd
<1>3. PICK m \in Int : m = ((At(F - 1) + FrameLen) + fe.reserve) - FrameLen /\ m = At(F - 1) + At(r)
  BY <1>1, <1>2
<1>4. m \div FrameShift = (F - 1) + r
  BY <1>1, <1>2, <1>3, AtDivides
<1>5. FramesIn(At(F - 1) + FrameLen) = m \div FrameShift + 1
  BY <1>3 DEF FramesIn
<1>. QED  BY <1>4, <1>5

\* The audio that goes with the LFR frames of a call when r frame shifts of it wait.
Audio(x, final, T, r) ==
    /\ 1 <= x.count /\ ~x.raw =>
         /\ x.waves = At(x.count + r - 1) + FrameLen
         /\ ~final => x.fe.reserve = At((x.count + r) - ReserveFrom(Row(Ready(T)), r = 0))
    /\ x.count = 0 /\ final /\ ~call.final /\ r > 0 => x.waves = At(r)
    /\ x.count = 0 /\ ~final => x.fe.reserve = At(r)

LEMMA CallWaves ==
    ASSUME Types, Within, UtteranceFresh, NEW n \in Nat, NEW final \in BOOLEAN,
           NEW x, NEW made, NEW total, NEW T, Setting(x, n, final, made, total, T),
           NEW r \in Nat, fe.reserve = At(r)
    PROVE  Audio(x, final, T, r)
<1>1. /\ reader \in {"vad", "asr"} /\ fe.splice \in Seq(Nat) /\ fe.input \in Nat
      /\ frames \in Nat /\ outs \in Nat /\ samples \in Nat /\ call.final \in BOOLEAN
  BY DEF Types
<1>2. M \in Nat /\ N \in Nat /\ 1 <= N /\ N < M
  BY <1>1, Sizes
<1>3. PICK b \in Nat : b = Was(samples)
  BY <1>1 DEF Was
<1>4. made \in Nat /\ made = Was(outs) /\ total = Was(frames) + x.count /\ T = total + Pad - Row(made)
  BY <1>1 DEF Was, Setting
<1>5. x = ExtractFeats(b, n, final)
  BY <1>3 DEF Setting
<1>6. PICK k, F, all, lfr :
        /\ k = Fbank(b, n) /\ F = Len(k.frames) /\ all = Joined(k.frames)
        /\ lfr = OnlineLfr(all, final) /\ Ways(ExtractFeats(b, n, final), k, F, all, lfr, final)
  BY ExtractWays
<1>7. Ways(x, k, F, all, lfr, final) /\ F = Len(k.frames) /\ all = Joined(k.frames)
      /\ lfr = OnlineLfr(all, final)
  BY <1>5, <1>6
<1>8. F \in Nat /\ k.frames \in Seq(Nat)
      /\ \A i \in 1..F : k.frames[i] = At(Was(frames) + i - 1)
      /\ k.waves = IF F = 0 THEN fe.input + n ELSE At(F - 1) + FrameLen
  BY <1>3, <1>6, FramesFollow
<1>9. x.count = F
  BY <1>7 DEF Ways
<1>10. At(r) > 0 <=> r > 0
  <2>1. r \in Int /\ 0 \in Int
    OBVIOUS
  <2>2. At(0) = 0 /\ At(r) \in Int /\ (0 < r => At(0) + FrameShift <= At(r))
    BY <2>1, AtZero, AtInt, AtGrows
  <2>3. r = 0 => At(r) = 0
    BY <2>2
  <2>. QED  BY <2>2, <2>3, FrameAssumption
<1>11. ASSUME 1 <= F, ~x.raw
       PROVE  /\ x.waves = At(F + r - 1) + FrameLen
              /\ ~final => x.fe.reserve = At((F + r) - ReserveFrom(Row(Ready(T)), r = 0))
  <2>1. F > 0 /\ k.waves = At(F - 1) + FrameLen
    BY <1>8, <1>11
  <2>2. FramesIn(k.waves) = F + r
    BY <2>1, <1>8, FramesInIs
  <2>3. Len(all) >= M
    BY <2>1, <1>7, <1>11 DEF Ways
  <2>4. x.waves = At((F + r) - 1) + FrameLen
    BY <2>1, <2>2, <2>3, <1>7 DEF Ways
  <2>5. (F + r) - 1 = F + r - 1
    BY <1>8
  <2>6. ASSUME ~final
        PROVE  x.fe.reserve = At((F + r) - ReserveFrom(Row(Ready(T)), r = 0))
    <3>1. k.frames # <<>>
      BY <2>1, <1>7
    <3>2. all \in Seq(Nat) /\ Follow(all, made, Was(frames) + Len(k.frames))
      BY <3>1, <1>4, <1>7, <1>8, JoinedIs
    <3>3. Was(frames) + Len(k.frames) = total /\ total \in Nat
      <4>1. Was(frames) \in Nat
        BY <1>1 DEF Was
      <4>. QED  BY <4>1, <1>4, <1>7, <1>8, <1>9
    <3>4. Len(all) = T
      BY <3>2, <3>3, <1>4 DEF Follow
    <3>5. lfr = OnlineLfr(all, FALSE) /\ M <= Len(all)
      BY <2>3, <2>6, <3>2, <1>2, <1>7
    <3>6. lfr.idx = Row(Ready(T))
      BY <3>2, <3>3, <3>4, <3>5, <1>1, <1>4, LfrWaits
    <3>7. x.fe = [input |-> k.input, splice |-> lfr.splice, reserve |->
                    At(FramesIn(k.waves) - ReserveFrom(lfr.idx, fe.reserve = 0))]
      BY <2>1, <2>3, <2>6, <1>7 DEF Ways
    <3>8. (fe.reserve = 0) = (r = 0)
      <4>1. At(r) \in Int
        BY AtInt
      <4>2. r \in Int /\ (r = 0 => At(r) = 0) /\ (r # 0 => r > 0)
        BY AtZero
      <4>. QED  BY <4>1, <4>2, <1>10
    <3>9. x.fe.reserve = At(FramesIn(k.waves) - ReserveFrom(lfr.idx, fe.reserve = 0))
      BY <3>7
    <3>. QED  BY Zenon, <3>6, <3>8, <3>9, <2>2
  <2>. QED  BY <2>4, <2>5, <2>6
<1>12. ASSUME F = 0, final, ~call.final, r > 0 PROVE x.waves = At(r)
  <2>1. fe.splice # <<>>
    <3>1. Len(fe.splice) \in M - N..M - 1
      BY <1>12 DEF Within
    <3>2. Len(fe.splice) >= 1
      BY <3>1, <1>2
    <3>. QED  BY <3>2
  <2>2. x.waves = IF fe.reserve > 0 THEN fe.reserve ELSE k.waves
    BY <2>1, <1>7, <1>12 DEF Ways
  <2>. QED  BY <2>2, <1>10, <1>12
<1>13. ASSUME F = 0, ~final PROVE x.fe.reserve = At(r)
  <2>1. x.fe = [input |-> k.input, splice |-> fe.splice, reserve |-> fe.reserve]
    BY <1>7, <1>13 DEF Ways
  <2>. QED  BY <2>1
<1>. QED  BY <1>9, <1>11, <1>12, <1>13 DEF Audio

\* A first block or piece gives the frames of one LFR frame at least.
LEMMA EnoughFrames ==
    ASSUME Types, UtteranceFresh, call.final, NEW n \in Nat, Enough(n, M)
    PROVE  M - Pad <= ComputeFrameNum(fe.input + n)
<1>1. reader \in {"vad", "asr"} /\ fe.input = 0
  BY DEF Types, UtteranceFresh, NoCache
<1>2. M \in Nat /\ Pad \in Nat /\ 2 * Pad < M /\ FrameLen \in Nat
  BY <1>1, Sizes, FrameAssumption
<1>3. PICK a \in Nat : a = M - Pad - 1
  BY <1>2
<1>4. At(a) \in Nat /\ n >= FrameLen + At(a)
  <2>1. Pad = (M - 1) \div 2
    BY DEF Pad
  <2>2. n >= FrameLen + At(M - Pad - 1)
    BY <2>1 DEF Enough
  <2>3. a \in Int /\ a >= 0
    BY <1>3
  <2>. QED  BY <2>2, <2>3, <1>3, AtInt
<1>5. PICK F \in Nat : F = ComputeFrameNum(fe.input + n) /\ fe.input + n = n
  BY <1>1, FrameCount
<1>6. (F = 0 <=> n < FrameLen) /\ (F > 0 => n < At(F) + FrameLen)
  BY <1>5, FrameCount
<1>7. F > 0
  BY <1>2, <1>4, <1>5, <1>6
<1>8. F \in Int /\ a \in Int /\ At(F) \in Int
  <2>1. F \in Int /\ a \in Int
    BY <1>3, <1>5
  <2>. QED  BY <2>1, AtInt
<1>9. At(a) < At(F)
  BY <1>2, <1>4, <1>6, <1>7, <1>8
<1>10. a < F
  <2>1. F <= a => At(F) <= At(a)
    BY <1>8, AtGrows
  <2>. QED  BY <2>1, <1>4, <1>8, <1>9
<1>. QED  BY <1>2, <1>3, <1>5, <1>10

-----------------------------------------------------------------------------
(* The front end of the detector.                                            *)

LEMMA VadCounts ==
    ASSUME reader = "vad", Types, Within, UtteranceFresh, NEW n \in Nat, NEW final \in BOOLEAN,
           NEW x, NEW made, NEW total, NEW T, Setting(x, n, final, made, total, T),
           Outcome(x, n, final, made, total, T)
    PROVE  /\ T = (IF call.final THEN Pad ELSE 2 * Pad) + x.count
           /\ M <= T => Ready(T) = T - 2 * Pad /\ Row(Ready(T)) = Ready(T)
           /\ M - N <= T => LfrCount(T) = T - Pad
           /\ T \in Nat
<1>1. /\ M \in Nat /\ N = 1 /\ Pad \in Nat /\ M = 2 * Pad + 1
      /\ frames \in Nat /\ outs \in Nat /\ reader \in {"vad", "asr"} /\ call.final \in BOOLEAN
  BY Sizes DEF Types
<1>2. x.count \in Nat /\ made \in Nat /\ total \in Nat /\ T \in Int
  BY DEF Outcome
<1>3. made = Was(outs) /\ total = Was(frames) + x.count /\ T = total + Pad - Row(made)
  BY DEF Setting
<1>4. Row(made) = made
  <2>1. made \in Int
    BY <1>2
  <2>. QED  BY <2>1, <1>1, RowAdd
<1>5. T = (IF call.final THEN Pad ELSE 2 * Pad) + x.count
  <2>1. CASE call.final
    <3>1. made = 0 /\ total = 0 + x.count
      BY <1>3, <2>1 DEF Was
    <3>. QED  BY <3>1, <1>1, <1>2, <1>3, <1>4, <2>1
  <2>2. CASE ~call.final
    <3>1. made = outs /\ total = frames + x.count
      BY <1>3, <2>2 DEF Was
    <3>2. Len(fe.splice) \in M - N..M - 1 /\ Len(fe.splice) = frames + Pad - Row(outs)
      BY <2>2 DEF Within, Follow
    <3>3. frames + Pad - outs = 2 * Pad
      BY <3>1, <3>2, <1>1, <1>4
    <3>4. T = total + Pad - outs
      BY <3>1, <1>3, <1>4
    <3>5. PICK c \in Nat : c = x.count
      BY <1>2
    <3>6. T = 2 * Pad + c
      BY <3>1, <3>3, <3>4, <3>5, <1>1
    <3>. QED  BY <3>5, <3>6, <2>2
  <2>. QED  BY <2>1, <2>2
<1>6. T \in Nat
  BY <1>1, <1>2, <1>5
<1>7. ASSUME M <= T PROVE Ready(T) = T - 2 * Pad /\ Row(Ready(T)) = Ready(T)
  <2>1. T \in Nat
    BY <1>1, <1>2, <1>7
  <2>2. Ready(T) \in Nat /\ 1 <= Ready(T) /\ Row(Ready(T) - 1) + M <= T /\ T < Row(Ready(T)) + M
    BY <2>1, <1>1, <1>7, ReadyIs
  <2>3. Ready(T) \in Int /\ Ready(T) - 1 \in Int
    BY <2>2
  <2>4. Row(Ready(T)) = Ready(T) /\ Row(Ready(T) - 1) = Ready(T) - 1
    BY <2>3, <1>1, RowAdd
  <2>. QED  BY <2>2, <2>4, <1>1, <1>2
<1>8. ASSUME M - N <= T PROVE LfrCount(T) = T - Pad
  <2>1. T \in Nat
    BY <1>1, <1>2, <1>8
  <2>. QED  BY <2>1, <1>1, <1>8, LfrCountIs
<1>. QED  BY <1>1, <1>2, <1>5, <1>6, <1>7, <1>8

\* The audio a call gives beyond what its LFR frames cover.
Gained(x) == x.waves - (At(Len(x.feats) - 1) + FrameLen)
Scores(x) == x.feats # <<>> /\ ~x.raw

\* The first call gives the padding's audio in advance; the last one may lack it.
VadCall(x, final) ==
    /\ Scores(x) => /\ Gained(x) \in Int
                    /\ Gained(x) >= IF call.final THEN (IF final THEN 0 ELSE At(Pad))
                                    ELSE IF final THEN -At(Pad) ELSE 0
    /\ ~final => /\ ~x.raw /\ (1 <= x.count \/ ~call.final)
                 /\ call.final => Scores(x)
                 /\ \E r \in Nat : r >= 2 /\ x.fe.reserve = At(r)
    /\ final /\ ~call.final => Scores(x)

\* The first call keeps the padding and what goes with it in advance.
LEMMA VadFirst ==
    ASSUME reader = "vad", IndInv, NEW n \in Nat, NEW final \in BOOLEAN, call.final,
           ~final => Enough(n, M),
           NEW x, NEW made, NEW total, NEW T, Setting(x, n, final, made, total, T)
    PROVE  VadCall(x, final)
<1>1. Types /\ Within /\ UtteranceFresh
  BY DEF IndInv
<1>2. Outcome(x, n, final, made, total, T)
  BY <1>1, CallJoins
<1>3. /\ M \in Nat /\ N = 1 /\ Pad \in Nat /\ M = 2 * Pad + 1 /\ 1 <= Pad
      /\ FrameLen \in Nat /\ FrameShift \in Nat
  BY Sizes, FrameAssumption
<1>4. At(0) = 0 /\ fe.reserve = At(0)
  BY <1>1, AtZero DEF UtteranceFresh, NoCache, Was
<1>5. Audio(x, final, T, 0)
  BY <1>1, <1>4, CallWaves
<1>6. PICK F \in Nat : F = x.count
  BY <1>2 DEF Outcome
<1>7. T = Pad + F /\ T \in Nat
  <2>1. T = Pad + x.count
    BY <1>1, <1>2, VadCounts
  <2>. QED  BY <2>1, <1>6, <1>3
<1>7a. M <= T => Ready(T) = F - Pad /\ Row(Ready(T)) = F - Pad
  <2>1. M <= T => Ready(T) = T - 2 * Pad /\ Row(Ready(T)) = Ready(T)
    BY <1>1, <1>2, VadCounts
  <2>. QED  BY <2>1, <1>3, <1>6, <1>7
<1>7b. M - N <= T => LfrCount(T) = F
  <2>1. M - N <= T => LfrCount(T) = T - Pad
    BY <1>1, <1>2, VadCounts
  <2>. QED  BY <2>1, <1>3, <1>6, <1>7
<1>8. /\ x.raw \in BOOLEAN
      /\ x.raw => T < M
      /\ ~x.raw /\ 1 <= F => M <= T /\ Len(x.feats) = IF final THEN LfrCount(T) ELSE Ready(T)
      /\ F = 0 => x.feats = <<>>
  BY <1>2, <1>6 DEF Outcome
<1>9. 1 <= F /\ ~x.raw => x.waves = At(F - 1) + FrameLen
  <2>1. 1 <= F /\ ~x.raw => x.waves = At(F + 0 - 1) + FrameLen
    BY <1>5, <1>6 DEF Audio
  <2>2. F + 0 - 1 = F - 1
    OBVIOUS
  <2>. QED  BY <2>1, <2>2
<1>10. At(F - 1) \in Int
  <2>1. F - 1 \in Int
    OBVIOUS
  <2>. QED  BY <2>1, AtInt
<1>11. CASE final
  <2>1. CASE ~Scores(x)
    BY <2>1, <1>11 DEF VadCall
  <2>2. CASE Scores(x)
    <3>1. ~x.raw /\ F # 0
      BY <2>2, <1>8 DEF Scores
    <3>a. M <= T /\ Len(x.feats) = LfrCount(T)
      BY <3>1, <1>8, <1>11
    <3>b. M - N <= T
      BY <3>a, <1>3, <1>7
    <3>2. Len(x.feats) = F
      BY <3>a, <3>b, <1>7b
    <3>3. x.waves = At(F - 1) + FrameLen
      BY <3>1, <1>9
    <3>4. Gained(x) = 0
      BY <3>2, <3>3, <1>3, <1>10 DEF Gained
    <3>. QED  BY <3>4, <2>2, <1>11 DEF VadCall
  <2>. QED  BY <2>1, <2>2
<1>12. CASE ~final
  <2>1. Pad + 1 <= F
    <3>1. M - Pad <= ComputeFrameNum(fe.input + n)
      BY <1>1, <1>12, EnoughFrames
    <3>2. x.count = ComputeFrameNum(fe.input + n)
      BY <1>2 DEF Outcome
    <3>. QED  BY <3>1, <3>2, <1>3, <1>6
  <2>2. M <= T /\ ~x.raw /\ 1 <= F
    BY <2>1, <1>3, <1>7, <1>8
  <2>3. Len(x.feats) = F - Pad /\ Row(Ready(T)) = F - Pad
    BY <2>2, <1>7a, <1>8, <1>12
  <2>4. x.feats # <<>>
    BY <2>1, <2>3, <1>3
  <2>5. x.waves = At(F - 1) + FrameLen
    BY <2>2, <1>9
  <2>6. Gained(x) = At(Pad)
    <3>1. F - Pad - 1 \in Int /\ Pad \in Int /\ (F - Pad - 1) + Pad = F - 1
      BY <1>3
    <3>2. At((F - Pad - 1) + Pad) = At(F - Pad - 1) + At(Pad)
          /\ At(F - Pad - 1) \in Int /\ At(Pad) \in Int
      BY <3>1, AtAdd, AtInt
    <3>3. Gained(x) = (At(F - 1) + FrameLen) - (At((F - Pad) - 1) + FrameLen)
      BY <2>3, <2>5 DEF Gained
    <3>4. (F - Pad) - 1 = F - Pad - 1
      BY <1>3
    <3>. QED  BY <3>1, <3>2, <3>3, <3>4, <1>3
  <2>7. At(Pad) \in Nat
    <3>1. Pad \in Int /\ Pad >= 0
      BY <1>3
    <3>. QED  BY <3>1, AtInt
  <2>8. Scores(x)
    BY <2>2, <2>4 DEF Scores
  <2>9. \E r \in Nat : r >= 2 /\ x.fe.reserve = At(r)
    <3>1. x.fe.reserve = At((F + 0) - ReserveFrom(F - Pad, 0 = 0))
      BY <2>2, <2>3, <1>5, <1>6, <1>12 DEF Audio
    <3> DEFINE d == (F - Pad) - Pad
    <3>a. ReserveFrom(F - Pad, 0 = 0) = IF d < 0 THEN -d ELSE d
      BY DEF ReserveFrom
    <3>c. d \in Int
      BY <1>3
    <3>d. CASE d < 0
      <4>1. PICK r \in Int : r = (F + 0) - (-d) /\ r >= 2
        BY <2>1, <3>c, <3>d, <1>3
      <4>. QED  BY <4>1, <3>1, <3>a, <3>d
    <3>e. CASE ~(d < 0)
      <4>1. PICK r \in Int : r = (F + 0) - d /\ r >= 2
        BY <2>1, <3>c, <3>e, <1>3
      <4>. QED  BY <4>1, <3>1, <3>a, <3>e
    <3>. QED  BY <3>d, <3>e
  <2>. QED  BY <2>2, <2>6, <2>7, <2>8, <2>9, <1>6, <1>12 DEF VadCall
<1>. QED  BY <1>11, <1>12

\* The calls after it give the audio of their LFR frames, r frame shifts ahead, and
\* the last one that of the padding, too.
LEMMA VadLater ==
    ASSUME reader = "vad", IndInv, NEW n \in Nat, NEW final \in BOOLEAN, ~call.final,
           NEW x, NEW made, NEW total, NEW T, Setting(x, n, final, made, total, T)
    PROVE  VadCall(x, final)
<1>1. Types /\ Within /\ UtteranceFresh
  BY DEF IndInv
<1>2. Outcome(x, n, final, made, total, T)
  BY <1>1, CallJoins
<1>3. /\ M \in Nat /\ N = 1 /\ Pad \in Nat /\ M = 2 * Pad + 1 /\ 1 <= Pad
      /\ FrameLen \in Nat /\ FrameShift \in Nat /\ FrameLen <= At(3)
  BY Sizes, FrameAssumption, VadFitAssumption
<1>4. PICK r \in Nat : r >= 2 /\ fe.reserve = At(r)
  BY DEF IndInv, VadWithin
<1>5. Audio(x, final, T, r)
  BY <1>1, <1>4, CallWaves
<1>6. PICK F \in Nat : F = x.count
  BY <1>2 DEF Outcome
<1>7. T = 2 * Pad + F /\ T \in Nat
  <2>1. T = 2 * Pad + x.count
    BY <1>1, <1>2, VadCounts
  <2>. QED  BY <2>1, <1>6, <1>3
<1>7a. M <= T => Ready(T) = F /\ Row(Ready(T)) = F
  <2>1. M <= T => Ready(T) = T - 2 * Pad /\ Row(Ready(T)) = Ready(T)
    BY <1>1, <1>2, VadCounts
  <2>. QED  BY <2>1, <1>3, <1>6, <1>7
<1>7b. LfrCount(T) = F + Pad
  <2>1. M - N <= T => LfrCount(T) = T - Pad
    BY <1>1, <1>2, VadCounts
  <2>2. M - N <= T
    BY <1>3, <1>7
  <2>. QED  BY <2>1, <2>2, <1>3, <1>6, <1>7
<1>8. /\ x.raw \in BOOLEAN
      /\ x.raw => T < M /\ 1 <= F
      /\ ~x.raw /\ 1 <= F => Len(x.feats) = IF final THEN LfrCount(T) ELSE Ready(T)
      /\ F = 0 /\ final => Len(x.feats) = LfrCount(T)
      /\ F = 0 /\ ~final => x.feats = <<>>
  BY <1>2, <1>6 DEF Outcome
<1>9. ~x.raw /\ (1 <= F => M <= T)
  BY <1>3, <1>7, <1>8
<1>10. /\ Pad \in Int /\ Pad - 1 \in Int /\ F - 1 \in Int /\ r \in Int /\ F + Pad - 1 \in Int
       /\ F + r - 1 \in Int
  BY <1>3
<1>11. /\ At(Pad) \in Nat /\ At(Pad - 1) \in Nat /\ At(r) \in Nat /\ At(F - 1) \in Int
       /\ At(F + Pad - 1) = At(F - 1) + At(Pad) /\ At(F + r - 1) = At(F - 1) + At(r)
       /\ At(Pad - 1) = At(Pad) - FrameShift /\ At(3) <= At(r) + FrameShift
  <2>1. F + Pad - 1 = (F - 1) + Pad /\ F + r - 1 = (F - 1) + r
    BY <1>3
  <2>2. Pad >= 0 /\ Pad - 1 >= 0 /\ r >= 0
    BY <1>3, <1>4
  <2>3. At(Pad) \in Nat /\ At(Pad - 1) \in Nat /\ At(r) \in Nat /\ At(F - 1) \in Int
    BY <2>2, <1>10, AtInt
  <2>4. At((F - 1) + Pad) = At(F - 1) + At(Pad) /\ At((F - 1) + r) = At(F - 1) + At(r)
    BY <1>10, AtAdd
  <2>5. At(Pad - 1) = At(Pad) - FrameShift
    <3>1. 1 \in Int
      OBVIOUS
    <3>. QED  BY <3>1, <1>10, AtAdd, AtZero
  <2>6. At(3) <= At(r) + FrameShift
    <3>1. r + 1 \in Int /\ 3 \in Int /\ 3 <= r + 1 /\ 1 \in Int
      BY <1>4
    <3>2. At(r + 1) = At(r) + FrameShift
      BY <3>1, <1>10, AtAdd, AtZero
    <3>. QED  BY <3>1, <3>2, AtGrows
  <2>. QED  BY <2>1, <2>3, <2>4, <2>5, <2>6
<1>12. CASE final
  <2>1. Len(x.feats) = F + Pad
    BY <1>7b, <1>8, <1>9, <1>12
  <2>2. x.feats # <<>>
    BY <2>1, <1>3
  <2>3. At(3) \in Int
    BY AtInt
  <2>4. Gained(x) \in Int /\ Gained(x) >= -At(Pad)
    <3>1. CASE 1 <= F
      <4>1. x.waves = At(F + r - 1) + FrameLen
        BY <3>1, <1>5, <1>6, <1>9 DEF Audio
      <4>a. Len(x.feats) - 1 = F + Pad - 1
        BY <2>1, <1>3
      <4>b. Gained(x) = (At(F + r - 1) + FrameLen) - (At(F + Pad - 1) + FrameLen)
        BY <4>1, <4>a DEF Gained
      <4>2. Gained(x) = (At(F - 1) + At(r) + FrameLen) - (At(F - 1) + At(Pad) + FrameLen)
        BY <4>b, <1>11
      <4>3. Gained(x) = At(r) - At(Pad)
        BY <4>2, <1>3, <1>11
      <4>. QED  BY <4>3, <1>4, <1>11
    <3>2. CASE F = 0
      <4>1. x.waves = At(r)
        BY <3>2, <1>4, <1>5, <1>6, <1>12 DEF Audio
      <4>2. Len(x.feats) - 1 = Pad - 1
        BY <2>1, <3>2, <1>3
      <4>3. Gained(x) = At(r) - (At(Pad - 1) + FrameLen)
        BY <4>1, <4>2 DEF Gained
      <4>4. Gained(x) = At(r) - ((At(Pad) - FrameShift) + FrameLen)
        BY <4>3, <1>11
      <4>. QED  BY <4>4, <2>3, <1>3, <1>4, <1>11
    <3>. QED  BY <3>1, <3>2
  <2>. QED  BY <2>2, <2>4, <1>9, <1>12 DEF VadCall, Scores
<1>13. CASE ~final
  <2>1. x.fe.reserve = At(r)
    <3>1. CASE F = 0
      BY <3>1, <1>5, <1>6, <1>13 DEF Audio
    <3>2. CASE 1 <= F
      <4>1. Row(Ready(T)) = F
        BY <3>2, <1>7a, <1>9
      <4>2. x.fe.reserve = At((F + r) - ReserveFrom(Row(Ready(T)), r = 0))
        BY <3>2, <1>5, <1>6, <1>9, <1>13 DEF Audio
      <4>3. (F + r) - ReserveFrom(F, r = 0) = r
        BY <1>4 DEF ReserveFrom
      <4>. QED  BY <4>1, <4>2, <4>3
    <3>. QED  BY <3>1, <3>2
  <2>2. Scores(x) => Gained(x) \in Int /\ Gained(x) >= 0
    <3>1. CASE F = 0
      BY <3>1, <1>8, <1>13 DEF Scores
    <3>2. CASE 1 <= F
      <4>1. Len(x.feats) = F
        BY <3>2, <1>7a, <1>8, <1>9, <1>13
      <4>3. x.waves = At(F + r - 1) + FrameLen
        BY <3>2, <1>5, <1>6, <1>9 DEF Audio
      <4>4. Gained(x) = At(r)
        BY <4>1, <4>3, <1>3, <1>11 DEF Gained
      <4>. QED  BY <4>4, <1>11
    <3>. QED  BY <3>1, <3>2
  <2>. QED  BY <2>1, <2>2, <1>4, <1>9, <1>11, <1>13 DEF VadCall
<1>. QED  BY <1>12, <1>13

\* What a call does to what the detector has heard, and what it leaves.
Hears(x, final, ran) ==
    /\ scored' = IF Scores(x) /\ ran THEN ~final ELSE scored
    /\ surplus' = IF Scores(x) /\ ran THEN Heard + Gained(x) ELSE Heard
    /\ missed' = IF call.final THEN Scores(x) /\ ~ran ELSE missed
    /\ failed' = IF Scores(x) THEN ~ran ELSE failed

HearsWell(final) ==
    /\ scored' \in BOOLEAN /\ surplus' \in Int /\ missed' \in BOOLEAN /\ failed' \in BOOLEAN
    /\ surplus' >= 0 \/ (final /\ missed' /\ surplus' >= -At(Pad))
    /\ ~final => (~missed' => scored' /\ surplus' >= At(Pad))
    /\ scored' => surplus' >= 0
    /\ final => (scored' => failed')

\* Whether the network fails or not.
LEMMA HearsKeeps ==
    ASSUME reader = "vad", IndInv, NEW final \in BOOLEAN, NEW ran \in BOOLEAN,
           NEW x, x.raw \in BOOLEAN, VadCall(x, final), Hears(x, final, ran)
    PROVE  HearsWell(final)
<1>1. /\ scored \in BOOLEAN /\ surplus \in Int /\ missed \in BOOLEAN /\ failed \in BOOLEAN
      /\ call.final \in BOOLEAN /\ reader \in {"vad", "asr"}
  BY DEF IndInv, Types
<1>2. At(Pad) \in Nat
  <2>1. Pad \in Int /\ Pad >= 0
    BY <1>1, Sizes
  <2>. QED  BY <2>1, AtInt
<1>3. PICK h \in Int : h = Heard /\ h >= 0 /\ (~call.final /\ ~missed => scored /\ h >= At(Pad))
  BY <1>1 DEF IndInv, VadWithin, Heard
<1>4. call.final => (scored => failed)
  BY DEF IndInv, UtteranceFresh
<1>5. CASE Scores(x) /\ ran
  <2>1. PICK g \in Int : g = Gained(x)
    BY <1>5 DEF VadCall
  <2>2. g >= IF call.final THEN (IF final THEN 0 ELSE At(Pad)) ELSE IF final THEN -At(Pad) ELSE 0
    BY <2>1, <1>5 DEF VadCall
  <2>3. /\ scored' = ~final /\ surplus' = h + g /\ failed' = FALSE
        /\ missed' = IF call.final THEN FALSE ELSE missed
    BY <2>1, <1>3, <1>5 DEF Hears
  <2>4. CASE final
    <3>1. scored' = FALSE
      BY <2>3, <2>4
    <3>2. surplus' \in Int /\ (surplus' >= 0 \/ (missed' /\ surplus' >= -At(Pad)))
      BY <2>2, <2>3, <2>4, <1>1, <1>2, <1>3
    <3>3. missed' \in BOOLEAN
      BY <2>3, <1>1
    <3>. QED  BY <3>1, <3>2, <3>3, <2>3, <2>4 DEF HearsWell
  <2>5. CASE ~final
    <3>1. scored' = TRUE
      BY <2>3, <2>5
    <3>2. surplus' \in Int /\ surplus' >= 0 /\ (~missed' => surplus' >= At(Pad))
      BY <2>2, <2>3, <2>5, <1>1, <1>2, <1>3
    <3>3. missed' \in BOOLEAN
      BY <2>3, <1>1
    <3>. QED  BY <3>1, <3>2, <3>3, <2>3, <2>5 DEF HearsWell
  <2>. QED  BY <2>4, <2>5
<1>6. CASE ~(Scores(x) /\ ran)
  <2>1. scored' = scored /\ surplus' = h
    BY <1>3, <1>6 DEF Hears
  <2>2. missed' \in BOOLEAN /\ failed' \in BOOLEAN
    <3>1. CASE Scores(x)
      <4>1. missed' = (IF call.final THEN ~ran ELSE missed) /\ failed' = ~ran
        BY <3>1 DEF Hears
      <4>. QED  BY <4>1, <1>1
    <3>2. CASE ~Scores(x)
      <4>1. missed' = (IF call.final THEN FALSE ELSE missed) /\ failed' = failed
        BY <3>2 DEF Hears
      <4>. QED  BY <4>1, <1>1
    <3>. QED  BY <3>1, <3>2
  <2>3. ~final => (~missed' => scored' /\ surplus' >= At(Pad))
    <3>1. CASE call.final
      BY <3>1, <1>6 DEF Hears, VadCall
    <3>2. CASE ~call.final
      BY <3>2, <2>1, <1>3 DEF Hears
    <3>. QED  BY <3>1, <3>2
  <2>4. final => (scored' => failed')
    <3>1. CASE Scores(x)
      <4>1. failed' = ~ran /\ ~ran
        BY <3>1, <1>6 DEF Hears
      <4>. QED  BY <4>1
    <3>2. CASE ~Scores(x)
      <4>1. final => call.final
        BY <3>2 DEF VadCall
      <4>2. failed' = failed
        BY <3>2 DEF Hears
      <4>. QED  BY <4>1, <4>2, <2>1, <1>4
    <3>. QED  BY <3>1, <3>2
  <2>. QED  BY <2>1, <2>2, <2>3, <2>4, <1>1, <1>3 DEF HearsWell
<1>. QED  BY <1>5, <1>6

LEMMA InferKeeps ==
    ASSUME IndInv, NEW n \in Nat, NEW final \in BOOLEAN, ~final => Enough(n, VadM),
           NEW ran \in BOOLEAN, Infer(n, final, ran)
    PROVE  IndInv'
<1>1. Types /\ Within /\ UtteranceFresh /\ VadWithin /\ reader = "vad"
  BY DEF IndInv, Infer
<1>2. M = VadM
  BY <1>1 DEF M
<1>3. PICK x : x = ExtractFeats(Was(samples), n, final)
  OBVIOUS
<1>4. PICK made, total : made = Was(outs) /\ total = Was(frames) + x.count
  OBVIOUS
<1>5. PICK T : T = total + Pad - Row(made)
  OBVIOUS
<1>6. Setting(x, n, final, made, total, T)
  BY <1>3, <1>4, <1>5 DEF Setting
<1>7. Outcome(x, n, final, made, total, T)
  BY <1>1, <1>6, CallJoins
<1>8. VadCall(x, final)
  <2>1. call.final \in BOOLEAN
    BY <1>1 DEF Types
  <2>. QED  BY <2>1, <1>1, <1>2, <1>6, VadFirst, VadLater
<1>9. /\ Called(n, final, x, <<>>) /\ UNCHANGED asrVars
      /\ Hears(x, final, ran)
  BY <1>3 DEF Infer, Hears, Scores, Gained
<1>10. ~final => ~x.raw /\ (1 <= x.count \/ ~call.final) /\ x.fe.reserve \in Nat
  <2>1. SUFFICES ASSUME ~final PROVE ~x.raw /\ (1 <= x.count \/ ~call.final) /\ x.fe.reserve \in Nat
    OBVIOUS
  <2>2. PICK r \in Nat : x.fe.reserve = At(r)
    BY <2>1, <1>8 DEF VadCall
  <2>3. r \in Int /\ r >= 0
    OBVIOUS
  <2>4. x.fe.reserve \in Nat
    BY <2>2, <2>3, AtInt
  <2>. QED  BY <2>1, <2>4, <1>8 DEF VadCall
<1>11. /\ CallTypes' /\ Within' /\ LfrAsOffline' /\ reader' = reader /\ fe' = x.fe
       /\ call' = [final |-> final, n |-> n, feats |-> x.feats, raw |-> x.raw, body |-> <<>>]
  <2>1. <<>> \in Seq(Nat)
    OBVIOUS
  <2>2. Gives(x, n, final, made, total)
    BY <1>7, <1>10, OutcomeGives
  <2>. QED  BY Zenon, <2>1, <2>2, <1>1, <1>4, <1>9, CalledKeeps
<1>12. call'.final = final /\ reader' = "vad"
  BY <1>1, <1>11
<1>13. /\ feats_cache' = feats_cache /\ start_idx' = start_idx /\ cif' = cif
       /\ is_first_chunk' = is_first_chunk /\ decoder_onnx' = decoder_onnx
  BY <1>9 DEF asrVars
<1>14. /\ feats_cache = Zeros /\ start_idx = 0 /\ cif = "fresh" /\ decoder_onnx = "fresh"
       /\ is_first_chunk = TRUE
  BY <1>1 DEF VadWithin, Types
<1>15. HearsWell(final)
  <2>1. x.raw \in BOOLEAN
    BY <1>7 DEF Outcome
  <2>. QED  BY <2>1, <1>1, <1>8, <1>9, HearsKeeps
<1>16. /\ surplus' \in Int /\ missed' \in BOOLEAN /\ failed' \in BOOLEAN
       /\ scored' \in BOOLEAN
  BY <1>15 DEF HearsWell
<1>17. Types'
  <2>1. /\ feats_cache' \in Seq(Nat) /\ Len(feats_cache') = Pre + Suf
        /\ start_idx' \in Nat /\ is_first_chunk' \in BOOLEAN
        /\ cif' \in {"fresh", "used"} /\ decoder_onnx' \in {"fresh", "used", "broken"}
    BY <1>1, <1>13 DEF Types
  <2>. QED  BY Zenon, <2>1, <1>11, <1>16 DEF Types, CallTypes
<1>18. VadWithin'
  <2>1. Pad' = Pad
    BY <1>1, <1>12 DEF Pad, M
  <2>2. ~final => \E r \in Nat : r >= 2 /\ x.fe.reserve = At(r)
    BY <1>8 DEF VadCall
  <2>3. /\ ~final => (~missed' => scored' /\ surplus' >= At(Pad))
        /\ scored' => surplus' >= 0
    BY <1>15 DEF HearsWell
  <2>4. ~final => (~missed' => scored' /\ surplus' >= At(Pad'))
    BY <2>1, <2>3
  <2>5. ~call'.final => /\ \E r \in Nat : r >= 2 /\ fe'.reserve = At(r)
                        /\ ~missed' => scored' /\ surplus' >= At(Pad')
    BY <2>2, <2>4, <1>11, <1>12
  <2>. QED  BY <2>3, <2>5, <1>13, <1>14 DEF VadWithin, Zeros, At
<1>19. AsrWithin' /\ BodiesTile'
  BY <1>12 DEF AsrWithin, BodiesTile
<1>20. WavesEnough'
  <2>1. surplus' >= 0 \/ (final /\ missed' /\ surplus' >= -At(Pad))
    BY <1>15 DEF HearsWell
  <2>2. Pad' = Pad
    BY <1>1, <1>12 DEF Pad, M
  <2>3. surplus' >= 0 \/ (call'.final /\ missed' /\ surplus' >= -At(Pad'))
    BY <2>1, <2>2, <1>12
  <2>. QED  BY <2>3 DEF WavesEnough, At
<1>21. UtteranceFresh'
  <2>1. SUFFICES ASSUME final PROVE UtteranceFresh'
    BY <1>12 DEF UtteranceFresh
  <2>2. fe' = NoCache
    BY <2>1, <1>7, <1>11 DEF Outcome
  <2>3. scored' => failed'
    BY <2>1, <1>15 DEF HearsWell
  <2>. QED  BY <2>2, <2>3, <1>13, <1>14 DEF UtteranceFresh, Zeros, NoCache
<1>. QED  BY <1>11, <1>17, <1>18, <1>19, <1>20, <1>21 DEF IndInv

-----------------------------------------------------------------------------
(* The front end of the recogniser.                                          *)

LEMMA AsrSizes ==
    ASSUME reader = "asr"
    PROVE  /\ M = AsrM /\ N = AsrN /\ Left \in Nat /\ Left < Pad /\ (M - Pad) + Left <= N
           /\ FrameLen \in Nat /\ At(Left) < FrameLen /\ FrameLen <= At(Left) + FrameShift
<1>1. M = AsrM /\ N = AsrN /\ Pad = (AsrM - 1) \div 2
  BY DEF M, N, Pad
<1>2. /\ FrameLen \in Nat /\ FrameShift \in Nat /\ 1 <= FrameShift /\ FrameShift <= FrameLen
      /\ Pad \in Nat /\ FrameLen - 1 \in Int /\ M \in Nat /\ N \in Nat
  BY FrameAssumption, Sizes
<1>3. Left \in Int /\ At(Left) <= FrameLen - 1 /\ FrameLen - 1 < At(Left) + FrameShift
  BY <1>2, AtQuotient DEF Left
<1>4. Pad \in Int /\ 0 \in Int /\ At(Left) \in Int /\ At(Pad) \in Int /\ At(0) = 0
  <2>1. Pad \in Int /\ 0 \in Int
    BY <1>2
  <2>. QED  BY <2>1, <1>3, AtInt, AtZero
<1>5. 0 <= Left
  <2>1. At(0) < At(Left) + FrameShift
    BY <1>2, <1>3, <1>4
  <2>. QED  BY <2>1, <1>3, <1>4, AtBounds
<1>6. Left < Pad
  <2>1. At(Left) < At(Pad)
    <3>1. FrameLen <= At(Pad)
      BY <1>1, FitAssumption
    <3>. QED  BY <3>1, <1>2, <1>3, <1>4
  <2>2. Pad <= Left => At(Pad) <= At(Left)
    BY <1>3, <1>4, AtGrows
  <2>. QED  BY <2>1, <2>2, <1>3, <1>4
<1>7. (M - Pad) + Left <= N
  BY <1>1, FitAssumption DEF Left
<1>. QED  BY <1>1, <1>2, <1>3, <1>4, <1>5, <1>6, <1>7

\* All but the last frames of a number of frame shifts are there.
LEMMA WholeFrames ==
    ASSUME reader = "asr", NEW a \in Nat, Left <= a
    PROVE  ComputeFrameNum(At(a)) = a - Left
<1>1. /\ Left \in Nat /\ FrameLen \in Nat /\ At(Left) < FrameLen
      /\ FrameLen <= At(Left) + FrameShift /\ FrameShift \in Nat /\ 1 <= FrameShift
  BY AsrSizes, FrameAssumption
<1>2. a \in Int /\ a >= 0 /\ Left \in Int /\ a - Left - 1 \in Int
  BY <1>1
<1>3. PICK m \in Nat : m = At(a)
  BY <1>2, AtInt
<1>4. PICK F \in Nat : F = ComputeFrameNum(m)
  BY FrameCount
<1>5. /\ F = 0 <=> m < FrameLen
      /\ F > 0 => At(F - 1) + FrameLen <= m /\ m < At(F) + FrameLen
  BY <1>4, FrameCount
<1>6. F \in Int /\ F - 1 \in Int /\ F + Left \in Int /\ (F - 1) + Left \in Int
  BY <1>1
<1>7. At(F) \in Int /\ At(F - 1) \in Int /\ At(Left) \in Int
      /\ At(F + Left) = At(F) + At(Left) /\ At((F - 1) + Left) = At(F - 1) + At(Left)
  BY <1>2, <1>6, AtInt, AtAdd
<1>8. CASE F = 0
  <2>1. At(a) < At(Left) + FrameShift
    BY <1>1, <1>3, <1>5, <1>7, <1>8
  <2>2. a <= Left
    BY <2>1, <1>2, AtBounds
  <2>3. F = a - Left
    BY <2>2, <1>1, <1>8
  <2>. QED  BY <2>3, <1>3, <1>4
<1>9. CASE F > 0
  <2>1. At(a) < At(F + Left) + FrameShift
    BY <1>1, <1>3, <1>5, <1>7, <1>9
  <2>2. a <= F + Left
    BY <2>1, <1>2, <1>6, AtBounds
  <2>3. At((F - 1) + Left) < At(a)
    BY <1>1, <1>3, <1>5, <1>7, <1>9
  <2>4. a <= (F - 1) + Left => At(a) <= At((F - 1) + Left)
    BY <1>2, <1>6, AtGrows
  <2>5. ~(a <= (F - 1) + Left)
    BY <2>3, <2>4, <1>2, <1>3, <1>7
  <2>6. F = a - Left
    BY <2>2, <2>5, <1>1, <1>2
  <2>. QED  BY <2>6, <1>3, <1>4
<1>. QED  BY <1>8, <1>9

\* LFR frames overlap by no more than a frame reaches over.
LEMMA ReadyOfPiece ==
    ASSUME reader = "asr", NEW T \in Nat, M <= T, NEW b \in Nat, T = (Row(b) + Pad) - Left
    PROVE  Ready(T) = b
<1>1. /\ reader \in {"vad", "asr"} /\ M \in Nat /\ N \in Nat /\ Pad \in Nat /\ 1 <= N
      /\ 2 * Pad < M /\ Left \in Nat /\ Left < Pad /\ (M - Pad) + Left <= N
  BY Sizes, AsrSizes
<1>2. PICK R \in Nat : R = Ready(T) /\ Row(R - 1) + M <= T /\ T < Row(R) + M
  BY <1>1, ReadyIs
<1>3. R \in Int /\ b \in Int /\ R - 1 \in Int /\ b - 1 \in Int /\ 1 \in Int
  OBVIOUS
<1>4. Row(R) \in Int /\ Row(b) \in Int /\ Row(R - 1) \in Int /\ Row(b - 1) = Row(b) - N
  <2>1. Row(R) \in Int /\ Row(b) \in Int /\ Row(R - 1) \in Int
    BY <1>1, <1>3, RowInt
  <2>2. Row(b - 1) = Row(b) - Row(1) /\ Row(1) = N
    BY <1>1, <1>3, RowAdd
  <2>. QED  BY <2>1, <2>2
<1>5. Row(R - 1) < Row(b)
  BY <1>1, <1>2, <1>4
<1>6. Row(b - 1) < Row(R)
  BY <1>1, <1>2, <1>4
<1>7. (b <= R - 1 => Row(b) <= Row(R - 1)) /\ (R <= b - 1 => Row(R) <= Row(b - 1))
  BY <1>1, <1>3, RowGrows
<1>8. Row(b - 1) \in Int
  BY <1>1, <1>3, RowInt
<1>9. R = b
  BY <1>3, <1>4, <1>5, <1>6, <1>7, <1>8
<1>. QED  BY <1>2, <1>9

\* A part of the LFR frames of an utterance, by their numbers.
Run(s, from, to) ==
    /\ s \in Seq(Nat) /\ Len(s) = to - from
    /\ \A k \in 1..to - from : s[k] = from + k

LEMMA RunOn ==
    ASSUME NEW a \in Nat, NEW b \in Nat, NEW c \in Nat, a <= b, b <= c,
           NEW s, NEW t, Run(s, a, b), Run(t, b, c)
    PROVE  Run(s \o t, a, c)
<1>1. s \in Seq(Nat) /\ t \in Seq(Nat) /\ Len(s) = b - a /\ Len(t) = c - b
  BY DEF Run
<1>2. s \o t \in Seq(Nat) /\ Len(s \o t) = c - a
  BY <1>1, ConcatProperties
<1>3. ASSUME NEW k \in 1..c - a PROVE (s \o t)[k] = a + k
  <2>1. CASE k <= b - a
    <3>1. (s \o t)[k] = s[k] /\ k \in 1..b - a
      BY <2>1, <1>1
    <3>. QED  BY <3>1 DEF Run
  <2>2. CASE ~(k <= b - a)
    <3>1. (s \o t)[k] = t[k - (b - a)]
      BY <2>2, <1>1
    <3>2. k - (b - a) \in 1..c - b
      BY <2>2
    <3>3. t[k - (b - a)] = b + (k - (b - a))
      BY <3>2 DEF Run
    <3>. QED  BY <3>1, <3>3
  <2>. QED  BY <2>1, <2>2
<1>. QED  BY <1>2, <1>3 DEF Run

LEMMA RunIs ==
    ASSUME NEW a \in Nat, NEW b \in Nat, a <= b, NEW s, Run(s, a, b)
    PROVE  s = [k \in 1..Len(s) |-> b - Len(s) + k]
<1>1. s \in Seq(Nat) /\ Len(s) = b - a /\ \A k \in 1..b - a : s[k] = a + k
  BY DEF Run
<1>2. PICK d \in Nat : d = b - a
  OBVIOUS
<1>3. \A k \in 1..d : s[k] = (b - d) + k
  BY <1>1, <1>2
<1>4. s = [k \in 1..d |-> s[k]]
  BY <1>1, <1>2
<1>5. s = [k \in 1..d |-> (b - d) + k]
  BY <1>3, <1>4
<1>. QED  BY <1>1, <1>2, <1>5

\* The zeros before the LFR frame with number 1, when numbers run on from b + 1.
LEMMA ZerosAre ==
    ASSUME NEW b \in Int, NEW e \in Nat
    PROVE  \E z \in Nat :
             /\ z <= e
             /\ \A k \in 1..e : b + k <= 0 <=> k <= z
             /\ e - z = Clip(b + e) - Clip(b)
             /\ \A k \in 1..e - z : Clip(b + (z + k)) = Clip(b) + k
<1> DEFINE P(z) ==
             /\ z <= e
             /\ \A k \in 1..e : b + k <= 0 <=> k <= z
             /\ e - z = Clip(b + e) - Clip(b)
             /\ \A k \in 1..e - z : Clip(b + (z + k)) = Clip(b) + k
<1>1. CASE b >= 0
  <2>1. P(0)
    BY <1>1 DEF Clip
  <2>. QED  BY <2>1
<1>2. CASE b < 0 /\ b + e >= 0
  <2>1. PICK z \in Nat : z = 0 - b
    BY <1>2
  <2>2. P(z)
    BY <1>2, <2>1 DEF Clip
  <2>. QED  BY <2>2
<1>3. CASE b < 0 /\ b + e < 0
  <2>1. P(e)
    BY <1>3 DEF Clip
  <2>. QED  BY <2>1
<1>. QED  BY <1>1, <1>2, <1>3

\* What CifSearch takes of a chunk: what lies in its body, without leading zeros.
LEMMA BodyIs ==
    ASSUME NEW chunk \in Seq(Nat), NEW b \in Int, NEW w \in Nat, Len(chunk) = Pre + w,
           \A j \in 1..w : chunk[Pre + j] = Clip(b + j),
           NEW e \in Nat, e = Lesser(w, Body)
    PROVE  Run(BodyOf(chunk), Clip(b), Clip(b + e))
<1> DEFINE body == SubSeq(chunk, Pre + 1, Lesser(Len(chunk), Pre + Body))
           zeros == {k \in DOMAIN body : body[k] = Zero}
<1>1. Pre \in Nat /\ Body \in Nat
  BY ChunkAssumption
<1>2. Lesser(Len(chunk), Pre + Body) = Pre + e /\ e <= w /\ Pre + e \in Int
  BY <1>1 DEF Lesser
<1>3. /\ body \in Seq(Nat) /\ Len(body) = e
      /\ \A k \in 1..e : body[k] = Clip(b + k)
  <2>1. PICK m \in Int, h \in Int : m = Pre + 1 /\ h = Pre + e
    BY <1>1
  <2>2. \A p \in m..h : chunk[p] \in Nat
    BY <2>1, <1>1, <1>2
  <2>3. m <= h + 1 /\ h - m + 1 = e
    BY <2>1, <1>1
  <2>4. body = SubSeq(chunk, m, h)
    BY <2>1, <1>2
  <2>5. /\ SubSeq(chunk, m, h) \in Seq(Nat) /\ Len(SubSeq(chunk, m, h)) = e
        /\ \A p \in 1..e : SubSeq(chunk, m, h)[p] = chunk[m + p - 1]
    <3>1. Len(SubSeq(chunk, m, h)) = e
      <4>1. Len(SubSeq(chunk, m, h)) = IF m <= h THEN h - m + 1 ELSE 0
        BY <2>2, SubSeqProperties
      <4>. QED  BY <4>1, <2>3
    <3>. QED  BY <3>1, <2>2, <2>3, SubSeqProperties
  <2>6. ASSUME NEW k \in 1..e PROVE chunk[m + k - 1] = Clip(b + k)
    <3>1. m + k - 1 = Pre + k /\ k \in 1..w
      BY <2>1, <1>1, <1>2
    <3>. QED  BY <3>1
  <2>. QED  BY <2>4, <2>5, <2>6
<1>4. PICK z \in Nat :
        /\ z <= e
        /\ \A k \in 1..e : b + k <= 0 <=> k <= z
        /\ e - z = Clip(b + e) - Clip(b)
        /\ \A k \in 1..e - z : Clip(b + (z + k)) = Clip(b) + k
  BY ZerosAre
<1>. HIDE DEF body
<1>5. zeros = 1..z
  <2>1. DOMAIN body = 1..e
    BY <1>3
  <2>2. ASSUME NEW k \in 1..e PROVE body[k] = Zero <=> k <= z
    <3>1. body[k] = Clip(b + k) /\ k \in Int
      BY <1>3
    <3>2. Clip(b + k) = 0 <=> b + k <= 0
      BY <3>1 DEF Clip
    <3>3. b + k <= 0 <=> k <= z
      BY <1>4
    <3>. QED  BY <3>1, <3>2, <3>3 DEF Zero
  <2>. QED  BY <2>1, <2>2, <1>4
<1>. HIDE DEF zeros
<1>6. Cardinality(zeros) = z
  <2>1. 1 \in Int /\ z \in Int
    BY <1>4
  <2>2. Cardinality(1..z) = IF 1 > z THEN 0 ELSE z - 1 + 1
    BY <2>1, FS_Interval
  <2>3. Cardinality(1..z) = z
    BY <2>2, <1>4
  <2>. QED  BY <2>3, <1>5
<1>7. BodyOf(chunk) = SubSeq(body, z + 1, e)
  BY <1>3, <1>6 DEF BodyOf, body, zeros
<1>8. /\ SubSeq(body, z + 1, e) \in Seq(Nat) /\ Len(SubSeq(body, z + 1, e)) = e - z
      /\ \A k \in 1..e - z : SubSeq(body, z + 1, e)[k] = Clip(b + (z + k))
  <2>1. PICK m \in Int : m = z + 1
    BY <1>4
  <2>2. \A p \in m..e : body[p] \in Nat
    BY <2>1, <1>3, <1>4
  <2>3. e - m + 1 = e - z
    BY <2>1, <1>4
  <2>4. /\ SubSeq(body, m, e) \in Seq(Nat) /\ Len(SubSeq(body, m, e)) = e - z
        /\ \A p \in 1..e - z : SubSeq(body, m, e)[p] = body[m + p - 1]
    <3>1. Len(SubSeq(body, m, e)) = e - z
      <4>1. Len(SubSeq(body, m, e)) = IF m <= e THEN e - m + 1 ELSE 0
        BY <2>2, SubSeqProperties
      <4>. QED  BY <4>1, <2>1, <2>3, <1>4
    <3>. QED  BY <3>1, <2>2, <2>3, SubSeqProperties
  <2>5. ASSUME NEW k \in 1..e - z PROVE body[m + k - 1] = Clip(b + (z + k))
    <3>1. m + k - 1 = z + k /\ z + k \in 1..e
      BY <2>1, <1>4
    <3>. QED  BY <3>1, <1>3
  <2>. QED  BY <2>1, <2>4, <2>5
<1>. QED  BY <1>4, <1>7, <1>8 DEF Run

-----------------------------------------------------------------------------
(* The chunks of the recogniser.                                             *)

\* What a chunk begins with: the LFR frames before, zeros before the first.
Held(cache, made) ==
    /\ cache \in Seq(Nat) /\ Len(cache) = Pre + Suf
    /\ \A k \in 1..Pre + Suf : cache[k] = Clip((made - (Pre + Suf)) + k)

LEMMA AsrHolds ==
    ASSUME reader = "asr", IndInv
    PROVE  /\ Was(outs) \in Nat /\ Held(feats_cache, Was(outs))
           /\ Was(bodies) = Clip(Was(outs) - Suf)
<1>1. Pre \in Nat /\ Suf \in Nat
  BY ChunkAssumption
<1>2. /\ feats_cache \in Seq(Nat) /\ Len(feats_cache) = Pre + Suf /\ outs \in Nat
      /\ bodies \in Nat /\ call.final \in BOOLEAN
  BY DEF IndInv, Types
<1>3. CASE call.final
  <2>1. Was(outs) = 0 /\ Was(bodies) = 0
    BY <1>3 DEF Was
  <2>2. feats_cache = Zeros
    BY <1>3 DEF IndInv, UtteranceFresh
  <2>3. \A k \in 1..Pre + Suf : feats_cache[k] = Clip((0 - (Pre + Suf)) + k)
    BY <2>2, <1>1 DEF Zeros, Zero, Clip
  <2>4. Clip(0 - Suf) = 0
    BY <1>1 DEF Clip
  <2>. QED  BY <2>1, <2>3, <2>4, <1>2 DEF Held
<1>4. CASE ~call.final
  <2>1. Was(outs) = outs /\ Was(bodies) = bodies
    BY <1>4 DEF Was
  <2>2. \A k \in 1..Pre + Suf : feats_cache[k] = Clip((outs - (Pre + Suf)) + k)
    BY <1>4 DEF IndInv, AsrWithin
  <2>3. bodies = IF outs > Suf THEN outs - Suf ELSE 0
    <3>1. ~call.raw
      BY <1>4 DEF IndInv, Within
    <3>. QED  BY <3>1, <1>4 DEF IndInv, BodiesTile
  <2>4. bodies = Clip(outs - Suf)
    BY <2>3, <1>1, <1>2 DEF Clip
  <2>. QED  BY <2>1, <2>2, <2>4, <1>2 DEF Held
<1>. QED  BY <1>2, <1>3, <1>4

\* A chunk: what it begins with, and the LFR frames of a call.
Chunk(chunk, made, R) ==
    /\ chunk \in Seq(Nat) /\ Len(chunk) = (Pre + Suf) + R
    /\ \A k \in 1..(Pre + Suf) + R : chunk[k] = Clip((made - (Pre + Suf)) + k)

LEMMA ChunkIs ==
    ASSUME NEW made \in Nat, NEW cache, Held(cache, made), NEW R \in Nat,
           NEW nums, Run(nums, made, made + R)
    PROVE  Chunk(cache \o nums, made, R)
<1>1. PICK c \in Nat : c = Pre + Suf
  BY ChunkAssumption
<1>2. nums \in Seq(Nat) /\ Len(nums) = R /\ \A k \in 1..R : nums[k] = made + k
  <2>1. (made + R) - made = R
    OBVIOUS
  <2>. QED  BY <2>1 DEF Run
<1>3. cache \in Seq(Nat) /\ Len(cache) = c /\ \A k \in 1..c : cache[k] = Clip((made - c) + k)
  BY <1>1 DEF Held
<1>4. /\ cache \o nums \in Seq(Nat) /\ Len(cache \o nums) = c + R
      /\ \A k \in 1..c + R : (cache \o nums)[k] = IF k <= c THEN cache[k] ELSE nums[k - c]
  BY <1>2, <1>3, ConcatProperties
<1>5. ASSUME NEW k \in 1..c + R PROVE (cache \o nums)[k] = Clip((made - c) + k)
  <2>1. CASE k <= c
    <3>1. (cache \o nums)[k] = cache[k] /\ k \in 1..c
      BY <2>1, <1>4
    <3>. QED  BY <3>1, <1>3
  <2>2. CASE ~(k <= c)
    <3>1. (cache \o nums)[k] = nums[k - c]
      BY <2>2, <1>4
    <3>2. k - c \in 1..R
      BY <2>2
    <3>3. nums[k - c] = made + (k - c)
      BY <3>2, <1>2
    <3>4. (made - c) + k = made + (k - c) /\ made + (k - c) >= 0 /\ made + (k - c) \in Int
      BY <3>2
    <3>. QED  BY <3>1, <3>3, <3>4 DEF Clip
  <2>. QED  BY <2>1, <2>2
<1>. QED  BY <1>1, <1>4, <1>5 DEF Chunk

LEMMA LastOfIs ==
    ASSUME NEW s \in Seq(Nat), NEW n \in Nat, n <= Len(s)
    PROVE  /\ LastOf(s, n) \in Seq(Nat) /\ Len(LastOf(s, n)) = n
           /\ \A k \in 1..n : LastOf(s, n)[k] = s[(Len(s) - n) + k]
<1>1. PICK L \in Nat : L = Len(s)
  OBVIOUS
<1>2. PICK m \in Int : m = L - n + 1
  BY <1>1
<1>3. LastOf(s, n) = SubSeq(s, m, L) /\ L - m + 1 = n
  BY <1>1, <1>2 DEF LastOf
<1>4. \A p \in m..L : s[p] \in Nat
  BY <1>1, <1>2
<1>5. Len(SubSeq(s, m, L)) = IF m <= L THEN L - m + 1 ELSE 0
  BY <1>4, SubSeqProperties
<1>6. Len(SubSeq(s, m, L)) = n
  BY <1>2, <1>3, <1>5
<1>7. SubSeq(s, m, L) \in Seq(Nat) /\ \A k \in 1..n : SubSeq(s, m, L)[k] = s[m + k - 1]
  BY <1>3, <1>4, SubSeqProperties
<1>8. \A k \in 1..n : m + k - 1 = (L - n) + k
  BY <1>2
<1>. QED  BY <1>1, <1>3, <1>6, <1>7, <1>8

\* A whole chunk brings out as many LFR frames as it takes in.
LEMMA PieceTiles ==
    ASSUME NEW made \in Nat, NEW cache, Held(cache, made),
           NEW nums, Run(nums, made, made + Body), NEW chunk, chunk = cache \o nums
    PROVE  /\ Run(BodyOf(chunk), Clip(made - Suf), Clip((made + Body) - Suf))
           /\ Held(Overlap(chunk), made + Body)
<1>1. Pre \in Nat /\ Suf \in Nat /\ Body \in Nat
  BY ChunkAssumption
<1>2. /\ chunk \in Seq(Nat) /\ Len(chunk) = (Pre + Suf) + Body
      /\ \A k \in 1..(Pre + Suf) + Body : chunk[k] = Clip((made - (Pre + Suf)) + k)
  <2>1. Chunk(cache \o nums, made, Body)
    BY <1>1, ChunkIs
  <2>2. Chunk(chunk, made, Body)
    BY <2>1
  <2>. QED  BY <2>2 DEF Chunk
<1>3. Run(BodyOf(chunk), Clip(made - Suf), Clip((made + Body) - Suf))
  <2>1. PICK b \in Int, w \in Nat : b = made - Suf /\ w = Suf + Body
    BY <1>1
  <2>2. Len(chunk) = Pre + w
    BY <2>1, <1>1, <1>2
  <2>3. ASSUME NEW j \in 1..w PROVE chunk[Pre + j] = Clip(b + j)
    <3>1. Pre + j \in 1..(Pre + Suf) + Body /\ (made - (Pre + Suf)) + (Pre + j) = b + j
      BY <2>1, <1>1
    <3>. QED  BY <3>1, <1>2
  <2>4. Body = Lesser(w, Body)
    BY <2>1, <1>1 DEF Lesser
  <2>5. Run(BodyOf(chunk), Clip(b), Clip(b + Body))
    BY <2>2, <2>3, <2>4, <1>1, <1>2, BodyIs
  <2>6. b + Body = (made + Body) - Suf
    BY <2>1, <1>1
  <2>. QED  BY <2>1, <2>5, <2>6
<1>4. Held(Overlap(chunk), made + Body)
  <2>1. PICK c \in Nat : c = Pre + Suf
    BY <1>1
  <2>2. Overlap(chunk) = LastOf(chunk, c)
    BY <2>1 DEF Overlap
  <2>3. c <= Len(chunk) /\ Len(chunk) - c = Body
    BY <2>1, <1>1, <1>2
  <2>4. /\ LastOf(chunk, c) \in Seq(Nat) /\ Len(LastOf(chunk, c)) = c
        /\ \A k \in 1..c : LastOf(chunk, c)[k] = chunk[Body + k]
    <3>1. /\ LastOf(chunk, c) \in Seq(Nat) /\ Len(LastOf(chunk, c)) = c
          /\ \A k \in 1..c : LastOf(chunk, c)[k] = chunk[(Len(chunk) - c) + k]
      BY <2>3, <1>2, LastOfIs
    <3>. QED  BY <3>1, <2>3
  <2>5. ASSUME NEW k \in 1..c PROVE chunk[Body + k] = Clip(((made + Body) - c) + k)
    <3>1. Body + k \in 1..(Pre + Suf) + Body
      BY <2>1, <1>1
    <3>2. chunk[Body + k] = Clip((made - c) + (Body + k))
      BY <3>1, <2>1, <1>2
    <3>3. (made - c) + (Body + k) = ((made + Body) - c) + k
      BY <1>1
    <3>. QED  BY <3>2, <3>3
  <2>. QED  BY <2>1, <2>2, <2>4, <2>5 DEF Held
<1>. QED  BY <1>3, <1>4

\* A short last piece brings out what the chunks held back.
LEMMA ShortTiles ==
    ASSUME NEW made \in Nat, NEW cache, Held(cache, made)
    PROVE  Run(BodyOf(cache), Clip(made - Suf), made)
<1>1. Pre \in Nat /\ Suf \in Nat /\ Body \in Nat /\ Suf <= Body
  BY ChunkAssumption
<1>2. PICK b \in Int : b = made - Suf
  BY <1>1
<1>3. cache \in Seq(Nat) /\ Len(cache) = Pre + Suf
  BY DEF Held
<1>4. ASSUME NEW j \in 1..Suf PROVE cache[Pre + j] = Clip(b + j)
  <2>1. Pre + j \in 1..Pre + Suf /\ (made - (Pre + Suf)) + (Pre + j) = b + j
    BY <1>1, <1>2
  <2>. QED  BY <2>1 DEF Held
<1>5. Suf = Lesser(Suf, Body)
  BY <1>1 DEF Lesser
<1>6. Run(BodyOf(cache), Clip(b), Clip(b + Suf))
  BY <1>1, <1>3, <1>4, <1>5, BodyIs
<1>7. Clip(b + Suf) = made
  BY <1>1, <1>2 DEF Clip
<1>. QED  BY <1>2, <1>6, <1>7

\* The last piece brings out the rest, in a second chunk when one does not do.
LEMMA LastTiles ==
    ASSUME NEW made \in Nat, Held(feats_cache, made), NEW R \in Nat, R <= 2 * Body - Suf,
           NEW nums, Run(nums, made, made + R)
    PROVE  Run(LastBodies(nums), Clip(made - Suf), made + R)
<1>1. Pre \in Nat /\ Suf \in Nat /\ Body \in Nat /\ Suf <= Body
  BY ChunkAssumption
<1>2. PICK chunk : chunk = feats_cache \o nums
  OBVIOUS
<1>3a. nums \in Seq(Nat) /\ Len(nums) = R /\ \A k \in 1..R : nums[k] = made + k
  <2>1. (made + R) - made = R
    OBVIOUS
  <2>. QED  BY <2>1 DEF Run
<1>3. /\ chunk \in Seq(Nat) /\ Len(chunk) = (Pre + Suf) + R
      /\ \A k \in 1..(Pre + Suf) + R : chunk[k] = Clip((made - (Pre + Suf)) + k)
  <2>1. Chunk(feats_cache \o nums, made, R)
    BY ChunkIs
  <2>2. Chunk(chunk, made, R)
    BY <2>1, <1>2
  <2>. QED  BY <2>2 DEF Chunk
<1>4. PICK b \in Int, w \in Nat : b = made - Suf /\ w = Suf + R
  BY <1>1
<1>5. Len(chunk) = Pre + w /\ \A j \in 1..w : chunk[Pre + j] = Clip(b + j)
  <2>1. Len(chunk) = Pre + w
    BY <1>1, <1>3, <1>4
  <2>2. ASSUME NEW j \in 1..w PROVE chunk[Pre + j] = Clip(b + j)
    <3>1. Pre + j \in 1..(Pre + Suf) + R /\ (made - (Pre + Suf)) + (Pre + j) = b + j
      BY <1>1, <1>4
    <3>. QED  BY <3>1, <1>3
  <2>. QED  BY <2>1, <2>2
<1>6. PICK rest \in Int : rest = R + Suf - Body
  BY <1>1
<1>7. LastBodies(nums) = IF rest <= 0 THEN BodyOf(chunk)
                         ELSE BodyOf(chunk) \o BodyOf(LastOf(chunk, Pre) \o LastOf(nums, rest))
  BY <1>2, <1>3a, <1>6 DEF LastBodies
<1>8. CASE rest <= 0
  <2>1. w = Lesser(w, Body)
    BY <1>1, <1>4, <1>6, <1>8 DEF Lesser
  <2>2. Run(BodyOf(chunk), Clip(b), Clip(b + w))
    BY <2>1, <1>3, <1>5, BodyIs
  <2>3. Clip(b + w) = made + R
    BY <1>1, <1>4 DEF Clip
  <2>. QED  BY <2>2, <2>3, <1>4, <1>7, <1>8
<1>9. CASE ~(rest <= 0)
  <2>1. rest \in Nat /\ rest <= R /\ rest <= Body
    BY <1>1, <1>6, <1>9
  <2>2. Run(BodyOf(chunk), Clip(b), Clip(b + Body))
    <3>1. Body = Lesser(w, Body)
      BY <1>1, <1>4, <1>6, <1>9 DEF Lesser
    <3>. QED  BY <3>1, <1>1, <1>3, <1>5, BodyIs
  <2>3. PICK a \in Nat : a = b + Body /\ a = Clip(b + Body) /\ a + rest = made + R /\ Clip(a) = a
    BY <1>1, <1>4, <1>6 DEF Clip
  <2> DEFINE head == LastOf(chunk, Pre)
             tail == LastOf(nums, rest)
             second == head \o tail
  <2>4. head \in Seq(Nat) /\ Len(head) = Pre
    <3>1. Pre <= Len(chunk)
      BY <1>1, <1>3
    <3>. QED  BY <3>1, <1>1, <1>3, LastOfIs
  <2>5. tail \in Seq(Nat) /\ Len(tail) = rest
        /\ \A k \in 1..rest : tail[k] = nums[(R - rest) + k]
    <3>1. tail \in Seq(Nat) /\ Len(tail) = rest
          /\ \A k \in 1..rest : tail[k] = nums[(Len(nums) - rest) + k]
      BY <2>1, <1>3a, LastOfIs
    <3>. QED  BY <3>1, <1>3a
  <2>. HIDE DEF head, tail
  <2>6. /\ second \in Seq(Nat) /\ Len(second) = Pre + rest
        /\ \A k \in 1..Pre + rest : second[k] = IF k <= Pre THEN head[k] ELSE tail[k - Pre]
    BY <2>4, <2>5, ConcatProperties
  <2>a. a \in Int
    OBVIOUS
  <2>7. ASSUME NEW j \in 1..rest PROVE second[Pre + j] = Clip(a + j)
    <3>1. second[Pre + j] = tail[j]
      <4>1. Pre + j \in 1..Pre + rest /\ ~(Pre + j <= Pre) /\ (Pre + j) - Pre = j
        BY <2>1, <1>1
      <4>. QED  BY <4>1, <2>6
    <3>2. (R - rest) + j \in 1..R
      BY <2>1
    <3>3. tail[j] = made + ((R - rest) + j)
      BY <3>2, <2>5, <1>3a
    <3>4. made + ((R - rest) + j) = a + j
      BY <2>1, <2>3
    <3>5. Clip(a + j) = a + j
      BY <2>1 DEF Clip
    <3>. QED  BY <3>1, <3>3, <3>4, <3>5
  <2>8. rest = Lesser(rest, Body)
    BY <2>1, <1>1 DEF Lesser
  <2>. HIDE DEF second
  <2>9. Run(BodyOf(second), Clip(a), Clip(a + rest))
    BY <2>1, <2>a, <2>6, <2>7, <2>8, BodyIs
  <2>10. Clip(a) = a /\ Clip(a + rest) = made + R
    BY <2>1, <2>3 DEF Clip
  <2>11. Clip(b) \in Nat /\ Clip(b) <= a
    BY <2>3, <1>1 DEF Clip
  <2>12. Run(BodyOf(chunk) \o BodyOf(second), Clip(b), made + R)
    <3>1. Run(BodyOf(chunk), Clip(b), a) /\ Run(BodyOf(second), a, made + R)
      BY <2>2, <2>3, <2>9, <2>10
    <3>2. a <= made + R
      BY <2>1, <2>3
    <3>. QED  BY <3>1, <3>2, <2>11, RunOn
  <2>. QED  BY <2>12, <1>4, <1>7, <1>9 DEF second, head, tail
<1>. QED  BY <1>8, <1>9

\* The frames of a call of the recogniser, and those it has to join.
AsrFrames(x, made, total, T) ==
    /\ x.count \in Nat /\ made \in Nat /\ made = Was(outs)
    /\ call.final => made = 0 /\ T = x.count + Pad /\ total = x.count
    /\ ~call.final => T = (x.count + Pad) - Left /\ total = (Row(made) + x.count) - Left

LEMMA AsrCounts ==
    ASSUME reader = "asr", IndInv, NEW n \in Nat, NEW final \in BOOLEAN,
           NEW x, NEW made, NEW total, NEW T, Setting(x, n, final, made, total, T)
    PROVE  AsrFrames(x, made, total, T)
<1>1. Types /\ Within /\ UtteranceFresh /\ AsrWithin
  BY DEF IndInv
<1>2. /\ Left \in Nat /\ Pad \in Nat /\ frames \in Nat /\ outs \in Nat /\ call.final \in BOOLEAN
      /\ reader \in {"vad", "asr"}
  BY <1>1, Sizes, AsrSizes DEF Types
<1>3. Outcome(x, n, final, made, total, T)
  BY <1>1, CallJoins
<1>4. x.count \in Nat /\ made \in Nat
  BY <1>3 DEF Outcome
<1>5. made = Was(outs) /\ total = Was(frames) + x.count /\ T = total + Pad - Row(made)
  BY DEF Setting
<1>6. PICK F \in Nat : F = x.count
  BY <1>4
<1>7. ASSUME call.final PROVE made = 0 /\ T = F + Pad /\ total = F
  <2>1. made = 0 /\ total = 0 + F
    BY <1>5, <1>6, <1>7 DEF Was
  <2>2. Row(0) = 0
    BY <1>2, RowAdd
  <2>. QED  BY <2>1, <2>2, <1>2, <1>5
<1>8. ASSUME ~call.final PROVE T = (F + Pad) - Left /\ total = (Row(made) + F) - Left
  <2>1. made = outs /\ total = frames + F
    BY <1>5, <1>6, <1>8 DEF Was
  <2>2. frames = Row(made) - Left
    BY <2>1, <1>1, <1>8 DEF AsrWithin
  <2>3. Row(made) \in Int
    <3>1. made \in Int
      BY <1>4
    <3>. QED  BY <3>1, <1>2, RowInt
  <2>4. PICK c \in Int : c = Row(made)
    BY <2>3
  <2>5. frames = c - Left /\ T = total + Pad - c
    BY <2>2, <2>4, <1>5
  <2>6. total = (c + F) - Left
    BY <2>1, <2>5, <1>2
  <2>7. T = (F + Pad) - Left
    BY <2>5, <2>6, <1>2
  <2>. QED  BY <2>4, <2>6, <2>7
<1>. QED  BY <1>4, <1>5, <1>6, <1>7, <1>8 DEF AsrFrames

\* A piece is long enough, and always gives a chunk.
LEMMA PieceLong ==
    ASSUME reader = "asr", NEW n \in Pieces
    PROVE  n \in Nat /\ n = At(Row(Body)) /\ (M - Pad) + Left <= Row(Body) /\ Row(Body) \in Nat
<1>1. /\ M \in Nat /\ N \in Nat /\ Pad \in Nat /\ 2 * Pad < M /\ Left \in Nat
      /\ FrameLen \in Nat /\ At(Left) < FrameLen /\ M = AsrM /\ N = AsrN /\ FrameShift \in Nat
  BY Sizes, AsrSizes, FrameAssumption
<1>2. n \in Nat /\ Enough(n, M) /\ n = At(Row(Body))
  BY <1>1, ChunkAssumption, PieceAssumption DEF Row
<1>3. Body \in Int /\ Body >= 0 /\ Row(Body) \in Int /\ Row(Body) \in Nat
  <2>1. Body \in Int /\ Body >= 0
    BY ChunkAssumption
  <2>. QED  BY <2>1, RowInt
<1>4. PICK a \in Nat : a = M - Pad - 1
  BY <1>1
<1>5. n >= FrameLen + At(a)
  BY <1>2, <1>4 DEF Enough, Pad
<1>6. Left \in Int /\ a \in Int /\ a + Left \in Int
  BY <1>1
<1>7. At(a + Left) = At(a) + At(Left) /\ At(a) \in Int /\ At(Left) \in Int
  BY <1>6, AtAdd, AtInt
<1>8. At(a + Left) < At(Row(Body))
  BY <1>1, <1>2, <1>5, <1>7
<1>9. Row(Body) <= a + Left => At(Row(Body)) <= At(a + Left)
  BY <1>3, <1>6, AtGrows
<1>10. ~(Row(Body) <= a + Left)
  BY <1>2, <1>7, <1>8, <1>9
<1>. QED  BY <1>1, <1>2, <1>3, <1>4, <1>10

PieceCall(x, n, made, total) ==
    /\ ~x.raw /\ 1 <= x.count /\ Len(x.feats) = Body
    /\ total = Row(made + Body) - Left /\ Was(samples) + n = At(Row(made + Body))
    /\ x.fe.reserve = At(Pad - Left)

LEMMA PieceIs ==
    ASSUME reader = "asr", IndInv, NEW n \in Pieces,
           NEW x, NEW made, NEW total, NEW T, Setting(x, n, FALSE, made, total, T)
    PROVE  PieceCall(x, n, made, total)
<1>1. Types /\ Within /\ UtteranceFresh /\ AsrWithin
  BY DEF IndInv
<1>2. /\ Left \in Nat /\ Pad \in Nat /\ M \in Nat /\ N \in Nat /\ 2 * Pad < M /\ Left < Pad
      /\ reader \in {"vad", "asr"} /\ call.final \in BOOLEAN
  BY <1>1, Sizes, AsrSizes DEF Types
<1>3. PICK B \in Nat : B = Row(Body) /\ n \in Nat /\ n = At(B) /\ (M - Pad) + Left <= B
  BY PieceLong
<1>4. Outcome(x, n, FALSE, made, total, T)
  BY <1>1, <1>3, CallJoins
<1>5. PICK F \in Nat : F = x.count
  BY <1>4 DEF Outcome
<1>6. F = ComputeFrameNum(fe.input + n)
  BY <1>4, <1>5 DEF Outcome
<1>7. /\ made \in Nat /\ made = Was(outs)
      /\ call.final => made = 0 /\ T = F + Pad /\ total = F
      /\ ~call.final => T = (F + Pad) - Left /\ total = (Row(made) + F) - Left
  <2>1. FALSE \in BOOLEAN
    OBVIOUS
  <2>2. AsrFrames(x, made, total, T)
    BY <2>1, <1>3, AsrCounts
  <2>. QED  BY <2>2, <1>5 DEF AsrFrames
<1>8. PICK c \in Int : c = Row(made)
  <2>1. made \in Int
    BY <1>7
  <2>. QED  BY <2>1, <1>2, RowInt
<1>9. Row(made + Body) = c + B
  <2>1. made \in Int /\ Body \in Int
    BY <1>7, ChunkAssumption
  <2>. QED  BY <2>1, <1>2, <1>3, <1>8, RowAdd
<1>10. /\ B \in Int /\ Left \in Int /\ c \in Int /\ Pad - Left \in Nat /\ Left <= B
       /\ B + Left \in Nat /\ Left <= B + Left
  BY <1>2, <1>3, <1>8
<1>11. /\ T = (B + Pad) - Left /\ total = (c + B) - Left /\ 1 <= F
       /\ Was(samples) + n = At(c + B)
       /\ F = IF call.final THEN B - Left ELSE B
  <2>1. CASE call.final
    <3>1. fe.input = 0 /\ Was(samples) = 0 /\ c = 0
      <4>1. Row(0) = 0
        BY <1>2, RowAdd
      <4>. QED  BY <4>1, <2>1, <1>1, <1>7, <1>8 DEF UtteranceFresh, NoCache, Was
    <3>2. fe.input + n = At(B)
      BY <3>1, <1>3
    <3>3. F = B - Left
      BY <3>2, <1>6, <1>10, WholeFrames
    <3>4. c + B = B /\ Was(samples) + n = n
      BY <3>1, <1>3
    <3>5. 1 <= F
      BY <3>3, <1>2, <1>3
    <3>. QED  BY <3>3, <3>4, <3>5, <1>2, <1>3, <1>7, <2>1
  <2>2. CASE ~call.final
    <3>1. /\ fe.input = samples - At(frames) /\ frames = c - Left /\ samples = At(c)
          /\ Was(samples) = samples
      BY <2>2, <1>1, <1>7, <1>8 DEF Within, AsrWithin, Was
    <3>2. At(c - Left) = At(c) - At(Left) /\ At(B + Left) = At(B) + At(Left)
          /\ At(c + B) = At(c) + At(B)
      BY <1>10, AtAdd
    <3>3. At(c) \in Int /\ At(Left) \in Int /\ At(B) \in Int
      BY <1>10, AtInt
    <3>4. fe.input + n = At(B + Left)
      BY <3>1, <3>2, <3>3, <1>3
    <3>5. F = (B + Left) - Left
      BY <3>4, <1>6, <1>10, WholeFrames
    <3>6. F = B
      BY <3>5, <1>2
    <3>7. 1 <= F
      BY <3>6, <1>2, <1>3
    <3>8. Was(samples) + n = At(c + B)
      BY <3>1, <3>2, <3>3, <1>3
    <3>. QED  BY <3>6, <3>7, <3>8, <1>2, <1>7, <1>8, <2>2
  <2>. QED  BY <2>1, <2>2
<1>12. M <= T /\ T \in Nat
  BY <1>2, <1>3, <1>11
<1>13. Ready(T) = Body
  <2>1. Body \in Nat /\ T = (Row(Body) + Pad) - Left
    BY <1>3, <1>11, ChunkAssumption
  <2>. QED  BY <2>1, <1>12, ReadyOfPiece
<1>14. ~x.raw /\ Len(x.feats) = Body
  <2>1. /\ x.raw => T < M
        /\ ~x.raw /\ 1 <= F => Len(x.feats) = Ready(T)
    BY <1>4, <1>5 DEF Outcome
  <2>2. ~x.raw
    BY <2>1, <1>2, <1>12
  <2>. QED  BY <2>1, <2>2, <1>11, <1>13
<1>15. x.fe.reserve = At(Pad - Left)
  <2>1. PICK r \in Nat : r = (IF call.final THEN 0 ELSE Pad - Left)
    BY <1>10
  <2>2. fe.reserve = At(r)
    <3>1. CASE call.final
      BY <3>1, <2>1, <1>1, AtZero DEF UtteranceFresh, NoCache
    <3>2. CASE ~call.final
      BY <3>2, <2>1, <1>1 DEF AsrWithin
    <3>. QED  BY <3>1, <3>2
  <2>3. Audio(x, FALSE, T, r)
    BY <2>2, <1>1, <1>3, CallWaves
  <2>4. x.fe.reserve = At((F + r) - ReserveFrom(B, r = 0))
    BY <2>3, <1>3, <1>5, <1>11, <1>13, <1>14 DEF Audio
  <2>5. (F + r) - ReserveFrom(B, r = 0) = Pad - Left
    <3>1. CASE call.final
      <4>1. r = 0 /\ F = B - Left /\ B >= Pad
        BY <3>1, <2>1, <1>2, <1>3, <1>11
      <4>2. ReserveFrom(B, r = 0) = B - Pad
        BY <4>1, <1>2 DEF ReserveFrom
      <4>. QED  BY <4>1, <4>2, <1>2
    <3>2. CASE ~call.final
      <4>1. r = Pad - Left /\ F = B /\ r # 0
        BY <3>2, <2>1, <1>2, <1>11
      <4>2. ReserveFrom(B, r = 0) = B
        BY <4>1, <1>2 DEF ReserveFrom
      <4>. QED  BY <4>1, <4>2, <1>2
    <3>. QED  BY <3>1, <3>2
  <2>. QED  BY <2>4, <2>5
<1>. QED  BY <1>5, <1>9, <1>11, <1>14, <1>15 DEF PieceCall

-----------------------------------------------------------------------------
(* The steps of the recogniser.                                              *)

\* What a last call is to bring out, and how it leaves the recogniser.
Ends(x, body, made, total) ==
    /\ body \in Seq(Nat)
    /\ ~x.raw => Run(body, Clip(made - Suf), made + Len(x.feats))
    /\ scored' = scored /\ surplus' = surplus
    /\ missed' = missed /\ failed' = failed
    /\ feats_cache' = Zeros /\ start_idx' = 0 /\ cif' = "fresh" /\ decoder_onnx' = "fresh"
    /\ is_first_chunk' \in BOOLEAN
    /\ is_first_chunk' \/ (x.feats = <<>> /\ total = 0)

LEMMA EndKeeps ==
    ASSUME reader = "asr", IndInv, NEW n \in Nat, NEW x, NEW body, NEW made, NEW total,
           Called(n, TRUE, x, body), made = Was(outs), total = Was(frames) + x.count,
           Gives(x, n, TRUE, made, total), Ends(x, body, made, total)
    PROVE  IndInv'
<1>1. Types /\ AsrWithin
  BY DEF IndInv
<1>2. body \in Seq(Nat)
  BY DEF Ends
<1>2a. PICK final \in BOOLEAN : final = TRUE
  OBVIOUS
<1>2b. Called(n, final, x, body) /\ Gives(x, n, final, made, total)
  BY <1>2a
<1>3. /\ CallTypes' /\ Within' /\ LfrAsOffline' /\ reader' = reader /\ fe' = x.fe
      /\ call' = [final |-> final, n |-> n, feats |-> x.feats, raw |-> x.raw, body |-> body]
      /\ frames' = total
  BY <1>1, <1>2, <1>2b, CalledKeeps
<1>4. /\ outs' = made + (IF x.raw THEN 0 ELSE Len(x.feats))
      /\ bodies' = Was(bodies) + Len(body)
  BY <1>1, <1>2, <1>2b, CalledKeeps
<1>5. /\ call'.final = TRUE /\ call'.raw = x.raw /\ call'.feats = x.feats /\ call'.body = body
      /\ reader' = "asr"
  BY <1>2a, <1>3
<1>6. /\ scored' = scored /\ surplus' = surplus
      /\ missed' = missed /\ failed' = failed
      /\ feats_cache' = Zeros /\ start_idx' = 0 /\ cif' = "fresh" /\ decoder_onnx' = "fresh"
      /\ is_first_chunk' \in BOOLEAN
  BY DEF Ends
<1>7. ~scored /\ surplus = 0 /\ scored \in BOOLEAN /\ missed \in BOOLEAN /\ failed \in BOOLEAN
  BY <1>1 DEF AsrWithin, Types
<1>8. Types'
  <2>1. Zeros \in Seq(Nat) /\ Len(Zeros) = Pre + Suf
    BY ChunkAssumption DEF Zeros, Zero
  <2>2. feats_cache' \in Seq(Nat) /\ Len(feats_cache') = Pre + Suf
    BY <2>1, <1>6
  <2>3. start_idx' \in Nat /\ surplus' \in Int /\ scored' \in BOOLEAN
        /\ missed' \in BOOLEAN /\ failed' \in BOOLEAN
    BY <1>6, <1>7
  <2>4. cif' \in {"fresh", "used"} /\ decoder_onnx' \in {"fresh", "used", "broken"}
    BY <1>6
  <2>. QED  BY Zenon, <2>2, <2>3, <2>4, <1>3, <1>6 DEF Types, CallTypes
<1>9. VadWithin' /\ AsrWithin' /\ WavesEnough'
  BY <1>5, <1>6, <1>7 DEF VadWithin, AsrWithin, WavesEnough
<1>10. BodiesTile'
  <2>1. SUFFICES ASSUME ~x.raw
                 PROVE  /\ body = [k \in 1..Len(body) |-> bodies' - Len(body) + k]
                        /\ bodies' = outs'
    BY <1>5 DEF BodiesTile
  <2>2. Run(body, Clip(made - Suf), made + Len(x.feats))
    BY <2>1 DEF Ends
  <2>3. made \in Nat /\ Len(x.feats) \in Nat /\ Suf \in Nat
    BY ChunkAssumption DEF Gives
  <2>4. PICK a \in Nat, b \in Nat : a = Clip(made - Suf) /\ b = made + Len(x.feats) /\ a <= b
    BY <2>3 DEF Clip
  <2>5. Was(bodies) = a
    BY <2>4, AsrHolds
  <2>6. Len(body) = b - a
    BY <2>2, <2>4 DEF Run
  <2>7. bodies' = b /\ outs' = b
    BY <2>1, <2>4, <2>5, <2>6, <1>4
  <2>8. body = [k \in 1..Len(body) |-> b - Len(body) + k]
    BY <2>2, <2>4, RunIs
  <2>. QED  BY <2>7, <2>8
<1>11. UtteranceFresh'
  <2>1. fe' = NoCache
    BY <1>3 DEF Gives
  <2>2. is_first_chunk' \/ (call'.feats = <<>> /\ frames' = 0)
    BY <1>3, <1>5 DEF Ends
  <2>. QED  BY Zenon, <2>1, <2>2, <1>6, <1>7 DEF UtteranceFresh, NoCache, Zeros
<1>. QED  BY <1>3, <1>8, <1>9, <1>10, <1>11 DEF IndInv

LEMMA ShortKeeps ==
    ASSUME IndInv, NEW n \in Rests, ForwardShort(n)
    PROVE  IndInv'
<1>1. reader = "asr" /\ n \in Nat
  BY ChunkAssumption DEF ForwardShort
<1>2. PICK x : x = [count |-> 0, feats |-> <<>>, raw |-> FALSE, fe |-> NoCache]
  OBVIOUS
<1>3. PICK body : body = BodyOf(feats_cache)
  OBVIOUS
<1>4. PICK made, total : made = Was(outs) /\ total = Was(frames) + x.count
  OBVIOUS
<1>5. /\ Called(n, TRUE, x, body) /\ Reset /\ scored' = scored /\ surplus' = surplus
      /\ missed' = missed /\ failed' = failed
  BY <1>2, <1>3 DEF ForwardShort, vadVars
<1>6. /\ x.count = 0 /\ x.feats = <<>> /\ ~x.raw /\ x.raw \in BOOLEAN /\ x.fe = NoCache
      /\ <<>> \in Seq(Seq(Nat))
  BY <1>2
<1>7. made \in Nat /\ Held(feats_cache, made)
  BY <1>1, <1>4, AsrHolds
<1>8. Gives(x, n, TRUE, made, total)
  <2>1. Was(frames) \in Nat
    BY DEF IndInv, Types, Was
  <2>2. total \in Nat
    BY <2>1, <1>4, <1>6
  <2>3. Whole(x, made, total, TRUE)
    BY <1>6 DEF Whole
  <2>. QED  BY Zenon, <2>2, <2>3, <1>6, <1>7 DEF Gives
<1>9. Ends(x, body, made, total)
  <2>1. Run(body, Clip(made - Suf), made)
    BY <1>3, <1>7, ShortTiles
  <2>2. made + Len(x.feats) = made
    BY <1>6, <1>7
  <2>3. Run(body, Clip(made - Suf), made + Len(x.feats))
    BY <2>1, <2>2
  <2>4. body \in Seq(Nat)
    BY <2>1 DEF Run
  <2>5. /\ is_first_chunk' = TRUE /\ feats_cache' = Zeros /\ start_idx' = 0
        /\ cif' = "fresh" /\ decoder_onnx' = "fresh"
    BY <1>5 DEF Reset
  <2>. QED  BY <2>3, <2>4, <2>5, <1>5 DEF Ends
<1>. QED  BY <1>1, <1>4, <1>5, <1>8, <1>9, EndKeeps

\* The LFR frames of what is left make two chunks at most.
LEMMA RestFits ==
    ASSUME reader = "asr", IndInv, NEW n \in Rests,
           NEW x, NEW made, NEW total, NEW T, Setting(x, n, TRUE, made, total, T),
           ~x.raw, x.feats # <<>>
    PROVE  Len(x.feats) <= 2 * Body - Suf
<1>1. Types /\ Within /\ UtteranceFresh /\ AsrWithin
  BY DEF IndInv
<1>2. /\ Left \in Nat /\ Pad \in Nat /\ M \in Nat /\ N \in Nat /\ 1 <= N /\ N < M
      /\ reader \in {"vad", "asr"} /\ call.final \in BOOLEAN /\ N = AsrN
  BY <1>1, Sizes, AsrSizes DEF Types
<1>3. n \in Nat /\ TRUE \in BOOLEAN /\ fe.input \in Nat
  BY <1>1, ChunkAssumption DEF Types
<1>4. Outcome(x, n, TRUE, made, total, T)
  BY <1>1, <1>3, CallJoins
<1>5. PICK F \in Nat : F = x.count /\ F = ComputeFrameNum(fe.input + n)
  BY <1>4 DEF Outcome
<1>6. AsrFrames(x, made, total, T)
  BY <1>3, AsrCounts
<1>7. PICK K \in Nat : K = 2 * Body - Suf
  <2>1. Body \in Nat /\ Suf \in Nat /\ Suf <= Body
    BY ChunkAssumption
  <2>2. 2 * Body - Suf \in Nat
    BY <2>1
  <2>. QED  BY <2>2
<1>8. PICK k \in Nat : k = Row(K)
  <2>1. K \in Int /\ K >= 0
    OBVIOUS
  <2>. QED  BY <2>1, <1>2, RowInt
<1>9. n <= At(k)
  <2>1. n <= At((2 * Body - Suf) * AsrN)
    BY FitAssumption
  <2>2. (2 * Body - Suf) * AsrN = k
    BY <1>2, <1>7, <1>8 DEF Row
  <2>. QED  BY <2>1, <2>2
<1>10. At(F) <= fe.input + n
  <2>1. fe.input + n \in Nat
    BY <1>3
  <2>. QED  BY <2>1, <1>5, FrameCount
<1>11. /\ F \in Int /\ k \in Int /\ Left \in Int /\ k + Left \in Int /\ At(F) \in Int /\ At(k) \in Int
       /\ At(Left) \in Int /\ At(k + Left) = At(k) + At(Left)
  <2>1. F \in Int /\ k \in Int /\ Left \in Int /\ k + Left \in Int
    BY <1>2
  <2>. QED  BY <2>1, AtInt, AtAdd
<1>12. T \in Nat /\ M - N <= T /\ Len(x.feats) = LfrCount(T) /\ T - Pad <= k
  <2>1. T \in Int
    BY <1>4 DEF Outcome
  <2>2. 1 <= F => M <= T /\ Len(x.feats) = LfrCount(T)
    BY <1>4, <1>5 DEF Outcome
  <2>3. F = 0 => ~call.final /\ M - N <= T /\ Len(x.feats) = LfrCount(T)
    BY <1>4, <1>5 DEF Outcome
  <2>4. M - N <= T /\ T \in Nat /\ Len(x.feats) = LfrCount(T)
    BY <2>1, <2>2, <2>3, <1>2
  <2>5. T - Pad <= k
    <3>1. CASE call.final
      <4>1. T = F + Pad
        BY <3>1, <1>5, <1>6 DEF AsrFrames
      <4>2. fe.input = 0
        BY <3>1, <1>1 DEF UtteranceFresh, NoCache
      <4>3. At(F) <= At(k)
        BY <4>2, <1>3, <1>9, <1>10, <1>11
      <4>4. F <= k
        BY <4>3, <1>11, AtBounds
      <4>. QED  BY <4>1, <4>4, <1>2
    <3>2. CASE ~call.final
      <4>1. T = (F + Pad) - Left
        BY <3>2, <1>5, <1>6 DEF AsrFrames
      <4>2. PICK c \in Int : c = Row(outs)
        <5>1. outs \in Int
          BY <1>1 DEF Types
        <5>. QED  BY <5>1, <1>2, RowInt
      <4>3. fe.input = samples - At(frames) /\ frames = c - Left /\ samples = At(c)
        BY <3>2, <4>2, <1>1 DEF Within, AsrWithin
      <4>4. At(c - Left) = At(c) - At(Left) /\ At(c) \in Int
        BY <1>11, AtAdd, AtInt
      <4>5. fe.input = At(Left)
        BY <4>3, <4>4, <1>11
      <4>6. At(F) <= At(k + Left)
        BY <4>5, <1>3, <1>9, <1>10, <1>11
      <4>7. F <= k + Left
        BY <4>6, <1>11, AtBounds
      <4>. QED  BY <4>1, <4>7, <1>2
    <3>. QED  BY <3>1, <3>2
  <2>. QED  BY <2>4, <2>5
<1>13. PICK R \in Nat : R = LfrCount(T) /\ Row(R) <= T - Pad + N - 1
  BY <1>2, <1>12, LfrCountIs
<1>14. R <= K
  <2>1. R \in Int /\ K \in Int /\ Row(R) \in Int
    <3>1. R \in Int /\ K \in Int
      OBVIOUS
    <3>. QED  BY <3>1, <1>2, RowInt
  <2>2. Row(R) < Row(K) + N
    BY <2>1, <1>2, <1>8, <1>12, <1>13
  <2>. QED  BY <2>1, <2>2, <1>2, RowBounds
<1>. QED  BY <1>7, <1>12, <1>13, <1>14

LEMMA LastKeeps ==
    ASSUME IndInv, NEW n \in Rests, ForwardLast(n)
    PROVE  IndInv'
<1>1. reader = "asr" /\ n \in Nat /\ Types /\ Within /\ UtteranceFresh
  BY ChunkAssumption DEF ForwardLast, IndInv
<1>2. PICK x : x = ExtractFeats(Was(samples), n, TRUE)
  OBVIOUS
<1>3. PICK made, total : made = Was(outs) /\ total = Was(frames) + x.count
  OBVIOUS
<1>4. PICK T : T = total + Pad - Row(made)
  OBVIOUS
<1>5. PICK body : body = IF x.raw THEN <<>> ELSE LastBodies(Numbers(x))
  OBVIOUS
<1>6. Setting(x, n, TRUE, made, total, T)
  BY <1>2, <1>3, <1>4 DEF Setting
<1>7. /\ Called(n, TRUE, x, body) /\ Reset /\ scored' = scored /\ surplus' = surplus
      /\ missed' = missed /\ failed' = failed
      /\ x.feats # <<>>
  BY <1>2, <1>5 DEF ForwardLast, vadVars
<1>8. PICK final \in BOOLEAN : final = TRUE
  OBVIOUS
<1>9. Outcome(x, n, final, made, total, T)
  BY <1>1, <1>6, <1>8, CallJoins
<1>10. Gives(x, n, TRUE, made, total)
  <2>1. Gives(x, n, final, made, total)
    BY <1>8, <1>9, OutcomeGives
  <2>. QED  BY <2>1, <1>8
<1>11. made \in Nat /\ Held(feats_cache, made)
  BY <1>1, <1>3, AsrHolds
<1>12. Ends(x, body, made, total)
  <2>1. /\ is_first_chunk' = TRUE /\ feats_cache' = Zeros /\ start_idx' = 0
        /\ cif' = "fresh" /\ decoder_onnx' = "fresh"
    BY <1>7 DEF Reset
  <2>2. x.raw \in BOOLEAN /\ x.feats \in Seq(Seq(Nat))
    BY <1>10 DEF Gives
  <2>3. CASE x.raw
    <3>1. body = <<>> /\ <<>> \in Seq(Nat)
      BY <2>3, <1>5
    <3>. QED  BY <3>1, <2>1, <2>3, <1>7 DEF Ends
  <2>4. CASE ~x.raw
    <3>1. PICK R \in Nat : R = Len(x.feats)
      BY <2>2
    <3>2. R <= 2 * Body - Suf
      BY <3>1, <2>4, <1>1, <1>6, <1>7, RestFits
    <3>3. Run(Numbers(x), made, made + R)
      <4>1. Numbers(x) = [k \in 1..R |-> made + k]
        BY <3>1, <2>2, <1>3 DEF Numbers
      <4>2. (made + R) - made = R
        BY <1>11
      <4>. QED  BY <4>1, <4>2, <1>11 DEF Run
    <3>4. Run(LastBodies(Numbers(x)), Clip(made - Suf), made + R)
      BY <3>2, <3>3, <1>11, LastTiles
    <3>5. Run(body, Clip(made - Suf), made + Len(x.feats))
      BY <3>1, <3>4, <2>4, <1>5
    <3>6. body \in Seq(Nat)
      BY <3>5 DEF Run
    <3>. QED  BY <3>5, <3>6, <2>1, <1>7 DEF Ends
  <2>. QED  BY <2>2, <2>3, <2>4
<1>. QED  BY <1>1, <1>3, <1>7, <1>10, <1>12, EndKeeps

LEMMA NothingKeeps ==
    ASSUME IndInv, NEW n \in Rests, ForwardNothing(n)
    PROVE  IndInv'
<1>1. reader = "asr" /\ n \in Nat /\ Types /\ Within /\ UtteranceFresh /\ AsrWithin
  BY ChunkAssumption DEF ForwardNothing, IndInv
<1>2. PICK x : x = ExtractFeats(Was(samples), n, TRUE)
  OBVIOUS
<1>3. PICK made, total : made = Was(outs) /\ total = Was(frames) + x.count
  OBVIOUS
<1>4. PICK T : T = total + Pad - Row(made)
  OBVIOUS
<1>5a. PICK body : body = <<>>
  OBVIOUS
<1>5. body = <<>> /\ body \in Seq(Nat)
  BY <1>5a
<1>6. Setting(x, n, TRUE, made, total, T)
  BY <1>2, <1>3, <1>4 DEF Setting
<1>7. /\ Called(n, TRUE, x, body) /\ is_first_chunk' = FALSE /\ x.feats = <<>>
      /\ ~(n < Short /\ ~is_first_chunk)
      /\ feats_cache' = feats_cache /\ start_idx' = start_idx /\ cif' = cif
      /\ decoder_onnx' = decoder_onnx /\ scored' = scored /\ surplus' = surplus
      /\ missed' = missed /\ failed' = failed
  BY <1>2, <1>5 DEF ForwardNothing, vadVars
<1>8. PICK final \in BOOLEAN : final = TRUE
  OBVIOUS
<1>9. Outcome(x, n, final, made, total, T)
  BY <1>1, <1>6, <1>8, CallJoins
<1>10. Gives(x, n, TRUE, made, total)
  <2>1. Gives(x, n, final, made, total)
    BY <1>8, <1>9, OutcomeGives
  <2>. QED  BY <2>1, <1>8
<1>11. AsrFrames(x, made, total, T)
  <2>1. Setting(x, n, final, made, total, T)
    BY <1>6, <1>8
  <2>. QED  BY <2>1, <1>1, AsrCounts
<1>12. /\ M \in Nat /\ N \in Nat /\ Pad \in Nat /\ 1 <= N /\ N < M /\ 2 * Pad < M
       /\ reader \in {"vad", "asr"}
  BY <1>1, Sizes
<1>13. x.count \in Nat /\ x.count = ComputeFrameNum(fe.input + n) /\ T \in Int
  BY <1>9 DEF Outcome
<1>14. x.count = 0
  <2>1. SUFFICES ASSUME 1 <= x.count PROVE FALSE
    BY <1>13
  <2>2. x.raw \in BOOLEAN /\ ~x.raw
    BY <1>7, <1>9 DEF Outcome
  <2>3. M <= T /\ Len(x.feats) = LfrCount(T)
    BY <2>1, <2>2, <1>8, <1>9 DEF Outcome
  <2>4. T \in Nat /\ M - N <= T /\ T > Pad
    BY <2>3, <1>12, <1>13
  <2>5. 1 <= LfrCount(T) /\ LfrCount(T) \in Nat
    BY <2>4, <1>12, LfrCountIs
  <2>6. Len(x.feats) = 0
    BY <1>7
  <2>. QED  BY <2>3, <2>5, <2>6
<1>15. call.final
  <2>1. SUFFICES ASSUME ~call.final PROVE FALSE
    OBVIOUS
  <2>2. ~is_first_chunk
    BY <2>1, <1>1 DEF AsrWithin
  <2>3. FrameLen <= n /\ FrameLen \in Nat /\ fe.input \in Nat
    <3>1. Short \in Nat /\ FrameLen <= Short /\ FrameLen \in Nat
      BY ChunkAssumption, FrameAssumption
    <3>2. n >= Short
      BY <2>2, <3>1, <1>1, <1>7
    <3>. QED  BY <3>1, <3>2, <1>1 DEF Types
  <2>4. ~(fe.input + n < FrameLen) /\ fe.input + n \in Nat
    BY <2>3, <1>1
  <2>. QED  BY <2>4, <1>13, <1>14, FrameCount
<1>16. made = 0 /\ total = 0
  BY <1>11, <1>14, <1>15 DEF AsrFrames
<1>17. Ends(x, body, made, total)
  <2>1. /\ feats_cache = Zeros /\ start_idx = 0 /\ cif = "fresh" /\ decoder_onnx = "fresh"
    BY <1>1, <1>15 DEF UtteranceFresh
  <2>2. Run(body, Clip(made - Suf), made + Len(x.feats))
    <3>1. Clip(made - Suf) = 0
      BY <1>16, ChunkAssumption DEF Clip
    <3>2. made + Len(x.feats) = 0
      BY <1>7, <1>16
    <3>3. Run(body, 0, 0)
      BY <1>5 DEF Run
    <3>. QED  BY <3>1, <3>2, <3>3
  <2>3. is_first_chunk' \in BOOLEAN /\ (is_first_chunk' \/ (x.feats = <<>> /\ total = 0))
    BY <1>7, <1>16
  <2>. QED  BY Zenon, <2>1, <2>2, <2>3, <1>5, <1>7 DEF Ends
<1>. QED  BY <1>1, <1>3, <1>7, <1>10, <1>17, EndKeeps

\* AsrWithin as a statement about values, to be made of the next state.
AsrOf(r, is_scored, more, final, first, made, total, have, reserve, cache) ==
    r = "asr" =>
        /\ ~is_scored /\ more = 0
        /\ ~final =>
              /\ ~first /\ Body <= made
              /\ total = (made * NOf(r)) - Left /\ have = At(made * NOf(r))
              /\ reserve = At(((MOf(r) - 1) \div 2) - Left)
              /\ \A k \in 1..Pre + Suf : cache[k] = Clip(made - (Pre + Suf) + k)

LEMMA AsrNext ==
    AsrWithin' = AsrOf(reader', scored', surplus', call'.final, is_first_chunk', outs', frames',
                       samples', fe'.reserve, feats_cache')
BY Zenon DEF AsrWithin, AsrOf, MOf, NOf, Row, Pad, M, N, Left, At, Clip

LEMMA AsrIs ==
    ASSUME NEW is_scored, NEW more, NEW final, NEW first, NEW made, NEW total, NEW have,
           NEW reserve, NEW cache,
           ~is_scored, more = 0, ~first, Body <= made,
           total = Row(made) - Left, have = At(Row(made)), reserve = At(Pad - Left),
           \A k \in 1..Pre + Suf : cache[k] = Clip(made - (Pre + Suf) + k)
    PROVE  AsrOf(reader, is_scored, more, final, first, made, total, have, reserve, cache)
<1>1. Row(made) = made * NOf(reader) /\ Pad = (MOf(reader) - 1) \div 2
  BY Zenon DEF MOf, NOf, Row, Pad, M, N
<1>. QED  BY <1>1 DEF AsrOf

LEMMA PieceKeeps ==
    ASSUME IndInv, NEW n \in Pieces, ForwardPiece(n)
    PROVE  IndInv'
<1>1. reader = "asr" /\ n \in Nat /\ Types /\ Within /\ UtteranceFresh /\ AsrWithin
  BY ChunkAssumption DEF ForwardPiece, IndInv
<1>2. PICK x : x = ExtractFeats(Was(samples), n, FALSE)
  OBVIOUS
<1>3. PICK made, total : made = Was(outs) /\ total = Was(frames) + x.count
  OBVIOUS
<1>4. PICK T : T = total + Pad - Row(made)
  OBVIOUS
<1>5. PICK chunk : chunk = feats_cache \o Numbers(x)
  OBVIOUS
<1>6. PICK body : body = BodyOf(chunk)
  OBVIOUS
<1>7. Setting(x, n, FALSE, made, total, T)
  BY <1>2, <1>3, <1>4 DEF Setting
<1>8. /\ Called(n, FALSE, x, body) /\ x.feats # <<>> /\ is_first_chunk' = FALSE
      /\ start_idx' = start_idx + Len(x.feats) /\ feats_cache' = Overlap(chunk)
      /\ ForwardChunk /\ scored' = scored /\ surplus' = surplus
      /\ missed' = missed /\ failed' = failed
  BY <1>2, <1>5, <1>6 DEF ForwardPiece, vadVars
<1>9. PieceCall(x, n, made, total)
  BY <1>1, <1>7, PieceIs
<1>10. PICK final \in BOOLEAN : final = FALSE
  OBVIOUS
<1>11. Outcome(x, n, final, made, total, T)
  BY <1>1, <1>7, <1>10, CallJoins
<1>12. /\ Pre \in Nat /\ Body \in Nat /\ Suf \in Nat /\ Suf <= Body /\ Left \in Nat /\ Pad \in Nat
       /\ Left < Pad
  BY <1>1, ChunkAssumption, AsrSizes, Sizes
<1>13. x.feats \in Seq(Seq(Nat)) /\ ~x.raw /\ Len(x.feats) = Body /\ x.fe.reserve = At(Pad - Left)
       /\ 1 <= x.count
  BY <1>9, <1>11 DEF Outcome, PieceCall
<1>14. At(Pad - Left) \in Nat
  <2>1. Pad - Left \in Int /\ Pad - Left >= 0
    BY <1>12
  <2>. QED  BY <2>1, AtInt
<1>15. Gives(x, n, final, made, total)
  BY <1>10, <1>11, <1>13, <1>14, OutcomeGives
<1>16. made \in Nat /\ Held(feats_cache, made) /\ Was(bodies) = Clip(made - Suf)
  BY <1>1, <1>3, AsrHolds
<1>17. Run(Numbers(x), made, made + Body)
  <2>1. Numbers(x) = [k \in 1..Body |-> made + k]
    BY <1>3, <1>13 DEF Numbers
  <2>2. (made + Body) - made = Body
    BY <1>12, <1>16
  <2>. QED  BY <2>1, <2>2, <1>12, <1>16 DEF Run
<1>18. /\ Run(body, Clip(made - Suf), Clip((made + Body) - Suf))
       /\ Held(feats_cache', made + Body)
  BY <1>5, <1>6, <1>8, <1>16, <1>17, PieceTiles
<1>19. body \in Seq(Nat)
  BY <1>18 DEF Run
<1>20. Called(n, final, x, body)
  BY <1>8, <1>10
<1>21. /\ CallTypes' /\ Within' /\ LfrAsOffline' /\ reader' = reader /\ fe' = x.fe
       /\ call' = [final |-> final, n |-> n, feats |-> x.feats, raw |-> x.raw, body |-> body]
       /\ samples' = Was(samples) + n /\ frames' = total
  BY <1>1, <1>3, <1>15, <1>19, <1>20, CalledKeeps
<1>22. /\ outs' = made + (IF x.raw THEN 0 ELSE Len(x.feats))
       /\ bodies' = Was(bodies) + Len(body)
  BY <1>1, <1>3, <1>15, <1>19, <1>20, CalledKeeps
<1>23. call'.final = FALSE /\ call'.body = body /\ reader' = "asr" /\ outs' = made + Body
  BY <1>1, <1>10, <1>13, <1>21, <1>22
<1>24. ~scored /\ surplus = 0 /\ scored \in BOOLEAN /\ missed \in BOOLEAN /\ failed \in BOOLEAN
  BY <1>1 DEF AsrWithin, Types
<1>25. Types'
  <2>1. feats_cache' \in Seq(Nat) /\ Len(feats_cache') = Pre + Suf
    BY <1>18 DEF Held
  <2>2. start_idx' \in Nat /\ surplus' \in Int /\ scored' \in BOOLEAN /\ is_first_chunk' \in BOOLEAN
        /\ missed' \in BOOLEAN /\ failed' \in BOOLEAN
    <3>1. start_idx' \in Nat
      BY <1>1, <1>8, <1>12, <1>13 DEF Types
    <3>2. surplus' \in Int
      BY <1>8, <1>24
    <3>3. is_first_chunk' = FALSE /\ scored' = scored
      BY <1>8
    <3>5. missed' \in BOOLEAN /\ failed' \in BOOLEAN
      BY Zenon, <1>8, <1>24
    <3>4. is_first_chunk' \in BOOLEAN /\ scored' \in BOOLEAN
      BY Zenon, <3>3, <1>24
    <3>. QED  BY <3>1, <3>2, <3>4, <3>5
  <2>3. cif' \in {"fresh", "used"} /\ decoder_onnx' \in {"fresh", "used", "broken"}
    BY <1>1, <1>8 DEF Types, ForwardChunk
  <2>. QED  BY Zenon, <2>1, <2>2, <2>3, <1>21 DEF Types, CallTypes
<1>26. VadWithin' /\ WavesEnough'
  BY <1>8, <1>23, <1>24 DEF VadWithin, WavesEnough
<1>27. AsrWithin'
  <2>1. \A k \in 1..Pre + Suf : feats_cache'[k] = Clip(outs' - (Pre + Suf) + k)
    BY <1>18, <1>23 DEF Held
  <2>2. /\ Body <= outs' /\ frames' = Row(outs') - Left /\ samples' = At(Row(outs'))
        /\ fe'.reserve = At(Pad - Left)
    <3>1. Body <= outs'
      BY <1>12, <1>16, <1>23
    <3>2. frames' = Row(outs') - Left /\ samples' = At(Row(outs'))
      BY <1>9, <1>21, <1>23 DEF PieceCall
    <3>3. fe'.reserve = At(Pad - Left)
      BY <1>13, <1>21
    <3>. QED  BY <3>1, <3>2, <3>3
  <2>3. ~scored' /\ surplus' = 0 /\ ~is_first_chunk'
    BY <1>8, <1>24
  <2>4. AsrOf(reader, scored', surplus', call'.final, is_first_chunk', outs', frames',
              samples', fe'.reserve, feats_cache')
    BY Zenon, <2>1, <2>2, <2>3, AsrIs
  <2>. QED  BY <2>4, <1>21, AsrNext
<1>28. BodiesTile'
  <2>1. PICK a \in Nat, b \in Nat : a = Clip(made - Suf) /\ b = Clip((made + Body) - Suf) /\ a <= b
    BY <1>12, <1>16 DEF Clip
  <2>2. Run(body, a, b)
    BY <2>1, <1>18
  <2>3. Len(body) = b - a
    BY <2>2 DEF Run
  <2>4. bodies' = b
    BY <2>1, <2>3, <1>16, <1>22
  <2>5. bodies' = IF outs' > Suf THEN outs' - Suf ELSE 0
    BY <2>1, <2>4, <1>12, <1>16, <1>23 DEF Clip
  <2>6. body = [k \in 1..Len(body) |-> b - Len(body) + k]
    BY <2>1, <2>2, RunIs
  <2>7. body = [k \in 1..Len(body) |-> bodies' - Len(body) + k]
    BY <2>4, <2>6
  <2>. QED  BY <2>5, <2>7, <1>23 DEF BodiesTile
<1>29. UtteranceFresh'
  BY <1>23 DEF UtteranceFresh
<1>. QED  BY <1>21, <1>25, <1>26, <1>27, <1>28, <1>29 DEF IndInv

-----------------------------------------------------------------------------
(* The theorems.                                                             *)

LEMMA StutterInv ==
    ASSUME IndInv, UNCHANGED vars
    PROVE  IndInv'
<1>1. /\ reader' = reader /\ fe' = fe /\ is_first_chunk' = is_first_chunk
      /\ feats_cache' = feats_cache /\ start_idx' = start_idx /\ cif' = cif
      /\ decoder_onnx' = decoder_onnx /\ scored' = scored /\ call' = call
      /\ samples' = samples /\ frames' = frames /\ outs' = outs /\ bodies' = bodies
      /\ surplus' = surplus /\ missed' = missed /\ failed' = failed /\ streams' = streams
  BY DEF vars, asrVars, vadVars
<1>2. Types'
  BY Zenon, <1>1 DEF IndInv, Types
<1>3. Within' /\ VadWithin' /\ AsrWithin'
  BY Zenon, <1>1 DEF IndInv, Within, VadWithin, AsrWithin, Follow, Row, Pad, M, N
<1>4. LfrAsOffline'
  <2>1. LfrAsOffline = AsOffline(reader, call.feats, call.raw, call.final, outs, frames)
    BY Zenon DEF LfrAsOffline, AsOffline, LfrOf, OfflineLfr, EndOf, MOf, NOf, Row, Pad, M, N
  <2>2. AsOffline(reader', call'.feats, call'.raw, call'.final, outs', frames')
          = AsOffline(reader, call.feats, call.raw, call.final, outs, frames)
    BY Zenon, <1>1
  <2>. QED  BY Zenon, <2>1, <2>2, AsOfflineNext DEF IndInv
<1>5. WavesEnough' /\ BodiesTile'
  BY Zenon, <1>1 DEF IndInv, WavesEnough, BodiesTile, Pad, M, At
<1>6. UtteranceFresh'
  BY Zenon, <1>1 DEF IndInv, UtteranceFresh, Zeros, NoCache
<1>. QED  BY <1>2, <1>3, <1>4, <1>5, <1>6 DEF IndInv

LEMMA NextInv ==
    ASSUME IndInv, [Next]_vars
    PROVE  IndInv'
<1>1. CASE UNCHANGED vars
  BY <1>1, StutterInv
<1>2. CASE \E n \in Blocks, ran \in BOOLEAN : Infer(n, FALSE, ran)
  <2>1. PICK n \in Blocks, ran \in BOOLEAN : Infer(n, FALSE, ran)
    BY <1>2
  <2>2. n \in Nat /\ Enough(n, VadM)
    BY ChunkAssumption, PieceAssumption
  <2>. QED  BY <2>1, <2>2, InferKeeps
<1>3. CASE \E n \in LastBlocks, ran \in BOOLEAN : Infer(n, TRUE, ran)
  <2>1. PICK n \in LastBlocks, ran \in BOOLEAN : Infer(n, TRUE, ran)
    BY <1>3
  <2>2. n \in Nat
    BY ChunkAssumption
  <2>. QED  BY <2>1, <2>2, InferKeeps
<1>4. CASE \E n \in Pieces : ForwardPiece(n)
  BY <1>4, PieceKeeps
<1>5. CASE \E n \in Rests : ForwardShort(n) \/ ForwardNothing(n) \/ ForwardLast(n)
  BY <1>5, ShortKeeps, NothingKeeps, LastKeeps
<1>. QED  BY <1>1, <1>2, <1>3, <1>4, <1>5 DEF Next

\* The inductive invariant holds for every size and every slicing into calls.
THEOREM Invariance == Spec => []IndInv
<1>1. Init => IndInv
  BY InitInv
<1>2. IndInv /\ [Next]_vars => IndInv'
  BY NextInv
<1>. QED  BY <1>1, <1>2, PTL DEF Spec

\* The caches of ExtractFeats and of the recogniser hold frames and positions.
THEOREM TypeCorrect == Spec => []TypeOK
<1>1. IndInv => TypeOK
  <2>1. SUFFICES ASSUME IndInv PROVE TypeOK
    OBVIOUS
  <2>2. Types
    BY <2>1 DEF IndInv
  <2>3. fe.input \in Nat /\ fe.reserve \in Nat /\ fe.splice \in Seq(Nat)
    BY <2>2 DEF Types
  <2>4. /\ call.final \in BOOLEAN /\ call.raw \in BOOLEAN /\ call.body \in Seq(Nat)
        /\ call.feats \in Seq(Seq(Nat))
    BY <2>2 DEF Types
  <2>5. IsFrames(fe.splice) /\ IsFrames(call.body)
    BY <2>3, <2>4 DEF IsFrames
  <2>6. IsFrames(feats_cache)
    BY <2>2 DEF Types, IsFrames
  <2>7. ASSUME NEW k \in DOMAIN call.feats PROVE IsFrames(call.feats[k])
    <3>1. call.feats[k] \in Seq(Nat)
      BY <2>4
    <3>. QED  BY <3>1 DEF IsFrames
  <2>8. {samples, frames, outs, bodies, streams} \subseteq Nat
    BY <2>2 DEF Types
  <2>. QED  BY Zenon, <2>2, <2>3, <2>4, <2>5, <2>6, <2>7, <2>8 DEF Types, TypeOK
<1>. QED  BY <1>1, Invariance, PTL

\* However an utterance is sliced into calls, its LFR frames are those that the
\* offline front end makes of the whole.
THEOREM LfrCorrect == Spec => []LfrAsOffline
<1>1. IndInv => LfrAsOffline
  BY DEF IndInv
<1>. QED  BY <1>1, Invariance, PTL

\* The detector never gets less audio than its LFR frames cover, whichever calls the
\* network fails on; only where it failed on the first one, the last may lack what
\* the padding is long.
THEOREM WavesCorrect == Spec => []WavesEnough
<1>1. IndInv => WavesEnough
  BY DEF IndInv
<1>. QED  BY <1>1, Invariance, PTL

\* Every LFR frame of an utterance is in the body of one chunk, in order.
THEOREM BodiesCorrect == Spec => []BodiesTile
<1>1. IndInv => BodiesTile
  BY DEF IndInv
<1>. QED  BY <1>1, Invariance, PTL

\* A last call leaves nothing of its utterance for the next one; the detector stays
\* within its stream only if the network failed the last time it ran.
THEOREM FreshCorrect == Spec => []UtteranceFresh
<1>1. IndInv => UtteranceFresh
  BY DEF IndInv
<1>. QED  BY <1>1, Invariance, PTL
=============================================================================
