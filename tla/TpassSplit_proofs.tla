--------------------------- MODULE TpassSplit_proofs ---------------------------
(***************************************************************************)
(* Proofs about TpassSplit, for every length of a ms, of a chunk and of the *)
(* cache, for every choice of block sizes, and for as many streams of any   *)
(* length: the types, that no copy of Split leaves the audio that is kept,  *)
(* that Split and the VAD agree on which segment is open, and that both     *)
(* passes hear each segment as TwoPass says.                                *)
(***************************************************************************)
EXTENDS TpassSplit, TLAPS

-----------------------------------------------------------------------------
(* The inductive invariant.                                                  *)

\* A frame that can be allocated, and copied from the samples lo..hi.
Fits(f, lo, hi) == f.from <= f.to /\ (f.from < f.to => lo <= f.from /\ f.to <= hi)
Copied(q, lo, hi) == \A k \in DOMAIN q : Fits(q[k], lo, hi)

Types ==
    /\ pc \in {"idle", "vad", "segments", "trim", "asr"}
    /\ mode \in Modes /\ input_finished \in BOOLEAN /\ switched \in BOOLEAN
    /\ size \in Nat /\ offset \in Nat /\ streams \in Nat
    /\ speech_start \in Nat \cup {None} /\ speech_offline_start \in Nat \cup {None}
    /\ speech_end \in Nat
    /\ heard \in Nat /\ open \in Nat \cup {None} /\ last \in Nat /\ kept \in BOOLEAN

Series ==
    /\ asr_online_queue \in Seq(Frames) /\ asr_offline_queue \in Seq(Frames)
    /\ online_res \in Seq(Frames) /\ tpass_msg \in Seq(Frames) /\ given \in Seq(Frames)

\* Where the VAD stands in the stream.
Positions ==
    /\ heard <= size /\ heard >= size - Delay
    /\ open # None => open < heard
    /\ speech_end <= size

\* Split and the VAD agree on the open segment.
Agree ==
    /\ speech_offline_start = open
    /\ speech_start = None <=> open = None
    /\ open # None => open <= speech_start

\* What is kept reaches back to the open segment, or by VectorCache.
Reaches ==
    /\ offset = 0 \/ offset <= size - VectorCache
    /\ open # None => offset <= open

\* The queues are filled while Split goes through the segments of a call.
Queued ==
    /\ pc \in {"idle", "vad"} => asr_online_queue = <<>> /\ asr_offline_queue = <<>>
    /\ pc \in {"segments", "trim"} =>
          Copied(asr_online_queue, offset, size) /\ Copied(asr_offline_queue, offset, size)

IndInv == Types /\ Series /\ Positions /\ Agree /\ Reaches /\ Queued

-----------------------------------------------------------------------------
(* Frames and queues.                                                        *)

LEMMA FrameType ==
    ASSUME NEW from \in Nat, NEW to \in Nat, NEW final \in BOOLEAN
    PROVE  /\ Frame(from, to, final) \in Frames
           /\ Frame(from, to, final).from = from
           /\ Frame(from, to, final).to = to
BY DEF Frame, Frames

LEMMA AppendCopied ==
    ASSUME NEW q \in Seq(Frames), NEW f \in Frames, NEW lo, NEW hi,
           Copied(q, lo, hi), Fits(f, lo, hi)
    PROVE  Append(q, f) \in Seq(Frames) /\ Copied(Append(q, f), lo, hi)
<1>1. Append(q, f) \in Seq(Frames) /\ DOMAIN Append(q, f) = 1..Len(q) + 1
  OBVIOUS
<1>2. \A k \in 1..Len(q) + 1 : Append(q, f)[k] = IF k = Len(q) + 1 THEN f ELSE q[k]
  OBVIOUS
<1>3. \A k \in 1..Len(q) + 1 : k # Len(q) + 1 => k \in DOMAIN q
  OBVIOUS
<1> QED
  BY <1>1, <1>2, <1>3 DEF Copied

LEMMA OneCopied ==
    ASSUME NEW f \in Frames, NEW lo, NEW hi, Fits(f, lo, hi)
    PROVE  <<f>> \in Seq(Frames) /\ Copied(<<f>>, lo, hi)
BY DEF Copied

LEMMA ConcatCopied ==
    ASSUME NEW q \in Seq(Frames), NEW r \in Seq(Frames), NEW lo, NEW hi,
           Copied(q, lo, hi), Copied(r, lo, hi)
    PROVE  q \o r \in Seq(Frames) /\ Copied(q \o r, lo, hi)
<1>1. q \o r \in Seq(Frames) /\ DOMAIN (q \o r) = 1..Len(q) + Len(r)
  OBVIOUS
<1>2. \A k \in 1..Len(q) + Len(r) :
          (q \o r)[k] = IF k <= Len(q) THEN q[k] ELSE r[k - Len(q)]
  OBVIOUS
<1>3. \A k \in 1..Len(q) + Len(r) :
          IF k <= Len(q) THEN k \in DOMAIN q ELSE k - Len(q) \in DOMAIN r
  OBVIOUS
<1> QED
  BY <1>1, <1>2, <1>3 DEF Copied

\* Multiplication by Step keeps the order.
LEMMA StepMonotone ==
    ASSUME NEW a \in Nat, NEW b \in Nat, a <= b
    PROVE  a * Step \in Nat /\ b * Step \in Nat /\ a * Step <= b * Step
BY TimeAssumption

\* The whole chunks in x samples are no longer than x.
LEMMA StepsWithin ==
    ASSUME NEW x \in Nat
    PROVE  x \div Step \in Nat /\ (x \div Step) * Step <= x
BY TimeAssumption

\* The rest of a segment is cut within the segment.
LEMMA RestCopied ==
    ASSUME NEW start \in Nat, NEW end \in Nat, NEW lo \in Nat, NEW hi \in Nat,
           lo <= start, end <= hi
    PROVE  Rest(start, end) \in Seq(Frames) /\ Copied(Rest(start, end), lo, hi)
<1>1. CASE end <= start
  <2>1. Rest(start, end) = <<Frame(start, start, TRUE)>>
    BY <1>1 DEF Rest
  <2>2. Frame(start, start, TRUE) \in Frames /\ Fits(Frame(start, start, TRUE), lo, hi)
    BY DEF Frame, Frames, Fits
  <2> QED
    BY <2>1, <2>2, OneCopied
<1>2. CASE end > start
  <2> DEFINE n == IF end - start - 1 <= Step THEN 1 ELSE (end - start - 2) \div Step + 1
             F(k) == Frame(start + (k - 1) * Step,
                           IF k = n THEN end ELSE start + k * Step, k = n)
  <2>1. Rest(start, end) = [k \in 1..n |-> F(k)]
    BY <1>2 DEF Rest
  <2>2. n \in Nat /\ n >= 1 /\ start + (n - 1) * Step <= end
    <3>1. CASE end - start - 1 <= Step
      BY <3>1, <1>2, TimeAssumption
    <3>2. CASE end - start - 1 > Step
      <4>1. end - start - 2 \in Nat
        BY <3>2, TimeAssumption
      <4>2. n = (end - start - 2) \div Step + 1
        BY <3>2, TimeAssumption
      <4> HIDE DEF n
      <4>3. (end - start - 2) \div Step \in Nat
            /\ ((end - start - 2) \div Step) * Step <= end - start - 2
        BY <4>1, StepsWithin
      <4>4. n - 1 = (end - start - 2) \div Step
        BY <4>2, <4>3
      <4> QED
        BY <4>2, <4>3, <4>4, TimeAssumption
    <3> QED
      BY <3>1, <3>2, TimeAssumption
  <2> HIDE DEF n
  <2>3. ASSUME NEW k \in 1..n
        PROVE  F(k) \in Frames /\ Fits(F(k), lo, hi)
    <3>1. (k - 1) * Step \in Nat /\ k * Step \in Nat /\ (k - 1) * Step <= k * Step
      BY <2>2, StepMonotone
    <3>2. (k - 1) * Step <= (n - 1) * Step /\ (n - 1) * Step \in Nat
      BY <2>2, StepMonotone
    <3>3. k # n => k * Step <= (n - 1) * Step
      BY <2>2, StepMonotone
    <3> DEFINE to == IF k = n THEN end ELSE start + k * Step
    <3>4. to \in Nat /\ start + (k - 1) * Step <= to /\ to <= end
      BY <3>1, <3>2, <3>3, <2>2
    <3>5. F(k) = Frame(start + (k - 1) * Step, to, k = n)
      OBVIOUS
    <3>6. start + (k - 1) * Step \in Nat /\ lo <= start + (k - 1) * Step
      BY <3>1
    <3> HIDE DEF to, F
    <3>7. F(k) \in Frames /\ F(k).from = start + (k - 1) * Step /\ F(k).to = to
      BY <3>4, <3>5, <3>6 DEF Frame, Frames
    <3> QED
      BY <3>4, <3>6, <3>7 DEF Fits
  <2> HIDE DEF F
  <2>4. Rest(start, end) \in Seq(Frames)
    BY <2>1, <2>2, <2>3
  <2> QED
    BY <2>1, <2>3, <2>4 DEF Copied
<1> QED
  BY <1>1, <1>2

-----------------------------------------------------------------------------
(* The steps.                                                                *)

LEMMA Initially == Init => IndInv
<1> SUFFICES ASSUME Init PROVE IndInv
  OBVIOUS
<1>1. Types
  BY DEF Init, Types, Vad!Init, Modes, None
<1>2. Positions
  BY TimeAssumption DEF Init, Positions, Vad!Init, None
<1>3. Agree /\ Reaches
  BY DEF Init, Agree, Reaches, Vad!Init, None
<1>4. Series /\ Queued
  BY DEF Init, Series, Queued
<1> QED
  BY <1>1, <1>2, <1>3, <1>4 DEF IndInv

LEMMA LoadKeeps ==
    ASSUME IndInv, NEW n \in Blocks, NEW final \in BOOLEAN, NEW m \in Modes,
           Load(n, final, m)
    PROVE  IndInv'
<1> USE DEF IndInv
<1>1. n \in Nat /\ n - (n % SegSample) \in Nat /\ n - (n % SegSample) <= n
  BY TimeAssumption
<1>2. Types'
  BY <1>1 DEF Load, Types, Positions
<1>3. Series'
  BY DEF Load, Series, queues
<1>4. Positions'
  <2>1. /\ heard' \in heard..size + n /\ heard' >= size + n - Delay
        /\ size' = size + n /\ open' = open
    BY DEF Load
  <2>2. speech_end' <= size'
    <3>1. speech_end' = speech_end + n - (n % SegSample) /\ size' = size + n
      BY DEF Load
    <3> QED
      BY <1>1, <3>1 DEF Types, Positions
  <2>3. heard' <= size' /\ heard' >= size' - Delay
    <3>1. size \in Nat /\ heard \in Nat /\ Delay \in Nat /\ n \in Nat
      BY <1>1, TimeAssumption DEF Types
    <3> QED
      BY <3>1, <2>1
  <2>4. open' # None => open' < heard'
    BY <1>1, <2>1 DEF Types, Positions, None
  <2> QED
    BY <2>2, <2>3, <2>4 DEF Positions
<1>5. Agree'
  BY DEF Load, Agree
<1>6. Reaches'
  BY <1>1, CacheAssumption DEF Load, Reaches, Types, None
<1>7. Queued'
  BY DEF Load, Queued, queues
<1> QED
  BY <1>2, <1>3, <1>4, <1>5, <1>6, <1>7

\* PushStep pushes a frame between start and speech_end, or none.
LEMMA PushStepCopied ==
    ASSUME IndInv, NEW start \in Nat, offset <= start, PushStep(start),
           Copied(asr_online_queue, offset, size)
    PROVE  /\ asr_online_queue' \in Seq(Frames)
           /\ Copied(asr_online_queue', offset, size)
           /\ speech_start' \in Nat /\ start <= speech_start'
<1> USE DEF IndInv
<1>1. CASE mode # "OFFLINE" /\ speech_end - start >= Step
  <2> DEFINE f == Frame(start, start + Step, FALSE)
  <2>1. f \in Frames /\ Fits(f, offset, size)
    BY <1>1, TimeAssumption DEF Frame, Frames, Fits, Types, Positions
  <2>2. asr_online_queue' = Append(asr_online_queue, f) /\ speech_start' = start + Step
    BY <1>1 DEF PushStep
  <2> HIDE DEF f
  <2>3. Append(asr_online_queue, f) \in Seq(Frames)
        /\ Copied(Append(asr_online_queue, f), offset, size)
    BY <2>1, AppendCopied DEF Series
  <2> QED
    BY <2>2, <2>3, TimeAssumption
<1>2. CASE ~(mode # "OFFLINE" /\ speech_end - start >= Step)
  <2>1. asr_online_queue' = asr_online_queue /\ speech_start' = start
    BY <1>2 DEF PushStep
  <2> QED
    BY <2>1 DEF Series
<1> QED
  BY <1>1, <1>2

LEMMA NoneCopied == \A lo, hi : Copied(<<>>, lo, hi)
BY DEF Copied

\* While Split is at work both queues hold what was copied in this call.
LEMMA CopiedSoFar ==
    ASSUME IndInv, pc \in {"vad", "segments", "trim"}
    PROVE  Copied(asr_online_queue, offset, size) /\ Copied(asr_offline_queue, offset, size)
BY NoneCopied DEF IndInv, Queued

LEMMA NoSegmentKeeps ==
    ASSUME IndInv, NoSegment
    PROVE  IndInv'
<1> USE DEF IndInv
<1>1. /\ UNCHANGED <<mode, input_finished, size, switched, streams, offset, speech_end,
                     speech_offline_start, asr_offline_queue, online_res, tpass_msg,
                     heard, open, last, given, ended, kept>>
      /\ pc = "vad" /\ pc' = "trim"
  BY DEF NoSegment, callVars, texts, vadVars
<1>2. /\ asr_online_queue' \in Seq(Frames) /\ Copied(asr_online_queue', offset, size)
      /\ speech_start = None => speech_start' = None
      /\ speech_start # None => speech_start' \in Nat /\ speech_start <= speech_start'
  <2>1. CASE speech_start = None
    BY <2>1, <1>1, CopiedSoFar DEF NoSegment, Series
  <2>2. CASE speech_start # None
    <3>1. speech_start \in Nat /\ offset <= speech_start
      BY <2>2 DEF Types, Agree, Reaches, None
    <3>2. PushStep(speech_start)
      BY <2>2 DEF NoSegment
    <3> QED
      BY <2>2, <3>1, <3>2, <1>1, CopiedSoFar, PushStepCopied
  <2> QED
    BY <2>1, <2>2
<1>3. Types'
  BY <1>1, <1>2 DEF Types
<1>4. Series'
  BY <1>1, <1>2 DEF Series
<1>5. Positions' /\ Reaches'
  BY <1>1 DEF Positions, Reaches
<1>6. Agree'
  BY <1>1, <1>2 DEF Agree, None, Types
<1>7. Queued'
  BY <1>1, <1>2, CopiedSoFar DEF Queued
<1> QED
  BY <1>3, <1>4, <1>5, <1>6, <1>7

\* What Segment leaves alone.
LEMMA SegmentFrame ==
    ASSUME Segment
    PROVE  /\ UNCHANGED <<mode, input_finished, size, switched, streams, offset, speech_end,
                          online_res, tpass_msg, given>>
           /\ pc \in {"vad", "segments"} /\ pc' = "segments"
BY DEF Segment, callVars, texts

\* Ends leaves no segment open.
LEMMA EndsResets ==
    ASSUME NEW s, NEW e, Ends(s, e)
    PROVE  speech_start' = None /\ speech_offline_start' = None /\ kept' \in BOOLEAN
BY DEF Ends

\* A segment that begins now begins in what is kept: the reason for the two
\* seconds of vector_cache.
LEMMA BeginsKept ==
    ASSUME IndInv, NEW s \in Times, s >= heard - Lag
    PROVE  s \in Nat /\ offset <= s
BY TimeAssumption, CacheAssumption DEF IndInv, Types, Positions, Reaches, Times

LEMMA SegmentWholeKeeps ==
    ASSUME IndInv, NEW s \in Times, NEW e \in Times, SegmentWhole(s, e)
    PROVE  IndInv'
<1> USE DEF IndInv
<1>1. /\ UNCHANGED <<mode, input_finished, size, switched, streams, offset, speech_end,
                     online_res, tpass_msg, given>>
      /\ pc \in {"vad", "segments"} /\ pc' = "segments"
  BY SegmentFrame DEF SegmentWhole
<1>2. speech_start' = None /\ speech_offline_start' = None /\ kept' \in BOOLEAN
  BY EndsResets DEF SegmentWhole
<1>3. /\ s \in last..heard - 1 /\ s >= heard - Lag /\ e \in s + 1..heard
      /\ open = None /\ open' = open /\ heard' = heard /\ last' = e
  BY DEF SegmentWhole, Vad!Whole, None
<1>4. s \in Nat /\ offset <= s /\ e \in Nat /\ s < e /\ e <= size
  BY <1>3, BeginsKept DEF Types, Positions
<1> DEFINE f == Frame(s, e, TRUE)
<1>5. f \in Frames /\ Fits(f, offset, size)
  BY <1>4 DEF Frame, Frames, Fits
<1>6. /\ asr_online_queue' = asr_online_queue \/ asr_online_queue' = Append(asr_online_queue, f)
      /\ asr_offline_queue' = asr_offline_queue \/ asr_offline_queue' = Append(asr_offline_queue, f)
  BY DEF SegmentWhole
<1> HIDE DEF f
<1>7. /\ asr_online_queue' \in Seq(Frames) /\ Copied(asr_online_queue', offset, size)
      /\ asr_offline_queue' \in Seq(Frames) /\ Copied(asr_offline_queue', offset, size)
  <2>1. Copied(asr_online_queue, offset, size) /\ Copied(asr_offline_queue, offset, size)
    BY <1>1, CopiedSoFar
  <2>2. /\ Append(asr_online_queue, f) \in Seq(Frames)
        /\ Copied(Append(asr_online_queue, f), offset, size)
    BY <1>5, <2>1, AppendCopied DEF Series
  <2>3. /\ Append(asr_offline_queue, f) \in Seq(Frames)
        /\ Copied(Append(asr_offline_queue, f), offset, size)
    BY <1>5, <2>1, AppendCopied DEF Series
  <2> QED
    BY <1>6, <2>1, <2>2, <2>3 DEF Series
<1>8. Types'
  BY <1>1, <1>2, <1>3, <1>4 DEF Types
<1>9. Series' /\ Queued'
  BY <1>1, <1>7 DEF Series, Queued
<1>10. Positions' /\ Agree' /\ Reaches'
  BY <1>1, <1>2, <1>3 DEF Positions, Agree, Reaches
<1> QED
  BY <1>8, <1>9, <1>10

LEMMA SegmentBeginsKeeps ==
    ASSUME IndInv, NEW s \in Times, SegmentBegins(s)
    PROVE  IndInv'
<1> USE DEF IndInv
<1>1. /\ UNCHANGED <<mode, input_finished, size, switched, streams, offset, speech_end,
                     online_res, tpass_msg, given>>
      /\ pc \in {"vad", "segments"} /\ pc' = "segments"
  BY SegmentFrame DEF SegmentBegins
<1>2. /\ s \in last..heard - 1 /\ s >= heard - Lag
      /\ open' = s /\ heard' = heard /\ last' = last
  BY DEF SegmentBegins, Vad!Begin
<1>3. s \in Nat /\ offset <= s /\ s < heard
  BY <1>2, BeginsKept DEF Types
<1>4. Copied(asr_online_queue, offset, size) /\ Copied(asr_offline_queue, offset, size)
  BY <1>1, CopiedSoFar
<1>5. /\ PushStep(s) /\ speech_offline_start' = s
      /\ UNCHANGED <<asr_offline_queue, kept>>
  BY DEF SegmentBegins
<1>6. /\ asr_online_queue' \in Seq(Frames) /\ Copied(asr_online_queue', offset, size)
      /\ speech_start' \in Nat /\ s <= speech_start'
  BY <1>3, <1>4, <1>5, PushStepCopied
<1>7. Types'
  BY <1>1, <1>2, <1>3, <1>5, <1>6 DEF Types
<1>8. Series' /\ Queued'
  BY <1>1, <1>4, <1>5, <1>6 DEF Series, Queued
<1>9. Positions' /\ Reaches'
  BY <1>1, <1>2, <1>3 DEF Positions, Reaches
<1>10. Agree'
  BY <1>2, <1>3, <1>5, <1>6 DEF Agree, None
<1> QED
  BY <1>7, <1>8, <1>9, <1>10

LEMMA SegmentEndsKeeps ==
    ASSUME IndInv, NEW e \in Times, SegmentEnds(e)
    PROVE  IndInv'
<1> USE DEF IndInv
<1>1. /\ UNCHANGED <<mode, input_finished, size, switched, streams, offset, speech_end,
                     online_res, tpass_msg, given>>
      /\ pc \in {"vad", "segments"} /\ pc' = "segments"
  BY SegmentFrame DEF SegmentEnds
<1>2. speech_start' = None /\ speech_offline_start' = None /\ kept' \in BOOLEAN
  BY EndsResets DEF SegmentEnds
<1>3. /\ open # None /\ e \in open + 1..heard
      /\ open' = None /\ last' = e /\ heard' = heard
  BY DEF SegmentEnds, Vad!End, None
<1>4. /\ open \in Nat /\ speech_offline_start = open /\ speech_start \in Nat
      /\ offset <= open /\ open <= speech_start /\ speech_start # None
  BY <1>3 DEF Types, Agree, Reaches, None
<1>5. e \in Nat /\ open < e /\ e <= size
  BY <1>3, <1>4 DEF Types, Positions
<1> DEFINE f == Frame(open, e, TRUE)
           r == Rest(speech_start, e)
<1>6. f \in Frames /\ Fits(f, offset, size)
  BY <1>4, <1>5 DEF Frame, Frames, Fits
<1>7. r \in Seq(Frames) /\ Copied(r, offset, size)
  <2>1. offset \in Nat /\ size \in Nat /\ offset <= speech_start
    BY <1>4 DEF Types
  <2> QED
    BY <1>4, <1>5, <2>1, RestCopied
<1>8. RestStart = speech_start
  BY <1>3, <1>4 DEF RestStart
<1>9. /\ asr_online_queue' = asr_online_queue \/ asr_online_queue' = asr_online_queue \o r
      /\ asr_offline_queue' = asr_offline_queue \/ asr_offline_queue' = Append(asr_offline_queue, f)
  BY <1>4, <1>8 DEF SegmentEnds
<1> HIDE DEF f, r
<1>10. /\ asr_online_queue' \in Seq(Frames) /\ Copied(asr_online_queue', offset, size)
       /\ asr_offline_queue' \in Seq(Frames) /\ Copied(asr_offline_queue', offset, size)
  <2>1. Copied(asr_online_queue, offset, size) /\ Copied(asr_offline_queue, offset, size)
    BY <1>1, CopiedSoFar
  <2>2. /\ asr_online_queue \o r \in Seq(Frames)
        /\ Copied(asr_online_queue \o r, offset, size)
    BY <1>7, <2>1, ConcatCopied DEF Series
  <2>3. /\ Append(asr_offline_queue, f) \in Seq(Frames)
        /\ Copied(Append(asr_offline_queue, f), offset, size)
    BY <1>6, <2>1, AppendCopied DEF Series
  <2> QED
    BY <1>9, <2>1, <2>2, <2>3 DEF Series
<1>11. Types'
  BY <1>1, <1>2, <1>3, <1>5 DEF Types
<1>12. Series' /\ Queued'
  BY <1>1, <1>10 DEF Series, Queued
<1>13. Positions' /\ Agree' /\ Reaches'
  BY <1>1, <1>2, <1>3 DEF Positions, Agree, Reaches
<1> QED
  BY <1>11, <1>12, <1>13

LEMMA TrimKeeps ==
    ASSUME IndInv, Trim
    PROVE  IndInv'
<1> USE DEF IndInv
<1>1. /\ UNCHANGED <<mode, input_finished, size, switched, streams, speech_start, speech_end,
                     speech_offline_start, asr_online_queue, asr_offline_queue, online_res,
                     tpass_msg, heard, open, last, given, ended, kept>>
      /\ pc' = "asr"
  BY DEF Trim, callVars, posVars, queues, texts, vadVars
<1> DEFINE end == IF speech_offline_start = None THEN size ELSE speech_offline_start
<1>2. offset' = IF end - offset > VectorCache THEN end - VectorCache ELSE offset
  BY DEF Trim
<1>3. end \in Nat /\ end <= size /\ (open # None => end = open)
  BY DEF Types, Positions, Agree, None
<1> HIDE DEF end
<1>4. /\ offset' \in Nat
      /\ offset' = 0 \/ offset' <= size - VectorCache
      /\ open # None => offset' <= open
  <2>1. CASE end - offset > VectorCache
    BY <1>2, <1>3, <2>1, CacheAssumption DEF Types, None
  <2>2. CASE ~(end - offset > VectorCache)
    BY <1>2, <2>2 DEF Types, Reaches
  <2> QED
    BY <2>1, <2>2
<1>5. Types' /\ Series' /\ Positions' /\ Agree' /\ Queued'
  BY <1>1, <1>4 DEF Types, Series, Positions, Agree, Queued
<1>6. Reaches'
  BY <1>1, <1>4 DEF Reaches
<1> QED
  BY <1>5, <1>6

LEMMA ForwardOnlineKeeps ==
    ASSUME IndInv, ForwardOnline
    PROVE  IndInv'
<1> USE DEF IndInv
<1>1. /\ UNCHANGED <<pc, mode, input_finished, size, switched, streams, offset, speech_start,
                     speech_end, speech_offline_start, asr_offline_queue, heard, open, last>>
      /\ pc = "asr" /\ asr_online_queue # <<>>
      /\ asr_online_queue' = Tail(asr_online_queue)
  BY DEF ForwardOnline, callVars, posVars, vadVars
<1> DEFINE frame == Head(asr_online_queue)
<1>2. frame \in Frames /\ Tail(asr_online_queue) \in Seq(Frames)
  BY <1>1 DEF Series
<1>3. /\ given' = Append(IF Within THEN given ELSE <<>>, frame)
      /\ online_res' = IF mode = "ONLINE" THEN ResAfter(Append(online_res, frame), frame.final)
                                          ELSE online_res
      /\ tpass_msg' = IF mode = "ONLINE" /\ frame.final THEN Append(online_res, frame)
                                                        ELSE tpass_msg
      /\ kept' = (kept \/ frame.final)
  BY DEF ForwardOnline
<1> HIDE DEF frame
<1>4. Append(online_res, frame) \in Seq(Frames) /\ Append(given, frame) \in Seq(Frames)
      /\ Append(<<>>, frame) \in Seq(Frames)
  BY <1>2 DEF Series
<1>5. kept' \in BOOLEAN
  BY <1>3
<1>6. Types'
  BY <1>1, <1>5 DEF Types
<1>7. Series'
  BY <1>1, <1>2, <1>3, <1>4 DEF Series, ResAfter
<1>8. Positions' /\ Agree' /\ Reaches' /\ Queued'
  BY <1>1 DEF Positions, Agree, Reaches, Queued
<1> QED
  BY <1>6, <1>7, <1>8

LEMMA ForwardOfflineKeeps ==
    ASSUME IndInv, ForwardOffline
    PROVE  IndInv'
<1> USE DEF IndInv
<1>1. /\ UNCHANGED <<pc, mode, input_finished, size, switched, streams, offset, speech_start,
                     speech_end, speech_offline_start, asr_online_queue, online_res,
                     heard, open, last, given, kept>>
      /\ pc = "asr" /\ asr_offline_queue # <<>>
      /\ asr_offline_queue' = Tail(asr_offline_queue)
      /\ tpass_msg' = <<Head(asr_offline_queue)>>
  BY DEF ForwardOffline, callVars, posVars, vadVars
<1>2. Head(asr_offline_queue) \in Frames /\ Tail(asr_offline_queue) \in Seq(Frames)
  BY <1>1 DEF Series
<1>3. Types' /\ Positions' /\ Agree' /\ Reaches' /\ Queued'
  BY <1>1 DEF Types, Positions, Agree, Reaches, Queued
<1>4. Series'
  BY <1>1, <1>2 DEF Series
<1> QED
  BY <1>3, <1>4

LEMMA ReturnsKeeps ==
    ASSUME IndInv, Returns \/ ReturnsFinal
    PROVE  IndInv'
<1> USE DEF IndInv
<1>1. CASE Returns
  <2>1. /\ UNCHANGED <<mode, input_finished, size, switched, streams, offset, speech_start,
                       speech_end, speech_offline_start, asr_online_queue, asr_offline_queue,
                       online_res, tpass_msg, heard, open, last, given, kept>>
        /\ asr_online_queue = <<>> /\ asr_offline_queue = <<>> /\ pc' = "idle"
    BY <1>1 DEF Returns, callVars, posVars, queues, texts, vadVars
  <2> QED
    BY <2>1 DEF Types, Series, Positions, Agree, Reaches, Queued
<1>2. CASE ReturnsFinal
  <2>1. /\ UNCHANGED <<mode, input_finished, switched, asr_online_queue, asr_offline_queue,
                       online_res, tpass_msg, given, kept>>
        /\ asr_online_queue = <<>> /\ asr_offline_queue = <<>> /\ pc' = "idle"
        /\ size' = 0 /\ offset' = 0 /\ speech_end' = 0
        /\ speech_start' = None /\ speech_offline_start' = None
        /\ heard' = 0 /\ open' = None /\ last' = 0 /\ streams' = streams + 1
    BY <1>2 DEF ReturnsFinal, queues, texts, Vad!Restart, None
  <2>2. Types'
    BY <2>1 DEF Types
  <2>3. Positions'
    BY <2>1, TimeAssumption DEF Positions
  <2>4. Series' /\ Agree' /\ Reaches' /\ Queued'
    BY <2>1 DEF Series, Agree, Reaches, Queued
  <2> QED
    BY <2>2, <2>3, <2>4
<1> QED
  BY <1>1, <1>2

-----------------------------------------------------------------------------
(* The theorems.                                                             *)

LEMMA StepKeeps == IndInv /\ [Next]_vars => IndInv'
<1> SUFFICES ASSUME IndInv, [Next]_vars PROVE IndInv'
  OBVIOUS
<1>1. CASE Next
  <2>1. ASSUME NEW n \in Blocks, NEW final \in BOOLEAN, NEW m \in Modes, Load(n, final, m)
        PROVE  IndInv'
    BY <2>1, LoadKeeps
  <2>2. ASSUME NEW s \in Times, SegmentBegins(s)
        PROVE  IndInv'
    BY <2>2, SegmentBeginsKeeps
  <2>3. ASSUME NEW e \in Times, SegmentEnds(e)
        PROVE  IndInv'
    BY <2>3, SegmentEndsKeeps
  <2>4. ASSUME NEW s \in Times, NEW e \in Times, SegmentWhole(s, e)
        PROVE  IndInv'
    BY <2>4, SegmentWholeKeeps
  <2> QED
    BY <1>1, <2>1, <2>2, <2>3, <2>4, NoSegmentKeeps, TrimKeeps, ForwardOnlineKeeps,
       ForwardOfflineKeeps, ReturnsKeeps DEF Next
<1>2. CASE UNCHANGED vars
  BY <1>2 DEF vars, callVars, posVars, queues, texts, vadVars, IndInv, Types, Series,
     Positions, Agree, Reaches, Queued
<1> QED
  BY <1>1, <1>2

\* The invariant holds in every call of every stream, whatever the VAD tells of
\* what it heard and whichever mode the client asks for.
THEOREM Invariance == Spec => []IndInv
<1> QED
  BY Initially, StepKeeps, PTL DEF Spec

\* Type correctness of Split and FunTpassInferBuffer.
THEOREM TypeCorrect == Spec => []TypeOK
<1>1. IndInv => TypeOK
  BY DEF IndInv, Types, Series, TypeOK
<1> QED
  BY <1>1, Invariance, PTL

\* No memcpy of Split leaves all_samples, however the audio is cut into calls and
\* wherever the segments lie, as long as vector_cache is no shorter than what the
\* VAD may hold back and look back.
THEOREM CopiesInBounds == Spec => []InBounds
<1>1. IndInv => InBounds
  BY DEF IndInv, Queued, Copied, Fits, InBounds
<1> QED
  BY <1>1, Invariance, PTL

\* Split and the VAD agree on the open segment, so that Split never copies from
\* position 0 for want of a start.
THEOREM StartsCorrect == Spec => []StartsAgree
<1>1. IndInv => StartsAgree
  BY DEF IndInv, Agree, StartsAgree
<1> QED
  BY <1>1, Invariance, PTL

-----------------------------------------------------------------------------
(* Both passes: TpassSplit implements TwoPass, each segment of speech is     *)
(* heard once, whole and in order by both recognisers; the streaming one     *)
(* keeps up, and the text it tells is whole.                                 *)

Spans == {p \in (0..MaxSamples) \X (0..MaxSamples) : p[1] < p[2]}

\* Where the piece of a segment that ends at e ends, when it begins at from.
EndOf(from, e) == IF from > e THEN from ELSE e

\* The queue q of the streaming recogniser, when the segments e wait to be heard
\* to their end: pieces of one utterance, then one last piece for each segment.
Ordered(q, e) ==
    /\ Len(e) <= Len(q)
    /\ \A k \in 1..Len(q) : q[k].final <=> k > Len(q) - Len(e)
    /\ \A i \in 1..Len(e) :
          q[Len(q) - Len(e) + i].to = EndOf(q[Len(q) - Len(e) + i].from, e[i][2])
    /\ \A i \in 2..Len(e) : q[Len(q) - Len(e) + i].from = e[i][1]
    /\ \A k \in 1..Len(q) - Len(e) :
          q[k].from < q[k].to /\ (e # <<>> => q[k].to < e[1][2])
    /\ \A k \in 2..Len(q) : k - 1 <= Len(q) - Len(e) => q[k].from = q[k - 1].to

Bounded(q) == \A k \in 1..Len(q) : q[k].from <= MaxSamples /\ q[k].to <= MaxSamples

Line ==
    /\ size <= MaxSamples
    /\ ended \in Seq(Spans)
    /\ Ordered(asr_online_queue, ended) /\ Bounded(asr_online_queue)
    /\ mode = "OFFLINE" => asr_online_queue = <<>>

\* A segment that began in this call is too short for a chunk; one that began in
\* an earlier call is the first to end.
Fresh ==
    pc = "segments" =>
        /\ asr_online_queue # <<>> => ended # <<>>
        /\ open # None => open >= heard - Lag /\ speech_start = open

\* Where the next piece of the open segment begins.
Past == open + Step <= speech_start /\ speech_start <= speech_end

Stands ==
    open # None =>
        /\ speech_start <= size
        /\ ended # <<>> => speech_start = open
        /\ kept /\ ended = <<>> /\ asr_online_queue # <<>> =>
              speech_start = asr_online_queue[Len(asr_online_queue)].to /\ Past
        /\ kept /\ asr_online_queue = <<>> /\ Within =>
              speech_start = given[Len(given)].to /\ Past
        /\ kept /\ asr_online_queue = <<>> /\ ~Within => speech_start = open

\* What the streaming recogniser hears next.
Turn ==
    /\ asr_online_queue # <<>> /\ ended = <<>> => open # None
    /\ asr_online_queue # <<>> /\ kept => asr_online_queue[1].from = Service!NextFrom
    /\ asr_online_queue = <<>> /\ open = None /\ kept => ~Within

HearInv == Line /\ Fresh /\ Stands /\ Turn

\* The chunks are never further behind than this.
Behind == IF pc = "vad" THEN Step + Step + Lag + Delay ELSE Step + Lag + Delay
LateInv ==
    open # None /\ mode # "OFFLINE" /\ ~switched => speech_end - speech_start < Behind

\* Whose pieces the texts are made of.
TextInv ==
    /\ pc \in {"vad", "segments", "trim"} => tpass_msg = <<>>
    /\ mode = "ONLINE" => asr_offline_queue = <<>>
    /\ mode = "ONLINE" /\ ~switched =>
          /\ online_res = IF Within THEN given ELSE <<>>
          /\ tpass_msg # <<>> => tpass_msg = given /\ Len(asr_online_queue) = Len(ended)

-----------------------------------------------------------------------------
(* The queue of the streaming recogniser.                                    *)

LEMMA OrderedEmpty == Ordered(<<>>, <<>>) /\ Bounded(<<>>)
BY DEF Ordered, Bounded

\* Nothing waits to be heard to its end when the queue is empty.
LEMMA OrderedNone ==
    ASSUME NEW e \in Seq(Spans), Ordered(<<>>, e)
    PROVE  e = <<>>
<1>1. Len(e) <= 0
  BY DEF Ordered
<1> QED
  BY <1>1

\* The elements of a tail.
LEMMA TailAt ==
    ASSUME NEW S, NEW q \in Seq(S), q # <<>>
    PROVE  /\ Tail(q) \in Seq(S) /\ Len(Tail(q)) = Len(q) - 1 /\ Len(q) \in Nat \ {0}
           /\ \A k \in 1..Len(q) - 1 : Tail(q)[k] = q[k + 1]
           /\ Tail(q) # <<>> <=> Len(q) > 1
<1>1. /\ Tail(q) \in Seq(S) /\ Len(Tail(q)) = Len(q) - 1 /\ Len(q) \in Nat \ {0}
      /\ \A k \in 1..Len(q) - 1 : Tail(q)[k] = q[k + 1]
  OBVIOUS
<1>2. PICK t \in Seq(S) : t = Tail(q)
  BY <1>1
<1>3. t # <<>> <=> Len(t) > 0
  OBVIOUS
<1> QED
  BY <1>1, <1>2, <1>3

\* A piece is heard.
LEMMA OrderedPiece ==
    ASSUME NEW q \in Seq(Frames), NEW e \in Seq(Spans), Ordered(q, e), Bounded(q),
           q # <<>>, ~q[1].final
    PROVE  /\ Ordered(Tail(q), e) /\ Bounded(Tail(q)) /\ Len(q) > Len(e)
           /\ q[1].from < q[1].to /\ (e # <<>> => q[1].to < e[1][2])
           /\ Tail(q) # <<>> => Tail(q)[1].from = q[1].to
<1> DEFINE t == Tail(q)
<1>1. /\ t \in Seq(Frames) /\ Len(t) = Len(q) - 1 /\ Len(q) \in Nat \ {0}
      /\ \A k \in 1..Len(q) - 1 : t[k] = q[k + 1]
      /\ t # <<>> <=> Len(q) > 1
  BY TailAt
<1>2. Len(e) \in Nat
  OBVIOUS
<1>3. Len(q) > Len(e)
  <2>1. 1 \in 1..Len(q) /\ (q[1].final <=> 1 > Len(q) - Len(e)) /\ Len(e) <= Len(q)
    BY <1>1 DEF Ordered
  <2> QED
    BY <1>1, <1>2, <2>1
<1> HIDE DEF t
<1>4. Bounded(t)
  BY <1>1 DEF Bounded
<1>5. \A k \in 1..Len(t) : t[k].final <=> k > Len(t) - Len(e)
  <2> SUFFICES ASSUME NEW k \in 1..Len(t)
               PROVE  t[k].final <=> k > Len(t) - Len(e)
    OBVIOUS
  <2>1. k \in 1..Len(q) - 1 /\ k + 1 \in 1..Len(q)
    BY <1>1
  <2>2. k > Len(t) - Len(e) <=> k + 1 > Len(q) - Len(e)
    BY <1>1, <1>2
  <2>3. t[k] = q[k + 1]
    BY <1>1, <2>1
  <2>4. q[k + 1].final <=> k + 1 > Len(q) - Len(e)
    BY <2>1 DEF Ordered
  <2> QED
    BY <2>2, <2>3, <2>4
<1>6. \A i \in 1..Len(e) : Len(t) - Len(e) + i \in 1..Len(q) - 1
                           /\ t[Len(t) - Len(e) + i] = q[Len(q) - Len(e) + i]
  <2> SUFFICES ASSUME NEW i \in 1..Len(e)
               PROVE  Len(t) - Len(e) + i \in 1..Len(q) - 1
                      /\ t[Len(t) - Len(e) + i] = q[Len(q) - Len(e) + i]
    OBVIOUS
  <2>1. Len(t) - Len(e) + i \in 1..Len(q) - 1
    BY <1>1, <1>2, <1>3
  <2>2. (Len(t) - Len(e) + i) + 1 = Len(q) - Len(e) + i
    BY <1>1, <1>2
  <2>3. t[Len(t) - Len(e) + i] = q[(Len(t) - Len(e) + i) + 1]
    BY <1>1, <2>1
  <2> QED
    BY <2>1, <2>2, <2>3
<1>7. \A i \in 1..Len(e) :
          t[Len(t) - Len(e) + i].to = EndOf(t[Len(t) - Len(e) + i].from, e[i][2])
  BY <1>6 DEF Ordered
<1>8. \A i \in 2..Len(e) : t[Len(t) - Len(e) + i].from = e[i][1]
  <2>1. \A i \in 2..Len(e) : i \in 1..Len(e)
    BY <1>2
  <2> QED
    BY <1>6, <2>1 DEF Ordered
<1>9. \A k \in 1..Len(t) - Len(e) :
          t[k].from < t[k].to /\ (e # <<>> => t[k].to < e[1][2])
  <2>1. \A k \in 1..Len(t) - Len(e) : k \in 1..Len(q) - 1 /\ k + 1 \in 1..Len(q) - Len(e)
    BY <1>1, <1>2
  <2> QED
    BY <1>1, <2>1 DEF Ordered
<1>10. \A k \in 2..Len(t) : k - 1 <= Len(t) - Len(e) => t[k].from = t[k - 1].to
  <2> SUFFICES ASSUME NEW k \in 2..Len(t), k - 1 <= Len(t) - Len(e)
               PROVE  t[k].from = t[k - 1].to
    OBVIOUS
  <2>0. k \in 1..Len(q) - 1 /\ k - 1 \in 1..Len(q) - 1 /\ (k - 1) + 1 = k
    BY <1>1
  <2>1. t[k] = q[k + 1] /\ t[k - 1] = q[(k - 1) + 1] /\ (k - 1) + 1 = k
    BY <1>1, <2>0
  <2>2. k + 1 \in 2..Len(q) /\ (k + 1) - 1 = k /\ k <= Len(q) - Len(e)
    BY <1>1, <1>2
  <2>3. q[k + 1].from = q[(k + 1) - 1].to
    BY <2>2 DEF Ordered
  <2> QED
    BY <2>1, <2>2, <2>3
<1>11. Ordered(t, e)
  BY <1>1, <1>2, <1>3, <1>5, <1>7, <1>8, <1>9, <1>10 DEF Ordered
<1>12. q[1].from < q[1].to /\ (e # <<>> => q[1].to < e[1][2])
  BY <1>1, <1>2, <1>3 DEF Ordered
<1>13. t # <<>> => t[1].from = q[1].to
  <2> SUFFICES ASSUME t # <<>> PROVE t[1].from = q[1].to
    OBVIOUS
  <2>1. 2 \in 2..Len(q) /\ 2 - 1 = 1 /\ 1 <= Len(q) - Len(e) /\ 1 \in 1..Len(q) - 1 /\ 1 + 1 = 2
    BY <1>1, <1>2, <1>3
  <2>2. q[2].from = q[2 - 1].to
    BY <2>1 DEF Ordered
  <2>3. t[1] = q[1 + 1]
    BY <1>1, <2>1
  <2> QED
    BY <2>1, <2>2, <2>3
<1> QED
  BY <1>3, <1>4, <1>11, <1>12, <1>13 DEF t

\* A last piece is heard.
LEMMA OrderedLast ==
    ASSUME NEW q \in Seq(Frames), NEW e \in Seq(Spans), Ordered(q, e), Bounded(q),
           q # <<>>, q[1].final
    PROVE  /\ Ordered(Tail(q), Tail(e)) /\ Bounded(Tail(q)) /\ Len(q) = Len(e) /\ e # <<>>
           /\ q[1].to = EndOf(q[1].from, e[1][2])
           /\ Tail(q) # <<>> => Tail(e) # <<>> /\ Tail(q)[1].from = Tail(e)[1][1]
<1> DEFINE t == Tail(q)
           r == Tail(e)
<1>1. /\ t \in Seq(Frames) /\ Len(t) = Len(q) - 1 /\ Len(q) \in Nat \ {0}
      /\ \A k \in 1..Len(q) - 1 : t[k] = q[k + 1]
      /\ t # <<>> <=> Len(q) > 1
  BY TailAt
<1>2. Len(e) \in Nat /\ Len(e) = Len(q) /\ e # <<>>
  <2>1. 1 \in 1..Len(q) /\ (q[1].final <=> 1 > Len(q) - Len(e)) /\ Len(e) <= Len(q)
    BY <1>1 DEF Ordered
  <2> QED
    BY <1>1, <2>1
<1>3. /\ r \in Seq(Spans) /\ Len(r) = Len(e) - 1
      /\ \A k \in 1..Len(e) - 1 : r[k] = e[k + 1]
      /\ r # <<>> <=> Len(e) > 1
  BY <1>2, TailAt
<1>4. /\ \A k \in 1..Len(q) : q[k].final
      /\ \A i \in 1..Len(q) : q[i].to = EndOf(q[i].from, e[i][2])
      /\ \A i \in 2..Len(q) : q[i].from = e[i][1]
  <2>1. Len(q) - Len(e) = 0 /\ \A i \in 1..Len(e) : Len(q) - Len(e) + i = i
    BY <1>1, <1>2
  <2>2. \A i \in 2..Len(e) : Len(q) - Len(e) + i = i
    BY <1>1, <1>2
  <2>3. \A k \in 1..Len(q) : k > Len(q) - Len(e)
    BY <1>1, <2>1
  <2>4. \A k \in 1..Len(q) : q[k].final
    BY <2>3 DEF Ordered
  <2>5. \A i \in 1..Len(e) : q[i].to = EndOf(q[i].from, e[i][2])
    BY <2>1 DEF Ordered
  <2>6. \A i \in 2..Len(e) : q[i].from = e[i][1]
    BY <2>2 DEF Ordered
  <2> QED
    BY <1>2, <2>4, <2>5, <2>6
<1> HIDE DEF t, r
<1>5. Bounded(t)
  BY <1>1 DEF Bounded
<1>6. \A k \in 1..Len(t) : t[k].final <=> k > Len(t) - Len(r)
  BY <1>1, <1>2, <1>3, <1>4
<1>7. \A i \in 1..Len(r) :
          t[Len(t) - Len(r) + i].to = EndOf(t[Len(t) - Len(r) + i].from, r[i][2])
  <2> SUFFICES ASSUME NEW i \in 1..Len(r)
               PROVE  t[Len(t) - Len(r) + i].to = EndOf(t[Len(t) - Len(r) + i].from, r[i][2])
    OBVIOUS
  <2>1. /\ Len(t) - Len(r) + i = i /\ i + 1 \in 1..Len(q)
        /\ i \in 1..Len(q) - 1 /\ i \in 1..Len(e) - 1
    BY <1>1, <1>2, <1>3
  <2>2. t[i] = q[i + 1] /\ r[i] = e[i + 1]
    BY <1>1, <1>3, <2>1
  <2>3. q[i + 1].to = EndOf(q[i + 1].from, e[i + 1][2])
    BY <1>4, <2>1
  <2> QED
    BY <2>1, <2>2, <2>3
<1>8. \A i \in 2..Len(r) : t[Len(t) - Len(r) + i].from = r[i][1]
  <2> SUFFICES ASSUME NEW i \in 2..Len(r)
               PROVE  t[Len(t) - Len(r) + i].from = r[i][1]
    OBVIOUS
  <2>1. /\ Len(t) - Len(r) + i = i /\ i + 1 \in 2..Len(q)
        /\ i \in 1..Len(q) - 1 /\ i \in 1..Len(e) - 1
    BY <1>1, <1>2, <1>3
  <2>2. t[i] = q[i + 1] /\ r[i] = e[i + 1]
    BY <1>1, <1>3, <2>1
  <2>3. q[i + 1].from = e[i + 1][1]
    BY <1>4, <2>1
  <2> QED
    BY <2>1, <2>2, <2>3
<1>9. Len(t) - Len(r) = 0
  BY <1>1, <1>2, <1>3
<1>10. Ordered(t, r)
  BY <1>1, <1>2, <1>3, <1>6, <1>7, <1>8, <1>9 DEF Ordered
<1>11. q[1].to = EndOf(q[1].from, e[1][2])
  BY <1>1, <1>4
<1>12. t # <<>> => r # <<>> /\ t[1].from = r[1][1]
  BY <1>1, <1>2, <1>3, <1>4
<1> QED
  BY <1>2, <1>5, <1>10, <1>11, <1>12 DEF t, r

\* Another segment comes to its end after one that ended already, or first of all.
LEMMA OrderedAppend ==
    ASSUME NEW q \in Seq(Frames), NEW e \in Seq(Spans), Ordered(q, e), Bounded(q),
           q # <<>> => e # <<>>,
           NEW f \in Frames, NEW p \in Spans,
           f.final, f.to = EndOf(f.from, p[2]), f.from = p[1]
    PROVE  /\ Append(q, f) \in Seq(Frames) /\ Append(e, p) \in Seq(Spans)
           /\ Append(q, f) # <<>> /\ Append(e, p) # <<>>
           /\ Ordered(Append(q, f), Append(e, p)) /\ Bounded(Append(q, f))
           /\ Append(q, f)[1] = IF q = <<>> THEN f ELSE q[1]
           /\ Append(e, p)[1] = IF e = <<>> THEN p ELSE e[1]
<1> DEFINE t == Append(q, f)
           r == Append(e, p)
<1>1. /\ t \in Seq(Frames) /\ Len(t) = Len(q) + 1 /\ Len(q) \in Nat
      /\ \A k \in 1..Len(q) : t[k] = q[k]
      /\ t[Len(q) + 1] = f /\ t # <<>> /\ (q # <<>> <=> Len(q) > 0)
  OBVIOUS
<1>2. /\ r \in Seq(Spans) /\ Len(r) = Len(e) + 1 /\ Len(e) \in Nat
      /\ \A k \in 1..Len(e) : r[k] = e[k]
      /\ r[Len(e) + 1] = p /\ r # <<>> /\ (e # <<>> <=> Len(e) > 0)
  OBVIOUS
<1>3. Len(e) <= Len(q) /\ (Len(q) > 0 => Len(e) > 0)
  BY <1>1, <1>2 DEF Ordered
<1> HIDE DEF t, r
<1>4. p[1] <= MaxSamples /\ p[2] <= MaxSamples /\ f.from <= MaxSamples /\ f.to <= MaxSamples
  BY TimeAssumption DEF Spans, EndOf
<1>5. Bounded(t)
  <2>1. \A k \in 1..Len(t) : k \in 1..Len(q) \/ k = Len(q) + 1
    BY <1>1
  <2> QED
    BY <1>1, <1>4, <2>1 DEF Bounded
<1>6. Len(t) - Len(r) = Len(q) - Len(e)
  BY <1>1, <1>2
<1>7. \A k \in 1..Len(t) : t[k].final <=> k > Len(t) - Len(r)
  <2>1. Len(q) + 1 > Len(q) - Len(e)
    BY <1>1, <1>2
  <2>2. \A k \in 1..Len(t) : k \in 1..Len(q) \/ k = Len(q) + 1
    BY <1>1
  <2>3. \A k \in 1..Len(q) : t[k].final <=> k > Len(q) - Len(e)
    BY <1>1 DEF Ordered
  <2>4. t[Len(q) + 1].final <=> Len(q) + 1 > Len(q) - Len(e)
    BY <1>1, <2>1
  <2> QED
    BY <1>6, <2>2, <2>3, <2>4
<1>8. \A i \in 1..Len(r) :
          t[Len(t) - Len(r) + i].to = EndOf(t[Len(t) - Len(r) + i].from, r[i][2])
  <2>1. \A i \in 1..Len(r) : i \in 1..Len(e) \/ i = Len(e) + 1
    BY <1>2
  <2>2. \A i \in 1..Len(e) : Len(q) - Len(e) + i \in 1..Len(q)
    BY <1>1, <1>2, <1>3
  <2>3. Len(q) - Len(e) + (Len(e) + 1) = Len(q) + 1
    BY <1>1, <1>2
  <2>4. \A i \in 1..Len(e) :
          t[Len(q) - Len(e) + i].to = EndOf(t[Len(q) - Len(e) + i].from, r[i][2])
    BY <1>1, <1>2, <2>2 DEF Ordered
  <2>5. t[Len(q) - Len(e) + (Len(e) + 1)].to
          = EndOf(t[Len(q) - Len(e) + (Len(e) + 1)].from, r[Len(e) + 1][2])
    <3>1. t[Len(q) - Len(e) + (Len(e) + 1)] = f /\ r[Len(e) + 1] = p
      BY <1>1, <1>2, <2>3
    <3> QED
      BY <3>1
  <2> QED
    BY <1>6, <2>1, <2>4, <2>5
<1>9. \A i \in 2..Len(r) : t[Len(t) - Len(r) + i].from = r[i][1]
  <2>1. \A i \in 2..Len(r) : i \in 2..Len(e) \/ i = Len(e) + 1
    BY <1>2
  <2>2. \A i \in 2..Len(e) : Len(q) - Len(e) + i \in 1..Len(q) /\ i \in 1..Len(e)
    BY <1>1, <1>2, <1>3
  <2>3. Len(q) - Len(e) + (Len(e) + 1) = Len(q) + 1
    BY <1>1, <1>2
  <2>4. \A i \in 2..Len(e) : t[Len(q) - Len(e) + i].from = r[i][1]
    BY <1>1, <1>2, <2>2 DEF Ordered
  <2>5. t[Len(q) - Len(e) + (Len(e) + 1)].from = r[Len(e) + 1][1]
    <3>1. t[Len(q) - Len(e) + (Len(e) + 1)] = f /\ r[Len(e) + 1] = p
      BY <1>1, <1>2, <2>3
    <3> QED
      BY <3>1
  <2> QED
    BY <1>6, <2>1, <2>4, <2>5
<1>10. \A k \in 1..Len(t) - Len(r) :
          t[k].from < t[k].to /\ (r # <<>> => t[k].to < r[1][2])
  <2>1. \A k \in 1..Len(q) - Len(e) : k \in 1..Len(q) /\ Len(q) > 0
    BY <1>1, <1>2
  <2>2. Len(q) > 0 => e # <<>> /\ r[1] = e[1]
    BY <1>2, <1>3
  <2> QED
    BY <1>1, <1>6, <2>1, <2>2 DEF Ordered
<1>11. \A k \in 2..Len(t) : k - 1 <= Len(t) - Len(r) => t[k].from = t[k - 1].to
  <2>1. \A k \in 2..Len(t) : k - 1 <= Len(q) - Len(e)
            => k \in 2..Len(q) /\ k \in 1..Len(q) /\ k - 1 \in 1..Len(q)
    BY <1>1, <1>2, <1>3
  <2> QED
    BY <1>1, <1>6, <2>1 DEF Ordered
<1>12. Ordered(t, r)
  <2>1. Len(r) <= Len(t)
    BY <1>1, <1>2, <1>3
  <2> QED
    BY <2>1, <1>7, <1>8, <1>9, <1>10, <1>11 DEF Ordered
<1>13. t[1] = (IF q = <<>> THEN f ELSE q[1]) /\ r[1] = (IF e = <<>> THEN p ELSE e[1])
  BY <1>1, <1>2
<1> QED
  BY <1>1, <1>2, <1>5, <1>12, <1>13 DEF t, r

\* A chunk of the open segment.
LEMMA OrderedChunk ==
    ASSUME NEW start \in Nat, start + Step <= MaxSamples
    PROVE  LET q == <<Frame(start, start + Step, FALSE)>>
           IN  /\ Ordered(q, <<>>) /\ Bounded(q) /\ q # <<>> /\ Len(q) = 1
               /\ q[1].from = start /\ q[Len(q)].to = start + Step
<1> DEFINE f == Frame(start, start + Step, FALSE)
           q == <<f>>
<1>1. start + Step \in Nat /\ start < start + Step /\ MaxSamples \in Nat
  BY TimeAssumption
<1>2. f.from = start /\ f.to = start + Step /\ ~f.final
  BY DEF Frame
<1> HIDE DEF f
<1>3. Len(q) = 1 /\ q[1] = f /\ q # <<>> /\ Len(<<>>) = 0
  OBVIOUS
<1> HIDE DEF q
<1>4. Bounded(q)
  BY <1>1, <1>2, <1>3 DEF Bounded
<1>5. Ordered(q, <<>>)
  BY <1>1, <1>2, <1>3 DEF Ordered
<1> QED
  BY <1>2, <1>3, <1>4, <1>5 DEF q, f

\* The rest of a segment no longer than a chunk is one piece.
LEMMA RestShort ==
    ASSUME NEW start \in Nat, NEW end \in Nat, start < end, end - start <= Step
    PROVE  Rest(start, end) = <<Frame(start, end, TRUE)>>
<1>1. end - start - 1 <= Step /\ ~(end <= start)
  BY TimeAssumption
<1> DEFINE F(k) == Frame(start + (k - 1) * Step, IF k = 1 THEN end ELSE start + k * Step, k = 1)
<1>2. Rest(start, end) = [k \in 1..1 |-> F(k)]
  BY <1>1 DEF Rest
<1>3. F(1) = Frame(start, end, TRUE)
  <2>1. start + (1 - 1) * Step = start
    BY TimeAssumption
  <2> QED
    BY <2>1
<1> HIDE DEF F
<1>4. [k \in 1..1 |-> F(k)] = <<F(1)>>
  OBVIOUS
<1> QED
  BY <1>2, <1>3, <1>4

\* The rest of a segment adjoins, and its last piece reaches the end.
LEMMA OrderedRest ==
    ASSUME NEW start \in Nat, NEW end \in Nat, NEW s \in Nat, s < end,
           start <= MaxSamples, end <= MaxSamples
    PROVE  LET q == Rest(start, end)
           IN  /\ q \in Seq(Frames) /\ Ordered(q, <<<<s, end>>>>) /\ Bounded(q)
               /\ q # <<>> /\ q[1].from = start
<1> DEFINE q == Rest(start, end)
           e == <<<<s, end>>>>
<1>0. q \in Seq(Frames)
  <2>1. 0 \in Nat /\ 0 <= start /\ end <= end
    OBVIOUS
  <2> QED
    BY <2>1, RestCopied
<1>1. Len(e) = 1 /\ e[1] = <<s, end>> /\ e[1][2] = end /\ e # <<>>
  OBVIOUS
<1>2. CASE end <= start
  <2> DEFINE f == Frame(start, start, TRUE)
  <2>1. f.from = start /\ f.to = start /\ f.final
    BY DEF Frame
  <2>2. q = <<f>>
    BY <1>2 DEF Rest
  <2> HIDE DEF f, q, e
  <2>3. Len(q) = 1 /\ q[1] = f /\ q # <<>>
    BY <2>2
  <2>4. start = EndOf(start, end)
    BY <1>2 DEF EndOf
  <2>5. Bounded(q)
    BY <2>1, <2>3 DEF Bounded
  <2>6. Ordered(q, e)
    BY <1>1, <2>1, <2>3, <2>4 DEF Ordered
  <2> QED
    BY <1>0, <2>1, <2>3, <2>5, <2>6 DEF q, e
<1>3. CASE end > start
  <2> DEFINE n == IF end - start - 1 <= Step THEN 1 ELSE (end - start - 2) \div Step + 1
             F(k) == Frame(start + (k - 1) * Step,
                           IF k = n THEN end ELSE start + k * Step, k = n)
  <2>1. q = [k \in 1..n |-> F(k)]
    BY <1>3 DEF Rest
  <2>2. n \in Nat /\ n >= 1 /\ start + (n - 1) * Step < end
    <3>1. CASE end - start - 1 <= Step
      BY <3>1, <1>3, TimeAssumption
    <3>2. CASE end - start - 1 > Step
      <4>1. end - start - 2 \in Nat
        BY <3>2, TimeAssumption
      <4>2. n = (end - start - 2) \div Step + 1
        BY <3>2, TimeAssumption
      <4> HIDE DEF n
      <4>3. (end - start - 2) \div Step \in Nat
            /\ ((end - start - 2) \div Step) * Step <= end - start - 2
        BY <4>1, StepsWithin
      <4>4. n - 1 = (end - start - 2) \div Step
        BY <4>2, <4>3
      <4>5. PICK x \in Nat : x = (n - 1) * Step
        BY <4>3, <4>4, StepMonotone
      <4> QED
        BY <4>2, <4>3, <4>4, <4>5, TimeAssumption
    <3> QED
      BY <3>1, <3>2, TimeAssumption
  <2>3. \A k : /\ F(k).from = start + (k - 1) * Step
               /\ F(k).to = (IF k = n THEN end ELSE start + k * Step)
               /\ F(k).final = (k = n)
    BY DEF Frame
  <2> HIDE DEF n, F
  <2>4. Len(q) = n /\ q # <<>> /\ \A k \in 1..n : q[k] = F(k)
    <3>1. [k \in 1..n |-> F(k)] # <<>> /\ Len([k \in 1..n |-> F(k)]) = n
      BY <2>2
    <3> QED
      BY <2>1, <2>2, <3>1
  <2> HIDE DEF q, e
  <2>5. \A k \in 1..n : (k - 1) * Step \in Nat /\ start + (k - 1) * Step < end
    <3> SUFFICES ASSUME NEW k \in 1..n
                 PROVE  (k - 1) * Step \in Nat /\ start + (k - 1) * Step < end
      OBVIOUS
    <3>1. k - 1 \in Nat /\ n - 1 \in Nat /\ k - 1 <= n - 1
      BY <2>2
    <3>2. (k - 1) * Step \in Nat /\ (n - 1) * Step \in Nat /\ (k - 1) * Step <= (n - 1) * Step
      BY <3>1, StepMonotone
    <3> QED
      BY <3>2, <2>2
  <2>6. \A k \in 1..n : k # n =>
            k * Step \in Nat /\ start + k * Step < end /\ (k - 1) * Step < k * Step
    <3> SUFFICES ASSUME NEW k \in 1..n, k # n
                 PROVE  k * Step \in Nat /\ start + k * Step < end /\ (k - 1) * Step < k * Step
      OBVIOUS
    <3>1. k + 1 \in 1..n /\ (k + 1) - 1 = k
      BY <2>2
    <3>2. k * Step \in Nat /\ start + k * Step < end
      BY <2>5, <3>1
    <3>3. (k - 1) * Step = k * Step - Step
      BY TimeAssumption
    <3>4. Step > 0 /\ Step \in Nat
      BY TimeAssumption
    <3> QED
      BY <3>2, <3>3, <3>4
  <2>7. Bounded(q)
    <3> SUFFICES ASSUME NEW k \in 1..n
                 PROVE  q[k].from <= MaxSamples /\ q[k].to <= MaxSamples
      BY <2>4 DEF Bounded
    <3>1. MaxSamples \in Nat
      BY TimeAssumption
    <3>2. q[k].from = start + (k - 1) * Step
          /\ q[k].to = IF k = n THEN end ELSE start + k * Step
      BY <2>3, <2>4
    <3>3. PICK x \in Nat : x = (k - 1) * Step /\ start + x < end
      BY <2>5
    <3>4. q[k].from <= MaxSamples
      BY <3>1, <3>2, <3>3
    <3>5. CASE k = n
      BY <3>2, <3>4, <3>5
    <3>6. CASE k # n
      <4>1. PICK y \in Nat : y = k * Step /\ start + y < end
        BY <2>6, <3>6
      <4> QED
        BY <3>1, <3>2, <3>4, <3>6, <4>1
    <3> QED
      BY <3>5, <3>6
  <2>8. \A k \in 1..Len(q) : q[k].final <=> k > Len(q) - Len(e)
    <3> SUFFICES ASSUME NEW k \in 1..n
                 PROVE  q[k].final <=> k > Len(q) - Len(e)
      BY <2>4
    <3>1. q[k].final = (k = n)
      BY <2>3, <2>4
    <3>2. (k = n) <=> k > Len(q) - Len(e)
      BY <1>1, <2>2, <2>4
    <3> QED
      BY <3>1, <3>2
  <2>9. \A i \in 1..Len(e) :
            q[Len(q) - Len(e) + i].to = EndOf(q[Len(q) - Len(e) + i].from, e[i][2])
    <3>1. \A i \in 1..Len(e) : i = 1 /\ Len(q) - Len(e) + i = n
      BY <1>1, <2>2, <2>4
    <3>2. n \in 1..n /\ q[n].to = end /\ q[n].from < end
      BY <2>2, <2>3, <2>4, <2>5
    <3>3. EndOf(q[n].from, end) = end
      <4>1. q[n].from \in Nat
        BY <2>2, <2>3, <2>4, <2>5, <3>2
      <4> QED
        BY <3>2, <4>1 DEF EndOf
    <3> QED
      BY <1>1, <3>1, <3>2, <3>3
  <2>10. \A k \in 1..Len(q) - Len(e) :
            q[k].from < q[k].to /\ (e # <<>> => q[k].to < e[1][2])
    <3> SUFFICES ASSUME NEW k \in 1..n - 1
                 PROVE  q[k].from < q[k].to /\ q[k].to < end
      BY <1>1, <2>4
    <3>1. k \in 1..n /\ k # n
      BY <2>2
    <3>2. q[k].from = start + (k - 1) * Step /\ q[k].to = start + k * Step
      BY <3>1, <2>3, <2>4
    <3> QED
      BY <3>1, <3>2, <2>5, <2>6
  <2>11. \A k \in 2..Len(q) : k - 1 <= Len(q) - Len(e) => q[k].from = q[k - 1].to
    <3> SUFFICES ASSUME NEW k \in 2..n
                 PROVE  q[k].from = q[k - 1].to
      BY <2>4
    <3>1. k \in 1..n /\ k - 1 \in 1..n /\ k - 1 # n
      BY <2>2
    <3> QED
      BY <3>1, <2>3, <2>4
  <2>12. Ordered(q, e)
    BY <1>1, <2>2, <2>4, <2>8, <2>9, <2>10, <2>11 DEF Ordered
  <2>13. q[1].from = start
    <3>1. start + (1 - 1) * Step = start /\ 1 \in 1..n
      BY <2>2, TimeAssumption
    <3> QED
      BY <2>3, <2>4, <3>1
  <2> QED
    BY <1>0, <2>4, <2>7, <2>12, <2>13 DEF q, e
<1> QED
  BY <1>2, <1>3

-----------------------------------------------------------------------------
(* The segments that the second pass has to hear.                            *)

Pairs(q) == [k \in DOMAIN q |-> <<q[k].from, q[k].to>>]

LEMMA PairsEmpty == Pairs(<<>>) = <<>>
BY DEF Pairs

LEMMA PairsAppend ==
    ASSUME NEW q \in Seq(Frames), NEW f \in Frames
    PROVE  Pairs(Append(q, f)) = Append(Pairs(q), <<f.from, f.to>>)
<1>1. Len(q) \in Nat /\ DOMAIN q = 1..Len(q) /\ DOMAIN Append(q, f) = 1..Len(q) + 1
  OBVIOUS
<1>2. \A k \in 1..Len(q) + 1 : Append(q, f)[k] = IF k = Len(q) + 1 THEN f ELSE q[k]
  OBVIOUS
<1>3. Pairs(q) = [k \in 1..Len(q) |-> <<q[k].from, q[k].to>>]
  BY <1>1 DEF Pairs
<1> DEFINE P(k) == <<q[k].from, q[k].to>>
<1>4. [k \in 1..Len(q) |-> P(k)] \in Seq({P(k) : k \in 1..Len(q)})
      /\ Len([k \in 1..Len(q) |-> P(k)]) = Len(q)
  BY <1>1
<1>5. Append(Pairs(q), <<f.from, f.to>>)
        = [k \in 1..Len(q) + 1 |-> IF k = Len(q) + 1 THEN <<f.from, f.to>> ELSE Pairs(q)[k]]
  BY <1>1, <1>3, <1>4
<1>6. Pairs(Append(q, f)) = [k \in 1..Len(q) + 1 |-> <<Append(q, f)[k].from, Append(q, f)[k].to>>]
  BY <1>1 DEF Pairs
<1>7. \A k \in 1..Len(q) + 1 : <<Append(q, f)[k].from, Append(q, f)[k].to>>
        = IF k = Len(q) + 1 THEN <<f.from, f.to>> ELSE Pairs(q)[k]
  BY <1>1, <1>2, <1>3
<1> QED
  BY <1>5, <1>6, <1>7

LEMMA PairsTail ==
    ASSUME NEW q \in Seq(Frames), q # <<>>
    PROVE  Pairs(q) # <<>> /\ Pairs(Tail(q)) = Tail(Pairs(q))
<1>1. /\ Tail(q) \in Seq(Frames) /\ Len(Tail(q)) = Len(q) - 1 /\ Len(q) \in Nat \ {0}
      /\ \A k \in 1..Len(q) - 1 : Tail(q)[k] = q[k + 1]
  BY TailAt
<1>2. DOMAIN q = 1..Len(q) /\ DOMAIN Tail(q) = 1..Len(q) - 1
  BY <1>1
<1> DEFINE P(k) == <<q[k].from, q[k].to>>
<1>3. Pairs(q) = [k \in 1..Len(q) |-> P(k)]
  BY <1>2 DEF Pairs
<1> HIDE DEF P
<1>4. [k \in 1..Len(q) |-> P(k)] \in Seq({P(k) : k \in 1..Len(q)})
      /\ Len([k \in 1..Len(q) |-> P(k)]) = Len(q)
  BY <1>1
<1>5. Pairs(q) # <<>> /\ Tail(Pairs(q)) = [k \in 1..Len(q) - 1 |-> Pairs(q)[k + 1]]
  BY <1>1, <1>3, <1>4
<1>6. Pairs(Tail(q)) = [k \in 1..Len(q) - 1 |-> <<Tail(q)[k].from, Tail(q)[k].to>>]
  BY <1>2 DEF Pairs
<1>7. \A k \in 1..Len(q) - 1 : <<Tail(q)[k].from, Tail(q)[k].to>> = Pairs(q)[k + 1]
  BY <1>1, <1>3 DEF P
<1> QED
  BY <1>5, <1>6, <1>7

-----------------------------------------------------------------------------
(* The steps keep the invariant.                                             *)

\* When the queue is empty no segment waits to be heard to its end.
LEMMA NoneWaits ==
    ASSUME Line, asr_online_queue = <<>>
    PROVE  ended = <<>>
BY OrderedNone DEF Line

\* Nothing of it changes when nothing it speaks of does.
LEMMA HearKept ==
    ASSUME HearInv, pc' # "segments",
           UNCHANGED <<mode, size, speech_start, speech_end, asr_online_queue,
                       open, given, ended, kept>>
    PROVE  HearInv'
BY DEF HearInv, Line, Fresh, Stands, Past, Turn, Within, Service!NextFrom, Service!Within

LEMMA InitHears == Init => HearInv
<1> SUFFICES ASSUME Init PROVE HearInv
  OBVIOUS
<1>1. /\ pc = "idle" /\ size = 0 /\ open = None /\ ended = <<>> /\ given = <<>>
      /\ asr_online_queue = <<>>
  BY DEF Init, Vad!Init, None
<1>2. Line
  BY <1>1, OrderedEmpty, TimeAssumption DEF Line
<1>3. Fresh /\ Stands /\ Turn
  BY <1>1 DEF Fresh, Stands, Turn, Within
<1> QED
  BY <1>2, <1>3 DEF HearInv

LEMMA LoadHears ==
    ASSUME IndInv, HearInv, NEW n \in Blocks, NEW final \in BOOLEAN, NEW m \in Modes,
           Load(n, final, m)
    PROVE  HearInv'
<1> USE DEF IndInv, HearInv
<1>1. /\ UNCHANGED <<speech_start, asr_online_queue, open, given, ended, kept>>
      /\ pc = "idle" /\ pc' = "vad" /\ size' = size + n /\ size + n <= MaxSamples
      /\ speech_end' = speech_end + (n - (n % SegSample))
  <2>1. n \in Nat /\ n % SegSample \in Nat /\ speech_end \in Nat
    BY TimeAssumption DEF Types
  <2> QED
    BY <2>1 DEF Load, queues
<1>2. /\ n \in Nat /\ n - (n % SegSample) \in Nat /\ size \in Nat /\ speech_end \in Nat
      /\ speech_start \in Nat \cup {None} /\ open \in Nat \cup {None}
  BY TimeAssumption DEF Types
<1>3. asr_online_queue = <<>> /\ ended = <<>>
  BY <1>1, NoneWaits DEF Queued
<1>4. Line'
  BY <1>1, <1>3 DEF Line
<1>5. Fresh'
  BY <1>1 DEF Fresh
<1>6. Stands'
  <2>1. Past => Past'
    BY <1>1, <1>2, TimeAssumption DEF Past, None
  <2>2. open # None => speech_start \in Nat
    BY <1>2 DEF Agree
  <2> QED
    BY <1>1, <1>2, <1>3, <2>1, <2>2 DEF Stands, Within, None
<1>7. Turn'
  BY <1>1, <1>3 DEF Turn, Within
<1> QED
  BY <1>4, <1>5, <1>6, <1>7

LEMMA NoSegmentHears ==
    ASSUME IndInv, HearInv, NoSegment
    PROVE  HearInv'
<1> USE DEF IndInv, HearInv
<1>1. /\ UNCHANGED <<mode, size, speech_end, open, given, ended, kept>>
      /\ pc = "vad" /\ pc' = "trim"
  BY DEF NoSegment, callVars, vadVars
<1>2. asr_online_queue = <<>> /\ ended = <<>>
  BY <1>1, NoneWaits DEF Queued
<1>3. CASE UNCHANGED <<speech_start, asr_online_queue>>
  BY <1>1, <1>3, HearKept
<1>4. CASE ~UNCHANGED <<speech_start, asr_online_queue>>
  <2> DEFINE q == <<Frame(speech_start, speech_start + Step, FALSE)>>
  <2>1. /\ mode # "OFFLINE" /\ speech_start # None /\ speech_end - speech_start >= Step
        /\ asr_online_queue' = q /\ speech_start' = speech_start + Step
    <3>1. speech_start # None /\ PushStep(speech_start)
      BY <1>4 DEF NoSegment
    <3>2. mode # "OFFLINE" /\ speech_end - speech_start >= Step
      BY <1>4, <3>1 DEF PushStep
    <3>3. /\ asr_online_queue' = Append(asr_online_queue, Frame(speech_start, speech_start + Step, FALSE))
          /\ speech_start' = speech_start + Step
      BY <3>1, <3>2 DEF PushStep
    <3>4. \A f : Append(<<>>, f) = <<f>>
      OBVIOUS
    <3> QED
      BY <1>2, <3>1, <3>2, <3>3, <3>4
  <2>2. /\ speech_start \in Nat /\ open \in Nat /\ open # None /\ open <= speech_start
        /\ speech_end \in Nat /\ size \in Nat /\ speech_end <= size /\ size <= MaxSamples
    BY <2>1 DEF Types, Agree, Positions, Line, None
  <2>3. speech_start + Step \in Nat /\ speech_start + Step <= speech_end /\ MaxSamples \in Nat
    BY <2>1, <2>2, TimeAssumption
  <2>4. speech_start + Step <= MaxSamples
    BY <2>2, <2>3
  <2>5. /\ Ordered(q, <<>>) /\ Bounded(q) /\ q # <<>> /\ Len(q) = 1
        /\ q[1].from = speech_start /\ q[Len(q)].to = speech_start + Step
    BY <2>2, <2>4, OrderedChunk
  <2> HIDE DEF q
  <2>6. Line'
    BY <1>1, <1>2, <2>1, <2>2, <2>5 DEF Line
  <2>7. Fresh'
    BY <1>1 DEF Fresh
  <2>8. Past'
    BY <1>1, <2>1, <2>2, <2>3, TimeAssumption DEF Past
  <2>9. speech_start' <= size'
    BY <1>1, <2>1, <2>2, <2>3
  <2>10. Stands'
    BY <1>1, <1>2, <2>1, <2>5, <2>8, <2>9 DEF Stands
  <2>11. kept => speech_start = IF Within THEN given[Len(given)].to ELSE open
    BY <1>2, <2>2 DEF Stands
  <2>12. Turn'
    BY <1>1, <1>2, <2>1, <2>2, <2>5, <2>11 DEF Turn, Within, Service!NextFrom, Service!Within
  <2> QED
    BY <2>6, <2>7, <2>10, <2>12
<1> QED
  BY <1>3, <1>4

\* What a segment that is told finds.
LEMMA SegmentFinds ==
    ASSUME IndInv, HearInv, Segment
    PROVE  /\ UNCHANGED <<mode, size, speech_end, given>> /\ pc' = "segments"
           /\ asr_online_queue # <<>> => pc = "segments" /\ ended # <<>>
           /\ asr_online_queue = <<>> => ended = <<>>
           /\ asr_online_queue \in Seq(Frames) /\ ended \in Seq(Spans)
           /\ Ordered(asr_online_queue, ended) /\ Bounded(asr_online_queue)
<1>1. UNCHANGED <<mode, size, speech_end, given>> /\ pc' = "segments" /\ pc \in {"vad", "segments"}
  BY SegmentFrame
<1>2. asr_online_queue # <<>> => pc = "segments" /\ ended # <<>>
  BY <1>1 DEF IndInv, Queued, HearInv, Fresh
<1> QED
  BY <1>1, <1>2, NoneWaits DEF IndInv, Series, HearInv, Line

\* A segment that begins is not long enough for a chunk.
LEMMA SegmentBeginsHears ==
    ASSUME IndInv, HearInv, NEW s \in Times, SegmentBegins(s)
    PROVE  HearInv'
<1> USE DEF IndInv, HearInv
<1>1. /\ UNCHANGED <<mode, size, speech_end, given>> /\ pc' = "segments"
      /\ asr_online_queue # <<>> => ended # <<>>
      /\ asr_online_queue = <<>> => ended = <<>>
  BY SegmentFinds DEF SegmentBegins
<1>2. /\ s \in last..heard - 1 /\ s >= heard - Lag /\ open = None
      /\ open' = s /\ heard' = heard /\ UNCHANGED <<ended, kept>> /\ PushStep(s)
  BY DEF SegmentBegins, Vad!Begin, None
<1>3. /\ s \in Nat /\ s < heard /\ heard \in Nat /\ size \in Nat /\ speech_end \in Nat
      /\ speech_end <= size /\ heard <= size /\ heard >= size - Delay
  BY <1>2, BeginsKept DEF Types, Positions
<1>4. ~(speech_end - s >= Step)
  BY <1>2, <1>3, TimeAssumption, ChunkAssumption
<1>5. asr_online_queue' = asr_online_queue /\ speech_start' = s
  BY <1>2, <1>4 DEF PushStep
<1>6. Line'
  BY <1>1, <1>2, <1>5 DEF Line
<1>7. Fresh'
  BY <1>1, <1>2, <1>5 DEF Fresh
<1>8. asr_online_queue = <<>> /\ kept => ~Within
  BY <1>2 DEF Turn
<1>9. speech_start' <= size'
  BY <1>1, <1>3, <1>5
<1>10. Stands'
  BY <1>1, <1>2, <1>5, <1>8, <1>9 DEF Stands, Within
<1>11. open' # None
  BY <1>2, <1>3 DEF None
<1>12. Turn'
  BY <1>1, <1>2, <1>5, <1>11 DEF Turn, Within, Service!NextFrom, Service!Within
<1> QED
  BY <1>6, <1>7, <1>10, <1>12

\* What is common to the two ways in which a segment ends.
LEMMA EndsHears ==
    ASSUME IndInv, HearInv, Segment, NEW p \in Spans, Ends(p[1], p[2]), open' = None,
           NEW q \in Seq(Frames), asr_online_queue' = IF mode = "OFFLINE" THEN <<>> ELSE q,
           mode # "OFFLINE" =>
               /\ q # <<>> /\ Ordered(q, Append(ended, p)) /\ Bounded(q)
               /\ kept => q[1].from = IF Within THEN given[Len(given)].to
                                      ELSE Append(ended, p)[1][1]
    PROVE  HearInv'
<1> USE DEF IndInv, HearInv
<1>1. /\ UNCHANGED <<mode, size, speech_end, given>> /\ pc' = "segments"
      /\ asr_online_queue = <<>> => ended = <<>>
      /\ ended \in Seq(Spans)
  BY SegmentFinds
<1>2. Append(ended, p) \in Seq(Spans) /\ Append(ended, p) # <<>>
  BY <1>1
<1>3. p = <<p[1], p[2]>>
  BY DEF Spans
<1>4. /\ ended' = IF mode = "OFFLINE" THEN ended ELSE Append(ended, p)
      /\ kept' = (kept /\ (mode # "OFFLINE" \/ given = <<>> \/ given[Len(given)].final))
  BY <1>3 DEF Ends
<1>5. Fresh' /\ Stands'
  <2>1. asr_online_queue' # <<>> => ended' # <<>>
    BY <1>2, <1>4
  <2> QED
    BY <1>1, <2>1 DEF Fresh, Stands
<1>6. CASE mode = "OFFLINE"
  <2>1. asr_online_queue = <<>> /\ ended = <<>>
    BY <1>1, <1>6 DEF Line
  <2>2. Line'
    BY <1>1, <1>4, <1>6, <2>1 DEF Line
  <2>3. Turn'
    BY <1>1, <1>4, <1>6 DEF Turn, Within
  <2> QED
    BY <1>5, <2>2, <2>3
<1>7. CASE mode # "OFFLINE"
  <2>1. asr_online_queue' = q /\ ended' = Append(ended, p) /\ (kept' => kept)
    BY <1>4, <1>7
  <2>2. Line'
    BY <1>1, <1>2, <1>7, <2>1 DEF Line
  <2>3. kept' => asr_online_queue'[1].from = Service!NextFrom'
    BY <1>1, <1>2, <1>7, <2>1 DEF Within, Service!NextFrom, Service!Within
  <2>4. Turn'
    BY <1>2, <1>7, <2>1, <2>3 DEF Turn
  <2> QED
    BY <1>5, <2>2, <2>4
<1> QED
  BY <1>6, <1>7

\* The first piece of the queue is still the next, after the end of one more segment.
LEMMA FirstStays ==
    ASSUME HearInv, asr_online_queue # <<>>, ended # <<>>, ended \in Seq(Spans),
           NEW x, x = ended[1], kept
    PROVE  asr_online_queue[1].from = IF Within THEN given[Len(given)].to ELSE x[1]
BY DEF HearInv, Turn, Within, Service!NextFrom, Service!Within

LEMMA SegmentWholeHears ==
    ASSUME IndInv, HearInv, NEW s \in Times, NEW e \in Times, SegmentWhole(s, e)
    PROVE  HearInv'
<1> USE DEF IndInv, HearInv
<1>1. Segment /\ Ends(s, e)
  BY DEF SegmentWhole
<1>2. /\ UNCHANGED <<mode, size, speech_end, given>>
      /\ asr_online_queue # <<>> => ended # <<>>
      /\ asr_online_queue = <<>> => ended = <<>>
      /\ asr_online_queue \in Seq(Frames) /\ ended \in Seq(Spans)
      /\ Ordered(asr_online_queue, ended) /\ Bounded(asr_online_queue)
  BY <1>1, SegmentFinds
<1>3. /\ s \in last..heard - 1 /\ e \in s + 1..heard /\ open = None /\ open' = None
  BY DEF SegmentWhole, Vad!Whole, None
<1>4. s \in 0..MaxSamples /\ e \in 0..MaxSamples /\ s < e /\ s \in Nat /\ e \in Nat
  BY <1>3, TimeAssumption DEF Times, Types
<1> DEFINE p == <<s, e>>
           f == Frame(s, e, TRUE)
           q == Append(asr_online_queue, f)
<1>5. p \in Spans /\ p[1] = s /\ p[2] = e
  BY <1>4 DEF Spans
<1>6. f \in Frames /\ f.final /\ f.from = s /\ f.to = e
  BY <1>4 DEF Frame, Frames
<1>7. f.to = EndOf(f.from, p[2]) /\ f.from = p[1]
  <2>1. EndOf(s, e) = e
    BY <1>4 DEF EndOf
  <2> QED
    BY <1>5, <1>6, <2>1
<1>8. asr_online_queue' = IF mode = "OFFLINE" THEN <<>> ELSE q
  BY DEF SegmentWhole, Line
<1> HIDE DEF p, f
<1>9. /\ q \in Seq(Frames) /\ q # <<>> /\ Ordered(q, Append(ended, p)) /\ Bounded(q)
      /\ q[1] = IF asr_online_queue = <<>> THEN f ELSE asr_online_queue[1]
      /\ Append(ended, p)[1] = IF ended = <<>> THEN p ELSE ended[1]
  BY <1>2, <1>5, <1>6, <1>7, OrderedAppend
<1>10. kept => q[1].from = IF Within THEN given[Len(given)].to ELSE Append(ended, p)[1][1]
  <2>1. CASE asr_online_queue = <<>>
    BY <1>2, <1>3, <1>5, <1>6, <1>9, <2>1 DEF Turn
  <2>2. CASE asr_online_queue # <<>>
    BY <1>2, <1>9, <2>2, FirstStays
  <2> QED
    BY <2>1, <2>2
<1>11. Ends(p[1], p[2])
  BY <1>1, <1>5
<1> HIDE DEF q
<1> QED
  BY <1>1, <1>3, <1>5, <1>8, <1>9, <1>10, <1>11, EndsHears

LEMMA SegmentEndsHears ==
    ASSUME IndInv, HearInv, NEW e \in Times, SegmentEnds(e)
    PROVE  HearInv'
<1> USE DEF IndInv, HearInv
<1>1. Segment /\ Ends(open, e)
  BY DEF SegmentEnds
<1>2. /\ UNCHANGED <<mode, size, speech_end, given>>
      /\ asr_online_queue # <<>> => pc = "segments" /\ ended # <<>>
      /\ asr_online_queue = <<>> => ended = <<>>
      /\ asr_online_queue \in Seq(Frames) /\ ended \in Seq(Spans)
      /\ Ordered(asr_online_queue, ended) /\ Bounded(asr_online_queue)
  BY <1>1, SegmentFinds
<1>3. open # None /\ e \in open + 1..heard /\ open' = None
  BY DEF SegmentEnds, Vad!End, None
<1>4. /\ open \in Nat /\ heard \in Nat /\ speech_start \in Nat /\ speech_start # None
      /\ speech_offline_start # None
      /\ size \in Nat /\ speech_start <= size /\ size <= MaxSamples /\ heard <= size
  BY <1>3 DEF Types, Agree, Positions, Stands, Line, None
<1>5. MaxSamples \in Nat /\ open \in 0..MaxSamples /\ e \in 0..MaxSamples /\ open < e /\ e \in Nat
  BY <1>3, <1>4, TimeAssumption DEF Times
<1> DEFINE p == <<open, e>>
           r == Rest(speech_start, e)
           q == asr_online_queue \o r
<1>6. p \in Spans /\ p[1] = open /\ p[2] = e
  BY <1>5 DEF Spans
<1>7. asr_online_queue' = IF mode = "OFFLINE" THEN <<>> ELSE q
  <2>1. RestStart = speech_start
    BY <1>4 DEF RestStart
  <2> QED
    BY <2>1 DEF SegmentEnds, Line
<1> HIDE DEF p
<1>8. CASE asr_online_queue = <<>>
  <2>1. speech_start <= MaxSamples /\ e <= MaxSamples
    BY <1>4, <1>5
  <2>2. r \in Seq(Frames) /\ Ordered(r, <<<<open, e>>>>) /\ Bounded(r) /\ r # <<>>
        /\ r[1].from = speech_start
    BY <1>4, <1>5, <2>1, OrderedRest
  <2> HIDE DEF r
  <2>3. q = r
    BY <1>8, <2>2
  <2>4. Append(ended, p) = <<<<open, e>>>>
    BY <1>2, <1>8 DEF p
  <2>5. kept => speech_start = IF Within THEN given[Len(given)].to ELSE open
    BY <1>3, <1>8 DEF Stands
  <2>6. Append(ended, p)[1][1] = open
    BY <2>4
  <2>7. Ends(p[1], p[2])
    BY <1>1, <1>6
  <2>8. /\ q \in Seq(Frames) /\ q # <<>> /\ Ordered(q, Append(ended, p)) /\ Bounded(q)
        /\ kept => q[1].from = IF Within THEN given[Len(given)].to ELSE Append(ended, p)[1][1]
    BY <2>2, <2>3, <2>4, <2>5, <2>6
  <2> HIDE DEF q
  <2> QED
    BY <1>1, <1>3, <1>6, <1>7, <2>7, <2>8, EndsHears
<1>9. CASE asr_online_queue # <<>>
  <2> DEFINE f == Frame(open, e, TRUE)
  <2>1. speech_start = open /\ e - open <= Step
    <3>1. speech_start = open /\ open >= heard - Lag
      BY <1>2, <1>3, <1>9 DEF Fresh
    <3> QED
      BY <1>3, <1>4, <1>5, <3>1, TimeAssumption, ChunkAssumption
  <2>2. r = <<f>>
    BY <1>4, <1>5, <2>1, RestShort
  <2>3. f \in Frames /\ f.final /\ f.from = open /\ f.to = e
    BY <1>4, <1>5 DEF Frame, Frames
  <2>4. f.to = EndOf(f.from, p[2]) /\ f.from = p[1]
    <3>1. EndOf(open, e) = e
      BY <1>4, <1>5 DEF EndOf
    <3> QED
      BY <1>6, <2>3, <3>1
  <2> HIDE DEF f, r
  <2>5. q = Append(asr_online_queue, f)
    BY <1>2, <2>2, <2>3
  <2> HIDE DEF q
  <2>6. /\ q \in Seq(Frames) /\ q # <<>> /\ Ordered(q, Append(ended, p)) /\ Bounded(q)
        /\ q[1] = asr_online_queue[1] /\ Append(ended, p)[1] = ended[1]
    BY <1>2, <1>6, <1>9, <2>3, <2>4, <2>5, OrderedAppend
  <2>7. kept => q[1].from = IF Within THEN given[Len(given)].to ELSE Append(ended, p)[1][1]
    BY <1>2, <1>9, <2>6, FirstStays
  <2>8. Ends(p[1], p[2])
    BY <1>1, <1>6
  <2> QED
    BY <1>1, <1>3, <1>6, <1>7, <2>6, <2>7, <2>8, EndsHears
<1> QED
  BY <1>8, <1>9

LEMMA ForwardOnlineHears ==
    ASSUME IndInv, HearInv, ForwardOnline
    PROVE  HearInv'
<1> USE DEF IndInv, HearInv
<1>1. /\ UNCHANGED <<pc, mode, size, speech_start, speech_end, open, heard>>
      /\ pc = "asr" /\ asr_online_queue # <<>>
      /\ asr_online_queue' = Tail(asr_online_queue)
  BY DEF ForwardOnline, callVars, posVars, vadVars
<1>2. /\ asr_online_queue \in Seq(Frames) /\ ended \in Seq(Spans) /\ given \in Seq(Frames)
      /\ Ordered(asr_online_queue, ended) /\ Bounded(asr_online_queue)
  BY DEF Series, Line
<1>3. PICK frame \in Frames : frame = Head(asr_online_queue) /\ frame = asr_online_queue[1]
  BY <1>1, <1>2
<1>4. /\ given' = Append(IF Within THEN given ELSE <<>>, frame)
      /\ ended' = IF frame.final THEN Tail(ended) ELSE ended
      /\ kept' = (kept \/ frame.final)
  BY <1>3 DEF ForwardOnline
<1>5. /\ Len(asr_online_queue) \in Nat \ {0}
      /\ \A k \in 1..Len(asr_online_queue) - 1 : asr_online_queue'[k] = asr_online_queue[k + 1]
      /\ Len(asr_online_queue') = Len(asr_online_queue) - 1
      /\ asr_online_queue' # <<>> <=> Len(asr_online_queue) > 1
  BY <1>1, <1>2, TailAt
<1>6. given' # <<>> /\ given'[Len(given')] = frame
  BY <1>2, <1>4
<1>7. Within' <=> ~frame.final
  BY <1>6 DEF Within
<1>8. Fresh'
  BY <1>1 DEF Fresh
<1>9. CASE frame.final
  <2>1. /\ Ordered(asr_online_queue', Tail(ended)) /\ Bounded(asr_online_queue')
        /\ Len(asr_online_queue) = Len(ended) /\ ended # <<>>
        /\ asr_online_queue' # <<>> =>
              Tail(ended) # <<>> /\ asr_online_queue'[1].from = Tail(ended)[1][1]
    BY <1>1, <1>2, <1>3, <1>9, OrderedLast
  <2>2. ended' = Tail(ended) /\ ended' \in Seq(Spans) /\ kept' /\ ~Within'
    BY <1>2, <1>4, <1>7, <1>9, <2>1, TailAt
  <2>3. Line'
    BY <1>1, <2>1, <2>2 DEF Line
  <2>4. asr_online_queue' # <<>> => ended' # <<>>
    BY <2>1, <2>2
  <2>5. Stands'
    BY <1>1, <2>1, <2>2, <2>4 DEF Stands
  <2>6. asr_online_queue' # <<>> => asr_online_queue'[1].from = Service!NextFrom'
    BY <2>1, <2>2 DEF Within, Service!NextFrom, Service!Within
  <2>7. Turn'
    BY <2>2, <2>4, <2>6 DEF Turn
  <2> QED
    BY <1>8, <2>3, <2>5, <2>7
<1>10. CASE ~frame.final
  <2>1. /\ Ordered(asr_online_queue', ended) /\ Bounded(asr_online_queue')
        /\ Len(asr_online_queue) > Len(ended)
        /\ asr_online_queue' # <<>> => asr_online_queue'[1].from = frame.to
    BY <1>1, <1>2, <1>3, <1>10, OrderedPiece
  <2>2. ended' = ended /\ kept' = kept /\ Within'
    BY <1>4, <1>7, <1>10 DEF Types
  <2>3. Line'
    BY <1>1, <2>1, <2>2 DEF Line
  <2>4. asr_online_queue' = <<>> => ended' = <<>>
    BY <2>3, OrderedNone DEF Line
  <2>5. /\ asr_online_queue' # <<>> =>
              asr_online_queue'[Len(asr_online_queue')] = asr_online_queue[Len(asr_online_queue)]
        /\ asr_online_queue' = <<>> => asr_online_queue[Len(asr_online_queue)] = frame
    <3>1. Len(asr_online_queue) > 1 => Len(asr_online_queue') \in 1..Len(asr_online_queue) - 1
                                       /\ Len(asr_online_queue') + 1 = Len(asr_online_queue)
      BY <1>5
    <3>2. ~(Len(asr_online_queue) > 1) => Len(asr_online_queue) = 1
      BY <1>5
    <3> QED
      BY <1>3, <1>5, <3>1, <3>2
  <2>6. Past' <=> Past
    BY <1>1 DEF Past
  <2>7. Stands'
    <3> SUFFICES ASSUME open # None PROVE
          /\ speech_start <= size
          /\ ended # <<>> => speech_start = open
          /\ kept /\ ended = <<>> /\ asr_online_queue' # <<>> =>
                speech_start = asr_online_queue'[Len(asr_online_queue')].to /\ Past
          /\ kept /\ asr_online_queue' = <<>> =>
                speech_start = given'[Len(given')].to /\ Past
      BY <1>1, <2>2, <2>6 DEF Stands
    <3>1. /\ speech_start <= size
          /\ ended # <<>> => speech_start = open
          /\ kept /\ ended = <<>> =>
                speech_start = asr_online_queue[Len(asr_online_queue)].to /\ Past
      BY <1>1 DEF Stands
    <3> QED
      BY <1>6, <2>2, <2>4, <2>5, <3>1
  <2>8. asr_online_queue' # <<>> => asr_online_queue'[1].from = Service!NextFrom'
    BY <1>6, <2>1, <2>2 DEF Within, Service!NextFrom, Service!Within
  <2>9. ended = <<>> => open # None
    BY <1>1 DEF Turn
  <2>10. Turn'
    BY <1>1, <2>2, <2>4, <2>8, <2>9 DEF Turn
  <2> QED
    BY <1>8, <2>3, <2>7, <2>10
<1> QED
  BY <1>9, <1>10

LEMMA ReturnsFinalHears ==
    ASSUME IndInv, HearInv, ReturnsFinal
    PROVE  HearInv' /\ ended = <<>> /\ (kept => ~Within)
<1> USE DEF IndInv, HearInv
<1>1. /\ UNCHANGED <<mode, asr_online_queue, given, ended, kept>>
      /\ asr_online_queue = <<>> /\ pc' = "idle" /\ size' = 0 /\ open' = None
      /\ open = None \/ heard - open <= Lag
  BY DEF ReturnsFinal, queues, Vad!Restart, None
<1>2. ended = <<>>
  BY <1>1, NoneWaits
<1>3. kept => ~Within
  <2> SUFFICES ASSUME kept, Within PROVE FALSE
    OBVIOUS
  <2>1. open # None /\ heard - open <= Lag
    BY <1>1 DEF Turn
  <2>2. open + Step <= speech_start /\ speech_start <= speech_end
    BY <1>1, <2>1 DEF Stands, Past
  <2>3. /\ open \in Nat /\ speech_start \in Nat /\ speech_end \in Nat /\ size \in Nat
        /\ heard \in Nat /\ speech_end <= size /\ heard >= size - Delay
    BY <2>1 DEF Types, Agree, Positions
  <2> QED
    BY <2>1, <2>2, <2>3, TimeAssumption, ChunkAssumption
<1>4. Line'
  BY <1>1, <1>2, OrderedEmpty, TimeAssumption DEF Line
<1>5. Fresh' /\ Stands'
  BY <1>1 DEF Fresh, Stands
<1>6. Turn'
  BY <1>1, <1>3 DEF Turn, Within
<1> QED
  BY <1>2, <1>3, <1>4, <1>5, <1>6

LEMMA StepHears == IndInv /\ HearInv /\ [Next]_vars => HearInv'
<1> SUFFICES ASSUME IndInv, HearInv, [Next]_vars PROVE HearInv'
  OBVIOUS
<1>1. ASSUME NEW n \in Blocks, NEW final \in BOOLEAN, NEW m \in Modes, Load(n, final, m)
      PROVE  HearInv'
  BY <1>1, LoadHears
<1>2. ASSUME NEW s \in Times, SegmentBegins(s)
      PROVE  HearInv'
  BY <1>2, SegmentBeginsHears
<1>3. ASSUME NEW e \in Times, SegmentEnds(e)
      PROVE  HearInv'
  BY <1>3, SegmentEndsHears
<1>4. ASSUME NEW s \in Times, NEW e \in Times, SegmentWhole(s, e)
      PROVE  HearInv'
  BY <1>4, SegmentWholeHears
<1>5. CASE Trim \/ ForwardOffline \/ Returns
  <2>1. /\ UNCHANGED <<mode, size, speech_start, speech_end, asr_online_queue,
                       open, given, ended, kept>>
        /\ pc' # "segments"
    BY <1>5 DEF Trim, ForwardOffline, Returns, callVars, posVars, queues, vadVars
  <2> QED
    BY <2>1, HearKept
<1>6. CASE UNCHANGED vars
  BY <1>6 DEF vars, callVars, posVars, queues, texts, vadVars, HearInv, Line, Fresh, Stands,
     Past, Turn, Within, Service!NextFrom, Service!Within
<1> QED
  BY <1>1, <1>2, <1>3, <1>4, <1>5, <1>6, NoSegmentHears, ForwardOnlineHears,
     ReturnsFinalHears DEF Next

-----------------------------------------------------------------------------
(* Every step is one of the service.                                         *)

\* The offline queue, as the service sees it.
LEMMA SecondIs ==
    /\ Service!vars = <<open, given, ended, Pairs(asr_offline_queue), kept>>
    /\ Service!vars' = <<open', given', ended', Pairs(asr_offline_queue'), kept'>>
    /\ \A s, e, online, offline : Service!Closes(s, e, online, offline) <=>
          /\ s < e /\ (open = -1 \/ s = open)
          /\ open' = -1 /\ given' = given
          /\ ended' = IF online THEN Append(ended, <<s, e>>) ELSE ended
          /\ Pairs(asr_offline_queue') = IF offline THEN Append(Pairs(asr_offline_queue), <<s, e>>)
                                         ELSE Pairs(asr_offline_queue)
          /\ kept' = (kept /\ (online \/ ~Within))
    /\ Service!Rereads <=>
          /\ Pairs(asr_offline_queue) # <<>>
          /\ Pairs(asr_offline_queue') = Tail(Pairs(asr_offline_queue))
          /\ UNCHANGED <<open, given, ended, kept>>
    /\ Service!Restart <=>
          /\ ended = <<>> /\ Pairs(asr_offline_queue) = <<>> /\ (kept => ~Within)
          /\ open' = -1
          /\ UNCHANGED <<given, ended, kept>>
          /\ Pairs(asr_offline_queue') = Pairs(asr_offline_queue)
BY DEF Service!vars, Service!Closes, Service!Rereads, Service!Restart, Service!Within, Within, Pairs

LEMMA StutterServes ==
    ASSUME UNCHANGED <<open, given, ended, asr_offline_queue, kept>>
    PROVE  [Service!Next]_(Service!vars)
BY DEF Service!vars

LEMMA InitServes == Init => Service!Init
<1> SUFFICES ASSUME Init PROVE Service!Init
  OBVIOUS
<1>1. /\ open = -1 /\ given = <<>> /\ ended = <<>> /\ kept = TRUE
      /\ Pairs(asr_offline_queue) = <<>>
  BY PairsEmpty DEF Init, Vad!Init
<1> QED
  BY <1>1 DEF Service!Init, Pairs

LEMMA SegmentBeginsServes ==
    ASSUME IndInv, HearInv, NEW s \in Times, SegmentBegins(s)
    PROVE  [Service!Next]_(Service!vars)
<1>1. /\ open = -1 /\ open' = s /\ UNCHANGED <<given, ended, asr_offline_queue, kept>>
  BY DEF SegmentBegins, Vad!Begin, Segment
<1>2. s \in 0..MaxSamples
  BY DEF Times
<1>3. Service!Opens
  BY <1>1, <1>2 DEF Service!Opens
<1> QED
  BY <1>3 DEF Service!Next

\* A segment that ends, in the one way or the other.
LEMMA CloseServes ==
    ASSUME NEW s \in 0..MaxSamples, NEW e \in 0..MaxSamples, s < e, open = -1 \/ s = open,
           open' = -1, given' = given, Ends(s, e),
           Pairs(asr_offline_queue') = IF mode # "ONLINE"
                                       THEN Append(Pairs(asr_offline_queue), <<s, e>>)
                                       ELSE Pairs(asr_offline_queue)
    PROVE  [Service!Next]_(Service!vars)
<1>1. PICK online \in BOOLEAN, offline \in BOOLEAN :
          (online <=> mode # "OFFLINE") /\ (offline <=> mode # "ONLINE")
  OBVIOUS
<1>2. ended' = IF online THEN Append(ended, <<s, e>>) ELSE ended
  BY <1>1 DEF Ends
<1>3. kept' = (kept /\ (online \/ ~Within))
  <2>1. kept' = (kept /\ (mode # "OFFLINE" \/ given = <<>> \/ given[Len(given)].final))
    BY DEF Ends
  <2>2. ~Within <=> given = <<>> \/ given[Len(given)].final
    BY DEF Within
  <2> QED
    BY <1>1, <2>1, <2>2
<1>4. Pairs(asr_offline_queue') = IF offline THEN Append(Pairs(asr_offline_queue), <<s, e>>)
                                  ELSE Pairs(asr_offline_queue)
  BY <1>1
<1>5. Service!Closes(s, e, online, offline)
  BY <1>2, <1>3, <1>4, SecondIs
<1> QED
  BY <1>5 DEF Service!Next

LEMMA SegmentWholeServes ==
    ASSUME IndInv, HearInv, NEW s \in Times, NEW e \in Times, SegmentWhole(s, e)
    PROVE  [Service!Next]_(Service!vars)
<1>1. /\ open = -1 /\ open' = -1 /\ given' = given /\ Ends(s, e)
      /\ s \in last..heard - 1 /\ e \in s + 1..heard
  BY DEF SegmentWhole, Vad!Whole, Segment
<1>2. s \in 0..MaxSamples /\ e \in 0..MaxSamples /\ s < e /\ s \in Nat /\ e \in Nat
  BY <1>1, TimeAssumption DEF Times, IndInv, Types
<1> DEFINE f == Frame(s, e, TRUE)
<1>3. f \in Frames /\ f.from = s /\ f.to = e
  BY <1>2, FrameType
<1>4. asr_offline_queue' = IF mode = "ONLINE" THEN asr_offline_queue
                           ELSE Append(asr_offline_queue, f)
  BY DEF SegmentWhole
<1> HIDE DEF f
<1>5. Pairs(asr_offline_queue') = IF mode # "ONLINE"
                                  THEN Append(Pairs(asr_offline_queue), <<s, e>>)
                                  ELSE Pairs(asr_offline_queue)
  BY <1>3, <1>4, PairsAppend DEF IndInv, Series
<1> QED
  BY <1>1, <1>2, <1>5, CloseServes

LEMMA SegmentEndsServes ==
    ASSUME IndInv, HearInv, NEW e \in Times, SegmentEnds(e)
    PROVE  [Service!Next]_(Service!vars)
<1>1. /\ open # None /\ open' = -1 /\ given' = given /\ Ends(open, e)
      /\ e \in open + 1..heard
  BY DEF SegmentEnds, Vad!End, Segment, None
<1>2. open \in Nat /\ speech_offline_start = open
  BY <1>1 DEF IndInv, Types, Agree
<1>3. open \in 0..MaxSamples /\ e \in 0..MaxSamples /\ open < e /\ e \in Nat
  BY <1>1, <1>2, TimeAssumption DEF Times, IndInv, Types
<1> DEFINE f == Frame(open, e, TRUE)
<1>4. f \in Frames /\ f.from = open /\ f.to = e
  BY <1>2, <1>3, FrameType
<1>5. asr_offline_queue' = IF mode = "ONLINE" THEN asr_offline_queue
                           ELSE Append(asr_offline_queue, f)
  BY <1>2 DEF SegmentEnds
<1> HIDE DEF f
<1>6. Pairs(asr_offline_queue') = IF mode # "ONLINE"
                                  THEN Append(Pairs(asr_offline_queue), <<open, e>>)
                                  ELSE Pairs(asr_offline_queue)
  BY <1>4, <1>5, PairsAppend DEF IndInv, Series
<1> QED
  BY <1>1, <1>3, <1>6, CloseServes

LEMMA ForwardOnlineServes ==
    ASSUME IndInv, HearInv, ForwardOnline
    PROVE  [Service!Next]_(Service!vars)
<1> USE DEF IndInv, HearInv
<1>1. /\ UNCHANGED <<open, asr_offline_queue>> /\ asr_online_queue # <<>>
  BY DEF ForwardOnline, vadVars
<1>2. /\ asr_online_queue \in Seq(Frames) /\ ended \in Seq(Spans) /\ given \in Seq(Frames)
      /\ Ordered(asr_online_queue, ended) /\ Bounded(asr_online_queue)
  BY DEF Series, Line
<1>3. PICK frame \in Frames : frame = Head(asr_online_queue) /\ frame = asr_online_queue[1]
  BY <1>1, <1>2
<1>4. /\ given' = Append(IF Within THEN given ELSE <<>>, frame)
      /\ ended' = IF frame.final THEN Tail(ended) ELSE ended
      /\ kept' = (kept \/ frame.final)
  BY <1>3 DEF ForwardOnline
<1>5. /\ frame = [from |-> frame.from, to |-> frame.to, final |-> frame.final]
      /\ frame.final \in BOOLEAN /\ frame.from \in Nat /\ frame.to \in Nat
  BY DEF Frames
<1>6. frame.from \in 0..MaxSamples /\ frame.to \in 0..MaxSamples
  <2>1. 1 \in 1..Len(asr_online_queue)
    BY <1>1, <1>2
  <2>2. frame.from <= MaxSamples /\ frame.to <= MaxSamples
    BY <1>2, <1>3, <2>1 DEF Bounded
  <2> QED
    BY <1>5, <2>2, TimeAssumption
<1>7. kept => frame.from = Service!NextFrom
  BY <1>1, <1>3 DEF Turn
<1>8. frame.final => ended # <<>> /\ frame.to = EndOf(frame.from, ended[1][2])
  BY <1>1, <1>2, <1>3, OrderedLast
<1>9. ~frame.final => /\ ended # <<>> \/ open # -1
                      /\ frame.from < frame.to
                      /\ ended # <<>> => frame.to < ended[1][2]
  <2>1. ended = <<>> => open # -1
    BY <1>1 DEF Turn, None
  <2> QED
    BY <1>1, <1>2, <1>3, <2>1, OrderedPiece
<1>10. <<given', ended'>> # <<given, ended>>
  <2>1. frame.final => Tail(ended) # ended
    BY <1>2, <1>8, TailAt
  <2>2. Within => Append(given, frame) # given
    BY <1>2
  <2>3. given = <<frame>> /\ ~frame.final => Within
    BY DEF Within
  <2>4. \A x : Append(<<>>, x) = <<x>>
    OBVIOUS
  <2> QED
    BY <1>4, <2>1, <2>2, <2>3, <2>4
<1>11. Service!Hears(frame.from, frame.to, frame.final)
  <2>1. given' = Append(IF Service!Within THEN given ELSE <<>>,
                        [from |-> frame.from, to |-> frame.to, final |-> frame.final])
    BY <1>4, <1>5 DEF Within, Service!Within
  <2>2. IF frame.final
        THEN /\ ended # <<>> /\ ended' = Tail(ended)
             /\ frame.to = IF frame.from > ended[1][2] THEN frame.from ELSE ended[1][2]
        ELSE /\ ended # <<>> \/ open # -1
             /\ frame.from < frame.to /\ (ended # <<>> => frame.to < ended[1][2])
             /\ ended' = ended
    BY <1>4, <1>8, <1>9 DEF EndOf
  <2> QED
    BY <1>1, <1>4, <1>7, <2>1, <2>2 DEF Service!Hears
<1> QED
  BY <1>5, <1>6, <1>10, <1>11 DEF Service!Next

LEMMA ForwardOfflineServes ==
    ASSUME IndInv, HearInv, ForwardOffline
    PROVE  [Service!Next]_(Service!vars)
<1>1. /\ asr_offline_queue \in Seq(Frames) /\ asr_offline_queue # <<>>
      /\ asr_offline_queue' = Tail(asr_offline_queue)
      /\ UNCHANGED <<open, given, ended, kept>>
  BY DEF ForwardOffline, IndInv, Series, vadVars
<1>2. /\ Pairs(asr_offline_queue) # <<>>
      /\ Pairs(asr_offline_queue') = Tail(Pairs(asr_offline_queue))
  BY <1>1, PairsTail
<1>3. Service!Rereads
  BY <1>1, <1>2, SecondIs
<1> QED
  BY <1>3 DEF Service!Next

LEMMA ReturnsFinalServes ==
    ASSUME IndInv, HearInv, ReturnsFinal
    PROVE  [Service!Next]_(Service!vars)
<1>1. /\ asr_offline_queue = <<>> /\ open' = -1
      /\ UNCHANGED <<asr_offline_queue, given, ended, kept>>
  BY DEF ReturnsFinal, queues, Vad!Restart
<1>2. ended = <<>> /\ (kept => ~Within)
  BY ReturnsFinalHears
<1>3. Service!Restart
  BY <1>1, <1>2, PairsEmpty, SecondIs
<1> QED
  BY <1>3 DEF Service!Next

LEMMA StepServes ==
    IndInv /\ HearInv /\ [Next]_vars => [Service!Next]_(Service!vars)
<1> SUFFICES ASSUME IndInv, HearInv, [Next]_vars PROVE [Service!Next]_(Service!vars)
  OBVIOUS
<1>1. ASSUME NEW n \in Blocks, NEW final \in BOOLEAN, NEW m \in Modes, Load(n, final, m)
      PROVE  [Service!Next]_(Service!vars)
  BY <1>1, StutterServes DEF Load, queues
<1>2. ASSUME NEW s \in Times, SegmentBegins(s)
      PROVE  [Service!Next]_(Service!vars)
  BY <1>2, SegmentBeginsServes
<1>3. ASSUME NEW e \in Times, SegmentEnds(e)
      PROVE  [Service!Next]_(Service!vars)
  BY <1>3, SegmentEndsServes
<1>4. ASSUME NEW s \in Times, NEW e \in Times, SegmentWhole(s, e)
      PROVE  [Service!Next]_(Service!vars)
  BY <1>4, SegmentWholeServes
<1>5. CASE NoSegment \/ Trim \/ Returns \/ UNCHANGED vars
  BY <1>5, StutterServes DEF NoSegment, Trim, Returns, vars, queues, vadVars
<1> QED
  BY <1>1, <1>2, <1>3, <1>4, <1>5, ForwardOnlineServes, ForwardOfflineServes,
     ReturnsFinalServes DEF Next

-----------------------------------------------------------------------------
(* The streaming recogniser keeps up.                                        *)

LEMMA InitLate == Init => LateInv
BY DEF Init, Vad!Init, LateInv, None

\* A step that leaves what was told of the open segment alone, or ends it.
LEMMA LateKept ==
    ASSUME LateInv, pc # "vad" \/ open' = None, pc' # "vad",
           open' = None \/ UNCHANGED <<mode, switched, open, speech_start, speech_end>>
    PROVE  LateInv'
BY DEF LateInv, Behind

LEMMA LoadLate ==
    ASSUME IndInv, LateInv, NEW n \in Blocks, NEW final \in BOOLEAN, NEW m \in Modes,
           Load(n, final, m)
    PROVE  LateInv'
<1> USE DEF IndInv
<1>1. /\ UNCHANGED <<speech_start, open>> /\ pc = "idle" /\ pc' = "vad" /\ mode' = m
      /\ switched' = (switched \/ m # mode)
      /\ speech_end' = speech_end + n - (n % SegSample)
  BY DEF Load
<1>2. n \in Nat /\ n <= Step /\ n % SegSample \in Nat /\ speech_end \in Nat /\ Step \in Nat
      /\ Lag \in Nat /\ Delay \in Nat
  BY TimeAssumption, ChunkAssumption DEF Types
<1>3. open # None => speech_start \in Nat
  BY DEF Types, Agree
<1> SUFFICES ASSUME open # None, mode' # "OFFLINE", ~switched'
             PROVE  speech_end' - speech_start < Step + Step + Lag + Delay
  BY <1>1 DEF LateInv, Behind
<1>4. speech_end - speech_start < Step + Lag + Delay
  BY <1>1 DEF LateInv, Behind
<1> QED
  BY <1>1, <1>2, <1>3, <1>4

LEMMA NoSegmentLate ==
    ASSUME IndInv, LateInv, NoSegment
    PROVE  LateInv'
<1> USE DEF IndInv
<1>1. /\ UNCHANGED <<mode, switched, open, speech_end>> /\ pc = "vad" /\ pc' = "trim"
  BY DEF NoSegment, callVars, vadVars
<1> SUFFICES ASSUME open # None, mode # "OFFLINE", ~switched
             PROVE  speech_end - speech_start' < Step + Lag + Delay
  BY <1>1 DEF LateInv, Behind
<1>2. speech_start # None /\ speech_start \in Nat /\ speech_end \in Nat
  BY DEF Types, Agree
<1>3. speech_start' = IF speech_end - speech_start >= Step THEN speech_start + Step
                                                           ELSE speech_start
  BY <1>2 DEF NoSegment, PushStep
<1>4. speech_end - speech_start < Step + Step + Lag + Delay
  BY <1>1 DEF LateInv, Behind
<1> QED
  BY <1>2, <1>3, <1>4, TimeAssumption

LEMMA SegmentBeginsLate ==
    ASSUME IndInv, NEW s \in Times, SegmentBegins(s)
    PROVE  LateInv'
<1> USE DEF IndInv
<1>1. /\ s >= heard - Lag /\ UNCHANGED <<size, speech_end>> /\ pc' = "segments"
      /\ PushStep(s)
  BY SegmentFrame DEF SegmentBegins, Vad!Begin
<1>2. /\ s \in Nat /\ heard \in Nat /\ size \in Nat /\ speech_end \in Nat
      /\ speech_end <= size /\ heard >= size - Delay
  BY <1>1, BeginsKept DEF Types, Positions
<1>3. speech_end - s <= Lag + Delay /\ ~(speech_end - s >= Step)
  BY <1>1, <1>2, TimeAssumption, ChunkAssumption
<1>4. speech_start' = s
  BY <1>1, <1>3 DEF PushStep
<1>5. speech_end' - speech_start' < Step + Lag + Delay
  BY <1>1, <1>2, <1>3, <1>4, TimeAssumption
<1> QED
  BY <1>1, <1>5 DEF LateInv, Behind

LEMMA StepLate == IndInv /\ LateInv /\ [Next]_vars => LateInv'
<1> SUFFICES ASSUME IndInv, LateInv, [Next]_vars PROVE LateInv'
  OBVIOUS
<1>1. ASSUME NEW n \in Blocks, NEW final \in BOOLEAN, NEW m \in Modes, Load(n, final, m)
      PROVE  LateInv'
  BY <1>1, LoadLate
<1>2. ASSUME NEW s \in Times, SegmentBegins(s)
      PROVE  LateInv'
  BY <1>2, SegmentBeginsLate
<1>3. ASSUME NEW e \in Times, SegmentEnds(e)
      PROVE  LateInv'
  <2>1. open' = None /\ pc' = "segments"
    BY <1>3 DEF SegmentEnds, Segment, Vad!End, None
  <2> QED
    BY <2>1, LateKept
<1>4. ASSUME NEW s \in Times, NEW e \in Times, SegmentWhole(s, e)
      PROVE  LateInv'
  <2>1. open' = None /\ pc' = "segments"
    BY <1>4 DEF SegmentWhole, Segment, Vad!Whole, None
  <2> QED
    BY <2>1, LateKept
<1>5. CASE Trim \/ ForwardOnline \/ ForwardOffline \/ Returns
  <2>1. /\ UNCHANGED <<mode, switched, open, speech_start, speech_end>>
        /\ pc # "vad" /\ pc' # "vad"
    BY <1>5 DEF Trim, ForwardOnline, ForwardOffline, Returns, callVars, posVars, vadVars
  <2> QED
    BY <2>1, LateKept
<1>6. CASE ReturnsFinal
  <2>1. open' = None /\ pc' = "idle"
    BY <1>6 DEF ReturnsFinal, Vad!Restart, None
  <2> QED
    BY <2>1, LateKept
<1>7. CASE UNCHANGED vars
  BY <1>7 DEF vars, callVars, posVars, vadVars, LateInv, Behind
<1> QED
  BY <1>1, <1>2, <1>3, <1>4, <1>5, <1>6, <1>7, NoSegmentLate DEF Next

-----------------------------------------------------------------------------
(* The text of the first pass.                                               *)

LEMMA InitTold == Init => TextInv
BY DEF Init, TextInv, Within

\* A step that gives no text, and hears nothing.
LEMMA ToldKept ==
    ASSUME TextInv,
           UNCHANGED <<mode, switched, online_res, tpass_msg, given>>,
           pc' \in {"vad", "segments", "trim"} => pc \in {"vad", "segments", "trim"},
           tpass_msg = <<>> \/ UNCHANGED <<asr_online_queue, ended>>,
           mode = "ONLINE" => UNCHANGED asr_offline_queue
    PROVE  TextInv'
BY DEF TextInv, Within

LEMMA LoadTold ==
    ASSUME IndInv, TextInv, NEW n \in Blocks, NEW final \in BOOLEAN, NEW m \in Modes,
           Load(n, final, m)
    PROVE  TextInv'
<1>1. /\ UNCHANGED <<asr_offline_queue, online_res, given>> /\ pc = "idle" /\ mode' = m
      /\ switched' = (switched \/ m # mode) /\ tpass_msg' = <<>>
  BY DEF Load, queues
<1>2. asr_offline_queue = <<>>
  BY <1>1 DEF IndInv, Queued
<1> QED
  BY <1>1, <1>2 DEF TextInv, Within

LEMMA ForwardOnlineTold ==
    ASSUME IndInv, HearInv, TextInv, ForwardOnline
    PROVE  TextInv'
<1> USE DEF IndInv, HearInv
<1>1. /\ UNCHANGED <<pc, mode, switched, asr_offline_queue>>
      /\ pc = "asr" /\ asr_online_queue # <<>>
      /\ asr_online_queue' = Tail(asr_online_queue)
  BY DEF ForwardOnline, callVars
<1>2. /\ asr_online_queue \in Seq(Frames) /\ ended \in Seq(Spans) /\ given \in Seq(Frames)
      /\ Ordered(asr_online_queue, ended) /\ Bounded(asr_online_queue)
  BY DEF Series, Line
<1>3. PICK frame \in Frames : frame = Head(asr_online_queue) /\ frame = asr_online_queue[1]
  BY <1>1, <1>2
<1>4. /\ given' = Append(IF Within THEN given ELSE <<>>, frame)
      /\ ended' = IF frame.final THEN Tail(ended) ELSE ended
  BY <1>3 DEF ForwardOnline
<1>5. Within' <=> ~frame.final
  <2>1. given' # <<>> /\ given'[Len(given')] = frame
    BY <1>2, <1>4
  <2> QED
    BY <2>1 DEF Within
<1> SUFFICES ASSUME mode = "ONLINE", ~switched
             PROVE  /\ online_res' = IF Within' THEN given' ELSE <<>>
                    /\ tpass_msg' # <<>> =>
                          tpass_msg' = given' /\ Len(asr_online_queue') = Len(ended')
  BY <1>1 DEF TextInv
<1>6. /\ online_res' = IF frame.final THEN <<>> ELSE Append(online_res, frame)
      /\ tpass_msg' = IF frame.final THEN Append(online_res, frame) ELSE tpass_msg
  BY <1>3 DEF ForwardOnline, ResAfter
<1>7. Append(online_res, frame) = given'
  BY <1>4 DEF TextInv
<1>8. CASE frame.final
  <2>1. Len(asr_online_queue) = Len(ended) /\ ended # <<>>
    BY <1>1, <1>2, <1>3, <1>8, OrderedLast
  <2>2. Len(asr_online_queue') = Len(asr_online_queue) - 1 /\ Len(Tail(ended)) = Len(ended) - 1
    BY <1>1, <1>2, <2>1, TailAt
  <2> QED
    BY <1>4, <1>5, <1>6, <1>7, <1>8, <2>1, <2>2
<1>9. CASE ~frame.final
  <2>1. Len(asr_online_queue) > Len(ended) /\ Len(ended) \in Nat
    BY <1>1, <1>2, <1>3, <1>9, OrderedPiece
  <2>2. tpass_msg = <<>>
    BY <2>1 DEF TextInv
  <2> QED
    BY <1>5, <1>6, <1>7, <1>9, <2>2
<1> QED
  BY <1>8, <1>9

LEMMA StepTold == IndInv /\ HearInv /\ TextInv /\ [Next]_vars => TextInv'
<1> SUFFICES ASSUME IndInv, HearInv, TextInv, [Next]_vars PROVE TextInv'
  OBVIOUS
<1>1. ASSUME NEW n \in Blocks, NEW final \in BOOLEAN, NEW m \in Modes, Load(n, final, m)
      PROVE  TextInv'
  BY <1>1, LoadTold
<1>2. ASSUME Segment, UNCHANGED asr_offline_queue \/ mode # "ONLINE"
      PROVE  TextInv'
  <2>1. /\ UNCHANGED <<mode, switched, online_res, tpass_msg, given>>
        /\ pc \in {"vad", "segments"}
    BY <1>2, SegmentFrame DEF Segment, texts
  <2>2. tpass_msg = <<>>
    BY <2>1 DEF TextInv
  <2> QED
    BY <1>2, <2>1, <2>2, ToldKept
<1>3. ASSUME NEW s \in Times, SegmentBegins(s)
      PROVE  TextInv'
  BY <1>2, <1>3 DEF SegmentBegins
<1>4. ASSUME NEW e \in Times, SegmentEnds(e)
      PROVE  TextInv'
  BY <1>2, <1>4 DEF SegmentEnds
<1>5. ASSUME NEW s \in Times, NEW e \in Times, SegmentWhole(s, e)
      PROVE  TextInv'
  BY <1>2, <1>5 DEF SegmentWhole
<1>6. CASE NoSegment
  <2>1. /\ UNCHANGED <<mode, switched, online_res, tpass_msg, given, asr_offline_queue>>
        /\ pc = "vad"
    BY <1>6 DEF NoSegment, callVars, texts
  <2>2. tpass_msg = <<>>
    BY <2>1 DEF TextInv
  <2> QED
    BY <2>1, <2>2, ToldKept
<1>7. CASE Trim \/ Returns \/ ReturnsFinal
  <2>1. /\ UNCHANGED <<mode, switched, online_res, tpass_msg, given, asr_offline_queue,
                       asr_online_queue, ended>>
        /\ pc' \in {"asr", "idle"}
    BY <1>7 DEF Trim, Returns, ReturnsFinal, callVars, texts, queues
  <2> QED
    BY <2>1, ToldKept
<1>8. CASE ForwardOffline
  <2>1. pc' = "asr" /\ mode # "ONLINE" /\ mode' = mode
    BY <1>8 DEF ForwardOffline, callVars, TextInv
  <2> QED
    BY <2>1 DEF TextInv
<1>9. CASE UNCHANGED vars
  BY <1>9 DEF vars, callVars, texts, queues, TextInv, Within
<1> QED
  BY <1>1, <1>3, <1>4, <1>5, <1>6, <1>7, <1>8, <1>9, ForwardOnlineTold DEF Next

-----------------------------------------------------------------------------
(* The theorems.                                                             *)

\* What is queued, what was heard and where the open segment stands fit together
\* in every call of every stream.
THEOREM HearInvariance == Spec => [](IndInv /\ HearInv)
<1>1. IndInv /\ HearInv /\ [Next]_vars => (IndInv /\ HearInv)'
  BY StepKeeps, StepHears
<1> QED
  BY <1>1, Initially, InitHears, PTL DEF Spec

\* Split and FunTpassInferBuffer implement the 2-pass service: the streaming
\* recogniser hears every segment once, in adjoining pieces of which only the last
\* is final, and the second pass hears it once as a whole.
THEOREM BothPassesCorrect == Spec => BothPassesHear
<1> QED
  BY HearInvariance, InitServes, StepServes, PTL DEF Spec, BothPassesHear, Service!Spec

\* While each call brings no more than a chunk, the streaming recogniser is never a
\* whole chunk and one call's delay behind, however long the segment.
THEOREM KeepsUpCorrect == Spec => []KeepsUp
<1>1. LateInv => KeepsUp
  BY DEF LateInv, Behind, KeepsUp
<1> QED
  BY <1>1, Invariance, InitLate, StepLate, PTL DEF Spec

\* The text that ends an utterance in ONLINE mode is made of all its pieces, as long
\* as the client keeps the mode.
THEOREM OnlineTextCorrect == Spec => []OnlineTextWhole
<1>1. TextInv => OnlineTextWhole
  BY DEF TextInv, OnlineTextWhole
<1> QED
  BY <1>1, HearInvariance, InitTold, StepTold, PTL DEF Spec
=============================================================================
