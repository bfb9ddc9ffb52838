--------------------------- MODULE OfflineCut_proofs ---------------------------
(***************************************************************************)
(* Proofs about OfflineCut, for audio of any length, any VAD that keeps to  *)
(* SegmentStream, any recogniser and any order std::sort may choose: the    *)
(* VAD hears the audio to its end, and the text of every segment stands at  *)
(* its place in time.                                                       *)
(***************************************************************************)
EXTENDS OfflineCut, SequenceTheorems, FiniteSetTheorems, TLAPS

-----------------------------------------------------------------------------
(* The inductive invariant.                                                  *)

Pieces == [from : Nat, to : Nat]

\* The beginning that the first k entries leave open.
LeftOpen(k) ==
    IF k > 0 /\ vad_segments[k][2] = -1 THEN vad_segments[k][1] ELSE -1

\* What the k-th entry tells: the beginning of a segment, ...
Begins(k) == vad_segments[k][1] \in Nat /\ vad_segments[k][2] = -1 /\ LeftOpen(k - 1) = -1

\* ... the end of the one left open, ...
Ends(k, piece) ==
    /\ vad_segments[k][1] = -1 /\ vad_segments[k][2] \in Nat /\ LeftOpen(k - 1) \in Nat
    /\ piece = Frame(LeftOpen(k - 1), vad_segments[k][2])

\* ... or both.
IsWhole(k, piece) ==
    /\ vad_segments[k][1] \in Nat /\ vad_segments[k][2] \in Nat /\ LeftOpen(k - 1) = -1
    /\ piece = Frame(vad_segments[k][1], vad_segments[k][2])

\* f counts the segments that end in the first k entries.
EntryTells(f, k) ==
    \/ f[k] = f[k - 1] /\ Begins(k)
    \/ f[k] = f[k - 1] + 1 /\ (Ends(k, spoken[f[k]]) \/ IsWhole(k, spoken[f[k]]))
Counts(f) ==
    /\ f \in [Nat -> Nat] /\ f[0] = 0 /\ f[Len(vad_segments)] = Len(spoken)
    /\ \A k \in 0..Len(vad_segments) : f[k] <= Len(spoken)
    /\ \A k \in 1..Len(vad_segments) : EntryTells(f, k)

\* The pieces put together of the first entries are the first that were spoken.
Paired(f) ==
    /\ pairing.start_i = LeftOpen(paired) /\ pairing.end_i = -1
    /\ Len(pairing.vad_frames) = f[paired]
    /\ \A k \in 1..f[paired] : pairing.vad_frames[k] = spoken[k]

\* Until the pieces are sorted.
Cut ==
    pc \in {"vad", "tell", "pair"} =>
        /\ open = LeftOpen(Len(vad_segments)) /\ msg_idx = 1
        /\ \E f \in [Nat -> Nat] : Counts(f) /\ Paired(f)

\* Then: what was decoded is in its place, what was not is queued with its place.
Permutes(p, n) ==
    /\ p \in [1..n -> 1..n]
    /\ \A a, b \in 1..n : p[a] = p[b] => a = b
    /\ \A a \in 1..n : \E b \in 1..n : p[b] = a
Placed ==
    pc \in {"fetch", "done"} =>
        /\ Permutes(index_vector, Len(spoken)) /\ Len(msgs) = Len(spoken)
        /\ msg_idx - 1 + Len(frame_queue) = Len(spoken)
        /\ \A k \in 1..Len(frame_queue) :
              frame_queue[k] = spoken[index_vector[msg_idx - 1 + k]]
        /\ \A k \in 1..msg_idx - 1 : msgs[index_vector[k]] = spoken[index_vector[k]]
        /\ pc = "done" => frame_queue = <<>>

InSeqs ==
    /\ pairing \in [start_i : Nat \cup {-1}, end_i : Nat \cup {-1}, vad_frames : Seq(Pieces)]
    /\ spoken \in Seq(Pieces) /\ frame_queue \in Seq(Pieces)
    /\ msgs \in Seq(Pieces) /\ batch \in Seq(Pieces)
    /\ pc \in {"vad", "tell"} => paired = 0

IndInv == TypeOK /\ InSeqs /\ VadHearsAll /\ Cut /\ Placed
-----------------------------------------------------------------------------
(* What the invariant says of its parts.                                     *)

\* What is known of every state, in the form the provers like.
LEMMA Typed ==
    ASSUME IndInv
    PROVE  /\ vad_segments \in Seq(Int \X Int) /\ Len(vad_segments) \in Nat
           /\ spoken \in Seq(Pieces) /\ Len(spoken) \in Nat
           /\ frame_queue \in Seq(Pieces) /\ Len(frame_queue) \in Nat
           /\ msgs \in Seq(Pieces) /\ Len(msgs) \in Nat /\ batch \in Seq(Pieces)
           /\ paired \in Nat /\ paired <= Len(vad_segments) /\ msg_idx \in Nat /\ msg_idx >= 1
           /\ speech_len \in Nat /\ speech_len > 0 /\ batch_size \in Nat /\ batch_size > 0
           /\ sample_offset \in Nat /\ sample_offset <= speech_len
           /\ heard \in Nat /\ last \in Nat /\ open \in Nat \cup {-1}
<1>1. TypeOK /\ InSeqs
  BY DEF IndInv
<1>2. /\ vad_segments \in Seq(Int \X Int)
      /\ spoken \in Seq(Pieces) /\ frame_queue \in Seq(Pieces)
      /\ msgs \in Seq(Pieces) /\ batch \in Seq(Pieces)
  BY <1>1 DEF TypeOK, InSeqs
<1>3. /\ Len(vad_segments) \in Nat /\ Len(spoken) \in Nat
      /\ Len(frame_queue) \in Nat /\ Len(msgs) \in Nat
  BY <1>2
<1>4. /\ paired \in 0..Len(vad_segments) /\ msg_idx \in 1..Len(msgs) + 1
      /\ speech_len \in Lengths /\ batch_size \in BatchSizes
      /\ sample_offset \in 0..speech_len
      /\ heard \in Nat /\ last \in Nat /\ open \in Nat \cup {-1}
  BY <1>1 DEF TypeOK
<1>5. speech_len \in Nat /\ speech_len > 0 /\ batch_size \in Nat /\ batch_size > 0
  BY <1>4, TimeAssumption, BatchAssumption
<1> QED BY <1>2, <1>3, <1>4, <1>5

\* A sequence of pieces is one for TypeOK.
LEMMA PiecesAreFrames ==
    ASSUME NEW s \in Seq(Pieces)
    PROVE  IsFrames(s)
<1> SUFFICES ASSUME NEW k \in DOMAIN s PROVE s[k] \in [from : Nat, to : Nat]
  BY DEF IsFrames
<1>1. s[k] \in Pieces
  OBVIOUS
<1> QED BY <1>1 DEF Pieces

LEMMA FrameIsPiece ==
    ASSUME NEW from \in Nat, NEW to \in Nat
    PROVE  Frame(from, to) \in Pieces
BY DEF Frame, Pieces

\* What an action leaves of the invariant when it changes none of it.
LEMMA TypeOfParts ==
    ASSUME InSeqs', pc' \in {"vad", "tell", "pair", "fetch", "done"},
           speech_len' \in Lengths, batch_size' \in BatchSizes,
           sample_offset' \in 0..speech_len', is_final' \in BOOLEAN,
           heard' \in Nat, open' \in Nat \cup {-1}, last' \in Nat,
           vad_segments' \in Seq(Int \X Int), paired' \in 0..Len(vad_segments'),
           index_vector' \in Seq(DOMAIN msgs'), msg_idx' \in 1..Len(msgs') + 1
    PROVE  TypeOK'
<1>1. /\ pairing' \in [start_i : Nat \cup {-1}, end_i : Nat \cup {-1},
                       vad_frames : Seq(Pieces)]
      /\ spoken' \in Seq(Pieces) /\ frame_queue' \in Seq(Pieces)
      /\ msgs' \in Seq(Pieces) /\ batch' \in Seq(Pieces)
  BY DEF InSeqs
<1>2. /\ pairing'.start_i \in Nat \cup {-1} /\ pairing'.end_i \in Nat \cup {-1}
      /\ pairing'.vad_frames \in Seq(Pieces)
  BY <1>1
<1>3. /\ IsFrames(pairing'.vad_frames) /\ IsFrames(spoken') /\ IsFrames(frame_queue')
      /\ IsFrames(msgs') /\ IsFrames(batch')
  BY <1>1, <1>2, PiecesAreFrames
<1> QED BY <1>2, <1>3 DEF TypeOK, IsFrames

\* What is told stays told as long as the entries and the segments are the same.
LEMMA CountsKept ==
    ASSUME NEW f, Counts(f), vad_segments' = vad_segments, spoken' = spoken
    PROVE  Counts(f)'
<1>1. ASSUME NEW k \in 1..Len(vad_segments), EntryTells(f, k)
      PROVE  EntryTells(f, k)'
  BY <1>1 DEF EntryTells, Begins, Ends, IsWhole, LeftOpen
<1> QED BY <1>1 DEF Counts

LEMMA CutKept ==
    ASSUME Cut, pc \in {"vad", "tell", "pair"},
           vad_segments' = vad_segments, spoken' = spoken, open' = open,
           pairing' = pairing, paired' = paired, msg_idx' = msg_idx
    PROVE  Cut'
<1>1. PICK f \in [Nat -> Nat] : Counts(f) /\ Paired(f)
  BY DEF Cut
<1>2. Counts(f)'
  BY <1>1, CountsKept
<1>3. LeftOpen(paired)' = LeftOpen(paired)
      /\ LeftOpen(Len(vad_segments))' = LeftOpen(Len(vad_segments))
  BY DEF LeftOpen
<1>4. Paired(f)'
  BY <1>1, <1>3 DEF Paired
<1> QED BY <1>1, <1>2, <1>3, <1>4 DEF Cut

\* A function on 1..n is a sequence of n.
LEMMA FunctionIsSeq ==
    ASSUME NEW n \in Nat, NEW S, NEW f \in [1..n -> S]
    PROVE  f \in Seq(S) /\ Len(f) = n
<1>1. f \in Seq(S)
  BY SeqDef
<1>2. DOMAIN f = 1..n /\ Len(f) \in Nat /\ DOMAIN f = 1..Len(f)
  BY <1>1, LenProperties
<1> QED BY <1>1, <1>2

\* A permutation: what is one-to-one on 1..n reaches all of it.
LEMMA OneToOnePermutes ==
    ASSUME NEW n \in Nat, NEW p \in [1..n -> 1..n],
           \A a, b \in 1..n : a # b => p[a] # p[b]
    PROVE  Permutes(p, n)
<1>1. IsFiniteSet(1..n)
  BY FS_Interval
<1>2. p \in Injection(1..n, 1..n)
  BY DEF Injection, IsInjective
<1>3. p \in Surjection(1..n, 1..n)
  BY <1>1, <1>2, FS_Injection
<1>4. \A a \in 1..n : \E b \in 1..n : p[b] = a
  BY <1>3 DEF Surjection
<1> QED BY <1>4 DEF Permutes
-----------------------------------------------------------------------------
(* The VAD is asked, and tells.                                              *)

LEMMA InitInv == Init => IndInv
<1> SUFFICES ASSUME Init PROVE IndInv
  OBVIOUS
<1>1. /\ speech_len \in Lengths /\ speech_len \in Nat \ {0} /\ batch_size \in BatchSizes
      /\ sample_offset = 0 /\ is_final = FALSE
      /\ heard = 0 /\ open = -1 /\ last = 0
      /\ vad_segments = <<>> /\ pairing = Pairing /\ paired = 0 /\ msg_idx = 1 /\ batch = <<>>
  BY TimeAssumption DEF Init, Vad!Init
<1>2. <<>> \in Seq(Pieces) /\ Len(<<>>) = 0 /\ <<>> \in Seq(Int \X Int)
  BY EmptySeq
<1>3. pairing \in [start_i : Nat \cup {-1}, end_i : Nat \cup {-1}, vad_frames : Seq(Pieces)]
  BY <1>1, <1>2 DEF Pairing
<1>4. CASE pc = "vad" /\ spoken = <<>> /\ index_vector = <<>> /\ frame_queue = <<>> /\ msgs = <<>>
  <2>1. InSeqs
    BY <1>1, <1>2, <1>3, <1>4 DEF InSeqs
  <2>2. TypeOK
    <3>1. <<>> \in Seq(DOMAIN msgs) /\ 1 \in 1..Len(msgs) + 1 /\ 0 \in 0..Len(vad_segments)
      BY <1>1, <1>2, <1>4
    <3>2. /\ IsFrames(pairing.vad_frames) /\ IsFrames(spoken) /\ IsFrames(frame_queue)
          /\ IsFrames(msgs) /\ IsFrames(batch)
      BY <1>1, <1>2, <1>4, PiecesAreFrames DEF Pairing
    <3>3. pairing.start_i \in Nat \cup {-1} /\ pairing.end_i \in Nat \cup {-1}
      BY <1>3
    <3>4. /\ sample_offset \in 0..speech_len /\ is_final \in BOOLEAN
          /\ heard \in Nat /\ open \in Nat \cup {-1} /\ last \in Nat
      <4>1. 0 \in 0..speech_len /\ FALSE \in BOOLEAN
        BY <1>1
      <4> QED BY <1>1, <4>1
    <3>5. vad_segments \in Seq(Int \X Int)
      BY <1>1, <1>2
    <3> QED BY <1>1, <1>4, <3>1, <3>2, <3>3, <3>4, <3>5 DEF TypeOK
  <2>3. Cut
    <3> DEFINE f == [k \in Nat |-> 0]
    <3>1. f \in [Nat -> Nat] /\ Counts(f)
      BY <1>1, <1>2, <1>4 DEF Counts
    <3>2. LeftOpen(0) = -1
      BY DEF LeftOpen
    <3>3. Paired(f)
      BY <1>1, <1>2, <3>2 DEF Paired, Pairing
    <3> QED BY <1>1, <1>2, <3>1, <3>2, <3>3 DEF Cut
  <2>4. VadHearsAll /\ Placed
    BY <1>4 DEF VadHearsAll, Placed
  <2> QED BY <2>1, <2>2, <2>3, <2>4 DEF IndInv
<1>5. CASE /\ pc = "fetch" /\ spoken = <<Frame(0, speech_len)>>
           /\ index_vector = <<1>> /\ frame_queue = spoken /\ msgs = <<NoText>>
  <2>1. Frame(0, speech_len) \in Pieces /\ NoText \in Pieces
    BY <1>1, FrameIsPiece DEF NoText
  <2>2. /\ spoken \in Seq(Pieces) /\ Len(spoken) = 1 /\ msgs \in Seq(Pieces) /\ Len(msgs) = 1
        /\ DOMAIN msgs = 1..1 /\ index_vector \in Seq(1..1) /\ Len(index_vector) = 1
    BY <1>5, <2>1
  <2>3. InSeqs
    BY <1>1, <1>2, <1>3, <1>5, <2>2 DEF InSeqs
  <2>4. TypeOK
    <3>1. index_vector \in Seq(DOMAIN msgs) /\ 1 \in 1..Len(msgs) + 1
          /\ 0 \in 0..Len(vad_segments)
      BY <1>1, <1>2, <2>2
    <3>2. /\ IsFrames(pairing.vad_frames) /\ IsFrames(spoken) /\ IsFrames(frame_queue)
          /\ IsFrames(msgs) /\ IsFrames(batch)
      BY <1>1, <1>2, <1>5, <2>2, PiecesAreFrames DEF Pairing
    <3>3. pairing.start_i \in Nat \cup {-1} /\ pairing.end_i \in Nat \cup {-1}
      BY <1>3
    <3>4. /\ sample_offset \in 0..speech_len /\ is_final \in BOOLEAN
          /\ heard \in Nat /\ open \in Nat \cup {-1} /\ last \in Nat
      <4>1. 0 \in 0..speech_len /\ FALSE \in BOOLEAN
        BY <1>1
      <4> QED BY <1>1, <4>1
    <3>5. vad_segments \in Seq(Int \X Int)
      BY <1>1, <1>2
    <3> QED BY <1>1, <1>5, <3>1, <3>2, <3>3, <3>4, <3>5 DEF TypeOK
  <2>5. Placed
    <3>1. index_vector \in [1..1 -> 1..1] /\ 1 \in Nat
      BY <2>2, LenProperties
    <3>2. \A a, b \in 1..1 : a = b
      OBVIOUS
    <3>3. Permutes(index_vector, 1)
      BY <3>1, <3>2, OneToOnePermutes
    <3>4. \A k \in 1..1 : index_vector[k] = 1 /\ k = 1
      BY <1>5
    <3>5. 1..msg_idx - 1 = {} /\ msg_idx - 1 = 0
      BY <1>1
    <3> QED BY <1>1, <1>5, <2>2, <3>3, <3>4, <3>5 DEF Placed
  <2>6. VadHearsAll /\ Cut
    BY <1>5 DEF VadHearsAll, Cut
  <2> QED BY <2>3, <2>4, <2>5, <2>6 DEF IndInv
<1> QED BY <1>4, <1>5 DEF Init

LEMMA InferInv == ASSUME IndInv, Infer PROVE IndInv'
<1>1. /\ pc \in {"vad", "tell"} /\ sample_offset < speech_len /\ pc' = "tell"
      /\ is_final' = FinalStep(sample_offset + Second)
      /\ sample_offset' = IF is_final' \/ sample_offset + Second > speech_len
                          THEN speech_len ELSE sample_offset + Second
      /\ heard' \in heard..sample_offset'
      /\ speech_len' = speech_len /\ batch_size' = batch_size /\ open' = open /\ last' = last
      /\ vad_segments' = vad_segments /\ spoken' = spoken
      /\ pairing' = pairing /\ paired' = paired
      /\ index_vector' = index_vector /\ frame_queue' = frame_queue
      /\ msgs' = msgs /\ msg_idx' = msg_idx /\ batch' = batch
  BY DEF Infer, inputVars, pairVars, textVars
<1>2. /\ speech_len \in Nat /\ sample_offset \in Nat /\ Second \in Nat /\ heard \in Nat
      /\ Second > 0
  BY Typed, TimeAssumption
<1>3. /\ is_final' \in BOOLEAN /\ sample_offset' \in 0..speech_len
      /\ is_final' <=> sample_offset' = speech_len
  <2>1. is_final' <=> sample_offset + Second >= speech_len - 1
    BY <1>1 DEF FinalStep
  <2>2. CASE is_final'
    BY <1>1, <1>2, <2>2 DEF FinalStep
  <2>3. CASE ~is_final'
    <3>1. sample_offset + Second < speech_len - 1
      BY <1>2, <2>1, <2>3
    <3> QED BY <1>1, <1>2, <2>3, <3>1 DEF FinalStep
  <2> QED BY <2>2, <2>3
<1>4. heard' \in Nat
  BY <1>1, <1>2, <1>3
<1>5. InSeqs'
  BY <1>1 DEF IndInv, InSeqs
<1>6. TypeOK'
  <2>1. /\ speech_len \in Lengths /\ batch_size \in BatchSizes
        /\ open \in Nat \cup {-1} /\ last \in Nat
        /\ vad_segments \in Seq(Int \X Int) /\ paired \in 0..Len(vad_segments)
        /\ index_vector \in Seq(DOMAIN msgs) /\ msg_idx \in 1..Len(msgs) + 1
    BY DEF IndInv, TypeOK
  <2> QED BY <1>1, <1>3, <1>4, <1>5, <2>1, TypeOfParts
<1>7. Cut'
  BY <1>1, CutKept DEF IndInv
<1>8. VadHearsAll' /\ Placed'
  BY <1>1, <1>3 DEF VadHearsAll, Placed
<1> QED BY <1>5, <1>6, <1>7, <1>8 DEF IndInv

\* What an entry of the times s and e says of the segment left open and of those spoken.
SaysThat(s, e) ==
    \/ spoken' = spoken /\ open = -1 /\ s \in Nat /\ e = -1 /\ open' = s
    \/ \E piece \in Pieces :
          /\ spoken' = Append(spoken, piece) /\ open' = -1 /\ e \in Nat
          /\ \/ s = -1 /\ open \in Nat /\ piece = Frame(open, e)
             \/ s \in Nat /\ open = -1 /\ piece = Frame(s, e)
EntryComes(s, e) == vad_segments' = Append(vad_segments, <<s, e>>) /\ SaysThat(s, e)

\* One more entry, and the count of the segments that end in it.
LEMMA OneMoreEntry ==
    ASSUME IndInv, NEW s \in Int, NEW e \in Int, NEW f \in [Nat -> Nat],
           Counts(f), Paired(f), paired = 0, open = LeftOpen(Len(vad_segments)),
           pairing' = pairing, paired' = paired, EntryComes(s, e)
    PROVE  /\ open' = LeftOpen(Len(vad_segments))'
           /\ \E g \in [Nat -> Nat] : Counts(g)' /\ Paired(g)'
<1>0. PICK n \in Nat, m \in Nat : n = Len(vad_segments) /\ m = Len(spoken)
  BY Typed
<1>a. PICK j \in Nat : j = n + 1
  OBVIOUS
<1>1. PICK c \in Nat : c = IF e = -1 THEN m ELSE m + 1
  OBVIOUS
<1>2. \/ spoken' = spoken /\ e = -1 /\ open' = s
      \/ /\ e \in Nat /\ open' = -1
         /\ \E piece \in Pieces : spoken' = Append(spoken, piece)
  BY Zenon DEF EntryComes, SaysThat
<1>3. /\ vad_segments' = Append(vad_segments, <<s, e>>) /\ vad_segments \in Seq(Int \X Int)
      /\ Len(vad_segments') = j /\ vad_segments'[j][1] = s /\ vad_segments'[j][2] = e
      /\ \A k \in 1..n : vad_segments'[k] = vad_segments[k]
  <2>1. <<s, e>> \in Int \X Int /\ <<s, e>>[1] = s /\ <<s, e>>[2] = e
    OBVIOUS
  <2> QED BY <1>0, <1>a, <2>1, Typed DEF EntryComes
<1>4. Len(spoken') = c /\ m <= c /\ \A k \in 1..m : spoken'[k] = spoken[k]
  <2>1. spoken \in Seq(Pieces)
    BY Typed
  <2>2. CASE spoken' = spoken /\ e = -1
    <3>1. c = m
      BY <1>1, <2>2
    <3> QED BY <1>0, <2>2, <3>1
  <2>3. CASE e \in Nat /\ \E piece \in Pieces : spoken' = Append(spoken, piece)
    <3>1. c = m + 1 /\ m <= c
      BY <1>1, <2>3
    <3>2. PICK piece \in Pieces : spoken' = Append(spoken, piece)
      BY <2>3
    <3>3. Len(spoken') = Len(spoken) + 1 /\ \A k \in 1..Len(spoken) : spoken'[k] = spoken[k]
      BY <2>1, <3>2
    <3> QED BY <1>0, <3>1, <3>3
  <2> QED BY <1>2, <2>2, <2>3
<1>5. /\ f[0] = 0 /\ f[n] = m /\ \A k \in 0..n : f[k] \in Nat /\ f[k] <= m
      /\ \A k \in 1..n : EntryTells(f, k)
  BY <1>0 DEF Counts
<1>6. /\ j - 1 = n /\ n \in 0..n /\ 0 \in 0..n
      /\ \A k \in 0..n : k \in Nat /\ k # j
      /\ \A k \in 1..n : k \in 0..n /\ k - 1 \in 0..n
      /\ \A k \in 0..j : k \in 0..n \/ k = j
      /\ \A k \in 1..j : k \in 1..n \/ k = j
  BY <1>a
<1>7. PICK g \in [Nat -> Nat] : g[j] = c /\ \A k \in 0..n : g[k] = f[k]
  <2> DEFINE h == [f EXCEPT ![j] = c]
  <2>1. h \in [Nat -> Nat] /\ h[j] = c /\ \A k \in 0..n : h[k] = f[k]
    BY <1>0, <1>6
  <2> QED BY <2>1
<1>8. ASSUME NEW k \in 0..n PROVE LeftOpen(k)' = LeftOpen(k)
  <2>1. k > 0 => k \in 1..n
    BY <1>0
  <2> QED BY <1>3, <2>1 DEF LeftOpen
<1>9. LeftOpen(n)' = open
  BY <1>0, <1>6, <1>8
<1>10. ASSUME NEW k \in 1..n PROVE EntryTells(g, k)'
  <2>1. EntryTells(f, k)
    BY <1>5
  <2>2. g[k] = f[k] /\ g[k - 1] = f[k - 1] /\ LeftOpen(k - 1)' = LeftOpen(k - 1)
        /\ vad_segments'[k] = vad_segments[k]
    BY <1>3, <1>6, <1>7, <1>8
  <2>3. f[k] = f[k - 1] + 1 => f[k] \in 1..m
    <3>1. f[k] \in Nat /\ f[k - 1] \in Nat /\ f[k] <= m
      BY <1>5, <1>6
    <3> QED BY <3>1
  <2>4. f[k] = f[k - 1] + 1 => spoken'[f[k]] = spoken[f[k]]
    BY <1>4, <2>3
  <2> QED BY <2>1, <2>2, <2>4 DEF EntryTells, Begins, Ends, IsWhole
<1>11. EntryTells(g, j)'
  <2>1. g[j] = c /\ g[j - 1] = m /\ LeftOpen(j - 1)' = open /\ vad_segments'[j][1] = s /\ vad_segments'[j][2] = e
    BY <1>3, <1>5, <1>6, <1>7, <1>9
  <2>2. CASE /\ spoken' = spoken /\ open = -1
             /\ s \in Nat /\ e = -1 /\ open' = s
    <3>1. c = m
      BY <1>1, <2>2
    <3>2. Begins(j)'
      BY <2>1, <2>2 DEF Begins
    <3> QED BY <2>1, <3>1, <3>2 DEF EntryTells
  <2>3. ASSUME NEW piece \in Pieces,
               spoken' = Append(spoken, piece), e \in Nat,
               \/ /\ s = -1 /\ open \in Nat
                  /\ piece = Frame(open, e)
               \/ /\ s \in Nat /\ open = -1
                  /\ piece = Frame(s, e)
        PROVE  EntryTells(g, j)'
    <3>1. c = m + 1
      BY <1>1, <2>3
    <3>2. spoken'[c] = piece
      BY <1>0, <2>3, <3>1, Typed
    <3>3. Ends(j, piece)' \/ IsWhole(j, piece)'
      BY <2>1, <2>3 DEF Ends, IsWhole
    <3>4. Ends(j, spoken[g[j]])' \/ IsWhole(j, spoken[g[j]])'
      BY <2>1, <3>2, <3>3
    <3>5. g[j] = g[j - 1] + 1
      BY <2>1, <3>1
    <3> QED BY <3>4, <3>5 DEF EntryTells
  <2> QED BY <2>2, <2>3 DEF EntryComes, SaysThat
<1>12. Counts(g)'
  <2>1. g[0] = 0 /\ g[Len(vad_segments')] = Len(spoken')
    BY <1>3, <1>4, <1>5, <1>6, <1>7
  <2>2. ASSUME NEW k \in 0..n PROVE g[k] <= c
    <3>1. g[k] \in Nat /\ g[k] <= m
      BY <1>5, <1>7
    <3> QED BY <1>0, <1>1, <1>4, <3>1
  <2>3. \A k \in 0..Len(vad_segments') : g[k] <= Len(spoken')
    <3>1. ASSUME NEW k \in 0..j PROVE g[k] <= c
      <4>1. CASE k = j
        BY <1>7, <4>1
      <4>2. CASE k \in 0..n
        BY <2>2, <4>2
      <4> QED BY <1>6, <4>1, <4>2
    <3> QED BY <1>3, <1>4, <3>1
  <2>4. \A k \in 1..Len(vad_segments') : EntryTells(g, k)'
    BY <1>3, <1>6, <1>10, <1>11
  <2> QED BY <1>7, <2>1, <2>3, <2>4 DEF Counts
<1>13. Paired(g)'
  <2>1. g[0] = 0 /\ f[0] = 0 /\ LeftOpen(0)' = LeftOpen(0)
    BY <1>5, <1>6, <1>7, <1>8
  <2>2. \A k \in 1..0 : FALSE
    OBVIOUS
  <2> QED BY <2>1, <2>2 DEF Paired
<1>14. open' = LeftOpen(Len(vad_segments))'
  <2>1. e \in Nat => e # -1
    OBVIOUS
  <2>2. LeftOpen(j)' = IF e = -1 THEN s ELSE -1
    <3>1. j > 0
      BY <1>a
    <3> QED BY <1>3, <3>1 DEF LeftOpen
  <2>3. open' = LeftOpen(j)'
    <3>1. CASE e = -1
      BY <1>2, <2>1, <2>2, <3>1, Zenon
    <3>2. CASE e # -1
      BY <1>2, <2>1, <2>2, <3>2, Zenon
    <3> QED BY <3>1, <3>2
  <2> QED BY <1>3, <2>3
<1> QED BY <1>7, <1>12, <1>13, <1>14
LEMMA TellsInv ==
    ASSUME IndInv, NEW s \in Int, NEW e \in Int, Tells(<<s, e>>), SaysThat(s, e),
           heard' = heard, last' \in Nat
    PROVE  IndInv'
<1>1. /\ pc = "tell" /\ pc' = pc /\ EntryComes(s, e)
      /\ speech_len' = speech_len /\ batch_size' = batch_size
      /\ sample_offset' = sample_offset /\ is_final' = is_final
      /\ pairing' = pairing /\ paired' = paired
      /\ index_vector' = index_vector /\ frame_queue' = frame_queue
      /\ msgs' = msgs /\ msg_idx' = msg_idx /\ batch' = batch
  BY DEF Tells, EntryComes, inputVars, pairVars, textVars
<1>2. paired = 0
  BY <1>1 DEF IndInv, InSeqs
<1>3. PICK f \in [Nat -> Nat] : Counts(f) /\ Paired(f)
  BY <1>1 DEF IndInv, Cut
<1>4. open = LeftOpen(Len(vad_segments)) /\ msg_idx = 1
  BY <1>1 DEF IndInv, Cut
<1>5. /\ open' = LeftOpen(Len(vad_segments))'
      /\ \E g \in [Nat -> Nat] : Counts(g)' /\ Paired(g)'
  BY <1>1, <1>2, <1>3, <1>4, OneMoreEntry
<1>6. Cut'
  BY <1>1, <1>4, <1>5 DEF Cut
<1>7. spoken' \in Seq(Pieces) /\ open' \in Nat \cup {-1}
  <2>1. spoken \in Seq(Pieces)
    BY Typed
  <2>2. CASE spoken' = spoken /\ s \in Nat /\ open' = s
    BY <2>1, <2>2
  <2>3. CASE \E piece \in Pieces : spoken' = Append(spoken, piece) /\ open' = -1
    BY <2>1, <2>3
  <2> QED BY <2>2, <2>3, Zenon DEF SaysThat
<1>8. vad_segments' \in Seq(Int \X Int) /\ paired' \in 0..Len(vad_segments')
  <2>1. vad_segments \in Seq(Int \X Int) /\ <<s, e>> \in Int \X Int
    BY Typed
  <2>2. vad_segments' \in Seq(Int \X Int)
    BY <1>1, <2>1 DEF EntryComes
  <2>3. Len(vad_segments') \in Nat
    BY <2>2
  <2> QED BY <1>1, <1>2, <2>2, <2>3
<1>9. InSeqs'
  BY <1>1, <1>2, <1>7 DEF IndInv, InSeqs
<1>10. TypeOK'
  BY <1>1, <1>7, <1>8, <1>9, TypeOfParts DEF IndInv, TypeOK
<1>11. VadHearsAll' /\ Placed'
  BY <1>1 DEF IndInv, VadHearsAll, Placed
<1> QED BY <1>6, <1>9, <1>10, <1>11 DEF IndInv

LEMMA TellsBeginInv ==
    ASSUME IndInv, NEW t \in Times, TellsBegin(t)
    PROVE  IndInv'
<1>1. /\ t \in Nat /\ Tells(<<t, -1>>) /\ spoken' = spoken
      /\ open = -1 /\ open' = t /\ heard' = heard /\ last' = last /\ last \in Nat
  BY Typed DEF TellsBegin, Vad!Begin, Times
<1>2. SaysThat(t, -1)
  BY <1>1 DEF SaysThat
<1> QED BY <1>1, <1>2, TellsInv

LEMMA TellsEndInv ==
    ASSUME IndInv, NEW t \in Times, TellsEnd(t)
    PROVE  IndInv'
<1>1. /\ t \in Nat /\ Tells(<<-1, t>>) /\ spoken' = Append(spoken, Frame(open, t))
      /\ open \in Nat /\ open' = -1 /\ heard' = heard /\ last' = t
  BY Typed DEF TellsEnd, Vad!End, Times
<1>2. SaysThat(-1, t)
  <2>1. Frame(open, t) \in Pieces
    BY <1>1, FrameIsPiece
  <2> QED BY <1>1, <2>1 DEF SaysThat
<1> QED BY <1>1, <1>2, TellsInv

LEMMA TellsWholeInv ==
    ASSUME IndInv, NEW s \in Times, NEW t \in Times, TellsWhole(s, t)
    PROVE  IndInv'
<1>1. /\ s \in Nat /\ t \in Nat /\ Tells(<<s, t>>) /\ spoken' = Append(spoken, Frame(s, t))
      /\ open = -1 /\ open' = -1 /\ heard' = heard /\ last' = t
  BY Typed DEF TellsWhole, Vad!Whole, Times
<1>2. SaysThat(s, t)
  <2>1. Frame(s, t) \in Pieces
    BY <1>1, FrameIsPiece
  <2> QED BY <1>1, <2>1 DEF SaysThat
<1> QED BY <1>1, <1>2, TellsInv

-----------------------------------------------------------------------------
(* The pieces are put together and sorted.                                   *)

LEMMA PairNextInv == ASSUME IndInv, PairNext PROVE IndInv'
<1>1. /\ pc \in {"tell", "pair"} /\ sample_offset = speech_len
      /\ paired < Len(vad_segments)
      /\ pc' = "pair" /\ paired' = paired + 1
      /\ pairing' = Pair(pairing, vad_segments[paired + 1])
      /\ speech_len' = speech_len /\ batch_size' = batch_size
      /\ sample_offset' = sample_offset /\ is_final' = is_final
      /\ heard' = heard /\ open' = open /\ last' = last
      /\ vad_segments' = vad_segments /\ spoken' = spoken
      /\ index_vector' = index_vector /\ frame_queue' = frame_queue
      /\ msgs' = msgs /\ msg_idx' = msg_idx /\ batch' = batch
  BY DEF PairNext, inputVars, cutVars, vadVars, textVars
<1>2. PICK f \in [Nat -> Nat] : Counts(f) /\ Paired(f)
  BY <1>1 DEF IndInv, Cut
<1>3. PICK q \in Nat : q = paired
  BY Typed
<1>4. PICK k \in Nat : k = q + 1
  OBVIOUS
<1>5. k \in 1..Len(vad_segments) /\ k - 1 = q /\ k > 0
  BY <1>1, <1>3, <1>4, Typed
<1>6. /\ EntryTells(f, k) /\ f[k] \in Nat /\ f[q] \in Nat
      /\ f[k] <= Len(spoken)
  <2>1. k \in 0..Len(vad_segments)
    BY <1>5, Typed
  <2> QED BY <1>2, <1>5, <2>1 DEF Counts
<1>7. PICK s \in Int, e \in Int :
        vad_segments[k] = <<s, e>> /\ vad_segments[k][1] = s /\ vad_segments[k][2] = e
  <2>1. vad_segments[k] \in Int \X Int
    BY <1>5, Typed, ElementOfSeq
  <2> QED BY <2>1
<1>8. PICK v \in Seq(Pieces) :
        /\ v = pairing.vad_frames /\ Len(v) = f[q] /\ \A a \in 1..f[q] : v[a] = spoken[a]
  BY <1>2, <1>3 DEF IndInv, InSeqs, Paired
<1>9. /\ pairing = [start_i |-> LeftOpen(q), end_i |-> -1, vad_frames |-> v]
  BY <1>2, <1>3, <1>8 DEF IndInv, InSeqs, Paired
<1>10. PICK l \in Nat \cup {-1} : l = LeftOpen(q) /\ pairing.start_i = l
  BY <1>2, <1>3 DEF IndInv, InSeqs, Paired
<1>11. LeftOpen(k) = IF e = -1 THEN s ELSE -1
  BY <1>5, <1>7 DEF LeftOpen
<1>12. pairing' = Pair([start_i |-> l, end_i |-> -1, vad_frames |-> v], <<s, e>>)
  BY <1>1, <1>3, <1>4, <1>7, <1>9, <1>10
<1>13. /\ pairing' \in [start_i : Nat \cup {-1}, end_i : Nat \cup {-1}, vad_frames : Seq(Pieces)]
       /\ pairing'.start_i = LeftOpen(k) /\ pairing'.end_i = -1
       /\ Len(pairing'.vad_frames) = f[k]
       /\ \A a \in 1..f[k] : pairing'.vad_frames[a] = spoken[a]
  <2>1. CASE f[k] = f[k - 1] /\ Begins(k)
    <3>1. s \in Nat /\ e = -1 /\ l = -1 /\ f[k] = f[q]
      BY <1>5, <1>7, <1>10, <2>1 DEF Begins
    <3>2. pairing' = [start_i |-> s, end_i |-> -1, vad_frames |-> v]
      BY <1>12, <3>1 DEF Pair
    <3> QED BY <1>8, <1>11, <3>1, <3>2
  <2>2. CASE f[k] = f[k - 1] + 1 /\ (Ends(k, spoken[f[k]]) \/ IsWhole(k, spoken[f[k]]))
    <3>1. PICK b \in Nat : e \in Nat /\ spoken[f[k]] = Frame(b, e) /\ f[k] = f[q] + 1
                           /\ (s = b \/ (s = -1 /\ l = b))
                           /\ (s = -1 \/ l = -1)
      <4>1. e \in Nat /\ f[k] = f[q] + 1
        <5>1. f[k] = f[q] + 1
          BY <1>5, <2>2
        <5>2. vad_segments[k][2] \in Nat
          BY <2>2 DEF Ends, IsWhole
        <5> QED BY <1>7, <5>1, <5>2
      <4>2. CASE Ends(k, spoken[f[k]])
        <5>1. s = -1 /\ l \in Nat /\ spoken[f[k]] = Frame(l, e)
          BY <1>5, <1>7, <1>10, <4>2 DEF Ends
        <5> QED BY <4>1, <5>1
      <4>3. CASE IsWhole(k, spoken[f[k]])
        <5>1. s \in Nat /\ l = -1 /\ spoken[f[k]] = Frame(s, e)
          BY <1>5, <1>7, <1>10, <4>3 DEF IsWhole
        <5> QED BY <4>1, <5>1
      <4> QED BY <2>2, <4>2, <4>3
    <3>2. b # -1 /\ e # -1 /\ Frame(b, e) \in Pieces
      <4>1. e \in Nat
        BY <3>1
      <4>2. Frame(b, e) \in Pieces
        BY <4>1, FrameIsPiece
      <4>3. b # -1 /\ e # -1
        BY <4>1
      <4> QED BY <4>2, <4>3
    <3>3. pairing' = [start_i |-> -1, end_i |-> -1, vad_frames |-> Append(v, Frame(b, e))]
      BY <1>12, <3>1, <3>2 DEF Pair, Pairing
    <3> DEFINE w == Append(v, Frame(b, e))
    <3>4. /\ w \in Seq(Pieces) /\ Len(w) = f[k] /\ w[f[k]] = Frame(b, e)
          /\ \A a \in 1..f[q] : w[a] = v[a]
      <4>1. Frame(b, e) \in Pieces /\ v \in Seq(Pieces) /\ f[k] = Len(v) + 1 /\ Len(v) = f[q]
        BY <1>8, <3>1, <3>2
      <4>2. PICK x \in Pieces : x = Frame(b, e)
        BY <4>1
      <4>3. w = Append(v, x)
        BY <4>2
      <4> HIDE DEF w
      <4>4. w \in Seq(Pieces) /\ Len(w) = Len(v) + 1 /\ w[Len(v) + 1] = x
        BY <4>3
      <4>5. \A a \in 1..Len(v) : w[a] = v[a]
        BY <4>3
      <4> QED BY <4>1, <4>2, <4>4, <4>5
    <3>5. pairing' = [start_i |-> -1, end_i |-> -1, vad_frames |-> w]
      BY <3>3
    <3> HIDE DEF w
    <3>6. \A a \in 1..f[k] : a \in 1..f[q] \/ a = f[k]
      BY <1>6, <3>1
    <3>7. \A a \in 1..f[k] : w[a] = spoken[a]
      BY <1>8, <3>1, <3>4, <3>6
    <3> QED BY <1>11, <3>2, <3>4, <3>5, <3>7
  <2> QED BY <1>6, <2>1, <2>2 DEF EntryTells
<1>14. paired' = k
  BY <1>1, <1>3, <1>4
<1>15. Counts(f)'
  BY <1>1, <1>2, CountsKept
<1>16. Paired(f)'
  <2>1. LeftOpen(paired)' = LeftOpen(k)
    BY <1>1, <1>14 DEF LeftOpen
  <2> QED BY <1>1, <1>13, <1>14, <2>1 DEF Paired
<1>17. Cut'
  <2>1. LeftOpen(Len(vad_segments))' = LeftOpen(Len(vad_segments))
    BY <1>1 DEF LeftOpen
  <2> QED BY <1>1, <1>15, <1>16, <2>1 DEF IndInv, Cut
<1>18. InSeqs'
  BY <1>1, <1>13 DEF IndInv, InSeqs
<1>19. paired' \in 0..Len(vad_segments')
  <2>1. Len(vad_segments) \in Nat
    BY Typed
  <2>2. k \in 0..Len(vad_segments)
    BY <1>5, <2>1
  <2> QED BY <1>1, <1>14, <2>2
<1>20. TypeOK'
  BY <1>1, <1>18, <1>19, TypeOfParts DEF IndInv, TypeOK
<1>21. VadHearsAll' /\ Placed'
  BY <1>1 DEF VadHearsAll, Placed
<1> QED BY <1>17, <1>18, <1>20, <1>21 DEF IndInv
LEMMA SortInv == ASSUME IndInv, Sort PROVE IndInv'
<1> DEFINE frames == pairing.vad_frames
<1>1. /\ pc \in {"tell", "pair"} /\ paired = Len(vad_segments) /\ pc' = "fetch"
      /\ speech_len' = speech_len /\ batch_size' = batch_size
      /\ sample_offset' = sample_offset /\ is_final' = is_final
      /\ heard' = heard /\ open' = open /\ last' = last
      /\ vad_segments' = vad_segments /\ spoken' = spoken
      /\ pairing' = pairing /\ paired' = paired
      /\ msg_idx' = msg_idx /\ batch' = batch
  BY DEF Sort, inputVars, cutVars, vadVars, pairVars
<1>2. PICK p \in Sorted(frames) :
        /\ index_vector' = p
        /\ frame_queue' = [k \in DOMAIN p |-> frames[p[k]]]
        /\ msgs' = [k \in DOMAIN p |-> NoText]
  BY DEF Sort
<1>3. PICK n \in Nat : n = Len(spoken)
  BY Typed
<1>4. PICK f \in [Nat -> Nat] : Counts(f) /\ Paired(f)
  BY <1>1 DEF IndInv, Cut
<1>5. /\ frames \in Seq(Pieces) /\ Len(frames) = n
      /\ \A k \in 1..n : frames[k] = spoken[k]
  BY <1>1, <1>3, <1>4 DEF IndInv, InSeqs, Paired, Counts
<1>6. DOMAIN frames = 1..n /\ \A k \in 1..n : frames[k] \in Pieces
  BY <1>5, LenProperties, ElementOfSeq
<1> HIDE DEF frames
<1>7. p \in [1..n -> 1..n] /\ \A a, b \in 1..n : a # b => p[a] # p[b]
  <2>1. Cardinality(1..n) = n
    <3>1. 1 \in Int /\ n \in Int /\ n - 1 + 1 = n /\ (1 > n => n = 0)
      OBVIOUS
    <3> QED BY <3>1, FS_Interval
  <2>2. p \in SetToSeqs(1..n)
    BY <1>2, <1>6 DEF Sorted
  <2> QED BY <2>1, <2>2 DEF SetToSeqs
<1>8. Permutes(p, n)
  BY <1>7, OneToOnePermutes
<1>9. DOMAIN p = 1..n
  BY <1>7
<1>10. frame_queue' \in Seq(Pieces) /\ Len(frame_queue') = n
       /\ \A k \in 1..n : frame_queue'[k] = spoken[p[k]]
  <2>1. frame_queue' = [k \in 1..n |-> frames[p[k]]]
    BY <1>2, <1>9
  <2>2. frame_queue' \in [1..n -> Pieces]
    BY <1>6, <1>7, <2>1
  <2>3. frame_queue' \in Seq(Pieces) /\ Len(frame_queue') = n
    BY <2>2, FunctionIsSeq
  <2> QED BY <1>5, <1>7, <2>1, <2>3
<1>11. msgs' \in Seq(Pieces) /\ Len(msgs') = n /\ DOMAIN msgs' = 1..n
  <2>1. NoText \in Pieces
    BY FrameIsPiece DEF NoText
  <2>2. msgs' \in [1..n -> Pieces]
    BY <1>2, <1>9, <2>1
  <2> QED BY <2>2, FunctionIsSeq
<1>12. msg_idx = 1
  BY <1>1 DEF IndInv, Cut
<1>13. Placed'
  <2>1. msg_idx' - 1 + Len(frame_queue') = Len(spoken')
    BY <1>1, <1>3, <1>10, <1>12
  <2>2. 1..msg_idx' - 1 = {} /\ \A k \in 1..n : msg_idx' - 1 + k = k
    BY <1>1, <1>12
  <2>3. \A k \in 1..Len(frame_queue') :
           frame_queue'[k] = spoken'[index_vector'[msg_idx' - 1 + k]]
    BY <1>1, <1>2, <1>10, <2>2
  <2> QED BY <1>1, <1>2, <1>3, <1>8, <1>11, <2>1, <2>2, <2>3 DEF Placed
<1>14. InSeqs'
  BY <1>1, <1>10, <1>11 DEF IndInv, InSeqs
<1>15. TypeOK'
  <2>1. index_vector' \in Seq(DOMAIN msgs')
    BY <1>2, <1>7, <1>11, FunctionIsSeq
  <2>2. msg_idx' \in 1..Len(msgs') + 1
    BY <1>1, <1>11, <1>12
  <2> QED BY <1>1, <1>14, <2>1, <2>2, TypeOfParts DEF IndInv, TypeOK
<1>16. VadHearsAll' /\ Cut'
  BY <1>1 DEF VadHearsAll, Cut
<1> QED BY <1>13, <1>14, <1>15, <1>16 DEF IndInv

-----------------------------------------------------------------------------
(* The batches.                                                              *)

\* A batch takes no more than is queued, and something unless nothing is: a piece too
\* long to be joined goes alone, and a shorter one fits by itself.
LEMMA BatchTakesSome ==
    ASSUME IndInv
    PROVE  /\ BatchIn \in Nat /\ BatchIn <= Len(frame_queue)
           /\ BatchIn = 0 => frame_queue = <<>>
<1> DEFINE n == Len(frame_queue)
           max_batch == IF batch_size < n THEN batch_size ELSE n
           Joins(k) == IF FrameLen(frame_queue[k]) >= MaxSent THEN k = 1
                       ELSE Fits(k) /\ (k > 1 => FrameLen(frame_queue[k - 1]) < MaxSent)
           S == {k \in 1..max_batch : \A l \in 1..k : Joins(l)}
<1>1. BatchIn = Cardinality(S)
  BY DEF BatchIn
<1>2. n \in Nat /\ batch_size \in Nat /\ batch_size > 0 /\ frame_queue \in Seq(Pieces)
  BY Typed
<1>3. max_batch \in Nat /\ max_batch <= n /\ (n > 0 => max_batch > 0)
  BY <1>2
<1> HIDE DEF max_batch
<1>4. IsFiniteSet(1..max_batch) /\ Cardinality(1..max_batch) = max_batch
  <2>1. 1 \in Int /\ max_batch \in Int /\ max_batch - 1 + 1 = max_batch
        /\ (1 > max_batch => max_batch = 0)
    BY <1>3
  <2> QED BY <2>1, FS_Interval
<1>5. IsFiniteSet(S) /\ Cardinality(S) <= max_batch /\ Cardinality(S) \in Nat
  <2>1. S \in SUBSET (1..max_batch)
    OBVIOUS
  <2> QED BY <1>4, <2>1, FS_Subset, FS_CardinalityType
<1>6. n > 0 => 1 \in S
  <2> SUFFICES ASSUME n > 0 PROVE 1 \in S
    OBVIOUS
  <2>1. PICK x \in Int : x = FrameLen(frame_queue[1])
    <3>1. frame_queue[1] \in Pieces
      BY <1>2, ElementOfSeq
    <3>2. frame_queue[1].to - frame_queue[1].from \in Int
      BY <3>1 DEF Pieces
    <3> QED BY <3>2 DEF FrameLen
  <2>2. ~(x >= MaxSent) => Fits(1)
    <3>1. 1..1 = {1}
      OBVIOUS
    <3>2. {FrameLen(frame_queue[k]) : k \in 1..1} = {x}
      BY <2>1, <3>1
    <3>3. x <= x
      OBVIOUS
    <3>4. Longest(frame_queue, 1) = x
      BY <2>1, <3>1, <3>2, <3>3 DEF Longest
    <3>5. x * 1 = x
      OBVIOUS
    <3> QED BY <3>4, <3>5, BatchAssumption DEF Fits
  <2>3. Joins(1)
    BY <2>1, <2>2
  <2>4. \A l \in 1..1 : Joins(l)
    <3>1. \A l \in 1..1 : l = 1
      OBVIOUS
    <3> QED BY <2>3, <3>1
  <2>5. 1 \in 1..max_batch
    BY <1>3
  <2> QED BY <2>4, <2>5
<1>7. Cardinality(S) = 0 => S = {}
  BY <1>5, FS_EmptySet
<1> HIDE DEF S
<1>8. Cardinality(S) = 0 => n = 0
  BY <1>2, <1>6, <1>7
<1>9. n = 0 => frame_queue = <<>>
  BY <1>2, EmptySeq
<1> QED BY <1>1, <1>2, <1>3, <1>5, <1>8, <1>9
LEMMA FetchInv == ASSUME IndInv, Fetch PROVE IndInv'
<1> DEFINE At(k) == msg_idx + k - 1
<1>1. /\ pc = "fetch" /\ BatchIn > 0 /\ pc' = "fetch"
      /\ batch' = SubSeq(frame_queue, 1, BatchIn)
      /\ frame_queue' = SubSeq(frame_queue, BatchIn + 1, Len(frame_queue))
      /\ msgs' = [a \in DOMAIN msgs |->
                    IF \E k \in DOMAIN batch' : index_vector[At(k)] = a
                    THEN batch'[CHOOSE k \in DOMAIN batch' : index_vector[At(k)] = a]
                    ELSE msgs[a]]
      /\ msg_idx' = msg_idx + BatchIn
      /\ speech_len' = speech_len /\ batch_size' = batch_size
      /\ sample_offset' = sample_offset /\ is_final' = is_final
      /\ heard' = heard /\ open' = open /\ last' = last
      /\ vad_segments' = vad_segments /\ spoken' = spoken
      /\ pairing' = pairing /\ paired' = paired /\ index_vector' = index_vector
  BY DEF Fetch, Place, inputVars, cutVars, vadVars, pairVars
<1>2. PICK b \in Nat, m \in Nat, n \in Nat, q \in Nat :
        /\ b = BatchIn /\ m = msg_idx /\ n = Len(spoken) /\ q = Len(frame_queue)
        /\ m >= 1 /\ b <= q
  BY Typed, BatchTakesSome
<1>3. b > 0
  BY <1>1, <1>2
<1>4. /\ Permutes(index_vector, n) /\ Len(msgs) = n /\ m - 1 + q = n
      /\ \A k \in 1..q : frame_queue[k] = spoken[index_vector[m - 1 + k]]
      /\ \A k \in 1..m - 1 : msgs[index_vector[k]] = spoken[index_vector[k]]
  BY <1>1, <1>2 DEF IndInv, Placed
<1>5. /\ frame_queue \in Seq(Pieces) /\ Len(frame_queue) = q
      /\ msgs \in Seq(Pieces) /\ DOMAIN msgs = 1..n
      /\ \A a \in 1..n : msgs[a] \in Pieces
  BY <1>2, <1>4, Typed, LenProperties, ElementOfSeq
<1>6. /\ batch' \in Seq(Pieces) /\ DOMAIN batch' = 1..b
      /\ \A k \in 1..b : batch'[k] = frame_queue[k] /\ batch'[k] \in Pieces
  <2>1. batch' = SubSeq(frame_queue, 1, b)
    BY <1>1, <1>2
  <2>2. \A k \in 1..b : k \in 1..q /\ frame_queue[k] \in Pieces
    BY <1>2, <1>5, ElementOfSeq
  <2> QED BY <1>2, <1>3, <1>5, <2>1, <2>2
<1>7. /\ frame_queue' \in Seq(Pieces) /\ Len(frame_queue') = q - b
      /\ \A k \in 1..q - b : frame_queue'[k] = frame_queue[b + k]
  <2>1. frame_queue' = SubSeq(frame_queue, b + 1, q)
    BY <1>1, <1>2
  <2> QED BY <1>2, <1>3, <1>5, <2>1
<1>8. index_vector \in [1..n -> 1..n]
  BY <1>4 DEF Permutes
<1>9. \A k \in 1..b : At(k) = m - 1 + k /\ k \in 1..q /\ m - 1 + k \in 1..n
  BY <1>2, <1>4
<1>10. ASSUME NEW a \in 1..n, NEW k \in 1..b, index_vector[At(k)] = a
       PROVE  msgs'[a] = spoken[a]
  <2> DEFINE c == CHOOSE l \in DOMAIN batch' : index_vector[At(l)] = a
  <2>1. c \in 1..b /\ index_vector[At(c)] = a
    BY <1>6, <1>10
  <2>2. msgs'[a] = batch'[c]
    BY <1>1, <1>5, <1>6, <1>10
  <2> HIDE DEF c
  <2>3. batch'[c] = spoken[index_vector[m - 1 + c]]
    BY <1>4, <1>6, <1>9, <2>1
  <2> QED BY <1>9, <2>1, <2>2, <2>3
<1>11. ASSUME NEW a \in 1..n, \A k \in 1..b : index_vector[At(k)] # a
       PROVE  msgs'[a] = msgs[a]
  BY <1>1, <1>5, <1>6, <1>11
<1>12. msgs' \in Seq(Pieces) /\ Len(msgs') = n /\ DOMAIN msgs' = 1..n
  <2>1. ASSUME NEW a \in 1..n PROVE msgs'[a] \in Pieces
    <3>1. spoken[a] \in Pieces
      BY <1>2, Typed, ElementOfSeq
    <3>2. CASE \E k \in 1..b : index_vector[At(k)] = a
      BY <1>10, <3>1, <3>2
    <3>3. CASE \A k \in 1..b : index_vector[At(k)] # a
      BY <1>5, <1>11, <3>3
    <3> QED BY <3>2, <3>3
  <2>2. msgs' \in [1..n -> Pieces]
    BY <1>1, <1>5, <2>1
  <2> QED BY <2>2, FunctionIsSeq
<1>13. ASSUME NEW j \in 1..m + b - 1
       PROVE  msgs'[index_vector[j]] = spoken[index_vector[j]]
  <2>1. j \in 1..n
    BY <1>2, <1>4
  <2>2. PICK a \in 1..n : a = index_vector[j]
    BY <1>8, <2>1
  <2>3. CASE \E k \in 1..b : index_vector[At(k)] = a
    BY <1>10, <2>2, <2>3
  <2>4. CASE \A k \in 1..b : index_vector[At(k)] # a
    <3>1. ~(j >= m)
      <4> SUFFICES ASSUME j >= m PROVE FALSE
        OBVIOUS
      <4>1. j - m + 1 \in 1..b /\ m - 1 + (j - m + 1) = j
        BY <1>2
      <4> QED BY <1>9, <2>2, <2>4, <4>1
    <3>2. j \in 1..m - 1
      BY <1>2, <3>1
    <3> QED BY <1>4, <1>11, <2>2, <2>4, <3>2
  <2> QED BY <2>3, <2>4
<1>14. Placed'
  <2>1. msg_idx' = m + b /\ msg_idx' - 1 + Len(frame_queue') = n
        /\ msg_idx' - 1 = m + b - 1
    <3>1. m + b - 1 + (q - b) = n
      <4>1. m - 1 + q = n
        BY <1>4
      <4> QED BY <4>1
    <3>2. msg_idx' = m + b
      BY <1>1, <1>2
    <3> QED BY <1>7, <3>1, <3>2
  <2>2. ASSUME NEW k \in 1..q - b
        PROVE  frame_queue'[k] = spoken[index_vector[m + b - 1 + k]]
    <3>1. b + k \in 1..q /\ m - 1 + (b + k) = m + b - 1 + k
      BY <1>2
    <3> QED BY <1>4, <1>7, <3>1
  <2>3. pc' = "fetch" /\ spoken' = spoken /\ index_vector' = index_vector
        /\ Len(spoken) = n /\ Len(frame_queue') = q - b
    BY <1>1, <1>2, <1>7
  <2>4. \A k \in 1..Len(frame_queue') :
           frame_queue'[k] = spoken'[index_vector'[msg_idx' - 1 + k]]
    BY <2>1, <2>2, <2>3
  <2>5. \A k \in 1..msg_idx' - 1 : msgs'[index_vector'[k]] = spoken'[index_vector'[k]]
    BY <1>13, <2>1, <2>3
  <2>6. Permutes(index_vector', Len(spoken')) /\ Len(msgs') = Len(spoken')
        /\ msg_idx' - 1 + Len(frame_queue') = Len(spoken')
    BY <1>4, <1>12, <2>1, <2>3
  <2> QED BY <2>3, <2>4, <2>5, <2>6 DEF Placed
<1>15. InSeqs'
  BY <1>1, <1>6, <1>7, <1>12 DEF IndInv, InSeqs
<1>16. TypeOK'
  <2>1. index_vector' \in Seq(DOMAIN msgs')
    BY <1>1, <1>8, <1>12, FunctionIsSeq
  <2>2. msg_idx' \in 1..Len(msgs') + 1
    BY <1>1, <1>2, <1>4, <1>12
  <2> QED BY <1>1, <1>15, <2>1, <2>2, TypeOfParts DEF IndInv, TypeOK
<1>17. VadHearsAll' /\ Cut'
  BY <1>1 DEF VadHearsAll, Cut
<1> QED BY <1>14, <1>15, <1>16, <1>17 DEF IndInv

LEMMA FinishInv == ASSUME IndInv, Finish PROVE IndInv'
<1>1. /\ pc = "fetch" /\ BatchIn = 0 /\ pc' = "done"
      /\ speech_len' = speech_len /\ batch_size' = batch_size
      /\ sample_offset' = sample_offset /\ is_final' = is_final
      /\ heard' = heard /\ open' = open /\ last' = last
      /\ vad_segments' = vad_segments /\ spoken' = spoken
      /\ pairing' = pairing /\ paired' = paired
      /\ index_vector' = index_vector /\ frame_queue' = frame_queue
      /\ msgs' = msgs /\ msg_idx' = msg_idx /\ batch' = batch
  BY DEF Finish, inputVars, cutVars, vadVars, pairVars, textVars
<1>2. frame_queue = <<>>
  BY <1>1, BatchTakesSome
<1>3. Placed'
  BY <1>1, <1>2 DEF IndInv, Placed
<1>4. InSeqs'
  BY <1>1 DEF IndInv, InSeqs
<1>5. TypeOK'
  BY <1>1, <1>4, TypeOfParts DEF IndInv, TypeOK
<1>6. VadHearsAll' /\ Cut'
  BY <1>1 DEF VadHearsAll, Cut
<1> QED BY <1>3, <1>4, <1>5, <1>6 DEF IndInv

-----------------------------------------------------------------------------
LEMMA NextInv == ASSUME IndInv, [Next]_vars PROVE IndInv'
<1>1. CASE UNCHANGED vars
  <2>1. /\ pc' = pc /\ speech_len' = speech_len /\ batch_size' = batch_size
        /\ sample_offset' = sample_offset /\ is_final' = is_final
        /\ heard' = heard /\ open' = open /\ last' = last
        /\ vad_segments' = vad_segments /\ spoken' = spoken
        /\ pairing' = pairing /\ paired' = paired
        /\ index_vector' = index_vector /\ frame_queue' = frame_queue
        /\ msgs' = msgs /\ msg_idx' = msg_idx /\ batch' = batch
    BY <1>1 DEF vars, inputVars, cutVars, vadVars, pairVars, textVars
  <2>2. InSeqs' /\ VadHearsAll' /\ Placed'
    BY <2>1 DEF IndInv, InSeqs, VadHearsAll, Placed
  <2>3. TypeOK'
    BY <2>1 DEF IndInv, TypeOK, IsFrames
  <2>4. Cut'
    <3>1. CASE pc \in {"vad", "tell", "pair"}
      BY <2>1, <3>1, CutKept DEF IndInv
    <3>2. CASE pc \notin {"vad", "tell", "pair"}
      BY <2>1, <3>2 DEF Cut
    <3> QED BY <3>1, <3>2
  <2> QED BY <2>2, <2>3, <2>4 DEF IndInv
<1> QED BY <1>1, InferInv, PairNextInv, SortInv, FetchInv, FinishInv, TellsBeginInv,
           TellsEndInv, TellsWholeInv DEF Next

\* The inductive invariant: the entries told so far tell the segments that were meant, what
\* was put together of them is a beginning of these, and what was sorted and decoded is
\* where index_vector says.
THEOREM Invariance == Spec => []IndInv
<1>1. IndInv /\ [Next]_vars => IndInv'
  BY NextInv
<1> QED BY InitInv, <1>1, PTL DEF Spec

\* Type correctness; in particular every piece that is cut has a beginning and an end.
THEOREM TypeCorrect == Spec => []TypeOK
<1>1. IndInv => TypeOK
  BY DEF IndInv
<1> QED BY Invariance, <1>1, PTL

\* The step that reaches the last sample, and no other, is told to the VAD as the last,
\* whatever the length of the audio (audio.cpp:1187).
THEOREM HearsAll == Spec => []VadHearsAll
<1>1. IndInv => VadHearsAll
  BY DEF IndInv
<1> QED BY Invariance, <1>1, PTL

\* At the end the texts are those of the segments the VAD meant, in the order of time,
\* whichever order std::sort and whichever batches FetchDynamic chose.
THEOREM TextsInOrder == Spec => []TextInOrder
<1>1. ASSUME IndInv, pc = "done" PROVE msgs = spoken
  <2>1. PICK n \in Nat : n = Len(spoken)
    BY <1>1, Typed
  <2>2. /\ Permutes(index_vector, n) /\ Len(msgs) = n /\ msg_idx - 1 = n
        /\ \A k \in 1..n : msgs[index_vector[k]] = spoken[index_vector[k]]
    <3>1. frame_queue = <<>> /\ Len(<<>>) = 0 /\ msg_idx \in Nat
      BY <1>1, Typed DEF IndInv, Placed
    <3>2. /\ Permutes(index_vector, n) /\ Len(msgs) = n /\ msg_idx - 1 + Len(frame_queue) = n
          /\ \A k \in 1..msg_idx - 1 : msgs[index_vector[k]] = spoken[index_vector[k]]
      BY <1>1, <2>1 DEF IndInv, Placed
    <3>3. msg_idx - 1 = n
      BY <3>1, <3>2
    <3> QED BY <3>2, <3>3
  <2>3. \A a \in 1..n : msgs[a] = spoken[a]
    BY <2>2 DEF Permutes
  <2>4. msgs \in [1..n -> Pieces] /\ spoken \in [1..n -> Pieces]
    BY <1>1, <2>1, <2>2, Typed, LenProperties
  <2> QED BY <2>3, <2>4
<1>2. IndInv => TextInOrder
  BY <1>1 DEF TextInOrder
<1> QED BY Invariance, <1>2, PTL
=============================================================================
