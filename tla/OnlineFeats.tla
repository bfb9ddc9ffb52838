------------------------------ MODULE OnlineFeats ------------------------------
(***************************************************************************)
(* What the two streaming models make of their audio, call after call:      *)
(* FbankKaldi, ExtractFeats and OnlineLfrCmvn, which fsmn-vad-online.cpp    *)
(* and paraformer-online.cpp of src/onnxruntime/src share word for word,    *)
(* and behind them FsmnVadOnline::Infer up to the call of the detector, and *)
(* ParaformerOnline::Forward with its chunks and caches.                    *)
(*                                                                          *)
(* A frame is the sample it starts at.  An LFR frame is the sequence of the *)
(* frames it joins.  A chunk is a sequence of LFR frames, each the number   *)
(* it has in its utterance, or Zero.                                        *)
(***************************************************************************)
EXTENDS Integers, Sequences, FiniteSets

CONSTANTS
    FrameLen, FrameShift,   \* frame_sample_length_, frame_shift_sample_length_
    VadM, VadN, AsrM, AsrN, \* lfr_m and lfr_n of the two models
    Pre, Body, Suf,         \* chunk_size of the recogniser
    Short,                  \* a last piece below this is not analysed (16 * 60)
    Blocks, LastBlocks,     \* samples of a call of the VAD, and of a last one
    Pieces, Rests,          \* the same of the recogniser
    MaxVad, MaxAsr,         \* bounds: samples of an utterance
    MaxStreams              \* bound: utterances

ASSUME FrameAssumption ==
    FrameShift \in Nat \ {0} /\ FrameLen \in Nat /\ FrameShift <= FrameLen
ASSUME LfrAssumption ==
    /\ VadM \in Nat \ {0, 1} /\ VadN = 1 /\ AsrM \in Nat \ {0, 1} /\ AsrN \in 1..AsrM - 1
ASSUME ChunkAssumption ==
    /\ Pre \in Nat /\ Body \in Nat /\ Suf \in Nat /\ Suf <= Body
    /\ Short \in Nat /\ FrameLen <= Short
    /\ Blocks \cup LastBlocks \cup Pieces \cup Rests \subseteq Nat

\* The sample at which a frame begins.
At(frame) == frame * FrameShift
\* Audio::Split cuts pieces that give a first call one LFR frame at least.
Enough(n, m) == n >= FrameLen + At(m - (m - 1) \div 2 - 1)
ASSUME PieceAssumption ==
    /\ \A n \in Blocks : Enough(n, VadM)
    /\ \A n \in Pieces : Enough(n, AsrM) /\ n = At(Body * AsrN)
\* A frame is no longer than the padding, and LFR frames overlap by no more than
\* what a frame reaches over: so a piece gives as many of them as it is long, from
\* the first one on.  What is left of an utterance fits into two chunks.
ASSUME FitAssumption ==
    /\ FrameLen <= At((AsrM - 1) \div 2)
    /\ AsrM - (AsrM - 1) \div 2 + (FrameLen - 1) \div FrameShift <= AsrN
    /\ \A n \in Rests : n <= At((2 * Body - Suf) * AsrN)
ASSUME VadFitAssumption == VadM % 2 = 1 /\ FrameLen <= At(3)

VARIABLES
    reader,      \* the model: "vad" or "asr"
    fe,          \* the caches of ExtractFeats
    is_first_chunk, feats_cache, start_idx, \* the recogniser
    cif, decoder_onnx,   \* what its caches hold: fresh, used or broken
    scored,      \* the detector is within a stream
    call,        \* the last call: its LFR frames and what became of them
    samples, frames, outs, bodies, \* ghosts: sums over the utterance
    surplus,     \* ghost: audio the detector got beyond what its frames cover
    missed, failed, \* ghosts: the network failed on an utterance's first call; at last
    streams

asrVars == <<is_first_chunk, feats_cache, start_idx, cif, decoder_onnx>>
vadVars == <<scored, surplus, missed, failed>>
vars == <<reader, fe, asrVars, vadVars, call, samples, frames, outs, bodies, streams>>

Zero == 0
Zeros == [k \in 1..Pre + Suf |-> Zero]
Lesser(a, b) == IF a < b THEN a ELSE b
LastOf(s, n) == SubSeq(s, Len(s) - n + 1, Len(s))

M == IF reader = "vad" THEN VadM ELSE AsrM
N == IF reader = "vad" THEN VadN ELSE AsrN
Pad == (M - 1) \div 2
\* The frame at which an LFR frame begins.
Row(i) == i * N

\* ResetCache: input_cache_ and reserve_waveforms_ as lengths.
NoCache == [input |-> 0, reserve |-> 0, splice |-> <<>>]

NoCall == [final |-> TRUE, n |-> 0, feats |-> <<>>, raw |-> FALSE, body |-> <<>>]

Init ==
    /\ reader \in {"vad", "asr"} /\ fe = NoCache
    /\ is_first_chunk = TRUE /\ feats_cache = Zeros /\ start_idx = 0
    /\ cif = "fresh" /\ decoder_onnx = "fresh" /\ scored = FALSE
    /\ call = NoCall /\ streams = 0
    /\ samples = 0 /\ frames = 0 /\ outs = 0 /\ bodies = 0
    /\ surplus = 0 /\ missed = FALSE /\ failed = FALSE

-----------------------------------------------------------------------------
(* The features of one call.                                                 *)

ComputeFrameNum(len) ==
    IF len < FrameLen THEN 0 ELSE (len - FrameLen) \div FrameShift + 1

\* FbankKaldi on n more samples after the before samples of the utterance.
Fbank(before, n) ==
    LET total == fe.input + n
        count == ComputeFrameNum(total)
    IN  [frames |-> [i \in 1..count |-> before - fe.input + At(i - 1)],
         waves  |-> IF count = 0 THEN total ELSE At(count - 1) + FrameLen,
         input  |-> total - At(count)]

\* Variant: the next call begins behind the frames that could not be joined yet.
SpliceAll(count, ready) == count

\* The LFR frame at which the next call begins.
SpliceAt(count, ready) == ready

\* T_lrf, and how many of these find all their frames.
LfrCount(T) == (T - Pad + N - 1) \div N
Ready(T) == Cardinality({i \in 0..LfrCount(T) - 1 : M <= T - Row(i)})

\* OnlineLfrCmvn: every N frames M are joined.  The last call fills what lacks
\* with the last frame, the others leave it to the next.
OnlineLfr(all, final) ==
    LET T == Len(all)
        count == IF final THEN LfrCount(T) ELSE Ready(T)
        idx == Lesser(T - 1, Row(IF final THEN count ELSE SpliceAt(LfrCount(T), count)))
    IN  [feats |-> [i \in 1..count |-> [j \in 1..M |-> all[Lesser(T, Row(i - 1) + j)]]],
         splice |-> SubSeq(all, idx + 1, T),
         idx |-> idx]

\* Variant: what the padding took is taken from the audio as well.
ReserveFromBehind(idx, first) == idx + (IF first THEN Pad ELSE 0)

\* reserve_frame_idx: the padding of the first call is no audio.
ReserveFrom(idx, first) ==
    LET d == idx - (IF first THEN Pad ELSE 0) IN IF d < 0 THEN -d ELSE d

\* The first frame of a stream is put before it; later the frames of the last call.
Joined(new) ==
    (IF fe.splice = <<>> /\ new # <<>> THEN [i \in 1..Pad |-> new[1]] ELSE fe.splice) \o new

\* ExtractFeats: the LFR frames, the audio that goes with them, and the caches.
\* Frames that are too few for one LFR frame are returned as they are.
ExtractFeats(before, n, final) ==
    LET k == Fbank(before, n)
        F == Len(k.frames)
        waves == k.waves + fe.reserve
        all == Joined(k.frames)
        lfr == OnlineLfr(all, final)
        count == (waves - FrameLen) \div FrameShift + 1
        Result(feats, raw, len, reserve, splice) ==
            [count |-> F, feats |-> feats, raw |-> raw, waves |-> len,
             fe |-> IF final THEN NoCache
                    ELSE [input |-> k.input, reserve |-> reserve, splice |-> splice]]
    IN  IF F > 0 /\ Len(all) >= M
        THEN Result(lfr.feats, FALSE, At(count - 1) + FrameLen,
                    At(count - ReserveFrom(lfr.idx, fe.reserve = 0)), lfr.splice)
        ELSE IF F > 0
        THEN Result([i \in 1..F |-> <<k.frames[i]>>], TRUE, waves,
                    waves - (FrameLen - FrameShift), all)
        ELSE IF final /\ fe.splice # <<>>
        THEN Result(lfr.feats, FALSE, IF fe.reserve > 0 THEN fe.reserve ELSE k.waves,
                    0, <<>>)
        ELSE Result(<<>>, FALSE, k.waves, fe.reserve, fe.splice)

\* The sums of the utterance, which begins after a final call.
Was(sum) == IF call.final THEN 0 ELSE sum

\* One call with n samples; what is done with the features is up to the reader.
Called(n, final, x, body) ==
    /\ Was(samples) + n <= (IF reader = "vad" THEN MaxVad ELSE MaxAsr) /\ streams < MaxStreams
    /\ samples' = Was(samples) + n
    /\ frames' = Was(frames) + x.count
    /\ outs' = Was(outs) + (IF x.raw THEN 0 ELSE Len(x.feats))
    /\ bodies' = Was(bodies) + Len(body)
    /\ call' = [final |-> final, n |-> n, feats |-> x.feats, raw |-> x.raw, body |-> body]
    /\ fe' = x.fe /\ streams' = streams + (IF final THEN 1 ELSE 0)
    /\ UNCHANGED reader

-----------------------------------------------------------------------------
(* FsmnVadOnline.                                                            *)

\* The detector's stream goes on until it is told of an end.
Heard == IF scored THEN surplus ELSE 0

\* The network takes LFR frames only, and may fail on them: ran is whether it did
\* not.  Without scores the detector is not called, and is told of no end.
Infer(n, final, ran) ==
    LET x == ExtractFeats(Was(samples), n, final)
        runs == x.feats # <<>> /\ ~x.raw
        scores == runs /\ ran
    IN  /\ reader = "vad" /\ Called(n, final, x, <<>>)
        /\ scored' = IF scores THEN ~final ELSE scored
        /\ surplus' = IF scores
                      THEN Heard + x.waves - (At(Len(x.feats) - 1) + FrameLen)
                      ELSE Heard
        /\ missed' = IF call.final THEN runs /\ ~ran ELSE missed
        /\ failed' = IF runs THEN ~ran ELSE failed
        /\ UNCHANGED asrVars

-----------------------------------------------------------------------------
(* ParaformerOnline.                                                         *)

\* CifSearch takes nothing from what lies before the body of a chunk or after it.
\* The body of the first chunk begins with the zeros of InitCache.
BodyOf(chunk) ==
    LET body == SubSeq(chunk, Pre + 1, Lesser(Len(chunk), Pre + Body))
        zeros == {k \in DOMAIN body : body[k] = Zero}
    IN  SubSeq(body, Cardinality(zeros) + 1, Len(body))

\* Variant: only the caches of ExtractFeats are emptied.
ResetCacheOnly ==
    /\ is_first_chunk' = TRUE
    /\ UNCHANGED <<feats_cache, start_idx, cif, decoder_onnx>>

\* InitCache.
Reset ==
    /\ is_first_chunk' = TRUE /\ feats_cache' = Zeros /\ start_idx' = 0
    /\ cif' = "fresh" /\ decoder_onnx' = "fresh"

\* The encoder fails; or the chunk is too quiet for a token; or the decoder runs;
\* or it fails, and leaves its inputs in decoder_onnx, where the next run finds
\* too many.
ForwardChunk ==
    \/ UNCHANGED <<cif, decoder_onnx>>
    \/ /\ cif' = "used"
       /\ \/ decoder_onnx' = decoder_onnx
          \/ decoder_onnx # "broken" /\ decoder_onnx' = "used"
          \/ decoder_onnx' = "broken"

\* A short last piece: what the chunks still hold is all there is to recognise.
ForwardShort(n) ==
    /\ reader = "asr" /\ n < Short /\ ~is_first_chunk
    /\ Called(n, TRUE, [count |-> 0, feats |-> <<>>, raw |-> FALSE, fe |-> NoCache],
              BodyOf(feats_cache))
    /\ Reset
    /\ UNCHANGED vadVars

\* The numbers of the LFR frames of this call.
Numbers(x) == [k \in DOMAIN x.feats |-> Was(outs) + k]

\* A last piece that gives no feature: Forward returns and resets nothing.
ForwardNothing(n) ==
    LET x == ExtractFeats(Was(samples), n, TRUE)
    IN  /\ reader = "asr" /\ ~(n < Short /\ ~is_first_chunk)
        /\ x.feats = <<>> /\ Called(n, TRUE, x, <<>>)
        /\ is_first_chunk' = FALSE
        /\ UNCHANGED <<feats_cache, start_idx, cif, decoder_onnx, vadVars>>

\* Variant: the look-ahead is not kept for the next chunk.
OverlapLeft(chunk) == LastOf(chunk, Pre) \o [k \in 1..Suf |-> Zero]

\* Variant: only the look-back is kept.
OverlapShort(chunk) == LastOf(chunk, Pre)

\* AddOverlapChunk: what the next chunk begins with.
Overlap(chunk) == LastOf(chunk, Pre + Suf)

\* A piece in the middle of an utterance makes one chunk.
ForwardPiece(n) ==
    LET x == ExtractFeats(Was(samples), n, FALSE)
        chunk == feats_cache \o Numbers(x)
    IN  /\ reader = "asr" /\ x.feats # <<>> /\ Called(n, FALSE, x, BodyOf(chunk))
        /\ is_first_chunk' = FALSE
        /\ start_idx' = start_idx + Len(x.feats)
        /\ feats_cache' = Overlap(chunk)
        /\ ForwardChunk
        /\ UNCHANGED vadVars

\* The last piece makes one chunk or, when its look-ahead does not fit, two; the
\* second begins with the end of the first.
LastBodies(feats) ==
    LET chunk == feats_cache \o feats
        rest == Len(feats) + Suf - Body
    IN  IF rest <= 0 THEN BodyOf(chunk)
        ELSE BodyOf(chunk) \o BodyOf(LastOf(chunk, Pre) \o LastOf(feats, rest))

ForwardLast(n) ==
    LET x == ExtractFeats(Was(samples), n, TRUE)
    IN  /\ reader = "asr" /\ ~(n < Short /\ ~is_first_chunk) /\ x.feats # <<>>
        /\ Called(n, TRUE, x, IF x.raw THEN <<>> ELSE LastBodies(Numbers(x)))
        /\ Reset
        /\ UNCHANGED vadVars

-----------------------------------------------------------------------------
Next ==
    \/ \E n \in Blocks, ran \in BOOLEAN : Infer(n, FALSE, ran)
    \/ \E n \in LastBlocks, ran \in BOOLEAN : Infer(n, TRUE, ran)
    \/ \E n \in Pieces : ForwardPiece(n)
    \/ \E n \in Rests : ForwardShort(n) \/ ForwardNothing(n) \/ ForwardLast(n)

Spec == Init /\ [][Next]_vars

-----------------------------------------------------------------------------
(* Properties.                                                               *)

IsFrames(s) == \A k \in DOMAIN s : s[k] \in Nat

TypeOK ==
    /\ reader \in {"vad", "asr"}
    /\ fe.input \in Nat /\ fe.reserve \in Nat /\ IsFrames(fe.splice)
    /\ is_first_chunk \in BOOLEAN /\ scored \in BOOLEAN
    /\ Len(feats_cache) = Pre + Suf /\ IsFrames(feats_cache) /\ start_idx \in Nat
    /\ cif \in {"fresh", "used"} /\ decoder_onnx \in {"fresh", "used", "broken"}
    /\ call.final \in BOOLEAN /\ call.raw \in BOOLEAN /\ IsFrames(call.body)
    /\ \A k \in DOMAIN call.feats : IsFrames(call.feats[k])
    /\ {samples, frames, outs, bodies, streams} \subseteq Nat
    /\ surplus \in Int /\ missed \in BOOLEAN /\ failed \in BOOLEAN

\* The i-th LFR frame of an utterance with total frames, as FsmnVad::LfrCmvn makes
\* it of the whole: the first frame is repeated before, the last one behind.
OfflineLfr(i, total) ==
    [j \in 1..M |->
        LET f == Row(i - 1) + j - 1 - Pad
        IN  At(IF f < 0 THEN 0 ELSE Lesser(f, total - 1))]

\* However the audio is sliced into calls, the LFR frames are those the offline
\* front end makes of the whole: none is missing, doubled or shifted, and the last
\* call gives as many as are left.  Only a call whose frames are too few for one
\* LFR frame, at the very beginning, is excepted.
LfrAsOffline ==
    ~call.raw =>
        /\ \A k \in DOMAIN call.feats :
              LET i == outs - Len(call.feats) + k
              IN  /\ call.feats[k] = OfflineLfr(i, frames)
                  /\ call.final \/ Row(i - 1) + M - Pad <= frames
        /\ call.final /\ call.feats # <<>> => outs = (frames + N - 1) \div N

\* VadEndpoint counts on this: the audio that reaches the detector with the LFR
\* frames, summed over the calls of its stream, is at least what that many frames
\* cover, so that neither decibel nor data_buf is read behind its end.  It holds
\* over calls on which the network fails, and over an utterance whose end it failed
\* to tell, with one exception: when the network failed on the first call of an
\* utterance, the audio kept for the padding never came, and the last call may lack
\* as much as the padding is long.
WavesEnough ==
    \/ surplus >= 0
    \/ call.final /\ missed /\ surplus >= -At(Pad)

\* Every LFR frame of an utterance is recognised once and in order: in the body of
\* one chunk, not in the look-ahead or look-back of another; and a last piece that
\* is too short to be analysed still brings out what the chunks held back.
BodiesTile ==
    reader = "asr" /\ ~call.raw =>
        /\ call.body = [k \in 1..Len(call.body) |-> bodies - Len(call.body) + k]
        /\ IF call.final THEN bodies = outs ELSE bodies = (IF outs > Suf THEN outs - Suf ELSE 0)

\* After the last call of an utterance nothing of it is left for the next one: the
\* caches are empty, positions begin at 0, a decoder that failed runs again, and
\* the detector has been told that its stream ended - unless the network failed
\* the last time it ran: then the detector stays within its stream, which the next
\* utterance continues.  Only is_first_chunk stays FALSE after an utterance that
\* was too short for a single feature.
UtteranceFresh ==
    call.final =>
        /\ fe = NoCache /\ (scored => failed)
        /\ feats_cache = Zeros /\ start_idx = 0 /\ cif = "fresh" /\ decoder_onnx = "fresh"
        /\ is_first_chunk \/ (call.feats = <<>> /\ frames = 0)
=============================================================================
