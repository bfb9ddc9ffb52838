------------------------------- MODULE OfflineCut -------------------------------
(***************************************************************************)
(* FunOfflineInferBuffer of src/onnxruntime/src/funasrruntime.cpp from the  *)
(* loaded audio to the text, with Audio::CutSplit and Audio::FetchDynamic   *)
(* of audio.cpp: the audio is given to the VAD second by second, the        *)
(* segments it tells are put together and sorted by length, taken in        *)
(* batches, and their texts are put back into the order of time.            *)
(*                                                                          *)
(* Times are in samples, as in TpassSplit; the text of a piece is the range *)
(* of samples it was made from; indices count from 1.                       *)
(***************************************************************************)
EXTENDS Integers, Sequences, FiniteSets, SequencesExt

CONSTANTS
    SegSample,   \* seg_sample: samples of one ms
    Second,      \* what one call of the VAD is given
    Lag, Delay,  \* how late the VAD may tell a beginning, how much it may hold back
    MaxSent,     \* max_sent: a piece so long is decoded alone (60 s)
    MaxAcc,      \* max_acc: samples of a batch, padded to its longest piece (300 s)
    Lengths,     \* lengths the audio may have
    BatchSizes   \* batch_size of the recogniser; 1 where USE_GPU is not defined

ASSUME TimeAssumption ==
    /\ SegSample \in Nat \ {0} /\ Second \in Nat \ {0} /\ Lag \in Nat /\ Delay \in Nat
    /\ Lengths \subseteq Nat \ {0}
ASSUME BatchAssumption ==
    /\ MaxSent \in Nat /\ MaxAcc \in Nat /\ MaxSent <= MaxAcc
    /\ BatchSizes \subseteq Nat \ {0}

VARIABLES
    pc,
    speech_len, batch_size,     \* the audio and the recogniser
    sample_offset, is_final,    \* the calls of the VAD
    heard, open, last,          \* the VAD
    vad_segments,               \* what it told
    spoken,                     \* ghost: the segments it meant
    pairing, paired,            \* the pieces put together, of so many entries
    index_vector, frame_queue,
    msgs, msg_idx,
    batch                       \* the pieces of the last batch

inputVars == <<speech_len, batch_size>>
vadVars   == <<heard, open, last>>
cutVars   == <<sample_offset, is_final, vadVars, vad_segments, spoken>>
pairVars  == <<pairing, paired>>
textVars  == <<index_vector, frame_queue, msgs, msg_idx, batch>>
vars == <<pc, inputVars, cutVars, pairVars, textVars>>

Vad == INSTANCE SegmentStream

Frame(from, to) == [from |-> from, to |-> to]
FrameLen(frame) == frame.to - frame.from
NoText == Frame(0, 0)
Pairing == [start_i |-> -1, end_i |-> -1, vad_frames |-> <<>>]

\* Without a VAD the whole audio is the one piece, put where index_vector's 0 says.
Init ==
    /\ speech_len \in Lengths /\ batch_size \in BatchSizes
    /\ sample_offset = 0 /\ is_final = FALSE /\ Vad!Init
    /\ vad_segments = <<>> /\ pairing = Pairing /\ paired = 0
    /\ msg_idx = 1 /\ batch = <<>>
    /\ \/ pc = "vad" /\ spoken = <<>> /\ index_vector = <<>> /\ frame_queue = <<>> /\ msgs = <<>>
       \/ /\ pc = "fetch" /\ spoken = <<Frame(0, speech_len)>>
          /\ index_vector = <<1>> /\ frame_queue = spoken /\ msgs = <<NoText>>

-----------------------------------------------------------------------------
(* CutSplit.                                                                 *)

\* Variant: the sample that is left over is not looked for.
FinalStepExact(n) == n > speech_len

\* A step that reaches all but the last sample takes that, too.
FinalStep(n) == n >= speech_len - 1

\* One step of the loop: the VAD is given the next second, or what is left.
Infer ==
    /\ pc \in {"vad", "tell"} /\ sample_offset < speech_len /\ pc' = "tell"
    /\ is_final' = FinalStep(sample_offset + Second)
    /\ sample_offset' = IF is_final' \/ sample_offset + Second > speech_len
                        THEN speech_len ELSE sample_offset + Second
    /\ heard' \in {t \in heard..sample_offset' : t % SegSample = 0 /\ t >= sample_offset' - Delay}
    /\ UNCHANGED <<inputVars, open, last, vad_segments, spoken, pairVars, textVars>>

\* What the VAD may tell of it.
Tells(segment) ==
    /\ pc = "tell" /\ vad_segments' = Append(vad_segments, segment)
    /\ UNCHANGED <<pc, inputVars, sample_offset, is_final, pairVars, textVars>>

TellsBegin(s) == Tells(<<s, -1>>) /\ Vad!Begin(s) /\ UNCHANGED spoken
TellsEnd(e) == Tells(<<-1, e>>) /\ Vad!End(e) /\ spoken' = Append(spoken, Frame(open, e))
TellsWhole(s, e) == Tells(<<s, e>>) /\ Vad!Whole(s, e) /\ spoken' = Append(spoken, Frame(s, e))

\* Variant: each entry is taken for a whole piece, as Split(OfflineStream) does.
PairAlone(p, segment) ==
    [p EXCEPT !.vad_frames = Append(@, Frame(segment[1], segment[2]))]

\* speech_start_i and speech_end_i after one entry; both known make a piece.
Pair(p, segment) ==
    LET s == IF segment[1] # -1 THEN segment[1] ELSE p.start_i
        e == IF segment[2] # -1 THEN segment[2] ELSE p.end_i
    IN  IF s # -1 /\ e # -1
        THEN [Pairing EXCEPT !.vad_frames = Append(p.vad_frames, Frame(s, e))]
        ELSE [p EXCEPT !.start_i = s, !.end_i = e]

\* When the VAD has told all: the next entry.
PairNext ==
    /\ pc \in {"tell", "pair"} /\ sample_offset = speech_len /\ paired < Len(vad_segments)
    /\ pc' = "pair" /\ paired' = paired + 1
    /\ pairing' = Pair(pairing, vad_segments[paired'])
    /\ UNCHANGED <<inputVars, cutVars, textVars>>

\* Any order that std::sort may put the pieces in: it leaves open which of two
\* of the same length comes first.
Sorted(frames) ==
    {p \in SetToSeqs(DOMAIN frames) :
        \A k \in 1..Len(p) - 1 : FrameLen(frames[p[k]]) <= FrameLen(frames[p[k + 1]])}

Sort ==
    /\ pc \in {"tell", "pair"} /\ sample_offset = speech_len /\ paired = Len(vad_segments)
    /\ pc' = "fetch"
    /\ LET frames == pairing.vad_frames
       IN  \E p \in Sorted(frames) :
              /\ index_vector' = p
              /\ frame_queue' = [k \in DOMAIN p |-> frames[p[k]]]
              /\ msgs' = [k \in DOMAIN p |-> NoText]
    /\ UNCHANGED <<inputVars, cutVars, pairVars, msg_idx, batch>>

-----------------------------------------------------------------------------
(* FetchDynamic, the recogniser, and the texts put back in order.            *)

Longest(frames, n) == CHOOSE l \in {FrameLen(frames[k]) : k \in 1..n} :
                          \A k \in 1..n : FrameLen(frames[k]) <= l

\* The n-th piece may join those before it.
Fits(n) == Longest(frame_queue, n) * n <= MaxAcc

\* A long piece goes alone; the others while they fit.
BatchIn ==
    LET max_batch == IF batch_size < Len(frame_queue) THEN batch_size ELSE Len(frame_queue)
        Joins(n) == IF FrameLen(frame_queue[n]) >= MaxSent THEN n = 1
                    ELSE Fits(n) /\ (n > 1 => FrameLen(frame_queue[n - 1]) < MaxSent)
    IN  Cardinality({n \in 1..max_batch : \A k \in 1..n : Joins(k)})

\* Variant: the texts are kept in the order in which they come.
PlaceAsDecoded(k) == k

\* Where the text of the k-th piece decoded goes.
Place(k) == index_vector[k]

Fetch ==
    /\ pc = "fetch" /\ BatchIn > 0
    /\ batch' = SubSeq(frame_queue, 1, BatchIn)
    /\ frame_queue' = SubSeq(frame_queue, BatchIn + 1, Len(frame_queue))
    /\ msgs' = [i \in DOMAIN msgs |->
                   IF \E k \in DOMAIN batch' : Place(msg_idx + k - 1) = i
                   THEN batch'[CHOOSE k \in DOMAIN batch' : Place(msg_idx + k - 1) = i]
                   ELSE msgs[i]]
    /\ msg_idx' = msg_idx + BatchIn
    /\ UNCHANGED <<pc, inputVars, cutVars, pairVars, index_vector>>

Finish ==
    /\ pc = "fetch" /\ BatchIn = 0 /\ pc' = "done"
    /\ UNCHANGED <<inputVars, cutVars, pairVars, textVars>>

-----------------------------------------------------------------------------
Times == {t \in 0..heard : t % SegSample = 0}

Next ==
    \/ Infer \/ PairNext \/ Sort \/ Fetch \/ Finish
    \/ \E t \in Times : TellsBegin(t) \/ TellsEnd(t) \/ \E s \in Times : TellsWhole(s, t)

Spec == Init /\ [][Next]_vars

-----------------------------------------------------------------------------
(* Properties.                                                               *)

IsFrames(s) == \A k \in DOMAIN s : s[k] \in [from : Nat, to : Nat]

TypeOK ==
    /\ pc \in {"vad", "tell", "pair", "fetch", "done"}
    /\ speech_len \in Lengths /\ batch_size \in BatchSizes
    /\ sample_offset \in 0..speech_len /\ is_final \in BOOLEAN
    /\ heard \in Nat /\ open \in Nat \cup {-1} /\ last \in Nat
    /\ vad_segments \in Seq(Int \X Int)
    /\ paired \in 0..Len(vad_segments)
    /\ pairing.start_i \in Nat \cup {-1} /\ pairing.end_i \in Nat \cup {-1}
    /\ IsFrames(pairing.vad_frames) /\ IsFrames(spoken) /\ IsFrames(frame_queue)
    /\ IsFrames(msgs) /\ IsFrames(batch)
    /\ index_vector \in Seq(DOMAIN msgs) /\ msg_idx \in 1..Len(msgs) + 1

\* The VAD hears the audio to its last sample and is told, with the last step and
\* not before, that it ends, whatever the length is modulo a second: else the
\* segment that is open at the end would never be closed.
VadHearsAll ==
    pc = "tell" => (is_final <=> sample_offset = speech_len)

\* Every segment the VAD meant is decoded once and its text stands at its place
\* in time, though the pieces were decoded by length, in batches, and though two
\* of the same length may have changed places.
TextInOrder == pc = "done" => msgs = spoken
=============================================================================
