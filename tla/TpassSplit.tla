------------------------------- MODULE TpassSplit -------------------------------
(***************************************************************************)
(* Audio::LoadPcmwavOnline and the 2-pass Audio::Split of                   *)
(* src/onnxruntime/src/audio.cpp, and FunTpassInferBuffer of                *)
(* src/onnxruntime/src/funasrruntime.cpp, which calls them: how the audio   *)
(* that is kept, the segments of the VAD and the pieces for the two         *)
(* recognisers fit together, call after call.                               *)
(*                                                                          *)
(* The code counts time in ms and multiplies by seg_sample; here all times  *)
(* are in samples, and those that are whole ms in the code are multiples of *)
(* SegSample.  A frame is the range of samples it was copied from.  The VAD *)
(* is SegmentStream, which VadEndpoint implements.                          *)
(***************************************************************************)
EXTENDS Integers, Sequences

CONSTANTS
    SegSample,    \* seg_sample: samples of one ms
    Step,         \* chunk_len: samples of one chunk of the streaming recogniser
    VectorCache,  \* vector_cache: samples kept while nobody speaks
    Lag,          \* how late the VAD may tell that a segment began
    Delay,        \* how much audio the VAD may hold back before it analyses it
    Blocks,       \* samples one call may bring, after resampling
    MaxSamples,   \* bound: samples of one stream
    MaxStreams    \* bound: streams of one connection

ASSUME TimeAssumption ==
    /\ SegSample \in Nat \ {0} /\ Step \in Nat \ {0} /\ Lag \in Nat /\ Delay \in Nat
    /\ Blocks \subseteq Nat /\ MaxSamples \in Nat /\ MaxStreams \in Nat

\* 400 ms and a block of the VAD against the two seconds that are kept.
ASSUME CacheAssumption == VectorCache \in Nat /\ Lag + Delay <= VectorCache

\* A chunk (600 ms with the chunk_size 5,10,5 that the clients send) is longer than
\* that, and one call brings no more than a chunk.
ASSUME ChunkAssumption == Lag + Delay < Step /\ \A n \in Blocks : n <= Step

VARIABLES
    pc, mode, input_finished,           \* the call: where it stands
    size,                               \* samples of the stream so far
    offset,                             \* all_samples is those from offset on
    speech_start, speech_end, speech_offline_start,
    asr_online_queue, asr_offline_queue,
    online_res, tpass_msg,              \* texts, as the pieces they were made of
    heard, open, last,                  \* the VAD
    given, ended, kept,                 \* ghosts: see TwoPass
    switched, streams                   \* ghosts: the mode changed; streams so far

vadVars == <<heard, open, last>>
posVars == <<speech_start, speech_end, speech_offline_start>>
queues  == <<asr_online_queue, asr_offline_queue>>
texts   == <<online_res, tpass_msg>>
callVars == <<mode, input_finished, size, switched, streams>>
vars == <<pc, callVars, offset, posVars, queues, texts, vadVars, given, ended, kept>>

None == -1
Modes == {"ONLINE", "OFFLINE", "TWO_PASS"}

Vad == INSTANCE SegmentStream

Frame(from, to, final) == [from |-> from, to |-> to, final |-> final]

Init ==
    /\ pc = "idle" /\ mode \in Modes /\ input_finished = FALSE
    /\ size = 0 /\ offset = 0
    /\ speech_start = None /\ speech_end = 0 /\ speech_offline_start = None
    /\ asr_online_queue = <<>> /\ asr_offline_queue = <<>>
    /\ online_res = <<>> /\ tpass_msg = <<>>
    /\ Vad!Init
    /\ given = <<>> /\ ended = <<>> /\ kept = TRUE
    /\ switched = FALSE /\ streams = 1

\* FunTpassInferBuffer loads n samples and the VAD analyses what it can.
Load(n, final, m) ==
    /\ pc = "idle" /\ streams <= MaxStreams /\ size + n <= MaxSamples
    /\ pc' = "vad" /\ input_finished' = final
    /\ mode' = m /\ switched' = (switched \/ m # mode)
    /\ size' = size + n
    /\ heard' \in heard..size + n /\ heard' % SegSample = 0
    /\ heard' >= size + n - Delay
    /\ speech_end' = speech_end + n - (n % SegSample)
    /\ tpass_msg' = <<>>
    /\ UNCHANGED <<offset, speech_start, speech_offline_start, queues, online_res,
                   open, last, given, ended, kept, streams>>

-----------------------------------------------------------------------------
(* Audio::Split, for each segment that the VAD returns.                      *)

\* Variant: a chunk waits until the next one is complete, too.
PushStepLate(start) ==
    LET enough == mode # "OFFLINE" /\ speech_end - start >= 2 * Step
    IN  /\ asr_online_queue' = IF enough
                               THEN Append(asr_online_queue, Frame(start, start + Step, FALSE))
                               ELSE asr_online_queue
        /\ speech_start' = IF enough THEN start + Step ELSE start

\* One chunk for the streaming recogniser, when there is enough audio for it.
PushStep(start) ==
    LET enough == mode # "OFFLINE" /\ speech_end - start >= Step
    IN  /\ asr_online_queue' = IF enough
                               THEN Append(asr_online_queue, Frame(start, start + Step, FALSE))
                               ELSE asr_online_queue
        /\ speech_start' = IF enough THEN start + Step ELSE start

\* Variant: a last chunk of full length is not marked final.
RestExact(start, end) ==
    LET n == IF end - start - 1 <= Step THEN 1 ELSE (end - start - 2) \div Step + 1
    IN  IF end <= start THEN <<Frame(start, start, TRUE)>>
        ELSE [k \in 1..n |-> Frame(start + (k - 1) * Step,
                                   IF k = n THEN end ELSE start + k * Step,
                                   k = n /\ end - start # n * Step)]

\* What is left of a segment, in chunks: the last takes a single odd sample, too.
Rest(start, end) ==
    LET n == IF end - start - 1 <= Step THEN 1 ELSE (end - start - 2) \div Step + 1
    IN  IF end <= start THEN <<Frame(start, start, TRUE)>>
        ELSE [k \in 1..n |-> Frame(start + (k - 1) * Step,
                                   IF k = n THEN end ELSE start + k * Step, k = n)]

NoSegment ==
    /\ pc = "vad" /\ pc' = "trim"
    /\ IF speech_start # None THEN PushStep(speech_start)
                              ELSE UNCHANGED <<asr_online_queue, speech_start>>
    /\ UNCHANGED <<callVars, offset, speech_end, speech_offline_start,
                   asr_offline_queue, texts, vadVars, given, ended, kept>>

\* Variant: speech_offline_start is not reset.
EndsOnlineOnly(s, e) ==
    /\ ended' = IF mode = "OFFLINE" THEN ended ELSE Append(ended, <<s, e>>)
    /\ kept' = (kept /\ (mode # "OFFLINE" \/ given = <<>> \/ given[Len(given)].final))
    /\ speech_start' = None /\ UNCHANGED speech_offline_start

\* A segment that is told to its end: nothing of it is left to start from.
Ends(s, e) ==
    /\ ended' = IF mode = "OFFLINE" THEN ended ELSE Append(ended, <<s, e>>)
    /\ kept' = (kept /\ (mode # "OFFLINE" \/ given = <<>> \/ given[Len(given)].final))
    /\ speech_start' = None /\ speech_offline_start' = None

Segment ==
    /\ pc \in {"vad", "segments"} /\ pc' = "segments"
    /\ UNCHANGED <<callVars, offset, speech_end, texts, given>>

\* [s, e]
SegmentWhole(s, e) ==
    /\ Segment /\ Vad!Whole(s, e) /\ Ends(s, e)
    /\ asr_online_queue' = IF mode = "OFFLINE" THEN asr_online_queue
                           ELSE Append(asr_online_queue, Frame(s, e, TRUE))
    /\ asr_offline_queue' = IF mode = "ONLINE" THEN asr_offline_queue
                            ELSE Append(asr_offline_queue, Frame(s, e, TRUE))

\* [s, -1]
SegmentBegins(s) ==
    /\ Segment /\ Vad!Begin(s)
    /\ PushStep(s) /\ speech_offline_start' = s
    /\ UNCHANGED <<asr_offline_queue, ended, kept>>

\* Where the rest of a segment begins: 0 when the VAD never told its beginning.
RestStart == IF speech_start = None \/ speech_offline_start = None THEN 0 ELSE speech_start

\* [-1, e]
SegmentEnds(e) ==
    /\ Segment /\ Vad!End(e) /\ Ends(open, e)
    /\ asr_offline_queue' = IF mode = "ONLINE" THEN asr_offline_queue
                            ELSE Append(asr_offline_queue, Frame(speech_offline_start, e, TRUE))
    /\ asr_online_queue' = IF mode = "OFFLINE" THEN asr_online_queue
                           ELSE asr_online_queue \o Rest(RestStart, e)

\* Variant: while somebody speaks all_samples is trimmed like in silence.
TrimLikeSilence ==
    /\ pc \in {"segments", "trim"} /\ pc' = "asr"
    /\ offset' = IF size - offset > VectorCache THEN size - VectorCache ELSE offset
    /\ UNCHANGED <<callVars, posVars, queues, texts, vadVars, given, ended, kept>>

\* all_samples keeps VectorCache samples, or as many before the open segment.
Trim ==
    /\ pc \in {"segments", "trim"} /\ pc' = "asr"
    /\ LET end == IF speech_offline_start = None THEN size ELSE speech_offline_start
       IN  offset' = IF end - offset > VectorCache THEN end - VectorCache ELSE offset
    /\ UNCHANGED <<callVars, posVars, queues, texts, vadVars, given, ended, kept>>

-----------------------------------------------------------------------------
(* FunTpassInferBuffer: the recognisers take what Split queued.              *)

Within == given # <<>> /\ ~given[Len(given)].final

\* Variant: online_res is not emptied after the last piece.
ResKept(res, final) == res

\* online_res, after a piece of an utterance in ONLINE mode.
ResAfter(res, final) == IF final THEN <<>> ELSE res

\* FetchChunck and the streaming recogniser.
ForwardOnline ==
    /\ pc = "asr" /\ asr_online_queue # <<>>
    /\ LET frame == Head(asr_online_queue)
           res == Append(online_res, frame)
       IN  /\ given' = Append(IF Within THEN given ELSE <<>>, frame)
           /\ ended' = IF frame.final THEN Tail(ended) ELSE ended
           /\ kept' = (kept \/ frame.final)
           /\ online_res' = IF mode = "ONLINE" THEN ResAfter(res, frame.final) ELSE online_res
           /\ tpass_msg' = IF mode = "ONLINE" /\ frame.final THEN res ELSE tpass_msg
    /\ asr_online_queue' = Tail(asr_online_queue)
    /\ UNCHANGED <<pc, callVars, offset, posVars, asr_offline_queue, vadVars>>

\* FetchTpass and the second pass, whose text replaces the one told before.
ForwardOffline ==
    /\ pc = "asr" /\ asr_online_queue = <<>> /\ asr_offline_queue # <<>>
    /\ tpass_msg' = <<Head(asr_offline_queue)>>
    /\ asr_offline_queue' = Tail(asr_offline_queue)
    /\ UNCHANGED <<pc, callVars, offset, posVars, asr_online_queue, online_res,
                   vadVars, given, ended, kept>>

Returns ==
    /\ pc = "asr" /\ asr_online_queue = <<>> /\ asr_offline_queue = <<>>
    /\ ~input_finished /\ pc' = "idle"
    /\ UNCHANGED <<callVars, offset, posVars, queues, texts, vadVars, given, ended, kept>>

\* The last call of a stream: ResetIndex.  The VAD has started anew by itself.
ReturnsFinal ==
    /\ pc = "asr" /\ asr_online_queue = <<>> /\ asr_offline_queue = <<>>
    /\ input_finished /\ pc' = "idle"
    /\ size' = 0 /\ offset' = 0
    /\ speech_start' = None /\ speech_end' = 0 /\ speech_offline_start' = None
    /\ Vad!Restart
    /\ streams' = streams + 1
    /\ UNCHANGED <<mode, input_finished, switched, queues, texts, given, ended, kept>>

-----------------------------------------------------------------------------
\* Whole ms of the stream.
Times == {t \in 0..MaxSamples : t % SegSample = 0}

Next ==
    \/ \E n \in Blocks, final \in BOOLEAN, m \in Modes : Load(n, final, m)
    \/ NoSegment
    \/ \E s \in Times : SegmentBegins(s) \/ SegmentEnds(s)
    \/ \E s, e \in Times : SegmentWhole(s, e)
    \/ Trim \/ ForwardOnline \/ ForwardOffline \/ Returns \/ ReturnsFinal

Spec == Init /\ [][Next]_vars

-----------------------------------------------------------------------------
(* Properties.                                                               *)

Frames == [from : Nat, to : Nat, final : BOOLEAN]

TypeOK ==
    /\ pc \in {"idle", "vad", "segments", "trim", "asr"}
    /\ mode \in Modes /\ input_finished \in BOOLEAN /\ switched \in BOOLEAN
    /\ size \in Nat /\ offset \in Nat /\ streams \in Nat
    /\ speech_start \in Nat \cup {None} /\ speech_offline_start \in Nat \cup {None}
    /\ speech_end \in Nat
    /\ \A s \in {asr_online_queue, asr_offline_queue, online_res, tpass_msg, given} :
          \A k \in DOMAIN s : s[k] \in Frames
    /\ heard \in Nat /\ open \in Nat \cup {None} /\ last \in Nat /\ kept \in BOOLEAN

\* Every memcpy of Split reads samples that all_samples holds, and every frame
\* has a length that can be allocated, whenever the VAD tells what it may tell
\* and whatever was trimmed before.
InBounds ==
    pc \in {"segments", "trim"} =>
        \A q \in {asr_online_queue, asr_offline_queue} : \A k \in DOMAIN q :
            /\ q[k].from <= q[k].to
            /\ q[k].from < q[k].to => offset <= q[k].from /\ q[k].to <= size

\* speech_start and speech_offline_start know of a segment exactly while the VAD
\* has one open, so that "Vad start is null" (line 1355) is never logged.
StartsAgree ==
    pc # "asr" \/ ~input_finished =>
        /\ speech_offline_start = open
        /\ speech_start = None <=> open = None

\* The two recognisers hear every segment, and hear it once and in order, even
\* when its end is put back behind what was heard or it outlives many calls.
Service == INSTANCE TwoPass WITH
    Time <- 0..MaxSamples,
    second <- [k \in DOMAIN asr_offline_queue |->
                   <<asr_offline_queue[k].from, asr_offline_queue[k].to>>]
BothPassesHear == Service!Spec

\* The streaming recogniser keeps up: while each call brings no more than a
\* chunk, it is never a whole chunk and one call's delay behind.
KeepsUp ==
    pc = "idle" /\ open # None /\ mode # "OFFLINE" /\ ~switched =>
        speech_end - speech_start < Step + Lag + Delay

\* In ONLINE mode the text told at the end of an utterance is made of all its
\* pieces and of nothing else, as long as the client keeps the mode.
OnlineTextWhole ==
    mode = "ONLINE" /\ ~switched /\ tpass_msg # <<>> => tpass_msg = given
=============================================================================
