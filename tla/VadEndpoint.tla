------------------------------ MODULE VadEndpoint ------------------------------
(***************************************************************************)
(* E2EVadModel and WindowDetector of src/onnxruntime/src/e2e-vad.h, as      *)
(* FsmnVadOnline::Infer calls them: the detector that turns the speech or   *)
(* silence of every frame into segments, across calls and across streams.   *)
(*                                                                          *)
(* A call of operator() is taken apart where its loops turn: Call, then one *)
(* step per frame, one step per entry of output_data_buf, and Returns.  The *)
(* scores are abstracted to what GetFrameState makes of them: each frame is *)
(* speech or silence.  Times are in ms; one ms of audio counts as one       *)
(* sample.                                                                  *)
(***************************************************************************)
EXTENDS Integers, Sequences, FiniteSets

CONSTANTS
    FrameMs,      \* frame_in_ms
    FrameLenMs,   \* frame_length_ms
    Win,          \* win_size_frame
    SilToSpeech,  \* sil_to_speech_frmcnt_thres
    SpeechToSil,  \* speech_to_sil_frmcnt_thres
    Lookback,     \* lookback_time_start_point, in frames
    Lookahead,    \* lookahead_time_end_point, in frames
    EndSils,      \* the vad_tail_sil a client may ask for
    MaxSegs,      \* the vad_max_len a client may ask for
    Overlaps,     \* the reserved audio that may come with the frames of a call
    MaxBlock,     \* bound: frames of one call
    MaxFrames,    \* bound: frames of one stream
    MaxStreams    \* bound: streams of one detector

ASSUME FrameAssumption ==
    FrameMs \in Nat \ {0} /\ FrameLenMs \in Nat /\ FrameMs <= FrameLenMs
ASSUME WindowAssumption ==
    /\ Win \in Nat \ {0}
    /\ SilToSpeech \in 2..Win /\ SpeechToSil \in 0..Win
    /\ Lookback \in Nat /\ Lookahead \in Nat
ASSUME RequestAssumption ==
    EndSils \subseteq Int /\ MaxSegs \subseteq Int /\ Overlaps \subseteq Nat
\* vad_max_len is an int, so there is a largest.
ASSUME LongestAssumption == \E m \in MaxSegs : \A k \in MaxSegs : k <= m
ASSUME BoundAssumption ==
    MaxBlock \in Nat \ {0} /\ MaxFrames \in Nat /\ MaxStreams \in Nat

VARIABLES
    pc, todo, is_final, i,     \* the call: where it stands
    frm_cnt,                   \* frames of the stream so far
    win_state, pre_frame_state, \* windows_detector
    vad_state_machine,         \* "before" or "in" a segment
    confirmed_start_frame, latest_confirmed_speech_frame,
    lastest_confirmed_silence_frame, continous_silence_frame_count,
    number_end_time_detected,
    max_end_sil, max_single_segment_time,
    buf,          \* data_buf_*, output_data_buf and what was complained about
    next_seg, output_data_buf_offset,
    open, last,   \* what a reader of the segments knows (SegmentStream)
    streams       \* streams so far, to bound the runs

callVars   == <<pc, todo, is_final, i>>
windowVars == <<win_state, pre_frame_state>>
detectVars == <<windowVars, vad_state_machine, confirmed_start_frame,
                latest_confirmed_speech_frame, lastest_confirmed_silence_frame,
                continous_silence_frame_count>>
optVars    == <<max_end_sil, max_single_segment_time>>
emitVars   == <<next_seg, output_data_buf_offset, open, last>>
vars == <<callVars, frm_cnt, detectVars, number_end_time_detected, optVars,
          buf, emitVars, streams>>

\* -1 as the code uses it: no frame, no time.
None == -1

Silence == [k \in 1..Win |-> FALSE]

\* Frames as a time.
Ms(frames) == frames * FrameMs

\* The larger of two numbers (std::max).
Larger(a, b) == IF a > b THEN a ELSE b

-----------------------------------------------------------------------------
(* data_buf and output_data_buf.  "faults" collects what the code prints to  *)
(* std::cout when its own accounting fails, and "loop" for a loop that would *)
(* not end.                                                                  *)

NewBuf == [start_frame |-> 0, size |-> 0, all_size |-> 0, out |-> <<>>, faults |-> {}]

\* ComputeDecibel accounts for the waveform of a call.
ComputeDecibel(b, n) ==
    IF b.all_size = 0 THEN [b EXCEPT !.all_size = n, !.size = n]
                      ELSE [b EXCEPT !.all_size = @ + n]

\* Its loop moves only while the size it last computed holds a whole frame.
PopDataBufTillFrame(b, f) ==
    IF b.start_frame >= f THEN b
    ELSE IF b.size < FrameMs
              \/ (b.start_frame + 1 < f /\ b.all_size - Ms(f - 1) < FrameMs)
         THEN [b EXCEPT !.faults = @ \cup {"loop"}]
         ELSE [b EXCEPT !.start_frame = f, !.size = b.all_size - Ms(f)]

\* One frame goes to output_data_buf, perhaps as the first or the last of its
\* segment; toEnd is end_point_is_sent_end.
PopDataToOutputBuf(b, f, first, ends, toEnd) ==
    LET p == PopDataBufTillFrame(b, f)
        expected == IF ends THEN FrameLenMs ELSE FrameMs
        wanted == IF toEnd THEN Larger(expected, p.size) ELSE expected
        out == IF p.out = <<>> \/ first
               THEN Append(p.out, [start_ms |-> Ms(f), end_ms |-> Ms(f),
                                   begun |-> FALSE, ended |-> FALSE])
               ELSE p.out
        n == Len(out)
    IN [p EXCEPT
          !.start_frame = @ + 1,
          !.out = [out EXCEPT ![n].end_ms = Ms(f + 1),
                              ![n].begun = @ \/ first,
                              ![n].ended = @ \/ ends],
          !.faults = @ \cup (IF p.size < wanted THEN {"size"} ELSE {})
                       \cup (IF out[n].end_ms # Ms(f) THEN {"gap"} ELSE {})]

\* OnVoiceDetected for each frame of from..to, of a segment already begun: after
\* the first of them neither the size nor the gap can change.
OnVoiceDetected(b, from, to) ==
    IF from > to THEN b
    ELSE LET p == PopDataToOutputBuf(b, from, FALSE, FALSE, FALSE)
         IN [p EXCEPT !.start_frame = @ + (to - from),
                      !.out[Len(p.out)].end_ms = Ms(to + 1)]

OnVoiceStart(b, f) == PopDataToOutputBuf(b, f, TRUE, FALSE, FALSE)

\* OnVoiceEnd, when it is not fake.
OnVoiceEnd(b, f, toEnd) ==
    PopDataToOutputBuf(OnVoiceDetected(b, latest_confirmed_speech_frame + 1, f - 1),
                       f, FALSE, TRUE, toEnd)

-----------------------------------------------------------------------------
(* A call of operator().                                                     *)

\* What AllResetDetection does to the buffers: the members data_buf_size and
\* data_buf_all_size keep their values, because it declares local variables of
\* these names.
AllResetDetection(b) == [b EXCEPT !.start_frame = 0, !.out = <<>>]

Init ==
    /\ pc = "idle" /\ todo = 0 /\ is_final = FALSE /\ i = 1
    /\ frm_cnt = 0
    /\ win_state = Silence /\ pre_frame_state = FALSE
    /\ vad_state_machine = "before"
    /\ confirmed_start_frame = None
    /\ latest_confirmed_speech_frame = 0
    /\ lastest_confirmed_silence_frame = None
    /\ continous_silence_frame_count = 0
    /\ number_end_time_detected = 0
    /\ max_end_sil = 0 /\ max_single_segment_time = 0
    /\ buf = NewBuf
    /\ next_seg = TRUE /\ output_data_buf_offset = 0
    /\ open = None /\ last = 0
    /\ streams = 1

\* n frames arrive, with their waveform and the client's options.
Call(n, final, overlap, end_sil, max_seg) ==
    /\ pc = "idle"
    /\ frm_cnt + n <= MaxFrames /\ streams <= MaxStreams
    /\ pc' = "frames" /\ todo' = n /\ is_final' = final /\ UNCHANGED i
    /\ frm_cnt' = frm_cnt + n
    /\ max_end_sil' = end_sil /\ max_single_segment_time' = max_seg
    /\ buf' = ComputeDecibel(buf, overlap + Ms(n - 1) + FrameLenMs)
    /\ UNCHANGED <<detectVars, number_end_time_detected, emitVars, streams>>

\* The frame under the loop of DetectCommonFrames and DetectLastFrames.
cur_frm_idx == frm_cnt - todo
\* Variant: DetectCommonFrames serves the last call, too.
NeverFinal == FALSE
is_final_frame == is_final /\ todo = 1

NextFrame ==
    /\ todo' = todo - 1
    /\ pc' = IF todo = 1 THEN "emit" ELSE "frames"
    /\ i' = output_data_buf_offset + 1
    /\ UNCHANGED <<is_final, frm_cnt, optVars, emitVars, streams>>

-----------------------------------------------------------------------------
(* WindowDetector::DetectOneFrame: the last Win frames and a hysteresis.     *)

Slid(speech) == Append(Tail(win_state), speech)
WinSum(speech) == Cardinality({k \in 1..Win : Slid(speech)[k]})

Sil2Speech(speech) == ~pre_frame_state /\ WinSum(speech) >= SilToSpeech
Sil2Sil(speech) == ~pre_frame_state /\ WinSum(speech) < SilToSpeech
Speech2Sil(speech) == pre_frame_state /\ WinSum(speech) <= SpeechToSil

WindowMoves(speech) ==
    /\ win_state' = Slid(speech)
    /\ pre_frame_state' = ((pre_frame_state \/ Sil2Speech(speech)) /\ ~Speech2Sil(speech))

-----------------------------------------------------------------------------
(* E2EVadModel::DetectOneFrame.                                              *)

LatencyFrmNumAtStartPoint == Win + Lookback

max_end_sil_frame_cnt_thresh == max_end_sil - Ms(SpeechToSil)

\* Variant: the length is counted from the last confirmed speech.
TooLongSinceSpeech ==
    cur_frm_idx - latest_confirmed_speech_frame + 1
        > max_single_segment_time \div FrameMs

\* The segment has reached max_single_segment_time.
TooLong ==
    cur_frm_idx - confirmed_start_frame + 1 > max_single_segment_time \div FrameMs

\* Variant: without its "lookback_frame -= 1".
LookbackOneMore == Larger(0, max_end_sil_frame_cnt_thresh \div FrameMs - Lookahead)

\* The silence that ends a segment, and how far before it the segment ends.
SilentFor(n) == Ms(n) >= max_end_sil_frame_cnt_thresh
lookback_frame ==
    Larger(0, max_end_sil_frame_cnt_thresh \div FrameMs - Lookahead - 1)

\* Multi-utterance mode: the detector is reset as soon as an end is detected.
ResetDetection ==
    /\ win_state' = Silence /\ pre_frame_state' = FALSE
    /\ vad_state_machine' = "before"
    /\ confirmed_start_frame' = None
    /\ latest_confirmed_speech_frame' = 0
    /\ lastest_confirmed_silence_frame' = None
    /\ continous_silence_frame_count' = 0

EndsAt(f, toEnd) ==
    /\ buf' = OnVoiceEnd(buf, f, toEnd)
    /\ number_end_time_detected' = number_end_time_detected + 1
    /\ ResetDetection

\* Enough speech in the window: the segment began up to a latency ago.
SegmentBegins(speech) ==
    /\ pc = "frames" /\ vad_state_machine = "before" /\ Sil2Speech(speech)
    /\ LET start == Larger(buf.start_frame,
                           cur_frm_idx - LatencyFrmNumAtStartPoint)
       IN  /\ buf' = OnVoiceDetected(OnVoiceStart(buf, start), start + 1, cur_frm_idx)
           /\ confirmed_start_frame' = start
           /\ latest_confirmed_speech_frame' =
                IF start < cur_frm_idx THEN cur_frm_idx
                                       ELSE latest_confirmed_speech_frame
    /\ vad_state_machine' = "in"
    /\ continous_silence_frame_count' = 0
    /\ WindowMoves(speech) /\ NextFrame
    /\ UNCHANGED <<lastest_confirmed_silence_frame, number_end_time_detected>>

\* In a segment, anything but lasting silence: Sil2Speech also takes the frames
\* that silence had left out.
SegmentGrows(speech) ==
    /\ pc = "frames" /\ vad_state_machine = "in" /\ ~Sil2Sil(speech)
    /\ ~TooLong /\ ~is_final_frame
    /\ buf' = OnVoiceDetected(buf, IF Sil2Speech(speech)
                                   THEN latest_confirmed_speech_frame + 1
                                   ELSE cur_frm_idx, cur_frm_idx)
    /\ latest_confirmed_speech_frame' = cur_frm_idx
    /\ continous_silence_frame_count' = 0
    /\ WindowMoves(speech) /\ NextFrame
    /\ UNCHANGED <<vad_state_machine, confirmed_start_frame,
                   lastest_confirmed_silence_frame, number_end_time_detected>>

\* The segment is cut because it is too long, or because the stream ends.
SegmentIsCut(speech) ==
    /\ pc = "frames" /\ vad_state_machine = "in" /\ ~Sil2Sil(speech)
    /\ TooLong \/ is_final_frame
    /\ EndsAt(cur_frm_idx, ~TooLong)
    /\ NextFrame

\* In a segment the silence lasts.
SilenceEnds(speech) ==
    /\ pc = "frames" /\ vad_state_machine = "in" /\ Sil2Sil(speech)
    /\ LET count == continous_silence_frame_count + 1
       IN  \/ /\ SilentFor(count)
              /\ EndsAt(cur_frm_idx - lookback_frame, FALSE)
           \/ /\ ~SilentFor(count) /\ TooLong
              /\ EndsAt(cur_frm_idx, FALSE)
           \/ /\ ~SilentFor(count) /\ ~TooLong /\ is_final_frame
              /\ EndsAt(cur_frm_idx, TRUE)
    /\ NextFrame

\* Silence up to the lookahead still belongs to the segment.
SilenceGrows(speech) ==
    /\ pc = "frames" /\ vad_state_machine = "in" /\ Sil2Sil(speech)
    /\ continous_silence_frame_count' = continous_silence_frame_count + 1
    /\ ~SilentFor(continous_silence_frame_count') /\ ~TooLong /\ ~is_final_frame
    /\ IF continous_silence_frame_count' <= Lookahead
       THEN /\ buf' = OnVoiceDetected(buf, cur_frm_idx, cur_frm_idx)
            /\ latest_confirmed_speech_frame' = cur_frm_idx
       ELSE UNCHANGED <<buf, latest_confirmed_speech_frame>>
    /\ WindowMoves(speech) /\ NextFrame
    /\ UNCHANGED <<vad_state_machine, confirmed_start_frame,
                   lastest_confirmed_silence_frame, number_end_time_detected>>

\* Silence before any segment: the audio that can no longer begin one is popped.
StillSilent(speech) ==
    /\ pc = "frames" /\ vad_state_machine = "before" /\ Sil2Sil(speech)
    /\ ~(is_final_frame /\ number_end_time_detected = 0)
    /\ continous_silence_frame_count' = continous_silence_frame_count + 1
    /\ IF cur_frm_idx >= LatencyFrmNumAtStartPoint
       THEN /\ buf' = PopDataBufTillFrame(buf, cur_frm_idx - LatencyFrmNumAtStartPoint)
            /\ lastest_confirmed_silence_frame' =
                 cur_frm_idx - LatencyFrmNumAtStartPoint
       ELSE UNCHANGED <<buf, lastest_confirmed_silence_frame>>
    /\ WindowMoves(speech) /\ NextFrame
    /\ UNCHANGED <<vad_state_machine, confirmed_start_frame,
                   latest_confirmed_speech_frame, number_end_time_detected>>

\* A stream that ends without any segment: a fake one is opened and closed.
NeverSpoke(speech) ==
    /\ pc = "frames" /\ vad_state_machine = "before" /\ Sil2Sil(speech)
    /\ is_final_frame /\ number_end_time_detected = 0
    /\ buf' = IF lastest_confirmed_silence_frame + 1 < cur_frm_idx
              THEN PopDataBufTillFrame(buf, cur_frm_idx - 1) ELSE buf
    /\ number_end_time_detected' = number_end_time_detected + 1
    /\ ResetDetection /\ NextFrame

DetectOneFrame(speech) ==
    \/ SegmentBegins(speech) \/ SegmentGrows(speech) \/ SegmentIsCut(speech)
    \/ SilenceEnds(speech) \/ SilenceGrows(speech)
    \/ StillSilent(speech) \/ NeverSpoke(speech)

-----------------------------------------------------------------------------
(* The segments of the call, from output_data_buf_offset on.                 *)

Entry == buf.out[i]

Emits ==
    /\ pc = "emit" /\ i <= Len(buf.out)
    /\ i' = i + 1
    /\ UNCHANGED <<pc, todo, is_final, frm_cnt, detectVars,
                   number_end_time_detected, optVars, buf, streams>>

\* The beginning of the entry was told in an earlier call.
EmitSkips ==
    /\ Emits
    /\ ~Entry.begun \/ (~next_seg /\ ~Entry.ended)
    /\ UNCHANGED emitVars

EmitOpens ==
    /\ Emits
    /\ Entry.begun /\ ~Entry.ended /\ next_seg
    /\ open' = Entry.start_ms /\ next_seg' = FALSE
    /\ UNCHANGED <<output_data_buf_offset, last>>

\* Variant: output_data_buf_offset stays where it is.
EmitClosesAgain ==
    /\ Emits
    /\ Entry.begun /\ Entry.ended
    /\ open' = None /\ last' = Entry.end_ms /\ next_seg' = TRUE
    /\ UNCHANGED output_data_buf_offset

\* [-1, end_ms], or [start_ms, end_ms] when its beginning was not told.
EmitCloses ==
    /\ Emits
    /\ Entry.begun /\ Entry.ended
    /\ open' = None /\ last' = Entry.end_ms /\ next_seg' = TRUE
    /\ output_data_buf_offset' = output_data_buf_offset + 1

Returns ==
    /\ pc = "emit" /\ i > Len(buf.out) /\ ~is_final
    /\ pc' = "idle"
    /\ UNCHANGED <<todo, is_final, i, frm_cnt, detectVars,
                   number_end_time_detected, optVars, buf, emitVars, streams>>

\* Variant: AllResetDetection forgets output_data_buf_offset.
ReturnsFinalKeepsOffset ==
    /\ pc = "emit" /\ i > Len(buf.out) /\ is_final
    /\ pc' = "idle" /\ streams' = streams + 1
    /\ frm_cnt' = 0 /\ number_end_time_detected' = 0
    /\ buf' = AllResetDetection(buf)
    /\ next_seg' = TRUE /\ open' = None /\ last' = 0
    /\ ResetDetection
    /\ UNCHANGED <<todo, is_final, i, optVars, output_data_buf_offset>>

\* The last call of a stream; Audio::ResetIndex resets the reader as well.
ReturnsFinal ==
    /\ pc = "emit" /\ i > Len(buf.out) /\ is_final
    /\ pc' = "idle" /\ streams' = streams + 1
    /\ frm_cnt' = 0 /\ number_end_time_detected' = 0
    /\ buf' = AllResetDetection(buf)
    /\ next_seg' = TRUE /\ output_data_buf_offset' = 0
    /\ open' = None /\ last' = 0
    /\ ResetDetection
    /\ UNCHANGED <<todo, is_final, i, optVars>>

-----------------------------------------------------------------------------
Next ==
    \/ \E n \in 1..MaxBlock, final \in BOOLEAN, overlap \in Overlaps,
          end_sil \in EndSils, max_seg \in MaxSegs :
            Call(n, final, overlap, end_sil, max_seg)
    \/ \E speech \in BOOLEAN : DetectOneFrame(speech)
    \/ EmitSkips \/ EmitOpens \/ EmitCloses \/ Returns \/ ReturnsFinal

Spec == Init /\ [][Next]_vars

-----------------------------------------------------------------------------
(* Properties.                                                               *)

TypeOK ==
    /\ pc \in {"idle", "frames", "emit"} /\ is_final \in BOOLEAN
    /\ todo \in 0..MaxBlock /\ frm_cnt \in 0..MaxFrames
    /\ pc = "frames" => todo \in 1..frm_cnt
    /\ win_state \in [1..Win -> BOOLEAN] /\ pre_frame_state \in BOOLEAN
    /\ vad_state_machine \in {"before", "in"}
    /\ confirmed_start_frame \in None..MaxFrames
    /\ latest_confirmed_speech_frame \in 0..MaxFrames
    /\ lastest_confirmed_silence_frame \in None..MaxFrames
    /\ continous_silence_frame_count \in 0..MaxFrames
    /\ number_end_time_detected \in 0..MaxFrames
    /\ max_end_sil \in EndSils \cup {0} /\ max_single_segment_time \in MaxSegs \cup {0}
    /\ buf.start_frame \in Nat /\ buf.size \in Int /\ buf.all_size \in Nat
    /\ buf.faults \subseteq {"loop", "size", "gap"}
    /\ \A k \in DOMAIN buf.out :
          /\ buf.out[k].start_ms \in Nat /\ buf.out[k].end_ms \in Nat
          /\ buf.out[k].begun \in BOOLEAN /\ buf.out[k].ended \in BOOLEAN
    /\ next_seg \in BOOLEAN /\ output_data_buf_offset \in 0..Len(buf.out)
    /\ i \in 1..MaxFrames + 1
    /\ open \in Int /\ last \in Nat /\ streams \in Nat

\* The detector never prints that its data_buf is too short or that a segment
\* has a gap (lines 483, 494, 504 and 511), and PopDataBufTillFrame always ends.
NoFault == buf.faults = {}

\* However speech and silence follow each other and whatever the client asks
\* for meanwhile, the segments operator() returns alternate beginnings and ends
\* that move forward within the audio it was given.
\* A beginning is told in the call that finds it.
Segments == INSTANCE SegmentStream WITH
    heard <- Ms(frm_cnt),
    Lag <- Ms(LatencyFrmNumAtStartPoint + MaxBlock)
SegmentsInOrder == Segments!Spec

\* No segment outgrows the longest the client allowed by more than one frame,
\* unless the speech found at its beginning already does: what a segment takes
\* back on SegmentBegins is not limited by max_single_segment_time.
LongestFrames ==
    LET M == CHOOSE m \in MaxSegs : \A k \in MaxSegs : k <= m
    IN  Larger(M \div FrameMs + 1, LatencyFrmNumAtStartPoint + 2)
SegmentsBounded ==
    \A k \in DOMAIN buf.out :
        buf.out[k].end_ms - buf.out[k].start_ms <= Ms(LongestFrames)

\* The last call of a stream closes the segment that is open, but for one that
\* began on the very last frame: no more than the latency of a beginning is lost
\* with it.
FinalCloses ==
    [][streams' # streams =>
          \/ open = None
          \/ /\ Ms(confirmed_start_frame) = open
             /\ frm_cnt - confirmed_start_frame <= LatencyFrmNumAtStartPoint + 1]_vars
=============================================================================
