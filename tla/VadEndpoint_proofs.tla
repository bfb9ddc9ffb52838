--------------------------- MODULE VadEndpoint_proofs --------------------------
(***************************************************************************)
(* Proofs about VadEndpoint, for any frame and window sizes, any options of *)
(* the client and any speech: the detector's own accounting never fails,    *)
(* its segments are bounded, and a reader of them sees a SegmentStream.     *)
(***************************************************************************)
EXTENDS VadEndpoint, TLAPS, FiniteSetTheorems

-----------------------------------------------------------------------------
(* The inductive invariant.                                                  *)

Latency == LatencyFrmNumAtStartPoint

\* The frames of the call are counted down, and only in the loop.
Frames ==
    /\ todo \in 0..MaxBlock /\ todo <= frm_cnt
    /\ pc = "frames" <=> todo # 0
    /\ pc = "frames" => max_single_segment_time \in MaxSegs

\* The audio kept covers all frames; what data_buf says it holds is a whole frame.
Audio ==
    /\ frm_cnt > 0 => buf.all_size >= Ms(frm_cnt - 1) + FrameLenMs
    /\ buf.all_size > 0 => buf.size >= FrameLenMs

\* The segments so far: in order, in the audio, bounded, all but the last ended.
InOutput(out, k, frames) ==
    /\ out[k].begun
    /\ out[k].start_ms < out[k].end_ms /\ out[k].end_ms <= Ms(frames)
    /\ out[k].end_ms - out[k].start_ms <= Ms(LongestFrames)
    /\ k < Len(out) => out[k].ended /\ out[k].end_ms <= out[k + 1].start_ms
Output == \A k \in 1..Len(buf.out) : InOutput(buf.out, k, frm_cnt)

LastOut == buf.out[Len(buf.out)]

\* Outside a segment: what was told ends before the audio that may begin the next one.
Outside ==
    vad_state_machine = "before" =>
        /\ ~pre_frame_state
        /\ buf.start_frame <= cur_frm_idx
        /\ buf.start_frame = cur_frm_idx => win_state = Silence
        /\ buf.out # <<>> => LastOut.ended /\ LastOut.end_ms <= Ms(buf.start_frame)

\* In a segment: output_data_buf reaches to the last confirmed speech, behind which
\* there is nothing but the silence beyond the lookahead.
Inside ==
    vad_state_machine = "in" =>
        /\ buf.out # <<>> /\ ~LastOut.ended
        /\ LastOut.start_ms = Ms(confirmed_start_frame)
        /\ LastOut.end_ms = Ms(latest_confirmed_speech_frame + 1)
        /\ confirmed_start_frame \in 0..latest_confirmed_speech_frame
        /\ buf.start_frame = latest_confirmed_speech_frame + 1
        /\ cur_frm_idx = latest_confirmed_speech_frame + 1
                           + Larger(0, continous_silence_frame_count - Lookahead)
        /\ pre_frame_state => continous_silence_frame_count = 0
        /\ cur_frm_idx - confirmed_start_frame < LongestFrames

\* A stream can end in a segment only if it began on its last frame.
EndsInside ==
    pc = "emit" /\ is_final /\ vad_state_machine = "in" =>
        frm_cnt - confirmed_start_frame <= Latency + 1

Counted ==
    /\ number_end_time_detected <= cur_frm_idx
    /\ continous_silence_frame_count <= cur_frm_idx
    /\ Len(buf.out) <= cur_frm_idx

\* The entries whose beginning a reader knows.
Told == IF next_seg THEN output_data_buf_offset ELSE output_data_buf_offset + 1

\* What a reader was told, and what is left to tell of this call.
Reader ==
    /\ next_seg <=> open = None
    /\ Told <= Len(buf.out)
    /\ ~next_seg => open = buf.out[Told].start_ms
    /\ last = IF output_data_buf_offset = 0 THEN 0
              ELSE buf.out[output_data_buf_offset].end_ms
    /\ output_data_buf_offset > 0 => buf.out[output_data_buf_offset].ended
    /\ pc = "idle" => Told = Len(buf.out)
    /\ pc = "emit" => \/ i = output_data_buf_offset + 1
                      \/ /\ ~next_seg /\ ~LastOut.ended
                         /\ i = Len(buf.out) + 1 /\ Told = Len(buf.out)
    /\ \A k \in Told + 1..Len(buf.out) :
          buf.out[k].start_ms >= Ms(frm_cnt - Latency - MaxBlock)

Entries == [start_ms : Nat, end_ms : Nat, begun : BOOLEAN, ended : BOOLEAN]
Bufs == [start_frame : Nat, size : Int, all_size : Nat, out : Seq(Entries),
         faults : SUBSET {"loop", "size", "gap"}]

IndInv ==
    /\ TypeOK /\ NoFault /\ buf \in Bufs
    /\ Frames /\ Audio /\ Output /\ Outside /\ Inside /\ EndsInside
    /\ Counted /\ Reader

-----------------------------------------------------------------------------
(* Arithmetic: frames, and their times.                                      *)

LEMMA Constants ==
    /\ FrameMs \in Nat /\ FrameMs > 0 /\ FrameLenMs \in Nat /\ FrameMs <= FrameLenMs
    /\ Latency \in Nat /\ Latency >= 2
    /\ MaxBlock \in Nat /\ MaxBlock > 0 /\ MaxFrames \in Nat
BY FrameAssumption, WindowAssumption, BoundAssumption
   DEF Latency, LatencyFrmNumAtStartPoint

LEMMA MsType ==
    ASSUME NEW a \in Int
    PROVE  Ms(a) \in Int /\ (a >= 0 => Ms(a) >= 0)
BY Constants, SMT DEF Ms

LEMMA MsNat ==
    ASSUME NEW a \in Nat
    PROVE  Ms(a) \in Nat /\ Ms(a + 1) \in Nat
BY Constants, SMT DEF Ms

LEMMA MsMonotone ==
    ASSUME NEW a \in Int, NEW b \in Int
    PROVE  /\ a <= b => Ms(a) <= Ms(b)
           /\ a < b => Ms(a) < Ms(b)
<1>1. FrameMs \in Int /\ FrameMs > 0 /\ a * FrameMs \in Int /\ b * FrameMs \in Int
  BY Constants
<1>2. a <= b => (b - a) * FrameMs >= 0
  BY <1>1, SMT
<1>3. a < b => (b - a) * FrameMs > 0
  BY <1>1, SMT
<1>4. (b - a) * FrameMs = b * FrameMs - a * FrameMs
  BY <1>1, SMT
<1> QED BY <1>1, <1>2, <1>3, <1>4 DEF Ms

LEMMA MsSum ==
    ASSUME NEW a \in Int, NEW b \in Int
    PROVE  Ms(a + b) = Ms(a) + Ms(b) /\ Ms(a - b) = Ms(a) - Ms(b)
BY Constants, SMT DEF Ms

LEMMA MsStep ==
    ASSUME NEW a \in Int
    PROVE  Ms(a + 1) = Ms(a) + FrameMs /\ Ms(a - 1) = Ms(a) - FrameMs
BY Constants, SMT DEF Ms

\* The quotient of a time and the length of a frame.
LEMMA Quotient ==
    ASSUME NEW m \in Int
    PROVE  m \div FrameMs \in Int /\ Ms(m \div FrameMs) <= m /\ m < Ms(m \div FrameMs + 1)
BY Constants, SMT DEF Ms

\* Frames that last as long as a time are no fewer than it holds.
LEMMA QuotientBelow ==
    ASSUME NEW m \in Int, NEW n \in Int, m <= Ms(n)
    PROVE  m \div FrameMs <= n
<1> DEFINE q == m \div FrameMs
<1>1. q \in Int /\ Ms(q) <= m
  BY Quotient
<1> HIDE DEF q
<1>2. n < q => Ms(n) < Ms(q)
  BY <1>1, MsMonotone
<1>3. Ms(n) \in Int /\ Ms(q) \in Int
  BY <1>1, MsType
<1>4. q <= n
  BY <1>1, <1>2, <1>3
<1> QED BY <1>4 DEF q

LEMMA QuotientMonotone ==
    ASSUME NEW m \in Int, NEW n \in Int, m <= n
    PROVE  m \div FrameMs <= n \div FrameMs
<1> DEFINE p == m \div FrameMs
           q == n \div FrameMs
<1>1. p \in Int /\ q \in Int /\ Ms(p) <= m /\ n < Ms(q + 1)
  BY Quotient
<1> HIDE DEF p, q
<1>2. q + 1 \in Int /\ Ms(p) \in Int /\ Ms(q + 1) \in Int
  BY <1>1, MsType
<1>3. q + 1 <= p => Ms(q + 1) <= Ms(p)
  BY <1>1, <1>2, MsMonotone
<1>4. p <= q
  BY <1>1, <1>2, <1>3
<1> QED BY <1>4 DEF p, q

LEMMA Longest ==
    /\ LongestFrames \in Int /\ LongestFrames >= Latency + 2
    /\ \A m \in MaxSegs : m \div FrameMs + 1 <= LongestFrames
<1> DEFINE M == CHOOSE m \in MaxSegs : \A k \in MaxSegs : k <= m
<1>1. M \in MaxSegs /\ \A k \in MaxSegs : k <= M
  BY LongestAssumption
<1>2. M \in Int /\ M \div FrameMs \in Int
  BY <1>1, RequestAssumption, Quotient
<1>3. LongestFrames = Larger(M \div FrameMs + 1, Latency + 2)
  BY DEF LongestFrames, Latency
<1> HIDE DEF M
<1>4. /\ LongestFrames \in Int /\ LongestFrames >= Latency + 2
      /\ M \div FrameMs + 1 <= LongestFrames
  BY <1>2, <1>3, Constants DEF Larger
<1>5. ASSUME NEW m \in MaxSegs PROVE m \div FrameMs + 1 <= LongestFrames
  <2>1. m \in Int /\ m \div FrameMs \in Int /\ m \div FrameMs <= M \div FrameMs
    BY <1>1, <1>2, RequestAssumption, Quotient, QuotientMonotone
  <2> QED BY <1>2, <1>4, <2>1
<1> QED BY <1>4, <1>5
-----------------------------------------------------------------------------
(* What the operations on data_buf and output_data_buf give.                 *)

\* The audio kept covers frame c, and data_buf holds a whole frame.
Covers(b, c) ==
    b \in Bufs /\ b.faults = {} /\ b.size >= FrameLenMs /\ b.all_size >= Ms(c) + FrameLenMs

\* c is b whose last segment goes on to frame f, or ends there.
GrownTo(c, b, f, ended) ==
    /\ c.start_frame = f + 1
    /\ Len(c.out) = Len(b.out)
    /\ \A k \in 1..Len(b.out) - 1 : c.out[k] = b.out[k]
    /\ LET n == Len(b.out)
       IN  /\ c.out[n].start_ms = b.out[n].start_ms /\ c.out[n].begun = b.out[n].begun
           /\ c.out[n].end_ms = Ms(f + 1) /\ c.out[n].ended = ended

\* c is b with one more segment, of the frames from start to f.
BegunAt(c, b, start, f) ==
    /\ c.start_frame = f + 1
    /\ c.out = Append(b.out, [start_ms |-> Ms(start), end_ms |-> Ms(f + 1),
                              begun |-> TRUE, ended |-> FALSE])

LEMMA PopDataBuf ==
    ASSUME NEW b, NEW c \in Nat, Covers(b, c), NEW f \in Nat, f <= c
    PROVE  LET p == PopDataBufTillFrame(b, f)
           IN  /\ Covers(p, c) /\ p.out = b.out /\ p.all_size = b.all_size
               /\ p.start_frame = Larger(b.start_frame, f)
<1> DEFINE p == PopDataBufTillFrame(b, f)
<1>1. /\ b \in Bufs /\ b.faults = {} /\ b.size >= FrameLenMs
      /\ b.all_size >= Ms(c) + FrameLenMs
      /\ b.start_frame \in Nat /\ b.size \in Int /\ b.all_size \in Nat
  BY DEF Covers, Bufs
<1>2. /\ Ms(f) \in Int /\ Ms(c) \in Int /\ Ms(f - 1) = Ms(f) - FrameMs /\ Ms(f) <= Ms(c)
  <2>1. f \in Int /\ c \in Int /\ f - 1 \in Int
    OBVIOUS
  <2>2. Ms(f - 1) = Ms(f) - FrameMs
    BY <2>1, MsStep
  <2> QED BY <2>1, <2>2, MsType, MsMonotone
<1>3. CASE b.start_frame >= f
  <2>1. p = b
    BY <1>3 DEF PopDataBufTillFrame
  <2>2. b.start_frame = Larger(b.start_frame, f)
    BY <1>1, <1>3 DEF Larger
  <2> QED BY <2>1, <2>2
<1>4. CASE b.start_frame < f
  <2>1. ~(b.start_frame >= f)
    BY <1>1, <1>4
  <2>2. ~(b.size < FrameMs)
    BY <1>1, Constants
  <2>3. ~(b.all_size - Ms(f - 1) < FrameMs)
    BY <1>1, <1>2, Constants
  <2>4. p = [b EXCEPT !.start_frame = f, !.size = b.all_size - Ms(f)]
    BY <2>1, <2>2, <2>3 DEF PopDataBufTillFrame
  <2>5. b.all_size - Ms(f) \in Int /\ b.all_size - Ms(f) >= FrameLenMs
    BY <1>1, <1>2, Constants
  <2>6. /\ p.start_frame = f /\ p.size = b.all_size - Ms(f) /\ p.all_size = b.all_size
        /\ p.out = b.out /\ p.faults = b.faults /\ p \in Bufs
    BY <1>1, <2>4, <2>5 DEF Bufs
  <2>7. Covers(p, c)
    BY <1>1, <2>5, <2>6 DEF Covers
  <2>8. f = Larger(b.start_frame, f)
    BY <1>1, <1>4 DEF Larger
  <2> QED BY <2>6, <2>7, <2>8
<1> QED BY <1>1, <1>3, <1>4

\* A frame that goes on where the last segment ended so far.
LEMMA PopDataNext ==
    ASSUME NEW b, NEW c \in Nat, Covers(b, c), NEW f \in Nat, f <= c,
           b.start_frame = f, b.out # <<>>, b.out[Len(b.out)].end_ms = Ms(f),
           ~b.out[Len(b.out)].ended,
           NEW ends \in BOOLEAN, NEW toEnd \in BOOLEAN
    PROVE  LET p == PopDataToOutputBuf(b, f, FALSE, ends, toEnd)
           IN  Covers(p, c) /\ p.all_size = b.all_size /\ GrownTo(p, b, f, ends)
<1> DEFINE q == PopDataBufTillFrame(b, f)
           expected == IF ends THEN FrameLenMs ELSE FrameMs
           wanted == IF toEnd THEN Larger(expected, q.size) ELSE expected
           n == Len(b.out)
           e == [b.out[n] EXCEPT !.end_ms = Ms(f + 1), !.begun = @ \/ FALSE, !.ended = @ \/ ends]
           p == PopDataToOutputBuf(b, f, FALSE, ends, toEnd)
<1>1. /\ b \in Bufs /\ b.faults = {} /\ b.size >= FrameLenMs
      /\ b.all_size >= Ms(c) + FrameLenMs
      /\ b.out \in Seq(Entries) /\ b.start_frame \in Nat /\ b.size \in Int
  BY DEF Covers, Bufs
<1>2. n \in Nat /\ n > 0 /\ n \in DOMAIN b.out /\ b.out[n] \in Entries
  BY <1>1
<1>3. q = b
  BY <1>1 DEF PopDataBufTillFrame
<1>4. expected <= FrameLenMs /\ expected \in Int
  BY Constants
<1>5. wanted <= b.size
  BY <1>1, <1>3, <1>4, Constants DEF Larger
<1>6. ~(b.size < wanted)
  BY <1>1, <1>3, <1>4, <1>5, Constants DEF Larger
<1> DEFINE grown == [b.out EXCEPT ![n].end_ms = Ms(f + 1), ![n].begun = @ \/ FALSE,
                                  ![n].ended = @ \/ ends]
           size == IF b.size < wanted THEN {"size"} ELSE {}
           gap == IF b.out[n].end_ms # Ms(f) THEN {"gap"} ELSE {}
           out == IF q.out = <<>> \/ FALSE
                  THEN Append(q.out, [start_ms |-> Ms(f), end_ms |-> Ms(f),
                                      begun |-> FALSE, ended |-> FALSE])
                  ELSE q.out
<1>7. p = [b EXCEPT !.start_frame = @ + 1, !.out = grown, !.faults = @ \cup size \cup gap]
  <2>1. p = [q EXCEPT !.start_frame = @ + 1,
                      !.out = [out EXCEPT ![Len(out)].end_ms = Ms(f + 1),
                                          ![Len(out)].begun = @ \/ FALSE,
                                          ![Len(out)].ended = @ \/ ends],
                      !.faults = @ \cup (IF q.size < wanted THEN {"size"} ELSE {})
                          \cup (IF out[Len(out)].end_ms # Ms(f) THEN {"gap"} ELSE {})]
    BY DEF PopDataToOutputBuf
  <2>2. out = b.out
    BY <1>3
  <2> HIDE DEF out, q, p, wanted
  <2> QED BY <1>3, <2>1, <2>2
<1>8. Ms(f + 1) \in Nat
  BY MsNat
<1>9. e \in Entries /\ e.start_ms = b.out[n].start_ms /\ e.begun = b.out[n].begun
      /\ e.end_ms = Ms(f + 1) /\ e.ended = ends
  BY <1>2, <1>8 DEF Entries
<1>10. grown = [b.out EXCEPT ![n] = e]
  BY <1>1, <1>2
<1> DEFINE o == [b.out EXCEPT ![n] = e]
<1>11. /\ o \in Seq(Entries) /\ Len(o) = n /\ o[n] = e
       /\ \A k \in 1..n - 1 : o[k] = b.out[k]
  BY <1>1, <1>2, <1>9
<1>12. /\ p.start_frame = f + 1 /\ p.out = o /\ p.faults = {} /\ p.size = b.size
       /\ p.all_size = b.all_size /\ p \in Bufs
  <2>1. size = {} /\ gap = {}
    BY <1>6
  <2>2. b.faults \cup size \cup gap = {}
    BY <1>1, <2>1
  <2>3. b.start_frame + 1 = f + 1 /\ grown = o
    BY <1>10
  <2> HIDE DEF o, e, grown, size, gap, p
  <2>4. p = [b EXCEPT !.start_frame = f + 1, !.out = o, !.faults = {}]
    BY <1>7, <2>2, <2>3
  <2>5. f + 1 \in Nat /\ o \in Seq(Entries) /\ b \in Bufs
    BY <1>1, <1>11
  <2>6. p.start_frame = f + 1
    BY <2>4, <2>5 DEF Bufs
  <2>7. p.out = o
    BY <2>4, <2>5 DEF Bufs
  <2>8. p.faults = {}
    BY <2>4, <2>5 DEF Bufs
  <2>9. p.size = b.size /\ p.all_size = b.all_size
    BY <2>4, <2>5 DEF Bufs
  <2>10. p \in Bufs
    BY <2>4, <2>5 DEF Bufs
  <2> QED BY <2>6, <2>7, <2>8, <2>9, <2>10
<1> HIDE DEF o, e, p
<1>13. Covers(p, c)
  BY <1>1, <1>12 DEF Covers
<1>14. GrownTo(p, b, f, ends)
  BY <1>9, <1>11, <1>12 DEF GrownTo
<1> QED BY <1>12, <1>13, <1>14 DEF p

\* The first frame of a segment, at or after the start of data_buf.
LEMMA VoiceStarts ==
    ASSUME NEW b, NEW c \in Nat, Covers(b, c), NEW f \in Nat, f <= c, b.start_frame <= f
    PROVE  LET p == OnVoiceStart(b, f)
           IN  Covers(p, c) /\ p.all_size = b.all_size /\ BegunAt(p, b, f, f)
<1> DEFINE q == PopDataBufTillFrame(b, f)
           new == [start_ms |-> Ms(f), end_ms |-> Ms(f), begun |-> FALSE, ended |-> FALSE]
           out == Append(q.out, new)
           n == Len(out)
           e == [start_ms |-> Ms(f), end_ms |-> Ms(f + 1), begun |-> TRUE, ended |-> FALSE]
           p == OnVoiceStart(b, f)
           grown == [out EXCEPT ![n].end_ms = Ms(f + 1), ![n].begun = @ \/ TRUE,
                                ![n].ended = @ \/ FALSE]
           size == IF q.size < FrameMs THEN {"size"} ELSE {}
           gap == IF out[n].end_ms # Ms(f) THEN {"gap"} ELSE {}
<1>1. /\ Covers(q, c) /\ q.out = b.out /\ q.all_size = b.all_size
      /\ q.start_frame = Larger(b.start_frame, f)
  BY PopDataBuf
<1>2. /\ q \in Bufs /\ q.faults = {} /\ q.size >= FrameLenMs
      /\ q.all_size >= Ms(c) + FrameLenMs
      /\ q.out \in Seq(Entries) /\ q.size \in Int
  BY <1>1 DEF Covers, Bufs
<1>3. q.start_frame = f
  <2>1. b.start_frame \in Nat
    BY DEF Covers, Bufs
  <2> QED BY <1>1, <2>1 DEF Larger
<1>4. p = [q EXCEPT !.start_frame = @ + 1, !.out = grown, !.faults = @ \cup size \cup gap]
  BY DEF OnVoiceStart, PopDataToOutputBuf
<1>5. Ms(f) \in Nat /\ Ms(f + 1) \in Nat
  BY MsNat
<1>6. new \in Entries /\ e \in Entries
  BY <1>5 DEF Entries
<1> HIDE DEF q
<1>7. out \in Seq(Entries) /\ n \in Nat /\ n > 0 /\ n \in DOMAIN out /\ out[n] = new
  BY <1>2, <1>6
<1>8. size = {} /\ gap = {}
  BY <1>2, <1>7, Constants
<1>9. q.faults \cup size \cup gap = {}
  BY <1>2, <1>8
<1>10. [out[n] EXCEPT !.end_ms = Ms(f + 1), !.begun = @ \/ TRUE, !.ended = @ \/ FALSE] = e
  <2> DEFINE w == [out[n] EXCEPT !.end_ms = Ms(f + 1), !.begun = @ \/ TRUE,
                                 !.ended = @ \/ FALSE]
  <2>1. out[n] \in Entries /\ out[n].start_ms = Ms(f) /\ out[n].ended = FALSE
    BY <1>6, <1>7
  <2> HIDE DEF out, n, new, e
  <2>2. /\ w \in Entries /\ w.start_ms = Ms(f) /\ w.end_ms = Ms(f + 1)
        /\ w.begun = TRUE /\ w.ended = FALSE
    BY <1>5, <2>1 DEF Entries
  <2> HIDE DEF w
  <2>3. w = e
    BY <1>6, <2>2 DEF Entries, e
  <2> QED BY <2>3 DEF w
<1>11. grown = [out EXCEPT ![n] = e]
  BY <1>7, <1>10
<1>12. [out EXCEPT ![n] = e] = Append(q.out, e)
  <2> DEFINE l == [out EXCEPT ![n] = e]
             r == Append(q.out, e)
  <2>1. n = Len(q.out) + 1 /\ \A k \in 1..n - 1 : out[k] = q.out[k]
    BY <1>2, <1>6
  <2>2. r \in Seq(Entries) /\ Len(r) = n /\ r[n] = e /\ \A k \in 1..n - 1 : r[k] = q.out[k]
    BY <1>2, <1>6, <2>1
  <2> HIDE DEF out, n, e
  <2>3. l \in Seq(Entries) /\ Len(l) = Len(out) /\ l[n] = e
    BY <1>6, <1>7
  <2>4. ASSUME NEW k \in 1..n - 1 PROVE l[k] = out[k]
    BY <1>7
  <2>5. Len(out) = n
    BY DEF n
  <2> HIDE DEF l, r
  <2>6. ASSUME NEW k \in 1..n PROVE l[k] = r[k]
    <3>1. n \in Int /\ (k \in 1..n - 1 \/ k = n)
      BY <1>7
    <3>2. CASE k = n
      BY <2>2, <2>3, <3>2
    <3>3. CASE k \in 1..n - 1
      BY <2>1, <2>2, <2>4, <3>3
    <3> QED BY <3>1, <3>2, <3>3
  <2>7. l = r
    BY <2>2, <2>3, <2>5, <2>6
  <2> QED BY <2>7 DEF l, r
<1> DEFINE o == Append(q.out, e)
<1>13. q.start_frame + 1 = f + 1 /\ grown = o
  BY <1>3, <1>11, <1>12
<1>14. f + 1 \in Nat /\ o \in Seq(Entries)
  BY <1>2, <1>6
<1> HIDE DEF o, e, grown, size, gap, p, out, new, n
<1>15. p = [q EXCEPT !.start_frame = f + 1, !.out = o, !.faults = {}]
  BY <1>4, <1>9, <1>13
<1>16. p.start_frame = f + 1
  BY <1>2, <1>15 DEF Bufs
<1>17. p.out = o
  BY <1>2, <1>15 DEF Bufs
<1>18. p.faults = {}
  BY <1>2, <1>15 DEF Bufs
<1>19. p.size = q.size /\ p.all_size = q.all_size
  BY <1>2, <1>15 DEF Bufs
<1>20. p \in Bufs
  BY <1>2, <1>14, <1>15 DEF Bufs
<1>21. Covers(p, c)
  BY <1>2, <1>18, <1>19, <1>20 DEF Covers
<1>22. BegunAt(p, b, f, f)
  BY <1>1, <1>16, <1>17 DEF BegunAt, o, e
<1> QED BY <1>1, <1>19, <1>21, <1>22 DEF p

\* Frames that go on where the last segment ended so far.
LEMMA VoiceDetected ==
    ASSUME NEW b, NEW c \in Nat, Covers(b, c), NEW f \in Nat, NEW t \in Nat, t <= c,
           f <= t, b.start_frame = f, b.out # <<>>, b.out[Len(b.out)].end_ms = Ms(f),
           ~b.out[Len(b.out)].ended
    PROVE  LET p == OnVoiceDetected(b, f, t)
           IN  Covers(p, c) /\ p.all_size = b.all_size /\ GrownTo(p, b, t, FALSE)
<1> DEFINE q == PopDataToOutputBuf(b, f, FALSE, FALSE, FALSE)
           n == Len(q.out)
           e == [q.out[n] EXCEPT !.end_ms = Ms(t + 1)]
           o == [q.out EXCEPT ![n] = e]
           p == OnVoiceDetected(b, f, t)
<1>1. Covers(q, c) /\ q.all_size = b.all_size /\ GrownTo(q, b, f, FALSE)
  <2>1. f <= c
    OBVIOUS
  <2> QED BY <2>1, PopDataNext
<1>2. p = [q EXCEPT !.start_frame = @ + (t - f), !.out[n].end_ms = Ms(t + 1)]
  <2>1. ~(f > t)
    OBVIOUS
  <2> QED BY <2>1 DEF OnVoiceDetected
<1>3. b.out \in Seq(Entries)
  BY DEF Covers, Bufs
<1> HIDE DEF q
<1>4. /\ q \in Bufs /\ q.faults = {} /\ q.size >= FrameLenMs
      /\ q.all_size >= Ms(c) + FrameLenMs /\ q.out \in Seq(Entries)
  BY <1>1 DEF Covers, Bufs
<1>5. /\ q.start_frame = f + 1 /\ n = Len(b.out)
      /\ \A k \in 1..n - 1 : q.out[k] = b.out[k]
      /\ q.out[n].start_ms = b.out[n].start_ms /\ q.out[n].begun = b.out[n].begun
      /\ q.out[n].ended = FALSE
  BY <1>1 DEF GrownTo
<1>6. n \in Nat /\ n > 0 /\ n \in DOMAIN q.out /\ q.out[n] \in Entries
  BY <1>3, <1>4, <1>5
<1>7. Ms(t + 1) \in Nat
  BY MsNat
<1>8. /\ e \in Entries /\ e.start_ms = q.out[n].start_ms /\ e.begun = q.out[n].begun
      /\ e.end_ms = Ms(t + 1) /\ e.ended = q.out[n].ended
  BY <1>6, <1>7 DEF Entries
<1>9. o \in Seq(Entries) /\ Len(o) = n /\ o[n] = e /\ \A k \in 1..n - 1 : o[k] = q.out[k]
  BY <1>4, <1>6, <1>8
<1>10. q.start_frame + (t - f) = t + 1 /\ t + 1 \in Nat
  BY <1>5
<1>11. [q.out EXCEPT ![n].end_ms = Ms(t + 1)] = o
  BY <1>4, <1>6
<1> HIDE DEF o, e, p
<1>12. p = [q EXCEPT !.start_frame = t + 1, !.out = o]
  BY <1>2, <1>10, <1>11
<1>13. p.start_frame = t + 1
  BY <1>4, <1>12 DEF Bufs
<1>14. p.out = o
  BY <1>4, <1>12 DEF Bufs
<1>15. p.faults = q.faults
  BY <1>4, <1>12 DEF Bufs
<1>16. p.size = q.size /\ p.all_size = q.all_size
  BY <1>4, <1>12 DEF Bufs
<1>17. p \in Bufs
  BY <1>4, <1>9, <1>10, <1>12 DEF Bufs
<1>18. Covers(p, c)
  BY <1>4, <1>15, <1>16, <1>17 DEF Covers
<1>19. GrownTo(p, b, t, FALSE)
  BY <1>5, <1>8, <1>9, <1>13, <1>14 DEF GrownTo
<1> QED BY <1>1, <1>16, <1>18, <1>19 DEF p

\* A segment that begins some frames ago.
LEMMA VoiceBegins ==
    ASSUME NEW b, NEW c \in Nat, Covers(b, c), NEW f \in Nat, NEW t \in Nat, t <= c,
           f < t, b.start_frame <= f
    PROVE  LET p == OnVoiceDetected(OnVoiceStart(b, f), f + 1, t)
           IN  Covers(p, c) /\ p.all_size = b.all_size /\ BegunAt(p, b, f, t)
<1> DEFINE q == OnVoiceStart(b, f)
           p == OnVoiceDetected(q, f + 1, t)
           new == [start_ms |-> Ms(f), end_ms |-> Ms(f + 1), begun |-> TRUE, ended |-> FALSE]
           e == [start_ms |-> Ms(f), end_ms |-> Ms(t + 1), begun |-> TRUE, ended |-> FALSE]
           n == Len(b.out) + 1
<1>1. Covers(q, c) /\ q.all_size = b.all_size /\ BegunAt(q, b, f, f)
  BY VoiceStarts
<1>2. b.out \in Seq(Entries)
  BY DEF Covers, Bufs
<1> HIDE DEF q
<1>3. new \in Entries /\ e \in Entries
  BY MsNat DEF Entries
<1>4. q.start_frame = f + 1 /\ q.out = Append(b.out, new)
  BY <1>1 DEF BegunAt
<1>5. /\ q.out # <<>> /\ Len(q.out) = n /\ q.out[n] = new
      /\ \A k \in 1..n - 1 : q.out[k] = b.out[k]
  <2> HIDE DEF new
  <2>1. Len(q.out) = n /\ n \in Nat /\ n > 0 /\ q.out[n] = new
    BY <1>2, <1>3, <1>4
  <2>2. \A k \in 1..n - 1 : q.out[k] = b.out[k]
    BY <1>2, <1>3, <1>4
  <2> QED BY <2>1, <2>2
<1>6. f + 1 \in Nat /\ f + 1 <= t
  OBVIOUS
<1>7. Covers(p, c) /\ p.all_size = q.all_size /\ GrownTo(p, q, t, FALSE)
  <2>1. q.out[Len(q.out)].end_ms = Ms(f + 1) /\ ~q.out[Len(q.out)].ended
    BY <1>5
  <2> HIDE DEF new, n
  <2> QED BY <1>1, <1>4, <1>5, <1>6, <2>1, VoiceDetected
<1> HIDE DEF p
<1>8. /\ p.start_frame = t + 1 /\ Len(p.out) = n
      /\ \A k \in 1..n - 1 : p.out[k] = q.out[k]
      /\ p.out[n].start_ms = Ms(f) /\ p.out[n].begun = TRUE
      /\ p.out[n].end_ms = Ms(t + 1) /\ p.out[n].ended = FALSE
  BY <1>5, <1>7 DEF GrownTo
<1>9. p.out \in Seq(Entries)
  BY <1>7 DEF Covers, Bufs
<1>10. n \in 1..Len(p.out) /\ p.out[n] \in Entries
  BY <1>2, <1>8, <1>9
<1>11. p.out[n] = e
  BY <1>8, <1>10 DEF Entries
<1>12. p.out = Append(b.out, e)
  BY <1>2, <1>3, <1>5, <1>8, <1>9, <1>11
<1>13. BegunAt(p, b, f, t)
  BY <1>8, <1>12 DEF BegunAt
<1> QED BY <1>1, <1>7, <1>13 DEF p, q

\* The end of a segment, at or behind its last confirmed speech.
LEMMA VoiceEnds ==
    ASSUME NEW b, NEW c \in Nat, Covers(b, c), NEW f \in Nat, f <= c,
           latest_confirmed_speech_frame \in Nat, latest_confirmed_speech_frame + 1 <= f,
           b.start_frame = latest_confirmed_speech_frame + 1,
           b.out # <<>>, b.out[Len(b.out)].end_ms = Ms(b.start_frame),
           ~b.out[Len(b.out)].ended, NEW toEnd \in BOOLEAN
    PROVE  LET p == OnVoiceEnd(b, f, toEnd)
           IN  Covers(p, c) /\ p.all_size = b.all_size /\ GrownTo(p, b, f, TRUE)
<1> DEFINE s == latest_confirmed_speech_frame + 1
           q == OnVoiceDetected(b, s, f - 1)
           p == PopDataToOutputBuf(q, f, FALSE, TRUE, toEnd)
           n == Len(b.out)
<1>1. OnVoiceEnd(b, f, toEnd) = p
  BY DEF OnVoiceEnd
<1>2. s \in Nat /\ s <= f /\ b.out \in Seq(Entries)
  BY DEF Covers, Bufs
<1>3. /\ Covers(q, c) /\ q.all_size = b.all_size /\ q.start_frame = f
      /\ Len(q.out) = n /\ q.out # <<>>
      /\ q.out[n].end_ms = Ms(f) /\ ~q.out[n].ended
      /\ q.out[n].start_ms = b.out[n].start_ms /\ q.out[n].begun = b.out[n].begun
      /\ \A k \in 1..n - 1 : q.out[k] = b.out[k]
  <2>1. CASE s = f
    <3>1. s > f - 1
      BY <1>2, <2>1
    <3>2. q = b
      BY <3>1 DEF OnVoiceDetected
    <3> QED BY <2>1, <3>2
  <2>2. CASE s < f
    <3>1. f - 1 \in Nat /\ s <= f - 1 /\ f - 1 <= c /\ (f - 1) + 1 = f
      BY <1>2, <2>2
    <3>2. Covers(q, c) /\ q.all_size = b.all_size /\ GrownTo(q, b, f - 1, FALSE)
      BY <1>2, <3>1, VoiceDetected
    <3> HIDE DEF q, s
    <3>3. q.out \in Seq(Entries) /\ n \in Nat /\ n > 0
      BY <1>2, <3>2 DEF Covers, Bufs
    <3> QED BY <3>1, <3>2, <3>3 DEF GrownTo
  <2> QED BY <1>2, <2>1, <2>2
<1> HIDE DEF q
<1>4. Covers(p, c) /\ p.all_size = q.all_size /\ GrownTo(p, q, f, TRUE)
  BY <1>3, PopDataNext
<1> HIDE DEF p
<1>5. GrownTo(p, b, f, TRUE)
  BY <1>2, <1>3, <1>4 DEF GrownTo
<1> QED BY <1>1, <1>3, <1>4, <1>5
-----------------------------------------------------------------------------
(* The window of frames.                                                     *)

LEMMA WindowType ==
    ASSUME win_state \in [1..Win -> BOOLEAN], NEW speech \in BOOLEAN
    PROVE  Slid(speech) \in [1..Win -> BOOLEAN]
<1>1. Win \in Nat /\ Win > 0
  BY WindowAssumption
<1>2. win_state \in Seq(BOOLEAN) /\ Len(win_state) = Win
  BY <1>1
<1>3. Slid(speech) \in Seq(BOOLEAN) /\ Len(Slid(speech)) = Win
  BY <1>1, <1>2 DEF Slid
<1> QED BY <1>3

\* No single frame of speech begins a segment.
LEMMA OneFrameIsNoSpeech ==
    ASSUME win_state = Silence, NEW speech \in BOOLEAN
    PROVE  ~Sil2Speech(speech)
<1> DEFINE S == {k \in 1..Win : Slid(speech)[k]}
<1>1. Win \in Nat /\ Win > 0 /\ SilToSpeech >= 2 /\ SilToSpeech \in Int
  BY WindowAssumption
<1>2. Silence \in Seq(BOOLEAN) /\ Len(Silence) = Win /\ \A k \in 1..Win : Silence[k] = FALSE
  BY <1>1 DEF Silence
<1>3. \A k \in 1..Win - 1 : Slid(speech)[k] = FALSE
  BY <1>1, <1>2 DEF Slid
<1>4. S \subseteq {Win}
  BY <1>1, <1>3
<1>5. S = {} \/ S = {Win}
  BY <1>4
<1>6. Cardinality(S) = 0 \/ Cardinality(S) = 1
  BY <1>5, FS_EmptySet, FS_Singleton
<1>7. ~(WinSum(speech) >= SilToSpeech)
  BY <1>1, <1>6 DEF WinSum
<1> QED BY <1>7 DEF Sil2Speech

-----------------------------------------------------------------------------
(* What every frame of a call has in common.                                 *)

\* TypeOK without buf.
Scalars ==
    /\ pc \in {"idle", "frames", "emit"} /\ is_final \in BOOLEAN
    /\ frm_cnt \in 0..MaxFrames
    /\ win_state \in [1..Win -> BOOLEAN] /\ pre_frame_state \in BOOLEAN
    /\ vad_state_machine \in {"before", "in"}
    /\ confirmed_start_frame \in None..MaxFrames
    /\ latest_confirmed_speech_frame \in 0..MaxFrames
    /\ lastest_confirmed_silence_frame \in None..MaxFrames
    /\ continous_silence_frame_count \in Nat
    /\ number_end_time_detected \in Nat
    /\ max_end_sil \in EndSils \cup {0} /\ max_single_segment_time \in MaxSegs \cup {0}
    /\ next_seg \in BOOLEAN /\ output_data_buf_offset \in Nat
    /\ i \in 1..MaxFrames + 1
    /\ open \in Int /\ last \in Nat /\ streams \in Nat

LEMMA ScalarsOfType == ASSUME TypeOK PROVE Scalars
BY DEF TypeOK, Scalars

LEMMA TypeOfScalars ==
    ASSUME Scalars', (buf \in Bufs)', Frames', Counted', Reader'
    PROVE  TypeOK'
<1>1. buf' \in Bufs
  OBVIOUS
<1>2. /\ buf'.start_frame \in Nat /\ buf'.size \in Int /\ buf'.all_size \in Nat
      /\ buf'.faults \subseteq {"loop", "size", "gap"}
  BY <1>1 DEF Bufs
<1>3. buf'.out \in Seq(Entries)
  BY <1>1 DEF Bufs
<1>4. \A k \in DOMAIN buf'.out :
          /\ buf'.out[k].start_ms \in Nat /\ buf'.out[k].end_ms \in Nat
          /\ buf'.out[k].begun \in BOOLEAN /\ buf'.out[k].ended \in BOOLEAN
  <2> SUFFICES ASSUME NEW k \in DOMAIN buf'.out
               PROVE  /\ buf'.out[k].start_ms \in Nat /\ buf'.out[k].end_ms \in Nat
                      /\ buf'.out[k].begun \in BOOLEAN /\ buf'.out[k].ended \in BOOLEAN
    OBVIOUS
  <2>1. buf'.out[k] \in Entries
    BY <1>3
  <2> QED BY <2>1 DEF Entries
<1>5. todo' \in 0..MaxBlock /\ (pc' = "frames" => todo' \in 1..frm_cnt')
  BY Constants DEF Frames, Scalars
<1>6. /\ continous_silence_frame_count' \in 0..MaxFrames
      /\ number_end_time_detected' \in 0..MaxFrames
  <2>1. /\ frm_cnt' \in 0..MaxFrames /\ continous_silence_frame_count' \in Nat
        /\ number_end_time_detected' \in Nat /\ MaxFrames \in Nat /\ MaxBlock \in Nat
    BY Constants DEF Scalars
  <2>2. cur_frm_idx' = frm_cnt' - todo'
    BY DEF cur_frm_idx
  <2>3. cur_frm_idx' \in Int /\ cur_frm_idx' <= MaxFrames
    <3>1. \A m, n, k \in Nat : m <= k => m - n \in Int /\ m - n <= k
      OBVIOUS
    <3>2. todo' \in Nat /\ frm_cnt' \in Nat /\ frm_cnt' <= MaxFrames /\ MaxFrames \in Nat
      BY <1>5, <2>1
    <3> QED BY <2>2, <3>1, <3>2
  <2>4. /\ number_end_time_detected' <= cur_frm_idx'
        /\ continous_silence_frame_count' <= cur_frm_idx'
    BY DEF Counted
  <2> QED BY <2>1, <2>3, <2>4
<1>7. output_data_buf_offset' \in 0..Len(buf'.out)
  <2>1. Len(buf'.out) \in Nat
    BY <1>3
  <2>2. Told' <= Len(buf'.out)
    BY DEF Reader
  <2>3. /\ output_data_buf_offset' \in Nat
        /\ Told' = output_data_buf_offset' \/ Told' = output_data_buf_offset' + 1
    BY DEF Scalars, Told
  <2> QED BY <2>1, <2>2, <2>3
<1> QED BY <1>2, <1>4, <1>5, <1>6, <1>7 DEF TypeOK, Scalars

LEMMA InFrame ==
    ASSUME IndInv, pc = "frames", NextFrame
    PROVE  /\ cur_frm_idx \in Nat /\ cur_frm_idx + 1 <= frm_cnt /\ frm_cnt \in Nat
           /\ cur_frm_idx' = cur_frm_idx + 1
           /\ frm_cnt - 1 \in Nat /\ Covers(buf, frm_cnt - 1)
           /\ buf.out \in Seq(Entries) /\ buf.start_frame \in Nat
           /\ frm_cnt <= cur_frm_idx + MaxBlock
           /\ Frames'
<1>1. /\ todo \in Nat /\ todo >= 1 /\ todo <= frm_cnt /\ todo <= MaxBlock /\ frm_cnt \in Nat
      /\ MaxBlock \in Nat
  BY Constants DEF IndInv, TypeOK, Frames
<1>2. todo' = todo - 1 /\ frm_cnt' = frm_cnt
  BY DEF NextFrame
<1>3. /\ cur_frm_idx \in Nat /\ cur_frm_idx + 1 <= frm_cnt /\ frm_cnt \in Nat
      /\ cur_frm_idx' = cur_frm_idx + 1
      /\ frm_cnt - 1 \in Nat /\ frm_cnt <= cur_frm_idx + MaxBlock
  BY <1>1, <1>2 DEF cur_frm_idx
<1>4. buf \in Bufs /\ buf.all_size \in Nat /\ buf.out \in Seq(Entries)
      /\ buf.start_frame \in Nat
  BY DEF IndInv, Bufs
<1>5. Covers(buf, frm_cnt - 1)
  <2>1. Ms(frm_cnt - 1) \in Nat
    BY <1>3, MsNat
  <2>2. frm_cnt > 0
    BY <1>1
  <2>3. buf.all_size >= Ms(frm_cnt - 1) + FrameLenMs
    BY <2>2 DEF IndInv, Audio
  <2>4. buf.all_size > 0
    BY <1>4, <2>1, <2>3, Constants
  <2> QED BY <1>4, <2>3, <2>4 DEF IndInv, Audio, NoFault, Covers
<1>6. Frames'
  <2>1. todo' \in 0..MaxBlock /\ todo' <= frm_cnt'
    BY <1>1, <1>2
  <2>2. pc' = "frames" <=> todo' # 0
    BY <1>1 DEF NextFrame
  <2>3. max_single_segment_time' = max_single_segment_time
    BY DEF NextFrame, optVars
  <2> QED BY <2>1, <2>2, <2>3 DEF IndInv, Frames
<1> QED BY <1>3, <1>4, <1>5, <1>6

\* What follows of the audio kept after the frame.
LEMMA AudioAfter ==
    ASSUME Covers(buf', frm_cnt - 1), frm_cnt' = frm_cnt
    PROVE  NoFault' /\ (buf \in Bufs)' /\ Audio'
BY DEF Covers, NoFault, Audio

\* The scalars that no frame changes, and those that every frame does.
LEMMA ScalarsAfter ==
    ASSUME IndInv, pc = "frames", NextFrame,
           win_state' \in [1..Win -> BOOLEAN], pre_frame_state' \in BOOLEAN,
           vad_state_machine' \in {"before", "in"},
           confirmed_start_frame' \in None..MaxFrames,
           latest_confirmed_speech_frame' \in 0..MaxFrames,
           lastest_confirmed_silence_frame' \in None..MaxFrames,
           continous_silence_frame_count' \in Nat, number_end_time_detected' \in Nat
    PROVE  Scalars'
<1>1. Scalars
  BY ScalarsOfType DEF IndInv
<1>2. /\ is_final' = is_final /\ frm_cnt' = frm_cnt
      /\ max_end_sil' = max_end_sil /\ max_single_segment_time' = max_single_segment_time
      /\ next_seg' = next_seg /\ output_data_buf_offset' = output_data_buf_offset
      /\ open' = open /\ last' = last /\ streams' = streams
      /\ i' = output_data_buf_offset + 1 /\ pc' \in {"frames", "emit"}
  BY DEF NextFrame, optVars, emitVars
<1>3. output_data_buf_offset <= frm_cnt
  <2>1. Len(buf.out) \in Nat
    BY DEF IndInv, Bufs
  <2>2. output_data_buf_offset <= Len(buf.out)
    BY <1>1, <2>1 DEF IndInv, Reader, Told, Scalars
  <2>3. Len(buf.out) <= cur_frm_idx /\ cur_frm_idx \in Nat /\ cur_frm_idx < frm_cnt
        /\ frm_cnt \in Nat /\ output_data_buf_offset \in Nat
    BY <1>1, InFrame, Constants DEF IndInv, Counted, Scalars
  <2> QED BY <2>1, <2>2, <2>3
<1>4. i' \in 1..MaxFrames + 1
  <2>1. /\ output_data_buf_offset \in Nat /\ frm_cnt \in Nat /\ frm_cnt <= MaxFrames
        /\ MaxFrames \in Nat
    BY <1>1, Constants DEF Scalars
  <2>2. output_data_buf_offset + 1 \in 1..MaxFrames + 1
    BY <1>3, <2>1
  <2> QED BY <1>2, <2>2
<1> QED BY <1>1, <1>2, <1>4 DEF Scalars
-----------------------------------------------------------------------------
(* What a frame does to the segments, and to what is left to tell of them.   *)

\* The variables of a reader, which no frame changes.
LEMMA ReaderWaits ==
    ASSUME pc = "frames", NextFrame
    PROVE  /\ next_seg' = next_seg /\ output_data_buf_offset' = output_data_buf_offset
           /\ open' = open /\ last' = last /\ frm_cnt' = frm_cnt /\ Told' = Told
           /\ pc' # "idle" /\ (pc' = "emit" => i' = output_data_buf_offset + 1)
BY DEF NextFrame, emitVars, Told

LEMMA OutputSame ==
    ASSUME IndInv, pc = "frames", NextFrame, buf'.out = buf.out
    PROVE  Output' /\ Reader'
<1>1. Output'
  BY ReaderWaits DEF IndInv, Output, InOutput
<1>2. Reader'
  BY ReaderWaits DEF IndInv, Reader
<1> QED BY <1>1, <1>2

\* An entry whose neighbour on the right begins where it did.
LEMMA InOutputSame ==
    ASSUME NEW o, NEW p, NEW k \in Nat, NEW frames,
           InOutput(o, k, frames), p[k] = o[k], Len(p) = Len(o),
           k < Len(o) => p[k + 1].start_ms = o[k + 1].start_ms
    PROVE  InOutput(p, k, frames)
BY DEF InOutput

LEMMA OutputGrown ==
    ASSUME IndInv, pc = "frames", NextFrame, vad_state_machine = "in",
           NEW f \in Nat, latest_confirmed_speech_frame + 1 <= f, f <= cur_frm_idx,
           NEW ended \in BOOLEAN, GrownTo(buf', buf, f, ended), buf' \in Bufs
    PROVE  /\ Output' /\ Reader'
           /\ Len(buf'.out) = Len(buf.out) /\ buf'.out # <<>>
           /\ LastOut'.start_ms = LastOut.start_ms
           /\ LastOut'.end_ms = Ms(f + 1) /\ LastOut'.ended = ended
<1> DEFINE n == Len(buf.out)
           o == buf.out
           p == buf'.out
<1>1. /\ o \in Seq(Entries) /\ n \in Nat /\ n > 0 /\ ~o[n].ended
      /\ o[n].start_ms = Ms(confirmed_start_frame)
      /\ confirmed_start_frame \in 0..latest_confirmed_speech_frame
      /\ cur_frm_idx - confirmed_start_frame < LongestFrames
  BY DEF IndInv, Inside, LastOut, Bufs
<1>2. /\ p \in Seq(Entries) /\ Len(p) = n
      /\ \A k \in 1..n - 1 : p[k] = o[k]
      /\ p[n].start_ms = o[n].start_ms /\ p[n].begun = o[n].begun
      /\ p[n].end_ms = Ms(f + 1) /\ p[n].ended = ended
  BY DEF GrownTo, Bufs
<1>3. /\ cur_frm_idx \in Nat /\ cur_frm_idx + 1 <= frm_cnt /\ frm_cnt \in Nat
      /\ frm_cnt' = frm_cnt
  BY InFrame, ReaderWaits
<1>4. confirmed_start_frame \in Nat /\ confirmed_start_frame < f + 1 /\ f + 1 <= frm_cnt
      /\ f + 1 - confirmed_start_frame <= LongestFrames /\ LongestFrames \in Int
      /\ f + 1 \in Int /\ f + 1 - confirmed_start_frame \in Int
  BY <1>1, <1>3, Longest DEF IndInv, TypeOK
<1>5. /\ Ms(confirmed_start_frame) < Ms(f + 1) /\ Ms(f + 1) <= Ms(frm_cnt)
  BY <1>3, <1>4, MsMonotone
<1>6. Ms(f + 1) - Ms(confirmed_start_frame) <= Ms(LongestFrames)
  <2>1. Ms(f + 1 - confirmed_start_frame) = Ms(f + 1) - Ms(confirmed_start_frame)
    BY <1>4, MsSum
  <2>2. Ms(f + 1 - confirmed_start_frame) <= Ms(LongestFrames)
    BY <1>4, MsMonotone
  <2> QED BY <2>1, <2>2
<1> HIDE DEF n, o, p
<1>7. \A k \in 1..n : InOutput(o, k, frm_cnt)
  BY DEF IndInv, Output, n, o
<1>8. ASSUME NEW k \in 1..n - 1 PROVE InOutput(p, k, frm_cnt)
  <2>1. k \in Nat /\ k \in 1..n /\ k + 1 \in 1..n /\ Len(o) = n /\ (k + 1 = n \/ k + 1 \in 1..n - 1)
    BY <1>1 DEF n, o
  <2>2. p[k + 1].start_ms = o[k + 1].start_ms
    BY <1>2, <2>1
  <2> QED BY <1>2, <1>3, <1>7, <2>1, <2>2, InOutputSame
<1>9. InOutput(p, n, frm_cnt)
  <2>1. n \in 1..n /\ o[n].begun
    BY <1>1, <1>7 DEF InOutput
  <2> QED BY <1>1, <1>2, <1>3, <1>5, <1>6, <2>1 DEF InOutput
<1>10. Output'
  <2>1. \A k \in 1..n : k \in 1..n - 1 \/ k = n
    BY <1>1
  <2>2. \A k \in 1..Len(p) : InOutput(p, k, frm_cnt)
    BY <1>2, <1>8, <1>9, <2>1
  <2> QED BY <1>3, <2>2 DEF Output, p
<1>11. Reader'
  <2>1. /\ Told \in Nat /\ Told <= n /\ output_data_buf_offset \in Nat
        /\ output_data_buf_offset <= Told /\ next_seg \in BOOLEAN
        /\ ~next_seg => Told > 0
    BY <1>1 DEF IndInv, Reader, Told, TypeOK, n
  <2>2. \A k \in 1..n : p[k].start_ms = o[k].start_ms
    BY <1>1, <1>2
  <2>3. /\ next_seg <=> open = None
        /\ ~next_seg => open = o[Told].start_ms
        /\ last = IF output_data_buf_offset = 0 THEN 0 ELSE o[output_data_buf_offset].end_ms
        /\ output_data_buf_offset > 0 => o[output_data_buf_offset].ended
        /\ \A k \in Told + 1..n :
              o[k].start_ms >= Ms(frm_cnt - Latency - MaxBlock)
    BY DEF IndInv, Reader, n, o
  <2>4. output_data_buf_offset > 0 => p[output_data_buf_offset] = o[output_data_buf_offset]
    <3>1. output_data_buf_offset > 0 => output_data_buf_offset \in 1..n - 1
      BY <1>1, <2>1, <2>3
    <3> QED BY <1>2, <3>1
  <2>5. ~next_seg => open = p[Told].start_ms
    BY <2>1, <2>2, <2>3
  <2>6. \A k \in Told + 1..n : p[k].start_ms >= Ms(frm_cnt - Latency - MaxBlock)
    BY <1>1, <2>1, <2>2, <2>3
  <2>7. /\ last = IF output_data_buf_offset = 0 THEN 0 ELSE p[output_data_buf_offset].end_ms
        /\ output_data_buf_offset > 0 => p[output_data_buf_offset].ended
    BY <2>1, <2>3, <2>4
  <2> QED BY <1>2, <2>1, <2>3, <2>5, <2>6, <2>7, ReaderWaits DEF Reader, p
<1> QED BY <1>1, <1>2, <1>10, <1>11 DEF LastOut, n, o, p

LEMMA OutputBegun ==
    ASSUME IndInv, pc = "frames", NextFrame, vad_state_machine = "before",
           NEW start \in Nat, start < cur_frm_idx, buf.start_frame <= start,
           cur_frm_idx - Latency <= start,
           BegunAt(buf', buf, start, cur_frm_idx), buf' \in Bufs
    PROVE  /\ Output' /\ Reader'
           /\ Len(buf'.out) = Len(buf.out) + 1 /\ buf'.out # <<>>
           /\ LastOut'.start_ms = Ms(start)
           /\ LastOut'.end_ms = Ms(cur_frm_idx + 1) /\ ~LastOut'.ended
<1> DEFINE n == Len(buf.out)
           o == buf.out
           p == buf'.out
           e == [start_ms |-> Ms(start), end_ms |-> Ms(cur_frm_idx + 1),
                 begun |-> TRUE, ended |-> FALSE]
<1>1. o \in Seq(Entries) /\ n \in Nat /\ n = Len(o) /\ p = Append(o, e) /\ p \in Seq(Entries)
  BY DEF IndInv, Bufs, BegunAt
<1>2. /\ cur_frm_idx \in Nat /\ cur_frm_idx + 1 <= frm_cnt /\ frm_cnt \in Nat
      /\ frm_cnt' = frm_cnt /\ frm_cnt <= cur_frm_idx + MaxBlock
      /\ buf.start_frame \in Nat
  BY InFrame, ReaderWaits
<1>3. Len(p) = n + 1 /\ p[n + 1] = e /\ \A k \in 1..n : p[k] = o[k]
  <2>1. e \in Entries
    BY <1>2, MsNat DEF Entries
  <2> QED BY <1>1, <2>1
<1>4. n > 0 => o[n].ended /\ o[n].end_ms <= Ms(buf.start_frame)
  BY <1>1 DEF IndInv, Outside, LastOut
<1>5. /\ cur_frm_idx + 1 \in Int /\ cur_frm_idx + 1 - start \in Int
      /\ cur_frm_idx + 1 - start <= LongestFrames /\ LongestFrames \in Int
      /\ frm_cnt - Latency - MaxBlock \in Int /\ frm_cnt - Latency - MaxBlock <= start
  BY <1>2, Longest, Constants
<1>6. /\ Ms(start) < Ms(cur_frm_idx + 1) /\ Ms(cur_frm_idx + 1) <= Ms(frm_cnt)
      /\ Ms(buf.start_frame) <= Ms(start)
      /\ Ms(frm_cnt - Latency - MaxBlock) <= Ms(start)
      /\ Ms(cur_frm_idx + 1 - start) <= Ms(LongestFrames)
  BY <1>2, <1>5, MsMonotone
<1>7. Ms(cur_frm_idx + 1) - Ms(start) <= Ms(LongestFrames)
  <2>1. Ms(cur_frm_idx + 1 - start) = Ms(cur_frm_idx + 1) - Ms(start)
    <3>1. start \in Int
      OBVIOUS
    <3>2. \A a, b \in Int : Ms(a - b) = Ms(a) - Ms(b)
      BY MsSum
    <3> QED BY <1>2, <1>5, <3>1, <3>2
  <2>2. Ms(cur_frm_idx + 1 - start) <= Ms(LongestFrames)
    BY <1>6
  <2> QED BY <2>1, <2>2
<1>8. /\ e.start_ms = Ms(start) /\ e.end_ms = Ms(cur_frm_idx + 1) /\ e.begun /\ ~e.ended
  OBVIOUS
<1>9. /\ Ms(start) \in Int /\ Ms(buf.start_frame) \in Int
      /\ Ms(frm_cnt - Latency - MaxBlock) \in Int
  BY <1>2, <1>5, MsType
<1> HIDE DEF n, o, p, e
<1>10. \A k \in 1..n : InOutput(o, k, frm_cnt)
  BY DEF IndInv, Output, n, o
<1>11. ASSUME NEW k \in 1..n PROVE InOutput(p, k, frm_cnt)
  <2>1. k \in Nat /\ p[k] = o[k] /\ k < Len(p) /\ InOutput(o, k, frm_cnt)
    BY <1>1, <1>3, <1>10
  <2>2. p[k].ended /\ p[k].end_ms <= p[k + 1].start_ms
    <3>1. CASE k = n
      <4>1. o[n] \in Entries
        BY <1>1, <3>1
      <4>2. o[n].end_ms \in Int
        BY <4>1 DEF Entries
      <4> QED BY <1>1, <1>3, <1>4, <1>6, <1>8, <1>9, <2>1, <3>1, <4>2
    <3>2. CASE k < n
      <4>1. k < Len(o) /\ k + 1 \in 1..n
        BY <1>1, <3>2
      <4> QED BY <1>3, <2>1, <4>1 DEF InOutput
    <3> QED BY <1>1, <3>1, <3>2
  <2> QED BY <1>2, <2>1, <2>2 DEF InOutput
<1>12. InOutput(p, n + 1, frm_cnt)
  BY <1>1, <1>2, <1>3, <1>6, <1>7, <1>8 DEF InOutput
<1>13. Output'
  <2>1. \A k \in 1..n + 1 : k \in 1..n \/ k = n + 1
    BY <1>1
  <2>2. \A k \in 1..Len(p) : InOutput(p, k, frm_cnt)
    BY <1>3, <1>11, <1>12, <2>1
  <2> QED BY <1>2, <2>2 DEF Output, p
<1>14. Reader'
  <2>1. /\ Told \in Nat /\ Told <= n /\ output_data_buf_offset \in Nat
        /\ output_data_buf_offset <= Told /\ next_seg \in BOOLEAN
        /\ ~next_seg => Told > 0
    BY <1>1 DEF IndInv, Reader, Told, TypeOK, n
  <2>2. /\ next_seg <=> open = None
        /\ ~next_seg => open = o[Told].start_ms
        /\ last = IF output_data_buf_offset = 0 THEN 0 ELSE o[output_data_buf_offset].end_ms
        /\ output_data_buf_offset > 0 => o[output_data_buf_offset].ended
        /\ \A k \in Told + 1..n :
              o[k].start_ms >= Ms(frm_cnt - Latency - MaxBlock)
    BY DEF IndInv, Reader, n, o
  <2>3. output_data_buf_offset > 0 => p[output_data_buf_offset] = o[output_data_buf_offset]
    BY <1>1, <1>3, <2>1
  <2>4. ~next_seg => open = p[Told].start_ms
    BY <1>1, <1>3, <2>1, <2>2
  <2>5. ASSUME NEW k \in Told + 1..n + 1
        PROVE  p[k].start_ms >= Ms(frm_cnt - Latency - MaxBlock)
    <3>1. CASE k = n + 1
      BY <1>3, <1>6, <1>8, <1>9, <3>1
    <3>2. CASE k # n + 1
      <4>1. k \in Told + 1..n /\ k \in 1..n
        BY <1>1, <2>1, <3>2
      <4> QED BY <1>3, <2>2, <4>1
    <3> QED BY <3>1, <3>2
  <2>6. /\ last = IF output_data_buf_offset = 0 THEN 0 ELSE p[output_data_buf_offset].end_ms
        /\ output_data_buf_offset > 0 => p[output_data_buf_offset].ended
    BY <2>1, <2>2, <2>3
  <2>7. Told <= Len(p)
    BY <1>1, <1>3, <2>1
  <2> QED BY <1>3, <2>2, <2>4, <2>5, <2>6, <2>7, ReaderWaits DEF Reader, p
<1>15. p # <<>>
  BY <1>1, <1>3
<1> QED BY <1>3, <1>8, <1>13, <1>14, <1>15 DEF LastOut, n, o, p
-----------------------------------------------------------------------------
(* The frames, one lemma for each thing a frame may do.                      *)

LEMMA WinSumType == ASSUME NEW speech PROVE WinSum(speech) \in Int
<1> DEFINE S == {k \in 1..Win : Slid(speech)[k]}
<1>1. IsFiniteSet(1..Win)
  BY WindowAssumption, FS_Interval
<1>2. IsFiniteSet(S)
  BY <1>1, FS_Subset
<1>3. Cardinality(S) \in Nat
  BY <1>2, FS_CardinalityType
<1> QED BY <1>3 DEF WinSum

LEMMA WindowMovesOn ==
    ASSUME IndInv, NEW speech \in BOOLEAN, WindowMoves(speech)
    PROVE  /\ win_state' \in [1..Win -> BOOLEAN] /\ pre_frame_state' \in BOOLEAN
           /\ Sil2Sil(speech) => ~pre_frame_state /\ ~pre_frame_state'
           /\ ~Sil2Sil(speech) /\ ~Sil2Speech(speech) => pre_frame_state
<1>1. win_state \in [1..Win -> BOOLEAN] /\ pre_frame_state \in BOOLEAN
  BY DEF IndInv, TypeOK
<1>2. win_state' \in [1..Win -> BOOLEAN]
  BY <1>1, WindowType DEF WindowMoves
<1>3. pre_frame_state' \in BOOLEAN
  BY DEF WindowMoves
<1>4. WinSum(speech) \in Int /\ SilToSpeech \in Int
  BY WinSumType, WindowAssumption
<1>5. Sil2Sil(speech) => ~Sil2Speech(speech) /\ ~pre_frame_state
  BY <1>4 DEF Sil2Sil, Sil2Speech
<1>6. Sil2Sil(speech) => ~pre_frame_state'
  BY <1>5 DEF WindowMoves
<1>7. ~Sil2Sil(speech) /\ ~Sil2Speech(speech) => pre_frame_state
  BY <1>4 DEF Sil2Sil, Sil2Speech
<1> QED BY <1>2, <1>3, <1>5, <1>6, <1>7

LEMMA SegmentBeginsInv ==
    ASSUME IndInv, NEW speech \in BOOLEAN, SegmentBegins(speech)
    PROVE  IndInv'
<1> DEFINE start == Larger(buf.start_frame, cur_frm_idx - Latency)
<1>1. /\ pc = "frames" /\ NextFrame /\ vad_state_machine = "before" /\ Sil2Speech(speech)
      /\ buf' = OnVoiceDetected(OnVoiceStart(buf, start), start + 1, cur_frm_idx)
      /\ confirmed_start_frame' = start
      /\ latest_confirmed_speech_frame' = IF start < cur_frm_idx THEN cur_frm_idx
                                          ELSE latest_confirmed_speech_frame
      /\ vad_state_machine' = "in" /\ continous_silence_frame_count' = 0
      /\ WindowMoves(speech)
      /\ lastest_confirmed_silence_frame' = lastest_confirmed_silence_frame
      /\ number_end_time_detected' = number_end_time_detected
  BY DEF SegmentBegins, Latency
<1>2. /\ cur_frm_idx \in Nat /\ cur_frm_idx + 1 <= frm_cnt /\ frm_cnt \in Nat
      /\ cur_frm_idx' = cur_frm_idx + 1 /\ frm_cnt' = frm_cnt
      /\ frm_cnt - 1 \in Nat /\ Covers(buf, frm_cnt - 1)
      /\ buf.out \in Seq(Entries) /\ buf.start_frame \in Nat /\ Frames'
  BY <1>1, InFrame, ReaderWaits
<1>3. buf.start_frame < cur_frm_idx
  <2>1. buf.start_frame <= cur_frm_idx
    BY <1>1 DEF IndInv, Outside
  <2>2. buf.start_frame # cur_frm_idx
    BY <1>1, OneFrameIsNoSpeech DEF IndInv, Outside
  <2> QED BY <1>2, <2>1, <2>2
<1>4. /\ start \in Nat /\ start < cur_frm_idx /\ buf.start_frame <= start
      /\ cur_frm_idx - Latency <= start
  BY <1>2, <1>3, Constants DEF Larger
<1> HIDE DEF start
<1>5. cur_frm_idx <= frm_cnt - 1
  BY <1>2
<1>6. /\ Covers(buf', frm_cnt - 1) /\ buf'.all_size = buf.all_size
      /\ BegunAt(buf', buf, start, cur_frm_idx)
  BY <1>1, <1>2, <1>4, <1>5, VoiceBegins
<1>7. NoFault' /\ (buf \in Bufs)' /\ Audio'
  BY <1>2, <1>6, AudioAfter
<1>8. buf' \in Bufs
  BY <1>7
<1>9. /\ Output' /\ Reader'
      /\ Len(buf'.out) = Len(buf.out) + 1 /\ buf'.out # <<>>
      /\ LastOut'.start_ms = Ms(start)
      /\ LastOut'.end_ms = Ms(cur_frm_idx + 1) /\ ~LastOut'.ended
  BY <1>1, <1>4, <1>6, <1>8, OutputBegun
<1>10. latest_confirmed_speech_frame' = cur_frm_idx
  BY <1>1, <1>4
<1>11. Outside'
  BY <1>1 DEF Outside
<1>12. Inside'
  <2>1. buf'.start_frame = cur_frm_idx + 1
    BY <1>6 DEF BegunAt
  <2>2. confirmed_start_frame' \in 0..latest_confirmed_speech_frame'
    BY <1>1, <1>2, <1>4, <1>10
  <2>3. Larger(0, 0 - Lookahead) = 0
    BY WindowAssumption DEF Larger
  <2>4. cur_frm_idx' = latest_confirmed_speech_frame' + 1
                          + Larger(0, continous_silence_frame_count' - Lookahead)
    BY <1>1, <1>2, <1>10, <2>3
  <2>5. cur_frm_idx' - confirmed_start_frame' < LongestFrames
    <3>1. cur_frm_idx + 1 - start < LongestFrames
      BY <1>2, <1>4, Longest, Constants
    <3>2. cur_frm_idx' = cur_frm_idx + 1 /\ confirmed_start_frame' = start
      BY <1>1, <1>2
    <3> QED BY <1>2, <1>4, <3>1, <3>2, Longest
  <2> QED BY <1>1, <1>9, <1>10, <2>1, <2>2, <2>4, <2>5 DEF Inside
<1>13. EndsInside'
  <2>1. pc' = "emit" => todo = 1
    BY <1>1 DEF NextFrame
  <2>2. todo = 1 => frm_cnt = cur_frm_idx + 1
    BY <1>2 DEF cur_frm_idx
  <2>3. pc' = "emit" => frm_cnt - start <= Latency + 1
    BY <1>2, <1>4, <2>1, <2>2, Constants
  <2> QED BY <1>1, <1>2, <2>3 DEF EndsInside
<1>14. Counted'
  <2>1. /\ number_end_time_detected <= cur_frm_idx /\ Len(buf.out) <= cur_frm_idx
        /\ number_end_time_detected \in Nat /\ Len(buf.out) \in Nat
    BY <1>2 DEF IndInv, Counted, TypeOK
  <2>2. number_end_time_detected <= cur_frm_idx + 1 /\ Len(buf.out) + 1 <= cur_frm_idx + 1
    BY <1>2, <2>1
  <2>3. 0 <= cur_frm_idx + 1
    BY <1>2
  <2> QED BY <1>1, <1>2, <1>9, <2>2, <2>3 DEF Counted
<1>15. Scalars'
  <2>1. Scalars
    BY ScalarsOfType DEF IndInv
  <2>2. start \in None..MaxFrames /\ cur_frm_idx \in 0..MaxFrames
    BY <1>2, <1>4, <2>1, Constants DEF Scalars, None
  <2>3. win_state' \in [1..Win -> BOOLEAN] /\ pre_frame_state' \in BOOLEAN
    BY <1>1, WindowMovesOn
  <2> QED BY <1>1, <1>10, <2>1, <2>2, <2>3, ScalarsAfter DEF Scalars
<1>16. TypeOK'
  BY <1>2, <1>7, <1>9, <1>14, <1>15, TypeOfScalars
<1> QED BY <1>2, <1>7, <1>9, <1>11, <1>12, <1>13, <1>14, <1>16 DEF IndInv

\* What holds in a segment.
LEMMA InSegment ==
    ASSUME IndInv, pc = "frames", NextFrame, vad_state_machine = "in"
    PROVE  /\ latest_confirmed_speech_frame \in Nat /\ confirmed_start_frame \in Nat
           /\ continous_silence_frame_count \in Nat
           /\ confirmed_start_frame <= latest_confirmed_speech_frame
           /\ latest_confirmed_speech_frame + 1 <= cur_frm_idx
           /\ cur_frm_idx = latest_confirmed_speech_frame + 1
                              + Larger(0, continous_silence_frame_count - Lookahead)
           /\ buf.start_frame = latest_confirmed_speech_frame + 1
           /\ buf.out # <<>> /\ ~LastOut.ended
           /\ LastOut.end_ms = Ms(buf.start_frame)
           /\ LastOut.start_ms = Ms(confirmed_start_frame)
           /\ cur_frm_idx - confirmed_start_frame < LongestFrames
           /\ pre_frame_state => continous_silence_frame_count = 0
<1>1. /\ latest_confirmed_speech_frame \in Nat /\ continous_silence_frame_count \in Nat
  BY Constants DEF IndInv, TypeOK
<1>2. /\ confirmed_start_frame \in 0..latest_confirmed_speech_frame
      /\ cur_frm_idx = latest_confirmed_speech_frame + 1
                         + Larger(0, continous_silence_frame_count - Lookahead)
      /\ buf.start_frame = latest_confirmed_speech_frame + 1
      /\ buf.out # <<>> /\ ~LastOut.ended
      /\ LastOut.end_ms = Ms(latest_confirmed_speech_frame + 1)
      /\ LastOut.start_ms = Ms(confirmed_start_frame)
      /\ cur_frm_idx - confirmed_start_frame < LongestFrames
      /\ pre_frame_state => continous_silence_frame_count = 0
  BY DEF IndInv, Inside
<1>3. confirmed_start_frame \in Nat /\ confirmed_start_frame <= latest_confirmed_speech_frame
  BY <1>1, <1>2
<1>4. Larger(0, continous_silence_frame_count - Lookahead) \in Nat
  BY <1>1, WindowAssumption DEF Larger
<1>5. latest_confirmed_speech_frame + 1 <= cur_frm_idx
  BY <1>1, <1>2, <1>4
<1> QED BY <1>1, <1>2, <1>3, <1>5

\* A segment that may grow stays within the longest.
LEMMA NotTooLong ==
    ASSUME IndInv, pc = "frames", NextFrame, vad_state_machine = "in", ~TooLong
    PROVE  cur_frm_idx + 1 - confirmed_start_frame < LongestFrames
<1>1. max_single_segment_time \in MaxSegs
  BY DEF IndInv, Frames
<1> DEFINE q == max_single_segment_time \div FrameMs
<1>2. q \in Int /\ q + 1 <= LongestFrames /\ LongestFrames \in Int
  BY <1>1, Longest, Quotient, RequestAssumption
<1>3. cur_frm_idx \in Nat /\ confirmed_start_frame \in Nat
  BY InFrame, InSegment
<1>4. ~(cur_frm_idx - confirmed_start_frame + 1 > q)
  BY DEF TooLong
<1> HIDE DEF q
<1> QED BY <1>2, <1>3, <1>4

\* A frame in a segment that ends neither it nor the stream: the segment grows to it,
\* or the silence does.
LEMMA StaysInside ==
    ASSUME IndInv, pc = "frames", NextFrame, vad_state_machine = "in",
           ~TooLong, ~is_final_frame, NEW speech \in BOOLEAN, WindowMoves(speech),
           vad_state_machine' = vad_state_machine,
           confirmed_start_frame' = confirmed_start_frame,
           lastest_confirmed_silence_frame' = lastest_confirmed_silence_frame,
           number_end_time_detected' = number_end_time_detected,
           continous_silence_frame_count' \in Nat,
           continous_silence_frame_count' <= continous_silence_frame_count + 1,
           pre_frame_state' => continous_silence_frame_count' = 0,
           \/ /\ continous_silence_frame_count' <= Lookahead
              /\ Covers(buf', frm_cnt - 1) /\ GrownTo(buf', buf, cur_frm_idx, FALSE)
              /\ latest_confirmed_speech_frame' = cur_frm_idx
           \/ /\ buf' = buf /\ continous_silence_frame_count' > Lookahead
              /\ continous_silence_frame_count' = continous_silence_frame_count + 1
              /\ latest_confirmed_speech_frame' = latest_confirmed_speech_frame
    PROVE  IndInv'
<1>1. /\ cur_frm_idx \in Nat /\ cur_frm_idx + 1 <= frm_cnt /\ frm_cnt \in Nat
      /\ cur_frm_idx' = cur_frm_idx + 1 /\ frm_cnt' = frm_cnt
      /\ frm_cnt - 1 \in Nat /\ Covers(buf, frm_cnt - 1)
      /\ buf.out \in Seq(Entries) /\ Len(buf.out) \in Nat /\ Frames'
  BY InFrame, ReaderWaits
<1>2. /\ latest_confirmed_speech_frame \in Nat /\ confirmed_start_frame \in Nat
      /\ continous_silence_frame_count \in Nat
      /\ confirmed_start_frame <= latest_confirmed_speech_frame
      /\ latest_confirmed_speech_frame + 1 <= cur_frm_idx
      /\ cur_frm_idx = latest_confirmed_speech_frame + 1
                         + Larger(0, continous_silence_frame_count - Lookahead)
      /\ buf.start_frame = latest_confirmed_speech_frame + 1
      /\ buf.out # <<>> /\ ~LastOut.ended
      /\ LastOut.end_ms = Ms(buf.start_frame)
      /\ LastOut.start_ms = Ms(confirmed_start_frame)
  BY InSegment
<1> DEFINE count == continous_silence_frame_count'
           latest == latest_confirmed_speech_frame'
<1>3. Covers(buf', frm_cnt - 1)
  BY <1>1
<1>4. NoFault' /\ (buf \in Bufs)' /\ Audio'
  BY <1>1, <1>3, AudioAfter
<1>5. buf' \in Bufs
  BY <1>4
<1>6. /\ Output' /\ Reader' /\ Len(buf'.out) = Len(buf.out) /\ buf'.out # <<>>
      /\ ~LastOut'.ended /\ LastOut'.start_ms = Ms(confirmed_start_frame)
      /\ LastOut'.end_ms = Ms(latest + 1) /\ buf'.start_frame = latest + 1
      /\ latest \in Nat /\ confirmed_start_frame <= latest
      /\ cur_frm_idx' = latest + 1 + Larger(0, count - Lookahead)
  <2>1. CASE GrownTo(buf', buf, cur_frm_idx, FALSE) /\ latest = cur_frm_idx /\ count <= Lookahead
    <3>1. /\ Output' /\ Reader' /\ Len(buf'.out) = Len(buf.out) /\ buf'.out # <<>>
          /\ LastOut'.start_ms = LastOut.start_ms
          /\ LastOut'.end_ms = Ms(cur_frm_idx + 1) /\ LastOut'.ended = FALSE
      <4>1. cur_frm_idx <= cur_frm_idx /\ FALSE \in BOOLEAN
        BY <1>1
      <4> HIDE DEF latest, count
      <4> QED BY <1>1, <1>2, <1>5, <2>1, <4>1, OutputGrown
    <3>2. buf'.start_frame = cur_frm_idx + 1
      BY <2>1 DEF GrownTo
    <3>3. Larger(0, count - Lookahead) = 0
      <4>1. \A m \in Nat : m <= Lookahead => Larger(0, m - Lookahead) = 0
        BY WindowAssumption DEF Larger
      <4> QED BY <2>1, <4>1
    <3>4. cur_frm_idx' = latest + 1 + Larger(0, count - Lookahead)
      BY <1>1, <2>1, <3>3
    <3>5. latest \in Nat /\ confirmed_start_frame <= latest
      BY <1>1, <1>2, <2>1
    <3> QED BY <1>2, <2>1, <3>1, <3>2, <3>4, <3>5
  <2>2. CASE /\ buf' = buf /\ latest = latest_confirmed_speech_frame
             /\ count = continous_silence_frame_count + 1 /\ count > Lookahead
    <3>1. Output' /\ Reader'
      BY <2>2, OutputSame
    <3>2. LastOut' = LastOut
      BY <2>2 DEF LastOut
    <3>3. Larger(0, count - Lookahead) = Larger(0, continous_silence_frame_count - Lookahead) + 1
      BY <1>2, <2>2, WindowAssumption DEF Larger
    <3>4. cur_frm_idx' = latest + 1 + Larger(0, count - Lookahead)
      <4>1. Larger(0, continous_silence_frame_count - Lookahead) \in Int
        BY <1>2, WindowAssumption DEF Larger
      <4> QED BY <1>1, <1>2, <2>2, <3>3, <4>1
    <3>5. LastOut'.end_ms = Ms(latest + 1) /\ buf'.start_frame = latest + 1
      BY <1>2, <2>2, <3>2
    <3> QED BY <1>2, <2>2, <3>1, <3>2, <3>4, <3>5
  <2> QED BY <2>1, <2>2
<1>7. Outside'
  BY DEF Outside
<1>8. Inside'
  <2>1. confirmed_start_frame' \in 0..latest
    BY <1>2, <1>6
  <2>2. cur_frm_idx' - confirmed_start_frame' < LongestFrames
    BY <1>1, <1>2, NotTooLong, Longest
  <2> HIDE DEF count, latest
  <2> QED BY <1>6, <2>1, <2>2 DEF Inside, count, latest
<1>9. EndsInside'
  <2>1. pc' = "emit" => todo = 1
    BY DEF NextFrame
  <2>2. is_final' = is_final
    BY DEF NextFrame
  <2>3. ~(pc' = "emit" /\ is_final')
    BY <2>1, <2>2 DEF is_final_frame
  <2> QED BY <2>3 DEF EndsInside
<1>10. Counted'
  <2>1. /\ number_end_time_detected <= cur_frm_idx /\ Len(buf.out) <= cur_frm_idx
        /\ continous_silence_frame_count <= cur_frm_idx
        /\ number_end_time_detected \in Nat
    BY Constants DEF IndInv, Counted, TypeOK
  <2>2. /\ number_end_time_detected <= cur_frm_idx + 1 /\ Len(buf.out) <= cur_frm_idx + 1
        /\ count <= cur_frm_idx + 1
    BY <1>1, <1>2, <2>1
  <2> QED BY <1>1, <1>6, <2>2 DEF Counted
<1>11. Scalars'
  <2>1. Scalars
    BY ScalarsOfType DEF IndInv
  <2>2. latest \in 0..MaxFrames
    <3>1. cur_frm_idx \in 0..MaxFrames
      BY <1>1, <2>1, Constants DEF Scalars
    <3> QED BY <2>1, <3>1 DEF Scalars
  <2>3. win_state' \in [1..Win -> BOOLEAN] /\ pre_frame_state' \in BOOLEAN
    BY WindowMovesOn
  <2> QED BY <2>1, <2>2, <2>3, ScalarsAfter DEF Scalars
<1>12. TypeOK'
  BY <1>1, <1>4, <1>6, <1>10, <1>11, TypeOfScalars
<1> QED BY <1>1, <1>4, <1>6, <1>7, <1>8, <1>9, <1>10, <1>12 DEF IndInv

\* The end of the segment, at a frame behind its last confirmed speech.
LEMMA EndsInv ==
    ASSUME IndInv, pc = "frames", NextFrame, vad_state_machine = "in",
           NEW f \in Nat, latest_confirmed_speech_frame + 1 <= f, f <= cur_frm_idx,
           NEW toEnd \in BOOLEAN, EndsAt(f, toEnd)
    PROVE  IndInv'
<1>1. /\ cur_frm_idx \in Nat /\ cur_frm_idx + 1 <= frm_cnt /\ frm_cnt \in Nat
      /\ cur_frm_idx' = cur_frm_idx + 1 /\ frm_cnt' = frm_cnt
      /\ frm_cnt - 1 \in Nat /\ Covers(buf, frm_cnt - 1)
      /\ buf.out \in Seq(Entries) /\ Len(buf.out) \in Nat /\ Frames'
  BY InFrame, ReaderWaits
<1>2. /\ buf' = OnVoiceEnd(buf, f, toEnd)
      /\ number_end_time_detected' = number_end_time_detected + 1
      /\ win_state' = Silence /\ pre_frame_state' = FALSE
      /\ vad_state_machine' = "before" /\ confirmed_start_frame' = None
      /\ latest_confirmed_speech_frame' = 0 /\ lastest_confirmed_silence_frame' = None
      /\ continous_silence_frame_count' = 0
  BY DEF EndsAt, ResetDetection
<1>3. Covers(buf', frm_cnt - 1) /\ GrownTo(buf', buf, f, TRUE)
  <2>1. /\ latest_confirmed_speech_frame \in Nat
        /\ buf.start_frame = latest_confirmed_speech_frame + 1
        /\ buf.out # <<>> /\ ~LastOut.ended /\ LastOut.end_ms = Ms(buf.start_frame)
    BY InSegment
  <2>2. f <= frm_cnt - 1
    BY <1>1
  <2> QED BY <1>1, <1>2, <2>1, <2>2, VoiceEnds DEF LastOut
<1>4. NoFault' /\ (buf \in Bufs)' /\ Audio'
  BY <1>1, <1>3, AudioAfter
<1>5. buf' \in Bufs
  BY <1>4
<1>6. /\ Output' /\ Reader' /\ Len(buf'.out) = Len(buf.out) /\ buf'.out # <<>>
      /\ LastOut'.end_ms = Ms(f + 1) /\ LastOut'.ended = TRUE
  BY <1>1, <1>3, <1>5, OutputGrown
<1>7. buf'.start_frame = f + 1
  BY <1>3 DEF GrownTo
<1>8. Outside'
  <2>1. f + 1 <= cur_frm_idx + 1
    BY <1>1
  <2>2. buf'.start_frame <= cur_frm_idx'
    BY <1>1, <1>7, <2>1
  <2>3. Ms(f + 1) \in Int
    BY MsNat
  <2>4. LastOut'.end_ms <= Ms(buf'.start_frame)
    BY <1>6, <1>7, <2>3
  <2> QED BY <1>2, <1>6, <2>2, <2>4 DEF Outside
<1>9. Inside' /\ EndsInside'
  BY <1>2 DEF Inside, EndsInside
<1>10. Counted'
  <2>1. /\ number_end_time_detected <= cur_frm_idx /\ Len(buf.out) <= cur_frm_idx
        /\ number_end_time_detected \in Nat
    BY Constants DEF IndInv, Counted, TypeOK
  <2>2. /\ number_end_time_detected + 1 <= cur_frm_idx + 1 /\ Len(buf.out) <= cur_frm_idx + 1
        /\ 0 <= cur_frm_idx + 1
    BY <1>1, <2>1
  <2> QED BY <1>1, <1>2, <1>6, <2>2 DEF Counted
<1>11. Scalars'
  <2>1. Silence \in [1..Win -> BOOLEAN]
    BY DEF Silence
  <2>2. None \in None..MaxFrames /\ 0 \in 0..MaxFrames
    BY Constants DEF None
  <2>3. number_end_time_detected' \in Nat
    BY <1>2 DEF IndInv, TypeOK
  <2> QED BY <1>2, <2>1, <2>2, <2>3, ScalarsAfter
<1>12. TypeOK'
  BY <1>1, <1>4, <1>6, <1>10, <1>11, TypeOfScalars
<1> QED BY <1>1, <1>4, <1>6, <1>8, <1>9, <1>10, <1>12 DEF IndInv

LEMMA SegmentGrowsInv ==
    ASSUME IndInv, NEW speech \in BOOLEAN, SegmentGrows(speech)
    PROVE  IndInv'
<1> DEFINE from == IF Sil2Speech(speech) THEN latest_confirmed_speech_frame + 1
                                         ELSE cur_frm_idx
<1>1. /\ pc = "frames" /\ NextFrame /\ vad_state_machine = "in" /\ ~Sil2Sil(speech)
      /\ ~TooLong /\ ~is_final_frame
      /\ buf' = OnVoiceDetected(buf, from, cur_frm_idx)
      /\ latest_confirmed_speech_frame' = cur_frm_idx
      /\ continous_silence_frame_count' = 0
      /\ WindowMoves(speech)
      /\ vad_state_machine' = vad_state_machine
      /\ confirmed_start_frame' = confirmed_start_frame
      /\ lastest_confirmed_silence_frame' = lastest_confirmed_silence_frame
      /\ number_end_time_detected' = number_end_time_detected
  BY DEF SegmentGrows
<1>2. /\ cur_frm_idx \in Nat /\ cur_frm_idx + 1 <= frm_cnt /\ frm_cnt \in Nat
      /\ frm_cnt - 1 \in Nat /\ Covers(buf, frm_cnt - 1)
  BY <1>1, InFrame
<1>3. /\ latest_confirmed_speech_frame \in Nat /\ continous_silence_frame_count \in Nat
      /\ latest_confirmed_speech_frame + 1 <= cur_frm_idx
      /\ cur_frm_idx = latest_confirmed_speech_frame + 1
                         + Larger(0, continous_silence_frame_count - Lookahead)
      /\ buf.start_frame = latest_confirmed_speech_frame + 1
      /\ buf.out # <<>> /\ ~LastOut.ended
      /\ LastOut.end_ms = Ms(buf.start_frame)
      /\ pre_frame_state => continous_silence_frame_count = 0
  BY <1>1, InSegment
<1>4. from = latest_confirmed_speech_frame + 1
  <2>1. ASSUME ~Sil2Speech(speech) PROVE cur_frm_idx = latest_confirmed_speech_frame + 1
    <3>1. continous_silence_frame_count = 0
      BY <1>1, <1>3, <2>1, WindowMovesOn
    <3>2. Larger(0, 0 - Lookahead) = 0
      BY WindowAssumption DEF Larger
    <3> QED BY <1>3, <3>1, <3>2
  <2> QED BY <2>1
<1>5. buf' = OnVoiceDetected(buf, latest_confirmed_speech_frame + 1, cur_frm_idx)
  BY <1>1, <1>4
<1> HIDE DEF from
<1>6. Covers(buf', frm_cnt - 1) /\ GrownTo(buf', buf, cur_frm_idx, FALSE)
  <2>1. latest_confirmed_speech_frame + 1 \in Nat /\ cur_frm_idx <= frm_cnt - 1
    BY <1>2, <1>3
  <2> QED BY <1>2, <1>3, <1>5, <2>1, VoiceDetected DEF LastOut
<1>7. 0 \in Nat /\ 0 <= Lookahead /\ 0 <= continous_silence_frame_count + 1
  BY <1>3, WindowAssumption
<1> QED BY <1>1, <1>6, <1>7, StaysInside

LEMMA SilenceGrowsInv ==
    ASSUME IndInv, NEW speech \in BOOLEAN, SilenceGrows(speech)
    PROVE  IndInv'
<1> DEFINE count == continous_silence_frame_count + 1
<1>1. /\ pc = "frames" /\ NextFrame /\ vad_state_machine = "in" /\ Sil2Sil(speech)
      /\ continous_silence_frame_count' = count
      /\ ~TooLong /\ ~is_final_frame /\ WindowMoves(speech)
      /\ IF count <= Lookahead
         THEN /\ buf' = OnVoiceDetected(buf, cur_frm_idx, cur_frm_idx)
              /\ latest_confirmed_speech_frame' = cur_frm_idx
         ELSE /\ buf' = buf
              /\ latest_confirmed_speech_frame' = latest_confirmed_speech_frame
      /\ vad_state_machine' = vad_state_machine
      /\ confirmed_start_frame' = confirmed_start_frame
      /\ lastest_confirmed_silence_frame' = lastest_confirmed_silence_frame
      /\ number_end_time_detected' = number_end_time_detected
  BY DEF SilenceGrows
<1>2. /\ cur_frm_idx \in Nat /\ cur_frm_idx + 1 <= frm_cnt /\ frm_cnt \in Nat
      /\ frm_cnt - 1 \in Nat /\ Covers(buf, frm_cnt - 1)
  BY <1>1, InFrame
<1>3. /\ latest_confirmed_speech_frame \in Nat /\ continous_silence_frame_count \in Nat
      /\ cur_frm_idx = latest_confirmed_speech_frame + 1
                         + Larger(0, continous_silence_frame_count - Lookahead)
      /\ buf.start_frame = latest_confirmed_speech_frame + 1
      /\ buf.out # <<>> /\ ~LastOut.ended
      /\ LastOut.end_ms = Ms(buf.start_frame)
  BY <1>1, InSegment
<1>4. ~pre_frame_state'
  BY <1>1, WindowMovesOn
<1>5. count \in Nat /\ Lookahead \in Nat /\ count <= continous_silence_frame_count + 1
  BY <1>3, WindowAssumption
<1>6. CASE count <= Lookahead
  <2>1. Larger(0, continous_silence_frame_count - Lookahead) = 0
    BY <1>3, <1>5, <1>6 DEF Larger
  <2>2. cur_frm_idx = buf.start_frame /\ cur_frm_idx <= frm_cnt - 1 /\ cur_frm_idx <= cur_frm_idx
    BY <1>2, <1>3, <2>1
  <2>3. buf' = OnVoiceDetected(buf, cur_frm_idx, cur_frm_idx)
    BY <1>1, <1>6
  <2>4. Covers(buf', frm_cnt - 1) /\ GrownTo(buf', buf, cur_frm_idx, FALSE)
    BY <1>2, <1>3, <2>2, <2>3, VoiceDetected DEF LastOut
  <2> HIDE DEF count
  <2> QED BY <1>1, <1>4, <1>5, <1>6, <2>4, StaysInside
<1>7. CASE ~(count <= Lookahead)
  <2>1. /\ buf' = buf /\ count > Lookahead
        /\ latest_confirmed_speech_frame' = latest_confirmed_speech_frame
    BY <1>1, <1>5, <1>7
  <2> QED BY <1>1, <1>4, <1>5, <2>1, StaysInside
<1> QED BY <1>6, <1>7

LEMMA SegmentIsCutInv ==
    ASSUME IndInv, NEW speech \in BOOLEAN, SegmentIsCut(speech)
    PROVE  IndInv'
<1>1. /\ pc = "frames" /\ NextFrame /\ vad_state_machine = "in"
      /\ EndsAt(cur_frm_idx, ~TooLong)
  BY DEF SegmentIsCut
<1>2. cur_frm_idx \in Nat /\ latest_confirmed_speech_frame + 1 <= cur_frm_idx
  BY <1>1, InFrame, InSegment
<1>3. cur_frm_idx <= cur_frm_idx /\ (~TooLong) \in BOOLEAN
  BY <1>2
<1> QED BY <1>1, <1>2, <1>3, EndsInv

\* The end that lasting silence puts before it is behind the last confirmed speech.
LEMMA LookbackBounded ==
    ASSUME IndInv, pc = "frames", NextFrame, vad_state_machine = "in",
           SilentFor(continous_silence_frame_count + 1)
    PROVE  /\ cur_frm_idx - lookback_frame \in Nat
           /\ latest_confirmed_speech_frame + 1 <= cur_frm_idx - lookback_frame
           /\ cur_frm_idx - lookback_frame <= cur_frm_idx
<1> DEFINE t == max_end_sil_frame_cnt_thresh
           q == t \div FrameMs
           n == continous_silence_frame_count + 1
<1>1. /\ latest_confirmed_speech_frame \in Nat /\ continous_silence_frame_count \in Nat
      /\ cur_frm_idx = latest_confirmed_speech_frame + 1
                         + Larger(0, continous_silence_frame_count - Lookahead)
  BY InSegment
<1>2. t \in Int
  <2>1. max_end_sil \in Int
    BY RequestAssumption DEF IndInv, TypeOK
  <2>2. Ms(SpeechToSil) \in Int
    BY WindowAssumption, MsType
  <2> QED BY <2>1, <2>2 DEF max_end_sil_frame_cnt_thresh
<1>3. n \in Int /\ t <= Ms(n)
  <2>1. n \in Int
    BY <1>1
  <2>2. Ms(n) \in Int
    BY <2>1, MsType
  <2> HIDE DEF n
  <2> QED BY <1>2, <2>1, <2>2 DEF SilentFor, n
<1>4. q \in Int
  BY <1>2, Quotient
<1> HIDE DEF t, n
<1>5. q <= n
  BY <1>2, <1>3, QuotientBelow
<1>6. lookback_frame = Larger(0, q - Lookahead - 1)
  BY DEF lookback_frame, t
<1> HIDE DEF q
<1>7. /\ lookback_frame \in Nat
      /\ lookback_frame <= Larger(0, continous_silence_frame_count - Lookahead)
  <2>1. q <= continous_silence_frame_count + 1
    BY <1>5 DEF n
  <2> QED BY <1>1, <1>4, <1>6, <2>1, WindowAssumption DEF Larger
<1>8. Larger(0, continous_silence_frame_count - Lookahead) \in Nat
  BY <1>1, WindowAssumption DEF Larger
<1> QED BY <1>1, <1>7, <1>8

LEMMA SilenceEndsInv ==
    ASSUME IndInv, NEW speech \in BOOLEAN, SilenceEnds(speech)
    PROVE  IndInv'
<1>1. pc = "frames" /\ NextFrame /\ vad_state_machine = "in"
  BY DEF SilenceEnds
<1>2. /\ cur_frm_idx \in Nat /\ latest_confirmed_speech_frame + 1 <= cur_frm_idx
      /\ cur_frm_idx <= cur_frm_idx
  BY <1>1, InFrame, InSegment
<1>3. \/ /\ SilentFor(continous_silence_frame_count + 1)
         /\ EndsAt(cur_frm_idx - lookback_frame, FALSE)
      \/ EndsAt(cur_frm_idx, FALSE)
      \/ EndsAt(cur_frm_idx, TRUE)
  BY DEF SilenceEnds
<1>4. CASE /\ SilentFor(continous_silence_frame_count + 1)
           /\ EndsAt(cur_frm_idx - lookback_frame, FALSE)
  BY <1>1, <1>4, LookbackBounded, EndsInv
<1>5. CASE EndsAt(cur_frm_idx, FALSE)
  BY <1>1, <1>2, <1>5, EndsInv
<1>6. CASE EndsAt(cur_frm_idx, TRUE)
  BY <1>1, <1>2, <1>6, EndsInv
<1> QED BY <1>3, <1>4, <1>5, <1>6

\* A frame outside a segment that begins none: data_buf moves on, at most to the frame.
LEMMA StaysOutside ==
    ASSUME IndInv, pc = "frames", NextFrame, vad_state_machine = "before",
           vad_state_machine' = "before", pre_frame_state' = FALSE,
           win_state' \in [1..Win -> BOOLEAN],
           Covers(buf', frm_cnt - 1), buf'.out = buf.out,
           buf.start_frame <= buf'.start_frame, buf'.start_frame <= cur_frm_idx,
           confirmed_start_frame' \in None..MaxFrames,
           latest_confirmed_speech_frame' \in 0..MaxFrames,
           lastest_confirmed_silence_frame' \in None..MaxFrames,
           continous_silence_frame_count' \in {0, continous_silence_frame_count + 1},
           number_end_time_detected' \in
               {number_end_time_detected, number_end_time_detected + 1}
    PROVE  IndInv'
<1>1. /\ cur_frm_idx \in Nat /\ cur_frm_idx + 1 <= frm_cnt /\ frm_cnt \in Nat
      /\ cur_frm_idx' = cur_frm_idx + 1 /\ frm_cnt' = frm_cnt
      /\ frm_cnt - 1 \in Nat
      /\ buf.out \in Seq(Entries) /\ Len(buf.out) \in Nat /\ Frames'
  BY InFrame, ReaderWaits
<1>2. NoFault' /\ (buf \in Bufs)' /\ Audio'
  BY <1>1, AudioAfter
<1>3. Output' /\ Reader' /\ LastOut' = LastOut
  BY OutputSame DEF LastOut
<1>4. buf'.start_frame \in Nat /\ buf.start_frame \in Nat
  BY <1>2 DEF Bufs, IndInv
<1>5. Outside'
  <2>1. buf'.start_frame <= cur_frm_idx' /\ buf'.start_frame # cur_frm_idx'
    <3>1. \A m \in Nat : m <= cur_frm_idx => m <= cur_frm_idx + 1 /\ m # cur_frm_idx + 1
      BY <1>1
    <3> QED BY <1>1, <1>4, <3>1
  <2>2. buf.out # <<>> => LastOut.ended /\ LastOut.end_ms <= Ms(buf'.start_frame)
    <3>1. buf.out # <<>> => LastOut.ended /\ LastOut.end_ms <= Ms(buf.start_frame)
      BY DEF IndInv, Outside
    <3>2. ASSUME NEW m \in Nat, buf.start_frame <= m
          PROVE  /\ Ms(buf.start_frame) <= Ms(m)
                 /\ Ms(buf.start_frame) \in Int /\ Ms(m) \in Int
      <4>1. m \in Int /\ buf.start_frame \in Int
        BY <1>4
      <4> QED BY <3>2, <4>1, MsMonotone, MsType
    <3>3. /\ Ms(buf.start_frame) <= Ms(buf'.start_frame)
          /\ Ms(buf.start_frame) \in Int /\ Ms(buf'.start_frame) \in Int
      BY <1>4, <3>2
    <3>4. buf.out # <<>> => LastOut.end_ms \in Int
      <4>1. ASSUME buf.out # <<>> PROVE LastOut \in Entries
        BY <1>1, <4>1 DEF LastOut
      <4> QED BY <4>1 DEF Entries
    <3>5. \A x, y, z \in Int : x <= y /\ y <= z => x <= z
      OBVIOUS
    <3> QED BY <3>1, <3>3, <3>4, <3>5
  <2> QED BY <1>3, <2>1, <2>2 DEF Outside
<1>6. Inside' /\ EndsInside'
  BY DEF Inside, EndsInside
<1>7. /\ continous_silence_frame_count \in Nat /\ number_end_time_detected \in Nat
      /\ number_end_time_detected <= cur_frm_idx /\ Len(buf.out) <= cur_frm_idx
      /\ continous_silence_frame_count <= cur_frm_idx
  BY Constants DEF IndInv, Counted, TypeOK
<1>8. Counted'
  <2>1. /\ number_end_time_detected <= cur_frm_idx + 1 /\ Len(buf.out) <= cur_frm_idx + 1
        /\ number_end_time_detected + 1 <= cur_frm_idx + 1 /\ 0 <= cur_frm_idx + 1
        /\ continous_silence_frame_count + 1 <= cur_frm_idx + 1
    BY <1>1, <1>7
  <2> QED BY <1>1, <2>1 DEF Counted
<1>9. Scalars'
  <2>1. continous_silence_frame_count' \in Nat /\ number_end_time_detected' \in Nat
    BY <1>7
  <2> QED BY <2>1, ScalarsAfter
<1>10. TypeOK'
  BY <1>1, <1>2, <1>3, <1>8, <1>9, TypeOfScalars
<1> QED BY <1>1, <1>2, <1>3, <1>5, <1>6, <1>8, <1>10 DEF IndInv

LEMMA StillSilentInv ==
    ASSUME IndInv, NEW speech \in BOOLEAN, StillSilent(speech)
    PROVE  IndInv'
<1>1. /\ pc = "frames" /\ NextFrame /\ vad_state_machine = "before" /\ Sil2Sil(speech)
      /\ continous_silence_frame_count' = continous_silence_frame_count + 1
      /\ IF cur_frm_idx >= Latency
         THEN /\ buf' = PopDataBufTillFrame(buf, cur_frm_idx - Latency)
              /\ lastest_confirmed_silence_frame' = cur_frm_idx - Latency
         ELSE /\ buf' = buf
              /\ lastest_confirmed_silence_frame' = lastest_confirmed_silence_frame
      /\ WindowMoves(speech)
      /\ vad_state_machine' = vad_state_machine
      /\ confirmed_start_frame' = confirmed_start_frame
      /\ latest_confirmed_speech_frame' = latest_confirmed_speech_frame
      /\ number_end_time_detected' = number_end_time_detected
  BY DEF StillSilent, Latency
<1>2. /\ cur_frm_idx \in Nat /\ cur_frm_idx + 1 <= frm_cnt /\ frm_cnt \in Nat
      /\ frm_cnt - 1 \in Nat /\ Covers(buf, frm_cnt - 1) /\ buf.start_frame \in Nat
  BY <1>1, InFrame
<1>3. Scalars
  BY ScalarsOfType DEF IndInv
<1>4. buf.start_frame <= cur_frm_idx
  BY <1>1 DEF IndInv, Outside
<1>5. /\ Covers(buf', frm_cnt - 1) /\ buf'.out = buf.out
      /\ buf.start_frame <= buf'.start_frame /\ buf'.start_frame <= cur_frm_idx
      /\ lastest_confirmed_silence_frame' \in None..MaxFrames
  <2>1. CASE cur_frm_idx >= Latency
    <3>1. /\ buf' = PopDataBufTillFrame(buf, cur_frm_idx - Latency)
          /\ lastest_confirmed_silence_frame' = cur_frm_idx - Latency
      BY <1>1, <2>1
    <3>2. cur_frm_idx - Latency \in Nat /\ cur_frm_idx - Latency <= frm_cnt - 1
      BY <1>2, <2>1, Constants
    <3>3. /\ Covers(buf', frm_cnt - 1) /\ buf'.out = buf.out
          /\ buf'.start_frame = Larger(buf.start_frame, cur_frm_idx - Latency)
      BY <1>2, <3>1, <3>2, PopDataBuf
    <3>4. /\ buf.start_frame <= Larger(buf.start_frame, cur_frm_idx - Latency)
          /\ Larger(buf.start_frame, cur_frm_idx - Latency) <= cur_frm_idx
      BY <1>2, <1>4, <3>2, Constants DEF Larger
    <3>5. cur_frm_idx - Latency \in None..MaxFrames
      <4>1. frm_cnt <= MaxFrames
        BY <1>3, Constants DEF Scalars
      <4> QED BY <1>2, <3>2, <4>1, Constants DEF None
    <3> QED BY <3>1, <3>3, <3>4, <3>5
  <2>2. CASE ~(cur_frm_idx >= Latency)
    <3>1. buf' = buf /\ lastest_confirmed_silence_frame' = lastest_confirmed_silence_frame
      BY <1>1, <2>2
    <3>2. buf.start_frame <= buf.start_frame
      BY <1>2
    <3> QED BY <1>2, <1>3, <1>4, <3>1, <3>2 DEF Scalars
  <2> QED BY <2>1, <2>2
<1>6. win_state' \in [1..Win -> BOOLEAN] /\ pre_frame_state' = FALSE
  BY <1>1, WindowMovesOn
<1>7. /\ confirmed_start_frame' \in None..MaxFrames
      /\ latest_confirmed_speech_frame' \in 0..MaxFrames
  BY <1>1, <1>3 DEF Scalars
<1> QED BY <1>1, <1>5, <1>6, <1>7, StaysOutside

LEMMA NeverSpokeInv ==
    ASSUME IndInv, NEW speech \in BOOLEAN, NeverSpoke(speech)
    PROVE  IndInv'
<1>1. /\ pc = "frames" /\ NextFrame /\ vad_state_machine = "before"
      /\ buf' = IF lastest_confirmed_silence_frame + 1 < cur_frm_idx
                THEN PopDataBufTillFrame(buf, cur_frm_idx - 1) ELSE buf
      /\ number_end_time_detected' = number_end_time_detected + 1
      /\ win_state' = Silence /\ pre_frame_state' = FALSE
      /\ vad_state_machine' = "before" /\ confirmed_start_frame' = None
      /\ latest_confirmed_speech_frame' = 0 /\ lastest_confirmed_silence_frame' = None
      /\ continous_silence_frame_count' = 0
  BY DEF NeverSpoke, ResetDetection
<1>2. /\ cur_frm_idx \in Nat /\ cur_frm_idx + 1 <= frm_cnt /\ frm_cnt \in Nat
      /\ frm_cnt - 1 \in Nat /\ Covers(buf, frm_cnt - 1) /\ buf.start_frame \in Nat
  BY <1>1, InFrame
<1>3. buf.start_frame <= cur_frm_idx
  BY <1>1 DEF IndInv, Outside
<1>4. /\ Covers(buf', frm_cnt - 1) /\ buf'.out = buf.out
      /\ buf.start_frame <= buf'.start_frame /\ buf'.start_frame <= cur_frm_idx
  <2>1. CASE lastest_confirmed_silence_frame + 1 < cur_frm_idx
    <3>1. lastest_confirmed_silence_frame \in None..MaxFrames
      BY DEF IndInv, TypeOK
    <3>2. cur_frm_idx - 1 \in Nat /\ cur_frm_idx - 1 <= frm_cnt - 1
      BY <1>2, <2>1, <3>1, Constants DEF None
    <3>3. buf' = PopDataBufTillFrame(buf, cur_frm_idx - 1)
      BY <1>1, <2>1
    <3>4. /\ Covers(buf', frm_cnt - 1) /\ buf'.out = buf.out
          /\ buf'.start_frame = Larger(buf.start_frame, cur_frm_idx - 1)
      BY <1>2, <3>2, <3>3, PopDataBuf
    <3>5. /\ buf.start_frame <= Larger(buf.start_frame, cur_frm_idx - 1)
          /\ Larger(buf.start_frame, cur_frm_idx - 1) <= cur_frm_idx
      BY <1>2, <1>3, <3>2 DEF Larger
    <3> QED BY <3>4, <3>5
  <2>2. CASE ~(lastest_confirmed_silence_frame + 1 < cur_frm_idx)
    <3>1. buf' = buf /\ buf.start_frame <= buf.start_frame
      BY <1>1, <1>2, <2>2
    <3> QED BY <1>2, <1>3, <3>1
  <2> QED BY <2>1, <2>2
<1>5. /\ Silence \in [1..Win -> BOOLEAN] /\ None \in None..MaxFrames /\ 0 \in 0..MaxFrames
  BY Constants DEF Silence, None
<1> QED BY <1>1, <1>4, <1>5, StaysOutside

LEMMA FrameInv ==
    ASSUME IndInv, NEW speech \in BOOLEAN, DetectOneFrame(speech)
    PROVE  IndInv'
BY SegmentBeginsInv, SegmentGrowsInv, SegmentIsCutInv, SilenceEndsInv, SilenceGrowsInv,
   StillSilentInv, NeverSpokeInv DEF DetectOneFrame
-----------------------------------------------------------------------------
(* The start, the calls, and what is told of them.                           *)

LEMMA InitInv == Init => IndInv
<1> SUFFICES ASSUME Init PROVE IndInv
  OBVIOUS
<1>1. /\ pc = "idle" /\ todo = 0 /\ is_final = FALSE /\ i = 1 /\ frm_cnt = 0
      /\ win_state = Silence /\ pre_frame_state = FALSE /\ vad_state_machine = "before"
      /\ confirmed_start_frame = None /\ latest_confirmed_speech_frame = 0
      /\ lastest_confirmed_silence_frame = None /\ continous_silence_frame_count = 0
      /\ number_end_time_detected = 0 /\ max_end_sil = 0 /\ max_single_segment_time = 0
      /\ buf = NewBuf /\ next_seg = TRUE /\ output_data_buf_offset = 0
      /\ open = None /\ last = 0 /\ streams = 1
  BY DEF Init
<1>2. /\ buf.start_frame = 0 /\ buf.size = 0 /\ buf.all_size = 0 /\ buf.out = <<>>
      /\ buf.faults = {} /\ Len(buf.out) = 0
  BY <1>1 DEF NewBuf
<1>3. buf \in Bufs
  BY <1>1 DEF NewBuf, Bufs
<1>4. TypeOK
  <2>1. Silence \in [1..Win -> BOOLEAN]
    BY DEF Silence
  <2>2. None \in None..MaxFrames /\ 0 \in 0..MaxFrames /\ 0 \in 0..MaxBlock
        /\ 1 \in 1..MaxFrames + 1 /\ 0 \in 0..0 /\ None \in Int
    BY Constants DEF None
  <2>3. Scalars
    BY <1>1, <2>1, <2>2 DEF Scalars
  <2>4. /\ todo \in 0..MaxBlock /\ (pc = "frames" => todo \in 1..frm_cnt)
        /\ continous_silence_frame_count \in 0..MaxFrames
        /\ number_end_time_detected \in 0..MaxFrames
        /\ output_data_buf_offset \in 0..Len(buf.out)
    BY <1>1, <1>2, <2>2
  <2>5. /\ buf.start_frame \in Nat /\ buf.size \in Int /\ buf.all_size \in Nat
        /\ buf.faults \subseteq {"loop", "size", "gap"}
    BY <1>2
  <2>6. \A k \in DOMAIN buf.out :
          /\ buf.out[k].start_ms \in Nat /\ buf.out[k].end_ms \in Nat
          /\ buf.out[k].begun \in BOOLEAN /\ buf.out[k].ended \in BOOLEAN
    BY <1>2
  <2> QED BY <2>3, <2>4, <2>5, <2>6 DEF TypeOK, Scalars
<1>5. Frames /\ Audio /\ NoFault
  BY <1>1, <1>2, Constants DEF Frames, Audio, NoFault
<1>6. cur_frm_idx = 0
  BY <1>1 DEF cur_frm_idx
<1>7. Output /\ Outside /\ Inside /\ EndsInside /\ Counted
  BY <1>1, <1>2, <1>6 DEF Output, Outside, Inside, EndsInside, Counted
<1>8. Reader
  BY <1>1, <1>2 DEF Reader, Told
<1> QED BY <1>3, <1>4, <1>5, <1>7, <1>8 DEF IndInv

LEMMA CallInv ==
    ASSUME IndInv, NEW n \in 1..MaxBlock, NEW final \in BOOLEAN, NEW overlap \in Overlaps,
           NEW end_sil \in EndSils, NEW max_seg \in MaxSegs,
           Call(n, final, overlap, end_sil, max_seg)
    PROVE  IndInv'
<1> DEFINE m == overlap + Ms(n - 1) + FrameLenMs
<1>1. /\ pc = "idle" /\ frm_cnt + n <= MaxFrames
      /\ pc' = "frames" /\ todo' = n /\ is_final' = final /\ i' = i
      /\ frm_cnt' = frm_cnt + n
      /\ max_end_sil' = end_sil /\ max_single_segment_time' = max_seg
      /\ buf' = ComputeDecibel(buf, m)
      /\ win_state' = win_state /\ pre_frame_state' = pre_frame_state
      /\ vad_state_machine' = vad_state_machine
      /\ confirmed_start_frame' = confirmed_start_frame
      /\ latest_confirmed_speech_frame' = latest_confirmed_speech_frame
      /\ lastest_confirmed_silence_frame' = lastest_confirmed_silence_frame
      /\ continous_silence_frame_count' = continous_silence_frame_count
      /\ number_end_time_detected' = number_end_time_detected
      /\ next_seg' = next_seg /\ output_data_buf_offset' = output_data_buf_offset
      /\ open' = open /\ last' = last /\ streams' = streams
  BY DEF Call, detectVars, windowVars, emitVars
<1>2. Scalars /\ buf \in Bufs /\ todo = 0 /\ frm_cnt \in Nat /\ n \in Nat /\ n > 0
      /\ n <= MaxBlock
  BY <1>1, ScalarsOfType, Constants DEF IndInv, TypeOK, Frames
<1>3. /\ buf.all_size \in Nat /\ buf.size \in Int /\ buf.out \in Seq(Entries)
      /\ buf.start_frame \in Nat /\ buf.faults = {} /\ overlap \in Nat
  BY <1>2, RequestAssumption DEF IndInv, NoFault, Bufs
<1>4. Ms(n - 1) \in Nat
  <2>1. n - 1 \in Nat
    BY <1>2
  <2> QED BY <2>1, MsNat
<1>5. m \in Nat /\ m >= Ms(n - 1) + FrameLenMs
  BY <1>3, <1>4, Constants
<1>6. cur_frm_idx = frm_cnt /\ cur_frm_idx' = frm_cnt /\ frm_cnt \in Nat
  <2>1. frm_cnt + n - n = frm_cnt /\ frm_cnt - 0 = frm_cnt
    BY <1>2
  <2> QED BY <1>1, <1>2, <2>1 DEF cur_frm_idx
<1> HIDE DEF m
<1>7. /\ buf'.start_frame = buf.start_frame /\ buf'.out = buf.out /\ buf'.faults = buf.faults
      /\ buf'.all_size = buf.all_size + m
      /\ buf'.size = IF buf.all_size = 0 THEN m ELSE buf.size
  <2>1. CASE buf.all_size = 0
    <3>1. buf' = [buf EXCEPT !.all_size = m, !.size = m]
      BY <1>1, <2>1 DEF ComputeDecibel
    <3>2. buf.all_size + m = m
      BY <1>5, <2>1
    <3> QED BY <1>2, <2>1, <3>1, <3>2 DEF Bufs
  <2>2. CASE buf.all_size # 0
    <3>1. buf' = [buf EXCEPT !.all_size = @ + m]
      BY <1>1, <2>2 DEF ComputeDecibel
    <3> QED BY <1>2, <2>2, <3>1 DEF Bufs
  <2> QED BY <2>1, <2>2
<1>8. buf' \in Bufs
  <2>1. CASE buf.all_size = 0
    <3>1. buf' = [buf EXCEPT !.all_size = m, !.size = m]
      BY <1>1, <2>1 DEF ComputeDecibel
    <3>2. m \in Int
      BY <1>5
    <3> QED BY <1>2, <1>5, <3>1, <3>2 DEF Bufs
  <2>2. CASE buf.all_size # 0
    <3>1. buf' = [buf EXCEPT !.all_size = buf.all_size + m]
      BY <1>1, <2>2 DEF ComputeDecibel
    <3>2. buf.all_size + m \in Nat
      BY <1>3, <1>5
    <3> QED BY <1>2, <3>1, <3>2 DEF Bufs
  <2> QED BY <2>1, <2>2
<1>9. NoFault' /\ LastOut' = LastOut
  BY <1>3, <1>7 DEF NoFault, LastOut
<1>10. Audio'
  <2>1. buf.all_size > 0 => buf.size >= FrameLenMs
    BY DEF IndInv, Audio
  <2>2. buf'.size >= FrameLenMs
    <3>1. CASE buf.all_size = 0
      BY <1>4, <1>5, <1>7, <3>1, Constants
    <3>2. CASE buf.all_size # 0
      BY <1>3, <1>7, <2>1, <3>2
    <3> QED BY <3>1, <3>2
  <2>3. buf.all_size + m >= Ms(frm_cnt + n - 1) + FrameLenMs
    <3>1. CASE frm_cnt = 0
      <4>1. Ms(frm_cnt + n - 1) = Ms(n - 1)
        <5>1. frm_cnt + n - 1 = n - 1
          BY <1>2, <3>1
        <5> QED BY <5>1
      <4> QED BY <1>3, <1>4, <1>5, <4>1, Constants
    <3>2. CASE frm_cnt > 0
      <4>1. buf.all_size >= Ms(frm_cnt - 1) + FrameLenMs
        BY <3>2 DEF IndInv, Audio
      <4>2. frm_cnt - 1 \in Int /\ n - 1 \in Int /\ frm_cnt + n - 1 = (frm_cnt - 1) + (n - 1) + 1
            /\ (frm_cnt - 1) + (n - 1) \in Int
        BY <1>2
      <4>3. /\ Ms((frm_cnt - 1) + (n - 1) + 1) = Ms((frm_cnt - 1) + (n - 1)) + FrameMs
            /\ Ms((frm_cnt - 1) + (n - 1)) = Ms(frm_cnt - 1) + Ms(n - 1)
            /\ Ms(frm_cnt - 1) \in Int
        BY <4>2, MsStep, MsSum, MsType
      <4>4. Ms(frm_cnt + n - 1) = Ms(frm_cnt - 1) + Ms(n - 1) + FrameMs
        BY <4>2, <4>3
      <4> QED BY <1>3, <1>4, <1>5, <4>1, <4>3, <4>4, Constants
    <3> QED BY <1>2, <3>1, <3>2
  <2>4. frm_cnt' - 1 = frm_cnt + n - 1
    BY <1>1, <1>2
  <2> QED BY <1>7, <2>2, <2>3, <2>4 DEF Audio
<1>11. Frames'
  <2>1. n <= frm_cnt + n /\ n \in 0..MaxBlock /\ n # 0
    BY <1>2, Constants
  <2> QED BY <1>1, <2>1 DEF Frames
<1>12. Output'
  <2>1. Ms(frm_cnt) <= Ms(frm_cnt + n) /\ Ms(frm_cnt) \in Int /\ Ms(frm_cnt + n) \in Int
    <3>1. frm_cnt \in Int /\ frm_cnt + n \in Int /\ frm_cnt <= frm_cnt + n
      BY <1>2
    <3> QED BY <3>1, MsMonotone, MsType
  <2>2. ASSUME NEW k \in 1..Len(buf.out) PROVE InOutput(buf.out, k, frm_cnt + n)
    <3>1. InOutput(buf.out, k, frm_cnt)
      BY DEF IndInv, Output
    <3>2. buf.out[k].end_ms \in Int
      <4>1. buf.out[k] \in Entries
        BY <1>3
      <4> QED BY <4>1 DEF Entries
    <3>3. buf.out[k].end_ms <= Ms(frm_cnt + n)
      BY <2>1, <3>1, <3>2 DEF InOutput
    <3> QED BY <3>1, <3>3 DEF InOutput
  <2> QED BY <1>1, <1>7, <2>2 DEF Output
<1>13. Outside'
  BY <1>1, <1>6, <1>7, <1>9 DEF IndInv, Outside
<1>14. Inside'
  BY <1>1, <1>6, <1>7, <1>9 DEF IndInv, Inside
<1>15. EndsInside'
  BY <1>1 DEF EndsInside
<1>16. Counted'
  BY <1>1, <1>6, <1>7 DEF IndInv, Counted
<1>17. Reader'
  <2>1. Told' = Told
    BY <1>1 DEF Told
  <2>2. Told = Len(buf.out) /\ Len(buf.out) \in Nat
    BY <1>1, <1>3 DEF IndInv, Reader
  <2>3. Told + 1..Len(buf.out) = {}
    BY <2>2
  <2>4. pc' # "idle" /\ pc' # "emit"
    BY <1>1
  <2> QED BY <1>1, <1>7, <2>1, <2>3, <2>4 DEF IndInv, Reader
<1>18. Scalars'
  <2>1. frm_cnt + n \in 0..MaxFrames
    BY <1>1, <1>2, Constants
  <2> QED BY <1>1, <1>2, <2>1 DEF Scalars
<1>19. TypeOK'
  BY <1>8, <1>11, <1>16, <1>17, <1>18, TypeOfScalars
<1> QED BY <1>8, <1>9, <1>10, <1>11, <1>12, <1>13, <1>14, <1>15, <1>16, <1>17, <1>19
        DEF IndInv

\* What a step that only tells leaves as it is.
LEMMA TellingKeeps ==
    ASSUME IndInv,
           UNCHANGED <<todo, is_final, frm_cnt, detectVars, number_end_time_detected,
                       optVars, buf, streams>>,
           pc = "emit", pc' \in {"emit", "idle"}, Reader',
           next_seg' \in BOOLEAN, output_data_buf_offset' \in Nat, open' \in Int, last' \in Nat,
           i' \in 1..MaxFrames + 1
    PROVE  IndInv'
<1>1. /\ todo' = todo /\ is_final' = is_final /\ frm_cnt' = frm_cnt
      /\ win_state' = win_state /\ pre_frame_state' = pre_frame_state
      /\ vad_state_machine' = vad_state_machine
      /\ confirmed_start_frame' = confirmed_start_frame
      /\ latest_confirmed_speech_frame' = latest_confirmed_speech_frame
      /\ lastest_confirmed_silence_frame' = lastest_confirmed_silence_frame
      /\ continous_silence_frame_count' = continous_silence_frame_count
      /\ number_end_time_detected' = number_end_time_detected
      /\ max_end_sil' = max_end_sil /\ max_single_segment_time' = max_single_segment_time
      /\ buf' = buf /\ streams' = streams
  BY DEF detectVars, windowVars, optVars
<1>2. cur_frm_idx' = cur_frm_idx /\ LastOut' = LastOut
  BY <1>1 DEF cur_frm_idx, LastOut
<1>3. Frames' /\ Audio' /\ NoFault' /\ Output' /\ (buf \in Bufs)'
  <2>1. pc' # "frames" /\ todo = 0
    BY DEF IndInv, Frames
  <2> QED BY <1>1, <2>1 DEF IndInv, Frames, Audio, NoFault, Output
<1>4. Outside' /\ Inside' /\ Counted'
  BY <1>1, <1>2 DEF IndInv, Outside, Inside, Counted
<1>5. EndsInside'
  BY <1>1 DEF IndInv, EndsInside
<1>6. Scalars'
  <2>1. Scalars
    BY ScalarsOfType DEF IndInv
  <2> QED BY <1>1, <2>1 DEF Scalars
<1>7. TypeOK'
  BY <1>3, <1>4, <1>6, TypeOfScalars
<1> QED BY <1>3, <1>4, <1>5, <1>7 DEF IndInv

\* The entry that is told next.
LEMMA NextEntry ==
    ASSUME IndInv, Emits
    PROVE  /\ i = output_data_buf_offset + 1 /\ output_data_buf_offset \in Nat
           /\ Len(buf.out) \in Nat /\ i <= Len(buf.out) /\ i' = i + 1 /\ pc = "emit"
           /\ Entry.start_ms \in Nat /\ Entry.end_ms \in Nat /\ Entry.begun
           /\ Entry.ended \in BOOLEAN /\ next_seg \in BOOLEAN
           /\ Entry.start_ms < Entry.end_ms /\ Entry.end_ms <= Ms(frm_cnt)
           /\ ~Entry.ended => i = Len(buf.out) /\ ~LastOut.ended
           /\ last \in Nat /\ last <= Entry.start_ms
           /\ next_seg => Entry.start_ms >= Ms(frm_cnt - Latency - MaxBlock)
           /\ ~next_seg => open = Entry.start_ms
           /\ i' \in 1..MaxFrames + 1
<1> DEFINE n == Len(buf.out)
           off == output_data_buf_offset
<1>1. /\ off \in Nat /\ next_seg \in BOOLEAN /\ last \in Nat /\ i \in Nat
      /\ buf.out \in Seq(Entries) /\ n \in Nat /\ frm_cnt \in 0..MaxFrames
  <2>1. Scalars
    BY ScalarsOfType DEF IndInv
  <2> QED BY <2>1, Constants DEF Scalars, IndInv, Bufs
<1>2. pc = "emit" /\ i <= n /\ i' = i + 1
  BY DEF Emits
<1>3. i = off + 1
  BY <1>1, <1>2 DEF IndInv, Reader
<1>4. i \in 1..n /\ off < n
  BY <1>1, <1>2, <1>3
<1>5. Entry \in Entries /\ Entry = buf.out[i]
  BY <1>1, <1>4 DEF Entry
<1>6. Entry.start_ms \in Nat /\ Entry.end_ms \in Nat /\ Entry.ended \in BOOLEAN
  BY <1>5 DEF Entries
<1>7. \A k \in 1..n : InOutput(buf.out, k, frm_cnt)
  BY DEF IndInv, Output
<1>8. /\ Entry.begun /\ Entry.start_ms < Entry.end_ms /\ Entry.end_ms <= Ms(frm_cnt)
      /\ i < n => Entry.ended
  BY <1>4, <1>5, <1>7 DEF InOutput
<1>9. ~Entry.ended => i = n /\ ~LastOut.ended
  BY <1>4, <1>5, <1>8 DEF LastOut
<1>10. last <= Entry.start_ms
  <2>1. CASE off = 0
    <3>1. last = 0
      BY <2>1 DEF IndInv, Reader
    <3> QED BY <1>6, <3>1
  <2>2. CASE off # 0
    <3>1. last = buf.out[off].end_ms
      BY <2>2 DEF IndInv, Reader
    <3>2. off \in 1..n /\ off < n
      BY <1>1, <1>4, <2>2
    <3> QED BY <1>3, <1>5, <1>7, <3>1, <3>2 DEF InOutput
  <2> QED BY <2>1, <2>2
<1>11. /\ next_seg => Entry.start_ms >= Ms(frm_cnt - Latency - MaxBlock)
       /\ ~next_seg => open = Entry.start_ms
  <2>1. next_seg => i \in Told + 1..n
    BY <1>1, <1>3, <1>4 DEF Told
  <2>2. ~next_seg => i = Told
    BY <1>3 DEF Told
  <2> QED BY <1>5, <2>1, <2>2 DEF IndInv, Reader
<1>12. i + 1 \in 1..MaxFrames + 1
  <2>1. n <= cur_frm_idx
    BY DEF IndInv, Counted
  <2>2. todo = 0
    BY <1>2 DEF IndInv, Frames
  <2>3. cur_frm_idx = frm_cnt
    BY <1>1, <2>2 DEF cur_frm_idx
  <2> QED BY <1>1, <1>4, <2>1, <2>3, Constants
<1> QED BY <1>1, <1>2, <1>3, <1>6, <1>8, <1>9, <1>10, <1>11, <1>12

LEMMA EmitsKeeps ==
    ASSUME Emits
    PROVE  /\ UNCHANGED <<todo, is_final, frm_cnt, detectVars, number_end_time_detected,
                          optVars, buf, streams>>
           /\ pc' = pc
BY DEF Emits

LEMMA EmitSkipsInv == ASSUME IndInv, EmitSkips PROVE IndInv'
<1>1. /\ Emits /\ (~Entry.begun \/ (~next_seg /\ ~Entry.ended))
      /\ next_seg' = next_seg /\ output_data_buf_offset' = output_data_buf_offset
      /\ open' = open /\ last' = last
  BY DEF EmitSkips, emitVars
<1>2. /\ ~next_seg /\ ~LastOut.ended /\ i = Len(buf.out) /\ i' = i + 1
      /\ i = output_data_buf_offset + 1 /\ pc = "emit" /\ i' \in 1..MaxFrames + 1
  BY <1>1, NextEntry
<1>3. /\ buf' = buf /\ frm_cnt' = frm_cnt /\ pc' = pc
  BY <1>1, EmitsKeeps
<1>4. Told' = Told /\ Told = Len(buf.out) /\ LastOut' = LastOut
  BY <1>1, <1>2, <1>3 DEF Told, LastOut
<1>5. Reader'
  BY <1>1, <1>2, <1>3, <1>4 DEF IndInv, Reader
<1>6. /\ next_seg' \in BOOLEAN /\ output_data_buf_offset' \in Nat
      /\ open' \in Int /\ last' \in Nat
  <2>1. Scalars
    BY ScalarsOfType DEF IndInv
  <2> QED BY <1>1, <2>1 DEF Scalars
<1> QED BY <1>1, <1>2, <1>3, <1>5, <1>6, EmitsKeeps, TellingKeeps

LEMMA EmitOpensInv == ASSUME IndInv, EmitOpens PROVE IndInv'
<1>1. /\ Emits /\ ~Entry.ended /\ next_seg
      /\ open' = Entry.start_ms /\ next_seg' = FALSE
      /\ output_data_buf_offset' = output_data_buf_offset /\ last' = last
  BY DEF EmitOpens
<1>2. /\ ~LastOut.ended /\ i = Len(buf.out) /\ i' = i + 1 /\ Entry.start_ms \in Nat
      /\ i = output_data_buf_offset + 1 /\ pc = "emit" /\ i' \in 1..MaxFrames + 1
      /\ output_data_buf_offset \in Nat /\ last \in Nat /\ Len(buf.out) \in Nat
  BY <1>1, NextEntry
<1>3. /\ buf' = buf /\ frm_cnt' = frm_cnt /\ pc' = pc
  BY <1>1, EmitsKeeps
<1>4. Told' = Len(buf.out) /\ LastOut' = LastOut
  BY <1>1, <1>2, <1>3 DEF Told, LastOut
<1>5. open' # None /\ open' \in Int
  BY <1>1, <1>2 DEF None
<1>6. Len(buf.out) + 1..Len(buf.out) = {} /\ Len(buf.out) <= Len(buf.out)
  BY <1>2
<1>7. Reader'
  <2>1. open' = buf.out[Len(buf.out)].start_ms
    BY <1>1, <1>2 DEF Entry
  <2>2. /\ last = IF output_data_buf_offset = 0 THEN 0
                  ELSE buf.out[output_data_buf_offset].end_ms
        /\ output_data_buf_offset > 0 => buf.out[output_data_buf_offset].ended
    BY DEF IndInv, Reader
  <2> QED BY <1>1, <1>2, <1>3, <1>4, <1>5, <1>6, <2>1, <2>2 DEF Reader
<1> QED BY <1>1, <1>2, <1>3, <1>5, <1>7, EmitsKeeps, TellingKeeps

LEMMA EmitClosesInv == ASSUME IndInv, EmitCloses PROVE IndInv'
<1>1. /\ Emits /\ Entry.ended
      /\ open' = None /\ last' = Entry.end_ms /\ next_seg' = TRUE
      /\ output_data_buf_offset' = output_data_buf_offset + 1
  BY DEF EmitCloses
<1>2. /\ i <= Len(buf.out) /\ i' = i + 1 /\ Entry.end_ms \in Nat
      /\ i = output_data_buf_offset + 1 /\ pc = "emit" /\ i' \in 1..MaxFrames + 1
      /\ output_data_buf_offset \in Nat /\ Len(buf.out) \in Nat /\ next_seg \in BOOLEAN
  BY <1>1, NextEntry
<1>3. /\ buf' = buf /\ frm_cnt' = frm_cnt /\ pc' = pc
  BY <1>1, EmitsKeeps
<1>4. Told' = i /\ Told <= i /\ Told \in Nat
  BY <1>1, <1>2 DEF Told
<1>5. Reader'
  <2>1. \A k \in Told + 1..Len(buf.out) :
           buf.out[k].start_ms >= Ms(frm_cnt - Latency - MaxBlock)
    BY DEF IndInv, Reader
  <2>2. \A k \in i + 1..Len(buf.out) :
           buf.out[k].start_ms >= Ms(frm_cnt - Latency - MaxBlock)
    BY <1>2, <1>4, <2>1
  <2>3. output_data_buf_offset' = i /\ i # 0 /\ i' = output_data_buf_offset' + 1
    BY <1>1, <1>2
  <2>4. last' = buf.out[i].end_ms /\ buf.out[i].ended
    BY <1>1 DEF Entry
  <2> QED BY <1>1, <1>2, <1>3, <1>4, <2>2, <2>3, <2>4 DEF Reader
<1>6. next_seg' \in BOOLEAN /\ output_data_buf_offset' \in Nat /\ open' \in Int /\ last' \in Nat
  BY <1>1, <1>2 DEF None
<1> QED BY <1>1, <1>2, <1>3, <1>5, <1>6, EmitsKeeps, TellingKeeps

\* When a call returns, a reader knows of every segment.
LEMMA AllTold ==
    ASSUME IndInv, pc = "emit", i > Len(buf.out)
    PROVE  Told = Len(buf.out)
<1>1. /\ output_data_buf_offset \in Nat /\ next_seg \in BOOLEAN /\ Len(buf.out) \in Nat
  BY ScalarsOfType DEF Scalars, IndInv, Bufs
<1>2. CASE i = output_data_buf_offset + 1
  <2>1. Told <= Len(buf.out)
    BY DEF IndInv, Reader
  <2> QED BY <1>1, <1>2, <2>1 DEF Told
<1>3. CASE Told = Len(buf.out)
  BY <1>3
<1> QED BY <1>2, <1>3 DEF IndInv, Reader

LEMMA ReturnsInv == ASSUME IndInv, Returns PROVE IndInv'
<1>1. /\ pc = "emit" /\ i > Len(buf.out) /\ pc' = "idle"
      /\ UNCHANGED <<todo, is_final, frm_cnt, detectVars, number_end_time_detected,
                     optVars, buf, streams>>
      /\ i' = i /\ next_seg' = next_seg /\ output_data_buf_offset' = output_data_buf_offset
      /\ open' = open /\ last' = last
  BY DEF Returns, emitVars
<1>2. Told' = Told /\ Told = Len(buf.out) /\ buf' = buf /\ frm_cnt' = frm_cnt
  BY <1>1, AllTold DEF Told
<1>3. Reader'
  BY <1>1, <1>2 DEF IndInv, Reader
<1>4. /\ next_seg' \in BOOLEAN /\ output_data_buf_offset' \in Nat
      /\ open' \in Int /\ last' \in Nat /\ i' \in 1..MaxFrames + 1
  <2>1. Scalars
    BY ScalarsOfType DEF IndInv
  <2> QED BY <1>1, <2>1 DEF Scalars
<1> QED BY <1>1, <1>3, <1>4, TellingKeeps

LEMMA ReturnsFinalInv == ASSUME IndInv, ReturnsFinal PROVE IndInv'
<1>1. /\ pc = "emit" /\ pc' = "idle" /\ streams' = streams + 1
      /\ frm_cnt' = 0 /\ number_end_time_detected' = 0
      /\ buf' = AllResetDetection(buf)
      /\ next_seg' = TRUE /\ output_data_buf_offset' = 0 /\ open' = None /\ last' = 0
      /\ win_state' = Silence /\ pre_frame_state' = FALSE
      /\ vad_state_machine' = "before" /\ confirmed_start_frame' = None
      /\ latest_confirmed_speech_frame' = 0 /\ lastest_confirmed_silence_frame' = None
      /\ continous_silence_frame_count' = 0
      /\ todo' = todo /\ is_final' = is_final /\ i' = i
      /\ max_end_sil' = max_end_sil /\ max_single_segment_time' = max_single_segment_time
  BY DEF ReturnsFinal, ResetDetection, optVars
<1>2. Scalars /\ buf \in Bufs /\ todo = 0
  BY <1>1, ScalarsOfType DEF IndInv, Frames
<1>3. buf' = [buf EXCEPT !.start_frame = 0, !.out = <<>>]
  BY <1>1 DEF AllResetDetection
<1>4. /\ buf'.start_frame = 0 /\ buf'.out = <<>> /\ buf'.size = buf.size
      /\ buf'.all_size = buf.all_size /\ buf'.faults = buf.faults
  BY <1>2, <1>3 DEF Bufs
<1>5. buf' \in Bufs
  <2>1. <<>> \in Seq(Entries)
    OBVIOUS
  <2> QED BY <1>2, <1>3, <2>1 DEF Bufs
<1>6. cur_frm_idx' = 0 /\ Len(buf'.out) = 0
  <2>1. 0 - 0 = 0
    OBVIOUS
  <2> QED BY <1>1, <1>2, <1>4, <2>1 DEF cur_frm_idx
<1>7. Frames' /\ NoFault' /\ Audio'
  <2>1. 0 \in 0..MaxBlock
    BY Constants
  <2> QED BY <1>1, <1>2, <1>4, <2>1 DEF IndInv, Frames, NoFault, Audio
<1>8. Output' /\ Outside' /\ Inside' /\ EndsInside' /\ Counted'
  BY <1>1, <1>4, <1>6 DEF Output, Outside, Inside, EndsInside, Counted
<1>9. Reader'
  BY <1>1, <1>4, <1>6 DEF Reader, Told
<1>10. Scalars'
  <2>1. /\ Silence \in [1..Win -> BOOLEAN] /\ None \in None..MaxFrames /\ 0 \in 0..MaxFrames
        /\ None \in Int
    BY Constants DEF Silence, None
  <2>2. streams' \in Nat
    BY <1>1, <1>2 DEF Scalars
  <2>3. open' \in Int /\ last' \in Nat /\ output_data_buf_offset' \in Nat
    BY <1>1, <2>1
  <2>4. i' \in 1..MaxFrames + 1 /\ is_final' \in BOOLEAN /\ pc' \in {"idle", "frames", "emit"}
    BY <1>1, <1>2 DEF Scalars
  <2>5. /\ max_end_sil' \in EndSils \cup {0}
        /\ max_single_segment_time' \in MaxSegs \cup {0}
    BY <1>1, <1>2 DEF Scalars
  <2> QED BY <1>1, <2>1, <2>2, <2>3, <2>4, <2>5 DEF Scalars
<1>11. TypeOK'
  BY <1>5, <1>7, <1>8, <1>9, <1>10, TypeOfScalars
<1> QED BY <1>5, <1>7, <1>8, <1>9, <1>11 DEF IndInv

LEMMA StutterInv == ASSUME IndInv, UNCHANGED vars PROVE IndInv'
<1>1. /\ pc' = pc /\ todo' = todo /\ is_final' = is_final /\ i' = i /\ frm_cnt' = frm_cnt
      /\ win_state' = win_state /\ pre_frame_state' = pre_frame_state
      /\ vad_state_machine' = vad_state_machine
      /\ confirmed_start_frame' = confirmed_start_frame
      /\ latest_confirmed_speech_frame' = latest_confirmed_speech_frame
      /\ lastest_confirmed_silence_frame' = lastest_confirmed_silence_frame
      /\ continous_silence_frame_count' = continous_silence_frame_count
      /\ number_end_time_detected' = number_end_time_detected
      /\ max_end_sil' = max_end_sil /\ max_single_segment_time' = max_single_segment_time
      /\ buf' = buf /\ next_seg' = next_seg
      /\ output_data_buf_offset' = output_data_buf_offset
      /\ open' = open /\ last' = last /\ streams' = streams
  BY DEF vars, callVars, detectVars, windowVars, optVars, emitVars
<1>2. cur_frm_idx' = cur_frm_idx /\ LastOut' = LastOut /\ Told' = Told
  BY <1>1 DEF cur_frm_idx, LastOut, Told
<1>3. TypeOK' /\ NoFault' /\ (buf \in Bufs)'
  BY <1>1 DEF IndInv, TypeOK, NoFault
<1>4. Frames' /\ Audio' /\ Output' /\ EndsInside'
  BY <1>1 DEF IndInv, Frames, Audio, Output, EndsInside
<1>5. Outside' /\ Inside' /\ Counted'
  BY <1>1, <1>2 DEF IndInv, Outside, Inside, Counted
<1>6. Reader'
  BY <1>1, <1>2 DEF IndInv, Reader
<1> QED BY <1>3, <1>4, <1>5, <1>6 DEF IndInv

LEMMA NextInv == ASSUME IndInv, [Next]_vars PROVE IndInv'
<1>1. CASE Next
  BY <1>1, CallInv, FrameInv, EmitSkipsInv, EmitOpensInv, EmitClosesInv, ReturnsInv,
     ReturnsFinalInv DEF Next
<1> QED BY <1>1, StutterInv

\* The inductive invariant: data_buf and output_data_buf agree with the detector's
\* position in the stream, and a reader with output_data_buf.
THEOREM Invariance == Spec => []IndInv
<1>1. IndInv /\ [Next]_vars => IndInv'
  BY NextInv
<1> QED BY InitInv, <1>1, PTL DEF Spec

\* Type correctness; in particular the offset of the reader stays in output_data_buf.
THEOREM TypeCorrect == Spec => []TypeOK
<1>1. IndInv => TypeOK
  BY DEF IndInv
<1> QED BY Invariance, <1>1, PTL

\* The detector never complains about its own buffers (lines 483, 494, 504 and 511 of
\* e2e-vad.h), and the loop of PopDataBufTillFrame ends.
THEOREM NoFaultCorrect == Spec => []NoFault
<1>1. IndInv => NoFault
  BY DEF IndInv
<1> QED BY Invariance, <1>1, PTL

\* vad_max_len bounds every segment, but for one frame and for the speech found
\* when it began.
THEOREM Bounded == Spec => []SegmentsBounded
<1>1. ASSUME IndInv PROVE SegmentsBounded
  <2>1. buf.out \in Seq(Entries)
    BY <1>1 DEF IndInv, Bufs
  <2>2. DOMAIN buf.out = 1..Len(buf.out)
    BY <2>1
  <2> QED BY <1>1, <2>2 DEF IndInv, Output, InOutput, SegmentsBounded
<1>2. IndInv => SegmentsBounded
  BY <1>1
<1> QED BY Invariance, <1>2, PTL
-----------------------------------------------------------------------------
(* The end of a stream, and what a reader of the segments sees.              *)

\* What an end of stream leaves open is the segment the detector is in.
LEMMA LeftOpen ==
    ASSUME IndInv, ReturnsFinal, open # None
    PROVE  /\ Ms(confirmed_start_frame) = open
           /\ frm_cnt - confirmed_start_frame <= Latency + 1
<1>1. pc = "emit" /\ i > Len(buf.out) /\ is_final
  BY DEF ReturnsFinal
<1>2. Scalars /\ Len(buf.out) \in Nat
  BY ScalarsOfType DEF IndInv, Bufs
<1>3. ~next_seg /\ Told = Len(buf.out) /\ open = buf.out[Told].start_ms
  BY <1>1, AllTold DEF IndInv, Reader
<1>4. Len(buf.out) = output_data_buf_offset + 1 /\ output_data_buf_offset \in Nat
  BY <1>2, <1>3 DEF Told, Scalars
<1>5. i # output_data_buf_offset + 1 /\ buf.out # <<>>
  <2>1. i \in Int /\ Len(<<>>) = 0
    BY <1>2, Constants DEF Scalars
  <2> QED BY <1>1, <1>4, <2>1
<1>6. ~LastOut.ended
  BY <1>1, <1>5 DEF IndInv, Reader
<1>7. vad_state_machine = "in"
  BY <1>2, <1>5, <1>6 DEF IndInv, Outside, Scalars
<1>8. LastOut.start_ms = Ms(confirmed_start_frame)
  BY <1>7 DEF IndInv, Inside
<1> QED BY <1>1, <1>3, <1>7, <1>8 DEF IndInv, EndsInside, LastOut

LEMMA OnlyFinalRestarts ==
    ASSUME [Next]_vars, streams' # streams
    PROVE  ReturnsFinal
<1>1. CASE \E n \in 1..MaxBlock, final \in BOOLEAN, overlap \in Overlaps,
             end_sil \in EndSils, max_seg \in MaxSegs :
               Call(n, final, overlap, end_sil, max_seg)
  BY <1>1 DEF Call
<1>2. CASE \E speech \in BOOLEAN : DetectOneFrame(speech)
  BY <1>2 DEF DetectOneFrame, SegmentBegins, SegmentGrows, SegmentIsCut, SilenceEnds,
     SilenceGrows, StillSilent, NeverSpoke, NextFrame
<1>3. CASE EmitSkips \/ EmitOpens \/ EmitCloses \/ Returns
  BY <1>3 DEF EmitSkips, EmitOpens, EmitCloses, Emits, Returns
<1>4. CASE UNCHANGED vars
  BY <1>4 DEF vars
<1> QED BY <1>1, <1>2, <1>3, <1>4 DEF Next

\* The last call of a stream closes the segment that is open, but for one that began
\* no longer ago than a beginning is late.
THEOREM FinalClosesCorrect == Spec => FinalCloses
<1>1. IndInv /\ [Next]_vars =>
        [streams' # streams =>
          \/ open = None
          \/ /\ Ms(confirmed_start_frame) = open
             /\ frm_cnt - confirmed_start_frame <= LatencyFrmNumAtStartPoint + 1]_vars
  BY OnlyFinalRestarts, LeftOpen DEF Latency
<1> QED BY Invariance, <1>1, PTL DEF Spec, FinalCloses

\* Less than the latency and the frames of one call are behind the lag of the stream.
LEMMA LagOf ==
    ASSUME NEW n \in Nat
    PROVE  /\ Ms(n - Latency - MaxBlock) = Ms(n) - Ms(LatencyFrmNumAtStartPoint + MaxBlock)
           /\ Ms(n) \in Nat /\ Ms(LatencyFrmNumAtStartPoint + MaxBlock) \in Nat
<1>1. LatencyFrmNumAtStartPoint + MaxBlock \in Nat /\ n \in Int
  BY Constants DEF Latency
<1>2. n - Latency - MaxBlock = n - (LatencyFrmNumAtStartPoint + MaxBlock)
  BY <1>1, Constants DEF Latency
<1>3. Ms(n - (LatencyFrmNumAtStartPoint + MaxBlock))
        = Ms(n) - Ms(LatencyFrmNumAtStartPoint + MaxBlock)
  <2> DEFINE d == LatencyFrmNumAtStartPoint + MaxBlock
  <2>1. d \in Int
    BY <1>1
  <2> HIDE DEF d
  <2>2. Ms(n - d) = Ms(n) - Ms(d)
    BY <1>1, <2>1, MsSum
  <2> QED BY <2>2 DEF d
<1>4. Ms(n) \in Nat /\ Ms(LatencyFrmNumAtStartPoint + MaxBlock) \in Nat
  BY <1>1, MsNat
<1> QED BY <1>2, <1>3, <1>4

LEMMA NothingTold ==
    ASSUME Ms(frm_cnt)' = Ms(frm_cnt), open' = open, last' = last
    PROVE  UNCHANGED Segments!vars
BY DEF Segments!vars

LEMMA InitSegments == Init => Segments!Init
<1>1. Ms(0) = 0
  BY Constants DEF Ms
<1> QED BY <1>1 DEF Init, Segments!Init, None

LEMMA CallHears ==
    ASSUME IndInv, NEW n \in 1..MaxBlock, NEW final, NEW overlap, NEW end_sil, NEW max_seg,
           Call(n, final, overlap, end_sil, max_seg)
    PROVE  Segments!Hear
<1>1. frm_cnt \in Int /\ frm_cnt + n \in Int /\ frm_cnt < frm_cnt + n
  BY Constants, ScalarsOfType DEF IndInv, Scalars
<1>2. Ms(frm_cnt) < Ms(frm_cnt + n) /\ Ms(frm_cnt) \in Int /\ Ms(frm_cnt + n) \in Int
  BY <1>1, MsMonotone, MsType
<1>3. frm_cnt' = frm_cnt + n /\ open' = open /\ last' = last
  BY DEF Call, emitVars
<1>4. Ms(frm_cnt)' = Ms(frm_cnt + n)
  BY <1>3 DEF Ms
<1> QED BY <1>2, <1>3, <1>4 DEF Segments!Hear

LEMMA FrameTellsNothing ==
    ASSUME NEW speech \in BOOLEAN, DetectOneFrame(speech)
    PROVE  UNCHANGED Segments!vars
<1>1. frm_cnt' = frm_cnt /\ open' = open /\ last' = last
  BY DEF DetectOneFrame, SegmentBegins, SegmentGrows, SegmentIsCut, SilenceEnds,
     SilenceGrows, StillSilent, NeverSpoke, NextFrame, emitVars
<1> QED BY <1>1, NothingTold DEF Ms

LEMMA OpensBegins ==
    ASSUME IndInv, EmitOpens
    PROVE  \E t \in last..Ms(frm_cnt) : Segments!Begin(t)
<1> DEFINE s == Entry.start_ms
<1>1. /\ s \in Nat /\ Entry.end_ms \in Nat /\ last \in Nat
      /\ s < Entry.end_ms /\ Entry.end_ms <= Ms(frm_cnt) /\ last <= s
      /\ s >= Ms(frm_cnt - Latency - MaxBlock) /\ next_seg
      /\ open' = s /\ last' = last /\ frm_cnt' = frm_cnt
  BY NextEntry, EmitsKeeps DEF EmitOpens
<1>2. frm_cnt \in Nat
  BY ScalarsOfType, Constants DEF IndInv, Scalars
<1>3. /\ Ms(frm_cnt - Latency - MaxBlock)
           = Ms(frm_cnt) - Ms(LatencyFrmNumAtStartPoint + MaxBlock)
      /\ Ms(frm_cnt) \in Nat /\ Ms(LatencyFrmNumAtStartPoint + MaxBlock) \in Nat
  BY <1>2, LagOf
<1>4. open = -1
  BY <1>1 DEF IndInv, Reader, None
<1> HIDE DEF s
<1>5. /\ s \in last..Ms(frm_cnt) /\ s \in last..Ms(frm_cnt) - 1
      /\ s >= Ms(frm_cnt) - Ms(LatencyFrmNumAtStartPoint + MaxBlock)
  BY <1>1, <1>3
<1>6. Ms(frm_cnt)' = Ms(frm_cnt)
  BY <1>1 DEF Ms
<1> QED BY <1>1, <1>4, <1>5, <1>6 DEF Segments!Begin

LEMMA ClosesEnds ==
    ASSUME IndInv, EmitCloses
    PROVE  \E t \in last..Ms(frm_cnt) :
              Segments!End(t) \/ \E s \in last..Ms(frm_cnt) : Segments!Whole(s, t)
<1> DEFINE s == Entry.start_ms
           e == Entry.end_ms
<1>1. /\ s \in Nat /\ e \in Nat /\ last \in Nat /\ next_seg \in BOOLEAN
      /\ s < e /\ e <= Ms(frm_cnt) /\ last <= s
      /\ next_seg => s >= Ms(frm_cnt - Latency - MaxBlock)
      /\ ~next_seg => open = s
      /\ open' = None /\ last' = e /\ frm_cnt' = frm_cnt
  BY NextEntry, EmitsKeeps DEF EmitCloses
<1>2. frm_cnt \in Nat
  BY ScalarsOfType, Constants DEF IndInv, Scalars
<1>3. /\ Ms(frm_cnt - Latency - MaxBlock)
           = Ms(frm_cnt) - Ms(LatencyFrmNumAtStartPoint + MaxBlock)
      /\ Ms(frm_cnt) \in Nat /\ Ms(LatencyFrmNumAtStartPoint + MaxBlock) \in Nat
  BY <1>2, LagOf
<1>4. Ms(frm_cnt)' = Ms(frm_cnt)
  BY <1>1 DEF Ms
<1> HIDE DEF s, e
<1>5. /\ s \in last..Ms(frm_cnt) /\ e \in last..Ms(frm_cnt)
      /\ s \in last..Ms(frm_cnt) - 1 /\ e \in s + 1..Ms(frm_cnt)
  BY <1>1, <1>3
<1>6. CASE next_seg
  <2>1. open = -1 /\ open' = open
    BY <1>1, <1>6 DEF IndInv, Reader, None
  <2>2. s >= Ms(frm_cnt) - Ms(LatencyFrmNumAtStartPoint + MaxBlock)
    BY <1>1, <1>3, <1>6
  <2>3. Segments!Whole(s, e)
    BY <1>1, <1>4, <1>5, <2>1, <2>2 DEF Segments!Whole
  <2> QED BY <1>5, <2>3
<1>7. CASE ~next_seg
  <2>1. open = s /\ open # -1 /\ open' = -1
    BY <1>1, <1>7 DEF IndInv, Reader, None
  <2>2. Segments!End(e)
    BY <1>1, <1>4, <1>5, <2>1 DEF Segments!End
  <2> QED BY <1>5, <2>2
<1> QED BY <1>1, <1>6, <1>7

LEMMA FinalRestarts ==
    ASSUME IndInv, ReturnsFinal
    PROVE  Segments!Restart
<1>1. frm_cnt' = 0 /\ open' = -1 /\ last' = 0
  BY DEF ReturnsFinal, None
<1>2. Ms(frm_cnt)' = 0
  BY <1>1, Constants DEF Ms
<1>3. open = -1 \/ Ms(frm_cnt) - open <= Ms(LatencyFrmNumAtStartPoint + MaxBlock)
  <2> SUFFICES ASSUME open # None
               PROVE  Ms(frm_cnt) - open <= Ms(LatencyFrmNumAtStartPoint + MaxBlock)
    BY DEF None
  <2> DEFINE c == confirmed_start_frame
  <2>1. Ms(c) = open /\ frm_cnt - c <= Latency + 1
    BY LeftOpen
  <2>2. c \in Int /\ frm_cnt \in Int /\ frm_cnt - c \in Int
    <3>1. Scalars /\ None \in Int
      BY ScalarsOfType DEF IndInv, None
    <3> QED BY <3>1, Constants DEF Scalars
  <2> HIDE DEF c
  <2>3. LatencyFrmNumAtStartPoint + MaxBlock \in Int
        /\ frm_cnt - c <= LatencyFrmNumAtStartPoint + MaxBlock
    BY <2>1, <2>2, Constants DEF Latency
  <2>4. Ms(frm_cnt - c) = Ms(frm_cnt) - Ms(c)
    BY <2>2, MsSum
  <2> QED BY <2>1, <2>2, <2>3, <2>4, MsMonotone
<1> QED BY <1>1, <1>2, <1>3 DEF Segments!Restart

LEMMA NextSegments ==
    ASSUME IndInv, [Next]_vars
    PROVE  [Segments!Next]_(Segments!vars)
<1>1. ASSUME NEW n \in 1..MaxBlock, NEW final \in BOOLEAN, NEW overlap \in Overlaps,
             NEW end_sil \in EndSils, NEW max_seg \in MaxSegs,
             Call(n, final, overlap, end_sil, max_seg)
      PROVE  [Segments!Next]_(Segments!vars)
  BY <1>1, CallHears DEF Segments!Next
<1>2. ASSUME NEW speech \in BOOLEAN, DetectOneFrame(speech)
      PROVE  [Segments!Next]_(Segments!vars)
  BY <1>2, FrameTellsNothing
<1>3. CASE EmitOpens
  BY <1>3, OpensBegins DEF Segments!Next
<1>4. CASE EmitCloses
  BY <1>4, ClosesEnds DEF Segments!Next
<1>5. CASE ReturnsFinal
  BY <1>5, FinalRestarts DEF Segments!Next
<1>6. CASE EmitSkips \/ Returns \/ UNCHANGED vars
  <2>1. frm_cnt' = frm_cnt /\ open' = open /\ last' = last
    BY <1>6 DEF EmitSkips, Emits, Returns, vars, emitVars
  <2> QED BY <2>1, NothingTold DEF Ms
<1> QED BY <1>1, <1>2, <1>3, <1>4, <1>5, <1>6 DEF Next

\* The segments operator() returns make a SegmentStream: their beginnings and ends
\* alternate, move forward, lie in the audio analysed and are told in time.
THEOREM Refinement == Spec => SegmentsInOrder
<1>1. Init => Segments!Init
  BY InitSegments
<1>2. IndInv /\ [Next]_vars => [Segments!Next]_(Segments!vars)
  BY NextSegments
<1> QED BY <1>1, <1>2, Invariance, PTL DEF Spec, SegmentsInOrder, Segments!Spec
=============================================================================
