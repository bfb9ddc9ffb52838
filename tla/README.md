# Formal models of ASR-2Pass

TLA+ models of the parts of ASR-2Pass where ordering, sharing and bookkeeping
decide whether it works: the two websocket servers, the two-pass splitting of
audio between VAD and recognisers, the VAD's endpoint detector, the streaming
front ends and chunk caches, the cutting and batching of the offline path,
the caches of punctuation, and the beam search with hotwords. Line numbers refer to the files under `src/`.
`PROJECT.json` maps every definition to the lines it models.

- Model-check: `tlc -config MCTpassServer_one.cfg MCTpassServer` (and so on, see
  "Runs").
- Prove: `tlapm TpassServer_proofs.tla`, and likewise the other modules whose
  names end in `_proofs`.

## 1. Inventory of the system

A client opens a websocket, sends a JSON text message with its configuration,
binary messages with PCM audio, and a JSON message with `is_speaking: false` at
the end of an utterance. It gets partial results of a streaming recogniser
("online", first pass) and, at the end of each segment found by the VAD,
a result of the offline recogniser ("2pass-offline", second pass).

| Component | State it keeps | Operations | What must hold |
|---|---|---|---|
| Two-pass server (`websocket-server-2pass.*`) | `data_map` of `FUNASR_MESSAGE` (samples, access_num, is_eof, handles, strand), `m_lock`, one `thread_lock` per connection | `on_open`, `on_message`, `on_close`, `do_decoder`, `check_and_clean_connection`, `remove_hdl` | no job uses a freed handle; jobs counted exactly; audio fed once and in order; final replies exactly once; closed connections are cleaned up; no lock held for good |
| Main of the two-pass server (`funasr-wss-server-2pass.cpp`) | the thread pools | starts IO, decoder and cleaner threads | threads serve the strands |
| Offline server (`websocket-server.*`) | as above, one decoder per connection, no strand | `on_message`, `do_decoder`, clean-up | as above; its jobs of one connection are not serialised |
| `FunTpassInferBuffer` (`funasrruntime.cpp` 490-646) | `tpass_stream`, `tpass_online_stream` per call | load PCM, split, drain both frame queues, punctuate, reset at the end | every segment is decoded once, results concatenated in order |
| `Audio::Split`, two-pass (`audio.cpp` 1257-1425) | all_samples and its offset, speech_start, speech_end, speech_offline_start, two queues | take a block, ask the VAD, cut online and offline frames | frames cover each segment; positions stay inside the buffer |
| VAD endpoint detector (`e2e-vad.h`) | window, segment state, data_buf counts, output_data_buf, next_seg | one call per block, one step per frame | segments alternate, advance, are bounded, closed at the end |
| VAD front end (`fsmn-vad-online.cpp`) | input_cache_, reserve_waveforms_, lfr_splice_cache_ | frames, splicing, network call | one score per frame; waveform at least as long as its frames |
| Streaming recogniser (`paraformer-online.cpp`) | chunk, feature and CIF caches | `Forward` per chunk | caches reset at the end of each sentence |
| Offline cutting and batching (`audio.cpp` CutSplit, FetchDynamic) | frame queue, index_vector | cut by VAD, sort, batch, reassemble | every piece decoded once, put back in order |
| Punctuation (`ct-transformer*.cpp`) | the words and marks of a text, the rest between batches, the cache between texts | `AddPunc` per text | each word told once, no mark told twice |
| Hotwords and beam search (`context_graph.cpp`, `ctc-prefix-decoder.cpp`) | context_graph_, cur_hyps_ with their PrefixScore, abs_time_step_ | load and unload hotwords, search frame by frame, finalise | scores are sums over alignments; a hotword's score is given once and taken back when it breaks off; a time for every token |
| Offline recognisers, ITN, WFST | tensors, dictionaries | pure computation for each call | numeric or textual |
| Clients (`funasr-wss-client-2pass.cpp`, Python, Java, ...) | what was sent, whether the final reply came | send, wait for `is_final` | the wait ends |

**Interactions.** IO threads run `on_open`, `on_message`, `on_close`.
`on_message` posts `do_decoder` to the connection's strand, with references
into the connection's `FUNASR_MESSAGE`; decoder threads run the strand and call
`FunTpassInferBuffer`, which drives `Audio::Split`, the VAD and both recognisers.
The cleaner thread wakes every five seconds, walks `data_map`, and calls
`remove_hdl` for sessions that are over. `access_num` and `is_eof` are the only
protection of an entry against the cleaner while jobs refer to it.

**Hard behaviours.** The races of handler, decoder and cleaner over an entry;
the lock order `m_lock` before `thread_lock`; the post of a job before it is
counted; a job's seven ways out; flags read without a lock; the cut of samples
at setpsize; a final job whose audio is empty; segments that span calls;
integer frame arithmetic at a segment's end; state that survives into the next
utterance because a reset misses it. `PROJECT.json` lists each with its line
under "hazards", with the properties that cover it or the reason none does yet.

## 2. Modules

| Module | Role |
|---|---|
| `TpassServer` | the two-pass server: handlers, decoder threads, cleaner |
| `OfflineServer` | the offline server: the same without strands, and the VAD handle all jobs share |
| `SessionLease` | abstract: the lifetime of an entry and of the jobs that refer to it; both servers implement it |
| `TpassSplit` | `Audio::Split` of the two-pass mode and `FunTpassInferBuffer` around it |
| `TwoPass` | abstract: what the two recognisers hear of each segment; `TpassSplit` implements it |
| `VadEndpoint` | the online VAD endpoint detector |
| `SegmentStream` | abstract: what a reader may rely on in the VAD's segments; `VadEndpoint` implements it, `TpassSplit` and `OfflineCut` are driven by it |
| `OnlineFeats` | the front end both streaming models share, the VAD's calls, the chunks of the streaming recogniser |
| `OfflineCut` | `CutSplit`, `FetchDynamic` and the reassembly of texts in `FunOfflineInferBuffer` |
| `Punctuation` | `AddPunc` of both punctuation models over the texts of a connection |
| `ContextGraph` | the graph of hotwords, as operators |
| `CtcPrefixDecoder` | the CTC prefix beam search, driven by `ContextGraph` |
| `TpassServer_proofs` | safety of the two-pass server; it implements `SessionLease`; its audio is neither skipped nor repeated, nor are its final replies |
| `OfflineServer_proofs` | entries and replies of the offline server |
| `TpassSplit_proofs` | positions and bounds of `TpassSplit`; it implements `TwoPass`; the delay and the text of the first pass |
| `VadEndpoint_proofs` | the detector's accounting, its segments; it implements `SegmentStream` |
| `OfflineCut_proofs` | the offline path hears all of the audio and puts the texts in order |
| `OnlineFeats_proofs` | slicing into calls changes neither features nor chunks |
| `Punctuation_proofs` | batches and the cache neither lose a word nor repeat one; marks are placed once |
| `CtcPrefixDecoder_proofs` | pruning is all the beam search loses; the times of tokens; what hotwords take back |
| `MCTpassServer`, `MCOfflineServer`, `MCTpassSplit`, `MCVadEndpoint`, `MCOnlineFeats`, `MCOfflineCut`, `MCPunctuation`, `MCCtcPrefixDecoder` | instances for TLC |

The modules meet at abstract specifications. `OnlineFeats` shows that the
detector gets enough audio with its frames, which `VadEndpoint` assumes (there is one exception, after a
call on which the VAD's network failed: section 5);
`VadEndpoint` shows that its segments are those of `SegmentStream`, which drives
`TpassSplit` and `OfflineCut`; `TpassServer` shows that `FunTpassInferBuffer` is
called with each block once and in order, one call at a time, which `TpassSplit` assumes.

A definition that opens with the comment "Variant" is not part of a model: it is
a plausible slip of the code in the place of the definition below it, kept to
show which property notices it (PROJECT.json, "mutants").

### 2.1 TpassServer

State: `data_map`, `m_lock`, and for each connection what `FUNASR_MESSAGE`
holds: `thread_lock`, `is_eof`, `access_num`, `hotwords_embedding` (loaded or
not), `tpass_online_handle` and `decoder_handle` ("null", "live", "freed"),
`samples` (an amount) and `strand` (the queue of posted jobs). `io[c]` is the
point the connection's handler has reached, `dpc/dconn/djob` where each decoder
thread is, `cpc/iter/to_remove/hdl` where the cleaner is. `rcvd`, `fed`, `lost`,
`ends` and `replies` are history: positions in the connection's audio and counts
of final jobs and final replies.

One action is the code between two points at which another thread can see or
change what it uses, so the interleavings of the model are those of the locks:

- `OnOpen`, `OnOpenFails` (cpp:244-276): atomic, under `m_lock`. `OnOpen` may put
  the entry before or behind the cleaner's iterator.
- `OnMessageFinds/Ignored` are the lookup under `m_lock`; the following actions
  take `thread_lock` after it was free for anyone to take: `ParseFails`;
  `TextBegins`, `HotwordsLoaded`, then `TextConfigures` or `TextEndsSpeech`;
  `BinaryKept` or `BinaryPosted`. A post and the increment of `access_num` are
  two steps (`Counted`), since a decoder thread may start the job in between.
- `OnCloseFinds/Missing/Marks`: `on_close` waits for `thread_lock` holding `m_lock`.
- `JobStarts` (asio's strand: in order and one at a time), `JobFindsHandle`,
  `JobFindsNoHandle`, the loop `InferStarts/InferReturns/LoopEnds`, the final call
  `FinalStarts/FinalReturns`, `InferThrows`, and `JobFinishes`, where every way
  out takes `thread_lock` and decrements `access_num`.
- `SweepStarts`, `SweepVisits`, `SweepFindsGone`, `SweepEnds` walk the map without
  `m_lock`, as the code does. `RemoveLocks`, `RemoveRefuses`, `RemoveFrees`,
  `RemoveErases` are `remove_hdl`. The two pointers are freed before they are
  cleared and the entry erased, hence two steps.

Data is abstracted. Audio is an amount and a pair of positions, not bytes. A
text message is the guards it decides (parses or not, chunk_size absent, valid or
wrong, an end of speech or not). A recogniser call returns or throws.

### 2.2 SessionLease

An entry is absent, serving, draining, then over. Jobs take leases while it
serves, never later; it is freed when the last lease is returned. `TpassServer!Lease`
maps `is_eof` and membership of `data_map` to the phase and the jobs in the
strand or in a thread to leases. `access_num` does not occur in the mapping: that the
code counts correctly is what the refinement shows.

### 2.3 VadEndpoint and SegmentStream

`E2EVadModel::operator()` in its online, multi-utterance mode (the only one
`FsmnVadOnline::Infer` uses). A call is `Call` (options, ComputeDecibel,
ComputeScores), one action for each frame (`SegmentBegins`, `SegmentGrows`,
`SegmentIsCut`, `SilenceEnds`, `SilenceGrows`, `StillSilent`, `NeverSpoke`: the
branches of `DetectOneFrame` 670-781), one for each entry of output_data_buf
(`EmitSkips`, `EmitOpens`, `EmitCloses`: 321-354) and `Returns` or
`ReturnsFinal` (AllResetDetection).

- `buf` holds data_buf_start_frame, data_buf_size, data_buf_all_size and
  output_data_buf. In `buf.faults` the model records what the code prints when
  its accounting fails ("error in calling pop data_buf", "warning", "VAD
  data_to_pop is bigger ...", "Something wrong with the VAD algorithm") and the
  case in which the loop of `PopDataBufTillFrame` would not end.
- `AllResetDetection` declares local variables named data_buf_size and
  data_buf_all_size (419-420): the members survive, and so they do in the model.
- The state kVadInStateEndPointDetected exists only within a frame, since
  multi-utterance mode resets at once (777-780); confirmed_end_frame likewise.
- GetFrameState is abstracted to "speech" or "silence", chosen freely for each frame.
  decibel_thres is -100 and a decibel at least -60 by 452, so its early
  branch (595-599), which would step the detector twice, is unreachable.
- `open` and `last` are what a reader has been told. `Audio::ResetIndex`
  resets the reader at the same final call (funasrruntime.cpp:641-643).

`SegmentStream` says that beginnings and ends alternate, never go back and lie in
the audio heard, and that a beginning is told at most `Lag` after it was (the
window and the lookback of the detector and a block: 450 ms in the server). Under
it, the branch of `Audio::Split` that logs "Vad start is null while vad end is
available" (audio.cpp:1354) cannot be reached as long as detector and reader are
reset together; `TpassSplit_proofs` shows that, and `VadEndpoint_proofs` that the detector keeps the
promise.

### 2.4 TpassSplit and TwoPass

One call of `FunTpassInferBuffer` is `Load` (LoadPcmwavOnline and the VAD's answer
to the block), then either `NoSegment` or one of `SegmentBegins`, `SegmentEnds`,
`SegmentWhole` for each segment the VAD tells (the branches of audio.cpp:1289-1405),
`Trim` (1407-1423), `ForwardOnline` for each chunk in asr_online_queue,
`ForwardOffline` for each piece in asr_offline_queue, and `Returns` or
`ReturnsFinal` (ResetIndex). The order is that of the code; the call is not
concurrent with another one on the same objects, as the strand guarantees.

- Positions are samples of the stream; `all_samples` is the range from `offset` to
  `size`. A frame is the range it was copied from, so "the right audio" is a
  statement about numbers. The VAD is `SegmentStream`, not `VadEndpoint`: what
  holds here holds for every detector that keeps that promise.
- `TwoPass` is what the service promises: each segment is heard once by
  the streaming recogniser, in adjoining pieces of which the last alone is final, and
  once, as a whole, by the second pass. `Closes` and `Hears` allow for the
  one thing the code cannot repair: an end that is put back behind audio
  the streaming recogniser already has. `kept` says that a client which switches to
  OFFLINE in the middle of an utterance leaves the recogniser without its last piece.

### 2.5 OfflineServer

The state of `TpassServer` with these differences: `data_msg[c]` is the
`FUNASR_MESSAGE` as a record, `io_decoder` is one queue for all connections (no
strand), and `vad_opts` are the options of the one `vad_handle` all jobs use.
A job is entry, `SetsConfig` (funasrruntime.cpp:219), loading, `CutSplit` (which reads
the options, audio.cpp:1174), decoding and reply, and `JobFinishes`; between any two
of these other jobs run, of the same connection too.

### 2.6 OnlineFeats

`FbankKaldi`, `ExtractFeats` and `OnlineLfrCmvn` exist twice, word for word, in
fsmn-vad-online.cpp and paraformer-online.cpp; the model has them once, with the
constants of either model chosen by `reader`. A frame is the number of its first
sample, so that "the same features as offline" can be said: `OfflineLfr` is
the reference. `At` and `Row` turn a number of frames and of LFR frames into samples and
frames; `Joined`, `LfrCount` and `Ready` are the parts of `ExtractFeats` and `OnlineLfrCmvn` about
which the proofs have lemmas. Behind them come `Infer` (the VAD: scores, and how much audio goes to the
detector with them), with its two outcomes: if the network's Run fails (`ran` is FALSE), there are no scores
(fsmn-vad.cpp:106-113), and the detector is neither given the audio nor told of an end (fsmn-vad-online.cpp:144-146).
Its stream then goes on into the next utterance, and so does `surplus`, which counts its audio (`Heard`);
`missed` and `failed` record a failure on the first call of an utterance and on the last run. The recogniser is `ForwardPiece`, `ForwardLast`, `ForwardShort`,
`ForwardNothing` (its chunks, look-back and look-ahead, when each cache is
used and reset, including the early returns, paraformer-online.cpp:525-601).

### 2.7 OfflineCut

`Infer` is one step of the loop of `CutSplit` with the VAD's next second,
`TellsBegin/End/Whole` its answers, `PairNext` one entry of the loop that pairs beginnings and
ends (`Pair`), `Sort` is `std::sort` by length, which may leave equal lengths in either order
(`Sorted` is the set of all allowed orders). `Fetch` is `FetchDynamic` with the
recogniser and `Finish` the end. The text of a piece is the range it was made from.

### 2.8 Punctuation

`AddPunc` begins a text, `Batch` is one turn of the loop (the marks are chosen
freely: the network is external), `Returns` and `ReturnsOffline` assemble the text. The
state is what lives from batch to batch (`remain`) and from text to text
(`arr_cache`). A word is its number in everything the connection says.

The end of an utterance is not an event of a text. A final call of `FunTpassInferBuffer` makes any number of texts,
often none, since silence has closed the last segment in an earlier call; each of them gets a period (funasrruntime.cpp:609-613).
Behind the call do_decoder clears the cache, whether there was a text or not (`FinalReturns`,
websocket-server-2pass.cpp:200-204), unless the call threw (`CallThrows`, 194-199). `cleared` records the words
told by then, `shut` that the text before, of the same final call, already ends in a mark.

### 2.9 ContextGraph and CtcPrefixDecoder

`StartUtterance`, `LoadHwsRes` and `UnloadHwsRes` are the functions of these names,
`CtcSearchFrame` is one turn of the loop of `CtcSearch` (cpp:143-258: `TopK`, token
passing, `Beams`), `CtcFinalizeDecode` its end (`UpdateFinalContext`, `UpdateResult`).

- Scores are probabilities where the code has logarithms: LogAdd is +, -kFloatMax is 0, a
  hotword score of n multiplies by 2^n (`TwoTo`). The order is the same and the arithmetic exact.
- Tokens and hypotheses are visited in the order of a hash table. What a hypothesis
  of the next frame gets depends on it only in whether it is first written by itself
  or by the one it extends: `ahead` chooses, for each. nth_element may keep any of equals: `Beams`.
- BuildContextGraph determinises the graph with openfst. `ContextGraph` does the same one
  state at a time: a state is a set of `<<n, r>>`, the places within hotwords and the score
  that is still owed there. A nullptr is the empty graph: both do nothing.
- `Exact` compares the scores with a definition that knows nothing of hypotheses: the sum and the
  maximum over all alignments of one token a frame. `survivors`, a history, says which of them the
  beams have cut. `Bonus`, the reference of the hotword scores, reads the finished text as a row of hotwords, from left
  to right as far as they go; where the row can end within a hotword it does, and that one is paid back, with a
  shorter one it begins with. Of several readings the least counts.
- `Usable` says what becomes of a list: a hotword that is too long is left out, and those behind it get the scores of
  the ones before them (context_graph.cpp:56-61).
- The `<context>` tags of `outputs_` are left out (nothing reads them), and so is the
  spelling of hotwords: a hotword has tokens, a length, and may be unknown to the vocabulary.

## 3. Runs

| Run | Instance | Checks |
|---|---|---|
| `one` | 1 connection, 2 decoder threads, 5 messages, Setp 2, sizes {2,3}, all chunk_size cases; about 0.9 million states | `TypeOK`, `AccessCounts`, `NoJobWhileLoading`, `NothingSkipped`, `RepliesOwed`, `FedInOrder` |
| `two` | 2 connections, 1 decoder thread, 2 messages each; about 1.6 million states | `JobsKeepEntry`, `RemovedWhenUnused`, `LeaseSafety` |
| `live` | 1 connection, 2 threads, 3 messages, fairness; about 28,000 states | `ClosedIsRemoved`, `EndIsAnswered`, `HandlersEnd` |
| `sweep` | 2 connections | `SweepUndisturbed`, violated (section 7) |
| `offline` | 1 connection, 2 threads, 4 messages, fairness; 21,584 states | `RepliesOwed`, `ClosedIsRemoved`, `LeaseSafety` |
| `shared` | 2 connections, 2 threads, 2 options | `OptionsOwn`, violated (section 7) |
| `vad` | Win 3, thresholds 2, two streams of up to 9 frames; about 1.2 million states | `TypeOK`, `SegmentsBounded`, `NoFault`, `FinalCloses`, `SegmentsInOrder` |
| `split` | SegSample 2, chunk 6, cache 4, Lag 2, Delay 2, two streams of up to 11 samples; about 2.3 million states | `InBounds`, `StartsAgree`, `KeepsUp`, `OnlineTextWhole`, `BothPassesHear` |
| `online` | the code's sizes in units of 80 samples, two utterances, the network failing at any call; 80,544 states | `TypeOK`, `LfrAsOffline`, `WavesEnough`, `BodiesTile`, `UtteranceFresh` |
| `cut` | a second of 6 samples, lengths {1,5,11,12,13}; 66,000 states | `TypeOK`, `VadHearsAll`, `TextInOrder` |
| `punc` | batches of 2, limit 3, texts of up to 4 words, 7 in all, in calls that return or throw; about 1.6 million states | `TypeOK`, `WordsOnce`, `MarksPlaced` |
| `ctc` | blank and 2 tokens, both beams 2, 4 frames, 2 kinds of frame, 9 lists of hotwords; 12,635 states | `TypeOK`, `Exact`, `ContextScore`, `TimesMatch` |

What they show, in words:

- **AccessCounts, JobsKeepEntry, RemovedWhenUnused, LeaseSafety**: access_num is
  the number of queued and running jobs (up to the one a handler is about to count),
  so the cleaner never frees a handle that a job refers to. The offline server
  keeps the same promise without a strand.
- **NothingSkipped**: what was fed, the running job, the queued jobs and samples
  partition the received audio, as long as the connection serves and nothing was
  given up. **FedInOrder** holds even then. **RepliesOwed**: each end of speech has
  exactly one reply sent or pending.
- **NoJobWhileLoading**: decoder_handle, on which the hotwords are loaded without
  a lock the decoder takes, has no job then.
- **ClosedIsRemoved, EndIsAnswered, HandlersEnd**: nothing stays for good: entries
  of closed connections, unanswered ends, or a handler waiting for a lock. That two
  connections cannot block each other for good is TLC's deadlock check of `two`.
- **NoFault**: the detector's own complaints are never printed.
  **SegmentsInOrder**: refinement of `SegmentStream`. **SegmentsBounded**: the
  cut comes on time, except for what a segment takes back when it begins, which
  max_single_segment_time does not limit. **FinalCloses**: after a final call
  an open segment can only be one that began within the last latency.
- **InBounds**: every memcpy of `Split` reads samples that are still kept.
  **StartsAgree**: its two starts are set exactly while a segment is open. **KeepsUp**:
  the first pass is never a chunk behind. **OnlineTextWhole**: the text at the end
  of an utterance is made of that utterance alone. **BothPassesHear**: refinement of `TwoPass`.
- **LfrAsOffline, WavesEnough, BodiesTile, UtteranceFresh**: slicing the audio into
  calls changes no feature; the detector does not get less audio than its frames cover, but for the last call of an
  utterance on whose first call the network failed; each
  LFR frame is recognised in the body of exactly one chunk; nothing survives into the next utterance, but for the
  detector's stream if the network failed when it last ran.
- **VadHearsAll, TextInOrder**: the end of the audio is told to the VAD
  once, whatever the length modulo a second; sorting and batching do not permute the
  text.
- **WordsOnce, MarksPlaced**: no word is lost or told twice over batches and texts, and none of a finished utterance
  is cached. A text of the second pass ends in a period exactly if the final call makes it. The mark withheld at
  the end of any text is told with the next one, once, unless a final call has returned in between: then it is lost.
- **Exact**: pruning is all that the search loses: no alignment is counted twice or for another text, in
  whatever order the hash table is visited, and nothing of the last piece of audio is left.
  **ContextScore**: a finished text has the scores of the hotwords it is read as, whatever
  the list, and nothing of those it only begins. The score of a hotword is the one at its place among those that are not too long, and
  one that begins another is paid back with it where the text ends or goes on otherwise (section 7). **TimesMatch**: one time for every token, in order; the
  assertions of the file hold.

### Bounds and why they suffice

- `Setp = 2` and sizes {2,3}: exactly one setp waits (the code requires strictly
  more), one and a half leaves a rest, two setps make a job with two recogniser calls.
  Five messages allow a configuration, three of audio and an end of speech, and
  end of speech twice.
- One connection suffices for the properties of `one`: connections share only
  `m_lock`, the decoder threads and the cleaner. Two are in `two`, where those matter;
  the theorems hold for any number.
- The decoder threads are two in `one` so that the strand matters
  (with jobs posted directly to the io context, `FedInOrder` fails).
- `MaxMsgs` is a guard of the client only; the server may be mid-way anywhere
  when it strikes. TLC checks deadlock in all of the servers' runs: the cleaner's
  sweep always remains possible.
- `vad`: with Win 3 and Lookback 1 the latency is 4 frames, and 9 frames allow two
  segments in a stream, a cut by length, an end by silence and the lookback. Two
  values each of the silence and of the length are chosen anew with each call; they
  include a silence shorter than the lookahead. `Overlaps` is {0}: by `WavesEnough`
  the audio that reaches the detector is not less than its frames cover (section 5 has the exception), and more
  only adds to data_buf. Two streams show what survives a reset. The ratio of the
  constants is that of the code (Win 20, thresholds 15 of 20 both ways, lookback 20,
  lookahead 10 frames of 10 ms): both thresholds are equal, the window is longer
  than they are.
- `split`: a ms of two samples makes a block of 3 leave an odd one, as the last
  block of a client may; a chunk is longer than `Lag + Delay`, as in the code (600 ms against 450 ms and
  what the VAD holds back); the cache is exactly `Lag + Delay`, its smallest allowed value; 11 samples
  allow a segment of a chunk and a half between two others. The modes change at any call.
- `online`: no scaling but the unit: 80 samples divide every size of the code at
  16 kHz. Last pieces cover every remainder of a frame and of an LFR frame, none at all, and those
  for which the last chunk is split in two. Each run of the VAD's network succeeds or fails.
- `cut`: a second of 6 samples, 3 ms; lengths around a multiple of a second, and
  one sample; MaxSent and MaxAcc such that a piece goes alone, two fit, and two do not.
- `punc`: a text of four words behind a cache of three makes four batches of two; a rest grows past
  the limit and is cut at a comma. Final calls make several texts or none, and any call may throw. In the code a batch has 20 tokens and the limit is 200
  (com-define.h:126, 136).
- `ctc`: with blank and two tokens a beam of 2 prunes a token of every frame: of one kind the least likely token, of the other, in
  which the tokens are equally likely and all texts that tie may be kept, blank. It also prunes a
  hypothesis of all but the first; four frames are enough for a, blank, a, for a hotword of three tokens
  behind another one, and for the time of a repeated token to move. The lists have two hotwords with
  the same beginning, one more than a graph takes, one that is too long (last, first or between two, where it shifts the scores),
  one that is unknown, and one that begins another, with a lower score and with a higher one.
- `CHECK_DEADLOCK FALSE` in `vad`, `split`, `online` and `cut`: these stop
  when the audio allowed by the bounds is used up or the text is made.

### Fairness

`WF(OnMessage(c))`: an IO thread that has entered a handler goes on. `SF(OnClose)`,
`SF(Decoder)`, `SF(Cleaner)`: these wait for mutexes others take again and again;
strong fairness says that a waiter is not passed over for ever, and that threads run: the
io contexts have a work guard and the decoder threads loop in run(); the cleaner
loops for ever with a sleep of five seconds. Nothing is assumed of the client or the network: opening,
sending and shutting have no fairness. A recogniser call is assumed to end
(`InferReturns` or `InferThrows`). The offline server has the same fairness for the
same reasons.

## 4. Theorems

All for every value of the constants that satisfies the named assumptions, and
so for any number of connections and decoder threads, any Setp > 0, any sizes of
messages, blocks, frames, windows and chunks, and without the bounds of the runs.

| Module | Theorem | Says |
|---|---|---|
| `TpassServer_proofs` | `Invariance` | `Spec => []IndInv` |
| | `TypeCorrect` | `[]TypeOK`; access_num is never negative |
| | `AccessCorrect` | `[]AccessCounts` |
| | `JobsSafe` | `[]JobsKeepEntry` |
| | `LoadingSafe` | `[]NoJobWhileLoading` |
| | `RemovalSafe` | `RemovedWhenUnused` |
| | `Refinement` | `LeaseSafety`: the server implements `SessionLease` |
| | `AudioInvariance` | `[](IndInv /\ AudioInv)` |
| | `NothingSkippedCorrect` | `[]NothingSkipped` |
| | `InOrder` | `FedInOrder` |
| | `RepliesOwedCorrect` | `[]RepliesOwed` |
| `OfflineServer_proofs` | `Invariance`, `TypeCorrect` | `[]IndInv`, `[]TypeOK` |
| | `JobsSafe` | `[]JobsKeepEntry` |
| | `RepliesCorrect` | `[]RepliesOwed` |
| | `Refinement` | `LeaseSafety`, by a count instead of a strand |
| `TpassSplit_proofs` | `Invariance`, `TypeCorrect` | `[]IndInv`, `[]TypeOK` |
| | `CopiesInBounds` | `[]InBounds` |
| | `StartsCorrect` | `[]StartsAgree` |
| | `HearInvariance` | `[](IndInv /\ HearInv)` |
| | `BothPassesCorrect` | `BothPassesHear`: Split implements `TwoPass` |
| | `KeepsUpCorrect` | `[]KeepsUp` |
| | `OnlineTextCorrect` | `[]OnlineTextWhole` |
| `VadEndpoint_proofs` | `Invariance`, `TypeCorrect` | `[]IndInv`, `[]TypeOK` |
| | `NoFaultCorrect` | `[]NoFault` |
| | `Bounded` | `[]SegmentsBounded` |
| | `FinalClosesCorrect` | `FinalCloses` |
| | `Refinement` | `SegmentsInOrder`: the detector implements `SegmentStream` |
| `OfflineCut_proofs` | `Invariance`, `TypeCorrect` | `[]IndInv`, `[]TypeOK` |
| | `HearsAll` | `[]VadHearsAll` |
| | `TextsInOrder` | `[]TextInOrder` |
| `OnlineFeats_proofs` | `Invariance`, `TypeCorrect` | `[]IndInv`, `[]TypeOK` |
| | `LfrCorrect` | `[]LfrAsOffline` |
| | `WavesCorrect` | `[]WavesEnough` |
| | `BodiesCorrect` | `[]BodiesTile` |
| | `FreshCorrect` | `[]UtteranceFresh` |
| `Punctuation_proofs` | `Invariance`, `TypeCorrect` | `[]IInv`, `[]TypeOK` |
| | `WordsCorrect` | `[]WordsOnce` |
| | `MarksCorrect` | `[]MarksPlaced` |
| `CtcPrefixDecoder_proofs` | `Invariance`, `TypeCorrect` | `[]IInv`, `[]TypeOK` |
| | `ExactCorrect` | `[]Exact` |
| | `TimesCorrect` | `[]TimesInOrder`: what `TimesMatch` says but for the number of times of a text without a path |
| | `ContextCorrect` | `[]ContextGiven`: the scores hotwords give never fall below 0 |
| | `BeamCorrect` | `BeamsFit => (Spec => [](PaidHyps /\ Held))` |
| | `TimesMatchCorrect` | `BeamsFit => (Spec => []TimesMatch)` |

**Two-pass server, entries.** `JobsKeepEntry` is not inductive: that remove_hdl does
not free under a job follows
from `access_num = 0` only if access_num counts exactly (`AccessCounts`); that in turn
needs that post and increment are under one hold of thread_lock (`Locks`), that no two
jobs of a strand run (`StrandExclusive`), and that the handler that found an entry before it had
thread_lock still has it afterwards (`HandlersKeepEntry`). The latter is where
m_lock is released before thread_lock is taken (cpp:391-399): it is harmless because the cleaner
erases only what has is_eof set, is_eof is set only by the connection's own handlers
or for a destroyed session, and the session stays open during a handler. For this
`Collected` says that what the cleaner has collected was no longer open. `Entries`
says what an entry owns, `Loading` that no job exists before the hotwords. `IndInv` is
their conjunction. Each action group has a lemma (`ClientInv`, `OnMessageInv`,
`OnCloseInv`, `DecoderInv`, `CleanerInv`); the effect of the posts, of starting and of
finishing a job on the count are lemmas of their own. `Refinement` shows for each
group that its steps are a step of `SessionLease` or leave phase and leases alone.

**Two-pass server, audio.** `NothingSkipped` says nothing of a connection that
has ended or lost audio, and `FedInOrder` is about exactly those, so neither is inductive.
`AudioInv` has one chain of positions for each connection, from `fed` through the running
job and the strand to `samples`: consecutive pieces meet (`Meets`), in any case not backwards, and
exactly as long as the connection is whole. A job that is not final consists of whole
setps (`WholeSetps`, from `CutOff`): this is why the loop of do_decoder leaves
nothing of it (`NoneLeft`), and with `Progress` a finished job has handed its
place on. `FinishAudio` then needs no assumption about the client.

**Two-pass server, replies.** `OneOwes` replaces the cardinality over the threads, since
a strand has at most one job running; `AppendFinals` and `TailFinals` count the final jobs
of a sequence. A job that is done without its reply is not final (`NothingLeft`), or its audio
was given up, or the connection has ended.

**Offline server.** Without a strand several threads run jobs of a connection: the
count is the cardinality of two sets, of indices of the queue and of threads, and
`AppendCounts` and `TailCounts` say how it changes. Decoders must be finite
(`DecoderAssumption`).

**Splitting.** `InBounds` needs that the audio kept reaches back to the beginning
of a segment that the VAD has not told yet: `offset <= size - VectorCache`, and a beginning is
at most `Lag` behind what the VAD has heard, that at most `Delay` behind size;
`CacheAssumption` says `Lag + Delay <= VectorCache`. While a segment is open its beginning bounds
the trim. The integers of `Rest`, where a last chunk may have one odd sample
more, are in lemmas of their own.

**Both passes.** The refinement needs to know the queue between `Split` and the recogniser: `Ordered` says
that it holds pieces of one utterance, each beginning where the one before ends, and after them
exactly one last piece for each segment in `ended`. `Turn` ties its head to what the recogniser
has heard, `Stands` ties `speech_start` to its end, and `Fresh` says that a segment which began in
this call is too short for a chunk, so that at most the first end of a call cuts more than one piece:
this is where `Lag + Delay < Step` (`ChunkAssumption`) is used, and again in `ReturnsFinal`, where it
shows that a stream cannot end with a part of a segment heard and its end untold. `Ordered` is
kept by taking the head (`OrderedPiece`, `OrderedLast`) and by appending (`OrderedAppend`,
`OrderedRest`, `OrderedChunk`); each action then is a step of `TwoPass` (the lemmas `...Serves`).
`KeepsUp` needs a bound that is a chunk larger between loading and cutting (`LateInv`);
`OnlineTextWhole` needs that no piece is queued behind a last one when the text is told, which is `Ordered` again.

**Endpoint detector.** That its complaints are never printed (`NoFault`) is not inductive: whether a
segment's end meets the next piece of it depends on three counters that move apart during silence.
`Inside` ties them together within a segment: output_data_buf ends at
latest_confirmed_speech_frame + 1, data_buf begins there, and the current frame is ahead of it by just the silence
beyond the lookahead. `Outside` says where data_buf stands between two segments,
so that a new one begins behind the end of the last; `Audio` that the audio kept covers all frames and
data_buf holds a whole frame, without which the loop of `PopDataBufTillFrame` would not end (this is where
`surplus >= 0` is needed, the first part of `WavesEnough` of `OnlineFeats`: `Overlaps` are not negative). `Output` states order and
length of all entries; a segment's length is bounded because it is cut when it is
`TooLong`, and what it takes back at its beginning is at most the latency (`Longest`). `EndsInside` is `FinalCloses`
between the last frame and the return, `Counted` bounds the counters by the frames. For the refinement `Reader` says what has been told
of output_data_buf: all entries before the offset, the beginning of the one at it
exactly when next_seg is false, and an entry not yet told began no longer ago than `Lag`. The operators on
data_buf have lemmas of their own (`PopDataBuf`, `PopDataNext`, `VoiceStarts`, `VoiceDetected`,
`VoiceBegins`, `VoiceEnds`), and so has the window (`OneFrameIsNoSpeech`: with a threshold of at least two, a
segment does not begin on the first frame of speech).

**Offline cutting.** `TextInOrder` compares sequences that are folded, sorted and batched. The
invariant has no fold: it says there is a function f that counts, for each prefix of the VAD's entries, the segments
that have ended in it, and that what was paired so far is the first f[paired] segments (`Cut`). After the sort
`index_vector` is a permutation of the places, the queue holds the segment of each place not yet decoded, and `msgs` the text of each that is
(`Placed`). `OneToOnePermutes` (a one-to-one map of a finite set to itself reaches every element) gives that
every place is filled at the end; `BatchTakesSome` that each `FetchDynamic` moves on. Nothing is used of the order
`std::sort` makes but that it permutes.

**Front ends.** `LfrAsOffline` is about the frames of one call, and holds in the next only if the caches fit.
`Within` is that fit between two calls: every sample of the utterance is in a frame or in
input_cache_, and lfr_splice_cache_ holds exactly what stands behind the LFR frames made so far (`Follow`), fewer
frames than one more needs, but at least `M - N`. A call goes one of four ways (`Ways`), and `CallJoins` shows for all
of them that old and new frames join; `LfrJoins`, `LfrWaits` and `LfrEnds` are the loop of `OnlineLfrCmvn`
against the offline definition. `WavesEnough` needs `VadWithin`: a call of the detector in the middle of an
utterance gives as much audio as frames, the first one gives the padding in advance, and the last spends no more
than that. Where the network fails a call gives neither; so the padding is still in advance unless it was the first
call that failed, and a stream that goes on in the next utterance starts it from at least 0 (`HearsKeeps`, for
both outcomes of every call; `VadCall` says what each of them gives). The recogniser is simpler than its code, since pieces are whole chunks: after each call it
is exactly `Left`, the frames a frame reaches over, behind (`AsrWithin`); so each piece gives `Body`
LFR frames, feats_cache holds the numbers of the last `Pre + Suf` of them, and the body of a chunk is a run of
numbers that begins where the one before ended (`BodyIs`, `PieceTiles`). `ShortTiles` and `LastTiles` do the
same for the end of an utterance, where what is left fits into two chunks (`FitAssumption`).

**Punctuation.** Words have numbers, so that all is said by where a sequence of them stands: `Follow(s, b)` is that s
holds the numbers behind b. `InOrder`, within a text: what left the loop, the rest of the batch before and the
input follow each other from the first word of the cache on, and end with the last word heard; a batch
moves words along this row (`FollowCut`, `FollowConcat`), wherever it is cut (`CutWithin`: of the cut nothing is used but
that it is within the batch). `Cached`: between two texts arr_cache holds the last words heard, so `AddPunc` puts the text behind
them and skipping as many words as the cache has skips just these (`LoopEnds`); it holds none from before a final call
returned and at least one that has come since, so a text begins with the mark of the word before it exactly if no final call
returned in between (`LeadsAs`). `OneCall` says that only within a final call a text follows one that ends in a mark. What is told is `FlattenSeq` over the
words; `FlattenAppend` says what one element more adds, and `ToldIs` goes along the words: the first m of them make the
text of those behind the skip-th, with no two marks at one place (`OneMark`). `WordsOnce` and `MarksPlaced` are parts of
`IInv`, since the text is made in one step from the words and marks that were gathered; the period a caller puts takes
the place of a mark or follows a word (`WithoutLastIs`, `ClosedIs`).

**Beam search, scores.** `Exactly` restates `Exact` for one text: its four scores are the sums and
the best over the paths of the text that end in blank (`BlankEnds`) or in a token (`TokenEnds`). A frame more makes each path longer by one token
(`Longer`, `AmongAppend`), and `Grown` says how the alignments with the new frame come of those without: the paths of p that
end in blank are all paths of p and a blank (`BlankGrows`), those that end in its last token are those that ended in it
already, and those of the shorter text, after a blank if that ends in the same token (`TokenGrows`): the cases of the code.
On the other side `PassedIs` says what token passing writes, whichever of the two writers comes first; `BlankStep`, `RepeatStep` and
`ExtendStep` put both together (`ExactStep`). Before the first frame there is one alignment, the empty one, and v_ns is 1 without a
path for it (ctc-prefix-decoder.cpp:61): hence `Counted` says nothing of the fresh state, and `Balanced` gives what the step
needs of it (`Totals`). A text that is pruned and comes back later has lost the paths that led through it before; `survivors` is in the
definition of the alignments for this, and the step uses `Covers`, that the text of every alignment is among the hypotheses.

**Beam search, times.** `Timely`: both lists of times are in order, and each is as long as the text if its Viterbi
score, or cur_token_prob, is above 0. The third part is needed where case 1 takes a score and leaves the times alone,
because cur_token_prob is as large already. This gives `TimesInOrder`. That every text at the end has a path is not
true of all beams: case 2 writes hypotheses of probability 0. `Held` says that the second beam is full after every
frame, and of hypotheses above 0: in the first frame every token of the first beam makes a text of its own
(`FirstLiving`); later a blank keeps all of them, and without it there is for each hypothesis a token other than its
last, or, with a beam of one, its last token keeps it or its longer text (`LaterLiving`), so as many live as before,
and a beam that prefers them takes no other (`BeamLives`). This needs `BeamsFit`, that the second beam is not larger
than the first, nor that larger than the vocabulary; with it `TimesMatch` holds, without it it does not (section 7).
`BeamLives` compares the totals, in which the hotword scores are factors 2^n with n never negative (`ContextCorrect`).

**Beam search, hotwords.** `Paid(c, state)`: for each place `<<n, r>>` of a state of the determinised graph, c and the rest r owed there
cover what reading to n has earned. Determinize takes the least of the scores and leaves the rest to the places, which keeps this
sum; a token earns its score, and an escape takes back at most what was earned (`ArcCovers`, `StepPaid`).

**Induction.** The library's induction theorems take an operator. Instead every set of numbers has a least one (`Least`, from the
well-foundedness of < on Nat), which gives induction for sets (`UpTo`, and `SubsetsOf` for the subsets of a finite set).
A recursive function is the CHOOSE of a function that satisfies its equation: that there is one is shown by such an induction
(`SomeSteps`, `SomeSums`, `SomeJoins`), and that it is unique likewise. So `SumFunction`, `FlattenSeq`, `Collapsed` and `Prob` have
their properties proved from their definitions.

**Only model-checked.** All liveness (out of the prover's reach), and `ContextScore`: it compares the determinised graph with a reader of the
finished text; proved is only that scores are not taken back without having been given. Only proved: `TypeOK` of `OfflineServer` and of
`TpassSplit`, which their runs leave to the theorems.

## 5. Assumptions

- websocketpp runs the handlers of one connection one at a time; a session leaves
  the open state between two handlers; a connection object is destroyed only after its close handler.
- asio runs a strand's handlers first in, first out, one at a time, and the handlers posted
  to `io_decoder_` itself in order, each on any idle thread.
- A text message that parses is a JSON object with fields of the expected types.
- FunTpassInferBuffer returns or throws; memory allocation does not fail. `on_open` of the offline
  server does not fail in the model (in the two-pass server it may).
- The final reply is modelled for PCM audio. (For another `wav_format`
  the recogniser returns nothing.)
- Connection handles are not reused; websocketpp's are weak pointers to the connection object.
- `TpassSplit`: a chunk is longer than what the VAD may look back and hold back (`ChunkAssumption`): 600 ms
  with the chunk_size 5,10,5 of all clients, against 450 ms and a block. The server takes chunk_size from
  the client and does not check this; with a middle number below 9 a chunk may be shorter.
- `TpassSplit`: the VAD is told of the end of a stream when the reader is. This holds unless the VAD's network fails
  on the final call (`UtteranceFresh`, section 7). Audio is resampled to
  16 kHz by a factor that is exact (8 and 16 kHz).
- `VadEndpoint`: there is a largest vad_max_len (`LongestAssumption`; it is an int), speech needs two
  frames to begin and both thresholds fit into the window (`WindowAssumption`; 15 of 20 in the code), and the
  detector never gets less audio than its frames cover (`Overlaps`). Theorem `WavesCorrect` shows this unless the VAD's
  network fails on the first call of an utterance; then the last call may lack up to the padding.
- `OnlineFeats`: a piece in the middle of an utterance is a whole chunk and gives at least one LFR frame
  (`PieceAssumption`: `Split` cuts chunk_len, paraformer-online.cpp:112; the VAD's blocks of 50 ms make one LFR frame
  of the first call). A frame is no longer than the padding, and reaches over no more frames than LFR
  frames overlap (`FitAssumption`, `VadFitAssumption`): frames of 25 ms every 10 ms, LFR frames of 7 every 6 in the recogniser
  and 5 every 1 in the VAD (com-define.h). A segment told as a whole
  reaches the recogniser in one piece; it is shorter than 900 ms in the server, where a segment is
  told within `Lag` of its beginning. A caller of the library with longer blocks could exceed
  what two chunks hold.
- `Punctuation`: the network gives one mark for each token. seg_jieba is off: with it, a
  word could form over the seam of the cache and the new text. AddPunc itself does not throw; a call may throw before
  or after it.
- `Punctuation`: the bounds of the run are numbers (`BoundAssumption`); the proofs use nothing else of them.
- `CtcPrefixDecoder`: the vocabulary is finite and holds blank (`TokenAssumption`), the score of a hotword is a number from 0 on and no hotword
  is spelled with blank (`HotwordAssumption`; a client may send a negative score, which the model leaves out), and a token has a length (`LengthAssumption`). `TimesMatchCorrect` and `BeamCorrect` have
  `BeamsFit` as hypothesis: the two beams are options with the same default (3.0 in funasr-onnx-2pass.cpp:55-56), the
  vocabulary has thousands of tokens.
- `CtcPrefixDecoder`: beams are at least 1 (`BeamAssumption`; the options are checked nowhere, and below 1
  `result_[0]` is read of an empty vector), and every token has some probability (`FrameAssumption`).
  Hotwords are such that Determinize ends: with a, ab and ba of unlike scores, abab can be read in two ways
  whose scores drift apart, and fst::Determinize would not return.

## 6. What the models leave out of modelled parts

The scores of GetFrameState are speech or silence, chosen freely. The whole-file mode and the
single-utterance mode of the detector are not modelled; the servers do not use them.
In the second chunk of a split last piece, the recogniser sees the last frames of
the same piece as look-back, whereas README.md:62 describes 300 ms of the past; the model says which
frames are in the body, and that is what `BodiesTile` is about. Two jobs of one connection of the offline
server may be answered in either order: their replies carry no number.

## 7. Findings

`sweep`: the cleaner walks `data_map` without `m_lock` (cpp:324-358) while
`on_open` inserts into it under `m_lock` (cpp:245, 272). The header calls
`m_lock` "mutex for sample_map" (websocket-server-2pass.h:156). The trace is three states
long: the cleaner takes begin(), a client connects, the map changes under the
iterator. An insertion into a `std::map` does not invalidate iterators, but doing it
concurrently with a walk is a data race, so its outcome is undefined; elsewhere the models
take the mildest outcome (the new entry is visited or not).

`shared`: `FunOfflineInferBuffer` sets vad_tail_sil and vad_max_len on the one VAD
handle of all connections (funasrruntime.cpp:219) and makes its detector from it later
(audio.cpp:1174). README.md:68-69 documents both as options of a client. With two decoder threads the audio of one
client may be cut with the options of the other.

Seen while modelling, not shown by a run:

- The offline server always answers with is_final false (websocket-server.cpp:102, 134); README.md:178
  shows the answer with is_final true, and the clients close on it.
- Audio sent before the first text message is dropped silently once more than a setpsize of it waits
  (websocket-server-2pass.cpp:585); a message with a wrong chunk_size loses its end of speech (504);
  nothing bounds the strand of a client that sends faster than the recogniser decodes (587).
- If one call of `FunTpassInferBuffer` ends two segments, the second text replaces the first
  (funasrruntime.cpp:614; blocks of 50 ms are too short for it).
- A segment that begins on the last frame of a stream is never closed (e2e-vad.h:692); data_buf_size and
  data_buf_all_size survive a reset (e2e-vad.h:419-420), which makes the checks on them weaker in every stream but the first.
- A run of the VAD's network that fails on the final call returns before the detector is called
  (fsmn-vad.cpp:106-113, fsmn-vad-online.cpp:144-146), so the detector is not told of the end, while the reader's positions go
  back to 0 all the same (`Audio::ResetIndex`, funasrruntime.cpp:641-643): in the next utterance the VAD goes on
  counting from the old one. `UtteranceFresh` has this as its exception.
- If it fails on the first call of an utterance of short blocks, the audio kept for the padding never reaches the detector, and a
  last call without a frame gives fewer samples than its frames cover: the decibels are read behind the end of
  the audio. This is the exception of `WavesEnough`.
- ExtractFeats clears in_cache_ when the input has ended (fsmn-vad-online.cpp:84-87), before Infer calls the network for
  the last time (143): the last block is scored as if nothing had come before. (The models have no values of scores.)
- An utterance whose final call makes no text ends without a period, and the mark withheld at the end of its last text is
  lost (funasrruntime.cpp:609-613, websocket-server-2pass.cpp:200-204); a final call that throws leaves the cache
  to the next utterance (194-199); of two texts of one final call each gets a period, and the second may begin
  with the mark of the first one's last word, behind that period.
- A hotword longer than max_context_length is skipped before count moves on (context_graph.cpp:56-61):
  every later hotword gets the score of the one before it, although README.md:66 gives each its own. The list comes from
  an unordered map, so it may be anywhere in it; `Usable` has the shift, and two lists of `ctc` show it.
- A hotword that begins another loses its score at the end of a text although it is fully matched: its state is also the
  middle of the longer one, and not state 0 (ctc-prefix-decoder.cpp:286-289). `Bonus` says so, and `ctc` has lists with one.
- With a lattice beam above the global beam a hypothesis that no alignment spells may survive to the end, two tokens long and
  without times; CHECK_EQ (ctc-prefix-decoder.cpp:325) then ends the process.
- times_ns may be those of another path than v_ns: when case 3 wrote a hypothesis first in a frame, cur_token_prob is
  this frame's already, and case 1 takes the score without the times (ctc-prefix-decoder.cpp:195-202).

## 8. Plan

What is left, in this order:

1. `CtcPrefixDecoder`: a proof of `ContextScore`. It needs the sets of places that a text can reach, and that the
   least that any of them has earned is what Determinize has handed out.
2. One theorem that `TpassSplit` over `VadEndpoint` is `TpassSplit` over `SegmentStream`: the two refinements are
   proved separately, their composition is by reading.
3. The client's wait for `is_final` (funasr-wss-client-2pass.cpp:111) composed with `TpassServer`;
   what it may expect when a message does not parse (cpp:408).
4. Timestamps against a reference definition; the WFST decoder's use of the hotword map.

## 9. Not modelled

Most of the repository is not its own program: of about 76,000 lines of C and C++ some
54,000 are headers of ffmpeg and onnxruntime and other vendored code, which the code calls and the
models treat as external. Of the rest, the networks and their tensors, feature
extraction arithmetic, WFST search (`WfstDecoder` is a shell around kaldi), text normalisation, encodings, TLS and option
parsing are numeric, textual or pure I/O; benchmark drivers and the Python, Java and
HTML clients only use the two protocols.
