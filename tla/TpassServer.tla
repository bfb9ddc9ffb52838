------------------------------ MODULE TpassServer ------------------------------
(***************************************************************************)
(* The two-pass websocket server: src/websocket/bin/websocket-server-2pass  *)
(* and the thread pools funasr-wss-server-2pass.cpp starts around it.       *)
(*                                                                          *)
(* Three kinds of threads share one FUNASR_MESSAGE per connection:          *)
(*   - IO threads run on_open, on_message and on_close.  websocketpp runs   *)
(*     the handlers of one connection one at a time, so a handler is        *)
(*     identified by its connection and its progress is io[c];              *)
(*   - decoder threads run do_decoder for the jobs of a connection's        *)
(*     strand;                                                              *)
(*   - one detached cleaner thread runs check_and_clean_connection.         *)
(* The names of the source are kept.  A step is what a thread does between  *)
(* two points where another thread may see or change what it uses.          *)
(***************************************************************************)
EXTENDS Naturals, Sequences, FiniteSets

CONSTANTS
    Conns,     \* connection handles; each is opened at most once
    Decoders,  \* the decoder threads (decoder-thread-num)
    Setp,      \* setpsize: the audio one recogniser call takes (800 * 2 bytes)
    MsgSizes,  \* the amounts of audio a binary message may carry
    Chunks,    \* what the chunk_size of a text message may be
    MaxMsgs    \* bound: messages a connection may send

ASSUME ConnsAssumption == "none" \notin Conns
ASSUME SetpAssumption == Setp \in Nat \ {0}
ASSUME MsgSizesAssumption == MsgSizes \subseteq Nat
ASSUME ChunksAssumption == Chunks \subseteq {"absent", "valid", "wrong"}

VARIABLES
    session,     \* what websocketpp knows of the connection (external)
    io,          \* where the connection's handler stands
    msgs,        \* messages received so far, to bound the runs
    data_map,    \* the connections with an entry in data_map
    m_lock,      \* who holds m_lock
    thread_lock, \* who holds the connection's thread_lock
    is_eof, access_num, hotwords_embedding,
    tpass_online_handle, decoder_handle,
    samples,     \* how much audio waits in *samples
    strand,      \* the jobs posted and not yet started, in order
    dpc, dconn, djob,     \* each decoder thread: step, connection, job
    cpc, iter, to_remove, hdl, \* the cleaner: step, entries ahead, list, current
    rcvd,        \* audio received: the position samples ends at
    fed,         \* the position up to which the recogniser was given audio
    lost,        \* some audio was received and never given to the recogniser
    ends,        \* how many ends of speech were posted as a final job
    replies      \* how many of them were answered with is_final

ioVars    == <<session, io, msgs>>
entryVars == <<data_map, is_eof, access_num, hotwords_embedding,
               tpass_online_handle, decoder_handle>>
lockVars  == <<m_lock, thread_lock>>
decVars   == <<dpc, dconn, djob>>
cleanVars == <<cpc, iter, to_remove, hdl>>
audioVars == <<samples, rcvd, fed, lost, ends, replies>>
vars == <<ioVars, entryVars, lockVars, strand, decVars, cleanVars, audioVars>>

\* What strand_->post binds of a call of do_decoder: the audio between two
\* positions, and is_final.
Job == [from : Nat, to : Nat, final : BOOLEAN]
NoJob == [from |-> 0, to |-> 0, final |-> FALSE]

Init ==
    /\ session = [c \in Conns |-> "none"]
    /\ io = [c \in Conns |-> "idle"]
    /\ msgs = [c \in Conns |-> 0]
    /\ data_map = {}
    /\ m_lock = "free"
    /\ thread_lock = [c \in Conns |-> "free"]
    /\ is_eof = [c \in Conns |-> FALSE]
    /\ access_num = [c \in Conns |-> 0]
    /\ hotwords_embedding = [c \in Conns |-> FALSE]
    /\ tpass_online_handle = [c \in Conns |-> "null"]
    /\ decoder_handle = [c \in Conns |-> "null"]
    /\ samples = [c \in Conns |-> 0]
    /\ strand = [c \in Conns |-> <<>>]
    /\ dpc = [d \in Decoders |-> "idle"]
    /\ dconn = [d \in Decoders |-> "none"]
    /\ djob = [d \in Decoders |-> NoJob]
    /\ cpc = "sleep" /\ iter = {} /\ to_remove = {} /\ hdl = "none"
    /\ rcvd = [c \in Conns |-> 0]
    /\ fed = [c \in Conns |-> 0]
    /\ lost = [c \in Conns |-> FALSE]
    /\ ends = [c \in Conns |-> 0]
    /\ replies = [c \in Conns |-> 0]

-----------------------------------------------------------------------------
(* Connections opening and closing: websocketpp, on_open and on_close.       *)

\* on_open holds m_lock to its end.  The cleaner walks data_map without that
\* lock: an entry put in while it walks may fall before or after its iterator.
OnOpen(c) ==
    /\ session[c] = "none" /\ m_lock = "free"
    /\ session' = [session EXCEPT ![c] = "open"]
    /\ data_map' = data_map \cup {c}
    /\ decoder_handle' = [decoder_handle EXCEPT ![c] = "live"]
    /\ \/ iter' = iter
       \/ cpc = "sweep" /\ iter' = iter \cup {c}
    /\ UNCHANGED <<io, msgs, is_eof, access_num, hotwords_embedding,
                   tpass_online_handle, lockVars, strand, decVars,
                   cpc, to_remove, hdl, audioVars>>

\* on_open catches what the creation of the decoder throws: the connection is
\* open and has no entry.
OnOpenFails(c) ==
    /\ session[c] = "none" /\ m_lock = "free"
    /\ session' = [session EXCEPT ![c] = "open"]
    /\ UNCHANGED <<io, msgs, entryVars, lockVars, strand, decVars, cleanVars,
                   audioVars>>

\* External: the session leaves the open state, between two handlers.
SessionShuts(c) ==
    /\ session[c] = "open" /\ io[c] = "idle"
    /\ session' = [session EXCEPT ![c] = "shut"]
    /\ UNCHANGED <<io, msgs, entryVars, lockVars, strand, decVars, cleanVars,
                   audioVars>>

\* External: after its close handler the connection object may be destroyed,
\* and get_con_from_hdl then throws.
SessionDestroyed(c) ==
    /\ session[c] = "closed"
    /\ session' = [session EXCEPT ![c] = "gone"]
    /\ UNCHANGED <<io, msgs, entryVars, lockVars, strand, decVars, cleanVars,
                   audioVars>>

\* on_close takes m_lock, finds the entry, and waits for its thread_lock.
OnCloseFinds(c) ==
    /\ session[c] = "shut" /\ io[c] = "idle" /\ m_lock = "free"
    /\ c \in data_map
    /\ io' = [io EXCEPT ![c] = "closing"]
    /\ m_lock' = "close"
    /\ UNCHANGED <<session, msgs, entryVars, thread_lock, strand, decVars,
                   cleanVars, audioVars>>

\* on_close returns when there is no entry.
OnCloseMissing(c) ==
    /\ session[c] = "shut" /\ io[c] = "idle" /\ m_lock = "free"
    /\ c \notin data_map
    /\ session' = [session EXCEPT ![c] = "closed"]
    /\ UNCHANGED <<io, msgs, entryVars, lockVars, strand, decVars, cleanVars,
                   audioVars>>

\* on_close holds both locks, sets is_eof and releases them.
OnCloseMarks(c) ==
    /\ io[c] = "closing" /\ thread_lock[c] = "free"
    /\ is_eof' = [is_eof EXCEPT ![c] = TRUE]
    /\ io' = [io EXCEPT ![c] = "idle"]
    /\ session' = [session EXCEPT ![c] = "closed"]
    /\ m_lock' = "free"
    /\ UNCHANGED <<msgs, data_map, access_num, hotwords_embedding,
                   tpass_online_handle, decoder_handle, thread_lock, strand,
                   decVars, cleanVars, audioVars>>

-----------------------------------------------------------------------------
(* on_message.  m_lock for the lookup, then the connection's thread_lock.    *)

\* A message is delivered: on_message looks its connection up under m_lock.
Delivered(c) ==
    /\ session[c] = "open" /\ io[c] = "idle" /\ m_lock = "free"
    /\ msgs[c] < MaxMsgs
    /\ msgs' = [msgs EXCEPT ![c] = @ + 1]

\* The entry is gone, or the connection already ended: the message is dropped.
OnMessageIgnored(c) ==
    /\ Delivered(c)
    /\ c \notin data_map \/ is_eof[c]
    /\ UNCHANGED <<session, io, entryVars, lockVars, strand, decVars,
                   cleanVars, audioVars>>

OnMessageFinds(c) ==
    /\ Delivered(c)
    /\ c \in data_map /\ ~is_eof[c]
    /\ io' = [io EXCEPT ![c] = "message"]
    /\ UNCHANGED <<session, entryVars, lockVars, strand, decVars, cleanVars,
                   audioVars>>

\* The handler of c moves on, holding or releasing the connection's lock.
Handler(c, from, to) ==
    /\ io[c] = from
    /\ from = "message" => thread_lock[c] = "free"
    /\ io' = [io EXCEPT ![c] = to]
    /\ thread_lock' = [thread_lock EXCEPT
                         ![c] = IF to = "idle" THEN "free" ELSE "io"]

\* A text message that is not JSON ends the connection's service.
ParseFails(c) ==
    /\ Handler(c, "message", "idle")
    /\ is_eof' = [is_eof EXCEPT ![c] = TRUE]
    /\ UNCHANGED <<session, msgs, data_map, access_num, hotwords_embedding,
                   tpass_online_handle, decoder_handle, m_lock, strand,
                   decVars, cleanVars, audioVars>>

\* A text message: the first one loads the hotwords into decoder_handle.
TextBegins(c) ==
    /\ Handler(c, "message", IF hotwords_embedding[c] THEN "config" ELSE "load")
    /\ UNCHANGED <<session, msgs, entryVars, m_lock, strand, decVars,
                   cleanVars, audioVars>>

HotwordsLoaded(c) ==
    /\ Handler(c, "load", "config")
    /\ hotwords_embedding' = [hotwords_embedding EXCEPT ![c] = TRUE]
    /\ UNCHANGED <<session, msgs, data_map, is_eof, access_num,
                   tpass_online_handle, decoder_handle, m_lock, strand,
                   decVars, cleanVars, audioVars>>

\* Variant: a post that does not wait for the hotwords.
MayPostEarly(c) == ~is_eof[c]

\* What must hold for on_message to post a job.
MayPost(c) == ~is_eof[c] /\ hotwords_embedding[c]

\* strand_->post: from here a decoder thread may start the job, before the
\* handler has counted it.
Post(c, job) == strand' = [strand EXCEPT ![c] = Append(@, job)]

\* chunk_size of a text message is absent, valid, or wrong; a wrong one leaves
\* the switch at once, and with it the end of speech the message may carry.
WrongChunkSize(c, chunk) == chunk = "wrong" /\ tpass_online_handle[c] = "null"

OnlineHandleAfter(c, chunk) ==
    IF chunk = "valid" /\ tpass_online_handle[c] = "null"
    THEN "live" ELSE tpass_online_handle[c]

\* The rest of a text message that posts nothing.
TextConfigures(c, chunk, end) ==
    /\ Handler(c, "config", "idle")
    /\ (end /\ MayPost(c)) => WrongChunkSize(c, chunk)
    /\ tpass_online_handle' =
         [tpass_online_handle EXCEPT ![c] = OnlineHandleAfter(c, chunk)]
    /\ UNCHANGED <<session, msgs, data_map, is_eof, access_num,
                   hotwords_embedding, decoder_handle, m_lock, strand,
                   decVars, cleanVars, audioVars>>

\* The rest of a text message that ends the speech: all of samples is moved
\* into a final job.
TextEndsSpeech(c, chunk) ==
    /\ Handler(c, "config", "posted")
    /\ MayPost(c) /\ ~WrongChunkSize(c, chunk)
    /\ tpass_online_handle' =
         [tpass_online_handle EXCEPT ![c] = OnlineHandleAfter(c, chunk)]
    /\ Post(c, [from |-> rcvd[c] - samples[c], to |-> rcvd[c], final |-> TRUE])
    /\ samples' = [samples EXCEPT ![c] = 0]
    /\ ends' = [ends EXCEPT ![c] = @ + 1]
    /\ UNCHANGED <<session, msgs, data_map, is_eof, access_num,
                   hotwords_embedding, decoder_handle, m_lock,
                   decVars, cleanVars, rcvd, fed, lost, replies>>

\* Variants: rounding the cut up, and cutting off all there is.
CutOffRoundsUp(n) ==
    IF n > Setp THEN ((n + Setp - 1) \div Setp) * Setp ELSE 0
CutOffAll(n) == IF n > Setp THEN n ELSE 0

\* The audio a binary message cuts off samples: none up to Setp, then as many
\* whole Setps as there are.
CutOff(n) == IF n > Setp THEN (n \div Setp) * Setp ELSE 0

\* A binary message that leaves nothing to post.  What it cuts off before the
\* hotwords are loaded is in no job: that audio is lost.
BinaryKept(c, n) ==
    /\ Handler(c, "message", "idle")
    /\ CutOff(samples[c] + n) > 0 => ~MayPost(c)
    /\ rcvd' = [rcvd EXCEPT ![c] = @ + n]
    /\ samples' = [samples EXCEPT ![c] = @ + n - CutOff(@ + n)]
    /\ lost' = [lost EXCEPT ![c] = @ \/ CutOff(samples[c] + n) > 0]
    /\ UNCHANGED <<session, msgs, entryVars, m_lock, strand, decVars,
                   cleanVars, fed, ends, replies>>

\* A binary message that posts the whole Setps it completes.
BinaryPosted(c, n) ==
    /\ Handler(c, "message", "posted")
    /\ CutOff(samples[c] + n) > 0 /\ MayPost(c)
    /\ rcvd' = [rcvd EXCEPT ![c] = @ + n]
    /\ samples' = [samples EXCEPT ![c] = @ + n - CutOff(@ + n)]
    /\ LET from == rcvd[c] - samples[c]
       IN  Post(c, [from |-> from, to |-> from + CutOff(samples[c] + n),
                    final |-> FALSE])
    /\ UNCHANGED <<session, msgs, entryVars, m_lock, decVars, cleanVars,
                   fed, lost, ends, replies>>

\* access_num + 1, after the post and before the lock is released.
Counted(c) ==
    /\ Handler(c, "posted", "idle")
    /\ access_num' = [access_num EXCEPT ![c] = @ + 1]
    /\ UNCHANGED <<session, msgs, data_map, is_eof, hotwords_embedding,
                   tpass_online_handle, decoder_handle, m_lock, strand,
                   decVars, cleanVars, audioVars>>

-----------------------------------------------------------------------------
(* do_decoder, run by decoder thread d for a job of its connection.          *)

\* Variant: jobs posted to io_decoder_ itself, as websocket-server.cpp does.
NoStrand(c) == c \in Conns

\* A strand runs one handler at a time (asio).
StrandIdle(c) == \A d \in Decoders : dconn[d] # c

\* A decoder thread starts the first job of an idle strand.
JobStarts(d, c) ==
    /\ dpc[d] = "idle" /\ strand[c] # <<>> /\ StrandIdle(c)
    /\ dpc' = [dpc EXCEPT ![d] = "entry"]
    /\ dconn' = [dconn EXCEPT ![d] = c]
    /\ djob' = [djob EXCEPT ![d] = Head(strand[c])]
    /\ strand' = [strand EXCEPT ![c] = Tail(@)]
    /\ UNCHANGED <<ioVars, entryVars, lockVars, cleanVars, audioVars>>

\* Decoder thread d moves on in its job.
Step(d, from, to) == dpc[d] = from /\ dpc' = [dpc EXCEPT ![d] = to]

\* The rest of the job is given up, and with it the audio it still holds.
GivesUp(d) ==
    /\ lost' = [lost EXCEPT ![dconn[d]] = TRUE]
    /\ UNCHANGED <<ioVars, entryVars, lockVars, strand, dconn, djob, cleanVars,
                   samples, rcvd, fed, ends, replies>>

\* The online handle is read when the job runs, not when it is posted.
JobFindsHandle(d) ==
    /\ Step(d, "entry", "loop")
    /\ tpass_online_handle[dconn[d]] # "null"
    /\ UNCHANGED <<ioVars, entryVars, lockVars, strand, dconn, djob, cleanVars,
                   audioVars>>

\* Variant: the return without the count.
JobLeavesUncounted(d) ==
    /\ Step(d, "entry", "idle")
    /\ tpass_online_handle[dconn[d]] = "null"
    /\ dconn' = [dconn EXCEPT ![d] = "none"]
    /\ djob' = [djob EXCEPT ![d] = NoJob]
    /\ UNCHANGED <<ioVars, entryVars, lockVars, strand, cleanVars, audioVars>>

\* Without a handle the job returns at once.
JobFindsNoHandle(d) ==
    /\ Step(d, "entry", "finish")
    /\ tpass_online_handle[dconn[d]] = "null"
    /\ GivesUp(d)

\* The loop condition and the test for the final call read is_eof unlocked.
WholeSetp(d) == djob[d].from + Setp <= djob[d].to

\* Variant: a final job without a rest would not get its final call.
NothingLeftIfEmpty(d) ==
    ~WholeSetp(d) /\ (djob[d].final => djob[d].from = djob[d].to)

\* Neither the loop nor the final call has anything to do for the job.
NothingLeft(d) == ~WholeSetp(d) /\ ~djob[d].final

InferStarts(d) ==
    /\ Step(d, "loop", "infer")
    /\ WholeSetp(d) /\ ~is_eof[dconn[d]]
    /\ UNCHANGED <<ioVars, entryVars, lockVars, strand, dconn, djob, cleanVars,
                   audioVars>>

FinalStarts(d) ==
    /\ Step(d, "loop", "final")
    /\ ~WholeSetp(d) /\ djob[d].final /\ ~is_eof[dconn[d]]
    /\ UNCHANGED <<ioVars, entryVars, lockVars, strand, dconn, djob, cleanVars,
                   audioVars>>

\* The job is done, or the connection ended and the rest of it is skipped.
LoopEnds(d) ==
    /\ Step(d, "loop", "finish")
    /\ is_eof[dconn[d]] \/ NothingLeft(d)
    /\ UNCHANGED <<ioVars, entryVars, lockVars, strand, dconn, djob, cleanVars,
                   audioVars>>

\* FunTpassInferBuffer returns: the recogniser has the job's audio up to a
\* position.
Feeds(d, upTo) ==
    /\ fed' = [fed EXCEPT ![dconn[d]] = upTo]
    /\ djob' = [djob EXCEPT ![d].from = upTo]
    /\ UNCHANGED <<ioVars, entryVars, lockVars, strand, dconn, cleanVars,
                   samples, rcvd, lost, ends>>

InferReturns(d) ==
    /\ Step(d, "infer", "loop")
    /\ Feeds(d, djob[d].from + Setp)
    /\ UNCHANGED replies

\* The final call takes what is left, its result is sent with is_final.
FinalReturns(d) ==
    /\ Step(d, "final", "finish")
    /\ Feeds(d, djob[d].to)
    /\ replies' = [replies EXCEPT ![dconn[d]] = @ + 1]

\* FunTpassInferBuffer throws.
InferThrows(d) ==
    /\ dpc[d] \in {"infer", "final"}
    /\ dpc' = [dpc EXCEPT ![d] = "finish"]
    /\ GivesUp(d)

\* Every way out of do_decoder takes thread_lock and counts the job off.
JobFinishes(d) ==
    /\ Step(d, "finish", "idle")
    /\ thread_lock[dconn[d]] = "free"
    /\ access_num' = [access_num EXCEPT ![dconn[d]] = @ - 1]
    /\ dconn' = [dconn EXCEPT ![d] = "none"]
    /\ djob' = [djob EXCEPT ![d] = NoJob]
    /\ UNCHANGED <<ioVars, data_map, is_eof, hotwords_embedding,
                   tpass_online_handle, decoder_handle, lockVars, strand,
                   cleanVars, audioVars>>

-----------------------------------------------------------------------------
(* check_and_clean_connection, on its own thread.                            *)

\* After its sleep the cleaner starts at data_map.begin() with an empty list.
SweepStarts ==
    /\ cpc = "sleep"
    /\ cpc' = "sweep" /\ iter' = data_map /\ to_remove' = {}
    /\ UNCHANGED <<ioVars, entryVars, lockVars, strand, decVars, hdl,
                   audioVars>>

\* One entry, without m_lock: a connection that is not open goes on the list.
SweepVisits(c) ==
    /\ cpc = "sweep" /\ c \in iter /\ session[c] # "gone"
    /\ iter' = iter \ {c}
    /\ to_remove' = IF session[c] # "open" THEN to_remove \cup {c} ELSE to_remove
    /\ UNCHANGED <<ioVars, entryVars, lockVars, strand, decVars, cpc, hdl,
                   audioVars>>

\* get_con_from_hdl throws: the entry is marked under its thread_lock.
SweepFindsGone(c) ==
    /\ cpc = "sweep" /\ c \in iter /\ session[c] = "gone"
    /\ thread_lock[c] = "free"
    /\ is_eof' = [is_eof EXCEPT ![c] = TRUE]
    /\ iter' = iter \ {c}
    /\ to_remove' = to_remove \cup {c}
    /\ UNCHANGED <<ioVars, data_map, access_num, hotwords_embedding,
                   tpass_online_handle, decoder_handle, lockVars, strand,
                   decVars, cpc, hdl, audioVars>>

SweepEnds ==
    /\ cpc = "sweep" /\ iter = {}
    /\ cpc' = "remove"
    /\ UNCHANGED <<ioVars, entryVars, lockVars, strand, decVars, iter,
                   to_remove, hdl, audioVars>>

\* The next connection of the list, under m_lock.
RemoveLocks(c) ==
    /\ cpc = "remove" /\ c \in to_remove /\ m_lock = "free"
    /\ m_lock' = "cleaner" /\ hdl' = c /\ cpc' = "locked"
    /\ to_remove' = to_remove \ {c}
    /\ UNCHANGED <<ioVars, entryVars, thread_lock, strand, decVars, iter,
                   audioVars>>

\* Variants: not waiting for the jobs, and not waiting for the end.
RemovableWhileUsed(c) == is_eof[c]
RemovableWhileServing(c) == access_num[c] = 0

\* What remove_hdl requires of an entry before it frees it.
Removable(c) == access_num[c] = 0 /\ is_eof[c]

\* Variant: a return that keeps m_lock.
KeepsMLock == m_lock' = m_lock /\ hdl' = "none" /\ cpc' = "remove"

\* The end of the scope that holds m_lock.
ReleasesMLock == m_lock' = "free" /\ hdl' = "none" /\ cpc' = "remove"

\* remove_hdl under both locks leaves an entry that is still in use.
RemoveRefuses ==
    /\ cpc = "locked" /\ thread_lock[hdl] = "free"
    /\ ~(hdl \in data_map /\ Removable(hdl))
    /\ ReleasesMLock
    /\ UNCHANGED <<ioVars, entryVars, thread_lock, strand, decVars, iter,
                   to_remove, audioVars>>

\* It gives the decoder and the online stream back ...
RemoveFrees ==
    /\ cpc = "locked" /\ thread_lock[hdl] = "free"
    /\ hdl \in data_map /\ Removable(hdl)
    /\ cpc' = "freeing"
    /\ thread_lock' = [thread_lock EXCEPT ![hdl] = "cleaner"]
    /\ decoder_handle' = [decoder_handle EXCEPT ![hdl] = "freed"]
    /\ tpass_online_handle' =
         [tpass_online_handle EXCEPT ![hdl] = IF @ = "live" THEN "freed" ELSE @]
    /\ UNCHANGED <<ioVars, data_map, is_eof, access_num, hotwords_embedding,
                   m_lock, strand, decVars, iter, to_remove, hdl, audioVars>>

\* ... then clears both pointers, erases the entry and releases the locks.
RemoveErases ==
    /\ cpc = "freeing"
    /\ data_map' = data_map \ {hdl}
    /\ decoder_handle' = [decoder_handle EXCEPT ![hdl] = "null"]
    /\ tpass_online_handle' = [tpass_online_handle EXCEPT ![hdl] = "null"]
    /\ thread_lock' = [thread_lock EXCEPT ![hdl] = "free"]
    /\ ReleasesMLock
    /\ UNCHANGED <<ioVars, is_eof, access_num, hotwords_embedding, strand,
                   decVars, iter, to_remove, audioVars>>

SweepSleeps ==
    /\ cpc = "remove" /\ to_remove = {}
    /\ cpc' = "sleep"
    /\ UNCHANGED <<ioVars, entryVars, lockVars, strand, decVars, iter,
                   to_remove, hdl, audioVars>>

-----------------------------------------------------------------------------
\* What the client and the transport may do, at their own pace.
Client(c) ==
    OnOpen(c) \/ OnOpenFails(c) \/ SessionShuts(c) \/ SessionDestroyed(c)
        \/ OnMessageIgnored(c) \/ OnMessageFinds(c)

\* What an IO thread does for connection c once it has something to do.
OnMessage(c) ==
    \/ ParseFails(c) \/ TextBegins(c) \/ HotwordsLoaded(c) \/ Counted(c)
    \/ \E chunk \in Chunks :
         \/ \E end \in BOOLEAN : TextConfigures(c, chunk, end)
         \/ TextEndsSpeech(c, chunk)
    \/ \E n \in MsgSizes : BinaryKept(c, n) \/ BinaryPosted(c, n)

OnClose(c) == OnCloseFinds(c) \/ OnCloseMissing(c) \/ OnCloseMarks(c)

Decoder(d) ==
    \/ \E c \in Conns : JobStarts(d, c)
    \/ JobFindsHandle(d) \/ JobFindsNoHandle(d)
    \/ InferStarts(d) \/ InferReturns(d) \/ InferThrows(d)
    \/ FinalStarts(d) \/ FinalReturns(d)
    \/ LoopEnds(d) \/ JobFinishes(d)

Cleaner ==
    \/ SweepStarts \/ SweepEnds \/ SweepSleeps
    \/ \E c \in Conns : (SweepVisits(c) \/ SweepFindsGone(c) \/ RemoveLocks(c))
    \/ RemoveRefuses \/ RemoveFrees \/ RemoveErases

Next ==
    \/ \E c \in Conns : Client(c) \/ OnMessage(c) \/ OnClose(c)
    \/ \E d \in Decoders : Decoder(d)
    \/ Cleaner

Spec == Init /\ [][Next]_vars

\* Threads keep running.  A step that waits for a mutex may find it taken again
\* and again: strong fairness says no waiter is passed over forever.
Fairness ==
    /\ \A c \in Conns : WF_vars(OnMessage(c)) /\ SF_vars(OnClose(c))
    /\ \A d \in Decoders : SF_vars(Decoder(d))
    /\ SF_vars(Cleaner)

FairSpec == Spec /\ Fairness

-----------------------------------------------------------------------------
(* Properties.                                                               *)

\* The type of every variable: what each holds in the code, with the handles
\* reduced to null, live or freed.
TypeIo ==
    /\ session \in [Conns -> {"none", "open", "shut", "closed", "gone"}]
    /\ io \in [Conns -> {"idle", "message", "load", "config", "posted", "closing"}]
    /\ msgs \in [Conns -> Nat]

TypeEntry ==
    /\ data_map \subseteq Conns
    /\ is_eof \in [Conns -> BOOLEAN]
    /\ access_num \in [Conns -> Nat]
    /\ hotwords_embedding \in [Conns -> BOOLEAN]
    /\ tpass_online_handle \in [Conns -> {"null", "live", "freed"}]
    /\ decoder_handle \in [Conns -> {"null", "live", "freed"}]

TypeLocks ==
    /\ m_lock \in {"free", "close", "cleaner"}
    /\ thread_lock \in [Conns -> {"free", "io", "cleaner"}]

TypeJobs ==
    /\ strand \in [Conns -> Seq(Job)]
    /\ dpc \in [Decoders -> {"idle", "entry", "loop", "infer", "final", "finish"}]
    /\ dconn \in [Decoders -> Conns \cup {"none"}]
    /\ djob \in [Decoders -> Job]

TypeCleaner ==
    /\ cpc \in {"sleep", "sweep", "remove", "locked", "freeing"}
    /\ iter \subseteq Conns
    /\ to_remove \subseteq Conns
    /\ hdl \in Conns \cup {"none"}

TypeAudio ==
    /\ samples \in [Conns -> Nat]
    /\ rcvd \in [Conns -> Nat]
    /\ fed \in [Conns -> Nat]
    /\ lost \in [Conns -> BOOLEAN]
    /\ ends \in [Conns -> Nat]
    /\ replies \in [Conns -> Nat]

TypeOK ==
    TypeIo /\ TypeEntry /\ TypeLocks /\ TypeJobs /\ TypeCleaner /\ TypeAudio

\* Jobs of c that hold references into its entry: queued and running.
Running(c) == \E d \in Decoders : dconn[d] = c
Outstanding(c) == Len(strand[c]) + IF Running(c) THEN 1 ELSE 0

\* access_num counts the jobs exactly, except between the post of a job and
\* its counting, when the handler still holds thread_lock.
AccessCounts ==
    \A c \in Conns :
        access_num[c] + (IF io[c] = "posted" THEN 1 ELSE 0) = Outstanding(c)

\* As long as a job is queued or running, the entry it refers to is in data_map
\* and neither its decoder nor its online stream has been freed: do_decoder
\* never works on what remove_hdl released, whatever closes meanwhile.
JobsKeepEntry ==
    \A c \in Conns : Outstanding(c) > 0 =>
        /\ c \in data_map
        /\ decoder_handle[c] = "live"
        /\ tpass_online_handle[c] # "freed"

\* A strand never has two of its jobs running; an idle thread has no connection.
StrandExclusive ==
    /\ \A d \in Decoders : dpc[d] = "idle" <=> dconn[d] = "none"
    /\ \A d, e \in Decoders : dconn[d] = dconn[e] /\ dconn[d] # "none" => d = e

\* Who holds a lock stands in the code that holds it.
Locks ==
    /\ m_lock = "cleaner" <=> cpc \in {"locked", "freeing"}
    /\ cpc \in {"locked", "freeing"} => hdl \in Conns
    /\ \A c \in Conns :
         /\ io[c] = "closing" => m_lock = "close"
         /\ thread_lock[c] = "io" <=> io[c] \in {"load", "config", "posted"}
         /\ thread_lock[c] = "cleaner" <=> cpc = "freeing" /\ hdl = c
    /\ \A c, b \in Conns : io[c] = "closing" /\ io[b] = "closing" => c = b

\* A handler that found its entry keeps it to its end: the session is still
\* open and has not ended, which is what makes the gap between m_lock and
\* thread_lock in on_message harmless.
HandlersKeepEntry ==
    \A c \in Conns :
        /\ io[c] \in {"message", "load", "config", "posted"} =>
               session[c] = "open" /\ c \in data_map /\ ~is_eof[c]
        /\ io[c] = "closing" => session[c] = "shut" /\ c \in data_map

\* What an entry owns, and when a connection has none.
Entries ==
    \A c \in Conns :
        /\ session[c] = "none" => c \notin data_map /\ ~is_eof[c]
        /\ c \notin data_map =>
             Outstanding(c) = 0 /\ tpass_online_handle[c] = "null"
        /\ c \in data_map =>
             IF cpc = "freeing" /\ hdl = c
             THEN is_eof[c] /\ access_num[c] = 0
             ELSE decoder_handle[c] = "live" /\ tpass_online_handle[c] # "freed"

\* Before the hotwords are loaded no job exists; samples is a suffix of rcvd.
Loading ==
    \A c \in Conns :
        /\ io[c] = "load" => ~hotwords_embedding[c]
        /\ ~hotwords_embedding[c] => Outstanding(c) = 0 /\ io[c] # "posted"
        /\ samples[c] <= rcvd[c]

\* What the cleaner looks at was opened, what it collected is no longer open.
Collected ==
    /\ \A c \in iter : session[c] # "none"
    /\ \A c \in to_remove : session[c] \notin {"none", "open"}
    /\ cpc \in {"locked", "freeing"} => session[hdl] \notin {"none", "open"}

\* The inductive invariant.
IndInv ==
    /\ TypeOK /\ StrandExclusive /\ AccessCounts /\ Locks
    /\ HandlersKeepEntry /\ Entries /\ Loading /\ Collected

\* The hotword graph is put into decoder_handle without any lock that do_decoder
\* takes: it must happen when no job of the connection exists.
NoJobWhileLoading ==
    \A c \in Conns : io[c] = "load" => Outstanding(c) = 0

\* Unless audio was given up or the connection ended, the positions from what
\* the recogniser was given, through the running job and every queued job, to
\* samples and the last byte received meet without a gap or an overlap: however
\* the client slices its audio, each byte reaches the recogniser exactly once.
NothingSkipped ==
    \A c \in Conns : ~lost[c] /\ ~is_eof[c] =>
        LET n == Len(strand[c])
            begins(i) == IF i > n THEN rcvd[c] - samples[c] ELSE strand[c][i].from
        IN  /\ \A d \in Decoders : dconn[d] = c =>
                   djob[d].from = fed[c] /\ djob[d].to = begins(1)
            /\ ~Running(c) => fed[c] = begins(1)
            /\ \A i \in 1..n : strand[c][i].to = begins(i + 1)

\* A connection for which nothing was given up and that has not ended still owes
\* one final reply for each final job in flight: none is sent twice, none is
\* forgotten.
RepliesOwed ==
    \A c \in Conns : ~lost[c] /\ ~is_eof[c] =>
        ends[c] = replies[c]
          + Cardinality({i \in 1..Len(strand[c]) : strand[c][i].final})
          + Cardinality({d \in Decoders : dconn[d] = c /\ djob[d].final
                                            /\ dpc[d] # "finish"})

\* The recogniser is given the audio of a connection in the order of arrival,
\* even where some of it is lost: a later block never overtakes an earlier one.
FedInOrder == [][\A c \in Conns : fed'[c] >= fed[c]]_vars

\* An entry leaves data_map only when its session is over, no job refers to it
\* and no handler is between its lookup and its end.
RemovedWhenUnused ==
    [][\A c \in data_map \ data_map' :
          session[c] # "open" /\ Outstanding(c) = 0
            /\ io[c] = "idle"]_vars

\* A closed connection's entry, and with it the decoder and the online stream,
\* is eventually removed, whatever was queued when it closed.
ClosedIsRemoved ==
    \A c \in Conns : session[c] = "closed" ~> c \notin data_map

\* An end of speech that was posted is eventually answered by a final reply,
\* unless the connection ends or the recogniser gives its audio up.
EndIsAnswered ==
    \A c \in Conns : replies[c] < ends[c] ~> (replies[c] = ends[c] \/ is_eof[c] \/ lost[c])

\* A handler that has begun, or that is due because the session is over, ends:
\* no IO thread waits for m_lock or a thread_lock forever.
HandlersEnd ==
    \A c \in Conns :
        (session[c] = "shut" \/ io[c] # "idle")
            ~> (session[c] # "shut" /\ io[c] = "idle")

\* websocket-server-2pass.h calls m_lock the mutex of the map.  Were every
\* access to data_map under it, no entry would come or go while the cleaner's
\* iterator is between begin() and end().
SweepUndisturbed == [][cpc = "sweep" => data_map' = data_map]_vars

-----------------------------------------------------------------------------
\* What the server promises about the entries of data_map: SessionLease, with a
\* lease for every job that is queued or running.
Phase(c) ==
    CASE session[c] = "none" -> "absent"
      [] session[c] # "none" /\ c \notin data_map -> "over"
      [] session[c] # "none" /\ c \in data_map /\ is_eof[c] -> "draining"
      [] session[c] # "none" /\ c \in data_map /\ ~is_eof[c] -> "serving"

Lease == INSTANCE SessionLease
            WITH phase  <- [c \in Conns |-> Phase(c)],
                 leases <- [c \in Conns |-> Outstanding(c)]

\* The server implements the lease specification: jobs are accepted only while
\* a session serves, an entry is freed only when it drains and no job holds it.
LeaseSafety == Lease!Spec
=============================================================================
