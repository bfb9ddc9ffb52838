------------------------------ MODULE OfflineServer -----------------------------
(***************************************************************************)
(* The offline websocket server, src/websocket/bin/websocket-server.cpp,    *)
(* with the decoder threads of funasr-wss-server.cpp.  It is built like the *)
(* 2-pass server (TpassServer), with three differences that matter: a       *)
(* connection collects all its audio and posts it as one job at each end of *)
(* speech; jobs go to io_decoder_ itself, so that two jobs of a connection  *)
(* may run at once; and all of them use one vad_handle, whose options each  *)
(* job sets before it cuts its audio.                                       *)
(***************************************************************************)
EXTENDS Naturals, Sequences, FiniteSets

CONSTANTS
    Conns,      \* connection handles; each is opened at most once
    Decoders,   \* the decoder threads
    Options,    \* vad_tail_sil and vad_max_len as clients may set them
    Default,    \* what on_open puts in their place
    MaxMsgs     \* bound: messages a connection may send

ASSUME HandleAssumption == "none" \notin Conns
ASSUME DecoderAssumption == IsFiniteSet(Decoders)
ASSUME OptionAssumption == Default \in Options

VARIABLES
    session,    \* what websocketpp knows of the connection (external)
    io, msgs,   \* where its handler stands; messages so far
    data_map,   \* the connections with an entry
    data_msg,   \* their FUNASR_MESSAGE
    m_lock, thread_lock,
    io_decoder, \* the jobs that no thread has taken yet
    dpc, djob,  \* each decoder thread: step and job
    vad_opts,   \* the options of the one vad_handle
    cut_opts,   \* those a thread's FsmnVadOnline was made with
    cpc, iter, to_remove, hdl, \* the cleaner
    ends,       \* ends of speech taken
    replies     \* replies sent

ioVars    == <<session, io, msgs>>
mapVars   == <<data_map, data_msg>>
lockVars  == <<m_lock, thread_lock>>
jobVars   == <<io_decoder, dpc, djob, vad_opts, cut_opts>>
cleanVars == <<cpc, iter, to_remove, hdl>>
replyVars == <<ends, replies>>
vars == <<ioVars, mapVars, lockVars, jobVars, cleanVars, replyVars>>

\* What on_open puts into a FUNASR_MESSAGE; audio: samples is not empty.
NewMessage == [is_eof |-> FALSE, access_num |-> 0, hotwords |-> FALSE,
               opts |-> Default, audio |-> FALSE]

NoJob == [conn |-> "none", opts |-> Default, audio |-> FALSE]

Init ==
    /\ session = [c \in Conns |-> "none"] /\ io = [c \in Conns |-> "idle"]
    /\ msgs = [c \in Conns |-> 0]
    /\ data_map = {} /\ data_msg = [c \in Conns |-> NewMessage]
    /\ m_lock = "free" /\ thread_lock = [c \in Conns |-> "free"]
    /\ io_decoder = <<>>
    /\ dpc = [d \in Decoders |-> "idle"] /\ djob = [d \in Decoders |-> NoJob]
    /\ vad_opts = Default /\ cut_opts = [d \in Decoders |-> Default]
    /\ cpc = "sleep" /\ iter = {} /\ to_remove = {} /\ hdl = "none"
    /\ ends = [c \in Conns |-> 0] /\ replies = [c \in Conns |-> 0]

-----------------------------------------------------------------------------
(* on_open, on_close and the session around them.                            *)

\* The cleaner may be walking data_map: the new entry may be ahead of it.
OnOpen(c) ==
    /\ session[c] = "none" /\ m_lock = "free"
    /\ session' = [session EXCEPT ![c] = "open"]
    /\ data_map' = data_map \cup {c}
    /\ \/ iter' = iter
       \/ cpc = "sweep" /\ iter' = iter \cup {c}
    /\ UNCHANGED <<io, msgs, data_msg, lockVars, jobVars, cpc, to_remove, hdl, replyVars>>

\* External: the session is shut, and after its close handler it may be destroyed.
SessionShuts(c) ==
    /\ \/ session[c] = "open" /\ io[c] = "idle" /\ session' = [session EXCEPT ![c] = "shut"]
       \/ session[c] = "closed" /\ session' = [session EXCEPT ![c] = "gone"]
    /\ UNCHANGED <<io, msgs, mapVars, lockVars, jobVars, cleanVars, replyVars>>

OnCloseFinds(c) ==
    /\ session[c] = "shut" /\ io[c] = "idle" /\ m_lock = "free" /\ c \in data_map
    /\ io' = [io EXCEPT ![c] = "closing"] /\ m_lock' = "close"
    /\ UNCHANGED <<session, msgs, mapVars, thread_lock, jobVars, cleanVars, replyVars>>

OnCloseMissing(c) ==
    /\ session[c] = "shut" /\ io[c] = "idle" /\ m_lock = "free" /\ c \notin data_map
    /\ session' = [session EXCEPT ![c] = "closed"]
    /\ UNCHANGED <<io, msgs, mapVars, lockVars, jobVars, cleanVars, replyVars>>

OnCloseMarks(c) ==
    /\ io[c] = "closing" /\ thread_lock[c] = "free"
    /\ data_msg' = [data_msg EXCEPT ![c].is_eof = TRUE]
    /\ io' = [io EXCEPT ![c] = "idle"] /\ session' = [session EXCEPT ![c] = "closed"]
    /\ m_lock' = "free"
    /\ UNCHANGED <<msgs, data_map, thread_lock, jobVars, cleanVars, replyVars>>

-----------------------------------------------------------------------------
(* on_message: m_lock for the lookup, then the thread_lock.                  *)

Delivered(c) ==
    /\ session[c] = "open" /\ io[c] = "idle" /\ m_lock = "free"
    /\ msgs[c] < MaxMsgs /\ msgs' = [msgs EXCEPT ![c] = @ + 1]
    /\ io' = [io EXCEPT ![c] = IF c \in data_map /\ ~data_msg[c].is_eof
                               THEN "message" ELSE "idle"]
    /\ UNCHANGED <<session, mapVars, lockVars, jobVars, cleanVars, replyVars>>

Handler(c, from, to) ==
    /\ io[c] = from
    /\ from = "message" => thread_lock[c] = "free"
    /\ io' = [io EXCEPT ![c] = to]
    /\ thread_lock' = [thread_lock EXCEPT ![c] = IF to = "idle" THEN "free" ELSE "io"]
    /\ UNCHANGED <<session, msgs, data_map, m_lock, dpc, djob, vad_opts, cut_opts,
                   cleanVars, replies>>

\* A text message that is not JSON ends the connection's service.
ParseFails(c) ==
    /\ Handler(c, "message", "idle")
    /\ data_msg' = [data_msg EXCEPT ![c].is_eof = TRUE]
    /\ UNCHANGED <<io_decoder, ends>>

\* A text message; the first one loads hotwords into the decoder.
TextBegins(c) ==
    /\ Handler(c, "message", IF data_msg[c].hotwords THEN "config" ELSE "load")
    /\ UNCHANGED <<data_msg, io_decoder, ends>>

HotwordsLoaded(c) ==
    /\ Handler(c, "load", "config")
    /\ data_msg' = [data_msg EXCEPT ![c].hotwords = TRUE]
    /\ UNCHANGED <<io_decoder, ends>>

\* Its options count from here on.
TextConfigures(c, o) ==
    /\ Handler(c, "config", "idle")
    /\ data_msg' = [data_msg EXCEPT ![c].opts = o]
    /\ UNCHANGED <<io_decoder, ends>>

\* An end of speech moves all of samples into a job, with the options of now.
TextEndsSpeech(c, o) ==
    /\ Handler(c, "config", "posted")
    /\ ~data_msg[c].is_eof /\ data_msg[c].hotwords
    /\ data_msg' = [data_msg EXCEPT ![c].opts = o, ![c].audio = FALSE]
    /\ io_decoder' = Append(io_decoder, [conn |-> c, opts |-> o, audio |-> data_msg[c].audio])
    /\ ends' = [ends EXCEPT ![c] = @ + 1]

\* Variant: a flag in place of the count.
CountedOnce(c) ==
    /\ Handler(c, "posted", "idle")
    /\ data_msg' = [data_msg EXCEPT ![c].access_num = 1]
    /\ UNCHANGED <<io_decoder, ends>>

\* access_num counts the job only after it was posted.
Counted(c) ==
    /\ Handler(c, "posted", "idle")
    /\ data_msg' = [data_msg EXCEPT ![c].access_num = @ + 1]
    /\ UNCHANGED <<io_decoder, ends>>

Binary(c) ==
    /\ Handler(c, "message", "idle")
    /\ data_msg' = [data_msg EXCEPT ![c].audio = TRUE]
    /\ UNCHANGED <<io_decoder, ends>>

-----------------------------------------------------------------------------
(* do_decoder on thread d, with the part of FunOfflineInferBuffer that uses  *)
(* the vad_handle of all connections.                                        *)

\* Any idle thread takes the next job; nothing keeps a connection's jobs apart.
JobStarts(d) ==
    /\ dpc[d] = "idle" /\ io_decoder # <<>>
    /\ dpc' = [dpc EXCEPT ![d] = "entry"]
    /\ djob' = [djob EXCEPT ![d] = Head(io_decoder)]
    /\ io_decoder' = Tail(io_decoder)
    /\ UNCHANGED <<ioVars, mapVars, lockVars, vad_opts, cut_opts, cleanVars, replyVars>>

Step(d, from, to) ==
    /\ dpc[d] = from /\ dpc' = [dpc EXCEPT ![d] = to]
    /\ UNCHANGED <<ioVars, data_map, m_lock, thread_lock, io_decoder, cleanVars, ends>>

Answers(d, n) ==
    /\ replies' = [replies EXCEPT ![djob[d].conn] = @ + n]
    /\ UNCHANGED <<data_msg, djob, vad_opts, cut_opts>>

\* Variant: no reply where there was no audio.
EmptyJobSilent(d) == ~djob[d].audio /\ Step(d, "entry", "finish") /\ Answers(d, 0)

\* A job without audio is answered with an empty text.
EmptyJobReplies(d) == ~djob[d].audio /\ Step(d, "entry", "finish") /\ Answers(d, 1)

\* SetConfig on the one vad_handle, then the audio is decoded from its format.
SetsConfig(d) ==
    /\ djob[d].audio /\ Step(d, "entry", "load")
    /\ vad_opts' = djob[d].opts
    /\ UNCHANGED <<data_msg, djob, cut_opts, replies>>

\* The audio cannot be read: a null result is answered like an empty one.
LoadFails(d) == Step(d, "load", "finish") /\ Answers(d, 1)

\* CutSplit makes its FsmnVadOnline from the vad_handle as it is now.
CutSplit(d) ==
    /\ Step(d, "load", "decode")
    /\ cut_opts' = [cut_opts EXCEPT ![d] = vad_opts]
    /\ UNCHANGED <<data_msg, djob, vad_opts, replies>>

\* The result, or what is there of it when the recogniser throws, is sent:
\* one reply, whose is_final is false.
Replies(d) == Step(d, "decode", "finish") /\ Answers(d, 1)

\* Variant: the count is left as it is.
NotCountedOff(m) == m

CountedOff(m) == [m EXCEPT !.access_num = @ - 1]

\* Every job is counted off under thread_lock.
JobFinishes(d) ==
    /\ dpc[d] = "finish" /\ thread_lock[djob[d].conn] = "free"
    /\ dpc' = [dpc EXCEPT ![d] = "idle"]
    /\ djob' = [djob EXCEPT ![d] = NoJob]
    /\ data_msg' = [data_msg EXCEPT ![djob[d].conn] = CountedOff(@)]
    /\ UNCHANGED <<ioVars, data_map, lockVars, io_decoder, vad_opts, cut_opts,
                   cleanVars, replyVars>>

-----------------------------------------------------------------------------
(* check_and_clean_connection.                                               *)

SweepStarts ==
    /\ cpc = "sleep" /\ cpc' = "sweep" /\ iter' = data_map /\ to_remove' = {}
    /\ UNCHANGED <<ioVars, mapVars, lockVars, jobVars, hdl, replyVars>>

\* One entry, without m_lock: a session that is not open goes on the list, one
\* that is destroyed is marked first, under its thread_lock.
SweepVisits(c) ==
    /\ cpc = "sweep" /\ c \in iter
    /\ session[c] = "gone" => thread_lock[c] = "free"
    /\ data_msg' = [data_msg EXCEPT ![c].is_eof = @ \/ session[c] = "gone"]
    /\ iter' = iter \ {c}
    /\ to_remove' = IF session[c] # "open" THEN to_remove \cup {c} ELSE to_remove
    /\ UNCHANGED <<ioVars, data_map, lockVars, jobVars, cpc, hdl, replyVars>>

SweepEnds ==
    /\ cpc = "sweep" /\ iter = {} /\ cpc' = "remove"
    /\ UNCHANGED <<ioVars, mapVars, lockVars, jobVars, iter, to_remove, hdl, replyVars>>

RemoveLocks(c) ==
    /\ cpc = "remove" /\ c \in to_remove /\ m_lock = "free"
    /\ m_lock' = "cleaner" /\ hdl' = c /\ cpc' = "locked"
    /\ to_remove' = to_remove \ {c}
    /\ UNCHANGED <<ioVars, mapVars, thread_lock, jobVars, iter, replyVars>>

Removable(m) == m.is_eof /\ m.access_num = 0

\* remove_hdl under both locks: the decoder is unloaded and the entry erased,
\* or it is left for a later sweep.
Remove ==
    /\ cpc = "locked" /\ thread_lock[hdl] = "free"
    /\ data_map' = IF Removable(data_msg[hdl]) THEN data_map \ {hdl} ELSE data_map
    /\ m_lock' = "free" /\ hdl' = "none" /\ cpc' = "remove"
    /\ UNCHANGED <<ioVars, data_msg, thread_lock, jobVars, iter, to_remove, replyVars>>

SweepSleeps ==
    /\ cpc = "remove" /\ to_remove = {} /\ cpc' = "sleep"
    /\ UNCHANGED <<ioVars, mapVars, lockVars, jobVars, iter, to_remove, hdl, replyVars>>

-----------------------------------------------------------------------------
Client(c) == OnOpen(c) \/ SessionShuts(c) \/ Delivered(c)

OnMessage(c) ==
    \/ ParseFails(c) \/ TextBegins(c) \/ HotwordsLoaded(c)
    \/ \E o \in Options : TextConfigures(c, o) \/ TextEndsSpeech(c, o)
    \/ Counted(c) \/ Binary(c)

OnClose(c) == OnCloseFinds(c) \/ OnCloseMissing(c) \/ OnCloseMarks(c)

Decoder(d) ==
    \/ JobStarts(d) \/ EmptyJobReplies(d) \/ SetsConfig(d) \/ LoadFails(d)
    \/ CutSplit(d) \/ Replies(d) \/ JobFinishes(d)

Cleaner ==
    \/ SweepStarts \/ SweepEnds \/ Remove \/ SweepSleeps
    \/ \E c \in Conns : SweepVisits(c) \/ RemoveLocks(c)

Next ==
    \/ \E c \in Conns : Client(c) \/ OnMessage(c) \/ OnClose(c)
    \/ \E d \in Decoders : Decoder(d)
    \/ Cleaner

Spec == Init /\ [][Next]_vars

\* Threads run on, and no waiter for a mutex is passed over forever.
Fairness ==
    /\ \A c \in Conns : WF_vars(OnMessage(c)) /\ SF_vars(OnClose(c))
    /\ \A d \in Decoders : SF_vars(Decoder(d))
    /\ SF_vars(Cleaner)

FairSpec == Spec /\ Fairness

-----------------------------------------------------------------------------
(* Properties.                                                               *)

Message == [is_eof : BOOLEAN, access_num : Nat, hotwords : BOOLEAN,
            opts : Options, audio : BOOLEAN]

Job == [conn : Conns \cup {"none"}, opts : Options, audio : BOOLEAN]

\* The type of every variable.
TypeOK ==
    /\ session \in [Conns -> {"none", "open", "shut", "closed", "gone"}]
    /\ io \in [Conns -> {"idle", "message", "load", "config", "posted", "closing"}]
    /\ msgs \in [Conns -> Nat]
    /\ data_map \subseteq Conns /\ data_msg \in [Conns -> Message]
    /\ m_lock \in {"free", "close", "cleaner"}
    /\ thread_lock \in [Conns -> {"free", "io"}]
    /\ io_decoder \in Seq(Job)
    /\ dpc \in [Decoders -> {"idle", "entry", "load", "decode", "finish"}]
    /\ djob \in [Decoders -> Job]
    /\ vad_opts \in Options /\ cut_opts \in [Decoders -> Options]
    /\ cpc \in {"sleep", "sweep", "remove", "locked"}
    /\ iter \subseteq Conns /\ to_remove \subseteq Conns
    /\ hdl \in Conns \cup {"none"}
    /\ ends \in [Conns -> Nat] /\ replies \in [Conns -> Nat]

\* The jobs of c that are queued, and the threads that run one.
Queued(c) == {i \in DOMAIN io_decoder : io_decoder[i].conn = c}
Running(c) == {d \in Decoders : djob[d].conn = c}
Outstanding(c) == Cardinality(Queued(c)) + Cardinality(Running(c))

\* do_decoder is bound to references into the FUNASR_MESSAGE (msg, thread_lock,
\* decoder_handle): as long as one of its jobs is queued or runs, on however
\* many threads, remove_hdl leaves the entry alone.
JobsKeepEntry == \A c \in Conns : Outstanding(c) > 0 => c \in data_map

\* Each end of speech gets one reply, even if the client closes, another job of
\* the connection overtakes it, the audio cannot be read or there is none.
RepliesOwed ==
    \A c \in Conns :
        ends[c] = replies[c] + Cardinality(Queued(c))
                    + Cardinality({d \in Running(c) : dpc[d] # "finish"})

\* The entry of a closed connection is removed in the end, whatever it left behind.
ClosedIsRemoved == \A c \in Conns : session[c] = "closed" ~> c \notin data_map

\* README.md says of vad_tail_sil and vad_max_len, as of the other options of a
\* client, that they set how the audio it sends is cut: a job must be cut with
\* the options it was posted with.
OptionsOwn == \A d \in Decoders : dpc[d] = "decode" => cut_opts[d] = djob[d].opts

Phase(c) ==
    CASE session[c] = "none" -> "absent"
      [] session[c] # "none" /\ c \notin data_map -> "over"
      [] session[c] # "none" /\ c \in data_map /\ data_msg[c].is_eof -> "draining"
      [] session[c] # "none" /\ c \in data_map /\ ~data_msg[c].is_eof -> "serving"

\* The offline server keeps the promise of SessionLease too, though its jobs run
\* side by side: jobs are accepted while the session serves, and the entry goes
\* when it drains and no job is left.
Lease == INSTANCE SessionLease
            WITH phase  <- [c \in Conns |-> Phase(c)],
                 leases <- [c \in Conns |-> Outstanding(c)]

LeaseSafety == Lease!Spec
=============================================================================
