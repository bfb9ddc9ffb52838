------------------------- MODULE OfflineServer_proofs --------------------------
(***************************************************************************)
(* Proofs about OfflineServer, for any number of connections, decoder       *)
(* threads and options: its count of jobs is exact although the jobs of a   *)
(* connection run side by side, and so its entries outlive their jobs.      *)
(***************************************************************************)
EXTENDS OfflineServer, FiniteSetTheorems, TLAPS

-----------------------------------------------------------------------------
(* The inductive invariant.                                                  *)

\* Every job is one of a connection; a thread holds one while it is not idle.
JobsNamed ==
    /\ \A i \in DOMAIN io_decoder : io_decoder[i].conn # "none"
    /\ \A d \in Decoders : dpc[d] = "idle" <=> djob[d].conn = "none"

\* access_num is the number of jobs but for the one that is about to be counted.
Counts ==
    \A c \in Conns :
        data_msg[c].access_num + (IF io[c] = "posted" THEN 1 ELSE 0) = Outstanding(c)

\* A handler that found an entry keeps it; past the lookup it holds the lock.  Before
\* on_open there is none, and nothing is written to the entry.
Handlers ==
    \A c \in Conns :
        /\ session[c] = "none" => io[c] = "idle" /\ ~data_msg[c].is_eof
        /\ io[c] \in {"message", "load", "config", "posted"} =>
              session[c] = "open" /\ c \in data_map
        /\ thread_lock[c] = "io" <=> io[c] \in {"load", "config", "posted"}

\* What the cleaner collected was no longer open, and what it walks was opened.
Collected ==
    /\ \A c \in to_remove \cup {hdl} : c \in Conns => session[c] \notin {"none", "open"}
    /\ \A c \in iter \cup data_map : session[c] # "none"
    /\ cpc = "locked" => hdl \in Conns

IndInv ==
    TypeOK /\ JobsNamed /\ Counts /\ Handlers /\ Collected /\ JobsKeepEntry /\ RepliesOwed

-----------------------------------------------------------------------------
(* Counting jobs.                                                            *)

\* The jobs of b in a queue, and the threads that still owe a reply to b.
Of(q, b) == {i \in DOMAIN q : q[i].conn = b}
Owing(b) == {d \in Running(b) : dpc[d] # "finish"}

LEMMA OfFinite ==
    ASSUME NEW q \in Seq(Job), NEW b
    PROVE  IsFiniteSet(Of(q, b)) /\ Cardinality(Of(q, b)) \in Nat
<1>1. Of(q, b) \in SUBSET (1..Len(q))
  BY DEF Of
<1>2. IsFiniteSet(1..Len(q))
  BY FS_Interval
<1> QED
  BY <1>1, <1>2, FS_Subset, FS_CardinalityType

LEMMA ThreadsFinite ==
    ASSUME NEW b
    PROVE  /\ IsFiniteSet(Running(b)) /\ Cardinality(Running(b)) \in Nat
           /\ IsFiniteSet(Owing(b)) /\ Cardinality(Owing(b)) \in Nat
<1>1. Running(b) \in SUBSET Decoders /\ Owing(b) \in SUBSET Decoders
  BY DEF Running, Owing
<1> QED
  BY <1>1, DecoderAssumption, FS_Subset, FS_CardinalityType

\* A job more in the queue.
LEMMA AppendCounts ==
    ASSUME NEW q \in Seq(Job), NEW j \in Job, NEW b
    PROVE  Cardinality(Of(Append(q, j), b)) =
              Cardinality(Of(q, b)) + (IF j.conn = b THEN 1 ELSE 0)
<1>1. /\ DOMAIN Append(q, j) = 1..Len(q) + 1 /\ DOMAIN q = 1..Len(q) /\ Len(q) \in Nat
      /\ \A i \in 1..Len(q) : Append(q, j)[i] = q[i]
      /\ Append(q, j)[Len(q) + 1] = j
  OBVIOUS
<1>2. IsFiniteSet(Of(q, b)) /\ Cardinality(Of(q, b)) \in Nat
  BY OfFinite
<1>3. CASE j.conn = b
  <2>1. Of(Append(q, j), b) = Of(q, b) \cup {Len(q) + 1}
    BY <1>1, <1>3 DEF Of
  <2>2. Len(q) + 1 \notin Of(q, b)
    BY <1>1 DEF Of
  <2> QED
    BY <1>2, <1>3, <2>1, <2>2, FS_AddElement
<1>4. CASE j.conn # b
  <2>1. Of(Append(q, j), b) = Of(q, b)
    BY <1>1, <1>4 DEF Of
  <2> QED
    BY <1>2, <1>4, <2>1
<1> QED
  BY <1>3, <1>4

\* A job less at its head.
LEMMA TailCounts ==
    ASSUME NEW q \in Seq(Job), q # <<>>, NEW b
    PROVE  Cardinality(Of(q, b)) =
              Cardinality(Of(Tail(q), b)) + (IF Head(q).conn = b THEN 1 ELSE 0)
<1>1. /\ Len(q) \in Nat /\ Len(q) >= 1 /\ Tail(q) \in Seq(Job)
      /\ DOMAIN q = 1..Len(q) /\ DOMAIN Tail(q) = 1..Len(q) - 1
      /\ \A i \in 1..Len(q) - 1 : Tail(q)[i] = q[i + 1]
      /\ Head(q) = q[1]
  OBVIOUS
<1> DEFINE A == Of(q, b) \ {1}
           B == Of(Tail(q), b)
           f == [i \in B |-> i + 1]
<1>2. IsFiniteSet(B) /\ Cardinality(B) \in Nat
  BY <1>1, OfFinite
<1>3. f \in [B -> A]
  BY <1>1 DEF Of
<1>4. \A i, j \in B : f[i] = f[j] => i = j
  BY <1>1 DEF Of
<1>5. \A a \in A : \E i \in B : f[i] = a
  <2> SUFFICES ASSUME NEW a \in A PROVE \E i \in B : f[i] = a
    OBVIOUS
  <2>1. a - 1 \in B
    BY <1>1 DEF Of
  <2>2. f[a - 1] = a
    BY <2>1, <1>1 DEF Of
  <2> QED
    BY <2>1, <2>2
<1>6. f \in Bijection(B, A)
  <2> HIDE DEF f, A, B
  <2> QED
    BY <1>3, <1>4, <1>5 DEF Bijection, Injection, Surjection, IsInjective
<1>7. IsFiniteSet(A) /\ Cardinality(A) = Cardinality(B)
  <2> HIDE DEF f, A, B
  <2>1. ExistsBijection(B, A)
    BY <1>6 DEF ExistsBijection
  <2> QED
    BY <1>2, <2>1, FS_Bijection
<1>8. IsFiniteSet(Of(q, b)) /\ Cardinality(Of(q, b)) \in Nat
  BY OfFinite
<1>9. 1 \in Of(q, b) <=> Head(q).conn = b
  BY <1>1 DEF Of
<1>10. Cardinality(A) = IF 1 \in Of(q, b) THEN Cardinality(Of(q, b)) - 1
                                          ELSE Cardinality(Of(q, b))
  BY <1>8, FS_RemoveElement
<1> HIDE DEF A, B
<1>11. CASE Head(q).conn = b
  BY <1>2, <1>7, <1>8, <1>9, <1>10, <1>11 DEF B
<1>12. CASE Head(q).conn # b
  BY <1>2, <1>7, <1>8, <1>9, <1>10, <1>12 DEF B
<1> QED
  BY <1>11, <1>12

\* Jobs, threads and replies stay as they are in most steps.
LEMMA Quiet ==
    ASSUME IndInv, UNCHANGED <<io_decoder, dpc, djob, ends, replies>>
    PROVE  JobsNamed' /\ RepliesOwed' /\ \A b \in Conns : Outstanding(b)' = Outstanding(b)
BY DEF IndInv, JobsNamed, RepliesOwed, Outstanding, Queued, Running

LEMMA OutstandingNat ==
    ASSUME TypeOK, NEW b
    PROVE  /\ Outstanding(b) \in Nat
           /\ Outstanding(b) = Cardinality(Of(io_decoder, b)) + Cardinality(Running(b))
<1>1. io_decoder \in Seq(Job)
  BY DEF TypeOK
<1>2. IsFiniteSet(Of(io_decoder, b)) /\ Cardinality(Of(io_decoder, b)) \in Nat
  BY <1>1, OfFinite
<1>3. Cardinality(Running(b)) \in Nat
  BY ThreadsFinite
<1>4. Queued(b) = Of(io_decoder, b)
  BY DEF Queued, Of
<1> QED
  BY <1>2, <1>3, <1>4 DEF Outstanding

\* A step that leaves access_num, the entries and whether a job is about to be
\* counted as they are leaves the counts exact.
LEMMA SameCounts ==
    ASSUME IndInv, UNCHANGED <<io_decoder, dpc, djob, ends, replies>>,
           \A b \in Conns : data_msg'[b].access_num = data_msg[b].access_num,
           \A b \in Conns : io'[b] = "posted" <=> io[b] = "posted",
           \A b \in Conns : b \in data_map => b \in data_map'
    PROVE  Counts' /\ JobsKeepEntry' /\ JobsNamed' /\ RepliesOwed'
<1>1. \A b \in Conns : Outstanding(b)' = Outstanding(b)
  BY Quiet
<1>2. Counts'
  BY <1>1 DEF IndInv, Counts
<1>3. JobsKeepEntry'
  BY <1>1 DEF IndInv, JobsKeepEntry
<1> QED
  BY <1>2, <1>3, Quiet

-----------------------------------------------------------------------------
(* The steps.                                                                *)

LEMMA InitInv == Init => IndInv
<1> SUFFICES ASSUME Init PROVE IndInv
  OBVIOUS
<1>1. TypeOK
  BY HandleAssumption, OptionAssumption DEF Init, TypeOK, NewMessage, Message, NoJob, Job
<1>2. \A c \in Conns : Queued(c) = {} /\ Running(c) = {}
  BY HandleAssumption DEF Init, Queued, Running, NoJob
<1>3. Cardinality({}) = 0
  BY FS_EmptySet
<1>4. \A c \in Conns : Outstanding(c) = 0
  BY <1>2, <1>3 DEF Outstanding
<1>5. Counts /\ JobsKeepEntry
  BY <1>4 DEF Init, Counts, JobsKeepEntry, NewMessage
<1>6. RepliesOwed
  <2>1. \A c \in Conns : {d \in Running(c) : dpc[d] # "finish"} = {}
    BY <1>2
  <2>2. \A c \in Conns : ends[c] = 0 /\ replies[c] = 0
    BY DEF Init
  <2> QED
    BY <1>2, <1>3, <2>1, <2>2 DEF RepliesOwed
<1>7. JobsNamed /\ Handlers /\ Collected
  BY HandleAssumption DEF Init, JobsNamed, Handlers, Collected, NoJob, NewMessage
<1> QED
  BY <1>1, <1>5, <1>6, <1>7 DEF IndInv

\* Opening, shutting and destroying a session, and looking an entry up.
LEMMA ClientInv ==
    ASSUME IndInv, NEW c \in Conns, Client(c)
    PROVE  IndInv'
<1> USE HandleAssumption DEF ioVars, mapVars, lockVars, jobVars, cleanVars, replyVars
<1>1. ASSUME OnOpen(c) PROVE IndInv'
  <2>1. TypeOK'
    BY <1>1 DEF IndInv, TypeOK, Message, OnOpen
  <2>2. Counts' /\ JobsKeepEntry' /\ JobsNamed' /\ RepliesOwed'
    <3>1. UNCHANGED <<io_decoder, dpc, djob, ends, replies>>
      BY <1>1 DEF OnOpen
    <3>2. \A b \in Conns : /\ data_msg'[b].access_num = data_msg[b].access_num
                           /\ io'[b] = "posted" <=> io[b] = "posted"
                           /\ b \in data_map => b \in data_map'
      BY <1>1 DEF IndInv, TypeOK, Message, OnOpen
    <3> QED
      BY <3>1, <3>2, SameCounts
  <2>3. Handlers'
    BY <1>1 DEF IndInv, TypeOK, Handlers, Collected, OnOpen
  <2>4. Collected'
    BY <1>1 DEF IndInv, TypeOK, Handlers, Collected, OnOpen
  <2> QED
    BY <2>1, <2>2, <2>3, <2>4 DEF IndInv
<1>2. ASSUME SessionShuts(c) PROVE IndInv'
  <2>1. TypeOK'
    BY <1>2 DEF IndInv, TypeOK, Message, SessionShuts
  <2>2. Counts' /\ JobsKeepEntry' /\ JobsNamed' /\ RepliesOwed'
    <3>1. UNCHANGED <<io_decoder, dpc, djob, ends, replies>>
      BY <1>2 DEF SessionShuts
    <3>2. \A b \in Conns : /\ data_msg'[b].access_num = data_msg[b].access_num
                           /\ io'[b] = "posted" <=> io[b] = "posted"
                           /\ b \in data_map => b \in data_map'
      BY <1>2 DEF IndInv, TypeOK, Message, SessionShuts
    <3> QED
      BY <3>1, <3>2, SameCounts
  <2>3. Handlers'
    BY <1>2 DEF IndInv, TypeOK, Handlers, Collected, SessionShuts
  <2>4. Collected'
    BY <1>2 DEF IndInv, TypeOK, Handlers, Collected, SessionShuts
  <2> QED
    BY <2>1, <2>2, <2>3, <2>4 DEF IndInv
<1>3. ASSUME Delivered(c) PROVE IndInv'
  <2>1. TypeOK'
    BY <1>3 DEF IndInv, TypeOK, Message, Delivered
  <2>2. Counts' /\ JobsKeepEntry' /\ JobsNamed' /\ RepliesOwed'
    <3>1. UNCHANGED <<io_decoder, dpc, djob, ends, replies>>
      BY <1>3 DEF Delivered
    <3>2. \A b \in Conns : /\ data_msg'[b].access_num = data_msg[b].access_num
                           /\ io'[b] = "posted" <=> io[b] = "posted"
                           /\ b \in data_map => b \in data_map'
      BY <1>3 DEF IndInv, TypeOK, Message, Delivered
    <3> QED
      BY <3>1, <3>2, SameCounts
  <2>3. Handlers'
    BY <1>3 DEF IndInv, TypeOK, Handlers, Collected, Delivered
  <2>4. Collected'
    BY <1>3 DEF IndInv, TypeOK, Handlers, Collected, Delivered
  <2> QED
    BY <2>1, <2>2, <2>3, <2>4 DEF IndInv
<1> QED
  BY <1>1, <1>2, <1>3 DEF Client

\* The fields of an entry keep their types.
LEMMA EntrySet ==
    ASSUME NEW f \in [Conns -> Message], NEW c \in Conns, NEW b \in BOOLEAN, NEW o \in Options
    PROVE  /\ [f EXCEPT ![c].is_eof = b] \in [Conns -> Message]
           /\ [f EXCEPT ![c].hotwords = b] \in [Conns -> Message]
           /\ [f EXCEPT ![c].audio = b] \in [Conns -> Message]
           /\ [f EXCEPT ![c].opts = o] \in [Conns -> Message]
           /\ [f EXCEPT ![c].opts = o, ![c].audio = b] \in [Conns -> Message]
<1>1. f[c] \in Message
  OBVIOUS
<1>2. ASSUME NEW m \in Message PROVE [f EXCEPT ![c] = m] \in [Conns -> Message]
  OBVIOUS
<1>3. /\ [f[c] EXCEPT !.is_eof = b] \in Message
      /\ [f[c] EXCEPT !.hotwords = b] \in Message
      /\ [f[c] EXCEPT !.audio = b] \in Message
      /\ [f[c] EXCEPT !.opts = o] \in Message
  BY <1>1 DEF Message
<1>4. [f EXCEPT ![c].is_eof = b] \in [Conns -> Message]
  BY <1>2, <1>3
<1>5. [f EXCEPT ![c].hotwords = b] \in [Conns -> Message]
  BY <1>2, <1>3
<1>6. [f EXCEPT ![c].audio = b] \in [Conns -> Message]
  BY <1>2, <1>3
<1>7. [f EXCEPT ![c].opts = o] \in [Conns -> Message]
  BY <1>2, <1>3
<1>8. [f EXCEPT ![c].opts = o, ![c].audio = b] \in [Conns -> Message]
  <2>1. [[f EXCEPT ![c].opts = o] EXCEPT ![c].audio = b] \in [Conns -> Message]
    <3>1. PICK g \in [Conns -> Message] : g = [f EXCEPT ![c].opts = o]
      BY <1>7
    <3>2. [g[c] EXCEPT !.audio = b] \in Message
      BY DEF Message
    <3>3. [g EXCEPT ![c].audio = b] \in [Conns -> Message]
      BY <3>2
    <3> QED
      BY <3>1, <3>3
  <2> QED
    BY <2>1
<1> QED
  BY <1>4, <1>5, <1>6, <1>7, <1>8

\* The close handler.
LEMMA OnCloseInv ==
    ASSUME IndInv, NEW c \in Conns, OnClose(c)
    PROVE  IndInv'
<1> USE HandleAssumption DEF ioVars, mapVars, lockVars, jobVars, cleanVars, replyVars
<1>1. ASSUME OnCloseFinds(c) PROVE IndInv'
  <2>1. TypeOK'
    BY <1>1 DEF IndInv, TypeOK, Message, OnCloseFinds
  <2>2. Counts' /\ JobsKeepEntry' /\ JobsNamed' /\ RepliesOwed'
    <3>1. UNCHANGED <<io_decoder, dpc, djob, ends, replies>>
      BY <1>1 DEF OnCloseFinds
    <3>2. \A b \in Conns : /\ data_msg'[b].access_num = data_msg[b].access_num
                           /\ io'[b] = "posted" <=> io[b] = "posted"
                           /\ b \in data_map => b \in data_map'
      BY <1>1 DEF IndInv, TypeOK, Message, OnCloseFinds
    <3> QED
      BY <3>1, <3>2, SameCounts
  <2>3. Handlers'
    BY <1>1 DEF IndInv, TypeOK, Handlers, Collected, OnCloseFinds
  <2>4. Collected'
    BY <1>1 DEF IndInv, TypeOK, Handlers, Collected, OnCloseFinds
  <2> QED
    BY <2>1, <2>2, <2>3, <2>4 DEF IndInv
<1>2. ASSUME OnCloseMissing(c) PROVE IndInv'
  <2>1. TypeOK'
    BY <1>2 DEF IndInv, TypeOK, Message, OnCloseMissing
  <2>2. Counts' /\ JobsKeepEntry' /\ JobsNamed' /\ RepliesOwed'
    <3>1. UNCHANGED <<io_decoder, dpc, djob, ends, replies>>
      BY <1>2 DEF OnCloseMissing
    <3>2. \A b \in Conns : /\ data_msg'[b].access_num = data_msg[b].access_num
                           /\ io'[b] = "posted" <=> io[b] = "posted"
                           /\ b \in data_map => b \in data_map'
      BY <1>2 DEF IndInv, TypeOK, Message, OnCloseMissing
    <3> QED
      BY <3>1, <3>2, SameCounts
  <2>3. Handlers'
    BY <1>2 DEF IndInv, TypeOK, Handlers, Collected, OnCloseMissing
  <2>4. Collected'
    BY <1>2 DEF IndInv, TypeOK, Handlers, Collected, OnCloseMissing
  <2> QED
    BY <2>1, <2>2, <2>3, <2>4 DEF IndInv
<1>3. ASSUME OnCloseMarks(c) PROVE IndInv'
  <2>1. TypeOK'
    <3>1. data_msg' \in [Conns -> Message]
      BY <1>3, EntrySet DEF IndInv, TypeOK, OnCloseMarks
    <3> QED
      BY <1>3, <3>1 DEF IndInv, TypeOK, OnCloseMarks
  <2>2. Counts' /\ JobsKeepEntry' /\ JobsNamed' /\ RepliesOwed'
    <3>1. UNCHANGED <<io_decoder, dpc, djob, ends, replies>>
      BY <1>3 DEF OnCloseMarks
    <3>2. \A b \in Conns : /\ data_msg'[b].access_num = data_msg[b].access_num
                           /\ io'[b] = "posted" <=> io[b] = "posted"
                           /\ b \in data_map => b \in data_map'
      BY <1>3 DEF IndInv, TypeOK, Message, OnCloseMarks
    <3> QED
      BY <3>1, <3>2, SameCounts
  <2>3. Handlers'
    BY <1>3 DEF IndInv, TypeOK, Handlers, Collected, OnCloseMarks
  <2>4. Collected'
    BY <1>3 DEF IndInv, TypeOK, Handlers, Collected, OnCloseMarks
  <2> QED
    BY <2>1, <2>2, <2>3, <2>4 DEF IndInv
<1> QED
  BY <1>1, <1>2, <1>3 DEF OnClose

\* The message handler: posting a job takes two steps, in between the job counts
\* already, and the handler itself stands for it.
LEMMA OnMessageInv ==
    ASSUME IndInv, NEW c \in Conns, OnMessage(c)
    PROVE  IndInv'
<1> USE HandleAssumption DEF ioVars, mapVars, lockVars, jobVars, cleanVars, replyVars
<1>1. ASSUME ParseFails(c) PROVE IndInv'
  <2>1. TypeOK'
    <3>1. data_msg' \in [Conns -> Message]
      BY <1>1, EntrySet DEF IndInv, TypeOK, ParseFails
    <3> QED
      BY <1>1, <3>1 DEF IndInv, TypeOK, ParseFails, Handler
  <2>2. Counts' /\ JobsKeepEntry' /\ JobsNamed' /\ RepliesOwed'
    <3>1. UNCHANGED <<io_decoder, dpc, djob, ends, replies>>
      BY <1>1 DEF ParseFails, Handler
    <3>2. \A b \in Conns : /\ data_msg'[b].access_num = data_msg[b].access_num
                           /\ io'[b] = "posted" <=> io[b] = "posted"
                           /\ b \in data_map => b \in data_map'
      BY <1>1 DEF IndInv, TypeOK, Message, ParseFails, Handler
    <3> QED
      BY <3>1, <3>2, SameCounts
  <2>3. Handlers'
    BY <1>1 DEF IndInv, TypeOK, Handlers, Collected, ParseFails, Handler
  <2>4. Collected'
    BY <1>1 DEF IndInv, TypeOK, Handlers, Collected, ParseFails, Handler
  <2> QED
    BY <2>1, <2>2, <2>3, <2>4 DEF IndInv
<1>2. ASSUME TextBegins(c) PROVE IndInv'
  <2>1. TypeOK'
    BY <1>2 DEF IndInv, TypeOK, Message, TextBegins, Handler
  <2>2. Counts' /\ JobsKeepEntry' /\ JobsNamed' /\ RepliesOwed'
    <3>1. UNCHANGED <<io_decoder, dpc, djob, ends, replies>>
      BY <1>2 DEF TextBegins, Handler
    <3>2. \A b \in Conns : /\ data_msg'[b].access_num = data_msg[b].access_num
                           /\ io'[b] = "posted" <=> io[b] = "posted"
                           /\ b \in data_map => b \in data_map'
      BY <1>2 DEF IndInv, TypeOK, Message, TextBegins, Handler
    <3> QED
      BY <3>1, <3>2, SameCounts
  <2>3. Handlers'
    BY <1>2 DEF IndInv, TypeOK, Handlers, Collected, TextBegins, Handler
  <2>4. Collected'
    BY <1>2 DEF IndInv, TypeOK, Handlers, Collected, TextBegins, Handler
  <2> QED
    BY <2>1, <2>2, <2>3, <2>4 DEF IndInv
<1>3. ASSUME HotwordsLoaded(c) PROVE IndInv'
  <2>1. TypeOK'
    <3>1. data_msg' \in [Conns -> Message]
      BY <1>3, EntrySet DEF IndInv, TypeOK, HotwordsLoaded
    <3> QED
      BY <1>3, <3>1 DEF IndInv, TypeOK, HotwordsLoaded, Handler
  <2>2. Counts' /\ JobsKeepEntry' /\ JobsNamed' /\ RepliesOwed'
    <3>1. UNCHANGED <<io_decoder, dpc, djob, ends, replies>>
      BY <1>3 DEF HotwordsLoaded, Handler
    <3>2. \A b \in Conns : /\ data_msg'[b].access_num = data_msg[b].access_num
                           /\ io'[b] = "posted" <=> io[b] = "posted"
                           /\ b \in data_map => b \in data_map'
      BY <1>3 DEF IndInv, TypeOK, Message, HotwordsLoaded, Handler
    <3> QED
      BY <3>1, <3>2, SameCounts
  <2>3. Handlers'
    BY <1>3 DEF IndInv, TypeOK, Handlers, Collected, HotwordsLoaded, Handler
  <2>4. Collected'
    BY <1>3 DEF IndInv, TypeOK, Handlers, Collected, HotwordsLoaded, Handler
  <2> QED
    BY <2>1, <2>2, <2>3, <2>4 DEF IndInv
<1>4. ASSUME NEW o \in Options, TextConfigures(c, o) PROVE IndInv'
  <2>1. TypeOK'
    <3>1. data_msg' \in [Conns -> Message]
      BY <1>4, EntrySet DEF IndInv, TypeOK, TextConfigures
    <3> QED
      BY <1>4, <3>1 DEF IndInv, TypeOK, TextConfigures, Handler
  <2>2. Counts' /\ JobsKeepEntry' /\ JobsNamed' /\ RepliesOwed'
    <3>1. UNCHANGED <<io_decoder, dpc, djob, ends, replies>>
      BY <1>4 DEF TextConfigures, Handler
    <3>2. \A b \in Conns : /\ data_msg'[b].access_num = data_msg[b].access_num
                           /\ io'[b] = "posted" <=> io[b] = "posted"
                           /\ b \in data_map => b \in data_map'
      BY <1>4 DEF IndInv, TypeOK, Message, TextConfigures, Handler
    <3> QED
      BY <3>1, <3>2, SameCounts
  <2>3. Handlers'
    BY <1>4 DEF IndInv, TypeOK, Handlers, Collected, TextConfigures, Handler
  <2>4. Collected'
    BY <1>4 DEF IndInv, TypeOK, Handlers, Collected, TextConfigures, Handler
  <2> QED
    BY <2>1, <2>2, <2>3, <2>4 DEF IndInv
<1>5. ASSUME Binary(c) PROVE IndInv'
  <2>1. TypeOK'
    <3>1. data_msg' \in [Conns -> Message]
      BY <1>5, EntrySet DEF IndInv, TypeOK, Binary
    <3> QED
      BY <1>5, <3>1 DEF IndInv, TypeOK, Binary, Handler
  <2>2. Counts' /\ JobsKeepEntry' /\ JobsNamed' /\ RepliesOwed'
    <3>1. UNCHANGED <<io_decoder, dpc, djob, ends, replies>>
      BY <1>5 DEF Binary, Handler
    <3>2. \A b \in Conns : /\ data_msg'[b].access_num = data_msg[b].access_num
                           /\ io'[b] = "posted" <=> io[b] = "posted"
                           /\ b \in data_map => b \in data_map'
      BY <1>5 DEF IndInv, TypeOK, Message, Binary, Handler
    <3> QED
      BY <3>1, <3>2, SameCounts
  <2>3. Handlers'
    BY <1>5 DEF IndInv, TypeOK, Handlers, Collected, Binary, Handler
  <2>4. Collected'
    BY <1>5 DEF IndInv, TypeOK, Handlers, Collected, Binary, Handler
  <2> QED
    BY <2>1, <2>2, <2>3, <2>4 DEF IndInv
<1>6. ASSUME NEW o \in Options, TextEndsSpeech(c, o) PROVE IndInv'
  <2> DEFINE j == [conn |-> c, opts |-> o, audio |-> data_msg[c].audio]
  <2>1. /\ j \in Job /\ io_decoder \in Seq(Job) /\ io_decoder' = Append(io_decoder, j)
        /\ j.conn = c
    BY <1>6 DEF IndInv, TypeOK, Message, Job, TextEndsSpeech
  <2>2. io_decoder' \in Seq(Job)
    BY <2>1
  <2>3. /\ UNCHANGED <<dpc, djob, replies, data_map>>
        /\ ends' = [ends EXCEPT ![c] = @ + 1]
        /\ io[c] = "config" /\ io' = [io EXCEPT ![c] = "posted"]
        /\ \A b \in Conns : data_msg'[b].access_num = data_msg[b].access_num
    BY <1>6 DEF IndInv, TypeOK, Message, TextEndsSpeech, Handler
  <2>4. TypeOK'
    <3>1. data_msg' \in [Conns -> Message]
      <4>1. data_msg \in [Conns -> Message] /\ data_msg[c] \in Message
        BY DEF IndInv, TypeOK
      <4>2. data_msg' = [data_msg EXCEPT ![c] = [data_msg[c] EXCEPT !.opts = o, !.audio = FALSE]]
        BY <1>6, <4>1 DEF TextEndsSpeech
      <4>3. [data_msg[c] EXCEPT !.opts = o, !.audio = FALSE] \in Message
        BY <4>1 DEF Message
      <4> QED
        BY <4>1, <4>2, <4>3
    <3>2. /\ io' = [io EXCEPT ![c] = "posted"] /\ ends' = [ends EXCEPT ![c] = @ + 1]
          /\ thread_lock' = [thread_lock EXCEPT ![c] = "io"]
      BY <1>6 DEF TextEndsSpeech, Handler
    <3>3. UNCHANGED <<session, msgs, data_map, m_lock, dpc, djob, vad_opts, cut_opts,
                      cpc, iter, to_remove, hdl, replies>>
      BY <1>6 DEF TextEndsSpeech, Handler
    <3> QED
      BY <2>2, <3>1, <3>2, <3>3 DEF IndInv, TypeOK
  <2>5. JobsNamed'
    <3> HIDE DEF j
    <3>1. \A i \in DOMAIN io_decoder' :
             \/ io_decoder'[i] = j
             \/ i \in DOMAIN io_decoder /\ io_decoder'[i] = io_decoder[i]
      BY <2>1
    <3> QED
      BY <2>1, <2>3, <3>1 DEF IndInv, JobsNamed
  <2>6. ASSUME NEW b \in Conns
        PROVE  /\ Cardinality(Queued(b)') =
                     Cardinality(Queued(b)) + (IF b = c THEN 1 ELSE 0)
               /\ Cardinality(Queued(b)) \in Nat /\ Cardinality(Running(b)) \in Nat
               /\ Cardinality(Owing(b)) \in Nat
               /\ Running(b)' = Running(b) /\ Owing(b)' = Owing(b)
    <3>1. Queued(b) = Of(io_decoder, b) /\ Queued(b)' = Of(Append(io_decoder, j), b)
      BY <2>1 DEF Queued, Of
    <3>2. Running(b)' = Running(b) /\ Owing(b)' = Owing(b)
      BY <2>3 DEF Running, Owing
    <3> HIDE DEF j
    <3> QED
      BY <2>1, <3>1, <3>2, AppendCounts, OfFinite, ThreadsFinite
  <2>7. ASSUME NEW b \in Conns
        PROVE  data_msg'[b].access_num + (IF io'[b] = "posted" THEN 1 ELSE 0)
                  = Cardinality(Queued(b)') + Cardinality(Running(b)')
    <3>1. data_msg[b].access_num + (IF io[b] = "posted" THEN 1 ELSE 0)
             = Cardinality(Queued(b)) + Cardinality(Running(b))
      BY DEF IndInv, Counts, Outstanding
    <3>2. /\ data_msg[b].access_num \in Nat
          /\ io'[b] = IF b = c THEN "posted" ELSE io[b]
      BY <2>3 DEF IndInv, TypeOK, Message
    <3> QED
      BY <2>3, <2>6, <3>1, <3>2
  <2>8. JobsKeepEntry'
    <3>1. c \in data_map'
      BY <2>3 DEF IndInv, Handlers
    <3>2. ASSUME NEW b \in Conns, b # c
          PROVE  Cardinality(Queued(b)') + Cardinality(Running(b)')
                    = Cardinality(Queued(b)) + Cardinality(Running(b))
      BY <2>6, <3>2
    <3> QED
      BY <2>3, <3>1, <3>2 DEF IndInv, JobsKeepEntry, Outstanding
  <2>9. RepliesOwed'
    <3> SUFFICES ASSUME NEW b \in Conns
                 PROVE  ends'[b] = replies'[b] + Cardinality(Queued(b)')
                                     + Cardinality(Owing(b)')
      BY DEF RepliesOwed, Owing
    <3>1. ends[b] = replies[b] + Cardinality(Queued(b)) + Cardinality(Owing(b))
      BY DEF IndInv, RepliesOwed, Owing
    <3>2. ends \in [Conns -> Nat] /\ replies \in [Conns -> Nat]
      BY DEF IndInv, TypeOK
    <3> QED
      BY <2>3, <2>6, <3>1, <3>2
  <2>10. Handlers' /\ Collected'
    BY <1>6 DEF IndInv, TypeOK, Handlers, Collected, TextEndsSpeech, Handler
  <2> QED
    BY <2>4, <2>5, <2>7, <2>8, <2>9, <2>10 DEF IndInv, Counts, Outstanding
<1>7. ASSUME Counted(c) PROVE IndInv'
  <2>1. TypeOK'
    <3>1. data_msg' \in [Conns -> Message]
      <4>1. data_msg \in [Conns -> Message] /\ data_msg[c] \in Message
        BY DEF IndInv, TypeOK
      <4>2. [data_msg[c] EXCEPT !.access_num = @ + 1] \in Message
        BY <4>1 DEF Message
      <4> QED
        BY <1>7, <4>1, <4>2 DEF Counted
    <3>2. io' = [io EXCEPT ![c] = "idle"] /\ thread_lock' = [thread_lock EXCEPT ![c] = "free"]
      BY <1>7 DEF Counted, Handler
    <3>3. UNCHANGED <<session, msgs, data_map, m_lock, jobVars, cleanVars, replyVars>>
      BY <1>7 DEF Counted, Handler
    <3> QED
      BY <3>1, <3>2, <3>3 DEF IndInv, TypeOK
  <2>2. UNCHANGED <<io_decoder, dpc, djob, ends, replies>> /\ data_map' = data_map
    BY <1>7 DEF Counted, Handler
  <2>3. \A b \in Conns : Outstanding(b)' = Outstanding(b)
    BY <2>2, Quiet
  <2>4. \A b \in Conns :
           data_msg'[b].access_num + (IF io'[b] = "posted" THEN 1 ELSE 0)
              = data_msg[b].access_num + (IF io[b] = "posted" THEN 1 ELSE 0)
    <3> SUFFICES ASSUME NEW b \in Conns
                 PROVE  data_msg'[b].access_num + (IF io'[b] = "posted" THEN 1 ELSE 0)
                          = data_msg[b].access_num + (IF io[b] = "posted" THEN 1 ELSE 0)
      OBVIOUS
    <3>1. /\ data_msg[b].access_num \in Nat
          /\ data_msg'[b].access_num = data_msg[b].access_num + (IF b = c THEN 1 ELSE 0)
      BY <1>7 DEF IndInv, TypeOK, Message, Counted
    <3>2. io[c] = "posted" /\ io'[b] = IF b = c THEN "idle" ELSE io[b]
      BY <1>7 DEF IndInv, TypeOK, Counted, Handler
    <3> QED
      BY <3>1, <3>2
  <2>5. Counts'
    BY <2>3, <2>4 DEF IndInv, Counts
  <2>6. JobsKeepEntry'
    BY <2>2, <2>3 DEF IndInv, JobsKeepEntry
  <2>7. Handlers' /\ Collected'
    BY <1>7 DEF IndInv, TypeOK, Handlers, Collected, Counted, Handler
  <2> QED
    BY <2>1, <2>2, <2>5, <2>6, <2>7, Quiet DEF IndInv
<1> QED
  BY <1>1, <1>2, <1>3, <1>4, <1>5, <1>6, <1>7 DEF OnMessage

\* A step of a thread that keeps its job.  A step to its end is one that sends a
\* reply: the thread stops owing it.
LEMMA StepInv ==
    ASSUME IndInv, NEW d \in Decoders, NEW from \in {"entry", "load", "decode"},
           NEW to \in {"load", "decode", "finish"}, Step(d, from, to),
           UNCHANGED <<data_msg, djob>>,
           vad_opts' \in Options, cut_opts' \in [Decoders -> Options],
           replies' = [replies EXCEPT ![djob[d].conn] = @ + IF to = "finish" THEN 1 ELSE 0]
    PROVE  IndInv'
<1> USE HandleAssumption DEF ioVars, mapVars, lockVars, jobVars, cleanVars, replyVars
<1>1. /\ UNCHANGED <<session, io, msgs, data_map, data_msg, m_lock, thread_lock, io_decoder,
                     djob, cpc, iter, to_remove, hdl, ends>>
      /\ dpc[d] = from /\ dpc' = [dpc EXCEPT ![d] = to]
  BY DEF Step
<1>2. djob[d].conn \in Conns
  BY <1>1 DEF IndInv, TypeOK, JobsNamed, Job
<1>3. replies \in [Conns -> Nat] /\ replies' \in [Conns -> Nat] /\ ends \in [Conns -> Nat]
  BY <1>2 DEF IndInv, TypeOK
<1>4. TypeOK'
  BY <1>1, <1>3 DEF IndInv, TypeOK
<1>5. JobsNamed'
  BY <1>1 DEF IndInv, TypeOK, JobsNamed
<1>6. \A b \in Conns : Outstanding(b)' = Outstanding(b)
  BY <1>1 DEF Outstanding, Queued, Running
<1>7. Counts' /\ JobsKeepEntry' /\ Handlers' /\ Collected'
  BY <1>1, <1>6 DEF IndInv, Counts, JobsKeepEntry, Handlers, Collected
<1>8. RepliesOwed'
  <2> SUFFICES ASSUME NEW b \in Conns
               PROVE  ends[b] = replies'[b] + Cardinality(Queued(b)) + Cardinality(Owing(b)')
    BY <1>1 DEF RepliesOwed, Owing, Queued
  <2>1. ends[b] = replies[b] + Cardinality(Queued(b)) + Cardinality(Owing(b))
    BY DEF IndInv, RepliesOwed, Owing
  <2>2. /\ Cardinality(Queued(b)) \in Nat
        /\ IsFiniteSet(Owing(b)) /\ Cardinality(Owing(b)) \in Nat
    <3>1. io_decoder \in Seq(Job)
      BY DEF IndInv, TypeOK
    <3> QED
      BY <3>1, OfFinite, ThreadsFinite DEF Queued, Of
  <2>3. d \in Owing(b) <=> djob[d].conn = b
    BY <1>1 DEF Owing, Running
  <2>4. CASE to = "finish" /\ djob[d].conn = b
    <3>1. Owing(b)' = Owing(b) \ {d}
      BY <1>1, <2>4 DEF Owing, Running, IndInv, TypeOK
    <3>2. Cardinality(Owing(b)') = Cardinality(Owing(b)) - 1
      <4>1. d \in Owing(b)
        BY <2>3, <2>4
      <4>2. IsFiniteSet(Owing(b))
        BY <2>2
      <4>3. Cardinality(Owing(b) \ {d}) = Cardinality(Owing(b)) - 1
        BY <4>1, <4>2, FS_RemoveElement, Zenon
      <4> QED
        BY <3>1, <4>3
    <3>3. replies'[b] = replies[b] + 1
      BY <1>3, <2>4
    <3> QED
      BY <1>3, <2>1, <2>2, <3>2, <3>3
  <2>5. CASE ~(to = "finish" /\ djob[d].conn = b)
    <3>1. Owing(b)' = Owing(b)
      BY <1>1, <2>5 DEF Owing, Running, IndInv, TypeOK
    <3>2. replies'[b] = replies[b]
      BY <1>2, <1>3, <2>5
    <3> QED
      BY <2>1, <3>1, <3>2
  <2> QED
    BY <2>4, <2>5
<1> QED
  BY <1>4, <1>5, <1>7, <1>8 DEF IndInv

\* A decoder thread: it takes a job, works on it, and counts it off at its end.
LEMMA DecoderInv ==
    ASSUME IndInv, NEW d \in Decoders, Decoder(d)
    PROVE  IndInv'
<1> USE HandleAssumption DEF ioVars, mapVars, lockVars, jobVars, cleanVars, replyVars
<1>1. djob[d].opts \in Options /\ vad_opts \in Options /\ cut_opts \in [Decoders -> Options]
  BY DEF IndInv, TypeOK, Job
<1>2. djob[d].conn \in Conns <=> dpc[d] # "idle"
  BY DEF IndInv, TypeOK, JobsNamed, Job
<1>3. replies \in [Conns -> Nat]
  BY DEF IndInv, TypeOK
<1>4. ASSUME JobStarts(d) PROVE IndInv'
  <2>1. /\ io_decoder \in Seq(Job) /\ io_decoder # <<>> /\ io_decoder' = Tail(io_decoder)
        /\ dpc[d] = "idle" /\ dpc' = [dpc EXCEPT ![d] = "entry"]
        /\ djob' = [djob EXCEPT ![d] = Head(io_decoder)]
        /\ UNCHANGED <<session, io, msgs, data_map, data_msg, m_lock, thread_lock, vad_opts,
                       cut_opts, cpc, iter, to_remove, hdl, ends, replies>>
    BY <1>4 DEF JobStarts, IndInv, TypeOK
  <2>2. /\ Head(io_decoder) \in Job /\ Tail(io_decoder) \in Seq(Job)
        /\ \A i \in DOMAIN Tail(io_decoder) :
              i + 1 \in DOMAIN io_decoder /\ Tail(io_decoder)[i] = io_decoder[i + 1]
        /\ 1 \in DOMAIN io_decoder /\ Head(io_decoder) = io_decoder[1]
    BY <2>1
  <2>3. TypeOK'
    BY <2>1, <2>2 DEF IndInv, TypeOK
  <2>4. JobsNamed'
    BY <2>1, <2>2 DEF IndInv, TypeOK, JobsNamed
  <2>5. djob[d].conn = "none"
    BY <2>1 DEF IndInv, JobsNamed
  <2>6. ASSUME NEW b \in Conns
        PROVE  /\ ends[b] = replies[b] + Cardinality(Queued(b)') + Cardinality(Owing(b)')
               /\ Cardinality(Queued(b)') + Cardinality(Running(b)') = Outstanding(b)
    <3>1. Queued(b) = Of(io_decoder, b) /\ Queued(b)' = Of(Tail(io_decoder), b)
      BY <2>1 DEF Queued, Of
    <3>2. Cardinality(Queued(b)) =
             Cardinality(Queued(b)') + (IF Head(io_decoder).conn = b THEN 1 ELSE 0)
      BY <2>1, <3>1, TailCounts
    <3>3. Cardinality(Queued(b)') \in Nat
      BY <2>2, <3>1, OfFinite
    <3>4. /\ IsFiniteSet(Running(b)) /\ Cardinality(Running(b)) \in Nat
          /\ IsFiniteSet(Owing(b)) /\ Cardinality(Owing(b)) \in Nat
      BY ThreadsFinite
    <3>5. d \notin Running(b) /\ d \notin Owing(b)
      BY <2>5 DEF Running, Owing
    <3>6. ends[b] = replies[b] + Cardinality(Queued(b)) + Cardinality(Owing(b))
      BY DEF IndInv, RepliesOwed, Owing
    <3>7. Outstanding(b) = Cardinality(Queued(b)) + Cardinality(Running(b))
      BY DEF Outstanding
    <3>8. CASE Head(io_decoder).conn = b
      <4>1. Running(b)' = Running(b) \cup {d} /\ Owing(b)' = Owing(b) \cup {d}
        BY <2>1, <3>8 DEF Running, Owing, IndInv, TypeOK
      <4>2. /\ Cardinality(Running(b)') = Cardinality(Running(b)) + 1
            /\ Cardinality(Owing(b)') = Cardinality(Owing(b)) + 1
        BY <3>4, <3>5, <4>1, FS_AddElement
      <4> QED
        BY <1>3, <3>2, <3>3, <3>4, <3>6, <3>7, <3>8, <4>2
    <3>9. CASE Head(io_decoder).conn # b
      <4>1. Running(b)' = Running(b) /\ Owing(b)' = Owing(b)
        BY <2>1, <2>5, <3>9 DEF Running, Owing, IndInv, TypeOK
      <4> QED
        BY <3>2, <3>3, <3>6, <3>7, <3>9, <4>1
    <3> QED
      BY <3>8, <3>9
  <2>7. RepliesOwed'
    BY <2>1, <2>6 DEF RepliesOwed, Owing
  <2>8. \A b \in Conns : Outstanding(b)' = Outstanding(b)
    BY <2>6 DEF Outstanding
  <2>9. Counts' /\ JobsKeepEntry' /\ Handlers' /\ Collected'
    BY <2>1, <2>8 DEF IndInv, Counts, JobsKeepEntry, Handlers, Collected
  <2> QED
    BY <2>3, <2>4, <2>7, <2>9 DEF IndInv
<1>5. ASSUME EmptyJobReplies(d) PROVE IndInv'
  BY <1>1, <1>5, StepInv DEF EmptyJobReplies, Answers
<1>6. ASSUME SetsConfig(d) PROVE IndInv'
  <2>1. /\ Step(d, "entry", "load") /\ UNCHANGED <<data_msg, djob>>
        /\ vad_opts' \in Options /\ cut_opts' \in [Decoders -> Options]
    BY <1>1, <1>6 DEF SetsConfig
  <2>2. replies' = [replies EXCEPT ![djob[d].conn] = @ + 0]
    BY <1>2, <1>3, <1>6 DEF SetsConfig, Step
  <2> QED
    BY <2>1, <2>2, StepInv
<1>7. ASSUME LoadFails(d) PROVE IndInv'
  BY <1>1, <1>7, StepInv DEF LoadFails, Answers
<1>8. ASSUME CutSplit(d) PROVE IndInv'
  <2>1. /\ Step(d, "load", "decode") /\ UNCHANGED <<data_msg, djob>>
        /\ vad_opts' \in Options /\ cut_opts' \in [Decoders -> Options]
    BY <1>1, <1>8 DEF CutSplit
  <2>2. replies' = [replies EXCEPT ![djob[d].conn] = @ + 0]
    BY <1>2, <1>3, <1>8 DEF CutSplit, Step
  <2> QED
    BY <2>1, <2>2, StepInv
<1>9. ASSUME Replies(d) PROVE IndInv'
  BY <1>1, <1>9, StepInv DEF Replies, Answers
<1>10. ASSUME JobFinishes(d) PROVE IndInv'
  <2> DEFINE c == djob[d].conn
  <2>1. /\ dpc[d] = "finish" /\ thread_lock[c] = "free" /\ c \in Conns
        /\ dpc' = [dpc EXCEPT ![d] = "idle"] /\ djob' = [djob EXCEPT ![d] = NoJob]
        /\ data_msg' = [data_msg EXCEPT ![c] = CountedOff(@)]
        /\ UNCHANGED <<session, io, msgs, data_map, m_lock, thread_lock, io_decoder, vad_opts,
                       cut_opts, cpc, iter, to_remove, hdl, ends, replies>>
    BY <1>2, <1>10 DEF JobFinishes
  <2> HIDE DEF c
  <2>2. d \in Running(c) /\ djob[d].conn = c
    BY DEF Running, c
  <2>3. ASSUME NEW b \in Conns
        PROVE  /\ Outstanding(b) =
                     Cardinality(Queued(b)') + Cardinality(Running(b)')
                        + (IF b = c THEN 1 ELSE 0)
               /\ Cardinality(Queued(b)') \in Nat /\ Cardinality(Running(b)') \in Nat
               /\ Owing(b)' = Owing(b) /\ Queued(b)' = Queued(b)
    <3>1. Queued(b)' = Queued(b) /\ Owing(b)' = Owing(b)
      BY <2>1 DEF Queued, Owing, Running, NoJob, IndInv, TypeOK
    <3>2. Cardinality(Queued(b)) \in Nat
      <4>1. io_decoder \in Seq(Job)
        BY DEF IndInv, TypeOK
      <4> QED
        BY <4>1, OfFinite DEF Queued, Of
    <3>3. IsFiniteSet(Running(b)) /\ Cardinality(Running(b)) \in Nat
      BY ThreadsFinite
    <3>4. CASE b = c
      <4>1. Running(b)' = Running(b) \ {d}
        BY <2>1, <2>2, <3>4 DEF Running, NoJob, IndInv, TypeOK
      <4>2. Cardinality(Running(b)') = Cardinality(Running(b)) - 1
        BY <2>2, <3>3, <3>4, <4>1, FS_RemoveElement
      <4>3. Cardinality(Running(b)') \in Nat
        BY <3>3, <4>1, FS_Subset, FS_CardinalityType
      <4> QED
        BY <3>1, <3>2, <3>3, <3>4, <4>2, <4>3 DEF Outstanding
    <3>5. CASE b # c
      <4>1. Running(b)' = Running(b)
        BY <2>1, <2>2, <3>5 DEF Running, NoJob, IndInv, TypeOK
      <4> QED
        BY <3>1, <3>2, <3>3, <3>5, <4>1 DEF Outstanding
    <3> QED
      BY <3>4, <3>5
  <2>4. io[c] # "posted"
    BY <2>1 DEF IndInv, Handlers
  <2>5. ASSUME NEW b \in Conns
        PROVE  /\ data_msg'[b] \in Message
               /\ data_msg'[b].access_num + (IF io'[b] = "posted" THEN 1 ELSE 0)
                     = Cardinality(Queued(b)') + Cardinality(Running(b)')
    <3>1. data_msg[b] \in Message
      BY DEF IndInv, TypeOK
    <3>2. data_msg[b].access_num + (IF io[b] = "posted" THEN 1 ELSE 0) = Outstanding(b)
      BY DEF IndInv, Counts
    <3>3. CASE b = c
      <4>1. data_msg[b].access_num >= 1 /\ data_msg[b].access_num \in Nat
        BY <2>3, <2>4, <3>1, <3>2, <3>3 DEF Message
      <4>2. data_msg'[b] = [data_msg[b] EXCEPT !.access_num = data_msg[b].access_num - 1]
        BY <2>1, <3>3 DEF CountedOff, IndInv, TypeOK
      <4>3. data_msg[b].access_num - 1 \in Nat
        BY <4>1
      <4>4. /\ data_msg'[b] \in Message
            /\ data_msg'[b].access_num = data_msg[b].access_num - 1
        BY <3>1, <4>2, <4>3 DEF Message
      <4>5. io'[b] # "posted"
        BY <2>1, <2>4, <3>3
      <4> QED
        BY <2>3, <2>4, <3>2, <3>3, <4>1, <4>4, <4>5
    <3>4. CASE b # c
      <4>1. data_msg'[b] = data_msg[b]
        BY <2>1, <3>4 DEF IndInv, TypeOK
      <4> QED
        BY <2>1, <2>3, <3>1, <3>2, <3>4, <4>1
    <3> QED
      BY <3>3, <3>4
  <2>6. TypeOK'
    <3>1. data_msg' \in [Conns -> Message]
      BY <2>1, <2>5 DEF IndInv, TypeOK
    <3>2. NoJob \in Job
      BY OptionAssumption DEF NoJob, Job
    <3> QED
      BY <2>1, <3>1, <3>2 DEF IndInv, TypeOK
  <2>7. JobsNamed'
    BY <2>1 DEF IndInv, TypeOK, JobsNamed, NoJob
  <2>8. Counts'
    BY <2>5 DEF Counts, Outstanding
  <2>9. JobsKeepEntry'
    <3>1. \A b \in Conns : Outstanding(b)' > 0 => Outstanding(b) > 0
      BY <2>3 DEF Outstanding
    <3> QED
      BY <2>1, <3>1 DEF IndInv, JobsKeepEntry
  <2>10. RepliesOwed'
    BY <2>1, <2>3 DEF IndInv, RepliesOwed, Owing
  <2>11. Handlers' /\ Collected'
    <3>1. \A b \in Conns : data_msg'[b].is_eof = data_msg[b].is_eof
      BY <2>1 DEF CountedOff, IndInv, TypeOK, Message
    <3>2. Handlers'
      BY <2>1, <3>1 DEF IndInv, Handlers
    <3> QED
      BY <2>1, <3>2 DEF IndInv, Collected
  <2> QED
    BY <2>6, <2>7, <2>8, <2>9, <2>10, <2>11 DEF IndInv
<1> QED
  BY <1>4, <1>5, <1>6, <1>7, <1>8, <1>9, <1>10 DEF Decoder

\* The cleaner: an entry is erased only when no job is left, and no handler that
\* found it is under way.
LEMMA CleanerInv ==
    ASSUME IndInv, Cleaner
    PROVE  IndInv'
<1> USE HandleAssumption DEF ioVars, mapVars, lockVars, jobVars, cleanVars, replyVars
<1>1. ASSUME SweepStarts PROVE IndInv'
  <2>1. TypeOK'
    BY <1>1 DEF IndInv, TypeOK, Message, SweepStarts
  <2>2. Counts' /\ JobsKeepEntry' /\ JobsNamed' /\ RepliesOwed'
    <3>1. UNCHANGED <<io_decoder, dpc, djob, ends, replies>>
      BY <1>1 DEF SweepStarts
    <3>2. \A b \in Conns : /\ data_msg'[b].access_num = data_msg[b].access_num
                           /\ io'[b] = "posted" <=> io[b] = "posted"
                           /\ b \in data_map => b \in data_map'
      BY <1>1 DEF IndInv, TypeOK, Message, SweepStarts
    <3> QED
      BY <3>1, <3>2, SameCounts
  <2>3. Handlers'
    BY <1>1 DEF IndInv, TypeOK, Handlers, Collected, SweepStarts
  <2>4. Collected'
    BY <1>1 DEF IndInv, TypeOK, Handlers, Collected, SweepStarts
  <2> QED
    BY <2>1, <2>2, <2>3, <2>4 DEF IndInv
<1>2. ASSUME SweepEnds PROVE IndInv'
  <2>1. TypeOK'
    BY <1>2 DEF IndInv, TypeOK, Message, SweepEnds
  <2>2. Counts' /\ JobsKeepEntry' /\ JobsNamed' /\ RepliesOwed'
    <3>1. UNCHANGED <<io_decoder, dpc, djob, ends, replies>>
      BY <1>2 DEF SweepEnds
    <3>2. \A b \in Conns : /\ data_msg'[b].access_num = data_msg[b].access_num
                           /\ io'[b] = "posted" <=> io[b] = "posted"
                           /\ b \in data_map => b \in data_map'
      BY <1>2 DEF IndInv, TypeOK, Message, SweepEnds
    <3> QED
      BY <3>1, <3>2, SameCounts
  <2>3. Handlers'
    BY <1>2 DEF IndInv, TypeOK, Handlers, Collected, SweepEnds
  <2>4. Collected'
    BY <1>2 DEF IndInv, TypeOK, Handlers, Collected, SweepEnds
  <2> QED
    BY <2>1, <2>2, <2>3, <2>4 DEF IndInv
<1>3. ASSUME SweepSleeps PROVE IndInv'
  <2>1. TypeOK'
    BY <1>3 DEF IndInv, TypeOK, Message, SweepSleeps
  <2>2. Counts' /\ JobsKeepEntry' /\ JobsNamed' /\ RepliesOwed'
    <3>1. UNCHANGED <<io_decoder, dpc, djob, ends, replies>>
      BY <1>3 DEF SweepSleeps
    <3>2. \A b \in Conns : /\ data_msg'[b].access_num = data_msg[b].access_num
                           /\ io'[b] = "posted" <=> io[b] = "posted"
                           /\ b \in data_map => b \in data_map'
      BY <1>3 DEF IndInv, TypeOK, Message, SweepSleeps
    <3> QED
      BY <3>1, <3>2, SameCounts
  <2>3. Handlers'
    BY <1>3 DEF IndInv, TypeOK, Handlers, Collected, SweepSleeps
  <2>4. Collected'
    BY <1>3 DEF IndInv, TypeOK, Handlers, Collected, SweepSleeps
  <2> QED
    BY <2>1, <2>2, <2>3, <2>4 DEF IndInv
<1>4. ASSUME NEW c \in Conns, SweepVisits(c) PROVE IndInv'
  <2>1. TypeOK'
    <3>1. data_msg' \in [Conns -> Message]
      <4> DEFINE e == data_msg[c].is_eof \/ session[c] = "gone"
      <4>1. data_msg \in [Conns -> Message] /\ data_msg[c] \in Message
        BY DEF IndInv, TypeOK
      <4>2. e \in BOOLEAN
        OBVIOUS
      <4>3. data_msg' = [data_msg EXCEPT ![c] = [data_msg[c] EXCEPT !.is_eof = e]]
        BY <1>4 DEF SweepVisits
      <4> HIDE DEF e
      <4>4. [data_msg[c] EXCEPT !.is_eof = e] \in Message
        BY <4>1, <4>2 DEF Message
      <4> QED
        BY <4>1, <4>3, <4>4
    <3>2. iter' \subseteq Conns /\ to_remove' \subseteq Conns
      BY <1>4 DEF IndInv, TypeOK, SweepVisits
    <3>3. UNCHANGED <<session, io, msgs, data_map, m_lock, thread_lock, jobVars, cpc, hdl,
                      replyVars>>
      BY <1>4 DEF SweepVisits
    <3> QED
      BY <3>1, <3>2, <3>3 DEF IndInv, TypeOK
  <2>2. Counts' /\ JobsKeepEntry' /\ JobsNamed' /\ RepliesOwed'
    <3>1. UNCHANGED <<io_decoder, dpc, djob, ends, replies>>
      BY <1>4 DEF SweepVisits
    <3>2. \A b \in Conns : /\ data_msg'[b].access_num = data_msg[b].access_num
                           /\ io'[b] = "posted" <=> io[b] = "posted"
                           /\ b \in data_map => b \in data_map'
      BY <1>4 DEF IndInv, TypeOK, Message, SweepVisits
    <3> QED
      BY <3>1, <3>2, SameCounts
  <2>3. Handlers'
    BY <1>4 DEF IndInv, TypeOK, Handlers, Collected, SweepVisits
  <2>4. Collected'
    BY <1>4 DEF IndInv, TypeOK, Handlers, Collected, SweepVisits
  <2> QED
    BY <2>1, <2>2, <2>3, <2>4 DEF IndInv
<1>5. ASSUME NEW c \in Conns, RemoveLocks(c) PROVE IndInv'
  <2>1. TypeOK'
    BY <1>5 DEF IndInv, TypeOK, Message, RemoveLocks
  <2>2. Counts' /\ JobsKeepEntry' /\ JobsNamed' /\ RepliesOwed'
    <3>1. UNCHANGED <<io_decoder, dpc, djob, ends, replies>>
      BY <1>5 DEF RemoveLocks
    <3>2. \A b \in Conns : /\ data_msg'[b].access_num = data_msg[b].access_num
                           /\ io'[b] = "posted" <=> io[b] = "posted"
                           /\ b \in data_map => b \in data_map'
      BY <1>5 DEF IndInv, TypeOK, Message, RemoveLocks
    <3> QED
      BY <3>1, <3>2, SameCounts
  <2>3. Handlers'
    BY <1>5 DEF IndInv, TypeOK, Handlers, Collected, RemoveLocks
  <2>4. Collected'
    BY <1>5 DEF IndInv, TypeOK, Handlers, Collected, RemoveLocks
  <2> QED
    BY <2>1, <2>2, <2>3, <2>4 DEF IndInv
<1>6. ASSUME Remove PROVE IndInv'
  <2>1. /\ cpc = "locked" /\ thread_lock[hdl] = "free" /\ hdl' = "none" /\ hdl \in Conns
        /\ data_map' = IF Removable(data_msg[hdl]) THEN data_map \ {hdl} ELSE data_map
        /\ cpc' = "remove" /\ m_lock' = "free"
        /\ UNCHANGED <<session, io, msgs, data_msg, thread_lock, jobVars, iter, to_remove,
                       replyVars>>
    BY <1>6 DEF Remove, IndInv, Collected
  <2>2. UNCHANGED <<io_decoder, dpc, djob, ends, replies>>
    BY <2>1
  <2>3. \A b \in Conns : Outstanding(b)' = Outstanding(b)
    BY <2>2, Quiet
  <2>4. TypeOK'
    BY <2>1 DEF IndInv, TypeOK
  <2>5. Counts'
    BY <2>1, <2>3 DEF IndInv, Counts
  <2>6. io[hdl] \notin {"message", "load", "config", "posted"}
    BY <2>1 DEF IndInv, Handlers, Collected
  <2>7. ASSUME Removable(data_msg[hdl]) PROVE ~(Outstanding(hdl) > 0)
    <3>1. data_msg[hdl].access_num + (IF io[hdl] = "posted" THEN 1 ELSE 0) = Outstanding(hdl)
      BY <2>1 DEF IndInv, Counts
    <3>2. data_msg[hdl].access_num = 0
      BY <2>7 DEF Removable
    <3> QED
      BY <2>6, <3>1, <3>2
  <2>8. JobsKeepEntry'
    BY <2>1, <2>3, <2>7 DEF IndInv, JobsKeepEntry
  <2>9. Handlers'
    BY <2>1, <2>6 DEF IndInv, Handlers
  <2>10. Collected'
    BY <2>1 DEF IndInv, TypeOK, Collected
  <2> QED
    BY <2>2, <2>4, <2>5, <2>8, <2>9, <2>10, Quiet DEF IndInv
<1> QED
  BY <1>1, <1>2, <1>3, <1>4, <1>5, <1>6 DEF Cleaner

-----------------------------------------------------------------------------
(* The theorems.                                                             *)

\* IndInv holds in every state the offline server reaches.
THEOREM Invariance == Spec => []IndInv
<1>1. IndInv /\ [Next]_vars => IndInv'
  <2> SUFFICES ASSUME IndInv, [Next]_vars PROVE IndInv'
    OBVIOUS
  <2>1. CASE UNCHANGED vars
    <3>1. UNCHANGED <<session, io, msgs, data_map, data_msg, m_lock, thread_lock, io_decoder,
                      dpc, djob, vad_opts, cut_opts, cpc, iter, to_remove, hdl, ends,
                      replies>>
      BY <2>1 DEF vars, ioVars, mapVars, lockVars, jobVars, cleanVars, replyVars
    <3>2. TypeOK' /\ Handlers' /\ Collected'
      BY <3>1 DEF IndInv, TypeOK, Handlers, Collected
    <3>3. Counts' /\ JobsKeepEntry' /\ JobsNamed' /\ RepliesOwed'
      BY <3>1, SameCounts
    <3> QED
      BY <3>2, <3>3 DEF IndInv
  <2>2. ASSUME NEW c \in Conns, Client(c) \/ OnMessage(c) \/ OnClose(c) PROVE IndInv'
    BY <2>2, ClientInv, OnMessageInv, OnCloseInv
  <2>3. ASSUME NEW d \in Decoders, Decoder(d) PROVE IndInv'
    BY <2>3, DecoderInv
  <2>4. CASE Cleaner
    BY <2>4, CleanerInv
  <2> QED
    BY <2>1, <2>2, <2>3, <2>4 DEF Next
<1> QED
  BY InitInv, <1>1, PTL DEF Spec

\* Every variable of the offline server keeps its type.
THEOREM TypeCorrect == Spec => []TypeOK
<1>1. IndInv => TypeOK
  BY DEF IndInv
<1> QED
  BY Invariance, <1>1, PTL

\* remove_hdl never erases an entry whose jobs are queued or run, although
\* access_num counts a job only after it was posted and the jobs of a connection
\* run side by side.
THEOREM JobsSafe == Spec => []JobsKeepEntry
<1>1. IndInv => JobsKeepEntry
  BY DEF IndInv
<1> QED
  BY Invariance, <1>1, PTL

\* Each end of speech is answered once: no job is lost, and none is answered twice.
THEOREM RepliesCorrect == Spec => []RepliesOwed
<1>1. IndInv => RepliesOwed
  BY DEF IndInv
<1> QED
  BY Invariance, <1>1, PTL

-----------------------------------------------------------------------------
(* OfflineServer implements SessionLease too, for any number of connections, *)
(* decoder threads and options, although it lets the jobs of a connection    *)
(* run side by side.                                                         *)

\* The four phases, and the same after a step.
LEMMA PhaseCases ==
    ASSUME NEW b \in Conns
    PROVE  /\ session[b] = "none" => Phase(b) = "absent"
           /\ session[b] # "none" /\ b \notin data_map => Phase(b) = "over"
           /\ session[b] # "none" /\ b \in data_map /\ data_msg[b].is_eof
                => Phase(b) = "draining"
           /\ session[b] # "none" /\ b \in data_map /\ ~data_msg[b].is_eof
                => Phase(b) = "serving"
<1>1. ASSUME session[b] = "none" PROVE Phase(b) = "absent"
  BY <1>1 DEF Phase
<1>2. ASSUME session[b] # "none", b \notin data_map PROVE Phase(b) = "over"
  BY <1>2 DEF Phase
<1>3. ASSUME session[b] # "none", b \in data_map, data_msg[b].is_eof
      PROVE Phase(b) = "draining"
  BY <1>3 DEF Phase
<1>4. ASSUME session[b] # "none", b \in data_map, ~data_msg[b].is_eof
      PROVE Phase(b) = "serving"
  BY <1>4 DEF Phase
<1> QED
  BY <1>1, <1>2, <1>3, <1>4

LEMMA NextPhaseCases ==
    ASSUME NEW b \in Conns
    PROVE  /\ session'[b] = "none" => Phase(b)' = "absent"
           /\ session'[b] # "none" /\ b \notin data_map' => Phase(b)' = "over"
           /\ session'[b] # "none" /\ b \in data_map' /\ data_msg'[b].is_eof
                => Phase(b)' = "draining"
           /\ session'[b] # "none" /\ b \in data_map' /\ ~data_msg'[b].is_eof
                => Phase(b)' = "serving"
<1>1. ASSUME session'[b] = "none" PROVE Phase(b)' = "absent"
  BY <1>1 DEF Phase
<1>2. ASSUME session'[b] # "none", b \notin data_map' PROVE Phase(b)' = "over"
  BY <1>2 DEF Phase
<1>3. ASSUME session'[b] # "none", b \in data_map', data_msg'[b].is_eof
      PROVE Phase(b)' = "draining"
  BY <1>3 DEF Phase
<1>4. ASSUME session'[b] # "none", b \in data_map', ~data_msg'[b].is_eof
      PROVE Phase(b)' = "serving"
  BY <1>4 DEF Phase
<1> QED
  BY <1>1, <1>2, <1>3, <1>4

\* A step that opens no session and changes no entry keeps the phase.
LEMMA SamePhase ==
    ASSUME NEW b \in Conns, session'[b] = "none" <=> session[b] = "none",
           b \in data_map' <=> b \in data_map, data_msg'[b].is_eof = data_msg[b].is_eof
    PROVE  Phase(b)' = Phase(b)
BY PhaseCases, NextPhaseCases

\* What a connection has outstanding, by access_num.
LEMMA OutstandingBy ==
    ASSUME IndInv, IndInv', NEW b \in Conns
    PROVE  /\ Outstanding(b) = data_msg[b].access_num + (IF io[b] = "posted" THEN 1 ELSE 0)
           /\ Outstanding(b)' = data_msg'[b].access_num + (IF io'[b] = "posted" THEN 1 ELSE 0)
           /\ data_msg[b].access_num \in Nat /\ data_msg'[b].access_num \in Nat
           /\ Outstanding(b) \in Nat
<1>1. data_msg[b] \in Message /\ data_msg'[b] \in Message
  BY DEF IndInv, TypeOK
<1>2. data_msg[b].access_num \in Nat /\ data_msg'[b].access_num \in Nat
  BY <1>1 DEF Message
<1>3. /\ Outstanding(b) = data_msg[b].access_num + (IF io[b] = "posted" THEN 1 ELSE 0)
      /\ Outstanding(b)' = data_msg'[b].access_num + (IF io'[b] = "posted" THEN 1 ELSE 0)
  BY DEF IndInv, Counts
<1> QED
  BY <1>2, <1>3

\* Phases and leases stay.
LEMMA Stutters ==
    ASSUME \A b \in Conns : Phase(b)' = Phase(b),
           \A b \in Conns : Outstanding(b)' = Outstanding(b)
    PROVE  [Lease!Next]_(Lease!vars)
BY DEF Lease!vars

\* Most steps touch neither the entries nor the jobs.
LEMMA NoLease ==
    ASSUME UNCHANGED <<session, data_map, io_decoder, djob>>,
           \A b \in Conns : data_msg'[b].is_eof = data_msg[b].is_eof
    PROVE  [Lease!Next]_(Lease!vars)
<1>1. \A b \in Conns : Phase(b)' = Phase(b)
  BY SamePhase
<1>2. \A b \in Conns : Outstanding(b)' = Outstanding(b)
  BY DEF Outstanding, Queued, Running
<1> QED
  BY <1>1, <1>2, Stutters

\* One connection changes its phase and nothing else.
LEMMA OneMoves ==
    ASSUME NEW c \in Conns, NEW p, NEW q, Phase(c) = p, Phase(c)' = q,
           \A b \in Conns : b # c => Phase(b)' = Phase(b),
           \A b \in Conns : Outstanding(b)' = Outstanding(b)
    PROVE  /\ Lease!Moves(c, p, q)
           /\ UNCHANGED [b \in Conns |-> Outstanding(b)]
BY DEF Lease!Moves

\* A connection whose is_eof is set while it serves drains; one that drains
\* already, or is over, stays as it is.
LEMMA EofDrains ==
    ASSUME NEW c \in Conns, session[c] # "none", data_msg'[c].is_eof,
           \A b \in Conns : b # c => data_msg'[b] = data_msg[b],
           \A b \in Conns : session'[b] = "none" <=> session[b] = "none",
           UNCHANGED <<data_map, io_decoder, djob>>
    PROVE  [Lease!Next]_(Lease!vars)
<1>1. \A b \in Conns : b # c => Phase(b)' = Phase(b)
  BY SamePhase
<1>2. \A b \in Conns : Outstanding(b)' = Outstanding(b)
  BY DEF Outstanding, Queued, Running
<1>3. CASE c \in data_map /\ ~data_msg[c].is_eof
  <2>1. Phase(c) = "serving" /\ Phase(c)' = "draining"
    BY <1>3, PhaseCases, NextPhaseCases
  <2> QED
    BY <1>1, <1>2, <2>1, OneMoves DEF Lease!Next, Lease!Drain
<1>4. CASE ~(c \in data_map /\ ~data_msg[c].is_eof)
  <2>1. Phase(c)' = Phase(c)
    BY <1>4, PhaseCases, NextPhaseCases
  <2> QED
    BY <1>1, <1>2, <2>1, Stutters
<1> QED
  BY <1>3, <1>4

\* on_open takes an absent connection into service.
LEMMA ClientLeases ==
    ASSUME IndInv, NEW c \in Conns, Client(c)
    PROVE  [Lease!Next]_(Lease!vars)
<1> USE DEF mapVars, lockVars, jobVars, cleanVars, replyVars
<1>1. ASSUME OnOpen(c) PROVE [Lease!Next]_(Lease!vars)
  <2>1. /\ session[c] = "none" /\ session' = [session EXCEPT ![c] = "open"]
        /\ data_map' = data_map \cup {c}
        /\ UNCHANGED <<data_msg, io_decoder, djob>>
    BY <1>1 DEF OnOpen
  <2>2. session'[c] = "open" /\ c \in data_map'
    BY <2>1 DEF IndInv, TypeOK
  <2>3. \A b \in Conns : b # c => Phase(b)' = Phase(b)
    BY <2>1, SamePhase
  <2>4. \A b \in Conns : Outstanding(b)' = Outstanding(b)
    BY <2>1 DEF Outstanding, Queued, Running
  <2>5. Phase(c) = "absent"
    BY <2>1, PhaseCases
  <2>6. ~data_msg'[c].is_eof
    BY <2>1 DEF IndInv, Handlers
  <2>7. Phase(c)' = "serving"
    BY <2>2, <2>6, NextPhaseCases
  <2> QED
    BY <2>3, <2>4, <2>5, <2>7, OneMoves DEF Lease!Next, Lease!Open
<1>2. ASSUME SessionShuts(c) PROVE [Lease!Next]_(Lease!vars)
  <2>1. \A b \in Conns : session'[b] = "none" <=> session[b] = "none"
    BY <1>2 DEF SessionShuts, IndInv, TypeOK
  <2>2. UNCHANGED <<data_map, data_msg, io_decoder, djob>>
    BY <1>2 DEF SessionShuts
  <2> QED
    BY <2>1, <2>2, SamePhase, Stutters DEF Outstanding, Queued, Running
<1>3. ASSUME Delivered(c) PROVE [Lease!Next]_(Lease!vars)
  BY <1>3, NoLease DEF Delivered
<1> QED
  BY <1>1, <1>2, <1>3 DEF Client

\* on_message drains the connection, posts a job, or does neither.
LEMMA OnMessageLeases ==
    ASSUME IndInv, IndInv', NEW c \in Conns, OnMessage(c)
    PROVE  [Lease!Next]_(Lease!vars)
<1> USE DEF cleanVars
<1>1. ASSUME ParseFails(c) PROVE [Lease!Next]_(Lease!vars)
  <2>1. session[c] # "none"
    BY <1>1 DEF ParseFails, Handler, IndInv, Handlers
  <2>2. /\ data_msg'[c].is_eof
        /\ \A b \in Conns : b # c => data_msg'[b] = data_msg[b]
    BY <1>1 DEF ParseFails, IndInv, TypeOK, Message
  <2> QED
    BY <1>1, <2>1, <2>2, EofDrains DEF ParseFails, Handler
<1>2. ASSUME \/ TextBegins(c) \/ HotwordsLoaded(c) \/ Counted(c) \/ Binary(c)
             \/ \E o \in Options : TextConfigures(c, o)
      PROVE  [Lease!Next]_(Lease!vars)
  <2>1. UNCHANGED <<session, data_map, io_decoder, djob>>
    BY <1>2 DEF TextBegins, HotwordsLoaded, Counted, Binary, TextConfigures, Handler
  <2>2. \A b \in Conns : data_msg'[b].is_eof = data_msg[b].is_eof
    <3>1. data_msg \in [Conns -> Message]
      BY DEF IndInv, TypeOK
    <3>2. CASE TextBegins(c)
      BY <3>2 DEF TextBegins
    <3>3. CASE HotwordsLoaded(c)
      BY <3>1, <3>3 DEF HotwordsLoaded, Message
    <3>4. CASE Counted(c)
      BY <3>1, <3>4 DEF Counted, Message
    <3>5. CASE Binary(c)
      BY <3>1, <3>5 DEF Binary, Message
    <3>6. CASE \E o \in Options : TextConfigures(c, o)
      BY <3>1, <3>6 DEF TextConfigures, Message
    <3> QED
      BY <1>2, <3>2, <3>3, <3>4, <3>5, <3>6
  <2> QED
    BY <2>1, <2>2, NoLease
<1>3. ASSUME NEW o \in Options, TextEndsSpeech(c, o)
      PROVE  [Lease!Next]_(Lease!vars)
  <2>1. /\ UNCHANGED <<session, data_map>> /\ io[c] = "config" /\ ~data_msg[c].is_eof
        /\ io' = [io EXCEPT ![c] = "posted"]
    BY <1>3 DEF TextEndsSpeech, Handler
  <2>2. \A b \in Conns : /\ data_msg'[b].is_eof = data_msg[b].is_eof
                         /\ data_msg'[b].access_num = data_msg[b].access_num
    <3>1. data_msg \in [Conns -> Message]
      BY DEF IndInv, TypeOK
    <3>2. data_msg' = [data_msg EXCEPT ![c] = [data_msg[c] EXCEPT !.opts = o, !.audio = FALSE]]
      BY <1>3, <3>1 DEF TextEndsSpeech
    <3> QED
      BY <3>1, <3>2 DEF Message
  <2>3. \A b \in Conns : Phase(b)' = Phase(b)
    BY <2>1, <2>2, SamePhase
  <2>4. Phase(c) = "serving"
    BY <2>1, PhaseCases DEF IndInv, Handlers
  <2>5. ASSUME NEW b \in Conns
        PROVE  Outstanding(b)' = IF b = c THEN Outstanding(c) + 1 ELSE Outstanding(b)
    <3>1. io'[b] = IF b = c THEN "posted" ELSE io[b]
      BY <2>1 DEF IndInv, TypeOK
    <3> QED
      BY <2>1, <2>2, <3>1, OutstandingBy
  <2> QED
    BY <2>3, <2>4, <2>5 DEF Lease!Next, Lease!Take
<1> QED
  BY <1>1, <1>2, <1>3 DEF OnMessage

\* on_close drains the connection or does nothing to its entry.
LEMMA OnCloseLeases ==
    ASSUME IndInv, NEW c \in Conns, OnClose(c)
    PROVE  [Lease!Next]_(Lease!vars)
<1> USE DEF mapVars, lockVars, jobVars, cleanVars, replyVars
<1>1. ASSUME OnCloseFinds(c) PROVE [Lease!Next]_(Lease!vars)
  BY <1>1, NoLease DEF OnCloseFinds
<1>2. ASSUME OnCloseMissing(c) PROVE [Lease!Next]_(Lease!vars)
  <2>1. \A b \in Conns : session'[b] = "none" <=> session[b] = "none"
    BY <1>2 DEF OnCloseMissing, IndInv, TypeOK
  <2>2. UNCHANGED <<data_map, data_msg, io_decoder, djob>>
    BY <1>2 DEF OnCloseMissing
  <2> QED
    BY <2>1, <2>2, SamePhase, Stutters DEF Outstanding, Queued, Running
<1>3. ASSUME OnCloseMarks(c) PROVE [Lease!Next]_(Lease!vars)
  <2>1. session[c] # "none"
    BY <1>3 DEF OnCloseMarks, IndInv, Handlers
  <2>2. \A b \in Conns : session'[b] = "none" <=> session[b] = "none"
    BY <1>3, <2>1 DEF OnCloseMarks, IndInv, TypeOK
  <2>3. /\ data_msg'[c].is_eof
        /\ \A b \in Conns : b # c => data_msg'[b] = data_msg[b]
    BY <1>3 DEF OnCloseMarks, IndInv, TypeOK, Message
  <2> QED
    BY <1>3, <2>1, <2>2, <2>3, EofDrains DEF OnCloseMarks
<1> QED
  BY <1>1, <1>2, <1>3 DEF OnClose

\* do_decoder returns a lease at its end; taking a job from the queue moves it.
LEMMA DecoderLeases ==
    ASSUME IndInv, IndInv', NEW d \in Decoders, Decoder(d)
    PROVE  [Lease!Next]_(Lease!vars)
<1> USE DEF ioVars, mapVars, lockVars, cleanVars, replyVars
<1>1. ASSUME \/ EmptyJobReplies(d) \/ SetsConfig(d) \/ LoadFails(d) \/ CutSplit(d)
             \/ Replies(d)
      PROVE  [Lease!Next]_(Lease!vars)
  BY <1>1, NoLease DEF EmptyJobReplies, SetsConfig, LoadFails, CutSplit, Replies, Answers, Step
<1>2. ASSUME JobStarts(d) PROVE [Lease!Next]_(Lease!vars)
  <2>1. UNCHANGED <<session, io, data_map, data_msg>>
    BY <1>2 DEF JobStarts
  <2>2. \A b \in Conns : Phase(b)' = Phase(b)
    BY <2>1, SamePhase
  <2>3. \A b \in Conns : Outstanding(b)' = Outstanding(b)
    BY <2>1, OutstandingBy
  <2> QED
    BY <2>2, <2>3, Stutters
<1>3. ASSUME JobFinishes(d) PROVE [Lease!Next]_(Lease!vars)
  <2>1. PICK c \in Conns : c = djob[d].conn
    BY <1>3 DEF IndInv, TypeOK, JobsNamed, Job, JobFinishes
  <2>2. /\ UNCHANGED <<session, io, data_map>>
        /\ data_msg' = [data_msg EXCEPT ![c] = CountedOff(data_msg[c])]
        /\ thread_lock[c] = "free"
    BY <1>3, <2>1 DEF JobFinishes
  <2>3. \A b \in Conns :
           /\ data_msg'[b].is_eof = data_msg[b].is_eof
           /\ data_msg'[b].access_num =
                 IF b = c THEN data_msg[b].access_num - 1 ELSE data_msg[b].access_num
    <3>1. data_msg \in [Conns -> Message]
      BY DEF IndInv, TypeOK
    <3> QED
      BY <2>2, <3>1 DEF CountedOff, Message
  <2>4. io[c] # "posted"
    BY <2>2 DEF IndInv, Handlers
  <2>5. ASSUME NEW b \in Conns
        PROVE  Outstanding(b)' = IF b = c THEN Outstanding(b) - 1 ELSE Outstanding(b)
    BY <2>2, <2>3, <2>4, OutstandingBy
  <2>6. Outstanding(c) > 0
    <3>1. Outstanding(c) = data_msg[c].access_num /\ data_msg[c].access_num - 1 \in Nat
      BY <2>3, <2>4, OutstandingBy
    <3> QED
      BY <3>1, OutstandingBy
  <2>7. \A b \in Conns : Phase(b)' = Phase(b)
    BY <2>2, <2>3, SamePhase
  <2> QED
    BY <2>5, <2>6, <2>7 DEF Lease!Next, Lease!Return
<1> QED
  BY <1>1, <1>2, <1>3 DEF Decoder

\* The cleaner drains a connection that is gone, and frees one without leases.
LEMMA CleanerLeases ==
    ASSUME IndInv, IndInv', Cleaner
    PROVE  [Lease!Next]_(Lease!vars)
<1> USE DEF ioVars, mapVars, lockVars, jobVars, replyVars
<1>1. ASSUME SweepStarts \/ SweepEnds \/ SweepSleeps \/ \E c \in Conns : RemoveLocks(c)
      PROVE  [Lease!Next]_(Lease!vars)
  BY <1>1, NoLease DEF SweepStarts, SweepEnds, SweepSleeps, RemoveLocks
<1>2. ASSUME NEW c \in Conns, SweepVisits(c) PROVE [Lease!Next]_(Lease!vars)
  <2>1. /\ session[c] # "none" /\ UNCHANGED <<session, data_map, io_decoder, djob>>
        /\ \A b \in Conns : b # c => data_msg'[b] = data_msg[b]
    BY <1>2 DEF SweepVisits, IndInv, TypeOK, Collected
  <2>2. CASE session[c] = "gone"
    <3>1. data_msg'[c].is_eof
      BY <1>2, <2>2 DEF SweepVisits, IndInv, TypeOK, Message
    <3> QED
      BY <2>1, <3>1, EofDrains
  <2>3. CASE session[c] # "gone"
    <3>1. data_msg'[c].is_eof = data_msg[c].is_eof
      BY <1>2, <2>3 DEF SweepVisits, IndInv, TypeOK, Message
    <3> QED
      BY <2>1, <3>1, NoLease
  <2> QED
    BY <2>2, <2>3
<1>3. ASSUME Remove PROVE [Lease!Next]_(Lease!vars)
  <2>1. PICK c \in Conns : c = hdl
    BY <1>3 DEF Remove, IndInv, Collected
  <2>2. /\ UNCHANGED <<session, io, data_msg, io_decoder, djob>> /\ thread_lock[c] = "free"
        /\ data_map' = IF Removable(data_msg[c]) THEN data_map \ {c} ELSE data_map
    BY <1>3, <2>1 DEF Remove
  <2>3. \A b \in Conns : Outstanding(b)' = Outstanding(b)
    BY <2>2 DEF Outstanding, Queued, Running
  <2>4. \A b \in Conns : b # c => Phase(b)' = Phase(b)
    BY <2>2, SamePhase
  <2>5. CASE ~(c \in data_map /\ Removable(data_msg[c]))
    <3>1. Phase(c)' = Phase(c)
      BY <2>2, <2>5, SamePhase
    <3> QED
      BY <2>3, <2>4, <3>1, Stutters
  <2>6. CASE c \in data_map /\ Removable(data_msg[c])
    <3>1. session[c] # "none" /\ data_msg[c].is_eof /\ data_msg[c].access_num = 0
      BY <2>6 DEF Removable, IndInv, Collected
    <3>2. Phase(c) = "draining"
      BY <2>6, <3>1, PhaseCases
    <3>3. Phase(c)' = "over"
      BY <2>2, <2>6, <3>1, NextPhaseCases
    <3>4. io[c] # "posted"
      BY <2>2 DEF IndInv, Handlers
    <3>5. Outstanding(c) = 0
      BY <3>1, <3>4, OutstandingBy
    <3> QED
      BY <2>3, <2>4, <3>2, <3>3, <3>5, OneMoves DEF Lease!Next, Lease!Free
  <2> QED
    BY <2>5, <2>6
<1> QED
  BY <1>1, <1>2, <1>3 DEF Cleaner

\* The offline server implements the lease specification: a job is accepted only
\* while its connection serves, and an entry goes only when it drains and none of
\* its jobs is left, on any thread.
THEOREM Refinement == Spec => LeaseSafety
<1>1. Init => Lease!Init
  <2> SUFFICES ASSUME Init PROVE Lease!Init
    OBVIOUS
  <2>1. \A c \in Conns : data_msg[c].access_num = 0 /\ io[c] = "idle" /\ session[c] = "none"
    BY DEF Init, NewMessage
  <2>2. \A c \in Conns : Outstanding(c) = 0
    BY <2>1, InitInv DEF IndInv, Counts
  <2>3. \A c \in Conns : Phase(c) = "absent"
    BY <2>1, PhaseCases
  <2> QED
    BY <2>2, <2>3 DEF Lease!Init
<1>2. IndInv /\ IndInv' /\ [Next]_vars => [Lease!Next]_(Lease!vars)
  <2> SUFFICES ASSUME IndInv, IndInv', [Next]_vars PROVE [Lease!Next]_(Lease!vars)
    OBVIOUS
  <2>1. CASE UNCHANGED vars
    BY <2>1, NoLease DEF vars, ioVars, mapVars, jobVars
  <2> QED
    BY <2>1, ClientLeases, OnMessageLeases, OnCloseLeases, DecoderLeases, CleanerLeases
       DEF Next
<1> QED
  BY <1>1, <1>2, Invariance, PTL DEF Spec, LeaseSafety, Lease!Spec
=============================================================================
