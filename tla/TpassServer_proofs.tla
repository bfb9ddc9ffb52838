--------------------------- MODULE TpassServer_proofs --------------------------
(***************************************************************************)
(* Proofs about TpassServer, for any number of connections, decoder threads *)
(* and messages: the lifetime of entries and handles, which implements      *)
(* SessionLease; that no audio is skipped or repeated; that final replies   *)
(* are sent once.                                                           *)
(***************************************************************************)
EXTENDS TpassServer, TLAPS, FiniteSetTheorems

\* What a binary message cuts off samples is never more than samples holds.
LEMMA CutOffBounded ==
    ASSUME NEW n \in Nat
    PROVE  CutOff(n) \in Nat /\ CutOff(n) <= n
<1>1. n \div Setp \in Nat /\ (n \div Setp) * Setp <= n
  BY SetpAssumption, SMT
<1>2. (n \div Setp) * Setp \in Nat
  BY <1>1, SetpAssumption, SMT
<1> QED BY <1>1, <1>2 DEF CutOff

\* A step that neither posts nor starts nor finishes a job leaves the number of
\* jobs of every connection as it is.
LEMMA SameOutstanding ==
    ASSUME UNCHANGED <<strand, dconn>>
    PROVE  \A b \in Conns : Outstanding(b)' = Outstanding(b)
BY DEF Outstanding, Running

\* The two cases of Outstanding, before and after a step.
LEMMA OutstandingCases ==
    ASSUME NEW b \in Conns
    PROVE  /\ Running(b)  => Outstanding(b) = Len(strand[b]) + 1
           /\ ~Running(b) => Outstanding(b) = Len(strand[b]) + 0
           /\ Running(b)'  => Outstanding(b)' = Len(strand'[b]) + 1
           /\ ~Running(b)' => Outstanding(b)' = Len(strand'[b]) + 0
BY DEF Outstanding

\* The jobs of a connection can be counted.
LEMMA OutstandingNat ==
    ASSUME TypeJobs, NEW b \in Conns
    PROVE  Outstanding(b) \in Nat
BY OutstandingCases DEF TypeJobs, Outstanding

\* Initially no thread is anywhere and no connection exists.
LEMMA InitInv == Init => IndInv
<1> SUFFICES ASSUME Init PROVE IndInv
  OBVIOUS
<1> USE DEF Init
<1>1. TypeOK
  BY DEF TypeOK, TypeIo, TypeEntry, TypeLocks, TypeJobs, TypeCleaner,
         TypeAudio, Job, NoJob
<1>2. \A c \in Conns : ~Running(c) /\ Outstanding(c) = 0
  BY ConnsAssumption DEF Running, Outstanding
<1>3. StrandExclusive /\ Locks /\ HandlersKeepEntry /\ Collected
  BY DEF StrandExclusive, Locks, HandlersKeepEntry, Collected
<1>4. AccessCounts /\ Entries /\ Loading
  BY <1>2 DEF AccessCounts, Entries, Loading
<1> QED BY <1>1, <1>3, <1>4 DEF IndInv

\* An end of speech adds one job to its connection.
LEMMA TextPostsOne ==
    ASSUME IndInv, NEW c \in Conns, NEW chunk \in Chunks, TextEndsSpeech(c, chunk)
    PROVE  \A b \in Conns : Outstanding(b)' = IF b = c THEN Outstanding(c) + 1 ELSE Outstanding(b)
<1> USE ConnsAssumption, SetpAssumption
    DEF IndInv, TypeOK, ioVars, entryVars, lockVars, decVars, cleanVars, audioVars
<1>a. [from |-> rcvd[c] - samples[c], to |-> rcvd[c], final |-> TRUE] \in Job
  BY DEF TypeAudio, Loading, Job
<1>1. Running(c)' <=> Running(c)
  BY DEF TextEndsSpeech, Running
<1>2. strand'[c] = Append(strand[c], 
        [from |-> rcvd[c] - samples[c], to |-> rcvd[c], final |-> TRUE])
  BY DEF TypeJobs, TextEndsSpeech, Post
<1>3. Len(strand'[c]) = Len(strand[c]) + 1
  BY <1>2, <1>a DEF TypeJobs
<1>4. ASSUME NEW b \in Conns, b # c PROVE Outstanding(b)' = Outstanding(b)
  BY <1>4 DEF TypeJobs, Outstanding, Running, TextEndsSpeech, Post
<1>5. Len(strand[c]) \in Nat
  BY DEF TypeJobs
<1>6. Outstanding(c)' = Outstanding(c) + 1
  BY <1>1, <1>3, <1>5, OutstandingCases
<1> QED BY <1>4, <1>6

\* A binary message that posts adds one job to its connection.
LEMMA BinaryPostsOne ==
    ASSUME IndInv, NEW c \in Conns, NEW n \in MsgSizes, BinaryPosted(c, n)
    PROVE  \A b \in Conns : Outstanding(b)' = IF b = c THEN Outstanding(c) + 1 ELSE Outstanding(b)
<1> USE ConnsAssumption, SetpAssumption
    DEF IndInv, TypeOK, ioVars, entryVars, lockVars, decVars, cleanVars, audioVars
<1>a. n \in Nat /\ samples[c] + n \in Nat /\ rcvd[c] - samples[c] \in Nat /\ rcvd[c] \in Nat /\ samples[c] \in Nat
  BY MsgSizesAssumption DEF TypeAudio, Loading
<1>b. CutOff(samples[c] + n) \in Nat /\ CutOff(samples[c] + n) <= samples[c] + n
  BY <1>a, CutOffBounded
<1>c. [from |-> rcvd[c] - samples[c], to |-> rcvd[c] - samples[c] + CutOff(samples[c] + n), final |-> FALSE]
          \in Job
  BY <1>a, <1>b DEF Job
<1>d. samples' = [samples EXCEPT ![c] = samples[c] + n - CutOff(samples[c] + n)]
       /\ rcvd' = [rcvd EXCEPT ![c] = rcvd[c] + n]
  BY DEF TypeAudio, BinaryPosted
<1>1. Running(c)' <=> Running(c)
  BY DEF BinaryPosted, Running
<1>2. strand'[c] = Append(strand[c], 
        [from |-> rcvd[c] - samples[c], to |-> rcvd[c] - samples[c] + CutOff(samples[c] + n), final |-> FALSE])
  BY DEF TypeJobs, BinaryPosted, Post
<1>3. Len(strand'[c]) = Len(strand[c]) + 1
  BY <1>2, <1>c DEF TypeJobs
<1>4. ASSUME NEW b \in Conns, b # c PROVE Outstanding(b)' = Outstanding(b)
  BY <1>4 DEF TypeJobs, Outstanding, Running, BinaryPosted, Post
<1>5. Len(strand[c]) \in Nat
  BY DEF TypeJobs
<1>6. Outstanding(c)' = Outstanding(c) + 1
  BY <1>1, <1>3, <1>5, OutstandingCases
<1> QED BY <1>4, <1>6

\* Starting a job moves it from the strand to a thread: the count stays.
LEMMA StartKeepsCount ==
    ASSUME IndInv, NEW d \in Decoders, NEW c \in Conns, JobStarts(d, c)
    PROVE  \A b \in Conns : Outstanding(b)' = Outstanding(b)
<1> USE ConnsAssumption, SetpAssumption
    DEF IndInv, TypeOK, ioVars, entryVars, lockVars, decVars, cleanVars, audioVars
<1>a. Head(strand[c]) \in Job /\ Tail(strand[c]) \in Seq(Job)
  BY DEF TypeJobs, JobStarts
<1>b. Len(strand[c]) = Len(Tail(strand[c])) + 1
  BY DEF TypeJobs, JobStarts
<1>1. Outstanding(c)' = Outstanding(c)
  <2>1. ~Running(c)
    BY DEF JobStarts, StrandIdle, Running
  <2>2. Running(c)'
    BY DEF TypeJobs, JobStarts, Running
  <2>3. strand'[c] = Tail(strand[c])
    BY DEF TypeJobs, JobStarts
  <2> QED BY <2>1, <2>2, <2>3, <1>a, <1>b DEF Outstanding
<1>2. ASSUME NEW b \in Conns, b # c PROVE Outstanding(b)' = Outstanding(b)
  <2>1. strand'[b] = strand[b]
    BY <1>2 DEF TypeJobs, JobStarts
  <2>2. Running(b)' <=> Running(b)
    BY <1>2 DEF TypeJobs, StrandExclusive, JobStarts, Running
  <2> QED BY <2>1, <2>2 DEF Outstanding
<1> QED BY <1>1, <1>2

\* Finishing a job takes one off its connection, whose entry it still counted in.
LEMMA FinishTakesOne ==
    ASSUME IndInv, NEW d \in Decoders, NEW c \in Conns, c = dconn[d],
           JobFinishes(d)
    PROVE  /\ Outstanding(c) > 0
           /\ access_num[c] = Outstanding(c)
           /\ \A b \in Conns :
                Outstanding(b)' = IF b = c THEN Outstanding(b) - 1 ELSE Outstanding(b)
<1> USE ConnsAssumption, SetpAssumption
    DEF IndInv, TypeOK, ioVars, entryVars, lockVars, decVars, cleanVars, audioVars
<1>b. io[c] # "posted"
  BY DEF Locks, JobFinishes
<1>c. Running(c)
  BY DEF Running
<1>d. Len(strand[c]) \in Nat
  BY DEF TypeJobs
<1>e. access_num[c] = Len(strand[c]) + 1
  BY <1>b, <1>c, <1>d, OutstandingCases DEF TypeEntry, AccessCounts
<1>1. ~Running(c)'
  <2> SUFFICES ASSUME NEW e \in Decoders, dconn'[e] = c PROVE FALSE
    BY DEF Running
  <2>1. e # d
    BY DEF TypeJobs, JobFinishes
  <2>2. dconn[e] = c
    BY <2>1 DEF TypeJobs, JobFinishes
  <2> QED BY <2>1, <2>2 DEF StrandExclusive
<1>2. ASSUME NEW b \in Conns, b # c PROVE Running(b)' <=> Running(b)
  BY <1>2 DEF TypeJobs, JobFinishes, Running
<1>3. strand' = strand
  BY DEF JobFinishes
<1>4. Outstanding(c)' = Outstanding(c) - 1
  BY <1>1, <1>3, <1>c, <1>d, OutstandingCases
<1>5. ASSUME NEW b \in Conns, b # c PROVE Outstanding(b)' = Outstanding(b)
  BY <1>2, <1>3, <1>5, OutstandingCases
<1>6. Outstanding(c) = Len(strand[c]) + 1
  BY <1>c, <1>d, OutstandingCases
<1> QED BY <1>4, <1>5, <1>6, <1>d, <1>e

\* Opening, shutting and destroying a session, and looking a message's
\* connection up, preserve the invariant.
LEMMA ClientInv ==
    ASSUME IndInv, NEW c \in Conns, Client(c)
    PROVE  IndInv'
<1> USE ConnsAssumption, SetpAssumption
    DEF IndInv, TypeOK, ioVars, entryVars, lockVars, decVars, cleanVars, audioVars
<1>1. ASSUME OnOpen(c) PROVE IndInv'
  <2>1. \A b \in Conns : Outstanding(b)' = Outstanding(b)
    BY <1>1, SameOutstanding DEF OnOpen
  <2>2. TypeLocks' /\ TypeJobs' /\ TypeAudio'
    BY <1>1 DEF TypeLocks, TypeJobs, TypeAudio, OnOpen
  <2>3. StrandExclusive' /\ AccessCounts' /\ Locks' /\ Loading'
    BY <1>1, <2>1 DEF StrandExclusive, AccessCounts, Locks, Loading, OnOpen
  <2>4. TypeIo'
    BY <1>1 DEF TypeIo, OnOpen
  <2>5. TypeEntry'
    BY <1>1 DEF TypeEntry, OnOpen
  <2>6. TypeCleaner'
    BY <1>1 DEF TypeCleaner, OnOpen
  <2>7. HandlersKeepEntry'
    BY <1>1 DEF TypeIo, TypeEntry, HandlersKeepEntry, OnOpen
  <2>8. Entries'
    BY <1>1, <2>1 DEF TypeIo, TypeEntry, Locks, HandlersKeepEntry,
      AccessCounts, Entries, OnOpen
  <2>9. Collected'
    BY <1>1 DEF TypeIo, TypeEntry, TypeCleaner, Locks, Entries, Collected,
      OnOpen
  <2> QED BY <2>2, <2>3, <2>4, <2>5, <2>6, <2>7, <2>8, <2>9
<1>2. ASSUME OnOpenFails(c) PROVE IndInv'
  <2>1. \A b \in Conns : Outstanding(b)' = Outstanding(b)
    BY <1>2, SameOutstanding DEF OnOpenFails
  <2>2. TypeEntry' /\ TypeLocks' /\ TypeJobs' /\ TypeCleaner' /\ TypeAudio'
    BY <1>2 DEF TypeEntry, TypeLocks, TypeJobs, TypeCleaner, TypeAudio,
      OnOpenFails
  <2>3. StrandExclusive' /\ AccessCounts' /\ Locks' /\ Loading'
    BY <1>2, <2>1 DEF StrandExclusive, AccessCounts, Locks, Loading,
      OnOpenFails
  <2>4. TypeIo'
    BY <1>2 DEF TypeIo, OnOpenFails
  <2>5. HandlersKeepEntry'
    BY <1>2 DEF TypeIo, TypeEntry, HandlersKeepEntry, OnOpenFails
  <2>6. Entries'
    BY <1>2, <2>1 DEF TypeIo, TypeEntry, Locks, HandlersKeepEntry,
      AccessCounts, Entries, OnOpenFails
  <2>7. Collected'
    BY <1>2 DEF TypeIo, TypeEntry, TypeCleaner, Locks, Entries, Collected,
      OnOpenFails
  <2> QED BY <2>2, <2>3, <2>4, <2>5, <2>6, <2>7
<1>3. ASSUME SessionShuts(c) PROVE IndInv'
  <2>1. \A b \in Conns : Outstanding(b)' = Outstanding(b)
    BY <1>3, SameOutstanding DEF SessionShuts
  <2>2. TypeEntry' /\ TypeLocks' /\ TypeJobs' /\ TypeCleaner' /\ TypeAudio'
    BY <1>3 DEF TypeEntry, TypeLocks, TypeJobs, TypeCleaner, TypeAudio,
      SessionShuts
  <2>3. StrandExclusive' /\ AccessCounts' /\ Locks' /\ Loading'
    BY <1>3, <2>1 DEF StrandExclusive, AccessCounts, Locks, Loading,
      SessionShuts
  <2>4. TypeIo'
    BY <1>3 DEF TypeIo, SessionShuts
  <2>5. HandlersKeepEntry'
    BY <1>3 DEF TypeIo, TypeEntry, HandlersKeepEntry, SessionShuts
  <2>6. Entries'
    BY <1>3, <2>1 DEF TypeIo, TypeEntry, Locks, HandlersKeepEntry,
      AccessCounts, Entries, SessionShuts
  <2>7. Collected'
    BY <1>3 DEF TypeIo, TypeEntry, TypeCleaner, Locks, Entries, Collected,
      SessionShuts
  <2> QED BY <2>2, <2>3, <2>4, <2>5, <2>6, <2>7
<1>4. ASSUME SessionDestroyed(c) PROVE IndInv'
  <2>1. \A b \in Conns : Outstanding(b)' = Outstanding(b)
    BY <1>4, SameOutstanding DEF SessionDestroyed
  <2>2. TypeEntry' /\ TypeLocks' /\ TypeJobs' /\ TypeCleaner' /\ TypeAudio'
    BY <1>4 DEF TypeEntry, TypeLocks, TypeJobs, TypeCleaner, TypeAudio,
      SessionDestroyed
  <2>3. StrandExclusive' /\ AccessCounts' /\ Locks' /\ Loading'
    BY <1>4, <2>1 DEF StrandExclusive, AccessCounts, Locks, Loading,
      SessionDestroyed
  <2>4. TypeIo'
    BY <1>4 DEF TypeIo, SessionDestroyed
  <2>5. HandlersKeepEntry'
    BY <1>4 DEF TypeIo, TypeEntry, HandlersKeepEntry, SessionDestroyed
  <2>6. Entries'
    BY <1>4, <2>1 DEF TypeIo, TypeEntry, Locks, HandlersKeepEntry,
      AccessCounts, Entries, SessionDestroyed
  <2>7. Collected'
    BY <1>4 DEF TypeIo, TypeEntry, TypeCleaner, Locks, Entries, Collected,
      SessionDestroyed
  <2> QED BY <2>2, <2>3, <2>4, <2>5, <2>6, <2>7
<1>5. ASSUME OnMessageIgnored(c) PROVE IndInv'
  <2>1. \A b \in Conns : Outstanding(b)' = Outstanding(b)
    BY <1>5, SameOutstanding DEF OnMessageIgnored, Delivered
  <2>2. TypeEntry' /\ TypeLocks' /\ TypeJobs' /\ TypeCleaner' /\ TypeAudio'
    BY <1>5 DEF TypeEntry, TypeLocks, TypeJobs, TypeCleaner, TypeAudio,
      OnMessageIgnored, Delivered
  <2>3. StrandExclusive' /\ AccessCounts' /\ Locks' /\ HandlersKeepEntry' /\
    Entries' /\ Loading' /\ Collected'
    BY <1>5, <2>1 DEF StrandExclusive, AccessCounts, Locks, HandlersKeepEntry,
      Entries, Loading, Collected, OnMessageIgnored, Delivered
  <2>4. TypeIo'
    BY <1>5 DEF TypeIo, OnMessageIgnored, Delivered
  <2> QED BY <2>2, <2>3, <2>4
<1>6. ASSUME OnMessageFinds(c) PROVE IndInv'
  <2>1. \A b \in Conns : Outstanding(b)' = Outstanding(b)
    BY <1>6, SameOutstanding DEF OnMessageFinds, Delivered
  <2>2. TypeEntry' /\ TypeLocks' /\ TypeJobs' /\ TypeCleaner' /\ TypeAudio'
    BY <1>6 DEF TypeEntry, TypeLocks, TypeJobs, TypeCleaner, TypeAudio,
      OnMessageFinds, Delivered
  <2>3. StrandExclusive' /\ Entries' /\ Collected'
    BY <1>6, <2>1 DEF StrandExclusive, Entries, Collected, OnMessageFinds,
      Delivered
  <2>4. TypeIo'
    BY <1>6 DEF TypeIo, OnMessageFinds, Delivered
  <2>5. AccessCounts'
    BY <1>6, <2>1 DEF TypeIo, TypeEntry, AccessCounts, OnMessageFinds,
      Delivered
  <2>6. Locks'
    BY <1>6 DEF TypeIo, TypeLocks, TypeCleaner, Locks, OnMessageFinds,
      Delivered
  <2>7. HandlersKeepEntry'
    BY <1>6 DEF TypeIo, TypeEntry, HandlersKeepEntry, OnMessageFinds,
      Delivered
  <2>8. Loading'
    BY <1>6, <2>1 DEF TypeIo, TypeEntry, TypeAudio, Loading, OnMessageFinds,
      Delivered
  <2> QED BY <2>2, <2>3, <2>4, <2>5, <2>6, <2>7, <2>8
<1> QED BY <1>1, <1>2, <1>3, <1>4, <1>5, <1>6 DEF Client

\* The part of on_message under thread_lock preserves the invariant.
LEMMA OnMessageInv ==
    ASSUME IndInv, NEW c \in Conns, OnMessage(c)
    PROVE  IndInv'
<1> USE ConnsAssumption, SetpAssumption
    DEF IndInv, TypeOK, ioVars, entryVars, lockVars, decVars, cleanVars, audioVars
<1>1. ASSUME ParseFails(c) PROVE IndInv'
  <2>1. \A b \in Conns : Outstanding(b)' = Outstanding(b)
    BY <1>1, SameOutstanding DEF ParseFails, Handler
  <2>2. TypeJobs' /\ TypeCleaner' /\ TypeAudio'
    BY <1>1 DEF TypeJobs, TypeCleaner, TypeAudio, ParseFails, Handler
  <2>3. StrandExclusive' /\ Collected'
    BY <1>1 DEF StrandExclusive, Collected, ParseFails, Handler
  <2>4. TypeIo'
    BY <1>1 DEF TypeIo, ParseFails, Handler
  <2>5. TypeEntry'
    BY <1>1 DEF TypeEntry, ParseFails, Handler
  <2>6. TypeLocks'
    BY <1>1 DEF TypeLocks, ParseFails, Handler
  <2>7. AccessCounts'
    BY <1>1, <2>1 DEF TypeIo, TypeEntry, AccessCounts, ParseFails, Handler
  <2>8. Locks'
    BY <1>1 DEF TypeIo, TypeLocks, TypeCleaner, Locks, ParseFails, Handler
  <2>9. HandlersKeepEntry'
    BY <1>1 DEF TypeIo, TypeEntry, HandlersKeepEntry, ParseFails, Handler
  <2>10. Entries'
    BY <1>1, <2>1 DEF TypeIo, TypeEntry, Locks, HandlersKeepEntry,
      AccessCounts, Entries, ParseFails, Handler
  <2>11. Loading'
    BY <1>1, <2>1 DEF TypeIo, TypeEntry, TypeAudio, Loading, ParseFails,
      Handler
  <2> QED BY <2>2, <2>3, <2>4, <2>5, <2>6, <2>7, <2>8, <2>9, <2>10, <2>11
<1>2. ASSUME TextBegins(c) PROVE IndInv'
  <2>1. \A b \in Conns : Outstanding(b)' = Outstanding(b)
    BY <1>2, SameOutstanding DEF TextBegins, Handler
  <2>2. TypeEntry' /\ TypeJobs' /\ TypeCleaner' /\ TypeAudio'
    BY <1>2 DEF TypeEntry, TypeJobs, TypeCleaner, TypeAudio, TextBegins,
      Handler
  <2>3. StrandExclusive' /\ Entries' /\ Collected'
    BY <1>2, <2>1 DEF StrandExclusive, Entries, Collected, TextBegins, Handler
  <2>4. TypeIo'
    BY <1>2 DEF TypeIo, TextBegins, Handler
  <2>5. TypeLocks'
    BY <1>2 DEF TypeLocks, TextBegins, Handler
  <2>6. AccessCounts'
    BY <1>2, <2>1 DEF TypeIo, TypeEntry, AccessCounts, TextBegins, Handler
  <2>7. Locks'
    BY <1>2 DEF TypeIo, TypeLocks, TypeCleaner, Locks, TextBegins, Handler
  <2>8. HandlersKeepEntry'
    BY <1>2 DEF TypeIo, TypeEntry, HandlersKeepEntry, TextBegins, Handler
  <2>9. Loading'
    BY <1>2, <2>1 DEF TypeIo, TypeEntry, TypeAudio, Loading, TextBegins,
      Handler
  <2> QED BY <2>2, <2>3, <2>4, <2>5, <2>6, <2>7, <2>8, <2>9
<1>3. ASSUME HotwordsLoaded(c) PROVE IndInv'
  <2>1. \A b \in Conns : Outstanding(b)' = Outstanding(b)
    BY <1>3, SameOutstanding DEF HotwordsLoaded, Handler
  <2>2. TypeJobs' /\ TypeCleaner' /\ TypeAudio'
    BY <1>3 DEF TypeJobs, TypeCleaner, TypeAudio, HotwordsLoaded, Handler
  <2>3. StrandExclusive' /\ Entries' /\ Collected'
    BY <1>3, <2>1 DEF StrandExclusive, Entries, Collected, HotwordsLoaded,
      Handler
  <2>4. TypeIo'
    BY <1>3 DEF TypeIo, HotwordsLoaded, Handler
  <2>5. TypeEntry'
    BY <1>3 DEF TypeEntry, HotwordsLoaded, Handler
  <2>6. TypeLocks'
    BY <1>3 DEF TypeLocks, HotwordsLoaded, Handler
  <2>7. AccessCounts'
    BY <1>3, <2>1 DEF TypeIo, TypeEntry, AccessCounts, HotwordsLoaded, Handler
  <2>8. Locks'
    BY <1>3 DEF TypeIo, TypeLocks, TypeCleaner, Locks, HotwordsLoaded, Handler
  <2>9. HandlersKeepEntry'
    BY <1>3 DEF TypeIo, TypeEntry, HandlersKeepEntry, HotwordsLoaded, Handler
  <2>10. Loading'
    BY <1>3, <2>1 DEF TypeIo, TypeEntry, TypeAudio, Loading, HotwordsLoaded,
      Handler
  <2> QED BY <2>2, <2>3, <2>4, <2>5, <2>6, <2>7, <2>8, <2>9, <2>10
<1>4. ASSUME Counted(c) PROVE IndInv'
  <2>1. \A b \in Conns : Outstanding(b)' = Outstanding(b)
    BY <1>4, SameOutstanding DEF Counted, Handler
  <2>2. TypeJobs' /\ TypeCleaner' /\ TypeAudio'
    BY <1>4 DEF TypeJobs, TypeCleaner, TypeAudio, Counted, Handler
  <2>3. StrandExclusive' /\ Collected'
    BY <1>4 DEF StrandExclusive, Collected, Counted, Handler
  <2>4. TypeIo'
    BY <1>4 DEF TypeIo, Counted, Handler
  <2>5. TypeEntry'
    BY <1>4 DEF TypeEntry, Counted, Handler
  <2>6. TypeLocks'
    BY <1>4 DEF TypeLocks, Counted, Handler
  <2>7. AccessCounts'
    BY <1>4, <2>1 DEF TypeIo, TypeEntry, AccessCounts, Counted, Handler
  <2>8. Locks'
    BY <1>4 DEF TypeIo, TypeLocks, TypeCleaner, Locks, Counted, Handler
  <2>9. HandlersKeepEntry'
    BY <1>4 DEF TypeIo, TypeEntry, HandlersKeepEntry, Counted, Handler
  <2>10. Entries'
    BY <1>4, <2>1 DEF TypeIo, TypeEntry, Locks, HandlersKeepEntry,
      AccessCounts, Entries, Counted, Handler
  <2>11. Loading'
    BY <1>4, <2>1 DEF TypeIo, TypeEntry, TypeAudio, Loading, Counted, Handler
  <2> QED BY <2>2, <2>3, <2>4, <2>5, <2>6, <2>7, <2>8, <2>9, <2>10, <2>11
<1>5. ASSUME NEW chunk \in Chunks, NEW end \in BOOLEAN, TextConfigures(c, chunk, end) PROVE IndInv'
  <2>1. \A b \in Conns : Outstanding(b)' = Outstanding(b)
    BY <1>5, SameOutstanding DEF TextConfigures, Handler, OnlineHandleAfter
  <2>2. TypeJobs' /\ TypeCleaner' /\ TypeAudio'
    BY <1>5 DEF TypeJobs, TypeCleaner, TypeAudio, TextConfigures, Handler,
      OnlineHandleAfter
  <2>3. StrandExclusive' /\ Collected'
    BY <1>5 DEF StrandExclusive, Collected, TextConfigures, Handler,
      OnlineHandleAfter
  <2>4. TypeIo'
    BY <1>5 DEF TypeIo, TextConfigures, Handler, OnlineHandleAfter
  <2>5. TypeEntry'
    BY <1>5 DEF TypeEntry, TextConfigures, Handler, OnlineHandleAfter
  <2>6. TypeLocks'
    BY <1>5 DEF TypeLocks, TextConfigures, Handler, OnlineHandleAfter
  <2>7. AccessCounts'
    BY <1>5, <2>1 DEF TypeIo, TypeEntry, AccessCounts, TextConfigures,
      Handler, OnlineHandleAfter
  <2>8. Locks'
    BY <1>5 DEF TypeIo, TypeLocks, TypeCleaner, Locks, TextConfigures,
      Handler, OnlineHandleAfter
  <2>9. HandlersKeepEntry'
    BY <1>5 DEF TypeIo, TypeEntry, HandlersKeepEntry, TextConfigures, Handler,
      OnlineHandleAfter
  <2>10. Entries'
    BY <1>5, <2>1 DEF TypeIo, TypeEntry, Locks, HandlersKeepEntry,
      AccessCounts, Entries, TextConfigures, Handler, OnlineHandleAfter
  <2>11. Loading'
    BY <1>5, <2>1 DEF TypeIo, TypeEntry, TypeAudio, Loading, TextConfigures,
      Handler, OnlineHandleAfter
  <2> QED BY <2>2, <2>3, <2>4, <2>5, <2>6, <2>7, <2>8, <2>9, <2>10, <2>11
<1>6. ASSUME NEW chunk \in Chunks, TextEndsSpeech(c, chunk) PROVE IndInv'
  <2>a. [from |-> rcvd[c] - samples[c], to |-> rcvd[c], final |-> TRUE] \in Job
    BY DEF TypeAudio, Loading, Job
  <2>1. \A b \in Conns : Outstanding(b)' = IF b = c THEN Outstanding(c) + 1 ELSE Outstanding(b)
    BY <1>6, TextPostsOne
  <2>2. TypeCleaner'
    BY <1>6 DEF TypeCleaner, TextEndsSpeech, Handler, OnlineHandleAfter,
      MayPost, Post
  <2>3. StrandExclusive' /\ Collected'
    BY <1>6 DEF StrandExclusive, Collected, TextEndsSpeech, Handler,
      OnlineHandleAfter, MayPost, Post
  <2>4. TypeIo'
    BY <1>6, <2>a DEF TypeIo, TextEndsSpeech, Handler, OnlineHandleAfter,
      MayPost, Post
  <2>5. TypeEntry'
    BY <1>6, <2>a DEF TypeEntry, TextEndsSpeech, Handler, OnlineHandleAfter,
      MayPost, Post
  <2>6. TypeLocks'
    BY <1>6, <2>a DEF TypeLocks, TextEndsSpeech, Handler, OnlineHandleAfter,
      MayPost, Post
  <2>7. TypeJobs'
    BY <1>6, <2>a DEF TypeJobs, TextEndsSpeech, Handler, OnlineHandleAfter,
      MayPost, Post
  <2>8. TypeAudio'
    BY <1>6, <2>a DEF TypeAudio, TextEndsSpeech, Handler, OnlineHandleAfter,
      MayPost, Post
  <2>9. AccessCounts'
    BY <1>6, <2>1, <2>a DEF TypeIo, TypeEntry, AccessCounts, TextEndsSpeech,
      Handler, OnlineHandleAfter, MayPost, Post
  <2>10. Locks'
    BY <1>6, <2>a DEF TypeIo, TypeLocks, TypeCleaner, Locks, TextEndsSpeech,
      Handler, OnlineHandleAfter, MayPost, Post
  <2>11. HandlersKeepEntry'
    BY <1>6, <2>a DEF TypeIo, TypeEntry, HandlersKeepEntry, TextEndsSpeech,
      Handler, OnlineHandleAfter, MayPost, Post
  <2>12. Entries'
    BY <1>6, <2>1, <2>a DEF TypeIo, TypeEntry, Locks, HandlersKeepEntry,
      AccessCounts, Entries, TextEndsSpeech, Handler, OnlineHandleAfter,
      MayPost, Post
  <2>13. Loading'
    BY <1>6, <2>1, <2>a DEF TypeIo, TypeEntry, TypeAudio, Loading,
      TextEndsSpeech, Handler, OnlineHandleAfter, MayPost, Post
  <2> QED BY <2>2, <2>3, <2>4, <2>5, <2>6, <2>7, <2>8, <2>9, <2>10, <2>11,
    <2>12, <2>13
<1>7. ASSUME NEW n \in MsgSizes, BinaryKept(c, n) PROVE IndInv'
  <2>a. n \in Nat /\ samples[c] + n \in Nat /\ rcvd[c] - samples[c] \in Nat /\ rcvd[c] \in Nat /\ samples[c] \in Nat
    BY MsgSizesAssumption DEF TypeAudio, Loading
  <2>b. CutOff(samples[c] + n) \in Nat /\ CutOff(samples[c] + n) <= samples[c] + n
    BY <2>a, CutOffBounded
  <2>c. samples' = [samples EXCEPT ![c] = samples[c] + n - CutOff(samples[c] + n)]
       /\ rcvd' = [rcvd EXCEPT ![c] = rcvd[c] + n]
    BY <1>7 DEF TypeAudio, BinaryKept
  <2>1. \A b \in Conns : Outstanding(b)' = Outstanding(b)
    BY <1>7, SameOutstanding DEF BinaryKept, Handler
  <2>2. TypeEntry' /\ TypeJobs' /\ TypeCleaner'
    BY <1>7 DEF TypeEntry, TypeJobs, TypeCleaner, BinaryKept, Handler
  <2>3. StrandExclusive' /\ Entries' /\ Collected'
    BY <1>7, <2>1 DEF StrandExclusive, Entries, Collected, BinaryKept, Handler
  <2>4. TypeIo'
    BY <1>7, <2>a, <2>b, <2>c DEF TypeIo, BinaryKept, Handler
  <2>5. TypeLocks'
    BY <1>7, <2>a, <2>b, <2>c DEF TypeLocks, BinaryKept, Handler
  <2>6. TypeAudio'
    BY <1>7, <2>a, <2>b, <2>c DEF TypeAudio, BinaryKept, Handler
  <2>7. AccessCounts'
    BY <1>7, <2>1, <2>a, <2>b, <2>c DEF TypeIo, TypeEntry, AccessCounts,
      BinaryKept, Handler
  <2>8. Locks'
    BY <1>7, <2>a, <2>b, <2>c DEF TypeIo, TypeLocks, TypeCleaner, Locks,
      BinaryKept, Handler
  <2>9. HandlersKeepEntry'
    BY <1>7, <2>a, <2>b, <2>c DEF TypeIo, TypeEntry, HandlersKeepEntry,
      BinaryKept, Handler
  <2>10. Loading'
    <3>1. samples'[c] <= rcvd'[c]
      BY <2>a, <2>b, <2>c DEF TypeAudio, Loading
    <3>2. \A b \in Conns \ {c} : samples'[b] = samples[b] /\ rcvd'[b] = rcvd[b]
      BY <2>c DEF TypeAudio
    <3> QED BY <1>7, <2>1, <3>1, <3>2 DEF TypeIo, TypeEntry, Loading, BinaryKept, Handler
  <2> QED BY <2>2, <2>3, <2>4, <2>5, <2>6, <2>7, <2>8, <2>9, <2>10
<1>8. ASSUME NEW n \in MsgSizes, BinaryPosted(c, n) PROVE IndInv'
  <2>a. n \in Nat /\ samples[c] + n \in Nat /\ rcvd[c] - samples[c] \in Nat /\ rcvd[c] \in Nat /\ samples[c] \in Nat
    BY MsgSizesAssumption DEF TypeAudio, Loading
  <2>b. CutOff(samples[c] + n) \in Nat /\ CutOff(samples[c] + n) <= samples[c] + n
    BY <2>a, CutOffBounded
  <2>c. [from |-> rcvd[c] - samples[c], to |-> rcvd[c] - samples[c] + CutOff(samples[c] + n), final |-> FALSE]
          \in Job
    BY <2>a, <2>b DEF Job
  <2>d. samples' = [samples EXCEPT ![c] = samples[c] + n - CutOff(samples[c] + n)]
       /\ rcvd' = [rcvd EXCEPT ![c] = rcvd[c] + n]
    BY <1>8 DEF TypeAudio, BinaryPosted
  <2>1. \A b \in Conns : Outstanding(b)' = IF b = c THEN Outstanding(c) + 1 ELSE Outstanding(b)
    BY <1>8, BinaryPostsOne
  <2>2. TypeEntry' /\ TypeCleaner'
    BY <1>8 DEF TypeEntry, TypeCleaner, BinaryPosted, Handler, MayPost, Post
  <2>3. StrandExclusive' /\ Collected'
    BY <1>8 DEF StrandExclusive, Collected, BinaryPosted, Handler, MayPost,
      Post
  <2>4. TypeIo'
    BY <1>8, <2>a, <2>b, <2>c, <2>d DEF TypeIo, BinaryPosted, Handler,
      MayPost, Post
  <2>5. TypeLocks'
    BY <1>8, <2>a, <2>b, <2>c, <2>d DEF TypeLocks, BinaryPosted, Handler,
      MayPost, Post
  <2>6. TypeJobs'
    <3>1. strand' = [strand EXCEPT ![c] = Append(strand[c],
              [from |-> rcvd[c] - samples[c],
               to |-> rcvd[c] - samples[c] + CutOff(samples[c] + n), final |-> FALSE])]
      BY <1>8 DEF TypeJobs, BinaryPosted, Post
    <3>2. strand' \in [Conns -> Seq(Job)]
      BY <2>c, <3>1 DEF TypeJobs
    <3>3. UNCHANGED <<dpc, dconn, djob>>
      BY <1>8 DEF BinaryPosted
    <3> QED
      BY <3>2, <3>3 DEF TypeJobs
  <2>7. TypeAudio'
    <3>1. samples' \in [Conns -> Nat] /\ rcvd' \in [Conns -> Nat]
      BY <2>a, <2>b, <2>d DEF TypeAudio
    <3> QED BY <1>8, <3>1 DEF TypeAudio, BinaryPosted
  <2>8. AccessCounts'
    BY <1>8, <2>1, <2>a, <2>b, <2>c, <2>d DEF TypeIo, TypeEntry, AccessCounts,
      BinaryPosted, Handler, MayPost, Post
  <2>9. Locks'
    BY <1>8, <2>a, <2>b, <2>c, <2>d DEF TypeIo, TypeLocks, TypeCleaner, Locks,
      BinaryPosted, Handler, MayPost, Post
  <2>10. HandlersKeepEntry'
    BY <1>8, <2>a, <2>b, <2>c, <2>d DEF TypeIo, TypeEntry, HandlersKeepEntry,
      BinaryPosted, Handler, MayPost, Post
  <2>11. Entries'
    BY <1>8, <2>1, <2>a, <2>b, <2>c, <2>d DEF TypeIo, TypeEntry, Locks,
      HandlersKeepEntry, AccessCounts, Entries, BinaryPosted, Handler,
      MayPost, Post
  <2>12. Loading'
    <3>1. samples'[c] <= rcvd'[c]
      BY <2>a, <2>b, <2>d DEF TypeAudio, Loading
    <3>2. \A b \in Conns \ {c} : samples'[b] = samples[b] /\ rcvd'[b] = rcvd[b]
      BY <2>d DEF TypeAudio
    <3> QED BY <1>8, <2>1, <3>1, <3>2 DEF TypeIo, TypeEntry, Loading, BinaryPosted, Handler, MayPost, Post
  <2> QED BY <2>2, <2>3, <2>4, <2>5, <2>6, <2>7, <2>8, <2>9, <2>10, <2>11,
    <2>12
<1> QED BY <1>1, <1>2, <1>3, <1>4, <1>5, <1>6, <1>7, <1>8 DEF OnMessage

\* on_close preserves the invariant.
LEMMA OnCloseInv ==
    ASSUME IndInv, NEW c \in Conns, OnClose(c)
    PROVE  IndInv'
<1> USE ConnsAssumption, SetpAssumption
    DEF IndInv, TypeOK, ioVars, entryVars, lockVars, decVars, cleanVars, audioVars
<1>1. ASSUME OnCloseFinds(c) PROVE IndInv'
  <2>1. \A b \in Conns : Outstanding(b)' = Outstanding(b)
    BY <1>1, SameOutstanding DEF OnCloseFinds
  <2>2. TypeEntry' /\ TypeJobs' /\ TypeCleaner' /\ TypeAudio'
    BY <1>1 DEF TypeEntry, TypeJobs, TypeCleaner, TypeAudio, OnCloseFinds
  <2>3. StrandExclusive' /\ Entries' /\ Collected'
    BY <1>1, <2>1 DEF StrandExclusive, Entries, Collected, OnCloseFinds
  <2>4. TypeIo'
    BY <1>1 DEF TypeIo, OnCloseFinds
  <2>5. TypeLocks'
    BY <1>1 DEF TypeLocks, OnCloseFinds
  <2>6. AccessCounts'
    BY <1>1, <2>1 DEF TypeIo, TypeEntry, AccessCounts, OnCloseFinds
  <2>7. Locks'
    BY <1>1 DEF TypeIo, TypeLocks, TypeCleaner, Locks, OnCloseFinds
  <2>8. HandlersKeepEntry'
    BY <1>1 DEF TypeIo, TypeEntry, HandlersKeepEntry, OnCloseFinds
  <2>9. Loading'
    BY <1>1, <2>1 DEF TypeIo, TypeEntry, TypeAudio, Loading, OnCloseFinds
  <2> QED BY <2>2, <2>3, <2>4, <2>5, <2>6, <2>7, <2>8, <2>9
<1>2. ASSUME OnCloseMissing(c) PROVE IndInv'
  <2>1. \A b \in Conns : Outstanding(b)' = Outstanding(b)
    BY <1>2, SameOutstanding DEF OnCloseMissing
  <2>2. TypeEntry' /\ TypeLocks' /\ TypeJobs' /\ TypeCleaner' /\ TypeAudio'
    BY <1>2 DEF TypeEntry, TypeLocks, TypeJobs, TypeCleaner, TypeAudio,
      OnCloseMissing
  <2>3. StrandExclusive' /\ AccessCounts' /\ Locks' /\ Loading'
    BY <1>2, <2>1 DEF StrandExclusive, AccessCounts, Locks, Loading,
      OnCloseMissing
  <2>4. TypeIo'
    BY <1>2 DEF TypeIo, OnCloseMissing
  <2>5. HandlersKeepEntry'
    BY <1>2 DEF TypeIo, TypeEntry, HandlersKeepEntry, OnCloseMissing
  <2>6. Entries'
    BY <1>2, <2>1 DEF TypeIo, TypeEntry, Locks, HandlersKeepEntry,
      AccessCounts, Entries, OnCloseMissing
  <2>7. Collected'
    BY <1>2 DEF TypeIo, TypeEntry, TypeCleaner, Locks, Entries, Collected,
      OnCloseMissing
  <2> QED BY <2>2, <2>3, <2>4, <2>5, <2>6, <2>7
<1>3. ASSUME OnCloseMarks(c) PROVE IndInv'
  <2>1. \A b \in Conns : Outstanding(b)' = Outstanding(b)
    BY <1>3, SameOutstanding DEF OnCloseMarks
  <2>2. TypeJobs' /\ TypeCleaner' /\ TypeAudio'
    BY <1>3 DEF TypeJobs, TypeCleaner, TypeAudio, OnCloseMarks
  <2>3. StrandExclusive'
    BY <1>3 DEF StrandExclusive, OnCloseMarks
  <2>4. TypeIo'
    BY <1>3 DEF TypeIo, OnCloseMarks
  <2>5. TypeEntry'
    BY <1>3 DEF TypeEntry, OnCloseMarks
  <2>6. TypeLocks'
    BY <1>3 DEF TypeLocks, OnCloseMarks
  <2>7. AccessCounts'
    BY <1>3, <2>1 DEF TypeIo, TypeEntry, AccessCounts, OnCloseMarks
  <2>8. Locks'
    BY <1>3 DEF TypeIo, TypeLocks, TypeCleaner, Locks, OnCloseMarks
  <2>9. HandlersKeepEntry'
    BY <1>3 DEF TypeIo, TypeEntry, HandlersKeepEntry, OnCloseMarks
  <2>10. Entries'
    BY <1>3, <2>1 DEF TypeIo, TypeEntry, Locks, HandlersKeepEntry,
      AccessCounts, Entries, OnCloseMarks
  <2>11. Loading'
    BY <1>3, <2>1 DEF TypeIo, TypeEntry, TypeAudio, Loading, OnCloseMarks
  <2>12. Collected'
    BY <1>3 DEF TypeIo, TypeEntry, TypeCleaner, Locks, Entries, Collected,
      OnCloseMarks
  <2> QED BY <2>2, <2>3, <2>4, <2>5, <2>6, <2>7, <2>8, <2>9, <2>10, <2>11,
    <2>12
<1> QED BY <1>1, <1>2, <1>3 DEF OnClose

\* do_decoder preserves the invariant.
LEMMA DecoderInv ==
    ASSUME IndInv, NEW d \in Decoders, Decoder(d)
    PROVE  IndInv'
<1> USE ConnsAssumption, SetpAssumption
    DEF IndInv, TypeOK, ioVars, entryVars, lockVars, decVars, cleanVars, audioVars
<1>1. ASSUME NEW c \in Conns, JobStarts(d, c) PROVE IndInv'
  <2>a. Head(strand[c]) \in Job /\ Tail(strand[c]) \in Seq(Job)
    BY <1>1 DEF TypeJobs, JobStarts
  <2>b. Len(strand[c]) = Len(Tail(strand[c])) + 1
    BY <1>1 DEF TypeJobs, JobStarts
  <2>1. \A b \in Conns : Outstanding(b)' = Outstanding(b)
    BY <1>1, StartKeepsCount
  <2>2. TypeIo' /\ TypeEntry' /\ TypeLocks' /\ TypeCleaner' /\ TypeAudio'
    BY <1>1 DEF TypeIo, TypeEntry, TypeLocks, TypeCleaner, TypeAudio,
      JobStarts, StrandIdle
  <2>3. Locks' /\ HandlersKeepEntry' /\ Collected'
    BY <1>1 DEF Locks, HandlersKeepEntry, Collected, JobStarts, StrandIdle
  <2>4. TypeJobs'
    BY <1>1, <2>a, <2>b DEF TypeJobs, JobStarts, StrandIdle
  <2>5. StrandExclusive'
    BY <1>1, <2>a, <2>b DEF TypeJobs, StrandExclusive, JobStarts, StrandIdle
  <2>6. AccessCounts'
    BY <1>1, <2>1, <2>a, <2>b DEF TypeIo, TypeEntry, AccessCounts, JobStarts,
      StrandIdle
  <2>7. Entries'
    BY <1>1, <2>1, <2>a, <2>b DEF TypeIo, TypeEntry, Locks, HandlersKeepEntry,
      AccessCounts, Entries, JobStarts, StrandIdle
  <2>8. Loading'
    BY <1>1, <2>1, <2>a, <2>b DEF TypeIo, TypeEntry, TypeAudio, Loading,
      JobStarts, StrandIdle
  <2> QED BY <2>2, <2>3, <2>4, <2>5, <2>6, <2>7, <2>8
<1>2. ASSUME JobFindsHandle(d) PROVE IndInv'
  <2>a. dconn[d] \in Conns
    BY <1>2 DEF TypeJobs, StrandExclusive, JobFindsHandle, Step
  <2>1. \A b \in Conns : Outstanding(b)' = Outstanding(b)
    BY <1>2, SameOutstanding DEF JobFindsHandle, Step
  <2>2. TypeIo' /\ TypeEntry' /\ TypeLocks' /\ TypeCleaner' /\ TypeAudio'
    BY <1>2 DEF TypeIo, TypeEntry, TypeLocks, TypeCleaner, TypeAudio,
      JobFindsHandle, Step
  <2>3. AccessCounts' /\ Locks' /\ HandlersKeepEntry' /\ Entries' /\ Loading'
    /\ Collected'
    BY <1>2, <2>1 DEF AccessCounts, Locks, HandlersKeepEntry, Entries,
      Loading, Collected, JobFindsHandle, Step
  <2>4. TypeJobs'
    BY <1>2, <2>a DEF TypeJobs, JobFindsHandle, Step
  <2>5. StrandExclusive'
    BY <1>2, <2>a DEF TypeJobs, StrandExclusive, JobFindsHandle, Step
  <2> QED BY <2>2, <2>3, <2>4, <2>5
<1>3. ASSUME JobFindsNoHandle(d) PROVE IndInv'
  <2>a. dconn[d] \in Conns
    BY <1>3 DEF TypeJobs, StrandExclusive, JobFindsNoHandle, Step
  <2>1. \A b \in Conns : Outstanding(b)' = Outstanding(b)
    BY <1>3, SameOutstanding DEF JobFindsNoHandle, Step, GivesUp
  <2>2. TypeIo' /\ TypeEntry' /\ TypeLocks' /\ TypeCleaner'
    BY <1>3 DEF TypeIo, TypeEntry, TypeLocks, TypeCleaner, JobFindsNoHandle,
      Step, GivesUp
  <2>3. AccessCounts' /\ Locks' /\ HandlersKeepEntry' /\ Entries' /\ Loading'
    /\ Collected'
    BY <1>3, <2>1 DEF AccessCounts, Locks, HandlersKeepEntry, Entries,
      Loading, Collected, JobFindsNoHandle, Step, GivesUp
  <2>4. TypeJobs'
    BY <1>3, <2>a DEF TypeJobs, JobFindsNoHandle, Step, GivesUp
  <2>5. TypeAudio'
    BY <1>3, <2>a DEF TypeAudio, JobFindsNoHandle, Step, GivesUp
  <2>6. StrandExclusive'
    BY <1>3, <2>a DEF TypeJobs, StrandExclusive, JobFindsNoHandle, Step,
      GivesUp
  <2> QED BY <2>2, <2>3, <2>4, <2>5, <2>6
<1>4. ASSUME InferStarts(d) PROVE IndInv'
  <2>a. dconn[d] \in Conns
    BY <1>4 DEF TypeJobs, StrandExclusive, InferStarts, Step
  <2>1. \A b \in Conns : Outstanding(b)' = Outstanding(b)
    BY <1>4, SameOutstanding DEF InferStarts, Step
  <2>2. TypeIo' /\ TypeEntry' /\ TypeLocks' /\ TypeCleaner' /\ TypeAudio'
    BY <1>4 DEF TypeIo, TypeEntry, TypeLocks, TypeCleaner, TypeAudio,
      InferStarts, Step
  <2>3. AccessCounts' /\ Locks' /\ HandlersKeepEntry' /\ Entries' /\ Loading'
    /\ Collected'
    BY <1>4, <2>1 DEF AccessCounts, Locks, HandlersKeepEntry, Entries,
      Loading, Collected, InferStarts, Step
  <2>4. TypeJobs'
    BY <1>4, <2>a DEF TypeJobs, InferStarts, Step
  <2>5. StrandExclusive'
    BY <1>4, <2>a DEF TypeJobs, StrandExclusive, InferStarts, Step
  <2> QED BY <2>2, <2>3, <2>4, <2>5
<1>5. ASSUME InferReturns(d) PROVE IndInv'
  <2>a. dconn[d] \in Conns
    BY <1>5 DEF TypeJobs, StrandExclusive, InferReturns, Step
  <2>b. djob[d].from + Setp \in Nat
    BY DEF TypeJobs, Job
  <2>c. [djob[d] EXCEPT !.from = djob[d].from + Setp] \in Job
    BY <2>b DEF TypeJobs, Job
  <2>1. \A b \in Conns : Outstanding(b)' = Outstanding(b)
    BY <1>5, SameOutstanding DEF InferReturns, Step, Feeds
  <2>2. TypeIo' /\ TypeEntry' /\ TypeLocks' /\ TypeCleaner'
    BY <1>5 DEF TypeIo, TypeEntry, TypeLocks, TypeCleaner, InferReturns, Step,
      Feeds
  <2>3. AccessCounts' /\ Locks' /\ HandlersKeepEntry' /\ Entries' /\ Loading'
    /\ Collected'
    BY <1>5, <2>1 DEF AccessCounts, Locks, HandlersKeepEntry, Entries,
      Loading, Collected, InferReturns, Step, Feeds
  <2>4. TypeJobs'
    BY <1>5, <2>a, <2>c DEF TypeJobs, Step, Feeds, InferReturns, Step, Feeds
  <2>5. TypeAudio'
    BY <1>5, <2>a, <2>b, <2>c DEF TypeAudio, InferReturns, Step, Feeds
  <2>6. StrandExclusive'
    BY <1>5, <2>a, <2>b, <2>c DEF TypeJobs, StrandExclusive, InferReturns,
      Step, Feeds
  <2> QED BY <2>2, <2>3, <2>4, <2>5, <2>6
<1>6. ASSUME InferThrows(d) PROVE IndInv'
  <2>a. dconn[d] \in Conns
    BY <1>6 DEF TypeJobs, StrandExclusive, InferThrows
  <2>1. \A b \in Conns : Outstanding(b)' = Outstanding(b)
    BY <1>6, SameOutstanding DEF InferThrows, GivesUp
  <2>2. TypeIo' /\ TypeEntry' /\ TypeLocks' /\ TypeCleaner'
    BY <1>6 DEF TypeIo, TypeEntry, TypeLocks, TypeCleaner, InferThrows,
      GivesUp
  <2>3. AccessCounts' /\ Locks' /\ HandlersKeepEntry' /\ Entries' /\ Loading'
    /\ Collected'
    BY <1>6, <2>1 DEF AccessCounts, Locks, HandlersKeepEntry, Entries,
      Loading, Collected, InferThrows, GivesUp
  <2>4. TypeJobs'
    BY <1>6, <2>a DEF TypeJobs, InferThrows, GivesUp
  <2>5. TypeAudio'
    BY <1>6, <2>a DEF TypeAudio, InferThrows, GivesUp
  <2>6. StrandExclusive'
    BY <1>6, <2>a DEF TypeJobs, StrandExclusive, InferThrows, GivesUp
  <2> QED BY <2>2, <2>3, <2>4, <2>5, <2>6
<1>7. ASSUME FinalStarts(d) PROVE IndInv'
  <2>a. dconn[d] \in Conns
    BY <1>7 DEF TypeJobs, StrandExclusive, FinalStarts, Step
  <2>1. \A b \in Conns : Outstanding(b)' = Outstanding(b)
    BY <1>7, SameOutstanding DEF FinalStarts, Step
  <2>2. TypeIo' /\ TypeEntry' /\ TypeLocks' /\ TypeCleaner' /\ TypeAudio'
    BY <1>7 DEF TypeIo, TypeEntry, TypeLocks, TypeCleaner, TypeAudio,
      FinalStarts, Step
  <2>3. AccessCounts' /\ Locks' /\ HandlersKeepEntry' /\ Entries' /\ Loading'
    /\ Collected'
    BY <1>7, <2>1 DEF AccessCounts, Locks, HandlersKeepEntry, Entries,
      Loading, Collected, FinalStarts, Step
  <2>4. TypeJobs'
    BY <1>7, <2>a DEF TypeJobs, FinalStarts, Step
  <2>5. StrandExclusive'
    BY <1>7, <2>a DEF TypeJobs, StrandExclusive, FinalStarts, Step
  <2> QED BY <2>2, <2>3, <2>4, <2>5
<1>8. ASSUME FinalReturns(d) PROVE IndInv'
  <2>a. dconn[d] \in Conns
    BY <1>8 DEF TypeJobs, StrandExclusive, FinalReturns, Step
  <2>b. [djob[d] EXCEPT !.from = djob[d].to] \in Job /\ djob[d].to \in Nat
    BY <1>8 DEF TypeJobs, Job
  <2>1. \A b \in Conns : Outstanding(b)' = Outstanding(b)
    BY <1>8, SameOutstanding DEF FinalReturns, Step, Feeds
  <2>2. TypeIo' /\ TypeEntry' /\ TypeLocks' /\ TypeCleaner'
    BY <1>8 DEF TypeIo, TypeEntry, TypeLocks, TypeCleaner, FinalReturns, Step,
      Feeds
  <2>3. AccessCounts' /\ Locks' /\ HandlersKeepEntry' /\ Entries' /\ Loading'
    /\ Collected'
    BY <1>8, <2>1 DEF AccessCounts, Locks, HandlersKeepEntry, Entries,
      Loading, Collected, FinalReturns, Step, Feeds
  <2>4. TypeJobs'
    BY <1>8, <2>a, <2>b DEF TypeJobs, FinalReturns, Step, Feeds
  <2>5. TypeAudio'
    BY <1>8, <2>a, <2>b DEF TypeAudio, FinalReturns, Step, Feeds
  <2>6. StrandExclusive'
    BY <1>8, <2>a, <2>b DEF TypeJobs, StrandExclusive, FinalReturns, Step,
      Feeds
  <2> QED BY <2>2, <2>3, <2>4, <2>5, <2>6
<1>9. ASSUME LoopEnds(d) PROVE IndInv'
  <2>a. dconn[d] \in Conns
    BY <1>9 DEF TypeJobs, StrandExclusive, LoopEnds, Step
  <2>1. \A b \in Conns : Outstanding(b)' = Outstanding(b)
    BY <1>9, SameOutstanding DEF LoopEnds, Step
  <2>2. TypeIo' /\ TypeEntry' /\ TypeLocks' /\ TypeCleaner' /\ TypeAudio'
    BY <1>9 DEF TypeIo, TypeEntry, TypeLocks, TypeCleaner, TypeAudio,
      LoopEnds, Step
  <2>3. AccessCounts' /\ Locks' /\ HandlersKeepEntry' /\ Entries' /\ Loading'
    /\ Collected'
    BY <1>9, <2>1 DEF AccessCounts, Locks, HandlersKeepEntry, Entries,
      Loading, Collected, LoopEnds, Step
  <2>4. TypeJobs'
    BY <1>9, <2>a DEF TypeJobs, LoopEnds, Step
  <2>5. StrandExclusive'
    BY <1>9, <2>a DEF TypeJobs, StrandExclusive, LoopEnds, Step
  <2> QED BY <2>2, <2>3, <2>4, <2>5
<1>10. ASSUME JobFinishes(d) PROVE IndInv'
  <2>a. PICK c \in Conns : c = dconn[d]
    BY <1>10 DEF TypeJobs, StrandExclusive, JobFinishes, Step
  <2>b. /\ Outstanding(c) > 0 /\ Outstanding(c) \in Nat
       /\ access_num[c] = Outstanding(c)
    BY <1>10, <2>a, FinishTakesOne, OutstandingNat
  <2>1. \A b \in Conns : Outstanding(b)' = IF b = c THEN Outstanding(b) - 1 ELSE Outstanding(b)
    BY <1>10, <2>a, FinishTakesOne
  <2>2. TypeIo' /\ TypeLocks' /\ TypeCleaner' /\ TypeAudio'
    BY <1>10 DEF TypeIo, TypeLocks, TypeCleaner, TypeAudio, JobFinishes, Step
  <2>3. Locks' /\ HandlersKeepEntry' /\ Collected'
    BY <1>10 DEF Locks, HandlersKeepEntry, Collected, JobFinishes, Step
  <2>4. TypeEntry'
    BY <1>10, <2>a, <2>b DEF TypeEntry, JobFinishes, JobFinishes, Step
  <2>5. TypeJobs'
    <3>1. dpc' \in [Decoders -> {"idle", "entry", "loop", "infer", "final", "finish"}]
      BY <1>10 DEF TypeJobs, JobFinishes, Step
    <3>2. dconn' \in [Decoders -> Conns \cup {"none"}]
      BY <1>10 DEF TypeJobs, JobFinishes
    <3>3. djob' \in [Decoders -> Job]
      BY <1>10 DEF TypeJobs, JobFinishes, NoJob, Job
    <3> QED BY <1>10, <3>1, <3>2, <3>3 DEF TypeJobs, JobFinishes
  <2>6. StrandExclusive'
    BY <1>10, <2>a, <2>b DEF TypeJobs, StrandExclusive, JobFinishes, Step
  <2>7. AccessCounts'
    BY <1>10, <2>1, <2>a, <2>b DEF TypeIo, TypeEntry, AccessCounts,
      JobFinishes, Step
  <2>8. Entries'
    BY <1>10, <2>1, <2>a, <2>b DEF TypeIo, TypeEntry, Locks,
      HandlersKeepEntry, AccessCounts, Entries, JobFinishes, Step
  <2>9. Loading'
    BY <1>10, <2>1, <2>a, <2>b DEF TypeEntry, Loading, JobFinishes, Step
  <2> QED BY <2>2, <2>3, <2>4, <2>5, <2>6, <2>7, <2>8, <2>9
<1> QED BY <1>1, <1>2, <1>3, <1>4, <1>5, <1>6, <1>7, <1>8, <1>9, <1>10 DEF
  Decoder

\* check_and_clean_connection and remove_hdl preserve the invariant.
LEMMA CleanerInv ==
    ASSUME IndInv, Cleaner
    PROVE  IndInv'
<1> USE ConnsAssumption, SetpAssumption
    DEF IndInv, TypeOK, ioVars, entryVars, lockVars, decVars, cleanVars, audioVars
<1>1. ASSUME SweepStarts PROVE IndInv'
  <2>1. \A b \in Conns : Outstanding(b)' = Outstanding(b)
    BY <1>1, SameOutstanding DEF SweepStarts
  <2>2. TypeIo' /\ TypeEntry' /\ TypeLocks' /\ TypeJobs' /\ TypeAudio'
    BY <1>1 DEF TypeIo, TypeEntry, TypeLocks, TypeJobs, TypeAudio, SweepStarts
  <2>3. StrandExclusive' /\ AccessCounts' /\ HandlersKeepEntry' /\ Loading'
    BY <1>1, <2>1 DEF StrandExclusive, AccessCounts, HandlersKeepEntry,
      Loading, SweepStarts
  <2>4. TypeCleaner'
    BY <1>1 DEF TypeEntry, TypeCleaner, SweepStarts
  <2>5. Locks'
    BY <1>1 DEF TypeIo, TypeLocks, TypeCleaner, Locks, SweepStarts
  <2>6. Entries'
    BY <1>1, <2>1 DEF TypeIo, TypeEntry, Locks, HandlersKeepEntry,
      AccessCounts, Entries, SweepStarts
  <2>7. Collected'
    BY <1>1 DEF TypeIo, TypeEntry, TypeCleaner, Locks, Entries, Collected,
      SweepStarts
  <2> QED BY <2>2, <2>3, <2>4, <2>5, <2>6, <2>7
<1>2. ASSUME SweepEnds PROVE IndInv'
  <2>1. \A b \in Conns : Outstanding(b)' = Outstanding(b)
    BY <1>2, SameOutstanding DEF SweepEnds
  <2>2. TypeIo' /\ TypeEntry' /\ TypeLocks' /\ TypeJobs' /\ TypeAudio'
    BY <1>2 DEF TypeIo, TypeEntry, TypeLocks, TypeJobs, TypeAudio, SweepEnds
  <2>3. StrandExclusive' /\ AccessCounts' /\ HandlersKeepEntry' /\ Loading'
    BY <1>2, <2>1 DEF StrandExclusive, AccessCounts, HandlersKeepEntry,
      Loading, SweepEnds
  <2>4. TypeCleaner'
    BY <1>2 DEF TypeCleaner, SweepEnds
  <2>5. Locks'
    BY <1>2 DEF TypeIo, TypeLocks, TypeCleaner, Locks, SweepEnds
  <2>6. Entries'
    BY <1>2, <2>1 DEF TypeIo, TypeEntry, Locks, HandlersKeepEntry,
      AccessCounts, Entries, SweepEnds
  <2>7. Collected'
    BY <1>2 DEF TypeIo, TypeEntry, TypeCleaner, Locks, Entries, Collected,
      SweepEnds
  <2> QED BY <2>2, <2>3, <2>4, <2>5, <2>6, <2>7
<1>3. ASSUME SweepSleeps PROVE IndInv'
  <2>1. \A b \in Conns : Outstanding(b)' = Outstanding(b)
    BY <1>3, SameOutstanding DEF SweepSleeps
  <2>2. TypeIo' /\ TypeEntry' /\ TypeLocks' /\ TypeJobs' /\ TypeAudio'
    BY <1>3 DEF TypeIo, TypeEntry, TypeLocks, TypeJobs, TypeAudio, SweepSleeps
  <2>3. StrandExclusive' /\ AccessCounts' /\ HandlersKeepEntry' /\ Loading'
    BY <1>3, <2>1 DEF StrandExclusive, AccessCounts, HandlersKeepEntry,
      Loading, SweepSleeps
  <2>4. TypeCleaner'
    BY <1>3 DEF TypeCleaner, SweepSleeps
  <2>5. Locks'
    BY <1>3 DEF TypeIo, TypeLocks, TypeCleaner, Locks, SweepSleeps
  <2>6. Entries'
    BY <1>3, <2>1 DEF TypeIo, TypeEntry, Locks, HandlersKeepEntry,
      AccessCounts, Entries, SweepSleeps
  <2>7. Collected'
    BY <1>3 DEF TypeIo, TypeEntry, TypeCleaner, Locks, Entries, Collected,
      SweepSleeps
  <2> QED BY <2>2, <2>3, <2>4, <2>5, <2>6, <2>7
<1>4. ASSUME NEW c \in Conns, SweepVisits(c) PROVE IndInv'
  <2>1. \A b \in Conns : Outstanding(b)' = Outstanding(b)
    BY <1>4, SameOutstanding DEF SweepVisits
  <2>2. TypeIo' /\ TypeEntry' /\ TypeLocks' /\ TypeJobs' /\ TypeAudio'
    BY <1>4 DEF TypeIo, TypeEntry, TypeLocks, TypeJobs, TypeAudio, SweepVisits
  <2>3. StrandExclusive' /\ AccessCounts' /\ Locks' /\ HandlersKeepEntry' /\
    Entries' /\ Loading'
    BY <1>4, <2>1 DEF StrandExclusive, AccessCounts, Locks, HandlersKeepEntry,
      Entries, Loading, SweepVisits
  <2>4. TypeCleaner'
    BY <1>4 DEF TypeCleaner, SweepVisits
  <2>5. Collected'
    BY <1>4 DEF TypeIo, TypeEntry, TypeCleaner, Locks, Entries, Collected,
      SweepVisits
  <2> QED BY <2>2, <2>3, <2>4, <2>5
<1>5. ASSUME NEW c \in Conns, SweepFindsGone(c) PROVE IndInv'
  <2>1. \A b \in Conns : Outstanding(b)' = Outstanding(b)
    BY <1>5, SameOutstanding DEF SweepFindsGone
  <2>2. TypeIo' /\ TypeLocks' /\ TypeJobs' /\ TypeAudio'
    BY <1>5 DEF TypeIo, TypeLocks, TypeJobs, TypeAudio, SweepFindsGone
  <2>3. StrandExclusive' /\ AccessCounts' /\ Locks' /\ Loading'
    BY <1>5, <2>1 DEF StrandExclusive, AccessCounts, Locks, Loading,
      SweepFindsGone
  <2>4. TypeEntry'
    BY <1>5 DEF TypeEntry, SweepFindsGone
  <2>5. TypeCleaner'
    BY <1>5 DEF TypeCleaner, SweepFindsGone
  <2>6. HandlersKeepEntry'
    BY <1>5 DEF TypeIo, TypeEntry, HandlersKeepEntry, SweepFindsGone
  <2>7. Entries'
    BY <1>5, <2>1 DEF TypeIo, TypeEntry, Locks, HandlersKeepEntry,
      AccessCounts, Entries, SweepFindsGone
  <2>8. Collected'
    BY <1>5 DEF TypeIo, TypeEntry, TypeCleaner, Locks, Entries, Collected,
      SweepFindsGone
  <2> QED BY <2>2, <2>3, <2>4, <2>5, <2>6, <2>7, <2>8
<1>6. ASSUME NEW c \in Conns, RemoveLocks(c) PROVE IndInv'
  <2>1. \A b \in Conns : Outstanding(b)' = Outstanding(b)
    BY <1>6, SameOutstanding DEF RemoveLocks
  <2>2. TypeIo' /\ TypeEntry' /\ TypeJobs' /\ TypeAudio'
    BY <1>6 DEF TypeIo, TypeEntry, TypeJobs, TypeAudio, RemoveLocks
  <2>3. StrandExclusive' /\ AccessCounts' /\ HandlersKeepEntry' /\ Loading'
    BY <1>6, <2>1 DEF StrandExclusive, AccessCounts, HandlersKeepEntry,
      Loading, RemoveLocks
  <2>4. TypeLocks'
    BY <1>6 DEF TypeLocks, RemoveLocks
  <2>5. TypeCleaner'
    BY <1>6 DEF TypeCleaner, RemoveLocks
  <2>6. Locks'
    BY <1>6 DEF TypeIo, TypeLocks, TypeCleaner, Locks, RemoveLocks
  <2>7. Entries'
    BY <1>6, <2>1 DEF TypeIo, TypeEntry, Locks, HandlersKeepEntry,
      AccessCounts, Entries, RemoveLocks
  <2>8. Collected'
    BY <1>6 DEF TypeIo, TypeEntry, TypeCleaner, Locks, Entries, Collected,
      RemoveLocks
  <2> QED BY <2>2, <2>3, <2>4, <2>5, <2>6, <2>7, <2>8
<1>7. ASSUME RemoveRefuses PROVE IndInv'
  <2>a. hdl \in Conns
    BY <1>7 DEF Locks, RemoveRefuses
  <2>1. \A b \in Conns : Outstanding(b)' = Outstanding(b)
    BY <1>7, SameOutstanding DEF RemoveRefuses, ReleasesMLock
  <2>2. TypeIo' /\ TypeEntry' /\ TypeJobs' /\ TypeAudio'
    BY <1>7 DEF TypeIo, TypeEntry, TypeJobs, TypeAudio, RemoveRefuses,
      ReleasesMLock
  <2>3. StrandExclusive' /\ AccessCounts' /\ HandlersKeepEntry' /\ Loading'
    BY <1>7, <2>1 DEF StrandExclusive, AccessCounts, HandlersKeepEntry,
      Loading, RemoveRefuses, ReleasesMLock
  <2>4. TypeLocks'
    BY <1>7, <2>a DEF TypeLocks, RemoveRefuses, ReleasesMLock
  <2>5. TypeCleaner'
    BY <1>7, <2>a DEF TypeCleaner, RemoveRefuses, ReleasesMLock
  <2>6. Locks'
    BY <1>7, <2>a DEF TypeIo, TypeLocks, TypeCleaner, Locks, RemoveRefuses,
      ReleasesMLock
  <2>7. Entries'
    BY <1>7, <2>1, <2>a DEF TypeIo, TypeEntry, Locks, HandlersKeepEntry,
      AccessCounts, Entries, RemoveRefuses, ReleasesMLock
  <2>8. Collected'
    BY <1>7, <2>a DEF TypeIo, TypeEntry, TypeCleaner, Locks, Entries,
      Collected, RemoveRefuses, ReleasesMLock
  <2> QED BY <2>2, <2>3, <2>4, <2>5, <2>6, <2>7, <2>8
<1>8. ASSUME RemoveFrees PROVE IndInv'
  <2>a. hdl \in Conns
    BY <1>8 DEF Locks, RemoveFrees
  <2>1. \A b \in Conns : Outstanding(b)' = Outstanding(b)
    BY <1>8, SameOutstanding DEF RemoveFrees, Removable
  <2>2. TypeIo' /\ TypeJobs' /\ TypeAudio'
    BY <1>8 DEF TypeIo, TypeJobs, TypeAudio, RemoveFrees, Removable
  <2>3. StrandExclusive' /\ AccessCounts' /\ HandlersKeepEntry' /\ Loading'
    BY <1>8, <2>1 DEF StrandExclusive, AccessCounts, HandlersKeepEntry,
      Loading, RemoveFrees, Removable
  <2>4. TypeEntry'
    BY <1>8, <2>a DEF TypeEntry, RemoveFrees, Removable
  <2>5. TypeLocks'
    BY <1>8, <2>a DEF TypeLocks, RemoveFrees, Removable
  <2>6. TypeCleaner'
    BY <1>8, <2>a DEF TypeCleaner, RemoveFrees, Removable
  <2>7. Locks'
    BY <1>8, <2>a DEF TypeIo, TypeLocks, TypeCleaner, Locks, RemoveFrees,
      Removable
  <2>8. Entries'
    BY <1>8, <2>1, <2>a DEF TypeIo, TypeEntry, Locks, HandlersKeepEntry,
      AccessCounts, Entries, RemoveFrees, Removable
  <2>9. Collected'
    BY <1>8, <2>a DEF TypeIo, TypeEntry, TypeCleaner, Locks, Entries,
      Collected, RemoveFrees, Removable
  <2> QED BY <2>2, <2>3, <2>4, <2>5, <2>6, <2>7, <2>8, <2>9
<1>9. ASSUME RemoveErases PROVE IndInv'
  <2>a. hdl \in Conns
    BY <1>9 DEF Locks, RemoveErases
  <2>1. \A b \in Conns : Outstanding(b)' = Outstanding(b)
    BY <1>9, SameOutstanding DEF RemoveErases, ReleasesMLock
  <2>2. TypeIo' /\ TypeJobs' /\ TypeAudio'
    BY <1>9 DEF TypeIo, TypeJobs, TypeAudio, RemoveErases, ReleasesMLock
  <2>3. StrandExclusive' /\ AccessCounts' /\ Loading'
    BY <1>9, <2>1 DEF StrandExclusive, AccessCounts, Loading, RemoveErases,
      ReleasesMLock
  <2>4. TypeEntry'
    BY <1>9, <2>a DEF TypeEntry, RemoveErases, ReleasesMLock
  <2>5. TypeLocks'
    BY <1>9, <2>a DEF TypeLocks, RemoveErases, ReleasesMLock
  <2>6. TypeCleaner'
    BY <1>9, <2>a DEF TypeCleaner, RemoveErases, ReleasesMLock
  <2>7. Locks'
    BY <1>9, <2>a DEF TypeIo, TypeLocks, TypeCleaner, Locks, RemoveErases,
      ReleasesMLock
  <2>8. HandlersKeepEntry'
    BY <1>9, <2>a DEF TypeIo, TypeEntry, Locks, Entries, HandlersKeepEntry,
      RemoveErases, ReleasesMLock
  <2>9. Entries'
    BY <1>9, <2>1, <2>a DEF TypeIo, TypeEntry, Locks, HandlersKeepEntry,
      AccessCounts, Entries, RemoveErases, ReleasesMLock
  <2>10. Collected'
    BY <1>9, <2>a DEF TypeIo, TypeEntry, TypeCleaner, Locks, Entries,
      Collected, RemoveErases, ReleasesMLock
  <2> QED BY <2>2, <2>3, <2>4, <2>5, <2>6, <2>7, <2>8, <2>9, <2>10
<1> QED BY <1>1, <1>2, <1>3, <1>4, <1>5, <1>6, <1>7, <1>8, <1>9 DEF Cleaner

\* Every step preserves the invariant.
LEMMA NextInv == IndInv /\ [Next]_vars => IndInv'
<1> SUFFICES ASSUME IndInv, [Next]_vars PROVE IndInv'
  OBVIOUS
<1>1. ASSUME NEW c \in Conns, Client(c) PROVE IndInv'
  BY <1>1, ClientInv
<1>2. ASSUME NEW c \in Conns, OnMessage(c) PROVE IndInv'
  BY <1>2, OnMessageInv
<1>3. ASSUME NEW c \in Conns, OnClose(c) PROVE IndInv'
  BY <1>3, OnCloseInv
<1>4. ASSUME NEW d \in Decoders, Decoder(d) PROVE IndInv'
  BY <1>4, DecoderInv
<1>5. CASE Cleaner
  BY <1>5, CleanerInv
<1>6. CASE UNCHANGED vars
  BY <1>6 DEF vars, ioVars, entryVars, lockVars, decVars, cleanVars, audioVars,
     IndInv, TypeOK, TypeIo, TypeEntry, TypeLocks, TypeJobs, TypeCleaner,
     TypeAudio, StrandExclusive, AccessCounts, Locks, HandlersKeepEntry,
     Entries, Loading, Collected, Outstanding, Running
<1> QED BY <1>1, <1>2, <1>3, <1>4, <1>5, <1>6 DEF Next

\* The inductive invariant holds in every state the server can reach.
THEOREM Invariance == Spec => []IndInv
<1>1. Init => IndInv
  BY InitInv
<1>2. IndInv /\ [Next]_vars => IndInv'
  BY NextInv
<1> QED BY <1>1, <1>2, PTL DEF Spec

\* Every variable always has the type the code gives it; in particular
\* access_num never falls below zero.
THEOREM TypeCorrect == Spec => []TypeOK
<1>1. IndInv => TypeOK
  BY DEF IndInv
<1> QED BY <1>1, Invariance, PTL

\* access_num is the number of jobs in flight, up to the one being counted.
THEOREM AccessCorrect == Spec => []AccessCounts
<1>1. IndInv => AccessCounts
  BY DEF IndInv
<1> QED BY <1>1, Invariance, PTL

\* No job ever refers to an entry that was freed or taken out of data_map.
THEOREM JobsSafe == Spec => []JobsKeepEntry
<1>1. IndInv => JobsKeepEntry
  <2> SUFFICES ASSUME IndInv, NEW c \in Conns, Outstanding(c) > 0
               PROVE  /\ c \in data_map
                      /\ decoder_handle[c] = "live"
                      /\ tpass_online_handle[c] # "freed"
    BY DEF JobsKeepEntry
  <2>1. c \in data_map
    BY DEF IndInv, Entries
  <2>2. ASSUME cpc = "freeing", hdl = c PROVE FALSE
    <3>1. is_eof[c] /\ access_num[c] = 0
      BY <2>1, <2>2 DEF IndInv, Entries
    <3>2. io[c] # "posted"
      BY <3>1 DEF IndInv, HandlersKeepEntry
    <3> QED BY <3>1, <3>2 DEF IndInv, AccessCounts
  <2> QED BY <2>1, <2>2 DEF IndInv, Entries
<1> QED BY <1>1, Invariance, PTL

\* The hotwords of a connection are loaded while it has no job.
THEOREM LoadingSafe == Spec => []NoJobWhileLoading
<1>1. IndInv => NoJobWhileLoading
  BY DEF IndInv, Loading, NoJobWhileLoading
<1> QED BY <1>1, Invariance, PTL

\* Only remove_hdl takes an entry out of data_map.
LEMMA OnlyRemoveErases ==
    ASSUME [Next]_vars, NEW c \in data_map, c \notin data_map'
    PROVE  RemoveErases /\ hdl = c
<1> USE DEF vars, ioVars, entryVars, lockVars, decVars, cleanVars, audioVars
<1>1. CASE UNCHANGED vars
  BY <1>1
<1>2. ASSUME NEW b \in Conns, Client(b) PROVE FALSE
  BY <1>2 DEF Client, OnOpen, OnOpenFails, SessionShuts, SessionDestroyed,
     OnMessageIgnored, OnMessageFinds
<1>3. ASSUME NEW b \in Conns, OnMessage(b) PROVE FALSE
  BY <1>3 DEF OnMessage, ParseFails, TextBegins, HotwordsLoaded, Counted,
     TextConfigures, TextEndsSpeech, BinaryKept, BinaryPosted
<1>4. ASSUME NEW b \in Conns, OnClose(b) PROVE FALSE
  BY <1>4 DEF OnClose, OnCloseFinds, OnCloseMissing, OnCloseMarks
<1>5. ASSUME NEW d \in Decoders, Decoder(d) PROVE FALSE
  BY <1>5 DEF Decoder, JobStarts, JobFindsHandle, JobFindsNoHandle,
     InferStarts, InferReturns, InferThrows, FinalStarts, FinalReturns,
     LoopEnds, JobFinishes, GivesUp, Feeds
<1>6. CASE Cleaner
  BY <1>6 DEF Cleaner, SweepStarts, SweepEnds, SweepSleeps, SweepVisits,
     SweepFindsGone, RemoveLocks, RemoveRefuses, RemoveFrees, RemoveErases
<1> QED BY <1>1, <1>2, <1>3, <1>4, <1>5, <1>6 DEF Next

\* An entry is removed when its session is over, no job refers to it and no
\* handler works on it.
THEOREM RemovalSafe == Spec => RemovedWhenUnused
<1>1. ASSUME IndInv, [Next]_vars, NEW c \in data_map \ data_map'
      PROVE  session[c] # "open" /\ Outstanding(c) = 0 /\ io[c] = "idle"
  <2>1. cpc = "freeing" /\ hdl = c
    BY <1>1, OnlyRemoveErases DEF RemoveErases
  <2>2. c \in Conns /\ is_eof[c] /\ access_num[c] = 0
    BY <1>1, <2>1 DEF IndInv, TypeOK, TypeEntry, Entries
  <2>3. io[c] = "idle"
    BY <1>1, <2>1, <2>2
       DEF IndInv, TypeOK, TypeIo, Locks, HandlersKeepEntry
  <2>4. Outstanding(c) = 0
    BY <1>1, <2>2, <2>3 DEF IndInv, AccessCounts
  <2> QED BY <1>1, <2>1, <2>3, <2>4 DEF IndInv, Collected
<1>2. IndInv /\ [Next]_vars =>
        [\A c \in data_map \ data_map' :
           session[c] # "open" /\ Outstanding(c) = 0 /\ io[c] = "idle"]_vars
  BY <1>1
<1> QED BY <1>2, Invariance, PTL DEF Spec, RemovedWhenUnused

-----------------------------------------------------------------------------
(* TpassServer implements SessionLease, for any number of connections,       *)
(* decoder threads and messages: every step of the server is, for the jobs   *)
(* of a connection and the life of its entry, a step of the lease            *)
(* specification or no step at all.                                          *)

\* The four phases, before and after a step.
LEMMA PhaseCases ==
    ASSUME NEW b \in Conns
    PROVE  /\ session[b] = "none" => Phase(b) = "absent"
           /\ session[b] # "none" /\ b \notin data_map => Phase(b) = "over"
           /\ session[b] # "none" /\ b \in data_map /\ is_eof[b]
                => Phase(b) = "draining"
           /\ session[b] # "none" /\ b \in data_map /\ ~is_eof[b]
                => Phase(b) = "serving"
           /\ session'[b] = "none" => Phase(b)' = "absent"
           /\ session'[b] # "none" /\ b \notin data_map' => Phase(b)' = "over"
           /\ session'[b] # "none" /\ b \in data_map' /\ is_eof'[b]
                => Phase(b)' = "draining"
           /\ session'[b] # "none" /\ b \in data_map' /\ ~is_eof'[b]
                => Phase(b)' = "serving"
BY DEF Phase

\* A step that opens no session and changes no entry keeps every phase.
LEMMA SamePhase ==
    ASSUME NEW b \in Conns, session'[b] = "none" <=> session[b] = "none",
           b \in data_map' <=> b \in data_map, is_eof'[b] = is_eof[b]
    PROVE  Phase(b)' = Phase(b)
BY PhaseCases DEF Phase

\* Phases and leases stay.
LEMMA Stutters ==
    ASSUME \A b \in Conns : Phase(b)' = Phase(b),
           \A b \in Conns : Outstanding(b)' = Outstanding(b)
    PROVE  [Lease!Next]_(Lease!vars)
BY DEF Lease!vars

\* Most steps touch neither the entries nor the jobs.
LEMMA Quiet ==
    ASSUME UNCHANGED <<session, data_map, is_eof, strand, dconn>>
    PROVE  [Lease!Next]_(Lease!vars)
BY Stutters, SamePhase, SameOutstanding

\* One connection changes its phase and nothing else.
LEMMA OneMoves ==
    ASSUME NEW c \in Conns, NEW p, NEW q, Phase(c) = p, Phase(c)' = q,
           \A b \in Conns : b # c => Phase(b)' = Phase(b),
           \A b \in Conns : Outstanding(b)' = Outstanding(b)
    PROVE  /\ Lease!Moves(c, p, q)
           /\ UNCHANGED [b \in Conns |-> Outstanding(b)]
BY DEF Lease!Moves

\* on_open takes an absent connection into service, or turns it away.
LEMMA ClientLeases ==
    ASSUME IndInv, NEW c \in Conns, Client(c)
    PROVE  [Lease!Next]_(Lease!vars)
<1> USE DEF IndInv, TypeOK, TypeIo, TypeEntry, entryVars, lockVars, decVars,
            cleanVars, audioVars
<1>1. ASSUME OnOpen(c) PROVE [Lease!Next]_(Lease!vars)
  <2>1. session[c] = "none" /\ session'[c] = "open" /\ c \in data_map'
          /\ ~is_eof'[c]
    BY <1>1 DEF OnOpen, Entries
  <2>2. Phase(c) = "absent" /\ Phase(c)' = "serving"
    BY <2>1, PhaseCases
  <2>3. \A b \in Conns : b # c => Phase(b)' = Phase(b)
    BY <1>1, SamePhase DEF OnOpen
  <2>4. \A b \in Conns : Outstanding(b)' = Outstanding(b)
    BY <1>1, SameOutstanding DEF OnOpen
  <2> QED BY <2>2, <2>3, <2>4, OneMoves DEF Lease!Next, Lease!Open
<1>2. ASSUME OnOpenFails(c) PROVE [Lease!Next]_(Lease!vars)
  <2>1. session[c] = "none" /\ session'[c] = "open" /\ c \notin data_map'
    BY <1>2 DEF OnOpenFails, Entries
  <2>2. Phase(c) = "absent" /\ Phase(c)' = "over"
    BY <2>1, PhaseCases
  <2>3. \A b \in Conns : b # c => Phase(b)' = Phase(b)
    BY <1>2, SamePhase DEF OnOpenFails
  <2>4. \A b \in Conns : Outstanding(b)' = Outstanding(b)
    BY <1>2, SameOutstanding DEF OnOpenFails
  <2> QED BY <2>2, <2>3, <2>4, OneMoves DEF Lease!Next, Lease!Refuse
<1>3. ASSUME SessionShuts(c) \/ SessionDestroyed(c)
      PROVE  [Lease!Next]_(Lease!vars)
  <2>1. \A b \in Conns : Phase(b)' = Phase(b)
    BY <1>3, SamePhase DEF SessionShuts, SessionDestroyed
  <2>2. \A b \in Conns : Outstanding(b)' = Outstanding(b)
    BY <1>3, SameOutstanding DEF SessionShuts, SessionDestroyed
  <2> QED BY <2>1, <2>2, Stutters
<1>4. ASSUME OnMessageIgnored(c) \/ OnMessageFinds(c)
      PROVE  [Lease!Next]_(Lease!vars)
  BY <1>4, Quiet DEF OnMessageIgnored, OnMessageFinds
<1> QED BY <1>1, <1>2, <1>3, <1>4 DEF Client

\* A connection whose is_eof is set while it serves drains; one that drains
\* already, or is over, stays as it is.
LEMMA EofDrains ==
    ASSUME IndInv, NEW c \in Conns, session[c] # "none",
           is_eof' = [is_eof EXCEPT ![c] = TRUE],
           \A b \in Conns : session'[b] = "none" <=> session[b] = "none",
           UNCHANGED <<data_map, strand, dconn>>
    PROVE  [Lease!Next]_(Lease!vars)
<1> USE DEF IndInv, TypeOK, TypeEntry
<1>1. \A b \in Conns : b # c => Phase(b)' = Phase(b)
  BY SamePhase
<1>2. \A b \in Conns : Outstanding(b)' = Outstanding(b)
  BY SameOutstanding
<1>3. is_eof'[c] /\ session'[c] # "none"
  OBVIOUS
<1>4. CASE c \in data_map /\ ~is_eof[c]
  <2>1. Phase(c) = "serving" /\ Phase(c)' = "draining"
    BY <1>3, <1>4, PhaseCases
  <2> QED BY <1>1, <1>2, <2>1, OneMoves DEF Lease!Next, Lease!Drain
<1>5. CASE ~(c \in data_map /\ ~is_eof[c])
  <2>1. Phase(c)' = Phase(c)
    BY <1>3, <1>5, PhaseCases
  <2> QED BY <1>1, <1>2, <2>1, Stutters
<1> QED BY <1>4, <1>5

\* A posted job is a lease taken while the connection serves.
LEMMA PostTakes ==
    ASSUME IndInv, NEW c \in Conns, io[c] \in {"message", "config"},
           UNCHANGED <<session, data_map, is_eof>>,
           \A b \in Conns :
               Outstanding(b)' = IF b = c THEN Outstanding(c) + 1
                                          ELSE Outstanding(b)
    PROVE  [Lease!Next]_(Lease!vars)
<1>1. \A b \in Conns : Phase(b)' = Phase(b)
  BY SamePhase
<1>2. Phase(c) = "serving"
  BY PhaseCases DEF IndInv, HandlersKeepEntry
<1> QED BY <1>1, <1>2 DEF Lease!Next, Lease!Take

\* on_message drains the connection, takes a lease, or does neither.
LEMMA OnMessageLeases ==
    ASSUME IndInv, NEW c \in Conns, OnMessage(c)
    PROVE  [Lease!Next]_(Lease!vars)
<1> USE DEF Handler, entryVars, decVars, cleanVars, audioVars
<1>1. ASSUME ParseFails(c) PROVE [Lease!Next]_(Lease!vars)
  <2>1. session[c] # "none"
    BY <1>1 DEF ParseFails, IndInv, HandlersKeepEntry
  <2> QED BY <1>1, <2>1, EofDrains DEF ParseFails
<1>2. ASSUME TextBegins(c) \/ HotwordsLoaded(c) \/ Counted(c)
      PROVE  [Lease!Next]_(Lease!vars)
  BY <1>2, Quiet DEF TextBegins, HotwordsLoaded, Counted
<1>3. ASSUME NEW chunk \in Chunks, NEW end \in BOOLEAN,
             TextConfigures(c, chunk, end)
      PROVE  [Lease!Next]_(Lease!vars)
  BY <1>3, Quiet DEF TextConfigures
<1>4. ASSUME NEW chunk \in Chunks, TextEndsSpeech(c, chunk)
      PROVE  [Lease!Next]_(Lease!vars)
  BY <1>4, TextPostsOne, PostTakes DEF TextEndsSpeech
<1>5. ASSUME NEW n \in MsgSizes, BinaryKept(c, n)
      PROVE  [Lease!Next]_(Lease!vars)
  BY <1>5, Quiet DEF BinaryKept
<1>6. ASSUME NEW n \in MsgSizes, BinaryPosted(c, n)
      PROVE  [Lease!Next]_(Lease!vars)
  BY <1>6, BinaryPostsOne, PostTakes DEF BinaryPosted
<1> QED BY <1>1, <1>2, <1>3, <1>4, <1>5, <1>6 DEF OnMessage

\* on_close drains the connection or does nothing to its entry.
LEMMA OnCloseLeases ==
    ASSUME IndInv, NEW c \in Conns, OnClose(c)
    PROVE  [Lease!Next]_(Lease!vars)
<1> USE DEF entryVars, decVars, cleanVars, audioVars, lockVars
<1>1. ASSUME OnCloseFinds(c) PROVE [Lease!Next]_(Lease!vars)
  BY <1>1, Quiet DEF OnCloseFinds
<1>2. ASSUME OnCloseMissing(c) PROVE [Lease!Next]_(Lease!vars)
  <2>1. \A b \in Conns : Phase(b)' = Phase(b)
    BY <1>2, SamePhase DEF OnCloseMissing, IndInv, TypeOK, TypeIo
  <2> QED BY <1>2, <2>1, Stutters, SameOutstanding DEF OnCloseMissing
<1>3. ASSUME OnCloseMarks(c) PROVE [Lease!Next]_(Lease!vars)
  <2>1. session[c] # "none"
    BY <1>3 DEF OnCloseMarks, IndInv, HandlersKeepEntry
  <2>2. \A b \in Conns : session'[b] = "none" <=> session[b] = "none"
    BY <1>3, <2>1 DEF OnCloseMarks, IndInv, TypeOK, TypeIo
  <2> QED BY <1>3, <2>1, <2>2, EofDrains DEF OnCloseMarks
<1> QED BY <1>1, <1>2, <1>3 DEF OnClose

\* do_decoder returns one lease at its end, and does nothing else to them.
LEMMA DecoderLeases ==
    ASSUME IndInv, NEW d \in Decoders, Decoder(d)
    PROVE  [Lease!Next]_(Lease!vars)
<1> USE DEF ioVars, entryVars, cleanVars, audioVars, lockVars
<1>1. ASSUME NEW c \in Conns, JobStarts(d, c)
      PROVE  [Lease!Next]_(Lease!vars)
  <2>1. \A b \in Conns : Phase(b)' = Phase(b)
    BY <1>1, SamePhase DEF JobStarts
  <2> QED BY <1>1, <2>1, StartKeepsCount, Stutters
<1>2. ASSUME \/ JobFindsHandle(d) \/ JobFindsNoHandle(d) \/ InferStarts(d)
             \/ InferReturns(d) \/ InferThrows(d) \/ FinalStarts(d)
             \/ FinalReturns(d) \/ LoopEnds(d)
      PROVE  [Lease!Next]_(Lease!vars)
  BY <1>2, Quiet DEF JobFindsHandle, JobFindsNoHandle, InferStarts,
     InferReturns, InferThrows, FinalStarts, FinalReturns, LoopEnds, GivesUp,
     Feeds
<1>3. ASSUME JobFinishes(d) PROVE [Lease!Next]_(Lease!vars)
  <2>1. PICK c \in Conns : c = dconn[d]
    BY <1>3 DEF IndInv, TypeOK, TypeJobs, StrandExclusive, JobFinishes, Step
  <2>2. /\ Outstanding(c) > 0
        /\ \A b \in Conns :
             Outstanding(b)' = IF b = c THEN Outstanding(b) - 1 ELSE Outstanding(b)
    BY <1>3, <2>1, FinishTakesOne
  <2>3. \A b \in Conns : Phase(b)' = Phase(b)
    BY <1>3, SamePhase DEF JobFinishes
  <2> QED BY <2>2, <2>3 DEF Lease!Next, Lease!Return
<1> QED BY <1>1, <1>2, <1>3 DEF Decoder

\* The cleaner drains a connection that is gone, and frees one without leases.
LEMMA CleanerLeases ==
    ASSUME IndInv, Cleaner
    PROVE  [Lease!Next]_(Lease!vars)
<1> USE DEF ioVars, entryVars, decVars, audioVars, lockVars
<1>1. ASSUME NEW c \in Conns, SweepVisits(c) \/ RemoveLocks(c)
      PROVE  [Lease!Next]_(Lease!vars)
  BY <1>1, Quiet DEF SweepVisits, RemoveLocks
<1>2. ASSUME NEW c \in Conns, SweepFindsGone(c)
      PROVE  [Lease!Next]_(Lease!vars)
  BY <1>2, EofDrains DEF SweepFindsGone
<1>3. ASSUME \/ SweepStarts \/ SweepEnds \/ SweepSleeps \/ RemoveRefuses
             \/ RemoveFrees
      PROVE  [Lease!Next]_(Lease!vars)
  BY <1>3, Quiet DEF SweepStarts, SweepEnds, SweepSleeps, RemoveRefuses,
     RemoveFrees
<1>4. ASSUME RemoveErases PROVE [Lease!Next]_(Lease!vars)
  <2>1. PICK c \in Conns : c = hdl
    BY <1>4 DEF RemoveErases, IndInv, Locks
  <2>2. \A b \in Conns : Outstanding(b)' = Outstanding(b)
    BY <1>4, SameOutstanding DEF RemoveErases
  <2>3. \A b \in Conns : b # c => Phase(b)' = Phase(b)
    BY <1>4, <2>1, SamePhase DEF RemoveErases
  <2>4. CASE c \notin data_map
    <3>1. Phase(c)' = Phase(c)
      BY <1>4, <2>1, <2>4, SamePhase DEF RemoveErases
    <3> QED BY <2>2, <2>3, <3>1, Stutters
  <2>5. CASE c \in data_map
    <3>1. session[c] # "none" /\ is_eof[c] /\ access_num[c] = 0
      BY <1>4, <2>1, <2>5 DEF RemoveErases, IndInv, Entries
    <3>2. Phase(c) = "draining"
      BY <3>1, <2>5, PhaseCases
    <3>3. Phase(c)' = "over"
      BY <1>4, <2>1, <3>1, PhaseCases DEF RemoveErases
    <3>4. io[c] # "posted"
      BY <3>1 DEF IndInv, HandlersKeepEntry
    <3>5. Outstanding(c) = 0
      BY <3>1, <3>4 DEF IndInv, AccessCounts
    <3> QED BY <2>2, <2>3, <3>2, <3>3, <3>5, OneMoves
            DEF Lease!Next, Lease!Free
  <2> QED BY <2>4, <2>5
<1> QED BY <1>1, <1>2, <1>3, <1>4 DEF Cleaner

\* The server implements the lease specification: a job is accepted only while
\* its connection serves, and an entry is freed only when it drains and the
\* last job that refers to it has finished.
THEOREM Refinement == Spec => LeaseSafety
<1>1. Init => Lease!Init
  <2> SUFFICES ASSUME Init PROVE Lease!Init
    OBVIOUS
  <2>1. \A c \in Conns : ~Running(c) /\ Outstanding(c) = 0
    BY ConnsAssumption DEF Init, Running, Outstanding
  <2>2. \A c \in Conns : Phase(c) = "absent"
    BY PhaseCases DEF Init
  <2> QED BY <2>1, <2>2 DEF Lease!Init
<1>2. IndInv /\ [Next]_vars => [Lease!Next]_(Lease!vars)
  <2> SUFFICES ASSUME IndInv, [Next]_vars PROVE [Lease!Next]_(Lease!vars)
    OBVIOUS
  <2>1. CASE UNCHANGED vars
    BY <2>1, Quiet DEF vars, ioVars, entryVars, decVars
  <2> QED BY <2>1, ClientLeases, OnMessageLeases, OnCloseLeases,
          DecoderLeases, CleanerLeases DEF Next
<1> QED BY <1>1, <1>2, Invariance, PTL DEF Spec, LeaseSafety, Lease!Spec

-----------------------------------------------------------------------------
(* The audio of a connection: its blocks reach the recogniser in order, and  *)
(* none is skipped or given twice while the connection serves.               *)

\* The connection serves and no audio of it was given up.
Whole(c) == ~lost[c] /\ ~is_eof[c]

\* One piece ends at a, the next begins at b: never before, and as long as the
\* connection is whole, nowhere else.
Meets(c, a, b) == a <= b /\ (Whole(c) => a = b)

\* Where the i-th job of the strand begins, or else the audio that waits.
Begins(c, i) == IF i > Len(strand[c]) THEN rcvd[c] - samples[c] ELSE strand[c][i].from

\* From the recogniser, through the running job and the strand, to samples.
Chained(c) ==
    /\ \A i \in 1..Len(strand[c]) :
          /\ strand[c][i].from <= strand[c][i].to
          /\ Meets(c, strand[c][i].to, Begins(c, i + 1))
    /\ \A d \in Decoders : dconn[d] = c =>
          /\ Meets(c, fed[c], djob[d].from)
          /\ djob[d].from <= djob[d].to
          /\ Meets(c, djob[d].to, Begins(c, 1))
    /\ ~Running(c) => Meets(c, fed[c], Begins(c, 1))

\* A job that is not final holds whole setps and nothing else.
WholeSetps(job) == job.final \/ \E k \in Nat : job.to = job.from + k * Setp

\* What a thread's job still holds at each step of it.
Progress(d) ==
    /\ dpc[d] = "infer" => WholeSetp(d)
    /\ dpc[d] = "final" => djob[d].final
    /\ dpc[d] = "finish" /\ Whole(dconn[d]) => djob[d].from = djob[d].to

AudioInv ==
    /\ \A c \in Conns : Chained(c)
    /\ \A d \in Decoders : Progress(d) /\ WholeSetps(djob[d])
    /\ \A c \in Conns : \A i \in 1..Len(strand[c]) : WholeSetps(strand[c][i])

-----------------------------------------------------------------------------
(* Steps that leave the audio alone.                                         *)

\* Whatever else happens, a step that only gives audio up, ends connections or
\* moves threads within their jobs keeps the chain.
LEMMA AudioKept ==
    ASSUME IndInv, AudioInv,
           UNCHANGED <<strand, dconn, djob, fed, rcvd, samples>>,
           \A c \in Conns : Whole(c)' => Whole(c),
           \A d \in Decoders : dpc'[d] = dpc[d] \/ Progress(d)'
    PROVE  AudioInv'
<1>1. \A c \in Conns : Chained(c)'
  BY DEF AudioInv, Chained, Meets, Begins, Running
<1>2. \A d \in Decoders : Progress(d)'
  <2> SUFFICES ASSUME NEW d \in Decoders, dpc'[d] = dpc[d] PROVE Progress(d)'
    OBVIOUS
  <2>1. dpc[d] = "finish" => dconn[d] \in Conns
    BY DEF IndInv, TypeOK, TypeJobs, StrandExclusive
  <2> QED
    BY <2>1 DEF AudioInv, Progress, WholeSetp
<1> QED
  BY <1>1, <1>2 DEF AudioInv, WholeSetps

LEMMA QuietAudio ==
    ASSUME IndInv, AudioInv,
           UNCHANGED <<strand, decVars, audioVars>>,
           \A c \in Conns : is_eof[c] => is_eof'[c]
    PROVE  AudioInv'
<1>1. \A c \in Conns : Whole(c)' => Whole(c)
  BY DEF Whole, audioVars
<1> QED
  BY <1>1, AudioKept DEF decVars, audioVars

\* The jobs of a strand, and of the threads.
LEMMA JobAt ==
    ASSUME IndInv, NEW c \in Conns, NEW i \in 1..Len(strand[c])
    PROVE  /\ strand[c] \in Seq(Job) /\ strand[c][i] \in Job
           /\ strand[c][i].from \in Nat /\ strand[c][i].to \in Nat
           /\ strand[c][i].final \in BOOLEAN
           /\ i \in Nat \ {0} /\ i + 1 \in Nat \ {0}
<1>1. strand[c] \in Seq(Job) /\ Len(strand[c]) \in Nat
  BY DEF IndInv, TypeOK, TypeJobs
<1>2. strand[c][i] \in Job
  BY <1>1
<1>3. i \in Nat \ {0} /\ i + 1 \in Nat \ {0}
  BY <1>1
<1> QED BY <1>1, <1>2, <1>3 DEF Job

LEMMA RunningJob ==
    ASSUME IndInv, NEW d \in Decoders
    PROVE  /\ djob[d] \in Job /\ djob[d].from \in Nat /\ djob[d].to \in Nat
           /\ djob[d].final \in BOOLEAN
           /\ dpc[d] # "idle" <=> dconn[d] \in Conns
<1>1. djob[d] \in Job
  BY DEF IndInv, TypeOK, TypeJobs
<1> QED BY <1>1, ConnsAssumption DEF IndInv, TypeOK, TypeJobs, Job, StrandExclusive

-----------------------------------------------------------------------------
(* Posting.                                                                  *)

\* A job that begins where the audio that waits begins, and ends where what then
\* waits begins, is the next link of the chain.
LEMMA PostChains ==
    ASSUME IndInv, AudioInv, NEW c \in Conns, NEW j \in Job,
           j.from = Begins(c, Len(strand[c]) + 1), j.from <= j.to,
           j.to = rcvd'[c] - samples'[c], WholeSetps(j),
           Post(c, j),
           \A b \in Conns \ {c} : rcvd'[b] = rcvd[b] /\ samples'[b] = samples[b],
           UNCHANGED <<decVars, fed, lost, is_eof>>
    PROVE  AudioInv'
<1>0. PICK n \in Nat : n = Len(strand[c])
  BY DEF IndInv, TypeOK, TypeJobs
<1>1. /\ strand \in [Conns -> Seq(Job)] /\ strand'[c] = Append(strand[c], j)
      /\ \A b \in Conns \ {c} : strand'[b] = strand[b]
      /\ Len(strand[c]) = n /\ Len(strand'[c]) = n + 1 /\ strand'[c][n + 1] = j
      /\ \A i \in 1..n : strand'[c][i] = strand[c][i]
  BY <1>0 DEF IndInv, TypeOK, TypeJobs, Post
<1>2. /\ \A i \in 1..n + 1 : Begins(c, i)' = Begins(c, i)
      /\ Begins(c, n + 2)' = j.to
      /\ \A b \in Conns \ {c} : \A i : Begins(b, i)' = Begins(b, i)
  BY <1>1 DEF Begins
<1>3. \A b \in Conns : (Whole(b)' <=> Whole(b)) /\ (Running(b)' <=> Running(b))
  BY DEF Whole, Running, decVars
<1>4. Chained(c)'
  <2>1. ASSUME NEW i \in 1..n
        PROVE  /\ strand'[c][i].from <= strand'[c][i].to
               /\ Meets(c, strand[c][i].to, Begins(c, i + 1))'
    BY <1>1, <1>2, <1>3 DEF AudioInv, Chained, Meets
  <2>2. /\ strand'[c][n + 1].from <= strand'[c][n + 1].to
        /\ Meets(c, strand[c][n + 1].to, Begins(c, n + 2))'
    BY <1>1, <1>2 DEF Meets, Job
  <2>3. \A i \in 1..n + 1 : /\ strand'[c][i].from <= strand'[c][i].to
                            /\ Meets(c, strand[c][i].to, Begins(c, i + 1))'
    <3> SUFFICES ASSUME NEW i \in 1..n + 1
                 PROVE  /\ strand'[c][i].from <= strand'[c][i].to
                        /\ Meets(c, strand[c][i].to, Begins(c, i + 1))'
      OBVIOUS
    <3>1. CASE i = n + 1
      <4>1. i + 1 = n + 2
        BY <3>1
      <4> QED BY <3>1, <4>1, <2>2
    <3>2. CASE i # n + 1
      <4>1. i \in 1..n
        BY <3>2
      <4> QED BY <4>1, <2>1
    <3> QED BY <3>1, <3>2
  <2> QED
    BY <2>3, <1>1, <1>2, <1>3 DEF AudioInv, Chained, Meets, decVars
<1>5. ASSUME NEW b \in Conns \ {c} PROVE Chained(b)'
  BY <1>1, <1>2, <1>3 DEF AudioInv, Chained, Meets, decVars
<1>6. ASSUME NEW d \in Decoders PROVE Progress(d)' /\ WholeSetps(djob[d])'
  BY <1>3 DEF AudioInv, Progress, WholeSetps, WholeSetp, Whole, decVars
<1>7. ASSUME NEW b \in Conns, NEW i \in 1..Len(strand'[b]) PROVE WholeSetps(strand'[b][i])
  <2>1. CASE b # c
    BY <1>1, <2>1 DEF AudioInv
  <2>2. CASE b = c /\ i \in 1..n
    BY <1>1, <2>2 DEF AudioInv
  <2>3. CASE b = c /\ i = n + 1
    BY <1>1, <2>3
  <2>4. b = c => i \in 1..n + 1
    BY <1>1
  <2> QED
    BY <2>1, <2>2, <2>3, <2>4
<1> QED
  BY <1>4, <1>5, <1>6, <1>7 DEF AudioInv, WholeSetps

\* What waits lies behind every job of the strand.
LEMMA WaitsLast ==
    ASSUME IndInv, NEW c \in Conns
    PROVE  /\ Begins(c, Len(strand[c]) + 1) = rcvd[c] - samples[c]
           /\ rcvd[c] \in Nat /\ samples[c] \in Nat /\ samples[c] <= rcvd[c]
           /\ rcvd[c] - samples[c] \in Nat
BY DEF IndInv, TypeOK, TypeJobs, TypeAudio, Loading, Begins

\* CutOff takes whole setps.
LEMMA CutOffWhole ==
    ASSUME NEW m \in Nat
    PROVE  \E k \in Nat : CutOff(m) = k * Setp
<1>1. m \div Setp \in Nat
  BY SetpAssumption, SMT
<1>2. 0 = 0 * Setp
  BY SetpAssumption
<1> QED
  BY <1>1, <1>2 DEF CutOff

LEMMA TextAudio ==
    ASSUME IndInv, AudioInv, NEW c \in Conns, NEW chunk \in Chunks, TextEndsSpeech(c, chunk)
    PROVE  AudioInv'
<1> DEFINE j == [from |-> rcvd[c] - samples[c], to |-> rcvd[c], final |-> TRUE]
<1>1. /\ j \in Job /\ j.from <= j.to /\ WholeSetps(j)
      /\ j.from = Begins(c, Len(strand[c]) + 1)
  BY WaitsLast DEF Job, WholeSetps
<1>2. j.to = rcvd'[c] - samples'[c]
  BY WaitsLast DEF TextEndsSpeech, IndInv, TypeOK, TypeAudio
<1>3. /\ \A b \in Conns \ {c} : rcvd'[b] = rcvd[b] /\ samples'[b] = samples[b]
      /\ Post(c, j) /\ UNCHANGED <<decVars, fed, lost, is_eof>>
  BY DEF TextEndsSpeech, IndInv, TypeOK, TypeAudio
<1> HIDE DEF j
<1> QED
  BY <1>1, <1>2, <1>3, PostChains

LEMMA BinaryAudio ==
    ASSUME IndInv, AudioInv, NEW c \in Conns, NEW n \in MsgSizes, BinaryPosted(c, n)
    PROVE  AudioInv'
<1> DEFINE p == rcvd[c] - samples[c]
           cut == CutOff(samples[c] + n)
           j == [from |-> p, to |-> p + cut, final |-> FALSE]
<1>0. /\ n \in Nat /\ p \in Nat /\ samples[c] + n \in Nat
      /\ p = Begins(c, Len(strand[c]) + 1)
  BY WaitsLast, MsgSizesAssumption
<1>1. cut \in Nat /\ cut <= samples[c] + n
  BY <1>0, CutOffBounded
<1>2. j \in Job /\ j.from <= j.to /\ j.from = p
  BY <1>0, <1>1 DEF Job
<1>3. WholeSetps(j)
  BY <1>0, <1>1, CutOffWhole DEF WholeSetps
<1>4. j.to = rcvd'[c] - samples'[c]
  BY <1>0, <1>1, WaitsLast DEF BinaryPosted, IndInv, TypeOK, TypeAudio
<1>5. /\ \A b \in Conns \ {c} : rcvd'[b] = rcvd[b] /\ samples'[b] = samples[b]
      /\ Post(c, j) /\ UNCHANGED <<decVars, fed, lost, is_eof>>
  BY DEF BinaryPosted, entryVars, IndInv, TypeOK, TypeAudio
<1> HIDE DEF j
<1> QED
  BY <1>0, <1>2, <1>3, <1>4, <1>5, PostChains

\* Audio that stays in samples leaves the place where it begins; audio that is cut
\* off and posted nowhere is lost, and its place only moves ahead.
LEMMA KeptAudio ==
    ASSUME IndInv, AudioInv, NEW c \in Conns, NEW n \in MsgSizes, BinaryKept(c, n)
    PROVE  AudioInv'
<1> DEFINE cut == CutOff(samples[c] + n)
<1>0. n \in Nat /\ samples[c] + n \in Nat
  BY WaitsLast, MsgSizesAssumption
<1>1. cut \in Nat /\ cut <= samples[c] + n
  BY <1>0, CutOffBounded
<1> HIDE DEF cut
<1>2. /\ rcvd'[c] - samples'[c] = rcvd[c] - samples[c] + cut
      /\ \A b \in Conns \ {c} : rcvd'[b] = rcvd[b] /\ samples'[b] = samples[b]
      /\ UNCHANGED <<strand, decVars, fed, is_eof>>
  BY <1>0, <1>1, WaitsLast DEF cut, BinaryKept, entryVars, IndInv, TypeOK, TypeAudio
<1>2a. \A b \in Conns : lost'[b] <=> lost[b] \/ (b = c /\ cut > 0)
  <2>1. lost \in [Conns -> BOOLEAN]
    BY DEF IndInv, TypeOK, TypeAudio
  <2>2. lost' = [lost EXCEPT ![c] = lost[c] \/ cut > 0]
    BY DEF BinaryKept, cut
  <2> QED BY <2>1, <2>2
<1>2b. \A b \in Conns : Whole(b)' => Whole(b) /\ (b = c => cut = 0)
  BY <1>1, <1>2, <1>2a DEF Whole
<1>3. \A b \in Conns : Running(b)' <=> Running(b)
  BY <1>2 DEF Running, decVars
<1>4. ASSUME NEW i \in Nat \ {0}
      PROVE  /\ Begins(c, i) \in Int /\ Begins(c, i)' \in Int
             /\ Begins(c, i) <= Begins(c, i)'
             /\ Whole(c)' => Begins(c, i)' = Begins(c, i)
  <2>1. Len(strand[c]) \in Nat
    BY DEF IndInv, TypeOK, TypeJobs
  <2>2. CASE i > Len(strand[c])
    <3>1. /\ Begins(c, i) = rcvd[c] - samples[c]
          /\ Begins(c, i)' = rcvd[c] - samples[c] + cut
      BY <1>2, <2>2 DEF Begins
    <3> QED BY <1>1, <1>2b, <3>1, WaitsLast
  <2>3. CASE ~(i > Len(strand[c]))
    <3>1. strand[c][i] \in Job
      BY <2>1, <2>3 DEF IndInv, TypeOK, TypeJobs
    <3>2. Begins(c, i)' = Begins(c, i) /\ Begins(c, i) = strand[c][i].from
      BY <1>2, <2>3 DEF Begins
    <3> QED BY <3>1, <3>2 DEF Job
  <2> QED BY <2>2, <2>3
<1>5. Chained(c)'
  <2>1. ASSUME NEW a \in Nat, NEW i \in Nat \ {0}, Meets(c, a, Begins(c, i))
        PROVE  a <= Begins(c, i)' /\ (Whole(c)' => a = Begins(c, i)')
    BY <2>1, <1>2b, <1>4 DEF Meets
  <2>2. ASSUME NEW i \in 1..Len(strand[c])
        PROVE  (strand[c][i].from <= strand[c][i].to /\ Meets(c, strand[c][i].to, Begins(c, i + 1)))'
    <3>1. /\ strand[c][i].from <= strand[c][i].to
          /\ Meets(c, strand[c][i].to, Begins(c, i + 1))
      BY DEF AudioInv, Chained
    <3>2. strand[c][i].to \in Nat /\ i + 1 \in Nat \ {0}
      BY JobAt
    <3>3. /\ strand[c][i].to <= Begins(c, i + 1)'
          /\ Whole(c)' => strand[c][i].to = Begins(c, i + 1)'
      BY <2>1, <3>1, <3>2
    <3> QED BY <1>2, <3>1, <3>3 DEF Meets
  <2>3. ASSUME NEW d \in Decoders, dconn[d] = c
        PROVE  (/\ Meets(c, fed[c], djob[d].from) /\ djob[d].from <= djob[d].to
                /\ Meets(c, djob[d].to, Begins(c, 1)))'
    <3>1. /\ Meets(c, fed[c], djob[d].from) /\ djob[d].from <= djob[d].to
          /\ Meets(c, djob[d].to, Begins(c, 1))
      BY <2>3 DEF AudioInv, Chained
    <3>2. djob[d].to \in Nat
      BY DEF IndInv, TypeOK, TypeJobs, Job
    <3> QED BY <1>2, <1>2b, <2>1, <3>1, <3>2 DEF Meets, decVars
  <2>4. ~Running(c) => Meets(c, fed[c], Begins(c, 1))'
    <3>1. ~Running(c) => Meets(c, fed[c], Begins(c, 1))
      BY DEF AudioInv, Chained
    <3>2. fed[c] \in Nat
      BY DEF IndInv, TypeOK, TypeAudio
    <3> QED BY <1>2, <2>1, <3>1, <3>2 DEF Meets
  <2> QED
    BY <1>2, <1>3, <2>2, <2>3, <2>4 DEF Chained, decVars
<1>6. ASSUME NEW b \in Conns \ {c} PROVE Chained(b)'
  BY <1>2, <1>2b, <1>3 DEF AudioInv, Chained, Meets, Begins, decVars
<1>7. ASSUME NEW d \in Decoders PROVE Progress(d)'
  <2>1. dpc[d] = "finish" => dconn[d] \in Conns
    BY DEF IndInv, TypeOK, TypeJobs, StrandExclusive
  <2> QED
    BY <2>1, <1>2, <1>2b DEF AudioInv, Progress, WholeSetp, decVars
<1> QED
  BY <1>2, <1>5, <1>6, <1>7 DEF AudioInv, WholeSetps, decVars

-----------------------------------------------------------------------------
(* The jobs.                                                                 *)

\* The first job of the strand takes the place of the one that ran before.
LEMMA StartAudio ==
    ASSUME IndInv, AudioInv, NEW d \in Decoders, NEW c \in Conns, JobStarts(d, c)
    PROVE  AudioInv'
<1>0. PICK n \in Nat : n = Len(strand[c])
  BY DEF IndInv, TypeOK, TypeJobs
<1>1. /\ strand \in [Conns -> Seq(Job)] /\ strand[c] # <<>> /\ n >= 1
      /\ strand'[c] = Tail(strand[c]) /\ Len(strand[c]) = n /\ Len(strand'[c]) = n - 1
      /\ \A b \in Conns \ {c} : strand'[b] = strand[b]
      /\ \A i \in 1..n - 1 : strand'[c][i] = strand[c][i + 1]
  BY <1>0 DEF JobStarts, IndInv, TypeOK, TypeJobs
<1>2. /\ dconn'[d] = c /\ djob'[d] = strand[c][1] /\ dpc'[d] = "entry"
      /\ \A e \in Decoders \ {d} : dconn'[e] = dconn[e] /\ djob'[e] = djob[e] /\ dpc'[e] = dpc[e]
      /\ UNCHANGED <<fed, rcvd, samples, lost, is_eof>>
      /\ dconn[d] = "none" /\ \A e \in Decoders : dconn[e] # c
  BY <1>1 DEF JobStarts, StrandIdle, entryVars, audioVars, IndInv, TypeOK, TypeJobs, StrandExclusive
<1>3. /\ \A i \in 1..n : Begins(c, i)' = Begins(c, i + 1)
      /\ \A b \in Conns \ {c} : \A i : Begins(b, i)' = Begins(b, i)
      /\ Begins(c, 1) = strand[c][1].from
  BY <1>1, <1>2 DEF Begins
<1>4. \A b \in Conns : Whole(b)' <=> Whole(b)
  BY <1>2 DEF Whole
<1>5. Chained(c)'
  <2>1. ASSUME NEW i \in 1..n - 1
        PROVE  (strand[c][i].from <= strand[c][i].to /\ Meets(c, strand[c][i].to, Begins(c, i + 1)))'
    <3>1. i + 1 \in 1..n /\ i + 1 \in 1..Len(strand[c])
      BY <1>1
    <3>2. /\ strand[c][i + 1].from <= strand[c][i + 1].to
          /\ Meets(c, strand[c][i + 1].to, Begins(c, (i + 1) + 1))
      BY <3>1 DEF AudioInv, Chained
    <3> QED BY <1>1, <1>3, <1>4, <3>1, <3>2 DEF Meets
  <2>2. /\ Meets(c, fed[c], Begins(c, 1))
        /\ strand[c][1].from <= strand[c][1].to
        /\ Meets(c, strand[c][1].to, Begins(c, 2))
    <3>1. 1 \in 1..Len(strand[c])
      BY <1>1
    <3> QED BY <1>2, <3>1 DEF AudioInv, Chained, Running
  <2>3. ASSUME NEW e \in Decoders, dconn'[e] = c
        PROVE  (/\ Meets(c, fed[c], djob[e].from) /\ djob[e].from <= djob[e].to
                /\ Meets(c, djob[e].to, Begins(c, 1)))'
    <3>1. e = d
      BY <1>2, <2>3
    <3>2. 1 \in 1..n
      BY <1>1
    <3> QED BY <1>2, <1>3, <1>4, <2>2, <3>1, <3>2 DEF Meets
  <2>4. Running(c)'
    BY <1>2 DEF Running
  <2> QED
    BY <1>1, <2>1, <2>3, <2>4 DEF Chained
<1>6. ASSUME NEW b \in Conns \ {c} PROVE Chained(b)'
  <2>1. \A e \in Decoders : (dconn'[e] = b <=> dconn[e] = b) /\ (dconn[e] = b => djob'[e] = djob[e])
    BY <1>2, ConnsAssumption
  <2>2. Running(b)' <=> Running(b)
    BY <2>1 DEF Running
  <2>3. /\ strand'[b] = strand[b] /\ fed'[b] = fed[b] /\ (Whole(b)' <=> Whole(b))
        /\ \A i : Begins(b, i)' = Begins(b, i)
    BY <1>1, <1>2, <1>3, <1>4
  <2>4. Chained(b)
    BY DEF AudioInv
  <2>5. \A i \in 1..Len(strand'[b]) :
            (strand[b][i].from <= strand[b][i].to /\ Meets(b, strand[b][i].to, Begins(b, i + 1)))'
    BY <2>3, <2>4 DEF Chained, Meets
  <2>6. \A e \in Decoders : dconn'[e] = b =>
            (/\ Meets(b, fed[b], djob[e].from) /\ djob[e].from <= djob[e].to
             /\ Meets(b, djob[e].to, Begins(b, 1)))'
    BY <2>1, <2>3, <2>4 DEF Chained, Meets
  <2>7. ~Running(b)' => Meets(b, fed[b], Begins(b, 1))'
    BY <2>2, <2>3, <2>4 DEF Chained, Meets
  <2> QED
    BY <2>5, <2>6, <2>7 DEF Chained
<1>7. ASSUME NEW e \in Decoders PROVE Progress(e)' /\ WholeSetps(djob'[e])
  <2>1. CASE e = d
    <3>1. 1 \in 1..Len(strand[c])
      BY <1>1
    <3> QED BY <1>2, <2>1, <3>1 DEF AudioInv, Progress
  <2>2. CASE e # d
    <3>1. dpc[e] = "finish" => dconn[e] \in Conns
      BY RunningJob
    <3> QED BY <1>2, <1>4, <2>2, <3>1 DEF AudioInv, Progress, WholeSetp
  <2> QED BY <2>1, <2>2
<1>8. ASSUME NEW b \in Conns, NEW i \in 1..Len(strand'[b]) PROVE WholeSetps(strand'[b][i])
  <2>1. CASE b = c
    <3>1. i + 1 \in 1..Len(strand[c]) /\ strand'[c][i] = strand[c][i + 1]
      BY <1>1, <2>1
    <3> QED BY <2>1, <3>1 DEF AudioInv
  <2>2. CASE b # c
    BY <1>1, <2>2 DEF AudioInv
  <2> QED BY <2>1, <2>2
<1> QED
  BY <1>5, <1>6, <1>7, <1>8 DEF AudioInv, WholeSetps

\* Less than one setp of whole setps is nothing.
LEMMA NoneLeft ==
    ASSUME NEW k \in Nat, k * Setp < Setp
    PROVE  k = 0
<1>1. ASSUME k >= 1 PROVE FALSE
  <2>1. PICK m \in Nat : k = m + 1
    BY <1>1
  <2>2. k * Setp = m * Setp + Setp /\ m * Setp \in Nat
    BY <2>1, SetpAssumption
  <2> QED BY <2>2, SetpAssumption
<1> QED BY <1>1

\* A thread moves on within its job; where it stops, the job is done, or its
\* audio is given up, or the connection has ended.
LEMMA MoveAudio ==
    ASSUME IndInv, AudioInv, NEW d \in Decoders,
           \/ JobFindsHandle(d) \/ InferStarts(d) \/ FinalStarts(d) \/ LoopEnds(d)
           \/ JobFindsNoHandle(d) \/ InferThrows(d)
    PROVE  AudioInv'
<1> USE DEF entryVars, audioVars
<1>0. /\ dpc \in [Decoders -> {"idle", "entry", "loop", "infer", "final", "finish"}]
      /\ lost \in [Conns -> BOOLEAN]
      /\ dpc[d] # "idle" => dconn[d] \in Conns
      /\ djob[d].from \in Nat /\ djob[d].to \in Nat
  BY RunningJob DEF IndInv, TypeOK, TypeJobs, TypeAudio
<1>1. /\ UNCHANGED <<strand, dconn, djob, fed, rcvd, samples, is_eof>>
      /\ \A e \in Decoders : e # d => dpc'[e] = dpc[e]
      /\ \A c \in Conns : lost[c] => lost'[c]
      /\ dconn[d] \in Conns
  BY <1>0 DEF JobFindsHandle, InferStarts, FinalStarts, LoopEnds, JobFindsNoHandle,
     InferThrows, Step, GivesUp
<1>2. \A c \in Conns : Whole(c)' => Whole(c)
  BY <1>1 DEF Whole
<1>3. Progress(d)'
  <2>1. CASE JobFindsHandle(d)
    BY <2>1, <1>0 DEF JobFindsHandle, Step, Progress
  <2>2. CASE InferStarts(d)
    BY <2>2, <1>0 DEF InferStarts, Step, Progress, WholeSetp
  <2>3. CASE FinalStarts(d)
    BY <2>3, <1>0 DEF FinalStarts, Step, Progress
  <2>4. CASE LoopEnds(d)
    <3>1. dpc'[d] = "finish" /\ (is_eof[dconn[d]] \/ NothingLeft(d))
      BY <2>4, <1>0 DEF LoopEnds, Step
    <3>2. ASSUME NothingLeft(d) PROVE djob[d].from = djob[d].to
      <4>1. PICK k \in Nat : djob[d].to = djob[d].from + k * Setp
        BY <3>2 DEF NothingLeft, AudioInv, WholeSetps
      <4>2. k * Setp \in Nat
        BY SetpAssumption
      <4>3. k * Setp < Setp
        BY <3>2, <4>1, <4>2, <1>0, SetpAssumption DEF NothingLeft, WholeSetp
      <4>4. k = 0
        BY <4>3, NoneLeft
      <4>5. k * Setp = 0
        BY <4>4, SetpAssumption
      <4> QED BY <4>1, <4>5, <1>0
    <3> QED BY <3>1, <3>2, <1>1 DEF Progress, Whole
  <2>5. CASE JobFindsNoHandle(d) \/ InferThrows(d)
    <3>1. dpc'[d] = "finish" /\ lost'[dconn[d]]
      BY <2>5, <1>0, <1>1 DEF JobFindsNoHandle, InferThrows, Step, GivesUp
    <3> QED BY <3>1, <1>1 DEF Progress, Whole
  <2> QED BY <2>1, <2>2, <2>3, <2>4, <2>5
<1> QED
  BY <1>1, <1>2, <1>3, AudioKept

\* The recogniser takes the next of the job's audio.
LEMMA FeedAudio ==
    ASSUME IndInv, AudioInv, NEW d \in Decoders, InferReturns(d) \/ FinalReturns(d)
    PROVE  /\ AudioInv'
           /\ fed'[dconn[d]] >= fed[dconn[d]]
           /\ \A c \in Conns \ {dconn[d]} : fed'[c] = fed[c]
<1> USE SetpAssumption
<1>c. PICK c \in Conns : c = dconn[d]
  BY RunningJob DEF InferReturns, FinalReturns, Step
<1>p. PICK p \in Nat : p = IF dpc[d] = "infer" THEN djob[d].from + Setp ELSE djob[d].to
  BY RunningJob
<1>0. /\ dpc[d] \in {"infer", "final"} /\ c = dconn[d]
      /\ djob \in [Decoders -> Job] /\ djob[d] \in Job /\ fed \in [Conns -> Nat]
      /\ djob[d].from \in Nat /\ djob[d].to \in Nat /\ djob[d].final \in BOOLEAN
      /\ dpc \in [Decoders -> {"idle", "entry", "loop", "infer", "final", "finish"}]
  BY RunningJob, <1>c DEF InferReturns, FinalReturns, Step, IndInv, TypeOK, TypeJobs, TypeAudio
<1>1. /\ fed' = [fed EXCEPT ![c] = p] /\ djob' = [djob EXCEPT ![d].from = p]
      /\ dpc' = [dpc EXCEPT ![d] = IF dpc[d] = "infer" THEN "loop" ELSE "finish"]
      /\ UNCHANGED <<strand, dconn, samples, rcvd, lost, is_eof>>
  BY <1>0, <1>p DEF InferReturns, FinalReturns, Step, Feeds, entryVars
<1>2. /\ Meets(c, fed[c], djob[d].from) /\ djob[d].from <= djob[d].to
      /\ Meets(c, djob[d].to, Begins(c, 1))
      /\ Progress(d) /\ WholeSetps(djob[d])
  BY <1>0 DEF AudioInv, Chained
<1>3. djob[d].from <= p /\ p <= djob[d].to
  BY <1>0, <1>2, <1>p DEF Progress, WholeSetp
<1>4. fed'[c] = p /\ fed'[c] >= fed[c] /\ \A b \in Conns \ {c} : fed'[b] = fed[b]
  BY <1>0, <1>1, <1>2, <1>3 DEF Meets
<1>5. /\ djob'[d].from = p /\ djob'[d].to = djob[d].to /\ djob'[d].final = djob[d].final
      /\ \A e \in Decoders \ {d} : djob'[e] = djob[e] /\ dpc'[e] = dpc[e]
  BY <1>0, <1>1 DEF Job
<1>6. /\ \A b \in Conns : (Whole(b)' <=> Whole(b)) /\ (Running(b)' <=> Running(b))
      /\ \A b \in Conns : \A i : Begins(b, i)' = Begins(b, i)
  BY <1>1 DEF Whole, Running, Begins
<1>7. Chained(c)'
  <2>1. Running(c)
    BY <1>0 DEF Running
  <2>2. ASSUME NEW e \in Decoders, dconn'[e] = c
        PROVE  (/\ Meets(c, fed[c], djob[e].from) /\ djob[e].from <= djob[e].to
                /\ Meets(c, djob[e].to, Begins(c, 1)))'
    <3>1. e = d
      BY <2>2, <1>0, <1>1, ConnsAssumption DEF IndInv, StrandExclusive
    <3>2. Meets(c, p, p) /\ (Whole(c)' <=> Whole(c)) /\ Begins(c, 1)' = Begins(c, 1)
      BY <1>0, <1>3, <1>6 DEF Meets
    <3> QED BY <3>1, <3>2, <1>2, <1>3, <1>4, <1>5 DEF Meets
  <2>3. \A i \in 1..Len(strand'[c]) :
            (strand[c][i].from <= strand[c][i].to /\ Meets(c, strand[c][i].to, Begins(c, i + 1)))'
    <3>1. Chained(c) /\ (Whole(c)' <=> Whole(c)) /\ strand' = strand
      BY <1>0, <1>1, <1>6 DEF AudioInv
    <3>2. \A i : Begins(c, i)' = Begins(c, i)
      BY <1>0, <1>6
    <3> QED BY <3>1, <3>2 DEF Chained, Meets
  <2> QED BY <2>1, <2>2, <2>3, <1>0, <1>6 DEF Chained
<1>8. ASSUME NEW b \in Conns \ {c} PROVE Chained(b)'
  <2>1. \A e \in Decoders : dconn[e] = b => e # d
    BY <1>0
  <2>2. Chained(b)
    BY DEF AudioInv
  <2> QED BY <2>1, <2>2, <1>1, <1>4, <1>5, <1>6 DEF Chained, Meets
<1>9. ASSUME NEW e \in Decoders PROVE Progress(e)'
  <2>1. CASE e = d
    <3>1. CASE dpc[d] = "infer"
      <4>1. dpc'[d] = "loop"
        BY <3>1, <1>0, <1>1
      <4> QED BY <4>1, <2>1 DEF Progress
    <3>2. CASE dpc[d] = "final"
      <4>1. dpc'[d] = "finish" /\ p = djob[d].to
        BY <3>2, <1>0, <1>1, <1>p
      <4> QED BY <4>1, <2>1, <1>5 DEF Progress
    <3> QED BY <3>1, <3>2, <1>0
  <2>2. CASE e # d
    <3>1. dpc[e] = "finish" => dconn[e] \in Conns
      BY RunningJob
    <3> QED BY <3>1, <2>2, <1>1, <1>5, <1>6 DEF AudioInv, Progress, WholeSetp
  <2> QED BY <2>1, <2>2
<1>10. WholeSetps(djob'[d])
  <2>1. CASE djob[d].final
    BY <2>1, <1>5 DEF WholeSetps
  <2>2. CASE ~djob[d].final
    <3>1. PICK k \in Nat : djob[d].to = djob[d].from + k * Setp
      BY <2>2, <1>2 DEF WholeSetps
    <3>2. dpc[d] = "infer" /\ p = djob[d].from + Setp /\ p <= djob[d].to
      BY <2>2, <1>0, <1>2, <1>3, <1>p DEF Progress
    <3>3. k >= 1
      <4>1. ASSUME k = 0 PROVE FALSE
        <5>1. k * Setp = 0
          BY <4>1
        <5> QED BY <5>1, <3>1, <3>2, <1>0
      <4> QED BY <4>1
    <3>4. PICK m \in Nat : k = m + 1
      BY <3>3
    <3>5. k * Setp = m * Setp + Setp /\ m * Setp \in Nat
      BY <3>4
    <3>6. djob[d].to = p + m * Setp
      BY <3>1, <3>2, <3>5, <1>0
    <3> QED BY <3>6, <1>5 DEF WholeSetps
  <2> QED BY <2>1, <2>2, <1>0
<1>11. \A b \in Conns : \A i \in 1..Len(strand'[b]) : WholeSetps(strand'[b][i])
  BY <1>1 DEF AudioInv
<1>12. AudioInv'
  <2>1. \A b \in Conns : Chained(b)'
    <3> SUFFICES ASSUME NEW b \in Conns PROVE Chained(b)'
      OBVIOUS
    <3> QED BY <1>7, <1>8
  <2>2. \A e \in Decoders : Progress(e)' /\ WholeSetps(djob'[e])
    BY <1>5, <1>9, <1>10 DEF AudioInv
  <2> QED BY <2>1, <2>2, <1>11 DEF AudioInv, WholeSetps
<1> QED
  BY <1>0, <1>4, <1>12

\* A job that is finished has handed its place in the chain on.
LEMMA FinishAudio ==
    ASSUME IndInv, AudioInv, NEW d \in Decoders, JobFinishes(d)
    PROVE  AudioInv'
<1>c. PICK c \in Conns : c = dconn[d]
  BY RunningJob DEF JobFinishes, Step
<1>0. /\ dpc[d] = "finish" /\ dconn[d] = c /\ dpc'[d] = "idle" /\ dconn'[d] = "none" /\ djob'[d] = NoJob
      /\ \A e \in Decoders \ {d} : dpc'[e] = dpc[e] /\ dconn'[e] = dconn[e] /\ djob'[e] = djob[e]
      /\ UNCHANGED <<strand, fed, samples, rcvd, lost, is_eof>>
  BY <1>c DEF JobFinishes, Step, audioVars, IndInv, TypeOK, TypeJobs
<1>1. /\ \A b \in Conns : Whole(b)' <=> Whole(b)
      /\ \A b \in Conns : \A i : Begins(b, i)' = Begins(b, i)
      /\ \A e \in Decoders : e # d => dconn[e] # c
  BY <1>0, <1>c, ConnsAssumption DEF Whole, Begins, IndInv, StrandExclusive
<1>2. Chained(c)'
  <2>1. \A e \in Decoders : dconn'[e] # c
    BY <1>0, <1>1, ConnsAssumption
  <2>2. /\ Meets(c, fed[c], djob[d].from) /\ djob[d].from <= djob[d].to
        /\ Meets(c, djob[d].to, Begins(c, 1))
        /\ Whole(c) => djob[d].from = djob[d].to
    BY <1>0 DEF AudioInv, Chained, Progress
  <2>3. Begins(c, 1) \in Int
    <3>1. CASE Len(strand[c]) = 0
      BY <3>1, WaitsLast
    <3>2. CASE Len(strand[c]) # 0
      <4>1. 1 \in 1..Len(strand[c]) /\ ~(1 > Len(strand[c]))
        BY <3>2 DEF IndInv, TypeOK, TypeJobs
      <4> QED BY <4>1, JobAt DEF Begins
    <3> QED BY <3>1, <3>2
  <2>4. fed[c] \in Nat /\ djob[d].from \in Nat /\ djob[d].to \in Nat
    BY RunningJob DEF IndInv, TypeOK, TypeAudio
  <2>5. Meets(c, fed[c], Begins(c, 1))'
    BY <2>2, <2>3, <2>4, <1>0, <1>1 DEF Meets
  <2>6. \A i \in 1..Len(strand'[c]) :
            (strand[c][i].from <= strand[c][i].to /\ Meets(c, strand[c][i].to, Begins(c, i + 1)))'
    <3>1. Chained(c) /\ (Whole(c)' <=> Whole(c)) /\ strand' = strand
      BY <1>0, <1>1 DEF AudioInv
    <3>2. \A i : Begins(c, i)' = Begins(c, i)
      BY <1>1
    <3> QED BY <3>1, <3>2 DEF Chained, Meets
  <2> QED BY <2>1, <2>5, <2>6 DEF Chained
<1>3. ASSUME NEW b \in Conns \ {c} PROVE Chained(b)'
  <2>1. \A e \in Decoders : (dconn'[e] = b <=> dconn[e] = b) /\ (dconn[e] = b => djob'[e] = djob[e])
    BY <1>0, ConnsAssumption
  <2>2. Running(b)' <=> Running(b)
    BY <2>1 DEF Running
  <2>3. Chained(b)
    BY DEF AudioInv
  <2> QED BY <2>1, <2>2, <2>3, <1>0, <1>1 DEF Chained, Meets
<1>4. ASSUME NEW e \in Decoders PROVE Progress(e)' /\ WholeSetps(djob'[e])
  <2>1. CASE e = d
    <3>1. NoJob.to = NoJob.from + 0 * Setp
      BY SetpAssumption DEF NoJob
    <3> QED BY <3>1, <2>1, <1>0 DEF Progress, WholeSetps
  <2>2. CASE e # d
    <3>1. dpc[e] = "finish" => dconn[e] \in Conns
      BY RunningJob
    <3> QED BY <3>1, <2>2, <1>0, <1>1 DEF AudioInv, Progress, WholeSetp
  <2> QED BY <2>1, <2>2
<1>5. \A b \in Conns : Chained(b)'
  <2> SUFFICES ASSUME NEW b \in Conns PROVE Chained(b)'
    OBVIOUS
  <2> QED BY <1>2, <1>3
<1> QED
  BY <1>0, <1>4, <1>5 DEF AudioInv, WholeSetps

-----------------------------------------------------------------------------
(* The theorems.                                                             *)

LEMMA NextAudio == IndInv /\ AudioInv /\ [Next]_vars => AudioInv'
<1> SUFFICES ASSUME IndInv, AudioInv, [Next]_vars PROVE AudioInv'
  OBVIOUS
<1> USE DEF ioVars, entryVars, lockVars, cleanVars
<1>0. is_eof \in [Conns -> BOOLEAN]
  BY DEF IndInv, TypeOK, TypeEntry
<1>1. ASSUME NEW c \in Conns, Client(c) PROVE AudioInv'
  BY <1>1, QuietAudio DEF Client, OnOpen, OnOpenFails, SessionShuts, SessionDestroyed,
     OnMessageIgnored, OnMessageFinds
<1>2. ASSUME NEW c \in Conns, OnMessage(c) PROVE AudioInv'
  <2>1. CASE \E chunk \in Chunks : TextEndsSpeech(c, chunk)
    BY <2>1, TextAudio
  <2>2. CASE \E n \in MsgSizes : BinaryKept(c, n)
    BY <2>2, KeptAudio
  <2>3. CASE \E n \in MsgSizes : BinaryPosted(c, n)
    BY <2>3, BinaryAudio
  <2>4. CASE \/ ParseFails(c) \/ TextBegins(c) \/ HotwordsLoaded(c) \/ Counted(c)
             \/ \E chunk \in Chunks : \E end \in BOOLEAN : TextConfigures(c, chunk, end)
    BY <2>4, <1>0, QuietAudio
       DEF ParseFails, TextBegins, HotwordsLoaded, Counted, TextConfigures
  <2> QED BY <1>2, <2>1, <2>2, <2>3, <2>4 DEF OnMessage
<1>3. ASSUME NEW c \in Conns, OnClose(c) PROVE AudioInv'
  BY <1>3, <1>0, QuietAudio DEF OnClose, OnCloseFinds, OnCloseMissing, OnCloseMarks
<1>4. ASSUME NEW d \in Decoders, Decoder(d) PROVE AudioInv'
  BY <1>4, StartAudio, MoveAudio, FeedAudio, FinishAudio DEF Decoder
<1>5. CASE Cleaner
  BY <1>5, <1>0, QuietAudio DEF Cleaner, SweepStarts, SweepEnds, SweepSleeps, SweepVisits,
     SweepFindsGone, RemoveLocks, RemoveRefuses, RemoveFrees, RemoveErases
<1>6. CASE UNCHANGED vars
  BY <1>6, QuietAudio DEF vars
<1> QED BY <1>1, <1>2, <1>3, <1>4, <1>5, <1>6 DEF Next

LEMMA InitAudio == Init => AudioInv
<1> SUFFICES ASSUME Init PROVE AudioInv
  OBVIOUS
<1>1. ASSUME NEW c \in Conns PROVE Chained(c)
  <2>1. Len(strand[c]) = 0 /\ Begins(c, 1) = 0 /\ fed[c] = 0 /\ ~Running(c)
    BY ConnsAssumption DEF Init, Begins, Running
  <2>2. \A d \in Decoders : dconn[d] # c
    BY ConnsAssumption DEF Init
  <2> QED BY <2>1, <2>2 DEF Chained, Meets
<1>2. WholeSetps(NoJob)
  <2>1. NoJob.to = NoJob.from + 0 * Setp
    BY SetpAssumption DEF NoJob
  <2> QED BY <2>1 DEF WholeSetps
<1>3. \A c \in Conns : Len(strand[c]) = 0
  BY DEF Init
<1> QED BY <1>1, <1>2, <1>3 DEF AudioInv, Init, Progress

\* In every state the server can reach, the pieces of a connection's audio lie
\* behind each other from the recogniser to samples.
THEOREM AudioInvariance == Spec => [](IndInv /\ AudioInv)
<1>1. Init => IndInv /\ AudioInv
  BY InitInv, InitAudio
<1>2. IndInv /\ AudioInv /\ [Next]_vars => (IndInv /\ AudioInv)'
  BY NextInv, NextAudio
<1> QED BY <1>1, <1>2, PTL DEF Spec

\* Each byte of a connection that serves is with the recogniser, in the running
\* job, in one queued job or in samples, and in no two of them: however the
\* client slices its audio, on_message and do_decoder skip and repeat none.
THEOREM NothingSkippedCorrect == Spec => []NothingSkipped
<1>1. AudioInv => NothingSkipped
  BY DEF AudioInv, Chained, Meets, Begins, Whole, NothingSkipped
<1> QED BY <1>1, AudioInvariance, PTL

LEMMA FeedsForward ==
    ASSUME IndInv, AudioInv, [Next]_vars, NEW c \in Conns
    PROVE  fed'[c] >= fed[c]
<1>0. fed \in [Conns -> Nat]
  BY DEF IndInv, TypeOK, TypeAudio
<1>1. ASSUME NEW d \in Decoders, InferReturns(d) \/ FinalReturns(d) PROVE fed'[c] >= fed[c]
  BY <1>0, <1>1, FeedAudio
<1>2. CASE UNCHANGED fed
  BY <1>0, <1>2
<1> USE DEF audioVars
<1>3. ASSUME NEW b \in Conns, Client(b) \/ OnMessage(b) \/ OnClose(b) PROVE UNCHANGED fed
  <2>1. CASE Client(b)
    BY <2>1 DEF Client, OnOpen, OnOpenFails, SessionShuts, SessionDestroyed,
       OnMessageIgnored, OnMessageFinds
  <2>2. CASE OnMessage(b)
    BY <2>2 DEF OnMessage, ParseFails, TextBegins, HotwordsLoaded, Counted,
       TextConfigures, TextEndsSpeech, BinaryKept, BinaryPosted
  <2>3. CASE OnClose(b)
    BY <2>3 DEF OnClose, OnCloseFinds, OnCloseMissing, OnCloseMarks
  <2> QED BY <1>3, <2>1, <2>2, <2>3
<1>4. ASSUME NEW d \in Decoders, Decoder(d), ~(InferReturns(d) \/ FinalReturns(d))
      PROVE  UNCHANGED fed
  BY <1>4 DEF Decoder, JobStarts, JobFindsHandle, JobFindsNoHandle, InferStarts, InferThrows,
     FinalStarts, LoopEnds, JobFinishes, GivesUp
<1>5. CASE Cleaner
  BY <1>5, <1>2 DEF Cleaner, SweepStarts, SweepEnds, SweepSleeps, SweepVisits, SweepFindsGone,
     RemoveLocks, RemoveRefuses, RemoveFrees, RemoveErases
<1>6. CASE UNCHANGED vars
  BY <1>6, <1>2 DEF vars
<1> QED BY <1>1, <1>2, <1>3, <1>4, <1>5, <1>6 DEF Next

\* FunTpassInferBuffer is never called with audio of a connection that lies before
\* audio it was already given, even where some in between was lost.
THEOREM InOrder == Spec => FedInOrder
<1>1. IndInv /\ AudioInv /\ [Next]_vars => [\A c \in Conns : fed'[c] >= fed[c]]_vars
  BY FeedsForward
<1> QED BY <1>1, AudioInvariance, PTL DEF Spec, FedInOrder

-----------------------------------------------------------------------------
(* TpassServer neither forgets nor repeats a final reply: each end of speech *)
(* a serving connection posted is in one queued job, with one thread that    *)
(* still has to answer it, or answered.                                      *)

Finals(q) == {i \in 1..Len(q) : q[i].final}
Owes(d, c) == dconn[d] = c /\ djob[d].final /\ dpc[d] # "finish"
Owing(c) == {d \in Decoders : Owes(d, c)}

\* A strand runs one job at a time: one thread of a connection owes a reply, or none.
OneOwes(c) == IF \E d \in Decoders : Owes(d, c) THEN 1 ELSE 0

Balance(c) == ends[c] = replies[c] + Cardinality(Finals(strand[c])) + OneOwes(c)
Balances == \A c \in Conns : Whole(c) => Balance(c)

-----------------------------------------------------------------------------
(* Counting.                                                                 *)

LEMMA OwingCount ==
    ASSUME IndInv, NEW c \in Conns
    PROVE  Cardinality(Owing(c)) = OneOwes(c)
<1>1. ASSUME NEW d \in Decoders, Owes(d, c) PROVE Cardinality(Owing(c)) = 1
  <2>1. \A e \in Decoders : Owes(e, c) => e = d
    BY <1>1, ConnsAssumption DEF Owes, IndInv, StrandExclusive
  <2>2. Owing(c) = {d}
    BY <1>1, <2>1 DEF Owing
  <2> QED BY <2>2, FS_Singleton
<1>2. ASSUME ~\E d \in Decoders : Owes(d, c) PROVE Cardinality(Owing(c)) = 0
  <2>1. Owing(c) = {}
    BY <1>2 DEF Owing
  <2> QED BY <2>1, FS_EmptySet
<1> QED BY <1>1, <1>2 DEF OneOwes

LEMMA OwedIsBalance ==
    ASSUME IndInv
    PROVE  RepliesOwed <=> Balances
<1>1. \A c \in Conns :
        /\ {i \in 1..Len(strand[c]) : strand[c][i].final} = Finals(strand[c])
        /\ {d \in Decoders : dconn[d] = c /\ djob[d].final /\ dpc[d] # "finish"} = Owing(c)
  BY DEF Finals, Owing, Owes
<1>2. \A c \in Conns : Cardinality(Owing(c)) = OneOwes(c)
  BY OwingCount
<1> QED BY <1>1, <1>2 DEF RepliesOwed, Balances, Balance, Whole

LEMMA FinalsFinite ==
    ASSUME NEW q \in Seq(Job)
    PROVE  IsFiniteSet(Finals(q)) /\ Cardinality(Finals(q)) \in Nat
<1>1. Len(q) \in Nat /\ 0 \in Int
  OBVIOUS
<1>2. IsFiniteSet(1..Len(q))
  BY <1>1, FS_Interval
<1>3. Finals(q) \subseteq 1..Len(q)
  BY DEF Finals
<1> QED BY <1>2, <1>3, FS_Subset, FS_CardinalityType

\* A job more at the end.
LEMMA AppendFinals ==
    ASSUME NEW q \in Seq(Job), NEW j \in Job
    PROVE  Cardinality(Finals(Append(q, j))) =
              Cardinality(Finals(q)) + (IF j.final THEN 1 ELSE 0)
<1>1. /\ Len(Append(q, j)) = Len(q) + 1 /\ Len(q) \in Nat
      /\ \A i \in 1..Len(q) : Append(q, j)[i] = q[i]
      /\ Append(q, j)[Len(q) + 1] = j
  OBVIOUS
<1>2. IsFiniteSet(Finals(q)) /\ Cardinality(Finals(q)) \in Nat
  BY FinalsFinite
<1>3. CASE j.final
  <2>1. Finals(Append(q, j)) = Finals(q) \cup {Len(q) + 1}
    BY <1>1, <1>3 DEF Finals
  <2>2. Len(q) + 1 \notin Finals(q)
    BY <1>1 DEF Finals
  <2> QED BY <1>2, <1>3, <2>1, <2>2, FS_AddElement
<1>4. CASE ~j.final
  <2>1. Finals(Append(q, j)) = Finals(q)
    BY <1>1, <1>4 DEF Finals
  <2> QED BY <1>2, <1>4, <2>1
<1> QED BY <1>3, <1>4

\* A job less at the head.
LEMMA TailFinals ==
    ASSUME NEW q \in Seq(Job), q # <<>>
    PROVE  Cardinality(Finals(q)) =
              Cardinality(Finals(Tail(q))) + (IF Head(q).final THEN 1 ELSE 0)
<1>1. /\ Len(q) \in Nat /\ Len(q) >= 1 /\ Tail(q) \in Seq(Job)
      /\ Len(Tail(q)) = Len(q) - 1
      /\ \A i \in 1..Len(q) - 1 : Tail(q)[i] = q[i + 1]
      /\ Head(q) = q[1]
  OBVIOUS
<1> DEFINE A == Finals(q) \ {1}
           B == Finals(Tail(q))
           f == [i \in B |-> i + 1]
<1>2. IsFiniteSet(B) /\ Cardinality(B) \in Nat
  BY <1>1, FinalsFinite
<1>3. f \in [B -> A]
  BY <1>1 DEF Finals
<1>4. \A i, j \in B : f[i] = f[j] => i = j
  BY <1>1 DEF Finals
<1>5. \A a \in A : \E i \in B : f[i] = a
  <2> SUFFICES ASSUME NEW a \in A PROVE \E i \in B : f[i] = a
    OBVIOUS
  <2>1. a - 1 \in B
    BY <1>1 DEF Finals
  <2>2. f[a - 1] = a
    BY <2>1, <1>1 DEF Finals
  <2> QED BY <2>1, <2>2
<1>6. f \in Bijection(B, A)
  <2> HIDE DEF f, A, B
  <2> QED BY <1>3, <1>4, <1>5 DEF Bijection, Injection, Surjection, IsInjective
<1>7. IsFiniteSet(A) /\ Cardinality(A) = Cardinality(B)
  <2> HIDE DEF f, A, B
  <2>1. ExistsBijection(B, A)
    BY <1>6 DEF ExistsBijection
  <2> QED BY <1>2, <2>1, FS_Bijection
<1>8. IsFiniteSet(Finals(q)) /\ Cardinality(Finals(q)) \in Nat
  BY FinalsFinite
<1>9. 1 \in Finals(q) <=> Head(q).final
  BY <1>1 DEF Finals
<1>10. Cardinality(A) = IF 1 \in Finals(q) THEN Cardinality(Finals(q)) - 1
                                           ELSE Cardinality(Finals(q))
  BY <1>8, FS_RemoveElement
<1> HIDE DEF A, B
<1>11. CASE Head(q).final
  BY <1>2, <1>7, <1>8, <1>9, <1>10, <1>11 DEF B
<1>12. CASE ~Head(q).final
  BY <1>2, <1>7, <1>8, <1>9, <1>10, <1>12 DEF B
<1> QED BY <1>11, <1>12

-----------------------------------------------------------------------------
(* The steps.                                                                *)

\* Jobs, threads and replies stay as they are in most steps.
LEMMA SameBalance ==
    ASSUME Balances, UNCHANGED <<strand, ends, replies>>,
           \A c \in Conns : Whole(c)' =>
               /\ Whole(c)
               /\ (\E d \in Decoders : Owes(d, c)') <=> \E d \in Decoders : Owes(d, c)
    PROVE  Balances'
BY DEF Balances, Balance, OneOwes

LEMMA QuietBalance ==
    ASSUME Balances, UNCHANGED <<strand, decVars, audioVars>>,
           \A c \in Conns : is_eof[c] => is_eof'[c]
    PROVE  Balances'
<1>1. \A c \in Conns : Whole(c)' => Whole(c)
  BY DEF Whole, audioVars
<1>2. \A c \in Conns : \A d \in Decoders : Owes(d, c)' <=> Owes(d, c)
  BY DEF Owes, decVars
<1> QED BY <1>1, <1>2, SameBalance DEF audioVars

LEMMA PostBalance ==
    ASSUME IndInv, Balances, NEW c \in Conns, NEW j \in Job, Post(c, j),
           ends' = IF j.final THEN [ends EXCEPT ![c] = @ + 1] ELSE ends,
           UNCHANGED <<decVars, lost, is_eof, replies>>
    PROVE  Balances'
<1>1. /\ strand \in [Conns -> Seq(Job)] /\ ends \in [Conns -> Nat] /\ replies \in [Conns -> Nat]
      /\ j.final \in BOOLEAN
  BY DEF IndInv, TypeOK, TypeJobs, TypeAudio, Job
<1>2. \A b \in Conns : (Whole(b)' <=> Whole(b)) /\ OneOwes(b)' = OneOwes(b)
  BY DEF Whole, OneOwes, Owes, decVars
<1>3. /\ strand'[c] = Append(strand[c], j) /\ \A b \in Conns \ {c} : strand'[b] = strand[b]
      /\ ends'[c] = ends[c] + (IF j.final THEN 1 ELSE 0)
      /\ \A b \in Conns \ {c} : ends'[b] = ends[b]
  BY <1>1 DEF Post
<1>4. /\ Cardinality(Finals(strand'[c])) =
             Cardinality(Finals(strand[c])) + (IF j.final THEN 1 ELSE 0)
      /\ Cardinality(Finals(strand[c])) \in Nat
  BY <1>1, <1>3, AppendFinals, FinalsFinite
<1>5. OneOwes(c) \in Nat
  BY DEF OneOwes
<1>6. ASSUME Whole(c)' PROVE Balance(c)'
  BY <1>1, <1>2, <1>3, <1>4, <1>5, <1>6 DEF Balances, Balance
<1>7. ASSUME NEW b \in Conns \ {c}, Whole(b)' PROVE Balance(b)'
  BY <1>2, <1>3, <1>7 DEF Balances, Balance
<1> QED BY <1>6, <1>7 DEF Balances

\* A final job that starts moves its debt from the strand to the thread.
LEMMA StartBalance ==
    ASSUME IndInv, Balances, NEW d \in Decoders, NEW c \in Conns, JobStarts(d, c)
    PROVE  Balances'
<1>1. /\ strand \in [Conns -> Seq(Job)] /\ strand[c] \in Seq(Job) /\ strand[c] # <<>>
      /\ strand'[c] = Tail(strand[c]) /\ \A b \in Conns \ {c} : strand'[b] = strand[b]
      /\ dconn'[d] = c /\ djob'[d] = Head(strand[c]) /\ dpc'[d] = "entry" /\ dconn[d] = "none"
      /\ \A e \in Decoders \ {d} : dconn'[e] = dconn[e] /\ djob'[e] = djob[e] /\ dpc'[e] = dpc[e]
      /\ UNCHANGED <<lost, is_eof, ends, replies>>
      /\ \A e \in Decoders : dconn[e] # c
  BY DEF JobStarts, StrandIdle, entryVars, audioVars, IndInv, TypeOK, TypeJobs, StrandExclusive
<1>2. \A b \in Conns : Whole(b)' <=> Whole(b)
  BY <1>1 DEF Whole
<1>3. OneOwes(c) = 0 /\ OneOwes(c)' = (IF Head(strand[c]).final THEN 1 ELSE 0)
  <2>1. ~\E e \in Decoders : Owes(e, c)
    BY <1>1 DEF Owes
  <2>2. \A e \in Decoders : Owes(e, c)' <=> e = d /\ Head(strand[c]).final
    BY <1>1 DEF Owes
  <2> QED BY <2>1, <2>2 DEF OneOwes
<1>4. \A b \in Conns \ {c} : OneOwes(b)' = OneOwes(b)
  <2>1. \A b \in Conns \ {c} : \A e \in Decoders : Owes(e, b)' <=> Owes(e, b)
    BY <1>1, ConnsAssumption DEF Owes
  <2> QED BY <2>1 DEF OneOwes
<1>5. /\ Cardinality(Finals(strand[c])) =
             Cardinality(Finals(strand'[c])) + (IF Head(strand[c]).final THEN 1 ELSE 0)
      /\ Cardinality(Finals(strand'[c])) \in Nat
  <2>1. Tail(strand[c]) \in Seq(Job)
    BY <1>1
  <2> QED BY <1>1, <2>1, TailFinals, FinalsFinite
<1>6. ends[c] \in Nat /\ replies[c] \in Nat
  BY DEF IndInv, TypeOK, TypeAudio
<1>7. ASSUME Whole(c)' PROVE Balance(c)'
  BY <1>1, <1>2, <1>3, <1>5, <1>6, <1>7 DEF Balances, Balance
<1>8. ASSUME NEW b \in Conns \ {c}, Whole(b)' PROVE Balance(b)'
  BY <1>1, <1>2, <1>4, <1>8 DEF Balances, Balance
<1> QED BY <1>7, <1>8 DEF Balances

\* A thread that moves on without an answer owes what it owed; where it gives its
\* job up, the audio is lost or the connection has ended.
LEMMA MoveBalance ==
    ASSUME IndInv, AudioInv, AudioInv', Balances, NEW d \in Decoders,
           \/ JobFindsHandle(d) \/ InferStarts(d) \/ InferReturns(d) \/ FinalStarts(d)
           \/ LoopEnds(d) \/ JobFindsNoHandle(d) \/ InferThrows(d)
    PROVE  Balances'
<1> USE DEF entryVars, audioVars
<1>0. /\ dpc \in [Decoders -> {"idle", "entry", "loop", "infer", "final", "finish"}]
      /\ djob \in [Decoders -> Job] /\ djob[d] \in Job
      /\ lost \in [Conns -> BOOLEAN] /\ (dpc[d] # "idle" => dconn[d] \in Conns)
  BY RunningJob DEF IndInv, TypeOK, TypeJobs, TypeAudio
<1>1. /\ UNCHANGED <<strand, dconn, is_eof, ends, replies>>
      /\ \A e \in Decoders \ {d} : dpc'[e] = dpc[e] /\ djob'[e] = djob[e]
      /\ djob'[d].final = djob[d].final /\ dpc[d] # "finish" /\ dconn[d] \in Conns
      /\ \A c \in Conns : lost[c] => lost'[c]
  BY <1>0 DEF JobFindsHandle, InferStarts, FinalStarts, LoopEnds, JobFindsNoHandle,
     InferThrows, InferReturns, Step, GivesUp, Feeds, Job
<1>2. dpc'[d] = "finish" => ~djob[d].final \/ lost'[dconn[d]] \/ is_eof[dconn[d]]
  BY <1>0 DEF JobFindsHandle, InferStarts, FinalStarts, LoopEnds, JobFindsNoHandle,
     InferThrows, InferReturns, Step, GivesUp, NothingLeft
<1>3. ASSUME NEW c \in Conns, Whole(c)'
      PROVE  Whole(c) /\ \A e \in Decoders : Owes(e, c)' <=> Owes(e, c)
  BY <1>1, <1>2, <1>3 DEF Whole, Owes
<1> QED BY <1>1, <1>3, SameBalance

\* The final reply settles the one debt of the running job.
LEMMA AnswerBalance ==
    ASSUME IndInv, AudioInv, Balances, NEW d \in Decoders, FinalReturns(d)
    PROVE  Balances'
<1>c. PICK c \in Conns : c = dconn[d]
  BY RunningJob DEF FinalReturns, Step
<1>0. /\ dpc[d] = "final" /\ dpc'[d] = "finish" /\ djob[d].final
      /\ \A e \in Decoders \ {d} : dpc'[e] = dpc[e] /\ djob'[e] = djob[e]
      /\ replies'[c] = replies[c] + 1 /\ \A b \in Conns \ {c} : replies'[b] = replies[b]
      /\ UNCHANGED <<strand, dconn, lost, is_eof, ends>>
      /\ replies[c] \in Nat /\ ends[c] \in Nat
  BY <1>c DEF FinalReturns, Step, Feeds, entryVars, IndInv, TypeOK, TypeJobs, TypeAudio,
     AudioInv, Progress
<1>1. \A b \in Conns : Whole(b)' <=> Whole(b)
  BY <1>0 DEF Whole
<1>2. OneOwes(c) = 1 /\ OneOwes(c)' = 0
  <2>1. Owes(d, c)
    BY <1>0, <1>c DEF Owes
  <2>2. ASSUME NEW e \in Decoders, Owes(e, c)' PROVE FALSE
    <3>1. e = d
      BY <2>2, <1>0, <1>c, ConnsAssumption DEF Owes, IndInv, StrandExclusive
    <3> QED BY <2>2, <3>1, <1>0 DEF Owes
  <2> QED BY <2>1, <2>2 DEF OneOwes
<1>3. \A b \in Conns \ {c} : OneOwes(b)' = OneOwes(b)
  <2>1. \A b \in Conns \ {c} : \A e \in Decoders : Owes(e, b)' <=> Owes(e, b)
    BY <1>0, <1>c DEF Owes
  <2> QED BY <2>1 DEF OneOwes
<1>4. Cardinality(Finals(strand[c])) \in Nat
  BY FinalsFinite DEF IndInv, TypeOK, TypeJobs
<1>5. ASSUME Whole(c)' PROVE Balance(c)'
  BY <1>0, <1>1, <1>2, <1>4, <1>5 DEF Balances, Balance
<1>6. ASSUME NEW b \in Conns \ {c}, Whole(b)' PROVE Balance(b)'
  BY <1>0, <1>1, <1>3, <1>6 DEF Balances, Balance
<1> QED BY <1>5, <1>6 DEF Balances

LEMMA FinishBalance ==
    ASSUME IndInv, Balances, NEW d \in Decoders, JobFinishes(d)
    PROVE  Balances'
<1>0. /\ dpc[d] = "finish" /\ dconn'[d] = "none"
      /\ \A e \in Decoders \ {d} : dconn'[e] = dconn[e] /\ dpc'[e] = dpc[e] /\ djob'[e] = djob[e]
      /\ UNCHANGED <<strand, lost, is_eof, ends, replies>>
  BY DEF JobFinishes, Step, audioVars, IndInv, TypeOK, TypeJobs
<1>1. \A c \in Conns : \A e \in Decoders : Owes(e, c)' <=> Owes(e, c)
  BY <1>0, ConnsAssumption DEF Owes
<1> QED BY <1>0, <1>1, SameBalance DEF Whole

LEMMA NextBalance == IndInv /\ AudioInv /\ AudioInv' /\ Balances /\ [Next]_vars => Balances'
<1> SUFFICES ASSUME IndInv, AudioInv, AudioInv', Balances, [Next]_vars PROVE Balances'
  OBVIOUS
<1> USE DEF ioVars, entryVars, lockVars, cleanVars
<1>0. is_eof \in [Conns -> BOOLEAN] /\ lost \in [Conns -> BOOLEAN]
  BY DEF IndInv, TypeOK, TypeEntry, TypeAudio
<1>1. ASSUME NEW c \in Conns, Client(c) PROVE Balances'
  BY <1>1, QuietBalance DEF Client, OnOpen, OnOpenFails, SessionShuts, SessionDestroyed,
     OnMessageIgnored, OnMessageFinds
<1>2. ASSUME NEW c \in Conns, OnMessage(c) PROVE Balances'
  <2>1. ASSUME NEW chunk \in Chunks, TextEndsSpeech(c, chunk) PROVE Balances'
    <3> DEFINE j == [from |-> rcvd[c] - samples[c], to |-> rcvd[c], final |-> TRUE]
    <3>1. j \in Job /\ j.final
      BY WaitsLast DEF Job
    <3>2. Post(c, j) /\ ends' = [ends EXCEPT ![c] = @ + 1]
          /\ UNCHANGED <<decVars, lost, is_eof, replies>>
      BY <2>1 DEF TextEndsSpeech
    <3> HIDE DEF j
    <3> QED BY <3>1, <3>2, PostBalance
  <2>2. ASSUME NEW n \in MsgSizes, BinaryKept(c, n) PROVE Balances'
    <3>1. UNCHANGED <<strand, decVars, is_eof, ends, replies>>
          /\ \A b \in Conns : lost[b] => lost'[b]
      BY <2>2, <1>0 DEF BinaryKept
    <3>2. \A b \in Conns : \A e \in Decoders : Owes(e, b)' <=> Owes(e, b)
      BY <3>1 DEF Owes, decVars
    <3> QED BY <3>1, <3>2, SameBalance DEF Whole
  <2>3. ASSUME NEW n \in MsgSizes, BinaryPosted(c, n) PROVE Balances'
    <3> DEFINE p == rcvd[c] - samples[c]
               cut == CutOff(samples[c] + n)
               j == [from |-> p, to |-> p + cut, final |-> FALSE]
    <3>1. p \in Nat /\ samples[c] + n \in Nat
      BY WaitsLast, MsgSizesAssumption
    <3>2. cut \in Nat
      BY <3>1, CutOffBounded
    <3>3. j \in Job /\ ~j.final
      BY <3>1, <3>2 DEF Job
    <3>4. Post(c, j) /\ UNCHANGED <<decVars, ends, lost, is_eof, replies>>
      BY <2>3 DEF BinaryPosted
    <3> HIDE DEF j
    <3> QED BY <3>3, <3>4, PostBalance
  <2>4. CASE \/ ParseFails(c) \/ TextBegins(c) \/ HotwordsLoaded(c) \/ Counted(c)
             \/ \E chunk \in Chunks : \E end \in BOOLEAN : TextConfigures(c, chunk, end)
    BY <2>4, <1>0, QuietBalance
       DEF ParseFails, TextBegins, HotwordsLoaded, Counted, TextConfigures
  <2> QED BY <1>2, <2>1, <2>2, <2>3, <2>4 DEF OnMessage
<1>3. ASSUME NEW c \in Conns, OnClose(c) PROVE Balances'
  BY <1>3, <1>0, QuietBalance DEF OnClose, OnCloseFinds, OnCloseMissing, OnCloseMarks
<1>4. ASSUME NEW d \in Decoders, Decoder(d) PROVE Balances'
  BY <1>4, StartBalance, MoveBalance, AnswerBalance, FinishBalance DEF Decoder
<1>5. CASE Cleaner
  BY <1>5, <1>0, QuietBalance DEF Cleaner, SweepStarts, SweepEnds, SweepSleeps, SweepVisits,
     SweepFindsGone, RemoveLocks, RemoveRefuses, RemoveFrees, RemoveErases
<1>6. CASE UNCHANGED vars
  BY <1>6, QuietBalance DEF vars
<1> QED BY <1>1, <1>2, <1>3, <1>4, <1>5, <1>6 DEF Next

\* Each end of speech on_message posted for a connection that serves has exactly
\* one final reply, sent by do_decoder or still owed by one job in flight.
THEOREM RepliesOwedCorrect == Spec => []RepliesOwed
<1> DEFINE Inv == IndInv /\ AudioInv /\ Balances
<1>1. Init => Inv
  <2> SUFFICES ASSUME Init PROVE Inv
    OBVIOUS
  <2>1. ASSUME NEW c \in Conns PROVE Balance(c)
    <3>1. Finals(strand[c]) = {}
      BY DEF Init, Finals
    <3>2. \A d \in Decoders : ~Owes(d, c)
      BY ConnsAssumption DEF Init, Owes
    <3>3. ends[c] = 0 /\ replies[c] = 0
      BY DEF Init
    <3> QED BY <3>1, <3>2, <3>3, FS_EmptySet DEF Balance, OneOwes
  <2> QED BY <2>1, InitInv, InitAudio DEF Balances
<1>2. Inv /\ [Next]_vars => Inv'
  BY NextInv, NextAudio, NextBalance
<1>3. Inv => RepliesOwed
  BY OwedIsBalance
<1> QED BY <1>1, <1>2, <1>3, PTL DEF Spec
=============================================================================
