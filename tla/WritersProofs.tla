----------------------------- MODULE WritersProofs ----------------------------
(***************************************************************************)
(* Theorems about the two programs that write through the cache.           *)
(*                                                                         *)
(* AssemblyCache (Init, Next, Spec): any number of threads that enqueue    *)
(* requests.  What the writing half does to the archive is taken from      *)
(* WritePathProofs, what the reading half does to its environments from    *)
(* ReadPathProofs.                                                         *)
(*                                                                         *)
(* Backup (BInit, BNext, BSpec): LXRbackup, for every command line,        *)
(* content and size of blocks, queue and assemblies, and any changes by    *)
(* other programs.  What the cache does is taken from WritePathProofs.     *)
(***************************************************************************)
EXTENDS AssemblyCache, Backup, WritePathProofs, ReadPathProofs, SequenceTheorems

-----------------------------------------------------------------------------
(* AssemblyCache                                                           *)

(* What a thread holds between its test and the lock: one request or none. *)
PassedInv ==
    /\ DOMAIN wpassed = Writers /\ DOMAIN rpassed = Readers
    /\ \A t \in Writers : wpassed[t] = <<>> \/ \E r \in Request : wpassed[t] = <<r>> /\ r.fhash = t
    /\ \A t \in Readers : rpassed[t] = <<>> \/ \E b \in BlockInfo : rpassed[t] = <<b>>

ReadInv ==
    /\ rqueue \in Seq(BlockInfo)
    /\ EnvsOK(readenvs)
    /\ \A i \in 1..Len(readenvs) : readenvs[i] \in keystore

CacheInv == WInv /\ PassedInv /\ ReadInv /\ OverrunIsBounded

-----------------------------------------------------------------------------
(* A queue and the requests that passed the test, for either half          *)

LEMMA PassedFinite ==
    ASSUME NEW T, IsFiniteSet(T), NEW p, DOMAIN p = T
    PROVE  /\ IsFiniteSet(Passed(p)) /\ Cardinality(Passed(p)) \in Nat
           /\ Cardinality(T) \in Nat /\ Cardinality(Passed(p)) <= Cardinality(T)
BY FS_Subset, FS_CardinalityType DEF Passed

(* One thread more passes the test of a queue that has room.               *)
LEMMA TestIsBounded ==
    ASSUME NEW T, IsFiniteSet(T), NEW p, DOMAIN p = T, NEW t \in T, p[t] = <<>>,
           NEW r, NEW size \in Nat, NEW len \in Nat, len < size
    PROVE  LET q == [p EXCEPT ![t] = <<r>>]
           IN  DOMAIN q = T /\ len + Cardinality(Passed(q)) <= size + Cardinality(T) - 1
<1> DEFINE q == [p EXCEPT ![t] = <<r>>]
<1>1. DOMAIN q = T
  OBVIOUS
<1>2. Cardinality(Passed(q)) \in Nat /\ Cardinality(T) \in Nat
      /\ Cardinality(Passed(q)) <= Cardinality(T)
  <2> HIDE DEF q
  <2> QED BY <1>1, PassedFinite
<1> QED BY <1>1, <1>2

(* A thread that has enqueued its request no longer counts.                *)
LEMMA PushIsNeutral ==
    ASSUME NEW T, IsFiniteSet(T), NEW p, DOMAIN p = T, NEW t \in T, p[t] # <<>>
    PROVE  LET q == [p EXCEPT ![t] = <<>>]
           IN  DOMAIN q = T /\ Cardinality(Passed(q)) = Cardinality(Passed(p)) - 1
<1> DEFINE q == [p EXCEPT ![t] = <<>>]
<1>1. DOMAIN q = T /\ \A u \in T : q[u] = IF u = t THEN <<>> ELSE p[u]
  OBVIOUS
<1>2. Passed(q) = Passed(p) \ {t} /\ t \in Passed(p)
  <2> HIDE DEF q
  <2> QED BY <1>1 DEF Passed
<1>3. IsFiniteSet(Passed(p))
  BY PassedFinite
<1> QED BY <1>1, <1>2, <1>3, FS_RemoveElement

LEMMA JoinFacts ==
    ASSUME NEW S, NEW s \in Seq(S), NEW e \in S
    PROVE  s \o <<e>> \in Seq(S) /\ Len(s \o <<e>>) = Len(s) + 1
<1>1. <<e>> \in Seq(S) /\ Len(<<e>>) = 1
  OBVIOUS
<1> QED BY <1>1, ConcatProperties

-----------------------------------------------------------------------------
LEMMA CacheInitInv == Init => CacheInv
<1> SUFFICES ASSUME Init PROVE CacheInv
  OBVIOUS
<1>1. WInv
  BY WInitInv DEF Init
<1>2. PassedInv
  BY DEF Init, PassedInv
<1>3. Len(<<>>) = 0 /\ \A S : <<>> \in Seq(S)
  BY EmptySeq
<1>4. ReadInv
  BY <1>3, ReadQueueAssumption DEF Init, REmpty, ReadInv, EnvsOK, EnvRoom
<1>5. OverrunIsBounded
  <2>1. Passed(wpassed) = {} /\ Passed(rpassed) = {} /\ Cardinality({}) = 0
    BY FS_EmptySet DEF Init, Passed
  <2>2. ASSUME NEW T, IsFiniteSet(T), T # {} PROVE Cardinality(T) \in Nat /\ Cardinality(T) > 0
    BY <2>2, FS_CardinalityType, FS_EmptySet
  <2>3. /\ Cardinality(Writers) \in Nat /\ Cardinality(Writers) > 0
        /\ Cardinality(Readers) \in Nat /\ Cardinality(Readers) > 0
    BY <2>2, ThreadsAssumption DEF Writers
  <2>4. Len(wqueue) = 0 /\ Len(rqueue) = 0
    BY <1>3 DEF Init, WInit, REmpty
  <2> QED BY <2>1, <2>3, <2>4, QueueAssumption, ReadQueueAssumption DEF OverrunIsBounded
<1> QED BY <1>1, <1>2, <1>4, <1>5 DEF CacheInv

(* Lengths and numbers that the bounds are computed with.                  *)
LEMMA Numbers ==
    ASSUME CacheInv
    PROVE  /\ Len(wqueue) \in Nat /\ Len(rqueue) \in Nat
           /\ Cardinality(Writers) \in Nat /\ Cardinality(Readers) \in Nat
           /\ Cardinality(Passed(wpassed)) \in Nat
           /\ Cardinality(Passed(wpassed)) <= Cardinality(Writers)
           /\ Cardinality(Passed(rpassed)) \in Nat
           /\ Cardinality(Passed(rpassed)) <= Cardinality(Readers)
<1>1. Len(wqueue) \in Nat /\ Len(rqueue) \in Nat
  BY LenProperties DEF CacheInv, WInv, QueueInv, ReadInv
<1>2. DOMAIN wpassed = Writers /\ DOMAIN rpassed = Readers
  BY DEF CacheInv, PassedInv
<1>3. IsFiniteSet(Writers) /\ IsFiniteSet(Readers)
  BY ThreadsAssumption DEF Writers
<1> QED BY <1>1, <1>2, <1>3, PassedFinite

(* The keys only grow in number, and an assembly with a key is there.      *)
LEMMA ReadInvStays ==
    ASSUME CacheInv, WInv', keystore \subseteq keystore', readenvs' = readenvs,
           rqueue' \in Seq(BlockInfo)
    PROVE  ReadInv'
<1>1. /\ EnvsOK(readenvs) /\ Len(readenvs) \in Nat
      /\ readenvs \in [1..Len(readenvs) -> Aids]
      /\ \A i \in 1..Len(readenvs) : readenvs[i] \in keystore
  BY LenProperties DEF CacheInv, ReadInv, EnvsOK
<1>2. keystore' \subseteq Aids'
  BY DEF WInv, ArchiveInv
<1>3. readenvs' \in Seq(Aids')
  <2>1. \A i \in 1..Len(readenvs) : readenvs[i] \in Aids'
    BY <1>1, <1>2
  <2>2. readenvs \in [1..Len(readenvs) -> Aids']
    BY <1>1, <2>1
  <2> QED BY <1>1, <2>2
<1> QED BY <1>1, <1>3 DEF ReadInv, EnvsOK

-----------------------------------------------------------------------------
(* The steps                                                               *)

LEMMA TestWriteInv ==
    ASSUME CacheInv, NEW t \in Writers, NEW d \in Data, TestWrite(t, d)
    PROVE  CacheInv'
<1> DEFINE r == [fhash |-> t, fpos |-> Len(accepted[t]), data |-> d]
<1>1. WInv'
  BY DEF TestWrite, CacheInv, WInv, ArchiveInv, QueueInv, EnvInv, archiveVars, pathVars, Aids
<1>2. r \in Request
  <2>1. accepted[t] \in Seq(Request)
    BY DEF CacheInv, WInv, QueueInv, Writers
  <2>2. Len(accepted[t]) \in Nat
    BY <2>1, LenProperties
  <2> QED BY <2>2 DEF Request, Writers
<1>3. PassedInv'
  BY <1>2 DEF TestWrite, CacheInv, PassedInv
<1>4. ReadInv'
  BY <1>1, ReadInvStays DEF TestWrite, CacheInv, ReadInv, archiveVars, envVars
<1>5. OverrunIsBounded'
  <2> HIDE DEF r
  <2>1. /\ DOMAIN wpassed = Writers /\ IsFiniteSet(Writers)
        /\ wpassed[t] = <<>> /\ Len(wqueue) < QueueSz /\ wpassed' = [wpassed EXCEPT ![t] = <<r>>]
    BY ThreadsAssumption DEF TestWrite, CacheInv, PassedInv, Writers, r
  <2>2. Len(wqueue) + Cardinality(Passed(wpassed')) <= QueueSz + Cardinality(Writers) - 1
    BY <2>1, Numbers, TestIsBounded, QueueAssumption
  <2>3. wqueue' = wqueue /\ rqueue' = rqueue /\ rpassed' = rpassed
    BY DEF TestWrite, pathVars, envVars
  <2> QED BY <2>2, <2>3 DEF CacheInv, OverrunIsBounded, Writers, Passed
<1> QED BY <1>1, <1>3, <1>4, <1>5 DEF CacheInv

LEMMA PushWriteInv ==
    ASSUME CacheInv, NEW t \in Writers, PushWrite(t)
    PROVE  CacheInv'
<1>1. PICK r \in Request : wpassed[t] = <<r>> /\ r.fhash = t
  BY DEF PushWrite, CacheInv, PassedInv
<1>2. wqueue' \in Seq(Request) /\ Len(wqueue') = Len(wqueue) + 1
  BY <1>1, JoinFacts DEF PushWrite, CacheInv, WInv, QueueInv
<1>3. accepted' \in [FHash -> Seq(Request)]
  <2>1. accepted \in [FHash -> Seq(Request)] /\ t \in FHash
    BY DEF CacheInv, WInv, QueueInv, Writers
  <2>2. accepted[t] \o <<r>> \in Seq(Request)
    BY <2>1, JoinFacts
  <2>3. accepted' = [accepted EXCEPT ![t] = accepted[t] \o <<r>>]
    BY <1>1, <2>1 DEF PushWrite
  <2> QED BY <2>1, <2>2, <2>3
<1>4. WInv'
  BY <1>2, <1>3 DEF PushWrite, CacheInv, WInv, ArchiveInv, QueueInv, EnvInv, archiveVars, Aids
<1>5. PassedInv'
  BY DEF PushWrite, CacheInv, PassedInv
<1>6. ReadInv'
  BY <1>4, ReadInvStays DEF PushWrite, CacheInv, ReadInv, archiveVars, envVars
<1>7. OverrunIsBounded'
  <2>1. /\ DOMAIN wpassed = Writers /\ IsFiniteSet(Writers)
        /\ wpassed[t] # <<>> /\ wpassed' = [wpassed EXCEPT ![t] = <<>>]
    BY ThreadsAssumption DEF PushWrite, CacheInv, PassedInv, Writers
  <2>2. Cardinality(Passed(wpassed')) = Cardinality(Passed(wpassed)) - 1
    BY <2>1, PushIsNeutral
  <2>3. Len(wqueue') + Cardinality(Passed(wpassed')) <= QueueSz + Cardinality(Writers) - 1
    BY <1>2, <2>2, Numbers DEF CacheInv, OverrunIsBounded
  <2>4. rqueue' = rqueue /\ rpassed' = rpassed
    BY DEF PushWrite, envVars
  <2> QED BY <2>3, <2>4 DEF CacheInv, OverrunIsBounded, Writers, Passed
<1> QED BY <1>4, <1>5, <1>6, <1>7 DEF CacheInv

LEMMA TestReadInv ==
    ASSUME CacheInv, NEW t \in Readers, NEW bi \in Stored, TestRead(t, bi)
    PROVE  CacheInv'
<1>1. WInv'
  BY DEF TestRead, CacheInv, WInv, ArchiveInv, QueueInv, EnvInv, archiveVars, pathVars, Aids
<1>2. bi \in BlockInfo
  <2>1. ArchiveTypeOK
    BY DEF CacheInv, WInv, ArchiveInv, ArchiveTypeOK, BlockLists
  <2> QED BY <2>1, StoredTyped
<1>3. PassedInv'
  BY <1>2 DEF TestRead, CacheInv, PassedInv
<1>4. ReadInv'
  BY <1>1, ReadInvStays DEF TestRead, CacheInv, ReadInv, archiveVars, envVars
<1>5. OverrunIsBounded'
  <2>1. /\ DOMAIN rpassed = Readers /\ IsFiniteSet(Readers)
        /\ rpassed[t] = <<>> /\ Len(rqueue) < ReadQueueSz
        /\ rpassed' = [rpassed EXCEPT ![t] = <<bi>>]
    BY ThreadsAssumption DEF TestRead, CacheInv, PassedInv
  <2>2. Len(rqueue) + Cardinality(Passed(rpassed')) <= ReadQueueSz + Cardinality(Readers) - 1
    BY <2>1, Numbers, TestIsBounded, ReadQueueAssumption
  <2>3. wqueue' = wqueue /\ rqueue' = rqueue /\ wpassed' = wpassed
    BY DEF TestRead, pathVars, envVars
  <2> QED BY <2>2, <2>3 DEF CacheInv, OverrunIsBounded, Writers, Passed
<1> QED BY <1>1, <1>3, <1>4, <1>5 DEF CacheInv

LEMMA PushReadInv ==
    ASSUME CacheInv, NEW t \in Readers, PushRead(t)
    PROVE  CacheInv'
<1>1. PICK b \in BlockInfo : rpassed[t] = <<b>>
  BY DEF PushRead, CacheInv, PassedInv
<1>2. rqueue' \in Seq(BlockInfo) /\ Len(rqueue') = Len(rqueue) + 1
  BY <1>1, JoinFacts DEF PushRead, CacheInv, ReadInv
<1>3. WInv'
  BY DEF PushRead, CacheInv, WInv, ArchiveInv, QueueInv, EnvInv, archiveVars, pathVars, Aids
<1>4. PassedInv'
  BY DEF PushRead, CacheInv, PassedInv
<1>5. ReadInv'
  BY <1>2, <1>3, ReadInvStays DEF PushRead, archiveVars
<1>6. OverrunIsBounded'
  <2>1. /\ DOMAIN rpassed = Readers /\ IsFiniteSet(Readers)
        /\ rpassed[t] # <<>> /\ rpassed' = [rpassed EXCEPT ![t] = <<>>]
    BY ThreadsAssumption DEF PushRead, CacheInv, PassedInv
  <2>2. Cardinality(Passed(rpassed')) = Cardinality(Passed(rpassed)) - 1
    BY <2>1, PushIsNeutral
  <2>3. Len(rqueue') + Cardinality(Passed(rpassed')) <= ReadQueueSz + Cardinality(Readers) - 1
    BY <1>2, <2>2, Numbers DEF CacheInv, OverrunIsBounded
  <2>4. wqueue' = wqueue /\ wpassed' = wpassed
    BY DEF PushRead, pathVars
  <2> QED BY <2>3, <2>4 DEF CacheInv, OverrunIsBounded, Writers, Passed
<1> QED BY <1>3, <1>4, <1>5, <1>6 DEF CacheInv

(* What the worker does with the writing half is a step of WritePath.      *)
WriteWork ==
    /\ \/ IterateWriteQueue
       \/ RunWriteRequest
       \/ Len(content) < MaxAssemblies /\ \E out \in Outcome : Flush(out)
       \/ \E out \in Outcome : Close(out)
    /\ UNCHANGED <<envVars, passedVars>>

LEMMA WriteWorkInv ==
    ASSUME CacheInv, WriteWork
    PROVE  CacheInv'
<1>1. WNext
  BY DEF WriteWork, WNext
<1>2. WInv' /\ SealedKept
  BY <1>1, WNextInv, StepKeepsSealed DEF CacheInv
<1>3. PassedInv'
  BY DEF WriteWork, passedVars, CacheInv, PassedInv
<1>4. ReadInv'
  BY <1>2, ReadInvStays DEF WriteWork, envVars, SealedKept, CacheInv, ReadInv
<1>5. Len(wqueue') <= Len(wqueue)
  <2>1. CASE IterateWriteQueue
    BY <2>1, Numbers DEF IterateWriteQueue
  <2>2. CASE UNCHANGED wqueue
    BY <2>2, Numbers
  <2> QED BY <2>1, <2>2 DEF WriteWork, RunWriteRequest, Flush, Close
<1>6. OverrunIsBounded'
  <2>1. rqueue' = rqueue /\ wpassed' = wpassed /\ rpassed' = rpassed
    BY DEF WriteWork, envVars, passedVars
  <2>2. Len(wqueue') \in Nat
    BY <1>2, LenProperties DEF WInv, QueueInv
  <2> QED BY <1>5, <2>1, <2>2, Numbers, QueueAssumption
          DEF CacheInv, OverrunIsBounded, Writers, Passed
<1> QED BY <1>2, <1>3, <1>4, <1>6 DEF CacheInv

(* Reading changes the environments and the read queue only.               *)
ReadWork == (IterateReadQueue \/ RunReadRequest) /\ UNCHANGED <<pathVars, passedVars>>

LEMMA ReadWorkInv ==
    ASSUME CacheInv, ReadWork
    PROVE  CacheInv' /\ UNCHANGED archiveVars
<1>1. UNCHANGED archiveVars
  BY DEF ReadWork, IterateReadQueue, RunReadRequest
<1>2. WInv'
  BY <1>1 DEF ReadWork, CacheInv, WInv, ArchiveInv, QueueInv, EnvInv, archiveVars, pathVars, Aids
<1>3. PassedInv'
  BY DEF ReadWork, passedVars, CacheInv, PassedInv
<1>4. rqueue' \in Seq(BlockInfo) /\ Len(rqueue') <= Len(rqueue) /\ Len(rqueue') \in Nat
  <2>1. rqueue' = rqueue \/ rqueue' = <<>>
    BY DEF ReadWork, IterateReadQueue, RunReadRequest
  <2>2. <<>> \in Seq(BlockInfo) /\ Len(<<>>) = 0
    BY EmptySeq
  <2>3. rqueue \in Seq(BlockInfo) /\ Len(rqueue) \in Nat
    BY Numbers DEF CacheInv, ReadInv
  <2>4. CASE rqueue' = rqueue
    BY <2>3, <2>4
  <2>5. CASE rqueue' = <<>>
    BY <2>2, <2>3, <2>5
  <2> QED BY <2>1, <2>4, <2>5
<1>5. ReadInv'
  <2>1. CASE readenvs' = readenvs
    BY <1>1, <1>2, <1>4, <2>1, ReadInvStays DEF archiveVars
  <2>2. CASE readenvs' # readenvs
    <3> DEFINE a == Head(rbatch).blockaid
    <3>1. Hit(a) \/ Miss(a)
      BY <2>2 DEF ReadWork, IterateReadQueue, RunReadRequest, ServeRequest, StopBatch
    <3>2. EnvsOK(readenvs) /\ keystore \subseteq Aids
          /\ \A i \in 1..Len(readenvs) : readenvs[i] \in keystore
      BY DEF CacheInv, ReadInv, WInv, ArchiveInv
    <3>3. a \in keystore
      BY <3>1, <3>2 DEF Hit, Miss, CanRestore
    <3>4. a \in Aids
      BY <3>2, <3>3
    <3> HIDE DEF a
    <3>5. EnvsOK(readenvs')
      BY <3>1, <3>2, <3>4, HitKeeps, MissKeeps
    <3>6. \A j \in 1..Len(readenvs') :
             readenvs'[j] = a \/ \E i \in 1..Len(readenvs) : readenvs'[j] = readenvs[i]
      BY <3>1, <3>2, <3>4, HitKeeps, MissKeeps
    <3>7. \A j \in 1..Len(readenvs') : readenvs'[j] \in keystore
      BY <3>2, <3>3, <3>6
    <3>8. keystore' = keystore /\ Aids' = Aids
      BY <1>1 DEF archiveVars, Aids
    <3> QED BY <1>4, <3>5, <3>7, <3>8 DEF ReadInv, EnvsOK
  <2> QED BY <2>1, <2>2
<1>6. OverrunIsBounded'
  <2>1. wqueue' = wqueue /\ wpassed' = wpassed /\ rpassed' = rpassed
    BY DEF ReadWork, pathVars, passedVars
  <2> QED BY <1>4, <2>1, Numbers, ReadQueueAssumption
          DEF CacheInv, OverrunIsBounded, Writers, Passed
<1> QED BY <1>1, <1>2, <1>3, <1>5, <1>6 DEF CacheInv

LEMMA LoseChunkInv ==
    ASSUME CacheInv, NEW a, LoseChunk(a), UNCHANGED <<pathVars, envVars, passedVars>>
    PROVE  CacheInv'
<1>1. WInv'
  BY DEF LoseChunk, CacheInv, WInv, ArchiveInv, QueueInv, EnvInv, pathVars, Aids
<1>2. ReadInv'
  BY <1>1, ReadInvStays DEF LoseChunk, CacheInv, ReadInv, envVars
<1> QED BY <1>1, <1>2
        DEF CacheInv, PassedInv, OverrunIsBounded, Passed, Writers, pathVars, envVars, passedVars

LEMMA CacheStutterInv ==
    ASSUME CacheInv, UNCHANGED cacheVars
    PROVE  CacheInv'
<1>1. WInv'
  BY DEF CacheInv, WInv, ArchiveInv, QueueInv, EnvInv, cacheVars, archiveVars, pathVars, Aids
<1>2. ReadInv'
  BY <1>1, ReadInvStays DEF cacheVars, archiveVars, CacheInv, ReadInv, envVars
<1> QED BY <1>1, <1>2 DEF CacheInv, PassedInv, OverrunIsBounded, Passed, Writers,
                          cacheVars, pathVars, envVars, passedVars

LEMMA CacheNextInv == CacheInv /\ [Next]_cacheVars => CacheInv'
<1> SUFFICES ASSUME CacheInv, [Next]_cacheVars PROVE CacheInv'
  OBVIOUS
<1>1. ASSUME NEW t \in Writers, NEW d \in Data, TestWrite(t, d) PROVE CacheInv'
  BY <1>1, TestWriteInv
<1>2. ASSUME NEW t \in Writers, PushWrite(t) PROVE CacheInv'
  BY <1>2, PushWriteInv
<1>3. ASSUME NEW t \in Readers, NEW bi \in Stored, TestRead(t, bi) PROVE CacheInv'
  BY <1>3, TestReadInv
<1>4. ASSUME NEW t \in Readers, PushRead(t) PROVE CacheInv'
  BY <1>4, PushReadInv
<1>5. CASE Work
  <2>1. WriteWork \/ ReadWork
    BY <1>5 DEF Work, WriteWork, ReadWork
  <2> QED BY <2>1, WriteWorkInv, ReadWorkInv
<1>6. ASSUME NEW a \in Aids, LoseChunk(a), UNCHANGED <<pathVars, envVars, passedVars>>
      PROVE  CacheInv'
  BY <1>6, LoseChunkInv
<1>7. CASE UNCHANGED cacheVars
  BY <1>7, CacheStutterInv
<1> QED BY <1>1, <1>2, <1>3, <1>4, <1>5, <1>6, <1>7 DEF Next

-----------------------------------------------------------------------------
(* Theorems                                                                *)

(* The invariant holds of every state that any number of threads reach.    *)
THEOREM CacheInvariance == Spec => []CacheInv
<1>1. Init => CacheInv
  BY CacheInitInv
<1>2. CacheInv /\ [Next]_cacheVars => CacheInv'
  BY CacheNextInv
<1> QED BY <1>1, <1>2, PTL DEF Spec

(* The test of enqueue_write_request and enqueue_read_request before the   *)
(* lock lets each thread but one put one request too many into a queue,    *)
(* and no more than that, whatever the order of tests and locks.           *)
THEOREM OverrunsAreBounded == Spec => []OverrunIsBounded
<1>1. CacheInv => OverrunIsBounded
  BY DEF CacheInv
<1> QED BY <1>1, CacheInvariance, PTL

(* ensure_assembly never takes the assembly that is being written into a   *)
(* read environment, although its blocks are in the block lists already.   *)
THEOREM OnlySealedAreRead == Spec => []OnlySealedIsRead
<1>1. CacheInv => OnlySealedIsRead
  BY DEF CacheInv, ReadInv, WInv, EnvInv, OnlySealedIsRead
<1> QED BY <1>1, CacheInvariance, PTL

-----------------------------------------------------------------------------
(* Nothing gets lost with several threads, either                          *)

LEMMA PushLost ==
    ASSUME CacheInv, LostInv, NEW t \in Writers, PushWrite(t)
    PROVE  LostInv'
<1>1. PICK r \in Request : wpassed[t] = <<r>> /\ r.fhash = t
  BY DEF PushWrite, CacheInv, PassedInv
<1>2. /\ wqueue' = wqueue \o <<r>> /\ UNCHANGED <<wbatch, fblockstore, closed, writeenv>>
      /\ accepted' = [accepted EXCEPT ![r.fhash] = accepted[r.fhash] \o <<r>>]
  BY <1>1 DEF PushWrite, archiveVars, CacheInv, WInv, QueueInv, Writers
<1>3. WInv
  BY DEF CacheInv
<1> QED BY <1>2, <1>3, HandedOverAccounts DEF LostInv, UsableInv

LEMMA LostStays ==
    ASSUME LostInv, UNCHANGED <<fblockstore, pathVars>>
    PROVE  LostInv'
BY QuietAccounts DEF LostInv, UsableInv, pathVars

LEMMA CacheNextLost == CacheInv /\ LostInv /\ [Next]_cacheVars => LostInv'
<1> SUFFICES ASSUME CacheInv, LostInv, [Next]_cacheVars PROVE LostInv'
  OBVIOUS
<1>1. ASSUME NEW t \in Writers, PushWrite(t) PROVE LostInv'
  BY <1>1, PushLost
<1>2. ASSUME NEW t \in Writers, NEW d \in Data, TestWrite(t, d) PROVE LostInv'
  BY <1>2, LostStays DEF TestWrite, archiveVars
<1>3. ASSUME NEW t \in Readers, NEW bi \in Stored, TestRead(t, bi) \/ PushRead(t)
      PROVE  LostInv'
  BY <1>3, LostStays DEF TestRead, PushRead, archiveVars
<1>4. ASSUME NEW t \in Readers, PushRead(t) PROVE LostInv'
  BY <1>4, LostStays DEF PushRead, archiveVars
<1>5. CASE Work
  <2>1. CASE WriteWork
    BY <2>1, LostInvKept DEF WriteWork, CacheInv
  <2>2. CASE ReadWork
    <3>1. UNCHANGED archiveVars
      BY <2>2, ReadWorkInv
    <3> QED BY <2>2, <3>1, LostStays DEF ReadWork, archiveVars
  <2> QED BY <1>5, <2>1, <2>2 DEF Work, WriteWork, ReadWork
<1>6. ASSUME NEW a \in Aids, LoseChunk(a), UNCHANGED <<pathVars, envVars, passedVars>>
      PROVE  LostInv'
  BY <1>6, LostStays DEF LoseChunk
<1>7. CASE UNCHANGED cacheVars
  BY <1>7, LostStays DEF cacheVars, archiveVars
<1> QED BY <1>1, <1>2, <1>3, <1>4, <1>5, <1>6, <1>7 DEF Next

(* What the threads hand in reaches the block lists in the order in which  *)
(* it entered the queue, whoever iterates it (the write lock).             *)
THEOREM NothingGetsLostInThreads == Spec => []NothingLost
<1>1. Init => LostInv
  BY WInitLost DEF Init
<1>2. CacheInv /\ LostInv /\ [Next]_cacheVars => LostInv'
  BY CacheNextLost
<1>3. LostInv => NothingLost
  BY LostInvSays
<1> QED BY <1>1, <1>2, <1>3, CacheInvariance, PTL DEF Spec

-----------------------------------------------------------------------------
(* Backup                                                                  *)

AtFile == pc \in {"open", "read", "again", "record"}

AtEnd == pc \in {"keys", "files", "exit", "done"}

(* The types that a request is made of.                                    *)
JobInv ==
    /\ args \in Seq(FHash) /\ nxt \in Nat \ {0}
    /\ AtFile => nxt <= Len(args)
    /\ disk \in [FHash -> Seq(Byte) \cup {NoFile}]
    /\ stream \in Seq(Byte)
    /\ job \in [size : Nat, sum : Seq(Byte) \cup {NoFile}, pos : Nat, block : Data]
    /\ pc = "again" => job.pos < job.size

(* Requests wait only while a file is read; nothing is written after the   *)
(* cache is closed.                                                        *)
QuietInv ==
    /\ pc \in {"next", "open"} \/ AtEnd => wqueue = <<>> /\ wbatch = <<>>
    /\ pc = "record" => wqueue = <<>>
    /\ AtEnd /\ writeenv # NullEnv => writeenv.aid = NoAid

(* What the documents hold, by the place in main and the status so far.    *)
DocsInv ==
    /\ DocumentsComplete
    /\ keysdoc # NoDoc => pc \in {"files", "exit", "done", "terminated"}
    /\ filesdoc # NoDoc => pc \in {"exit", "done", "terminated"}
    /\ status \in {0, 1}
    /\ status = 0 /\ pc \in {"files", "exit", "done"} => keysdoc = keystore
    /\ status = 0 /\ pc \in {"exit", "done"} =>
          filesdoc = [infos |-> infos, blocks |-> fblockstore]
    /\ status = 0 /\ pc = "done" => Failures = 0

BackupInv == WInv /\ JobInv /\ QuietInv /\ DocsInv

-----------------------------------------------------------------------------
(* Blocks                                                                  *)

LEMMA ShortIsData ==
    ASSUME NEW d \in Seq(Byte), Len(d) <= BlockSz
    PROVE  d \in Data
<1>1. Len(d) \in 0..BlockSz /\ d \in [1..Len(d) -> Byte]
  BY LenProperties, BytesAssumption
<1> QED BY <1>1, BlocksAssumption

LEMMA BlockLenFacts ==
    ASSUME JobInv, job.pos < job.size
    PROVE  BlockLen \in Nat /\ BlockLen <= BlockSz
BY BytesAssumption DEF JobInv, BlockLen, LessOf

(* The bytes d are those of content c behind position pos.                 *)
Follows(d, c, pos) == \A i \in 1..Len(d) : d[i] = c[pos + i]

LEMMA PartFacts ==
    ASSUME NEW c \in Seq(Byte), NEW pos \in Nat, NEW n \in Nat, NEW d, d = BytesAt(c, pos, n)
    PROVE  /\ d \in Seq(Byte) /\ Len(d) \in Nat /\ Len(d) <= n
           /\ Follows(d, c, pos)
           /\ Len(d) = 0 \/ pos + Len(d) <= Len(c)
           /\ pos + n <= Len(c) => Len(d) = n
<1> DEFINE m == pos + 1
           e == LessOf(pos + n, Len(c))
<1>1. /\ Len(c) \in Nat /\ m \in Nat /\ e \in Nat /\ m >= 1 /\ e <= Len(c) /\ e <= pos + n
      /\ e = pos + n \/ e = Len(c)
  BY LenProperties DEF LessOf
<1>2. \A i \in m..e : c[i] \in Byte
  BY <1>1, ElementOfSeq
<1>3. d = SubSeq(c, m, e)
  BY DEF BytesAt
<1> HIDE DEF e
<1>4. /\ d \in Seq(Byte) /\ Len(d) = IF m <= e THEN e - m + 1 ELSE 0
      /\ \A i \in 1..e - m + 1 : d[i] = c[m + i - 1]
  BY <1>1, <1>2, <1>3, SubSeqProperties
<1>5. \A i \in 1..Len(d) : i \in 1..e - m + 1 /\ m + i - 1 = pos + i
  BY <1>1, <1>4
<1>6. Follows(d, c, pos)
  BY <1>4, <1>5 DEF Follows
<1>7. /\ Len(d) \in Nat /\ Len(d) <= n
      /\ Len(d) = 0 \/ pos + Len(d) <= Len(c)
      /\ pos + n <= Len(c) => Len(d) = n
  BY <1>1, <1>4
<1> QED BY <1>4, <1>6, <1>7

(* What fread delivers is one of Data, also if the file was cut, and is    *)
(* what the file has at this place, as far as it goes.                     *)
LEMMA FreadFacts ==
    ASSUME NEW c \in Seq(Byte), NEW pos \in Nat, NEW n \in Nat, n <= BlockSz,
           NEW d \in Fread(c, pos, n)
    PROVE  d \in Data /\ d = BytesAt(c, pos, Len(d))
<1> DEFINE all == BytesAt(c, pos, n)
<1>1. PICK k \in 0..Len(all) : d = SubSeq(all, 1, k)
  BY DEF Fread
<1>2. all = BytesAt(c, pos, n)
  OBVIOUS
<1> HIDE DEF all
<1>3. /\ all \in Seq(Byte) /\ Len(all) <= n /\ Len(all) \in Nat
      /\ Follows(all, c, pos)
      /\ Len(all) = 0 \/ pos + Len(all) <= Len(c)
  BY <1>2, PartFacts
<1>4. /\ d \in Seq(Byte) /\ Len(d) = k /\ k \in Nat /\ k <= Len(all)
      /\ \A i \in 1..k : d[i] = all[i]
  BY <1>1, <1>3, PrefixFacts
<1>5. d \in Data
  BY <1>3, <1>4, ShortIsData, BytesAssumption
<1> DEFINE b == BytesAt(c, pos, k)
<1>6. b = BytesAt(c, pos, k)
  OBVIOUS
<1> HIDE DEF b
<1>7. /\ b \in Seq(Byte) /\ Len(b) <= k /\ Len(b) \in Nat
      /\ Follows(b, c, pos)
      /\ pos + k <= Len(c) => Len(b) = k
  BY <1>4, <1>6, PartFacts
<1>8. Len(b) = k
  <2>1. Len(c) \in Nat
    BY LenProperties
  <2> QED BY <1>3, <1>4, <1>7, <2>1
<1>9. ASSUME NEW i \in 1..k PROVE d[i] = b[i]
  <2>1. i \in 1..Len(all) /\ i \in 1..Len(b)
    BY <1>3, <1>4, <1>8
  <2> QED BY <1>3, <1>4, <1>7, <2>1 DEF Follows
<1>10. d = b
  BY <1>4, <1>7, <1>8, <1>9, SeqEqual
<1> QED BY <1>4, <1>5, <1>6, <1>10

LEMMA BlockIsData ==
    ASSUME JobInv, job.pos < job.size, NEW d \in Fread(stream, job.pos, BlockLen)
    PROVE  d \in Data /\ d = BytesAt(stream, job.pos, Len(d))
<1>1. stream \in Seq(Byte) /\ job.pos \in Nat
  BY DEF JobInv
<1> QED BY <1>1, BlockLenFacts, FreadFacts

LEMMA FileFacts ==
    ASSUME JobInv, nxt <= Len(args)
    PROVE  File \in FHash
BY LenProperties, ElementOfSeq DEF JobInv, File

LEMMA RequestFacts ==
    ASSUME JobInv, AtFile, NEW d \in Data
    PROVE  BlockRequest(d) \in Request
BY FileFacts DEF JobInv, BlockRequest, Request

LEMMA NoJobFacts == NoJob \in [size : Nat, sum : Seq(Byte) \cup {NoFile}, pos : Nat, block : Data]
<1> DEFINE e == <<>>
<1>1. e \in Seq(Byte) /\ Len(e) = 0
  BY EmptySeq
<1>2. Len(e) <= BlockSz
  BY <1>1, BytesAssumption
<1> HIDE DEF e
<1>3. e \in Data
  BY <1>1, <1>2, ShortIsData
<1> USE DEF e
<1> QED BY <1>3 DEF NoJob

-----------------------------------------------------------------------------
LEMMA BackupInitInv == BInit => BackupInv
<1> SUFFICES ASSUME BInit PROVE BackupInv
  OBVIOUS
<1>1. WInv
  BY WInitInv DEF BInit
<1>2. JobInv
  BY NoJobFacts, EmptySeq, ContentsAssumption, CmdLinesAssumption DEF BInit, JobInv, AtFile
<1>3. QuietInv
  BY DEF BInit, WInit, QuietInv, AtEnd
<1>4. DocsInv
  BY DEF BInit, DocsInv, DocumentsComplete
<1> QED BY <1>1, <1>2, <1>3, <1>4 DEF BackupInv

LEMMA SkipKeeps ==
    ASSUME JobInv, nxt <= Len(args), Skip, UNCHANGED <<args, disk, stream>>
    PROVE  JobInv'
BY NoJobFacts DEF JobInv, Skip, AtFile

(* The cache is left alone.                                                *)
LEMMA CacheStays ==
    ASSUME WInv, UNCHANGED writeVars
    PROVE  WInv'
BY DEF WInv, ArchiveInv, QueueInv, EnvInv, writeVars, archiveVars, pathVars, Aids

(* Before the end there are no documents, and no error of a document.      *)
LEMMA NoDocuments ==
    ASSUME DocsInv, ~AtEnd, pc # "terminated", UNCHANGED docVars, ~AtEnd'
    PROVE  DocsInv'
BY DEF DocsInv, DocumentsComplete, AtEnd, docVars

LEMMA StartFileInv ==
    ASSUME BackupInv, StartFile
    PROVE  BackupInv'
<1>1. /\ pc = "next" /\ nxt <= Len(args)
      /\ UNCHANGED <<writeVars, diskVars, docVars, args, infos, refused>>
      /\ \/ Skip
         \/ /\ disk[File] # NoFile /\ pc' = "open" /\ nxt' = nxt
            /\ job' = [NoJob EXCEPT !.size = Len(disk[File])]
  BY DEF StartFile
<1>2. WInv'
  BY <1>1, CacheStays DEF BackupInv
<1>3. JobInv'
  <2>1. CASE Skip
    BY <1>1, <2>1, SkipKeeps DEF BackupInv, diskVars
  <2>2. CASE disk[File] # NoFile /\ pc' = "open" /\ nxt' = nxt
             /\ job' = [NoJob EXCEPT !.size = Len(disk[File])]
    <3>1. disk[File] \in Seq(Byte)
      BY <1>1, <2>2, FileFacts DEF BackupInv, JobInv
    <3>2. Len(disk[File]) \in Nat
      BY <3>1, LenProperties
    <3>3. job' \in [size : Nat, sum : Seq(Byte) \cup {NoFile}, pos : Nat, block : Data]
      BY <2>2, <3>2, NoJobFacts DEF NoJob
    <3> QED BY <1>1, <2>2, <3>3 DEF BackupInv, JobInv, AtFile, diskVars
  <2> QED BY <1>1, <2>1, <2>2
<1>4. QuietInv'
  BY <1>1 DEF BackupInv, QuietInv, Skip, AtEnd, writeVars, pathVars
<1>5. DocsInv'
  BY <1>1, NoDocuments DEF BackupInv, Skip, AtEnd
<1> QED BY <1>2, <1>3, <1>4, <1>5 DEF BackupInv

LEMMA OpenFileInv ==
    ASSUME BackupInv, OpenFile
    PROVE  BackupInv'
<1>1. /\ pc = "open" /\ UNCHANGED <<writeVars, docVars, disk, args>>
      /\ \/ Skip /\ UNCHANGED stream
         \/ /\ disk[File] # NoFile /\ stream' = disk[File] /\ nxt' = nxt /\ pc' = "read"
            /\ job' = [job EXCEPT !.sum = disk[File]]
  BY DEF OpenFile
<1>2. WInv'
  BY <1>1, CacheStays DEF BackupInv
<1>3. nxt <= Len(args)
  BY <1>1 DEF BackupInv, JobInv, AtFile
<1>4. JobInv'
  <2>1. CASE Skip /\ UNCHANGED stream
    BY <1>1, <1>3, <2>1, SkipKeeps DEF BackupInv
  <2>2. CASE /\ disk[File] # NoFile /\ stream' = disk[File] /\ nxt' = nxt /\ pc' = "read"
             /\ job' = [job EXCEPT !.sum = disk[File]]
    <3>1. disk[File] \in Seq(Byte)
      BY <1>3, <2>2, FileFacts DEF BackupInv, JobInv
    <3>2. job' \in [size : Nat, sum : Seq(Byte) \cup {NoFile}, pos : Nat, block : Data]
      BY <2>2, <3>1 DEF BackupInv, JobInv
    <3> QED BY <1>1, <1>3, <2>2, <3>1, <3>2 DEF BackupInv, JobInv, AtFile
  <2> QED BY <1>1, <2>1, <2>2
<1>5. QuietInv'
  BY <1>1 DEF BackupInv, QuietInv, Skip, AtEnd, writeVars, pathVars
<1>6. DocsInv'
  BY <1>1, NoDocuments DEF BackupInv, Skip, AtEnd
<1> QED BY <1>2, <1>4, <1>5, <1>6 DEF BackupInv

(* iterate_write_queue and enqueue_write_request keep the cache's invariant.*)
LEMMA DrainFacts ==
    ASSUME WInv, Drain
    PROVE  WInv' /\ wqueue' = <<>>
<1>1. CASE wqueue = <<>>
  BY <1>1, CacheStays DEF Drain, writeVars, pathVars
<1>2. CASE wqueue # <<>>
  BY <1>2, IterateInv DEF Drain, IterateWriteQueue
<1> QED BY <1>1, <1>2

LEMMA ReadBlockInv ==
    ASSUME BackupInv, ReadBlock
    PROVE  BackupInv'
<1>1. PICK d \in Fread(stream, job.pos, BlockLen) :
          \/ /\ EnqueueWrite(BlockRequest(d)) /\ pc' = pc
             /\ job' = [job EXCEPT !.pos = @ + BlockLen]
          \/ Drain /\ job' = [job EXCEPT !.block = d] /\ pc' = "again"
  BY DEF ReadBlock
<1>0. /\ pc = "read" /\ job.pos < job.size /\ pc' \in {"read", "again"}
      /\ UNCHANGED <<disk, stream, docVars, args, nxt, infos, refused>>
  BY <1>1 DEF ReadBlock
<1>2. d \in Data /\ BlockLen \in Nat
  BY <1>0, BlockIsData, BlockLenFacts DEF BackupInv
<1>3. WInv'
  BY <1>0, <1>1, <1>2, RequestFacts, EnqueueWriteInv, DrainFacts DEF BackupInv, AtFile
<1>4. job' \in [size : Nat, sum : Seq(Byte) \cup {NoFile}, pos : Nat, block : Data]
  <2>1. /\ job \in [size : Nat, sum : Seq(Byte) \cup {NoFile}, pos : Nat, block : Data]
        /\ job.pos \in Nat
    BY DEF BackupInv, JobInv
  <2>2. job.pos + BlockLen \in Nat
    BY <1>2, <2>1
  <2>3. CASE job' = [job EXCEPT !.pos = @ + BlockLen]
    BY <2>1, <2>2, <2>3
  <2>4. CASE job' = [job EXCEPT !.block = d]
    BY <1>2, <2>1, <2>4
  <2> QED BY <1>1, <2>3, <2>4
<1>5. JobInv'
  BY <1>0, <1>1, <1>4 DEF BackupInv, JobInv, AtFile
<1>6. QuietInv'
  BY <1>0 DEF QuietInv, AtEnd
<1>7. DocsInv'
  BY <1>0, NoDocuments DEF BackupInv, AtEnd
<1> QED BY <1>3, <1>5, <1>6, <1>7 DEF BackupInv

LEMMA EnqueueAgainInv ==
    ASSUME BackupInv, EnqueueAgain
    PROVE  BackupInv'
<1>1. /\ pc = "again" /\ pc' = "read"
      /\ UNCHANGED <<diskVars, docVars, args, nxt, infos, refused>>
      /\ job' = [job EXCEPT !.pos = @ + BlockLen, !.block = <<>>]
      /\ EnqueueWrite(BlockRequest(job.block)) \/ UNCHANGED writeVars
  BY DEF EnqueueAgain
<1>2. job.block \in Data /\ BlockLen \in Nat /\ <<>> \in Data
  BY <1>1, BlockLenFacts, NoJobFacts DEF BackupInv, JobInv, NoJob
<1>3. WInv'
  BY <1>1, <1>2, RequestFacts, EnqueueWriteInv, CacheStays DEF BackupInv, AtFile
<1>4. job' \in [size : Nat, sum : Seq(Byte) \cup {NoFile}, pos : Nat, block : Data]
  <2> DEFINE e == <<>>
  <2>1. /\ job \in [size : Nat, sum : Seq(Byte) \cup {NoFile}, pos : Nat, block : Data]
        /\ job.pos \in Nat
    BY DEF BackupInv, JobInv
  <2>2. job.pos + BlockLen \in Nat
    BY <1>2, <2>1
  <2>3. e \in Data /\ job' = [job EXCEPT !.pos = @ + BlockLen, !.block = e]
    BY <1>1, <1>2
  <2> HIDE DEF e
  <2> QED BY <2>1, <2>2, <2>3
<1>5. JobInv'
  BY <1>1, <1>4 DEF BackupInv, JobInv, AtFile, diskVars
<1>6. QuietInv'
  BY <1>1 DEF QuietInv, AtEnd
<1>7. DocsInv'
  BY <1>1, NoDocuments DEF BackupInv, AtEnd
<1> QED BY <1>3, <1>5, <1>6, <1>7 DEF BackupInv

LEMMA EndOfFileInv ==
    ASSUME BackupInv, EndOfFile
    PROVE  BackupInv'
<1>1. /\ pc = "read" /\ pc' = "record" /\ Drain
      /\ UNCHANGED <<diskVars, docVars, args, nxt, job, infos, refused>>
  BY DEF EndOfFile
<1>2. WInv' /\ wqueue' = <<>>
  BY <1>1, DrainFacts DEF BackupInv
<1>3. JobInv'
  BY <1>1 DEF BackupInv, JobInv, AtFile, diskVars
<1>4. QuietInv'
  BY <1>1, <1>2 DEF QuietInv, AtEnd
<1>5. DocsInv'
  BY <1>1, NoDocuments DEF BackupInv, AtEnd
<1> QED BY <1>2, <1>3, <1>4, <1>5 DEF BackupInv

LEMMA RecordFileInv ==
    ASSUME BackupInv, RecordFile
    PROVE  BackupInv'
<1>1. /\ pc = "record" /\ pc' = "next" /\ wbatch = <<>> /\ Skip
      /\ UNCHANGED <<writeVars, diskVars, docVars, args, refused>>
  BY DEF RecordFile, WIdle, Skip
<1>2. WInv'
  BY <1>1, CacheStays DEF BackupInv
<1>3. JobInv'
  BY <1>1, SkipKeeps DEF BackupInv, JobInv, AtFile, diskVars
<1>4. QuietInv'
  BY <1>1 DEF BackupInv, QuietInv, AtEnd, writeVars, pathVars
<1>5. DocsInv'
  BY <1>1, NoDocuments DEF BackupInv, AtEnd
<1> QED BY <1>2, <1>3, <1>4, <1>5 DEF BackupInv

LEMMA RunRequestInv ==
    ASSUME BackupInv, pc # "terminated", RunWriteRequest,
           UNCHANGED <<diskVars, progVars, docVars>>
    PROVE  BackupInv'
<1>1. pc \notin {"next", "open"} /\ ~AtEnd /\ wqueue' = wqueue
  BY DEF BackupInv, QuietInv, RunWriteRequest
<1>2. WInv'
  BY RunWriteRequestInv DEF BackupInv
<1>3. JobInv'
  BY DEF BackupInv, JobInv, AtFile, diskVars, progVars
<1>4. QuietInv'
  BY <1>1 DEF BackupInv, QuietInv, AtEnd, progVars
<1>5. DocsInv'
  BY <1>1, NoDocuments DEF BackupInv, AtEnd, progVars
<1> QED BY <1>2, <1>3, <1>4, <1>5 DEF BackupInv

LEMMA CloseCacheInv ==
    ASSUME BackupInv, CloseCache
    PROVE  BackupInv'
<1>1. PICK out \in Outcome : Close(out)
  BY DEF CloseCache
<1>2. /\ pc = "next" /\ pc' = "keys"
      /\ UNCHANGED <<diskVars, docVars, args, nxt, job, infos, refused>>
  BY DEF CloseCache
<1>3. WInv'
  BY <1>1, CloseInv DEF BackupInv
<1>4. JobInv'
  BY <1>2 DEF BackupInv, JobInv, AtFile, diskVars
<1>5. QuietInv'
  BY <1>1, <1>2 DEF BackupInv, QuietInv, AtEnd, Close
<1>6. DocsInv'
  BY <1>2 DEF BackupInv, DocsInv, DocumentsComplete, docVars
<1> QED BY <1>3, <1>4, <1>5, <1>6 DEF BackupInv

(* The end of main leaves everything but the documents and the status.     *)
LEMMA EndKeeps ==
    ASSUME BackupInv, AtEnd, AtEnd' \/ pc' = "terminated",
           UNCHANGED <<writeVars, diskVars, args, nxt, job, infos, refused>>
    PROVE  WInv' /\ JobInv' /\ QuietInv'
<1>1. WInv'
  BY CacheStays DEF BackupInv
<1>2. JobInv'
  BY DEF BackupInv, JobInv, AtFile, AtEnd, diskVars
<1>3. QuietInv'
  BY DEF BackupInv, QuietInv, AtEnd, writeVars, pathVars
<1> QED BY <1>1, <1>2, <1>3

LEMMA WriteKeysInv ==
    ASSUME BackupInv, WriteKeys
    PROVE  BackupInv'
<1>1. WInv' /\ JobInv' /\ QuietInv'
  BY EndKeeps DEF WriteKeys, AtEnd
<1>2. keystore' = keystore /\ wqueue' = <<>> /\ wbatch' = <<>>
  BY DEF WriteKeys, writeVars, archiveVars, pathVars, BackupInv, QuietInv, AtEnd
<1>3. DocsInv'
  BY <1>2 DEF BackupInv, DocsInv, DocumentsComplete, WriteKeys
<1> QED BY <1>1, <1>3 DEF BackupInv

LEMMA WriteFilesInv ==
    ASSUME BackupInv, WriteFiles
    PROVE  BackupInv'
<1>1. WInv' /\ JobInv' /\ QuietInv'
  BY EndKeeps DEF WriteFiles, AtEnd
<1>2. /\ UNCHANGED <<keystore, fblockstore, infos, keysdoc>>
      /\ wqueue' = <<>> /\ wbatch' = <<>>
  BY DEF WriteFiles, writeVars, archiveVars, pathVars, BackupInv, QuietInv, AtEnd
<1>3. DocsInv'
  BY <1>2 DEF BackupInv, DocsInv, DocumentsComplete, WriteFiles
<1> QED BY <1>1, <1>3 DEF BackupInv

LEMMA FailuresType ==
    ASSUME WInv
    PROVE  Failures \in Nat
BY DEF WInv, EnvInv, OpenAt, Failures

LEMMA ExitInv ==
    ASSUME BackupInv, Exit
    PROVE  BackupInv'
<1>1. WInv' /\ JobInv' /\ QuietInv'
  BY EndKeeps DEF Exit, AtEnd
<1>2. /\ UNCHANGED <<keystore, fblockstore, infos, keysdoc, filesdoc>>
      /\ wqueue' = <<>> /\ wbatch' = <<>> /\ Failures' = Failures
  BY DEF Exit, writeVars, archiveVars, pathVars, BackupInv, QuietInv, AtEnd, Failures
<1>3. status' = 0 => status = 0 /\ Failures = 0
  BY FailuresType DEF Exit, BackupInv
<1>4. status' \in {0, 1}
  BY DEF Exit, BackupInv, DocsInv
<1>5. DocsInv'
  BY <1>2, <1>3, <1>4 DEF BackupInv, DocsInv, DocumentsComplete, Exit
<1> QED BY <1>1, <1>5 DEF BackupInv

LEMMA TerminateInv ==
    ASSUME BackupInv, Terminate
    PROVE  BackupInv'
<1>1. WInv'
  BY CacheStays DEF BackupInv, Terminate
<1>2. JobInv' /\ QuietInv'
  BY DEF BackupInv, JobInv, QuietInv, AtFile, AtEnd, Terminate, diskVars
<1>3. DocsInv'
  BY DEF BackupInv, DocsInv, DocumentsComplete, Terminate, docVars, writeVars, archiveVars,
         pathVars
<1> QED BY <1>1, <1>2, <1>3 DEF BackupInv

LEMMA ChangeFileInv ==
    ASSUME BackupInv, NEW f \in FHash, NEW c \in Contents \cup {NoFile}, ChangeFile(f, c)
    PROVE  BackupInv'
<1>1. WInv'
  BY CacheStays DEF BackupInv, ChangeFile
<1>2. c \in Seq(Byte) \cup {NoFile}
  BY ContentsAssumption
<1>3. JobInv'
  BY <1>2 DEF BackupInv, JobInv, AtFile, ChangeFile, progVars
<1>4. QuietInv' /\ DocsInv'
  BY DEF BackupInv, QuietInv, DocsInv, DocumentsComplete, AtEnd, Failures, ChangeFile, progVars,
         docVars, writeVars, archiveVars, pathVars
<1> QED BY <1>1, <1>3, <1>4 DEF BackupInv

LEMMA BackupStutterInv ==
    ASSUME BackupInv, UNCHANGED vars
    PROVE  BackupInv'
<1>1. WInv'
  BY CacheStays DEF BackupInv, vars
<1>2. JobInv'
  BY DEF BackupInv, JobInv, AtFile, vars, diskVars, progVars
<1>3. QuietInv' /\ DocsInv'
  BY DEF BackupInv, QuietInv, DocsInv, DocumentsComplete, AtEnd, Failures, vars, progVars,
         docVars, writeVars, archiveVars, pathVars
<1> QED BY <1>1, <1>2, <1>3 DEF BackupInv

LEMMA BackupNextInv == BackupInv /\ [BNext]_vars => BackupInv'
<1> SUFFICES ASSUME BackupInv, [BNext]_vars PROVE BackupInv'
  OBVIOUS
<1>1. CASE Program
  BY <1>1, StartFileInv, OpenFileInv, ReadBlockInv, EnqueueAgainInv, EndOfFileInv, RecordFileInv,
     RunRequestInv, CloseCacheInv, WriteKeysInv, WriteFilesInv, ExitInv DEF Program
<1>2. CASE Terminate
  BY <1>2, TerminateInv
<1>3. ASSUME NEW f \in FHash, NEW c \in Contents \cup {NoFile}, ChangeFile(f, c)
      PROVE  BackupInv'
  BY <1>3, ChangeFileInv
<1>4. CASE UNCHANGED vars
  BY <1>4, BackupStutterInv
<1> QED BY <1>1, <1>2, <1>3, <1>4 DEF BNext

-----------------------------------------------------------------------------
(* What is recorded of the files that the program is done with             *)

Reading == pc \in {"read", "again", "record"}

Current(f) == f \notin touched \cup refused /\ disk[f] # NoFile => infos[f] = disk[f]

(* Every file before the next one is recorded as it is, and what is to be  *)
(* recorded of the file in work is what it was when its checksum was taken.*)
FilesInv ==
    /\ DOMAIN infos = FHash
    /\ \A i \in 1..Len(args) : i < nxt => Current(args[i])
    /\ Reading /\ File \notin touched => job.sum = disk[File]
    /\ AtEnd => nxt > Len(args)

LEMMA FilesInitInv == BInit => FilesInv
<1> SUFFICES ASSUME BInit PROVE FilesInv
  OBVIOUS
<1>1. nxt = 1 /\ pc = "next" /\ DOMAIN infos = FHash /\ Len(args) \in Nat
  BY ReferencesAssumption, CmdLinesAssumption, LenProperties DEF BInit
<1> QED BY <1>1 DEF FilesInv, Reading, AtEnd

(* Steps that neither take up a file nor are done with one.                *)
LEMMA FilesStay ==
    ASSUME FilesInv, UNCHANGED <<args, nxt, disk, touched, refused, infos>>,
           Reading' => Reading /\ job'.sum = job.sum,
           AtEnd' => nxt > Len(args)
    PROVE  FilesInv'
BY DEF FilesInv, Current, File

(* The program is done with a file.                                        *)
LEMMA FilesGoOn ==
    ASSUME JobInv, FilesInv, Skip, nxt <= Len(args), UNCHANGED <<args, disk, touched>>,
           DOMAIN infos' = FHash,
           \A i \in 1..Len(args) : i < nxt => Current(args[i])',
           \A f : f = File => Current(f)'
    PROVE  FilesInv'
<1>1. ~Reading' /\ ~AtEnd' /\ nxt' = nxt + 1 /\ nxt \in Nat
  BY DEF Skip, Reading, AtEnd, JobInv
<1>2. Len(args) \in Nat
  BY LenProperties DEF JobInv
<1>3. ASSUME NEW i \in 1..Len(args), i < nxt + 1
      PROVE  Current(args[i])'
  <2>1. i < nxt \/ i = nxt
    BY <1>1, <1>2, <1>3
  <2> QED BY <2>1 DEF File
<1> QED BY <1>1, <1>3 DEF FilesInv

LEMMA FilesNextInv ==
    ASSUME BackupInv, FilesInv, [BNext]_vars
    PROVE  FilesInv'
<1> USE DEF BackupInv
<1>1. CASE StartFile
  <2>1. /\ pc = "next" /\ nxt <= Len(args)
        /\ UNCHANGED <<disk, touched, args, infos, refused>>
        /\ \/ disk[File] = NoFile /\ Skip
           \/ pc' = "open" /\ nxt' = nxt
    BY <1>1 DEF StartFile, diskVars
  <2>2. CASE disk[File] = NoFile /\ Skip
    <3>1. \A f : f = File => Current(f)'
      BY <2>1, <2>2 DEF Current
    <3> QED BY <2>1, <2>2, <3>1, FilesGoOn DEF FilesInv, Current
  <2>3. CASE pc' = "open" /\ nxt' = nxt
    BY <2>1, <2>3, FilesStay DEF Reading, AtEnd
  <2> QED BY <2>1, <2>2, <2>3
<1>2. CASE OpenFile
  <2>1. /\ pc = "open" /\ nxt <= Len(args)
        /\ UNCHANGED <<disk, touched, args, infos>>
        /\ \/ infos[File] = disk[File] /\ Skip /\ UNCHANGED refused
           \/ Skip /\ refused' = refused \cup {File}
           \/ /\ job' = [job EXCEPT !.sum = disk[File]]
              /\ pc' = "read" /\ UNCHANGED <<nxt, refused>>
    BY <1>2 DEF OpenFile, JobInv, AtFile
  <2>2. CASE infos[File] = disk[File] /\ Skip /\ UNCHANGED refused
    <3>1. \A f : f = File => Current(f)'
      BY <2>1, <2>2 DEF Current
    <3> QED BY <2>1, <2>2, <3>1, FilesGoOn DEF FilesInv, Current
  <2>3. CASE Skip /\ refused' = refused \cup {File}
    <3>1. \A f : f = File => Current(f)'
      BY <2>3 DEF Current
    <3> QED BY <2>1, <2>3, <3>1, FilesGoOn DEF FilesInv, Current
  <2>4. CASE /\ job' = [job EXCEPT !.sum = disk[File]]
             /\ pc' = "read" /\ UNCHANGED <<nxt, refused>>
    <3>1. job'.sum = disk[File] /\ File' = File
      BY <2>1, <2>4 DEF JobInv, File
    <3> QED BY <2>1, <2>4, <3>1 DEF FilesInv, Current, Reading, AtEnd
  <2> QED BY <2>1, <2>2, <2>3, <2>4
<1>3. CASE ReadBlock \/ EnqueueAgain \/ EndOfFile
  <2>1. /\ Reading /\ ~AtEnd' /\ job'.sum = job.sum
        /\ UNCHANGED <<args, nxt, disk, touched, refused, infos>>
    <3>1. CASE ReadBlock
      BY <3>1 DEF ReadBlock, JobInv, Reading, AtEnd, diskVars
    <3>2. CASE EnqueueAgain
      BY <3>2 DEF EnqueueAgain, JobInv, Reading, AtEnd, diskVars
    <3>3. CASE EndOfFile
      BY <3>3 DEF EndOfFile, Reading, AtEnd, diskVars
    <3> QED BY <1>3, <3>1, <3>2, <3>3
  <2> QED BY <2>1, FilesStay
<1>4. CASE RecordFile
  <2>1. /\ pc = "record" /\ nxt <= Len(args) /\ Skip
        /\ infos' = [infos EXCEPT ![File] = job.sum]
        /\ UNCHANGED <<disk, touched, args, refused>>
    BY <1>4 DEF RecordFile, JobInv, AtFile, diskVars
  <2>2. File \in FHash /\ (File \notin touched => job.sum = disk[File])
    BY <2>1, FileFacts DEF FilesInv, Reading
  <2>3. DOMAIN infos' = FHash /\ \A f : Current(f) => Current(f)'
    BY <2>1, <2>2 DEF FilesInv, Current
  <2>4. \A f : f = File => Current(f)'
    BY <2>1, <2>2 DEF FilesInv, Current
  <2> QED BY <2>1, <2>3, <2>4, FilesGoOn DEF FilesInv
<1>5. CASE RunWriteRequest /\ UNCHANGED <<diskVars, progVars, docVars>>
  BY <1>5, FilesStay DEF FilesInv, Reading, AtEnd, diskVars, progVars
<1>6. CASE CloseCache \/ WriteKeys \/ WriteFiles \/ Exit \/ Terminate
  <2>1. ~Reading' /\ UNCHANGED <<args, nxt, disk, touched, refused, infos>>
    BY <1>6 DEF CloseCache, WriteKeys, WriteFiles, Exit, Terminate, Reading, diskVars
  <2>2. AtEnd' => nxt > Len(args)
    BY <1>6 DEF FilesInv, CloseCache, WriteKeys, WriteFiles, Exit, Terminate, AtEnd
  <2> QED BY <2>1, <2>2, FilesStay
<1>7. ASSUME NEW f \in FHash, NEW c \in Contents \cup {NoFile}, ChangeFile(f, c)
      PROVE  FilesInv'
  <2>1. /\ disk' = [disk EXCEPT ![f] = c] /\ UNCHANGED <<args, nxt, pc, job, infos, refused>>
        /\ touched' = IF Begun(f) THEN touched \cup {f} ELSE touched
    BY <1>7 DEF ChangeFile, progVars
  <2>2. \A g : g # f => disk'[g] = disk[g]
    BY <2>1 DEF JobInv
  <2>3. ASSUME NEW i \in 1..Len(args), i < nxt
        PROVE  Current(args[i])'
    <3>1. Current(args[i])
      BY <2>3 DEF FilesInv
    <3>2. args[i] = f => f \in touched'
      BY <2>1, <2>3 DEF Begun
    <3> QED BY <2>1, <2>2, <3>1, <3>2 DEF Current
  <2>4. ASSUME Reading, File \notin touched' PROVE job.sum = disk'[File]
    <3>1. nxt \in 1..Len(args) /\ pc # "next"
      BY <2>4, LenProperties DEF Reading, JobInv, AtFile
    <3>2. File = f => Begun(f)
      BY <3>1 DEF File, Begun
    <3> QED BY <2>1, <2>2, <2>4, <3>2 DEF FilesInv
  <2>5. Reading' = Reading /\ AtEnd' = AtEnd /\ File' = File
    BY <2>1 DEF Reading, AtEnd, File
  <2> QED BY <2>1, <2>3, <2>4, <2>5 DEF FilesInv
<1>8. CASE UNCHANGED vars
  BY <1>8, FilesStay DEF FilesInv, Reading, AtEnd, vars, diskVars, progVars
<1> QED BY <1>1, <1>2, <1>3, <1>4, <1>5, <1>6, <1>7, <1>8 DEF BNext, Program

-----------------------------------------------------------------------------
(* What a list of blocks is rebuilt to                                     *)

(* Every block that has a length says where its bytes go.                  *)
Pieces(bs) ==
    \A i \in 1..Len(bs) :
        bs[i].blocksize # 0 => bs[i].filepos \in Nat /\ bs[i].bchecksum \in Seq(Byte)

(* file is what Rebuilt makes of bs, block by block.                       *)
Builds(file, bs) ==
    /\ file \in [0..Len(bs) -> Seq(Byte)]
    /\ file[0] = <<>>
    /\ \A i \in 1..Len(bs) :
          file[i] = IF bs[i].blocksize = 0 THEN file[i-1]
                    ELSE Overlay(file[i-1], bs[i].filepos, bs[i].bchecksum)

LEMMA OverlayType ==
    ASSUME NEW c \in Seq(Byte), NEW pos \in Nat, NEW d \in Seq(Byte)
    PROVE  /\ Overlay(c, pos, d) \in Seq(Byte)
           /\ Len(Overlay(c, pos, d)) = IF pos + Len(d) > Len(c) THEN pos + Len(d) ELSE Len(c)
<1> DEFINE n == IF pos + Len(d) > Len(c) THEN pos + Len(d) ELSE Len(c)
<1>1. n \in Nat /\ Len(c) \in Nat /\ Len(d) \in Nat
  BY LenProperties
<1>2. ASSUME NEW i \in 1..n
      PROVE  (IF i \in pos+1..pos+Len(d) THEN d[i - pos]
              ELSE IF i <= Len(c) THEN c[i] ELSE Zero) \in Byte
  <2>1. CASE i \in pos+1..pos+Len(d)
    <3>1. i - pos \in 1..Len(d)
      BY <1>1, <2>1
    <3> QED BY <2>1, <3>1, ElementOfSeq
  <2>2. CASE i \notin pos+1..pos+Len(d) /\ i <= Len(c)
    <3>1. i \in 1..Len(c)
      BY <1>1, <2>2
    <3> QED BY <2>2, <3>1, ElementOfSeq
  <2> QED BY <2>1, <2>2, BytesAssumption
<1>3. Overlay(c, pos, d) = [i \in 1..n |-> IF i \in pos+1..pos+Len(d) THEN d[i - pos]
                                           ELSE IF i <= Len(c) THEN c[i] ELSE Zero]
  BY DEF Overlay
<1> HIDE DEF n
<1>4. Overlay(c, pos, d) \in [1..n -> Byte]
  BY <1>2, <1>3
<1>5. \A w \in [1..n -> Byte] : w \in Seq(Byte) /\ Len(w) = n
  BY <1>1
<1> QED BY <1>4, <1>5 DEF n

LEMMA RebuiltSteps ==
    ASSUME NEW bs, Len(bs) \in Nat, Pieces(bs)
    PROVE  \E file : Builds(file, bs) /\ Rebuilt(bs) = file[Len(bs)]
<1> DEFINE n == Len(bs)
           X == Seq(Byte)
           none == <<>>
           G(file) == [i \in 0..n |-> IF i = 0 THEN none
                                      ELSE IF bs[i].blocksize = 0 THEN file[i-1]
                                      ELSE Overlay(file[i-1], bs[i].filepos, bs[i].bchecksum)]
           built == CHOOSE file : file = G(file)
           F == [i \in 1..n |-> [s \in X |->
                    IF bs[i].blocksize = 0 THEN s
                    ELSE Overlay(s, bs[i].filepos, bs[i].bchecksum)]]
<1>1. n \in Nat /\ none \in X
  BY EmptySeq
<1>2. ASSUME NEW i \in 1..n, NEW s \in X, bs[i].blocksize # 0
      PROVE  Overlay(s, bs[i].filepos, bs[i].bchecksum) \in X
  BY <1>2, OverlayType DEF Pieces
<1>3. Rebuilt(bs) = built[n]
  BY DEF Rebuilt
<1> HIDE DEF none, X
<1>4. F \in [1..n -> [X -> X]]
  BY <1>2
<1>5. PICK f \in [0..n -> X] : Solves(f, n, none, F)
  <2> HIDE DEF n, F
  <2> QED BY <1>1, <1>4, Recursion
<1>6. f[0] = none /\ \A i \in 1..n : f[i] = F[i][f[i - 1]]
  <2> HIDE DEF F
  <2> QED BY <1>5 DEF Solves
<1>7. f = G(f)
  <2>1. ASSUME NEW i \in 1..n
        PROVE  F[i][f[i - 1]] = IF bs[i].blocksize = 0 THEN f[i-1]
                                ELSE Overlay(f[i-1], bs[i].filepos, bs[i].bchecksum)
    <3>1. i - 1 \in 0..n
      BY <1>1
    <3>2. f[i - 1] \in X
      BY <3>1, <1>5
    <3> QED BY <3>2
  <2> HIDE DEF F
  <2>2. \A i \in 0..n : i = 0 \/ i \in 1..n
    BY <1>1
  <2>3. \A i \in 0..n : f[i] = G(f)[i]
    BY <2>1, <2>2, <1>6
  <2> QED BY <2>3, <1>5
<1>8. built = G(built)
  <2> HIDE DEF G
  <2> QED BY <1>7
<1> HIDE DEF built
<1>9. /\ built[0] = none
      /\ \A i \in 1..n : built[i] = IF bs[i].blocksize = 0 THEN built[i-1]
                                    ELSE Overlay(built[i-1], bs[i].filepos, bs[i].bchecksum)
  <2>1. \A i \in 0..n : built[i] = G(built)[i]
    BY <1>8
  <2>2. 0 \in 0..n /\ \A i \in 1..n : i \in 0..n /\ i # 0
    BY <1>1
  <2> QED BY <2>1, <2>2
<1>10. \A i \in 0..n : built[i] \in X
  <2> DEFINE T == {i \in 0..n : built[i] \in X}
  <2>1. 0 \in T
    BY <1>1, <1>9
  <2>2. ASSUME NEW i \in 1..n, i - 1 \in T PROVE i \in T
    <3>1. built[i - 1] \in X /\ i \in 0..n
      BY <1>1, <2>2
    <3> QED BY <1>2, <1>9, <3>1
  <2> HIDE DEF T, n
  <2>3. \A i \in 0..n : i \in T
    BY <1>1, <2>1, <2>2, StepByStep
  <2> QED BY <2>3 DEF T
<1>11. built \in [0..n -> X]
  <2>1. built = [i \in 0..n |-> built[i]]
    BY <1>8
  <2> QED BY <2>1, <1>10
<1> HIDE DEF G
<1>12. Builds(built, bs)
  BY <1>9, <1>11 DEF Builds, none, X
<1> QED BY <1>3, <1>12

(* The bytes of a file behind position pos, put at that position.          *)
LEMMA OverlayCut ==
    ASSUME NEW c \in Seq(Byte), NEW pos \in 0..Len(c), NEW to \in pos..Len(c)
    PROVE  Overlay(SubSeq(c, 1, pos), pos, SubSeq(c, pos + 1, to)) = SubSeq(c, 1, to)
<1> DEFINE s == SubSeq(c, 1, pos)
           d == SubSeq(c, pos + 1, to)
           w == SubSeq(c, 1, to)
           o == Overlay(s, pos, d)
<1>0. Len(c) \in Nat /\ pos \in Nat /\ to \in Nat /\ pos <= to /\ to <= Len(c)
  BY LenProperties
<1>1. s \in Seq(Byte) /\ Len(s) = pos /\ \A i \in 1..pos : s[i] = c[i]
  <2>1. \A i \in 1..pos : c[i] \in Byte
    BY <1>0, ElementOfSeq
  <2>2. /\ s \in Seq(Byte) /\ Len(s) = IF 1 <= pos THEN pos - 1 + 1 ELSE 0
        /\ \A i \in 1..pos - 1 + 1 : s[i] = c[1 + i - 1]
    BY <1>0, <2>1, SubSeqProperties
  <2> QED BY <1>0, <2>2
<1>2. d \in Seq(Byte) /\ Len(d) = to - pos /\ \A i \in 1..to - pos : d[i] = c[pos + i]
  <2>1. \A i \in pos + 1..to : c[i] \in Byte
    BY <1>0, ElementOfSeq
  <2>2. /\ d \in Seq(Byte) /\ Len(d) = IF pos + 1 <= to THEN to - (pos + 1) + 1 ELSE 0
        /\ \A i \in 1..to - (pos + 1) + 1 : d[i] = c[(pos + 1) + i - 1]
    BY <1>0, <2>1, SubSeqProperties
  <2>3. \A i \in 1..to - pos : i \in 1..to - (pos + 1) + 1 /\ (pos + 1) + i - 1 = pos + i
    BY <1>0
  <2> QED BY <1>0, <2>2, <2>3
<1>3. w \in Seq(Byte) /\ Len(w) = to /\ \A i \in 1..to : w[i] = c[i]
  <2>1. \A i \in 1..to : c[i] \in Byte
    BY <1>0, ElementOfSeq
  <2>2. /\ w \in Seq(Byte) /\ Len(w) = IF 1 <= to THEN to - 1 + 1 ELSE 0
        /\ \A i \in 1..to - 1 + 1 : w[i] = c[1 + i - 1]
    BY <1>0, <2>1, SubSeqProperties
  <2> QED BY <1>0, <2>2
<1> HIDE DEF s, d, w
<1>4. o \in Seq(Byte) /\ Len(o) = to
  <2>1. pos + Len(d) = to /\ Len(s) = pos
    BY <1>0, <1>1, <1>2
  <2>2. /\ o \in Seq(Byte)
        /\ Len(o) = IF pos + Len(d) > Len(s) THEN pos + Len(d) ELSE Len(s)
    BY <1>0, <1>1, <1>2, OverlayType
  <2> HIDE DEF o
  <2> QED BY <1>0, <2>1, <2>2
<1>5. ASSUME NEW i \in 1..to
      PROVE  o[i] = c[i]
  <2>1. o[i] = IF i \in pos+1..pos+Len(d) THEN d[i - pos]
               ELSE IF i <= Len(s) THEN s[i] ELSE Zero
    BY <1>0, <1>1, <1>2 DEF Overlay
  <2>2. CASE i <= pos
    BY <1>0, <1>1, <1>2, <2>1, <2>2
  <2>3. CASE i > pos
    <3>1. i \in pos+1..pos+Len(d) /\ i - pos \in 1..to - pos /\ pos + (i - pos) = i
      BY <1>0, <1>2, <2>3
    <3> QED BY <1>2, <2>1, <3>1
  <2> QED BY <1>0, <2>2, <2>3
<1> HIDE DEF o
<1>6. o = w
  BY <1>3, <1>4, <1>5, SeqEqual
<1> QED BY <1>6 DEF o, s, d, w

(* The end of the block that a request hands in.                           *)
EndOf(r) == r.fpos + Len(r.data)

(* The requests q hand in the first p bytes of content c, in order and     *)
(* without gaps.                                                           *)
Cut(q, c, p) ==
    /\ \A i \in 1..Len(q) :
          /\ q[i].data # <<>> /\ EndOf(q[i]) <= Len(c)
          /\ q[i].data = SubSeq(c, q[i].fpos + 1, EndOf(q[i]))
          /\ q[i].fpos = IF i = 1 THEN 0 ELSE EndOf(q[i-1])
    /\ p = IF q = <<>> THEN 0 ELSE EndOf(q[Len(q)])

LEMMA DataIsBytes ==
    ASSUME NEW d \in Data
    PROVE  d \in Seq(Byte) /\ Len(d) <= BlockSz /\ Size[d] = Len(d)
<1>1. PICK n \in 0..BlockSz : d \in [1..n -> Byte]
  BY BlocksAssumption
<1>2. n \in Nat /\ n <= BlockSz
  BY BytesAssumption
<1>3. d \in Seq(Byte) /\ Len(d) = n
  BY <1>1, <1>2
<1> QED BY <1>2, <1>3, BlocksAssumption

(* The blocks of such requests, put together, are those bytes.             *)
LEMMA RebuiltFromCut ==
    ASSUME NEW q \in Seq(Request), NEW c \in Seq(Byte), NEW p, Cut(q, c, p),
           NEW bs, Len(bs) = Len(q),
           \A i \in 1..Len(q) : /\ bs[i].blocksize # 0 /\ bs[i].filepos = q[i].fpos
                                /\ bs[i].bchecksum = q[i].data
    PROVE  Rebuilt(bs) = SubSeq(c, 1, p)
<1> DEFINE n == Len(q)
           end(i) == IF i = 0 THEN 0 ELSE EndOf(q[i])
<1>1. n \in Nat /\ Len(c) \in Nat
  BY LenProperties
<1>2. ASSUME NEW i \in 1..n
      PROVE  /\ q[i].data \in Seq(Byte) /\ Len(q[i].data) \in Nat /\ q[i].fpos \in Nat
             /\ EndOf(q[i]) \in Nat
  <2>1. q[i] \in Request
    BY ElementOfSeq
  <2>2. q[i].data \in Seq(Byte) /\ q[i].fpos \in Nat
    BY <2>1, DataIsBytes DEF Request
  <2> QED BY <2>2, LenProperties DEF EndOf
<1>3. Pieces(bs)
  BY <1>2 DEF Pieces
<1>4. PICK file : Builds(file, bs) /\ Rebuilt(bs) = file[n]
  BY <1>1, <1>3, RebuiltSteps
<1>5. ASSUME NEW i \in 1..n
      PROVE  /\ q[i].fpos = end(i - 1) /\ end(i - 1) \in Nat /\ end(i) \in Nat
             /\ end(i - 1) <= end(i) /\ end(i) <= Len(c)
             /\ q[i].data = SubSeq(c, end(i - 1) + 1, end(i))
  <2>1. /\ EndOf(q[i]) <= Len(c) /\ q[i].data = SubSeq(c, q[i].fpos + 1, EndOf(q[i]))
        /\ q[i].fpos = IF i = 1 THEN 0 ELSE EndOf(q[i-1])
    BY DEF Cut
  <2>2. i # 0 /\ (i - 1 = 0 <=> i = 1)
    BY <1>1
  <2>3. q[i].fpos = end(i - 1) /\ end(i) = EndOf(q[i])
    BY <2>1, <2>2
  <2>4. q[i].fpos <= EndOf(q[i])
    BY <1>2 DEF EndOf
  <2> QED BY <1>2, <2>1, <2>3, <2>4
<1>6. \A i \in 0..n : file[i] = SubSeq(c, 1, end(i))
  <2> DEFINE T == {i \in 0..n : file[i] = SubSeq(c, 1, end(i))}
  <2>1. 0 \in T
    <3>1. file[0] = <<>> /\ end(0) = 0 /\ 0 \in 0..n
      BY <1>1, <1>4 DEF Builds
    <3>2. SubSeq(c, 1, 0) = <<>>
      BY SubSeqEmpty
    <3> QED BY <3>1, <3>2
  <2>2. ASSUME NEW i \in 1..n, i - 1 \in T PROVE i \in T
    <3>1. file[i - 1] = SubSeq(c, 1, end(i - 1)) /\ i \in 0..n
      BY <1>1, <2>2
    <3>2. file[i] = Overlay(file[i-1], q[i].fpos, q[i].data)
      BY <1>4 DEF Builds
    <3> HIDE DEF end
    <3>3. file[i] = Overlay(SubSeq(c, 1, end(i - 1)), end(i - 1), SubSeq(c, end(i - 1) + 1, end(i)))
      BY <1>5, <3>1, <3>2
    <3> DEFINE a == end(i - 1)
               b == end(i)
    <3>4. a \in 0..Len(c) /\ b \in a..Len(c)
      BY <1>1, <1>5
    <3> HIDE DEF a, b
    <3>5. Overlay(SubSeq(c, 1, a), a, SubSeq(c, a + 1, b)) = SubSeq(c, 1, b)
      BY <3>4, OverlayCut
    <3> QED BY <3>1, <3>3, <3>5 DEF a, b
  <2> HIDE DEF T, n
  <2>3. \A i \in 0..n : i \in T
    BY <1>1, <2>1, <2>2, StepByStep
  <2> QED BY <2>3 DEF T
<1>7. p = end(n)
  <2>1. CASE q = <<>>
    BY <2>1 DEF Cut
  <2>2. CASE q # <<>>
    BY <2>2, EmptySeq DEF Cut
  <2> QED BY <2>1, <2>2
<1>8. n \in 0..n
  BY <1>1
<1> QED BY <1>4, <1>6, <1>7, <1>8

(* A queue in which every request is selected is kept as it is.            *)
LEMMA SelectionAll ==
    ASSUME NEW q \in Seq(Request), NEW fh, \A i \in 1..Len(q) : Selected(q[i], fh)
    PROVE  OfFile(q, fh) = q
<1> DEFINE n == Len(q)
<1>1. n \in Nat /\ SubSeq(q, 1, n) = q
  BY LenProperties, SubSeqFull
<1>2. PICK of : Selects(of, q, fh) /\ OfFile(q, fh) = of[n]
  BY SelectionSteps
<1>3. \A i \in 0..n : of[i] = SubSeq(q, 1, i)
  <2> DEFINE T == {i \in 0..n : of[i] = SubSeq(q, 1, i)}
  <2>1. 0 \in T
    <3>1. SubSeq(q, 1, 0) = <<>>
      BY SubSeqEmpty
    <3> QED BY <1>1, <1>2, <3>1 DEF Selects
  <2>2. ASSUME NEW i \in 1..n, i - 1 \in T PROVE i \in T
    <3> DEFINE X == Request
               s == SubSeq(q, 1, i - 1)
               e == q[i]
    <3>1. of[i] = Append(s, e) /\ i \in 0..n
      <4>1. of[i] = Append(of[i - 1], q[i])
        BY <1>2 DEF Selects
      <4>2. of[i - 1] = s
        BY <2>2
      <4> HIDE DEF s
      <4> QED BY <1>1, <4>1, <4>2
    <3>2. s \in Seq(X) /\ e \in X
      <4>1. \A j \in 1..i - 1 : q[j] \in Request
        BY <1>1, ElementOfSeq
      <4> QED BY <1>1, <4>1, SubSeqProperties, ElementOfSeq
    <3>3. SubSeq(q, 1, i) = s \o <<e>>
      <4>1. 1 \in 1..Len(q) /\ i \in 1..Len(q)
        BY <1>1
      <4> QED BY <4>1, SubSeqRecursiveSecond
    <3> HIDE DEF s, e, X
    <3>4. Append(s, e) = s \o <<e>>
      BY <3>2, AppendIsConcat
    <3> QED BY <3>1, <3>3, <3>4
  <2> HIDE DEF T, n
  <2>3. \A i \in 0..n : i \in T
    BY <1>1, <2>1, <2>2, StepByStep
  <2> QED BY <2>3 DEF T
<1>4. n \in 0..n
  BY <1>1
<1> QED BY <1>1, <1>2, <1>3, <1>4

-----------------------------------------------------------------------------
(* What was handed in of the files that nobody touched                     *)

(* The bytes d are what the content c has at position pos.                 *)
PartOf(d, c, pos) == d = BytesAt(c, pos, Len(d))

InWork(f) == Reading /\ f = File

(* The requests of file f are its content, cut into pieces: as far as the  *)
(* program has come, or all of it, as it is recorded and still on disk.    *)
Whole(f) ==
    IF InWork(f)
    THEN /\ disk[f] # NoFile /\ stream = disk[f] /\ job.size = Len(disk[f])
         /\ Cut(accepted[f], disk[f], job.pos)
         /\ pc = "again" => job.block = BytesAt(disk[f], job.pos, BlockLen)
    ELSE accepted[f] # <<>> =>
              /\ disk[f] # NoFile /\ infos[f] = disk[f]
              /\ Cut(accepted[f], disk[f], Len(disk[f]))

(* Also if a read fails, every request of f holds what f has at its place. *)
Faithful(f) ==
    /\ InWork(f) => /\ disk[f] # NoFile /\ stream = disk[f]
                    /\ pc = "again" => PartOf(job.block, disk[f], job.pos)
    /\ accepted[f] # <<>> => disk[f] # NoFile
    /\ \A i \in 1..Len(accepted[f]) :
          PartOf(accepted[f][i].data, disk[f], accepted[f][i].fpos)

FaithInv == \A f \in FHash \ touched : Faithful(f)

(* Without a queue nothing is taken over, and a program that is terminated *)
(* in the middle leaves files in pieces.                                   *)
WholeInv ==
    /\ \A f \in FHash : \A i \in 1..Len(accepted[f]) : accepted[f][i].fhash = f
    /\ \A f \in FHash : accepted[f] # <<>> => Begun(f)
    /\ pc = "again" => wqueue = <<>>
    /\ pc = "record" => job.pos >= job.size
    /\ pc = "open" /\ File \notin touched =>
          disk[File] # NoFile /\ job.size = Len(disk[File]) /\ job.pos = 0
    /\ QueueSz = 0 => \A f \in FHash : accepted[f] = <<>>
    /\ QueueSz # 0 /\ (pc # "terminated" \/ filesdoc # NoDoc) =>
          \A f \in FHash \ (touched \cup misread) : Whole(f)

(* Nothing is written to the cache after the end of the command line, and  *)
(* the documents are not changed when there is one of the files.           *)
Sealed ==
    /\ closed => AtEnd \/ pc = "terminated"
    /\ filesdoc # NoDoc =>
          /\ writeenv # NullEnv => writeenv.aid = NoAid
          /\ wqueue = <<>> /\ wbatch = <<>>
          /\ status = 0 => keysdoc = keystore

RestoreInv == UsableInv /\ AccountInv /\ Sealed /\ WholeInv /\ FaithInv

LEMMA RestoreInitInv == BInit => RestoreInv
<1> SUFFICES ASSUME BInit PROVE RestoreInv
  OBVIOUS
<1>1. UsableInv /\ AccountInv
  BY WInitLost DEF BInit, LostInv, WInit
<1>2. Sealed
  BY DEF BInit, WInit, Sealed
<1>3. /\ pc = "next" /\ filesdoc = NoDoc /\ \A f \in FHash : accepted[f] = <<>>
  BY DEF BInit, WInit
<1>4. WholeInv
  BY <1>3, EmptySeq DEF WholeInv, Whole, InWork, Reading
<1>5. FaithInv
  BY <1>3, EmptySeq DEF FaithInv, Faithful, InWork, Reading
<1> QED BY <1>1, <1>2, <1>4, <1>5 DEF RestoreInv

(* The cache is left alone, or works while files are taken up.             *)
LEMMA AccountsKept ==
    ASSUME BackupInv, RestoreInv,
           \/ UNCHANGED writeVars
           \/ /\ pc # "terminated" /\ ~AtEnd
              /\ \/ \E r \in Request : EnqueueWrite(r)
                 \/ Drain \/ RunWriteRequest \/ \E out \in Outcome : Close(out)
    PROVE  UsableInv' /\ AccountInv'
<1> USE DEF BackupInv, RestoreInv
<1>1. CASE UNCHANGED writeVars
  <2>1. UNCHANGED <<wbatch, wqueue, accepted, fblockstore, closed, writeenv>>
    BY <1>1 DEF writeVars, pathVars, archiveVars
  <2> QED BY <2>1, QuietAccounts DEF UsableInv
<1>2. CASE \E r \in Request : EnqueueWrite(r)
  BY <1>2, EnqueueAccounts, UsableKept
<1>3. CASE IterateWriteQueue
  BY <1>3, IterateAccounts, UsableKept
<1>4. CASE Drain
  BY <1>1, <1>3, <1>4 DEF Drain
<1>5. CASE RunWriteRequest /\ pc # "terminated" /\ ~AtEnd
  <2>1. writeenv # NullEnv /\ ~closed
    BY <1>5 DEF RunWriteRequest, WInv, QueueInv, Sealed
  <2> QED BY <1>5, <2>1, RunAccounts, UsableKept DEF UsableInv
<1>6. ASSUME NEW out \in Outcome, Close(out) PROVE UsableInv' /\ AccountInv'
  <2>1. UNCHANGED <<wbatch, wqueue, accepted, fblockstore>>
    BY <1>6 DEF Close
  <2> QED BY <1>6, <2>1, QuietAccounts, UsableKept
<1> QED BY <1>1, <1>2, <1>4, <1>5, <1>6

LEMMA AccountsNext ==
    ASSUME BackupInv, RestoreInv, [BNext]_vars
    PROVE  UsableInv' /\ AccountInv'
<1>1. CASE StartFile
  BY <1>1, AccountsKept DEF StartFile
<1>2. CASE OpenFile
  BY <1>2, AccountsKept DEF OpenFile
<1>3. CASE ReadBlock
  <2>1. PICK d \in Fread(stream, job.pos, BlockLen) :
            /\ pc = "read" /\ job.pos < job.size
            /\ EnqueueWrite(BlockRequest(d)) \/ Drain
    BY <1>3 DEF ReadBlock
  <2>2. d \in Data
    BY <2>1, BlockIsData DEF BackupInv
  <2>3. BlockRequest(d) \in Request
    BY <2>1, <2>2, RequestFacts DEF BackupInv, AtFile
  <2> QED BY <2>1, <2>3, AccountsKept DEF AtEnd
<1>4. CASE EnqueueAgain
  <2>1. pc = "again" /\ (EnqueueWrite(BlockRequest(job.block)) \/ UNCHANGED writeVars)
    BY <1>4 DEF EnqueueAgain
  <2>2. job.block \in Data
    BY DEF BackupInv, JobInv
  <2>3. BlockRequest(job.block) \in Request
    BY <2>1, <2>2, RequestFacts DEF BackupInv, AtFile
  <2> QED BY <2>1, <2>3, AccountsKept DEF AtEnd
<1>5. CASE EndOfFile
  BY <1>5, AccountsKept DEF EndOfFile, AtEnd
<1>6. CASE RecordFile
  BY <1>6, AccountsKept DEF RecordFile
<1>7. CASE pc # "terminated" /\ RunWriteRequest
  <2>1. ~AtEnd
    BY <1>7 DEF BackupInv, QuietInv, RunWriteRequest
  <2> QED BY <1>7, <2>1, AccountsKept
<1>8. CASE CloseCache
  BY <1>8, AccountsKept DEF CloseCache, AtEnd
<1>9. CASE WriteKeys \/ WriteFiles \/ Exit \/ Terminate \/ UNCHANGED vars
  BY <1>9, AccountsKept DEF WriteKeys, WriteFiles, Exit, Terminate, vars
<1>10. ASSUME NEW f \in FHash, NEW c \in Contents \cup {NoFile}, ChangeFile(f, c)
       PROVE  UsableInv' /\ AccountInv'
  BY <1>10, AccountsKept DEF ChangeFile
<1> QED BY <1>1, <1>2, <1>3, <1>4, <1>5, <1>6, <1>7, <1>8, <1>9, <1>10 DEF BNext, Program

LEMMA SealedNext ==
    ASSUME BackupInv, Sealed, [BNext]_vars
    PROVE  Sealed'
<1> USE DEF BackupInv
<1>1. CASE filesdoc = NoDoc /\ filesdoc' = NoDoc
  <2>1. closed' => AtEnd' \/ pc' = "terminated"
    <3>1. CASE StartFile
      BY <3>1 DEF StartFile, Sealed, AtEnd, writeVars, pathVars
    <3>2. CASE OpenFile
      BY <3>2 DEF OpenFile, Sealed, AtEnd, writeVars, pathVars
    <3>3. CASE ReadBlock \/ EnqueueAgain \/ EndOfFile \/ RecordFile
      <4>1. pc \in {"read", "again", "record"} /\ closed' = closed
        BY <3>3 DEF ReadBlock, EnqueueAgain, EndOfFile, RecordFile, Drain, EnqueueWrite,
                    IterateWriteQueue, writeVars, pathVars
      <4> QED BY <4>1 DEF Sealed, AtEnd
    <3>4. CASE pc # "terminated" /\ RunWriteRequest /\ UNCHANGED <<diskVars, progVars, docVars>>
      BY <3>4 DEF RunWriteRequest, Sealed, AtEnd, progVars
    <3>5. CASE CloseCache
      BY <3>5 DEF CloseCache, AtEnd
    <3>6. CASE WriteKeys \/ WriteFiles \/ Exit \/ Terminate
      BY <3>6 DEF WriteKeys, WriteFiles, Exit, Terminate, AtEnd
    <3>7. ASSUME NEW f \in FHash, NEW c \in Contents \cup {NoFile}, ChangeFile(f, c)
          PROVE  closed' => AtEnd' \/ pc' = "terminated"
      BY <3>7 DEF ChangeFile, Sealed, AtEnd, writeVars, pathVars, progVars
    <3>8. CASE UNCHANGED vars
      BY <3>8 DEF Sealed, AtEnd, vars, writeVars, pathVars, progVars
    <3> QED BY <3>1, <3>2, <3>3, <3>4, <3>5, <3>6, <3>7, <3>8 DEF BNext, Program
  <2> QED BY <1>1, <2>1 DEF Sealed
<1>2. CASE WriteFiles
  BY <1>2 DEF WriteFiles, Sealed, QuietInv, DocsInv, AtEnd, writeVars, pathVars, archiveVars
<1>3. CASE filesdoc # NoDoc
  <2>1. pc \in {"exit", "done", "terminated"} /\ wbatch = <<>>
    BY <1>3 DEF DocsInv, Sealed
  <2>2. \/ Exit \/ Terminate \/ UNCHANGED vars
        \/ \E f \in FHash, c \in Contents \cup {NoFile} : ChangeFile(f, c)
    BY <2>1 DEF BNext, Program, StartFile, OpenFile, ReadBlock, EnqueueAgain, EndOfFile,
                RecordFile, RunWriteRequest, CloseCache, WriteKeys, WriteFiles
  <2>3. /\ UNCHANGED <<closed, writeenv, wqueue, wbatch, keystore, keysdoc, filesdoc>>
        /\ status' = 0 => status = 0
        /\ (pc' = pc \/ AtEnd' \/ pc' = "terminated")
    BY <2>2 DEF Exit, Terminate, ChangeFile, vars, progVars, docVars, writeVars, pathVars,
                archiveVars, AtEnd
  <2>4. AtEnd' \/ pc' = "terminated"
    BY <2>1, <2>3 DEF AtEnd
  <2> QED BY <2>3, <2>4 DEF Sealed
<1>4. CASE filesdoc = NoDoc /\ filesdoc' # NoDoc /\ ~WriteFiles
  <2>1. filesdoc' = filesdoc
    <3>1. ASSUME NEW f \in FHash, NEW c \in Contents \cup {NoFile}, ChangeFile(f, c)
          PROVE  filesdoc' = filesdoc
      BY <3>1 DEF ChangeFile, docVars
    <3>2. CASE Program
      BY <1>4, <3>2 DEF Program, StartFile, OpenFile, ReadBlock, EnqueueAgain, EndOfFile,
                RecordFile, CloseCache, WriteKeys, Exit, docVars
    <3> QED BY <3>1, <3>2 DEF BNext, Terminate, vars, docVars
  <2> QED BY <1>4, <2>1
<1> QED BY <1>1, <1>2, <1>3, <1>4

(* Steps that neither read a file nor hand anything in.                    *)
LEMMA AsideStays ==
    ASSUME WholeInv, ~Reading, ~Reading', UNCHANGED <<accepted, disk, infos, touched, misread>>,
           \A f : Begun(f) => Begun(f)',
           pc' # "terminated" \/ filesdoc' # NoDoc => pc # "terminated" \/ filesdoc # NoDoc,
           pc' = "open" /\ File' \notin touched =>
               disk[File'] # NoFile /\ job'.size = Len(disk[File']) /\ job'.pos = 0
    PROVE  WholeInv'
<1>1. pc' # "again" /\ pc' # "record"
  BY DEF Reading
<1>2. \A f : ~InWork(f) /\ ~InWork(f)'
  BY DEF InWork
<1>3. \A f : Whole(f) => Whole(f)'
  BY <1>2 DEF Whole
<1> QED BY <1>1, <1>3 DEF WholeInv

LEMMA BegunByNext ==
    ASSUME JobInv, nxt' = nxt + 1, args' = args, NEW f, Begun(f)
    PROVE  Begun(f)'
<1>1. PICK i \in 1..Len(args) : args[i] = f /\ (i < nxt \/ (i = nxt /\ pc # "next"))
  BY DEF Begun
<1>2. i < nxt + 1
  BY <1>1, LenProperties DEF JobInv
<1> QED BY <1>1, <1>2 DEF Begun

LEMMA WorkHasBegun ==
    ASSUME JobInv, AtFile
    PROVE  Begun(File)
<1>1. nxt \in 1..Len(args)
  BY LenProperties DEF JobInv
<1> QED BY <1>1 DEF Begun, File, AtFile

(* What a step at a file keeps of the files that are not in work.          *)
LEMMA OthersStay ==
    ASSUME NEW f, Whole(f), ~InWork(f), ~InWork(f)',
           accepted'[f] = accepted[f], UNCHANGED disk, infos'[f] = infos[f]
    PROVE  Whole(f)'
BY DEF Whole

(* One more block of the file in work is handed in.                        *)
LEMMA CutGrows ==
    ASSUME NEW q \in Seq(Request), NEW r \in Request, NEW c \in Seq(Byte), NEW p \in Nat,
           Cut(q, c, p), r.fpos = p, r.data # <<>>, EndOf(r) <= Len(c),
           r.data = SubSeq(c, p + 1, EndOf(r))
    PROVE  Cut(Append(q, r), c, EndOf(r))
<1> DEFINE n == Len(q)
           w == Append(q, r)
<1>1. /\ n \in Nat /\ Len(w) = n + 1 /\ w # <<>> /\ w[n + 1] = r
      /\ \A i \in 1..n : w[i] = q[i]
  BY LenProperties, AppendProperties
<1> HIDE DEF w
<1>2. \A i \in 1..n + 1 : i \in 1..n \/ i = n + 1
  BY <1>1
<1>3. \A i \in 1..n : i = 1 \/ i - 1 \in 1..n
  BY <1>1
<1>4. ASSUME NEW i \in 1..n
      PROVE  /\ w[i].data # <<>> /\ EndOf(w[i]) <= Len(c)
             /\ w[i].data = SubSeq(c, w[i].fpos + 1, EndOf(w[i]))
             /\ w[i].fpos = IF i = 1 THEN 0 ELSE EndOf(w[i-1])
  BY <1>1, <1>3 DEF Cut
<1>5. r.fpos = IF n + 1 = 1 THEN 0 ELSE EndOf(w[n])
  <2>1. CASE q = <<>>
    <3>1. n = 0
      BY <2>1, EmptySeq
    <3> QED BY <2>1, <3>1 DEF Cut
  <2>2. CASE q # <<>>
    <3>1. n \in Nat \ {0}
      BY <2>2, EmptySeq
    <3>2. n \in 1..n /\ n + 1 # 1
      BY <3>1
    <3> QED BY <1>1, <2>2, <3>2 DEF Cut
  <2> QED BY <2>1, <2>2
<1>6. (n + 1) - 1 = n
  BY <1>1
<1>7. /\ w[n + 1].data # <<>> /\ EndOf(w[n + 1]) <= Len(c)
      /\ w[n + 1].data = SubSeq(c, w[n + 1].fpos + 1, EndOf(w[n + 1]))
      /\ w[n + 1].fpos = IF n + 1 = 1 THEN 0 ELSE EndOf(w[(n + 1) - 1])
  BY <1>1, <1>5, <1>6
<1>8. \A i \in 1..Len(w) :
          /\ w[i].data # <<>> /\ EndOf(w[i]) <= Len(c)
          /\ w[i].data = SubSeq(c, w[i].fpos + 1, EndOf(w[i]))
          /\ w[i].fpos = IF i = 1 THEN 0 ELSE EndOf(w[i-1])
  BY <1>1, <1>2, <1>4, <1>7
<1> HIDE DEF n
<1>9. Cut(w, c, EndOf(r))
  BY <1>1, <1>8 DEF Cut
<1> QED BY <1>9 DEF w

(* The request for the next block of a file that nobody touched.           *)
LEMMA NextBlock ==
    ASSUME JobInv, AtFile, NEW c \in Seq(Byte), job.size = Len(c), job.pos < job.size,
           NEW d, d = BytesAt(c, job.pos, BlockLen), d \in Data
    PROVE  LET r == BlockRequest(d)
           IN  /\ r.fpos = job.pos /\ r.data # <<>> /\ EndOf(r) <= Len(c)
               /\ EndOf(r) = job.pos + BlockLen /\ r.data = SubSeq(c, job.pos + 1, EndOf(r))
<1> DEFINE p == job.pos
           e == p + BlockLen
<1>1. p \in Nat /\ Len(c) \in Nat /\ BlockLen \in Nat \ {0} /\ e <= Len(c) /\ e \in Nat
  BY LenProperties, BytesAssumption DEF JobInv, BlockLen, LessOf
<1>2. d = SubSeq(c, p + 1, e)
  BY <1>1, SMTT(30) DEF BytesAt, LessOf
<1>3. Len(d) = BlockLen
  <2>1. \A i \in p + 1..e : c[i] \in Byte
    BY <1>1, ElementOfSeq
  <2>2. Len(SubSeq(c, p + 1, e)) = IF p + 1 <= e THEN e - (p + 1) + 1 ELSE 0
    BY <1>1, <2>1, SubSeqProperties
  <2> QED BY <1>1, <1>2, <2>2
<1>4. d # <<>>
  BY <1>1, <1>3, EmptySeq
<1> QED BY <1>1, <1>2, <1>3, <1>4 DEF BlockRequest, EndOf

LEMMA StartFileWhole ==
    ASSUME BackupInv, WholeInv, StartFile
    PROVE  WholeInv'
<1>1. /\ pc = "next" /\ nxt <= Len(args)
      /\ UNCHANGED <<accepted, disk, infos, touched, misread, args>>
      /\ \/ Skip
         \/ /\ disk[File] # NoFile /\ pc' = "open" /\ nxt' = nxt
            /\ job' = [NoJob EXCEPT !.size = Len(disk[File])]
  BY DEF StartFile, diskVars, writeVars, pathVars
<1>2. ~Reading /\ ~Reading'
  BY <1>1 DEF Reading, Skip
<1>3. ASSUME NEW f, Begun(f) PROVE Begun(f)'
  <2>1. CASE Skip
    BY <1>1, <1>3, <2>1, BegunByNext DEF BackupInv, Skip
  <2>2. CASE pc' = "open" /\ nxt' = nxt
    BY <1>1, <1>3, <2>2 DEF Begun
  <2> QED BY <1>1, <2>1, <2>2
<1>4. pc' = "open" => disk[File'] # NoFile /\ job'.size = Len(disk[File']) /\ job'.pos = 0
  BY <1>1 DEF Skip, File, NoJob
<1> QED BY <1>1, <1>2, <1>3, <1>4, AsideStays

LEMMA OpenFileWhole ==
    ASSUME BackupInv, WholeInv, OpenFile
    PROVE  WholeInv'
<1>1. /\ pc = "open" /\ nxt <= Len(args)
      /\ UNCHANGED <<accepted, disk, infos, touched, misread, args>>
      /\ \/ Skip
         \/ /\ disk[File] # NoFile /\ infos[File] # disk[File]
            /\ stream' = disk[File] /\ nxt' = nxt /\ pc' = "read"
            /\ job' = [job EXCEPT !.sum = disk[File]]
  BY DEF OpenFile, BackupInv, JobInv, AtFile, writeVars, pathVars
<1>2. CASE Skip
  <2>1. ~Reading /\ ~Reading' /\ pc' # "open"
    BY <1>1, <1>2 DEF Reading, Skip
  <2>2. \A f : Begun(f) => Begun(f)'
    BY <1>1, <1>2, BegunByNext DEF BackupInv, Skip
  <2> QED BY <1>1, <2>1, <2>2, AsideStays
<1>3. CASE /\ disk[File] # NoFile /\ infos[File] # disk[File]
           /\ stream' = disk[File] /\ nxt' = nxt /\ pc' = "read"
           /\ job' = [job EXCEPT !.sum = disk[File]]
  <2>1. /\ File' = File /\ job'.size = job.size /\ job'.pos = job.pos /\ File \in FHash
        /\ ~Reading /\ Reading'
    BY <1>1, <1>3, FileFacts DEF BackupInv, JobInv, File, Reading
  <2>2. \A f : Begun(f) => Begun(f)'
    BY <1>1, <1>3 DEF Begun
  <2>3. ASSUME NEW f \in FHash \ (touched \cup misread), QueueSz # 0 PROVE Whole(f)'
    <3>1. Whole(f) /\ ~InWork(f)
      BY <1>1, <2>1, <2>3 DEF WholeInv, InWork
    <3>2. CASE f = File
      <4>1. accepted[f] = <<>>
        BY <1>3, <3>1, <3>2 DEF Whole
      <4>2. job.size = Len(disk[f]) /\ job.pos = 0
        BY <1>1, <2>3, <3>2 DEF WholeInv
      <4>3. Cut(accepted[f], disk[f], 0)
        BY <4>1, EmptySeq DEF Cut
      <4>4. Cut(accepted[f], disk[f], job.pos)'
        BY <1>1, <2>1, <4>2, <4>3 DEF Cut, EndOf
      <4> QED BY <1>1, <1>3, <2>1, <3>2, <4>2, <4>4 DEF Whole, InWork
    <3>3. CASE f # File
      <4>1. ~InWork(f)'
        BY <2>1, <3>3 DEF InWork
      <4> QED BY <1>1, <3>1, <4>1, OthersStay
    <3> QED BY <3>2, <3>3
  <2> QED BY <1>1, <1>3, <2>2, <2>3 DEF WholeInv
<1> QED BY <1>1, <1>2, <1>3

(* A block of the file in work is handed in, or nothing when there is no   *)
(* queue.                                                                  *)
LEMMA HandIn ==
    ASSUME BackupInv, WholeInv, pc \in {"read", "again"}, pc' = "read",
           UNCHANGED <<disk, stream, infos, touched, args, nxt>>, job.pos < job.size,
           misread \subseteq misread', NEW d \in Data,
           File \notin touched \cup misread' /\ QueueSz # 0 =>
               d = BytesAt(disk[File], job.pos, BlockLen),
           job'.size = job.size, job'.pos = job.pos + BlockLen,
           EnqueueWrite(BlockRequest(d)) \/ (QueueSz = 0 /\ accepted' = accepted)
    PROVE  WholeInv'
<1> DEFINE r == BlockRequest(d)
<1>1. /\ r \in Request /\ r.fhash = File /\ File \in FHash /\ accepted \in [FHash -> Seq(Request)]
      /\ Begun(File) /\ File' = File
  BY RequestFacts, FileFacts, WorkHasBegun
     DEF BackupInv, JobInv, AtFile, BlockRequest, WInv, QueueInv, File
<1> HIDE DEF r
<1>2. \/ accepted' = [accepted EXCEPT ![File] = Append(accepted[File], r)] /\ QueueSz # 0
      \/ accepted' = accepted /\ QueueSz = 0
  BY <1>1, QueueAssumption DEF EnqueueWrite, r, WInv, QueueInv, BackupInv
<1>3. accepted[File] \in Seq(Request)
  BY <1>1
<1>4. /\ Append(accepted[File], r) # <<>>
      /\ Len(Append(accepted[File], r)) = Len(accepted[File]) + 1
      /\ \A i \in 1..Len(accepted[File]) : Append(accepted[File], r)[i] = accepted[File][i]
      /\ Append(accepted[File], r)[Len(accepted[File]) + 1] = r
  <2> DEFINE q == accepted[File]
  <2>1. q \in Seq(Request)
    BY <1>3
  <2> HIDE DEF q
  <2>2. /\ Append(q, r) # <<>> /\ Len(Append(q, r)) = Len(q) + 1
        /\ \A i \in 1..Len(q) : Append(q, r)[i] = q[i]
        /\ Append(q, r)[Len(q) + 1] = r
    BY <1>1, <2>1, AppendProperties
  <2> QED BY <2>2 DEF q
<1>5. ASSUME NEW f \in FHash, NEW i \in 1..Len(accepted'[f])
      PROVE  accepted'[f][i].fhash = f
  <2>1. CASE accepted'[f] = accepted[f]
    BY <2>1, <1>5 DEF WholeInv
  <2>2. CASE f = File /\ accepted'[f] = Append(accepted[File], r)
    <3>1. Len(accepted[File]) \in Nat
      BY <1>3, LenProperties
    <3>2. i \in 1..Len(accepted[File]) \/ i = Len(accepted[File]) + 1
      BY <1>4, <2>2, <3>1
    <3> QED BY <1>1, <1>4, <2>2, <3>2 DEF WholeInv
  <2> QED BY <1>1, <1>2, <2>1, <2>2
<1>6. ASSUME NEW f \in FHash, accepted'[f] # <<>> PROVE Begun(f)'
  <2>1. Begun(f)
    BY <1>1, <1>2, <1>6 DEF WholeInv
  <2> QED BY <2>1 DEF Begun
<1>7. ASSUME NEW f \in FHash \ (touched \cup misread'), QueueSz # 0 PROVE Whole(f)'
  <2>1. Whole(f) /\ Reading /\ Reading'
    BY <1>7 DEF WholeInv, Reading
  <2>2. CASE f = File
    <3> DEFINE c == disk[File]
               q == accepted[File]
    <3>1. /\ c # NoFile /\ stream = c /\ job.size = Len(c) /\ Cut(q, c, job.pos)
      BY <2>1, <2>2 DEF Whole, InWork
    <3>2. c \in Seq(Byte) /\ q \in Seq(Request) /\ job.pos \in Nat /\ d = BytesAt(c, job.pos, BlockLen)
      BY <1>1, <1>7, <2>2, <3>1 DEF BackupInv, JobInv
    <3>3. q' = Append(q, r) /\ c' = c
      BY <1>1, <1>2, <1>7
    <3> HIDE DEF c, q
    <3>4. /\ r.fpos = job.pos /\ r.data # <<>> /\ EndOf(r) <= Len(c)
          /\ EndOf(r) = job.pos + BlockLen /\ r.data = SubSeq(c, job.pos + 1, EndOf(r))
      BY <3>1, <3>2, NextBlock DEF r, BackupInv, AtFile
    <3>5. Cut(Append(q, r), c, EndOf(r))
      BY <1>1, <3>1, <3>2, <3>4, CutGrows
    <3>6. Cut(q', c', job'.pos)
      BY <3>3, <3>4, <3>5
    <3>7. Cut(q, c, job.pos)'
      BY <3>6 DEF Cut, EndOf
    <3> QED BY <1>1, <2>1, <2>2, <3>1, <3>3, <3>7 DEF Whole, InWork, q, c
  <2>3. CASE f # File
    <3>1. ~InWork(f) /\ ~InWork(f)' /\ accepted'[f] = accepted[f]
      BY <1>1, <1>2, <2>3 DEF InWork
    <3> QED BY <2>1, <3>1, OthersStay
  <2> QED BY <2>2, <2>3
<1> QED BY <1>2, <1>5, <1>6, <1>7 DEF WholeInv

(* The queue is iterated while a file is in work.                          *)
LEMMA DrainWhole ==
    ASSUME BackupInv, WholeInv, pc = "read", pc' \in {"again", "record"}, Drain,
           UNCHANGED <<disk, stream, infos, touched, args, nxt>>, misread \subseteq misread',
           job'.size = job.size, job'.pos = job.pos, pc' = "record" => job.pos >= job.size,
           pc' = "again" /\ File \notin misread' => job'.block = BytesAt(stream, job.pos, BlockLen)
    PROVE  WholeInv'
<1>1. accepted' = accepted /\ wqueue' = <<>>
  BY DrainFacts DEF Drain, IterateWriteQueue, writeVars, pathVars, BackupInv
<1>2. Reading /\ Reading' /\ File' = File /\ BlockLen' = BlockLen
  BY DEF Reading, File, BlockLen
<1>3. ASSUME NEW f \in FHash \ (touched \cup misread'), QueueSz # 0 PROVE Whole(f)'
  <2>1. Whole(f) /\ (InWork(f)' <=> InWork(f))
    BY <1>2, <1>3 DEF WholeInv, InWork
  <2>2. Cut(accepted[f], disk[f], job.pos) => Cut(accepted[f], disk[f], job.pos)'
    BY <1>1 DEF Cut, EndOf
  <2>3. Cut(accepted[f], disk[f], Len(disk[f])) => Cut(accepted[f], disk[f], Len(disk[f]))'
    BY <1>1 DEF Cut, EndOf
  <2> QED BY <1>1, <1>2, <1>3, <2>1, <2>2, <2>3 DEF Whole, InWork, BytesAt
<1>4. \A f : Begun(f) => Begun(f)'
  BY DEF Begun
<1> QED BY <1>1, <1>3, <1>4 DEF WholeInv

LEMMA ReadBlockWhole ==
    ASSUME BackupInv, FaithInv, WholeInv, ReadBlock
    PROVE  WholeInv'
<1>1. PICK d \in Fread(stream, job.pos, BlockLen) :
          /\ NoteRead(d)
          /\ \/ /\ EnqueueWrite(BlockRequest(d)) /\ pc' = pc
                /\ job' = [job EXCEPT !.pos = @ + BlockLen]
             \/ Drain /\ job' = [job EXCEPT !.block = d] /\ pc' = "again"
  BY DEF ReadBlock
<1>2. /\ pc = "read" /\ job.pos < job.size
      /\ UNCHANGED <<disk, stream, infos, touched, args, nxt>>
  BY DEF ReadBlock
<1>3. d \in Data /\ File \in FHash
  BY <1>2, BlockIsData, FileFacts DEF BackupInv, JobInv, AtFile
<1>4. File \notin touched => stream = disk[File]
  BY <1>2, <1>3 DEF FaithInv, Faithful, InWork, Reading
<1>5. /\ misread \subseteq misread'
      /\ File \notin misread' => d = BytesAt(stream, job.pos, BlockLen)
  BY <1>1 DEF NoteRead
<1>6. CASE /\ EnqueueWrite(BlockRequest(d)) /\ pc' = pc
           /\ job' = [job EXCEPT !.pos = @ + BlockLen]
  <2>1. job'.size = job.size /\ job'.pos = job.pos + BlockLen
    BY <1>6 DEF BackupInv, JobInv
  <2>2. File \notin touched \cup misread' /\ QueueSz # 0 =>
            d = BytesAt(disk[File], job.pos, BlockLen)
    BY <1>4, <1>5
  <2> QED BY <1>2, <1>3, <1>5, <1>6, <2>1, <2>2, HandIn
<1>7. CASE Drain /\ job' = [job EXCEPT !.block = d] /\ pc' = "again"
  <2>1. job'.size = job.size /\ job'.pos = job.pos /\ job'.block = d
    BY <1>7 DEF BackupInv, JobInv
  <2> QED BY <1>2, <1>5, <1>7, <2>1, DrainWhole
<1> QED BY <1>1, <1>6, <1>7

LEMMA EnqueueAgainWhole ==
    ASSUME BackupInv, WholeInv, EnqueueAgain
    PROVE  WholeInv'
<1> DEFINE d == job.block
<1>1. /\ pc = "again" /\ pc' = "read"
      /\ UNCHANGED <<disk, stream, infos, touched, misread, args, nxt>>
      /\ IF Len(wqueue) < QueueSz THEN EnqueueWrite(BlockRequest(d)) ELSE UNCHANGED accepted
      /\ job' = [job EXCEPT !.pos = @ + BlockLen, !.block = <<>>]
  BY DEF EnqueueAgain, diskVars, writeVars, pathVars
<1>2. d \in Data /\ File \in FHash /\ job.pos < job.size
  BY <1>1, FileFacts DEF BackupInv, JobInv, AtFile
<1>3. File \notin touched \cup misread /\ QueueSz # 0 =>
          d = BytesAt(disk[File], job.pos, BlockLen)
  BY <1>1, <1>2 DEF WholeInv, Whole, InWork, Reading
<1>4. job'.size = job.size /\ job'.pos = job.pos + BlockLen
  BY <1>1 DEF BackupInv, JobInv
<1>5. wqueue = <<>> /\ Len(<<>>) = 0
  BY <1>1, EmptySeq DEF WholeInv
<1>6. EnqueueWrite(BlockRequest(d)) \/ (QueueSz = 0 /\ accepted' = accepted)
  BY <1>1, <1>5, QueueAssumption
<1> HIDE DEF d
<1> QED BY <1>1, <1>2, <1>3, <1>4, <1>6, HandIn

LEMMA EndOfFileWhole ==
    ASSUME BackupInv, WholeInv, EndOfFile
    PROVE  WholeInv'
BY DrainWhole DEF EndOfFile, diskVars

LEMMA RecordFileWhole ==
    ASSUME BackupInv, FilesInv, WholeInv, RecordFile
    PROVE  WholeInv'
<1>1. /\ pc = "record" /\ pc' = "next" /\ nxt' = nxt + 1 /\ nxt <= Len(args)
      /\ infos' = [infos EXCEPT ![File] = job.sum]
      /\ UNCHANGED <<accepted, disk, touched, misread, args>>
  BY DEF RecordFile, Skip, BackupInv, JobInv, AtFile, diskVars, writeVars, pathVars
<1>2. File \in FHash /\ Reading /\ ~Reading'
  BY <1>1, FileFacts DEF BackupInv, Reading
<1>3. ASSUME NEW f \in FHash \ (touched \cup misread), QueueSz # 0 PROVE Whole(f)'
  <2>1. Whole(f) /\ ~InWork(f)'
    BY <1>1, <1>2, <1>3 DEF WholeInv, InWork
  <2>2. CASE f = File
    <3> DEFINE c == disk[f]
               q == accepted[f]
    <3>1. c # NoFile /\ job.size = Len(c) /\ Cut(q, c, job.pos)
      BY <1>2, <2>1, <2>2 DEF Whole, InWork
    <3>2. job.sum = c /\ DOMAIN infos = FHash
      BY <1>2, <1>3, <2>2 DEF FilesInv
    <3>3. infos'[f] = c
      BY <1>1, <1>2, <2>2, <3>2
    <3>4. /\ q \in Seq(Request) /\ c \in Seq(Byte) /\ job.pos \in Nat /\ Len(c) \in Nat
          /\ job.pos >= job.size
      BY <1>1, <2>2, <1>2, <3>1, LenProperties DEF BackupInv, WInv, QueueInv, JobInv, WholeInv
    <3>5. c' = c /\ q' = q
      BY <1>1
    <3> HIDE DEF c, q
    <3>6. job.pos <= Len(c)
      <4>1. CASE q = <<>>
        BY <3>1, <3>4, <4>1 DEF Cut
      <4>2. CASE q # <<>>
        <5>1. Len(q) \in 1..Len(q)
          BY <3>4, <4>2, EmptySeq
        <5> QED BY <3>1, <4>2, <5>1 DEF Cut
      <4> QED BY <4>1, <4>2
    <3>7. job.pos = Len(c)
      BY <3>1, <3>4, <3>6
    <3>8. Cut(q, c, Len(c))'
      BY <3>1, <3>5, <3>7 DEF Cut, EndOf
    <3> QED BY <2>1, <3>1, <3>3, <3>5, <3>8 DEF Whole, q, c
  <2>3. CASE f # File
    <3>1. ~InWork(f) /\ infos'[f] = infos[f]
      BY <1>1, <2>3 DEF InWork
    <3> QED BY <1>1, <2>1, <3>1, OthersStay
  <2> QED BY <2>2, <2>3
<1>4. \A f : Begun(f) => Begun(f)'
  BY <1>1, BegunByNext DEF BackupInv
<1> QED BY <1>1, <1>3, <1>4 DEF WholeInv

(* The cache stores a block, or does nothing.                              *)
LEMMA AllStays ==
    ASSUME WholeInv, UNCHANGED <<accepted, wqueue, diskVars, progVars, filesdoc>>
    PROVE  WholeInv'
<1>1. \A f : Begun(f) => Begun(f)'
  BY DEF Begun, progVars
<1>2. ASSUME NEW f, Whole(f) PROVE Whole(f)'
  <2>1. /\ UNCHANGED <<disk, stream, infos, job, pc>> /\ (InWork(f)' <=> InWork(f))
        /\ BlockLen' = BlockLen
    BY DEF InWork, Reading, File, BlockLen, diskVars, progVars
  <2>2. \A p : Cut(accepted[f], disk[f], p) => Cut(accepted'[f], disk'[f], p)
    BY <2>1
  <2> QED BY <1>2, <2>1, <2>2 DEF Whole
<1> QED BY <1>1, <1>2 DEF WholeInv, File, diskVars, progVars

LEMMA TerminateWhole ==
    ASSUME BackupInv, WholeInv, Terminate
    PROVE  WholeInv'
<1>1. /\ pc # "terminated" /\ pc' = "terminated"
      /\ UNCHANGED <<accepted, wqueue, diskVars, docVars, args, nxt, job, infos, refused>>
  BY DEF Terminate, writeVars, pathVars
<1>2. \A f : Begun(f) => Begun(f)'
  BY <1>1 DEF Begun
<1>3. CASE filesdoc = NoDoc
  BY <1>1, <1>2, <1>3 DEF WholeInv, docVars
<1>4. CASE filesdoc # NoDoc
  <2>1. ~Reading /\ ~Reading'
    BY <1>1, <1>4 DEF BackupInv, DocsInv, Reading
  <2> QED BY <1>1, <1>2, <2>1, AsideStays DEF diskVars
<1> QED BY <1>3, <1>4

LEMMA ChangeFileWhole ==
    ASSUME BackupInv, WholeInv, NEW f \in FHash, NEW c \in Contents \cup {NoFile}, ChangeFile(f, c)
    PROVE  WholeInv'
<1>1. /\ disk' = [disk EXCEPT ![f] = c] /\ UNCHANGED <<accepted, wqueue, progVars, docVars, misread>>
      /\ touched' = IF Begun(f) THEN touched \cup {f} ELSE touched
      /\ stream' = stream \/ (pc \in {"read", "again"} /\ f = File)
  BY DEF ChangeFile, writeVars, pathVars
<1>2. /\ UNCHANGED <<args, nxt, pc, job, infos, filesdoc>> /\ File' = File /\ BlockLen' = BlockLen
      /\ \A g : (Begun(g)' <=> Begun(g)) /\ (InWork(g)' <=> InWork(g))
      /\ disk \in [FHash -> Seq(Byte) \cup {NoFile}]
  BY <1>1 DEF File, Begun, InWork, Reading, BlockLen, progVars, docVars, BackupInv, JobInv
<1>3. AtFile => Begun(File)
  BY WorkHasBegun DEF BackupInv
<1>4. ASSUME NEW g \in FHash \ (touched' \cup misread), QueueSz # 0, pc # "terminated" \/ filesdoc # NoDoc
      PROVE  Whole(g)'
  <2>1. Whole(g)
    BY <1>1, <1>4 DEF WholeInv
  <2>2. CASE g = f
    <3>1. ~Begun(f) /\ accepted[f] = <<>> /\ ~InWork(f)
      BY <1>1, <1>3, <1>4, <2>2 DEF WholeInv, InWork, Reading, AtFile
    <3> QED BY <1>1, <1>2, <2>2, <3>1 DEF Whole
  <2>3. CASE g # f
    <3>1. disk'[g] = disk[g] /\ (InWork(g) => stream' = stream)
      BY <1>1, <1>2, <2>3 DEF InWork
    <3>2. \A p : Cut(accepted[g], disk[g], p) => Cut(accepted'[g], disk'[g], p)
      BY <1>1, <3>1
    <3> QED BY <1>1, <1>2, <2>1, <3>1, <3>2 DEF Whole
  <2> QED BY <2>2, <2>3
<1>5. pc = "open" /\ File \notin touched' => disk'[File] = disk[File] /\ File \notin touched
  BY <1>1, <1>2, <1>3 DEF AtFile
<1> QED BY <1>1, <1>2, <1>4, <1>5 DEF WholeInv

LEMMA WholeNext ==
    ASSUME BackupInv, FilesInv, FaithInv, WholeInv, [BNext]_vars
    PROVE  WholeInv'
<1>1. CASE RunWriteRequest /\ UNCHANGED <<diskVars, progVars, docVars>>
  BY <1>1, AllStays DEF RunWriteRequest, docVars
<1>2. CASE CloseCache \/ WriteKeys \/ WriteFiles \/ Exit
  <2>1. /\ ~Reading /\ ~Reading' /\ pc' # "open" /\ pc' # "terminated" /\ pc # "terminated"
        /\ pc' # "next" /\ UNCHANGED <<disk, infos, touched, misread, args, nxt>>
    BY <1>2 DEF CloseCache, WriteKeys, WriteFiles, Exit, Reading, diskVars
  <2>2. accepted' = accepted
    BY <1>2 DEF CloseCache, WriteKeys, WriteFiles, Exit, Close, writeVars, pathVars
  <2>3. \A f : Begun(f) => Begun(f)'
    BY <2>1 DEF Begun
  <2> QED BY <2>1, <2>2, <2>3, AsideStays
<1>3. CASE UNCHANGED vars
  BY <1>3, AllStays DEF vars, writeVars, pathVars, docVars
<1> QED BY <1>1, <1>2, <1>3, StartFileWhole, OpenFileWhole, ReadBlockWhole, EnqueueAgainWhole,
           EndOfFileWhole, RecordFileWhole, TerminateWhole, ChangeFileWhole DEF BNext, Program

(* Steps that hand nothing in and do not turn to another file.             *)
LEMMA FaithAside ==
    ASSUME NEW f, Faithful(f), accepted' = accepted, disk'[f] = disk[f],
           InWork(f)' => InWork(f) /\ UNCHANGED <<stream, job>> /\ (pc' = "again" => pc = "again")
    PROVE  Faithful(f)'
<1>1. \A d, p : PartOf(d, disk[f], p) => PartOf(d, disk'[f], p)
  OBVIOUS
<1> QED BY <1>1 DEF Faithful

(* A block is handed in for the file in work.                              *)
LEMMA FaithHandIn ==
    ASSUME BackupInv, AtFile, NEW f \in FHash, Faithful(f), NEW d \in Data, pc' # "again",
           InWork(f), UNCHANGED <<disk, stream>>, PartOf(d, disk[f], job.pos),
           EnqueueWrite(BlockRequest(d))
    PROVE  Faithful(f)'
<1> DEFINE r == BlockRequest(d)
           q == accepted[f]
           c == disk[f]
<1>1. r \in Request /\ q \in Seq(Request) /\ f = File /\ r.fhash = f
  BY RequestFacts DEF BackupInv, WInv, QueueInv, InWork, BlockRequest
<1>2. r.data = d /\ r.fpos = job.pos
  BY DEF BlockRequest
<1> HIDE DEF r
<1>3. accepted'[f] = Append(q, r)
  BY <1>1 DEF EnqueueWrite, BackupInv, WInv, QueueInv, r
<1>4. /\ c # NoFile /\ stream = c /\ \A i \in 1..Len(q) : PartOf(q[i].data, c, q[i].fpos)
      /\ stream' = stream /\ disk'[f] = c
  BY DEF Faithful
<1> HIDE DEF q, c
<1> DEFINE w == Append(q, r)
<1>5. /\ Len(w) = Len(q) + 1 /\ Len(q) \in Nat /\ w[Len(q) + 1] = r
      /\ \A i \in 1..Len(q) : w[i] = q[i]
  BY <1>1, LenProperties, AppendProperties
<1> HIDE DEF w
<1>6. \A i \in 1..Len(w) : i \in 1..Len(q) \/ i = Len(q) + 1
  BY <1>5
<1>7. PartOf(r.data, c, r.fpos)
  BY <1>2 DEF c
<1>8. \A i \in 1..Len(w) : PartOf(w[i].data, c, w[i].fpos)
  BY <1>4, <1>5, <1>6, <1>7
<1> QED BY <1>3, <1>4, <1>8 DEF Faithful, w

(* A block is read, and handed in or kept; or the block that was kept.     *)
LEMMA FaithAtFile ==
    ASSUME BackupInv, FaithInv, NEW f \in FHash \ touched,
           ReadBlock \/ EnqueueAgain \/ EndOfFile
    PROVE  Faithful(f)'
<1> USE DEF BackupInv
<1>1. Faithful(f) /\ Reading /\ UNCHANGED <<disk, stream, args, nxt>> /\ AtFile
  BY DEF FaithInv, ReadBlock, EnqueueAgain, EndOfFile, Reading, AtFile, diskVars
<1>2. Reading' /\ (InWork(f)' <=> InWork(f))
  <2>1. Reading'
    BY DEF ReadBlock, EnqueueAgain, EndOfFile, Reading
  <2> QED BY <1>1, <2>1 DEF InWork, File
<1>3. ASSUME accepted' = accepted, ~InWork(f) PROVE Faithful(f)'
  BY <1>1, <1>2, <1>3, FaithAside
<1>4. ASSUME ~InWork(f), NEW d \in Data, EnqueueWrite(BlockRequest(d)) PROVE Faithful(f)'
  <2>1. accepted'[f] = accepted[f] /\ disk'[f] = disk[f]
    BY <1>1, <1>4 DEF EnqueueWrite, BlockRequest, InWork, WInv, QueueInv
  <2>2. \A i \in 1..Len(accepted[f]) : PartOf(accepted'[f][i].data, disk'[f], accepted'[f][i].fpos)
    BY <1>1, <2>1 DEF Faithful
  <2> QED BY <1>1, <1>2, <1>4, <2>1, <2>2 DEF Faithful
<1>5. CASE ReadBlock
  <2>1. PICK d \in Fread(stream, job.pos, BlockLen) :
            \/ EnqueueWrite(BlockRequest(d)) /\ pc' = pc
            \/ Drain /\ job' = [job EXCEPT !.block = d] /\ pc' = "again"
    BY <1>5 DEF ReadBlock
  <2>2. pc = "read" /\ job.pos < job.size
    BY <1>5 DEF ReadBlock
  <2>3. d \in Data /\ d = BytesAt(stream, job.pos, Len(d))
    BY <2>2, BlockIsData
  <2>4. InWork(f) => PartOf(d, disk[f], job.pos)
    BY <1>1, <2>3 DEF Faithful, PartOf
  <2>5. CASE EnqueueWrite(BlockRequest(d)) /\ pc' = pc
    BY <1>1, <1>4, <2>2, <2>3, <2>4, <2>5, FaithHandIn
  <2>6. CASE Drain /\ job' = [job EXCEPT !.block = d] /\ pc' = "again"
    <3>1. accepted' = accepted /\ job'.block = d /\ job'.pos = job.pos
      BY <2>6 DEF Drain, IterateWriteQueue, writeVars, pathVars, JobInv
    <3>2. CASE InWork(f)
      <4>1. PartOf(job'.block, disk'[f], job'.pos)
        BY <1>1, <2>4, <3>1, <3>2
      <4>2. \A i \in 1..Len(accepted[f]) :
                PartOf(accepted'[f][i].data, disk'[f], accepted'[f][i].fpos)
        BY <1>1, <3>1 DEF Faithful
      <4> QED BY <1>1, <3>1, <3>2, <4>1, <4>2 DEF Faithful
    <3> QED BY <1>3, <3>1, <3>2
  <2> QED BY <2>1, <2>5, <2>6
<1>6. CASE EnqueueAgain
  <2> DEFINE d == job.block
  <2>1. /\ pc = "again" /\ pc' = "read"
        /\ EnqueueWrite(BlockRequest(d)) \/ accepted' = accepted
    BY <1>6 DEF EnqueueAgain, writeVars, pathVars
  <2>2. d \in Data /\ (InWork(f) => PartOf(d, disk[f], job.pos))
    BY <1>1, <2>1 DEF JobInv, Faithful
  <2> HIDE DEF d
  <2>3. CASE EnqueueWrite(BlockRequest(d))
    BY <1>1, <1>4, <2>1, <2>2, <2>3, FaithHandIn
  <2>4. CASE accepted' = accepted
    <3>1. \A i \in 1..Len(accepted[f]) :
              PartOf(accepted'[f][i].data, disk'[f], accepted'[f][i].fpos)
      BY <1>1, <2>4 DEF Faithful
    <3> QED BY <1>1, <1>2, <2>1, <2>4, <3>1 DEF Faithful
  <2> QED BY <2>1, <2>3, <2>4
<1>7. CASE EndOfFile
  <2>1. accepted' = accepted /\ pc' # "again" /\ job' = job
    BY <1>7 DEF EndOfFile, Drain, IterateWriteQueue, writeVars, pathVars
  <2> QED BY <1>1, <1>2, <2>1, FaithAside
<1> QED BY <1>5, <1>6, <1>7

LEMMA FaithNext ==
    ASSUME BackupInv, WholeInv, FaithInv, [BNext]_vars
    PROVE  FaithInv'
<1> USE DEF BackupInv
<1>1. ASSUME ReadBlock \/ EnqueueAgain \/ EndOfFile PROVE FaithInv'
  <2>1. touched' = touched
    BY <1>1 DEF ReadBlock, EnqueueAgain, EndOfFile, diskVars
  <2> QED BY <1>1, <2>1, FaithAtFile DEF FaithInv
<1>2. ASSUME UNCHANGED <<accepted, disk, touched>>, ~Reading' PROVE FaithInv'
  BY <1>2, FaithAside DEF FaithInv, InWork
<1>3. CASE StartFile \/ RecordFile \/ CloseCache \/ WriteKeys \/ WriteFiles \/ Exit \/ Terminate
  <2>1. UNCHANGED <<disk, touched>> /\ ~Reading'
    BY <1>3 DEF StartFile, RecordFile, CloseCache, WriteKeys, WriteFiles, Exit, Terminate, Skip,
                Reading, diskVars
  <2>2. accepted' = accepted
    BY <1>3 DEF StartFile, RecordFile, CloseCache, WriteKeys, WriteFiles, Exit, Terminate, Close,
                writeVars, pathVars
  <2> QED BY <1>2, <2>1, <2>2
<1>4. CASE OpenFile
  <2>1. /\ pc = "open" /\ UNCHANGED <<accepted, disk, touched, args>>
        /\ \/ pc' = "next"
           \/ disk[File] # NoFile /\ stream' = disk[File] /\ nxt' = nxt /\ pc' = "read"
    BY <1>4 DEF OpenFile, Skip, writeVars, pathVars
  <2>2. CASE pc' = "next"
    BY <1>2, <2>1, <2>2 DEF Reading
  <2>3. CASE disk[File] # NoFile /\ stream' = disk[File] /\ nxt' = nxt /\ pc' = "read"
    <3>1. ASSUME NEW f \in FHash \ touched PROVE Faithful(f)'
      <4>1. Faithful(f) /\ (InWork(f)' => f = File)
        BY <2>1, <2>3, <3>1 DEF FaithInv, InWork, File
      <4>2. \A i \in 1..Len(accepted[f]) :
                PartOf(accepted'[f][i].data, disk'[f], accepted'[f][i].fpos)
        BY <2>1, <4>1 DEF Faithful
      <4> QED BY <2>1, <2>3, <4>1, <4>2 DEF Faithful
    <3> QED BY <2>1, <3>1 DEF FaithInv
  <2> QED BY <2>1, <2>2, <2>3
<1>5. ASSUME UNCHANGED <<accepted, diskVars, progVars>> PROVE FaithInv'
  <2>1. \A f : InWork(f)' => InWork(f) /\ UNCHANGED <<stream, job, pc>>
    BY <1>5 DEF InWork, Reading, File, diskVars, progVars
  <2> QED BY <1>5, <2>1, FaithAside DEF FaithInv, diskVars
<1>6. CASE RunWriteRequest /\ UNCHANGED <<diskVars, progVars, docVars>>
  BY <1>5, <1>6 DEF RunWriteRequest
<1>7. CASE UNCHANGED vars
  BY <1>5, <1>7 DEF vars, writeVars, pathVars
<1>8. ASSUME NEW g \in FHash, NEW c \in Contents \cup {NoFile}, ChangeFile(g, c)
      PROVE  FaithInv'
  <2>1. /\ disk' = [disk EXCEPT ![g] = c] /\ UNCHANGED <<accepted, progVars>>
        /\ touched' = IF Begun(g) THEN touched \cup {g} ELSE touched
        /\ stream' = stream \/ g = File
    BY <1>8 DEF ChangeFile, writeVars, pathVars
  <2>2. /\ UNCHANGED <<args, nxt, pc, job>> /\ disk \in [FHash -> Seq(Byte) \cup {NoFile}]
        /\ \A f : InWork(f)' <=> InWork(f)
    BY <2>1 DEF InWork, Reading, File, progVars, JobInv
  <2>3. ASSUME NEW f \in FHash \ touched' PROVE Faithful(f)'
    <3>1. Faithful(f)
      BY <2>1, <2>3 DEF FaithInv
    <3>2. CASE f = g
      <4>1. ~Begun(f) /\ ~InWork(f)
        BY <2>1, <2>3, <3>2, WorkHasBegun DEF InWork, Reading, AtFile
      <4>2. accepted'[f] = <<>> /\ Len(accepted'[f]) = 0
        BY <2>1, <4>1, EmptySeq DEF WholeInv
      <4> QED BY <2>2, <4>1, <4>2 DEF Faithful
    <3>3. CASE f # g
      <4>1. disk'[f] = disk[f] /\ (InWork(f) => stream' = stream)
        BY <2>1, <2>2, <3>3 DEF InWork
      <4> QED BY <2>1, <2>2, <3>1, <4>1, FaithAside
    <3> QED BY <3>2, <3>3
  <2> QED BY <2>3 DEF FaithInv
<1> QED BY <1>1, <1>3, <1>4, <1>6, <1>7, <1>8 DEF BNext, Program

LEMMA RestoreNext == BackupInv /\ FilesInv /\ RestoreInv /\ [BNext]_vars => RestoreInv'
BY AccountsNext, SealedNext, WholeNext, FaithNext DEF RestoreInv

(* With the queue empty, the list of a file says what was handed in of it. *)
LEMMA ListSays ==
    ASSUME BackupInv, RestoreInv, NEW f \in FHash, wqueue = <<>>, wbatch = <<>>
    PROVE  /\ Len(fblockstore[f]) = Len(accepted[f])
           /\ \A i \in 1..Len(accepted[f]) :
                 /\ accepted[f][i] \in Request
                 /\ fblockstore[f][i].filepos = accepted[f][i].fpos
                 /\ accepted[f][i].data = <<>> <=> fblockstore[f][i].blocksize = 0
                 /\ accepted[f][i].data # <<>> =>
                       /\ fblockstore[f][i].bchecksum = accepted[f][i].data
                       /\ fblockstore[f][i].blocksize = Len(accepted[f][i].data)
<1> DEFINE q  == accepted[f]
           bs == fblockstore[f]
<1>1. q \in Seq(Request) /\ bs \in Seq(BlockInfo)
  BY DEF BackupInv, WInv, QueueInv, ArchiveInv, BlockLists
<1>2. StoredOf(f) = Summary(OfFile(q, f))
  <2>1. StoredOf(f) \in Seq(Said) /\ wbatch \o wqueue = <<>>
    BY StoredType, EmptySeq, ConcatEmptySeq DEF BackupInv, WInv, QueueInv, ArchiveInv
  <2>2. Summary(OfFile(wbatch \o wqueue, f)) = <<>>
    BY <2>1, SelectionEmpty DEF Summary
  <2>3. StoredOf(f) \o <<>> = Summary(OfFile(q, f))
    BY <2>2 DEF RestoreInv, AccountInv, Accounted
  <2> QED BY <2>1, <2>3, ConcatEmptySeq
<1>3. OfFile(q, f) = q
  <2>1. ASSUME NEW i \in 1..Len(q) PROVE Selected(q[i], f)
    <3>1. q[i] \in Request /\ q[i].fhash = f
      BY <1>1, ElementOfSeq DEF RestoreInv, WholeInv
    <3>2. Size[q[i].data] \in Nat /\ Size[q[i].data] <= BlockSz
      BY <3>1, DataIsBytes, SizeAssumption DEF Request
    <3>3. Fits(q[i])
      BY <3>2, BlocksAssumption, RoomAssumption, BytesAssumption, SMTT(30)
         DEF Fits, AFree
    <3> QED BY <3>1, <3>3 DEF Selected
  <2> HIDE DEF q
  <2> QED BY <1>1, <2>1, SelectionAll
<1>4. Len(bs) = Len(q) /\ \A i \in 1..Len(q) : /\ bs[i].filepos = q[i].fpos
                                               /\ bs[i].bchecksum = SumOf(q[i].data)
  <2>1. StoredOf(f) = Summary(q)
    BY <1>2, <1>3
  <2>2. Len(StoredOf(f)) = Len(bs) /\ Len(Summary(q)) = Len(q)
    BY <1>1, StoredType, SummaryType DEF BackupInv, WInv, ArchiveInv
  <2>3. Len(bs) = Len(q)
    BY <2>1, <2>2
  <2>4. ASSUME NEW i \in 1..Len(q)
        PROVE  <<bs[i].filepos, bs[i].bchecksum>> = <<q[i].fpos, SumOf(q[i].data)>>
    <3>1. StoredOf(f)[i] = <<bs[i].filepos, bs[i].bchecksum>>
      BY <2>3 DEF StoredOf
    <3>2. Summary(q)[i] = <<q[i].fpos, SumOf(q[i].data)>>
      BY DEF Summary
    <3> QED BY <2>1, <3>1, <3>2
  <2> QED BY <2>3, <2>4
<1>5. ASSUME NEW i \in 1..Len(q)
      PROVE  /\ q[i] \in Request
             /\ q[i].data = <<>> <=> bs[i].blocksize = 0
             /\ q[i].data # <<>> => /\ bs[i].bchecksum = q[i].data
                                    /\ bs[i].blocksize = Len(q[i].data)
  <2>1. q[i] \in Request
    BY <1>1, ElementOfSeq
  <2>2. q[i].data \in Data
    BY <2>1 DEF Request
  <2>3. Size[q[i].data] = Len(q[i].data) /\ (q[i].data = <<>> <=> Len(q[i].data) = 0)
    BY <2>2, DataIsBytes, EmptySeq
  <2>4. Measured(bs[i]) /\ bs[i].bchecksum = SumOf(q[i].data)
    BY <1>4 DEF RestoreInv, AccountInv, ListsNumbered
  <2>5. q[i].data # NoSum
    BY <2>2, NoSumAssumption
  <2> HIDE DEF q, bs
  <2> QED BY <2>1, <2>3, <2>4, <2>5, NoSumAssumption DEF Measured, SumOf
<1> QED BY <1>4, <1>5

(* The blocks of a file that nobody touched hold what it holds.            *)
LEMMA ListIsFaithful ==
    ASSUME BackupInv, RestoreInv, NEW f \in FHash \ touched, wqueue = <<>>, wbatch = <<>>,
           NEW i \in 1..Len(fblockstore[f]), fblockstore[f][i].blocksize # 0
    PROVE  fblockstore[f][i].bchecksum
              = BytesAt(disk[f], fblockstore[f][i].filepos, fblockstore[f][i].blocksize)
<1> DEFINE r == accepted[f][i]
           b == fblockstore[f][i]
<1>1. i \in 1..Len(accepted[f]) /\ b.filepos = r.fpos /\ b.bchecksum = r.data
      /\ b.blocksize = Len(r.data)
  BY ListSays
<1>2. r.data = BytesAt(disk[f], r.fpos, Len(r.data))
  BY <1>1 DEF RestoreInv, FaithInv, Faithful, PartOf
<1> QED BY <1>1, <1>2

(* If no read failed, they describe what is recorded of it.                *)
LEMMA ListIsWhole ==
    ASSUME BackupInv, RestoreInv, NEW f \in FHash \ (touched \cup misread), ~Reading,
           pc # "terminated" \/ filesdoc # NoDoc, wqueue = <<>>, wbatch = <<>>,
           fblockstore[f] # <<>>
    PROVE  /\ Rebuilt(fblockstore[f]) = infos[f]
           /\ \A i \in 1..Len(fblockstore[f]) : fblockstore[f][i].blocksize # 0
<1> DEFINE q  == accepted[f]
           bs == fblockstore[f]
           c  == disk[f]
<1>1. q \in Seq(Request) /\ bs \in Seq(BlockInfo) /\ bs # <<>> /\ Len(bs) \in Nat \ {0}
  <2>1. q \in Seq(Request) /\ bs \in Seq(BlockInfo)
    BY DEF BackupInv, WInv, QueueInv, ArchiveInv, BlockLists
  <2> QED BY <2>1, EmptySeq
<1>2. Len(bs) = Len(q)
  BY ListSays
<1>3. q # <<>>
  BY <1>1, <1>2, EmptySeq
<1>4. QueueSz # 0 /\ Whole(f) /\ ~InWork(f)
  BY <1>3 DEF RestoreInv, WholeInv, InWork
<1>5. c \in Seq(Byte) /\ infos[f] = c /\ Cut(q, c, Len(c))
  BY <1>3, <1>4 DEF Whole, BackupInv, JobInv
<1>6. ASSUME NEW i \in 1..Len(q)
      PROVE  /\ bs[i].blocksize # 0 /\ bs[i].filepos = q[i].fpos
             /\ bs[i].bchecksum = q[i].data
  <2>1. q[i].data # <<>>
    BY <1>5 DEF Cut
  <2> QED BY <2>1, ListSays
<1> HIDE DEF q, bs, c
<1>7. Rebuilt(bs) = SubSeq(c, 1, Len(c))
  BY <1>1, <1>2, <1>5, <1>6, RebuiltFromCut
<1>8. SubSeq(c, 1, Len(c)) = c
  BY <1>5, SubSeqFull
<1> QED BY <1>2, <1>5, <1>6, <1>7, <1>8 DEF bs

(* Without failures every block that has a length lies in an assembly that *)
(* has a key, once the cache is closed.                                    *)
LEMMA KeysComplete ==
    ASSUME WInv, Failures = 0, writeenv # NullEnv => writeenv.aid = NoAid,
           NEW f \in FHash, NEW i \in 1..Len(fblockstore[f]), fblockstore[f][i].blocksize # 0
    PROVE  fblockstore[f][i].blockaid \in keystore
<1> DEFINE a == fblockstore[f][i].blockaid
<1>1. a \in 1..Len(content) /\ \E j \in 1..Len(content[a]) : TRUE
  BY DEF WInv, ArchiveInv, Locatable, Located
<1>2. content[a] # <<>>
  BY <1>1, EmptySeq
<1>3. writeenv # NullEnv
  BY <1>1, EmptySeq DEF WInv, EnvInv
<1>4. /\ writeenv.aid = NoAid /\ writeenv.n_failed = 0
      /\ writeenv.n_failed = Cardinality(KeylessOf(content, NoAid, keystore))
  BY <1>3 DEF Failures, WInv, EnvInv
<1>5. KeylessOf(content, NoAid, keystore) = {}
  <2>1. Len(content) \in Nat
    BY LenProperties DEF WInv, ArchiveInv
  <2> QED BY <1>4, <2>1, KeylessFinite, FS_EmptySet
<1> QED BY <1>1, <1>2, <1>5 DEF KeylessOf, NoAid

-----------------------------------------------------------------------------
(* Theorems                                                                *)

(* The invariant holds of every state that LXRbackup can reach.            *)
THEOREM BackupInvariance == BSpec => []BackupInv
<1>1. BInit => BackupInv
  BY BackupInitInv
<1>2. BackupInv /\ [BNext]_vars => BackupInv'
  BY BackupNextInv
<1> QED BY <1>1, <1>2, PTL DEF BSpec

(* The documents are written when the cache is closed and its queue is     *)
(* empty, and hold all that the stores ever will.                          *)
THEOREM DocumentsAreComplete == BSpec => []DocumentsComplete
<1>1. BackupInv => DocumentsComplete
  BY DEF BackupInv, DocsInv
<1> QED BY <1>1, BackupInvariance, PTL

(* A file that was reached, could be opened and was left alone by others   *)
(* since is recorded with the checksum of its content, also if it was named*)
(* twice or known from a reference (file_backup, deduplication level 1).   *)
THEOREM RecordedStaysCurrent == BSpec => []RecordedIsCurrent
<1>1. BInit => BackupInv /\ FilesInv
  BY BackupInitInv, FilesInitInv
<1>2. BackupInv /\ FilesInv /\ [BNext]_vars => BackupInv' /\ FilesInv'
  BY BackupNextInv, FilesNextInv
<1>3. BackupInv /\ FilesInv => RecordedIsCurrent
  <2> SUFFICES ASSUME BackupInv, FilesInv, AtEnd, NEW i \in 1..Len(args)
               PROVE  Current(args[i])
    BY DEF RecordedIsCurrent, Current, AtEnd
  <2>1. i < nxt
    BY LenProperties DEF BackupInv, JobInv, FilesInv
  <2> QED BY <2>1 DEF FilesInv
<1> QED BY <1>1, <1>2, <1>3, PTL DEF BSpec

(* Exit status 0 means that the document of the keys opens every assembly  *)
(* that the document of the files has a block in, whatever was changed     *)
(* meanwhile: this is what counting failures is for (n_assembly_failed,    *)
(* close, output_key_store, output_fblock_store and the end of main).      *)
KeysSuffice ==
    status = 0 /\ pc = "done" =>
        \A f \in FHash : \A i \in 1..Len(filesdoc.blocks[f]) :
            LET bi == filesdoc.blocks[f][i]
            IN  bi.blocksize > 0 => bi.blockaid \in keysdoc

THEOREM StatusZeroMeansKeys == BSpec => []KeysSuffice
<1>1. BackupInv => KeysSuffice
  <2> SUFFICES ASSUME BackupInv, status = 0, pc = "done", NEW f \in FHash,
                      NEW i \in 1..Len(fblockstore[f]), fblockstore[f][i].blocksize > 0
               PROVE  fblockstore[f][i].blockaid \in keystore
    BY DEF BackupInv, DocsInv, KeysSuffice
  <2> QED BY KeysComplete DEF BackupInv, QuietInv, AtEnd, DocsInv
<1> QED BY <1>1, BackupInvariance, PTL

(* With exit status 0, and also after a termination once both documents    *)
(* were written, what they say of a file that was not touched since its    *)
(* backup began is so: the blocks hold what it holds, and if no read of it *)
(* failed they make up the file (file_backup, the queue, close, main).     *)
THEOREM DocumentsRestore == BSpec => []Restorable
<1>1. BInit => BackupInv /\ FilesInv /\ RestoreInv
  BY BackupInitInv, FilesInitInv, RestoreInitInv
<1>2. BackupInv /\ FilesInv /\ RestoreInv /\ [BNext]_vars
        => BackupInv' /\ FilesInv' /\ RestoreInv'
  BY BackupNextInv, FilesNextInv, RestoreNext
<1>3. BackupInv /\ FilesInv /\ RestoreInv => Restorable
  <2> SUFFICES ASSUME BackupInv, RestoreInv, status = 0,
                      pc = "done" \/ (pc = "terminated" /\ filesdoc # NoDoc /\ Failures = 0)
               PROVE  Restorable
    BY DEF Restorable
  <2>1. /\ filesdoc = [infos |-> infos, blocks |-> fblockstore]
        /\ Failures = 0 /\ wqueue = <<>> /\ wbatch = <<>>
        /\ writeenv # NullEnv => writeenv.aid = NoAid
        /\ keysdoc = keystore /\ ~Reading
        /\ pc # "terminated" \/ filesdoc # NoDoc
    BY DEF BackupInv, DocsInv, DocumentsComplete, QuietInv, AtEnd, Reading, RestoreInv, Sealed
  <2>2. filesdoc.infos = infos /\ filesdoc.blocks = fblockstore
    BY <2>1
  <2>3. ASSUME NEW f \in FHash \ touched, NEW i \in 1..Len(fblockstore[f])
        PROVE  LET bi == fblockstore[f][i]
               IN  IF bi.blocksize > 0
                   THEN /\ bi.blockaid \in keystore
                        /\ bi.bchecksum = BytesAt(disk[f], bi.filepos, bi.blocksize)
                   ELSE f \in misread
    <3>1. fblockstore[f] \in Seq(BlockInfo)
      BY DEF BackupInv, WInv, ArchiveInv, BlockLists
    <3>2. fblockstore[f] # <<>> /\ fblockstore[f][i] \in BlockInfo
      BY <3>1, EmptySeq, ElementOfSeq
    <3>3. fblockstore[f][i].blocksize \in Nat
      BY <3>2 DEF BlockInfo
    <3>4. CASE fblockstore[f][i].blocksize = 0
      BY <2>1, <3>2, <3>4, ListIsWhole
    <3>5. CASE fblockstore[f][i].blocksize # 0
      BY <2>1, <3>3, <3>5, KeysComplete, ListIsFaithful DEF BackupInv
    <3> QED BY <3>4, <3>5
  <2>4. ASSUME NEW f \in FHash \ touched, f \notin misread, fblockstore[f] # <<>>
        PROVE  Rebuilt(fblockstore[f]) = infos[f]
    BY <2>1, <2>4, ListIsWhole
  <2> QED BY <2>1, <2>2, <2>3, <2>4 DEF Restorable
<1> QED BY <1>1, <1>2, <1>3, PTL DEF BSpec
=============================================================================
