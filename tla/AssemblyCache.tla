----------------------------- MODULE AssemblyCache -----------------------------
(***************************************************************************)
(* CoqAssemblyCache as a whole, used by several threads.  Any thread may   *)
(* enqueue requests; one thread works them off, flushes and closes, since  *)
(* the write environment and the stores are not guarded.  The halves share *)
(* the key store and the chunk storage.                                    *)
(*                                                                         *)
(* Requests are tested against the size of the queue before the mutex is   *)
(* taken, and enqueued under it: two steps.  A test that meets a change of *)
(* the vector (a data race) sees its size before or after the change, or,  *)
(* while the elements are moved, one that is too large, which refuses the  *)
(* request: a stutter here, as every refused request.                      *)
(***************************************************************************)
EXTENDS WritePath, ReadPath

CONSTANTS Readers      \* threads that enqueue read requests

ASSUME ThreadsAssumption ==
    /\ IsFiniteSet(FHash) /\ FHash # {}
    /\ IsFiniteSet(Readers) /\ Readers # {}

VARIABLES wpassed,     \* what each writing thread will enqueue: it passed the test
          rpassed      \* the same of each reading thread

passedVars == <<wpassed, rpassed>>
cacheVars  == <<archiveVars, pathVars, envVars, passedVars>>

(* Each file is handed in by a thread of its own.                          *)
Writers == FHash

Init == /\ WInit /\ REmpty
        /\ wpassed = [t \in Writers |-> <<>>]
        /\ rpassed = [t \in Readers |-> <<>>]

-----------------------------------------------------------------------------
(* enqueue_write_request: the test, and what is done under the lock.  The  *)
(* worker holds that lock only while it takes the queue over.              *)
TestWriteUnbounded(t, d) ==           \* mutant: the size is not tested
    /\ wpassed[t] = <<>>
    /\ wpassed' = [wpassed EXCEPT ![t] =
                      <<[fhash |-> t, fpos |-> Len(accepted[t]), data |-> d]>>]
    /\ UNCHANGED <<archiveVars, pathVars, envVars, rpassed>>

TestWrite(t, d) ==
    /\ wpassed[t] = <<>>
    /\ Len(wqueue) < QueueSz
    /\ wpassed' = [wpassed EXCEPT ![t] =
                      <<[fhash |-> t, fpos |-> Len(accepted[t]), data |-> d]>>]
    /\ UNCHANGED <<archiveVars, pathVars, envVars, rpassed>>

PushWrite(t) ==
    /\ wpassed[t] # <<>>
    /\ wqueue' = wqueue \o wpassed[t]
    /\ accepted' = [accepted EXCEPT ![t] = @ \o wpassed[t]]
    /\ wpassed' = [wpassed EXCEPT ![t] = <<>>]
    /\ UNCHANGED <<archiveVars, writeenv, wbatch, closed, crashed, envVars, rpassed>>

(* enqueue_read_request: the worker holds the lock until the whole batch   *)
(* is run.                                                                 *)
TestRead(t, bi) ==
    /\ rpassed[t] = <<>>
    /\ Len(rqueue) < ReadQueueSz
    /\ rpassed' = [rpassed EXCEPT ![t] = <<bi>>]
    /\ UNCHANGED <<archiveVars, pathVars, envVars, wpassed>>

PushRead(t) ==
    /\ rpassed[t] # <<>> /\ RIdle
    /\ rqueue' = rqueue \o rpassed[t]
    /\ rpassed' = [rpassed EXCEPT ![t] = <<>>]
    /\ UNCHANGED <<archiveVars, pathVars, readenvs, rbatch, taken, results, since, wpassed>>

(* The worker, one call at a time; a write queue that it finds empty       *)
(* because it meets a change is left for the next call.                    *)
Work ==
    \/ /\ RIdle
       /\ \/ IterateWriteQueue
          \/ RunWriteRequest
          \/ Len(content) < MaxAssemblies /\ \E out \in Outcome : Flush(out)
          \/ \E out \in Outcome : Close(out)
       /\ UNCHANGED <<envVars, passedVars>>
    \/ /\ WIdle
       /\ IterateReadQueue \/ RunReadRequest
       /\ UNCHANGED <<pathVars, passedVars>>

Next ==
    \/ \E t \in Writers, d \in Data : Len(accepted[t]) < MaxRequests /\ TestWrite(t, d)
    \/ \E t \in Writers : PushWrite(t)
    \/ \E t \in Readers, bi \in Stored : Len(rqueue) < MaxReads /\ TestRead(t, bi)
    \/ \E t \in Readers : PushRead(t)
    \/ Work
    \/ \E a \in Aids : LoseChunk(a) /\ UNCHANGED <<pathVars, envVars, passedVars>>

Spec == Init /\ [][Next]_cacheVars

-----------------------------------------------------------------------------
(* Properties                                                              *)

(* However the tests of the threads fall, a queue is never longer than its *)
(* depth and one request more for each thread but one.                     *)
Passed(p) == {t \in DOMAIN p : p[t] # <<>>}

OverrunIsBounded ==
    /\ Len(wqueue) + Cardinality(Passed(wpassed)) <= QueueSz + Cardinality(Writers) - 1
    /\ Len(rqueue) + Cardinality(Passed(rpassed)) <= ReadQueueSz + Cardinality(Readers) - 1

(* A read environment holds an assembly that was finalised: never the one  *)
(* that is being written, whose blocks are already in the block lists.     *)
OnlySealedIsRead ==
    \A i \in 1..Len(readenvs) :
        /\ readenvs[i] \in keystore
        /\ writeenv # NullEnv => readenvs[i] # writeenv.aid
=============================================================================
