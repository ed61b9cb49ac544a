------------------------------ MODULE WritePath -------------------------------
(***************************************************************************)
(* The writing half of CoqAssemblyCache (src/cpp/coqassemblycache.cpp) and *)
(* CoqEnvironmentWritable (src/cpp/coqenvironment.cpp): requests wait in a *)
(* queue of bounded size; iterating it stores their blocks in the current  *)
(* assembly, which is finalised when a block does not fit any more.        *)
(*                                                                         *)
(* The program runs the requests of a batch in one loop.  Here each turn   *)
(* of the loop is a step, and the caller's operations wait for its end.    *)
(***************************************************************************)
EXTENDS Archive

CONSTANTS QueueSz,       \* n_queuesz, the depth of the queues
          NullEnv,       \* _writeenv before the first request
          MaxRequests,   \* bound: accepted requests
          MaxAssemblies  \* bound: flushes stop at this number of assemblies

ASSUME QueueAssumption == QueueSz \in Nat
ASSUME NullEnvAssumption == NullEnv \notin [aid : Nat, apos : Nat, n_failed : Nat]

VARIABLES writeenv,      \* _writeenv: its assembly (NoAid if none), apos, n_failed
          wqueue,        \* _writequeue
          wbatch,        \* the requests that run_write_requests still has to run
          accepted,      \* history: the requests taken over for each file
          closed,        \* history: close was called
          crashed        \* a null environment was used

pathVars  == <<writeenv, wqueue, wbatch, accepted, closed, crashed>>
writeVars == <<archiveVars, pathVars>>

Request == [fhash : FHash, fpos : Nat, data : Data]

(* How writing an assembly to its chunk files ends: every file complete;   *)
(* some written short, which goes unnoticed; or cipher, path or file       *)
(* refused, which is counted as a failure.                                 *)
Outcome == {"whole", "short", "failed"}

-----------------------------------------------------------------------------
(* CoqEnvironmentWritable                                                  *)

HoldsData(e) == e.aid # NoAid /\ e.apos > HeaderLen

(* finalise_assembly, and the key goes to the key store.                   *)
Finalise(out) ==
    IF HoldsData(writeenv)
    THEN /\ intact' = IF out = "whole" THEN intact \cup {writeenv.aid} ELSE intact
         /\ keystore' = IF out = "failed" THEN keystore
                                          ELSE keystore \cup {writeenv.aid}
    ELSE UNCHANGED <<intact, keystore>>

(* The number of failures after finalise_assembly.                         *)
FailedAfter(out) ==
    writeenv.n_failed + (IF HoldsData(writeenv) /\ out = "failed" THEN 1 ELSE 0)

(* The environment after recreate_assembly: an empty assembly of a new aid.*)
RecreatedSame(n) ==                   \* mutant: the aid of the last assembly again
    [aid |-> Len(content), apos |-> HeaderLen, n_failed |-> n]

Recreated(n) == [aid |-> Len(content) + 1, apos |-> HeaderLen, n_failed |-> n]

WithNewAssembly == Append(content, <<>>)

(* CoqAssemblyPlainWritable::backup of request r into the assembly of e;   *)
(* cs are the contents of the assemblies.  An empty buffer has no checksum *)
(* and yields a default block information.                                 *)
StoreReportingEnd(e, cs, r) ==        \* mutant: reports the position behind the block
    LET len == Size[r.data]
        bi  == [blockid |-> 1, filepos |-> r.fpos, blockaid |-> e.aid,
                blockapos |-> e.apos + len, blocksize |-> len, bchecksum |-> r.data]
    IN  /\ content' = [cs EXCEPT ![e.aid] =
                          Append(@, [apos |-> e.apos, len |-> len, data |-> r.data])]
        /\ fblockstore' = Add(fblockstore, r.fhash, bi)
        /\ writeenv' = [e EXCEPT !.apos = @ + len]

Store(e, cs, r) ==
    LET len  == Size[r.data]
        bi   == [blockid |-> 1, filepos |-> r.fpos, blockaid |-> e.aid,
                 blockapos |-> e.apos, blocksize |-> len, bchecksum |-> r.data]
        none == [blockid |-> 1, filepos |-> r.fpos, blockaid |-> NoAid,
                 blockapos |-> 0, blocksize |-> 0, bchecksum |-> NoSum]
    IN  IF len = 0
        THEN /\ content' = cs /\ writeenv' = e
             /\ fblockstore' = Add(fblockstore, r.fhash, none)
        ELSE /\ content' = [cs EXCEPT ![e.aid] =
                               Append(@, [apos |-> e.apos, len |-> len, data |-> r.data])]
             /\ fblockstore' = Add(fblockstore, r.fhash, bi)
             /\ writeenv' = [e EXCEPT !.apos = @ + len]

-----------------------------------------------------------------------------
(* CoqAssemblyCache, writing                                               *)

WIdle == wbatch = <<>> /\ ~crashed

(* enqueue_write_request; when the queue is full it refuses and nothing    *)
(* changes.                                                                *)
EnqueueWrite(r) ==
    /\ WIdle
    /\ Len(wqueue) < QueueSz
    /\ wqueue' = Append(wqueue, r)
    /\ accepted' = [accepted EXCEPT ![r.fhash] = Append(@, r)]
    /\ UNCHANGED <<archiveVars, writeenv, wbatch, closed, crashed>>

(* iterate_write_queue takes the queue over; the first request ever opens  *)
(* the environment.                                                        *)
IterateWriteQueue ==
    /\ WIdle
    /\ wqueue # <<>>
    /\ wbatch' = wqueue
    /\ wqueue' = <<>>
    /\ IF writeenv = NullEnv
       THEN writeenv' = Recreated(0) /\ content' = WithNewAssembly
       ELSE UNCHANGED <<writeenv, content>>
    /\ UNCHANGED <<intact, keystore, badkeys, fblockstore, accepted, closed, crashed>>

(* A request whose block fits into the current assembly.                   *)
WriteToCurrent(r) ==
    /\ writeenv.aid # NoAid
    /\ Size[r.data] <= AFree(writeenv.apos)
    /\ Store(writeenv, content, r)
    /\ UNCHANGED <<intact, keystore>>

(* Otherwise the assembly is finalised and the block goes as a whole into  *)
(* a new one; a block that does not fit there either is dropped.           *)
WriteToNextSilently(r, out) ==        \* mutant: a failed assembly is not counted
    /\ writeenv.aid # NoAid
    /\ Size[r.data] > AFree(writeenv.apos)
    /\ Finalise(out)
    /\ LET e == Recreated(writeenv.n_failed)
       IN  IF Size[r.data] <= AFree(HeaderLen)
           THEN Store(e, WithNewAssembly, r)
           ELSE /\ writeenv' = e /\ content' = WithNewAssembly
                /\ UNCHANGED fblockstore

WriteToNext(r, out) ==
    /\ writeenv.aid # NoAid
    /\ Size[r.data] > AFree(writeenv.apos)
    /\ Finalise(out)
    /\ LET e == Recreated(FailedAfter(out))
       IN  IF Size[r.data] <= AFree(HeaderLen)
           THEN Store(e, WithNewAssembly, r)
           ELSE /\ writeenv' = e /\ content' = WithNewAssembly
                /\ UNCHANGED fblockstore

(* After close there is no assembly, and backup returns nothing.           *)
WriteRefused ==
    /\ writeenv.aid = NoAid
    /\ UNCHANGED <<writeenv, content, intact, keystore, fblockstore>>

(* The next turn of the loop in run_write_requests.                        *)
RunWriteRequestClearing ==            \* mutant: the queue is cleared when the batch is run
    /\ wbatch # <<>>
    /\ \/ WriteToCurrent(Head(wbatch))
       \/ \E out \in Outcome : WriteToNext(Head(wbatch), out)
       \/ WriteRefused
    /\ wbatch' = Tail(wbatch)
    /\ wqueue' = IF Len(wbatch) = 1 THEN <<>> ELSE wqueue
    /\ UNCHANGED <<badkeys, accepted, closed, crashed>>

RunWriteRequest ==
    /\ wbatch # <<>>
    /\ \/ WriteToCurrent(Head(wbatch))
       \/ \E out \in Outcome : WriteToNext(Head(wbatch), out)
       \/ WriteRefused
    /\ wbatch' = Tail(wbatch)
    /\ UNCHANGED <<badkeys, wqueue, accepted, closed, crashed>>

(* flush without an environment calls a member of a null pointer.          *)
FlushKeepingAssembly(out) ==          \* mutant: finalised, but not recreated
    /\ WIdle
    /\ writeenv # NullEnv
    /\ Finalise(out)
    /\ writeenv' = [writeenv EXCEPT !.n_failed = FailedAfter(out)]
    /\ UNCHANGED <<content, badkeys, fblockstore, wqueue, wbatch, accepted, closed, crashed>>

Flush(out) ==
    /\ WIdle
    /\ IF writeenv = NullEnv
       THEN crashed' = TRUE /\ UNCHANGED <<writeenv, content, intact, keystore>>
       ELSE /\ Finalise(out)
            /\ writeenv' = Recreated(FailedAfter(out))
            /\ content' = WithNewAssembly
            /\ UNCHANGED crashed
    /\ UNCHANGED <<badkeys, fblockstore, wqueue, wbatch, accepted, closed>>

(* close finalises the assembly; the environment stays, without assembly.  *)
Close(out) ==
    /\ WIdle
    /\ closed' = TRUE
    /\ IF writeenv = NullEnv
       THEN UNCHANGED <<writeenv, intact, keystore>>
       ELSE /\ Finalise(out)
            /\ writeenv' = [aid |-> NoAid, apos |-> 0, n_failed |-> FailedAfter(out)]
    /\ UNCHANGED <<content, badkeys, fblockstore, wqueue, wbatch, accepted, crashed>>

-----------------------------------------------------------------------------
(* A caller that hands in the blocks of each file in order                 *)

WInit ==
    /\ content = <<>> /\ intact = {} /\ keystore = {} /\ badkeys = {}
    /\ fblockstore = [fh \in FHash |-> <<>>]
    /\ writeenv = NullEnv /\ wqueue = <<>> /\ wbatch = <<>>
    /\ accepted = [fh \in FHash |-> <<>>]
    /\ closed = FALSE /\ crashed = FALSE

WNext ==
    \/ \E fh \in FHash, d \in Data :
          /\ Len(accepted[fh]) < MaxRequests
          /\ EnqueueWrite([fhash |-> fh, fpos |-> Len(accepted[fh]), data |-> d])
    \/ IterateWriteQueue
    \/ RunWriteRequest
    \/ Len(content) < MaxAssemblies /\ \E out \in Outcome : Flush(out)
    \/ \E out \in Outcome : Close(out)

WSpec == WInit /\ [][WNext]_writeVars

-----------------------------------------------------------------------------
(* Properties                                                              *)

(* The values the variables range over; while requests are run there is an *)
(* environment, and its assembly is the newest one.                        *)
WTypeOK ==
    /\ ArchiveTypeOK
    /\ \/ writeenv = NullEnv
       \/ /\ writeenv \in [aid : {NoAid, Len(content)}, apos : Nat, n_failed : Nat]
          /\ writeenv.aid # NoAid => writeenv.aid \in Aids
    /\ wbatch # <<>> => writeenv # NullEnv
    /\ wqueue \in Seq(Request) /\ Len(wqueue) <= QueueSz
    /\ wbatch \in Seq(Request)
    /\ accepted \in [FHash -> Seq(Request)]
    /\ closed \in BOOLEAN /\ crashed \in BOOLEAN

(* The metric n_assembly_failed, which decides the exit status of          *)
(* LXRbackup, is exactly the number of assemblies that hold data, are not  *)
(* being written any more, and have no key: blocks that can never be       *)
(* restored are always reported (finalise_assembly, backup, flush, close). *)
Keyless == {a \in Aids : content[a] # <<>> /\ a # writeenv.aid /\ a \notin keystore}

FailedIsCounted ==
    writeenv # NullEnv => writeenv.n_failed = Cardinality(Keyless)

(* Unless close was called, no request gets lost or overtakes another: the *)
(* block list of a file, followed by its requests that still wait, is what *)
(* was accepted for it, in order and numbered from 1, except the blocks    *)
(* that fit into no assembly (enqueue, iterate, run, FBlockStore::add).    *)
Fits(r) == Size[r.data] <= AFree(HeaderLen)

SumOf(d) == IF Size[d] = 0 THEN NoSum ELSE d

OfFile(q, fh) ==
    LET of[i \in 0..Len(q)] ==
            IF i = 0 THEN <<>>
            ELSE IF q[i].fhash = fh /\ Fits(q[i]) THEN Append(of[i-1], q[i])
            ELSE of[i-1]
    IN  of[Len(q)]

Summary(q) == [i \in 1..Len(q) |-> <<q[i].fpos, SumOf(q[i].data)>>]

StoredOf(fh) == [i \in 1..Len(fblockstore[fh]) |->
                    <<fblockstore[fh][i].filepos, fblockstore[fh][i].bchecksum>>]

NothingLost ==
    ~closed => \A fh \in FHash :
        /\ StoredOf(fh) \o Summary(OfFile(wbatch \o wqueue, fh))
              = Summary(OfFile(accepted[fh], fh))
        /\ \A i \in 1..Len(fblockstore[fh]) : fblockstore[fh][i].blockid = i

(* Once its key is in the key store nothing is put into an assembly any    *)
(* more, nor is its key taken away.                                        *)
SealedIsFinal ==
    [][/\ \A a \in keystore : content'[a] = content[a]
       /\ keystore \subseteq keystore']_writeVars
=============================================================================
