------------------------------- MODULE ReadPath -------------------------------
(***************************************************************************)
(* The reading half of CoqAssemblyCache (src/cpp/coqassemblycache.cpp):    *)
(* requests for blocks wait in a queue; iterating it restores the assembly *)
(* of each request into one of n_readenvs environments, the most recently  *)
(* used one in front, and takes the block from it.                         *)
(*                                                                         *)
(* The requests of a batch are run in one loop.  Here each turn of the     *)
(* loop is a step, and the caller's operations wait for its end.           *)
(***************************************************************************)
EXTENDS Archive

CONSTANTS ReadQueueSz,   \* n_queuesz, the depth of the queues
          NReadEnvs,     \* n_readenvs, the number of read environments
          NoData         \* nullptr, the result for a block that cannot be restored

ASSUME ReadQueueAssumption == ReadQueueSz \in Nat /\ NReadEnvs \in Nat
ASSUME NoDataAssumption == NoData \notin Data

VARIABLES readenvs,      \* aids of _readenvs, from the front
          rqueue,        \* _readqueue
          rbatch,        \* the requests that run_read_requests still has to run
          taken,         \* history: the batch these are the end of
          results,       \* the results of that batch so far
          since          \* history: for each assembly used, those used after its last use

envVars  == <<readenvs, rqueue, rbatch, taken, results, since>>
readVars == <<archiveVars, envVars>>

RIdle == rbatch = <<>>

EnvRoom == IF NReadEnvs = 0 THEN 1 ELSE NReadEnvs

Cached(a) == \E i \in 1..Len(readenvs) : readenvs[i] = a

-----------------------------------------------------------------------------
(* enqueue_read_request; when the queue is full it refuses and nothing     *)
(* changes.                                                                *)
EnqueueRead(bi) ==
    /\ RIdle
    /\ Len(rqueue) < ReadQueueSz
    /\ rqueue' = Append(rqueue, bi)
    /\ UNCHANGED <<archiveVars, readenvs, rbatch, taken, results, since>>

(* iterate_read_queue takes the queue over.                                *)
IterateReadQueue ==
    /\ RIdle
    /\ rqueue # <<>>
    /\ rbatch' = rqueue
    /\ taken' = rqueue
    /\ results' = <<>>
    /\ rqueue' = <<>>
    /\ UNCHANGED <<archiveVars, readenvs, since>>

(* CoqAssemblyPlainFull::restore: nothing for an empty block or a block    *)
(* whose checksum differs from the one of the request.                     *)
RestoreUnchecked(a, bi) ==          \* mutant: the checksum is not compared
    LET found == {i \in 1..Len(content[a]) : content[a][i].apos = bi.blockapos}
    IN  IF found = {} THEN NoData ELSE content[a][CHOOSE i \in found : TRUE].data

Restore(a, bi) ==
    IF \E i \in 1..Len(content[a]) : Describes(bi, content[a][i])
    THEN bi.bchecksum
    ELSE NoData

(* The assembly of the request is in an environment, which moves to the    *)
(* front.                                                                  *)
HitInPlace(a) ==                    \* mutant: it stays where it is
    Cached(a) /\ UNCHANGED readenvs

Hit(a) ==
    \E i \in 1..Len(readenvs) :
        /\ readenvs[i] = a
        /\ \A j \in 1..i-1 : readenvs[j] # a
        /\ readenvs' = <<a>> \o SubSeq(readenvs, 1, i-1)
                             \o SubSeq(readenvs, i+1, Len(readenvs))

(* Otherwise it is restored into a new environment in front; the last one  *)
(* gives way when their number is reached.                                 *)
MissNeverEvicting(a) ==             \* mutant: none gives way
    /\ ~Cached(a)
    /\ CanRestore(a)
    /\ readenvs' = <<a>> \o readenvs

Miss(a) ==
    /\ ~Cached(a)
    /\ CanRestore(a)
    /\ readenvs' = IF Len(readenvs) >= NReadEnvs /\ readenvs # <<>>
                   THEN <<a>> \o SubSeq(readenvs, 1, Len(readenvs) - 1)
                   ELSE <<a>> \o readenvs

(* The history of use: assembly a is used now.                             *)
Used(a) ==
    [x \in DOMAIN since \cup {a} |-> IF x = a THEN {} ELSE since[x] \cup {a}]

(* A request whose assembly is at hand has a result, maybe without data.   *)
ServeRequest ==
    LET bi == Head(rbatch)
    IN  /\ Hit(bi.blockaid) \/ Miss(bi.blockaid)
        /\ since' = Used(bi.blockaid)
        /\ results' = Append(results, [request |-> bi, data |-> Restore(bi.blockaid, bi)])
        /\ rbatch' = Tail(rbatch)

(* The first assembly that cannot be restored ends the batch.              *)
SkipRequest ==                      \* mutant: goes on with the next request
    /\ ~Cached(Head(rbatch).blockaid)
    /\ ~CanRestore(Head(rbatch).blockaid)
    /\ rbatch' = Tail(rbatch)
    /\ UNCHANGED <<readenvs, results, since>>

StopBatch ==
    /\ ~Cached(Head(rbatch).blockaid)
    /\ ~CanRestore(Head(rbatch).blockaid)
    /\ rbatch' = <<>>
    /\ UNCHANGED <<readenvs, results, since>>

(* The next turn of the loop in run_read_requests.                         *)
RunReadRequest ==
    /\ rbatch # <<>>
    /\ ServeRequest \/ StopBatch
    /\ UNCHANGED <<archiveVars, rqueue, taken>>

-----------------------------------------------------------------------------
(* A caller that asks for blocks, as stored or with another checksum       *)

CONSTANTS Archives,      \* the archives that may be there to begin with
          MaxReads       \* bound: requests in the queue or in a batch

(* They are such as the writing half leaves behind: what its stores say of *)
(* a block is so (BlocksLocatable), and a block is as long as its content. *)
ArchiveOK(arc) ==
    /\ arc.content \in Seq(Seq(Block))
    /\ \A a \in 1..Len(arc.content) : \A i \in 1..Len(arc.content[a]) :
          arc.content[a][i].len = Size[arc.content[a][i].data]
    /\ arc.intact \subseteq 1..Len(arc.content)
    /\ arc.keystore \subseteq 1..Len(arc.content)
    /\ arc.badkeys \subseteq arc.keystore
    /\ arc.fblockstore \in [FHash -> Seq(BlockInfo)]
    /\ \A fh \in FHash : \A i \in 1..Len(arc.fblockstore[fh]) :
          LET bi == arc.fblockstore[fh][i]
          IN  \/ bi.blockaid = NoAid /\ bi.blocksize = 0
              \/ /\ bi.blockaid \in 1..Len(arc.content)
                 /\ \E j \in 1..Len(arc.content[bi.blockaid]) :
                       Describes(bi, arc.content[bi.blockaid][j])

ASSUME ArchivesAssumption == \A arc \in Archives : ArchiveOK(arc)

Stored == UNION {{fblockstore[fh][i] : i \in 1..Len(fblockstore[fh])} : fh \in FHash}

Tampered == {[bi EXCEPT !.bchecksum = d] : bi \in Stored, d \in Data}

REmpty == /\ readenvs = <<>> /\ rqueue = <<>> /\ rbatch = <<>>
          /\ taken = <<>> /\ results = <<>> /\ since = <<>>

RInit ==
    /\ \E arc \in Archives :
          /\ content = arc.content /\ intact = arc.intact
          /\ keystore = arc.keystore /\ badkeys = arc.badkeys
          /\ fblockstore = arc.fblockstore
    /\ REmpty

RNext ==
    \/ \E bi \in Stored \cup Tampered : Len(rqueue) < MaxReads /\ EnqueueRead(bi)
    \/ IterateReadQueue
    \/ RunReadRequest
    \/ \E a \in Aids : LoseChunk(a) /\ UNCHANGED envVars

RSpec == RInit /\ [][RNext]_readVars

-----------------------------------------------------------------------------
(* Properties                                                              *)

(* The values the variables range over; no assembly has two environments,  *)
(* and there are never more of them than were asked for (one at least).    *)
RTypeOK ==
    /\ readenvs \in Seq(Aids)
    /\ Len(readenvs) <= EnvRoom
    /\ \A i, j \in 1..Len(readenvs) : readenvs[i] = readenvs[j] => i = j
    /\ rqueue \in Seq(BlockInfo) /\ Len(rqueue) <= ReadQueueSz
    /\ rbatch \in Seq(BlockInfo)
    /\ taken \in Seq(BlockInfo)
    /\ results \in Seq([request : BlockInfo, data : Data \cup {NoData}])

(* The results answer the requests of the batch from its beginning, in the *)
(* order they were made, and the batch ends early only at an assembly that *)
(* can neither be restored nor is at hand (the break in run_read_requests).*)
AnsweredInOrder ==
    /\ Len(results) + Len(rbatch) <= Len(taken)
    /\ \A i \in 1..Len(results) : results[i].request = taken[i]
    /\ rbatch = SubSeq(taken, Len(taken) - Len(rbatch) + 1, Len(taken))
    /\ rbatch # <<>> => Len(results) + Len(rbatch) = Len(taken)
    /\ rbatch = <<>> /\ Len(results) < Len(taken) =>
          LET a == taken[Len(results) + 1].blockaid IN ~Cached(a) /\ ~CanRestore(a)

(* A result carries the content the request's checksum was made of, or     *)
(* nothing; and a block as it was stored is never refused, whichever       *)
(* environments come and go in between and whatever happens to the chunk   *)
(* files of an assembly once it is restored.                               *)
ReadBack ==
    \A i \in 1..Len(results) :
        LET bi == results[i].request
        IN  /\ results[i].data \in {bi.bchecksum, NoData}
            /\ bi \in Stored /\ bi.blocksize > 0 => results[i].data = bi.bchecksum

(* An environment is given up only for another assembly that could be      *)
(* restored, only when there is no room, and it is the one that was not    *)
(* used for longest: every other one was used after its last use, and      *)
(* remains (ensure_assembly).                                              *)
EvictsLeastRecent ==
    [][\A a \in Aids : Cached(a) /\ ~Cached(a)' =>
          /\ Len(readenvs) >= NReadEnvs
          /\ ~Cached(Head(rbatch).blockaid) /\ CanRestore(Head(rbatch).blockaid)
          /\ \A b \in Aids \ {a} : Cached(b) => b \in since[a] /\ Cached(b)']_readVars
=============================================================================
