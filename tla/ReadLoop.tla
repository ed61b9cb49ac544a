------------------------------ MODULE ReadLoop --------------------------------
(***************************************************************************)
(* What LXRrestore and LXRverify (src/cpp/cli) have in common: for each    *)
(* file of the command line its blocks are requested one after the other;  *)
(* when the read queue is full it is iterated and the request made again;  *)
(* after the last one the queue is iterated once more.  What is done with  *)
(* the results is up to the tool.                                          *)
(***************************************************************************)
EXTENDS ReadPath, Files

CONSTANTS CmdLines     \* the lists of files to work on

ASSUME CmdLinesAssumption == CmdLines \subseteq Seq(FHash)

VARIABLES files,       \* the files of the command line
          cur,         \* the number of the one in work
          at,          \* the number of the block that is requested next
          step,        \* where the program is
          n_blocks_ok, \* blocks of the file that came back
          failed       \* number of files that failed

loopVars == <<files, cur, at, step, n_blocks_ok, failed>>

File == files[cur]

Blocks == fblockstore[File]

LInit == /\ RInit
         /\ files \in CmdLines /\ cur = 1 /\ at = 1 /\ step = "next"
         /\ n_blocks_ok = 0 /\ failed = 0

NextFile(n) == /\ step' = "next" /\ cur' = cur + 1 /\ at' = 1
               /\ n_blocks_ok' = 0 /\ failed' = failed + n

(* A file the block store does not contain counts as failed.               *)
UnknownFile ==
    /\ step = "next" /\ cur <= Len(files)
    /\ Blocks = <<>>
    /\ NextFile(1)
    /\ UNCHANGED <<readVars, files>>

(* iterate_read_queue; from an empty queue come no results.                *)
DrainReads ==
    IF rqueue = <<>>
    THEN /\ RIdle /\ taken' = <<>> /\ results' = <<>>
         /\ UNCHANGED <<archiveVars, readenvs, rqueue, rbatch, since>>
    ELSE IterateReadQueue

RequestBlockSpinning ==               \* mutant: a full queue is tried again, not iterated
    /\ step = "blocks" /\ at <= Len(Blocks)
    /\ Len(rqueue) < ReadQueueSz
    /\ EnqueueRead(Blocks[at]) /\ at' = at + 1
    /\ UNCHANGED <<step, files, cur, n_blocks_ok, failed>>

RequestBlock ==
    /\ step = "blocks" /\ at <= Len(Blocks)
    /\ IF Len(rqueue) < ReadQueueSz
       THEN EnqueueRead(Blocks[at]) /\ at' = at + 1 /\ UNCHANGED step
       ELSE DrainReads /\ step' = "again" /\ UNCHANGED at
    /\ UNCHANGED <<files, cur, n_blocks_ok, failed>>

(* The results have an effect only if they carry data.                     *)
Delivered == {i \in 1..Len(results) : results[i].data # NoData}

CountResults == n_blocks_ok' = n_blocks_ok + Cardinality(Delivered)

(* The request that was refused is made again, and the answer not looked   *)
(* at.                                                                     *)
RequestNotAgain ==                    \* mutant: the refused request is forgotten
    /\ step = "again" /\ RIdle
    /\ CountResults
    /\ at' = at + 1 /\ step' = "blocks"
    /\ UNCHANGED <<readVars, files, cur, failed>>

RequestAgain ==
    /\ step = "again" /\ RIdle
    /\ CountResults
    /\ IF Len(rqueue) < ReadQueueSz THEN EnqueueRead(Blocks[at])
                                    ELSE UNCHANGED readVars
    /\ at' = at + 1 /\ step' = "blocks"
    /\ UNCHANGED <<files, cur, failed>>

EndOfBlocksUndrained ==               \* mutant: what is left in the queue stays there
    /\ step = "blocks" /\ at > Len(Blocks)
    /\ RIdle
    /\ step' = "last"
    /\ UNCHANGED <<readVars, files, cur, at, n_blocks_ok, failed>>

EndOfBlocks ==
    /\ step = "blocks" /\ at > Len(Blocks)
    /\ DrainReads
    /\ step' = "last"
    /\ UNCHANGED <<files, cur, at, n_blocks_ok, failed>>

LastResults ==
    /\ step = "last" /\ RIdle
    /\ CountResults
    /\ step' = "close"
    /\ UNCHANGED <<readVars, files, cur, at, failed>>

(* A turn of the loop in run_read_requests.                                *)
RunReadTurn == step # "aborted" /\ RunReadRequest /\ UNCHANGED loopVars

(* Recalling an assembly asks for each of its chunks whether it exists;    *)
(* what that throws when the file system does not answer is caught by      *)
(* nobody.                                                                 *)
RecallRefused ==
    /\ step \in {"again", "last"} /\ rbatch # <<>>
    /\ Head(rbatch).blockaid \in keystore /\ ~Cached(Head(rbatch).blockaid)
    /\ step' = "aborted"
    /\ UNCHANGED <<readVars, files, cur, at, n_blocks_ok, failed>>

AllFilesDone ==
    /\ step = "next" /\ cur > Len(files)
    /\ step' = "done"
    /\ UNCHANGED <<readVars, files, cur, at, n_blocks_ok, failed>>

-----------------------------------------------------------------------------
(* Properties of both tools                                                *)

(* Results are taken for the file that asked for them: the batch that is   *)
(* being run consists of blocks of the file in work, and when the program  *)
(* turns to another file no request of the last one is left.               *)
OwnBlocksOnly ==
    /\ step \in {"again", "last"} =>
          \A i \in 1..Len(taken) : \E j \in 1..Len(Blocks) : taken[i] = Blocks[j]
    /\ step \in {"next", "last", "close", "done"} => rqueue = <<>>
=============================================================================
