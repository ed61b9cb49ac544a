------------------------------ MODULE ToolsProofs ------------------------------
(***************************************************************************)
(* Theorems about LXRverify and LXRrestore, for every archive, command     *)
(* line, output directory and depth of the read queue.                     *)
(***************************************************************************)
EXTENDS Tools, ReadPathProofs, FiniteSetTheorems, WellFoundedInduction

-----------------------------------------------------------------------------
(* Induction over the steps of a computation: the set of the steps at      *)
(* which a claim fails would have a least member.  As in WritePathProofs,  *)
(* which is about another program and is not extended here.                *)

(* A set of numbers that is not empty has a least one.                     *)
LEMMA LeastNumber ==
  ASSUME NEW T, T \subseteq Nat, T # {}
  PROVE \E n \in T : \A m \in T : n <= m
<1> DEFINE R == OpToRel(<, Nat)
<1>1. IsWellFoundedOn(R, Nat)
  BY NatLessThanWellFounded
<1>2. \A x, y \in Nat : x < y => <<x, y>> \in R
  BY DEF OpToRel
<1> HIDE DEF R
<1>3. PICK n \in T : \A m \in T : ~ (<<m, n>> \in R)
  BY <1>1, WFMin
<1>4. \A m \in T : ~ (m < n)
  BY <1>2, <1>3
<1>5. \A m \in T : n <= m
  BY <1>4
<1> QED BY <1>5

(* A set that holds 0 and, with each number, the next one up to n.         *)
LEMMA StepByStep ==
  ASSUME NEW n \in Nat, NEW T, 0 \in T,
         \A i \in 1..n : i - 1 \in T => i \in T
  PROVE  \A i \in 0..n : i \in T
<1>1. SUFFICES ASSUME NEW k \in 0..n, k \notin T PROVE FALSE
  OBVIOUS
<1> DEFINE U == {i \in 0..n : i \notin T}
<1>a. U \subseteq Nat /\ U # {}
  BY <1>1
<1> HIDE DEF U
<1>2. PICK m \in U : \A i \in U : m <= i
  BY <1>a, LeastNumber
<1> USE DEF U
<1>3. m \in 1..n /\ m - 1 \in 0..n
  BY <1>2
<1>4. m - 1 \in T
  BY <1>2, <1>3
<1> QED BY <1>2, <1>3, <1>4

(* f starts with x, and step i applies F[i].                               *)
Solves(f, n, x, F) == f[0] = x /\ \A i \in 1..n : f[i] = F[i][f[i - 1]]

(* What defines a recursive function over 0..n has a solution.             *)
LEMMA Recursion ==
  ASSUME NEW n \in Nat, NEW X, NEW x \in X, NEW F \in [1..n -> [X -> X]]
  PROVE  \E f \in [0..n -> X] : Solves(f, n, x, F)
<1> DEFINE P(k, f) == f[0] = x /\ \A i \in 1..k : f[i] = F[i][f[i - 1]]
           T == {k \in 0..n : \E f \in [0..k -> X] : P(k, f)}
<1>1. 0 \in T
  <2> DEFINE f0 == [i \in 0..0 |-> x]
  <2>1. f0 \in [0..0 -> X] /\ P(0, f0)
    OBVIOUS
  <2>2. 0 \in 0..n
    OBVIOUS
  <2> HIDE DEF f0, P
  <2> QED BY <2>1, <2>2
<1>2. ASSUME NEW k \in 1..n, k - 1 \in T PROVE k \in T
  <2>1. PICK f \in [0..k - 1 -> X] : P(k - 1, f)
    BY <1>2
  <2> DEFINE g == [i \in 0..k |-> IF i = k THEN F[k][f[k - 1]] ELSE f[i]]
  <2>2. f[k - 1] \in X /\ F[k] \in [X -> X]
    BY <2>1
  <2>3. g \in [0..k -> X]
    BY <2>1, <2>2
  <2>4. g[0] = x
    BY <2>1
  <2>5. ASSUME NEW i \in 1..k PROVE g[i] = F[i][g[i - 1]]
    <3>1. i - 1 \in 0..k /\ i - 1 # k /\ i \in 0..k
      OBVIOUS
    <3>2. g[i - 1] = f[i - 1]
      BY <3>1
    <3>3. CASE i = k
      BY <3>1, <3>2, <3>3
    <3>4. CASE i # k
      <4>1. i \in 1..k - 1 /\ g[i] = f[i]
        BY <3>1, <3>4
      <4>2. f[i] = F[i][f[i - 1]]
        BY <2>1, <4>1
      <4> QED BY <3>2, <4>1, <4>2
    <3> QED BY <3>3, <3>4
  <2>6. P(k, g)
    BY <2>4, <2>5
  <2>7. k \in 0..n
    OBVIOUS
  <2> HIDE DEF g, P
  <2> QED BY <2>3, <2>6, <2>7
<1> HIDE DEF T
<1>3. n \in T
  BY <1>1, <1>2, StepByStep, n \in 0..n
<1> USE DEF T
<1> QED BY <1>3 DEF Solves

-----------------------------------------------------------------------------
(* The invariants that the two tools share                                 *)

AtFile == step \in {"blocks", "again", "last", "close"}

(* The block informations of the file in work.                             *)
Own == {Blocks[j] : j \in 1..Len(Blocks)}

(* Where the loop over the blocks is, and what its requests are.           *)
LoopInv ==
    /\ files \in Seq(FHash) /\ cur \in Nat \ {0} /\ at \in Nat \ {0}
    /\ AtFile => cur <= Len(files)
    /\ step = "again" => at <= Len(Blocks)
    /\ rqueue \in Seq(BlockInfo)
    /\ step \in {"blocks", "again"} =>
          \A i \in 1..Len(rqueue) : \E j \in 1..Len(Blocks) : rqueue[i] = Blocks[j]
    /\ OwnBlocksOnly

(* The file that LXRrestore writes was not there before.                   *)
OutInv ==
    /\ DOMAIN out = FHash
    /\ ExistingIsKept
    /\ tool = "LXRrestore" /\ AtFile => before[File] = NoFile

ArchInv == ArchiveTypeOK /\ BlocksLocatable

ToolsInv == ArchInv /\ LoopInv /\ OutInv

-----------------------------------------------------------------------------
(* The steps of the loop, whichever of the tools takes them                *)

LEMMA BlocksTyped ==
    ASSUME ArchInv, LoopInv, cur <= Len(files)
    PROVE  Blocks \in Seq(BlockInfo) /\ Len(Blocks) \in Nat
<1>1. cur \in 1..Len(files)
  BY LenProperties DEF LoopInv
<1>2. File \in FHash
  BY <1>1, ElementOfSeq DEF LoopInv, File
<1>3. Blocks \in Seq(BlockInfo)
  BY <1>2 DEF ArchInv, ArchiveTypeOK, Blocks
<1> QED BY <1>3, LenProperties

(* Steps that leave the requests alone: to the next file, from there to    *)
(* its blocks, to the end, which an abort may bring in the middle.         *)
ToNextFile ==
    /\ \/ step = "next" /\ cur <= Len(files) /\ NextFile(1)
       \/ step = "close" /\ NextFile(1)
       \/ step = "close" /\ n_blocks_ok = Len(Blocks) /\ NextFile(0)
    /\ UNCHANGED <<readVars, files>>

ToBlocks ==
    /\ step = "next" /\ cur <= Len(files) /\ Blocks # <<>>
    /\ step' = "blocks"
    /\ UNCHANGED <<readVars, files, cur, at, n_blocks_ok, failed>>

ToEnd ==
    /\ step \in {"next", "again", "last", "close"} /\ step' \in {"done", "aborted"}
    /\ step' = "done" => step = "next" /\ cur > Len(files)
    /\ UNCHANGED <<readVars, files, cur, at, n_blocks_ok, failed>>

LEMMA ToNextFileInv ==
    ASSUME LoopInv, ToNextFile
    PROVE  LoopInv'
<1>1. rqueue = <<>> /\ UNCHANGED <<rqueue, files>> /\ step' = "next" /\ cur' = cur + 1 /\ at' = 1
  BY DEF LoopInv, OwnBlocksOnly, ToNextFile, NextFile, readVars, envVars
<1> QED BY <1>1 DEF LoopInv, OwnBlocksOnly, AtFile

LEMMA ToBlocksInv ==
    ASSUME LoopInv, ToBlocks
    PROVE  LoopInv'
<1>1. rqueue = <<>> /\ UNCHANGED <<rqueue, files, cur, at>> /\ step' = "blocks" /\ Len(<<>>) = 0
  BY EmptySeq DEF LoopInv, OwnBlocksOnly, ToBlocks, readVars, envVars
<1> QED BY <1>1 DEF LoopInv, OwnBlocksOnly, AtFile, ToBlocks

LEMMA ToEndInv ==
    ASSUME LoopInv, ToEnd
    PROVE  LoopInv'
BY DEF LoopInv, OwnBlocksOnly, AtFile, ToEnd, readVars, envVars

(* iterate_read_queue hands the requests to the batch.                     *)
LEMMA DrainFacts ==
    ASSUME LoopInv, DrainReads
    PROVE  rqueue' = <<>> /\ taken' = rqueue /\ UNCHANGED archiveVars
BY DEF DrainReads, IterateReadQueue, LoopInv

LEMMA RequestBlockInv ==
    ASSUME ArchInv, LoopInv, RequestBlock
    PROVE  LoopInv'
<1>1. /\ Blocks \in Seq(BlockInfo) /\ Len(Blocks) \in Nat /\ at \in 1..Len(Blocks)
      /\ UNCHANGED <<files, cur>> /\ step = "blocks"
  BY BlocksTyped DEF RequestBlock, LoopInv, AtFile
<1>2. CASE Len(rqueue) < ReadQueueSz
  <2>1. /\ rqueue' = Append(rqueue, Blocks[at]) /\ at' = at + 1 /\ step' = step
        /\ UNCHANGED archiveVars
    BY <1>2 DEF RequestBlock, EnqueueRead
  <2>2. Blocks[at] \in BlockInfo
    BY <1>1, ElementOfSeq
  <2>3. /\ rqueue' \in Seq(BlockInfo) /\ Len(rqueue') = Len(rqueue) + 1
        /\ \A i \in 1..Len(rqueue) : rqueue'[i] = rqueue[i]
        /\ rqueue'[Len(rqueue) + 1] = Blocks[at]
    BY <2>1, <2>2, AppendProperties DEF LoopInv
  <2>4. \A i \in 1..Len(rqueue') : i \in 1..Len(rqueue) \/ i = Len(rqueue) + 1
    BY <2>3, LenProperties DEF LoopInv
  <2>5. Blocks' = Blocks
    BY <1>1, <2>1 DEF Blocks, File, archiveVars
  <2>6. \A i \in 1..Len(rqueue') : \E j \in 1..Len(Blocks) : rqueue'[i] = Blocks[j]
    BY <1>1, <2>3, <2>4 DEF LoopInv
  <2> QED BY <1>1, <2>1, <2>3, <2>5, <2>6 DEF LoopInv, OwnBlocksOnly, AtFile
<1>3. CASE ~(Len(rqueue) < ReadQueueSz)
  <2>1. DrainReads /\ step' = "again" /\ at' = at
    BY <1>3 DEF RequestBlock
  <2>2. rqueue' = <<>> /\ taken' = rqueue /\ UNCHANGED archiveVars
    BY <2>1, DrainFacts
  <2>3. Blocks' = Blocks
    BY <1>1, <2>2 DEF Blocks, File, archiveVars
  <2>4. <<>> \in Seq(BlockInfo) /\ Len(<<>>) = 0
    BY EmptySeq
  <2> QED BY <1>1, <2>1, <2>2, <2>3, <2>4 DEF LoopInv, OwnBlocksOnly, AtFile
<1> QED BY <1>2, <1>3

(* RequestAgain, LastResults without what the tool does with the results.  *)
Again ==
    /\ step = "again" /\ RIdle
    /\ CountResults
    /\ IF Len(rqueue) < ReadQueueSz THEN EnqueueRead(Blocks[at])
                                    ELSE UNCHANGED readVars
    /\ at' = at + 1 /\ step' = "blocks"
    /\ UNCHANGED <<files, cur, failed>>

Last ==
    /\ step = "last" /\ RIdle
    /\ CountResults
    /\ step' = "close"
    /\ UNCHANGED <<readVars, files, cur, at, failed>>

LEMMA AgainInv ==
    ASSUME ArchInv, LoopInv, Again
    PROVE  LoopInv'
<1>1. /\ Blocks \in Seq(BlockInfo) /\ Len(Blocks) \in Nat /\ at \in 1..Len(Blocks)
      /\ UNCHANGED <<files, cur>> /\ step = "again" /\ step' = "blocks" /\ at' = at + 1
  BY BlocksTyped DEF Again, LoopInv, AtFile
<1>2. UNCHANGED archiveVars
  BY DEF Again, EnqueueRead, readVars
<1>3. Blocks' = Blocks
  BY <1>1, <1>2 DEF Blocks, File, archiveVars
<1>4. /\ rqueue' \in Seq(BlockInfo)
      /\ \A i \in 1..Len(rqueue') : \E j \in 1..Len(Blocks) : rqueue'[i] = Blocks[j]
  <2>1. CASE Len(rqueue) < ReadQueueSz
    <3>1. rqueue' = Append(rqueue, Blocks[at])
      BY <2>1 DEF Again, EnqueueRead
    <3>2. Blocks[at] \in BlockInfo
      BY <1>1, ElementOfSeq
    <3>3. /\ rqueue' \in Seq(BlockInfo) /\ Len(rqueue') = Len(rqueue) + 1
          /\ \A i \in 1..Len(rqueue) : rqueue'[i] = rqueue[i]
          /\ rqueue'[Len(rqueue) + 1] = Blocks[at]
      BY <3>1, <3>2, AppendProperties DEF LoopInv
    <3>4. \A i \in 1..Len(rqueue') : i \in 1..Len(rqueue) \/ i = Len(rqueue) + 1
      BY <3>3, LenProperties DEF LoopInv
    <3> QED BY <1>1, <3>3, <3>4 DEF LoopInv
  <2>2. CASE ~(Len(rqueue) < ReadQueueSz)
    BY <1>1, <2>2 DEF Again, readVars, envVars, LoopInv
  <2> QED BY <2>1, <2>2
<1> QED BY <1>1, <1>3, <1>4 DEF LoopInv, OwnBlocksOnly, AtFile

LEMMA EndOfBlocksInv ==
    ASSUME LoopInv, EndOfBlocks
    PROVE  LoopInv'
<1>1. rqueue' = <<>> /\ taken' = rqueue /\ UNCHANGED archiveVars
  BY DrainFacts DEF EndOfBlocks
<1>2. step = "blocks" /\ step' = "last" /\ UNCHANGED <<files, cur, at>>
  BY DEF EndOfBlocks
<1>3. Blocks' = Blocks
  BY <1>1, <1>2 DEF Blocks, File, archiveVars
<1>4. <<>> \in Seq(BlockInfo)
  BY EmptySeq
<1> QED BY <1>1, <1>2, <1>3, <1>4 DEF LoopInv, OwnBlocksOnly, AtFile

LEMMA LastInv ==
    ASSUME LoopInv, Last
    PROVE  LoopInv'
BY DEF LoopInv, OwnBlocksOnly, AtFile, Last, readVars, envVars

(* The tools wait for the end of a batch; chunks may get lost at any time. *)
LEMMA WaitInv ==
    ASSUME LoopInv, UNCHANGED <<loopVars, fblockstore, rqueue, taken>>
    PROVE  LoopInv'
<1>1. Blocks' = Blocks
  BY DEF Blocks, File, loopVars
<1> QED BY <1>1 DEF LoopInv, OwnBlocksOnly, AtFile, loopVars

Waits == RunReadRequest /\ UNCHANGED loopVars

LoopStep ==
    \/ RequestBlock \/ Again \/ EndOfBlocks \/ Last
    \/ ToNextFile \/ ToBlocks \/ ToEnd
    \/ Waits

LEMMA ArchInvStays ==
    ASSUME ArchInv, Kept
    PROVE  ArchInv'
BY ArchiveStays DEF ArchInv

-----------------------------------------------------------------------------
(* LXRverify                                                               *)

(* Its loop is that of LXRrestore.                                         *)
LEMMA SameLoop ==
    /\ V!RequestBlock => RequestBlock
    /\ V!RequestAgain => Again
    /\ V!EndOfBlocks => EndOfBlocks
    /\ V!LastResults => Last
    /\ V!RunReadRequest => RunReadRequest
<1> USE DEF V!archiveVars, archiveVars, V!envVars, envVars, V!readVars, readVars
<1>1. V!Blocks = Blocks
  BY DEF V!Blocks, V!File, Blocks, File
<1>2. V!RIdle <=> RIdle
  BY DEF V!RIdle, RIdle
<1>3. V!DrainReads <=> DrainReads
  BY <1>2 DEF V!DrainReads, DrainReads, V!IterateReadQueue, IterateReadQueue
<1>4. \A bi : V!EnqueueRead(bi) <=> EnqueueRead(bi)
  BY <1>2 DEF V!EnqueueRead, EnqueueRead
<1>10. V!CountResults <=> CountResults
  BY DEF V!CountResults, CountResults, V!Delivered, Delivered, V!Cardinality, Cardinality
<1>5. V!RequestBlock => RequestBlock
  BY <1>1, <1>3, <1>4 DEF V!RequestBlock, RequestBlock
<1>6. V!RequestAgain => Again
  BY <1>1, <1>2, <1>4, <1>10 DEF V!RequestAgain, Again
<1>7. V!EndOfBlocks => EndOfBlocks
  BY <1>1, <1>3 DEF V!EndOfBlocks, EndOfBlocks
<1>8. V!LastResults => Last
  BY <1>2, <1>10 DEF V!LastResults, Last
<1>9. V!RunReadRequest => RunReadRequest
  <2>1. \A a : (V!Cached(a) <=> Cached(a)) /\ (V!CanRestore(a) <=> CanRestore(a))
    BY DEF V!Cached, Cached, V!CanRestore, CanRestore
  <2>2. \A a : (V!Hit(a) <=> Hit(a)) /\ (V!Miss(a) <=> Miss(a))
    BY <2>1 DEF V!Hit, Hit, V!Miss, Miss
  <2>3. \A a, bi : V!Restore(a, bi) = Restore(a, bi)
    BY DEF V!Restore, Restore, V!Describes, Describes
  <2>4. V!ServeRequest <=> ServeRequest
    <3>1. \A a : V!Used(a) = Used(a)
      BY DEF V!Used, Used
    <3> QED BY <3>1, <2>2, <2>3 DEF V!ServeRequest, ServeRequest
  <2>5. V!StopBatch <=> StopBatch
    BY <2>1 DEF V!StopBatch, StopBatch
  <2> QED BY <2>4, <2>5 DEF V!RunReadRequest, RunReadRequest
<1> QED BY <1>5, <1>6, <1>7, <1>8, <1>9

(* No step of a tool touches the archive.                                  *)
LEMMA LoopKeeps ==
    ASSUME LoopStep
    PROVE  Kept
BY DEF LoopStep, Waits, RequestBlock, Again, EndOfBlocks, Last, ToNextFile, ToBlocks, ToEnd, RunReadRequest,
       DrainReads, EnqueueRead, IterateReadQueue, readVars, archiveVars, Kept

LEMMA VerifyingSteps == V!Program => LoopStep
<1> SUFFICES ASSUME V!Program PROVE LoopStep
  OBVIOUS
<1> QED
  <2> USE DEF V!readVars, V!archiveVars, V!envVars, V!loopVars, readVars, archiveVars, envVars,
              loopVars
  <2>1. V!UnknownFile \/ V!Judge => ToNextFile
    <3>1. \A n : V!NextFile(n) <=> NextFile(n)
      BY DEF V!NextFile, NextFile
    <3>2. V!Blocks = Blocks
      BY DEF V!Blocks, V!File, Blocks, File
    <3>3. V!Judge => NextFile(1) \/ (n_blocks_ok = Len(Blocks) /\ NextFile(0))
      BY <3>1, <3>2 DEF V!Judge
    <3> QED BY <3>1, <3>3 DEF V!UnknownFile, V!Judge, ToNextFile
  <2>2. V!StartFile => ToBlocks
    BY DEF V!StartFile, ToBlocks, V!Blocks, V!File, Blocks, File
  <2>3. V!AllFilesDone \/ V!RecallRefused => ToEnd
    BY DEF V!AllFilesDone, V!RecallRefused, ToEnd
  <2> QED BY <2>1, <2>2, <2>3, SameLoop
           DEF V!Program, V!RunReadTurn, LoopStep, Waits

LEMMA LoopStepInv ==
    ASSUME ArchInv, LoopInv, LoopStep
    PROVE  ArchInv' /\ LoopInv'
<1>2. ArchInv'
  BY LoopKeeps, ArchInvStays
<1>3. Waits => UNCHANGED <<loopVars, fblockstore, rqueue, taken>>
  BY DEF Waits, RunReadRequest, archiveVars
<1> QED BY <1>2, <1>3, RequestBlockInv, AgainInv, EndOfBlocksInv, LastInv, ToNextFileInv,
           ToBlocksInv, ToEndInv, WaitInv DEF LoopStep

-----------------------------------------------------------------------------
(* LXRrestore                                                              *)

(* Its steps, and what they do to the output directory.                    *)
LEMMA ProgramSteps ==
    ASSUME Program
    PROVE  \/ /\ RequestBlock \/ EndOfBlocks \/ ToNextFile \/ ToEnd \/ Waits
              /\ UNCHANGED <<out, before>>
           \/ /\ Again \/ Last
              /\ \E c : out' = [out EXCEPT ![File] = c] /\ UNCHANGED before
           \/ /\ ToBlocks
              /\ out[File] = NoFile
              /\ \E c : out' = [out EXCEPT ![File] = c] /\ UNCHANGED before
           \/ /\ ToNextFile /\ step = "close"
              /\ \E c : out' = [out EXCEPT ![File] = c] /\ UNCHANGED before
<1>1. UnknownFile \/ TargetRefused => ToNextFile
  BY DEF UnknownFile, TargetRefused, ToNextFile
<1>2. AllFilesDone \/ RecallRefused \/ DirectoryRefused \/ RemovalRefused => ToEnd
  BY DEF AllFilesDone, RecallRefused, DirectoryRefused, RemovalRefused, ToEnd
<1>3. CreateTarget => ToBlocks /\ out[File] = NoFile /\ UNCHANGED before
                      /\ \E c : out' = [out EXCEPT ![File] = c]
  BY DEF CreateTarget, ToBlocks
<1>4. CloseTarget => /\ ToNextFile /\ step = "close" /\ UNCHANGED before
                     /\ \/ UNCHANGED out
                        \/ \E c : out' = [out EXCEPT ![File] = c]
  <2>1. CloseTarget => \/ NextFile(0) /\ UNCHANGED out
                       \/ NextFile(1) /\ out' = [out EXCEPT ![File] = NoFile]
    BY DEF CloseTarget
  <2> QED BY <2>1 DEF CloseTarget, ToNextFile
<1>5. RequestAgain => Again
  BY DEF RequestAgain, Again
<1>6. LastResults => Last
  BY DEF LastResults, Last
<1>7. WriteResults => UNCHANGED before /\ \E c : out' = [out EXCEPT ![File] = c]
  BY DEF WriteResults
<1> QED BY <1>1, <1>2, <1>3, <1>4, <1>5, <1>6, <1>7
        DEF Program, Waits, RunReadTurn, outVars, TargetRefused, DirectoryRefused, RemovalRefused

LEMMA RestoringInv ==
    ASSUME ToolsInv, Restoring
    PROVE  ToolsInv'
<1>1. Program /\ tool = "LXRrestore" /\ tool' = tool
  BY DEF Restoring, toolVars
<1>2. ArchInv' /\ LoopInv'
  BY <1>1, ProgramSteps, LoopStepInv DEF LoopStep, ToolsInv
<1>4. OutInv'
  <2>1. ASSUME NEW c, out' = [out EXCEPT ![File] = c], UNCHANGED before, before[File] = NoFile
        PROVE  DOMAIN out' = FHash /\ ExistingIsKept'
    BY <2>1 DEF ToolsInv, OutInv, ExistingIsKept
  <2>2. UNCHANGED <<out, before>> => DOMAIN out' = FHash /\ ExistingIsKept'
    BY DEF ToolsInv, OutInv, ExistingIsKept
  <2>3. ASSUME ToBlocks, out[File] = NoFile PROVE before[File] = NoFile
    <3>1. File \in FHash
      BY <2>3, LenProperties, ElementOfSeq DEF ToBlocks, ToolsInv, LoopInv, File
    <3> QED BY <2>3, <3>1 DEF ToolsInv, OutInv, ExistingIsKept
  <2>4. Again \/ Last \/ step = "close" => before[File] = NoFile
    BY <1>1 DEF Again, Last, ToolsInv, OutInv, AtFile
  <2>5. DOMAIN out' = FHash /\ ExistingIsKept' /\ before' = before
    BY <1>1, <2>1, <2>2, <2>3, <2>4, ProgramSteps
  <2>6. AtFile' => before'[File'] = NoFile
    <3>1. ASSUME UNCHANGED <<files, cur>>, AtFile PROVE before'[File'] = NoFile
      BY <1>1, <2>5, <3>1 DEF ToolsInv, OutInv, File
    <3>2. CASE ToNextFile \/ ToEnd
      BY <3>2 DEF ToNextFile, NextFile, ToEnd, AtFile
    <3>3. CASE ToBlocks /\ out[File] = NoFile
      BY <2>3, <2>5, <3>3 DEF ToBlocks, File
    <3>4. CASE RequestBlock \/ EndOfBlocks \/ Again \/ Last
      BY <3>1, <3>4 DEF RequestBlock, EndOfBlocks, Again, Last, AtFile
    <3>5. CASE Waits
      BY <3>1, <3>5 DEF Waits, loopVars, AtFile
    <3> QED BY <1>1, <3>2, <3>3, <3>4, <3>5, ProgramSteps
  <2> QED BY <1>1, <2>5, <2>6 DEF OutInv
<1> QED BY <1>2, <1>4 DEF ToolsInv

-----------------------------------------------------------------------------
(* All steps                                                               *)

LEMMA ToolsInitInv == Init => ToolsInv
<1> SUFFICES ASSUME Init PROVE ToolsInv
  OBVIOUS
<1>1. RInit /\ rqueue = <<>> /\ Len(<<>>) = 0 /\ <<>> \in Seq(BlockInfo)
  BY EmptySeq DEF Init, ResInit, LInit, RInit, REmpty
<1>2. ArchInv
  BY <1>1, InitHolds DEF IInv, ArchInv
<1>3. files \in Seq(FHash) /\ cur = 1 /\ at = 1 /\ step = "next"
  BY CmdLinesAssumption DEF Init, ResInit, LInit
<1>4. LoopInv
  BY <1>1, <1>3 DEF LoopInv, OwnBlocksOnly, AtFile
<1>5. out \in [FHash -> Seq(Byte) \cup {NoFile}] /\ before = out
  BY ExistingAssumption DEF Init, ResInit
<1>6. OutInv
  BY <1>3, <1>5 DEF OutInv, ExistingIsKept, AtFile
<1> QED BY <1>2, <1>4, <1>6 DEF ToolsInv

LEMMA BeginRestoreInv ==
    ASSUME ToolsInv, BeginRestore
    PROVE  ToolsInv'
<1>1. /\ UNCHANGED <<archiveVars, files, outVars>> /\ step' = "next"
      /\ rqueue' = <<>> /\ cur' = 1 /\ at' = 1
  BY DEF BeginRestore
<1>2. <<>> \in Seq(BlockInfo) /\ Len(<<>>) = 0
  BY EmptySeq
<1>3. ArchInv'
  BY <1>1, ArchInvStays DEF ToolsInv, archiveVars, Kept
<1>4. LoopInv'
  BY <1>1, <1>2 DEF ToolsInv, LoopInv, OwnBlocksOnly, AtFile
<1>5. OutInv'
  BY <1>1 DEF ToolsInv, OutInv, ExistingIsKept, AtFile, outVars
<1> QED BY <1>3, <1>4, <1>5 DEF ToolsInv

LEMMA ToolsNextInv == ToolsInv /\ [Next]_<<vars, toolVars>> => ToolsInv'
<1> SUFFICES ASSUME ToolsInv, [Next]_<<vars, toolVars>> PROVE ToolsInv'
  OBVIOUS
<1>1. CASE Verifying
  <2>1. ArchInv' /\ LoopInv'
    BY <1>1, VerifyingSteps, LoopStepInv DEF Verifying, ToolsInv
  <2>2. OutInv'
    BY <1>1 DEF Verifying, ToolsInv, OutInv, ExistingIsKept, outVars
  <2> QED BY <2>1, <2>2 DEF ToolsInv
<1>2. CASE BeginRestore
  BY <1>2, BeginRestoreInv
<1>3. CASE Restoring
  BY <1>3, RestoringInv
<1>4. ASSUME UNCHANGED <<loopVars, outVars, tool, fblockstore, rqueue, taken>>, Kept
      PROVE  ToolsInv'
  <2>1. ArchInv' /\ LoopInv'
    BY <1>4, ArchInvStays, WaitInv DEF ToolsInv
  <2>2. OutInv'
    BY <1>4 DEF ToolsInv, OutInv, ExistingIsKept, AtFile, File, loopVars, outVars
  <2> QED BY <2>1, <2>2 DEF ToolsInv
<1>5. ASSUME NEW a \in Aids, LoseChunk(a), UNCHANGED <<envVars, loopVars, outVars, toolVars>>
      PROVE  ToolsInv'
  BY <1>4, <1>5 DEF LoseChunk, envVars, toolVars, Kept
<1>6. CASE UNCHANGED <<vars, toolVars>>
  BY <1>4, <1>6 DEF vars, readVars, archiveVars, envVars, toolVars, Kept
<1> QED BY <1>1, <1>2, <1>3, <1>5, <1>6 DEF Next, Running

-----------------------------------------------------------------------------
(* Theorems                                                                *)

(* The invariant holds of every state the two tools can reach.             *)
THEOREM ToolsInvariance == Spec => []ToolsInv
<1>1. Init => ToolsInv
  BY ToolsInitInv
<1>2. ToolsInv /\ [Next]_<<vars, toolVars>> => ToolsInv'
  BY ToolsNextInv
<1> QED BY <1>1, <1>2, PTL DEF Spec

(* LXRrestore never changes or removes a file that it did not create,      *)
(* neither when it is asked for twice nor when blocks are missing.         *)
THEOREM ExistingFilesAreKept == Spec => []ExistingIsKept
<1>1. ToolsInv => ExistingIsKept
  BY DEF ToolsInv, OutInv
<1> QED BY <1>1, ToolsInvariance, PTL

(* The results that either tool takes are of the file in work: a queue     *)
(* that runs full in its middle, and is worked off there, mixes up nothing.*)
THEOREM ResultsAreOwn == Spec => []OwnBlocksOnly
<1>1. ToolsInv => OwnBlocksOnly
  BY DEF ToolsInv, LoopInv
<1> QED BY <1>1, ToolsInvariance, PTL

-----------------------------------------------------------------------------
(* The requests and their answers                                          *)

(* The requests that wait or were made last, all of the file in work, and  *)
(* the number of its blocks whose answers were counted before.             *)
Batch == IF step = "blocks" THEN rqueue ELSE taken

Processed == IF step = "close" THEN Len(Blocks) ELSE at - 1 - Len(Batch)

(* The batch is the next blocks of the file in work, in their order.       *)
PlaceInv ==
    /\ AtFile => Blocks # <<>> /\ n_blocks_ok \in 0..Processed /\ at - 1 <= Len(Blocks)
    /\ step \in {"blocks", "again", "last"} =>
          Processed \in Nat /\ \A i \in 1..Len(Batch) : Batch[i] = Blocks[Processed + i]
    /\ step \in {"last", "close"} => at - 1 = Len(Blocks)
    /\ step = "again" => rqueue = <<>>
    /\ step = "next" => n_blocks_ok = 0 /\ at = 1
    /\ step = "done" => cur > Len(files)
    /\ failed \in Nat

ReadInv == IInv /\ LoopInv /\ PlaceInv

(* Nothing comes out of an empty queue.                                    *)
LEMMA DrainKeeps ==
    ASSUME IInv, DrainReads
    PROVE  IInv'
<1>1. CASE rqueue # <<>>
  BY <1>1, IterateKeeps DEF DrainReads
<1>2. CASE rqueue = <<>>
  <2>1. /\ rbatch = <<>> /\ taken' = <<>> /\ results' = <<>>
        /\ UNCHANGED <<archiveVars, readenvs, rqueue, rbatch>>
    BY <1>2 DEF DrainReads, RIdle
  <2>2. Len(<<>>) = 0 /\ \A S : <<>> \in Seq(S)
    BY EmptySeq
  <2>3. Kept
    BY <2>1 DEF Kept, archiveVars
  <2>4. ArchiveTypeOK' /\ BlocksLocatable' /\ Aids' = Aids
    BY <2>3, ArchiveStays DEF IInv
  <2>5. RTypeOK'
    BY <2>1, <2>2, <2>4 DEF IInv, RTypeOK
  <2>6. AnsweredInOrder'
    <3>1. SubSeq(<<>>, 1, 0) = <<>>
      BY SubSeqEmpty
    <3> QED BY <2>1, <2>2, <3>1 DEF AnsweredInOrder
  <2>7. ReadBack'
    BY <2>1, <2>2 DEF ReadBack
  <2> QED BY <2>4, <2>5, <2>6, <2>7 DEF IInv
<1> QED BY <1>1, <1>2

(* The requests are blocks that are stored.                                *)
LEMMA LoopStepReads ==
    ASSUME IInv, LoopInv, LoopStep
    PROVE  IInv'
<1>1. ASSUME step \in {"blocks", "again"}, at <= Len(Blocks), EnqueueRead(Blocks[at])
      PROVE  IInv'
  <2>1. cur \in 1..Len(files) /\ files \in Seq(FHash)
    BY <1>1, LenProperties DEF LoopInv, AtFile
  <2>2. File \in FHash
    BY <2>1, ElementOfSeq DEF File
  <2>3. Blocks \in Seq(BlockInfo)
    BY <2>2 DEF IInv, ArchiveTypeOK, Blocks
  <2>4. at \in 1..Len(fblockstore[File])
    BY <1>1, <2>3, LenProperties DEF LoopInv, Blocks
  <2>5. Blocks[at] \in Stored
    BY <2>2, <2>4 DEF Stored, Blocks
  <2> QED BY <1>1, <2>5, EnqueueKeeps
<1>2. CASE RequestBlock
  BY <1>1, <1>2, DrainKeeps DEF RequestBlock
<1>3. CASE Again
  BY <1>1, <1>3, StutterKeeps DEF Again, LoopInv
<1>4. CASE EndOfBlocks
  BY <1>4, DrainKeeps DEF EndOfBlocks
<1>5. CASE Last \/ ToNextFile \/ ToBlocks \/ ToEnd
  BY <1>5, StutterKeeps DEF Last, ToNextFile, ToBlocks, ToEnd
<1>6. CASE Waits
  BY <1>6, ServeKeeps, StopKeeps DEF Waits, RunReadRequest
<1> QED BY <1>2, <1>3, <1>4, <1>5, <1>6 DEF LoopStep

(* The file in work and its blocks stay the same until it is closed.       *)
LEMMA FileStays ==
    ASSUME ReadInv, AtFile
    PROVE  /\ cur \in 1..Len(files) /\ File \in FHash
           /\ Blocks \in Seq(BlockInfo) /\ Len(Blocks) \in Nat \ {0}
           /\ rqueue \in Seq(BlockInfo) /\ taken \in Seq(BlockInfo)
           /\ Batch \in Seq(BlockInfo) /\ Len(Batch) \in Nat
           /\ Processed \in Nat /\ at \in Nat \ {0}
<1>1. cur \in 1..Len(files) /\ files \in Seq(FHash) /\ at \in Nat \ {0}
  BY LenProperties DEF ReadInv, LoopInv
<1>2. File \in FHash
  BY <1>1, ElementOfSeq DEF File
<1>3. Blocks \in Seq(BlockInfo)
  BY <1>2 DEF ReadInv, IInv, ArchiveTypeOK, Blocks
<1>4. Len(Blocks) \in Nat \ {0}
  BY <1>3, LenProperties, EmptySeq DEF ReadInv, PlaceInv
<1>5. rqueue \in Seq(BlockInfo) /\ taken \in Seq(BlockInfo)
  BY DEF ReadInv, IInv, RTypeOK
<1>6. Batch \in Seq(BlockInfo) /\ Len(Batch) \in Nat
  BY <1>5, LenProperties DEF Batch
<1>7. Processed \in Nat
  BY <1>4 DEF Processed, ReadInv, PlaceInv, AtFile
<1> QED BY <1>1, <1>2, <1>3, <1>4, <1>5, <1>6, <1>7

(* What counting the results of a batch says: at most as many blocks came  *)
(* back as were asked for, and if all did, all of the batch did.           *)
LEMMA Counting ==
    ASSUME ReadInv, AtFile, RIdle
    PROVE  /\ Cardinality(Delivered) \in 0..Len(taken)
           /\ Cardinality(Delivered) = Len(taken) =>
                 Len(results) = Len(taken) /\ Delivered = 1..Len(taken)
<1>1. Len(results) \in Nat /\ Len(taken) \in Nat /\ Len(results) <= Len(taken)
  <2>1. Len(rbatch) = 0
    BY EmptySeq DEF RIdle
  <2>2. Len(results) \in Nat /\ Len(taken) \in Nat
    BY LenProperties DEF ReadInv, IInv, RTypeOK
  <2> QED BY <2>1, <2>2 DEF ReadInv, IInv, AnsweredInOrder
<1>2. Delivered \subseteq 1..Len(results)
  BY DEF Delivered
<1>3. IsFiniteSet(1..Len(results)) /\ Cardinality(1..Len(results)) = Len(results)
  <2>1. 1 \in Int /\ Len(results) \in Int
    BY <1>1
  <2>2. IsFiniteSet(1..Len(results))
    BY <2>1, FS_Interval
  <2>3. Cardinality(1..Len(results)) = IF 1 > Len(results) THEN 0 ELSE Len(results) - 1 + 1
    BY <2>1, FS_Interval
  <2> QED BY <2>2, <2>3, <1>1
<1>4. /\ Cardinality(Delivered) <= Len(results)
      /\ Cardinality(Delivered) = Len(results) => Delivered = 1..Len(results)
  BY <1>2, <1>3, FS_Subset
<1>5. Cardinality(Delivered) \in Nat
  BY <1>2, <1>3, FS_Subset, FS_CardinalityType
<1> QED BY <1>1, <1>4, <1>5

(* Where the loop is after the results of a batch were counted.            *)
LEMMA AfterCounting ==
    ASSUME ReadInv, Again \/ Last
    PROVE  /\ AtFile /\ AtFile' /\ Blocks' = Blocks /\ UNCHANGED <<archiveVars, files, cur, failed>>
           /\ n_blocks_ok' = n_blocks_ok + Cardinality(Delivered)
           /\ Processed' \in Nat /\ Processed + Len(taken) <= Processed'
           /\ Processed' # Processed + Len(taken) => ReadQueueSz = 0
           /\ \A i \in 1..Len(taken) : taken[i] = Blocks[Processed + i]
           /\ n_blocks_ok' \in 0..Processed'
           /\ n_blocks_ok' = Processed' =>
                 /\ n_blocks_ok = Processed /\ Processed' = Processed + Len(taken)
                 /\ Len(results) = Len(taken) /\ Delivered = 1..Len(taken)
<1>1. /\ AtFile /\ AtFile' /\ RIdle /\ step \in {"again", "last"}
      /\ n_blocks_ok' = n_blocks_ok + Cardinality(Delivered)
      /\ UNCHANGED <<archiveVars, files, cur, failed>>
  BY DEF Again, Last, CountResults, AtFile, EnqueueRead, readVars
<1>2. Blocks' = Blocks
  BY <1>1 DEF Blocks, File, archiveVars
<1>3. /\ Len(Blocks) \in Nat \ {0} /\ taken \in Seq(BlockInfo) /\ Len(taken) \in Nat
      /\ Processed \in Nat /\ at \in Nat \ {0} /\ Batch = taken
      /\ n_blocks_ok \in 0..Processed /\ Processed = at - 1 - Len(taken)
  BY <1>1, FileStays, LenProperties DEF ReadInv, PlaceInv, Processed, Batch
<1>4. \A i \in 1..Len(taken) : taken[i] = Blocks[Processed + i]
  BY <1>1, <1>3 DEF ReadInv, PlaceInv
<1>5. /\ Processed' \in Nat /\ Processed + Len(taken) <= Processed'
      /\ Processed' # Processed + Len(taken) => ReadQueueSz = 0
  <2>1. CASE Last
    <3>1. Processed' = Len(Blocks) /\ Len(Blocks) = at - 1
      BY <1>2, <2>1 DEF Last, Processed, ReadInv, PlaceInv
    <3> QED BY <3>1, <1>3
  <2>2. CASE Again
    <3>1. rqueue = <<>> /\ Len(rqueue) = 0 /\ ReadQueueSz \in Nat
      BY <2>2, EmptySeq, ReadQueueAssumption DEF Again, ReadInv, PlaceInv
    <3>2. step' = "blocks" /\ at' = at + 1 /\ Processed' = at - Len(rqueue')
      BY <2>2, <1>3 DEF Again, Processed, Batch
    <3>3. CASE 0 < ReadQueueSz
      <4>1. rqueue' = Append(<<>>, Blocks[at])
        BY <2>2, <3>1, <3>3 DEF Again, EnqueueRead
      <4>2. Len(rqueue') = 1
        BY <4>1
      <4> QED BY <1>3, <3>2, <4>2
    <3>4. CASE ReadQueueSz = 0
      <4>1. rqueue' = rqueue
        BY <2>2, <3>1, <3>4 DEF Again, readVars, envVars
      <4> QED BY <1>3, <3>1, <3>2, <3>4, <4>1
    <3> QED BY <3>1, <3>3, <3>4
  <2> QED BY <2>1, <2>2
<1>6. /\ Cardinality(Delivered) \in 0..Len(taken)
      /\ Cardinality(Delivered) = Len(taken) =>
            Len(results) = Len(taken) /\ Delivered = 1..Len(taken)
  BY <1>1, Counting
<1>7. n_blocks_ok' \in 0..Processed'
  BY <1>1, <1>3, <1>5, <1>6
<1>8. ASSUME n_blocks_ok' = Processed'
      PROVE  /\ n_blocks_ok = Processed /\ Processed' = Processed + Len(taken)
             /\ Cardinality(Delivered) = Len(taken)
  BY <1>1, <1>3, <1>5, <1>6, <1>8
<1> QED BY <1>1, <1>2, <1>4, <1>5, <1>6, <1>7, <1>8

(* Requesting a block or taking the queue over moves no border between the *)
(* requests that are out and the blocks before them.                       *)
LEMMA Requesting ==
    ASSUME ReadInv, RequestBlock \/ EndOfBlocks
    PROVE  /\ PlaceInv' /\ AtFile /\ AtFile' /\ Blocks' = Blocks /\ Processed' = Processed
           /\ UNCHANGED <<archiveVars, readenvs, files, cur, n_blocks_ok, failed>>
           /\ UNCHANGED results \/ results' = <<>>
<1>0. UNCHANGED <<archiveVars, readenvs>> /\ (UNCHANGED results \/ results' = <<>>)
  BY DEF RequestBlock, EndOfBlocks, EnqueueRead, DrainReads, IterateReadQueue
<1>1. CASE RequestBlock
  <2>1. /\ step = "blocks" /\ AtFile /\ UNCHANGED <<files, cur, n_blocks_ok, failed>>
        /\ at \in 1..Len(Blocks) /\ UNCHANGED archiveVars
    BY <1>1 DEF RequestBlock, AtFile, ReadInv, LoopInv, EnqueueRead, DrainReads, IterateReadQueue
  <2>2. /\ Blocks' = Blocks /\ Blocks \in Seq(BlockInfo) /\ Len(Blocks) \in Nat
        /\ rqueue \in Seq(BlockInfo) /\ Len(rqueue) \in Nat /\ Processed \in Nat
        /\ Processed = at - 1 - Len(rqueue) /\ Batch = rqueue
        /\ Blocks[at] \in BlockInfo
    BY <2>1, FileStays, LenProperties, ElementOfSeq DEF Blocks, File, archiveVars, Processed, Batch
  <2>3. \A i \in 1..Len(rqueue) : rqueue[i] = Blocks[Processed + i]
    BY <2>1, <2>2 DEF ReadInv, PlaceInv
  <2>4. CASE Len(rqueue) < ReadQueueSz
    <3>1. rqueue' = Append(rqueue, Blocks[at]) /\ at' = at + 1 /\ step' = "blocks"
      BY <1>1, <2>1, <2>4 DEF RequestBlock, EnqueueRead
    <3>2. Len(rqueue') = Len(rqueue) + 1
      BY <2>2, <3>1, AppendProperties
    <3>3. Batch' = rqueue' /\ Processed' = Processed
      <4>1. Batch' = rqueue' /\ Processed' = at' - 1 - Len(rqueue')
        BY <2>1, <3>1 DEF Batch, Processed
      <4> QED BY <2>1, <2>2, <3>1, <3>2, <4>1
    <3>4. \A i \in 1..Len(rqueue') : rqueue'[i] = Blocks[Processed + i]
      <4>1. /\ \A i \in 1..Len(rqueue) : rqueue'[i] = rqueue[i]
            /\ rqueue'[Len(rqueue) + 1] = Blocks[at]
        BY <2>2, <3>1, AppendProperties
      <4>2. \A i \in 1..Len(rqueue') : i \in 1..Len(rqueue) \/ i = Len(rqueue) + 1
        BY <2>2, <3>2
      <4>3. ASSUME NEW i \in 1..Len(rqueue') PROVE rqueue'[i] = Blocks[Processed + i]
        <5>1. CASE i \in 1..Len(rqueue)
          BY <2>3, <4>1, <5>1
        <5>2. CASE i = Len(rqueue) + 1
          <6>1. Processed + i = at
            BY <2>1, <2>2, <5>2
          <6> QED BY <4>1, <5>2, <6>1
        <5> QED BY <4>2, <5>1, <5>2
      <4> QED BY <4>3
    <3> QED BY <1>0, <2>1, <2>2, <3>1, <3>3, <3>4 DEF ReadInv, PlaceInv, AtFile
  <2>5. CASE ~(Len(rqueue) < ReadQueueSz)
    <3>1. DrainReads /\ step' = "again" /\ at' = at
      BY <1>1, <2>5 DEF RequestBlock
    <3>2. taken' = rqueue /\ rqueue' = <<>>
      BY <3>1, DrainFacts DEF ReadInv
    <3>3. Batch' = rqueue /\ Processed' = Processed
      BY <2>2, <3>1, <3>2 DEF Batch, Processed
    <3> QED BY <1>0, <2>1, <2>2, <2>3, <3>1, <3>2, <3>3 DEF ReadInv, PlaceInv, AtFile
  <2> QED BY <2>4, <2>5
<1>2. CASE EndOfBlocks
  <2>1. /\ step = "blocks" /\ AtFile /\ UNCHANGED <<files, cur, at, n_blocks_ok, failed>>
        /\ at > Len(Blocks) /\ step' = "last" /\ DrainReads
    BY <1>2 DEF EndOfBlocks, AtFile
  <2>2. taken' = rqueue /\ rqueue' = <<>> /\ UNCHANGED archiveVars
    BY <2>1, DrainFacts DEF ReadInv
  <2>3. /\ Blocks' = Blocks /\ Len(Blocks) \in Nat /\ Processed \in Nat /\ at \in Nat
        /\ Batch = rqueue /\ Batch' = rqueue
    BY <2>1, <2>2, FileStays DEF Blocks, File, archiveVars, Batch
  <2>4. Processed' = Processed
    BY <2>1, <2>3 DEF Processed
  <2>5. at - 1 = Len(Blocks)
    BY <2>1, <2>3 DEF ReadInv, PlaceInv
  <2> QED BY <1>0, <2>1, <2>2, <2>3, <2>4, <2>5 DEF ReadInv, PlaceInv, AtFile
<1> QED BY <1>1, <1>2

LEMMA Starting ==
    ASSUME ReadInv, ToBlocks
    PROVE  PlaceInv' /\ Blocks' = Blocks /\ Processed' = 0
<1>1. /\ step' = "blocks" /\ at' = 1 /\ n_blocks_ok' = 0 /\ failed' = failed
      /\ rqueue' = <<>> /\ Blocks' = Blocks /\ Blocks # <<>>
  BY DEF ToBlocks, ReadInv, PlaceInv, LoopInv, OwnBlocksOnly, readVars, envVars,
              archiveVars, Blocks, File
<1>2. Len(<<>>) = 0 /\ Len(Blocks) \in Nat
  BY EmptySeq, BlocksTyped DEF ToBlocks, ReadInv, IInv, ArchInv
<1>3. Batch' = <<>> /\ Processed' = at' - 1 - Len(Batch')
  BY <1>1 DEF Processed, Batch
<1>4. Processed' = 0
  <2>1. Len(Batch') = 0
    BY <1>2, <1>3
  <2>2. at' = 1 /\ 1 - 1 - 0 = 0
    BY <1>1
  <2> QED BY <1>3, <2>1, <2>2
<1>5. at' - 1 <= Len(Blocks') /\ n_blocks_ok' \in 0..Processed' /\ Processed' \in Nat
  <2>1. at' - 1 = 0 /\ Len(Blocks') \in Nat
    BY <1>1, <1>2
  <2> QED BY <2>1, <1>1, <1>4
<1>6. \A i \in 1..Len(Batch') : Batch'[i] = Blocks'[Processed' + i]
  <2>1. Len(Batch') = 0
    BY <1>2, <1>3
  <2> QED BY <2>1
<1> QED BY <1>1, <1>4, <1>5, <1>6 DEF ReadInv, PlaceInv

LEMMA PlaceInvSteps ==
    ASSUME ReadInv, LoopStep
    PROVE  PlaceInv'
<1>1. CASE RequestBlock \/ EndOfBlocks
  BY <1>1, Requesting
<1>2. CASE ToBlocks
  BY <1>2, Starting
<1>3. CASE Last
  <2>1. /\ AtFile /\ AtFile' /\ Blocks' = Blocks /\ n_blocks_ok' \in 0..Processed'
        /\ failed' = failed /\ cur' = cur
    BY <1>3, AfterCounting
  <2>2. step = "last" /\ step' = "close" /\ at' = at /\ at - 1 = Len(Blocks)
    BY <1>3 DEF Last, ReadInv, PlaceInv
  <2> QED BY <2>1, <2>2 DEF ReadInv, PlaceInv
<1>4. CASE Again
  <2>1. /\ AtFile /\ AtFile' /\ Blocks' = Blocks /\ n_blocks_ok' \in 0..Processed'
        /\ failed' = failed /\ cur' = cur /\ Processed' \in Nat
        /\ Processed + Len(taken) <= Processed'
        /\ Processed' # Processed + Len(taken) => ReadQueueSz = 0
    BY <1>4, AfterCounting
  <2>2. /\ step = "again" /\ step' = "blocks" /\ at' = at + 1 /\ at \in 1..Len(Blocks)
        /\ rqueue = <<>> /\ Batch' = rqueue'
    BY <1>4 DEF Again, ReadInv, PlaceInv, LoopInv, Batch
  <2>3. Blocks \in Seq(BlockInfo) /\ Blocks[at] \in BlockInfo /\ Len(Blocks) \in Nat
    BY <2>1, <2>2, FileStays, ElementOfSeq
  <2>4. Processed' = at - Len(rqueue')
    BY <2>2, FileStays, <2>1 DEF Processed
  <2>5. \A i \in 1..Len(rqueue') : rqueue'[i] = Blocks[Processed' + i]
    <3>1. CASE 0 < ReadQueueSz
      <4>1. rqueue' = Append(<<>>, Blocks[at])
        BY <1>4, <2>2, <3>1, EmptySeq DEF Again, EnqueueRead
      <4>2. Len(rqueue') = 1 /\ rqueue'[1] = Blocks[at]
        BY <4>1
      <4> QED BY <2>2, <2>4, <4>2
    <3>2. CASE ~(0 < ReadQueueSz)
      <4>1. rqueue' = <<>> /\ Len(<<>>) = 0
        BY <1>4, <2>2, <3>2, EmptySeq DEF Again, readVars, envVars
      <4> QED BY <4>1
    <3> QED BY <3>1, <3>2
  <2> QED BY <2>1, <2>2, <2>3, <2>5 DEF ReadInv, PlaceInv
<1>5. CASE ToNextFile
  BY <1>5 DEF ToNextFile, NextFile, ReadInv, PlaceInv, AtFile
<1>7. CASE ToEnd
  BY <1>7 DEF ToEnd, ReadInv, PlaceInv, AtFile
<1>8. CASE Waits
  <2>1. UNCHANGED <<loopVars, rqueue, taken, fblockstore>>
    BY <1>8 DEF Waits, RunReadRequest, archiveVars
  <2>2. Blocks' = Blocks
    BY <2>1 DEF Blocks, File, loopVars
  <2>3. Batch' = Batch /\ Processed' = Processed
    BY <2>1, <2>2 DEF Batch, Processed, loopVars
  <2> QED BY <2>1, <2>2, <2>3 DEF ReadInv, PlaceInv, AtFile, loopVars
<1> QED BY <1>1, <1>2, <1>3, <1>4, <1>5, <1>7, <1>8 DEF LoopStep

(* Losing a chunk between two steps, or no step at all.                    *)
Still == Kept /\ UNCHANGED <<envVars, loopVars>>

LEMMA StillInv ==
    ASSUME ReadInv, Still
    PROVE  ReadInv'
<1>1. UNCHANGED <<readenvs, rqueue, rbatch, taken, results, loopVars, fblockstore>> /\ Kept
  BY DEF Still, envVars, Kept
<1>2. IInv'
  BY <1>1, BatchStays DEF ReadInv, IInv, RTypeOK
<1>3. LoopInv'
  BY <1>1, WaitInv DEF ReadInv
<1>4. Blocks' = Blocks
  BY <1>1 DEF Blocks, File, loopVars
<1>5. Batch' = Batch /\ Processed' = Processed
  BY <1>1, <1>4 DEF Batch, Processed, loopVars
<1>6. PlaceInv'
  BY <1>1, <1>4, <1>5 DEF ReadInv, PlaceInv, AtFile, loopVars
<1> QED BY <1>2, <1>3, <1>6 DEF ReadInv

LEMMA LoopStepReadInv ==
    ASSUME ReadInv, LoopStep
    PROVE  ReadInv'
<1>1. IInv'
  BY LoopStepReads DEF ReadInv
<1>2. LoopInv'
  BY LoopStepInv DEF ReadInv, IInv, ArchInv
<1>3. PlaceInv'
  BY PlaceInvSteps
<1> QED BY <1>1, <1>2, <1>3 DEF ReadInv

-----------------------------------------------------------------------------
(* What the answers say about the assemblies                               *)

(* Block bi can be restored from the assemblies in S.                      *)
Held(bi, S) ==
    /\ bi.blockaid \in S \cap (keystore \ badkeys)
    /\ \E j \in 1..Len(content[bi.blockaid]) : Describes(bi, content[bi.blockaid][j])

FileHeld(f, S) ==
    /\ fblockstore[f] # <<>>
    /\ \A j \in 1..Len(fblockstore[f]) : Held(fblockstore[f][j], S)

AllHeld(S) == \A i \in 1..Len(files) : FileHeld(files[i], S)

(* What was read could be read: S is what was complete when the tool began.*)
HeldInv(S) ==
    /\ intact \subseteq S
    /\ \A i \in 1..Len(readenvs) : readenvs[i] \in S \cap (keystore \ badkeys)
    /\ \A i \in Delivered : Held(results[i].request, S)
    /\ AtFile /\ n_blocks_ok = Processed => \A j \in 1..Processed : Held(Blocks[j], S)
    /\ failed = 0 => \A i \in 1..Len(files) : i < cur => FileHeld(files[i], S)

(* What was not read cannot be read, if anything could be asked for.       *)
MissingInv ==
    AtFile /\ n_blocks_ok < Processed /\ ReadQueueSz > 0 =>
        \E j \in 1..Processed : ~Held(Blocks[j], intact)

LEMMA HeldStays ==
    ASSUME Kept
    PROVE  /\ \A bi, S : Held(bi, S)' <=> Held(bi, S')
           /\ \A bi, S, T : S \subseteq T /\ Held(bi, S) => Held(bi, T)
<1>1. \A bi, S : Held(bi, S)' <=> Held(bi, S')
  BY DEF Held, Describes, Kept
<1>2. \A bi, S, T : S \subseteq T /\ Held(bi, S) => Held(bi, T)
  BY DEF Held
<1> QED BY <1>1, <1>2

(* A request that is served was for a block of an assembly at hand.        *)
LEMMA ServedHeld ==
    ASSUME NEW S, ReadInv, HeldInv(S), rbatch # <<>>, ServeRequest
    PROVE  /\ \A i \in 1..Len(readenvs') : readenvs'[i] \in S \cap (keystore \ badkeys)
           /\ Restore(Head(rbatch).blockaid, Head(rbatch)) # NoData => Held(Head(rbatch), S)
<1> DEFINE bi == Head(rbatch)
           a  == bi.blockaid
           K  == S \cap (keystore \ badkeys)
<1>1. EnvsOK(readenvs)
  BY DEF ReadInv, IInv, RTypeOK, EnvsOK
<1>2. a \in Aids
  <2>1. CASE Hit(a)
    BY <2>1, <1>1, ElementOfSeq DEF Hit, EnvsOK
  <2>2. CASE Miss(a)
    BY <2>2 DEF Miss, CanRestore, ReadInv, IInv, ArchiveTypeOK
  <2> QED BY <2>1, <2>2 DEF ServeRequest
<1>3. \A i \in 1..Len(readenvs) : readenvs[i] \in K
  BY DEF HeldInv
<1>4. a \in K
  <2>1. CASE Hit(a)
    BY <2>1, <1>3 DEF Hit
  <2>2. CASE Miss(a)
    BY <2>2 DEF Miss, CanRestore, HeldInv
  <2> QED BY <2>1, <2>2 DEF ServeRequest
<1>5. \A i \in 1..Len(readenvs') : readenvs'[i] \in K
  <2> HIDE DEF K, a
  <2>1. CASE Hit(a)
    <3>1. \A j \in 1..Len(readenvs') : \E i \in 1..Len(readenvs) : readenvs'[j] = readenvs[i]
      BY <2>1, <1>1, <1>2, HitKeeps
    <3> QED BY <3>1, <1>3
  <2>2. CASE Miss(a)
    <3>1. \A j \in 1..Len(readenvs') :
              readenvs'[j] = a \/ \E i \in 1..Len(readenvs) : readenvs'[j] = readenvs[i]
      BY <2>2, <1>1, <1>2, MissKeeps
    <3> QED BY <3>1, <1>3, <1>4
  <2> QED BY <2>1, <2>2 DEF ServeRequest, a
<1>6. Restore(a, bi) # NoData => Held(bi, S)
  BY <1>4 DEF Restore, Held
<1> QED BY <1>5, <1>6

LEMMA HeldInvSteps ==
    ASSUME NEW S, ReadInv, HeldInv(S), LoopStep
    PROVE  HeldInv(S)'
<1>1. Kept /\ \A bi : Held(bi, S)' <=> Held(bi, S)
  BY LoopKeeps, HeldStays
<1>2. intact' \subseteq S /\ \A f : FileHeld(f, S)' <=> FileHeld(f, S)
  BY <1>1 DEF HeldInv, Kept, FileHeld
<1>3. CASE RequestBlock \/ EndOfBlocks
  <2>1. /\ AtFile /\ AtFile' /\ Blocks' = Blocks /\ Processed' = Processed
        /\ UNCHANGED <<archiveVars, readenvs, files, cur, n_blocks_ok, failed>>
        /\ UNCHANGED results \/ results' = <<>>
    BY <1>3, Requesting
  <2>2. (\A i \in Delivered : Held(results[i].request, S))'
    <3>1. CASE results' = <<>>
      <4>1. Len(<<>>) = 0
        BY EmptySeq
      <4> QED BY <3>1, <4>1 DEF Delivered
    <3>2. CASE results' = results
      BY <3>2, <1>1 DEF Delivered, HeldInv
    <3> QED BY <2>1, <3>1, <3>2
  <2> QED BY <1>1, <1>2, <2>1, <2>2 DEF HeldInv, archiveVars
<1>4. CASE Again \/ Last
  <2>1. /\ AtFile /\ AtFile' /\ Blocks' = Blocks
        /\ UNCHANGED <<archiveVars, files, cur, failed>>
        /\ \A i \in 1..Len(taken) : taken[i] = Blocks[Processed + i]
        /\ n_blocks_ok' = Processed' =>
                 /\ n_blocks_ok = Processed /\ Processed' = Processed + Len(taken)
                 /\ Len(results) = Len(taken) /\ Delivered = 1..Len(taken)
    BY <1>4, AfterCounting
  <2>2. UNCHANGED <<readenvs, results>>
    BY <1>4 DEF Again, Last, EnqueueRead, readVars, envVars
  <2>3. Processed \in Nat /\ Len(taken) \in Nat
    BY <2>1, FileStays, LenProperties
  <2>4. ASSUME n_blocks_ok' = Processed', NEW j \in 1..Processed'
        PROVE  Held(Blocks[j], S)
    <3>1. CASE j \in 1..Processed
      BY <2>1, <2>4, <3>1 DEF HeldInv
    <3>2. CASE j \notin 1..Processed
      <4>1. j - Processed \in 1..Len(taken) /\ Processed + (j - Processed) = j
        BY <2>1, <2>3, <2>4, <3>2
      <4>2. Held(results[j - Processed].request, S)
        BY <2>1, <2>4, <4>1 DEF HeldInv
      <4>3. results[j - Processed].request = taken[j - Processed]
        BY <2>1, <2>4, <4>1 DEF ReadInv, IInv, AnsweredInOrder
      <4> QED BY <2>1, <4>1, <4>2, <4>3
    <3> QED BY <3>1, <3>2
  <2>5. (\A i \in Delivered : Held(results[i].request, S))'
    BY <1>1, <2>2 DEF Delivered, HeldInv
  <2> QED BY <1>1, <1>2, <2>1, <2>2, <2>4, <2>5 DEF HeldInv, archiveVars
<1>5. CASE ToNextFile
  <2>1. /\ UNCHANGED <<archiveVars, readenvs, results, files>> /\ ~AtFile' /\ cur' = cur + 1
        /\ cur \in Nat /\ failed \in Nat
    BY <1>5 DEF ToNextFile, NextFile, readVars, envVars, AtFile, ReadInv, LoopInv, PlaceInv
  <2>2. ASSUME failed' = 0, NEW i \in 1..Len(files), i < cur'
        PROVE  FileHeld(files[i], S)
    <3>1. failed = 0 /\ step = "close" /\ n_blocks_ok = Len(Blocks)
      BY <1>5, <2>1, <2>2 DEF ToNextFile, NextFile
    <3>2. CASE i < cur
      BY <2>2, <3>1, <3>2 DEF HeldInv
    <3>3. CASE i = cur
      <4>1. Blocks # <<>> /\ Processed = Len(Blocks) /\ AtFile
        BY <3>1 DEF ReadInv, PlaceInv, AtFile, Processed
      <4>2. \A j \in 1..Len(Blocks) : Held(Blocks[j], S)
        BY <3>1, <4>1 DEF HeldInv
      <4> QED BY <3>3, <4>1, <4>2 DEF FileHeld, Blocks, File
    <3> QED BY <2>1, <2>2, <3>2, <3>3
  <2>3. (\A i \in Delivered : Held(results[i].request, S))'
    BY <1>1, <2>1 DEF Delivered, HeldInv
  <2> QED BY <1>1, <1>2, <2>1, <2>2, <2>3 DEF HeldInv, archiveVars
<1>6. CASE ToBlocks
  <2>1. /\ UNCHANGED <<archiveVars, readenvs, results, files, cur, failed>> /\ Processed' = 0
    BY <1>6, Starting DEF ToBlocks, readVars, envVars
  <2>2. (\A i \in Delivered : Held(results[i].request, S))'
    BY <1>1, <2>1 DEF Delivered, HeldInv
  <2> QED BY <1>1, <1>2, <2>1, <2>2 DEF HeldInv, archiveVars
<1>7. CASE ToEnd
  <2>1. UNCHANGED <<archiveVars, readenvs, results, files, cur, failed>> /\ ~AtFile'
    BY <1>7 DEF ToEnd, readVars, envVars, AtFile
  <2>2. (\A i \in Delivered : Held(results[i].request, S))'
    BY <1>1, <2>1 DEF Delivered, HeldInv
  <2> QED BY <1>1, <1>2, <2>1, <2>2 DEF HeldInv, archiveVars
<1>8. CASE Waits
  <2>1. UNCHANGED <<loopVars, rqueue, taken, archiveVars>> /\ rbatch # <<>>
    BY <1>8 DEF Waits, RunReadRequest
  <2>2. Blocks' = Blocks /\ Processed' = Processed
    BY <2>1 DEF Blocks, File, loopVars, archiveVars, Batch, Processed
  <2>3. CASE StopBatch
    <3>1. UNCHANGED <<readenvs, results>>
      BY <2>3 DEF StopBatch
    <3>2. (\A i \in Delivered : Held(results[i].request, S))'
      BY <1>1, <3>1 DEF Delivered, HeldInv
    <3> QED BY <1>1, <1>2, <2>1, <2>2, <3>1, <3>2 DEF HeldInv, archiveVars, loopVars, AtFile
  <2>4. CASE ServeRequest
    <3> DEFINE bi  == Head(rbatch)
               ans == [request |-> bi, data |-> Restore(bi.blockaid, bi)]
    <3>1. /\ \A i \in 1..Len(readenvs') : readenvs'[i] \in S \cap (keystore \ badkeys)
          /\ ans.data # NoData => Held(ans.request, S)
      BY <2>1, <2>4, ServedHeld
    <3>2. results' = Append(results, ans) /\ results \in Seq(Answer) /\ ans \in Answer
      <4>1. bi \in BlockInfo /\ bi.blockaid \in Aids
        <5>1. bi \in BlockInfo
          BY <2>1, BatchFacts DEF ReadInv
        <5>2. EnvsOK(readenvs)
          BY DEF ReadInv, IInv, RTypeOK, EnvsOK
        <5>3. CASE Hit(bi.blockaid)
          BY <5>1, <5>2, <5>3, ElementOfSeq DEF Hit, EnvsOK
        <5>4. CASE Miss(bi.blockaid)
          BY <5>1, <5>4 DEF Miss, CanRestore, ReadInv, IInv, ArchiveTypeOK
        <5> QED BY <2>4, <5>3, <5>4 DEF ServeRequest
      <4>2. Restore(bi.blockaid, bi) \in Data \cup {NoData}
        BY <4>1, RestoreFacts DEF ReadInv, IInv
      <4> QED BY <2>4, <4>1, <4>2 DEF ServeRequest, Answer, ReadInv, IInv, RTypeOK
    <3> HIDE DEF ans
    <3>3. /\ Len(results) \in Nat /\ Len(results') = Len(results) + 1
          /\ \A i \in 1..Len(results) : results'[i] = results[i]
          /\ results'[Len(results) + 1] = ans
      BY <3>2, AppendProperties, LenProperties
    <3>4. ASSUME NEW i \in Delivered' PROVE Held(results'[i].request, S)
      <4>1. i \in 1..Len(results') /\ results'[i].data # NoData
        BY <3>4 DEF Delivered
      <4>2. CASE i \in 1..Len(results)
        BY <3>3, <4>1, <4>2 DEF Delivered, HeldInv
      <4>3. CASE i = Len(results) + 1
        BY <3>1, <3>3, <4>1, <4>3
      <4> QED BY <3>3, <4>1, <4>2, <4>3
    <3> QED BY <1>1, <1>2, <2>1, <2>2, <3>1, <3>4 DEF HeldInv, archiveVars, loopVars, AtFile
  <2> QED BY <1>8, <2>3, <2>4 DEF Waits, RunReadRequest
<1> QED BY <1>3, <1>4, <1>5, <1>6, <1>7, <1>8 DEF LoopStep

LEMMA MissingStays ==
    ASSUME Kept, NEW bi, ~Held(bi, intact)
    PROVE  ~Held(bi, intact)'
BY DEF Held, Describes, Kept

(* Why a block whose answer was counted did not come back.                 *)
LEMMA MissingAnswer ==
    ASSUME ReadInv, AtFile, RIdle, NEW i \in 1..Len(taken), i \notin Delivered,
           \A j \in 1..Len(taken) : \E fh \in FHash : \E k \in 1..Len(fblockstore[fh]) :
              taken[j] = fblockstore[fh][k]
    PROVE  \E j \in 1..Len(taken) : ~Held(taken[j], intact)
<1>1. \A b : Held(b, intact) => CanRestore(b.blockaid)
  BY DEF Held, CanRestore
<1>2. Len(results) \in Nat /\ Len(taken) \in Nat
  BY LenProperties DEF ReadInv, IInv, RTypeOK
<1>3. CASE i \in 1..Len(results)
  <2>1. results[i].data = NoData /\ results[i].request = taken[i] /\ taken[i] \in Stored
    BY <1>3 DEF Delivered, ReadInv, IInv, AnsweredInOrder, Stored
  <2>2. ASSUME Held(taken[i], intact) PROVE FALSE
    <3>1. PICK k \in 1..Len(content[taken[i].blockaid]) :
              Describes(taken[i], content[taken[i].blockaid][k])
      BY <2>2 DEF Held
    <3>2. taken[i].blockaid \in Aids
      BY <2>2 DEF Held, ReadInv, IInv, ArchiveTypeOK
    <3>3. content[taken[i].blockaid] \in Seq(Block)
      BY <3>2, ElementOfSeq DEF Aids, ReadInv, IInv, ArchiveTypeOK
    <3>4. content[taken[i].blockaid][k] \in Block
      BY <3>1, <3>3, ElementOfSeq
    <3>5. taken[i].blocksize > 0 /\ taken[i].bchecksum \in Data
      BY <3>1, <3>4 DEF Block, Describes
    <3>6. results[i].data = taken[i].bchecksum
      BY <1>3, <2>1, <3>5 DEF ReadInv, IInv, ReadBack
    <3> QED BY <2>1, <3>5, <3>6, NoDataAssumption
  <2> QED BY <2>2
<1>4. CASE i \notin 1..Len(results)
  <2>1. Len(results) < Len(taken) /\ Len(results) + 1 \in 1..Len(taken)
    BY <1>2, <1>4
  <2>2. ~CanRestore(taken[Len(results) + 1].blockaid)
    BY <2>1 DEF ReadInv, IInv, AnsweredInOrder, RIdle
  <2> QED BY <1>1, <2>1, <2>2
<1> QED BY <1>3, <1>4

LEMMA MissingInvSteps ==
    ASSUME ReadInv, MissingInv, LoopStep
    PROVE  MissingInv'
<1>1. Kept
  BY LoopKeeps
<1>2. \A bi : ~Held(bi, intact) => ~Held(bi, intact)'
  BY <1>1, MissingStays
<1>3. CASE RequestBlock \/ EndOfBlocks
  <2>1. AtFile /\ Blocks' = Blocks /\ Processed' = Processed /\ n_blocks_ok' = n_blocks_ok
    BY <1>3, Requesting
  <2> QED BY <1>2, <2>1 DEF MissingInv
<1>4. CASE Again \/ Last
  <2>1. /\ AtFile /\ AtFile' /\ Blocks' = Blocks
        /\ UNCHANGED <<archiveVars, files, cur, failed>>
        /\ n_blocks_ok' = n_blocks_ok + Cardinality(Delivered)
        /\ Processed' \in Nat /\ Processed + Len(taken) <= Processed'
        /\ Processed' # Processed + Len(taken) => ReadQueueSz = 0
        /\ \A i \in 1..Len(taken) : taken[i] = Blocks[Processed + i]
    BY <1>4, AfterCounting
  <2>2. /\ Processed \in Nat /\ Len(taken) \in Nat /\ n_blocks_ok \in 0..Processed
        /\ File \in FHash /\ Len(Blocks) \in Nat
    BY <2>1, FileStays, LenProperties DEF ReadInv, PlaceInv
  <2>3. RIdle /\ step \in {"again", "last"}
    BY <1>4 DEF Again, Last
  <2> SUFFICES ASSUME n_blocks_ok' < Processed', ReadQueueSz > 0
               PROVE  \E j \in 1..Processed' : ~Held(Blocks[j], intact)
    BY <1>2, <2>1 DEF MissingInv
  <2>4. Processed' = Processed + Len(taken)
    BY <2>1, ReadQueueAssumption
  <2>5. CASE n_blocks_ok < Processed
    <3>1. PICK j \in 1..Processed : ~Held(Blocks[j], intact)
      BY <2>1, <2>5 DEF MissingInv
    <3>2. j \in 1..Processed'
      BY <2>2, <2>4
    <3> QED BY <3>1, <3>2
  <2>6. CASE n_blocks_ok = Processed
    <3>1. Cardinality(Delivered) # Len(taken)
      BY <2>1, <2>2, <2>4, <2>6
    <3>2. PICK i \in 1..Len(taken) : i \notin Delivered
      <4>1. SUFFICES ASSUME 1..Len(taken) \subseteq Delivered PROVE FALSE
        OBVIOUS
      <4>2. Delivered \subseteq 1..Len(results) /\ Len(results) \in Nat
        BY LenProperties DEF Delivered, ReadInv, IInv, RTypeOK
      <4>3. Len(results) <= Len(taken)
        <5>1. Len(rbatch) = 0
          BY <2>3, EmptySeq DEF RIdle
        <5> QED BY <4>2, <5>1, <2>2 DEF ReadInv, IInv, AnsweredInOrder
      <4>4. Delivered = 1..Len(taken)
        <5>1. \A x \in 1..Len(results) : x \in 1..Len(taken)
          BY <2>2, <4>2, <4>3
        <5> QED BY <4>1, <4>2, <5>1
      <4>5. Cardinality(1..Len(taken)) = Len(taken)
        <5>1. 1 \in Int /\ Len(taken) \in Int
          BY <2>2
        <5>2. Cardinality(1..Len(taken)) = IF 1 > Len(taken) THEN 0 ELSE Len(taken) - 1 + 1
          BY <5>1, FS_Interval
        <5> QED BY <5>2, <2>2
      <4> QED BY <3>1, <4>4, <4>5
    <3>3. ASSUME NEW j \in 1..Len(taken)
          PROVE  \E fh \in FHash : \E k \in 1..Len(fblockstore[fh]) : taken[j] = fblockstore[fh][k]
      <4>1. PICK k \in 1..Len(Blocks) : taken[j] = Blocks[k]
        BY <2>3 DEF ReadInv, LoopInv, OwnBlocksOnly
      <4> QED BY <4>1, <2>2 DEF Blocks
    <3>4. PICK j \in 1..Len(taken) : ~Held(taken[j], intact)
      BY <2>1, <2>3, <3>2, <3>3, MissingAnswer
    <3>5. Processed + j \in 1..Processed'
      BY <2>2, <2>4
    <3> QED BY <2>1, <3>4, <3>5
  <2> QED BY <2>2, <2>5, <2>6
<1>5. CASE ToNextFile \/ ToEnd
  BY <1>5 DEF ToNextFile, NextFile, ToEnd, MissingInv, AtFile
<1>6. CASE ToBlocks
  <2>1. Processed' = 0 /\ n_blocks_ok' = 0
    BY <1>6, Starting DEF ToBlocks, ReadInv, PlaceInv
  <2> QED BY <2>1 DEF MissingInv
<1>7. CASE Waits
  <2>1. UNCHANGED <<loopVars, rqueue, taken, archiveVars>>
    BY <1>7 DEF Waits, RunReadRequest
  <2>2. Blocks' = Blocks /\ Processed' = Processed
    BY <2>1 DEF Blocks, File, loopVars, archiveVars, Batch, Processed
  <2> QED BY <1>2, <2>1, <2>2 DEF MissingInv, AtFile, loopVars
<1> QED BY <1>3, <1>4, <1>5, <1>6, <1>7 DEF LoopStep

LEMMA StillHeld ==
    ASSUME NEW S, ReadInv, Still
    PROVE  /\ HeldInv(S) => HeldInv(S)'
           /\ MissingInv => MissingInv'
<1>1. UNCHANGED <<readenvs, rqueue, taken, results, loopVars, fblockstore>> /\ Kept
  BY DEF Still, envVars, Kept
<1>2. Blocks' = Blocks /\ Processed' = Processed /\ AtFile' = AtFile /\ Delivered' = Delivered
  BY <1>1 DEF Blocks, File, loopVars, Batch, Processed, AtFile, Delivered
<1>3. \A bi : Held(bi, S)' <=> Held(bi, S)
  BY <1>1, HeldStays
<1>4. \A f : FileHeld(f, S)' <=> FileHeld(f, S)
  BY <1>1, <1>3 DEF FileHeld
<1>5. \A bi : ~Held(bi, intact) => ~Held(bi, intact)'
  BY <1>1, MissingStays
<1>6. HeldInv(S) => HeldInv(S)'
  BY <1>1, <1>2, <1>3, <1>4 DEF HeldInv, Kept, loopVars
<1>7. MissingInv => MissingInv'
  BY <1>1, <1>2, <1>5 DEF MissingInv, loopVars
<1> QED BY <1>6, <1>7

-----------------------------------------------------------------------------
(* The verdicts of both tools                                              *)

LEMMA SameHeld == \A S : V!AllRestorable(S) <=> AllHeld(S)
BY DEF V!AllRestorable, V!Restorable, V!Describes, AllHeld, FileHeld, Held, Describes

(* LXRverify counts a file as failed only for what it could not read.      *)
VerifyInv ==
    /\ HeldInv(sound)
    /\ failed # 0 /\ ReadQueueSz > 0 => ~AllHeld(intact)

(* LXRrestore reads from what was complete when it was started, which may  *)
(* be less than what LXRverify started with.                               *)
RestoreInv ==
    /\ \E S : HeldInv(S) /\ (verdict # 0 /\ ReadQueueSz > 0 => ~AllHeld(S))
    /\ verdict = 0 => AllHeld(sound)

VerdictInv ==
    /\ ReadInv
    /\ MissingInv
    /\ tool = "LXRverify" => VerifyInv
    /\ tool = "LXRrestore" => RestoreInv

LEMMA AllHeldStays ==
    ASSUME Kept, UNCHANGED files
    PROVE  /\ \A S : AllHeld(S)' <=> AllHeld(S)
           /\ AllHeld(intact)' => AllHeld(intact)
<1>1. /\ \A bi, S : Held(bi, S)' <=> Held(bi, S)
      /\ \A bi : Held(bi, intact)' => Held(bi, intact)
  BY HeldStays, MissingStays
<1>2. UNCHANGED fblockstore
  BY DEF Kept
<1>3. \A f, S : FileHeld(f, S)' <=> FileHeld(f, S)
  BY <1>1, <1>2 DEF FileHeld
<1>4. \A f : FileHeld(f, intact)' => FileHeld(f, intact)
  BY <1>1, <1>2 DEF FileHeld
<1> QED BY <1>3, <1>4 DEF AllHeld

(* A file that LXRverify counts as failed has no block or misses one.      *)
LEMMA Failing ==
    ASSUME ReadInv, MissingInv, V!Program, failed' # failed, ReadQueueSz > 0
    PROVE  ~AllHeld(intact)
<1>1. V!Blocks = Blocks
  BY DEF V!Blocks, V!File, Blocks, File
<1>2. V!UnknownFile \/ V!Judge
  BY DEF V!Program, V!StartFile, V!RequestBlock, V!RequestAgain, V!EndOfBlocks, V!LastResults,
         V!RunReadTurn, V!RecallRefused, V!AllFilesDone, V!loopVars
<1>3. CASE V!UnknownFile
  <2>1. step = "next" /\ cur <= Len(files) /\ Blocks = <<>>
    BY <1>1, <1>3 DEF V!UnknownFile
  <2>2. cur \in 1..Len(files)
    BY <2>1, LenProperties DEF ReadInv, LoopInv
  <2> QED BY <2>1, <2>2 DEF AllHeld, FileHeld, Blocks, File
<1>4. CASE V!Judge
  <2>1. step = "close" /\ AtFile /\ failed \in Nat
    BY <1>4 DEF V!Judge, AtFile, ReadInv, PlaceInv
  <2>2. n_blocks_ok # Len(Blocks)
    BY <1>1, <1>4, <2>1 DEF V!Judge, V!NextFile
  <2>3. n_blocks_ok < Processed /\ Processed = Len(Blocks)
    BY <2>1, <2>2, FileStays DEF Processed, ReadInv, PlaceInv
  <2>4. PICK j \in 1..Len(Blocks) : ~Held(Blocks[j], intact)
    BY <2>1, <2>3 DEF MissingInv
  <2>5. cur \in 1..Len(files)
    BY <2>1, FileStays
  <2> QED BY <2>4, <2>5 DEF AllHeld, FileHeld, Blocks, File
<1> QED BY <1>2, <1>3, <1>4

LEMMA VerdictInitInv == Init => VerdictInv
<1> SUFFICES ASSUME Init PROVE VerdictInv
  OBVIOUS
<1>1. /\ RInit /\ files \in CmdLines /\ cur = 1 /\ at = 1 /\ step = "next" /\ n_blocks_ok = 0
      /\ failed = 0 /\ sound = intact /\ tool = "LXRverify"
  BY DEF Init, ResInit, LInit, V!VInit
<1>2. IInv /\ Len(<<>>) = 0
  BY <1>1, InitHolds, EmptySeq
<1>3. readenvs = <<>> /\ results = <<>>
  BY <1>1 DEF RInit, REmpty
<1>4. LoopInv
  BY ToolsInitInv DEF ToolsInv
<1>5. PlaceInv /\ MissingInv
  BY <1>1 DEF PlaceInv, MissingInv, AtFile
<1>6. HeldInv(sound)
  <2>1. \A i \in 1..Len(files) : ~(i < cur)
    BY <1>1
  <2> QED BY <1>1, <1>2, <1>3, <2>1 DEF HeldInv, Delivered, AtFile
<1> QED BY <1>1, <1>2, <1>4, <1>5, <1>6 DEF VerdictInv, VerifyInv, ReadInv

LEMMA VerdictNextInv ==
    ASSUME VerdictInv, [Next]_<<vars, toolVars>>
    PROVE  VerdictInv'
<1>0. ReadInv /\ MissingInv
  BY DEF VerdictInv
<1>1. CASE Verifying
  <2>1. LoopStep /\ V!Program /\ tool = "LXRverify" /\ UNCHANGED <<tool, sound>>
    BY <1>1, VerifyingSteps DEF Verifying, V!Program
  <2>2. ReadInv' /\ MissingInv' /\ Kept /\ UNCHANGED files
    <3>1. UNCHANGED files
      BY <2>1 DEF LoopStep, RequestBlock, Again, EndOfBlocks, Last, ToNextFile, ToBlocks, ToEnd,
                  Waits, loopVars
    <3> QED BY <1>0, <2>1, <3>1, LoopStepReadInv, MissingInvSteps, LoopKeeps
  <2>3. HeldInv(sound)'
    <3>1. PICK S : S = sound
      OBVIOUS
    <3>2. HeldInv(S)
      BY <2>1, <3>1 DEF VerdictInv, VerifyInv
    <3>3. HeldInv(S)'
      BY <1>0, <2>1, <3>2, HeldInvSteps
    <3>4. sound' = S
      BY <2>1, <3>1
    <3> QED BY <3>3, <3>4 DEF HeldInv, FileHeld, Held
  <2>4. failed' # 0 /\ ReadQueueSz > 0 => ~AllHeld(intact)'
    BY <1>0, <2>1, <2>2, Failing, AllHeldStays DEF VerdictInv, VerifyInv
  <2> QED BY <2>1, <2>2, <2>3, <2>4 DEF VerdictInv, VerifyInv
<1>2. CASE BeginRestore
  <2>1. /\ tool = "LXRverify" /\ step = "done" /\ tool' = "LXRrestore" /\ verdict' = failed
        /\ readenvs' = <<>> /\ rqueue' = <<>> /\ rbatch' = <<>> /\ taken' = <<>>
        /\ results' = <<>> /\ cur' = 1 /\ at' = 1 /\ step' = "next" /\ n_blocks_ok' = 0
        /\ failed' = 0 /\ UNCHANGED <<archiveVars, files, sound>>
    BY <1>2 DEF BeginRestore
  <2>2. Len(<<>>) = 0 /\ \A X : <<>> \in Seq(X)
    BY EmptySeq
  <2>3. Kept
    BY <2>1 DEF archiveVars, Kept
  <2>4. IInv'
    <3>1. ArchiveTypeOK' /\ BlocksLocatable' /\ Aids' = Aids
      BY <1>0, <2>3, ArchiveStays DEF ReadInv, IInv
    <3>2. RTypeOK'
      BY <2>1, <2>2, ReadQueueAssumption DEF RTypeOK, EnvRoom
    <3>3. AnsweredInOrder'
      <4>1. SubSeq(<<>>, 1, 0) = <<>>
        BY SubSeqEmpty
      <4> QED BY <2>1, <2>2, <4>1 DEF AnsweredInOrder
    <3>4. ReadBack'
      BY <2>1, <2>2 DEF ReadBack
    <3> QED BY <3>1, <3>2, <3>3, <3>4 DEF IInv
  <2>5. LoopInv'
    BY <1>0, <2>1, <2>2 DEF ReadInv, LoopInv, OwnBlocksOnly, AtFile
  <2>6. PlaceInv' /\ MissingInv'
    BY <2>1 DEF PlaceInv, MissingInv, AtFile
  <2>7. cur > Len(files) /\ HeldInv(sound) /\ (failed # 0 /\ ReadQueueSz > 0 => ~AllHeld(intact))
    BY <1>0, <2>1 DEF ReadInv, PlaceInv, VerdictInv, VerifyInv
  <2>8. failed = 0 => AllHeld(sound)
    <3>1. \A i \in 1..Len(files) : i < cur
      BY <1>0, <2>7, LenProperties DEF ReadInv, LoopInv
    <3> QED BY <2>7, <3>1 DEF HeldInv, AllHeld
  <2>9. (verdict = 0 => AllHeld(sound))'
    <3>1. PICK T : T = sound
      OBVIOUS
    <3>2. verdict' = 0 => AllHeld(T)'
      BY <2>1, <2>3, <2>8, <3>1, AllHeldStays
    <3> QED BY <2>1, <3>1, <3>2 DEF AllHeld, FileHeld, Held
  <2>10. PICK S : S = intact
    OBVIOUS
  <2>11. HeldInv(S)'
    <3>1. \A i \in 1..Len(files') : ~(i < cur')
      BY <2>1
    <3> QED BY <2>1, <2>2, <2>10, <3>1 DEF HeldInv, Delivered, AtFile, archiveVars
  <2>12. (verdict # 0 /\ ReadQueueSz > 0 => ~AllHeld(S))'
    BY <2>1, <2>3, <2>7, <2>10, AllHeldStays
  <2> QED BY <2>1, <2>4, <2>5, <2>6, <2>9, <2>11, <2>12 DEF VerdictInv, RestoreInv, ReadInv
<1>3. ASSUME LoopStep \/ Still, tool = "LXRrestore", UNCHANGED <<tool, sound, verdict>>
      PROVE  VerdictInv'
  <2>1. UNCHANGED files
    BY <1>3 DEF LoopStep, RequestBlock, Again, EndOfBlocks, Last, ToNextFile, ToBlocks, ToEnd,
                Waits, Still, loopVars
  <2>2. ReadInv' /\ MissingInv' /\ Kept
    BY <1>0, <1>3, LoopStepReadInv, MissingInvSteps, LoopKeeps, StillInv, StillHeld DEF Still
  <2>3. PICK S : HeldInv(S) /\ (verdict # 0 /\ ReadQueueSz > 0 => ~AllHeld(S))
    BY <1>3 DEF VerdictInv, RestoreInv
  <2>4. HeldInv(S)'
    BY <1>0, <1>3, <2>3, HeldInvSteps, StillHeld
  <2>5. (verdict # 0 /\ ReadQueueSz > 0 => ~AllHeld(S))'
    BY <1>3, <2>1, <2>2, <2>3, AllHeldStays
  <2>6. (verdict = 0 => AllHeld(sound))'
    <3>1. PICK T : T = sound
      OBVIOUS
    <3>2. verdict' = 0 => AllHeld(T)'
      BY <1>3, <2>1, <2>2, <3>1, AllHeldStays DEF VerdictInv, RestoreInv
    <3> QED BY <1>3, <3>1, <3>2 DEF AllHeld, FileHeld, Held
  <2> QED BY <1>3, <2>2, <2>4, <2>5, <2>6 DEF VerdictInv, RestoreInv
<1>4. CASE Restoring
  BY <1>3, <1>4, ProgramSteps DEF Restoring, toolVars, LoopStep
<1>5. ASSUME Still, UNCHANGED toolVars
      PROVE  VerdictInv'
  <2>1. UNCHANGED <<tool, sound, verdict, files>> /\ Kept
    BY <1>5 DEF toolVars, Still, loopVars
  <2>2. ReadInv' /\ MissingInv'
    BY <1>0, <1>5, StillInv, StillHeld
  <2>3. tool = "LXRverify" => VerifyInv'
    <3> SUFFICES ASSUME tool = "LXRverify" PROVE VerifyInv'
      OBVIOUS
    <3>1. PICK S : S = sound
      OBVIOUS
    <3>2. HeldInv(S)'
      BY <1>0, <1>5, <3>1, StillHeld DEF VerdictInv, VerifyInv
    <3>3. HeldInv(sound)'
      BY <2>1, <3>1, <3>2 DEF HeldInv, FileHeld, Held
    <3>4. failed' = failed
      BY <1>5 DEF Still, loopVars
    <3> QED BY <2>1, <3>3, <3>4, AllHeldStays DEF VerdictInv, VerifyInv
  <2> QED BY <1>3, <1>5, <2>1, <2>2, <2>3 DEF VerdictInv
<1>6. ASSUME NEW a \in Aids, LoseChunk(a), UNCHANGED <<envVars, loopVars, outVars, toolVars>>
      PROVE  VerdictInv'
  BY <1>5, <1>6 DEF LoseChunk, Still, Kept
<1>7. CASE UNCHANGED <<vars, toolVars>>
  BY <1>5, <1>7 DEF vars, readVars, archiveVars, Still, Kept
<1> QED BY <1>1, <1>2, <1>4, <1>6, <1>7 DEF Next, Running

LEMMA VerdictInvariance == Spec => []VerdictInv
<1>1. Init => VerdictInv
  BY VerdictInitInv
<1>2. VerdictInv /\ [Next]_<<vars, toolVars>> => VerdictInv'
  BY VerdictNextInv
<1> QED BY <1>1, <1>2, PTL DEF Spec

(* Exit status 0 of LXRverify: every block of every file could be restored *)
(* from what was there when it was started; status 1, and nothing got lost *)
(* meanwhile: one could not be.  The queue has room for a request, as the  *)
(* one LXRverify makes has.                                                *)
THEOREM VerdictsAreRight ==
    ASSUME ReadQueueSz > 0
    PROVE  Spec => []VerdictIsRight
<1>1. VerdictInv => VerdictIsRight
  <2> SUFFICES ASSUME VerdictInv, tool = "LXRverify", step = "done" PROVE V!VerdictIsRight
    BY DEF VerdictIsRight, V!VerdictIsRight
  <2>1. cur > Len(files) /\ VerifyInv
    BY DEF VerdictInv, ReadInv, PlaceInv
  <2>2. \A i \in 1..Len(files) : i < cur
    BY <2>1, LenProperties DEF VerdictInv, ReadInv, LoopInv
  <2>3. failed = 0 => AllHeld(sound)
    BY <2>1, <2>2 DEF VerifyInv, HeldInv, AllHeld
  <2>4. AllHeld(intact) => failed = 0
    BY <2>1 DEF VerifyInv
  <2> QED BY <2>3, <2>4, SameHeld DEF V!VerdictIsRight
<1> QED BY <1>1, VerdictInvariance, PTL

-----------------------------------------------------------------------------
(* What a list of blocks is rebuilt to, block by block                     *)

(* The file after the first k blocks of bs, and what Expected counts then. *)
Upto(bs, k) ==
    LET file[i \in 0..Len(bs)] ==
            IF i = 0 THEN <<>>
            ELSE IF bs[i].blocksize = 0 THEN file[i-1]
            ELSE Overlay(file[i-1], bs[i].filepos, bs[i].bchecksum)
    IN  file[k]

SizeUpto(bs, k) ==
    LET sum[i \in 0..Len(bs)] == IF i = 0 THEN 0 ELSE sum[i-1] + bs[i].blocksize
    IN  sum[k]

(* Every block that has a length says where its bytes go.                  *)
Pieces(bs) ==
    \A i \in 1..Len(bs) :
        bs[i].blocksize # 0 => bs[i].filepos \in Nat /\ bs[i].bchecksum \in Seq(Byte)

LEMMA OverlayType ==
    ASSUME NEW c \in Seq(Byte), NEW pos \in Nat, NEW d \in Seq(Byte)
    PROVE  /\ Overlay(c, pos, d) \in Seq(Byte)
           /\ Len(Overlay(c, pos, d)) = IF pos + Len(d) > Len(c) THEN pos + Len(d) ELSE Len(c)
<1> DEFINE n == IF pos + Len(d) > Len(c) THEN pos + Len(d) ELSE Len(c)
<1>1. n \in Nat /\ Len(c) \in Nat /\ Len(d) \in Nat
  BY LenProperties
<1>2. ASSUME NEW i \in 1..n
      PROVE  (IF i \in pos+1..pos+Len(d) THEN d[i - pos]
              ELSE IF i <= Len(c) THEN c[i] ELSE Zero) \in Byte
  <2>1. CASE i \in pos+1..pos+Len(d)
    <3>1. i - pos \in 1..Len(d)
      BY <1>1, <2>1
    <3> QED BY <2>1, <3>1, ElementOfSeq
  <2>2. CASE i \notin pos+1..pos+Len(d) /\ i <= Len(c)
    <3>1. i \in 1..Len(c)
      BY <1>1, <2>2
    <3> QED BY <2>2, <3>1, ElementOfSeq
  <2> QED BY <2>1, <2>2, BytesAssumption
<1>3. Overlay(c, pos, d) = [i \in 1..n |-> IF i \in pos+1..pos+Len(d) THEN d[i - pos]
                                           ELSE IF i <= Len(c) THEN c[i] ELSE Zero]
  BY DEF Overlay
<1> HIDE DEF n
<1>4. Overlay(c, pos, d) \in [1..n -> Byte]
  BY <1>2, <1>3
<1>5. \A w \in [1..n -> Byte] : w \in Seq(Byte) /\ Len(w) = n
  BY <1>1
<1> QED BY <1>4, <1>5 DEF n

LEMMA UptoSteps ==
    ASSUME NEW bs, Len(bs) \in Nat, Pieces(bs)
    PROVE  /\ Upto(bs, 0) = <<>>
           /\ \A i \in 1..Len(bs) :
                 Upto(bs, i) = IF bs[i].blocksize = 0 THEN Upto(bs, i-1)
                               ELSE Overlay(Upto(bs, i-1), bs[i].filepos, bs[i].bchecksum)
           /\ \A i \in 0..Len(bs) : Upto(bs, i) \in Seq(Byte)
           /\ Rebuilt(bs) = Upto(bs, Len(bs))
<1> DEFINE n == Len(bs)
           X == Seq(Byte)
           none == <<>>
           G(file) == [i \in 0..n |-> IF i = 0 THEN none
                                      ELSE IF bs[i].blocksize = 0 THEN file[i-1]
                                      ELSE Overlay(file[i-1], bs[i].filepos, bs[i].bchecksum)]
           built == CHOOSE file : file = G(file)
           F == [i \in 1..n |-> [s \in X |->
                    IF bs[i].blocksize = 0 THEN s
                    ELSE Overlay(s, bs[i].filepos, bs[i].bchecksum)]]
<1>1. n \in Nat /\ none \in X
  BY EmptySeq
<1>2. ASSUME NEW i \in 1..n, NEW s \in X, bs[i].blocksize # 0
      PROVE  Overlay(s, bs[i].filepos, bs[i].bchecksum) \in X
  BY <1>2, OverlayType DEF Pieces
<1>3. \A k : Upto(bs, k) = built[k]
  BY DEF Upto
<1>3a. Rebuilt(bs) = Upto(bs, Len(bs))
  BY DEF Rebuilt, Upto
<1> HIDE DEF none, X
<1>4. F \in [1..n -> [X -> X]]
  BY <1>2
<1>5. PICK f \in [0..n -> X] : Solves(f, n, none, F)
  <2> HIDE DEF n, F
  <2> QED BY <1>1, <1>4, Recursion
<1>6. f[0] = none /\ \A i \in 1..n : f[i] = F[i][f[i - 1]]
  <2> HIDE DEF F
  <2> QED BY <1>5 DEF Solves
<1>7. f = G(f)
  <2>1. ASSUME NEW i \in 1..n
        PROVE  F[i][f[i - 1]] = IF bs[i].blocksize = 0 THEN f[i-1]
                                ELSE Overlay(f[i-1], bs[i].filepos, bs[i].bchecksum)
    <3>1. i - 1 \in 0..n
      BY <1>1
    <3>2. f[i - 1] \in X
      BY <3>1, <1>5
    <3> QED BY <3>2
  <2> HIDE DEF F
  <2>2. \A i \in 0..n : i = 0 \/ i \in 1..n
    BY <1>1
  <2>3. \A i \in 0..n : f[i] = G(f)[i]
    BY <2>1, <2>2, <1>6
  <2> QED BY <2>3, <1>5
<1>8. built = G(built)
  <2> HIDE DEF G
  <2> QED BY <1>7
<1> HIDE DEF built
<1>9. /\ built[0] = none
      /\ \A i \in 1..n : built[i] = IF bs[i].blocksize = 0 THEN built[i-1]
                                    ELSE Overlay(built[i-1], bs[i].filepos, bs[i].bchecksum)
  <2>1. \A i \in 0..n : built[i] = G(built)[i]
    BY <1>8
  <2>2. 0 \in 0..n /\ \A i \in 1..n : i \in 0..n /\ i # 0
    BY <1>1
  <2> QED BY <2>1, <2>2
<1>10. \A i \in 0..n : built[i] \in X
  <2> DEFINE T == {i \in 0..n : built[i] \in X}
  <2>1. 0 \in T
    BY <1>1, <1>9
  <2>2. ASSUME NEW i \in 1..n, i - 1 \in T PROVE i \in T
    <3>1. built[i - 1] \in X /\ i \in 0..n
      BY <1>1, <2>2
    <3> QED BY <1>2, <1>9, <3>1
  <2> HIDE DEF T, n
  <2>3. \A i \in 0..n : i \in T
    BY <1>1, <2>1, <2>2, StepByStep
  <2> QED BY <2>3 DEF T
<1> QED BY <1>3, <1>3a, <1>9, <1>10 DEF none, X

LEMMA SizeUptoSteps ==
    ASSUME NEW bs, Len(bs) \in Nat, \A i \in 1..Len(bs) : bs[i].blocksize \in Nat
    PROVE  /\ SizeUpto(bs, 0) = 0
           /\ \A i \in 1..Len(bs) : SizeUpto(bs, i) = SizeUpto(bs, i-1) + bs[i].blocksize
           /\ \A i \in 0..Len(bs) : SizeUpto(bs, i) \in Nat
<1> DEFINE n == Len(bs)
           G(sum) == [i \in 0..n |-> IF i = 0 THEN 0 ELSE sum[i-1] + bs[i].blocksize]
           total == CHOOSE sum : sum = G(sum)
           F == [i \in 1..n |-> [s \in Nat |-> s + bs[i].blocksize]]
<1>1. n \in Nat /\ 0 \in Nat
  OBVIOUS
<1>2. \A k : SizeUpto(bs, k) = total[k]
  BY DEF SizeUpto
<1>4. F \in [1..n -> [Nat -> Nat]]
  OBVIOUS
<1>5. PICK f \in [0..n -> Nat] : Solves(f, n, 0, F)
  <2> HIDE DEF n, F
  <2> QED BY <1>1, <1>4, Recursion
<1>6. f[0] = 0 /\ \A i \in 1..n : f[i] = F[i][f[i - 1]]
  <2> HIDE DEF F
  <2> QED BY <1>5 DEF Solves
<1>7. f = G(f)
  <2>1. ASSUME NEW i \in 1..n
        PROVE  F[i][f[i - 1]] = f[i-1] + bs[i].blocksize
    <3>1. i - 1 \in 0..n
      BY <1>1
    <3>2. f[i - 1] \in Nat
      BY <3>1, <1>5
    <3> QED BY <3>2
  <2> HIDE DEF F
  <2>2. \A i \in 0..n : i = 0 \/ i \in 1..n
    BY <1>1
  <2>3. \A i \in 0..n : f[i] = G(f)[i]
    BY <2>1, <2>2, <1>6
  <2> QED BY <2>3, <1>5
<1>8. total = G(total)
  <2> HIDE DEF G
  <2> QED BY <1>7
<1> HIDE DEF total
<1>9. total[0] = 0 /\ \A i \in 1..n : total[i] = total[i-1] + bs[i].blocksize
  <2>1. \A i \in 0..n : total[i] = G(total)[i]
    BY <1>8
  <2>2. 0 \in 0..n /\ \A i \in 1..n : i \in 0..n /\ i # 0
    BY <1>1
  <2> QED BY <2>1, <2>2
<1>10. \A i \in 0..n : total[i] \in Nat
  <2> DEFINE T == {i \in 0..n : total[i] \in Nat}
  <2>1. 0 \in T
    BY <1>1, <1>9
  <2>2. ASSUME NEW i \in 1..n, i - 1 \in T PROVE i \in T
    BY <1>9, <2>2, SMTT(30)
  <2> HIDE DEF T, n
  <2>3. \A i \in 0..n : i \in T
    BY <1>1, <2>1, <2>2, StepByStep
  <2> QED BY <2>3 DEF T
<1> QED BY <1>2, <1>9, <1>10

LEMMA DataIsBytes ==
    ASSUME NEW d \in Data
    PROVE  d \in Seq(Byte) /\ Size[d] = Len(d)
<1>1. PICK n \in 0..BlockSz : d \in [1..n -> Byte]
  BY BlocksAssumption
<1>2. n \in Nat
  BY BytesAssumption
<1>3. d \in Seq(Byte)
  BY <1>1, <1>2
<1> QED BY <1>3, BlocksAssumption

(* A block is as long as its content.                                      *)
SizesRight ==
    \A a \in Aids : \A i \in 1..Len(content[a]) :
        content[a][i].len = Size[content[a][i].data]

LEMMA StoredPieces ==
    ASSUME ArchInv, NEW f \in FHash
    PROVE  /\ Len(fblockstore[f]) \in Nat /\ Pieces(fblockstore[f])
           /\ \A i \in 1..Len(fblockstore[f]) : fblockstore[f][i].blocksize \in Nat
<1>1. fblockstore[f] \in Seq(BlockInfo)
  BY DEF ArchInv, ArchiveTypeOK
<1>2. Len(fblockstore[f]) \in Nat
  BY <1>1, LenProperties
<1>3. ASSUME NEW i \in 1..Len(fblockstore[f])
      PROVE  fblockstore[f][i].blocksize \in Nat /\ fblockstore[f][i].filepos \in Nat
  <2>1. fblockstore[f][i] \in BlockInfo
    BY <1>1, <1>3, ElementOfSeq
  <2> QED BY <2>1 DEF BlockInfo
<1>4. ASSUME NEW i \in 1..Len(fblockstore[f]), fblockstore[f][i].blocksize # 0
      PROVE  fblockstore[f][i].bchecksum \in Seq(Byte)
  <2> DEFINE bi == fblockstore[f][i]
  <2>1. bi.blockaid \in Aids
        /\ \E j \in 1..Len(content[bi.blockaid]) : Describes(bi, content[bi.blockaid][j])
    BY <1>4 DEF ArchInv, BlocksLocatable
  <2>2. content[bi.blockaid] \in Seq(Block)
    BY <2>1, ElementOfSeq DEF Aids, ArchInv, ArchiveTypeOK
  <2>3. PICK j \in 1..Len(content[bi.blockaid]) : Describes(bi, content[bi.blockaid][j])
    BY <2>1
  <2>4. content[bi.blockaid][j] \in Block
    BY <2>2, ElementOfSeq
  <2>5. bi.bchecksum \in Data
    BY <2>3, <2>4 DEF Describes, Block
  <2> QED BY <2>5, DataIsBytes
<1> QED BY <1>2, <1>3, <1>4 DEF Pieces

LEMMA HeldFacts ==
    ASSUME ArchInv, SizesRight, NEW bi, NEW S, Held(bi, S)
    PROVE  /\ bi.blocksize # 0 /\ bi.bchecksum \in Data /\ bi.bchecksum \in Seq(Byte)
           /\ bi.blocksize = Len(bi.bchecksum)
<1>1. bi.blockaid \in Aids
  BY DEF Held, ArchInv, ArchiveTypeOK
<1>2. content[bi.blockaid] \in Seq(Block)
  BY <1>1, ElementOfSeq DEF Aids, ArchInv, ArchiveTypeOK
<1>3. PICK j \in 1..Len(content[bi.blockaid]) : Describes(bi, content[bi.blockaid][j])
  BY DEF Held
<1>4. content[bi.blockaid][j] \in Block
  BY <1>2, ElementOfSeq
<1>5. bi.blocksize # 0 /\ bi.bchecksum \in Data /\ bi.blocksize = Size[bi.bchecksum]
  BY <1>1, <1>3, <1>4 DEF Describes, Block, SizesRight
<1> QED BY <1>5, DataIsBytes

(* The results of a batch that came back as a whole: all of its blocks, as *)
(* they are.                                                               *)
WholeBatch ==
    /\ step \in {"again", "last"} /\ RIdle
    /\ Len(results) = Len(taken) /\ Delivered = 1..Len(taken)

LEMMA WholeFacts ==
    ASSUME ReadInv, SizesRight, WholeBatch, NEW S, HeldInv(S), NEW i \in 1..Len(results)
    PROVE  /\ Processed + i \in 1..Len(Blocks)
           /\ results[i].request = Blocks[Processed + i]
           /\ results[i].data = Blocks[Processed + i].bchecksum
           /\ results[i].data \in Seq(Byte)
           /\ SubSeq(results[i].data, 1, Len(results[i].data)) = results[i].data
           /\ Blocks[Processed + i].blocksize # 0
           /\ Blocks[Processed + i].blocksize = Len(results[i].data)
<1>1. /\ AtFile /\ Batch = taken /\ Processed = at - 1 - Len(taken)
      /\ at - 1 <= Len(Blocks) /\ i \in Delivered /\ i \in 1..Len(taken)
  BY DEF WholeBatch, AtFile, Batch, Processed, ReadInv, PlaceInv
<1>2. Processed \in Nat /\ Len(Blocks) \in Nat /\ Len(taken) \in Nat /\ at \in Nat
  BY <1>1, FileStays
<1>3. Processed + i \in 1..Len(Blocks)
  BY <1>1, <1>2
<1>4. results[i].request = taken[i] /\ taken[i] = Blocks[Processed + i]
  BY <1>1 DEF ReadInv, IInv, AnsweredInOrder, PlaceInv, WholeBatch
<1>5. results[i].data # NoData /\ results[i].data \in {results[i].request.bchecksum, NoData}
  BY <1>1 DEF Delivered, ReadInv, IInv, ReadBack
<1>6. Held(results[i].request, S)
  BY <1>1 DEF HeldInv
<1>7. /\ results[i].request.blocksize # 0 /\ results[i].request.bchecksum \in Seq(Byte)
      /\ results[i].request.blocksize = Len(results[i].request.bchecksum)
  BY <1>6, HeldFacts DEF ReadInv, IInv, ArchInv
<1>8. results[i].data \in Seq(Byte) /\ results[i].data = results[i].request.bchecksum
  BY <1>5, <1>7
<1> DEFINE d == results[i].data
<1>9. SubSeq(d, 1, Len(d)) = d
  <2>1. d \in Seq(Byte)
    BY <1>8
  <2> HIDE DEF d
  <2> QED BY <2>1, SubSeqFull
<1> QED BY <1>3, <1>4, <1>7, <1>8, <1>9

LEMMA WrittenWhole ==
    ASSUME ReadInv, SizesRight, WholeBatch, NEW S, HeldInv(S),
           NEW put, \A i \in 1..Len(results) : put[i] = Len(results[i].data),
           out[File] = Upto(Blocks, Processed)
    PROVE  Written(put) = Upto(Blocks, Processed + Len(taken))
<1> DEFINE n == Len(results)
           p == Processed
           c == out[File]
           G(new) == [i \in 0..n |->
                        IF i = 0 THEN c
                        ELSE IF i \notin Delivered THEN new[i-1]
                        ELSE Overlay(new[i-1], results[i].request.filepos,
                                     SubSeq(results[i].data, 1, put[i]))]
           built == CHOOSE new : new = G(new)
           g == [i \in 0..n |-> Upto(Blocks, p + i)]
<1>1. Written(put) = built[n]
  BY DEF Written
<1>2. n \in Nat /\ p \in Nat /\ n = Len(taken) /\ Delivered = 1..n /\ File \in FHash
  BY FileStays, LenProperties DEF WholeBatch, AtFile
<1>3. \A j \in 1..Len(Blocks) :
          Upto(Blocks, j) = IF Blocks[j].blocksize = 0 THEN Upto(Blocks, j-1)
                            ELSE Overlay(Upto(Blocks, j-1), Blocks[j].filepos, Blocks[j].bchecksum)
  BY <1>2, StoredPieces, UptoSteps DEF Blocks, ReadInv, IInv, ArchInv
<1>4. ASSUME NEW i \in 1..n
      PROVE  Upto(Blocks, p + i) = Overlay(Upto(Blocks, p + (i-1)), results[i].request.filepos,
                                           SubSeq(results[i].data, 1, put[i]))
  <2>1. /\ p + i \in 1..Len(Blocks) /\ Blocks[p + i].blocksize # 0
        /\ results[i].request = Blocks[p + i] /\ results[i].data = Blocks[p + i].bchecksum
        /\ SubSeq(results[i].data, 1, put[i]) = results[i].data
    BY WholeFacts
  <2> DEFINE j == p + i
             k == p + (i-1)
             d == SubSeq(results[i].data, 1, put[i])
  <2>2. j - 1 = k
    BY <1>2
  <2>3. /\ j \in 1..Len(Blocks) /\ Blocks[j].blocksize # 0 /\ d = Blocks[j].bchecksum
        /\ results[i].request.filepos = Blocks[j].filepos
    BY <2>1
  <2> HIDE DEF j, k, d
  <2>4. Upto(Blocks, j) = Overlay(Upto(Blocks, k), Blocks[j].filepos, d)
    BY <1>3, <2>2, <2>3
  <2> QED BY <2>3, <2>4 DEF j, k, d
<1>5. g = G(g)
  <2>1. ASSUME NEW i \in 0..n PROVE g[i] = G(g)[i]
    <3>1. CASE i = 0
      <4>1. p + 0 = p
        BY <1>2
      <4> QED BY <3>1, <4>1
    <3>2. CASE i # 0
      <4>1. i \in 1..n /\ i - 1 \in 0..n /\ i \in Delivered
        BY <1>2, <3>2
      <4>2. g[i-1] = Upto(Blocks, p + (i-1)) /\ g[i] = Upto(Blocks, p + i)
        BY <4>1
      <4>3. G(g)[i] = Overlay(g[i-1], results[i].request.filepos,
                              SubSeq(results[i].data, 1, put[i]))
        <5> HIDE DEF g
        <5> QED BY <3>2, <4>1
      <4> QED BY <1>4, <4>1, <4>2, <4>3
    <3> QED BY <3>1, <3>2
  <2> QED BY <2>1
<1> HIDE DEF g
<1>6. built = G(built)
  <2> HIDE DEF G
  <2> QED BY <1>5
<1> HIDE DEF built
<1>7. built[0] = c
  <2>1. built[0] = G(built)[0]
    BY <1>6
  <2> QED BY <2>1, <1>2
<1>8. ASSUME NEW i \in 1..n
      PROVE  built[i] = Overlay(built[i-1], results[i].request.filepos,
                                SubSeq(results[i].data, 1, put[i]))
  <2>1. built[i] = G(built)[i]
    BY <1>6
  <2>2. i \in 0..n /\ i # 0 /\ i \in Delivered
    BY <1>2
  <2> QED BY <2>1, <2>2
<1> HIDE DEF G
<1> DEFINE T == {i \in 0..n : built[i] = Upto(Blocks, p + i)}
<1>9. 0 \in T
  <2>1. p + 0 = p
    BY <1>2
  <2> QED BY <1>2, <1>7, <2>1
<1>10. ASSUME NEW i \in 1..n, i - 1 \in T PROVE i \in T
  <2>1. built[i-1] = Upto(Blocks, p + (i-1)) /\ i \in 0..n
    BY <1>10
  <2>2. built[i] = Upto(Blocks, p + i)
    BY <1>4, <1>8, <2>1
  <2> QED BY <2>1, <2>2
<1>11. n \in T
  <2> HIDE DEF T, n
  <2>1. \A i \in 0..n : i \in T
    BY <1>2, <1>9, <1>10, StepByStep
  <2> QED BY <1>2, <2>1
<1> QED BY <1>1, <1>2, <1>11

LEMMA CountedWhole ==
    ASSUME ReadInv, SizesRight, WholeBatch, NEW S, HeldInv(S), n_restored = SizeUpto(Blocks, Processed)
    PROVE  n_restored + Counted = SizeUpto(Blocks, Processed + Len(taken))
<1> DEFINE n == Len(results)
           p == Processed
           G(sum) == [i \in 0..n |->
                        IF i = 0 THEN 0
                        ELSE sum[i-1] + (IF i \in Delivered THEN Len(results[i].data) ELSE 0)]
           total == CHOOSE sum : sum = G(sum)
           g == [i \in 0..n |-> SizeUpto(Blocks, p + i) - SizeUpto(Blocks, p)]
<1>1. Counted = total[n]
  BY DEF Counted
<1>2. /\ n \in Nat /\ p \in Nat /\ n = Len(taken) /\ Delivered = 1..n /\ File \in FHash
      /\ Len(Blocks) \in Nat
  BY FileStays, LenProperties DEF WholeBatch, AtFile
<1>3. /\ \A j \in 1..Len(Blocks) : SizeUpto(Blocks, j) = SizeUpto(Blocks, j-1) + Blocks[j].blocksize
      /\ \A j \in 0..Len(Blocks) : SizeUpto(Blocks, j) \in Nat
  BY <1>2, StoredPieces, SizeUptoSteps DEF Blocks, ReadInv, IInv, ArchInv
<1>4. ASSUME NEW i \in 1..n
      PROVE  /\ SizeUpto(Blocks, p + i) = SizeUpto(Blocks, p + (i-1)) + Len(results[i].data)
             /\ SizeUpto(Blocks, p + i) \in Nat /\ SizeUpto(Blocks, p + (i-1)) \in Nat
             /\ Len(results[i].data) \in Nat
  <2>1. /\ p + i \in 1..Len(Blocks) /\ results[i].data \in Seq(Byte)
        /\ Blocks[p + i].blocksize = Len(results[i].data)
    BY WholeFacts
  <2>2. p + i - 1 = p + (i-1) /\ p + (i-1) \in 0..Len(Blocks) /\ p + i \in 0..Len(Blocks)
    BY <1>2, <2>1
  <2>3. SizeUpto(Blocks, p + i) = SizeUpto(Blocks, p + (i-1)) + Len(results[i].data)
    <3> DEFINE j == p + i
               k == p + (i-1)
    <3>1. j - 1 = k
      BY <1>2
    <3>2. j \in 1..Len(Blocks) /\ Blocks[j].blocksize = Len(results[i].data)
      BY <2>1
    <3> HIDE DEF j, k
    <3>3. SizeUpto(Blocks, j) = SizeUpto(Blocks, k) + Len(results[i].data)
      BY <1>3, <3>1, <3>2
    <3> QED BY <3>3 DEF j, k
  <2> QED BY <1>3, <2>1, <2>2, <2>3, LenProperties
<1>5. SizeUpto(Blocks, p) \in Nat
  <2>1. p \in 0..Len(Blocks)
    <3>1. p = at - 1 - Len(taken) /\ at - 1 <= Len(Blocks) /\ at \in Nat
      BY FileStays DEF WholeBatch, AtFile, Batch, Processed, ReadInv, PlaceInv
    <3> QED BY <3>1, <1>2
  <2> QED BY <1>3, <2>1
<1>6. g = G(g)
  <2>1. ASSUME NEW i \in 0..n PROVE g[i] = G(g)[i]
    <3>1. CASE i = 0
      <4>1. p + 0 = p
        BY <1>2
      <4> QED BY <3>1, <4>1, <1>5
    <3>2. CASE i # 0
      <4>1. i \in 1..n /\ i - 1 \in 0..n /\ i \in Delivered
        BY <1>2, <3>2
      <4>2. g[i-1] = SizeUpto(Blocks, p + (i-1)) - SizeUpto(Blocks, p) /\ g[i] = SizeUpto(Blocks, p + i) - SizeUpto(Blocks, p)
        BY <4>1
      <4>3. G(g)[i] = g[i-1] + Len(results[i].data)
        <5> HIDE DEF g
        <5> QED BY <3>2, <4>1
      <4> HIDE DEF g, G
      <4> QED BY <1>4, <1>5, <4>1, <4>2, <4>3
    <3> QED BY <3>1, <3>2
  <2> QED BY <2>1
<1> HIDE DEF g
<1>7. total = G(total)
  <2> HIDE DEF G
  <2> QED BY <1>6
<1> HIDE DEF total
<1>8. total[0] = 0
  <2>1. total[0] = G(total)[0]
    BY <1>7
  <2> QED BY <2>1, <1>2
<1>9. ASSUME NEW i \in 1..n
      PROVE  total[i] = total[i-1] + Len(results[i].data)
  <2>1. total[i] = G(total)[i]
    BY <1>7
  <2>2. i \in 0..n /\ i # 0 /\ i \in Delivered
    BY <1>2
  <2> QED BY <2>1, <2>2
<1> HIDE DEF G
<1> DEFINE T == {i \in 0..n : total[i] = SizeUpto(Blocks, p + i) - SizeUpto(Blocks, p)}
<1>10. 0 \in T
  <2>1. p + 0 = p
    BY <1>2
  <2> QED BY <1>2, <1>5, <1>8, <2>1
<1>11. ASSUME NEW i \in 1..n, i - 1 \in T PROVE i \in T
  <2>1. total[i-1] = SizeUpto(Blocks, p + (i-1)) - SizeUpto(Blocks, p) /\ i \in 0..n
    BY <1>11
  <2>2. total[i] = SizeUpto(Blocks, p + i) - SizeUpto(Blocks, p)
    <3> DEFINE a == SizeUpto(Blocks, p)
               b == SizeUpto(Blocks, p + (i-1))
               d == SizeUpto(Blocks, p + i)
               l == Len(results[i].data)
    <3>1. d = b + l /\ a \in Nat /\ b \in Nat /\ l \in Nat
      BY <1>4, <1>5
    <3>2. total[i-1] = b - a /\ total[i] = total[i-1] + l
      BY <1>9, <2>1
    <3> HIDE DEF a, b, d, l
    <3>3. total[i] = d - a
      BY <3>1, <3>2
    <3> QED BY <3>3 DEF a, d
  <2> QED BY <2>1, <2>2
<1>12. n \in T
  <2> HIDE DEF T, n
  <2>1. \A i \in 0..n : i \in T
    BY <1>2, <1>10, <1>11, StepByStep
  <2> QED BY <1>2, <2>1
<1>13. total[n] = SizeUpto(Blocks, p + n) - SizeUpto(Blocks, p) /\ SizeUpto(Blocks, p + n) \in Int
  <2>1. SizeUpto(Blocks, p + n) \in Int
    <3>1. CASE n = 0
      <4>1. p + n = p
        BY <1>2, <3>1
      <4> QED BY <4>1, <1>5
    <3>2. CASE n # 0
      <4>1. n \in 1..n
        BY <1>2, <3>2
      <4> QED BY <1>4, <4>1
    <3> QED BY <3>1, <3>2
  <2> QED BY <1>12, <2>1
<1> QED BY <1>1, <1>2, <1>5, <1>13

-----------------------------------------------------------------------------
(* What LXRrestore writes                                                  *)

(* As long as all blocks came back, the file holds just these, and what    *)
(* was counted is their size.                                              *)
WritesInv ==
    AtFile /\ n_blocks_ok = Processed =>
        /\ n_restored = SizeUpto(Blocks, Processed)
        /\ ShortWrites = FALSE => out[File] = Upto(Blocks, Processed)

(* Only files that were turned to are there that were not before.          *)
TouchedInv ==
    \A f \in FHash : out[f] # before[f] =>
        \E i \in 1..Len(files) : /\ files[i] = f /\ i <= cur
                                 /\ i = cur => step \notin {"next", "done"}

Restored(f) == fblockstore[f] # <<>> /\ before[f] = NoFile /\ out[f] = Rebuilt(fblockstore[f])

Twice(i) == \E j \in 1..Len(files) : j # i /\ files[j] = files[i]

(* As long as no file failed, those before the one in work are restored,   *)
(* each of them named once.                                                *)
SoFarGood ==
    failed = 0 =>
        /\ \A i \in 1..Len(files) : i < cur => Restored(files[i])
        /\ \A i, j \in 1..Len(files) : i < cur /\ j < cur /\ files[i] = files[j] => i = j
        /\ AtFile => \A i \in 1..Len(files) : i < cur => files[i] # File

(* If one failed it is unknown, was there before, is missing or was named  *)
(* twice.                                                                  *)
Blamed(i) ==
    \/ fblockstore[files[i]] = <<>>
    \/ before[files[i]] # NoFile
    \/ out[files[i]] = NoFile
    \/ Twice(i)

FailureIsReal == failed # 0 => \E i \in 1..Len(files) : i < cur /\ Blamed(i)

ResultInv == NothingPartial /\ SoFarGood /\ FailureIsReal

(* What these need of the other invariants.                                *)
Base ==
    /\ ToolsInv /\ ReadInv /\ SizesRight
    /\ tool = "LXRrestore"
    /\ \E S : HeldInv(S)

(* A file that is turned away or unknown, whatever the reason.             *)
Refused ==
    /\ step = "next" /\ cur <= Len(files)
    /\ NextFile(1)
    /\ UNCHANGED <<readVars, outVars, files>>

Quiet == (RequestBlock \/ EndOfBlocks \/ ToEnd \/ Waits) /\ UNCHANGED outVars

LEMMA ProgramCases ==
    Program => Quiet \/ Refused \/ CreateTarget \/ ((Again \/ Last) /\ WriteResults) \/ CloseTarget
<1>1. UnknownFile /\ UNCHANGED outVars => Refused
  BY DEF UnknownFile, Refused, readVars, outVars
<1>2. TargetRefused => Refused
  BY DEF TargetRefused, Refused
<1>3. /\ (AllFilesDone \/ RecallRefused) /\ UNCHANGED outVars => Quiet
      /\ DirectoryRefused \/ RemovalRefused => Quiet
  BY DEF AllFilesDone, RecallRefused, DirectoryRefused, RemovalRefused, Quiet, ToEnd,
         readVars, outVars
<1>4. RequestAgain => Again
  BY DEF RequestAgain, Again
<1>5. LastResults => Last
  BY DEF LastResults, Last
<1> QED BY <1>1, <1>2, <1>3, <1>4, <1>5 DEF Program, Quiet, Waits, RunReadTurn, outVars, loopVars

(* What a quiet step leaves as it is.                                      *)
LEMMA QuietFacts ==
    ASSUME ReadInv, Quiet \/ (Still /\ UNCHANGED outVars)
    PROVE  /\ UNCHANGED <<files, cur, n_blocks_ok, failed, fblockstore, out, before, n_restored>>
           /\ AtFile' => AtFile /\ Processed' = Processed
           /\ \/ step' = step
              \/ AtFile /\ AtFile'
              \/ step = "next" /\ step' = "done" /\ cur > Len(files)
              \/ step' = "aborted" /\ step # "aborted"
<1>1. CASE (RequestBlock \/ EndOfBlocks) /\ UNCHANGED outVars
  <2>1. /\ AtFile /\ AtFile' /\ Processed' = Processed
        /\ UNCHANGED <<archiveVars, files, cur, n_blocks_ok, failed>>
    BY <1>1, Requesting
  <2> QED BY <1>1, <2>1 DEF archiveVars, outVars
<1>2. CASE ToEnd /\ UNCHANGED outVars
  BY <1>2 DEF ToEnd, AtFile, readVars, archiveVars, outVars
<1>3. CASE (Waits \/ Still) /\ UNCHANGED outVars
  <2>1. UNCHANGED <<loopVars, rqueue, taken, fblockstore>>
    BY <1>3 DEF Waits, Still, Kept, envVars, RunReadRequest, archiveVars
  <2>2. Blocks' = Blocks
    BY <2>1 DEF Blocks, File, loopVars
  <2> QED BY <1>3, <2>1, <2>2 DEF Batch, Processed, AtFile, loopVars, outVars
<1> QED BY <1>1, <1>2, <1>3 DEF Quiet

LEMMA WritesSteps ==
    ASSUME Base, WritesInv, Program \/ (Still /\ UNCHANGED outVars)
    PROVE  WritesInv'
<1>1. CASE Quiet \/ (Still /\ UNCHANGED outVars)
  <2>1. /\ UNCHANGED <<files, cur, n_blocks_ok, fblockstore, out, n_restored>>
        /\ AtFile' => AtFile /\ Processed' = Processed
    BY <1>1, QuietFacts DEF Base
  <2>2. Blocks' = Blocks /\ File' = File
    BY <2>1 DEF Blocks, File
  <2> QED BY <2>1, <2>2 DEF WritesInv
<1>2. CASE Refused \/ CloseTarget
  BY <1>2 DEF Refused, CloseTarget, NextFile, WritesInv, AtFile
<1>3. CASE CreateTarget
  <2>1. ToBlocks
    BY <1>3 DEF CreateTarget, ToBlocks
  <2>2. Blocks' = Blocks /\ Processed' = 0 /\ File' = File
    BY <2>1, Starting DEF Base, ToBlocks, File
  <2>3. cur \in 1..Len(files) /\ files \in Seq(FHash)
    BY <2>1, LenProperties DEF ToBlocks, Base, ReadInv, LoopInv
  <2>4. File \in FHash
    BY <2>3, ElementOfSeq DEF File
  <2>5. n_restored' = 0 /\ out'[File] = <<>>
    BY <1>3, <2>4 DEF CreateTarget, Base, ToolsInv, OutInv
  <2>6. SizeUpto(Blocks, 0) = 0 /\ Upto(Blocks, 0) = <<>>
    BY <2>4, StoredPieces, SizeUptoSteps, UptoSteps DEF Blocks, Base, ToolsInv
  <2> QED BY <2>2, <2>5, <2>6 DEF WritesInv
<1>4. CASE (Again \/ Last) /\ WriteResults
  <2>1. /\ AtFile /\ Blocks' = Blocks /\ UNCHANGED <<files, cur>>
        /\ n_blocks_ok' = Processed' =>
                 /\ n_blocks_ok = Processed /\ Processed' = Processed + Len(taken)
                 /\ Len(results) = Len(taken) /\ Delivered = 1..Len(taken)
    BY <1>4, AfterCounting DEF Base
  <2> SUFFICES ASSUME n_blocks_ok' = Processed'
               PROVE  /\ n_restored' = SizeUpto(Blocks', Processed')
                      /\ ShortWrites = FALSE => out'[File'] = Upto(Blocks', Processed')
    BY DEF WritesInv
  <2>2. WholeBatch
    BY <1>4, <2>1 DEF WholeBatch, Again, Last
  <2>3. PICK S : HeldInv(S)
    BY DEF Base
  <2>4. n_restored' = SizeUpto(Blocks, Processed + Len(taken))
    BY <1>4, <2>1, <2>2, <2>3, CountedWhole DEF WritesInv, WriteResults, Base
  <2>6. ASSUME ShortWrites = FALSE PROVE out'[File] = Upto(Blocks, Processed + Len(taken))
    <3>1. PICK put \in [1..Len(results) -> 0..BlockSz] :
              /\ \A i \in Delivered : put[i] = Len(results[i].data)
              /\ out' = [out EXCEPT ![File] = Written(put)]
      BY <1>4, <2>6 DEF WriteResults
    <3>2. \A i \in 1..Len(results) : put[i] = Len(results[i].data)
      BY <2>1, <3>1
    <3>3. out[File] = Upto(Blocks, Processed)
      BY <2>1, <2>6 DEF WritesInv
    <3>4. Written(put) = Upto(Blocks, Processed + Len(taken))
      BY <2>2, <2>3, <3>2, <3>3, WrittenWhole DEF Base
    <3>5. File \in FHash
      BY <2>1, FileStays DEF Base
    <3> QED BY <3>1, <3>4, <3>5 DEF Base, ToolsInv, OutInv
  <2>7. File' = File
    BY <2>1 DEF File
  <2> QED BY <2>1, <2>4, <2>6, <2>7
<1> QED BY <1>1, <1>2, <1>3, <1>4, ProgramCases

(* A file is written only while it is in work; it was not there before.    *)
LEMMA WritingFacts ==
    ASSUME Base, CreateTarget \/ ((Again \/ Last) /\ WriteResults) \/ CloseTarget
    PROVE  /\ cur \in 1..Len(files) /\ File \in FHash /\ before[File] = NoFile
           /\ UNCHANGED <<files, before, fblockstore>>
           /\ \A f \in FHash : f # File => out'[f] = out[f]
           /\ step # "next" => AtFile
<1>1. /\ UNCHANGED <<files, before, fblockstore>>
      /\ AtFile \/ (step = "next" /\ cur <= Len(files))
      /\ step # "next" => AtFile
  BY DEF CreateTarget, WriteResults, Again, Last, EnqueueRead, CloseTarget, readVars, archiveVars,
         AtFile
<1>2. cur \in 1..Len(files) /\ files \in Seq(FHash)
  BY <1>1, LenProperties DEF Base, ReadInv, LoopInv
<1>3. File \in FHash
  BY <1>2, ElementOfSeq DEF File
<1>4. before[File] = NoFile
  <2>1. CASE AtFile
    BY <2>1 DEF Base, ToolsInv, OutInv
  <2>2. CASE ~AtFile
    <3>1. out[File] = NoFile
      BY <2>2 DEF CreateTarget, Again, Last, CloseTarget, AtFile
    <3> QED BY <1>3, <3>1 DEF Base, ToolsInv, OutInv, ExistingIsKept
  <2> QED BY <2>1, <2>2
<1>5. \A f \in FHash : f # File => out'[f] = out[f]
  <2>1. DOMAIN out = FHash
    BY DEF Base, ToolsInv, OutInv
  <2> QED BY <2>1 DEF CreateTarget, WriteResults, CloseTarget
<1> QED BY <1>1, <1>2, <1>3, <1>4, <1>5

LEMMA TouchedSteps ==
    ASSUME Base, TouchedInv, Program \/ (Still /\ UNCHANGED outVars)
    PROVE  TouchedInv'
<1>0. cur \in Nat
  BY DEF Base, ReadInv, LoopInv
<1>1. CASE Quiet \/ (Still /\ UNCHANGED outVars)
  <2>1. /\ UNCHANGED <<files, cur, out, before>>
        /\ step' \in {"next", "done"} => step \in {"next", "done"}
    BY <1>1, QuietFacts DEF Base, AtFile
  <2> QED BY <2>1 DEF TouchedInv
<1>2. CASE Refused
  <2>1. UNCHANGED <<files, out, before>> /\ cur' = cur + 1
    BY <1>2 DEF Refused, NextFile, outVars
  <2> QED BY <1>0, <2>1 DEF TouchedInv
<1>3. CASE CreateTarget \/ ((Again \/ Last) /\ WriteResults)
  <2>1. /\ cur \in 1..Len(files) /\ UNCHANGED <<files, before, cur>>
        /\ \A f \in FHash : f # File => out'[f] = out[f]
        /\ step' \notin {"next", "done"}
    BY <1>3, WritingFacts DEF CreateTarget, Again, Last
  <2> SUFFICES ASSUME NEW f \in FHash, out'[f] # before[f]
               PROVE  \E i \in 1..Len(files) : files[i] = f /\ i <= cur
    BY <2>1 DEF TouchedInv
  <2>2. CASE f = File
    BY <1>0, <2>1, <2>2 DEF File
  <2>3. CASE f # File
    BY <2>1, <2>3 DEF TouchedInv
  <2> QED BY <2>2, <2>3
<1>4. CASE CloseTarget
  <2>1. /\ cur \in 1..Len(files) /\ UNCHANGED <<files, before>> /\ cur' = cur + 1
        /\ \A f \in FHash : f # File => out'[f] = out[f]
    BY <1>4, WritingFacts DEF CloseTarget, NextFile
  <2> SUFFICES ASSUME NEW f \in FHash, out'[f] # before[f]
               PROVE  \E i \in 1..Len(files) : files[i] = f /\ i <= cur
    BY <1>0, <2>1 DEF TouchedInv
  <2>2. CASE f = File
    BY <1>0, <2>1, <2>2 DEF File
  <2>3. CASE f # File
    BY <2>1, <2>3 DEF TouchedInv
  <2> QED BY <2>2, <2>3
<1> QED BY <1>1, <1>2, <1>3, <1>4, ProgramCases

(* A file is kept only when all of its blocks were written.                *)
LEMMA KeptIsRebuilt ==
    ASSUME Base, WritesInv, ShortWrites = FALSE, step = "close", n_blocks_ok = Len(Blocks)
    PROVE  out[File] = Rebuilt(Blocks) /\ Blocks # <<>>
<1>1. AtFile /\ Processed = Len(Blocks)
  BY DEF AtFile, Processed
<1>2. File \in FHash /\ Blocks # <<>>
  BY <1>1, FileStays DEF Base, ReadInv, PlaceInv
<1>3. Rebuilt(Blocks) = Upto(Blocks, Len(Blocks))
  BY <1>2, StoredPieces, UptoSteps DEF Blocks, Base, ToolsInv
<1> QED BY <1>1, <1>2, <1>3 DEF WritesInv

LEMMA RebuiltIsFile ==
    ASSUME ArchInv, NEW f \in FHash
    PROVE  Rebuilt(fblockstore[f]) # NoFile
<1> DEFINE bs == fblockstore[f]
<1>1. Len(bs) \in Nat /\ Pieces(bs)
  BY StoredPieces
<1> HIDE DEF bs
<1>2. Rebuilt(bs) = Upto(bs, Len(bs)) /\ Upto(bs, Len(bs)) \in Seq(Byte)
  <2>1. Len(bs) \in 0..Len(bs)
    BY <1>1
  <2> QED BY <1>1, <2>1, UptoSteps
<1> QED BY <1>2, NoFileAssumption DEF bs

LEMMA NothingPartialSteps ==
    ASSUME Base, WritesInv, NothingPartial, ShortWrites = FALSE,
           Program \/ (Still /\ UNCHANGED outVars)
    PROVE  NothingPartial'
<1>1. CASE Quiet \/ (Still /\ UNCHANGED outVars)
  <2>1. /\ UNCHANGED <<files, cur, out, before, fblockstore>>
        /\ step' \in {"next", "done"} => step \in {"next", "done"}
    BY <1>1, QuietFacts DEF Base, AtFile
  <2>2. File' = File
    BY <2>1 DEF File
  <2> QED BY <2>1, <2>2 DEF NothingPartial
<1>2. CASE Refused
  <2>1. UNCHANGED <<out, before, fblockstore>> /\ step = "next"
    BY <1>2 DEF Refused, outVars, readVars, archiveVars
  <2> QED BY <2>1 DEF NothingPartial
<1>3. CASE CreateTarget \/ ((Again \/ Last) /\ WriteResults)
  <2>1. /\ UNCHANGED <<files, before, cur, fblockstore>>
        /\ \A f \in FHash : f # File => out'[f] = out[f]
        /\ step' \notin {"next", "done"}
    BY <1>3, WritingFacts DEF CreateTarget, Again, Last
  <2>2. File' = File
    BY <2>1 DEF File
  <2> QED BY <2>1, <2>2 DEF NothingPartial
<1>4. CASE CloseTarget
  <2>1. /\ File \in FHash /\ before[File] = NoFile /\ UNCHANGED <<before, fblockstore>>
        /\ \A f \in FHash : f # File => out'[f] = out[f]
    BY <1>4, WritingFacts
  <2>2. out'[File] \in {before[File], Rebuilt(fblockstore[File])}
    <3>1. CASE out' = [out EXCEPT ![File] = NoFile]
      BY <2>1, <3>1 DEF Base, ToolsInv, OutInv
    <3>2. CASE out' # [out EXCEPT ![File] = NoFile]
      <4>1. n_blocks_ok = Len(Blocks) /\ out' = out /\ step = "close"
        BY <1>4, <3>2 DEF CloseTarget
      <4> QED BY <4>1, KeptIsRebuilt DEF Blocks
    <3> QED BY <3>1, <3>2
  <2> QED BY <2>1, <2>2 DEF NothingPartial
<1> QED BY <1>1, <1>2, <1>3, <1>4, ProgramCases

LEMMA SoFarGoodSteps ==
    ASSUME Base, WritesInv, SoFarGood, ShortWrites = FALSE,
           Program \/ (Still /\ UNCHANGED outVars)
    PROVE  SoFarGood'
<1>0. cur \in Nat /\ failed \in Nat /\ files \in Seq(FHash)
  BY DEF Base, ReadInv, LoopInv, PlaceInv
<1>0a. \A i \in 1..Len(files) : files[i] \in FHash
  BY <1>0, ElementOfSeq
<1>1. CASE Quiet \/ (Still /\ UNCHANGED outVars)
  <2>1. /\ UNCHANGED <<files, cur, failed, out, before, fblockstore>>
        /\ AtFile' => AtFile
    BY <1>1, QuietFacts DEF Base
  <2>2. File' = File
    BY <2>1 DEF File
  <2> QED BY <2>1, <2>2 DEF SoFarGood, Restored
<1>2. CASE Refused
  <2>1. failed' # 0
    BY <1>0, <1>2 DEF Refused, NextFile
  <2> QED BY <2>1 DEF SoFarGood
<1>3. CASE CreateTarget \/ ((Again \/ Last) /\ WriteResults)
  <2>1. /\ UNCHANGED <<files, before, cur, fblockstore, failed>>
        /\ \A f \in FHash : f # File => out'[f] = out[f]
    BY <1>3, WritingFacts DEF CreateTarget, Again, Last
  <2> SUFFICES ASSUME failed = 0 PROVE SoFarGood'
    BY <2>1 DEF SoFarGood
  <2>2. ASSUME NEW i \in 1..Len(files), i < cur PROVE files[i] # File
    <3>1. CASE AtFile
      BY <2>2, <3>1 DEF SoFarGood
    <3>2. CASE CreateTarget
      <4>1. out[File] = NoFile /\ Restored(files[i])
        BY <2>2, <3>2 DEF CreateTarget, SoFarGood
      <4>2. Rebuilt(fblockstore[files[i]]) # NoFile
        BY <1>0a, RebuiltIsFile DEF Base, ToolsInv
      <4> QED BY <4>1, <4>2 DEF Restored
    <3> QED BY <1>3, <3>1, <3>2 DEF Again, Last, AtFile
  <2>3. File' = File
    BY <2>1 DEF File
  <2>4. \A i \in 1..Len(files) : i < cur => Restored(files[i])'
    BY <1>0a, <2>1, <2>2 DEF SoFarGood, Restored
  <2> QED BY <2>1, <2>2, <2>3, <2>4 DEF SoFarGood
<1>4. CASE CloseTarget
  <2>1. /\ UNCHANGED <<files, before, fblockstore>> /\ cur' = cur + 1 /\ ~AtFile'
        /\ File \in FHash /\ before[File] = NoFile /\ AtFile
    BY <1>4, WritingFacts DEF CloseTarget, NextFile, AtFile
  <2> SUFFICES ASSUME failed' = 0 PROVE SoFarGood'
    BY DEF SoFarGood
  <2>2. failed = 0 /\ step = "close" /\ n_blocks_ok = Len(Blocks) /\ out' = out
    BY <1>0, <1>4 DEF CloseTarget, NextFile
  <2>3. Restored(File)
    BY <2>1, <2>2, KeptIsRebuilt DEF Restored, Blocks
  <2>4. ASSUME NEW i \in 1..Len(files), i < cur' PROVE Restored(files[i])
    <3>1. CASE i < cur
      BY <2>2, <3>1 DEF SoFarGood
    <3>2. CASE i = cur
      BY <2>3, <3>2 DEF File
    <3> QED BY <1>0, <2>1, <2>4, <3>1, <3>2
  <2>5. ASSUME NEW i \in 1..Len(files), NEW j \in 1..Len(files), i < cur', j < cur',
               files[i] = files[j]
        PROVE  i = j
    <3>1. \A k \in 1..Len(files) : k < cur => files[k] # files[cur]
      BY <2>1, <2>2 DEF SoFarGood, File
    <3>2. CASE i < cur /\ j < cur
      BY <2>2, <2>5, <3>2 DEF SoFarGood
    <3>3. CASE i = cur \/ j = cur
      BY <1>0, <2>1, <2>5, <3>1, <3>3
    <3> QED BY <1>0, <2>1, <2>5, <3>2, <3>3
  <2>6. \A f : Restored(f) => Restored(f)'
    BY <2>1, <2>2 DEF Restored
  <2> QED BY <2>1, <2>4, <2>5, <2>6 DEF SoFarGood
<1> QED BY <1>1, <1>2, <1>3, <1>4, ProgramCases

LEMMA FailureSteps ==
    ASSUME Base, TouchedInv, FailureIsReal, Program \/ (Still /\ UNCHANGED outVars)
    PROVE  FailureIsReal'
<1>0. cur \in Nat \ {0} /\ failed \in Nat /\ files \in Seq(FHash) /\ Len(files) \in Nat
  BY LenProperties DEF Base, ReadInv, LoopInv, PlaceInv
<1>0a. \A i \in 1..Len(files) : files[i] \in FHash
  BY <1>0, ElementOfSeq
<1>1. CASE Quiet \/ (Still /\ UNCHANGED outVars)
  <2>1. UNCHANGED <<files, cur, failed, out, before, fblockstore>>
    BY <1>1, QuietFacts DEF Base
  <2> QED BY <2>1 DEF FailureIsReal, Blamed, Twice
<1>2. CASE Refused
  <2>1. /\ UNCHANGED <<files, out, before, fblockstore>> /\ cur' = cur + 1 /\ step = "next"
        /\ cur \in 1..Len(files)
    BY <1>0, <1>2 DEF Refused, NextFile, outVars, readVars, archiveVars
  <2>2. Blamed(cur)
    <3>1. ASSUME before[File] = NoFile, out[File] # NoFile PROVE Twice(cur)
      <4>1. PICK i \in 1..Len(files) : files[i] = File /\ i # cur
        BY <1>0a, <2>1, <3>1 DEF TouchedInv, File
      <4> QED BY <4>1 DEF Twice, File
    <3> QED BY <3>1 DEF Blamed, File
  <2>3. PICK k : k = cur
    OBVIOUS
  <2>4. Blamed(k)' /\ k \in 1..Len(files') /\ k < cur'
    BY <1>0, <2>1, <2>2, <2>3 DEF Blamed, Twice
  <2> QED BY <2>4 DEF FailureIsReal
<1>3. CASE CreateTarget \/ ((Again \/ Last) /\ WriteResults)
  <2>1. /\ UNCHANGED <<files, before, cur, fblockstore, failed>> /\ cur \in 1..Len(files)
        /\ \A f \in FHash : f # File => out'[f] = out[f]
    BY <1>3, WritingFacts DEF CreateTarget, Again, Last
  <2> SUFFICES ASSUME failed # 0 PROVE \E i \in 1..Len(files) : i < cur /\ Blamed(i)'
    BY <2>1 DEF FailureIsReal
  <2>2. PICK i \in 1..Len(files) : i < cur /\ Blamed(i)
    BY DEF FailureIsReal
  <2>3. CASE files[i] = File
    <3>1. Twice(i)'
      BY <1>0, <2>1, <2>2, <2>3 DEF Twice, File
    <3> QED BY <2>2, <3>1 DEF Blamed
  <2>4. CASE files[i] # File
    BY <1>0a, <2>1, <2>2, <2>4 DEF Blamed, Twice
  <2> QED BY <2>3, <2>4
<1>4. CASE CloseTarget
  <2>1. /\ UNCHANGED <<files, before, fblockstore>> /\ cur \in 1..Len(files) /\ cur' = cur + 1
        /\ File \in FHash
    BY <1>4, WritingFacts DEF CloseTarget, NextFile
  <2>2. CASE NextFile(1) /\ out' = [out EXCEPT ![File] = NoFile]
    <3>1. out'[files[cur]] = NoFile
      BY <2>1, <2>2 DEF Base, ToolsInv, OutInv, File
    <3>2. PICK k : k = cur
      OBVIOUS
    <3>3. Blamed(k)' /\ k \in 1..Len(files') /\ k < cur'
      BY <1>0, <2>1, <3>1, <3>2 DEF Blamed
    <3> QED BY <3>3 DEF FailureIsReal
  <2>3. CASE NextFile(0) /\ UNCHANGED out
    <3>1. failed' = failed
      BY <1>0, <2>3 DEF NextFile
    <3> QED BY <1>0, <2>1, <2>3, <3>1 DEF FailureIsReal, Blamed, Twice
  <2> QED BY <1>4, <2>2, <2>3 DEF CloseTarget
<1> QED BY <1>1, <1>2, <1>3, <1>4, ProgramCases

-----------------------------------------------------------------------------
(* The invariant about the output directory                                *)

OutputInv ==
    /\ ToolsInv /\ VerdictInv /\ SizesRight
    /\ tool \in {"LXRverify", "LXRrestore"}
    /\ tool = "LXRverify" => out = before
    /\ tool = "LXRrestore" =>
          /\ WritesInv /\ TouchedInv
          /\ ShortWrites = FALSE => ResultInv

LEMMA SizesStay ==
    ASSUME SizesRight, Kept
    PROVE  SizesRight'
BY DEF SizesRight, Kept, Aids

LEMMA OutputInitInv == Init => OutputInv
<1> SUFFICES ASSUME Init PROVE OutputInv
  OBVIOUS
<1>1. ToolsInv /\ VerdictInv
  BY ToolsInitInv, VerdictInitInv
<1>2. RInit /\ out = before /\ tool = "LXRverify"
  BY DEF Init, ResInit, LInit
<1>3. SizesRight
  <2>1. PICK arc \in Archives : content = arc.content
    BY <1>2 DEF RInit
  <2>2. ArchiveOK(arc)
    BY ArchivesAssumption
  <2> QED BY <2>1, <2>2 DEF ArchiveOK, SizesRight, Aids
<1> QED BY <1>1, <1>2, <1>3 DEF OutputInv

LEMMA OutputNextInv ==
    ASSUME OutputInv, [Next]_<<vars, toolVars>>
    PROVE  OutputInv'
<1>1. ToolsInv' /\ VerdictInv'
  BY ToolsNextInv, VerdictNextInv DEF OutputInv
<1>2. CASE Verifying
  <2>1. LoopStep /\ tool' = tool /\ tool = "LXRverify" /\ UNCHANGED <<out, before>>
    BY <1>2, VerifyingSteps DEF Verifying, outVars
  <2>2. SizesRight'
    BY <2>1, LoopKeeps, SizesStay DEF OutputInv
  <2> QED BY <1>1, <2>1, <2>2 DEF OutputInv
<1>3. CASE BeginRestore
  <2>1. /\ tool = "LXRverify" /\ tool' = "LXRrestore" /\ step' = "next" /\ cur' = 1 /\ failed' = 0
        /\ UNCHANGED <<archiveVars, files, out, before>>
    BY <1>3 DEF BeginRestore, outVars
  <2>2. SizesRight'
    BY <2>1, SizesStay DEF OutputInv, archiveVars, Kept
  <2>3. out' = before'
    BY <2>1 DEF OutputInv
  <2>4. WritesInv' /\ TouchedInv' /\ NothingPartial' /\ FailureIsReal'
    BY <2>1, <2>3 DEF WritesInv, TouchedInv, NothingPartial, FailureIsReal, AtFile
  <2>5. SoFarGood'
    <3>1. \A i \in 1..Len(files') : ~(i < cur')
      BY <2>1
    <3> QED BY <2>1, <3>1 DEF SoFarGood, AtFile
  <2> QED BY <1>1, <2>1, <2>2, <2>4, <2>5 DEF OutputInv, ResultInv
<1>4. ASSUME Program \/ (Still /\ UNCHANGED outVars), tool = "LXRrestore", tool' = tool
      PROVE  OutputInv'
  <2>1. Base
    BY <1>4 DEF OutputInv, VerdictInv, RestoreInv, Base
  <2>2. Kept
    BY <1>4, ProgramSteps, LoopKeeps DEF LoopStep, Still
  <2>3. SizesRight'
    BY <2>2, SizesStay DEF OutputInv
  <2>4. WritesInv' /\ TouchedInv'
    BY <1>4, <2>1, WritesSteps, TouchedSteps DEF OutputInv
  <2>5. ShortWrites = FALSE => ResultInv'
    <3> SUFFICES ASSUME ShortWrites = FALSE PROVE ResultInv'
      OBVIOUS
    <3>1. WritesInv /\ TouchedInv /\ NothingPartial /\ SoFarGood /\ FailureIsReal
      BY <1>4 DEF OutputInv, ResultInv
    <3>2. NothingPartial'
      BY <1>4, <2>1, <3>1, NothingPartialSteps
    <3>3. SoFarGood'
      BY <1>4, <2>1, <3>1, SoFarGoodSteps
    <3>4. FailureIsReal'
      BY <1>4, <2>1, <3>1, FailureSteps
    <3> QED BY <3>2, <3>3, <3>4 DEF ResultInv
  <2> QED BY <1>1, <1>4, <2>3, <2>4, <2>5 DEF OutputInv
<1>5. CASE Restoring
  BY <1>4, <1>5 DEF Restoring, toolVars
<1>6. ASSUME Still, UNCHANGED <<outVars, toolVars>>
      PROVE  OutputInv'
  <2>1. CASE tool = "LXRrestore"
    BY <1>4, <1>6, <2>1 DEF toolVars
  <2>2. CASE tool # "LXRrestore"
    <3>1. SizesRight'
      BY <1>6, SizesStay DEF OutputInv, Still
    <3> QED BY <1>1, <1>6, <2>2, <3>1 DEF OutputInv, outVars, toolVars
  <2> QED BY <2>1, <2>2
<1>7. ASSUME NEW a \in Aids, LoseChunk(a), UNCHANGED <<envVars, loopVars, outVars, toolVars>>
      PROVE  OutputInv'
  BY <1>6, <1>7 DEF LoseChunk, Still, Kept
<1>8. CASE UNCHANGED <<vars, toolVars>>
  BY <1>6, <1>8 DEF vars, readVars, archiveVars, Still, Kept
<1> QED BY <1>2, <1>3, <1>5, <1>7, <1>8 DEF Next, Running

LEMMA OutputInvariance == Spec => []OutputInv
<1>1. Init => OutputInv
  BY OutputInitInv
<1>2. OutputInv /\ [Next]_<<vars, toolVars>> => OutputInv'
  BY OutputNextInv
<1> QED BY <1>1, <1>2, PTL DEF Spec

-----------------------------------------------------------------------------
(* Theorems about what is written and what the exit status says            *)

(* No file is left behind that misses a block, whatever happens to the     *)
(* chunks: but for the one in work, the output directory holds what was    *)
(* there before and complete files.  fwrite writes what it is given.       *)
THEOREM NothingIsPartial ==
    ASSUME ShortWrites = FALSE
    PROVE  Spec => []NothingPartial
<1>1. OutputInv => NothingPartial
  <2>1. ASSUME OutputInv, tool = "LXRverify" PROVE NothingPartial
    BY <2>1 DEF OutputInv, NothingPartial, AtFile
  <2>2. ASSUME OutputInv, tool = "LXRrestore" PROVE NothingPartial
    BY <2>2 DEF OutputInv, ResultInv
  <2> QED BY <2>1, <2>2 DEF OutputInv
<1> QED BY <1>1, OutputInvariance, PTL

(* Exit status 0 of LXRrestore: every file was asked for once, was not     *)
(* there and was restored; any other status: for one of them that is not   *)
(* so.                                                                     *)
THEOREM ExitStatusIsRight ==
    ASSUME ShortWrites = FALSE
    PROVE  Spec => []StatusIsRight
<1>1. OutputInv => StatusIsRight
  <2> SUFFICES ASSUME OutputInv, tool = "LXRrestore", step = "done"
               PROVE  failed = 0 <=>
                        /\ \A i, j \in 1..Len(files) : files[i] = files[j] => i = j
                        /\ \A i \in 1..Len(files) : Restored(files[i])
    BY DEF StatusIsRight, StatusTellsAll, Restored
  <2>1. SoFarGood /\ FailureIsReal
    BY DEF OutputInv, ResultInv
  <2>2. \A i \in 1..Len(files) : i < cur
    BY LenProperties DEF OutputInv, VerdictInv, ReadInv, PlaceInv, LoopInv
  <2>3. CASE failed = 0
    BY <2>1, <2>2, <2>3 DEF SoFarGood
  <2>4. CASE failed # 0
    <3>1. PICK i \in 1..Len(files) : Blamed(i)
      BY <2>1, <2>4 DEF FailureIsReal
    <3>2. files[i] \in FHash
      BY <3>1, ElementOfSeq DEF OutputInv, VerdictInv, ReadInv, LoopInv
    <3>3. Rebuilt(fblockstore[files[i]]) # NoFile
      BY <3>2, RebuiltIsFile DEF OutputInv, ToolsInv
    <3> QED BY <2>4, <3>1, <3>3 DEF Blamed, Twice, Restored
  <2> QED BY <2>3, <2>4
<1> QED BY <1>1, OutputInvariance, PTL

(* A file that LXRverify found to be restorable is restored with all its   *)
(* bytes as long as nothing got lost since, and LXRrestore does not end    *)
(* with status 0 where LXRverify did not.  The queue has room for a        *)
(* request.                                                                *)
THEOREM BothToolsAgree ==
    ASSUME ReadQueueSz > 0
    PROVE  Spec => []ToolsAgree
<1>1. OutputInv => ToolsAgree
  <2> SUFFICES ASSUME OutputInv, tool = "LXRrestore" PROVE ToolsAgree
    BY DEF ToolsAgree
  <2>1. ReadInv /\ MissingInv /\ RestoreInv /\ WritesInv /\ ToolsInv
    BY DEF OutputInv, VerdictInv
  <2>2. ASSUME verdict = 0, intact = sound, step = "close"
        PROVE  n_blocks_ok = Len(Blocks) /\ n_restored = Expected
    <3>1. AtFile /\ Processed = Len(Blocks)
      BY <2>2 DEF AtFile, Processed
    <3>2. cur \in 1..Len(files)
      BY <2>1, <3>1, FileStays
    <3>3. \A j \in 1..Len(Blocks) : Held(Blocks[j], intact)
      BY <2>1, <2>2, <3>2 DEF RestoreInv, AllHeld, FileHeld, Blocks, File
    <3>4. n_blocks_ok = Processed
      BY <2>1, <3>1, <3>3, FileStays DEF MissingInv, ReadInv, PlaceInv
    <3>5. n_restored = SizeUpto(Blocks, Len(Blocks))
      BY <2>1, <3>1, <3>4 DEF WritesInv
    <3>6. SizeUpto(Blocks, Len(Blocks)) = Expected
      BY DEF SizeUpto, Expected
    <3> QED BY <3>1, <3>4, <3>5, <3>6
  <2>3. ASSUME step = "done", failed = 0
        PROVE  verdict = 0
    <3>1. \A i \in 1..Len(files) : i < cur
      BY <2>1, <2>3, LenProperties DEF ReadInv, PlaceInv, LoopInv
    <3>2. PICK S : HeldInv(S) /\ (verdict # 0 /\ ReadQueueSz > 0 => ~AllHeld(S))
      BY <2>1 DEF RestoreInv
    <3>3. AllHeld(S)
      BY <2>3, <3>1, <3>2 DEF HeldInv, AllHeld
    <3> QED BY <3>2, <3>3
  <2> QED BY <2>2, <2>3 DEF ToolsAgree
<1> QED BY <1>1, OutputInvariance, PTL
=============================================================================
