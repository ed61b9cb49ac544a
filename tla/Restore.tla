------------------------------- MODULE Restore --------------------------------
(***************************************************************************)
(* LXRrestore (src/cpp/cli/lxrrestore.cpp): a file is created, its blocks  *)
(* are written where they belong as they come back, and it is removed      *)
(* again if one of them is missing.                                        *)
(***************************************************************************)
EXTENDS ReadLoop

CONSTANTS NoFile,      \* no such file
          Existing,    \* what may already be in the output directory
          Contained,   \* files whose names stay below the output directory
          ShortWrites  \* may fwrite put less into the file than asked to?

ASSUME ShortWritesAssumption == ShortWrites \in BOOLEAN
ASSUME NoFileAssumption == NoFile \notin Seq(Byte)
ASSUME ExistingAssumption == Existing \subseteq [FHash -> Seq(Byte) \cup {NoFile}]

VARIABLES out,         \* the output directory
          before,      \* history: the output directory at the start
          n_restored   \* bytes counted as written

outVars == <<out, before, n_restored>>
vars    == <<readVars, loopVars, outVars>>

(* The file cannot be created: outside of the output directory, there      *)
(* already, or refused by fopen.                                           *)
TargetRefused ==
    /\ step = "next" /\ cur <= Len(files) /\ Blocks # <<>>
    /\ NextFile(1)
    /\ UNCHANGED <<readVars, outVars, files>>

(* Neither exists nor create_directories may be able to answer for the     *)
(* directory of the file: what they throw is caught by nobody.             *)
DirectoryRefused ==
    /\ step = "next" /\ cur <= Len(files) /\ Blocks # <<>>
    /\ File \in Contained
    /\ step' = "aborted"
    /\ UNCHANGED <<readVars, outVars, files, cur, at, n_blocks_ok, failed>>

CreateTruncating ==                   \* mutant: opened with "w" instead of "wx"
    /\ step = "next" /\ cur <= Len(files) /\ Blocks # <<>>
    /\ File \in Contained
    /\ out' = [out EXCEPT ![File] = <<>>] /\ n_restored' = 0
    /\ step' = "blocks"
    /\ UNCHANGED <<readVars, before, files, cur, at, n_blocks_ok, failed>>

CreateTarget ==
    /\ step = "next" /\ cur <= Len(files) /\ Blocks # <<>>
    /\ File \in Contained /\ out[File] = NoFile
    /\ out' = [out EXCEPT ![File] = <<>>] /\ n_restored' = 0
    /\ step' = "blocks"
    /\ UNCHANGED <<readVars, before, files, cur, at, n_blocks_ok, failed>>

(* process_read_blocks: put[i] bytes of result i arrive in the file, all   *)
(* bytes are counted.                                                      *)
Written(put) ==
    LET new[i \in 0..Len(results)] ==
            IF i = 0 THEN out[File]
            ELSE IF i \notin Delivered THEN new[i-1]
            ELSE Overlay(new[i-1], results[i].request.filepos,
                         SubSeq(results[i].data, 1, put[i]))
    IN  new[Len(results)]

Counted ==
    LET sum[i \in 0..Len(results)] ==
            IF i = 0 THEN 0
            ELSE sum[i-1] + (IF i \in Delivered THEN Len(results[i].data) ELSE 0)
    IN  sum[Len(results)]

WriteResults ==
    /\ \E put \in [1..Len(results) -> 0..BlockSz] :
          /\ \A i \in Delivered : IF ShortWrites THEN put[i] <= Len(results[i].data)
                                                 ELSE put[i] = Len(results[i].data)
          /\ \A i \in 1..Len(results) \ Delivered : put[i] = 0
          /\ out' = [out EXCEPT ![File] = Written(put)]
    /\ n_restored' = n_restored + Counted
    /\ UNCHANGED before

Expected ==
    LET sum[i \in 0..Len(Blocks)] == IF i = 0 THEN 0 ELSE sum[i-1] + Blocks[i].blocksize
    IN  sum[Len(Blocks)]

(* The file is closed, which may fail, and removed unless it is complete.  *)
CloseKeepingPartial ==                \* mutant: the partial file is not removed
    /\ step = "close"
    /\ \E closed \in BOOLEAN :
          LET ok == closed /\ n_blocks_ok = Len(Blocks) /\ n_restored = Expected
          IN  NextFile(IF ok THEN 0 ELSE 1) /\ UNCHANGED out
    /\ UNCHANGED <<readVars, before, n_restored, files>>

CloseUncounted ==                     \* mutant: the missing blocks are not noticed
    /\ step = "close"
    /\ \E closed \in BOOLEAN :
          IF closed
          THEN NextFile(0) /\ UNCHANGED out
          ELSE NextFile(1) /\ out' = [out EXCEPT ![File] = NoFile]
    /\ UNCHANGED <<readVars, before, n_restored, files>>

CloseTarget ==
    /\ step = "close"
    /\ \E closed \in BOOLEAN :
          IF closed /\ n_blocks_ok = Len(Blocks) /\ n_restored = Expected
          THEN NextFile(0) /\ UNCHANGED out
          ELSE NextFile(1) /\ out' = [out EXCEPT ![File] = NoFile]
    /\ UNCHANGED <<readVars, before, n_restored, files>>

(* Nor is it caught if the incomplete file cannot be removed.              *)
RemovalRefused ==
    /\ step = "close"
    /\ step' = "aborted"
    /\ UNCHANGED <<readVars, outVars, files, cur, at, n_blocks_ok, failed>>

-----------------------------------------------------------------------------
ResInit == LInit /\ out \in Existing /\ before = out /\ n_restored = 0

Program ==
    \/ /\ \/ UnknownFile \/ RequestBlock \/ EndOfBlocks
          \/ RunReadTurn \/ RecallRefused \/ AllFilesDone
       /\ UNCHANGED outVars
    \/ (RequestAgain \/ LastResults) /\ WriteResults
    \/ TargetRefused \/ DirectoryRefused \/ CreateTarget
    \/ CloseTarget \/ RemovalRefused

-----------------------------------------------------------------------------
(* Properties                                                              *)

(* Except for the file in work, the output directory holds what was there  *)
(* before and files that are complete: the blocks of their block list, all *)
(* of them, where they belong ("partially restored files are removed").    *)
(* Also a program that is aborted leaves no more than one partial file.    *)
NothingPartial ==
    \A f \in FHash :
        step \in {"next", "done"} \/ f # File =>
            out[f] \in {before[f], Rebuilt(fblockstore[f])}

(* A file that was there before is never changed or removed, also when     *)
(* the same file is asked for twice.                                       *)
ExistingIsKept ==
    \A f \in FHash : before[f] # NoFile => out[f] = before[f]

(* The exit status is 0 exactly if every file that was asked for has been  *)
(* restored completely by this run, and was asked for once.                *)
StatusTellsAll ==
    step = "done" =>
        (failed = 0 <=>
            /\ \A i, j \in 1..Len(files) : files[i] = files[j] => i = j
            /\ \A i \in 1..Len(files) :
                  LET f == files[i]
                  IN  /\ fblockstore[f] # <<>> /\ before[f] = NoFile
                      /\ out[f] = Rebuilt(fblockstore[f]))
=============================================================================
