-------------------------------- MODULE Verify --------------------------------
(***************************************************************************)
(* LXRverify (src/cpp/cli/lxrverify.cpp): the blocks of each file are read *)
(* back and counted; nothing is written.                                   *)
(***************************************************************************)
EXTENDS ReadLoop

VARIABLE sound         \* history: the assemblies that were complete at the start

vars == <<readVars, loopVars, sound>>

StartFile ==
    /\ step = "next" /\ cur <= Len(files) /\ Blocks # <<>>
    /\ step' = "blocks"
    /\ UNCHANGED <<readVars, files, cur, at, n_blocks_ok, failed>>

JudgeForgetting ==                    \* mutant: the result is that of the last file
    /\ step = "close"
    /\ step' = "next" /\ cur' = cur + 1 /\ at' = 1 /\ n_blocks_ok' = 0
    /\ failed' = IF n_blocks_ok = Len(Blocks) THEN 0 ELSE 1
    /\ UNCHANGED <<readVars, files>>

Judge ==
    /\ step = "close"
    /\ NextFile(IF n_blocks_ok = Len(Blocks) THEN 0 ELSE 1)
    /\ UNCHANGED <<readVars, files>>

VInit == LInit /\ sound = intact

Program ==
    /\ \/ UnknownFile \/ StartFile \/ RequestBlock \/ RequestAgain \/ EndOfBlocks
       \/ RunReadTurn \/ RecallRefused \/ LastResults \/ Judge \/ AllFilesDone
    /\ UNCHANGED sound

-----------------------------------------------------------------------------
(* Properties                                                              *)

(* Block bi can be restored from the assemblies in S.                      *)
Restorable(bi, S) ==
    /\ bi.blockaid \in S \cap (keystore \ badkeys)
    /\ \E j \in 1..Len(content[bi.blockaid]) : Describes(bi, content[bi.blockaid][j])

(* Every block of every file that was asked for, from the assemblies in S. *)
AllRestorable(S) ==
    \A i \in 1..Len(files) :
        /\ fblockstore[files[i]] # <<>>
        /\ \A j \in 1..Len(fblockstore[files[i]]) : Restorable(fblockstore[files[i]][j], S)

(* Exit status 0 means that every block of every file could be restored    *)
(* when the program was started; and if nothing got lost meanwhile, status *)
(* 1 means that one could not.                                             *)
VerdictIsRight ==
    step = "done" =>
        /\ failed = 0 => AllRestorable(sound)
        /\ AllRestorable(intact) => failed = 0
=============================================================================
