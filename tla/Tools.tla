--------------------------------- MODULE Tools ---------------------------------
(***************************************************************************)
(* LXRverify and then LXRrestore, two processes that are given the same    *)
(* documents, files and chunk storage, which may decay at any time.        *)
(***************************************************************************)
EXTENDS Restore

VARIABLES tool,        \* the program that runs
          sound,       \* history: the assemblies that were complete at the start
          verdict      \* history: the number of files LXRverify found to fail

toolVars == <<tool, sound, verdict>>

V == INSTANCE Verify

Init == ResInit /\ V!VInit /\ tool = "LXRverify" /\ verdict = 0

Verifying == tool = "LXRverify" /\ V!Program /\ UNCHANGED <<outVars, tool, verdict>>

(* The next process starts with what is in the documents and nothing else. *)
BeginRestore ==
    /\ tool = "LXRverify" /\ step = "done"
    /\ tool' = "LXRrestore" /\ verdict' = failed
    /\ readenvs' = <<>> /\ rqueue' = <<>> /\ rbatch' = <<>> /\ taken' = <<>> /\ results' = <<>>
    /\ since' = <<>>
    /\ cur' = 1 /\ at' = 1 /\ step' = "next" /\ n_blocks_ok' = 0 /\ failed' = 0
    /\ UNCHANGED <<archiveVars, files, outVars, sound>>

Restoring == tool = "LXRrestore" /\ Program /\ UNCHANGED toolVars

Running == Verifying \/ BeginRestore \/ Restoring

Next ==
    \/ Running
    \/ \E a \in Aids : LoseChunk(a) /\ UNCHANGED <<envVars, loopVars, outVars, toolVars>>

(* The programs keep running; no chunk has to get lost.                    *)
Spec == Init /\ [][Next]_<<vars, toolVars>> /\ WF_<<vars, toolVars>>(Running)

-----------------------------------------------------------------------------
(* Properties                                                              *)

(* Exit status 0 of LXRverify means that every block of every file could   *)
(* be restored when it was started; and if nothing got lost meanwhile,     *)
(* status 1 means that one could not.                                      *)
VerdictIsRight == tool = "LXRverify" => V!VerdictIsRight

(* Exit status 0 of LXRrestore means that every file was restored.         *)
StatusIsRight == tool = "LXRrestore" => StatusTellsAll

(* What the one tool says holds for the other.  If LXRverify accepted all  *)
(* files and no chunk was lost since, every file that LXRrestore creates   *)
(* gets all its bytes; and what LXRverify refused is never restored.       *)
ToolsAgree ==
    tool = "LXRrestore" =>
        /\ verdict = 0 /\ intact = sound /\ step = "close" =>
               n_blocks_ok = Len(Blocks) /\ n_restored = Expected
        /\ step = "done" /\ failed = 0 => verdict = 0

(* Both tools come to their end, whatever happens to the chunk storage,    *)
(* unless LXRverify is aborted before.                                     *)
Ends == <>(step = "aborted" \/ (tool = "LXRrestore" /\ step = "done"))
=============================================================================
