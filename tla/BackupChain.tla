------------------------------ MODULE BackupChain -----------------------------
(***************************************************************************)
(* A chain of backups, each of which may be given files documents of       *)
(* earlier ones (LXRbackup --refdbfi) and leaves out the files they record *)
(* unchanged; and LXRrestore (or LXRverify) loading the documents of some  *)
(* of them (-k, -b) in any order.  What a chain has to promise: the        *)
(* documents together restore the newest version of every file.            *)
(*                                                                         *)
(* A run is what Backup shows it to be: a file is recorded with the        *)
(* content that is stored of it.  Its blocks are taken to be one, in an    *)
(* assembly of its own (sharing one only ties the outcomes together), or   *)
(* none if it is empty, and each file to be named once.  Runs end in       *)
(* different seconds, so that their documents have different names.  No    *)
(* program is given the same document twice, which bounds the lists.       *)
(***************************************************************************)
EXTENDS Stores, SequencesExt

CONSTANTS Contents,    \* the contents files may have
          Empty,       \* that of an empty file, which has no blocks
          NoDoc,       \* a document that was not written
          MaxRuns,     \* bound: backups that write documents
          MaxRefs,     \* bound: references given to a backup
          MaxFailed    \* bound: backups that write documents and fail

ASSUME ContentsAssumption == {NoInfo, BlankInfo} \cap Contents = {} /\ Empty \in Contents
ASSUME MaxRunsAssumption == MaxRuns \in Nat

VARIABLES docs,        \* the documents of each backup, its exit status, and
                      \* (history) the references of a successful one
          pc,          \* which program runs, and how far it is
          refs,        \* references of the backup at work
          todo,        \* files it has still to back up
          infos,       \* its CoqFInfoStore
          blocks,      \* its CoqFBlockStore
          rkeys,       \* the CoqKeyStore of LXRrestore
          rblocks,     \* the CoqFBlockStore of LXRrestore
          kloaded,     \* history: keys documents it has loaded
          floaded      \* history: files documents it has loaded, in order

backupVars  == <<refs, todo, infos, blocks>>
restoreVars == <<rkeys, rblocks, kloaded, floaded>>
vars        == <<docs, pc, backupVars, restoreVars>>

Run == Len(docs) + 1   \* the number of the backup at work

Aid == (1..MaxRuns) \X FHash

BlockInfo == [aid : Aid, sum : Contents]

KeysDoc == SUBSET Aid

FilesDoc == [FHash -> [info : Contents \cup {NoInfo}, blocks : Seq(BlockInfo)]]

Documents == [keys : KeysDoc \cup {NoDoc}, files : FilesDoc \cup {NoDoc},
              status : {0, 1}, refs : Seq(1..MaxRuns)]

-----------------------------------------------------------------------------
(* LXRbackup                                                               *)

BackupEnds == pc' = "idle" /\ refs' = <<>> /\ todo' = {}
                           /\ infos' = NoInfos /\ blocks' = NoBlocks

(* The options name files to back up, and references, in any order.        *)
BeginBackup ==
    /\ pc = "idle" /\ Len(docs) < MaxRuns
    /\ pc' = "options"
    /\ todo' \in SUBSET FHash
    /\ UNCHANGED <<docs, refs, infos, blocks, restoreVars>>

AddReferenceWithBlocks(i) ==          \* mutant: the blocks are taken over as well
    /\ pc = "options" /\ Len(refs) < MaxRefs /\ i \notin ToSet(refs)
    /\ docs[i].files # NoDoc
    /\ refs' = Append(refs, i)
    /\ infos' = ReadInfos(infos, docs[i].files)
    /\ blocks' = ReadBlocks(blocks, docs[i].files)
    /\ UNCHANGED <<docs, pc, todo, restoreVars>>

(* add_ref_dbfi: only a CoqFInfoStore reads the document.                  *)
AddReference(i) ==
    /\ pc = "options" /\ Len(refs) < MaxRefs /\ i \notin ToSet(refs)
    /\ docs[i].files # NoDoc
    /\ refs' = Append(refs, i)
    /\ infos' = ReadInfos(infos, docs[i].files)
    /\ UNCHANGED <<docs, pc, todo, blocks, restoreVars>>

(* A reference that is missing or cannot be read, a file that does not     *)
(* exist, or an option that is missing: output_error, before anything is   *)
(* backed up.                                                              *)
RejectOptions ==
    /\ pc = "options"
    /\ BackupEnds
    /\ UNCHANGED <<docs, restoreVars>>

AcceptOptions ==
    /\ pc = "options"
    /\ pc' = "backup"
    /\ UNCHANGED <<docs, backupVars, restoreVars>>

(* file_backup.  Between backups the files change in any way.  Of an empty *)
(* file only the information is recorded.                                  *)
BackupFile(f, c) ==
    /\ pc = "backup" /\ f \in todo
    /\ infos[f] # c
    /\ todo' = todo \ {f}
    /\ infos' = [infos EXCEPT ![f] = c]
    /\ blocks' = IF c = Empty THEN blocks
                 ELSE [blocks EXCEPT ![f] = Append(@, [aid |-> <<Run, f>>, sum |-> c])]
    /\ UNCHANGED <<docs, pc, refs, restoreVars>>

(* A file that is gone, is recorded with the checksum that it has, or      *)
(* cannot be opened is left out.                                           *)
SkipFile(f) ==
    /\ pc = "backup" /\ f \in todo
    /\ todo' = todo \ {f}
    /\ UNCHANGED <<docs, pc, refs, infos, blocks, restoreVars>>

(* The assemblies of the backup at work.                                   *)
Assemblies == {<<Run, f>> : f \in {g \in FHash : blocks[g] # <<>>}}

(* What main leaves behind if some assemblies failed to be written, or     *)
(* either document was not written (k, w).                                 *)
Report(failed, k, w) ==
    LET ok == k /\ w /\ failed = {}
    IN  [keys   |-> IF k THEN Assemblies \ failed ELSE NoDoc,
         files  |-> IF w THEN FilesDocument(infos, blocks) ELSE NoDoc,
         status |-> IF ok THEN 0 ELSE 1,
         refs   |-> IF ok THEN refs ELSE <<>>]

FinishBackup ==
    /\ pc = "backup" /\ todo = {}
    /\ \E failed \in SUBSET Assemblies, k, w \in BOOLEAN :
           docs' = Append(docs, Report(failed, k, w))
    /\ Cardinality({i \in 1..Run : docs'[i].status = 1}) <= MaxFailed
    /\ BackupEnds
    /\ UNCHANGED restoreVars

-----------------------------------------------------------------------------
(* LXRrestore, up to the point where it starts to restore                  *)

BeginRestore ==
    /\ pc = "idle"
    /\ pc' = "restore"
    /\ UNCHANGED <<docs, backupVars, restoreVars>>

(* add_dbkey_path                                                          *)
LoadKeys(i) ==
    /\ pc = "restore" /\ docs[i].keys # NoDoc
    /\ rkeys' = ReadKeys(rkeys, docs[i].keys)
    /\ kloaded' = kloaded \cup {i}
    /\ UNCHANGED <<docs, pc, backupVars, rblocks, floaded>>

(* add_dbfb_path: only a CoqFBlockStore reads the document.                *)
LoadFiles(i) ==
    /\ pc = "restore" /\ i \notin ToSet(floaded) /\ docs[i].files # NoDoc
    /\ rblocks' = ReadBlocks(rblocks, docs[i].files)
    /\ floaded' = Append(floaded, i)
    /\ UNCHANGED <<docs, pc, backupVars, rkeys, kloaded>>

(* It has done its work, or a document was missing or unreadable.          *)
EndRestore ==
    /\ pc = "restore"
    /\ pc' = "idle"
    /\ rkeys' = {} /\ rblocks' = NoBlocks /\ kloaded' = {} /\ floaded' = <<>>
    /\ UNCHANGED <<docs, backupVars>>

-----------------------------------------------------------------------------

CInit ==
    /\ docs = <<>> /\ pc = "idle"
    /\ refs = <<>> /\ todo = {} /\ infos = NoInfos /\ blocks = NoBlocks
    /\ rkeys = {} /\ rblocks = NoBlocks /\ kloaded = {} /\ floaded = <<>>

CNext ==
    \/ BeginBackup \/ RejectOptions \/ AcceptOptions \/ FinishBackup
    \/ BeginRestore \/ EndRestore
    \/ \E i \in 1..Len(docs) : AddReference(i) \/ LoadKeys(i) \/ LoadFiles(i)
    \/ \E f \in FHash : SkipFile(f) \/ \E c \in Contents : BackupFile(f, c)

CSpec == CInit /\ [][CNext]_vars

-----------------------------------------------------------------------------
(* Properties                                                              *)

(* The values the variables range over; no file is ever recorded with a    *)
(* blank information.                                                      *)
CTypeOK ==
    /\ docs \in Seq(Documents) /\ Len(docs) <= MaxRuns
    /\ pc \in {"idle", "options", "backup", "restore"}
    /\ pc \in {"options", "backup"} => Len(docs) < MaxRuns
    /\ refs \in Seq(1..Len(docs)) /\ todo \subseteq FHash
    /\ infos \in [FHash -> Contents \cup {NoInfo}]
    /\ blocks \in [FHash -> Seq(BlockInfo)] /\ rblocks \in [FHash -> Seq(BlockInfo)]
    /\ rkeys \subseteq Aid /\ kloaded \subseteq 1..Len(docs)
    /\ floaded \in Seq(1..Len(docs))

(* The backups that ended with exit status 0.                              *)
Good == {i \in 1..Len(docs) : docs[i].status = 0}

(* Each of them was given documents of such backups only, that of its      *)
(* predecessor last.                                                       *)
Chained ==
    \A i \in Good :
        LET before == {j \in Good : j < i}
        IN  /\ ToSet(docs[i].refs) \subseteq before
            /\ before # {} => /\ docs[i].refs # <<>>
                              /\ \A j \in before : j <= Last(docs[i].refs)

(* LXRrestore was given the documents of all of them and no others, the    *)
(* files documents in the order in which they were made.                   *)
AllLoaded ==
    /\ Good \subseteq kloaded
    /\ ToSet(floaded) = Good
    /\ \A m, n \in 1..Len(floaded) : m < n => floaded[m] < floaded[n]

(* Then the documents of a chain of successful backups restore every file  *)
(* the last of them records with the content it records, whichever backup  *)
(* stored that (--refdbfi, deduplication level 1, and how documents are    *)
(* merged); failed backups in between do no harm.  Empty files are exempt: *)
(* they are not restored, and one that was not always empty comes back as  *)
(* it was before (tests/smoke/cli-roundtrip.sh leaves empty files out).    *)
NewestIsRestorable ==
    Chained /\ AllLoaded =>
        \A i \in Good : (\A j \in Good : j <= i) =>
            \A f \in Listed(docs[i].files) :
                docs[i].files[f].info # Empty =>
                    \E b \in BlockInfo : /\ rblocks[f] = <<b>> /\ b.aid \in rkeys
                                         /\ b.sum = docs[i].files[f].info

(* Whatever documents are loaded in whatever order, the blocks from which  *)
(* a file is restored are those of one backup: versions are never mixed    *)
(* (read_files_document).                                                  *)
OneVersionOnly ==
    \A f \in FHash :
        rblocks[f] # <<>> =>
            \E i \in 1..Len(docs) : /\ docs[i].files # NoDoc
                                    /\ docs[i].files[f].blocks = rblocks[f]

(* The keys of a successful backup open every block its own files document *)
(* lists, whatever references it was given: each pair of documents is of   *)
(* use without the others (add_ref_dbfi, main).                            *)
OwnKeysSuffice ==
    \A i \in Good : \A f \in Listed(docs[i].files) :
        LET bs == docs[i].files[f].blocks
        IN  \A n \in 1..Len(bs) : bs[n].aid \in docs[i].keys
=============================================================================
