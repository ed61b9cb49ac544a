------------------------------- MODULE Backup ---------------------------------
(***************************************************************************)
(* LXRbackup (src/cpp/cli/lxrbackup.cpp) and CoqProcessor::file_backup     *)
(* (src/cpp/coqprocessor.cpp): each file of the command line is compared   *)
(* with what is already recorded of it, cut into blocks that go through    *)
(* the write queue, and recorded; at the end the cache is closed and the   *)
(* keys and the files are written to two documents.                        *)
(*                                                                         *)
(* Other programs change the files meanwhile, and reading may fail.  The   *)
(* checksum of a file is taken to be that of all its bytes, also then; a   *)
(* directory named as a file is a file of which every read fails.          *)
(***************************************************************************)
EXTENDS WritePath, Files

CONSTANTS NoFile,      \* no such file, or no record of it
          NoDoc,       \* a document that was not written
          Contents,    \* the contents files may have
          CmdLines,    \* the lists of files to back up, after listing directories
          References,  \* what --refdbfi may have loaded: a checksum for each file
          MaxChanges   \* bound: changes by other programs

ASSUME NoFileAssumption == NoFile \notin Seq(Byte)
ASSUME ContentsAssumption == Contents \subseteq Seq(Byte)
ASSUME CmdLinesAssumption == CmdLines \subseteq Seq(FHash)
ASSUME ReferencesAssumption == References \subseteq [FHash -> Seq(Byte) \cup {NoFile}]

VARIABLES disk,        \* the files
          stream,      \* what the open file reads as
          changes,     \* number of changes so far
          touched,     \* history: files changed since their backup began
          misread,     \* history: files of which fread did not deliver all it was to
          args,        \* the files of the command line
          nxt,         \* the next of them, or the one in work
          pc,          \* where the program is
          job,         \* the size and the checksum taken of it, the position, and the
                      \* block that waits to be enqueued again
          infos,       \* the CoqFInfoStore: the checksum recorded of each file
          refused,     \* history: files that fopen refused
          keysdoc,     \* LXRbackup-*-dbks.xml
          filesdoc,    \* LXRbackup-*-files.xml
          status       \* the exit status so far

diskVars == <<disk, stream, changes, touched, misread>>
progVars == <<args, nxt, pc, job, infos, refused>>
docVars  == <<keysdoc, filesdoc, status>>
vars     == <<writeVars, diskVars, progVars, docVars>>

File == args[nxt]

NoJob == [size |-> 0, sum |-> NoFile, pos |-> 0, block |-> <<>>]

-----------------------------------------------------------------------------
(* file_backup                                                             *)

Skip == nxt' = nxt + 1 /\ pc' = "next" /\ job' = NoJob

(* get_file_information: the file exists, its size is asked for ...        *)
StartFile ==
    /\ pc = "next" /\ nxt <= Len(args)
    /\ IF disk[File] = NoFile
       THEN Skip
       ELSE pc' = "open" /\ job' = [NoJob EXCEPT !.size = Len(disk[File])]
                         /\ UNCHANGED nxt
    /\ UNCHANGED <<writeVars, diskVars, docVars, args, infos, refused>>

(* ... and then its checksum taken; a file recorded with that checksum is  *)
(* skipped (deduplication level 1), and so is one that cannot be opened.   *)
OpenFileAnyRecord ==                  \* mutant: skips whatever is recorded at all
    /\ pc = "open"
    /\ \/ /\ disk[File] # NoFile /\ infos[File] # NoFile
          /\ Skip /\ UNCHANGED <<stream, refused>>
       \/ /\ Skip /\ refused' = refused \cup {File}
          /\ UNCHANGED stream
       \/ /\ disk[File] # NoFile /\ infos[File] = NoFile
          /\ stream' = disk[File]
          /\ job' = [job EXCEPT !.sum = disk[File]]
          /\ pc' = "read" /\ UNCHANGED <<nxt, refused>>
    /\ UNCHANGED <<writeVars, docVars, disk, changes, touched, misread, args, infos>>

OpenFile ==
    /\ pc = "open"
    /\ \/ /\ disk[File] # NoFile /\ infos[File] = disk[File]
          /\ Skip /\ UNCHANGED <<stream, refused>>
       \/ /\ infos[File] # disk[File] \/ disk[File] = NoFile
          /\ Skip /\ refused' = refused \cup {File}
          /\ UNCHANGED stream
       \/ /\ disk[File] # NoFile /\ infos[File] # disk[File]
          /\ stream' = disk[File]
          /\ job' = [job EXCEPT !.sum = disk[File]]
          /\ pc' = "read" /\ UNCHANGED <<nxt, refused>>
    /\ UNCHANGED <<writeVars, docVars, disk, changes, touched, misread, args, infos>>

(* iterate_write_queue, which does nothing with an empty queue.            *)
Drain == IF wqueue = <<>> THEN WIdle /\ UNCHANGED writeVars ELSE IterateWriteQueue

(* How many bytes the next block is to have.                               *)
BlockLen == LessOf(BlockSz, job.size - job.pos)

BlockRequest(d) == [fhash |-> File, fpos |-> job.pos, data |-> d]

(* History: fread delivered d where it was to deliver BlockLen bytes of    *)
(* the stream, or those that are left of it.                               *)
NoteRead(d) ==
    misread' = IF d = BytesAt(stream, job.pos, BlockLen) THEN misread
                                                        ELSE misread \cup {File}

ReadBlockSpinning ==                  \* mutant: a full queue is tried again, not iterated
    /\ pc = "read" /\ job.pos < job.size
    /\ \E d \in Fread(stream, job.pos, BlockLen) :
          /\ NoteRead(d)
          /\ IF Len(wqueue) < QueueSz
             THEN /\ EnqueueWrite(BlockRequest(d))
                  /\ job' = [job EXCEPT !.pos = @ + BlockLen]
             ELSE WIdle /\ UNCHANGED <<writeVars, job>>
    /\ UNCHANGED <<disk, stream, changes, touched, docVars, args, nxt, pc, infos, refused>>

(* Read a block and enqueue it, with as many bytes as fread delivered: a   *)
(* read that fails is not noticed, and the position moves on all the same. *)
(* When the queue is full it is iterated, and the block, kept in the       *)
(* meantime, is enqueued then; the second answer is not looked at.         *)
ReadBlock ==
    /\ pc = "read" /\ job.pos < job.size
    /\ \E d \in Fread(stream, job.pos, BlockLen) :
          /\ NoteRead(d)
          /\ IF Len(wqueue) < QueueSz
             THEN /\ EnqueueWrite(BlockRequest(d))
                  /\ job' = [job EXCEPT !.pos = @ + BlockLen] /\ UNCHANGED pc
             ELSE /\ Drain
                  /\ job' = [job EXCEPT !.block = d] /\ pc' = "again"
    /\ UNCHANGED <<disk, stream, changes, touched, docVars, args, nxt, infos, refused>>

EnqueueAgain ==
    /\ pc = "again"
    /\ IF Len(wqueue) < QueueSz
       THEN EnqueueWrite(BlockRequest(job.block))
       ELSE WIdle /\ UNCHANGED writeVars
    /\ job' = [job EXCEPT !.pos = @ + BlockLen, !.block = <<>>]
    /\ pc' = "read"
    /\ UNCHANGED <<diskVars, docVars, args, nxt, infos, refused>>

EndOfFileUndrained ==                 \* mutant: the queue is left to the next file
    /\ pc = "read" /\ job.pos >= job.size
    /\ WIdle
    /\ pc' = "record"
    /\ UNCHANGED <<writeVars, diskVars, docVars, args, nxt, job, infos, refused>>

EndOfFile ==
    /\ pc = "read" /\ job.pos >= job.size
    /\ Drain
    /\ pc' = "record"
    /\ UNCHANGED <<diskVars, docVars, args, nxt, job, infos, refused>>

(* The file information is added, replacing an older one.                  *)
RecordFile ==
    /\ pc = "record" /\ WIdle
    /\ infos' = [infos EXCEPT ![File] = job.sum]
    /\ Skip
    /\ UNCHANGED <<writeVars, diskVars, docVars, args, refused>>

-----------------------------------------------------------------------------
(* The end of main.  Closing the cache again, which the destructor of the  *)
(* processor does, has nothing left to finalise.                           *)

CloseCache ==
    /\ pc = "next" /\ nxt > Len(args)
    /\ \E out \in Outcome : Close(out)
    /\ pc' = "keys"
    /\ UNCHANGED <<diskVars, docVars, args, nxt, job, infos, refused>>

(* A document may not be written: no recipient, no encryption, no file.    *)
WriteKeys ==
    /\ pc = "keys"
    /\ \/ keysdoc' = keystore /\ UNCHANGED status
       \/ status' = 1 /\ UNCHANGED keysdoc
    /\ pc' = "files"
    /\ UNCHANGED <<writeVars, diskVars, args, nxt, job, infos, refused, filesdoc>>

WriteFiles ==
    /\ pc = "files"
    /\ \/ /\ filesdoc' = [infos |-> infos, blocks |-> fblockstore]
          /\ UNCHANGED status
       \/ status' = 1 /\ UNCHANGED filesdoc
    /\ pc' = "exit"
    /\ UNCHANGED <<writeVars, diskVars, args, nxt, job, infos, refused, keysdoc>>

(* The metric n_assembly_failed, which is 0 without an environment.        *)
Failures == IF writeenv = NullEnv THEN 0 ELSE writeenv.n_failed

ExitIgnoringFailures ==               \* mutant: only the documents decide
    /\ pc = "exit"
    /\ pc' = "done"
    /\ UNCHANGED <<writeVars, diskVars, docVars, args, nxt, job, infos, refused>>

Exit ==
    /\ pc = "exit"
    /\ status' = IF Failures > 0 THEN 1 ELSE status
    /\ pc' = "done"
    /\ UNCHANGED <<writeVars, diskVars, args, nxt, job, infos, refused, keysdoc, filesdoc>>

-----------------------------------------------------------------------------
(* Has the backup of f begun?                                              *)
Begun(f) == \E i \in 1..Len(args) :
                args[i] = f /\ (i < nxt \/ (i = nxt /\ pc # "next"))

(* Another program changes, removes or creates a file.  What the open      *)
(* stream reads changes with it, unless the file was replaced or removed.  *)
ChangeFile(f, c) ==
    /\ changes < MaxChanges
    /\ c # disk[f]
    /\ disk' = [disk EXCEPT ![f] = c]
    /\ \/ UNCHANGED stream
       \/ pc \in {"read", "again"} /\ f = File /\ c # NoFile /\ stream' = c
    /\ touched' = IF Begun(f) THEN touched \cup {f} ELSE touched
    /\ changes' = changes + 1
    /\ UNCHANGED <<writeVars, progVars, docVars, misread>>

(* The program is killed, or kills itself: get_file_information, which is  *)
(* noexcept, asks for a file and the file system does not answer.          *)
Terminate ==
    /\ pc \notin {"done", "terminated"}
    /\ pc' = "terminated"
    /\ UNCHANGED <<writeVars, diskVars, docVars, args, nxt, job, infos, refused>>

BInit ==
    /\ WInit
    /\ disk \in [FHash -> Contents \cup {NoFile}]
    /\ stream = <<>> /\ changes = 0 /\ touched = {} /\ misread = {}
    /\ args \in CmdLines /\ nxt = 1 /\ pc = "next" /\ job = NoJob
    /\ infos \in References /\ refused = {}
    /\ keysdoc = NoDoc /\ filesdoc = NoDoc /\ status = 0

Program ==
    \/ StartFile \/ OpenFile \/ ReadBlock \/ EnqueueAgain \/ EndOfFile \/ RecordFile
    \/ pc # "terminated" /\ RunWriteRequest /\ UNCHANGED <<diskVars, progVars, docVars>>
    \/ CloseCache \/ WriteKeys \/ WriteFiles \/ Exit

BNext ==
    \/ Program
    \/ Terminate
    \/ \E f \in FHash, c \in Contents \cup {NoFile} : ChangeFile(f, c)

(* The program keeps running; nobody has to change a file or kill it.      *)
BSpec == BInit /\ [][BNext]_vars /\ WF_vars(Program)

-----------------------------------------------------------------------------
(* Properties                                                              *)

(* After exit status 0, what the two documents say of a file that nobody   *)
(* touched since its backup began is so: each of its blocks is in an       *)
(* assembly whose key is there, and holds what the file holds at its       *)
(* place; and unless a read of the file failed, they make up the content   *)
(* whose checksum was recorded (file_backup, the queue, close, and the     *)
(* order of main).  The same holds of documents that a program left which  *)
(* was terminated after it had written both.                               *)
Restorable ==
    /\ status = 0
    /\ \/ pc = "done"
       \/ pc = "terminated" /\ filesdoc # NoDoc /\ Failures = 0
    =>
        \A f \in FHash \ touched :
            /\ \A i \in 1..Len(filesdoc.blocks[f]) :
                  LET bi == filesdoc.blocks[f][i]
                  IN  IF bi.blocksize > 0
                      THEN /\ bi.blockaid \in keysdoc
                           /\ bi.bchecksum = BytesAt(disk[f], bi.filepos, bi.blocksize)
                      ELSE f \in misread
            /\ f \notin misread /\ filesdoc.blocks[f] # <<>> =>
                  Rebuilt(filesdoc.blocks[f]) = filesdoc.infos[f]

(* A file that was reached, could be opened and was not touched since, is  *)
(* recorded as it is on the disk: with the checksum of its own content,    *)
(* backed up now or known from the reference (deduplication level 1).      *)
RecordedIsCurrent ==
    pc \in {"keys", "files", "exit", "done"} =>
        \A i \in 1..Len(args) :
            LET f == args[i]
            IN  f \notin touched \cup refused /\ disk[f] # NoFile => infos[f] = disk[f]

(* The documents are complete when they are written: nothing is added to   *)
(* the stores afterwards, nor does a request wait that would add to them.  *)
DocumentsComplete ==
    /\ keysdoc # NoDoc => keysdoc = keystore /\ wqueue = <<>> /\ wbatch = <<>>
    /\ filesdoc # NoDoc => filesdoc = [infos |-> infos, blocks |-> fblockstore]

(* LXRbackup comes to its end, also when the queue is full, whatever       *)
(* happens to the files and to the chunk storage.                          *)
Ends == <>(pc \in {"done", "terminated"})
=============================================================================
