------------------------------- MODULE Traversal ------------------------------
(***************************************************************************)
(* How LXRbackup finds the files to back up: the options -f, -d and -D,    *)
(* and directory_backup and recursive_backup, which hand files to          *)
(* file_backup (Backup shows what becomes of them) while other programs    *)
(* change the directories.                                                 *)
(*                                                                         *)
(* A directory is listed lazily, once for its files and once more for its  *)
(* subdirectories, and opened by its path each time.  The type of an entry *)
(* is known from the directory, except if it is a link, which is followed. *)
(* Whatever the file system cannot answer is thrown, and caught by nobody. *)
(* A link counts as one, wherever it leads.                                *)
(***************************************************************************)
EXTENDS Naturals, SequencesExt

CONSTANTS Dir,         \* directories
          NoDir,       \* what an entry leads to that is no directory
          Top,         \* where all paths start
          Name,        \* names of entries
          MaxLinks,    \* the links that the system follows in one path
          MaxList,     \* size of the arrays MAX_BACKUP_FILES, MAX_BACKUP_DIRS
          Trees,       \* what the directories may hold at first
          Readable,    \* sets of directories that may be read
          CmdLines,    \* sequences of options
          MaxDepth,    \* bound: names in a path that properties look at
          MaxChanges   \* bound: changes by other programs

ASSUME TopAssumption == Top \in Dir /\ NoDir \notin Dir

VARIABLES tree,        \* what the directories hold
          open,        \* the directories that can be read
          opts,        \* options not yet looked at
          lists,       \* list_files, list_dir1 and list_dir: paths not yet begun
          stack,       \* calls of recursive_backup and directory_backup
          outcome,     \* how the program ended, if it has
          backedup,    \* the paths that file_backup was called with
          given,       \* history: the options that were accepted
          touched,     \* history: entries that were changed
          changes      \* number of changes

fileSystem == <<tree, open, touched, changes>>
vars       == <<fileSystem, opts, lists, stack, outcome, backedup, given>>

(* Entries: a file or nothing, a directory, each maybe by a link (a link   *)
(* to nothing is an entry), or a link that leads to itself.                *)
Entry == [kind : {"absent", "file"}, link : BOOLEAN, dir : {NoDir}]
             \cup [kind : {"dir"}, link : BOOLEAN, dir : Dir]
             \cup [kind : {"loop"}, link : {TRUE}, dir : {NoDir}]

NoEntry == [kind |-> "absent", link |-> FALSE, dir |-> NoDir]

(* What a directory holds, and what the options may be.                    *)
ASSUME TreesAssumption == Trees \subseteq [Dir -> [Name -> Entry]]
ASSUME CmdLinesAssumption ==
    CmdLines \subseteq Seq([op : {"f", "d", "D"}, path : Seq(Name)])

Path == SeqOf(Name, MaxDepth)

-----------------------------------------------------------------------------
(* The file system                                                         *)

Error  == [kind |-> "error", dir |-> NoDir, links |-> 0]
Nobody == [kind |-> "absent", dir |-> NoDir, links |-> 0]

(* One more name of a path, after what the names before it led to.         *)
Follow(at, n) ==
    LET e == tree[at.dir][n]
        k == at.links + IF e.link THEN 1 ELSE 0
    IN  CASE at.kind \in {"file", "absent"} -> Nobody
          [] at.kind = "dir" /\ at.dir \in open /\ e.kind # "loop" /\ k <= MaxLinks ->
                 [kind |-> e.kind, dir |-> e.dir, links |-> k]
          [] OTHER -> Error

(* What path p leads to; a link at its end is followed, too.               *)
Lookup(p) ==
    LET to[i \in 0..Len(p)] == IF i = 0 THEN [kind |-> "dir", dir |-> Top, links |-> 0]
                               ELSE Follow(to[i - 1], p[i])
    IN  to[Len(p)]

CanList(p) == Lookup(p).kind = "dir" /\ Lookup(p).dir \in open

(* Another program creates, replaces or removes an entry.  Whoever lists   *)
(* the directory may then see the entry or not.                            *)
ChangeEntry(d, n, e) ==
    /\ outcome = "running" /\ changes < MaxChanges
    /\ e # tree[d][n]
    /\ e.kind = "dir" => e.link
    /\ tree' = [tree EXCEPT ![d][n] = e]
    /\ touched' = touched \cup {<<d, n>>}
    /\ changes' = changes + 1
    /\ stack' = [i \in DOMAIN stack |->
                     IF stack[i].dir = d THEN [stack[i] EXCEPT !.must = @ \ {n}]
                                         ELSE stack[i]]
    /\ UNCHANGED <<open, opts, lists, outcome, backedup, given>>

-----------------------------------------------------------------------------
(* main                                                                    *)

(* set_backup_file, set_backup_dir1, set_backup_dir_rec                    *)
Accepted(o) ==
    /\ Len(lists[o.op]) < MaxList - 1
    /\ IF o.op = "f" THEN Lookup(o.path).kind \in {"file", "dir"} ELSE CanList(o.path)

ParseOption ==
    /\ outcome = "running" /\ opts # <<>>
    /\ LET o == Head(opts)
       IN  IF Accepted(o)
           THEN /\ lists' = [lists EXCEPT ![o.op] = Append(@, o.path)]
                /\ given' = Append(given, o)
                /\ UNCHANGED outcome
           ELSE outcome' = "rejected" /\ UNCHANGED <<lists, given>>
    /\ opts' = Tail(opts)
    /\ UNCHANGED <<fileSystem, stack, backedup>>

Frame(p, rec, at) == [path |-> p, rec |-> rec, at |-> at,
                      dir |-> NoDir, seen |-> {}, must |-> {}]

Take(op) == /\ outcome = "running" /\ opts = <<>> /\ stack = <<>>
            /\ lists[op] # <<>>
            /\ lists' = [lists EXCEPT ![op] = Tail(@)]

BackupDir1 ==
    /\ Take("d")
    /\ stack' = <<Frame(Head(lists["d"]), FALSE, "again")>>
    /\ UNCHANGED <<fileSystem, opts, outcome, backedup, given>>

BackupDirs ==
    /\ lists["d"] = <<>> /\ Take("D")
    /\ stack' = <<Frame(Head(lists["D"]), TRUE, "enter")>>
    /\ UNCHANGED <<fileSystem, opts, outcome, backedup, given>>

BackupFiles ==
    /\ lists["d"] = <<>> /\ lists["D"] = <<>> /\ Take("f")
    /\ backedup' = Append(backedup, Head(lists["f"]))
    /\ UNCHANGED <<fileSystem, opts, stack, outcome, given>>

(* All is handed over; the rest of main is in Backup.                      *)
Finish ==
    /\ outcome = "running" /\ opts = <<>> /\ stack = <<>>
    /\ \A op \in DOMAIN lists : lists[op] = <<>>
    /\ outcome' = "done"
    /\ UNCHANGED <<fileSystem, opts, lists, stack, backedup, given>>

-----------------------------------------------------------------------------
(* recursive_backup and directory_backup.  A frame is a call of one of     *)
(* them: rec tells which, at how far it is, dir the open directory, seen   *)
(* the names that were read from it, and must those that have to be read   *)
(* before it ends.                                                         *)

Cur == Last(stack)

At(at) == outcome = "running" /\ stack # <<>> /\ Cur.at = at

Leave == stack' = Front(stack)

Goto(at) == stack' = [stack EXCEPT ![Len(stack)].at = at]

Throw == outcome' = "aborted" /\ UNCHANGED stack

UnchangedInCalls == UNCHANGED <<fileSystem, opts, lists, given>>

EnterWaiting ==                 \* mutant: waits for the directory to come back
    /\ At("enter")
    /\ \/ Lookup(Cur.path).kind = "dir" /\ Goto("again") /\ UNCHANGED outcome
       \/ Lookup(Cur.path).kind \in {"file", "absent"} /\ UNCHANGED <<stack, outcome>>
       \/ Lookup(Cur.path).kind = "error" /\ Throw
    /\ UnchangedInCalls /\ UNCHANGED backedup

(* recursive_backup asks whether the path is a directory ...               *)
Enter ==
    /\ At("enter")
    /\ \/ Lookup(Cur.path).kind = "dir" /\ Goto("again") /\ UNCHANGED outcome
       \/ Lookup(Cur.path).kind \in {"file", "absent"} /\ Leave /\ UNCHANGED outcome
       \/ Lookup(Cur.path).kind = "error" /\ Throw
    /\ UnchangedInCalls /\ UNCHANGED backedup

AfterFilesLeave == Leave              \* mutant: no subdirectories

(* Where a call goes on after the files.                                   *)
AfterFiles == IF Cur.rec THEN Goto("subdirs?") ELSE Leave

(* ... and so does directory_backup.                                       *)
EnterAgain ==
    /\ At("again")
    /\ \/ Lookup(Cur.path).kind = "dir" /\ Goto("files?") /\ UNCHANGED outcome
       \/ Lookup(Cur.path).kind \in {"file", "absent"} /\ AfterFiles /\ UNCHANGED outcome
       \/ Lookup(Cur.path).kind = "error" /\ Throw
    /\ UnchangedInCalls /\ UNCHANGED backedup

Present(e) == e.kind # "absent" \/ e.link

Opened(at) ==
    LET d == Lookup(Cur.path).dir
    IN  stack' = [stack EXCEPT ![Len(stack)] =
                     [@ EXCEPT !.at = at, !.dir = d, !.seen = {},
                               !.must = {n \in Name : Present(tree[d][n])}]]

OpenNoLink(was, at) ==                \* mutant: does not follow links
    /\ At(was)
    /\ \/ CanList(Cur.path) /\ Lookup(Cur.path).links = 0 /\ Opened(at) /\ UNCHANGED outcome
       \/ ~(CanList(Cur.path) /\ Lookup(Cur.path).links = 0) /\ Throw
    /\ UnchangedInCalls /\ UNCHANGED backedup

(* The directory_iterator of directory_files or directory_subdirs.         *)
Open(was, at) ==
    /\ At(was)
    /\ \/ CanList(Cur.path) /\ Opened(at) /\ UNCHANGED outcome
       \/ ~CanList(Cur.path) /\ Throw
    /\ UnchangedInCalls /\ UNCHANGED backedup

(* The type of the entry that is read next: is_regular_file, is_directory. *)
Type(n) == LET e == tree[Cur.dir][n]
           IN  IF e.link THEN Lookup(Append(Cur.path, n)).kind ELSE e.kind

Unread(n) == n \notin Cur.seen /\ Present(tree[Cur.dir][n])

Seen(n) == [stack EXCEPT ![Len(stack)].seen = @ \cup {n}]

ReadFileTwice(n) ==                   \* mutant: the name is not marked as read
    /\ At("files") /\ Unread(n)
    /\ \/ /\ Type(n) = "file"
          /\ backedup' = Append(backedup, Append(Cur.path, n))
          /\ stack' = [stack EXCEPT ![Len(stack)].must = @ \ {n}] /\ UNCHANGED outcome
       \/ /\ Type(n) \in {"dir", "absent"}
          /\ stack' = Seen(n) /\ UNCHANGED <<backedup, outcome>>
       \/ Type(n) = "error" /\ Throw /\ UNCHANGED backedup
    /\ UnchangedInCalls

ReadFile(n) ==
    /\ At("files") /\ Unread(n)
    /\ \/ /\ Type(n) = "file"
          /\ backedup' = Append(backedup, Append(Cur.path, n))
          /\ stack' = Seen(n) /\ UNCHANGED outcome
       \/ /\ Type(n) \in {"dir", "absent"}
          /\ stack' = Seen(n) /\ UNCHANGED <<backedup, outcome>>
       \/ Type(n) = "error" /\ Throw /\ UNCHANGED backedup
    /\ UnchangedInCalls

ReadSubdir(n) ==
    /\ At("subdirs") /\ Unread(n)
    /\ \/ /\ Type(n) = "dir"
          /\ stack' = Append(Seen(n), Frame(Append(Cur.path, n), TRUE, "enter"))
          /\ UNCHANGED outcome
       \/ Type(n) \in {"file", "absent"} /\ stack' = Seen(n) /\ UNCHANGED outcome
       \/ Type(n) = "error" /\ Throw
    /\ UnchangedInCalls /\ UNCHANGED backedup

EndOfDirectory ==
    /\ Cur.must \subseteq Cur.seen
    /\ UNCHANGED outcome /\ UnchangedInCalls /\ UNCHANGED backedup

EndFiles   == At("files") /\ AfterFiles /\ EndOfDirectory
EndSubdirs == At("subdirs") /\ Leave /\ EndOfDirectory

-----------------------------------------------------------------------------

Init ==
    /\ tree \in Trees /\ open \in Readable /\ opts \in CmdLines
    /\ lists = [op \in {"f", "d", "D"} |-> <<>>]
    /\ stack = <<>> /\ outcome = "running" /\ backedup = <<>> /\ given = <<>>
    /\ touched = {} /\ changes = 0

Calls ==
    \/ Enter \/ EnterAgain \/ Open("files?", "files") \/ Open("subdirs?", "subdirs")
    \/ \E n \in Name : ReadFile(n) \/ ReadSubdir(n)
    \/ EndFiles \/ EndSubdirs

Program == ParseOption \/ BackupDir1 \/ BackupDirs \/ BackupFiles \/ Calls \/ Finish

Next == \/ Program
        \/ \E d \in Dir, n \in Name, e \in Entry : ChangeEntry(d, n, e)

Spec == Init /\ [][Next]_vars /\ WF_vars(Program)

-----------------------------------------------------------------------------
(* Properties                                                              *)

(* Option o asks for the file with path q.                                 *)
Covers(o, q) == CASE o.op = "f" -> q = o.path
                  [] o.op = "d" -> IsPrefix(o.path, q) /\ Len(q) = Len(o.path) + 1
                  [] o.op = "D" -> IsStrictPrefix(o.path, q)

(* No name of path q was changed in its directory.                         *)
Stable(q) == \A i \in 1..Len(q) : <<Lookup(SubSeq(q, 1, i - 1)).dir, q[i]>> \notin touched

(* When all is handed over, no file is missing that was there all the      *)
(* time, whatever else was created, replaced or removed next to it         *)
(* (directory_backup, recursive_backup).                                   *)
NothingIsMissed ==
    outcome = "done" =>
        \A o \in ToSet(given), q \in Path :
            Covers(o, q) /\ Lookup(q).kind = "file" /\ Stable(q) => q \in ToSet(backedup)

(* No path is handed over more often than options ask for it, and none     *)
(* that nobody asked for: a file that was would have all its blocks twice. *)
OncePerOption ==
    \A q \in ToSet(backedup) :
        Cardinality({i \in 1..Len(backedup) : backedup[i] = q})
            <= Cardinality({i \in 1..Len(given) : Covers(given[i], q)})

(* Only what the file system cannot answer ends the program early: in a    *)
(* quiet tree, a directory that cannot be read, or too many links on the   *)
(* way to the directory it works on or to an entry of that (nothing        *)
(* catches what the iterators throw).                                      *)
AbortIsExplained ==
    outcome = "aborted" =>
        \/ changes > 0 \/ open # Dir
        \/ \E q \in {Cur.path} \cup {Append(Cur.path, n) : n \in Name} :
              Lookup(q).kind = "error"

(* The program comes to an end, even if links lead back to directories     *)
(* they are in: in the end there are too many (recursive_backup).          *)
Ends == <>(outcome # "running")

(* The definition that the comment of recursive_backup quotes ends at a    *)
(* maximal depth and keeps what it has done ("match maxdepth with O =>     *)
(* this"), and dirExists means to "prevent loop": a tree of readable       *)
(* directories that nobody changes, in which no link leads to itself, is   *)
(* no reason to end early.                                                 *)
DepthIsBounded ==
    outcome = "aborted" =>
        \/ changes > 0 \/ open # Dir
        \/ \E d \in Dir, n \in Name : tree[d][n].kind = "loop"
=============================================================================
