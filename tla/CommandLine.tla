----------------------------- MODULE CommandLine ------------------------------
(***************************************************************************)
(* How LXRbackup, LXRrestore and LXRverify (src/cpp/cli) take over their   *)
(* options, one after the other, up to the point where they start to work  *)
(* or exit.  Documents are decrypted and read where their option stands.   *)
(*                                                                         *)
(* An option is a letter of getopt's string, or the name of an option that *)
(* has none, with its argument; --pX and -x are one and the same.  Numbers *)
(* are what atoi makes of them.                                            *)
(***************************************************************************)
EXTENDS Stores, FiniteSets

CONSTANTS Lines,         \* command lines: the tool, and how they may start and end
          Docs,          \* the documents that exist, by name
          Dirs,          \* directories that exist
          PlainFiles,    \* what exists besides
          LongIds,       \* identifiers of at least 6 characters
          PublicKeys,    \* keys that GnuPG has
          MaxFiles,      \* MAX_BACKUP_FILES, MAX_RESTORE_FILES
          MaxDirs,       \* MAX_BACKUP_DIRS
          None           \* an option that was not given

ASSUME MaxAssumption == MaxFiles \in Nat \ {0} /\ MaxDirs \in Nat \ {0}
ASSUME LinesAssumption ==
    \A l \in Lines : /\ l.tool \in {"LXRbackup", "LXRrestore", "LXRverify"}
                     /\ \A a \in l.start \cup l.end : a \in Seq({a[i] : i \in 1..Len(a)})
ASSUME DocsAssumption == \A n \in DOMAIN Docs : Docs[n].encrypted \in BOOLEAN
ASSUME NoneAssumption == None \notin Dirs \cup LongIds \cup PublicKeys \cup Nat

VARIABLES tool, args,    \* the program and its command line
          optind,        \* the number of the next option
          use_gpg, dry_run,
          config,        \* myid, okey, metapath or outputpath, chunkpath, nchunks
          lists,         \* list_files, list_dir1, list_dir
          keys, blocks, infos,          \* the stores
          status         \* "parsing", or "run" at the start of the work, or the exit

storeVars == <<keys, blocks, infos>>
vars == <<tool, args, optind, use_gpg, dry_run, config, lists, storeVars, status>>

Tools == {"LXRbackup", "LXRrestore", "LXRverify"}

(* What the options of a tool do; all others are reported by getopt and    *)
(* otherwise ignored.                                                      *)
Flags == {"dry-run", "verbose", "nogpg"}

Texts == {"h", "V", "L", "C"}

Settings == CASE tool = "LXRbackup"  -> {"x", "o", "n", "y", "k"}
              [] tool = "LXRrestore" -> {"x", "o", "n", "y"}
              [] tool = "LXRverify"  -> {"x", "y"}

Lists == IF tool = "LXRbackup" THEN {"f", "d", "D"} ELSE {"f"}

Documents == IF tool = "LXRbackup" THEN {"r"} ELSE {"b", "k"}

(* Without these no tool starts; nchunks has a default.                    *)
Required == Settings \ {"n"}

-----------------------------------------------------------------------------
(* set_chunk_path, set_meta_path, set_output_path, set_n_chunks, set_myid, *)
(* set_ownerkey: the argument is accepted.                                 *)
Acceptable(o) ==
    CASE o.opt \in {"x", "o"} -> o.arg \in Dirs
      [] o.opt = "n"          -> o.arg \in 16..256
      [] o.opt = "y"          -> o.arg \in LongIds
      [] o.opt = "k"          -> o.arg \in PublicKeys

(* set_backup_file, set_backup_dir1, set_backup_dir_rec, restore_file: the *)
(* last place of an array stays free.  What is to be restored is not there.*)
RoomFor(letter) == Len(lists[letter]) < (IF letter = "f" THEN MaxFiles ELSE MaxDirs) - 1

Found(o) == CASE tool # "LXRbackup"    -> TRUE
              [] o.opt = "f"           -> o.arg \in PlainFiles \cup Dirs
              [] o.opt \in {"d", "D"}  -> o.arg \in Dirs

(* What inStream gets to see of an existing document: its text.  Without   *)
(* GnuPG an encrypted document is no XML.  A document that GnuPG cannot    *)
(* decrypt leaves the stream empty; that is read like a document without   *)
(* entries or refused, which is up to the XML parser.                      *)
Nothing == [encrypted |-> FALSE, root |-> "none", keys |-> {}, invalid |-> FALSE,
            files |-> [f \in FHash |-> [info |-> NoInfo, blocks |-> <<>>]]]

Garbage == [Nothing EXCEPT !.root = "garbage"]

TextsOfStart(d) ==                    \* mutant: --nogpg holds for the whole line
    IF \E i \in 1..Len(args) : args[i].opt = "nogpg"
    THEN IF d.encrypted THEN {Garbage} ELSE {d}
    ELSE IF d.encrypted THEN {d} ELSE {Nothing, Garbage}

TextsOf(d) == CASE use_gpg = d.encrypted      -> {d}
                [] use_gpg /\ ~d.encrypted    -> {Nothing, Garbage}
                [] ~use_gpg /\ d.encrypted    -> {Garbage}

(* inStream refuses what is no XML, and a document with a key or checksum  *)
(* that is none if it belongs to what the store takes.                     *)
RefusedBy(letter, t) ==
    \/ t.root = "garbage"
    \/ t.invalid /\ letter = "b" /\ t.root = "files"
    \/ t.invalid /\ letter = "k" /\ t.root = "keys"

(* CoqFInfoStore::inStream, CoqFBlockStore::inStream, CoqKeyStore::inStream*)
(* ignore all elements but those they look for.                            *)
InStream(letter, t) ==
    LET files == IF t.root = "files" THEN t.files ELSE Nothing.files
    IN  CASE letter = "r" ->
                 infos' = ReadInfos(infos, files) /\ UNCHANGED <<keys, blocks>>
          [] letter = "b" ->
                 blocks' = ReadBlocks(blocks, files) /\ UNCHANGED <<keys, infos>>
          [] letter = "k" ->
                 /\ keys' = ReadKeys(keys, IF t.root = "keys" THEN t.keys ELSE {})
                 /\ UNCHANGED <<blocks, infos>>

-----------------------------------------------------------------------------
Option == args[optind]

Parsing(letters) == status = "parsing" /\ optind <= Len(args) /\ Option.opt \in letters

Exit(s) == status' = s /\ UNCHANGED <<use_gpg, dry_run, config, lists, storeVars>>

NextOption == optind' = optind + 1 /\ UNCHANGED <<tool, args>>

(* getopt sets the flag.                                                   *)
SetFlag ==
    /\ Parsing(Flags)
    /\ use_gpg' = (use_gpg /\ Option.opt # "nogpg")
    /\ dry_run' = (dry_run \/ Option.opt = "dry-run")
    /\ NextOption
    /\ UNCHANGED <<config, lists, storeVars, status>>

(* output_help, output_version, output_license, output_copyright: of these *)
(* LXRrestore exits after the last three.                                  *)
ShowText ==
    /\ Parsing(Texts)
    /\ IF tool = "LXRrestore" /\ Option.opt # "h" THEN Exit("exit0") ELSE Exit("parsing")
    /\ NextOption

SetConfig ==
    /\ Parsing(Settings)
    /\ IF Acceptable(Option)
       THEN /\ config' = [config EXCEPT ![Option.opt] = Option.arg]
            /\ UNCHANGED <<use_gpg, dry_run, lists, storeVars, status>>
       ELSE Exit("exit1")
    /\ NextOption

AddToList ==
    /\ Parsing(Lists)
    /\ IF RoomFor(Option.opt) /\ Found(Option)
       THEN /\ lists' = [lists EXCEPT ![Option.opt] = Append(@, Option.arg)]
            /\ UNCHANGED <<use_gpg, dry_run, config, storeVars, status>>
       ELSE Exit("exit1")
    /\ NextOption

(* add_ref_dbfi, add_dbfb_path, add_dbkey_path.  A tool that refuses a     *)
(* document exits; what it read of it does not matter any more.            *)
AddDocument ==
    /\ Parsing(Documents)
    /\ IF Option.arg \in DOMAIN Docs
       THEN \E t \in TextsOf(Docs[Option.arg]) :
               IF RefusedBy(Option.opt, t)
               THEN Exit("exit1")
               ELSE /\ InStream(Option.opt, t)
                    /\ UNCHANGED <<use_gpg, dry_run, config, lists, status>>
       ELSE Exit("exit1")
    /\ NextOption

IgnoreOption ==
    /\ status = "parsing" /\ optind <= Len(args)
    /\ Option.opt \notin Flags \cup Texts \cup Settings \cup Lists \cup Documents
    /\ Exit("parsing")
    /\ NextOption

(* The checks behind the loop.                                             *)
Complete == /\ tool # "LXRbackup" => args # <<>>
            /\ \A s \in Required : config[s] # None

EndOfOptions ==
    /\ status = "parsing" /\ optind > Len(args)
    /\ Exit(IF ~Complete THEN "exit1" ELSE IF dry_run THEN "exit0" ELSE "run")
    /\ UNCHANGED <<tool, args, optind>>

Init ==
    /\ \E l \in Lines : tool = l.tool /\ \E a \in l.start, b \in l.end : args = a \o b
    /\ optind = 1 /\ use_gpg = TRUE /\ dry_run = FALSE
    /\ config = [s \in {"x", "o", "n", "y", "k"} |-> IF s = "n" THEN 16 ELSE None]
    /\ lists = [l \in {"f", "d", "D"} |-> <<>>]
    /\ keys = {} /\ blocks = NoBlocks /\ infos = NoInfos
    /\ status = "parsing"

Next ==
    \/ SetFlag \/ ShowText \/ SetConfig \/ AddToList \/ AddDocument \/ IgnoreOption
    \/ EndOfOptions

Spec == Init /\ [][Next]_vars

-----------------------------------------------------------------------------
(* Properties                                                              *)

Before(i, letter) == {j \in 1..i-1 : args[j].opt = letter}

Named(letter) == Before(Len(args) + 1, letter)

LastOf(S) == CHOOSE i \in S : \A j \in S : j <= i

(* q has the arguments of all options with that letter, in their order.    *)
InFull(q, letter) ==
    /\ Len(q) = Cardinality(Named(letter))
    /\ \A i \in Named(letter) : q[Cardinality(Before(i, letter)) + 1] = args[i].arg

(* --nogpg holds for the documents that are named after it.                *)
Decrypts(i) == Before(i, "nogpg") = {}

Legible(i) == args[i].arg \in DOMAIN Docs /\ Docs[args[i].arg].encrypted = Decrypts(i)

(* What the documents named by letter say, as far as it concerns its store.*)
Legibles(letter, root) ==
    {i \in Named(letter) : Legible(i) /\ Docs[args[i].arg].root = root}

FromLast(letter, f, part, none) ==
    LET said == {i \in Legibles(letter, "files") : Docs[args[i].arg].files[f][part] # none}
    IN  IF said = {} THEN none ELSE Docs[args[LastOf(said)].arg].files[f][part]

(* A tool starts with what its command line says, read from left to right: *)
(* each setting as it was given last, 16 chunks if none were; each list in *)
(* order and in full; and in its stores every key, for each file the block *)
(* list or the information of the last document that has one, of all       *)
(* documents that are legible where they are named.                        *)
StartsAsTold ==
    status = "run" =>
        /\ \A s \in Settings :
              config[s] = IF Named(s) = {} THEN 16 ELSE args[LastOf(Named(s))].arg
        /\ \A l \in Lists : InFull(lists[l], l)
        /\ tool = "LXRbackup" =>
              \A f \in FHash : infos[f] = FromLast("r", f, "info", NoInfo)
        /\ tool # "LXRbackup" =>
              /\ keys = UNION {Docs[args[i].arg].keys : i \in Legibles("k", "keys")}
              /\ \A f \in FHash : blocks[f] = FromLast("b", f, "blocks", <<>>)

(* An option that no tool can follow.                                      *)
Wrong(i) ==
    LET o == args[i]
    IN  CASE o.opt \in Settings  -> ~Acceptable(o)
          [] o.opt \in Lists     ->
                 \/ ~Found(o)
                 \/ Cardinality(Before(i, o.opt)) + 1
                        >= (IF o.opt = "f" THEN MaxFiles ELSE MaxDirs)
          [] o.opt \in Documents ->
                 \/ o.arg \notin DOMAIN Docs
                 \/ Docs[o.arg].encrypted /\ ~Decrypts(i)
                 \/ Legible(i) /\ RefusedBy(o.opt, Docs[o.arg])
          [] OTHER -> FALSE

Undecrypted(i) == /\ args[i].opt \in Documents /\ args[i].arg \in DOMAIN Docs
                  /\ ~Docs[args[i].arg].encrypted /\ Decrypts(i)

Exiting(i) == tool = "LXRrestore" /\ args[i].opt \in Texts \ {"h"}

(* A tool starts exactly if it can follow all of its options, has all it   *)
(* needs, and is not told otherwise; else it exits, with 1 at the first    *)
(* option that it cannot follow or for what is missing in the end, and     *)
(* with 0 only if it was told to.  Only a document that could not be       *)
(* decrypted may turn out either way.                                      *)
StatusIsExplained ==
    LET done == 1..optind-1
        gone == 1..optind-2
        lacking == \E s \in Required : Named(s) = {}
    IN  /\ \A i \in gone : ~Wrong(i) /\ ~Exiting(i)
        /\ status \in {"run", "parsing"} => \A i \in done : ~Wrong(i) /\ ~Exiting(i)
        /\ status = "run" => ~lacking /\ Named("dry-run") = {} /\ optind > Len(args)
        /\ status = "exit0" =>
              \/ Exiting(optind - 1)
              \/ ~lacking /\ Named("dry-run") # {} /\ \A i \in done : ~Wrong(i)
        /\ status = "exit1" =>
              \/ optind > Len(args) /\ (lacking \/ args = <<>>)
              \/ Wrong(optind - 1) \/ Undecrypted(optind - 1)
=============================================================================
