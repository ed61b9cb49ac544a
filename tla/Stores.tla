-------------------------------- MODULE Stores --------------------------------
(***************************************************************************)
(* The documents of the three stores (src/cpp/coqstore.cpp).  A files      *)
(* document has one entry for each file: what is recorded of it and the    *)
(* list of its blocks, which may be empty.  A keys document is the set of  *)
(* assemblies whose keys it holds; the key of an assembly is drawn once    *)
(* and never replaced, so that reading keys is a union.                    *)
(*                                                                         *)
(* What is recorded of a file is its checksum; equal checksums are taken   *)
(* to mean equal contents.  The syntax of XML is left out: a document is   *)
(* read in full, or is reported unreadable and the tool gives up.          *)
(***************************************************************************)
EXTENDS Integers, Sequences

CONSTANTS FHash,       \* hashes of file paths
          NoInfo,      \* nothing is recorded of a file
          BlankInfo    \* the FileInformation that was never filled in

ASSUME InfoAssumption == NoInfo # BlankInfo

NoInfos  == [f \in FHash |-> NoInfo]      \* an empty CoqFInfoStore
NoBlocks == [f \in FHash |-> <<>>]        \* an empty CoqFBlockStore

FilesDocumentBlank(infos, blocks) ==      \* mutant: the information is not looked up
    [f \in FHash |-> [info |-> IF infos[f] = NoInfo THEN NoInfo ELSE BlankInfo,
                      blocks |-> blocks[f]]]

(* write_files_document: an entry for every file with blocks, then one for *)
(* every other file with information; a file without an entry is one that  *)
(* has neither.                                                            *)
FilesDocument(infos, blocks) ==
    [f \in FHash |-> [info |-> IF infos[f] = NoInfo /\ blocks[f] # <<>>
                               THEN BlankInfo ELSE infos[f],
                      blocks |-> blocks[f]]]

(* The files that have an entry.                                           *)
Listed(doc) == {f \in FHash : doc[f].info # NoInfo}

(* read_files_document, as done by a CoqFInfoStore: the information that   *)
(* is read replaces what is there.                                         *)
ReadInfos(infos, doc) ==
    [f \in FHash |-> IF f \in Listed(doc) THEN doc[f].info ELSE infos[f]]

ReadBlocksAlways(blocks, doc) ==          \* mutant: an empty list replaces one as well
    [f \in FHash |-> IF f \in Listed(doc) THEN doc[f].blocks ELSE blocks[f]]

ReadBlocksAppending(blocks, doc) ==       \* mutant: blocks are added to what is there
    [f \in FHash |-> blocks[f] \o doc[f].blocks]

(* The same by a CoqFBlockStore: a list replaces the list that is there,   *)
(* except if it is empty.                                                  *)
ReadBlocks(blocks, doc) ==
    [f \in FHash |-> IF doc[f].blocks # <<>> THEN doc[f].blocks ELSE blocks[f]]

(* CoqKeyStore::inStream                                                   *)
ReadKeys(keys, doc) == keys \cup doc
=============================================================================
