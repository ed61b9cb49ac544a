------------------------------- MODULE Archive --------------------------------
(***************************************************************************)
(* What the two halves of CoqAssemblyCache share: the assemblies, the      *)
(* chunk storage, the key store and the block lists of the files, at the   *)
(* granularity of blocks.  How blocks lie in an assembly byte by byte, and *)
(* why a block of an intact assembly reads back unchanged, is Assembly.    *)
(*                                                                         *)
(* Assemblies are numbered in the order of their creation: the program     *)
(* draws 256-bit random identifiers, which are taken to be distinct.       *)
(***************************************************************************)
EXTENDS Integers, Sequences, FiniteSets

CONSTANTS FHash,       \* hashes of file paths
          Data,        \* contents of blocks, equal iff their checksums are
          Size,        \* length of each content
          NoSum,       \* the checksum of a default block information
          HeaderLen,   \* CoqAssembly::header_len
          DataEnd      \* assemblysize without the tag_len rows of the tag

ASSUME SizeAssumption == Size \in [Data -> Nat]
ASSUME RoomAssumption == HeaderLen \in Nat /\ DataEnd \in Nat
ASSUME NoSumAssumption == NoSum \notin Data

VARIABLES content,     \* the blocks put into each assembly so far
          intact,      \* assemblies whose n chunk files are all complete
          keystore,    \* assemblies with an entry in the key store
          badkeys,     \* those of them whose key does not open the assembly
          fblockstore  \* block informations by file

archiveVars == <<content, intact, keystore, badkeys, fblockstore>>

NoAid == 0             \* the empty aid of a default block information

Aids == 1..Len(content)

Block == [apos : Nat, len : Nat \ {0}, data : Data]

BlockInfo == [blockid : Nat \ {0}, filepos : Nat, blockaid : Nat, blockapos : Nat,
              blocksize : Nat, bchecksum : Data \cup {NoSum}]

ArchiveTypeOK ==
    /\ content \in Seq(Seq(Block))
    /\ intact \subseteq Aids
    /\ keystore \subseteq Aids
    /\ badkeys \subseteq keystore
    /\ fblockstore \in [FHash -> Seq(BlockInfo)]

AFreeMax(ap) == DataEnd - ap + 1     \* mutant: one byte of the tag rows given away

(* Bytes of an assembly that are still available for data at position ap.  *)
AFree(ap) == IF DataEnd < ap THEN 0 ELSE DataEnd - ap

(* The part of assembly a that block information bi describes.             *)
Describes(bi, blk) ==
    /\ bi.blockapos = blk.apos
    /\ bi.blocksize = blk.len
    /\ bi.bchecksum = blk.data

(* try_restore_assembly: the key is known and opens the assembly, and all  *)
(* its chunks can be recalled.                                             *)
CanRestore(a) == a \in keystore \ badkeys /\ a \in intact

(* CoqFBlockStore::add: appended to the list of the file, numbered from 1. *)
AddReplacing(fbs, fh, bi) ==          \* mutant: the list of the file is not kept
    [fbs EXCEPT ![fh] = <<[bi EXCEPT !.blockid = 1]>>]

Add(fbs, fh, bi) ==
    [fbs EXCEPT ![fh] = Append(@, [bi EXCEPT !.blockid = Len(fbs[fh]) + 1])]

(* A fault of the storage: a chunk file is lost or damaged.                *)
LoseChunk(a) ==
    /\ a \in intact
    /\ intact' = intact \ {a}
    /\ UNCHANGED <<content, keystore, badkeys, fblockstore>>

-----------------------------------------------------------------------------
(* Invariants that both halves rely on                                     *)

(* Every block information points into the assembly it names: to a block   *)
(* put there with its length and content.  The default information, which  *)
(* backup returns for an empty buffer, names no assembly.                  *)
BlocksLocatable ==
    \A fh \in FHash : \A i \in 1..Len(fblockstore[fh]) :
        LET bi == fblockstore[fh][i]
        IN  \/ bi.blockaid = NoAid /\ bi.blocksize = 0
            \/ /\ bi.blockaid \in Aids
               /\ \E j \in 1..Len(content[bi.blockaid]) :
                     Describes(bi, content[bi.blockaid][j])

(* The blocks of an assembly lie one behind the other between the random   *)
(* header and the rows that are kept free for the tag.                     *)
BlocksDisjoint ==
    \A a \in Aids : \A i \in 1..Len(content[a]) :
        LET blk == content[a][i]
        IN  /\ HeaderLen <= blk.apos
            /\ blk.apos + blk.len <= DataEnd
            /\ \A j \in 1..i-1 : content[a][j].apos + content[a][j].len <= blk.apos
=============================================================================
