--------------------------- MODULE MCAssemblyCache ----------------------------
(* Instances of AssemblyCache for TLC.                                     *)
EXTENDS AssemblyCache, TLC

(* An assembly holds 2 bytes, that is two blocks, behind a header of 1.    *)
MCSize == [d \in Data |-> 1]

NoArchive == {}        \* the process starts without meta data

Threads == Permutations(Writers) \cup Permutations(Readers)
=============================================================================
