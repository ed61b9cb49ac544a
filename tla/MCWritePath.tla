----------------------------- MODULE MCWritePath ------------------------------
(* Instances of WritePath for TLC.                                         *)
EXTENDS WritePath, TLC

(* An assembly holds 3 bytes behind a header of 1: one block of each kind, *)
(* a block that fills it, one that fits into no assembly, and an empty one.*)
MCSize == [d \in Data |-> CASE d = "empty" -> 0 [] d = "one" -> 1 [] d = "two" -> 2
                            [] d = "full" -> 3 [] d = "big" -> 4]

FileSymmetry == Permutations(FHash)
=============================================================================
