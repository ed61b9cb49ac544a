----------------------------- MODULE MCAssembly -----------------------------
(* Instances of Assembly for TLC.                                          *)
EXTENDS Assembly, TLC

(* Keys are only compared with each other.                                 *)
KeySymmetry == Permutations(Key)
=============================================================================
