---------------------------- MODULE MCBackupChain -----------------------------
(* An instance of BackupChain for TLC.                                     *)
EXTENDS BackupChain, TLC

Symmetry == Permutations(FHash) \cup Permutations(Contents \ {Empty})
=============================================================================
