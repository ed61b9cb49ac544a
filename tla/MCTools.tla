------------------------------ MODULE MCTools ---------------------------------
(* Instances of Tools for TLC.                                             *)
EXTENDS Tools

CONSTANTS F1, F2

A == INSTANCE ToolArchives

MCData == A!MCData
MCSize == A!MCSize
MCArchives == A!MCArchives
MCCmdLines == A!MCCmdLines

(* The output directory is empty, or F1 is there already.                  *)
MCExisting == {[fh \in FHash |-> NoFile],
               [fh \in FHash |-> IF fh = F1 THEN <<"b">> ELSE NoFile]}
=============================================================================
