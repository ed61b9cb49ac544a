------------------------------ MODULE MCBackup --------------------------------
(* Instances of Backup for TLC.                                            *)
EXTENDS Backup

MCData == UNION {[1..n -> Byte] : n \in 0..BlockSz}

MCSize == [d \in MCData |-> Len(d)]

(* Empty, one short block, and two blocks the second of which is short.    *)
MCContents == {<<>>, <<"a">>, <<"a", "b", "a">>, <<"b", "b", "b">>}

(* One file twice, and two files.                                          *)
MCCmdLines == {<<f, g>> : f, g \in FHash}

(* Nothing is recorded yet, or every file once had one byte.               *)
MCReferences == {[f \in FHash |-> NoFile], [f \in FHash |-> <<"a">>]}
=============================================================================
