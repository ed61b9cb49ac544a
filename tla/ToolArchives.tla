----------------------------- MODULE ToolArchives -----------------------------
(* Archives that LXRrestore and LXRverify are checked with.                *)
EXTENDS Integers, Sequences, FiniteSets

CONSTANTS FHash, Byte, BlockSz, NoSum, F1, F2

MCData == UNION {[1..n -> Byte] : n \in 0..BlockSz}

MCSize == [d \in MCData |-> Len(d)]

BlockAt(p, d) == [apos |-> p, len |-> Len(d), data |-> d]

InfoOf(id, pos, a, p, d) ==
    [blockid |-> id, filepos |-> pos, blockaid |-> a, blockapos |-> p,
     blocksize |-> Len(d), bchecksum |-> d]

(* What backup returns for an empty buffer.                                *)
DefaultInfo(id, pos) == [blockid |-> id, filepos |-> pos, blockaid |-> 0,
                         blockapos |-> 0, blocksize |-> 0, bchecksum |-> NoSum]

(* F1 has three blocks in two assemblies, or was cut while it was read, or *)
(* was backed up twice, the second time with one byte; F2 has one block,   *)
(* in the first assembly, or was found empty.                              *)
Lists ==
    {[fh \in FHash |-> IF fh = F1 THEN one ELSE two] :
        one \in {<<InfoOf(1, 0, 1, 1, <<"a", "b">>), InfoOf(2, 2, 2, 1, <<"b", "a">>),
                   InfoOf(3, 4, 2, 3, <<"b">>)>>,
                 <<InfoOf(1, 0, 1, 1, <<"a", "b">>), DefaultInfo(2, 2)>>,
                 <<InfoOf(1, 0, 2, 1, <<"b", "a">>), InfoOf(2, 2, 2, 3, <<"b">>),
                   InfoOf(3, 0, 1, 3, <<"a">>)>>},
        two \in {<<InfoOf(1, 0, 1, 3, <<"a">>)>>, <<>>}}

(* Of the assemblies any may be damaged and any key missing or useless.    *)
MCArchives ==
    {[content |-> << <<BlockAt(1, <<"a", "b">>), BlockAt(3, <<"a">>)>>,
                     <<BlockAt(1, <<"b", "a">>), BlockAt(3, <<"b">>)>> >>,
      intact |-> ok, keystore |-> keys, badkeys |-> bad, fblockstore |-> fbs] :
        ok \in {{1, 2}, {1}}, keys \in {{1, 2}, {2}}, bad \in {{}, {2}}, fbs \in Lists}

MCCmdLines == {<<F1, F2>>, <<F2, F1>>, <<F1, F1>>}
=============================================================================
