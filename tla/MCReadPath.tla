------------------------------ MODULE MCReadPath ------------------------------
(* Instances of ReadPath for TLC.                                          *)
EXTENDS ReadPath, TLC

MCSize == [d \in Data |-> 1]

BlockAt(p, d) == [apos |-> p, len |-> 1, data |-> d]

InfoOf(id, a, p, d) == [blockid |-> id, filepos |-> id - 1, blockaid |-> a,
                        blockapos |-> p, blocksize |-> 1, bchecksum |-> d]

DefaultInfo(id) == [blockid |-> id, filepos |-> id - 1, blockaid |-> NoAid,
                    blockapos |-> 0, blocksize |-> 0, bchecksum |-> NoSum]

(* Three assemblies and a file with a block in each of them, two in the    *)
(* first, and an empty block read while the file was cut; of the           *)
(* assemblies any may be damaged and any key missing or useless.           *)
MCArchives ==
    {[content |-> << <<BlockAt(1, "x"), BlockAt(2, "y")>>, <<BlockAt(1, "y")>>,
                     <<BlockAt(1, "x")>> >>,
      intact |-> ok, keystore |-> keys, badkeys |-> bad,
      fblockstore |-> [fh \in FHash |->
          <<InfoOf(1, 1, 1, "x"), InfoOf(2, 1, 2, "y"), InfoOf(3, 2, 1, "y"),
            InfoOf(4, 3, 1, "x"), DefaultInfo(5)>>]] :
        ok \in {1..3, {1, 2}}, keys \in {1..3, {1, 3}}, bad \in {{}, {1}}}
=============================================================================
