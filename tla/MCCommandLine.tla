---------------------------- MODULE MCCommandLine -----------------------------
(* Instances of CommandLine for TLC.                                       *)
EXTENDS CommandLine, SequencesExt

CONSTANTS F1, F2, OneInfo, TwoInfo

Entry(info, n) == [info |-> info, blocks |-> [i \in 1..n |-> <<info, i>>]]

Files(one, two) == [f \in FHash |-> IF f = F1 THEN one ELSE two]

Doc(encrypted, root, ks, files, invalid) ==
    [encrypted |-> encrypted, root |-> root, keys |-> ks, files |-> files, invalid |-> invalid]

NoFiles == Files(Entry(NoInfo, 0), Entry(NoInfo, 0))

(* Keys of two backups, one of them not encrypted; files of two backups,   *)
(* the second of which left F1 out; documents of elykseer-cpp before 5.0.0,*)
(* without XML, and with a checksum or a secret that is none.              *)
MCDocs ==
    ("keys1"  :> Doc(TRUE,  "keys",  {1}, NoFiles, FALSE)) @@
    ("keys2"  :> Doc(FALSE, "keys",  {2}, NoFiles, FALSE)) @@
    ("files1" :> Doc(TRUE,  "files", {}, Files(Entry(OneInfo, 2), Entry(OneInfo, 1)), FALSE)) @@
    ("files2" :> Doc(TRUE,  "files", {}, Files(Entry(OneInfo, 0), Entry(TwoInfo, 1)), FALSE)) @@
    ("files3" :> Doc(FALSE, "files", {}, Files(Entry(TwoInfo, 1), Entry(NoInfo, 0)), FALSE)) @@
    ("legacy" :> Doc(TRUE,  "DbKey", {}, NoFiles, FALSE)) @@
    ("torn"   :> Doc(TRUE,  "garbage", {}, NoFiles, FALSE)) @@
    ("badkey" :> Doc(TRUE,  "keys",  {3}, NoFiles, TRUE)) @@
    ("badsum" :> Doc(TRUE,  "files", {}, Files(Entry(TwoInfo, 1), Entry(NoInfo, 0)), TRUE))

Opts(letter, values) == {[opt |-> letter, arg |-> a] : a \in values}

Needed == [LXRbackup  |-> <<[opt |-> "y", arg |-> "424242"], [opt |-> "k", arg |-> "key"],
                            [opt |-> "x", arg |-> "chunks"], [opt |-> "o", arg |-> "meta"]>>,
           LXRrestore |-> <<[opt |-> "y", arg |-> "424242"], [opt |-> "x", arg |-> "chunks"],
                            [opt |-> "o", arg |-> "out"]>>,
           LXRverify  |-> <<[opt |-> "y", arg |-> "424242"], [opt |-> "x", arg |-> "chunks"]>>]

Plain == Opts("dry-run", {""}) \cup Opts("nogpg", {""}) \cup Opts("h", {""}) \cup Opts("V", {""})

Stated == [LXRbackup |-> Opts("y", {"434343", "42"}) \cup Opts("k", {"nokey"})
                           \cup Opts("x", {"out", "nodir"}) \cup Opts("n", {15, 16, 256, 257}),
           LXRrestore |-> Opts("y", {"434343", "42"}) \cup Opts("o", {"meta", "nodir"})
                           \cup Opts("n", {15, 256}),
           LXRverify |-> Opts("y", {"434343", "42"}) \cup Opts("n", {32})]

Worked == [LXRbackup |-> Opts("f", {"a", "gone", "data"}) \cup Opts("d", {"data"}) \cup Opts("D", {"data", "nodir"})
                           \cup Opts("r", {"files1", "files2", "files3", "badsum", "torn", "keys1"}),
           LXRrestore |-> Opts("f", {"a"}) \cup Opts("d", {"data"})
                           \cup Opts("b", {"files1", "files2", "files3", "badsum", "keys1"})
                           \cup Opts("k", {"keys1", "keys2", "badkey", "legacy", "nodoc"}),
           LXRverify |-> Opts("f", {"a"}) \cup Opts("d", {"data"})
                           \cup Opts("b", {"files1", "files2", "torn"}) \cup Opts("k", {"keys1", "keys2"})]

UpTo(S, n) == UNION {[1..m -> S] : m \in 0..n}

(* All that is needed between any two options and one more, or before any  *)
(* three documents and files; and whatever settings there are, in any      *)
(* number and order.                                                       *)
MCLines ==
    UNION {LET any == Plain \cup Stated[t] \cup Worked[t]
               set == Plain \cup Stated[t] \cup {Needed[t][i] : i \in 1..Len(Needed[t])}
           IN  {[tool |-> t, start |-> UpTo(any, 2), end |-> {Needed[t] \o b : b \in UpTo(any, 1)}],
                [tool |-> t, start |-> {Needed[t]}, end |-> UpTo(Worked[t], 3)],
                [tool |-> t, start |-> {<<>>}, end |-> UpTo(set, 3)]} : t \in Tools}
=============================================================================
