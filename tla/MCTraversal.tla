----------------------------- MODULE MCTraversal ------------------------------
(* Small directory trees for Traversal.                                    *)
EXTENDS Traversal

CONSTANTS d0, d1, d2, a, b

MCTop  == d0
AFile  == [kind |-> "file", link |-> FALSE, dir |-> NoDir]
ToFile == [kind |-> "file", link |-> TRUE, dir |-> NoDir]
ToNone == [kind |-> "absent", link |-> TRUE, dir |-> NoDir]
Loop   == [kind |-> "loop", link |-> TRUE, dir |-> NoDir]
D(d)   == [kind |-> "dir", link |-> FALSE, dir |-> d]
To(d)  == [kind |-> "dir", link |-> TRUE, dir |-> d]

Holds(x, y) == [n \in Name |-> IF n = a THEN x ELSE y]

Three(x, y, z) == [d \in Dir |-> CASE d = d0 -> x [] d = d1 -> y [] d = d2 -> z]

Deep      == Three(Holds(AFile, D(d1)), Holds(D(d2), ToFile), Holds(AFile, NoEntry))
Linked    == Three(Holds(To(d1), ToNone), Holds(AFile, D(d2)), Holds(AFile, AFile))
ToParent  == Three(Holds(AFile, D(d1)), Holds(To(d0), AFile), Holds(NoEntry, NoEntry))
ToItself  == Three(Holds(AFile, D(d1)), Holds(Loop, AFile), Holds(NoEntry, NoEntry))

MCTrees    == {Deep, Linked, ToParent, ToItself}
MCReadable == {Dir, Dir \ {d1}}

Opt(o, p) == [op |-> o, path |-> p]

MCCmdLines == {<<Opt("D", <<>>)>>, <<Opt("f", <<a>>), Opt("d", <<>>), Opt("D", <<b>>)>>,
               <<Opt("d", <<b>>), Opt("D", <<>>)>>, <<Opt("d", <<a>>), Opt("d", <<>>), Opt("d", <<b>>)>>}
=============================================================================
