---------------------------- MODULE SealedStore -----------------------------
(***************************************************************************)
(* What an assembly promises to the rest of the program: contents are put  *)
(* into it while it is open; once it is sealed a reader gets either        *)
(* nothing at all or exactly the contents that were put in, all of them.   *)
(***************************************************************************)
EXTENDS Integers, Sequences

CONSTANT None

VARIABLES open,        \* contents may still be put in
          kept,        \* the contents, in the order they were put in
          seen         \* what the last reader got, or None

svars == <<open, kept, seen>>

SInit == open = TRUE /\ kept = <<>> /\ seen = None

Put == /\ open
       /\ Len(kept') = Len(kept) + 1
       /\ SubSeq(kept', 1, Len(kept)) = kept
       /\ UNCHANGED <<open, seen>>

Seal == /\ open
        /\ open' = FALSE
        /\ kept # <<>>
        /\ UNCHANGED <<kept, seen>>

Read == /\ ~open
        /\ seen' \in {None, kept}
        /\ UNCHANGED <<open, kept>>

SNext == Put \/ Seal \/ Read

SSpec == SInit /\ [][SNext]_svars
=============================================================================
