-------------------------------- MODULE Files ---------------------------------
(***************************************************************************)
(* Contents of files and of their blocks.  A file is a sequence of bytes,  *)
(* and is cut into blocks of BlockSz bytes; equal checksums are taken to   *)
(* mean equal contents.                                                    *)
(***************************************************************************)
EXTENDS Archive

CONSTANTS Byte,        \* values of a byte
          Zero,        \* the byte a gap in a file reads as
          BlockSz      \* block_sz

ASSUME BytesAssumption == Zero \in Byte /\ BlockSz \in Nat \ {0}
ASSUME BlocksAssumption ==
    /\ Data = UNION {[1..n -> Byte] : n \in 0..BlockSz}
    /\ Size = [d \in Data |-> Len(d)]
    /\ HeaderLen + BlockSz <= DataEnd

LessOf(a, b) == IF a < b THEN a ELSE b

(* The bytes of a file of content c from pos on: sz of them, or fewer at   *)
(* the end of the file.                                                    *)
BytesAt(c, pos, sz) == SubSeq(c, pos + 1, LessOf(pos + sz, Len(c)))

(* What fread may deliver of them: all, or those before the place where    *)
(* reading fails.                                                          *)
Fread(c, pos, sz) ==
    LET all == BytesAt(c, pos, sz) IN {SubSeq(all, 1, n) : n \in 0..Len(all)}

(* A file of content c after the bytes d were written at position pos.     *)
Overlay(c, pos, d) ==
    [i \in 1..(IF pos + Len(d) > Len(c) THEN pos + Len(d) ELSE Len(c)) |->
        IF i \in pos+1..pos+Len(d) THEN d[i - pos]
        ELSE IF i <= Len(c) THEN c[i] ELSE Zero]

(* The file that the block list bs describes, its blocks put one after the *)
(* other where they belong.                                                *)
Rebuilt(bs) ==
    LET file[i \in 0..Len(bs)] ==
            IF i = 0 THEN <<>>
            ELSE IF bs[i].blocksize = 0 THEN file[i-1]
            ELSE Overlay(file[i-1], bs[i].filepos, bs[i].bchecksum)
    IN  file[Len(bs)]
=============================================================================
