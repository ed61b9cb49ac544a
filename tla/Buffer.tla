------------------------------- MODULE Buffer -------------------------------
(***************************************************************************)
(* CoqBuffer (src/cpp/coqbuffer.cpp): byte buffers, what is written to and *)
(* read from a file, and AES-256-GCM over a whole buffer.                  *)
(*                                                                         *)
(* A buffer of n bytes is a function on 0..n-1.  A file is a record of the *)
(* number of its bytes (len) and the bytes (at).                           *)
(*                                                                         *)
(* Encryption is symbolic.  Under key k, a byte b becomes <<"c", k, b>>,   *)
(* and the last TagLen bytes are overwritten by the authentication tag,    *)
(* which is determined by the key, the additional data and every byte of   *)
(* the ciphertext.                                                         *)
(***************************************************************************)
EXTENDS Integers

CONSTANT TagLen        \* CoqBuffer::tag_len

ASSUME TagLenAssumption == TagLen \in Nat \ {0}

(* The bytes pos .. pos+sz-1 of buffer b.                                  *)
Slice(b, pos, sz) == [i \in 0..sz-1 |-> b[pos + i]]

(* The value fileout_sz_pos returns for a buffer of n bytes.  The result   *)
(* of fwrite is not looked at: sz is returned however many bytes were      *)
(* written.                                                                *)
FileoutResult(n, pos, sz) ==
    IF sz < 1 \/ pos < 0 THEN 0 ELSE IF sz + pos > n THEN -1 ELSE sz

(* The value filein_sz_pos returns for a buffer of n bytes when the file   *)
(* holds flen bytes: the number of bytes fread delivers.                   *)
FileinResult(n, pos, sz, flen) ==
    IF sz < 1 \/ pos < 0 THEN 0
    ELSE IF sz + pos > n THEN -1
    ELSE IF flen < sz THEN flen ELSE sz

(* The authentication tag of the ciphertext c under key k and the          *)
(* additional data aad.                                                    *)
Tag(k, aad, c) == <<k, aad, c>>

EncryptBuffer(b, n, k, aad) ==
    LET dlen == n - TagLen
        c    == [p \in 0..dlen-1 |-> <<"c", k, b[p]>>]
    IN  [p \in 0..n-1 |-> IF p < dlen THEN c[p]
                                      ELSE <<"t", p - dlen, Tag(k, aad, c)>>]

AuthenticUnchecked(e, n, k, aad) == TRUE  \* mutant: the tag is not looked at

(* The tag bytes of buffer e are those of its ciphertext under k and aad.  *)
Authentic(e, n, k, aad) ==
    LET dlen == n - TagLen
        t    == Tag(k, aad, Slice(e, 0, dlen))
    IN  \A p \in dlen..n-1 : e[p] = <<"t", p - dlen, t>>

(* decrypt_buffer of an authentic buffer: the plain bytes, then the tag,   *)
(* which stays where it is.                                                *)
DecryptBuffer(e, n) == [p \in 0..n-1 |-> IF p < n - TagLen THEN e[p][3] ELSE e[p]]
=============================================================================
