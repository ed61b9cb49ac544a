------------------------------ MODULE Assembly ------------------------------
(***************************************************************************)
(* The life of one assembly, byte by byte (src/cpp/coqassembly.cpp):       *)
(* blocks are appended to a writable assembly, which is then finished,     *)
(* encrypted and extracted to n chunk files; later the chunk files are     *)
(* recalled, decrypted, and the blocks restored from the plain text.       *)
(*                                                                         *)
(* Logical position i is stored in chunk (i mod n) at offset (i div n).    *)
(* The tag of the encryption overwrites the last TagLen bytes of the last  *)
(* chunk, so the last TagLen rows of the stripe must stay free of data.    *)
(***************************************************************************)
EXTENDS Buffer, Sequences, FiniteSets

CONSTANTS NChunks,     \* number of chunks of an assembly (16..256)
          ChunkSize,   \* bytes of a chunk
          HeaderMax,   \* upper bound of the random header (128)
          Byte,        \* values of a plain byte
          Zero,        \* the byte calloc leaves
          Key,         \* encryption keys
          Aid,         \* the identifier of the assembly
          None,        \* nullptr, or no file
          MaxDamage    \* bound: how many faults hit the chunk files

ASSUME LayoutAssumption ==
    /\ NChunks \in Nat /\ NChunks >= TagLen
    /\ ChunkSize \in Nat /\ ChunkSize >= TagLen
    /\ HeaderMax \in Nat
ASSUME ValueAssumption == Zero \in Byte /\ MaxDamage \in Nat

VARIABLES phase,       \* "writable", "full", "encrypted", "extracted", "discarded"
          buffer,      \* _buffer of the assembly that is written
          apos,        \* its _apos
          blocks,      \* the block informations that backup returned
          contents,    \* history: the content handed to backup for each of them
          enckey,      \* the key of the encryption, or None
          nwritten,    \* the value returned by extract
          chunk,       \* the chunk files, by chunk number
          damage,      \* history: number of faults so far
          recalled,    \* _buffer of a recalled, still encrypted assembly
          readable     \* _buffer of a recalled and decrypted assembly

writeVars == <<phase, buffer, apos, blocks, contents, enckey, nwritten>>
readVars  == <<recalled, readable>>
vars      == <<writeVars, chunk, damage, readVars>>

-----------------------------------------------------------------------------
(* Layout                                                                  *)

AssemblySize == ChunkSize * NChunks

SmallerOf(a, b) == IF a < b THEN a ELSE b

HeaderLen == SmallerOf(NChunks - TagLen, HeaderMax)

Cids == 1..NChunks

(* Where logical position i is stored in the buffer.                       *)
Idx2Apos(i) == (i % NChunks) * ChunkSize + (i \div NChunks)

(* Bytes that are still available for data.                                *)
AFreeTagBytesOnly(ap) ==       \* mutant: TagLen bytes reserved, not TagLen rows
    LET free == AssemblySize - ap - TagLen
    IN  IF free < 0 THEN 0 ELSE free

AFree(ap) ==
    LET free == AssemblySize - ap - TagLen * NChunks
    IN  IF free < 0 THEN 0 ELSE free

(* The bytes of the logical positions ap .. ap+len-1.                      *)
Gather(b, ap, len) == [i \in 1..len |-> b[Idx2Apos(ap + i - 1)]]

ScatterInSequence(b, ap, content) ==     \* mutant: written without striping
    [p \in 0..AssemblySize-1 |->
        IF p \in ap..ap+Len(content)-1 THEN content[p - ap + 1] ELSE b[p]]

(* Buffer b after content has been stored at the logical positions from ap *)
(* on, in order: where positions coincide the last write stays.            *)
Scatter(b, ap, content) ==
    LET writes(p) == {i \in 1..Len(content) : Idx2Apos(ap + i - 1) = p}
        last(S)   == CHOOSE i \in S : \A j \in S : j <= i
    IN  [p \in 0..AssemblySize-1 |->
            IF writes(p) = {} THEN b[p] ELSE content[last(writes(p))]]

-----------------------------------------------------------------------------
(* Writing                                                                 *)

Init ==
    /\ phase = "writable"
    /\ \E h \in [0..HeaderLen-1 -> Byte] :
          buffer = [p \in 0..AssemblySize-1 |-> IF p < HeaderLen THEN h[p] ELSE Zero]
    /\ apos = HeaderLen
    /\ blocks = <<>> /\ contents = <<>>
    /\ enckey = None /\ nwritten = 0
    /\ chunk = [c \in Cids |-> None] /\ damage = 0
    /\ recalled = None /\ readable = None

(* backup of a block that fits; the environment asks afree first.          *)
Backup(content) ==
    /\ phase = "writable"
    /\ Len(content) > 0
    /\ Len(content) <= AFree(apos)
    /\ apos + Len(content) <= AssemblySize
    /\ buffer' = Scatter(buffer, apos, content)
    /\ apos' = apos + Len(content)
    /\ blocks' = Append(blocks, [blocksize |-> Len(content),
                                 bchecksum |-> content,
                                 blockapos |-> apos])
    /\ contents' = Append(contents, content)
    /\ UNCHANGED <<phase, enckey, nwritten, chunk, damage, readVars>>

(* The environment finishes an assembly only if it holds data.             *)
Finish ==
    /\ phase = "writable"
    /\ apos > HeaderLen
    /\ phase' = "full"
    /\ UNCHANGED <<buffer, apos, blocks, contents, enckey, nwritten, chunk,
                   damage, readVars>>

(* The cipher may fail, then the assembly is gone.                         *)
Encrypt(k) ==
    /\ phase = "full"
    /\ \/ /\ phase' = "encrypted"
          /\ buffer' = EncryptBuffer(buffer, AssemblySize, k, Aid)
          /\ enckey' = k
       \/ /\ phase' = "discarded"
          /\ buffer' = None
          /\ UNCHANGED enckey
    /\ UNCHANGED <<apos, blocks, contents, nwritten, chunk, damage, readVars>>

(* A file with the first len bytes of chunk c.                             *)
ChunkFileFromZero(b, c, len) ==          \* mutant: chunk numbers taken to start at 0
    [len |-> len, at |-> Slice(b, ChunkSize * (c % NChunks), len)]

ChunkFile(b, c, len) == [len |-> len, at |-> Slice(b, ChunkSize * (c - 1), len)]

(* extract: opened is the set of chunks whose path and file could be       *)
(* created, put[c] the number of bytes that fwrite really put there.       *)
Extract(opened, put) ==
    /\ phase = "encrypted"
    /\ chunk' = [c \in Cids |-> IF c \in opened THEN ChunkFile(buffer, c, put[c])
                                                ELSE chunk[c]]
    /\ LET counted == {c \in opened :
              FileoutResult(AssemblySize, ChunkSize * (c - 1), ChunkSize) = ChunkSize}
       IN  nwritten' = ChunkSize * Cardinality(counted)
    /\ phase' = "extracted"
    /\ buffer' = None
    /\ UNCHANGED <<apos, blocks, contents, enckey, damage, readVars>>

-----------------------------------------------------------------------------
(* Faults of the storage that holds the chunk files                        *)

(* A byte that is neither a cipher byte nor a tag byte of this model.      *)
Garbage == <<"x", 0, 0>>

FileLost(c) == chunk' = [chunk EXCEPT ![c] = None]

FileTruncated(c) ==
    \E len \in 0..chunk[c].len-1 :
        chunk' = [chunk EXCEPT ![c] = [len |-> len, at |-> Slice(chunk[c].at, 0, len)]]

ByteChanged(c) ==
    \E o \in 0..chunk[c].len-1 : chunk' = [chunk EXCEPT ![c].at[o] = Garbage]

Damage(c) ==
    /\ phase = "extracted"
    /\ damage < MaxDamage
    /\ chunk[c] # None
    /\ FileLost(c) \/ FileTruncated(c) \/ ByteChanged(c)
    /\ damage' = damage + 1
    /\ UNCHANGED <<writeVars, readVars>>

-----------------------------------------------------------------------------
(* Reading                                                                 *)

(* The chunk file exists and filein_sz_pos delivers a whole chunk.         *)
ChunkReadable(c) ==
    /\ chunk[c] # None
    /\ FileinResult(AssemblySize, ChunkSize * (c - 1), ChunkSize, chunk[c].len) = ChunkSize

(* recall: a buffer of all chunks if every one was read completely.        *)
Recall ==
    /\ phase = "extracted"
    /\ recalled' = IF \A c \in Cids : ChunkReadable(c)
                   THEN [p \in 0..AssemblySize-1 |->
                            chunk[(p \div ChunkSize) + 1].at[p % ChunkSize]]
                   ELSE None
    /\ UNCHANGED <<writeVars, chunk, damage, readable>>

(* decrypt: fails on another key and on bytes that were changed.           *)
Decrypt(k) ==
    /\ recalled # None
    /\ readable' = IF Authentic(recalled, AssemblySize, k, Aid)
                   THEN DecryptBuffer(recalled, AssemblySize)
                   ELSE None
    /\ recalled' = None
    /\ UNCHANGED <<writeVars, chunk, damage>>

(* restore: the block's bytes if it is in range and its checksum agrees.   *)
Restore(b, bi) ==
    IF \/ b = None
       \/ bi.blocksize = 0
       \/ bi.blockapos + bi.blocksize > AssemblySize
    THEN None
    ELSE LET r == Gather(b, bi.blockapos, bi.blocksize)
         IN  IF r = bi.bchecksum THEN r ELSE None

-----------------------------------------------------------------------------
Contents(ap) == UNION {[1..len -> Byte] : len \in 1..AFree(ap)}

Next ==
    \/ \E content \in Contents(apos) : Backup(content)
    \/ Finish
    \/ \E k \in Key : Encrypt(k)
    \/ \E opened \in SUBSET Cids :
          \E put \in [opened -> 0..ChunkSize] : Extract(opened, put)
    \/ \E c \in Cids : Damage(c)
    \/ Recall
    \/ \E k \in Key : Decrypt(k)

Spec == Init /\ [][Next]_vars

-----------------------------------------------------------------------------
(* Properties                                                              *)

IsBuffer(b) == DOMAIN b = 0..AssemblySize-1

(* The values the variables range over.                                    *)
TypeOK ==
    /\ phase \in {"writable", "full", "encrypted", "extracted", "discarded"}
    /\ apos \in HeaderLen..AssemblySize
    /\ apos = HeaderLen \/ apos + TagLen * NChunks <= AssemblySize
    /\ Len(blocks) = Len(contents)
    /\ phase \in {"writable", "full"} => buffer \in [0..AssemblySize-1 -> Byte]
    /\ phase = "encrypted" => IsBuffer(buffer)
    /\ enckey \in Key \cup {None}
    /\ nwritten \in 0..AssemblySize
    /\ DOMAIN chunk = Cids
    /\ damage \in 0..MaxDamage
    /\ recalled = None \/ IsBuffer(recalled)
    /\ readable = None \/ IsBuffer(readable)

(* While the assembly is written, every block that backup acknowledged is  *)
(* in the buffer unchanged, whatever was stored after it                   *)
(* (CoqAssemblyPlainWritable::backup, idx2apos).                           *)
BlocksKept ==
    phase \in {"writable", "full"} =>
        \A j \in 1..Len(blocks) :
            Gather(buffer, blocks[j].blockapos, blocks[j].blocksize) = contents[j]

(* Whatever happened to the chunk files: an assembly that could be         *)
(* recalled and decrypted gives back every block exactly as it was handed  *)
(* to backup, none of them lost under the tag, overwritten by a later one, *)
(* or refused by the checksum test of restore.                             *)
RoundTrip ==
    readable # None =>
        \A j \in 1..Len(blocks) : Restore(readable, blocks[j]) = contents[j]

(* What was read back without a changed byte is accepted under the key it  *)
(* was encrypted with: no chunk is written to, or read from, a place that  *)
(* is not its own (extract, recall, encrypt_buffer, decrypt_buffer).       *)
IntactIsReadable ==
    recalled # None /\ (\A p \in 0..AssemblySize-1 : recalled[p] # Garbage) =>
        Authentic(recalled, AssemblySize, enckey, Aid)

(* finalise_assembly returns the key of an assembly only if extract        *)
(* reported its full size; then every chunk can be read back, unless a     *)
(* fault hits it later ("the key is only returned if all n chunks were     *)
(* written").                                                              *)
KeyOnlyIfAllWritten ==
    phase = "extracted" /\ nwritten = AssemblySize /\ damage = 0 =>
        \A c \in Cids : ChunkReadable(c)

-----------------------------------------------------------------------------
(* Refinement: the assembly keeps the promise of SealedStore.              *)

Sealed == INSTANCE SealedStore WITH
    open <- phase = "writable",
    kept <- contents,
    seen <- IF readable = None THEN None
            ELSE [j \in 1..Len(blocks) |-> Restore(readable, blocks[j])]

SealedSpec == Sealed!SSpec
=============================================================================
