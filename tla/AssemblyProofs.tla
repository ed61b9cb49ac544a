--------------------------- MODULE AssemblyProofs ---------------------------
(***************************************************************************)
(* Theorems about Assembly, for every number of chunks, chunk size, tag    *)
(* length and byte alphabet that the assumptions of the module allow.      *)
(***************************************************************************)
EXTENDS Assembly, FiniteSetTheorems, TLAPS

-----------------------------------------------------------------------------
(* Layout: the striping is a bijection, and keeps data above the tag.      *)

LEMMA SizeFacts ==
    /\ NChunks \in Nat \ {0} /\ ChunkSize \in Nat \ {0} /\ TagLen \in Nat \ {0}
    /\ AssemblySize \in Nat
    /\ TagLen * NChunks \in Nat
    /\ TagLen <= AssemblySize
    /\ HeaderLen \in Nat
    /\ HeaderLen <= AssemblySize
<1>1. NChunks \in Nat \ {0} /\ ChunkSize \in Nat \ {0} /\ TagLen \in Nat \ {0}
  BY TagLenAssumption, LayoutAssumption
<1>2. AssemblySize \in Nat /\ TagLen * NChunks \in Nat
  BY <1>1 DEF AssemblySize
<1>3. TagLen <= AssemblySize
  <2>1. ChunkSize * 1 <= ChunkSize * NChunks
    BY <1>1
  <2> QED BY <2>1, <1>1, LayoutAssumption DEF AssemblySize
<1>4. HeaderLen \in Nat /\ HeaderLen <= NChunks
  BY <1>1, LayoutAssumption DEF HeaderLen, SmallerOf
<1>5. NChunks <= AssemblySize
  <2>1. 1 * NChunks <= ChunkSize * NChunks
    BY <1>1
  <2> QED BY <2>1, <1>1 DEF AssemblySize
<1> QED BY <1>1, <1>2, <1>3, <1>4, <1>5

(* A logical position is a row (its offset in a chunk) and a chunk.        *)
LEMMA RowAndChunk ==
    ASSUME NEW i \in 0..AssemblySize-1
    PROVE  /\ i % NChunks \in 0..NChunks-1
           /\ i \div NChunks \in 0..ChunkSize-1
           /\ i = NChunks * (i \div NChunks) + (i % NChunks)
<1>1. /\ i % NChunks \in 0..NChunks-1
      /\ i \div NChunks \in Nat
      /\ i = NChunks * (i \div NChunks) + (i % NChunks)
  BY SizeFacts
<1>2. NChunks * (i \div NChunks) < NChunks * ChunkSize
  BY <1>1, SizeFacts DEF AssemblySize
<1>3. i \div NChunks < ChunkSize
  BY <1>1, <1>2, SizeFacts
<1> QED BY <1>1, <1>3, SizeFacts

(* Every logical position is stored inside the buffer.                     *)
LEMMA Idx2AposInBuffer ==
    ASSUME NEW i \in 0..AssemblySize-1
    PROVE  Idx2Apos(i) \in 0..AssemblySize-1
<1> DEFINE r == i % NChunks
           q == i \div NChunks
<1>1. r \in 0..NChunks-1 /\ q \in 0..ChunkSize-1
  BY RowAndChunk
<1> HIDE DEF r, q
<1>2. r * ChunkSize <= (NChunks - 1) * ChunkSize
  BY <1>1, SizeFacts
<1>3. r * ChunkSize \in Nat
  BY <1>1, SizeFacts
<1>4. (NChunks - 1) * ChunkSize = AssemblySize - ChunkSize
  BY SizeFacts DEF AssemblySize
<1>5. r * ChunkSize + q \in 0..AssemblySize-1
  BY <1>1, <1>2, <1>3, <1>4, SizeFacts
<1> QED BY <1>5 DEF Idx2Apos, r, q

(* No two logical positions share a place in the buffer.                   *)
LEMMA Idx2AposInjective ==
    ASSUME NEW i \in 0..AssemblySize-1, NEW j \in 0..AssemblySize-1,
           Idx2Apos(i) = Idx2Apos(j)
    PROVE  i = j
<1> DEFINE ri == i % NChunks
           qi == i \div NChunks
           rj == j % NChunks
           qj == j \div NChunks
<1>1. /\ ri \in 0..NChunks-1 /\ qi \in 0..ChunkSize-1 /\ i = NChunks * qi + ri
      /\ rj \in 0..NChunks-1 /\ qj \in 0..ChunkSize-1 /\ j = NChunks * qj + rj
  BY RowAndChunk
<1>2. ri * ChunkSize + qi = rj * ChunkSize + qj
  BY DEF Idx2Apos
<1> HIDE DEF ri, qi, rj, qj
<1>3. ri = rj
  <2>1. CASE ri < rj
    <3>1. (ri + 1) * ChunkSize <= rj * ChunkSize
      BY <2>1, <1>1, SizeFacts
    <3> QED BY <3>1, <1>1, <1>2, SizeFacts
  <2>2. CASE rj < ri
    <3>1. (rj + 1) * ChunkSize <= ri * ChunkSize
      BY <2>2, <1>1, SizeFacts
    <3> QED BY <3>1, <1>1, <1>2, SizeFacts
  <2> QED BY <2>1, <2>2, <1>1, SizeFacts
<1>4. qi = qj
  BY <1>1, <1>2, <1>3, SizeFacts
<1> QED BY <1>1, <1>3, <1>4

(* Data that stays clear of the last TagLen rows is not touched by the tag *)
(* in the last TagLen bytes of the buffer.                                 *)
LEMMA DataClearOfTag ==
    ASSUME NEW i \in Nat, i < AssemblySize - TagLen * NChunks
    PROVE  Idx2Apos(i) \in 0..(AssemblySize - TagLen)-1
<1>1. i \in 0..AssemblySize-1
  BY SizeFacts
<1> DEFINE r == i % NChunks
           q == i \div NChunks
<1>2. r \in 0..NChunks-1 /\ q \in 0..ChunkSize-1 /\ i = NChunks * q + r
  BY <1>1, RowAndChunk
<1>3. Idx2Apos(i) = r * ChunkSize + q
  BY DEF Idx2Apos
<1> HIDE DEF r, q
<1>4. q < ChunkSize - TagLen
  <2>1. NChunks * q < NChunks * (ChunkSize - TagLen)
    BY <1>2, SizeFacts DEF AssemblySize
  <2> QED BY <2>1, <1>2, SizeFacts
<1>5. r * ChunkSize <= (NChunks - 1) * ChunkSize /\ r * ChunkSize \in Nat
  BY <1>2, SizeFacts
<1>6. (NChunks - 1) * ChunkSize = AssemblySize - ChunkSize
  BY SizeFacts DEF AssemblySize
<1> QED BY <1>2, <1>3, <1>4, <1>5, <1>6, SizeFacts

-----------------------------------------------------------------------------
(* Reading and writing blocks                                              *)

(* A position that is stored: inside the assembly and clear of the tag.    *)
Clear(ap, len) == ap + len + TagLen * NChunks <= AssemblySize

(* Storing content yields a buffer of bytes in which it can be read back.  *)
LEMMA ScatterStores ==
    ASSUME NEW b \in [0..AssemblySize-1 -> Byte],
           NEW ap \in Nat, NEW content \in Seq(Byte),
           ap + Len(content) <= AssemblySize
    PROVE  /\ Scatter(b, ap, content) \in [0..AssemblySize-1 -> Byte]
           /\ Gather(Scatter(b, ap, content), ap, Len(content)) = content
<1> DEFINE writes(p) == {i \in 1..Len(content) : Idx2Apos(ap + i - 1) = p}
           last(S)   == CHOOSE i \in S : \A j \in S : j <= i
           sc        == Scatter(b, ap, content)
<1>1. ASSUME NEW i \in 1..Len(content)
      PROVE  /\ ap + i - 1 \in 0..AssemblySize-1
             /\ Idx2Apos(ap + i - 1) \in 0..AssemblySize-1
             /\ writes(Idx2Apos(ap + i - 1)) = {i}
  <2>1. ASSUME NEW j \in 1..Len(content) PROVE ap + j - 1 \in 0..AssemblySize-1
    BY SizeFacts
  <2>2. ASSUME NEW j \in 1..Len(content), Idx2Apos(ap + j - 1) = Idx2Apos(ap + i - 1)
        PROVE  j = i
    <3>1. ap + j - 1 = ap + i - 1
      BY <2>1, <2>2, Idx2AposInjective
    <3> QED BY <3>1
  <2> QED BY <2>1, <2>2, Idx2AposInBuffer
<1>2. ASSUME NEW i \in 1..Len(content) PROVE last({i}) = i
  OBVIOUS
<1>3. ASSUME NEW p \in 0..AssemblySize-1
      PROVE  sc[p] \in Byte
  <2>1. CASE writes(p) = {}
    BY <2>1 DEF Scatter
  <2>2. CASE writes(p) # {}
    <3>1. PICK i \in 1..Len(content) : Idx2Apos(ap + i - 1) = p
      BY <2>2
    <3>2. writes(p) = {i}
      BY <3>1, <1>1
    <3>3. sc[p] = content[last({i})]
      BY <3>2 DEF Scatter
    <3> QED BY <3>3, <1>2
  <2> QED BY <2>1, <2>2
<1>4. sc \in [0..AssemblySize-1 -> Byte]
  BY <1>3 DEF Scatter
<1>5. ASSUME NEW i \in 1..Len(content)
      PROVE  sc[Idx2Apos(ap + i - 1)] = content[i]
  <2> DEFINE p == Idx2Apos(ap + i - 1)
  <2>1. p \in 0..AssemblySize-1 /\ writes(p) = {i}
    BY <1>1
  <2>2. sc[p] = content[last({i})]
    BY <2>1 DEF Scatter
  <2> QED BY <2>2, <1>2
<1>6. Gather(sc, ap, Len(content)) = [i \in 1..Len(content) |-> content[i]]
  BY <1>5 DEF Gather
<1> QED BY <1>4, <1>6

(* Storing content leaves what lies before it as it was.                   *)
LEMMA ScatterKeeps ==
    ASSUME NEW b, NEW ap \in Nat, NEW content \in Seq(Byte),
           ap + Len(content) <= AssemblySize,
           NEW ap0 \in Nat, NEW len0 \in Nat, ap0 + len0 <= ap
    PROVE  Gather(Scatter(b, ap, content), ap0, len0) = Gather(b, ap0, len0)
<1>1. ASSUME NEW i \in 1..len0
      PROVE  Scatter(b, ap, content)[Idx2Apos(ap0 + i - 1)] = b[Idx2Apos(ap0 + i - 1)]
  <2> DEFINE p == Idx2Apos(ap0 + i - 1)
  <2>1. ap0 + i - 1 \in 0..AssemblySize-1
    BY SizeFacts
  <2>2. p \in 0..AssemblySize-1
    BY <2>1, Idx2AposInBuffer
  <2>3. {j \in 1..Len(content) : Idx2Apos(ap + j - 1) = p} = {}
    <3>1. SUFFICES ASSUME NEW j \in 1..Len(content), Idx2Apos(ap + j - 1) = p
                   PROVE  FALSE
      OBVIOUS
    <3>2. ap + j - 1 \in 0..AssemblySize-1
      BY SizeFacts
    <3>3. ap + j - 1 = ap0 + i - 1
      BY <3>1, <3>2, <2>1, Idx2AposInjective
    <3> QED BY <3>3
  <2> QED BY <2>2, <2>3 DEF Scatter
<1> QED BY <1>1 DEF Gather

(* The tag that encryption puts over the end of the buffer does not touch  *)
(* what is stored clear of it.                                             *)
LEMMA CipherKeeps ==
    ASSUME NEW b, NEW k, NEW ap \in Nat, NEW len \in Nat, Clear(ap, len)
    PROVE  Gather(DecryptBuffer(EncryptBuffer(b, AssemblySize, k, Aid), AssemblySize), ap, len)
             = Gather(b, ap, len)
<1> DEFINE e == EncryptBuffer(b, AssemblySize, k, Aid)
           d == DecryptBuffer(e, AssemblySize)
<1>1. ASSUME NEW p \in 0..(AssemblySize - TagLen)-1
      PROVE  d[p] = b[p]
  <2>1. p \in 0..AssemblySize-1 /\ p < AssemblySize - TagLen
    BY SizeFacts
  <2>2. e[p] = <<"c", k, b[p]>>
    BY <2>1, SizeFacts DEF EncryptBuffer
  <2>3. d[p] = e[p][3]
    BY <2>1 DEF DecryptBuffer
  <2> QED BY <2>2, <2>3
<1>2. ASSUME NEW i \in 1..len
      PROVE  Idx2Apos(ap + i - 1) \in 0..(AssemblySize - TagLen)-1
  <2>1. ap + i - 1 \in Nat /\ ap + i - 1 < AssemblySize - TagLen * NChunks
    BY SizeFacts DEF Clear
  <2> QED BY <2>1, DataClearOfTag
<1> QED BY <1>1, <1>2 DEF Gather

-----------------------------------------------------------------------------
(* The inductive invariant                                                 *)

BlockInfo == [blocksize : Nat \ {0}, bchecksum : Seq(Byte), blockapos : Nat]

(* Every block is described by what was handed in, lies behind the header  *)
(* and before apos, and is clear of the tag.                               *)
BlocksInv ==
    /\ apos \in Nat /\ HeaderLen <= apos
    /\ apos = HeaderLen \/ apos + TagLen * NChunks <= AssemblySize
    /\ contents = <<>> => apos = HeaderLen
    /\ blocks \in Seq(BlockInfo)
    /\ contents \in Seq(Seq(Byte))
    /\ Len(blocks) = Len(contents)
    /\ \A j \in 1..Len(blocks) :
          /\ blocks[j].blocksize = Len(contents[j])
          /\ blocks[j].bchecksum = contents[j]
          /\ blocks[j].blockapos + blocks[j].blocksize <= apos
          /\ Clear(blocks[j].blockapos, blocks[j].blocksize)

(* b is a plain text that holds all blocks.                                *)
PlainText(b) ==
    /\ b \in [0..AssemblySize-1 -> Byte]
    /\ \A j \in 1..Len(blocks) :
          Gather(b, blocks[j].blockapos, blocks[j].blocksize) = contents[j]

Encrypted(plain) == EncryptBuffer(plain, AssemblySize, enckey, Aid)

(* f is a file with a part of chunk c of e, in which bytes have changed.   *)
FileOf(f, e, c) ==
    /\ f.len \in 0..ChunkSize
    /\ f = [len |-> f.len, at |-> f.at]
    /\ f.at = [o \in 0..f.len-1 |-> f.at[o]]
    /\ \A o \in 0..f.len-1 : f.at[o] \in {e[ChunkSize * (c - 1) + o], Garbage}

(* r is e, in which bytes have changed.                                    *)
BufferOf(r, e) ==
    /\ r = [p \in 0..AssemblySize-1 |-> r[p]]
    /\ \A p \in 0..AssemblySize-1 : r[p] \in {e[p], Garbage}

(* Everything on disk and in the readers comes from the encryption of one  *)
(* plain text that holds all blocks.                                       *)
StoredFrom(plain) ==
    /\ PlainText(plain)
    /\ \A c \in Cids : chunk[c] = None \/ FileOf(chunk[c], Encrypted(plain), c)
    /\ recalled = None \/ BufferOf(recalled, Encrypted(plain))
    /\ readable = None \/ readable = DecryptBuffer(Encrypted(plain), AssemblySize)

TextInv ==
    /\ phase \in {"writable", "full"} => PlainText(buffer)
    /\ phase = "encrypted" => \E plain : PlainText(plain) /\ buffer = Encrypted(plain)
    /\ phase = "extracted" => \E plain : StoredFrom(plain)
    /\ phase # "extracted" => /\ recalled = None /\ readable = None
                              /\ \A c \in Cids : chunk[c] = None

OtherTypes ==
    /\ phase \in {"writable", "full", "encrypted", "extracted", "discarded"}
    /\ enckey \in Key \cup {None}
    /\ nwritten \in 0..AssemblySize
    /\ chunk = [c \in Cids |-> chunk[c]]
    /\ damage \in 0..MaxDamage

IInv == BlocksInv /\ TextInv /\ OtherTypes

-----------------------------------------------------------------------------
LEMMA InitInv == Init => IInv
<1> SUFFICES ASSUME Init PROVE IInv
  OBVIOUS
<1>1. PICK h \in [0..HeaderLen-1 -> Byte] :
        buffer = [p \in 0..AssemblySize-1 |-> IF p < HeaderLen THEN h[p] ELSE Zero]
  BY DEF Init
<1>2. buffer \in [0..AssemblySize-1 -> Byte]
  BY <1>1, SizeFacts, ValueAssumption
<1>3. BlocksInv
  BY SizeFacts DEF Init, BlocksInv
<1>4. TextInv
  BY <1>2 DEF Init, TextInv, PlainText
<1>5. OtherTypes
  BY SizeFacts, ValueAssumption DEF Init, OtherTypes
<1> QED BY <1>3, <1>4, <1>5 DEF IInv

LEMMA BackupInv ==
    ASSUME IInv, NEW content \in Seq(Byte), Backup(content)
    PROVE  IInv'
<1> DEFINE len == Len(content)
           bi  == [blocksize |-> len, bchecksum |-> content, blockapos |-> apos]
<1> USE DEF Backup
<1>1. /\ len \in Nat \ {0} /\ apos \in Nat
      /\ apos + len + TagLen * NChunks <= AssemblySize
  <2>1. len <= AssemblySize - apos - TagLen * NChunks
    BY SizeFacts DEF IInv, BlocksInv, AFree
  <2> QED BY <2>1, SizeFacts DEF IInv, BlocksInv
<1>2. bi \in BlockInfo
  BY <1>1 DEF BlockInfo
<1>3. BlocksInv'
  <2>1. blocks' \in Seq(BlockInfo) /\ contents' \in Seq(Seq(Byte))
    BY <1>2 DEF IInv, BlocksInv
  <2>2. Len(blocks') = Len(blocks) + 1 /\ Len(contents') = Len(contents) + 1
    BY DEF IInv, BlocksInv
  <2>3. ASSUME NEW j \in 1..Len(blocks')
        PROVE  /\ blocks'[j].blocksize = Len(contents'[j])
               /\ blocks'[j].bchecksum = contents'[j]
               /\ blocks'[j].blockapos + blocks'[j].blocksize <= apos'
               /\ Clear(blocks'[j].blockapos, blocks'[j].blocksize)
    <3>1. CASE j \in 1..Len(blocks)
      <4>1. blocks'[j] = blocks[j] /\ contents'[j] = contents[j] /\ blocks[j] \in BlockInfo
        BY <3>1 DEF IInv, BlocksInv
      <4>2. /\ blocks[j].blocksize = Len(contents[j]) /\ blocks[j].bchecksum = contents[j]
            /\ Clear(blocks[j].blockapos, blocks[j].blocksize)
            /\ blocks[j].blockapos + blocks[j].blocksize <= apos
        BY <3>1 DEF IInv, BlocksInv
      <4>3. blocks[j].blockapos \in Nat /\ blocks[j].blocksize \in Nat
        BY <4>1 DEF BlockInfo
      <4>4. apos' = apos + len
        OBVIOUS
      <4>5. blocks[j].blockapos + blocks[j].blocksize <= apos'
        <5> HIDE DEF len
        <5> QED BY <4>2, <4>3, <4>4, <1>1
      <4> QED BY <4>1, <4>2, <4>5
    <3>2. CASE j = Len(blocks) + 1
      <4>1. blocks'[j] = bi /\ contents'[j] = content
        BY <3>2 DEF IInv, BlocksInv
      <4> QED BY <4>1, <1>1 DEF Clear
    <3>3. j \in 1..Len(blocks) \/ j = Len(blocks) + 1
      <4>1. Len(blocks) \in Nat
        BY DEF IInv, BlocksInv
      <4> QED BY <4>1, <2>2
    <3> QED BY <3>1, <3>2, <3>3
  <2>4. contents' # <<>> /\ Len(blocks') = Len(contents')
    <3>1. Len(contents) \in Nat /\ Len(blocks) = Len(contents)
      BY DEF IInv, BlocksInv
    <3> QED BY <2>2, <3>1
  <2>5. apos' \in Nat /\ HeaderLen <= apos' /\ apos' + TagLen * NChunks <= AssemblySize
    <3>1. HeaderLen <= apos /\ HeaderLen \in Nat /\ apos' = apos + len
      BY SizeFacts DEF IInv, BlocksInv
    <3> HIDE DEF len
    <3> QED BY <3>1, <1>1, SizeFacts
  <2> QED BY <2>1, <2>3, <2>4, <2>5 DEF BlocksInv
<1>4. TextInv'
  <2>1. apos + len <= AssemblySize /\ buffer \in [0..AssemblySize-1 -> Byte]
    BY DEF IInv, TextInv, PlainText
  <2>2. /\ buffer' \in [0..AssemblySize-1 -> Byte]
        /\ Gather(buffer', apos, len) = content
    BY <2>1, <1>1, ScatterStores
  <2>3. ASSUME NEW j \in 1..Len(blocks')
        PROVE  Gather(buffer', blocks'[j].blockapos, blocks'[j].blocksize) = contents'[j]
    <3>1. CASE j \in 1..Len(blocks)
      <4>1. blocks'[j] = blocks[j] /\ contents'[j] = contents[j] /\ blocks[j] \in BlockInfo
        BY <3>1 DEF IInv, BlocksInv
      <4>2. blocks[j].blockapos + blocks[j].blocksize <= apos
        BY <3>1 DEF IInv, BlocksInv
      <4>3. Gather(buffer', blocks[j].blockapos, blocks[j].blocksize)
              = Gather(buffer, blocks[j].blockapos, blocks[j].blocksize)
        BY <4>1, <4>2, <1>1, <2>1, ScatterKeeps DEF BlockInfo
      <4> QED BY <4>1, <4>3, <3>1 DEF IInv, TextInv, PlainText
    <3>2. CASE j = Len(blocks) + 1
      <4>1. blocks'[j] = bi /\ contents'[j] = content
        BY <3>2 DEF IInv, BlocksInv
      <4> QED BY <4>1, <2>2
    <3> QED BY <3>1, <3>2 DEF IInv, BlocksInv
  <2>4. PlainText(buffer)'
    BY <2>2, <2>3 DEF PlainText
  <2> QED BY <2>4 DEF IInv, TextInv, readVars
<1>5. OtherTypes'
  BY DEF IInv, OtherTypes
<1> QED BY <1>3, <1>4, <1>5 DEF IInv

(* finish, encrypt and extract keep the text; only its form changes.       *)
LEMMA FinishInv == IInv /\ Finish => IInv'
BY DEF IInv, BlocksInv, TextInv, OtherTypes, PlainText, Finish, readVars, Clear

LEMMA EncryptInv ==
    ASSUME IInv, NEW k \in Key, Encrypt(k)
    PROVE  IInv'
<1> USE DEF Encrypt, readVars
<1>1. BlocksInv'
  BY DEF IInv, BlocksInv, Clear
<1>2. OtherTypes'
  BY DEF IInv, OtherTypes
<1>3. PlainText(buffer) /\ recalled = None /\ readable = None /\ \A c \in Cids : chunk[c] = None
  BY DEF IInv, TextInv
<1>4. TextInv'
  <2>1. CASE phase' = "encrypted" /\ enckey' = k
                /\ buffer' = EncryptBuffer(buffer, AssemblySize, k, Aid)
    <3>1. \E plain : /\ plain \in [0..AssemblySize-1 -> Byte]
                     /\ \A j \in 1..Len(blocks') :
                          Gather(plain, blocks'[j].blockapos, blocks'[j].blocksize) = contents'[j]
                     /\ buffer' = EncryptBuffer(plain, AssemblySize, enckey', Aid)
      BY <1>3, <2>1 DEF PlainText
    <3> QED BY <1>3, <2>1, <3>1 DEF TextInv, PlainText, Encrypted
  <2>2. CASE phase' = "discarded"
    BY <1>3, <2>2 DEF TextInv
  <2> QED BY <2>1, <2>2
<1> QED BY <1>1, <1>2, <1>4 DEF IInv

(* The place of byte o of chunk c in the buffer.                           *)
LEMMA ChunkPlace ==
    ASSUME NEW c \in Cids, NEW o \in 0..ChunkSize-1
    PROVE  /\ ChunkSize * (c - 1) + o \in 0..AssemblySize-1
           /\ (ChunkSize * (c - 1) + o) \div ChunkSize = c - 1
           /\ (ChunkSize * (c - 1) + o) % ChunkSize = o
<1>1. ChunkSize * (c - 1) \in Nat
  BY SizeFacts DEF Cids
<1>2. ChunkSize * (c - 1) <= ChunkSize * (NChunks - 1)
  BY SizeFacts DEF Cids
<1>3. ChunkSize * (NChunks - 1) = AssemblySize - ChunkSize
  BY SizeFacts DEF AssemblySize
<1> DEFINE x == ChunkSize * (c - 1) + o
<1>4. x \in 0..AssemblySize-1
  BY <1>1, <1>2, <1>3, SizeFacts
<1>5. x \div ChunkSize \in Nat /\ x % ChunkSize \in 0..ChunkSize-1
        /\ x = ChunkSize * (x \div ChunkSize) + (x % ChunkSize)
  <2> HIDE DEF x
  <2> QED BY <1>4, SizeFacts
<1>6. x \div ChunkSize = c - 1 /\ x % ChunkSize = o
  <2> DEFINE q == x \div ChunkSize
             r == x % ChunkSize
  <2>1. q \in Nat /\ r \in 0..ChunkSize-1 /\ c - 1 \in Nat
          /\ ChunkSize * (c - 1) + o = ChunkSize * q + r
    BY <1>5 DEF Cids
  <2> HIDE DEF q, r
  <2>2. q = c - 1
    <3>1. CASE q < c - 1
      <4>1. ChunkSize * (q + 1) <= ChunkSize * (c - 1)
        BY <2>1, <3>1, SizeFacts
      <4> QED BY <4>1, <2>1, SizeFacts
    <3>2. CASE q > c - 1
      <4>1. ChunkSize * ((c - 1) + 1) <= ChunkSize * q
        BY <2>1, <3>2, SizeFacts
      <4> QED BY <4>1, <2>1, SizeFacts
    <3> QED BY <3>1, <3>2, <2>1, SizeFacts
  <2>3. r = o
    BY <2>1, <2>2, SizeFacts
  <2> QED BY <2>2, <2>3 DEF q, r
<1> QED BY <1>4, <1>6

(* Where a buffer position lies.                                           *)
LEMMA PlaceInChunk ==
    ASSUME NEW p \in 0..AssemblySize-1
    PROVE  /\ p \div ChunkSize + 1 \in Cids
           /\ p % ChunkSize \in 0..ChunkSize-1
           /\ p = ChunkSize * ((p \div ChunkSize + 1) - 1) + (p % ChunkSize)
<1>1. /\ p \div ChunkSize \in Nat
      /\ p % ChunkSize \in 0..ChunkSize-1
      /\ p = ChunkSize * (p \div ChunkSize) + (p % ChunkSize)
  BY SizeFacts
<1>2. ChunkSize * (p \div ChunkSize) < ChunkSize * NChunks
  BY <1>1, SizeFacts DEF AssemblySize
<1>3. p \div ChunkSize < NChunks
  BY <1>1, <1>2, SizeFacts
<1> QED BY <1>1, <1>3, SizeFacts DEF Cids

(* The size that extract reports never exceeds the size of the assembly.   *)
LEMMA ReportedSize ==
    ASSUME NEW S \in SUBSET Cids
    PROVE  ChunkSize * Cardinality(S) \in 0..AssemblySize
<1>1. IsFiniteSet(Cids) /\ Cardinality(Cids) = NChunks
  BY FS_Interval, SizeFacts DEF Cids
<1>2. Cardinality(S) \in Nat /\ Cardinality(S) <= NChunks
  BY <1>1, FS_Subset, FS_CardinalityType
<1>3. ChunkSize * Cardinality(S) <= ChunkSize * NChunks
  BY <1>2, SizeFacts
<1>4. ChunkSize * Cardinality(S) \in Nat
  BY <1>2, SizeFacts
<1> QED BY <1>3, <1>4 DEF AssemblySize

LEMMA ExtractInv ==
    ASSUME IInv, NEW opened \in SUBSET Cids, NEW put \in [opened -> 0..ChunkSize],
           Extract(opened, put)
    PROVE  IInv'
<1> USE DEF Extract, readVars
<1>1. BlocksInv'
  BY DEF IInv, BlocksInv, Clear
<1>2. OtherTypes'
  <2>1. nwritten' \in 0..AssemblySize
    BY ReportedSize
  <2> QED BY <2>1 DEF IInv, OtherTypes
<1>3. PICK plain : PlainText(plain) /\ buffer = Encrypted(plain)
  BY DEF IInv, TextInv
<1>4. recalled = None /\ readable = None
  BY DEF IInv, TextInv
<1>5. PlainText(plain)' /\ Encrypted(plain)' = Encrypted(plain)
  BY <1>3 DEF PlainText, Encrypted
<1>6. ASSUME NEW c \in Cids
      PROVE  chunk'[c] = None \/ FileOf(chunk'[c], Encrypted(plain), c)
  <2>1. CASE c \in opened
    <3>1. put[c] \in 0..ChunkSize
      BY <2>1
    <3>2. chunk'[c] = ChunkFile(buffer, c, put[c])
      BY <2>1
    <3>3. FileOf(ChunkFile(buffer, c, put[c]), buffer, c)
      BY <3>1, SizeFacts DEF FileOf, ChunkFile, Slice
    <3> QED BY <3>2, <3>3, <1>3
  <2>2. CASE c \notin opened
    <3>1. chunk'[c] = chunk[c]
      BY <2>2
    <3> QED BY <3>1 DEF IInv, TextInv
  <2> QED BY <2>1, <2>2
<1>7. StoredFrom(plain)'
  BY <1>4, <1>5, <1>6 DEF StoredFrom
<1>8. TextInv'
  BY <1>7 DEF TextInv
<1> QED BY <1>1, <1>2, <1>8 DEF IInv

(* A fault leaves a file with fewer bytes, changed bytes, or no file.      *)
LEMMA DamageInv ==
    ASSUME IInv, NEW c \in Cids, Damage(c)
    PROVE  IInv'
<1> USE DEF Damage, writeVars, readVars
<1>1. BlocksInv'
  BY DEF IInv, BlocksInv, Clear
<1>2. OtherTypes'
  <2>1. chunk' = [d \in Cids |-> chunk'[d]]
    BY DEF IInv, OtherTypes, FileLost, FileTruncated, ByteChanged
  <2> QED BY <2>1, ValueAssumption DEF IInv, OtherTypes
<1>3. PICK plain : StoredFrom(plain)
  BY DEF IInv, TextInv
<1>4. PlainText(plain)' /\ Encrypted(plain)' = Encrypted(plain)
  BY <1>3 DEF StoredFrom, PlainText, Encrypted
<1>5. ASSUME NEW d \in Cids
      PROVE  chunk'[d] = None \/ FileOf(chunk'[d], Encrypted(plain), d)
  <2>1. CASE d # c
    <3>1. chunk'[d] = chunk[d]
      BY <2>1 DEF IInv, OtherTypes, FileLost, FileTruncated, ByteChanged
    <3> QED BY <3>1, <1>3 DEF StoredFrom
  <2>2. CASE d = c
    <3> DEFINE f == chunk[c]
    <3>1. FileOf(f, Encrypted(plain), c)
      BY <1>3 DEF StoredFrom
    <3> HIDE DEF f
    <3>2. CASE FileLost(c)
      BY <3>2, <2>2 DEF FileLost, IInv, OtherTypes
    <3>3. CASE FileTruncated(c)
      <4>1. PICK len \in 0..f.len-1 :
              chunk'[c] = [len |-> len, at |-> Slice(f.at, 0, len)]
        BY <3>3 DEF FileTruncated, IInv, OtherTypes, f
      <4>2. FileOf([len |-> len, at |-> Slice(f.at, 0, len)], Encrypted(plain), c)
        BY <3>1, SizeFacts DEF FileOf, Slice
      <4> QED BY <4>1, <4>2, <2>2
    <3>4. CASE ByteChanged(c)
      <4>1. PICK o \in 0..f.len-1 : chunk' = [chunk EXCEPT ![c].at[o] = Garbage]
        BY <3>4 DEF ByteChanged, f
      <4>2. chunk'[c] = [f EXCEPT !.at = [f.at EXCEPT ![o] = Garbage]]
        BY <4>1 DEF IInv, OtherTypes, f
      <4>3. chunk'[c] = [len |-> f.len, at |-> [f.at EXCEPT ![o] = Garbage]]
        BY <4>2, <3>1 DEF FileOf
      <4>4. FileOf([len |-> f.len, at |-> [f.at EXCEPT ![o] = Garbage]], Encrypted(plain), c)
        BY <3>1 DEF FileOf
      <4> QED BY <4>3, <4>4, <2>2
    <3> QED BY <3>2, <3>3, <3>4
  <2> QED BY <2>1, <2>2
<1>6. StoredFrom(plain)'
  BY <1>3, <1>4, <1>5 DEF StoredFrom
<1>7. TextInv'
  BY <1>6 DEF TextInv
<1> QED BY <1>1, <1>2, <1>7 DEF IInv

LEMMA RecallInv ==
    ASSUME IInv, Recall
    PROVE  IInv'
<1> USE DEF Recall, writeVars
<1>1. BlocksInv'
  BY DEF IInv, BlocksInv, Clear
<1>2. OtherTypes'
  BY DEF IInv, OtherTypes
<1>3. PICK plain : StoredFrom(plain)
  BY DEF IInv, TextInv
<1>4. PlainText(plain)' /\ Encrypted(plain)' = Encrypted(plain)
  BY <1>3 DEF StoredFrom, PlainText, Encrypted
<1>5. recalled' = None \/ BufferOf(recalled', Encrypted(plain))
  <2>1. SUFFICES ASSUME \A c \in Cids : ChunkReadable(c)
                 PROVE  BufferOf(recalled', Encrypted(plain))
    OBVIOUS
  <2> DEFINE r == [p \in 0..AssemblySize-1 |->
                     chunk[(p \div ChunkSize) + 1].at[p % ChunkSize]]
  <2>2. ASSUME NEW p \in 0..AssemblySize-1
        PROVE  r[p] \in {Encrypted(plain)[p], Garbage}
    <3> DEFINE c == (p \div ChunkSize) + 1
               o == p % ChunkSize
    <3>1. c \in Cids /\ o \in 0..ChunkSize-1 /\ p = ChunkSize * (c - 1) + o
      BY PlaceInChunk
    <3>2. r[p] = chunk[c].at[o]
      OBVIOUS
    <3> HIDE DEF c, o
    <3>3. ChunkReadable(c) /\ FileOf(chunk[c], Encrypted(plain), c)
      BY <2>1, <3>1, <1>3 DEF StoredFrom, ChunkReadable
    <3>4. chunk[c].len \in 0..ChunkSize
      BY <3>3 DEF FileOf
    <3>5. chunk[c].len >= ChunkSize
      BY <3>3, <3>4, SizeFacts DEF ChunkReadable, FileinResult
    <3>6. o \in 0..chunk[c].len-1
      BY <3>1, <3>4, <3>5, SizeFacts
    <3>7. chunk[c].at[o] \in {Encrypted(plain)[ChunkSize * (c - 1) + o], Garbage}
      BY <3>6, <3>3 DEF FileOf
    <3> QED BY <3>7, <3>1, <3>2
  <2>3. recalled' = r
    BY <2>1
  <2> QED BY <2>2, <2>3 DEF BufferOf
<1>6. StoredFrom(plain)'
  BY <1>3, <1>4, <1>5 DEF StoredFrom
<1>7. TextInv'
  BY <1>6 DEF TextInv
<1> QED BY <1>1, <1>2, <1>7 DEF IInv

(* The bytes of an encrypted buffer.                                       *)
Ciphertext(b, k) == [p \in 0..(AssemblySize - TagLen)-1 |-> <<"c", k, b[p]>>]

LEMMA EncryptedBytes ==
    ASSUME NEW b, NEW k, NEW p \in 0..AssemblySize-1
    PROVE  EncryptBuffer(b, AssemblySize, k, Aid)[p]
             = IF p < AssemblySize - TagLen
               THEN Ciphertext(b, k)[p]
               ELSE <<"t", p - (AssemblySize - TagLen), Tag(k, Aid, Ciphertext(b, k))>>
BY DEF EncryptBuffer, Ciphertext

(* A buffer that passes the tag check has not been changed.                *)
LEMMA AuthenticIsUnchanged ==
    ASSUME NEW b, NEW k, NEW kd, NEW r,
           BufferOf(r, EncryptBuffer(b, AssemblySize, k, Aid)),
           Authentic(r, AssemblySize, kd, Aid)
    PROVE  r = EncryptBuffer(b, AssemblySize, k, Aid)
<1> DEFINE e    == EncryptBuffer(b, AssemblySize, k, Aid)
           dlen == AssemblySize - TagLen
           c    == Ciphertext(b, k)
           s    == Slice(r, 0, dlen)
<1>1. dlen \in 0..AssemblySize-1
  BY SizeFacts
<1>2. \A p \in 0..AssemblySize-1 :
         e[p] = IF p < dlen THEN c[p] ELSE <<"t", p - dlen, Tag(k, Aid, c)>>
  BY EncryptedBytes
<1>3. \A p \in dlen..AssemblySize-1 : r[p] = <<"t", p - dlen, Tag(kd, Aid, s)>>
  BY DEF Authentic
<1>4. \A p \in 0..AssemblySize-1 : r[p] \in {e[p], Garbage}
  BY DEF BufferOf
<1>5. e = [p \in 0..AssemblySize-1 |-> e[p]]
  <2>1. \A x : (\E f : x = [p \in 0..AssemblySize-1 |-> f[p]])
               => x = [p \in 0..AssemblySize-1 |-> x[p]]
    OBVIOUS
  <2>2. e = [p \in 0..AssemblySize-1 |-> IF p < dlen THEN c[p]
                ELSE <<"t", p - dlen, Tag(k, Aid, c)>>]
    BY DEF EncryptBuffer, Ciphertext
  <2> HIDE DEF e
  <2> QED BY <2>2
<1>6. r = [p \in 0..AssemblySize-1 |-> r[p]]
  BY DEF BufferOf
<1>7. \A p \in 0..dlen-1 : s[p] = r[p]
  BY DEF Slice
<1> HIDE DEF e, c, s, dlen
<1>8. \A p \in dlen..AssemblySize-1 : r[p] = e[p]
  <2>1. SUFFICES ASSUME NEW p \in dlen..AssemblySize-1 PROVE r[p] # Garbage
    BY <1>1, <1>4
  <2>2. r[p][1] = "t"
    BY <1>3
  <2> QED BY <2>2 DEF Garbage
<1>9. Tag(kd, Aid, s) = Tag(k, Aid, c)
  <2>1. dlen \in dlen..AssemblySize-1 /\ ~(dlen < dlen)
    BY <1>1
  <2>2. r[dlen] = <<"t", dlen - dlen, Tag(kd, Aid, s)>>
    BY <2>1, <1>3
  <2>3. r[dlen] = <<"t", dlen - dlen, Tag(k, Aid, c)>>
    BY <2>1, <1>1, <1>2, <1>8
  <2> QED BY <2>2, <2>3
<1>10. s = c
  BY <1>9 DEF Tag
<1>11. \A p \in 0..AssemblySize-1 : r[p] = e[p]
  <2>1. SUFFICES ASSUME NEW p \in 0..AssemblySize-1, p < dlen PROVE r[p] = e[p]
    BY <1>1, <1>8
  <2>2. p \in 0..dlen-1
    BY <2>1, <1>1
  <2> QED BY <2>1, <2>2, <1>2, <1>7, <1>10
<1>12. r = e
  BY <1>5, <1>6, <1>11
<1> QED BY <1>12 DEF e

LEMMA DecryptInv ==
    ASSUME IInv, NEW k \in Key, Decrypt(k)
    PROVE  IInv'
<1> USE DEF Decrypt, writeVars
<1>1. BlocksInv'
  BY DEF IInv, BlocksInv, Clear
<1>2. OtherTypes'
  BY DEF IInv, OtherTypes
<1>3. phase = "extracted"
  BY DEF IInv, TextInv
<1>4. PICK plain : StoredFrom(plain)
  BY <1>3 DEF IInv, TextInv
<1>5. PlainText(plain)' /\ Encrypted(plain)' = Encrypted(plain)
  BY <1>4 DEF StoredFrom, PlainText, Encrypted
<1>6. readable' = None \/ readable' = DecryptBuffer(Encrypted(plain), AssemblySize)
  <2>1. SUFFICES ASSUME Authentic(recalled, AssemblySize, k, Aid)
                 PROVE  readable' = DecryptBuffer(Encrypted(plain), AssemblySize)
    OBVIOUS
  <2>2. BufferOf(recalled, Encrypted(plain))
    BY <1>4 DEF StoredFrom
  <2>3. recalled = Encrypted(plain)
    BY <2>1, <2>2, AuthenticIsUnchanged DEF Encrypted
  <2> QED BY <2>1, <2>3
<1>7. StoredFrom(plain)'
  BY <1>4, <1>5, <1>6 DEF StoredFrom
<1>8. TextInv'
  BY <1>3, <1>7 DEF TextInv
<1> QED BY <1>1, <1>2, <1>8 DEF IInv

LEMMA StutterInv == IInv /\ UNCHANGED vars => IInv'
<1> SUFFICES ASSUME IInv, UNCHANGED vars PROVE IInv'
  OBVIOUS
<1> USE DEF IInv, vars, writeVars, readVars
<1>1. BlocksInv'
  BY DEF BlocksInv, Clear
<1>2. TextInv'
  BY DEF TextInv, PlainText, StoredFrom, Encrypted
<1>3. OtherTypes'
  BY DEF OtherTypes
<1> QED BY <1>1, <1>2, <1>3

(* What Next draws its contents from are byte sequences.                   *)
LEMMA ContentsAreSequences == ASSUME NEW content \in Contents(apos)
                              PROVE  content \in Seq(Byte)
BY DEF Contents

LEMMA NextInv == IInv /\ [Next]_vars => IInv'
<1> SUFFICES ASSUME IInv, [Next]_vars PROVE IInv'
  OBVIOUS
<1>1. ASSUME NEW content \in Contents(apos), Backup(content) PROVE IInv'
  BY <1>1, BackupInv, ContentsAreSequences
<1>2. CASE Finish
  BY <1>2, FinishInv
<1>3. ASSUME NEW k \in Key, Encrypt(k) PROVE IInv'
  BY <1>3, EncryptInv
<1>4. ASSUME NEW opened \in SUBSET Cids, NEW put \in [opened -> 0..ChunkSize],
             Extract(opened, put)
      PROVE  IInv'
  BY <1>4, ExtractInv
<1>5. ASSUME NEW c \in Cids, Damage(c) PROVE IInv'
  BY <1>5, DamageInv
<1>6. CASE Recall
  BY <1>6, RecallInv
<1>7. ASSUME NEW k \in Key, Decrypt(k) PROVE IInv'
  BY <1>7, DecryptInv
<1>8. CASE UNCHANGED vars
  BY <1>8, StutterInv
<1> QED BY <1>1, <1>2, <1>3, <1>4, <1>5, <1>6, <1>7, <1>8 DEF Next

(* The inductive invariant holds of every behaviour.                       *)
THEOREM Invariance == Spec => []IInv
<1> QED BY InitInv, NextInv, PTL DEF Spec

-----------------------------------------------------------------------------
(* What follows from the invariant                                         *)

LEMMA TypesFromInv == IInv => TypeOK
<1> SUFFICES ASSUME IInv PROVE TypeOK
  OBVIOUS
<1>1. apos \in HeaderLen..AssemblySize
  BY SizeFacts DEF IInv, BlocksInv
<1>2. phase \in {"writable", "full"} => buffer \in [0..AssemblySize-1 -> Byte]
  BY DEF IInv, TextInv, PlainText
<1>3. phase = "encrypted" => IsBuffer(buffer)
  BY DEF IInv, TextInv, Encrypted, EncryptBuffer, IsBuffer
<1>4. DOMAIN chunk = Cids
  BY DEF IInv, OtherTypes
<1>5. recalled = None \/ IsBuffer(recalled)
  BY DEF IInv, TextInv, StoredFrom, BufferOf, IsBuffer
<1>6. readable = None \/ IsBuffer(readable)
  BY DEF IInv, TextInv, StoredFrom, DecryptBuffer, IsBuffer
<1> QED BY <1>1, <1>2, <1>3, <1>4, <1>5, <1>6 DEF IInv, BlocksInv, OtherTypes, TypeOK

LEMMA RoundTripFromInv == IInv => RoundTrip
<1> SUFFICES ASSUME IInv, readable # None, NEW j \in 1..Len(blocks)
             PROVE  Restore(readable, blocks[j]) = contents[j]
  BY DEF RoundTrip
<1>1. PICK plain : StoredFrom(plain)
  BY DEF IInv, TextInv
<1>2. readable = DecryptBuffer(Encrypted(plain), AssemblySize)
  BY <1>1 DEF StoredFrom
<1> DEFINE bi == blocks[j]
<1>3. /\ bi.blocksize \in Nat \ {0} /\ bi.blockapos \in Nat
      /\ bi.bchecksum = contents[j]
      /\ Clear(bi.blockapos, bi.blocksize)
  <2>1. bi \in BlockInfo
    BY DEF IInv, BlocksInv
  <2> QED BY <2>1 DEF IInv, BlocksInv, BlockInfo
<1>4. bi.blockapos + bi.blocksize <= AssemblySize
  BY <1>3, SizeFacts DEF Clear
<1>5. Gather(readable, bi.blockapos, bi.blocksize) = Gather(plain, bi.blockapos, bi.blocksize)
  BY <1>2, <1>3, CipherKeeps DEF Encrypted
<1>6. Gather(plain, bi.blockapos, bi.blocksize) = contents[j]
  BY <1>1 DEF StoredFrom, PlainText
<1> HIDE DEF bi
<1>7. Restore(readable, bi) = contents[j]
  BY <1>3, <1>4, <1>5, <1>6, SizeFacts DEF Restore
<1> QED BY <1>7 DEF bi

LEMMA IntactFromInv == IInv => IntactIsReadable
<1> SUFFICES ASSUME IInv, recalled # None,
                    \A p \in 0..AssemblySize-1 : recalled[p] # Garbage
             PROVE  Authentic(recalled, AssemblySize, enckey, Aid)
  BY DEF IntactIsReadable
<1>1. PICK plain : StoredFrom(plain)
  BY DEF IInv, TextInv
<1> DEFINE dlen == AssemblySize - TagLen
           c    == Ciphertext(plain, enckey)
<1>2. ASSUME NEW p \in 0..AssemblySize-1
      PROVE  recalled[p] = IF p < dlen THEN c[p]
                           ELSE <<"t", p - dlen, Tag(enckey, Aid, c)>>
  <2>1. recalled[p] = Encrypted(plain)[p]
    BY <1>1 DEF StoredFrom, BufferOf
  <2> QED BY <2>1, EncryptedBytes DEF Encrypted
<1>3. dlen \in Nat /\ dlen <= AssemblySize /\ AssemblySize \in Nat
  BY SizeFacts
<1>4. c = [p \in 0..dlen-1 |-> <<"c", enckey, plain[p]>>]
  BY DEF Ciphertext
<1>5. \A p \in 0..dlen-1 : c[p] = <<"c", enckey, plain[p]>>
  BY <1>4
<1> HIDE DEF c, dlen
<1>6. Slice(recalled, 0, dlen) = c
  <2>1. ASSUME NEW p \in 0..dlen-1
        PROVE  p \in 0..AssemblySize-1 /\ p < dlen /\ 0 + p = p
    BY <1>3
  <2>2. ASSUME NEW p \in 0..dlen-1
        PROVE  recalled[0 + p] = <<"c", enckey, plain[p]>>
    BY <2>1, <1>2, <1>5
  <2> QED BY <2>2, <1>4 DEF Slice
<1>7. ASSUME NEW p \in dlen..AssemblySize-1
      PROVE  recalled[p] = <<"t", p - dlen, Tag(enckey, Aid, Slice(recalled, 0, dlen))>>
  <2>1. p \in 0..AssemblySize-1 /\ ~(p < dlen)
    BY <1>3
  <2> QED BY <2>1, <1>2, <1>6
<1> QED BY <1>7 DEF Authentic, dlen

(* The variables range over what TypeOK says.                              *)
THEOREM TypeCorrect == Spec => []TypeOK
<1> QED BY Invariance, TypesFromInv, PTL

(* Every block that backup acknowledged stays in the buffer unchanged      *)
(* until the assembly is encrypted, whatever is stored after it.           *)
THEOREM BlocksAreKept == Spec => []BlocksKept
<1>1. IInv => BlocksKept
  BY DEF IInv, TextInv, PlainText, BlocksKept
<1> QED BY <1>1, Invariance, PTL

(* Whatever happens to the chunk files, an assembly that could be recalled *)
(* and decrypted gives back every block as it was handed to backup.        *)
THEOREM RoundTripHolds == Spec => []RoundTrip
<1> QED BY Invariance, RoundTripFromInv, PTL

(* What was read back unchanged is accepted under the key it was encrypted *)
(* with: extract and recall agree on the place of every chunk.             *)
THEOREM IntactIsAccepted == Spec => []IntactIsReadable
<1> QED BY Invariance, IntactFromInv, PTL

-----------------------------------------------------------------------------
(* The assembly implements SealedStore                                     *)

seenBar == IF readable = None THEN None
           ELSE [j \in 1..Len(blocks) |-> Restore(readable, blocks[j])]

NothingOrAll == seenBar \in {None, contents}

LEMMA SeenIsKept == IInv /\ RoundTrip => NothingOrAll
<1> SUFFICES ASSUME IInv, RoundTrip, readable # None PROVE seenBar = contents
  BY DEF seenBar, NothingOrAll
<1>1. seenBar = [j \in 1..Len(contents) |-> contents[j]]
  BY DEF seenBar, RoundTrip, IInv, BlocksInv
<1> QED BY <1>1 DEF IInv, BlocksInv

LEMMA StepRefines == IInv /\ IInv' /\ NothingOrAll' /\ [Next]_vars => [Sealed!SNext]_(Sealed!svars)
<1> SUFFICES ASSUME IInv, IInv', NothingOrAll', [Next]_vars
             PROVE  Sealed!SNext \/ UNCHANGED Sealed!svars
  OBVIOUS
<1> USE DEF Sealed!svars, Sealed!SNext
<1>1. ASSUME NEW content \in Contents(apos), Backup(content) PROVE Sealed!Put
  <2>1. readable = None /\ readable' = None
    BY <1>1 DEF Backup, readVars, IInv, TextInv
  <2>2. contents \in Seq(Seq(Byte)) /\ contents' = Append(contents, content)
    BY <1>1 DEF Backup, IInv, BlocksInv
  <2>3. Len(contents') = Len(contents) + 1 /\ SubSeq(contents', 1, Len(contents)) = contents
    BY <2>2
  <2> QED BY <1>1, <2>1, <2>3 DEF Sealed!Put, Backup
<1>2. CASE Finish
  <2>1. readable = None /\ readable' = None /\ contents # <<>>
    BY <1>2, SizeFacts DEF Finish, readVars, IInv, TextInv, BlocksInv
  <2>2. Sealed!Seal
    BY <1>2, <2>1 DEF Sealed!Seal, Finish
  <2> QED BY <2>2
<1>3. ASSUME NEW k \in Key, Encrypt(k) PROVE UNCHANGED Sealed!svars
  <2>1. readable = None /\ readable' = None
    BY <1>3 DEF Encrypt, readVars, IInv, TextInv
  <2> QED BY <1>3, <2>1 DEF Encrypt
<1>4. ASSUME NEW opened \in SUBSET Cids, NEW put \in [opened -> 0..ChunkSize],
             Extract(opened, put)
      PROVE  UNCHANGED Sealed!svars
  <2>1. readable = None /\ readable' = None
    BY <1>4 DEF Extract, readVars, IInv, TextInv
  <2> QED BY <1>4, <2>1 DEF Extract
<1>5. ASSUME NEW c \in Cids, Damage(c) PROVE UNCHANGED Sealed!svars
  BY <1>5 DEF Damage, writeVars, readVars, Restore, Gather
<1>6. CASE Recall
  BY <1>6 DEF Recall, writeVars, Restore, Gather
<1>7. ASSUME NEW k \in Key, Decrypt(k) PROVE Sealed!Read
  <2>1. phase = "extracted" /\ UNCHANGED <<phase, contents>>
    BY <1>7 DEF Decrypt, writeVars, IInv, TextInv
  <2>2. seenBar' \in {None, contents}
    BY <2>1 DEF NothingOrAll
  <2> QED BY <2>1, <2>2 DEF Sealed!Read, seenBar
<1>8. CASE UNCHANGED vars
  BY <1>8 DEF vars, writeVars, readVars, Restore, Gather
<1> QED BY <1>1, <1>2, <1>3, <1>4, <1>5, <1>6, <1>7, <1>8 DEF Next

(* An assembly keeps the promise of SealedStore: nothing is put in after   *)
(* it is sealed, and a reader sees nothing or everything.                  *)
THEOREM ImplementsSealedStore == Spec => SealedSpec
<1>1. Init => Sealed!SInit
  BY DEF Init, Sealed!SInit
<1>2. IInv /\ IInv' /\ NothingOrAll' /\ [Next]_vars => [Sealed!SNext]_(Sealed!svars)
  BY StepRefines
<1>3. IInv => NothingOrAll
  BY RoundTripFromInv, SeenIsKept
<1> QED BY <1>1, <1>2, <1>3, Invariance, PTL DEF Spec, SealedSpec, Sealed!SSpec
=============================================================================
