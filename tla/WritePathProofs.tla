--------------------------- MODULE WritePathProofs ----------------------------
(***************************************************************************)
(* Theorems about WritePath, for every set of files and contents, every    *)
(* size of the assemblies and every depth of the queue.                    *)
(***************************************************************************)
EXTENDS WritePath, FiniteSetTheorems, SequenceTheorems, WellFoundedInduction, TLAPS

-----------------------------------------------------------------------------
(* Induction over the steps of a computation: the set of the steps at      *)
(* which a claim fails would have a least member.                          *)

(* A set of numbers that is not empty has a least one.                     *)
LEMMA LeastNumber ==
  ASSUME NEW T, T \subseteq Nat, T # {}
  PROVE \E n \in T : \A m \in T : n <= m
<1> DEFINE R == OpToRel(<, Nat)
<1>1. IsWellFoundedOn(R, Nat)
  BY NatLessThanWellFounded
<1>2. \A x, y \in Nat : x < y => <<x, y>> \in R
  BY DEF OpToRel
<1> HIDE DEF R
<1>3. PICK n \in T : \A m \in T : ~ (<<m, n>> \in R)
  BY <1>1, WFMin
<1>4. \A m \in T : ~ (m < n)
  BY <1>2, <1>3
<1>5. \A m \in T : n <= m
  BY <1>4
<1> QED BY <1>5

(* A set that holds 0 and, with each number, the next one up to n.         *)
LEMMA StepByStep ==
  ASSUME NEW n \in Nat, NEW T, 0 \in T,
         \A i \in 1..n : i - 1 \in T => i \in T
  PROVE  \A i \in 0..n : i \in T
<1>1. SUFFICES ASSUME NEW k \in 0..n, k \notin T PROVE FALSE
  OBVIOUS
<1> DEFINE U == {i \in 0..n : i \notin T}
<1>a. U \subseteq Nat /\ U # {}
  BY <1>1
<1> HIDE DEF U
<1>2. PICK m \in U : \A i \in U : m <= i
  BY <1>a, LeastNumber
<1> USE DEF U
<1>3. m \in 1..n /\ m - 1 \in 0..n
  BY <1>2
<1>4. m - 1 \in T
  BY <1>2, <1>3
<1> QED BY <1>2, <1>3, <1>4

(* f starts with x, and step i applies F[i].                               *)
Solves(f, n, x, F) == f[0] = x /\ \A i \in 1..n : f[i] = F[i][f[i - 1]]

(* What defines a recursive function over 0..n has a solution.             *)
LEMMA Recursion ==
  ASSUME NEW n \in Nat, NEW X, NEW x \in X, NEW F \in [1..n -> [X -> X]]
  PROVE  \E f \in [0..n -> X] : Solves(f, n, x, F)
<1> DEFINE P(k, f) == f[0] = x /\ \A i \in 1..k : f[i] = F[i][f[i - 1]]
           T == {k \in 0..n : \E f \in [0..k -> X] : P(k, f)}
<1>1. 0 \in T
  <2> DEFINE f0 == [i \in 0..0 |-> x]
  <2>1. f0 \in [0..0 -> X] /\ P(0, f0)
    OBVIOUS
  <2>2. 0 \in 0..n
    OBVIOUS
  <2> HIDE DEF f0, P
  <2> QED BY <2>1, <2>2
<1>2. ASSUME NEW k \in 1..n, k - 1 \in T PROVE k \in T
  <2>1. PICK f \in [0..k - 1 -> X] : P(k - 1, f)
    BY <1>2
  <2> DEFINE g == [i \in 0..k |-> IF i = k THEN F[k][f[k - 1]] ELSE f[i]]
  <2>2. f[k - 1] \in X /\ F[k] \in [X -> X]
    BY <2>1
  <2>3. g \in [0..k -> X]
    BY <2>1, <2>2
  <2>4. g[0] = x
    BY <2>1
  <2>5. ASSUME NEW i \in 1..k PROVE g[i] = F[i][g[i - 1]]
    <3>1. i - 1 \in 0..k /\ i - 1 # k /\ i \in 0..k
      OBVIOUS
    <3>2. g[i - 1] = f[i - 1]
      BY <3>1
    <3>3. CASE i = k
      BY <3>1, <3>2, <3>3
    <3>4. CASE i # k
      <4>1. i \in 1..k - 1 /\ g[i] = f[i]
        BY <3>1, <3>4
      <4>2. f[i] = F[i][f[i - 1]]
        BY <2>1, <4>1
      <4> QED BY <3>2, <4>1, <4>2
    <3> QED BY <3>3, <3>4
  <2>6. P(k, g)
    BY <2>4, <2>5
  <2>7. k \in 0..n
    OBVIOUS
  <2> HIDE DEF g, P
  <2> QED BY <2>3, <2>6, <2>7
<1> HIDE DEF T
<1>3. n \in T
  BY <1>1, <1>2, StepByStep, n \in 0..n
<1> USE DEF T
<1> QED BY <1>3 DEF Solves

-----------------------------------------------------------------------------
(* The invariants as predicates of the contents, so that they can be       *)
(* stated of the intermediate states of an action too.                     *)

BlockLists == [FHash -> Seq(BlockInfo)]

Located(bi, cs) ==
    \/ bi.blockaid = NoAid /\ bi.blocksize = 0
    \/ /\ bi.blockaid \in 1..Len(cs)
       /\ \E j \in 1..Len(cs[bi.blockaid]) : Describes(bi, cs[bi.blockaid][j])

Locatable(cs, fbs) ==
    \A fh \in FHash : \A i \in 1..Len(fbs[fh]) : Located(fbs[fh][i], cs)

(* The blocks bs of one assembly.                                          *)
InOrder(bs) ==
    \A i \in 1..Len(bs) :
        /\ HeaderLen <= bs[i].apos
        /\ bs[i].apos + bs[i].len <= DataEnd
        /\ \A j \in 1..i-1 : bs[j].apos + bs[j].len <= bs[i].apos

Disjoint(cs) == \A a \in 1..Len(cs) : InOrder(cs[a])

(* The open assembly is the newest one, and apos is the end of its blocks. *)
OpenAt(e, cs) ==
    /\ e \in [aid : Nat, apos : Nat, n_failed : Nat]
    /\ e.aid # NoAid =>
          /\ e.aid = Len(cs) /\ e.aid \in 1..Len(cs)
          /\ HeaderLen <= e.apos
          /\ \A i \in 1..Len(cs[e.aid]) : cs[e.aid][i].apos + cs[e.aid][i].len <= e.apos
          /\ cs[e.aid] = <<>> <=> e.apos = HeaderLen

(* Block information bi with the number it gets in the list of its file.   *)
Numbered(bi, n) == [bi EXCEPT !.blockid = n]

KeylessOf(cs, open, keys) == {a \in 1..Len(cs) : cs[a] # <<>> /\ a # open /\ a \notin keys}

-----------------------------------------------------------------------------
LEMMA RoomFacts ==
    ASSUME NEW ap \in Nat, NEW len \in Nat \ {0}, len <= AFree(ap)
    PROVE  ap + len <= DataEnd
BY RoomAssumption DEF AFree

(* Adding a block information to the list of a file.                       *)
LEMMA AddFacts ==
    ASSUME NEW fbs \in BlockLists, NEW fh \in FHash, NEW bi \in BlockInfo
    PROVE  /\ Add(fbs, fh, bi) \in BlockLists
           /\ \A g \in FHash : \A i \in 1..Len(Add(fbs, fh, bi)[g]) :
                 \/ i \in 1..Len(fbs[g]) /\ Add(fbs, fh, bi)[g][i] = fbs[g][i]
                 \/ \E n \in Nat \ {0} : Add(fbs, fh, bi)[g][i] = Numbered(bi, n)
<1> DEFINE new == Numbered(bi, Len(fbs[fh]) + 1)
           res == Add(fbs, fh, bi)
<1>1. fbs[fh] \in Seq(BlockInfo) /\ Len(fbs[fh]) + 1 \in Nat \ {0}
  BY DEF BlockLists
<1>2. new \in BlockInfo
  BY <1>1 DEF BlockInfo, Numbered
<1>3. res = [fbs EXCEPT ![fh] = Append(fbs[fh], new)]
  BY DEF Add, BlockLists, Numbered
<1>4. res \in BlockLists
  BY <1>1, <1>2, <1>3 DEF BlockLists
<1>5. ASSUME NEW g \in FHash, NEW i \in 1..Len(res[g])
      PROVE  \/ i \in 1..Len(fbs[g]) /\ res[g][i] = fbs[g][i]
             \/ \E n \in Nat \ {0} : res[g][i] = Numbered(bi, n)
  <2>1. CASE g # fh
    BY <2>1, <1>3 DEF BlockLists
  <2>2. CASE g = fh
    <3>1. res[g] = Append(fbs[fh], new)
      BY <2>2, <1>3 DEF BlockLists
    <3>2. i \in 1..Len(fbs[fh]) \/ i = Len(fbs[fh]) + 1
      BY <3>1, <1>1
    <3> QED BY <3>1, <3>2, <2>2, <1>1
  <2> QED BY <2>1, <2>2
<1> QED BY <1>4, <1>5

LEMMA LocatableAfterAdd ==
    ASSUME NEW cs, NEW fbs \in BlockLists, NEW fh \in FHash, NEW bi \in BlockInfo,
           Locatable(cs, fbs),
           \A n \in Nat \ {0} : Located(Numbered(bi, n), cs)
    PROVE  Locatable(cs, Add(fbs, fh, bi))
<1>1. ASSUME NEW g \in FHash, NEW i \in 1..Len(Add(fbs, fh, bi)[g])
      PROVE  Located(Add(fbs, fh, bi)[g][i], cs)
  <2>1. CASE i \in 1..Len(fbs[g]) /\ Add(fbs, fh, bi)[g][i] = fbs[g][i]
    BY <2>1 DEF Locatable
  <2>2. CASE \E n \in Nat \ {0} : Add(fbs, fh, bi)[g][i] = Numbered(bi, n)
    BY <2>2
  <2>3. \/ i \in 1..Len(fbs[g]) /\ Add(fbs, fh, bi)[g][i] = fbs[g][i]
        \/ \E n \in Nat \ {0} : Add(fbs, fh, bi)[g][i] = Numbered(bi, n)
    BY AddFacts
  <2> QED BY <2>1, <2>2, <2>3
<1> QED BY <1>1 DEF Locatable

(* backup of a request that fits keeps everything in its place.            *)
LEMMA StoreKeeps ==
    ASSUME NEW e, NEW cs \in Seq(Seq(Block)), NEW r \in Request,
           fblockstore \in BlockLists,
           OpenAt(e, cs), e.aid # NoAid,
           Locatable(cs, fblockstore), Disjoint(cs),
           Size[r.data] <= AFree(e.apos),
           Store(e, cs, r)
    PROVE  /\ content' \in Seq(Seq(Block)) /\ Len(content') = Len(cs)
           /\ \A a \in 1..Len(cs) : a # e.aid => content'[a] = cs[a]
           /\ fblockstore' \in BlockLists
           /\ OpenAt(writeenv', content') /\ writeenv'.aid = e.aid
           /\ writeenv'.n_failed = e.n_failed
           /\ Locatable(content', fblockstore')
           /\ Disjoint(content')
<1> DEFINE len  == Size[r.data]
           bi   == [blockid |-> 1, filepos |-> r.fpos, blockaid |-> e.aid,
                    blockapos |-> e.apos, blocksize |-> len, bchecksum |-> r.data]
           none == [blockid |-> 1, filepos |-> r.fpos, blockaid |-> NoAid,
                    blockapos |-> 0, blocksize |-> 0, bchecksum |-> NoSum]
           blk  == [apos |-> e.apos, len |-> len, data |-> r.data]
           a0   == e.aid
<1>1. /\ len \in Nat /\ r.fpos \in Nat /\ r.data \in Data /\ r.fhash \in FHash
      /\ a0 \in 1..Len(cs) /\ e.apos \in Nat /\ HeaderLen <= e.apos
      /\ a0 \in Nat /\ e \in [aid : Nat, apos : Nat, n_failed : Nat]
  BY SizeAssumption DEF Request, OpenAt
<1>2. bi \in BlockInfo /\ none \in BlockInfo
  BY <1>1 DEF BlockInfo, NoAid
<1>3. CASE len = 0
  <2>1. content' = cs /\ writeenv' = e /\ fblockstore' = Add(fblockstore, r.fhash, none)
    BY <1>3 DEF Store
  <2>2. \A n \in Nat \ {0} : Located(Numbered(none, n), cs)
    BY DEF Located, Numbered
  <2>3. fblockstore' \in BlockLists /\ Locatable(cs, fblockstore')
    BY <2>1, <2>2, <1>1, <1>2, AddFacts, LocatableAfterAdd
  <2> QED BY <2>1, <2>3, <1>1
<1>4. CASE len # 0
  <2>1. /\ content' = [cs EXCEPT ![a0] = Append(cs[a0], blk)]
        /\ writeenv' = [e EXCEPT !.apos = e.apos + len]
        /\ fblockstore' = Add(fblockstore, r.fhash, bi)
    BY <1>4, <1>1 DEF Store
  <2>2. blk \in Block /\ cs[a0] \in Seq(Block)
    BY <1>1, <1>4 DEF Block
  <2>3. Append(cs[a0], blk) \in Seq(Block)
    BY <2>2
  <2>4. /\ content' \in Seq(Seq(Block)) /\ Len(content') = Len(cs)
        /\ \A a \in 1..Len(cs) : a # a0 => content'[a] = cs[a]
        /\ content'[a0] = Append(cs[a0], blk)
    BY <2>1, <2>3, <1>1
  <2>5. /\ Len(content'[a0]) = Len(cs[a0]) + 1
        /\ \A i \in 1..Len(cs[a0]) : content'[a0][i] = cs[a0][i]
        /\ content'[a0][Len(cs[a0]) + 1] = blk
    BY <2>2, <2>4
  <2>6. e.apos + len <= DataEnd
    BY <1>1, <1>4, RoomFacts
  <2>7. writeenv'.aid = a0 /\ writeenv'.apos = e.apos + len /\ writeenv'.n_failed = e.n_failed
          /\ writeenv' \in [aid : Nat, apos : Nat, n_failed : Nat]
    <3>1. e.apos + len \in Nat
      BY <1>1
    <3> HIDE DEF len
    <3> QED BY <3>1, <2>1, <1>1
  <2>8. OpenAt(writeenv', content')
    <3>1. ASSUME NEW i \in 1..Len(content'[a0])
          PROVE  content'[a0][i].apos + content'[a0][i].len <= e.apos + len
      <4>1. CASE i \in 1..Len(cs[a0])
        <5>1. cs[a0][i].apos \in Nat /\ cs[a0][i].len \in Nat
          <6>1. cs[a0][i] \in Block
            BY <2>2, <4>1
          <6> QED BY <6>1 DEF Block
        <5>2. cs[a0][i].apos + cs[a0][i].len <= e.apos
          BY <4>1 DEF OpenAt
        <5>3. content'[a0][i] = cs[a0][i]
          BY <4>1, <2>5
        <5> DEFINE x == cs[a0][i].apos
                   y == cs[a0][i].len
                   z == e.apos
        <5>4. x \in Nat /\ y \in Nat /\ z \in Nat /\ len \in Nat /\ x + y <= z
          BY <5>1, <5>2, <1>1
        <5>5. x + y <= z + len
          <6> HIDE DEF x, y, z, len
          <6> QED BY <5>4
        <5> HIDE DEF len
        <5> QED BY <5>3, <5>5
      <4>2. CASE i = Len(cs[a0]) + 1
        <5>1. content'[a0][i].apos = e.apos /\ content'[a0][i].len = len
          BY <4>2, <2>5
        <5> HIDE DEF len
        <5> QED BY <5>1, <1>1
      <4> QED BY <4>1, <4>2, <2>5, <2>2
    <3>2. content'[a0] # <<>> /\ e.apos + len # HeaderLen
      BY <2>5, <2>2, <1>1, <1>4, RoomAssumption
    <3>3. HeaderLen <= e.apos + len /\ a0 = Len(content') /\ a0 \in 1..Len(content')
      BY <1>1, <2>4, RoomAssumption DEF OpenAt
    <3> QED BY <3>1, <3>2, <3>3, <2>7 DEF OpenAt
  <2>9. Locatable(content', fblockstore')
    <3>1. ASSUME NEW g \in FHash, NEW i \in 1..Len(fblockstore[g])
          PROVE  Located(fblockstore[g][i], content')
      <4> DEFINE b == fblockstore[g][i]
      <4>1. Located(b, cs)
        BY DEF Locatable
      <4>2. CASE b.blockaid = a0 /\ b.blockaid # NoAid
        <5>1. PICK j \in 1..Len(cs[a0]) : Describes(b, cs[a0][j])
          BY <4>1, <4>2 DEF Located
        <5>2. j \in 1..Len(content'[a0]) /\ content'[a0][j] = cs[a0][j]
          BY <5>1, <2>5, <2>2
        <5> QED BY <5>1, <5>2, <4>2, <2>4, <1>1 DEF Located
      <4>3. CASE ~(b.blockaid = a0 /\ b.blockaid # NoAid)
        <5>1. b.blockaid \in 1..Len(cs) => b.blockaid # a0
          BY <4>3 DEF NoAid
        <5> QED BY <4>1, <5>1, <2>4 DEF Located
      <4> QED BY <4>2, <4>3
    <3>2. ASSUME NEW n \in Nat \ {0}
          PROVE  Located(Numbered(bi, n), content')
      <4>1. Len(cs[a0]) + 1 \in 1..Len(content'[a0])
        BY <2>5, <2>2
      <4>2. Describes(Numbered(bi, n), content'[a0][Len(cs[a0]) + 1])
        BY <2>5 DEF Describes, Numbered
      <4> QED BY <4>1, <4>2, <2>4, <1>1 DEF Located, Numbered
    <3>3. Locatable(content', fblockstore)
      BY <3>1 DEF Locatable
    <3> QED BY <3>2, <3>3, <2>1, <1>1, <1>2, LocatableAfterAdd
  <2>10. Disjoint(content')
    <3>1. InOrder(content'[a0])
      <4>1. ASSUME NEW i \in 1..Len(cs[a0]) + 1
            PROVE  /\ HeaderLen <= content'[a0][i].apos
                   /\ content'[a0][i].apos + content'[a0][i].len <= DataEnd
                   /\ \A j \in 1..i-1 : content'[a0][j].apos + content'[a0][j].len
                                          <= content'[a0][i].apos
        <5>1. CASE i \in 1..Len(cs[a0])
          <6>1. i \in Nat /\ Len(cs[a0]) \in Nat
            BY <5>1, <2>2
          <6>2. \A j \in 1..i-1 : j \in 1..Len(cs[a0])
            BY <5>1, <6>1
          <6>3. InOrder(cs[a0])
            BY <1>1 DEF Disjoint
          <6>4. content'[a0][i] = cs[a0][i]
                  /\ \A j \in 1..i-1 : content'[a0][j] = cs[a0][j]
            BY <5>1, <6>2, <2>5
          <6> QED BY <6>3, <6>4, <5>1 DEF InOrder
        <5>2. CASE i = Len(cs[a0]) + 1
          <6>1. \A j \in 1..i-1 : j \in 1..Len(cs[a0])
            BY <5>2, <2>2
          <6>2. content'[a0][i].apos = e.apos /\ content'[a0][i].len = len
            BY <5>2, <2>5
          <6>3. \A j \in 1..i-1 : content'[a0][j].apos + content'[a0][j].len <= e.apos
            BY <6>1, <2>5 DEF OpenAt
          <6> HIDE DEF len
          <6> QED BY <6>2, <6>3, <2>6, <1>1
        <5>3. i \in 1..Len(cs[a0]) \/ i = Len(cs[a0]) + 1
          <6> DEFINE m == Len(cs[a0])
          <6>1. m \in Nat /\ i \in 1..m+1
            BY <2>2
          <6> HIDE DEF m
          <6>2. i \in 1..m \/ i = m + 1
            BY <6>1
          <6> QED BY <6>2 DEF m
        <5> QED BY <5>1, <5>2, <5>3
      <4> QED BY <4>1, <2>5 DEF InOrder
    <3> QED BY <3>1, <2>4 DEF Disjoint
  <2> QED BY <2>1, <2>4, <2>7, <2>8, <2>9, <2>10, <1>1, <1>2, AddFacts
<1> QED BY <1>3, <1>4

-----------------------------------------------------------------------------
(* The inductive invariant                                                 *)

EnvInv ==
    /\ writeenv = NullEnv => content = <<>>
    /\ writeenv # NullEnv =>
          /\ OpenAt(writeenv, content)
          /\ writeenv.aid \notin keystore
          /\ writeenv.n_failed = Cardinality(KeylessOf(content, writeenv.aid, keystore))

QueueInv ==
    /\ wqueue \in Seq(Request)
    /\ wbatch \in Seq(Request)
    /\ accepted \in [FHash -> Seq(Request)]
    /\ closed \in BOOLEAN /\ crashed \in BOOLEAN
    /\ wbatch # <<>> => writeenv # NullEnv

ArchiveInv ==
    /\ content \in Seq(Seq(Block))
    /\ intact \subseteq Aids
    /\ keystore \subseteq Aids
    /\ badkeys \subseteq keystore
    /\ fblockstore \in BlockLists
    /\ Locatable(content, fblockstore)
    /\ Disjoint(content)

WInv == ArchiveInv /\ QueueInv /\ EnvInv

(* Apart from these: it holds as long as one thread hands in the requests. *)
DepthInv == Len(wqueue) <= QueueSz

LEMMA KeylessFinite ==
    ASSUME NEW cs, Len(cs) \in Nat, NEW open, NEW keys
    PROVE  /\ IsFiniteSet(KeylessOf(cs, open, keys))
           /\ Cardinality(KeylessOf(cs, open, keys)) \in Nat
<1>1. IsFiniteSet(1..Len(cs))
  BY FS_Interval
<1>2. KeylessOf(cs, open, keys) \subseteq 1..Len(cs)
  BY DEF KeylessOf
<1> QED BY <1>1, <1>2, FS_Subset, FS_CardinalityType

(* A new, empty assembly changes nothing about the others.                 *)
LEMMA NewAssembly ==
    ASSUME NEW cs \in Seq(Seq(Block)), NEW n \in Nat, NEW keys,
           NEW fbs, Locatable(cs, fbs), Disjoint(cs)
    PROVE  LET new == Append(cs, <<>>)
               e   == [aid |-> Len(cs) + 1, apos |-> HeaderLen, n_failed |-> n]
           IN  /\ new \in Seq(Seq(Block)) /\ Len(new) = Len(cs) + 1
               /\ \A a \in 1..Len(cs) : new[a] = cs[a]
               /\ OpenAt(e, new)
               /\ Locatable(new, fbs) /\ Disjoint(new)
               /\ KeylessOf(new, Len(cs) + 1, keys) = KeylessOf(cs, NoAid, keys)
<1> DEFINE new == Append(cs, <<>>)
           e   == [aid |-> Len(cs) + 1, apos |-> HeaderLen, n_failed |-> n]
           m   == Len(cs)
<1>1. /\ new \in Seq(Seq(Block)) /\ Len(new) = m + 1 /\ m \in Nat
      /\ \A a \in 1..m : new[a] = cs[a]
      /\ new[m + 1] = <<>>
  OBVIOUS
<1>2. OpenAt(e, new)
  BY <1>1, RoomAssumption DEF OpenAt
<1>3. Locatable(new, fbs)
  <2> HIDE DEF new, m
  <2>1. \A a \in 1..m : a \in 1..m+1
    BY <1>1
  <2>2. ASSUME NEW bi, Located(bi, cs) PROVE Located(bi, new)
    BY <2>1, <2>2, <1>1 DEF Located, m
  <2> QED BY <2>2 DEF Locatable
<1>4. Disjoint(new)
  <2>1. InOrder(<<>>)
    BY DEF InOrder
  <2>2. ASSUME NEW a \in 1..m+1 PROVE InOrder(new[a])
    <3> HIDE DEF new, m
    <3>1. a \in 1..m \/ a = m + 1
      BY <1>1
    <3> QED BY <2>1, <3>1, <1>1 DEF Disjoint, m
  <2> QED BY <2>2, <1>1 DEF Disjoint
<1>5. KeylessOf(new, m + 1, keys) = KeylessOf(cs, NoAid, keys)
  <2> HIDE DEF new, m
  <2>1. \A a : a \in 1..m+1 /\ a # m + 1 <=> a \in 1..m
    BY <1>1
  <2>2. \A a \in 1..m : a # NoAid
    BY DEF NoAid
  <2> QED BY <2>1, <2>2, <1>1 DEF KeylessOf, m
<1> QED BY <1>1, <1>2, <1>3, <1>4, <1>5

(* finalise_assembly counts its failure, and adds at most the one key.     *)
LEMMA FinaliseCounts ==
    ASSUME WInv, writeenv # NullEnv, NEW out \in Outcome, Finalise(out)
    PROVE  /\ intact' \subseteq Aids
           /\ keystore \subseteq keystore' /\ keystore' \subseteq Aids
           /\ FailedAfter(out) \in Nat
           /\ FailedAfter(out) = Cardinality(KeylessOf(content, NoAid, keystore'))
<1> DEFINE a0  == writeenv.aid
           old == KeylessOf(content, a0, keystore)
           new == KeylessOf(content, NoAid, keystore')
<1>1. /\ OpenAt(writeenv, content) /\ a0 \notin keystore
      /\ writeenv.n_failed = Cardinality(old)
      /\ content \in Seq(Seq(Block)) /\ Len(content) \in Nat
      /\ keystore \subseteq Aids /\ intact \subseteq Aids
  BY DEF WInv, EnvInv, ArchiveInv
<1>2. a0 # NoAid => a0 \in Aids
  BY <1>1 DEF OpenAt, Aids
<1>3. IsFiniteSet(old) /\ Cardinality(old) \in Nat
  BY <1>1, KeylessFinite
<1>4. \A a \in Aids : a # NoAid
  BY DEF Aids, NoAid
<1>5. CASE ~HoldsData(writeenv)
  <2>1. UNCHANGED <<intact, keystore>> /\ FailedAfter(out) = writeenv.n_failed
    BY <1>5, <1>1, <1>3 DEF Finalise, FailedAfter
  <2>2. a0 = NoAid \/ content[a0] = <<>>
    BY <1>5, <1>1, RoomAssumption DEF OpenAt, HoldsData
  <2>3. new = old
    BY <2>1, <2>2, <1>4 DEF KeylessOf, Aids
  <2> QED BY <2>1, <2>3, <1>1, <1>3
<1>6. CASE HoldsData(writeenv) /\ out # "failed"
  <2>1. keystore' = keystore \cup {a0} /\ intact' \in {intact, intact \cup {a0}}
    BY <1>6 DEF Finalise
  <2>2. FailedAfter(out) = writeenv.n_failed
    BY <1>6, <1>1, <1>3 DEF FailedAfter
  <2>3. new = old
    BY <2>1, <1>4 DEF KeylessOf, Aids
  <2> QED BY <2>1, <2>2, <2>3, <1>1, <1>2, <1>3, <1>6 DEF HoldsData
<1>7. CASE HoldsData(writeenv) /\ out = "failed"
  <2>1. keystore' = keystore /\ intact' = intact
    BY <1>7 DEF Finalise
  <2>2. FailedAfter(out) = writeenv.n_failed + 1
    BY <1>7 DEF FailedAfter
  <2>3. content[a0] # <<>> /\ a0 \in Aids
    BY <1>7, <1>1, <1>2, RoomAssumption DEF OpenAt, HoldsData
  <2>4. new = old \cup {a0} /\ a0 \notin old
    BY <2>1, <2>3, <1>1, <1>4 DEF KeylessOf, Aids
  <2>5. Cardinality(new) = Cardinality(old) + 1
    BY <2>4, <1>3, FS_AddElement
  <2> QED BY <2>1, <2>2, <2>5, <1>1, <1>3
<1> QED BY <1>5, <1>6, <1>7

-----------------------------------------------------------------------------
(* Every step keeps the invariant                                          *)

LEMMA WInitInv == WInit => WInv
<1> SUFFICES ASSUME WInit PROVE WInv
  OBVIOUS
<1>1. ArchiveInv
  BY DEF WInit, ArchiveInv, BlockLists, Locatable, Disjoint
<1>2. QueueInv
  <2>1. accepted \in [FHash -> Seq(Request)]
    BY DEF WInit
  <2>2. wqueue = <<>> /\ wbatch = <<>> /\ closed = FALSE /\ crashed = FALSE
    BY DEF WInit
  <2>3. <<>> \in Seq(Request)
    OBVIOUS
  <2>4. closed \in BOOLEAN /\ crashed \in BOOLEAN
    BY <2>2
  <2> QED BY <2>1, <2>2, <2>3, <2>4 DEF QueueInv
<1>3. EnvInv
  BY DEF WInit, EnvInv
<1> QED BY <1>1, <1>2, <1>3 DEF WInv

LEMMA EnqueueWriteInv ==
    ASSUME WInv, NEW r \in Request, EnqueueWrite(r)
    PROVE  WInv'
<1> USE DEF EnqueueWrite, archiveVars
<1>1. ArchiveInv' /\ EnvInv'
  BY DEF WInv, ArchiveInv, EnvInv, Aids
<1>2. QueueInv'
  <2>1. r.fhash \in FHash
    BY DEF Request
  <2>2. accepted' \in [FHash -> Seq(Request)]
    <3>1. accepted' = [accepted EXCEPT ![r.fhash] = Append(accepted[r.fhash], r)]
      BY <2>1 DEF WInv, QueueInv
    <3> QED BY <3>1, <2>1 DEF WInv, QueueInv
  <2>3. wqueue' \in Seq(Request)
    BY DEF WInv, QueueInv
  <2> QED BY <2>2, <2>3 DEF WInv, QueueInv, WIdle
<1> QED BY <1>1, <1>2 DEF WInv

LEMMA IterateInv == WInv /\ IterateWriteQueue => WInv'
<1> SUFFICES ASSUME WInv, IterateWriteQueue PROVE WInv'
  OBVIOUS
<1> USE DEF IterateWriteQueue
<1>1. CASE writeenv = NullEnv
  <2>1. writeenv' = Recreated(0) /\ content' = WithNewAssembly /\ content = <<>>
    BY <1>1 DEF WInv, EnvInv
  <2>2. /\ content' \in Seq(Seq(Block)) /\ Len(content') = Len(content) + 1
        /\ OpenAt(writeenv', content')
        /\ Locatable(content', fblockstore) /\ Disjoint(content')
        /\ KeylessOf(content', Len(content) + 1, keystore) = KeylessOf(content, NoAid, keystore)
    BY <2>1, NewAssembly DEF WInv, ArchiveInv, Recreated, WithNewAssembly
  <2>3. intact = {} /\ keystore = {} /\ Len(content) = 0
    BY <2>1 DEF WInv, ArchiveInv, Aids
  <2>4. KeylessOf(content, NoAid, keystore) = {} /\ Cardinality({}) = 0
    BY <2>3, FS_EmptySet DEF KeylessOf
  <2>5. writeenv' # NullEnv /\ writeenv'.aid = Len(content) + 1 /\ writeenv'.n_failed = 0
    BY <2>1, <2>3, RoomAssumption, NullEnvAssumption DEF Recreated
  <2>6. EnvInv'
    BY <2>2, <2>3, <2>4, <2>5 DEF EnvInv
  <2>7. ArchiveInv'
    BY <2>2, <2>3 DEF WInv, ArchiveInv, Aids
  <2>8. QueueInv'
    BY <2>5 DEF WInv, QueueInv
  <2> QED BY <2>6, <2>7, <2>8 DEF WInv
<1>2. CASE writeenv # NullEnv
  <2>1. ArchiveInv' /\ EnvInv'
    BY <1>2 DEF WInv, ArchiveInv, EnvInv, Aids
  <2>2. QueueInv'
    BY <1>2 DEF WInv, QueueInv
  <2> QED BY <2>1, <2>2 DEF WInv
<1> QED BY <1>1, <1>2

(* The request of a step is taken from the batch, nothing else of the      *)
(* queues changes.                                                         *)
LEMMA BatchShrinks ==
    ASSUME WInv, wbatch # <<>>, wbatch' = Tail(wbatch), writeenv' # NullEnv,
           UNCHANGED <<wqueue, accepted, closed, crashed>>
    PROVE  QueueInv' /\ Head(wbatch) \in Request /\ writeenv # NullEnv
BY DEF WInv, QueueInv

LEMMA WriteToCurrentInv ==
    ASSUME WInv, wbatch # <<>>, WriteToCurrent(Head(wbatch)), wbatch' = Tail(wbatch),
           UNCHANGED <<badkeys, wqueue, accepted, closed, crashed>>
    PROVE  WInv'
<1> DEFINE r == Head(wbatch)
<1>1. r \in Request /\ writeenv # NullEnv
  BY DEF WInv, QueueInv
<1>2. /\ OpenAt(writeenv, content) /\ writeenv.aid \notin keystore
      /\ writeenv.n_failed = Cardinality(KeylessOf(content, writeenv.aid, keystore))
      /\ writeenv.aid # NoAid
  BY <1>1 DEF WInv, EnvInv, WriteToCurrent
<1>3. /\ content' \in Seq(Seq(Block)) /\ Len(content') = Len(content)
      /\ \A a \in 1..Len(content) : a # writeenv.aid => content'[a] = content[a]
      /\ fblockstore' \in BlockLists
      /\ OpenAt(writeenv', content') /\ writeenv'.aid = writeenv.aid
      /\ writeenv'.n_failed = writeenv.n_failed
      /\ Locatable(content', fblockstore')
      /\ Disjoint(content')
  BY <1>1, <1>2, StoreKeeps DEF WInv, ArchiveInv, WriteToCurrent
<1>4. KeylessOf(content', writeenv.aid, keystore) = KeylessOf(content, writeenv.aid, keystore)
  BY <1>3 DEF KeylessOf
<1>5. writeenv' # NullEnv
  BY <1>3, NullEnvAssumption DEF OpenAt
<1>6. EnvInv'
  BY <1>2, <1>3, <1>4, <1>5 DEF EnvInv, WriteToCurrent
<1>7. ArchiveInv'
  BY <1>3 DEF WInv, ArchiveInv, Aids, WriteToCurrent
<1> QED BY <1>5, <1>6, <1>7, BatchShrinks DEF WInv

(* After finalise and recreate the environment is as good as new.          *)
LEMMA RecreatedIsFresh ==
    ASSUME WInv, writeenv # NullEnv, NEW out \in Outcome, Finalise(out)
    PROVE  LET e  == Recreated(FailedAfter(out))
               cs == WithNewAssembly
           IN  /\ cs \in Seq(Seq(Block)) /\ Len(cs) = Len(content) + 1
               /\ OpenAt(e, cs) /\ e # NullEnv
               /\ e.aid = Len(content) + 1 /\ e.aid # NoAid
               /\ Locatable(cs, fblockstore) /\ Disjoint(cs)
               /\ intact' \subseteq 1..Len(cs) /\ keystore' \subseteq 1..Len(cs)
               /\ keystore \subseteq keystore'
               /\ e.aid \notin keystore'
               /\ e.n_failed = Cardinality(KeylessOf(cs, e.aid, keystore'))
<1> DEFINE e  == Recreated(FailedAfter(out))
           cs == WithNewAssembly
<1>1. /\ content \in Seq(Seq(Block)) /\ Len(content) \in Nat
      /\ Locatable(content, fblockstore) /\ Disjoint(content)
  BY DEF WInv, ArchiveInv
<1>2. /\ intact' \subseteq Aids
      /\ keystore \subseteq keystore' /\ keystore' \subseteq Aids
      /\ FailedAfter(out) \in Nat
      /\ FailedAfter(out) = Cardinality(KeylessOf(content, NoAid, keystore'))
  BY FinaliseCounts
<1>3. /\ cs \in Seq(Seq(Block)) /\ Len(cs) = Len(content) + 1
      /\ OpenAt(e, cs)
      /\ Locatable(cs, fblockstore) /\ Disjoint(cs)
      /\ KeylessOf(cs, Len(content) + 1, keystore') = KeylessOf(content, NoAid, keystore')
  BY <1>1, <1>2, NewAssembly DEF Recreated, WithNewAssembly
<1>4. e.aid = Len(content) + 1 /\ e.n_failed = FailedAfter(out)
  BY DEF Recreated
<1>5. e # NullEnv
  BY <1>3, NullEnvAssumption DEF OpenAt
<1>6. e.aid # NoAid /\ e.aid \notin Aids /\ Aids \subseteq 1..Len(cs)
  BY <1>1, <1>3, <1>4 DEF Aids, NoAid
<1> QED BY <1>2, <1>3, <1>4, <1>5, <1>6

LEMMA WriteToNextInv ==
    ASSUME WInv, wbatch # <<>>, NEW out \in Outcome, WriteToNext(Head(wbatch), out),
           wbatch' = Tail(wbatch),
           UNCHANGED <<badkeys, wqueue, accepted, closed, crashed>>
    PROVE  WInv'
<1> DEFINE r  == Head(wbatch)
           e  == Recreated(FailedAfter(out))
           cs == WithNewAssembly
<1>1. r \in Request /\ writeenv # NullEnv /\ Finalise(out)
  BY DEF WInv, QueueInv, WriteToNext
<1>2. /\ cs \in Seq(Seq(Block)) /\ Len(cs) = Len(content) + 1
      /\ OpenAt(e, cs) /\ e # NullEnv
      /\ e.aid = Len(content) + 1 /\ e.aid # NoAid
      /\ Locatable(cs, fblockstore) /\ Disjoint(cs)
      /\ intact' \subseteq 1..Len(cs) /\ keystore' \subseteq 1..Len(cs)
      /\ keystore \subseteq keystore'
      /\ e.aid \notin keystore'
      /\ e.n_failed = Cardinality(KeylessOf(cs, e.aid, keystore'))
  BY <1>1, RecreatedIsFresh
<1>3. fblockstore \in BlockLists /\ badkeys \subseteq keystore
  BY DEF WInv, ArchiveInv
<1>4. CASE Size[r.data] <= AFree(HeaderLen)
  <2>1. Store(e, cs, r)
    BY <1>4 DEF WriteToNext
  <2>2. e.apos = HeaderLen
    BY DEF Recreated
  <2>3. /\ content' \in Seq(Seq(Block)) /\ Len(content') = Len(cs)
        /\ \A a \in 1..Len(cs) : a # e.aid => content'[a] = cs[a]
        /\ fblockstore' \in BlockLists
        /\ OpenAt(writeenv', content') /\ writeenv'.aid = e.aid
        /\ writeenv'.n_failed = e.n_failed
        /\ Locatable(content', fblockstore')
        /\ Disjoint(content')
    <3> HIDE DEF e, cs, r
    <3> QED BY <1>1, <1>2, <1>3, <1>4, <2>1, <2>2, StoreKeeps
  <2>4. KeylessOf(content', e.aid, keystore') = KeylessOf(cs, e.aid, keystore')
    BY <2>3 DEF KeylessOf
  <2>5. writeenv' # NullEnv
    BY <2>3, NullEnvAssumption DEF OpenAt
  <2> HIDE DEF e, cs, r
  <2>6. EnvInv'
    BY <1>2, <2>3, <2>4, <2>5 DEF EnvInv
  <2>7. ArchiveInv'
    BY <1>2, <1>3, <2>3 DEF ArchiveInv, Aids
  <2> QED BY <2>5, <2>6, <2>7, BatchShrinks DEF WInv
<1>5. CASE ~(Size[r.data] <= AFree(HeaderLen))
  <2>1. writeenv' = e /\ content' = cs /\ fblockstore' = fblockstore
    BY <1>5 DEF WriteToNext
  <2> HIDE DEF e, cs, r
  <2>2. EnvInv'
    BY <1>2, <2>1 DEF EnvInv
  <2>3. ArchiveInv'
    BY <1>2, <1>3, <2>1 DEF ArchiveInv, Aids
  <2> QED BY <1>2, <2>1, <2>2, <2>3, BatchShrinks DEF WInv
<1> QED BY <1>4, <1>5

LEMMA RunWriteRequestInv == WInv /\ RunWriteRequest => WInv'
<1> SUFFICES ASSUME WInv, RunWriteRequest PROVE WInv'
  OBVIOUS
<1>1. /\ wbatch # <<>> /\ wbatch' = Tail(wbatch)
      /\ UNCHANGED <<badkeys, wqueue, accepted, closed, crashed>>
  BY DEF RunWriteRequest
<1>2. CASE WriteToCurrent(Head(wbatch))
  BY <1>1, <1>2, WriteToCurrentInv
<1>3. ASSUME NEW out \in Outcome, WriteToNext(Head(wbatch), out) PROVE WInv'
  BY <1>1, <1>3, WriteToNextInv
<1>4. CASE WriteRefused
  <2>1. ArchiveInv' /\ EnvInv'
    BY <1>1, <1>4 DEF WriteRefused, WInv, ArchiveInv, EnvInv, Aids
  <2>2. writeenv' # NullEnv
    BY <1>1, <1>4 DEF WriteRefused, WInv, QueueInv
  <2> QED BY <1>1, <2>1, <2>2, BatchShrinks DEF WInv
<1> QED BY <1>2, <1>3, <1>4 DEF RunWriteRequest

LEMMA FlushInv ==
    ASSUME WInv, NEW out \in Outcome, Flush(out)
    PROVE  WInv'
<1> USE DEF Flush
<1>1. CASE writeenv = NullEnv
  <2>1. ArchiveInv' /\ EnvInv'
    BY <1>1 DEF WInv, ArchiveInv, EnvInv, Aids
  <2>2. QueueInv'
    BY <1>1 DEF WInv, QueueInv
  <2> QED BY <2>1, <2>2 DEF WInv
<1>2. CASE writeenv # NullEnv
  <2> DEFINE e  == Recreated(FailedAfter(out))
             cs == WithNewAssembly
  <2>1. /\ Finalise(out) /\ writeenv' = e /\ content' = cs
        /\ UNCHANGED <<badkeys, fblockstore, wqueue, wbatch, accepted, closed, crashed>>
    BY <1>2
  <2>2. /\ cs \in Seq(Seq(Block)) /\ Len(cs) = Len(content) + 1
        /\ OpenAt(e, cs) /\ e # NullEnv
        /\ e.aid = Len(content) + 1 /\ e.aid # NoAid
        /\ Locatable(cs, fblockstore) /\ Disjoint(cs)
        /\ intact' \subseteq 1..Len(cs) /\ keystore' \subseteq 1..Len(cs)
        /\ keystore \subseteq keystore'
        /\ e.aid \notin keystore'
        /\ e.n_failed = Cardinality(KeylessOf(cs, e.aid, keystore'))
    BY <1>2, <2>1, RecreatedIsFresh
  <2> HIDE DEF e, cs
  <2>3. EnvInv'
    BY <2>1, <2>2 DEF EnvInv
  <2>4. ArchiveInv'
    BY <2>1, <2>2 DEF WInv, ArchiveInv, Aids
  <2>5. QueueInv'
    BY <2>1, <2>2 DEF WInv, QueueInv
  <2> QED BY <2>3, <2>4, <2>5 DEF WInv
<1> QED BY <1>1, <1>2

LEMMA CloseInv ==
    ASSUME WInv, NEW out \in Outcome, Close(out)
    PROVE  WInv'
<1> USE DEF Close
<1>1. CASE writeenv = NullEnv
  <2>1. ArchiveInv' /\ EnvInv'
    BY <1>1 DEF WInv, ArchiveInv, EnvInv, Aids
  <2>2. QueueInv'
    BY <1>1 DEF WInv, QueueInv
  <2> QED BY <2>1, <2>2 DEF WInv
<1>2. CASE writeenv # NullEnv
  <2>1. /\ Finalise(out)
        /\ writeenv' = [aid |-> NoAid, apos |-> 0, n_failed |-> FailedAfter(out)]
        /\ closed' = TRUE
        /\ UNCHANGED <<content, badkeys, fblockstore, wqueue, wbatch, accepted, crashed>>
    BY <1>2
  <2>2. /\ intact' \subseteq Aids
        /\ keystore \subseteq keystore' /\ keystore' \subseteq Aids
        /\ FailedAfter(out) \in Nat
        /\ FailedAfter(out) = Cardinality(KeylessOf(content, NoAid, keystore'))
    BY <1>2, <2>1, FinaliseCounts
  <2>3. writeenv' \in [aid : Nat, apos : Nat, n_failed : Nat] /\ writeenv'.aid = NoAid
          /\ writeenv'.n_failed = FailedAfter(out)
    BY <2>1, <2>2 DEF NoAid
  <2>4. writeenv' # NullEnv
    BY <2>3, NullEnvAssumption
  <2>5. NoAid \notin keystore'
    BY <2>2 DEF NoAid, Aids
  <2>6. EnvInv'
    BY <2>1, <2>2, <2>3, <2>4, <2>5 DEF EnvInv, OpenAt
  <2>7. ArchiveInv'
    BY <2>1, <2>2 DEF WInv, ArchiveInv, Aids
  <2>8. QueueInv'
    BY <2>1, <2>4 DEF WInv, QueueInv
  <2> QED BY <2>6, <2>7, <2>8 DEF WInv
<1> QED BY <1>1, <1>2

LEMMA WNextInv == WInv /\ [WNext]_writeVars => WInv'
<1> SUFFICES ASSUME WInv, [WNext]_writeVars PROVE WInv'
  OBVIOUS
<1>1. ASSUME NEW fh \in FHash, NEW d \in Data,
             EnqueueWrite([fhash |-> fh, fpos |-> Len(accepted[fh]), data |-> d])
      PROVE  WInv'
  <2>1. Len(accepted[fh]) \in Nat
    BY DEF WInv, QueueInv
  <2>2. [fhash |-> fh, fpos |-> Len(accepted[fh]), data |-> d] \in Request
    BY <2>1 DEF Request
  <2> QED BY <1>1, <2>2, EnqueueWriteInv
<1>2. CASE IterateWriteQueue
  BY <1>2, IterateInv
<1>3. CASE RunWriteRequest
  BY <1>3, RunWriteRequestInv
<1>4. ASSUME NEW out \in Outcome, Flush(out) PROVE WInv'
  BY <1>4, FlushInv
<1>5. ASSUME NEW out \in Outcome, Close(out) PROVE WInv'
  BY <1>5, CloseInv
<1>6. CASE UNCHANGED writeVars
  BY <1>6 DEF writeVars, archiveVars, pathVars, WInv, ArchiveInv, QueueInv, EnvInv, Aids
<1> QED BY <1>1, <1>2, <1>3, <1>4, <1>5, <1>6 DEF WNext

LEMMA DepthKept == WInv /\ DepthInv /\ [WNext]_writeVars => DepthInv'
<1> SUFFICES ASSUME WInv, DepthInv, [WNext]_writeVars PROVE DepthInv'
  OBVIOUS
<1>1. wqueue \in Seq(Request) /\ Len(wqueue) \in Nat
  BY DEF WInv, QueueInv
<1>2. ASSUME NEW fh \in FHash, NEW d \in Data,
             EnqueueWrite([fhash |-> fh, fpos |-> Len(accepted[fh]), data |-> d])
      PROVE  DepthInv'
  BY <1>1, <1>2, QueueAssumption DEF EnqueueWrite, DepthInv
<1>3. CASE IterateWriteQueue
  BY <1>3, QueueAssumption DEF IterateWriteQueue, DepthInv
<1>4. UNCHANGED wqueue => DepthInv'
  BY DEF DepthInv
<1> QED BY <1>2, <1>3, <1>4 DEF WNext, RunWriteRequest, Flush, Close, writeVars, pathVars

(* The invariant in the words of the module's properties.                  *)
LEMMA WInvImplies ==
    WInv /\ DepthInv => WTypeOK /\ BlocksLocatable /\ BlocksDisjoint /\ FailedIsCounted
<1> SUFFICES ASSUME WInv, DepthInv
             PROVE  WTypeOK /\ BlocksLocatable /\ BlocksDisjoint /\ FailedIsCounted
  OBVIOUS
<1>1. BlocksLocatable
  BY DEF WInv, ArchiveInv, Locatable, Located, BlocksLocatable, Aids
<1>2. BlocksDisjoint
  BY DEF WInv, ArchiveInv, Disjoint, InOrder, BlocksDisjoint, Aids
<1>3. FailedIsCounted
  BY DEF WInv, EnvInv, FailedIsCounted, Keyless, KeylessOf, Aids
<1>4. ArchiveTypeOK
  BY DEF WInv, ArchiveInv, ArchiveTypeOK, BlockLists
<1>5. \/ writeenv = NullEnv
      \/ /\ writeenv \in [aid : {NoAid, Len(content)}, apos : Nat, n_failed : Nat]
         /\ writeenv.aid # NoAid => writeenv.aid \in Aids
  BY DEF WInv, EnvInv, OpenAt, Aids
<1> QED BY <1>1, <1>2, <1>3, <1>4, <1>5 DEF WTypeOK, WInv, QueueInv, DepthInv

-----------------------------------------------------------------------------
(* Both hold of every state that the writing half can reach.               *)
THEOREM WInvariance == WSpec => [](WInv /\ DepthInv)
<1>1. WInit => WInv /\ DepthInv
  BY WInitInv, QueueAssumption DEF WInit, DepthInv
<1>2. WInv /\ DepthInv /\ [WNext]_writeVars => (WInv /\ DepthInv)'
  BY WNextInv, DepthKept
<1> QED BY <1>1, <1>2, PTL DEF WSpec

(* The variables keep their types, the queue its bound, and a batch is run *)
(* only with an environment (enqueue, iterate and run of the write queue). *)
THEOREM WTypeCorrect == WSpec => []WTypeOK
<1>1. WInv /\ DepthInv => WTypeOK
  BY WInvImplies
<1> QED BY <1>1, WInvariance, PTL

(* Every block information that backup handed to the block store describes *)
(* a block of the assembly it names.                                       *)
THEOREM BlocksAreLocatable == WSpec => []BlocksLocatable
<1>1. WInv /\ DepthInv => BlocksLocatable
  BY WInvImplies
<1> QED BY <1>1, WInvariance, PTL

(* No block overlaps another one, the header or the rows of the tag.       *)
THEOREM BlocksAreDisjoint == WSpec => []BlocksDisjoint
<1>1. WInv /\ DepthInv => BlocksDisjoint
  BY WInvImplies
<1> QED BY <1>1, WInvariance, PTL

(* n_assembly_failed counts exactly the assemblies whose blocks cannot be  *)
(* restored for want of a key.                                             *)
THEOREM FailuresAreCounted == WSpec => []FailedIsCounted
<1>1. WInv /\ DepthInv => FailedIsCounted
  BY WInvImplies
<1> QED BY <1>1, WInvariance, PTL

-----------------------------------------------------------------------------
(* What a step may do to the assemblies that have a key: nothing.          *)
SealedKept ==
    /\ \A a \in keystore : content'[a] = content[a]
    /\ keystore \subseteq keystore'

LEMMA WriteKeepsSealed ==
    ASSUME WInv, RunWriteRequest
    PROVE  SealedKept
<1> DEFINE r == Head(wbatch)
<1>1. /\ r \in Request /\ writeenv # NullEnv
      /\ content \in Seq(Seq(Block)) /\ keystore \subseteq 1..Len(content)
      /\ fblockstore \in BlockLists
      /\ Locatable(content, fblockstore) /\ Disjoint(content)
      /\ OpenAt(writeenv, content) /\ writeenv.aid \notin keystore
  BY DEF WInv, QueueInv, ArchiveInv, EnvInv, RunWriteRequest, Aids
<1>2. CASE WriteToCurrent(r)
  <2>1. /\ writeenv.aid # NoAid /\ Size[r.data] <= AFree(writeenv.apos)
        /\ Store(writeenv, content, r) /\ keystore' = keystore
    BY <1>2 DEF WriteToCurrent
  <2>2. \A a \in 1..Len(content) : a # writeenv.aid => content'[a] = content[a]
    BY <1>1, <2>1, StoreKeeps
  <2> QED BY <1>1, <2>1, <2>2 DEF SealedKept
<1>3. ASSUME NEW out \in Outcome, WriteToNext(r, out) PROVE SealedKept
  <2> DEFINE e  == Recreated(FailedAfter(out))
             cs == WithNewAssembly
  <2>1. Finalise(out)
    BY <1>3 DEF WriteToNext
  <2>2. /\ cs \in Seq(Seq(Block)) /\ Len(cs) = Len(content) + 1
        /\ OpenAt(e, cs) /\ e.aid = Len(content) + 1 /\ e.aid # NoAid
        /\ Locatable(cs, fblockstore) /\ Disjoint(cs)
        /\ keystore \subseteq keystore'
    BY <1>1, <2>1, RecreatedIsFresh
  <2>3. /\ \A a \in 1..Len(content) : cs[a] = content[a]
        /\ Len(content) \in Nat /\ e.apos = HeaderLen
    BY <1>1 DEF WithNewAssembly, Recreated
  <2>4. \A a \in 1..Len(content) : a # e.aid /\ a \in 1..Len(cs)
    BY <2>2, <2>3
  <2>5. CASE Size[r.data] <= AFree(HeaderLen)
    <3>1. Store(e, cs, r)
      BY <1>3, <2>5 DEF WriteToNext
    <3> HIDE DEF e, cs, r
    <3>2. \A a \in 1..Len(cs) : a # e.aid => content'[a] = cs[a]
      BY <1>1, <2>2, <2>3, <2>5, <3>1, StoreKeeps
    <3> QED BY <1>1, <2>2, <2>3, <2>4, <3>2 DEF SealedKept
  <2>6. CASE ~(Size[r.data] <= AFree(HeaderLen))
    <3>1. content' = cs
      BY <1>3, <2>6 DEF WriteToNext
    <3> QED BY <1>1, <2>2, <2>3, <3>1 DEF SealedKept
  <2> QED BY <2>5, <2>6
<1>4. CASE WriteRefused
  BY <1>4 DEF WriteRefused, SealedKept
<1> QED BY <1>2, <1>3, <1>4 DEF RunWriteRequest

LEMMA StepKeepsSealed ==
    ASSUME WInv, [WNext]_writeVars
    PROVE  SealedKept
<1>1. keystore \subseteq 1..Len(content) /\ content \in Seq(Seq(Block))
  BY DEF WInv, ArchiveInv, Aids
<1>2. \A a \in keystore : WithNewAssembly[a] = content[a]
  BY <1>1 DEF WithNewAssembly
<1>3. ASSUME NEW out \in Outcome, writeenv # NullEnv, Finalise(out)
      PROVE  keystore \subseteq keystore'
  BY <1>3, FinaliseCounts
<1>4. CASE \E r : EnqueueWrite(r)
  BY <1>4 DEF EnqueueWrite, archiveVars, SealedKept
<1>5. CASE IterateWriteQueue
  BY <1>2, <1>5 DEF IterateWriteQueue, SealedKept
<1>6. CASE RunWriteRequest
  BY <1>6, WriteKeepsSealed
<1>7. ASSUME NEW out \in Outcome, Flush(out) PROVE SealedKept
  BY <1>2, <1>3, <1>7 DEF Flush, SealedKept
<1>8. ASSUME NEW out \in Outcome, Close(out) PROVE SealedKept
  BY <1>3, <1>8 DEF Close, SealedKept
<1>9. CASE UNCHANGED writeVars
  BY <1>9 DEF writeVars, archiveVars, SealedKept
<1> QED BY <1>4, <1>5, <1>6, <1>7, <1>8, <1>9 DEF WNext

(* An assembly that has its key never changes again and keeps the key:     *)
(* no request of a batch, flush or close writes behind finalise_assembly.  *)
THEOREM SealedStaysFinal == WSpec => SealedIsFinal
<1>1. WInv /\ [WNext]_writeVars
        => [/\ \A a \in keystore : content'[a] = content[a]
            /\ keystore \subseteq keystore']_writeVars
  BY StepKeepsSealed DEF SealedKept
<1> QED BY <1>1, WInvariance, PTL DEF WSpec, SealedIsFinal

-----------------------------------------------------------------------------
(* Selecting the requests of a file                                        *)

(* Request r is one for file fh that goes into an assembly.                *)
Selected(r, fh) == r.fhash = fh /\ Fits(r)

(* of is what OfFile selects from s for file fh, step by step.             *)
Selects(of, s, fh) ==
    /\ of \in [0..Len(s) -> Seq(Request)]
    /\ of[0] = <<>>
    /\ \A i \in 1..Len(s) :
          of[i] = IF Selected(s[i], fh) THEN Append(of[i-1], s[i]) ELSE of[i-1]

LEMMA SelectionSteps ==
    ASSUME NEW q \in Seq(Request), NEW fh
    PROVE  \E of : Selects(of, q, fh) /\ OfFile(q, fh) = of[Len(q)]
<1> DEFINE n == Len(q)
           none == <<>>
           G(of) == [i \in 0..n |-> IF i = 0 THEN none
                                    ELSE IF q[i].fhash = fh /\ Fits(q[i]) THEN Append(of[i-1], q[i])
                                    ELSE of[i-1]]
           sel == CHOOSE of : of = G(of)
           F == [i \in 1..n |-> [s \in Seq(Request) |->
                    IF q[i].fhash = fh /\ Fits(q[i]) THEN Append(s, q[i]) ELSE s]]
<1>1. n \in Nat /\ none \in Seq(Request) /\ \A i \in 1..n : q[i] \in Request
  OBVIOUS
<1>2. F \in [1..n -> [Seq(Request) -> Seq(Request)]]
  BY <1>1
<1>3. OfFile(q, fh) = sel[n]
  BY DEF OfFile
<1> HIDE DEF none
<1>4. \E f \in [0..n -> Seq(Request)] :
         f[0] = none /\ \A i \in 1..n : f[i] = F[i][f[i - 1]]
  <2> DEFINE X == Seq(Request)
  <2>1. n \in Nat /\ none \in X /\ F \in [1..n -> [X -> X]]
    BY <1>1, <1>2
  <2> HIDE DEF n, F, X
  <2>2. \E f \in [0..n -> X] : Solves(f, n, none, F)
    BY <2>1, Recursion
  <2> QED BY <2>2 DEF X, Solves
<1>5. PICK f \in [0..n -> Seq(Request)] :
         f[0] = none /\ \A i \in 1..n : f[i] = F[i][f[i - 1]]
  BY <1>4
<1>6. f = G(f)
  <2>1. ASSUME NEW i \in 1..n
        PROVE  F[i][f[i - 1]] = IF q[i].fhash = fh /\ Fits(q[i]) THEN Append(f[i-1], q[i])
                                                               ELSE f[i-1]
    <3>1. i - 1 \in 0..n
      BY <1>1
    <3>2. f[i - 1] \in Seq(Request)
      BY <3>1, <1>5
    <3> QED BY <3>2
  <2> HIDE DEF F
  <2>2. \A i \in 0..n : i = 0 \/ i \in 1..n
    BY <1>1
  <2>3. \A i \in 0..n : f[i] = G(f)[i]
    BY <2>1, <2>2, <1>5
  <2> QED BY <2>3, <1>5
<1>7. sel = G(sel)
  <2> HIDE DEF G
  <2> QED BY <1>6
<1> HIDE DEF sel
<1>8. /\ sel[0] = none
      /\ \A i \in 1..n : sel[i] = IF q[i].fhash = fh /\ Fits(q[i]) THEN Append(sel[i-1], q[i])
                                                                  ELSE sel[i-1]
  <2>1. \A i \in 0..n : sel[i] = G(sel)[i]
    BY <1>7
  <2>2. 0 \in 0..n /\ \A i \in 1..n : i \in 0..n /\ i # 0
    BY <1>1
  <2> QED BY <2>1, <2>2
<1>9. \A i \in 0..n : sel[i] \in Seq(Request)
  <2> DEFINE T == {i \in 0..n : sel[i] \in Seq(Request)}
  <2>1. 0 \in T
    BY <1>1, <1>8
  <2>2. ASSUME NEW i \in 1..n, i - 1 \in T PROVE i \in T
    <3>1. sel[i - 1] \in Seq(Request) /\ q[i] \in Request /\ i \in 0..n
      BY <1>1, <2>2
    <3>2. Append(sel[i - 1], q[i]) \in Seq(Request)
      BY <3>1
    <3> QED BY <1>8, <3>1, <3>2
  <2> HIDE DEF T, n
  <2>3. \A i \in 0..n : i \in T
    BY <1>1, <2>1, <2>2, StepByStep
  <2> QED BY <2>3 DEF T
<1>10. sel \in [0..n -> Seq(Request)]
  <2>1. sel = [i \in 0..n |-> sel[i]]
    BY <1>7
  <2> QED BY <2>1, <1>9
<1> HIDE DEF G
<1>11. Selects(sel, q, fh)
  BY <1>8, <1>10 DEF Selects, Selected, none
<1> QED BY <1>3, <1>11

LEMMA SelectionType ==
    ASSUME NEW q \in Seq(Request), NEW fh
    PROVE  OfFile(q, fh) \in Seq(Request)
<1>1. PICK of : Selects(of, q, fh) /\ OfFile(q, fh) = of[Len(q)]
  BY SelectionSteps
<1>2. Len(q) \in 0..Len(q)
  OBVIOUS
<1> QED BY <1>1, <1>2 DEF Selects

LEMMA AppendAssociative ==
    ASSUME NEW S, NEW s \in Seq(S), NEW t \in Seq(S), NEW e \in S
    PROVE  s \o Append(t, e) = Append(s \o t, e)
<1>1. Append(t, e) = t \o <<e>> /\ Append(s \o t, e) = (s \o t) \o <<e>>
  BY AppendIsConcat, ConcatProperties
<1>2. <<e>> \in Seq(S)
  OBVIOUS
<1> QED BY <1>1, <1>2, ConcatAssociative

(* Selecting from one queue after the other.                               *)
LEMMA SelectionConcat ==
    ASSUME NEW q \in Seq(Request), NEW p \in Seq(Request), NEW fh
    PROVE  OfFile(q \o p, fh) = OfFile(q, fh) \o OfFile(p, fh)
<1> DEFINE n == Len(q)
           m == Len(p)
           w == q \o p
<1>1. /\ n \in Nat /\ m \in Nat /\ w \in Seq(Request) /\ Len(w) = n + m
      /\ \A i \in 1..n : w[i] = q[i] /\ q[i] \in Request
      /\ \A i \in 1..m : w[n + i] = p[i] /\ p[i] \in Request
  OBVIOUS
<1>2. PICK f : Selects(f, q, fh) /\ OfFile(q, fh) = f[n]
  BY SelectionSteps
<1>3. PICK h : Selects(h, p, fh) /\ OfFile(p, fh) = h[m]
  BY SelectionSteps
<1>4. PICK g : Selects(g, w, fh) /\ OfFile(w, fh) = g[Len(w)]
  <2> HIDE DEF w
  <2> QED BY <1>1, SelectionSteps
<1>5. /\ f \in [0..n -> Seq(Request)] /\ h \in [0..m -> Seq(Request)]
      /\ f[0] = <<>> /\ g[0] = <<>> /\ h[0] = <<>>
      /\ \A i \in 1..n : f[i] = IF Selected(q[i], fh) THEN Append(f[i-1], q[i]) ELSE f[i-1]
      /\ \A i \in 1..m : h[i] = IF Selected(p[i], fh) THEN Append(h[i-1], p[i]) ELSE h[i-1]
  BY <1>2, <1>3, <1>4 DEF Selects
<1>6. \A i \in 1..n + m : g[i] = IF Selected(w[i], fh) THEN Append(g[i-1], w[i]) ELSE g[i-1]
  <2> HIDE DEF w
  <2> QED BY <1>1, <1>4 DEF Selects
<1> HIDE DEF n, m, w
<1>7. \A i \in 0..n : g[i] = f[i]
  <2> DEFINE T == {i \in 0..n : g[i] = f[i]}
  <2>1. 0 \in T
    BY <1>1, <1>5
  <2>2. ASSUME NEW i \in 1..n, i - 1 \in T PROVE i \in T
    <3>1. i \in 1..n + m /\ w[i] = q[i] /\ g[i - 1] = f[i - 1] /\ i \in 0..n
      BY <1>1, <2>2
    <3> QED BY <3>1, <1>5, <1>6
  <2> HIDE DEF T
  <2>3. \A i \in 0..n : i \in T
    BY <1>1, <2>1, <2>2, StepByStep
  <2> QED BY <2>3 DEF T
<1>8. \A i \in 0..m : g[n + i] = f[n] \o h[i]
  <2> DEFINE T == {i \in 0..m : g[n + i] = f[n] \o h[i]}
  <2>0. f[n] \in Seq(Request) /\ \A i \in 0..m : h[i] \in Seq(Request)
    BY <1>1, <1>5
  <2>1. 0 \in T
    <3>1. h[0] = <<>> /\ g[n + 0] = f[n] /\ 0 \in 0..m
      BY <1>1, <1>5, <1>7
    <3> QED BY <3>1, <2>0, ConcatEmptySeq
  <2>2. ASSUME NEW i \in 1..m, i - 1 \in T PROVE i \in T
    <3>1. /\ n + i \in 1..n + m /\ w[n + i] = p[i] /\ p[i] \in Request
          /\ (n + i) - 1 = n + (i - 1) /\ i \in 0..m /\ i - 1 \in 0..m
      BY <1>1
    <3>a. g[n + (i - 1)] = f[n] \o h[i - 1]
      BY <2>2
    <3>b. /\ n + i \in 1..n + m /\ w[n + i] = p[i] /\ p[i] \in Request /\ i \in 0..m
          /\ g[(n + i) - 1] = f[n] \o h[i - 1]
      BY <3>1, <3>a
    <3>2. g[n + i] = IF Selected(p[i], fh) THEN Append(f[n] \o h[i - 1], p[i])
                                           ELSE f[n] \o h[i - 1]
      BY <3>b, <1>6
    <3>3. h[i] = IF Selected(p[i], fh) THEN Append(h[i - 1], p[i]) ELSE h[i - 1]
      BY <1>5
    <3>4. f[n] \o Append(h[i - 1], p[i]) = Append(f[n] \o h[i - 1], p[i])
      <4>1. h[i - 1] \in Seq(Request)
        BY <2>0, <3>1
      <4> DEFINE X == Request
      <4>2. f[n] \in Seq(X) /\ h[i - 1] \in Seq(X) /\ p[i] \in X
        BY <2>0, <3>1, <4>1
      <4> DEFINE a == f[n]
             b == h[i - 1]
             c == p[i]
      <4>3. a \in Seq(X) /\ b \in Seq(X) /\ c \in X
        BY <4>2
      <4> HIDE DEF X, a, b, c
      <4>4. a \o Append(b, c) = Append(a \o b, c)
        BY <4>3, AppendAssociative
      <4> QED BY <4>4 DEF a, b, c
    <3> QED BY <3>1, <3>2, <3>3, <3>4
  <2> HIDE DEF T
  <2>3. \A i \in 0..m : i \in T
    BY <1>1, <2>1, <2>2, StepByStep
  <2> QED BY <2>3 DEF T
<1>9. OfFile(w, fh) = f[n] \o h[m]
  <2>1. m \in 0..m /\ Len(w) = n + m
    BY <1>1
  <2> QED BY <2>1, <1>4, <1>8
<1> QED BY <1>2, <1>3, <1>9 DEF w

LEMMA SelectionEmpty ==
    ASSUME NEW fh
    PROVE  OfFile(<<>>, fh) = <<>>
<1>1. <<>> \in Seq(Request) /\ Len(<<>>) = 0
  OBVIOUS
<1> QED BY <1>1, SelectionSteps DEF Selects

LEMMA SelectionOne ==
    ASSUME NEW r \in Request, NEW fh
    PROVE  OfFile(<<r>>, fh) = IF Selected(r, fh) THEN <<r>> ELSE <<>>
<1>1. <<r>> \in Seq(Request) /\ Len(<<r>>) = 1 /\ <<r>>[1] = r /\ Append(<<>>, r) = <<r>>
  OBVIOUS
<1> DEFINE s == <<r>>
<1>2. s \in Seq(Request) /\ Len(s) = 1 /\ s[1] = r /\ Append(<<>>, r) = s
  BY <1>1
<1> HIDE DEF s
<1>3. PICK of : /\ of[0] = <<>> /\ of[1] = IF Selected(r, fh) THEN Append(of[0], r) ELSE of[0]
                /\ OfFile(s, fh) = of[1]
  BY <1>2, SelectionSteps DEF Selects
<1>4. OfFile(s, fh) = IF Selected(r, fh) THEN s ELSE <<>>
  BY <1>2, <1>3
<1> QED BY <1>4 DEF s

-----------------------------------------------------------------------------
(* Nothing gets lost                                                       *)

(* What a summary says of a block: its position in the file, its checksum. *)
Said == Nat \X (Data \cup {NoSum})

LEMMA SummaryType ==
    ASSUME NEW q \in Seq(Request)
    PROVE  Summary(q) \in Seq(Said) /\ Len(Summary(q)) = Len(q)
<1>1. ASSUME NEW i \in 1..Len(q) PROVE <<q[i].fpos, SumOf(q[i].data)>> \in Said
  <2>1. q[i] \in Request
    OBVIOUS
  <2> QED BY <2>1 DEF Request, Said, SumOf
<1> QED BY <1>1 DEF Summary

LEMMA SummaryConcat ==
    ASSUME NEW q \in Seq(Request), NEW p \in Seq(Request)
    PROVE  Summary(q \o p) = Summary(q) \o Summary(p)
<1> DEFINE w == q \o p
<1>1. /\ w \in Seq(Request) /\ Len(w) = Len(q) + Len(p) /\ Len(q) \in Nat /\ Len(p) \in Nat
      /\ \A i \in 1..Len(w) : w[i] = IF i <= Len(q) THEN q[i] ELSE p[i - Len(q)]
  BY ConcatProperties
<1> HIDE DEF w
<1>2. /\ Summary(w) \in Seq(Said) /\ Len(Summary(w)) = Len(q) + Len(p)
      /\ Summary(q) \in Seq(Said) /\ Len(Summary(q)) = Len(q)
      /\ Summary(p) \in Seq(Said) /\ Len(Summary(p)) = Len(p)
  BY <1>1, SummaryType
<1>3. ASSUME NEW i \in 1..Len(w)
      PROVE  Summary(w)[i] = (Summary(q) \o Summary(p))[i]
  <2>1. Summary(w)[i] = <<w[i].fpos, SumOf(w[i].data)>>
    BY DEF Summary
  <2>2. CASE i <= Len(q)
    <3>1. i \in 1..Len(q)
      BY <1>1, <2>2
    <3>2. Summary(q)[i] = <<q[i].fpos, SumOf(q[i].data)>>
      BY <3>1 DEF Summary
    <3>3. (Summary(q) \o Summary(p))[i] = Summary(q)[i]
      BY <1>2, <3>1
    <3> QED BY <1>1, <2>1, <2>2, <3>2, <3>3
  <2>3. CASE ~(i <= Len(q))
    <3>1. i - Len(q) \in 1..Len(p)
      BY <1>1, <2>3
    <3>2. Summary(p)[i - Len(q)] = <<p[i - Len(q)].fpos, SumOf(p[i - Len(q)].data)>>
      BY <3>1 DEF Summary
    <3>3. (Summary(q) \o Summary(p))[i] = Summary(p)[i - Len(q)]
      BY <1>1, <1>2, <2>3, <3>1
    <3> QED BY <1>1, <2>1, <2>3, <3>2, <3>3
  <2> QED BY <2>2, <2>3
<1>4. /\ Summary(q) \o Summary(p) \in Seq(Said)
      /\ Len(Summary(q) \o Summary(p)) = Len(Summary(w))
  BY <1>2
<1>5. Summary(w) = Summary(q) \o Summary(p)
  BY <1>1, <1>2, <1>3, <1>4, SeqEqual
<1> QED BY <1>5 DEF w

LEMMA SummaryOne ==
    ASSUME NEW r \in Request
    PROVE  Summary(<<r>>) = << <<r.fpos, SumOf(r.data)>> >> /\ Summary(<<>>) = <<>>
BY DEF Summary

LEMMA OneMore ==
    ASSUME NEW S, NEW s \in Seq(S), NEW e \in S
    PROVE  s \o <<e>> = [i \in 1..Len(s) + 1 |-> IF i <= Len(s) THEN s[i] ELSE e]
<1>1. s \o <<e>> = Append(s, e) /\ Append(s, e) \in Seq(S) /\ Len(Append(s, e)) = Len(s) + 1
  BY AppendIsConcat, AppendProperties
<1>2. \A i \in 1..Len(s) + 1 : Append(s, e)[i] = IF i <= Len(s) THEN s[i] ELSE e
  BY AppendProperties
<1>3. Append(s, e) = [i \in 1..Len(s) + 1 |-> Append(s, e)[i]]
  <2> DEFINE w == Append(s, e)
  <2>1. w \in Seq(S) /\ Len(w) = Len(s) + 1
    BY <1>1
  <2> HIDE DEF w
  <2>2. w \in [1..Len(w) -> S]
    BY <2>1, LenProperties
  <2>3. w = [i \in 1..Len(s) + 1 |-> w[i]]
    BY <2>1, <2>2
  <2> QED BY <2>3 DEF w
<1> QED BY <1>1, <1>2, <1>3

LEMMA StoredType ==
    ASSUME fblockstore \in BlockLists, NEW g \in FHash
    PROVE  StoredOf(g) \in Seq(Said) /\ Len(StoredOf(g)) = Len(fblockstore[g])
<1>1. fblockstore[g] \in Seq(BlockInfo)
  BY DEF BlockLists
<1>2. ASSUME NEW i \in 1..Len(fblockstore[g])
      PROVE  <<fblockstore[g][i].filepos, fblockstore[g][i].bchecksum>> \in Said
  <2>1. fblockstore[g][i] \in BlockInfo
    BY <1>1
  <2> QED BY <2>1 DEF BlockInfo, Said
<1> QED BY <1>1, <1>2 DEF StoredOf

(* A block information is put at the end of the list of its file.          *)
LEMMA StoredAfterAdd ==
    ASSUME fblockstore \in BlockLists, NEW fh \in FHash, NEW bi \in BlockInfo,
           fblockstore' = Add(fblockstore, fh, bi), NEW g \in FHash
    PROVE  StoredOf(g)' = StoredOf(g) \o (IF g = fh THEN << <<bi.filepos, bi.bchecksum>> >>
                                                    ELSE <<>>)
<1> DEFINE n == Len(fblockstore[g])
           new == Numbered(bi, n + 1)
           was == StoredOf(g)
           say == <<bi.filepos, bi.bchecksum>>
<1>1. fblockstore' = [fblockstore EXCEPT ![fh] = Append(fblockstore[fh],
                                                       Numbered(bi, Len(fblockstore[fh]) + 1))]
  BY DEF Add, BlockLists, Numbered
<1>2. fblockstore[g] \in Seq(BlockInfo) /\ n \in Nat
  BY DEF BlockLists
<1>3. new \in BlockInfo /\ new.filepos = bi.filepos /\ new.bchecksum = bi.bchecksum
  <2>1. n + 1 \in Nat \ {0}
    BY <1>2
  <2>2. new \in BlockInfo
    BY <2>1 DEF Numbered, BlockInfo
  <2>3. new.filepos = bi.filepos /\ new.bchecksum = bi.bchecksum
    BY DEF Numbered, BlockInfo
  <2> QED BY <2>2, <2>3
<1>4. was \in Seq(Said) /\ Len(was) = n /\ say \in Said
  <2>1. say \in Said
    BY DEF BlockInfo, Said
  <2> QED BY <2>1, StoredType
<1>5. CASE g # fh
  <2>1. fblockstore'[g] = fblockstore[g]
    BY <1>1, <1>5 DEF BlockLists
  <2>2. StoredOf(g)' = was
    BY <2>1 DEF StoredOf
  <2> HIDE DEF was
  <2>3. was \o <<>> = was
    BY <1>4, ConcatEmptySeq
  <2> QED BY <1>5, <2>2, <2>3 DEF was
<1>6. CASE g = fh
  <2>1. fblockstore'[g] = Append(fblockstore[g], new)
    BY <1>1, <1>6 DEF BlockLists
  <2> HIDE DEF new
  <2>2. /\ Len(fblockstore'[g]) = n + 1
        /\ \A i \in 1..n + 1 : fblockstore'[g][i] = IF i <= n THEN fblockstore[g][i] ELSE new
    BY <1>2, <1>3, <2>1, AppendProperties
  <2>3. ASSUME NEW i \in 1..n + 1
        PROVE  <<fblockstore'[g][i].filepos, fblockstore'[g][i].bchecksum>>
                  = IF i <= n THEN was[i] ELSE say
    <3>1. CASE i <= n
      <4>1. i \in 1..n
        BY <1>2, <3>1
      <4> QED BY <2>2, <3>1, <4>1 DEF StoredOf
    <3>2. CASE ~(i <= n)
      BY <1>3, <2>2, <3>2
    <3> QED BY <3>1, <3>2
  <2>4. StoredOf(g)' = [i \in 1..n + 1 |-> IF i <= n THEN was[i] ELSE say]
    BY <2>2, <2>3 DEF StoredOf
  <2> HIDE DEF was, say
  <2>5. was \o <<say>> = [i \in 1..n + 1 |-> IF i <= n THEN was[i] ELSE say]
    BY <1>4, OneMore
  <2> QED BY <1>6, <2>4, <2>5 DEF was, say
<1> QED BY <1>5, <1>6

(* A block has the length of the data it has the checksum of, if any.      *)
Measured(bi) ==
    IF bi.blocksize = 0 THEN bi.bchecksum = NoSum
    ELSE bi.bchecksum \in Data /\ bi.blocksize = Size[bi.bchecksum]

(* The lists fbs are numbered from 1, and their blocks measured.           *)
ListsNumbered(fbs) ==
    \A fh \in FHash : \A i \in 1..Len(fbs[fh]) :
        fbs[fh][i].blockid = i /\ Measured(fbs[fh][i])

LEMMA NumberedAfterAdd ==
    ASSUME NEW fbs \in BlockLists, NEW fh \in FHash, NEW bi \in BlockInfo,
           ListsNumbered(fbs), Measured(bi)
    PROVE  ListsNumbered(Add(fbs, fh, bi))
<1> DEFINE n == Len(fbs[fh])
           new == Numbered(bi, n + 1)
           res == Add(fbs, fh, bi)
<1>1. res = [fbs EXCEPT ![fh] = Append(fbs[fh], new)]
  BY DEF Add, BlockLists, Numbered
<1>2. fbs[fh] \in Seq(BlockInfo) /\ n \in Nat /\ n + 1 \in Nat \ {0}
  BY DEF BlockLists
<1>3. new \in BlockInfo /\ new.blockid = n + 1
  BY <1>2 DEF Numbered, BlockInfo
<1>4. Measured(new)
  <2>1. new.blocksize = bi.blocksize /\ new.bchecksum = bi.bchecksum
    BY DEF Numbered, BlockInfo
  <2> HIDE DEF new
  <2> QED BY <2>1 DEF Measured
<1> HIDE DEF new, res
<1>5. ASSUME NEW g \in FHash, NEW i \in 1..Len(res[g])
      PROVE  res[g][i].blockid = i /\ Measured(res[g][i])
  <2>1. CASE g # fh
    <3>1. res[g] = fbs[g]
      BY <1>1, <2>1 DEF BlockLists
    <3> QED BY <3>1 DEF ListsNumbered
  <2>2. CASE g = fh
    <3>1. res[g] = Append(fbs[fh], new)
      BY <1>1, <2>2 DEF BlockLists
    <3>2. Len(res[g]) = n + 1
      BY <1>2, <1>3, <3>1, AppendProperties
    <3>3. CASE i <= n
      <4>1. i \in 1..n /\ res[g][i] = fbs[fh][i]
        BY <1>2, <1>3, <3>1, <3>2, <3>3, AppendProperties
      <4> QED BY <4>1 DEF ListsNumbered
    <3>4. CASE ~(i <= n)
      <4>1. i = n + 1 /\ res[g][i] = new
        BY <1>2, <1>3, <3>1, <3>2, <3>4, AppendProperties
      <4> QED BY <4>1, <1>3, <1>4
    <3> QED BY <3>3, <3>4
  <2> QED BY <2>1, <2>2
<1>6. ListsNumbered(res)
  BY <1>5 DEF ListsNumbered
<1> QED BY <1>6 DEF res

(* backup records the block of the request, or that it is empty.           *)
LEMMA StoreRecords ==
    ASSUME NEW e, e.aid \in Nat, e.apos \in Nat, NEW cs, NEW r \in Request,
           fblockstore \in BlockLists, ListsNumbered(fblockstore), Store(e, cs, r)
    PROVE  /\ \A g \in FHash : StoredOf(g)' = StoredOf(g) \o
                 (IF g = r.fhash THEN << <<r.fpos, SumOf(r.data)>> >> ELSE <<>>)
           /\ ListsNumbered(fblockstore')
<1> DEFINE len  == Size[r.data]
           bi   == [blockid |-> 1, filepos |-> r.fpos, blockaid |-> e.aid,
                    blockapos |-> e.apos, blocksize |-> len, bchecksum |-> r.data]
           none == [blockid |-> 1, filepos |-> r.fpos, blockaid |-> NoAid,
                    blockapos |-> 0, blocksize |-> 0, bchecksum |-> NoSum]
<1>1. /\ len \in Nat /\ r.fpos \in Nat /\ r.data \in Data /\ r.fhash \in FHash
      /\ r.data # NoSum
  BY SizeAssumption, NoSumAssumption DEF Request
<1>2. bi \in BlockInfo /\ none \in BlockInfo
  BY <1>1 DEF BlockInfo, NoAid
<1>3. CASE len = 0
  <2>1. fblockstore' = Add(fblockstore, r.fhash, none)
    BY <1>3 DEF Store
  <2>2. none.filepos = r.fpos /\ none.bchecksum = NoSum /\ Measured(none)
    BY DEF Measured
  <2>3. SumOf(r.data) = NoSum
    BY <1>3 DEF SumOf
  <2> HIDE DEF none, len
  <2> QED BY <1>1, <1>2, <2>1, <2>2, <2>3, StoredAfterAdd, NumberedAfterAdd
<1>4. CASE len # 0
  <2>1. fblockstore' = Add(fblockstore, r.fhash, bi)
    BY <1>4 DEF Store
  <2>2. bi.filepos = r.fpos /\ bi.bchecksum = r.data /\ Measured(bi)
    BY <1>1, <1>4 DEF Measured
  <2>3. SumOf(r.data) = r.data
    BY <1>4 DEF SumOf
  <2> HIDE DEF bi, len
  <2> QED BY <1>1, <1>2, <1>4, <2>1, <2>2, <2>3, StoredAfterAdd, NumberedAfterAdd
<1> QED BY <1>3, <1>4

(* Running a request adds to the lists what it says, if it fits at all.    *)
LEMMA RunRecords ==
    ASSUME WInv, ListsNumbered(fblockstore), RunWriteRequest, writeenv.aid # NoAid
    PROVE  /\ \A g \in FHash :
                 StoredOf(g)' = StoredOf(g) \o Summary(OfFile(<<Head(wbatch)>>, g))
           /\ ListsNumbered(fblockstore')
<1> DEFINE r == Head(wbatch)
           said(g) == IF g = r.fhash THEN << <<r.fpos, SumOf(r.data)>> >> ELSE <<>>
<1>1. /\ r \in Request /\ writeenv # NullEnv /\ fblockstore \in BlockLists
      /\ content \in Seq(Seq(Block)) /\ OpenAt(writeenv, content)
      /\ Size[r.data] \in Nat
  <2>1. r \in Request
    BY DEF WInv, QueueInv, RunWriteRequest
  <2>2. Size[r.data] \in Nat
    BY <2>1, SizeAssumption DEF Request
  <2> QED BY <2>1, <2>2 DEF WInv, QueueInv, ArchiveInv, EnvInv, RunWriteRequest
<1>2. /\ writeenv.aid \in Nat /\ writeenv.apos \in Nat /\ HeaderLen <= writeenv.apos
      /\ HeaderLen \in Nat /\ DataEnd \in Nat /\ Len(content) \in Nat
  BY <1>1, RoomAssumption DEF OpenAt
<1>3. ASSUME NEW g \in FHash, Fits(r)
      PROVE  Summary(OfFile(<<r>>, g)) = said(g)
  BY <1>1, <1>3, SelectionOne, SummaryOne DEF Selected
<1>4. ASSUME NEW g \in FHash, ~Fits(r)
      PROVE  Summary(OfFile(<<r>>, g)) = <<>>
  BY <1>1, <1>4, SelectionOne, SummaryOne DEF Selected
<1>5. CASE WriteToCurrent(r)
  <2>1. Size[r.data] <= AFree(writeenv.apos) /\ Store(writeenv, content, r)
    BY <1>5 DEF WriteToCurrent
  <2>2. Fits(r)
    BY <1>1, <1>2, <2>1 DEF AFree, Fits
  <2> HIDE DEF r
  <2>3. /\ \A g \in FHash : StoredOf(g)' = StoredOf(g) \o said(g)
        /\ ListsNumbered(fblockstore')
    BY <1>1, <1>2, <2>1, StoreRecords
  <2> QED BY <1>3, <2>2, <2>3 DEF r
<1>6. ASSUME NEW out \in Outcome, WriteToNext(r, out)
      PROVE  /\ \A g \in FHash : StoredOf(g)' = StoredOf(g) \o Summary(OfFile(<<r>>, g))
             /\ ListsNumbered(fblockstore')
  <2> DEFINE e == Recreated(FailedAfter(out))
  <2>1. e.aid \in Nat /\ e.apos \in Nat
    BY <1>2 DEF Recreated
  <2>2. CASE Fits(r)
    <3>1. Store(e, WithNewAssembly, r)
      BY <1>6, <2>2 DEF WriteToNext, Fits
    <3> HIDE DEF r, e
    <3>2. /\ \A g \in FHash : StoredOf(g)' = StoredOf(g) \o said(g)
          /\ ListsNumbered(fblockstore')
      BY <1>1, <2>1, <3>1, StoreRecords
    <3> QED BY <1>3, <2>2, <3>2 DEF r
  <2>3. CASE ~Fits(r)
    <3>1. fblockstore' = fblockstore
      BY <1>6, <2>3 DEF WriteToNext, Fits
    <3>2. ASSUME NEW g \in FHash
          PROVE  StoredOf(g)' = StoredOf(g) \o <<>>
      <4>1. StoredOf(g)' = StoredOf(g)
        BY <3>1 DEF StoredOf
      <4>2. StoredOf(g) \in Seq(Said)
        BY <1>1, StoredType
      <4> QED BY <4>1, <4>2, ConcatEmptySeq
    <3> QED BY <1>4, <2>3, <3>1, <3>2
  <2> QED BY <2>2, <2>3
<1>7. CASE WriteRefused
  BY <1>7 DEF WriteRefused
<1> QED BY <1>3, <1>5, <1>6, <1>7 DEF RunWriteRequest

(* What was accepted for a file is what its list says, followed by what    *)
(* the waiting requests q will say.                                        *)
Accounted(fh, q) ==
    StoredOf(fh) \o Summary(OfFile(q, fh)) = Summary(OfFile(accepted[fh], fh))

AccountInv ==
    /\ \A fh \in FHash : Accounted(fh, wbatch \o wqueue)
    /\ ListsNumbered(fblockstore)

(* Without an assembly nothing is written any more.                        *)
UsableInv == ~closed => writeenv = NullEnv \/ writeenv.aid # NoAid

(* A request is put at the end of the queue.                               *)
LEMMA HandedOverAccounts ==
    ASSUME WInv, AccountInv, NEW r \in Request,
           wqueue' = wqueue \o <<r>>, UNCHANGED <<wbatch, fblockstore>>,
           accepted' = [accepted EXCEPT ![r.fhash] = accepted[r.fhash] \o <<r>>]
    PROVE  AccountInv'
<1> DEFINE new == <<r>>
           q == wbatch \o wqueue
<1>1. /\ wqueue \in Seq(Request) /\ wbatch \in Seq(Request)
      /\ accepted \in [FHash -> Seq(Request)] /\ fblockstore \in BlockLists
      /\ new \in Seq(Request) /\ q \in Seq(Request)
  BY DEF WInv, QueueInv, ArchiveInv
<1> HIDE DEF new
<1>2. accepted' = [accepted EXCEPT ![r.fhash] = accepted[r.fhash] \o new] /\ wqueue' = wqueue \o new
  BY DEF new
<1>3. (wbatch \o wqueue)' = q \o new
  <2>1. (wbatch \o wqueue) \o new = wbatch \o (wqueue \o new)
    BY <1>1, ConcatAssociative
  <2> QED BY <1>2, <2>1
<1> HIDE DEF q
<1>4. ASSUME NEW g \in FHash
      PROVE  Accounted(g, wbatch \o wqueue)'
  <2> DEFINE one   == OfFile(new, g)
             waits == OfFile(q, g)
             took  == OfFile(accepted[g], g)
             lists == StoredOf(g)
  <2>1. /\ one \in Seq(Request) /\ waits \in Seq(Request) /\ took \in Seq(Request)
        /\ lists \in Seq(Said)
    BY <1>1, SelectionType, StoredType
  <2>2. StoredOf(g)' = lists
    BY DEF StoredOf
  <2>3. lists \o Summary(waits) = Summary(took)
    BY DEF AccountInv, Accounted, q
  <2>4. OfFile((wbatch \o wqueue)', g) = waits \o one
    <3>1. OfFile(q \o new, g) = waits \o one
      BY <1>1, SelectionConcat, SMTT(30)
    <3> QED BY <1>3, <3>1
  <2>5. OfFile(accepted'[g], g) = took \o one
    <3>1. CASE g = r.fhash
      <4> DEFINE had == accepted[g]
      <4>1. had \in Seq(Request) /\ accepted'[g] = had \o new
        BY <1>1, <1>2, <3>1
      <4> HIDE DEF had
      <4>2. OfFile(had \o new, g) = OfFile(had, g) \o OfFile(new, g)
        BY <1>1, <4>1, SelectionConcat
      <4> QED BY <4>1, <4>2 DEF had
    <3>2. CASE g # r.fhash
      <4>1. accepted'[g] = accepted[g]
        BY <1>1, <1>2, <3>2
      <4>2. one = <<>>
        BY <3>2, SelectionOne DEF Selected, new
      <4> HIDE DEF took
      <4>3. took \o one = took
        BY <2>1, <4>2, ConcatEmptySeq
      <4> QED BY <4>1, <4>3 DEF took
    <3> QED BY <3>1, <3>2
  <2> HIDE DEF one, waits, took, lists
  <2>6. /\ Summary(one) \in Seq(Said) /\ Summary(waits) \in Seq(Said)
        /\ Summary(waits \o one) = Summary(waits) \o Summary(one)
        /\ Summary(took \o one) = Summary(took) \o Summary(one)
    BY <2>1, SummaryType, SummaryConcat
  <2>7. lists \o (Summary(waits) \o Summary(one)) = (lists \o Summary(waits)) \o Summary(one)
    <3> DEFINE sw == Summary(waits)
               so == Summary(one)
    <3>1. lists \in Seq(Said) /\ sw \in Seq(Said) /\ so \in Seq(Said)
      BY <2>1, <2>6
    <3> HIDE DEF sw, so
    <3>2. (lists \o sw) \o so = lists \o (sw \o so)
      BY <3>1, ConcatAssociative
    <3> QED BY <3>2 DEF sw, so
  <2>8. StoredOf(g)' \o Summary(OfFile((wbatch \o wqueue)', g)) = Summary(OfFile(accepted'[g], g))
    BY <2>2, <2>3, <2>4, <2>5, <2>6, <2>7
  <2> QED BY <2>8 DEF Accounted
<1> QED BY <1>4 DEF AccountInv

LEMMA EnqueueAccounts ==
    ASSUME WInv, AccountInv, NEW r \in Request, EnqueueWrite(r)
    PROVE  AccountInv'
<1>1. /\ wqueue' = Append(wqueue, r) /\ UNCHANGED <<wbatch, fblockstore>>
      /\ accepted' = [accepted EXCEPT ![r.fhash] = Append(@, r)]
  BY DEF EnqueueWrite, archiveVars
<1>2. /\ wqueue \in Seq(Request) /\ accepted \in [FHash -> Seq(Request)] /\ r.fhash \in FHash
  BY DEF WInv, QueueInv, Request
<1>3. Append(wqueue, r) = wqueue \o <<r>>
  BY <1>2, AppendIsConcat
<1>4. Append(accepted[r.fhash], r) = accepted[r.fhash] \o <<r>>
  <2> DEFINE had == accepted[r.fhash]
  <2>1. had \in Seq(Request)
    BY <1>2
  <2> HIDE DEF had
  <2>2. Append(had, r) = had \o <<r>>
    BY <2>1, AppendIsConcat
  <2> QED BY <2>2 DEF had
<1> QED BY <1>1, <1>3, <1>4, HandedOverAccounts

LEMMA IterateAccounts ==
    ASSUME WInv, AccountInv, IterateWriteQueue
    PROVE  AccountInv'
<1>1. /\ wbatch = <<>> /\ wbatch' = wqueue /\ wqueue' = <<>>
      /\ accepted' = accepted /\ fblockstore' = fblockstore
  BY DEF IterateWriteQueue, WIdle
<1>2. wqueue \in Seq(Request)
  BY DEF WInv, QueueInv
<1>3. wbatch \o wqueue = wqueue /\ (wbatch \o wqueue)' = wqueue
  BY <1>1, <1>2, ConcatEmptySeq
<1>4. ASSUME NEW g \in FHash PROVE Accounted(g, wbatch \o wqueue)'
  BY <1>1, <1>3 DEF AccountInv, Accounted, StoredOf
<1> QED BY <1>1, <1>4 DEF AccountInv

LEMMA RunAccounts ==
    ASSUME WInv, AccountInv, RunWriteRequest, writeenv.aid # NoAid
    PROVE  AccountInv'
<1> DEFINE r    == Head(wbatch)
           rest == Tail(wbatch) \o wqueue
<1>1. /\ wbatch # <<>> /\ wbatch' = Tail(wbatch) /\ wqueue' = wqueue /\ accepted' = accepted
  BY DEF RunWriteRequest
<1>2. /\ wbatch \in Seq(Request) /\ wqueue \in Seq(Request) /\ r \in Request
      /\ Tail(wbatch) \in Seq(Request) /\ rest \in Seq(Request) /\ <<r>> \in Seq(Request)
      /\ accepted \in [FHash -> Seq(Request)] /\ fblockstore \in BlockLists
  BY <1>1 DEF WInv, QueueInv, ArchiveInv
<1>3. wbatch \o wqueue = <<r>> \o rest
  <2>1. wbatch = <<r>> \o Tail(wbatch)
    BY <1>1, <1>2
  <2> HIDE DEF r
  <2>2. (<<r>> \o Tail(wbatch)) \o wqueue = <<r>> \o (Tail(wbatch) \o wqueue)
    BY <1>2, ConcatAssociative
  <2> QED BY <2>1, <2>2
<1>4. (wbatch \o wqueue)' = rest
  BY <1>1
<1> HIDE DEF r, rest
<1>5. /\ \A g \in FHash : StoredOf(g)' = StoredOf(g) \o Summary(OfFile(<<r>>, g))
      /\ ListsNumbered(fblockstore')
  BY RunRecords DEF AccountInv, r
<1>6. ASSUME NEW g \in FHash
      PROVE  Accounted(g, wbatch \o wqueue)'
  <2> DEFINE one   == OfFile(<<r>>, g)
             waits == OfFile(rest, g)
             lists == StoredOf(g)
  <2>1. one \in Seq(Request) /\ waits \in Seq(Request) /\ lists \in Seq(Said)
    BY <1>2, SelectionType, StoredType
  <2>2. lists \o Summary(OfFile(<<r>> \o rest, g)) = Summary(OfFile(accepted[g], g))
    BY <1>3 DEF AccountInv, Accounted
  <2>3. OfFile(<<r>> \o rest, g) = one \o waits
    BY <1>2, SelectionConcat, ZenonT(30)
  <2>4. StoredOf(g)' = lists \o Summary(one)
    BY <1>5
  <2> HIDE DEF one, waits, lists
  <2>5. /\ Summary(one) \in Seq(Said) /\ Summary(waits) \in Seq(Said)
        /\ Summary(one \o waits) = Summary(one) \o Summary(waits)
    BY <2>1, SummaryType, SummaryConcat
  <2>6. (lists \o Summary(one)) \o Summary(waits) = lists \o (Summary(one) \o Summary(waits))
    BY <2>1, <2>5, ConcatAssociative
  <2>7. StoredOf(g)' \o Summary(waits) = Summary(OfFile(accepted[g], g))
    BY <2>2, <2>3, <2>4, <2>5, <2>6
  <2> QED BY <1>1, <1>4, <2>7 DEF Accounted, waits
<1> QED BY <1>5, <1>6 DEF AccountInv

(* Neither flush nor close touches the queue or the lists.                 *)
LEMMA QuietAccounts ==
    ASSUME AccountInv, UNCHANGED <<wbatch, wqueue, accepted, fblockstore>>
    PROVE  AccountInv'
<1>1. ASSUME NEW g \in FHash PROVE Accounted(g, wbatch \o wqueue)'
  BY DEF AccountInv, Accounted, StoredOf
<1> QED BY <1>1 DEF AccountInv

LostInv == UsableInv /\ (~closed => AccountInv)

(* Storing a block leaves the assembly that is written to the same.        *)
LEMMA StoreStays ==
    ASSUME NEW e, NEW cs, NEW r, e \in [aid : Nat, apos : Nat, n_failed : Nat], Store(e, cs, r)
    PROVE  writeenv'.aid = e.aid
BY DEF Store

LEMMA UsableKept ==
    ASSUME WInv, UsableInv,
           \/ \E r \in Request : EnqueueWrite(r)
           \/ IterateWriteQueue \/ RunWriteRequest
           \/ \E out \in Outcome : Flush(out) \/ Close(out)
    PROVE  UsableInv'
<1>1. \A n : Recreated(n).aid # NoAid
  <2>1. Len(content) \in Nat
    BY DEF WInv, ArchiveInv
  <2> QED BY <2>1 DEF Recreated, NoAid
<1>2. CASE \E r \in Request : EnqueueWrite(r)
  BY <1>2 DEF EnqueueWrite, UsableInv
<1>3. CASE IterateWriteQueue
  BY <1>1, <1>3 DEF IterateWriteQueue, UsableInv
<1>4. CASE RunWriteRequest
  <2> DEFINE r == Head(wbatch)
  <2>1. closed' = closed /\ writeenv # NullEnv /\ OpenAt(writeenv, content)
        /\ writeenv \in [aid : Nat, apos : Nat, n_failed : Nat]
    BY <1>4 DEF RunWriteRequest, WInv, QueueInv, EnvInv, OpenAt
  <2>2. CASE WriteToCurrent(r)
    <3>1. Store(writeenv, content, r) /\ writeenv.aid # NoAid
      BY <2>2 DEF WriteToCurrent
    <3> QED BY <2>1, <3>1, StoreStays DEF UsableInv
  <2>3. ASSUME NEW out \in Outcome, WriteToNext(r, out) PROVE UsableInv'
    <3> DEFINE e == Recreated(FailedAfter(out))
    <3>1. FailedAfter(out) \in Nat /\ Len(content) + 1 \in Nat
      BY <2>1 DEF FailedAfter, WInv, ArchiveInv
    <3>2. e \in [aid : Nat, apos : Nat, n_failed : Nat] /\ e.aid # NoAid
      BY <1>1, <3>1, RoomAssumption DEF Recreated
    <3>3. Store(e, WithNewAssembly, r) \/ writeenv' = e
      BY <2>3 DEF WriteToNext
    <3> HIDE DEF e
    <3> QED BY <3>2, <3>3, StoreStays DEF UsableInv
  <2>4. CASE WriteRefused
    BY <2>1, <2>4 DEF WriteRefused, UsableInv
  <2> QED BY <1>4, <2>2, <2>3, <2>4 DEF RunWriteRequest
<1>5. ASSUME NEW out \in Outcome, Flush(out) PROVE UsableInv'
  BY <1>1, <1>5 DEF Flush, UsableInv
<1>6. ASSUME NEW out \in Outcome, Close(out) PROVE UsableInv'
  BY <1>6 DEF Close, UsableInv
<1> QED BY <1>2, <1>3, <1>4, <1>5, <1>6

LEMMA LostInvKept ==
    ASSUME WInv, LostInv,
           \/ \E r \in Request : EnqueueWrite(r)
           \/ IterateWriteQueue \/ RunWriteRequest
           \/ \E out \in Outcome : Flush(out) \/ Close(out)
    PROVE  LostInv'
<1>1. UsableInv'
  BY UsableKept DEF LostInv
<1>2. CASE \E r \in Request : EnqueueWrite(r)
  <2>1. closed' = closed
    BY <1>2 DEF EnqueueWrite
  <2> QED BY <1>1, <1>2, <2>1, EnqueueAccounts DEF LostInv
<1>3. CASE IterateWriteQueue
  <2>1. closed' = closed
    BY <1>3 DEF IterateWriteQueue
  <2> QED BY <1>1, <1>3, <2>1, IterateAccounts DEF LostInv
<1>4. CASE RunWriteRequest
  <2>1. closed' = closed /\ writeenv # NullEnv
    BY <1>4 DEF RunWriteRequest, WInv, QueueInv
  <2> QED BY <1>1, <1>4, <2>1, RunAccounts DEF LostInv, UsableInv
<1>5. ASSUME NEW out \in Outcome, Flush(out) PROVE LostInv'
  <2>1. UNCHANGED <<wbatch, wqueue, accepted, fblockstore, closed>>
    BY <1>5 DEF Flush
  <2> QED BY <1>1, <2>1, QuietAccounts DEF LostInv
<1>6. ASSUME NEW out \in Outcome, Close(out) PROVE LostInv'
  <2>1. closed' = TRUE
    BY <1>6 DEF Close
  <2> QED BY <1>1, <2>1 DEF LostInv
<1> QED BY <1>2, <1>3, <1>4, <1>5, <1>6

LEMMA WInitLost == WInit => LostInv
<1> SUFFICES ASSUME WInit PROVE UsableInv /\ AccountInv
  BY DEF LostInv
<1>1. UsableInv
  BY DEF WInit, UsableInv
<1>2. ASSUME NEW g \in FHash PROVE Accounted(g, wbatch \o wqueue)
  <2>1. wbatch \o wqueue = <<>> /\ accepted[g] = <<>> /\ fblockstore[g] = <<>>
    BY DEF WInit
  <2>2. StoredOf(g) = <<>>
    BY <2>1 DEF StoredOf
  <2>3. Summary(<<>>) = <<>> /\ <<>> \o <<>> = <<>>
    BY DEF Summary
  <2> QED BY <2>1, <2>2, <2>3, SelectionEmpty DEF Accounted
<1>3. ListsNumbered(fblockstore)
  BY DEF WInit, ListsNumbered
<1> QED BY <1>1, <1>2, <1>3 DEF AccountInv

LEMMA WNextLost == WInv /\ LostInv /\ [WNext]_writeVars => LostInv'
<1> SUFFICES ASSUME WInv, LostInv, [WNext]_writeVars PROVE LostInv'
  OBVIOUS
<1>1. ASSUME NEW fh \in FHash, NEW d \in Data,
             EnqueueWrite([fhash |-> fh, fpos |-> Len(accepted[fh]), data |-> d])
      PROVE  LostInv'
  <2>1. [fhash |-> fh, fpos |-> Len(accepted[fh]), data |-> d] \in Request
    BY DEF WInv, QueueInv, Request
  <2> QED BY <1>1, <2>1, LostInvKept
<1>2. CASE UNCHANGED writeVars
  <2>1. UNCHANGED <<wbatch, wqueue, accepted, fblockstore, closed, writeenv>>
    BY <1>2 DEF writeVars, pathVars, archiveVars
  <2> QED BY <2>1, QuietAccounts DEF LostInv, UsableInv
<1> QED BY <1>1, <1>2, LostInvKept DEF WNext

LEMMA LostInvSays == LostInv => NothingLost
BY DEF LostInv, AccountInv, Accounted, ListsNumbered, NothingLost

(* Unless the cache was closed, what was accepted for a file is in its     *)
(* block list or still waits, in the order in which it was accepted        *)
(* (enqueue_write_request, iterate_write_queue, run_write_requests).       *)
THEOREM NothingGetsLost == WSpec => []NothingLost
<1>1. WInit => LostInv
  BY WInitLost
<1>2. WInv /\ LostInv /\ [WNext]_writeVars => LostInv'
  BY WNextLost
<1>3. LostInv => NothingLost
  BY LostInvSays
<1> QED BY <1>1, <1>2, <1>3, WInvariance, PTL DEF WSpec
=============================================================================
