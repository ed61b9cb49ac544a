---------------------------- MODULE ReadPathProofs ----------------------------
(***************************************************************************)
(* Theorems about ReadPath, for every archive that the writing half can    *)
(* leave behind, every depth of the queue and number of environments.      *)
(***************************************************************************)
EXTENDS ReadPath, SequenceTheorems, TLAPS

(* The inductive invariant.  ReadBack needs the archive to be what the     *)
(* stores say, RTypeOK needs restorable assemblies to exist.               *)
IInv == ArchiveTypeOK /\ BlocksLocatable /\ RTypeOK /\ AnsweredInOrder /\ ReadBack

Answer == [request : BlockInfo, data : Data \cup {NoData}]

(* What no step but the loss of a chunk changes.                           *)
Kept == UNCHANGED <<content, keystore, badkeys, fblockstore>> /\ intact' \subseteq intact

-----------------------------------------------------------------------------
(* The archive: only chunks get lost.                                      *)

LEMMA ArchiveStays ==
    ASSUME ArchiveTypeOK, BlocksLocatable, Kept
    PROVE  /\ ArchiveTypeOK' /\ BlocksLocatable'
           /\ Aids' = Aids /\ Stored' = Stored
           /\ \A a : CanRestore(a)' => CanRestore(a)
<1> USE DEF Kept
<1>1. ArchiveTypeOK' /\ Aids' = Aids
  BY DEF ArchiveTypeOK, Aids
<1>2. BlocksLocatable'
  BY <1>1 DEF BlocksLocatable, Describes
<1>3. Stored' = Stored
  BY DEF Stored
<1>4. \A a : CanRestore(a)' => CanRestore(a)
  BY DEF CanRestore
<1> QED BY <1>1, <1>2, <1>3, <1>4

LEMMA StoredTyped ==
    ASSUME ArchiveTypeOK
    PROVE  Stored \subseteq BlockInfo /\ Tampered \subseteq BlockInfo
<1>1. Stored \subseteq BlockInfo
  <2> SUFFICES ASSUME NEW fh \in FHash, NEW i \in 1..Len(fblockstore[fh])
               PROVE  fblockstore[fh][i] \in BlockInfo
    BY DEF Stored
  <2>1. fblockstore[fh] \in Seq(BlockInfo)
    BY DEF ArchiveTypeOK
  <2> QED BY <2>1, ElementOfSeq
<1>2. ASSUME NEW bi \in BlockInfo, NEW d \in Data
      PROVE  [bi EXCEPT !.bchecksum = d] \in BlockInfo
  BY DEF BlockInfo
<1> QED BY <1>1, <1>2 DEF Tampered

(* A block of an assembly that is there: what Restore makes of it.         *)
LEMMA RestoreFacts ==
    ASSUME ArchiveTypeOK, BlocksLocatable, NEW a \in Aids, NEW bi \in BlockInfo,
           bi.blockaid = a
    PROVE  /\ Restore(a, bi) \in Data \cup {NoData}
           /\ Restore(a, bi) \in {bi.bchecksum, NoData}
           /\ bi \in Stored /\ bi.blocksize > 0 => Restore(a, bi) = bi.bchecksum
<1>1. ASSUME NEW i \in 1..Len(content[a]), Describes(bi, content[a][i])
      PROVE  bi.bchecksum \in Data
  <2>1. content[a] \in Seq(Block)
    BY ElementOfSeq DEF ArchiveTypeOK, Aids
  <2>2. content[a][i] \in Block
    BY <2>1, ElementOfSeq
  <2> QED BY <1>1, <2>2 DEF Block, Describes
<1>2. ASSUME bi \in Stored, bi.blocksize > 0
      PROVE  \E i \in 1..Len(content[a]) : Describes(bi, content[a][i])
  <2>1. PICK fh \in FHash : \E i \in 1..Len(fblockstore[fh]) : bi = fblockstore[fh][i]
    BY <1>2 DEF Stored
  <2> QED BY <1>2, <2>1 DEF BlocksLocatable
<1> QED BY <1>1, <1>2 DEF Restore

-----------------------------------------------------------------------------
(* The environments                                                        *)

EnvsOK(envs) ==
    /\ envs \in Seq(Aids)
    /\ Len(envs) <= EnvRoom
    /\ \A i, j \in 1..Len(envs) : envs[i] = envs[j] => i = j

LEMMA PrefixFacts ==
    ASSUME NEW S, NEW s \in Seq(S), NEW n \in 0..Len(s)
    PROVE  /\ SubSeq(s, 1, n) \in Seq(S) /\ Len(SubSeq(s, 1, n)) = n
           /\ \A i \in 1..n : SubSeq(s, 1, n)[i] = s[i]
<1>1. \A i \in 1..n : s[i] \in S
  BY ElementOfSeq
<1>2. n \in Int /\ 1 \in Int
  OBVIOUS
<1>3. /\ SubSeq(s, 1, n) \in Seq(S)
      /\ Len(SubSeq(s, 1, n)) = IF 1 <= n THEN n-1+1 ELSE 0
      /\ \A i \in 1..n-1+1 : SubSeq(s, 1, n)[i] = s[1+i-1]
  BY <1>1, <1>2, SubSeqProperties
<1> QED BY <1>3

LEMMA SuffixFacts ==
    ASSUME NEW S, NEW s \in Seq(S), NEW m \in 1..Len(s)+1
    PROVE  /\ SubSeq(s, m, Len(s)) \in Seq(S)
           /\ Len(SubSeq(s, m, Len(s))) = Len(s) - m + 1
           /\ \A i \in 1..Len(s)-m+1 : SubSeq(s, m, Len(s))[i] = s[m+i-1]
<1>1. \A i \in m..Len(s) : s[i] \in S
  BY ElementOfSeq
<1>2. Len(s) \in Int /\ m \in Int
  BY LenProperties
<1>3. /\ SubSeq(s, m, Len(s)) \in Seq(S)
      /\ Len(SubSeq(s, m, Len(s))) = IF m <= Len(s) THEN Len(s)-m+1 ELSE 0
      /\ \A i \in 1..Len(s)-m+1 : SubSeq(s, m, Len(s))[i] = s[m+i-1]
  BY <1>1, <1>2, SubSeqProperties
<1> QED BY <1>2, <1>3

LEMMA FrontFacts ==
    ASSUME NEW S, NEW e \in S, NEW s \in Seq(S)
    PROVE  /\ <<e>> \o s \in Seq(S) /\ Len(<<e>> \o s) = Len(s) + 1
           /\ <<e>> \o s # <<>>
           /\ (<<e>> \o s)[1] = e
           /\ \A i \in 1..Len(s) : (<<e>> \o s)[i+1] = s[i]
           /\ SubSeq(<<e>> \o s, 2, Len(<<e>> \o s)) = s
<1> DEFINE t == <<e>> \o s
<1>1. <<e>> \in Seq(S) /\ Len(<<e>>) = 1 /\ <<e>>[1] = e /\ Len(s) \in Nat
  BY LenProperties
<1>2. /\ t \in Seq(S) /\ Len(t) = Len(<<e>>) + Len(s)
      /\ \A i \in 1..Len(<<e>>) + Len(s) :
            t[i] = IF i <= Len(<<e>>) THEN <<e>>[i] ELSE s[i - Len(<<e>>)]
  BY <1>1, ConcatProperties
<1>3. \A i \in 1..Len(s)+1 : t[i] = IF i = 1 THEN e ELSE s[i-1]
  BY <1>1, <1>2
<1>4. Len(t) = Len(s)+1 /\ t # <<>>
  BY <1>1, <1>2
<1>5. \A i \in 1..Len(s) : t[i+1] = s[i]
  BY <1>1, <1>3
<1>6. t[1] = e
  BY <1>1, <1>3
<1> HIDE DEF t
<1>7. SubSeq(t, 2, Len(t)) = s
  <2>1. 2 \in 1..Len(t)+1
    BY <1>1, <1>4
  <2>2. /\ SubSeq(t, 2, Len(t)) \in Seq(S)
        /\ Len(SubSeq(t, 2, Len(t))) = Len(t) - 2 + 1
        /\ \A i \in 1..Len(t)-2+1 : SubSeq(t, 2, Len(t))[i] = t[2+i-1]
    BY <1>2, <2>1, SuffixFacts
  <2>3. \A i \in 1..Len(s) : SubSeq(t, 2, Len(t))[i] = s[i]
    BY <1>1, <1>4, <1>5, <2>2
  <2>4. Len(SubSeq(t, 2, Len(t))) = Len(s)
    BY <1>1, <1>4, <2>2
  <2> QED BY <2>2, <2>3, <2>4, SeqEqual
<1> QED BY <1>2, <1>4, <1>5, <1>6, <1>7 DEF t

(* Assembly a comes to the front, and the others follow in the order in    *)
(* which they were.                                                        *)
ToFront(a, old, new) ==
    /\ new[1] = a
    /\ \A i, j \in 2..Len(new) : i < j =>
          \E k, l \in 1..Len(old) : k < l /\ new[i] = old[k] /\ new[j] = old[l]

(* The environments from the front when entry n moves there.               *)
LEMMA HitKeeps ==
    ASSUME NEW a \in Aids, EnvsOK(readenvs), Hit(a)
    PROVE  /\ EnvsOK(readenvs')
           /\ ToFront(a, readenvs, readenvs')
           /\ \A i \in 1..Len(readenvs) : \E j \in 1..Len(readenvs') : readenvs'[j] = readenvs[i]
           /\ \A j \in 1..Len(readenvs') : \E i \in 1..Len(readenvs) : readenvs'[j] = readenvs[i]
<1>1. PICK n \in 1..Len(readenvs) :
          /\ readenvs[n] = a
          /\ readenvs' = <<a>> \o SubSeq(readenvs, 1, n-1) \o SubSeq(readenvs, n+1, Len(readenvs))
  BY DEF Hit
<1> DEFINE len   == Len(readenvs)
           low   == SubSeq(readenvs, 1, n-1)
           high  == SubSeq(readenvs, n+1, len)
           first == <<a>> \o low
           new   == first \o high
<1>2. readenvs \in Seq(Aids) /\ len \in Nat /\ n-1 \in 0..len /\ n+1 \in 1..len+1
  BY LenProperties DEF EnvsOK
<1>3. low \in Seq(Aids) /\ Len(low) = n-1 /\ \A i \in 1..n-1 : low[i] = readenvs[i]
  BY <1>2, PrefixFacts
<1>4. /\ high \in Seq(Aids) /\ Len(high) = len - (n+1) + 1
      /\ \A i \in 1..len-(n+1)+1 : high[i] = readenvs[n+1+i-1]
  BY <1>2, SuffixFacts
<1>5. /\ first \in Seq(Aids) /\ Len(first) = Len(low) + 1
      /\ first[1] = a /\ \A i \in 1..Len(low) : first[i+1] = low[i]
  BY <1>3, FrontFacts
<1> HIDE DEF low, high, first
<1>6. /\ new \in Seq(Aids) /\ Len(new) = Len(first) + Len(high)
      /\ \A i \in 1..Len(first) + Len(high) :
            new[i] = IF i <= Len(first) THEN first[i] ELSE high[i - Len(first)]
  BY <1>4, <1>5, ConcatProperties
<1>7. Len(first) = n /\ Len(high) = len - n /\ Len(new) = len
  BY <1>2, <1>3, <1>4, <1>5, <1>6
<1> HIDE DEF new
<1>8. new[1] = a
  BY <1>2, <1>5, <1>6, <1>7
<1>9. ASSUME NEW i \in 1..n-1 PROVE new[i+1] = readenvs[i]
  <2>1. i+1 \in 1..Len(first) + Len(high) /\ i+1 <= Len(first) /\ i \in 1..Len(low)
    BY <1>2, <1>3, <1>7
  <2>2. new[i+1] = first[i+1]
    BY <1>6, <2>1
  <2> QED BY <1>3, <1>5, <2>1, <2>2
<1>10. ASSUME NEW i \in n+1..len PROVE new[i] = readenvs[i]
  <2>1. /\ i \in 1..Len(first) + Len(high) /\ ~(i <= Len(first))
        /\ i - n \in 1..len-(n+1)+1 /\ n+1+(i-n)-1 = i
    BY <1>2, <1>7
  <2>2. new[i] = high[i - n]
    BY <1>6, <1>7, <2>1
  <2>3. high[i - n] = readenvs[n+1+(i-n)-1]
    BY <1>4, <2>1
  <2> QED BY <2>1, <2>2, <2>3
<1>11. ASSUME NEW i \in 1..len PROVE \E j \in 1..len : new[j] = readenvs[i]
  <2>1. CASE i < n
    <3>1. i+1 \in 1..len /\ i \in 1..n-1
      BY <2>1, <1>2
    <3> QED BY <3>1, <1>9
  <2>2. CASE i = n
    <3>1. 1 \in 1..len
      BY <1>2
    <3> QED BY <3>1, <2>2, <1>1, <1>8
  <2>3. CASE i > n
    <3>1. i \in n+1..len
      BY <2>3, <1>2
    <3> QED BY <3>1, <1>10
  <2> QED BY <2>1, <2>2, <2>3, <1>2
<1> DEFINE was(k) == IF k = 1 THEN n ELSE IF k <= n THEN k-1 ELSE k
<1>12. ASSUME NEW k \in 1..len PROVE was(k) \in 1..len /\ new[k] = readenvs[was(k)]
  <2>1. CASE k = 1
    BY <2>1, <1>1, <1>2, <1>8
  <2>2. CASE k # 1 /\ k <= n
    <3>1. k-1 \in 1..n-1 /\ k-1+1 = k /\ k-1 \in 1..len
      BY <2>2, <1>2
    <3>2. new[k-1+1] = readenvs[k-1]
      BY <3>1, <1>9
    <3> QED BY <2>2, <3>1, <3>2
  <2>3. CASE k # 1 /\ ~(k <= n)
    <3>1. k \in n+1..len
      BY <2>3, <1>2
    <3> QED BY <2>3, <3>1, <1>10
  <2> QED BY <2>1, <2>2, <2>3
<1>13. ASSUME NEW i \in 1..len, NEW j \in 1..len, new[i] = new[j] PROVE i = j
  <2>1. was(i) \in 1..len /\ was(j) \in 1..len /\ readenvs[was(i)] = readenvs[was(j)]
    BY <1>12, <1>13
  <2> HIDE DEF was
  <2>2. was(i) = was(j)
    BY <2>1 DEF EnvsOK
  <2> QED BY <2>2, <1>2 DEF was
<1>14. \A j \in 1..len : \E i \in 1..len : new[j] = readenvs[i]
  <2> HIDE DEF was
  <2> QED BY <1>12
<1>15. readenvs' = new
  BY <1>1 DEF new, first, low, high
<1>16. ToFront(a, readenvs, new)
  <2> SUFFICES ASSUME NEW i \in 2..len, NEW j \in 2..len, i < j
               PROVE  \E k, l \in 1..len : k < l /\ new[i] = readenvs[k] /\ new[j] = readenvs[l]
    BY <1>6, <1>7, <1>8, SMTT(30) DEF ToFront
  <2>1. /\ was(i) \in 1..len /\ new[i] = readenvs[was(i)]
        /\ was(j) \in 1..len /\ new[j] = readenvs[was(j)]
    <3>1. i \in 1..len /\ j \in 1..len
      BY <1>2
    <3> HIDE DEF was
    <3> QED BY <3>1, <1>12
  <2>2. was(i) < was(j)
    BY <1>2
  <2> HIDE DEF was
  <2> QED BY <2>1, <2>2
<1> QED BY <1>6, <1>7, <1>11, <1>13, <1>14, <1>15, <1>16 DEF EnvsOK

(* The environments after a miss: the new one, and the others but the one  *)
(* that gives way.                                                         *)
LEMMA MissKeeps ==
    ASSUME NEW a \in Aids, EnvsOK(readenvs), Miss(a)
    PROVE  /\ EnvsOK(readenvs')
           /\ ToFront(a, readenvs, readenvs')
           /\ \A j \in 1..Len(readenvs') :
                 readenvs'[j] = a \/ \E i \in 1..Len(readenvs) : readenvs'[j] = readenvs[i]
           /\ \/ \A i \in 1..Len(readenvs) : \E j \in 1..Len(readenvs') :
                    readenvs'[j] = readenvs[i]
              \/ /\ Len(readenvs) >= NReadEnvs
                 /\ \A i \in 1..Len(readenvs)-1 : \E j \in 1..Len(readenvs') :
                       readenvs'[j] = readenvs[i]
<1> DEFINE len  == Len(readenvs)
           full == len >= NReadEnvs /\ readenvs # <<>>
           rest == IF full THEN SubSeq(readenvs, 1, len-1) ELSE readenvs
           new  == <<a>> \o rest
<1>1. /\ readenvs \in Seq(Aids) /\ len \in Nat
      /\ \A i \in 1..len : readenvs[i] # a
  BY LenProperties DEF EnvsOK, Miss, Cached
<1>2. full => len > 0
  BY <1>1, EmptySeq
<1>3. /\ rest \in Seq(Aids) /\ Len(rest) = IF full THEN len-1 ELSE len
      /\ \A i \in 1..Len(rest) : i \in 1..len /\ rest[i] = readenvs[i]
  <2>1. CASE full
    <3>1. len-1 \in 0..len
      BY <2>1, <1>1, <1>2
    <3>2. /\ SubSeq(readenvs, 1, len-1) \in Seq(Aids)
          /\ Len(SubSeq(readenvs, 1, len-1)) = len-1
          /\ \A i \in 1..len-1 : SubSeq(readenvs, 1, len-1)[i] = readenvs[i]
      BY <3>1, <1>1, PrefixFacts
    <3> QED BY <2>1, <3>1, <3>2
  <2>2. CASE ~full
    BY <2>2, <1>1
  <2> QED BY <2>1, <2>2
<1>4. readenvs' = new
  BY DEF Miss
<1>5. Len(rest) + 1 <= EnvRoom
  BY <1>1, <1>2, <1>3, EmptySeq, ReadQueueAssumption DEF EnvRoom, EnvsOK
<1> HIDE DEF rest
<1>6. /\ new \in Seq(Aids) /\ Len(new) = Len(rest) + 1 /\ new[1] = a
      /\ \A i \in 1..Len(rest) : new[i+1] = rest[i]
  BY <1>3, FrontFacts
<1> HIDE DEF new
<1>7. ASSUME NEW i \in 1..Len(rest)
      PROVE  i+1 \in 1..Len(new) /\ new[i+1] = readenvs[i] /\ readenvs[i] # a
  BY <1>1, <1>3, <1>6
<1>8. ASSUME NEW k \in 1..Len(new), k # 1
      PROVE  k-1 \in 1..len /\ new[k] = readenvs[k-1] /\ new[k] # a
  <2>1. Len(rest) \in Nat
    BY <1>3, LenProperties
  <2>2. k-1 \in 1..Len(rest) /\ k-1+1 = k
    BY <2>1, <1>6, <1>8
  <2> QED BY <2>2, <1>3, <1>7
<1>9. EnvsOK(new)
  <2>1. ASSUME NEW i \in 1..Len(new), NEW j \in 1..Len(new), new[i] = new[j] PROVE i = j
    <3>1. CASE i = 1
      BY <3>1, <2>1, <1>6, <1>8
    <3>2. CASE j = 1
      BY <3>2, <2>1, <1>6, <1>8
    <3>3. CASE i # 1 /\ j # 1
      <4>1. i-1 \in 1..len /\ j-1 \in 1..len /\ readenvs[i-1] = readenvs[j-1]
        BY <3>3, <2>1, <1>8
      <4>2. i-1 = j-1
        BY <4>1 DEF EnvsOK
      <4> QED BY <4>2
    <3> QED BY <3>1, <3>2, <3>3
  <2> QED BY <2>1, <1>5, <1>6 DEF EnvsOK
<1>10. \A j \in 1..Len(new) : new[j] = a \/ \E i \in 1..len : new[j] = readenvs[i]
  BY <1>6, <1>8
<1>11. \A i \in 1..Len(rest) : \E j \in 1..Len(new) : new[j] = readenvs[i]
  BY <1>7
<1>12. ToFront(a, readenvs, new)
  <2> SUFFICES ASSUME NEW i \in 2..Len(new), NEW j \in 2..Len(new), i < j
               PROVE  \E k, l \in 1..len : k < l /\ new[i] = readenvs[k] /\ new[j] = readenvs[l]
    BY <1>6 DEF ToFront
  <2>1. /\ i-1 \in 1..len /\ new[i] = readenvs[i-1]
        /\ j-1 \in 1..len /\ new[j] = readenvs[j-1]
    BY <1>8
  <2> QED BY <2>1
<1> QED BY <1>3, <1>4, <1>9, <1>10, <1>11, <1>12 DEF rest

(* The environments are in the order of their last use: each was used      *)
(* after the last use of those behind it.                                  *)
RecencyInv ==
    /\ \A i \in 1..Len(readenvs) : readenvs[i] \in DOMAIN since
    /\ \A i, j \in 1..Len(readenvs) : i < j => readenvs[i] \in since[readenvs[j]]

LEMMA UseKeepsOrder ==
    ASSUME RecencyInv, NEW a \in Aids, EnvsOK(readenvs), EnvsOK(readenvs'),
           ToFront(a, readenvs, readenvs'), since' = Used(a),
           \A j \in 1..Len(readenvs') :
              readenvs'[j] = a \/ \E i \in 1..Len(readenvs) : readenvs'[j] = readenvs[i]
    PROVE  RecencyInv'
<1>1. /\ DOMAIN since' = DOMAIN since \cup {a}
      /\ \A x \in DOMAIN since : x # a => since'[x] = since[x] \cup {a}
  BY DEF Used
<1>2. ASSUME NEW j \in 1..Len(readenvs') PROVE readenvs'[j] \in DOMAIN since'
  BY <1>1 DEF RecencyInv
<1>3. Len(readenvs') \in Nat
  BY LenProperties DEF EnvsOK
<1>4. ASSUME NEW i \in 1..Len(readenvs'), NEW j \in 1..Len(readenvs'), i < j
      PROVE  readenvs'[i] \in since'[readenvs'[j]]
  <2>1. j \in 2..Len(readenvs') /\ j # 1 /\ 1 \in 1..Len(readenvs')
    BY <1>3, <1>4
  <2>2. readenvs'[j] # a
    BY <2>1 DEF EnvsOK, ToFront
  <2>3. PICK l \in 1..Len(readenvs) : readenvs'[j] = readenvs[l]
    BY <2>2
  <2>4. since'[readenvs'[j]] = since[readenvs'[j]] \cup {a}
    BY <1>1, <2>2, <2>3 DEF RecencyInv
  <2>5. CASE i = 1
    BY <2>4, <2>5 DEF ToFront
  <2>6. CASE i # 1
    <3>1. i \in 2..Len(readenvs')
      BY <1>3, <2>6
    <3>2. PICK k, m \in 1..Len(readenvs) :
              k < m /\ readenvs'[i] = readenvs[k] /\ readenvs'[j] = readenvs[m]
      BY <1>4, <2>1, <3>1 DEF ToFront
    <3>3. readenvs[k] \in since[readenvs[m]]
      BY <3>2 DEF RecencyInv
    <3> QED BY <2>4, <3>2, <3>3
  <2> QED BY <2>5, <2>6
<1> QED BY <1>2, <1>4 DEF RecencyInv

-----------------------------------------------------------------------------
(* The steps                                                               *)

LEMMA InitHolds ==
    RInit => IInv
<1> SUFFICES ASSUME RInit PROVE IInv
  OBVIOUS
<1>1. PICK arc \in Archives :
          /\ content = arc.content /\ intact = arc.intact
          /\ keystore = arc.keystore /\ badkeys = arc.badkeys
          /\ fblockstore = arc.fblockstore
  BY DEF RInit
<1>2. ArchiveOK(arc)
  BY ArchivesAssumption
<1>3. ArchiveTypeOK /\ BlocksLocatable
  BY <1>1, <1>2 DEF ArchiveOK, ArchiveTypeOK, BlocksLocatable, Aids
<1>4. Len(<<>>) = 0 /\ \A S : <<>> \in Seq(S)
  BY EmptySeq
<1>5. RTypeOK
  BY <1>4, ReadQueueAssumption DEF RInit, REmpty, RTypeOK, EnvRoom
<1>6. AnsweredInOrder
  BY <1>4 DEF RInit, REmpty, AnsweredInOrder
<1>7. ReadBack
  BY <1>4 DEF RInit, REmpty, ReadBack
<1> QED BY <1>3, <1>5, <1>6, <1>7 DEF IInv

(* Nothing that ReadBack, AnsweredInOrder and the types of a batch speak   *)
(* of is touched by a step that leaves the batch alone.                    *)
LEMMA BatchStays ==
    ASSUME IInv, Kept, UNCHANGED <<readenvs, rbatch, taken, results>>,
           rqueue' \in Seq(BlockInfo), Len(rqueue') <= ReadQueueSz
    PROVE  IInv'
<1>1. /\ ArchiveTypeOK' /\ BlocksLocatable' /\ Aids' = Aids /\ Stored' = Stored
      /\ \A a : CanRestore(a)' => CanRestore(a)
  BY ArchiveStays DEF IInv
<1>2. RTypeOK'
  BY <1>1 DEF IInv, RTypeOK
<1>3. ReadBack'
  BY <1>1 DEF IInv, ReadBack
<1>4. AnsweredInOrder'
  BY <1>1 DEF IInv, AnsweredInOrder, Cached
<1> QED BY <1>1, <1>2, <1>3, <1>4 DEF IInv

LEMMA EnqueueKeeps ==
    ASSUME IInv, NEW bi \in Stored \cup Tampered, EnqueueRead(bi)
    PROVE  IInv'
<1>1. bi \in BlockInfo
  BY StoredTyped DEF IInv
<1>2. rqueue \in Seq(BlockInfo) /\ Len(rqueue) \in Nat /\ Len(rqueue) < ReadQueueSz
  BY LenProperties DEF IInv, RTypeOK, EnqueueRead
<1>3. rqueue' \in Seq(BlockInfo) /\ Len(rqueue') = Len(rqueue) + 1
  BY <1>1, <1>2, AppendProperties DEF EnqueueRead
<1>4. Len(rqueue') <= ReadQueueSz
  BY <1>2, <1>3, ReadQueueAssumption
<1>5. Kept
  BY DEF EnqueueRead, archiveVars, Kept
<1> QED BY <1>3, <1>4, <1>5, BatchStays DEF EnqueueRead

LEMMA LoseKeeps ==
    ASSUME IInv, NEW a, LoseChunk(a), UNCHANGED envVars
    PROVE  IInv'
<1>1. Kept
  BY DEF LoseChunk, Kept
<1>2. rqueue' \in Seq(BlockInfo) /\ Len(rqueue') <= ReadQueueSz
  BY DEF envVars, IInv, RTypeOK
<1> QED BY <1>1, <1>2, BatchStays DEF envVars

LEMMA IterateKeeps ==
    ASSUME IInv, IterateReadQueue
    PROVE  IInv'
<1>1. rqueue \in Seq(BlockInfo) /\ Len(rqueue) \in Nat \ {0}
  BY EmptySeq DEF IInv, RTypeOK, IterateReadQueue
<1>2. Len(<<>>) = 0 /\ \A S : <<>> \in Seq(S)
  BY EmptySeq
<1>3. Kept
  BY DEF IterateReadQueue, archiveVars, Kept
<1>4. /\ ArchiveTypeOK' /\ BlocksLocatable' /\ Aids' = Aids
  BY <1>3, ArchiveStays DEF IInv
<1>5. RTypeOK'
  BY <1>1, <1>2, <1>4, ReadQueueAssumption DEF IInv, RTypeOK, IterateReadQueue
<1>6. AnsweredInOrder'
  <2>1. rbatch' = SubSeq(taken', Len(taken') - Len(rbatch') + 1, Len(taken'))
    <3>1. Len(rqueue) - Len(rqueue) + 1 = 1
      BY <1>1
    <3>2. SubSeq(rqueue, 1, Len(rqueue)) = rqueue
      BY <1>1, SubSeqFull
    <3> QED BY <3>1, <3>2 DEF IterateReadQueue
  <2> QED BY <1>1, <1>2, <2>1 DEF AnsweredInOrder, IterateReadQueue
<1>7. ReadBack'
  BY <1>2 DEF ReadBack, IterateReadQueue
<1> QED BY <1>4, <1>5, <1>6, <1>7 DEF IInv

(* The batch without its first request is still the end of what was taken. *)
LEMMA BatchFacts ==
    ASSUME IInv, rbatch # <<>>
    PROVE  /\ taken \in Seq(BlockInfo) /\ Len(taken) \in Nat
           /\ results \in Seq(Answer) /\ Len(results) \in Nat
           /\ Len(rbatch) = Len(taken) - Len(results) /\ Len(results) < Len(taken)
           /\ Head(rbatch) = taken[Len(results) + 1] /\ Head(rbatch) \in BlockInfo
           /\ Tail(rbatch) = SubSeq(taken, Len(results) + 2, Len(taken))
           /\ Tail(rbatch) \in Seq(BlockInfo) /\ Len(Tail(rbatch)) = Len(rbatch) - 1
<1>1. /\ taken \in Seq(BlockInfo) /\ Len(taken) \in Nat
      /\ results \in Seq(Answer) /\ Len(results) \in Nat
      /\ rbatch \in Seq(BlockInfo) /\ Len(rbatch) \in Nat \ {0}
  BY LenProperties, EmptySeq DEF IInv, RTypeOK, Answer
<1>2. Len(results) + Len(rbatch) = Len(taken)
  BY DEF IInv, AnsweredInOrder
<1>3. rbatch = SubSeq(taken, Len(results) + 1, Len(taken))
  <2>1. Len(taken) - Len(rbatch) + 1 = Len(results) + 1
    BY <1>1, <1>2
  <2> QED BY <2>1 DEF IInv, AnsweredInOrder
<1>4. Len(results) + 1 \in 1..Len(taken) /\ Len(taken) \in Len(results)+1..Len(taken)
  BY <1>1, <1>2
<1>5. /\ Head(rbatch) = taken[Len(results) + 1]
      /\ Tail(rbatch) = SubSeq(taken, Len(results) + 1 + 1, Len(taken))
  BY <1>1, <1>3, <1>4, HeadTailOfSubSeq
<1>6. Len(results) + 1 + 1 = Len(results) + 2
  BY <1>1
<1>7. /\ Head(rbatch) \in BlockInfo /\ Tail(rbatch) \in Seq(BlockInfo)
      /\ Len(Tail(rbatch)) = Len(rbatch) - 1
  BY <1>1, HeadTailProperties
<1> QED BY <1>1, <1>2, <1>5, <1>6, <1>7

LEMMA ServeKeeps ==
    ASSUME IInv, rbatch # <<>>, ServeRequest, UNCHANGED <<archiveVars, rqueue, taken>>
    PROVE  IInv'
<1> DEFINE bi  == Head(rbatch)
           a   == bi.blockaid
           ans == [request |-> bi, data |-> Restore(a, bi)]
<1>1. /\ taken \in Seq(BlockInfo) /\ Len(taken) \in Nat
      /\ results \in Seq(Answer) /\ Len(results) \in Nat
      /\ Len(rbatch) = Len(taken) - Len(results) /\ Len(results) < Len(taken)
      /\ bi = taken[Len(results) + 1] /\ bi \in BlockInfo
      /\ Tail(rbatch) = SubSeq(taken, Len(results) + 2, Len(taken))
      /\ Tail(rbatch) \in Seq(BlockInfo) /\ Len(Tail(rbatch)) = Len(rbatch) - 1
  BY BatchFacts
<1>2. EnvsOK(readenvs)
  BY DEF IInv, RTypeOK, EnvsOK
<1>3. a \in Aids
  <2>1. CASE Hit(a)
    BY <2>1, <1>2, ElementOfSeq DEF Hit, EnvsOK
  <2>2. CASE Miss(a)
    BY <2>2 DEF Miss, CanRestore, IInv, ArchiveTypeOK
  <2> QED BY <2>1, <2>2 DEF ServeRequest
<1>4. EnvsOK(readenvs')
  BY <1>2, <1>3, HitKeeps, MissKeeps DEF ServeRequest
<1>5. Kept
  BY DEF archiveVars, Kept
<1>6. ArchiveTypeOK' /\ BlocksLocatable' /\ Aids' = Aids /\ Stored' = Stored
  BY <1>5, ArchiveStays DEF IInv
<1>7. /\ ans \in Answer /\ ans.data \in {bi.bchecksum, NoData}
      /\ bi \in Stored /\ bi.blocksize > 0 => ans.data = bi.bchecksum
  BY <1>1, <1>3, RestoreFacts DEF IInv, Answer
<1>8. /\ results' \in Seq(Answer) /\ Len(results') = Len(results) + 1
      /\ \A i \in 1..Len(results) : results'[i] = results[i]
      /\ results'[Len(results) + 1] = ans
  BY <1>1, <1>7, AppendProperties DEF ServeRequest
<1>9. rbatch' = Tail(rbatch)
  BY DEF ServeRequest
<1> HIDE DEF ans
<1>10. RTypeOK'
  BY <1>1, <1>4, <1>6, <1>8, <1>9 DEF RTypeOK, EnvsOK, Answer, IInv
<1>11. \A i \in 1..Len(results') : i \in 1..Len(results) \/ i = Len(results) + 1
  BY <1>1, <1>8
<1>12. AnsweredInOrder'
  <2>1. Len(results') + Len(rbatch') = Len(taken')
    BY <1>1, <1>8, <1>9
  <2>2. \A i \in 1..Len(results') : results'[i].request = taken'[i]
    <3>1. \A i \in 1..Len(results) : results'[i].request = taken[i]
      BY <1>8 DEF IInv, AnsweredInOrder
    <3>2. results'[Len(results) + 1].request = taken[Len(results) + 1]
      BY <1>1, <1>8 DEF ans
    <3> QED BY <3>1, <3>2, <1>11
  <2>3. rbatch' = SubSeq(taken', Len(taken') - Len(rbatch') + 1, Len(taken'))
    <3>0. Len(rbatch') = Len(taken) - Len(results) - 1
      BY <1>1, <1>9
    <3>1. Len(taken) - Len(rbatch') + 1 = Len(results) + 2
      BY <3>0, <1>1
    <3> QED BY <3>1, <1>1, <1>9
  <2>4. ~(rbatch' = <<>> /\ Len(results') < Len(taken'))
    <3>1. rbatch' = <<>> => Len(rbatch') = 0
      BY EmptySeq
    <3>2. Len(results') \in Nat
      BY <1>1, <1>8
    <3> QED BY <3>1, <3>2, <2>1, <1>1
  <2>5. Len(results') + Len(rbatch') <= Len(taken')
    BY <2>1, <1>1
  <2> QED BY <2>1, <2>2, <2>3, <2>4, <2>5 DEF AnsweredInOrder
<1>13. ReadBack'
  BY <1>6, <1>7, <1>8, <1>11 DEF IInv, ReadBack, ans
<1> QED BY <1>6, <1>10, <1>12, <1>13 DEF IInv

LEMMA StopKeeps ==
    ASSUME IInv, rbatch # <<>>, StopBatch, UNCHANGED <<archiveVars, rqueue, taken>>
    PROVE  IInv'
<1>1. /\ taken \in Seq(BlockInfo) /\ Len(taken) \in Nat /\ Len(results) \in Nat
      /\ Len(results) < Len(taken) /\ Head(rbatch) = taken[Len(results) + 1]
  BY BatchFacts
<1>2. Len(<<>>) = 0 /\ \A S : <<>> \in Seq(S)
  BY EmptySeq
<1>3. Kept
  BY DEF archiveVars, Kept
<1>4. /\ ArchiveTypeOK' /\ BlocksLocatable' /\ Aids' = Aids /\ Stored' = Stored
      /\ \A x : CanRestore(x)' => CanRestore(x)
  BY <1>3, ArchiveStays DEF IInv
<1>5. rbatch' = <<>> /\ readenvs' = readenvs /\ results' = results
  BY DEF StopBatch
<1>6. RTypeOK'
  BY <1>2, <1>4, <1>5 DEF IInv, RTypeOK
<1>7. ReadBack'
  BY <1>4, <1>5 DEF IInv, ReadBack
<1>8. AnsweredInOrder'
  <2>1. rbatch' = SubSeq(taken', Len(taken') - Len(rbatch') + 1, Len(taken'))
    <3>1. Len(taken) < Len(taken) - Len(rbatch') + 1 /\ Len(taken) \in Int
          /\ Len(taken) - Len(rbatch') + 1 \in Int
      BY <1>1, <1>2, <1>5
    <3> QED BY <3>1, <1>5, SubSeqEmpty
  <2>2. \A x : x = taken'[Len(results') + 1].blockaid => ~Cached(x)' /\ ~CanRestore(x)'
    <3>1. ~Cached(Head(rbatch).blockaid) /\ ~CanRestore(Head(rbatch).blockaid)
      BY DEF StopBatch
    <3> QED BY <3>1, <1>1, <1>4, <1>5 DEF Cached
  <2>3. Len(results') + Len(rbatch') <= Len(taken')
    BY <1>1, <1>2, <1>5
  <2>4. \A i \in 1..Len(results') : results'[i].request = taken'[i]
    BY <1>5 DEF IInv, AnsweredInOrder
  <2> QED BY <2>1, <2>2, <2>3, <2>4, <1>5 DEF AnsweredInOrder
<1> QED BY <1>4, <1>6, <1>7, <1>8 DEF IInv

LEMMA StutterKeeps ==
    ASSUME IInv, UNCHANGED readVars
    PROVE  IInv'
<1>1. Kept
  BY DEF readVars, archiveVars, Kept
<1>2. rqueue' \in Seq(BlockInfo) /\ Len(rqueue') <= ReadQueueSz
  BY DEF readVars, envVars, IInv, RTypeOK
<1> QED BY <1>1, <1>2, BatchStays DEF readVars, envVars

LEMMA StepKeeps ==
    IInv /\ [RNext]_readVars => IInv'
<1> SUFFICES ASSUME IInv, [RNext]_readVars PROVE IInv'
  OBVIOUS
<1>1. ASSUME NEW bi \in Stored \cup Tampered, EnqueueRead(bi) PROVE IInv'
  BY <1>1, EnqueueKeeps
<1>2. CASE IterateReadQueue
  BY <1>2, IterateKeeps
<1>3. CASE RunReadRequest
  BY <1>3, ServeKeeps, StopKeeps DEF RunReadRequest
<1>4. ASSUME NEW a \in Aids, LoseChunk(a), UNCHANGED envVars PROVE IInv'
  BY <1>4, LoseKeeps
<1>5. CASE UNCHANGED readVars
  BY <1>5, StutterKeeps
<1> QED BY <1>1, <1>2, <1>3, <1>4, <1>5 DEF RNext

-----------------------------------------------------------------------------
(* Theorems                                                                *)

(* The invariant holds of every state that a reader can reach.             *)
THEOREM InvariantHolds == RSpec => []IInv
BY InitHolds, StepKeeps, PTL DEF RSpec

(* The variables keep their types; environments are never more than        *)
(* n_readenvs (one at least), each of another assembly.                    *)
THEOREM ReadTypesHold == RSpec => []RTypeOK
<1>1. IInv => RTypeOK
  BY DEF IInv
<1> QED BY <1>1, InvariantHolds, PTL

(* run_read_requests answers a batch from its beginning, in the order of   *)
(* the requests, and stops only at an assembly that is not to be had.      *)
THEOREM AnswersAreInOrder == RSpec => []AnsweredInOrder
<1>1. IInv => AnsweredInOrder
  BY DEF IInv
<1> QED BY <1>1, InvariantHolds, PTL

(* What comes back is the block that the request describes or nothing; a   *)
(* block as it was stored comes back whenever its assembly is at hand.     *)
THEOREM ReadsBack == RSpec => []ReadBack
<1>1. IInv => ReadBack
  BY DEF IInv
<1> QED BY <1>1, InvariantHolds, PTL

(* What a request whose assembly is at hand does to the environments.      *)
LEMMA Serving ==
    ASSUME IInv, ServeRequest, NEW a, a = Head(rbatch).blockaid
    PROVE  /\ a \in Aids /\ EnvsOK(readenvs) /\ EnvsOK(readenvs')
           /\ Hit(a) \/ Miss(a)
           /\ since' = Used(a)
<1>1. EnvsOK(readenvs)
  BY DEF IInv, RTypeOK, EnvsOK
<1>2. Hit(a) \/ Miss(a)
  BY DEF ServeRequest
<1>3. a \in Aids
  <2>1. CASE Hit(a)
    BY <2>1, <1>1, ElementOfSeq DEF Hit, EnvsOK
  <2>2. CASE Miss(a)
    BY <2>2 DEF Miss, CanRestore, IInv, ArchiveTypeOK
  <2> QED BY <2>1, <2>2, <1>2
<1>4. EnvsOK(readenvs')
  BY <1>1, <1>2, <1>3, HitKeeps, MissKeeps
<1> QED BY <1>1, <1>2, <1>3, <1>4 DEF ServeRequest

LEMMA RecencySteps ==
    IInv /\ RecencyInv /\ [RNext]_readVars => RecencyInv'
<1> SUFFICES ASSUME IInv, RecencyInv, [RNext]_readVars PROVE RecencyInv'
  OBVIOUS
<1>1. CASE UNCHANGED <<readenvs, since>>
  BY <1>1 DEF RecencyInv
<1>2. CASE ServeRequest
  <2>1. PICK a : a = Head(rbatch).blockaid
    OBVIOUS
  <2>2. /\ a \in Aids /\ EnvsOK(readenvs) /\ EnvsOK(readenvs')
        /\ Hit(a) \/ Miss(a)
        /\ since' = Used(a)
    BY <1>2, <2>1, Serving
  <2>3. /\ ToFront(a, readenvs, readenvs')
        /\ \A j \in 1..Len(readenvs') :
              readenvs'[j] = a \/ \E i \in 1..Len(readenvs) : readenvs'[j] = readenvs[i]
    BY <2>2, HitKeeps, MissKeeps
  <2> QED BY <2>2, <2>3, UseKeepsOrder
<1> QED BY <1>1, <1>2 DEF RNext, EnqueueRead, IterateReadQueue, RunReadRequest, StopBatch,
                          envVars, readVars

(* The environments stay in the order of their last use.                   *)
THEOREM RecencyHolds == RSpec => []RecencyInv
<1>1. RInit => RecencyInv
  BY EmptySeq DEF RInit, REmpty, RecencyInv
<1> QED BY <1>1, RecencySteps, InvariantHolds, PTL DEF RSpec

(* ensure_assembly gives up the environment whose assembly was not used    *)
(* for longest, every other one having been used since; and only for an    *)
(* assembly that could be restored when there is no room.                  *)
THEOREM EvictionIsLeastRecent == RSpec => EvictsLeastRecent
<1> DEFINE Fair(a) == /\ Len(readenvs) >= NReadEnvs
                      /\ ~Cached(Head(rbatch).blockaid) /\ CanRestore(Head(rbatch).blockaid)
                      /\ \A b \in Aids \ {a} : Cached(b) => b \in since[a] /\ Cached(b)'
<1>1. ASSUME IInv, RecencyInv, [RNext]_readVars
      PROVE  \A a \in Aids : Cached(a) /\ ~Cached(a)' => Fair(a)
  <2> SUFFICES ASSUME NEW a \in Aids, Cached(a), ~Cached(a)' PROVE Fair(a)
    OBVIOUS
  <2>1. readenvs' # readenvs
    BY DEF Cached
  <2>2. ServeRequest
    BY <1>1, <2>1 DEF RNext, EnqueueRead, IterateReadQueue, RunReadRequest, StopBatch,
                      envVars, readVars
  <2>3. PICK h : h = Head(rbatch).blockaid
    OBVIOUS
  <2>4. /\ h \in Aids /\ EnvsOK(readenvs) /\ EnvsOK(readenvs')
        /\ Hit(h) \/ Miss(h)
    BY <1>1, <2>2, <2>3, Serving
  <2>5. PICK i \in 1..Len(readenvs) : readenvs[i] = a
    BY DEF Cached
  <2>6. ~(\E j \in 1..Len(readenvs') : readenvs'[j] = readenvs[i])
    BY <2>5 DEF Cached
  <2>7. Miss(h)
    BY <2>4, <2>6, HitKeeps
  <2>8. /\ Len(readenvs) >= NReadEnvs
        /\ \A k \in 1..Len(readenvs)-1 : \E j \in 1..Len(readenvs') :
              readenvs'[j] = readenvs[k]
    BY <2>4, <2>6, <2>7, MissKeeps
  <2>9. Len(readenvs) \in Nat
    BY <2>4, LenProperties DEF EnvsOK
  <2>10. i = Len(readenvs)
    BY <2>6, <2>8, <2>9
  <2>11. ASSUME NEW b \in Aids \ {a}, Cached(b) PROVE b \in since[a] /\ Cached(b)'
    <3>1. PICK k \in 1..Len(readenvs) : readenvs[k] = b
      BY <2>11 DEF Cached
    <3>2. k \in 1..Len(readenvs)-1 /\ k < i
      BY <2>5, <2>9, <2>10, <3>1
    <3>3. b \in since[a]
      BY <1>1, <2>5, <3>1, <3>2 DEF RecencyInv
    <3>4. Cached(b)'
      BY <2>8, <3>1, <3>2 DEF Cached
    <3> QED BY <3>3, <3>4
  <2> QED BY <2>3, <2>7, <2>8, <2>11 DEF Miss
<1>2. IInv /\ RecencyInv /\ [RNext]_readVars
      => [\A a \in Aids : Cached(a) /\ ~Cached(a)' =>
            /\ Len(readenvs) >= NReadEnvs
            /\ ~Cached(Head(rbatch).blockaid) /\ CanRestore(Head(rbatch).blockaid)
            /\ \A b \in Aids \ {a} : Cached(b) => b \in since[a] /\ Cached(b)']_readVars
  BY <1>1
<1> QED BY <1>2, InvariantHolds, RecencyHolds, PTL DEF RSpec, EvictsLeastRecent
=============================================================================
