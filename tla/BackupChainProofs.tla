-------------------------- MODULE BackupChainProofs ---------------------------
(***************************************************************************)
(* Theorems about BackupChain, for every number of files, contents, runs   *)
(* and references.                                                         *)
(***************************************************************************)
EXTENDS BackupChain, TLAPS

(* Programs that are not at work keep nothing.                             *)
AtRest ==
    /\ pc \notin {"options", "backup"} =>
           refs = <<>> /\ todo = {} /\ infos = NoInfos /\ blocks = NoBlocks
    /\ pc # "restore" =>
           rkeys = {} /\ rblocks = NoBlocks /\ kloaded = {} /\ floaded = <<>>

(* Successful backups wrote their documents, and only documents that were  *)
(* written are read.                                                       *)
Written ==
    /\ \A i \in Good : docs[i].keys \in KeysDoc /\ docs[i].files \in FilesDoc
    /\ \A n \in 1..Len(refs) : docs[refs[n]].files \in FilesDoc
    /\ \A n \in 1..Len(floaded) : docs[floaded[n]].files # NoDoc

(* File f was stored by the backup at work.                                *)
Stored(f) == \E b \in BlockInfo : /\ blocks[f] = <<b>>
                                  /\ b.aid = <<Run, f>> /\ b.sum = infos[f]

(* What is known of file f is from the last reference that lists it.       *)
FromReferences(f) ==
    /\ blocks[f] = <<>>
    /\ \/ /\ infos[f] = NoInfo
          /\ \A n \in 1..Len(refs) : f \notin Listed(docs[refs[n]].files)
       \/ \E n \in 1..Len(refs) :
              /\ f \in Listed(docs[refs[n]].files)
              /\ infos[f] = docs[refs[n]].files[f].info
              /\ \A m \in n+1..Len(refs) : f \notin Listed(docs[refs[m]].files)

(* It was found to be empty.                                               *)
FoundEmpty(f) == blocks[f] = <<>> /\ infos[f] = Empty

AtWork == \A f \in FHash :
              /\ FromReferences(f) \/ Stored(f) \/ FoundEmpty(f)
              /\ pc = "options" \/ f \in todo => FromReferences(f)

(* Backup j stored what backup i records of file f, and no backup between  *)
(* has blocks of f.                                                        *)
Source(i, j, f) ==
    /\ j <= i
    /\ \E b \in BlockInfo : /\ docs[j].files[f].blocks = <<b>> /\ b.aid \in docs[j].keys
                            /\ b.sum = docs[i].files[f].info
    /\ \A k \in Good : j < k /\ k <= i => docs[k].files[f].blocks = <<>>

(* In a chain every recorded file has a source, unless it is empty, and is *)
(* never forgotten.                                                        *)
Sources ==
    \A i \in Good : \A f \in Listed(docs[i].files) :
        /\ docs[i].files[f].info # Empty => \E j \in Good : Source(i, j, f)
        /\ \A j \in Good : i <= j => f \in Listed(docs[j].files)

HasBlocks(n, f) == docs[floaded[n]].files[f].blocks # <<>>

(* The blocks of file f are from the last loaded document that has any.    *)
LastLoaded(f) ==
    \/ rblocks[f] = <<>> /\ \A n \in 1..Len(floaded) : ~HasBlocks(n, f)
    \/ \E n \in 1..Len(floaded) :
           /\ HasBlocks(n, f) /\ rblocks[f] = docs[floaded[n]].files[f].blocks
           /\ \A m \in n+1..Len(floaded) : ~HasBlocks(m, f)

Loaded ==
    /\ \A i \in kloaded : docs[i].keys \subseteq rkeys
    /\ \A f \in FHash : LastLoaded(f)

CInv ==
    /\ CTypeOK /\ AtRest /\ Written /\ AtWork
    /\ OwnKeysSuffice /\ (Chained => Sources) /\ Loaded

USE DEF backupVars, restoreVars

-----------------------------------------------------------------------------
(* Documents                                                               *)

(* A document lists what the stores hold, if no file has blocks but no     *)
(* information.                                                            *)
LEMMA FilesDocumentLists ==
    ASSUME NEW is \in [FHash -> Contents \cup {NoInfo}],
           NEW bs \in [FHash -> Seq(BlockInfo)],
           \A f \in FHash : bs[f] # <<>> => is[f] # NoInfo
    PROVE  /\ FilesDocument(is, bs) \in FilesDoc
           /\ \A f \in FHash : /\ FilesDocument(is, bs)[f].info = is[f]
                               /\ FilesDocument(is, bs)[f].blocks = bs[f]
                               /\ f \in Listed(FilesDocument(is, bs)) <=> is[f] # NoInfo
<1>1. \A f \in FHash : FilesDocument(is, bs)[f] = [info |-> is[f], blocks |-> bs[f]]
  BY DEF FilesDocument
<1> QED  BY <1>1 DEF FilesDocument, FilesDoc, Listed

(* What reading a document makes of the two stores.                        *)
LEMMA ReadingKeepsTypes ==
    ASSUME NEW doc \in FilesDoc
    PROVE  /\ \A is \in [FHash -> Contents \cup {NoInfo}] :
                  ReadInfos(is, doc) \in [FHash -> Contents \cup {NoInfo}]
           /\ \A bs \in [FHash -> Seq(BlockInfo)] :
                  ReadBlocks(bs, doc) \in [FHash -> Seq(BlockInfo)]
  BY DEF FilesDoc, ReadInfos, ReadBlocks

LEMMA DocumentsTypes ==
    ASSUME CTypeOK, NEW i \in 1..Len(docs)
    PROVE  /\ docs[i].files # NoDoc => docs[i].files \in FilesDoc
           /\ docs[i].keys # NoDoc => docs[i].keys \in KeysDoc
<1>1. docs[i] \in Documents
  BY DEF CTypeOK
<1>2. docs[i] \in [keys : KeysDoc \cup {NoDoc}, files : FilesDoc \cup {NoDoc},
                   status : {0, 1}, refs : Seq(1..MaxRuns)]
  BY <1>1 DEF Documents
<1>3. docs[i].files # NoDoc => docs[i].files \in FilesDoc
  BY <1>2
<1>4. docs[i].keys # NoDoc => docs[i].keys \in KeysDoc
  BY <1>2
<1> QED  BY <1>3, <1>4

-----------------------------------------------------------------------------
(* The invariant                                                           *)

LEMMA InitialInvariant == CInit => CInv
<1> SUFFICES ASSUME CInit PROVE CInv
  OBVIOUS
<1> USE DEF CInit
<1>1. Len(docs) = 0 /\ Len(refs) = 0 /\ Len(floaded) = 0
  OBVIOUS
<1>2. Good = {}
  BY <1>1 DEF Good
<1>3. CTypeOK
  BY MaxRunsAssumption, <1>1 DEF CTypeOK, NoInfos, NoBlocks
<1>4. AtWork
  <2>1. \A f \in FHash : infos[f] = NoInfo /\ blocks[f] = <<>>
    BY DEF NoInfos, NoBlocks
  <2>2. ASSUME NEW f \in FHash PROVE FromReferences(f)
    <3> HIDE DEF CInit
    <3>1. \A n \in 1..Len(refs) : FALSE
      BY <1>1
    <3> QED  BY <2>1, <3>1 DEF FromReferences
  <2> QED  BY <2>2 DEF AtWork
<1>5. Loaded
  BY <1>1 DEF Loaded, LastLoaded, NoBlocks
<1> QED
  BY <1>1, <1>2, <1>3, <1>4, <1>5 DEF CInv, AtRest, Written, OwnKeysSuffice, Sources

(* While no documents are written, what is said of documents stays.        *)
LEMMA DocumentsStay ==
    ASSUME CInv, UNCHANGED docs
    PROVE  OwnKeysSuffice' /\ (Chained => Sources)' /\ Good' = Good
<1>1. Good' = Good
  BY DEF Good
<1>2. Chained' = Chained
  BY <1>1 DEF Chained
<1>3. Sources' = Sources
  BY <1>1 DEF Sources, Source
<1>4. OwnKeysSuffice' = OwnKeysSuffice
  BY <1>1 DEF OwnKeysSuffice
<1> QED  BY <1>1, <1>2, <1>3, <1>4 DEF CInv

LEMMA BeginBackupStep == CInv /\ BeginBackup => CInv'
<1> SUFFICES ASSUME CInv, BeginBackup PROVE CInv'
  OBVIOUS
<1> USE DEF CInv, BeginBackup
<1>1. Good' = Good /\ OwnKeysSuffice' /\ (Chained => Sources)'
  BY DocumentsStay
<1>2. refs = <<>> /\ Len(refs) = 0 /\ infos = NoInfos /\ blocks = NoBlocks
  BY DEF AtRest
<1>3. CTypeOK'
  BY DEF CTypeOK
<1>4. AtRest' /\ Written'
  BY <1>1 DEF AtRest, Written
<1>5. AtWork'
  BY <1>2 DEF AtWork, FromReferences, NoInfos, NoBlocks
<1>6. Loaded'
  BY DEF Loaded, LastLoaded, HasBlocks
<1> QED  BY <1>1, <1>3, <1>4, <1>5, <1>6

(* A reference is read.                                                    *)
LEMMA AddReferenceStep ==
    ASSUME CInv, NEW i \in 1..Len(docs), AddReference(i) PROVE CInv'
<1> USE DEF CInv
<1>1. Good' = Good /\ OwnKeysSuffice' /\ (Chained => Sources)'
  BY DocumentsStay DEF AddReference
<1> DEFINE d == docs[i].files
<1>2. d \in FilesDoc
  BY DocumentsTypes DEF AddReference
<1>3. /\ refs \in Seq(1..Len(docs)) /\ refs' = Append(refs, i)
      /\ Len(refs') = Len(refs) + 1 /\ refs'[Len(refs')] = i
      /\ \A n \in 1..Len(refs) : refs'[n] = refs[n]
  BY DEF AddReference, CTypeOK
<1>4. infos' = ReadInfos(infos, d) /\ UNCHANGED <<docs, pc, todo, blocks, restoreVars>>
  BY DEF AddReference
<1>5. \A f \in FHash : infos'[f] = IF f \in Listed(d) THEN d[f].info ELSE infos[f]
  BY <1>4 DEF ReadInfos
<1>6. CTypeOK'
  BY <1>2, <1>3, <1>4, ReadingKeepsTypes DEF CTypeOK
<1>7. AtRest' /\ Written'
  BY <1>1, <1>2, <1>3, <1>4 DEF AtRest, Written, AddReference
<1>8. AtWork'
  <2> SUFFICES ASSUME NEW f \in FHash PROVE FromReferences(f)'
    BY DEF AtWork
  <2>1. FromReferences(f)
    BY DEF AtWork, AddReference
  <2>2. blocks'[f] = <<>> /\ Len(refs) \in Nat
    BY <2>1, <1>3, <1>4 DEF FromReferences
  <2>3. CASE f \in Listed(d)
    <3>1. infos'[f] = d[f].info /\ Len(refs') \in 1..Len(refs')
      BY <1>3, <1>5, <2>2, <2>3
    <3>2. \A m \in Len(refs')+1..Len(refs') : FALSE
      BY <1>3, <2>2
    <3> QED  BY <1>3, <1>4, <2>2, <2>3, <3>1, <3>2 DEF FromReferences
  <2>4. CASE f \notin Listed(d)
    <3>1. infos'[f] = infos[f]
      BY <1>5, <2>4
    <3>2. \A n \in 1..Len(refs') : n \in 1..Len(refs) \/ n = Len(refs')
      BY <1>3, <2>2
    <3>3. CASE infos[f] = NoInfo /\ \A n \in 1..Len(refs) : f \notin Listed(docs[refs[n]].files)
      BY <1>3, <1>4, <2>2, <2>4, <3>1, <3>2, <3>3 DEF FromReferences
    <3>4. CASE \E n \in 1..Len(refs) :
                  /\ f \in Listed(docs[refs[n]].files)
                  /\ infos[f] = docs[refs[n]].files[f].info
                  /\ \A m \in n+1..Len(refs) : f \notin Listed(docs[refs[m]].files)
      <4> PICK n \in 1..Len(refs) :
                  /\ f \in Listed(docs[refs[n]].files)
                  /\ infos[f] = docs[refs[n]].files[f].info
                  /\ \A m \in n+1..Len(refs) : f \notin Listed(docs[refs[m]].files)
        BY <3>4
      <4>1. n \in 1..Len(refs') /\ refs'[n] = refs[n]
        BY <1>3, <2>2
      <4>2. \A m \in n+1..Len(refs') : f \notin Listed(docs'[refs'[m]].files)
        <5> TAKE m \in n+1..Len(refs')
        <5>1. m \in 1..Len(refs')
          BY <1>3, <2>2
        <5> QED  BY <1>3, <1>4, <2>2, <2>4, <3>2, <5>1
      <4> QED  BY <1>4, <2>2, <3>1, <4>1, <4>2 DEF FromReferences
    <3> QED  BY <2>1, <3>3, <3>4 DEF FromReferences
  <2> QED  BY <2>3, <2>4
<1>9. Loaded'
  BY <1>4 DEF Loaded, LastLoaded, HasBlocks
<1> QED  BY <1>1, <1>6, <1>7, <1>8, <1>9

(* The backup ends and leaves nothing but its documents.                   *)
LEMMA NothingAtWork == CTypeOK /\ BackupEnds => AtWork'
<1> SUFFICES ASSUME CTypeOK, BackupEnds PROVE AtWork'
  OBVIOUS
<1>1. Len(refs') = 0 /\ pc' # "options" /\ todo' = {}
  BY DEF BackupEnds
<1> SUFFICES ASSUME NEW f \in FHash PROVE FromReferences(f)'
  BY <1>1 DEF AtWork
<1>2. infos'[f] = NoInfo /\ blocks'[f] = <<>>
  BY DEF BackupEnds, NoInfos, NoBlocks
<1>3. \A n \in 1..Len(refs') : FALSE
  BY <1>1
<1> QED  BY <1>2, <1>3 DEF FromReferences

LEMMA RejectOptionsStep == CInv /\ RejectOptions => CInv'
<1> SUFFICES ASSUME CInv, RejectOptions PROVE CInv'
  OBVIOUS
<1> USE DEF CInv, RejectOptions
<1>1. Good' = Good /\ OwnKeysSuffice' /\ (Chained => Sources)'
  BY DocumentsStay
<1>2. AtWork'
  BY NothingAtWork
<1>3. CTypeOK'
  BY DEF CTypeOK, BackupEnds, NoInfos, NoBlocks
<1>4. AtRest' /\ Written'
  BY <1>1 DEF AtRest, Written, BackupEnds
<1>5. Loaded'
  BY DEF Loaded, LastLoaded, HasBlocks
<1> QED  BY <1>1, <1>2, <1>3, <1>4, <1>5

LEMMA AcceptOptionsStep == CInv /\ AcceptOptions => CInv'
<1> SUFFICES ASSUME CInv, AcceptOptions PROVE CInv'
  OBVIOUS
<1> USE DEF CInv, AcceptOptions
<1>1. Good' = Good /\ OwnKeysSuffice' /\ (Chained => Sources)'
  BY DocumentsStay
<1>2. AtWork'
  <2>1. \A f \in FHash : FromReferences(f)' <=> FromReferences(f)
    BY DEF FromReferences
  <2>2. \A f \in FHash : /\ Stored(f)' <=> Stored(f)
                         /\ FoundEmpty(f)' <=> FoundEmpty(f)
    BY DEF Stored, FoundEmpty, Run
  <2> QED  BY <2>1, <2>2 DEF AtWork
<1>3. CTypeOK'
  BY DEF CTypeOK
<1>4. AtRest' /\ Written'
  BY <1>1 DEF AtRest, Written
<1>5. Loaded'
  BY DEF Loaded, LastLoaded, HasBlocks
<1> QED  BY <1>1, <1>2, <1>3, <1>4, <1>5

(* A file is stored: it was not yet, so it has this one block; or it is    *)
(* empty, and has none.                                                    *)
LEMMA BackupFileStep ==
    ASSUME CInv, NEW g \in FHash, NEW c \in Contents, BackupFile(g, c) PROVE CInv'
<1> USE DEF CInv, BackupFile
<1>1. Good' = Good /\ OwnKeysSuffice' /\ (Chained => Sources)'
  BY DocumentsStay
<1> DEFINE b == [aid |-> <<Run, g>>, sum |-> c]
<1>2. b \in BlockInfo
  <2>1. Run \in 1..MaxRuns
    BY MaxRunsAssumption DEF CTypeOK, Run
  <2>2. <<Run, g>> \in Aid
    BY <2>1 DEF Aid
  <2> QED  BY <2>2 DEF BlockInfo
<1>3. blocks[g] = <<>> /\ infos'[g] = c
  BY DEF AtWork, FromReferences, CTypeOK
<1>4. blocks' = IF c = Empty THEN blocks ELSE [blocks EXCEPT ![g] = <<b>>]
  <2>1. Append(<<>>, b) = <<b>>
    OBVIOUS
  <2> QED  BY <1>3, <2>1 DEF CTypeOK
<1>5. \A f \in FHash \ {g} : blocks'[f] = blocks[f] /\ infos'[f] = infos[f]
  BY <1>4 DEF CTypeOK
<1>6. CTypeOK'
  <2>1. <<b>> \in Seq(BlockInfo)
    BY <1>2
  <2>2. blocks' \in [FHash -> Seq(BlockInfo)]
    BY <1>4, <2>1 DEF CTypeOK
  <2> QED  BY <2>2 DEF CTypeOK
<1>7. AtRest' /\ Written'
  BY <1>1 DEF AtRest, Written
<1>8. AtWork'
  <2> SUFFICES ASSUME NEW f \in FHash
               PROVE  /\ (FromReferences(f) \/ Stored(f) \/ FoundEmpty(f))'
                      /\ (f \in todo)' => FromReferences(f)'
    BY DEF AtWork
  <2>1. CASE f = g /\ c = Empty
    BY <1>3, <1>4, <2>1 DEF FoundEmpty
  <2>2. CASE f = g /\ c # Empty
    <3>1. blocks'[f] = <<b>>
      BY <1>4, <2>2 DEF CTypeOK
    <3>2. b.aid = <<Run, f>> /\ b.sum = infos'[f] /\ Run' = Run
      BY <1>3, <2>2 DEF Run
    <3>3. Stored(f)'
      BY <1>2, <3>1, <3>2 DEF Stored
    <3> QED  BY <2>2, <3>3
  <2>3. CASE f # g
    <3>1. FromReferences(f)' <=> FromReferences(f)
      BY <1>5, <2>3 DEF FromReferences
    <3>2. /\ Stored(f)' <=> Stored(f)
          /\ FoundEmpty(f)' <=> FoundEmpty(f)
      BY <1>5, <2>3 DEF Stored, FoundEmpty, Run
    <3> QED  BY <2>3, <3>1, <3>2 DEF AtWork
  <2> QED  BY <2>1, <2>2, <2>3
<1>9. Loaded'
  BY DEF Loaded, LastLoaded, HasBlocks
<1> QED  BY <1>1, <1>6, <1>7, <1>8, <1>9

LEMMA SkipFileStep == ASSUME CInv, NEW g \in FHash, SkipFile(g) PROVE CInv'
<1> USE DEF CInv, SkipFile
<1>1. Good' = Good /\ OwnKeysSuffice' /\ (Chained => Sources)'
  BY DocumentsStay
<1>2. AtWork'
  <2>1. \A f \in FHash : FromReferences(f)' <=> FromReferences(f)
    BY DEF FromReferences
  <2>2. \A f \in FHash : /\ Stored(f)' <=> Stored(f)
                         /\ FoundEmpty(f)' <=> FoundEmpty(f)
    BY DEF Stored, FoundEmpty, Run
  <2> QED  BY <2>1, <2>2 DEF AtWork
<1>3. CTypeOK'
  BY DEF CTypeOK
<1>4. AtRest' /\ Written'
  BY <1>1 DEF AtRest, Written
<1>5. Loaded'
  BY DEF Loaded, LastLoaded, HasBlocks
<1> QED  BY <1>1, <1>2, <1>3, <1>4, <1>5

-----------------------------------------------------------------------------
(* The steps of LXRrestore                                                 *)

LEMMA WorkStays == AtWork /\ UNCHANGED <<docs, pc, backupVars>> => AtWork'
<1> SUFFICES ASSUME AtWork, UNCHANGED <<docs, pc, backupVars>> PROVE AtWork'
  OBVIOUS
<1>1. \A f \in FHash : FromReferences(f)' <=> FromReferences(f)
  BY DEF FromReferences
<1>2. \A f \in FHash : /\ Stored(f)' <=> Stored(f)
                       /\ FoundEmpty(f)' <=> FoundEmpty(f)
  BY DEF Stored, FoundEmpty, Run
<1> QED  BY <1>1, <1>2 DEF AtWork

LEMMA BeginRestoreStep == CInv /\ BeginRestore => CInv'
<1> SUFFICES ASSUME CInv, BeginRestore PROVE CInv'
  OBVIOUS
<1> USE DEF CInv, BeginRestore
<1>1. Good' = Good /\ OwnKeysSuffice' /\ (Chained => Sources)'
  BY DocumentsStay
<1>2. AtWork'
  <2>1. \A f \in FHash : FromReferences(f)' <=> FromReferences(f)
    BY DEF FromReferences
  <2>2. \A f \in FHash : /\ Stored(f)' <=> Stored(f)
                         /\ FoundEmpty(f)' <=> FoundEmpty(f)
    BY DEF Stored, FoundEmpty, Run
  <2> QED  BY <2>1, <2>2 DEF AtWork
<1>3. CTypeOK'
  BY DEF CTypeOK
<1>4. AtRest' /\ Written'
  BY <1>1 DEF AtRest, Written
<1>5. Loaded'
  BY DEF Loaded, LastLoaded, HasBlocks
<1> QED  BY <1>1, <1>2, <1>3, <1>4, <1>5

LEMMA LoadKeysStep ==
    ASSUME CInv, NEW i \in 1..Len(docs), LoadKeys(i) PROVE CInv'
<1> USE DEF CInv, LoadKeys
<1>1. Good' = Good /\ OwnKeysSuffice' /\ (Chained => Sources)'
  BY DocumentsStay
<1>2. docs[i].keys \subseteq Aid
  BY DocumentsTypes DEF KeysDoc
<1>3. AtWork'
  BY WorkStays
<1>4. CTypeOK'
  BY <1>2 DEF CTypeOK, ReadKeys
<1>5. AtRest' /\ Written'
  BY <1>1 DEF AtRest, Written
<1>6. Loaded'
  BY DEF Loaded, LastLoaded, HasBlocks, ReadKeys
<1> QED  BY <1>1, <1>3, <1>4, <1>5, <1>6

(* A files document is loaded.                                             *)
LEMMA LoadFilesStep ==
    ASSUME CInv, NEW i \in 1..Len(docs), LoadFiles(i) PROVE CInv'
<1> USE DEF CInv
<1>1. Good' = Good /\ OwnKeysSuffice' /\ (Chained => Sources)'
  BY DocumentsStay DEF LoadFiles
<1> DEFINE d == docs[i].files
<1>2. d \in FilesDoc
  BY DocumentsTypes DEF LoadFiles
<1>3. /\ floaded \in Seq(1..Len(docs)) /\ floaded' = Append(floaded, i)
      /\ Len(floaded) \in Nat
      /\ Len(floaded') = Len(floaded) + 1 /\ floaded'[Len(floaded')] = i
      /\ \A n \in 1..Len(floaded) : floaded'[n] = floaded[n]
  BY DEF LoadFiles, CTypeOK
<1>4. rblocks' = ReadBlocks(rblocks, d) /\ UNCHANGED <<docs, pc, backupVars, rkeys, kloaded>>
  BY DEF LoadFiles
<1>5. \A f \in FHash : rblocks'[f] = IF d[f].blocks # <<>> THEN d[f].blocks ELSE rblocks[f]
  BY <1>4 DEF ReadBlocks
<1>6. AtWork'
  BY <1>4, WorkStays
<1>7. CTypeOK'
  BY <1>2, <1>3, <1>4, ReadingKeepsTypes DEF CTypeOK
<1>8. AtRest' /\ Written'
  BY <1>1, <1>2, <1>3, <1>4 DEF AtRest, Written, LoadFiles
<1>9. ASSUME NEW f \in FHash PROVE LastLoaded(f)'
  <2>1. \A n \in 1..Len(floaded) : HasBlocks(n, f)' <=> HasBlocks(n, f)
    BY <1>3, <1>4 DEF HasBlocks
  <2>2. \A n : n = Len(floaded') => (HasBlocks(n, f)' <=> d[f].blocks # <<>>)
    BY <1>3, <1>4 DEF HasBlocks
  <2>3. CASE d[f].blocks # <<>>
    <3>1. Len(floaded') \in 1..Len(floaded') /\ \A m \in Len(floaded')+1..Len(floaded') : FALSE
      BY <1>3
    <3> QED  BY <1>3, <1>4, <1>5, <2>2, <2>3, <3>1 DEF LastLoaded
  <2>4. CASE d[f].blocks = <<>>
    <3>1. rblocks'[f] = rblocks[f] /\ \A n : n = Len(floaded') => ~HasBlocks(n, f)'
      BY <1>5, <2>2, <2>4
    <3>2. \A n \in 1..Len(floaded') : n \in 1..Len(floaded) \/ n = Len(floaded')
      BY <1>3
    <3>3. CASE rblocks[f] = <<>> /\ \A n \in 1..Len(floaded) : ~HasBlocks(n, f)
      BY <2>1, <3>1, <3>2, <3>3 DEF LastLoaded
    <3>4. CASE \E n \in 1..Len(floaded) :
                  /\ HasBlocks(n, f) /\ rblocks[f] = docs[floaded[n]].files[f].blocks
                  /\ \A m \in n+1..Len(floaded) : ~HasBlocks(m, f)
      <4> PICK n \in 1..Len(floaded) :
                  /\ HasBlocks(n, f) /\ rblocks[f] = docs[floaded[n]].files[f].blocks
                  /\ \A m \in n+1..Len(floaded) : ~HasBlocks(m, f)
        BY <3>4
      <4>1. n \in 1..Len(floaded') /\ HasBlocks(n, f)'
        BY <1>3, <2>1
      <4>2. rblocks'[f] = docs'[floaded'[n]].files[f].blocks
        BY <1>3, <1>4, <3>1
      <4>3. \A m \in n+1..Len(floaded') : ~HasBlocks(m, f)'
        <5> TAKE m \in n+1..Len(floaded')
        <5>1. m \in n+1..Len(floaded) \/ m = Len(floaded')
          <6>1. Len(floaded) \in Nat /\ Len(floaded') = Len(floaded) + 1
            BY <1>3
          <6> QED  BY <6>1
        <5>2. CASE m \in n+1..Len(floaded)
          <6>1. m \in 1..Len(floaded)
            BY <1>3, <5>2
          <6> QED  BY <2>1, <5>2, <6>1
        <5>3. CASE m = Len(floaded')
          BY <3>1, <5>3
        <5> QED  BY <5>1, <5>2, <5>3
      <4> QED  BY <4>1, <4>2, <4>3 DEF LastLoaded
    <3> QED  BY <3>3, <3>4 DEF Loaded, LastLoaded
  <2> QED  BY <2>3, <2>4
<1>10. Loaded'
  BY <1>4, <1>9 DEF Loaded
<1> QED  BY <1>1, <1>6, <1>7, <1>8, <1>10

LEMMA EndRestoreStep == CInv /\ EndRestore => CInv'
<1> SUFFICES ASSUME CInv, EndRestore PROVE CInv'
  OBVIOUS
<1> USE DEF CInv, EndRestore
<1>1. Good' = Good /\ OwnKeysSuffice' /\ (Chained => Sources)'
  BY DocumentsStay
<1>2. AtWork'
  <2>1. \A f \in FHash : FromReferences(f)' <=> FromReferences(f)
    BY DEF FromReferences
  <2>2. \A f \in FHash : /\ Stored(f)' <=> Stored(f)
                         /\ FoundEmpty(f)' <=> FoundEmpty(f)
    BY DEF Stored, FoundEmpty, Run
  <2> QED  BY <2>1, <2>2 DEF AtWork
<1>3. CTypeOK'
  BY DEF CTypeOK, NoBlocks
<1>4. AtRest' /\ Written'
  BY <1>1 DEF AtRest, Written
<1>5. Loaded'
  <2>1. \A n \in 1..Len(floaded') : FALSE
    OBVIOUS
  <2>2. \A f \in FHash : rblocks'[f] = <<>>
    BY DEF NoBlocks
  <2> QED  BY <2>1, <2>2 DEF Loaded, LastLoaded
<1> QED  BY <1>1, <1>2, <1>3, <1>4, <1>5

-----------------------------------------------------------------------------
(* The end of a backup                                                     *)

(* The list that the backup at work has of a file, and its information.    *)
LEMMA ListsAtWork ==
    ASSUME CTypeOK, AtWork, NEW f \in FHash
    PROVE  \/ blocks[f] = <<>> /\ (FromReferences(f) \/ infos[f] = Empty)
           \/ /\ blocks[f] # <<>> /\ infos[f] # NoInfo /\ <<Run, f>> \in Assemblies
              /\ \E b \in BlockInfo : /\ blocks[f] = <<b>>
                                      /\ b.aid = <<Run, f>> /\ b.sum = infos[f]
<1>1. CASE FromReferences(f)
  BY <1>1 DEF FromReferences
<1>2. CASE Stored(f)
  <2> PICK b \in BlockInfo : blocks[f] = <<b>> /\ b.aid = <<Run, f>> /\ b.sum = infos[f]
    BY <1>2 DEF Stored
  <2>1. blocks[f] # <<>>
    OBVIOUS
  <2>2. infos[f] # NoInfo
    BY ContentsAssumption DEF BlockInfo
  <2> QED  BY <2>1, <2>2 DEF Assemblies
<1>3. CASE FoundEmpty(f)
  BY <1>3 DEF FoundEmpty
<1> QED  BY <1>1, <1>2, <1>3 DEF AtWork

(* What a report holds.                                                    *)
LEMMA ReportIsTyped ==
    ASSUME CTypeOK, AtWork, Run \in 1..MaxRuns,
           NEW failed \in SUBSET Assemblies, NEW k \in BOOLEAN, NEW w \in BOOLEAN
    PROVE  LET r == Report(failed, k, w)
           IN  /\ r \in Documents
               /\ r.status = 0 => /\ r.refs = refs
                                  /\ r.keys = Assemblies /\ r.keys \in KeysDoc
                                  /\ r.files = FilesDocument(infos, blocks)
                                  /\ r.files \in FilesDoc
<1> DEFINE r == Report(failed, k, w)
           d == FilesDocument(infos, blocks)
<1>1. d \in FilesDoc
  <2>1. \A f \in FHash : blocks[f] # <<>> => infos[f] # NoInfo
    BY ListsAtWork
  <2> QED  BY <2>1, FilesDocumentLists DEF CTypeOK
<1>2. Assemblies \in KeysDoc /\ Assemblies \ failed \in KeysDoc
  BY DEF Assemblies, KeysDoc, Aid
<1>3. refs \in Seq(1..MaxRuns)
  <2>1. 1..Len(docs) \subseteq 1..MaxRuns
    BY MaxRunsAssumption DEF CTypeOK, Run
  <2>2. refs \in Seq(1..Len(docs))
    BY DEF CTypeOK
  <2>3. \A S, T : S \subseteq T /\ refs \in Seq(S) => refs \in Seq(T)
    OBVIOUS
  <2> QED  BY <2>1, <2>2, <2>3
<1>4. r.keys \in KeysDoc \cup {NoDoc}
  BY <1>2 DEF Report
<1>5. r.files \in FilesDoc \cup {NoDoc}
  BY <1>1 DEF Report
<1>6. r.status \in {0, 1} /\ r.refs \in Seq(1..MaxRuns)
  <2>1. <<>> \in Seq(1..MaxRuns)
    OBVIOUS
  <2>2. r.status \in {0, 1} /\ (r.refs = refs \/ r.refs = <<>>)
    BY DEF Report
  <2> QED  BY <1>3, <2>1, <2>2
<1>7. r \in Documents
  <2>1. r = [keys |-> r.keys, files |-> r.files, status |-> r.status, refs |-> r.refs]
    BY DEF Report
  <2> HIDE DEF r
  <2> QED  BY <1>4, <1>5, <1>6, <2>1 DEF Documents
<1>8. ASSUME r.status = 0 PROVE k /\ w /\ failed = {}
  BY <1>8 DEF Report
<1>9. ASSUME r.status = 0 PROVE r.keys = Assemblies /\ r.files = d /\ r.refs = refs
  BY <1>8, <1>9 DEF Report
<1> QED  BY <1>1, <1>2, <1>6, <1>7, <1>9

(* The references of a chain: the last of them is the newest.              *)
LEMMA NewestReference ==
    ASSUME CTypeOK, Written, Sources,
           ToSet(refs) \subseteq Good,
           Good # {} => refs # <<>> /\ \A j \in Good : j <= Last(refs)
    PROVE  /\ \A n \in 1..Len(refs) : refs[n] \in Good
           /\ Good # {} => /\ Len(refs) \in 1..Len(refs)
                           /\ \A q \in Good, f \in FHash :
                                  f \in Listed(docs[q].files) =>
                                      f \in Listed(docs[refs[Len(refs)]].files)
<1>1. refs \in Seq(1..Len(docs)) /\ Len(refs) \in Nat
  BY DEF CTypeOK
<1>2. \A n \in 1..Len(refs) : refs[n] \in Good
  BY <1>1 DEF ToSet
<1>3. ASSUME Good # {} PROVE Len(refs) \in 1..Len(refs)
  BY <1>1, <1>3
<1>4. ASSUME NEW q \in Good, NEW f \in FHash, f \in Listed(docs[q].files)
      PROVE  f \in Listed(docs[refs[Len(refs)]].files)
  <2>1. refs[Len(refs)] \in Good
    BY <1>2, <1>3
  <2>2. q <= refs[Len(refs)]
    BY DEF Last
  <2> QED  BY <1>4, <2>1, <2>2 DEF Sources
<1> QED  BY <1>2, <1>3, <1>4

LEMMA FinishBackupStep == CInv /\ FinishBackup => CInv'
<1> SUFFICES ASSUME CInv, FinishBackup PROVE CInv'
  OBVIOUS
<1> USE DEF CInv
<1> PICK failed \in SUBSET Assemblies, k \in BOOLEAN, w \in BOOLEAN :
        docs' = Append(docs, Report(failed, k, w))
  BY DEF FinishBackup
<1> DEFINE r == Report(failed, k, w)
           d == FilesDocument(infos, blocks)
<1> PICK N \in Nat : N = Len(docs) + 1
  BY DEF CTypeOK
<1>1. Run = N /\ Run \in 1..MaxRuns /\ Len(docs) \in Nat
  BY MaxRunsAssumption DEF CTypeOK, Run, FinishBackup
<1>2. /\ r \in Documents
      /\ r.status = 0 => /\ r.refs = refs
                         /\ r.keys = Assemblies /\ r.keys \in KeysDoc
                         /\ r.files = d /\ r.files \in FilesDoc
  BY <1>1, ReportIsTyped
<1>3. \A f \in FHash : /\ d[f].info = infos[f] /\ d[f].blocks = blocks[f]
                       /\ f \in Listed(d) <=> infos[f] # NoInfo
  <2>1. \A f \in FHash : blocks[f] # <<>> => infos[f] # NoInfo
    BY ListsAtWork
  <2> QED  BY <2>1, FilesDocumentLists DEF CTypeOK
<1> HIDE DEF r, d
<1>4. docs' = Append(docs, r)
  BY DEF r
<1>5. /\ docs' \in Seq(Documents) /\ Len(docs') = N /\ docs'[N] = r
      /\ \A j \in 1..Len(docs) : docs'[j] = docs[j]
  BY <1>2, <1>4 DEF CTypeOK
<1>6. /\ Good' = Good \cup (IF r.status = 0 THEN {N} ELSE {})
      /\ \A j \in Good : j \in 1..Len(docs) /\ j < N /\ docs'[j] = docs[j]
      /\ N \notin Good
  BY <1>1, <1>5 DEF Good
<1>7. CTypeOK'
  <2>1. BackupEnds /\ UNCHANGED restoreVars /\ rblocks = rblocks' /\ Len(docs') <= MaxRuns
    BY <1>1, <1>5 DEF FinishBackup
  <2>2. kloaded' = {} /\ floaded' = <<>>
    BY DEF AtRest, FinishBackup
  <2> QED  BY <1>5, <2>1, <2>2 DEF CTypeOK, BackupEnds, NoInfos, NoBlocks
<1>8. AtRest'
  BY DEF AtRest, FinishBackup, BackupEnds
<1>9. Written'
  <2>1. Len(refs') = 0 /\ Len(floaded') = 0
    BY DEF AtRest, FinishBackup, BackupEnds
  <2> QED  BY <1>2, <1>5, <1>6, <2>1 DEF Written
<1>10. AtWork'
  BY NothingAtWork DEF FinishBackup
<1>11. OwnKeysSuffice'
  <2>1. ASSUME r.status = 0, NEW f \in FHash, NEW n \in 1..Len(blocks[f])
        PROVE  blocks[f][n].aid \in Assemblies
    <3>1. CASE blocks[f] = <<>>
      BY <2>1, <3>1
    <3>2. CASE blocks[f] # <<>>
      <4> PICK b \in BlockInfo : blocks[f] = <<b>> /\ b.aid = <<Run, f>>
        BY <3>2, ListsAtWork
      <4>1. n = 1 /\ blocks[f][1] = b
        BY <2>1
      <4> QED  BY <3>2, <4>1, ListsAtWork
    <3> QED  BY <3>1, <3>2
  <2> QED  BY <1>2, <1>3, <1>5, <1>6, <2>1 DEF OwnKeysSuffice, Listed
<1>12. ASSUME Chained' PROVE Sources'
  <2>1. Chained
    <3> SUFFICES ASSUME NEW i \in Good
                 PROVE  LET before == {j \in Good : j < i}
                        IN  /\ ToSet(docs[i].refs) \subseteq before
                            /\ before # {} => /\ docs[i].refs # <<>>
                                              /\ \A j \in before : j <= Last(docs[i].refs)
      BY DEF Chained
    <3>1. i \in Good' /\ docs'[i] = docs[i]
      BY <1>6
    <3>2. {j \in Good' : j < i} = {j \in Good : j < i}
      BY <1>1, <1>6
    <3> QED  BY <1>12, <3>1, <3>2 DEF Chained
  <2>2. Sources
    BY <2>1
  <2>3. ASSUME r.status = 0
        PROVE  /\ ToSet(refs) \subseteq Good
               /\ Good # {} => refs # <<>> /\ \A j \in Good : j <= Last(refs)
    <3>1. N \in Good' /\ docs'[N].refs = refs
      BY <1>2, <1>5, <1>6, <2>3
    <3>2. {j \in Good' : j < N} = Good
      BY <1>1, <1>6
    <3> QED  BY <1>12, <3>1, <3>2 DEF Chained
  <2>4. ASSUME r.status = 0, NEW q \in Good, NEW f \in Listed(docs[q].files)
        PROVE  f \in Listed(d)
    <3>1. f \in FHash
      BY DEF Listed
    <3>2. Len(refs) \in 1..Len(refs) /\ f \in Listed(docs[refs[Len(refs)]].files)
      BY <2>2, <2>3, <2>4, <3>1, NewestReference
    <3>3. CASE FromReferences(f)
      <4>1. infos[f] # NoInfo
        BY <3>2, <3>3 DEF FromReferences, Listed
      <4> QED  BY <1>3, <3>1, <4>1
    <3>4. CASE infos[f] # NoInfo
      BY <1>3, <3>1, <3>4
    <3>5. Empty # NoInfo
      BY ContentsAssumption
    <3> QED  BY <3>1, <3>3, <3>4, <3>5, ListsAtWork
  <2>5. ASSUME NEW i \in Good, NEW f \in Listed(docs[i].files),
               docs[i].files[f].info # Empty
        PROVE  \E j \in Good : Source(i, j, f)'
    <3> PICK j \in Good : Source(i, j, f)
      BY <2>2, <2>5 DEF Sources
    <3>1. \A m \in Good' : m <= i => m \in Good
      BY <1>1, <1>6
    <3> QED  BY <1>6, <3>1 DEF Source
  <2>6. ASSUME r.status = 0, NEW f \in Listed(d), d[f].info # Empty
        PROVE  \E j \in Good' : Source(N, j, f)'
    <3>1. f \in FHash /\ infos[f] # NoInfo /\ infos[f] # Empty
      BY <1>3, <2>6 DEF Listed
    <3>2. docs'[N].files = d /\ docs'[N].keys = Assemblies /\ N \in Good'
      BY <1>2, <1>5, <1>6, <2>6
    <3>3. CASE \E b \in BlockInfo : /\ blocks[f] = <<b>>
                                    /\ b.aid = <<Run, f>> /\ b.sum = infos[f]
      <4> PICK b \in BlockInfo : blocks[f] = <<b>> /\ b.aid = <<Run, f>> /\ b.sum = infos[f]
        BY <3>3
      <4>1. <<Run, f>> \in Assemblies
        <5>1. blocks[f] # <<>>
          OBVIOUS
        <5> QED  BY <3>1, <5>1, ListsAtWork
      <4>2. d[f].blocks = <<b>> /\ d[f].info = b.sum
        BY <1>3, <3>1
      <4>3. \A m \in Good' : ~(N < m /\ m <= N)
        BY <1>1, <1>6
      <4>4. Source(N, N, f)'
        BY <1>1, <3>2, <4>1, <4>2, <4>3 DEF Source
      <4> QED  BY <3>2, <4>4
    <3>4. CASE FromReferences(f)
      <4> PICK n \in 1..Len(refs) :
              /\ f \in Listed(docs[refs[n]].files)
              /\ infos[f] = docs[refs[n]].files[f].info
              /\ \A m \in n+1..Len(refs) : f \notin Listed(docs[refs[m]].files)
        BY <3>1, <3>4 DEF FromReferences
      <4>1. refs[n] \in Good /\ Len(refs) \in Nat
        BY <2>2, <2>3, <2>6, NewestReference DEF CTypeOK
      <4>2. Len(refs) \in 1..Len(refs) /\ f \in Listed(docs[refs[Len(refs)]].files)
        BY <2>2, <2>3, <2>6, <3>1, <4>1, NewestReference
      <4>3. n = Len(refs)
        BY <4>1, <4>2
      <4> DEFINE p == refs[n]
      <4>4. p \in Good /\ \A m \in Good : m <= p
        BY <2>3, <2>6, <4>1, <4>3 DEF Last
      <4> PICK j \in Good : Source(p, j, f)
        BY <2>2, <3>1, <4>4 DEF Sources
      <4>5. j <= N
        BY <1>1, <1>6
      <4>6. PICK b \in BlockInfo : /\ docs[j].files[f].blocks = <<b>> /\ b.aid \in docs[j].keys
                                   /\ b.sum = docs[p].files[f].info
        BY DEF Source
      <4>7. b.sum = docs'[N].files[f].info
        BY <1>3, <3>1, <3>2, <4>6
      <4>8. ASSUME NEW m \in Good', j < m PROVE docs'[m].files[f].blocks = <<>>
        <5>1. CASE m \in Good
          BY <1>6, <4>4, <4>8, <5>1 DEF Source
        <5>2. CASE m = N
          BY <1>3, <3>1, <3>2, <3>4, <5>2 DEF FromReferences
        <5> QED  BY <1>6, <5>1, <5>2
      <4>9. Source(N, j, f)'
        BY <1>6, <4>5, <4>6, <4>7, <4>8 DEF Source
      <4> QED  BY <1>6, <4>9
    <3> QED  BY <3>1, <3>3, <3>4, ListsAtWork
  <2> SUFFICES ASSUME NEW i \in Good', NEW f \in Listed(docs'[i].files)
               PROVE  /\ docs'[i].files[f].info # Empty => \E j \in Good' : Source(i, j, f)'
                      /\ \A j \in Good' : i <= j => f \in Listed(docs'[j].files)
    BY DEF Sources
  <2>7. CASE i \in Good
    <3>1. f \in Listed(docs[i].files)
      BY <1>6, <2>7
    <3>2. docs'[i].files[f].info # Empty => \E j \in Good' : Source(i, j, f)'
      BY <1>6, <2>5, <2>7, <3>1
    <3>3. \A j \in Good : i <= j => f \in Listed(docs'[j].files)
      BY <1>6, <2>2, <2>7, <3>1 DEF Sources
    <3>4. N \in Good' => f \in Listed(docs'[N].files)
      BY <1>2, <1>5, <1>6, <2>4, <2>7, <3>1
    <3> QED  BY <1>6, <3>2, <3>3, <3>4
  <2>8. CASE i = N
    <3>1. r.status = 0 /\ docs'[N].files = d /\ f \in Listed(d)
      BY <1>2, <1>5, <1>6, <2>8
    <3>2. docs'[N].files[f].info # Empty => \E j \in Good' : Source(N, j, f)'
      BY <2>6, <3>1
    <3>3. \A j \in Good' : N <= j => j = N
      BY <1>1, <1>6
    <3> QED  BY <2>8, <3>1, <3>2, <3>3
  <2> QED  BY <1>6, <2>7, <2>8
<1>13. Loaded'
  <2>1. kloaded' = {} /\ Len(floaded') = 0 /\ rblocks' = NoBlocks
    BY DEF AtRest, FinishBackup
  <2>2. \A n \in 1..Len(floaded') : FALSE
    BY <2>1
  <2>3. \A f \in FHash : rblocks'[f] = <<>>
    BY <2>1 DEF NoBlocks
  <2> QED  BY <2>1, <2>2, <2>3 DEF Loaded, LastLoaded
<1> QED  BY <1>7, <1>8, <1>9, <1>10, <1>11, <1>12, <1>13

-----------------------------------------------------------------------------
(* Theorems                                                                *)

LEMMA StepKeepsInvariant == CInv /\ [CNext]_vars => CInv'
<1> SUFFICES ASSUME CInv, [CNext]_vars PROVE CInv'
  OBVIOUS
<1>1. CASE UNCHANGED vars
  <2> USE <1>1 DEF vars, CInv
  <2>1. AtWork'
    BY WorkStays
  <2>2. Good' = Good /\ OwnKeysSuffice' /\ (Chained => Sources)'
    BY DocumentsStay
  <2>3. CTypeOK' /\ AtRest' /\ Written'
    BY <2>2 DEF CTypeOK, AtRest, Written
  <2>4. Loaded'
    BY DEF Loaded, LastLoaded, HasBlocks
  <2> QED  BY <2>1, <2>2, <2>3, <2>4
<1>2. CASE BeginBackup \/ RejectOptions \/ AcceptOptions \/ FinishBackup
  BY <1>2, BeginBackupStep, RejectOptionsStep, AcceptOptionsStep, FinishBackupStep
<1>3. CASE BeginRestore \/ EndRestore
  BY <1>3, BeginRestoreStep, EndRestoreStep
<1>4. CASE \E i \in 1..Len(docs) : AddReference(i) \/ LoadKeys(i) \/ LoadFiles(i)
  BY <1>4, AddReferenceStep, LoadKeysStep, LoadFilesStep
<1>5. CASE \E f \in FHash : SkipFile(f) \/ \E c \in Contents : BackupFile(f, c)
  BY <1>5, SkipFileStep, BackupFileStep
<1> QED  BY <1>1, <1>2, <1>3, <1>4, <1>5 DEF CNext

LEMMA Invariance == CSpec => []CInv
<1>1. CInit => CInv
  BY InitialInvariant
<1>2. CInv /\ [CNext]_vars => CInv'
  BY StepKeepsInvariant
<1> QED  BY <1>1, <1>2, PTL DEF CSpec

(* The variables keep their types; no file is recorded with a blank        *)
(* information.                                                            *)
THEOREM ChainTypeCorrect == CSpec => []CTypeOK
<1>1. CInv => CTypeOK
  BY DEF CInv
<1> QED  BY <1>1, Invariance, PTL

(* The two documents of a successful backup belong together.               *)
THEOREM KeysSuffice == CSpec => []OwnKeysSuffice
<1>1. CInv => OwnKeysSuffice
  BY DEF CInv
<1> QED  BY <1>1, Invariance, PTL

(* No choice and no order of documents mixes versions of a file.           *)
THEOREM VersionsAreNotMixed == CSpec => []OneVersionOnly
<1>1. ASSUME CInv PROVE OneVersionOnly
  <2> SUFFICES ASSUME NEW f \in FHash, rblocks[f] # <<>>
               PROVE  \E i \in 1..Len(docs) : /\ docs[i].files # NoDoc
                                              /\ docs[i].files[f].blocks = rblocks[f]
    BY DEF OneVersionOnly
  <2>1. LastLoaded(f)
    BY <1>1 DEF CInv, Loaded
  <2>2. PICK n \in 1..Len(floaded) : rblocks[f] = docs[floaded[n]].files[f].blocks
    BY <2>1 DEF LastLoaded
  <2>3. floaded[n] \in 1..Len(docs) /\ docs[floaded[n]].files # NoDoc
    BY <1>1 DEF CInv, CTypeOK, Written
  <2> QED  BY <2>2, <2>3
<1> QED  BY <1>1, Invariance, PTL

(* The documents of a chain of successful backups, loaded in order,        *)
(* restore every file as its last backup recorded it.                      *)
THEOREM ChainRestoresNewest == CSpec => []NewestIsRestorable
<1>1. ASSUME CInv PROVE NewestIsRestorable
  <2> USE <1>1 DEF CInv
  <2> SUFFICES ASSUME Chained, AllLoaded, NEW i \in Good, \A j \in Good : j <= i,
                      NEW f \in Listed(docs[i].files), docs[i].files[f].info # Empty
               PROVE  \E b \in BlockInfo : /\ rblocks[f] = <<b>> /\ b.aid \in rkeys
                                           /\ b.sum = docs[i].files[f].info
    BY DEF NewestIsRestorable
  <2>1. PICK j \in Good : Source(i, j, f)
    BY DEF Sources
  <2>2. PICK b \in BlockInfo : /\ docs[j].files[f].blocks = <<b>> /\ b.aid \in docs[j].keys
                               /\ b.sum = docs[i].files[f].info
    BY <2>1 DEF Source
  <2>3. b.aid \in rkeys
    BY <2>2 DEF AllLoaded, Loaded
  <2>4. PICK m \in 1..Len(floaded) : floaded[m] = j
    <3>1. j \in ToSet(floaded)
      BY DEF AllLoaded
    <3> QED  BY <3>1 DEF ToSet, CTypeOK
  <2>5. HasBlocks(m, f)
    <3>1. <<b>> # <<>>
      OBVIOUS
    <3> QED  BY <2>2, <2>4, <3>1 DEF HasBlocks
  <2>6. LastLoaded(f)
    BY DEF Loaded, Listed
  <2>7. PICK n \in 1..Len(floaded) :
            /\ HasBlocks(n, f) /\ rblocks[f] = docs[floaded[n]].files[f].blocks
            /\ \A l \in n+1..Len(floaded) : ~HasBlocks(l, f)
    BY <2>5, <2>6 DEF LastLoaded
  <2>8. m <= n
    BY <2>5, <2>7 DEF CTypeOK
  <2>9. floaded[n] \in Good
    BY DEF AllLoaded, ToSet, CTypeOK
  <2>10. CASE m < n
    <3>1. j < floaded[n] /\ floaded[n] <= i
      BY <2>4, <2>9, <2>10 DEF AllLoaded
    <3> QED  BY <2>1, <2>7, <2>9, <3>1 DEF Source, HasBlocks
  <2>11. CASE m = n
    BY <2>2, <2>3, <2>4, <2>7, <2>11
  <2> QED  BY <2>8, <2>10, <2>11
<1> QED  BY <1>1, Invariance, PTL
=============================================================================
