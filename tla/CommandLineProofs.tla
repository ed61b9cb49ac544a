--------------------------- MODULE CommandLineProofs ---------------------------
(***************************************************************************)
(* Theorems about how the tools take over their options: for every command *)
(* line, every set of documents, and every number of places for files.     *)
(***************************************************************************)
EXTENDS CommandLine, FiniteSetTheorems, SequenceTheorems, TLAPS

(* What has come of the first n - 1 options, as StartsAsTold says it of    *)
(* all of them.                                                            *)
FlagsOK(n) ==
    /\ use_gpg \in BOOLEAN /\ (use_gpg <=> Before(n, "nogpg") = {})
    /\ dry_run \in BOOLEAN /\ (dry_run <=> Before(n, "dry-run") # {})

Letters == {"x", "o", "n", "y", "k"}

Default(s) == IF s = "n" THEN 16 ELSE None

ConfigOK(n) ==
    /\ DOMAIN config = Letters
    /\ \A s \in Settings :
          IF Before(n, s) = {} THEN config[s] = Default(s)
          ELSE config[s] = args[LastOf(Before(n, s))].arg /\ config[s] # None

Arguments(letter) == {args[i].arg : i \in Named(letter)}

(* The arguments of the first n - 1 options with a letter are in q.        *)
Holds(q, letter, n) ==
    /\ q \in Seq(Arguments(letter))
    /\ Len(q) = Cardinality(Before(n, letter))
    /\ \A i \in Before(n, letter) : q[Cardinality(Before(i, letter)) + 1] = args[i].arg

ListsOK(n) ==
    /\ DOMAIN lists = {"f", "d", "D"}
    /\ \A l \in Lists : Holds(lists[l], l, n)

Told(n, letter, root) ==
    {i \in Before(n, letter) : Legible(i) /\ Docs[args[i].arg].root = root}

Saying(n, letter, f, part, none) ==
    {i \in Told(n, letter, "files") : Docs[args[i].arg].files[f][part] # none}

(* e is what the last of these documents says of f.                        *)
Heard(e, n, letter, f, part, none) ==
    LET said == Saying(n, letter, f, part, none)
    IN  e = IF said = {} THEN none ELSE Docs[args[LastOf(said)].arg].files[f][part]

KeysOK(n) == keys = UNION {Docs[args[i].arg].keys : i \in Told(n, "k", "keys")}

BlocksOK(n) == \A f \in FHash : Heard(blocks[f], n, "b", f, "blocks", <<>>)

InfosOK(n) == \A f \in FHash : Heard(infos[f], n, "r", f, "info", NoInfo)

StoresOK(n) ==
    /\ tool = "LXRbackup" => InfosOK(n)
    /\ tool # "LXRbackup" => KeysOK(n) /\ BlocksOK(n)

GoingOn(n) == FlagsOK(n) /\ ConfigOK(n) /\ ListsOK(n) /\ StoresOK(n)

LineInv ==
    /\ tool \in Tools /\ Len(args) \in Nat /\ optind \in 1..Len(args) + 1
    /\ status \in {"parsing", "run"} => GoingOn(optind)
    /\ StatusIsExplained

-----------------------------------------------------------------------------
(* The options before another one, and the last of them                    *)

LEMMA LastIsNew ==
    ASSUME NEW n \in Nat, NEW S, S \subseteq 1..n - 1
    PROVE  LastOf(S \cup {n}) = n
<1> DEFINE P(i) == i \in S \cup {n} /\ \A j \in S \cup {n} : j <= i
<1>1. P(n)
  OBVIOUS
<1>2. \A i : P(i) => i = n
  OBVIOUS
<1>3. LastOf(S \cup {n}) = CHOOSE i : P(i)
  BY DEF LastOf
<1> HIDE DEF P
<1>4. P(CHOOSE i : P(i))
  BY <1>1
<1> QED BY <1>2, <1>3, <1>4

LEMMA BeforeNext ==
    ASSUME NEW n \in Nat \ {0}, NEW letter
    PROVE  /\ Before(n, letter) \subseteq 1..n - 1
           /\ Before(n + 1, letter) = IF args[n].opt = letter THEN Before(n, letter) \cup {n}
                                                             ELSE Before(n, letter)
<1>1. \A j : j \in 1..(n + 1) - 1 <=> j \in 1..n - 1 \/ j = n
  OBVIOUS
<1> QED BY <1>1 DEF Before

LEMMA FiniteBefore ==
    ASSUME NEW n \in Nat \ {0}, NEW letter
    PROVE  IsFiniteSet(Before(n, letter))
<1>1. IsFiniteSet(1..n - 1)
  BY FS_Interval
<1>2. Before(n, letter) \subseteq 1..n - 1
  BY DEF Before
<1> QED BY <1>1, <1>2, FS_Subset

LEMMA BeforeCounts ==
    ASSUME NEW n \in Nat \ {0}, NEW letter
    PROVE  /\ Cardinality(Before(n, letter)) \in Nat
           /\ Cardinality(Before(n + 1, letter))
                 = IF args[n].opt = letter THEN Cardinality(Before(n, letter)) + 1
                                           ELSE Cardinality(Before(n, letter))
<1>1. Before(n, letter) \subseteq 1..n - 1 /\ n \notin 1..n - 1
  BY DEF Before
<1>2. IsFiniteSet(Before(n, letter))
  BY <1>1, FiniteBefore
<1>3. Cardinality(Before(n, letter)) \in Nat
  BY <1>2, FS_CardinalityType
<1>4. Cardinality(Before(n, letter) \cup {n}) = Cardinality(Before(n, letter)) + 1
  BY <1>1, <1>2, FS_AddElement
<1> QED BY <1>3, <1>4, BeforeNext

(* An option has fewer of its kind before it than there are.               *)
LEMMA PlaceIsFree ==
    ASSUME NEW n \in Nat \ {0}, NEW letter, NEW i \in Before(n, letter)
    PROVE  Cardinality(Before(i, letter)) + 1 <= Cardinality(Before(n, letter))
<1>1. i \in Nat \ {0} /\ i < n /\ args[i].opt = letter
  BY DEF Before
<1>2. Before(i + 1, letter) \subseteq Before(n, letter)
  BY <1>1 DEF Before
<1>3. IsFiniteSet(Before(n, letter))
  BY FiniteBefore
<1> QED BY <1>1, <1>2, <1>3, BeforeCounts, FS_Subset

LEMMA NoneBefore == \A letter : Before(1, letter) = {}
BY DEF Before

-----------------------------------------------------------------------------
(* What is wrong with an option does not change                            *)

LEMMA SameLine ==
    ASSUME UNCHANGED <<tool, args>>, NEW i
    PROVE  /\ Wrong(i)' <=> Wrong(i)
           /\ Exiting(i)' <=> Exiting(i)
           /\ Undecrypted(i)' <=> Undecrypted(i)
BY DEF Wrong, Exiting, Undecrypted, Settings, Lists, Documents, Acceptable, Found, Before, Decrypts,
       Legible

LEMMA Letterings ==
    ASSUME tool \in Tools
    PROVE  \A l : /\ l \in Settings =>
                        l \in Letters /\ l \notin Flags \cup Texts \cup Lists \cup Documents
                  /\ l \in Lists => l \in {"f", "d", "D"} /\ l \notin Flags \cup Texts \cup Documents
                  /\ l \in Documents => l \in {"r", "b", "k"} /\ l \notin Flags \cup Texts
                  /\ l \in {"nogpg", "dry-run"} => l \in Flags
                  /\ l \in Texts => l \notin Flags
BY DEF Tools, Settings, Letters, Flags, Texts, Lists, Documents

LEMMA WrongCases ==
    ASSUME tool \in Tools, NEW i
    PROVE  /\ args[i].opt \in Settings => (Wrong(i) <=> ~Acceptable(args[i]))
           /\ args[i].opt \in Lists =>
                 (Wrong(i) <=> \/ ~Found(args[i])
                               \/ Cardinality(Before(i, args[i].opt)) + 1
                                      >= (IF args[i].opt = "f" THEN MaxFiles ELSE MaxDirs))
           /\ args[i].opt \in Documents =>
                 (Wrong(i) <=>
                      \/ args[i].arg \notin DOMAIN Docs
                      \/ Docs[args[i].arg].encrypted /\ ~Decrypts(i)
                      \/ Legible(i) /\ RefusedBy(args[i].opt, Docs[args[i].arg]))
           /\ args[i].opt \notin Settings \cup Lists \cup Documents => ~Wrong(i)
BY Letterings DEF Wrong

LEMMA SameBefore ==
    ASSUME UNCHANGED <<tool, args>>
    PROVE  /\ \A i : \A l : Before(i, l)' = Before(i, l)
           /\ \A l : Named(l)' = Named(l)
           /\ \A l : Arguments(l)' = Arguments(l)
BY DEF Before, Named, Arguments

LEMMA SameSaying ==
    ASSUME UNCHANGED <<tool, args>>
    PROVE  /\ \A n : \A l : \A root : Told(n, l, root)' = Told(n, l, root)
           /\ \A n : \A l : \A f : \A part : \A none :
                 Saying(n, l, f, part, none)' = Saying(n, l, f, part, none)
<1>1. ASSUME NEW n, NEW l, NEW root PROVE Told(n, l, root)' = Told(n, l, root)
  BY DEF Told, Legible, Decrypts, Before
<1>2. ASSUME NEW n, NEW l, NEW f, NEW part, NEW none
      PROVE  Saying(n, l, f, part, none)' = Saying(n, l, f, part, none)
  BY <1>1 DEF Saying
<1> QED BY <1>1, <1>2

-----------------------------------------------------------------------------
(* An option that does not concern a part of the state leaves it right.    *)

LEMMA FlagsStay ==
    ASSUME NEW n \in Nat \ {0}, FlagsOK(n), UNCHANGED <<tool, args, use_gpg, dry_run>>,
           args[n].opt \notin {"nogpg", "dry-run"}
    PROVE  FlagsOK(n + 1)'
<1>1. \A l \in {"nogpg", "dry-run"} : Before(n + 1, l) = Before(n, l)
  BY BeforeNext
<1> QED BY <1>1 DEF FlagsOK, Before

LEMMA ConfigStays ==
    ASSUME NEW n \in Nat \ {0}, ConfigOK(n), UNCHANGED <<tool, args, config>>,
           args[n].opt \notin Settings
    PROVE  ConfigOK(n + 1)'
<1>1. \A l \in Settings : Before(n + 1, l) = Before(n, l)
  BY BeforeNext
<1>2. ConfigOK(n + 1)
  BY <1>1 DEF ConfigOK
<1>3. Settings' = Settings
  BY DEF Settings
<1>4. ASSUME NEW l \in Settings PROVE Before(n + 1, l)' = Before(n + 1, l)
  BY SameBefore
<1> QED BY <1>2, <1>3, <1>4 DEF ConfigOK, Default

LEMMA ListsSame ==
    ASSUME NEW n, ListsOK(n), UNCHANGED <<tool, args, lists>>
    PROVE  ListsOK(n)'
<1>1. Lists' = Lists
  BY DEF Lists
<1>2. ASSUME NEW l \in Lists PROVE Holds(lists[l], l, n)'
  <2> DEFINE q == lists[l]
  <2>1. Holds(q, l, n) /\ q' = q
    BY DEF ListsOK
  <2> HIDE DEF q
  <2>2. Holds(q, l, n)'
    BY <2>1, SameBefore DEF Holds
  <2> QED BY <2>2 DEF q
<1> QED BY <1>1, <1>2 DEF ListsOK

LEMMA ListsStay ==
    ASSUME NEW n \in Nat \ {0}, ListsOK(n), UNCHANGED <<tool, args, lists>>,
           args[n].opt \notin Lists
    PROVE  ListsOK(n + 1)'
<1>1. \A l \in Lists : Before(n + 1, l) = Before(n, l)
  BY BeforeNext
<1>2. ListsOK(n + 1)
  BY <1>1 DEF ListsOK, Holds
<1> QED BY <1>2, ListsSame

LEMMA StoresStay ==
    ASSUME NEW n \in Nat \ {0}, StoresOK(n), UNCHANGED <<tool, args, storeVars>>,
           tool \in Tools, args[n].opt \notin Documents
    PROVE  StoresOK(n + 1)'
<1>1. \A l \in Documents : Before(n + 1, l) = Before(n, l)
  BY BeforeNext
<1>2. StoresOK(n + 1)
  BY <1>1 DEF StoresOK, InfosOK, KeysOK, BlocksOK, Heard, Saying, Told, Documents, Tools
<1> QED BY <1>2, SameSaying DEF StoresOK, InfosOK, KeysOK, BlocksOK, Heard, storeVars

-----------------------------------------------------------------------------
(* An option that does: flags, settings, lists                             *)

LEMMA FlagIsSet ==
    ASSUME NEW n \in Nat \ {0}, FlagsOK(n), UNCHANGED <<tool, args>>,
           use_gpg' = (use_gpg /\ args[n].opt # "nogpg"),
           dry_run' = (dry_run \/ args[n].opt = "dry-run")
    PROVE  FlagsOK(n + 1)'
<1>1. \A l : Before(n + 1, l)' = Before(n + 1, l)
  BY SameBefore
<1>2. \A l : Before(n + 1, l) = IF args[n].opt = l THEN Before(n, l) \cup {n} ELSE Before(n, l)
  BY BeforeNext
<1>3. /\ Before(n + 1, "nogpg") = {} <=> Before(n, "nogpg") = {} /\ args[n].opt # "nogpg"
      /\ Before(n + 1, "dry-run") # {} <=> Before(n, "dry-run") # {} \/ args[n].opt = "dry-run"
  BY <1>2
<1> QED BY <1>1, <1>3 DEF FlagsOK

(* What is accepted is not None.                                           *)
LEMMA AcceptableIsSomething ==
    ASSUME NEW o, o.opt \in Letters, Acceptable(o)
    PROVE  o.arg # None
<1>1. CASE o.opt \in {"x", "o"}
  BY <1>1, NoneAssumption DEF Acceptable
<1>2. CASE o.opt = "n"
  <2>1. o.arg \in 16..256
    BY <1>2 DEF Acceptable
  <2> QED BY <2>1, NoneAssumption
<1>3. CASE o.opt = "y"
  BY <1>3, NoneAssumption DEF Acceptable
<1>4. CASE o.opt = "k"
  BY <1>4, NoneAssumption DEF Acceptable
<1> QED BY <1>1, <1>2, <1>3, <1>4 DEF Letters

LEMMA SettingIsTaken ==
    ASSUME NEW n \in Nat \ {0}, ConfigOK(n), UNCHANGED <<tool, args>>, tool \in Tools,
           args[n].opt \in Settings, Acceptable(args[n]),
           config' = [config EXCEPT ![args[n].opt] = args[n].arg]
    PROVE  ConfigOK(n + 1)'
<1> DEFINE o == args[n].opt
<1>1. DOMAIN config' = Letters
  BY DEF ConfigOK
<1>2. o \in Letters /\ config'[o] = args[n].arg /\ \A s \in Letters \ {o} : config'[s] = config[s]
  BY Letterings DEF ConfigOK
<1>3. args[n].arg # None
  BY <1>2, AcceptableIsSomething
<1>4. Before(n + 1, o) # {} /\ LastOf(Before(n + 1, o)) = n
  <2>1. Before(n, o) \subseteq 1..n - 1 /\ Before(n + 1, o) = Before(n, o) \cup {n}
    BY BeforeNext
  <2> QED BY <2>1, LastIsNew
<1> HIDE DEF o
<1>5. ASSUME NEW s \in Settings, s # o
      PROVE  Before(n + 1, s) = Before(n, s) /\ config'[s] = config[s]
  BY <1>2, <1>5, BeforeNext, Letterings DEF o
<1>6. Settings' = Settings
  BY DEF Settings
<1>7. \A l : Before(n + 1, l)' = Before(n + 1, l)
  BY SameBefore
<1>8. ASSUME NEW s \in Settings
      PROVE  IF Before(n + 1, s) = {} THEN config'[s] = Default(s)
             ELSE config'[s] = args[LastOf(Before(n + 1, s))].arg /\ config'[s] # None
  <2>1. CASE s = o
    BY <1>2, <1>3, <1>4, <2>1
  <2>2. CASE s # o
    BY <1>5, <2>2 DEF ConfigOK
  <2> QED BY <2>1, <2>2
<1>9. ASSUME NEW s \in Settings
      PROVE  (IF Before(n + 1, s) = {} THEN config[s] = Default(s)
              ELSE config[s] = args[LastOf(Before(n + 1, s))].arg /\ config[s] # None)'
  <2>1. Before(n + 1, s)' = Before(n + 1, s)
    BY <1>7
  <2>2. LastOf(Before(n + 1, s))' = LastOf(Before(n + 1, s))
    BY <2>1 DEF LastOf
  <2> QED BY <1>8, <2>1, <2>2 DEF Default
<1> QED BY <1>1, <1>6, <1>9 DEF ConfigOK

LEMMA HoldsMore ==
    ASSUME NEW n \in Nat \ {0}, NEW l, NEW q, Holds(q, l, n),
           Len(args) \in Nat, n <= Len(args), args[n].opt = l
    PROVE  Holds(Append(q, args[n].arg), l, n + 1)
<1> DEFINE e == args[n].arg
           r == Append(q, e)
           m == Len(q)
<1>1. n \in Named(l) /\ e \in Arguments(l)
  BY DEF Named, Before, Arguments
<1>2. q \in Seq(Arguments(l)) /\ m \in Nat /\ m = Cardinality(Before(n, l))
  BY LenProperties DEF Holds
<1>3. r \in Seq(Arguments(l)) /\ Len(r) = m + 1 /\ r[m + 1] = e /\ \A k \in 1..m : r[k] = q[k]
  BY <1>1, <1>2, AppendProperties
<1>4. Before(n + 1, l) = Before(n, l) \cup {n} /\ Cardinality(Before(n + 1, l)) = m + 1
  BY <1>2, BeforeNext, BeforeCounts
<1>5. ASSUME NEW i \in Before(n, l) PROVE r[Cardinality(Before(i, l)) + 1] = args[i].arg
  <2>1. i \in Nat \ {0}
    BY DEF Before
  <2>2. Cardinality(Before(i, l)) + 1 \in 1..m
    <3>1. Cardinality(Before(i, l)) \in Nat
      BY <2>1, BeforeCounts
    <3>2. Cardinality(Before(i, l)) + 1 <= m
      BY <1>2, PlaceIsFree
    <3> HIDE DEF m
    <3> QED BY <1>2, <3>1, <3>2
  <2>3. q[Cardinality(Before(i, l)) + 1] = args[i].arg
    BY DEF Holds
  <2> HIDE DEF r, m
  <2> QED BY <1>3, <2>2, <2>3
<1> HIDE DEF r, m
<1> QED BY <1>2, <1>3, <1>4, <1>5 DEF Holds, r, e

LEMMA HoldsStill ==
    ASSUME NEW n \in Nat \ {0}, NEW l, NEW q, Holds(q, l, n), args[n].opt # l
    PROVE  Holds(q, l, n + 1)
BY BeforeNext DEF Holds

LEMMA ListGrows ==
    ASSUME NEW n \in Nat \ {0}, ListsOK(n), UNCHANGED <<tool, args>>, tool \in Tools,
           Len(args) \in Nat, n <= Len(args), args[n].opt \in Lists,
           lists' = [lists EXCEPT ![args[n].opt] = Append(@, args[n].arg)]
    PROVE  ListsOK(n + 1)'
<1> DEFINE o == args[n].opt
           q(l) == IF l = o THEN Append(lists[l], args[n].arg) ELSE lists[l]
<1>1. DOMAIN lists' = {"f", "d", "D"} /\ \A l \in {"f", "d", "D"} : lists'[l] = q(l)
  BY Letterings DEF ListsOK
<1>2. ASSUME NEW l \in Lists PROVE Holds(q(l), l, n + 1)
  BY HoldsMore, HoldsStill DEF ListsOK
<1>3. Lists' = Lists
  BY DEF Lists
<1>4. ASSUME NEW l \in Lists PROVE Holds(lists[l], l, n + 1)'
  <2>1. lists'[l] = q(l)
    BY <1>1, Letterings
  <2> HIDE DEF q
  <2>2. Holds(lists'[l], l, n + 1)
    BY <1>2, <2>1
  <2>3. lists'[l] \in Seq(Arguments(l)) /\ Len(lists'[l]) = Cardinality(Before(n + 1, l))
    BY <2>2 DEF Holds
  <2>4. \A i \in Before(n + 1, l) : lists'[l][Cardinality(Before(i, l)) + 1] = args[i].arg
    BY <2>2 DEF Holds
  <2> QED BY <2>3, <2>4, SameBefore DEF Holds
<1> QED BY <1>1, <1>3, <1>4 DEF ListsOK

-----------------------------------------------------------------------------
(* Documents                                                               *)

(* What the option sees of a document: all of it if it is legible there,   *)
(* and else nothing or what is refused.                                    *)
LEMMA SeenOfDocument ==
    ASSUME NEW n \in Nat \ {0}, FlagsOK(n), args[n].opt \in Documents, args[n].arg \in DOMAIN Docs,
           NEW t \in TextsOf(Docs[args[n].arg])
    PROVE  \/ Legible(n) /\ t = Docs[args[n].arg]
           \/ ~Legible(n) /\ t \in {Nothing, Garbage} /\ Undecrypted(n)
           \/ ~Legible(n) /\ t = Garbage /\ Docs[args[n].arg].encrypted /\ ~Decrypts(n)
<1> DEFINE d == Docs[args[n].arg]
<1>1. d.encrypted \in BOOLEAN /\ use_gpg \in BOOLEAN /\ Decrypts(n) \in BOOLEAN
  BY DocsAssumption DEF FlagsOK, Decrypts
<1>2. use_gpg = Decrypts(n)
  BY <1>1 DEF FlagsOK, Decrypts
<1>3. CASE use_gpg = d.encrypted
  BY <1>1, <1>2, <1>3 DEF TextsOf, Legible
<1>4. CASE use_gpg /\ ~d.encrypted
  <2>1. TextsOf(d) = {Nothing, Garbage}
    BY <1>1, <1>4 DEF TextsOf
  <2> QED BY <1>2, <1>4, <2>1 DEF Legible, Undecrypted
<1>5. CASE ~use_gpg /\ d.encrypted
  <2>1. TextsOf(d) = {Garbage}
    BY <1>1, <1>5 DEF TextsOf
  <2> QED BY <1>2, <1>5, <2>1 DEF Legible
<1> QED BY <1>1, <1>3, <1>4, <1>5

LEMMA ToldNext ==
    ASSUME NEW n \in Nat \ {0}, NEW letter, NEW root
    PROVE  /\ Told(n, letter, root) \subseteq 1..n - 1
           /\ Told(n + 1, letter, root) =
                 IF args[n].opt = letter /\ Legible(n) /\ Docs[args[n].arg].root = root
                 THEN Told(n, letter, root) \cup {n} ELSE Told(n, letter, root)
BY BeforeNext DEF Told

(* The last document that says something of a file is what counts.         *)
LEMMA HeardNext ==
    ASSUME NEW n \in Nat \ {0}, NEW e, NEW letter, NEW f, NEW part, NEW none,
           Heard(e, n, letter, f, part, none), NEW says,
           says <=> /\ args[n].opt = letter /\ Legible(n) /\ Docs[args[n].arg].root = "files"
                    /\ Docs[args[n].arg].files[f][part] # none
    PROVE  Heard(IF says THEN Docs[args[n].arg].files[f][part] ELSE e, n + 1, letter, f, part, none)
<1> DEFINE old == Saying(n, letter, f, part, none)
           new == Saying(n + 1, letter, f, part, none)
<1>1. old \subseteq 1..n - 1
  BY ToldNext DEF Saying
<1>2. CASE says
  <2>1. new = old \cup {n}
    BY <1>2, ToldNext DEF Saying
  <2>2. LastOf(new) = n /\ new # {}
    BY <1>1, <2>1, LastIsNew
  <2> QED BY <1>2, <2>2 DEF Heard
<1>3. CASE ~says
  <2>1. new = old
    BY <1>3, ToldNext DEF Saying
  <2> QED BY <1>3, <2>1 DEF Heard
<1> QED BY <1>2, <1>3

(* The store that a document is read into takes over what the option sees. *)
LEMMA DocumentIsRead ==
    ASSUME NEW n \in Nat \ {0}, StoresOK(n), FlagsOK(n), UNCHANGED <<tool, args>>, tool \in Tools,
           args[n].opt \in Documents, args[n].arg \in DOMAIN Docs,
           NEW t \in TextsOf(Docs[args[n].arg]), ~RefusedBy(args[n].opt, t),
           InStream(args[n].opt, t)
    PROVE  StoresOK(n + 1)' /\ ~Wrong(n)
<1> DEFINE d == Docs[args[n].arg]
           o == args[n].opt
           files == IF t.root = "files" THEN t.files ELSE Nothing.files
           says(f, part, none) == Legible(n) /\ d.root = "files" /\ d.files[f][part] # none
<1>1. t # Garbage
  BY DEF RefusedBy, Garbage, Nothing
<1>2. \/ Legible(n) /\ t = d
      \/ ~Legible(n) /\ t = Nothing /\ Undecrypted(n)
  BY <1>1, SeenOfDocument
<1>3. ~Wrong(n)
  BY <1>2, WrongCases DEF Undecrypted, Legible
<1>4. Nothing.root = "none"
      /\ \A f \in FHash : Nothing.files[f].info = NoInfo /\ Nothing.files[f].blocks = <<>>
  BY DEF Nothing
<1>5. \A f \in FHash : /\ files[f].info # NoInfo <=> says(f, "info", NoInfo)
                       /\ files[f].blocks # <<>> <=> says(f, "blocks", <<>>)
                       /\ Legible(n) /\ d.root = "files" => files = d.files
  BY <1>2, <1>4
<1>6. ASSUME tool = "LXRbackup" PROVE InfosOK(n + 1)'
  <2>1. o = "r"
    BY <1>6 DEF Documents
  <2>2. infos' = ReadInfos(infos, files)
    BY <2>1 DEF InStream
  <2>3. ASSUME NEW f \in FHash PROVE Heard(infos'[f], n + 1, "r", f, "info", NoInfo)
    <3>1. Heard(infos[f], n, "r", f, "info", NoInfo)
      BY <1>6 DEF StoresOK, InfosOK
    <3>2. infos'[f] = IF says(f, "info", NoInfo) THEN d.files[f]["info"] ELSE infos[f]
      BY <1>5, <2>2 DEF ReadInfos, Listed
    <3> QED BY <2>1, <3>1, <3>2, HeardNext
  <2> QED BY <2>3, SameSaying DEF InfosOK, Heard
<1>7. ASSUME tool # "LXRbackup" PROVE BlocksOK(n + 1)' /\ KeysOK(n + 1)'
  <2>1. o \in {"b", "k"}
    BY <1>7 DEF Documents
  <2>2. BlocksOK(n) /\ KeysOK(n)
    BY <1>7 DEF StoresOK
  <2>3. CASE o = "b"
    <3>1. blocks' = ReadBlocks(blocks, files) /\ keys' = keys
      BY <2>3 DEF InStream
    <3>2. ASSUME NEW f \in FHash PROVE Heard(blocks'[f], n + 1, "b", f, "blocks", <<>>)
      <4>1. Heard(blocks[f], n, "b", f, "blocks", <<>>)
        BY <2>2 DEF BlocksOK
      <4>2. blocks'[f] = IF says(f, "blocks", <<>>) THEN d.files[f]["blocks"] ELSE blocks[f]
        BY <1>5, <3>1 DEF ReadBlocks
      <4> QED BY <2>3, <4>1, <4>2, HeardNext
    <3>3. Told(n + 1, "k", "keys") = Told(n, "k", "keys")
      BY <2>3, ToldNext
    <3>4. BlocksOK(n + 1)'
      BY <3>2, SameSaying DEF BlocksOK, Heard
    <3>5. KeysOK(n + 1)'
      BY <2>2, <3>1, <3>3, SameSaying DEF KeysOK
    <3> QED BY <3>4, <3>5
  <2>4. CASE o = "k"
    <3>1. blocks' = blocks /\ keys' = keys \cup (IF t.root = "keys" THEN t.keys ELSE {})
      BY <2>4 DEF InStream, ReadKeys
    <3>2. ASSUME NEW f \in FHash PROVE Heard(blocks'[f], n + 1, "b", f, "blocks", <<>>)
      <4>1. Heard(blocks[f], n, "b", f, "blocks", <<>>)
        BY <2>2 DEF BlocksOK
      <4>2. Saying(n + 1, "b", f, "blocks", <<>>) = Saying(n, "b", f, "blocks", <<>>)
        BY <2>4, ToldNext DEF Saying
      <4> QED BY <3>1, <4>1, <4>2 DEF Heard
    <3>3. /\ Legible(n) /\ d.root = "keys" =>
                keys' = keys \cup d.keys /\ Told(n + 1, "k", "keys") = Told(n, "k", "keys") \cup {n}
          /\ ~(Legible(n) /\ d.root = "keys") =>
                keys' = keys /\ Told(n + 1, "k", "keys") = Told(n, "k", "keys")
      BY <1>2, <1>4, <2>4, <3>1, ToldNext
    <3>4. keys' = UNION {Docs[args[i].arg].keys : i \in Told(n + 1, "k", "keys")}
      <4>1. CASE Legible(n) /\ d.root = "keys"
        BY <2>2, <3>3, <4>1 DEF KeysOK
      <4>2. CASE ~(Legible(n) /\ d.root = "keys")
        BY <2>2, <3>3, <4>2 DEF KeysOK
      <4> QED BY <4>1, <4>2
    <3>5. BlocksOK(n + 1)'
      BY <3>2, SameSaying DEF BlocksOK, Heard
    <3>6. KeysOK(n + 1)'
      BY <3>4, SameSaying DEF KeysOK
    <3> QED BY <3>5, <3>6
  <2> QED BY <2>1, <2>3, <2>4
<1>8. StoresOK(n + 1)'
  BY <1>6, <1>7 DEF StoresOK
<1> QED BY <1>3, <1>8

-----------------------------------------------------------------------------
(* The status                                                              *)

LEMMA LineInitInv == Init => LineInv
<1> SUFFICES ASSUME Init PROVE LineInv
  OBVIOUS
<1>1. PICK l \in Lines : tool = l.tool /\ \E a \in l.start, b \in l.end : args = a \o b
  BY DEF Init
<1>2. PICK a \in l.start, b \in l.end : args = a \o b
  BY <1>1
<1>3. tool \in Tools
  BY <1>1, LinesAssumption DEF Tools
<1>4. Len(args) \in Nat
  <2>1. a \in Seq({a[i] : i \in 1..Len(a)}) /\ b \in Seq({b[i] : i \in 1..Len(b)})
    BY LinesAssumption
  <2>2. Len(a) \in Nat /\ Len(b) \in Nat
    BY <2>1, LenProperties
  <2> DEFINE S == {a[i] : i \in 1..Len(a)} \cup {b[i] : i \in 1..Len(b)}
  <2>3. a \in Seq(S) /\ b \in Seq(S)
    BY <2>1, SeqMonotonic
  <2> HIDE DEF S
  <2> QED BY <1>2, <2>3
<1>5. optind = 1 /\ status = "parsing"
  BY DEF Init
<1>6. FlagsOK(1)
  BY NoneBefore DEF Init, FlagsOK
<1>7. ConfigOK(1)
  BY <1>3, NoneBefore, Letterings DEF Init, ConfigOK, Default, Letters
<1>8. ListsOK(1)
  <2>1. Cardinality({}) = 0 /\ Len(<<>>) = 0 /\ \A S : <<>> \in Seq(S)
    BY FS_EmptySet, EmptySeq
  <2>2. \A l1 \in Lists : lists[l1] = <<>>
    BY <1>3, Letterings DEF Init
  <2> QED BY <2>1, <2>2, NoneBefore DEF Init, ListsOK, Holds
<1>9. StoresOK(1)
  <2>1. \A letter : \A root : Told(1, letter, root) = {}
    BY NoneBefore DEF Told
  <2>2. \A letter : \A f : \A part : \A none : Saying(1, letter, f, part, none) = {}
    BY <2>1 DEF Saying
  <2>3. keys = {} /\ \A f \in FHash : blocks[f] = <<>> /\ infos[f] = NoInfo
    BY DEF Init, NoBlocks, NoInfos
  <2> QED BY <2>1, <2>2, <2>3 DEF StoresOK, InfosOK, BlocksOK, KeysOK, Heard
<1>10. StatusIsExplained
  BY <1>5 DEF StatusIsExplained
<1> QED BY <1>3, <1>4, <1>5, <1>6, <1>7, <1>8, <1>9, <1>10 DEF LineInv, GoingOn

(* An option has been taken over, or was none of this tool's.              *)
LEMMA OptionIsTaken ==
    ASSUME LineInv, UNCHANGED <<tool, args>>, NEW n, n = optind, n <= Len(args),
           optind' = n + 1, status = "parsing", status' = "parsing",
           GoingOn(n + 1)', ~Wrong(n), ~Exiting(n)
    PROVE  LineInv'
<1>1. /\ tool \in Tools /\ Len(args) \in Nat /\ n \in 1..Len(args) /\ n + 1 \in 1..Len(args) + 1
      /\ \A i \in 1..n - 1 : ~Wrong(i) /\ ~Exiting(i)
  BY DEF LineInv, StatusIsExplained
<1>2. \A i \in 1..n : ~Wrong(i) /\ ~Exiting(i)
  BY <1>1
<1>3. \A i : (Wrong(i)' <=> Wrong(i)) /\ (Exiting(i)' <=> Exiting(i))
  BY SameLine
<1>4. \A i \in 1..n : ~Wrong(i)' /\ ~Exiting(i)'
  BY <1>2, <1>3
<1>5. StatusIsExplained'
  <2>1. (n + 1) - 1 = n /\ \A i : i \in 1..(n + 1) - 2 => i \in 1..n
    BY <1>1
  <2> QED BY <1>4, <2>1 DEF StatusIsExplained
<1>6. GoingOn(optind)'
  BY DEF GoingOn
<1> QED BY <1>1, <1>5, <1>6 DEF LineInv, Tools

(* An option made the tool exit.                                           *)
LEMMA OptionExits ==
    ASSUME LineInv, UNCHANGED <<tool, args>>, NEW n, n = optind, n <= Len(args),
           optind' = n + 1, status = "parsing",
           \/ status' = "exit1" /\ (Wrong(n) \/ Undecrypted(n))
           \/ status' = "exit0" /\ Exiting(n)
    PROVE  LineInv'
<1>1. /\ tool \in Tools /\ Len(args) \in Nat /\ n \in 1..Len(args) /\ n + 1 \in 1..Len(args) + 1
      /\ \A i \in 1..n - 1 : ~Wrong(i) /\ ~Exiting(i)
  BY DEF LineInv, StatusIsExplained
<1>2. \A i : /\ Wrong(i)' <=> Wrong(i)
             /\ Exiting(i)' <=> Exiting(i)
             /\ Undecrypted(i)' <=> Undecrypted(i)
  BY SameLine
<1>3. \A i \in 1..n - 1 : ~Wrong(i)' /\ ~Exiting(i)'
  BY <1>1, <1>2
<1>4. (status' = "exit1" => Wrong(n)' \/ Undecrypted(n)') /\ (status' = "exit0" => Exiting(n)')
  BY <1>2
<1>5. StatusIsExplained'
  <2>1. (n + 1) - 1 = n /\ (n + 1) - 2 = n - 1
    BY <1>1
  <2> QED BY <1>3, <1>4, <2>1 DEF StatusIsExplained
<1> QED BY <1>1, <1>5 DEF LineInv, Tools

LEMMA Parsed ==
    ASSUME LineInv, status = "parsing"
    PROVE  /\ GoingOn(optind) /\ tool \in Tools /\ Len(args) \in Nat
           /\ optind \in Nat \ {0} /\ optind <= Len(args) + 1
BY DEF LineInv

(* What the taken option leaves alone.                                     *)
LEMMA Untouched ==
    ASSUME NEW n \in Nat \ {0}, GoingOn(n), UNCHANGED <<tool, args>>, tool \in Tools
    PROVE  /\ UNCHANGED <<use_gpg, dry_run>> /\ args[n].opt \notin Flags => FlagsOK(n + 1)'
           /\ UNCHANGED config /\ args[n].opt \notin Settings => ConfigOK(n + 1)'
           /\ UNCHANGED lists /\ args[n].opt \notin Lists => ListsOK(n + 1)'
           /\ UNCHANGED storeVars /\ args[n].opt \notin Documents => StoresOK(n + 1)'
<1>1. ASSUME UNCHANGED <<use_gpg, dry_run>>, args[n].opt \notin Flags PROVE FlagsOK(n + 1)'
  BY <1>1, FlagsStay, Letterings DEF GoingOn
<1>2. ASSUME UNCHANGED config, args[n].opt \notin Settings PROVE ConfigOK(n + 1)'
  BY <1>2, ConfigStays DEF GoingOn
<1>3. ASSUME UNCHANGED lists, args[n].opt \notin Lists PROVE ListsOK(n + 1)'
  BY <1>3, ListsStay DEF GoingOn
<1>4. ASSUME UNCHANGED storeVars, args[n].opt \notin Documents PROVE StoresOK(n + 1)'
  BY <1>4, StoresStay DEF GoingOn
<1> QED BY <1>1, <1>2, <1>3, <1>4

LEMMA SetFlagInv ==
    ASSUME LineInv, SetFlag
    PROVE  LineInv'
<1>1. PICK n : n = optind
  OBVIOUS
<1>2. /\ status = "parsing" /\ n <= Len(args) /\ args[n].opt \in Flags
      /\ UNCHANGED <<tool, args, config, lists, storeVars>> /\ optind' = n + 1 /\ status' = "parsing"
      /\ use_gpg' = (use_gpg /\ args[n].opt # "nogpg")
      /\ dry_run' = (dry_run \/ args[n].opt = "dry-run")
  BY <1>1 DEF SetFlag, Parsing, Option, NextOption
<1>3. GoingOn(n) /\ tool \in Tools /\ n \in Nat \ {0}
  BY <1>1, <1>2, Parsed
<1>4. args[n].opt \notin Settings \cup Lists \cup Documents \cup Texts
  BY <1>2, <1>3, Letterings
<1>5. ConfigOK(n + 1)' /\ ListsOK(n + 1)' /\ StoresOK(n + 1)'
  BY <1>2, <1>3, <1>4, Untouched
<1>6. FlagsOK(n + 1)'
  BY <1>2, <1>3, FlagIsSet DEF GoingOn
<1>7. ~Wrong(n) /\ ~Exiting(n)
  BY <1>3, <1>4, WrongCases DEF Exiting
<1> QED BY <1>1, <1>2, <1>5, <1>6, <1>7, OptionIsTaken DEF GoingOn

LEMMA ShowTextInv ==
    ASSUME LineInv, ShowText
    PROVE  LineInv'
<1>1. PICK n : n = optind
  OBVIOUS
<1>2. /\ status = "parsing" /\ n <= Len(args) /\ args[n].opt \in Texts
      /\ UNCHANGED <<tool, args, use_gpg, dry_run, config, lists, storeVars>> /\ optind' = n + 1
      /\ status' = IF Exiting(n) THEN "exit0" ELSE "parsing"
  BY <1>1 DEF ShowText, Parsing, Option, NextOption, Exit, Exiting, Texts
<1>3. GoingOn(n) /\ tool \in Tools /\ n \in Nat \ {0}
  BY <1>1, <1>2, Parsed
<1>4. args[n].opt \notin Settings \cup Lists \cup Documents \cup Flags
  BY <1>2, <1>3, Letterings
<1>5. GoingOn(n + 1)'
  BY <1>2, <1>3, <1>4, Untouched DEF GoingOn
<1>6. ~Wrong(n)
  BY <1>3, <1>4, WrongCases
<1>7. CASE Exiting(n)
  BY <1>1, <1>2, <1>7, OptionExits
<1>8. CASE ~Exiting(n)
  BY <1>1, <1>2, <1>5, <1>6, <1>8, OptionIsTaken
<1> QED BY <1>7, <1>8

LEMMA SetConfigInv ==
    ASSUME LineInv, SetConfig
    PROVE  LineInv'
<1>1. PICK n : n = optind
  OBVIOUS
<1>2. /\ status = "parsing" /\ n <= Len(args) /\ args[n].opt \in Settings
      /\ UNCHANGED <<tool, args, use_gpg, dry_run, lists, storeVars>> /\ optind' = n + 1
      /\ IF Acceptable(args[n])
         THEN config' = [config EXCEPT ![args[n].opt] = args[n].arg] /\ status' = "parsing"
         ELSE status' = "exit1"
  BY <1>1 DEF SetConfig, Parsing, Option, NextOption, Exit
<1>3. GoingOn(n) /\ tool \in Tools /\ n \in Nat \ {0}
  BY <1>1, <1>2, Parsed
<1>4. args[n].opt \notin Lists \cup Documents \cup Flags \cup Texts
  BY <1>2, <1>3, Letterings
<1>5. Wrong(n) <=> ~Acceptable(args[n])
  BY <1>2, <1>3, WrongCases
<1>6. CASE Acceptable(args[n])
  <2>1. ConfigOK(n + 1)'
    BY <1>2, <1>3, <1>6, SettingIsTaken DEF GoingOn
  <2>2. FlagsOK(n + 1)' /\ ListsOK(n + 1)' /\ StoresOK(n + 1)'
    BY <1>2, <1>3, <1>4, Untouched
  <2>3. ~Exiting(n)
    BY <1>4 DEF Exiting
  <2> QED BY <1>1, <1>2, <1>5, <1>6, <2>1, <2>2, <2>3, OptionIsTaken DEF GoingOn
<1>7. CASE ~Acceptable(args[n])
  BY <1>1, <1>2, <1>5, <1>7, OptionExits
<1> QED BY <1>6, <1>7

LEMMA AddToListInv ==
    ASSUME LineInv, AddToList
    PROVE  LineInv'
<1>1. PICK n : n = optind
  OBVIOUS
<1>2. /\ status = "parsing" /\ n <= Len(args) /\ args[n].opt \in Lists
      /\ UNCHANGED <<tool, args, use_gpg, dry_run, config, storeVars>> /\ optind' = n + 1
      /\ IF RoomFor(args[n].opt) /\ Found(args[n])
         THEN lists' = [lists EXCEPT ![args[n].opt] = Append(@, args[n].arg)] /\ status' = "parsing"
         ELSE status' = "exit1"
  BY <1>1 DEF AddToList, Parsing, Option, NextOption, Exit
<1>3. GoingOn(n) /\ tool \in Tools /\ n \in Nat \ {0} /\ Len(args) \in Nat
  BY <1>1, <1>2, Parsed
<1>4. args[n].opt \notin Settings \cup Documents \cup Flags \cup Texts
  BY <1>2, <1>3, Letterings
<1>5. Wrong(n) <=> ~(RoomFor(args[n].opt) /\ Found(args[n]))
  <2>1. Len(lists[args[n].opt]) = Cardinality(Before(n, args[n].opt))
    BY <1>2, <1>3 DEF GoingOn, ListsOK, Holds
  <2>2. Cardinality(Before(n, args[n].opt)) \in Nat
    BY <1>3, BeforeCounts
  <2>3. RoomFor(args[n].opt) <=>
           ~(Cardinality(Before(n, args[n].opt)) + 1
                >= (IF args[n].opt = "f" THEN MaxFiles ELSE MaxDirs))
    BY <2>1, <2>2, MaxAssumption DEF RoomFor
  <2> QED BY <1>2, <1>3, <2>3, WrongCases
<1>6. CASE RoomFor(args[n].opt) /\ Found(args[n])
  <2>1. ListsOK(n + 1)'
    BY <1>2, <1>3, <1>6, ListGrows DEF GoingOn
  <2>2. FlagsOK(n + 1)' /\ ConfigOK(n + 1)' /\ StoresOK(n + 1)'
    BY <1>2, <1>3, <1>4, Untouched
  <2>3. ~Exiting(n)
    BY <1>4 DEF Exiting
  <2> QED BY <1>1, <1>2, <1>5, <1>6, <2>1, <2>2, <2>3, OptionIsTaken DEF GoingOn
<1>7. CASE ~(RoomFor(args[n].opt) /\ Found(args[n]))
  BY <1>1, <1>2, <1>5, <1>7, OptionExits
<1> QED BY <1>6, <1>7

LEMMA AddDocumentInv ==
    ASSUME LineInv, AddDocument
    PROVE  LineInv'
<1>1. PICK n : n = optind
  OBVIOUS
<1>2. /\ status = "parsing" /\ n <= Len(args) /\ args[n].opt \in Documents
      /\ UNCHANGED <<tool, args, use_gpg, dry_run, config, lists>> /\ optind' = n + 1
  BY <1>1 DEF AddDocument, Parsing, Option, NextOption, Exit
<1>3. GoingOn(n) /\ tool \in Tools /\ n \in Nat \ {0}
  BY <1>1, <1>2, Parsed
<1>4. args[n].opt \notin Settings \cup Lists \cup Flags \cup Texts
  BY <1>2, <1>3, Letterings
<1>5. CASE args[n].arg \notin DOMAIN Docs
  <2>1. status' = "exit1"
    BY <1>1, <1>5 DEF AddDocument, Option, Exit
  <2>2. Wrong(n)
    BY <1>2, <1>3, <1>5, WrongCases
  <2> QED BY <1>1, <1>2, <2>1, <2>2, OptionExits
<1>6. CASE args[n].arg \in DOMAIN Docs
  <2>1. PICK t \in TextsOf(Docs[args[n].arg]) :
            IF RefusedBy(args[n].opt, t) THEN status' = "exit1"
            ELSE InStream(args[n].opt, t) /\ status' = "parsing"
    BY <1>1, <1>2, <1>6 DEF AddDocument, Option, Exit
  <2>2. CASE RefusedBy(args[n].opt, t)
    <3>1. \/ Legible(n) /\ t = Docs[args[n].arg]
          \/ Undecrypted(n)
          \/ Docs[args[n].arg].encrypted /\ ~Decrypts(n)
      BY <1>2, <1>3, <1>6, SeenOfDocument DEF GoingOn
    <3>2. Wrong(n) \/ Undecrypted(n)
      BY <1>2, <1>3, <2>2, <3>1, WrongCases
    <3> QED BY <1>1, <1>2, <2>1, <2>2, <3>2, OptionExits
  <2>3. CASE ~RefusedBy(args[n].opt, t)
    <3>1. StoresOK(n + 1)' /\ ~Wrong(n)
      BY <1>2, <1>3, <1>6, <2>1, <2>3, DocumentIsRead DEF GoingOn
    <3>2. FlagsOK(n + 1)' /\ ConfigOK(n + 1)' /\ ListsOK(n + 1)'
      BY <1>2, <1>3, <1>4, Untouched
    <3>3. ~Exiting(n)
      BY <1>4 DEF Exiting
    <3> QED BY <1>1, <1>2, <2>1, <2>3, <3>1, <3>2, <3>3, OptionIsTaken DEF GoingOn
  <2> QED BY <2>2, <2>3
<1> QED BY <1>5, <1>6

LEMMA IgnoreOptionInv ==
    ASSUME LineInv, IgnoreOption
    PROVE  LineInv'
<1>1. PICK n : n = optind
  OBVIOUS
<1>2. /\ status = "parsing" /\ n <= Len(args)
      /\ args[n].opt \notin Flags \cup Texts \cup Settings \cup Lists \cup Documents
      /\ UNCHANGED <<tool, args, use_gpg, dry_run, config, lists, storeVars>> /\ optind' = n + 1
      /\ status' = "parsing"
  BY <1>1 DEF IgnoreOption, Option, NextOption, Exit
<1>3. GoingOn(n) /\ tool \in Tools /\ n \in Nat \ {0}
  BY <1>1, <1>2, Parsed
<1>4. GoingOn(n + 1)'
  BY <1>2, <1>3, Untouched DEF GoingOn
<1>5. ~Wrong(n) /\ ~Exiting(n)
  BY <1>2, <1>3, WrongCases DEF Exiting
<1> QED BY <1>1, <1>2, <1>4, <1>5, OptionIsTaken

(* Nothing was taken over.                                                 *)
LEMMA GoingOnStays ==
    ASSUME NEW n, GoingOn(n),
           UNCHANGED <<tool, args, use_gpg, dry_run, config, lists, storeVars>>
    PROVE  GoingOn(n)'
<1>1. FlagsOK(n)'
  BY SameBefore DEF GoingOn, FlagsOK
<1>2. ConfigOK(n)'
  BY DEF GoingOn, ConfigOK, Before, Settings
<1>3. ListsOK(n)'
  BY ListsSame DEF GoingOn
<1>4. StoresOK(n)'
  BY SameSaying DEF GoingOn, StoresOK, InfosOK, KeysOK, BlocksOK, Heard, storeVars
<1> QED BY <1>1, <1>2, <1>3, <1>4 DEF GoingOn

LEMMA EndOfOptionsInv ==
    ASSUME LineInv, EndOfOptions
    PROVE  LineInv'
<1>1. PICK n : n = optind
  OBVIOUS
<1>2. /\ status = "parsing" /\ n > Len(args)
      /\ UNCHANGED <<tool, args, use_gpg, dry_run, config, lists, storeVars, optind>>
      /\ status' = IF ~Complete THEN "exit1" ELSE IF dry_run THEN "exit0" ELSE "run"
  BY <1>1 DEF EndOfOptions, Exit
<1>3. /\ GoingOn(n) /\ tool \in Tools /\ n \in Nat \ {0} /\ Len(args) \in Nat /\ n = Len(args) + 1
      /\ optind \in 1..Len(args) + 1
      /\ \A i \in 1..n - 1 : ~Wrong(i) /\ ~Exiting(i)
  BY <1>1, <1>2, Parsed DEF LineInv, StatusIsExplained
<1>4. \A l : Named(l) = Before(n, l)
  BY <1>3 DEF Named
<1>5. /\ Complete => \A s \in Required : Named(s) # {}
      /\ ~Complete => args = <<>> \/ \E s \in Required : Named(s) = {}
  <2>1. ASSUME NEW s \in Required PROVE config[s] = None <=> Named(s) = {}
    BY <1>3, <1>4 DEF Required, GoingOn, ConfigOK, Default
  <2> QED BY <2>1 DEF Complete
<1>6. dry_run <=> Named("dry-run") # {}
  BY <1>3, <1>4 DEF GoingOn, FlagsOK
<1>7. /\ \A i : /\ Wrong(i)' <=> Wrong(i)
                /\ Exiting(i)' <=> Exiting(i)
      /\ \A l : Named(l)' = Named(l)
      /\ Required' = Required
  BY <1>2, SameLine, SameBefore DEF Required, Settings
<1>8. \A i \in 1..n - 1 : ~Wrong(i)' /\ ~Exiting(i)'
  BY <1>3, <1>7
<1>9. StatusIsExplained'
  <2>1. \A i \in 1..n - 2 : i \in 1..n - 1
    BY <1>3
  <2>2. optind' = n /\ args' = args
    BY <1>1, <1>2
  <2> QED BY <1>2, <1>5, <1>6, <1>7, <1>8, <2>1, <2>2 DEF StatusIsExplained
<1>10. GoingOn(n)'
  BY <1>2, <1>3, GoingOnStays
<1> QED BY <1>1, <1>2, <1>3, <1>9, <1>10 DEF LineInv, GoingOn

LEMMA LineStutterInv ==
    ASSUME LineInv, UNCHANGED vars
    PROVE  LineInv'
<1>1. PICK n : n = optind
  OBVIOUS
<1>2. /\ UNCHANGED <<tool, args, use_gpg, dry_run, config, lists, storeVars>>
      /\ optind' = n /\ status' = status
  BY <1>1 DEF vars
<1>3. status \in {"parsing", "run"} => GoingOn(n)'
  BY <1>1, <1>2, GoingOnStays DEF LineInv
<1>4. StatusIsExplained'
  <2>1. \A i : /\ Wrong(i)' <=> Wrong(i)
               /\ Exiting(i)' <=> Exiting(i)
               /\ Undecrypted(i)' <=> Undecrypted(i)
    BY <1>2, SameLine
  <2>2. Required' = Required /\ \A l : Named(l)' = Named(l)
    BY <1>2, SameBefore DEF Required, Settings
  <2>3. StatusIsExplained
    BY DEF LineInv
  <2> QED BY <1>1, <1>2, <2>1, <2>2, <2>3 DEF StatusIsExplained
<1> QED BY <1>1, <1>2, <1>3, <1>4 DEF LineInv, GoingOn, Tools

LEMMA LineNextInv == LineInv /\ [Next]_vars => LineInv'
<1> SUFFICES ASSUME LineInv, [Next]_vars PROVE LineInv'
  OBVIOUS
<1>1. CASE SetFlag
  BY <1>1, SetFlagInv
<1>2. CASE ShowText
  BY <1>2, ShowTextInv
<1>3. CASE SetConfig
  BY <1>3, SetConfigInv
<1>4. CASE AddToList
  BY <1>4, AddToListInv
<1>5. CASE AddDocument
  BY <1>5, AddDocumentInv
<1>6. CASE IgnoreOption
  BY <1>6, IgnoreOptionInv
<1>7. CASE EndOfOptions
  BY <1>7, EndOfOptionsInv
<1>8. CASE UNCHANGED vars
  BY <1>8, LineStutterInv
<1> QED BY <1>1, <1>2, <1>3, <1>4, <1>5, <1>6, <1>7, <1>8 DEF Next

-----------------------------------------------------------------------------
(* Results                                                                 *)

(* The inductive invariant of the loop over the options.                   *)
THEOREM LineInvariance == Spec => []LineInv
<1>1. Init => LineInv
  BY LineInitInv
<1>2. LineInv /\ [Next]_vars => LineInv'
  BY LineNextInv
<1> QED BY <1>1, <1>2, PTL DEF Spec

(* main of the three tools: the exit status, and whether a tool starts, is *)
(* for a reason that its command line gives.                               *)
THEOREM EveryStatusIsExplained == Spec => []StatusIsExplained
<1>1. LineInv => StatusIsExplained
  BY DEF LineInv
<1> QED BY <1>1, LineInvariance, PTL

(* The set_, add_ and restore_file functions of the tools: what they leave *)
(* behind when the work starts is what the command line says.              *)
THEOREM ToolsStartAsTold == Spec => []StartsAsTold
<1>1. LineInv => StartsAsTold
  <2> SUFFICES ASSUME LineInv, status = "run" PROVE StartsAsTold
    BY DEF StartsAsTold
  <2>1. PICK n : n = optind
    OBVIOUS
  <2>2. /\ GoingOn(n) /\ tool \in Tools /\ n = Len(args) + 1
        /\ \A s \in Required : Named(s) # {}
    BY <2>1 DEF LineInv, StatusIsExplained
  <2>3. \A l : Before(n, l) = Named(l)
    BY <2>2 DEF Named
  <2>4. \A s \in Settings : config[s] = IF Named(s) = {} THEN 16 ELSE args[LastOf(Named(s))].arg
    BY <2>2, <2>3 DEF GoingOn, ConfigOK, Required, Default
  <2>5. \A l \in Lists : InFull(lists[l], l)
    BY <2>2, <2>3 DEF GoingOn, ListsOK, Holds, InFull
  <2>6. \A l : \A root : Told(n, l, root) = Legibles(l, root)
    BY <2>3 DEF Told, Legibles
  <2>7. ASSUME NEW e, NEW l, NEW f, NEW part, NEW none, Heard(e, n, l, f, part, none)
        PROVE  e = FromLast(l, f, part, none)
    BY <2>6, <2>7 DEF Heard, Saying, FromLast
  <2>8. tool = "LXRbackup" => \A f \in FHash : infos[f] = FromLast("r", f, "info", NoInfo)
    <3> SUFFICES ASSUME tool = "LXRbackup", NEW f \in FHash
                 PROVE  infos[f] = FromLast("r", f, "info", NoInfo)
      OBVIOUS
    <3>1. Heard(infos[f], n, "r", f, "info", NoInfo)
      BY <2>2 DEF GoingOn, StoresOK, InfosOK
    <3> QED BY <2>7, <3>1
  <2>9. tool # "LXRbackup" =>
           /\ keys = UNION {Docs[args[i].arg].keys : i \in Legibles("k", "keys")}
           /\ \A f \in FHash : blocks[f] = FromLast("b", f, "blocks", <<>>)
    BY <2>2, <2>6, <2>7 DEF GoingOn, StoresOK, KeysOK, BlocksOK
  <2> QED BY <2>4, <2>5, <2>8, <2>9 DEF StartsAsTold
<1> QED BY <1>1, LineInvariance, PTL
=============================================================================
