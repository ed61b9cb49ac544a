------------------------------ MODULE TraversalProofs ------------------------------
(***************************************************************************)
(* Theorems about how LXRbackup finds the files: for every tree, command   *)
(* line, number of links and size of the lists, however often other        *)
(* programs change the directories.                                        *)
(***************************************************************************)
EXTENDS Traversal, FiniteSetTheorems, SequenceTheorems, WellFoundedInduction, TLAPS

-----------------------------------------------------------------------------
(* Induction over the steps of a computation, as in WritePathProofs, which *)
(* is about another program and is not extended here.                      *)

(* A set of numbers that is not empty has a least one.                     *)
LEMMA LeastNumber ==
  ASSUME NEW T, T \subseteq Nat, T # {}
  PROVE \E n \in T : \A m \in T : n <= m
<1> DEFINE R == OpToRel(<, Nat)
<1>1. IsWellFoundedOn(R, Nat)
  BY NatLessThanWellFounded
<1>2. \A x, y \in Nat : x < y => <<x, y>> \in R
  BY DEF OpToRel
<1> HIDE DEF R
<1>3. PICK n \in T : \A m \in T : ~ (<<m, n>> \in R)
  BY <1>1, WFMin
<1>4. \A m \in T : ~ (m < n)
  BY <1>2, <1>3
<1>5. \A m \in T : n <= m
  BY <1>4
<1> QED BY <1>5

(* A set that holds 0 and, with each number, the next one up to n.         *)
LEMMA StepByStep ==
  ASSUME NEW n \in Nat, NEW T, 0 \in T,
         \A i \in 1..n : i - 1 \in T => i \in T
  PROVE  \A i \in 0..n : i \in T
<1>1. SUFFICES ASSUME NEW k \in 0..n, k \notin T PROVE FALSE
  OBVIOUS
<1> DEFINE U == {i \in 0..n : i \notin T}
<1>a. U \subseteq Nat /\ U # {}
  BY <1>1
<1> HIDE DEF U
<1>2. PICK m \in U : \A i \in U : m <= i
  BY <1>a, LeastNumber
<1> USE DEF U
<1>3. m \in 1..n /\ m - 1 \in 0..n
  BY <1>2
<1>4. m - 1 \in T
  BY <1>2, <1>3
<1> QED BY <1>2, <1>3, <1>4

(* f starts with x, and step i applies F[i].                               *)
Solves(f, n, x, F) == f[0] = x /\ \A i \in 1..n : f[i] = F[i][f[i - 1]]

(* What defines a recursive function over 0..n has a solution.             *)
LEMMA Recursion ==
  ASSUME NEW n \in Nat, NEW X, NEW x \in X, NEW F \in [1..n -> [X -> X]]
  PROVE  \E f \in [0..n -> X] : Solves(f, n, x, F)
<1> DEFINE P(k, f) == f[0] = x /\ \A i \in 1..k : f[i] = F[i][f[i - 1]]
           T == {k \in 0..n : \E f \in [0..k -> X] : P(k, f)}
<1>1. 0 \in T
  <2> DEFINE f0 == [i \in 0..0 |-> x]
  <2>1. f0 \in [0..0 -> X] /\ P(0, f0)
    OBVIOUS
  <2>2. 0 \in 0..n
    OBVIOUS
  <2> HIDE DEF f0, P
  <2> QED BY <2>1, <2>2
<1>2. ASSUME NEW k \in 1..n, k - 1 \in T PROVE k \in T
  <2>1. PICK f \in [0..k - 1 -> X] : P(k - 1, f)
    BY <1>2
  <2> DEFINE g == [i \in 0..k |-> IF i = k THEN F[k][f[k - 1]] ELSE f[i]]
  <2>2. f[k - 1] \in X /\ F[k] \in [X -> X]
    BY <2>1
  <2>3. g \in [0..k -> X]
    BY <2>1, <2>2
  <2>4. g[0] = x
    BY <2>1
  <2>5. ASSUME NEW i \in 1..k PROVE g[i] = F[i][g[i - 1]]
    <3>1. i - 1 \in 0..k /\ i - 1 # k /\ i \in 0..k
      OBVIOUS
    <3>2. g[i - 1] = f[i - 1]
      BY <3>1
    <3>3. CASE i = k
      BY <3>1, <3>2, <3>3
    <3>4. CASE i # k
      <4>1. i \in 1..k - 1 /\ g[i] = f[i]
        BY <3>1, <3>4
      <4>2. f[i] = F[i][f[i - 1]]
        BY <2>1, <4>1
      <4> QED BY <3>2, <4>1, <4>2
    <3> QED BY <3>3, <3>4
  <2>6. P(k, g)
    BY <2>4, <2>5
  <2>7. k \in 0..n
    OBVIOUS
  <2> HIDE DEF g, P
  <2> QED BY <2>3, <2>6, <2>7
<1> HIDE DEF T
<1>3. n \in T
  BY <1>1, <1>2, StepByStep, n \in 0..n
<1> USE DEF T
<1> QED BY <1>3 DEF Solves

-----------------------------------------------------------------------------
(* What a path leads to, in a tree t of which the directories in r can be  *)
(* read                                                                    *)

Place ==
    {x \in [kind : {"dir", "file", "absent", "error"}, dir : Dir \cup {NoDir}, links : Nat] :
        x.kind = "dir" => x.dir \in Dir}

Start == [kind |-> "dir", dir |-> Top, links |-> 0]

Next1(t, r, at, n) ==
    LET e == t[at.dir][n]
        k == at.links + IF e.link THEN 1 ELSE 0
    IN  CASE at.kind \in {"file", "absent"} -> Nobody
          [] at.kind = "dir" /\ at.dir \in r /\ e.kind # "loop" /\ k <= MaxLinks ->
                 [kind |-> e.kind, dir |-> e.dir, links |-> k]
          [] OTHER -> Error

(* After the first k names of p.                                           *)
To(t, r, p, k) ==
    LET to[i \in 0..Len(p)] == IF i = 0 THEN Start ELSE Next1(t, r, to[i - 1], p[i])
    IN  to[k]

TreeOK(t) == t \in [Dir -> [Name -> Entry]]

LEMMA Next1Type ==
    ASSUME NEW t, TreeOK(t), NEW r, NEW at \in Place, NEW n \in Name
    PROVE  /\ Next1(t, r, at, n) \in Place
           /\ Next1(t, r, at, n).kind \in {"file", "dir"} =>
                 /\ at.kind = "dir" /\ at.dir \in Dir /\ at.dir \in r
                 /\ Next1(t, r, at, n).kind = t[at.dir][n].kind
           /\ at.kind = "dir" /\ at.dir \in r /\ ~t[at.dir][n].link =>
                 Next1(t, r, at, n).kind \in {t[at.dir][n].kind, "error"}
<1>1. Nobody \in Place /\ Error \in Place
  BY DEF Nobody, Error, Place
<1>2. at.kind \in {"dir", "file", "absent", "error"} /\ at.links \in Nat
  BY DEF Place
<1>3. CASE at.kind \in {"file", "absent"}
  <2>1. Next1(t, r, at, n) = Nobody
    BY <1>3 DEF Next1
  <2> QED BY <1>1, <1>3, <2>1 DEF Nobody
<1>4. CASE at.kind = "error"
  <2>1. Next1(t, r, at, n) = Error
    BY <1>4 DEF Next1
  <2> QED BY <1>1, <1>4, <2>1 DEF Error
<1>5. CASE at.kind = "dir"
  <2> DEFINE e == t[at.dir][n]
             k == at.links + IF e.link THEN 1 ELSE 0
  <2>1. at.dir \in Dir /\ e \in Entry
    BY <1>5 DEF Place, TreeOK
  <2>2. /\ e.kind \in {"absent", "file", "dir", "loop"} /\ e.dir \in Dir \cup {NoDir}
        /\ e.kind = "dir" => e.dir \in Dir
    BY <2>1 DEF Entry
  <2>3. k \in Nat
    BY <1>2
  <2> HIDE DEF e
  <2>4. CASE at.dir \in r /\ e.kind # "loop" /\ k <= MaxLinks
    <3>1. Next1(t, r, at, n) = [kind |-> e.kind, dir |-> e.dir, links |-> k]
      BY <1>5, <2>4 DEF Next1, e
    <3>2. [kind |-> e.kind, dir |-> e.dir, links |-> k] \in Place
      BY <2>2, <2>3, <2>4 DEF Place
    <3> QED BY <1>5, <2>1, <2>4, <3>1, <3>2 DEF e
  <2>5. CASE ~(at.dir \in r /\ e.kind # "loop" /\ k <= MaxLinks)
    <3>1. Next1(t, r, at, n) = Error
      BY <1>5, <2>5 DEF Next1, e
    <3> QED BY <1>1, <3>1 DEF Error
  <2> QED BY <2>4, <2>5
<1> QED BY <1>2, <1>3, <1>4, <1>5

LEMMA ToSteps ==
    ASSUME NEW t, TreeOK(t), NEW r, NEW p \in Seq(Name)
    PROVE  /\ To(t, r, p, 0) = Start
           /\ \A i \in 1..Len(p) : To(t, r, p, i) = Next1(t, r, To(t, r, p, i-1), p[i])
           /\ \A i \in 0..Len(p) : To(t, r, p, i) \in Place
<1> DEFINE n == Len(p)
           G(to) == [i \in 0..n |-> IF i = 0 THEN Start ELSE Next1(t, r, to[i-1], p[i])]
           all == CHOOSE to : to = G(to)
           F == [i \in 1..n |-> [x \in Place |-> Next1(t, r, x, p[i])]]
<1>1. n \in Nat /\ Start \in Place
  BY LenProperties, TopAssumption DEF Start, Place
<1>2. \A k : To(t, r, p, k) = all[k]
  BY DEF To
<1>3. F \in [1..n -> [Place -> Place]]
  <2>1. ASSUME NEW i \in 1..n, NEW x \in Place PROVE Next1(t, r, x, p[i]) \in Place
    <3>1. p[i] \in Name
      BY ElementOfSeq
    <3> QED BY <3>1, Next1Type
  <2> QED BY <2>1
<1> HIDE DEF F
<1>4. PICK f \in [0..n -> Place] : Solves(f, n, Start, F)
  BY <1>1, <1>3, Recursion
<1>5. f = G(f)
  <2> SUFFICES ASSUME NEW i \in 0..n PROVE f[i] = G(f)[i]
    BY <1>4
  <2>1. CASE i = 0
    BY <1>4, <2>1 DEF Solves
  <2>2. CASE i \in 1..n
    <3>1. f[i] = F[i][f[i-1]] /\ i - 1 \in 0..n
      BY <1>4, <2>2 DEF Solves
    <3>2. f[i-1] \in Place
      BY <1>4, <3>1
    <3> QED BY <2>2, <3>1, <3>2 DEF F
  <2> QED BY <2>1, <2>2
<1> HIDE DEF G
<1>6. all = G(all)
  BY <1>5
<1> HIDE DEF all
<1> USE DEF G
<1>7. all[0] = Start
  BY <1>1, <1>6
<1>8. ASSUME NEW i \in 1..n PROVE all[i] = Next1(t, r, all[i-1], p[i])
  <2>1. i \in 0..n /\ i # 0
    OBVIOUS
  <2> QED BY <1>6, <2>1
<1>9. \A i \in 0..n : all[i] \in Place
  <2> DEFINE T == {i \in 0..n : all[i] \in Place}
  <2>1. 0 \in T
    BY <1>1, <1>7
  <2>2. ASSUME NEW i \in 1..n, i - 1 \in T PROVE i \in T
    <3>1. p[i] \in Name /\ i \in 0..n /\ all[i-1] \in Place
      BY <2>2, ElementOfSeq
    <3>2. Next1(t, r, all[i-1], p[i]) \in Place
      BY <3>1, Next1Type
    <3>3. all[i] \in Place
      BY <1>8, <3>2
    <3> QED BY <3>1, <3>3
  <2> HIDE DEF T, n
  <2>3. \A i \in 0..n : i \in T
    BY <1>1, <2>1, <2>2, StepByStep
  <2> QED BY <2>3 DEF T
<1> QED BY <1>2, <1>7, <1>8, <1>9

(* Two trees that agree on the way along p lead to the same, and so do two *)
(* paths that begin alike.                                                 *)
Alike(t, v, r, p, q, k) ==
    \A i \in 1..k : /\ p[i] = q[i]
                    /\ To(t, r, p, i-1).kind = "dir" =>
                          t[To(t, r, p, i-1).dir][p[i]] = v[To(t, r, p, i-1).dir][p[i]]

LEMMA SameWay ==
    ASSUME NEW t, TreeOK(t), NEW v, TreeOK(v), NEW r,
           NEW p \in Seq(Name), NEW q \in Seq(Name), NEW k \in Nat,
           k <= Len(p), k <= Len(q),
           Alike(t, v, r, p, q, k)
    PROVE  \A i \in 0..k : To(t, r, p, i) = To(v, r, q, i)
<1> DEFINE T == {i \in 0..k : To(t, r, p, i) = To(v, r, q, i)}
<1>0. Len(p) \in Nat /\ Len(q) \in Nat
  BY LenProperties
<1>a. \A i \in 1..Len(p) : To(t, r, p, i) = Next1(t, r, To(t, r, p, i-1), p[i])
  BY ToSteps
<1>b. \A i \in 1..Len(q) : To(v, r, q, i) = Next1(v, r, To(v, r, q, i-1), q[i])
  BY ToSteps
<1>1. 0 \in T
  BY ToSteps
<1>2. ASSUME NEW i \in 1..k, i - 1 \in T PROVE i \in T
  <2>1. i \in 1..Len(p) /\ i \in 1..Len(q) /\ i - 1 \in 0..Len(p)
    BY <1>0
  <2> HIDE DEF T
  <2>2. /\ To(t, r, p, i) = Next1(t, r, To(t, r, p, i-1), p[i])
        /\ To(v, r, q, i) = Next1(v, r, To(v, r, q, i-1), q[i])
    BY <1>a, <1>b, <2>1
  <2> DEFINE at == To(t, r, p, i-1)
  <2>3. at = To(v, r, q, i-1) /\ p[i] = q[i] /\ at \in Place
    BY <1>2, <2>1, ToSteps DEF T, Alike
  <2>4. at.kind = "dir" => t[at.dir][p[i]] = v[at.dir][p[i]]
    BY DEF Alike
  <2> HIDE DEF at
  <2>5. Next1(t, r, at, p[i]) = Next1(v, r, at, p[i])
    <3>1. CASE at.kind = "dir"
      BY <2>4, <3>1 DEF Next1
    <3>2. CASE at.kind \in {"file", "absent"}
      BY <3>2 DEF Next1
    <3>3. CASE at.kind = "error"
      BY <3>3 DEF Next1
    <3> QED BY <2>3, <3>1, <3>2, <3>3 DEF Place
  <2>6. To(t, r, p, i) = To(v, r, q, i)
    BY <2>2, <2>3, <2>5 DEF at
  <2> QED BY <2>6 DEF T
<1> HIDE DEF T
<1>3. \A i \in 0..k : i \in T
  BY <1>1, <1>2, StepByStep
<1> QED BY <1>3 DEF T

(* Whatever is under a path p.                                             *)
Under(p, q) == Len(p) < Len(q) /\ \A i \in 1..Len(p) : q[i] = p[i]

(* The way to a file leads through directories that can be read.           *)
LEMMA WayIsOpen ==
    ASSUME NEW t, TreeOK(t), NEW r, NEW q \in Seq(Name),
           To(t, r, q, Len(q)).kind \in {"file", "dir"}
    PROVE  \A i \in 0..Len(q) : i < Len(q) =>
              LET at == To(t, r, q, i)
              IN  /\ at.kind = "dir" /\ at.dir \in Dir /\ at.dir \in r
                  /\ To(t, r, q, i+1).kind = t[at.dir][q[i+1]].kind
                  /\ t[at.dir][q[i+1]].kind \in {"file", "dir"}
<1> DEFINE n == Len(q)
           At1(i) == To(t, r, q, i)
           T == {i \in 0..n : At1(n - i).kind \in {"file", "dir"}}
<1>1. n \in Nat
  BY LenProperties
<1>2. ASSUME NEW i \in 1..n, At1(i).kind \in {"file", "dir"}
      PROVE  /\ At1(i-1).kind = "dir" /\ At1(i-1).dir \in Dir /\ At1(i-1).dir \in r
             /\ At1(i).kind = t[At1(i-1).dir][q[i]].kind
  <2>1. q[i] \in Name /\ i - 1 \in 0..n
    BY <1>1, ElementOfSeq
  <2>2. At1(i) = Next1(t, r, At1(i-1), q[i]) /\ At1(i-1) \in Place
    BY <2>1, ToSteps
  <2> HIDE DEF At1
  <2> QED BY <1>2, <2>1, <2>2, Next1Type, SMTT(30)
<1> HIDE DEF At1
<1>3. 0 \in T
  BY <1>1 DEF At1
<1>4. ASSUME NEW i \in 1..n, i - 1 \in T PROVE i \in T
  <2>1. n - (i - 1) \in 1..n /\ n - (i - 1) - 1 = n - i /\ i \in 0..n
    BY <1>1
  <2> DEFINE j == n - (i - 1)
  <2>2. At1(j).kind \in {"file", "dir"}
    BY <1>4
  <2>3. j \in 1..n /\ j - 1 = n - i
    BY <2>1
  <2> HIDE DEF j
  <2>4. At1(j - 1).kind = "dir"
    BY <1>2, <2>2, <2>3
  <2> QED BY <2>1, <2>3, <2>4
<1> HIDE DEF T
<1>5. \A i \in 0..n : i \in T
  <2> HIDE DEF n
  <2> QED BY <1>1, <1>3, <1>4, StepByStep
<1>6. ASSUME NEW i \in 0..n PROVE At1(i).kind \in {"file", "dir"}
  <2>1. n - i \in 0..n /\ n - (n - i) = i
    BY <1>1
  <2> QED BY <1>5, <2>1 DEF T
<1>7. ASSUME NEW i \in 0..n, i < n
      PROVE  /\ At1(i).kind = "dir" /\ At1(i).dir \in Dir /\ At1(i).dir \in r
             /\ At1(i+1).kind = t[At1(i).dir][q[i+1]].kind
             /\ At1(i+1).kind \in {"file", "dir"}
  <2>1. i + 1 \in 1..n /\ (i + 1) - 1 = i /\ i + 1 \in 0..n
    BY <1>1, <1>7
  <2> DEFINE j == i + 1
  <2>2. j \in 1..n /\ j - 1 = i /\ At1(j).kind \in {"file", "dir"}
    BY <1>6, <2>1
  <2> HIDE DEF j
  <2>3. /\ At1(i).kind = "dir" /\ At1(i).dir \in Dir /\ At1(i).dir \in r
        /\ At1(j).kind = t[At1(i).dir][q[j]].kind
    BY <1>2, <2>2
  <2> QED BY <2>2, <2>3 DEF j
<1> QED BY <1>7 DEF At1

LEMMA LookupIs == \A p : Lookup(p) = To(tree, open, p, Len(p))
BY DEF Lookup, To, Follow, Next1, Start

-----------------------------------------------------------------------------
(* The calls at work                                                       *)

Ops    == {"f", "d", "D"}
Option == [op : Ops, path : Seq(Name)]
Call   == [path : Seq(Name), rec : BOOLEAN,
           at : {"enter", "again", "files?", "files", "subdirs?", "subdirs"},
           dir : Dir \cup {NoDir}, seen : SUBSET Name, must : SUBSET Name]

TypeOK ==
    /\ TreeOK(tree) /\ changes \in Nat
    /\ opts \in Seq(Option) /\ given \in Seq(Option)
    /\ lists \in [Ops -> Seq(Seq(Name))]
    /\ stack \in Seq(Call) /\ backedup \in Seq(Seq(Name))

(* A call that is not the last has called the next one for a subdirectory. *)
CallsOK ==
    \A k \in 1..Len(stack) :
        /\ stack[k].at \in {"files", "subdirs"} => stack[k].dir \in Dir
        /\ stack[k].at \in {"enter", "subdirs?", "subdirs"} => stack[k].rec
        /\ k < Len(stack) =>
              /\ stack[k].at = "subdirs"
              /\ \E n \in stack[k].seen : stack[k+1].path = Append(stack[k].path, n)

(* While nobody changes anything, a directory that was one remains one.    *)
QuietOK ==
    changes = 0 /\ open = Dir =>
        /\ \A k \in 1..Len(stack) :
              stack[k].at \notin {"enter", "again"} \/ (stack[k].at = "again" /\ stack[k].rec) =>
                  Lookup(stack[k].path).kind = "dir"
        /\ AbortIsExplained

(* Call f still hands over path q if it reads the names N.                 *)
Ahead(f, q, N) ==
    /\ Under(f.path, q)
    /\ f.rec \/ Len(q) = Len(f.path) + 1
    /\ f.at = "files" /\ Len(q) = Len(f.path) + 1 => q[Len(f.path) + 1] \in N \ f.seen
    /\ f.at \in {"subdirs?", "subdirs"} => Len(q) # Len(f.path) + 1
    /\ f.at = "subdirs" => q[Len(f.path) + 1] \in N \ f.seen

(* What calls s may hand over.                                             *)
MayCome(s) == {q \in Seq(Name) : \E k \in 1..Len(s) : Ahead(s[k], q, Name)}

(* Call f will hand over path q, if the path stays what it is.             *)
WillCome(f, q) ==
    /\ Ahead(f, q, f.must)
    /\ f.at \in {"files", "subdirs"} => f.dir = Lookup(f.path).dir

Given(o) == \E j \in 1..Len(given) : given[j] = o

(* What is due to an option o: a file that it asks for and nobody touched. *)
Due(o, q) == Covers(o, q) /\ Lookup(q).kind = "file" /\ Stable(q)

Asked(o)     == \E k \in 1..Len(lists[o.op]) : lists[o.op][k] = o.path
Handed(b, q) == \E i \in 1..Len(b) : b[i] = q
Coming(s, q) == \E k \in 1..Len(s) : WillCome(s[k], q)
Kept(o, q)   == Handed(backedup, q) \/ Asked(o) \/ Coming(stack, q)

(* It was handed over, or will be.                                         *)
Promised(q) == \A o \in Option : Given(o) /\ Due(o, q) => Kept(o, q)

PromiseInv == \A q \in Seq(Name) : Promised(q)

LEMMA TopCall ==
    ASSUME TypeOK, stack # <<>>
    PROVE  /\ Len(stack) \in Nat \ {0} /\ Cur \in Call
           /\ \A f \in Call :
                 LET s == [stack EXCEPT ![Len(stack)] = f]
                 IN  /\ s \in Seq(Call) /\ Len(s) = Len(stack) /\ s[Len(stack)] = f
                     /\ \A k \in 1..Len(stack) : k < Len(stack) => s[k] = stack[k]
           /\ Front(stack) \in Seq(Call) /\ Len(Front(stack)) = Len(stack) - 1
           /\ \A k \in 1..Len(stack) - 1 : Front(stack)[k] = stack[k]
<1>1. stack \in Seq(Call) /\ Len(stack) \in Nat \ {0}
  BY EmptySeq, LenProperties DEF TypeOK
<1>2. Cur \in Call
  BY <1>1, ElementOfSeq DEF Cur, Last
<1>3. ASSUME NEW f \in Call
      PROVE  LET s == [stack EXCEPT ![Len(stack)] = f]
             IN  /\ s \in Seq(Call) /\ Len(s) = Len(stack) /\ s[Len(stack)] = f
                 /\ \A k \in 1..Len(stack) : k < Len(stack) => s[k] = stack[k]
  BY <1>1, ExceptSeq
<1>4. /\ Front(stack) \in Seq(Call) /\ Len(Front(stack)) = Len(stack) - 1
      /\ \A k \in 1..Len(stack) - 1 : Front(stack)[k] = stack[k]
  <2> DEFINE m == Len(stack) - 1
             s == SubSeq(stack, 1, m)
  <2>1. m \in Nat /\ 1 \in Int /\ m \in Int /\ \A i \in 1..m : stack[i] \in Call
    BY <1>1, ElementOfSeq
  <2>2. /\ s \in Seq(Call) /\ Len(s) = IF 1 <= m THEN m - 1 + 1 ELSE 0
        /\ \A i \in 1..(m - 1 + 1) : s[i] = stack[1 + i - 1]
    <3> HIDE DEF m
    <3> QED BY <1>1, <2>1, SubSeqProperties
  <2>3. Front(stack) = s
    BY DEF Front
  <2> HIDE DEF m, s
  <2>4. Len(s) = m /\ \A k \in 1..m : s[k] = stack[k]
    BY <2>1, <2>2
  <2> QED BY <2>2, <2>3, <2>4 DEF m
<1> QED BY <1>1, <1>2, <1>3, <1>4

Becomes(f) == UNCHANGED outcome /\ stack' = [stack EXCEPT ![Len(stack)] = f]

Throws ==
    /\ outcome' = "aborted" /\ UNCHANGED <<stack, backedup>>
    /\ \/ Cur.at \in {"enter", "again"} /\ Lookup(Cur.path).kind = "error"
       \/ Cur.at \in {"files?", "subdirs?"} /\ ~CanList(Cur.path)
       \/ Cur.at \in {"files", "subdirs"} /\ \E n \in Name : Unread(n) /\ Type(n) = "error"

Returns ==
    /\ UNCHANGED <<outcome, backedup>> /\ Leave
    /\ \/ Cur.at \in {"enter", "again"} /\ Lookup(Cur.path).kind \in {"file", "absent"}
       \/ Cur.at = "files" /\ ~Cur.rec /\ Cur.must \subseteq Cur.seen
       \/ Cur.at = "subdirs" /\ Cur.must \subseteq Cur.seen

Enters ==
    /\ Lookup(Cur.path).kind = "dir"
    /\ \E at \in {"again", "files?"} :
          /\ Cur.at = (IF at = "again" THEN "enter" ELSE "again")
          /\ Becomes([Cur EXCEPT !.at = at])
    /\ UNCHANGED backedup

Skips ==
    /\ Cur.rec
    /\ \/ Cur.at = "again" /\ Lookup(Cur.path).kind \in {"file", "absent"}
       \/ Cur.at = "files" /\ Cur.must \subseteq Cur.seen
    /\ Becomes([Cur EXCEPT !.at = "subdirs?"])
    /\ UNCHANGED backedup

Opens ==
    /\ CanList(Cur.path)
    /\ \E at \in {"files", "subdirs"} :
          /\ Cur.at = (IF at = "files" THEN "files?" ELSE "subdirs?")
          /\ Becomes([Cur EXCEPT !.at = at, !.dir = Lookup(Cur.path).dir, !.seen = {},
                                 !.must = {n \in Name : Present(tree[Lookup(Cur.path).dir][n])}])
    /\ UNCHANGED backedup

Reads(n) ==
    /\ Unread(n)
    /\ Becomes([Cur EXCEPT !.seen = @ \cup {n}])
    /\ \/ /\ Cur.at = "files" /\ Type(n) = "file"
          /\ backedup' = Append(backedup, Append(Cur.path, n))
       \/ Cur.at = "files" /\ Type(n) \in {"dir", "absent"} /\ UNCHANGED backedup
       \/ Cur.at = "subdirs" /\ Type(n) \in {"file", "absent"} /\ UNCHANGED backedup

Descends(n) ==
    /\ Cur.at = "subdirs" /\ Unread(n) /\ Type(n) = "dir"
    /\ stack' = Append([stack EXCEPT ![Len(stack)] = [Cur EXCEPT !.seen = @ \cup {n}]],
                       Frame(Append(Cur.path, n), TRUE, "enter"))
    /\ UNCHANGED <<outcome, backedup>>

CallDoes ==
    \/ Throws \/ Returns \/ Enters \/ Skips \/ Opens
    \/ \E n \in Name : Reads(n) \/ Descends(n)

LEMMA CallSteps ==
    ASSUME TypeOK, CallsOK, Calls
    PROVE  stack # <<>> /\ outcome = "running" /\ UnchangedInCalls /\ CallDoes
<1>1. stack # <<>> /\ outcome = "running" /\ UnchangedInCalls
  BY DEF Calls, Enter, EnterAgain, Open, ReadFile, ReadSubdir, EndFiles, EndSubdirs, EndOfDirectory, At
<1> SUFFICES CallDoes
  BY <1>1
<1> USE DEF CallDoes
<1>2. Cur = stack[Len(stack)] /\ Cur \in Call
  BY <1>1, TopCall DEF Cur, Last
<1>a. Cur.at \in {"enter", "subdirs?", "subdirs"} => Cur.rec
  BY <1>1, <1>2, TopCall DEF CallsOK
<1>3. \A at : Goto(at) <=> stack' = [stack EXCEPT ![Len(stack)] = [Cur EXCEPT !.at = at]]
  BY <1>2 DEF Goto
<1>4. CASE Enter
  BY <1>1, <1>3, <1>4 DEF Enter, At, Throw, Throws, Returns, Enters, Becomes
<1>5. CASE EnterAgain
  BY <1>1, <1>3, <1>5 DEF EnterAgain, At, Throw, Throws, Returns, Enters, Skips, AfterFiles, Becomes
<1>6. ASSUME NEW at \in {"files", "subdirs"},
             Open(IF at = "files" THEN "files?" ELSE "subdirs?", at)
      PROVE  Throws \/ Opens
  <2>1. Opened(at) => stack' = [stack EXCEPT ![Len(stack)] =
            [Cur EXCEPT !.at = at, !.dir = Lookup(Cur.path).dir, !.seen = {},
                        !.must = {n \in Name : Present(tree[Lookup(Cur.path).dir][n])}]]
    BY <1>2 DEF Opened
  <2> QED BY <1>6, <2>1 DEF Open, At, Throw, Throws, Opens, Becomes
<1>7. ASSUME NEW n \in Name
      PROVE  Seen(n) = [stack EXCEPT ![Len(stack)] = [Cur EXCEPT !.seen = @ \cup {n}]]
  BY <1>2 DEF Seen
<1>8. ASSUME NEW n \in Name, ReadFile(n)
      PROVE  Throws \/ Reads(n)
  BY <1>7, <1>8 DEF ReadFile, At, Throw, Throws, Reads, Becomes
<1>9. ASSUME NEW n \in Name, ReadSubdir(n)
      PROVE  Throws \/ Reads(n) \/ Descends(n)
  BY <1>7, <1>9 DEF ReadSubdir, At, Throw, Throws, Reads, Descends, Becomes
<1>10. CASE EndFiles
  BY <1>3, <1>10 DEF EndFiles, EndOfDirectory, At, AfterFiles, Returns, Skips, Becomes
<1>11. CASE EndSubdirs
  BY <1>11 DEF EndSubdirs, EndOfDirectory, At, Returns
<1>12. CASE Open("files?", "files") \/ Open("subdirs?", "subdirs")
  BY <1>6, <1>12
<1>13. CASE \E n \in Name : ReadFile(n) \/ ReadSubdir(n)
  BY <1>8, <1>9, <1>13
<1> QED BY <1>4, <1>5, <1>10, <1>11, <1>12, <1>13 DEF Calls

(* The call that goes on is the last one, the others wait for it.          *)
LEMMA NewTop ==
    ASSUME TypeOK, stack # <<>>, NEW f \in Call, stack' = [stack EXCEPT ![Len(stack)] = f]
    PROVE  /\ stack' \in Seq(Call) /\ Len(stack') = Len(stack) /\ stack'[Len(stack)] = f
           /\ \A k \in 1..Len(stack) : k < Len(stack) => stack'[k] = stack[k]
BY TopCall

LEMMA Pushed ==
    ASSUME TypeOK, stack # <<>>, NEW f \in Call, NEW g \in Call,
           stack' = Append([stack EXCEPT ![Len(stack)] = f], g)
    PROVE  /\ stack' \in Seq(Call) /\ Len(stack') = Len(stack) + 1
           /\ stack'[Len(stack)] = f /\ stack'[Len(stack) + 1] = g
           /\ \A k \in 1..Len(stack) : k < Len(stack) => stack'[k] = stack[k]
<1> DEFINE s == [stack EXCEPT ![Len(stack)] = f]
<1>1. /\ s \in Seq(Call) /\ Len(s) = Len(stack) /\ s[Len(stack)] = f
      /\ \A k \in 1..Len(stack) : k < Len(stack) => s[k] = stack[k]
      /\ Len(stack) \in Nat \ {0}
  BY TopCall
<1> HIDE DEF s
<1>2. /\ Append(s, g) \in Seq(Call) /\ Len(Append(s, g)) = Len(s) + 1
      /\ \A i \in 1..Len(s) : Append(s, g)[i] = s[i]
      /\ Append(s, g)[Len(s) + 1] = g
  BY <1>1, AppendProperties
<1> DEFINE t == Append(s, g)
<1>3. stack' = t
  BY DEF s
<1>4. /\ t \in Seq(Call) /\ Len(t) = Len(s) + 1
      /\ \A i \in 1..Len(s) : t[i] = s[i]
      /\ t[Len(s) + 1] = g
  BY <1>2
<1> HIDE DEF t
<1>5. /\ Len(t) = Len(stack) + 1 /\ t[Len(stack)] = f /\ t[Len(stack) + 1] = g
      /\ \A k \in 1..Len(stack) : k < Len(stack) => t[k] = stack[k]
  <2>1. Len(stack) \in 1..Len(s)
    BY <1>1
  <2> QED BY <1>1, <1>4, <2>1
<1> QED BY <1>3, <1>4, <1>5

LEMMA FrameType ==
    ASSUME NEW p \in Seq(Name), NEW rec \in BOOLEAN, NEW at \in {"enter", "again"}
    PROVE  Frame(p, rec, at) \in Call
BY DEF Frame, Call

LEMMA PathType ==
    ASSUME NEW p \in Seq(Name), NEW n \in Name
    PROVE  /\ Append(p, n) \in Seq(Name) /\ Len(Append(p, n)) = Len(p) + 1 /\ Len(p) \in Nat
           /\ \A i \in 1..Len(p) : Append(p, n)[i] = p[i]
           /\ Append(p, n)[Len(p) + 1] = n
BY AppendProperties, LenProperties

(* A directory that is there can be read from.                             *)
LEMMA LookupType ==
    ASSUME TreeOK(tree), NEW p \in Seq(Name)
    PROVE  /\ Lookup(p).kind \in {"dir", "file", "absent", "error"}
           /\ Lookup(p).kind = "dir" => Lookup(p).dir \in Dir
<1>1. Len(p) \in 0..Len(p)
  BY LenProperties
<1>2. To(tree, open, p, Len(p)) \in Place
  BY <1>1, ToSteps
<1> QED BY <1>2, LookupIs DEF Place

LEMMA CallsType ==
    ASSUME TypeOK, CallsOK, Calls
    PROVE  TypeOK' /\ CallsOK'
<1>1. /\ stack # <<>> /\ Cur \in Call /\ Cur = stack[Len(stack)] /\ Len(stack) \in Nat \ {0}
      /\ UNCHANGED <<tree, open, changes, opts, given, lists>> /\ CallDoes
  BY CallSteps, TopCall DEF Cur, Last, UnchangedInCalls, fileSystem
<1>2. SUFFICES /\ stack' \in Seq(Call) /\ backedup' \in Seq(Seq(Name)) /\ CallsOK'
  BY <1>1 DEF TypeOK
<1>3. Cur.path \in Seq(Name) /\ Cur.seen \subseteq Name
  BY <1>1 DEF Call
<1>4. \A k \in 1..Len(stack) : stack[k] \in Call
  BY ElementOfSeq DEF TypeOK
<1>5. CASE Throws
  BY <1>5 DEF Throws, TypeOK, CallsOK
<1>6. CASE Returns
  <2>1. /\ stack' \in Seq(Call) /\ Len(stack') = Len(stack) - 1
        /\ \A k \in 1..Len(stack) - 1 : stack'[k] = stack[k]
    BY <1>1, <1>6, TopCall DEF Returns, Leave
  <2>2. CallsOK'
    <3> SUFFICES ASSUME NEW k \in 1..Len(stack')
                 PROVE  /\ stack'[k].at \in {"files", "subdirs"} => stack'[k].dir \in Dir
                        /\ stack'[k].at \in {"enter", "subdirs?", "subdirs"} => stack'[k].rec
                        /\ k < Len(stack') =>
                              /\ stack'[k].at = "subdirs"
                              /\ \E n \in stack'[k].seen :
                                    stack'[k+1].path = Append(stack'[k].path, n)
      BY DEF CallsOK
    <3>1. k \in 1..Len(stack) /\ k < Len(stack) /\ stack'[k] = stack[k]
      BY <1>1, <2>1
    <3>2. k < Len(stack') => stack'[k+1] = stack[k+1]
      BY <1>1, <2>1
    <3> QED BY <3>1, <3>2 DEF CallsOK
  <2> QED BY <1>6, <2>1, <2>2 DEF Returns, TypeOK
<1>7. ASSUME NEW f \in Call, Becomes(f), f.path = Cur.path, f.rec = Cur.rec,
             f.at \in {"files", "subdirs"} => f.dir \in Dir,
             f.at \in {"enter", "subdirs?", "subdirs"} => f.rec
      PROVE  stack' \in Seq(Call) /\ CallsOK'
  <2>1. /\ stack' \in Seq(Call) /\ Len(stack') = Len(stack) /\ stack'[Len(stack)] = f
        /\ \A k \in 1..Len(stack) : k < Len(stack) => stack'[k] = stack[k]
    BY <1>1, <1>7, NewTop DEF Becomes
  <2>2. ASSUME NEW k \in 1..Len(stack), k < Len(stack)
        PROVE  stack'[k+1].path = stack[k+1].path
    <3>1. CASE k + 1 = Len(stack)
      BY <1>1, <1>7, <2>1, <3>1
    <3>2. CASE k + 1 < Len(stack)
      BY <1>1, <2>1, <2>2, <3>2
    <3> QED BY <1>1, <2>2, <3>1, <3>2
  <2>3. ASSUME NEW k \in 1..Len(stack), k < Len(stack)
        PROVE  /\ stack[k].at = "subdirs" /\ stack[k].dir \in Dir /\ stack[k].rec
               /\ \E n \in stack[k].seen : stack'[k+1].path = Append(stack[k].path, n)
    BY <2>2, <2>3 DEF CallsOK
  <2>4. CallsOK'
    <3> SUFFICES ASSUME NEW k \in 1..Len(stack')
                 PROVE  /\ stack'[k].at \in {"files", "subdirs"} => stack'[k].dir \in Dir
                        /\ stack'[k].at \in {"enter", "subdirs?", "subdirs"} => stack'[k].rec
                        /\ k < Len(stack') =>
                              /\ stack'[k].at = "subdirs"
                              /\ \E n \in stack'[k].seen :
                                    stack'[k+1].path = Append(stack'[k].path, n)
      BY DEF CallsOK
    <3>1. CASE k < Len(stack)
      BY <2>1, <2>3, <3>1
    <3>2. CASE k = Len(stack)
      BY <1>1, <1>7, <2>1, <3>2
    <3> QED BY <1>1, <2>1, <3>1, <3>2
  <2> QED BY <2>1, <2>4
<1>8. CASE Enters
  <2>1. PICK at \in {"again", "files?"} : Becomes([Cur EXCEPT !.at = at])
    BY <1>8 DEF Enters
  <2>2. [Cur EXCEPT !.at = at] \in Call
    BY <1>1 DEF Call
  <2>3. stack' \in Seq(Call) /\ CallsOK'
    BY <1>1, <1>7, <2>1, <2>2 DEF Call
  <2> QED BY <1>8, <2>3 DEF Enters, TypeOK
<1>9. CASE Skips
  <2>1. [Cur EXCEPT !.at = "subdirs?"] \in Call
    BY <1>1 DEF Call
  <2>2. stack' \in Seq(Call) /\ CallsOK'
    BY <1>1, <1>7, <1>9, <2>1 DEF Skips, Call
  <2> QED BY <1>9, <2>2 DEF Skips, TypeOK
<1>10. CASE Opens
  <2> DEFINE d == Lookup(Cur.path).dir
             m == {n \in Name : Present(tree[d][n])}
  <2>1. PICK at \in {"files", "subdirs"} :
            /\ Cur.at = (IF at = "files" THEN "files?" ELSE "subdirs?")
            /\ Becomes([Cur EXCEPT !.at = at, !.dir = d, !.seen = {}, !.must = m])
    BY <1>10 DEF Opens
  <2>2. d \in Dir
    BY <1>3, <1>10, LookupType DEF Opens, CanList, TypeOK
  <2>3. m \subseteq Name
    OBVIOUS
  <2> HIDE DEF d, m
  <2>4. [Cur EXCEPT !.at = at, !.dir = d, !.seen = {}, !.must = m] \in Call
    BY <1>1, <2>2, <2>3 DEF Call
  <2>5. Cur.at = "subdirs?" => Cur.rec
    BY <1>1 DEF CallsOK
  <2>6. stack' \in Seq(Call) /\ CallsOK'
    BY <1>1, <1>7, <2>1, <2>2, <2>4, <2>5 DEF Call
  <2> QED BY <1>10, <2>6 DEF Opens, TypeOK
<1>11. Cur.at \in {"files", "subdirs"} => Cur.dir \in Dir
  BY <1>1 DEF CallsOK
<1>12. Cur.at \in {"enter", "subdirs?", "subdirs"} => Cur.rec
  BY <1>1 DEF CallsOK
<1>13. ASSUME NEW n \in Name, Reads(n)
       PROVE  stack' \in Seq(Call) /\ backedup' \in Seq(Seq(Name)) /\ CallsOK'
  <2> DEFINE f == [Cur EXCEPT !.seen = @ \cup {n}]
  <2>1. f \in Call /\ f.path = Cur.path /\ f.rec = Cur.rec /\ f.at = Cur.at /\ f.dir = Cur.dir
    BY <1>1 DEF Call
  <2>2. Becomes(f)
    BY <1>13 DEF Reads
  <2> HIDE DEF f
  <2>3. stack' \in Seq(Call) /\ CallsOK'
    BY <1>7, <1>11, <1>12, <2>1, <2>2
  <2>4. Append(Cur.path, n) \in Seq(Name) /\ backedup \in Seq(Seq(Name))
    BY <1>3, PathType DEF TypeOK
  <2>5. backedup' \in Seq(Seq(Name))
    <3> DEFINE X == Seq(Name)
               q == Append(Cur.path, n)
    <3>1. q \in X /\ backedup \in Seq(X)
      BY <2>4
    <3>2. backedup' = backedup \/ backedup' = Append(backedup, q)
      BY <1>13 DEF Reads
    <3> HIDE DEF X, q
    <3>3. backedup' \in Seq(X)
      BY <3>1, <3>2, AppendProperties
    <3> QED BY <3>3 DEF X
  <2> QED BY <2>3, <2>5
<1>14. ASSUME NEW n \in Name, Descends(n)
       PROVE  stack' \in Seq(Call) /\ backedup' \in Seq(Seq(Name)) /\ CallsOK'
  <2> DEFINE f == [Cur EXCEPT !.seen = @ \cup {n}]
             g == Frame(Append(Cur.path, n), TRUE, "enter")
  <2>1. /\ f \in Call /\ f.path = Cur.path /\ f.rec = Cur.rec /\ f.at = Cur.at /\ f.dir = Cur.dir
        /\ n \in f.seen
    BY <1>1 DEF Call
  <2>2. g \in Call /\ g.path = Append(f.path, n) /\ g.at = "enter" /\ g.rec
    BY <1>3, <2>1, PathType, FrameType DEF Frame
  <2>3. stack' = Append([stack EXCEPT ![Len(stack)] = f], g) /\ Cur.at = "subdirs"
    BY <1>14 DEF Descends
  <2> HIDE DEF f, g
  <2>4. /\ stack' \in Seq(Call) /\ Len(stack') = Len(stack) + 1
        /\ stack'[Len(stack)] = f /\ stack'[Len(stack) + 1] = g
        /\ \A k \in 1..Len(stack) : k < Len(stack) => stack'[k] = stack[k]
    BY <1>1, <2>1, <2>2, <2>3, Pushed
  <2>5. ASSUME NEW k \in 1..Len(stack), k < Len(stack)
        PROVE  stack'[k+1].path = stack[k+1].path
    <3>1. CASE k + 1 = Len(stack)
      BY <1>1, <2>1, <2>4, <3>1
    <3>2. CASE k + 1 < Len(stack)
      BY <1>1, <2>4, <2>5, <3>2
    <3> QED BY <1>1, <2>5, <3>1, <3>2
  <2>6. ASSUME NEW k \in 1..Len(stack), k < Len(stack)
        PROVE  /\ stack[k].at = "subdirs" /\ stack[k].dir \in Dir /\ stack[k].rec
               /\ \E m \in stack[k].seen : stack'[k+1].path = Append(stack[k].path, m)
    BY <2>5, <2>6 DEF CallsOK
  <2>7. CallsOK'
    <3> SUFFICES ASSUME NEW k \in 1..Len(stack')
                 PROVE  /\ stack'[k].at \in {"files", "subdirs"} => stack'[k].dir \in Dir
                        /\ stack'[k].at \in {"enter", "subdirs?", "subdirs"} => stack'[k].rec
                        /\ k < Len(stack') =>
                              /\ stack'[k].at = "subdirs"
                              /\ \E m \in stack'[k].seen :
                                    stack'[k+1].path = Append(stack'[k].path, m)
      BY DEF CallsOK
    <3>1. CASE k < Len(stack)
      <4>1. k \in 1..Len(stack) /\ stack'[k] = stack[k]
        BY <1>1, <2>4, <3>1
      <4> QED BY <2>6, <3>1, <4>1
    <3>2. CASE k = Len(stack)
      <4>1. stack'[k] = f /\ stack'[k+1] = g
        BY <2>4, <3>2
      <4> QED BY <1>11, <1>12, <2>1, <2>2, <2>3, <4>1
    <3>3. CASE k = Len(stack) + 1
      <4>1. stack'[k] = g /\ ~(k < Len(stack'))
        BY <1>1, <2>4, <3>3
      <4> QED BY <2>2, <4>1
    <3> QED BY <1>1, <2>4, <3>1, <3>2, <3>3
  <2> QED BY <1>14, <2>4, <2>7 DEF Descends, TypeOK
<1> QED BY <1>1, <1>5, <1>6, <1>8, <1>9, <1>10, <1>13, <1>14 DEF CallDoes

LEMMA ChangeFacts ==
    ASSUME TypeOK, NEW d \in Dir, NEW n \in Name, NEW e \in Entry, ChangeEntry(d, n, e)
    PROVE  /\ TreeOK(tree') /\ touched' = touched \cup {<<d, n>>}
           /\ \A c \in Dir, m \in Name : <<c, m>> # <<d, n>> => tree'[c][m] = tree[c][m]
           /\ stack' \in Seq(Call) /\ Len(stack') = Len(stack)
           /\ \A k \in 1..Len(stack) :
                 stack'[k] = IF stack[k].dir = d THEN [stack[k] EXCEPT !.must = @ \ {n}]
                                                 ELSE stack[k]
<1>1. tree \in [Dir -> [Name -> Entry]] /\ tree' = [tree EXCEPT ![d][n] = e]
  BY DEF TypeOK, TreeOK, ChangeEntry
<1>2. /\ TreeOK(tree')
      /\ \A c \in Dir, m \in Name : <<c, m>> # <<d, n>> => tree'[c][m] = tree[c][m]
  BY <1>1 DEF TreeOK
<1> DEFINE F(k) == IF stack[k].dir = d THEN [stack[k] EXCEPT !.must = @ \ {n}] ELSE stack[k]
<1>3. stack \in Seq(Call) /\ DOMAIN stack = 1..Len(stack) /\ Len(stack) \in Nat
  BY LenProperties DEF TypeOK
<1>4. ASSUME NEW k \in 1..Len(stack) PROVE F(k) \in Call
  <2>1. stack[k] \in Call
    BY <1>3, ElementOfSeq
  <2> QED BY <2>1 DEF Call
<1>5. stack' = [k \in 1..Len(stack) |-> F(k)]
  BY <1>3 DEF ChangeEntry
<1> HIDE DEF F
<1>6. stack' \in Seq(Call) /\ Len(stack') = Len(stack)
  BY <1>3, <1>4, <1>5, IsASeq
<1>7. \A k \in 1..Len(stack) : stack'[k] = F(k)
  BY <1>5
<1> QED BY <1>2, <1>6, <1>7 DEF F, ChangeEntry

LEMMA ChangeType ==
    ASSUME TypeOK, CallsOK, NEW d \in Dir, NEW n \in Name, NEW e \in Entry, ChangeEntry(d, n, e)
    PROVE  TypeOK' /\ CallsOK'
<1>1. /\ TreeOK(tree') /\ stack' \in Seq(Call) /\ Len(stack') = Len(stack)
      /\ \A k \in 1..Len(stack) :
            stack'[k] = IF stack[k].dir = d THEN [stack[k] EXCEPT !.must = @ \ {n}]
                                            ELSE stack[k]
  BY ChangeFacts
<1>2. Len(stack) \in Nat /\ \A k \in 1..Len(stack) : stack[k] \in Call
  BY LenProperties, ElementOfSeq DEF TypeOK
<1>3. \A k \in 1..Len(stack) :
         /\ stack'[k].at = stack[k].at /\ stack'[k].dir = stack[k].dir
         /\ stack'[k].rec = stack[k].rec /\ stack'[k].path = stack[k].path
         /\ stack'[k].seen = stack[k].seen
  BY <1>1, <1>2 DEF Call
<1>4. \A k \in 1..Len(stack) : k < Len(stack) => k + 1 \in 1..Len(stack)
  BY <1>2
<1>5. CallsOK'
  <2> SUFFICES ASSUME NEW k \in 1..Len(stack)
               PROVE  /\ stack'[k].at \in {"files", "subdirs"} => stack'[k].dir \in Dir
                      /\ stack'[k].at \in {"enter", "subdirs?", "subdirs"} => stack'[k].rec
                      /\ k < Len(stack) =>
                            /\ stack'[k].at = "subdirs"
                            /\ \E m \in stack'[k].seen :
                                  stack'[k+1].path = Append(stack'[k].path, m)
    BY <1>1 DEF CallsOK
  <2>1. k < Len(stack) => stack'[k+1].path = stack[k+1].path
    BY <1>3, <1>4
  <2> QED BY <1>3, <2>1 DEF CallsOK
<1> QED BY <1>1, <1>5 DEF TypeOK, ChangeEntry

(* The first path of a list is taken.                                      *)
LEMMA TakeFacts ==
    ASSUME TypeOK, NEW op \in Ops, Take(op)
    PROVE  /\ lists' \in [Ops -> Seq(Seq(Name))] /\ stack = <<>>
           /\ Head(lists[op]) = lists[op][1] /\ Head(lists[op]) \in Seq(Name)
           /\ 1 \in 1..Len(lists[op])
           /\ \A x \in Ops : x # op => lists'[x] = lists[x]
           /\ Len(lists'[op]) = Len(lists[op]) - 1
           /\ \A k \in 1..Len(lists[op]) - 1 : lists'[op][k] = lists[op][k+1]
<1> DEFINE X == Seq(Name)
           l == lists[op]
<1>1. lists \in [Ops -> Seq(X)] /\ lists' = [lists EXCEPT ![op] = Tail(l)] /\ l # <<>> /\ stack = <<>>
  BY DEF TypeOK, Take
<1>2. l \in Seq(X)
  BY <1>1
<1> HIDE DEF X, l
<1>3. /\ Head(l) = l[1] /\ Len(l) \in Nat \ {0} /\ Tail(l) \in Seq(X)
      /\ Len(Tail(l)) = Len(l) - 1 /\ \A k \in 1..Len(Tail(l)) : Tail(l)[k] = l[k+1]
      /\ Head(l) \in X
  BY <1>1, <1>2, HeadTailProperties, EmptySeq, LenProperties
<1> QED BY <1>1, <1>3 DEF X, l

(* An option is accepted, and the path is put at the end of its list.      *)
LEMMA OptionFacts ==
    ASSUME TypeOK, ParseOption
    PROVE  /\ opts' \in Seq(Option) /\ UNCHANGED <<fileSystem, stack, backedup>>
           /\ \/ UNCHANGED <<lists, given>>
              \/ \E o \in Option :
                    /\ lists' = [lists EXCEPT ![o.op] = Append(@, o.path)]
                    /\ given' = Append(given, o)
                    /\ UNCHANGED outcome
<1>1. opts \in Seq(Option) /\ opts # <<>> /\ opts' = Tail(opts)
  BY DEF TypeOK, ParseOption
<1>2. opts' \in Seq(Option) /\ Head(opts) \in Option
  BY <1>1, HeadTailProperties
<1> QED BY <1>2 DEF ParseOption

LEMMA AddedFacts ==
    ASSUME TypeOK, NEW o \in Option,
           lists' = [lists EXCEPT ![o.op] = Append(@, o.path)], given' = Append(given, o)
    PROVE  /\ lists' \in [Ops -> Seq(Seq(Name))] /\ given' \in Seq(Option)
           /\ o.op \in Ops /\ o.path \in Seq(Name)
           /\ Len(given) \in Nat /\ Len(given') = Len(given) + 1 /\ given'[Len(given) + 1] = o
           /\ \A j \in 1..Len(given) : given'[j] = given[j]
           /\ \A x \in Ops : x # o.op => lists'[x] = lists[x]
           /\ Len(lists[o.op]) \in Nat /\ Len(lists'[o.op]) = Len(lists[o.op]) + 1
           /\ lists'[o.op][Len(lists[o.op]) + 1] = o.path
           /\ \A k \in 1..Len(lists[o.op]) : lists'[o.op][k] = lists[o.op][k]
<1> DEFINE X == Seq(Name)
           l == lists[o.op]
           m == Append(l, o.path)
<1>1. o.op \in Ops /\ o.path \in X /\ lists \in [Ops -> Seq(X)] /\ given \in Seq(Option)
  BY DEF Option, TypeOK
<1>2. l \in Seq(X)
  BY <1>1
<1>3. lists' = [lists EXCEPT ![o.op] = m]
  OBVIOUS
<1>4. lists'[o.op] = m
  BY <1>1, <1>3
<1>5. \A x \in Ops : x # o.op => lists'[x] = lists[x]
  BY <1>1, <1>3
<1> HIDE DEF X, l
<1>6. /\ m \in Seq(X) /\ Len(l) \in Nat /\ Len(m) = Len(l) + 1 /\ m[Len(l) + 1] = o.path
      /\ \A k \in 1..Len(l) : m[k] = l[k]
  BY <1>1, <1>2, AppendProperties, LenProperties
<1> HIDE DEF m
<1>7. lists' \in [Ops -> Seq(X)]
  BY <1>1, <1>3, <1>6
<1> DEFINE g == Append(given, o)
<1>8. /\ g \in Seq(Option) /\ Len(given) \in Nat /\ Len(g) = Len(given) + 1
      /\ g[Len(given) + 1] = o /\ \A j \in 1..Len(given) : g[j] = given[j]
  BY <1>1, AppendProperties, LenProperties
<1>9. given' = g
  OBVIOUS
<1> HIDE DEF g
<1> USE DEF X, l
<1> QED BY <1>1, <1>4, <1>5, <1>6, <1>7, <1>8, <1>9

Begins(op) ==
    /\ Take(op) /\ UNCHANGED <<fileSystem, opts, outcome, given>>
    /\ LET p == Head(lists[op])
       IN  \/ op = "d" /\ stack' = <<Frame(p, FALSE, "again")>> /\ UNCHANGED backedup
           \/ op = "D" /\ stack' = <<Frame(p, TRUE, "enter")>> /\ UNCHANGED backedup
           \/ op = "f" /\ UNCHANGED stack /\ backedup' = Append(backedup, p)

LEMMA BeginSteps ==
    BackupDir1 \/ BackupDirs \/ BackupFiles => \E op \in Ops : Begins(op)
<1>1. BackupDir1 => Begins("d")
  BY DEF BackupDir1, Begins
<1>2. BackupDirs => Begins("D")
  BY DEF BackupDirs, Begins
<1>3. BackupFiles => Begins("f")
  BY DEF BackupFiles, Begins
<1> QED BY <1>1, <1>2, <1>3 DEF Ops

LEMMA OneCall ==
    ASSUME NEW f \in Call, stack' = <<f>>
    PROVE  stack' \in Seq(Call) /\ Len(stack') = 1 /\ stack'[1] = f
OBVIOUS

(* What a call of directory_backup or recursive_backup that main makes.    *)
LEMMA BeginFacts ==
    ASSUME TypeOK, NEW op \in Ops, Begins(op)
    PROVE  /\ TypeOK' /\ CallsOK'
           /\ LET p == lists[op][1]
              IN  \/ /\ op # "f" /\ UNCHANGED backedup /\ Len(stack') = 1
                     /\ stack'[1].path = p /\ stack'[1].rec = (op = "D")
                     /\ stack'[1].at = (IF op = "D" THEN "enter" ELSE "again")
                  \/ op = "f" /\ UNCHANGED stack /\ backedup' = Append(backedup, p)
<1> DEFINE p == Head(lists[op])
<1>1. /\ lists' \in [Ops -> Seq(Seq(Name))] /\ stack = <<>>
      /\ p = lists[op][1] /\ p \in Seq(Name)
  BY TakeFacts DEF Begins
<1>2. UNCHANGED <<tree, changes, opts, given>>
  BY DEF Begins, fileSystem
<1>3. Frame(p, FALSE, "again") \in Call /\ Frame(p, TRUE, "enter") \in Call
  BY <1>1, FrameType
<1>4. /\ Frame(p, FALSE, "again").path = p /\ Frame(p, FALSE, "again").rec = FALSE
      /\ Frame(p, FALSE, "again").at = "again"
      /\ Frame(p, TRUE, "enter").path = p /\ Frame(p, TRUE, "enter").rec = TRUE
      /\ Frame(p, TRUE, "enter").at = "enter"
  BY DEF Frame
<1> HIDE DEF p
<1>5. ASSUME NEW f \in Call, stack' = <<f>>, f.at \in {"enter", "again"}, f.at = "enter" => f.rec,
             UNCHANGED backedup
      PROVE  TypeOK' /\ CallsOK'
  <2>1. stack' \in Seq(Call) /\ Len(stack') = 1 /\ stack'[1] = f
    BY <1>5, OneCall
  <2>2. CallsOK'
    BY <1>5, <2>1 DEF CallsOK
  <2> QED BY <1>1, <1>2, <1>5, <2>1, <2>2 DEF TypeOK
<1>6. CASE op = "d" /\ stack' = <<Frame(p, FALSE, "again")>> /\ UNCHANGED backedup
  <2>1. stack' \in Seq(Call) /\ Len(stack') = 1 /\ stack'[1] = Frame(p, FALSE, "again")
    BY <1>3, <1>6, OneCall
  <2>2. TypeOK' /\ CallsOK'
    BY <1>3, <1>4, <1>5, <1>6
  <2> QED BY <1>1, <1>4, <1>6, <2>1, <2>2
<1>7. CASE op = "D" /\ stack' = <<Frame(p, TRUE, "enter")>> /\ UNCHANGED backedup
  <2>1. stack' \in Seq(Call) /\ Len(stack') = 1 /\ stack'[1] = Frame(p, TRUE, "enter")
    BY <1>3, <1>7, OneCall
  <2>2. TypeOK' /\ CallsOK'
    BY <1>3, <1>4, <1>5, <1>7
  <2> QED BY <1>1, <1>4, <1>7, <2>1, <2>2
<1>8. CASE op = "f" /\ UNCHANGED stack /\ backedup' = Append(backedup, p)
  <2> DEFINE X == Seq(Name)
  <2>1. backedup \in Seq(X) /\ p \in X
    BY <1>1 DEF TypeOK
  <2> HIDE DEF X
  <2>2. backedup' \in Seq(X)
    BY <1>8, <2>1, AppendProperties
  <2>3. stack' \in Seq(Call) /\ CallsOK'
    <3>1. stack' = <<>> /\ stack \in Seq(Call) /\ Len(<<>>) = 0
      BY <1>1, <1>8, EmptySeq DEF TypeOK
    <3> QED BY <1>1, <3>1 DEF CallsOK
  <2> QED BY <1>1, <1>2, <1>8, <2>2, <2>3 DEF TypeOK, X
<1> QED BY <1>6, <1>7, <1>8 DEF Begins, p

LEMMA StackInit == Init => TypeOK /\ CallsOK
<1> SUFFICES ASSUME Init PROVE TypeOK /\ CallsOK
  OBVIOUS
<1>1. /\ tree \in Trees /\ opts \in CmdLines /\ lists = [op \in {"f", "d", "D"} |-> <<>>]
      /\ stack = <<>> /\ backedup = <<>> /\ given = <<>> /\ changes = 0
  BY DEF Init
<1>2. Len(<<>>) = 0 /\ \A X : <<>> \in Seq(X)
  BY EmptySeq
<1>3. TreeOK(tree) /\ opts \in Seq(Option)
  BY <1>1, TreesAssumption, CmdLinesAssumption DEF TreeOK, Option, Ops
<1>4. lists \in [Ops -> Seq(Seq(Name))]
  BY <1>1, <1>2 DEF Ops
<1> QED BY <1>1, <1>2, <1>3, <1>4 DEF TypeOK, CallsOK

LEMMA StackNext ==
    ASSUME TypeOK, CallsOK, [Next]_vars
    PROVE  TypeOK' /\ CallsOK'
<1>1. CASE ParseOption
  <2>1. /\ opts' \in Seq(Option) /\ UNCHANGED <<tree, changes, stack, backedup>>
        /\ lists' \in [Ops -> Seq(Seq(Name))] /\ given' \in Seq(Option)
    BY <1>1, OptionFacts, AddedFacts DEF TypeOK, fileSystem
  <2> QED BY <2>1 DEF TypeOK, CallsOK
<1>2. CASE BackupDir1 \/ BackupDirs \/ BackupFiles
  BY <1>2, BeginSteps, BeginFacts
<1>3. CASE Calls
  BY <1>3, CallsType
<1>4. CASE Finish \/ UNCHANGED vars
  BY <1>4 DEF Finish, vars, fileSystem, TypeOK, CallsOK
<1>5. CASE \E d \in Dir, n \in Name, e \in Entry : ChangeEntry(d, n, e)
  BY <1>5, ChangeType
<1> QED BY <1>1, <1>2, <1>3, <1>4, <1>5 DEF Next, Program

-----------------------------------------------------------------------------
(* Why the program ends early                                              *)

LEMMA LookupStays ==
    ASSUME UNCHANGED <<tree, open>>
    PROVE  /\ \A p : Lookup(p)' = Lookup(p)
           /\ \A p : CanList(p)' = CanList(p)
<1>1. \A p : Lookup(p)' = To(tree, open, p, Len(p))
  BY DEF Lookup, To, Follow, Next1, Start
<1>2. \A p : Lookup(p)' = Lookup(p)
  BY <1>1, LookupIs
<1> QED BY <1>2 DEF CanList

WasDir(f) ==
    f.at \notin {"enter", "again"} \/ (f.at = "again" /\ f.rec) => Lookup(f.path).kind = "dir"

AllWereDir == \A k \in 1..Len(stack) : WasDir(stack[k])

LEMMA QuietCalls ==
    ASSUME TypeOK, CallsOK, QuietOK, Calls
    PROVE  QuietOK'
<1>1. /\ stack # <<>> /\ Cur \in Call /\ Cur = stack[Len(stack)] /\ Len(stack) \in Nat \ {0}
      /\ UNCHANGED <<tree, open, changes, opts, given, lists>> /\ CallDoes /\ outcome = "running"
  BY CallSteps, TopCall DEF Cur, Last, UnchangedInCalls, fileSystem
<1> SUFFICES ASSUME changes = 0, open = Dir
             PROVE  AllWereDir' /\ AbortIsExplained'
  BY <1>1 DEF QuietOK, AllWereDir, WasDir
<1>2. \A k \in 1..Len(stack) : WasDir(stack[k])
  BY DEF QuietOK, WasDir
<1>3. \A p : Lookup(p)' = Lookup(p)
  BY <1>1, LookupStays
<1>4. (\A k \in 1..Len(stack') : WasDir(stack'[k])) => AllWereDir'
  BY <1>3 DEF AllWereDir, WasDir
<1>5. Cur.path \in Seq(Name) /\ WasDir(Cur)
  BY <1>1, <1>2 DEF Call
<1>6. CASE Throws
  <2>1. AllWereDir'
    BY <1>2, <1>4, <1>6 DEF Throws
  <2>2. Cur' = Cur
    BY <1>6 DEF Throws, Cur, Last
  <2>3. Lookup(Cur.path).kind = "dir" => CanList(Cur.path)
    BY <1>1, <1>5, LookupType DEF CanList, TypeOK
  <2>4. Cur.at \in {"files?", "subdirs?"} => CanList(Cur.path)
    BY <1>5, <2>3 DEF WasDir
  <2>5. CASE Cur.at \in {"enter", "again"} /\ Lookup(Cur.path).kind = "error"
    BY <1>3, <2>1, <2>2, <2>5 DEF AbortIsExplained
  <2>6. CASE Cur.at \in {"files", "subdirs"} /\ \E n \in Name : Unread(n) /\ Type(n) = "error"
    <3>1. PICK n \in Name : Type(n) = "error"
      BY <2>6
    <3>2. Cur.dir \in Dir
      BY <1>1, <2>6 DEF CallsOK
    <3>3. tree[Cur.dir][n] \in Entry
      BY <3>2 DEF TypeOK, TreeOK
    <3>4. tree[Cur.dir][n].kind # "error"
      BY <3>3 DEF Entry
    <3>5. Lookup(Append(Cur.path, n)).kind = "error"
      BY <3>1, <3>4 DEF Type
    <3>6. PICK q : q = Append(Cur.path, n) /\ Lookup(q).kind = "error"
      BY <3>5
    <3>7. \E m \in Name : q = Append(Cur.path, m)
      BY <3>6
    <3>8. Lookup(q)'.kind = "error"
      BY <1>3, <3>6
    <3> QED BY <2>1, <2>2, <3>7, <3>8 DEF AbortIsExplained
  <2> QED BY <1>6, <2>1, <2>4, <2>5, <2>6 DEF Throws, AbortIsExplained
<1>7. CASE ~Throws
  <2>1. outcome' # "aborted"
    BY <1>1, <1>7 DEF CallDoes, Returns, Enters, Skips, Opens, Reads, Descends, Becomes
  <2>2. ASSUME NEW f \in Call, Becomes(f), WasDir(f)
        PROVE  AllWereDir'
    <3>1. /\ Len(stack') = Len(stack) /\ stack'[Len(stack)] = f
          /\ \A k \in 1..Len(stack) : k < Len(stack) => stack'[k] = stack[k]
      BY <1>1, <2>2, NewTop DEF Becomes
    <3>2. \A k \in 1..Len(stack) : k = Len(stack) \/ k < Len(stack)
      BY <1>1
    <3>3. \A k \in 1..Len(stack') : WasDir(stack'[k])
      BY <1>2, <2>2, <3>1, <3>2 DEF WasDir
    <3> QED BY <1>4, <3>3
  <2>3. CASE Returns
    <3>1. /\ Len(stack') = Len(stack) - 1
          /\ \A k \in 1..Len(stack) - 1 : stack'[k] = stack[k]
      BY <1>1, <2>3, TopCall DEF Returns, Leave
    <3>2. \A k \in 1..Len(stack') : k \in 1..Len(stack)
      BY <1>1, <3>1
    <3>3. \A k \in 1..Len(stack') : WasDir(stack'[k])
      BY <1>2, <3>1, <3>2
    <3> QED BY <1>4, <2>1, <3>3 DEF AbortIsExplained
  <2>4. CASE Enters
    <3>1. PICK at \in {"again", "files?"} : Becomes([Cur EXCEPT !.at = at])
      BY <2>4 DEF Enters
    <3>2. [Cur EXCEPT !.at = at] \in Call
      BY <1>1 DEF Call
    <3>3. WasDir([Cur EXCEPT !.at = at])
      BY <1>1, <2>4 DEF Enters, WasDir, Call
    <3> QED BY <2>1, <2>2, <3>1, <3>2, <3>3 DEF AbortIsExplained
  <2>5. CASE Skips
    <3>1. [Cur EXCEPT !.at = "subdirs?"] \in Call
      BY <1>1 DEF Call
    <3>2. WasDir([Cur EXCEPT !.at = "subdirs?"])
      BY <1>1, <1>5, <2>5 DEF Skips, WasDir, Call
    <3> QED BY <2>1, <2>2, <2>5, <3>1, <3>2 DEF Skips, AbortIsExplained
  <2>6. CASE Opens
    <3> DEFINE d == Lookup(Cur.path).dir
               m == {n \in Name : Present(tree[d][n])}
    <3>1. PICK at \in {"files", "subdirs"} :
              Becomes([Cur EXCEPT !.at = at, !.dir = d, !.seen = {}, !.must = m])
      BY <2>6 DEF Opens
    <3>2. d \in Dir /\ Lookup(Cur.path).kind = "dir"
      BY <1>5, <2>6, LookupType DEF Opens, CanList, TypeOK
    <3>3. m \subseteq Name
      OBVIOUS
    <3> HIDE DEF d, m
    <3>4. [Cur EXCEPT !.at = at, !.dir = d, !.seen = {}, !.must = m] \in Call
      BY <1>1, <3>2, <3>3 DEF Call
    <3>5. WasDir([Cur EXCEPT !.at = at, !.dir = d, !.seen = {}, !.must = m])
      BY <1>1, <3>2 DEF WasDir, Call
    <3> QED BY <2>1, <2>2, <3>1, <3>4, <3>5 DEF AbortIsExplained
  <2>7. ASSUME NEW n \in Name
        PROVE  LET f == [Cur EXCEPT !.seen = @ \cup {n}] IN f \in Call /\ WasDir(f)
    BY <1>1, <1>5 DEF Call, WasDir
  <2>8. ASSUME NEW n \in Name, Reads(n)
        PROVE  AllWereDir' /\ AbortIsExplained'
    BY <2>1, <2>2, <2>7, <2>8 DEF Reads, AbortIsExplained
  <2>9. ASSUME NEW n \in Name, Descends(n)
        PROVE  AllWereDir' /\ AbortIsExplained'
    <3> DEFINE f == [Cur EXCEPT !.seen = @ \cup {n}]
               g == Frame(Append(Cur.path, n), TRUE, "enter")
    <3>1. f \in Call /\ WasDir(f) /\ g \in Call /\ WasDir(g)
      BY <1>5, <2>7, PathType, FrameType DEF Frame, WasDir
    <3>2. stack' = Append([stack EXCEPT ![Len(stack)] = f], g)
      BY <2>9 DEF Descends
    <3> HIDE DEF f, g
    <3>3. /\ Len(stack') = Len(stack) + 1
          /\ stack'[Len(stack)] = f /\ stack'[Len(stack) + 1] = g
          /\ \A k \in 1..Len(stack) : k < Len(stack) => stack'[k] = stack[k]
      BY <1>1, <3>1, <3>2, Pushed
    <3>4. \A k \in 1..Len(stack') :
             k = Len(stack) \/ k = Len(stack) + 1 \/ (k \in 1..Len(stack) /\ k < Len(stack))
      BY <1>1, <3>3
    <3>5. \A k \in 1..Len(stack') : WasDir(stack'[k])
      BY <1>2, <3>1, <3>3, <3>4
    <3> QED BY <1>4, <2>1, <3>5 DEF AbortIsExplained
  <2> QED BY <1>1, <1>7, <2>3, <2>4, <2>5, <2>6, <2>8, <2>9 DEF CallDoes
<1> QED BY <1>6, <1>7

LEMMA QuietNext ==
    ASSUME TypeOK, CallsOK, QuietOK, [Next]_vars
    PROVE  QuietOK'
<1>1. CASE Calls
  BY <1>1, QuietCalls
<1>2. ASSUME UNCHANGED <<tree, open, changes, stack>>,
             outcome' # "aborted" \/ UNCHANGED outcome
      PROVE  QuietOK'
  <2>1. \A p : Lookup(p)' = Lookup(p)
    BY <1>2, LookupStays
  <2>2. AbortIsExplained => AbortIsExplained'
    BY <1>2, <2>1 DEF AbortIsExplained, Cur, Last
  <2> QED BY <1>2, <2>1, <2>2 DEF QuietOK
<1>3. CASE ParseOption \/ Finish
  BY <1>2, <1>3 DEF ParseOption, Finish, fileSystem
<1>4. CASE BackupDir1 \/ BackupDirs \/ BackupFiles
  <2>1. PICK op \in Ops : Begins(op)
    BY <1>4, BeginSteps
  <2>2. UNCHANGED <<tree, open, changes, outcome>> /\ outcome = "running"
    BY <2>1 DEF Begins, fileSystem, Take
  <2>3. CASE op = "f"
    BY <1>2, <2>1, <2>2, <2>3, BeginFacts
  <2>4. CASE op # "f"
    <3>1. /\ Len(stack') = 1 /\ stack'[1].rec = (op = "D")
          /\ stack'[1].at = (IF op = "D" THEN "enter" ELSE "again")
      BY <2>1, <2>4, BeginFacts
    <3>2. stack'[1].at = "again" => ~stack'[1].rec
      BY <3>1
    <3>3. stack'[1].at \in {"enter", "again"} /\ \A k \in 1..Len(stack') : k = 1
      BY <3>1
    <3> QED BY <2>2, <3>2, <3>3 DEF QuietOK, AbortIsExplained
  <2> QED BY <2>3, <2>4
<1>5. CASE \E d \in Dir, n \in Name, e \in Entry : ChangeEntry(d, n, e)
  <2>1. changes' = changes + 1 /\ changes \in Nat
    BY <1>5 DEF ChangeEntry, TypeOK
  <2> QED BY <2>1 DEF QuietOK
<1>6. CASE UNCHANGED vars
  BY <1>2, <1>6 DEF vars, fileSystem
<1> QED BY <1>1, <1>3, <1>4, <1>5, <1>6 DEF Next, Program

(* Nothing but what the file system does not answer ends LXRbackup early:  *)
(* as long as nobody changes the tree and all directories can be read,     *)
(* there are too many links in the path that it is at or in that of an     *)
(* entry there.                                                            *)
THEOREM AbortsAreExplained == Spec => []AbortIsExplained
<1> DEFINE Inv == TypeOK /\ CallsOK /\ QuietOK
<1>1. Init => Inv
  <2> SUFFICES ASSUME Init PROVE QuietOK
    BY StackInit
  <2>1. stack = <<>> /\ outcome = "running" /\ Len(<<>>) = 0
    BY EmptySeq DEF Init
  <2> QED BY <2>1 DEF QuietOK, AbortIsExplained
<1>2. Inv /\ [Next]_vars => Inv'
  BY StackNext, QuietNext
<1>3. Inv => AbortIsExplained
  BY DEF QuietOK, AbortIsExplained, TypeOK
<1> QED BY <1>1, <1>2, <1>3, PTL DEF Spec

-----------------------------------------------------------------------------
(* What options ask for, and what the calls have ahead of them             *)

LEMMA PrefixIs ==
    ASSUME NEW p \in Seq(Name), NEW q \in Seq(Name)
    PROVE  /\ IsPrefix(p, q) <=> Len(p) <= Len(q) /\ \A i \in 1..Len(p) : q[i] = p[i]
           /\ IsStrictPrefix(p, q) <=> Under(p, q)
<1>1. Len(p) \in Nat /\ Len(q) \in Nat
  BY LenProperties
<1>2. SubSeq(p, 1, Len(p)) = p
  BY SubSeqFull
<1>3. ASSUME Len(p) <= Len(q)
      PROVE  SubSeq(q, 1, Len(p)) = p <=> \A i \in 1..Len(p) : q[i] = p[i]
  <2> DEFINE n == Len(p)
             s == SubSeq(q, 1, n)
  <2>1. n \in Nat /\ 1 \in Int /\ n \in Int /\ \A i \in 1..n : q[i] \in Name
    BY <1>1, <1>3, ElementOfSeq
  <2>2. /\ s \in Seq(Name) /\ Len(s) = IF 1 <= n THEN n - 1 + 1 ELSE 0
        /\ \A i \in 1..(n - 1 + 1) : s[i] = q[1 + i - 1]
    <3> HIDE DEF n
    <3> QED BY <2>1, SubSeqProperties
  <2> HIDE DEF s
  <2>3. Len(s) = n /\ \A i \in 1..n : s[i] = q[i]
    BY <1>1, <2>2
  <2>4. s = p <=> \A i \in 1..n : s[i] = p[i]
    BY <2>2, <2>3, SeqEqual
  <2> QED BY <2>3, <2>4 DEF s
<1>4. IsPrefix(p, q) <=> Len(p) <= Len(q) /\ \A i \in 1..Len(p) : q[i] = p[i]
  BY <1>2, <1>3 DEF IsPrefix
<1>5. Len(p) = Len(q) /\ (\A i \in 1..Len(p) : q[i] = p[i]) => p = q
  BY SeqEqual
<1> QED BY <1>1, <1>4, <1>5 DEF IsStrictPrefix, Under

LEMMA CoversIs ==
    ASSUME NEW o \in Option, NEW q \in Seq(Name)
    PROVE  /\ o.op \in Ops /\ o.path \in Seq(Name)
           /\ Covers(o, q) <=> \/ o.op = "f" /\ q = o.path
                               \/ o.op = "d" /\ Under(o.path, q) /\ Len(q) = Len(o.path) + 1
                               \/ o.op = "D" /\ Under(o.path, q)
<1>1. o.op \in {"f", "d", "D"} /\ o.path \in Seq(Name)
  BY DEF Option, Ops
<1>2. Len(o.path) \in Nat
  BY <1>1, LenProperties
<1>3. CASE o.op = "f"
  BY <1>1, <1>3 DEF Covers, Ops
<1>4. CASE o.op = "d"
  <2>1. Covers(o, q) <=> IsPrefix(o.path, q) /\ Len(q) = Len(o.path) + 1
    BY <1>4 DEF Covers
  <2> QED BY <1>1, <1>2, <1>4, <2>1, PrefixIs DEF Ops, Under
<1>5. CASE o.op = "D"
  <2>1. Covers(o, q) <=> IsStrictPrefix(o.path, q)
    BY <1>5 DEF Covers
  <2> QED BY <1>1, <1>5, <2>1, PrefixIs DEF Ops
<1> QED BY <1>1, <1>3, <1>4, <1>5

(* The calls that wait are on the way to the last one, and have read the   *)
(* name that leads there.                                                  *)
LEMMA OnTheWay ==
    ASSUME TypeOK, CallsOK, NEW k \in 1..Len(stack), k < Len(stack)
    PROVE  /\ Under(stack[k].path, Cur.path)
           /\ Cur.path[Len(stack[k].path) + 1] \in stack[k].seen
<1> DEFINE n == Len(stack) - 1
           Ends1(p) == Len(p) <= Len(Cur.path) /\ \A i \in 1..Len(p) : Cur.path[i] = p[i]
           T == {i \in 0..n : Ends1(stack[Len(stack) - i].path)}
<1>1. Len(stack) \in Nat \ {0} /\ \A j \in 1..Len(stack) : stack[j].path \in Seq(Name)
  <2>1. \A j \in 1..Len(stack) : stack[j] \in Call
    BY ElementOfSeq DEF TypeOK
  <2> QED BY <2>1, LenProperties DEF TypeOK, Call
<1>2. Cur = stack[Len(stack)]
  BY DEF Cur, Last
<1>3. ASSUME NEW j \in 1..Len(stack), j < Len(stack), Ends1(stack[j+1].path)
      PROVE  /\ Under(stack[j].path, Cur.path) /\ Ends1(stack[j].path)
             /\ Cur.path[Len(stack[j].path) + 1] \in stack[j].seen
  <2>1. PICK m \in stack[j].seen : stack[j+1].path = Append(stack[j].path, m)
    BY <1>3 DEF CallsOK
  <2> DEFINE p == stack[j].path
             q == stack[j+1].path
  <2>2. p \in Seq(Name) /\ m \in Name
    <3>1. stack[j] \in Call
      BY ElementOfSeq DEF TypeOK
    <3> QED BY <3>1, <2>1 DEF Call
  <2>3. Len(p) \in Nat /\ Len(q) = Len(p) + 1 /\ q[Len(p) + 1] = m /\ \A i \in 1..Len(p) : q[i] = p[i]
    BY <2>1, <2>2, PathType
  <2>4. Len(Cur.path) \in Nat
    BY <1>1, <1>2, LenProperties
  <2> HIDE DEF p, q
  <2>5. Len(q) <= Len(Cur.path) /\ \A i \in 1..Len(q) : Cur.path[i] = q[i]
    BY <1>3 DEF q
  <2>6. Cur.path[Len(p) + 1] = m /\ Len(p) < Len(Cur.path) /\ \A i \in 1..Len(p) : Cur.path[i] = p[i]
    BY <2>3, <2>4, <2>5
  <2> QED BY <2>1, <2>6, <2>3, <2>4 DEF p, Under
<1>4. 0 \in T
  <2>1. Len(stack) - 0 = Len(stack) /\ n \in Nat
    BY <1>1
  <2>2. Ends1(Cur.path)
    BY <1>1, <1>2, LenProperties
  <2> QED BY <1>2, <2>1, <2>2
<1> HIDE DEF Ends1
<1>5. ASSUME NEW i \in 1..n, i - 1 \in T PROVE i \in T
  <2> DEFINE j == Len(stack) - i
  <2>1. j \in 1..Len(stack) /\ j < Len(stack) /\ Len(stack) - (i - 1) = j + 1 /\ i \in 0..n
    BY <1>1
  <2>2. Ends1(stack[j+1].path)
    BY <1>5, <2>1
  <2>3. Ends1(stack[j].path)
    <3> HIDE DEF j
    <3> QED BY <1>3, <2>1, <2>2
  <2> QED BY <2>1, <2>3
<1> HIDE DEF T
<1>6. \A i \in 0..n : i \in T
  <2>1. n \in Nat
    BY <1>1
  <2> HIDE DEF n
  <2> QED BY <1>4, <1>5, <2>1, StepByStep
<1>7. Ends1(stack[k+1].path)
  <2>1. Len(stack) - (k + 1) \in 0..n /\ Len(stack) - (Len(stack) - (k + 1)) = k + 1
    BY <1>1
  <2> QED BY <1>6, <2>1 DEF T
<1> QED BY <1>3, <1>7

(* If the last call has no more ahead than before, the calls may hand over *)
(* no more.                                                                *)
LEMMA LessAhead ==
    ASSUME TypeOK, stack # <<>>, NEW f \in Call, Becomes(f),
           \A q \in Seq(Name) : Ahead(f, q, Name) => Ahead(Cur, q, Name)
    PROVE  MayCome(stack') \subseteq MayCome(stack)
<1>1. /\ Len(stack') = Len(stack) /\ stack'[Len(stack)] = f
      /\ \A k \in 1..Len(stack) : k < Len(stack) => stack'[k] = stack[k]
  BY NewTop DEF Becomes
<1>2. Len(stack) \in Nat \ {0} /\ Cur = stack[Len(stack)]
  BY TopCall DEF Cur, Last
<1>3. ASSUME NEW q \in Seq(Name), NEW k \in 1..Len(stack'), Ahead(stack'[k], q, Name)
      PROVE  q \in MayCome(stack)
  <2>1. CASE k < Len(stack)
    <3>1. k \in 1..Len(stack) /\ stack'[k] = stack[k]
      BY <1>1, <2>1
    <3> QED BY <1>3, <3>1 DEF MayCome
  <2>2. CASE k = Len(stack)
    <3>1. k \in 1..Len(stack) /\ Ahead(stack[k], q, Name)
      BY <1>1, <1>2, <1>3, <2>2
    <3> QED BY <3>1 DEF MayCome
  <2> QED BY <1>1, <1>2, <2>1, <2>2
<1> QED BY <1>3 DEF MayCome

LEMMA MayShrinks ==
    ASSUME TypeOK, CallsOK, Calls
    PROVE  /\ MayCome(stack') \subseteq MayCome(stack)
           /\ \/ UNCHANGED backedup
              \/ \E q \in MayCome(stack) : q \notin MayCome(stack') /\ backedup' = Append(backedup, q)
<1>1. /\ stack # <<>> /\ Cur \in Call /\ Cur = stack[Len(stack)] /\ Len(stack) \in Nat \ {0} /\ CallDoes
  BY CallSteps, TopCall DEF Cur, Last
<1>2. Cur.path \in Seq(Name) /\ Len(Cur.path) \in Nat
  BY <1>1, LenProperties DEF Call
<1>3. CASE Throws
  BY <1>3 DEF Throws
<1>4. CASE Returns
  <2>1. /\ Len(stack') = Len(stack) - 1
        /\ \A k \in 1..Len(stack) - 1 : stack'[k] = stack[k]
    BY <1>1, <1>4, TopCall DEF Returns, Leave
  <2>2. \A k \in 1..Len(stack') : k \in 1..Len(stack) /\ stack'[k] = stack[k]
    BY <1>1, <2>1
  <2> QED BY <1>4, <2>2 DEF Returns, MayCome
<1>5. CASE Enters
  <2>1. PICK at \in {"again", "files?"} :
            /\ Cur.at \in {"enter", "again"}
            /\ Becomes([Cur EXCEPT !.at = at])
    BY <1>5 DEF Enters
  <2>2. [Cur EXCEPT !.at = at] \in Call
    BY <1>1 DEF Call
  <2>3. \A q : Ahead([Cur EXCEPT !.at = at], q, Name) => Ahead(Cur, q, Name)
    BY <1>1, <2>1 DEF Ahead, Call
  <2> QED BY <1>1, <1>5, <2>1, <2>2, <2>3, LessAhead DEF Enters
<1>6. CASE Skips
  <2>1. [Cur EXCEPT !.at = "subdirs?"] \in Call
    BY <1>1 DEF Call
  <2>2. \A q : Ahead([Cur EXCEPT !.at = "subdirs?"], q, Name) => Ahead(Cur, q, Name)
    BY <1>1, <1>6 DEF Ahead, Call, Skips
  <2> QED BY <1>1, <1>6, <2>1, <2>2, LessAhead DEF Skips
<1>7. CASE Opens
  <2> DEFINE d == Lookup(Cur.path).dir
             m == {n \in Name : Present(tree[d][n])}
  <2>1. PICK at \in {"files", "subdirs"} :
            /\ Cur.at = (IF at = "files" THEN "files?" ELSE "subdirs?")
            /\ Becomes([Cur EXCEPT !.at = at, !.dir = d, !.seen = {}, !.must = m])
    BY <1>7 DEF Opens
  <2>2. d \in Dir
    BY <1>2, <1>7, LookupType DEF Opens, CanList, TypeOK
  <2>3. m \subseteq Name
    OBVIOUS
  <2> HIDE DEF d, m
  <2> DEFINE f == [Cur EXCEPT !.at = at, !.dir = d, !.seen = {}, !.must = m]
  <2>4. f \in Call
    BY <1>1, <2>2, <2>3 DEF Call
  <2>5. f.at = at /\ f.path = Cur.path /\ f.rec = Cur.rec
    BY <1>1 DEF Call
  <2>6. \A q : Ahead(f, q, Name) => Ahead(Cur, q, Name)
    <3> HIDE DEF f
    <3> QED BY <2>1, <2>5 DEF Ahead
  <2>7. Becomes(f)
    BY <2>1
  <2> HIDE DEF f
  <2> QED BY <1>1, <1>7, <2>4, <2>6, <2>7, LessAhead DEF Opens
<1>8. ASSUME NEW n \in Name
      PROVE  LET f == [Cur EXCEPT !.seen = @ \cup {n}]
             IN  /\ f \in Call /\ f.path = Cur.path /\ f.rec = Cur.rec /\ f.at = Cur.at
                 /\ f.seen = Cur.seen \cup {n} /\ f.must = Cur.must /\ f.dir = Cur.dir
                 /\ \A q : Ahead(f, q, Name) => Ahead(Cur, q, Name)
  <2> DEFINE f == [Cur EXCEPT !.seen = @ \cup {n}]
  <2>1. /\ f \in Call /\ f.path = Cur.path /\ f.rec = Cur.rec /\ f.at = Cur.at
        /\ f.seen = Cur.seen \cup {n} /\ f.must = Cur.must /\ f.dir = Cur.dir
    BY <1>1 DEF Call
  <2> HIDE DEF f
  <2>2. \A q : Ahead(f, q, Name) => Ahead(Cur, q, Name)
    BY <2>1 DEF Ahead
  <2> QED BY <2>1, <2>2 DEF f
<1>9. ASSUME NEW n \in Name, Reads(n)
      PROVE  /\ MayCome(stack') \subseteq MayCome(stack)
             /\ \/ UNCHANGED backedup
                \/ \E q \in MayCome(stack) : q \notin MayCome(stack') /\ backedup' = Append(backedup, q)
  <2> DEFINE f == [Cur EXCEPT !.seen = @ \cup {n}]
             q == Append(Cur.path, n)
  <2>1. /\ f \in Call /\ Becomes(f) /\ f.path = Cur.path /\ f.rec = Cur.rec /\ f.at = Cur.at
        /\ f.seen = Cur.seen \cup {n} /\ \A p : Ahead(f, p, Name) => Ahead(Cur, p, Name)
    BY <1>8, <1>9 DEF Reads
  <2>2. UNCHANGED backedup \/ (Cur.at = "files" /\ n \notin Cur.seen /\ backedup' = Append(backedup, q))
    BY <1>9 DEF Reads, Unread
  <2>3. /\ q \in Seq(Name) /\ Len(q) = Len(Cur.path) + 1
        /\ q[Len(Cur.path) + 1] = n /\ \A i \in 1..Len(Cur.path) : q[i] = Cur.path[i]
    BY <1>2, PathType
  <2> HIDE DEF f, q
  <2>4. MayCome(stack') \subseteq MayCome(stack)
    BY <1>1, <2>1, LessAhead
  <2>5. ASSUME Cur.at = "files", n \notin Cur.seen
        PROVE  q \in MayCome(stack) /\ q \notin MayCome(stack')
    <3>1. Ahead(Cur, q, Name)
      BY <1>2, <2>3, <2>5 DEF Ahead, Under
    <3>2. q \in MayCome(stack)
      BY <1>1, <2>3, <3>1 DEF MayCome
    <3>3. /\ Len(stack') = Len(stack) /\ stack'[Len(stack)] = f
          /\ \A k \in 1..Len(stack) : k < Len(stack) => stack'[k] = stack[k]
      BY <1>1, <2>1, NewTop DEF Becomes
    <3>4. ~Ahead(f, q, Name)
      BY <2>1, <2>3, <2>5 DEF Ahead
    <3>5. ASSUME NEW k \in 1..Len(stack), k < Len(stack) PROVE ~Ahead(stack[k], q, Name)
      <4>1. /\ Under(stack[k].path, Cur.path) /\ stack[k].at = "subdirs"
            /\ Cur.path[Len(stack[k].path) + 1] \in stack[k].seen
        BY <3>5, OnTheWay DEF CallsOK
      <4>2. Len(stack[k].path) \in Nat
        <5>1. stack[k] \in Call
          BY ElementOfSeq DEF TypeOK
        <5> QED BY <5>1, LenProperties DEF Call
      <4>3. Len(stack[k].path) + 1 \in 1..Len(Cur.path)
        BY <1>2, <4>1, <4>2 DEF Under
      <4>4. q[Len(stack[k].path) + 1] \in stack[k].seen
        BY <2>3, <4>1, <4>3
      <4> QED BY <4>1, <4>4 DEF Ahead
    <3>6. \A k \in 1..Len(stack') : k = Len(stack) \/ (k \in 1..Len(stack) /\ k < Len(stack))
      BY <1>1, <3>3
    <3> QED BY <3>2, <3>3, <3>4, <3>5, <3>6 DEF MayCome
  <2> QED BY <2>2, <2>4, <2>5
<1>10. ASSUME NEW n \in Name, Descends(n)
       PROVE  MayCome(stack') \subseteq MayCome(stack) /\ UNCHANGED backedup
  <2> DEFINE f == [Cur EXCEPT !.seen = @ \cup {n}]
             g == Frame(Append(Cur.path, n), TRUE, "enter")
  <2>1. /\ f \in Call /\ f.path = Cur.path /\ f.rec = Cur.rec /\ f.at = Cur.at
        /\ f.seen = Cur.seen \cup {n} /\ \A p : Ahead(f, p, Name) => Ahead(Cur, p, Name)
    BY <1>8
  <2>2. g \in Call /\ g.path = Append(Cur.path, n)
    BY <1>2, PathType, FrameType DEF Frame
  <2>3. /\ stack' = Append([stack EXCEPT ![Len(stack)] = f], g) /\ UNCHANGED backedup
        /\ Cur.at = "subdirs" /\ n \notin Cur.seen /\ Cur.rec
    BY <1>1, <1>10 DEF Descends, Unread, CallsOK
  <2> HIDE DEF f, g
  <2>4. /\ Len(stack') = Len(stack) + 1
        /\ stack'[Len(stack)] = f /\ stack'[Len(stack) + 1] = g
        /\ \A k \in 1..Len(stack) : k < Len(stack) => stack'[k] = stack[k]
    BY <1>1, <2>1, <2>2, <2>3, Pushed
  <2>5. ASSUME NEW q \in Seq(Name), Ahead(g, q, Name) PROVE Ahead(Cur, q, Name)
    <3>1. /\ Len(g.path) = Len(Cur.path) + 1 /\ g.path[Len(Cur.path) + 1] = n
          /\ \A i \in 1..Len(Cur.path) : g.path[i] = Cur.path[i]
      BY <1>2, <2>2, PathType
    <3>2. Len(g.path) < Len(q) /\ \A i \in 1..Len(g.path) : q[i] = g.path[i]
      BY <2>5 DEF Ahead, Under
    <3>3. Len(q) \in Nat
      BY LenProperties
    <3>4. Under(Cur.path, q) /\ Len(q) # Len(Cur.path) + 1 /\ q[Len(Cur.path) + 1] = n
      BY <1>2, <3>1, <3>2, <3>3 DEF Under
    <3> QED BY <2>3, <3>4 DEF Ahead
  <2>6. \A k \in 1..Len(stack') :
           k = Len(stack) \/ k = Len(stack) + 1 \/ (k \in 1..Len(stack) /\ k < Len(stack))
    BY <1>1, <2>4
  <2>7. ASSUME NEW q \in Seq(Name), NEW k \in 1..Len(stack'), Ahead(stack'[k], q, Name)
        PROVE  \E j \in 1..Len(stack) : Ahead(stack[j], q, Name)
    <3>1. CASE k \in 1..Len(stack) /\ k < Len(stack)
      BY <2>4, <2>7, <3>1
    <3>2. CASE k = Len(stack) \/ k = Len(stack) + 1
      <4>1. Ahead(Cur, q, Name)
        BY <2>1, <2>4, <2>5, <2>7, <3>2
      <4> QED BY <1>1, <4>1
    <3> QED BY <2>6, <3>1, <3>2
  <2> QED BY <2>3, <2>7 DEF MayCome
<1> QED BY <1>1, <1>3, <1>4, <1>5, <1>6, <1>7, <1>9, <1>10 DEF CallDoes

-----------------------------------------------------------------------------
(* Every path that is handed over is owed to an option, and no path twice  *)
(* to the same one: own[i] is the option that the i-th path b[i] is owed   *)
(* to, wait[op][k] the one that put the k-th path on the list ls[op], and  *)
(* cur the one that the calls at work are for, which may hand over M.      *)

Owes(b, g, own) == \A i \in 1..Len(b) : own[i] \in 1..Len(g) /\ Covers(g[own[i]], b[i])

Apart(b, own) == \A i \in 1..Len(b) : \A j \in 1..Len(b) : own[i] = own[j] /\ b[i] = b[j] => i = j

Waits(b, g, l, own, w, op) ==
    \A k \in 1..Len(l) :
        /\ w[k] \in 1..Len(g) /\ g[w[k]].op = op /\ g[w[k]].path = l[k]
        /\ \A m \in 1..Len(l) : w[k] = w[m] => k = m
        /\ \A i \in 1..Len(b) : own[i] # w[k]

Works(b, g, ls, M, own, wait, cur) ==
    \A q \in M :
        /\ cur \in 1..Len(g) /\ Covers(g[cur], q)
        /\ \A op \in Ops : \A k \in 1..Len(ls[op]) : wait[op][k] # cur
        /\ \A i \in 1..Len(b) : own[i] = cur => b[i] # q

OwnedBy(b, g, ls, M, own, wait, cur) ==
    /\ Owes(b, g, own) /\ Apart(b, own)
    /\ \A op \in Ops : Waits(b, g, ls[op], own, wait[op], op)
    /\ Works(b, g, ls, M, own, wait, cur)

OwnedIn(b, g, ls, M) ==
    \E own \in [Nat -> Nat], wait \in [Ops -> [Nat -> Nat]], cur \in Nat :
        OwnedBy(b, g, ls, M, own, wait, cur)

OwnInv == OwnedIn(backedup, given, lists, MayCome(stack))

(* One more path q at the end of b, that is owed to option c.              *)
Grown(b, c, own, q, d, own2) ==
    /\ Len(b) \in Nat /\ Len(d) = Len(b) + 1
    /\ \A i \in 1..Len(d) : \/ i = Len(d) /\ own2[i] = c /\ d[i] = q
                            \/ i \in 1..Len(b) /\ own2[i] = own[i] /\ d[i] = b[i]

LEMMA OneMore ==
    ASSUME NEW b \in Seq(Seq(Name)), NEW q \in Seq(Name), NEW own \in [Nat -> Nat], NEW c \in Nat
    PROVE  \E own2 \in [Nat -> Nat] : Grown(b, c, own, q, Append(b, q), own2)
<1> DEFINE X == Seq(Name)
           n == Len(b)
           own2 == [own EXCEPT ![n + 1] = c]
           d == Append(b, q)
<1>1. b \in Seq(X) /\ q \in X
  OBVIOUS
<1> HIDE DEF X
<1>2. n \in Nat /\ Len(d) = n + 1 /\ d[n + 1] = q /\ \A i \in 1..n : d[i] = b[i]
  BY <1>1, AppendProperties, LenProperties
<1> HIDE DEF d, n
<1>3. /\ n + 1 \in Nat /\ \A i \in 1..n : i \in Nat /\ i # n + 1
      /\ \A i \in 1..n + 1 : i = n + 1 \/ i \in 1..n
  <2>1. n \in Nat
    BY <1>2
  <2> QED BY <2>1
<1>4. own2 \in [Nat -> Nat] /\ own2[n + 1] = c /\ \A i \in 1..n : own2[i] = own[i]
  BY <1>3
<1> HIDE DEF own2
<1>5. Grown(b, c, own, q, d, own2)
  BY <1>2, <1>3, <1>4 DEF Grown, n
<1> QED BY <1>4, <1>5 DEF d

LEMMA OwesMore ==
    ASSUME NEW b, NEW c, NEW own, NEW q, NEW d, NEW own2, NEW g, Grown(b, c, own, q, d, own2),
           Owes(b, g, own), Apart(b, own),
           c \in 1..Len(g), Covers(g[c], q),
           \A i \in 1..Len(b) : own[i] = c => b[i] # q
    PROVE  Owes(d, g, own2) /\ Apart(d, own2)
<1>1. Owes(d, g, own2)
  <2> SUFFICES ASSUME NEW i \in 1..Len(d)
               PROVE  own2[i] \in 1..Len(g) /\ Covers(g[own2[i]], d[i])
    BY DEF Owes
  <2>1. CASE i = Len(d) /\ own2[i] = c /\ d[i] = q
    BY <2>1
  <2>2. CASE i \in 1..Len(b) /\ own2[i] = own[i] /\ d[i] = b[i]
    BY <2>2 DEF Owes
  <2> QED BY <2>1, <2>2 DEF Grown
<1>2. Apart(d, own2)
  <2> SUFFICES ASSUME NEW i \in 1..Len(d), NEW j \in 1..Len(d), own2[i] = own2[j], d[i] = d[j]
               PROVE  i = j
    BY DEF Apart
  <2>1. CASE i \in 1..Len(b) /\ own2[i] = own[i] /\ d[i] = b[i]
             /\ j \in 1..Len(b) /\ own2[j] = own[j] /\ d[j] = b[j]
    BY <2>1 DEF Apart
  <2>2. CASE i = Len(d) /\ own2[i] = c /\ d[i] = q
    BY <2>2 DEF Grown
  <2>3. CASE j = Len(d) /\ own2[j] = c /\ d[j] = q
    BY <2>3 DEF Grown
  <2> QED BY <2>1, <2>2, <2>3 DEF Grown
<1> QED BY <1>1, <1>2

LEMMA WaitsMore ==
    ASSUME NEW b, NEW c, NEW own, NEW q, NEW d, NEW own2, NEW g, Grown(b, c, own, q, d, own2),
           NEW l, NEW w, NEW op, Waits(b, g, l, own, w, op),
           \A k \in 1..Len(l) : w[k] # c
    PROVE  Waits(d, g, l, own2, w, op)
<1> SUFFICES ASSUME NEW k \in 1..Len(l)
             PROVE  /\ w[k] \in 1..Len(g) /\ g[w[k]].op = op /\ g[w[k]].path = l[k]
                    /\ \A m \in 1..Len(l) : w[k] = w[m] => k = m
                    /\ \A i \in 1..Len(d) : own2[i] # w[k]
  BY DEF Waits
<1>1. ASSUME NEW i \in 1..Len(d) PROVE own2[i] # w[k]
  <2>1. \A j \in 1..Len(b) : own[j] # w[k]
    BY DEF Waits
  <2> QED BY <2>1 DEF Grown
<1> QED BY <1>1 DEF Waits

LEMMA OwnedCalls ==
    ASSUME TypeOK, CallsOK, OwnInv, Calls
    PROVE  OwnInv'
<1>1. PICK own \in [Nat -> Nat], wait \in [Ops -> [Nat -> Nat]], cur \in Nat :
          OwnedBy(backedup, given, lists, MayCome(stack), own, wait, cur)
  BY DEF OwnInv, OwnedIn
<1>2. UNCHANGED <<given, lists>> /\ MayCome(stack') \subseteq MayCome(stack)
  BY CallSteps, MayShrinks DEF UnchangedInCalls
<1>3. ASSUME NEW b, NEW g, NEW ls, NEW M, NEW N, N \subseteq M, OwnedBy(b, g, ls, M, own, wait, cur)
      PROVE  OwnedIn(b, g, ls, N)
  <2>1. OwnedBy(b, g, ls, N, own, wait, cur)
    BY <1>3 DEF OwnedBy, Works
  <2> QED BY <2>1 DEF OwnedIn
<1>4. ASSUME NEW b \in Seq(Seq(Name)), NEW g, NEW ls, NEW M, NEW N, N \subseteq M,
             NEW q \in M, q \in Seq(Name), q \notin N,
             OwnedBy(b, g, ls, M, own, wait, cur)
      PROVE  OwnedIn(Append(b, q), g, ls, N)
  <2> DEFINE d == Append(b, q)
  <2>1. PICK own2 \in [Nat -> Nat] : Grown(b, cur, own, q, d, own2)
    BY <1>4, OneMore
  <2> HIDE DEF d
  <2>2. /\ Owes(b, g, own) /\ Apart(b, own)
        /\ \A op \in Ops : Waits(b, g, ls[op], own, wait[op], op)
    BY <1>4 DEF OwnedBy
  <2>3. ASSUME NEW p \in M
        PROVE  /\ cur \in 1..Len(g) /\ Covers(g[cur], p)
               /\ \A op \in Ops : \A k \in 1..Len(ls[op]) : wait[op][k] # cur
               /\ \A i \in 1..Len(b) : own[i] = cur => b[i] # p
    BY <1>4 DEF OwnedBy, Works
  <2>4. Owes(d, g, own2) /\ Apart(d, own2)
    BY <1>4, <2>1, <2>2, <2>3, OwesMore
  <2>5. ASSUME NEW op \in Ops PROVE Waits(d, g, ls[op], own2, wait[op], op)
    <3> DEFINE l == ls[op]
               w == wait[op]
    <3>1. Waits(b, g, l, own, w, op) /\ \A k \in 1..Len(l) : w[k] # cur
      BY <1>4, <2>2, <2>3
    <3> HIDE DEF l, w
    <3>2. Waits(d, g, l, own2, w, op)
      BY <2>1, <3>1, WaitsMore
    <3> QED BY <3>2 DEF l, w
  <2>6. ASSUME NEW p \in N
        PROVE  \A i \in 1..Len(d) : own2[i] = cur => d[i] # p
    <3>1. p # q /\ \A i \in 1..Len(b) : own[i] = cur => b[i] # p
      BY <1>4, <2>3
    <3> QED BY <2>1, <3>1 DEF Grown
  <2>7. Works(d, g, ls, N, own2, wait, cur)
    BY <1>4, <2>3, <2>6 DEF Works
  <2>8. OwnedBy(d, g, ls, N, own2, wait, cur)
    BY <2>4, <2>5, <2>7 DEF OwnedBy
  <2> QED BY <2>8 DEF OwnedIn, d
<1>5. CASE UNCHANGED backedup
  BY <1>1, <1>2, <1>3, <1>5 DEF OwnInv
<1>6. ASSUME NEW q \in MayCome(stack), q \notin MayCome(stack'), backedup' = Append(backedup, q)
      PROVE  OwnInv'
  <2>1. q \in Seq(Name) /\ backedup \in Seq(Seq(Name))
    BY DEF MayCome, TypeOK
  <2>2. OwnedIn(Append(backedup, q), given, lists, MayCome(stack'))
    BY <1>1, <1>2, <1>4, <1>6, <2>1
  <2> QED BY <1>2, <1>6, <2>2 DEF OwnInv
<1> QED BY <1>5, <1>6, MayShrinks

(* One more option o, and its path at the end of its list.                 *)
Added(g, ls, o, g2, ls2) ==
    /\ Len(g) \in Nat /\ Len(g2) = Len(g) + 1 /\ g2[Len(g) + 1] = o
    /\ \A j \in 1..Len(g) : g2[j] = g[j]
    /\ \A x \in Ops : x # o.op => ls2[x] = ls[x]
    /\ Len(ls[o.op]) \in Nat /\ Len(ls2[o.op]) = Len(ls[o.op]) + 1
    /\ ls2[o.op][Len(ls[o.op]) + 1] = o.path
    /\ \A k \in 1..Len(ls[o.op]) : ls2[o.op][k] = ls[o.op][k]

(* w2 holds one owner more than w, option m + 1.                           *)
Longer(l, w, l2, w2, m) ==
    \A k \in 1..Len(l2) : w2[k] = m + 1 \/ (k \in 1..Len(l) /\ w2[k] = w[k])

LEMMA UpTo == \A n \in Nat : \A k \in 1..n + 1 : k = n + 1 \/ k \in 1..n
OBVIOUS

LEMMA Above ==
    \A n \in Nat : n + 1 \in Nat /\ \A k \in 1..n : k \in Nat /\ k \in 1..n + 1 /\ k # n + 1
OBVIOUS

LEMMA WaitsNext ==
    ASSUME NEW b, NEW g, NEW l, NEW own \in [Nat -> Nat], NEW w \in [Nat -> Nat], NEW op,
           NEW g2, NEW l2, NEW m \in Nat, NEW n \in Nat, NEW o,
           m = Len(g), Len(g2) = m + 1, g2[m + 1] = o, \A j \in 1..m : g2[j] = g[j],
           n = Len(l), Len(l2) = n + 1, l2[n + 1] = o.path, \A k \in 1..n : l2[k] = l[k],
           op = o.op, Owes(b, g, own), Waits(b, g, l, own, w, op)
    PROVE  \E w2 \in [Nat -> Nat] : Waits(b, g2, l2, own, w2, op) /\ Longer(l, w, l2, w2, m)
<1> DEFINE w2 == [w EXCEPT ![n + 1] = m + 1]
<1>1. n + 1 \in Nat /\ m + 1 \in Nat /\ \A k \in 1..n : k \in Nat /\ k # n + 1
  BY Above
<1>2. w2 \in [Nat -> Nat] /\ w2[n + 1] = m + 1 /\ \A k \in 1..n : w2[k] = w[k]
  BY <1>1
<1> HIDE DEF w2
<1>3. ASSUME NEW k \in 1..Len(l2)
      PROVE  \/ k = n + 1 /\ w2[k] = m + 1 /\ l2[k] = o.path
             \/ k \in 1..n /\ w2[k] = w[k] /\ l2[k] = l[k]
  <2>1. k = n + 1 \/ k \in 1..n
    <3>1. k \in 1..n + 1
      OBVIOUS
    <3> QED BY <3>1, UpTo
  <2> QED BY <1>2, <2>1
<1>4. ASSUME NEW j \in 1..m PROVE j \in 1..m + 1 /\ j # m + 1 /\ g2[j] = g[j]
  BY Above
<1>5. ASSUME NEW k \in 1..n
      PROVE  /\ w[k] \in 1..m /\ w[k] # m + 1 /\ g2[w[k]].op = op /\ g2[w[k]].path = l[k]
             /\ \A j \in 1..n : w[k] = w[j] => k = j
             /\ \A i \in 1..Len(b) : own[i] # w[k]
  <2>1. /\ w[k] \in 1..m /\ g[w[k]].op = op /\ g[w[k]].path = l[k]
        /\ \A j \in 1..n : w[k] = w[j] => k = j
        /\ \A i \in 1..Len(b) : own[i] # w[k]
    BY DEF Waits
  <2> QED BY <1>4, <2>1
<1>6. Waits(b, g2, l2, own, w2, op)
  <2> SUFFICES ASSUME NEW k \in 1..Len(l2)
               PROVE  /\ w2[k] \in 1..m + 1 /\ g2[w2[k]].op = op /\ g2[w2[k]].path = l2[k]
                      /\ \A j \in 1..Len(l2) : w2[k] = w2[j] => k = j
                      /\ \A i \in 1..Len(b) : own[i] # w2[k]
    BY DEF Waits
  <2>1. CASE k = n + 1 /\ w2[k] = m + 1 /\ l2[k] = o.path
    <3>1. m + 1 \in 1..m + 1
      OBVIOUS
    <3>2. ASSUME NEW j \in 1..Len(l2), w2[k] = w2[j] PROVE k = j
      <4>1. CASE j \in 1..n /\ w2[j] = w[j]
        BY <1>5, <2>1, <3>2, <4>1
      <4> QED BY <1>3, <2>1, <4>1
    <3>3. ASSUME NEW i \in 1..Len(b) PROVE own[i] # m + 1
      <4>1. own[i] \in 1..m
        BY DEF Owes
      <4> QED BY <1>4, <4>1
    <3> QED BY <2>1, <3>1, <3>2, <3>3
  <2>2. CASE k \in 1..n /\ w2[k] = w[k] /\ l2[k] = l[k]
    <3>1. w[k] \in 1..m + 1
      BY <1>4, <1>5, <2>2
    <3>2. ASSUME NEW j \in 1..Len(l2), w2[k] = w2[j] PROVE k = j
      <4>1. w[k] # m + 1
        BY <1>5, <2>2
      <4>2. w[k] = w[j] \/ w[k] = m + 1
        BY <1>3, <2>2, <3>2
      <4>3. j \in 1..n
        BY <1>3, <2>2, <3>2, <4>1
      <4> QED BY <1>5, <2>2, <4>1, <4>2, <4>3
    <3> QED BY <1>5, <2>2, <3>1, <3>2, SMTT(30)
  <2> QED BY <1>3, <2>1, <2>2
<1>7. Longer(l, w, l2, w2, m)
  BY <1>3 DEF Longer
<1> QED BY <1>2, <1>6, <1>7

LEMMA OwnedNext ==
    ASSUME NEW b, NEW g, NEW ls, NEW M, NEW o \in Option, NEW g2, NEW ls2,
           Added(g, ls, o, g2, ls2), OwnedIn(b, g, ls, M)
    PROVE  OwnedIn(b, g2, ls2, M)
<1>1. PICK own \in [Nat -> Nat], wait \in [Ops -> [Nat -> Nat]], cur \in Nat :
          OwnedBy(b, g, ls, M, own, wait, cur)
  BY DEF OwnedIn
<1> DEFINE m == Len(g)
           op == o.op
           l == ls[op]
           l2 == ls2[op]
           w == wait[op]
<1>2. /\ op \in Ops /\ w \in [Nat -> Nat] /\ m \in Nat
  BY DEF Option, Added
<1>3. /\ Owes(b, g, own) /\ Apart(b, own) /\ Works(b, g, ls, M, own, wait, cur)
      /\ \A x \in Ops : Waits(b, g, ls[x], own, wait[x], x)
  BY <1>1 DEF OwnedBy
<1>4. PICK w2 \in [Nat -> Nat] : Waits(b, g2, l2, own, w2, op) /\ Longer(l, w, l2, w2, m)
  <2>1. Waits(b, g, l, own, w, op)
    BY <1>2, <1>3
  <2>2. /\ Len(g2) = m + 1 /\ g2[m + 1] = o /\ \A j \in 1..m : g2[j] = g[j]
        /\ Len(l) \in Nat /\ Len(l2) = Len(l) + 1 /\ l2[Len(l) + 1] = o.path
        /\ \A k \in 1..Len(l) : l2[k] = l[k]
    BY DEF Added
  <2>3. PICK n \in Nat : n = Len(l)
    BY <2>2
  <2>4. PICK v \in Nat : v = Len(g)
    BY <1>2
  <2>5. /\ Len(g2) = v + 1 /\ g2[v + 1] = o /\ \A j \in 1..v : g2[j] = g[j]
        /\ Len(l2) = n + 1 /\ l2[n + 1] = o.path /\ \A k \in 1..n : l2[k] = l[k]
    BY <2>2, <2>3, <2>4
  <2>6. m = v /\ op = o.op
    BY <2>4
  <2> HIDE DEF m, op, l, l2, w
  <2>7. \E w2 \in [Nat -> Nat] : Waits(b, g2, l2, own, w2, op) /\ Longer(l, w, l2, w2, v)
    BY <1>2, <1>3, <2>1, <2>3, <2>4, <2>5, <2>6, WaitsNext
  <2> QED BY <2>6, <2>7
<1> DEFINE wait2 == [wait EXCEPT ![op] = w2]
<1>5. wait2 \in [Ops -> [Nat -> Nat]] /\ wait2[op] = w2 /\ \A x \in Ops : x # op => wait2[x] = wait[x]
  BY <1>2
<1> HIDE DEF wait2
<1>6. ASSUME NEW j \in 1..m PROVE j \in 1..Len(g2) /\ j # m + 1 /\ g2[j] = g[j]
  <2>1. Len(g2) = m + 1 /\ g2[j] = g[j]
    BY DEF Added
  <2> HIDE DEF m
  <2> QED BY <1>2, <2>1
<1>7. Owes(b, g2, own)
  BY <1>3, <1>6 DEF Owes
<1>8. ASSUME NEW x \in Ops PROVE Waits(b, g2, ls2[x], own, wait2[x], x)
  <2>1. CASE x = op
    BY <1>4, <1>5, <2>1
  <2>2. CASE x # op
    <3>1. ls2[x] = ls[x] /\ wait2[x] = wait[x] /\ Waits(b, g, ls[x], own, wait[x], x)
      BY <1>3, <1>5, <2>2 DEF Added
    <3>2. Waits(b, g2, ls[x], own, wait[x], x)
      <4> DEFINE y == ls[x]
                 z == wait[x]
      <4>1. Waits(b, g, y, own, z, x)
        BY <3>1
      <4> HIDE DEF y, z, m
      <4>2. \A k \in 1..Len(y) : z[k] \in 1..m
        BY <4>1 DEF Waits, m
      <4>3. Waits(b, g2, y, own, z, x)
        BY <1>6, <4>1, <4>2 DEF Waits
      <4> QED BY <4>3 DEF y, z
    <3> QED BY <3>1, <3>2
  <2> QED BY <2>1, <2>2
<1>9. Works(b, g2, ls2, M, own, wait2, cur)
  <2> SUFFICES ASSUME NEW q \in M
               PROVE  /\ cur \in 1..Len(g2) /\ Covers(g2[cur], q)
                      /\ \A x \in Ops : \A k \in 1..Len(ls2[x]) : wait2[x][k] # cur
                      /\ \A i \in 1..Len(b) : own[i] = cur => b[i] # q
    BY DEF Works
  <2>1. /\ cur \in 1..m /\ Covers(g[cur], q)
        /\ \A x \in Ops : \A k \in 1..Len(ls[x]) : wait[x][k] # cur
        /\ \A i \in 1..Len(b) : own[i] = cur => b[i] # q
    BY <1>3 DEF Works
  <2>2. cur \in 1..Len(g2) /\ cur # m + 1 /\ g2[cur] = g[cur]
    BY <1>6, <2>1
  <2>3. ASSUME NEW x \in Ops, NEW k \in 1..Len(ls2[x]) PROVE wait2[x][k] # cur
    <3>1. CASE x = op
      <4>1. w2[k] = m + 1 \/ (k \in 1..Len(l) /\ w2[k] = w[k])
        BY <1>4, <3>1 DEF Longer
      <4>2. k \in 1..Len(l) => w[k] # cur
        BY <1>2, <2>1
      <4>3. w2[k] # cur
        <5> HIDE DEF m, l, w
        <5> QED BY <2>2, <4>1, <4>2
      <4> QED BY <1>5, <3>1, <4>3
    <3>2. CASE x # op
      <4>1. ls2[x] = ls[x] /\ wait2[x] = wait[x]
        BY <1>5, <3>2 DEF Added
      <4> QED BY <2>1, <4>1
    <3> QED BY <3>1, <3>2
  <2> QED BY <2>1, <2>2, <2>3
<1>10. OwnedBy(b, g2, ls2, M, own, wait2, cur)
  BY <1>3, <1>7, <1>8, <1>9 DEF OwnedBy
<1> QED BY <1>5, <1>10 DEF OwnedIn

LEMMA OwnedOption ==
    ASSUME TypeOK, OwnInv, ParseOption
    PROVE  OwnInv'
<1>1. UNCHANGED <<stack, backedup>>
  BY OptionFacts
<1>2. CASE UNCHANGED <<lists, given>>
  BY <1>1, <1>2 DEF OwnInv
<1>3. ASSUME NEW o \in Option,
             lists' = [lists EXCEPT ![o.op] = Append(@, o.path)], given' = Append(given, o)
      PROVE  OwnInv'
  <2>1. Added(given, lists, o, given', lists')
    BY <1>3, AddedFacts DEF Added
  <2>2. OwnedIn(backedup, given', lists', MayCome(stack))
    BY <2>1, OwnedNext DEF OwnInv
  <2> QED BY <1>1, <2>2 DEF OwnInv
<1> QED BY <1>2, <1>3, OptionFacts

(* The first path of a list is taken from it, and the calls are for the    *)
(* option that put it there.                                               *)
Taken(ls, op, ls2) ==
    /\ Len(ls[op]) \in Nat \ {0} /\ Len(ls2[op]) = Len(ls[op]) - 1
    /\ \A x \in Ops : x # op => ls2[x] = ls[x]
    /\ \A k \in 1..Len(ls[op]) - 1 : ls2[op][k] = ls[op][k + 1]

Unowed(b, g, ls2, own, wait2, c) ==
    /\ Owes(b, g, own) /\ Apart(b, own)
    /\ \A x \in Ops : Waits(b, g, ls2[x], own, wait2[x], x)
    /\ \A x \in Ops : \A k \in 1..Len(ls2[x]) : wait2[x][k] # c
    /\ \A i \in 1..Len(b) : own[i] # c

(* The first owner, c, is gone from w2.                                    *)
Rest(b, g, l2, own, w2, op, c) ==
    Waits(b, g, l2, own, w2, op) /\ \A k \in 1..Len(l2) : w2[k] # c

(* Option c put path p on list op, and nothing else is owed to it.         *)
Owner(b, g, ls2, own, wait2, c, op, p) ==
    /\ Unowed(b, g, ls2, own, wait2, c)
    /\ c \in 1..Len(g) /\ g[c].op = op /\ g[c].path = p

LEMMA WaitsTail ==
    ASSUME NEW b, NEW g, NEW l, NEW l2, NEW own, NEW w \in [Nat -> Nat], NEW op, NEW n \in Nat,
           n = Len(l2), Len(l) = n + 1, \A k \in 1..n : l2[k] = l[k + 1],
           Waits(b, g, l, own, w, op)
    PROVE  \E w2 \in [Nat -> Nat] : Rest(b, g, l2, own, w2, op, w[1])
<1> DEFINE w2 == [k \in Nat |-> w[k + 1]]
<1>1. ASSUME NEW k \in 1..n PROVE k \in Nat /\ k + 1 \in Nat /\ k + 1 \in 1..n + 1 /\ k + 1 # 1
  OBVIOUS
<1>2. w2 \in [Nat -> Nat] /\ \A k \in 1..n : w2[k] = w[k + 1]
  BY <1>1
<1> HIDE DEF w2
<1>3. ASSUME NEW k \in 1..n + 1
      PROVE  /\ w[k] \in 1..Len(g) /\ g[w[k]].op = op /\ g[w[k]].path = l[k]
             /\ \A m \in 1..n + 1 : w[k] = w[m] => k = m
             /\ \A i \in 1..Len(b) : own[i] # w[k]
  BY DEF Waits
<1>4. 1 \in 1..n + 1
  OBVIOUS
<1>5. ASSUME NEW k \in 1..n
      PROVE  /\ w2[k] \in 1..Len(g) /\ g[w2[k]].op = op /\ g[w2[k]].path = l2[k]
             /\ \A m \in 1..n : w2[k] = w2[m] => k = m
             /\ (\A i \in 1..Len(b) : own[i] # w2[k])
             /\ w2[k] # w[1]
  <2> DEFINE j == k + 1
  <2>1. j \in 1..n + 1 /\ j # 1 /\ w2[k] = w[j] /\ l2[k] = l[j]
    BY <1>1, <1>2
  <2>2. ASSUME NEW m \in 1..n, w2[k] = w2[m] PROVE k = m
    <3>1. m + 1 \in 1..n + 1 /\ w2[m] = w[m + 1]
      BY <1>1, <1>2
    <3>2. j = m + 1
      <4> DEFINE z == m + 1
      <4>1. z \in 1..n + 1 /\ w[j] = w[z] /\ j \in 1..n + 1
        BY <2>1, <2>2, <3>1
      <4> HIDE DEF j, z
      <4>2. j = z
        BY <1>3, <4>1
      <4> QED BY <4>2 DEF z
    <3> QED BY <3>2
  <2> HIDE DEF j
  <2> QED BY <1>3, <1>4, <2>1, <2>2
<1>6. Waits(b, g, l2, own, w2, op)
  BY <1>5 DEF Waits
<1>7. Rest(b, g, l2, own, w2, op, w[1])
  BY <1>5, <1>6 DEF Rest
<1> QED BY <1>2, <1>7

LEMMA OwnedTaken ==
    ASSUME NEW b, NEW g, NEW ls, NEW ls2, NEW M, NEW op \in Ops,
           Taken(ls, op, ls2), OwnedIn(b, g, ls, M)
    PROVE  \E own \in [Nat -> Nat], wait2 \in [Ops -> [Nat -> Nat]], c \in Nat :
              Owner(b, g, ls2, own, wait2, c, op, ls[op][1])
<1>1. PICK own \in [Nat -> Nat], wait \in [Ops -> [Nat -> Nat]], cur \in Nat :
          OwnedBy(b, g, ls, M, own, wait, cur)
  BY DEF OwnedIn
<1> DEFINE l == ls[op]
           l2 == ls2[op]
           w == wait[op]
           c == w[1]
<1>2. /\ w \in [Nat -> Nat] /\ c \in Nat
  OBVIOUS
<1>3. /\ Owes(b, g, own) /\ Apart(b, own) /\ \A x \in Ops : Waits(b, g, ls[x], own, wait[x], x)
  BY <1>1 DEF OwnedBy
<1>a. Waits(b, g, l, own, w, op)
  BY <1>3
<1>4. Len(l) \in Nat \ {0} /\ Len(l2) = Len(l) - 1 /\ \A k \in 1..Len(l) - 1 : l2[k] = l[k + 1]
  BY DEF Taken
<1> HIDE DEF l, l2, w
<1>5. Len(l2) \in Nat /\ Len(l) = Len(l2) + 1 /\ 1 \in 1..Len(l)
  BY <1>4
<1>6. PICK n \in Nat : n = Len(l2)
  BY <1>5
<1>7. Len(l) = n + 1 /\ \A k \in 1..n : l2[k] = l[k + 1]
  BY <1>4, <1>5, <1>6
<1>8. PICK w2 \in [Nat -> Nat] : Rest(b, g, l2, own, w2, op, w[1])
  BY <1>2, <1>a, <1>6, <1>7, WaitsTail
<1>9. /\ c \in 1..Len(g) /\ g[c].op = op /\ g[c].path = l[1]
      /\ \A i \in 1..Len(b) : own[i] # c
  BY <1>a, <1>5 DEF Waits
<1> DEFINE wait2 == [wait EXCEPT ![op] = w2]
<1>10. wait2 \in [Ops -> [Nat -> Nat]] /\ wait2[op] = w2 /\ \A x \in Ops : x # op => wait2[x] = wait[x]
  OBVIOUS
<1> HIDE DEF wait2
<1>11. ASSUME NEW x \in Ops
       PROVE  /\ Waits(b, g, ls2[x], own, wait2[x], x)
              /\ \A k \in 1..Len(ls2[x]) : wait2[x][k] # c
  <2>1. CASE x = op
    BY <1>8, <1>10, <2>1 DEF l2, Rest
  <2>2. CASE x # op
    <3>1. ls2[x] = ls[x] /\ wait2[x] = wait[x] /\ Waits(b, g, ls[x], own, wait[x], x)
      BY <1>3, <1>10, <2>2 DEF Taken
    <3>2. \A k \in 1..Len(ls[x]) : wait[x][k] # c
      <4>1. \A k \in 1..Len(ls[x]) : g[wait[x][k]].op = x
        BY <3>1 DEF Waits
      <4> QED BY <1>9, <2>2, <4>1
    <3> QED BY <3>1, <3>2
  <2> QED BY <2>1, <2>2
<1>12. Unowed(b, g, ls2, own, wait2, c)
  BY <1>3, <1>9, <1>11 DEF Unowed
<1>13. Owner(b, g, ls2, own, wait2, c, op, l[1])
  BY <1>9, <1>12 DEF Owner
<1> QED BY <1>2, <1>10, <1>13 DEF l

LEMMA OwnedBegin ==
    ASSUME TypeOK, OwnInv, NEW op \in Ops, Begins(op)
    PROVE  OwnInv'
<1>1. Taken(lists, op, lists') /\ UNCHANGED given /\ stack = <<>>
  <2>1. lists[op] \in Seq(Seq(Name)) /\ lists[op] # <<>>
    BY DEF TypeOK, Begins, Take
  <2>2. Len(lists[op]) \in Nat \ {0}
    <3> DEFINE X == Seq(Name)
    <3> HIDE DEF X
    <3> QED BY <2>1, LenProperties, EmptySeq DEF X
  <2> QED BY <2>2, TakeFacts DEF Begins, Taken
<1> DEFINE p == lists[op][1]
<1>a. PICK own \in [Nat -> Nat], wait \in [Ops -> [Nat -> Nat]], c \in Nat :
              Owner(backedup, given, lists', own, wait, c, op, p)
  BY <1>1, OwnedTaken DEF OwnInv
<1>2. /\ Unowed(backedup, given, lists', own, wait, c)
      /\ c \in 1..Len(given) /\ given[c].op = op /\ given[c].path = p
  BY <1>a DEF Owner
<1>3. given[c] \in Option /\ p \in Seq(Name)
  BY <1>2, ElementOfSeq, TakeFacts DEF TypeOK, Begins
<1>4. CASE /\ op # "f" /\ UNCHANGED backedup /\ Len(stack') = 1
           /\ stack'[1].path = p /\ stack'[1].rec = (op = "D")
           /\ stack'[1].at = (IF op = "D" THEN "enter" ELSE "again")
  <2>1. ASSUME NEW q \in MayCome(stack') PROVE Covers(given[c], q)
    <3>1. q \in Seq(Name) /\ Ahead(stack'[1], q, Name)
      BY <1>4 DEF MayCome
    <3>2. Under(p, q) /\ (op = "D" \/ Len(q) = Len(p) + 1)
      BY <1>4, <3>1 DEF Ahead
    <3> QED BY <1>2, <1>3, <1>4, <3>1, <3>2, CoversIs DEF Ops
  <2>2. OwnedBy(backedup, given, lists', MayCome(stack'), own, wait, c)
    BY <1>2, <2>1 DEF OwnedBy, Works, Unowed
  <2>3. OwnedIn(backedup, given, lists', MayCome(stack'))
    BY <2>2 DEF OwnedIn
  <2> QED BY <1>1, <1>4, <2>3 DEF OwnInv
<1>5. CASE op = "f" /\ UNCHANGED stack /\ backedup' = Append(backedup, p)
  <2> DEFINE d == Append(backedup, p)
  <2>1. PICK own2 \in [Nat -> Nat] : Grown(backedup, c, own, p, d, own2)
    BY <1>3, OneMore DEF TypeOK
  <2> HIDE DEF d, p
  <2>2. Covers(given[c], p)
    BY <1>2, <1>3, <1>5, CoversIs DEF p
  <2>a. /\ Owes(backedup, given, own) /\ Apart(backedup, own)
        /\ \A i \in 1..Len(backedup) : own[i] = c => backedup[i] # p
        /\ c \in 1..Len(given)
    BY <1>2 DEF Unowed
  <2>b. ASSUME NEW b, b = backedup PROVE Owes(d, given, own2) /\ Apart(d, own2)
    <3>1. /\ Owes(b, given, own) /\ Apart(b, own) /\ Grown(b, c, own, p, d, own2)
          /\ \A i \in 1..Len(b) : own[i] = c => b[i] # p
      BY <2>1, <2>a, <2>b
    <3> QED BY <2>2, <2>a, <3>1, OwesMore
  <2>3. Owes(d, given, own2) /\ Apart(d, own2)
    BY <2>b
  <2>4. ASSUME NEW x \in Ops PROVE Waits(d, given, lists'[x], own2, wait[x], x)
    <3> DEFINE l == lists'[x]
               w == wait[x]
    <3>1. Waits(backedup, given, l, own, w, x) /\ \A k \in 1..Len(l) : w[k] # c
      BY <1>2 DEF Unowed
    <3> HIDE DEF l, w
    <3>2. Waits(d, given, l, own2, w, x)
      BY <2>1, <3>1, WaitsMore
    <3> QED BY <3>2 DEF l, w
  <2>5. MayCome(stack') = {}
    <3>1. Len(stack') = 0
      BY <1>1, <1>5, EmptySeq
    <3> QED BY <3>1 DEF MayCome
  <2>6. OwnedBy(d, given, lists', MayCome(stack'), own2, wait, c)
    BY <2>3, <2>4, <2>5 DEF OwnedBy, Works
  <2>7. OwnedIn(d, given, lists', MayCome(stack'))
    BY <2>6 DEF OwnedIn
  <2> QED BY <1>1, <1>5, <2>7 DEF OwnInv, d, p
<1> QED BY <1>4, <1>5, BeginFacts

LEMMA OwnedChange ==
    ASSUME TypeOK, OwnInv, NEW d \in Dir, NEW n \in Name, NEW e \in Entry, ChangeEntry(d, n, e)
    PROVE  OwnInv'
<1>1. /\ Len(stack') = Len(stack)
      /\ \A k \in 1..Len(stack) :
            stack'[k] = IF stack[k].dir = d THEN [stack[k] EXCEPT !.must = @ \ {n}]
                                            ELSE stack[k]
  BY ChangeFacts
<1>2. ASSUME NEW k \in 1..Len(stack), NEW q
      PROVE  Ahead(stack'[k], q, Name) <=> Ahead(stack[k], q, Name)
  <2>1. stack[k] \in Call
    BY ElementOfSeq DEF TypeOK
  <2>2. /\ stack'[k].path = stack[k].path /\ stack'[k].rec = stack[k].rec
        /\ stack'[k].at = stack[k].at /\ stack'[k].seen = stack[k].seen
    BY <1>1, <2>1 DEF Call
  <2> QED BY <2>2 DEF Ahead
<1>3. MayCome(stack') = MayCome(stack)
  BY <1>1, <1>2 DEF MayCome
<1>4. UNCHANGED <<backedup, given, lists>>
  BY DEF ChangeEntry
<1> QED BY <1>3, <1>4 DEF OwnInv

LEMMA OwnedInit == Init => OwnInv
<1> SUFFICES ASSUME Init PROVE OwnInv
  OBVIOUS
<1>1. /\ backedup = <<>> /\ stack = <<>> /\ Len(<<>>) = 0 /\ \A op \in Ops : lists[op] = <<>>
  BY EmptySeq DEF Init, Ops
<1> DEFINE own == [i \in Nat |-> 0]
           wait == [op \in Ops |-> own]
<1>2. own \in [Nat -> Nat] /\ wait \in [Ops -> [Nat -> Nat]] /\ 0 \in Nat
  OBVIOUS
<1>3. MayCome(stack) = {}
  BY <1>1 DEF MayCome
<1> HIDE DEF own, wait
<1>4. OwnedBy(backedup, given, lists, MayCome(stack), own, wait, 0)
  BY <1>1, <1>3 DEF OwnedBy, Owes, Apart, Waits, Works
<1>5. OwnedIn(backedup, given, lists, MayCome(stack))
  BY <1>2, <1>4 DEF OwnedIn
<1> QED BY <1>5 DEF OwnInv

LEMMA OwnedStep ==
    ASSUME TypeOK, CallsOK, OwnInv, [Next]_vars
    PROVE  OwnInv'
<1>1. CASE BackupDir1 \/ BackupDirs \/ BackupFiles
  BY <1>1, BeginSteps, OwnedBegin
<1>2. CASE Finish \/ UNCHANGED vars
  BY <1>2 DEF Finish, vars, fileSystem, OwnInv
<1>3. CASE \E d \in Dir, n \in Name, e \in Entry : ChangeEntry(d, n, e)
  BY <1>3, OwnedChange
<1> QED BY <1>1, <1>2, <1>3, OwnedOption, OwnedCalls DEF Next, Program

(* No path is handed over more often than options ask for it, and none     *)
(* that nobody asked for (recursive_backup, directory_backup, main).       *)
THEOREM HandedOverOnce == Spec => []OncePerOption
<1> DEFINE Inv == TypeOK /\ CallsOK /\ OwnInv
<1>1. Init => Inv
  BY StackInit, OwnedInit
<1>2. Inv /\ [Next]_vars => Inv'
  BY StackNext, OwnedStep
<1>3. Inv => OncePerOption
  <2> SUFFICES ASSUME Inv, NEW q
               PROVE  Cardinality({i \in 1..Len(backedup) : backedup[i] = q})
                         <= Cardinality({i \in 1..Len(given) : Covers(given[i], q)})
    BY DEF OncePerOption
  <2> DEFINE S == {i \in 1..Len(backedup) : backedup[i] = q}
             T == {i \in 1..Len(given) : Covers(given[i], q)}
  <2>1. PICK own \in [Nat -> Nat], wait \in [Ops -> [Nat -> Nat]], cur \in Nat :
            OwnedBy(backedup, given, lists, MayCome(stack), own, wait, cur)
    BY DEF OwnInv, OwnedIn
  <2>2. Owes(backedup, given, own) /\ Apart(backedup, own)
    BY <2>1 DEF OwnedBy
  <2> DEFINE f == [i \in S |-> own[i]]
  <2>3. \A i \in S : own[i] \in T
    BY <2>2 DEF Owes
  <2>4. \A i \in S : \A j \in S : own[i] = own[j] => i = j
    BY <2>2 DEF Apart
  <2>5. IsFiniteSet(T)
    <3>1. Len(given) \in Nat
      BY LenProperties DEF TypeOK
    <3>2. IsFiniteSet(1..Len(given)) /\ T \subseteq 1..Len(given)
      BY <3>1, FS_Interval
    <3> QED BY <3>2, FS_Subset
  <2> HIDE DEF S, T
  <2>6. f \in Injection(S, T)
    BY <2>3, <2>4 DEF Injection, IsInjective
  <2> HIDE DEF f
  <2>7. Cardinality(S) <= Cardinality(T)
    BY <2>5, <2>6, FS_Injection
  <2> QED BY <2>7 DEF S, T
<1> QED BY <1>1, <1>2, <1>3, PTL DEF Spec

-----------------------------------------------------------------------------
(* The way to a file leads through the directories that the calls list     *)

LEMMA AlongTheWay ==
    ASSUME NEW t, TreeOK(t), NEW r, NEW p \in Seq(Name), NEW q \in Seq(Name),
           Len(p) <= Len(q), \A i \in 1..Len(p) : q[i] = p[i]
    PROVE  To(t, r, p, Len(p)) = To(t, r, q, Len(p))
<1>1. Len(p) \in Nat /\ Len(q) \in Nat
  BY LenProperties
<1>2. PICK k \in Nat : k = Len(p)
  BY <1>1
<1>3. Alike(t, t, r, p, q, k)
  BY <1>2 DEF Alike
<1>4. k <= Len(p) /\ k <= Len(q)
  BY <1>1, <1>2
<1>5. \A i \in 0..k : To(t, r, p, i) = To(t, r, q, i)
  BY <1>3, <1>4, SameWay
<1>6. k \in 0..k
  OBVIOUS
<1> QED BY <1>2, <1>5, <1>6

LEMMA WayTo ==
    ASSUME TypeOK, NEW p \in Seq(Name), NEW q \in Seq(Name), Under(p, q), Lookup(q).kind = "file"
    PROVE  /\ Lookup(p) = To(tree, open, q, Len(p))
           /\ Lookup(p).kind = "dir" /\ Lookup(p).dir \in Dir /\ Lookup(p).dir \in open
           /\ q[Len(p) + 1] \in Name
           /\ tree[Lookup(p).dir][q[Len(p) + 1]].kind = (IF Len(q) = Len(p) + 1 THEN "file" ELSE "dir")
           /\ Lookup(Append(p, q[Len(p) + 1])).kind = (IF Len(q) = Len(p) + 1 THEN "file" ELSE "dir")
<1>1. /\ Len(p) \in Nat /\ Len(q) \in Nat /\ Len(p) < Len(q) /\ \A i \in 1..Len(p) : q[i] = p[i]
      /\ TreeOK(tree)
  BY LenProperties DEF Under, TypeOK
<1> DEFINE n == Len(p)
           m == n + 1
           T(i) == To(tree, open, q, i)
           x == q[m]
           s == Append(p, x)
<1>2. n \in 0..Len(q) /\ m \in 0..Len(q) /\ m \in 1..Len(q) /\ n < Len(q) /\ n \in Nat
  BY <1>1
<1>3. T(Len(q)).kind = "file"
  BY LookupIs
<1>4. Lookup(p) = T(n)
  BY <1>1, AlongTheWay, LookupIs
<1>5. x \in Name
  BY <1>2, ElementOfSeq
<1>6. /\ s \in Seq(Name) /\ Len(s) = m /\ s[m] = x /\ \A i \in 1..n : s[i] = p[i]
  BY <1>5, PathType
<1> HIDE DEF s
<1>7. Lookup(s) = T(m)
  <2>1. \A i \in 1..m : q[i] = s[i]
    <3>1. \A i \in 1..m : i = m \/ i \in 1..n
      BY <1>2, UpTo
    <3> HIDE DEF m
    <3> QED BY <1>1, <1>6, <3>1
  <2>2. m <= Len(q)
    BY <1>1
  <2> HIDE DEF m
  <2>3. To(tree, open, s, Len(s)) = To(tree, open, q, Len(s))
    BY <1>1, <1>6, <2>1, <2>2, AlongTheWay
  <2> QED BY <1>6, <2>3, LookupIs
<1> HIDE DEF T
<1>8. \A i \in 0..Len(q) : i < Len(q) =>
         /\ T(i).kind = "dir" /\ T(i).dir \in Dir /\ T(i).dir \in open
         /\ T(i+1).kind = tree[T(i).dir][q[i+1]].kind
  BY <1>1, <1>3, WayIsOpen DEF T
<1>9. /\ T(n).kind = "dir" /\ T(n).dir \in Dir /\ T(n).dir \in open
      /\ T(m).kind = tree[T(n).dir][x].kind
  BY <1>2, <1>8
<1>10. T(m).kind = (IF Len(q) = m THEN "file" ELSE "dir")
  <2>1. CASE Len(q) = m
    BY <1>3, <2>1
  <2>2. CASE Len(q) # m
    <3>1. m < Len(q)
      BY <1>2, <2>2
    <3> HIDE DEF m
    <3> QED BY <1>2, <1>8, <2>2, <3>1
  <2> QED BY <2>1, <2>2
<1> QED BY <1>4, <1>5, <1>7, <1>9, <1>10 DEF s, T

(* A path of which no name was touched leads where it led before.          *)
LEMMA StableWay ==
    ASSUME TypeOK, CallsOK, NEW d \in Dir, NEW n \in Name, NEW e \in Entry, ChangeEntry(d, n, e),
           NEW q \in Seq(Name), Stable(q)'
    PROVE  /\ Lookup(q)' = Lookup(q) /\ Stable(q)
           /\ \A i \in 1..Len(q) : <<To(tree, open, q, i-1).dir, q[i]>> # <<d, n>>
           /\ \A p \in Seq(Name) : Under(p, q) => Lookup(p)' = Lookup(p)
<1> DEFINE v == tree'
<1>1. /\ TreeOK(tree) /\ TreeOK(v) /\ touched' = touched \cup {<<d, n>>} /\ open' = open
      /\ \A c \in Dir, m \in Name : <<c, m>> # <<d, n>> => v[c][m] = tree[c][m]
  BY ChangeFacts DEF TypeOK, ChangeEntry
<1>2. \A p : Lookup(p)' = To(v, open, p, Len(p))
  BY <1>1 DEF Lookup, To, Follow, Next1, Start
<1> HIDE DEF v
<1>3. Len(q) \in Nat
  BY LenProperties
<1>4. ASSUME NEW i \in 1..Len(q)
      PROVE  /\ SubSeq(q, 1, i-1) \in Seq(Name) /\ Len(SubSeq(q, 1, i-1)) = i - 1
             /\ \A j \in 1..i-1 : q[j] = SubSeq(q, 1, i-1)[j]
  <2> DEFINE k == i - 1
             s == SubSeq(q, 1, k)
  <2>1. k \in Nat /\ 1 \in Int /\ k \in Int /\ \A j \in 1..k : q[j] \in Name
    BY <1>3, ElementOfSeq
  <2>2. /\ s \in Seq(Name) /\ Len(s) = IF 1 <= k THEN k - 1 + 1 ELSE 0
        /\ \A j \in 1..(k - 1 + 1) : s[j] = q[1 + j - 1]
    <3> HIDE DEF k
    <3> QED BY <2>1, SubSeqProperties
  <2> HIDE DEF s
  <2>3. Len(s) = k /\ \A j \in 1..k : q[j] = s[j]
    BY <2>1, <2>2
  <2> QED BY <2>2, <2>3 DEF s
<1>5. ASSUME NEW t, TreeOK(t), NEW i \in 1..Len(q)
      PROVE  To(t, open, SubSeq(q, 1, i-1), i-1) = To(t, open, q, i-1)
  <2> DEFINE s == SubSeq(q, 1, i-1)
  <2>1. s \in Seq(Name) /\ Len(s) = i - 1 /\ \A j \in 1..i-1 : q[j] = s[j]
    BY <1>4
  <2> HIDE DEF s
  <2>2. Len(s) <= Len(q) /\ \A j \in 1..Len(s) : q[j] = s[j]
    BY <1>3, <2>1
  <2>3. To(t, open, s, Len(s)) = To(t, open, q, Len(s))
    BY <1>5, <2>1, <2>2, AlongTheWay
  <2> QED BY <2>1, <2>3 DEF s
<1>6. ASSUME NEW i \in 1..Len(q)
      PROVE  <<To(v, open, q, i-1).dir, q[i]>> \notin touched'
  <2>1. <<Lookup(SubSeq(q, 1, i-1))'.dir, q[i]>> \notin touched'
    BY DEF Stable
  <2>2. Lookup(SubSeq(q, 1, i-1))' = To(v, open, SubSeq(q, 1, i-1), i-1)
    BY <1>2, <1>4
  <2> QED BY <1>1, <1>5, <2>1, <2>2
<1>7. Alike(v, tree, open, q, q, Len(q))
  <2> SUFFICES ASSUME NEW i \in 1..Len(q), To(v, open, q, i-1).kind = "dir"
               PROVE  v[To(v, open, q, i-1).dir][q[i]] = tree[To(v, open, q, i-1).dir][q[i]]
    BY DEF Alike
  <2> DEFINE at == To(v, open, q, i-1)
  <2>1. at \in Place /\ q[i] \in Name
    <3>1. i - 1 \in 0..Len(q)
      BY <1>3
    <3> QED BY <1>1, <3>1, ToSteps, ElementOfSeq
  <2>2. at.dir \in Dir
    BY <2>1 DEF Place
  <2>3. <<at.dir, q[i]>> # <<d, n>>
    BY <1>1, <1>6
  <2> HIDE DEF at
  <2> QED BY <1>1, <2>1, <2>2, <2>3 DEF at
<1>8. \A i \in 0..Len(q) : To(v, open, q, i) = To(tree, open, q, i)
  <2>1. Len(q) <= Len(q)
    BY <1>3
  <2> QED BY <1>1, <1>3, <1>7, <2>1, SameWay
<1>9. Lookup(q)' = Lookup(q)
  <2>1. Len(q) \in 0..Len(q)
    BY <1>3
  <2> QED BY <1>2, <1>8, <2>1, LookupIs
<1>10. ASSUME NEW i \in 1..Len(q)
       PROVE  <<To(tree, open, q, i-1).dir, q[i]>> \notin touched'
  <2>1. i - 1 \in 0..Len(q)
    BY <1>3
  <2> QED BY <1>6, <1>8, <2>1
<1>11. Stable(q)
  <2> SUFFICES ASSUME NEW i \in 1..Len(q)
               PROVE  <<Lookup(SubSeq(q, 1, i-1)).dir, q[i]>> \notin touched
    BY DEF Stable
  <2>1. Lookup(SubSeq(q, 1, i-1)) = To(tree, open, q, i-1)
    BY <1>1, <1>4, <1>5, LookupIs
  <2> QED BY <1>1, <1>10, <2>1
<1>12. ASSUME NEW p \in Seq(Name), Under(p, q) PROVE Lookup(p)' = Lookup(p)
  <2>1. /\ Len(p) \in 0..Len(q) /\ Len(p) <= Len(q) /\ \A i \in 1..Len(p) : q[i] = p[i]
    BY <1>3, <1>12, LenProperties DEF Under
  <2>2. /\ To(v, open, p, Len(p)) = To(v, open, q, Len(p))
        /\ To(tree, open, p, Len(p)) = To(tree, open, q, Len(p))
    BY <1>1, <2>1, AlongTheWay
  <2> QED BY <1>2, <1>8, <2>1, <2>2, LookupIs
<1> QED BY <1>1, <1>9, <1>10, <1>11, <1>12

-----------------------------------------------------------------------------
(* What is promised is kept, step by step                                  *)

LEMMA HandedMore ==
    ASSUME NEW b \in Seq(Seq(Name)), NEW p \in Seq(Name), NEW d, d = Append(b, p)
    PROVE  Handed(d, p) /\ \A q : Handed(b, q) => Handed(d, q)
<1> DEFINE X == Seq(Name)
<1>1. b \in Seq(X) /\ p \in X
  OBVIOUS
<1> HIDE DEF X
<1>2. Len(b) \in Nat /\ Len(d) = Len(b) + 1 /\ d[Len(b) + 1] = p /\ \A i \in 1..Len(b) : d[i] = b[i]
  BY <1>1, AppendProperties, LenProperties
<1>3. Len(b) + 1 \in 1..Len(d) /\ \A i \in 1..Len(b) : i \in 1..Len(d)
  <2>1. Len(b) \in Nat /\ Len(d) = Len(b) + 1
    BY <1>2
  <2> QED BY <2>1
<1>4. Handed(d, p)
  BY <1>2, <1>3 DEF Handed
<1>5. ASSUME NEW q, Handed(b, q) PROVE Handed(d, q)
  BY <1>2, <1>3, <1>5 DEF Handed
<1> QED BY <1>4, <1>5

(* A call that goes on keeps what its path promises.                       *)
LEMMA CallKeeps ==
    ASSUME TypeOK, CallsOK, Calls, NEW q \in Seq(Name), Lookup(q).kind = "file", Coming(stack, q)
    PROVE  Coming(stack', q) \/ Handed(backedup', q)
<1>1. /\ stack # <<>> /\ Cur \in Call /\ Cur = stack[Len(stack)] /\ Len(stack) \in Nat \ {0} /\ CallDoes
  BY CallSteps, TopCall DEF Cur, Last
<1>2. Cur.path \in Seq(Name) /\ Len(Cur.path) \in Nat
  BY <1>1, LenProperties DEF Call
<1>3. PICK k \in 1..Len(stack) : WillCome(stack[k], q)
  BY DEF Coming
<1>4. ASSUME WillCome(Cur, q)
      PROVE  /\ Under(Cur.path, q) /\ Lookup(Cur.path).kind = "dir"
             /\ q[Len(Cur.path) + 1] \in Name
             /\ Cur.at \in {"files", "subdirs"} => Cur.dir = Lookup(Cur.path).dir
  <2>1. Under(Cur.path, q)
    BY <1>4 DEF WillCome, Ahead
  <2> QED BY <1>2, <1>4, <2>1, WayTo DEF WillCome
<1>5. ASSUME NEW f \in Call, Becomes(f), WillCome(Cur, q) => WillCome(f, q)
      PROVE  Coming(stack', q)
  <2>1. /\ Len(stack') = Len(stack) /\ stack'[Len(stack)] = f
        /\ \A j \in 1..Len(stack) : j < Len(stack) => stack'[j] = stack[j]
    BY <1>1, <1>5, NewTop DEF Becomes
  <2>2. CASE k < Len(stack)
    BY <1>3, <2>1, <2>2 DEF Coming
  <2>3. CASE k = Len(stack)
    <3>1. WillCome(stack'[Len(stack)], q) /\ Len(stack) \in 1..Len(stack')
      BY <1>1, <1>3, <1>5, <2>1, <2>3
    <3> QED BY <3>1 DEF Coming
  <2> QED BY <1>1, <2>2, <2>3
<1>6. CASE Throws
  BY <1>6 DEF Throws
<1>7. CASE Returns
  <2>1. ~WillCome(Cur, q)
    <3>1. ASSUME WillCome(Cur, q), Cur.at \in {"enter", "again"} PROVE FALSE
      BY <1>4, <1>7, <3>1 DEF Returns
    <3>2. ASSUME WillCome(Cur, q), Cur.must \subseteq Cur.seen,
                 Cur.at = "subdirs" \/ (Cur.at = "files" /\ ~Cur.rec)
          PROVE  FALSE
      BY <3>2 DEF WillCome, Ahead
    <3> QED BY <1>7, <3>1, <3>2 DEF Returns
  <2>2. /\ Len(stack') = Len(stack) - 1
        /\ \A j \in 1..Len(stack) - 1 : stack'[j] = stack[j]
    BY <1>1, <1>7, TopCall DEF Returns, Leave
  <2>3. k # Len(stack)
    BY <1>1, <1>3, <2>1
  <2>4. k \in 1..Len(stack) - 1
    BY <1>1, <2>3
  <2>5. WillCome(stack'[k], q) /\ k \in 1..Len(stack')
    BY <1>3, <2>2, <2>4
  <2> QED BY <2>5 DEF Coming
<1>8. CASE Enters
  <2>1. PICK at \in {"again", "files?"} :
            /\ Cur.at \in {"enter", "again"}
            /\ Becomes([Cur EXCEPT !.at = at])
    BY <1>8 DEF Enters
  <2> DEFINE f == [Cur EXCEPT !.at = at]
  <2>2. /\ f \in Call /\ f.at = at /\ f.path = Cur.path /\ f.rec = Cur.rec
    BY <1>1 DEF Call
  <2>3. Becomes(f)
    BY <2>1
  <2> HIDE DEF f
  <2>4. WillCome(Cur, q) => WillCome(f, q)
    BY <2>1, <2>2 DEF WillCome, Ahead
  <2> QED BY <1>5, <2>2, <2>3, <2>4
<1>9. CASE Skips
  <2> DEFINE f == [Cur EXCEPT !.at = "subdirs?"]
  <2>1. /\ f \in Call /\ f.at = "subdirs?" /\ f.path = Cur.path /\ f.rec = Cur.rec
    BY <1>1 DEF Call
  <2>2. Becomes(f)
    BY <1>9 DEF Skips
  <2> HIDE DEF f
  <2>3. ASSUME WillCome(Cur, q) PROVE WillCome(f, q)
    <3>1. Cur.at = "files" /\ Cur.must \subseteq Cur.seen /\ Cur.rec
      BY <1>4, <1>9, <2>3 DEF Skips
    <3>2. Under(Cur.path, q) /\ Len(q) # Len(Cur.path) + 1
      BY <2>3, <3>1 DEF WillCome, Ahead
    <3> QED BY <2>1, <3>1, <3>2 DEF WillCome, Ahead
  <2> QED BY <1>5, <2>1, <2>2, <2>3
<1>10. CASE Opens
  <2> DEFINE d == Lookup(Cur.path).dir
             m == {n \in Name : Present(tree[d][n])}
  <2>1. PICK at \in {"files", "subdirs"} :
            /\ Cur.at = (IF at = "files" THEN "files?" ELSE "subdirs?")
            /\ Becomes([Cur EXCEPT !.at = at, !.dir = d, !.seen = {}, !.must = m])
    BY <1>10 DEF Opens
  <2>2. d \in Dir /\ m \subseteq Name
    BY <1>2, <1>10, LookupType DEF Opens, CanList, TypeOK
  <2>3. WillCome(Cur, q) => q[Len(Cur.path) + 1] \in m
    <3> SUFFICES ASSUME WillCome(Cur, q) PROVE q[Len(Cur.path) + 1] \in m
      OBVIOUS
    <3>1. /\ q[Len(Cur.path) + 1] \in Name
          /\ tree[d][q[Len(Cur.path) + 1]].kind \in {"file", "dir"}
      BY <1>2, <1>4, WayTo
    <3> HIDE DEF d
    <3> QED BY <3>1 DEF Present
  <2>a. d = Lookup(Cur.path).dir
    OBVIOUS
  <2> HIDE DEF d, m
  <2> DEFINE f == [Cur EXCEPT !.at = at, !.dir = d, !.seen = {}, !.must = m]
  <2>4. /\ f \in Call /\ f.at = at /\ f.path = Cur.path /\ f.rec = Cur.rec
        /\ f.dir = d /\ f.seen = {} /\ f.must = m
    BY <1>1, <2>2 DEF Call
  <2>5. Becomes(f)
    BY <2>1
  <2> HIDE DEF f
  <2>6. WillCome(Cur, q) => WillCome(f, q)
    BY <2>1, <2>3, <2>4, <2>a DEF WillCome, Ahead
  <2> QED BY <1>5, <2>4, <2>5, <2>6
<1>11. ASSUME NEW n \in Name
       PROVE  LET f == [Cur EXCEPT !.seen = @ \cup {n}]
              IN  /\ f \in Call /\ f.path = Cur.path /\ f.rec = Cur.rec /\ f.at = Cur.at
                  /\ f.seen = Cur.seen \cup {n} /\ f.must = Cur.must /\ f.dir = Cur.dir
  BY <1>1 DEF Call
<1>12. ASSUME NEW n \in Name, WillCome(Cur, q), q[Len(Cur.path) + 1] = n,
              Cur.at \in {"files", "subdirs"}
       PROVE  Type(n) = IF Len(q) = Len(Cur.path) + 1 THEN "file" ELSE "dir"
  <2>1. /\ Cur.dir = Lookup(Cur.path).dir
        /\ tree[Cur.dir][n].kind = (IF Len(q) = Len(Cur.path) + 1 THEN "file" ELSE "dir")
        /\ Lookup(Append(Cur.path, n)).kind = (IF Len(q) = Len(Cur.path) + 1 THEN "file" ELSE "dir")
    BY <1>2, <1>4, <1>12, WayTo, ZenonT(30)
  <2> QED BY <2>1 DEF Type
<1>13. ASSUME NEW n \in Name, Reads(n) PROVE Coming(stack', q) \/ Handed(backedup', q)
  <2> DEFINE f == [Cur EXCEPT !.seen = @ \cup {n}]
             p == Append(Cur.path, n)
  <2>1. /\ f \in Call /\ Becomes(f) /\ f.path = Cur.path /\ f.rec = Cur.rec /\ f.at = Cur.at
        /\ f.seen = Cur.seen \cup {n} /\ f.must = Cur.must /\ f.dir = Cur.dir
    BY <1>11, <1>13 DEF Reads
  <2>2. \/ Cur.at = "files" /\ Type(n) = "file" /\ backedup' = Append(backedup, p)
        \/ Cur.at = "files" /\ Type(n) \in {"dir", "absent"}
        \/ Cur.at = "subdirs" /\ Type(n) \in {"file", "absent"}
    BY <1>13 DEF Reads
  <2>3. /\ p \in Seq(Name) /\ Len(p) = Len(Cur.path) + 1
        /\ p[Len(Cur.path) + 1] = n /\ \A i \in 1..Len(Cur.path) : p[i] = Cur.path[i]
    BY <1>2, PathType
  <2> HIDE DEF f, p
  <2>4. CASE WillCome(Cur, q) /\ q[Len(Cur.path) + 1] = n /\ Len(q) = Len(Cur.path) + 1
    <3>1. Cur.at = "files" /\ backedup' = Append(backedup, p)
      <4>1. Cur.at \notin {"subdirs", "subdirs?"}
        BY <2>4 DEF WillCome, Ahead
      <4> QED BY <1>12, <2>2, <2>4, <4>1
    <3>2. q = p
      <4>1. \A i \in 1..Len(Cur.path) : q[i] = Cur.path[i]
        BY <1>4, <2>4 DEF Under
      <4>2. \A i \in 1..Len(Cur.path) + 1 : i = Len(Cur.path) + 1 \/ i \in 1..Len(Cur.path)
        BY <1>2, UpTo
      <4>3. \A i \in 1..Len(p) : q[i] = p[i]
        BY <2>3, <2>4, <4>1, <4>2
      <4> QED BY <2>3, <2>4, <4>3, SeqEqual
    <3> QED BY <2>3, <3>1, <3>2, HandedMore DEF TypeOK
  <2>5. CASE ~(WillCome(Cur, q) /\ q[Len(Cur.path) + 1] = n /\ Len(q) = Len(Cur.path) + 1)
    <3>1. ASSUME WillCome(Cur, q) PROVE WillCome(f, q)
      <4>1. CASE q[Len(Cur.path) + 1] # n
        BY <2>1, <3>1, <4>1 DEF WillCome, Ahead
      <4>2. CASE q[Len(Cur.path) + 1] = n /\ Len(q) # Len(Cur.path) + 1
        <5>1. Cur.at = "files"
          BY <1>12, <2>2, <3>1, <4>2
        <5> QED BY <2>1, <3>1, <4>2, <5>1 DEF WillCome, Ahead
      <4> QED BY <2>5, <3>1, <4>1, <4>2
    <3> QED BY <1>5, <2>1, <3>1
  <2> QED BY <2>4, <2>5
<1>14. ASSUME NEW n \in Name, Descends(n) PROVE Coming(stack', q)
  <2> DEFINE f == [Cur EXCEPT !.seen = @ \cup {n}]
             g == Frame(Append(Cur.path, n), TRUE, "enter")
  <2>1. /\ f \in Call /\ f.path = Cur.path /\ f.rec = Cur.rec /\ f.at = Cur.at
        /\ f.seen = Cur.seen \cup {n} /\ f.must = Cur.must /\ f.dir = Cur.dir
    BY <1>11
  <2>2. g \in Call /\ g.path = Append(Cur.path, n) /\ g.rec /\ g.at = "enter"
    BY <1>2, PathType, FrameType DEF Frame
  <2>3. stack' = Append([stack EXCEPT ![Len(stack)] = f], g) /\ Cur.at = "subdirs"
    BY <1>14 DEF Descends
  <2> HIDE DEF f, g
  <2>4. /\ Len(stack') = Len(stack) + 1
        /\ stack'[Len(stack)] = f /\ stack'[Len(stack) + 1] = g
        /\ \A j \in 1..Len(stack) : j < Len(stack) => stack'[j] = stack[j]
    BY <1>1, <2>1, <2>2, <2>3, Pushed
  <2>5. Len(stack) + 1 \in 1..Len(stack') /\ \A j \in 1..Len(stack) : j \in 1..Len(stack')
    BY <1>1, <2>4
  <2>6. CASE k < Len(stack)
    BY <1>3, <2>4, <2>5, <2>6 DEF Coming
  <2>7. CASE k = Len(stack)
    <3>1. WillCome(Cur, q)
      BY <1>1, <1>3, <2>7
    <3>2. CASE q[Len(Cur.path) + 1] # n
      <4>1. WillCome(f, q)
        BY <2>1, <3>1, <3>2 DEF WillCome, Ahead
      <4> QED BY <1>1, <2>4, <2>5, <4>1 DEF Coming
    <3>3. CASE q[Len(Cur.path) + 1] = n
      <4>1. Under(Cur.path, q) /\ Len(q) # Len(Cur.path) + 1
        BY <2>3, <3>1 DEF WillCome, Ahead
      <4>2. /\ Len(g.path) = Len(Cur.path) + 1 /\ g.path[Len(Cur.path) + 1] = n
            /\ \A i \in 1..Len(Cur.path) : g.path[i] = Cur.path[i]
        BY <1>2, <2>2, PathType
      <4>3. \A i \in 1..Len(Cur.path) + 1 : i = Len(Cur.path) + 1 \/ i \in 1..Len(Cur.path)
        BY <1>2, UpTo
      <4>4. Len(q) \in Nat
        BY LenProperties
      <4>5. Under(g.path, q)
        BY <1>2, <3>3, <4>1, <4>2, <4>3, <4>4 DEF Under
      <4>6. WillCome(g, q)
        BY <2>2, <4>5 DEF WillCome, Ahead
      <4> QED BY <2>4, <2>5, <4>6 DEF Coming
    <3> QED BY <3>2, <3>3
  <2> QED BY <1>1, <2>6, <2>7
<1> QED BY <1>1, <1>6, <1>7, <1>8, <1>9, <1>10, <1>13, <1>14 DEF CallDoes

LEMMA WordsStay ==
    ASSUME UNCHANGED fileSystem
    PROVE  /\ \A o, q : Due(o, q)' = Due(o, q)
           /\ \A q : Coming(stack, q)' = Coming(stack', q)
<1>1. UNCHANGED <<tree, open, touched>>
  BY DEF fileSystem
<1>2. \A q : Lookup(q)' = Lookup(q)
  BY <1>1, LookupStays
<1>3. \A q : Stable(q)' = Stable(q)
  BY <1>1, <1>2 DEF Stable
<1>4. \A q : Coming(stack, q)' = Coming(stack', q)
  BY <1>2 DEF Coming, WillCome, Ahead
<1>5. \A o, q : Due(o, q)' = Due(o, q)
  BY <1>2, <1>3 DEF Due, Covers
<1> QED BY <1>4, <1>5

LEMMA PromiseCalls ==
    ASSUME TypeOK, CallsOK, PromiseInv, Calls
    PROVE  PromiseInv'
<1>1. UNCHANGED <<fileSystem, lists, given>>
  BY CallSteps DEF UnchangedInCalls
<1> SUFFICES ASSUME NEW q \in Seq(Name), NEW o \in Option, Given(o)', Due(o, q)'
             PROVE  Kept(o, q)'
  BY DEF PromiseInv, Promised
<1>2. Given(o) /\ Due(o, q)
  BY <1>1, WordsStay DEF Given
<1>3. Kept(o, q)
  BY <1>2 DEF PromiseInv, Promised
<1>4. CASE Handed(backedup, q)
  <2>1. Handed(backedup', q)
    <3>1. CASE UNCHANGED backedup
      BY <1>4, <3>1
    <3>2. ASSUME NEW p \in MayCome(stack), backedup' = Append(backedup, p) PROVE Handed(backedup', q)
      BY <1>4, <3>2, HandedMore DEF TypeOK, MayCome
    <3> QED BY <3>1, <3>2, MayShrinks
  <2> QED BY <2>1 DEF Kept, Handed
<1>5. CASE Asked(o)
  BY <1>1, <1>5 DEF Kept, Asked
<1>6. CASE Coming(stack, q)
  <2>1. Coming(stack', q) \/ Handed(backedup', q)
    BY <1>2, <1>6, CallKeeps DEF Due
  <2>2. Coming(stack, q)' \/ Handed(backedup, q)'
    BY <1>1, <2>1, WordsStay DEF Handed
  <2> QED BY <2>2 DEF Kept
<1> QED BY <1>3, <1>4, <1>5, <1>6 DEF Kept

LEMMA PromiseBegin ==
    ASSUME TypeOK, PromiseInv, NEW op \in Ops, Begins(op)
    PROVE  PromiseInv'
<1> DEFINE p == lists[op][1]
<1>1. /\ UNCHANGED <<fileSystem, given>> /\ stack = <<>> /\ p \in Seq(Name)
      /\ \A x \in Ops : x # op => lists'[x] = lists[x]
      /\ Len(lists'[op]) = Len(lists[op]) - 1
      /\ \A k \in 1..Len(lists[op]) - 1 : lists'[op][k] = lists[op][k+1]
  BY TakeFacts DEF Begins
<1>2. Len(lists[op]) \in Nat
  <2> DEFINE X == Seq(Name)
  <2>1. lists[op] \in Seq(X)
    BY DEF TypeOK
  <2> HIDE DEF X
  <2> QED BY <2>1, LenProperties
<1> SUFFICES ASSUME NEW q \in Seq(Name), NEW o \in Option, Given(o)', Due(o, q)'
             PROVE  Kept(o, q)'
  BY DEF PromiseInv, Promised
<1>3. Given(o) /\ Due(o, q)
  BY <1>1, WordsStay DEF Given
<1>4. Kept(o, q)
  BY <1>3 DEF PromiseInv, Promised
<1>5. CASE Handed(backedup, q)
  <2>1. Handed(backedup', q)
    BY <1>1, <1>5, HandedMore, BeginFacts DEF TypeOK
  <2> QED BY <2>1 DEF Kept, Handed
<1>6. CASE Asked(o)
  <2>1. o.op \in Ops
    BY DEF Option
  <2>2. PICK k \in 1..Len(lists[o.op]) : lists[o.op][k] = o.path
    BY <1>6 DEF Asked
  <2>3. CASE o.op # op
    BY <1>1, <2>1, <2>2, <2>3 DEF Kept, Asked
  <2>4. CASE o.op = op /\ k # 1
    <3>1. k - 1 \in 1..Len(lists[op]) - 1 /\ (k - 1) + 1 = k
      BY <1>2, <2>2, <2>4
    <3>2. lists'[op][k - 1] = o.path
      BY <1>1, <2>2, <2>4, <3>1
    <3>3. k - 1 \in 1..Len(lists'[op])
      BY <1>1, <3>1
    <3> QED BY <2>4, <3>2, <3>3 DEF Kept, Asked
  <2>5. CASE o.op = op /\ k = 1
    <3>1. o.path = p
      BY <2>2, <2>5
    <3>2. \/ op = "f" /\ q = p
          \/ op = "d" /\ Under(p, q) /\ Len(q) = Len(p) + 1
          \/ op = "D" /\ Under(p, q)
      BY <1>3, <2>5, <3>1, CoversIs DEF Due
    <3>3. CASE op = "f"
      <4>1. backedup' = Append(backedup, p)
        BY <3>3, BeginFacts
      <4>2. Handed(backedup', q)
        BY <1>1, <3>2, <3>3, <4>1, HandedMore DEF TypeOK
      <4> QED BY <4>2 DEF Kept, Handed
    <3>4. CASE op # "f"
      <4>1. /\ Len(stack') = 1 /\ stack'[1].path = p /\ stack'[1].rec = (op = "D")
            /\ stack'[1].at = (IF op = "D" THEN "enter" ELSE "again")
        BY <3>4, BeginFacts
      <4>2. WillCome(stack'[1], q)
        <5> DEFINE f == stack'[1]
        <5>1. f.path = p /\ f.rec = (op = "D") /\ f.at \in {"enter", "again"}
          BY <4>1
        <5> HIDE DEF f, p
        <5>2. WillCome(f, q)
          BY <3>2, <3>4, <5>1 DEF WillCome, Ahead
        <5> QED BY <5>2 DEF f
      <4>3. Coming(stack', q)
        BY <4>1, <4>2 DEF Coming
      <4> QED BY <1>1, <4>3, WordsStay DEF Kept
    <3> QED BY <3>3, <3>4
  <2> QED BY <2>3, <2>4, <2>5
<1>7. ~Coming(stack, q)
  BY <1>1, EmptySeq DEF Coming
<1> QED BY <1>4, <1>5, <1>6, <1>7 DEF Kept

LEMMA PromiseOption ==
    ASSUME TypeOK, PromiseInv, ParseOption
    PROVE  PromiseInv'
<1>1. UNCHANGED <<fileSystem, stack, backedup>>
  BY OptionFacts
<1> SUFFICES ASSUME NEW q \in Seq(Name), NEW o \in Option, Given(o)', Due(o, q)'
             PROVE  Kept(o, q)'
  BY DEF PromiseInv, Promised
<1>2. Due(o, q)
  BY <1>1, WordsStay
<1>3. Kept(o, q) \/ ~Given(o)
  BY <1>2 DEF PromiseInv, Promised
<1>4. /\ Handed(backedup, q) => Handed(backedup, q)'
      /\ Coming(stack, q) => Coming(stack, q)'
  BY <1>1, WordsStay DEF Handed
<1>5. CASE UNCHANGED <<lists, given>>
  <2>1. Given(o) /\ (Asked(o) => Asked(o)')
    BY <1>5 DEF Given, Asked
  <2> QED BY <1>3, <1>4, <2>1 DEF Kept
<1>6. ASSUME NEW x \in Option,
             lists' = [lists EXCEPT ![x.op] = Append(@, x.path)], given' = Append(given, x)
      PROVE  Kept(o, q)'
  <2>1. Added(given, lists, x, given', lists')
    BY <1>6, AddedFacts DEF Added
  <2>2. x.op \in Ops /\ o.op \in Ops
    BY DEF Option
  <2> DEFINE n == Len(lists[x.op])
  <2>3. /\ n \in Nat /\ Len(lists'[x.op]) = n + 1 /\ lists'[x.op][n + 1] = x.path
        /\ \A k \in 1..n : lists'[x.op][k] = lists[x.op][k]
        /\ \A y \in Ops : y # x.op => lists'[y] = lists[y]
    BY <2>1 DEF Added
  <2>4. ASSUME Asked(o) PROVE Asked(o)'
    <3>1. PICK k \in 1..Len(lists[o.op]) : lists[o.op][k] = o.path
      BY <2>4 DEF Asked
    <3>2. CASE o.op # x.op
      BY <2>2, <2>3, <2>4, <3>2 DEF Asked
    <3>3. CASE o.op = x.op
      <4>1. k \in 1..n + 1 /\ lists'[x.op][k] = o.path
        BY <2>3, <3>1, <3>3
      <4> QED BY <2>3, <3>3, <4>1 DEF Asked
    <3> QED BY <3>2, <3>3
  <2>5. CASE Given(o)
    BY <1>3, <1>4, <2>4, <2>5 DEF Kept
  <2>6. CASE o = x
    <3>1. n + 1 \in 1..Len(lists'[o.op]) /\ lists'[o.op][n + 1] = o.path
      BY <2>3, <2>6
    <3> QED BY <3>1 DEF Kept, Asked
  <2>7. Given(o) \/ o = x
    <3>1. PICK j \in 1..Len(given') : given'[j] = o
      BY DEF Given
    <3>2. /\ Len(given) \in Nat /\ Len(given') = Len(given) + 1 /\ given'[Len(given) + 1] = x
          /\ \A i \in 1..Len(given) : given'[i] = given[i]
      BY <2>1 DEF Added
    <3>3. j = Len(given) + 1 \/ j \in 1..Len(given)
      BY <3>1, <3>2, UpTo
    <3> QED BY <3>1, <3>2, <3>3 DEF Given
  <2> QED BY <2>5, <2>6, <2>7
<1> QED BY <1>5, <1>6, OptionFacts

LEMMA PromiseChange ==
    ASSUME TypeOK, CallsOK, PromiseInv,
           NEW d \in Dir, NEW n \in Name, NEW e \in Entry, ChangeEntry(d, n, e)
    PROVE  PromiseInv'
<1>1. UNCHANGED <<backedup, given, lists>>
  BY DEF ChangeEntry
<1> SUFFICES ASSUME NEW q \in Seq(Name), NEW o \in Option, Given(o)', Due(o, q)'
             PROVE  Kept(o, q)'
  BY DEF PromiseInv, Promised
<1>2. /\ Lookup(q)' = Lookup(q) /\ Stable(q)
      /\ \A i \in 1..Len(q) : <<To(tree, open, q, i-1).dir, q[i]>> # <<d, n>>
      /\ \A p \in Seq(Name) : Under(p, q) => Lookup(p)' = Lookup(p)
  BY StableWay DEF Due
<1>3. Given(o) /\ Due(o, q)
  BY <1>1, <1>2 DEF Given, Due, Covers
<1>4. Kept(o, q)
  BY <1>3 DEF PromiseInv, Promised
<1>5. CASE Coming(stack, q)
  <2>1. PICK k \in 1..Len(stack) : WillCome(stack[k], q)
    BY <1>5 DEF Coming
  <2> DEFINE f == stack[k]
             g == stack'[k]
  <2>2. f \in Call
    BY ElementOfSeq DEF TypeOK
  <2>3. /\ Len(stack') = Len(stack)
        /\ g = IF f.dir = d THEN [f EXCEPT !.must = @ \ {n}] ELSE f
    BY ChangeFacts
  <2>4. /\ g.path = f.path /\ g.rec = f.rec /\ g.at = f.at /\ g.dir = f.dir /\ g.seen = f.seen
        /\ g.must = IF f.dir = d THEN f.must \ {n} ELSE f.must
    BY <2>2, <2>3 DEF Call
  <2>5. WillCome(f, q)
    BY <2>1
  <2>6. PICK h : h = stack'[k]
    OBVIOUS
  <2>a. PICK c : c = stack[k]
    OBVIOUS
  <2>b. /\ h.path = c.path /\ h.rec = c.rec /\ h.at = c.at /\ h.dir = c.dir /\ h.seen = c.seen
        /\ h.must = IF c.dir = d THEN c.must \ {n} ELSE c.must
        /\ c \in Call /\ WillCome(c, q)
    BY <2>2, <2>4, <2>5, <2>6, <2>a
  <2> HIDE DEF f, g
  <2> DEFINE p == c.path
  <2>8. p \in Seq(Name) /\ Under(p, q) /\ Lookup(p)' = Lookup(p)
    BY <1>2, <2>b DEF WillCome, Ahead, Call
  <2>9. c.at \in {"files", "subdirs"} => c.dir # d \/ q[Len(p) + 1] # n
    <3>1. Len(p) \in Nat /\ Len(q) \in Nat /\ Len(p) + 1 \in 1..Len(q) /\ (Len(p) + 1) - 1 = Len(p)
      BY <2>8, LenProperties DEF Under
    <3>2. <<To(tree, open, q, Len(p)).dir, q[Len(p) + 1]>> # <<d, n>>
      BY <1>2, <3>1
    <3>3. Lookup(p) = To(tree, open, q, Len(p))
      BY <1>3, <2>8, WayTo DEF Due
    <3>4. c.at \in {"files", "subdirs"} => c.dir = Lookup(p).dir
      BY <2>b DEF WillCome
    <3> QED BY <3>2, <3>3, <3>4
  <2>10. Ahead(h, q, h.must)
    <3>1. Ahead(c, q, c.must)
      BY <2>b DEF WillCome
    <3> QED BY <2>b, <2>9, <3>1 DEF Ahead
  <2>11. h.at \in {"files", "subdirs"} => h.dir = Lookup(p)'.dir
    BY <2>b, <2>8 DEF WillCome
  <2>13. WillCome(h, q)'
    <3>1. h.path = p
      BY <2>b
    <3>2. Lookup(h.path)' = Lookup(p)'
      BY <3>1
    <3> QED BY <2>10, <2>11, <3>1, <3>2 DEF WillCome, Ahead
  <2>14. Coming(stack, q)'
    <3>1. k \in 1..Len(stack') /\ stack'[k] = h
      BY <2>3, <2>6
    <3> QED BY <2>13, <3>1 DEF Coming
  <2> QED BY <2>14 DEF Kept
<1>6. CASE Handed(backedup, q) \/ Asked(o)
  BY <1>1, <1>6 DEF Kept, Handed, Asked
<1> QED BY <1>4, <1>5, <1>6 DEF Kept

(* When main is done, nothing waits any more.                              *)
DoneOK == outcome = "done" => stack = <<>> /\ \A op \in Ops : lists[op] = <<>>

LEMMA DoneNext ==
    ASSUME TypeOK, CallsOK, DoneOK, [Next]_vars
    PROVE  DoneOK'
<1>1. CASE ParseOption
  <2>1. outcome = "running" /\ outcome' \in {outcome, "rejected"}
    BY <1>1 DEF ParseOption
  <2> QED BY <2>1 DEF DoneOK
<1>2. CASE BackupDir1 \/ BackupDirs \/ BackupFiles
  <2>1. outcome = "running" /\ UNCHANGED outcome
    BY <1>2 DEF BackupDir1, BackupDirs, BackupFiles, Take
  <2> QED BY <2>1 DEF DoneOK
<1>3. CASE Calls
  <2>1. outcome = "running" /\ outcome' \in {outcome, "aborted"}
    BY <1>3, CallSteps DEF CallDoes, Throws, Returns, Enters, Skips, Opens, Reads, Descends, Becomes
  <2> QED BY <2>1 DEF DoneOK
<1>4. CASE Finish
  BY <1>4 DEF Finish, DoneOK, TypeOK
<1>5. CASE \E d \in Dir, n \in Name, e \in Entry : ChangeEntry(d, n, e)
  BY <1>5 DEF ChangeEntry, DoneOK
<1>6. CASE UNCHANGED vars
  BY <1>6 DEF vars, DoneOK
<1> QED BY <1>1, <1>2, <1>3, <1>4, <1>5, <1>6 DEF Next, Program

LEMMA PromiseNext ==
    ASSUME TypeOK, CallsOK, PromiseInv, [Next]_vars
    PROVE  PromiseInv'
<1>1. CASE BackupDir1 \/ BackupDirs \/ BackupFiles
  BY <1>1, BeginSteps, PromiseBegin
<1>2. CASE Finish \/ UNCHANGED vars
  <2>1. UNCHANGED <<fileSystem, lists, stack, backedup, given>>
    BY <1>2 DEF Finish, vars
  <2> SUFFICES ASSUME NEW q \in Seq(Name), NEW o \in Option, Given(o)', Due(o, q)'
               PROVE  Kept(o, q)'
    BY DEF PromiseInv, Promised
  <2>2. Given(o) /\ Due(o, q)
    BY <2>1, WordsStay DEF Given
  <2>3. Kept(o, q)
    BY <2>2 DEF PromiseInv, Promised
  <2> QED BY <2>1, <2>3, WordsStay DEF Kept, Handed, Asked
<1>3. CASE \E d \in Dir, n \in Name, e \in Entry : ChangeEntry(d, n, e)
  BY <1>3, PromiseChange
<1> QED BY <1>1, <1>2, <1>3, PromiseOption, PromiseCalls DEF Next, Program

(* When all is handed over, no file is missing that an option asked for    *)
(* and that was there all the time, whatever other programs did to the     *)
(* entries beside it (recursive_backup, directory_backup, main).           *)
THEOREM NoFileIsMissed == Spec => []NothingIsMissed
<1> DEFINE Inv == TypeOK /\ CallsOK /\ PromiseInv /\ DoneOK
<1>1. Init => Inv
  <2> SUFFICES ASSUME Init PROVE PromiseInv /\ DoneOK
    BY StackInit
  <2>1. given = <<>> /\ outcome = "running" /\ Len(<<>>) = 0
    BY EmptySeq DEF Init
  <2> QED BY <2>1 DEF PromiseInv, Promised, Given, DoneOK
<1>2. Inv /\ [Next]_vars => Inv'
  BY StackNext, PromiseNext, DoneNext
<1>3. Inv => NothingIsMissed
  <2> SUFFICES ASSUME Inv, outcome = "done", NEW o \in ToSet(given), NEW q \in Path,
                      Covers(o, q), Lookup(q).kind = "file", Stable(q)
               PROVE  q \in ToSet(backedup)
    BY DEF NothingIsMissed
  <2>1. q \in Seq(Name)
    BY DEF Path, SeqOf
  <2>2. PICK j \in DOMAIN given : o = given[j]
    BY DEF ToSet
  <2>3. j \in 1..Len(given) /\ o \in Option
    BY <2>2, LenProperties, ElementOfSeq DEF TypeOK
  <2>4. Kept(o, q)
    BY <2>1, <2>2, <2>3 DEF PromiseInv, Promised, Given, Due
  <2>5. stack = <<>> /\ lists[o.op] = <<>> /\ Len(<<>>) = 0
    BY <2>3, EmptySeq DEF DoneOK, Option
  <2>6. Handed(backedup, q)
    BY <2>4, <2>5 DEF Kept, Asked, Coming
  <2>7. DOMAIN backedup = 1..Len(backedup)
    <3> DEFINE X == Seq(Name)
    <3>1. backedup \in Seq(X)
      BY DEF TypeOK
    <3> HIDE DEF X
    <3> QED BY <3>1, LenProperties
  <2> QED BY <2>6, <2>7 DEF Handed, ToSet
<1> QED BY <1>1, <1>2, <1>3, PTL DEF Spec

====
