---------------------------- MODULE ObjTreeProofs -----------------------------
(***************************************************************************)
(* The object tree gives what was put last, for any ids, types of objects, *)
(* width and number of digits.                                             *)
(*                                                                         *)
(* That the pointer in the leaf of an id is the object is not enough:      *)
(* bx_get_node1() has to find the leaf, so every node on the way to an     *)
(* object must exist (Reachable).  Put() makes them all, and no operation  *)
(* but the release of the tree takes one away.                             *)
(*                                                                         *)
(* The second part is about traverse(): it goes through the leaves in the  *)
(* order of the unsigned ids although it compares single digits, visits no *)
(* slot twice, and misses nothing that was there all the time, whatever    *)
(* its handlers put or removed (TInv).                                     *)
(***************************************************************************)
EXTENDS ObjTree, FiniteSetTheorems, WellFoundedInduction, TLAPS

(***************************************************************************)
(* Facts about natural numbers                                             *)
(***************************************************************************)
\* A set of numbers that is not empty has a least one.
LEMMA LeastNatural ==
  ASSUME NEW T \in SUBSET Nat, T # {}
  PROVE  \E x \in T : \A y \in T : x <= y
<1> DEFINE R == OpToRel(<, Nat)
<1>1. R = {ss \in Nat \X Nat : ss[1] < ss[2]}
  BY DEF OpToRel
<1>2. IsWellFoundedOn(R, Nat)
  BY NatLessThanWellFounded
<1> HIDE DEF R
<1>3. PICK x \in T : \A y \in T : ~(<<y, x>> \in R)
  BY <1>2, WFMin
<1>4. \A y \in T : x <= y
  <2> SUFFICES ASSUME NEW y \in T, y < x
               PROVE  FALSE
    OBVIOUS
  <2>1. <<y, x>> \in R
    BY <1>1
  <2> QED
    BY <2>1, <1>3
<1> QED
  BY <1>4

\* Induction: a set with 0 and with the successor of all its numbers has them all.
LEMMA Induction ==
  ASSUME NEW S, 0 \in S, \A n \in Nat : n \in S => n + 1 \in S
  PROVE  Nat \subseteq S
<1> DEFINE T == Nat \ S
<1> SUFFICES ASSUME T # {}
             PROVE  FALSE
  OBVIOUS
<1>1. T \in SUBSET Nat
  OBVIOUS
<1> HIDE DEF T
<1>2. PICK x \in T : \A y \in T : x <= y
  BY <1>1, LeastNatural
<1>3. x \in Nat /\ x # 0
  BY DEF T
<1>4. x - 1 \in Nat /\ ~(x <= x - 1) /\ (x - 1) + 1 = x
  BY <1>3
<1>5. x - 1 \in S
  BY <1>2, <1>4 DEF T
<1> QED
  BY <1>3, <1>4, <1>5 DEF T

\* Induction up to a bound: the library states it for an operator, which no prover
\* here can instantiate; a set takes its place.
LEMMA InductionTo ==
  ASSUME NEW m \in Nat, NEW S, 0 \in S, \A n \in 1..m : n - 1 \in S => n \in S
  PROVE  0..m \subseteq S
<1> DEFINE T == 0..m \ S
<1> SUFFICES ASSUME T # {}
             PROVE  FALSE
  OBVIOUS
<1>1. T \in SUBSET Nat
  OBVIOUS
<1> HIDE DEF T
<1>2. PICK x \in T : \A y \in T : x <= y
  BY <1>1, LeastNatural
<1>3. x \in 1..m /\ x - 1 \in 0..m /\ ~(x <= x - 1) /\ x \notin S
  BY DEF T
<1>4. x - 1 \in S
  BY <1>2, <1>3 DEF T
<1> QED
  BY <1>3, <1>4

\* Quotients.
LEMMA QuotientOfProduct ==
  ASSUME NEW x \in Nat, NEW q \in Nat \ {0}, NEW b \in Nat \ {0}
  PROVE  x \div (b * q) = (x \div q) \div b
OBVIOUS

LEMMA QuotientRest ==
  ASSUME NEW x \in Nat, NEW q \in Nat \ {0}
  PROVE  /\ x = (x % q) + q * (x \div q)
         /\ x \div q \in Nat /\ x % q \in 0..(q - 1)
OBVIOUS

Ptr == Obj \cup {Nil}

TreeType ==
  /\ leaf \in [Paths -> [Slot -> Ptr]]
  /\ store \in [Id -> [Slot -> Ptr]]

LeafHolds == \A h \in Id, s \in Slot : leaf[Path(h)][s] = store[h][s]

Reachable == \A h \in Id, s \in Slot : store[h][s] # Nil => \A n \in 0..Depth : Prefix(Path(h), n) \in alloc

IInv == TreeType /\ LeafHolds /\ Reachable

\* The digits of an id are digits (BT_MASK()).
LEMMA PathIsPath == \A h \in Id : Path(h) \in Paths
<1> SUFFICES ASSUME NEW h \in Id, NEW d \in 1..Depth
             PROVE  Digit(h, d) \in 0..(Base - 1)
  BY DEF Path, Paths
<1> DEFINE x == h % (Base^Depth)
           p == Base^(Depth - d)
<1>1. h \in Int /\ Base^Depth \in Nat \ {0} /\ p \in Nat \ {0} /\ Base \in Nat \ {0}
  BY DigitAssumption
<1>2. x \in Int
  <2> HIDE DEF p
  <2> DEFINE b == Base^Depth
  <2>1. b \in Nat \ {0} /\ h \in Int
    BY <1>1
  <2> HIDE DEF b
  <2>2. h % b \in Int
    BY <2>1
  <2> QED
    BY <2>2 DEF b
<1>3. x \div p \in Int
  <2> HIDE DEF x, p
  <2> QED
    BY <1>1, <1>2
<1>4. (x \div p) % Base \in 0..(Base - 1)
  <2> DEFINE y == x \div p
  <2>1. y \in Int
    BY <1>3
  <2> HIDE DEF y
  <2>2. y % Base \in 0..(Base - 1)
    BY <1>1, <2>1
  <2> QED
    BY <2>2 DEF y
<1> QED
  BY <1>4 DEF Digit

\* What bx_get_node1() returns for an id.
LEMMA GetIsLeaf ==
  ASSUME IInv, NEW h \in Id, NEW s \in Slot
  PROVE  GetObject(h, s) = store[h][s]
<1>1. CASE \A n \in 0..Depth : Prefix(Path(h), n) \in alloc
  <2>1. GetNode(h) = <<Path(h)>>
    BY <1>1 DEF GetNode
  <2>2. GetNode(h) # <<>> /\ GetNode(h)[1] = Path(h)
    BY <2>1
  <2> QED
    BY <2>2 DEF GetObject, IInv, LeafHolds
<1>2. CASE ~ \A n \in 0..Depth : Prefix(Path(h), n) \in alloc
  <2>1. GetNode(h) = <<>>
    BY <1>2 DEF GetNode
  <2>2. store[h][s] = Nil
    BY <1>2 DEF IInv, Reachable
  <2> QED
    BY <2>1, <2>2 DEF GetObject
<1> QED
  BY <1>1, <1>2

\* The empty tree.
LEMMA InitInv == Init => IInv
<1> SUFFICES ASSUME Init PROVE IInv
  OBVIOUS
<1>1. TreeType
  BY DEF Init, TreeType, Ptr
<1>2. LeafHolds
  BY PathIsPath DEF Init, LeafHolds
<1>3. Reachable
  BY DEF Init, Reachable
<1> QED
  BY <1>1, <1>2, <1>3 DEF IInv

\* put_object0_ctrl()
LEMMA PutInv ==
  ASSUME IInv, NEW h \in Id, NEW s \in Slot, NEW o \in Obj, NEW keep \in BOOLEAN, Put(h, s, o, keep)
  PROVE  IInv'
<1>1. Path(h) \in Paths /\ o # Nil
  BY PathIsPath, ObjAssumption
<1>2. leaf' = [leaf EXCEPT ![Path(h)][s] = PutResult(h, s, o, keep)]
  BY DEF Put
<1>3. store' = [store EXCEPT ![h][s] = PutResult(h, s, o, keep)]
  BY <1>1 DEF Put, PutResult, IInv, LeafHolds, TreeType
<1>4. PutResult(h, s, o, keep) \in Ptr
  BY <1>1 DEF PutResult, Ptr, IInv, TreeType
<1>5. TreeType'
  BY <1>1, <1>2, <1>3, <1>4 DEF TreeType, IInv
<1>6. LeafHolds'
  <2> SUFFICES ASSUME NEW g \in Id, NEW u \in Slot
               PROVE  leaf'[Path(g)][u] = store'[g][u]
    BY DEF LeafHolds
  <2>1. Path(g) \in Paths /\ leaf[Path(g)][u] = store[g][u]
    BY PathIsPath DEF IInv, LeafHolds
  <2>2. CASE g = h
    BY <1>1, <1>2, <1>3, <2>1, <2>2 DEF IInv, TreeType
  <2>3. CASE g # h
    <3>1. Path(g) # Path(h)
      BY <2>3, PathInjective
    <3> QED
      BY <1>1, <1>2, <1>3, <2>1, <2>3, <3>1 DEF IInv, TreeType
  <2> QED
    BY <2>2, <2>3
<1>7. Reachable'
  <2> SUFFICES ASSUME NEW g \in Id, NEW u \in Slot, store'[g][u] # Nil, NEW n \in 0..Depth
               PROVE  Prefix(Path(g), n) \in alloc'
    BY DEF Reachable
  <2>1. alloc' = alloc \cup {Prefix(Path(h), k) : k \in 0..Depth}
    BY DEF Put
  <2>2. CASE g = h
    BY <2>1, <2>2
  <2>3. CASE g # h
    <3>1. store'[g][u] = store[g][u]
      BY <1>3, <2>3 DEF IInv, TreeType
    <3> QED
      BY <2>1, <3>1 DEF IInv, Reachable
  <2> QED
    BY <2>2, <2>3
<1> QED
  BY <1>5, <1>6, <1>7 DEF IInv

\* rem_object()
LEMMA RemInv ==
  ASSUME IInv, NEW h \in Id, NEW s \in Slot, RemObject(h, s)
  PROVE  IInv'
<1>1. Path(h) \in Paths
  BY PathIsPath
<1>2. leaf' = [leaf EXCEPT ![Path(h)][s] = Nil] /\ store' = [store EXCEPT ![h][s] = Nil] /\ alloc' = alloc
  BY DEF RemObject
<1>3. TreeType'
  BY <1>1, <1>2 DEF TreeType, IInv, Ptr
<1>4. LeafHolds'
  <2> SUFFICES ASSUME NEW g \in Id, NEW u \in Slot
               PROVE  leaf'[Path(g)][u] = store'[g][u]
    BY DEF LeafHolds
  <2>1. Path(g) \in Paths /\ leaf[Path(g)][u] = store[g][u]
    BY PathIsPath DEF IInv, LeafHolds
  <2>2. CASE g = h
    BY <1>1, <1>2, <2>1, <2>2 DEF IInv, TreeType
  <2>3. CASE g # h
    <3>1. Path(g) # Path(h)
      BY <2>3, PathInjective
    <3> QED
      BY <1>1, <1>2, <2>1, <2>3, <3>1 DEF IInv, TreeType
  <2> QED
    BY <2>2, <2>3
<1>5. Reachable'
  <2> SUFFICES ASSUME NEW g \in Id, NEW u \in Slot, store'[g][u] # Nil
               PROVE  \A n \in 0..Depth : Prefix(Path(g), n) \in alloc'
    BY DEF Reachable
  <2>1. store[g][u] # Nil
    BY <1>2 DEF IInv, TreeType
  <2> QED
    BY <1>2, <2>1 DEF IInv, Reachable
<1> QED
  BY <1>3, <1>4, <1>5 DEF IInv

\* bx_free_tree0()
LEMMA FreeInv ==
  ASSUME IInv, FreeTree
  PROVE  IInv'
<1>1. leaf' = [p \in Paths |-> [s \in Slot |-> Nil]] /\ store' = [h \in Id |-> [s \in Slot |-> Nil]]
  BY DEF FreeTree
<1>2. TreeType' /\ LeafHolds' /\ Reachable'
  BY <1>1, PathIsPath DEF TreeType, LeafHolds, Reachable, Ptr
<1> QED
  BY <1>2 DEF IInv

\* Every step, those of a traversal among them, keeps what the tree holds reachable.
THEOREM TreeInvariant == Spec => []IInv
<1>1. Init => IInv
  BY InitInv
<1>2. IInv /\ [Next]_vars => IInv'
  <2> SUFFICES ASSUME IInv, [Next]_vars
               PROVE  IInv'
    OBVIOUS
  <2>1. CASE \E h \in Id, s \in Slot, o \in Obj, keep \in BOOLEAN : Put(h, s, o, keep)
    BY <2>1, PutInv
  <2>2. CASE \E h \in Id, s \in Slot : RemObject(h, s)
    BY <2>2, RemInv
  <2>3. CASE FreeTree
    BY <2>3, FreeInv
  <2>4. CASE UNCHANGED <<alloc, leaf, store>>
    BY <2>4 DEF IInv, TreeType, LeafHolds, Reachable
  <2>5. CASE \E s \in Slot \cup {-1} : StartTraverse(s)
    BY <2>4, <2>5 DEF StartTraverse
  <2>6. CASE \E e \in {0, -1} : Visit(e)
    BY <2>4, <2>6 DEF Visit
  <2>7. CASE EndTraverse
    BY <2>4, <2>7 DEF EndTraverse
  <2>8. CASE UNCHANGED vars
    BY <2>4, <2>8 DEF vars
  <2> QED
    BY <2>1, <2>2, <2>3, <2>5, <2>6, <2>7, <2>8 DEF Next
<1> QED
  BY <1>1, <1>2, PTL DEF Spec

\* get_object() gives the object that put_object() was given last for an id and a
\* type, until rem_object(), whatever was done for other ids in between.
THEOREM GetLastPutHolds == Spec => []GetLastPut
<1>1. IInv => GetLastPut
  BY GetIsLeaf DEF GetLastPut
<1> QED
  BY <1>1, TreeInvariant, PTL
(***************************************************************************)
(* The traversal                                                           *)
(*                                                                         *)
(* TInv: the leaves and slots visited are in the order of their positions  *)
(* and not beyond the place the recursion has come to (Sorted); an object  *)
(* that was there all the time is still there (Kept) and, if its position   *)
(* is not beyond that place, was visited (Complete).  A step to the next   *)
(* pointer cannot leave one out because two leaves and slots never have    *)
(* the same position (PositionInjective), and the end of the recursion     *)
(* leaves none out because the nodes on the way to it exist (Reachable).   *)
(***************************************************************************)
Visited == {[path |-> p, slot |-> s, obj |-> o] : p \in Paths, s \in Slot, o \in Obj}
AtOf(v) == At(v.path, v.slot)
Seen(h, s) == \E i \in DOMAIN trv.seen : trv.seen[i] = [path |-> Path(h), slot |-> s, obj |-> store[h][s]]

TravType ==
  /\ trv.seen \in Seq(Visited)
  /\ trv.at \in Int
  /\ trv = [on |-> trv.on, slot |-> trv.slot, at |-> trv.at, from |-> trv.from, seen |-> trv.seen,
            keep |-> trv.keep, ret |-> trv.ret]
Sorted ==
  /\ \A i, j \in DOMAIN trv.seen : i < j => AtOf(trv.seen[i]) < AtOf(trv.seen[j])
  /\ \A i \in DOMAIN trv.seen : AtOf(trv.seen[i]) <= trv.at
Kept ==
  \A x \in trv.keep : /\ x \in Id \X Slot /\ (trv.slot = -1 \/ x[2] = trv.slot)
                      /\ store[x[1]][x[2]] # Nil
Complete ==
  \/ trv.on = TRUE /\ trv.ret = 0 /\ \A x \in trv.keep : At(Path(x[1]), x[2]) <= trv.at => Seen(x[1], x[2])
  \/ trv.on = FALSE /\ (trv.seen = <<>> \/ trv.ret # 0 \/ \A x \in trv.keep : Seen(x[1], x[2]))

TInv == TravType /\ Sorted /\ Kept /\ Complete

\* The recursive function of Rank() exists.
Number(p) == CHOOSE f : f = [n \in 0..Depth |-> IF n = 0 THEN 0 ELSE p[n] + Base * f[n - 1]]

LEMMA NumberIs ==
  ASSUME NEW p
  PROVE  Number(p) = [n \in 0..Depth |-> IF n = 0 THEN 0 ELSE p[n] + Base * Number(p)[n - 1]]
<1> DEFINE Upto(m) == \E f : f = [n \in 0..m |-> IF n = 0 THEN 0 ELSE p[n] + Base * f[n - 1]]
           S == {m \in Nat : Upto(m)}
<1>0. Depth \in Nat
  BY DigitAssumption
<1>1. 0 \in S
  <2> DEFINE f == [n \in 0..0 |-> 0]
  <2>1. f = [n \in 0..0 |-> IF n = 0 THEN 0 ELSE p[n] + Base * f[n - 1]]
    OBVIOUS
  <2> HIDE DEF f
  <2>2. Upto(0)
    BY <2>1
  <2> QED
    BY <2>2
<1>2. ASSUME NEW m \in Nat, m \in S
      PROVE  m + 1 \in S
  <2>1. PICK f : f = [n \in 0..m |-> IF n = 0 THEN 0 ELSE p[n] + Base * f[n - 1]]
    BY <1>2
  <2> DEFINE g == [n \in 0..(m + 1) |-> IF n = m + 1 THEN p[m + 1] + Base * f[m] ELSE f[n]]
             G(n) == IF n = 0 THEN 0 ELSE p[n] + Base * g[n - 1]
  <2>2. ASSUME NEW n \in 0..(m + 1)
        PROVE  g[n] = G(n)
    <3>1. CASE n = m + 1
      <4>1. g[n - 1] = f[m] /\ n # 0
        BY <3>1
      <4> QED
        BY <3>1, <4>1
    <3>2. CASE n \in 0..m
      <4>1. g[n] = f[n]
        BY <3>2
      <4>2. n # 0 => n - 1 \in 0..m /\ g[n - 1] = f[n - 1]
        BY <3>2
      <4>3. f[n] = IF n = 0 THEN 0 ELSE p[n] + Base * f[n - 1]
        BY <2>1, <3>2
      <4> HIDE DEF g
      <4> QED
        BY <4>1, <4>2, <4>3
    <3> QED
      BY <3>1, <3>2
  <2>3. g = [n \in 0..(m + 1) |-> g[n]]
    OBVIOUS
  <2> HIDE DEF g
  <2>4. g = [n \in 0..(m + 1) |-> IF n = 0 THEN 0 ELSE p[n] + Base * g[n - 1]]
    BY <2>2, <2>3
  <2>5. Upto(m + 1)
    BY <2>4
  <2> QED
    BY <2>5
<1>3. Upto(Depth)
  <2> HIDE DEF S
  <2>1. Depth \in S
    BY <1>0, <1>1, <1>2, Induction
  <2> QED
    BY <2>1 DEF S
<1> QED
  BY <1>3 DEF Number

LEMMA RankIsNumber == \A p : Rank(p) = Number(p)[Depth]
BY DEF Rank, Number

LEMMA NumberStep ==
  ASSUME NEW p \in Paths
  PROVE  /\ Number(p)[0] = 0
         /\ \A n \in 0..Depth : Number(p)[n] \in Nat
         /\ \A n \in 1..Depth : Number(p)[n] = p[n] + Base * Number(p)[n - 1]
<1> DEFINE f == Number(p)
           S == {n \in Nat : n \in 0..Depth => f[n] \in Nat}
<1>0. Depth \in Nat /\ Base \in Nat \ {0} /\ \A n \in 1..Depth : p[n] \in Nat
  BY DigitAssumption DEF Paths
<1>1. f = [n \in 0..Depth |-> IF n = 0 THEN 0 ELSE p[n] + Base * f[n - 1]]
  BY NumberIs
<1> HIDE DEF f
<1>2. \A n \in 0..Depth : f[n] = IF n = 0 THEN 0 ELSE p[n] + Base * f[n - 1]
  BY <1>1
<1>3. f[0] = 0 /\ \A n \in 1..Depth : f[n] = p[n] + Base * f[n - 1]
  BY <1>0, <1>2
<1>4. 0..Depth \subseteq S
  <2>1. 0 \in S
    BY <1>3
  <2>2. ASSUME NEW n \in 1..Depth, n - 1 \in S
        PROVE  n \in S
    <3>1. f[n - 1] \in Nat /\ f[n] = p[n] + Base * f[n - 1]
      BY <1>0, <1>3, <2>2
    <3>2. p[n] \in Nat
      BY <1>0
    <3>3. f[n] \in Nat
      BY <1>0, <3>1, <3>2
    <3> QED
      BY <1>0, <3>3
  <2> HIDE DEF S
  <2> QED
    BY <1>0, <2>1, <2>2, InductionTo
<1> QED
  BY <1>3, <1>4 DEF f

\* Different leaves have different numbers.
LEMMA RankInjective ==
  ASSUME NEW p \in Paths, NEW q \in Paths, Rank(p) = Rank(q)
  PROVE  p = q
<1> DEFINE a == [n \in 0..Depth |-> Number(p)[n]]
           b == [n \in 0..Depth |-> Number(q)[n]]
           S == {k \in Nat : k \in 0..Depth => a[Depth - k] = b[Depth - k]}
<1>0. Depth \in Nat /\ Base \in Nat \ {0} /\ \A n \in 1..Depth : p[n] \in 0..(Base - 1) /\ q[n] \in 0..(Base - 1)
  BY DigitAssumption DEF Paths
<1>1. /\ \A n \in 0..Depth : a[n] \in Nat /\ b[n] \in Nat
      /\ \A n \in 1..Depth : a[n] = p[n] + Base * a[n - 1] /\ b[n] = q[n] + Base * b[n - 1]
  <2>1. \A n \in 1..Depth : n \in 0..Depth /\ n - 1 \in 0..Depth
    BY <1>0
  <2> QED
    BY <2>1, NumberStep
<1>2. a[Depth] = b[Depth]
  BY <1>0, RankIsNumber
<1> HIDE DEF a, b
<1>3. ASSUME NEW n \in 1..Depth, a[n] = b[n]
      PROVE  p[n] = q[n] /\ a[n - 1] = b[n - 1]
  <2> DEFINE x == a[n - 1]
             y == b[n - 1]
             c == p[n]
             d == q[n]
  <2>1. x \in Nat /\ y \in Nat /\ c \in 0..(Base - 1) /\ d \in 0..(Base - 1)
    BY <1>0, <1>1
  <2>2. c + Base * x = d + Base * y
    BY <1>1, <1>3
  <2> HIDE DEF x, y, c, d
  <2>3. ~(x < y)
    <3> SUFFICES ASSUME x < y
                 PROVE  FALSE
      OBVIOUS
    <3>1. Base * (x + 1) <= Base * y
      BY <1>0, <2>1
    <3>2. Base * (x + 1) = Base * x + Base
      BY <1>0, <2>1
    <3> QED
      BY <1>0, <2>1, <2>2, <3>1, <3>2
  <2>4. ~(y < x)
    <3> SUFFICES ASSUME y < x
                 PROVE  FALSE
      OBVIOUS
    <3>1. Base * (y + 1) <= Base * x
      BY <1>0, <2>1
    <3>2. Base * (y + 1) = Base * y + Base
      BY <1>0, <2>1
    <3> QED
      BY <1>0, <2>1, <2>2, <3>1, <3>2
  <2>5. x = y
    BY <2>1, <2>3, <2>4
  <2>6. c = d
    BY <1>0, <2>1, <2>2, <2>5
  <2> QED
    BY <2>5, <2>6 DEF x, y, c, d
<1>4. 0..Depth \subseteq S
  <2>1. 0 \in S
    BY <1>0, <1>2
  <2>2. ASSUME NEW k \in 1..Depth, k - 1 \in S
        PROVE  k \in S
    <3>1. a[Depth - (k - 1)] = b[Depth - (k - 1)]
      BY <1>0, <2>2
    <3>2. Depth - (k - 1) \in 1..Depth /\ (Depth - (k - 1)) - 1 = Depth - k
      BY <1>0
    <3> QED
      BY <1>0, <1>3, <3>1, <3>2
  <2> HIDE DEF S
  <2> QED
    BY <1>0, <2>1, <2>2, InductionTo
<1>5. ASSUME NEW n \in 1..Depth
      PROVE  p[n] = q[n]
  <2>1. Depth - n \in 0..Depth /\ Depth - (Depth - n) = n
    BY <1>0
  <2>2. a[n] = b[n]
    BY <1>0, <1>4, <2>1
  <2> QED
    BY <1>3, <2>2
<1>6. p = [n \in 1..Depth |-> p[n]] /\ q = [n \in 1..Depth |-> q[n]]
  BY DEF Paths
<1> QED
  BY <1>5, <1>6

\* The number of the leaf of an id is the id, taken without a sign.
LEMMA RankOfId ==
  ASSUME NEW h \in Id
  PROVE  Rank(Path(h)) = Unsigned(h)
<1> DEFINE x == h % (Base^Depth)
           f == Number(Path(h))
           S == {n \in Nat : n \in 0..Depth => f[n] = x \div (Base^(Depth - n))}
<1>0. Depth \in Nat /\ Base \in Nat \ {0} /\ Base^Depth \in Nat \ {0}
  BY DigitAssumption
<1>1. /\ f[0] = 0
      /\ \A n \in 0..Depth : f[n] \in Nat
      /\ \A n \in 1..Depth : f[n] = Path(h)[n] + Base * f[n - 1]
  BY PathIsPath, NumberStep
<1>2. x \in 0..(Base^Depth - 1)
  <2> DEFINE b == Base^Depth
  <2>1. b \in Nat \ {0} /\ h \in Int
    BY <1>0, DigitAssumption
  <2> HIDE DEF b
  <2>2. h % b \in 0..(b - 1)
    BY <2>1
  <2> QED
    BY <2>2 DEF b
<1>3. \A n \in 1..Depth : Path(h)[n] = (x \div (Base^(Depth - n))) % Base
  BY DEF Path, Digit
<1> HIDE DEF f, x
<1>4. 0 \in S
  <2> DEFINE b == Base^Depth
  <2>1. x \in 0..(b - 1) /\ b \in Nat \ {0}
    BY <1>0, <1>2
  <2> HIDE DEF b
  <2>2. x \div b = 0
    BY <2>1
  <2>3. Depth - 0 = Depth
    BY <1>0
  <2> QED
    BY <1>1, <2>2, <2>3 DEF b
<1>5. ASSUME NEW n \in 1..Depth, n - 1 \in S
      PROVE  n \in S
  <2> DEFINE q == Base^(Depth - n)
             y == x \div q
  <2>1. Depth - n \in 0..(Depth - 1) /\ n - 1 \in 0..Depth /\ Depth - (n - 1) \in 1..Depth /\ (Depth - (n - 1)) - 1 = Depth - n
    BY <1>0
  <2>2. q \in Nat \ {0} /\ Base^(Depth - (n - 1)) = Base * q
    BY <2>1, DigitAssumption, PowerAssumption
  <2>3. f[n - 1] = x \div (Base * q)
    BY <1>5, <2>1, <2>2
  <2>4. Path(h)[n] = y % Base
    BY <1>3
  <2>5. x \in Nat
    BY <1>0, <1>2
  <2> HIDE DEF q
  <2>6. f[n - 1] = y \div Base
    BY <1>0, <2>2, <2>3, <2>5, QuotientOfProduct
  <2>7. y \in Nat
    BY <2>2, <2>5, QuotientRest
  <2>8. f[n] = (y % Base) + Base * (y \div Base)
    BY <1>1, <2>4, <2>6
  <2> HIDE DEF y
  <2>9. f[n] = y
    BY <1>0, <2>7, <2>8, QuotientRest
  <2> QED
    BY <2>9 DEF y, q
<1>6. Depth \in S
  <2> HIDE DEF S
  <2> QED
    BY <1>0, <1>4, <1>5, InductionTo
<1>7. f[Depth] = x
  <2>1. Depth - Depth = 0 /\ Base^0 = 1 /\ Depth \in 0..Depth
    BY <1>0, PowerAssumption
  <2>2. f[Depth] = x \div 1
    BY <1>6, <2>1
  <2> QED
    BY <1>0, <1>2, <2>2
<1> QED
  BY <1>7, RankIsNumber DEF f, x, Unsigned

\* Positions: their order is that of the leaves, then that of the slots.
LEMMA PositionOrder ==
  ASSUME NEW p \in Paths, NEW q \in Paths, NEW s \in Slot, NEW u \in Slot
  PROVE  /\ At(p, s) \in Nat /\ Rank(p) \in Nat
         /\ At(p, s) < At(q, u) => Rank(p) < Rank(q) \/ (p = q /\ s < u)
         /\ At(p, s) = At(q, u) => p = q /\ s = u
<1> DEFINE N == NumSlots
           x == Rank(p)
           y == Rank(q)
<1>1. N \in Nat /\ s \in 0..(N - 1) /\ u \in 0..(N - 1)
  BY SlotAssumption, FS_CardinalityType DEF NumSlots
<1>2. x \in Nat /\ y \in Nat
  <2>1. Depth \in 0..Depth
    BY DigitAssumption
  <2> QED
    BY <2>1, RankIsNumber, NumberStep
<1>3. x = y => p = q
  BY RankInjective
<1>4. At(p, s) = x * N + s /\ At(q, u) = y * N + u
  BY DEF At
<1> HIDE DEF N, x, y
<1>5. x < y => x * N + s < y * N + u
  <2> SUFFICES ASSUME x < y
               PROVE  x * N + s < y * N + u
    OBVIOUS
  <2>1. (x + 1) * N <= y * N
    BY <1>1, <1>2
  <2>2. (x + 1) * N = x * N + N
    BY <1>1, <1>2
  <2>3. x * N \in Nat /\ y * N \in Nat
    BY <1>1, <1>2
  <2> QED
    BY <1>1, <2>1, <2>2, <2>3
<1>6. y < x => y * N + u < x * N + s
  <2> SUFFICES ASSUME y < x
               PROVE  y * N + u < x * N + s
    OBVIOUS
  <2>1. (y + 1) * N <= x * N
    BY <1>1, <1>2
  <2>2. (y + 1) * N = y * N + N
    BY <1>1, <1>2
  <2>3. x * N \in Nat /\ y * N \in Nat
    BY <1>1, <1>2
  <2> QED
    BY <1>1, <2>1, <2>2, <2>3
<1>7. x * N \in Nat /\ y * N \in Nat
  BY <1>1, <1>2
<1>8. x * N + s \in Nat
  BY <1>1, <1>7
<1>9. CASE x = y
  <2>1. p = q /\ x * N = y * N
    BY <1>3, <1>9
  <2> QED
    BY <1>1, <1>2, <1>4, <1>7, <1>8, <2>1 DEF x
<1>10. CASE x < y
  BY <1>1, <1>2, <1>4, <1>5, <1>7, <1>8, <1>10 DEF x, y
<1>11. CASE y < x
  BY <1>1, <1>2, <1>4, <1>6, <1>7, <1>8, <1>11 DEF x, y
<1> QED
  BY <1>2, <1>9, <1>10, <1>11

\* The next pointer is the one with the least position.
LEMMA NextIsLeast ==
  ASSUME Ahead # {}
  PROVE  /\ NextAt \in Ahead
         /\ \A y \in Ahead : At(NextAt[1], NextAt[2]) <= At(y[1], y[2])
<1> DEFINE T == {At(y[1], y[2]) : y \in Ahead}
<1>1. Ahead \subseteq Paths \X Slot
  BY DEF Ahead
<1>2. T \in SUBSET Nat /\ T # {}
  BY <1>1, PositionOrder
<1>3. PICK a \in T : \A b \in T : a <= b
  <2> HIDE DEF T
  <2> QED
    BY <1>2, LeastNatural
<1>4. \E x \in Ahead : \A y \in Ahead : At(x[1], x[2]) <= At(y[1], y[2])
  BY <1>3
<1> QED
  BY <1>4 DEF NextAt

\* The traversal of a tree that has been made; Idle if there is none.
LEMMA IdleInv ==
  ASSUME trv = Idle \/ trv = [Idle EXCEPT !.ret = -1]
  PROVE  TInv
<1>1. /\ trv.on = FALSE /\ trv.at = -1 /\ trv.seen = <<>> /\ trv.keep = {}
      /\ trv = [on |-> trv.on, slot |-> trv.slot, at |-> trv.at, from |-> trv.from, seen |-> trv.seen,
                keep |-> trv.keep, ret |-> trv.ret]
  BY DEF Idle
<1>2. DOMAIN trv.seen = {}
  BY <1>1
<1>3. TravType
  BY <1>1 DEF TravType
<1> QED
  BY <1>1, <1>2, <1>3 DEF TInv, Sorted, Kept, Complete

LEMMA TravInit == Init => TInv
BY IdleInv DEF Init

\* put_object0_ctrl() and rem_object() of a handler: what they change is not in keep.
LEMMA TravChange ==
  ASSUME IInv, TInv, NEW h \in Id, NEW s \in Slot,
         trv' = [trv EXCEPT !.keep = {x \in @ : x # <<h, s>>}],
         \A g \in Id, u \in Slot : <<g, u>> # <<h, s>> => store'[g][u] = store[g][u]
  PROVE  TInv'
<1>1. /\ trv'.seen = trv.seen /\ trv'.at = trv.at /\ trv'.slot = trv.slot /\ trv'.on = trv.on /\ trv'.ret = trv.ret
      /\ trv'.keep \subseteq trv.keep /\ <<h, s>> \notin trv'.keep
      /\ trv' = [on |-> trv'.on, slot |-> trv'.slot, at |-> trv'.at, from |-> trv'.from, seen |-> trv'.seen,
                 keep |-> trv'.keep, ret |-> trv'.ret]
  BY DEF TInv, TravType
<1>2. \A x \in trv'.keep : /\ x \in trv.keep /\ x \in Id \X Slot /\ (trv.slot = -1 \/ x[2] = trv.slot)
                           /\ store'[x[1]][x[2]] = store[x[1]][x[2]] /\ store[x[1]][x[2]] # Nil
  <2> SUFFICES ASSUME NEW x \in trv'.keep
               PROVE  /\ x \in trv.keep /\ x \in Id \X Slot /\ (trv.slot = -1 \/ x[2] = trv.slot)
                      /\ store'[x[1]][x[2]] = store[x[1]][x[2]] /\ store[x[1]][x[2]] # Nil
    OBVIOUS
  <2>1. x \in trv.keep /\ x # <<h, s>>
    BY <1>1
  <2>2. x \in Id \X Slot /\ (trv.slot = -1 \/ x[2] = trv.slot) /\ store[x[1]][x[2]] # Nil
    BY <2>1 DEF TInv, Kept
  <2>3. x = <<x[1], x[2]>> /\ x[1] \in Id /\ x[2] \in Slot
    BY <2>2
  <2> QED
    BY <2>1, <2>2, <2>3
<1>3. TravType'
  BY <1>1 DEF TInv, TravType
<1>4. Sorted'
  BY <1>1 DEF TInv, Sorted, AtOf, At, NumSlots, Rank
<1>5. Kept'
  BY <1>1, <1>2 DEF Kept
<1>6. \A x \in trv'.keep : Seen(x[1], x[2]) => Seen(x[1], x[2])'
  BY <1>1, <1>2 DEF Seen
<1>7. Complete'
  <2>1. CASE trv.on = TRUE
    BY <1>1, <1>2, <1>6, <2>1 DEF TInv, Complete, At, NumSlots, Rank
  <2>2. CASE trv.on = FALSE
    BY <1>1, <1>2, <1>6, <2>2 DEF TInv, Complete
  <2> QED
    BY <2>1, <2>2 DEF TInv, Complete
<1> QED
  BY <1>3, <1>4, <1>5, <1>7 DEF TInv

LEMMA TravPut ==
  ASSUME IInv, TInv, NEW h \in Id, NEW s \in Slot, NEW o \in Obj, NEW keep \in BOOLEAN, Put(h, s, o, keep)
  PROVE  TInv'
<1>1. trv' = [trv EXCEPT !.keep = {x \in @ : x # <<h, s>>}]
  BY DEF Put
<1>2. \A g \in Id, u \in Slot : <<g, u>> # <<h, s>> => store'[g][u] = store[g][u]
  BY DEF Put, IInv, TreeType
<1> QED
  BY <1>1, <1>2, TravChange

LEMMA TravRem ==
  ASSUME IInv, TInv, NEW h \in Id, NEW s \in Slot, RemObject(h, s)
  PROVE  TInv'
<1>1. trv' = [trv EXCEPT !.keep = {x \in @ : x # <<h, s>>}]
  BY DEF RemObject
<1>2. \A g \in Id, u \in Slot : <<g, u>> # <<h, s>> => store'[g][u] = store[g][u]
  BY DEF RemObject, IInv, TreeType
<1> QED
  BY <1>1, <1>2, TravChange

\* traverse(): all that is there is to be visited, and nothing is behind.
LEMMA TravStart ==
  ASSUME IInv, TInv, NEW s \in Slot \cup {-1}, StartTraverse(s)
  PROVE  TInv'
<1>1. store' = store
  BY DEF StartTraverse
<1>2. CASE <<>> \notin alloc
  <2>1. trv' = [Idle EXCEPT !.ret = -1]
    BY <1>2 DEF StartTraverse
  <2>2. /\ trv'.on = FALSE /\ trv'.at = -1 /\ trv'.seen = <<>> /\ trv'.keep = {}
        /\ trv' = [on |-> trv'.on, slot |-> trv'.slot, at |-> trv'.at, from |-> trv'.from, seen |-> trv'.seen,
                   keep |-> trv'.keep, ret |-> trv'.ret]
    BY <2>1 DEF Idle
  <2>3. DOMAIN trv'.seen = {}
    BY <2>2
  <2>4. TravType'
    BY <2>2 DEF TravType
  <2> QED
    BY <2>2, <2>3, <2>4 DEF TInv, Sorted, Kept, Complete
<1>3. CASE <<>> \in alloc
  <2>1. trv' = [Idle EXCEPT !.on = TRUE, !.slot = s, !.from = puts,
                            !.keep = {x \in Id \X Slot : (s = -1 \/ x[2] = s) /\ store[x[1]][x[2]] # Nil}]
    BY <1>3 DEF StartTraverse
  <2>2. TravType' /\ Sorted'
    <3>1. /\ trv'.at = -1 /\ trv'.seen = <<>>
          /\ trv' = [on |-> trv'.on, slot |-> trv'.slot, at |-> trv'.at, from |-> trv'.from, seen |-> trv'.seen,
                     keep |-> trv'.keep, ret |-> trv'.ret]
      BY <2>1 DEF Idle
    <3>2. DOMAIN trv'.seen = {}
      BY <3>1
    <3> QED
      BY <3>1, <3>2 DEF TravType, Sorted
  <2>3. Kept'
    BY <1>1, <2>1 DEF Idle, Kept
  <2>4. trv'.on = TRUE /\ trv'.ret = 0 /\ trv'.at = -1
    BY <2>1 DEF Idle
  <2>5. \A x \in trv'.keep : ~(At(Path(x[1]), x[2]) <= -1)
    <3> SUFFICES ASSUME NEW x \in trv'.keep
                 PROVE  At(Path(x[1]), x[2]) \in Nat
      OBVIOUS
    <3>1. x[1] \in Id /\ x[2] \in Slot
      BY <2>3 DEF Kept
    <3> QED
      BY <3>1, PathIsPath, PositionOrder
  <2>6. Complete'
    BY <2>4, <2>5 DEF Complete, At, NumSlots, Rank
  <2> QED
    BY <2>2, <2>3, <2>6 DEF TInv
<1> QED
  BY <1>2, <1>3

\* An object that is to be visited and is beyond the place is in the way.
LEMMA KeptIsAhead ==
  ASSUME IInv, TInv, NEW x \in trv.keep, ~(At(Path(x[1]), x[2]) <= trv.at)
  PROVE  <<Path(x[1]), x[2]>> \in Ahead
<1> DEFINE p == Path(x[1])
<1>1. x[1] \in Id /\ x[2] \in Slot /\ (trv.slot = -1 \/ x[2] = trv.slot) /\ store[x[1]][x[2]] # Nil
  BY DEF TInv, Kept
<1>2. p \in Paths
  BY <1>1, PathIsPath
<1>3. leaf[p][x[2]] # Nil
  BY <1>1 DEF IInv, LeafHolds
<1>4. Prefix(p, Depth) \in alloc
  <2>1. Depth \in 0..Depth
    BY DigitAssumption
  <2> QED
    BY <1>1, <2>1 DEF IInv, Reachable
<1>5. At(p, x[2]) > trv.at
  BY <1>1, <1>2, PositionOrder DEF TInv, TravType
<1> HIDE DEF p
<1>6. <<p, x[2]>>[1] = p /\ <<p, x[2]>>[2] = x[2] /\ <<p, x[2]>> \in Paths \X Slot
  BY <1>1, <1>2
<1> QED
  BY <1>1, <1>3, <1>4, <1>5, <1>6 DEF Ahead, p

\* One call of the handler.
LEMMA TravVisit ==
  ASSUME IInv, TInv, NEW e \in {0, -1}, Visit(e)
  PROVE  TInv'
<1> DEFINE p == NextAt[1]
           s == NextAt[2]
           v == [path |-> p, slot |-> s, obj |-> leaf[p][s]]
           n == Len(trv.seen)
<1>1. /\ NextAt \in Ahead
      /\ \A y \in Ahead : At(p, s) <= At(y[1], y[2])
  BY NextIsLeast DEF Visit
<1>2. p \in Paths /\ s \in Slot /\ At(p, s) > trv.at /\ leaf[p][s] # Nil
  BY <1>1 DEF Ahead
<1>3. /\ trv' = [trv EXCEPT !.at = At(p, s), !.ret = e, !.on = (e = 0), !.seen = Append(@, v)]
      /\ trv.on = TRUE /\ store' = store
  BY DEF Visit, TInv, Complete
<1> HIDE DEF p, s
<1>4. At(p, s) \in Int
  BY <1>2, PositionOrder
<1>5. v \in Visited
  BY <1>2 DEF Visited, IInv, TreeType, Ptr
<1>6. AtOf(v) = At(p, s) /\ trv.at \in Int /\ trv.seen \in Seq(Visited)
  BY DEF AtOf, TInv, TravType
<1>7. /\ trv'.at = At(p, s) /\ trv'.ret = e /\ trv'.on = (e = 0) /\ trv'.seen = Append(trv.seen, v)
      /\ trv'.keep = trv.keep /\ trv'.slot = trv.slot
      /\ trv' = [on |-> trv'.on, slot |-> trv'.slot, at |-> trv'.at, from |-> trv'.from, seen |-> trv'.seen,
                 keep |-> trv'.keep, ret |-> trv'.ret]
  BY <1>3 DEF TInv, TravType
<1> HIDE DEF v
<1>8. /\ n \in Nat /\ DOMAIN trv.seen = 1..n /\ DOMAIN trv'.seen = 1..(n + 1)
      /\ trv'.seen[n + 1] = v /\ \A i \in 1..n : trv'.seen[i] = trv.seen[i]
  BY <1>5, <1>6, <1>7
<1> HIDE DEF n
<1>9. TravType'
  BY <1>4, <1>5, <1>6, <1>7 DEF TravType
<1>10. \A i \in 1..n : /\ AtOf(trv.seen[i]) \in Int /\ AtOf(trv.seen[i]) < At(p, s)
  <2> SUFFICES ASSUME NEW i \in 1..n
               PROVE  AtOf(trv.seen[i]) \in Int /\ AtOf(trv.seen[i]) < At(p, s)
    OBVIOUS
  <2>1. trv.seen[i] \in Visited
    BY <1>6, <1>8
  <2>2. AtOf(trv.seen[i]) \in Int
    BY <2>1, PositionOrder DEF Visited, AtOf
  <2>3. AtOf(trv.seen[i]) <= trv.at
    BY <1>8 DEF TInv, Sorted
  <2> QED
    BY <1>2, <1>4, <1>6, <2>2, <2>3
<1>11. Sorted'
  <2>1. \A i, j \in 1..(n + 1) : i < j => AtOf(trv'.seen[i]) < AtOf(trv'.seen[j])
    <3> SUFFICES ASSUME NEW i \in 1..(n + 1), NEW j \in 1..(n + 1), i < j
                 PROVE  AtOf(trv'.seen[i]) < AtOf(trv'.seen[j])
      OBVIOUS
    <3>1. i \in 1..n
      BY <1>8
    <3>2. CASE j \in 1..n
      BY <1>8, <3>1, <3>2 DEF TInv, Sorted
    <3>3. CASE j = n + 1
      BY <1>6, <1>8, <1>10, <3>1, <3>3
    <3> QED
      BY <1>8, <3>2, <3>3
  <2>2. \A i \in 1..(n + 1) : AtOf(trv'.seen[i]) <= trv'.at
    <3> SUFFICES ASSUME NEW i \in 1..(n + 1)
                 PROVE  AtOf(trv'.seen[i]) <= At(p, s)
      BY <1>7
    <3>1. CASE i \in 1..n
      BY <1>4, <1>8, <1>10, <3>1
    <3>2. CASE i = n + 1
      BY <1>4, <1>6, <1>8, <3>2
    <3> QED
      BY <1>8, <3>1, <3>2
  <2> QED
    BY <1>8, <2>1, <2>2 DEF Sorted, AtOf, At, NumSlots, Rank
<1>12. Kept'
  BY <1>3, <1>7 DEF TInv, Kept
<1>13. ASSUME NEW x \in trv.keep, At(Path(x[1]), x[2]) <= At(p, s)
       PROVE  Seen(x[1], x[2])'
  <2>0. x[1] \in Id /\ x[2] \in Slot /\ Path(x[1]) \in Paths
    BY PathIsPath DEF TInv, Kept
  <2>1. CASE At(Path(x[1]), x[2]) <= trv.at
    <3>1. Seen(x[1], x[2])
      BY <1>3, <2>1 DEF TInv, Complete
    <3>2. PICK i \in 1..n : trv.seen[i] = [path |-> Path(x[1]), slot |-> x[2], obj |-> store[x[1]][x[2]]]
      BY <1>8, <3>1 DEF Seen
    <3>3. i \in DOMAIN trv'.seen /\ trv'.seen[i] = trv.seen[i]
      BY <1>8
    <3> QED
      BY <1>3, <3>2, <3>3 DEF Seen
  <2>2. CASE ~(At(Path(x[1]), x[2]) <= trv.at)
    <3>1. <<Path(x[1]), x[2]>> \in Ahead
      BY <2>2, KeptIsAhead
    <3>2. At(p, s) <= At(Path(x[1]), x[2])
      BY <1>1, <3>1
    <3>3. At(Path(x[1]), x[2]) \in Int
      BY <2>0, PositionOrder
    <3>4. At(p, s) = At(Path(x[1]), x[2])
      BY <1>4, <1>13, <3>2, <3>3
    <3>5. p = Path(x[1]) /\ s = x[2]
      BY <1>2, <2>0, <3>4, PositionOrder
    <3>6. leaf[p][s] = store[x[1]][x[2]]
      BY <2>0, <3>5 DEF IInv, LeafHolds
    <3>7. trv'.seen[n + 1] = [path |-> Path(x[1]), slot |-> x[2], obj |-> store'[x[1]][x[2]]]
      BY <1>3, <1>8, <3>5, <3>6 DEF v
    <3>8. n + 1 \in DOMAIN trv'.seen
      BY <1>8
    <3> QED
      BY <3>7, <3>8 DEF Seen
  <2> QED
    BY <2>1, <2>2
<1>14. Complete'
  <2>1. CASE e = 0
    <3>1. trv'.on = TRUE /\ trv'.ret = 0
      BY <1>7, <2>1
    <3>2. \A x \in trv'.keep : At(Path(x[1]), x[2]) <= trv'.at => Seen(x[1], x[2])'
      BY <1>7, <1>13
    <3> HIDE DEF n, v
    <3> QED
      BY ONLY <3>1, <3>2 DEF Complete, At, NumSlots, Rank
  <2>2. CASE e = -1
    <3>1. ~(e = 0)
      BY <2>2
    <3>2. trv'.on = (e = 0) /\ trv'.ret = e
      BY <1>7
    <3>3. (e = 0) = FALSE
      BY <3>1
    <3>4. trv'.on = FALSE /\ trv'.ret # 0
      BY ONLY <3>1, <3>2, <3>3, Zenon
    <3> QED
      BY ONLY <3>4 DEF Complete
  <2> QED
    BY <2>1, <2>2
<1> QED
  BY <1>9, <1>11, <1>12, <1>14 DEF TInv

\* The end of the recursion: nothing is ahead.
LEMMA TravEnd ==
  ASSUME IInv, TInv, EndTraverse
  PROVE  TInv'
<1>1. /\ trv' = [trv EXCEPT !.on = FALSE] /\ store' = store
      /\ trv.on = TRUE /\ Ahead = {}
  BY DEF EndTraverse, TInv, Complete
<1>2. /\ trv'.seen = trv.seen /\ trv'.at = trv.at /\ trv'.slot = trv.slot /\ trv'.on = FALSE /\ trv'.keep = trv.keep
      /\ trv' = [on |-> trv'.on, slot |-> trv'.slot, at |-> trv'.at, from |-> trv'.from, seen |-> trv'.seen,
                 keep |-> trv'.keep, ret |-> trv'.ret]
  BY <1>1 DEF TInv, TravType
<1>3. \A x \in trv.keep : Seen(x[1], x[2])
  BY <1>1, KeptIsAhead DEF TInv, Complete
<1>4. TravType' /\ Kept'
  BY <1>1, <1>2 DEF TInv, TravType, Kept
<1>5. Sorted'
  <2>1. trv'.seen = trv.seen /\ trv'.at = trv.at
    BY <1>2
  <2>2. Sorted
    BY DEF TInv
  <2> QED
    BY ONLY <2>1, <2>2 DEF Sorted
<1>6. Complete'
  BY <1>1, <1>2, <1>3 DEF Complete, Seen
<1> QED
  BY <1>4, <1>5, <1>6 DEF TInv

\* Every step of the traversal, of its handlers and of others keeps TInv.
THEOREM TraversalInvariant == Spec => [](IInv /\ TInv)
<1>1. Init => IInv /\ TInv
  BY InitInv, TravInit
<1>2. IInv /\ TInv /\ [Next]_vars => TInv'
  <2> SUFFICES ASSUME IInv, TInv, [Next]_vars
               PROVE  TInv'
    OBVIOUS
  <2>1. CASE \E h \in Id, s \in Slot, o \in Obj, keep \in BOOLEAN : Put(h, s, o, keep)
    BY <2>1, TravPut
  <2>2. CASE \E h \in Id, s \in Slot : RemObject(h, s)
    BY <2>2, TravRem
  <2>3. CASE FreeTree
    <3>1. trv' = Idle
      BY <2>3 DEF FreeTree
    <3> QED
      BY <3>1 DEF Idle, TInv, TravType, Sorted, Kept, Complete
  <2>4. CASE \E s \in Slot \cup {-1} : StartTraverse(s)
    BY <2>4, TravStart
  <2>5. CASE \E e \in {0, -1} : Visit(e)
    BY <2>5, TravVisit
  <2>6. CASE EndTraverse
    BY <2>6, TravEnd
  <2>7. CASE UNCHANGED vars
    <3>1. trv' = trv /\ store' = store
      BY <2>7 DEF vars
    <3>2. TravType' /\ Kept' /\ Complete'
      BY <3>1 DEF TInv, TravType, Kept, Complete, Seen, AtOf, At, NumSlots, Rank
    <3>3. Sorted
      BY DEF TInv
    <3>4. Sorted'
      BY ONLY <3>1, <3>3 DEF Sorted
    <3> QED
      BY <3>2, <3>4 DEF TInv
  <2> QED
    BY <2>1, <2>2, <2>3, <2>4, <2>5, <2>6, <2>7 DEF Next
<1> QED
  BY <1>1, <1>2, TreeInvariant, PTL DEF Spec

\* traverse() goes through the leaves in the order of the unsigned ids, calls the
\* handler at most once for each slot, and, if it ends without an error, has
\* visited all objects that were there all the time, whatever the handlers did.
THEOREM TraverseExactHolds == Spec => []TraverseExact
<1>1. IInv /\ TInv => TraverseExact
  <2> SUFFICES ASSUME IInv, TInv
               PROVE  TraverseExact
    OBVIOUS
  <2>1. \A i, j \in DOMAIN trv.seen : i < j =>
          \/ Rank(trv.seen[i].path) < Rank(trv.seen[j].path)
          \/ trv.seen[i].path = trv.seen[j].path /\ trv.seen[i].slot < trv.seen[j].slot
    <3> SUFFICES ASSUME NEW i \in DOMAIN trv.seen, NEW j \in DOMAIN trv.seen, i < j
                 PROVE  \/ Rank(trv.seen[i].path) < Rank(trv.seen[j].path)
                        \/ trv.seen[i].path = trv.seen[j].path /\ trv.seen[i].slot < trv.seen[j].slot
      OBVIOUS
    <3>1. AtOf(trv.seen[i]) < AtOf(trv.seen[j])
      BY DEF TInv, Sorted
    <3>2. trv.seen[i] \in Visited /\ trv.seen[j] \in Visited
      BY DEF TInv, TravType
    <3>3. /\ trv.seen[i].path \in Paths /\ trv.seen[i].slot \in Slot
          /\ trv.seen[j].path \in Paths /\ trv.seen[j].slot \in Slot
      BY <3>2 DEF Visited
    <3> QED
      BY <3>1, <3>3, PositionOrder DEF AtOf
  <2>2. ASSUME ~trv.on, trv.ret = 0, trv.seen # <<>>, NEW x \in trv.keep
        PROVE  \E i \in DOMAIN trv.seen :
                 /\ Rank(trv.seen[i].path) = Unsigned(x[1]) /\ trv.seen[i].slot = x[2]
                 /\ trv.seen[i].obj = store[x[1]][x[2]]
    <3>1. x[1] \in Id /\ Seen(x[1], x[2])
      BY <2>2 DEF TInv, Kept, Complete
    <3> QED
      BY <3>1, RankOfId DEF Seen
  <2> QED
    BY <2>1, <2>2 DEF TraverseExact
<1> QED
  BY <1>1, TraversalInvariant, PTL
================================================================================
