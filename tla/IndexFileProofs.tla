--------------------------- MODULE IndexFileProofs ----------------------------
(***************************************************************************)
(* The index file, for any data, rules, number of runs, failures and       *)
(* crashes.                                                                *)
(*                                                                         *)
(* An index is tainted as soon as a write(2) fails, two runs write it at   *)
(* once or a run writes what does not belong to the data file.  All others *)
(* have one author at most, and hold exactly what it has written so far    *)
(* (Alone).  That makes a clean header mean a whole index (Whole), and a   *)
(* whole index is read to its end.  LoadedExact is about numbers of roles  *)
(* that another run has given, so it depends on the order in which the     *)
(* roles of the rules and of the data appear (RolesInOrder).               *)
(***************************************************************************)
EXTENDS IndexFile, FiniteSetTheorems, SequenceTheorems, WellFoundedInduction, TLAPS

(***************************************************************************)
(* Facts about natural numbers                                             *)
(***************************************************************************)
\* A set of numbers that is not empty has a least one.
LEMMA LeastNatural ==
  ASSUME NEW T \in SUBSET Nat, T # {}
  PROVE  \E x \in T : \A y \in T : x <= y
<1> DEFINE R == OpToRel(<, Nat)
<1>1. R = {ss \in Nat \X Nat : ss[1] < ss[2]}
  BY DEF OpToRel
<1>2. IsWellFoundedOn(R, Nat)
  BY NatLessThanWellFounded
<1> HIDE DEF R
<1>3. PICK x \in T : \A y \in T : ~(<<y, x>> \in R)
  BY <1>2, WFMin
<1>4. \A y \in T : x <= y
  <2> SUFFICES ASSUME NEW y \in T, y < x
               PROVE  FALSE
    OBVIOUS
  <2>1. <<y, x>> \in R
    BY <1>1
  <2> QED
    BY <2>1, <1>3
<1> QED
  BY <1>4

\* Induction: a set with 0 and with the successor of all its numbers has them all.
LEMMA Induction ==
  ASSUME NEW S, 0 \in S, \A n \in Nat : n \in S => n + 1 \in S
  PROVE  Nat \subseteq S
<1> DEFINE T == Nat \ S
<1> SUFFICES ASSUME T # {}
             PROVE  FALSE
  OBVIOUS
<1>1. T \in SUBSET Nat
  OBVIOUS
<1> HIDE DEF T
<1>2. PICK x \in T : \A y \in T : x <= y
  BY <1>1, LeastNatural
<1>3. x \in Nat /\ x # 0
  BY DEF T
<1>4. x - 1 \in Nat /\ ~(x <= x - 1) /\ (x - 1) + 1 = x
  BY <1>3
<1>5. x - 1 \in S
  BY <1>2, <1>4 DEF T
<1> QED
  BY <1>3, <1>4, <1>5 DEF T

\* Induction up to a bound: the library states it for an operator, which no prover
\* here can instantiate; a set takes its place.
LEMMA InductionTo ==
  ASSUME NEW m \in Nat, NEW S, 0 \in S, \A n \in 1..m : n - 1 \in S => n \in S
  PROVE  0..m \subseteq S
<1> DEFINE T == 0..m \ S
<1> SUFFICES ASSUME T # {}
             PROVE  FALSE
  OBVIOUS
<1>1. T \in SUBSET Nat
  OBVIOUS
<1> HIDE DEF T
<1>2. PICK x \in T : \A y \in T : x <= y
  BY <1>1, LeastNatural
<1>3. x \in 1..m /\ x - 1 \in 0..m /\ ~(x <= x - 1) /\ x \notin S
  BY DEF T
<1>4. x - 1 \in S
  BY <1>2, <1>3 DEF T
<1> QED
  BY <1>3, <1>4

(***************************************************************************)
(* Every index that is not tainted has one author at most, and its cells   *)
(* are the first pos - 1 ones of what that run is to write (Layout).       *)
(***************************************************************************)
DirtyHdr == Hdr(TRUE)
CleanHdr == Hdr(FALSE)

\* The objects of p's tree that it has gone by, and that it has stored them
Past(p) == IF pc[p] = "obj" THEN {Order[j] : j \in 1 .. size[p] - 1} \cap DOMAIN tree[p]
           ELSE DOMAIN tree[p]
Stored(p) ==
  LET first == Len(roles[p]) + 5 IN
  /\ cnt[p] = Cardinality(Past(p))
  /\ \A i \in first .. pos[p] - 1 : \E id \in Past(p) : file.cells[i] = tree[p][id]
  /\ \A id \in Past(p) : \E i \in first .. pos[p] - 1 : file.cells[i] = tree[p][id]

Place(p) ==
  LET nr == Len(roles[p]) IN
  /\ pc[p] = "header" => pos[p] = 1
  /\ pc[p] = "rolehdr" => pos[p] = 2
  /\ pc[p] = "role" => pos[p] = cnt[p] + 3 /\ cnt[p] <= nr
  /\ pc[p] = "dsts" => pos[p] = nr + 3
  /\ pc[p] = "objhdr" => pos[p] = nr + 4
  /\ pc[p] = "obj" => pos[p] = nr + 5 + cnt[p] /\ size[p] \in 1 .. Len(Order) + 1
  /\ pc[p] = "clean" => pos[p] = nr + 5 + cnt[p]

Layout(p) ==
  LET nr == Len(roles[p])
      c  == file.cells IN
  /\ Len(c) = pos[p] - 1
  /\ pc[p] # "header" => c[1] = DirtyHdr
  /\ pc[p] \in {"dsts", "objhdr", "obj", "clean"} => c[2] = Chunk("ROLE", nr)
  /\ pc[p] \notin {"header", "rolehdr"} =>
       \A i \in 3 .. nr + 2 : i < pos[p] => c[i] = Role(roles[p][i - 2])
  /\ pc[p] \in {"objhdr", "obj", "clean"} => c[nr + 3] = Chunk("DSTS", 0)
  /\ pc[p] \in {"obj", "clean"} => Stored(p)
  /\ pc[p] = "clean" => c[nr + 4] = Chunk("OBJS", cnt[p])

Alone ==
  ~file.tainted => \A p \in Writers : Writers = {p} /\ file.exists = TRUE /\ spoilt[p] = FALSE /\ Place(p) /\ Layout(p)

\* Where a run starts to write, and what it counts objects from
Ready == \A p \in Runs : (pc[p] = "create" => pos[p] = 1) /\ (pc[p] = "obj" => size[p] >= 1)

\* A run that is past the parsing has every object as it is in the data.
Parsed == \A p \in Runs : pc[p] \in writing \cup {"create", "done"} => IsData(tree[p], ver[p], roles[p])

IInv == TypeOK /\ Ready /\ Parsed /\ Alone

(***************************************************************************)
(* A usable index holds one version of the data, and a run that is not     *)
(* spoilt reads it from its start to its end.                              *)
(***************************************************************************)
\* No rule makes objects of its own, as the action "grid" does.
NothingMade == \A p \in Runs : Made[p] = {}

\* The roles in the index c, and how many they are
NRoles(c) == c[2].len
Table(c)  == [j \in 1 .. NRoles(c) |-> c[j + 2].name]

Whole(c, v) ==
  LET nr == NRoles(c) IN
  /\ Len(c) >= 4 /\ c[1] = CleanHdr
  /\ nr \in 0 .. Len(c) - 4 /\ c[2] = Chunk("ROLE", nr)
  /\ \A i \in 3 .. nr + 2 : c[i].k = "role" /\ c[i].name # NoRole
  /\ c[nr + 3] = Chunk("DSTS", 0)
  /\ c[nr + 4] = Chunk("OBJS", Len(c) - nr - 4)
  /\ \A i \in nr + 5 .. Len(c) :
       /\ c[i].k = "obj" /\ c[i].id \in DOMAIN Data[v]
       /\ Meant(c[i], v, Table(c), c[i].id) /\ c[i].role \in 0 .. nr
  /\ \A id \in DOMAIN Data[v] : \E i \in nr + 5 .. Len(c) : c[i].id = id

\* What a run starts with, and what it has to write
Empty == \A p \in Runs :
  /\ pc[p] = "open" \/ (pc[p] = "parse" /\ ~spoilt[p]) => DOMAIN tree[p] = {}
  /\ pc[p] \in {"start", "open"} => spoilt[p] = FALSE
Exact == \A p \in Runs : pc[p] \in writing \cup {"create", "done"} /\ ~spoilt[p] =>
  /\ DOMAIN tree[p] = DOMAIN Data[ver[p]]
  /\ \A id \in DOMAIN tree[p] : tree[p][id].role \in 0 .. Len(roles[p])

Usable == file.exists /\ ~file.tainted /\ file.cells # <<>> /\ file.cells[1] = CleanHdr
Clean ==
  Usable => /\ Writers = {}
            /\ \E v \in DOMAIN Data : Whole(file.cells, v) /\ (v = data \/ file.older)

\* What is in the tree when all objects are read
Got(p) ==
  /\ DOMAIN tree[p] = DOMAIN Data[ver[p]]
  /\ \A id \in DOMAIN tree[p] :
       Meant(tree[p][id], ver[p], Table(file.cells), id) /\ tree[p][id].role \in 0 .. NRoles(file.cells)
Reading == \A p \in Runs : pc[p] = "read" /\ ~spoilt[p] =>
  LET c == file.cells IN
  /\ file.exists = TRUE /\ Writers = {} /\ ~file.tainted
  /\ Whole(c, ver[p]) /\ size[p] = Len(c)
  /\ \/ pos[p] \in {2, NRoles(c) + 3, NRoles(c) + 4} /\ DOMAIN tree[p] = {}
     \/ /\ pos[p] = Len(c) + 1 /\ DOMAIN tree[p] = DOMAIN Data[ver[p]]
        /\ p \notin Unmapped => Got(p)

WInv == Empty /\ Exact /\ Clean /\ Reading

(***************************************************************************)
(* Runs with different rules agree on the numbers of roles if all lists of *)
(* roles are beginnings of one.                                            *)
(***************************************************************************)
Begins(t, all) == Len(t) <= Len(all) /\ \A i \in 1 .. Len(t) : t[i] = all[i]
RolesInOrder(all) ==
  /\ all \in Seq(Names \ {NoRole}) /\ \A i, j \in 1 .. Len(all) : all[i] = all[j] => i = j
  /\ \A p \in Runs : Begins(RuleRoles[p], all)
  /\ \A v \in DOMAIN Data : Begins(DataRoles[v], all)

Tables(all)  == \A p \in Runs : ~spoilt[p] => Begins(roles[p], all)
Indexed(all) == Usable => Begins(Table(file.cells), all)
Reach == \A p \in Runs : pc[p] = "read" /\ ~spoilt[p] /\ pos[p] > 2 => NRoles(file.cells) <= Len(roles[p])

LInv(all) == Tables(all) /\ Indexed(all) /\ Reach /\ LoadedExact
(***************************************************************************)
(* Operators                                                               *)
(***************************************************************************)
\* The recursive function of AddRoles() exists.
Upto(t, rs) ==
  CHOOSE f : f = [n \in 0 .. Len(rs) |->
                    IF n = 0 THEN t
                    ELSE IF rs[n] \in Range1(f[n - 1]) \cup {NoRole} THEN f[n - 1]
                    ELSE Append(f[n - 1], rs[n])]

LEMMA UptoIs ==
  ASSUME NEW t, NEW rs, Len(rs) \in Nat
  PROVE  Upto(t, rs) = [n \in 0 .. Len(rs) |->
                          IF n = 0 THEN t
                          ELSE IF rs[n] \in Range1(Upto(t, rs)[n - 1]) \cup {NoRole} THEN Upto(t, rs)[n - 1]
                          ELSE Append(Upto(t, rs)[n - 1], rs[n])]
<1> DEFINE H(n, s) == IF rs[n] \in Range1(s) \cup {NoRole} THEN s ELSE Append(s, rs[n])
           Exists(m) == \E f : f = [n \in 0 .. m |-> IF n = 0 THEN t ELSE H(n, f[n - 1])]
           S == {m \in Nat : Exists(m)}
<1>0. Upto(t, rs) = CHOOSE f : f = [n \in 0 .. Len(rs) |-> IF n = 0 THEN t ELSE H(n, f[n - 1])]
  BY DEF Upto
<1> SUFFICES Upto(t, rs) = [n \in 0 .. Len(rs) |-> IF n = 0 THEN t ELSE H(n, Upto(t, rs)[n - 1])]
  OBVIOUS
<1> HIDE DEF H
<1>1. 0 \in S
  <2> DEFINE f == [n \in 0 .. 0 |-> t]
  <2>1. f = [n \in 0 .. 0 |-> IF n = 0 THEN t ELSE H(n, f[n - 1])]
    OBVIOUS
  <2> HIDE DEF f
  <2>2. Exists(0)
    BY <2>1
  <2> QED
    BY <2>2
<1>2. ASSUME NEW m \in Nat, m \in S
      PROVE  m + 1 \in S
  <2>1. PICK f : f = [n \in 0 .. m |-> IF n = 0 THEN t ELSE H(n, f[n - 1])]
    BY <1>2
  <2> DEFINE g == [n \in 0 .. (m + 1) |-> IF n = m + 1 THEN H(m + 1, f[m]) ELSE f[n]]
             G(n) == IF n = 0 THEN t ELSE H(n, g[n - 1])
  <2>2. ASSUME NEW n \in 0 .. (m + 1)
        PROVE  g[n] = G(n)
    <3>1. CASE n = m + 1
      <4>1. g[n - 1] = f[m] /\ n # 0
        BY <3>1
      <4> QED
        BY <3>1, <4>1
    <3>2. CASE n \in 0 .. m
      <4>1. g[n] = f[n]
        BY <3>2
      <4>2. n # 0 => n - 1 \in 0 .. m /\ g[n - 1] = f[n - 1]
        BY <3>2
      <4>3. f[n] = IF n = 0 THEN t ELSE H(n, f[n - 1])
        BY <2>1, <3>2
      <4> HIDE DEF g
      <4> QED
        BY <4>1, <4>2, <4>3
    <3> QED
      BY <3>1, <3>2
  <2>3. g = [n \in 0 .. (m + 1) |-> g[n]]
    OBVIOUS
  <2> HIDE DEF g
  <2>4. g = [n \in 0 .. (m + 1) |-> IF n = 0 THEN t ELSE H(n, g[n - 1])]
    BY <2>2, <2>3
  <2>5. Exists(m + 1)
    BY <2>4
  <2> QED
    BY <2>5
<1>3. Exists(Len(rs))
  <2> HIDE DEF S
  <2>1. Len(rs) \in S
    BY <1>1, <1>2, Induction
  <2> QED
    BY <2>1 DEF S
<1> QED
  BY <1>0, <1>3

\* ... and is the table after n roles.
LEMMA UptoStep ==
  ASSUME NEW t, NEW rs, Len(rs) \in Nat
  PROVE  /\ Upto(t, rs)[0] = t
         /\ \A n \in 1 .. Len(rs) :
              Upto(t, rs)[n] = IF rs[n] \in Range1(Upto(t, rs)[n - 1]) \cup {NoRole} THEN Upto(t, rs)[n - 1]
                               ELSE Append(Upto(t, rs)[n - 1], rs[n])
<1> DEFINE u == Upto(t, rs)
           H(n) == IF rs[n] \in Range1(u[n - 1]) \cup {NoRole} THEN u[n - 1] ELSE Append(u[n - 1], rs[n])
<1>1. u = [n \in 0 .. Len(rs) |-> IF n = 0 THEN t ELSE H(n)]
  BY UptoIs
<1> HIDE DEF u, H
<1>2. u[0] = t
  BY <1>1
<1>3. ASSUME NEW n \in 1 .. Len(rs)
      PROVE  u[n] = H(n)
  <2>1. n \in 0 .. Len(rs) /\ n # 0
    OBVIOUS
  <2> QED
    BY <1>1, <2>1
<1> QED
  BY <1>2, <1>3 DEF u, H

\* A role is appended to the table.
LEMMA RangeAppend ==
  ASSUME NEW S, NEW s \in Seq(S), NEW x \in S
  PROVE  /\ Append(s, x) \in Seq(S)
         /\ Range1(Append(s, x)) = Range1(s) \cup {x}
<1>1. /\ Append(s, x) \in Seq(S) /\ Len(Append(s, x)) = Len(s) + 1 /\ Len(s) \in Nat
      /\ Append(s, x)[Len(s) + 1] = x /\ \A i \in 1 .. Len(s) : Append(s, x)[i] = s[i]
  OBVIOUS
<1> QED
  BY <1>1 DEF Range1

\* What strrole() gets is in the table in the end, and a name.
LEMMA AddRolesType ==
  ASSUME NEW S, NoRole \notin S, NEW t \in Seq(S), NEW rs, Len(rs) \in Nat,
         \A n \in 1 .. Len(rs) : rs[n] \in S \cup {NoRole}
  PROVE  /\ AddRoles(t, rs) \in Seq(S)
         /\ \A n \in 1 .. Len(rs) : rs[n] \in Range1(AddRoles(t, rs)) \cup {NoRole}
<1> DEFINE u == Upto(t, rs)
           Ok(n) == u[n] \in Seq(S) /\ \A i \in 1 .. n : rs[i] \in Range1(u[n]) \cup {NoRole}
           T == {n \in 0 .. Len(rs) : Ok(n)}
<1>1. /\ u[0] = t
      /\ \A n \in 1 .. Len(rs) : u[n] = IF rs[n] \in Range1(u[n - 1]) \cup {NoRole} THEN u[n - 1]
                                         ELSE Append(u[n - 1], rs[n])
  BY UptoStep
<1> HIDE DEF u
<1>2. 0 \in T
  BY <1>1
<1>3. ASSUME NEW n \in 1 .. Len(rs), n - 1 \in T
      PROVE  n \in T
  <2>1. u[n - 1] \in Seq(S) /\ \A i \in 1 .. n - 1 : rs[i] \in Range1(u[n - 1]) \cup {NoRole}
    BY <1>3
  <2>2. CASE rs[n] \in Range1(u[n - 1]) \cup {NoRole}
    <3>1. u[n] = u[n - 1]
      BY <2>2, <1>1
    <3>2. \A i \in 1 .. n : i \in 1 .. n - 1 \/ i = n
      OBVIOUS
    <3> QED
      BY <2>1, <2>2, <3>1, <3>2
  <2>3. CASE rs[n] \notin Range1(u[n - 1]) \cup {NoRole}
    <3>1. u[n] = Append(u[n - 1], rs[n]) /\ rs[n] \in S
      BY <2>3, <1>1
    <3>2. u[n] \in Seq(S) /\ Range1(u[n]) = Range1(u[n - 1]) \cup {rs[n]}
      BY <2>1, <3>1, RangeAppend
    <3>3. \A i \in 1 .. n : i \in 1 .. n - 1 \/ i = n
      OBVIOUS
    <3> QED
      BY <2>1, <3>2, <3>3
  <2> QED
    BY <2>2, <2>3
<1> HIDE DEF T
<1>4. Len(rs) \in T
  <2>1. 0 .. Len(rs) \subseteq T
    BY <1>2, <1>3, InductionTo
  <2> QED
    BY <2>1
<1>5. AddRoles(t, rs) = u[Len(rs)]
  BY DEF AddRoles, Upto, u
<1> QED
  BY <1>4, <1>5 DEF T

\* All tables that are made from beginnings of one list are beginnings of it.
LEMMA AddRolesBegins ==
  ASSUME NEW S, NoRole \notin S, NEW all \in Seq(S), \A i, j \in 1 .. Len(all) : all[i] = all[j] => i = j,
         NEW t \in Seq(S), Begins(t, all), NEW rs, Len(rs) \in Nat, Begins(rs, all)
  PROVE  /\ Begins(AddRoles(t, rs), all)
         /\ Len(t) <= Len(AddRoles(t, rs)) /\ Len(rs) <= Len(AddRoles(t, rs))
<1> DEFINE u == Upto(t, rs)
           Ok(n) == u[n] \in Seq(S) /\ Begins(u[n], all) /\ Len(t) <= Len(u[n]) /\ n <= Len(u[n])
           T == {n \in 0 .. Len(rs) : Ok(n)}
<1>1. /\ u[0] = t
      /\ \A n \in 1 .. Len(rs) : u[n] = IF rs[n] \in Range1(u[n - 1]) \cup {NoRole} THEN u[n - 1]
                                         ELSE Append(u[n - 1], rs[n])
  BY UptoStep
<1> HIDE DEF u
<1>2. 0 \in T
  BY <1>1
<1>3. ASSUME NEW n \in 1 .. Len(rs), n - 1 \in T
      PROVE  n \in T
  <2> DEFINE v == u[n - 1]
  <2>1. v \in Seq(S) /\ Len(v) \in Nat /\ Len(v) <= Len(all) /\ Len(t) <= Len(v) /\ n - 1 <= Len(v)
        /\ \A i \in 1 .. Len(v) : v[i] = all[i]
    <3>1. n - 1 \in T
      BY ONLY <1>3
    <3>2. Ok(n - 1)
      BY ONLY <3>1 DEF T
    <3> QED
      BY ONLY <3>2, n \in 1 .. Len(rs) DEF Begins
  <2>2. rs[n] = all[n] /\ n \in 1 .. Len(all) /\ all[n] \in S /\ rs[n] # NoRole /\ Len(all) \in Nat
    BY DEF Begins
  <2>3. rs[n] \in Range1(v) \cup {NoRole} <=> n <= Len(v)
    <3>1. ASSUME n <= Len(v)
          PROVE  rs[n] \in Range1(v)
      BY <2>1, <2>2, <3>1 DEF Range1
    <3>2. ASSUME rs[n] \in Range1(v)
          PROVE  n <= Len(v)
      <4>1. PICK i \in 1 .. Len(v) : rs[n] = v[i]
        BY <3>2 DEF Range1
      <4>2. i \in 1 .. Len(all) /\ all[i] = all[n]
        BY <2>1, <2>2, <4>1
      <4>3. i = n
        BY <2>2, <4>2
      <4> QED
        BY <4>1, <4>3, <2>1
    <3> QED
      BY <3>1, <3>2, <2>2
  <2>4. CASE n <= Len(v)
    <3>1. u[n] = v
      BY <1>1, <2>3, <2>4
    <3> HIDE DEF v
    <3>2. Ok(n)
      BY <2>1, <2>4, <3>1 DEF Begins
    <3> QED
      BY <3>2
  <2>5. CASE ~(n <= Len(v))
    <3>1. u[n] = Append(v, rs[n])
      BY <1>1, <2>3, <2>5
    <3> HIDE DEF v
    <3>2. Len(v) = n - 1
      BY <2>1, <2>5
    <3>3. /\ Append(v, rs[n]) \in Seq(S) /\ Len(Append(v, rs[n])) = n /\ Append(v, rs[n])[n] = all[n]
          /\ \A i \in 1 .. n - 1 : Append(v, rs[n])[i] = v[i]
      BY <2>1, <2>2, <3>2
    <3>4. \A i \in 1 .. n : i = n \/ i \in 1 .. n - 1
      OBVIOUS
    <3>5. \A i \in 1 .. n : u[n][i] = all[i]
      BY <2>1, <3>1, <3>2, <3>3, <3>4
    <3>6. Ok(n)
      BY <2>1, <2>2, <3>1, <3>2, <3>3, <3>5 DEF Begins
    <3> QED
      BY <3>6
  <2> QED
    BY <2>4, <2>5
<1> HIDE DEF T
<1>4. Len(rs) \in T
  <2>1. 0 .. Len(rs) \subseteq T
    BY <1>2, <1>3, InductionTo
  <2> QED
    BY <2>1
<1>5. AddRoles(t, rs) = u[Len(rs)]
  BY DEF AddRoles, Upto, u
<1> QED
  BY <1>4, <1>5 DEF T

\* A role has a number in the table, and the number gives the role back.
LEMMA RoleNumber ==
  ASSUME NEW S, NoRole \notin S, NEW t \in Seq(S), NEW r \in Range1(t) \cup {NoRole}
  PROVE  RoleNo(t, r) \in 0 .. Len(t) /\ RoleStr(t, RoleNo(t, r)) = r
<1>1. CASE r = NoRole
  BY <1>1 DEF RoleNo, RoleStr
<1>2. CASE r # NoRole
  <2>1. \E i \in 1 .. Len(t) : t[i] = r
    BY <1>2 DEF Range1
  <2>2. RoleNo(t, r) \in 1 .. Len(t) /\ t[RoleNo(t, r)] = r
    BY <1>2, <2>1 DEF RoleNo
  <2> QED
    BY <2>2 DEF RoleStr
<1> QED
  BY <1>1, <1>2

\* A longer table gives the same for the numbers of a shorter one.
LEMMA RoleLonger ==
  ASSUME NEW S, NoRole \notin S, NEW all \in Seq(S), NEW t, Len(t) \in Nat, NEW u, Len(u) \in Nat, 
         Begins(t, all), Begins(u, all), Len(t) <= Len(u), NEW i \in 0 .. Len(t)
  PROVE  RoleStr(u, i) = RoleStr(t, i)
BY DEF RoleStr, Begins

\* Prefix() ends before the first number that is not in good.
LEMMA PrefixIs ==
  ASSUME NEW s, Len(s) \in Nat, NEW good
  PROVE  \E n \in 0 .. Len(s) : /\ Prefix(s, good) = SubSeq(s, 1, n)
                                /\ 1 .. n \subseteq good /\ (n < Len(s) => n + 1 \notin good)
<1> DEFINE Is(n) == 1 .. n \subseteq good /\ (n < Len(s) => n + 1 \notin good)
<1>1. \E n \in 0 .. Len(s) : Is(n)
  <2>1. CASE 1 .. Len(s) \subseteq good
    BY <2>1
  <2>2. CASE ~(1 .. Len(s) \subseteq good)
    <3> DEFINE T == {i \in 1 .. Len(s) : i \notin good}
    <3>1. T \in SUBSET Nat /\ T # {}
      BY <2>2
    <3>2. PICK x \in T : \A y \in T : x <= y
      <4> HIDE DEF T
      <4> QED
        BY <3>1, LeastNatural
    <3>3. x - 1 \in 0 .. Len(s) /\ (x - 1) + 1 = x /\ x \notin good
      BY <3>2
    <3>4. 1 .. (x - 1) \subseteq good
      <4> SUFFICES ASSUME NEW y \in 1 .. (x - 1), y \notin good
                   PROVE  FALSE
        OBVIOUS
      <4>1. y \in T /\ y < x
        BY <3>3
      <4> QED
        BY <3>2, <4>1
    <3> QED
      BY <3>3, <3>4
  <2> QED
    BY <2>1, <2>2
<1>2. Prefix(s, good) = SubSeq(s, 1, CHOOSE n \in 0 .. Len(s) : Is(n))
  BY DEF Prefix
<1> QED
  BY <1>1, <1>2

\* ... so it is a beginning of s, and s itself if all are good.
LEMMA PrefixType ==
  ASSUME NEW S, NEW s \in Seq(S), NEW good
  PROVE  /\ Prefix(s, good) \in Seq(S) /\ Len(Prefix(s, good)) <= Len(s)
         /\ \A i \in 1 .. Len(Prefix(s, good)) : i \in good /\ Prefix(s, good)[i] = s[i]
         /\ 1 .. Len(s) \subseteq good => Len(Prefix(s, good)) = Len(s)
<1>0. Len(s) \in Nat
  OBVIOUS
<1>1. PICK n \in 0 .. Len(s) : /\ Prefix(s, good) = SubSeq(s, 1, n)
                               /\ 1 .. n \subseteq good /\ (n < Len(s) => n + 1 \notin good)
  BY <1>0, PrefixIs
<1>2. /\ SubSeq(s, 1, n) \in Seq(S) /\ Len(SubSeq(s, 1, n)) = n
      /\ \A i \in 1 .. n : SubSeq(s, 1, n)[i] = s[i]
  OBVIOUS
<1>3. 1 .. Len(s) \subseteq good => n = Len(s)
  <2>1. n < Len(s) => n + 1 \in 1 .. Len(s)
    BY <1>0
  <2> QED
    BY <1>0, <1>1, <2>1
<1> QED
  BY <1>1, <1>2, <1>3

\* The next object is there, and those gone by are not.
LEMMA NextFromIs ==
  ASSUME NEW p, NEW S \in SUBSET (1 .. Len(Order)), Len(Order) \in Nat
  PROVE  /\ NextFrom(p, S) \in S \cup {Len(Order) + 1}
         /\ NextFrom(p, S) <= Len(Order) => Order[NextFrom(p, S)] \in DOMAIN tree[p]
         /\ \A j \in S : j < NextFrom(p, S) => Order[j] \notin DOMAIN tree[p]
<1> DEFINE Is(i) == /\ i <= Len(Order) => Order[i] \in DOMAIN tree[p]
                    /\ \A j \in S : j < i => Order[j] \notin DOMAIN tree[p]
           T == {j \in S : Order[j] \in DOMAIN tree[p]}
<1>1. \E i \in S \cup {Len(Order) + 1} : Is(i)
  <2>1. CASE T = {}
    <3>1. Is(Len(Order) + 1)
      BY <2>1
    <3> QED
      BY <3>1
  <2>2. CASE T # {}
    <3>1. T \in SUBSET Nat
      OBVIOUS
    <3>2. PICK x \in T : \A y \in T : x <= y
      <4> HIDE DEF T
      <4> QED
        BY <2>2, <3>1, LeastNatural
    <3>3. ASSUME NEW j \in S, j < x
          PROVE  Order[j] \notin DOMAIN tree[p]
      BY <3>1, <3>2, <3>3
    <3>4. Is(x)
      BY <3>2, <3>3
    <3> QED
      BY <3>2, <3>4
  <2> QED
    BY <2>1, <2>2
<1>2. NextFrom(p, S) = CHOOSE i \in S \cup {Len(Order) + 1} : Is(i)
  BY DEF NextFrom
<1> QED
  BY <1>1, <1>2

(***************************************************************************)
(* Constants, cells and writes                                             *)
(***************************************************************************)
LEMMA Constants ==
  /\ Len(Order) \in Nat /\ \A i \in 1 .. Len(Order) : Order[i] \in Ids
  /\ \A i, j \in 1 .. Len(Order) : Order[i] = Order[j] => i = j
  /\ \A id \in Ids : \E i \in 1 .. Len(Order) : Order[i] = id
  /\ IsFiniteSet(Ids)
  /\ DOMAIN Data \subseteq Nat \ {0} /\ \A v \in DOMAIN Data : DOMAIN Data[v] \subseteq Ids
  /\ \A p \in Runs : Made[p] \subseteq Ids /\ \A v \in DOMAIN Data : Made[p] \cap DOMAIN Data[v] = {}
  /\ MaxFails \in Nat
<1>1. Order \in Seq(Ids) /\ Len(Order) \in Nat
  BY IndexAssumption
<1>2. \A i \in 1 .. Len(Order) : Order[i] \in Ids
  BY <1>1
<1>3. ASSUME NEW i \in 1 .. Len(Order), NEW j \in 1 .. Len(Order), Order[i] = Order[j]
      PROVE  i = j
  <2>1. ~(i < j) /\ ~(j < i)
    BY <1>3, IndexAssumption
  <2> QED
    BY <1>1, <2>1
<1>4. Ids = {Order[i] : i \in 1 .. Len(Order)}
  BY DEF Ids, Range1
<1>5. IsFiniteSet(Ids)
  <2> DEFINE f == [i \in 1 .. Len(Order) |-> Order[i]]
  <2>1. IsFiniteSet(1 .. Len(Order))
    BY <1>1, FS_Interval
  <2>2. f \in Surjection(1 .. Len(Order), Ids)
    BY <1>4 DEF Surjection
  <2> HIDE DEF f
  <2> QED
    BY <2>1, <2>2, FS_Surjection
<1> QED
  BY <1>1, <1>2, <1>3, <1>4, <1>5, IndexAssumption

\* What the assumptions say of the roles of rules and data.
LEMMA RolesAre ==
  /\ \A p \in Runs : RuleRoles[p] \in Seq(Names \ {NoRole})
  /\ \A v \in DOMAIN Data :
       /\ DataRoles[v] \in Seq(Names \ {NoRole})
       /\ \A id \in DOMAIN Data[v] : Data[v][id] \in Range1(DataRoles[v]) \cup {NoRole}
<1>1. ASSUME NEW s, NEW S, s \in Seq(Range1(s) \ {NoRole}), Range1(s) \subseteq S
      PROVE  s \in Seq(S \ {NoRole})
  BY <1>1
<1>2. ASSUME NEW p \in Runs
      PROVE  RuleRoles[p] \in Seq(Names \ {NoRole})
  <2>1. Range1(RuleRoles[p]) \subseteq Names
    BY DEF Names
  <2> QED
    BY <1>1, <2>1, RoleAssumption
<1>3. ASSUME NEW v \in DOMAIN Data
      PROVE  DataRoles[v] \in Seq(Names \ {NoRole})
  <2>1. Range1(DataRoles[v]) \subseteq (UNION {Range1(DataRoles[u]) : u \in DOMAIN Data})
    OBVIOUS
  <2>2. Range1(DataRoles[v]) \subseteq Names
    BY <2>1 DEF Names
  <2> QED
    BY <1>1, <2>2, RoleAssumption
<1> QED
  BY <1>2, <1>3, RoleAssumption

\* What is written is a cell.
LEMMA CellTypes ==
  /\ Zero \in Cells /\ Torn \in Cells /\ \A d \in BOOLEAN : Hdr(d) \in Cells
  /\ \A t \in {"ROLE", "DSTS", "OBJS"}, n \in Nat : Chunk(t, n) \in Cells
  /\ \A r \in Names : Role(r) \in Cells
  /\ Objs \subseteq Cells
<1>1. Zero \in [k : {"zero", "torn"}] /\ Torn \in [k : {"zero", "torn"}]
  BY DEF Zero, Torn
<1>2. \A d \in BOOLEAN : Hdr(d) \in [k : {"hdr"}, dirty : BOOLEAN]
  BY DEF Hdr
<1>3. \A t \in {"ROLE", "DSTS", "OBJS"}, n \in Nat :
        Chunk(t, n) \in [k : {"chunk"}, type : {"ROLE", "DSTS", "OBJS"}, len : Nat]
  BY DEF Chunk
<1>4. \A r \in Names : Role(r) \in [k : {"role"}, name : Names]
  BY DEF Role
<1> QED
  BY <1>1, <1>2, <1>3, <1>4 DEF Cells

\* The fields a kind of cell has.
LEMMA CellKinds ==
  ASSUME NEW c \in Cells
  PROVE  /\ c.k \in {"hdr", "chunk", "role", "obj", "zero", "torn"}
         /\ c.k = "hdr" => c.dirty \in BOOLEAN
         /\ c.k = "chunk" => c.len \in Nat /\ c.type \in {"ROLE", "DSTS", "OBJS"}
         /\ c.k = "role" => c.name \in Names
         /\ c.k = "obj" => c \in Objs
<1>1. CASE c \in [k : {"hdr"}, dirty : BOOLEAN]
  BY <1>1
<1>2. CASE c \in [k : {"chunk"}, type : {"ROLE", "DSTS", "OBJS"}, len : Nat]
  BY <1>2
<1>3. CASE c \in [k : {"role"}, name : Names]
  BY <1>3
<1>4. CASE c \in Objs
  <2>1. c.k = "obj"
    BY <1>4 DEF Objs
  <2> QED
    BY <1>4, <2>1
<1>5. CASE c \in [k : {"zero", "torn"}]
  BY <1>5
<1> QED
  BY <1>1, <1>2, <1>3, <1>4, <1>5 DEF Cells

\* A sequence that is given by its elements
LEMMA SeqIs ==
  ASSUME NEW S, NEW n \in Nat, NEW s, s = [i \in 1 .. n |-> s[i]], \A i \in 1 .. n : s[i] \in S
  PROVE  s \in Seq(S) /\ Len(s) = n
<1>1. s \in [1 .. n -> S]
  BY Zenon
<1>2. s \in Seq(S)
  BY <1>1, SeqDef
<1>3. DOMAIN s = 1 .. n
  BY Zenon
<1>4. Len(s) \in Nat /\ DOMAIN s = 1 .. Len(s)
  BY <1>2
<1> QED
  BY <1>2, <1>3, <1>4

\* The fields of the file, and what is behind its end.
LEMMA FileType ==
  ASSUME TypeOK
  PROVE  /\ file.cells \in Seq(Cells) /\ Len(file.cells) \in Nat
         /\ file.exists \in BOOLEAN /\ file.older \in BOOLEAN /\ file.tainted \in BOOLEAN
         /\ file = [exists |-> file.exists, cells |-> file.cells, older |-> file.older, tainted |-> file.tainted]
         /\ \A i : Cell(i) \in Cells
<1>1. /\ file.cells \in Seq(Cells) /\ Len(file.cells) \in Nat
      /\ file.exists \in BOOLEAN /\ file.older \in BOOLEAN /\ file.tainted \in BOOLEAN
      /\ file = [exists |-> file.exists, cells |-> file.cells, older |-> file.older, tainted |-> file.tainted]
  BY DEF TypeOK
<1>2. ASSUME NEW i
      PROVE  Cell(i) \in Cells
  <2>1. CASE i \in 1 .. Len(file.cells)
    BY <1>1, <2>1 DEF Cell
  <2>2. CASE i \notin 1 .. Len(file.cells)
    BY <2>2, CellTypes DEF Cell
  <2> QED
    BY <2>1, <2>2
<1> QED
  BY <1>1, <1>2

\* The cells when c is written at i: a hole is filled with zeros.
Put(i, c) == [Padded(i) EXCEPT ![i] = c]

\* write(2) of one cell, at the end or over another.
LEMMA PutIs ==
  ASSUME TypeOK, NEW i \in Int, NEW c \in Cells
  PROVE  LET s == Put(i, c) IN
         /\ s \in Seq(Cells)
         /\ i = Len(file.cells) + 1 =>
              Len(s) = i /\ s[i] = c /\ \A j \in 1 .. Len(file.cells) : s[j] = file.cells[j]
         /\ i \in 1 .. Len(file.cells) =>
              Len(s) = Len(file.cells) /\ s[i] = c /\ \A j \in 1 .. Len(file.cells) : j # i => s[j] = file.cells[j]
<1> DEFINE s == Put(i, c)
           m == IF i > Len(file.cells) THEN i ELSE Len(file.cells)
<1>0. Len(file.cells) \in Nat /\ \A j : Cell(j) \in Cells
  BY FileType
<1>1. m \in Nat
  BY <1>0
<1>2. Padded(i) = [j \in 1 .. m |-> Cell(j)]
  BY DEF Padded
<1>3. s = [j \in 1 .. m |-> IF j = i THEN c ELSE Cell(j)]
  BY <1>2 DEF Put
<1> HIDE DEF m, s
<1>4. \A j \in 1 .. m : s[j] = (IF j = i THEN c ELSE Cell(j)) /\ s[j] \in Cells
  BY <1>0, <1>3
<1>5. s \in Seq(Cells) /\ Len(s) = m
  <2>1. s = [j \in 1 .. m |-> s[j]]
    BY ONLY <1>3
  <2>2. \A j \in 1 .. m : s[j] \in Cells
    BY ONLY <1>4
  <2> QED
    BY ONLY <1>1, <2>1, <2>2, SeqIs
<1>6. ASSUME i = Len(file.cells) + 1
      PROVE  Len(s) = i /\ s[i] = c /\ \A j \in 1 .. Len(file.cells) : s[j] = file.cells[j]
  <2>1. m = i /\ i \in 1 .. m /\ \A j \in 1 .. Len(file.cells) : j \in 1 .. m /\ j # i
    BY <1>0, <1>6 DEF m
  <2>2. s[i] = c
    BY <1>4, <2>1
  <2>3. \A j \in 1 .. Len(file.cells) : s[j] = file.cells[j]
    BY <1>4, <2>1 DEF Cell
  <2> QED
    BY <1>5, <2>1, <2>2, <2>3
<1>7. ASSUME i \in 1 .. Len(file.cells)
      PROVE  /\ Len(s) = Len(file.cells) /\ s[i] = c
             /\ \A j \in 1 .. Len(file.cells) : j # i => s[j] = file.cells[j]
  <2>1. m = Len(file.cells)
    BY <1>0, <1>7 DEF m
  <2>2. s[i] = c /\ \A j \in 1 .. Len(file.cells) : j # i => s[j] = file.cells[j]
    BY <1>4, <1>7, <2>1 DEF Cell
  <2> QED
    BY <1>5, <2>1, <2>2
<1> QED
  BY <1>5, <1>6, <1>7 DEF s

\* sm_write() of a cell
LEMMA WroteIs ==
  ASSUME TypeOK, NEW p \in Runs, NEW i \in Int, NEW c \in Cells, Wrote(p, i, c)
  PROVE  /\ file' \in [exists : BOOLEAN, cells : Seq(Cells), older : BOOLEAN, tainted : BOOLEAN]
         /\ file'.exists = file.exists /\ file'.older = FALSE /\ fails' = fails
         /\ ~file'.tainted => ~file.tainted /\ ver[p] = data
         /\ i = Len(file.cells) + 1 =>
              /\ Len(file'.cells) = i /\ file'.cells[i] = c
              /\ \A j \in 1 .. Len(file.cells) : file'.cells[j] = file.cells[j]
         /\ i \in 1 .. Len(file.cells) =>
              /\ Len(file'.cells) = Len(file.cells) /\ file'.cells[i] = c
              /\ \A j \in 1 .. Len(file.cells) : j # i => file'.cells[j] = file.cells[j]
<1> DEFINE s == Put(i, c)
<1>1. file' = [exists |-> file.exists, cells |-> s, older |-> FALSE, tainted |-> file.tainted \/ ver[p] # data]
      /\ fails' = fails
  BY FileType DEF Wrote, Put
<1>2. /\ s \in Seq(Cells)
      /\ i = Len(file.cells) + 1 =>
           Len(s) = i /\ s[i] = c /\ \A j \in 1 .. Len(file.cells) : s[j] = file.cells[j]
      /\ i \in 1 .. Len(file.cells) =>
           Len(s) = Len(file.cells) /\ s[i] = c /\ \A j \in 1 .. Len(file.cells) : j # i => s[j] = file.cells[j]
  BY PutIs
<1> HIDE DEF s
<1>3. file.exists \in BOOLEAN
  BY FileType
<1>4. file'.cells = s /\ file'.exists = file.exists /\ file'.older = FALSE /\ (file'.tainted <=> file.tainted \/ ver[p] # data)
  BY <1>1
<1> QED
  BY <1>1, <1>2, <1>3, <1>4

\* A write that fails taints the index.
LEMMA FailedIs ==
  ASSUME TypeOK, NEW i \in Int, NEW n \in 0 .. 1, Failed(i, n)
  PROVE  /\ file' \in [exists : BOOLEAN, cells : Seq(Cells), older : BOOLEAN, tainted : BOOLEAN]
         /\ file'.exists = file.exists /\ file'.tainted = TRUE
         /\ fails' \in 0 .. MaxFails
<1> DEFINE s == Put(i, Torn)
           t == IF n = 0 THEN file.cells ELSE s
<1>1. /\ file' = [exists |-> file.exists, cells |-> t, older |-> file.older /\ n = 0, tainted |-> TRUE]
      /\ fails < MaxFails /\ fails' = fails + 1
  BY FileType DEF Failed, Put
<1>2. t \in Seq(Cells)
  <2>1. Torn \in Cells
    BY CellTypes
  <2>2. s \in Seq(Cells)
    BY <2>1, PutIs
  <2> QED
    BY <2>2, FileType
<1> HIDE DEF t
<1>3. fails' \in 0 .. MaxFails
  BY <1>1, Constants DEF TypeOK
<1> QED
  BY <1>1, <1>2, <1>3, FileType


(***************************************************************************)
(* What index_read() makes of a chunk                                      *)
(***************************************************************************)
LEMMA GreatestTo ==
  ASSUME NEW n \in Nat, NEW T \in SUBSET (1 .. n), T # {}
  PROVE  \E x \in T : \A y \in T : y <= x
<1> DEFINE U == {n - y : y \in T}
<1>1. U \in SUBSET Nat /\ U # {}
  <2>1. \A y \in T : n - y \in Nat
    OBVIOUS
  <2> QED
    BY <2>1
<1> HIDE DEF U
<1>2. PICK u \in U : \A w \in U : u <= w
  BY <1>1, LeastNatural
<1>3. PICK x \in T : u = n - x
  BY DEF U
<1>4. ASSUME NEW y \in T
      PROVE  y <= x
  <2>1. n - x <= n - y
    BY <1>2, <1>3 DEF U
  <2> QED
    BY <2>1
<1> QED
  BY <1>4

\* The last one with an id in s
Last(s, id) ==
  CHOOSE i \in 1 .. Len(s) : s[i].id = id /\ \A j \in i + 1 .. Len(s) : s[j].id # id

\* Two objects with one id: index_read() puts the last one.
LEMMA LastIs ==
  ASSUME NEW s, Len(s) \in Nat, NEW k \in 1 .. Len(s)
  PROVE  Last(s, s[k].id) \in 1 .. Len(s) /\ s[Last(s, s[k].id)].id = s[k].id
<1> DEFINE id == s[k].id
           T == {i \in 1 .. Len(s) : s[i].id = id}
           Is(i) == s[i].id = id /\ \A j \in i + 1 .. Len(s) : s[j].id # id
<1>1. T # {} /\ T \in SUBSET (1 .. Len(s))
  OBVIOUS
<1>2. PICK x \in T : \A y \in T : y <= x
  <2> HIDE DEF T
  <2> QED
    BY <1>1, GreatestTo
<1>3. ASSUME NEW j \in x + 1 .. Len(s), s[j].id = id
      PROVE  FALSE
  <2>1. j \in T /\ ~(j <= x)
    BY <1>3
  <2> QED
    BY <1>2, <2>1
<1>4. Is(x) /\ x \in 1 .. Len(s)
  BY <1>3
<1>5. Last(s, id) = CHOOSE i \in 1 .. Len(s) : Is(i)
  BY DEF Last
<1> HIDE DEF id
<1>6. Last(s, id) \in 1 .. Len(s) /\ Is(Last(s, id))
  BY ONLY <1>4, <1>5
<1> QED
  BY <1>6 DEF id

\* The cells behind a chunk header.
LEMMA BodyIs ==
  ASSUME TypeOK, NEW p \in Runs, NEW n \in Nat
  PROVE  /\ Body(p, n) \in Seq(Cells) /\ Len(Body(p, n)) = n
         /\ \A i \in 1 .. n : Body(p, n)[i] = Cell(pos[p] + i)
<1> DEFINE b == Body(p, n)
<1>1. b = [i \in 1 .. n |-> Cell(pos[p] + i)]
  BY DEF Body
<1>2. \A i : Cell(i) \in Cells
  BY FileType
<1> HIDE DEF b
<1>3. b = [i \in 1 .. n |-> b[i]]
  BY <1>1
<1>4. \A i \in 1 .. n : b[i] = Cell(pos[p] + i) /\ b[i] \in Cells
  BY <1>1, <1>2
<1>5. b \in Seq(Cells) /\ Len(b) = n
  BY <1>3, <1>4, SeqIs
<1> QED
  BY <1>4, <1>5 DEF b

\* The roles that are taken from a chunk, and all of them if all are good
LEMMA ReadRolesIs ==
  ASSUME TypeOK, NEW p \in Runs, NEW n \in Nat, NEW body \in Seq(Cells), ReadRoles(p, body, n)
  PROVE  \E names :
           /\ Len(names) \in 0 .. Len(body) /\ \A i \in 1 .. Len(names) : names[i] \in Names \cup {NoRole}
           /\ roles' = [roles EXCEPT ![p] = AddRoles(roles[p], names)]
           /\ tree' = tree /\ Behind(p, n, Len(names) = Len(body))
           /\ (\A i \in 1 .. Len(body) : body[i].k = "role") =>
                Len(names) = Len(body) /\ \A i \in 1 .. Len(body) : names[i] = body[i].name
<1> DEFINE len == Len(body)
           good == {i \in 1 .. len : body[i].k \in {"role", "zero"}}
           ok == Prefix(body, good)
           names == [i \in 1 .. Len(ok) |-> IF ok[i].k = "role" THEN ok[i].name ELSE NoRole]
<1>1. body \in Seq(Cells) /\ Len(body) = len /\ len \in Nat
  OBVIOUS
<1>2. /\ roles' = [roles EXCEPT ![p] = AddRoles(roles[p], names)]
      /\ tree' = tree /\ Behind(p, n, Len(ok) = len)
  BY DEF ReadRoles
<1> HIDE DEF len
<1>3. /\ ok \in Seq(Cells) /\ Len(ok) <= len
      /\ \A i \in 1 .. Len(ok) : i \in good /\ ok[i] = body[i]
      /\ 1 .. len \subseteq good => Len(ok) = len
  <2> HIDE DEF good
  <2> QED
    BY <1>1, PrefixType
<1>4. (\A i \in 1 .. len : body[i].k = "role") => 1 .. len \subseteq good
  BY <1>1
<1> HIDE DEF ok, good
<1>5. Len(ok) \in Nat
  BY <1>3
<1>6. names = [i \in 1 .. Len(ok) |-> names[i]]
  OBVIOUS
<1>7. ASSUME NEW i \in 1 .. Len(ok)
      PROVE  names[i] = IF ok[i].k = "role" THEN ok[i].name ELSE NoRole
  OBVIOUS
<1> HIDE DEF names
<1>8. ASSUME NEW i \in 1 .. Len(ok)
      PROVE  names[i] \in Names \cup {NoRole}
  <2>1. ok[i] \in Cells
    BY <1>3
  <2> QED
    BY <2>1, <1>7, CellKinds
<1>9. Len(names) = Len(ok)
  BY <1>5, <1>6, <1>8, SeqIs
<1>10. ASSUME \A i \in 1 .. len : body[i].k = "role"
       PROVE  Len(names) = len /\ \A i \in 1 .. len : names[i] = body[i].name
  <2>1. Len(ok) = len
    BY <1>3, <1>4, <1>10
  <2>2. ASSUME NEW i \in 1 .. len
        PROVE  names[i] = body[i].name
    <3>1. ok[i] = body[i]
      BY <1>1, <1>3, <2>1
    <3> QED
      BY <1>7, <1>10, <2>1, <3>1
  <2> QED
    BY <1>9, <2>1, <2>2
<1>11. Len(names) \in 0 .. len
  BY <1>3, <1>5, <1>9
<1>12. Behind(p, n, Len(names) = len)
  BY <1>2, <1>9
<1> QED
  BY ONLY <1>2, <1>8, <1>9, <1>10, <1>11, <1>12 DEF len

\* A pointer into the memory of the writer is read as any pointer.
LEMMA RelocatedIs ==
  ASSUME NEW p \in Runs, NEW o \in Objs
  PROVE  /\ Relocated(p, o) \in Objs /\ Relocated(p, o).id = o.id /\ Relocated(p, o).role = o.role
         /\ Relocated(p, o).text = IF o.text = InMem \/ p \in Unmapped THEN Wild ELSE o.text
BY DEF Relocated, Objs

\* The first m objects of the cells of body are put into the tree.
Taken(p, body, n, m) ==
  LET ids == {body[i].id : i \in 1 .. m} IN
  /\ \A i \in 1 .. m : body[i] \in Objs
  /\ DOMAIN tree' = Runs /\ \A q \in Runs : q # p => tree'[q] = tree[q]
  /\ DOMAIN tree'[p] = ids \cup DOMAIN tree[p]
  /\ tree'[p] = [id \in DOMAIN tree'[p] |-> tree'[p][id]]
  /\ \A id \in ids : \E i \in 1 .. m : /\ body[i].id = id
                                       /\ tree'[p][id] = Relocated(p, body[i])
  /\ \A id \in DOMAIN tree[p] \ ids : tree'[p][id] = tree[p][id]
  /\ roles' = roles /\ Behind(p, n, m = Len(body))
  /\ (DOMAIN tree[p] = {} /\ \A i \in 1 .. Len(body) : body[i].k = "obj") => m = Len(body)

\* The first m objects of a chunk are taken, and all of them if all are good.
LEMMA ReadObjsIs ==
  ASSUME TypeOK, NEW p \in Runs, NEW n \in Nat, NEW body \in Seq(Cells), ReadObjs(p, body, n)
  PROVE  \E m \in 0 .. Len(body) : Taken(p, body, n, m)
<1> DEFINE len == Len(body)
           good == {i \in 1 .. len : body[i].k = "obj" /\ (i = 1 => body[i].id \notin DOMAIN tree[p])}
           ok == Prefix(body, good)
           ids == {ok[i].id : i \in 1 .. Len(ok)}
           new == [id \in ids |-> Relocated(p, ok[Last(ok, id)])]
<1>1. body \in Seq(Cells) /\ Len(body) = len /\ len \in Nat
  OBVIOUS
<1>2. /\ tree' = [tree EXCEPT ![p] = Over(new, tree[p])]
      /\ roles' = roles /\ Behind(p, n, Len(ok) = len)
  BY DEF ReadObjs, Last
<1> HIDE DEF len
<1>3. /\ ok \in Seq(Cells) /\ Len(ok) <= len
      /\ \A i \in 1 .. Len(ok) : i \in good /\ ok[i] = body[i]
      /\ 1 .. len \subseteq good => Len(ok) = len
  <2> HIDE DEF good
  <2> QED
    BY <1>1, PrefixType
<1>4. DOMAIN tree[p] = {} /\ (\A i \in 1 .. len : body[i].k = "obj") => 1 .. len \subseteq good
  BY <1>1
<1>5. \A i \in 1 .. Len(ok) : ok[i].k = "obj"
  BY <1>3
<1> HIDE DEF ok, good
<1>6. Len(ok) \in Nat /\ Len(ok) \in 0 .. len
  BY <1>3
<1>7. ASSUME NEW i \in 1 .. Len(ok)
      PROVE  ok[i] = body[i] /\ ok[i] \in Objs
  <2>1. ok[i] = body[i] /\ ok[i] \in Cells
    BY <1>1, <1>3, <1>6
  <2> QED
    BY <2>1, <1>5, CellKinds
<1>8. ids = {body[i].id : i \in 1 .. Len(ok)}
  BY <1>7
<1>9. ASSUME NEW id \in ids
      PROVE  \E i \in 1 .. Len(ok) : body[i].id = id /\ new[id] = Relocated(p, body[i])
  <2>1. PICK k \in 1 .. Len(ok) : ok[k].id = id
    OBVIOUS
  <2>2. Last(ok, id) \in 1 .. Len(ok) /\ ok[Last(ok, id)].id = id
    BY <1>6, <2>1, LastIs
  <2>3. new[id] = Relocated(p, ok[Last(ok, id)])
    OBVIOUS
  <2> HIDE DEF new, ids
  <2> QED
    BY <1>7, <2>2, <2>3
<1>10. DOMAIN new = ids
  OBVIOUS
<1> HIDE DEF new, ids
<1>11. DOMAIN tree = Runs
  BY DEF TypeOK
<1>12. /\ DOMAIN tree' = Runs /\ \A q \in Runs : q # p => tree'[q] = tree[q]
       /\ tree'[p] = Over(new, tree[p])
  BY <1>2, <1>11
<1>13. tree'[p] = [id \in ids \cup DOMAIN tree[p] |-> IF id \in ids THEN new[id] ELSE tree[p][id]]
  BY <1>10, <1>12 DEF Over
<1>14. /\ DOMAIN tree'[p] = ids \cup DOMAIN tree[p]
       /\ tree'[p] = [id \in DOMAIN tree'[p] |-> tree'[p][id]]
       /\ \A id \in ids : tree'[p][id] = new[id]
       /\ \A id \in DOMAIN tree[p] \ ids : tree'[p][id] = tree[p][id]
  BY ONLY <1>13
<1>15. \A id \in ids : \E i \in 1 .. Len(ok) :
         body[i].id = id /\ tree'[p][id] = Relocated(p, body[i])
  BY ONLY <1>9, <1>14
<1>16. \A i \in 1 .. Len(ok) : body[i] \in Objs
  BY ONLY <1>7
<1>17. (DOMAIN tree[p] = {} /\ \A i \in 1 .. len : body[i].k = "obj") => Len(ok) = len
  BY <1>3, <1>4
<1>18. roles' = roles /\ Behind(p, n, Len(ok) = len)
  BY ONLY <1>2
<1> QED
  BY ONLY <1>6, <1>8, <1>12, <1>14, <1>15, <1>16, <1>17, <1>18 DEF len, Taken

(***************************************************************************)
(* Types                                                                   *)
(***************************************************************************)
Files  == [exists : BOOLEAN, cells : Seq(Cells), older : BOOLEAN, tainted : BOOLEAN]
Places == final \cup writing \cup {"start", "open", "read", "parse", "create"}

\* A write leads to the next place, or ends the run; if the index is not tainted, it succeeded.
LEMMA WriteOrQuitIs ==
  ASSUME TypeOK, NEW p \in Runs, NEW here, NEW there \in writing, NEW i \in Int, NEW c \in Cells,
         NEW move \in Nat, WriteOrQuit(p, here, there, i, c, move)
  PROVE  /\ file' \in Files /\ fails' \in 0 .. MaxFails /\ pos' \in [Runs -> Nat]
         /\ pc[p] = here /\ pc' \in [Runs -> Places] /\ pc'[p] \in {there, "done"}
         /\ \A q \in Runs : q # p => pc'[q] = pc[q] /\ pos'[q] = pos[q]
         /\ ~file'.tainted => Wrote(p, i, c) /\ pc'[p] = there /\ pos'[p] = pos[p] + move
<1>0. pc \in [Runs -> Places] /\ pos \in [Runs -> Nat] /\ fails \in 0 .. MaxFails
  BY DEF TypeOK, Places
<1>1. there \in Places /\ "done" \in Places
  BY DEF Places, final
<1>2. CASE Wrote(p, i, c) /\ Move(p, move) /\ Goto(p, there)
  <2>1. file' \in Files /\ fails' \in 0 .. MaxFails
    BY <1>0, <1>2, WroteIs DEF Files
  <2>2. pc' = [pc EXCEPT ![p] = there] /\ pos' = [pos EXCEPT ![p] = pos[p] + move]
    BY <1>2 DEF Goto, Move
  <2>3. /\ pc' \in [Runs -> Places] /\ pc'[p] = there
        /\ pos' \in [Runs -> Nat] /\ pos'[p] = pos[p] + move
        /\ \A q \in Runs : q # p => pc'[q] = pc[q] /\ pos'[q] = pos[q]
    BY ONLY <1>0, <1>1, <2>2, p \in Runs, move \in Nat
  <2>4. pc[p] = here
    BY DEF WriteOrQuit
  <2> QED
    BY ONLY <1>2, <2>1, <2>3, <2>4
<1>3. CASE \E n \in 0 .. 1 : Failed(i, n) /\ Goto(p, "done") /\ UNCHANGED pos
  <2>1. file' \in Files /\ fails' \in 0 .. MaxFails /\ file'.tainted = TRUE
    BY <1>3, FailedIs DEF Files
  <2>2. pc' = [pc EXCEPT ![p] = "done"] /\ pos' = pos
    BY <1>3 DEF Goto
  <2>3. /\ pc' \in [Runs -> Places] /\ pc'[p] = "done" /\ pos' \in [Runs -> Nat]
        /\ \A q \in Runs : q # p => pc'[q] = pc[q] /\ pos'[q] = pos[q]
    BY ONLY <1>0, <1>1, <2>2, p \in Runs
  <2>4. pc[p] = here
    BY DEF WriteOrQuit
  <2> QED
    BY ONLY <2>1, <2>3, <2>4
<1> QED
  BY <1>2, <1>3 DEF WriteOrQuit

\* Each step of a writer: the cell it writes and where, and what it leaves alone
Writes(p, here, there, i, c, move) ==
  /\ file' \in Files /\ fails' \in 0 .. MaxFails
  /\ pos' \in [Runs -> Nat] /\ size' \in [Runs -> Nat] /\ cnt' \in [Runs -> Nat]
  /\ pc[p] = here /\ pc' \in [Runs -> Places] /\ pc'[p] \in {there, "done"}
  /\ \A q \in Runs : q # p => pc'[q] = pc[q] /\ pos'[q] = pos[q] /\ size'[q] = size[q] /\ cnt'[q] = cnt[q]
  /\ UNCHANGED <<data, ver, roles, tree, spoilt>>
  /\ i \in Int /\ c \in Cells
  /\ ~file'.tainted => Wrote(p, i, c) /\ pc'[p] = there /\ pos'[p] = pos[p] + move

\* The steps of index_write(), each as one write of a cell.
LEMMA WriteHeaderIs ==
  ASSUME TypeOK, NEW p \in Runs, WriteHeader(p)
  PROVE  Writes(p, "header", "rolehdr", 1, DirtyHdr, 1) /\ size' = size /\ cnt' = cnt
<1>0. pc \in [Runs -> Places] /\ pos \in [Runs -> Nat] /\ fails \in 0 .. MaxFails
      /\ size \in [Runs -> Nat] /\ cnt \in [Runs -> Nat]
  BY DEF TypeOK, Places
<1>1. DirtyHdr \in Cells
  BY CellTypes DEF DirtyHdr
<1>a. "rolehdr" \in Places /\ 1 \in Int
  BY DEF Places, writing
<1>2. pc[p] = "header" /\ pc' = [pc EXCEPT ![p] = "rolehdr"] /\ UNCHANGED <<data, ver, roles, tree, size, cnt, spoilt>>
  BY DEF WriteHeader, Goto
<1>3. /\ pc' \in [Runs -> Places] /\ pc'[p] = "rolehdr" /\ \A q \in Runs : q # p => pc'[q] = pc[q]
  BY ONLY <1>0, <1>1, <1>a, <1>2, p \in Runs
<1>4. CASE Wrote(p, 1, DirtyHdr) /\ Move(p, 1)
  <2>1. file' \in Files /\ fails' \in 0 .. MaxFails
    BY <1>0, <1>1, <1>a, <1>4, WroteIs DEF Files
  <2>2. pos' = [pos EXCEPT ![p] = pos[p] + 1]
    BY <1>4 DEF Move
  <2>3. pos' \in [Runs -> Nat] /\ pos'[p] = pos[p] + 1 /\ \A q \in Runs : q # p => pos'[q] = pos[q]
    BY ONLY <1>0, <2>2, p \in Runs
  <2> QED
    BY ONLY <1>0, <1>1, <1>a, <1>2, <1>3, <1>4, <2>1, <2>3 DEF Writes
<1>5. CASE \E n \in 0 .. 1 : Failed(1, n) /\ Move(p, n)
  <2>1. PICK n \in 0 .. 1 : Failed(1, n) /\ Move(p, n)
    BY <1>5
  <2>2. file' \in Files /\ fails' \in 0 .. MaxFails /\ file'.tainted = TRUE
    BY <1>1, <1>a, <2>1, FailedIs DEF Files
  <2>3. pos' = [pos EXCEPT ![p] = pos[p] + n]
    BY <2>1 DEF Move
  <2>4. pos' \in [Runs -> Nat] /\ \A q \in Runs : q # p => pos'[q] = pos[q]
    BY ONLY <1>0, <2>3, p \in Runs, n \in 0 .. 1
  <2> QED
    BY ONLY <1>0, <1>1, <1>a, <1>2, <1>3, <2>2, <2>4 DEF Writes
<1> QED
  BY <1>4, <1>5 DEF WriteHeader, DirtyHdr

LEMMA WriteCleanIs ==
  ASSUME TypeOK, NEW p \in Runs, WriteClean(p)
  PROVE  Writes(p, "clean", "done", 1, CleanHdr, 0) /\ size' = size /\ cnt' = cnt
<1>0. pc \in [Runs -> Places] /\ pos \in [Runs -> Nat] /\ fails \in 0 .. MaxFails
      /\ size \in [Runs -> Nat] /\ cnt \in [Runs -> Nat]
  BY DEF TypeOK, Places
<1>1. CleanHdr \in Cells
  BY CellTypes DEF CleanHdr
<1>a. "done" \in Places /\ 1 \in Int
  BY DEF Places, final
<1>2. /\ pc[p] = "clean" /\ pc' = [pc EXCEPT ![p] = "done"]
      /\ UNCHANGED <<data, ver, roles, tree, pos, size, cnt, spoilt>>
  BY DEF WriteClean, Goto
<1>3. /\ pc' \in [Runs -> Places] /\ pc'[p] = "done" /\ \A q \in Runs : q # p => pc'[q] = pc[q]
      /\ pos'[p] = pos[p] + 0
  BY ONLY <1>0, <1>1, <1>a, <1>2, p \in Runs
<1>4. CASE Wrote(p, 1, CleanHdr)
  <2>1. file' \in Files /\ fails' \in 0 .. MaxFails
    BY <1>0, <1>1, <1>a, <1>4, WroteIs DEF Files
  <2> QED
    BY ONLY <1>0, <1>1, <1>a, <1>2, <1>3, <1>4, <2>1 DEF Writes
<1>5. CASE \E n \in 0 .. 1 : Failed(1, n)
  <2>1. file' \in Files /\ fails' \in 0 .. MaxFails /\ file'.tainted = TRUE
    BY <1>1, <1>a, <1>5, FailedIs DEF Files
  <2> QED
    BY ONLY <1>0, <1>1, <1>a, <1>2, <1>3, <2>1 DEF Writes
<1> QED
  BY <1>4, <1>5 DEF WriteClean, CleanHdr

LEMMA WriteRoleHdrIs ==
  ASSUME TypeOK, NEW p \in Runs, WriteRoleHdr(p)
  PROVE  Writes(p, "rolehdr", "role", pos[p], Chunk("ROLE", 0), 1) /\ size' = size /\ cnt'[p] = 0
<1>0. pos[p] \in Int /\ size \in [Runs -> Nat] /\ cnt \in [Runs -> Nat]
  BY DEF TypeOK
<1>1. Chunk("ROLE", 0) \in Cells /\ "role" \in writing
  BY CellTypes DEF writing
<1>2. /\ WriteOrQuit(p, "rolehdr", "role", pos[p], Chunk("ROLE", 0), 1)
      /\ cnt' = [cnt EXCEPT ![p] = 0] /\ UNCHANGED <<data, ver, roles, tree, size, spoilt>>
  BY DEF WriteRoleHdr
<1>3. cnt' \in [Runs -> Nat] /\ cnt'[p] = 0 /\ \A q \in Runs : q # p => cnt'[q] = cnt[q]
  BY ONLY <1>0, <1>2, p \in Runs
<1>4. /\ file' \in Files /\ fails' \in 0 .. MaxFails /\ pos' \in [Runs -> Nat]
      /\ pc[p] = "rolehdr" /\ pc' \in [Runs -> Places] /\ pc'[p] \in {"role", "done"}
      /\ \A q \in Runs : q # p => pc'[q] = pc[q] /\ pos'[q] = pos[q]
      /\ ~file'.tainted => Wrote(p, pos[p], Chunk("ROLE", 0)) /\ pc'[p] = "role" /\ pos'[p] = pos[p] + 1
  BY <1>0, <1>1, <1>2, WriteOrQuitIs
<1> QED
  BY ONLY <1>0, <1>1, <1>2, <1>3, <1>4 DEF Writes

LEMMA WriteRoleIs ==
  ASSUME TypeOK, NEW p \in Runs, WriteRole(p)
  PROVE  /\ Writes(p, "role", "role", pos[p], Role(roles[p][cnt[p] + 1]), 1) /\ size' = size
         /\ cnt'[p] = cnt[p] + 1 /\ cnt[p] < Len(roles[p])
<1>0. pos[p] \in Int /\ size \in [Runs -> Nat] /\ cnt \in [Runs -> Nat] /\ roles[p] \in Seq(Names \ {NoRole})
  BY DEF TypeOK
<1>1. cnt[p] < Len(roles[p])
  BY DEF WriteRole
<1>2. roles[p][cnt[p] + 1] \in Names
  BY <1>0, <1>1
<1>3. Role(roles[p][cnt[p] + 1]) \in Cells /\ "role" \in writing
  BY <1>2, CellTypes DEF writing
<1>4. /\ WriteOrQuit(p, "role", "role", pos[p], Role(roles[p][cnt[p] + 1]), 1)
      /\ cnt' = [cnt EXCEPT ![p] = cnt[p] + 1] /\ UNCHANGED <<data, ver, roles, tree, size, spoilt>>
  BY DEF WriteRole
<1>5. cnt' \in [Runs -> Nat] /\ cnt'[p] = cnt[p] + 1 /\ \A q \in Runs : q # p => cnt'[q] = cnt[q]
  BY ONLY <1>0, <1>4, p \in Runs
<1>6. /\ file' \in Files /\ fails' \in 0 .. MaxFails /\ pos' \in [Runs -> Nat]
      /\ pc[p] = "role" /\ pc' \in [Runs -> Places] /\ pc'[p] \in {"role", "done"}
      /\ \A q \in Runs : q # p => pc'[q] = pc[q] /\ pos'[q] = pos[q]
      /\ ~file'.tainted => Wrote(p, pos[p], Role(roles[p][cnt[p] + 1])) /\ pc'[p] = "role" /\ pos'[p] = pos[p] + 1
  BY <1>0, <1>3, <1>4, WriteOrQuitIs
<1> QED
  BY ONLY <1>0, <1>1, <1>3, <1>4, <1>5, <1>6 DEF Writes

LEMMA WriteRoleLenIs ==
  ASSUME TypeOK, NEW p \in Runs, WriteRoleLen(p)
  PROVE  Writes(p, "role", "dsts", pos[p] - cnt[p] - 1, Chunk("ROLE", cnt[p]), 0) /\ size' = size /\ cnt' = cnt /\ cnt[p] = Len(roles[p])
<1>0. pos[p] \in Int /\ pos[p] - cnt[p] - 1 \in Int /\ size \in [Runs -> Nat] /\ cnt \in [Runs -> Nat]
  BY DEF TypeOK
<1>1. Chunk("ROLE", cnt[p]) \in Cells /\ "dsts" \in writing
  BY <1>0, CellTypes DEF writing
<1>2. /\ WriteOrQuit(p, "role", "dsts", pos[p] - cnt[p] - 1, Chunk("ROLE", cnt[p]), 0) /\ UNCHANGED <<data, ver, roles, tree, size, cnt, spoilt>>
  BY DEF WriteRoleLen
<1>5. cnt[p] = Len(roles[p])
  BY DEF WriteRoleLen
<1>4. /\ file' \in Files /\ fails' \in 0 .. MaxFails /\ pos' \in [Runs -> Nat]
      /\ pc[p] = "role" /\ pc' \in [Runs -> Places] /\ pc'[p] \in {"dsts", "done"}
      /\ \A q \in Runs : q # p => pc'[q] = pc[q] /\ pos'[q] = pos[q]
      /\ ~file'.tainted => Wrote(p, pos[p] - cnt[p] - 1, Chunk("ROLE", cnt[p])) /\ pc'[p] = "dsts" /\ pos'[p] = pos[p] + 0
  BY <1>0, <1>1, <1>2, WriteOrQuitIs
<1> QED
  BY ONLY <1>0, <1>1, <1>2, <1>4, <1>5 DEF Writes

LEMMA WriteDstatsIs ==
  ASSUME TypeOK, NEW p \in Runs, WriteDstats(p)
  PROVE  Writes(p, "dsts", "objhdr", pos[p], Chunk("DSTS", 0), 1) /\ size' = size /\ cnt' = cnt
<1>0. pos[p] \in Int /\ pos[p] \in Int /\ size \in [Runs -> Nat] /\ cnt \in [Runs -> Nat]
  BY DEF TypeOK
<1>1. Chunk("DSTS", 0) \in Cells /\ "objhdr" \in writing
  BY <1>0, CellTypes DEF writing
<1>2. /\ WriteOrQuit(p, "dsts", "objhdr", pos[p], Chunk("DSTS", 0), 1) /\ UNCHANGED <<data, ver, roles, tree, size, cnt, spoilt>>
  BY DEF WriteDstats
<1>4. /\ file' \in Files /\ fails' \in 0 .. MaxFails /\ pos' \in [Runs -> Nat]
      /\ pc[p] = "dsts" /\ pc' \in [Runs -> Places] /\ pc'[p] \in {"objhdr", "done"}
      /\ \A q \in Runs : q # p => pc'[q] = pc[q] /\ pos'[q] = pos[q]
      /\ ~file'.tainted => Wrote(p, pos[p], Chunk("DSTS", 0)) /\ pc'[p] = "objhdr" /\ pos'[p] = pos[p] + 1
  BY <1>0, <1>1, <1>2, WriteOrQuitIs
<1> QED
  BY ONLY <1>0, <1>1, <1>2, <1>4 DEF Writes

LEMMA WriteObjHdrIs ==
  ASSUME TypeOK, NEW p \in Runs, WriteObjHdr(p)
  PROVE  Writes(p, "objhdr", "obj", pos[p], Chunk("OBJS", 0), 1) /\ cnt'[p] = 0 /\ size'[p] = 1
<1>0. pos[p] \in Int /\ pos[p] \in Int /\ size \in [Runs -> Nat] /\ cnt \in [Runs -> Nat]
  BY DEF TypeOK
<1>1. Chunk("OBJS", 0) \in Cells /\ "obj" \in writing
  BY <1>0, CellTypes DEF writing
<1>2. /\ WriteOrQuit(p, "objhdr", "obj", pos[p], Chunk("OBJS", 0), 1)
      /\ cnt' = [cnt EXCEPT ![p] = 0] /\ size' = [size EXCEPT ![p] = 1] /\ UNCHANGED <<data, ver, roles, tree, spoilt>>
  BY DEF WriteObjHdr
<1>3. /\ cnt' \in [Runs -> Nat] /\ cnt'[p] = 0 /\ size' \in [Runs -> Nat] /\ size'[p] = 1
      /\ \A q \in Runs : q # p => cnt'[q] = cnt[q] /\ size'[q] = size[q]
  BY ONLY <1>0, <1>2, p \in Runs
<1>4. /\ file' \in Files /\ fails' \in 0 .. MaxFails /\ pos' \in [Runs -> Nat]
      /\ pc[p] = "objhdr" /\ pc' \in [Runs -> Places] /\ pc'[p] \in {"obj", "done"}
      /\ \A q \in Runs : q # p => pc'[q] = pc[q] /\ pos'[q] = pos[q]
      /\ ~file'.tainted => Wrote(p, pos[p], Chunk("OBJS", 0)) /\ pc'[p] = "obj" /\ pos'[p] = pos[p] + 1
  BY <1>0, <1>1, <1>2, WriteOrQuitIs
<1> QED
  BY ONLY <1>0, <1>1, <1>2, <1>3, <1>4 DEF Writes

LEMMA WriteObjLenIs ==
  ASSUME TypeOK, NEW p \in Runs, WriteObjLen(p)
  PROVE  Writes(p, "obj", "clean", pos[p] - cnt[p] - 1, Chunk("OBJS", cnt[p]), 0) /\ size' = size /\ cnt' = cnt /\ NextObj(p) > Len(Order)
<1>0. pos[p] \in Int /\ pos[p] - cnt[p] - 1 \in Int /\ size \in [Runs -> Nat] /\ cnt \in [Runs -> Nat]
  BY DEF TypeOK
<1>1. Chunk("OBJS", cnt[p]) \in Cells /\ "clean" \in writing
  BY <1>0, CellTypes DEF writing
<1>2. /\ WriteOrQuit(p, "obj", "clean", pos[p] - cnt[p] - 1, Chunk("OBJS", cnt[p]), 0) /\ UNCHANGED <<data, ver, roles, tree, size, cnt, spoilt>>
  BY DEF WriteObjLen
<1>5. NextObj(p) > Len(Order)
  BY DEF WriteObjLen
<1>4. /\ file' \in Files /\ fails' \in 0 .. MaxFails /\ pos' \in [Runs -> Nat]
      /\ pc[p] = "obj" /\ pc' \in [Runs -> Places] /\ pc'[p] \in {"clean", "done"}
      /\ \A q \in Runs : q # p => pc'[q] = pc[q] /\ pos'[q] = pos[q]
      /\ ~file'.tainted => Wrote(p, pos[p] - cnt[p] - 1, Chunk("OBJS", cnt[p])) /\ pc'[p] = "clean" /\ pos'[p] = pos[p] + 0
  BY <1>0, <1>1, <1>2, WriteOrQuitIs
<1> QED
  BY ONLY <1>0, <1>1, <1>2, <1>4, <1>5 DEF Writes

LEMMA WriteObjIs ==
  ASSUME TypeOK, Ready, NEW p \in Runs, WriteObj(p)
  PROVE  LET i == NextObj(p) IN
         /\ i \in size[p] .. Len(Order) /\ i >= 1 /\ Order[i] \in DOMAIN tree[p]
         /\ \A j \in size[p] .. Len(Order) : j < i => Order[j] \notin DOMAIN tree[p]
         /\ Writes(p, "obj", "obj", pos[p], tree[p][Order[i]], 1) /\ pc' = pc /\ size'[p] >= 1
         /\ ~file'.tainted => cnt'[p] = cnt[p] + 1 /\ size'[p] = i + 1
<1> DEFINE i == NextObj(p)
           S == {j \in i + 1 .. Len(Order) : Type[Order[j]] > Type[Order[i]]}
<1>0. /\ pos \in [Runs -> Nat] /\ size \in [Runs -> Nat] /\ cnt \in [Runs -> Nat] /\ pc \in [Runs -> Places]
      /\ fails \in 0 .. MaxFails /\ tree[p] \in [DOMAIN tree[p] -> Objs]
  BY DEF TypeOK, Places
<1>1. pc[p] = "obj" /\ i <= Len(Order) /\ UNCHANGED <<data, pc, ver, roles, tree, spoilt>>
  BY DEF WriteObj
<1>2. size[p] >= 1 /\ Len(Order) \in Nat
  BY <1>1, Constants DEF Ready
<1>3. /\ i \in (size[p] .. Len(Order)) \cup {Len(Order) + 1}
      /\ i <= Len(Order) => Order[i] \in DOMAIN tree[p]
      /\ \A j \in size[p] .. Len(Order) : j < i => Order[j] \notin DOMAIN tree[p]
  <2>1. (size[p] .. Len(Order)) \in SUBSET (1 .. Len(Order))
    BY <1>0, <1>2
  <2> QED
    BY <1>2, <2>1, NextFromIs DEF NextObj
<1>4. \/ /\ Wrote(p, pos[p], tree[p][Order[i]]) /\ Move(p, 1)
         /\ cnt' = [cnt EXCEPT ![p] = cnt[p] + 1] /\ size' = [size EXCEPT ![p] = i + 1]
      \/ /\ \E n \in 0 .. 1 : Failed(pos[p], n) /\ Move(p, n)
         /\ size' = [size EXCEPT ![p] = NextFrom(p, S)] /\ cnt' = cnt
  BY DEF WriteObj
<1> HIDE DEF i
<1>5. i \in size[p] .. Len(Order) /\ i >= 1 /\ Order[i] \in DOMAIN tree[p] /\ i \in Nat
  BY <1>0, <1>1, <1>2, <1>3
<1>6. tree[p][Order[i]] \in Cells /\ pos[p] \in Int
  BY <1>0, <1>5, CellTypes
<1>7. NextFrom(p, S) \in Nat /\ NextFrom(p, S) >= 1
  <2>1. S \in SUBSET (1 .. Len(Order))
    BY <1>2, <1>5
  <2> HIDE DEF S
  <2>2. NextFrom(p, S) \in S \cup {Len(Order) + 1}
    BY <1>2, <2>1, NextFromIs
  <2>3. \A x \in S : x \in 1 .. Len(Order)
    BY ONLY <2>1
  <2> QED
    BY ONLY <1>2, <2>2, <2>3
<1> HIDE DEF S
<1>8. pc' \in [Runs -> Places] /\ pc'[p] = "obj" /\ \A q \in Runs : pc'[q] = pc[q]
  BY <1>0, <1>1
<1>9. CASE /\ Wrote(p, pos[p], tree[p][Order[i]]) /\ Move(p, 1)
           /\ cnt' = [cnt EXCEPT ![p] = cnt[p] + 1] /\ size' = [size EXCEPT ![p] = i + 1]
  <2>1. file' \in Files /\ fails' \in 0 .. MaxFails
    BY <1>0, <1>6, <1>9, WroteIs DEF Files
  <2>2. pos' = [pos EXCEPT ![p] = pos[p] + 1]
    BY <1>9 DEF Move
  <2>3. /\ pos' \in [Runs -> Nat] /\ pos'[p] = pos[p] + 1
        /\ cnt' \in [Runs -> Nat] /\ cnt'[p] = cnt[p] + 1
        /\ size' \in [Runs -> Nat] /\ size'[p] = i + 1 /\ size'[p] >= 1
        /\ \A q \in Runs : q # p => pos'[q] = pos[q] /\ cnt'[q] = cnt[q] /\ size'[q] = size[q]
    BY ONLY <1>0, <1>5, <1>9, <2>2, p \in Runs
  <2>4. Writes(p, "obj", "obj", pos[p], tree[p][Order[i]], 1)
    BY ONLY <1>1, <1>6, <1>8, <1>9, <2>1, <2>3 DEF Writes
  <2> QED
    BY <1>1, <1>3, <1>5, <2>3, <2>4 DEF i
<1>10. CASE /\ \E n \in 0 .. 1 : Failed(pos[p], n) /\ Move(p, n)
            /\ size' = [size EXCEPT ![p] = NextFrom(p, S)] /\ cnt' = cnt
  <2>1. PICK n \in 0 .. 1 : Failed(pos[p], n) /\ Move(p, n)
    BY <1>10
  <2>2. file' \in Files /\ fails' \in 0 .. MaxFails /\ file'.tainted = TRUE
    BY <1>6, <2>1, FailedIs DEF Files
  <2>3. pos' = [pos EXCEPT ![p] = pos[p] + n]
    BY <2>1 DEF Move
  <2>4. /\ pos' \in [Runs -> Nat] /\ cnt' \in [Runs -> Nat]
        /\ size' \in [Runs -> Nat] /\ size'[p] >= 1
        /\ \A q \in Runs : q # p => pos'[q] = pos[q] /\ cnt'[q] = cnt[q] /\ size'[q] = size[q]
    BY ONLY <1>0, <1>7, <1>10, <2>3, p \in Runs, n \in 0 .. 1
  <2>5. Writes(p, "obj", "obj", pos[p], tree[p][Order[i]], 1)
    BY ONLY <1>1, <1>6, <1>8, <2>2, <2>4 DEF Writes
  <2> QED
    BY <1>1, <1>3, <1>5, <2>2, <2>4, <2>5 DEF i
<1> QED
  BY <1>4, <1>9, <1>10

\* index_read() behind a chunk of n cells goes on, or ends and the data are parsed.
LEMMA BehindIs ==
  ASSUME TypeOK, NEW p \in Runs, NEW n \in Nat, NEW whole, Behind(p, n, whole)
  PROVE  /\ pos' \in [Runs -> Nat] /\ pc' \in [Runs -> Places]
         /\ \A q \in Runs : q # p => pc'[q] = pc[q] /\ pos'[q] = pos[q]
         /\ \/ pc'[p] = pc[p] /\ pos'[p] = pos[p] + n + 1
            \/ pc'[p] = "parse" /\ pos'[p] = pos[p]
         /\ whole => pc'[p] = pc[p] /\ pos'[p] = pos[p] + n + 1
<1>0. pc \in [Runs -> Places] /\ pos \in [Runs -> Nat]
  BY DEF TypeOK, Places
<1>1. CASE whole
  <2>1. pos' = [pos EXCEPT ![p] = pos[p] + n + 1] /\ pc' = pc
    BY <1>1 DEF Behind
  <2> QED
    BY ONLY <1>0, <1>1, <2>1, p \in Runs, n \in Nat
<1>2. CASE ~whole
  <2>1. pc' = [pc EXCEPT ![p] = "parse"] /\ pos' = pos
    BY <1>2 DEF Behind, Goto
  <2>2. "parse" \in Places
    BY DEF Places
  <2> QED
    BY ONLY <1>0, <1>2, <2>1, <2>2, p \in Runs, n \in Nat
<1> QED
  BY <1>1, <1>2

\* Some cells of a chunk are read, as index_read_roles() or index_read_objs() does.
SomeRead(p) == \E n \in Nat, body \in Seq(Cells) : ReadRoles(p, body, n) \/ ReadObjs(p, body, n)

\* What every turn of index_read() leaves alone, and where it may lead
Turn(p) ==
  /\ pc[p] = "read" /\ Left(p) > 1 /\ UNCHANGED <<data, file, fails, ver, size, cnt>>
  /\ spoilt' \in [Runs -> BOOLEAN]
  /\ \A q \in Runs : (q # p => spoilt'[q] = spoilt[q]) /\ (spoilt[q] => spoilt'[q])
  /\ pos' \in [Runs -> Nat] /\ pc' \in [Runs -> Places] /\ pc'[p] \in {"read", "parse", "dead"}
  /\ \A q \in Runs : q # p => pc'[q] = pc[q] /\ pos'[q] = pos[q]
  /\ (tree' = tree /\ roles' = roles) \/ SomeRead(p)

\* A turn that spoils nothing: it gives up, goes by something, or takes a whole chunk.
WholeTurn(p) ==
  LET h == Cell(pos[p]) IN
  \/ /\ tree' = tree /\ roles' = roles
     /\ ~(h.k = "chunk" /\ pos[p] + h.len <= Len(file.cells) /\ h.len <= Left(p))
  \/ /\ tree' = tree /\ roles' = roles /\ h.k = "chunk" /\ h.len \in Nat /\ h.type = "DSTS"
     /\ Behind(p, h.len, TRUE)
  \/ h.k = "chunk" /\ h.len \in Nat /\ h.type = "ROLE" /\ ReadRoles(p, Body(p, h.len), h.len)
  \/ h.k = "chunk" /\ h.len \in Nat /\ h.type = "OBJS" /\ ReadObjs(p, Body(p, h.len), h.len)

\* What is read is behind a chunk header, and the loop goes on or ends.
LEMMA SomeReadIs ==
  ASSUME TypeOK, NEW p \in Runs, NEW n \in Nat, NEW body \in Seq(Cells),
         ReadRoles(p, body, n) \/ ReadObjs(p, body, n), pc[p] = "read"
  PROVE  /\ pos' \in [Runs -> Nat] /\ pc' \in [Runs -> Places] /\ pc'[p] \in {"read", "parse", "dead"}
         /\ \A q \in Runs : q # p => pc'[q] = pc[q] /\ pos'[q] = pos[q]
         /\ SomeRead(p)
<1>1. \E w : Behind(p, n, w)
  BY DEF ReadRoles, ReadObjs
<1>2. SomeRead(p)
  BY DEF SomeRead
<1> QED
  BY <1>1, <1>2, BehindIs

\* A chunk that is too long for an int: some of its cells are read.
LEMMA ReadLongIs ==
  ASSUME TypeOK, NEW p \in Runs, pc[p] = "read", Left(p) > 1,
         UNCHANGED <<data, file, fails, ver, size, cnt>>, NEW h \in Cells, ReadLong(p, h)
  PROVE  Turn(p) /\ spoilt'[p] = TRUE
<1>1. h.k = "chunk" => h.len \in Nat
  BY CellKinds
<1>2. /\ h.k = "chunk" /\ spoilt' = [spoilt EXCEPT ![p] = TRUE]
      /\ \E m \in 0 .. h.len - 1 : \E body \in {Body(p, m), Append(Body(p, m), Torn)} :
           ReadRoles(p, body, h.len) \/ ReadObjs(p, body, h.len)
  BY DEF ReadLong, Long
<1>3. PICK m \in 0 .. h.len - 1 : \E body \in {Body(p, m), Append(Body(p, m), Torn)} :
        ReadRoles(p, body, h.len) \/ ReadObjs(p, body, h.len)
  BY <1>2
<1>4. PICK body \in {Body(p, m), Append(Body(p, m), Torn)} :
        ReadRoles(p, body, h.len) \/ ReadObjs(p, body, h.len)
  BY <1>3
<1>5. m \in Nat /\ h.len \in Nat
  BY <1>1, <1>2
<1>6. Body(p, m) \in Seq(Cells)
  BY <1>5, BodyIs
<1>7. Torn \in Cells
  BY DEF Torn, Cells
<1>8. body \in Seq(Cells)
  BY <1>6, <1>7
<1>9. /\ pos' \in [Runs -> Nat] /\ pc' \in [Runs -> Places] /\ pc'[p] \in {"read", "parse", "dead"}
      /\ \A q \in Runs : q # p => pc'[q] = pc[q] /\ pos'[q] = pos[q]
      /\ SomeRead(p)
  BY <1>4, <1>5, <1>8, SomeReadIs
<1>10. spoilt \in [Runs -> BOOLEAN]
  BY DEF TypeOK
<1>11. /\ spoilt' \in [Runs -> BOOLEAN] /\ spoilt'[p] = TRUE
       /\ \A q \in Runs : (q # p => spoilt'[q] = spoilt[q]) /\ (spoilt[q] => spoilt'[q])
  BY <1>2, <1>10
<1> QED
  BY <1>9, <1>11 DEF Turn

\* One turn of index_read().
LEMMA ReadChunkIs ==
  ASSUME TypeOK, NEW p \in Runs, ReadChunk(p)
  PROVE  Turn(p) /\ (spoilt'[p] \/ (WholeTurn(p) /\ spoilt' = spoilt))
<1> DEFINE h == Cell(pos[p])
           Moves == /\ pos' \in [Runs -> Nat] /\ pc' \in [Runs -> Places] /\ pc'[p] \in {"read", "parse", "dead"}
                    /\ \A q \in Runs : q # p => pc'[q] = pc[q] /\ pos'[q] = pos[q]
           NotNow == ~(h.k = "chunk" /\ pos[p] + h.len <= Len(file.cells) /\ h.len <= Left(p))
           Takes == (tree' = tree /\ roles' = roles) \/ SomeRead(p)
<1>1. /\ pc \in [Runs -> Places] /\ pos \in [Runs -> Nat] /\ size \in [Runs -> Nat]
      /\ Len(file.cells) \in Nat /\ spoilt \in [Runs -> BOOLEAN]
  BY FileType DEF TypeOK, Places
<1>2. h \in Cells
  BY FileType
<1>3. h.k = "chunk" => h.len \in Nat /\ h.type \in {"ROLE", "DSTS", "OBJS"}
  <2> HIDE DEF h
  <2> QED
    BY <1>2, CellKinds
<1>4. /\ pc[p] = "read" /\ Left(p) > 1 /\ UNCHANGED <<data, file, fails, ver, size, cnt>>
  BY DEF ReadChunk
<1>5. Left(p) \in Int
  BY <1>1 DEF Left
<1>6. "parse" \in Places /\ "dead" \in Places
  BY DEF Places, final
<1>7. \/ ReadLong(p, h)
      \/ /\ Fatal(p, IF h.k = "chunk" THEN h.len ELSE 0)
         /\ UNCHANGED spoilt
      \/ /\ h.k = "chunk" /\ h.len > Left(p)
         /\ Goto(p, "parse")
         /\ UNCHANGED <<roles, tree, pos, spoilt>>
      \/ /\ h.k = "chunk" /\ h.len <= Left(p) /\ ~ Long(h)
         /\ CASE h.type = "ROLE" -> ReadRoles(p, Body(p, h.len), h.len)
              [] h.type = "OBJS" -> ReadObjs(p, Body(p, h.len), h.len)
              [] h.type = "DSTS" -> Behind(p, h.len, TRUE) /\ UNCHANGED <<roles, tree>>
         /\ UNCHANGED spoilt
      \/ /\ h.k # "chunk"
         /\ \/ \E n \in IF h.k = "zero" THEN {0} ELSE 0 .. Left(p) : Behind(p, n, TRUE)
            \/ h.k # "zero" /\ Behind(p, 0, FALSE)
         /\ UNCHANGED <<roles, tree, spoilt>>
  BY DEF ReadChunk
<1>a. ASSUME spoilt' = spoilt
      PROVE  /\ spoilt' \in [Runs -> BOOLEAN]
             /\ \A q \in Runs : (q # p => spoilt'[q] = spoilt[q]) /\ (spoilt[q] => spoilt'[q])
  BY ONLY <1>1, <1>a
<1>b. ASSUME spoilt' = spoilt, Moves, Takes
      PROVE  Turn(p)
  BY ONLY <1>4, <1>a, <1>b DEF Turn
<1>c. ASSUME h.k = "chunk"
      PROVE  Body(p, h.len) \in Seq(Cells) /\ h.len \in Nat
  BY ONLY TypeOK, p \in Runs, <1>3, <1>c, BodyIs
<1> HIDE DEF h
<1>8. CASE Fatal(p, IF h.k = "chunk" THEN h.len ELSE 0) /\ UNCHANGED spoilt
  <2>1. UNCHANGED <<roles, tree, pos>> /\ pc' = [pc EXCEPT ![p] = "dead"]
    BY <1>8 DEF Fatal, Goto
  <2>2. h.k = "chunk" => pos[p] + h.len > Len(file.cells)
    BY <1>8 DEF Fatal
  <2>3. NotNow
    BY <1>1, <1>3, <2>2
  <2>4. Moves
    BY <1>1, <1>6, <2>1
  <2> QED
    BY <1>8, <1>b, <2>1, <2>3, <2>4 DEF h, WholeTurn
<1>9. CASE h.k = "chunk" /\ h.len > Left(p) /\ Goto(p, "parse") /\ UNCHANGED <<roles, tree, pos, spoilt>>
  <2>1. pc' = [pc EXCEPT ![p] = "parse"]
    BY <1>9 DEF Goto
  <2>2. NotNow
    BY <1>3, <1>5, <1>9
  <2>3. Moves
    BY <1>1, <1>6, <1>9, <2>1
  <2> QED
    BY <1>9, <1>b, <2>2, <2>3 DEF h, WholeTurn
<1>10. CASE h.k = "chunk" /\ h.type = "ROLE" /\ ReadRoles(p, Body(p, h.len), h.len) /\ UNCHANGED spoilt
  <2>1. Moves /\ SomeRead(p)
    BY <1>4, <1>c, <1>10, SomeReadIs
  <2>2. WholeTurn(p)
    BY ONLY <1>c, <1>10 DEF h, WholeTurn
  <2> QED
    BY ONLY <1>10, <1>b, <2>1, <2>2
<1>11. CASE h.k = "chunk" /\ h.type = "OBJS" /\ ReadObjs(p, Body(p, h.len), h.len) /\ UNCHANGED spoilt
  <2>1. Moves /\ SomeRead(p)
    BY <1>4, <1>c, <1>11, SomeReadIs
  <2>2. WholeTurn(p)
    BY ONLY <1>c, <1>11 DEF h, WholeTurn
  <2> QED
    BY ONLY <1>11, <1>b, <2>1, <2>2
<1>12. CASE h.k = "chunk" /\ h.type = "DSTS" /\ Behind(p, h.len, TRUE) /\ UNCHANGED <<roles, tree, spoilt>>
  <2>1. Moves
    BY <1>3, <1>4, <1>12, BehindIs
  <2>2. WholeTurn(p)
    BY ONLY <1>c, <1>12 DEF h, WholeTurn
  <2> QED
    BY ONLY <1>12, <1>b, <2>1, <2>2
<1>13. CASE /\ h.k # "chunk" /\ UNCHANGED <<roles, tree, spoilt>>
            /\ \/ \E n \in IF h.k = "zero" THEN {0} ELSE 0 .. Left(p) : Behind(p, n, TRUE)
               \/ h.k # "zero" /\ Behind(p, 0, FALSE)
  <2>2. Moves
    <3>1. CASE \E n \in 0 .. Left(p) : Behind(p, n, TRUE)
      <4>1. PICK n \in 0 .. Left(p) : Behind(p, n, TRUE)
        BY <3>1
      <4>2. n \in Nat
        BY <1>5
      <4> QED
        BY <1>4, <4>1, <4>2, BehindIs
    <3>2. CASE Behind(p, 0, TRUE)
      BY <1>4, <3>2, BehindIs
    <3>3. CASE Behind(p, 0, FALSE)
      BY <1>4, <3>3, BehindIs
    <3>4. (\E n \in 0 .. Left(p) : Behind(p, n, TRUE)) \/ Behind(p, 0, TRUE) \/ Behind(p, 0, FALSE)
      BY ONLY <1>13
    <3> QED
      BY ONLY <3>1, <3>2, <3>3, <3>4
  <2>3. WholeTurn(p)
    BY ONLY <1>13 DEF h, WholeTurn
  <2> QED
    BY ONLY <1>13, <1>b, <2>2, <2>3
<1>14. ASSUME /\ h.k = "chunk" /\ h.len <= Left(p) /\ ~ Long(h)
              /\ CASE h.type = "ROLE" -> ReadRoles(p, Body(p, h.len), h.len)
                   [] h.type = "OBJS" -> ReadObjs(p, Body(p, h.len), h.len)
                   [] h.type = "DSTS" -> Behind(p, h.len, TRUE) /\ UNCHANGED <<roles, tree>>
              /\ UNCHANGED spoilt
       PROVE  \/ h.k = "chunk" /\ h.type = "ROLE" /\ ReadRoles(p, Body(p, h.len), h.len) /\ UNCHANGED spoilt
              \/ h.k = "chunk" /\ h.type = "OBJS" /\ ReadObjs(p, Body(p, h.len), h.len) /\ UNCHANGED spoilt
              \/ h.k = "chunk" /\ h.type = "DSTS" /\ Behind(p, h.len, TRUE) /\ UNCHANGED <<roles, tree, spoilt>>
  BY ONLY <1>3, <1>14
<1>15. CASE ReadLong(p, h)
  <2>1. h \in Cells
    BY <1>2
  <2> QED
    BY <1>4, <1>15, <2>1, ReadLongIs
<1> QED
  BY ONLY <1>7, <1>8, <1>9, <1>10, <1>11, <1>12, <1>13, <1>14, <1>15

\* read_osm_file() puts what the data say over what is in the tree.
LEMMA ParseIs ==
  ASSUME TypeOK, NEW p \in Runs, Parse(p)
  PROVE  LET v == ver[p]
             t == AddRoles(roles[p], DataRoles[v]) IN
         /\ pc[p] = "parse" /\ UNCHANGED <<data, file, fails, ver, cnt, spoilt>>
         /\ pc' = [pc EXCEPT ![p] = "create"] /\ pos' = [pos EXCEPT ![p] = 1] /\ size' = [size EXCEPT ![p] = 0]
         /\ t \in Seq(Names \ {NoRole}) /\ roles' = [roles EXCEPT ![p] = t]
         /\ DOMAIN tree' = Runs /\ \A q \in Runs : q # p => tree'[q] = tree[q]
         /\ DOMAIN tree'[p] = DOMAIN Data[v] \cup DOMAIN tree[p]
         /\ tree'[p] = [id \in DOMAIN tree'[p] |-> tree'[p][id]]
         /\ \A id \in DOMAIN Data[v] : /\ tree'[p][id] \in Objs /\ Meant(tree'[p][id], v, t, id)
                                       /\ tree'[p][id].role \in 0 .. Len(t)
         /\ \A id \in DOMAIN tree[p] \ DOMAIN Data[v] : tree'[p][id] = tree[p][id]
<1> DEFINE v == ver[p]
           t == AddRoles(roles[p], DataRoles[v])
           new == [id \in DOMAIN Data[v] |-> Obj(id, RoleNo(t, Data[v][id]), v)]
<1>1. /\ pc[p] = "parse" /\ UNCHANGED <<data, file, fails, ver, cnt, spoilt>>
      /\ pc' = [pc EXCEPT ![p] = "create"] /\ pos' = [pos EXCEPT ![p] = 1] /\ size' = [size EXCEPT ![p] = 0]
      /\ roles' = [roles EXCEPT ![p] = t] /\ tree' = [tree EXCEPT ![p] = Over(new, tree[p])]
  BY DEF Parse, Goto
<1>2. v \in DOMAIN Data /\ roles[p] \in Seq(Names \ {NoRole}) /\ DOMAIN tree = Runs
  BY DEF TypeOK
<1> HIDE DEF v
<1>3. DataRoles[v] \in Seq(Names \ {NoRole}) /\ Len(DataRoles[v]) \in Nat
      /\ \A n \in 1 .. Len(DataRoles[v]) : DataRoles[v][n] \in (Names \ {NoRole}) \cup {NoRole}
  BY <1>2, RolesAre
<1>4. /\ t \in Seq(Names \ {NoRole})
      /\ \A n \in 1 .. Len(DataRoles[v]) : DataRoles[v][n] \in Range1(t) \cup {NoRole}
  <2>1. NoRole \notin Names \ {NoRole}
    OBVIOUS
  <2> QED
    BY ONLY <1>2, <1>3, <2>1, AddRolesType
<1> HIDE DEF t
<1>5. ASSUME NEW id \in DOMAIN Data[v]
      PROVE  new[id] \in Objs /\ Meant(new[id], v, t, id) /\ new[id].role \in 0 .. Len(t)
  <2>1. Data[v][id] \in Range1(DataRoles[v]) \cup {NoRole}
    BY <1>2, RolesAre
  <2>2. Data[v][id] \in Range1(t) \cup {NoRole}
    BY <1>4, <2>1 DEF Range1
  <2>3. RoleNo(t, Data[v][id]) \in 0 .. Len(t) /\ RoleStr(t, RoleNo(t, Data[v][id])) = Data[v][id]
    <3>1. NoRole \notin Names \ {NoRole}
      OBVIOUS
    <3> QED
      BY ONLY <1>4, <2>2, <3>1, RoleNumber
  <2>4. new[id] = [k |-> "obj", id |-> id, role |-> RoleNo(t, Data[v][id]), text |-> v]
    BY DEF Obj
  <2>5. id \in Ids
    BY <1>2, Constants
  <2> HIDE DEF new
  <2>6. new[id] \in Objs
    BY <1>2, <2>3, <2>4, <2>5 DEF Objs
  <2> QED
    BY <2>3, <2>4, <2>6 DEF Meant
<1>6. DOMAIN new = DOMAIN Data[v]
  OBVIOUS
<1> HIDE DEF new
<1>7. /\ DOMAIN tree' = Runs /\ \A q \in Runs : q # p => tree'[q] = tree[q]
      /\ tree'[p] = Over(new, tree[p])
  BY <1>1, <1>2
<1>8. tree'[p] = [id \in DOMAIN Data[v] \cup DOMAIN tree[p] |-> IF id \in DOMAIN Data[v] THEN new[id] ELSE tree[p][id]]
  BY <1>6, <1>7 DEF Over
<1>9. /\ DOMAIN tree'[p] = DOMAIN Data[v] \cup DOMAIN tree[p]
      /\ tree'[p] = [id \in DOMAIN tree'[p] |-> tree'[p][id]]
      /\ \A id \in DOMAIN Data[v] : tree'[p][id] = new[id]
      /\ \A id \in DOMAIN tree[p] \ DOMAIN Data[v] : tree'[p][id] = tree[p][id]
  BY ONLY <1>8
<1>10. \A id \in DOMAIN Data[v] : /\ tree'[p][id] \in Objs /\ Meant(tree'[p][id], v, t, id)
                                  /\ tree'[p][id].role \in 0 .. Len(t)
  BY ONLY <1>5, <1>9
<1> QED
  BY ONLY <1>1, <1>4, <1>7, <1>9, <1>10 DEF v, t

\* A step of a writer that has created the file, whichever it is
SomeWrite(p) ==
  \E here \in writing, there \in writing \cup {"done"}, i \in Int, c \in Cells, move \in Nat :
    Writes(p, here, there, i, c, move)

\* Every step of index_write() is one of these writes.
LEMMA WriteCases ==
  ASSUME TypeOK, Ready, NEW p \in Runs, Write(p)
  PROVE  Create(p) \/ (SomeWrite(p) /\ (pc'[p] = "obj" => size'[p] >= 1))
<1> DEFINE End == pc'[p] = "obj" => size'[p] >= 1
<1>0. /\ 1 \in Int /\ 0 \in Nat /\ 1 \in Nat
      /\ {"header", "rolehdr", "role", "dsts", "objhdr", "obj", "clean"} = writing
  BY DEF writing
<1>1. ASSUME NEW here \in writing, NEW there \in writing \cup {"done"}, NEW i, NEW c, NEW move \in Nat,
             Writes(p, here, there, i, c, move)
      PROVE  SomeWrite(p) /\ pc'[p] \in {there, "done"}
  <2>1. i \in Int /\ c \in Cells /\ pc'[p] \in {there, "done"}
    BY <1>1 DEF Writes
  <2> QED
    BY <1>1, <2>1 DEF SomeWrite
<1>2. CASE Create(p)
  BY <1>2
<1>3. CASE WriteHeader(p)
  <2>1. Writes(p, "header", "rolehdr", 1, DirtyHdr, 1)
    BY <1>3, WriteHeaderIs
  <2>2. SomeWrite(p) /\ pc'[p] \in {"rolehdr", "done"}
    BY ONLY <1>0, <1>1, <2>1
  <2> QED
    BY ONLY <2>2
<1>4. CASE WriteRoleHdr(p)
  <2>1. Writes(p, "rolehdr", "role", pos[p], Chunk("ROLE", 0), 1)
    BY <1>4, WriteRoleHdrIs
  <2>2. SomeWrite(p) /\ pc'[p] \in {"role", "done"}
    BY ONLY <1>0, <1>1, <2>1
  <2> QED
    BY ONLY <2>2
<1>5. CASE WriteRole(p)
  <2>1. Writes(p, "role", "role", pos[p], Role(roles[p][cnt[p] + 1]), 1)
    BY <1>5, WriteRoleIs
  <2>2. SomeWrite(p) /\ pc'[p] \in {"role", "done"}
    BY ONLY <1>0, <1>1, <2>1
  <2> QED
    BY ONLY <2>2
<1>6. CASE WriteRoleLen(p)
  <2>1. Writes(p, "role", "dsts", pos[p] - cnt[p] - 1, Chunk("ROLE", cnt[p]), 0)
    BY <1>6, WriteRoleLenIs
  <2>2. SomeWrite(p) /\ pc'[p] \in {"dsts", "done"}
    BY ONLY <1>0, <1>1, <2>1
  <2> QED
    BY ONLY <2>2
<1>7. CASE WriteDstats(p)
  <2>1. Writes(p, "dsts", "objhdr", pos[p], Chunk("DSTS", 0), 1)
    BY <1>7, WriteDstatsIs
  <2>2. SomeWrite(p) /\ pc'[p] \in {"objhdr", "done"}
    BY ONLY <1>0, <1>1, <2>1
  <2> QED
    BY ONLY <2>2
<1>8. CASE WriteObjHdr(p)
  <2>1. Writes(p, "objhdr", "obj", pos[p], Chunk("OBJS", 0), 1) /\ size'[p] = 1
    BY <1>8, WriteObjHdrIs
  <2>2. SomeWrite(p)
    BY ONLY <1>0, <1>1, <2>1
  <2> QED
    BY ONLY <2>1, <2>2
<1>9. CASE WriteObj(p)
  <2>1. Writes(p, "obj", "obj", pos[p], tree[p][Order[NextObj(p)]], 1) /\ size'[p] >= 1
    BY <1>9, WriteObjIs
  <2>2. SomeWrite(p)
    BY ONLY <1>0, <1>1, <2>1
  <2> QED
    BY ONLY <2>1, <2>2
<1>10. CASE WriteObjLen(p)
  <2>1. Writes(p, "obj", "clean", pos[p] - cnt[p] - 1, Chunk("OBJS", cnt[p]), 0)
    BY <1>10, WriteObjLenIs
  <2>2. SomeWrite(p) /\ pc'[p] \in {"clean", "done"}
    BY ONLY <1>0, <1>1, <2>1
  <2> QED
    BY ONLY <2>2
<1>11. CASE WriteClean(p)
  <2>1. Writes(p, "clean", "done", 1, CleanHdr, 0)
    BY <1>11, WriteCleanIs
  <2>2. SomeWrite(p) /\ pc'[p] \in {"done"}
    BY ONLY <1>0, <1>1, <2>1
  <2> QED
    BY ONLY <2>2
<1> QED
  BY <1>2, <1>3, <1>4, <1>5, <1>6, <1>7, <1>8, <1>9, <1>10, <1>11 DEF Write

\* TypeOK and Ready, in the first state and by every step.
LEMMA TypeInit ==
  ASSUME Init
  PROVE  TypeOK /\ Ready
<1>1. file = [exists |-> FALSE, cells |-> <<>>, older |-> FALSE, tainted |-> FALSE]
  BY DEF Init
<1>2. <<>> \in Seq(Cells)
  OBVIOUS
<1>3. file \in [exists : BOOLEAN, cells : Seq(Cells), older : BOOLEAN, tainted : BOOLEAN]
  BY ONLY <1>1, <1>2
<1>4. fails \in 0 .. MaxFails
  BY Constants DEF Init
<1>5. pc \in [Runs -> final \cup writing \cup {"start", "open", "read", "parse", "create"}]
  BY DEF Init
<1>6. data \in DOMAIN Data /\ ver \in [Runs -> DOMAIN Data]
  BY DEF Init
<1>7. roles \in [Runs -> Seq(Names \ {NoRole})]
  BY DEF Init
<1>8. DOMAIN tree = Runs /\ \A p \in Runs : tree[p] = <<>>
  BY DEF Init
<1>9. \A p \in Runs : DOMAIN tree[p] = {} /\ tree[p] \in [DOMAIN tree[p] -> Objs]
  <2>1. DOMAIN <<>> = {}
    OBVIOUS
  <2>2. <<>> \in [{} -> Objs]
    OBVIOUS
  <2> QED
    BY ONLY <1>8, <2>1, <2>2
<1>10. pos \in [Runs -> Nat] /\ size \in [Runs -> Nat] /\ cnt \in [Runs -> Nat]
  BY DEF Init
<1>11. spoilt \in [Runs -> BOOLEAN]
  BY DEF Init
<1>12. Ready
  BY DEF Init, Ready
<1>13. \A p \in Runs : DOMAIN tree[p] \subseteq Ids /\ tree[p] \in [DOMAIN tree[p] -> Objs]
  BY ONLY <1>9
<1> QED
  BY ONLY <1>3, <1>4, <1>5, <1>6, <1>7, <1>8, <1>10, <1>11, <1>12, <1>13 DEF TypeOK

LEMMA TypeStep ==
  ASSUME TypeOK, Ready, Next
  PROVE  TypeOK' /\ Ready'
<1> DEFINE Tree == /\ DOMAIN tree = Runs
                   /\ \A p \in Runs : DOMAIN tree[p] \subseteq Ids /\ tree[p] \in [DOMAIN tree[p] -> Objs]
           Run == /\ pc \in [Runs -> Places] /\ ver \in [Runs -> DOMAIN Data]
                  /\ roles \in [Runs -> Seq(Names \ {NoRole})]
                  /\ pos \in [Runs -> Nat] /\ size \in [Runs -> Nat] /\ cnt \in [Runs -> Nat]
                  /\ spoilt \in [Runs -> BOOLEAN]
           Outside == data \in DOMAIN Data /\ file \in Files /\ fails \in 0 .. MaxFails
<1>1. TypeOK <=> Outside /\ Run /\ Tree
  BY ONLY DEF TypeOK, Files, Places
<1>2. (TypeOK <=> Outside /\ Run /\ Tree)'
  BY ONLY DEF TypeOK, Files, Places
<1>3. Outside
  BY <1>1
<1>4. Run
  BY <1>1
<1>5. Tree
  BY <1>1
<1>6. Ready
  OBVIOUS
<1>p. /\ "open" \in Places /\ "read" \in Places /\ "parse" \in Places /\ "create" \in Places
      /\ "header" \in Places /\ "done" \in Places /\ "loaded" \in Places
      /\ "corrupt" \in Places /\ "dead" \in Places
  BY DEF Places, writing, final
<1>7. ASSUME NEW p \in Runs, Start(p)
      PROVE  TypeOK' /\ Ready'
  <2>1. /\ pc' = [pc EXCEPT ![p] = "open"] /\ ver' = [ver EXCEPT ![p] = data]
        /\ roles' = [roles EXCEPT ![p] = AddRoles(<<>>, RuleRoles[p])]
        /\ tree' = [tree EXCEPT ![p] = [id \in Made[p] |-> Obj(id, 0, InMem)]]
        /\ UNCHANGED <<data, file, fails, pos, size, cnt, spoilt>>
    BY <1>7 DEF Start, Goto
  <2>2. AddRoles(<<>>, RuleRoles[p]) \in Seq(Names \ {NoRole})
    <3>1. RuleRoles[p] \in Seq(Names \ {NoRole})
      BY RolesAre
    <3>2. /\ <<>> \in Seq(Names \ {NoRole}) /\ Len(RuleRoles[p]) \in Nat /\ NoRole \notin Names \ {NoRole}
          /\ \A n \in 1 .. Len(RuleRoles[p]) : RuleRoles[p][n] \in (Names \ {NoRole}) \cup {NoRole}
      BY ONLY <3>1
    <3> QED
      BY ONLY <3>2, AddRolesType
  <2>3. Outside'
    BY ONLY <1>3, <2>1
  <2>4. Run'
    BY ONLY <1>3, <1>4, <1>p, <2>1, <2>2, p \in Runs
  <2>5. Tree'
    <3>1. ASSUME NEW id \in Made[p]
          PROVE  Obj(id, 0, InMem) \in Objs /\ id \in Ids
      BY Constants DEF Obj, Objs, InMem
    <3> DEFINE made == [id \in Made[p] |-> Obj(id, 0, InMem)]
    <3>2. made \in [DOMAIN made -> Objs] /\ DOMAIN made \subseteq Ids
      BY ONLY <3>1
    <3>3. tree' = [tree EXCEPT ![p] = made]
      BY ONLY <2>1
    <3> HIDE DEF made
    <3> QED
      BY ONLY <1>5, <3>2, <3>3, p \in Runs
  <2>6. Ready'
    BY ONLY <1>4, <1>6, <2>1, p \in Runs DEF Ready
  <2> QED
    BY <1>2, <2>3, <2>4, <2>5, <2>6
<1>8. ASSUME NEW p \in Runs, Open(p)
      PROVE  TypeOK' /\ Ready'
  <2>1. /\ UNCHANGED <<data, file, fails, ver, roles, tree, cnt>>
        /\ spoilt' = [spoilt EXCEPT ![p] = file.tainted \/ ver[p] # data]
        /\ \/ pc' = [pc EXCEPT ![p] = "parse"] /\ pos' = pos /\ size' = size
           \/ pc' = [pc EXCEPT ![p] = "corrupt"] /\ pos' = pos /\ size' = size
           \/ /\ pc' = [pc EXCEPT ![p] = "read"] /\ pos' = [pos EXCEPT ![p] = 2]
              /\ size' = [size EXCEPT ![p] = Len(file.cells)]
    BY <1>8 DEF Open, Goto
  <2>2. Len(file.cells) \in Nat /\ file.tainted \in BOOLEAN
    BY FileType
  <2>3. Outside'
    BY ONLY <1>3, <2>1
  <2>a. pc' \in [Runs -> Places]
    BY ONLY <1>4, <1>p, <2>1, p \in Runs
  <2>b. pos' \in [Runs -> Nat]
    <3>1. pos' = pos \/ pos' = [pos EXCEPT ![p] = 2]
      BY ONLY <2>1
    <3>2. pos \in [Runs -> Nat] /\ 2 \in Nat
      BY ONLY <1>4
    <3> QED
      BY ONLY <3>1, <3>2
  <2>4. size' \in [Runs -> Nat]
    BY ONLY <1>4, <2>1, <2>2, p \in Runs
  <2>5. spoilt' \in [Runs -> BOOLEAN]
    BY ONLY <1>4, <2>1, <2>2, p \in Runs
  <2>6. Run'
    BY ONLY <1>4, <2>1, <2>a, <2>b, <2>4, <2>5
  <2>7. Tree'
    BY ONLY <1>5, <2>1
  <2>8. Ready'
    BY ONLY <1>4, <1>6, <2>1, p \in Runs DEF Ready
  <2> QED
    BY <1>2, <2>3, <2>6, <2>7, <2>8
<1>9. ASSUME NEW p \in Runs, ReadChunk(p)
      PROVE  TypeOK' /\ Ready'
  <2>1. /\ UNCHANGED <<data, file, fails, ver, size, cnt>> /\ spoilt' \in [Runs -> BOOLEAN]
        /\ pos' \in [Runs -> Nat] /\ pc' \in [Runs -> Places] /\ pc'[p] \in {"read", "parse", "dead"}
        /\ \A q \in Runs : q # p => pc'[q] = pc[q] /\ pos'[q] = pos[q]
        /\ (tree' = tree /\ roles' = roles) \/ SomeRead(p)
    BY <1>9, ReadChunkIs DEF Turn
  <2>2. Outside'
    BY ONLY <1>3, <2>1
  <2>3. Ready'
    BY ONLY <1>6, <2>1 DEF Ready
  <2>4. CASE tree' = tree /\ roles' = roles
    <3>1. Run' /\ Tree'
      BY ONLY <1>4, <1>5, <2>1, <2>4
    <3> QED
      BY <1>2, <2>2, <2>3, <3>1
  <2>5. ASSUME NEW n \in Nat, NEW body \in Seq(Cells), ReadRoles(p, body, n)
        PROVE  TypeOK' /\ Ready'
    <3>1. PICK names : /\ Len(names) \in 0 .. Len(body)
                       /\ \A i \in 1 .. Len(names) : names[i] \in Names \cup {NoRole}
                       /\ roles' = [roles EXCEPT ![p] = AddRoles(roles[p], names)] /\ tree' = tree
      BY <2>5, ReadRolesIs
    <3>2. AddRoles(roles[p], names) \in Seq(Names \ {NoRole})
      <4>1. /\ roles[p] \in Seq(Names \ {NoRole}) /\ Len(names) \in Nat /\ NoRole \notin Names \ {NoRole}
            /\ \A k \in 1 .. Len(names) : names[k] \in (Names \ {NoRole}) \cup {NoRole}
        BY ONLY <1>4, <2>5, <3>1, p \in Runs
      <4> QED
        BY ONLY <4>1, AddRolesType
    <3>3. Run'
      BY ONLY <1>4, <2>1, <3>1, <3>2, p \in Runs
    <3>4. Tree'
      BY ONLY <1>5, <3>1
    <3> QED
      BY <1>2, <2>2, <2>3, <3>3, <3>4
  <2>6. ASSUME NEW n \in Nat, NEW body \in Seq(Cells), ReadObjs(p, body, n)
        PROVE  TypeOK' /\ Ready'
    <3>1. PICK m \in 0 .. Len(body) :
           LET ids == {body[i].id : i \in 1 .. m} IN
           /\ \A i \in 1 .. m : body[i] \in Objs
           /\ DOMAIN tree' = Runs /\ \A q \in Runs : q # p => tree'[q] = tree[q]
           /\ DOMAIN tree'[p] = ids \cup DOMAIN tree[p]
           /\ tree'[p] = [id \in DOMAIN tree'[p] |-> tree'[p][id]]
           /\ \A id \in ids : \E i \in 1 .. m : /\ body[i].id = id
                                                /\ tree'[p][id] = Relocated(p, body[i])
           /\ \A id \in DOMAIN tree[p] \ ids : tree'[p][id] = tree[p][id]
           /\ roles' = roles
      BY <2>6, ReadObjsIs DEF Taken
    <3> DEFINE ids == {body[i].id : i \in 1 .. m}
    <3>2. \A i \in 1 .. m : body[i].id \in Ids /\ Relocated(p, body[i]) \in Objs
      <4>1. \A o \in Objs : o.id \in Ids
        BY DEF Objs
      <4> QED
        BY <3>1, <4>1, RelocatedIs
    <3>3. ASSUME NEW id \in DOMAIN tree'[p]
          PROVE  id \in Ids /\ tree'[p][id] \in Objs
      <4>1. CASE id \in ids
        BY <3>1, <3>2, <4>1
      <4>2. CASE id \in DOMAIN tree[p] \ ids
        <5>1. id \in Ids /\ tree[p][id] \in Objs
          BY ONLY <1>5, <4>2, p \in Runs
        <5> QED
          BY ONLY <3>1, <4>2, <5>1
      <4>3. DOMAIN tree'[p] = ids \cup DOMAIN tree[p]
        BY ONLY <3>1
      <4> QED
        BY ONLY <3>3, <4>1, <4>2, <4>3
    <3>4. DOMAIN tree' = Runs /\ (\A q \in Runs : q # p => tree'[q] = tree[q])
          /\ tree'[p] = [id \in DOMAIN tree'[p] |-> tree'[p][id]] /\ roles' = roles
      BY ONLY <3>1
    <3>5. tree'[p] \in [DOMAIN tree'[p] -> Objs] /\ DOMAIN tree'[p] \subseteq Ids
      BY ONLY <3>3, <3>4
    <3>6. Tree'
      BY ONLY <1>5, <3>4, <3>5
    <3>7. Run'
      BY ONLY <1>4, <2>1, <3>4
    <3> QED
      BY <1>2, <2>2, <2>3, <3>6, <3>7
  <2> QED
    BY ONLY <2>1, <2>4, <2>5, <2>6 DEF SomeRead
<1>10. ASSUME NEW p \in Runs, ReadEnd(p) \/ Kill(p)
       PROVE  TypeOK' /\ Ready'
  <2>1. /\ UNCHANGED <<data, file, fails, ver, roles, tree, pos, size, cnt, spoilt>>
        /\ \E l \in {"loaded", "dead"} : pc' = [pc EXCEPT ![p] = l]
    BY <1>10 DEF ReadEnd, Kill, Goto
  <2>2. Outside' /\ Tree'
    BY ONLY <1>3, <1>5, <2>1
  <2>3. Run'
    BY ONLY <1>4, <1>p, <2>1, p \in Runs
  <2>4. Ready'
    BY ONLY <1>4, <1>6, <2>1, p \in Runs DEF Ready
  <2> QED
    BY <1>2, <2>2, <2>3, <2>4
<1>11. ASSUME NEW p \in Runs, Parse(p)
       PROVE  TypeOK' /\ Ready'
  <2> DEFINE v == ver[p]
             t == AddRoles(roles[p], DataRoles[v])
  <2>1. /\ UNCHANGED <<data, file, fails, ver, cnt, spoilt>>
        /\ pc' = [pc EXCEPT ![p] = "create"] /\ pos' = [pos EXCEPT ![p] = 1] /\ size' = [size EXCEPT ![p] = 0]
        /\ t \in Seq(Names \ {NoRole}) /\ roles' = [roles EXCEPT ![p] = t]
        /\ DOMAIN tree' = Runs /\ \A q \in Runs : q # p => tree'[q] = tree[q]
        /\ DOMAIN tree'[p] = DOMAIN Data[v] \cup DOMAIN tree[p]
        /\ tree'[p] = [id \in DOMAIN tree'[p] |-> tree'[p][id]]
        /\ \A id \in DOMAIN Data[v] : tree'[p][id] \in Objs
        /\ \A id \in DOMAIN tree[p] \ DOMAIN Data[v] : tree'[p][id] = tree[p][id]
    BY <1>11, ParseIs
  <2>2. v \in DOMAIN Data
    BY ONLY <1>4, p \in Runs
  <2>3. DOMAIN Data[v] \subseteq Ids
    BY ONLY <2>2, Constants
  <2> HIDE DEF v, t
  <2>4. ASSUME NEW id \in DOMAIN tree'[p]
        PROVE  id \in Ids /\ tree'[p][id] \in Objs
    BY ONLY <1>5, <2>1, <2>3, <2>4, p \in Runs
  <2>5. tree'[p] \in [DOMAIN tree'[p] -> Objs] /\ DOMAIN tree'[p] \subseteq Ids
    BY ONLY <2>1, <2>4
  <2>6. Tree'
    BY ONLY <1>5, <2>1, <2>5
  <2>7. Run'
    BY ONLY <1>4, <1>p, <2>1, p \in Runs
  <2>8. Outside'
    BY ONLY <1>3, <2>1
  <2>9. Ready'
    BY ONLY <1>4, <1>6, <2>1, p \in Runs DEF Ready
  <2> QED
    BY <1>2, <2>6, <2>7, <2>8, <2>9
<1>12. ASSUME NEW p \in Runs, Create(p)
       PROVE  TypeOK' /\ Ready'
  <2>1. /\ UNCHANGED <<data, fails, ver, roles, tree, pos, size, cnt>>
        /\ \E l \in {"header", "done"} : pc' = [pc EXCEPT ![p] = l]
        /\ \/ UNCHANGED <<file, spoilt>>
           \/ /\ file' = [exists |-> TRUE, cells |-> <<>>, older |-> FALSE,
                          tainted |-> Writers # {} \/ spoilt[p] \/ ver[p] # data]
              /\ spoilt' = [q \in Runs |-> spoilt[q] \/ pc[q] = "read"]
    BY <1>12 DEF Create, Goto
  <2>2. <<>> \in Seq(Cells) /\ \A q \in Runs : spoilt[q] \in BOOLEAN
    BY ONLY <1>4
  <2>3. file' \in Files
    <3> DEFINE stain == Writers # {} \/ spoilt[p] \/ ver[p] # data
    <3>1. stain \in BOOLEAN
      OBVIOUS
    <3>2. file' = file \/ file' = [exists |-> TRUE, cells |-> <<>>, older |-> FALSE, tainted |-> stain]
      BY ONLY <2>1
    <3> HIDE DEF stain
    <3>3. ASSUME NEW e \in Seq(Cells), NEW b \in BOOLEAN
          PROVE  [exists |-> TRUE, cells |-> e, older |-> FALSE, tainted |-> b] \in Files
      BY ONLY DEF Files
    <3>4. [exists |-> TRUE, cells |-> <<>>, older |-> FALSE, tainted |-> stain] \in Files
      BY ONLY <2>2, <3>1, <3>3, Zenon
    <3> QED
      BY ONLY <1>3, <3>2, <3>4, Zenon
  <2>4. spoilt' \in [Runs -> BOOLEAN]
    BY ONLY <1>4, <2>1, <2>2
  <2>5. Outside' /\ Tree'
    BY ONLY <1>3, <1>5, <2>1, <2>3
  <2>6. pc' \in [Runs -> Places]
    BY ONLY <1>4, <1>p, <2>1, p \in Runs
  <2>7. Run'
    BY ONLY <1>4, <2>1, <2>4, <2>6
  <2>8. Ready'
    BY ONLY <1>4, <1>6, <2>1, p \in Runs DEF Ready
  <2> QED
    BY <1>2, <2>5, <2>7, <2>8
<1>13. ASSUME NEW p \in Runs, SomeWrite(p) /\ (pc'[p] = "obj" => size'[p] >= 1)
       PROVE  TypeOK' /\ Ready'
  <2>1. PICK there \in writing \cup {"done"} :
          /\ file' \in Files /\ fails' \in 0 .. MaxFails
          /\ pos' \in [Runs -> Nat] /\ size' \in [Runs -> Nat] /\ cnt' \in [Runs -> Nat]
          /\ pc' \in [Runs -> Places] /\ pc'[p] \in {there, "done"}
          /\ \A q \in Runs : q # p => pc'[q] = pc[q] /\ pos'[q] = pos[q] /\ size'[q] = size[q]
          /\ UNCHANGED <<data, ver, roles, tree, spoilt>>
    BY <1>13 DEF SomeWrite, Writes
  <2>2. pc'[p] # "create"
    BY ONLY <2>1 DEF writing
  <2>3. Outside' /\ Tree'
    BY ONLY <1>3, <1>5, <2>1
  <2>4. Run'
    BY ONLY <1>4, <2>1
  <2>5. Ready'
    BY ONLY <1>6, <1>13, <2>1, <2>2 DEF Ready
  <2> QED
    BY <1>2, <2>3, <2>4, <2>5
<1>14. ASSUME Edit
       PROVE  TypeOK' /\ Ready'
  <2>1. data' \in DOMAIN Data /\ file' = [file EXCEPT !.older = TRUE] /\ UNCHANGED <<fails, run>>
    BY <1>14 DEF Edit
  <2>2. file' \in Files
    BY ONLY <1>3, <2>1 DEF Files
  <2>3. Outside'
    BY ONLY <1>3, <2>1, <2>2
  <2>4. Run' /\ Tree'
    BY ONLY <1>4, <1>5, <2>1 DEF run
  <2>5. Ready'
    BY ONLY <1>6, <2>1 DEF run, Ready
  <2> QED
    BY <1>2, <2>3, <2>4, <2>5
<1> HIDE DEF Outside, Run, Tree
<1>15. ASSUME NEW p \in Runs, Write(p)
       PROVE  TypeOK' /\ Ready'
  BY <1>12, <1>13, <1>15, WriteCases
<1> QED
  BY <1>7, <1>8, <1>9, <1>10, <1>11, <1>14, <1>15 DEF Next

(***************************************************************************)
(* Parsed runs, and the author of the index                                *)
(***************************************************************************)
Keeps(q) ==
  /\ pc'[q] = pc[q] /\ ver'[q] = ver[q] /\ roles'[q] = roles[q] /\ tree'[q] = tree[q]
  /\ pos'[q] = pos[q] /\ size'[q] = size[q] /\ cnt'[q] = cnt[q]

RunStep(p) == Start(p) \/ Open(p) \/ ReadChunk(p) \/ ReadEnd(p) \/ Parse(p) \/ Write(p) \/ Kill(p)

\* A step of a run leaves what the others have alone.
LEMMA Others ==
  ASSUME TypeOK, Ready, NEW p \in Runs, RunStep(p), NEW q \in Runs, q # p
  PROVE  Keeps(q)
<1>0. /\ pc \in [Runs -> Places] /\ ver \in [Runs -> DOMAIN Data] /\ roles \in [Runs -> Seq(Names \ {NoRole})]
      /\ pos \in [Runs -> Nat] /\ size \in [Runs -> Nat] /\ cnt \in [Runs -> Nat] /\ DOMAIN tree = Runs
  BY DEF TypeOK, Places
<1>1. CASE Start(p)
  BY <1>0, <1>1 DEF Start, Goto, Keeps
<1>2. CASE Open(p)
  BY <1>0, <1>2 DEF Open, Goto, Keeps
<1>3. CASE ReadChunk(p)
  <2>1. /\ UNCHANGED <<data, file, fails, ver, size, cnt>>
        /\ \A r \in Runs : r # p => pc'[r] = pc[r] /\ pos'[r] = pos[r]
        /\ (tree' = tree /\ roles' = roles) \/ SomeRead(p)
    BY <1>3, ReadChunkIs DEF Turn
  <2>2. roles'[q] = roles[q] /\ tree'[q] = tree[q]
    <3>1. ASSUME NEW n \in Nat, NEW body \in Seq(Cells), ReadRoles(p, body, n)
          PROVE  roles'[q] = roles[q] /\ tree'[q] = tree[q]
      BY <1>0, <3>1, ReadRolesIs
    <3>2. ASSUME NEW n \in Nat, NEW body \in Seq(Cells), ReadObjs(p, body, n)
          PROVE  roles'[q] = roles[q] /\ tree'[q] = tree[q]
      <4>1. PICK m \in 0 .. Len(body) : roles' = roles /\ \A r \in Runs : r # p => tree'[r] = tree[r]
        BY <3>2, ReadObjsIs DEF Taken
      <4> QED
        BY ONLY <4>1, q \in Runs, q # p
    <3> QED
      BY <2>1, <3>1, <3>2 DEF SomeRead
  <2> QED
    BY <2>1, <2>2 DEF Keeps
<1>4. CASE ReadEnd(p) \/ Kill(p)
  BY <1>0, <1>4 DEF ReadEnd, Kill, Goto, Keeps
<1>5. CASE Parse(p)
  <2>1. /\ pc' = [pc EXCEPT ![p] = "create"] /\ ver' = ver /\ pos' = [pos EXCEPT ![p] = 1]
        /\ size' = [size EXCEPT ![p] = 0] /\ cnt' = cnt /\ tree'[q] = tree[q]
        /\ roles' = [roles EXCEPT ![p] = AddRoles(roles[p], DataRoles[ver[p]])]
    BY <1>5, ParseIs
  <2> QED
    BY <1>0, <2>1 DEF Keeps
<1>6. CASE Create(p)
  BY <1>0, <1>6 DEF Create, Goto, Keeps
<1>7. CASE SomeWrite(p)
  BY <1>7 DEF SomeWrite, Writes, Keeps
<1> QED
  BY <1>1, <1>2, <1>3, <1>4, <1>5, <1>6, <1>7, WriteCases DEF RunStep

\* A step is one of a run, or an edit of the data.
LEMMA NextIs ==
  ASSUME Next
  PROVE  Edit \/ \E p \in Runs : RunStep(p)
BY DEF Next, RunStep

After == writing \cup {"create", "done"}

\* Who gets past the parsing has parsed, or got past it before.
LEMMA AfterParse ==
  ASSUME TypeOK, Ready, NEW p \in Runs, RunStep(p), pc'[p] \in After, ~Parse(p)
  PROVE  /\ pc[p] \in After /\ ver' = ver /\ roles' = roles /\ tree' = tree
         /\ Write(p)
<1>0. pc \in [Runs -> Places]
  BY DEF TypeOK, Places
<1>1. CASE Start(p)
  <2>1. pc'[p] = "open"
    BY <1>0, <1>1 DEF Start, Goto
  <2> QED
    BY <2>1 DEF After, writing
<1>2. CASE Open(p)
  <2>1. pc'[p] \in {"parse", "corrupt", "read"}
    BY <1>0, <1>2 DEF Open, Goto
  <2> QED
    BY <2>1 DEF After, writing
<1>3. CASE ReadChunk(p)
  <2>1. pc'[p] \in {"read", "parse", "dead"}
    BY <1>3, ReadChunkIs DEF Turn
  <2> QED
    BY <2>1 DEF After, writing
<1>4. CASE ReadEnd(p) \/ Kill(p)
  <2>1. pc'[p] \in {"loaded", "dead"}
    BY <1>0, <1>4 DEF ReadEnd, Kill, Goto
  <2> QED
    BY <2>1 DEF After, writing
<1>6. CASE Create(p)
  BY <1>6 DEF Create, After, Write
<1>7. CASE SomeWrite(p) /\ Write(p)
  BY <1>7 DEF SomeWrite, Writes, After
<1> QED
  BY <1>1, <1>2, <1>3, <1>4, <1>6, <1>7, WriteCases DEF RunStep

\* Parsing puts the roles of the data, with numbers in the table of the run.
LEMMA ParsedStep ==
  ASSUME TypeOK, Ready, Parsed, Next
  PROVE  Parsed'
<1>0. \A q \in Runs : pc[q] \in After => IsData(tree[q], ver[q], roles[q])
  BY DEF Parsed, After
<1> SUFFICES ASSUME NEW q \in Runs, pc'[q] \in After
             PROVE  IsData(tree'[q], ver'[q], roles'[q])
  BY DEF Parsed, After
<1>1. CASE Edit
  BY <1>0, <1>1 DEF Edit, run
<1>2. ASSUME NEW p \in Runs, RunStep(p)
      PROVE  IsData(tree'[q], ver'[q], roles'[q])
  <2>1. CASE q # p
    BY <1>0, <1>2, <2>1, Others DEF Keeps
  <2>2. CASE q = p /\ ~Parse(p)
    BY <1>0, <1>2, <2>2, AfterParse
  <2>3. CASE q = p /\ Parse(p)
    <3> DEFINE t == AddRoles(roles[p], DataRoles[ver[p]])
    <3>1. /\ ver' = ver /\ roles' = [roles EXCEPT ![p] = t]
          /\ DOMAIN tree'[p] = DOMAIN Data[ver[p]] \cup DOMAIN tree[p]
          /\ \A id \in DOMAIN Data[ver[p]] : Meant(tree'[p][id], ver[p], t, id)
      BY <2>3, ParseIs
    <3> HIDE DEF t
    <3>2. roles \in [Runs -> Seq(Names \ {NoRole})]
      BY DEF TypeOK
    <3>3. roles'[p] = t
      BY <3>1, <3>2
    <3> QED
      BY <2>3, <3>1, <3>3 DEF IsData
  <2> QED
    BY <2>1, <2>2, <2>3
<1> QED
  BY <1>1, <1>2, NextIs

\* What is so of the one writer of an untainted index
Author(p) == Writers = {p} /\ file.exists = TRUE /\ spoilt[p] = FALSE /\ Place(p) /\ Layout(p)

\* Alone, by author.
LEMMA AloneIs ==
  Alone <=> (~file.tainted => \A p \in Writers : Author(p))
BY DEF Alone, Author

\* A step that does not write keeps it.
LEMMA AloneKept ==
  ASSUME Alone, ~file'.tainted => ~file.tainted, file'.cells = file.cells, file'.exists = file.exists,
         \A q \in Writers' : q \in Writers /\ Keeps(q) /\ spoilt'[q] = spoilt[q]
  PROVE  Alone'
<1> SUFFICES ASSUME ~file'.tainted, NEW q \in Writers'
             PROVE  Author(q)'
  BY DEF Alone, Author
<1>1. q \in Writers /\ Keeps(q) /\ spoilt'[q] = spoilt[q] /\ Author(q)
  BY DEF Alone, Author
<1>2. Writers' = {q}
  BY <1>1 DEF Author
<1>3. Place(q)'
  BY ONLY <1>1 DEF Author, Place, Keeps
<1>4. Past(q)' = Past(q)
  BY ONLY <1>1 DEF Past, Keeps
<1>5. Stored(q) => Stored(q)'
  BY ONLY <1>1, <1>4, file'.cells = file.cells DEF Stored, Keeps
<1>6. Layout(q)'
  <2>1. Layout(q)
    BY <1>1 DEF Author
  <2> QED
    BY ONLY <1>1, <1>5, <2>1, file'.cells = file.cells DEF Layout, Keeps
<1> QED
  BY <1>1, <1>2, <1>3, <1>6 DEF Author

\* The author's write of the cell c at i
Authored(p, here, there, i, c, move) ==
  /\ pc[p] = here /\ pc'[p] = there /\ pos'[p] = pos[p] + move /\ roles'[p] = roles[p] /\ tree'[p] = tree[p]
  /\ ver[p] = data /\ data' = data /\ Author(p) /\ ~file.tainted
  /\ file'.exists = TRUE /\ file'.older = FALSE /\ spoilt'[p] = FALSE
  /\ Writers' \subseteq {p}
  /\ Len(file.cells) = pos[p] - 1
  /\ i = pos[p] => /\ Len(file'.cells) = pos[p] /\ file'.cells[i] = c
                   /\ \A j \in 1 .. pos[p] - 1 : file'.cells[j] = file.cells[j]
  /\ i \in 1 .. pos[p] - 1 =>
       /\ Len(file'.cells) = pos[p] - 1 /\ file'.cells[i] = c
       /\ \A j \in 1 .. pos[p] - 1 : j # i => file'.cells[j] = file.cells[j]

\* A step that writes, and taints nothing, is one of the only author.
LEMMA AuthorIs ==
  ASSUME TypeOK, Alone, NEW p \in Runs, NEW here \in writing, NEW there, NEW i, NEW c, NEW move,
         Writes(p, here, there, i, c, move), ~file'.tainted
  PROVE  Authored(p, here, there, i, c, move)
<1>1. /\ pc[p] = here /\ pc'[p] = there /\ pos'[p] = pos[p] + move /\ i \in Int /\ c \in Cells
      /\ Wrote(p, i, c) /\ UNCHANGED <<data, ver, roles, tree, spoilt>>
      /\ \A q \in Runs : q # p => pc'[q] = pc[q]
  BY DEF Writes
<1>2. /\ file'.exists = file.exists /\ file'.older = FALSE
      /\ ~file'.tainted => ~file.tainted /\ ver[p] = data
      /\ i = Len(file.cells) + 1 =>
           /\ Len(file'.cells) = i /\ file'.cells[i] = c
           /\ \A j \in 1 .. Len(file.cells) : file'.cells[j] = file.cells[j]
      /\ i \in 1 .. Len(file.cells) =>
           /\ Len(file'.cells) = Len(file.cells) /\ file'.cells[i] = c
           /\ \A j \in 1 .. Len(file.cells) : j # i => file'.cells[j] = file.cells[j]
  BY <1>1, WroteIs
<1>3. ~file.tainted /\ ver[p] = data
  BY <1>2
<1>4. p \in Writers
  BY <1>1 DEF Writers
<1>5. Author(p)
  BY <1>3, <1>4 DEF Alone, Author
<1>6. Writers = {p} /\ file.exists = TRUE /\ spoilt[p] = FALSE /\ Len(file.cells) = pos[p] - 1
  BY <1>5 DEF Author, Layout
<1>7. Writers' \subseteq {p}
  BY <1>1, <1>6 DEF Writers
<1>8. pos[p] \in Nat /\ Len(file.cells) \in Nat
  BY FileType DEF TypeOK
<1>9. i = pos[p] => i = Len(file.cells) + 1
  BY <1>6, <1>8
<1> QED
  BY ONLY <1>1, <1>2, <1>3, <1>5, <1>6, <1>7, <1>9 DEF Authored

\* If its place and the layout are kept, nothing else is to be shown.
LEMMA AuthorKept ==
  ASSUME TypeOK, Alone, NEW p \in Runs, NEW here \in writing, NEW there, NEW i, NEW c, NEW move,
         Writes(p, here, there, i, c, move), ~file'.tainted /\ there \in writing => Place(p)' /\ Layout(p)'
  PROVE  Alone'
<1> SUFFICES ASSUME ~file'.tainted, NEW q \in Writers'
             PROVE  Author(q)'
  BY DEF Alone, Author
<1>0. Authored(p, here, there, i, c, move)
  BY AuthorIs
<1>1. pc'[p] = there /\ file'.exists = TRUE /\ spoilt'[p] = FALSE /\ Writers' \subseteq {p}
  BY ONLY <1>0 DEF Authored
<1>2. q = p /\ Writers' = {p} /\ there \in writing
  BY <1>1 DEF Writers
<1> QED
  BY <1>1, <1>2 DEF Author

\* One lemma for each write: the cells are those of the layout up to the new place.
LEMMA HeaderAlone ==
  ASSUME TypeOK, Alone, NEW p \in Runs, WriteHeader(p)
  PROVE  Alone'
<1>1. Writes(p, "header", "rolehdr", 1, DirtyHdr, 1) /\ "header" \in writing
  BY WriteHeaderIs DEF writing
<1>2. ASSUME ~file'.tainted
      PROVE  Place(p)' /\ Layout(p)'
  <2>0. Authored(p, "header", "rolehdr", 1, DirtyHdr, 1)
    BY <1>1, <1>2, AuthorIs
  <2>1. /\ pc[p] = "header" /\ pc'[p] = "rolehdr" /\ pos'[p] = pos[p] + 1 /\ Author(p)
        /\ 1 = pos[p] => Len(file'.cells) = pos[p] /\ file'.cells[1] = DirtyHdr
    BY ONLY <2>0 DEF Authored
  <2>2. pos[p] = 1
    BY <2>1 DEF Author, Place
  <2>3. Place(p)'
    BY ONLY <2>1, <2>2 DEF Place
  <2>4. Layout(p)'
    BY ONLY <2>1, <2>2 DEF Layout
  <2> QED
    BY <2>3, <2>4
<1> QED
  BY <1>1, <1>2, AuthorKept

LEMMA RoleHdrAlone ==
  ASSUME TypeOK, Alone, NEW p \in Runs, WriteRoleHdr(p)
  PROVE  Alone'
<1>1. Writes(p, "rolehdr", "role", pos[p], Chunk("ROLE", 0), 1) /\ "rolehdr" \in writing /\ cnt'[p] = 0
  BY WriteRoleHdrIs DEF writing
<1>0. Len(roles[p]) \in Nat
  BY DEF TypeOK
<1>2. ASSUME ~file'.tainted
      PROVE  Place(p)' /\ Layout(p)'
  <2>0. Authored(p, "rolehdr", "role", pos[p], Chunk("ROLE", 0), 1)
    BY <1>1, <1>2, AuthorIs
  <2>1. /\ pc[p] = "rolehdr" /\ pc'[p] = "role" /\ pos'[p] = pos[p] + 1 /\ roles'[p] = roles[p] /\ Author(p)
        /\ Len(file'.cells) = pos[p] /\ \A j \in 1 .. pos[p] - 1 : file'.cells[j] = file.cells[j]
    BY ONLY <2>0 DEF Authored
  <2>2. pos[p] = 2 /\ file.cells[1] = DirtyHdr
    BY <2>1 DEF Author, Place, Layout
  <2>3. Place(p)'
    BY ONLY <1>0, <1>1, <2>1, <2>2 DEF Place
  <2>4. Layout(p)'
    BY ONLY <1>0, <2>1, <2>2 DEF Layout
  <2> QED
    BY <2>3, <2>4
<1> QED
  BY <1>1, <1>2, AuthorKept

LEMMA RoleAlone ==
  ASSUME TypeOK, Alone, NEW p \in Runs, WriteRole(p)
  PROVE  Alone'
<1>1. /\ Writes(p, "role", "role", pos[p], Role(roles[p][cnt[p] + 1]), 1) /\ "role" \in writing
      /\ cnt'[p] = cnt[p] + 1 /\ cnt[p] < Len(roles[p])
  BY WriteRoleIs DEF writing
<1>0. Len(roles[p]) \in Nat /\ cnt[p] \in Nat
  BY DEF TypeOK
<1>2. ASSUME ~file'.tainted
      PROVE  Place(p)' /\ Layout(p)'
  <2>0. Authored(p, "role", "role", pos[p], Role(roles[p][cnt[p] + 1]), 1)
    BY <1>1, <1>2, AuthorIs
  <2>1. /\ pc[p] = "role" /\ pc'[p] = "role" /\ pos'[p] = pos[p] + 1 /\ roles'[p] = roles[p] /\ Author(p)
        /\ Len(file'.cells) = pos[p] /\ file'.cells[pos[p]] = Role(roles[p][cnt[p] + 1])
        /\ \A j \in 1 .. pos[p] - 1 : file'.cells[j] = file.cells[j]
    BY ONLY <2>0 DEF Authored
  <2>2. /\ pos[p] = cnt[p] + 3 /\ file.cells[1] = DirtyHdr
        /\ \A i \in 3 .. Len(roles[p]) + 2 : i < pos[p] => file.cells[i] = Role(roles[p][i - 2])
    BY <2>1 DEF Author, Place, Layout
  <2>3. Place(p)'
    BY ONLY <1>0, <1>1, <2>1, <2>2 DEF Place
  <2>4. ASSUME NEW i \in 3 .. Len(roles[p]) + 2, i < pos'[p]
        PROVE  file'.cells[i] = Role(roles[p][i - 2])
    <3>0. pos'[p] = pos[p] + 1 /\ pos[p] \in Nat /\ i \in Nat /\ i >= 3
      <4>1. pos'[p] = pos[p] + 1 /\ pos[p] = cnt[p] + 3
        BY ONLY <2>1, <2>2
      <4> QED
        BY ONLY <1>0, <4>1, i \in 3 .. Len(roles[p]) + 2
    <3>1. i = pos[p] \/ (i \in 1 .. pos[p] - 1 /\ i < pos[p])
      BY ONLY <3>0, i < pos'[p]
    <3>2. CASE i = pos[p]
      <4>1. i - 2 = cnt[p] + 1
        BY ONLY <1>0, <2>2, <3>2
      <4> QED
        BY <2>1, <3>2, <4>1
    <3>3. CASE i \in 1 .. pos[p] - 1 /\ i < pos[p]
      BY <2>1, <2>2, <3>3
    <3> QED
      BY <3>1, <3>2, <3>3
  <2>5. file'.cells[1] = DirtyHdr
    BY ONLY <1>0, <2>1, <2>2
  <2>6. Len(file'.cells) = pos'[p] - 1
    BY ONLY <1>0, <2>1, <2>2
  <2>7. Layout(p)'
    BY ONLY <2>1, <2>4, <2>5, <2>6 DEF Layout
  <2> QED
    BY <2>3, <2>7
<1> QED
  BY <1>1, <1>2, AuthorKept

LEMMA RoleLenAlone ==
  ASSUME TypeOK, Alone, NEW p \in Runs, WriteRoleLen(p)
  PROVE  Alone'
<1>1. /\ Writes(p, "role", "dsts", pos[p] - cnt[p] - 1, Chunk("ROLE", cnt[p]), 0) /\ "role" \in writing
      /\ cnt[p] = Len(roles[p])
  BY WriteRoleLenIs DEF writing
<1>0. Len(roles[p]) \in Nat /\ cnt[p] \in Nat
  BY DEF TypeOK
<1>2. ASSUME ~file'.tainted
      PROVE  Place(p)' /\ Layout(p)'
  <2> DEFINE k == pos[p] - cnt[p] - 1
  <2>0. Authored(p, "role", "dsts", pos[p] - cnt[p] - 1, Chunk("ROLE", cnt[p]), 0)
    BY <1>1, <1>2, AuthorIs
  <2>1. /\ pc[p] = "role" /\ pc'[p] = "dsts" /\ pos'[p] = pos[p] + 0 /\ roles'[p] = roles[p] /\ Author(p)
        /\ k \in 1 .. pos[p] - 1 =>
             /\ Len(file'.cells) = pos[p] - 1 /\ file'.cells[k] = Chunk("ROLE", cnt[p])
             /\ \A j \in 1 .. pos[p] - 1 : j # k => file'.cells[j] = file.cells[j]
    BY ONLY <2>0 DEF Authored
  <2>2. /\ pos[p] = cnt[p] + 3 /\ file.cells[1] = DirtyHdr
        /\ \A i \in 3 .. Len(roles[p]) + 2 : i < pos[p] => file.cells[i] = Role(roles[p][i - 2])
    BY <2>1 DEF Author, Place, Layout
  <2>3. k = 2 /\ k \in 1 .. pos[p] - 1
    BY ONLY <1>0, <2>2
  <2> HIDE DEF k
  <2>4. Place(p)'
    BY ONLY <1>0, <1>1, <2>1, <2>2 DEF Place
  <2>5. file'.cells[1] = DirtyHdr /\ file'.cells[2] = Chunk("ROLE", Len(roles[p])) /\ Len(file'.cells) = pos'[p] - 1
    BY ONLY <1>0, <1>1, <2>1, <2>2, <2>3
  <2>6. ASSUME NEW i \in 3 .. Len(roles[p]) + 2
        PROVE  file'.cells[i] = Role(roles[p][i - 2])
    <3>1. i \in 1 .. pos[p] - 1 /\ i # k /\ i < pos[p]
      BY ONLY <1>0, <1>1, <2>2, <2>3
    <3> QED
      BY <2>1, <2>2, <2>3, <3>1
  <2>7. Layout(p)'
    BY ONLY <2>1, <2>5, <2>6 DEF Layout
  <2> QED
    BY <2>4, <2>7
<1> QED
  BY <1>1, <1>2, AuthorKept

LEMMA DstatsAlone ==
  ASSUME TypeOK, Alone, NEW p \in Runs, WriteDstats(p)
  PROVE  Alone'
<1>1. Writes(p, "dsts", "objhdr", pos[p], Chunk("DSTS", 0), 1) /\ "dsts" \in writing
  BY WriteDstatsIs DEF writing
<1>0. Len(roles[p]) \in Nat
  BY DEF TypeOK
<1>2. ASSUME ~file'.tainted
      PROVE  Place(p)' /\ Layout(p)'
  <2>0. Authored(p, "dsts", "objhdr", pos[p], Chunk("DSTS", 0), 1)
    BY <1>1, <1>2, AuthorIs
  <2>1. /\ pc[p] = "dsts" /\ pc'[p] = "objhdr" /\ pos'[p] = pos[p] + 1 /\ roles'[p] = roles[p] /\ Author(p)
        /\ Len(file'.cells) = pos[p] /\ file'.cells[pos[p]] = Chunk("DSTS", 0)
        /\ \A j \in 1 .. pos[p] - 1 : file'.cells[j] = file.cells[j]
    BY ONLY <2>0 DEF Authored
  <2>2. /\ pos[p] = Len(roles[p]) + 3 /\ file.cells[1] = DirtyHdr
        /\ file.cells[2] = Chunk("ROLE", Len(roles[p]))
        /\ \A i \in 3 .. Len(roles[p]) + 2 : i < pos[p] => file.cells[i] = Role(roles[p][i - 2])
    BY <2>1 DEF Author, Place, Layout
  <2>3. Place(p)'
    BY ONLY <1>0, <2>1, <2>2 DEF Place
  <2>4. ASSUME NEW i \in 3 .. Len(roles[p]) + 2
        PROVE  file'.cells[i] = Role(roles[p][i - 2])
    <3>1. i \in 1 .. pos[p] - 1 /\ i < pos[p]
      BY ONLY <1>0, <2>2
    <3> QED
      BY <2>1, <2>2, <3>1
  <2>5. /\ file'.cells[1] = DirtyHdr /\ file'.cells[2] = Chunk("ROLE", Len(roles[p]))
        /\ file'.cells[Len(roles[p]) + 3] = Chunk("DSTS", 0) /\ Len(file'.cells) = pos'[p] - 1
    BY ONLY <1>0, <2>1, <2>2
  <2>7. Layout(p)'
    BY ONLY <2>1, <2>4, <2>5 DEF Layout
  <2> QED
    BY <2>3, <2>7
<1> QED
  BY <1>1, <1>2, AuthorKept

\* The cells that are complete before the first object
Opening(c, t) ==
  /\ c[1] = DirtyHdr /\ c[2] = Chunk("ROLE", Len(t))
  /\ \A i \in 3 .. Len(t) + 2 : c[i] = Role(t[i - 2])
  /\ c[Len(t) + 3] = Chunk("DSTS", 0)

\* The layout behind the roles is the opening of the file, and the objects.
LEMMA HeadIs ==
  ASSUME NEW p, Len(roles[p]) \in Nat, pc[p] \in {"objhdr", "obj", "clean"}, pos[p] > Len(roles[p]) + 3,
         pos[p] \in Nat
  PROVE  Layout(p) <=> /\ Len(file.cells) = pos[p] - 1 /\ Opening(file.cells, roles[p])
                       /\ pc[p] \in {"obj", "clean"} => Stored(p)
                       /\ pc[p] = "clean" => file.cells[Len(roles[p]) + 4] = Chunk("OBJS", cnt[p])
<1> DEFINE t == roles[p]
<1>1. (\A i \in 3 .. Len(t) + 2 : i < pos[p] => file.cells[i] = Role(t[i - 2]))
      <=> (\A i \in 3 .. Len(t) + 2 : file.cells[i] = Role(t[i - 2]))
  <2>1. \A i \in 3 .. Len(t) + 2 : i < pos[p]
    BY ONLY Len(t) \in Nat, pos[p] > Len(t) + 3, pos[p] \in Nat
  <2> QED
    BY ONLY <2>1
<1> QED
  BY <1>1 DEF Layout, Opening

\* It is not touched by what is written behind it.
LEMMA HeadKept ==
  ASSUME NEW c, NEW d, NEW t, Len(t) \in Nat, Opening(c, t),
         \A j \in 1 .. Len(t) + 3 : d[j] = c[j]
  PROVE  Opening(d, t)
<1>1. 1 \in 1 .. Len(t) + 3 /\ 2 \in 1 .. Len(t) + 3 /\ Len(t) + 3 \in 1 .. Len(t) + 3
      /\ \A i \in 3 .. Len(t) + 2 : i \in 1 .. Len(t) + 3
  OBVIOUS
<1> QED
  BY <1>1 DEF Opening

LEMMA ObjHdrAlone ==
  ASSUME TypeOK, Alone, NEW p \in Runs, WriteObjHdr(p)
  PROVE  Alone'
<1>1. /\ Writes(p, "objhdr", "obj", pos[p], Chunk("OBJS", 0), 1) /\ "objhdr" \in writing
      /\ cnt'[p] = 0 /\ size'[p] = 1
  BY WriteObjHdrIs DEF writing
<1>0. Len(roles[p]) \in Nat /\ pos[p] \in Nat /\ Len(Order) \in Nat
  BY Constants DEF TypeOK
<1>2. ASSUME ~file'.tainted
      PROVE  Place(p)' /\ Layout(p)'
  <2>0. Authored(p, "objhdr", "obj", pos[p], Chunk("OBJS", 0), 1)
    BY <1>1, <1>2, AuthorIs
  <2>1. /\ pc[p] = "objhdr" /\ pc'[p] = "obj" /\ pos'[p] = pos[p] + 1 /\ roles'[p] = roles[p] /\ Author(p)
        /\ Len(file'.cells) = pos[p] /\ \A j \in 1 .. pos[p] - 1 : file'.cells[j] = file.cells[j]
    BY ONLY <2>0 DEF Authored
  <2>2. pos[p] = Len(roles[p]) + 4
    BY <2>1 DEF Author, Place
  <2>3. Opening(file.cells, roles[p])
    BY <1>0, <2>1, <2>2, HeadIs DEF Author
  <2>4. Opening(file'.cells, roles[p])
    BY <1>0, <2>1, <2>2, <2>3, HeadKept
  <2>5. Place(p)'
    BY ONLY <1>0, <1>1, <2>1, <2>2 DEF Place
  <2>6. Past(p)' = {}
    <3>1. 1 .. 1 - 1 = {}
      OBVIOUS
    <3> QED
      BY ONLY <1>1, <2>1, <3>1 DEF Past
  <2>7. Cardinality(Past(p)') = 0
    BY ONLY <2>6, FS_EmptySet
  <2>8. Len(roles[p]) + 5 .. pos'[p] - 1 = {}
    BY ONLY <1>0, <2>1, <2>2
  <2>9. Stored(p)'
    BY ONLY <1>1, <2>1, <2>6, <2>7, <2>8 DEF Stored
  <2>10. Len(file'.cells) = pos'[p] - 1
    BY ONLY <1>0, <2>1
  <2>11. Layout(p)'
    BY ONLY <2>1, <2>4, <2>9, <2>10 DEF Layout, Opening
  <2> QED
    BY <2>5, <2>11
<1> QED
  BY <1>1, <1>2, AuthorKept

\* What has been gone by is finite, and grows by the next object.
LEMMA PastFinite ==
  ASSUME TypeOK, NEW p \in Runs
  PROVE  IsFiniteSet(Past(p)) /\ Cardinality(Past(p)) \in Nat /\ IsFiniteSet(DOMAIN tree[p])
<1>1. DOMAIN tree[p] \subseteq Ids
  BY DEF TypeOK
<1>2. Past(p) \subseteq DOMAIN tree[p]
  BY DEF Past
<1>3. IsFiniteSet(DOMAIN tree[p])
  BY <1>1, Constants, FS_Subset
<1>4. IsFiniteSet(Past(p))
  BY <1>2, <1>3, FS_Subset
<1> QED
  BY <1>3, <1>4, FS_CardinalityType

\* One more object is stored.
LEMMA PastGrows ==
  ASSUME TypeOK, NEW p \in Runs, pc[p] = "obj", pc'[p] = "obj", tree'[p] = tree[p], size[p] >= 1,
         NEW i \in size[p] .. Len(Order), Order[i] \in DOMAIN tree[p], size'[p] = i + 1,
         \A j \in size[p] .. Len(Order) : j < i => Order[j] \notin DOMAIN tree[p]
  PROVE  Past(p)' = Past(p) \cup {Order[i]} /\ Order[i] \notin Past(p)
<1> DEFINE before == {Order[j] : j \in 1 .. size[p] - 1}
           after == {Order[j] : j \in 1 .. i}
<1>0. size[p] \in Nat /\ Len(Order) \in Nat /\ i \in Nat /\ i >= 1
  BY Constants DEF TypeOK
<1>1. Past(p) = before \cap DOMAIN tree[p]
  BY DEF Past
<1>2. Past(p)' = after \cap DOMAIN tree[p]
  <2>1. (i + 1) - 1 = i
    BY <1>0
  <2>2. Past(p)' = {Order[j] : j \in 1 .. (i + 1) - 1} \cap DOMAIN tree[p]
    BY ONLY pc'[p] = "obj", tree'[p] = tree[p], size'[p] = i + 1 DEF Past
  <2> QED
    BY ONLY <2>1, <2>2
<1>3. Order[i] \notin before
  <2> SUFFICES ASSUME NEW j \in 1 .. size[p] - 1, Order[j] = Order[i]
               PROVE  FALSE
    OBVIOUS
  <2>1. j \in 1 .. Len(Order) /\ i \in 1 .. Len(Order) /\ j # i
    BY <1>0
  <2> QED
    BY <2>1, Constants
<1>4. \A x \in after \cap DOMAIN tree[p] : x \in before \/ x = Order[i]
  <2> SUFFICES ASSUME NEW j \in 1 .. i, Order[j] \in DOMAIN tree[p], j # i
               PROVE  j \in 1 .. size[p] - 1
    OBVIOUS
  <2>1. ~(j \in size[p] .. Len(Order))
    BY <1>0
  <2> QED
    BY <1>0, <2>1
<1>5. \A x \in before : x \in after
  <2>1. 1 .. size[p] - 1 \subseteq 1 .. i
    BY <1>0
  <2> QED
    BY <2>1
<1>6. Order[i] \in after
  BY <1>0
<1> HIDE DEF before, after
<1> QED
  BY <1>1, <1>2, <1>3, <1>4, <1>5, <1>6

LEMMA ObjAlone ==
  ASSUME TypeOK, Ready, Alone, NEW p \in Runs, WriteObj(p)
  PROVE  Alone'
<1> DEFINE i == NextObj(p)
<1>1. /\ i \in size[p] .. Len(Order) /\ i >= 1 /\ Order[i] \in DOMAIN tree[p]
      /\ \A j \in size[p] .. Len(Order) : j < i => Order[j] \notin DOMAIN tree[p]
      /\ Writes(p, "obj", "obj", pos[p], tree[p][Order[i]], 1) /\ pc' = pc
      /\ ~file'.tainted => cnt'[p] = cnt[p] + 1 /\ size'[p] = i + 1
  BY WriteObjIs
<1> HIDE DEF i
<1>0. /\ Len(roles[p]) \in Nat /\ pos[p] \in Nat /\ cnt[p] \in Nat /\ Len(Order) \in Nat /\ "obj" \in writing
      /\ size[p] \in Nat
  BY Constants DEF TypeOK, writing
<1>2. ASSUME ~file'.tainted
      PROVE  Place(p)' /\ Layout(p)'
  <2> DEFINE first == Len(roles[p]) + 5
  <2>0. Authored(p, "obj", "obj", pos[p], tree[p][Order[i]], 1)
    BY <1>0, <1>1, <1>2, AuthorIs
  <2>1. /\ pc[p] = "obj" /\ pc'[p] = "obj" /\ pos'[p] = pos[p] + 1 /\ roles'[p] = roles[p] /\ tree'[p] = tree[p]
        /\ Author(p) /\ Len(file'.cells) = pos[p] /\ file'.cells[pos[p]] = tree[p][Order[i]]
        /\ \A j \in 1 .. pos[p] - 1 : file'.cells[j] = file.cells[j]
    BY ONLY <2>0 DEF Authored
  <2>2. pos[p] = first + cnt[p] /\ size[p] \in 1 .. Len(Order) + 1
    BY <2>1 DEF Author, Place
  <2>a. pos[p] \in Nat /\ first \in Nat /\ first >= 1 /\ pos[p] >= first /\ pos'[p] = pos[p] + 1
    <3>1. first \in Nat /\ first >= 1 /\ cnt[p] \in Nat
      BY ONLY <1>0
    <3>2. pos[p] = first + cnt[p] /\ pos[p] \in Nat /\ pos'[p] = pos[p] + 1
      BY ONLY <1>0, <2>1, <2>2
    <3> HIDE DEF first
    <3> QED
      BY ONLY <3>1, <3>2
  <2>3. Opening(file.cells, roles[p]) /\ Stored(p)
    <3>1. pos[p] > Len(roles[p]) + 3
      BY <1>0, <2>2
    <3> QED
      BY <1>0, <2>1, <3>1, HeadIs DEF Author
  <2>4. Opening(file'.cells, roles[p])
    <3>1. \A j \in 1 .. Len(roles[p]) + 3 : j \in 1 .. pos[p] - 1
      BY ONLY <1>0, <2>2
    <3>2. \A j \in 1 .. Len(roles[p]) + 3 : file'.cells[j] = file.cells[j]
      BY ONLY <2>1, <3>1
    <3> QED
      BY ONLY <1>0, <2>3, <3>2, HeadKept
  <2>5. cnt'[p] = cnt[p] + 1 /\ size'[p] = i + 1
    BY <1>1, <1>2
  <2>6. Place(p)'
    <3>0. pos'[p] = pos[p] + 1 /\ cnt'[p] = cnt[p] + 1 /\ pos[p] = (Len(roles[p]) + 5) + cnt[p]
      BY ONLY <2>1, <2>2, <2>5
    <3>1. pos'[p] = Len(roles[p]) + 5 + cnt'[p]
      BY ONLY <1>0, <3>0
    <3>2. i \in size[p] .. Len(Order) /\ i >= 1
      BY ONLY <1>1
    <3>3. size'[p] \in 1 .. Len(Order) + 1
      BY ONLY <1>0, <2>5, <3>2
    <3> QED
      BY ONLY <2>1, <3>1, <3>3 DEF Place
  <2>7. Past(p)' = Past(p) \cup {Order[i]} /\ Order[i] \notin Past(p)
    BY <1>1, <2>1, <2>2, <2>5, PastGrows
  <2>8. Cardinality(Past(p)') = cnt'[p]
    <3>1. IsFiniteSet(Past(p)) /\ cnt[p] = Cardinality(Past(p))
      BY <2>3, PastFinite DEF Stored
    <3>2. Cardinality(Past(p) \cup {Order[i]}) = Cardinality(Past(p)) + 1
      BY ONLY <2>7, <3>1, FS_AddElement
    <3> QED
      BY ONLY <2>5, <2>7, <3>1, <3>2
  <2>9. ASSUME NEW k \in first .. pos'[p] - 1
        PROVE  \E id \in Past(p)' : file'.cells[k] = tree[p][id]
    <3>1. k = pos[p] \/ (k \in first .. pos[p] - 1 /\ k \in 1 .. pos[p] - 1)
      <4> HIDE DEF first
      <4> QED
        BY ONLY <2>a, k \in first .. pos'[p] - 1
    <3>2. k \in first .. pos[p] - 1 => \E id \in Past(p) : file.cells[k] = tree[p][id]
      BY <2>3 DEF Stored
    <3> QED
      BY ONLY <2>1, <2>7, <3>1, <3>2
  <2>10. ASSUME NEW id \in Past(p)'
         PROVE  \E k \in first .. pos'[p] - 1 : file'.cells[k] = tree[p][id]
    <3>1. CASE id = Order[i]
      <4>1. pos[p] \in first .. pos'[p] - 1
        <5> HIDE DEF first
        <5> QED
          BY ONLY <2>a
      <4> QED
        BY ONLY <2>1, <3>1, <4>1
    <3>2. CASE id \in Past(p)
      <4>1. PICK k \in first .. pos[p] - 1 : file.cells[k] = tree[p][id]
        BY <2>3, <3>2 DEF Stored
      <4>2. k \in first .. pos'[p] - 1 /\ k \in 1 .. pos[p] - 1
        <5> HIDE DEF first
        <5> QED
          BY ONLY <2>a, k \in first .. pos[p] - 1
      <4> QED
        BY ONLY <2>1, <4>1, <4>2
    <3> QED
      BY ONLY <2>7, <2>10, <3>1, <3>2
  <2>11. Stored(p)'
    BY ONLY <2>1, <2>8, <2>9, <2>10 DEF Stored
  <2>12. Len(file'.cells) = pos'[p] - 1
    BY ONLY <1>0, <2>1
  <2>13. Layout(p)'
    BY ONLY <2>1, <2>4, <2>11, <2>12 DEF Layout, Opening
  <2> QED
    BY <2>6, <2>13
<1> QED
  BY <1>0, <1>1, <1>2, AuthorKept

LEMMA ObjLenAlone ==
  ASSUME TypeOK, Ready, Alone, NEW p \in Runs, WriteObjLen(p)
  PROVE  Alone'
<1>1. /\ Writes(p, "obj", "clean", pos[p] - cnt[p] - 1, Chunk("OBJS", cnt[p]), 0) /\ "obj" \in writing
      /\ NextObj(p) > Len(Order) /\ cnt' = cnt
  BY WriteObjLenIs DEF writing
<1>0. /\ Len(roles[p]) \in Nat /\ pos[p] \in Nat /\ cnt[p] \in Nat /\ Len(Order) \in Nat /\ size[p] \in Nat
      /\ DOMAIN tree[p] \subseteq Ids
  BY Constants DEF TypeOK
<1>2. ASSUME ~file'.tainted
      PROVE  Place(p)' /\ Layout(p)'
  <2> DEFINE k == pos[p] - cnt[p] - 1
             first == Len(roles[p]) + 5
  <2>0. Authored(p, "obj", "clean", k, Chunk("OBJS", cnt[p]), 0)
    BY <1>1, <1>2, AuthorIs
  <2>1. /\ pc[p] = "obj" /\ pc'[p] = "clean" /\ pos'[p] = pos[p] + 0 /\ roles'[p] = roles[p] /\ tree'[p] = tree[p]
        /\ Author(p)
        /\ k \in 1 .. pos[p] - 1 =>
             /\ Len(file'.cells) = pos[p] - 1 /\ file'.cells[k] = Chunk("OBJS", cnt[p])
             /\ \A j \in 1 .. pos[p] - 1 : j # k => file'.cells[j] = file.cells[j]
    BY ONLY <2>0 DEF Authored
  <2>2. pos[p] = first + cnt[p] /\ size[p] \in 1 .. Len(Order) + 1
    BY <2>1 DEF Author, Place
  <2>3. k = Len(roles[p]) + 4 /\ k \in 1 .. pos[p] - 1
    <3>1. pos[p] = (Len(roles[p]) + 5) + cnt[p] /\ Len(roles[p]) \in Nat /\ cnt[p] \in Nat
      BY ONLY <1>0, <2>2
    <3> QED
      BY ONLY <3>1
  <2> HIDE DEF k
  <2>4. Opening(file.cells, roles[p]) /\ Stored(p)
    <3>1. pos[p] > Len(roles[p]) + 3
      BY ONLY <1>0, <2>2
    <3> QED
      BY <1>0, <2>1, <3>1, HeadIs DEF Author
  <2>5. Opening(file'.cells, roles[p])
    <3>1. \A j \in 1 .. Len(roles[p]) + 3 : j \in 1 .. pos[p] - 1 /\ j # k
      BY ONLY <1>0, <2>2, <2>3
    <3>2. \A j \in 1 .. Len(roles[p]) + 3 : file'.cells[j] = file.cells[j]
      BY ONLY <2>1, <2>3, <3>1
    <3> QED
      BY ONLY <1>0, <2>4, <3>2, HeadKept
  <2>6. Past(p) = DOMAIN tree[p] /\ Past(p)' = DOMAIN tree[p]
    <3>1. Past(p)' = DOMAIN tree[p]
      BY ONLY <2>1 DEF Past
    <3>2. Past(p) = {Order[j] : j \in 1 .. size[p] - 1} \cap DOMAIN tree[p]
      BY ONLY <2>1 DEF Past
    <3>3. \A j \in size[p] .. Len(Order) : Order[j] \notin DOMAIN tree[p]
      <4>1. (size[p] .. Len(Order)) \in SUBSET (1 .. Len(Order))
        BY ONLY <1>0, <2>2
      <4>2. \A j \in size[p] .. Len(Order) : j < NextObj(p) => Order[j] \notin DOMAIN tree[p]
        BY <1>0, <4>1, NextFromIs DEF NextObj
      <4>3. NextObj(p) \in (size[p] .. Len(Order)) \cup {Len(Order) + 1}
        BY <1>0, <4>1, NextFromIs DEF NextObj
      <4> QED
        BY ONLY <1>0, <1>1, <4>2, <4>3
    <3>4. ASSUME NEW id \in DOMAIN tree[p]
          PROVE  id \in {Order[j] : j \in 1 .. size[p] - 1}
      <4>1. PICK j \in 1 .. Len(Order) : Order[j] = id
        BY <1>0, Constants
      <4>2. j \in 1 .. size[p] - 1
        BY <1>0, <2>2, <3>3, <4>1
      <4> QED
        BY <4>1, <4>2
    <3> QED
      BY ONLY <3>1, <3>2, <3>4
  <2>7. Place(p)'
    <3>1. pos'[p] = Len(roles[p]) + 5 + cnt'[p]
      BY ONLY <1>0, <1>1, <2>1, <2>2
    <3> QED
      BY ONLY <2>1, <3>1 DEF Place
  <2>8. cnt'[p] = Cardinality(Past(p)')
    <3>1. cnt[p] = Cardinality(Past(p))
      BY <2>4 DEF Stored
    <3> QED
      BY ONLY <1>1, <2>6, <3>1
  <2>9. pos'[p] = pos[p]
    BY ONLY <1>0, <2>1
  <2>10. \A j \in first .. pos[p] - 1 : file'.cells[j] = file.cells[j]
    <3>1. \A j \in first .. pos[p] - 1 : j \in 1 .. pos[p] - 1 /\ j # k
      BY ONLY <1>0, <2>2, <2>3
    <3> QED
      BY ONLY <2>1, <2>3, <3>1
  <2>11. /\ \A j \in first .. pos[p] - 1 : \E id \in Past(p) : file.cells[j] = tree[p][id]
         /\ \A id \in Past(p) : \E j \in first .. pos[p] - 1 : file.cells[j] = tree[p][id]
    BY <2>4 DEF Stored
  <2>12. Stored(p)'
    <3>1. /\ \A j \in first .. pos[p] - 1 : \E id \in Past(p) : file'.cells[j] = tree[p][id]
          /\ \A id \in Past(p) : \E j \in first .. pos[p] - 1 : file'.cells[j] = tree[p][id]
      BY ONLY <2>10, <2>11
    <3> QED
      BY ONLY <2>1, <2>6, <2>8, <2>9, <3>1 DEF Stored
  <2>13. Len(file'.cells) = pos'[p] - 1 /\ file'.cells[Len(roles[p]) + 4] = Chunk("OBJS", cnt'[p])
    BY ONLY <1>1, <2>1, <2>3, <2>9
  <2>14. Layout(p)'
    BY ONLY <2>1, <2>5, <2>12, <2>13 DEF Layout, Opening
  <2> QED
    BY <2>7, <2>14
<1> QED
  BY <1>1, <1>2, AuthorKept

LEMMA CleanAlone ==
  ASSUME TypeOK, Alone, NEW p \in Runs, WriteClean(p)
  PROVE  Alone'
<1>1. Writes(p, "clean", "done", 1, CleanHdr, 0) /\ "clean" \in writing /\ "done" \notin writing
  BY WriteCleanIs DEF writing
<1> QED
  BY <1>1, AuthorKept

\* creat() empties the file; with another writer the index is tainted.
LEMMA CreateAlone ==
  ASSUME TypeOK, Ready, Alone, NEW p \in Runs, Create(p)
  PROVE  Alone'
<1>0. pc \in [Runs -> Places]
  BY DEF TypeOK, Places
<1>1. /\ pc[p] = "create" /\ UNCHANGED <<data, ver, roles, tree, pos, size, cnt>> /\ pos[p] = 1
  BY DEF Create, Ready
<1>2. CASE pc' = [pc EXCEPT ![p] = "done"] /\ UNCHANGED <<file, spoilt>>
  <2>1. ASSUME NEW q \in Writers'
        PROVE  q \in Writers /\ Keeps(q) /\ spoilt'[q] = spoilt[q]
    <3>1. q \in Runs /\ pc'[q] \in writing
      BY DEF Writers
    <3>2. q # p /\ pc'[q] = pc[q]
      BY <1>0, <1>2, <3>1 DEF writing
    <3> QED
      BY <1>1, <1>2, <3>1, <3>2 DEF Writers, Keeps
  <2> QED
    BY <1>2, <2>1, AloneKept
<1>3. CASE /\ pc' = [pc EXCEPT ![p] = "header"]
           /\ file' = [exists |-> TRUE, cells |-> <<>>, older |-> FALSE,
                       tainted |-> Writers # {} \/ spoilt[p] \/ ver[p] # data]
           /\ spoilt' = [q \in Runs |-> spoilt[q] \/ pc[q] = "read"]
  <2> SUFFICES ASSUME ~file'.tainted, NEW q \in Writers'
               PROVE  Author(q)'
    BY DEF Alone, Author
  <2>1. file'.cells = <<>> /\ file'.exists = TRUE /\ Writers = {} /\ ~spoilt[p]
    BY <1>3
  <2>2. pc'[p] = "header" /\ \A r \in Runs : r # p => pc'[r] = pc[r]
    BY <1>0, <1>3
  <2>3. Writers' \subseteq {p}
    BY <2>1, <2>2 DEF Writers
  <2>4. q = p /\ Writers' = {p}
    BY <2>3
  <2>5. spoilt'[p] = FALSE
    BY <1>1, <1>3, <2>1
  <2>6. pos'[p] = 1 /\ Len(<<>>) = 0
    BY <1>1
  <2>7. Place(p)'
    BY ONLY <2>2, <2>6 DEF Place
  <2>8. Layout(p)'
    BY ONLY <2>1, <2>2, <2>6 DEF Layout
  <2> QED
    BY ONLY <2>1, <2>4, <2>5, <2>7, <2>8 DEF Author
<1> QED
  BY <1>2, <1>3 DEF Create, Goto

\* Steps that leave the index and its writers alone
Quiet(p) == Start(p) \/ Open(p) \/ ReadChunk(p) \/ ReadEnd(p) \/ Parse(p) \/ Kill(p)

\* Steps that do not touch the index.
LEMMA QuietIs ==
  ASSUME TypeOK, NEW p \in Runs, Quiet(p)
  PROVE  /\ UNCHANGED <<data, file>> /\ pc'[p] \notin writing
         /\ \A q \in Runs : q # p \/ ~(Open(p) \/ ReadChunk(p)) => spoilt'[q] = spoilt[q]
         /\ ReadChunk(p) => pc[p] = "read" /\ (spoilt[p] => spoilt'[p])
<1>0. pc \in [Runs -> Places] /\ spoilt \in [Runs -> BOOLEAN]
  BY DEF TypeOK, Places
<1>n. ReadChunk(p) => pc[p] = "read"
  BY DEF ReadChunk
<1>1. CASE Start(p)
  BY <1>0, <1>1, <1>n DEF Start, Goto, writing
<1>2. CASE Open(p)
  BY <1>0, <1>2, <1>n DEF Open, Goto, writing
<1>3. CASE ReadChunk(p)
  <2>1. /\ pc'[p] \in {"read", "parse", "dead"} /\ UNCHANGED <<data, file>> /\ pc[p] = "read"
        /\ (\A q \in Runs : q # p => spoilt'[q] = spoilt[q]) /\ (spoilt[p] => spoilt'[p])
    BY <1>3, ReadChunkIs DEF Turn
  <2> QED
    BY <1>3, <2>1 DEF writing
<1>4. CASE ReadEnd(p) \/ Kill(p)
  BY <1>0, <1>4, <1>n DEF ReadEnd, Kill, Goto, writing
<1>5. CASE Parse(p)
  BY <1>0, <1>5, <1>n DEF Parse, Goto, writing
<1> QED
  BY <1>1, <1>2, <1>3, <1>4, <1>5 DEF Quiet

LEMMA OtherAlone ==
  ASSUME TypeOK, Ready, Alone, NEW p \in Runs, Quiet(p)
  PROVE  Alone'
<1>1. file' = file /\ pc'[p] \notin writing /\ \A q \in Runs : q # p => spoilt'[q] = spoilt[q]
  BY QuietIs
<1>2. ASSUME NEW q \in Writers'
      PROVE  q \in Writers /\ Keeps(q) /\ spoilt'[q] = spoilt[q]
  <2>1. q \in Runs /\ pc'[q] \in writing /\ q # p
    BY <1>1 DEF Writers
  <2>2. Keeps(q)
    BY <2>1, Others DEF RunStep, Quiet
  <2> QED
    BY <1>1, <2>1, <2>2 DEF Writers, Keeps
<1> QED
  BY <1>1, <1>2, AloneKept

\* All steps together.
LEMMA AloneStep ==
  ASSUME TypeOK, Ready, Alone, Next
  PROVE  Alone'
<1>1. ASSUME Edit
      PROVE  Alone'
  <2>1. file' = [file EXCEPT !.older = TRUE] /\ UNCHANGED run
    BY <1>1 DEF Edit
  <2>2. file'.cells = file.cells /\ file'.exists = file.exists /\ file'.tainted = file.tainted
    BY ONLY <2>1, FileType, TypeOK
  <2>3. \A q \in Writers' : q \in Writers /\ Keeps(q) /\ spoilt'[q] = spoilt[q]
    BY ONLY <2>1 DEF run, Writers, Keeps
  <2> QED
    BY <2>2, <2>3, AloneKept
<1>2. ASSUME NEW p \in Runs, RunStep(p)
      PROVE  Alone'
  BY <1>2, CreateAlone, OtherAlone, HeaderAlone, RoleHdrAlone, RoleAlone, RoleLenAlone, DstatsAlone,
     ObjHdrAlone, ObjAlone, ObjLenAlone, CleanAlone DEF RunStep, Write, Quiet
<1> QED
  BY <1>1, <1>2, NextIs

\* The invariant holds in the first state and is kept.
LEMMA IInvInit ==
  ASSUME Init
  PROVE  IInv
<1>1. TypeOK /\ Ready
  BY TypeInit
<1>2. \A p \in Runs : pc[p] = "start"
  BY DEF Init
<1>3. Parsed
  BY <1>2 DEF Parsed, writing
<1>4. Alone
  BY <1>2 DEF Alone, Writers, writing
<1> QED
  BY <1>1, <1>3, <1>4 DEF IInv

LEMMA IInvStep ==
  ASSUME IInv, [Next]_vars
  PROVE  IInv'
<1>1. CASE Next
  BY <1>1, TypeStep, ParsedStep, AloneStep DEF IInv
<1>2. CASE UNCHANGED vars
  <2>1. UNCHANGED <<data, file, fails, pc, ver, roles, tree, pos, size, cnt, spoilt>>
    BY <1>2 DEF vars, run
  <2>2. TypeOK'
    BY ONLY <2>1, IInv DEF IInv, TypeOK
  <2>3. Ready' /\ Parsed'
    BY ONLY <2>1, IInv DEF IInv, Ready, Parsed
  <2>4. \A q \in Writers' : q \in Writers /\ Keeps(q) /\ spoilt'[q] = spoilt[q]
    BY ONLY <2>1 DEF Writers, Keeps
  <2>5. Alone'
    BY <2>1, <2>4, AloneKept DEF IInv
  <2> QED
    BY <2>2, <2>3, <2>5 DEF IInv
<1> QED
  BY <1>1, <1>2

\* The inductive invariant: types, what is parsed, and the author of the index
THEOREM IInvariant == Spec => []IInv
<1> QED
  BY IInvInit, IInvStep, PTL DEF Spec

\* read_osm_file() gives every object as it is in the data file, whatever other
\* runs do to the index and whatever index_read() left behind when it gave up.
THEOREM ParsedHolds == Spec => []Parsed
<1>1. IInv => Parsed
  BY DEF IInv
<1> QED
  BY <1>1, IInvariant, PTL

\* TypeOK: the variables keep their types, whatever is left in the file when runs
\* are killed and writes fail.
THEOREM TypeCorrect == Spec => []TypeOK
<1>1. IInv => TypeOK
  BY DEF IInv
<1> QED
  BY <1>1, IInvariant, PTL

\* LeavesUsable: the last step of a writer that nothing has disturbed completes
\* an index that index_read() takes as a whole.
THEOREM LeavesUsableHolds == Spec => LeavesUsable
<1> DEFINE Leaves ==
      \A p \in Runs :
        pc[p] = "clean" /\ pc'[p] = "done" /\ ~file'.tainted =>
          /\ file'.cells[1] = Hdr(FALSE)
          /\ \E i \in 1 .. Len(file'.cells) :
               /\ file'.cells[i] = Chunk("OBJS", Cardinality(DOMAIN tree[p]))
               /\ Len(file'.cells) = i + Cardinality(DOMAIN tree[p])
<1>1. ASSUME IInv, [Next]_vars
      PROVE  [Leaves]_vars
  <2> SUFFICES ASSUME Next, NEW p \in Runs, pc[p] = "clean", pc'[p] = "done", ~file'.tainted
               PROVE  /\ file'.cells[1] = Hdr(FALSE)
                      /\ \E i \in 1 .. Len(file'.cells) :
                           /\ file'.cells[i] = Chunk("OBJS", Cardinality(DOMAIN tree[p]))
                           /\ Len(file'.cells) = i + Cardinality(DOMAIN tree[p])
    BY <1>1
  <2>0. TypeOK /\ Ready /\ Alone /\ pc \in [Runs -> Places]
    BY <1>1 DEF IInv, TypeOK, Places
  <2>1. WriteClean(p)
    <3>1. ~Edit
      BY <2>0 DEF Edit, run
    <3>2. PICK q \in Runs : RunStep(q)
      BY <3>1, NextIs
    <3>3. q = p
      <4>1. q # p => pc'[p] = pc[p]
        BY <2>0, <3>2, Others DEF Keeps
      <4> QED
        BY ONLY <4>1, pc[p] = "clean", pc'[p] = "done"
    <3>4. RunStep(p)
      BY <3>2, <3>3
    <3>5. "done" \in After /\ ~Parse(p) /\ ~Create(p)
      BY DEF After, Parse, Create
    <3>6. Write(p)
      BY <2>0, <3>4, <3>5, AfterParse
    <3> QED
      BY <3>5, <3>6 DEF Write, WriteHeader, WriteRoleHdr, WriteRole, WriteRoleLen, WriteDstats, WriteObjHdr,
                        WriteObj, WriteObjLen, WriteOrQuit
  <2>2. Writes(p, "clean", "done", 1, CleanHdr, 0) /\ "clean" \in writing
    BY <2>0, <2>1, WriteCleanIs DEF writing
  <2>3. Authored(p, "clean", "done", 1, CleanHdr, 0)
    BY <2>0, <2>2, AuthorIs
  <2>4. /\ Author(p)
        /\ 1 \in 1 .. pos[p] - 1 =>
             /\ Len(file'.cells) = pos[p] - 1 /\ file'.cells[1] = CleanHdr
             /\ \A j \in 1 .. pos[p] - 1 : j # 1 => file'.cells[j] = file.cells[j]
    BY ONLY <2>3 DEF Authored
  <2> DEFINE n == Cardinality(DOMAIN tree[p])
             k == Len(roles[p]) + 4
  <2>5. /\ pos[p] = Len(roles[p]) + 5 + cnt[p] /\ file.cells[k] = Chunk("OBJS", cnt[p]) /\ cnt[p] = n
    BY <2>4 DEF Author, Place, Layout, Stored, Past
  <2>6. Len(roles[p]) \in Nat /\ cnt[p] \in Nat
    BY <2>0 DEF TypeOK
  <2> HIDE DEF n
  <2>7. 1 \in 1 .. pos[p] - 1 /\ k \in 1 .. pos[p] - 1 /\ k # 1 /\ pos[p] - 1 = k + n
    BY ONLY <2>5, <2>6
  <2> HIDE DEF k
  <2>8. file'.cells[1] = CleanHdr
    BY ONLY <2>4, <2>7
  <2>9. Len(file'.cells) = pos[p] - 1 /\ file'.cells[k] = Chunk("OBJS", n)
    BY ONLY <2>4, <2>5, <2>7
  <2>10. \E i \in 1 .. Len(file'.cells) : file'.cells[i] = Chunk("OBJS", n) /\ Len(file'.cells) = i + n
    BY ONLY <2>7, <2>9
  <2> QED
    BY <2>8, <2>10 DEF CleanHdr, n
<1>2. LeavesUsable <=> [][Leaves]_vars
  BY PTL DEF LeavesUsable
<1> QED
  BY <1>1, <1>2, IInvariant, PTL DEF Spec

(***************************************************************************)
(* Whole indexes                                                           *)
(***************************************************************************)
LEMMA TableIs ==
  ASSUME NEW S, NEW c, NRoles(c) \in Nat, \A i \in 3 .. NRoles(c) + 2 : c[i].name \in S
  PROVE  /\ Table(c) \in Seq(S) /\ Len(Table(c)) = NRoles(c)
         /\ \A j \in 1 .. NRoles(c) : Table(c)[j] = c[j + 2].name
<1> DEFINE t == Table(c)
           n == NRoles(c)
<1>1. t = [j \in 1 .. n |-> c[j + 2].name]
  BY DEF Table
<1> HIDE DEF t, n
<1>2. n \in Nat /\ \A i \in 3 .. n + 2 : c[i].name \in S
  BY DEF n
<1>3. t = [j \in 1 .. n |-> t[j]]
  BY ONLY <1>1
<1>4. \A j \in 1 .. n : t[j] = c[j + 2].name
  BY ONLY <1>1
<1>5. ASSUME NEW j \in 1 .. n
      PROVE  t[j] \in S
  <2>1. j + 2 \in 3 .. n + 2
    BY ONLY <1>2
  <2> QED
    BY ONLY <1>2, <1>4, <2>1, j \in 1 .. n
<1>6. t \in Seq(S) /\ Len(t) = n
  BY ONLY <1>2, <1>3, <1>5, SeqIs
<1> QED
  BY ONLY <1>4, <1>6 DEF t, n

\* The roles of a whole index are names.
LEMMA WholeTable ==
  ASSUME NEW c \in Seq(Cells), NEW v, Whole(c, v)
  PROVE  /\ NRoles(c) \in 0 .. Len(c) - 4 /\ Len(c) \in Nat
         /\ Table(c) \in Seq(Names \ {NoRole}) /\ Len(Table(c)) = NRoles(c)
         /\ \A j \in 1 .. NRoles(c) : Table(c)[j] = c[j + 2].name
<1>1. /\ NRoles(c) \in 0 .. Len(c) - 4 /\ Len(c) \in Nat
      /\ \A i \in 3 .. NRoles(c) + 2 : c[i].k = "role" /\ c[i].name # NoRole
  BY DEF Whole
<1>2. NRoles(c) \in Nat
  BY ONLY <1>1
<1>3. ASSUME NEW i \in 3 .. NRoles(c) + 2
      PROVE  c[i].name \in Names \ {NoRole}
  <2>1. i \in 1 .. Len(c)
    BY ONLY <1>1, <1>2
  <2>2. c[i] \in Cells
    BY ONLY <2>1, c \in Seq(Cells)
  <2>3. c[i].k = "role" /\ c[i].name # NoRole
    BY ONLY <1>1, i \in 3 .. NRoles(c) + 2
  <2> QED
    BY ONLY <2>2, <2>3, CellKinds
<1> QED
  BY <1>1, <1>2, <1>3, TableIs

\* What an author leaves whose last step is the clean header
LEMMA WholeFrom ==
  ASSUME TypeOK, NEW p \in Runs, pc[p] = "clean", Author(p), NEW c, Len(c) = pos[p] - 1, c[1] = CleanHdr,
         \A j \in 1 .. pos[p] - 1 : j # 1 => c[j] = file.cells[j],
         DOMAIN tree[p] = DOMAIN Data[ver[p]], \A id \in DOMAIN tree[p] : tree[p][id].role \in 0 .. Len(roles[p]),
         IsData(tree[p], ver[p], roles[p])
  PROVE  /\ Whole(c, ver[p])
         /\ Len(Table(c)) = Len(roles[p]) /\ \A j \in 1 .. Len(roles[p]) : Table(c)[j] = roles[p][j]
<1> DEFINE t == roles[p]
           nr == Len(t)
           v == ver[p]
<1>0. /\ nr \in Nat /\ cnt[p] \in Nat /\ pos[p] \in Nat /\ t \in Seq(Names \ {NoRole})
      /\ \A id \in DOMAIN tree[p] : tree[p][id] \in Objs
  BY DEF TypeOK
<1>1. /\ pos[p] = nr + 5 + cnt[p]
      /\ \A i \in nr + 5 .. pos[p] - 1 : \E id \in DOMAIN tree[p] : file.cells[i] = tree[p][id]
      /\ \A id \in DOMAIN tree[p] : \E i \in nr + 5 .. pos[p] - 1 : file.cells[i] = tree[p][id]
      /\ file.cells[nr + 4] = Chunk("OBJS", cnt[p])
  BY DEF Author, Place, Layout, Stored, Past
<1>2. Opening(file.cells, t)
  <2>1. pos[p] > nr + 3
    BY ONLY <1>0, <1>1
  <2>2. pos[p] > Len(roles[p]) + 3 /\ Len(roles[p]) \in Nat /\ pos[p] \in Nat
    BY ONLY <1>0, <2>1
  <2> HIDE DEF t
  <2>3. Opening(file.cells, roles[p])
    BY <2>2, HeadIs DEF Author
  <2> QED
    BY ONLY <2>3 DEF t
<1>n. nr \in Nat /\ cnt[p] \in Nat /\ pos[p] = nr + 5 + cnt[p]
  BY ONLY <1>0, <1>1
<1>3. Len(c) = nr + 4 + cnt[p] /\ Len(c) = pos[p] - 1 /\ pos[p] \in Nat
  <2> HIDE DEF nr
  <2> QED
    BY ONLY <1>n, Len(c) = pos[p] - 1
<1>4. c[2] = Chunk("ROLE", nr) /\ c[nr + 3] = Chunk("DSTS", 0) /\ c[nr + 4] = Chunk("OBJS", cnt[p])
  <2>1. /\ 2 \in 1 .. pos[p] - 1 /\ nr + 3 \in 1 .. pos[p] - 1 /\ nr + 4 \in 1 .. pos[p] - 1
        /\ nr + 3 # 1 /\ nr + 4 # 1
    <3> HIDE DEF nr
    <3> QED
      BY ONLY <1>n
  <2> QED
    BY <1>1, <1>2, <2>1 DEF Opening
<1>5. NRoles(c) = nr
  BY <1>4 DEF NRoles, Chunk
<1>6. ASSUME NEW i \in 3 .. nr + 2
      PROVE  c[i] = Role(t[i - 2]) /\ c[i].k = "role" /\ c[i].name = t[i - 2] /\ c[i].name \in Names \ {NoRole}
  <2>1. i \in 1 .. pos[p] - 1 /\ i # 1 /\ i - 2 \in 1 .. nr
    BY ONLY <1>0, <1>1
  <2>2. c[i] = Role(t[i - 2])
    BY <1>2, <2>1 DEF Opening
  <2>3. t[i - 2] \in Names \ {NoRole}
    BY ONLY <1>0, <2>1
  <2> DEFINE r == t[i - 2]
  <2>4. c[i] = Role(r) /\ r \in Names \ {NoRole}
    BY ONLY <2>2, <2>3
  <2>5. c[i] = Role(r) /\ c[i].k = "role" /\ c[i].name = r /\ c[i].name \in Names \ {NoRole}
    <3> HIDE DEF r
    <3> QED
      BY ONLY <2>4 DEF Role
  <2> QED
    BY ONLY <2>5
<1>7. /\ Len(Table(c)) = nr /\ \A j \in 1 .. nr : Table(c)[j] = t[j]
  <2>1. /\ Len(Table(c)) = nr /\ \A j \in 1 .. nr : Table(c)[j] = c[j + 2].name
    BY ONLY <1>0, <1>5, <1>6, TableIs
  <2>2. ASSUME NEW j \in 1 .. nr
        PROVE  c[j + 2].name = t[j]
    <3>1. j + 2 \in 3 .. nr + 2 /\ (j + 2) - 2 = j
      BY ONLY <1>0
    <3> QED
      BY <1>6, <3>1
  <2> QED
    BY ONLY <2>1, <2>2
<1>8. \A r \in 0 .. nr : RoleStr(Table(c), r) = RoleStr(t, r)
  BY ONLY <1>0, <1>7 DEF RoleStr
<1>9. ASSUME NEW i \in nr + 5 .. Len(c)
      PROVE  /\ c[i].k = "obj" /\ c[i].id \in DOMAIN Data[v]
             /\ Meant(c[i], v, Table(c), c[i].id) /\ c[i].role \in 0 .. nr
  <2>1. i \in nr + 5 .. pos[p] - 1 /\ i \in 1 .. pos[p] - 1 /\ i # 1
    <3> HIDE DEF nr
    <3>1. Len(c) = pos[p] - 1 /\ nr \in Nat /\ pos[p] \in Nat
      BY ONLY <1>n, <1>3
    <3>2. i \in Int /\ nr + 5 <= i /\ i <= pos[p] - 1
      BY ONLY <3>1, i \in nr + 5 .. Len(c)
    <3>3. i >= 5
      BY ONLY <3>1, <3>2
    <3>4. i \in nr + 5 .. pos[p] - 1
      BY ONLY <3>1, <3>2
    <3>5. i \in 1 .. pos[p] - 1 /\ i # 1
      BY ONLY <3>1, <3>2, <3>3
    <3> QED
      BY ONLY <3>4, <3>5
  <2>2. PICK id \in DOMAIN tree[p] : c[i] = tree[p][id]
    <3>1. c[i] = file.cells[i]
      BY <2>1
    <3>2. \E id \in DOMAIN tree[p] : file.cells[i] = tree[p][id]
      BY ONLY <1>1, <2>1
    <3> QED
      BY ONLY <3>1, <3>2
  <2>3. id \in DOMAIN Data[v] /\ tree[p][id] \in Objs /\ tree[p][id].role \in 0 .. nr
    BY <1>0, <2>2
  <2>4. Meant(tree[p][id], v, t, id)
    BY <2>3 DEF IsData
  <2>5. tree[p][id].id = id /\ tree[p][id].text = v /\ RoleStr(t, tree[p][id].role) = Data[v][id]
    BY <2>4 DEF Meant
  <2>6. tree[p][id].k = "obj"
    BY <2>3 DEF Objs
  <2>7. Meant(c[i], v, Table(c), c[i].id)
    BY ONLY <1>8, <2>2, <2>3, <2>5 DEF Meant
  <2> QED
    BY ONLY <2>2, <2>3, <2>5, <2>6, <2>7
<1>10. ASSUME NEW id \in DOMAIN Data[v]
       PROVE  \E i \in nr + 5 .. Len(c) : c[i].id = id
  <2>1. PICK i \in nr + 5 .. pos[p] - 1 : file.cells[i] = tree[p][id]
    BY <1>1
  <2>2. i \in nr + 5 .. Len(c) /\ i \in 1 .. pos[p] - 1 /\ i # 1
    <3> HIDE DEF nr
    <3>1. i \in nr + 5 .. pos[p] - 1 /\ nr \in Nat /\ pos[p] \in Nat /\ Len(c) = pos[p] - 1
      BY ONLY <1>n, <1>3, i \in nr + 5 .. pos[p] - 1
    <3> QED
      BY ONLY <3>1
  <2>3. Meant(tree[p][id], v, t, id)
    BY DEF IsData
  <2> QED
    BY <2>1, <2>2, <2>3 DEF Meant
<1> HIDE DEF nr, v, t
<1>11. Len(c) >= 4 /\ nr \in 0 .. Len(c) - 4 /\ cnt[p] = Len(c) - nr - 4
  <2>1. nr \in Nat /\ cnt[p] \in Nat /\ Len(c) = nr + 4 + cnt[p]
    BY ONLY <1>n, <1>3
  <2> QED
    BY ONLY <2>1
<1>12. \A i \in 3 .. nr + 2 : c[i].k = "role" /\ c[i].name # NoRole
  BY ONLY <1>6
<1>13. Whole(c, v)
  BY ONLY <1>4, <1>5, <1>9, <1>10, <1>11, <1>12, c[1] = CleanHdr DEF Whole
<1> QED
  BY ONLY <1>7, <1>13 DEF v, nr, t

\* The same of the cells that are in the file.
LEMMA ReadObjsNow ==
  ASSUME TypeOK, NEW p \in Runs, NEW n \in Nat, ReadObjs(p, Body(p, n), n)
  PROVE  \E m \in 0 .. n :
           LET ids == {Cell(pos[p] + i).id : i \in 1 .. m} IN
           /\ \A i \in 1 .. m : Cell(pos[p] + i) \in Objs
           /\ DOMAIN tree' = Runs /\ \A q \in Runs : q # p => tree'[q] = tree[q]
           /\ DOMAIN tree'[p] = ids \cup DOMAIN tree[p]
           /\ tree'[p] = [id \in DOMAIN tree'[p] |-> tree'[p][id]]
           /\ \A id \in ids : \E i \in 1 .. m : /\ Cell(pos[p] + i).id = id
                                                /\ tree'[p][id] = Relocated(p, Cell(pos[p] + i))
           /\ \A id \in DOMAIN tree[p] \ ids : tree'[p][id] = tree[p][id]
           /\ roles' = roles /\ Behind(p, n, m = n)
           /\ (DOMAIN tree[p] = {} /\ \A i \in 1 .. n : Cell(pos[p] + i).k = "obj") => m = n
<1> DEFINE body == Body(p, n)
<1>1. /\ body \in Seq(Cells) /\ Len(body) = n
      /\ \A i \in 1 .. n : body[i] = Cell(pos[p] + i)
  BY BodyIs
<1>2. ReadObjs(p, body, n)
  OBVIOUS
<1> HIDE DEF body
<1>3. \E m \in 0 .. Len(body) : Taken(p, body, n, m)
  BY <1>1, <1>2, ReadObjsIs
<1>4. PICK m \in 0 .. Len(body) : Taken(p, body, n, m)
  BY ONLY <1>3
<1>5. \A i \in 1 .. m : body[i] = Cell(pos[p] + i)
  BY ONLY <1>1, n \in Nat, m \in 0 .. Len(body)
<1>6. {body[i].id : i \in 1 .. m} = {Cell(pos[p] + i).id : i \in 1 .. m}
  BY ONLY <1>5
<1>7. m \in 0 .. n /\ \A i \in 1 .. m : Cell(pos[p] + i) \in Objs
  BY ONLY <1>1, <1>4, <1>5 DEF Taken
<1>8. \A id \in {Cell(pos[p] + i).id : i \in 1 .. m} :
        \E i \in 1 .. m : /\ Cell(pos[p] + i).id = id
                          /\ tree'[p][id] = Relocated(p, Cell(pos[p] + i))
  <2>1. \A id \in {body[i].id : i \in 1 .. m} :
          \E i \in 1 .. m : body[i].id = id /\ tree'[p][id] = Relocated(p, body[i])
    BY ONLY <1>4 DEF Taken
  <2>2. ASSUME NEW id \in {Cell(pos[p] + i).id : i \in 1 .. m}
        PROVE  \E i \in 1 .. m : /\ Cell(pos[p] + i).id = id
                                 /\ tree'[p][id] = Relocated(p, Cell(pos[p] + i))
    <3>1. id \in {body[i].id : i \in 1 .. m}
      BY ONLY <1>6, <2>2
    <3>2. PICK i \in 1 .. m : body[i].id = id /\ tree'[p][id] = Relocated(p, body[i])
      BY ONLY <2>1, <3>1
    <3>3. body[i] = Cell(pos[p] + i)
      BY ONLY <1>5, i \in 1 .. m
    <3> QED
      BY ONLY <3>2, <3>3
  <2> QED
    BY ONLY <2>2
<1>9. (DOMAIN tree[p] = {} /\ \A i \in 1 .. n : Cell(pos[p] + i).k = "obj") => m = n
  BY ONLY <1>1, <1>4 DEF Taken
<1> QED
  BY ONLY <1>1, <1>4, <1>6, <1>7, <1>8, <1>9 DEF Taken

\* A run that reads a whole index gets through it.
LEMMA ReadOn ==
  ASSUME TypeOK, NEW p \in Runs, ReadChunk(p), ~spoilt'[p], Whole(file.cells, ver[p]), size[p] = Len(file.cells),
         \/ pos[p] \in {2, NRoles(file.cells) + 3, NRoles(file.cells) + 4} /\ DOMAIN tree[p] = {}
         \/ pos[p] = Len(file.cells) + 1
  PROVE  LET c  == file.cells
             nr == NRoles(c) IN
         /\ pc'[p] = "read" /\ DOMAIN tree[p] = {}
         /\ \/ /\ pos[p] = 2 /\ pos'[p] = nr + 3 /\ tree' = tree
               /\ \E names : /\ Len(names) = nr /\ \A i \in 1 .. nr : names[i] = c[i + 2].name
                             /\ roles' = [roles EXCEPT ![p] = AddRoles(roles[p], names)]
            \/ pos[p] = nr + 3 /\ pos'[p] = nr + 4 /\ tree' = tree /\ roles' = roles
            \/ /\ pos[p] = nr + 4 /\ pos'[p] = Len(c) + 1 /\ roles' = roles
               /\ DOMAIN tree'[p] = DOMAIN Data[ver[p]]
               /\ p \notin Unmapped =>
                    \A id \in DOMAIN tree'[p] : \E i \in nr + 5 .. Len(c) : c[i].id = id /\ tree'[p][id] = c[i]
<1> DEFINE c == file.cells
           nr == NRoles(c)
           v == ver[p]
           h == Cell(pos[p])
<1>0. /\ c \in Seq(Cells) /\ Len(c) \in Nat /\ v \in DOMAIN Data /\ pos[p] \in Nat
      /\ \A i \in 1 .. Len(c) : Cell(i) = c[i]
  BY FileType DEF TypeOK, Cell
<1>1. /\ Len(c) >= 4 /\ nr \in 0 .. Len(c) - 4 /\ c[2] = Chunk("ROLE", nr)
      /\ \A i \in 3 .. nr + 2 : c[i].k = "role"
      /\ c[nr + 3] = Chunk("DSTS", 0) /\ c[nr + 4] = Chunk("OBJS", Len(c) - nr - 4)
      /\ \A i \in nr + 5 .. Len(c) : c[i].k = "obj" /\ c[i].id \in DOMAIN Data[v] /\ c[i].text = v
      /\ \A id \in DOMAIN Data[v] : \E i \in nr + 5 .. Len(c) : c[i].id = id
  BY DEF Whole, Meant
<1>2. /\ pc[p] = "read" /\ Left(p) > 1
      /\ \/ tree' = tree /\ roles' = roles /\ ~(h.k = "chunk" /\ pos[p] + h.len <= Len(c) /\ h.len <= Left(p))
         \/ /\ tree' = tree /\ roles' = roles /\ h.k = "chunk" /\ h.len \in Nat /\ h.type = "DSTS"
            /\ Behind(p, h.len, TRUE)
         \/ h.k = "chunk" /\ h.len \in Nat /\ h.type = "ROLE" /\ ReadRoles(p, Body(p, h.len), h.len)
         \/ h.k = "chunk" /\ h.len \in Nat /\ h.type = "OBJS" /\ ReadObjs(p, Body(p, h.len), h.len)
  BY ReadChunkIs DEF Turn, WholeTurn
<1>3. /\ Left(p) = Len(c) - pos[p] + 1
      /\ pos[p] \in {2, nr + 3, nr + 4} /\ DOMAIN tree[p] = {}
  BY <1>0, <1>2 DEF Left
<1> HIDE DEF c, nr, v, h
<1>4. nr \in Nat /\ Len(c) - nr - 4 \in Nat
  BY ONLY <1>0, <1>1
<1>5. CASE pos[p] = 2
  <2>1. h = Chunk("ROLE", nr)
    <3>1. 2 \in 1 .. Len(c)
      BY ONLY <1>0, <1>1
    <3> QED
      BY ONLY <1>0, <1>1, <1>5, <3>1 DEF h
  <2>2. h.k = "chunk" /\ h.type = "ROLE" /\ h.len = nr
    BY ONLY <2>1 DEF Chunk
  <2>3. pos[p] + nr <= Len(c) /\ nr <= Left(p)
    BY ONLY <1>0, <1>1, <1>3, <1>5
  <2>4. ReadRoles(p, Body(p, nr), nr)
    BY ONLY <1>2, <2>2, <2>3
  <2>5. ASSUME NEW i \in 1 .. nr
        PROVE  Cell(pos[p] + i) = c[i + 2] /\ Cell(pos[p] + i).k = "role"
    <3>1. pos[p] = 2 /\ nr \in 0 .. Len(c) - 4 /\ Len(c) \in Nat
      BY ONLY <1>0, <1>1, <1>5
    <3>2. pos[p] + i = i + 2 /\ i + 2 \in 1 .. Len(c) /\ i + 2 \in 3 .. nr + 2
      BY ONLY <3>1, i \in 1 .. nr
    <3>3. \A j \in 3 .. nr + 2 : c[j].k = "role"
      BY ONLY <1>1
    <3>4. \A j \in 1 .. Len(c) : Cell(j) = c[j]
      BY ONLY <1>0
    <3>5. Cell(i + 2) = c[i + 2] /\ c[i + 2].k = "role"
      BY ONLY <3>2, <3>3, <3>4
    <3> QED
      BY ONLY <3>2, <3>5
  <2>6. PICK names : /\ roles' = [roles EXCEPT ![p] = AddRoles(roles[p], names)]
                     /\ tree' = tree /\ Behind(p, nr, Len(names) = nr)
                     /\ Len(names) = nr /\ \A i \in 1 .. nr : names[i] = Cell(pos[p] + i).name
    <3> DEFINE body == Body(p, nr)
    <3>1. /\ body \in Seq(Cells) /\ Len(body) = nr
          /\ \A i \in 1 .. nr : body[i] = Cell(pos[p] + i)
      BY <1>4, BodyIs
    <3>2. ReadRoles(p, body, nr) /\ nr \in Nat
      BY <1>4, <2>4
    <3> HIDE DEF body
    <3>3. PICK names : /\ Len(names) \in 0 .. Len(body) /\ \A i \in 1 .. Len(names) : names[i] \in Names \cup {NoRole}
                       /\ roles' = [roles EXCEPT ![p] = AddRoles(roles[p], names)]
                       /\ tree' = tree /\ Behind(p, nr, Len(names) = Len(body))
                       /\ (\A i \in 1 .. Len(body) : body[i].k = "role") =>
                            Len(names) = Len(body) /\ \A i \in 1 .. Len(body) : names[i] = body[i].name
      BY <3>1, <3>2, ReadRolesIs
    <3>4. Len(names) = nr /\ \A i \in 1 .. nr : names[i] = Cell(pos[p] + i).name
      BY ONLY <2>5, <3>1, <3>3
    <3> QED
      BY ONLY <3>1, <3>3, <3>4
  <2>7. pc'[p] = pc[p] /\ pos'[p] = pos[p] + nr + 1
    BY <1>4, <2>6, BehindIs
  <2>8. pos'[p] = nr + 3
    BY ONLY <1>4, <1>5, <2>7
  <2>9. \A i \in 1 .. nr : names[i] = c[i + 2].name
    BY ONLY <2>5, <2>6
  <2> QED
    BY ONLY <1>2, <1>3, <1>5, <2>6, <2>7, <2>8, <2>9 DEF c, nr
<1>6. CASE pos[p] = nr + 3
  <2>1. h = Chunk("DSTS", 0)
    <3>1. nr + 3 \in 1 .. Len(c)
      BY ONLY <1>0, <1>1
    <3>2. pos[p] = nr + 3 /\ c[nr + 3] = Chunk("DSTS", 0) /\ \A i \in 1 .. Len(c) : Cell(i) = c[i]
      BY ONLY <1>0, <1>1, <1>6
    <3> QED
      BY ONLY <3>1, <3>2 DEF h
  <2>2. h.k = "chunk" /\ h.type = "DSTS" /\ h.len = 0
    BY ONLY <2>1 DEF Chunk
  <2>3. pos[p] + 0 <= Len(c) /\ 0 <= Left(p)
    BY ONLY <1>0, <1>1, <1>3, <1>6
  <2>4. tree' = tree /\ roles' = roles /\ Behind(p, 0, TRUE)
    BY ONLY <1>2, <2>2, <2>3
  <2>5. pc'[p] = pc[p] /\ pos'[p] = pos[p] + 0 + 1
    BY <2>4, BehindIs
  <2>6. pos'[p] = nr + 4
    BY ONLY <1>4, <1>6, <2>5
  <2> QED
    BY ONLY <1>2, <1>3, <1>6, <2>4, <2>5, <2>6 DEF c, nr
<1>7. CASE pos[p] = nr + 4
  <2> DEFINE n == Len(c) - nr - 4
  <2>1. h = Chunk("OBJS", n)
    <3>1. nr + 4 \in 1 .. Len(c)
      BY ONLY <1>0, <1>1
    <3>2. pos[p] = nr + 4 /\ c[nr + 4] = Chunk("OBJS", n) /\ \A i \in 1 .. Len(c) : Cell(i) = c[i]
      BY ONLY <1>0, <1>1, <1>7
    <3> HIDE DEF n
    <3> QED
      BY ONLY <3>1, <3>2 DEF h
  <2>2. h.k = "chunk" /\ h.type = "OBJS" /\ h.len = n
    BY ONLY <2>1 DEF Chunk
  <2>3. pos[p] + n <= Len(c) /\ n <= Left(p)
    BY ONLY <1>0, <1>1, <1>3, <1>7
  <2>4. ReadObjs(p, Body(p, n), n)
    BY ONLY <1>2, <2>2, <2>3
  <2>5. ASSUME NEW i \in 1 .. n
        PROVE  /\ pos[p] + i \in nr + 5 .. Len(c) /\ Cell(pos[p] + i) = c[pos[p] + i]
               /\ Cell(pos[p] + i).k = "obj"
    <3>1. pos[p] + i \in nr + 5 .. Len(c) /\ pos[p] + i \in 1 .. Len(c)
      BY ONLY <1>0, <1>1, <1>4, <1>7
    <3> QED
      BY ONLY <1>0, <1>1, <3>1
  <2>a. n \in Nat
    BY ONLY <1>4
  <2> HIDE DEF n
  <2>6. PICK m \in 0 .. n :
           LET ids == {Cell(pos[p] + i).id : i \in 1 .. m} IN
           /\ \A i \in 1 .. m : Cell(pos[p] + i) \in Objs
           /\ DOMAIN tree' = Runs /\ \A q \in Runs : q # p => tree'[q] = tree[q]
           /\ DOMAIN tree'[p] = ids \cup DOMAIN tree[p]
           /\ tree'[p] = [id \in DOMAIN tree'[p] |-> tree'[p][id]]
           /\ \A id \in ids : \E i \in 1 .. m : /\ Cell(pos[p] + i).id = id
                                                /\ tree'[p][id] = Relocated(p, Cell(pos[p] + i))
           /\ \A id \in DOMAIN tree[p] \ ids : tree'[p][id] = tree[p][id]
           /\ roles' = roles /\ Behind(p, n, m = n)
           /\ (DOMAIN tree[p] = {} /\ \A i \in 1 .. n : Cell(pos[p] + i).k = "obj") => m = n
    BY ONLY <2>4, <2>a, TypeOK, p \in Runs, ReadObjsNow
  <2>7. m = n
    BY ONLY <1>3, <2>5, <2>6
  <2> DEFINE ids == {Cell(pos[p] + i).id : i \in 1 .. n}
  <2>8. /\ \A i \in 1 .. n : Cell(pos[p] + i) \in Objs
        /\ DOMAIN tree'[p] = ids
        /\ \A id \in ids : \E i \in 1 .. n : /\ Cell(pos[p] + i).id = id
                                             /\ tree'[p][id] = Relocated(p, Cell(pos[p] + i))
    BY ONLY <1>3, <2>6, <2>7
  <2>9. pc'[p] = pc[p] /\ pos'[p] = pos[p] + n + 1 /\ roles' = roles
    <3>1. roles' = roles /\ Behind(p, n, m = n)
      BY ONLY <2>6
    <3> QED
      BY <2>7, <2>a, <3>1, BehindIs
  <2>10. pos'[p] = Len(c) + 1
    BY ONLY <1>0, <1>4, <1>7, <2>9 DEF n
  <2>11. ASSUME NEW i \in 1 .. n
         PROVE  p \notin Unmapped => Relocated(p, Cell(pos[p] + i)) = c[pos[p] + i]
    <3> DEFINE o == Cell(pos[p] + i)
    <3>1. o \in Objs /\ o = c[pos[p] + i] /\ o.text = v
      <4>1. o \in Objs
        BY ONLY <2>8, i \in 1 .. n
      <4>2. pos[p] + i \in nr + 5 .. Len(c) /\ o = c[pos[p] + i]
        BY ONLY <2>5, i \in 1 .. n
      <4>3. c[pos[p] + i].text = v
        BY ONLY <1>1, <4>2
      <4> QED
        BY ONLY <4>1, <4>2, <4>3
    <3>2. v # InMem
      BY <1>0, Constants DEF InMem
    <3> HIDE DEF o
    <3>3. p \notin Unmapped => Relocated(p, o) = o
      BY ONLY <3>1, <3>2 DEF Relocated, Objs
    <3> QED
      BY <3>1, <3>3 DEF o
  <2>12. ASSUME NEW id \in DOMAIN tree'[p]
         PROVE  \E i \in nr + 5 .. Len(c) : c[i].id = id /\ (p \notin Unmapped => tree'[p][id] = c[i])
    <3>1. PICK i \in 1 .. n : Cell(pos[p] + i).id = id /\ tree'[p][id] = Relocated(p, Cell(pos[p] + i))
      BY ONLY <2>8, <2>12
    <3>2. /\ pos[p] + i \in nr + 5 .. Len(c) /\ Cell(pos[p] + i) = c[pos[p] + i]
          /\ p \notin Unmapped => Relocated(p, Cell(pos[p] + i)) = c[pos[p] + i]
      BY ONLY <2>5, <2>11, i \in 1 .. n
    <3> DEFINE j == pos[p] + i
    <3>3. c[j].id = id /\ (p \notin Unmapped => tree'[p][id] = c[j]) /\ j \in nr + 5 .. Len(c)
      BY ONLY <3>1, <3>2
    <3> HIDE DEF j
    <3> QED
      BY ONLY <3>3
  <2>13. DOMAIN tree'[p] = DOMAIN Data[v]
    <3>0. /\ \A i \in nr + 5 .. Len(c) : c[i].id \in DOMAIN Data[v]
          /\ \A id \in DOMAIN Data[v] : \E i \in nr + 5 .. Len(c) : c[i].id = id
      BY ONLY <1>1
    <3>1. \A x \in DOMAIN tree'[p] : x \in DOMAIN Data[v]
      BY ONLY <3>0, <2>12
    <3>2. ASSUME NEW x \in DOMAIN Data[v]
          PROVE  x \in DOMAIN tree'[p]
      <4>1. PICK j \in nr + 5 .. Len(c) : c[j].id = x
        BY ONLY <3>0, <3>2
      <4>2. j - pos[p] \in 1 .. n /\ pos[p] + (j - pos[p]) = j
        BY ONLY <1>0, <1>4, <1>7 DEF n
      <4>3. Cell(pos[p] + (j - pos[p])).id = x
        BY ONLY <2>5, <4>1, <4>2
      <4> QED
        BY ONLY <2>8, <4>2, <4>3
    <3> QED
      BY ONLY <3>1, <3>2
  <2> QED
    BY ONLY <1>2, <1>3, <1>7, <2>9, <2>10, <2>12, <2>13 DEF c, nr, v
<1> QED
  BY ONLY <1>3, <1>5, <1>6, <1>7

(***************************************************************************)
(* The index is whole, and is read whole.  No run makes objects of its own *)
(* (NothingMade): those it would write too.                                *)
(***************************************************************************)
LEMMA CreateIs ==
  ASSUME TypeOK, NEW p \in Runs, Create(p)
  PROVE  /\ pc[p] = "create" /\ UNCHANGED <<data, ver, roles, tree, pos, size, cnt>>
         /\ \A q \in Runs : q # p => pc'[q] = pc[q]
         /\ \/ pc'[p] = "done" /\ file' = file /\ spoilt' = spoilt
            \/ /\ pc'[p] = "header" /\ file'.cells = <<>> /\ file'.exists = TRUE
               /\ spoilt' = [q \in Runs |-> spoilt[q] \/ pc[q] = "read"]
<1>0. pc \in [Runs -> Places]
  BY DEF TypeOK, Places
<1>1. CASE pc' = [pc EXCEPT ![p] = "done"] /\ UNCHANGED <<file, spoilt>>
  BY <1>0, <1>1 DEF Create
<1>2. CASE /\ pc' = [pc EXCEPT ![p] = "header"]
           /\ file' = [exists |-> TRUE, cells |-> <<>>, older |-> FALSE,
                       tainted |-> Writers # {} \/ spoilt[p] \/ ver[p] # data]
           /\ spoilt' = [q \in Runs |-> spoilt[q] \/ pc[q] = "read"]
  BY <1>0, <1>2 DEF Create
<1> QED
  BY <1>1, <1>2 DEF Create, Goto

\* A writer's step that does not disturb the index leads to its next step.
LEMMA WriteStays ==
  ASSUME TypeOK, Ready, NEW p \in Runs, Write(p), ~Create(p), ~WriteClean(p), ~file'.tainted
  PROVE  pc'[p] \in writing \ {"header"}
<1>1. CASE WriteHeader(p)
  BY <1>1, WriteHeaderIs DEF Writes, writing
<1>2. CASE WriteRoleHdr(p)
  BY <1>2, WriteRoleHdrIs DEF Writes, writing
<1>3. CASE WriteRole(p)
  BY <1>3, WriteRoleIs DEF Writes, writing
<1>4. CASE WriteRoleLen(p)
  BY <1>4, WriteRoleLenIs DEF Writes, writing
<1>5. CASE WriteDstats(p)
  BY <1>5, WriteDstatsIs DEF Writes, writing
<1>6. CASE WriteObjHdr(p)
  BY <1>6, WriteObjHdrIs DEF Writes, writing
<1>7. CASE WriteObj(p)
  <2>1. Writes(p, "obj", "obj", pos[p], tree[p][Order[NextObj(p)]], 1)
    BY <1>7, WriteObjIs
  <2> QED
    BY <2>1 DEF Writes, writing
<1>8. CASE WriteObjLen(p)
  BY <1>8, WriteObjLenIs DEF Writes, writing
<1> QED
  BY <1>1, <1>2, <1>3, <1>4, <1>5, <1>6, <1>7, <1>8 DEF Write

\* A run's step is quiet, the creation of the index or a write to it.
LEMMA StepIs ==
  ASSUME TypeOK, Ready, NEW p \in Runs, RunStep(p)
  PROVE  \/ Quiet(p)
         \/ Create(p)
         \/ Write(p) /\ ~Create(p) /\ pc[p] \in writing /\ spoilt' = spoilt
<1>1. CASE Write(p) /\ ~Create(p)
  <2>1. SomeWrite(p)
    BY <1>1, WriteCases
  <2>2. pc[p] \in writing /\ spoilt' = spoilt
    BY <2>1 DEF SomeWrite, Writes
  <2> QED
    BY <1>1, <2>2
<1> QED
  BY <1>1 DEF RunStep, Quiet, Write

\* What is spoilt stays so until the run opens the index.
LEMMA SpoiltKept ==
  ASSUME TypeOK, Ready, NEW p \in Runs, RunStep(p), NEW q \in Runs, ~(q = p /\ Open(p))
  PROVE  /\ ~spoilt'[q] => ~spoilt[q]
         /\ pc[q] # "read" => spoilt'[q] = spoilt[q]
<1>0. spoilt \in [Runs -> BOOLEAN]
  BY DEF TypeOK
<1>1. CASE Quiet(p)
  BY <1>1, QuietIs
<1>2. CASE Create(p)
  BY <1>0, <1>2, CreateIs
<1> QED
  BY <1>1, <1>2, StepIs

\* Where a run comes from
LEMMA ComesFrom ==
  ASSUME TypeOK, Ready, NEW p \in Runs, RunStep(p)
  PROVE  /\ pc'[p] # "start"
         /\ pc'[p] = "open" => Start(p)
         /\ pc'[p] = "parse" => Open(p) \/ ReadChunk(p)
         /\ pc'[p] = "read" => Open(p) \/ ReadChunk(p)
         /\ pc'[p] = "loaded" => ReadEnd(p)
         /\ pc'[p] \in writing \cup {"create"} => Parse(p) \/ (pc[p] \in writing \cup {"create"} /\ UNCHANGED <<ver, roles, tree>>)
<1>0. pc \in [Runs -> Places]
  BY DEF TypeOK, Places
<1>1. CASE Start(p)
  <2>1. pc'[p] = "open"
    BY <1>0, <1>1 DEF Start, Goto
  <2> QED
    BY <1>1, <2>1 DEF writing
<1>2. CASE Open(p)
  <2>1. pc'[p] \in {"parse", "corrupt", "read"}
    BY <1>0, <1>2 DEF Open, Goto
  <2> QED
    BY <1>2, <2>1 DEF writing
<1>3. CASE ReadChunk(p)
  <2>1. pc'[p] \in {"read", "parse", "dead"}
    BY <1>3, ReadChunkIs DEF Turn
  <2> QED
    BY <1>3, <2>1 DEF writing
<1>4. CASE ReadEnd(p)
  <2>1. pc'[p] = "loaded"
    BY <1>0, <1>4 DEF ReadEnd, Goto
  <2> QED
    BY <1>4, <2>1 DEF writing
<1>5. CASE Kill(p)
  <2>1. pc'[p] = "dead"
    BY <1>0, <1>5 DEF Kill, Goto
  <2> QED
    BY <2>1 DEF writing
<1>6. CASE Parse(p)
  <2>1. pc'[p] = "create"
    BY <1>0, <1>6 DEF Parse, Goto
  <2> QED
    BY <1>6, <2>1
<1>7. CASE Create(p)
  <2>1. pc[p] = "create" /\ UNCHANGED <<ver, roles, tree>> /\ pc'[p] \in {"done", "header"}
    BY <1>7, CreateIs
  <2> QED
    BY <2>1
<1>8. CASE SomeWrite(p)
  <2>1. PICK here \in writing, there \in writing \cup {"done"}, i \in Int, c \in Cells, move \in Nat :
          Writes(p, here, there, i, c, move)
    BY <1>8 DEF SomeWrite
  <2>2. pc[p] \in writing /\ UNCHANGED <<ver, roles, tree>> /\ pc'[p] \in writing \cup {"done"}
    BY <2>1 DEF Writes
  <2> QED
    BY <2>2 DEF writing
<1> QED
  BY <1>1, <1>2, <1>3, <1>4, <1>5, <1>6, <1>7, <1>8, WriteCases DEF RunStep

\* A run that reads and is not spoilt
Reads(p) == pc[p] = "read" /\ ~spoilt[p]
WholeFor(p) ==
  LET c == file.cells IN
  /\ file.exists = TRUE /\ Writers = {} /\ ~file.tainted
  /\ Whole(c, ver[p]) /\ size[p] = Len(c)
  /\ \/ pos[p] \in {2, NRoles(c) + 3, NRoles(c) + 4} /\ DOMAIN tree[p] = {}
     \/ /\ pos[p] = Len(c) + 1 /\ DOMAIN tree[p] = DOMAIN Data[ver[p]]
        /\ p \notin Unmapped => Got(p)
LEMMA ReadingIs ==
  Reading <=> \A p \in Runs : Reads(p) => WholeFor(p)
BY DEF Reading, Reads, WholeFor

\* It gets on, as the index is whole (ReadOn).
LEMMA ReadsOn ==
  ASSUME TypeOK, Reading, NEW p \in Runs, ReadChunk(p), ~spoilt'[p]
  PROVE  LET c  == file.cells
             nr == NRoles(c) IN
         /\ pc'[p] = "read" /\ DOMAIN tree[p] = {} /\ WholeFor(p)
         /\ UNCHANGED <<file, ver, size, spoilt>>
         /\ \/ /\ pos[p] = 2 /\ pos'[p] = nr + 3 /\ tree' = tree
               /\ \E names : /\ Len(names) = nr /\ \A i \in 1 .. nr : names[i] = c[i + 2].name
                             /\ roles' = [roles EXCEPT ![p] = AddRoles(roles[p], names)]
            \/ pos[p] = nr + 3 /\ pos'[p] = nr + 4 /\ tree' = tree /\ roles' = roles
            \/ /\ pos[p] = nr + 4 /\ pos'[p] = Len(c) + 1 /\ roles' = roles
               /\ DOMAIN tree'[p] = DOMAIN Data[ver[p]]
               /\ p \notin Unmapped =>
                    \A id \in DOMAIN tree'[p] : \E i \in nr + 5 .. Len(c) : c[i].id = id /\ tree'[p][id] = c[i]
<1>1. pc[p] = "read" /\ UNCHANGED <<file, ver, size, spoilt>> /\ ~spoilt[p]
  BY ReadChunkIs DEF Turn
<1>2. WholeFor(p)
  BY <1>1, ReadingIs DEF Reads
<1>3. /\ Whole(file.cells, ver[p]) /\ size[p] = Len(file.cells)
      /\ \/ pos[p] \in {2, NRoles(file.cells) + 3, NRoles(file.cells) + 4} /\ DOMAIN tree[p] = {}
         \/ pos[p] = Len(file.cells) + 1
  BY <1>2 DEF WholeFor
<1> QED
  BY <1>1, <1>2, <1>3, ReadOn

\* A run that is not spoilt starts with an empty tree.
LEMMA EmptyStep ==
  ASSUME TypeOK, Ready, Empty, Reading, NothingMade, Next
  PROVE  Empty'
<1>0. \A q \in Runs : /\ pc[q] = "open" \/ (pc[q] = "parse" /\ ~spoilt[q]) => DOMAIN tree[q] = {}
                      /\ pc[q] \in {"start", "open"} => spoilt[q] = FALSE
  BY DEF Empty
<1> SUFFICES ASSUME NEW q \in Runs
             PROVE  /\ pc'[q] = "open" \/ (pc'[q] = "parse" /\ ~spoilt'[q]) => DOMAIN tree'[q] = {}
                    /\ pc'[q] \in {"start", "open"} => spoilt'[q] = FALSE
  BY DEF Empty
<1>1. CASE Edit
  BY <1>0, <1>1 DEF Edit, run
<1>2. ASSUME NEW p \in Runs, RunStep(p), q # p
      PROVE  /\ pc'[q] = "open" \/ (pc'[q] = "parse" /\ ~spoilt'[q]) => DOMAIN tree'[q] = {}
             /\ pc'[q] \in {"start", "open"} => spoilt'[q] = FALSE
  <2>1. pc'[q] = pc[q] /\ tree'[q] = tree[q]
    BY <1>2, Others DEF Keeps
  <2>2. (~spoilt'[q] => ~spoilt[q]) /\ (pc[q] # "read" => spoilt'[q] = spoilt[q])
    BY <1>2, SpoiltKept
  <2> QED
    BY <1>0, <2>1, <2>2
<1>3. ASSUME RunStep(q)
      PROVE  /\ pc'[q] = "open" \/ (pc'[q] = "parse" /\ ~spoilt'[q]) => DOMAIN tree'[q] = {}
             /\ pc'[q] \in {"start", "open"} => spoilt'[q] = FALSE
  <2>0. pc'[q] # "start"
    BY <1>3, ComesFrom
  <2>1. CASE pc'[q] = "open"
    <3>1. Start(q)
      BY <1>3, <2>1, ComesFrom
    <3>2. pc[q] = "start" /\ spoilt' = spoilt /\ tree' = [tree EXCEPT ![q] = [id \in Made[q] |-> Obj(id, 0, InMem)]]
      BY <3>1 DEF Start
    <3>3. tree'[q] = [id \in Made[q] |-> Obj(id, 0, InMem)]
      BY <3>2 DEF TypeOK
    <3>4. DOMAIN tree'[q] = {}
      BY <3>3 DEF NothingMade
    <3> QED
      BY <1>0, <2>1, <3>2, <3>4
  <2>2. CASE pc'[q] = "parse" /\ ~spoilt'[q]
    <3>1. CASE Open(q)
      BY <1>0, <2>2, <3>1 DEF Open
    <3>2. CASE ReadChunk(q)
      BY <2>2, <3>2, ReadsOn
    <3> QED
      BY <1>3, <2>2, <3>1, <3>2, ComesFrom
  <2> QED
    BY <2>0, <2>1, <2>2
<1> QED
  BY <1>1, <1>2, <1>3, NextIs

\* A run that is not spoilt writes what belongs to its version of the data.
LEMMA ExactStep ==
  ASSUME TypeOK, Ready, Empty, Exact, Next
  PROVE  Exact'
<1> DEFINE Written(q) == /\ DOMAIN tree[q] = DOMAIN Data[ver[q]]
                         /\ \A id \in DOMAIN tree[q] : tree[q][id].role \in 0 .. Len(roles[q])
<1>0. \A q \in Runs : pc[q] \in After /\ ~spoilt[q] => Written(q)
  BY DEF Exact, After
<1> SUFFICES ASSUME NEW q \in Runs, pc'[q] \in After, ~spoilt'[q]
             PROVE  Written(q)'
  BY DEF Exact, After
<1>1. CASE Edit
  BY <1>0, <1>1 DEF Edit, run
<1>2. ASSUME NEW p \in Runs, RunStep(p), q # p
      PROVE  Written(q)'
  <2>1. pc'[q] = pc[q] /\ tree'[q] = tree[q] /\ ver'[q] = ver[q] /\ roles'[q] = roles[q]
    BY <1>2, Others DEF Keeps
  <2>2. ~spoilt[q]
    BY <1>2, SpoiltKept
  <2> QED
    BY <1>0, <2>1, <2>2
<1>3. ASSUME RunStep(q)
      PROVE  Written(q)'
  <2>1. CASE Parse(q)
    <3> DEFINE t == AddRoles(roles[q], DataRoles[ver[q]])
    <3>1. /\ ver' = ver /\ spoilt' = spoilt /\ roles' = [roles EXCEPT ![q] = t] /\ pc[q] = "parse"
          /\ DOMAIN tree'[q] = DOMAIN Data[ver[q]] \cup DOMAIN tree[q]
          /\ \A id \in DOMAIN Data[ver[q]] : tree'[q][id].role \in 0 .. Len(t)
      BY <2>1, ParseIs
    <3> HIDE DEF t
    <3>2. roles'[q] = t
      BY <3>1 DEF TypeOK
    <3>3. DOMAIN tree[q] = {}
      BY <3>1 DEF Empty
    <3> QED
      BY <3>1, <3>2, <3>3
  <2>2. CASE pc[q] \in After /\ UNCHANGED <<ver, roles, tree>>
    <3>1. ~Open(q)
      BY <2>2 DEF Open, After, writing
    <3>2. ~spoilt[q]
      BY <1>3, <3>1, SpoiltKept
    <3> QED
      BY <1>0, <2>2, <3>2
  <2> QED
    BY <1>3, <2>1, <2>2, AfterParse
<1> QED
  BY <1>1, <1>2, <1>3, NextIs

\* What the last write of an undisturbed writer leaves
LEMMA CleanIs ==
  ASSUME IInv, Exact, NEW p \in Runs, WriteClean(p), ~file'.tainted
  PROVE  /\ Writers' = {} /\ data' = data /\ Whole(file'.cells, data) /\ ~spoilt[p] /\ roles'[p] = roles[p]
         /\ Len(Table(file'.cells)) = Len(roles[p])
         /\ \A j \in 1 .. Len(roles[p]) : Table(file'.cells)[j] = roles[p][j]
<1>0. /\ TypeOK /\ Parsed /\ Alone /\ Len(roles[p]) \in Nat /\ cnt[p] \in Nat /\ pos[p] \in Nat
      /\ roles' = roles
  BY DEF IInv, TypeOK, WriteClean
<1>1. Writes(p, "clean", "done", 1, CleanHdr, 0) /\ "clean" \in writing
  BY <1>0, WriteCleanIs DEF writing
<1>2. Authored(p, "clean", "done", 1, CleanHdr, 0)
  BY <1>0, <1>1, AuthorIs
<1>3. /\ pc[p] = "clean" /\ pc'[p] = "done" /\ ver[p] = data /\ data' = data /\ Author(p) /\ Writers' \subseteq {p}
      /\ 1 \in 1 .. pos[p] - 1 =>
           /\ Len(file'.cells) = pos[p] - 1 /\ file'.cells[1] = CleanHdr
           /\ \A j \in 1 .. pos[p] - 1 : j # 1 => file'.cells[j] = file.cells[j]
  BY ONLY <1>2 DEF Authored
<1>4. pos[p] = Len(roles[p]) + 5 + cnt[p] /\ spoilt[p] = FALSE
  BY <1>3 DEF Author, Place
<1>5. 1 \in 1 .. pos[p] - 1
  BY ONLY <1>0, <1>4
<1>6. /\ DOMAIN tree[p] = DOMAIN Data[ver[p]] /\ \A id \in DOMAIN tree[p] : tree[p][id].role \in 0 .. Len(roles[p])
      /\ IsData(tree[p], ver[p], roles[p])
  BY <1>0, <1>1, <1>3, <1>4 DEF Exact, Parsed
<1>7. /\ Whole(file'.cells, ver[p])
      /\ Len(Table(file'.cells)) = Len(roles[p]) /\ \A j \in 1 .. Len(roles[p]) : Table(file'.cells)[j] = roles[p][j]
  BY <1>0, <1>3, <1>5, <1>6, WholeFrom
<1>8. Writers' = {}
  BY <1>3 DEF Writers, writing
<1> QED
  BY ONLY <1>0, <1>3, <1>4, <1>7, <1>8

\* Who makes an index usable has cleaned it.
LEMMA BecomesUsable ==
  ASSUME IInv, Next, Usable'
  PROVE  \/ Usable /\ file'.cells = file.cells /\ file'.older = TRUE /\ Writers' = Writers
         \/ Usable /\ file' = file /\ data' = data
         \/ \E p \in Runs : WriteClean(p)
<1>0. /\ TypeOK /\ Ready /\ Alone /\ Alone' /\ TypeOK'
      /\ ~file'.tainted /\ file'.cells # <<>> /\ file'.cells[1] = CleanHdr
  BY AloneStep, TypeStep DEF IInv, Usable
<1>1. CASE Edit
  <2>1. file' = [file EXCEPT !.older = TRUE] /\ UNCHANGED run
    BY <1>1 DEF Edit
  <2>2. /\ file'.cells = file.cells /\ file'.exists = file.exists /\ file'.tainted = file.tainted
        /\ file'.older = TRUE
    BY ONLY <1>0, <2>1, FileType
  <2>3. Writers' = Writers
    BY ONLY <2>1 DEF run, Writers
  <2>4. Usable
    <3>1. file'.exists = TRUE /\ file'.tainted = FALSE
      BY <1>0, FileType DEF Usable, TypeOK
    <3> QED
      BY <1>0, <2>2, <3>1 DEF Usable
  <2> QED
    BY ONLY <2>2, <2>3, <2>4
<1>2. ASSUME NEW p \in Runs, RunStep(p), ~WriteClean(p)
      PROVE  Usable /\ file' = file /\ data' = data
  <2>1. CASE Quiet(p)
    BY <1>0, <2>1, QuietIs DEF Usable
  <2>2. CASE Create(p)
    BY <1>0, <2>2, CreateIs DEF Usable
  <2>3. CASE Write(p) /\ ~Create(p)
    <3>1. pc'[p] \in writing \ {"header"}
      BY <1>0, <1>2, <2>3, WriteStays
    <3>2. Author(p)'
      BY <1>0, <3>1 DEF Alone, Author, Writers
    <3>3. file'.cells[1] = DirtyHdr
      BY <3>1, <3>2 DEF Author, Layout
    <3> QED
      BY <1>0, <3>3 DEF DirtyHdr, CleanHdr, Hdr
  <2> QED
    BY <1>0, <1>2, <2>1, <2>2, <2>3, StepIs
<1> QED
  BY <1>1, <1>2, NextIs

\* With no writer, the file is changed by creat() only.
LEMMA WritersQuiet ==
  ASSUME IInv, Writers = {}, NEW p \in Runs, RunStep(p)
  PROVE  \/ Quiet(p) /\ Writers' = {} /\ file' = file
         \/ Create(p)
<1>0. TypeOK /\ Ready
  BY DEF IInv
<1>1. CASE Quiet(p)
  <2>1. pc'[p] \notin writing /\ file' = file
    BY <1>0, <1>1, QuietIs
  <2>2. \A q \in Runs : q # p => pc'[q] = pc[q]
    BY <1>0, Others DEF Keeps
  <2> QED
    BY <1>1, <2>1, <2>2 DEF Writers
<1>2. CASE pc[p] \in writing
  BY <1>2 DEF Writers
<1> QED
  BY <1>0, <1>1, <1>2, StepIs

\* A header becomes clean when the index is whole.
LEMMA CleanStep ==
  ASSUME IInv, Exact, Clean, Next
  PROVE  Clean'
<1> SUFFICES ASSUME Usable'
             PROVE  /\ Writers' = {}
                    /\ \E v \in DOMAIN Data : Whole(file'.cells, v) /\ (v = data' \/ file'.older)
  BY DEF Clean
<1>0. TypeOK /\ Ready /\ TypeOK'
  BY TypeStep DEF IInv
<1>1. ASSUME NEW p \in Runs, WriteClean(p)
      PROVE  /\ Writers' = {}
             /\ \E v \in DOMAIN Data : Whole(file'.cells, v) /\ (v = data' \/ file'.older)
  <2>1. Writers' = {} /\ data' = data /\ Whole(file'.cells, data)
    BY <1>1, CleanIs DEF Usable
  <2> QED
    BY <1>0, <2>1 DEF TypeOK
<1>2. CASE Usable /\ file'.cells = file.cells /\ file'.older = TRUE /\ Writers' = Writers
  BY <1>2 DEF Clean
<1>3. CASE Usable /\ file' = file /\ data' = data
  <2>1. Writers = {} /\ \E v \in DOMAIN Data : Whole(file.cells, v) /\ (v = data \/ file.older)
    BY <1>3 DEF Clean
  <2>2. Writers' = {}
    <3>1. CASE Edit
      BY <2>1, <3>1 DEF Edit, run, Writers
    <3>2. ASSUME NEW p \in Runs, RunStep(p)
          PROVE  Writers' = {}
      <4>1. CASE Create(p)
        <5>1. /\ \A q \in Runs : q # p => pc'[q] = pc[q]
              /\ pc'[p] = "done" \/ file'.cells = <<>>
          BY <1>0, <4>1, CreateIs
        <5>2. file'.cells # <<>>
          BY DEF Usable
        <5> QED
          BY <2>1, <5>1, <5>2 DEF Writers, writing
      <4> QED
        BY <2>1, <3>2, <4>1, WritersQuiet
    <3> QED
      BY <3>1, <3>2, NextIs
  <2> QED
    BY <1>3, <2>1, <2>2
<1> QED
  BY <1>1, <1>2, <1>3, BecomesUsable

\* A whole index is read to its end.
LEMMA ReadingStep ==
  ASSUME IInv, WInv, Next
  PROVE  Reading'
<1>0. TypeOK /\ Ready /\ Empty /\ Clean /\ Reading
  BY DEF IInv, WInv
<1> SUFFICES ASSUME NEW q \in Runs, Reads(q)'
             PROVE  WholeFor(q)'
  BY DEF Reading, Reads, WholeFor
<1>1. CASE Edit
  <2>1. /\ file' = [file EXCEPT !.older = TRUE]
        /\ UNCHANGED <<pc, ver, roles, tree, pos, size, spoilt>>
    BY <1>1 DEF Edit, run
  <2>2. /\ file'.cells = file.cells /\ file'.exists = file.exists /\ file'.tainted = file.tainted
    BY ONLY <1>0, <2>1, FileType
  <2>3. Reads(q) /\ Writers' = Writers
    BY <2>1 DEF Reads, Writers
  <2>4. WholeFor(q)
    BY <1>0, <2>3, ReadingIs
  <2>5. Got(q) => Got(q)'
    BY ONLY <2>1, <2>2 DEF Got
  <2> QED
    BY ONLY <2>1, <2>2, <2>3, <2>4, <2>5 DEF WholeFor
<1>2. ASSUME NEW p \in Runs, RunStep(p), q # p
      PROVE  WholeFor(q)'
  <2>1. Keeps(q)
    BY <1>0, <1>2, Others
  <2>2. Reads(q)
    BY <1>0, <1>2, <2>1, SpoiltKept DEF Reads, Keeps
  <2>3. WholeFor(q)
    BY <1>0, <2>2, ReadingIs
  <2>4. Writers' = {} /\ file' = file
    <3>1. CASE Create(p)
      <4>1. /\ \A r \in Runs : r # p => pc'[r] = pc[r]
            /\ \/ pc'[p] = "done" /\ file' = file
               \/ spoilt' = [r \in Runs |-> spoilt[r] \/ pc[r] = "read"]
        BY <1>0, <3>1, CreateIs
      <4>2. pc'[p] = "done" /\ file' = file
        BY <2>2, <4>1 DEF Reads
      <4> QED
        BY <2>3, <4>1, <4>2 DEF WholeFor, Writers, writing
    <3>2. Writers = {}
      BY <2>3 DEF WholeFor
    <3> QED
      BY <1>2, <3>1, <3>2, WritersQuiet
  <2>5. Got(q) => Got(q)'
    BY ONLY <2>1, <2>4 DEF Got, Keeps
  <2> QED
    BY ONLY <2>1, <2>3, <2>4, <2>5 DEF WholeFor, Keeps
<1>3. ASSUME Open(q)
      PROVE  WholeFor(q)'
  <2>1. /\ pc[q] = "open" /\ UNCHANGED <<data, file, ver, tree>>
        /\ spoilt' = [spoilt EXCEPT ![q] = file.tainted \/ ver[q] # data]
    BY <1>3 DEF Open
  <2>2. pc'[q] = "read" /\ ~spoilt'[q]
    BY DEF Reads
  <2>3. /\ file.exists /\ ~file.older /\ file.cells # <<>> /\ file.cells[1] = Hdr(FALSE)
        /\ pos' = [pos EXCEPT ![q] = 2] /\ size' = [size EXCEPT ![q] = Len(file.cells)]
    BY <1>0, <1>3, <2>2 DEF Open, Goto, TypeOK
  <2>4. ~file.tainted /\ ver[q] = data /\ pos'[q] = 2 /\ size'[q] = Len(file.cells)
    BY <1>0, <2>1, <2>2, <2>3 DEF TypeOK
  <2>5. Usable
    BY <2>3, <2>4 DEF Usable, CleanHdr
  <2>6. Writers = {} /\ Whole(file.cells, data)
    BY <1>0, <2>3, <2>5 DEF Clean
  <2>7. DOMAIN tree'[q] = {}
    BY <1>0, <2>1 DEF Empty
  <2>8. Writers' = {}
    BY <1>0, <1>3, <2>6, WritersQuiet, CreateIs DEF RunStep, Open
  <2>9. file.exists = TRUE
    BY <1>0, <2>3, FileType
  <2> QED
    BY ONLY <2>1, <2>4, <2>6, <2>7, <2>8, <2>9 DEF WholeFor
<1>4. ASSUME ReadChunk(q)
      PROVE  WholeFor(q)'
  <2> DEFINE c == file.cells
             nr == NRoles(c)
  <2>2. /\ pc'[q] = "read" /\ DOMAIN tree[q] = {} /\ WholeFor(q)
        /\ UNCHANGED <<file, ver, size, spoilt>>
        /\ \/ pos'[q] = nr + 3 /\ tree' = tree
           \/ pos'[q] = nr + 4 /\ tree' = tree
           \/ /\ pos'[q] = Len(c) + 1
              /\ DOMAIN tree'[q] = DOMAIN Data[ver[q]]
              /\ q \notin Unmapped =>
                   \A id \in DOMAIN tree'[q] : \E i \in nr + 5 .. Len(c) : c[i].id = id /\ tree'[q][id] = c[i]
    BY <1>0, <1>4, ReadsOn DEF Reads
  <2>3. Writers' = {}
    <3>1. Writers = {}
      BY <2>2 DEF WholeFor
    <3> QED
      BY <1>0, <1>4, <3>1, WritersQuiet DEF RunStep, ReadChunk, Create
  <2>4. Whole(c, ver[q]) /\ size[q] = Len(c) /\ file.exists = TRUE /\ ~file.tainted
    BY <2>2 DEF WholeFor
  <2>5. \A i \in nr + 5 .. Len(c) : Meant(c[i], ver[q], Table(c), c[i].id) /\ c[i].role \in 0 .. nr
    BY <2>4 DEF Whole
  <2>6. \/ pos'[q] \in {nr + 3, nr + 4} /\ DOMAIN tree'[q] = {}
        \/ /\ pos'[q] = Len(c) + 1 /\ DOMAIN tree'[q] = DOMAIN Data[ver[q]]
           /\ q \notin Unmapped => Got(q)'
    <3>1. CASE tree' = tree /\ pos'[q] \in {nr + 3, nr + 4}
      BY ONLY <2>2, <3>1
    <3>2. CASE /\ pos'[q] = Len(c) + 1
               /\ DOMAIN tree'[q] = DOMAIN Data[ver[q]]
               /\ q \notin Unmapped =>
                    \A id \in DOMAIN tree'[q] : \E i \in nr + 5 .. Len(c) : c[i].id = id /\ tree'[q][id] = c[i]
      <4>1. q \notin Unmapped => \A id \in DOMAIN tree'[q] : Meant(tree'[q][id], ver[q], Table(c), id) /\ tree'[q][id].role \in 0 .. nr
        BY ONLY <2>5, <3>2
      <4> QED
        BY ONLY <2>2, <3>2, <4>1 DEF Got
    <3> QED
      BY ONLY <2>2, <3>1, <3>2
  <2> QED
    BY ONLY <2>2, <2>3, <2>4, <2>6 DEF WholeFor
<1>5. ASSUME RunStep(q)
      PROVE  WholeFor(q)'
  BY <1>0, <1>3, <1>4, <1>5, ComesFrom DEF Reads
<1> QED
  BY <1>1, <1>2, <1>5, NextIs

\* The second layer holds in the first state and is kept.
LEMMA WInvInit ==
  ASSUME Init, NothingMade
  PROVE  WInv
<1>1. /\ pc = [p \in Runs |-> "start"] /\ spoilt = [p \in Runs |-> FALSE]
      /\ file.exists = FALSE
  BY DEF Init
<1>2. Empty /\ Exact /\ Reading
  BY ONLY <1>1 DEF Empty, Exact, Reading, writing
<1>3. Clean
  BY <1>1 DEF Clean, Usable
<1> QED
  BY <1>2, <1>3 DEF WInv

LEMMA WInvStep ==
  ASSUME IInv, WInv, NothingMade, [Next]_vars
  PROVE  WInv'
<1>1. CASE Next
  BY <1>1, EmptyStep, ExactStep, CleanStep, ReadingStep DEF IInv, WInv
<1>2. CASE UNCHANGED vars
  <2>1. UNCHANGED <<data, file, fails, pc, ver, roles, tree, pos, size, cnt, spoilt>>
    BY <1>2 DEF vars, run
  <2>2. Writers' = Writers
    BY ONLY <2>1 DEF Writers
  <2>3. \A p \in Runs : Got(p) => Got(p)'
    BY ONLY <2>1 DEF Got
  <2>4. Empty' /\ Exact' /\ Clean'
    BY ONLY <2>1, <2>2, WInv DEF WInv, Empty, Exact, Clean, Usable
  <2>5. Reading'
    BY ONLY <2>1, <2>2, <2>3, WInv DEF WInv, Reading
  <2> QED
    BY <2>4, <2>5 DEF WInv
<1> QED
  BY <1>1, <1>2

LEMMA WInvariant ==
  ASSUME NothingMade
  PROVE  Spec => [](IInv /\ WInv)
<1>1. Init => IInv /\ WInv
  BY IInvInit, WInvInit
<1>2. IInv /\ WInv /\ [Next]_vars => (IInv /\ WInv)'
  BY IInvStep, WInvStep
<1> QED
  BY <1>1, <1>2, PTL DEF Spec

\* CleanWhole: an index with a clean header that no failure and no second
\* writer has disturbed has the objects of the data file and nothing else,
\* whenever the runs before were killed (index_write()).
THEOREM CleanWholeHolds ==
  ASSUME NothingMade
  PROVE  Spec => []CleanWhole
<1>1. ASSUME IInv, WInv
      PROVE  CleanWhole
  <2> DEFINE c == file.cells
             nr == NRoles(c)
             names == [j \in 1 .. nr |-> c[j + 2].name]
  <2> SUFFICES ASSUME file.exists, ~file.older, ~file.tainted, c # <<>>, c[1] = Hdr(FALSE)
               PROVE  \E n \in 0 .. Len(c) - 4 :
                        /\ c[2] = Chunk("ROLE", n)
                        /\ \A i \in 3 .. n + 2 : c[i].k = "role"
                        /\ c[n + 3] = Chunk("DSTS", 0)
                        /\ c[n + 4] = Chunk("OBJS", Len(c) - n - 4)
                        /\ \A i \in n + 5 .. Len(c) :
                             c[i].k = "obj" /\ Meant(c[i], data, [j \in 1 .. n |-> c[j + 2].name], c[i].id)
                        /\ {c[i].id : i \in n + 5 .. Len(c)} = DOMAIN Data[data]
    BY DEF CleanWhole
  <2>1. Whole(c, data)
    BY <1>1 DEF WInv, Clean, Usable, CleanHdr
  <2>2. Table(c) = names
    BY DEF Table
  <2>3. /\ nr \in 0 .. Len(c) - 4 /\ c[2] = Chunk("ROLE", nr)
        /\ \A i \in 3 .. nr + 2 : c[i].k = "role"
        /\ c[nr + 3] = Chunk("DSTS", 0)
        /\ c[nr + 4] = Chunk("OBJS", Len(c) - nr - 4)
        /\ \A i \in nr + 5 .. Len(c) : c[i].k = "obj" /\ Meant(c[i], data, Table(c), c[i].id)
        /\ \A i \in nr + 5 .. Len(c) : c[i].id \in DOMAIN Data[data]
        /\ \A id \in DOMAIN Data[data] : \E i \in nr + 5 .. Len(c) : c[i].id = id
    BY <2>1 DEF Whole
  <2> HIDE DEF nr, c, names
  <2>4. {c[i].id : i \in nr + 5 .. Len(c)} = DOMAIN Data[data]
    <3>1. /\ \A i \in nr + 5 .. Len(c) : c[i].id \in DOMAIN Data[data]
          /\ \A id \in DOMAIN Data[data] : \E i \in nr + 5 .. Len(c) : c[i].id = id
      BY ONLY <2>3
    <3>2. \A x \in {c[i].id : i \in nr + 5 .. Len(c)} : x \in DOMAIN Data[data]
      BY ONLY <3>1
    <3>3. \A x \in DOMAIN Data[data] : x \in {c[i].id : i \in nr + 5 .. Len(c)}
      BY ONLY <3>1
    <3> QED
      BY ONLY <3>2, <3>3
  <2>5. \A i \in nr + 5 .. Len(c) : c[i].k = "obj" /\ Meant(c[i], data, names, c[i].id)
    BY ONLY <2>2, <2>3
  <2>6. nr \in 0 .. Len(c) - 4
    BY ONLY <2>3
  <2> USE <2>6
  <2> WITNESS nr \in 0 .. Len(c) - 4
  <2> QED
    BY ONLY <2>3, <2>4, <2>5 DEF names
<1> QED
  BY <1>1, WInvariant, PTL

\* ParsedExact: the rules make nothing of their own, so what a run that met no
\* index which was not whole has parsed is all that it has; what index_read()
\* left behind in another run is never the data's object (read_osm_file()).
THEOREM ParsedExactHolds ==
  ASSUME NothingMade
  PROVE  Spec => []ParsedExact
<1>1. ASSUME IInv, WInv
      PROVE  ParsedExact
  BY <1>1 DEF IInv, WInv, Parsed, Exact, NothingMade, ParsedExact
<1> QED
  BY <1>1, WInvariant, PTL

(***************************************************************************)
(* Runs with other rules read the same.                                    *)
(***************************************************************************)
\* What is read from a whole index is a beginning, too.
LEMMA ReadTable ==
  ASSUME TypeOK, NEW all, Indexed(all), NEW p \in Runs, WholeFor(p)
  PROVE  /\ NRoles(file.cells) \in Nat /\ Begins(Table(file.cells), all)
         /\ Len(Table(file.cells)) = NRoles(file.cells)
         /\ \A i \in 1 .. NRoles(file.cells) : Table(file.cells)[i] = file.cells[i + 2].name
<1>1. /\ file.exists = TRUE /\ ~file.tainted /\ Whole(file.cells, ver[p])
  BY DEF WholeFor
<1>2. file.cells \in Seq(Cells)
  BY FileType
<1>3. Len(file.cells) >= 4 /\ file.cells[1] = CleanHdr
  BY <1>1 DEF Whole
<1>4. Usable
  BY <1>1, <1>2, <1>3 DEF Usable
<1>5. /\ NRoles(file.cells) \in 0 .. Len(file.cells) - 4 /\ Len(file.cells) \in Nat
      /\ Len(Table(file.cells)) = NRoles(file.cells)
      /\ \A i \in 1 .. NRoles(file.cells) : Table(file.cells)[i] = file.cells[i + 2].name
  BY <1>1, <1>2, WholeTable
<1> QED
  BY <1>4, <1>5 DEF Indexed

\* A table grows along the one list.
LEMMA TableGrows ==
  ASSUME TypeOK, NEW all, RolesInOrder(all), NEW p \in Runs, Begins(roles[p], all),
         NEW rs, Len(rs) \in Nat, Begins(rs, all), roles' = [roles EXCEPT ![p] = AddRoles(roles[p], rs)]
  PROVE  Begins(roles'[p], all) /\ Len(rs) <= Len(roles'[p])
<1>1. /\ all \in Seq(Names \ {NoRole}) /\ \A i, j \in 1 .. Len(all) : all[i] = all[j] => i = j
      /\ NoRole \notin Names \ {NoRole}
  BY DEF RolesInOrder
<1>2. roles[p] \in Seq(Names \ {NoRole}) /\ roles'[p] = AddRoles(roles[p], rs)
  BY DEF TypeOK
<1>3. Begins(AddRoles(roles[p], rs), all) /\ Len(rs) <= Len(AddRoles(roles[p], rs))
  BY <1>1, <1>2, AddRolesBegins
<1> QED
  BY ONLY <1>2, <1>3

LEMMA TablesStep ==
  ASSUME IInv, WInv, NEW all, RolesInOrder(all), Tables(all), Indexed(all), Next
  PROVE  Tables(all)'
<1>0. TypeOK /\ Ready /\ Empty /\ Reading /\ \A q \in Runs : ~spoilt[q] => Begins(roles[q], all)
  BY DEF IInv, WInv, Tables
<1> SUFFICES ASSUME NEW q \in Runs, ~spoilt'[q]
             PROVE  Begins(roles'[q], all)
  BY DEF Tables, Begins
<1>1. CASE Edit
  BY <1>0, <1>1 DEF Edit, run
<1>2. ASSUME NEW p \in Runs, RunStep(p), q # p
      PROVE  Begins(roles'[q], all)
  BY <1>0, <1>2, Others, SpoiltKept DEF Keeps
<1>3. CASE Open(q)
  BY <1>0, <1>3 DEF Open, Empty
<1>4. ASSUME RunStep(q), ~Open(q)
      PROVE  Begins(roles'[q], all)
  <2>0. ~spoilt[q] /\ Begins(roles[q], all)
    BY <1>0, <1>4, SpoiltKept
  <2>1. CASE Start(q)
    <3>1. roles' = [roles EXCEPT ![q] = AddRoles(<<>>, RuleRoles[q])]
      BY <2>1 DEF Start
    <3>2. roles'[q] = AddRoles(<<>>, RuleRoles[q])
      BY <1>0, <3>1 DEF TypeOK
    <3>3. /\ all \in Seq(Names \ {NoRole}) /\ \A i, j \in 1 .. Len(all) : all[i] = all[j] => i = j
          /\ NoRole \notin Names \ {NoRole} /\ Begins(RuleRoles[q], all)
      BY DEF RolesInOrder
    <3>4. Len(RuleRoles[q]) \in Nat
      BY RolesAre
    <3>5. <<>> \in Seq(Names \ {NoRole}) /\ Begins(<<>>, all)
      BY <3>3 DEF Begins
    <3>6. Begins(AddRoles(<<>>, RuleRoles[q]), all)
      BY <3>3, <3>4, <3>5, AddRolesBegins
    <3> QED
      BY ONLY <3>2, <3>6
  <2>2. CASE ReadChunk(q)
    <3> DEFINE c == file.cells
               nr == NRoles(c)
    <3>1. /\ WholeFor(q)
          /\ \/ roles' = roles
             \/ \E names : /\ Len(names) = nr /\ \A i \in 1 .. nr : names[i] = c[i + 2].name
                           /\ roles' = [roles EXCEPT ![q] = AddRoles(roles[q], names)]
      BY <1>0, <2>0, <2>2, ReadsOn
    <3>2. nr \in Nat /\ Begins(Table(c), all) /\ Len(Table(c)) = nr /\ \A i \in 1 .. nr : Table(c)[i] = c[i + 2].name
      BY <1>0, <3>1, ReadTable
    <3>3. ASSUME NEW names, Len(names) = nr, \A i \in 1 .. nr : names[i] = c[i + 2].name,
                 roles' = [roles EXCEPT ![q] = AddRoles(roles[q], names)]
          PROVE  Begins(roles'[q], all)
      <4>1. Begins(names, all) /\ Len(names) \in Nat
        BY ONLY <3>2, <3>3 DEF Begins
      <4> QED
        BY <1>0, <2>0, <3>3, <4>1, TableGrows
    <3> QED
      BY <2>0, <3>1, <3>3
  <2>3. CASE Parse(q)
    <3>1. roles' = [roles EXCEPT ![q] = AddRoles(roles[q], DataRoles[ver[q]])] /\ ver[q] \in DOMAIN Data
      BY <1>0, <2>3, ParseIs DEF TypeOK
    <3>2. Begins(DataRoles[ver[q]], all) /\ Len(DataRoles[ver[q]]) \in Nat
      BY <3>1, RolesAre DEF RolesInOrder
    <3> QED
      BY <1>0, <2>0, <3>1, <3>2, TableGrows
  <2>4. CASE ReadEnd(q) \/ Kill(q)
    BY <2>0, <2>4 DEF ReadEnd, Kill
  <2>5. CASE Create(q)
    BY <1>0, <2>0, <2>5, CreateIs
  <2>6. CASE SomeWrite(q)
    BY <2>0, <2>6 DEF SomeWrite, Writes
  <2> QED
    BY <1>0, <1>4, <2>1, <2>2, <2>3, <2>4, <2>5, <2>6, WriteCases DEF RunStep
<1> QED
  BY <1>1, <1>2, <1>3, <1>4, NextIs

LEMMA IndexedStep ==
  ASSUME IInv, WInv, NEW all, Tables(all), Indexed(all), Next
  PROVE  Indexed(all)'
<1> SUFFICES ASSUME Usable'
             PROVE  Begins(Table(file'.cells), all)
  BY DEF Indexed, Begins, Table, NRoles
<1>1. CASE Usable /\ file'.cells = file.cells
  BY <1>1 DEF Indexed
<1>2. ASSUME NEW p \in Runs, WriteClean(p)
      PROVE  Begins(Table(file'.cells), all)
  <2>1. /\ ~spoilt[p] /\ Len(Table(file'.cells)) = Len(roles[p])
        /\ \A j \in 1 .. Len(roles[p]) : Table(file'.cells)[j] = roles[p][j]
    BY <1>2, CleanIs DEF Usable, WInv
  <2>2. Begins(roles[p], all)
    BY <2>1 DEF Tables
  <2> QED
    BY ONLY <2>1, <2>2 DEF Begins
<1> QED
  BY <1>1, <1>2, BecomesUsable

LEMMA ReachStep ==
  ASSUME IInv, WInv, NEW all, RolesInOrder(all), Tables(all), Indexed(all), Reach, Next
  PROVE  Reach'
<1>0. TypeOK /\ Ready /\ Reading /\ \A q \in Runs : ~spoilt[q] => Begins(roles[q], all)
  BY DEF IInv, WInv, Tables
<1> SUFFICES ASSUME NEW q \in Runs, Reads(q)', pos'[q] > 2
             PROVE  NRoles(file'.cells) <= Len(roles'[q])
  BY DEF Reach, Reads, NRoles
<1>1. CASE Edit
  <2>1. /\ file' = [file EXCEPT !.older = TRUE] /\ UNCHANGED run
    BY <1>1 DEF Edit
  <2>2. file'.cells = file.cells
    BY ONLY <1>0, <2>1, FileType
  <2> QED
    BY <2>1, <2>2 DEF Reach, Reads, run
<1>2. ASSUME NEW p \in Runs, RunStep(p), q # p
      PROVE  NRoles(file'.cells) <= Len(roles'[q])
  <2>1. Keeps(q)
    BY <1>0, <1>2, Others
  <2>2. Reads(q)
    BY <1>0, <1>2, <2>1, SpoiltKept DEF Reads, Keeps
  <2>3. Writers = {}
    BY <1>0, <2>2, ReadingIs DEF WholeFor
  <2>4. file' = file
    <3>1. CASE Create(p)
      <4>1. \/ file' = file
            \/ spoilt' = [r \in Runs |-> spoilt[r] \/ pc[r] = "read"]
        BY <1>0, <3>1, CreateIs
      <4> QED
        BY <2>2, <4>1 DEF Reads
    <3> QED
      BY <1>2, <2>3, <3>1, WritersQuiet
  <2> QED
    BY <2>1, <2>2, <2>4 DEF Reach, Reads, Keeps
<1>3. ASSUME Open(q)
      PROVE  NRoles(file'.cells) <= Len(roles'[q])
  <2>1. pos'[q] = 2
    BY <1>0, <1>3 DEF Open, Goto, TypeOK, Reads
  <2> QED
    BY <2>1
<1>4. ASSUME ReadChunk(q)
      PROVE  NRoles(file'.cells) <= Len(roles'[q])
  <2> DEFINE c == file.cells
             nr == NRoles(c)
  <2>1. ~spoilt[q] /\ pc[q] = "read"
    BY <1>0, <1>4, SpoiltKept DEF Reads, RunStep, ReadChunk, Open
  <2>2. /\ WholeFor(q) /\ file' = file
        /\ \/ /\ pos[q] = 2
              /\ \E names : /\ Len(names) = nr /\ \A i \in 1 .. nr : names[i] = c[i + 2].name
                            /\ roles' = [roles EXCEPT ![q] = AddRoles(roles[q], names)]
           \/ pos[q] = nr + 3 /\ roles' = roles
           \/ pos[q] = nr + 4 /\ roles' = roles
    BY <1>0, <1>4, <2>1, ReadsOn DEF Reads
  <2>3. nr \in Nat /\ Begins(Table(c), all) /\ Len(Table(c)) = nr /\ \A i \in 1 .. nr : Table(c)[i] = c[i + 2].name
    BY <1>0, <2>2, ReadTable
  <2>4. ASSUME NEW names, Len(names) = nr, \A i \in 1 .. nr : names[i] = c[i + 2].name,
               roles' = [roles EXCEPT ![q] = AddRoles(roles[q], names)]
        PROVE  nr <= Len(roles'[q])
    <3>1. Begins(names, all) /\ Len(names) \in Nat
      BY ONLY <2>3, <2>4 DEF Begins
    <3> QED
      BY <1>0, <2>1, <2>4, <3>1, TableGrows
  <2>5. CASE roles' = roles /\ pos[q] \in {nr + 3, nr + 4}
    <3>1. pos[q] > 2
      BY ONLY <2>3, <2>5
    <3> QED
      BY <2>1, <2>2, <2>5, <3>1 DEF Reach
  <2> QED
    BY <2>2, <2>4, <2>5
<1>5. ASSUME RunStep(q)
      PROVE  NRoles(file'.cells) <= Len(roles'[q])
  BY <1>0, <1>3, <1>4, <1>5, ComesFrom DEF Reads
<1> QED
  BY <1>1, <1>2, <1>5, NextIs

\* Who gets to the end of a whole index has what it holds.
LEMMA LoadedStep ==
  ASSUME IInv, WInv, NothingMade, NEW all, RolesInOrder(all), LInv(all), Next
  PROVE  LoadedExact'
<1> DEFINE Has(q) == /\ IsData(tree[q], ver[q], roles[q])
                     /\ DOMAIN tree[q] = DOMAIN Data[ver[q]] \cup Made[q]
<1>0. /\ TypeOK /\ Ready /\ Reading /\ Tables(all) /\ Indexed(all) /\ Reach
      /\ \A q \in Runs \ Unmapped : pc[q] = "loaded" /\ ~spoilt[q] => Has(q)
  BY DEF IInv, WInv, LInv, LoadedExact
<1> SUFFICES ASSUME NEW q \in Runs \ Unmapped, pc'[q] = "loaded", ~spoilt'[q]
             PROVE  Has(q)'
  BY DEF LoadedExact
<1>1. CASE Edit
  BY <1>0, <1>1 DEF Edit, run
<1>2. ASSUME NEW p \in Runs, RunStep(p), q # p
      PROVE  Has(q)'
  BY <1>0, <1>2, Others, SpoiltKept DEF Keeps
<1>3. ASSUME ReadEnd(q)
      PROVE  Has(q)'
  <2> DEFINE c == file.cells
             nr == NRoles(c)
             t == Table(c)
             v == ver[q]
  <2>1. pc[q] = "read" /\ Left(q) <= 1 /\ ~spoilt[q] /\ UNCHANGED <<ver, roles, tree>>
    BY <1>3 DEF ReadEnd
  <2>2. WholeFor(q)
    BY <1>0, <2>1, ReadingIs DEF Reads
  <2>3. /\ nr \in Nat /\ Len(t) = nr /\ Begins(t, all)
    BY <1>0, <2>2, ReadTable
  <2>4. /\ Whole(c, v) /\ size[q] = Len(c)
        /\ \/ pos[q] \in {2, nr + 3, nr + 4} /\ DOMAIN tree[q] = {}
           \/ pos[q] = Len(c) + 1 /\ Got(q)
    BY <2>2 DEF WholeFor
  <2>5. /\ Len(c) \in Nat /\ Len(c) >= nr + 4
        /\ \A id \in DOMAIN Data[v] : \E i \in nr + 5 .. Len(c) : c[i].id = id
    <3>1. nr \in 0 .. Len(c) - 4 /\ \A id \in DOMAIN Data[v] : \E i \in nr + 5 .. Len(c) : c[i].id = id
      BY <2>4 DEF Whole
    <3>2. Len(c) \in Nat
      BY <1>0, FileType
    <3> HIDE DEF c, nr
    <3>3. Len(c) >= nr + 4
      BY ONLY <3>1, <3>2
    <3> QED
      BY ONLY <3>1, <3>2, <3>3
  <2>6. pos[q] >= Len(c)
    <3>1. size[q] - pos[q] + 1 <= 1 /\ pos[q] \in Nat
      BY <1>0, <2>1 DEF Left, TypeOK
    <3> HIDE DEF c
    <3> QED
      BY ONLY <2>4, <2>5, <3>1
  <2>7. pos[q] > 2
    <3>1. nr \in Nat /\ Len(c) \in Nat /\ Len(c) >= nr + 4 /\ pos[q] >= Len(c) /\ pos[q] \in Nat
      BY <1>0, <2>3, <2>5, <2>6 DEF TypeOK
    <3> HIDE DEF c, nr
    <3> QED
      BY ONLY <3>1
  <2>8. DOMAIN tree[q] = DOMAIN Data[v] /\ \A id \in DOMAIN Data[v] : Meant(tree[q][id], v, t, id) /\ tree[q][id].role \in 0 .. nr
    <3>1. CASE pos[q] = Len(c) + 1 /\ Got(q)
      BY <3>1 DEF Got
    <3>2. CASE pos[q] \in {2, nr + 3, nr + 4} /\ DOMAIN tree[q] = {}
      <4> HIDE DEF c, nr
      <4>1. Len(c) = nr + 4
        BY ONLY <2>3, <2>5, <2>6, <3>2
      <4>2. DOMAIN Data[v] = {}
        BY ONLY <2>3, <2>5, <4>1
      <4> QED
        BY ONLY <3>2, <4>2
    <3> QED
      BY ONLY <2>4, <3>1, <3>2
  <2>9. /\ nr <= Len(roles[q]) /\ Begins(roles[q], all) /\ Len(roles[q]) \in Nat
        /\ all \in Seq(Names \ {NoRole}) /\ NoRole \notin Names \ {NoRole}
    BY <1>0, <2>1, <2>7 DEF Reach, Tables, TypeOK, RolesInOrder
  <2>10. \A r \in 0 .. nr : RoleStr(roles[q], r) = RoleStr(t, r)
    <3> HIDE DEF t, nr
    <3> QED
      BY ONLY <2>3, <2>9, RoleLonger
  <2>11. \A id \in DOMAIN Data[v] : Meant(tree[q][id], v, roles[q], id)
    BY ONLY <2>8, <2>10 DEF Meant
  <2>12. Made[q] = {}
    BY DEF NothingMade
  <2>13. Has(q)
    BY ONLY <2>8, <2>11, <2>12 DEF IsData
  <2> QED
    BY ONLY <2>1, <2>13
<1> QED
  BY <1>0, <1>1, <1>2, <1>3, NextIs, ComesFrom

LEMMA LInvInit ==
  ASSUME Init, NEW all, RolesInOrder(all)
  PROVE  LInv(all)
<1>1. /\ pc = [p \in Runs |-> "start"] /\ roles = [p \in Runs |-> <<>>] /\ file.exists = FALSE
  BY DEF Init
<1>2. Begins(<<>>, all)
  BY DEF Begins, RolesInOrder
<1>3. Tables(all) /\ Reach /\ LoadedExact
  BY ONLY <1>1, <1>2 DEF Tables, Reach, LoadedExact
<1>4. Indexed(all)
  BY <1>1 DEF Indexed, Usable
<1> QED
  BY <1>3, <1>4 DEF LInv

LEMMA LInvStep ==
  ASSUME IInv, WInv, NothingMade, NEW all, RolesInOrder(all), LInv(all), [Next]_vars
  PROVE  LInv(all)'
<1>1. CASE Next
  <2>1. Tables(all) /\ Indexed(all) /\ Reach
    BY DEF LInv
  <2>2. Tables(all)'
    BY <1>1, <2>1, TablesStep
  <2>3. Indexed(all)'
    BY <1>1, <2>1, IndexedStep
  <2>4. Reach'
    BY <1>1, <2>1, ReachStep
  <2>5. LoadedExact'
    BY <1>1, LoadedStep
  <2> QED
    BY ONLY <2>2, <2>3, <2>4, <2>5 DEF LInv
<1>2. CASE UNCHANGED vars
  <2>1. UNCHANGED <<data, file, fails, pc, ver, roles, tree, pos, size, cnt, spoilt>>
    BY <1>2 DEF vars, run
  <2> QED
    BY ONLY <2>1, LInv(all) DEF LInv, Tables, Indexed, Reach, LoadedExact, Usable, Begins, Table, NRoles
<1> QED
  BY <1>1, <1>2

\* LoadedExact: a run that index_read() succeeds in has what parsing gives,
\* though the members of relations are stored by the numbers of their roles,
\* if the roles of all rules and of the data come first in one order (all).
THEOREM LoadedExactHolds ==
  ASSUME NothingMade, NEW all, RolesInOrder(all)
  PROVE  Spec => []LoadedExact
<1>1. Init => LInv(all)
  BY LInvInit
<1>2. IInv /\ WInv /\ LInv(all) /\ [Next]_vars => LInv(all)'
  BY LInvStep
<1>3. LInv(all) => LoadedExact
  BY DEF LInv
<1>4. Spec => [](IInv /\ WInv)
  BY WInvariant
<1> HIDE DEF LInv
<1> QED
  BY <1>1, <1>2, <1>3, <1>4, PTL DEF Spec
=============================================================================
