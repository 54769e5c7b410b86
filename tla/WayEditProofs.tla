--------------------------- MODULE WayEditProofs ---------------------------
(***************************************************************************)
(* The index of reverse pointers and the direction of ways, for any data,  *)
(* any distances and any number of calls.                                  *)
(***************************************************************************)
EXTENDS WayEdit, FiniteSetTheorems, FunctionTheorems, SequenceTheorems, WellFoundedInduction, TLAPS

(***************************************************************************)
(* Facts about natural numbers                                             *)
(***************************************************************************)
\* A set of numbers that is not empty has a least one.
LEMMA LeastNatural ==
  ASSUME NEW T \in SUBSET Nat, T # {}
  PROVE  \E x \in T : \A y \in T : x <= y
<1> DEFINE R == OpToRel(<, Nat)
<1>1. R = {ss \in Nat \X Nat : ss[1] < ss[2]}
  BY DEF OpToRel
<1>2. IsWellFoundedOn(R, Nat)
  BY NatLessThanWellFounded
<1> HIDE DEF R
<1>3. PICK x \in T : \A y \in T : ~(<<y, x>> \in R)
  BY <1>2, WFMin
<1>4. \A y \in T : x <= y
  <2> SUFFICES ASSUME NEW y \in T, y < x
               PROVE  FALSE
    OBVIOUS
  <2>1. <<y, x>> \in R
    BY <1>1
  <2> QED
    BY <2>1, <1>3
<1> QED
  BY <1>4

\* Induction up to a bound: the library states it for an operator, which no prover
\* here can instantiate; a set takes its place.
LEMMA InductionTo ==
  ASSUME NEW m \in Nat, NEW S, 0 \in S, \A n \in 1..m : n - 1 \in S => n \in S
  PROVE  0..m \subseteq S
<1> DEFINE T == 0..m \ S
<1> SUFFICES ASSUME T # {}
             PROVE  FALSE
  OBVIOUS
<1>1. T \in SUBSET Nat
  OBVIOUS
<1> HIDE DEF T
<1>2. PICK x \in T : \A y \in T : x <= y
  BY <1>1, LeastNatural
<1>3. x \in 1..m /\ x - 1 \in 0..m /\ ~(x <= x - 1) /\ x \notin S
  BY DEF T
<1>4. x - 1 \in S
  BY <1>2, <1>3 DEF T
<1> QED
  BY <1>3, <1>4

\* A function that is defined by recursion up to m exists: G gives the next value.
Recursive(f, S, m, b, G) ==
  f \in [0..m -> S] /\ f[0] = b /\ \A i \in 1..m : f[i] = G[<<i, f[i - 1]>>]
LEMMA Recursion ==
  ASSUME NEW S, NEW m \in Nat, NEW b \in S, NEW G \in [(1..m) \X S -> S]
  PROVE  \E f : Recursive(f, S, m, b, G)
<1> DEFINE Is(f, n) == f \in [0..n -> S] /\ f[0] = b /\ \A i \in 1..n : f[i] = G[<<i, f[i - 1]>>]
           N == {n \in 0..m : \E f : Is(f, n)}
<1>1. 0 \in N
  <2> DEFINE f == [i \in 0..0 |-> b]
  <2>1. f \in [0..0 -> S] /\ f[0] = b /\ \A i \in 1..0 : f[i] = G[<<i, f[i - 1]>>]
    OBVIOUS
  <2> HIDE DEF f
  <2>2. Is(f, 0)
    BY <2>1
  <2> QED
    BY <2>2
<1>2. ASSUME NEW n \in 1..m, n - 1 \in N
      PROVE  n \in N
  <2>1. PICK f : Is(f, n - 1)
    BY <1>2
  <2> DEFINE g == [i \in 0..n |-> IF i = n THEN G[<<n, f[n - 1]>>] ELSE f[i]]
  <2>2. f[n - 1] \in S /\ G[<<n, f[n - 1]>>] \in S
    <3>1. f[n - 1] \in S
      BY <2>1
    <3>2. <<n, f[n - 1]>> \in (1..m) \X S
      BY <3>1
    <3> QED
      BY <3>1, <3>2
  <2>3. \A i \in 0..n : g[i] = (IF i = n THEN G[<<n, f[n - 1]>>] ELSE f[i]) /\ (i # n => i \in 0..(n - 1))
    OBVIOUS
  <2>4. g \in [0..n -> S]
    <3>1. \A i \in 0..n : g[i] \in S
      BY <2>1, <2>2, <2>3
    <3>2. g = [i \in 0..n |-> g[i]]
      OBVIOUS
    <3> HIDE DEF g
    <3> QED
      BY <3>1, <3>2
  <2> HIDE DEF g
  <2>5. g[0] = b
    BY <2>1, <2>3
  <2>6. ASSUME NEW i \in 1..n
        PROVE  g[i] = G[<<i, g[i - 1]>>]
    <3>1. g[i - 1] = f[i - 1]
      BY <2>3
    <3>2. CASE i = n
      BY <2>3, <3>1, <3>2
    <3>3. CASE i # n
      <4>1. i \in 1..(n - 1)
        BY <3>3
      <4>2. g[i] = f[i]
        BY <2>3, <3>3
      <4> QED
        BY <2>1, <3>1, <4>1, <4>2
    <3> QED
      BY <3>2, <3>3
  <2>7. Is(g, n)
    BY <2>4, <2>5, <2>6
  <2> QED
    BY <2>7
<1>3. m \in N
  <2> HIDE DEF N
  <2>1. 0..m \subseteq N
    BY <1>1, <1>2, InductionTo
  <2> QED
    BY <2>1
<1> QED
  BY <1>3 DEF Recursive

\* InOrder() enumerates a finite set of numbers in ascending order.
Enumerates(seq, n, H) ==
  /\ n \in Nat /\ seq \in [1..n -> H]
  /\ \A o \in H : \E i \in 1..n : seq[i] = o
  /\ \A i, j \in 1..n : i < j => seq[i] < seq[j]

LEMMA InOrderIs ==
  ASSUME NEW H, IsFiniteSet(H), H \subseteq Int
  PROVE  Enumerates(InOrder(H), Cardinality(H), H)
<1> DEFINE n == Cardinality(H)
           Upto(o) == {x \in H : x <= o}
           rank == [o \in H |-> Cardinality(Upto(o))]
           seq == InOrder(H)
<1>1. n \in Nat
  BY FS_CardinalityType
<1>2. \A o \in H : IsFiniteSet(Upto(o)) /\ Cardinality(Upto(o)) \in 1..n
  <2> SUFFICES ASSUME NEW o \in H
               PROVE  IsFiniteSet(Upto(o)) /\ Cardinality(Upto(o)) \in 1..n
    OBVIOUS
  <2>1. Upto(o) \in SUBSET H /\ o \in Upto(o)
    OBVIOUS
  <2> HIDE DEF Upto
  <2>2. IsFiniteSet(Upto(o)) /\ Cardinality(Upto(o)) <= n
    BY <2>1, FS_Subset
  <2>3. Cardinality(Upto(o)) \in Nat /\ Cardinality(Upto(o)) # 0
    BY <2>1, <2>2, FS_CardinalityType, FS_EmptySet
  <2> QED
    BY <1>1, <2>2, <2>3
<1>3. ASSUME NEW o \in H, NEW p \in H, o < p
      PROVE  rank[o] < rank[p]
  <2>1. Upto(o) \in SUBSET Upto(p) /\ p \in Upto(p) /\ p \notin Upto(o)
    <3>1. o \in Int /\ p \in Int /\ \A x \in H : x \in Int
      OBVIOUS
    <3>2. \A x \in H : x <= o => x <= p
      BY <1>3, <3>1
    <3>3. p <= p /\ ~(p <= o)
      BY <1>3, <3>1
    <3> QED
      BY <3>2, <3>3
  <2> HIDE DEF Upto
  <2>2. Cardinality(Upto(o)) <= Cardinality(Upto(p)) /\ Cardinality(Upto(o)) # Cardinality(Upto(p))
    BY <1>2, <2>1, FS_Subset
  <2>3. Cardinality(Upto(o)) \in Int /\ Cardinality(Upto(p)) \in Int
    BY <1>1, <1>2
  <2> QED
    BY <2>2, <2>3
<1>4. rank \in [H -> 1..n]
  BY <1>2
<1>5. seq = [i \in 1..n |-> CHOOSE o \in H : Cardinality(Upto(o)) = i]
  BY DEF InOrder
<1> HIDE DEF Upto
<1>12. \A o \in H : rank[o] = Cardinality(Upto(o))
  OBVIOUS
<1> HIDE DEF n
<1> HIDE DEF rank, seq
<1>6. \A o, p \in H : rank[o] = rank[p] => o = p
  <2> SUFFICES ASSUME NEW o \in H, NEW p \in H, rank[o] = rank[p]
               PROVE  o = p
    OBVIOUS
  <2>1. o \in Int /\ p \in Int /\ rank[o] \in Int
    BY <1>1, <1>4
  <2> QED
    BY <1>3, <2>1
<1>7. rank \in Surjection(H, 1..n)
  <2>1. rank \in Injection(H, 1..n)
    BY <1>4, <1>6, Fun_IsInj
  <2>2. IsFiniteSet(1..n) /\ Cardinality(1..n) = n
    BY <1>1, FS_Interval
  <2> QED
    BY <2>1, <2>2, FS_Injection DEF n
<1>8. \A i \in 1..n : seq[i] \in H /\ rank[seq[i]] = i
  <2> SUFFICES ASSUME NEW i \in 1..n
               PROVE  seq[i] \in H /\ rank[seq[i]] = i
    OBVIOUS
  <2>1. \E o \in H : rank[o] = i
    <3>1. \A t \in 1..n : \E s \in H : rank[s] = t
      BY ONLY <1>7, Fun_SurjectionProperties
    <3> QED
      BY <3>1
  <2>2. seq[i] = CHOOSE o \in H : Cardinality(Upto(o)) = i
    BY <1>5
  <2>3. seq[i] \in H /\ Cardinality(Upto(seq[i])) = i
    BY <1>12, <2>1, <2>2
  <2> QED
    BY <1>12, <2>3
<1>9. seq \in [1..n -> H]
  BY <1>5, <1>8
<1>10. \A o \in H : \E i \in 1..n : seq[i] = o
  <2> SUFFICES ASSUME NEW o \in H
               PROVE  \E i \in 1..n : seq[i] = o
    OBVIOUS
  <2>1. rank[o] \in 1..n /\ seq[rank[o]] = o
    BY <1>4, <1>6, <1>8
  <2> QED
    BY <2>1
<1>11. \A i, j \in 1..n : i < j => seq[i] < seq[j]
  <2> SUFFICES ASSUME NEW i \in 1..n, NEW j \in 1..n, i < j
               PROVE  seq[i] < seq[j]
    OBVIOUS
  <2>1. seq[i] \in Int /\ seq[j] \in Int /\ rank[seq[i]] = i /\ rank[seq[j]] = j
    BY <1>8
  <2>2. ~(seq[j] < seq[i]) /\ seq[i] # seq[j]
    BY <1>3, <1>8, <2>1
  <2> QED
    BY <2>1, <2>2
<1> QED
  BY <1>1, <1>9, <1>10, <1>11 DEF Enumerates, seq, n


(***************************************************************************)
(* The data                                                                *)
(***************************************************************************)
\* The functions from a part of A to B.
Fns(A, B) == UNION {[D -> B] : D \in SUBSET A}

LEMMA FnsIs ==
  ASSUME NEW A, NEW B, NEW f
  PROVE  f \in Fns(A, B) <=>
           /\ f = [x \in DOMAIN f |-> f[x]] /\ DOMAIN f \subseteq A
           /\ \A x \in DOMAIN f : f[x] \in B
<1>1. ASSUME f \in Fns(A, B)
      PROVE  f = [x \in DOMAIN f |-> f[x]] /\ DOMAIN f \subseteq A /\ \A x \in DOMAIN f : f[x] \in B
  <2>1. PICK D \in SUBSET A : f \in [D -> B]
    BY <1>1 DEF Fns
  <2> QED
    BY <2>1
<1>2. ASSUME f = [x \in DOMAIN f |-> f[x]], DOMAIN f \subseteq A, \A x \in DOMAIN f : f[x] \in B
      PROVE  f \in Fns(A, B)
  <2>1. f \in [DOMAIN f -> B]
    BY <1>2
  <2> QED
    BY <1>2, <2>1 DEF Fns
<1> QED
  BY <1>1, <1>2

Pos == Int \X Int
Ids == Seq(Int)
Data == [pos : Fns(Int, Pos), ref : Fns(Int, Ids), idx : Fns(Int, Ids), mark : SUBSET Int,
         unid : Int, uwid : Int, raw : SUBSET Int, emerg : BOOLEAN, n : Int, fault : BOOLEAN]

\* Ids of new objects were never used: they are below all ids of nodes, of ways
\* and of the nodes of ways.
Fresh(S) ==
  /\ S.unid < 0 /\ S.uwid < 0
  /\ \A n \in DOMAIN S.pos : n > S.unid
  /\ \A w \in DOMAIN S.ref : w > S.uwid /\ w < 100 /\ \A n \in Range(S.ref[w]) : n > S.unid
Parents(S, n) == Range(ListOf(S.idx, n))
\* The ways in W have their nodes' lists complete.
Complete(S, W) == \A w \in W : \A n \in Range(S.ref[w]) \cap DOMAIN S.pos : w \in Parents(S, n)

Sound(S) ==
  /\ S \in Data /\ IsFiniteSet(DOMAIN S.ref) /\ S.mark \subseteq DOMAIN S.pos
  /\ Fresh(S) /\ Complete(S, DOMAIN S.ref \ S.raw)
SoundData == {S \in Data : Sound(S)}

LEMMA DataIs ==
  ASSUME NEW S
  PROVE  S \in Data <=>
    /\ S = [pos |-> S.pos, ref |-> S.ref, idx |-> S.idx, mark |-> S.mark, unid |-> S.unid, uwid |-> S.uwid,
            raw |-> S.raw, emerg |-> S.emerg, n |-> S.n, fault |-> S.fault]
    /\ S.pos \in Fns(Int, Pos) /\ S.ref \in Fns(Int, Ids) /\ S.idx \in Fns(Int, Ids)
    /\ S.mark \subseteq Int /\ S.unid \in Int /\ S.uwid \in Int /\ S.raw \subseteq Int
    /\ S.emerg \in BOOLEAN /\ S.n \in Int /\ S.fault \in BOOLEAN
BY DEF Data

\* g is f with one more value.
IsPut(f, g, k, v) ==
  /\ g \in Fns(Int, Ids) /\ DOMAIN g = DOMAIN f \cup {k}
  /\ g[k] = v /\ \A x \in DOMAIN f : x # k => g[x] = f[x]
LEMMA PutIs ==
  ASSUME NEW f \in Fns(Int, Ids), NEW k \in Int, NEW v \in Ids, NEW g, g = Put(f, k, v)
  PROVE  IsPut(f, g, k, v)
<1>1. DOMAIN f \subseteq Int /\ \A x \in DOMAIN f : f[x] \in Ids
  BY FnsIs
<1>2. g = [x \in DOMAIN f \cup {k} |-> IF x = k THEN v ELSE f[x]]
  BY DEF Put
<1>3. g \in Fns(Int, Ids)
  BY <1>1, <1>2, FnsIs
<1> QED
  BY <1>2, <1>3 DEF IsPut

\* A function with a value replaced.
LEMMA ExceptIs ==
  ASSUME NEW A, NEW B, NEW f \in Fns(A, B), NEW k \in DOMAIN f, NEW v \in B
  PROVE  /\ [f EXCEPT ![k] = v] \in Fns(A, B) /\ DOMAIN [f EXCEPT ![k] = v] = DOMAIN f
         /\ [f EXCEPT ![k] = v][k] = v /\ \A x \in DOMAIN f : x # k => [f EXCEPT ![k] = v][x] = f[x]
<1>1. DOMAIN f \subseteq A /\ \A x \in DOMAIN f : f[x] \in B
  BY FnsIs
<1> DEFINE g == [f EXCEPT ![k] = v]
<1>2. DOMAIN g = DOMAIN f /\ g = [x \in DOMAIN f |-> IF x = k THEN v ELSE f[x]]
  OBVIOUS
<1> HIDE DEF g
<1>3. g \in Fns(A, B)
  BY <1>1, <1>2, FnsIs
<1> QED
  BY <1>2, <1>3 DEF g

\* The elements of sequences.
LEMMA RangeIs ==
  ASSUME NEW s
  PROVE  /\ \A i \in DOMAIN s : s[i] \in Range(s)
         /\ \A x \in Range(s) : \E i \in DOMAIN s : x = s[i]
BY DEF Range

LEMMA AppendIs ==
  ASSUME NEW T, NEW s \in Seq(T), NEW x \in T
  PROVE  Append(s, x) \in Seq(T) /\ Range(Append(s, x)) = Range(s) \cup {x}
<1>1. /\ Append(s, x) \in Seq(T) /\ DOMAIN s = 1..Len(s) /\ Len(s) \in Nat
      /\ DOMAIN Append(s, x) = 1..(Len(s) + 1) /\ Append(s, x)[Len(s) + 1] = x
      /\ \A i \in 1..Len(s) : Append(s, x)[i] = s[i]
  OBVIOUS
<1>2. ASSUME NEW y \in Range(Append(s, x))
      PROVE  y \in Range(s) \cup {x}
  BY <1>1, <1>2 DEF Range
<1>3. ASSUME NEW y \in Range(s)
      PROVE  y \in Range(Append(s, x))
  <2>1. PICK i \in DOMAIN s : y = s[i]
    BY RangeIs
  <2>2. i \in DOMAIN Append(s, x) /\ Append(s, x)[i] = y
    BY <1>1, <2>1
  <2> QED
    BY <2>2, RangeIs
<1>4. x \in Range(Append(s, x))
  <2>1. Len(s) + 1 \in DOMAIN Append(s, x)
    BY <1>1
  <2> QED
    BY <1>1, <2>1, RangeIs
<1> QED
  BY <1>1, <1>2, <1>3, <1>4

LEMMA ConcatIs ==
  ASSUME NEW T, NEW s \in Seq(T), NEW t \in Seq(T)
  PROVE  s \o t \in Seq(T) /\ Range(s \o t) = Range(s) \cup Range(t)
<1>1. /\ s \o t \in Seq(T) /\ Len(s) \in Nat /\ Len(t) \in Nat
      /\ DOMAIN s = 1..Len(s) /\ DOMAIN t = 1..Len(t) /\ DOMAIN (s \o t) = 1..(Len(s) + Len(t))
      /\ \A i \in 1..(Len(s) + Len(t)) : (s \o t)[i] = IF i <= Len(s) THEN s[i] ELSE t[i - Len(s)]
  OBVIOUS
<1>2. ASSUME NEW y \in Range(s \o t)
      PROVE  y \in Range(s) \cup Range(t)
  <2>1. PICK i \in 1..(Len(s) + Len(t)) : y = (s \o t)[i]
    BY <1>1, RangeIs
  <2>2. CASE i <= Len(s)
    BY <1>1, <2>1, <2>2, RangeIs
  <2>3. CASE ~(i <= Len(s))
    <3>1. i - Len(s) \in DOMAIN t /\ y = t[i - Len(s)]
      BY <1>1, <2>1, <2>3
    <3> QED
      BY <3>1, RangeIs
  <2> QED
    BY <2>2, <2>3
<1>3. ASSUME NEW y \in Range(s)
      PROVE  y \in Range(s \o t)
  <2>1. PICK i \in DOMAIN s : y = s[i]
    BY RangeIs
  <2>2. i \in DOMAIN (s \o t) /\ (s \o t)[i] = y
    BY <1>1, <2>1
  <2> QED
    BY <2>2, RangeIs
<1>4. ASSUME NEW y \in Range(t)
      PROVE  y \in Range(s \o t)
  <2>1. PICK i \in DOMAIN t : y = t[i]
    BY RangeIs
  <2>2. Len(s) + i \in DOMAIN (s \o t) /\ (s \o t)[Len(s) + i] = y
    <3>1. Len(s) + i \in 1..(Len(s) + Len(t)) /\ ~(Len(s) + i <= Len(s)) /\ (Len(s) + i) - Len(s) = i
      BY <1>1
    <3> QED
      BY <1>1, <2>1, <3>1
  <2> QED
    BY <2>2, RangeIs
<1> QED
  BY <1>1, <1>2, <1>3, <1>4

LEMMA SubSeqIs ==
  ASSUME NEW T, NEW s \in Seq(T), NEW i \in Int, NEW j \in Int, i >= 1, j <= Len(s)
  PROVE  SubSeq(s, i, j) \in Seq(T) /\ Range(SubSeq(s, i, j)) \subseteq Range(s)
<1>1. CASE i > j
  <2>1. SubSeq(s, i, j) = <<>>
    BY <1>1, SubSeqEmpty
  <2> QED
    BY <2>1 DEF Range
<1>2. CASE i <= j
  <2>1. /\ SubSeq(s, i, j) \in Seq(T) /\ DOMAIN SubSeq(s, i, j) = 1..(j - i + 1)
        /\ \A k \in 1..(j - i + 1) : SubSeq(s, i, j)[k] = s[i + k - 1]
    BY <1>2, SubSeqProperties
  <2>2. ASSUME NEW y \in Range(SubSeq(s, i, j))
        PROVE  y \in Range(s)
    <3>1. PICK k \in 1..(j - i + 1) : y = SubSeq(s, i, j)[k]
      BY <2>1, RangeIs
    <3>2. i + k - 1 \in DOMAIN s /\ y = s[i + k - 1]
      BY <1>2, <2>1, <3>1
    <3> QED
      BY <3>2, RangeIs
  <2> QED
    BY <2>1, <2>2
<1> QED
  BY <1>1, <1>2

\* The fields of a changed record.
Placed(S, T, ps) == \A i \in DOMAIN ps : T.pos[S.unid + 1 - i] = ps[i]
LEMMA PutNodesIs ==
  ASSUME NEW S \in Data, Fresh(S), NEW ps \in Seq(Pos), NEW T, T = PutNodes(S, ps)
  PROVE  /\ T \in Data /\ Fresh(T) /\ T.unid = S.unid - Len(ps)
         /\ DOMAIN T.pos = DOMAIN S.pos \cup (T.unid + 1)..S.unid
         /\ \A n \in DOMAIN S.pos : T.pos[n] = S.pos[n]
         /\ Placed(S, T, ps)
         /\ T.ref = S.ref /\ T.idx = S.idx /\ T.mark = S.mark /\ T.uwid = S.uwid /\ T.raw = S.raw
         /\ T.emerg = S.emerg /\ T.n = S.n /\ T.fault = S.fault
<1> DEFINE new == {S.unid + 1 - i : i \in DOMAIN ps}
           pos == [n \in DOMAIN S.pos \cup new |-> IF n > S.unid THEN S.pos[n] ELSE ps[S.unid + 1 - n]]
<1>1. T = [S EXCEPT !.pos = pos, !.unid = @ - Len(ps)]
  BY DEF PutNodes
<1>2. /\ S.unid \in Int /\ S.uwid \in Int /\ Len(ps) \in Nat /\ DOMAIN ps = 1..Len(ps)
      /\ \A i \in DOMAIN ps : ps[i] \in Pos
      /\ S.pos \in Fns(Int, Pos) /\ S.ref \in Fns(Int, Ids)
  BY DEF Data
<1>3. DOMAIN S.pos \subseteq Int /\ \A n \in DOMAIN S.pos : S.pos[n] \in Pos /\ n > S.unid
  BY <1>2, FnsIs DEF Fresh
<1>4. new = (S.unid - Len(ps) + 1)..S.unid
  <2>1. ASSUME NEW x \in new
        PROVE  x \in (S.unid - Len(ps) + 1)..S.unid
    BY <1>2
  <2>2. ASSUME NEW x \in (S.unid - Len(ps) + 1)..S.unid
        PROVE  x \in new
    <3>1. S.unid + 1 - x \in DOMAIN ps /\ x = S.unid + 1 - (S.unid + 1 - x)
      BY <1>2
    <3> QED
      BY <3>1
  <2> QED
    BY <2>1, <2>2
<1> HIDE DEF new
<1>5. \A n \in DOMAIN pos : n \in Int /\ pos[n] \in Pos
  <2> SUFFICES ASSUME NEW n \in DOMAIN S.pos \cup new
               PROVE  n \in Int /\ pos[n] \in Pos
    OBVIOUS
  <2>1. CASE n > S.unid
    <3>1. n \in DOMAIN S.pos
      BY <1>2, <1>4, <2>1
    <3> QED
      BY <1>3, <2>1, <3>1
  <2>2. CASE ~(n > S.unid)
    <3>1. n \in new /\ n \in (S.unid - Len(ps) + 1)..S.unid
      BY <1>2, <1>3, <1>4, <2>2
    <3>2. S.unid + 1 - n \in 1..Len(ps)
      BY <1>2, <3>1
    <3>3. pos[n] = ps[S.unid + 1 - n] /\ n \in Int
      BY <2>2, <3>1
    <3> QED
      BY <1>2, <3>2, <3>3
  <2> QED
    BY <2>1, <2>2
<1>6. /\ DOMAIN pos = DOMAIN S.pos \cup new /\ pos = [n \in DOMAIN pos |-> pos[n]]
      /\ \A n \in DOMAIN S.pos : pos[n] = S.pos[n]
  BY <1>3
<1>12. ASSUME NEW i \in DOMAIN ps
       PROVE  pos[S.unid + 1 - i] = ps[i]
  <2>1. i \in Int /\ i >= 1 /\ S.unid + 1 - i \in (S.unid - Len(ps) + 1)..S.unid
    BY <1>2
  <2>2. ~(S.unid + 1 - i > S.unid) /\ S.unid + 1 - (S.unid + 1 - i) = i
    BY <1>2, <2>1
  <2> QED
    BY <1>4, <2>1, <2>2
<1> HIDE DEF pos
<1>7. pos \in Fns(Int, Pos)
  BY <1>5, <1>6, FnsIs
<1>8. /\ T.pos = pos /\ T.unid = S.unid - Len(ps) /\ T.ref = S.ref /\ T.idx = S.idx /\ T.mark = S.mark
      /\ T.uwid = S.uwid /\ T.raw = S.raw /\ T.emerg = S.emerg /\ T.n = S.n /\ T.fault = S.fault
  BY <1>1 DEF Data
<1>9. T \in Data
  <2>1. S.unid - Len(ps) \in Int
    BY <1>2
  <2> QED
    BY <1>1, <1>7, <2>1 DEF Data
<1>10. Fresh(T)
  <2>1. T.unid < 0 /\ T.unid <= S.unid /\ T.uwid < 0 /\ T.unid \in Int
    BY <1>2, <1>8 DEF Fresh
  <2>2. \A n \in DOMAIN T.pos : n > T.unid
    BY <1>2, <1>3, <1>4, <1>6, <1>8, <2>1
  <2>3. ASSUME NEW w \in DOMAIN T.ref
        PROVE  w > T.uwid /\ w < 100 /\ \A n \in Range(T.ref[w]) : n > T.unid
    <3>1. w > S.uwid /\ w < 100 /\ \A n \in Range(S.ref[w]) : n > S.unid
      BY <1>8, <2>3 DEF Fresh
    <3>2. \A n \in Range(S.ref[w]) : n \in Int
      <4>1. S.ref[w] \in Seq(Int)
        BY <1>2, <1>8, <2>3, FnsIs DEF Ids
      <4> QED
        BY <4>1 DEF Range
    <3> QED
      BY <1>2, <1>8, <2>1, <3>1, <3>2
  <2> QED
    BY <2>1, <2>2, <2>3 DEF Fresh
<1>11. (T.unid + 1)..S.unid = new
  BY <1>2, <1>4, <1>8
<1>13. Placed(S, T, ps)
  BY <1>8, <1>12 DEF Placed
<1> QED
  BY <1>6, <1>8, <1>9, <1>10, <1>11, <1>13

\* New nodes are in no way, so the index stays complete.
LEMMA PutNodesSound ==
  ASSUME NEW S, Sound(S), NEW ps \in Seq(Pos)
  PROVE  Sound(PutNodes(S, ps))
<1> DEFINE T == PutNodes(S, ps)
<1>0. S \in Data /\ Fresh(S) /\ S.unid \in Int
  BY DEF Sound, Data
<1>1. /\ T \in Data /\ Fresh(T) /\ DOMAIN T.pos = DOMAIN S.pos \cup (T.unid + 1)..S.unid
      /\ T.ref = S.ref /\ T.idx = S.idx /\ T.mark = S.mark /\ T.raw = S.raw
  BY <1>0, PutNodesIs
<1> HIDE DEF T
<1>2. Complete(T, DOMAIN T.ref \ T.raw)
  <2> SUFFICES ASSUME NEW w \in DOMAIN S.ref \ S.raw, NEW n \in Range(S.ref[w]), n \in DOMAIN T.pos
               PROVE  w \in Parents(S, n)
    BY <1>1 DEF Complete, Parents
  <2>1. n > S.unid
    BY <1>0 DEF Fresh
  <2>2. n \in DOMAIN S.pos
    BY <1>0, <1>1, <2>1
  <2> QED
    BY <2>2 DEF Sound, Complete
<1> QED
  BY <1>1, <1>2 DEF Sound, T

\* T is S with new ways.
WaysPut(S, T, ways) ==
  /\ T \in Data /\ Fresh(T) /\ T.uwid = S.uwid - Len(ways)
  /\ DOMAIN T.ref = DOMAIN S.ref \cup (T.uwid + 1)..S.uwid
  /\ \A w \in DOMAIN S.ref : T.ref[w] = S.ref[w]
  /\ \A w \in (T.uwid + 1)..S.uwid : T.ref[w] = ways[S.uwid + 1 - w] /\ w \notin DOMAIN S.ref
  /\ IsFiniteSet(DOMAIN S.ref) => IsFiniteSet(DOMAIN T.ref)
  /\ T.pos = S.pos /\ T.idx = S.idx /\ T.mark = S.mark /\ T.unid = S.unid /\ T.raw = S.raw
  /\ T.emerg = S.emerg /\ T.n = S.n /\ T.fault = S.fault
LEMMA PutWaysIs ==
  ASSUME NEW S \in Data, Fresh(S), NEW ways \in Seq(Ids), \A i \in DOMAIN ways : \A n \in Range(ways[i]) : n > S.unid,
         NEW T, T = PutWays(S, ways)
  PROVE  WaysPut(S, T, ways)
<1> DEFINE new == {S.uwid + 1 - i : i \in DOMAIN ways}
           ref == [w \in DOMAIN S.ref \cup new |-> IF w > S.uwid THEN S.ref[w] ELSE ways[S.uwid + 1 - w]]
<1>1. T = [S EXCEPT !.ref = ref, !.uwid = @ - Len(ways)]
  BY DEF PutWays
<1>2. /\ S.unid \in Int /\ S.uwid \in Int /\ Len(ways) \in Nat /\ DOMAIN ways = 1..Len(ways)
      /\ \A i \in DOMAIN ways : ways[i] \in Ids
      /\ S.ref \in Fns(Int, Ids)
  BY DEF Data
<1>3. DOMAIN S.ref \subseteq Int /\ \A w \in DOMAIN S.ref : S.ref[w] \in Ids /\ w > S.uwid
  BY <1>2, FnsIs DEF Fresh
<1>4. new = (S.uwid - Len(ways) + 1)..S.uwid
  <2>1. ASSUME NEW x \in new
        PROVE  x \in (S.uwid - Len(ways) + 1)..S.uwid
    BY <1>2
  <2>2. ASSUME NEW x \in (S.uwid - Len(ways) + 1)..S.uwid
        PROVE  x \in new
    <3>1. S.uwid + 1 - x \in DOMAIN ways /\ x = S.uwid + 1 - (S.uwid + 1 - x)
      BY <1>2
    <3> QED
      BY <3>1
  <2> QED
    BY <2>1, <2>2
<1> HIDE DEF new
<1>5. /\ DOMAIN ref = DOMAIN S.ref \cup new /\ ref = [w \in DOMAIN ref |-> ref[w]]
      /\ \A w \in DOMAIN S.ref : ref[w] = S.ref[w]
  BY <1>3
<1>6. \A w \in new : w \in Int /\ ~(w > S.uwid) /\ S.uwid + 1 - w \in DOMAIN ways /\ ref[w] = ways[S.uwid + 1 - w]
                     /\ w \notin DOMAIN S.ref
  <2> SUFFICES ASSUME NEW w \in new
               PROVE  w \in Int /\ ~(w > S.uwid) /\ S.uwid + 1 - w \in DOMAIN ways /\ ref[w] = ways[S.uwid + 1 - w]
                      /\ w \notin DOMAIN S.ref
    OBVIOUS
  <2>1. w \in (S.uwid - Len(ways) + 1)..S.uwid
    BY <1>4
  <2>2. w \in Int /\ ~(w > S.uwid) /\ S.uwid + 1 - w \in DOMAIN ways
    BY <1>2, <2>1
  <2> QED
    BY <1>3, <2>2
<1> HIDE DEF ref
<1>7. ref \in Fns(Int, Ids)
  <2>1. DOMAIN ref \subseteq Int
    BY <1>3, <1>5, <1>6
  <2>2. \A w \in DOMAIN ref : ref[w] \in Ids
    BY <1>2, <1>3, <1>5, <1>6
  <2> QED
    BY <1>5, <2>1, <2>2, FnsIs
<1>8. /\ T.ref = ref /\ T.uwid = S.uwid - Len(ways) /\ T.pos = S.pos /\ T.idx = S.idx /\ T.mark = S.mark
      /\ T.unid = S.unid /\ T.raw = S.raw /\ T.emerg = S.emerg /\ T.n = S.n /\ T.fault = S.fault
  BY <1>1 DEF Data
<1>9. T \in Data
  <2>1. S.uwid - Len(ways) \in Int
    BY <1>2
  <2> QED
    BY <1>1, <1>7, <2>1 DEF Data
<1>10. Fresh(T)
  <2>1. T.uwid < 0 /\ T.uwid <= S.uwid /\ T.unid < 0 /\ \A n \in DOMAIN T.pos : n > T.unid
    BY <1>2, <1>8 DEF Fresh
  <2>2. ASSUME NEW w \in DOMAIN T.ref
        PROVE  w > T.uwid /\ w < 100 /\ \A n \in Range(T.ref[w]) : n > T.unid
    <3>1. CASE w \in DOMAIN S.ref
      <4>1. w > S.uwid /\ w < 100 /\ \A n \in Range(S.ref[w]) : n > S.unid
        BY <3>1 DEF Fresh
      <4>2. w > T.uwid
        BY <1>2, <1>3, <1>8, <3>1, <4>1
      <4> QED
        BY <1>5, <1>8, <3>1, <4>1, <4>2
    <3>2. CASE w \in new
      <4>1. w \in (S.uwid - Len(ways) + 1)..S.uwid
        BY <1>4, <3>2
      <4>2. w > T.uwid /\ w < 100
        <5>1. S.uwid < 0
          BY DEF Fresh
        <5> QED
          BY <1>2, <1>8, <4>1, <5>1
      <4> QED
        BY <1>6, <1>8, <3>2, <4>2
    <3> QED
      BY <1>5, <1>8, <3>1, <3>2
  <2> QED
    BY <2>1, <2>2 DEF Fresh
<1>11. (T.uwid + 1)..S.uwid = new
  BY <1>2, <1>4, <1>8
<1>12. IsFiniteSet(DOMAIN S.ref) => IsFiniteSet(DOMAIN T.ref)
  <2> SUFFICES ASSUME IsFiniteSet(DOMAIN S.ref)
               PROVE  IsFiniteSet(DOMAIN S.ref \cup new)
    BY <1>5, <1>8
  <2>1. IsFiniteSet(new)
    <3>1. S.uwid - Len(ways) + 1 \in Int
      BY <1>2
    <3> QED
      BY <1>2, <1>4, <3>1, FS_Interval
  <2> QED
    BY <2>1, FS_Union
<1> QED
  BY <1>5, <1>6, <1>8, <1>9, <1>10, <1>11, <1>12 DEF WaysPut

\* T is S with one new way.
OneWayPut(S, T, s) ==
  /\ T \in Data /\ Fresh(T) /\ T.uwid = S.uwid - 1
  /\ DOMAIN T.ref = DOMAIN S.ref \cup {S.uwid} /\ S.uwid \notin DOMAIN S.ref
  /\ \A w \in DOMAIN S.ref : T.ref[w] = S.ref[w]
  /\ T.ref[S.uwid] = s /\ IsFiniteSet(DOMAIN T.ref)
  /\ T.pos = S.pos /\ T.idx = S.idx /\ T.mark = S.mark /\ T.unid = S.unid /\ T.raw = S.raw
LEMMA PutWayIs ==
  ASSUME NEW S \in Data, Fresh(S), IsFiniteSet(DOMAIN S.ref), NEW s \in Ids, \A n \in Range(s) : n > S.unid,
         NEW T, T = PutWays(S, <<s>>)
  PROVE  OneWayPut(S, T, s)
<1> DEFINE new == S.uwid
<1>0. new \in Int
  BY DEF Data
<1>1. <<s>> \in Seq(Ids) /\ Len(<<s>>) = 1 /\ \A k \in DOMAIN <<s>> : <<s>>[k] = s
  OBVIOUS
<1>2. \A k \in DOMAIN <<s>> : \A x \in Range(<<s>>[k]) : x > S.unid
  BY <1>1
<1>3. /\ T \in Data /\ Fresh(T) /\ T.uwid = new - Len(<<s>>)
      /\ DOMAIN T.ref = DOMAIN S.ref \cup (T.uwid + 1)..new
      /\ \A v \in DOMAIN S.ref : T.ref[v] = S.ref[v]
      /\ \A v \in (T.uwid + 1)..new : T.ref[v] = <<s>>[new + 1 - v] /\ v \notin DOMAIN S.ref
      /\ IsFiniteSet(DOMAIN S.ref) => IsFiniteSet(DOMAIN T.ref)
      /\ T.pos = S.pos /\ T.idx = S.idx /\ T.mark = S.mark /\ T.unid = S.unid /\ T.raw = S.raw
  <2>1. WaysPut(S, T, <<s>>)
    BY <1>1, <1>2, PutWaysIs
  <2> QED
    BY <2>1 DEF WaysPut
<1>4. T.uwid = new - 1 /\ (T.uwid + 1)..new = {new} /\ new + 1 - new = 1 /\ <<s>>[1] = s
  BY <1>0, <1>1, <1>3
<1>5. T.ref[new] = s /\ new \notin DOMAIN S.ref
  <2>1. new \in (T.uwid + 1)..new
    BY <1>4
  <2>2. T.ref[new] = <<s>>[new + 1 - new] /\ new \notin DOMAIN S.ref
    BY <1>3, <2>1
  <2> QED
    BY <1>4, <2>2
<1>6. DOMAIN T.ref = DOMAIN S.ref \cup {new}
  BY <1>3, <1>4
<1> HIDE DEF new
<1>7. T.uwid = S.uwid - 1 /\ S.uwid = new
  BY <1>4 DEF new
<1> QED
  BY <1>3, <1>5, <1>6, <1>7 DEF OneWayPut

(***************************************************************************)
(* Changes of a way and of the index                                       *)
(***************************************************************************)
LEMMA RefIs ==
  ASSUME NEW S \in Data, NEW w \in DOMAIN S.ref
  PROVE  w \in Int /\ S.ref[w] \in Ids
<1>1. S.ref \in Fns(Int, Ids)
  BY DEF Data
<1> QED
  BY <1>1, FnsIs

\* T is S with way w replaced by s.
Replaced(S, T, w, s) ==
  /\ T \in Data /\ Fresh(T) /\ T.ref = [S.ref EXCEPT ![w] = s]
  /\ DOMAIN T.ref = DOMAIN S.ref /\ T.ref[w] = s /\ \A v \in DOMAIN S.ref : v # w => T.ref[v] = S.ref[v]
  /\ T.pos = S.pos /\ T.idx = S.idx /\ T.mark = S.mark /\ T.unid = S.unid /\ T.uwid = S.uwid
  /\ T.raw = S.raw /\ T.emerg = S.emerg /\ T.n = S.n /\ T.fault = S.fault
LEMMA SetWayIs ==
  ASSUME NEW S \in Data, Fresh(S), NEW w \in DOMAIN S.ref, NEW s \in Ids, \A n \in Range(s) : n > S.unid,
         NEW T, T = [S EXCEPT !.ref[w] = s]
  PROVE  Replaced(S, T, w, s)
<1> DEFINE ref == [S.ref EXCEPT ![w] = s]
<1>1. T = [S EXCEPT !.ref = ref]
  OBVIOUS
<1>2. S.ref \in Fns(Int, Ids)
  BY DEF Data
<1>3. /\ ref \in Fns(Int, Ids) /\ DOMAIN ref = DOMAIN S.ref
      /\ ref[w] = s /\ \A v \in DOMAIN S.ref : v # w => ref[v] = S.ref[v]
  BY <1>2, ExceptIs
<1> HIDE DEF ref
<1>4. /\ T.ref = ref /\ T.pos = S.pos /\ T.idx = S.idx /\ T.mark = S.mark /\ T.unid = S.unid /\ T.uwid = S.uwid
      /\ T.raw = S.raw /\ T.emerg = S.emerg /\ T.n = S.n /\ T.fault = S.fault
  BY <1>1 DEF Data
<1>5. T \in Data
  BY <1>1, <1>3 DEF Data
<1>6. Fresh(T)
  <2>1. ASSUME NEW v \in DOMAIN T.ref
        PROVE  v > T.uwid /\ v < 100 /\ \A n \in Range(T.ref[v]) : n > T.unid
    <3>1. CASE v = w
      BY <1>3, <1>4, <3>1 DEF Fresh
    <3>2. CASE v # w
      BY <1>3, <1>4, <2>1, <3>2 DEF Fresh
    <3> QED
      BY <3>1, <3>2
  <2> QED
    BY <1>4, <2>1 DEF Fresh
<1> QED
  BY <1>3, <1>4, <1>5, <1>6 DEF ref, Replaced

\* The nodes of a way of the index must have the way in their lists.
LEMMA SetWaySound ==
  ASSUME NEW S, Sound(S), NEW w \in DOMAIN S.ref, NEW s \in Ids, \A n \in Range(s) : n > S.unid,
         w \in S.raw \/ \A n \in Range(s) \cap DOMAIN S.pos : w \in Parents(S, n),
         NEW T, T = [S EXCEPT !.ref[w] = s]
  PROVE  Sound(T)
<1>1. S \in Data /\ Fresh(S) /\ Complete(S, DOMAIN S.ref \ S.raw)
  BY DEF Sound
<1>2. /\ T \in Data /\ Fresh(T)
      /\ DOMAIN T.ref = DOMAIN S.ref /\ T.ref[w] = s /\ \A v \in DOMAIN S.ref : v # w => T.ref[v] = S.ref[v]
      /\ T.pos = S.pos /\ T.idx = S.idx /\ T.mark = S.mark /\ T.raw = S.raw
  <2>1. Replaced(S, T, w, s)
    BY <1>1, SetWayIs
  <2> QED
    BY <2>1 DEF Replaced
<1>3. Complete(T, DOMAIN T.ref \ T.raw)
  <2> SUFFICES ASSUME NEW v \in DOMAIN S.ref \ S.raw, NEW n \in Range(T.ref[v]) \cap DOMAIN S.pos
               PROVE  v \in Parents(S, n)
    BY <1>2 DEF Complete, Parents
  <2>1. CASE v = w
    BY <1>2, <2>1
  <2>2. CASE v # w
    BY <1>1, <1>2, <2>2 DEF Complete
  <2> QED
    BY <2>1, <2>2
<1> QED
  BY <1>2, <1>3 DEF Sound

\* Especially if all of them were in the way before.
LEMMA ShorterSound ==
  ASSUME NEW S, Sound(S), NEW w \in DOMAIN S.ref, NEW s \in Ids, Range(s) \subseteq Range(S.ref[w]),
         NEW T, T = [S EXCEPT !.ref[w] = s]
  PROVE  Sound(T)
<1>1. \A n \in Range(s) : n > S.unid
  BY DEF Sound, Fresh
<1>2. w \in S.raw \/ \A n \in Range(s) \cap DOMAIN S.pos : w \in Parents(S, n)
  BY DEF Sound, Complete
<1> QED
  BY <1>1, <1>2, SetWaySound

LEMMA FreeWaySound ==
  ASSUME NEW S, Sound(S), NEW w
  PROVE  Sound(FreeWay(S, w))
<1> DEFINE T == FreeWay(S, w)
           ref == [v \in DOMAIN S.ref \ {w} |-> S.ref[v]]
<1>1. S \in Data /\ T = [S EXCEPT !.ref = ref] /\ S.ref \in Fns(Int, Ids)
  BY DEF Sound, FreeWay, Data
<1>2. DOMAIN ref = DOMAIN S.ref \ {w} /\ \A v \in DOMAIN ref : ref[v] = S.ref[v]
  OBVIOUS
<1>3. ref \in Fns(Int, Ids)
  <2>1. DOMAIN S.ref \subseteq Int /\ \A v \in DOMAIN S.ref : S.ref[v] \in Ids
    BY <1>1, FnsIs
  <2>2. DOMAIN ref \subseteq Int /\ (\A v \in DOMAIN ref : ref[v] \in Ids) /\ ref = [v \in DOMAIN ref |-> ref[v]]
    BY <2>1
  <2> HIDE DEF ref
  <2> QED
    BY <2>2, FnsIs
<1> HIDE DEF ref, T
<1>4. /\ T.ref = ref /\ T.pos = S.pos /\ T.idx = S.idx /\ T.mark = S.mark /\ T.unid = S.unid /\ T.uwid = S.uwid
      /\ T.raw = S.raw
  BY <1>1 DEF Data
<1>5. T \in Data
  BY <1>1, <1>3 DEF Data
<1>6. IsFiniteSet(DOMAIN T.ref)
  <2>1. IsFiniteSet(DOMAIN S.ref)
    BY DEF Sound
  <2>2. IsFiniteSet(DOMAIN S.ref \ {w})
    BY <2>1, FS_Difference
  <2> QED
    BY <1>2, <1>4, <2>2
<1> QED
  BY <1>2, <1>4, <1>5, <1>6 DEF Sound, Fresh, Complete, Parents, T

\* The index after add_rev_ptr(): no list loses a parent.
LEMMA AddRevPtrIs ==
  ASSUME NEW index \in Fns(Int, Ids), NEW nodes \in SUBSET Int, NEW p \in Int,
         NEW R, R = AddRevPtr(index, nodes, p)
  PROVE  /\ R \in Fns(Int, Ids)
         /\ \A x : Range(ListOf(index, x)) \subseteq Range(ListOf(R, x))
         /\ \A x \in nodes : p \in Range(ListOf(R, x))
<1>1. DOMAIN index \subseteq Int /\ \A x \in DOMAIN index : index[x] \in Ids
  BY FnsIs
<1>2. \A x : ListOf(index, x) \in Ids
  BY <1>1 DEF ListOf, Ids
<1>3. /\ DOMAIN R = DOMAIN index \cup nodes /\ R = [x \in DOMAIN R |-> R[x]]
      /\ \A x \in DOMAIN R : R[x] = IF x \in nodes /\ p \notin Range(ListOf(index, x))
                                    THEN Append(ListOf(index, x), p) ELSE index[x]
  BY DEF AddRevPtr
<1>4. ASSUME NEW x
      PROVE  /\ Append(ListOf(index, x), p) \in Ids
             /\ Range(Append(ListOf(index, x), p)) = Range(ListOf(index, x)) \cup {p}
  BY <1>2, AppendIs DEF Ids
<1>5. ASSUME NEW x \in DOMAIN R
      PROVE  R[x] \in Ids /\ Range(ListOf(index, x)) \subseteq Range(R[x]) /\ (x \in nodes => p \in Range(R[x]))
  <2>1. CASE x \in nodes /\ p \notin Range(ListOf(index, x))
    BY <1>3, <1>4, <2>1
  <2>2. CASE ~(x \in nodes /\ p \notin Range(ListOf(index, x)))
    <3>1. R[x] = index[x]
      BY <1>3, <2>2
    <3>2. x \in DOMAIN index
      <4>1. CASE x \in nodes /\ x \notin DOMAIN index
        <5>1. ListOf(index, x) = <<>>
          BY <4>1 DEF ListOf
        <5>2. Range(ListOf(index, x)) = {}
          BY <5>1 DEF Range
        <5> QED
          BY <2>2, <4>1, <5>2
      <4> QED
        BY <1>3, <4>1
    <3>3. ListOf(index, x) = index[x]
      BY <3>2 DEF ListOf
    <3> QED
      BY <1>1, <2>2, <3>1, <3>2, <3>3
  <2> QED
    BY <2>1, <2>2
<1>6. R \in Fns(Int, Ids)
  BY <1>1, <1>3, <1>5, FnsIs
<1>7. ASSUME NEW x
      PROVE  Range(ListOf(index, x)) \subseteq Range(ListOf(R, x))
  <2>1. CASE x \in DOMAIN R
    BY <1>5, <2>1 DEF ListOf
  <2>2. CASE x \notin DOMAIN R
    BY <1>3, <2>2 DEF ListOf
  <2> QED
    BY <2>1, <2>2
<1>8. \A x \in nodes : p \in Range(ListOf(R, x))
  BY <1>3, <1>5 DEF ListOf
<1> QED
  BY <1>6, <1>7, <1>8

\* T is S with another index.
IndexSet(S, T, idx) ==
  /\ T \in Data /\ T.idx = idx
  /\ T.pos = S.pos /\ T.ref = S.ref /\ T.mark = S.mark /\ T.unid = S.unid /\ T.uwid = S.uwid
  /\ T.raw = S.raw /\ T.emerg = S.emerg /\ T.n = S.n /\ T.fault = S.fault
LEMMA SetIndexIs ==
  ASSUME NEW S \in Data, NEW idx \in Fns(Int, Ids), NEW T, T = [S EXCEPT !.idx = idx]
  PROVE  IndexSet(S, T, idx)
BY DEF Data, IndexSet

\* insert_refs() keeps the index complete.
RefsPut(S, T, w, nodes, at) ==
  /\ Sound(T) /\ T.pos = S.pos /\ T.mark = S.mark /\ DOMAIN T.ref = DOMAIN S.ref
  /\ T.ref[w] = SubSeq(S.ref[w], 1, at - 1) \o nodes \o SubSeq(S.ref[w], at, Len(S.ref[w]))
  /\ T.unid = S.unid
LEMMA InsertRefsSound ==
  ASSUME NEW S, Sound(S), NEW w \in DOMAIN S.ref, NEW nodes \in Ids, \A n \in Range(nodes) : n > S.unid,
         NEW at \in Int, at >= 1, at <= Len(S.ref[w]) + 1, NEW T, T = InsertRefs(S, w, nodes, at)
  PROVE  RefsPut(S, T, w, nodes, at)
<1> DEFINE old == S.ref[w]
           s == SubSeq(old, 1, at - 1) \o nodes \o SubSeq(old, at, Len(old))
           idx == AddRevPtr(S.idx, Range(nodes), w)
           U == [S EXCEPT !.idx = idx]
<1>1. S \in Data /\ Fresh(S) /\ Complete(S, DOMAIN S.ref \ S.raw) /\ S.idx \in Fns(Int, Ids)
  BY DEF Sound, Data
<1> HIDE DEF old
<1>2. old \in Ids /\ w \in Int /\ Len(old) \in Nat
  BY <1>1, RefIs DEF Ids, old
<1>3. s \in Ids /\ Range(s) \subseteq Range(old) \cup Range(nodes)
  <2> DEFINE a == SubSeq(old, 1, at - 1)
             b == SubSeq(old, at, Len(old))
  <2>1. at - 1 \in Int /\ at - 1 <= Len(old) /\ Len(old) \in Int /\ Len(old) <= Len(old)
    BY <1>2 DEF old
  <2>2. old \in Seq(Int) /\ nodes \in Seq(Int)
    BY <1>2 DEF Ids
  <2>3. a \in Seq(Int) /\ Range(a) \subseteq Range(old)
    BY <2>1, <2>2, SubSeqIs
  <2>4. b \in Seq(Int) /\ Range(b) \subseteq Range(old)
    BY <2>1, <2>2, SubSeqIs
  <2>5. s = (a \o nodes) \o b
    OBVIOUS
  <2> HIDE DEF a, b, s
  <2>6. a \o nodes \in Seq(Int) /\ Range(a \o nodes) = Range(a) \cup Range(nodes)
    BY <2>2, <2>3, ConcatIs
  <2> DEFINE c == a \o nodes
  <2> HIDE DEF c
  <2>7. c \o b \in Seq(Int) /\ Range(c \o b) = Range(c) \cup Range(b)
    <3>1. c \in Seq(Int)
      BY <2>6 DEF c
    <3> QED
      BY <2>4, <3>1, ConcatIs
  <2> QED
    BY <2>3, <2>4, <2>5, <2>6, <2>7 DEF Ids, c
<1>4. /\ idx \in Fns(Int, Ids) /\ \A x : Range(ListOf(S.idx, x)) \subseteq Range(ListOf(idx, x))
      /\ \A x \in Range(nodes) : w \in Range(ListOf(idx, x))
  <2>1. Range(nodes) \subseteq Int
    BY DEF Range, Ids
  <2>2. idx = AddRevPtr(S.idx, Range(nodes), w)
    OBVIOUS
  <2> HIDE DEF idx
  <2> QED
    BY <1>1, <1>2, <2>1, <2>2, AddRevPtrIs
<1>5. T = [U EXCEPT !.ref[w] = s]
  BY <1>1 DEF InsertRefs, Data, old
<1> HIDE DEF s, idx
<1>6. /\ U \in Data /\ U.idx = idx /\ U.pos = S.pos /\ U.ref = S.ref /\ U.mark = S.mark /\ U.unid = S.unid
      /\ U.uwid = S.uwid /\ U.raw = S.raw
  <2>1. U = [S EXCEPT !.idx = idx]
    OBVIOUS
  <2> HIDE DEF U
  <2>2. IndexSet(S, U, idx)
    BY <1>1, <1>4, <2>1, SetIndexIs
  <2> QED
    BY <2>2 DEF IndexSet
<1> HIDE DEF U
<1>7. Sound(U)
  BY <1>4, <1>6 DEF Sound, Fresh, Complete, Parents
<1>8. \A n \in Range(s) : n > U.unid
  <2>1. \A n \in Range(old) : n > S.unid
    BY <1>1 DEF Fresh, old
  <2> QED
    BY <1>3, <1>6, <2>1
<1>9. w \in U.raw \/ \A n \in Range(s) \cap DOMAIN U.pos : w \in Parents(U, n)
  <2>1. w \in U.raw \/ \A n \in Range(old) \cap DOMAIN U.pos : w \in Parents(U, n)
    BY <1>6, <1>7 DEF Sound, Complete, old
  <2>2. \A n \in Range(nodes) : w \in Parents(U, n)
    BY <1>4, <1>6 DEF Parents
  <2> QED
    BY <1>3, <2>1, <2>2
<1>10. Sound(T)
  BY <1>3, <1>5, <1>6, <1>7, <1>8, <1>9, SetWaySound
<1>11. /\ T.pos = U.pos /\ T.mark = U.mark /\ DOMAIN T.ref = DOMAIN U.ref /\ T.ref[w] = s /\ T.unid = U.unid
  <2>1. Replaced(U, T, w, s)
    BY <1>3, <1>5, <1>6, <1>7, <1>8, SetWayIs DEF Sound
  <2> QED
    BY <2>1 DEF Replaced
<1> QED
  BY <1>6, <1>10, <1>11 DEF s, old, RefsPut

(***************************************************************************)
(* split                                                                   *)
(***************************************************************************)
\* The first and the last of some indexes.
LEMMA MinIs ==
  ASSUME NEW I \in SUBSET Nat, I # {}
  PROVE  Min(I) \in I /\ \A y \in I : Min(I) <= y
<1>1. PICK x \in I : \A y \in I : x <= y
  BY LeastNatural
<1> QED
  BY <1>1 DEF Min

LEMMA MaxIs ==
  ASSUME NEW m \in Nat, NEW I \in SUBSET (0..m), I # {}
  PROVE  Max(I) \in I
<1> DEFINE J == {m - i : i \in I}
<1>1. J \in SUBSET Nat /\ J # {}
  <2>1. \A i \in I : m - i \in Nat
    OBVIOUS
  <2>2. \E i \in I : m - i \in J
    OBVIOUS
  <2> QED
    BY <2>1, <2>2
<1> HIDE DEF J
<1>2. PICK y \in J : \A z \in J : y <= z
  BY <1>1, LeastNatural
<1>3. PICK i \in I : y = m - i
  BY DEF J
<1>4. \A x \in I : i >= x
  <2> SUFFICES ASSUME NEW x \in I
               PROVE  i >= x
    OBVIOUS
  <2>1. m - x \in J
    BY DEF J
  <2>2. y <= m - x
    BY <1>2, <2>1
  <2> QED
    BY <1>3, <2>2
<1> QED
  BY <1>4 DEF Max

LEMMA IndexInIs ==
  ASSUME NEW s \in Ids, NEW x
  PROVE  /\ IndexIn(s, x) \in 0..Len(s) /\ (IndexIn(s, x) # 0 => s[IndexIn(s, x)] = x)
         /\ \A j \in 1..Len(s) : s[j] = x => IndexIn(s, x) # 0 /\ IndexIn(s, x) <= j
<1> DEFINE I == {i \in 1..Len(s) : s[i] = x}
<1>0. I = {} \/ x \in Range(s)
  BY DEF Range, Ids
<1>3. Len(s) \in Nat
  BY DEF Ids
<1>1. \/ IndexIn(s, x) = 0 /\ I = {}
      \/ I # {} /\ IndexIn(s, x) = Min(I)
  BY <1>0 DEF IndexIn, SelectInSeq
<1>2. CASE I # {} /\ IndexIn(s, x) = Min(I)
  <2>1. I \in SUBSET Nat
    OBVIOUS
  <2>2. Min(I) \in I /\ \A y \in I : Min(I) <= y
    <3> HIDE DEF I
    <3> QED
      BY <1>2, <2>1, MinIs
  <2>3. \A j \in 1..Len(s) : s[j] = x => IndexIn(s, x) <= j
    BY <1>2, <2>2
  <2>4. IndexIn(s, x) \in 1..Len(s) /\ s[IndexIn(s, x)] = x
    BY <1>2, <2>2
  <2> HIDE DEF I
  <2> QED
    BY <1>3, <2>3, <2>4
<1>4. CASE IndexIn(s, x) = 0 /\ I = {}
  <2>1. \A j \in 1..Len(s) : s[j] # x
    BY <1>4
  <2> QED
    BY <1>3, <1>4, <2>1
<1> QED
  BY <1>1, <1>2, <1>4

\* T is S except for the index and what is counted.
IndexOnly(S, T) ==
  /\ T \in Data /\ T.pos = S.pos /\ T.ref = S.ref /\ T.mark = S.mark /\ T.unid = S.unid /\ T.uwid = S.uwid
  /\ T.raw = S.raw

\* List t is list s with further elements.
Begins(s, t) == \A j \in DOMAIN s : j \in DOMAIN t /\ t[j] = s[j]

\* No list loses a parent, but for way org in the lists of nodes it has no longer;
\* the lists of the nodes it still has only get longer.
Updated(S, T, org) ==
  /\ IndexOnly(S, T)
  /\ \A y \in Range(S.ref[org]) \cap DOMAIN S.idx : y \in DOMAIN T.idx /\ Begins(S.idx[y], T.idx[y])
  /\ \A y, p : p \in Parents(S, y) => p \in Parents(T, y) \/ (p = org /\ y \notin Range(S.ref[org]))

LEMMA ListIs ==
  ASSUME NEW S \in Data, NEW x
  PROVE  ListOf(S.idx, x) \in Ids /\ S.idx \in Fns(Int, Ids)
<1>1. S.idx \in Fns(Int, Ids)
  BY DEF Data
<1> QED
  BY <1>1, FnsIs DEF ListOf, Ids

LEMMA UpdateRevPtrIs ==
  ASSUME NEW S \in Data, NEW org, NEW new \in Int, NEW x \in Int, NEW T, T = UpdateRevPtr(S, org, new, x)
  PROVE  Updated(S, T, org) /\ new \in Parents(T, x)
<1> DEFINE list == ListOf(S.idx, x)
           at   == IndexIn(list, org)
           miss == x \notin DOMAIN S.idx
           em == S.emerg \/ miss
           nn == IF miss THEN S.n + 1 ELSE S.n
           wild == S.fault \/ Wild \in Range(list)
           U == [S EXCEPT !.emerg = em, !.n = nn]
<1>1. list \in Ids /\ S.idx \in Fns(Int, Ids) /\ S.n \in Int /\ S.emerg \in BOOLEAN /\ S.fault \in BOOLEAN
  BY ListIs DEF Data
<1>2. /\ em \in BOOLEAN /\ wild \in BOOLEAN
  OBVIOUS
<1>3. nn \in Int
  BY <1>1
<1>4. /\ x \in Range(S.ref[org]) =>
           T = [S EXCEPT !.emerg = em, !.idx = Put(@, x, Append(list, new)), !.n = nn + 1, !.fault = wild]
      /\ x \notin Range(S.ref[org]) /\ at # 0 => T = [S EXCEPT !.emerg = em, !.n = nn, !.idx[x][at] = new]
      /\ x \notin Range(S.ref[org]) /\ at = 0 =>
           T = [S EXCEPT !.emerg = em, !.n = nn, !.idx = Put(@, x, list \o <<new, Wild>>), !.fault = wild]
  <2>1. S.idx = S.idx /\ S \in Data
    OBVIOUS
  <2> HIDE DEF at, list, em, nn, wild
  <2>2. /\ x \in Range(S.ref[org]) =>
             T = [[S EXCEPT !.emerg = em, !.n = nn] EXCEPT !.idx = Put(@, x, Append(list, new)), !.n = @ + 1, !.fault = wild]
        /\ x \notin Range(S.ref[org]) /\ at # 0 => T = [[S EXCEPT !.emerg = em, !.n = nn] EXCEPT !.idx[x][at] = new]
        /\ x \notin Range(S.ref[org]) /\ at = 0 =>
             T = [[S EXCEPT !.emerg = em, !.n = nn] EXCEPT !.idx = Put(@, x, list \o <<new, Wild>>), !.fault = wild]
    BY DEF UpdateRevPtr, Data, at, list, em, nn, wild
  <2> QED
    BY <2>2 DEF Data
<1> HIDE DEF at, em, nn, wild, list
<1>5. ASSUME NEW l \in Ids, NEW n \in Int, NEW f \in BOOLEAN,
             \A p \in Range(list) : p \in Range(l) \/ (p = org /\ x \notin Range(S.ref[org])), new \in Range(l),
             x \in Range(S.ref[org]) => Begins(list, l),
             NEW idx \in Fns(Int, Ids), idx[x] = l, DOMAIN idx = DOMAIN S.idx \cup {x},
             \A y \in DOMAIN S.idx : y # x => idx[y] = S.idx[y],
             T = [S EXCEPT !.emerg = em, !.n = n, !.fault = f, !.idx = idx]
      PROVE  Updated(S, T, org) /\ new \in Parents(T, x)
  <2>1. T \in Data
    BY <1>2, <1>5 DEF Data
  <2>2. IndexOnly(S, T) /\ T.idx = idx
    BY <1>5, <2>1 DEF IndexOnly, Data
  <2>3. ASSUME NEW y, NEW p \in Parents(S, y)
        PROVE  p \in Parents(T, y) \/ (p = org /\ y \notin Range(S.ref[org]))
    <3>1. CASE y = x
      BY <1>5, <2>2, <2>3, <3>1 DEF Parents, ListOf, list
    <3>2. CASE y # x
      <4>1. ListOf(idx, y) = ListOf(S.idx, y)
        BY <1>5, <3>2 DEF ListOf
      <4> QED
        BY <2>2, <2>3, <4>1 DEF Parents
    <3> QED
      BY <3>1, <3>2
  <2>4. new \in Parents(T, x)
    BY <1>5, <2>2 DEF Parents, ListOf
  <2>5. ASSUME NEW y \in Range(S.ref[org]) \cap DOMAIN S.idx
        PROVE  y \in DOMAIN T.idx /\ Begins(S.idx[y], T.idx[y])
    <3>1. CASE y = x
      BY <1>5, <2>2, <3>1 DEF ListOf, list
    <3>2. CASE y # x
      BY <1>5, <2>2, <3>2 DEF Begins
    <3> QED
      BY <3>1, <3>2
  <2> QED
    BY <2>2, <2>3, <2>4, <2>5 DEF Updated
<1>6. CASE x \in Range(S.ref[org])
  <2> DEFINE l == Append(list, new)
             idx == Put(S.idx, x, l)
  <2>1. l \in Ids /\ Range(l) = Range(list) \cup {new}
    BY <1>1, AppendIs DEF Ids
  <2>5. Begins(list, l)
    BY <1>1 DEF Begins, Ids
  <2> HIDE DEF l
  <2>2. idx \in Fns(Int, Ids) /\ DOMAIN idx = DOMAIN S.idx \cup {x} /\ idx[x] = l
        /\ \A y \in DOMAIN S.idx : y # x => idx[y] = S.idx[y]
    <3> DEFINE f == S.idx
    <3>1. f \in Fns(Int, Ids) /\ l \in Ids /\ x \in Int /\ idx = Put(f, x, l)
      BY <1>1, <2>1
    <3> HIDE DEF f, idx
    <3>2. IsPut(f, idx, x, l)
      BY <3>1, PutIs
    <3> QED
      BY <3>2 DEF f, IsPut
  <2>3. T = [S EXCEPT !.emerg = em, !.n = nn + 1, !.fault = wild, !.idx = idx]
    BY <1>4, <1>6 DEF l, Data
  <2>4. nn + 1 \in Int
    BY <1>3
  <2> HIDE DEF idx
  <2> QED
    BY <1>2, <1>5, <2>1, <2>2, <2>3, <2>4, <2>5
<1>7. CASE x \notin Range(S.ref[org]) /\ at # 0
  <2> DEFINE l == [list EXCEPT ![at] = new]
             idx == [S.idx EXCEPT ![x] = l]
  <2>1. at \in 1..Len(list) /\ list[at] = org /\ DOMAIN list = 1..Len(list)
    BY <1>1, <1>7, IndexInIs DEF at, Ids
  <2>2. x \in DOMAIN S.idx /\ list = S.idx[x]
    <3>1. list # <<>>
      BY <2>1
    <3> QED
      BY <3>1 DEF list, ListOf
  <2>3. l \in Ids /\ \A p \in Range(list) : p \in Range(l) \/ p = org
    <3>1. l \in Ids /\ DOMAIN l = DOMAIN list /\ \A j \in DOMAIN list : j # at => l[j] = list[j]
      BY <1>1, <2>1 DEF Ids
    <3>2. ASSUME NEW p \in Range(list), p # org
          PROVE  p \in Range(l)
      <4>1. PICK j \in DOMAIN list : p = list[j]
        BY <3>2, RangeIs
      <4>2. j \in DOMAIN l /\ l[j] = p
        BY <2>1, <3>1, <3>2, <4>1
      <4> QED
        BY <4>2, RangeIs
    <3> QED
      BY <3>1, <3>2
  <2>4. new \in Range(l)
    <3>1. at \in DOMAIN l /\ l[at] = new
      BY <2>1
    <3> QED
      BY <3>1, RangeIs
  <2>5. T = [S EXCEPT !.emerg = em, !.n = nn, !.fault = S.fault, !.idx = idx]
    BY <1>4, <1>7, <2>2 DEF Data
  <2> HIDE DEF l
  <2>6. idx \in Fns(Int, Ids) /\ DOMAIN idx = DOMAIN S.idx /\ idx[x] = l
        /\ \A y \in DOMAIN S.idx : y # x => idx[y] = S.idx[y]
    BY <1>1, <2>2, <2>3, ExceptIs
  <2>7. DOMAIN idx = DOMAIN S.idx \cup {x}
    BY <2>2, <2>6
  <2> HIDE DEF idx
  <2> QED
    BY <1>1, <1>3, <1>5, <1>7, <2>3, <2>4, <2>5, <2>6, <2>7
<1>8. CASE x \notin Range(S.ref[org]) /\ at = 0
  <2> DEFINE l == list \o <<new, Wild>>
             idx == Put(S.idx, x, l)
  <2>1. l \in Ids /\ Range(l) = Range(list) \cup Range(<<new, Wild>>)
    <3>1. <<new, Wild>> \in Seq(Int)
      BY DEF Wild
    <3> QED
      BY <1>1, <3>1, ConcatIs DEF Ids
  <2>2. new \in Range(<<new, Wild>>)
    <3>1. 1 \in DOMAIN <<new, Wild>> /\ <<new, Wild>>[1] = new
      OBVIOUS
    <3> QED
      BY <3>1, RangeIs
  <2> HIDE DEF l
  <2>3. idx \in Fns(Int, Ids) /\ DOMAIN idx = DOMAIN S.idx \cup {x} /\ idx[x] = l
        /\ \A y \in DOMAIN S.idx : y # x => idx[y] = S.idx[y]
    <3> DEFINE f == S.idx
    <3>1. f \in Fns(Int, Ids) /\ l \in Ids /\ x \in Int /\ idx = Put(f, x, l)
      BY <1>1, <2>1
    <3> HIDE DEF f, idx
    <3>2. IsPut(f, idx, x, l)
      BY <3>1, PutIs
    <3> QED
      BY <3>2 DEF f, IsPut
  <2>4. T = [S EXCEPT !.emerg = em, !.n = nn, !.fault = wild, !.idx = idx]
    BY <1>4, <1>8 DEF l, Data
  <2> HIDE DEF idx
  <2> QED
    BY <1>2, <1>3, <1>5, <1>8, <2>1, <2>2, <2>3, <2>4
<1> QED
  BY <1>6, <1>7, <1>8

\* A loop stays in a set in which a step stays.
LEMMA Within ==
  ASSUME NEW X, NEW m \in Nat, NEW f, f[0] \in X, \A i \in 1..m : f[i - 1] \in X => f[i] \in X
  PROVE  \A i \in 0..m : f[i] \in X
<1> DEFINE N == {i \in 0..m : f[i] \in X}
<1>1. 0 \in N
  OBVIOUS
<1>2. \A i \in 1..m : i - 1 \in N => i \in N
  OBVIOUS
<1> HIDE DEF N
<1>3. 0..m \subseteq N
  BY <1>1, <1>2, InductionTo
<1> QED
  BY <1>3 DEF N

LEMMA UpdateAllIs ==
  ASSUME NEW S \in Data, NEW org, NEW new \in Int, new # org, NEW tail \in Ids, NEW T, T = UpdateAll(S, org, new, tail)
  PROVE  Updated(S, T, org) /\ \A x \in Range(tail) : new \in Parents(T, x)
<1> DEFINE m == Len(tail)
           Step(U, i) == UpdateRevPtr(U, org, new, tail[i])
           f == CHOOSE g : g = [i \in 0..m |-> IF i = 0 THEN S ELSE Step(g[i - 1], i)]
           X == {U \in Data : Updated(S, U, org)}
           G == [x \in (1..m) \X X |-> Step(x[2], x[1])]
<1>0. m \in Nat /\ \A i \in 1..m : tail[i] \in Int
  BY DEF Ids
<1>1. T = f[m]
  BY DEF UpdateAll, InTurn
<1>2. ASSUME NEW U \in X, NEW i \in 1..m
      PROVE  /\ Step(U, i) \in X /\ new \in Parents(Step(U, i), tail[i])
             /\ \A y : new \in Parents(U, y) => new \in Parents(Step(U, i), y)
  <2>1. Updated(U, Step(U, i), org) /\ new \in Parents(Step(U, i), tail[i])
    BY <1>0, UpdateRevPtrIs
  <2> HIDE DEF Step
  <2>2. Updated(S, Step(U, i), org)
    <3> DEFINE V == Step(U, i)
    <3> HIDE DEF V
    <3>1. Updated(S, U, org) /\ Updated(U, V, org)
      BY <2>1 DEF V
    <3>2. U.ref = S.ref
      BY <3>1 DEF Updated, IndexOnly
    <3>3. ASSUME NEW y \in Range(S.ref[org]) \cap DOMAIN S.idx
          PROVE  y \in DOMAIN V.idx /\ Begins(S.idx[y], V.idx[y])
      <4>1. y \in DOMAIN U.idx /\ Begins(S.idx[y], U.idx[y])
        BY <3>1 DEF Updated
      <4>2. y \in DOMAIN V.idx /\ Begins(U.idx[y], V.idx[y])
        BY <3>1, <3>2, <4>1 DEF Updated
      <4> QED
        BY <4>1, <4>2 DEF Begins
    <3>4. IndexOnly(S, V)
      BY <3>1 DEF Updated, IndexOnly
    <3>5. \A y, p : p \in Parents(S, y) => p \in Parents(V, y) \/ (p = org /\ y \notin Range(S.ref[org]))
      BY <3>1, <3>2 DEF Updated
    <3> QED
      BY <3>3, <3>4, <3>5 DEF Updated, V
  <2>3. Step(U, i) \in Data
    BY <2>1 DEF Updated, IndexOnly
  <2> QED
    BY <2>1, <2>2, <2>3 DEF Updated
<1>3. S \in X
  BY DEF Updated, IndexOnly, Begins
<1> HIDE DEF Step, X
<1>4. f = [i \in 0..m |-> IF i = 0 THEN S ELSE Step(f[i - 1], i)]
  <2>1. G \in [(1..m) \X X -> X]
    BY <1>2
  <2> HIDE DEF G
  <2>2. \E g : Recursive(g, X, m, S, G)
    BY <1>0, <1>3, <2>1, Recursion
  <2>3. PICK g \in [0..m -> X] : g[0] = S /\ \A i \in 1..m : g[i] = G[<<i, g[i - 1]>>]
    BY <2>2 DEF Recursive
  <2>4. \A i \in 1..m : g[i] = Step(g[i - 1], i)
    <3> SUFFICES ASSUME NEW i \in 1..m
                 PROVE  G[<<i, g[i - 1]>>] = Step(g[i - 1], i)
      BY <2>3
    <3>1. <<i, g[i - 1]>> \in (1..m) \X X
      BY <2>3
    <3> QED
      BY <3>1 DEF G
  <2>5. g = [i \in 0..m |-> IF i = 0 THEN S ELSE Step(g[i - 1], i)]
    BY <2>3, <2>4
  <2> QED
    BY <2>5
<1> HIDE DEF f, m
<1>5. f[0] = S /\ \A i \in 1..m : f[i] = Step(f[i - 1], i)
  <2>1. f[0] = S
    BY <1>0, <1>4
  <2>2. ASSUME NEW i \in 1..m
        PROVE  f[i] = Step(f[i - 1], i)
    <3>1. i \in 0..m /\ i # 0
      BY <1>0
    <3> QED
      BY <1>4, <3>1
  <2> QED
    BY <2>1, <2>2
<1> DEFINE Is(i) == f[i] \in X /\ \A j \in 1..i : new \in Parents(f[i], tail[j])
           N == {i \in 0..m : Is(i)}
<1>6. 0 \in N
  BY <1>0, <1>3, <1>5
<1>7. ASSUME NEW i \in 1..m, i - 1 \in N
      PROVE  i \in N
  <2>1. f[i - 1] \in X /\ \A j \in 1..(i - 1) : new \in Parents(f[i - 1], tail[j])
    BY <1>7
  <2>2. /\ f[i] \in X /\ new \in Parents(f[i], tail[i])
        /\ \A y : new \in Parents(f[i - 1], y) => new \in Parents(f[i], y)
    BY <1>2, <1>5, <2>1
  <2>3. ASSUME NEW j \in 1..i
        PROVE  new \in Parents(f[i], tail[j])
    <3>1. j = i \/ j \in 1..(i - 1)
      OBVIOUS
    <3> QED
      BY <2>1, <2>2, <3>1
  <2>4. Is(i) /\ i \in 0..m
    BY <2>2, <2>3
  <2> QED
    BY <2>4
<1> HIDE DEF N
<1>8. 0..m \subseteq N
  BY <1>0, <1>6, <1>7, InductionTo
<1>9. Is(m)
  BY <1>0, <1>8 DEF N
<1>10. \A x \in Range(tail) : new \in Parents(T, x)
  <2>1. DOMAIN tail = 1..m
    BY DEF Ids, m
  <2> QED
    BY <1>1, <1>9, <2>1, RangeIs
<1> QED
  BY <1>1, <1>9, <1>10 DEF X

\* T is S with way w cut at index i; what remains is a new way if it has two nodes.
CutAt(S, T, w, i, tail) ==
  LET n == S.ref[w][i]
  IN /\ T.pos = S.pos /\ (S.raw = {} => T.raw = {})
     /\ T.ref[w] = IF i > 1 THEN SubSeq(S.ref[w], 1, i) ELSE <<n, n>>
     /\ \A v \in DOMAIN S.ref : v # w => T.ref[v] = S.ref[v]
     /\ Len(tail) < 2 => DOMAIN T.ref = DOMAIN S.ref
     /\ Len(tail) >= 2 => /\ DOMAIN T.ref = DOMAIN S.ref \cup {S.uwid} /\ S.uwid \notin DOMAIN S.ref
                          /\ T.ref[S.uwid] = tail
     /\ n \in DOMAIN S.idx => n \in DOMAIN T.idx /\ Begins(S.idx[n], T.idx[n])

\* A way that is split stays in the lists of its nodes, and the new way, which is
\* out of the index if the old one was, comes into those of its own.
LEMMA SplitWaySound ==
  ASSUME NEW S, Sound(S), NEW w \in DOMAIN S.ref, NEW i \in 1..Len(S.ref[w]), NEW n, n = S.ref[w][i],
         NEW tail \in Ids, Range(tail) \subseteq Range(S.ref[w]), NEW T, T = SplitWay(S, w, n, i, tail)
  PROVE  Sound(T) /\ CutAt(S, T, w, i, tail)
<1> DEFINE s == IF i > 1 THEN SubSeq(S.ref[w], 1, i) ELSE <<n, n>>
           cut == [S EXCEPT !.ref[w] = s]
           short == [Shorter(S, w, n, i) EXCEPT !.n = 0]
           new == S.uwid
           raw == IF w \in S.raw THEN S.raw \cup {new} ELSE S.raw
           noted == [short EXCEPT !.raw = raw]
           long == NewPart(short, w, tail)
<1>1. S \in Data /\ Fresh(S) /\ new \in Int /\ S.raw \subseteq Int /\ S.ref[w] \in Ids /\ Len(S.ref[w]) \in Nat
  <2>1. S \in Data /\ Fresh(S) /\ new \in Int /\ S.raw \subseteq Int
    BY DEF Sound, Data
  <2> QED
    BY <2>1, RefIs DEF Ids
<1>2. s \in Ids /\ Range(s) \subseteq Range(S.ref[w])
  <2>1. CASE i > 1
    BY <1>1, <2>1, SubSeqIs DEF Ids
  <2>2. CASE ~(i > 1)
    <3>1. n \in Int /\ n \in Range(S.ref[w])
      <4>1. i \in DOMAIN S.ref[w] /\ S.ref[w][i] \in Int
        BY <1>1 DEF Ids
      <4> QED
        BY <4>1, RangeIs
    <3>2. s = <<n, n>> /\ <<n, n>> \in Seq(Int)
      BY <2>2, <3>1
    <3>3. Range(<<n, n>>) = {n}
      BY DEF Range
    <3> QED
      BY <3>1, <3>2, <3>3 DEF Ids
  <2> QED
    BY <2>1, <2>2
<1>8. n \in Range(s)
  <2>1. CASE i > 1
    <3>1. s \in Seq(Int) /\ DOMAIN s = 1..(i - 1 + 1) /\ \A k \in 1..(i - 1 + 1) : s[k] = S.ref[w][1 + k - 1]
      <4>1. S.ref[w] \in Seq(Int) /\ 1 \in 1..(Len(S.ref[w]) + 1) /\ i \in 0..Len(S.ref[w]) /\ 1 <= i
        BY <1>1 DEF Ids
      <4>2. s = SubSeq(S.ref[w], 1, i)
        BY <2>1
      <4> QED
        BY <1>1, <4>1, <4>2, SubSeqProperties
    <3>2. i \in DOMAIN s /\ s[i] = n
      BY <2>1, <3>1
    <3> QED
      BY <3>2, RangeIs
  <2>2. CASE ~(i > 1)
    <3>1. 1 \in DOMAIN <<n, n>> /\ <<n, n>>[1] = n /\ s = <<n, n>>
      BY <2>2
    <3> QED
      BY <3>1, RangeIs
  <2> QED
    BY <2>1, <2>2
<1>9. s = IF i > 1 THEN SubSeq(S.ref[w], 1, i) ELSE <<n, n>>
  OBVIOUS
<1>10. Len(tail) \in Nat
  BY DEF Ids
<1> HIDE DEF s
<1>3. Sound(cut) /\ Replaced(S, cut, w, s)
  <2>1. Sound(cut)
    BY <1>2, ShorterSound
  <2>2. \A x \in Range(s) : x > S.unid
    BY <1>1, <1>2 DEF Fresh
  <2>3. Replaced(S, cut, w, s)
    BY <1>1, <1>2, <2>2, SetWayIs
  <2> QED
    BY <2>1, <2>3
<1>4. Shorter(S, w, n, i) = cut
  BY DEF Shorter, s
<1> HIDE DEF cut
<1>5. /\ Sound(short) /\ short \in Data /\ Fresh(short) /\ DOMAIN short.ref = DOMAIN S.ref /\ short.ref[w] = s
      /\ \A v \in DOMAIN S.ref : v # w => short.ref[v] = S.ref[v]
      /\ short.pos = S.pos /\ short.idx = S.idx /\ short.mark = S.mark /\ short.unid = S.unid /\ short.uwid = S.uwid
      /\ short.raw = S.raw
  <2>1. /\ cut \in Data /\ DOMAIN cut.ref = DOMAIN S.ref /\ cut.ref[w] = s
        /\ \A v \in DOMAIN S.ref : v # w => cut.ref[v] = S.ref[v]
        /\ cut.pos = S.pos /\ cut.idx = S.idx /\ cut.mark = S.mark /\ cut.unid = S.unid /\ cut.uwid = S.uwid
        /\ cut.raw = S.raw
    BY <1>3 DEF Replaced
  <2>2. /\ short \in Data /\ short.pos = cut.pos /\ short.ref = cut.ref /\ short.idx = cut.idx /\ short.mark = cut.mark
        /\ short.unid = cut.unid /\ short.uwid = cut.uwid /\ short.raw = cut.raw
    BY <1>4, <2>1 DEF Data
  <2> HIDE DEF short
  <2>3. Sound(short)
    BY <1>3, <2>2 DEF Sound, Fresh, Complete, Parents
  <2> QED
    BY <2>1, <2>2, <2>3 DEF Sound
<1>6. T = IF Len(tail) < 2 THEN short ELSE UpdateAll(long, w, new, tail)
  BY DEF SplitWay
<1> HIDE DEF short
<1>7. CASE ~(Len(tail) < 2)
  <2>1. raw \in SUBSET Int /\ S.raw \subseteq raw
    BY <1>1
  <2>13. long = PutWays(noted, <<tail>>)
    BY <1>5 DEF NewPart, Data
  <2> HIDE DEF raw, long
  <2>2. noted \in Data /\ noted.pos = short.pos /\ noted.ref = short.ref /\ noted.idx = short.idx
        /\ noted.mark = short.mark /\ noted.unid = short.unid /\ noted.uwid = short.uwid /\ noted.raw = raw
    BY <1>5, <2>1 DEF Data
  <2> HIDE DEF noted
  <2>3. Fresh(noted)
    BY <1>5, <2>2 DEF Fresh
  <2>6. /\ long \in Data /\ Fresh(long) /\ long.uwid = new - 1
        /\ DOMAIN long.ref = DOMAIN S.ref \cup {new} /\ new \notin DOMAIN S.ref
        /\ \A v \in DOMAIN S.ref : long.ref[v] = short.ref[v]
        /\ long.ref[new] = tail /\ IsFiniteSet(DOMAIN long.ref)
        /\ long.pos = S.pos /\ long.idx = S.idx /\ long.mark = S.mark /\ long.unid = S.unid /\ long.raw = raw
    <3>1. \A x \in Range(tail) : x > noted.unid
      <4>1. \A x \in Range(tail) : x > S.unid
        BY <1>1 DEF Fresh
      <4> QED
        BY <1>5, <2>2, <4>1
    <3>2. IsFiniteSet(DOMAIN noted.ref)
      BY <1>5, <2>2 DEF Sound
    <3>3. OneWayPut(noted, long, tail)
      BY <2>2, <2>3, <2>13, <3>1, <3>2, PutWayIs
    <3>4. noted.uwid = new
      BY <1>5, <2>2
    <3> QED
      BY <1>5, <2>2, <3>3, <3>4 DEF OneWayPut
  <2>7. new # w
    BY <2>6
  <2>8. Updated(long, T, w) /\ \A x \in Range(tail) : new \in Parents(T, x)
    BY <1>1, <1>6, <1>7, <2>6, <2>7, UpdateAllIs
  <2>9. /\ T \in Data /\ T.pos = long.pos /\ T.ref = long.ref /\ T.mark = long.mark
        /\ T.unid = long.unid /\ T.uwid = long.uwid /\ T.raw = long.raw
        /\ \A y, p : p \in Parents(long, y) => p \in Parents(T, y) \/ (p = w /\ y \notin Range(long.ref[w]))
    BY <2>8 DEF Updated, IndexOnly
  <2>10. Complete(T, DOMAIN T.ref \ T.raw)
    <3> SUFFICES ASSUME NEW v \in DOMAIN long.ref \ raw, NEW x \in Range(long.ref[v]) \cap DOMAIN S.pos
                 PROVE  v \in Parents(T, x)
      BY <2>6, <2>9 DEF Complete
    <3>1. CASE v = new
      BY <2>6, <2>8, <3>1
    <3>2. CASE v # new
      <4>1. v \in DOMAIN short.ref \ short.raw /\ x \in Range(short.ref[v]) \cap DOMAIN short.pos
        BY <1>5, <2>1, <2>6, <3>2
      <4>2. v \in Parents(short, x)
        BY <1>5, <4>1 DEF Sound, Complete
      <4>3. v \in Parents(long, x)
        BY <1>5, <2>6, <4>2 DEF Parents
      <4>4. v = w => x \in Range(long.ref[w])
        OBVIOUS
      <4> QED
        BY <2>9, <4>3, <4>4
    <3> QED
      BY <3>1, <3>2
  <2>11. T.mark \subseteq DOMAIN T.pos
    BY <2>6, <2>9 DEF Sound
  <2>12. Fresh(T)
    BY <2>6, <2>9 DEF Fresh
  <2>14. S.raw = {} => T.raw = {}
    BY <2>6, <2>9 DEF raw
  <2>15. n \in DOMAIN S.idx => n \in DOMAIN T.idx /\ Begins(S.idx[n], T.idx[n])
    BY <1>5, <1>8, <2>6, <2>8 DEF Updated
  <2>16. CutAt(S, T, w, i, tail)
    <3>1. /\ T.pos = S.pos /\ T.ref[w] = s /\ \A v \in DOMAIN S.ref : v # w => T.ref[v] = S.ref[v]
          /\ DOMAIN T.ref = DOMAIN S.ref \cup {S.uwid} /\ S.uwid \notin DOMAIN S.ref /\ T.ref[S.uwid] = tail
      BY <1>5, <2>6, <2>9 DEF new
    <3> QED
      BY <1>7, <1>9, <2>14, <2>15, <3>1 DEF CutAt
  <2> QED
    BY <2>6, <2>9, <2>10, <2>11, <2>12, <2>16 DEF Sound
<1>11. CASE Len(tail) < 2
  <2>1. ~(Len(tail) >= 2)
    BY <1>10, <1>11
  <2>2. CutAt(S, short, w, i, tail)
    BY <1>5, <1>9, <1>11, <2>1 DEF CutAt, Begins
  <2> QED
    BY <1>5, <1>6, <1>11, <2>2
<1> QED
  BY <1>7, <1>11

\* What is logged or faulty does not concern the index.
LEMMA FlagsSound ==
  ASSUME NEW S, Sound(S)
  PROVE  [S EXCEPT !.fault = TRUE] \in SoundData /\ [S EXCEPT !.emerg = TRUE] \in SoundData
<1>1. S \in Data
  BY DEF Sound
<1>2. ASSUME NEW T \in Data, T.pos = S.pos, T.ref = S.ref, T.idx = S.idx, T.mark = S.mark,
             T.unid = S.unid, T.uwid = S.uwid, T.raw = S.raw
      PROVE  T \in SoundData
  BY <1>2 DEF Sound, Fresh, Complete, Parents, SoundData
<1>3. [S EXCEPT !.fault = TRUE] \in SoundData
  <2> DEFINE T == [S EXCEPT !.fault = TRUE]
  <2>1. /\ T \in Data /\ T.pos = S.pos /\ T.ref = S.ref /\ T.idx = S.idx /\ T.mark = S.mark
        /\ T.unid = S.unid /\ T.uwid = S.uwid /\ T.raw = S.raw
    BY <1>1 DEF Data
  <2> HIDE DEF T
  <2> QED
    BY <1>2, <2>1 DEF T
<1>4. [S EXCEPT !.emerg = TRUE] \in SoundData
  <2> DEFINE T == [S EXCEPT !.emerg = TRUE]
  <2>1. /\ T \in Data /\ T.pos = S.pos /\ T.ref = S.ref /\ T.idx = S.idx /\ T.mark = S.mark
        /\ T.unid = S.unid /\ T.uwid = S.uwid /\ T.raw = S.raw
    BY <1>1 DEF Data
  <2> HIDE DEF T
  <2> QED
    BY <1>2, <2>1 DEF T
<1> QED
  BY <1>3, <1>4

SplitStates == [S : SoundData, k : Nat \ {0}]

\* A turn of split keeps the index complete.
LEMMA SplitTurnStays ==
  ASSUME NEW L \in SplitStates, NEW n, NEW rs \in BOOLEAN
  PROVE  SplitTurn(L, n, rs) \in SplitStates
<1> DEFINE S == L.S
           w == S.idx[n][L.k]
           s == S.ref[w]
           i == IndexIn(s, n)
           tail == SubSeq(s, IF rs THEN i + 1 ELSE i, Len(s))
           T == SplitWay(S, w, n, i, tail)
           U == SplitTurn(L, n, rs)
<1>1. Sound(S) /\ S \in Data /\ L.k \in Nat \ {0} /\ L = [S |-> S, k |-> L.k]
  BY DEF SplitStates, SoundData
<1>2. U = IF SplitOver(L, n) THEN L
          ELSE IF IsRel(w) THEN [L EXCEPT !.k = @ + 1]
          ELSE IF Stale(S, w) THEN [L EXCEPT !.S = [S EXCEPT !.fault = TRUE]]
          ELSE IF i = 0 THEN [S |-> [S EXCEPT !.emerg = TRUE], k |-> L.k + 1]
          ELSE IF ~rs /\ i \in {1, Len(s)} THEN [L EXCEPT !.k = @ + 1]
          ELSE [S |-> T, k |-> IF T.n > 0 THEN 2 ELSE L.k + 1]
  BY DEF SplitTurn
<1>3. [S EXCEPT !.fault = TRUE] \in SoundData /\ [S EXCEPT !.emerg = TRUE] \in SoundData
  BY <1>1, FlagsSound
<1>4. L \in SplitStates /\ [L EXCEPT !.k = @ + 1] \in SplitStates
  BY <1>1 DEF SplitStates
<1>5. [L EXCEPT !.S = [S EXCEPT !.fault = TRUE]] \in SplitStates
  <2> DEFINE F == [S EXCEPT !.fault = TRUE]
  <2>1. F \in SoundData
    BY <1>3
  <2> HIDE DEF F
  <2>2. [L EXCEPT !.S = F] \in SplitStates
    BY <2>1 DEF SplitStates
  <2> QED
    BY <2>2 DEF F
<1>6. [S |-> [S EXCEPT !.emerg = TRUE], k |-> L.k + 1] \in SplitStates
  BY <1>1, <1>3 DEF SplitStates
<1>7. ASSUME ~IsRel(w), ~Stale(S, w), i # 0
      PROVE  [S |-> T, k |-> IF T.n > 0 THEN 2 ELSE L.k + 1] \in SplitStates
  <2>1. w \in DOMAIN S.ref
    BY <1>7 DEF Stale
  <2>2. s \in Ids /\ Len(s) \in Nat
    BY <1>1, <2>1, RefIs DEF Ids
  <2>3. i \in 1..Len(s) /\ s[i] = n
    BY <1>7, <2>2, IndexInIs
  <2>4. tail \in Ids /\ Range(tail) \subseteq Range(s)
    <3> DEFINE a == IF rs THEN i + 1 ELSE i
    <3>1. a \in Int /\ a >= 1 /\ Len(s) \in Int /\ Len(s) <= Len(s)
      BY <2>2, <2>3
    <3> HIDE DEF a, s
    <3>2. SubSeq(s, a, Len(s)) \in Seq(Int) /\ Range(SubSeq(s, a, Len(s))) \subseteq Range(s)
      BY <2>2, <3>1, SubSeqIs DEF Ids
    <3> QED
      BY <3>2 DEF a, Ids
  <2> HIDE DEF w, i, tail, S
  <2>5. T = SplitWay(S, w, n, i, tail)
    OBVIOUS
  <2> HIDE DEF T
  <2>6. Sound(T)
    BY <1>1, <2>1, <2>3, <2>4, <2>5, SplitWaySound
  <2>7. T \in SoundData
    BY <2>6 DEF Sound, SoundData
  <2>8. (IF T.n > 0 THEN 2 ELSE L.k + 1) \in Nat \ {0}
    BY <1>1
  <2> QED
    BY <2>7, <2>8 DEF SplitStates
<1> HIDE DEF U, T, w, i, S
<1> QED
  BY <1>2, <1>4, <1>5, <1>6, <1>7 DEF U

\* So does the loop.
LEMMA SplitAtSound ==
  ASSUME NEW S, Sound(S), NEW n, NEW rs \in BOOLEAN
  PROVE  SplitAt(S, n, rs) \in SplitStates
<1> DEFINE b == [S |-> S, k |-> 1]
           Turn(L) == SplitTurn(L, n, rs)
           f == CHOOSE g : g = [i \in 0..MaxTurns |-> IF i = 0 THEN b ELSE Turn(g[i - 1])]
           X == SplitStates
           G == [x \in (1..MaxTurns) \X X |-> Turn(x[2])]
<1>0. MaxTurns \in Nat
  BY NumbersAssumption
<1>1. SplitAt(S, n, rs) = f[MaxTurns]
  BY DEF SplitAt, Loop
<1>2. \A L \in X : Turn(L) \in X
  BY SplitTurnStays
<1>3. b \in X
  BY DEF SplitStates, SoundData, Sound
<1> HIDE DEF Turn, X, b
<1>4. f = [i \in 0..MaxTurns |-> IF i = 0 THEN b ELSE Turn(f[i - 1])]
  <2>1. G \in [(1..MaxTurns) \X X -> X]
    BY <1>2
  <2> HIDE DEF G
  <2>2. \E g : Recursive(g, X, MaxTurns, b, G)
    BY <1>0, <1>3, <2>1, Recursion
  <2>3. PICK g \in [0..MaxTurns -> X] : g[0] = b /\ \A i \in 1..MaxTurns : g[i] = G[<<i, g[i - 1]>>]
    BY <2>2 DEF Recursive
  <2>4. \A i \in 1..MaxTurns : g[i] = Turn(g[i - 1])
    <3> SUFFICES ASSUME NEW i \in 1..MaxTurns
                 PROVE  G[<<i, g[i - 1]>>] = Turn(g[i - 1])
      BY <2>3
    <3>1. <<i, g[i - 1]>> \in (1..MaxTurns) \X X
      BY <1>0, <2>3
    <3> QED
      BY <3>1 DEF G
  <2>5. g = [i \in 0..MaxTurns |-> IF i = 0 THEN b ELSE Turn(g[i - 1])]
    BY <2>3, <2>4
  <2> QED
    BY <2>5
<1> HIDE DEF f
<1>5. f[0] \in X
  BY <1>0, <1>3, <1>4
<1>6. ASSUME NEW i \in 1..MaxTurns, f[i - 1] \in X
      PROVE  f[i] \in X
  <2>1. i \in 0..MaxTurns /\ i # 0
    BY <1>0
  <2>2. f[i] = Turn(f[i - 1])
    BY <1>4, <2>1
  <2> QED
    BY <1>2, <1>6, <2>2
<1>7. \A i \in 0..MaxTurns : f[i] \in X
  BY <1>0, <1>5, <1>6, Within
<1> QED
  BY <1>0, <1>1, <1>7 DEF X

(***************************************************************************)
(* zeroway                                                                 *)
(***************************************************************************)
LEMMA NextRevWayIs ==
  ASSUME NEW list \in Ids, NEW from \in Nat
  PROVE  NextRevWay(list, from) \in {-1, -2} \cup {i \in Nat : i >= from}
<1> DEFINE ways == {i \in from..(Len(list) - 1) : ~IsRel(list[i + 1])}
<1>1. CASE from >= Len(list) \/ ways = {}
  BY <1>1 DEF NextRevWay
<1>2. CASE ~(from >= Len(list)) /\ ways # {}
  <2>1. NextRevWay(list, from) = CHOOSE i \in ways : \A k \in ways : i <= k
    BY <1>2 DEF NextRevWay
  <2>2. ways \in SUBSET Nat /\ \A i \in ways : i >= from
    BY DEF Ids
  <2> HIDE DEF ways
  <2>3. \E i \in ways : \A k \in ways : i <= k
    BY <1>2, <2>2, LeastNatural
  <2>4. NextRevWay(list, from) \in ways
    BY <2>1, <2>3
  <2> QED
    BY <2>2, <2>4
<1> QED
  BY <1>1, <1>2

\* Another list for one node: the ways that are no longer in it are noted.
Dropped(S, x, l) == Range(S.idx[x]) \ Range(l)
WithList(S, x, l) ==
  LET A == [S EXCEPT !.raw = @ \cup Dropped(S, x, l)] IN [A EXCEPT !.idx[x] = l]
LEMMA OtherListSound ==
  ASSUME NEW S, Sound(S), NEW x \in DOMAIN S.idx, NEW l \in Ids, NEW T, T = WithList(S, x, l)
  PROVE  Sound(T) /\ T.pos = S.pos /\ T.ref = S.ref /\ T.unid = S.unid /\ DOMAIN T.idx = DOMAIN S.idx
         /\ T.idx[x] = l
<1> DEFINE raw == S.raw \cup Dropped(S, x, l)
           A == [S EXCEPT !.raw = @ \cup Dropped(S, x, l)]
           idx == [S.idx EXCEPT ![x] = l]
<1>1. S \in Data /\ S.idx \in Fns(Int, Ids) /\ S.raw \subseteq Int
  BY DEF Sound, Data
<1>2. Dropped(S, x, l) \subseteq Int
  <2>1. S.idx[x] \in Seq(Int)
    BY <1>1, FnsIs DEF Ids
  <2>2. Range(S.idx[x]) \subseteq Int
    BY <2>1 DEF Range
  <2> QED
    BY <2>2 DEF Dropped
<1>3. raw \in SUBSET Int /\ A = [S EXCEPT !.raw = raw] /\ Dropped(S, x, l) \subseteq raw /\ S.raw \subseteq raw
  BY <1>1, <1>2 DEF Data
<1>10. T = [A EXCEPT !.idx[x] = l]
  BY DEF WithList
<1> HIDE DEF raw, A
<1>4. /\ A \in Data /\ A.pos = S.pos /\ A.ref = S.ref /\ A.idx = S.idx /\ A.mark = S.mark
      /\ A.unid = S.unid /\ A.uwid = S.uwid /\ A.raw = raw
  BY <1>1, <1>3 DEF Data
<1>5. /\ idx \in Fns(Int, Ids) /\ DOMAIN idx = DOMAIN S.idx /\ idx[x] = l
      /\ \A y \in DOMAIN S.idx : y # x => idx[y] = S.idx[y]
  BY <1>1, ExceptIs
<1>6. T = [A EXCEPT !.idx = idx]
  BY <1>4, <1>10
<1> HIDE DEF idx
<1>7. /\ T \in Data /\ T.idx = idx
      /\ T.pos = S.pos /\ T.ref = S.ref /\ T.mark = S.mark /\ T.unid = S.unid /\ T.uwid = S.uwid
      /\ T.raw = raw
  <2>1. IndexSet(A, T, idx)
    BY <1>4, <1>5, <1>6, SetIndexIs
  <2> QED
    BY <1>4, <2>1 DEF IndexSet
<1>8. \A y : Parents(S, y) \ Parents(T, y) \subseteq raw
  <2> SUFFICES ASSUME NEW y, NEW v \in Parents(S, y) \ Parents(T, y)
               PROVE  v \in raw
    OBVIOUS
  <2>1. y \in DOMAIN S.idx \/ Parents(S, y) = {}
    BY DEF Parents, ListOf, Range
  <2>2. y = x
    BY <1>5, <1>7, <2>1 DEF Parents, ListOf
  <2>3. v \in Range(S.idx[x]) /\ v \notin Range(l)
    BY <1>5, <1>7, <2>2 DEF Parents, ListOf
  <2> QED
    BY <1>3, <2>3 DEF Dropped
<1>9. Complete(T, DOMAIN T.ref \ T.raw)
  <2> SUFFICES ASSUME NEW v \in DOMAIN S.ref \ raw, NEW y \in Range(S.ref[v]) \cap DOMAIN S.pos
               PROVE  v \in Parents(T, y)
    BY <1>7 DEF Complete
  <2>1. v \in Parents(S, y)
    BY <1>3 DEF Sound, Complete
  <2> QED
    BY <1>8, <2>1
<1> QED
  BY <1>5, <1>7, <1>9 DEF Sound, Fresh

ZeroStates(n, list) ==
  {L \in [S : SoundData, j : Nat, node : Int] :
     IF L.node = Wild THEN n \in DOMAIN L.S.pos /\ n \in DOMAIN L.S.idx /\ L.S.idx[n] = list
     ELSE L.node \in DOMAIN L.S.pos /\ L.node \in DOMAIN L.S.idx /\ L.S.idx[L.node] # <<>>}

\* The new node, the way of length zero and their lists.
MadeIs(S, T) ==
  /\ Sound(T) /\ S.unid \in DOMAIN T.pos /\ S.unid \in DOMAIN T.idx /\ T.idx[S.unid] # <<>> /\ S.unid \in Int /\ S.unid # Wild
  /\ \A w \in DOMAIN S.ref : w \in DOMAIN T.ref /\ T.ref[w] = S.ref[w]
LEMMA MadeSound ==
  ASSUME NEW S, Sound(S), NEW n \in DOMAIN S.pos, n \in DOMAIN S.idx,
         NEW new, new = S.unid, NEW way, way = S.uwid,
         NEW T, T = [PutWays(PutNodes(S, <<S.pos[n]>>), << <<n, new>> >>)
                       EXCEPT !.idx = Put(Put(@, n, Append(S.idx[n], way)), new, <<way>>)]
  PROVE  MadeIs(S, T)
<1> DEFINE A == PutNodes(S, <<S.pos[n]>>)
           s == <<n, new>>
           B == PutWays(A, <<s>>)
           l == Append(S.idx[n], way)
           i1 == Put(S.idx, n, l)
           idx == Put(Put(S.idx, n, l), new, <<way>>)
<1>1. /\ S \in Data /\ Fresh(S) /\ new \in Int /\ way \in Int /\ S.idx \in Fns(Int, Ids) /\ S.pos \in Fns(Int, Pos)
      /\ new < 0
  BY DEF Sound, Data, Fresh
<1>2. n \in Int /\ S.pos[n] \in Pos /\ n > new
  BY <1>1, FnsIs DEF Fresh
<1>3. /\ Sound(A) /\ A \in Data /\ Fresh(A) /\ A.unid = new - 1 /\ A.uwid = way
      /\ DOMAIN A.pos = DOMAIN S.pos \cup {new}
      /\ A.ref = S.ref /\ A.idx = S.idx /\ A.raw = S.raw /\ IsFiniteSet(DOMAIN A.ref)
  <2> DEFINE p == S.pos[n]
  <2> HIDE DEF p
  <2>1. <<p>> \in Seq(Pos) /\ Len(<<p>>) = 1
    BY <1>2 DEF p
  <2>2. A = PutNodes(S, <<p>>)
    BY DEF p
  <2> HIDE DEF A
  <2>3. Sound(A)
    BY <2>1, <2>2, PutNodesSound
  <2>4. /\ A.unid = S.unid - Len(<<p>>) /\ DOMAIN A.pos = DOMAIN S.pos \cup (A.unid + 1)..S.unid
        /\ A.ref = S.ref /\ A.idx = S.idx /\ A.uwid = S.uwid /\ A.raw = S.raw
    BY <1>1, <2>1, <2>2, PutNodesIs
  <2>5. A.unid = new - 1 /\ (A.unid + 1)..S.unid = {new}
    BY <1>1, <2>1, <2>4
  <2> QED
    BY <2>3, <2>4, <2>5 DEF Sound
<1>10. B = PutWays(A, <<s>>)
  OBVIOUS
<1>11. T = [B EXCEPT !.idx = Put(Put(@, n, l), new, <<way>>)]
  OBVIOUS
<1> HIDE DEF A, B
<1>4. s \in Ids /\ Range(s) = {n, new}
  <2>1. s \in Ids
    BY <1>1, <1>2 DEF Ids
  <2>2. DOMAIN s = {1, 2} /\ s[1] = n /\ s[2] = new
    OBVIOUS
  <2> HIDE DEF s
  <2>3. Range(s) = {n, new}
    BY <2>2 DEF Range
  <2> QED
    BY <2>1, <2>3
<1> HIDE DEF s
<1>5. /\ B \in Data /\ Fresh(B)
      /\ DOMAIN B.ref = DOMAIN S.ref \cup {way} /\ way \notin DOMAIN S.ref
      /\ \A w \in DOMAIN S.ref : B.ref[w] = S.ref[w]
      /\ B.ref[way] = s /\ IsFiniteSet(DOMAIN B.ref)
      /\ B.pos = A.pos /\ B.idx = S.idx /\ B.mark = A.mark /\ B.raw = S.raw
  <2>1. \A x \in Range(s) : x > A.unid
    BY <1>1, <1>2, <1>3, <1>4
  <2>2. OneWayPut(A, B, s)
    BY <1>3, <1>4, <1>10, <2>1, PutWayIs
  <2> QED
    BY <1>3, <2>2 DEF OneWayPut
<1>6. l \in Ids /\ Range(l) = Range(S.idx[n]) \cup {way}
  <2>1. S.idx[n] \in Seq(Int)
    BY <1>1, FnsIs DEF Ids
  <2> QED
    BY <1>1, <2>1, AppendIs DEF Ids
<1> HIDE DEF l
<1>7. /\ idx \in Fns(Int, Ids) /\ DOMAIN idx = DOMAIN S.idx \cup {new} /\ idx[new] = <<way>> /\ idx[n] = l
      /\ \A y \in DOMAIN S.idx : y # n /\ y # new => idx[y] = S.idx[y]
  <2>1. /\ i1 \in Fns(Int, Ids) /\ DOMAIN i1 = DOMAIN S.idx \cup {n}
        /\ i1[n] = l /\ \A x \in DOMAIN S.idx : x # n => i1[x] = S.idx[x]
    <3>1. i1 = Put(S.idx, n, l)
      OBVIOUS
    <3> HIDE DEF i1
    <3>2. IsPut(S.idx, i1, n, l)
      BY <1>1, <1>2, <1>6, <3>1, PutIs
    <3> QED
      BY <3>2 DEF IsPut
  <2>5. idx = Put(i1, new, <<way>>)
    OBVIOUS
  <2> HIDE DEF i1, idx
  <2>2. <<way>> \in Ids
    BY <1>1 DEF Ids
  <2>3. /\ idx \in Fns(Int, Ids) /\ DOMAIN idx = DOMAIN i1 \cup {new}
        /\ idx[new] = <<way>> /\ \A x \in DOMAIN i1 : x # new => idx[x] = i1[x]
    <3>1. idx = Put(i1, new, <<way>>)
      BY <2>5
    <3> HIDE DEF idx
    <3>2. IsPut(i1, idx, new, <<way>>)
      BY <1>1, <2>1, <2>2, <3>1, PutIs
    <3> QED
      BY <3>2 DEF IsPut
  <2>4. n # new
    BY <1>1, <1>2
  <2> QED
    BY <2>1, <2>3, <2>4
<1>8. T = [B EXCEPT !.idx = idx]
  BY <1>5, <1>11
<1> HIDE DEF idx
<1>9. /\ T \in Data /\ T.idx = idx
      /\ T.pos = B.pos /\ T.ref = B.ref /\ T.mark = B.mark /\ T.unid = B.unid /\ T.uwid = B.uwid
      /\ T.raw = B.raw
  <2>1. IndexSet(B, T, idx)
    BY <1>5, <1>7, <1>8, SetIndexIs
  <2> QED
    BY <2>1 DEF IndexSet
<1>12. way \in Parents(T, n) /\ way \in Parents(T, new)
  <2>1. Range(<<way>>) = {way}
    BY DEF Range
  <2> QED
    BY <1>6, <1>7, <1>9, <2>1 DEF Parents, ListOf
<1>13. \A y : y # new => Parents(S, y) \subseteq Parents(T, y)
  BY <1>6, <1>7, <1>9 DEF Parents, ListOf
<1>14. Complete(T, DOMAIN T.ref \ T.raw)
  <2> SUFFICES ASSUME NEW v \in DOMAIN B.ref \ B.raw, NEW x \in Range(B.ref[v]) \cap DOMAIN A.pos
               PROVE  v \in Parents(T, x)
    BY <1>5, <1>9 DEF Complete
  <2>1. CASE v = way
    BY <1>4, <1>5, <1>12, <2>1
  <2>2. CASE v # way
    <3>1. v \in DOMAIN S.ref \ S.raw /\ x \in Range(S.ref[v])
      BY <1>5, <2>2
    <3>2. x > new
      BY <1>1, <3>1 DEF Fresh
    <3>3. x # new
      BY <1>1, <3>2
    <3>4. x \in DOMAIN S.pos
      BY <1>3, <3>3
    <3>5. v \in Parents(S, x)
      BY <3>1, <3>4 DEF Sound, Complete
    <3> QED
      BY <1>13, <3>3, <3>5
  <2> QED
    BY <2>1, <2>2
<1>15. Sound(T)
  <2>1. T.mark \subseteq DOMAIN T.pos
    BY <1>3, <1>5, <1>9 DEF Sound
  <2>2. Fresh(T)
    BY <1>5, <1>9 DEF Fresh
  <2> QED
    BY <1>5, <1>9, <1>14, <2>1, <2>2 DEF Sound
<1>16. new # Wild
  BY <1>1 DEF Wild
<1>17. T.idx[new] # <<>>
  <2> DEFINE e == <<way>>
  <2>1. e # <<>>
    OBVIOUS
  <2>2. T.idx[new] = e
    BY <1>7, <1>9
  <2> HIDE DEF e
  <2> QED
    BY <2>1, <2>2
<1> QED
  BY <1>1, <1>3, <1>5, <1>7, <1>9, <1>15, <1>16, <1>17 DEF MadeIs

SameNodes(S, T) == T.pos = S.pos /\ DOMAIN T.idx = DOMAIN S.idx
\* The node in way w is replaced, and the list of the new one gets the way.
LEMMA ConnectSound ==
  ASSUME NEW S, Sound(S), NEW w \in DOMAIN S.ref, NEW rev \in DOMAIN S.ref[w],
         NEW nd \in DOMAIN S.pos, nd \in DOMAIN S.idx, S.idx[nd] # <<>>,
         NEW T, T = Connect(S, w, rev, nd)
  PROVE  Sound(T) /\ SameNodes(S, T) /\ T.idx[nd] # <<>>
<1> DEFINE l == <<S.idx[nd][1], w>>
           U == WithList(S, nd, l)
           s == ReplaceAt(S.ref[w], rev, nd)
<1>1. S \in Data /\ w \in Int /\ S.ref[w] \in Ids /\ nd \in Int
  <2>1. S \in Data
    BY DEF Sound
  <2>2. S.pos \in Fns(Int, Pos)
    BY <2>1 DEF Data
  <2>3. nd \in Int
    BY <2>2, FnsIs
  <2> QED
    BY <2>1, <2>3, RefIs
<1>2. s \in Ids /\ Range(s) \subseteq Range(S.ref[w]) \cup {nd}
  <2> DEFINE o == S.ref[w]
  <2>1. s = [o EXCEPT ![rev] = nd] /\ o \in Seq(Int) /\ rev \in DOMAIN o
    BY <1>1 DEF ReplaceAt, Ids
  <2> HIDE DEF o
  <2>2. s \in Seq(Int) /\ DOMAIN s = DOMAIN o /\ \A i \in DOMAIN s : s[i] = nd \/ s[i] = o[i]
    BY <1>1, <2>1
  <2> HIDE DEF s
  <2>3. \A x \in Range(s) : x = nd \/ x \in Range(o)
    BY <2>2 DEF Range
  <2> QED
    BY <2>2, <2>3 DEF o, Ids
<1> HIDE DEF s
<1>3. l \in Ids /\ l # <<>> /\ w \in Range(l)
  <2>1. S.idx \in Fns(Int, Ids)
    BY <1>1 DEF Data
  <2>2. S.idx[nd] \in Seq(Int)
    BY <2>1, FnsIs DEF Ids
  <2>3. S.idx[nd][1] \in Int
    BY <2>2
  <2> DEFINE e == S.idx[nd][1]
  <2>4. e \in Int /\ l = <<e, w>>
    BY <2>3
  <2> HIDE DEF e, l
  <2>5. l \in Ids /\ l # <<>> /\ DOMAIN l = {1, 2} /\ l[2] = w
    BY <1>1, <2>4 DEF Ids
  <2> QED
    BY <2>5 DEF Range
<1>4. T = [U EXCEPT !.ref[w] = s]
  BY <1>1 DEF Data, Connect, WithList, Dropped, s
<1>5. U = WithList(S, nd, l)
  OBVIOUS
<1> HIDE DEF U, l
<1>6. Sound(U) /\ U.pos = S.pos /\ U.ref = S.ref /\ U.unid = S.unid /\ DOMAIN U.idx = DOMAIN S.idx /\ U.idx[nd] = l
  BY <1>3, <1>5, OtherListSound
<1>7. w \in Parents(U, nd)
  BY <1>3, <1>6 DEF Parents, ListOf
<1>8. \A x \in Range(s) : x > U.unid
  BY <1>2, <1>6 DEF Sound, Fresh
<1>9. w \in U.raw \/ \A x \in Range(s) \cap DOMAIN U.pos : w \in Parents(U, x)
  BY <1>2, <1>6, <1>7 DEF Sound, Complete
<1>10. Sound(T)
  BY <1>2, <1>4, <1>6, <1>8, <1>9, SetWaySound
<1>11. Replaced(U, T, w, s)
  BY <1>2, <1>4, <1>6, <1>8, SetWayIs DEF Sound
<1> QED
  BY <1>3, <1>6, <1>10, <1>11 DEF Replaced, SameNodes

\* A turn of zeroway keeps the index complete.
LEMMA ZeroTurnStays ==
  ASSUME NEW n, NEW list \in Ids, NEW cnt \in Nat, NEW L \in ZeroStates(n, list)
  PROVE  ZeroTurn(L, n, list, cnt) \in ZeroStates(n, list)
<1> DEFINE S == L.S
           f == NextRevWay(list, cnt + L.j)
           off == f - cnt
           found == list[f + 1]
           w == list[off + 1]
           rev == FirstOrLast(S.ref[found], n)
           new == S.unid
           Made == [PutWays(PutNodes(S, <<S.pos[n]>>), << <<n, new>> >>)
                      EXCEPT !.idx = Put(Put(@, n, Append(list, S.uwid)), new, <<S.uwid>>)]
           T == IF L.node = Wild THEN Made ELSE S
           nd == IF L.node = Wild THEN new ELSE L.node
           V == Connect(T, w, rev, nd)
           F == [S EXCEPT !.fault = TRUE]
           U == ZeroTurn(L, n, list, cnt)
<1>1. /\ Sound(S) /\ S \in Data /\ L.j \in Nat /\ L.node \in Int
      /\ L = [S |-> S, j |-> L.j, node |-> L.node]
  BY DEF ZeroStates, SoundData
<1>2. U = IF ZeroOver(L, list, cnt) THEN L
          ELSE IF f = -2 THEN [L EXCEPT !.S = F]
          ELSE IF Stale(S, found) \/ IsRel(w) \/ Stale(S, w) THEN [L EXCEPT !.S = F]
          ELSE IF rev \notin DOMAIN S.ref[w] THEN [L EXCEPT !.S = F]
          ELSE [S |-> V, j |-> off + 1, node |-> nd]
  BY DEF ZeroTurn
<1>3. [L EXCEPT !.S = F] \in ZeroStates(n, list)
  <2>1. F \in SoundData
    BY <1>1, FlagsSound
  <2>2. F.pos = S.pos /\ F.idx = S.idx
    BY <1>1 DEF Data
  <2> HIDE DEF F
  <2>3. [L EXCEPT !.S = F] = [S |-> F, j |-> L.j, node |-> L.node]
    BY <1>1
  <2> QED
    BY <1>1, <2>1, <2>2, <2>3 DEF ZeroStates
<1>4. ASSUME f # -1, f # -2, ~IsRel(w), ~Stale(S, w), rev \in DOMAIN S.ref[w]
      PROVE  [S |-> V, j |-> off + 1, node |-> nd] \in ZeroStates(n, list)
  <2>1. w \in DOMAIN S.ref
    BY <1>4 DEF Stale
  <2>2. off + 1 \in Nat
    <3>1. cnt + L.j \in Nat
      BY <1>1
    <3>2. f \in {-1, -2} \cup {i \in Nat : i >= cnt + L.j}
      BY <3>1, NextRevWayIs
    <3> HIDE DEF f
    <3> QED
      BY <1>1, <1>4, <3>2
  <2>3. /\ Sound(T) /\ nd \in DOMAIN T.pos /\ nd \in DOMAIN T.idx /\ T.idx[nd] # <<>> /\ nd \in Int /\ nd # Wild
        /\ w \in DOMAIN T.ref /\ T.ref[w] = S.ref[w]
    <3>1. CASE L.node = Wild
      <4>1. n \in DOMAIN S.pos /\ n \in DOMAIN S.idx /\ S.idx[n] = list
        BY <3>1 DEF ZeroStates
      <4>2. T = Made /\ nd = new
        BY <3>1
      <4>3. Made = [PutWays(PutNodes(S, <<S.pos[n]>>), << <<n, new>> >>)
                      EXCEPT !.idx = Put(Put(@, n, Append(S.idx[n], S.uwid)), new, <<S.uwid>>)]
        BY <4>1
      <4> HIDE DEF Made, T, nd, S, w
      <4>4. MadeIs(S, Made)
        BY <1>1, <4>1, <4>3, MadeSound
      <4> QED
        BY <2>1, <4>2, <4>4 DEF MadeIs
    <3>2. CASE L.node # Wild
      BY <1>1, <2>1, <3>2 DEF ZeroStates
    <3> QED
      BY <3>1, <3>2
  <2>4. rev \in DOMAIN T.ref[w]
    BY <1>4, <2>3
  <2>5. V = Connect(T, w, rev, nd)
    OBVIOUS
  <2> HIDE DEF V, T, nd, rev, w, off
  <2>6. Sound(V) /\ SameNodes(T, V) /\ V.idx[nd] # <<>>
    BY <2>3, <2>4, <2>5, ConnectSound
  <2>7. V \in SoundData
    BY <2>6 DEF Sound, SoundData
  <2> QED
    BY <2>2, <2>3, <2>6, <2>7 DEF ZeroStates, SameNodes
<1>5. ~ZeroOver(L, list, cnt) => f # -1
  BY DEF ZeroOver
<1> HIDE DEF U, V, nd, rev, w, off, found, F, f
<1> QED
  BY <1>2, <1>3, <1>4, <1>5 DEF U

LEMMA ZeroAtSound ==
  ASSUME NEW S, Sound(S), NEW n \in DOMAIN S.pos, n \in DOMAIN S.idx, NextRevWay(S.idx[n], 0) >= 0
  PROVE  ZeroAt(S, n) \in ZeroStates(n, S.idx[n])
<1> DEFINE b == [S |-> S, j |-> 1, node |-> Wild]
           Turn(L) == ZeroTurn(L, n, S.idx[n], NextRevWay(S.idx[n], 0))
           f == CHOOSE g : g = [i \in 0..MaxTurns |-> IF i = 0 THEN b ELSE Turn(g[i - 1])]
           X == ZeroStates(n, S.idx[n])
           G == [x \in (1..MaxTurns) \X X |-> Turn(x[2])]
<1>8. S.idx[n] \in Ids /\ NextRevWay(S.idx[n], 0) \in Nat /\ Sound(S)
  <2>1. S.idx \in Fns(Int, Ids)
    BY DEF Sound, Data
  <2>2. S.idx[n] \in Ids
    BY <2>1, FnsIs
  <2> QED
    BY <2>2, NextRevWayIs
<1>0. MaxTurns \in Nat
  BY NumbersAssumption
<1>1. ZeroAt(S, n) = f[MaxTurns]
  BY DEF ZeroAt, Loop
<1>2. \A L \in X : Turn(L) \in X
  BY <1>8, ZeroTurnStays
<1>3. b \in X
  BY <1>8 DEF ZeroStates, SoundData, Sound, Wild
<1> HIDE DEF Turn, X, b
<1>4. f = [i \in 0..MaxTurns |-> IF i = 0 THEN b ELSE Turn(f[i - 1])]
  <2>1. G \in [(1..MaxTurns) \X X -> X]
    BY <1>2
  <2> HIDE DEF G
  <2>2. \E g : Recursive(g, X, MaxTurns, b, G)
    BY <1>0, <1>3, <2>1, Recursion
  <2>3. PICK g \in [0..MaxTurns -> X] : g[0] = b /\ \A i \in 1..MaxTurns : g[i] = G[<<i, g[i - 1]>>]
    BY <2>2 DEF Recursive
  <2>4. \A i \in 1..MaxTurns : g[i] = Turn(g[i - 1])
    <3> SUFFICES ASSUME NEW i \in 1..MaxTurns
                 PROVE  G[<<i, g[i - 1]>>] = Turn(g[i - 1])
      BY <2>3
    <3>1. <<i, g[i - 1]>> \in (1..MaxTurns) \X X
      BY <1>0, <2>3
    <3> QED
      BY <3>1 DEF G
  <2>5. g = [i \in 0..MaxTurns |-> IF i = 0 THEN b ELSE Turn(g[i - 1])]
    BY <2>3, <2>4
  <2> QED
    BY <2>5
<1> HIDE DEF f
<1>5. f[0] \in X
  BY <1>0, <1>3, <1>4
<1>6. ASSUME NEW i \in 1..MaxTurns, f[i - 1] \in X
      PROVE  f[i] \in X
  <2>1. i \in 0..MaxTurns /\ i # 0
    BY <1>0
  <2>2. f[i] = Turn(f[i - 1])
    BY <1>4, <2>1
  <2> QED
    BY <1>2, <1>6, <2>2
<1>7. \A i \in 0..MaxTurns : f[i] \in X
  BY <1>0, <1>5, <1>6, Within
<1> QED
  BY <1>0, <1>1, <1>7 DEF X

(***************************************************************************)
(* New nodes along a way                                                   *)
(***************************************************************************)
LEMMA SmallIs ==
  /\ \A i \in Int : AbsInt(i) \in Nat /\ Sgn(i) \in {-1, 0, 1} /\ (i # 0 => AbsInt(i) > 0)
  /\ \A i, j \in Int : Lesser(i, j) \in {i, j}
BY DEF AbsInt, Sgn, Lesser

LEMMA DiffIs ==
  ASSUME NEW a \in Pos, NEW b \in Pos
  PROVE  Diff(a, b) \in Nat
<1>1. a[1] \in Int /\ a[2] \in Int /\ b[1] \in Int /\ b[2] \in Int
  BY DEF Pos
<1>2. a[1] - b[1] \in Int /\ a[2] - b[2] \in Int
  BY <1>1
<1>3. AbsInt(a[1] - b[1]) \in Nat /\ AbsInt(a[2] - b[2]) \in Nat
  BY <1>2, SmallIs
<1> QED
  BY <1>3 DEF Diff

LEMMA TowardIs ==
  ASSUME NEW a \in Pos, NEW b \in Pos, NEW dist \in Int
  PROVE  Toward(a, b, dist) \in Pos
<1> DEFINE x == b[1] - a[1]
           y == b[2] - a[2]
           lat == Lesser(dist, AbsInt(x))
           sx == Sgn(x)
           sy == Sgn(y)
<1>1. a[1] \in Int /\ a[2] \in Int /\ x \in Int /\ y \in Int
  BY DEF Pos
<1>2. Toward(a, b, dist) = <<a[1] + lat * sx, a[2] + (dist - lat) * sy>>
  BY DEF Toward
<1> HIDE DEF x, y
<1>3. lat \in Int /\ sx \in Int /\ sy \in Int
  BY <1>1, SmallIs
<1> HIDE DEF lat, sx, sy
<1>4. a[1] + lat * sx \in Int /\ a[2] + (dist - lat) * sy \in Int
  BY <1>1, <1>3
<1> QED
  BY <1>2, <1>4 DEF Pos

LEMMA PosIs ==
  ASSUME NEW S \in Data, NEW n \in DOMAIN S.pos
  PROVE  n \in Int /\ S.pos[n] \in Pos
<1>1. S.pos \in Fns(Int, Pos)
  BY DEF Data
<1> QED
  BY <1>1, FnsIs

\* T is S with one new node, which is at index at of way w.
Inserted(S, T, w) == Sound(T) /\ DOMAIN T.ref = DOMAIN S.ref
LEMMA InsertOneSound ==
  ASSUME NEW S, Sound(S), NEW w \in DOMAIN S.ref, NEW p \in Pos, NEW at \in Int, at >= 1, at <= Len(S.ref[w]) + 1,
         NEW T, T = InsertRefs(PutNodes(S, <<p>>), w, <<S.unid>>, at)
  PROVE  Inserted(S, T, w)
<1> DEFINE A == PutNodes(S, <<p>>)
<1>1. S \in Data /\ Fresh(S) /\ S.unid \in Int
  BY DEF Sound, Data
<1>2. T = InsertRefs(A, w, <<S.unid>>, at) /\ A = PutNodes(S, <<p>>)
  OBVIOUS
<1> HIDE DEF A
<1>3. <<p>> \in Seq(Pos) /\ Len(<<p>>) = 1
  OBVIOUS
<1>4. Sound(A) /\ A.unid = S.unid - 1 /\ A.ref = S.ref
  <2>1. Sound(A)
    BY <1>2, <1>3, PutNodesSound
  <2>2. A.unid = S.unid - Len(<<p>>) /\ A.ref = S.ref
    BY <1>1, <1>2, <1>3, PutNodesIs
  <2> QED
    BY <1>3, <2>1, <2>2
<1>5. <<S.unid>> \in Ids /\ \A n \in Range(<<S.unid>>) : n > A.unid
  <2>1. Range(<<S.unid>>) = {S.unid} /\ <<S.unid>> \in Ids
    BY <1>1 DEF Range, Ids
  <2> QED
    BY <1>1, <1>4, <2>1
<1>6. RefsPut(A, T, w, <<S.unid>>, at)
  BY <1>2, <1>4, <1>5, InsertRefsSound
<1> QED
  BY <1>4, <1>6 DEF Inserted, RefsPut

EqdistStates(w) == {L \in [S : SoundData, at : Pos, i : Nat \ {0}, left : Int] : w \in DOMAIN L.S.ref}

\* A turn of ins_eqdist keeps the index complete.
LEMMA EqdistTurnStays ==
  ASSUME NEW w, NEW dist \in Int, NEW L \in EqdistStates(w)
  PROVE  EqdistTurn(L, w, dist) \in EqdistStates(w)
<1> DEFINE S == L.S
           s == S.ref[w]
           to == S.pos[s[L.i]]
           p == Toward(L.at, to, L.left)
           T == InsertRefs(PutNodes(S, <<p>>), w, <<S.unid>>, L.i)
           U == EqdistTurn(L, w, dist)
<1>1. /\ Sound(S) /\ S \in Data /\ w \in DOMAIN S.ref
      /\ L.at \in Pos /\ L.i \in Nat \ {0} /\ L.left \in Int
      /\ L = [S |-> S, at |-> L.at, i |-> L.i, left |-> L.left]
  BY DEF EqdistStates, SoundData
<1>2. U = IF L.i > Len(s) THEN L
          ELSE IF s[L.i] \notin DOMAIN S.pos THEN [L EXCEPT !.i = @ + 1]
          ELSE IF Diff(L.at, to) > L.left THEN [S |-> T, at |-> p, i |-> L.i + 1, left |-> dist]
          ELSE [S |-> S, at |-> to, i |-> L.i + 1, left |-> L.left - Diff(L.at, to)]
  BY DEF EqdistTurn
<1>3. [L EXCEPT !.i = @ + 1] \in EqdistStates(w)
  <2>1. [L EXCEPT !.i = @ + 1] = [S |-> S, at |-> L.at, i |-> L.i + 1, left |-> L.left]
    BY <1>1
  <2>2. L.i + 1 \in Nat \ {0} /\ S \in SoundData
    BY <1>1 DEF SoundData
  <2> QED
    BY <1>1, <2>1, <2>2 DEF EqdistStates
<1>4. ASSUME ~(L.i > Len(s)), s[L.i] \in DOMAIN S.pos
      PROVE  /\ [S |-> T, at |-> p, i |-> L.i + 1, left |-> dist] \in EqdistStates(w)
             /\ [S |-> S, at |-> to, i |-> L.i + 1, left |-> L.left - Diff(L.at, to)] \in EqdistStates(w)
  <2>1. L.i \in Int /\ L.i >= 1 /\ L.i + 1 \in Nat \ {0}
    BY <1>1
  <2>2. L.i <= Len(s) + 1
    <3>1. Len(s) \in Nat
      BY <1>1, RefIs DEF Ids
    <3> QED
      BY <1>1, <1>4, <3>1
  <2>3. to \in Pos
    BY <1>1, <1>4, PosIs
  <2>4. p \in Pos
    BY <1>1, <2>3, TowardIs
  <2>5. L.left - Diff(L.at, to) \in Int
    <3>1. Diff(L.at, to) \in Nat
      BY <1>1, <2>3, DiffIs
    <3> QED
      BY <1>1, <3>1
  <2>6. T = InsertRefs(PutNodes(S, <<p>>), w, <<S.unid>>, L.i)
    OBVIOUS
  <2> HIDE DEF T, p, to
  <2>7. Inserted(S, T, w)
    BY <1>1, <2>1, <2>2, <2>4, <2>6, InsertOneSound
  <2>8. T \in SoundData /\ S \in SoundData /\ w \in DOMAIN T.ref
    BY <1>1, <2>7 DEF Inserted, Sound, SoundData
  <2> QED
    BY <1>1, <2>1, <2>3, <2>4, <2>5, <2>8 DEF EqdistStates
<1> HIDE DEF U, T, p, to, s, S
<1> QED
  BY <1>2, <1>3, <1>4 DEF U

LEMMA EqdistFromSound ==
  ASSUME NEW S, Sound(S), NEW w \in DOMAIN S.ref, NEW dist \in Int, NEW j \in Nat, S.ref[w][j] \in DOMAIN S.pos
  PROVE  EqdistFrom(S, w, dist, j) \in EqdistStates(w)
<1> DEFINE b == [S |-> S, at |-> S.pos[S.ref[w][j]], i |-> j + 1, left |-> dist]
           Turn(L) == EqdistTurn(L, w, dist)
           f == CHOOSE g : g = [i \in 0..MaxTurns |-> IF i = 0 THEN b ELSE Turn(g[i - 1])]
           X == EqdistStates(w)
           G == [x \in (1..MaxTurns) \X X |-> Turn(x[2])]
<1>0. MaxTurns \in Nat
  BY NumbersAssumption
<1>1. EqdistFrom(S, w, dist, j) = f[MaxTurns]
  BY DEF EqdistFrom, Loop
<1>2. \A L \in X : Turn(L) \in X
  BY EqdistTurnStays
<1>3. b \in X
  <2>1. S.pos[S.ref[w][j]] \in Pos /\ j + 1 \in Nat \ {0} /\ S \in SoundData
    BY PosIs DEF Sound, SoundData
  <2> QED
    BY <2>1 DEF EqdistStates
<1> HIDE DEF Turn, X, b
<1>4. f = [i \in 0..MaxTurns |-> IF i = 0 THEN b ELSE Turn(f[i - 1])]
  <2>1. G \in [(1..MaxTurns) \X X -> X]
    BY <1>2
  <2> HIDE DEF G
  <2>2. \E g : Recursive(g, X, MaxTurns, b, G)
    BY <1>0, <1>3, <2>1, Recursion
  <2>3. PICK g \in [0..MaxTurns -> X] : g[0] = b /\ \A i \in 1..MaxTurns : g[i] = G[<<i, g[i - 1]>>]
    BY <2>2 DEF Recursive
  <2>4. \A i \in 1..MaxTurns : g[i] = Turn(g[i - 1])
    <3> SUFFICES ASSUME NEW i \in 1..MaxTurns
                 PROVE  G[<<i, g[i - 1]>>] = Turn(g[i - 1])
      BY <2>3
    <3>1. <<i, g[i - 1]>> \in (1..MaxTurns) \X X
      BY <1>0, <2>3
    <3> QED
      BY <3>1 DEF G
  <2>5. g = [i \in 0..MaxTurns |-> IF i = 0 THEN b ELSE Turn(g[i - 1])]
    BY <2>3, <2>4
  <2> QED
    BY <2>5
<1> HIDE DEF f
<1>5. f[0] \in X
  BY <1>0, <1>3, <1>4
<1>6. ASSUME NEW i \in 1..MaxTurns, f[i - 1] \in X
      PROVE  f[i] \in X
  <2>1. i \in 0..MaxTurns /\ i # 0
    BY <1>0
  <2>2. f[i] = Turn(f[i - 1])
    BY <1>4, <2>1
  <2> QED
    BY <1>2, <1>6, <2>2
<1>7. \A i \in 0..MaxTurns : f[i] \in X
  BY <1>0, <1>5, <1>6, Within
<1> QED
  BY <1>0, <1>1, <1>7 DEF X

(***************************************************************************)
(* wrapdetect                                                              *)
(***************************************************************************)
LEMMA SeamIs ==
  ASSUME Meridian \in Int, NEW a \in Pos, NEW b \in Pos
  PROVE  /\ Seam(a, b) \in Seq(Pos) /\ Len(Seam(a, b)) = 2
         /\ Seam(a, b)[1][2] = (IF b[2] > a[2] THEN -Meridian ELSE Meridian)
         /\ Seam(a, b)[2][2] = -(IF b[2] > a[2] THEN -Meridian ELSE Meridian)
<1> DEFINE side == IF b[2] > a[2] THEN -Meridian ELSE Meridian
           c == <<b[1], IF b[2] > a[2] THEN b[2] - 2 * Meridian ELSE b[2] + 2 * Meridian>>
           lat == LatAt(a, c, side)
           dx == c[2] - a[2]
           num == (side - a[2]) * (c[1] - a[1]) * Sgn(dx)
<1>1. a[1] \in Int /\ a[2] \in Int /\ b[1] \in Int /\ b[2] \in Int
  BY DEF Pos
<1>2. side \in Int /\ -side \in Int /\ c[1] \in Int /\ c[2] \in Int
  BY <1>1
<1>3. Seam(a, b) = << <<lat, side>>, <<lat, -side>> >>
  BY DEF Seam
<1> HIDE DEF side, c
<1>4. lat = IF dx = 0 THEN c[1] ELSE a[1] + num \div AbsInt(dx)
  BY DEF LatAt
<1>5. dx \in Int
  BY <1>1, <1>2
<1> HIDE DEF dx, lat
<1>6. num \in Int
  <2>1. Sgn(dx) \in Int
    BY <1>5, SmallIs
  <2> DEFINE g == Sgn(dx)
             x == side - a[2]
             y == c[1] - a[1]
  <2>2. x \in Int /\ y \in Int /\ g \in Int
    BY <1>1, <1>2, <2>1
  <2> HIDE DEF x, y, g
  <2>3. x * y \in Int
    BY <2>2
  <2>4. (x * y) * g \in Int
    BY <2>2, <2>3
  <2> QED
    BY <2>4 DEF x, y, g
<1> HIDE DEF num
<1>7. lat \in Int
  <2>1. CASE dx = 0
    BY <1>2, <1>4, <2>1
  <2>2. CASE dx # 0
    <3>1. AbsInt(dx) \in Nat /\ AbsInt(dx) > 0
      BY <1>5, <2>2, SmallIs
    <3> DEFINE d == AbsInt(dx)
    <3> HIDE DEF d
    <3>2. num \div d \in Int
      BY <1>6, <3>1 DEF d
    <3> QED
      BY <1>1, <1>4, <2>2, <3>2 DEF d
  <2> QED
    BY <2>1, <2>2
<1>8. <<lat, side>> \in Pos /\ <<lat, -side>> \in Pos
  BY <1>2, <1>7 DEF Pos
<1>9. Seam(a, b)[1][2] = side /\ Seam(a, b)[2][2] = -side
  BY <1>3
<1> QED
  BY <1>3, <1>8, <1>9 DEF side

LEMMA WrapNextIs ==
  ASSUME NEW S \in Data, NEW w \in DOMAIN S.ref, NEW i \in Nat \ {0}, WrapNext(S, w, i) # 0
  PROVE  /\ WrapNext(S, w, i) \in Nat /\ WrapNext(S, w, i) >= i /\ WrapNext(S, w, i) <= Len(S.ref[w])
         /\ S.ref[w][WrapNext(S, w, i)] \in DOMAIN S.pos
<1> DEFINE s == S.ref[w]
           I == {k \in i..Len(s) : s[k] \in DOMAIN S.pos}
<1>1. WrapNext(S, w, i) = IF I # {} THEN Min(I) ELSE 0
  BY DEF WrapNext, SelectInSubSeq
<1>2. Len(s) \in Nat
  BY RefIs DEF Ids
<1>3. I \in SUBSET Nat
  BY <1>2
<1>4. Min(I) \in I
  <2>1. I # {}
    BY <1>1
  <2> HIDE DEF I
  <2> QED
    BY <1>3, <2>1, MinIs
<1>5. WrapNext(S, w, i) \in I
  BY <1>1, <1>4
<1> QED
  BY <1>2, <1>5

\* A node is marked.
Marked(S, T, n) ==
  Sound(T) /\ T.pos = S.pos /\ T.ref = S.ref /\ T.unid = S.unid /\ T.mark = S.mark \cup {n}
LEMMA MarkSound ==
  ASSUME NEW S, Sound(S), NEW n \in DOMAIN S.pos, NEW T, T = [S EXCEPT !.mark = @ \cup {n}]
  PROVE  Marked(S, T, n)
<1>1. S \in Data /\ n \in Int /\ S.mark \subseteq DOMAIN S.pos
  BY PosIs DEF Sound
<1> DEFINE mark == S.mark \cup {n}
<1>2. mark \in SUBSET Int /\ mark \subseteq DOMAIN S.pos /\ T = [S EXCEPT !.mark = mark]
  BY <1>1 DEF Data
<1> HIDE DEF mark
<1>3. /\ T \in Data /\ T.pos = S.pos /\ T.ref = S.ref /\ T.idx = S.idx /\ T.mark = mark
      /\ T.unid = S.unid /\ T.uwid = S.uwid /\ T.raw = S.raw
  BY <1>1, <1>2 DEF Data
<1> QED
  BY <1>2, <1>3 DEF Sound, Fresh, Complete, Parents, Marked, mark

\* The two nodes at the seam, of which the first one is marked, come into the way.
SeamPut(S, T, w, ps, at) ==
  /\ Sound(T) /\ DOMAIN T.ref = DOMAIN S.ref /\ T.unid = S.unid - 2
  /\ {S.unid, S.unid - 1} \cup DOMAIN S.pos \subseteq DOMAIN T.pos
  /\ \A n \in DOMAIN S.pos : T.pos[n] = S.pos[n]
  /\ T.pos[S.unid] = ps[1] /\ T.pos[S.unid - 1] = ps[2]
  /\ T.mark = S.mark \cup {S.unid}
  /\ T.ref[w] = SubSeq(S.ref[w], 1, at - 1) \o <<S.unid, S.unid - 1>> \o SubSeq(S.ref[w], at, Len(S.ref[w]))
LEMMA SeamSound ==
  ASSUME NEW S, Sound(S), NEW w \in DOMAIN S.ref, NEW ps \in Seq(Pos), Len(ps) = 2,
         NEW at \in Int, at >= 1, at <= Len(S.ref[w]) + 1,
         NEW T, T = InsertRefs([PutNodes(S, ps) EXCEPT !.mark = @ \cup {S.unid}], w, <<S.unid, S.unid - 1>>, at)
  PROVE  SeamPut(S, T, w, ps, at)
<1> DEFINE A == PutNodes(S, ps)
           B == [A EXCEPT !.mark = @ \cup {S.unid}]
           nodes == <<S.unid, S.unid - 1>>
<1>1. S \in Data /\ Fresh(S) /\ S.unid \in Int
  BY DEF Sound, Data
<1>2. T = InsertRefs(B, w, nodes, at) /\ B = [A EXCEPT !.mark = @ \cup {S.unid}] /\ A = PutNodes(S, ps)
  OBVIOUS
<1> HIDE DEF A, B
<1>3. /\ Sound(A) /\ A.unid = S.unid - 2 /\ A.ref = S.ref /\ A.mark = S.mark
      /\ {S.unid, S.unid - 1} \cup DOMAIN S.pos \subseteq DOMAIN A.pos
      /\ \A n \in DOMAIN S.pos : A.pos[n] = S.pos[n]
      /\ A.pos[S.unid] = ps[1] /\ A.pos[S.unid - 1] = ps[2]
  <2>1. Sound(A)
    BY <1>2, PutNodesSound
  <2>2. /\ A.unid = S.unid - Len(ps) /\ A.ref = S.ref /\ A.mark = S.mark
        /\ DOMAIN A.pos = DOMAIN S.pos \cup (A.unid + 1)..S.unid
        /\ \A n \in DOMAIN S.pos : A.pos[n] = S.pos[n]
    BY <1>1, <1>2, PutNodesIs
  <2>7. \A i \in DOMAIN ps : A.pos[S.unid + 1 - i] = ps[i]
    BY <1>1, <1>2, PutNodesIs DEF Placed
  <2>3. S.unid \in (A.unid + 1)..S.unid /\ S.unid - 1 \in (A.unid + 1)..S.unid
    BY <1>1, <2>2
  <2>4. DOMAIN ps = 1..2
    OBVIOUS
  <2>5. A.pos[S.unid + 1 - 1] = ps[1] /\ A.pos[S.unid + 1 - 2] = ps[2]
    <3>1. 1 \in DOMAIN ps /\ 2 \in DOMAIN ps
      BY <2>4
    <3> QED
      BY <2>7, <3>1
  <2>6. S.unid + 1 - 1 = S.unid /\ S.unid + 1 - 2 = S.unid - 1
    BY <1>1
  <2> QED
    BY <2>1, <2>2, <2>3, <2>5, <2>6
<1>4. Marked(A, B, S.unid)
  BY <1>2, <1>3, MarkSound
<1>5. nodes \in Ids /\ \A n \in Range(nodes) : n > B.unid
  <2>1. nodes \in Ids
    BY <1>1 DEF Ids
  <2>2. DOMAIN nodes = {1, 2} /\ nodes[1] = S.unid /\ nodes[2] = S.unid - 1
    OBVIOUS
  <2> HIDE DEF nodes
  <2>3. \A n \in Range(nodes) : n = S.unid \/ n = S.unid - 1
    BY <2>2 DEF Range
  <2>4. B.unid = S.unid - 2
    BY <1>3, <1>4 DEF Marked
  <2> QED
    BY <1>1, <2>1, <2>3, <2>4
<1> HIDE DEF nodes
<1>6. Sound(B) /\ w \in DOMAIN B.ref /\ at <= Len(B.ref[w]) + 1
  BY <1>3, <1>4 DEF Marked
<1>7. RefsPut(B, T, w, nodes, at)
  BY <1>2, <1>5, <1>6, InsertRefsSound
<1>8. /\ Sound(T) /\ T.pos = A.pos /\ T.mark = S.mark \cup {S.unid} /\ DOMAIN T.ref = DOMAIN S.ref
      /\ T.unid = S.unid - 2
      /\ T.ref[w] = SubSeq(S.ref[w], 1, at - 1) \o nodes \o SubSeq(S.ref[w], at, Len(S.ref[w]))
  BY <1>3, <1>4, <1>7 DEF Marked, RefsPut
<1> QED
  BY <1>3, <1>8 DEF SeamPut, nodes

WrapStates(w) ==
  {L \in [S : SoundData, n0 : Int, i : Nat \ {0}] : w \in DOMAIN L.S.ref /\ (L.i = 1 \/ L.n0 \in DOMAIN L.S.pos)}

\* A turn of wrapdetect keeps the index complete.
LEMMA WrapTurnStays ==
  ASSUME NEW w, NEW noinsert \in BOOLEAN, NEW L \in WrapStates(w)
  PROVE  WrapTurn(L, w, noinsert) \in WrapStates(w)
<1> DEFINE S == L.S
           at == WrapNext(S, w, L.i)
           n1 == S.ref[w][at]
           sm == Seam(S.pos[L.n0], S.pos[n1])
           M == [S EXCEPT !.mark = @ \cup {L.n0}]
           T == InsertRefs([PutNodes(S, sm) EXCEPT !.mark = @ \cup {S.unid}], w, <<S.unid, S.unid - 1>>, L.i)
           U == WrapTurn(L, w, noinsert)
<1>1. /\ Sound(S) /\ S \in SoundData /\ S \in Data /\ w \in DOMAIN S.ref
      /\ L.n0 \in Int /\ L.i \in Nat \ {0} /\ (L.i = 1 \/ L.n0 \in DOMAIN S.pos) /\ S.unid \in Int
  BY DEF WrapStates, SoundData, Data
<1>2. U = IF at = 0 THEN L
          ELSE IF L.i = 1 \/ ~Jumps(S.pos, L.n0, n1) THEN [S |-> S, n0 |-> n1, i |-> at + 1]
          ELSE IF noinsert THEN [S |-> M, n0 |-> n1, i |-> at + 1]
          ELSE [S |-> T, n0 |-> S.unid - 1, i |-> at + 3]
  BY DEF WrapTurn
<1>3. ASSUME at # 0
      PROVE  [S |-> S, n0 |-> n1, i |-> at + 1] \in WrapStates(w)
  <2>1. at \in Nat /\ n1 \in DOMAIN S.pos
    BY <1>1, <1>3, WrapNextIs
  <2>2. n1 \in Int /\ at + 1 \in Nat \ {0}
    BY <1>1, <2>1, PosIs
  <2> HIDE DEF n1, at, S
  <2> QED
    BY <1>1, <2>1, <2>2 DEF WrapStates
<1>4. ASSUME at # 0, L.i # 1
      PROVE  /\ [S |-> M, n0 |-> n1, i |-> at + 1] \in WrapStates(w)
             /\ [S |-> T, n0 |-> S.unid - 1, i |-> at + 3] \in WrapStates(w)
  <2>1. at \in Nat /\ at >= L.i /\ at <= Len(S.ref[w]) /\ n1 \in DOMAIN S.pos
    BY <1>1, <1>4, WrapNextIs
  <2>2. n1 \in Int /\ S.pos[n1] \in Pos /\ at + 1 \in Nat \ {0} /\ at + 3 \in Nat \ {0} /\ S.unid - 1 \in Int
    BY <1>1, <2>1, PosIs
  <2>3. L.n0 \in DOMAIN S.pos /\ S.pos[L.n0] \in Pos
    BY <1>1, <1>4, PosIs
  <2>4. Meridian \in Int
    BY NumbersAssumption
  <2>5. sm \in Seq(Pos) /\ Len(sm) = 2
    BY <2>2, <2>3, <2>4, SeamIs
  <2>6. L.i \in Int /\ L.i >= 1 /\ L.i <= Len(S.ref[w]) + 1
    <3>1. Len(S.ref[w]) \in Nat
      BY <1>1, RefIs DEF Ids
    <3> QED
      BY <1>1, <2>1, <3>1
  <2>7. M = [S EXCEPT !.mark = @ \cup {L.n0}]
    OBVIOUS
  <2>8. T = InsertRefs([PutNodes(S, sm) EXCEPT !.mark = @ \cup {S.unid}], w, <<S.unid, S.unid - 1>>, L.i)
    OBVIOUS
  <2> HIDE DEF T, M, sm, n1, at, S
  <2>9. Marked(S, M, L.n0)
    BY <1>1, <2>3, <2>7, MarkSound
  <2>10. SeamPut(S, T, w, sm, L.i)
    BY <1>1, <2>5, <2>6, <2>8, SeamSound
  <2>11. M \in SoundData /\ w \in DOMAIN M.ref /\ n1 \in DOMAIN M.pos
    BY <1>1, <2>1, <2>9 DEF Marked, Sound, SoundData
  <2>12. T \in SoundData /\ w \in DOMAIN T.ref /\ S.unid - 1 \in DOMAIN T.pos
    BY <1>1, <2>10 DEF SeamPut, Sound, SoundData
  <2> QED
    BY <2>2, <2>11, <2>12 DEF WrapStates
<1> HIDE DEF U, T, M, sm, n1, at, S
<1> QED
  BY <1>2, <1>3, <1>4 DEF U

\* A set of states that every turn keeps has the result.
LEMMA WrapFromIn ==
  ASSUME NEW S, NEW w, NEW noinsert, NEW X, [S |-> S, n0 |-> Wild, i |-> 1] \in X,
         \A L \in X : WrapTurn(L, w, noinsert) \in X
  PROVE  WrapFrom(S, w, noinsert) \in X
<1> DEFINE b == [S |-> S, n0 |-> Wild, i |-> 1]
           Turn(L) == WrapTurn(L, w, noinsert)
           f == CHOOSE g : g = [i \in 0..MaxTurns |-> IF i = 0 THEN b ELSE Turn(g[i - 1])]
           G == [x \in (1..MaxTurns) \X X |-> Turn(x[2])]
<1>0. MaxTurns \in Nat
  BY NumbersAssumption
<1>1. WrapFrom(S, w, noinsert) = f[MaxTurns]
  BY DEF WrapFrom, Loop
<1>2. \A L \in X : Turn(L) \in X
  OBVIOUS
<1>3. b \in X
  OBVIOUS
<1> HIDE DEF Turn, b
<1>4. f = [i \in 0..MaxTurns |-> IF i = 0 THEN b ELSE Turn(f[i - 1])]
  <2>1. G \in [(1..MaxTurns) \X X -> X]
    BY <1>2
  <2> HIDE DEF G
  <2>2. \E g : Recursive(g, X, MaxTurns, b, G)
    BY <1>0, <1>3, <2>1, Recursion
  <2>3. PICK g \in [0..MaxTurns -> X] : g[0] = b /\ \A i \in 1..MaxTurns : g[i] = G[<<i, g[i - 1]>>]
    BY <2>2 DEF Recursive
  <2>4. \A i \in 1..MaxTurns : g[i] = Turn(g[i - 1])
    <3> SUFFICES ASSUME NEW i \in 1..MaxTurns
                 PROVE  G[<<i, g[i - 1]>>] = Turn(g[i - 1])
      BY <2>3
    <3>1. <<i, g[i - 1]>> \in (1..MaxTurns) \X X
      BY <1>0, <2>3
    <3> QED
      BY <3>1 DEF G
  <2>5. g = [i \in 0..MaxTurns |-> IF i = 0 THEN b ELSE Turn(g[i - 1])]
    BY <2>3, <2>4
  <2> QED
    BY <2>5
<1> HIDE DEF f
<1>5. f[0] \in X
  BY <1>0, <1>3, <1>4
<1>6. ASSUME NEW i \in 1..MaxTurns, f[i - 1] \in X
      PROVE  f[i] \in X
  <2>1. i \in 0..MaxTurns /\ i # 0
    BY <1>0
  <2>2. f[i] = Turn(f[i - 1])
    BY <1>4, <2>1
  <2> QED
    BY <1>2, <1>6, <2>2
<1>7. \A i \in 0..MaxTurns : f[i] \in X
  BY <1>0, <1>5, <1>6, Within
<1> QED
  BY <1>0, <1>1, <1>7

LEMMA WrapFromSound ==
  ASSUME NEW S, Sound(S), NEW w \in DOMAIN S.ref, NEW noinsert \in BOOLEAN
  PROVE  WrapFrom(S, w, noinsert) \in WrapStates(w)
<1>1. [S |-> S, n0 |-> Wild, i |-> 1] \in WrapStates(w)
  BY DEF WrapStates, SoundData, Sound, Wild
<1>2. \A L \in WrapStates(w) : WrapTurn(L, w, noinsert) \in WrapStates(w)
  BY WrapTurnStays
<1> QED
  BY <1>1, <1>2, WrapFromIn

(***************************************************************************)
(* Ways with fewer or other nodes                                          *)
(***************************************************************************)
\* The sequences of elements of s.
PartsOf(s) == {t \in Ids : Range(t) \subseteq Range(s)}

LEMMA PartIs ==
  ASSUME NEW s \in Ids, NEW t \in PartsOf(s), NEW i \in Int, NEW j \in Int, i >= 1, j <= Len(t)
  PROVE  SubSeq(t, i, j) \in PartsOf(s)
BY SubSeqIs DEF PartsOf, Ids

LEMMA ElementIs ==
  ASSUME NEW s \in Ids, NEW i \in 1..Len(s)
  PROVE  s[i] \in Int /\ s[i] \in Range(s) /\ <<s[i]>> \in PartsOf(s)
<1>1. s[i] \in Int /\ s[i] \in Range(s)
  BY RangeIs DEF Ids
<1>2. Range(<<s[i]>>) = {s[i]} /\ <<s[i]>> \in Ids
  BY <1>1 DEF Range, Ids
<1> QED
  BY <1>1, <1>2 DEF PartsOf

LEMMA PartsIs ==
  ASSUME NEW s \in Ids, NEW t \in PartsOf(s), NEW u \in PartsOf(s)
  PROVE  t \o u \in PartsOf(s)
BY ConcatIs DEF PartsOf, Ids

\* check_way() leaves elements of the way.
LEMMA CheckWayIs ==
  ASSUME NEW s \in Ids
  PROVE  CheckWay(s) \in PartsOf(s)
<1> DEFINE I == {i \in 1..Len(s) : s[i] # s[1]}
           a == SelectInSeq(s, LAMBDA x : x # s[1])
           t == <<s[1]>> \o SubSeq(s, a, Len(s))
           J == {i \in 1..Len(t) : t[i] # t[Len(t)]}
           b == SelectLastInSeq(t, LAMBDA x : x # t[Len(t)])
<1>1. CheckWay(s) = IF a = 0 THEN <<>> ELSE SubSeq(t, 1, b + 1)
  BY DEF CheckWay
<1>2. a = IF I # {} THEN Min(I) ELSE 0
  BY DEF SelectInSeq
<1>3. b = IF J # {} THEN Max(J) ELSE 0
  BY DEF SelectLastInSeq
<1>4. Len(s) \in Nat /\ s \in PartsOf(s)
  BY DEF Ids, PartsOf
<1>5. CASE a = 0
  <2>1. Range(<<>>) = {} /\ <<>> \in Ids
    BY DEF Range, Ids
  <2> QED
    BY <1>1, <1>5, <2>1 DEF PartsOf
<1>6. CASE a # 0
  <2>1. I # {} /\ a = Min(I) /\ I \in SUBSET Nat
    BY <1>2, <1>4, <1>6
  <2>2. a \in 1..Len(s) /\ 1 \in 1..Len(s)
    <3>1. Min(I) \in I
      <4> HIDE DEF I
      <4> QED
        BY <2>1, MinIs
    <3>2. a \in I
      BY <2>1, <3>1
    <3> HIDE DEF a
    <3> QED
      BY <1>4, <3>2
  <2> HIDE DEF a
  <2>3. <<s[1]>> \in PartsOf(s) /\ SubSeq(s, a, Len(s)) \in PartsOf(s)
    BY <1>4, <2>2, ElementIs, PartIs
  <2>4. t \in PartsOf(s)
    BY <2>3, PartsIs
  <2>5. Len(t) \in Nat /\ Len(t) >= 1
    <3>1. Len(<<s[1]>>) = 1 /\ <<s[1]>> \in Seq(Int) /\ SubSeq(s, a, Len(s)) \in Seq(Int)
      BY <2>3 DEF PartsOf, Ids
    <3> DEFINE u == <<s[1]>>
               v == SubSeq(s, a, Len(s))
    <3> HIDE DEF u, v
    <3>2. Len(u) = 1 /\ u \in Seq(Int) /\ v \in Seq(Int) /\ t = u \o v
      BY <3>1 DEF u, v
    <3> HIDE DEF t
    <3>3. Len(u \o v) = Len(u) + Len(v)
      BY <3>2, ConcatProperties
    <3>4. Len(v) \in Nat
      BY <3>2
    <3> QED
      BY <3>2, <3>3, <3>4
  <2> HIDE DEF t
  <2>6. b \in 0..(Len(t) - 1)
    <3>1. CASE J = {}
      BY <1>3, <2>5, <3>1
    <3>2. CASE J # {}
      <4>1. J \in SUBSET (0..(Len(t) - 1)) /\ Len(t) - 1 \in Nat
        BY <2>5
      <4>2. b = Max(J)
        BY <1>3, <3>2
      <4> HIDE DEF J, b
      <4>3. Max(J) \in J
        BY <3>2, <4>1, MaxIs
      <4> QED
        BY <4>1, <4>2, <4>3
    <3> QED
      BY <3>1, <3>2
  <2> HIDE DEF b
  <2>7. SubSeq(t, 1, b + 1) \in PartsOf(s)
    <3>1. b + 1 \in Int /\ b + 1 <= Len(t)
      BY <2>5, <2>6
    <3> QED
      BY <2>4, <3>1, PartIs
  <2> QED
    BY <1>1, <1>6, <2>7
<1> QED
  BY <1>5, <1>6

\* The nodes of a way that are in the tree.
PresentIn(S, w, p) ==
  /\ p \in PartsOf(S.ref[w]) /\ \A k \in 1..Len(p) : p[k] \in DOMAIN S.pos
  /\ Len(S.ref[w]) >= 1 /\ S.ref[w][1] \in DOMAIN S.pos => p # <<>>
LEMMA PresentIs ==
  ASSUME NEW S \in Data, NEW w \in DOMAIN S.ref, NEW p, p = Present(S, w)
  PROVE  PresentIn(S, w, p)
<1> DEFINE s == S.ref[w]
           H == {i \in DOMAIN s : s[i] \in DOMAIN S.pos}
           at == InOrder(H)
           m == Cardinality(H)
<1>1. s \in Ids /\ DOMAIN s = 1..Len(s) /\ Len(s) \in Nat /\ H \subseteq 1..Len(s)
  BY RefIs DEF Ids
<1>2. p = [k \in DOMAIN at |-> s[at[k]]]
  BY DEF Present
<1>3. Enumerates(at, m, H)
  <2>1. IsFiniteSet(H) /\ H \subseteq Int
    <3>1. IsFiniteSet(1..Len(s))
      BY <1>1, FS_Interval
    <3>2. IsFiniteSet(H)
      BY <1>1, <3>1, FS_Subset
    <3> QED
      BY <1>1, <3>2
  <2> HIDE DEF H
  <2> QED
    BY <2>1, InOrderIs
<1> HIDE DEF at, m
<1>4. m \in Nat /\ at \in [1..m -> H] /\ DOMAIN at = 1..m
  BY <1>3 DEF Enumerates
<1>5. \A k \in 1..m : s[at[k]] \in Int /\ s[at[k]] \in DOMAIN S.pos /\ at[k] \in DOMAIN s
  <2> SUFFICES ASSUME NEW k \in 1..m
               PROVE  s[at[k]] \in Int /\ s[at[k]] \in DOMAIN S.pos /\ at[k] \in DOMAIN s
    OBVIOUS
  <2>1. at[k] \in H
    BY <1>4
  <2>2. at[k] \in 1..Len(s) /\ s[at[k]] \in DOMAIN S.pos
    BY <1>1, <2>1
  <2> QED
    BY <1>1, <2>2, ElementIs
<1> HIDE DEF s
<1>6. p \in Seq(Int) /\ Len(p) = m
  <2>1. p = [k \in 1..m |-> s[at[k]]]
    BY <1>2, <1>4
  <2> QED
    BY <1>4, <1>5, <2>1
<1>7. \A k \in 1..m : p[k] = s[at[k]]
  BY <1>2, <1>4
<1>8. Range(p) \subseteq Range(s)
  <2> SUFFICES ASSUME NEW x \in Range(p)
               PROVE  x \in Range(s)
    OBVIOUS
  <2>1. PICK k \in 1..m : x = p[k]
    BY <1>6, RangeIs
  <2> QED
    BY <1>5, <1>7, <2>1, RangeIs
<1>9. Len(s) >= 1 /\ s[1] \in DOMAIN S.pos => p # <<>>
  <2> SUFFICES ASSUME Len(s) >= 1, s[1] \in DOMAIN S.pos
               PROVE  m # 0
    BY <1>6
  <2>1. 1 \in H
    BY <1>1 DEF s
  <2>2. \E k \in 1..m : at[k] = 1
    BY <1>3, <2>1 DEF Enumerates
  <2> QED
    BY <1>4, <2>2
<1> QED
  BY <1>5, <1>6, <1>7, <1>8, <1>9 DEF PresentIn, PartsOf, Ids, s

LEMMA KeptIs ==
  ASSUME NEW pos, NEW s \in Ids, NEW rest \in PartsOf(s), NEW far, Len(s) >= 1
  PROVE  Kept(pos, s[1], rest, far) \in PartsOf(s)
<1> DEFINE b == <<s[1]>>
           m == Len(rest)
           Step(K, i) == IF 4 * Diff(pos[K[Len(K)]], pos[rest[i]]) < far THEN K ELSE Append(K, rest[i])
           f == CHOOSE g : g = [i \in 0..m |-> IF i = 0 THEN b ELSE Step(g[i - 1], i)]
           X == PartsOf(s)
           G == [x \in (1..m) \X X |-> Step(x[2], x[1])]
<1>0. m \in Nat
  BY DEF PartsOf, Ids
<1>1. Kept(pos, s[1], rest, far) = f[m]
  BY DEF Kept, InTurn
<1>2. ASSUME NEW K \in X, NEW i \in 1..m
      PROVE  Step(K, i) \in X
  <2>1. rest[i] \in Int /\ rest[i] \in Range(s)
    <3>1. i \in 1..Len(rest) /\ rest \in Ids /\ Range(rest) \subseteq Range(s)
      BY DEF PartsOf
    <3> QED
      BY <3>1, ElementIs
  <2>2. Append(K, rest[i]) \in PartsOf(s)
    <3>1. K \in Seq(Int) /\ Range(K) \subseteq Range(s)
      BY DEF PartsOf, Ids
    <3> QED
      BY <2>1, <3>1, AppendIs DEF PartsOf, Ids
  <2> QED
    BY <2>2
<1>3. b \in X
  <2>1. 1 \in 1..Len(s)
    BY DEF Ids
  <2> QED
    BY <2>1, ElementIs
<1> HIDE DEF Step, X, b
<1>4. f = [i \in 0..m |-> IF i = 0 THEN b ELSE Step(f[i - 1], i)]
  <2>1. G \in [(1..m) \X X -> X]
    BY <1>2
  <2> HIDE DEF G
  <2>2. \E g : Recursive(g, X, m, b, G)
    BY <1>0, <1>3, <2>1, Recursion
  <2>3. PICK g \in [0..m -> X] : g[0] = b /\ \A i \in 1..m : g[i] = G[<<i, g[i - 1]>>]
    BY <2>2 DEF Recursive
  <2>4. \A i \in 1..m : g[i] = Step(g[i - 1], i)
    <3> SUFFICES ASSUME NEW i \in 1..m
                 PROVE  G[<<i, g[i - 1]>>] = Step(g[i - 1], i)
      BY <2>3
    <3>1. <<i, g[i - 1]>> \in (1..m) \X X
      BY <1>0, <2>3
    <3> QED
      BY <3>1 DEF G
  <2>5. g = [i \in 0..m |-> IF i = 0 THEN b ELSE Step(g[i - 1], i)]
    BY <2>3, <2>4
  <2> QED
    BY <2>5
<1> HIDE DEF f, m
<1>5. f[0] \in X
  BY <1>0, <1>3, <1>4
<1>6. ASSUME NEW i \in 1..m, f[i - 1] \in X
      PROVE  f[i] \in X
  <2>1. i \in 0..m /\ i # 0
    BY <1>0
  <2>2. f[i] = Step(f[i - 1], i)
    BY <1>4, <2>1
  <2> QED
    BY <1>2, <1>6, <2>2
<1>7. \A i \in 0..m : f[i] \in X
  BY <1>0, <1>5, <1>6, Within
<1> QED
  BY <1>0, <1>1, <1>7 DEF X

\* simplify leaves nodes of the way.
LEMMA ThinnedIs ==
  ASSUME NEW S \in Data, NEW w \in DOMAIN S.ref, NEW dist, Len(S.ref[w]) >= 2, S.ref[w][1] \in DOMAIN S.pos
  PROVE  Thinned(S.pos, S.ref[w], Present(S, w), dist) \in PartsOf(S.ref[w])
<1> DEFINE s == S.ref[w]
           p == Present(S, w)
           far == Lesser(4 * dist, PathLen(S.pos, p))
           kept == Kept(S.pos, s[1], Tail(p), far)
           t == IF Len(kept) < Len(s) - 1 THEN <<s[Len(s)]>> ELSE <<>>
<1>1. Thinned(S.pos, s, p, dist) = kept \o t
  BY DEF Thinned
<1>2. s \in Ids /\ Len(s) \in Nat
  BY RefIs DEF Ids
<1>3. PresentIn(S, w, p)
  BY PresentIs
<1> HIDE DEF p
<1>4. p \in PartsOf(s) /\ p # <<>>
  BY <1>3 DEF PresentIn
<1>9. Len(s) >= 1
  BY <1>2 DEF s
<1> HIDE DEF s
<1>5. Tail(p) \in PartsOf(s)
  <2>1. p \in Seq(Int) /\ Range(p) \subseteq Range(s) /\ Len(p) \in Nat /\ Len(p) >= 1
    BY <1>4 DEF PartsOf, Ids
  <2>2. Tail(p) = SubSeq(p, 2, Len(p))
    BY <1>4, <2>1
  <2> QED
    <3> DEFINE j == Len(p)
    <3>1. 2 \in Int /\ 2 >= 1 /\ j \in Int /\ j <= Len(p)
      BY <2>1
    <3> HIDE DEF j
    <3>2. SubSeq(p, 2, j) \in PartsOf(s)
      BY <1>2, <1>4, <3>1, PartIs
    <3> QED
      BY <2>2, <3>2 DEF j
<1> HIDE DEF far
<1>6. kept \in PartsOf(s)
  BY <1>2, <1>5, <1>9, KeptIs
<1>7. t \in PartsOf(s)
  <2>1. Len(s) \in 1..Len(s)
    BY <1>2 DEF s
  <2>2. <<>> \in PartsOf(s)
    BY DEF PartsOf, Ids, Range
  <2> QED
    BY <1>2, <2>1, <2>2, ElementIs
<1> HIDE DEF kept, t
<1>8. kept \o t \in PartsOf(s)
  BY <1>2, <1>6, <1>7, PartsIs
<1> QED
  BY <1>1, <1>8 DEF s, p, kept, t, far

LEMMA ReverseWayIs ==
  ASSUME NEW s \in Ids
  PROVE  ReverseWay(s) \in PartsOf(s)
<1> DEFINE r == ReverseWay(s)
           n == Len(s)
           at(i) == IF i \in {1, n} THEN i ELSE n + 1 - i
<1>1. DOMAIN s = 1..Len(s) /\ Len(s) \in Nat
  BY DEF Ids
<1>3. r = [i \in 1..n |-> s[at(i)]]
  BY <1>1 DEF ReverseWay
<1> HIDE DEF r, n
<1>7. n \in Nat
  BY <1>1 DEF n
<1>2. ASSUME NEW i \in 1..n
      PROVE  at(i) \in 1..n
  <2>1. n + 1 - i \in 1..n
    BY <1>7
  <2> QED
    BY <2>1
<1> HIDE DEF at
<1>6. \A i \in 1..n : s[at(i)] \in Int /\ s[at(i)] \in Range(s)
  BY <1>2, ElementIs DEF n
<1>4. r \in Seq(Int) /\ DOMAIN r = 1..n
  BY <1>1, <1>3, <1>6 DEF n
<1>5. ASSUME NEW x \in Range(r)
      PROVE  x \in Range(s)
  <2>1. PICK i \in 1..n : x = r[i]
    BY <1>4, RangeIs
  <2> QED
    BY <1>3, <1>6, <2>1
<1> QED
  BY <1>4, <1>5 DEF PartsOf, Ids, r

(***************************************************************************)
(* Shapes and refined polygons, which stay out of the index                *)
(***************************************************************************)
\* T is S with more nodes, and with ways that are out of the index.
Grown(S, T) == Sound(T) /\ DOMAIN S.pos \subseteq DOMAIN T.pos

\* The ways of a shape consist of its node and the new ones.
ShapeWays(n, cnt, nd, kind) ==
  CASE kind = "ring" -> <<Append(nd, nd[1])>>
    [] kind = "arc" -> <<nd>>
    [] kind = "sector" -> <<nd \o <<n, nd[1]>> >>
    [] OTHER -> [i \in 1..cnt |-> <<n, nd[i]>>]
LEMMA ShapeWaysIs ==
  ASSUME NEW n \in Int, NEW cnt \in {2, 3}, NEW u \in Int, u < n, NEW nd, nd = [i \in 1..cnt |-> u + 1 - i], NEW kind
  PROVE  /\ ShapeWays(n, cnt, nd, kind) \in Seq(Ids)
         /\ \A i \in DOMAIN ShapeWays(n, cnt, nd, kind) :
              \A x \in Range(ShapeWays(n, cnt, nd, kind)[i]) : x > u - cnt
<1> DEFINE H == {x \in Int : x > u - cnt}
           good(s) == s \in Seq(H)
           ways == ShapeWays(n, cnt, nd, kind)
<1>1. cnt \in Nat /\ cnt >= 1 /\ n \in H /\ H \subseteq Int /\ 1 \in 1..cnt
  OBVIOUS
<1>2. \A i \in 1..cnt : nd[i] \in H
  OBVIOUS
<1> HIDE DEF H
<1>3. nd \in Seq(H)
  BY <1>1, <1>2
<1>4. Append(nd, nd[1]) \in Seq(H) /\ nd \o <<n, nd[1]>> \in Seq(H)
  <2>1. nd[1] \in H /\ <<n, nd[1]>> \in Seq(H)
    BY <1>1, <1>2
  <2> QED
    BY <1>3, <2>1
<1>5. \A i \in 1..cnt : <<n, nd[i]>> \in Seq(H)
  BY <1>1, <1>2
<1>6. ways \in Seq(Seq(H))
  <2>1. CASE kind \in {"ring", "arc", "sector"}
    BY <1>3, <1>4, <2>1 DEF ShapeWays
  <2>2. CASE kind \notin {"ring", "arc", "sector"}
    <3>1. ways = [i \in 1..cnt |-> <<n, nd[i]>>]
      BY <2>2 DEF ShapeWays
    <3> DEFINE pair(i) == <<n, nd[i]>>
    <3>2. \A i \in 1..cnt : pair(i) \in Seq(H)
      BY <1>5
    <3>3. ways = [i \in 1..cnt |-> pair(i)]
      BY <3>1
    <3> HIDE DEF pair, ways
    <3> QED
      BY <1>1, <3>2, <3>3
  <2> QED
    BY <2>1, <2>2
<1> HIDE DEF ways
<1>7. \A i \in DOMAIN ways : ways[i] \in Seq(H)
  BY <1>6
<1>8. ASSUME NEW s \in Seq(H)
      PROVE  s \in Ids /\ \A x \in Range(s) : x \in H
  <2>1. Len(s) \in Nat /\ s \in [1..Len(s) -> H]
    OBVIOUS
  <2>2. s \in [1..Len(s) -> Int]
    BY <1>1, <2>1
  <2>3. s \in Ids
    BY <2>1, <2>2 DEF Ids
  <2> QED
    BY <2>1, <2>3 DEF Range
<1>9. ways \in Seq(Ids)
  BY <1>6, <1>7, <1>8
<1> QED
  BY <1>7, <1>8, <1>9 DEF ways, H

LEMMA ShapeNodeGrown ==
  ASSUME NEW S, Sound(S), NEW n \in DOMAIN S.pos, NEW kind, NEW R, R = ShapeNode(S, n, kind)
  PROVE  Grown(S, R)
<1> DEFINE cnt == IF kind \in {"arc", "sector"} THEN 2 ELSE 3
           nd == [i \in 1..cnt |-> S.unid + 1 - i]
           ways == ShapeWays(n, cnt, nd, kind)
           ps == [i \in 1..cnt |-> <<S.pos[n][1] + Corners[i][1], S.pos[n][2] + Corners[i][2]>>]
           T == PutNodes(S, ps)
           T0 == IF kind = "star" THEN [T EXCEPT !.uwid = @ - 1] ELSE T
           W == PutWays(T0, ways)
           new == {T0.uwid + 1 - i : i \in DOMAIN ways}
<1>1. S \in Data /\ Fresh(S) /\ S.unid \in Int /\ n \in Int /\ S.pos[n] \in Pos /\ n > S.unid
  BY PosIs DEF Sound, Data, Fresh
<1>2. R = [W EXCEPT !.raw = @ \cup new]
  BY DEF ShapeNode, ShapeWays
<1>3. cnt \in {2, 3} /\ cnt \in Nat /\ nd = [i \in 1..cnt |-> S.unid + 1 - i]
  OBVIOUS
<1>4. ps \in Seq(Pos) /\ Len(ps) = cnt
  <2>1. \A i \in 1..cnt : Corners[i][1] \in Int /\ Corners[i][2] \in Int
    BY DEF Corners
  <2>2. S.pos[n][1] \in Int /\ S.pos[n][2] \in Int
    BY <1>1 DEF Pos
  <2> DEFINE at(i) == <<S.pos[n][1] + Corners[i][1], S.pos[n][2] + Corners[i][2]>>
  <2>3. \A i \in 1..cnt : at(i) \in Pos
    BY <2>1, <2>2 DEF Pos
  <2>4. ps = [i \in 1..cnt |-> at(i)]
    OBVIOUS
  <2> HIDE DEF at, ps, cnt
  <2> QED
    BY <1>3, <2>3, <2>4
<1>5. T = PutNodes(S, ps)
  OBVIOUS
<1>6. W = PutWays(T0, ways) /\ T0 = IF kind = "star" THEN [T EXCEPT !.uwid = @ - 1] ELSE T
  OBVIOUS
<1>7. ways = ShapeWays(n, cnt, nd, kind)
  OBVIOUS
<1> HIDE DEF ways, nd, cnt, ps, T, W, T0
<1>8. ways \in Seq(Ids) /\ \A i \in DOMAIN ways : \A x \in Range(ways[i]) : x > S.unid - cnt
  BY <1>1, <1>3, <1>7, ShapeWaysIs
<1>9. Sound(T) /\ T \in Data /\ Fresh(T) /\ T.unid = S.unid - cnt /\ DOMAIN S.pos \subseteq DOMAIN T.pos
  <2>1. Sound(T)
    BY <1>4, <1>5, PutNodesSound
  <2>2. T.unid = S.unid - Len(ps) /\ DOMAIN T.pos = DOMAIN S.pos \cup (T.unid + 1)..S.unid
    BY <1>1, <1>4, <1>5, PutNodesIs
  <2> QED
    BY <1>4, <2>1, <2>2 DEF Sound
<1>10. /\ T0 \in Data /\ Fresh(T0) /\ T0.uwid \in Int
       /\ T0.pos = T.pos /\ T0.ref = T.ref /\ T0.idx = T.idx /\ T0.mark = T.mark
       /\ T0.unid = T.unid /\ T0.raw = T.raw
  <2>1. CASE kind = "star"
    <3>1. T.uwid \in Int /\ T.uwid - 1 \in Int
      BY <1>9 DEF Data
    <3>2. /\ T0 \in Data /\ T0.uwid = T.uwid - 1
          /\ T0.pos = T.pos /\ T0.ref = T.ref /\ T0.idx = T.idx /\ T0.mark = T.mark
          /\ T0.unid = T.unid /\ T0.raw = T.raw
      BY <1>6, <1>9, <2>1, <3>1 DEF Data
    <3>3. T0.uwid < 0 /\ \A w \in DOMAIN T.ref : w > T0.uwid
      <4>1. T.uwid < 0 /\ \A w \in DOMAIN T.ref : w \in Int /\ w > T.uwid
        BY <1>9, RefIs DEF Fresh
      <4> QED
        BY <3>1, <3>2, <4>1
    <3> QED
      BY <1>9, <3>1, <3>2, <3>3 DEF Fresh
  <2>2. CASE kind # "star"
    <3>1. T.uwid \in Int
      BY <1>9 DEF Data
    <3> QED
      BY <1>6, <1>9, <2>2, <3>1
  <2> QED
    BY <2>1, <2>2
<1>11. WaysPut(T0, W, ways)
  <2>1. \A i \in DOMAIN ways : \A x \in Range(ways[i]) : x > T0.unid
    BY <1>8, <1>9, <1>10
  <2> QED
    BY <1>6, <1>8, <1>10, <2>1, PutWaysIs
<1>12. new = (W.uwid + 1)..T0.uwid /\ new \subseteq Int
  <2>1. W.uwid = T0.uwid - Len(ways) /\ Len(ways) \in Nat /\ DOMAIN ways = 1..Len(ways)
    BY <1>8, <1>11 DEF WaysPut
  <2>2. ASSUME NEW x \in new
        PROVE  x \in (W.uwid + 1)..T0.uwid
    BY <1>10, <2>1
  <2>3. ASSUME NEW x \in (W.uwid + 1)..T0.uwid
        PROVE  x \in new
    <3>1. T0.uwid + 1 - x \in DOMAIN ways /\ x = T0.uwid + 1 - (T0.uwid + 1 - x)
      BY <1>10, <2>1
    <3> QED
      BY <3>1
  <2>4. new \subseteq Int
    BY <1>10, <2>1
  <2> QED
    BY <2>2, <2>3, <2>4
<1> HIDE DEF new
<1>13. /\ R \in Data /\ R.raw = W.raw \cup new
       /\ R.pos = W.pos /\ R.ref = W.ref /\ R.idx = W.idx /\ R.mark = W.mark
       /\ R.unid = W.unid /\ R.uwid = W.uwid
  <2>1. W \in Data /\ W.raw \cup new \in SUBSET Int
    BY <1>11, <1>12 DEF WaysPut, Data
  <2> QED
    BY <1>2, <2>1 DEF Data
<1>14. /\ Fresh(W) /\ DOMAIN W.ref = DOMAIN T.ref \cup new /\ (\A w \in DOMAIN T.ref : W.ref[w] = T.ref[w])
       /\ W.pos = T.pos /\ W.idx = T.idx /\ W.mark = T.mark /\ W.raw = T.raw
       /\ IsFiniteSet(DOMAIN W.ref)
  BY <1>9, <1>10, <1>11, <1>12 DEF WaysPut, Sound
<1>15. Complete(R, DOMAIN R.ref \ R.raw)
  <2> SUFFICES ASSUME NEW w \in DOMAIN T.ref \ T.raw, NEW x \in Range(T.ref[w]) \cap DOMAIN T.pos
               PROVE  w \in Parents(T, x)
    BY <1>13, <1>14 DEF Complete, Parents
  <2> QED
    BY <1>9 DEF Sound, Complete
<1>16. Fresh(R)
  BY <1>13, <1>14 DEF Fresh
<1>17. R.mark \subseteq DOMAIN R.pos
  BY <1>9, <1>13, <1>14 DEF Sound
<1> QED
  BY <1>9, <1>13, <1>14, <1>15, <1>16, <1>17 DEF Sound, Grown

LEMMA ShapeAllIs ==
  ASSUME NEW S, Sound(S), NEW nodes \in Ids, \A i \in 1..Len(nodes) : nodes[i] \in DOMAIN S.pos, NEW kind
  PROVE  ShapeAll(S, nodes, kind) \in {T \in SoundData : DOMAIN S.pos \subseteq DOMAIN T.pos}
<1> DEFINE b == S
           m == Len(nodes)
           Step(K, i) == ShapeNode(K, nodes[i], kind)
           f == CHOOSE g : g = [i \in 0..m |-> IF i = 0 THEN b ELSE Step(g[i - 1], i)]
           X == {T \in SoundData : DOMAIN S.pos \subseteq DOMAIN T.pos}
           G == [x \in (1..m) \X X |-> Step(x[2], x[1])]
<1>0. m \in Nat
  BY DEF Ids
<1>1. ShapeAll(S, nodes, kind) = f[m]
  BY DEF ShapeAll, InTurn
<1>2. ASSUME NEW K \in X, NEW i \in 1..m
      PROVE  Step(K, i) \in X
  <2>1. Sound(K) /\ nodes[i] \in DOMAIN K.pos /\ DOMAIN S.pos \subseteq DOMAIN K.pos
    BY DEF SoundData
  <2>2. Step(K, i) = ShapeNode(K, nodes[i], kind)
    OBVIOUS
  <2> HIDE DEF Step
  <2>3. Grown(K, Step(K, i))
    BY <2>1, <2>2, ShapeNodeGrown
  <2> QED
    BY <2>1, <2>3 DEF Grown, Sound, SoundData
<1>3. b \in X
  BY DEF SoundData, Sound
<1> HIDE DEF Step, X, b
<1>4. f = [i \in 0..m |-> IF i = 0 THEN b ELSE Step(f[i - 1], i)]
  <2>1. G \in [(1..m) \X X -> X]
    BY <1>2
  <2> HIDE DEF G
  <2>2. \E g : Recursive(g, X, m, b, G)
    BY <1>0, <1>3, <2>1, Recursion
  <2>3. PICK g \in [0..m -> X] : g[0] = b /\ \A i \in 1..m : g[i] = G[<<i, g[i - 1]>>]
    BY <2>2 DEF Recursive
  <2>4. \A i \in 1..m : g[i] = Step(g[i - 1], i)
    <3> SUFFICES ASSUME NEW i \in 1..m
                 PROVE  G[<<i, g[i - 1]>>] = Step(g[i - 1], i)
      BY <2>3
    <3>1. <<i, g[i - 1]>> \in (1..m) \X X
      BY <1>0, <2>3
    <3> QED
      BY <3>1 DEF G
  <2>5. g = [i \in 0..m |-> IF i = 0 THEN b ELSE Step(g[i - 1], i)]
    BY <2>3, <2>4
  <2> QED
    BY <2>5
<1> HIDE DEF f, m
<1>5. f[0] \in X
  BY <1>0, <1>3, <1>4
<1>6. ASSUME NEW i \in 1..m, f[i - 1] \in X
      PROVE  f[i] \in X
  <2>1. i \in 0..m /\ i # 0
    BY <1>0
  <2>2. f[i] = Step(f[i - 1], i)
    BY <1>4, <2>1
  <2> QED
    BY <1>2, <1>6, <2>2
<1>7. \A i \in 0..m : f[i] \in X
  BY <1>0, <1>5, <1>6, Within
<1> QED
  BY <1>0, <1>1, <1>7 DEF X

\* A refined polygon has a new node behind every node but the last.
LEMMA RefineSound ==
  ASSUME NEW S, Sound(S), NEW w \in DOMAIN S.ref, Len(S.ref[w]) >= 3, Range(S.ref[w]) \subseteq DOMAIN S.pos,
         NEW R, R = Refine(S, w)
  PROVE  Sound(R)
<1> DEFINE s == S.ref[w]
           k == Len(s) - 1
           mid(i) == Toward(S.pos[s[i]], S.pos[s[i + 1]], Diff(S.pos[s[i]], S.pos[s[i + 1]]) \div 2)
           ps == [i \in 1..k |-> mid(i)]
           T == PutNodes(S, ps)
           at(i) == IF i % 2 = 1 THEN s[(i + 1) \div 2] ELSE S.unid + 1 - i \div 2
           r == [i \in 1..(2 * k + 1) |-> at(i)]
           N == [T EXCEPT !.raw = @ \cup {w}]
<1>1. S \in Data /\ S.unid \in Int /\ w \in Int /\ s \in Ids /\ Len(s) \in Nat /\ k \in Nat /\ k + 1 = Len(s)
      /\ Fresh(S)
  <2>1. S \in Data /\ S.unid \in Int /\ Fresh(S)
    BY DEF Sound, Data
  <2>2. w \in Int /\ s \in Ids
    BY <2>1, RefIs
  <2>3. Len(s) \in Nat
    BY <2>2 DEF Ids
  <2> QED
    BY <2>1, <2>2, <2>3
<1>2. R = [T EXCEPT !.ref[w] = r, !.raw = @ \cup {w}]
  BY DEF Refine
<1> HIDE DEF k
<1>3. \A i \in 1..k : mid(i) \in Pos
  <2> SUFFICES ASSUME NEW i \in 1..k
               PROVE  mid(i) \in Pos
    OBVIOUS
  <2> DEFINE a == S.pos[s[i]]
             b == S.pos[s[i + 1]]
  <2>1. i \in 1..Len(s) /\ i + 1 \in 1..Len(s)
    BY <1>1
  <2>2. s[i] \in DOMAIN S.pos /\ s[i + 1] \in DOMAIN S.pos
    BY <1>1, <2>1, ElementIs
  <2>3. a \in Pos /\ b \in Pos
    BY <1>1, <2>2, PosIs
  <2>5. mid(i) = Toward(a, b, Diff(a, b) \div 2)
    OBVIOUS
  <2> HIDE DEF a, b, mid
  <2>4. Diff(a, b) \div 2 \in Int
    <3>1. Diff(a, b) \in Nat
      BY <2>3, DiffIs
    <3> QED
      BY <3>1
  <2> QED
    BY <2>3, <2>4, <2>5, TowardIs
<1>4. \A i \in 1..(2 * k + 1) : at(i) \in Int /\ at(i) > S.unid - k
  <2> SUFFICES ASSUME NEW i \in 1..(2 * k + 1)
               PROVE  at(i) \in Int /\ at(i) > S.unid - k
    OBVIOUS
  <2>1. CASE i % 2 = 1
    <3> DEFINE h == (i + 1) \div 2
    <3>1. h \in 1..(k + 1)
      BY <1>1, <2>1
    <3>2. at(i) = s[h]
      BY <2>1
    <3> HIDE DEF h, at
    <3>3. s[h] \in Int /\ s[h] \in Range(s)
      BY <1>1, <3>1, ElementIs
    <3>4. s[h] > S.unid
      BY <1>1, <3>3 DEF Fresh
    <3> HIDE DEF s
    <3> QED
      BY <1>1, <3>2, <3>3, <3>4
  <2>2. CASE i % 2 # 1
    <3> DEFINE h == i \div 2
    <3>1. h \in Int /\ h <= k
      BY <1>1, <2>2
    <3>2. at(i) = S.unid + 1 - h
      BY <2>2
    <3> HIDE DEF h, at
    <3> QED
      BY <1>1, <3>1, <3>2
  <2> QED
    BY <2>1, <2>2
<1>5. ps = [i \in 1..k |-> mid(i)] /\ r = [i \in 1..(2 * k + 1) |-> at(i)]
  OBVIOUS
<1>6. T = PutNodes(S, ps)
  OBVIOUS
<1> HIDE DEF mid, at, ps, r, T
<1>7. ps \in Seq(Pos) /\ Len(ps) = k
  BY <1>1, <1>3, <1>5
<1>8. r \in Ids /\ \A x \in Range(r) : x > S.unid - k
  <2>1. 2 * k + 1 \in Nat
    BY <1>1
  <2>2. r \in Seq(Int) /\ DOMAIN r = 1..(2 * k + 1)
    BY <1>4, <1>5, <2>1
  <2>3. \A i \in 1..(2 * k + 1) : r[i] = at(i)
    BY <1>5
  <2>4. \A x \in Range(r) : x > S.unid - k
    BY <1>4, <2>2, <2>3 DEF Range
  <2> QED
    BY <2>2, <2>4 DEF Ids
<1>9. Sound(T) /\ T \in Data /\ T.unid = S.unid - k /\ T.ref = S.ref
  <2>1. Sound(T)
    BY <1>6, <1>7, PutNodesSound
  <2>2. T.unid = S.unid - Len(ps) /\ T.ref = S.ref
    BY <1>1, <1>6, <1>7, PutNodesIs
  <2> QED
    BY <1>7, <2>1, <2>2 DEF Sound
<1>10. N = [T EXCEPT !.raw = @ \cup {w}] /\ R = [N EXCEPT !.ref[w] = r]
  BY <1>2, <1>9 DEF Data
<1> HIDE DEF N
<1>11. Sound(N) /\ N.ref = S.ref /\ w \in N.raw /\ N.unid = T.unid
  <2> DEFINE raw == T.raw \cup {w}
  <2>1. raw \in SUBSET Int /\ N = [T EXCEPT !.raw = raw]
    BY <1>1, <1>9, <1>10 DEF Data
  <2> HIDE DEF raw
  <2>2. /\ N \in Data /\ N.pos = T.pos /\ N.ref = T.ref /\ N.idx = T.idx /\ N.mark = T.mark
        /\ N.unid = T.unid /\ N.uwid = T.uwid /\ N.raw = raw
    BY <1>9, <2>1 DEF Data
  <2> QED
    BY <1>9, <2>2 DEF Sound, Fresh, Complete, Parents, raw
<1> HIDE DEF s
<1>12. \A x \in Range(r) : x > N.unid
  BY <1>8, <1>9, <1>11
<1>13. w \in DOMAIN N.ref /\ (w \in N.raw \/ \A x \in Range(r) \cap DOMAIN N.pos : w \in Parents(N, x))
  BY <1>11
<1>14. Sound(N) /\ r \in Ids /\ R = [N EXCEPT !.ref[w] = r]
  BY <1>8, <1>10, <1>11
<1> QED
  BY <1>12, <1>13, <1>14, SetWaySound

\* Positions do not matter.
LEMMA MovedSound ==
  ASSUME NEW S, Sound(S), NEW n \in DOMAIN S.pos, NEW p \in Pos, NEW T, T = [S EXCEPT !.pos[n] = p]
  PROVE  Sound(T)
<1> DEFINE pos == [S.pos EXCEPT ![n] = p]
<1>1. S \in Data /\ S.pos \in Fns(Int, Pos) /\ T = [S EXCEPT !.pos = pos]
  BY DEF Sound, Data
<1>2. pos \in Fns(Int, Pos) /\ DOMAIN pos = DOMAIN S.pos
  BY <1>1, ExceptIs
<1> HIDE DEF pos
<1>3. /\ T \in Data /\ T.pos = pos /\ T.ref = S.ref /\ T.idx = S.idx /\ T.mark = S.mark /\ T.unid = S.unid
      /\ T.uwid = S.uwid /\ T.raw = S.raw
  BY <1>1, <1>2 DEF Data
<1> QED
  BY <1>2, <1>3 DEF Sound, Fresh, Complete, Parents

(***************************************************************************)
(* The data after loading                                                  *)
(***************************************************************************)
LEMMA BelowIs ==
  ASSUME NEW ids, IsFiniteSet(ids), ids \subseteq Int
  PROVE  Below(ids) \in Int /\ Below(ids) < 0 /\ \A x \in ids : x > Below(ids)
<1> DEFINE H == ids \cup {0}
           seq == InOrder(H)
           n == Cardinality(H)
<1>1. IsFiniteSet(H) /\ H \subseteq Int /\ 0 \in H
  BY FS_AddElement
<1> HIDE DEF H
<1>2. Enumerates(seq, n, H)
  BY <1>1, InOrderIs
<1> HIDE DEF seq, n
<1>3. /\ n \in Nat /\ seq \in [1..n -> H]
      /\ \A o \in H : \E i \in 1..n : seq[i] = o
      /\ \A i, j \in 1..n : i < j => seq[i] < seq[j]
  BY <1>2 DEF Enumerates
<1>4. 1 \in 1..n /\ seq[1] \in H
  BY <1>1, <1>3
<1>5. \A o \in H : seq[1] <= o
  <2> SUFFICES ASSUME NEW o \in H
               PROVE  seq[1] <= o
    OBVIOUS
  <2>1. PICK i \in 1..n : seq[i] = o
    BY <1>3
  <2>2. seq[1] \in Int /\ o \in Int
    BY <1>1, <1>4
  <2>3. CASE i = 1
    BY <2>1, <2>2, <2>3
  <2>4. CASE i # 1
    <3>1. 1 < i
      BY <1>3, <2>4
    <3> QED
      BY <1>3, <1>4, <2>1, <2>2, <3>1
  <2> QED
    BY <2>3, <2>4
<1>6. Min(H) \in H /\ \A o \in H : Min(H) <= o
  BY <1>4, <1>5 DEF Min
<1>7. Below(ids) = Min(H) - 1
  BY DEF Below, H
<1>8. \A o \in H : o \in Int /\ Min(H) \in Int
  BY <1>1, <1>6
<1>9. \A o \in H : o > Below(ids) /\ Below(ids) \in Int
  BY <1>6, <1>7, <1>8
<1>10. \A x \in ids : x \in H
  BY DEF H
<1> HIDE DEF H
<1> QED
  BY <1>1, <1>9, <1>10

\* A list of all members of a set of ways or relations that have the node.
LEMMA InOrderRange ==
  ASSUME NEW H, IsFiniteSet(H), H \subseteq Int
  PROVE  InOrder(H) \in Ids /\ Range(InOrder(H)) = H
<1> DEFINE seq == InOrder(H)
           n == Cardinality(H)
<1>1. Enumerates(seq, n, H)
  BY InOrderIs
<1> HIDE DEF seq, n
<1>2. n \in Nat /\ seq \in [1..n -> H] /\ \A o \in H : \E i \in 1..n : seq[i] = o
  BY <1>1 DEF Enumerates
<1>3. seq \in Ids
  <2>1. seq \in [1..n -> Int]
    BY <1>2
  <2> QED
    BY <1>2, <2>1 DEF Ids
<1>4. Range(seq) = H
  BY <1>2 DEF Range
<1> QED
  BY <1>3, <1>4 DEF seq

LEMMA TreeOrderRange ==
  ASSUME NEW H, IsFiniteSet(H), H \subseteq Int
  PROVE  TreeOrder(H) \in Ids /\ Range(TreeOrder(H)) = H
<1> DEFINE A == {p \in H : p >= 0}
           B == {p \in H : p < 0}
           a == InOrder(A)
           b == InOrder(B)
<1>0. \A p \in H : p >= 0 \/ p < 0
  OBVIOUS
<1>1. A \cup B = H /\ A \in SUBSET H /\ B \in SUBSET H
  BY ONLY <1>0, Zenon
<1>2. TreeOrder(H) = a \o b
  BY DEF TreeOrder
<1> HIDE DEF A, B
<1>3. IsFiniteSet(A) /\ A \subseteq Int /\ IsFiniteSet(B) /\ B \subseteq Int
  BY <1>1, FS_Subset
<1>4. a \in Ids /\ Range(a) = A /\ b \in Ids /\ Range(b) = B
  BY <1>3, InOrderRange
<1> HIDE DEF a, b
<1>5. a \o b \in Seq(Int) /\ Range(a \o b) = Range(a) \cup Range(b)
  BY <1>4, ConcatIs DEF Ids
<1> QED
  BY <1>1, <1>2, <1>4, <1>5 DEF Ids

LEMMA FunctionIs ==
  ASSUME NEW A, NEW B, NEW f, f \in [DOMAIN f -> B], DOMAIN f \subseteq A
  PROVE  f \in Fns(A, B)
BY DEF Fns

LEMMA LoadSound ==
  ASSUME NEW m \in Maps
  PROVE  Sound(Load(m)) /\ Load(m).n = 0
<1> DEFINE S == Load(m)
           With(members, n) == TreeOrder({p \in DOMAIN members : n \in Range(members[p])})
           idx == RevIndex(m)
           list(n) == With(m.ref, n) \o With(m.rel, n)
           D == DOMAIN m.pos \cap UNION {Range(s) : s \in Range(m.ref) \cup Range(m.rel)}
<1>1. /\ IsFiniteSet(DOMAIN m.pos) /\ DOMAIN m.pos \subseteq Int
      /\ m.pos \in [DOMAIN m.pos -> Int \X Int]
      /\ IsFiniteSet(DOMAIN m.ref) /\ DOMAIN m.ref \subseteq Int /\ \A w \in DOMAIN m.ref : w < 100
      /\ m.ref \in [DOMAIN m.ref -> Seq(Int)]
      /\ \A w \in DOMAIN m.ref : \A n \in Range(m.ref[w]) : n > 0 \/ n \in DOMAIN m.pos
      /\ IsFiniteSet(DOMAIN m.rel) /\ DOMAIN m.rel \subseteq Int
  BY MapsAssumption
<1>2. ASSUME NEW f, IsFiniteSet(DOMAIN f), DOMAIN f \subseteq Int, NEW n
      PROVE  With(f, n) \in Ids /\ Range(With(f, n)) = {p \in DOMAIN f : n \in Range(f[p])}
  <2> DEFINE H == {p \in DOMAIN f : n \in Range(f[p])}
  <2>1. IsFiniteSet(H) /\ H \subseteq Int
    <3>1. H \in SUBSET DOMAIN f
      OBVIOUS
    <3> HIDE DEF H
    <3> QED
      BY <1>2, <3>1, FS_Subset
  <2>2. With(f, n) = TreeOrder(H)
    OBVIOUS
  <2> HIDE DEF H, With
  <2>3. With(f, n) \in Ids /\ Range(With(f, n)) = H
    BY <2>1, <2>2, TreeOrderRange
  <2> QED
    BY <2>3 DEF H
<1>3. idx = [n \in D |-> list(n)]
  BY DEF RevIndex
<1> HIDE DEF With, idx
<1>4. ASSUME NEW n
      PROVE  list(n) \in Ids /\ {p \in DOMAIN m.ref : n \in Range(m.ref[p])} \subseteq Range(list(n))
  <2> DEFINE a == With(m.ref, n)
             b == With(m.rel, n)
  <2>1. a \in Ids /\ Range(a) = {p \in DOMAIN m.ref : n \in Range(m.ref[p])}
    BY <1>1, <1>2
  <2>2. b \in Ids
    BY <1>1, <1>2
  <2>3. list(n) = a \o b
    OBVIOUS
  <2> HIDE DEF a, b, list
  <2>4. a \in Seq(Int) /\ b \in Seq(Int)
    BY <2>1, <2>2 DEF Ids
  <2>5. a \o b \in Seq(Int) /\ Range(a \o b) = Range(a) \cup Range(b)
    BY <2>4, ConcatIs
  <2> QED
    BY <2>1, <2>3, <2>5 DEF Ids
<1> HIDE DEF list
<1>5. idx \in Fns(Int, Ids)
  <2>1. DOMAIN idx = D /\ D \subseteq Int /\ \A n \in D : idx[n] \in Ids
    BY <1>1, <1>3, <1>4
  <2> HIDE DEF D
  <2>2. idx \in [DOMAIN idx -> Ids]
    BY <1>3, <2>1
  <2> QED
    BY <2>1, <2>2, FunctionIs
<1>6. m.pos \in Fns(Int, Pos) /\ m.ref \in Fns(Int, Ids)
  BY <1>1, FunctionIs DEF Pos, Ids
<1>7. /\ Below(DOMAIN m.pos) \in Int /\ Below(DOMAIN m.pos) < 0 /\ \A x \in DOMAIN m.pos : x > Below(DOMAIN m.pos)
      /\ Below(DOMAIN m.ref) \in Int /\ Below(DOMAIN m.ref) < 0 /\ \A x \in DOMAIN m.ref : x > Below(DOMAIN m.ref)
  BY <1>1, BelowIs
<1>8. /\ S = [pos |-> m.pos, ref |-> m.ref, idx |-> idx, mark |-> {}, unid |-> Below(DOMAIN m.pos),
              uwid |-> Below(DOMAIN m.ref), raw |-> {}, emerg |-> FALSE, n |-> 0, fault |-> FALSE]
  BY DEF Load, idx
<1> HIDE DEF S
<1>9. S \in Data
  BY <1>5, <1>6, <1>7, <1>8 DEF Data
<1>10. Fresh(S)
  <2>1. ASSUME NEW w \in DOMAIN m.ref, NEW n \in Range(m.ref[w])
        PROVE  n > Below(DOMAIN m.pos)
    <3>1. n > 0 \/ n \in DOMAIN m.pos
      BY <1>1, <2>1
    <3>2. n \in Int
      <4>1. m.ref[w] \in Seq(Int)
        BY <1>1
      <4> QED
        BY <4>1 DEF Range
    <3> QED
      BY <1>7, <3>1, <3>2
  <2> QED
    BY <1>1, <1>7, <1>8, <2>1 DEF Fresh
<1>11. Complete(S, DOMAIN S.ref \ S.raw)
  <2> SUFFICES ASSUME NEW w \in DOMAIN m.ref, NEW n \in Range(m.ref[w]) \cap DOMAIN m.pos
               PROVE  w \in Parents(S, n)
    BY <1>8 DEF Complete
  <2>1. n \in D
    <3>1. m.ref[w] \in Range(m.ref)
      BY RangeIs
    <3> QED
      BY <3>1
  <2>2. Parents(S, n) = Range(list(n))
    BY <1>3, <1>8, <2>1 DEF Parents, ListOf
  <2> QED
    BY <1>4, <2>2
<1> QED
  BY <1>1, <1>8, <1>9, <1>10, <1>11 DEF Sound, S

(***************************************************************************)
(* The calls                                                               *)
(***************************************************************************)
\* The inductive invariant.
IInv == Sound(data) /\ data.n = 0 /\ edits \in 0..MaxEdits

LEMMA InitIInv == Init => IInv
<1> SUFFICES ASSUME Init
             PROVE  IInv
  OBVIOUS
<1>1. PICK m \in Maps : data = Load(m)
  BY DEF Init
<1>2. edits \in 0..MaxEdits
  BY NumbersAssumption DEF Init
<1> QED
  BY <1>1, <1>2, LoadSound DEF IInv

LEMMA CallIInv ==
  ASSUME IInv, NEW call, NEW S, Sound(S), Call(call, S)
  PROVE  IInv'
<1>1. /\ data' = [S EXCEPT !.n = 0] /\ edits' = edits + 1 /\ edits < MaxEdits
  BY DEF Call
<1>2. edits' \in 0..MaxEdits
  BY <1>1, NumbersAssumption DEF IInv
<1>3. S \in Data
  BY DEF Sound
<1> DEFINE T == data'
<1>4. /\ T \in Data /\ T.pos = S.pos /\ T.ref = S.ref /\ T.idx = S.idx /\ T.mark = S.mark
      /\ T.unid = S.unid /\ T.uwid = S.uwid /\ T.raw = S.raw /\ T.n = 0
  BY <1>1, <1>3 DEF Data
<1> HIDE DEF T
<1>5. Sound(T)
  BY <1>4 DEF Sound, Fresh, Complete, Parents
<1> QED
  BY <1>2, <1>4, <1>5 DEF IInv, T

LEMMA LoggedSound ==
  ASSUME NEW S, Sound(S)
  PROVE  Sound([S EXCEPT !.fault = TRUE]) /\ Sound([S EXCEPT !.emerg = TRUE])
BY FlagsSound DEF SoundData

LEMMA SplitIInv ==
  ASSUME IInv, Split
  PROVE  IInv'
<1>1. PICK n \in Nodes, rs \in BOOLEAN :
        Call([op |-> "split", n |-> n, rs |-> rs], IF n \in DOMAIN data.idx THEN SplitAt(data, n, rs).S ELSE data)
  BY DEF Split
<1> DEFINE L == SplitAt(data, n, rs)
           S == IF n \in DOMAIN data.idx THEN L.S ELSE data
<1>2. Sound(data)
  BY DEF IInv
<1>3. L \in SplitStates
  BY <1>2, SplitAtSound
<1>4. Sound(S)
  <2> HIDE DEF L
  <2> QED
    BY <1>2, <1>3 DEF SplitStates, SoundData
<1> HIDE DEF L
<1>5. Call([op |-> "split", n |-> n, rs |-> rs], S)
  BY <1>1 DEF L
<1> HIDE DEF S
<1> QED
  BY <1>4, <1>5, CallIInv

LEMMA ZerowayIInv ==
  ASSUME IInv, Zeroway
  PROVE  IInv'
<1>0. Sound(data)
  BY DEF IInv
<1>1. PICK n \in Nodes :
        \/ Call([op |-> "zeroway", n |-> n], data)
        \/ Call([op |-> "zeroway", n |-> n], [data EXCEPT !.fault = TRUE])
        \/ n \in DOMAIN data.idx /\ ~NoFirstWay(data, n) /\ Call([op |-> "zeroway", n |-> n], ZeroAt(data, n).S)
  BY DEF Zeroway
<1>2. CASE Call([op |-> "zeroway", n |-> n], data)
  BY <1>0, <1>2, CallIInv
<1>3. CASE Call([op |-> "zeroway", n |-> n], [data EXCEPT !.fault = TRUE])
  <2> DEFINE S == [data EXCEPT !.fault = TRUE]
  <2>1. Sound(S)
    BY <1>0, LoggedSound
  <2> HIDE DEF S
  <2> QED
    BY <1>3, <2>1, CallIInv DEF S
<1>4. CASE n \in DOMAIN data.idx /\ ~NoFirstWay(data, n) /\ Call([op |-> "zeroway", n |-> n], ZeroAt(data, n).S)
  <2> DEFINE S == ZeroAt(data, n).S
             list == data.idx[n]
  <2>1. n \in DOMAIN data.pos
    BY DEF Nodes
  <2>2. NextRevWay(list, 0) >= 0
    <3>1. list \in Ids
      <4>1. data.idx \in Fns(Int, Ids)
        BY <1>0 DEF Sound, Data
      <4> QED
        BY <1>4, <4>1, FnsIs
    <3>2. ~(NextRevWay(list, 0) < 0)
      BY <1>4 DEF NoFirstWay
    <3> HIDE DEF list
    <3>3. NextRevWay(list, 0) \in {-1, -2} \cup {i \in Nat : i >= 0}
      BY <3>1, NextRevWayIs
    <3> QED
      BY <3>2, <3>3
  <2>3. ZeroAt(data, n) \in ZeroStates(n, list)
    BY <1>0, <1>4, <2>1, <2>2, ZeroAtSound
  <2>4. Sound(S)
    BY <2>3 DEF ZeroStates, SoundData
  <2> HIDE DEF S
  <2> QED
    BY <1>4, <2>4, CallIInv DEF S
<1> QED
  BY <1>1, <1>2, <1>3, <1>4

LEMMA InsEqdistIInv ==
  ASSUME IInv, InsEqdist
  PROVE  IInv'
<1>0. Sound(data) /\ data \in Data
  BY DEF IInv, Sound
<1> DEFINE first(w) == SelectInSubSeq(data.ref[w], 1, Len(data.ref[w]) - 1, LAMBDA n : n \in Nodes)
           after(w, dist) == IF first(w) = 0 THEN [data EXCEPT !.emerg = TRUE] ELSE EqdistFrom(data, w, dist, first(w)).S
<1>1. PICK w \in Ways, dist \in Dists : Call([op |-> "ins_eqdist", w |-> w, dist |-> dist], after(w, dist))
  BY DEF InsEqdist
<1> DEFINE i == first(w)
           s == data.ref[w]
           I == {k \in 1..(Len(s) - 1) : s[k] \in Nodes}
           S == after(w, dist)
<1>2. i = IF I # {} THEN Min(I) ELSE 0
  BY DEF SelectInSubSeq
<1>3. S = IF i = 0 THEN [data EXCEPT !.emerg = TRUE] ELSE EqdistFrom(data, w, dist, i).S
  OBVIOUS
<1>4. Call([op |-> "ins_eqdist", w |-> w, dist |-> dist], S)
  BY <1>1
<1>5. w \in DOMAIN data.ref /\ dist \in Int
  BY NumbersAssumption DEF Ways
<1> HIDE DEF S, i, first, after
<1>6. Sound(S)
  <2>1. CASE i = 0
    BY <1>0, <1>3, <2>1, LoggedSound
  <2>2. CASE i # 0
    <3>1. I # {} /\ i = Min(I) /\ I \in SUBSET Nat
      BY <1>2, <2>2
    <3>2. i \in I
      <4> HIDE DEF I
      <4> QED
        BY <3>1, MinIs
    <3>3. i \in Nat /\ data.ref[w][i] \in DOMAIN data.pos
      BY <3>1, <3>2 DEF Nodes
    <3>4. EqdistFrom(data, w, dist, i) \in EqdistStates(w)
      BY <1>0, <1>5, <3>3, EqdistFromSound
    <3> QED
      BY <1>3, <2>2, <3>4 DEF EqdistStates, SoundData
  <2> QED
    BY <2>1, <2>2
<1> QED
  BY <1>4, <1>6, CallIInv

LEMMA WrapDetectIInv ==
  ASSUME IInv, WrapDetect
  PROVE  IInv'
<1>0. Sound(data)
  BY DEF IInv
<1>1. PICK w \in Ways, noinsert \in BOOLEAN :
        Call([op |-> "wrapdetect", w |-> w, noinsert |-> noinsert], WrapFrom(data, w, noinsert).S)
  BY DEF WrapDetect
<1> DEFINE L == WrapFrom(data, w, noinsert)
<1>2. L \in WrapStates(w)
  BY <1>0, WrapFromSound DEF Ways
<1> HIDE DEF L
<1>3. Sound(L.S)
  BY <1>2 DEF WrapStates, SoundData
<1> QED
  BY <1>1, <1>3, CallIInv DEF L

LEMMA SimplifyIInv ==
  ASSUME IInv, Simplify
  PROVE  IInv'
<1>0. Sound(data) /\ data \in Data
  BY DEF IInv, Sound
<1> DEFINE thin(w, dist) == CheckWay(Thinned(data.pos, data.ref[w], Present(data, w), dist))
           R(w, dist) == CASE PathLen(data.pos, Present(data, w)) < dist -> FreeWay(data, w)
                 [] OTHER -> IF data.ref[w][Len(data.ref[w])] \notin Nodes THEN [data EXCEPT !.fault = TRUE]
                             ELSE IF thin(w, dist) = <<>> THEN FreeWay(data, w)
                             ELSE [data EXCEPT !.ref[w] = thin(w, dist)]
<1>1. PICK w \in Ways, dist \in Dists :
        /\ Len(data.ref[w]) >= 2 /\ data.ref[w][1] \in Nodes
        /\ Call([op |-> "simplify", w |-> w, dist |-> dist], R(w, dist))
  BY DEF Simplify
<1> DEFINE s == data.ref[w]
           t == thin(w, dist)
           S == R(w, dist)
<1>2. w \in DOMAIN data.ref /\ s \in Ids
  BY <1>0, RefIs DEF Ways
<1>3. Thinned(data.pos, s, Present(data, w), dist) \in PartsOf(s)
  BY <1>0, <1>1, <1>2, ThinnedIs DEF Nodes
<1>4. t \in Ids /\ Range(t) \subseteq Range(s)
  <2> DEFINE k == Thinned(data.pos, s, Present(data, w), dist)
  <2>1. k \in Ids /\ Range(k) \subseteq Range(s)
    BY <1>3 DEF PartsOf
  <2>2. t = CheckWay(k)
    OBVIOUS
  <2> HIDE DEF k, t
  <2>3. t \in PartsOf(k)
    BY <2>1, <2>2, CheckWayIs
  <2> QED
    BY <2>1, <2>3 DEF PartsOf
<1>5. \/ S = FreeWay(data, w) \/ S = [data EXCEPT !.fault = TRUE] \/ S = [data EXCEPT !.ref[w] = t]
  <2> HIDE DEF thin
  <2> QED
    OBVIOUS
<1>6. Call([op |-> "simplify", w |-> w, dist |-> dist], S)
  BY <1>1
<1> HIDE DEF t, thin, S, R, s
<1>7. Sound(S)
  <2>1. CASE S = FreeWay(data, w)
    BY <1>0, <2>1, FreeWaySound
  <2>2. CASE S = [data EXCEPT !.fault = TRUE]
    BY <1>0, <2>2, LoggedSound
  <2>3. CASE S = [data EXCEPT !.ref[w] = t]
    BY <1>0, <1>2, <1>4, <2>3, ShorterSound DEF s
  <2> QED
    BY <1>5, <2>1, <2>2, <2>3
<1> QED
  BY <1>6, <1>7, CallIInv

LEMMA CheckIInv ==
  ASSUME IInv, Check
  PROVE  IInv'
<1>0. Sound(data) /\ data \in Data
  BY DEF IInv, Sound
<1> DEFINE R(w) == IF CheckWay(data.ref[w]) = <<>> THEN FreeWay(data, w) ELSE [data EXCEPT !.ref[w] = CheckWay(data.ref[w])]
<1>1. PICK w \in Ways : Call([op |-> "check", w |-> w], R(w))
  BY DEF Check
<1> DEFINE s == data.ref[w]
           t == CheckWay(s)
           S == R(w)
<1>2. w \in DOMAIN data.ref /\ s \in Ids
  BY <1>0, RefIs DEF Ways
<1>3. t \in Ids /\ Range(t) \subseteq Range(s)
  BY <1>2, CheckWayIs DEF PartsOf
<1>4. S = FreeWay(data, w) \/ S = [data EXCEPT !.ref[w] = t]
  OBVIOUS
<1>5. Call([op |-> "check", w |-> w], S)
  BY <1>1
<1> HIDE DEF S, R, t, s
<1>6. Sound(S)
  <2>1. CASE S = FreeWay(data, w)
    BY <1>0, <2>1, FreeWaySound
  <2>2. CASE S = [data EXCEPT !.ref[w] = t]
    BY <1>0, <1>2, <1>3, <2>2, ShorterSound DEF s
  <2> QED
    BY <1>4, <2>1, <2>2
<1> QED
  BY <1>5, <1>6, CallIInv

LEMMA VirtclosedIInv ==
  ASSUME IInv, Virtclosed
  PROVE  IInv'
<1>0. Sound(data) /\ data \in Data
  BY DEF IInv, Sound
<1> DEFINE R(w, dist) ==
             IF Len(data.ref[w]) < 2 THEN [data EXCEPT !.emerg = TRUE]
             ELSE IF /\ {data.ref[w][1], data.ref[w][Len(data.ref[w])]} \subseteq Nodes
                     /\ Diff(data.pos[data.ref[w][1]], data.pos[data.ref[w][Len(data.ref[w])]]) < dist
             THEN [data EXCEPT !.ref[w] = Append(@, data.ref[w][1])]
             ELSE data
<1>1. PICK w \in Ways, dist \in Dists : Call([op |-> "virtclosed", w |-> w, dist |-> dist], R(w, dist))
  BY DEF Virtclosed
<1> DEFINE s == data.ref[w]
           t == Append(s, s[1])
           S == R(w, dist)
<1>2. w \in DOMAIN data.ref /\ s \in Ids
  BY <1>0, RefIs DEF Ways
<1>3. ASSUME ~(Len(s) < 2)
      PROVE  t \in Ids /\ Range(t) \subseteq Range(s)
  <2>1. 1 \in 1..Len(s)
    BY <1>2, <1>3 DEF Ids
  <2>2. s[1] \in Int /\ s[1] \in Range(s)
    BY <1>2, <2>1, ElementIs
  <2>3. s \in Seq(Int)
    BY <1>2 DEF Ids
  <2> DEFINE x == s[1]
  <2> HIDE DEF s, x
  <2>4. Append(s, x) \in Seq(Int) /\ Range(Append(s, x)) = Range(s) \cup {x}
    BY <2>2, <2>3, AppendIs DEF x
  <2> QED
    BY <2>2, <2>4 DEF x, Ids
<1>4. \/ S = [data EXCEPT !.emerg = TRUE] \/ (~(Len(s) < 2) /\ S = [data EXCEPT !.ref[w] = t]) \/ S = data
  OBVIOUS
<1>5. Call([op |-> "virtclosed", w |-> w, dist |-> dist], S)
  BY <1>1
<1> HIDE DEF S, R, t, s
<1>6. Sound(S)
  <2>1. CASE S = [data EXCEPT !.emerg = TRUE]
    BY <1>0, <2>1, LoggedSound
  <2>2. CASE ~(Len(s) < 2) /\ S = [data EXCEPT !.ref[w] = t]
    BY <1>0, <1>2, <1>3, <2>2, ShorterSound DEF s
  <2> QED
    BY <1>0, <1>4, <2>1, <2>2
<1> QED
  BY <1>5, <1>6, CallIInv

LEMMA SetDirectionIInv ==
  ASSUME IInv, SetDirection
  PROVE  IInv'
<1>0. Sound(data) /\ data \in Data
  BY DEF IInv, Sound
<1> DEFINE turn(w, dir) == Closed(data.ref[w]) /\ Range(data.ref[w]) \subseteq Nodes /\ Sgn(Area(data.pos, data.ref[w])) = -dir
           R(w, dir) == IF turn(w, dir) THEN [data EXCEPT !.ref[w] = ReverseWay(data.ref[w])] ELSE data
<1>1. PICK w \in Ways, dir \in {-1, 1} : Call([op |-> "set_direction", w |-> w, dir |-> dir], R(w, dir))
  BY DEF SetDirection
<1> DEFINE s == data.ref[w]
           t == ReverseWay(s)
           S == R(w, dir)
<1>2. w \in DOMAIN data.ref /\ s \in Ids
  BY <1>0, RefIs DEF Ways
<1>3. t \in Ids /\ Range(t) \subseteq Range(s)
  BY <1>2, ReverseWayIs DEF PartsOf
<1>4. S = data \/ S = [data EXCEPT !.ref[w] = t]
  <2> HIDE DEF turn
  <2> QED
    OBVIOUS
<1>5. Call([op |-> "set_direction", w |-> w, dir |-> dir], S)
  BY <1>1
<1> HIDE DEF S, R, t, s, turn
<1>6. Sound(S)
  <2>1. CASE S = [data EXCEPT !.ref[w] = t]
    BY <1>0, <1>2, <1>3, <2>1, ShorterSound DEF s
  <2> QED
    BY <1>0, <1>4, <2>1
<1> QED
  BY <1>5, <1>6, CallIInv

LEMMA ShapeIInv ==
  ASSUME IInv, Shape
  PROVE  IInv'
<1>0. Sound(data) /\ data \in Data
  BY DEF IInv, Sound
<1> DEFINE nodes(o, way) == IF way THEN Present(data, o) ELSE <<o>>
<1>1. PICK o \in Nodes \cup Ways, kind \in {"ring", "arc", "sector", "star"}, way \in BOOLEAN :
        /\ o \in (IF way THEN Ways ELSE Nodes)
        /\ Call([op |-> "shape", o |-> o, kind |-> kind], ShapeAll(data, nodes(o, way), kind))
  BY DEF Shape
<1> DEFINE ns == nodes(o, way)
           S == ShapeAll(data, ns, kind)
<1>2. ns \in Ids /\ \A i \in 1..Len(ns) : ns[i] \in DOMAIN data.pos
  <2>1. CASE way
    <3> DEFINE p == Present(data, o)
    <3>1. o \in DOMAIN data.ref
      BY <1>1, <2>1 DEF Ways
    <3>2. p = Present(data, o) /\ ns = p
      BY <2>1
    <3> HIDE DEF p, ns
    <3>3. PresentIn(data, o, p)
      BY <1>0, <3>1, <3>2, PresentIs
    <3> QED
      BY <3>2, <3>3 DEF PresentIn, PartsOf
  <2>2. CASE ~way
    <3>1. o \in DOMAIN data.pos /\ o \in Int
      BY <1>0, <1>1, <2>2, PosIs DEF Nodes
    <3>2. ns = <<o>>
      BY <2>2
    <3> HIDE DEF ns
    <3> QED
      BY <3>1, <3>2 DEF Ids
  <2> QED
    BY <2>1, <2>2
<1> HIDE DEF ns
<1>3. S \in {T \in SoundData : DOMAIN data.pos \subseteq DOMAIN T.pos}
  BY <1>0, <1>2, ShapeAllIs
<1>4. Sound(S)
  <2> HIDE DEF S
  <2> QED
    BY <1>3 DEF SoundData
<1>5. Call([op |-> "shape", o |-> o, kind |-> kind], S)
  BY <1>1 DEF ns
<1> HIDE DEF S
<1> QED
  BY <1>4, <1>5, CallIInv

LEMMA RefinePolyIInv ==
  ASSUME IInv, RefinePoly
  PROVE  IInv'
<1>0. Sound(data)
  BY DEF IInv
<1> DEFINE R(w) == IF Range(data.ref[w]) \subseteq Nodes THEN Refine(data, w) ELSE [data EXCEPT !.emerg = TRUE]
<1>1. PICK w \in Ways : Len(data.ref[w]) >= 3 /\ Call([op |-> "refine_poly", w |-> w], R(w))
  BY DEF RefinePoly
<1> DEFINE S == R(w)
<1>2. \/ S = [data EXCEPT !.emerg = TRUE] \/ (Range(data.ref[w]) \subseteq Nodes /\ S = Refine(data, w))
  OBVIOUS
<1>3. Call([op |-> "refine_poly", w |-> w], S)
  BY <1>1
<1> HIDE DEF S, R
<1>4. Sound(S)
  <2>1. CASE S = [data EXCEPT !.emerg = TRUE]
    BY <1>0, <2>1, LoggedSound
  <2>2. CASE Range(data.ref[w]) \subseteq Nodes /\ S = Refine(data, w)
    BY <1>0, <1>1, <2>2, RefineSound DEF Nodes, Ways
  <2> QED
    BY <1>2, <2>1, <2>2
<1> QED
  BY <1>3, <1>4, CallIInv

LEMMA FixBorderNodesIInv ==
  ASSUME IInv, FixBorderNodes
  PROVE  IInv'
<1>0. Sound(data) /\ data \in Data
  BY DEF IInv, Sound
<1> DEFINE p(n, dist) == <<Inside(data.pos[n][1], Meridian \div 2, dist), Inside(data.pos[n][2], Meridian, dist)>>
<1>1. PICK n \in Nodes, dist \in Dists : Call([op |-> "fixbordernodes", n |-> n], [data EXCEPT !.pos[n] = p(n, dist)])
  BY DEF FixBorderNodes
<1> DEFINE q == p(n, dist)
           S == [data EXCEPT !.pos[n] = q]
<1>2. n \in DOMAIN data.pos /\ dist \in Int /\ Meridian \in Int /\ Meridian \div 2 \in Int
  BY NumbersAssumption DEF Nodes
<1>3. data.pos[n] \in Pos /\ data.pos[n][1] \in Int /\ data.pos[n][2] \in Int
  BY <1>0, <1>2, PosIs DEF Pos
<1>4. \A c, limit \in Int : Inside(c, limit, dist) \in Int
  BY <1>2 DEF Inside
<1>5. q \in Pos
  <2>1. Inside(data.pos[n][1], Meridian \div 2, dist) \in Int /\ Inside(data.pos[n][2], Meridian, dist) \in Int
    BY <1>2, <1>3, <1>4
  <2> QED
    BY <2>1 DEF Pos
<1>6. S = [data EXCEPT !.pos[n] = q] /\ Call([op |-> "fixbordernodes", n |-> n], S)
  BY <1>1
<1> HIDE DEF S, q, p
<1>7. Sound(S)
  BY <1>0, <1>2, <1>5, <1>6, MovedSound
<1> QED
  BY <1>6, <1>7, CallIInv

LEMMA NextIInv == IInv /\ [Next]_vars => IInv'
<1> SUFFICES ASSUME IInv, [Next]_vars
             PROVE  IInv'
  OBVIOUS
<1>1. CASE Split
  BY <1>1, SplitIInv
<1>2. CASE Zeroway
  BY <1>2, ZerowayIInv
<1>3. CASE InsEqdist
  BY <1>3, InsEqdistIInv
<1>4. CASE WrapDetect
  BY <1>4, WrapDetectIInv
<1>5. CASE Simplify
  BY <1>5, SimplifyIInv
<1>6. CASE Check
  BY <1>6, CheckIInv
<1>7. CASE Virtclosed
  BY <1>7, VirtclosedIInv
<1>8. CASE SetDirection
  BY <1>8, SetDirectionIInv
<1>9. CASE Shape
  BY <1>9, ShapeIInv
<1>10. CASE RefinePoly
  BY <1>10, RefinePolyIInv
<1>11. CASE FixBorderNodes
  BY <1>11, FixBorderNodesIInv
<1>12. CASE UNCHANGED vars
  BY <1>12 DEF vars, IInv
<1> QED
  BY <1>1, <1>2, <1>3, <1>4, <1>5, <1>6, <1>7, <1>8, <1>9, <1>10, <1>11, <1>12 DEF Next

\* The inductive invariant of every behaviour: besides what is to be shown it has
\* the ids, because a new node would come without its parents into a way in which
\* its id is used already.
THEOREM Invariant == Spec => []IInv
BY InitIInv, NextIInv, PTL DEF Spec

\* Positions, ways and lists of parents keep their form, marked nodes are in the
\* tree (smfunc.c).
THEOREM TypeCorrect == Spec => []TypeOK
<1>1. IInv => TypeOK
  <2> SUFFICES ASSUME IInv
               PROVE  TypeOK
    OBVIOUS
  <2>1. Sound(data) /\ data \in Data /\ Fresh(data) /\ data.mark \subseteq DOMAIN data.pos
    BY DEF IInv, Sound
  <2>2. \A n \in Nodes : n \in Int /\ data.pos[n] \in Int \X Int
    BY <2>1, PosIs DEF Nodes, Pos
  <2>3. \A w \in Ways : w \in Int /\ w < 100 /\ data.ref[w] \in Seq(Int)
    BY <2>1, RefIs DEF Ways, Ids, Fresh
  <2>4. \A n \in DOMAIN data.idx : data.idx[n] \in Seq(Int)
    <3>1. data.idx \in Fns(Int, Ids)
      BY <2>1 DEF Data
    <3> QED
      BY <3>1, FnsIs DEF Ids
  <2>5. data.raw \subseteq Int /\ {data.emerg, data.fault} \subseteq BOOLEAN
    BY <2>1 DEF Data
  <2> QED
    BY <2>1, <2>2, <2>3, <2>4, <2>5 DEF TypeOK, IInv, Fresh, Nodes
<1> QED
  BY <1>1, Invariant, PTL

\* The ids of new objects were never used before, neither by an object nor by a
\* node that is only known from a way (set_unique_node_id(), set_unique_way_id()).
NewIds ==
  /\ \A n \in Nodes : n > data.unid
  /\ \A w \in Ways : w > data.uwid /\ \A n \in Range(data.ref[w]) : n > data.unid
THEOREM NewIdsAreNew == Spec => []NewIds
<1>1. IInv => NewIds
  BY DEF IInv, Sound, Fresh, NewIds, Nodes, Ways
<1> QED
  BY <1>1, Invariant, PTL

\* The index stays complete: after any calls in any order, on any data, the list of
\* a node has every way the node is in, but for the ways of shapes and of refined
\* polygons (add_rev_ptr(), insert_refs() and update_rev_ptr()).
THEOREM IndexStaysComplete == Spec => []IndexComplete
<1>1. IInv => IndexComplete
  BY DEF IInv, Sound, Complete, Parents, IndexComplete, Nodes, Ways
<1> QED
  BY <1>1, Invariant, PTL

(***************************************************************************)
(* The direction of ways                                                   *)
(***************************************************************************)
\* Twice the area between a segment and the origin, up to its sign.
Cross(pos, s, i) == pos[s[i]][2] * pos[s[i + 1]][1] - pos[s[i + 1]][2] * pos[s[i]][1]

LEMMA CrossIs ==
  ASSUME NEW pos, NEW s, NEW i, pos[s[i]] \in Pos, pos[s[i + 1]] \in Pos
  PROVE  Cross(pos, s, i) \in Int
<1> DEFINE a == pos[s[i]]
           b == pos[s[i + 1]]
<1>1. a \in Pos /\ b \in Pos /\ Cross(pos, s, i) = a[2] * b[1] - b[2] * a[1]
  BY DEF Cross
<1> HIDE DEF a, b
<1>2. a[1] \in Int /\ a[2] \in Int /\ b[1] \in Int /\ b[2] \in Int
  BY <1>1 DEF Pos
<1> QED
  BY <1>1, <1>2

\* The sums of the first segments up to k of them.
Sums(f, k, pos, s) ==
  f \in [0..k -> Int] /\ f[0] = 0 /\ \A i \in 1..k : f[i] = f[i - 1] + Cross(pos, s, i)

\* The area is the sum over all segments.
LEMMA AreaIs ==
  ASSUME NEW pos, NEW s \in Ids, Len(s) >= 1, \A i \in 1..Len(s) : pos[s[i]] \in Pos
  PROVE  \E f : Sums(f, Len(s) - 1, pos, s) /\ Area(pos, s) = f[Len(s) - 1]
<1> DEFINE k == Len(s) - 1
           seq == [i \in 1..k |-> i]
           F == CHOOSE g : g = [i \in 0..Len(seq) |-> IF i = 0 THEN 0 ELSE g[i - 1] + Cross(pos, s, seq[i])]
           G == [x \in (1..k) \X Int |-> x[2] + Cross(pos, s, x[1])]
<1>1. k \in Nat /\ k + 1 = Len(s)
  BY DEF Ids
<1>2. Area(pos, s) = F[Len(seq)]
  BY DEF Area, InTurn, Cross
<1> HIDE DEF k
<1>3. Len(seq) = k /\ \A i \in 1..k : seq[i] = i
  BY <1>1
<1> HIDE DEF seq
<1>4. \A i \in 1..k : Cross(pos, s, i) \in Int
  <2> SUFFICES ASSUME NEW i \in 1..k
               PROVE  Cross(pos, s, i) \in Int
    OBVIOUS
  <2>1. i \in 1..Len(s) /\ i + 1 \in 1..Len(s)
    BY <1>1
  <2> QED
    BY <2>1, CrossIs
<1>5. G \in [(1..k) \X Int -> Int]
  BY <1>4
<1> HIDE DEF G
<1>6. \E g : Recursive(g, Int, k, 0, G)
  <2>1. k \in Nat /\ 0 \in Int
    BY <1>1
  <2>2. ASSUME NEW b \in Int
        PROVE  \E g : Recursive(g, Int, k, b, G)
    BY <1>1, <1>5, Recursion
  <2> QED
    BY <2>1, <2>2
<1>7. PICK g \in [0..k -> Int] : g[0] = 0 /\ \A i \in 1..k : g[i] = G[<<i, g[i - 1]>>]
  BY <1>6 DEF Recursive
<1>8. \A i \in 1..k : g[i] = g[i - 1] + Cross(pos, s, i)
  <2> SUFFICES ASSUME NEW i \in 1..k
               PROVE  G[<<i, g[i - 1]>>] = g[i - 1] + Cross(pos, s, i)
    BY <1>7
  <2>1. <<i, g[i - 1]>> \in (1..k) \X Int
    BY <1>1, <1>7
  <2> QED
    BY <2>1 DEF G
<1>9. g = [i \in 0..Len(seq) |-> IF i = 0 THEN 0 ELSE g[i - 1] + Cross(pos, s, seq[i])]
  <2>1. \A i \in 0..k : g[i] = IF i = 0 THEN 0 ELSE g[i - 1] + Cross(pos, s, seq[i])
    <3> SUFFICES ASSUME NEW i \in 0..k
                 PROVE  g[i] = IF i = 0 THEN 0 ELSE g[i - 1] + Cross(pos, s, seq[i])
      OBVIOUS
    <3>1. CASE i = 0
      BY <1>7, <3>1
    <3>2. CASE i # 0
      <4>1. i \in 1..k
        BY <1>1, <3>2
      <4> QED
        BY <1>3, <1>8, <3>2, <4>1
    <3> QED
      BY <3>1, <3>2
  <2> QED
    BY <1>3, <1>7, <2>1
<1>10. F = [i \in 0..Len(seq) |-> IF i = 0 THEN 0 ELSE F[i - 1] + Cross(pos, s, seq[i])]
  BY <1>9
<1> HIDE DEF F
<1>11. F[0] = 0 /\ \A i \in 1..k : F[i] = F[i - 1] + Cross(pos, s, i)
  <2>1. F[0] = 0
    BY <1>1, <1>3, <1>10
  <2>2. ASSUME NEW i \in 1..k
        PROVE  F[i] = F[i - 1] + Cross(pos, s, i)
    <3>1. i \in 0..Len(seq) /\ i # 0 /\ seq[i] = i
      BY <1>1, <1>3
    <3> QED
      BY <1>10, <3>1
  <2> QED
    BY <2>1, <2>2
<1>12. \A i \in 0..k : F[i] \in Int
  <2>1. F[0] \in Int
    BY <1>11
  <2>2. ASSUME NEW i \in 1..k, F[i - 1] \in Int
        PROVE  F[i] \in Int
    BY <1>4, <1>11, <2>2
  <2> QED
    BY <1>1, <2>1, <2>2, Within
<1>13. F \in [0..k -> Int]
  BY <1>3, <1>10, <1>12
<1> QED
  BY <1>2, <1>3, <1>11, <1>13 DEF Sums, k

\* A closed way is reversed completely, because its ends are the same node.
LEMMA ReversedIs ==
  ASSUME NEW s \in Ids, Closed(s), NEW r, r = ReverseWay(s)
  PROVE  Len(s) \in Nat /\ r \in Ids /\ Len(r) = Len(s) /\ \A i \in 1..Len(s) : r[i] = s[Len(s) + 1 - i]
<1> DEFINE n == Len(s)
<1>1. n \in Nat /\ n >= 4 /\ s[1] = s[n] /\ DOMAIN s = 1..n
  BY DEF Closed, Ids
<1>2. r = [i \in 1..n |-> IF i \in {1, n} THEN s[i] ELSE s[n + 1 - i]]
  BY <1>1 DEF ReverseWay
<1>3. r \in Ids
  BY ReverseWayIs DEF PartsOf
<1> HIDE DEF n
<1>4. \A i \in 1..n : r[i] = s[n + 1 - i]
  BY <1>1, <1>2
<1>5. DOMAIN r = 1..n /\ DOMAIN r = 1..Len(r) /\ Len(r) \in Nat
  <2>1. DOMAIN r = 1..n
    BY <1>2
  <2>2. r \in Seq(Int)
    BY <1>3 DEF Ids
  <2> QED
    BY <2>1, <2>2
<1>6. Len(r) = n
  BY <1>1, <1>5
<1> QED
  BY <1>1, <1>3, <1>4, <1>6 DEF n

\* Reversed, a ring has the opposite area.
LEMMA ReversedArea ==
  ASSUME NEW pos, NEW s \in Ids, Closed(s), \A i \in 1..Len(s) : pos[s[i]] \in Pos
  PROVE  Area(pos, s) \in Int /\ Area(pos, ReverseWay(s)) = -Area(pos, s)
<1> DEFINE r == ReverseWay(s)
           n == Len(s)
           k == n - 1
<1>1. n \in Nat /\ n >= 1 /\ r \in Ids /\ Len(r) = n /\ \A i \in 1..n : r[i] = s[n + 1 - i]
  BY ReversedIs DEF Closed
<1>2. PICK f : Sums(f, k, pos, s) /\ Area(pos, s) = f[k]
  BY <1>1, AreaIs
<1>3. \A i \in 1..n : pos[r[i]] \in Pos
  <2> SUFFICES ASSUME NEW i \in 1..n
               PROVE  pos[r[i]] \in Pos
    OBVIOUS
  <2>1. n + 1 - i \in 1..Len(s) /\ r[i] = s[n + 1 - i]
    BY <1>1
  <2> QED
    BY <2>1
<1> HIDE DEF r
<1>4. PICK g : Sums(g, k, pos, r) /\ Area(pos, r) = g[k]
  <2>1. \E g : Sums(g, Len(r) - 1, pos, r) /\ Area(pos, r) = g[Len(r) - 1]
    BY <1>1, <1>3, AreaIs
  <2> QED
    BY <1>1, <2>1
<1>5. k \in Nat /\ n = k + 1
  BY <1>1
<1>6. \A i \in 1..n : s[i] = s[i] /\ pos[s[i]] \in Pos
  OBVIOUS
<1> HIDE DEF n, k
<1>7. /\ \A i \in 0..k : f[i] \in Int /\ g[i] \in Int
      /\ f[0] = 0 /\ \A i \in 1..k : f[i] = f[i - 1] + Cross(pos, s, i)
      /\ g[0] = 0 /\ \A i \in 1..k : g[i] = g[i - 1] + Cross(pos, r, i)
  BY <1>2, <1>4 DEF Sums
<1>8. ASSUME NEW i \in 1..k
      PROVE  Cross(pos, r, i) = -Cross(pos, s, k + 1 - i)
  <2> DEFINE j == k + 1 - i
             a == pos[s[j]]
             b == pos[s[j + 1]]
  <2>1. i \in 1..n /\ i + 1 \in 1..n /\ j \in 1..n /\ j + 1 \in 1..n /\ n + 1 - i = j + 1 /\ n + 1 - (i + 1) = j
    BY <1>5
  <2>2. r[i] = s[j + 1] /\ r[i + 1] = s[j]
    <3>1. r[i] = s[n + 1 - i] /\ r[i + 1] = s[n + 1 - (i + 1)]
      BY <1>1, <2>1
    <3> QED
      BY <2>1, <3>1
  <2>3. a \in Pos /\ b \in Pos
    BY <1>6, <2>1
  <2>4. Cross(pos, r, i) = b[2] * a[1] - a[2] * b[1]
    BY <2>2 DEF Cross
  <2>5. Cross(pos, s, j) = a[2] * b[1] - b[2] * a[1]
    BY DEF Cross
  <2> HIDE DEF a, b, j
  <2>6. a[1] \in Int /\ a[2] \in Int /\ b[1] \in Int /\ b[2] \in Int
    BY <2>3 DEF Pos
  <2> DEFINE x == b[2] * a[1]
             y == a[2] * b[1]
  <2>7. x \in Int /\ y \in Int
    BY <2>6
  <2> HIDE DEF x, y
  <2>8. x - y = -(y - x)
    BY <2>7
  <2> QED
    BY <2>4, <2>5, <2>8 DEF x, y, j
<1> DEFINE N == {i \in 0..k : g[i] = f[k - i] - f[k]}
<1>9. 0 \in N
  <2>1. k - 0 = k /\ 0 \in 0..k /\ k \in 0..k
    BY <1>5
  <2>2. f[k] - f[k] = 0
    BY <1>7, <2>1
  <2> QED
    BY <1>7, <2>1, <2>2
<1>10. ASSUME NEW i \in 1..k, i - 1 \in N
       PROVE  i \in N
  <2> DEFINE j == k + 1 - i
  <2>1. j \in 1..k /\ j - 1 = k - i /\ k - (i - 1) = j /\ j - 1 \in 0..k /\ j \in 0..k /\ i \in 0..k /\ i - 1 \in 0..k /\ k \in 0..k
    BY <1>5
  <2>7. Cross(pos, s, j) \in Int
    <3>1. j \in 1..n /\ j + 1 \in 1..n
      BY <1>5, <2>1
    <3> HIDE DEF j
    <3>2. pos[s[j]] \in Pos /\ pos[s[j + 1]] \in Pos
      BY <1>6, <3>1
    <3> QED
      BY <3>2, CrossIs
  <2>2. g[i - 1] = f[j] - f[k]
    BY <1>10, <2>1
  <2>3. g[i] = g[i - 1] - Cross(pos, s, j)
    <3>1. g[i] = g[i - 1] + Cross(pos, r, i) /\ Cross(pos, r, i) = -Cross(pos, s, j)
      BY <1>7, <1>8
    <3>3. g[i - 1] \in Int
      BY <1>7, <2>1
    <3> HIDE DEF j
    <3> QED
      BY <2>7, <3>1, <3>3
  <2>4. f[j] = f[j - 1] + Cross(pos, s, j)
    BY <1>7, <2>1
  <2>5. f[j] \in Int /\ f[j - 1] \in Int /\ f[k] \in Int
    BY <1>7, <2>1
  <2> HIDE DEF j
  <2>6. g[i] = f[j - 1] - f[k]
    <3> DEFINE c == Cross(pos, s, j)
    <3>2. f[j] = f[j - 1] + c /\ g[i] = (f[j] - f[k]) - c
      BY <2>2, <2>3, <2>4
    <3>3. c \in Int
      BY <2>7
    <3> HIDE DEF c
    <3> QED
      BY <2>5, <3>2, <3>3
  <2> QED
    BY <2>1, <2>6
<1> HIDE DEF N
<1>11. k \in N
  <2>1. 0..k \subseteq N
    BY <1>5, <1>9, <1>10, InductionTo
  <2> QED
    BY <1>5, <2>1
<1>12. k - k = 0 /\ k \in 0..k
  BY <1>5
<1>13. g[k] = f[0] - f[k] /\ f[k] \in Int
  BY <1>7, <1>11, <1>12 DEF N
<1> QED
  BY <1>2, <1>4, <1>7, <1>13 DEF r

\* The segments between a and b, from a to b and from b to a.
Between(S, a, b) == SegmentsAt(S, a, b) \cup SegmentsAt(S, b, a)
Ends(s, i, a, b) == (s[i] = a /\ s[i + 1] = b) \/ (s[i] = b /\ s[i + 1] = a)

LEMMA BetweenIs ==
  ASSUME NEW S, NEW a, NEW b, NEW v, NEW i
  PROVE  <<v, i>> \in Between(S, a, b)
           <=> v \in DOMAIN S.ref /\ i \in 1..(Len(S.ref[v]) - 1) /\ Ends(S.ref[v], i, a, b)
<1>1. <<v, i>> \in Places(S) <=> v \in DOMAIN S.ref /\ i \in 1..(Len(S.ref[v]) - 1)
  BY DEF Places
<1> QED
  BY <1>1 DEF Between, SegmentsAt, Ends

LEMMA BetweenPairs ==
  ASSUME NEW S, NEW a, NEW b, NEW p \in Between(S, a, b)
  PROVE  p = <<p[1], p[2]>>
<1>1. p \in Places(S)
  BY DEF Between, SegmentsAt
<1>2. PICK w \in DOMAIN S.ref : p \in {w} \X (1..(Len(S.ref[w]) - 1))
  BY <1>1 DEF Places
<1> QED
  BY <1>2

LEMMA PlacesFinite ==
  ASSUME NEW S, IsFiniteSet(DOMAIN S.ref), \A w \in DOMAIN S.ref : S.ref[w] \in Ids
  PROVE  IsFiniteSet(Places(S))
<1> DEFINE D == DOMAIN S.ref
           Here(w) == {w} \X (1..(Len(S.ref[w]) - 1))
           At == [w \in D |-> Here(w)]
           H == Range(At)
<1>1. ASSUME NEW w \in D
      PROVE  IsFiniteSet(Here(w))
  <2> DEFINE k == Len(S.ref[w]) - 1
  <2>1. k \in Int
    BY DEF Ids
  <2> HIDE DEF k
  <2>2. IsFiniteSet(1..k) /\ IsFiniteSet({w})
    <3>1. ASSUME NEW a \in Int
          PROVE  IsFiniteSet(a..k)
      BY <2>1, FS_Interval
    <3>2. IsFiniteSet(1..k)
      BY <3>1
    <3>3. IsFiniteSet({w})
      BY FS_Singleton
    <3> QED
      BY <3>2, <3>3
  <2> QED
    BY <2>2, FS_Product DEF k
<1> HIDE DEF Here
<1>2. At \in [D -> H]
  BY DEF Range
<1>3. H = {Here(w) : w \in D}
  BY DEF Range
<1>4. IsFiniteSet(H)
  <2>1. At \in Surjection(D, Range(At))
    <3> HIDE DEF At, D
    <3> QED
      BY <1>2, Fun_RangeProperties DEF H
  <2> HIDE DEF At
  <2> QED
    BY <2>1, FS_Surjection
<1>5. \A h \in H : IsFiniteSet(h)
  BY <1>1, <1>3
<1>6. Places(S) = UNION H
  BY <1>3 DEF Places, Here
<1> HIDE DEF H
<1> QED
  BY <1>4, <1>5, <1>6, FS_UNION

LEMMA CountsSame ==
  ASSUME NEW A, NEW B, NEW C, NEW D, IsFiniteSet(A), IsFiniteSet(B), ExistsBijection(A \cup B, C \cup D),
         (A = B /\ C = D) \/ (A \cap B = {} /\ C \cap D = {})
  PROVE  Cardinality(C) + Cardinality(D) = Cardinality(A) + Cardinality(B)
<1>1. IsFiniteSet(A \cup B)
  BY FS_Union
<1>2. IsFiniteSet(C \cup D) /\ Cardinality(C \cup D) = Cardinality(A \cup B)
  BY <1>1, FS_Bijection
<1>3. IsFiniteSet(C) /\ IsFiniteSet(D)
  BY <1>2, FS_Subset
<1>4. /\ Cardinality(A \cup B) = Cardinality(A) + Cardinality(B) - Cardinality(A \cap B)
      /\ Cardinality(C \cup D) = Cardinality(C) + Cardinality(D) - Cardinality(C \cap D)
  BY <1>3, FS_Union
<1>5. Cardinality(A) \in Nat /\ Cardinality(B) \in Nat /\ Cardinality(C) \in Nat /\ Cardinality(D) \in Nat
  BY <1>3, FS_CardinalityType
<1>6. CASE A = B /\ C = D
  <2>1. A \cup B = A /\ C \cup D = C
    BY <1>6
  <2> QED
    BY <1>2, <1>6, <2>1
<1>7. CASE A \cap B = {} /\ C \cap D = {}
  <2>1. Cardinality(A \cap B) = 0 /\ Cardinality(C \cap D) = 0
    BY <1>7, FS_EmptySet
  <2> QED
    BY <1>2, <1>4, <1>5, <2>1
<1> QED
  BY <1>6, <1>7

\* Way w of S is a ring, in T it is reversed.
Turned(S, T, w) ==
  /\ \A v \in DOMAIN S.ref : S.ref[v] \in Ids
  /\ w \in DOMAIN S.ref /\ Closed(S.ref[w])
  /\ DOMAIN T.ref = DOMAIN S.ref /\ T.ref[w] = ReverseWay(S.ref[w])
  /\ \A v \in DOMAIN S.ref : v # w => T.ref[v] = S.ref[v]
LEMMA TurnedBetween ==
  ASSUME NEW S, NEW T, NEW w, Turned(S, T, w), NEW a, NEW b
  PROVE  ExistsBijection(Between(S, a, b), Between(T, a, b))
<1> DEFINE s == S.ref[w]
           r == T.ref[w]
           n == Len(s)
           A == Between(S, a, b)
           B == Between(T, a, b)
           to(p) == IF p[1] = w THEN <<w, n - p[2]>> ELSE p
           h == [p \in A |-> to(p)]
<1>1. /\ n \in Nat /\ Len(r) = n /\ \A i \in 1..n : r[i] = s[n + 1 - i]
  BY ReversedIs DEF Turned
<1>2. w \in DOMAIN S.ref /\ DOMAIN T.ref = DOMAIN S.ref /\ \A v \in DOMAIN S.ref : v # w => T.ref[v] = S.ref[v]
  BY DEF Turned
<1>3. \A v, i : <<v, i>> \in A <=> v \in DOMAIN S.ref /\ i \in 1..(Len(S.ref[v]) - 1) /\ Ends(S.ref[v], i, a, b)
  BY BetweenIs
<1>4. \A v, i : <<v, i>> \in B <=> v \in DOMAIN T.ref /\ i \in 1..(Len(T.ref[v]) - 1) /\ Ends(T.ref[v], i, a, b)
  BY BetweenIs
<1>5. /\ \A i : <<w, i>> \in A <=> i \in 1..(n - 1) /\ Ends(s, i, a, b)
      /\ \A i : <<w, i>> \in B <=> i \in 1..(n - 1) /\ Ends(r, i, a, b)
  BY <1>1, <1>2, <1>3, <1>4
<1>6. \A v, i : v # w => (<<v, i>> \in A <=> <<v, i>> \in B)
  BY <1>2, <1>3, <1>4
<1>7. (\A p \in A : p = <<p[1], p[2]>>) /\ (\A p \in B : p = <<p[1], p[2]>>)
  BY BetweenPairs
<1> HIDE DEF s, r, n, A, B
<1>8. ASSUME NEW i \in 1..(n - 1)
      PROVE  n - i \in 1..(n - 1) /\ n - (n - i) = i /\ (Ends(r, n - i, a, b) <=> Ends(s, i, a, b))
  <2>1. n - i \in 1..n /\ n - i + 1 \in 1..n /\ n + 1 - (n - i) = i + 1 /\ n + 1 - (n - i + 1) = i
    BY <1>1
  <2>2. r[n - i] = s[i + 1] /\ r[n - i + 1] = s[i]
    <3>1. r[n - i] = s[n + 1 - (n - i)] /\ r[n - i + 1] = s[n + 1 - (n - i + 1)]
      BY <1>1, <2>1
    <3> QED
      BY <2>1, <3>1
  <2>3. n - i \in 1..(n - 1) /\ n - (n - i) = i
    BY <1>1
  <2> QED
    BY <2>2, <2>3 DEF Ends
<1>9. ASSUME NEW p \in A, p[1] = w
      PROVE  p = <<w, p[2]>> /\ p[2] \in 1..(n - 1) /\ Ends(s, p[2], a, b)
  <2>1. p = <<w, p[2]>>
    BY <1>7, <1>9
  <2> QED
    BY <1>5, <2>1
<1>10. ASSUME NEW p \in A
       PROVE  to(p) \in B /\ (to(p)[1] = w <=> p[1] = w)
  <2>1. CASE p[1] = w
    <3> DEFINE i == p[2]
    <3>1. i \in 1..(n - 1) /\ Ends(s, i, a, b)
      BY <1>9, <2>1
    <3>2. to(p) = <<w, n - i>>
      BY <2>1
    <3> HIDE DEF i, to
    <3>3. <<w, n - i>> \in B
      BY <1>5, <1>8, <3>1
    <3> QED
      BY <2>1, <3>2, <3>3
  <2>2. CASE p[1] # w
    <3>1. to(p) = p /\ p = <<p[1], p[2]>>
      BY <1>7, <2>2
    <3> HIDE DEF to
    <3> QED
      BY <1>6, <2>2, <3>1
  <2> QED
    BY <2>1, <2>2
<1>11. ASSUME NEW p \in A, NEW q \in A, to(p) = to(q)
       PROVE  p = q
  <2>1. p[1] = w <=> q[1] = w
    BY <1>10, <1>11
  <2>2. CASE p[1] = w
    <3> DEFINE i == p[2]
               j == q[2]
    <3>1. p = <<w, i>> /\ q = <<w, j>> /\ i \in 1..(n - 1) /\ j \in 1..(n - 1)
      BY <1>9, <2>1, <2>2
    <3>2. <<w, n - i>> = <<w, n - j>>
      BY <1>11, <2>1, <2>2
    <3> HIDE DEF i, j, to
    <3>3. n - i = n - j
      BY <3>2
    <3>4. i = j
      BY <1>1, <3>1, <3>3
    <3> QED
      BY <3>1, <3>4
  <2>3. CASE p[1] # w
    BY <1>11, <2>1, <2>3
  <2> QED
    BY <2>2, <2>3
<1>12. ASSUME NEW q \in B
       PROVE  \E p \in A : to(p) = q
  <2>1. q = <<q[1], q[2]>>
    BY <1>7
  <2>2. CASE q[1] = w
    <3> DEFINE i == q[2]
               j == n - i
    <3>1. q = <<w, i>> /\ i \in 1..(n - 1) /\ Ends(r, i, a, b)
      <4>1. q = <<w, i>>
        BY <2>1, <2>2
      <4> QED
        BY <1>5, <4>1
    <3>2. j \in 1..(n - 1) /\ n - j = i
      BY <1>8, <3>1
    <3> HIDE DEF i, j
    <3>3. <<w, j>> \in A
      <4>1. Ends(s, j, a, b)
        BY <1>8, <3>1, <3>2
      <4> QED
        BY <1>5, <3>2, <4>1
    <3>4. to(<<w, j>>) = <<w, n - j>>
      OBVIOUS
    <3> HIDE DEF to
    <3> QED
      BY <3>1, <3>2, <3>3, <3>4
  <2>3. CASE q[1] # w
    <3>1. q \in A
      BY <1>6, <2>1, <2>3
    <3> QED
      BY <2>3, <3>1
  <2> QED
    BY <2>2, <2>3
<1> HIDE DEF to
<1>13. h \in [A -> B] /\ \A p \in A : h[p] = to(p)
  BY <1>10
<1> HIDE DEF h
<1>14. h \in Bijection(A, B)
  BY <1>11, <1>12, <1>13, Fun_IsBij
<1> QED
  BY <1>14 DEF ExistsBijection, A, B

\* A reversed ring has the same segments.
LEMMA TurnedSegments ==
  ASSUME NEW S, NEW T, NEW w, Turned(S, T, w), IsFiniteSet(DOMAIN S.ref), NEW a, NEW b
  PROVE  Segments(T, a, b) + Segments(T, b, a) = Segments(S, a, b) + Segments(S, b, a)
<1>1. IsFiniteSet(Places(S))
  BY PlacesFinite DEF Turned
<1>2. IsFiniteSet(SegmentsAt(S, a, b)) /\ IsFiniteSet(SegmentsAt(S, b, a))
  <2>1. SegmentsAt(S, a, b) \in SUBSET Places(S) /\ SegmentsAt(S, b, a) \in SUBSET Places(S)
    BY DEF SegmentsAt
  <2> QED
    BY <1>1, <2>1, FS_Subset
<1>3. ExistsBijection(SegmentsAt(S, a, b) \cup SegmentsAt(S, b, a), SegmentsAt(T, a, b) \cup SegmentsAt(T, b, a))
  BY TurnedBetween DEF Between
<1>4. CASE a = b
  BY <1>2, <1>3, <1>4, CountsSame DEF Segments
<1>5. CASE a # b
  <2>1. SegmentsAt(S, a, b) \cap SegmentsAt(S, b, a) = {} /\ SegmentsAt(T, a, b) \cap SegmentsAt(T, b, a) = {}
    BY <1>5 DEF SegmentsAt
  <2> QED
    BY <1>2, <1>3, <2>1, CountsSame DEF Segments
<1> QED
  BY <1>4, <1>5

LEMMA SgnIs ==
  ASSUME NEW x \in Int
  PROVE  Sgn(-x) = -Sgn(x) /\ Sgn(x) \in {-1, 0, 1}
BY DEF Sgn

\* The ring that is in the data after the call of set_ccw or set_cw.
DirectionStep ==
  last'.op = "set_direction" =>
    LET s == data'.ref[last'.w]
    IN Closed(s) /\ Range(s) \subseteq Nodes =>
         /\ Sgn(Area(data.pos, s)) # -last'.dir
         /\ \A a, b \in Nodes : Segments(data', a, b) + Segments(data', b, a)
                                 = Segments(data, a, b) + Segments(data, b, a)
LEMMA SetDirectionStep ==
  ASSUME IInv, SetDirection
  PROVE  DirectionStep
<1>0. Sound(data) /\ data \in Data /\ IsFiniteSet(DOMAIN data.ref)
  BY DEF IInv, Sound
<1> DEFINE turn(w, dir) == Closed(data.ref[w]) /\ Range(data.ref[w]) \subseteq Nodes /\ Sgn(Area(data.pos, data.ref[w])) = -dir
           R(w, dir) == IF turn(w, dir) THEN [data EXCEPT !.ref[w] = ReverseWay(data.ref[w])] ELSE data
<1>1. PICK w \in Ways, dir \in {-1, 1} : Call([op |-> "set_direction", w |-> w, dir |-> dir], R(w, dir))
  BY DEF SetDirection
<1> DEFINE s == data.ref[w]
           ref == [data.ref EXCEPT ![w] = ReverseWay(s)]
           Q == R(w, dir)
<1>2. w \in DOMAIN data.ref /\ s \in Ids /\ \A v \in DOMAIN data.ref : data.ref[v] \in Ids
  BY <1>0, RefIs DEF Ways
<1>3. last'.w = w /\ last'.dir = dir /\ data' = [Q EXCEPT !.n = 0]
  BY <1>1 DEF Call
<1>4. IF turn(w, dir) THEN Q = [data EXCEPT !.ref = ref] ELSE Q = data
  OBVIOUS
<1> HIDE DEF Q, R
<1>5. data'.ref = IF turn(w, dir) THEN ref ELSE data.ref
  <2> HIDE DEF ref, turn
  <2>1. CASE turn(w, dir)
    BY <1>0, <1>3, <1>4, <2>1 DEF Data
  <2>2. CASE ~turn(w, dir)
    BY <1>0, <1>3, <1>4, <2>2 DEF Data
  <2> QED
    BY <2>1, <2>2
<1>6. CASE ~turn(w, dir)
  <2>1. data'.ref = data.ref
    BY <1>5, <1>6
  <2>2. \A a, b : Segments(data', a, b) = Segments(data, a, b)
    BY <2>1 DEF Segments, SegmentsAt, Places
  <2> QED
    BY <1>3, <1>6, <2>1, <2>2 DEF DirectionStep
<1>7. CASE turn(w, dir)
  <2>1. Closed(s) /\ Range(s) \subseteq Nodes /\ Sgn(Area(data.pos, s)) = -dir
    BY <1>7
  <2>2. data'.ref = ref
    BY <1>5, <1>7
  <2>3. data'.ref[w] = ReverseWay(s)
    BY <1>2, <2>2
  <2>4. Turned(data, data', w)
    BY <1>2, <2>1, <2>2 DEF Turned
  <2> HIDE DEF s, ref, turn
  <2>5. \A a, b : Segments(data', a, b) + Segments(data', b, a) = Segments(data, a, b) + Segments(data, b, a)
    BY <1>0, <2>4, TurnedSegments
  <2>6. \A i \in 1..Len(s) : data.pos[s[i]] \in Pos
    <3> SUFFICES ASSUME NEW i \in 1..Len(s)
                 PROVE  data.pos[s[i]] \in Pos
      OBVIOUS
    <3>1. s[i] \in Range(s)
      BY <1>2, ElementIs
    <3> QED
      BY <1>0, <2>1, <3>1, PosIs DEF Nodes
  <2>7. Area(data.pos, s) \in Int /\ Area(data.pos, ReverseWay(s)) = -Area(data.pos, s)
    BY <1>2, <2>1, <2>6, ReversedArea
  <2>8. Sgn(Area(data.pos, ReverseWay(s))) = dir
    <3>1. Sgn(-Area(data.pos, s)) = -Sgn(Area(data.pos, s))
      BY <2>7, SgnIs
    <3>2. Sgn(-Area(data.pos, s)) = -(-dir) /\ dir \in Int
      BY <2>1, <3>1
    <3> QED
      BY <2>7, <3>2
  <2>9. dir # -dir
    OBVIOUS
  <2> QED
    BY <1>3, <2>3, <2>5, <2>8, <2>9 DEF DirectionStep
<1> QED
  BY <1>6, <1>7

\* The history tells which function was called.
LEMMA OpIs ==
  ASSUME Next
  PROVE  /\ last'.op = "split" => Split
         /\ last'.op = "wrapdetect" => WrapDetect
         /\ last'.op = "set_direction" => SetDirection
<1>1. ASSUME Split
      PROVE  last'.op = "split"
  BY <1>1 DEF Split, Call
<1>2. ASSUME Zeroway
      PROVE  last'.op = "zeroway"
  BY <1>2 DEF Zeroway, Call
<1>3. ASSUME InsEqdist
      PROVE  last'.op = "ins_eqdist"
  BY <1>3 DEF InsEqdist, Call
<1>4. ASSUME WrapDetect
      PROVE  last'.op = "wrapdetect"
  BY <1>4 DEF WrapDetect, Call
<1>5. ASSUME Simplify
      PROVE  last'.op = "simplify"
  BY <1>5 DEF Simplify, Call
<1>6. ASSUME Check
      PROVE  last'.op = "check"
  BY <1>6 DEF Check, Call
<1>7. ASSUME Virtclosed
      PROVE  last'.op = "virtclosed"
  BY <1>7 DEF Virtclosed, Call
<1>8. ASSUME SetDirection
      PROVE  last'.op = "set_direction"
  BY <1>8 DEF SetDirection, Call
<1>9. ASSUME Shape
      PROVE  last'.op = "shape"
  BY <1>9 DEF Shape, Call
<1>10. ASSUME RefinePoly
      PROVE  last'.op = "refine_poly"
  BY <1>10 DEF RefinePoly, Call
<1>11. ASSUME FixBorderNodes
      PROVE  last'.op = "fixbordernodes"
  BY <1>11 DEF FixBorderNodes, Call
<1> QED
  BY <1>1, <1>2, <1>3, <1>4, <1>5, <1>6, <1>7, <1>8, <1>9, <1>10, <1>11 DEF Next

\* set_ccw() and set_cw() leave a closed way whose nodes are all there in the
\* wanted direction, and with the same segments.
THEOREM DirectionIsSet == Spec => DirectionSet
<1>1. IInv /\ [Next]_vars => [DirectionStep]_vars
  <2> SUFFICES ASSUME IInv, Next
               PROVE  DirectionStep
    OBVIOUS
  <2> SUFFICES ASSUME last'.op = "set_direction"
               PROVE  DirectionStep
    BY DEF DirectionStep
  <2>1. SetDirection
    BY OpIs
  <2> QED
    BY <2>1, SetDirectionStep
<1>2. [][DirectionStep]_vars => DirectionSet
  BY PTL DEF DirectionSet, DirectionStep
<1> QED
  BY <1>1, <1>2, Invariant, PTL DEF Spec

(***************************************************************************)
(* The segments of a way that is split                                     *)
(***************************************************************************)
LEMMA SegmentIs ==
  ASSUME NEW S, NEW a, NEW b
  PROVE  /\ \A v, i : <<v, i>> \in SegmentsAt(S, a, b)
                        <=> /\ v \in DOMAIN S.ref /\ i \in 1..(Len(S.ref[v]) - 1)
                            /\ S.ref[v][i] = a /\ S.ref[v][i + 1] = b
         /\ \A p \in SegmentsAt(S, a, b) : p = <<p[1], p[2]>>
<1>1. \A v, i : <<v, i>> \in Places(S) <=> v \in DOMAIN S.ref /\ i \in 1..(Len(S.ref[v]) - 1)
  BY DEF Places
<1>2. ASSUME NEW p \in SegmentsAt(S, a, b)
      PROVE  p = <<p[1], p[2]>>
  <2>1. p \in Places(S)
    BY DEF SegmentsAt
  <2>2. PICK w \in DOMAIN S.ref : p \in {w} \X (1..(Len(S.ref[w]) - 1))
    BY <2>1 DEF Places
  <2> QED
    BY <2>2
<1>3. ASSUME NEW v, NEW i
      PROVE  <<v, i>> \in SegmentsAt(S, a, b)
               <=> /\ v \in DOMAIN S.ref /\ i \in 1..(Len(S.ref[v]) - 1)
                   /\ S.ref[v][i] = a /\ S.ref[v][i + 1] = b
  BY <1>1 DEF SegmentsAt
<1> QED
  BY <1>2, <1>3

LEMMA SegmentsFinite ==
  ASSUME NEW S, Sound(S), NEW a, NEW b
  PROVE  IsFiniteSet(SegmentsAt(S, a, b))
<1>1. IsFiniteSet(DOMAIN S.ref) /\ \A w \in DOMAIN S.ref : S.ref[w] \in Ids
  BY RefIs DEF Sound
<1>2. IsFiniteSet(Places(S))
  BY <1>1, PlacesFinite
<1>3. SegmentsAt(S, a, b) \in SUBSET Places(S)
  BY DEF SegmentsAt
<1> QED
  BY <1>2, <1>3, FS_Subset

\* The nodes of the two parts of s.
LEMMA PartsOfWay ==
  ASSUME NEW s \in Ids, NEW i \in 1..Len(s), NEW f \in {i, i + 1}
  PROVE  /\ Len(SubSeq(s, 1, i)) = i /\ \A k \in 1..i : SubSeq(s, 1, i)[k] = s[k]
         /\ Len(SubSeq(s, f, Len(s))) = Len(s) - f + 1
         /\ \A k \in 1..(Len(s) - f + 1) : SubSeq(s, f, Len(s))[k] = s[f + k - 1]
<1> DEFINE n == Len(s)
<1>1. n \in Nat /\ DOMAIN s = 1..n /\ \A k \in 1..n : s[k] \in Int
  BY DEF Ids
<1>2. i \in Int /\ f \in Int /\ 1 <= i /\ i <= n /\ 1 <= f /\ f <= n + 1
  BY <1>1
<1> HIDE DEF n
<1>3. Len(SubSeq(s, 1, i)) = i /\ \A k \in 1..i : SubSeq(s, 1, i)[k] = s[k]
  <2>1. ASSUME NEW o \in Int, o = 1
        PROVE  /\ Len(SubSeq(s, o, i)) = i - o + 1
               /\ \A k \in 1..(i - o + 1) : SubSeq(s, o, i)[k] = s[o + k - 1]
    <3>1. \A k \in o..i : s[k] \in Int
      BY <1>1, <1>2, <2>1
    <3> QED
      BY <1>2, <2>1, <3>1, SubSeqProperties
  <2>2. /\ Len(SubSeq(s, 1, i)) = i - 1 + 1
        /\ \A k \in 1..(i - 1 + 1) : SubSeq(s, 1, i)[k] = s[1 + k - 1]
    BY <2>1
  <2>3. i - 1 + 1 = i /\ \A k \in 1..i : 1 + k - 1 = k
    BY <1>2
  <2> QED
    BY <2>2, <2>3
<1>4. Len(SubSeq(s, f, n)) = n - f + 1 /\ \A k \in 1..(n - f + 1) : SubSeq(s, f, n)[k] = s[f + k - 1]
  <2>1. \A k \in f..n : s[k] \in Int
    BY <1>1, <1>2
  <2>2. /\ Len(SubSeq(s, f, n)) = IF f <= n THEN n - f + 1 ELSE 0
        /\ \A k \in 1..(n - f + 1) : SubSeq(s, f, n)[k] = s[f + k - 1]
    BY <1>1, <1>2, <2>1, SubSeqProperties
  <2>3. ~(f <= n) => n - f + 1 = 0
    BY <1>1, <1>2
  <2> QED
    BY <2>2, <2>3
<1> QED
  BY <1>3, <1>4 DEF n

\* T is S with w cut at i, the new way begins at index f.
Cut(S, T, w, i, f) ==
  /\ w \in DOMAIN S.ref /\ i \in 1..Len(S.ref[w]) /\ f \in {i, i + 1} /\ (f = i => i # Len(S.ref[w]))
  /\ CutAt(S, T, w, i, SubSeq(S.ref[w], f, Len(S.ref[w])))

\* A segment before the cut stays, one behind it is in the new way; what is lost
\* begins at the node.
LEMMA CutSegments ==
  ASSUME NEW S, Sound(S), NEW T, NEW w, NEW i, NEW f, Cut(S, T, w, i, f),
         NEW a, NEW b, a # b, f = i + 1 => a # S.ref[w][i]
  PROVE  Segments(T, a, b) = Segments(S, a, b)
<1> DEFINE s == S.ref[w]
           n == Len(s)
           r == T.ref[w]
           new == S.uwid
           tail == SubSeq(s, f, n)
           A == SegmentsAt(S, a, b)
           B == SegmentsAt(T, a, b)
           to(p) == IF p[1] = w /\ p[2] >= i THEN <<new, p[2] + 1 - f>> ELSE p
           h == [p \in A |-> to(p)]
<1>0. /\ w \in DOMAIN S.ref /\ i \in 1..n /\ f \in {i, i + 1} /\ (f = i => i # n)
      /\ CutAt(S, T, w, i, tail)
  BY DEF Cut
<1>1. s \in Ids /\ new \in Int /\ \A v \in DOMAIN S.ref : v \in Int /\ v > new
  <2>1. S \in Data /\ Fresh(S)
    BY DEF Sound
  <2> QED
    BY <1>0, <2>1, RefIs DEF Fresh, Data
<1>2. n \in Nat /\ i \in 1..n /\ i \in Int /\ f \in Int /\ f \in {i, i + 1}
  BY <1>0, <1>1 DEF Ids
<1>3. /\ Len(tail) = n - f + 1 /\ \A k \in 1..(n - f + 1) : tail[k] = s[f + k - 1]
      /\ Len(SubSeq(s, 1, i)) = i /\ \A k \in 1..i : SubSeq(s, 1, i)[k] = s[k]
  BY <1>0, <1>1, PartsOfWay
<1>4. /\ i > 1 => Len(r) = i /\ \A k \in 1..i : r[k] = s[k]
      /\ ~(i > 1) => r = <<s[i], s[i]>>
  BY <1>0, <1>3 DEF CutAt
<1>5. /\ \A v \in DOMAIN S.ref : v # w => T.ref[v] = S.ref[v]
      /\ Len(tail) < 2 => DOMAIN T.ref = DOMAIN S.ref
      /\ Len(tail) >= 2 => DOMAIN T.ref = DOMAIN S.ref \cup {new} /\ T.ref[new] = tail
      /\ new \notin DOMAIN S.ref
  <2>1. new \notin DOMAIN S.ref
    BY <1>1
  <2> QED
    BY <1>0, <2>1 DEF CutAt
<1>6. DOMAIN S.ref \subseteq DOMAIN T.ref /\ DOMAIN T.ref \subseteq DOMAIN S.ref \cup {new}
  <2>1. Len(tail) < 2 \/ Len(tail) >= 2
    BY <1>2, <1>3
  <2> QED
    BY <1>5, <2>1
<1>7. /\ \A v, j : <<v, j>> \in A <=> v \in DOMAIN S.ref /\ j \in 1..(Len(S.ref[v]) - 1)
                                      /\ S.ref[v][j] = a /\ S.ref[v][j + 1] = b
      /\ \A p \in A : p = <<p[1], p[2]>>
  BY SegmentIs
<1>8. /\ \A v, j : <<v, j>> \in B <=> v \in DOMAIN T.ref /\ j \in 1..(Len(T.ref[v]) - 1)
                                      /\ T.ref[v][j] = a /\ T.ref[v][j + 1] = b
      /\ \A p \in B : p = <<p[1], p[2]>>
  BY SegmentIs
<1>9. s[i] = S.ref[w][i] /\ (f = i => i # n) /\ (f = i + 1 => a # s[i]) /\ w \in DOMAIN S.ref
  BY <1>0
<1> DEFINE At(j) == s[j] = a /\ s[j + 1] = b
<1>10. \A j : <<w, j>> \in A <=> j \in 1..(n - 1) /\ At(j)
  BY <1>7, <1>9
<1>11. \A v, j : v \in DOMAIN S.ref /\ v # w => (<<v, j>> \in A <=> <<v, j>> \in B)
  BY <1>5, <1>6, <1>7, <1>8
<1>12. \A j : <<w, j>> \in B <=> j \in 1..(Len(r) - 1) /\ r[j] = a /\ r[j + 1] = b
  BY <1>6, <1>8, <1>9
<1> HIDE DEF tail, new
<1>13. \A j : <<new, j>> \in B => Len(tail) >= 2 /\ j \in 1..(Len(tail) - 1) /\ tail[j] = a /\ tail[j + 1] = b
  <2>1. Len(tail) < 2 \/ Len(tail) >= 2
    BY <1>2, <1>3
  <2> QED
    BY <1>5, <1>8, <2>1
<1>14. \A j : Len(tail) >= 2 /\ j \in 1..(Len(tail) - 1) /\ tail[j] = a /\ tail[j + 1] = b => <<new, j>> \in B
  BY <1>5, <1>8
<1>15. \A v, j : <<v, j>> \in A => v \in DOMAIN S.ref
  BY <1>7
<1>16. \A v, j : <<v, j>> \in B => v \in DOMAIN S.ref \cup {new}
  BY <1>6, <1>8
<1>17. new # w
  BY <1>5, <1>9
<1> HIDE DEF s, n, r, A, B
<1>18. \A j : <<w, j>> \in B <=> j \in 1..(i - 1) /\ At(j)
  <2>1. CASE i > 1
    <3>1. ASSUME NEW j \in 1..(i - 1)
          PROVE  r[j] = s[j] /\ r[j + 1] = s[j + 1]
      <4>1. j \in 1..i /\ j + 1 \in 1..i
        BY <1>2
      <4> QED
        BY <1>4, <2>1, <4>1
    <3> QED
      BY <1>4, <1>12, <2>1, <3>1
  <2>2. CASE ~(i > 1)
    <3>1. i = 1 /\ 1..(i - 1) = {}
      BY <1>2, <2>2
    <3>2. ASSUME NEW j, <<w, j>> \in B
          PROVE  FALSE
      <4>1. r = <<s[i], s[i]>> /\ Len(r) = 2 /\ r[1] = s[i] /\ r[2] = s[i]
        BY <1>4, <2>2
      <4>2. j \in 1..1 /\ r[j] = a /\ r[j + 1] = b
        BY <1>12, <3>2, <4>1
      <4>3. j = 1
        BY <4>2
      <4>4. r[1] = a /\ r[2] = b
        BY <4>2, <4>3
      <4> QED
        BY <4>1, <4>4
    <3>3. \A j : j \notin 1..(i - 1)
      BY <3>1
    <3>4. \A j : <<w, j>> \notin B
      BY <3>2
    <3> HIDE DEF At
    <3> QED
      BY <3>3, <3>4
  <2> QED
    BY <2>1, <2>2
\* index j of the way is index j + 1 - f of its new part
<1>19. ASSUME NEW j \in i..(n - 1), At(j)
       PROVE  <<new, j + 1 - f>> \in B
  <2> DEFINE k == j + 1 - f
  <2>1. f <= j
    <3>1. CASE f = i
      BY <3>1
    <3>2. CASE f = i + 1
      <4>1. j # i
        BY <1>9, <1>19, <3>2
      <4> QED
        BY <1>2, <3>2, <4>1
    <3> QED
      BY <1>2, <3>1, <3>2
  <2>2. /\ k \in 1..(n - f + 1) /\ k + 1 \in 1..(n - f + 1) /\ f + k - 1 = j /\ f + (k + 1) - 1 = j + 1
        /\ k \in 1..(n - f + 1 - 1) /\ n - f + 1 >= 2
    BY <1>2, <2>1
  <2>3. tail[k] = s[j] /\ tail[k + 1] = s[j + 1]
    <3>1. tail[k] = s[f + k - 1] /\ tail[k + 1] = s[f + (k + 1) - 1]
      BY <1>3, <2>2
    <3> QED
      BY <2>2, <3>1
  <2> HIDE DEF k
  <2>4. Len(tail) >= 2 /\ k \in 1..(Len(tail) - 1) /\ tail[k] = a /\ tail[k + 1] = b
    BY <1>3, <1>19, <2>2, <2>3
  <2>5. <<new, k>> \in B
    BY <1>14, <2>4
  <2> QED
    BY <2>5 DEF k
<1>20. ASSUME NEW k, <<new, k>> \in B
       PROVE  k \in Int /\ k + f - 1 \in i..(n - 1) /\ At(k + f - 1)
  <2>1. k \in 1..(Len(tail) - 1) /\ tail[k] = a /\ tail[k + 1] = b
    BY <1>13, <1>20
  <2>2. Len(tail) = n - f + 1
    BY <1>3
  <2>3. k \in Int /\ 1 <= k /\ k <= n - f
    BY <1>2, <2>1, <2>2
  <2>4. k \in 1..(n - f + 1) /\ k + 1 \in 1..(n - f + 1) /\ f + k - 1 = k + f - 1 /\ f + (k + 1) - 1 = k + f - 1 + 1
    BY <1>2, <2>3
  <2>5. tail[k] = s[f + k - 1] /\ tail[k + 1] = s[f + (k + 1) - 1]
    BY <1>3, <2>4
  <2>6. tail[k] = s[k + f - 1] /\ tail[k + 1] = s[k + f - 1 + 1]
    BY <2>4, <2>5
  <2>7. k + f - 1 \in i..(n - 1)
    BY <1>2, <2>3
  <2> QED
    BY <2>1, <2>3, <2>6, <2>7
<1> HIDE DEF At
<1>21. ASSUME NEW p \in A
       PROVE  p = <<p[1], p[2]>> /\ p[1] \in DOMAIN S.ref /\ (p[1] = w => p[2] \in 1..(n - 1) /\ At(p[2]))
  <2>1. p = <<p[1], p[2]>>
    BY <1>7
  <2>2. <<p[1], p[2]>> \in A
    BY <2>1
  <2> QED
    BY <1>10, <1>15, <2>1, <2>2
<1>22. ASSUME NEW p \in A
       PROVE  to(p) \in B /\ (to(p)[1] = new <=> p[1] = w /\ p[2] >= i)
  <2> DEFINE j == p[2]
  <2>1. CASE p[1] = w /\ j >= i
    <3>1. j \in i..(n - 1) /\ At(j)
      <4>1. j \in 1..(n - 1) /\ At(j)
        BY <1>21, <2>1
      <4> QED
        BY <1>2, <2>1, <4>1
    <3>2. to(p) = <<new, j + 1 - f>>
      BY <2>1
    <3> HIDE DEF to, j
    <3>3. <<new, j + 1 - f>> \in B
      BY <1>19, <3>1
    <3> QED
      BY <2>1, <3>2, <3>3 DEF j
  <2>2. CASE p[1] = w /\ ~(j >= i)
    <3>1. j \in 1..(i - 1) /\ At(j) /\ p = <<w, j>>
      <4>1. j \in 1..(n - 1) /\ At(j) /\ p = <<w, j>>
        BY <1>21, <2>2
      <4> QED
        BY <1>2, <2>2, <4>1
    <3>2. to(p) = p
      BY <2>2
    <3> HIDE DEF to, j
    <3>3. <<w, j>> \in B
      BY <1>18, <3>1
    <3> QED
      BY <1>17, <2>2, <3>1, <3>2, <3>3 DEF j
  <2>3. CASE p[1] # w
    <3>1. to(p) = p /\ p = <<p[1], p[2]>> /\ p[1] \in DOMAIN S.ref
      BY <1>21, <2>3
    <3> HIDE DEF to, j
    <3>2. p \in B /\ p[1] # new
      BY <1>5, <1>11, <2>3, <3>1
    <3> QED
      BY <2>3, <3>1, <3>2
  <2> QED
    BY <2>1, <2>2, <2>3
<1>23. ASSUME NEW p \in A, NEW q \in A, to(p) = to(q)
       PROVE  p = q
  <2>1. (p[1] = w /\ p[2] >= i) <=> (q[1] = w /\ q[2] >= i)
    BY <1>22, <1>23
  <2>2. CASE p[1] = w /\ p[2] >= i
    <3> DEFINE j == p[2]
               k == q[2]
    <3>1. p = <<w, j>> /\ q = <<w, k>> /\ j \in 1..(n - 1) /\ k \in 1..(n - 1)
      BY <1>21, <2>1, <2>2
    <3>2. <<new, j + 1 - f>> = <<new, k + 1 - f>>
      BY <1>23, <2>1, <2>2
    <3> HIDE DEF j, k, to
    <3>3. j + 1 - f = k + 1 - f
      BY <3>2
    <3>4. j = k
      BY <1>2, <3>1, <3>3
    <3> QED
      BY <3>1, <3>4
  <2>3. CASE ~(p[1] = w /\ p[2] >= i)
    BY <1>23, <2>1, <2>3
  <2> QED
    BY <2>2, <2>3
<1>24. ASSUME NEW q \in B
       PROVE  \E p \in A : to(p) = q
  <2>1. q = <<q[1], q[2]>> /\ q[1] \in DOMAIN S.ref \cup {new}
    <3>1. q = <<q[1], q[2]>>
      BY <1>8
    <3>2. <<q[1], q[2]>> \in B
      BY <3>1
    <3> QED
      BY <1>16, <3>1, <3>2
  <2>2. CASE q[1] = new
    <3> DEFINE k == q[2]
               j == k + f - 1
    <3>1. q = <<new, k>>
      BY <2>1, <2>2
    <3>2. k \in Int /\ j \in i..(n - 1) /\ At(j)
      BY <1>20, <3>1
    <3>3. j \in 1..(n - 1) /\ j >= i /\ j + 1 - f = k
      BY <1>2, <3>2
    <3> HIDE DEF j, k
    <3>4. <<w, j>> \in A
      BY <1>10, <3>2, <3>3
    <3>5. to(<<w, j>>) = <<new, j + 1 - f>>
      BY <3>3
    <3> HIDE DEF to
    <3> QED
      BY <3>1, <3>3, <3>4, <3>5
  <2>3. CASE q[1] = w
    <3> DEFINE j == q[2]
    <3>1. q = <<w, j>>
      BY <2>1, <2>3
    <3>2. j \in 1..(i - 1) /\ At(j)
      BY <1>18, <3>1
    <3>3. j \in 1..(n - 1) /\ ~(j >= i)
      BY <1>2, <3>2
    <3>4. to(q) = q
      BY <3>3
    <3> HIDE DEF j, to
    <3>5. q \in A
      BY <1>10, <3>1, <3>2, <3>3
    <3> QED
      BY <3>4, <3>5
  <2>4. CASE q[1] # new /\ q[1] # w
    <3>1. q \in A
      BY <1>11, <2>1, <2>4
    <3>2. to(q) = q
      BY <2>4
    <3> QED
      BY <3>1, <3>2
  <2> QED
    BY <2>2, <2>3, <2>4
<1> HIDE DEF to
<1>25. h \in [A -> B] /\ \A p \in A : h[p] = to(p)
  BY <1>22
<1> HIDE DEF h
<1>26. h \in Bijection(A, B)
  BY <1>23, <1>24, <1>25, Fun_IsBij
<1>27. IsFiniteSet(A) /\ ExistsBijection(A, B)
  BY <1>26, SegmentsFinite DEF ExistsBijection, A
<1>28. Cardinality(B) = Cardinality(A)
  BY <1>27, FS_Bijection
<1> QED
  BY <1>28 DEF Segments, A, B

\* No other node follows n in a way that is a parent.
Ending(S, p, n) ==
  IsRel(p) \/ (p \in DOMAIN S.ref /\ \A m \in 1..(Len(S.ref[p]) - 1) : S.ref[p][m] = n => S.ref[p][m + 1] = n)
\* What split has to keep of O, and what it has reached with the parents before k.
SplitKeeps(O, S, n, rs) ==
  /\ S.pos = O.pos /\ S.raw = {} /\ n \in DOMAIN S.idx
  /\ \A a, b : a # b /\ (rs => a # n) => Segments(S, a, b) = Segments(O, a, b)
EndingBefore(S, n, k) == \A j \in DOMAIN S.idx[n] : j < k => Ending(S, S.idx[n][j], n)
SplitDone(O, n, rs) ==
  {L \in SplitStates : SplitKeeps(O, L.S, n, rs) /\ (rs => EndingBefore(L.S, n, L.k))}

\* Nothing but flags differ.
LEMMA SplitFlags ==
  ASSUME NEW O, NEW S, NEW T, T.pos = S.pos, T.raw = S.raw, T.idx = S.idx, T.ref = S.ref, NEW n, NEW rs, NEW k
  PROVE  /\ SplitKeeps(O, S, n, rs) => SplitKeeps(O, T, n, rs)
         /\ EndingBefore(S, n, k) => EndingBefore(T, n, k)
<1>1. \A a, b : Segments(T, a, b) = Segments(S, a, b)
  BY DEF Segments, SegmentsAt, Places
<1>2. \A p : Ending(T, p, n) <=> Ending(S, p, n)
  BY DEF Ending
<1> QED
  BY <1>1, <1>2 DEF SplitKeeps, EndingBefore

\* A way that is cut at the first place of n.
CutKept(O, S, T, w, n, rs) ==
  SplitKeeps(O, T, n, rs) /\ Ending(T, w, n) /\ \A p : Ending(S, p, n) => Ending(T, p, n)
LEMMA CutKeeps ==
  ASSUME NEW O, NEW S, Sound(S), NEW n, NEW rs \in BOOLEAN, SplitKeeps(O, S, n, rs),
         NEW T, NEW w, NEW i, NEW f, f = IF rs THEN i + 1 ELSE i, Cut(S, T, w, i, f),
         S.ref[w][i] = n, \A m \in 1..Len(S.ref[w]) : S.ref[w][m] = n => i <= m
  PROVE  CutKept(O, S, T, w, n, rs)
<1> DEFINE s == S.ref[w]
           r == T.ref[w]
<1>0. /\ w \in DOMAIN S.ref /\ i \in 1..Len(s) /\ f \in {i, i + 1} /\ (f = i => i # Len(s))
      /\ CutAt(S, T, w, i, SubSeq(s, f, Len(s)))
  BY DEF Cut
<1>1. s \in Ids /\ Len(s) \in Nat /\ i \in Int
  <2>1. S \in Data
    BY DEF Sound
  <2> QED
    BY <1>0, <2>1, RefIs DEF Ids
<1>2. \A a : (rs => a # n) => (f = i + 1 => a # s[i])
  BY <1>1
<1>3. ASSUME NEW a, NEW b, a # b, rs => a # n
      PROVE  Segments(T, a, b) = Segments(O, a, b)
  <2>1. Segments(S, a, b) = Segments(O, a, b)
    BY <1>3 DEF SplitKeeps
  <2>2. Cut(S, T, w, i, f) /\ (f = i + 1 => a # S.ref[w][i])
    BY <1>2, <1>3
  <2> HIDE DEF s, r
  <2>3. Segments(T, a, b) = Segments(S, a, b)
    BY <1>3, <2>2, CutSegments
  <2> QED
    BY <2>1, <2>3
<1>4. /\ T.pos = S.pos /\ (S.raw = {} => T.raw = {})
      /\ r = IF i > 1 THEN SubSeq(s, 1, i) ELSE <<n, n>>
      /\ \A v \in DOMAIN S.ref : v # w => T.ref[v] = S.ref[v]
      /\ n \in DOMAIN S.idx => n \in DOMAIN T.idx
  BY <1>0 DEF CutAt
<1>5. DOMAIN S.ref \subseteq DOMAIN T.ref
  <2> DEFINE tail == SubSeq(s, f, Len(s))
  <2>1. CutAt(S, T, w, i, tail) /\ i \in 1..Len(s) /\ f \in {i, i + 1}
    BY <1>0
  <2> HIDE DEF s
  <2>4. i \in 1..Len(s) /\ f \in {i, i + 1}
    BY <2>1
  <2>5. Len(tail) = Len(s) - f + 1
    BY ONLY <1>1, <2>4, PartsOfWay
  <2>2. Len(tail) = Len(s) - f + 1 /\ f \in Int
    BY ONLY <1>1, <2>4, <2>5
  <2> HIDE DEF tail
  <2>3. Len(tail) < 2 \/ Len(tail) >= 2
    BY <1>1, <2>2
  <2> QED
    BY <2>1, <2>3 DEF CutAt
<1>6. SplitKeeps(O, T, n, rs)
  BY <1>3, <1>4 DEF SplitKeeps
<1>7. Ending(T, w, n)
  <2>1. w \in DOMAIN T.ref
    BY <1>0, <1>5
  <2>2. ASSUME NEW m \in 1..(Len(r) - 1), r[m] = n
        PROVE  r[m + 1] = n
    <3>1. CASE i > 1
      <4>1. Len(r) = i /\ \A k \in 1..i : r[k] = s[k]
        BY <1>0, <1>1, <1>4, <3>1, PartsOfWay
      <4>2. m \in 1..i /\ m \in 1..Len(s) /\ ~(i <= m)
        BY <1>0, <1>1, <2>2, <4>1
      <4>3. s[m] = n
        BY <2>2, <4>1, <4>2
      <4> QED
        BY <4>2, <4>3
    <3>2. CASE ~(i > 1)
      <4>1. r = <<n, n>> /\ Len(<<n, n>>) = 2
        BY <1>4, <3>2
      <4>2. m = 1
        BY <2>2, <4>1
      <4> QED
        BY <4>1, <4>2
    <3> QED
      BY <3>1, <3>2
  <2> QED
    BY <2>1, <2>2 DEF Ending
<1>8. ASSUME NEW p, Ending(S, p, n)
      PROVE  Ending(T, p, n)
  <2>1. CASE p = w
    BY <1>7, <2>1
  <2>2. CASE p # w
    BY <1>4, <1>5, <1>8, <2>2 DEF Ending
  <2> QED
    BY <2>1, <2>2
<1> QED
  BY <1>6, <1>7, <1>8 DEF CutKept

LEMMA SplitTurnDone ==
  ASSUME NEW O, NEW n, NEW rs \in BOOLEAN, NEW L \in SplitDone(O, n, rs)
  PROVE  SplitTurn(L, n, rs) \in SplitDone(O, n, rs)
<1> DEFINE S == L.S
           w == S.idx[n][L.k]
           s == S.ref[w]
           i == IndexIn(s, n)
           tail == SubSeq(s, IF rs THEN i + 1 ELSE i, Len(s))
           T == SplitWay(S, w, n, i, tail)
           F == [S EXCEPT !.fault = TRUE]
           E == [S EXCEPT !.emerg = TRUE]
           U == SplitTurn(L, n, rs)
<1>1. /\ L \in SplitStates /\ SplitKeeps(O, S, n, rs) /\ (rs => EndingBefore(S, n, L.k))
      /\ Sound(S) /\ S \in Data /\ L.k \in Nat \ {0} /\ L = [S |-> S, k |-> L.k]
  BY DEF SplitDone, SplitStates, SoundData
<1>2. U = IF SplitOver(L, n) THEN L
          ELSE IF IsRel(w) THEN [L EXCEPT !.k = @ + 1]
          ELSE IF Stale(S, w) THEN [L EXCEPT !.S = F]
          ELSE IF i = 0 THEN [S |-> E, k |-> L.k + 1]
          ELSE IF ~rs /\ i \in {1, Len(s)} THEN [L EXCEPT !.k = @ + 1]
          ELSE [S |-> T, k |-> IF T.n > 0 THEN 2 ELSE L.k + 1]
  BY DEF SplitTurn
<1>3. U \in SplitStates
  BY <1>1, SplitTurnStays
<1>4. /\ F.pos = S.pos /\ F.raw = S.raw /\ F.idx = S.idx /\ F.ref = S.ref
      /\ E.pos = S.pos /\ E.raw = S.raw /\ E.idx = S.idx /\ E.ref = S.ref
  BY <1>1 DEF Data
<1>5. SUFFICES ASSUME ~SplitOver(L, n)
               PROVE  SplitKeeps(O, U.S, n, rs) /\ (rs => EndingBefore(U.S, n, U.k))
  <2>1. CASE SplitOver(L, n)
    BY <1>2, <2>1
  <2>2. CASE ~SplitOver(L, n)
    BY <1>3, <1>5, <2>2 DEF SplitDone
  <2> QED
    BY <2>1, <2>2
<1>6. S.idx[n] \in Ids /\ L.k \in DOMAIN S.idx[n]
  <2>1. n \in DOMAIN S.idx /\ S.idx \in Fns(Int, Ids)
    BY <1>1 DEF SplitKeeps, Data
  <2>2. S.idx[n] \in Ids
    BY <2>1, FnsIs
  <2>3. ~(L.k > Len(S.idx[n]))
    BY <1>5 DEF SplitOver
  <2> QED
    BY <1>1, <2>2, <2>3 DEF Ids
\* what holds of the parent at k as well holds of all before the next one
<1>7. ASSUME NEW V, NEW k \in Nat, k <= L.k + 1, Begins(S.idx[n], V.idx[n]), V.idx[n] \in Ids,
             rs => Ending(V, w, n), \A p : Ending(S, p, n) => Ending(V, p, n), rs
      PROVE  EndingBefore(V, n, k)
  <2> SUFFICES ASSUME NEW j \in DOMAIN V.idx[n], j < k
               PROVE  Ending(V, V.idx[n][j], n)
    BY DEF EndingBefore
  <2>1. j \in Nat /\ 1 <= j /\ j <= L.k /\ DOMAIN S.idx[n] = 1..Len(S.idx[n]) /\ Len(S.idx[n]) \in Nat
    BY <1>1, <1>6, <1>7 DEF Ids
  <2>2. j \in DOMAIN S.idx[n]
    BY <1>1, <1>6, <2>1
  <2>3. V.idx[n][j] = S.idx[n][j]
    BY <1>7, <2>2 DEF Begins
  <2>4. CASE j = L.k
    BY <1>7, <2>3, <2>4
  <2>5. CASE j # L.k
    <3>1. j < L.k
      BY <1>1, <2>1, <2>5
    <3> QED
      BY <1>1, <1>7, <2>2, <2>3, <3>1 DEF EndingBefore
  <2> QED
    BY <2>4, <2>5
<1>8. ASSUME NEW V, V.idx = S.idx, V.ref = S.ref
      PROVE  Begins(S.idx[n], V.idx[n]) /\ V.idx[n] \in Ids /\ \A p : Ending(V, p, n) <=> Ending(S, p, n)
  BY <1>6, <1>8 DEF Begins, Ending
<1>9. L.k + 1 \in Nat /\ L.k + 1 <= L.k + 1 /\ L.k \in Nat /\ L.k <= L.k + 1
  BY <1>1
<1>10. CASE IsRel(w)
  <2>1. U.S = S /\ U.k = L.k + 1
    BY <1>1, <1>2, <1>5, <1>10
  <2>2. Ending(S, w, n)
    BY <1>10 DEF Ending
  <2> HIDE DEF S, w, U
  <2> QED
    BY <1>1, <1>7, <1>8, <1>9, <2>1, <2>2
<1>11. CASE ~IsRel(w) /\ Stale(S, w)
  <2>1. U.S = F /\ U.k = L.k
    BY <1>1, <1>2, <1>5, <1>11
  <2> HIDE DEF S, w, U, F
  <2> QED
    BY <1>1, <1>4, <2>1, SplitFlags
<1>12. CASE ~IsRel(w) /\ ~Stale(S, w) /\ i = 0
  <2>1. U.S = E /\ U.k = L.k + 1
    BY <1>2, <1>5, <1>12
  <2>2. w \in DOMAIN S.ref /\ s \in Ids /\ Len(s) \in Nat
    <3>1. w \in DOMAIN S.ref
      BY <1>12 DEF Stale
    <3> QED
      BY <1>1, <3>1, RefIs DEF Ids
  <2>3. \A m \in 1..Len(s) : s[m] # n
    BY <1>12, <2>2, IndexInIs
  <2>4. Ending(S, w, n)
    <3>1. \A m \in 1..(Len(s) - 1) : m \in 1..Len(s)
      BY <2>2
    <3> QED
      BY <2>2, <2>3, <3>1 DEF Ending
  <2> HIDE DEF S, w, U, E, i, s
  <2>5. SplitKeeps(O, E, n, rs)
    BY <1>1, <1>4, SplitFlags
  <2>6. Begins(S.idx[n], E.idx[n]) /\ E.idx[n] \in Ids /\ \A p : Ending(E, p, n) <=> Ending(S, p, n)
    BY <1>4, <1>8
  <2>7. rs => EndingBefore(E, n, L.k + 1)
    BY <1>7, <1>9, <2>4, <2>6
  <2> QED
    BY <2>1, <2>5, <2>7
<1>13. CASE ~IsRel(w) /\ ~Stale(S, w) /\ i # 0 /\ ~rs /\ i \in {1, Len(s)}
  <2>1. U.S = S
    BY <1>1, <1>2, <1>5, <1>13
  <2> QED
    BY <1>1, <1>13, <2>1
<1>14. CASE ~IsRel(w) /\ ~Stale(S, w) /\ i # 0 /\ ~(~rs /\ i \in {1, Len(s)})
  <2> DEFINE k == IF T.n > 0 THEN 2 ELSE L.k + 1
  <2>1. U.S = T /\ U.k = k
    <3>1. U = [S |-> T, k |-> k]
      BY <1>2, <1>5, <1>14
    <3> HIDE DEF U, T, k
    <3> QED
      BY <3>1
  <2>2. w \in DOMAIN S.ref
    BY <1>14 DEF Stale
  <2>3. s \in Ids /\ Len(s) \in Nat
    BY <1>1, <2>2, RefIs DEF Ids
  <2>4. i \in 1..Len(s) /\ s[i] = n /\ \A m \in 1..Len(s) : s[m] = n => i <= m
    <3>1. i = IndexIn(s, n) /\ i # 0
      BY <1>14
    <3> HIDE DEF s
    <3>2. i \in 0..Len(s) /\ s[i] = n /\ \A m \in 1..Len(s) : s[m] = n => i <= m
      BY <2>3, <3>1, IndexInIs
    <3> HIDE DEF i
    <3> QED
      BY <2>3, <3>1, <3>2
  <2>5. tail \in Ids /\ Range(tail) \subseteq Range(s)
    <3> DEFINE a == IF rs THEN i + 1 ELSE i
    <3> HIDE DEF s, i
    <3>1. a \in Int /\ a >= 1 /\ Len(s) \in Int /\ Len(s) <= Len(s)
      BY <2>3, <2>4
    <3> HIDE DEF a
    <3>2. SubSeq(s, a, Len(s)) \in Seq(Int) /\ Range(SubSeq(s, a, Len(s))) \subseteq Range(s)
      BY <2>3, <3>1, SubSeqIs DEF Ids
    <3> QED
      BY <3>2 DEF a, i, s, Ids
  <2>6. k \in Nat /\ k <= L.k + 1
    <3> HIDE DEF T
    <3> QED
      BY <1>1
  <2>7. ~rs => i # Len(s)
    BY <1>14
  <2>8. tail = SubSeq(S.ref[w], IF rs THEN i + 1 ELSE i, Len(S.ref[w])) /\ s = S.ref[w]
    OBVIOUS
  <2> HIDE DEF w, i, tail, S, U, s
  <2>9. T = SplitWay(S, w, n, i, tail)
    OBVIOUS
  <2> HIDE DEF T, k
  <2>10. Sound(T) /\ CutAt(S, T, w, i, tail)
    BY <1>1, <2>2, <2>4, <2>5, <2>8, <2>9, SplitWaySound
  <2>11. /\ SplitKeeps(O, T, n, rs) /\ Ending(T, w, n)
         /\ \A p : Ending(S, p, n) => Ending(T, p, n)
    <3> DEFINE f == IF rs THEN i + 1 ELSE i
    <3>1. Cut(S, T, w, i, f)
      BY <2>2, <2>3, <2>4, <2>7, <2>8, <2>10 DEF Cut
    <3>2. S.ref[w][i] = n /\ \A m \in 1..Len(S.ref[w]) : S.ref[w][m] = n => i <= m
      BY <2>4, <2>8
    <3>3. f = IF rs THEN i + 1 ELSE i
      OBVIOUS
    <3> HIDE DEF f
    <3>4. CutKept(O, S, T, w, n, rs)
      BY <1>1, <3>1, <3>2, <3>3, CutKeeps
    <3> QED
      BY <3>4 DEF CutKept
  <2>12. Begins(S.idx[n], T.idx[n]) /\ T.idx[n] \in Ids
    <3>1. n \in DOMAIN S.idx /\ n = S.ref[w][i]
      BY <1>1, <2>4, <2>8 DEF SplitKeeps
    <3>2. n \in DOMAIN T.idx /\ Begins(S.idx[n], T.idx[n])
      BY <2>10, <3>1 DEF CutAt
    <3>3. T.idx \in Fns(Int, Ids)
      BY <2>10 DEF Sound, Data
    <3> QED
      BY <3>2, <3>3, FnsIs
  <2>13. rs => EndingBefore(T, n, k)
    BY <1>7, <2>6, <2>11, <2>12
  <2> QED
    BY <2>1, <2>11, <2>13
<1> QED
  BY <1>10, <1>11, <1>12, <1>13, <1>14

\* So does the loop.
LEMMA SplitAtDone ==
  ASSUME NEW S, Sound(S), S.raw = {}, NEW n \in DOMAIN S.idx, NEW rs \in BOOLEAN
  PROVE  SplitAt(S, n, rs) \in SplitDone(S, n, rs)
<1> DEFINE b == [S |-> S, k |-> 1]
           Turn(L) == SplitTurn(L, n, rs)
           f == CHOOSE g : g = [i \in 0..MaxTurns |-> IF i = 0 THEN b ELSE Turn(g[i - 1])]
           X == SplitDone(S, n, rs)
           G == [x \in (1..MaxTurns) \X X |-> Turn(x[2])]
<1>0. MaxTurns \in Nat
  BY NumbersAssumption
<1>1. SplitAt(S, n, rs) = f[MaxTurns]
  BY DEF SplitAt, Loop
<1>2. \A L \in X : Turn(L) \in X
  BY SplitTurnDone
<1>3. b \in X
  <2>1. b \in SplitStates
    BY DEF SplitStates, SoundData, Sound
  <2>2. SplitKeeps(S, S, n, rs)
    BY DEF SplitKeeps
  <2>3. EndingBefore(S, n, 1)
    <3>1. S.idx[n] \in Ids
      BY FnsIs DEF Sound, Data
    <3>2. \A j \in DOMAIN S.idx[n] : ~(j < 1)
      BY <3>1 DEF Ids
    <3> QED
      BY <3>2 DEF EndingBefore
  <2> QED
    BY <2>1, <2>2, <2>3 DEF SplitDone
<1> HIDE DEF Turn, X, b
<1>4. f = [i \in 0..MaxTurns |-> IF i = 0 THEN b ELSE Turn(f[i - 1])]
  <2>1. G \in [(1..MaxTurns) \X X -> X]
    BY <1>2
  <2> HIDE DEF G
  <2>2. \E g : Recursive(g, X, MaxTurns, b, G)
    BY <1>0, <1>3, <2>1, Recursion
  <2>3. PICK g \in [0..MaxTurns -> X] : g[0] = b /\ \A i \in 1..MaxTurns : g[i] = G[<<i, g[i - 1]>>]
    BY <2>2 DEF Recursive
  <2>4. \A i \in 1..MaxTurns : g[i] = Turn(g[i - 1])
    <3> SUFFICES ASSUME NEW i \in 1..MaxTurns
                 PROVE  G[<<i, g[i - 1]>>] = Turn(g[i - 1])
      BY <2>3
    <3>1. <<i, g[i - 1]>> \in (1..MaxTurns) \X X
      BY <1>0, <2>3
    <3> QED
      BY <3>1 DEF G
  <2>5. g = [i \in 0..MaxTurns |-> IF i = 0 THEN b ELSE Turn(g[i - 1])]
    BY <2>3, <2>4
  <2> QED
    BY <2>5
<1> HIDE DEF f
<1>5. f[0] \in X
  BY <1>0, <1>3, <1>4
<1>6. ASSUME NEW i \in 1..MaxTurns, f[i - 1] \in X
      PROVE  f[i] \in X
  <2>1. i \in 0..MaxTurns /\ i # 0
    BY <1>0
  <2>2. f[i] = Turn(f[i - 1])
    BY <1>4, <2>1
  <2> QED
    BY <1>2, <1>6, <2>2
<1>7. \A i \in 0..MaxTurns : f[i] \in X
  BY <1>0, <1>5, <1>6, Within
<1> QED
  BY <1>0, <1>1, <1>7 DEF X

\* If all parents of n are done, no segment leads from n to another node, since
\* every way with n is one of them.
LEMMA EndingAll ==
  ASSUME NEW S, Sound(S), S.raw = {}, NEW n \in DOMAIN S.pos,
         n \in DOMAIN S.idx => \A j \in DOMAIN S.idx[n] : Ending(S, S.idx[n][j], n), NEW b, b # n
  PROVE  Segments(S, n, b) = 0
<1>1. S \in Data /\ Fresh(S) /\ Complete(S, DOMAIN S.ref)
  BY DEF Sound
<1>2. ASSUME NEW p \in SegmentsAt(S, n, b)
      PROVE  FALSE
  <2> DEFINE w == p[1]
             i == p[2]
  <2>1. p = <<w, i>>
    BY SegmentIs
  <2>2. w \in DOMAIN S.ref /\ i \in 1..(Len(S.ref[w]) - 1) /\ S.ref[w][i] = n /\ S.ref[w][i + 1] = b
    BY <2>1, SegmentIs
  <2> HIDE DEF w, i
  <2>3. S.ref[w] \in Ids /\ w < 100 /\ w \in Int
    BY <1>1, <2>2, RefIs DEF Fresh
  <2>4. i \in DOMAIN S.ref[w]
    BY <2>2, <2>3 DEF Ids
  <2>5. n \in Range(S.ref[w])
    BY <2>2, <2>4, RangeIs
  <2>6. w \in Range(ListOf(S.idx, n))
    BY <1>1, <2>2, <2>5 DEF Complete, Parents
  <2>7. n \in DOMAIN S.idx
    <3>1. CASE n \notin DOMAIN S.idx
      <4>1. w \in Range(<<>>)
        BY <2>6, <3>1 DEF ListOf
      <4> QED
        BY <4>1 DEF Range
    <3> QED
      BY <3>1
  <2>8. PICK j \in DOMAIN S.idx[n] : w = S.idx[n][j]
    BY <2>6, <2>7, RangeIs DEF ListOf
  <2>9. Ending(S, w, n) /\ ~IsRel(w)
    BY <2>3, <2>7, <2>8 DEF IsRel
  <2> QED
    BY <2>2, <2>9 DEF Ending
<1>3. SegmentsAt(S, n, b) = {}
  BY <1>2
<1> QED
  BY <1>3, FS_EmptySet DEF Segments

\* What a call of split does to the segments.
SplitStep ==
  last'.op = "split" /\ ~data'.fault /\ data.raw = {} =>
    \A a, b \in Nodes : a # b =>
      Segments(data', a, b) = IF last'.rs /\ a = last'.n THEN 0 ELSE Segments(data, a, b)
LEMMA SplitStepHolds ==
  ASSUME IInv, Split
  PROVE  SplitStep
<1>1. PICK n \in Nodes, rs \in BOOLEAN :
        /\ Call([op |-> "split", n |-> n, rs |-> rs], IF n \in DOMAIN data.idx THEN SplitAt(data, n, rs).S ELSE data)
        /\ n \notin DOMAIN data.idx \/ SplitOver(SplitAt(data, n, rs), n)
  BY DEF Split
<1> DEFINE L == SplitAt(data, n, rs)
           S == IF n \in DOMAIN data.idx THEN L.S ELSE data
<1>2. Sound(data) /\ data \in Data /\ n \in DOMAIN data.pos
  BY DEF IInv, Sound, Nodes
<1>3. last'.n = n /\ last'.rs = rs /\ data' = [S EXCEPT !.n = 0]
  BY <1>1 DEF Call
<1>4. SUFFICES ASSUME ~data'.fault, data.raw = {}
               PROVE  \A a, b \in Nodes : a # b =>
                        Segments(data', a, b) = IF rs /\ a = n THEN 0 ELSE Segments(data, a, b)
  BY <1>3 DEF SplitStep
<1>5. CASE n \notin DOMAIN data.idx
  <2>1. data'.ref = data.ref
    BY <1>2, <1>3, <1>5 DEF Data
  <2>2. \A a, b : Segments(data', a, b) = Segments(data, a, b)
    BY <2>1 DEF Segments, SegmentsAt, Places
  <2>3. \A b : b # n => Segments(data, n, b) = 0
    BY <1>2, <1>4, <1>5, EndingAll
  <2> QED
    BY <2>2, <2>3
<1>6. CASE n \in DOMAIN data.idx
  <2>1. L \in SplitDone(data, n, rs)
    BY <1>2, <1>4, <1>6, SplitAtDone
  <2>2. SplitOver(L, n) /\ data' = [L.S EXCEPT !.n = 0]
    BY <1>1, <1>3, <1>6
  <2> HIDE DEF L
  <2>3. /\ L.S \in Data /\ Sound(L.S) /\ SplitKeeps(data, L.S, n, rs) /\ (rs => EndingBefore(L.S, n, L.k))
        /\ L.k \in Nat
    BY <2>1 DEF SplitDone, SplitStates, SoundData
  <2>4. data'.ref = L.S.ref /\ data'.fault = L.S.fault
    BY <2>2, <2>3 DEF Data
  <2>5. \A a, b : Segments(data', a, b) = Segments(L.S, a, b)
    BY <2>4 DEF Segments, SegmentsAt, Places
  <2>6. \A a, b : a # b /\ (rs => a # n) => Segments(L.S, a, b) = Segments(data, a, b)
    BY <2>3 DEF SplitKeeps
  <2>7. ASSUME rs
        PROVE  \A b : b # n => Segments(L.S, n, b) = 0
    <3>1. L.k > Len(L.S.idx[n])
      BY <1>4, <2>2, <2>4 DEF SplitOver
    <3>2. L.S.idx[n] \in Ids /\ L.S.pos = data.pos /\ L.S.raw = {}
      <4>1. n \in DOMAIN L.S.idx /\ L.S.idx \in Fns(Int, Ids)
        BY <2>3 DEF SplitKeeps, Data
      <4> QED
        BY <2>3, <4>1, FnsIs DEF SplitKeeps
    <3>3. \A j \in DOMAIN L.S.idx[n] : j < L.k
      <4> DEFINE list == L.S.idx[n]
      <4>1. DOMAIN list = 1..Len(list) /\ Len(list) \in Nat
        BY <3>2 DEF Ids
      <4> HIDE DEF list
      <4>2. L.k > Len(list)
        BY <3>1 DEF list
      <4>3. \A j \in DOMAIN list : j < L.k
        BY <2>3, <4>1, <4>2
      <4> QED
        BY <4>3 DEF list
    <3>4. \A j \in DOMAIN L.S.idx[n] : Ending(L.S, L.S.idx[n][j], n)
      BY <2>3, <2>7, <3>3 DEF EndingBefore
    <3>5. n \in DOMAIN L.S.pos
      BY <1>2, <3>2
    <3> QED
      BY <2>3, <3>2, <3>4, <3>5, EndingAll
  <2> QED
    BY <2>5, <2>6, <2>7
<1> QED
  BY <1>5, <1>6

\* While no way lacks entries in the index, split() keeps every segment of every way, and with
\* remsegment it removes exactly those that begin at the node, in all ways and at all its places.
THEOREM SplitIsExact == Spec => SplitExact
<1>1. IInv /\ [Next]_vars => [SplitStep]_vars
  <2> SUFFICES ASSUME IInv, Next
               PROVE  SplitStep
    OBVIOUS
  <2> SUFFICES ASSUME last'.op = "split"
               PROVE  SplitStep
    BY DEF SplitStep
  <2>1. Split
    BY OpIs
  <2> QED
    BY <2>1, SplitStepHolds
<1>2. [][SplitStep]_vars => SplitExact
  BY PTL DEF SplitExact, SplitStep
<1> QED
  BY <1>1, <1>2, Invariant, PTL DEF Spec

(***************************************************************************)
(* The nodes of a way that is wrapped                                      *)
(***************************************************************************)
\* t is s with a and b at index i.
WithTwo(s, t, i, a, b) ==
  /\ t \in Ids /\ Len(t) = Len(s) + 2
  /\ \A j \in 1..(i - 1) : t[j] = s[j]
  /\ t[i] = a /\ t[i + 1] = b
  /\ \A j \in i..Len(s) : t[j + 2] = s[j]
LEMMA WithTwoIs ==
  ASSUME NEW s \in Ids, NEW i \in Int, i >= 1, i <= Len(s) + 1, NEW a \in Int, NEW b \in Int,
         NEW t, t = SubSeq(s, 1, i - 1) \o <<a, b>> \o SubSeq(s, i, Len(s))
  PROVE  WithTwo(s, t, i, a, b)
<1> DEFINE x == SubSeq(s, 1, i - 1)
           y == SubSeq(s, i, Len(s))
           m == <<a, b>>
           xm == x \o m
<1>1. Len(s) \in Nat /\ s \in Seq(Int)
  BY DEF Ids
<1>2. x \in Seq(Int) /\ Len(x) = i - 1 /\ \A j \in 1..(i - 1) : x[j] = s[j]
  <2>1. CASE i - 1 < 1
    <3>1. x = <<>> /\ i = 1
      BY <1>1, <2>1, SubSeqEmpty
    <3> QED
      BY <3>1
  <2>2. CASE ~(i - 1 < 1)
    <3>1. /\ x \in Seq(Int) /\ Len(x) = (i - 1) - 1 + 1
          /\ \A k \in 1..((i - 1) - 1 + 1) : x[k] = s[1 + k - 1]
      BY <1>1, <2>2, SubSeqProperties
    <3>2. (i - 1) - 1 + 1 = i - 1 /\ \A j \in 1..(i - 1) : 1 + j - 1 = j
      OBVIOUS
    <3> QED
      BY <3>1, <3>2
  <2> QED
    BY <2>1, <2>2
<1>3. y \in Seq(Int) /\ Len(y) = Len(s) - i + 1 /\ \A j \in 1..(Len(s) - i + 1) : y[j] = s[i + j - 1]
  <2>1. CASE Len(s) < i
    <3>1. y = <<>> /\ i = Len(s) + 1
      BY <1>1, <2>1, SubSeqEmpty
    <3> QED
      BY <1>1, <3>1
  <2>2. CASE ~(Len(s) < i)
    BY <1>1, <2>2, SubSeqProperties
  <2> QED
    BY <2>1, <2>2
<1>4. m \in Seq(Int) /\ Len(m) = 2 /\ m[1] = a /\ m[2] = b
  OBVIOUS
<1>5. t = xm \o y
  OBVIOUS
<1> HIDE DEF x, y, m
<1>6. /\ xm \in Seq(Int) /\ Len(xm) = i + 1 /\ \A j \in 1..(i - 1) : xm[j] = s[j]
      /\ xm[i] = a /\ xm[i + 1] = b
  <2>1. /\ xm \in Seq(Int) /\ Len(xm) = Len(x) + Len(m)
        /\ \A j \in 1..(Len(x) + Len(m)) : xm[j] = IF j <= Len(x) THEN x[j] ELSE m[j - Len(x)]
    BY <1>2, <1>4, ConcatProperties
  <2>2. Len(x) + Len(m) = i + 1
    BY <1>2, <1>4
  <2>3. \A j \in 1..(i - 1) : xm[j] = s[j]
    BY <1>2, <2>1, <2>2
  <2>4. xm[i] = m[1]
    BY <1>2, <2>1, <2>2
  <2>5. xm[i + 1] = m[2]
    BY <1>2, <2>1, <2>2
  <2> QED
    BY <1>4, <2>1, <2>2, <2>3, <2>4, <2>5
<1> HIDE DEF xm
<1>7. /\ t \in Seq(Int) /\ Len(t) = Len(s) + 2
      /\ \A j \in 1..(Len(s) + 2) : t[j] = IF j <= i + 1 THEN xm[j] ELSE y[j - (i + 1)]
  <2> DEFINE z == xm \o y
  <2>3. /\ z \in Seq(Int) /\ Len(z) = Len(xm) + Len(y)
        /\ \A j \in 1..(Len(xm) + Len(y)) : z[j] = IF j <= Len(xm) THEN xm[j] ELSE y[j - Len(xm)]
    BY ONLY <1>3, <1>6, ConcatProperties
  <2>4. t = z
    BY ONLY <1>5
  <2> HIDE DEF z
  <2>2. Len(xm) + Len(y) = Len(s) + 2
    BY <1>1, <1>3, <1>6
  <2> QED
    BY <1>6, <2>2, <2>3, <2>4
<1>8. \A j \in 1..(i - 1) : t[j] = s[j]
  <2> SUFFICES ASSUME NEW j \in 1..(i - 1)
               PROVE  t[j] = s[j]
    OBVIOUS
  <2>1. j \in 1..(Len(s) + 2) /\ j <= i + 1
    BY <1>1
  <2> QED
    BY <1>6, <1>7, <2>1
<1>9. t[i] = a /\ t[i + 1] = b
  <2>1. i \in 1..(Len(s) + 2) /\ i <= i + 1 /\ i + 1 \in 1..(Len(s) + 2) /\ i + 1 <= i + 1
    BY <1>1
  <2> QED
    BY <1>6, <1>7, <2>1
<1>10. \A j \in i..Len(s) : t[j + 2] = s[j]
  <2> SUFFICES ASSUME NEW j \in i..Len(s)
               PROVE  t[j + 2] = s[j]
    OBVIOUS
  <2>1. j + 2 \in 1..(Len(s) + 2) /\ ~(j + 2 <= i + 1)
    BY <1>1
  <2>2. (j + 2) - (i + 1) \in 1..(Len(s) - i + 1) /\ i + ((j + 2) - (i + 1)) - 1 = j
    BY <1>1
  <2> QED
    BY <1>3, <1>7, <2>1, <2>2
<1> QED
  BY <1>7, <1>8, <1>9, <1>10 DEF WithTwo, Ids

\* f computes the nodes of s above u.
Picks(f, s, u) ==
  /\ f[0] = <<>> /\ \A i \in 0..Len(s) : f[i] \in Ids
  /\ \A i \in 1..Len(s) : f[i] = IF s[i] > u THEN Append(f[i - 1], s[i]) ELSE f[i - 1]
  /\ Above(s, u) = f[Len(s)]
LEMMA AboveIs ==
  ASSUME NEW s \in Ids, NEW u
  PROVE  \E f : Picks(f, s, u)
<1> DEFINE m == Len(s)
           Step(r, i) == IF s[i] > u THEN Append(r, s[i]) ELSE r
           f == CHOOSE g : g = [i \in 0..m |-> IF i = 0 THEN <<>> ELSE Step(g[i - 1], i)]
           G == [x \in (1..m) \X Ids |-> Step(x[2], x[1])]
<1>0. m \in Nat
  BY DEF Ids
<1>1. Above(s, u) = f[m]
  BY DEF Above, InTurn
<1>2. ASSUME NEW r \in Ids, NEW i \in 1..m
      PROVE  Step(r, i) \in Ids
  BY AppendIs DEF Ids
<1>3. <<>> \in Ids
  BY DEF Ids
<1> HIDE DEF Step
<1>4. \E g : g = [i \in 0..m |-> IF i = 0 THEN <<>> ELSE Step(g[i - 1], i)] /\ \A i \in 0..m : g[i] \in Ids
  <2>1. G \in [(1..m) \X Ids -> Ids]
    BY <1>2
  <2> HIDE DEF G
  <2>2. \E g : Recursive(g, Ids, m, <<>>, G)
    BY <1>0, <1>3, <2>1, Recursion
  <2>3. PICK g \in [0..m -> Ids] : g[0] = <<>> /\ \A i \in 1..m : g[i] = G[<<i, g[i - 1]>>]
    BY <2>2 DEF Recursive
  <2>4. \A i \in 1..m : g[i] = Step(g[i - 1], i)
    <3> SUFFICES ASSUME NEW i \in 1..m
                 PROVE  G[<<i, g[i - 1]>>] = Step(g[i - 1], i)
      BY <2>3
    <3>1. <<i, g[i - 1]>> \in (1..m) \X Ids
      BY <1>0, <2>3
    <3> QED
      BY <3>1 DEF G
  <2>5. g = [i \in 0..m |-> IF i = 0 THEN <<>> ELSE Step(g[i - 1], i)]
    BY <2>3, <2>4
  <2> QED
    BY <2>3, <2>5
<1>5. f = [i \in 0..m |-> IF i = 0 THEN <<>> ELSE Step(f[i - 1], i)]
  BY <1>4
<1> HIDE DEF f, m
<1>6. f[0] = <<>> /\ \A i \in 1..m : f[i] = Step(f[i - 1], i)
  <2>1. 0 \in 0..m /\ \A i \in 1..m : i \in 0..m /\ i # 0
    BY <1>0
  <2> QED
    BY <1>5, <2>1
<1>7. f[0] \in Ids
  BY <1>3, <1>6
<1>8. ASSUME NEW i \in 1..m, f[i - 1] \in Ids
      PROVE  f[i] \in Ids
  BY <1>2, <1>6, <1>8
<1>9. \A i \in 0..m : f[i] \in Ids
  BY <1>0, <1>7, <1>8, Within
<1> QED
  BY <1>1, <1>6, <1>9 DEF Picks, Step, m

\* All nodes of a way are above the ids that are still to be given out.
LEMMA AboveAll ==
  ASSUME NEW s \in Ids, NEW u \in Int, \A n \in Range(s) : n > u
  PROVE  Above(s, u) = s
<1> DEFINE m == Len(s)
<1>1. m \in Nat /\ DOMAIN s = 1..m /\ \A i \in 1..m : s[i] \in Int /\ s[i] > u
  BY RangeIs DEF Ids
<1>2. PICK f : Picks(f, s, u)
  BY AboveIs
<1> DEFINE N == {k \in 0..m : Len(f[k]) = k /\ \A j \in 1..k : f[k][j] = s[j]}
<1>3. 0 \in N
  BY <1>1, <1>2 DEF Picks
<1>4. ASSUME NEW k \in 1..m, k - 1 \in N
      PROVE  k \in N
  <2>1. f[k] = Append(f[k - 1], s[k])
    BY <1>1, <1>2 DEF Picks
  <2>2. f[k - 1] \in Seq(Int) /\ Len(f[k - 1]) = k - 1 /\ \A j \in 1..(k - 1) : f[k - 1][j] = s[j]
    <3>1. k - 1 \in 0..m
      BY <1>1
    <3> QED
      BY <1>2, <1>4, <3>1 DEF Picks, Ids
  <2> DEFINE r == f[k - 1]
  <2> HIDE DEF r
  <2>3. /\ Len(Append(r, s[k])) = k /\ Append(r, s[k])[k] = s[k]
        /\ \A j \in 1..(k - 1) : Append(r, s[k])[j] = s[j]
    <3>1. r \in Seq(Int) /\ Len(r) = k - 1 /\ \A j \in 1..(k - 1) : r[j] = s[j]
      BY <2>2 DEF r
    <3> QED
      BY <3>1
  <2>4. \A j \in 1..k : f[k][j] = s[j]
    <3> SUFFICES ASSUME NEW j \in 1..k
                 PROVE  f[k][j] = s[j]
      OBVIOUS
    <3>1. j = k \/ j \in 1..(k - 1)
      BY <1>1
    <3> QED
      BY <2>1, <2>3, <3>1 DEF r
  <2>5. Len(f[k]) = k /\ k \in 0..m
    BY <1>1, <2>1, <2>3 DEF r
  <2> QED
    BY <2>4, <2>5
<1> HIDE DEF N
<1>5. m \in N
  <2>1. 0..m \subseteq N
    BY <1>1, <1>3, <1>4, InductionTo
  <2> QED
    BY <1>1, <2>1
<1>6. Len(f[m]) = m /\ (\A j \in 1..m : f[m][j] = s[j]) /\ f[m] \in Seq(Int)
  BY <1>1, <1>2, <1>5 DEF N, Picks, Ids
<1>7. f[m] = s
  <2> DEFINE r == f[m]
  <2> HIDE DEF r
  <2>1. r \in Seq(Int) /\ s \in Seq(Int) /\ Len(r) = Len(s) /\ \A j \in 1..Len(s) : r[j] = s[j]
    BY <1>6 DEF Ids, r
  <2>2. r = s
    BY <2>1, SeqEqual
  <2> QED
    BY <2>2 DEF r
<1> QED
  BY <1>2, <1>7 DEF Picks

\* Two nodes that are not above u are not counted.
LEMMA AboveTwo ==
  ASSUME NEW s \in Ids, NEW t, NEW i \in Int, i >= 1, i <= Len(s) + 1, NEW a \in Int, NEW b \in Int,
         NEW u \in Int, a <= u, b <= u, WithTwo(s, t, i, a, b)
  PROVE  Above(t, u) = Above(s, u)
<1> DEFINE m == Len(s)
<1>1. m \in Nat /\ Len(t) = m + 2 /\ t \in Ids
  BY DEF Ids, WithTwo
<1>2. PICK f : Picks(f, s, u)
  BY AboveIs
<1>3. PICK g : Picks(g, t, u)
  BY <1>1, AboveIs
<1> DEFINE M == {j \in 0..(i - 1) : g[j] = f[j]}
<1>4. \A j \in 1..m : f[j] = IF s[j] > u THEN Append(f[j - 1], s[j]) ELSE f[j - 1]
  BY <1>2 DEF Picks
<1>5. \A j \in 1..(m + 2) : g[j] = IF t[j] > u THEN Append(g[j - 1], t[j]) ELSE g[j - 1]
  BY <1>1, <1>3 DEF Picks
<1>6. i - 1 \in M
  <2>1. 0 \in M
    BY <1>2, <1>3 DEF Picks
  <2>2. ASSUME NEW j \in 1..(i - 1), j - 1 \in M
        PROVE  j \in M
    <3>1. j \in 1..m /\ j \in 1..(m + 2) /\ j \in 0..(i - 1) /\ t[j] = s[j]
      BY <1>1 DEF WithTwo
    <3> QED
      BY <1>4, <1>5, <2>2, <3>1
  <2>3. i - 1 \in Nat
    OBVIOUS
  <2> DEFINE e == i - 1
  <2>4. e \in Nat /\ \A j \in 1..e : j - 1 \in M => j \in M
    BY <2>2, <2>3
  <2> HIDE DEF M, e
  <2>5. 0..e \subseteq M
    BY <2>1, <2>4, InductionTo
  <2> QED
    BY <2>4, <2>5 DEF e
<1>7. g[i - 1] = f[i - 1]
  BY <1>6
<1>8. g[i] = g[i - 1] /\ g[i + 1] = g[i]
  <2>1. i \in 1..(m + 2) /\ i + 1 \in 1..(m + 2) /\ (i + 1) - 1 = i
    BY <1>1
  <2>2. ~(t[i] > u) /\ ~(t[i + 1] > u)
    BY DEF WithTwo
  <2> QED
    BY <1>5, <2>1, <2>2
<1> DEFINE d == m - (i - 1)
           K == {k \in 0..d : g[(i + 1) + k] = f[(i - 1) + k]}
<1>9. 0 \in K
  BY <1>1, <1>7, <1>8
<1>10. ASSUME NEW k \in 1..d, k - 1 \in K
       PROVE  k \in K
  <2> DEFINE p == (i - 1) + k
  <2>1. p \in 1..m /\ p \in i..Len(s) /\ p + 2 \in 1..(m + 2) /\ k \in 0..d
    BY <1>1
  <2>2. p + 2 = (i + 1) + k /\ p - 1 = (i - 1) + (k - 1) /\ (p + 2) - 1 = (i + 1) + (k - 1)
    BY <1>1
  <2>3. t[p + 2] = s[p]
    BY <2>1 DEF WithTwo
  <2>4. g[(p + 2) - 1] = f[p - 1]
    BY <1>10, <2>2
  <2> HIDE DEF p
  <2>5. g[p + 2] = f[p]
    BY <1>4, <1>5, <2>1, <2>3, <2>4
  <2> QED
    BY <2>1, <2>2, <2>5 DEF p
<1>11. d \in Nat
  BY <1>1
<1> HIDE DEF K, d
<1>12. d \in K
  <2>1. 0..d \subseteq K
    BY <1>9, <1>10, <1>11, InductionTo
  <2> QED
    BY <1>11, <2>1
<1>13. g[m + 2] = f[m]
  <2>1. (i + 1) + d = m + 2 /\ (i - 1) + d = m
    BY <1>1 DEF d
  <2> QED
    BY <1>12, <2>1 DEF K
<1> QED
  BY <1>1, <1>2, <1>3, <1>13 DEF Picks

\* What a turn does, if there is a node left: it goes on with that node, and may mark
\* the one before it, or put two nodes at the seam.
Passes(L, U, w, at) ==
  /\ L.i = 1 \/ ~Jumps(L.S.pos, L.n0, L.S.ref[w][at])
  /\ U.S = L.S /\ U.n0 = L.S.ref[w][at] /\ U.i = at + 1
Marks(L, U, w, at) ==
  /\ L.i # 1 /\ Marked(L.S, U.S, L.n0)
  /\ U.n0 = L.S.ref[w][at] /\ U.i = at + 1
Puts(L, U, w, at) ==
  /\ L.i # 1 /\ Jumps(L.S.pos, L.n0, L.S.ref[w][at])
  /\ SeamPut(L.S, U.S, w, Seam(L.S.pos[L.n0], L.S.pos[L.S.ref[w][at]]), L.i)
  /\ U.n0 = L.S.unid - 1 /\ U.i = at + 3
WrapTurns(L, U, w, noinsert, at) ==
  \/ at = 0 /\ U = L
  \/ /\ at \in Nat /\ at >= L.i /\ at <= Len(L.S.ref[w]) /\ L.S.ref[w][at] \in DOMAIN L.S.pos
     /\ Passes(L, U, w, at) \/ (noinsert /\ Marks(L, U, w, at)) \/ (~noinsert /\ Puts(L, U, w, at))
LEMMA WrapTurnIs ==
  ASSUME NEW w, NEW noinsert \in BOOLEAN, NEW L \in WrapStates(w)
  PROVE  WrapTurns(L, WrapTurn(L, w, noinsert), w, noinsert, WrapNext(L.S, w, L.i))
<1> DEFINE S == L.S
           at == WrapNext(S, w, L.i)
           n1 == S.ref[w][at]
           sm == Seam(S.pos[L.n0], S.pos[n1])
           M == [S EXCEPT !.mark = @ \cup {L.n0}]
           T == InsertRefs([PutNodes(S, sm) EXCEPT !.mark = @ \cup {S.unid}], w, <<S.unid, S.unid - 1>>, L.i)
           U == WrapTurn(L, w, noinsert)
<1> SUFFICES WrapTurns(L, U, w, noinsert, at)
  OBVIOUS
<1>1. /\ Sound(S) /\ S \in Data /\ w \in DOMAIN S.ref
      /\ L.i \in Nat \ {0} /\ (L.i = 1 \/ L.n0 \in DOMAIN S.pos)
  BY DEF WrapStates, SoundData
<1>2. U = IF at = 0 THEN L
          ELSE IF L.i = 1 \/ ~Jumps(S.pos, L.n0, n1) THEN [S |-> S, n0 |-> n1, i |-> at + 1]
          ELSE IF noinsert THEN [S |-> M, n0 |-> n1, i |-> at + 1]
          ELSE [S |-> T, n0 |-> S.unid - 1, i |-> at + 3]
  BY DEF WrapTurn
<1>8. M = [S EXCEPT !.mark = @ \cup {L.n0}]
  OBVIOUS
<1>9. T = InsertRefs([PutNodes(S, sm) EXCEPT !.mark = @ \cup {S.unid}], w, <<S.unid, S.unid - 1>>, L.i)
  OBVIOUS
<1> HIDE DEF M, T, U
<1>3. ASSUME at # 0
      PROVE  at \in Nat /\ at >= L.i /\ at <= Len(S.ref[w]) /\ n1 \in DOMAIN S.pos
  BY <1>1, <1>3, WrapNextIs
<1> HIDE DEF at
<1>4. CASE at = 0
  BY <1>2, <1>4 DEF WrapTurns
<1>5. CASE at # 0 /\ (L.i = 1 \/ ~Jumps(S.pos, L.n0, n1))
  <2>1. Passes(L, U, w, at)
    BY <1>2, <1>5 DEF Passes
  <2> QED
    BY <1>3, <1>5, <2>1 DEF WrapTurns
<1>6. CASE at # 0 /\ L.i # 1 /\ Jumps(S.pos, L.n0, n1) /\ noinsert
  <2>1. U.S = M /\ U.n0 = n1 /\ U.i = at + 1
    BY <1>2, <1>6
  <2>3. Marked(S, M, L.n0)
    BY <1>1, <1>6, <1>8, MarkSound
  <2>4. Marks(L, U, w, at)
    BY <1>6, <2>1, <2>3 DEF Marks
  <2> QED
    BY <1>3, <1>6, <2>4 DEF WrapTurns
<1>7. CASE at # 0 /\ L.i # 1 /\ Jumps(S.pos, L.n0, n1) /\ ~noinsert
  <2>1. U.S = T /\ U.n0 = S.unid - 1 /\ U.i = at + 3
    BY <1>2, <1>7
  <2>3. S.pos[n1] \in Pos /\ S.pos[L.n0] \in Pos
    BY <1>1, <1>3, <1>7, PosIs
  <2>4. sm \in Seq(Pos) /\ Len(sm) = 2
    BY <2>3, NumbersAssumption, SeamIs
  <2>5. L.i \in Int /\ L.i >= 1 /\ L.i <= Len(S.ref[w]) + 1
    <3>1. Len(S.ref[w]) \in Nat
      BY <1>1, RefIs DEF Ids
    <3> QED
      BY <1>1, <1>3, <1>7, <3>1
  <2> HIDE DEF sm, n1, S
  <2>6. SeamPut(S, T, w, sm, L.i)
    BY <1>1, <1>9, <2>4, <2>5, SeamSound
  <2>7. Puts(L, U, w, at)
    BY <1>7, <2>1, <2>6 DEF Puts, S, n1, sm
  <2> QED
    BY <1>3, <1>7, <2>7 DEF WrapTurns, S, n1
<1> QED
  BY <1>4, <1>5, <1>6, <1>7

\* The states in which the way has the nodes s that it had, besides new ones.
WrapNodes(w, s, u) == {L \in WrapStates(w) : L.S.unid <= u /\ Above(L.S.ref[w], u) = s}
LEMMA WrapNodesStay ==
  ASSUME NEW w, NEW s, NEW u \in Int, NEW noinsert \in BOOLEAN, NEW L \in WrapNodes(w, s, u)
  PROVE  WrapTurn(L, w, noinsert) \in WrapNodes(w, s, u)
<1> DEFINE S == L.S
           at == WrapNext(S, w, L.i)
           U == WrapTurn(L, w, noinsert)
<1>1. L \in WrapStates(w) /\ S.unid <= u /\ Above(S.ref[w], u) = s
  BY DEF WrapNodes
<1>2. /\ S \in Data /\ w \in DOMAIN S.ref /\ L.i \in Nat \ {0} /\ S.unid \in Int /\ S.ref[w] \in Ids
  <2>1. S \in Data /\ w \in DOMAIN S.ref /\ L.i \in Nat \ {0}
    BY <1>1 DEF WrapStates, SoundData
  <2> QED
    BY <2>1, RefIs DEF Data
<1>3. U \in WrapStates(w)
  BY <1>1, WrapTurnStays
<1>4. WrapTurns(L, U, w, noinsert, at)
  BY <1>1, WrapTurnIs
<1> HIDE DEF U, at
<1>5. SUFFICES U.S.unid <= u /\ Above(U.S.ref[w], u) = s
  BY <1>3 DEF WrapNodes, U
<1>6. CASE U.S = S
  BY <1>1, <1>6
<1>7. CASE Marks(L, U, w, at)
  BY <1>1, <1>7 DEF Marks, Marked
<1>8. CASE Puts(L, U, w, at) /\ at >= L.i /\ at <= Len(S.ref[w]) /\ at \in Nat
  <2> DEFINE T == U.S
             ps == Seam(S.pos[L.n0], S.pos[S.ref[w][at]])
             a == S.unid
             b == S.unid - 1
  <2>1. SeamPut(S, T, w, ps, L.i)
    BY <1>8 DEF Puts
  <2>2. /\ T.unid = S.unid - 2
        /\ T.ref[w] = SubSeq(S.ref[w], 1, L.i - 1) \o <<a, b>> \o SubSeq(S.ref[w], L.i, Len(S.ref[w]))
    BY <2>1 DEF SeamPut
  <2>3. L.i \in Int /\ L.i >= 1 /\ L.i <= Len(S.ref[w]) + 1
    <3>1. Len(S.ref[w]) \in Nat
      BY <1>2 DEF Ids
    <3> QED
      BY <1>2, <1>8, <3>1
  <2>4. a \in Int /\ b \in Int /\ a <= u /\ b <= u
    BY <1>1, <1>2
  <2> HIDE DEF T, a, b, S
  <2>5. WithTwo(S.ref[w], T.ref[w], L.i, a, b)
    BY <1>2, <2>2, <2>3, <2>4, WithTwoIs
  <2>6. Above(T.ref[w], u) = Above(S.ref[w], u)
    BY <1>2, <2>3, <2>4, <2>5, AboveTwo
  <2>7. T.unid <= u
    BY <1>1, <1>2, <2>2
  <2> QED
    BY <1>1, <2>6, <2>7 DEF T
<1> QED
  BY <1>4, <1>6, <1>7, <1>8 DEF WrapTurns, Passes

(***************************************************************************)
(* The marks of a way that is wrapped                                      *)
(***************************************************************************)
\* The node at the seam stands for the node reached: it is on its side of the map.
\* All are longitudes: x of the node the next segment is taken from, d of the node
\* before e, and m is half the width of the map.
OnSide(m, x, d) == x = d \/ (x = m /\ d > 0) \/ (x = -m /\ d < 0)
SeamLon(m, x, e) == IF e > x THEN -m ELSE m
SeamFits(m, x, d, e) ==
  /\ ~(AbsInt(e - x) > m) => ~(AbsInt(e - d) > m)
  /\ AbsInt(e - x) > m =>
       /\ AbsInt(SeamLon(m, x, e)) <= m /\ AbsInt(-SeamLon(m, x, e)) <= m
       /\ ~(AbsInt(SeamLon(m, x, e) - d) > m) /\ ~(AbsInt(e - (-SeamLon(m, x, e))) > m)
       /\ OnSide(m, -SeamLon(m, x, e), e)
LEMMA SeamFitsHolds ==
  ASSUME NEW m \in Int, NEW x \in Int, NEW d \in Int, NEW e \in Int,
         AbsInt(d) <= m, AbsInt(e) <= m, OnSide(m, x, d)
  PROVE  SeamFits(m, x, d, e)
<1>1. CASE x = d
  BY <1>1 DEF SeamFits, SeamLon, OnSide, AbsInt
<1>2. CASE x = m /\ d > 0
  BY <1>2 DEF SeamFits, SeamLon, OnSide, AbsInt
<1>3. CASE x = -m /\ d < 0
  BY <1>3 DEF SeamFits, SeamLon, OnSide, AbsInt
<1> QED
  BY <1>1, <1>2, <1>3 DEF OnSide

\* If no node is missing, the next one is at index i.
LEMMA WrapNextFirst ==
  ASSUME NEW S \in Data, NEW w \in DOMAIN S.ref, NEW i \in Nat \ {0}, Range(S.ref[w]) \subseteq DOMAIN S.pos
  PROVE  WrapNext(S, w, i) = IF i <= Len(S.ref[w]) THEN i ELSE 0
<1> DEFINE s == S.ref[w]
           I == {k \in i..Len(s) : s[k] \in DOMAIN S.pos}
<1>1. WrapNext(S, w, i) = IF I # {} THEN Min(I) ELSE 0
  BY DEF WrapNext, SelectInSubSeq
<1>2. s \in Ids /\ Len(s) \in Nat /\ DOMAIN s = 1..Len(s)
  BY RefIs DEF Ids
<1> HIDE DEF s
<1>3. I = i..Len(s)
  <2>1. \A k \in i..Len(s) : s[k] \in DOMAIN S.pos
    <3> SUFFICES ASSUME NEW k \in i..Len(s)
                 PROVE  s[k] \in DOMAIN S.pos
      OBVIOUS
    <3>1. k \in DOMAIN s
      BY <1>2
    <3> QED
      BY <3>1, RangeIs DEF s
  <2> QED
    BY <2>1
<1> HIDE DEF I
<1>4. CASE i <= Len(s)
  <2>1. i \in I /\ I \in SUBSET Nat
    BY <1>2, <1>3, <1>4
  <2>2. Min(I) \in I /\ Min(I) <= i
    BY <2>1, MinIs
  <2>3. Min(I) = i
    BY <1>2, <1>3, <2>2
  <2> QED
    BY <1>1, <1>4, <2>1, <2>3 DEF s
<1>5. CASE ~(i <= Len(s))
  <2>1. I = {}
    BY <1>2, <1>3, <1>5
  <2> QED
    BY <1>1, <1>5, <2>1 DEF s
<1> QED
  BY <1>4, <1>5

\* The segments before index i - 1 are marked, node n0 stands for the one at i - 1.
Walked(S, w, n0, i, noinsert) ==
  /\ OnMap(S, w) /\ i <= Len(S.ref[w]) + 1
  /\ \A j \in 1..(i - 2) : Jumps(S.pos, S.ref[w][j], S.ref[w][j + 1]) => S.ref[w][j] \in S.mark
  /\ i # 1 => /\ OnSide(Meridian, S.pos[n0][2], S.pos[S.ref[w][i - 1]][2])
              /\ noinsert => n0 = S.ref[w][i - 1]
WrapWalked(w, noinsert) == {L \in WrapStates(w) : Walked(L.S, w, L.n0, L.i, noinsert)}

\* The nodes of a way on the map.
LEMMA OnMapIs ==
  ASSUME NEW S \in Data, NEW w \in DOMAIN S.ref
  PROVE  /\ OnMap(S, w) <=> \A j \in 1..Len(S.ref[w]) :
              S.ref[w][j] \in DOMAIN S.pos /\ AbsInt(S.pos[S.ref[w][j]][2]) <= Meridian
         /\ Len(S.ref[w]) \in Nat
         /\ \A n \in DOMAIN S.pos : S.pos[n][2] \in Int
<1>1. S.ref[w] \in Ids /\ DOMAIN S.ref[w] = 1..Len(S.ref[w]) /\ Len(S.ref[w]) \in Nat
  BY RefIs DEF Ids
<1>2. \A n \in DOMAIN S.pos : S.pos[n][2] \in Int
  BY PosIs DEF Pos
<1> QED
  BY <1>1, <1>2, RangeIs DEF OnMap

LEMMA WrapFits ==
  ASSUME NEW w, NEW noinsert, NEW L \in WrapWalked(w, noinsert), L.i # 1, L.i <= Len(L.S.ref[w])
  PROVE  /\ SeamFits(Meridian, L.S.pos[L.n0][2], L.S.pos[L.S.ref[w][L.i - 1]][2], L.S.pos[L.S.ref[w][L.i]][2])
         /\ L.n0 \in DOMAIN L.S.pos /\ {L.S.ref[w][L.i - 1], L.S.ref[w][L.i]} \subseteq DOMAIN L.S.pos
<1> DEFINE S == L.S
           s == S.ref[w]
           i == L.i
           x == S.pos[L.n0][2]
           d == S.pos[s[i - 1]][2]
           e == S.pos[s[i]][2]
<1>1. /\ S \in Data /\ w \in DOMAIN S.ref /\ i \in Nat \ {0} /\ L.n0 \in DOMAIN S.pos
      /\ Walked(S, w, L.n0, i, noinsert) /\ Meridian \in Int
  BY NumbersAssumption DEF WrapWalked, WrapStates, SoundData
<1>2. /\ \A j \in 1..Len(s) : s[j] \in DOMAIN S.pos /\ AbsInt(S.pos[s[j]][2]) <= Meridian
      /\ Len(s) \in Nat /\ \A n \in DOMAIN S.pos : S.pos[n][2] \in Int
  BY <1>1, OnMapIs DEF Walked
<1>3. i \in 1..Len(s) /\ i - 1 \in 1..Len(s)
  BY <1>1, <1>2
<1>4. /\ s[i - 1] \in DOMAIN S.pos /\ s[i] \in DOMAIN S.pos /\ x \in Int /\ d \in Int /\ e \in Int
      /\ AbsInt(d) <= Meridian /\ AbsInt(e) <= Meridian
  BY <1>1, <1>2, <1>3
<1>5. OnSide(Meridian, x, d)
  BY <1>1 DEF Walked
<1> HIDE DEF x, d, e
<1>6. SeamFits(Meridian, x, d, e)
  BY <1>1, <1>4, <1>5, SeamFitsHolds
<1> QED
  BY <1>1, <1>4, <1>6 DEF x, d, e

LEMMA WalkedPasses ==
  ASSUME NEW w, NEW noinsert, NEW L \in WrapWalked(w, noinsert), L.i <= Len(L.S.ref[w]),
         NEW U, Passes(L, U, w, L.i)
  PROVE  Walked(U.S, w, U.n0, U.i, noinsert)
<1> DEFINE S == L.S
           s == S.ref[w]
           i == L.i
<1>1. /\ S \in Data /\ w \in DOMAIN S.ref /\ i \in Nat \ {0} /\ Walked(S, w, L.n0, i, noinsert)
  BY DEF WrapWalked, WrapStates, SoundData
<1>2. U.S = S /\ U.n0 = s[i] /\ U.i = i + 1 /\ (i = 1 \/ ~Jumps(S.pos, L.n0, s[i]))
  BY DEF Passes
<1>3. ASSUME NEW j \in 1..(i - 1), Jumps(S.pos, s[j], s[j + 1])
      PROVE  s[j] \in S.mark
  <2>1. CASE j \in 1..(i - 2)
    BY <1>1, <1>3, <2>1 DEF Walked
  <2>2. CASE j \notin 1..(i - 2)
    <3>1. j = i - 1 /\ j + 1 = i /\ i # 1
      BY <1>1, <2>2
    <3>2. ~Jumps(S.pos, L.n0, s[i])
      BY <1>2, <3>1
    <3>3. SeamFits(Meridian, S.pos[L.n0][2], S.pos[s[i - 1]][2], S.pos[s[i]][2])
      BY <3>1, WrapFits
    <3>4. ~Jumps(S.pos, s[i - 1], s[i])
      BY <3>2, <3>3 DEF SeamFits, Jumps
    <3> QED
      BY <1>3, <3>1, <3>4
  <2> QED
    BY <2>1, <2>2
<1>4. /\ U.i <= Len(s) + 1 /\ (U.i - 2) = i - 1 /\ U.i - 1 = i
  BY <1>1, <1>2, OnMapIs
<1> QED
  BY <1>1, <1>2, <1>3, <1>4 DEF Walked, OnSide

LEMMA WalkedMarks ==
  ASSUME NEW w, NEW L \in WrapWalked(w, TRUE), L.i <= Len(L.S.ref[w]),
         NEW U, Marks(L, U, w, L.i)
  PROVE  Walked(U.S, w, U.n0, U.i, TRUE)
<1> DEFINE S == L.S
           T == U.S
           s == S.ref[w]
           i == L.i
<1>1. /\ S \in Data /\ w \in DOMAIN S.ref /\ i \in Nat \ {0} /\ Walked(S, w, L.n0, i, TRUE)
  BY DEF WrapWalked, WrapStates, SoundData
<1>2. U.n0 = s[i] /\ U.i = i + 1 /\ i # 1 /\ T.pos = S.pos /\ T.ref = S.ref /\ T.mark = S.mark \cup {L.n0}
  BY DEF Marks, Marked
<1>3. L.n0 = s[i - 1]
  BY <1>1, <1>2 DEF Walked
<1>4. ASSUME NEW j \in 1..(i - 1), Jumps(S.pos, s[j], s[j + 1])
      PROVE  s[j] \in T.mark
  <2>1. CASE j \in 1..(i - 2)
    BY <1>1, <1>2, <1>4, <2>1 DEF Walked
  <2>2. CASE j \notin 1..(i - 2)
    <3>1. j = i - 1
      BY <1>1, <2>2
    <3> QED
      BY <1>2, <1>3, <3>1
  <2> QED
    BY <2>1, <2>2
<1>5. /\ U.i <= Len(s) + 1 /\ (U.i - 2) = i - 1 /\ U.i - 1 = i
  BY <1>1, <1>2, OnMapIs
<1>6. OnMap(T, w) /\ T.ref[w] = s
  BY <1>1, <1>2 DEF Walked, OnMap
<1> QED
  BY <1>2, <1>4, <1>5, <1>6 DEF Walked, OnSide

LEMMA WalkedPuts ==
  ASSUME NEW w, NEW L \in WrapWalked(w, FALSE), L.i <= Len(L.S.ref[w]),
         NEW U, U.S \in Data, Puts(L, U, w, L.i)
  PROVE  Walked(U.S, w, U.n0, U.i, FALSE)
<1> DEFINE S == L.S
           T == U.S
           s == S.ref[w]
           t == T.ref[w]
           i == L.i
           a == S.unid
           b == S.unid - 1
           x == S.pos[L.n0][2]
           d == S.pos[s[i - 1]][2]
           e == S.pos[s[i]][2]
           side == SeamLon(Meridian, x, e)
           ps == Seam(S.pos[L.n0], S.pos[s[i]])
<1>1. /\ S \in Data /\ w \in DOMAIN S.ref /\ i \in Nat \ {0} /\ Walked(S, w, L.n0, i, FALSE)
      /\ Meridian \in Int /\ a \in Int /\ b \in Int /\ s \in Ids
  <2>1. S \in Data /\ w \in DOMAIN S.ref /\ i \in Nat \ {0} /\ Walked(S, w, L.n0, i, FALSE)
    BY DEF WrapWalked, WrapStates, SoundData
  <2>2. S.unid \in Int
    BY <2>1 DEF Data
  <2>3. s \in Ids
    BY <2>1, RefIs
  <2>4. Meridian \in Int /\ b \in Int
    BY <2>2, NumbersAssumption
  <2> HIDE DEF S, s, i, b
  <2> QED
    BY <2>1, <2>2, <2>3, <2>4
<1>2. i # 1 /\ AbsInt(e - x) > Meridian /\ U.n0 = b /\ U.i = i + 3 /\ SeamPut(S, T, w, ps, i)
  BY DEF Puts, Jumps
<1>3. /\ SeamFits(Meridian, x, d, e) /\ L.n0 \in DOMAIN S.pos
      /\ s[i - 1] \in DOMAIN S.pos /\ s[i] \in DOMAIN S.pos
  BY <1>2, WrapFits
<1>4. /\ AbsInt(side) <= Meridian /\ AbsInt(-side) <= Meridian
      /\ ~(AbsInt(side - d) > Meridian) /\ ~(AbsInt(e - (-side)) > Meridian)
      /\ OnSide(Meridian, -side, e)
  BY <1>2, <1>3 DEF SeamFits
<1>5. ps[1][2] = side /\ ps[2][2] = -side
  <2>1. S.pos[L.n0] \in Pos /\ S.pos[s[i]] \in Pos
    BY <1>1, <1>3, PosIs
  <2> QED
    BY <1>1, <2>1, SeamIs DEF SeamLon
<1>6. /\ T.pos[a][2] = side /\ T.pos[b][2] = -side /\ a \in DOMAIN T.pos /\ b \in DOMAIN T.pos
      /\ DOMAIN S.pos \subseteq DOMAIN T.pos /\ \A n \in DOMAIN S.pos : T.pos[n] = S.pos[n]
      /\ T.mark = S.mark \cup {a} /\ w \in DOMAIN T.ref
  BY <1>1, <1>2, <1>5 DEF SeamPut
<1>7. Len(s) \in Nat /\ \A j \in 1..Len(s) : s[j] \in DOMAIN S.pos /\ AbsInt(S.pos[s[j]][2]) <= Meridian
  BY <1>1, OnMapIs DEF Walked
<1>8. WithTwo(s, t, i, a, b)
  <2>1. t = SubSeq(s, 1, i - 1) \o <<a, b>> \o SubSeq(s, i, Len(s))
    BY <1>2 DEF SeamPut
  <2>2. i \in Int /\ i >= 1 /\ i <= Len(s) + 1
    BY <1>1, <1>7
  <2> HIDE DEF s, t, i, a, b
  <2> QED
    BY <1>1, <2>1, <2>2, WithTwoIs
<1>9. /\ Len(t) = Len(s) + 2 /\ t[i] = a /\ t[i + 1] = b /\ (\A j \in 1..(i - 1) : t[j] = s[j])
      /\ \A j \in i..Len(s) : t[j + 2] = s[j]
  BY <1>8 DEF WithTwo
<1> HIDE DEF S, T, s, t, a, b, x, d, e, side, ps, i
<1>10. OnMap(T, w)
  <2>1. ASSUME NEW j \in 1..Len(t)
        PROVE  t[j] \in DOMAIN T.pos /\ AbsInt(T.pos[t[j]][2]) <= Meridian
    <3>1. CASE j \in 1..(i - 1)
      <4>1. j \in 1..Len(s)
        BY <1>1, <1>7, <3>1 DEF i, s, S
      <4> QED
        BY <1>6, <1>7, <1>9, <3>1, <4>1
    <3>2. CASE j = i \/ j = i + 1
      BY <1>4, <1>6, <1>9, <3>2
    <3>3. CASE j \notin 1..(i - 1) /\ j # i /\ j # i + 1
      <4>1. j - 2 \in i..Len(s) /\ (j - 2) + 2 = j /\ j - 2 \in 1..Len(s)
        BY <1>1, <1>7, <1>9, <3>3
      <4>2. t[j] = s[j - 2]
        BY <1>9, <4>1
      <4> QED
        BY <1>6, <1>7, <4>1, <4>2
    <3> QED
      BY <3>1, <3>2, <3>3
  <2>2. T \in Data
    BY DEF T
  <2> QED
    BY <1>6, <2>1, <2>2, OnMapIs DEF t
<1>11. ASSUME NEW j \in 1..(i + 1), Jumps(T.pos, t[j], t[j + 1])
       PROVE  t[j] \in T.mark
  <2>1. CASE j \in 1..(i - 2)
    <3>1. j \in 1..(i - 1) /\ j + 1 \in 1..(i - 1) /\ j \in 1..Len(s) /\ j + 1 \in 1..Len(s)
      BY <1>1, <1>7, <2>1 DEF i, s, S
    <3>2. t[j] = s[j] /\ t[j + 1] = s[j + 1] /\ T.pos[s[j]] = S.pos[s[j]] /\ T.pos[s[j + 1]] = S.pos[s[j + 1]]
      BY <1>6, <1>7, <1>9, <3>1
    <3>3. Jumps(S.pos, s[j], s[j + 1])
      BY <1>11, <3>2 DEF Jumps
    <3>4. s[j] \in S.mark
      BY <1>1, <2>1, <3>3 DEF Walked, s
    <3> QED
      BY <1>6, <3>2, <3>4
  <2>2. CASE j = i - 1
    <3>1. t[j] = s[i - 1] /\ t[j + 1] = a /\ T.pos[s[i - 1]][2] = d
      <4>1. i - 1 \in 1..(i - 1) /\ (i - 1) + 1 = i
        BY <1>1, <1>2
      <4> QED
        BY <1>3, <1>6, <1>9, <2>2, <4>1 DEF d
    <3>2. ~Jumps(T.pos, t[j], t[j + 1])
      BY <1>4, <1>6, <3>1 DEF Jumps
    <3> QED
      BY <1>11, <3>2
  <2>3. CASE j = i
    BY <1>6, <1>9, <2>3
  <2>4. CASE j = i + 1
    <3>1. t[j] = b /\ t[j + 1] = s[i] /\ T.pos[s[i]][2] = e
      <4>1. i \in i..Len(s) /\ (i + 1) + 1 = i + 2
        BY <1>1, <1>7 DEF i, s, S
      <4> QED
        BY <1>3, <1>6, <1>9, <2>4, <4>1 DEF e
    <3>2. ~Jumps(T.pos, t[j], t[j + 1])
      BY <1>4, <1>6, <3>1 DEF Jumps
    <3> QED
      BY <1>11, <3>2
  <2> QED
    BY <1>1, <2>1, <2>2, <2>3, <2>4
<1>12. t[i + 2] = s[i] /\ T.pos[s[i]][2] = e
  <2>1. i \in i..Len(s)
    BY <1>1, <1>7 DEF i, s, S
  <2> QED
    BY <1>3, <1>6, <1>9, <2>1 DEF e
<1>13. /\ U.i <= Len(t) + 1 /\ U.i - 2 = i + 1 /\ U.i - 1 = i + 2 /\ U.i # 1
  <2>1. i <= Len(s)
    BY DEF i, s, S
  <2> QED
    BY <1>1, <1>2, <1>7, <1>9, <2>1
<1>14. OnSide(Meridian, T.pos[U.n0][2], T.pos[t[U.i - 1]][2])
  BY <1>2, <1>4, <1>6, <1>12, <1>13
<1>15. \A j \in 1..(U.i - 2) : Jumps(T.pos, t[j], t[j + 1]) => t[j] \in T.mark
  BY <1>11, <1>13
<1> QED
  BY <1>10, <1>13, <1>14, <1>15 DEF Walked, t, T

LEMMA WrapWalkedStay ==
  ASSUME NEW w, NEW noinsert \in BOOLEAN, NEW L \in WrapWalked(w, noinsert)
  PROVE  WrapTurn(L, w, noinsert) \in WrapWalked(w, noinsert)
<1> DEFINE S == L.S
           at == WrapNext(S, w, L.i)
           U == WrapTurn(L, w, noinsert)
<1>1. L \in WrapStates(w) /\ OnMap(S, w) /\ S \in Data /\ w \in DOMAIN S.ref /\ L.i \in Nat \ {0}
  BY DEF WrapWalked, Walked, WrapStates, SoundData
<1>2. U \in WrapStates(w) /\ U.S \in Data
  <2>1. U \in WrapStates(w)
    BY <1>1, WrapTurnStays
  <2> HIDE DEF U
  <2> QED
    BY <2>1 DEF WrapStates, SoundData
<1>3. WrapTurns(L, U, w, noinsert, at)
  BY <1>1, WrapTurnIs
<1>4. at = IF L.i <= Len(S.ref[w]) THEN L.i ELSE 0
  BY <1>1, WrapNextFirst DEF OnMap
<1> HIDE DEF U, at
<1>5. SUFFICES Walked(U.S, w, U.n0, U.i, noinsert)
  BY <1>2 DEF WrapWalked, U
<1>6. CASE at = 0 /\ U = L
  BY <1>6 DEF WrapWalked
<1>7. CASE at # 0 /\ Passes(L, U, w, at)
  BY <1>4, <1>7, WalkedPasses
<1>8. CASE at # 0 /\ noinsert /\ Marks(L, U, w, at)
  <2>1. noinsert = TRUE /\ L.i <= Len(S.ref[w]) /\ at = L.i
    BY <1>4, <1>8
  <2> QED
    BY <1>8, <2>1, WalkedMarks
<1>9. CASE at # 0 /\ ~noinsert /\ Puts(L, U, w, at)
  <2>1. noinsert = FALSE /\ L.i <= Len(S.ref[w]) /\ at = L.i
    BY <1>4, <1>9
  <2> QED
    BY <1>2, <1>9, <2>1, WalkedPuts
<1> QED
  BY <1>1, <1>3, <1>6, <1>7, <1>8, <1>9 DEF WrapTurns

WrapStep ==
  last'.op = "wrapdetect" =>
    LET s == data'.ref[last'.w]
    IN /\ Above(s, data.unid) = data.ref[last'.w]
       /\ OnMap(data, last'.w) =>
            \A i \in 1..(Len(s) - 1) : Jumps(data'.pos, s[i], s[i + 1]) => s[i] \in data'.mark
LEMMA WrapStepHolds ==
  ASSUME IInv, WrapDetect
  PROVE  WrapStep
<1>1. PICK w \in Ways, noinsert \in BOOLEAN :
        /\ Call([op |-> "wrapdetect", w |-> w, noinsert |-> noinsert], WrapFrom(data, w, noinsert).S)
        /\ WrapNext(WrapFrom(data, w, noinsert).S, w, WrapFrom(data, w, noinsert).i) = 0
  BY DEF WrapDetect
<1> DEFINE L == WrapFrom(data, w, noinsert)
           b == [S |-> data, n0 |-> Wild, i |-> 1]
           u == data.unid
           s0 == data.ref[w]
<1>2. /\ Sound(data) /\ data \in Data /\ Fresh(data) /\ w \in DOMAIN data.ref /\ u \in Int /\ s0 \in Ids
      /\ Len(s0) \in Nat
  <2>1. Sound(data) /\ data \in Data /\ Fresh(data) /\ w \in DOMAIN data.ref
    BY DEF IInv, Sound, Ways
  <2> QED
    BY <2>1, RefIs DEF Data, Ids
<1>3. b \in WrapStates(w)
  BY <1>2 DEF WrapStates, SoundData, Wild
<1>4. L.S.unid <= u /\ Above(L.S.ref[w], u) = s0 /\ L \in WrapStates(w)
  <2>1. Above(s0, u) = s0
    <3>1. \A n \in Range(s0) : n > u
      BY <1>2 DEF Fresh
    <3> HIDE DEF s0, u
    <3> QED
      BY <1>2, <3>1, AboveAll
  <2>2. b \in WrapNodes(w, s0, u)
    BY <1>2, <1>3, <2>1 DEF WrapNodes
  <2> HIDE DEF s0, u
  <2>3. \A K \in WrapNodes(w, s0, u) : WrapTurn(K, w, noinsert) \in WrapNodes(w, s0, u)
    BY <1>2, WrapNodesStay
  <2>4. L \in WrapNodes(w, s0, u)
    BY <2>2, <2>3, WrapFromIn
  <2> QED
    BY <2>4 DEF WrapNodes
<1>5. ASSUME OnMap(data, w)
      PROVE  L \in WrapWalked(w, noinsert)
  <2>1. Walked(data, w, Wild, 1, noinsert)
    BY <1>2, <1>5 DEF Walked
  <2>2. b \in WrapWalked(w, noinsert)
    BY <1>3, <2>1 DEF WrapWalked
  <2>3. \A K \in WrapWalked(w, noinsert) : WrapTurn(K, w, noinsert) \in WrapWalked(w, noinsert)
    BY WrapWalkedStay
  <2> QED
    BY <2>2, <2>3, WrapFromIn
<1>6. last'.w = w /\ data' = [L.S EXCEPT !.n = 0] /\ WrapNext(L.S, w, L.i) = 0
  BY <1>1 DEF Call
<1> HIDE DEF L
<1>7. L.S \in Data /\ w \in DOMAIN L.S.ref /\ L.i \in Nat \ {0}
  BY <1>4 DEF WrapStates, SoundData
<1>8. data'.ref = L.S.ref /\ data'.pos = L.S.pos /\ data'.mark = L.S.mark
  BY <1>6, <1>7 DEF Data
<1> DEFINE s == L.S.ref[w]
<1>9. ASSUME OnMap(data, w), NEW i \in 1..(Len(s) - 1), Jumps(L.S.pos, s[i], s[i + 1])
      PROVE  s[i] \in L.S.mark
  <2>1. Walked(L.S, w, L.n0, L.i, noinsert)
    BY <1>5, <1>9 DEF WrapWalked
  <2>2. ~(L.i <= Len(s)) /\ Len(s) \in Nat
    <3>1. Range(s) \subseteq DOMAIN L.S.pos
      BY <2>1 DEF Walked, OnMap
    <3> QED
      BY <1>6, <1>7, <3>1, WrapNextFirst, OnMapIs
  <2>3. i \in 1..(L.i - 2)
    BY <1>7, <2>2
  <2> QED
    BY <1>9, <2>1, <2>3 DEF Walked
<1> QED
  BY <1>4, <1>6, <1>8, <1>9 DEF WrapStep

\* wrapdetect() loses no node of a way, and every segment of a way on the map that
\* jumps over the seam afterwards begins at a node marked for split, for ways of any
\* length that cross the seam as often as they like.
THEOREM WrapIsMarked == Spec => WrapMarked
<1>1. IInv /\ [Next]_vars => [WrapStep]_vars
  <2> SUFFICES ASSUME IInv, Next
               PROVE  WrapStep
    OBVIOUS
  <2> SUFFICES ASSUME last'.op = "wrapdetect"
               PROVE  WrapStep
    BY DEF WrapStep
  <2>1. WrapDetect
    BY OpIs
  <2> QED
    BY <2>1, WrapStepHolds
<1>2. [][WrapStep]_vars => WrapMarked
  BY PTL DEF WrapMarked, WrapStep
<1> QED
  BY <1>1, <1>2, Invariant, PTL DEF Spec
=============================================================================
