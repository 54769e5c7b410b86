--------------------------- MODULE TagActionsProofs ---------------------------
(***************************************************************************)
(* Matching and editing of tags, for any data, rules and number of calls.  *)
(*                                                                         *)
(* MatchAttr() is the first index that hits, which gives the meaning of    *)
(* all match operations and what setting a tag keeps.  Nodes that actions  *)
(* make have the negative ids in a row (NewNodes): so a new one replaces   *)
(* no object.                                                              *)
(***************************************************************************)
EXTENDS TagActions, FiniteSetTheorems, FunctionTheorems, SequenceTheorems, WellFoundedInduction, TLAPS

(***************************************************************************)
(* Facts about natural numbers                                             *)
(***************************************************************************)
\* A set of numbers that is not empty has a least one.
LEMMA LeastNatural ==
  ASSUME NEW T \in SUBSET Nat, T # {}
  PROVE  \E x \in T : \A y \in T : x <= y
<1> DEFINE R == OpToRel(<, Nat)
<1>1. R = {ss \in Nat \X Nat : ss[1] < ss[2]}
  BY DEF OpToRel
<1>2. IsWellFoundedOn(R, Nat)
  BY NatLessThanWellFounded
<1> HIDE DEF R
<1>3. PICK x \in T : \A y \in T : ~(<<y, x>> \in R)
  BY <1>2, WFMin
<1>4. \A y \in T : x <= y
  <2> SUFFICES ASSUME NEW y \in T, y < x
               PROVE  FALSE
    OBVIOUS
  <2>1. <<y, x>> \in R
    BY <1>1
  <2> QED
    BY <2>1, <1>3
<1> QED
  BY <1>4

\* Induction up to a bound: the library states it for an operator, which no prover
\* here can instantiate; a set takes its place.
LEMMA InductionTo ==
  ASSUME NEW m \in Nat, NEW S, 0 \in S, \A n \in 1..m : n - 1 \in S => n \in S
  PROVE  0..m \subseteq S
<1> DEFINE T == 0..m \ S
<1> SUFFICES ASSUME T # {}
             PROVE  FALSE
  OBVIOUS
<1>1. T \in SUBSET Nat
  OBVIOUS
<1> HIDE DEF T
<1>2. PICK x \in T : \A y \in T : x <= y
  BY <1>1, LeastNatural
<1>3. x \in 1..m /\ x - 1 \in 0..m /\ ~(x <= x - 1) /\ x \notin S
  BY DEF T
<1>4. x - 1 \in S
  BY <1>2, <1>3 DEF T
<1> QED
  BY <1>3, <1>4

\* A function that is defined by recursion up to m exists: G gives the next value.
Recursive(f, S, m, b, G) ==
  f \in [0..m -> S] /\ f[0] = b /\ \A i \in 1..m : f[i] = G[<<i, f[i - 1]>>]
LEMMA Recursion ==
  ASSUME NEW S, NEW m \in Nat, NEW b \in S, NEW G \in [(1..m) \X S -> S]
  PROVE  \E f : Recursive(f, S, m, b, G)
<1> DEFINE Is(f, n) == f \in [0..n -> S] /\ f[0] = b /\ \A i \in 1..n : f[i] = G[<<i, f[i - 1]>>]
           N == {n \in 0..m : \E f : Is(f, n)}
<1>1. 0 \in N
  <2> DEFINE f == [i \in 0..0 |-> b]
  <2>1. f \in [0..0 -> S] /\ f[0] = b /\ \A i \in 1..0 : f[i] = G[<<i, f[i - 1]>>]
    OBVIOUS
  <2> HIDE DEF f
  <2>2. Is(f, 0)
    BY <2>1
  <2> QED
    BY <2>2
<1>2. ASSUME NEW n \in 1..m, n - 1 \in N
      PROVE  n \in N
  <2>1. PICK f : Is(f, n - 1)
    BY <1>2
  <2> DEFINE g == [i \in 0..n |-> IF i = n THEN G[<<n, f[n - 1]>>] ELSE f[i]]
  <2>2. f[n - 1] \in S /\ G[<<n, f[n - 1]>>] \in S
    <3>1. f[n - 1] \in S
      BY <2>1
    <3>2. <<n, f[n - 1]>> \in (1..m) \X S
      BY <3>1
    <3> QED
      BY <3>1, <3>2
  <2>3. \A i \in 0..n : g[i] = (IF i = n THEN G[<<n, f[n - 1]>>] ELSE f[i]) /\ (i # n => i \in 0..(n - 1))
    OBVIOUS
  <2>4. g \in [0..n -> S]
    <3>1. \A i \in 0..n : g[i] \in S
      BY <2>1, <2>2, <2>3
    <3>2. g = [i \in 0..n |-> g[i]]
      OBVIOUS
    <3> HIDE DEF g
    <3> QED
      BY <3>1, <3>2
  <2> HIDE DEF g
  <2>5. g[0] = b
    BY <2>1, <2>3
  <2>6. ASSUME NEW i \in 1..n
        PROVE  g[i] = G[<<i, g[i - 1]>>]
    <3>1. g[i - 1] = f[i - 1]
      BY <2>3
    <3>2. CASE i = n
      BY <2>3, <3>1, <3>2
    <3>3. CASE i # n
      <4>1. i \in 1..(n - 1)
        BY <3>3
      <4>2. g[i] = f[i]
        BY <2>3, <3>3
      <4> QED
        BY <2>1, <3>1, <4>1, <4>2
    <3> QED
      BY <3>2, <3>3
  <2>7. Is(g, n)
    BY <2>4, <2>5, <2>6
  <2> QED
    BY <2>7
<1>3. m \in N
  <2> HIDE DEF N
  <2>1. 0..m \subseteq N
    BY <1>1, <1>2, InductionTo
  <2> QED
    BY <2>1
<1> QED
  BY <1>3 DEF Recursive

(***************************************************************************)
(* Matching                                                                *)
(***************************************************************************)
\* The tag that bs_match_attr() stops at
HitBy(t, p) == \/ BsMatch(t.k, p.k) /\ (p.k.not \/ BsMatch(t.v, p.v))
               \/ BsMatch(t.v, p.v) /\ p.v.not

\* MatchAttr() is about the first tag that is hit.
LEMMA MatchIs ==
  ASSUME NEW tags, Len(tags) \in Nat, NEW p
  PROVE  \/ /\ \A i \in 1..Len(tags) : ~HitBy(tags[i], p)
            /\ MatchAttr(tags, p) = IF p.k.not \/ p.v.not THEN IntMax ELSE 0
         \/ \E i \in 1..Len(tags) :
              /\ HitBy(tags[i], p) /\ \A j \in 1..(i - 1) : ~HitBy(tags[j], p)
              /\ MatchAttr(tags, p) = IF \/ BsMatch(tags[i].k, p.k) /\ p.k.not
                                         \/ BsMatch(tags[i].v, p.v) /\ p.v.not THEN 0 ELSE i
<1> DEFINE I == {i \in 1..Len(tags) : HitBy(tags[i], p)}
           first == IF I # {} THEN Min(I) ELSE 0
<1>1. MatchAttr(tags, p) =
        IF first = 0 THEN (IF p.k.not \/ p.v.not THEN IntMax ELSE 0)
        ELSE IF \/ BsMatch(tags[first].k, p.k) /\ p.k.not
                \/ BsMatch(tags[first].v, p.v) /\ p.v.not THEN 0 ELSE first
  BY DEF MatchAttr, SelectInSeq, HitBy
<1>2. CASE I = {}
  BY <1>1, <1>2
<1>3. CASE I # {}
  <2>1. PICK x \in I : \A y \in I : x <= y
    <3>1. I \in SUBSET Nat
      OBVIOUS
    <3> HIDE DEF I
    <3> QED
      BY <1>3, <3>1, LeastNatural
  <2>2. Min(I) \in I /\ \A y \in I : Min(I) <= y
    <3> HIDE DEF I
    <3> QED
      BY <2>1 DEF Min
  <2>3. first = Min(I) /\ first \in 1..Len(tags) /\ HitBy(tags[first], p)
    BY <1>3, <2>2
  <2>4. ASSUME NEW j \in 1..(first - 1)
        PROVE  ~HitBy(tags[j], p)
    <3>1. j \in 1..Len(tags) /\ ~(first <= j)
      BY <2>3
    <3> QED
      BY <2>2, <2>3, <3>1
  <2> HIDE DEF first
  <2>5. first # 0
    BY <2>3
  <2>6. MatchAttr(tags, p) = IF \/ BsMatch(tags[first].k, p.k) /\ p.k.not
                                \/ BsMatch(tags[first].v, p.v) /\ p.v.not THEN 0 ELSE first
    BY <1>1, <2>5
  <2> QED
    BY <2>3, <2>4, <2>6
<1> QED
  BY <1>2, <1>3

\* A key without marks is found at its first place.
LEMMA KeyIndexIs ==
  ASSUME NEW tags, Len(tags) \in Nat, NEW key
  PROVE  \/ KeyIndex(tags, key) = 0 /\ \A i \in 1..Len(tags) : tags[i].k # key
         \/ /\ KeyIndex(tags, key) \in 1..Len(tags) /\ tags[KeyIndex(tags, key)].k = key
            /\ \A j \in 1..(KeyIndex(tags, key) - 1) : tags[j].k # key
<1> DEFINE p == [k |-> Direct(key), v |-> AnyString]
<1>1. /\ ~p.k.not /\ ~p.v.not
      /\ \A i \in 1..Len(tags) : HitBy(tags[i], p) <=> tags[i].k = key
  BY DEF Direct, AnyString, HitBy, BsMatch, Hits
<1> HIDE DEF p
<1>2. KeyIndex(tags, key) = MatchAttr(tags, p)
  BY DEF KeyIndex, p
<1>3. CASE \A i \in 1..Len(tags) : ~HitBy(tags[i], p)
  <2>1. MatchAttr(tags, p) = 0
    BY <1>1, <1>3, MatchIs
  <2> QED
    BY <1>1, <1>2, <1>3, <2>1
<1>4. CASE \E i \in 1..Len(tags) : HitBy(tags[i], p)
  <2>1. PICK i \in 1..Len(tags) :
          /\ HitBy(tags[i], p) /\ \A j \in 1..(i - 1) : ~HitBy(tags[j], p)
          /\ MatchAttr(tags, p) = IF \/ BsMatch(tags[i].k, p.k) /\ p.k.not
                                     \/ BsMatch(tags[i].v, p.v) /\ p.v.not THEN 0 ELSE i
    BY <1>4, MatchIs
  <2>2. MatchAttr(tags, p) = i
    BY <1>1, <2>1
  <2>3. \A j \in 1..(i - 1) : j \in 1..Len(tags)
    BY <2>1
  <2> QED
    BY <1>1, <1>2, <2>1, <2>2, <2>3
<1> QED
  BY <1>3, <1>4

\* ... and is the only place of that kind.
LEMMA KeyIndexUnique ==
  ASSUME NEW tags, Len(tags) \in Nat, NEW i \in 1..Len(tags), \A j \in 1..(i - 1) : tags[j].k # tags[i].k
  PROVE  KeyIndex(tags, tags[i].k) = i
<1> DEFINE n == KeyIndex(tags, tags[i].k)
<1>1. /\ n \in 1..Len(tags) /\ tags[n].k = tags[i].k
      /\ \A j \in 1..(n - 1) : tags[j].k # tags[i].k
  BY KeyIndexIs
<1> HIDE DEF n
<1>2. n = i
  BY <1>1
<1> QED
  BY <1>2 DEF n

\* An index that was returned is one of the list, or stands for an exclusion.
LEMMA MatchRange ==
  ASSUME NEW tags, Len(tags) \in Nat, NEW p
  PROVE  MatchAttr(tags, p) \in 1..Len(tags) \cup {0, IntMax}
BY MatchIs

\* The match operations mean what the documentation says: the tag list tags and a
\* pattern p that excludes a key or a value alone, or nothing.
LEMMA Meaning ==
  ASSUME NEW tags \in Seq(Ftag), NEW p, IsPattern(p.k), IsPattern(p.v),
         p.k.not => p.v.type = "any", p.v.not => p.k.type = "any"
  PROVE  Matches(tags, p) <=> MatchAttr(tags, p) # 0
<1> DEFINE X(x, q) == q.type = "any" \/ (IF q.inv THEN ~Hits(x, q) ELSE Hits(x, q))
<1>1. ASSUME NEW x, NEW q, IsPattern(q)
      PROVE  X(x, q) <=> BsMatch(x, q)
  <2>1. q.inv = TRUE \/ q.inv = FALSE
    BY <1>1 DEF IsPattern
  <2>2. Hits(x, q) \in BOOLEAN
    <3>1. CASE q.type = "direct"
      BY <3>1 DEF Hits
    <3>2. CASE q.type = "regex"
      BY <3>2 DEF Hits
    <3>3. CASE q.type = "gt"
      BY <3>3 DEF Hits
    <3>4. CASE q.type = "lt"
      BY <3>4 DEF Hits
    <3>5. CASE q.type = "any"
      BY <3>5 DEF Hits
    <3> QED
      BY <1>1, <3>1, <3>2, <3>3, <3>4, <3>5 DEF IsPattern
  <2> QED
    BY <2>1, <2>2 DEF BsMatch
<1>2. Matches(tags, p) = CASE p.k.not -> \A i \in DOMAIN tags : ~X(tags[i].k, p.k)
                           [] ~p.k.not /\ p.v.not -> \A i \in DOMAIN tags : ~X(tags[i].v, p.v)
                           [] OTHER -> \E i \in DOMAIN tags : X(tags[i].k, p.k) /\ X(tags[i].v, p.v)
  BY DEF Matches
<1>3. /\ \A i \in DOMAIN tags : X(tags[i].k, p.k) <=> BsMatch(tags[i].k, p.k)
      /\ \A i \in DOMAIN tags : X(tags[i].v, p.v) <=> BsMatch(tags[i].v, p.v)
  BY <1>1
<1> HIDE DEF X
<1>4. DOMAIN tags = 1..Len(tags) /\ Len(tags) \in Nat
  OBVIOUS
<1>5. p.k.not \in BOOLEAN /\ p.v.not \in BOOLEAN /\ IntMax # 0
  BY DEF IsPattern, IntMax
<1>6. CASE p.k.not
  <2>1. \A t : BsMatch(t.v, p.v)
    BY <1>6 DEF BsMatch
  <2>2. \A i \in DOMAIN tags : HitBy(tags[i], p) <=> BsMatch(tags[i].k, p.k)
    BY <1>6, <2>1 DEF HitBy, BsMatch
  <2>3. MatchAttr(tags, p) # 0 <=> \A i \in DOMAIN tags : ~BsMatch(tags[i].k, p.k)
    BY <1>4, <1>5, <1>6, <2>2, MatchIs
  <2> QED
    BY <1>2, <1>3, <1>6, <2>3
<1>7. CASE ~p.k.not /\ p.v.not
  <2>1. \A t : BsMatch(t.k, p.k)
    BY <1>7 DEF BsMatch
  <2>2. \A i \in DOMAIN tags : HitBy(tags[i], p) <=> BsMatch(tags[i].v, p.v)
    BY <1>7, <2>1 DEF HitBy
  <2>3. MatchAttr(tags, p) # 0 <=> \A i \in DOMAIN tags : ~BsMatch(tags[i].v, p.v)
    BY <1>4, <1>5, <1>7, <2>2, MatchIs
  <2> QED
    BY <1>2, <1>3, <1>7, <2>3
<1>8. CASE ~p.k.not /\ ~p.v.not
  <2>1. \A i \in DOMAIN tags : HitBy(tags[i], p) <=> BsMatch(tags[i].k, p.k) /\ BsMatch(tags[i].v, p.v)
    BY <1>8 DEF HitBy
  <2>2. MatchAttr(tags, p) # 0 <=> \E i \in DOMAIN tags : BsMatch(tags[i].k, p.k) /\ BsMatch(tags[i].v, p.v)
    <3>1. CASE \A i \in 1..Len(tags) : ~HitBy(tags[i], p)
      <4>1. MatchAttr(tags, p) = 0
        BY <1>4, <1>8, <3>1, MatchIs
      <4> QED
        BY <1>4, <2>1, <3>1, <4>1
    <3>2. CASE \E i \in 1..Len(tags) : HitBy(tags[i], p)
      <4>1. MatchAttr(tags, p) # 0
        BY <1>4, <1>8, <3>2, MatchIs
      <4> QED
        BY <1>4, <2>1, <3>2, <4>1
    <3> QED
      BY <3>1, <3>2
  <2> QED
    BY <1>2, <1>3, <1>8, <2>2
<1> QED
  BY <1>5, <1>6, <1>7, <1>8

(***************************************************************************)
(* Editing                                                                 *)
(***************************************************************************)
\* The tags of t are in u, at their places; values differ only if free.
Kept(t, u, free) ==
  /\ u \in Seq(Ftag)
  /\ \A i \in DOMAIN t : i \in DOMAIN u /\ u[i].k = t[i].k /\ (u[i].v # t[i].v => free)

\* The key k is where it was in t, with its value.
Same(t, u, k) ==
  KeyIndex(u, k) = KeyIndex(t, k) /\ (KeyIndex(t, k) # 0 => Value(u, k) = Value(t, k))

LEMMA SeqFacts ==
  ASSUME NEW S, NEW s \in Seq(S)
  PROVE  Len(s) \in Nat /\ DOMAIN s = 1..Len(s) /\ \A i \in 1..Len(s) : s[i] \in S
OBVIOUS

LEMMA KeptTrans ==
  ASSUME NEW t, NEW u, NEW w, NEW free, Kept(t, u, free), Kept(u, w, free)
  PROVE  Kept(t, w, free)
BY DEF Kept

LEMMA KeptSelf ==
  ASSUME NEW t \in Seq(Ftag), NEW free
  PROVE  Kept(t, t, free)
BY DEF Kept

\* Tags are appended: set_tags.
LEMMA KeptJoin ==
  ASSUME NEW t \in Seq(Ftag), NEW s \in Seq(Ftag)
  PROVE  Kept(t, t \o s, FALSE)
<1>1. t \o s \in Seq(Ftag) /\ \A i \in DOMAIN t : i \in DOMAIN (t \o s) /\ (t \o s)[i] = t[i]
  OBVIOUS
<1> QED
  BY <1>1 DEF Kept

LEMMA KeptAppend ==
  ASSUME NEW t \in Seq(Ftag), NEW x \in Ftag
  PROVE  /\ Kept(t, Append(t, x), FALSE) /\ Append(t, x) # t
         /\ KeyIndex(t, x.k) = 0 => KeyIndex(Append(t, x), x.k) # 0 /\ Value(Append(t, x), x.k) = x.v
         /\ \A k : k # x.k => Same(t, Append(t, x), k)
<1> DEFINE u == Append(t, x)
           n == Len(t)
<1>1. /\ n \in Nat /\ u \in Seq(Ftag) /\ Len(u) = n + 1 /\ u[n + 1] = x
      /\ \A i \in 1..n : u[i] = t[i]
      /\ DOMAIN t = 1..n /\ DOMAIN u = 1..(n + 1)
  OBVIOUS
<1> HIDE DEF u, n
<1>2. Kept(t, u, FALSE) /\ u # t
  BY <1>1 DEF Kept
<1>3. ASSUME KeyIndex(t, x.k) = 0
      PROVE  KeyIndex(u, x.k) = n + 1
  <2>1. \A i \in 1..n : t[i].k # x.k
    BY <1>1, <1>3, KeyIndexIs DEF n
  <2>2. n + 1 \in 1..Len(u) /\ u[n + 1].k = x.k /\ \A j \in 1..((n + 1) - 1) : u[j].k # u[n + 1].k
    BY <1>1, <2>1
  <2>3. Len(u) \in Nat
    BY <1>1
  <2>4. KeyIndex(u, u[n + 1].k) = n + 1
    BY ONLY <2>2, <2>3, KeyIndexUnique
  <2> QED
    BY <2>2, <2>4
<1>4. ASSUME NEW k, k # x.k
      PROVE  Same(t, u, k)
  <2> DEFINE m == KeyIndex(t, k)
  <2>1. CASE m = 0
    <3>1. \A i \in 1..n : t[i].k # k
      BY <1>1, <2>1, KeyIndexIs DEF n
    <3>2. \A i \in 1..(n + 1) : u[i].k # k
      BY <1>1, <1>4, <3>1
    <3>3. KeyIndex(u, k) = 0
      BY <1>1, <3>2, KeyIndexIs
    <3> QED
      BY <2>1, <3>3 DEF Same
  <2>2. CASE m # 0
    <3>1. m \in 1..n /\ t[m].k = k /\ \A j \in 1..(m - 1) : t[j].k # k
      BY <1>1, <2>2, KeyIndexIs DEF n
    <3> HIDE DEF m
    <3>2. m \in 1..Len(u) /\ u[m].k = k /\ \A j \in 1..(m - 1) : u[j].k # u[m].k
      BY <1>1, <3>1
    <3>3. Len(u) \in Nat
      BY <1>1
    <3>4. KeyIndex(u, u[m].k) = m
      BY ONLY <3>2, <3>3, KeyIndexUnique
    <3>5. u[m] = t[m] /\ m = KeyIndex(t, k)
      BY <1>1, <3>1 DEF m
    <3> QED
      BY <3>2, <3>4, <3>5 DEF Same, Value
  <2> QED
    BY <2>1, <2>2
<1>5. KeyIndex(t, x.k) = 0 => KeyIndex(u, x.k) # 0 /\ Value(u, x.k) = x.v
  BY <1>1, <1>3 DEF Value
<1> QED
  BY <1>2, <1>4, <1>5 DEF u

\* A tag is put in place of the first with its key.
LEMMA KeptReplace ==
  ASSUME NEW t \in Seq(Ftag), NEW m \in 1..Len(t), NEW v \in Int
  PROVE  /\ Kept(t, [t EXCEPT ![m].v = v], TRUE)
         /\ m = KeyIndex(t, t[m].k) =>
              KeyIndex([t EXCEPT ![m].v = v], t[m].k) = m /\ Value([t EXCEPT ![m].v = v], t[m].k) = v
         /\ \A k : k # t[m].k => Same(t, [t EXCEPT ![m].v = v], k)
<1> DEFINE u == [t EXCEPT ![m].v = v]
           n == Len(t)
<1>1. n \in Nat /\ DOMAIN t = 1..n /\ \A i \in 1..n : t[i] \in Ftag
  OBVIOUS
<1>2. /\ DOMAIN u = 1..n
      /\ \A i \in 1..n : u[i] \in Ftag /\ u[i].k = t[i].k /\ u[i].v = IF i = m THEN v ELSE t[i].v
  BY <1>1 DEF Ftag
<1>3. u \in Seq(Ftag) /\ Len(u) = n
  <2>1. u = [i \in 1..n |-> u[i]]
    BY <1>1
  <2> HIDE DEF u
  <2>2. u \in [1..n -> Ftag]
    BY <1>2, <2>1
  <2> QED
    BY <1>1, <1>2, <2>2
<1> HIDE DEF u, n
<1>4. Kept(t, u, TRUE)
  BY <1>1, <1>2, <1>3 DEF Kept
<1>5. ASSUME NEW k
      PROVE  KeyIndex(u, k) = KeyIndex(t, k)
  <2> DEFINE j == KeyIndex(t, k)
  <2>1. CASE j = 0
    <3>1. \A i \in 1..n : t[i].k # k
      BY <1>1, <2>1, KeyIndexIs DEF n
    <3> QED
      BY <1>1, <1>2, <1>3, <2>1, <3>1, KeyIndexIs
  <2>2. CASE j # 0
    <3>1. j \in 1..n /\ t[j].k = k /\ \A i \in 1..(j - 1) : t[i].k # k
      BY <1>1, <2>2, KeyIndexIs DEF n
    <3> HIDE DEF j
    <3>2. j \in 1..Len(u) /\ u[j].k = k /\ \A i \in 1..(j - 1) : u[i].k # u[j].k
      BY <1>1, <1>2, <1>3, <3>1
    <3>3. Len(u) \in Nat
      BY <1>1, <1>3
    <3>4. KeyIndex(u, u[j].k) = j
      BY ONLY <3>2, <3>3, KeyIndexUnique
    <3> QED
      BY <3>2, <3>4 DEF j
  <2> QED
    BY <2>1, <2>2
<1>6. m \in 1..n
  BY DEF n
<1>7. m = KeyIndex(t, t[m].k) => KeyIndex(u, t[m].k) = m /\ Value(u, t[m].k) = v
  BY <1>2, <1>5, <1>6 DEF Value
<1>8. ASSUME NEW k, k # t[m].k
      PROVE  Same(t, u, k)
  <2>1. KeyIndex(t, k) # 0 => KeyIndex(t, k) \in 1..n /\ t[KeyIndex(t, k)].k = k
    BY <1>1, KeyIndexIs DEF n
  <2> QED
    BY <1>2, <1>5, <1>8, <2>1 DEF Same, Value
<1> QED
  BY <1>4, <1>7, <1>8 DEF u

\* set_ftag(): the tag is there, other keys are as they were.
LEMMA SetFtagIs ==
  ASSUME NEW t \in Seq(Ftag), NEW k \in Int, NEW v \in Int
  PROVE  /\ Kept(t, SetFtag(t, k, v), KeyIndex(t, k) # 0)
         /\ KeyIndex(SetFtag(t, k, v), k) # 0 /\ Value(SetFtag(t, k, v), k) = v
         /\ \A j : j # k => Same(t, SetFtag(t, k, v), j)
<1> DEFINE x == [k |-> k, v |-> v]
           m == KeyIndex(t, k)
<1>1. x \in Ftag /\ x.k = k /\ x.v = v
  BY DEF Ftag
<1>2. CASE m = 0
  <2>1. SetFtag(t, k, v) = Append(t, x)
    BY <1>2 DEF SetFtag
  <2> HIDE DEF x
  <2> QED
    BY <1>1, <1>2, <2>1, KeptAppend
<1>3. CASE m # 0
  <2>1. SetFtag(t, k, v) = [t EXCEPT ![m].v = v]
    BY <1>3 DEF SetFtag
  <2>2. m \in 1..Len(t) /\ t[m].k = k
    <3>1. Len(t) \in Nat
      OBVIOUS
    <3> QED
      BY <1>3, <3>1, KeyIndexIs
  <2>3. m = KeyIndex(t, t[m].k)
    BY <2>2
  <2> HIDE DEF m
  <2>4. /\ Kept(t, [t EXCEPT ![m].v = v], TRUE)
        /\ KeyIndex([t EXCEPT ![m].v = v], k) = m /\ Value([t EXCEPT ![m].v = v], k) = v
        /\ \A j : j # k => Same(t, [t EXCEPT ![m].v = v], j)
    BY <2>2, <2>3, KeptReplace
  <2>5. m # 0
    BY <1>3
  <2>6. KeyIndex(t, k) # 0
    BY <2>5 DEF m
  <2> QED
    BY <2>1, <2>4, <2>5, <2>6
<1> QED
  BY <1>2, <1>3

\* copy_tag_cond(): without force, what is there stays.
LEMMA CopyTagIs ==
  ASSUME NEW t \in Seq(Ftag), NEW x \in Ftag, NEW force \in BOOLEAN
  PROVE  LET u == CopyTagCond(x, t, force) IN
         /\ Kept(t, u, force)
         /\ KeyIndex(u, x.k) # 0
         /\ Value(u, x.k) = IF force \/ KeyIndex(t, x.k) = 0 THEN x.v ELSE Value(t, x.k)
         /\ \A j : j # x.k => Same(t, u, j)
<1>1. x.k \in Int /\ x.v \in Int
  BY DEF Ftag
<1>2. CASE KeyIndex(t, x.k) # 0 /\ ~force
  <2>1. CopyTagCond(x, t, force) = t
    BY <1>2 DEF CopyTagCond
  <2> QED
    BY <1>2, <2>1, KeptSelf DEF Same
<1>3. CASE ~(KeyIndex(t, x.k) # 0 /\ ~force)
  <2> DEFINE u == SetFtag(t, x.k, x.v)
  <2>1. CopyTagCond(x, t, force) = u
    BY <1>3 DEF CopyTagCond
  <2>2. /\ Kept(t, u, KeyIndex(t, x.k) # 0)
        /\ KeyIndex(u, x.k) # 0 /\ Value(u, x.k) = x.v
        /\ \A j : j # x.k => Same(t, u, j)
    BY <1>1, SetFtagIs
  <2> HIDE DEF u
  <2>3. Kept(t, u, force)
    BY <1>3, <2>2 DEF Kept
  <2> QED
    BY <1>3, <2>1, <2>2, <2>3
<1> QED
  BY <1>2, <1>3

(***************************************************************************)
(* Recursion over keys and conditions                                      *)
(***************************************************************************)
\* What inherit_tags gives to a key
Given(tags, src, k, force) ==
  IF force \/ KeyIndex(tags, k) = 0 THEN Value(src, k) ELSE Value(tags, k)

\* What inherit_tags promises for the tags u that were t
Heir(t, u, src, keys, copied, force) ==
  /\ Kept(t, u, force)
  /\ \A i \in 1..Len(keys) : keys[i] \in copied =>
       KeyIndex(u, keys[i]) # 0 /\ Value(u, keys[i]) = Given(t, src, keys[i], force)

\* inherit_tags keeps what is there, and every key that is copied gets its value.
LEMMA InheritedIs ==
  ASSUME NEW tags \in Seq(Ftag), NEW src \in Seq(Ftag), NEW keys, Len(keys) \in Nat,
         NEW copied, \A k \in copied : KeyIndex(src, k) # 0, NEW force \in BOOLEAN
  PROVE  Heir(tags, Inherited(tags, src, keys, copied, force), src, keys, copied, force)
<1> DEFINE m == Len(keys)
           Step(u, i) == IF keys[i] \notin copied THEN u
                         ELSE CopyTagCond(src[KeyIndex(src, keys[i])], u, force)
           f == CHOOSE g : g = [i \in 0..m |-> IF i = 0 THEN tags ELSE Step(g[i - 1], i)]
           G == [x \in (1..m) \X Seq(Ftag) |-> Step(x[2], x[1])]
<1>1. Inherited(tags, src, keys, copied, force) = f[m]
  BY DEF Inherited
<1>2. ASSUME NEW u \in Seq(Ftag), NEW i \in 1..m
      PROVE  /\ Kept(u, Step(u, i), force)
             /\ keys[i] \in copied => KeyIndex(Step(u, i), keys[i]) # 0 /\ Value(Step(u, i), keys[i]) = Given(u, src, keys[i], force)
             /\ \A k : k # keys[i] \/ k \notin copied => Same(u, Step(u, i), k)
  <2>1. CASE keys[i] \notin copied
    BY <2>1, KeptSelf DEF Same
  <2>2. CASE keys[i] \in copied
    <3> DEFINE k == keys[i]
               x == src[KeyIndex(src, k)]
    <3>1. KeyIndex(src, k) \in 1..Len(src) /\ x.k = k
      <4>1. Len(src) \in Nat
        OBVIOUS
      <4> QED
        BY <2>2, <4>1, KeyIndexIs
    <3>2. x \in Ftag
      BY <3>1
    <3>3. Step(u, i) = CopyTagCond(x, u, force) /\ x.v = Value(src, k)
      BY <2>2 DEF Value
    <3> HIDE DEF Step, x, k
    <3>4. /\ Kept(u, Step(u, i), force)
          /\ KeyIndex(Step(u, i), k) # 0
          /\ Value(Step(u, i), k) = IF force \/ KeyIndex(u, k) = 0 THEN x.v ELSE Value(u, k)
          /\ \A j : j # k => Same(u, Step(u, i), j)
      BY <3>1, <3>2, <3>3, CopyTagIs
    <3>5. Value(Step(u, i), k) = Given(u, src, k, force)
      BY <3>3, <3>4 DEF Given
    <3> QED
      BY <2>2, <3>4, <3>5 DEF k
  <2> QED
    BY <2>1, <2>2
<1> HIDE DEF Step
<1>3. f = [i \in 0..m |-> IF i = 0 THEN tags ELSE Step(f[i - 1], i)]
  <2>1. \A u \in Seq(Ftag), i \in 1..m : Step(u, i) \in Seq(Ftag)
    BY <1>2 DEF Kept
  <2>2. G \in [(1..m) \X Seq(Ftag) -> Seq(Ftag)]
    BY <2>1
  <2>3. m \in Nat
    OBVIOUS
  <2> HIDE DEF G
  <2>4. PICK g \in [0..m -> Seq(Ftag)] : g[0] = tags /\ \A i \in 1..m : g[i] = G[<<i, g[i - 1]>>]
    <3>1. \E g : Recursive(g, Seq(Ftag), m, tags, G)
      BY <2>2, <2>3, Recursion
    <3> QED
      BY <3>1 DEF Recursive
  <2>5. \A i \in 1..m : g[i] = Step(g[i - 1], i)
    <3> SUFFICES ASSUME NEW i \in 1..m
                 PROVE  G[<<i, g[i - 1]>>] = Step(g[i - 1], i)
      BY <2>4
    <3>1. <<i, g[i - 1]>> \in (1..m) \X Seq(Ftag)
      BY <2>4
    <3> QED
      BY <3>1 DEF G
  <2>6. g = [i \in 0..m |-> IF i = 0 THEN tags ELSE Step(g[i - 1], i)]
    BY <2>4, <2>5
  <2> QED
    BY <2>6
<1> HIDE DEF f, m
<1>4. m \in Nat /\ f[0] = tags /\ \A i \in 1..m : f[i] = Step(f[i - 1], i)
  <2>1. m \in Nat
    BY DEF m
  <2>2. f[0] = tags
    BY <1>3, <2>1
  <2>3. ASSUME NEW i \in 1..m
        PROVE  f[i] = Step(f[i - 1], i)
    <3>1. i \in 0..m /\ i # 0
      BY <2>1
    <3> QED
      BY <1>3, <3>1
  <2> QED
    BY <2>1, <2>2, <2>3
<1> DEFINE Good(i) ==
             /\ Kept(tags, f[i], force)
             /\ \A k : (k \notin copied \/ \A j \in 1..i : keys[j] # k) => Same(tags, f[i], k)
             /\ \A j \in 1..i : keys[j] \in copied =>
                  KeyIndex(f[i], keys[j]) # 0 /\ Value(f[i], keys[j]) = Given(tags, src, keys[j], force)
           S == {i \in 0..m : Good(i)}
<1>5. 0 \in S
  BY <1>4, KeptSelf DEF Same
<1>6. ASSUME NEW i \in 1..m, i - 1 \in S
      PROVE  i \in S
  <2> DEFINE u == f[i - 1]
             w == f[i]
  <2>1. Good(i - 1) /\ u \in Seq(Ftag)
    BY <1>6 DEF Kept
  <2>2. w = Step(u, i)
    BY <1>4
  <2>3. /\ Kept(u, w, force)
        /\ keys[i] \in copied => KeyIndex(w, keys[i]) # 0 /\ Value(w, keys[i]) = Given(u, src, keys[i], force)
        /\ \A k : k # keys[i] \/ k \notin copied => Same(u, w, k)
    BY <1>2, <2>1, <2>2
  <2>4. Kept(tags, w, force)
    BY <2>1, <2>3, KeptTrans
  <2> HIDE DEF w, u
  <2>5. ASSUME NEW k, k \notin copied \/ \A j \in 1..i : keys[j] # k
        PROVE  Same(tags, w, k)
    <3>1. Same(tags, u, k)
      BY <2>1, <2>5 DEF u
    <3>2. Same(u, w, k)
      BY <2>3, <2>5
    <3> QED
      BY <3>1, <3>2 DEF Same
  <2>6. ASSUME NEW j \in 1..i, keys[j] \in copied
        PROVE  KeyIndex(w, keys[j]) # 0 /\ Value(w, keys[j]) = Given(tags, src, keys[j], force)
    <3>1. CASE keys[j] # keys[i]
      <4>1. j \in 1..(i - 1)
        BY <3>1
      <4>2. KeyIndex(u, keys[j]) # 0 /\ Value(u, keys[j]) = Given(tags, src, keys[j], force)
        BY <2>1, <2>6, <4>1 DEF u
      <4>3. Same(u, w, keys[j])
        BY <2>3, <3>1
      <4> QED
        BY <4>2, <4>3 DEF Same
    <3>2. CASE keys[j] = keys[i]
      <4>1. KeyIndex(w, keys[i]) # 0 /\ Value(w, keys[i]) = Given(u, src, keys[i], force)
        BY <2>3, <2>6, <3>2
      <4>2. CASE \E h \in 1..(i - 1) : keys[h] = keys[i]
        <5>1. KeyIndex(u, keys[i]) # 0 /\ Value(u, keys[i]) = Given(tags, src, keys[i], force)
          BY <2>1, <2>6, <3>2, <4>2 DEF u
        <5> QED
          BY <3>2, <4>1, <5>1 DEF Given
      <4>3. CASE \A h \in 1..(i - 1) : keys[h] # keys[i]
        <5>1. Same(tags, u, keys[i])
          BY <2>1, <4>3 DEF u
        <5> QED
          BY <3>2, <4>1, <5>1 DEF Given, Same
      <4> QED
        BY <4>2, <4>3
    <3> QED
      BY <3>1, <3>2
  <2> QED
    BY <2>4, <2>5, <2>6 DEF w
<1> HIDE DEF S
<1>7. 0..m \subseteq S
  BY <1>4, <1>5, <1>6, InductionTo
<1>8. Good(m)
  <2>1. m \in S
    BY <1>4, <1>7
  <2> QED
    BY <2>1 DEF S
<1> QED
  BY <1>1, <1>8 DEF m, Heir

\* What translate and del_match_tags go on with
Lists == [tags : Seq(Ftag), fault : BOOLEAN]

\* translate adds a tag, or replaces the value of one.
LEMMA TranslateKeyIs ==
  ASSUME NEW s \in Lists, NEW key, NEW table \in Seq(Ftag), NEW newtag \in BOOLEAN
  PROVE  /\ TranslateKey(s, key, table, newtag) \in Lists
         /\ Kept(s.tags, TranslateKey(s, key, table, newtag).tags, ~newtag)
<1> DEFINE t == s.tags
           n == MatchAttr(t, [k |-> key, v |-> AnyString])
           m == KeyIndex(table, t[n].v)
           w == IF newtag THEN Append(t, [k |-> Local + t[n].k, v |-> table[m].v])
                ELSE [t EXCEPT ![n].v = table[m].v]
           x == TranslateKey(s, key, table, newtag)
<1>1. t \in Seq(Ftag) /\ s.fault \in BOOLEAN /\ Len(t) \in Nat
  BY DEF Lists
<1>2. \/ x = s
      \/ x = [s EXCEPT !.fault = TRUE]
      \/ n # 0 /\ n # IntMax /\ m # 0 /\ x = [s EXCEPT !.tags = w]
  BY DEF TranslateKey
<1>3. n \in 1..Len(t) \cup {0, IntMax}
  BY <1>1, MatchRange
<1> HIDE DEF n, x
<1>4. CASE x = s
  BY <1>1, <1>4, KeptSelf DEF x
<1>5. CASE x = [s EXCEPT !.fault = TRUE]
  <2>1. x \in Lists /\ x.tags = t
    BY <1>5 DEF Lists
  <2> QED
    BY <1>1, <2>1, KeptSelf DEF x
<1>6. CASE n # 0 /\ n # IntMax /\ m # 0 /\ x = [s EXCEPT !.tags = w]
  <2>1. n \in 1..Len(t) /\ t[n] \in Ftag /\ t[n].k \in Int
    <3>1. n \in 1..Len(t)
      BY <1>3, <1>6
    <3>2. t[n] \in Ftag
      BY <1>1, <3>1
    <3> QED
      BY <3>1, <3>2 DEF Ftag
  <2>2. table[m].v \in Int
    <3>1. Len(table) \in Nat
      OBVIOUS
    <3>2. m \in 1..Len(table)
      BY <1>6, <3>1, KeyIndexIs
    <3> HIDE DEF m
    <3>3. table[m] \in Ftag
      BY <3>2
    <3> QED
      BY <3>3 DEF Ftag
  <2> DEFINE v == table[m].v
             new == [k |-> Local + t[n].k, v |-> v]
  <2>3. w = IF newtag THEN Append(t, new) ELSE [t EXCEPT ![n].v = v]
    OBVIOUS
  <2>4. v \in Int /\ new \in Ftag
    BY <2>1, <2>2 DEF Ftag, Local
  <2>5. x = [s EXCEPT !.tags = w]
    BY <1>6
  <2> HIDE DEF v, new, w, m, t
  <2>6. CASE newtag
    <3>1. Kept(t, w, FALSE)
      BY <1>1, <2>3, <2>4, <2>6, KeptAppend
    <3> QED
      BY <1>1, <2>5, <2>6, <3>1 DEF Kept, Lists, t, x
  <2>7. CASE ~newtag
    <3>1. Kept(t, w, TRUE)
      BY <1>1, <2>1, <2>3, <2>4, <2>7, KeptReplace
    <3> QED
      BY <1>1, <2>5, <2>7, <3>1 DEF Kept, Lists, t, x
  <2> QED
    BY <2>6, <2>7
<1> QED
  BY <1>2, <1>4, <1>5, <1>6

\* translate, for all its keys.
LEMMA TranslatedIs ==
  ASSUME NEW tags \in Seq(Ftag), NEW keys, Len(keys) \in Nat, NEW table \in Seq(Ftag), NEW newtag \in BOOLEAN
  PROVE  /\ Translated(tags, keys, table, newtag) \in Lists
         /\ Kept(tags, Translated(tags, keys, table, newtag).tags, ~newtag)
<1> DEFINE m == Len(keys)
           b == [tags |-> tags, fault |-> FALSE]
           Step(s, i) == TranslateKey(s, keys[i], table, newtag)
           f == CHOOSE g : g = [i \in 0..m |-> IF i = 0 THEN b ELSE Step(g[i - 1], i)]
           G == [x \in (1..m) \X Lists |-> Step(x[2], x[1])]
<1>1. Translated(tags, keys, table, newtag) = f[m]
  BY DEF Translated
<1>2. /\ b \in Lists /\ b.tags = tags
      /\ \A s \in Lists, i \in 1..m : Step(s, i) \in Lists /\ Kept(s.tags, Step(s, i).tags, ~newtag)
  BY TranslateKeyIs DEF Lists
<1> HIDE DEF Step, b
<1>3. f = [i \in 0..m |-> IF i = 0 THEN b ELSE Step(f[i - 1], i)]
  <2>1. G \in [(1..m) \X Lists -> Lists]
    BY <1>2
  <2> HIDE DEF G
  <2>2. PICK g : Recursive(g, Lists, m, b, G)
    BY <1>2, <2>1, Recursion
  <2>3. g \in [0..m -> Lists] /\ g[0] = b /\ \A i \in 1..m : g[i] = G[<<i, g[i - 1]>>]
    BY <2>2 DEF Recursive
  <2>4. \A i \in 1..m : g[i] = Step(g[i - 1], i)
    <3> SUFFICES ASSUME NEW i \in 1..m
                 PROVE  G[<<i, g[i - 1]>>] = Step(g[i - 1], i)
      BY <2>3
    <3>1. <<i, g[i - 1]>> \in (1..m) \X Lists
      BY <2>3
    <3> QED
      BY <3>1 DEF G
  <2>5. g = [i \in 0..m |-> IF i = 0 THEN b ELSE Step(g[i - 1], i)]
    BY <2>3, <2>4
  <2> QED
    BY <2>5
<1> HIDE DEF f, m
<1>4. m \in Nat
  BY DEF m
<1> DEFINE S == {i \in 0..m : f[i] \in Lists /\ Kept(tags, f[i].tags, ~newtag)}
<1>5. 0 \in S
  <2>1. f[0] = b
    BY <1>3, <1>4
  <2> QED
    BY <1>2, <1>4, <2>1, KeptSelf
<1>6. ASSUME NEW i \in 1..m, i - 1 \in S
      PROVE  i \in S
  <2>1. i \in 0..m /\ i # 0
    BY <1>4
  <2>2. f[i] = Step(f[i - 1], i)
    BY <1>3, <2>1
  <2>3. f[i] \in Lists /\ Kept(f[i - 1].tags, f[i].tags, ~newtag)
    BY <1>2, <1>6, <2>2
  <2>4. Kept(tags, f[i].tags, ~newtag)
    BY <1>6, <2>3, KeptTrans
  <2> QED
    BY <2>1, <2>3, <2>4
<1> HIDE DEF S
<1>7. 0..m \subseteq S
  BY <1>4, <1>5, <1>6, InductionTo
<1>8. m \in S
  BY <1>4, <1>7
<1> QED
  BY <1>1, <1>8 DEF S

\* del_match_tags cuts out one tag, or none.
LEMMA DeleteMatchIs ==
  ASSUME NEW s \in Lists, NEW p
  PROVE  DeleteMatch(s, p) \in Lists /\ Len(DeleteMatch(s, p).tags) <= Len(s.tags)
<1> DEFINE t == s.tags
           n == MatchAttr(t, p)
           x == DeleteMatch(s, p)
<1>1. t \in Seq(Ftag) /\ s.fault \in BOOLEAN /\ Len(t) \in Nat
  BY DEF Lists
<1>2. \/ x = s
      \/ x = [s EXCEPT !.fault = TRUE]
      \/ n # 0 /\ n # IntMax /\ x = [s EXCEPT !.tags = RemoveAt(t, n)]
  BY DEF DeleteMatch
<1>3. n \in 1..Len(t) \cup {0, IntMax}
  BY <1>1, MatchRange
<1> HIDE DEF n, x
<1>4. CASE x = s
  BY <1>1, <1>4 DEF x
<1>5. CASE x = [s EXCEPT !.fault = TRUE]
  <2>1. x \in Lists /\ x.tags = t
    BY <1>5 DEF Lists
  <2> QED
    BY <1>1, <2>1 DEF x
<1>6. CASE n # 0 /\ n # IntMax /\ x = [s EXCEPT !.tags = RemoveAt(t, n)]
  <2> DEFINE w == SubSeq(t, 1, n - 1) \o SubSeq(t, n + 1, Len(t))
  <2>1. n \in 1..Len(t)
    BY <1>3, <1>6
  <2>2. w \in Seq(Ftag) /\ Len(w) = Len(t) - 1
    <3> DEFINE a == SubSeq(t, 1, n - 1)
               c == SubSeq(t, n + 1, Len(t))
    <3>1. a \in Seq(Ftag) /\ Len(a) = n - 1
      BY <1>1, <2>1
    <3>2. c \in Seq(Ftag) /\ Len(c) = Len(t) - n
      BY <1>1, <2>1
    <3>3. w = a \o c
      OBVIOUS
    <3> HIDE DEF a, c, w
    <3>4. w \in Seq(Ftag) /\ Len(w) = Len(a) + Len(c)
      BY <3>1, <3>2, <3>3, ConcatProperties
    <3> QED
      BY <1>1, <2>1, <3>1, <3>2, <3>4
  <2>3. x = [s EXCEPT !.tags = w]
    BY <1>6 DEF RemoveAt
  <2> HIDE DEF w
  <2>4. x \in Lists /\ x.tags = w
    BY <2>2, <2>3 DEF Lists
  <2> QED
    BY <1>1, <2>2, <2>4 DEF x
<1> QED
  BY <1>2, <1>4, <1>5, <1>6

\* del_match_tags, for all tags of the rule.
LEMMA DeletedIs ==
  ASSUME NEW tags \in Seq(Ftag), NEW cond, Len(cond) \in Nat
  PROVE  Deleted(tags, cond) \in Lists /\ Len(Deleted(tags, cond).tags) <= Len(tags)
<1> DEFINE m == Len(cond)
           b == [tags |-> tags, fault |-> FALSE]
           Step(s, i) == DeleteMatch(s, cond[i])
           f == CHOOSE g : g = [i \in 0..m |-> IF i = 0 THEN b ELSE Step(g[i - 1], i)]
           G == [x \in (1..m) \X Lists |-> Step(x[2], x[1])]
<1>1. Deleted(tags, cond) = f[m]
  BY DEF Deleted
<1>2. /\ b \in Lists /\ b.tags = tags
      /\ \A s \in Lists, i \in 1..m : Step(s, i) \in Lists /\ Len(Step(s, i).tags) <= Len(s.tags)
  BY DeleteMatchIs DEF Lists
<1> HIDE DEF Step, b
<1>3. f = [i \in 0..m |-> IF i = 0 THEN b ELSE Step(f[i - 1], i)]
  <2>1. G \in [(1..m) \X Lists -> Lists]
    BY <1>2
  <2> HIDE DEF G
  <2>2. PICK g : Recursive(g, Lists, m, b, G)
    BY <1>2, <2>1, Recursion
  <2>3. g \in [0..m -> Lists] /\ g[0] = b /\ \A i \in 1..m : g[i] = G[<<i, g[i - 1]>>]
    BY <2>2 DEF Recursive
  <2>4. \A i \in 1..m : g[i] = Step(g[i - 1], i)
    <3> SUFFICES ASSUME NEW i \in 1..m
                 PROVE  G[<<i, g[i - 1]>>] = Step(g[i - 1], i)
      BY <2>3
    <3>1. <<i, g[i - 1]>> \in (1..m) \X Lists
      BY <2>3
    <3> QED
      BY <3>1 DEF G
  <2>5. g = [i \in 0..m |-> IF i = 0 THEN b ELSE Step(g[i - 1], i)]
    BY <2>3, <2>4
  <2> QED
    BY <2>5
<1> HIDE DEF f, m
<1>4. m \in Nat
  BY DEF m
<1> DEFINE S == {i \in 0..m : f[i] \in Lists /\ Len(f[i].tags) <= Len(tags)}
<1>5. 0 \in S
  <2>1. f[0] = b
    BY <1>3, <1>4
  <2> QED
    BY <1>2, <1>4, <2>1
<1>6. ASSUME NEW i \in 1..m, i - 1 \in S
      PROVE  i \in S
  <2>1. i \in 0..m /\ i # 0
    BY <1>4
  <2>2. f[i] = Step(f[i - 1], i)
    BY <1>3, <2>1
  <2>3. f[i] \in Lists /\ Len(f[i].tags) <= Len(f[i - 1].tags)
    BY <1>2, <1>6, <2>2
  <2>4. Len(f[i].tags) \in Nat /\ Len(f[i - 1].tags) \in Nat /\ Len(tags) \in Nat
    BY <1>6, <2>3 DEF Lists
  <2> QED
    BY <1>6, <2>1, <2>3, <2>4
<1> HIDE DEF S
<1>7. 0..m \subseteq S
  BY <1>4, <1>5, <1>6, InductionTo
<1>8. m \in S
  BY <1>4, <1>7
<1> QED
  BY <1>1, <1>8 DEF S

(***************************************************************************)
(* The invariant                                                           *)
(***************************************************************************)
TypeOK ==
  /\ world \in Worlds /\ steps \in 0..MaxSteps /\ fault \in BOOLEAN
  /\ tag \in [Objects -> Seq(Ftag)] /\ vis \in [Objects -> BOOLEAN]

\* The objects are those of the data and the new nodes, one for a call at most.
NewNodes == \E n \in 0..steps : Objects = DOMAIN world.tag \cup (-n)..(-1)

IInv == TypeOK /\ NewNodes

\* What a step does: it edits the tags of objects that are there ...
Keeps(o) ==
  \/ last'.op = "del_match_tags" /\ o = last'.obj /\ Len(tag'[o]) <= Len(tag[o])
  \/ Kept(tag[o], tag'[o], last'.force /\ (o = last'.obj \/ o \in last'.to))
Edits == /\ tag' \in [Objects -> Seq(Ftag)] /\ vis' \in [Objects -> BOOLEAN]
         /\ \A o \in Objects : Keeps(o)
\* ... or makes a node.
Makes == \E tags \in Seq(Ftag) : PutNew(tags)
StepIs ==
  /\ world' = world /\ steps < MaxSteps /\ steps' = steps + 1 /\ fault' \in BOOLEAN
  /\ Edits \/ Makes

\* What the assumption says of the data that a state is about
LEMMA WorldIs ==
  ASSUME TypeOK
  PROVE  /\ MaxSteps \in Nat /\ IsFiniteSet(DOMAIN world.tag) /\ DOMAIN world.tag \subseteq Nat
         /\ \A o \in DOMAIN world.tag : world.type[o] = "node" => world.pos[o] \in Int
         /\ \A n \in (-MaxSteps)..(-1) : world.pos[n] \in Int
BY TagAssumption DEF TypeOK, IsWorld

\* A less free edit is one that is free.
LEMMA KeptFree ==
  ASSUME NEW t, NEW u, NEW free \in BOOLEAN, NEW more \in BOOLEAN, Kept(t, u, free), free => more
  PROVE  Kept(t, u, more)
BY DEF Kept

LEMMA EditIs ==
  ASSUME TypeOK, NEW op, NEW o \in Objects, NEW cond, NEW force \in BOOLEAN, NEW tags,
         Edit(op, o, cond, force, tags), Kept(tag[o], tags, force)
  PROVE  StepIs
<1>1. /\ world' = world /\ steps < MaxSteps /\ steps' = steps + 1
      /\ fault' = fault /\ vis' = vis /\ tag' = [tag EXCEPT ![o] = tags]
      /\ last'.force = force /\ last'.obj = o
  BY DEF Edit, Call
<1>2. fault' \in BOOLEAN /\ vis' \in [Objects -> BOOLEAN]
  BY <1>1 DEF TypeOK
<1>3. tag' \in [Objects -> Seq(Ftag)]
  BY <1>1 DEF TypeOK, Kept
<1>4. ASSUME NEW x \in Objects
      PROVE  Keeps(x)
  <2>1. CASE x = o
    <3>1. tag'[x] = tags /\ tag[x] = tag[o]
      BY <1>1, <2>1 DEF TypeOK
    <3>2. (last'.force /\ (x = last'.obj \/ x \in last'.to)) = force
      BY <1>1, <2>1
    <3> QED
      BY <3>1, <3>2 DEF Keeps
  <2>2. CASE x # o
    <3>1. tag'[x] = tag[x] /\ tag[x] \in Seq(Ftag)
      BY <1>1, <2>2 DEF TypeOK
    <3> QED
      BY <3>1, KeptSelf DEF Keeps
  <2> QED
    BY <2>1, <2>2
<1> QED
  BY <1>1, <1>2, <1>3, <1>4 DEF StepIs, Edits

LEMMA SetTagsIs ==
  ASSUME TypeOK, SetTags
  PROVE  StepIs
<1>1. PICK o \in Objects, c \in Conds, t \in Templates : Edit("set_tags", o, c, TRUE, tag[o] \o t)
  BY DEF SetTags
<1>2. tag[o] \in Seq(Ftag) /\ t \in Seq(Ftag)
  BY TagAssumption DEF TypeOK
<1>3. Kept(tag[o], tag[o] \o t, TRUE)
  BY <1>2, KeptJoin, KeptFree
<1> QED
  BY <1>1, <1>3, EditIs

LEMMA FormattedIs ==
  ASSUME NEW tags \in Seq(Ftag), NEW keys \in FmtKeys
  PROVE  Formatted(tags, keys) \in Int
<1> DEFINE v(i) == LET n == KeyIndex(tags, keys[i]) IN IF n = 0 THEN 0 ELSE tags[n].v
<1>1. ASSUME NEW i
      PROVE  v(i) \in Int
  <2> DEFINE n == KeyIndex(tags, keys[i])
  <2>1. n = 0 \/ n \in 1..Len(tags)
    <3>1. Len(tags) \in Nat
      OBVIOUS
    <3> QED
      BY <3>1, KeyIndexIs
  <2> HIDE DEF n
  <2>2. n # 0 => tags[n] \in Ftag
    BY <2>1
  <2>3. v(i) = IF n = 0 THEN 0 ELSE tags[n].v
    BY DEF n
  <2> QED
    BY <2>2, <2>3 DEF Ftag
<1>2. Formatted(tags, keys) = IF \E i \in DOMAIN keys : v(i) = 0 THEN 0
                              ELSE IF Len(keys) = 1 THEN v(1) ELSE 10 * v(1) + v(2)
  BY DEF Formatted
<1> HIDE DEF v
<1>3. v(1) \in Int /\ v(2) \in Int
  BY <1>1
<1> QED
  BY <1>2, <1>3

LEMMA StrFmtIs ==
  ASSUME TypeOK, StrFmt
  PROVE  StepIs
<1>1. PICK o \in Objects, c \in Conds, keys \in FmtKeys, add \in {2, 4} :
        LET v == Formatted(tag[o], keys)
        IN Edit("strfmt", o, c, TRUE, IF v = 0 THEN tag[o] ELSE SetFtag(tag[o], add, v))
  BY DEF StrFmt
<1> DEFINE v == Formatted(tag[o], keys)
           t == IF v = 0 THEN tag[o] ELSE SetFtag(tag[o], add, v)
<1>2. tag[o] \in Seq(Ftag) /\ add \in Int
  BY DEF TypeOK
<1>3. v \in Int
  BY <1>2, FormattedIs
<1>4. Edit("strfmt", o, c, TRUE, t)
  BY <1>1
<1> HIDE DEF v
<1>5. Kept(tag[o], SetFtag(tag[o], add, v), TRUE)
  BY <1>2, <1>3, SetFtagIs, KeptFree
<1>6. Kept(tag[o], t, TRUE)
  BY <1>2, <1>5, KeptSelf
<1> HIDE DEF t
<1> QED
  BY <1>4, <1>6, EditIs

LEMMA RandomIs ==
  ASSUME TypeOK, Random
  PROVE  StepIs
<1>1. PICK o \in Objects, c \in Conds, v \in 1..2 : Edit("random", o, c, TRUE, SetFtag(tag[o], 1, v))
  BY DEF Random
<1>2. tag[o] \in Seq(Ftag) /\ v \in Int /\ 1 \in Int
  BY DEF TypeOK
<1>3. Kept(tag[o], SetFtag(tag[o], 1, v), TRUE)
  BY <1>2, SetFtagIs, KeptFree
<1> QED
  BY <1>1, <1>3, EditIs

LEMMA MeasureIs ==
  ASSUME TypeOK, Measure
  PROVE  StepIs
<1>1. PICK o \in Objects, c \in Conds :
        Edit("measure", o, c, FALSE, IF Range(world.ref[o]) \subseteq Objects
                                     THEN Append(tag[o], [k |-> MaskKey + 1, v |-> 1]) ELSE tag[o])
  BY DEF Measure
<1> DEFINE x == [k |-> MaskKey + 1, v |-> 1]
           t == IF Range(world.ref[o]) \subseteq Objects THEN Append(tag[o], x) ELSE tag[o]
<1>2. tag[o] \in Seq(Ftag) /\ x \in Ftag
  BY DEF TypeOK, Ftag, MaskKey
<1>3. Edit("measure", o, c, FALSE, t)
  BY <1>1
<1> HIDE DEF x
<1>4. Kept(tag[o], t, FALSE)
  BY <1>2, KeptAppend, KeptSelf
<1> HIDE DEF t
<1> QED
  BY <1>3, <1>4, EditIs

\* What inherit_tags gives to an object below
Inherits(d, k) ==
  /\ KeyIndex(tag'[d], k) # 0
  /\ Value(tag'[d], k) = Given(tag[d], tag[last'.obj], k, last'.force)

\* The parameters are sequences.
LEMMA KeysAre ==
  ASSUME NEW keys \in CopyKeys
  PROVE  Len(keys) \in Nat /\ DOMAIN keys = 1..Len(keys)
<1>1. <<1, 2>> \in Seq(1..2) /\ <<2>> \in Seq(1..2)
  OBVIOUS
<1>2. keys \in Seq(1..2)
  BY <1>1 DEF CopyKeys
<1> QED
  BY <1>2

LEMMA InheritIs ==
  ASSUME TypeOK, Inherit
  PROVE  /\ StepIs
         /\ last'.op = "inherit_down" => \A d \in last'.to, k \in last'.keys : Inherits(d, k)
<1>1. PICK o \in Objects, c \in Conds, keys \in CopyKeys, up \in BOOLEAN, force \in BOOLEAN,
           type \in {"", "node", "way", "rel"} :
        /\ up => type # "node"
        /\ ~up => Type(o) # "node"
        /\ Call(IF up THEN "inherit_up" ELSE "inherit_down", o, c, force, Own(o, keys), Heirs(o, up, type))
        /\ tag' = [d \in Objects |-> IF d \in Heirs(o, up, type)
                                     THEN Inherited(tag[d], tag[o], keys, Copied(o, keys, up), force) ELSE tag[d]]
        /\ UNCHANGED <<vis, list, fault>>
  BY DEF Inherit
<1> DEFINE own == Own(o, keys)
           copied == Copied(o, keys, up)
           to == Heirs(o, up, type)
<1>2. /\ Call(IF up THEN "inherit_up" ELSE "inherit_down", o, c, force, own, to)
      /\ tag' = [d \in Objects |-> IF d \in to THEN Inherited(tag[d], tag[o], keys, copied, force) ELSE tag[d]]
      /\ vis' = vis /\ fault' = fault
  BY <1>1
<1>3. /\ copied \subseteq own /\ (~up => copied = own) /\ to \subseteq Objects
      /\ \A k \in own : KeyIndex(tag[o], k) # 0 /\ \E i \in 1..Len(keys) : keys[i] = k
      /\ Len(keys) \in Nat
  <2>1. Len(keys) \in Nat /\ DOMAIN keys = 1..Len(keys)
    BY KeysAre
  <2>2. copied \subseteq own /\ (~up => copied = own)
    BY DEF Copied
  <2>3. to \subseteq Objects
    BY DEF Heirs, Present
  <2>4. \A k \in own : KeyIndex(tag[o], k) # 0 /\ \E i \in 1..Len(keys) : keys[i] = k
    BY <2>1 DEF Own, Range
  <2> QED
    BY <2>1, <2>2, <2>3, <2>4
<1> HIDE DEF copied, to, own
<1>4. /\ world' = world /\ steps < MaxSteps /\ steps' = steps + 1
      /\ last'.force = force /\ last'.obj = o /\ last'.to = to /\ last'.keys = own
      /\ last'.op = IF up THEN "inherit_up" ELSE "inherit_down"
  BY <1>2 DEF Call
<1>5. tag[o] \in Seq(Ftag) /\ \A d \in Objects : tag[d] \in Seq(Ftag)
  BY DEF TypeOK
<1>6. ASSUME NEW d \in to
      PROVE  Heir(tag[d], Inherited(tag[d], tag[o], keys, copied, force), tag[o], keys, copied, force)
  <2>1. tag[d] \in Seq(Ftag) /\ tag[o] \in Seq(Ftag)
    BY <1>3, <1>5
  <2>2. \A k \in copied : KeyIndex(tag[o], k) # 0
    BY <1>3
  <2>3. Len(keys) \in Nat
    BY <1>3
  <2> QED
    BY <2>1, <2>2, <2>3, InheritedIs
<1>7. ASSUME NEW d \in Objects
      PROVE  tag'[d] \in Seq(Ftag) /\ Keeps(d)
  <2>1. CASE d \in to
    <3>1. tag'[d] = Inherited(tag[d], tag[o], keys, copied, force)
      BY <1>2, <2>1
    <3>2. (last'.force /\ (d = last'.obj \/ d \in last'.to)) = force
      BY <1>4, <2>1
    <3>3. Kept(tag[d], tag'[d], force)
      BY <1>6, <2>1, <3>1 DEF Heir
    <3> QED
      BY <3>2, <3>3 DEF Keeps, Kept
  <2>2. CASE d \notin to
    <3>1. tag'[d] = tag[d]
      BY <1>2, <2>2
    <3> QED
      BY <1>5, <3>1, KeptSelf DEF Keeps
  <2> QED
    BY <2>1, <2>2
<1>8. tag' \in [Objects -> Seq(Ftag)]
  <2>1. tag' = [d \in Objects |-> tag'[d]]
    BY <1>2
  <2> QED
    BY <1>7, <2>1
<1>9. vis' \in [Objects -> BOOLEAN] /\ fault' \in BOOLEAN
  BY <1>2 DEF TypeOK
<1>10. ASSUME last'.op = "inherit_down", NEW d \in to, NEW k \in own
       PROVE  Inherits(d, k)
  <2>1. ~up
    BY <1>4, <1>10
  <2>2. PICK i \in 1..Len(keys) : keys[i] = k
    BY <1>3
  <2>3. k \in copied /\ d \in Objects
    BY <1>3, <2>1
  <2>4. tag'[d] = Inherited(tag[d], tag[o], keys, copied, force)
    BY <1>2, <2>3
  <2>5. KeyIndex(tag'[d], k) # 0 /\ Value(tag'[d], k) = Given(tag[d], tag[o], k, force)
    BY <1>6, <2>2, <2>3, <2>4 DEF Heir
  <2> QED
    BY <1>4, <2>5 DEF Inherits
<1> QED
  BY <1>4, <1>7, <1>8, <1>9, <1>10 DEF StepIs, Edits

\* An action that edits one object, or none.
LEMMA OneIs ==
  ASSUME TypeOK, NEW o \in Objects, NEW op, NEW cond, NEW force \in BOOLEAN,
         Call(op, o, cond, force, {}, {}), NEW t \in Seq(Ftag),
         Kept(tag[o], t, force) \/ (op = "del_match_tags" /\ Len(t) <= Len(tag[o])),
         tag' = [tag EXCEPT ![o] = t], vis' \in [Objects -> BOOLEAN], fault' \in BOOLEAN
  PROVE  StepIs
<1>1. /\ world' = world /\ steps < MaxSteps /\ steps' = steps + 1
      /\ last'.force = force /\ last'.obj = o /\ last'.op = op
  BY DEF Call
<1>2. tag' \in [Objects -> Seq(Ftag)]
  BY DEF TypeOK
<1>3. ASSUME NEW x \in Objects
      PROVE  Keeps(x)
  <2>1. CASE x = o
    <3>1. tag'[x] = t /\ tag[x] = tag[o]
      BY <2>1 DEF TypeOK
    <3>2. (last'.force /\ (x = last'.obj \/ x \in last'.to)) = force
      BY <1>1, <2>1
    <3> QED
      BY <1>1, <2>1, <3>1, <3>2 DEF Keeps
  <2>2. CASE x # o
    <3>1. tag'[x] = tag[x] /\ tag[x] \in Seq(Ftag)
      BY <2>2 DEF TypeOK
    <3> QED
      BY <3>1, KeptSelf DEF Keeps
  <2> QED
    BY <2>1, <2>2
<1> QED
  BY <1>1, <1>2, <1>3 DEF StepIs, Edits

LEMMA TranslateIs ==
  ASSUME TypeOK, Translate
  PROVE  StepIs
<1>1. PICK o \in Objects, c \in Conds, keys \in KeyLists, t \in Templates, newtag \in BOOLEAN :
        LET x == Translated(tag[o], keys, t, newtag)
        IN /\ Call("translate", o, c, ~newtag, {}, {})
           /\ tag' = [tag EXCEPT ![o] = x.tags] /\ fault' = x.fault
           /\ UNCHANGED <<vis, list>>
  BY DEF Translate
<1> DEFINE x == Translated(tag[o], keys, t, newtag)
<1>2. tag[o] \in Seq(Ftag) /\ t \in Seq(Ftag) /\ Len(keys) \in Nat
  BY TagAssumption DEF TypeOK
<1>3. x \in Lists /\ Kept(tag[o], x.tags, ~newtag)
  BY <1>2, TranslatedIs
<1>4. /\ Call("translate", o, c, ~newtag, {}, {})
      /\ tag' = [tag EXCEPT ![o] = x.tags] /\ fault' = x.fault /\ vis' = vis
  BY <1>1
<1> HIDE DEF x
<1>5. x.tags \in Seq(Ftag) /\ fault' \in BOOLEAN /\ vis' \in [Objects -> BOOLEAN]
  BY <1>3, <1>4 DEF Lists, TypeOK
<1>6. (~newtag) \in BOOLEAN
  OBVIOUS
<1> QED
  BY <1>3, <1>4, <1>5, <1>6, OneIs

LEMMA DelMatchTagsIs ==
  ASSUME TypeOK, DelMatchTags
  PROVE  StepIs
<1>1. PICK o \in Objects, c \in Conds :
        LET x == Deleted(tag[o], c)
        IN /\ Call("del_match_tags", o, c, FALSE, {}, {})
           /\ tag' = [tag EXCEPT ![o] = x.tags] /\ fault' = x.fault
           /\ UNCHANGED <<vis, list>>
  BY DEF DelMatchTags
<1> DEFINE x == Deleted(tag[o], c)
<1>2. tag[o] \in Seq(Ftag) /\ Len(c) \in Nat
  BY TagAssumption DEF TypeOK
<1>3. x \in Lists /\ Len(x.tags) <= Len(tag[o])
  BY <1>2, DeletedIs
<1>4. /\ Call("del_match_tags", o, c, FALSE, {}, {})
      /\ tag' = [tag EXCEPT ![o] = x.tags] /\ fault' = x.fault /\ vis' = vis
  BY <1>1
<1> HIDE DEF x
<1>5. x.tags \in Seq(Ftag) /\ fault' \in BOOLEAN /\ vis' \in [Objects -> BOOLEAN]
  BY <1>3, <1>4 DEF Lists, TypeOK
<1> QED
  BY <1>3, <1>4, <1>5, OneIs

LEMMA DisableIs ==
  ASSUME TypeOK, Disable
  PROVE  StepIs
<1>1. PICK o \in Objects, c \in Conds :
        /\ Call("disable", o, c, FALSE, {}, {})
        /\ vis' = [vis EXCEPT ![o] = FALSE]
        /\ UNCHANGED <<tag, list, fault>>
  BY DEF Disable
<1>2. /\ tag[o] \in Seq(Ftag) /\ tag' = [tag EXCEPT ![o] = tag[o]]
      /\ fault' \in BOOLEAN /\ vis' \in [Objects -> BOOLEAN]
  BY <1>1 DEF TypeOK
<1>3. Kept(tag[o], tag[o], FALSE)
  BY <1>2, KeptSelf
<1> QED
  BY <1>1, <1>2, <1>3, OneIs

LEMMA IncompleteIs ==
  ASSUME TypeOK, Incomplete
  PROVE  StepIs
<1>1. PICK o \in Objects, c \in Conds :
        Call("incomplete", o, c, FALSE, {}, {}) /\ UNCHANGED <<tag, vis, fault>>
  BY DEF Incomplete
<1>2. /\ tag[o] \in Seq(Ftag) /\ tag' = [tag EXCEPT ![o] = tag[o]]
      /\ fault' \in BOOLEAN /\ vis' \in [Objects -> BOOLEAN]
  BY <1>1 DEF TypeOK
<1>3. Kept(tag[o], tag[o], FALSE)
  BY <1>2, KeptSelf
<1> QED
  BY <1>1, <1>2, <1>3, OneIs


(***************************************************************************)
(* New nodes                                                               *)
(***************************************************************************)
\* Its id is the next one.
LEMMA NewIs ==
  ASSUME TypeOK, NEW n \in 0..steps, Objects = DOMAIN world.tag \cup (-n)..(-1)
  PROVE  -Cardinality({x \in Objects : x < 0}) - 1 = -(n + 1)
<1>1. {x \in Objects : x < 0} = (-n)..(-1)
  <2>1. \A x \in DOMAIN world.tag : x \in Nat
    BY WorldIs
  <2>2. n \in Nat
    BY WorldIs DEF TypeOK
  <2> QED
    BY <2>1, <2>2
<1>2. Cardinality((-n)..(-1)) = n
  <2>1. n \in Nat /\ -n \in Int /\ -1 \in Int
    BY WorldIs DEF TypeOK
  <2>2. Cardinality((-n)..(-1)) = IF -n > -1 THEN 0 ELSE -1 - (-n) + 1
    BY <2>1, FS_Interval
  <2> QED
    BY <2>1, <2>2
<1>3. n \in Nat
  BY WorldIs DEF TypeOK
<1>4. Cardinality({x \in Objects : x < 0}) = n
  BY <1>1, <1>2
<1> HIDE DEF Objects
<1> QED
  BY <1>3, <1>4

\* A new node replaces none, so that all tags stay.
LEMMA MadeIs ==
  ASSUME IInv, NEW tags \in Seq(Ftag), PutNew(tags), world' = world, steps < MaxSteps, steps' = steps + 1
  PROVE  IInv' /\ \A o \in Objects : tag'[o] = tag[o]
<1>1. TypeOK /\ MaxSteps \in Nat /\ steps \in Nat
  BY WorldIs DEF IInv, TypeOK
<1>2. PICK n \in 0..steps : Objects = DOMAIN world.tag \cup (-n)..(-1)
  BY DEF IInv, NewNodes
<1> DEFINE new == -(n + 1)
           made == <<[k |-> 0, v |-> 1]>> \o tags
<1>3. -Cardinality({x \in Objects : x < 0}) - 1 = new
  BY <1>1, <1>2, NewIs
<1>4. /\ tag' = [x \in Objects \cup {new} |-> IF x = new THEN made ELSE tag[x]]
      /\ vis' = [x \in Objects \cup {new} |-> IF x = new THEN TRUE ELSE vis[x]]
      /\ fault' = fault
  BY <1>3 DEF PutNew
<1>5. made \in Seq(Ftag)
  <2>1. [k |-> 0, v |-> 1] \in Ftag
    BY DEF Ftag
  <2> QED
    BY <2>1
<1>6. new \notin Objects /\ Objects \cup {new} = DOMAIN world.tag \cup (-(n + 1))..(-1)
  <2>1. n \in Nat /\ \A x \in DOMAIN world.tag : x \in Nat
    BY <1>1, WorldIs
  <2> QED
    BY <1>2, <2>1
<1> HIDE DEF made, new
<1>7. \A o \in Objects : tag'[o] = tag[o] /\ vis'[o] = vis[o]
  BY <1>4, <1>6
<1>8. TypeOK'
  <2>1. Objects' = Objects \cup {new}
    BY <1>4 DEF Objects
  <2>2. /\ tag \in [Objects -> Seq(Ftag)] /\ vis \in [Objects -> BOOLEAN]
        /\ world' \in Worlds /\ steps' \in 0..MaxSteps /\ fault' \in BOOLEAN
    BY <1>1, <1>4 DEF TypeOK
  <2>3. tag' \in [Objects' -> Seq(Ftag)] /\ vis' \in [Objects' -> BOOLEAN]
    BY <1>4, <1>5, <2>1, <2>2
  <2> QED
    BY <2>2, <2>3 DEF TypeOK
<1>9. NewNodes'
  <2>1. n + 1 \in 0..steps'
    BY <1>1
  <2>2. Objects' = DOMAIN world'.tag \cup (-(n + 1))..(-1)
    BY <1>4, <1>6 DEF Objects
  <2> QED
    BY <2>1, <2>2 DEF NewNodes
<1> QED
  BY <1>7, <1>8, <1>9 DEF IInv

LEMMA CentroidIs ==
  ASSUME TypeOK, Centroid
  PROVE  StepIs
<1>1. PICK o \in Objects, c \in Conds : Call("poly_centroid", o, c, FALSE, {}, {}) /\ PutNew(tag[o])
  BY DEF Centroid
<1>2. tag[o] \in Seq(Ftag)
  BY DEF TypeOK
<1>3. fault' \in BOOLEAN
  BY <1>1 DEF PutNew, TypeOK
<1> QED
  BY <1>1, <1>2, <1>3 DEF Call, StepIs, Makes

LEMMA AddIs ==
  ASSUME TypeOK, Add
  PROVE  StepIs
<1>1. PICK t \in Templates : PutNew(t) /\ steps < MaxSteps /\ steps' = steps + 1 /\ world' = world
  BY DEF Add
<1>2. t \in Seq(Ftag)
  BY TagAssumption
<1>3. fault' \in BOOLEAN
  BY <1>1 DEF PutNew, TypeOK
<1> QED
  BY <1>1, <1>2, <1>3 DEF StepIs, Makes

LEMMA MaskIs ==
  ASSUME TypeOK, Mask
  PROVE  StepIs
<1> DEFINE x == [k |-> MaskKey, v |-> 1]
<1>0. PICK c \in Conds :
        LET hit == {o \in Objects : Type(o) = "node" /\ Applies(o, c)}
            masked == {InOrder(hit)[i] : i \in Masked(InOrder(hit))}
        IN /\ hit # {} /\ steps < MaxSteps /\ ~fault /\ steps' = steps + 1
           /\ tag' = [o \in Objects |-> IF o \in masked THEN Append(tag[o], x) ELSE tag[o]]
           /\ last' = [op |-> "mask", obj |-> 0, force |-> FALSE, keys |-> {}, to |-> hit]
           /\ UNCHANGED <<world, vis, list, fault>>
  BY DEF Mask
<1> DEFINE hit == {o \in Objects : Type(o) = "node" /\ Applies(o, c)}
           masked == {InOrder(hit)[i] : i \in Masked(InOrder(hit))}
<1>1. /\ steps < MaxSteps /\ steps' = steps + 1 /\ world' = world /\ vis' = vis /\ fault' = fault
      /\ tag' = [o \in Objects |-> IF o \in masked THEN Append(tag[o], x) ELSE tag[o]]
      /\ last'.force = FALSE
  BY <1>0
<1> HIDE DEF masked, hit
<1>2. x \in Ftag
  BY DEF Ftag, MaskKey
<1> HIDE DEF x
<1>3. ASSUME NEW o \in Objects
      PROVE  Kept(tag[o], tag'[o], FALSE)
  <2>1. tag[o] \in Seq(Ftag)
    BY DEF TypeOK
  <2>2. tag'[o] = IF o \in masked THEN Append(tag[o], x) ELSE tag[o]
    BY <1>1
  <2> QED
    BY <1>2, <2>1, <2>2, KeptAppend, KeptSelf
<1>4. tag' \in [Objects -> Seq(Ftag)]
  <2>1. tag' = [o \in Objects |-> tag'[o]]
    BY <1>1
  <2> QED
    BY <1>3, <2>1 DEF Kept
<1>5. \A o \in Objects : Keeps(o)
  BY <1>1, <1>3 DEF Keeps
<1> QED
  BY <1>1, <1>4, <1>5 DEF StepIs, Edits, TypeOK

(***************************************************************************)
(* The invariant is inductive                                              *)
(***************************************************************************)
LEMMA NextIs ==
  ASSUME TypeOK, Next
  PROVE  StepIs
BY SetTagsIs, StrFmtIs, RandomIs, MeasureIs, InheritIs, TranslateIs, DelMatchTagsIs, DisableIs,
   CentroidIs, AddIs, IncompleteIs, MaskIs DEF Next

LEMMA InitIs ==
  ASSUME Init
  PROVE  IInv
<1>1. /\ world \in Worlds /\ tag = world.tag /\ vis = [o \in DOMAIN world.tag |-> TRUE]
      /\ steps = 0 /\ fault = FALSE
  BY DEF Init
<1>2. Objects = DOMAIN world.tag /\ MaxSteps \in Nat
  BY <1>1, TagAssumption DEF Objects
<1>3. IsWorld(world)
  BY <1>1, TagAssumption
<1>4. tag \in [Objects -> Seq(Ftag)]
  BY <1>1, <1>2, <1>3 DEF IsWorld
<1>5. Objects = DOMAIN world.tag \cup (-0)..(-1) /\ 0 \in 0..steps
  BY <1>1, <1>2
<1>6. TypeOK
  <2>1. vis \in [Objects -> BOOLEAN]
    <3>1. vis = [o \in Objects |-> TRUE]
      BY <1>1, <1>2
    <3> QED
      BY ONLY <3>1, Zenon
  <2>2. steps \in 0..MaxSteps
    BY <1>1, <1>2
  <2>3. fault \in BOOLEAN
    BY <1>1, Zenon
  <2> QED
    BY <1>1, <1>4, <2>1, <2>2, <2>3 DEF TypeOK
<1>7. NewNodes
  BY <1>5 DEF NewNodes
<1> QED
  BY <1>6, <1>7 DEF IInv

LEMMA StepKeeps ==
  ASSUME IInv, [Next]_vars
  PROVE  IInv'
<1>1. CASE UNCHANGED vars
  BY <1>1 DEF vars, IInv, TypeOK, NewNodes, Objects
<1>2. CASE Next
  <2>1. StepIs
    BY <1>2, NextIs DEF IInv
  <2>2. CASE Edits
    <3>1. Objects' = Objects
      BY <2>2 DEF Edits, Objects
    <3>2. steps \in Nat /\ MaxSteps \in Nat
      BY WorldIs DEF IInv, TypeOK
    <3>3. TypeOK'
      BY <2>1, <2>2, <3>1, <3>2 DEF IInv, TypeOK, StepIs, Edits
    <3>4. NewNodes'
      BY <2>1, <3>1, <3>2 DEF IInv, NewNodes, StepIs
    <3> QED
      BY <3>3, <3>4 DEF IInv
  <2>3. CASE Makes
    BY <2>1, <2>3, MadeIs DEF StepIs, Makes
  <2> QED
    BY <2>1, <2>2, <2>3 DEF StepIs
<1> QED
  BY <1>1, <1>2

\* Tag lists are lists of tags, visible is a flag, and the objects are those of the
\* data and the new nodes in a row.
THEOREM Invariance == Spec => []IInv
<1>1. Init => IInv
  BY InitIs
<1>2. IInv /\ [Next]_vars => IInv'
  BY StepKeeps
<1> QED
  BY <1>1, <1>2, PTL DEF Spec

(***************************************************************************)
(* Properties                                                              *)
(***************************************************************************)
\* bs_match_attr() decides what the documentation says of the match operations, for
\* all patterns that exclude a key or a value alone.
THEOREM MatchMeaningHolds == Spec => []MatchMeaning
<1>1. IInv => MatchMeaning
  <2> SUFFICES ASSUME IInv, NEW o \in Objects, NEW c \in Conds, NEW i \in DOMAIN c,
                      c[i].k.not => c[i].v.type = "any", c[i].v.not => c[i].k.type = "any"
               PROVE  /\ Matches(tag[o], c[i]) <=> MatchAttr(tag[o], c[i]) # 0
                      /\ MatchAttr(tag[o], c[i]) \in DOMAIN tag[o] \cup {0, IntMax}
    BY DEF MatchMeaning
  <2>1. tag[o] \in Seq(Ftag)
    BY DEF IInv, TypeOK
  <2>2. IsPattern(c[i].k) /\ IsPattern(c[i].v)
    BY TagAssumption
  <2>3. Matches(tag[o], c[i]) <=> MatchAttr(tag[o], c[i]) # 0
    BY <2>1, <2>2, Meaning
  <2>4. Len(tag[o]) \in Nat /\ DOMAIN tag[o] = 1..Len(tag[o])
    BY <2>1
  <2>5. MatchAttr(tag[o], c[i]) \in DOMAIN tag[o] \cup {0, IntMax}
    BY <2>4, MatchRange
  <2> QED
    BY <2>3, <2>5
<1> QED
  BY <1>1, Invariance, PTL

\* No call takes a tag away or moves it but del_match_tags, and none changes a value
\* that it may not overwrite.
THEOREM TagsKeptHolds == Spec => TagsKept
<1> DEFINE Same1(o) ==
             \/ last'.op = "del_match_tags" /\ o = last'.obj /\ Len(tag'[o]) <= Len(tag[o])
             \/ \A i \in DOMAIN tag[o] :
                  /\ i \in DOMAIN tag'[o] /\ tag'[o][i].k = tag[o][i].k
                  /\ tag'[o][i].v # tag[o][i].v => last'.force /\ (o = last'.obj \/ o \in last'.to)
<1>1. ASSUME IInv, [Next]_vars
      PROVE  [\A o \in DOMAIN tag : Same1(o)]_vars
  <2>1. CASE UNCHANGED vars
    BY <2>1
  <2>2. CASE Next
    <3>1. StepIs
      BY <1>1, <2>2, NextIs DEF IInv
    <3>2. CASE Edits
      <4>1. \A o \in Objects : Keeps(o) => Same1(o)
        BY DEF Keeps, Kept
      <4> QED
        BY <3>2, <4>1 DEF Edits, Objects
    <3>3. CASE Makes
      <4>1. \A o \in Objects : tag'[o] = tag[o]
        BY <1>1, <3>1, <3>3, MadeIs DEF StepIs, Makes
      <4>2. \A o \in Objects : Same1(o)
        BY <4>1
      <4> QED
        BY <4>2 DEF Objects
    <3> QED
      BY <3>1, <3>2, <3>3 DEF StepIs
  <2> QED
    BY <1>1, <2>1, <2>2
<1>2. IInv /\ [Next]_vars => [\A o \in DOMAIN tag : Same1(o)]_vars
  BY <1>1
<1> QED
  BY <1>2, Invariance, PTL DEF Spec, TagsKept

\* The call of an action, and whose it is
LEMMA OpsAre ==
  ASSUME Next, ~Inherit, ~Mask
  PROVE  last'.op \notin {"inherit_up", "inherit_down", "mask"}
<1>1. ASSUME NEW op, NEW o, NEW c, NEW force, NEW keys, NEW to, Call(op, o, c, force, keys, to)
      PROVE  last'.op = op
  BY <1>1 DEF Call
<1>2. CASE SetTags
  BY <1>1, <1>2 DEF SetTags, Edit
<1>3. CASE StrFmt
  BY <1>1, <1>3 DEF StrFmt, Edit
<1>4. CASE Random
  BY <1>1, <1>4 DEF Random, Edit
<1>5. CASE Measure
  BY <1>1, <1>5 DEF Measure, Edit
<1>6. CASE Translate
  BY <1>1, <1>6 DEF Translate
<1>7. CASE DelMatchTags
  BY <1>1, <1>7 DEF DelMatchTags
<1>8. CASE Disable
  BY <1>1, <1>8 DEF Disable
<1>9. CASE Centroid
  BY <1>1, <1>9 DEF Centroid
<1>10. CASE Add
  BY <1>10 DEF Add
<1>11. CASE Incomplete
  BY <1>1, <1>11 DEF Incomplete
<1> QED
  BY <1>2, <1>3, <1>4, <1>5, <1>6, <1>7, <1>8, <1>9, <1>10, <1>11 DEF Next

LEMMA InheritOp ==
  ASSUME Inherit
  PROVE  last'.op # "mask"
<1>1. PICK o \in Objects, c \in Conds, keys \in CopyKeys, up \in BOOLEAN, force \in BOOLEAN,
           type \in {"", "node", "way", "rel"} :
        /\ up => type # "node"
        /\ ~up => Type(o) # "node"
        /\ Call(IF up THEN "inherit_up" ELSE "inherit_down", o, c, force, Own(o, keys), Heirs(o, up, type))
        /\ tag' = [d \in Objects |-> IF d \in Heirs(o, up, type)
                                     THEN Inherited(tag[d], tag[o], keys, Copied(o, keys, up), force) ELSE tag[d]]
        /\ UNCHANGED <<vis, list, fault>>
  BY DEF Inherit
<1>2. last'.op = IF up THEN "inherit_up" ELSE "inherit_down"
  BY <1>1 DEF Call
<1> QED
  BY <1>2

\* inherit_tags downwards gives all the keys of the parent to every heir, with its
\* value if it was new or with force.
THEOREM InheritsDownHolds == Spec => InheritsDown
<1>1. ASSUME IInv, [Next]_vars
      PROVE  [InheritsAll("inherit_down")]_vars
  <2>1. CASE UNCHANGED vars
    BY <2>1
  <2>2. CASE Inherit
    <3>1. last'.op = "inherit_down" => \A d \in last'.to, k \in last'.keys : Inherits(d, k)
      BY <1>1, <2>2, InheritIs DEF IInv
    <3> QED
      BY <3>1 DEF InheritsAll, Inherits, Given
  <2>3. CASE Mask
    <3>1. last'.op = "mask"
      BY <2>3 DEF Mask
    <3> QED
      BY <3>1 DEF InheritsAll
  <2>4. CASE Next /\ ~Inherit /\ ~Mask
    <3>1. last'.op # "inherit_down"
      BY <2>4, OpsAre
    <3> QED
      BY <3>1 DEF InheritsAll
  <2> QED
    BY <1>1, <2>1, <2>2, <2>3, <2>4
<1>2. IInv /\ [Next]_vars => [InheritsAll("inherit_down")]_vars
  BY <1>1
<1> QED
  BY <1>2, Invariance, PTL DEF Spec, InheritsDown

(***************************************************************************)
(* mask                                                                    *)
(***************************************************************************)
\* InOrder() enumerates a finite set of ids in the order of the tree.
Enumerates(seq, n, H) ==
  /\ n \in Nat /\ seq \in [1..n -> H]
  /\ \A o \in H : \E i \in 1..n : seq[i] = o
  /\ \A i, j \in 1..n : i < j => Before(seq[i], seq[j])

LEMMA InOrderIs ==
  ASSUME NEW H, IsFiniteSet(H), H \subseteq Int
  PROVE  Enumerates(InOrder(H), Cardinality(H), H)
<1> DEFINE n == Cardinality(H)
           Upto(o) == {x \in H : x = o \/ Before(x, o)}
           rank == [o \in H |-> Cardinality(Upto(o))]
           seq == InOrder(H)
<1>1. n \in Nat
  BY FS_CardinalityType
<1>2. \A o \in H : IsFiniteSet(Upto(o)) /\ Cardinality(Upto(o)) \in 1..n
  <2> SUFFICES ASSUME NEW o \in H
               PROVE  IsFiniteSet(Upto(o)) /\ Cardinality(Upto(o)) \in 1..n
    OBVIOUS
  <2>1. Upto(o) \in SUBSET H /\ o \in Upto(o)
    OBVIOUS
  <2> HIDE DEF Upto
  <2>2. IsFiniteSet(Upto(o)) /\ Cardinality(Upto(o)) <= n
    BY <2>1, FS_Subset
  <2>3. Cardinality(Upto(o)) \in Nat /\ Cardinality(Upto(o)) # 0
    BY <2>1, <2>2, FS_CardinalityType, FS_EmptySet
  <2> QED
    BY <1>1, <2>2, <2>3
<1>3. ASSUME NEW o \in H, NEW p \in H, Before(o, p)
      PROVE  rank[o] < rank[p]
  <2>1. Upto(o) \in SUBSET Upto(p) /\ p \in Upto(p) /\ p \notin Upto(o)
    <3>1. o \in Int /\ p \in Int /\ \A x \in H : x \in Int
      OBVIOUS
    <3>2. \A x \in H : x = o \/ Before(x, o) => Before(x, p)
      BY <1>3, <3>1 DEF Before
    <3>3. p # o /\ ~Before(p, o)
      BY <1>3, <3>1 DEF Before
    <3> QED
      BY <3>2, <3>3
  <2> HIDE DEF Upto
  <2>2. Cardinality(Upto(o)) <= Cardinality(Upto(p)) /\ Cardinality(Upto(o)) # Cardinality(Upto(p))
    BY <1>2, <2>1, FS_Subset
  <2>3. Cardinality(Upto(o)) \in Int /\ Cardinality(Upto(p)) \in Int
    BY <1>1, <1>2
  <2> QED
    BY <2>2, <2>3
<1>4. rank \in [H -> 1..n]
  BY <1>2
<1>5. seq = [i \in 1..n |-> CHOOSE o \in H : Cardinality(Upto(o)) = i]
  BY DEF InOrder
<1> HIDE DEF Upto
<1>12. \A o \in H : rank[o] = Cardinality(Upto(o))
  OBVIOUS
<1> HIDE DEF n
<1> HIDE DEF rank, seq
<1>6. \A o, p \in H : rank[o] = rank[p] => o = p
  <2> SUFFICES ASSUME NEW o \in H, NEW p \in H, rank[o] = rank[p]
               PROVE  o = p
    OBVIOUS
  <2>1. o \in Int /\ p \in Int /\ rank[o] \in Int
    BY <1>1, <1>4
  <2>2. o = p \/ Before(o, p) \/ Before(p, o)
    BY <2>1 DEF Before
  <2> QED
    BY <1>3, <2>1, <2>2
<1>7. rank \in Surjection(H, 1..n)
  <2>1. rank \in Injection(H, 1..n)
    BY <1>4, <1>6, Fun_IsInj
  <2>2. IsFiniteSet(1..n) /\ Cardinality(1..n) = n
    BY <1>1, FS_Interval
  <2> QED
    BY <2>1, <2>2, FS_Injection DEF n
<1>8. \A i \in 1..n : seq[i] \in H /\ rank[seq[i]] = i
  <2> SUFFICES ASSUME NEW i \in 1..n
               PROVE  seq[i] \in H /\ rank[seq[i]] = i
    OBVIOUS
  <2>1. \E o \in H : rank[o] = i
    <3>1. \A t \in 1..n : \E s \in H : rank[s] = t
      BY ONLY <1>7, Fun_SurjectionProperties
    <3> QED
      BY <3>1
  <2>2. seq[i] = CHOOSE o \in H : Cardinality(Upto(o)) = i
    BY <1>5
  <2>3. seq[i] \in H /\ Cardinality(Upto(seq[i])) = i
    BY <1>12, <2>1, <2>2
  <2> QED
    BY <1>12, <2>3
<1>9. seq \in [1..n -> H]
  BY <1>5, <1>8
<1>10. \A o \in H : \E i \in 1..n : seq[i] = o
  <2> SUFFICES ASSUME NEW o \in H
               PROVE  \E i \in 1..n : seq[i] = o
    OBVIOUS
  <2>1. rank[o] \in 1..n /\ seq[rank[o]] = o
    BY <1>4, <1>6, <1>8
  <2> QED
    BY <2>1
<1>11. \A i, j \in 1..n : i < j => Before(seq[i], seq[j])
  <2> SUFFICES ASSUME NEW i \in 1..n, NEW j \in 1..n, i < j
               PROVE  Before(seq[i], seq[j])
    OBVIOUS
  <2>1. seq[i] \in Int /\ seq[j] \in Int /\ rank[seq[i]] = i /\ rank[seq[j]] = j
    BY <1>8
  <2>2. ~Before(seq[j], seq[i]) /\ seq[i] # seq[j]
    BY <1>3, <1>8, <2>1
  <2> QED
    BY <2>1, <2>2 DEF Before
<1> QED
  BY <1>1, <1>9, <1>10, <1>11 DEF Enumerates, seq, n

\* What is masked is what is near to one before it that is not masked.
LEMMA MaskedIs ==
  ASSUME NEW seq, Len(seq) \in Nat
  PROVE  /\ Masked(seq) \subseteq 1..Len(seq)
         /\ \A i \in 1..Len(seq) : i \notin Masked(seq) => Later(seq, i) \subseteq Masked(seq)
         /\ \A j \in Masked(seq) : \E i \in 1..Len(seq) : i \notin Masked(seq) /\ j \in Later(seq, i)
<1> DEFINE m == Len(seq)
           L(i) == Later(seq, i)
           Step(u, i) == IF i \in u THEN u ELSE u \cup L(i)
           f == CHOOSE g : g = [i \in 0..m |-> IF i = 0 THEN {} ELSE Step(g[i - 1], i)]
           S == SUBSET (1..m)
           G == [x \in (1..m) \X S |-> Step(x[2], x[1])]
<1>1. Masked(seq) = f[m]
  BY DEF Masked
<1>2. m \in Nat /\ \A i \in 1..m : L(i) \subseteq (i + 1)..m
  BY DEF Later
<1> HIDE DEF L, Step
<1>3. f = [i \in 0..m |-> IF i = 0 THEN {} ELSE Step(f[i - 1], i)]
  <2>1. \A u \in S, i \in 1..m : Step(u, i) \in S
    <3>1. \A i \in 1..m : L(i) \subseteq 1..m
      BY <1>2
    <3> QED
      BY <3>1 DEF Step
  <2>2. G \in [(1..m) \X S -> S] /\ {} \in S
    BY <2>1
  <2> HIDE DEF G, S
  <2>3. PICK g \in [0..m -> S] : g[0] = {} /\ \A i \in 1..m : g[i] = G[<<i, g[i - 1]>>]
    <3>1. \E g : Recursive(g, S, m, {}, G)
      BY <1>2, <2>2, Recursion
    <3> QED
      BY <3>1 DEF Recursive
  <2>4. \A i \in 1..m : g[i] = Step(g[i - 1], i)
    <3> SUFFICES ASSUME NEW i \in 1..m
                 PROVE  G[<<i, g[i - 1]>>] = Step(g[i - 1], i)
      BY <2>3
    <3>1. <<i, g[i - 1]>> \in (1..m) \X S
      BY <1>2, <2>3
    <3> QED
      BY <3>1 DEF G
  <2>5. g = [i \in 0..m |-> IF i = 0 THEN {} ELSE Step(g[i - 1], i)]
    BY <2>3, <2>4
  <2> QED
    BY <2>5
<1> HIDE DEF f, m
<1>4. f[0] = {} /\ \A i \in 1..m : f[i] = Step(f[i - 1], i)
  <2>1. f[0] = {}
    BY <1>2, <1>3
  <2>2. ASSUME NEW i \in 1..m
        PROVE  f[i] = Step(f[i - 1], i)
    <3>1. i \in 0..m /\ i # 0
      BY <1>2
    <3> QED
      BY <1>3, <3>1
  <2> QED
    BY <2>1, <2>2
<1> DEFINE Good(i) ==
             /\ f[i] \subseteq 1..m
             /\ \A a \in 1..i : a \notin f[i] => L(a) \subseteq f[i]
             /\ \A j \in f[i] : \E a \in 1..i : a \notin f[i] /\ j \in L(a)
           T == {i \in 0..m : Good(i)}
<1>5. 0 \in T
  BY <1>2, <1>4
<1>6. ASSUME NEW i \in 1..m, i - 1 \in T
      PROVE  i \in T
  <2> DEFINE u == f[i - 1]
             w == f[i]
  <2>1. /\ u \subseteq 1..m
        /\ \A a \in 1..(i - 1) : a \notin u => L(a) \subseteq u
        /\ \A j \in u : \E a \in 1..(i - 1) : a \notin u /\ j \in L(a)
    BY <1>6
  <2>2. w = IF i \in u THEN u ELSE u \cup L(i)
    BY <1>4 DEF Step
  <2>3. L(i) \subseteq (i + 1)..m /\ i \in Nat /\ i \in 1..i
    BY <1>2
  <2>4. \A a \in 1..(i - 1) : a \in 1..i /\ a \notin L(i)
    BY <2>3
  <2>5. \A a \in 1..i : a \in 1..(i - 1) \/ a = i
    BY <2>3
  <2>6. i \notin L(i) /\ L(i) \subseteq 1..m
    BY <2>3
  <2> HIDE DEF u, w
  <2>7. Good(i)
    <3>1. w \subseteq 1..m
      BY <2>1, <2>2, <2>6
    <3>2. ASSUME NEW a \in 1..i, a \notin w
          PROVE  L(a) \subseteq w
      BY <2>1, <2>2, <2>5, <3>2
    <3>3. ASSUME NEW j \in w
          PROVE  \E a \in 1..i : a \notin w /\ j \in L(a)
      <4>1. CASE j \in u
        <5>1. PICK a \in 1..(i - 1) : a \notin u /\ j \in L(a)
          BY <2>1, <4>1
        <5>2. a \in 1..i /\ a \notin w
          BY <2>2, <2>4, <5>1
        <5> QED
          BY <5>1, <5>2
      <4>2. CASE j \notin u
        <5>1. i \notin u /\ j \in L(i)
          BY <2>2, <3>3, <4>2
        <5>2. i \notin w
          BY <2>2, <2>6, <5>1
        <5> QED
          BY <2>3, <5>1, <5>2
      <4> QED
        BY <4>1, <4>2
    <3> QED
      BY <3>1, <3>2, <3>3 DEF w
  <2> QED
    BY <2>7
<1> HIDE DEF T
<1>7. 0..m \subseteq T
  BY <1>2, <1>5, <1>6, InductionTo
<1>8. Good(m)
  <2>1. m \in T
    BY <1>2, <1>7
  <2> QED
    BY <2>1 DEF T
<1> QED
  BY <1>1, <1>8 DEF m, L

\* The nodes that are rated, and what is left of them
Gathered(c) == {o \in Objects : Type(o) = "node" /\ Applies(o, c)}
Spread(hit, left) ==
  /\ \A m, n \in left : m # n => ~Near(m, n)
  /\ \A n \in hit \ left : \E m \in left : Before(m, n) /\ Near(m, n)

\* They are finitely many, with a position each.
LEMMA GatheredIs ==
  ASSUME IInv, NEW c
  PROVE  /\ IsFiniteSet(Gathered(c)) /\ Gathered(c) \subseteq Int
         /\ \A o \in Gathered(c) : world.pos[o] \in Int
<1>1. PICK n \in 0..steps : Objects = DOMAIN world.tag \cup (-n)..(-1)
  BY DEF IInv, NewNodes
<1>2. /\ MaxSteps \in Nat /\ IsFiniteSet(DOMAIN world.tag) /\ DOMAIN world.tag \subseteq Nat
      /\ \A o \in DOMAIN world.tag : world.type[o] = "node" => world.pos[o] \in Int
      /\ \A x \in (-MaxSteps)..(-1) : world.pos[x] \in Int
  BY WorldIs DEF IInv
<1>3. n \in Nat /\ n <= MaxSteps
  BY <1>2 DEF IInv, TypeOK
<1>4. IsFiniteSet((-n)..(-1))
  <2>1. -n \in Int /\ -1 \in Int
    BY <1>3
  <2> QED
    BY <2>1, FS_Interval
<1>5. IsFiniteSet(Objects)
  BY <1>1, <1>2, <1>4, FS_Union
<1>6. Gathered(c) \in SUBSET Objects
  BY DEF Gathered
<1>7. IsFiniteSet(Gathered(c))
  BY <1>5, <1>6, FS_Subset
<1>8. ASSUME NEW o \in Gathered(c)
      PROVE  o \in Int /\ world.pos[o] \in Int
  <2>1. CASE o \in (-n)..(-1)
    <3>1. o \in (-MaxSteps)..(-1)
      BY <1>2, <1>3, <2>1
    <3> QED
      BY <1>2, <3>1
  <2>2. CASE o \in DOMAIN world.tag
    <3>1. o \in Nat
      BY <1>2, <2>2
    <3>2. Type(o) = world.type[o] /\ Type(o) = "node"
      BY <3>1 DEF Type, Gathered
    <3>3. world.pos[o] \in Int
      BY <1>2, <2>2, <3>2
    <3> QED
      BY <3>1, <3>3
  <2> QED
    BY <1>1, <1>6, <2>1, <2>2
<1> QED
  BY <1>7, <1>8

LEMMA SpreadIs ==
  ASSUME NEW seq, NEW H, NEW len, Enumerates(seq, len, H), H \subseteq Int,
         \A o \in H : world.pos[o] \in Int
  PROVE  Spread(H, H \ {seq[i] : i \in Masked(seq)})
<1> DEFINE M == Masked(seq)
           masked == {seq[i] : i \in M}
<1>1. /\ len \in Nat /\ seq \in [1..len -> H] /\ \A o \in H : \E i \in 1..len : seq[i] = o
      /\ \A i, j \in 1..len : i < j => Before(seq[i], seq[j])
  BY DEF Enumerates
<1>2. Len(seq) = len
  <2>1. seq \in Seq(H) /\ DOMAIN seq = 1..len
    BY <1>1
  <2>2. Len(seq) \in Nat /\ DOMAIN seq = 1..Len(seq)
    BY <2>1
  <2> QED
    BY <1>1, <2>1, <2>2
<1>3. /\ M \subseteq 1..len
      /\ \A i \in 1..len : i \notin M => Later(seq, i) \subseteq M
      /\ \A j \in M : \E i \in 1..len : i \notin M /\ j \in Later(seq, i)
  BY <1>1, <1>2, MaskedIs
<1> HIDE DEF M
<1>4. \A i \in 1..len, j \in 1..len : i < j => (j \in Later(seq, i) <=> Near(seq[i], seq[j]))
  BY <1>1, <1>2 DEF Later
<1>5. \A m, n \in H : Near(m, n) => Near(n, m)
  <2> SUFFICES ASSUME NEW m \in H, NEW n \in H, Near(m, n)
               PROVE  Near(n, m)
    OBVIOUS
  <2>1. world.pos[m] \in Int /\ world.pos[n] \in Int
    OBVIOUS
  <2> QED
    BY <2>1 DEF Near
<1>6. \A i \in 1..len : i \in M => seq[i] \in masked
  OBVIOUS
<1>7. ASSUME NEW i \in 1..len, NEW j \in 1..len, i < j, seq[i] \notin masked, seq[j] \notin masked
      PROVE  ~Near(seq[i], seq[j])
  BY <1>3, <1>4, <1>6, <1>7
<1>8. ASSUME NEW m \in H \ masked, NEW n \in H \ masked, m # n
      PROVE  ~Near(m, n)
  <2>1. PICK i \in 1..len, j \in 1..len : seq[i] = m /\ seq[j] = n
    BY <1>1
  <2>2. i \in Int /\ j \in Int /\ i # j
    BY <1>8, <2>1
  <2>3. CASE i < j
    BY <1>7, <2>1, <2>3
  <2>4. CASE j < i
    <3>1. ~Near(n, m)
      BY <1>7, <2>1, <2>4
    <3> QED
      BY <1>5, <3>1
  <2> QED
    BY <2>2, <2>3, <2>4
<1>9. ASSUME NEW n \in H \cap masked
      PROVE  \E m \in H \ masked : Before(m, n) /\ Near(m, n)
  <2>1. PICK j \in M : n = seq[j]
    OBVIOUS
  <2>2. PICK i \in 1..len : i \notin M /\ j \in Later(seq, i)
    BY <1>3
  <2>3. j \in 1..len /\ i < j
    BY <1>2, <1>3, <2>2 DEF Later
  <2>4. Near(seq[i], seq[j]) /\ Before(seq[i], seq[j]) /\ seq[i] \in H
    BY <1>1, <1>4, <2>2, <2>3
  <2>5. seq[i] \notin masked
    <3> SUFFICES ASSUME NEW h \in M, seq[i] = seq[h]
                 PROVE  FALSE
      OBVIOUS
    <3>1. h \in 1..len /\ h # i /\ seq[i] \in Int
      BY <1>3, <2>2, <2>4
    <3>2. CASE h < i
      BY <1>1, <3>1, <3>2 DEF Before
    <3>3. CASE i < h
      BY <1>1, <3>1, <3>3 DEF Before
    <3> QED
      BY <3>1, <3>2, <3>3
  <2> QED
    BY <2>1, <2>4, <2>5
<1> QED
  BY <1>8, <1>9 DEF Spread, M

LEMMA MaskSpreads ==
  ASSUME IInv, Mask
  PROVE  Spread(last'.to, {o \in last'.to : tag'[o] = tag[o]})
<1> DEFINE x == [k |-> MaskKey, v |-> 1]
<1>1. PICK c \in Conds :
        LET hit == {o \in Objects : Type(o) = "node" /\ Applies(o, c)}
            masked == {InOrder(hit)[i] : i \in Masked(InOrder(hit))}
        IN /\ hit # {} /\ steps < MaxSteps /\ ~fault /\ steps' = steps + 1
           /\ tag' = [o \in Objects |-> IF o \in masked THEN Append(tag[o], x) ELSE tag[o]]
           /\ last' = [op |-> "mask", obj |-> 0, force |-> FALSE, keys |-> {}, to |-> hit]
           /\ UNCHANGED <<world, vis, list, fault>>
  BY DEF Mask
<1> DEFINE hit == Gathered(c)
           masked == {InOrder(hit)[i] : i \in Masked(InOrder(hit))}
<1>2. /\ tag' = [o \in Objects |-> IF o \in masked THEN Append(tag[o], x) ELSE tag[o]]
      /\ last'.to = hit
  BY <1>1 DEF Gathered
<1>3. x \in Ftag /\ hit \subseteq Objects
  BY DEF Ftag, MaskKey, Gathered
<1>4. Spread(hit, hit \ masked)
  <2>1. Enumerates(InOrder(hit), Cardinality(hit), hit)
    BY GatheredIs, InOrderIs
  <2>2. hit \subseteq Int /\ \A o \in hit : world.pos[o] \in Int
    BY GatheredIs
  <2> HIDE DEF hit
  <2> QED
    BY <2>1, <2>2, SpreadIs
<1> HIDE DEF hit, masked, x
<1>5. ASSUME NEW o \in hit
      PROVE  tag'[o] = tag[o] <=> o \notin masked
  <2>1. tag'[o] = IF o \in masked THEN Append(tag[o], x) ELSE tag[o]
    BY <1>2, <1>3
  <2>2. tag[o] \in Seq(Ftag)
    BY <1>3 DEF IInv, TypeOK
  <2>3. Append(tag[o], x) # tag[o]
    BY <1>3, <2>2, KeptAppend
  <2> QED
    BY <2>1, <2>3
<1>6. {o \in last'.to : tag'[o] = tag[o]} = hit \ masked
  BY <1>2, <1>5
<1> QED
  BY <1>2, <1>4, <1>6

\* Of the nodes that mask rates, no two that it leaves are near to each other, and one
\* is masked only if one before it in the tree that is left is near.
THEOREM MaskSpreadHolds == Spec => MaskSpread
<1> DEFINE Left == {o \in last'.to : tag'[o] = tag[o]}
           Good == last'.op = "mask" /\ steps' # steps =>
                     LET left == {o \in last'.to : tag'[o] = tag[o]}
                     IN /\ \A m, n \in left : m # n => ~Near(m, n)
                        /\ \A n \in last'.to \ left : \E m \in left : Before(m, n) /\ Near(m, n)
<1>1. ASSUME IInv, [Next]_vars
      PROVE  [Good]_vars
  <2>1. CASE UNCHANGED vars
    BY <2>1
  <2>2. CASE Mask
    <3>1. Spread(last'.to, Left)
      BY <1>1, <2>2, MaskSpreads
    <3> QED
      BY <3>1 DEF Spread
  <2>3. CASE Inherit
    <3>1. last'.op # "mask"
      BY <2>3, InheritOp
    <3> QED
      BY <3>1
  <2>4. CASE Next /\ ~Inherit /\ ~Mask
    <3>1. last'.op # "mask"
      BY <2>4, OpsAre
    <3> QED
      BY <3>1
  <2> QED
    BY <1>1, <2>1, <2>2, <2>3, <2>4
<1>2. IInv /\ [Next]_vars => [Good]_vars
  BY <1>1
<1> QED
  BY <1>2, Invariance, PTL DEF Spec, MaskSpread
=============================================================================
