------------------------------ MODULE WayEdit ------------------------------
(***************************************************************************)
(* The main functions of smfunc.c and smcoast.c that change nodes and ways, *)
(* and the index of reverse pointers (rdata.index). Some of them follow the *)
(* index: split and zeroway walk the list of the parents of a node while    *)
(* they change the parents, the list, or both; others change ways and leave *)
(* the index as it is. One action is one call of a main function, the       *)
(* calls come in any order.                                                *)
(*                                                                         *)
(* A position is a pair of integers (latitude, longitude). The distance is  *)
(* the sum of the differences, and a straight line is a shortest path in    *)
(* this metric. Areas are taken near the equator (without the cosine). Of   *)
(* the tags only smrender:wrapdetect=split is kept. Calls of realloc() and  *)
(* malloc() succeed.                                                       *)
(***************************************************************************)
EXTENDS Integers, Sequences, FiniteSets, SequencesExt

CONSTANTS
  Maps,       \* the data after loading: records of pos, ref and rel
  Dists,      \* the distances given to the actions
  Meridian,   \* 180 degrees in the unit of the positions, an even number
  MaxEdits,   \* bound: the number of calls
  MaxNodes,   \* bound: the number of nodes
  MaxTurns    \* bound: the turns of a loop; calls that take more are left out

VARIABLES
  data,     \* the objects and the index, see Load
  last,     \* history: the last call and its arguments
  edits     \* history: the number of calls

vars == <<data, last, edits>>

\* Positions are integers, the ids of ways are below those of relations, a node
\* with a negative id that is not in the data is in no way (ids that were made up
\* by an editor belong to the objects of the same file).
ASSUME MapsAssumption ==
  \A m \in Maps :
    /\ IsFiniteSet(DOMAIN m.pos) /\ DOMAIN m.pos \subseteq Int
    /\ m.pos \in [DOMAIN m.pos -> Int \X Int]
    /\ IsFiniteSet(DOMAIN m.ref) /\ DOMAIN m.ref \subseteq Int /\ \A w \in DOMAIN m.ref : w < 100
    /\ m.ref \in [DOMAIN m.ref -> Seq(Int)]
    /\ \A w \in DOMAIN m.ref : \A n \in Range(m.ref[w]) : n > 0 \/ n \in DOMAIN m.pos
    /\ IsFiniteSet(DOMAIN m.rel) /\ DOMAIN m.rel \subseteq Int
    /\ m.rel \in [DOMAIN m.rel -> Seq(Int)]
ASSUME NumbersAssumption ==
  Dists \subseteq Int /\ Meridian \in Int /\ MaxEdits \in Nat /\ MaxNodes \in Nat /\ MaxTurns \in Nat

\* What follows the elements of a list whose terminating NULL was overwritten.
Wild == 0
\* The ids of relations are large.
IsRel(p) == p >= 100

AbsInt(i) == IF i < 0 THEN -i ELSE i
Sgn(i) == CASE i > 0 -> 1 [] i < 0 -> -1 [] OTHER -> 0
\* The lesser of two integers.
Lesser(a, b) == IF a < b THEN a ELSE b

Diff(a, b) == AbsInt(a[1] - b[1]) + AbsInt(a[2] - b[2])

\* The position at distance dist from a on a shortest path to b.
Toward(a, b, dist) ==
  LET lat == Lesser(dist, AbsInt(b[1] - a[1]))
  IN <<a[1] + lat * Sgn(b[1] - a[1]), a[2] + (dist - lat) * Sgn(b[2] - a[2])>>

\* The numbers of a finite set in ascending order.
InOrder(set) == [k \in 1..Cardinality(set) |-> CHOOSE x \in set : Cardinality({y \in set : y <= x}) = k]

\* S after a step with every element of s in turn, and after the turns of a loop
\* that leaves S alone once it is over.
InTurn(Step(_, _), S, s) ==
  LET f[i \in 0..Len(s)] == IF i = 0 THEN S ELSE Step(f[i - 1], s[i]) IN f[Len(s)]
Loop(Turn(_), S) ==
  LET f[i \in 0..MaxTurns] == IF i = 0 THEN S ELSE Turn(f[i - 1]) IN f[MaxTurns]

IndexIn(s, x) == IF x \in Range(s) THEN SelectInSeq(s, LAMBDA y : y = x) ELSE 0
Put(f, k, v) == [x \in DOMAIN f \cup {k} |-> IF x = k THEN v ELSE f[x]]
Closed(s) == Len(s) >= 4 /\ s[1] = s[Len(s)]

(***************************************************************************)
(* The objects and the index                                               *)
(***************************************************************************)
ListOf(index, n) == IF n \in DOMAIN index THEN index[n] ELSE <<>>

\* p becomes the last parent of the nodes of which it is none yet.
AddRevPtr(index, nodes, p) ==
  [n \in DOMAIN index \cup nodes |->
     IF n \in nodes /\ p \notin Range(ListOf(index, n)) THEN Append(ListOf(index, n), p) ELSE index[n]]

\* The order of traverse(): ids are unsigned there, negative ones come last.
TreeOrder(ids) == InOrder({p \in ids : p >= 0}) \o InOrder({p \in ids : p < 0})
\* Ways, then relations, in the order of the tree; missing nodes are left out.
RevIndex(m) ==
  LET With(members, n) == TreeOrder({p \in DOMAIN members : n \in Range(members[p])})
  IN [n \in DOMAIN m.pos \cap UNION {Range(s) : s \in Range(m.ref) \cup Range(m.rel)} |->
        With(m.ref, n) \o With(m.rel, n)]

\* set_unique_node_id(), set_unique_way_id(): ids of new objects are negative
\* and below all others.
Below(ids) == Min(ids \cup {0}) - 1

Load(m) ==
  [pos   |-> m.pos,        \* the nodes: id -> position
   ref   |-> m.ref,        \* the ways: id -> node ids
   idx   |-> RevIndex(m),  \* node id -> parents
   mark  |-> {},           \* nodes with smrender:wrapdetect=split
   unid  |-> Below(DOMAIN m.pos),  \* next id of a node
   uwid  |-> Below(DOMAIN m.ref),  \* next id of a way
   raw   |-> {},           \* history: ways that are not in the lists of all their nodes
   emerg |-> FALSE,        \* LOG_EMERG: what "should not happen"
   n     |-> 0,            \* the result of update_rev_ptr()
   fault |-> FALSE]        \* memory was used that is not there

\* New nodes at these positions, new ways with these nodes.
PutNodes(S, ps) ==
  [S EXCEPT !.pos = [n \in DOMAIN @ \cup {S.unid + 1 - i : i \in DOMAIN ps} |->
                       IF n > S.unid THEN S.pos[n] ELSE ps[S.unid + 1 - n]],
            !.unid = @ - Len(ps)]
PutWays(S, ways) ==
  [S EXCEPT !.ref = [w \in DOMAIN @ \cup {S.uwid + 1 - i : i \in DOMAIN ways} |->
                       IF w > S.uwid THEN S.ref[w] ELSE ways[S.uwid + 1 - w]],
            !.uwid = @ - Len(ways)]
FreeWay(S, w) == [S EXCEPT !.ref = [v \in DOMAIN S.ref \ {w} |-> S.ref[v]]]

\* Variant: the index is forgotten.
InsertRefsOnly(S, w, nodes, at) ==
  [S EXCEPT !.ref[w] = SubSeq(@, 1, at - 1) \o nodes \o SubSeq(@, at, Len(@))]
\* Variant: the nodes come behind the node at the index.
InsertRefsBehind(S, w, nodes, at) ==
  [S EXCEPT !.ref[w] = SubSeq(@, 1, at) \o nodes \o SubSeq(@, at + 1, Len(@)),
            !.idx = AddRevPtr(@, Range(nodes), w)]

\* The nodes are in the tree; they are put at index at of w and into the index.
InsertRefs(S, w, nodes, at) ==
  [S EXCEPT !.ref[w] = SubSeq(@, 1, at - 1) \o nodes \o SubSeq(@, at, Len(@)),
            !.idx = AddRevPtr(@, Range(nodes), w)]

\* A pointer that cannot be followed: a freed way, or past the end of a list.
Stale(S, p) == ~IsRel(p) /\ p \notin DOMAIN S.ref

\* The nodes of a way that are in the tree.
Present(S, w) ==
  LET at == InOrder({i \in DOMAIN S.ref[w] : S.ref[w][i] \in DOMAIN S.pos})
  IN [k \in DOMAIN at |-> S.ref[w][at[k]]]

(***************************************************************************)
(* split: the lists are followed while they grow                           *)
(***************************************************************************)
\* Variant: a node that is in both parts changes its parent.
UpdateRevPtrMoves(S, org, new, x) ==
  LET at == IndexIn(ListOf(S.idx, x), org)
  IN IF at # 0 THEN [S EXCEPT !.idx[x][at] = new] ELSE S

\* One node x of the new way; org is already short. S.n counts the reloads.
UpdateRevPtr(S, org, new, x) ==
  LET list == ListOf(S.idx, x)
      at   == IndexIn(list, org)
      miss == x \notin DOMAIN S.idx
      T == [S EXCEPT !.emerg = @ \/ miss, !.n = IF miss THEN @ + 1 ELSE @]
  IN CASE x \in Range(S.ref[org]) ->
            [T EXCEPT !.idx = Put(@, x, Append(list, new)), !.n = @ + 1,
                      !.fault = @ \/ Wild \in Range(list)]
       [] x \notin Range(S.ref[org]) /\ at # 0 -> [T EXCEPT !.idx[x][at] = new]
       [] OTHER -> [T EXCEPT !.idx = Put(@, x, list \o <<new, Wild>>),
                             !.fault = @ \/ Wild \in Range(list)]

UpdateAll(S, org, new, tail) == InTurn(LAMBDA T, x : UpdateRevPtr(T, org, new, x), S, tail)

\* Way w, which ends at index i now, and a new way with its other nodes.
Shorter(S, w, n, i) == [S EXCEPT !.ref[w] = IF i > 1 THEN SubSeq(@, 1, i) ELSE <<n, n>>]
NewPart(S, w, tail) == PutWays([S EXCEPT !.raw = IF w \in @ THEN @ \cup {S.uwid} ELSE @], <<tail>>)
SplitWay(S, w, n, i, tail) ==
  LET short == [Shorter(S, w, n, i) EXCEPT !.n = 0]
  IN IF Len(tail) < 2 THEN short ELSE UpdateAll(NewPart(short, w, tail), w, S.uwid, tail)

\* A turn for index k of the list of n. After reloads the list is followed again
\* from its second element on.
SplitOver(L, n) == L.S.fault \/ L.k > Len(L.S.idx[n])
SplitTurn(L, n, rs) ==
  LET S == L.S
      w == S.idx[n][L.k]
      s == S.ref[w]
      i == IndexIn(s, n)
      T == SplitWay(S, w, n, i, SubSeq(s, IF rs THEN i + 1 ELSE i, Len(s)))
  IN IF SplitOver(L, n) THEN L
     ELSE IF IsRel(w) THEN [L EXCEPT !.k = @ + 1]
     ELSE IF Stale(S, w) THEN [L EXCEPT !.S = [S EXCEPT !.fault = TRUE]]
     ELSE IF i = 0 THEN [S |-> [S EXCEPT !.emerg = TRUE], k |-> L.k + 1]
     ELSE IF ~rs /\ i \in {1, Len(s)} THEN [L EXCEPT !.k = @ + 1]
     ELSE [S |-> T, k |-> IF T.n > 0 THEN 2 ELSE L.k + 1]

SplitAt(S, n, rs) == Loop(LAMBDA L : SplitTurn(L, n, rs), [S |-> S, k |-> 1])

(***************************************************************************)
(* zeroway: a way of length zero between the first way and the others      *)
(***************************************************************************)
\* Offsets start at 0. The search ends at a way; only its first element is
\* compared with NULL. -1: none, -2: past the end of the list.
NextRevWay(list, from) ==
  LET ways == {i \in from..(Len(list) - 1) : ~IsRel(list[i + 1])}
  IN IF from >= Len(list) THEN -1
     ELSE IF ways = {} THEN -2
     ELSE CHOOSE i \in ways : \A k \in ways : i <= k

\* The first node, otherwise the last one, which is not compared.
FirstOrLast(s, n) == IF s # <<>> /\ s[1] = n THEN 1 ELSE Len(s)

\* Way w leads to the new node. The list of this node has place for one way behind
\* the way of length zero, for k is not increased: each way takes the place of the
\* one before it.
Connect(S, w, rev, nd) ==
  LET list == <<S.idx[nd][1], w>>
      lost == Range(S.idx[nd]) \ Range(list)
  IN [S EXCEPT !.ref[w] = ReplaceAt(@, rev, nd), !.idx[nd] = list, !.raw = @ \cup lost]

\* A turn for offset j behind cnt. The node is made in the first one, with it
\* the way of length zero.
ZeroOver(L, list, cnt) == L.S.fault \/ NextRevWay(list, cnt + L.j) = -1
ZeroTurn(L, n, list, cnt) ==
  LET S == L.S
      f == NextRevWay(list, cnt + L.j)
      off == f - cnt                       \* the code uses optr[j], not optr[cnt + j]
      found == list[f + 1]
      w == list[off + 1]
      rev == FirstOrLast(S.ref[found], n)
      new == S.unid
      Made == [PutWays(PutNodes(S, <<S.pos[n]>>), << <<n, new>> >>)
                 EXCEPT !.idx = Put(Put(@, n, Append(list, S.uwid)), new, <<S.uwid>>)]
      T == IF L.node = Wild THEN Made ELSE S
      nd == IF L.node = Wild THEN new ELSE L.node
  IN IF ZeroOver(L, list, cnt) THEN L
     ELSE IF f = -2 THEN [L EXCEPT !.S = [S EXCEPT !.fault = TRUE]]
     ELSE IF Stale(S, found) \/ IsRel(w) \/ Stale(S, w) THEN [L EXCEPT !.S = [S EXCEPT !.fault = TRUE]]
     ELSE IF rev \notin DOMAIN S.ref[w] THEN [L EXCEPT !.S = [S EXCEPT !.fault = TRUE]]
     ELSE [S |-> Connect(T, w, rev, nd), j |-> off + 1, node |-> nd]

\* From the first way on, which has offset cnt.
ZeroAt(S, n) ==
  LET list == S.idx[n]
  IN Loop(LAMBDA L : ZeroTurn(L, n, list, NextRevWay(list, 0)), [S |-> S, j |-> 1, node |-> Wild])
NoFirstWay(S, n) ==
  LET cnt == NextRevWay(S.idx[n], 0) IN cnt < 0 \/ Stale(S, S.idx[n][cnt + 1])

(***************************************************************************)
(* Distances along a way                                                   *)
(***************************************************************************)
PathLen(pos, s) ==
  InTurn(LAMBDA sum, i : sum + Diff(pos[s[i]], pos[s[i + 1]]), 0, [i \in 1..(Len(s) - 1) |-> i])

\* ins_eqdist: from position at to the node at index i, left is what remains of dist.
EqdistTurn(L, w, dist) ==
  LET S == L.S
      s == S.ref[w]
      to == S.pos[s[L.i]]
      p == Toward(L.at, to, L.left)
  IN IF L.i > Len(s) THEN L
     ELSE IF s[L.i] \notin DOMAIN S.pos THEN [L EXCEPT !.i = @ + 1]
     ELSE IF Diff(L.at, to) > L.left
     THEN [S |-> InsertRefs(PutNodes(S, <<p>>), w, <<S.unid>>, L.i), at |-> p, i |-> L.i + 1, left |-> dist]
     ELSE [S |-> S, at |-> to, i |-> L.i + 1, left |-> L.left - Diff(L.at, to)]

EqdistFrom(S, w, dist, i) ==
  Loop(LAMBDA L : EqdistTurn(L, w, dist), [S |-> S, at |-> S.pos[S.ref[w][i]], i |-> i + 1, left |-> dist])

\* check_way(): equal nodes at both ends are reduced to one; <<>> if all are equal.
CheckWay(s) ==
  LET a == SelectInSeq(s, LAMBDA x : x # s[1])
      t == <<s[1]>> \o SubSeq(s, a, Len(s))
      b == SelectLastInSeq(t, LAMBDA x : x # t[Len(t)])
  IN IF a = 0 THEN <<>> ELSE SubSeq(t, 1, b + 1)

\* The first node and those of rest that are not near the one kept before them.
Kept(pos, first, rest, far) ==
  InTurn(LAMBDA k, n : IF 4 * Diff(pos[k[Len(k)]], pos[n]) < far THEN k ELSE Append(k, n), <<first>>, rest)

\* What simplify leaves of s; p are the nodes in the tree. The last node is put
\* back only if at least two were dropped.
Thinned(pos, s, p, dist) ==
  LET kept == Kept(pos, s[1], Tail(p), Lesser(4 * dist, PathLen(pos, p)))
  IN kept \o (IF Len(kept) < Len(s) - 1 THEN <<s[Len(s)]>> ELSE <<>>)

(***************************************************************************)
(* wrapdetect: -Meridian and Meridian are the same line                    *)
(***************************************************************************)
Jumps(pos, a, b) == AbsInt(pos[b][2] - pos[a][2]) > Meridian

\* lat_dest_lon(): the latitude at which the way from a to b reaches lon.
LatAt(a, b, lon) ==
  LET dx == b[2] - a[2]
  IN IF dx = 0 THEN b[1] ELSE a[1] + ((lon - a[2]) * (b[1] - a[1]) * Sgn(dx)) \div AbsInt(dx)

\* The two nodes where the segment from a to b leaves and enters the map.
Seam(a, b) ==
  LET east == b[2] > a[2]
      side == IF east THEN -Meridian ELSE Meridian
      lat == LatAt(a, <<b[1], IF east THEN b[2] - 2 * Meridian ELSE b[2] + 2 * Meridian>>, side)
  IN << <<lat, side>>, <<lat, -side>> >>

\* n0 is the node before index i; i = 1 in the first turn.
WrapNext(S, w, i) == SelectInSubSeq(S.ref[w], i, Len(S.ref[w]), LAMBDA n : n \in DOMAIN S.pos)
WrapTurn(L, w, noinsert) ==
  LET S == L.S
      at == WrapNext(S, w, L.i)
      n1 == S.ref[w][at]
      seam == [PutNodes(S, Seam(S.pos[L.n0], S.pos[n1])) EXCEPT !.mark = @ \cup {S.unid}]
  IN IF at = 0 THEN L
     ELSE IF L.i = 1 \/ ~Jumps(S.pos, L.n0, n1) THEN [S |-> S, n0 |-> n1, i |-> at + 1]
     ELSE IF noinsert THEN [S |-> [S EXCEPT !.mark = @ \cup {L.n0}], n0 |-> n1, i |-> at + 1]
     ELSE [S |-> InsertRefs(seam, w, <<S.unid, S.unid - 1>>, L.i), n0 |-> S.unid - 1, i |-> at + 3]

WrapFrom(S, w, noinsert) == Loop(LAMBDA L : WrapTurn(L, w, noinsert), [S |-> S, n0 |-> Wild, i |-> 1])

(***************************************************************************)
(* Direction and shape                                                     *)
(***************************************************************************)
\* poly_area(): positive if counterclockwise.
Area(pos, s) ==
  InTurn(LAMBDA sum, i : sum + pos[s[i]][2] * pos[s[i + 1]][1] - pos[s[i + 1]][2] * pos[s[i]][1],
         0, [i \in 1..(Len(s) - 1) |-> i])

\* Variant: the loop begins one node late.
ReverseWayLate(s) == [i \in DOMAIN s |-> IF i \in {1, 2, Len(s) - 1, Len(s)} THEN s[i] ELSE s[Len(s) + 1 - i]]
\* reverse_way(): the first and the last node stay.
ReverseWay(s) == [i \in DOMAIN s |-> IF i \in {1, Len(s)} THEN s[i] ELSE s[Len(s) + 1 - i]]

\* shape_node() with three corners: a ring, one or two of them as an arc, the
\* sector of an arc with n, or rays from n. Nothing is put into the index.
Corners == << <<1, 0>>, <<0, -1>>, <<0, 1>> >>
ShapeNode(S, n, kind) ==
  LET cnt == IF kind \in {"arc", "sector"} THEN 2 ELSE 3
      nd == [i \in 1..cnt |-> S.unid + 1 - i]
      ways == CASE kind = "ring" -> <<Append(nd, nd[1])>>
                [] kind = "arc" -> <<nd>>
                [] kind = "sector" -> <<nd \o <<n, nd[1]>> >>
                [] OTHER -> [i \in 1..cnt |-> <<n, nd[i]>>]
      T == PutNodes(S, [i \in 1..cnt |-> <<S.pos[n][1] + Corners[i][1], S.pos[n][2] + Corners[i][2]>>])
      \* the id of the way is taken first, also if only rays are made
      T0 == IF kind = "star" THEN [T EXCEPT !.uwid = @ - 1] ELSE T
  IN [PutWays(T0, ways) EXCEPT !.raw = @ \cup {T0.uwid + 1 - i : i \in DOMAIN ways}]

ShapeAll(S, nodes, kind) == InTurn(LAMBDA T, n : ShapeNode(T, n, kind), S, nodes)

\* refine_poly0(): a new node after every node but the last, not in the index.
Refine(S, w) ==
  LET s == S.ref[w]
      k == Len(s) - 1
      Mid(i) == Toward(S.pos[s[i]], S.pos[s[i + 1]], Diff(S.pos[s[i]], S.pos[s[i + 1]]) \div 2)
      T == PutNodes(S, [i \in 1..k |-> Mid(i)])
  IN [T EXCEPT !.ref[w] = [i \in 1..(2 * k + 1) |-> IF i % 2 = 1 THEN s[(i + 1) \div 2]
                                                    ELSE S.unid + 1 - i \div 2],
               !.raw = @ \cup {w}]

(***************************************************************************)
(* The calls                                                               *)
(***************************************************************************)
Init ==
  /\ data \in {Load(m) : m \in Maps}
  /\ last = [op |-> "none"]
  /\ edits = 0

\* A call that returns normally or with what it has done so far.
Call(call, S) ==
  /\ ~data.fault /\ edits < MaxEdits /\ Cardinality(DOMAIN S.pos) <= MaxNodes
  /\ data' = [S EXCEPT !.n = 0]
  /\ last' = call
  /\ edits' = edits + 1

Nodes == DOMAIN data.pos
Ways == DOMAIN data.ref

Split ==
  \E n \in Nodes, rs \in BOOLEAN :
    LET L == SplitAt(data, n, rs)
    IN /\ Call([op |-> "split", n |-> n, rs |-> rs], IF n \in DOMAIN data.idx THEN L.S ELSE data)
       /\ n \notin DOMAIN data.idx \/ SplitOver(L, n)

Zeroway ==
  \E n \in Nodes :
    LET L == ZeroAt(data, n)
    IN \/ /\ n \notin DOMAIN data.idx
          /\ Call([op |-> "zeroway", n |-> n], data)
       \/ /\ n \in DOMAIN data.idx /\ NoFirstWay(data, n)
          /\ Call([op |-> "zeroway", n |-> n], [data EXCEPT !.fault = TRUE])
       \/ /\ n \in DOMAIN data.idx /\ ~NoFirstWay(data, n)
          /\ Call([op |-> "zeroway", n |-> n], L.S)
          /\ ZeroOver(L, data.idx[n], NextRevWay(data.idx[n], 0))

\* The last node is not tried as the first one: without another there is an error.
InsEqdist ==
  \E w \in Ways, dist \in Dists :
    LET s == data.ref[w]
        i == SelectInSubSeq(s, 1, Len(s) - 1, LAMBDA n : n \in Nodes)
        L == EqdistFrom(data, w, dist, i)
    IN /\ Call([op |-> "ins_eqdist", w |-> w, dist |-> dist],
               IF i = 0 THEN [data EXCEPT !.emerg = TRUE] ELSE L.S)
       /\ i = 0 \/ L.i > Len(L.S.ref[w])

WrapDetect ==
  \E w \in Ways, noinsert \in BOOLEAN :
    LET L == WrapFrom(data, w, noinsert)
    IN /\ Call([op |-> "wrapdetect", w |-> w, noinsert |-> noinsert], L.S)
       /\ WrapNext(L.S, w, L.i) = 0

\* A way shorter than dist is freed, and so is one of which a single node is left.
Simplify ==
  \E w \in Ways, dist \in Dists :
    LET s == data.ref[w]
        thin == CheckWay(Thinned(data.pos, s, Present(data, w), dist))
    IN /\ Len(s) >= 2 /\ s[1] \in Nodes
       /\ Call([op |-> "simplify", w |-> w, dist |-> dist],
               CASE PathLen(data.pos, Present(data, w)) < dist -> FreeWay(data, w)
                 [] OTHER -> IF s[Len(s)] \notin Nodes THEN [data EXCEPT !.fault = TRUE]
                             ELSE IF thin = <<>> THEN FreeWay(data, w)
                             ELSE [data EXCEPT !.ref[w] = thin])

Check ==
  \E w \in Ways :
    LET s == CheckWay(data.ref[w])
    IN Call([op |-> "check", w |-> w],
            IF s = <<>> THEN FreeWay(data, w) ELSE [data EXCEPT !.ref[w] = s])

Virtclosed ==
  \E w \in Ways, dist \in Dists :
    LET s == data.ref[w]
    IN /\ ~Closed(s)
       /\ Call([op |-> "virtclosed", w |-> w, dist |-> dist],
               IF Len(s) < 2 THEN [data EXCEPT !.emerg = TRUE]
               ELSE IF {s[1], s[Len(s)]} \subseteq Nodes /\ Diff(data.pos[s[1]], data.pos[s[Len(s)]]) < dist
               THEN [data EXCEPT !.ref[w] = Append(@, s[1])]
               ELSE data)

\* set_ccw and set_cw: dir is the sign of the area that is wanted.
SetDirection ==
  \E w \in Ways, dir \in {-1, 1} :
    LET s == data.ref[w]
    IN Call([op |-> "set_direction", w |-> w, dir |-> dir],
            IF Closed(s) /\ Range(s) \subseteq Nodes /\ Sgn(Area(data.pos, s)) = -dir
            THEN [data EXCEPT !.ref[w] = ReverseWay(s)]
            ELSE data)

Shape ==
  \E o \in Nodes \cup Ways, kind \in {"ring", "arc", "sector", "star"}, way \in BOOLEAN :
    /\ o \in (IF way THEN Ways ELSE Nodes)
    /\ Call([op |-> "shape", o |-> o, kind |-> kind],
            ShapeAll(data, IF way THEN Present(data, o) ELSE <<o>>, kind))

RefinePoly ==
  \E w \in Ways :
    /\ Len(data.ref[w]) >= 3
    /\ Call([op |-> "refine_poly", w |-> w],
            IF Range(data.ref[w]) \subseteq Nodes THEN Refine(data, w) ELSE [data EXCEPT !.emerg = TRUE])

\* Nodes on the edge of the world are moved by dist to its inner side.
Inside(c, limit, dist) == IF c >= limit THEN limit - dist ELSE IF c <= -limit THEN dist - limit ELSE c
FixBorderNodes ==
  \E n \in Nodes, dist \in Dists :
    Call([op |-> "fixbordernodes", n |-> n],
         [data EXCEPT !.pos[n] = <<Inside(@[1], Meridian \div 2, dist), Inside(@[2], Meridian, dist)>>])

Next ==
  \/ Split \/ Zeroway \/ InsEqdist \/ WrapDetect \/ Simplify \/ Check
  \/ Virtclosed \/ SetDirection \/ Shape \/ RefinePoly \/ FixBorderNodes

Spec == Init /\ [][Next]_vars

(***************************************************************************)
(* Properties                                                              *)
(***************************************************************************)
\* The segments of all ways, and the number of those from a to b.
Places(S) == UNION {{w} \X (1..(Len(S.ref[w]) - 1)) : w \in DOMAIN S.ref}
SegmentsAt(S, a, b) == {p \in Places(S) : S.ref[p[1]][p[2]] = a /\ S.ref[p[1]][p[2] + 1] = b}
Segments(S, a, b) == Cardinality(SegmentsAt(S, a, b))

\* The objects have the form the functions expect, marked nodes are in the tree,
\* the lists of the index are sequences of ids.
TypeOK ==
  /\ \A n \in Nodes : n \in Int /\ data.pos[n] \in Int \X Int
  /\ \A w \in Ways : w \in Int /\ w < 100 /\ data.ref[w] \in Seq(Int)
  /\ \A n \in DOMAIN data.idx : data.idx[n] \in Seq(Int)
  /\ data.mark \subseteq Nodes /\ data.raw \subseteq Int
  /\ {data.emerg, data.fault} \subseteq BOOLEAN /\ data.n = 0
  /\ data.unid < 0 /\ data.uwid < 0 /\ edits \in 0..MaxEdits

\* The index is complete: whatever calls were made, a node of a way that was
\* loaded, or split from such a way, has the way in its list (add_rev_ptr(),
\* insert_refs() and update_rev_ptr() keep up with every change of ways), unless
\* zeroway() put another way in its place there, or refine_poly() made the node.
IndexComplete ==
  ~data.fault =>
    \A w \in Ways \ data.raw : \A n \in Range(data.ref[w]) \cap Nodes :
      w \in Range(ListOf(data.idx, n))

\* While no way lacks entries in the index (raw), split() keeps every segment of
\* every way, and with remsegment it removes exactly the segments that begin at the
\* node, in all ways it is in, however often (doc/smrender.tex:1703-1713).
SplitExact ==
  [][last'.op = "split" /\ ~data'.fault /\ data.raw = {} =>
       \A a, b \in Nodes : a # b =>
         Segments(data', a, b) = IF last'.rs /\ a = last'.n THEN 0 ELSE Segments(data, a, b)]_vars

\* The nodes of s whose ids are above id, in their order, and a way whose nodes are
\* all there, on the map.
Above(s, id) == InTurn(LAMBDA r, n : IF n > id THEN Append(r, n) ELSE r, <<>>, s)
OnMap(S, w) == \A n \in Range(S.ref[w]) : n \in DOMAIN S.pos /\ AbsInt(S.pos[n][2]) <= Meridian

\* wrapdetect() loses no node of the way, and afterwards every segment that
\* jumps over the seam begins at a node marked for split, also when the way
\* crosses the seam several times in a row.
WrapMarked ==
  [][last'.op = "wrapdetect" =>
       LET s == data'.ref[last'.w]
       IN /\ Above(s, data.unid) = data.ref[last'.w]
          /\ OnMap(data, last'.w) =>
               \A i \in 1..(Len(s) - 1) : Jumps(data'.pos, s[i], s[i + 1]) => s[i] \in data'.mark]_vars

\* What the comments say: wrapdetect() goes on "at next node if no wrap occurs"
\* (smfunc.c:3406) and, after an insertion, "behind the newly inserted ones"
\* (3456). So a segment that does not cross the seam stays as it is.
OnlyWraps ==
  [][last'.op = "wrapdetect" =>
       \A a, b \in Nodes : ~Jumps(data.pos, a, b) => Segments(data', a, b) = Segments(data, a, b)]_vars

\* After set_cw() and set_ccw() a closed way whose nodes are all there has the
\* wanted direction, and it is the same ring.
DirectionSet ==
  [][last'.op = "set_direction" =>
       LET s == data'.ref[last'.w]
       IN Closed(s) /\ Range(s) \subseteq Nodes =>
            /\ Sgn(Area(data.pos, s)) # -last'.dir
            /\ \A a, b \in Nodes : Segments(data', a, b) + Segments(data', b, a)
                                    = Segments(data, a, b) + Segments(data, b, a)]_vars

\* The code's own expectation, logged as LOG_EMERG if it fails: the node is
\* in the ways of its list ("This should not happen!", smfunc.c:2406), and the
\* nodes of a way have a list ("this may indicate a bug somewhere", 2340).
NothingEmerges == ~data.emerg
=============================================================================
