------------------------------ MODULE CatPoly ------------------------------
(***************************************************************************)
(* cat_poly of smcoast.c: the ways that matched a rule (or the members of a *)
(* relation) are gathered, chained at common end nodes, joined to new ways, *)
(* trimmed to the page, and what is still open is connected along the       *)
(* border of the page, over its corner points. One action is one of these   *)
(* phases, connect_open() is repeated until it has nothing to connect.      *)
(*                                                                         *)
(* Of the position of a node the bearing from the centre of the page is     *)
(* kept, in 16ths of the circle, and whether it is off the page. Off the    *)
(* page, the bearings of the four corners stand for the regions in which a  *)
(* way is led to the corner, all others for the sides. qsort() keeps the    *)
(* order of equal elements, as the merge sort of glibc does.                *)
(***************************************************************************)
EXTENDS Integers, Sequences, FiniteSets, SequencesExt

CONSTANT Worlds   \* records of node, way, tag, copy, near, north, ignIncomplete, noCorner

VARIABLES
  world,    \* the data and the parameters of the rule, fixed
  todo,     \* the ways main is still called for
  node,     \* the nodes: id -> [brg, off]
  wl,       \* the way list
  pd,       \* the end points: [i, start, brg], sorted
  phase,    \* the next step of cat_poly_fini()
  emerg,    \* LOG_EMERG: "this should not happen"
  arcs      \* history: the connections along the border

vars == <<world, todo, node, wl, pd, phase, emerg, arcs>>

Nil == 0
Circle == 16
\* co_pt_: NE, E, SE, S, SW, W, NW, N. Their nodes have the ids -1 to -8. The
\* bearing of N is 0 or just below 360 degrees, as the difference of the middle
\* of the page and of the border is rounded.
NumCo == 8
CornerBrg == [k \in 1..NumCo |-> IF k = NumCo THEN world.north ELSE 2 * k]
Corner(k) == -(k % NumCo) - 1

Init ==
  /\ world \in Worlds
  /\ todo = [i \in DOMAIN world.way |-> i]
  /\ node = [n \in DOMAIN world.node \cup {Corner(k) : k \in 0..(NumCo - 1)} |->
               IF n > 0 THEN world.node[n] ELSE [brg |-> CornerBrg[-n], off |-> FALSE]]
  /\ wl = <<>> /\ pd = <<>> /\ phase = "gather" /\ emerg = FALSE /\ arcs = {}

(***************************************************************************)
(* Gathering and joining                                                   *)
(***************************************************************************)
\* check_way(): equal nodes at both ends are reduced to one; <<>> if all are equal.
CheckWay(s) ==
  LET a == SelectInSeq(s, LAMBDA x : x # s[1])
      t == <<s[1]>> \o SubSeq(s, a, Len(s))
      b == SelectLastInSeq(t, LAMBDA x : x # t[Len(t)])
  IN IF a = 0 THEN <<>> ELSE SubSeq(t, 1, b + 1)

\* The main function, called for a way or by cat_relways() for a member.
Gather ==
  /\ phase = "gather"
  /\ IF todo = <<>> THEN phase' = "join" /\ UNCHANGED <<todo, wl>>
     ELSE LET s == world.way[Head(todo)]
              w == IF Len(s) < 2 THEN <<>> ELSE CheckWay(s)
          IN /\ wl' = IF w = <<>> THEN wl
                      ELSE Append(wl, [w |-> w, id |-> Head(todo), next |-> Nil, prev |-> Nil,
                                       open |-> FALSE, nw |-> <<>>, tags |-> <<>>])
             /\ todo' = Tail(todo)
             /\ UNCHANGED phase
  /\ UNCHANGED <<world, node, pd, emerg, arcs>>

Sorted(p, Key(_)) ==
  LET key == [a \in DOMAIN p |-> Key(p[a])]
      rank == [a \in DOMAIN p |-> 1 + Cardinality({b \in DOMAIN p : key[b] < key[a] \/ (key[b] = key[a] /\ b < a)})]
  IN [k \in DOMAIN p |-> p[CHOOSE a \in DOMAIN p : rank[a] = k]]

\* poly_get_node_ids() and qsort(): first nodes and last nodes, by id and position.
AllEnds(list) ==
  LET n == Len(list)
  IN [k \in 1..(2 * n) |->
        IF k <= n THEN [i |-> k, pn |-> 0, nid |-> list[k].w[1]]
        ELSE [i |-> k - n, pn |-> Len(list[k - n].w) - 1, nid |-> list[k - n].w[Len(list[k - n].w)]]]
\* Faulty variant: last nodes are sorted before first ones.
EndNodesLastFirst(list) == Sorted(AllEnds(list), LAMBDA e : 100 * e.nid - e.pn)
EndNodes(list) == Sorted(AllEnds(list), LAMBDA e : 100 * e.nid + e.pn)

\* poly_find_adj2(): neighbours in the sorted list with the same node; if a
\* node is shared by more than two ends, later pairs overwrite earlier links.
Linked(list, ends) ==
  LET Same(k) == k < Len(ends) /\ ends[k].nid = ends[k + 1].nid
      Latest(S, with(_)) == IF S = {} THEN Nil ELSE with(CHOOSE k \in S : \A x \in S : x <= k)
  IN [i \in DOMAIN list |->
        [list[i] EXCEPT
           !.next = Latest({k \in DOMAIN ends : Same(k) /\ ends[k + 1].i = i}, LAMBDA k : ends[k].i),
           !.prev = Latest({k \in DOMAIN ends : Same(k) /\ ends[k].i = i}, LAMBDA k : ends[k + 1].i)]]

\* count_poly_refs(): the ways from i on, and 1 for a loop, 0 for an open
\* chain, -1 if the links contradict each other.
RECURSIVE Chain(_, _, _)
Chain(list, i, seq) ==
  LET k == seq[Len(seq)]
      n == list[k].next
  IN IF n = Nil THEN [ret |-> 0, seq |-> seq]
     ELSE IF n = i THEN [ret |-> 1, seq |-> seq]
     ELSE IF list[n].prev \notin {Nil, k} THEN [ret |-> -1, seq |-> seq]
     ELSE Chain(list, i, Append(seq, n))

\* join_open_poly(): the last node of a way is overwritten by the next way.
RECURSIVE Joined(_, _)
Joined(list, seq) ==
  LET w == list[seq[1]].w
  IN IF Len(seq) = 1 THEN w ELSE Front(w) \o Joined(list, Tail(seq))

\* join_tags(): of every key of the rule and of copy=*, the first value in the chain.
JoinTags(list, seq) ==
  LET own(a) == world.tag[list[seq[a]].id]
      FirstWith(x) == CHOOSE a \in DOMAIN seq : x \in DOMAIN own(a) /\ \A b \in 1..(a - 1) : x \notin DOMAIN own(b)
  IN [x \in world.copy \cap UNION {DOMAIN own(a) : a \in DOMAIN seq} |-> own(FirstWith(x))[x]]

\* loop_detect(): a new way for every first way of an open chain, and for a ring
\* at its way that comes first in the list; the others are marked then.
LoopDetect(list) ==
  LET chain == [i \in DOMAIN list |-> Chain(list, i, <<i>>)]
      Begins(i) == \/ chain[i].ret = 0 /\ list[i].prev = Nil
                   \/ chain[i].ret = 1 /\ \A k \in Range(chain[i].seq) : k < i => chain[k].ret # 1
  IN [i \in DOMAIN list |->
        IF Begins(i) THEN [list[i] EXCEPT !.nw = Joined(list, chain[i].seq), !.open = (chain[i].ret = 0),
                                          !.tags = JoinTags(list, chain[i].seq)]
        ELSE list[i]]

Join ==
  /\ phase = "join"
  /\ wl' = LoopDetect(Linked(wl, EndNodes(wl)))
  /\ phase' = "almost"
  /\ UNCHANGED <<world, todo, node, pd, emerg, arcs>>

\* connect_almost_closed(): the first way of a chain (.w, not .nw) is closed if
\* its own ends are near; an error if one of them does not exist.
ConnectAlmostClosed ==
  /\ phase = "almost"
  /\ wl' = [i \in DOMAIN wl |->
              LET w == wl[i].w
              IN IF wl[i].open /\ {w[1], w[Len(w)]} \subseteq DOMAIN node /\ {w[1], w[Len(w)]} \in world.near
                 THEN [wl[i] EXCEPT !.w = Append(@, w[1]), !.open = FALSE] ELSE wl[i]]
  /\ phase' = "trim"
  /\ UNCHANGED <<world, todo, node, pd, emerg, arcs>>

(***************************************************************************)
(* Trimming to the page                                                    *)
(***************************************************************************)
\* dodecant(): the corner region the node is in, Nil on the sides.
Region(n) == IF node[n].brg \in {2, 6, 10, 14} THEN node[n].brg \div 2 ELSE Nil

\* trim_way() from the first node on. The nodes that are off the page are
\* replaced by an edge point; the number of nodes before it, -1 for an error.
Inside(s) == SelectInSeq(s, LAMBDA n : n \notin DOMAIN node \/ ~node[n].off)
TrimWay(s, new) ==
  LET i == Inside(s)
      last == s[i - 1]
  IN IF i = 0 \/ (i > 0 /\ s[i] \notin DOMAIN node) THEN [ret |-> -1, way |-> s, edge |-> {}]
     ELSE IF i = 1 THEN [ret |-> 0, way |-> s, edge |-> {}]
     ELSE IF Region(last) # Nil
     THEN [ret |-> i - 1, way |-> <<Corner(Region(last) - 1)>> \o SubSeq(s, i, Len(s)), edge |-> {}]
     ELSE [ret |-> i - 1, way |-> <<new>> \o SubSeq(s, i, Len(s)), edge |-> {<<new, last>>}]

\* trim_ways() for one way: from the start, then from the end.
Trimmed(i, new) ==
  LET a == TrimWay(wl[i].nw, new)
      b == TrimWay(Reverse(a.way), new - 1)
  IN CASE ~wl[i].open -> [open |-> FALSE, way |-> wl[i].nw, edge |-> {}, bad |-> FALSE]
       [] wl[i].open /\ a.ret = -1 -> [open |-> FALSE, way |-> wl[i].nw, edge |-> {}, bad |-> FALSE]
       [] OTHER -> [open |-> TRUE, way |-> Reverse(b.way), edge |-> a.edge \cup b.edge, bad |-> b.ret = -1]

\* poly_get_brg(): the first cnt open ways, and only so many, get end points.
Bearings(list, nodes, cnt) ==
  LET open == SelectSeq([i \in DOMAIN list |-> i], LAMBDA i : list[i].open)
      End(k) == LET s == list[open[k]].nw IN s[Len(s)]
  IN [k \in 1..(2 * cnt) |->
        IF k <= cnt THEN [i |-> open[k], start |-> TRUE, brg |-> nodes[list[open[k]].nw[1]].brg]
        ELSE [i |-> open[k - cnt], start |-> FALSE,
              brg |-> IF End(k - cnt) \in DOMAIN nodes THEN nodes[End(k - cnt)].brg ELSE 0]]

Trim ==
  /\ phase = "trim"
  /\ LET t == [i \in DOMAIN wl |-> Trimmed(i, -100 - 2 * i)]
         edges == UNION {t[i].edge : i \in DOMAIN wl}
         list == [i \in DOMAIN wl |-> [wl[i] EXCEPT !.open = t[i].open, !.nw = t[i].way]]
         nodes == [n \in DOMAIN node \cup {e[1] : e \in edges} |->
                     IF n \in DOMAIN node THEN node[n]
                     ELSE [brg |-> node[(CHOOSE e \in edges : e[1] = n)[2]].brg, off |-> FALSE]]
         cnt == Cardinality({i \in DOMAIN wl : t[i].open /\ ~t[i].bad})
     IN /\ wl' = list
        /\ node' = nodes
        /\ emerg' = \E i \in DOMAIN wl : t[i].bad
        /\ phase' = IF world.ignIncomplete THEN "done" ELSE "connect"
        /\ pd' = IF world.ignIncomplete THEN pd ELSE Bearings(list, nodes, cnt)
  /\ UNCHANGED <<world, todo, arcs>>

(***************************************************************************)
(* Connecting along the border                                             *)
(***************************************************************************)
\* The index (from 0) of the first corner behind a bearing.
FirstIndex(k) == IF k = 0 THEN NumCo ELSE k - 1
\* Faulty variant: a corner with the same bearing counts, too.
NextCornerEven(b) == FirstIndex(SelectInSeq(CornerBrg, LAMBDA c : b <= c))
NextCorner(b) == FirstIndex(SelectInSeq(CornerBrg, LAMBDA c : b < c))

\* The corners from start point i to end point j in clockwise order, in the
\* order in which the way gets them in front.
CornersBetween(p, i, j) ==
  LET k == NextCorner(p[i].brg)
      j0 == IF j > Len(p) THEN j - Len(p) ELSE j
      l0 == NextCorner(p[j0].brg)
      l == IF l0 < k \/ j > Len(p) THEN l0 + NumCo ELSE l0
  IN IF world.noCorner THEN <<>> ELSE [x \in 1..(l - k) |-> Corner(l - x)]

\* The way wj, led to the corners and the way wi, becomes the way wi, which starts
\* where wj did; wj is closed. Faulty variants of it come first.
StartOf(p, w) == p[CHOOSE x \in DOMAIN p : p[x].i = w /\ p[x].start].brg
MergedOverwrites(T, i, wi, wj, way) ==
  [T EXCEPT !.wl[wi].nw = T.wl[wj].nw \o SubSeq(way, Len(T.wl[wj].nw) + 1, Len(way)), !.wl[wj].open = FALSE,
            !.pd[i].brg = StartOf(T.pd, wj)]
MergedStaysOpen(T, i, wi, wj, way) == [T EXCEPT !.wl[wi].nw = T.wl[wj].nw \o way, !.pd[i].brg = StartOf(T.pd, wj)]
Merged(T, i, wi, wj, way) ==
  [T EXCEPT !.wl[wi].nw = T.wl[wj].nw \o way, !.wl[wj].open = FALSE, !.pd[i].brg = StartOf(T.pd, wj)]

\* S: the way list, the end points, the connections and their number. The loop
\* over the start points ends with the first merge, the list is sorted again.
RECURSIVE ConnectFrom(_, _)
ConnectFrom(S, i) ==
  LET n == Len(S.pd)
      At(j) == S.pd[IF j > n THEN j - n ELSE j]
      ends == {j \in (i + 1)..(i + n - 1) : ~At(j).start /\ S.wl[At(j).i].open}
      j == CHOOSE x \in ends : \A y \in ends : x <= y
      wi == S.pd[i].i
      wj == At(j).i
      corners == CornersBetween(S.pd, i, j)
      way == corners \o S.wl[wi].nw
      T == [S EXCEPT !.cnt = @ + 1,
                     !.arcs = @ \cup {[s |-> S.pd[i].brg, e |-> At(j).brg, si |-> wi, ei |-> wj,
                                       corners |-> corners, wraps |-> j > n]}]
  IN IF i > n THEN S
     ELSE IF ~S.pd[i].start \/ ~S.wl[wi].open \/ ends = {} THEN ConnectFrom(S, i + 1)
     ELSE IF wi = wj
     THEN ConnectFrom([T EXCEPT !.wl[wi].nw = Append(way, way[1]), !.wl[wi].open = FALSE], i + 1)
     ELSE Merged(T, i, wi, wj, way)

Connect ==
  /\ phase = "connect"
  /\ LET S == ConnectFrom([wl |-> wl, pd |-> Sorted(pd, LAMBDA p : p.brg), cnt |-> 0, arcs |-> arcs], 1)
     IN /\ wl' = S.wl /\ pd' = S.pd /\ arcs' = S.arcs
        /\ phase' = IF S.cnt > 0 THEN "connect" ELSE "done"
  /\ UNCHANGED <<world, todo, node, emerg>>

Finished == phase = "done" /\ UNCHANGED vars
Next == Gather \/ Join \/ ConnectAlmostClosed \/ Trim \/ Connect \/ Finished
Spec == Init /\ [][Next]_vars

(***************************************************************************)
(* Properties                                                              *)
(***************************************************************************)
TypeOK ==
  /\ phase \in {"gather", "join", "almost", "trim", "connect", "done"}
  /\ \A i \in DOMAIN wl : wl[i].next \in 0..Len(wl) /\ wl[i].prev \in 0..Len(wl) /\ wl[i].open \in BOOLEAN
  /\ \A k \in DOMAIN pd : pd[k].i \in DOMAIN wl /\ pd[k].brg \in 0..Circle
  /\ \A i \in DOMAIN wl : Range(wl[i].nw) \ DOMAIN node \subseteq UNION {Range(s) : s \in Range(world.way)}

First(s) == s[1]
Final(s) == s[Len(s)]

\* No two ways begin at the same node and no two end there.
WellDirected ==
  \A i, j \in DOMAIN wl : i # j => First(wl[i].w) # First(wl[j].w) /\ Final(wl[i].w) # Final(wl[j].w)

\* Of ways that do not contradict each other in their direction, everyone is
\* part of exactly one new way, undivided and in its direction; the new ways are
\* as long as possible, and open exactly if they are not rings.
JoinedOnce ==
  phase = "almost" /\ WellDirected =>
    LET new == {i \in DOMAIN wl : wl[i].nw # <<>>}
    IN /\ \A i \in DOMAIN wl : Cardinality({k \in new : \E a, b \in DOMAIN wl[k].nw :
                                            SubSeq(wl[k].nw, a, b) = wl[i].w}) = 1
       /\ \A k \in new : wl[k].open <=> First(wl[k].nw) # Final(wl[k].nw)
       /\ \A k, l \in new : k # l => Final(wl[k].nw) # First(wl[l].nw)

\* What is open becomes part of rings (the purpose of cat_poly,
\* doc/smrender.tex:1368) whatever the order of the end points: nothing is open
\* at the end, what took part in connecting is a ring or in another way, and
\* no node that is on the page is lost or doubled.
RingsClosed ==
  phase = "done" /\ ~emerg /\ ~world.ignIncomplete =>
    LET part == {pd[k].i : k \in DOMAIN pd}
        rings == {i \in part : ~\E a \in arcs : a.ei = i /\ a.si # i}
        Inner(i) == {n \in Range(wl[i].w) \cap DOMAIN world.node : ~world.node[n].off}
    IN /\ \A i \in DOMAIN wl : ~wl[i].open
       /\ \A i \in rings : First(wl[i].nw) = Final(wl[i].nw)
       /\ \A i \in part : \A n \in Inner(i) :
            WellDirected => Cardinality({<<r, x>> \in rings \X (1..30) :
                                         x < Len(wl[r].nw) /\ wl[r].nw[x] = n}) = 1

Between(s, x, e) == (x - s) % Circle \in 1..(((e - s) % Circle) - 1)

\* A connection goes over exactly the corners of the page (N, E, S and W are
\* points of its sides) between its start and its end in clockwise order.
CornersOnTheWay ==
  \A a \in arcs : a.s # a.e /\ ~world.noCorner =>
    {k \in 1..NumCo : k % 2 = 1 /\ -k \in Range(a.corners)}
      = {k \in 1..NumCo : k % 2 = 1 /\ (Between(a.s, 2 * k, a.e) \/ (2 * k) % Circle = a.e % Circle)}

\* The repetition of connect_open() ends: a round that is followed by another
\* one leaves fewer open ways, and opens none.
OpenWays == {i \in DOMAIN wl : wl[i].open}
RoundsEnd ==
  [][phase = "connect" /\ phase' = "connect" => OpenWays' \subseteq OpenWays /\ OpenWays' # OpenWays]_vars

\* The middle points of the sides are between start and end, too ("append
\* additional corner point(s) of the rendering rectangle which are between the
\* start and end node in clockwise order", smcoast.c:56).
MiddlesOnTheWay ==
  \A a \in arcs : a.s # a.e =>
    \A k \in 1..NumCo : -k \in Range(a.corners) =>
      Between(a.s, 2 * k, a.e) \/ (2 * k) % Circle = a.e % Circle
=============================================================================
