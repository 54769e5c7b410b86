------------------------------- MODULE ObjTree -------------------------------
(***************************************************************************)
(* The tree of objects: bxtree.c, the put and get functions of smutil.c and *)
(* traverse() of smcore.c. A tree node has Base children; the way from the  *)
(* root to a leaf are the digits of the id, the most significant one first, *)
(* taken as an unsigned number. A leaf has slots for the types of objects.  *)
(*                                                                         *)
(* Adding and getting a node are atomic (bx_add_node0() and bx_get_node0()  *)
(* hold a lock); a handler called by traverse() may put and remove objects, *)
(* which is what most rules do.                                            *)
(***************************************************************************)
EXTENDS Integers, Sequences, FiniteSets

CONSTANTS
  Id,         \* the ids used
  Slot,       \* IDX_NODE, IDX_WAY, IDX_REL: indexes into a leaf, from 0
  Obj,        \* objects
  Base,       \* 2^BX_RES
  Depth,      \* digits of an id
  MaxPuts     \* bound of the number of changes

Nil == 0
\* Two's complement and BT_MASK().
Digit(h, d) == ((h % (Base^Depth)) \div (Base^(Depth - d))) % Base
Path(h) == [d \in 1..Depth |-> Digit(h, d)]

ASSUME PathInjective == \A g, h \in Id : Path(g) = Path(h) => g = h
ASSUME ObjAssumption == Nil \notin Obj
ASSUME DigitAssumption == /\ Depth \in Nat /\ Base \in Nat \ {0} /\ Id \subseteq Int
                          /\ \A d \in 0..Depth : Base^d \in Nat \ {0}
\* What powers are: the prover does not know them.
ASSUME PowerAssumption == Base^0 = 1 /\ \A d \in 1..Depth : Base^d = Base * Base^(d - 1)
ASSUME SlotAssumption == IsFiniteSet(Slot) /\ Slot = 0..(Cardinality(Slot) - 1)
ASSUME BoundAssumption == MaxPuts \in Nat

VARIABLES
  alloc,    \* the paths of the nodes that exist, from <<>> for the root
  leaf,     \* the pointers in the leaves, by path and slot
  trv,      \* the traversal: its slot (-1 all), where it is, what it has visited
  puts,     \* number of changes
  store     \* history: what was put last for an id and a slot

vars == <<alloc, leaf, trv, puts, store>>

Paths == [1..Depth -> 0..(Base - 1)]
Prefix(p, n) == [i \in 1..n |-> p[i]]
\* Order of visiting: the paths as numbers.
Rank(p) == LET number[n \in 0..Depth] == IF n = 0 THEN 0 ELSE p[n] + Base * number[n - 1]
           IN number[Depth]

Idle == [on |-> FALSE, slot |-> -1, at |-> -1, from |-> 0, seen |-> <<>>, keep |-> {}, ret |-> 0]
Init ==
  /\ alloc = {} /\ leaf = [p \in Paths |-> [s \in Slot |-> Nil]]
  /\ trv = Idle /\ puts = 0
  /\ store = [h \in Id |-> [s \in Slot |-> Nil]]

\* bx_get_node1(): NULL as soon as a node on the way does not exist.
GetNode(h) == IF \A n \in 0..Depth : Prefix(Path(h), n) \in alloc THEN <<Path(h)>> ELSE <<>>
GetObject(h, s) == IF GetNode(h) = <<>> THEN Nil ELSE leaf[GetNode(h)[1]][s]

\* put_object0_ctrl() on the tree of the data: all missing nodes on the way are
\* made; an object that is there is overwritten (with a warning) or, if the caller
\* asks for it, kept; then -1 is returned.
\* Faulty variant: the object that is there is not kept.
PutOverwrites(h, s, o, keep) == o
PutResult(h, s, o, keep) == IF leaf[Path(h)][s] # Nil /\ o # Nil /\ keep THEN leaf[Path(h)][s] ELSE o
Put(h, s, o, keep) ==
  /\ puts < MaxPuts /\ puts' = puts + 1
  /\ alloc' = alloc \cup {Prefix(Path(h), n) : n \in 0..Depth}
  /\ leaf' = [leaf EXCEPT ![Path(h)][s] = PutResult(h, s, o, keep)]
  /\ store' = [store EXCEPT ![h][s] = IF keep /\ @ # Nil THEN @ ELSE o]
  /\ trv' = [trv EXCEPT !.keep = {x \in @ : x # <<h, s>>}]
\* rem_object(): a NULL pointer is put if there is an object.
RemObject(h, s) ==
  /\ GetObject(h, s) # Nil /\ puts < MaxPuts /\ puts' = puts + 1
  /\ leaf' = [leaf EXCEPT ![Path(h)][s] = Nil]
  /\ store' = [store EXCEPT ![h][s] = Nil]
  /\ trv' = [trv EXCEPT !.keep = {x \in @ : x # <<h, s>>}]
  /\ UNCHANGED alloc

\* traverse(): -1 for a tree without a root. keep is history: the objects that
\* are there from the beginning on.
StartTraverse(s) ==
  /\ ~trv.on /\ trv.seen = <<>> /\ trv.ret = 0
  /\ trv' = IF <<>> \notin alloc THEN [Idle EXCEPT !.ret = -1]
            ELSE [Idle EXCEPT !.on = TRUE, !.slot = s, !.from = puts,
                              !.keep = {x \in Id \X Slot : (s = -1 \/ x[2] = s) /\ store[x[1]][x[2]] # Nil}]
  /\ UNCHANGED <<alloc, leaf, puts, store>>

\* The position of a leaf and slot, and the next one that holds a pointer: the
\* pointers are read when the recursion comes there.
NumSlots == Cardinality(Slot)
\* Faulty variant: one slot after the other over the whole tree.
AtSlotFirst(p, s) == s * (Base^Depth) + Rank(p)
At(p, s) == Rank(p) * NumSlots + s
Ahead == {x \in Paths \X Slot : /\ Prefix(x[1], Depth) \in alloc
                                /\ (trv.slot = -1 \/ x[2] = trv.slot)
                                /\ At(x[1], x[2]) > trv.at
                                /\ leaf[x[1]][x[2]] # Nil}
NextAt == CHOOSE x \in Ahead : \A y \in Ahead : At(x[1], x[2]) <= At(y[1], y[2])

\* The handler is called; if its result is not 0 the recursion is left.
Visit(e) ==
  /\ trv.on /\ Ahead # {}
  /\ trv' = [trv EXCEPT !.at = At(NextAt[1], NextAt[2]), !.ret = e, !.on = (e = 0),
                        !.seen = Append(@, [path |-> NextAt[1], slot |-> NextAt[2], obj |-> leaf[NextAt[1]][NextAt[2]]])]
  /\ UNCHANGED <<alloc, leaf, puts, store>>
\* (That SIGINT ends it early, with 0, is part of RuleEngine.)
EndTraverse ==
  /\ trv.on /\ Ahead = {}
  /\ trv' = [trv EXCEPT !.on = FALSE]
  /\ UNCHANGED <<alloc, leaf, puts, store>>

\* bx_free_tree0(): of a temporary tree after its use; the objects stay.
FreeTree ==
  /\ ~trv.on /\ trv.seen # <<>>
  /\ alloc' = {} /\ leaf' = [p \in Paths |-> [s \in Slot |-> Nil]]
  /\ store' = [h \in Id |-> [s \in Slot |-> Nil]]
  /\ trv' = Idle
  /\ UNCHANGED puts

Next ==
  \/ \E h \in Id, s \in Slot, o \in Obj, keep \in BOOLEAN : Put(h, s, o, keep)
  \/ \E h \in Id, s \in Slot : RemObject(h, s)
  \/ \E s \in Slot \cup {-1} : StartTraverse(s)
  \/ \E e \in {0, -1} : Visit(e)
  \/ EndTraverse
  \/ FreeTree

Spec == Init /\ [][Next]_vars

(***************************************************************************)
(* Properties                                                              *)
(***************************************************************************)
\* Whatever objects with other ids did to the nodes in between, an id and a type
\* give the object that was put last, until it is removed (put_object(),
\* get_object() and rem_object()).
GetLastPut == \A h \in Id, s \in Slot : GetObject(h, s) = store[h][s]

\* traverse() goes through the slots in the order of the unsigned ids and calls
\* the handler once for each at most; if it ends without an error, every object
\* that was there all the time was visited, whatever the handlers put or removed.
Unsigned(h) == h % (Base^Depth)
TraverseExact ==
  /\ \A i, j \in DOMAIN trv.seen : i < j =>
       \/ Rank(trv.seen[i].path) < Rank(trv.seen[j].path)
       \/ trv.seen[i].path = trv.seen[j].path /\ trv.seen[i].slot < trv.seen[j].slot
  /\ ~trv.on /\ trv.ret = 0 /\ trv.seen # <<>> =>
       \A x \in trv.keep : \E i \in DOMAIN trv.seen :
         /\ Rank(trv.seen[i].path) = Unsigned(x[1]) /\ trv.seen[i].slot = x[2]
         /\ trv.seen[i].obj = store[x[1]][x[2]]
=============================================================================
