----------------------------- MODULE TagActions -----------------------------
(***************************************************************************)
(* The actions of smfunc.c that edit the tags of objects, behind the match  *)
(* of a rule with an object (apply_rule() of smcore.c). One action is one   *)
(* call of an action's main function (its fini function for add and mask).  *)
(*                                                                         *)
(* Keys and values are numbers: what is told apart is whether a pattern     *)
(* hits them, and their value as numbers. The key k with ":local" behind it *)
(* is Local + k, the string "xy" made of two values is 10x + y.             *)
(***************************************************************************)
EXTENDS Integers, Sequences, FiniteSets, SequencesExt

CONSTANTS
  Worlds,       \* records of type, ref, mem, parent, pos and tag: the data
  Conds,        \* conditions of rules: sequences of tag patterns
  Templates,    \* tag lists of rules without an action
  KeyLists,     \* the key parameters of an action, as patterns of keys
  MaxSteps      \* bound of the number of calls

\* A tag; which patterns and data there are.
Ftag == [k : Int, v : Int]
IsPattern(p) == /\ p.type \in {"direct", "regex", "gt", "lt", "any"}
                /\ p.inv \in BOOLEAN /\ p.not \in BOOLEAN
IsWorld(w) ==
  /\ w.tag \in [DOMAIN w.tag -> Seq(Ftag)]
  /\ IsFiniteSet(DOMAIN w.tag) /\ DOMAIN w.tag \subseteq Nat
  /\ \A o \in DOMAIN w.tag : w.type[o] = "node" => w.pos[o] \in Int
  /\ \A n \in (-MaxSteps)..(-1) : w.pos[n] \in Int     \* new nodes

ASSUME TagAssumption ==
  /\ MaxSteps \in Nat /\ \A w \in Worlds : IsWorld(w)
  /\ \A c \in Conds : c \in Seq(Range(c)) /\ \A i \in DOMAIN c : IsPattern(c[i].k) /\ IsPattern(c[i].v)
  /\ Templates \subseteq Seq(Ftag)
  /\ \A keys \in KeyLists : keys \in Seq(Range(keys)) /\ \A i \in DOMAIN keys : IsPattern(keys[i])

VARIABLES
  world,     \* types, references, reverse index and positions, fixed
  tag,       \* the tag list of every object
  vis,       \* the visible flag
  list,      \* what incomplete() wrote
  last,      \* the last call: [op, obj, ...], for the properties
  steps,     \* number of calls
  fault      \* an access outside of a tag list

vars == <<world, tag, vis, list, last, steps, fault>>

Local == 100
MaskKey == 30
IntMax == 1000     \* INT_MAX
FmtKeys == {<<1>>, <<1, 2>>}      \* the keys in a format
CopyKeys == {<<1, 2>>, <<2>>}     \* the keys to inherit

(***************************************************************************)
(* Matching. A pattern is [type, val, inv, not]; type "any" is the empty    *)
(* string, val is a set of strings for a regular expression.                *)
(***************************************************************************)
Direct(x) == [type |-> "direct", val |-> x, inv |-> FALSE, not |-> FALSE]
AnyString == [type |-> "any", val |-> 0, inv |-> FALSE, not |-> FALSE]

\* The match of the expression without its marks, and bs_match().
Hits(x, p) == CASE p.type = "direct" -> x = p.val
                [] p.type = "regex" -> x \in p.val
                [] p.type = "gt" -> x > p.val
                [] p.type = "lt" -> x < p.val
                [] p.type = "any" -> TRUE
\* Faulty variant: inversion is ignored.
BsMatchNoInvert(x, p) == Hits(x, p)
BsMatch(x, p) == IF p.type = "any" THEN TRUE ELSE Hits(x, p) # p.inv

\* bs_match_attr(): the index of the first tag that matches, from 1 here; 0 for
\* no match, IntMax if nothing with a NOT was found.
MatchAttr(tags, p) ==
  LET K(i) == BsMatch(tags[i].k, p.k)
      V(i) == BsMatch(tags[i].v, p.v)
      i == SelectInSeq(tags, LAMBDA t : \/ BsMatch(t.k, p.k) /\ (p.k.not \/ BsMatch(t.v, p.v))
                                        \/ BsMatch(t.v, p.v) /\ p.v.not)
  IN IF i = 0 THEN (IF p.k.not \/ p.v.not THEN IntMax ELSE 0)
     ELSE IF (K(i) /\ p.k.not) \/ (V(i) /\ p.v.not) THEN 0 ELSE i
KeyIndex(tags, key) == MatchAttr(tags, [k |-> Direct(key), v |-> AnyString])

Applies(o, cond) == vis[o] /\ \A i \in DOMAIN cond : MatchAttr(tag[o], cond[i]) # 0

(***************************************************************************)
(* Editing a tag list                                                      *)
(***************************************************************************)
\* Put a tag in place of the first with its key, or behind the others.
SetFtag(tags, k, v) ==
  LET m == KeyIndex(tags, k) IN IF m = 0 THEN Append(tags, [k |-> k, v |-> v]) ELSE [tags EXCEPT ![m].v = v]

\* copy_tag_cond()
\* Faulty variant: an existing tag is always overwritten.
CopyTagOver(src, tags, force) == SetFtag(tags, src.k, src.v)
CopyTagCond(src, tags, force) ==
  IF KeyIndex(tags, src.k) # 0 /\ ~force THEN tags ELSE SetFtag(tags, src.k, src.v)

\* inherit_tags copies those of its keys that are in copied from src.
Inherited(tags, src, keys, copied, force) ==
  LET upTo[i \in 0..Len(keys)] ==
        IF i = 0 THEN tags
        ELSE IF keys[i] \notin copied THEN upTo[i - 1]
        ELSE CopyTagCond(src[KeyIndex(src, keys[i])], upTo[i - 1], force)
  IN upTo[Len(keys)]

\* The main function of translate, for one key and for all of them; an index of
\* IntMax is used as if it were one of the list: [tags, fault].
TranslateKey(s, key, table, newtag) ==
  LET n == MatchAttr(s.tags, [k |-> key, v |-> AnyString])
      m == KeyIndex(table, s.tags[n].v)
  IN IF n = 0 \/ s.fault THEN s
     ELSE IF n = IntMax THEN [s EXCEPT !.fault = TRUE]
     ELSE IF m = 0 THEN s
     ELSE [s EXCEPT !.tags = IF newtag THEN Append(@, [k |-> Local + @[n].k, v |-> table[m].v])
                             ELSE [@ EXCEPT ![n].v = table[m].v]]
Translated(tags, keys, table, newtag) ==
  LET upTo[i \in 0..Len(keys)] == IF i = 0 THEN [tags |-> tags, fault |-> FALSE]
                                  ELSE TranslateKey(upTo[i - 1], keys[i], table, newtag)
  IN upTo[Len(keys)]

\* The main function of del_match_tags: for every tag of the rule one tag is cut out.
DeleteMatch(s, p) ==
  LET n == MatchAttr(s.tags, p)
  IN IF n = 0 \/ s.fault THEN s
     ELSE IF n = IntMax THEN [s EXCEPT !.fault = TRUE]
     ELSE [s EXCEPT !.tags = RemoveAt(@, n)]
Deleted(tags, cond) ==
  LET upTo[i \in 0..Len(cond)] == IF i = 0 THEN [tags |-> tags, fault |-> FALSE]
                                  ELSE DeleteMatch(upTo[i - 1], cond[i])
  IN upTo[Len(cond)]

\* mk_fmt_str(): the values of the keys, 0 if one of them is not there.
Formatted(tags, keys) ==
  LET v(i) == LET n == KeyIndex(tags, keys[i]) IN IF n = 0 THEN 0 ELSE tags[n].v
  IN IF \E i \in DOMAIN keys : v(i) = 0 THEN 0
     ELSE IF Len(keys) = 1 THEN v(1) ELSE 10 * v(1) + v(2)

(***************************************************************************)
(* The actions                                                             *)
(***************************************************************************)
Objects == DOMAIN tag
Present(ids) == ids \cap Objects
Type(o) == IF o < 0 THEN "node" ELSE world.type[o]     \* new objects are nodes

Init ==
  /\ world \in Worlds
  /\ tag = world.tag /\ vis = [o \in DOMAIN world.tag |-> TRUE]
  /\ list = {} /\ last = [op |-> "none", obj |-> 0, force |-> FALSE, keys |-> {}, to |-> {}]
  /\ steps = 0 /\ fault = FALSE

\* A call for an object that the rule's condition matches.
Call(op, o, cond, force, keys, to) ==
  /\ steps < MaxSteps /\ ~fault
  /\ Applies(o, cond)
  /\ steps' = steps + 1
  /\ last' = [op |-> op, obj |-> o, force |-> force, keys |-> keys, to |-> to]
  /\ UNCHANGED world

Edit(op, o, cond, force, tags) ==
  /\ Call(op, o, cond, force, {}, {})
  /\ tag' = [tag EXCEPT ![o] = tags]
  /\ UNCHANGED <<vis, list, fault>>

\* set_tags: all tags of the template are appended. With lastid the template is a
\* random one of several.
SetTags == \E o \in Objects, c \in Conds, t \in Templates : Edit("set_tags", o, c, TRUE, tag[o] \o t)

\* strfmt, random, bearings (of the inner nodes of a way; here for one of them).
StrFmt ==
  \E o \in Objects, c \in Conds, keys \in FmtKeys, add \in {2, 4} :
    LET v == Formatted(tag[o], keys)
    IN Edit("strfmt", o, c, TRUE, IF v = 0 THEN tag[o] ELSE SetFtag(tag[o], add, v))
Random == \E o \in Objects, c \in Conds, v \in 1..2 : Edit("random", o, c, TRUE, SetFtag(tag[o], 1, v))

\* poly_area and dist_median append their tag to a way, whether it is there or not.
Measure ==
  \E o \in Objects, c \in Conds :
    /\ Type(o) = "way"
    /\ Edit("measure", o, c, FALSE, IF Range(world.ref[o]) \subseteq Objects
                                    THEN Append(tag[o], [k |-> MaskKey + 1, v |-> 1]) ELSE tag[o])

\* inherit_tags: up to the ways and relations of the index or down to the nodes
\* and members, of one type only if there is one. Going up, the pointer into the
\* list of parents is not set back: only the first key that o has is copied. The type
\* is ignored if the rule is for ways and goes down.
Own(o, keys) == {k \in Range(keys) : KeyIndex(tag[o], k) # 0}
Copied(o, keys, up) ==
  {k \in Own(o, keys) : up => \E i \in DOMAIN keys : keys[i] = k /\ \A j \in 1..(i - 1) : keys[j] \notin Own(o, keys)}
Heirs(o, up, type) ==
  {d \in Present(IF up THEN (IF o < 0 THEN {} ELSE world.parent[o])
                 ELSE IF Type(o) = "rel" THEN world.mem[o] ELSE Range(world.ref[o])) :
     type = "" \/ Type(d) = type \/ (~up /\ Type(o) = "way")}
Inherit ==
  \E o \in Objects, c \in Conds, keys \in CopyKeys, up, force \in BOOLEAN, type \in {"", "node", "way", "rel"} :
    /\ up => type # "node"
    /\ ~up => Type(o) # "node"
    /\ Call(IF up THEN "inherit_up" ELSE "inherit_down", o, c, force, Own(o, keys), Heirs(o, up, type))
    /\ tag' = [d \in Objects |-> IF d \in Heirs(o, up, type)
                                 THEN Inherited(tag[d], tag[o], keys, Copied(o, keys, up), force) ELSE tag[d]]
    /\ UNCHANGED <<vis, list, fault>>

Translate ==
  \E o \in Objects, c \in Conds, keys \in KeyLists, t \in Templates, newtag \in BOOLEAN :
    LET x == Translated(tag[o], keys, t, newtag)
    IN /\ Call("translate", o, c, ~newtag, {}, {})
       /\ tag' = [tag EXCEPT ![o] = x.tags] /\ fault' = x.fault
       /\ UNCHANGED <<vis, list>>

DelMatchTags ==
  \E o \in Objects, c \in Conds :
    LET x == Deleted(tag[o], c)
    IN /\ Call("del_match_tags", o, c, FALSE, {}, {})
       /\ tag' = [tag EXCEPT ![o] = x.tags] /\ fault' = x.fault
       /\ UNCHANGED <<vis, list>>

\* disable of the object; enable is useful for rules only, as an object that is
\* not visible is never matched. Rules are objects of their own tree.
Disable ==
  \E o \in Objects, c \in Conds :
    /\ Call("disable", o, c, FALSE, {}, {})
    /\ vis' = [vis EXCEPT ![o] = FALSE]
    /\ UNCHANGED <<tag, list, fault>>

\* poly_centroid: a new node with the tags of the closed way; add: in the end one
\* with those of the rule. Its id is the next negative one.
PutNew(tags) ==
  LET new == -Cardinality({x \in Objects : x < 0}) - 1
  IN /\ tag' = [x \in Objects \cup {new} |-> IF x = new THEN <<[k |-> 0, v |-> 1]>> \o tags ELSE tag[x]]
     /\ vis' = [x \in Objects \cup {new} |-> IF x = new THEN TRUE ELSE vis[x]]
     /\ UNCHANGED <<list, fault>>
Centroid ==
  \E o \in Objects, c \in Conds :
    /\ Type(o) = "way" /\ Len(world.ref[o]) >= 4 /\ world.ref[o][1] = world.ref[o][Len(world.ref[o])]
    /\ Range(world.ref[o]) \subseteq Objects
    /\ Call("poly_centroid", o, c, FALSE, {}, {})
    /\ PutNew(tag[o])
Add ==
  \E t \in Templates :
    /\ steps < MaxSteps /\ ~fault /\ steps' = steps + 1
    /\ last' = [op |-> "add", obj |-> 0, force |-> FALSE, keys |-> {}, to |-> {}]
    /\ PutNew(t)
    /\ UNCHANGED world

\* incomplete: the references of an object that have no object; those of a way
\* are written as ways.
Incomplete ==
  \E o \in Objects, c \in Conds :
    /\ Type(o) # "node"
    /\ Call("incomplete", o, c, FALSE, {}, {})
    /\ list' = list \cup {<<Type(o), x>> : x \in (IF Type(o) = "rel" THEN world.mem[o]
                                                        ELSE Range(world.ref[o])) \ Objects}
    /\ UNCHANGED <<tag, vis, fault>>

\* mask: main gathers the nodes, fini rates them: a node that is not masked masks
\* all later ones that are too near to it.
Near(m, n) == LET d == world.pos[m] - world.pos[n] IN d < 2 /\ d > -2
Later(seq, i) == {j \in (i + 1)..Len(seq) : Near(seq[i], seq[j])}
\* Faulty variant: an object hides those before it as well.
MaskedByAll(seq) == UNION {Later(seq, i) : i \in DOMAIN seq}
Masked(seq) ==
  LET upTo[i \in 0..Len(seq)] == IF i = 0 THEN {} ELSE IF i \in upTo[i - 1] THEN upTo[i - 1]
                                 ELSE upTo[i - 1] \cup Later(seq, i)
  IN upTo[Len(seq)]
\* traverse() takes ids as unsigned: negative ones come last, in their order.
Before(m, n) == IF m < 0 THEN n < 0 /\ m < n ELSE n < 0 \/ m < n
InOrder(hit) ==
  [i \in 1..Cardinality(hit) |-> CHOOSE o \in hit : Cardinality({x \in hit : x = o \/ Before(x, o)}) = i]
Mask ==
  \E c \in Conds :
    LET hit == {o \in Objects : Type(o) = "node" /\ Applies(o, c)}
        masked == {InOrder(hit)[i] : i \in Masked(InOrder(hit))}
    IN /\ hit # {} /\ steps < MaxSteps /\ ~fault /\ steps' = steps + 1
       /\ tag' = [o \in Objects |-> IF o \in masked THEN Append(tag[o], [k |-> MaskKey, v |-> 1]) ELSE tag[o]]
       /\ last' = [op |-> "mask", obj |-> 0, force |-> FALSE, keys |-> {}, to |-> hit]
       /\ UNCHANGED <<world, vis, list, fault>>

Next ==
  \/ SetTags \/ StrFmt \/ Random \/ Measure \/ Inherit \/ Translate \/ DelMatchTags
  \/ Disable \/ Centroid \/ Add \/ Incomplete \/ Mask

Spec == Init /\ [][Next]_vars

(***************************************************************************)
(* Properties                                                              *)
(***************************************************************************)
\* No action but del_match_tags takes a tag away or moves it, and a value that
\* is there is only changed by the actions that may overwrite it.
TagsKept ==
  [][\A o \in DOMAIN tag :
       \/ last'.op = "del_match_tags" /\ o = last'.obj /\ Len(tag'[o]) <= Len(tag[o])
       \/ \A i \in DOMAIN tag[o] :
            /\ i \in DOMAIN tag'[o] /\ tag'[o][i].k = tag[o][i].k
            /\ tag'[o][i].v # tag[o][i].v => last'.force /\ (o = last'.obj \/ o \in last'.to)]_vars

\* The documented meaning of the match operations (doc/smrender.tex:566-620) for
\* an exclusion of a key or a value alone, and for all others.
Matches(tags, p) ==
  LET X(x, q) == q.type = "any" \/ (IF q.inv THEN ~Hits(x, q) ELSE Hits(x, q))
  IN CASE p.k.not -> \A i \in DOMAIN tags : ~X(tags[i].k, p.k)
       [] ~p.k.not /\ p.v.not -> \A i \in DOMAIN tags : ~X(tags[i].v, p.v)
       [] OTHER -> \E i \in DOMAIN tags : X(tags[i].k, p.k) /\ X(tags[i].v, p.v)
MatchMeaning ==
  \A o \in Objects : \A c \in Conds : \A i \in DOMAIN c :
    (c[i].k.not => c[i].v.type = "any") /\ (c[i].v.not => c[i].k.type = "any") =>
      /\ Matches(tag[o], c[i]) <=> MatchAttr(tag[o], c[i]) # 0
      /\ MatchAttr(tag[o], c[i]) \in DOMAIN tag[o] \cup {0, IntMax}

\* Tags go down to all the nodes or members: all keys are there and have the
\* value of the parent if it was new or with force.
Value(tags, k) == tags[KeyIndex(tags, k)].v
InheritsAll(op) ==
  last'.op = op /\ steps' # steps =>
    \A d \in last'.to \ {last'.obj}, k \in last'.keys :
      /\ KeyIndex(tag'[d], k) # 0
      /\ Value(tag'[d], k) = IF last'.force \/ KeyIndex(tag[d], k) = 0 THEN Value(tag[last'.obj], k)
                             ELSE Value(tag[d], k)
InheritsDown == [][InheritsAll("inherit_down")]_vars
\* The same upwards ("a list of one or more key parameters", doc/smrender.tex:1458).
InheritsUp == [][InheritsAll("inherit_up")]_vars

\* What mask leaves is spread: no two nodes that are not masked by it are near to
\* each other, and a node is masked only if one that is not masked is near and comes
\* before it in the tree.
MaskSpread ==
  [][last'.op = "mask" /\ steps' # steps =>
       LET left == {o \in last'.to : tag'[o] = tag[o]}
       IN /\ \A m, n \in left : m # n => ~Near(m, n)
          /\ \A n \in last'.to \ left : \E m \in left : Before(m, n) /\ Near(m, n)]_vars
=============================================================================
