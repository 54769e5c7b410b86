------------------------------- MODULE OsmFile -------------------------------
(***************************************************************************)
(* Data into the program and out of it: the reader of smloadosm.c on top of *)
(* XmlStream, the actions out and diff of smfunc.c, and the writer of       *)
(* smosmout.c. A run reads the rules, the file that a diff rule has as      *)
(* infile (its ini function) and the data, applies the out and diff rules   *)
(* one after the other, and ends; the next run may load a file that was     *)
(* written. Of the attributes of an object there are the id, the position   *)
(* (in thirds of the last digit that is written), the visibility and the    *)
(* changeset; version, user and time are left out.                          *)
(*                                                                         *)
(* Trees hold pointers, so the objects are in a heap: what renumber does to *)
(* an object is seen through all trees. Ids are taken modulo 2^IntBits where *)
(* the code puts them into an int.                                         *)
(***************************************************************************)
EXTENDS XmlStream

CONSTANTS
  Worlds,       \* records of the files, the rules, and the options -n (pos), -N (off), ~-m (mmap)
  MinId,        \* MIN_ID
  UniqueStart,  \* UNIQUE_ID_START
  IntBits,      \* width of int
  MaxMatch,     \* bound of the number of objects a rule matches, if not all
  MaxNew,       \* bound of the number of objects made by rules
  MaxRuns       \* bound of the number of runs

VARIABLES
  world,      \* what this run is started with
  phase,      \* "rulefile", "infile", "load", "rules", "done"
  ctl,        \* the hpx control structure
  rd,         \* variables of read_osm_obj(): slots, slot, nsub, o
  nid,        \* its static id for objects without one
  heap,       \* the objects
  tree,       \* the main tree: type and id to an index into heap
  rtree,      \* that of the rules
  itree,      \* that of the infile
  ds,         \* statistics: min and max id for each type
  uid,        \* unid_ and uwid_
  oh,         \* the output handles by file name
  rule,       \* index of the rule that is applied
  file,       \* the files written: text and history
  hist,       \* history: elements read, errors, strings overwritten, renumberings
  runs

vars == <<world, phase, ctl, rd, nid, heap, tree, rtree, itree, ds, uid, oh, rule, file, hist, runs>>

Types == {"node", "way", "relation"}
Garbage == "garbage"
\* An open object, or none.
NoObj == [type |-> "none", id |-> 0, pos |-> 0, vis |-> TRUE, cs |-> 0]
\* Tags of the list tlist: 0 is its own, i + 1 that of subtag[i]. A fresh one is
\* not initialised.
Fresh == [type |-> "ill", name |-> Garbage, attr |-> <<>>]
MaxSlot == 8
RdInit == [slots |-> [i \in 0..MaxSlot |-> Fresh], slot |-> 0, nsub |-> 0, o |-> NoObj]

(***************************************************************************)
(* Reading                                                                 *)
(***************************************************************************)
Attr(a, name, default) == IF name \in DOMAIN a THEN a[name] ELSE default

\* proc_osm_node(): the attributes of an opening or single tag. An object without
\* an id (or 0) gets the next one of nid.
OpenObj(p) == [type |-> p.name,
               id |-> IF Attr(p.attr, "id", 0) = 0 THEN nid ELSE p.attr.id,
               pos |-> IF p.name = "node" THEN Attr(p.attr, "pos", 0) ELSE 0,
               vis |-> Attr(p.attr, "vis", TRUE) /\ ~Attr(p.attr, "delete", FALSE), cs |-> Attr(p.attr, "cs", 0)]

Content(o, tags, refs, mem) == [type |-> o.type, id |-> o.id, pos |-> o.pos, vis |-> o.vis, cs |-> o.cs,
                                tags |-> tags, refs |-> refs, mem |-> mem]

\* The close branch of read_osm_obj(): the tags gathered in the first nsub slots.
\* Those that do not fit the type of the object, have no ref, or (a member) no
\* known type are left out; a tag's missing key or value is empty.
Children(name) == SelectSeq([i \in 1..rd.nsub |-> rd.slots[i]], LAMBDA p : p.name = name)
Closed(o) ==
  LET tag == Children("tag")
      nd == SelectSeq(Children("nd"), LAMBDA p : "ref" \in DOMAIN p.attr)
      mb == SelectSeq(Children("member"), LAMBDA p : Attr(p.attr, "type", "") \in Types)
  IN Content(o, [i \in DOMAIN tag |-> [k |-> Attr(tag[i].attr, "k", ""), v |-> Attr(tag[i].attr, "v", "")]],
             IF o.type = "way" THEN [i \in DOMAIN nd |-> nd[i].attr.ref] ELSE <<>>,
             IF o.type = "relation"
             THEN [i \in DOMAIN mb |-> [type |-> mb[i].attr.type, id |-> Attr(mb[i].attr, "ref", 0),
                                        role |-> Attr(mb[i].attr, "role", "")]]
             ELSE <<>>)

\* One element in the loop of read_osm_obj(): [rd, obj, new], obj is <<>> as long as
\* the function does not return an object, new says that nid was used.
ReadElem(e) ==
  LET p == Processed(e, rd.slots[rd.slot])
      put == [rd EXCEPT !.slots[rd.slot] = p]
      new == p.name \in Types /\ p.type \in {"open", "single"} /\ Attr(p.attr, "id", 0) = 0
      none == [rd |-> put, obj |-> <<>>, new |-> FALSE]
  IN CASE p.type = "ill" -> none
       [] p.type = "open" /\ p.name \in Types ->
            [rd |-> [put EXCEPT !.o = OpenObj(p), !.slot = rd.nsub + 1], obj |-> <<>>, new |-> new]
       [] p.type = "single" /\ p.name \in Types ->
            [rd |-> [put EXCEPT !.o = NoObj, !.nsub = 0, !.slot = 0], new |-> new,
             obj |-> <<Content(OpenObj(p), <<>>, <<>>, <<>>)>>]
       [] p.type = "close" /\ p.name \in Types ->
            IF rd.o.type = "none" THEN none
            ELSE [rd |-> [put EXCEPT !.o = NoObj, !.nsub = 0, !.slot = 0], obj |-> <<Closed(rd.o)>>, new |-> FALSE]
       [] p.type # "ill" /\ p.name \in {"tag", "nd", "member"} /\ rd.o.type # "none" ->
            [none EXCEPT !.rd.nsub = rd.nsub + 1, !.rd.slot = rd.nsub + 2]
       [] OTHER -> none

\* The filter of read_osm_file(): nodes outside of the box, references and members
\* that are not in the tree (so far), and objects that are left without any.
Inside(pos) == pos \in 0..29
Filtered(o) ==
  LET refs == SelectSeq(o.refs, LAMBDA r : <<"node", r>> \in DOMAIN tree)
      mem == SelectSeq(o.mem, LAMBDA m : <<m.type, m.id>> \in DOMAIN tree)
  IN IF o.type = "node" THEN (IF Inside(o.pos) THEN <<o>> ELSE <<>>)
     ELSE IF refs = <<>> /\ mem = <<>> THEN <<>> ELSE <<[o EXCEPT !.refs = refs, !.mem = mem]>>

\* open_osm_source(): of a directory the files in the order of their names, one
\* behind the other in a temporary file.
OpenOsmSource(files) ==
  FlattenSeq([n \in 1..Cardinality(files) |->
    (CHOOSE f \in files : Cardinality({g \in files : g.name < f.name}) = n - 1).text])
\* The rules are read with open_osm_source(), the others are single files, the
\* infile always mapped into memory, the data unless there is option -m.
Text == CASE phase = "rulefile" -> OpenOsmSource(world.rfiles)
          [] phase = "infile" -> world.infile
          [] OTHER -> world.text
DataCtl(w) == CtlInit(IF w.mmap THEN "mmap" ELSE "read", w.text)
Min2(a, b) == IF a < b THEN a ELSE b
Max2(a, b) == IF a > b THEN a ELSE b
UpdateStats(o) == [ds EXCEPT ![o.type] = IF @.max < @.min THEN [min |-> o.id, max |-> o.id]
                                         ELSE [min |-> Min2(@.min, o.id), max |-> Max2(@.max, o.id)]]
Put(t, key, i) == [k \in DOMAIN t \cup {key} |-> IF k = key THEN i ELSE t[k]]

\* An element is taken and, if it completes an object, that is put into the tree in
\* place of one with the same id, which is freed.
PutKeepsFirst(t, key, i) == IF key \in DOMAIN t THEN t ELSE Put(t, key, i)
PutNode(t, key, i) == Put(t, key, i)
Elem ==
  /\ phase \in {"rulefile", "infile", "load"} /\ Ready(ctl)
  /\ LET r == Proc(ctl)
         x == IF r.elem = <<>> THEN [rd |-> rd, obj |-> <<>>, new |-> FALSE] ELSE ReadElem(r.elem)
         kept == IF x.obj = <<>> THEN <<>> ELSE IF phase = "load" /\ world.box THEN Filtered(x.obj[1]) ELSE x.obj
     IN /\ ctl' = Advance(ctl, r)
        /\ rd' = x.rd /\ nid' = IF x.new THEN nid + 1 ELSE nid
        /\ hist' = [hist EXCEPT !.elems = IF ctl.in_tag THEN Append(@, r.elem) ELSE @]
        /\ IF kept = <<>> THEN UNCHANGED <<heap, tree, rtree, itree, ds>>
           ELSE LET o == kept[1]
                    In(t, ph) == IF phase = ph THEN PutNode(t, <<o.type, o.id>>, Len(heap) + 1) ELSE t
                IN /\ heap' = Append(heap, o)
                   /\ tree' = In(tree, "load") /\ rtree' = In(rtree, "rulefile") /\ itree' = In(itree, "infile")
                   /\ ds' = IF phase = "infile" THEN ds ELSE UpdateStats(o)
  /\ UNCHANGED <<world, phase, uid, oh, rule, file, runs>>

\* The buffer is filled. A file is read as a whole unless read() delivers less, as
\* it does beyond 2 GB; then the strings of the tags, which point into the buffer,
\* are overwritten. What they show afterwards is not followed here. At the end
\* of the file a rest of blanks is moved to the beginning, where no tags are.
Loaded == CASE phase = "rulefile" -> rtree [] phase = "infile" -> itree [] OTHER -> tree
Spoilt(p) == [p EXCEPT !.name = IF @ = "text" THEN @ ELSE Garbage, !.attr = <<>>]
Refill ==
  /\ phase \in {"rulefile", "infile", "load"} /\ MustFill(ctl)
  /\ \E k \in 0..(Len(Text) - ctl.got) :
       /\ k = 0 => ctl.mode # "read" \/ ctl.got = Len(Text)
       /\ ~(world.short /\ phase = "load") => ctl.mode # "read" \/ k = Len(Text) - ctl.got
       /\ ctl' = Fill(ctl, Text, k)
       /\ IF Moves(ctl) /\ (k > 0 \/ SelectInSeq(Rest(ctl), LAMBDA t : t.k = "lt") # 0)
          THEN /\ rd' = [rd EXCEPT !.slots = [i \in DOMAIN @ |-> Spoilt(@[i])]]
               /\ heap' = [i \in DOMAIN heap |-> IF i \notin Range(Loaded) THEN heap[i]
                            ELSE [heap[i] EXCEPT !.tags = [j \in DOMAIN @ |-> [k |-> Garbage, v |-> Garbage]]]]
               /\ hist' = [hist EXCEPT !.moved = TRUE]
          ELSE UNCHANGED <<rd, heap, hist>>
  /\ UNCHANGED <<world, phase, nid, tree, rtree, itree, ds, uid, oh, rule, file, runs>>

\* fin_stats(): the masks for option -n and the first ids for new objects. min
\* and max of a type without objects are taken over by nothing here.
ToInt(n) == LET m == n % 2^IntBits IN IF m < 2^(IntBits - 1) THEN m ELSE m - 2^IntBits
Bits(n) == LET a == IF n < 0 THEN -n ELSE n IN CHOOSE i \in 0..IntBits : a <= 2^i /\ (i = 0 \/ a > 2^(i - 1))
Mask(s) == IF s.max < s.min THEN 0
           ELSE 2^Bits(ToInt(IF s.max >= 0 /\ s.min >= 0 THEN s.max ELSE IF s.max < 0 THEN s.min ELSE s.max - s.min)) - 1
FinStats == [t \in {"node", "way"} |-> IF ds[t].max < ds[t].min THEN uid[t] ELSE Min2(uid[t], ds[t].min - 1)]
NoStats == [t \in Types |-> [min |-> 1, max |-> 0]]
\* strip_ways(): ways lose the references to nodes that are not in the data.
StripWays ==
  LET ways == {tree[k] : k \in {x \in DOMAIN tree : x[1] = "way"}}
  IN [i \in DOMAIN heap |->
        IF i \in ways THEN [heap[i] EXCEPT !.refs = SelectSeq(@, LAMBDA r : <<"node", r>> \in DOMAIN tree)] ELSE heap[i]]
\* Reading ends with the file, with an error (which is logged), or an object that
\* is not closed. The rules come first, then the infile and the data; without a
\* node the program ends.
ReadEnd ==
  /\ phase \in {"rulefile", "infile", "load"}
  /\ \/ AtEnd(ctl) /\ hist' = [hist EXCEPT !.elems = IF phase = "load" THEN @ ELSE <<>>,
                                              !.cut = IF GivesUp(ctl) THEN @ \cup {phase} ELSE @]
     \/ phase = "load" /\ MustFill(ctl) /\ ctl.mode = "read" /\ world.short /\ hist' = [hist EXCEPT !.err = TRUE]
  /\ uid' = IF phase = "infile" THEN uid ELSE FinStats
  /\ IF phase = "load"
     THEN /\ phase' = IF ds.node = NoStats.node THEN "done" ELSE "rules"
          /\ heap' = IF phase' = "done" THEN heap ELSE StripWays
          /\ UNCHANGED <<ctl, ds>>
     ELSE /\ phase' = IF phase = "rulefile" /\ world.infile # <<>> THEN "infile" ELSE "load"
          /\ ctl' = IF phase' = "infile" THEN CtlInit("mmap", world.infile) ELSE DataCtl(world)
          /\ ds' = NoStats /\ UNCHANGED heap
  /\ rd' = RdInit
  /\ UNCHANGED <<world, nid, tree, rtree, itree, oh, rule, file, runs>>

(***************************************************************************)
(* Writing                                                                 *)
(***************************************************************************)
\* out_id(): with option -n ids that are not positive get a bit more than the
\* largest id of the data has; option -N adds an offset to all.
BitAnd(n, mask) == n % (mask + 1)      \* for a mask of ones
OutId(id, type) == world.off + (IF id > 0 \/ ~world.pos THEN id ELSE BitAnd(id, Mask(ds[type])) + Mask(ds[type]) + 1)

El(type, name, attr) == <<Kind("lt"), [k |-> "el", x |-> [type |-> type, name |-> name, attr |-> attr, nattr |-> 2]], Kind("gt"), Kind("nl")>>
\* bs_safe_put_xml(): a text stands for one of the signs it has.
SafePut(s) == CASE s = "<" -> "&lt;" [] s = "\"" -> "&quot;" [] OTHER -> s
SafeTag(t) == [k |-> SafePut(t.k), v |-> SafePut(t.v)]
\* Positions are written with seven digits.
Rounded(pos) == 3 * ((pos + 1) \div 3)
\* print_onode(): a node without tags is a single tag. A member that is a
\* relation is written as a way, the changeset is not written.
PrintOnode(o) ==
  LET attr == IF o.type = "node" THEN [id |-> OutId(o.id, o.type), vis |-> o.vis, pos |-> Rounded(o.pos)]
              ELSE [id |-> OutId(o.id, o.type), vis |-> o.vis]
      tags == FlattenSeq([i \in DOMAIN o.tags |-> El("single", "tag", SafeTag(o.tags[i]))])
      refs == FlattenSeq([i \in DOMAIN o.refs |-> El("single", "nd", [ref |-> OutId(o.refs[i], "node")])])
      mem == FlattenSeq([i \in DOMAIN o.mem |->
               El("single", "member", [type |-> IF o.mem[i].type = "node" THEN "node" ELSE "way",
                                       ref |-> OutId(o.mem[i].id, o.mem[i].type), role |-> o.mem[i].role])])
  IN IF o.type = "node" /\ o.tags = <<>> THEN El("single", "node", attr)
     ELSE El("open", o.type, attr) \o tags \o refs \o mem \o El("close", o.type, <<>>)

\* The order of traverse(): negative ids come last.
Before(g, h) == IF (g >= 0) = (h >= 0) THEN g < h ELSE g >= 0
Keys(t, type) == {k \in DOMAIN t : k[1] = type}
InOrder(t, type) ==
  LET K == Keys(t, type)
  IN [n \in 1..Cardinality(K) |-> CHOOSE k \in K : Cardinality({j \in K : Before(j[2], k[2])}) = n - 1]

SaveOsm(h, t) ==
  LET all == [type \in Types |-> FlattenSeq([n \in DOMAIN InOrder(t, type) |-> PrintOnode(h[t[InOrder(t, type)[n]]])])]
  IN <<Kind("lt"), Kind("instr"), Kind("gt"), Kind("nl")>> \o El("open", "osm", <<>>)
     \o all["node"] \o all["way"] \o all["relation"] \o El("close", "osm", <<>>)

\* out0(): the object, the members it has in the main tree with what they need,
\* and the nodes of ways. Cyclic relations would not end.
RECURSIVE OutAll(_, _)
OutAll(t, i) ==
  LET o == heap[i]
      mem == {tree[<<m.type, m.id>>] : m \in {x \in Range(o.mem) : <<x.type, x.id>> \in DOMAIN tree}}
      ref == {r \in Range(o.refs) : <<"node", r>> \in DOMAIN tree}
      parts == UNION {DOMAIN OutAll(<<>>, j) : j \in mem} \cup {<<"node", r>> : r \in ref}
  IN [k \in DOMAIN t \cup parts \cup {<<o.type, o.id>>} |->
        IF k = <<o.type, o.id>> THEN i ELSE IF k \in parts THEN tree[k] ELSE t[k]]
OutSeq(t, is) == LET all[n \in 0..Len(is)] == IF n = 0 THEN t ELSE OutAll(all[n - 1], is[n]) IN all[Len(is)]

\* renumber_obj() for one object: the id in the first pass only, references of ways
\* at once, members in the second pass. They are looked up in the tree, whose keys
\* stay what they were.
New(h, t, type, id) == IF <<type, id>> \in DOMAIN t THEN h[t[<<type, id>>]].id ELSE id
\* Faulty variant: ids and references are changed in one pass.
RenumberOnePass(h, t, k, n, pass) ==
  [h EXCEPT ![t[k]].id = n,
            ![t[k]].refs = [j \in DOMAIN @ |-> New(h, t, "node", @[j])],
            ![t[k]].mem = [j \in DOMAIN @ |-> IF pass = 1 THEN @[j] ELSE [@[j] EXCEPT !.id = New(h, t, h[t[k]].mem[j].type, @)]]]
RenumberObj(h, t, k, n, pass) ==
  IF pass = 1 THEN [h EXCEPT ![t[k]].mem = [j \in DOMAIN @ |-> [@[j] EXCEPT !.id = New(h, t, h[t[k]].mem[j].type, @)]]]
  ELSE [h EXCEPT ![t[k]].id = n, ![t[k]].refs = [j \in DOMAIN @ |-> New(h, t, "node", @[j])]]
RenumberType(h, t, type, pass) ==
  LET s == InOrder(t, type)
      upTo[n \in 0..Len(s)] == IF n = 0 THEN h ELSE RenumberObj(upTo[n - 1], t, s[n], n, pass)
  IN upTo[Len(s)]
Renumber(h, t) ==
  RenumberType(RenumberType(RenumberType(RenumberType(h, t, "node", 0), t, "way", 0), t, "relation", 0), t, "relation", 1)

(***************************************************************************)
(* Rules                                                                   *)
(***************************************************************************)
NoFile == [text |-> <<>>, tree |-> <<>>, old |-> <<>>, new |-> <<>>, renum |-> FALSE, first |-> FALSE]
\* act_out_ini() of all rules: those with the same file share a handle, the first
\* one decides on the renumbering.
Handles(rules) ==
  [f \in {rules[i].file : i \in DOMAIN rules} |->
     LET mine == {i \in DOMAIN rules : rules[i].file = f}
         first == CHOOSE i \in mine : \A j \in mine : i <= j
     IN [cnt |-> Cardinality(mine), renum |-> rules[first].renum, tree |-> <<>>]]

NoHist == [elems |-> <<>>, err |-> FALSE, moved |-> FALSE, cut |-> {}, renum |-> 0, new |-> 0]
InitRun(w) ==
  /\ phase = "rulefile" /\ ctl = CtlInit("read", OpenOsmSource(w.rfiles))
  /\ rd = RdInit /\ nid = MinId + 1 /\ heap = <<>> /\ tree = <<>> /\ rtree = <<>> /\ itree = <<>>
  /\ ds = NoStats /\ uid = [t \in {"node", "way"} |-> UniqueStart]
  /\ oh = Handles(w.rules) /\ rule = 1 /\ hist = NoHist
Init == world \in Worlds /\ InitRun(world) /\ file = [f \in {"a", "b"} |-> NoFile] /\ runs = 1

\* A rule with an action that puts a new object into the data.
AddNode ==
  /\ phase = "rules" /\ rule <= Len(world.rules) /\ hist.new < MaxNew
  /\ heap' = Append(heap, Content([NoObj EXCEPT !.type = "node", !.id = uid.node], <<>>, <<>>, <<>>))
  /\ tree' = Put(tree, <<"node", uid.node>>, Len(heap) + 1)
  /\ uid' = [uid EXCEPT !.node = @ - 1]
  /\ hist' = [hist EXCEPT !.new = @ + 1]
  /\ UNCHANGED <<world, phase, ctl, rd, nid, rtree, itree, ds, oh, rule, file, runs>>

\* act_out_fini(): the last rule of a file renumbers, writes and forgets the tree.
\* All but text is history, first says that no file was renumbered before.
FiniOut(f, t) ==
  IF oh[f].cnt > 1
  THEN /\ oh' = [oh EXCEPT ![f].cnt = @ - 1, ![f].tree = t]
       /\ UNCHANGED <<heap, file, hist>>
  ELSE LET h == IF oh[f].renum THEN Renumber(heap, t) ELSE heap
       IN /\ heap' = h
          /\ file' = [file EXCEPT ![f] = [text |-> SaveOsm(h, t), tree |-> t, old |-> heap, new |-> h,
                                          renum |-> oh[f].renum, first |-> hist.renum = 0]]
          /\ hist' = [hist EXCEPT !.renum = @ + (IF oh[f].renum THEN 1 ELSE 0)]
          /\ oh' = [oh EXCEPT ![f] = [cnt |-> 0, renum |-> FALSE, tree |-> <<>>]]

\* One rule. out: act_out_main() for the objects that match, in the order of the
\* traversal, then act_out_fini(). diff: act_diff_fini() takes the objects of the
\* infile whose type and id the data does not have.
Numbers(t, K) == FlattenSeq([n \in 1..3 |-> LET type == <<"node", "way", "relation">>[n]
                                                 s == SelectSeq(InOrder(t, type), LAMBDA k : k \in K)
                                             IN [m \in DOMAIN s |-> t[s[m]]]])
Out ==
  /\ phase = "rules" /\ rule <= Len(world.rules) /\ ~world.rules[rule].diff
  /\ \E K \in SUBSET DOMAIN tree :
       /\ Cardinality(K) <= MaxMatch \/ K = DOMAIN tree
       /\ LET f == world.rules[rule].file IN FiniOut(f, OutSeq(oh[f].tree, Numbers(tree, K)))
  /\ rule' = rule + 1
  /\ UNCHANGED <<world, phase, ctl, rd, nid, tree, rtree, itree, ds, uid, runs>>
DiffKeys == DOMAIN itree \ DOMAIN tree
Diff ==
  /\ phase = "rules" /\ rule <= Len(world.rules) /\ world.rules[rule].diff
  /\ LET f == world.rules[rule].file IN FiniOut(f, OutSeq(oh[f].tree, Numbers(itree, DiffKeys)))
  /\ rule' = rule + 1
  /\ UNCHANGED <<world, phase, ctl, rd, nid, tree, rtree, itree, ds, uid, runs>>

\* The next run loads a file that was written; objs is history, what it is to find:
\* the objects, but members that are relations have become ways, the signs " and <
\* in tags are escaped (the reader does not undo it), positions are rounded and
\* changesets gone.
WrittenObjs(f) ==
  LET ks == InOrder(f.tree, "node") \o InOrder(f.tree, "way") \o InOrder(f.tree, "relation")
  IN [n \in DOMAIN ks |->
        LET o == f.new[f.tree[ks[n]]]
        IN [o EXCEPT !.id = OutId(@, o.type), !.pos = Rounded(@), !.cs = 0,
                     !.tags = [j \in DOMAIN @ |-> SafeTag(@[j])], !.refs = [j \in DOMAIN @ |-> OutId(@[j], "node")],
                     !.mem = [j \in DOMAIN @ |-> [@[j] EXCEPT !.type = IF @ = "node" THEN "node" ELSE "way",
                                                            !.id = OutId(@, o.mem[j].type)]]]]
NextRun ==
  /\ phase = "rules" /\ rule > Len(world.rules) /\ runs < MaxRuns /\ runs' = runs + 1
  /\ \E f \in {"a", "b"} :
       /\ file[f].text # <<>>
       /\ world' = [world EXCEPT !.text = file[f].text, !.objs = WrittenObjs(file[f]), !.infile = <<>>,
                                 !.box = FALSE, !.short = FALSE, !.mmap = ~@, !.rules = <<>>]
  /\ phase' = "rulefile" /\ ctl' = CtlInit("read", OpenOsmSource(world.rfiles))
  /\ rd' = RdInit /\ nid' = MinId + 1 /\ heap' = <<>> /\ tree' = <<>> /\ rtree' = <<>> /\ itree' = <<>>
  /\ ds' = NoStats /\ uid' = [t \in {"node", "way"} |-> UniqueStart]
  /\ oh' = <<>> /\ rule' = 1 /\ file' = [f \in {"a", "b"} |-> NoFile] /\ hist' = NoHist

Next == Refill \/ Elem \/ ReadEnd \/ AddNode \/ Out \/ Diff \/ NextRun
Spec == Init /\ [][Next]_vars

(***************************************************************************)
(* Properties                                                              *)
(***************************************************************************)
\* However the file comes into the buffer, the tags handed out by hpx_get_eleml()
\* are those of the text, in order, up to an error, and all of them unless blanks
\* that are half or more of what is left made it give up. (Texts may differ:
\* blanks between the two tags of a pair are kept if both are in the buffer.)
StreamExact ==
  /\ IsPrefix(hist.elems, Elements(Text))
  /\ phase = "rules" /\ ~hist.err /\ "load" \notin hist.cut => hist.elems = Elements(Text)

\* Loading gives the objects of the file: the last one of each id, with the filter
\* what lies in the box and the references to what came before, and of the
\* references of ways those to nodes of the data. This holds for the files that
\* the program wrote, too, for what print_onode() writes of an object (see
\* WrittenObjs). The rules are those of the files of the directory. A read that
\* overwrites strings, fails or gives up is excepted.
Kept(o, have) == IF o.type = "node" THEN Inside(o.pos)
                 ELSE \/ \E r \in Range(o.refs) : <<"node", r>> \in have
                      \/ \E m \in Range(o.mem) : <<m.type, m.id>> \in have
Have(objs, n) == LET have[i \in 0..n] == IF i = 0 THEN {} ELSE
                       have[i - 1] \cup (IF ~world.box \/ Kept(objs[i], have[i - 1]) THEN {<<objs[i].type, objs[i].id>>} ELSE {})
                 IN have[n]
Meant(objs, k) ==
  LET same == {i \in DOMAIN objs : <<objs[i].type, objs[i].id>> = k /\ k \in Have(objs, i)
                                    /\ (world.box => Kept(objs[i], Have(objs, i - 1)))}
      n == CHOOSE i \in same : \A j \in same : j <= i
      have == Have(objs, n - 1)
  IN IF ~world.box THEN [objs[n] EXCEPT !.refs = SelectSeq(@, LAMBDA r : <<"node", r>> \in Have(objs, Len(objs)))]
     ELSE [objs[n] EXCEPT !.refs = SelectSeq(@, LAMBDA r : <<"node", r>> \in have),
                          !.mem = SelectSeq(@, LAMBDA m : <<m.type, m.id>> \in have)]
ObjectsExact ==
  phase = "rules" /\ rule = 1 /\ hist.new = 0 /\ ~hist.moved /\ ~hist.err /\ hist.cut = {} =>
    /\ DOMAIN tree = Have(world.objs, Len(world.objs))
    /\ \A k \in DOMAIN tree : heap[tree[k]] = Meant(world.objs, k)
    /\ DOMAIN rtree = {<<o.type, o.id>> : o \in Range(world.robjs)}
    /\ \A k \in DOMAIN rtree : heap[rtree[k]] = world.robjs[SelectLastInSeq(world.robjs, LAMBDA o : <<o.type, o.id>> = k)]

\* A file written before any other was renumbered is consistent: every object of
\* the data that an object in it refers to is in it, references name the object
\* they named before, ids are distinct, and a renumbered file has those from 1 on.
FileConsistent ==
  \A f \in DOMAIN file : file[f].first =>
    LET x == file[f]
        Same(k, id) == k \in DOMAIN x.tree => x.new[x.tree[k]].id = id
    IN /\ \A k \in DOMAIN x.tree :
            LET old == x.old[x.tree[k]]
                new == x.new[x.tree[k]]
            IN /\ \A j \in DOMAIN old.refs : Same(<<"node", old.refs[j]>>, new.refs[j])
               /\ \A j \in DOMAIN old.mem : Same(<<old.mem[j].type, old.mem[j].id>>, new.mem[j].id)
               /\ \A r \in Range(old.refs) : <<"node", r>> \in DOMAIN tree => <<"node", r>> \in DOMAIN x.tree
               /\ \A m \in Range(old.mem) : <<m.type, m.id>> \in DOMAIN tree => <<m.type, m.id>> \in DOMAIN x.tree
       /\ \A type \in Types :
            LET ids == {x.new[x.tree[k]].id : k \in Keys(x.tree, type)}
            IN /\ Cardinality(ids) = Cardinality(Keys(x.tree, type))
               /\ x.renum => ids = 1..Cardinality(ids)

\* Option -n: the ids written are distinct, too ("all negative ids are output as
\* positive values", doc/smrender.tex:406-408).
OutIdsDistinct ==
  phase = "rules" /\ hist.renum = 0 =>
    \A f \in DOMAIN file : \A g, k \in DOMAIN file[f].tree :
      g[1] = k[1] /\ OutId(g[2], g[1]) = OutId(k[2], k[1]) => g = k
=============================================================================
