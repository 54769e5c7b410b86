------------------------------ MODULE MCOsmFile ------------------------------
EXTENDS OsmFile
Obj(type, id, pos, tags, refs, mem) ==
  [type |-> type, id |-> id, pos |-> pos, vis |-> TRUE, cs |-> 0, tags |-> tags, refs |-> refs, mem |-> mem]
Node(id, pos) == Obj("node", id, pos, <<>>, <<>>, <<>>)
Tagged(id, pos) == Obj("node", id, pos, <<[k |-> "x", v |-> "<"]>>, <<>>, <<>>)
Way(id, refs) == Obj("way", id, 0, <<[k |-> "w", v |-> "y"], [k |-> "z", v |-> "y"]>>, refs, <<>>)
M(type, id, role) == [type |-> type, id |-> id, role |-> role]
Rel(id, mem) == Obj("relation", id, 0, <<>>, <<>>, mem)

\* A text for objects: what print_onode() makes of them, with comments, CDATA,
\* quoted signs, unknown elements and texts in between.
Quoted == <<Kind("lt"), [k |-> "el", x |-> [type |-> "single", name |-> "bounds", attr |-> <<>>, nattr |-> 2]],
            Kind("quot"), Kind("gt"), Kind("quot"), Kind("gt"), Kind("blank")>>
Comment == <<Kind("blank"), Kind("lt"), Kind("com"), Kind("word"), Kind("word"), Kind("gt"), Kind("apos"), Kind("cend")>>
Cdata == <<Kind("word"), Kind("lt"), Kind("cdata"), Kind("word"), Kind("lt"), Kind("gt"), Kind("dend")>>
DocType == <<Kind("lt"), Kind("doctype"), Kind("blank"), Kind("open"), Kind("lt"), Kind("gt"), Kind("close"), Kind("gt")>>
Plain(objs) == FlattenSeq([i \in DOMAIN objs |->
   LET o == objs[i]
       attr == [id |-> o.id, vis |-> TRUE, pos |-> o.pos, cs |-> o.cs]
   IN IF o.tags \o o.refs \o o.mem = <<>> THEN El("single", o.type, attr)
      ELSE El("open", o.type, attr)
           \o FlattenSeq([j \in DOMAIN o.tags |-> El("single", "tag", o.tags[j])])
           \o FlattenSeq([j \in DOMAIN o.refs |-> El("single", "nd", [ref |-> o.refs[j]])])
           \o FlattenSeq([j \in DOMAIN o.mem |-> El("single", "member", [type |-> o.mem[j].type, ref |-> o.mem[j].id, role |-> o.mem[j].role])])
           \o El("close", o.type, <<>>)])

\* Rules in two files of a directory, one of them without an id.
Rules == <<Tagged(1, 0), Tagged(-98, 0), Obj("way", 1, 0, <<[k |-> "w", v |-> "y"]>>, <<>>, <<>>), Node(1, 0)>>
RuleFiles == {[name |-> 2, text |-> Plain(SubSeq(Rules, 3, 4))], [name |-> 1, text |-> Plain(<<Rules[1], Tagged(0, 0)>>)]}
W(objs, text, box, mmap, infile, rules) ==
  [objs |-> objs, text |-> text, rfiles |-> RuleFiles, robjs |-> Rules, box |-> box, mmap |-> mmap, short |-> FALSE,
   pos |-> FALSE, off |-> 0, infile |-> infile, rules |-> rules]
R(f, renum, diff) == [file |-> f, renum |-> renum, diff |-> diff]
S1 == <<[Tagged(5, 4) EXCEPT !.cs = 7], Node(2, 6), Way(3, <<5, 2, 7>>)>>
S2 == <<Node(1, 3), Node(4, 60), Tagged(1, 6), Way(2, <<4, 1>>), Rel(6, <<M("node", 4, "r"), M("way", 2, ""), M("relation", 9, "")>>), Way(1, <<4>>), Rel(9, <<M("node", 1, "r")>>)>>
S3 == <<Node(6, 3), Node(-3, 6), Way(9, <<-3, 6, -3, 8>>), Rel(8, <<M("way", 9, "s"), M("relation", 7, ""), M("node", 5, "")>>), Rel(7, <<M("node", 6, "r")>>)>>
I3 == <<Node(5, 9), Node(6, 12), Way(4, <<6, 5>>)>>
\* Objects without an id in the file, written with -n and -N.
S4 == <<Node(-97, 3), Way(-96, <<6>>), Tagged(6, 6)>>
T4 == <<Node(0, 3), Way(0, <<6>>), Tagged(6, 6)>>
\* Blanks before the tag that closes the last way.
S5 == <<Node(2, 6), Way(3, <<2>>)>>
T5 == LET t == Plain(S5) IN SubSeq(t, 1, Len(t) - 4) \o <<Kind("blanks")>> \o SubSeq(t, Len(t) - 3, Len(t))
MCWorlds == {
  [W(S4, Plain(T4), FALSE, TRUE, <<>>, <<R("a", FALSE, FALSE)>>) EXCEPT !.pos = TRUE, !.off = 5],
  [W(S1, Comment \o Plain(SubSeq(S1, 1, 1)) \o Quoted \o Plain(SubSeq(S1, 2, 3)), FALSE, FALSE, <<>>, <<R("a", FALSE, FALSE)>>)
     EXCEPT !.short = TRUE],
  W(S2, DocType \o Plain(S2) \o Cdata, TRUE, TRUE, <<>>, <<R("a", FALSE, FALSE), R("b", TRUE, FALSE)>>),
  W(S2, Plain(S2), FALSE, FALSE, <<>>, <<R("a", TRUE, FALSE), R("a", FALSE, FALSE)>>),
  W(S3, Plain(S3), FALSE, TRUE, Plain(I3), <<R("b", TRUE, TRUE)>>),
  W(S5, T5, FALSE, TRUE, <<>>, <<R("a", FALSE, FALSE)>>),
  W(<<Way(3, <<2>>)>>, Plain(<<Way(3, <<2>>)>>), FALSE, TRUE, <<>>, <<>>)}
MCMinId == -99
MCUniqueStart == -20
=============================================================================
