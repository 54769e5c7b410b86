---------------------------- MODULE ExecCliProofs -----------------------------
(***************************************************************************)
(* The dialogue with the processes of exec rules, for any number of rules, *)
(* objects, commands and crashes.                                          *)
(*                                                                         *)
(* A rule behind the one whose turn it is, or that was left out by a       *)
(* negative code, is untouched; the other rules before it are done.  For   *)
(* the one in between, the invariant says for every place of               *)
(* the parent what its process has been told and what it has asked (Talk): *)
(* it has the word, or the answer that belongs to its command is on the    *)
(* way to it, or its command is on the way to the parent, or a comment     *)
(* that was read together with the command has made the parent lose it.    *)
(***************************************************************************)
EXTENDS ExecCli, FiniteSetTheorems, WellFoundedInduction, TLAPS

(***************************************************************************)
(* Facts about natural numbers                                             *)
(***************************************************************************)
\* A set of numbers that is not empty has a least one.
LEMMA LeastNatural ==
  ASSUME NEW T \in SUBSET Nat, T # {}
  PROVE  \E x \in T : \A y \in T : x <= y
<1> DEFINE R == OpToRel(<, Nat)
<1>1. R = {ss \in Nat \X Nat : ss[1] < ss[2]}
  BY DEF OpToRel
<1>2. IsWellFoundedOn(R, Nat)
  BY NatLessThanWellFounded
<1> HIDE DEF R
<1>3. PICK x \in T : \A y \in T : ~(<<y, x>> \in R)
  BY <1>2, WFMin
<1>4. \A y \in T : x <= y
  <2> SUFFICES ASSUME NEW y \in T, y < x
               PROVE  FALSE
    OBVIOUS
  <2>1. <<y, x>> \in R
    BY <1>1
  <2> QED
    BY <2>1, <1>3
<1> QED
  BY <1>4

Live(r) == st[r] \in {"none", "forked", "run"}
Turn == IF pc = "ini" THEN 0 ELSE cur

Code == Cmds \cup {Period}
Msg == [k : {"header", "obj", "status", "got", "help", "end"}, n : Int]
InNext(c) == c.c = "next" /\ InRange(c.a)

\* Nothing that a process waits for.
Quiet(q) == \A i \in DOMAIN q : q[i].k # "obj" /\ q[i].k # "status"

\* The status n, and before it the object o, if o is not 0.
Reported(q, o, n) ==
  \E j \in DOMAIN q :
    /\ q[j] = Status(n) /\ \A i \in DOMAIN q : q[i].k = "status" => i = j
    /\ o = 0 => \A i \in DOMAIN q : q[i].k # "obj"
    /\ o # 0 => \E h \in DOMAIN q : h < j /\ q[h] = Obj(o) /\ \A i \in DOMAIN q : q[i].k = "obj" => i = h

Comments(q) == \A i \in DOMAIN q : q[i].c = "cmt"
\* The command c, behind comments.
Commands(q, c) == /\ Len(q) > 0 /\ q[Len(q)] = c /\ c.c # "cmt"
                  /\ \A i \in 1..(Len(q) - 1) : q[i].c = "cmt"

(***************************************************************************)
(* What is in a pipe after it was written or read                          *)
(***************************************************************************)
LEMMA QuietJoin ==
  ASSUME NEW p \in Seq(Msg), NEW q \in Seq(Msg), Quiet(p), Quiet(q)
  PROVE  p \o q \in Seq(Msg) /\ Quiet(p \o q)
<1>1. p \o q \in Seq(Msg) /\ DOMAIN (p \o q) = 1..(Len(p) + Len(q)) /\ Len(p) \in Nat /\ Len(q) \in Nat
  OBVIOUS
<1>2. ASSUME NEW i \in 1..(Len(p) + Len(q))
      PROVE  (p \o q)[i].k # "obj" /\ (p \o q)[i].k # "status"
  <2>1. CASE i <= Len(p)
    <3>1. (p \o q)[i] = p[i] /\ i \in DOMAIN p
      BY <1>1, <2>1
    <3> QED
      BY <3>1 DEF Quiet
  <2>2. CASE ~(i <= Len(p))
    <3>1. (p \o q)[i] = q[i - Len(p)] /\ i - Len(p) \in DOMAIN q
      BY <1>1, <2>2
    <3> QED
      BY <3>1 DEF Quiet
  <2> QED
    BY <2>1, <2>2
<1> QED
  BY <1>1, <1>2 DEF Quiet

\* send_status() behind what a process does not wait for.
LEMMA StatusBehind ==
  ASSUME NEW q \in Seq(Msg), Quiet(q), NEW n \in Int
  PROVE  q \o <<Status(n)>> \in Seq(Msg) /\ Reported(q \o <<Status(n)>>, 0, n)
<1> DEFINE s == q \o <<Status(n)>>
           l == Len(q)
<1>1. Status(n) \in Msg /\ Status(n).k = "status"
  BY DEF Status, Msg
<1>2. /\ s \in Seq(Msg) /\ l \in Nat /\ DOMAIN s = 1..(l + 1) /\ DOMAIN q = 1..l
      /\ s[l + 1] = Status(n) /\ \A i \in 1..l : s[i] = q[i]
  BY <1>1
<1> HIDE DEF s, l
<1>3. \A i \in 1..l : s[i].k # "obj" /\ s[i].k # "status"
  BY <1>2 DEF Quiet
<1>4. \A i \in DOMAIN s : s[i].k # "obj" /\ (s[i].k = "status" => i = l + 1)
  <2> SUFFICES ASSUME NEW i \in 1..(l + 1)
               PROVE  s[i].k # "obj" /\ (s[i].k = "status" => i = l + 1)
    BY <1>2
  <2>1. i \in 1..l \/ i = l + 1
    BY <1>2
  <2> QED
    BY <1>1, <1>2, <1>3, <2>1
<1>5. l + 1 \in DOMAIN s
  BY <1>2
<1>6. Reported(s, 0, n)
  BY <1>2, <1>4, <1>5 DEF Reported
<1> QED
  BY <1>2, <1>6 DEF s

\* An object and its status.
LEMMA ObjectBehind ==
  ASSUME NEW q \in Seq(Msg), Quiet(q), NEW o \in Nat \ {0}, NEW n \in Int
  PROVE  /\ q \o <<Obj(o)>> \o <<Status(n)>> \in Seq(Msg)
         /\ Reported(q \o <<Obj(o)>> \o <<Status(n)>>, o, n)
<1> DEFINE s == q \o <<Obj(o)>> \o <<Status(n)>>
           l == Len(q)
<1>1. /\ Status(n) \in Msg /\ Status(n).k = "status"
      /\ Obj(o) \in Msg /\ Obj(o).k = "obj"
  BY DEF Status, Obj, Msg
<1>2. /\ s \in Seq(Msg) /\ l \in Nat /\ DOMAIN s = 1..(l + 2) /\ DOMAIN q = 1..l
      /\ s[l + 1] = Obj(o) /\ s[l + 2] = Status(n) /\ \A i \in 1..l : s[i] = q[i]
  BY <1>1
<1> HIDE DEF s, l
<1>3. \A i \in 1..l : s[i].k # "obj" /\ s[i].k # "status"
  BY <1>2 DEF Quiet
<1>4. \A i \in DOMAIN s : (s[i].k = "obj" => i = l + 1) /\ (s[i].k = "status" => i = l + 2)
  <2> SUFFICES ASSUME NEW i \in 1..(l + 2)
               PROVE  (s[i].k = "obj" => i = l + 1) /\ (s[i].k = "status" => i = l + 2)
    BY <1>2
  <2>1. i \in 1..l \/ i = l + 1 \/ i = l + 2
    BY <1>2
  <2> QED
    BY <1>1, <1>2, <1>3, <2>1
<1>5. l + 1 \in DOMAIN s /\ l + 2 \in DOMAIN s /\ l + 1 < l + 2 /\ o # 0
  BY <1>2
<1>6. Reported(s, o, n)
  BY <1>2, <1>4, <1>5 DEF Reported
<1> QED
  BY <1>2, <1>6 DEF s

\* A header comes behind (ExecFails).
LEMMA HeaderBehind ==
  ASSUME NEW q \in Seq(Msg)
  PROVE  /\ Append(q, Header) \in Seq(Msg)
         /\ Quiet(q) => Quiet(Append(q, Header))
         /\ \A o, n : Reported(q, o, n) => Reported(Append(q, Header), o, n)
<1> DEFINE s == Append(q, Header)
           l == Len(q)
<1>1. Header \in Msg /\ Header.k = "header"
  BY DEF Header, Msg
<1>2. /\ s \in Seq(Msg) /\ l \in Nat /\ DOMAIN s = 1..(l + 1) /\ DOMAIN q = 1..l
      /\ s[l + 1] = Header /\ \A i \in 1..l : s[i] = q[i]
  BY <1>1
<1> HIDE DEF s, l
<1>3. \A i \in DOMAIN s : s[i].k \in {"obj", "status"} => i \in DOMAIN q /\ s[i] = q[i]
  <2> SUFFICES ASSUME NEW i \in 1..(l + 1), s[i].k \in {"obj", "status"}
               PROVE  i \in 1..l /\ s[i] = q[i]
    BY <1>2
  <2>1. i \in 1..l \/ i = l + 1
    BY <1>2
  <2> QED
    BY <1>1, <1>2, <2>1
<1>4. \A i \in DOMAIN q : i \in DOMAIN s /\ s[i] = q[i]
  BY <1>2
<1>5. Quiet(q) => Quiet(s)
  BY <1>3 DEF Quiet
<1>6. ASSUME NEW o, NEW n, Reported(q, o, n)
      PROVE  Reported(s, o, n)
  <2>1. PICK j \in DOMAIN q :
          /\ q[j] = Status(n) /\ \A i \in DOMAIN q : q[i].k = "status" => i = j
          /\ o = 0 => \A i \in DOMAIN q : q[i].k # "obj"
          /\ o # 0 => \E h \in DOMAIN q : h < j /\ q[h] = Obj(o) /\ \A i \in DOMAIN q : q[i].k = "obj" => i = h
    BY <1>6 DEF Reported
  <2>2. j \in DOMAIN s /\ s[j] = Status(n) /\ \A i \in DOMAIN s : s[i].k = "status" => i = j
    BY <1>3, <1>4, <2>1
  <2>3. o = 0 => \A i \in DOMAIN s : s[i].k # "obj"
    BY <1>3, <2>1
  <2>4. o # 0 => \E h \in DOMAIN s : h < j /\ s[h] = Obj(o) /\ \A i \in DOMAIN s : s[i].k = "obj" => i = h
    <3> SUFFICES ASSUME o # 0
                 PROVE  \E h \in DOMAIN s : h < j /\ s[h] = Obj(o) /\ \A i \in DOMAIN s : s[i].k = "obj" => i = h
      OBVIOUS
    <3>1. PICK h \in DOMAIN q : h < j /\ q[h] = Obj(o) /\ \A i \in DOMAIN q : q[i].k = "obj" => i = h
      BY <2>1
    <3>2. h \in DOMAIN s /\ s[h] = Obj(o) /\ \A i \in DOMAIN s : s[i].k = "obj" => i = h
      BY <1>3, <1>4, <3>1
    <3> QED
      BY <3>1, <3>2
  <2> QED
    BY <2>2, <2>3, <2>4 DEF Reported
<1> QED
  BY <1>2, <1>5, <1>6 DEF s

\* The first item is read.
LEMMA ReadQuiet ==
  ASSUME NEW q \in Seq(Msg), q # <<>>, Quiet(q)
  PROVE  Head(q).k # "obj" /\ Head(q).k # "status" /\ Quiet(Tail(q))
<1>1. /\ Len(q) \in Nat \ {0} /\ 1 \in DOMAIN q /\ Head(q) = q[1]
      /\ DOMAIN Tail(q) = 1..(Len(q) - 1) /\ \A i \in 1..(Len(q) - 1) : Tail(q)[i] = q[i + 1] /\ i + 1 \in DOMAIN q
  OBVIOUS
<1> QED
  BY <1>1 DEF Quiet

\* The process takes the next message from the pipe.
LEMMA ReadReported ==
  ASSUME NEW q \in Seq(Msg), q # <<>>, NEW o, NEW n, Reported(q, o, n)
  PROVE  \/ o # 0 /\ Head(q) = Obj(o) /\ Reported(Tail(q), 0, n)
         \/ o = 0 /\ Head(q) = Status(n) /\ Quiet(Tail(q))
         \/ Head(q).k # "obj" /\ Head(q).k # "status" /\ Reported(Tail(q), o, n)
<1> DEFINE t == Tail(q)
           l == Len(q)
<1>1. /\ l \in Nat \ {0} /\ 1 \in DOMAIN q /\ Head(q) = q[1] /\ DOMAIN q = 1..l
      /\ DOMAIN t = 1..(l - 1) /\ \A i \in 1..(l - 1) : t[i] = q[i + 1]
  OBVIOUS
<1> HIDE DEF t, l
<1>2. PICK j \in DOMAIN q :
        /\ q[j] = Status(n) /\ \A i \in DOMAIN q : q[i].k = "status" => i = j
        /\ o = 0 => \A i \in DOMAIN q : q[i].k # "obj"
        /\ o # 0 => \E h \in DOMAIN q : h < j /\ q[h] = Obj(o) /\ \A i \in DOMAIN q : q[i].k = "obj" => i = h
  BY DEF Reported
<1>3. Status(n).k = "status" /\ Obj(o).k = "obj"
  BY DEF Status, Obj
<1>4. \A i \in DOMAIN t : i + 1 \in DOMAIN q /\ i + 1 # 1 /\ t[i] = q[i + 1]
  BY <1>1
<1>5. \A i \in DOMAIN q : i # 1 => i - 1 \in DOMAIN t /\ t[i - 1] = q[i]
  <2> SUFFICES ASSUME NEW i \in 1..l, i # 1
               PROVE  i - 1 \in DOMAIN t /\ t[i - 1] = q[i]
    BY <1>1
  <2>1. i - 1 \in 1..(l - 1) /\ (i - 1) + 1 = i
    BY <1>1
  <2> QED
    BY <1>1, <2>1
<1>6. CASE j = 1
  <2>1. o = 0
    BY <1>1, <1>2, <1>6
  <2>2. Quiet(t)
    BY <1>2, <1>4, <1>6, <2>1 DEF Quiet
  <2> QED
    BY <1>1, <1>2, <1>6, <2>1, <2>2 DEF t
<1>7. CASE j # 1
  <2>1. j - 1 \in DOMAIN t /\ t[j - 1] = Status(n) /\ \A i \in DOMAIN t : t[i].k = "status" => i = j - 1
    <3>1. j - 1 \in DOMAIN t /\ t[j - 1] = Status(n)
      BY <1>2, <1>5, <1>7
    <3>2. ASSUME NEW i \in DOMAIN t, t[i].k = "status"
          PROVE  i = j - 1
      <4>1. i + 1 = j
        BY <1>2, <1>4, <3>2
      <4> QED
        BY <1>1, <4>1
    <3> QED
      BY <3>1, <3>2
  <2>2. Head(q).k # "status"
    BY <1>1, <1>2, <1>7
  <2>3. CASE o = 0
    <3>1. \A i \in DOMAIN t : t[i].k # "obj"
      BY <1>2, <1>4, <2>3
    <3>2. Reported(t, 0, n)
      BY <2>1, <3>1 DEF Reported
    <3> QED
      BY <1>1, <1>2, <2>2, <2>3, <3>2 DEF t
  <2>4. CASE o # 0
    <3>1. PICK h \in DOMAIN q : h < j /\ q[h] = Obj(o) /\ \A i \in DOMAIN q : q[i].k = "obj" => i = h
      BY <1>2, <2>4
    <3>2. CASE h = 1
      <4>1. \A i \in DOMAIN t : t[i].k # "obj"
        BY <1>4, <3>1, <3>2
      <4>2. Reported(t, 0, n)
        BY <2>1, <4>1 DEF Reported
      <4> QED
        BY <1>1, <2>4, <3>1, <3>2, <4>2 DEF t
    <3>3. CASE h # 1
      <4>1. h - 1 \in DOMAIN t /\ t[h - 1] = Obj(o) /\ h - 1 < j - 1
        BY <1>1, <1>5, <3>1, <3>3
      <4>2. ASSUME NEW i \in DOMAIN t, t[i].k = "obj"
            PROVE  i = h - 1
        <5>1. i + 1 = h
          BY <1>4, <3>1, <4>2
        <5> QED
          BY <1>1, <5>1
      <4>3. Reported(t, o, n)
        BY <2>1, <2>4, <4>1, <4>2 DEF Reported
      <4> QED
        BY <1>1, <2>2, <3>1, <3>3, <4>3 DEF t
    <3> QED
      BY <3>2, <3>3
  <2> QED
    BY <2>3, <2>4
<1> QED
  BY <1>6, <1>7

\* How many items there are, for the properties that count them.
LEMMA QuietCounts ==
  ASSUME NEW q, Quiet(q)
  PROVE  Places(q, "status") = {} /\ Places(q, "obj") = {}
BY DEF Quiet, Places

\* One status is on the way, and one object at most: what Answered counts.
LEMMA ReportedCounts ==
  ASSUME NEW q, NEW o, NEW n, Reported(q, o, n)
  PROVE  /\ \E j : Places(q, "status") = {j} /\ q[j] = Status(n)
         /\ o = 0 => Places(q, "obj") = {}
         /\ o # 0 => \E h : Places(q, "obj") = {h} /\ q[h] = Obj(o)
<1>1. PICK j \in DOMAIN q :
        /\ q[j] = Status(n) /\ \A i \in DOMAIN q : q[i].k = "status" => i = j
        /\ o = 0 => \A i \in DOMAIN q : q[i].k # "obj"
        /\ o # 0 => \E h \in DOMAIN q : h < j /\ q[h] = Obj(o) /\ \A i \in DOMAIN q : q[i].k = "obj" => i = h
  BY DEF Reported
<1>2. Status(n).k = "status" /\ Obj(o).k = "obj"
  BY DEF Status, Obj
<1>3. Places(q, "status") = {j}
  BY <1>1, <1>2 DEF Places
<1>4. o # 0 => \E h : Places(q, "obj") = {h} /\ q[h] = Obj(o)
  BY <1>1, <1>2 DEF Places
<1>5. o = 0 => Places(q, "obj") = {}
  BY <1>1 DEF Places
<1> QED
  BY <1>1, <1>3, <1>4, <1>5

(***************************************************************************)
(* The invariant                                                           *)
(***************************************************************************)
\* No process sends comments: exec_cli() does not look at what follows one.
NoComments == \A c \in Cmds : c.c # "cmt"

TypeInv ==
  /\ pc \in {"ini", "rule", "cli", "failed", "close", "wait", "stop", "end"}
  /\ cur \in 1..(Len(NObj) + 1) /\ nr \in Nat /\ fini \in BOOLEAN
  /\ pc \in {"cli", "failed", "close", "wait", "stop"} => cur \in Rule
  /\ pc = "ini" => nr = 0 /\ fini = FALSE
  /\ fout \in [Rule -> BOOLEAN]
  /\ unsent \in [Rule -> {<<>>, <<Header>>}]
  /\ cfd \in [Rule -> SUBSET {"out", "err"}]

ChildType ==
  /\ inbox \in [Rule -> Seq(Msg)]
  /\ outbox \in [Rule -> Seq(Code)]
  /\ st \in [Rule -> {"none", "forked", "run", "done", "gone"}]
  /\ asked \in [Rule -> Code \cup {NoCmd}]
  /\ seen \in [Rule -> Nat] /\ last \in [Rule -> BOOLEAN] /\ code \in [Rule -> Int]
  /\ \A r \in Rule : st[r] \in {"run", "done"} => r \notin Missing

\* A rule that was not begun.
Fresh(r) ==
  /\ asked[r] = Period /\ seen[r] = 0 /\ code[r] = 0 /\ last[r] = FALSE /\ outbox[r] = <<>>
  /\ Quiet(inbox[r])
  /\ st[r] # "done" /\ (st[r] = "none" <=> pc = "ini" /\ r >= cur)
  /\ pc # "end" /\ st[r] # "none" => fout[r] = TRUE /\ "out" \in cfd[r]
  /\ pc # "end" /\ st[r] = "gone" => r \in crashed \cup Missing
\* A rule of a pass that ended with an earlier rule
Skipped(r) == \E p \in halted : p < r /\ Pass[p] = Pass[r]
\* or behind the one whose turn it is.
Ahead(r)  == r > Turn \/ Skipped(r)
Untouched == \A r \in Rule : Ahead(r) => Fresh(r)

\* The parent has the answer to its process's command.
Waiting(r) == Quiet(inbox[r]) /\ outbox[r] = <<>> /\ asked[r] # NoCmd /\ seen[r] = nr

\* The answer to a command that does not end the dialogue about an object.
Answer(c) == IF c.c = "get" THEN c.a ELSE IF c.c = "help" THEN 200 ELSE 400

\* What is known of the codes sent before: none, or the end was told.
Before(r) == IF fini THEN last[r] = TRUE ELSE code[r] = 0
\* and together with a command that is under way.
Upto(r) == IF InNext(asked[r]) THEN fini = FALSE /\ asked[r].a >= 0 /\ code[r] = asked[r].a ELSE Before(r)

HasWord(r) == asked[r] = NoCmd /\ Quiet(inbox[r]) /\ Comments(outbox[r]) /\ seen[r] = nr /\ Before(r)
GetsObject(r) ==
  /\ asked[r] = Period /\ outbox[r] = <<>> /\ fini = FALSE /\ code[r] = 0
  /\ \/ nr > 0 /\ Reported(inbox[r], nr, 200) /\ seen[r] = nr - 1
     \/ Reported(inbox[r], 0, 200) /\ seen[r] = nr
GetsEnd(r) ==
  /\ InNext(asked[r]) /\ outbox[r] = <<>> /\ fini = TRUE /\ last[r] = FALSE
  /\ Reported(inbox[r], 0, 404) /\ seen[r] = nr
GetsAnswer(r) ==
  /\ asked[r] # NoCmd /\ ~InNext(asked[r]) /\ outbox[r] = <<>> /\ seen[r] = nr
  /\ Reported(inbox[r], 0, Answer(asked[r])) /\ Before(r)
Asks(r) == asked[r] # NoCmd /\ Quiet(inbox[r]) /\ Commands(outbox[r], asked[r]) /\ seen[r] = nr /\ Upto(r)
Lost(r) == Waiting(r) /\ Upto(r)

Talk(r) == HasWord(r) \/ GetsObject(r) \/ GetsEnd(r) \/ GetsAnswer(r) \/ Asks(r) \/ Lost(r)

Working == pc \in {"rule", "failed", "cli"}
\* Where the parent is.
Stage ==
  /\ nr <= NObj[cur] /\ st[cur] # "none"
  /\ pc \in {"rule", "failed"} => fini = FALSE
  /\ pc \in {"close", "wait"} => fini = TRUE
  /\ Working \/ ~Live(cur)
  /\ pc = "stop" => fini = FALSE /\ code[cur] < 0
\* The pipes are open as long as they are needed.
Streams ==
  Working => /\ Live(cur) => fout[cur] = TRUE
             /\ Live(cur) \/ st[cur] = "done" \/ outbox[cur] # <<>> => "out" \in cfd[cur]
Dialogue ==
  Working /\ Live(cur) =>
    /\ code[cur] >= 0 /\ (fini = FALSE => last[cur] = FALSE)
    /\ pc = "rule" => Waiting(cur) /\ asked[cur] = Period /\ code[cur] = 0
    /\ pc = "failed" => Waiting(cur) /\ InNext(asked[cur]) /\ code[cur] > 0
    /\ pc = "cli" => Talk(cur) /\ (fini = TRUE => code[cur] > 0 \/ nr = NObj[cur])
\* A code less than 0 that the parent has not read.
Pending == /\ pc = "cli" /\ fini = FALSE /\ Len(outbox[cur]) = 1
           /\ InNext(outbox[cur][1]) /\ outbox[cur][1].a < 0
\* What the process has said in the end.
Result ==
  /\ cur \notin crashed \cup Missing /\ ~Live(cur) => code[cur] < 0 \/ last[cur] = TRUE
  /\ last[cur] = TRUE /\ code[cur] = 0 => seen[cur] = NObj[cur]
  /\ NoComments /\ code[cur] < 0 => pc = "stop" \/ Pending
\* A negative code that the parent may read is the one the process has sent.
Negative == fini = FALSE => \A i \in DOMAIN outbox[cur] : InNext(outbox[cur][i]) /\ outbox[cur][i].a < 0 => code[cur] < 0

Current == cur \in Rule /\ pc # "ini" => Stage /\ Streams /\ Dialogue /\ Result /\ Negative

\* A rule that is over: it has ended its pass, or has come to its end.
Finished(r) ==
  /\ st[r] \in {"done", "gone"}
  /\ r \notin halted => st[r] = "gone" /\ (NoComments => code[r] >= 0)
  /\ code[r] = 0 /\ r \notin crashed \cup Missing => seen[r] = NObj[r]
Over(r) == r < Turn /\ ~Skipped(r)
Past == \A r \in Rule : Over(r) => Finished(r)

\* The rules that ended their passes, all of them before that of the rule whose
\* turn it is.
Halts ==
  \A p \in halted :
    /\ p \in Rule /\ p < Turn /\ code[p] < 0
    /\ cur \in Rule => Pass[p] < Pass[cur]

IInv == TypeInv /\ ChildType /\ Untouched /\ Current /\ Past /\ Halts

\* Rules are numbered from 1, and each has a number of objects.
LEMMA Rules ==
  /\ Rule \subseteq Nat \ {0} /\ \A r \in Rule : NObj[r] \in Nat
  /\ Len(NObj) \in Nat /\ Rule = 1..Len(NObj)
BY ExecAssumption DEF Rule

\* A command is one of those of the protocol; a `next` with code 0 is the period.
LEMMA Commanded ==
  /\ \A c \in Code : /\ c.c \in {"next", "get", "help", "cmt", "junk"} /\ c.a \in Int /\ c # NoCmd
                     /\ c.c = "next" /\ c.a = 0 => c = Period
  /\ InNext(Period) /\ Period \in Code /\ Period # NoCmd /\ Period.a = 0 /\ Period.c = "next"
<1>1. \A c \in Code : c \in [c : {"next", "get", "help", "cmt", "junk"}, a : Int]
  BY ExecAssumption DEF Code, Period
<1>2. ASSUME NEW c \in Code
      PROVE  /\ c.c \in {"next", "get", "help", "cmt", "junk"} /\ c.a \in Int /\ c # NoCmd
             /\ c.c = "next" /\ c.a = 0 => c = Period
  <2>1. c \in [c : {"next", "get", "help", "cmt", "junk"}, a : Int]
    BY <1>1
  <2>2. c.c \in {"next", "get", "help", "cmt", "junk"} /\ c.a \in Int /\ c = [c |-> c.c, a |-> c.a]
    BY <2>1
  <2>3. NoCmd.c = "none"
    BY DEF NoCmd
  <2> QED
    BY <2>2, <2>3 DEF Period
<1>3. InNext(Period) /\ Period \in Code /\ Period # NoCmd /\ Period.a = 0 /\ Period.c = "next"
  BY DEF InNext, InRange, Period, Code, NoCmd
<1> QED
  BY <1>2, <1>3

(***************************************************************************)
(* A step of a process: the invariant of the other rules is not affected,  *)
(* and a header that comes behind does not change what they were told.     *)
(***************************************************************************)
LEMMA ChildFrame ==
  ASSUME IInv, NEW r \in Rule, parent' = parent,
         \A q \in Rule \ {r} :
           /\ inbox'[q] = inbox[q] \/ inbox'[q] = Append(inbox[q], Header)
           /\ outbox'[q] = outbox[q] /\ st'[q] = st[q] /\ asked'[q] = asked[q]
           /\ seen'[q] = seen[q] /\ last'[q] = last[q] /\ code'[q] = code[q]
           /\ q \in crashed' <=> q \in crashed,
         r \in halted => code'[r] = code[r],
         Ahead(r) => Fresh(r)',
         Over(r) => Finished(r)',
         r = Turn => Current'
  PROVE  Untouched' /\ Past' /\ Current' /\ Halts'
<1>1. /\ pc' = pc /\ cur' = cur /\ nr' = nr /\ fini' = fini /\ fout' = fout /\ cfd' = cfd
      /\ halted' = halted /\ Turn' = Turn
  BY DEF parent, Turn
<1>0. \A q \in Rule : Ahead(q)' = Ahead(q) /\ Over(q)' = Over(q)
  BY <1>1 DEF Ahead, Over, Skipped
<1>2. Turn \in Nat
  BY Rules DEF Turn, IInv, TypeInv
<1>3. \A q \in Rule : inbox[q] \in Seq(Msg)
  BY DEF IInv, ChildType
<1>4. \A q \in Rule \ {r} : /\ Quiet(inbox[q]) => Quiet(inbox'[q])
                            /\ \A o, n : Reported(inbox[q], o, n) => Reported(inbox'[q], o, n)
  BY <1>3, HeaderBehind
<1>5. ASSUME NEW q \in Rule \ {r}, Fresh(q)
      PROVE  Fresh(q)'
  <2>1. Quiet(inbox'[q])
    BY <1>4, <1>5 DEF Fresh
  <2> QED
    BY <1>1, <1>5, <2>1 DEF Fresh, Quiet
<1>6. ASSUME NEW q \in Rule \ {r}, Finished(q)
      PROVE  Finished(q)'
  BY <1>1, <1>6 DEF Finished, NoComments
<1>7. Untouched'
  BY <1>0, <1>5 DEF IInv, Untouched
<1>8. Past'
  BY <1>0, <1>6 DEF IInv, Past
<1>11. Halts'
  <2>1. \A p \in halted : code'[p] = code[p] /\ p \in Rule
    BY DEF IInv, Halts
  <2> QED
    BY <1>1, <2>1 DEF IInv, Halts
<1>9. ASSUME cur \in Rule, pc # "ini", cur # r
      PROVE  (Stage /\ Streams /\ Dialogue /\ Result /\ Negative)'
  <2>1. Stage /\ Streams /\ Dialogue /\ Result /\ Negative /\ cur \in Rule \ {r}
    BY <1>9 DEF IInv, Current
  <2>8. Negative'
    BY <1>1, <2>1 DEF Negative, InNext, InRange
  <2>2. Stage'
    BY <1>1, <2>1 DEF Stage, Live, Working
  <2>3. Streams'
    BY <1>1, <2>1 DEF Streams, Live, Working
  <2>4. Result'
    BY <1>1, <2>1 DEF Result, Live, Pending, InNext, NoComments, InRange
  <2>5. Waiting(cur) => Waiting(cur)'
    BY <1>1, <1>4, <2>1 DEF Waiting, Quiet
  <2>6. Talk(cur) => Talk(cur)'
    <3>1. HasWord(cur) => HasWord(cur)'
      BY <1>1, <1>4, <2>1 DEF HasWord, Quiet, Comments, Before
    <3>0. \A o, n : Reported(inbox[cur], o, n) => Reported(inbox[cur], o, n)'
      <4>1. \A o, n : Reported(inbox[cur], o, n) => Reported(inbox'[cur], o, n)
        BY <1>4, <2>1
      <4>2. \A o, n : Reported(inbox'[cur], o, n) => Reported(inbox[cur], o, n)'
        BY <1>1 DEF Reported, Status, Obj
      <4> QED
        BY <4>1, <4>2
    <3>2. GetsObject(cur) => GetsObject(cur)'
      BY <1>1, <2>1, <3>0 DEF GetsObject
    <3>7. asked'[cur] = asked[cur] /\ InNext(asked[cur])' = InNext(asked[cur])
      BY <1>1, <2>1 DEF InNext, InRange
    <3>8. Before(cur)' = Before(cur) /\ Upto(cur)' = Upto(cur)
      BY <1>1, <2>1, <3>7 DEF Before, Upto
    <3>3. GetsEnd(cur) => GetsEnd(cur)'
      <4> SUFFICES ASSUME GetsEnd(cur)
                   PROVE  GetsEnd(cur)'
        OBVIOUS
      <4>1. Reported(inbox[cur], 0, 404)' /\ InNext(asked[cur])'
        BY <3>0, <3>7 DEF GetsEnd
      <4>2. outbox[cur]' = <<>> /\ fini' = TRUE /\ last[cur]' = FALSE /\ seen[cur]' = nr'
        BY <1>1, <2>1 DEF GetsEnd
      <4> QED
        BY <4>1, <4>2 DEF GetsEnd
    <3>4. GetsAnswer(cur) => GetsAnswer(cur)'
      <4> SUFFICES ASSUME GetsAnswer(cur)
                   PROVE  GetsAnswer(cur)'
        OBVIOUS
      <4>1. asked'[cur] = asked[cur] /\ Answer(asked[cur])' = Answer(asked[cur])
        BY <1>1, <2>1 DEF Answer
      <4>2. Reported(inbox[cur], 0, Answer(asked[cur]))'
        BY <3>0, <4>1 DEF GetsAnswer
      <4>3. Before(cur)'
        BY <1>1, <2>1 DEF GetsAnswer, Before
      <4> QED
        BY <1>1, <2>1, <4>2, <4>3 DEF GetsAnswer, InNext, InRange
    <3>5. Asks(cur) => Asks(cur)'
      <4> SUFFICES ASSUME Asks(cur)
                   PROVE  Asks(cur)'
        OBVIOUS
      <4>1. Quiet(inbox[cur])' /\ seen[cur]' = nr' /\ asked[cur]' # NoCmd
        BY <1>1, <1>4, <2>1 DEF Asks, Quiet
      <4>2. Commands(outbox[cur], asked[cur])'
        BY <1>1, <2>1 DEF Asks, Commands
      <4> QED
        BY <3>8, <4>1, <4>2 DEF Asks
    <3>6. Lost(cur) => Lost(cur)'
      BY <2>5, <3>8 DEF Lost
    <3> QED
      BY <3>1, <3>2, <3>3, <3>4, <3>5, <3>6 DEF Talk
  <2>7. Dialogue'
    BY <1>1, <2>1, <2>5, <2>6 DEF Dialogue, Live, Working, InNext, InRange
  <2> QED
    BY <2>2, <2>3, <2>4, <2>7, <2>8
<1>10. Current'
  <2>1. CASE cur \in Rule /\ pc # "ini" /\ cur # r
    BY <1>1, <1>9, <2>1 DEF Current
  <2>2. CASE cur \in Rule /\ pc # "ini" /\ cur = r
    BY <2>2 DEF Turn
  <2>3. CASE ~(cur \in Rule /\ pc # "ini")
    BY <1>1, <2>3 DEF Current
  <2> QED
    BY <2>1, <2>2, <2>3
<1> QED
  BY <1>7, <1>8, <1>10, <1>11

\* In the dialogue: what is left to show of the rule whose turn it is.
LEMMA TalkOn ==
  ASSUME NEW r \in Rule, cur' = r, pc' = "cli", Stage', Streams', Negative', Live(r)',
         code'[r] \in Int, code'[r] >= 0, fini' = FALSE => last'[r] = FALSE, Talk(r)',
         fini' = TRUE => code'[r] > 0 \/ nr' = NObj[r],
         last'[r] = TRUE /\ code'[r] = 0 => seen'[r] = NObj[r]
  PROVE  Current'
<1>1. cur' \in Rule /\ Live(cur)' /\ Talk(cur)' /\ ~(code'[r] < 0)
  <2>1. Live(r)' = Live(cur)' /\ Talk(r)' = Talk(cur)'
    BY DEF Live, Talk, HasWord, GetsObject, GetsEnd, GetsAnswer, Asks, Lost, Waiting, Before, Upto,
           Quiet, Comments, Commands, Reported
  <2> QED
    BY <2>1
<1>2. Dialogue'
  BY <1>1 DEF Dialogue
<1>3. Result'
  BY <1>1 DEF Result
<1> QED
  BY <1>2, <1>3 DEF Current

\* The same for the rule itself, if only the state of its process changes.
LEMMA StateOnly ==
  ASSUME IInv, cur \in Rule, pc # "ini", parent' = parent,
         inbox'[cur] = inbox[cur], outbox'[cur] = outbox[cur], asked'[cur] = asked[cur],
         seen'[cur] = seen[cur], last'[cur] = last[cur], code'[cur] = code[cur],
         Live(cur)' => Live(cur), st'[cur] # "none", st'[cur] = "done" => Live(cur) \/ st[cur] = "done",
         cur \notin crashed' \cup Missing /\ ~Live(cur)' => code[cur] < 0 \/ last[cur] = TRUE
  PROVE  Current'
<1>1. /\ pc' = pc /\ cur' = cur /\ nr' = nr /\ fini' = fini /\ fout' = fout /\ cfd' = cfd
      /\ Stage /\ Streams /\ Dialogue /\ Result /\ Negative
  BY DEF parent, IInv, Current
<1>8. Negative'
  BY <1>1 DEF Negative, InNext, InRange
<1>2. Stage'
  BY <1>1 DEF Stage, Working
<1>3. Streams'
  BY <1>1 DEF Streams, Working
<1>4. Result'
  BY <1>1 DEF Result, Pending, InNext, NoComments, InRange
<1>5. Waiting(cur) => Waiting(cur)'
  BY <1>1 DEF Waiting, Quiet
<1>6. Talk(cur) => Talk(cur)'
  <2>1. HasWord(cur) => HasWord(cur)'
    BY <1>1 DEF HasWord, Quiet, Comments, Before
  <2>0. \A o, n : Reported(inbox[cur], o, n) => Reported(inbox[cur], o, n)'
    BY <1>1 DEF Reported, Status, Obj
  <2>2. GetsObject(cur) => GetsObject(cur)'
    BY <1>1, <2>0 DEF GetsObject
  <2>3. GetsEnd(cur) => GetsEnd(cur)'
    BY <1>1, <2>0 DEF GetsEnd, InNext, InRange
  <2>4. GetsAnswer(cur) => GetsAnswer(cur)'
    <3> SUFFICES ASSUME GetsAnswer(cur)
                 PROVE  GetsAnswer(cur)'
      OBVIOUS
    <3>1. Answer(asked[cur])' = Answer(asked[cur])
      BY <1>1 DEF Answer
    <3>2. Reported(inbox[cur], 0, Answer(asked[cur]))'
      BY <2>0, <3>1 DEF GetsAnswer
    <3>3. Before(cur)'
      BY <1>1 DEF GetsAnswer, Before
    <3> QED
      BY <1>1, <3>2, <3>3 DEF GetsAnswer, InNext, InRange
  <2>7. InNext(asked[cur])' = InNext(asked[cur])
    BY <1>1 DEF InNext, InRange
  <2>8. Before(cur)' = Before(cur) /\ Upto(cur)' = Upto(cur)
    BY <1>1, <2>7 DEF Before, Upto
  <2>5. Asks(cur) => Asks(cur)'
    <3> SUFFICES ASSUME Asks(cur)
                 PROVE  Asks(cur)'
      OBVIOUS
    <3>1. Quiet(inbox[cur])' /\ seen[cur]' = nr' /\ asked[cur]' # NoCmd
      BY <1>1 DEF Asks, Quiet
    <3>2. Commands(outbox[cur], asked[cur])'
      BY <1>1 DEF Asks, Commands
    <3> QED
      BY <2>8, <3>1, <3>2 DEF Asks
  <2>6. Lost(cur) => Lost(cur)'
    BY <1>5, <2>8 DEF Lost
  <2> QED
    BY <2>1, <2>2, <2>3, <2>4, <2>5, <2>6 DEF Talk
<1>7. Dialogue'
  BY <1>1, <1>5, <1>6 DEF Dialogue, Working, InNext, InRange
<1> QED
  BY <1>2, <1>3, <1>4, <1>7, <1>8 DEF Current

\* execvpe() of the child.
LEMMA ExecInv ==
  ASSUME IInv, NEW r \in Rule, Exec(r)
  PROVE  IInv'
<1>1. /\ st[r] = "forked" /\ r \notin Missing /\ st' = [st EXCEPT ![r] = "run"]
      /\ parent' = parent /\ unsent' = unsent /\ inbox' = inbox /\ outbox' = outbox /\ asked' = asked
      /\ seen' = seen /\ last' = last /\ code' = code /\ crashed' = crashed
  BY DEF Exec
<1>2. pc' = pc /\ cur' = cur /\ nr' = nr /\ fini' = fini /\ fout' = fout /\ cfd' = cfd
  BY <1>1 DEF parent
<1>3. TypeInv'
  BY <1>1, <1>2 DEF IInv, TypeInv
<1>4. ChildType'
  BY <1>1 DEF IInv, ChildType
<1>5. st'[r] = "run" /\ \A q \in Rule \ {r} : st'[q] = st[q]
  BY <1>1 DEF IInv, ChildType
<1>6. Ahead(r) => Fresh(r)'
  <2> SUFFICES ASSUME Fresh(r)
               PROVE  Fresh(r)'
    BY DEF IInv, Untouched
  <2> QED
    BY <1>1, <1>2, <1>5 DEF Fresh, Quiet
<1>7. Over(r) => Finished(r)'
  BY <1>1 DEF IInv, Past, Finished
<1>8. r = Turn => Current'
  <2> SUFFICES ASSUME r = Turn
               PROVE  Current'
    OBVIOUS
  <2>1. cur = r /\ pc # "ini"
    BY Rules DEF Turn
  <2> QED
    BY <1>1, <1>2, <1>5, <2>1, StateOnly DEF Live
<1>9. Untouched' /\ Past' /\ Current' /\ Halts'
  BY <1>1, <1>5, <1>6, <1>7, <1>8, ChildFrame
<1> QED
  BY <1>3, <1>4, <1>9 DEF IInv

\* execvpe() fails: copied buffers reach the processes before it.
LEMMA ExecFailsInv ==
  ASSUME IInv, NEW r \in Rule, ExecFails(r)
  PROVE  IInv'
<1>1. /\ st[r] = "forked" /\ r \in Missing /\ st' = [st EXCEPT ![r] = "gone"]
      /\ inbox' = [q \in Rule |-> IF q < r /\ st[q] # "gone" THEN Append(inbox[q], Header) ELSE inbox[q]]
      /\ parent' = parent /\ unsent' = unsent /\ outbox' = outbox /\ asked' = asked
      /\ seen' = seen /\ last' = last /\ code' = code /\ crashed' = crashed
  BY DEF ExecFails
<1>2. pc' = pc /\ cur' = cur /\ nr' = nr /\ fini' = fini /\ fout' = fout /\ cfd' = cfd
  BY <1>1 DEF parent
<1>3. TypeInv'
  BY <1>1, <1>2 DEF IInv, TypeInv
<1>4. \A q \in Rule : Append(inbox[q], Header) \in Seq(Msg)
  BY HeaderBehind DEF IInv, ChildType
<1>5. st'[r] = "gone" /\ \A q \in Rule \ {r} : st'[q] = st[q]
  BY <1>1 DEF IInv, ChildType
<1>6. inbox'[r] = inbox[r] /\ \A q \in Rule : inbox'[q] = inbox[q] \/ inbox'[q] = Append(inbox[q], Header)
  BY <1>1, Rules
<1>7. ChildType'
  <2>1. inbox' \in [Rule -> Seq(Msg)]
    BY <1>1, <1>4 DEF IInv, ChildType
  <2> QED
    BY <1>1, <2>1 DEF IInv, ChildType
<1>8. Ahead(r) => Fresh(r)'
  <2> SUFFICES ASSUME Fresh(r)
               PROVE  Fresh(r)'
    BY DEF IInv, Untouched
  <2>1. Quiet(inbox'[r])
    BY <1>6 DEF Fresh
  <2>2. Quiet(inbox[r])'
    BY <2>1 DEF Quiet
  <2> QED
    BY <1>1, <1>2, <1>5, <2>2 DEF Fresh
<1>9. Over(r) => Finished(r)'
  BY <1>1 DEF IInv, Past, Finished
<1>10. r = Turn => Current'
  <2> SUFFICES ASSUME r = Turn
               PROVE  Current'
    OBVIOUS
  <2>1. cur = r /\ pc # "ini"
    BY Rules DEF Turn
  <2> QED
    BY <1>1, <1>2, <1>5, <1>6, <2>1, StateOnly DEF Live
<1>11. Untouched' /\ Past' /\ Current' /\ Halts'
  BY <1>1, <1>5, <1>6, <1>8, <1>9, <1>10, ChildFrame
<1> QED
  BY <1>3, <1>7, <1>11 DEF IInv

\* A process writes to its stderr.
LEMMA WarnInv ==
  ASSUME IInv, NEW r \in Rule, Warn(r)
  PROVE  IInv'
<1>1. /\ parent' = parent /\ unsent' = unsent /\ inbox' = inbox /\ outbox' = outbox /\ asked' = asked
      /\ seen' = seen /\ last' = last /\ code' = code /\ crashed' = crashed /\ st' = st /\ st[r] = "run"
  BY DEF Warn
<1>2. pc' = pc /\ cur' = cur /\ nr' = nr /\ fini' = fini /\ fout' = fout /\ cfd' = cfd
  BY <1>1 DEF parent
<1>3. TypeInv' /\ ChildType'
  BY <1>1, <1>2 DEF IInv, TypeInv, ChildType
<1>4. Ahead(r) => Fresh(r)'
  BY <1>1, <1>2 DEF IInv, Untouched, Fresh, Quiet
<1>5. Over(r) => Finished(r)'
  BY <1>1 DEF IInv, Past, Finished
<1>6. r = Turn => Current'
  <2> SUFFICES ASSUME r = Turn
               PROVE  Current'
    OBVIOUS
  <2>1. cur = r /\ pc # "ini"
    BY Rules DEF Turn
  <2> QED
    BY <1>1, <1>2, <2>1, StateOnly DEF Live
<1>7. Untouched' /\ Past' /\ Current' /\ Halts'
  BY <1>1, <1>4, <1>5, <1>6, ChildFrame
<1> QED
  BY <1>3, <1>7 DEF IInv

\* The input of a process in the dialogue, or of one whose turn will come, is open.
LEMMA EofInv ==
  ASSUME IInv, NEW r \in Rule, Eof(r)
  PROVE  IInv'
<1>1. /\ st[r] \in {"run", "done"} /\ fout[r] # TRUE /\ st' = [st EXCEPT ![r] = "gone"]
      /\ parent' = parent /\ unsent' = unsent /\ inbox' = inbox /\ outbox' = outbox /\ asked' = asked
      /\ seen' = seen /\ last' = last /\ code' = code /\ crashed' = crashed
  BY DEF Eof, InputOpen
<1>2. pc' = pc /\ cur' = cur /\ nr' = nr /\ fini' = fini /\ halted' = halted /\ fout' = fout /\ cfd' = cfd
  BY <1>1 DEF parent
<1>3. TypeInv'
  BY <1>1, <1>2 DEF IInv, TypeInv
<1>4. ChildType'
  BY <1>1 DEF IInv, ChildType
<1>5. st'[r] = "gone" /\ \A q \in Rule \ {r} : st'[q] = st[q]
  BY <1>1 DEF IInv, ChildType
<1>6. Ahead(r) => Fresh(r)'
  <2> SUFFICES ASSUME Fresh(r)
               PROVE  Fresh(r)'
    BY DEF IInv, Untouched
  <2>1. pc = "end"
    BY <1>1 DEF Fresh
  <2> QED
    BY <1>1, <1>2, <1>5, <2>1 DEF Fresh, Quiet
<1>7. Over(r) => Finished(r)'
  BY <1>1, <1>2, <1>5 DEF IInv, Past, Finished, NoComments
<1>8. r = Turn => Current'
  <2> SUFFICES ASSUME r = Turn
               PROVE  Current'
    OBVIOUS
  <2>1. cur = r /\ pc # "ini"
    BY Rules DEF Turn
  <2>2. Stage /\ Streams /\ Result
    BY <2>1 DEF IInv, Current
  <2>3. ~Live(cur)
    BY <1>1, <2>1, <2>2 DEF Stage, Streams, Live
  <2>4. cur \notin crashed' \cup Missing => code[cur] < 0 \/ last[cur] = TRUE
    BY <1>1, <2>2, <2>3 DEF Result
  <2> QED
    BY <1>1, <1>2, <1>5, <2>1, <2>3, <2>4, StateOnly DEF Live
<1>9. Untouched' /\ Past' /\ Current' /\ Halts'
  BY <1>1, <1>5, <1>6, <1>7, <1>8, ChildFrame
<1> QED
  BY <1>3, <1>4, <1>9 DEF IInv

\* A process dies: both ends of its pipes are closed.
LEMMA CrashInv ==
  ASSUME IInv, NEW r \in Rule, Crash(r)
  PROVE  IInv'
<1>1. /\ st[r] \in {"run", "done"} /\ st' = [st EXCEPT ![r] = "gone"] /\ crashed' = crashed \cup {r}
      /\ parent' = parent /\ unsent' = unsent /\ inbox' = inbox /\ outbox' = outbox /\ asked' = asked
      /\ seen' = seen /\ last' = last /\ code' = code
  BY DEF Crash
<1>2. pc' = pc /\ cur' = cur /\ nr' = nr /\ fini' = fini /\ halted' = halted /\ fout' = fout /\ cfd' = cfd
  BY <1>1 DEF parent
<1>3. TypeInv'
  BY <1>1, <1>2 DEF IInv, TypeInv
<1>4. ChildType'
  BY <1>1 DEF IInv, ChildType
<1>5. st'[r] = "gone" /\ \A q \in Rule \ {r} : st'[q] = st[q] /\ (q \in crashed' <=> q \in crashed)
  BY <1>1 DEF IInv, ChildType
<1>6. Ahead(r) => Fresh(r)'
  <2> SUFFICES ASSUME Fresh(r)
               PROVE  Fresh(r)'
    BY DEF IInv, Untouched
  <2> QED
    BY <1>1, <1>2, <1>5 DEF Fresh, Quiet
<1>7. Over(r) => Finished(r)'
  BY <1>1, <1>2, <1>5 DEF IInv, Past, Finished, NoComments
<1>8. r = Turn => Current'
  <2> SUFFICES ASSUME r = Turn
               PROVE  Current'
    OBVIOUS
  <2>1. cur = r /\ pc # "ini"
    BY Rules DEF Turn
  <2>2. cur \in crashed'
    BY <1>1, <2>1
  <2> QED
    BY <1>1, <1>2, <1>5, <2>1, <2>2, StateOnly DEF Live
<1>9. Untouched' /\ Past' /\ Current' /\ Halts'
  BY <1>1, <1>5, <1>6, <1>7, <1>8, ChildFrame
<1> QED
  BY <1>3, <1>4, <1>9 DEF IInv

\* A process reads what it was told: it has got an object, the answer to its
\* command, or the end, which it is told once.
LEMMA ReadInv ==
  ASSUME IInv, NEW r \in Rule, Read(r)
  PROVE  IInv'
<1> DEFINE m == Head(inbox[r])
<1>1. /\ st[r] = "run" /\ inbox[r] # <<>> /\ inbox' = [inbox EXCEPT ![r] = Tail(@)]
      /\ seen' = IF m.k = "obj" THEN [seen EXCEPT ![r] = @ + 1] ELSE seen
      /\ asked' = IF m.k = "status" THEN [asked EXCEPT ![r] = NoCmd] ELSE asked
      /\ last' = IF m.k = "status" /\ m.n = 404 /\ asked[r].c = "next" THEN [last EXCEPT ![r] = TRUE] ELSE last
      /\ parent' = parent /\ unsent' = unsent /\ outbox' = outbox /\ st' = st
      /\ code' = code /\ crashed' = crashed
  BY DEF Read
<1> HIDE DEF m
<1>2. pc' = pc /\ cur' = cur /\ nr' = nr /\ fini' = fini /\ fout' = fout /\ cfd' = cfd
  BY <1>1 DEF parent
<1>3. TypeInv'
  BY <1>1, <1>2 DEF IInv, TypeInv
<1>4. /\ inbox[r] \in Seq(Msg) /\ Tail(inbox[r]) \in Seq(Msg) /\ seen[r] \in Nat
      /\ asked[r] \in Code \cup {NoCmd}
  <2>1. inbox[r] \in Seq(Msg) /\ seen[r] \in Nat /\ asked[r] \in Code \cup {NoCmd}
    BY DEF IInv, ChildType
  <2> QED
    BY <1>1, <2>1
<1>5. ChildType'
  <2>1. inbox' \in [Rule -> Seq(Msg)]
    BY <1>1, <1>4 DEF IInv, ChildType
  <2>2. seen' \in [Rule -> Nat]
    BY <1>1 DEF IInv, ChildType
  <2>3. asked' \in [Rule -> Code \cup {NoCmd}]
    BY <1>1 DEF IInv, ChildType
  <2>4. last' \in [Rule -> BOOLEAN]
    BY <1>1 DEF IInv, ChildType
  <2> QED
    BY <1>1, <2>1, <2>2, <2>3, <2>4 DEF IInv, ChildType
<1>6. /\ inbox'[r] = Tail(inbox[r])
      /\ \A q \in Rule \ {r} : inbox'[q] = inbox[q] /\ seen'[q] = seen[q] /\ asked'[q] = asked[q] /\ last'[q] = last[q]
      /\ m.k = "obj" => seen'[r] = seen[r] + 1 /\ asked'[r] = asked[r] /\ last'[r] = last[r]
      /\ m.k # "obj" /\ m.k # "status" => seen'[r] = seen[r] /\ asked'[r] = asked[r] /\ last'[r] = last[r]
      /\ m.k = "status" => seen'[r] = seen[r] /\ asked'[r] = NoCmd
      /\ m.k = "status" /\ m.n = 404 /\ asked[r].c = "next" => last'[r] = TRUE
      /\ m.k = "status" /\ ~(m.n = 404 /\ asked[r].c = "next") => last'[r] = last[r]
  <2>1. inbox'[r] = Tail(inbox[r]) /\ \A q \in Rule \ {r} : inbox'[q] = inbox[q]
    BY <1>1 DEF IInv, ChildType
  <2>2. /\ \A q \in Rule \ {r} : seen'[q] = seen[q]
        /\ m.k = "obj" => seen'[r] = seen[r] + 1
        /\ m.k # "obj" => seen'[r] = seen[r]
    BY <1>1 DEF IInv, ChildType
  <2>3. /\ \A q \in Rule \ {r} : asked'[q] = asked[q]
        /\ m.k = "status" => asked'[r] = NoCmd
        /\ m.k # "status" => asked'[r] = asked[r]
    BY <1>1 DEF IInv, ChildType
  <2>4. /\ \A q \in Rule \ {r} : last'[q] = last[q]
        /\ m.k = "status" /\ m.n = 404 /\ asked[r].c = "next" => last'[r] = TRUE
        /\ ~(m.k = "status" /\ m.n = 404 /\ asked[r].c = "next") => last'[r] = last[r]
    <3>0. last \in [Rule -> BOOLEAN]
      BY DEF IInv, ChildType
    <3>1. CASE m.k = "status" /\ m.n = 404 /\ asked[r].c = "next"
      <4>1. last' = [last EXCEPT ![r] = TRUE]
        BY <1>1, <3>1
      <4>2. last'[r] = TRUE /\ \A q \in Rule \ {r} : last'[q] = last[q]
        BY ONLY <3>0, <4>1, r \in Rule
      <4> QED
        BY <3>1, <4>2
    <3>2. CASE ~(m.k = "status" /\ m.n = 404 /\ asked[r].c = "next")
      <4>1. last' = last
        BY <1>1, <3>2
      <4> QED
        BY ONLY <3>2, <4>1
    <3> QED
      BY <3>1, <3>2
  <2> QED
    BY <2>1, <2>2, <2>3, <2>4
<1>7. ASSUME Quiet(inbox[r])
      PROVE  m.k # "obj" /\ m.k # "status" /\ Quiet(inbox'[r])
  BY <1>1, <1>4, <1>6, <1>7, ReadQuiet DEF m
<1>8. Ahead(r) => Fresh(r)'
  <2> SUFFICES ASSUME Fresh(r)
               PROVE  Fresh(r)'
    BY DEF IInv, Untouched
  <2>1. m.k # "obj" /\ m.k # "status" /\ Quiet(inbox'[r])
    BY <1>7 DEF Fresh
  <2>2. Quiet(inbox[r])'
    BY <2>1 DEF Quiet
  <2> QED
    BY <1>1, <1>2, <1>6, <2>1, <2>2 DEF Fresh
<1>9. Over(r) => Finished(r)'
  BY <1>1 DEF IInv, Past, Finished
<1>10. r = Turn => Current'
  <2> SUFFICES ASSUME r = Turn
               PROVE  Current'
    OBVIOUS
  <2>1. cur = r /\ pc # "ini" /\ cur' = r
    BY <1>2, Rules DEF Turn
  <2>2. Stage /\ Streams /\ Dialogue /\ Result /\ Live(cur)
    BY <1>1, <2>1 DEF IInv, Current, Live
  <2>3. Working
    BY <2>2 DEF Stage
  <2>4. Stage' /\ Streams' /\ Negative'
    <3>1. Negative
      BY <2>1 DEF IInv, Current
    <3>2. Negative'
      BY <1>1, <1>2, <3>1 DEF Negative, InNext, InRange
    <3> QED
      BY <1>1, <1>2, <2>2, <3>2 DEF Stage, Streams, Working, Live
  <2>5. /\ code[r] >= 0 /\ (fini = FALSE => last[r] = FALSE)
        /\ pc = "rule" => Waiting(r) /\ asked[r] = Period /\ code[r] = 0
        /\ pc = "failed" => Waiting(r) /\ InNext(asked[r]) /\ code[r] > 0
        /\ pc = "cli" => Talk(r) /\ (fini = TRUE => code[r] > 0 \/ nr = NObj[r])
    BY <2>1, <2>2, <2>3 DEF Dialogue
  <2>6. CASE Quiet(inbox[r])
    <3>1. Quiet(inbox[r])' /\ seen'[r] = seen[r] /\ asked'[r] = asked[r] /\ last'[r] = last[r]
      BY <1>6, <1>7, <2>6 DEF Quiet
    <3>2. Waiting(r) => Waiting(r)'
      BY <1>1, <1>2, <3>1 DEF Waiting
    <3>3. Talk(r) => Talk(r)'
      <4>1. ~GetsObject(r) /\ ~GetsEnd(r) /\ ~GetsAnswer(r)
        BY <2>6 DEF GetsObject, GetsEnd, GetsAnswer, Reported, Quiet, Status
      <4>2. HasWord(r) => HasWord(r)'
        BY <1>1, <1>2, <3>1 DEF HasWord, Comments, Before
      <4>6. InNext(asked[r])' = InNext(asked[r])
        BY <3>1 DEF InNext, InRange
      <4>7. Before(r)' = Before(r)
        <5>1. fini' = fini /\ last'[r] = last[r] /\ code' = code
          BY <1>1, <1>2, <3>1
        <5> QED
          BY ONLY <5>1 DEF Before
      <4>5. Upto(r)' = Upto(r)
        BY <1>1, <1>2, <3>1, <4>6, <4>7 DEF Upto
      <4>3. Asks(r) => Asks(r)'
        BY <1>1, <1>2, <3>1, <4>5 DEF Asks, Commands
      <4>4. Lost(r) => Lost(r)'
        BY <3>2, <4>5 DEF Lost
      <4> QED
        BY <4>1, <4>2, <4>3, <4>4 DEF Talk
    <3>4. Dialogue'
      <4>1. /\ code'[r] >= 0 /\ (fini' = FALSE => last'[r] = FALSE)
            /\ pc' = "rule" => Waiting(r)' /\ asked'[r] = Period /\ code'[r] = 0
            /\ pc' = "failed" => Waiting(r)' /\ InNext(asked'[r]) /\ code'[r] > 0
            /\ pc' = "cli" => Talk(r)' /\ (fini' = TRUE => code'[r] > 0 \/ nr' = NObj[r])
        BY <1>1, <1>2, <2>5, <3>1, <3>2, <3>3
      <4>2. Waiting(r)' = Waiting(cur)' /\ Talk(r)' = Talk(cur)' /\ InNext(asked'[r]) = InNext(asked[cur])'
        BY <2>1 DEF Talk, HasWord, GetsObject, GetsEnd, GetsAnswer, Asks, Lost, Waiting, Before, Upto,
                    Quiet, Comments, Commands, Reported, InNext, InRange
      <4> QED
        BY <2>1, <4>1, <4>2 DEF Dialogue
    <3>5. Result'
      <4>1. /\ last'[cur] = last[cur] /\ seen'[cur] = seen[cur] /\ code'[cur] = code[cur]
            /\ Live(cur)' = Live(cur) /\ cur' = cur
        BY <1>1, <1>2, <2>1, <3>1 DEF Live
      <4>2. Pending' = Pending
        BY <1>1, <1>2 DEF Pending, InNext, InRange
      <4> QED
        <5>1. /\ pc' = pc /\ nr' = nr /\ crashed' = crashed /\ cur' = cur
              /\ last'[cur'] = last[cur] /\ seen'[cur'] = seen[cur] /\ code'[cur'] = code[cur]
              /\ Live(cur)' = Live(cur)
          BY <1>1, <1>2, <4>1
        <5> QED
          BY ONLY <2>2, <4>2, <5>1 DEF Result, NoComments
    <3> QED
      BY <2>4, <3>4, <3>5 DEF Current
  <2>7. CASE ~Quiet(inbox[r])
    <3>1. pc = "cli" /\ (GetsObject(r) \/ GetsEnd(r) \/ GetsAnswer(r))
      BY <2>3, <2>5, <2>7 DEF Working, Talk, Waiting, HasWord, Asks, Lost
    <3>7. ASSUME Talk(r)', fini = FALSE => last'[r] = FALSE, last'[r] = TRUE /\ code[r] = 0 => seen'[r] = NObj[r]
          PROVE  Current'
      <4>1. Live(r)' /\ code'[r] = code[r] /\ code[r] \in Int /\ pc' = "cli"
        BY <1>1, <1>2, <2>2, <2>1, <3>1 DEF Live, IInv, ChildType
      <4>2. code[r] >= 0 /\ (fini = TRUE => code[r] > 0 \/ nr = NObj[r])
        BY <2>5, <3>1
      <4> QED
        BY <1>2, <2>1, <2>4, <3>7, <4>1, <4>2, TalkOn
    <3>6. (last'[r] = last[r] /\ seen'[r] = seen[r]) \/ last'[r] = FALSE
           => (last'[r] = TRUE /\ code[r] = 0 => seen'[r] = NObj[r])
      BY <2>1, <2>2 DEF Result
    <3>0. \A o, n : Reported(inbox'[r], o, n) => Reported(inbox[r], o, n)'
      BY DEF Reported, Status, Obj
    <3>9. /\ \A n : Status(n).k = "status" /\ Status(n).n = n
          /\ \A o : Obj(o).k = "obj"
      BY DEF Status, Obj
    <3>8. Quiet(inbox'[r]) => Quiet(inbox[r])'
      BY DEF Quiet
    <3>2. CASE GetsObject(r)
      <4>1. asked[r] = Period /\ outbox[r] = <<>> /\ fini = FALSE /\ code[r] = 0 /\ last[r] = FALSE
        BY <2>5, <3>2 DEF GetsObject
      <4>2. CASE nr > 0 /\ Reported(inbox[r], nr, 200) /\ seen[r] = nr - 1
        <5>1. nr # 0 /\ nr \in Nat
          BY <4>2 DEF IInv, TypeInv
        <5>2. CASE m = Obj(nr) /\ Reported(inbox'[r], 0, 200)
          <6>1. seen'[r] = nr /\ asked'[r] = asked[r] /\ last'[r] = last[r] /\ Reported(inbox[r], 0, 200)'
            BY <1>6, <3>0, <3>9, <4>2, <5>1, <5>2
          <6>2. GetsObject(r)'
            BY <1>1, <1>2, <4>1, <6>1 DEF GetsObject
          <6> QED
            BY <2>5, <3>6, <3>7, <4>1, <6>1, <6>2 DEF Talk
        <5>3. CASE m.k # "obj" /\ m.k # "status" /\ Reported(inbox'[r], nr, 200)
          <6>1. seen'[r] = seen[r] /\ asked'[r] = asked[r] /\ last'[r] = last[r] /\ Reported(inbox[r], nr, 200)'
            <7>0. m.k # "obj" /\ m.k # "status"
              BY <5>3
            <7>1. seen'[r] = seen[r] /\ asked'[r] = asked[r] /\ last'[r] = last[r]
              BY ONLY <1>6, <7>0
            <7> QED
              BY <1>2, <3>0, <5>3, <7>1
          <6>2. GetsObject(r)'
            BY <1>1, <1>2, <4>1, <4>2, <6>1 DEF GetsObject
          <6> QED
            BY <2>5, <3>6, <3>7, <4>1, <6>1, <6>2 DEF Talk
        <5> QED
          BY <1>1, <1>4, <1>6, <4>2, <5>1, <5>2, <5>3, ReadReported DEF m
      <4>3. CASE Reported(inbox[r], 0, 200) /\ seen[r] = nr
        <5>1. CASE m = Status(200) /\ Quiet(inbox'[r])
          <6>1. seen'[r] = nr /\ asked'[r] = NoCmd /\ last'[r] = last[r] /\ Quiet(inbox[r])'
            BY <1>6, <3>8, <3>9, <4>3, <5>1
          <6>2. HasWord(r)'
            BY <1>1, <1>2, <4>1, <6>1 DEF HasWord, Comments, Before
          <6> QED
            BY <2>5, <3>6, <3>7, <4>1, <6>1, <6>2 DEF Talk
        <5>2. CASE m.k # "obj" /\ m.k # "status" /\ Reported(inbox'[r], 0, 200)
          <6>1. seen'[r] = seen[r] /\ asked'[r] = asked[r] /\ last'[r] = last[r] /\ Reported(inbox[r], 0, 200)'
            <7>0. m.k # "obj" /\ m.k # "status"
              BY <5>2
            <7>1. seen'[r] = seen[r] /\ asked'[r] = asked[r] /\ last'[r] = last[r]
              BY ONLY <1>6, <7>0
            <7> QED
              BY <3>0, <5>2, <7>1
          <6>2. GetsObject(r)'
            BY <1>1, <1>2, <4>1, <4>3, <6>1 DEF GetsObject
          <6> QED
            BY <2>5, <3>6, <3>7, <4>1, <6>1, <6>2 DEF Talk
        <5> QED
          BY <1>1, <1>4, <1>6, <4>3, <5>1, <5>2, ReadReported DEF m
      <4> QED
        BY <3>2, <4>2, <4>3 DEF GetsObject
    <3>3. CASE GetsEnd(r)
      <4>1. /\ InNext(asked[r]) /\ outbox[r] = <<>> /\ fini = TRUE /\ last[r] = FALSE /\ seen[r] = nr
            /\ asked[r].c = "next" /\ Reported(inbox[r], 0, 404)
        BY <3>3 DEF GetsEnd, InNext
      <4>2. CASE m = Status(404) /\ Quiet(inbox'[r])
        <5>1. seen'[r] = nr /\ asked'[r] = NoCmd /\ last'[r] = TRUE /\ Quiet(inbox[r])'
          BY <1>6, <3>8, <3>9, <4>1, <4>2
        <5>2. HasWord(r)'
          BY <1>1, <1>2, <4>1, <5>1 DEF HasWord, Comments, Before
        <5>3. code[r] = 0 => nr = NObj[r]
          BY <2>5, <3>1, <4>1
        <5> QED
          BY <2>5, <3>6, <3>7, <4>1, <5>1, <5>2, <5>3 DEF Talk
      <4>3. CASE m.k # "obj" /\ m.k # "status" /\ Reported(inbox'[r], 0, 404)
        <5>1. seen'[r] = seen[r] /\ asked'[r] = asked[r] /\ last'[r] = last[r] /\ Reported(inbox[r], 0, 404)'
          <6>1. seen'[r] = seen[r] /\ asked'[r] = asked[r] /\ last'[r] = last[r]
            BY <1>6, <4>3
          <6> QED
            BY <3>0, <4>3, <6>1
        <5>3. InNext(asked[r])'
          BY <4>1, <5>1 DEF InNext, InRange
        <5>2. GetsEnd(r)'
          BY <1>1, <1>2, <4>1, <5>1, <5>3 DEF GetsEnd
        <5> QED
          BY <2>5, <3>6, <3>7, <4>1, <5>1, <5>2 DEF Talk
      <4> QED
        BY <1>1, <1>4, <1>6, <4>1, <4>2, <4>3, ReadReported DEF m
    <3>4. CASE GetsAnswer(r)
      <4>1. /\ asked[r] # NoCmd /\ ~InNext(asked[r]) /\ outbox[r] = <<>> /\ seen[r] = nr
            /\ Reported(inbox[r], 0, Answer(asked[r])) /\ Before(r)
        BY <3>4 DEF GetsAnswer
      <4>2. asked[r].c = "next" => Answer(asked[r]) # 404
        BY DEF Answer
      <4>3. CASE m = Status(Answer(asked[r])) /\ Quiet(inbox'[r])
        <5>1. seen'[r] = nr /\ asked'[r] = NoCmd /\ last'[r] = last[r] /\ Quiet(inbox[r])'
          BY <1>6, <3>8, <3>9, <4>1, <4>2, <4>3
        <5>2. HasWord(r)'
          BY <1>1, <1>2, <4>1, <5>1 DEF HasWord, Comments, Before
        <5> QED
          BY <2>5, <3>6, <3>7, <4>1, <5>1, <5>2 DEF Talk
      <4>4. CASE m.k # "obj" /\ m.k # "status" /\ Reported(inbox'[r], 0, Answer(asked[r]))
        <5>1. seen'[r] = seen[r] /\ asked'[r] = asked[r] /\ last'[r] = last[r]
          <6>1. m.k # "obj" /\ m.k # "status"
            BY <4>4
          <6> QED
            BY ONLY <1>6, <6>1
        <5>2. Answer(asked[r])' = Answer(asked[r])
          BY <5>1 DEF Answer
        <5>3. Reported(inbox[r], 0, Answer(asked[r]))'
          BY <3>0, <4>4, <5>2
        <5>5. InNext(asked[r])' = InNext(asked[r])
          BY <5>1 DEF InNext, InRange
        <5>6. Before(r)' = Before(r)
          <6>1. fini' = fini /\ last'[r] = last[r] /\ code' = code
            BY <1>1, <1>2, <5>1
          <6> QED
            BY ONLY <6>1 DEF Before
        <5>4. GetsAnswer(r)'
          BY <1>1, <1>2, <4>1, <5>1, <5>3, <5>5, <5>6 DEF GetsAnswer
        <5> QED
          BY <2>5, <3>6, <3>7, <4>1, <5>1, <5>4 DEF Talk
      <4> QED
        BY <1>1, <1>4, <1>6, <4>1, <4>3, <4>4, ReadReported DEF m
    <3> QED
      BY <3>1, <3>2, <3>3, <3>4
  <2> QED
    BY <2>6, <2>7
<1>11. Untouched' /\ Past' /\ Current' /\ Halts'
  BY <1>1, <1>6, <1>8, <1>9, <1>10, ChildFrame
<1> QED
  BY <1>3, <1>5, <1>11 DEF IInv

\* A process writes a command behind its comments.
LEMMA CommandBehind ==
  ASSUME NEW q \in Seq(Code), Comments(q), NEW c \in Code
  PROVE  /\ Append(q, c) \in Seq(Code)
         /\ c.c = "cmt" => Comments(Append(q, c))
         /\ c.c # "cmt" => Commands(Append(q, c), c)
         /\ NoComments => Len(Append(q, c)) = 1 /\ Append(q, c)[1] = c
<1> DEFINE s == Append(q, c)
           l == Len(q)
<1>1. /\ s \in Seq(Code) /\ l \in Nat /\ DOMAIN s = 1..(l + 1) /\ DOMAIN q = 1..l /\ Len(s) = l + 1
      /\ s[l + 1] = c /\ \A i \in 1..l : s[i] = q[i] /\ q[i] \in Code
  OBVIOUS
<1> HIDE DEF s, l
<1>2. \A i \in 1..l : s[i].c = "cmt"
  BY <1>1 DEF Comments
<1>3. c.c = "cmt" => Comments(s)
  <2> SUFFICES ASSUME c.c = "cmt", NEW i \in 1..(l + 1)
               PROVE  s[i].c = "cmt"
    BY <1>1 DEF Comments
  <2>1. i \in 1..l \/ i = l + 1
    BY <1>1
  <2> QED
    BY <1>1, <1>2, <2>1
<1>4. c.c # "cmt" => Commands(s, c)
  <2>1. Len(s) > 0 /\ s[Len(s)] = c /\ Len(s) - 1 = l
    BY <1>1
  <2> QED
    BY <1>2, <2>1 DEF Commands
<1>5. ASSUME NoComments
      PROVE  Len(s) = 1 /\ s[1] = c
  <2>1. ASSUME l # 0
        PROVE  FALSE
    <3>1. 1 \in 1..l
      BY <1>1, <2>1
    <3>2. q[1] \in Code /\ q[1].c = "cmt"
      BY <1>1, <3>1 DEF Comments
    <3>3. Period.c # "cmt"
      BY DEF Period
    <3> QED
      BY <1>5, <3>2, <3>3 DEF NoComments, Code
  <2> QED
    BY <1>1, <2>1
<1> QED
  BY <1>1, <1>3, <1>4, <1>5 DEF s

\* Only a process that has the word sends a command.
LEMMA SendInv ==
  ASSUME IInv, NEW r \in Rule, NEW c \in Code, Send(r, c)
  PROVE  IInv'
<1>1. /\ st[r] = "run" /\ asked[r] = NoCmd
      /\ outbox' = [outbox EXCEPT ![r] = Append(@, c)]
      /\ IF InNext(c) /\ (last[r] \/ c.a < 0)
           THEN /\ st' = [st EXCEPT ![r] = IF Ends[r] = "period" THEN "gone" ELSE "done"]
                /\ asked' = asked
           ELSE /\ asked' = IF c.c = "cmt" THEN asked ELSE [asked EXCEPT ![r] = c]
                /\ st' = st
      /\ code' = IF InNext(c) /\ ~last[r] /\ code[r] = 0 THEN [code EXCEPT ![r] = c.a] ELSE code
      /\ parent' = parent /\ unsent' = unsent /\ inbox' = inbox
      /\ seen' = seen /\ last' = last /\ crashed' = crashed
  BY DEF Send, InNext
<1>2. pc' = pc /\ cur' = cur /\ nr' = nr /\ fini' = fini /\ fout' = fout /\ cfd' = cfd
  BY <1>1 DEF parent
<1>3. TypeInv'
  BY <1>1, <1>2 DEF IInv, TypeInv
<1>4. /\ outbox[r] \in Seq(Code) /\ code[r] \in Int /\ last[r] \in BOOLEAN /\ c.a \in Int /\ c # NoCmd
      /\ Append(outbox[r], c) \in Seq(Code)
  <2>1. outbox[r] \in Seq(Code) /\ code[r] \in Int /\ last[r] \in BOOLEAN
    BY DEF IInv, ChildType
  <2> QED
    BY <2>1, Commanded
<1>5. ChildType'
  <2>1. outbox' \in [Rule -> Seq(Code)]
    BY <1>1, <1>4 DEF IInv, ChildType
  <2>2. code' \in [Rule -> Int]
    BY <1>1, <1>4 DEF IInv, ChildType
  <2>3. asked' \in [Rule -> Code \cup {NoCmd}]
    BY <1>1 DEF IInv, ChildType
  <2>4. st' \in [Rule -> {"none", "forked", "run", "done", "gone"}]
    BY <1>1 DEF IInv, ChildType
  <2>5. \A q \in Rule : st'[q] \in {"run", "done"} => q \notin Missing
    BY <1>1 DEF IInv, ChildType
  <2> QED
    BY <1>1, <2>1, <2>2, <2>3, <2>4, <2>5 DEF IInv, ChildType
<1>6. /\ outbox'[r] = Append(outbox[r], c)
      /\ \A q \in Rule \ {r} : outbox'[q] = outbox[q] /\ asked'[q] = asked[q] /\ st'[q] = st[q] /\ code'[q] = code[q]
  <2>1. outbox'[r] = Append(outbox[r], c) /\ \A q \in Rule \ {r} : outbox'[q] = outbox[q]
    BY <1>1 DEF IInv, ChildType
  <2>2. \A q \in Rule \ {r} : asked'[q] = asked[q]
    BY <1>1 DEF IInv, ChildType
  <2>3. \A q \in Rule \ {r} : st'[q] = st[q]
    BY <1>1 DEF IInv, ChildType
  <2>4. \A q \in Rule \ {r} : code'[q] = code[q]
    BY <1>1 DEF IInv, ChildType
  <2> QED
    BY <2>1, <2>2, <2>3, <2>4
<1>7. ~Ahead(r) /\ ~Over(r) /\ (r \in halted => code'[r] = code[r])
  <2>1. Period # NoCmd
    BY Commanded
  <2>2. ~Ahead(r) /\ ~Over(r)
    BY <1>1, <2>1 DEF IInv, Untouched, Past, Fresh, Finished
  <2>3. r \in halted => code[r] # 0
    BY <1>4 DEF IInv, Halts
  <2> QED
    BY <1>1, <2>2, <2>3
<1>8. r = Turn => Current'
  <2> SUFFICES ASSUME r = Turn
               PROVE  Current'
    OBVIOUS
  <2>1. cur = r /\ pc # "ini" /\ cur' = r
    BY <1>2, Rules DEF Turn
  <2>2. Stage /\ Streams /\ Dialogue /\ Result /\ Live(cur)
    BY <1>1, <2>1 DEF IInv, Current, Live
  <2>3. Working
    BY <2>2 DEF Stage
  <2>4. /\ code[r] >= 0 /\ (fini = FALSE => last[r] = FALSE)
        /\ pc = "cli" /\ HasWord(r) /\ (fini = TRUE => code[r] > 0 \/ nr = NObj[r])
    <3>1. ~InNext(NoCmd) /\ Period # NoCmd
      BY Commanded DEF InNext, NoCmd
    <3> QED
      BY <1>1, <2>1, <2>2, <2>3, <3>1
         DEF Dialogue, Working, Talk, Waiting, GetsObject, GetsEnd, GetsAnswer, Asks, Lost
  <2>5. Comments(outbox[r]) /\ Quiet(inbox[r]) /\ seen[r] = nr /\ Before(r)
    BY <2>4 DEF HasWord
  <2>6. last[r] = TRUE /\ code[r] = 0 => seen[r] = NObj[r]
    BY <2>1, <2>2 DEF Result
  <2>9. Negative'
    <3> SUFFICES ASSUME fini = FALSE, NEW i \in DOMAIN outbox'[r], InNext(outbox'[r][i]), outbox'[r][i].a < 0
                 PROVE  code'[r] < 0
      BY <1>2, <2>1 DEF Negative, InNext, InRange
    <3>1. code[r] = 0 /\ last[r] = FALSE
      BY <2>4, <2>5 DEF Before
    <3>2. i = Len(outbox[r]) + 1 /\ outbox'[r][i] = c
      <4>1. /\ DOMAIN outbox'[r] = 1..(Len(outbox[r]) + 1) /\ Len(outbox[r]) \in Nat /\ outbox'[r][Len(outbox[r]) + 1] = c
            /\ \A k \in 1..Len(outbox[r]) : outbox'[r][k] = outbox[r][k] /\ k \in DOMAIN outbox[r]
        BY <1>4, <1>6
      <4>2. \A k \in 1..Len(outbox[r]) : ~InNext(outbox'[r][k])
        BY <2>5, <4>1 DEF Comments, InNext
      <4>3. i \in 1..Len(outbox[r]) \/ i = Len(outbox[r]) + 1
        BY <4>1
      <4> QED
        BY <4>1, <4>2, <4>3
    <3>3. code'[r] = c.a
      BY <1>1, <3>1, <3>2 DEF IInv, ChildType
    <3> QED
      BY <3>2, <3>3
  <2>7. CASE InNext(c) /\ (last[r] \/ c.a < 0)
    <3>1. st'[r] \in {"gone", "done"} /\ asked'[r] = NoCmd
      BY <1>1, <2>7 DEF IInv, ChildType
    <3>2. Stage'
      BY <1>2, <2>1, <2>2, <2>4, <3>1 DEF Stage, Live, Working
    <3>3. Streams'
      BY <1>2, <2>1, <2>2, <2>3, <3>1 DEF Streams, Live, Working
    <3>4. ~Live(cur)'
      BY <2>1, <3>1 DEF Live
    <3>5. Dialogue'
      BY <3>4 DEF Dialogue
    <3>6. CASE last[r] = TRUE
      <4>1. code'[r] = code[r] /\ last'[r] = TRUE /\ seen'[r] = seen[r]
        BY <1>1, <3>6
      <4>2. ~(code'[r] < 0) /\ (code'[r] = 0 => seen'[r] = NObj[r])
        BY <1>4, <2>4, <2>6, <3>6, <4>1
      <4>3. Result'
        BY <2>1, <4>1, <4>2 DEF Result
      <4> QED
        BY <2>9, <3>2, <3>3, <3>5, <4>3 DEF Current
    <3>7. CASE last[r] = FALSE
      <4>1. fini = FALSE /\ code[r] = 0 /\ c.a < 0
        BY <2>5, <2>7, <3>7, <1>4 DEF Before, IInv, TypeInv
      <4>2. code'[r] = c.a /\ last'[r] = FALSE
        BY <1>1, <2>7, <3>7, <4>1 DEF IInv, ChildType
      <4>3. NoComments => Pending'
        <5> SUFFICES ASSUME NoComments
                     PROVE  Pending'
          OBVIOUS
        <5>1. Len(outbox'[r]) = 1 /\ outbox'[r][1] = c
          BY <1>4, <1>6, <2>5, CommandBehind
        <5>2. InNext(outbox[cur][1])'
          BY <2>1, <2>7, <5>1 DEF InNext, InRange
        <5> QED
          BY <1>2, <2>1, <2>4, <4>1, <5>1, <5>2 DEF Pending
      <4>4. Result'
        BY <2>1, <4>1, <4>2, <4>3 DEF Result, NoComments
      <4> QED
        BY <2>9, <3>2, <3>3, <3>5, <4>4 DEF Current
    <3> QED
      BY <1>4, <3>6, <3>7
  <2>8. CASE ~(InNext(c) /\ (last[r] \/ c.a < 0))
    <3>1. st' = st /\ last'[r] = last[r] /\ seen'[r] = seen[r]
      BY <1>1, <2>8
    <3>2. Stage' /\ Streams' /\ Live(r)'
      BY <1>2, <2>1, <2>2, <2>3, <3>1 DEF Stage, Streams, Live, Working
    <3>3. Quiet(inbox[r])'
      BY <1>1, <2>5 DEF Quiet
    <3>4. CASE c.c = "cmt"
      <4>1. code' = code /\ asked'[r] = NoCmd
        BY <1>1, <2>8, <3>4 DEF InNext
      <4>2. Comments(outbox'[r])
        BY <1>4, <1>6, <2>5, <3>4, CommandBehind
      <4>3. Comments(outbox[r])'
        BY <4>2 DEF Comments
      <4>4. HasWord(r)'
        BY <1>2, <2>5, <3>1, <3>3, <4>1, <4>3 DEF HasWord, Before
      <4> QED
        BY <1>2, <1>4, <2>1, <2>4, <2>6, <2>9, <3>1, <3>2, <4>1, <4>4, TalkOn DEF Talk
    <3>5. CASE c.c # "cmt"
      <4>1. asked'[r] = c
        BY <1>1, <2>8, <3>5 DEF IInv, ChildType
      <4>2. Commands(outbox'[r], c)
        BY <1>4, <1>6, <2>5, <3>5, CommandBehind
      <4>3. Commands(outbox[r], asked[r])'
        BY <4>1, <4>2 DEF Commands
      <4>4. CASE InNext(c)
        <5>1. last[r] = FALSE /\ c.a >= 0
          BY <1>4, <2>8, <4>4
        <5>2. fini = FALSE /\ code[r] = 0
          BY <2>5, <5>1 DEF Before, IInv, TypeInv
        <5>3. code'[r] = c.a
          BY <1>1, <4>4, <5>1, <5>2 DEF IInv, ChildType
        <5>4. Upto(r)'
          BY <1>2, <4>1, <4>4, <5>1, <5>2, <5>3 DEF Upto, InNext, InRange
        <5>5. Asks(r)'
          BY <1>2, <1>4, <2>5, <3>1, <3>3, <4>1, <4>3, <5>4 DEF Asks
        <5> QED
          <6>1. /\ code'[r] \in Int /\ code'[r] >= 0
                /\ fini' = FALSE /\ last'[r] = FALSE
            BY <1>2, <1>4, <3>1, <5>1, <5>2, <5>3
          <6>2. cur' = r /\ pc' = "cli" /\ Talk(r)'
            BY <1>2, <2>1, <2>4, <5>5 DEF Talk
          <6> QED
            BY <2>9, <3>2, <6>1, <6>2, TalkOn
      <4>5. CASE ~InNext(c)
        <5>1. code' = code
          BY <1>1, <4>5
        <5>2. Upto(r)'
          <6>1. Before(r)'
            BY <1>2, <2>5, <3>1, <5>1 DEF Before
          <6> QED
            BY <4>1, <4>5, <6>1 DEF Upto, InNext, InRange
        <5>3. Asks(r)'
          BY <1>2, <1>4, <2>5, <3>1, <3>3, <4>1, <4>3, <5>2 DEF Asks
        <5> QED
          <6>1. /\ code'[r] \in Int /\ code'[r] >= 0 /\ (fini' = FALSE => last'[r] = FALSE)
                /\ fini' = TRUE => code'[r] > 0 \/ nr' = NObj[r]
                /\ last'[r] = TRUE /\ code'[r] = 0 => seen'[r] = NObj[r]
            BY <1>2, <1>4, <2>4, <2>6, <3>1, <5>1
          <6>2. cur' = r /\ pc' = "cli" /\ Talk(r)'
            BY <1>2, <2>1, <2>4, <5>3 DEF Talk
          <6> QED
            BY <2>9, <3>2, <6>1, <6>2, TalkOn
      <4> QED
        BY <4>4, <4>5
    <3> QED
      BY <3>4, <3>5
  <2> QED
    BY <2>7, <2>8
<1>9. Untouched' /\ Past' /\ Current' /\ Halts'
  BY <1>1, <1>6, <1>7, <1>8, ChildFrame
<1> QED
  BY <1>3, <1>5, <1>9 DEF IInv

(***************************************************************************)
(* A step of the parent                                                    *)
(***************************************************************************)
\* The rule whose turn it is was not left out.
LEMMA NotSkipped ==
  ASSUME IInv, cur \in Rule
  PROVE  ~Skipped(cur)
<1>1. \A p \in halted : p \in Rule /\ Pass[p] < Pass[cur]
  BY DEF IInv, Halts
<1>2. \A p \in Rule : Pass[p] \in Nat
  BY ExecAssumption
<1> QED
  BY <1>1, <1>2 DEF Skipped

LEMMA ParentFrame ==
  ASSUME IInv, child' = child, cur' = cur, halted' = halted, pc # "ini", pc' # "ini", pc # "end",
         \A q \in Rule \ {cur} :
           /\ Quiet(inbox[q]) => Quiet(inbox'[q])
           /\ outbox'[q] = outbox[q]
           /\ pc' = "end" \/ (fout'[q] = fout[q] /\ cfd'[q] = cfd[q])
  PROVE  Untouched' /\ Past' /\ Halts'
<1>1. /\ st' = st /\ asked' = asked /\ seen' = seen /\ last' = last /\ code' = code /\ crashed' = crashed
      /\ Turn = cur /\ Turn' = cur
  BY DEF child, Turn
<1>2. cur \in Nat /\ \A q \in Rule : Ahead(q)' = Ahead(q) /\ Over(q)' = Over(q)
  BY <1>1, Rules DEF IInv, TypeInv, Ahead, Over, Skipped
<1>3. ASSUME NEW q \in Rule, Ahead(q)
      PROVE  Fresh(q)'
  <2>0. q # cur
    <3> SUFFICES ASSUME q = cur
                 PROVE  FALSE
      OBVIOUS
    <3>1. cur \in Rule /\ ~(cur > Turn)
      BY <1>1, <1>2
    <3> QED
      BY <1>3, <3>1, NotSkipped DEF Ahead
  <2>1. Fresh(q) /\ q \in Rule \ {cur}
    BY <1>3, <2>0 DEF IInv, Untouched
  <2>2. Quiet(inbox'[q])
    BY <2>1 DEF Fresh
  <2>3. Quiet(inbox[q])'
    BY <2>2 DEF Quiet
  <2> QED
    BY <1>1, <2>1, <2>3 DEF Fresh
<1>4. ASSUME NEW q \in Rule, Over(q)
      PROVE  Finished(q)'
  BY <1>1, <1>4 DEF IInv, Past, Finished, NoComments
<1>5. Halts'
  BY <1>1 DEF IInv, Halts
<1> QED
  BY <1>2, <1>3, <1>4, <1>5 DEF Untouched, Past

\* The parent comes to a rule.
LEMMA TakeOver ==
  ASSUME IInv, NEW r \in Rule, Fresh(r), st[r] # "none", pc # "end", child' = child,
         cur' = r, pc' = "rule", nr' = 0, fini' = FALSE,
         fout' = fout, cfd' = cfd, inbox' = inbox, outbox' = outbox
  PROVE  Current'
<1>1. st' = st /\ asked' = asked /\ seen' = seen /\ last' = last /\ code' = code /\ crashed' = crashed
  BY DEF child
<1>2. /\ asked[r] = Period /\ seen[r] = 0 /\ code[r] = 0 /\ last[r] = FALSE /\ outbox[r] = <<>>
      /\ Quiet(inbox[r]) /\ fout[r] = TRUE /\ "out" \in cfd[r] /\ Period # NoCmd
      /\ st[r] = "gone" => r \in crashed \cup Missing
  BY Commanded DEF Fresh
<1>3. Stage'
  BY <1>1, Rules DEF Stage, Working
<1>4. Streams'
  BY <1>1, <1>2 DEF Streams
<1>5. Dialogue'
  <2>1. Quiet(inbox[cur])'
    BY <1>2 DEF Quiet
  <2>2. Waiting(cur)'
    BY <1>1, <1>2, <2>1 DEF Waiting
  <2> QED
    BY <1>1, <1>2, <2>2 DEF Dialogue
<1>6. Result'
  <2>1. ~(code'[r] < 0)
    BY <1>1, <1>2
  <2>2. ~Live(cur)' => r \in crashed \cup Missing
    <3> SUFFICES ASSUME ~Live(cur)'
                 PROVE  r \in crashed \cup Missing
      OBVIOUS
    <3>1. st'[r] \notin {"none", "forked", "run"}
      BY DEF Live
    <3>2. st[r] \in {"none", "forked", "run", "done", "gone"} /\ st'[r] = st[r]
      BY <1>1 DEF IInv, ChildType
    <3> QED
      BY <1>2, <3>1, <3>2 DEF Fresh
  <2> QED
    BY <1>1, <1>2, <2>1, <2>2 DEF Result
<1>7. Negative'
  BY <1>2 DEF Negative
<1> QED
  BY <1>3, <1>4, <1>5, <1>6, <1>7 DEF Current

\* act_exec_ini() of one rule.
LEMMA ForkInv ==
  ASSUME IInv, Fork
  PROVE  IInv'
<1>1. /\ pc = "ini" /\ cur \in Rule /\ pc' = pc /\ cur' = cur + 1 /\ nr' = nr /\ fini' = fini /\ halted' = halted
      /\ fout' = [fout EXCEPT ![cur] = TRUE] /\ unsent' = [unsent EXCEPT ![cur] = <<Header>>]
      /\ cfd' = [cfd EXCEPT ![cur] = {"out", "err"}] /\ st' = [st EXCEPT ![cur] = "forked"]
      /\ inbox' = inbox /\ outbox' = outbox /\ asked' = asked
      /\ seen' = seen /\ last' = last /\ code' = code /\ crashed' = crashed
  BY DEF Fork
<1>2. TypeInv'
  <2>1. fout' \in [Rule -> BOOLEAN] /\ unsent' \in [Rule -> {<<>>, <<Header>>}]
        /\ cfd' \in [Rule -> SUBSET {"out", "err"}]
    BY <1>1 DEF IInv, TypeInv
  <2>2. cur' \in 1..(Len(NObj) + 1)
    BY <1>1, Rules
  <2> QED
    BY <1>1, <2>1, <2>2 DEF IInv, TypeInv
<1>3. ChildType'
  BY <1>1 DEF IInv, ChildType
<1>4. /\ st'[cur] = "forked" /\ fout'[cur] = TRUE /\ "out" \in cfd'[cur]
      /\ \A q \in Rule \ {cur} : st'[q] = st[q] /\ fout'[q] = fout[q] /\ cfd'[q] = cfd[q]
  <2>1. st'[cur] = "forked" /\ \A q \in Rule \ {cur} : st'[q] = st[q]
    BY <1>1 DEF IInv, ChildType
  <2>2. fout'[cur] = TRUE /\ \A q \in Rule \ {cur} : fout'[q] = fout[q]
    BY <1>1 DEF IInv, TypeInv
  <2>3. "out" \in cfd'[cur] /\ \A q \in Rule \ {cur} : cfd'[q] = cfd[q]
    BY <1>1 DEF IInv, TypeInv
  <2> QED
    BY <2>1, <2>2, <2>3
<1>5. ASSUME NEW q \in Rule
      PROVE  Fresh(q)'
  <2>1. Fresh(q)
    BY <1>1, Rules DEF IInv, Untouched, Ahead, Turn
  <2>2. Quiet(inbox[q])'
    BY <1>1, <2>1 DEF Fresh, Quiet
  <2>3. CASE q = cur
    <3>1. ~(q >= cur')
      BY <1>1, <2>3, Rules
    <3> QED
      BY <1>1, <1>4, <2>1, <2>2, <2>3, <3>1 DEF Fresh
  <2>4. CASE q # cur
    <3>1. q >= cur' <=> q >= cur
      BY <1>1, <2>4, Rules
    <3> QED
      BY <1>1, <1>4, <2>1, <2>2, <2>4, <3>1 DEF Fresh
  <2> QED
    BY <2>3, <2>4
<1>6. Untouched' /\ Current' /\ Past' /\ Halts'
  <2>1. Turn = 0 /\ Turn' = 0
    BY <1>1 DEF Turn
  <2>2. halted = {}
    BY <2>1, Rules DEF IInv, Halts
  <2> QED
    BY <1>1, <1>5, <2>1, <2>2, Rules DEF Untouched, Current, Past, Over, Halts
<1> QED
  BY <1>2, <1>3, <1>6 DEF IInv

\* All rules are initialised.
LEMMA IniDoneInv ==
  ASSUME IInv, IniDone
  PROVE  IInv'
<1>1. /\ pc = "ini" /\ cur \notin Rule /\ pc' = "rule" /\ cur' = 1
      /\ nr' = nr /\ fini' = fini /\ halted' = halted /\ fout' = fout /\ cfd' = cfd /\ unsent' = unsent
      /\ inbox' = inbox /\ outbox' = outbox /\ child' = child
  BY DEF IniDone
<1>2. st' = st /\ asked' = asked /\ seen' = seen /\ last' = last /\ code' = code /\ crashed' = crashed
  BY <1>1 DEF child
<1>3. nr = 0 /\ fini = FALSE /\ cur = Len(NObj) + 1 /\ Turn = 0 /\ Turn' = 1
  BY <1>1, Rules DEF IInv, TypeInv, Turn
<1>4. TypeInv' /\ ChildType'
  <2>1. ChildType'
    BY <1>1, <1>2 DEF IInv, ChildType
  <2>2. cur' \in 1..(Len(NObj) + 1) /\ nr' \in Nat
    BY <1>1, <1>3, Rules
  <2> QED
    BY <1>1, <2>1, <2>2 DEF IInv, TypeInv
<1>5. ASSUME NEW q \in Rule
      PROVE  Fresh(q) /\ st[q] # "none" /\ Fresh(q)'
  <2>1. Fresh(q) /\ ~(q >= cur)
    BY <1>3, Rules DEF IInv, Untouched, Ahead
  <2>2. st[q] # "none"
    BY <1>1, <2>1 DEF Fresh
  <2>3. Quiet(inbox[q])'
    BY <1>1, <2>1 DEF Fresh, Quiet
  <2> QED
    BY <1>1, <1>2, <2>1, <2>2, <2>3 DEF Fresh
<1>6. Untouched' /\ Past' /\ Halts'
  <2>1. halted = {}
    BY <1>3, Rules DEF IInv, Halts
  <2> QED
    BY <1>1, <1>3, <1>5, <2>1, Rules DEF Untouched, Past, Over, Halts
<1>7. Current'
  <2>1. CASE 1 \in Rule
    <3>1. Fresh(1) /\ st[1] # "none"
      BY <1>5, <2>1
    <3> QED
      BY <1>1, <1>3, <2>1, <3>1, TakeOver
  <2>2. CASE 1 \notin Rule
    BY <1>1, <2>2 DEF Current
  <2> QED
    BY <2>1, <2>2
<1> QED
  BY <1>4, <1>6, <1>7 DEF IInv

\* act_exec_fini() collects the process.
LEMMA WaitInv ==
  ASSUME IInv, Wait
  PROVE  IInv'
<1>1. /\ pc = "wait" /\ st[cur] = "gone" /\ pc' = "rule" /\ cur' = cur + 1 /\ nr' = 0 /\ fini' = FALSE
      /\ halted' = halted /\ fout' = fout /\ cfd' = cfd /\ unsent' = unsent
      /\ inbox' = inbox /\ outbox' = outbox /\ child' = child
  BY DEF Wait
<1>2. st' = st /\ asked' = asked /\ seen' = seen /\ last' = last /\ code' = code /\ crashed' = crashed
  BY <1>1 DEF child
<1>3. cur \in Rule /\ Turn = cur /\ Turn' = cur + 1
  BY <1>1 DEF IInv, TypeInv, Turn
<1>4. TypeInv' /\ ChildType'
  <2>1. ChildType'
    BY <1>1, <1>2 DEF IInv, ChildType
  <2>2. cur' \in 1..(Len(NObj) + 1)
    BY <1>1, <1>3, Rules
  <2> QED
    BY <1>1, <2>1, <2>2 DEF IInv, TypeInv
<1>5. ASSUME NEW q \in Rule, Ahead(q)
      PROVE  Fresh(q) /\ st[q] # "none" /\ Fresh(q)'
  <2>1. Fresh(q)
    BY <1>5 DEF IInv, Untouched
  <2>2. st[q] # "none"
    BY <1>1, <2>1 DEF Fresh
  <2>3. Quiet(inbox[q])'
    BY <1>1, <2>1 DEF Fresh, Quiet
  <2> QED
    BY <1>1, <1>2, <2>1, <2>2, <2>3 DEF Fresh
<1>6. Finished(cur)
  <2>1. Result
    BY <1>1, <1>3 DEF IInv, Current
  <2>2. ~Live(cur) /\ ~Pending
    BY <1>1 DEF Live, Pending
  <2>3. code[cur] \in Int
    BY <1>3 DEF IInv, ChildType
  <2> QED
    BY <1>1, <2>1, <2>2, <2>3 DEF Result, Finished
<1>7. ASSUME NEW q \in Rule, Over(q)'
      PROVE  Finished(q)'
  <2>1. q < cur + 1 /\ ~Skipped(q)
    BY <1>1, <1>3, <1>7 DEF Over, Skipped
  <2>2. q = cur \/ Over(q)
    BY <1>3, <2>1, Rules DEF Over
  <2>3. Finished(q)
    BY <1>6, <2>2 DEF IInv, Past
  <2> QED
    BY <1>1, <1>2, <2>3 DEF Finished, NoComments
<1>8. Untouched' /\ Past' /\ Halts'
  <2>1. \A q \in Rule : Ahead(q)' => Ahead(q)
    BY <1>1, <1>3, Rules DEF Ahead, Skipped
  <2>2. Halts'
    <3>1. ASSUME NEW p \in halted
          PROVE  p \in Rule /\ p < cur + 1 /\ code[p] < 0 /\ (cur + 1 \in Rule => Pass[p] < Pass[cur + 1])
      <4>1. p \in Rule /\ p < cur /\ code[p] < 0 /\ Pass[p] < Pass[cur]
        BY <1>3 DEF IInv, Halts
      <4>2. cur + 1 \in Rule => Pass[cur] <= Pass[cur + 1] /\ Pass[cur + 1] \in Nat
        BY <1>3, ExecAssumption, Rules
      <4>3. Pass[p] \in Nat /\ Pass[cur] \in Nat /\ p \in Nat /\ cur \in Nat
        BY <1>3, <4>1, ExecAssumption, Rules
      <4>4. cur + 1 \in Rule => Pass[p] < Pass[cur + 1]
        BY <4>1, <4>2, <4>3
      <4> QED
        BY <4>1, <4>3, <4>4
    <3> QED
      BY <1>1, <1>2, <1>3, <3>1 DEF Halts
  <2> QED
    BY <1>5, <1>7, <2>1, <2>2 DEF Untouched, Past
<1>9. Current'
  <2>1. CASE cur + 1 \in Rule
    <3>1. Fresh(cur + 1) /\ st[cur + 1] # "none"
      BY <1>3, <1>5, <2>1, Rules DEF Ahead
    <3> QED
      BY <1>1, <2>1, <3>1, TakeOver
  <2>2. CASE cur + 1 \notin Rule
    BY <1>1, <2>2 DEF Current
  <2> QED
    BY <2>1, <2>2
<1> QED
  BY <1>4, <1>8, <1>9 DEF IInv

\* What the parent knows of the rule whose turn it is.
LEMMA AtWork ==
  ASSUME IInv, cur \in Rule, pc # "ini"
  PROVE  /\ Stage /\ Streams /\ Dialogue /\ Result /\ Negative /\ Turn = cur
         /\ inbox[cur] \in Seq(Msg) /\ outbox[cur] \in Seq(Code) /\ code[cur] \in Int
         /\ seen[cur] \in Nat /\ nr \in Nat /\ NObj[cur] \in Nat /\ last[cur] \in BOOLEAN /\ fini \in BOOLEAN
         /\ st[cur] \in {"none", "forked", "run", "done", "gone"}
         /\ unsent[cur] \in Seq(Msg) /\ Quiet(unsent[cur])
<1>1. /\ Stage /\ Streams /\ Dialogue /\ Result /\ Negative /\ Turn = cur
      /\ inbox[cur] \in Seq(Msg) /\ outbox[cur] \in Seq(Code) /\ code[cur] \in Int
      /\ seen[cur] \in Nat /\ nr \in Nat /\ NObj[cur] \in Nat /\ last[cur] \in BOOLEAN /\ fini \in BOOLEAN
      /\ st[cur] \in {"none", "forked", "run", "done", "gone"}
  BY Rules DEF IInv, Current, ChildType, TypeInv, Turn
<1>2. unsent[cur] \in {<<>>, <<Header>>}
  BY DEF IInv, TypeInv
<1>3. Header \in Msg /\ Header.k = "header"
  BY DEF Header, Msg
<1>4. <<>> \in Seq(Msg) /\ Quiet(<<>>)
  BY DEF Quiet
<1>5. <<Header>> \in Seq(Msg) /\ Quiet(<<Header>>)
  BY <1>3 DEF Quiet
<1> QED
  BY <1>1, <1>2, <1>4, <1>5

\* main() goes on with the first rule of a later version.
LEMMA NextPassInv ==
  ASSUME IInv, NextPass
  PROVE  IInv'
<1> DEFINE later == {q \in Rule : Pass[q] > Pass[cur]}
           least == CHOOSE q \in later : \A p \in later : q <= p
<1>1. /\ pc = "stop" /\ pc' = "rule" /\ nr' = 0 /\ fini' = FALSE /\ halted' = halted \cup {cur}
      /\ cur' = IF later = {} THEN Len(NObj) + 1 ELSE least
      /\ fout' = fout /\ cfd' = cfd /\ unsent' = unsent
      /\ inbox' = inbox /\ outbox' = outbox /\ child' = child
  BY DEF NextPass
<1>2. st' = st /\ asked' = asked /\ seen' = seen /\ last' = last /\ code' = code /\ crashed' = crashed
  BY <1>1 DEF child
<1>3. cur \in Rule /\ Turn = cur /\ Turn' = cur'
  BY <1>1 DEF IInv, TypeInv, Turn
<1>4. Stage /\ Result /\ code[cur] < 0 /\ ~Live(cur) /\ code[cur] \in Int
      /\ st[cur] \in {"none", "forked", "run", "done", "gone"}
  <2>1. Stage /\ Result /\ code[cur] \in Int /\ st[cur] \in {"none", "forked", "run", "done", "gone"}
    BY <1>1, <1>3, AtWork
  <2> QED
    BY <1>1, <2>1 DEF Stage, Working
<1>5. \A p \in Rule : Pass[p] \in Nat
  BY ExecAssumption
<1>6. \* the next rule
      \/ cur' = Len(NObj) + 1 /\ cur' \notin Rule /\ \A q \in Rule : Pass[q] <= Pass[cur]
      \/ cur' \in Rule /\ Pass[cur] < Pass[cur'] /\ \A q \in Rule : Pass[q] > Pass[cur] => cur' <= q
  <2>1. CASE later = {}
    <3>1. cur' = Len(NObj) + 1 /\ cur' \notin Rule
      BY <1>1, <2>1, Rules
    <3>2. \A q \in Rule : Pass[q] <= Pass[cur]
      BY <1>3, <1>5, <2>1
    <3> QED
      BY <3>1, <3>2
  <2>2. CASE later # {}
    <3>1. later \in SUBSET Nat
      BY Rules
    <3>2. \E q \in later : \A p \in later : q <= p
      <4> HIDE DEF later
      <4> QED
        BY <2>2, <3>1, LeastNatural
    <3>3. cur' \in later /\ \A p \in later : cur' <= p
      BY <1>1, <2>2, <3>2
    <3> QED
      BY <3>3
  <2> QED
    BY <2>1, <2>2
<1>7. cur < cur' /\ cur' \in 1..(Len(NObj) + 1)
  <2>1. CASE cur' \in Rule
    <3>1. ~(cur' <= cur)
      BY <1>3, <1>5, <1>6, <2>1, ExecAssumption, Rules
    <3> QED
      BY <1>3, <2>1, <3>1, Rules
  <2>2. CASE cur' \notin Rule
    BY <1>3, <1>6, <2>2, Rules
  <2> QED
    BY <2>1, <2>2
<1> HIDE DEF later, least
<1>8. TypeInv' /\ ChildType'
  <2>1. ChildType'
    BY <1>1, <1>2 DEF IInv, ChildType
  <2> QED
    BY <1>1, <1>7, <2>1 DEF IInv, TypeInv
<1>9. \A q \in Rule : Skipped(q)' <=> Skipped(q) \/ (cur < q /\ Pass[cur] = Pass[q])
  BY <1>1, <1>3 DEF Skipped
<1>10. ASSUME NEW q \in Rule, Ahead(q)
       PROVE  Fresh(q) /\ st[q] # "none" /\ Fresh(q)'
  <2>1. Fresh(q)
    BY <1>10 DEF IInv, Untouched
  <2>2. st[q] # "none"
    BY <1>1, <2>1 DEF Fresh
  <2>3. Quiet(inbox[q])'
    BY <1>1, <2>1 DEF Fresh, Quiet
  <2> QED
    BY <1>1, <1>2, <2>1, <2>2, <2>3 DEF Fresh
<1>11. ASSUME NEW q \in Rule
       PROVE  (Ahead(q)' => Ahead(q)) /\ (Over(q)' => Over(q) \/ q = cur)
  <2>1. cur \in Nat /\ cur' \in Nat /\ q \in Nat
    BY <1>3, <1>7, Rules
  <2>2. Ahead(q)' => Ahead(q)
    BY <1>3, <1>7, <1>9, <2>1 DEF Ahead
  <2>3. Over(q)' => Over(q) \/ q = cur
    <3> SUFFICES ASSUME Over(q)', q > cur
                 PROVE  FALSE
      BY <1>3, <1>9, <2>1 DEF Over
    <3>1. q < cur' /\ Pass[cur] # Pass[q]
      BY <1>3, <1>9 DEF Over
    <3>2. Pass[cur] <= Pass[q] /\ Pass[q] \in Nat /\ Pass[cur] \in Nat
      BY <1>3, <1>5, <2>1, ExecAssumption
    <3>3. Pass[q] > Pass[cur]
      BY <3>1, <3>2
    <3>4. cur' <= q
      BY <1>6, <3>2, <3>3
    <3> QED
      BY <2>1, <3>1, <3>4
  <2> QED
    BY <2>2, <2>3
<1>13. ASSUME NEW q \in Rule, Over(q)
       PROVE  Finished(q)'
  <2>1. Finished(q)
    BY <1>13 DEF IInv, Past
  <2> QED
    BY <1>1, <1>2, <2>1 DEF Finished, NoComments
<1>14. Untouched'
  BY <1>10, <1>11 DEF Untouched
<1>15. Past'
  <2> SUFFICES ASSUME NEW q \in Rule, Over(q)'
               PROVE  Finished(q)'
    BY DEF Past
  <2>1. CASE Over(q)
    BY <1>13, <2>1
  <2>2. CASE q = cur
    BY <1>2, <1>4, <1>1, <2>2 DEF Finished, Live
  <2> QED
    BY <1>11, <2>1, <2>2
<1>16. Halts'
  <2>1. ASSUME NEW p \in halted \cup {cur}
        PROVE  p \in Rule /\ p < cur' /\ code[p] < 0 /\ (cur' \in Rule => Pass[p] < Pass[cur'])
    <3>1. p \in Rule /\ p <= cur /\ code[p] < 0 /\ Pass[p] <= Pass[cur]
      BY <1>3, <1>4, <1>5, Rules DEF IInv, Halts
    <3> QED
      BY <1>3, <1>5, <1>6, <1>7, <3>1, Rules
  <2> QED
    BY <1>1, <1>2, <1>3, <2>1 DEF Halts
<1>17. Current'
  <2>1. CASE cur' \in Rule
    <3> DEFINE n == cur'
    <3>1. Ahead(n)
      BY <1>3, <1>7, <2>1 DEF Ahead
    <3>2. Fresh(n) /\ st[n] # "none"
      BY <1>10, <2>1, <3>1
    <3> QED
      BY <1>1, <2>1, <3>2, TakeOver
  <2>2. CASE cur' \notin Rule
    BY <2>2 DEF Current
  <2> QED
    BY <2>1, <2>2
<1> QED
  BY <1>8, <1>14, <1>15, <1>16, <1>17 DEF IInv

\* act_exec_main(): the process has asked for the object.
LEMMA SendObjectInv ==
  ASSUME IInv, SendObject
  PROVE  IInv'
<1>1. /\ pc = "rule" /\ cur \in Rule /\ nr < NObj[cur] /\ nr' = nr + 1 /\ pc' = "cli"
      /\ SayStatus(cur, <<Obj(nr + 1)>>, 200)
      /\ cur' = cur /\ fini' = fini /\ halted' = halted
      /\ fout' = fout /\ cfd' = cfd /\ outbox' = outbox /\ child' = child
  BY DEF SendObject
<1>2. st' = st /\ asked' = asked /\ seen' = seen /\ last' = last /\ code' = code /\ crashed' = crashed
  BY <1>1 DEF child
<1>3. /\ Stage /\ Streams /\ Dialogue /\ Result /\ inbox[cur] \in Seq(Msg) /\ nr \in Nat /\ NObj[cur] \in Nat
      /\ seen[cur] \in Nat /\ code[cur] \in Int
      /\ unsent[cur] \in Seq(Msg) /\ Quiet(unsent[cur])
  BY <1>1, AtWork
<1>4. <<Obj(nr + 1)>> \in Seq(Msg)
  BY <1>3 DEF Obj, Msg
<1>5. /\ unsent' \in [Rule -> {<<>>, <<Header>>}] /\ inbox' \in [Rule -> Seq(Msg)]
      /\ \A q \in Rule \ {cur} : inbox'[q] = inbox[q]
      /\ st[cur] # "gone" => inbox'[cur] = inbox[cur] \o unsent[cur] \o <<Obj(nr + 1)>> \o <<Status(200)>>
  <2>1. /\ unsent' = [unsent EXCEPT ![cur] = <<>>]
        /\ inbox' = [inbox EXCEPT ![cur] = IF st[cur] = "gone" THEN @ ELSE @ \o unsent[cur] \o <<Obj(nr + 1)>> \o <<Status(200)>>]
    BY <1>1 DEF SayStatus
  <2>2. Status(200) \in Msg
    BY DEF Status, Msg
  <2>3. inbox[cur] \o unsent[cur] \o <<Obj(nr + 1)>> \o <<Status(200)>> \in Seq(Msg)
    BY <1>3, <1>4, <2>2
  <2>4. unsent \in [Rule -> {<<>>, <<Header>>}] /\ inbox \in [Rule -> Seq(Msg)] /\ cur \in Rule
    BY <1>1 DEF IInv, TypeInv, ChildType
  <2> QED
    BY <2>1, <2>3, <2>4
<1>6. TypeInv' /\ ChildType'
  <2>1. nr' \in Nat
    BY <1>1, <1>3
  <2>2. TypeInv'
    BY <1>1, <1>5, <2>1 DEF IInv, TypeInv
  <2>3. ChildType'
    BY <1>1, <1>2, <1>5 DEF IInv, ChildType
  <2> QED
    BY <2>2, <2>3
<1>7. Untouched' /\ Past' /\ Halts'
  BY <1>1, <1>5, ParentFrame
<1>8. fini = FALSE
  BY <1>1, <1>3 DEF Stage
<1>9. Stage' /\ Streams' /\ Negative'
  <2>1. Negative
    BY <1>1, AtWork
  <2>2. Negative'
    BY <1>1, <1>2, <2>1 DEF Negative, InNext, InRange
  <2> QED
    BY <1>1, <1>2, <1>3, <1>8, <2>2 DEF Stage, Streams, Working, Live
<1>10. Current'
  <2>1. CASE Live(cur)
    <3>1. /\ Waiting(cur) /\ asked[cur] = Period /\ code[cur] = 0 /\ last[cur] = FALSE
      BY <1>1, <1>3, <1>8, <2>1 DEF Dialogue, Working
    <3> DEFINE q == inbox[cur] \o unsent[cur]
    <3>2. q \in Seq(Msg) /\ Quiet(q)
      BY <1>3, <3>1, QuietJoin DEF Waiting
    <3> DEFINE o == nr + 1
    <3>12. o \in Nat \ {0} /\ 200 \in Int
      BY <1>3
    <3>3. inbox'[cur] = q \o <<Obj(o)>> \o <<Status(200)>>
      BY <1>5, <2>1 DEF Live
    <3> HIDE DEF q, o
    <3>13. Reported(q \o <<Obj(o)>> \o <<Status(200)>>, o, 200)
      BY <3>2, <3>12, ObjectBehind
    <3>4. Reported(inbox'[cur], nr + 1, 200)
      BY <3>3, <3>13 DEF o
    <3>5. Reported(inbox[cur], nr, 200)'
      BY <1>1, <3>4 DEF Reported, Status, Obj
    <3>6. GetsObject(cur)'
      BY <1>1, <1>2, <1>3, <1>8, <3>1, <3>5 DEF GetsObject, Waiting
    <3>7. Live(cur)'
      BY <1>1, <1>2, <2>1 DEF Live
    <3>8. Talk(cur)'
      BY <3>6 DEF Talk
    <3>9. ~(code'[cur] < 0) /\ code'[cur] >= 0 /\ last'[cur] = FALSE /\ fini' = FALSE
      BY <1>1, <1>2, <1>8, <3>1
    <3>10. Dialogue'
      BY <1>1, <3>8, <3>9 DEF Dialogue
    <3>11. Result'
      BY <1>1, <3>7, <3>9 DEF Result
    <3> QED
      BY <1>9, <3>10, <3>11 DEF Current
  <2>2. CASE ~Live(cur)
    <3>1. ~Live(cur)'
      BY <1>1, <1>2, <2>2 DEF Live
    <3>2. Result'
      BY <1>1, <1>2, <1>3, <2>2 DEF Result, Pending, NoComments
    <3>3. Dialogue'
      BY <3>1 DEF Dialogue
    <3> QED
      BY <1>9, <3>2, <3>3 DEF Current
  <2> QED
    BY <2>1, <2>2
<1> QED
  BY <1>6, <1>7, <1>10 DEF IInv

\* act_exec_fini(): the process has asked for one more object, or has sent a code.
LEMMA SendEndInv ==
  ASSUME IInv, SendEnd
  PROVE  IInv'
<1>1. /\ \/ pc = "rule" /\ cur \in Rule /\ nr = NObj[cur]
         \/ pc = "failed"
      /\ SayStatus(cur, <<>>, 404) /\ fini' = TRUE /\ pc' = "cli"
      /\ cur' = cur /\ nr' = nr /\ halted' = halted
      /\ fout' = fout /\ cfd' = cfd /\ outbox' = outbox /\ child' = child
  BY DEF SendEnd
<1>2. st' = st /\ asked' = asked /\ seen' = seen /\ last' = last /\ code' = code /\ crashed' = crashed
  BY <1>1 DEF child
<1>0. cur \in Rule /\ pc \in {"rule", "failed"}
  BY <1>1 DEF IInv, TypeInv
<1>3. /\ Stage /\ Streams /\ Dialogue /\ Result /\ inbox[cur] \in Seq(Msg) /\ nr \in Nat /\ NObj[cur] \in Nat
      /\ seen[cur] \in Nat /\ code[cur] \in Int
      /\ unsent[cur] \in Seq(Msg) /\ Quiet(unsent[cur])
  BY <1>0, AtWork
<1>5. /\ unsent' \in [Rule -> {<<>>, <<Header>>}] /\ inbox' \in [Rule -> Seq(Msg)]
      /\ \A q \in Rule \ {cur} : inbox'[q] = inbox[q]
      /\ st[cur] # "gone" => inbox'[cur] = inbox[cur] \o unsent[cur] \o <<>> \o <<Status(404)>>
  <2>1. /\ unsent' = [unsent EXCEPT ![cur] = <<>>]
        /\ inbox' = [inbox EXCEPT ![cur] = IF st[cur] = "gone" THEN @ ELSE @ \o unsent[cur] \o <<>> \o <<Status(404)>>]
    BY <1>1 DEF SayStatus
  <2>2. Status(404) \in Msg
    BY DEF Status, Msg
  <2>3. inbox[cur] \o unsent[cur] \o <<>> \o <<Status(404)>> \in Seq(Msg)
    BY <1>3, <2>2
  <2>4. unsent \in [Rule -> {<<>>, <<Header>>}] /\ inbox \in [Rule -> Seq(Msg)] /\ cur \in Rule
    BY <1>0 DEF IInv, TypeInv, ChildType
  <2> QED
    BY <2>1, <2>3, <2>4
<1>6. TypeInv' /\ ChildType'
  BY <1>0, <1>1, <1>2, <1>3, <1>5 DEF IInv, TypeInv, ChildType
<1>7. Untouched' /\ Past' /\ Halts'
  BY <1>0, <1>1, <1>5, ParentFrame
<1>8. fini = FALSE
  BY <1>0, <1>3 DEF Stage
<1>9. Stage' /\ Streams' /\ Negative'
  BY <1>0, <1>1, <1>2, <1>3, <1>8 DEF Stage, Streams, Negative, Working, Live
<1>10. Current'
  <2>1. CASE Live(cur)
    <3>1. /\ Waiting(cur) /\ InNext(asked[cur]) /\ code[cur] >= 0 /\ last[cur] = FALSE
          /\ (code[cur] > 0 \/ nr = NObj[cur])
      BY <1>0, <1>1, <1>3, <1>8, <2>1, Commanded DEF Dialogue, Working
    <3> DEFINE q == inbox[cur] \o unsent[cur]
    <3>2. q \in Seq(Msg) /\ Quiet(q)
      BY <1>3, <3>1, QuietJoin DEF Waiting
    <3>3. inbox'[cur] = q \o <<Status(404)>>
      <4>1. inbox'[cur] = q \o <<>> \o <<Status(404)>>
        BY <1>5, <2>1 DEF Live
      <4>2. q \o <<>> = q
        BY <3>2
      <4> QED
        BY <4>1, <4>2
    <3> HIDE DEF q
    <3>4. Reported(inbox'[cur], 0, 404)
      BY <3>2, <3>3, StatusBehind
    <3>5. Reported(inbox[cur], 0, 404)'
      BY <1>1, <3>4 DEF Reported, Status, Obj
    <3>6. GetsEnd(cur)'
      BY <1>1, <1>2, <3>1, <3>5 DEF GetsEnd, Waiting, InNext, InRange
    <3>7. Live(cur)'
      BY <1>1, <1>2, <2>1 DEF Live
    <3>8. Talk(cur)'
      BY <3>6 DEF Talk
    <3>9. ~(code'[cur] < 0) /\ code'[cur] >= 0 /\ last'[cur] = FALSE /\ fini' = TRUE
          /\ (code'[cur] > 0 \/ nr' = NObj[cur])
      BY <1>1, <1>2, <1>3, <3>1
    <3>10. Dialogue'
      BY <1>1, <3>8, <3>9 DEF Dialogue
    <3>11. Result'
      BY <1>1, <3>7, <3>9 DEF Result
    <3> QED
      BY <1>9, <3>10, <3>11 DEF Current
  <2>2. CASE ~Live(cur)
    <3>1. ~Live(cur)'
      BY <1>1, <1>2, <2>2 DEF Live
    <3>2. Result'
      BY <1>0, <1>1, <1>2, <1>3, <2>2 DEF Result, Pending, NoComments
    <3>3. Dialogue'
      BY <3>1 DEF Dialogue
    <3> QED
      BY <1>9, <3>2, <3>3 DEF Current
  <2> QED
    BY <2>1, <2>2
<1> QED
  BY <1>6, <1>7, <1>10 DEF IInv

\* exec_cli() ends when both streams have ended: the process is gone, and all it
\* has sent was read.
LEMMA CliGoneInv ==
  ASSUME IInv, CliGone
  PROVE  IInv'
<1>1. /\ pc = "cli" /\ cfd[cur] = {} /\ pc' = After(1)
      /\ cur' = cur /\ nr' = nr /\ fini' = fini /\ halted' = halted /\ fout' = fout /\ cfd' = cfd /\ unsent' = unsent
      /\ inbox' = inbox /\ outbox' = outbox /\ child' = child
  BY DEF CliGone
<1>2. st' = st /\ asked' = asked /\ seen' = seen /\ last' = last /\ code' = code /\ crashed' = crashed
  BY <1>1 DEF child
<1>3. cur \in Rule
  BY <1>1 DEF IInv, TypeInv
<1>4. /\ Stage /\ Streams /\ Dialogue /\ Result /\ fini \in BOOLEAN
  BY <1>1, <1>3, AtWork
<1>5. pc' = IF fini THEN "close" ELSE "failed"
  BY <1>1, <1>4 DEF After
<1>6. TypeInv' /\ ChildType'
  BY <1>1, <1>2, <1>3, <1>5 DEF IInv, TypeInv, ChildType
<1>7. Untouched' /\ Past' /\ Halts'
  BY <1>1, <1>5, ParentFrame
<1>8. ~Live(cur) /\ st[cur] # "done" /\ outbox[cur] = <<>>
  BY <1>1, <1>4 DEF Streams, Working
<1>9. ~Live(cur)' /\ ~Pending
  <2>1. ~Live(cur)'
    BY <1>1, <1>2, <1>8 DEF Live
  <2>2. ~Pending
    BY <1>8 DEF Pending
  <2> QED
    BY <2>1, <2>2
<1>10. Stage'
  BY <1>1, <1>2, <1>4, <1>5, <1>9 DEF Stage
<1>11. Streams'
  BY <1>1, <1>2, <1>8, <1>9 DEF Streams
<1>12. Result'
  BY <1>1, <1>2, <1>4, <1>8, <1>9 DEF Result, NoComments
<1>13. Dialogue'
  BY <1>9 DEF Dialogue
<1>14. Negative'
  BY <1>1, <1>8 DEF Negative
<1> QED
  BY <1>6, <1>7, <1>10, <1>11, <1>12, <1>13, <1>14 DEF IInv, Current

\* close_free_exec_ctrl()
LEMMA CloseInv ==
  ASSUME IInv, Close
  PROVE  IInv'
<1> DEFINE e == [k |-> "end", n |-> 0]
<1>1. /\ pc = "close" /\ pc' = "wait"
      /\ inbox' = [inbox EXCEPT ![cur] = IF st[cur] = "gone" THEN @ ELSE Append(@, e)]
      /\ fout' = [fout EXCEPT ![cur] = FALSE] /\ cfd' = [cfd EXCEPT ![cur] = {}]
      /\ cur' = cur /\ nr' = nr /\ fini' = fini /\ halted' = halted /\ unsent' = unsent /\ outbox' = outbox /\ child' = child
  BY DEF Close
<1>2. st' = st /\ asked' = asked /\ seen' = seen /\ last' = last /\ code' = code /\ crashed' = crashed
  BY <1>1 DEF child
<1>3. cur \in Rule
  BY <1>1 DEF IInv, TypeInv
<1>4. /\ Stage /\ Result /\ inbox[cur] \in Seq(Msg)
  BY <1>1, <1>3, AtWork
<1>5. Append(inbox[cur], e) \in Seq(Msg)
  <2>1. e \in Msg
    BY DEF Msg
  <2> QED
    BY <1>4, <2>1
<1> HIDE DEF e
<1>6. TypeInv' /\ ChildType'
  <2>1. inbox' \in [Rule -> Seq(Msg)]
    BY <1>1, <1>5 DEF IInv, ChildType
  <2>2. ChildType'
    BY <1>1, <1>2, <2>1 DEF IInv, ChildType
  <2>3. fout' \in [Rule -> BOOLEAN] /\ cfd' \in [Rule -> SUBSET {"out", "err"}]
    BY <1>1 DEF IInv, TypeInv
  <2> QED
    BY <1>1, <1>3, <2>2, <2>3 DEF IInv, TypeInv
<1>7. \A q \in Rule \ {cur} : inbox'[q] = inbox[q] /\ fout'[q] = fout[q] /\ cfd'[q] = cfd[q]
  <2>1. \A q \in Rule \ {cur} : inbox'[q] = inbox[q]
    BY <1>1 DEF IInv, ChildType
  <2>2. \A q \in Rule \ {cur} : fout'[q] = fout[q]
    BY <1>1 DEF IInv, TypeInv
  <2>3. \A q \in Rule \ {cur} : cfd'[q] = cfd[q]
    BY <1>1 DEF IInv, TypeInv
  <2> QED
    BY <2>1, <2>2, <2>3
<1>8. Untouched' /\ Past' /\ Halts'
  BY <1>1, <1>7, ParentFrame
<1>9. ~Live(cur) /\ ~Live(cur)' /\ ~Pending
  <2>1. ~Live(cur)
    BY <1>1, <1>4 DEF Stage, Working
  <2> QED
    BY <1>1, <1>2, <2>1 DEF Live, Pending
<1>10. Stage'
  BY <1>1, <1>2, <1>4, <1>9 DEF Stage
<1>11. Streams'
  BY <1>1 DEF Streams, Working
<1>12. Result'
  BY <1>1, <1>2, <1>4, <1>9 DEF Result, NoComments
<1>13. Dialogue'
  BY <1>9 DEF Dialogue
<1>14. Negative'
  BY <1>1, <1>4 DEF Stage, Negative
<1> QED
  BY <1>6, <1>8, <1>10, <1>11, <1>12, <1>13, <1>14 DEF IInv, Current

\* smrender exits: its descriptors are closed, what is in the buffers is written.
LEMMA ExitInv ==
  ASSUME IInv, Exit
  PROVE  IInv'
<1>1. /\ pc = "rule" /\ cur \notin Rule
      /\ pc' = "end" /\ fout' = [r \in Rule |-> FALSE] /\ cfd' = [r \in Rule |-> {}]
      /\ unsent' = [r \in Rule |-> <<>>]
      /\ inbox' = [r \in Rule |-> IF st[r] = "gone" THEN inbox[r] ELSE inbox[r] \o unsent[r]]
      /\ cur' = cur /\ nr' = nr /\ fini' = fini /\ halted' = halted /\ outbox' = outbox /\ child' = child
  BY DEF Exit
<1>2. st' = st /\ asked' = asked /\ seen' = seen /\ last' = last /\ code' = code /\ crashed' = crashed
  BY <1>1 DEF child
<1>3. ASSUME NEW q \in Rule
      PROVE  inbox'[q] \in Seq(Msg) /\ (Quiet(inbox[q]) => Quiet(inbox'[q]))
  <2>1. inbox[q] \in Seq(Msg) /\ unsent[q] \in {<<>>, <<Header>>}
    BY DEF IInv, TypeInv, ChildType
  <2>2. Header \in Msg /\ Header.k = "header"
    BY DEF Header, Msg
  <2>3. unsent[q] \in Seq(Msg) /\ Quiet(unsent[q])
    <3>1. <<>> \in Seq(Msg) /\ Quiet(<<>>)
      BY DEF Quiet
    <3>2. <<Header>> \in Seq(Msg) /\ Quiet(<<Header>>)
      BY <2>2 DEF Quiet
    <3> QED
      BY <2>1, <3>1, <3>2
  <2>4. inbox[q] \o unsent[q] \in Seq(Msg)
    BY <2>1, <2>3
  <2>5. inbox'[q] = inbox[q] \/ inbox'[q] = inbox[q] \o unsent[q]
    BY <1>1
  <2> QED
    BY <2>1, <2>3, <2>4, <2>5, QuietJoin
<1>4. TypeInv' /\ ChildType'
  <2>1. inbox' \in [Rule -> Seq(Msg)]
    BY <1>1, <1>3
  <2>2. ChildType'
    BY <1>1, <1>2, <2>1 DEF IInv, ChildType
  <2>3. fout' \in [Rule -> BOOLEAN] /\ cfd' \in [Rule -> SUBSET {"out", "err"}]
        /\ unsent' \in [Rule -> {<<>>, <<Header>>}]
    BY <1>1
  <2> QED
    BY <1>1, <2>2, <2>3 DEF IInv, TypeInv
<1>5. Untouched' /\ Past' /\ Halts'
  <2>1. pc # "ini" /\ pc # "end" /\ pc' # "ini" /\ \A q \in Rule : Quiet(inbox[q]) => Quiet(inbox'[q])
    BY <1>1, <1>3
  <2>2. \A q \in Rule \ {cur} : /\ Quiet(inbox[q]) => Quiet(inbox'[q])
                                /\ outbox'[q] = outbox[q]
                                /\ pc' = "end" \/ (fout'[q] = fout[q] /\ cfd'[q] = cfd[q])
    BY <1>1, <2>1
  <2>3. child' = child /\ cur' = cur /\ halted' = halted
    BY <1>1
  <2> QED
    BY <2>1, <2>2, <2>3, ParentFrame
<1>6. Current'
  BY <1>1 DEF Current
<1> QED
  BY <1>4, <1>5, <1>6 DEF IInv

\* parse_exec_cmd() finds a command that was sent; what it does not skip is the
\* comment the text begins with, and a single command.
LEMMA ParsedFirst ==
  ASSUME NEW q \in Seq(Code), q # <<>>
  PROVE  Parsed(q) \in Code /\ (\E i \in DOMAIN q : Parsed(q) = q[i]) /\ (q[1].c = "cmt" \/ Len(q) = 1 => Parsed(q) = q[1])
<1> DEFINE known == {i \in DOMAIN q : q[i].c \in {"next", "get", "help"}}
           least == CHOOSE i \in known : \A j \in known : i <= j
<1>1. DOMAIN q = 1..Len(q) /\ Len(q) \in Nat \ {0} /\ \A i \in DOMAIN q : q[i] \in Code
  OBVIOUS
<1>2. Parsed(q) = IF q[1].c = "cmt" \/ known = {} THEN q[1] ELSE q[least]
  BY DEF Parsed
<1>3. known # {} => least \in known
  <2> SUFFICES ASSUME known # {}
               PROVE  least \in known
    OBVIOUS
  <2>1. known \in SUBSET Nat
    BY <1>1
  <2>2. \E i \in known : \A j \in known : i <= j
    <3> HIDE DEF known
    <3> QED
      BY <2>1, LeastNatural
  <2> QED
    BY <2>2
<1>4. known \subseteq DOMAIN q
  OBVIOUS
<1> HIDE DEF known, least
<1>5. 1 \in DOMAIN q
  BY <1>1
<1>9. \E i \in DOMAIN q : Parsed(q) = q[i]
  BY <1>2, <1>3, <1>4, <1>5
<1>6. Parsed(q) \in Code
  BY <1>1, <1>9
<1>7. Len(q) = 1 => DOMAIN q = {1}
  BY <1>1
<1>8. q[1].c = "cmt" \/ Len(q) = 1 => Parsed(q) = q[1]
  BY <1>2, <1>3, <1>4, <1>7
<1> QED
  BY <1>6, <1>8, <1>9

\* What a command makes the parent do.
LEMMA Replied ==
  ASSUME IInv, cur \in Rule, pc # "ini", NEW c \in Code, Reply(c)
  PROVE  /\ unsent' \in [Rule -> {<<>>, <<Header>>}] /\ inbox' \in [Rule -> Seq(Msg)]
         /\ \A q \in Rule \ {cur} : inbox'[q] = inbox[q]
         /\ InNext(c) => inbox' = inbox /\ pc' = After(c.a)
         /\ ~InNext(c) => pc' = pc
         /\ c.c = "cmt" => inbox' = inbox
         /\ ~InNext(c) /\ c.c # "cmt" /\ st[cur] # "gone" /\ Quiet(inbox[cur]) => Reported(inbox'[cur], 0, Answer(c))
<1>1. /\ unsent \in [Rule -> {<<>>, <<Header>>}] /\ inbox \in [Rule -> Seq(Msg)]
      /\ inbox[cur] \in Seq(Msg) /\ unsent[cur] \in Seq(Msg) /\ Quiet(unsent[cur])
  BY AtWork DEF IInv, TypeInv, ChildType
<1>2. c.c \in {"next", "get", "help", "cmt", "junk"} /\ c.a \in Int
  BY Commanded
<1>3. (InNext(c) => pc' = After(c.a)) /\ (~InNext(c) => pc' = pc)
  BY DEF Reply, InNext
<1>4. CASE InNext(c) \/ c.c = "cmt"
  <2>1. unsent' = unsent /\ inbox' = inbox
    BY <1>4 DEF Reply, InNext
  <2> QED
    BY <1>1, <1>3, <1>4, <2>1 DEF InNext
<1>5. CASE ~InNext(c) /\ c.c # "cmt"
  <2> DEFINE p == IF c.c = "get" THEN IF c.a = 200 THEN <<[k |-> "got", n |-> 0]>> ELSE <<>>
                  ELSE IF c.c = "help" THEN <<[k |-> "help", n |-> 0]>> ELSE <<>>
             n == Answer(c)
             q == inbox[cur] \o unsent[cur] \o p
  <2>1. SayStatus(cur, p, n)
    <3>1. CASE c.c = "get"
      BY <3>1 DEF Reply, Answer
    <3>2. CASE c.c = "help"
      BY <3>2 DEF Reply, Answer
    <3>3. CASE c.c = "next" \/ c.c = "junk"
      BY <1>5, <3>3 DEF Reply, Answer, InNext
    <3> QED
      BY <1>2, <1>5, <3>1, <3>2, <3>3
  <2>2. p \in Seq(Msg) /\ Quiet(p)
    <3>1. <<>> \in Seq(Msg) /\ Quiet(<<>>)
      BY DEF Quiet
    <3>2. <<[k |-> "got", n |-> 0]>> \in Seq(Msg) /\ Quiet(<<[k |-> "got", n |-> 0]>>)
      BY DEF Quiet, Msg
    <3>3. <<[k |-> "help", n |-> 0]>> \in Seq(Msg) /\ Quiet(<<[k |-> "help", n |-> 0]>>)
      BY DEF Quiet, Msg
    <3> QED
      BY <3>1, <3>2, <3>3
  <2>3. n \in Int
    BY <1>2 DEF Answer
  <2> HIDE DEF p, n
  <2>4. q \in Seq(Msg) /\ (Quiet(inbox[cur]) => Quiet(q))
    <3>1. inbox[cur] \o unsent[cur] \in Seq(Msg) /\ (Quiet(inbox[cur]) => Quiet(inbox[cur] \o unsent[cur]))
      BY <1>1, QuietJoin
    <3> DEFINE b == inbox[cur] \o unsent[cur]
    <3> HIDE DEF b
    <3>2. b \in Seq(Msg) /\ (Quiet(inbox[cur]) => Quiet(b))
      BY <3>1 DEF b
    <3>3. b \o p \in Seq(Msg) /\ (Quiet(b) => Quiet(b \o p))
      BY <2>2, <3>2, QuietJoin
    <3> QED
      BY <3>2, <3>3 DEF b
  <2>5. /\ unsent' = [unsent EXCEPT ![cur] = <<>>]
        /\ inbox' = [inbox EXCEPT ![cur] = IF st[cur] = "gone" THEN @ ELSE q \o <<Status(n)>>]
    BY <2>1 DEF SayStatus
  <2> HIDE DEF q
  <2>6. Status(n) \in Msg
    BY <2>3 DEF Status, Msg
  <2>7. q \o <<Status(n)>> \in Seq(Msg)
    BY <2>4, <2>6
  <2>8. unsent' \in [Rule -> {<<>>, <<Header>>}] /\ inbox' \in [Rule -> Seq(Msg)]
        /\ \A x \in Rule \ {cur} : inbox'[x] = inbox[x]
    BY <1>1, <2>5, <2>7
  <2>9. st[cur] # "gone" => inbox'[cur] = q \o <<Status(n)>>
    BY <1>1, <2>5
  <2>10. Quiet(inbox[cur]) => Reported(q \o <<Status(n)>>, 0, n)
    BY <2>3, <2>4, StatusBehind
  <2> QED
    BY <1>3, <1>5, <2>8, <2>9, <2>10 DEF n
<1> QED
  BY <1>4, <1>5

\* One round of exec_cli(): it reads the command the process has sent, if there is
\* one, and answers it, goes on to the next object, or ends.
LEMMA CliInv ==
  ASSUME IInv, Cli
  PROVE  IInv'
<1> DEFINE r == cur
           open == {f \in cfd[cur] : ~Readable(f) \/ IF f = "out" THEN outbox[cur] # <<>> ELSE err[cur]}
           c == Parsed(outbox[cur])
<1>1. /\ pc = "cli" /\ cfd' = [cfd EXCEPT ![cur] = open]
      /\ IF "out" \in cfd[cur] /\ outbox[cur] # <<>> THEN Reply(c) ELSE pc' = pc /\ unsent' = unsent /\ inbox' = inbox
      /\ outbox' = [outbox EXCEPT ![cur] = <<>>]
      /\ cur' = cur /\ nr' = nr /\ fini' = fini /\ halted' = halted /\ fout' = fout /\ child' = child
  BY DEF Cli
<1>2. st' = st /\ asked' = asked /\ seen' = seen /\ last' = last /\ code' = code /\ crashed' = crashed
  BY <1>1 DEF child
<1>3. cur \in Rule
  BY <1>1 DEF IInv, TypeInv
<1>4. /\ Stage /\ Streams /\ Dialogue /\ Result /\ Negative
      /\ inbox[r] \in Seq(Msg) /\ outbox[r] \in Seq(Code) /\ code[r] \in Int
      /\ last[r] \in BOOLEAN /\ fini \in BOOLEAN
      /\ st[r] \in {"none", "forked", "run", "done", "gone"}
  BY <1>1, <1>3, AtWork
<1>5. \* a stream is closed only if the process is gone
      st[r] # "none" /\ (Live(r) \/ st[r] = "done" => "out" \in cfd[r] /\ "out" \in open)
  <2>1. st[r] # "none"
    BY <1>4 DEF Stage
  <2> SUFFICES ASSUME Live(r) \/ st[r] = "done"
               PROVE  "out" \in cfd[r] /\ "out" \in open
    BY <2>1
  <2>2. "out" \in cfd[r] /\ Alive(r)
    BY <1>1, <1>4, <2>1 DEF Streams, Working, Live, Alive
  <2>3. ~Readable("out") \/ outbox[r] # <<>>
    BY <2>2 DEF Readable
  <2> QED
    BY <2>2, <2>3
<1>6. outbox[r] # <<>> => "out" \in cfd[r]
  BY <1>1, <1>4 DEF Streams, Working
<1>7. open \subseteq cfd[r]
  OBVIOUS
<1> HIDE DEF open
<1>8. outbox[r] # <<>> => c \in Code /\ Reply(c) /\ \E i \in DOMAIN outbox[r] : c = outbox[r][i]
  BY <1>1, <1>4, <1>6, ParsedFirst
<1>9. outbox[r] = <<>> => pc' = pc /\ unsent' = unsent /\ inbox' = inbox
  BY <1>1
<1>10. \* types and other rules
       /\ unsent' \in [Rule -> {<<>>, <<Header>>}] /\ inbox' \in [Rule -> Seq(Msg)]
       /\ \A q \in Rule \ {cur} : inbox'[q] = inbox[q]
       /\ pc' = pc \/ (outbox[r] # <<>> /\ InNext(c) /\ pc' = After(c.a))
  <2>1. CASE outbox[r] = <<>>
    BY <1>9, <2>1 DEF IInv, TypeInv, ChildType
  <2>2. CASE outbox[r] # <<>>
    <3> HIDE DEF c
    <3> QED
      BY <1>1, <1>3, <1>8, <2>2, Replied
  <2> QED
    BY <2>1, <2>2
<1>11. outbox[r] # <<>> => c.a \in Int
  BY <1>8, Commanded
<1> HIDE DEF c
<1>12. pc' = "cli" \/ (pc' = "close" /\ fini = TRUE) \/ (pc' \in {"rule", "failed", "stop"} /\ fini = FALSE)
  <2>1. CASE pc' = pc
    BY <1>1, <2>1
  <2>2. CASE outbox[r] # <<>> /\ pc' = After(c.a)
    <3>1. fini = TRUE \/ fini = FALSE
      BY <1>4
    <3>2. c.a = 0 \/ c.a > 0 \/ c.a < 0
      BY <1>11, <2>2
    <3>3. After(c.a) \in {"rule", "failed", "stop"} \/ fini = TRUE
      BY <1>11, <2>2, <3>1, <3>2 DEF After
    <3>4. fini = TRUE => After(c.a) = "close"
      BY DEF After
    <3> QED
      BY <2>2, <3>1, <3>3, <3>4
  <2> QED
    BY <1>10, <2>1, <2>2
<1>13. /\ \A q \in Rule \ {cur} : outbox'[q] = outbox[q] /\ cfd'[q] = cfd[q]
       /\ outbox'[r] = <<>> /\ cfd'[r] = open
       /\ outbox' \in [Rule -> Seq(Code)] /\ cfd' \in [Rule -> SUBSET {"out", "err"}]
  <2>1. outbox'[r] = <<>> /\ outbox' \in [Rule -> Seq(Code)] /\ \A q \in Rule \ {cur} : outbox'[q] = outbox[q]
    BY <1>1, <1>3 DEF IInv, ChildType
  <2>2. cfd'[r] = open /\ cfd' \in [Rule -> SUBSET {"out", "err"}] /\ \A q \in Rule \ {cur} : cfd'[q] = cfd[q]
    BY <1>1, <1>3, <1>7 DEF IInv, TypeInv
  <2> QED
    BY <2>1, <2>2
<1>14. TypeInv' /\ ChildType'
  <2>1. ChildType'
    BY <1>2, <1>10, <1>13 DEF IInv, ChildType
  <2>2. TypeInv'
    BY <1>1, <1>3, <1>10, <1>12, <1>13 DEF IInv, TypeInv
  <2> QED
    BY <2>1, <2>2
<1>15. Untouched' /\ Past' /\ Halts'
  <2>1. pc # "ini" /\ pc # "end" /\ pc' # "ini"
    BY <1>1, <1>12
  <2> QED
    BY <1>1, <1>10, <1>13, <2>1, ParentFrame
<1>16. Streams' /\ Negative'
  <2>1. Negative'
    BY <1>1, <1>13 DEF Negative
  <2> QED
    BY <1>1, <1>2, <1>4, <1>5, <1>13, <2>1 DEF Streams, Working, Live
<1>17. CASE ~Live(r)
  <2>1. ~Live(cur)'
    BY <1>1, <1>2, <1>17 DEF Live
  <2>7. pc' = "stop" => fini = FALSE /\ code[r] < 0
    <3> SUFFICES ASSUME pc' = "stop"
                 PROVE  fini = FALSE /\ code[r] < 0
      OBVIOUS
    <3>1. fini = FALSE
      BY <1>12
    <3>2. outbox[r] # <<>> /\ InNext(c) /\ "stop" = After(c.a)
      BY <1>1, <1>10
    <3>3. c.a < 0
      BY <1>11, <3>1, <3>2 DEF After
    <3> QED
      BY <1>4, <1>8, <3>1, <3>2, <3>3 DEF Negative
  <2>2. Stage'
    BY <1>1, <1>2, <1>4, <1>12, <2>1, <2>7 DEF Stage
  <2>3. Dialogue'
    BY <2>1 DEF Dialogue
  <2>4. ASSUME NoComments, code[r] < 0
        PROVE  pc' = "stop"
    <3>1. Pending
      BY <1>1, <1>4, <2>4 DEF Result
    <3>2. fini = FALSE /\ Len(outbox[r]) = 1 /\ InNext(outbox[r][1]) /\ outbox[r][1].a < 0
      BY <3>1 DEF Pending
    <3>3. outbox[r] # <<>> /\ c = outbox[r][1]
      <4>1. outbox[r] # <<>>
        BY <3>2
      <4> QED
        BY <1>4, <3>2, <4>1, ParsedFirst DEF c
    <3>4. pc' = After(c.a) /\ c.a < 0 /\ c.a \in Int
      BY <1>1, <1>3, <1>8, <1>11, <3>2, <3>3, Replied
    <3> QED
      BY <3>2, <3>4 DEF After
  <2>5. Result'
    <3>1. NoComments /\ code[r] < 0 => pc' = "stop"
      BY <2>4
    <3> QED
      BY <1>1, <1>2, <1>4, <1>17, <3>1 DEF Result, NoComments
  <2>6. Current'
    BY <1>16, <2>2, <2>3, <2>5 DEF Current
  <2> QED
    BY <1>14, <1>15, <2>6 DEF IInv
<1>18. CASE Live(r)
  <2>1. /\ Talk(r) /\ code[r] >= 0 /\ (fini = FALSE => last[r] = FALSE)
        /\ (fini = TRUE => code[r] > 0 \/ nr = NObj[r])
        /\ (last[r] = TRUE /\ code[r] = 0 => seen[r] = NObj[r])
    BY <1>1, <1>4, <1>18 DEF Dialogue, Working, Result
  <2>2. Live(r)' /\ Live(cur)' /\ st[r] # "gone"
    BY <1>1, <1>2, <1>18 DEF Live
  <2>3. ASSUME pc' = "cli", Talk(cur)'
        PROVE  Current'
    <3>1. Stage'
      BY <1>1, <1>2, <1>4, <2>3 DEF Stage, Working
    <3>2. ~(code'[r] < 0)
      BY <1>2, <1>4, <2>1
    <3>3. Result'
      BY <1>1, <1>2, <2>1, <2>2, <3>2 DEF Result
    <3>4. Dialogue'
      BY <1>1, <1>2, <2>1, <2>3 DEF Dialogue
    <3> QED
      BY <1>16, <3>1, <3>3, <3>4 DEF Current
  <2>4. ASSUME inbox' = inbox
        PROVE  (Quiet(inbox[r]) => Quiet(inbox[cur])') /\ \A o, n : Reported(inbox[r], o, n) => Reported(inbox[cur], o, n)'
    BY <1>1, <2>4 DEF Quiet, Reported, Status, Obj
  <2>5. CASE outbox[r] = <<>>
    <3>1. pc' = pc /\ inbox' = inbox
      BY <1>9, <2>5
    <3>2. Talk(cur)'
      <4>1. HasWord(r) => HasWord(cur)'
        BY <1>1, <1>2, <1>13, <2>4, <3>1 DEF HasWord, Comments, Before
      <4>2. GetsObject(r) => GetsObject(cur)'
        BY <1>1, <1>2, <1>13, <2>4, <3>1 DEF GetsObject
      <4>3. GetsEnd(r) => GetsEnd(cur)'
        BY <1>1, <1>2, <1>13, <2>4, <3>1 DEF GetsEnd, InNext, InRange
      <4>4. GetsAnswer(r) => GetsAnswer(cur)'
        <5> SUFFICES ASSUME GetsAnswer(r)
                     PROVE  GetsAnswer(cur)'
          OBVIOUS
        <5>1. Answer(asked[cur])' = Answer(asked[r])
          BY <1>1, <1>2 DEF Answer
        <5>2. Reported(inbox[cur], 0, Answer(asked[cur]))'
          BY <2>4, <3>1, <5>1 DEF GetsAnswer
        <5> QED
          BY <1>1, <1>2, <1>13, <5>2 DEF GetsAnswer, InNext, InRange, Before
      <4>5. ~Asks(r)
        BY <2>5 DEF Asks, Commands
      <4>6. Lost(r) => Lost(cur)'
        BY <1>1, <1>2, <1>13, <2>4, <3>1 DEF Lost, Waiting, Upto, InNext, InRange, Before
      <4> QED
        BY <2>1, <4>1, <4>2, <4>3, <4>4, <4>5, <4>6 DEF Talk
    <3>3. Current'
      BY <1>1, <2>3, <3>1, <3>2
    <3> QED
      BY <1>14, <1>15, <3>3 DEF IInv
  <2>6. CASE outbox[r] # <<>>
    <3>1. HasWord(r) \/ Asks(r)
      BY <2>1, <2>6 DEF Talk, GetsObject, GetsEnd, GetsAnswer, Lost, Waiting
    <3>2. c \in Code /\ Reply(c) /\ Len(outbox[r]) \in Nat \ {0} /\ c.a \in Int
          /\ (outbox[r][1].c = "cmt" \/ Len(outbox[r]) = 1 => c = outbox[r][1])
      BY <1>4, <1>8, <1>11, <2>6, ParsedFirst DEF c
    <3>3. /\ InNext(c) => inbox' = inbox /\ pc' = After(c.a)
          /\ ~InNext(c) => pc' = pc
          /\ c.c = "cmt" => inbox' = inbox
          /\ ~InNext(c) /\ c.c # "cmt" /\ Quiet(inbox[r]) => Reported(inbox'[r], 0, Answer(c))
      BY <1>1, <1>3, <2>2, <3>2, Replied
    <3>4. CASE HasWord(r)
      <4>1. c.c = "cmt" /\ ~InNext(c)
        BY <3>2, <3>4 DEF HasWord, Comments, InNext
      <4>2. HasWord(cur)'
        BY <1>1, <1>2, <1>13, <2>4, <3>3, <3>4, <4>1 DEF HasWord, Comments, Before
      <4>3. Current'
        BY <1>1, <2>3, <3>3, <4>1, <4>2 DEF Talk
      <4> QED
        BY <1>14, <1>15, <4>3 DEF IInv
    <3>5. CASE Asks(r)
      <4>1. asked[r] # NoCmd /\ Quiet(inbox[r]) /\ Commands(outbox[r], asked[r]) /\ seen[r] = nr /\ Upto(r)
        BY <3>5 DEF Asks
      <4>2. CASE Len(outbox[r]) # 1
        <5>1. c.c = "cmt" /\ ~InNext(c)
          <6> DEFINE l == Len(outbox[r])
          <6>0. l \in Nat /\ l # 0 /\ l # 1
            BY <3>2, <4>2
          <6> HIDE DEF l
          <6>1. 1 \in 1..(l - 1)
            BY <6>0
          <6>2. outbox[r][1].c = "cmt"
            BY <4>1, <6>1 DEF Commands, l
          <6> QED
            BY <3>2, <6>2 DEF InNext
        <5>2. Lost(cur)'
          BY <1>1, <1>2, <1>13, <2>4, <3>3, <4>1, <5>1 DEF Lost, Waiting, Upto, InNext, InRange, Before
        <5>3. Current'
          BY <1>1, <2>3, <3>3, <5>1, <5>2 DEF Talk
        <5> QED
          BY <1>14, <1>15, <5>3 DEF IInv
      <4>3. CASE Len(outbox[r]) = 1 /\ ~InNext(c)
        <5>1. asked[r] = c /\ c.c # "cmt"
          BY <3>2, <4>1, <4>3 DEF Commands
        <5>2. Reported(inbox'[r], 0, Answer(c)) /\ pc' = "cli"
          BY <1>1, <3>3, <4>1, <4>3, <5>1
        <5>3. Answer(asked[cur])' = Answer(c)
          BY <1>1, <1>2, <5>1 DEF Answer
        <5>4. Reported(inbox[cur], 0, Answer(asked[cur]))'
          BY <1>1, <5>2, <5>3 DEF Reported, Status, Obj
        <5>5. Before(cur)'
          BY <1>1, <1>2, <4>1, <4>3, <5>1 DEF Upto, Before
        <5>6. GetsAnswer(cur)'
          BY <1>1, <1>2, <1>13, <4>1, <4>3, <5>1, <5>4, <5>5 DEF GetsAnswer, InNext, InRange
        <5>7. Current'
          BY <2>3, <5>2, <5>6 DEF Talk
        <5> QED
          BY <1>14, <1>15, <5>7 DEF IInv
      <4>4. CASE Len(outbox[r]) = 1 /\ InNext(c)
        <5>1. asked[r] = c /\ inbox' = inbox /\ pc' = After(c.a)
          BY <3>2, <3>3, <4>1, <4>4 DEF Commands
        <5>2. fini = FALSE /\ c.a >= 0 /\ code[r] = c.a
          BY <4>1, <4>4, <5>1 DEF Upto
        <5>3. pc' = IF c.a = 0 THEN "rule" ELSE "failed"
          BY <3>2, <5>1, <5>2 DEF After
        <5>4. Waiting(cur)'
          BY <1>1, <1>2, <1>13, <2>4, <4>1, <5>1 DEF Waiting
        <5>5. c.a = 0 => c = Period
          BY <3>2, <4>4, Commanded DEF InNext
        <5>6. Stage'
          BY <1>1, <1>2, <1>4, <5>2, <5>3 DEF Stage, Working
        <5>7. InNext(asked[cur])'
          BY <1>1, <1>2, <4>4, <5>1 DEF InNext, InRange
        <5>8. /\ code'[r] >= 0 /\ last'[r] = FALSE /\ ~(code'[r] < 0)
              /\ c.a = 0 => asked'[r] = Period /\ code'[r] = 0
              /\ c.a # 0 => code'[r] > 0
          BY <1>2, <2>1, <3>2, <5>1, <5>2, <5>5
        <5>9. Dialogue'
          BY <1>1, <5>3, <5>4, <5>7, <5>8 DEF Dialogue
        <5>10. Result'
          BY <1>1, <2>2, <5>8 DEF Result
        <5>11. Current'
          BY <1>16, <5>6, <5>9, <5>10 DEF Current
        <5> QED
          BY <1>14, <1>15, <5>11 DEF IInv
      <4> QED
        BY <4>2, <4>3, <4>4
    <3> QED
      BY <3>1, <3>4, <3>5
  <2> QED
    BY <2>5, <2>6
<1> QED
  BY <1>17, <1>18

(***************************************************************************)
(* The theorems                                                            *)
(***************************************************************************)
\* The invariant holds: every step of the parent and of every process keeps it.
THEOREM Invariant == Spec => []IInv
<1>1. Init => IInv
  <2> SUFFICES ASSUME Init
               PROVE  IInv
    OBVIOUS
  <2>1. /\ pc = "ini" /\ cur = 1 /\ nr = 0 /\ fini = FALSE /\ halted = {}
        /\ fout = [r \in Rule |-> FALSE] /\ unsent = [r \in Rule |-> <<>>] /\ cfd = [r \in Rule |-> {}]
        /\ inbox = [r \in Rule |-> <<>>] /\ outbox = [r \in Rule |-> <<>>]
        /\ st = [r \in Rule |-> "none"] /\ asked = [r \in Rule |-> Period]
        /\ seen = [r \in Rule |-> 0] /\ last = [r \in Rule |-> FALSE] /\ code = [r \in Rule |-> 0]
    BY DEF Init
  <2>2. TypeInv
    <3>1. 1 \in 1..(Len(NObj) + 1)
      BY Rules
    <3> QED
      BY <2>1, <3>1 DEF TypeInv
  <2>3. ChildType
    <3>1. <<>> \in Seq(Msg) /\ <<>> \in Seq(Code) /\ Period \in Code
      BY Commanded
    <3> QED
      BY <2>1, <3>1 DEF ChildType
  <2>4. Untouched
    <3> SUFFICES ASSUME NEW r \in Rule
                 PROVE  Fresh(r)
      BY DEF Untouched
    <3>1. Quiet(inbox[r])
      BY <2>1 DEF Quiet
    <3>2. r >= cur
      BY <2>1, Rules
    <3> QED
      BY <2>1, <3>1, <3>2 DEF Fresh
  <2>5. Current /\ Past /\ Halts
    BY <2>1, Rules DEF Current, Past, Over, Halts, Turn
  <2> QED
    BY <2>2, <2>3, <2>4, <2>5 DEF IInv
<1>2. IInv /\ [Next]_vars => IInv'
  <2> SUFFICES ASSUME IInv, [Next]_vars
               PROVE  IInv'
    OBVIOUS
  <2>1. CASE Parent
    BY <2>1, ForkInv, IniDoneInv, SendObjectInv, SendEndInv, CliGoneInv, CliInv, CloseInv, WaitInv, NextPassInv, ExitInv
       DEF Parent
  <2>2. ASSUME NEW r \in Rule, Process(r)
        PROVE  IInv'
    <3>1. CASE Exec(r) \/ ExecFails(r) \/ Read(r) \/ Eof(r)
      BY <3>1, ExecInv, ExecFailsInv, ReadInv, EofInv
    <3>2. CASE \E c \in Cmds \cup {Period} : Send(r, c)
      BY <3>2, SendInv DEF Code
    <3> QED
      BY <2>2, <3>1, <3>2 DEF Process
  <2>3. ASSUME NEW r \in Rule, Warn(r) \/ Crash(r)
        PROVE  IInv'
    BY <2>3, WarnInv, CrashInv
  <2>4. CASE UNCHANGED vars
    <3>1. /\ pc' = pc /\ cur' = cur /\ nr' = nr /\ fini' = fini /\ halted' = halted
          /\ fout' = fout /\ cfd' = cfd /\ unsent' = unsent
          /\ inbox' = inbox /\ outbox' = outbox /\ st' = st /\ asked' = asked /\ seen' = seen /\ last' = last
          /\ code' = code /\ crashed' = crashed /\ parent' = parent /\ child' = child
      BY <2>4 DEF vars, parent, child
    <3>2. TypeInv' /\ ChildType'
      BY <3>1 DEF IInv, TypeInv, ChildType
    <3>3. CASE \E r \in Rule : TRUE
      <4>1. PICK r \in Rule : TRUE
        BY <3>3
      <4>2. Ahead(r) => Fresh(r)'
        BY <3>1 DEF IInv, Untouched, Fresh, Quiet
      <4>3. Over(r) => Finished(r)'
        BY <3>1 DEF IInv, Past, Finished, NoComments
      <4>4. r = Turn => Current'
        <5> SUFFICES ASSUME r = Turn
                     PROVE  Current'
          OBVIOUS
        <5>1. cur = r /\ pc # "ini"
          BY Rules DEF Turn
        <5>2. Live(cur)' = Live(cur)
          BY <3>1 DEF Live
        <5>3. st'[cur] # "none" /\ (cur \notin crashed' \cup Missing /\ ~Live(cur)' => code[cur] < 0 \/ last[cur] = TRUE)
          BY <3>1, <5>1, <5>2 DEF IInv, Current, Stage, Result
        <5> QED
          BY <3>1, <5>1, <5>2, <5>3, StateOnly
      <4> QED
        BY <3>1, <3>2, <4>2, <4>3, <4>4, ChildFrame DEF IInv
    <3>4. CASE ~\E r \in Rule : TRUE
      <4>1. Untouched' /\ Past' /\ Current' /\ Halts'
        BY <3>1, <3>4 DEF IInv, Untouched, Past, Current, Halts
      <4> QED
        BY <3>2, <4>1 DEF IInv
    <3> QED
      BY <3>3, <3>4
  <2> QED
    BY <2>1, <2>2, <2>3, <2>4 DEF Next
<1> QED
  BY <1>1, <1>2, PTL DEF Spec

\* A process that waits for each status gets exactly one for each command, and the
\* one that belongs to it: exec_cli() answers every command it reads once, and the
\* parent sends the status of an object, or of the end, only to a process that has
\* asked for it.
THEOREM AnsweredHolds == Spec => []Answered
<1>1. IInv => Answered
  <2> SUFFICES ASSUME IInv, NEW r \in Rule, st[r] = "run"
               PROVE  /\ Cardinality(Places(inbox[r], "status")) + Cardinality({i \in DOMAIN outbox[r] : outbox[r][i].c # "cmt"})
                          <= IF asked[r] = NoCmd THEN 0 ELSE 1
                      /\ \A i \in Places(inbox[r], "status") : Fits(r, inbox[r][i].n)
    BY DEF Answered
  <2> DEFINE status == Places(inbox[r], "status")
             sent == {i \in DOMAIN outbox[r] : outbox[r][i].c # "cmt"}
  <2>0. Cardinality({}) = 0 /\ \A x : Cardinality({x}) = 1
    BY FS_EmptySet, FS_Singleton
  <2>1. Period # NoCmd /\ InNext(Period) /\ Period.a = 0 /\ ~InNext(NoCmd)
    BY Commanded DEF InNext, NoCmd
  <2>2. outbox[r] = <<>> \/ Comments(outbox[r]) => sent = {}
    BY DEF Comments
  <2>3. ASSUME Quiet(inbox[r]), sent = {}
        PROVE  /\ Cardinality(status) + Cardinality(sent) <= IF asked[r] = NoCmd THEN 0 ELSE 1
               /\ \A i \in status : Fits(r, inbox[r][i].n)
    <3>1. status = {}
      BY <2>3, QuietCounts
    <3> HIDE DEF status, sent
    <3>2. Cardinality(status) = 0 /\ Cardinality(sent) = 0
      BY <2>0, <2>3, <3>1
    <3> QED
      BY <3>1, <3>2
  <2>4. ASSUME NEW j, status = {j}, sent = {}, asked[r] # NoCmd, Fits(r, inbox[r][j].n)
        PROVE  /\ Cardinality(status) + Cardinality(sent) <= IF asked[r] = NoCmd THEN 0 ELSE 1
               /\ \A i \in status : Fits(r, inbox[r][i].n)
    <3> HIDE DEF status, sent
    <3>1. Cardinality(status) = 1 /\ Cardinality(sent) = 0
      BY <2>0, <2>4
    <3> QED
      BY <2>4, <3>1
  <2>5. CASE Ahead(r)
    BY <2>2, <2>3, <2>5 DEF IInv, Untouched, Fresh
  <2>6. ~Over(r)
    BY DEF IInv, Past, Finished
  <2>7. CASE r = Turn
    <3>1. cur = r /\ pc # "ini"
      BY <2>7, Rules DEF Turn
    <3>2. Stage /\ Dialogue /\ Live(r) /\ Working /\ seen[r] \in Nat /\ nr \in Nat /\ NObj[r] \in Nat /\ code[r] \in Int
      <4>1. Stage /\ Dialogue /\ Live(r) /\ seen[r] \in Nat /\ nr \in Nat /\ NObj[r] \in Nat /\ code[r] \in Int
        BY <3>1, AtWork DEF Live
      <4> QED
        BY <3>1, <4>1 DEF Stage
    <3>3. CASE Waiting(r)
      BY <2>2, <2>3, <3>3 DEF Waiting
    <3>4. CASE ~Waiting(r)
      <4>1. Talk(r) /\ (fini = TRUE => code[r] > 0 \/ nr = NObj[r])
        BY <3>1, <3>2, <3>4 DEF Dialogue, Working
      <4>2. CASE HasWord(r)
        BY <2>2, <2>3, <4>2 DEF HasWord
      <4>3. CASE GetsObject(r)
        <5>1. asked[r] = Period /\ sent = {} /\ code[r] = 0
          BY <2>2, <4>3 DEF GetsObject
        <5>2. PICK j : /\ status = {j} /\ inbox[r][j] = Status(200)
                       /\ seen[r] + Cardinality(Places(inbox[r], "obj")) = nr
          <6>1. CASE nr > 0 /\ Reported(inbox[r], nr, 200) /\ seen[r] = nr - 1
            <7>1. nr # 0
              BY <3>2, <6>1
            <7>2. PICK j : status = {j} /\ inbox[r][j] = Status(200)
              BY <6>1, ReportedCounts
            <7>3. PICK h : Places(inbox[r], "obj") = {h}
              BY <6>1, <7>1, ReportedCounts
            <7>5. Cardinality(Places(inbox[r], "obj")) = 1
              BY <2>0, <7>3, Zenon
            <7>4. seen[r] + Cardinality(Places(inbox[r], "obj")) = nr
              BY <3>2, <6>1, <7>5
            <7> QED
              BY <7>2, <7>4
          <6>2. CASE Reported(inbox[r], 0, 200) /\ seen[r] = nr
            <7>1. PICK j : status = {j} /\ inbox[r][j] = Status(200)
              BY <6>2, ReportedCounts
            <7>2. Places(inbox[r], "obj") = {}
              BY <6>2, ReportedCounts
            <7>3. Cardinality(Places(inbox[r], "obj")) = 0
              BY <2>0, <7>2, Zenon
            <7>4. seen[r] + Cardinality(Places(inbox[r], "obj")) = nr
              BY <3>2, <6>2, <7>3
            <7> QED
              BY <7>1, <7>4
          <6> QED
            BY <4>3, <6>1, <6>2 DEF GetsObject
        <5>3. Fits(r, 200)
          BY <2>1, <5>1, <5>2 DEF Fits, InNext
        <5> QED
          BY <2>1, <2>4, <5>1, <5>2, <5>3 DEF Status
      <4>4. CASE GetsEnd(r)
        <5>1. InNext(asked[r]) /\ sent = {} /\ Reported(inbox[r], 0, 404) /\ seen[r] = nr /\ fini = TRUE
          BY <2>2, <4>4 DEF GetsEnd
        <5>2. PICK j : status = {j} /\ inbox[r][j] = Status(404)
          BY <5>1, ReportedCounts
        <5>3. Places(inbox[r], "obj") = {}
          BY <5>1, ReportedCounts
        <5>7. Cardinality(Places(inbox[r], "obj")) = 0
          BY <2>0, <5>3, Zenon
        <5>4. seen[r] + Cardinality(Places(inbox[r], "obj")) = nr
          BY <3>2, <5>1, <5>7
        <5>5. Fits(r, 404)
          BY <4>1, <5>1, <5>4 DEF Fits, InNext
        <5>6. asked[r] # NoCmd
          BY <2>1, <5>1
        <5> QED
          BY <2>4, <5>1, <5>2, <5>5, <5>6 DEF Status
      <4>5. CASE GetsAnswer(r)
        <5>1. /\ asked[r] # NoCmd /\ ~InNext(asked[r]) /\ sent = {}
              /\ Reported(inbox[r], 0, Answer(asked[r]))
          BY <2>2, <4>5 DEF GetsAnswer
        <5>2. PICK j : status = {j} /\ inbox[r][j] = Status(Answer(asked[r]))
          BY <5>1, ReportedCounts
        <5>3. Fits(r, Answer(asked[r]))
          BY <5>1 DEF Fits, Answer, InNext
        <5> QED
          BY <2>4, <5>1, <5>2, <5>3 DEF Status
      <4>6. CASE Asks(r)
        <5>1. asked[r] # NoCmd /\ status = {} /\ Commands(outbox[r], asked[r])
          BY <4>6, QuietCounts DEF Asks
        <5>2. outbox[r] \in Seq(Code)
          BY DEF IInv, ChildType
        <5>3. sent = {Len(outbox[r])}
          <6>1. /\ Len(outbox[r]) \in Nat /\ DOMAIN outbox[r] = 1..Len(outbox[r])
                /\ Len(outbox[r]) > 0 /\ outbox[r][Len(outbox[r])].c # "cmt"
                /\ \A i \in 1..(Len(outbox[r]) - 1) : outbox[r][i].c = "cmt"
            BY <5>1, <5>2 DEF Commands
          <6> DEFINE l == Len(outbox[r])
          <6> HIDE DEF l
          <6>2. \A i \in 1..l : i \in 1..(l - 1) \/ i = l
            BY <6>1 DEF l
          <6> QED
            BY <6>1, <6>2 DEF l
        <5> HIDE DEF status, sent
        <5>4. Cardinality(status) = 0 /\ Cardinality(sent) = 1
          BY <2>0, <5>1, <5>3
        <5>5. /\ Cardinality(status) + Cardinality(sent) <= IF asked[r] = NoCmd THEN 0 ELSE 1
              /\ \A i \in status : Fits(r, inbox[r][i].n)
          BY <5>1, <5>4
        <5> QED
          BY <5>5 DEF status, sent
      <4>7. ~Lost(r)
        BY <3>4 DEF Lost
      <4> QED
        BY <4>1, <4>2, <4>3, <4>4, <4>5, <4>6, <4>7 DEF Talk
    <3> QED
      BY <3>3, <3>4
  <2> QED
    BY <2>5, <2>6, <2>7, Rules DEF IInv, TypeInv, Turn, Ahead, Over
<1> QED
  BY <1>1, Invariant, PTL

\* The objects of a rule come in order, none after a code other than 0, and none to a
\* later rule of the same pass after a negative one; a rule that ends without error,
\* and is not behind such a one, has sent all of them (act_exec_main() in traverse(),
\* main()), if no process sends comments: exec_cli() does not look at what follows one.
THEOREM ObjectsInOrderHolds ==
  ASSUME NoComments
  PROVE  Spec => []ObjectsInOrder
<1>1. IInv => ObjectsInOrder
  <2> SUFFICES ASSUME IInv, NEW r \in Rule
               PROVE  LET objs == Places(inbox[r], "obj")
                      IN /\ st[r] = "run" => \A i \in objs : inbox[r][i].n = seen[r] + Cardinality({j \in objs : j <= i})
                         /\ code[r] # 0 /\ st[r] = "run" => objs = {}
                         /\ \A q \in Rule : Behind(q, r) => seen[q] = 0 /\ Places(inbox[q], "obj") = {}
                         /\ pc # "ini" /\ r < cur /\ code[r] = 0 /\ r \notin crashed \cup Missing =>
                              seen[r] = NObj[r] \/ \E q \in Rule : Behind(r, q)
    BY DEF ObjectsInOrder
  <2> DEFINE objs == Places(inbox[r], "obj")
  <2>0. \A x : Cardinality({x}) = 1
    BY FS_Singleton
  <2>1. Turn \in Nat /\ r \in Nat /\ code[r] \in Int /\ seen[r] \in Nat /\ nr \in Nat
    <3>1. cur \in Nat /\ r \in Nat
      BY Rules DEF IInv, TypeInv
    <3>2. code[r] \in Int /\ seen[r] \in Nat /\ nr \in Nat
      BY DEF IInv, TypeInv, ChildType
    <3> QED
      BY <3>1, <3>2 DEF Turn
  <2>2. \A q \in Rule : Ahead(q) => seen[q] = 0 /\ code[q] = 0 /\ Places(inbox[q], "obj") = {}
    BY QuietCounts DEF IInv, Untouched, Fresh
  <2>3. \A q \in Rule : Over(q) => Finished(q)
    BY DEF IInv, Past
  <2>4. r = Turn /\ st[r] = "run" =>
          \/ objs = {}
          \/ code[r] = 0 /\ \E h : objs = {h} /\ inbox[r][h] = Obj(nr) /\ seen[r] = nr - 1
    <3> SUFFICES ASSUME r = Turn, st[r] = "run"
                 PROVE  \/ objs = {}
                        \/ code[r] = 0 /\ \E h : objs = {h} /\ inbox[r][h] = Obj(nr) /\ seen[r] = nr - 1
      OBVIOUS
    <3>1. cur = r /\ pc # "ini"
      BY Rules DEF Turn
    <3>2. Dialogue /\ Live(r) /\ Working
      <4>1. Stage /\ Dialogue /\ Live(r)
        BY <3>1, AtWork DEF Live
      <4> QED
        BY <3>1, <4>1 DEF Stage
    <3>3. Waiting(r) \/ Talk(r)
      BY <3>1, <3>2 DEF Dialogue, Working
    <3>4. CASE Quiet(inbox[r])
      BY <3>4, QuietCounts
    <3>5. CASE \E n : Reported(inbox[r], 0, n)
      BY <3>5, ReportedCounts
    <3>6. CASE code[r] = 0 /\ nr > 0 /\ Reported(inbox[r], nr, 200) /\ seen[r] = nr - 1
      <4>1. nr # 0
        BY <2>1, <3>6
      <4> QED
        BY <3>6, <4>1, ReportedCounts
    <3> QED
      BY <3>3, <3>4, <3>5, <3>6 DEF Talk, Waiting, HasWord, GetsObject, GetsEnd, GetsAnswer, Asks, Lost
  <2>5. ~Ahead(r) /\ st[r] = "run" => r = Turn
    BY <2>1, <2>3 DEF Finished, Ahead, Over
  <2>6. st[r] = "run" => \A i \in objs : inbox[r][i].n = seen[r] + Cardinality({j \in objs : j <= i})
    <3> SUFFICES ASSUME st[r] = "run", objs # {}
                 PROVE  \A i \in objs : inbox[r][i].n = seen[r] + Cardinality({j \in objs : j <= i})
      OBVIOUS
    <3>1. PICK h : objs = {h} /\ inbox[r][h] = Obj(nr) /\ seen[r] = nr - 1
      BY <2>2, <2>4, <2>5
    <3>2. h \in DOMAIN inbox[r] /\ inbox[r] \in Seq(Msg)
      BY <3>1 DEF Places, IInv, ChildType
    <3>3. h <= h
      BY <3>2
    <3> HIDE DEF objs
    <3>4. {j \in objs : j <= h} = {h}
      BY <3>1, <3>3
    <3>5. Obj(nr).n = nr
      BY DEF Obj
    <3>6. Cardinality({j \in objs : j <= h}) = 1
      BY <2>0, <3>4, Zenon
    <3>7. inbox[r][h].n = seen[r] + Cardinality({j \in objs : j <= h})
      BY <2>1, <3>1, <3>5, <3>6
    <3> QED
      BY <3>1, <3>7
  <2>7. code[r] # 0 /\ st[r] = "run" => objs = {}
    BY <2>2, <2>4, <2>5
  <2>8. \A q \in Rule : Behind(q, r) => seen[q] = 0 /\ Places(inbox[q], "obj") = {}
    <3> SUFFICES ASSUME NEW q \in Rule, q > r, Pass[q] = Pass[r], code[r] < 0
                 PROVE  seen[q] = 0 /\ Places(inbox[q], "obj") = {}
      BY DEF Behind
    <3>1. ~Ahead(r)
      BY <2>1, <2>2
    <3>2. CASE r \in halted
      <4>1. Ahead(q)
        BY <3>2 DEF Ahead, Skipped
      <4> QED
        BY <2>2, <4>1
    <3>3. CASE r \notin halted
      <4>1. ~Over(r)
        BY <2>1, <2>3, <3>3, NoComments DEF Finished
      <4>2. q > Turn
        BY <2>1, <3>1, <4>1, Rules DEF Ahead, Over
      <4> QED
        BY <2>2, <4>2 DEF Ahead
    <3> QED
      BY <3>2, <3>3
  <2>9. pc # "ini" /\ r < cur /\ code[r] = 0 /\ r \notin crashed \cup Missing =>
          seen[r] = NObj[r] \/ \E q \in Rule : Behind(r, q)
    <3> SUFFICES ASSUME pc # "ini", r < cur, code[r] = 0, r \notin crashed \cup Missing
                 PROVE  seen[r] = NObj[r] \/ \E q \in Rule : Behind(r, q)
      OBVIOUS
    <3>1. CASE Skipped(r)
      <4>1. PICK q \in halted : q < r /\ Pass[q] = Pass[r]
        BY <3>1 DEF Skipped
      <4>2. q \in Rule /\ code[q] < 0
        BY DEF IInv, Halts
      <4>3. Behind(r, q)
        BY <4>1, <4>2, Rules DEF Behind
      <4> QED
        BY <4>2, <4>3
    <3>2. CASE ~Skipped(r)
      BY <2>3, <3>2 DEF Turn, Over, Finished
    <3> QED
      BY <3>1, <3>2
  <2> QED
    BY <2>6, <2>7, <2>8, <2>9
<1> QED
  BY <1>1, Invariant, PTL

================================================================================
