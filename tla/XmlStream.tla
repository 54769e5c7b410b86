------------------------------ MODULE XmlStream ------------------------------
(***************************************************************************)
(* libhpxml.c: elements out of an XML file that is read piece by piece into *)
(* a buffer, mapped into memory, or lies in memory.                         *)
(*                                                                         *)
(* A text is a sequence of tokens, records with a kind k; Width is how many *)
(* characters a token stands for. Between the characters < ("lt") and >     *)
(* ("gt") the token "el" is the name of a tag, its attributes and slash, as *)
(* the record x. A read delivers whole tokens.                              *)
(***************************************************************************)
EXTENDS Integers, Sequences, FiniteSets, SequencesExt

Kind(k) == [k |-> k]
\* "cend" and "dend" are the ends "-->" and "]]>" of comments and CDATA.
Width(t) == CASE t.k = "el" -> 4 [] t.k = "com" -> 3 [] t.k = "cdata" -> 8 [] t.k = "doctype" -> 8
              [] t.k \in {"cend", "dend"} -> 3 [] t.k = "word" -> 2 [] t.k = "blanks" -> 12 [] OTHER -> 1
\* Position of a token's last character behind those of the tokens before it.
Chars(b) == LET n[i \in 0..Len(b)] == IF i = 0 THEN 0 ELSE n[i - 1] + Width(b[i]) IN n

(***************************************************************************)
(* One element in the buffer b                                             *)
(***************************************************************************)
At(b, i, k) == i \in DOMAIN b /\ b[i].k = k

\* count_tag(): what the element is; the buffer must have room for the shortest one.
TagKind(b) == CASE At(b, 2, "com") /\ Chars(b)[Len(b)] >= 7 -> "comment"
                [] At(b, 2, "cdata") /\ Chars(b)[Len(b)] >= 12 -> "cdata"
                [] At(b, 2, "doctype") /\ Chars(b)[Len(b)] >= 10 -> "doctype"
                [] OTHER -> "ill"
\* The delimiter that is open at a token, and the depth of square brackets.
Quote(b) == LET d[i \in 0..Len(b)] == IF i = 0 THEN "" ELSE
                  IF b[i].k \notin {"quot", "apos"} THEN d[i - 1]
                  ELSE IF d[i - 1] = "" THEN b[i].k ELSE IF d[i - 1] = b[i].k THEN "" ELSE d[i - 1]
            IN d
Squares(b) == LET n[i \in 0..Len(b)] == IF i = 0 THEN 0 ELSE
                    n[i - 1] + (IF b[i].k = "open" THEN 1 ELSE IF b[i].k = "close" THEN -1 ELSE 0)
              IN n
\* A comment's end has to be behind the 7th character, that of CDATA behind the
\* 12th: neither is seen if it is empty.
Closes(b, i) ==
  CASE TagKind(b) = "comment" -> b[i].k = "cend" /\ Chars(b)[i] - 1 >= 7
    [] TagKind(b) = "cdata" -> b[i].k = "dend" /\ Chars(b)[i] - 1 >= 12
    [] TagKind(b) = "doctype" -> b[i].k = "gt" /\ Squares(b)[i] = 0
    [] OTHER -> b[i].k \in {"gt", "cend", "dend"} /\ Quote(b)[i] = ""
\* Tokens of the tag; 0 if it is not closed.
CountTag(b) == LET end == {i \in 2..Len(b) : Closes(b, i)}
               IN IF end = {} THEN 0 ELSE CHOOSE i \in end : \A j \in end : i <= j
\* count_literal(): the tokens before the next tag; -1 if there is none.
CountLiteral(b) == SelectInSeq(b, LAMBDA t : t.k = "lt") - 1

Blank(t) == t.k \in {"blank", "nl", "blanks"}
LeftTrim(s) == LET i == SelectInSeq(s, LAMBDA t : ~Blank(t)) IN IF i = 0 THEN <<>> ELSE SubSeq(s, i, Len(s))
Trim(s) == Reverse(LeftTrim(Reverse(LeftTrim(s))))

\* The loop over leading blanks compares their number with a length that it
\* decrements: with blanks in half of b or more it ends too early, and if b is of
\* even length hpx_proc_buf() takes the literal for unclosed. (If it is odd, a
\* literal keeps some of its blanks.)
Stuck(b) == LET blanks == Len(b) - Len(LeftTrim(b))
            IN 2 * Chars(b)[blanks] >= Chars(b)[Len(b)] /\ Chars(b)[Len(b)] % 2 = 0

\* The name that an opening or single tag leaves in last_open.
OpenName(tok) == IF At(tok, 2, "el") /\ tok[2].x.type # "close" THEN tok[2].x.name ELSE ""

\* hpx_proc_buf(): [n, elem, last]: the tokens to go on by, the element (empty:
\* a literal of blanks) and last_open; n is -1 if the element is not closed.
ProcBuf(b, in_tag, last) ==
  IF in_tag
  THEN LET n == CountTag(b)
       IN IF n = 0 THEN [n |-> -1, elem |-> <<>>, last |-> last]
          ELSE [n |-> n, elem |-> SubSeq(b, 1, n), last |-> OpenName(SubSeq(b, 1, n))]
  ELSE LET n == CountLiteral(b)
           closing == /\ last # "" /\ Len(b) > n + 2
                      /\ At(b, n + 2, "el") /\ b[n + 2].x.type = "close" /\ b[n + 2].x.name = last
           lit == SubSeq(b, 1, n)
       IN IF n = -1 \/ (~closing /\ Stuck(b)) THEN [n |-> -1, elem |-> <<>>, last |-> last]
          ELSE [n |-> n, elem |-> IF closing THEN lit ELSE Trim(lit), last |-> ""]

(***************************************************************************)
(* The control structure: ctl.got are the tokens read from the file so far, *)
(* ctl.buf the buffer, ctl.pos how many of its tokens are used up.          *)
(***************************************************************************)
CtlInit(mode, text) ==
  [mode |-> mode, got |-> IF mode = "read" THEN 0 ELSE Len(text),
   buf |-> IF mode = "read" THEN <<>> ELSE text, pos |-> 0,
   empty |-> mode = "read", eof |-> FALSE, in_tag |-> FALSE, last |-> ""]

Rest(ctl) == SubSeq(ctl.buf, ctl.pos + 1, Len(ctl.buf))
Proc(ctl) == ProcBuf(Rest(ctl), ctl.in_tag, ctl.last)
Advance(ctl, r) == [ctl EXCEPT !.pos = @ + r.n, !.in_tag = ~@, !.last = r.last]
Ready(ctl) == ~ctl.empty /\ ctl.buf # <<>> /\ Proc(ctl).n >= 0
\* The end of the file: hpx_get_eleml() returns 0.
AtEnd(ctl) == ~ctl.empty /\ (ctl.buf = <<>> \/ (Proc(ctl).n < 0 /\ ctl.eof))
\* Then there is a tag left behind blanks.
GivesUp(ctl) == AtEnd(ctl) /\ ctl.buf # <<>> /\ ~ctl.in_tag /\ CountLiteral(Rest(ctl)) >= 0
\* What is left is moved to the beginning and k more tokens are read behind it;
\* nothing at the end of the file, of a mapped one, and of memory.
MustFill(ctl) == ctl.empty \/ (ctl.buf # <<>> /\ Proc(ctl).n < 0 /\ ~ctl.eof)
\* Faulty variant: the unread text is not moved when the buffer is refilled.
FillNoMove(ctl, text, k) ==
  [ctl EXCEPT !.buf = @ \o SubSeq(text, ctl.got + 1, ctl.got + k), !.pos = 0, !.got = @ + k,
              !.eof = (k = 0), !.empty = FALSE]
Fill(ctl, text, k) ==
  IF ctl.mode = "mmap" THEN [ctl EXCEPT !.eof = TRUE, !.empty = FALSE]
  ELSE [ctl EXCEPT !.buf = Rest(ctl) \o SubSeq(text, ctl.got + 1, ctl.got + k), !.pos = 0, !.got = @ + k,
                   !.eof = (k = 0), !.empty = FALSE]
Moves(ctl) == ctl.mode # "mmap" /\ ctl.pos > 0

(***************************************************************************)
(* hpx_process_elem(): the parts of an element. A literal has the type      *)
(* "literal", "ill" is an error. Names and attributes go into the tag p     *)
(* given by the caller; only opening and single tags set the attributes.    *)
(***************************************************************************)
MaxAttr == 16
Processed(e, p) ==
  IF e[1].k # "lt" THEN [p EXCEPT !.type = "literal", !.name = "text"]
  ELSE
  CASE At(e, 2, "com") -> IF e[Len(e)].k = "cend" THEN [p EXCEPT !.type = "comment", !.name = "text"] ELSE [p EXCEPT !.type = "ill"]
    [] At(e, 2, "cdata") -> IF e[Len(e)].k = "dend" THEN [p EXCEPT !.type = "cdata", !.name = "text"] ELSE [p EXCEPT !.type = "ill"]
    [] At(e, 2, "doctype") -> [p EXCEPT !.type = "att", !.name = "text"]
    [] At(e, 2, "instr") -> [p EXCEPT !.type = "instr", !.name = "xml"]
    [] At(e, 2, "el") ->
         LET x == e[2].x
         IN CASE x.type = "close" -> [p EXCEPT !.type = "close", !.name = x.name]
              [] x.type # "close" /\ x.nattr > MaxAttr -> [p EXCEPT !.type = "ill", !.name = x.name, !.attr = x.attr]
              [] OTHER -> [type |-> x.type, name |-> x.name, attr |-> x.attr]
    [] OTHER -> [p EXCEPT !.type = "ill"]

(***************************************************************************)
(* What a text is meant to be: the tags cut out of the whole text.          *)
(***************************************************************************)
Elements(text) ==
  LET cut[i \in 1..(Len(text) + 1)] ==        \* those from position i on, which is not in a tag
        IF i > Len(text) THEN <<>>
        ELSE LET tail == SubSeq(text, i, Len(text))
             IN IF text[i].k # "lt" THEN cut[i + 1]
                ELSE LET end == CASE At(tail, 2, "com") -> SelectInSeq(tail, LAMBDA t : t.k = "cend")
                                  [] At(tail, 2, "cdata") -> SelectInSeq(tail, LAMBDA t : t.k = "dend")
                                  [] At(tail, 2, "doctype") -> CountTag(tail)
                                  [] OTHER -> LET q == {j \in DOMAIN tail : tail[j].k = "gt" /\ Cardinality({h \in 1..j : tail[h].k = "quot"}) % 2 = 0}
                                              IN IF q = {} THEN 0 ELSE CHOOSE j \in q : \A h \in q : j <= h
                     IN IF end = 0 THEN <<>> ELSE <<SubSeq(tail, 1, end)>> \o cut[i + end]
  IN cut[1]
=============================================================================
