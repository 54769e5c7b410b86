-------------------------------- MODULE ExecCli --------------------------------
(***************************************************************************)
(* The action "exec" (src/smexec.c): every rule of this action has a       *)
(* process of its own, which gets the matching objects on its standard     *)
(* input and sends commands on its standard output.                        *)
(*                                                                         *)
(* All processes are forked when the rules are initialised, one after the  *)
(* other; the pipes to the earlier ones are open then, so a process also   *)
(* holds the write ends of its predecessors' inputs, and a copy of what    *)
(* stdio has not yet written to them.                                      *)
(*                                                                         *)
(* A line of a process is written at once, and one read() of the parent    *)
(* gets all lines there are (they are much shorter than its buffer).       *)
(* Pipes do not fill up.  The rules are of one type, with versions (the     *)
(* passes of main()) in the order of their ids, in which they are started.  *)
(***************************************************************************)
EXTENDS Integers, Sequences, FiniteSets

CONSTANTS
  NObj,     \* NObj[r]: number of objects that match the exec rule r, in the order of rules
  Pass,     \* Pass[r]: version of the rule, the pass in which it is applied
  Ends,     \* Ends[r]: the process exits after its last "period" or when its input ends ("eof")
  Missing,  \* rules whose command cannot be executed
  Cmds,     \* commands of the processes
  MaxCmds,  \* bounds the number of them, except for the period that means success
  MaxCrash  \* bounds the number of processes that die

Rule == 1 .. Len(NObj)

ASSUME ExecAssumption ==
  /\ NObj \in Seq(Nat) /\ Pass \in [Rule -> Nat]
  /\ \A p, q \in Rule : p <= q => Pass[p] <= Pass[q]
  /\ Ends \in [Rule -> {"period", "eof"}] /\ Missing \subseteq Rule
  /\ MaxCmds \in Nat /\ MaxCrash \in Nat
  /\ Cmds \subseteq [c : {"next", "get", "help", "cmt", "junk"}, a : Int]

Period == [c |-> "next", a |-> 0]
NoCmd  == [c |-> "none", a |-> 0]
Header == [k |-> "header", n |-> 0]

VARIABLES
  pc, cur,     \* the parent: where it is, and the rule it is at
  nr,          \* the object of this rule that was sent last
  fini,        \* exec_cli() was called by act_exec_fini()
  halted,      \* history: rules that ended their pass
  fout,        \* fout[r]: ec->fout is open
  unsent,      \* unsent[r]: what is still in the buffer of ec->fout
  cfd,         \* cfd[r]: which of CHLD_IN and CHLD_EIN are open
  inbox,       \* inbox[r]: the pipe to the process's stdin
  outbox, err, \* the pipes from its stdout and (if there is something in it) stderr
  st,          \* st[r]: state of the process
  asked,       \* asked[r]: the command it awaits the status of
  seen,        \* seen[r]: number of objects it has read
  heads,       \* history: number of headers it has read
  last,        \* last[r]: it was told that there are no more objects
  code,        \* history: code[r] is the first code not 0 it has sent for an object
  crashed,     \* history: processes that died, and
  ncmds        \*   number of commands sent

parent == <<pc, cur, nr, fini, halted, fout, cfd>>
child  == <<st, asked, seen, heads, last, code, crashed, ncmds>>
vars   == <<parent, unsent, inbox, outbox, err, child>>

Init ==
  /\ pc = "ini" /\ cur = 1 /\ nr = 0 /\ fini = FALSE /\ halted = {}
  /\ fout = [r \in Rule |-> FALSE] /\ unsent = [r \in Rule |-> <<>>]
  /\ cfd = [r \in Rule |-> {}]
  /\ inbox = [r \in Rule |-> <<>>] /\ outbox = inbox /\ err = [r \in Rule |-> FALSE]
  /\ st = [r \in Rule |-> "none"] /\ asked = [r \in Rule |-> Period]
  /\ seen = [r \in Rule |-> 0] /\ last = [r \in Rule |-> FALSE]
  /\ code = seen /\ heads = seen
  /\ crashed = {} /\ ncmds = 0

Obj(n)    == [k |-> "obj", n |-> n]
Status(n) == [k |-> "status", n |-> n]

\* The write end of a process's stdin is held by the parent and by later processes.
Alive(r)    == st[r] \notin {"none", "gone"}
InputOpen(r) == fout[r] \/ \E q \in Rule : q > r /\ Alive(q)

\* send_status() flushes what was printed before.  There is no reader any more
\* if the process is gone (SIGPIPE is caught).
SayStatus(r, printed, n) ==
  /\ unsent' = [unsent EXCEPT ![r] = <<>>]
  /\ inbox' = [inbox EXCEPT ![r] = IF st[r] = "gone" THEN @ ELSE @ \o unsent[r] \o printed \o <<Status(n)>>]

-----------------------------------------------------------------------------
(* Start of the processes *)

\* act_exec_ini(): the header stays in the buffer.
Fork ==
  /\ pc = "ini" /\ cur \in Rule
  /\ fout' = [fout EXCEPT ![cur] = TRUE]
  /\ unsent' = [unsent EXCEPT ![cur] = <<Header>>]
  /\ cfd' = [cfd EXCEPT ![cur] = {"out", "err"}]
  /\ st' = [st EXCEPT ![cur] = "forked"]
  /\ cur' = cur + 1
  /\ UNCHANGED <<pc, nr, fini, halted, inbox, outbox, err, asked, seen, heads, last, code, crashed, ncmds>>

Exec(r) ==
  /\ st[r] = "forked" /\ r \notin Missing
  /\ st' = [st EXCEPT ![r] = "run"]
  /\ UNCHANGED <<parent, unsent, inbox, outbox, err, asked, seen, heads, last, code, crashed, ncmds>>

\* execvpe() fails: a message on stderr, and exit() writes the buffers that were
\* copied by fork(), those of the earlier processes (whose headers nobody has sent).
ExecFails(r) ==
  /\ st[r] = "forked" /\ r \in Missing
  /\ st' = [st EXCEPT ![r] = "gone"]
  /\ err' = [err EXCEPT ![r] = TRUE]
  /\ inbox' = [q \in Rule |-> IF q < r /\ st[q] # "gone" THEN Append(inbox[q], Header) ELSE inbox[q]]
  /\ UNCHANGED <<parent, unsent, outbox, asked, seen, heads, last, code, crashed, ncmds>>

IniDone ==
  /\ pc = "ini" /\ cur \notin Rule
  /\ pc' = "rule" /\ cur' = 1
  /\ UNCHANGED <<nr, fini, halted, fout, cfd, unsent, inbox, outbox, err, child>>

-----------------------------------------------------------------------------
(* The parent: one rule after the other *)

\* act_exec_main()
SendObject ==
  /\ pc = "rule" /\ cur \in Rule /\ nr < NObj[cur]
  /\ nr' = nr + 1
  /\ SayStatus(cur, <<Obj(nr')>>, 200)
  /\ pc' = "cli"
  /\ UNCHANGED <<cur, fini, halted, fout, cfd, outbox, err, child>>

\* act_exec_fini(), after the last object or an error
SendEnd ==
  /\ \/ pc = "rule" /\ cur \in Rule /\ nr = NObj[cur]
     \/ pc = "failed"
  /\ SayStatus(cur, <<>>, 404)
  /\ fini' = TRUE /\ pc' = "cli"
  /\ UNCHANGED <<cur, nr, halted, fout, cfd, outbox, err, child>>

\* Faulty variant: a negative code ends the rule only.
AfterAny(ret) == IF fini THEN "close" ELSE IF ret = 0 THEN "rule" ELSE "failed"

\* What follows exec_cli(): the next object, fini after an error, no more rules
\* of this pass after a negative result; act_exec_fini() ignores the result.
After(ret) ==
  IF fini THEN "close"
  ELSE CASE ret = 0 -> "rule" [] ret > 0 -> "failed" [] ret < 0 -> "stop"

\* Both streams have ended.
CliGone ==
  /\ pc = "cli" /\ cfd[cur] = {}
  /\ pc' = After(1)
  /\ UNCHANGED <<cur, nr, fini, halted, fout, cfd, unsent, inbox, outbox, err, child>>

\* select() reports data and ended streams.
Readable(f) == f \in cfd[cur] /\ (~Alive(cur) \/ IF f = "out" THEN outbox[cur] # <<>> ELSE err[cur])

InRange(n) == n \in -128 .. 127

\* parse_exec_cmd(): words are skipped up to the first command, unless the text
\* begins with a comment.
Parsed(buf) ==
  LET known == {i \in DOMAIN buf : buf[i].c \in {"next", "get", "help"}}
  IN IF buf[1].c = "cmt" \/ known = {} THEN buf[1]
     ELSE buf[CHOOSE i \in known : \A j \in known : i <= j]

\* Faulty variant: an error is reported twice.
ReplyTwice(c) ==
  /\ CASE c.c = "next" /\ InRange(c.a) -> UNCHANGED <<unsent, inbox>>
       [] c.c \in {"get", "help"}      -> SayStatus(cur, <<>>, c.a)
       [] OTHER -> SayStatus(cur, <<Status(400)>>, 400)
  /\ pc' = IF c.c = "next" /\ InRange(c.a) THEN After(c.a) ELSE pc

\* exec_next(), exec_get() with its result c.a, exec_help(); a comment has no reply.
Reply(c) ==
  /\ CASE c.c = "next" /\ InRange(c.a) -> UNCHANGED <<unsent, inbox>>
       [] c.c = "get"  -> SayStatus(cur, IF c.a = 200 THEN <<[k |-> "got", n |-> 0]>> ELSE <<>>, c.a)
       [] c.c = "help" -> SayStatus(cur, <<[k |-> "help", n |-> 0]>>, 200)
       [] c.c = "cmt"  -> UNCHANGED <<unsent, inbox>>
       [] OTHER        -> SayStatus(cur, <<>>, 400)
  /\ pc' = IF c.c = "next" /\ InRange(c.a) THEN After(c.a) ELSE pc

\* Faulty variant: a stream that has ended stays open.
CliKeepsOpen ==
  /\ pc = "cli"
  /\ \E f \in {"out", "err"} : Readable(f)
  /\ IF "out" \in cfd[cur] /\ outbox[cur] # <<>>
       THEN Reply(Parsed(outbox[cur]))
       ELSE UNCHANGED <<pc, unsent, inbox>>
  /\ outbox' = [outbox EXCEPT ![cur] = <<>>]
  /\ err' = [err EXCEPT ![cur] = FALSE]
  /\ UNCHANGED <<cur, nr, fini, halted, fout, cfd, child>>

\* exec_cli(): one round of its loop.  A stream that has ended is closed.
Cli ==
  /\ pc = "cli"
  /\ \E f \in {"out", "err"} : Readable(f)
  /\ cfd' = [cfd EXCEPT ![cur] = {f \in @ : ~Readable(f) \/ IF f = "out" THEN outbox[cur] # <<>> ELSE err[cur]}]
  /\ IF "out" \in cfd[cur] /\ outbox[cur] # <<>>
       THEN Reply(Parsed(outbox[cur]))
       ELSE UNCHANGED <<pc, unsent, inbox>>
  /\ outbox' = [outbox EXCEPT ![cur] = <<>>]
  /\ err' = [err EXCEPT ![cur] = FALSE]
  /\ UNCHANGED <<cur, nr, fini, halted, fout, child>>

\* act_exec_fini(), close_free_exec_ctrl()
Close ==
  /\ pc = "close"
  /\ inbox' = [inbox EXCEPT ![cur] = IF st[cur] = "gone" THEN @ ELSE Append(@, [k |-> "end", n |-> 0])]
  /\ fout' = [fout EXCEPT ![cur] = FALSE]
  /\ cfd' = [cfd EXCEPT ![cur] = {}]
  /\ pc' = "wait"
  /\ UNCHANGED <<cur, nr, fini, halted, unsent, outbox, err, child>>

\* waitpid()
Wait ==
  /\ pc = "wait" /\ st[cur] = "gone"
  /\ pc' = "rule" /\ cur' = cur + 1 /\ nr' = 0 /\ fini' = FALSE
  /\ UNCHANGED <<halted, fout, cfd, unsent, inbox, outbox, err, child>>

\* execute_rules() returns a negative result without act_exec_fini(). main() does
\* not look at it and goes on with the next version.
NextPass ==
  /\ pc = "stop"
  /\ LET later == {q \in Rule : Pass[q] > Pass[cur]}
     IN cur' = IF later = {} THEN Len(NObj) + 1 ELSE CHOOSE q \in later : \A p \in later : q <= p
  /\ pc' = "rule" /\ nr' = 0 /\ fini' = FALSE /\ halted' = halted \cup {cur}
  /\ UNCHANGED <<fout, cfd, unsent, inbox, outbox, err, child>>

\* The program ends; it does not wait for processes that were not closed.
Exit ==
  /\ pc = "rule" /\ cur \notin Rule
  /\ pc' = "end"
  /\ fout' = [r \in Rule |-> FALSE]
  /\ cfd' = [r \in Rule |-> {}]
  /\ unsent' = [r \in Rule |-> <<>>]
  /\ inbox' = [r \in Rule |-> IF st[r] = "gone" THEN inbox[r] ELSE inbox[r] \o unsent[r]]
  /\ UNCHANGED <<cur, nr, fini, halted, outbox, err, child>>

Parent == Fork \/ IniDone \/ SendObject \/ SendEnd \/ CliGone \/ Cli \/ Close \/ Wait \/ NextPass \/ Exit

-----------------------------------------------------------------------------
(* A process.  It sends a command when it has the status of the one before. *)

Read(r) ==
  /\ st[r] = "run" /\ inbox[r] # <<>>
  /\ LET m == Head(inbox[r])
     IN /\ seen' = IF m.k = "obj" THEN [seen EXCEPT ![r] = @ + 1] ELSE seen
        /\ heads' = IF m.k = "header" THEN [heads EXCEPT ![r] = @ + 1] ELSE heads
        /\ asked' = IF m.k = "status" THEN [asked EXCEPT ![r] = NoCmd] ELSE asked
        /\ last' = IF m.k = "status" /\ m.n = 404 /\ asked[r].c = "next" THEN [last EXCEPT ![r] = TRUE] ELSE last
  /\ inbox' = [inbox EXCEPT ![r] = Tail(@)]
  /\ UNCHANGED <<parent, unsent, outbox, err, st, code, crashed, ncmds>>

\* A period after the last status, or one with a negative code, ends the dialogue.
Send(r, c) ==
  /\ st[r] = "run" /\ asked[r] = NoCmd
  /\ c # Period => ncmds < MaxCmds
  /\ ncmds' = IF c # Period THEN ncmds + 1 ELSE ncmds
  /\ outbox' = [outbox EXCEPT ![r] = Append(@, c)]
  /\ IF c.c = "next" /\ InRange(c.a) /\ (last[r] \/ c.a < 0)
       THEN /\ st' = [st EXCEPT ![r] = IF Ends[r] = "period" THEN "gone" ELSE "done"]
            /\ UNCHANGED asked
       ELSE /\ asked' = IF c.c = "cmt" THEN asked ELSE [asked EXCEPT ![r] = c]
            /\ UNCHANGED st
  /\ code' = IF c.c = "next" /\ InRange(c.a) /\ ~last[r] /\ code[r] = 0 THEN [code EXCEPT ![r] = c.a] ELSE code
  /\ UNCHANGED <<parent, unsent, inbox, err, seen, heads, last, crashed>>

Warn(r) ==
  /\ st[r] = "run" /\ ncmds < MaxCmds
  /\ ncmds' = ncmds + 1
  /\ err' = [err EXCEPT ![r] = TRUE]
  /\ UNCHANGED <<parent, unsent, inbox, outbox, st, asked, seen, heads, last, code, crashed>>

\* End of input
Eof(r) ==
  /\ st[r] \in {"run", "done"} /\ ~InputOpen(r)
  /\ st[r] = "run" => inbox[r] = <<>>
  /\ st' = [st EXCEPT ![r] = "gone"]
  /\ UNCHANGED <<parent, unsent, inbox, outbox, err, asked, seen, heads, last, code, crashed, ncmds>>

Crash(r) ==
  /\ st[r] \in {"run", "done"} /\ Cardinality(crashed) < MaxCrash
  /\ st' = [st EXCEPT ![r] = "gone"]
  /\ crashed' = crashed \cup {r}
  /\ UNCHANGED <<parent, unsent, inbox, outbox, err, asked, seen, heads, last, code, ncmds>>

Process(r) == Exec(r) \/ ExecFails(r) \/ Read(r) \/ (\E c \in Cmds \cup {Period} : Send(r, c)) \/ Eof(r)

End == pc = "end" /\ \A r \in Rule : st[r] = "gone"

Next ==
  \/ Parent
  \/ \E r \in Rule : Process(r) \/ Warn(r) \/ Crash(r)
  \/ End /\ UNCHANGED vars

Spec == Init /\ [][Next]_vars

\* The parent and the processes go on: each reads what it is sent, and sends a
\* command at some time when it is its turn.
FairSpec == Spec /\ WF_vars(Parent) /\ \A r \in Rule : WF_vars(Process(r))

-----------------------------------------------------------------------------
(* Properties *)

\* Places of the items of a kind in a pipe.
Places(pipe, kind) == {i \in DOMAIN pipe : pipe[i].k = kind}

\* The status a process may get: 404 only if all objects were sent or it has asked
\* for no more of them (send_status(), exec_cli(), act_exec_main(), act_exec_fini()).
Fits(r, n) ==
  LET c == asked[r]
      total == seen[r] + Cardinality(Places(inbox[r], "obj"))
  IN CASE c.c = "get"  -> n = c.a
       [] c.c = "help" -> n = 200
       [] c.c = "next" /\ InRange(c.a) -> \/ n = 200 /\ c.a = 0 /\ code[r] = 0 /\ total = nr
                                          \/ n = 404 /\ (code[r] > 0 \/ total = NObj[r])
       [] OTHER -> n = 400

\* A process that waits for each status before it sends the next command gets
\* exactly one for each, and the one that belongs to its command, with errors,
\* ended streams and other processes in between (the replies of exec_cli()).
Answered ==
  \A r \in Rule : st[r] = "run" =>
    LET status == Places(inbox[r], "status")
        sent   == {i \in DOMAIN outbox[r] : outbox[r][i].c # "cmt"}
    IN /\ Cardinality(status) + Cardinality(sent) <= IF asked[r] = NoCmd THEN 0 ELSE 1
       /\ \A i \in status : Fits(r, inbox[r][i].n)

\* A process is sent the objects of its rule in order, none after a code other than
\* 0, and after a negative one no process of a later rule of the same pass is sent
\* any.  A rule that ends without error, and is not behind such a one, has sent
\* them all (act_exec_main() in traverse(), main()).
Behind(q, r) == q > r /\ Pass[q] = Pass[r] /\ code[r] < 0
ObjectsInOrder ==
  \A r \in Rule :
    LET objs == Places(inbox[r], "obj")
    IN /\ st[r] = "run" => \A i \in objs : inbox[r][i].n = seen[r] + Cardinality({j \in objs : j <= i})
       /\ code[r] # 0 /\ st[r] = "run" => objs = {}
       /\ \A q \in Rule : Behind(q, r) => seen[q] = 0 /\ Places(inbox[q], "obj") = {}
       /\ pc # "ini" /\ r < cur /\ code[r] = 0 /\ r \notin crashed \cup Missing =>
            seen[r] = NObj[r] \/ \E q \in Rule : Behind(r, q)

\* The program ends whatever the processes answer, also if they die or cannot be
\* executed (waitpid() in close_free_exec_ctrl(), exec_cli()).
Finishes == <>(pc = "end" /\ \A r \in Rule : st[r] = "gone")

\* After a negative code no process of any later rule is sent objects: "it will
\* imediately stop further processing" (doc/smrender.tex:1996-1997).
StopsAtOnce ==
  \A r, q \in Rule : q > r /\ code[r] < 0 => seen[q] = 0 /\ Places(inbox[q], "obj") = {}

\* The dialogue begins with one header (act_exec_ini(); the protocol in
\* doc/smrender.tex).
OneHeader == \A r \in Rule : heads[r] + Cardinality(Places(inbox[r], "header")) <= 1
================================================================================
