----------------------------- MODULE TraverseCom ------------------------------
(***************************************************************************)
(* The master and the slave of a websocket session of smrenderd.  The      *)
(* master is the connection thread (http_ws_com() in smrenderd/smhttp.c):  *)
(* it reads commands of the client.  The slave (smrenderd/smdfunc.c)       *)
(* traverses the objects of the session's query with the client's rule and *)
(* hands them over one at a time in a trv_com_t.                           *)
(*                                                                         *)
(* The mutex is explicit because tc_break() unlocks it in a loop while the *)
(* slave may hold it, which the build's mutexes (glibc, default type)      *)
(* carry out by marking the mutex free.  After that the sections of the    *)
(* two threads overlap, so each access to the shared structure, taking and *)
(* giving back the mutex, signalling and going to sleep are steps of their *)
(* own.  Plain stores with no call between them may become visible in any  *)
(* order: mtodo and stodo are those a thread still has to make.            *)
(***************************************************************************)
EXTENDS Naturals

CONSTANTS
  NObj,        \* number of objects a rule matches
  MaxRules,    \* bounds the number of rules the client sends
  InitMayFail, \* init_rule() may fail to allocate the rule
  ReadMayFail, \* ws_read() may fail: a frame larger than the buffer
  ThreadMayFail \* tc_init() may fail, which its caller does not notice

ASSUME ComAssumption ==
  /\ NObj \in Nat /\ MaxRules \in Nat
  /\ {InitMayFail, ReadMayFail, ThreadMayFail} \subseteq BOOLEAN

NoRule == 0
NoObj  == [rule |-> NoRule, nr |-> 0]

VARIABLES
  mtx,         \* "free" or the thread that has locked tc->mtx
  slave_cmd,   \* command for the slave
  master_cmd,  \* the slave's answer
  o,           \* tc->o, the object handed over
  tc_r,        \* tc->r, the rule to be traversed
  mpc, r,      \* the master: where it is, its rule
  mtodo,       \*   and the accesses it still has to make in a row
  spc, rule,   \* the slave: where it is, the rule it applies,
  nr, stodo,   \*   the next object of its traversal, and its accesses
  nrules,      \* number of calls of init_rule() so far, which a rule is known by
  freed,       \* rules that were freed
  got          \* history: the last object the client has received for its rule

com    == <<slave_cmd, master_cmd, o, tc_r>>
rules  == <<r, nrules, freed>>
master == <<mpc, mtodo, rules, got>>
slave  == <<spc, rule, nr, stodo>>
vars   == <<mtx, com, master, slave>>

\* tc_init(); if it fails there is no slave.
Init ==
  /\ mtx = "free" /\ slave_cmd = "WAIT" /\ master_cmd = "WAIT"
  /\ o = NoObj /\ tc_r = NoRule
  /\ mpc = "idle" /\ mtodo = {} /\ r = NoRule /\ nrules = 0 /\ freed = {} /\ got = 0
  /\ spc = "top" \/ (ThreadMayFail /\ spc = "none")
  /\ rule = NoRule /\ nr = 1 /\ stodo = {}

\* pthread_cond_signal() wakes a thread; it then has to lock the mutex again.
Woken(pc) ==
  CASE pc = "slept"  -> "wake"
    [] pc = "mslept" -> "mwake"
    [] pc = "nslept" -> "nwake"
    [] OTHER -> pc

-----------------------------------------------------------------------------
(* The master *)

\* http_ws_com(): the next command of the client, or the end of the connection.
\* A new object first stops the traversal with the old rule.
Command ==
  /\ mpc = "idle"
  /\ \/ nrules < MaxRules /\ mpc' = IF r # NoRule THEN "break" ELSE "parse"
     \/ mpc' = "next"
     \/ mpc' = "free"
  /\ UNCHANGED <<mtx, com, mtodo, rules, got, slave>>

\* http_ws_com() returns without tc_free(); its caller releases the query.
Leave ==
  /\ mpc = "idle" /\ ReadMayFail
  /\ mpc' = "left"
  /\ UNCHANGED <<mtx, com, mtodo, rules, got, slave>>

MasterBody == [break |-> "break2", trav |-> "trav2", next |-> "next2", nwake |-> "nwait", free |-> "free2"]

\* Faulty variant: the sections are entered without the mutex.
MasterNoLock ==
  /\ mpc \in DOMAIN MasterBody
  /\ mpc' = MasterBody[mpc]
  /\ mtodo' = IF mpc = "break" THEN {"slave_cmd", "master_cmd"} ELSE {}
  /\ UNCHANGED <<mtx, com, rules, got, slave>>

MasterLock ==
  /\ mpc \in DOMAIN MasterBody /\ mtx = "free"
  /\ mtx' = "master"
  /\ mpc' = MasterBody[mpc]
  /\ mtodo' = IF mpc = "break" THEN {"slave_cmd", "master_cmd"} ELSE {}
  /\ UNCHANGED <<com, rules, got, slave>>

\* What follows a command for the slave is pthread_cond_signal() ...
MasterSignalled == [break2 |-> "spin", trav3 |-> "unlock", next3 |-> "nwait", free3 |-> "exit"]

MasterSignal ==
  /\ mpc \in DOMAIN MasterSignalled /\ mtodo = {}
  /\ spc' = Woken(spc)
  /\ mpc' = MasterSignalled[mpc]
  /\ UNCHANGED <<mtx, com, mtodo, rules, got, rule, nr, stodo>>

\* ... and in the end pthread_mutex_unlock().
MasterUnlocked == [unlock |-> "idle", again |-> "spin", exit |-> "join"]

MasterUnlock ==
  /\ mpc \in DOMAIN MasterUnlocked /\ mtodo = {}
  /\ mtx' = "free"
  /\ mpc' = MasterUnlocked[mpc]
  /\ UNCHANGED <<com, mtodo, rules, got, slave>>

\* tc_break()
Break ==
  /\ mpc = "break2"
  /\ \E x \in mtodo :
       /\ mtodo' = mtodo \ {x}
       /\ slave_cmd' = IF x = "slave_cmd" THEN "BREAK" ELSE slave_cmd
       /\ master_cmd' = IF x = "master_cmd" THEN "WAIT" ELSE master_cmd
  /\ UNCHANGED <<mtx, o, tc_r, mpc, rules, got, slave>>

\* Faulty variant: tc_break() does not wait.
SpinOnce ==
  /\ mpc = "spin"
  /\ mpc' = "broke"
  /\ UNCHANGED <<mtx, com, mtodo, rules, got, slave>>

\* ... unlocks the mutex as long as master_cmd is not READY,
Spin ==
  /\ mpc = "spin"
  /\ mpc' = IF master_cmd = "READY" THEN "broke" ELSE "again"
  /\ UNCHANGED <<mtx, com, mtodo, rules, got, slave>>

\* and once more; then the rule is freed.
Broke ==
  /\ mpc = "broke"
  /\ mtx' = "free"
  /\ freed' = freed \cup {r}
  /\ r' = NoRule
  /\ mpc' = "parse"
  /\ UNCHANGED <<com, mtodo, nrules, got, slave>>

\* The object is rejected, or becomes a rule, which tc->r points to.
Reject ==
  /\ mpc = "parse"
  /\ mpc' = "idle"
  /\ UNCHANGED <<mtx, com, mtodo, rules, got, slave>>

NewRule ==
  /\ mpc = "parse"
  /\ nrules' = nrules + 1
  /\ r' = nrules' \/ (InitMayFail /\ r' = NoRule)
  /\ tc_r' = r'
  /\ got' = 0
  /\ mpc' = "trav"
  /\ UNCHANGED <<mtx, slave_cmd, master_cmd, o, mtodo, freed, slave>>

\* tc_traverse(), the request of tc_next(), and tc_free()
Traverse ==
  /\ mpc = "trav2"
  /\ slave_cmd' = "TRAVERSE"
  /\ mpc' = "trav3"
  /\ UNCHANGED <<mtx, master_cmd, o, tc_r, mtodo, rules, got, slave>>

NextRequest ==
  /\ mpc = "next2"
  /\ slave_cmd' = "NEXT"
  /\ mpc' = "next3"
  /\ UNCHANGED <<mtx, master_cmd, o, tc_r, mtodo, rules, got, slave>>

\* Faulty variant: the slave is not signalled.
ExitSilent ==
  /\ mpc = "free2"
  /\ slave_cmd' = "EXIT"
  /\ mpc' = "exit"
  /\ UNCHANGED <<mtx, master_cmd, o, tc_r, mtodo, rules, got, slave>>

Exit ==
  /\ mpc = "free2"
  /\ slave_cmd' = "EXIT"
  /\ mpc' = "free3"
  /\ UNCHANGED <<mtx, master_cmd, o, tc_r, mtodo, rules, got, slave>>

\* tc_next() reads the answer,
NextAnswer ==
  /\ mpc = "nwait"
  /\ \/ master_cmd = "WAIT"  /\ mpc' = "nsleep" /\ UNCHANGED mtodo
     \/ master_cmd = "NEXT"  /\ mpc' = "get" /\ mtodo' = {"o", "master_cmd"}
     \/ master_cmd = "READY" /\ mpc' = "unlock" /\ UNCHANGED mtodo
  /\ UNCHANGED <<mtx, com, rules, got, slave>>

\* sleeps if there is none,
NextSleep ==
  /\ mpc = "nsleep"
  /\ mtx' = "free"
  /\ mpc' = "nslept"
  /\ UNCHANGED <<com, mtodo, rules, got, slave>>

\* takes the object and resets the answer.  (NULL is no object.)
GetObject ==
  /\ mpc = "get" /\ "o" \in mtodo
  /\ mtodo' = mtodo \ {"o"}
  /\ got' = IF o = NoObj THEN got ELSE o.nr
  /\ UNCHANGED <<mtx, com, mpc, rules, slave>>

ResetAnswer ==
  /\ mpc = "get" /\ "master_cmd" \in mtodo
  /\ mtodo' = mtodo \ {"master_cmd"}
  /\ master_cmd' = "WAIT"
  /\ UNCHANGED <<mtx, slave_cmd, o, tc_r, mpc, rules, got, slave>>

GetUnlock ==
  /\ mpc = "get" /\ mtodo = {}
  /\ mtx' = "free"
  /\ mpc' = "idle"
  /\ UNCHANGED <<com, mtodo, rules, got, slave>>

\* Joining a thread that does not exist (tc->thread is 0) may end the program.
Join ==
  /\ mpc = "join" /\ spc \in {"gone", "none"}
  /\ mpc' = "end" \/ (spc = "none" /\ mpc' = "crash")
  /\ UNCHANGED <<mtx, com, mtodo, rules, got, slave>>

Master ==
  \/ MasterLock \/ MasterSignal \/ MasterUnlock \/ Break \/ Spin \/ Broke \/ Reject \/ NewRule
  \/ Traverse \/ NextRequest \/ Exit \/ NextAnswer \/ NextSleep
  \/ GetObject \/ ResetAnswer \/ GetUnlock \/ Join

-----------------------------------------------------------------------------
(* The slave: traverse_thread() and the functions of the rule ws_traverse *)

SlaveBody == [top |-> "check", wake |-> "check", main |-> "main2", mwake |-> "mtest", fini |-> "fini2"]

SlaveLock ==
  /\ spc \in DOMAIN SlaveBody /\ mtx = "free"
  /\ mtx' = "slave"
  /\ spc' = SlaveBody[spc]
  /\ stodo' = IF spc = "fini" THEN {"master_cmd", "o"} ELSE {}
  /\ UNCHANGED <<com, master, rule, nr>>

SlaveSignalled == [ready2 |-> "rsleep", hand |-> "mtest", fini2 |-> "done"]

SlaveSignal ==
  /\ spc \in DOMAIN SlaveSignalled /\ stodo = {}
  /\ mpc' = Woken(mpc)
  /\ spc' = SlaveSignalled[spc]
  /\ UNCHANGED <<mtx, com, mtodo, rules, got, rule, nr, stodo>>

\* pthread_mutex_unlock(), or the sleep in pthread_cond_wait()
SlaveUnlocked ==
  [rsleep |-> "slept", msleep |-> "mslept", again |-> "top", leave |-> "gone",
   start |-> "apply", broken |-> "fini", done |-> "flag"]

SlaveUnlock ==
  /\ spc \in DOMAIN SlaveUnlocked
  /\ mtx' = "free"
  /\ spc' = SlaveUnlocked[spc]
  /\ UNCHANGED <<com, master, rule, nr, stodo>>

\* traverse_thread(): the command it finds
Commanded == [WAIT |-> "ready", TRAVERSE |-> "take", EXIT |-> "leave", BREAK |-> "reset", NEXT |-> "reset"]

Check ==
  /\ spc = "check"
  /\ spc' = Commanded[slave_cmd]
  /\ UNCHANGED <<mtx, com, master, rule, nr, stodo>>

Ready ==
  /\ spc = "ready"
  /\ master_cmd' = "READY"
  /\ spc' = "ready2"
  /\ UNCHANGED <<mtx, slave_cmd, o, tc_r, master, rule, nr, stodo>>

ResetCmd ==
  /\ spc = "reset"
  /\ slave_cmd' = "WAIT"
  /\ spc' = "again"
  /\ UNCHANGED <<mtx, master_cmd, o, tc_r, master, rule, nr, stodo>>

TakeRule ==
  /\ spc = "take"
  /\ IF tc_r = NoRule
       THEN spc' = "again" /\ UNCHANGED <<rule, nr>>
       ELSE spc' = "taken" /\ rule' = tc_r /\ nr' = 1
  /\ UNCHANGED <<mtx, com, master, stodo>>

DoTraverse ==
  /\ spc = "taken"
  /\ slave_cmd' = "NEXT"
  /\ spc' = "start"
  /\ UNCHANGED <<mtx, master_cmd, o, tc_r, master, rule, nr, stodo>>

\* apply_smrules(): the next object, or call_fini()
Apply ==
  /\ spc = "apply"
  /\ spc' = IF nr <= NObj THEN "main" ELSE "fini"
  /\ UNCHANGED <<mtx, com, master, rule, nr, stodo>>

\* act_ws_traverse_main() breaks the traversal, hands the object over, or
\* returns 0 with a command that is left to the next call.
MainCommanded == [BREAK |-> "broken", EXIT |-> "broken", NEXT |-> "hand", WAIT |-> "pass", TRAVERSE |-> "pass"]

MainCmd ==
  /\ spc = "main2"
  /\ spc' = MainCommanded[slave_cmd]
  /\ stodo' = IF slave_cmd = "NEXT" THEN {"o", "master_cmd", "slave_cmd"} ELSE {}
  /\ UNCHANGED <<mtx, com, master, rule, nr>>

\* (faulty variant: the slave does not wait for the next command)
MainNextGoesOn ==
  /\ spc = "hand"
  /\ \E x \in stodo :
       /\ stodo' = stodo \ {x}
       /\ o' = IF x = "o" THEN [rule |-> rule, nr |-> nr] ELSE o
       /\ master_cmd' = IF x = "master_cmd" THEN "NEXT" ELSE master_cmd
  /\ UNCHANGED <<mtx, slave_cmd, tc_r, master, spc, rule, nr>>

MainNext ==
  /\ spc = "hand"
  /\ \E x \in stodo :
       /\ stodo' = stodo \ {x}
       /\ o' = IF x = "o" THEN [rule |-> rule, nr |-> nr] ELSE o
       /\ master_cmd' = IF x = "master_cmd" THEN "NEXT" ELSE master_cmd
       /\ slave_cmd' = IF x = "slave_cmd" THEN "WAIT" ELSE slave_cmd
  /\ UNCHANGED <<mtx, tc_r, master, spc, rule, nr>>

\* It waits for the next command.
MainWait ==
  /\ spc = "mtest"
  /\ spc' = IF slave_cmd = "WAIT" THEN "msleep" ELSE "pass"
  /\ UNCHANGED <<mtx, com, master, rule, nr, stodo>>

MainReturn ==
  /\ spc = "pass"
  /\ mtx' = "free"
  /\ nr' = nr + 1
  /\ spc' = "apply"
  /\ UNCHANGED <<com, master, rule, stodo>>

\* act_ws_traverse_fini(); call_fini() then sets the flag FINISHED of the rule.
Fini ==
  /\ spc = "fini2"
  /\ \E x \in stodo :
       /\ stodo' = stodo \ {x}
       /\ master_cmd' = IF x = "master_cmd" THEN "READY" ELSE master_cmd
       /\ o' = IF x = "o" THEN NoObj ELSE o
  /\ UNCHANGED <<mtx, slave_cmd, tc_r, master, spc, rule, nr>>

SetFinished ==
  /\ spc = "flag"
  /\ rule' = NoRule /\ nr' = 1
  /\ spc' = "top"
  /\ UNCHANGED <<mtx, com, master, stodo>>

Slave ==
  \/ SlaveLock \/ SlaveSignal \/ SlaveUnlock \/ Check \/ Ready \/ ResetCmd \/ TakeRule \/ DoTraverse
  \/ Apply \/ MainCmd \/ MainNext \/ MainWait \/ MainReturn \/ Fini \/ SetFinished

Ended == mpc \in {"end", "left", "crash"} /\ UNCHANGED vars

Next == Command \/ Leave \/ Master \/ Slave \/ Ended

\* Both threads are scheduled; a thread that tries a mutex that is free again
\* and again gets it.  A client need not send commands.
Fairness == WF_vars(Master) /\ SF_vars(MasterLock) /\ WF_vars(Slave) /\ SF_vars(SlaveLock)

Spec     == Init /\ [][Next]_vars
FairSpec == Spec /\ Fairness

-----------------------------------------------------------------------------
Cmds == {"WAIT", "NEXT", "BREAK", "EXIT", "TRAVERSE", "READY"}

MasterSection ==
  {"break2", "trav2", "trav3", "next2", "next3", "nwait", "nsleep", "get", "unlock", "free2", "free3", "exit"}
SlaveSection ==
  {"check", "ready", "ready2", "rsleep", "reset", "again", "leave", "take", "taken", "start",
   "main2", "broken", "hand", "mtest", "msleep", "pass", "fini2", "done"}
Spinning == {"spin", "again", "broke"}

TypeOK ==
  /\ mtx \in {"free", "master", "slave"}
  /\ slave_cmd \in Cmds \ {"READY"} /\ master_cmd \in {"WAIT", "NEXT", "READY"}
  /\ o \in [rule : 0 .. MaxRules, nr : 0 .. NObj]
  /\ tc_r \in 0 .. MaxRules /\ r \in 0 .. MaxRules /\ rule \in 0 .. MaxRules
  /\ mpc \in {"idle", "break", "parse", "trav", "next", "nslept", "nwake", "free", "join", "end", "left", "crash"}
              \cup MasterSection \cup Spinning
  /\ spc \in {"none", "top", "slept", "wake", "apply", "main", "mslept", "mwake", "fini", "flag", "gone"}
              \cup SlaveSection
  /\ mtodo \subseteq {"slave_cmd", "master_cmd", "o"} /\ stodo \subseteq {"slave_cmd", "master_cmd", "o"}
  /\ nr \in 1 .. NObj + 1
  /\ nrules \in 0 .. MaxRules
  /\ freed \subseteq 1 .. MaxRules
  /\ got \in 0 .. NObj

\* The client has not replaced its rule by another one yet: tc_break() was not called.
FirstRule == nrules <= 1 /\ freed = {} /\ mpc \notin Spinning

(* The two threads are never inside a section of the mutex at once, until    *)
(* tc_break() unlocks it for whoever holds it.                               *)
Exclusion == FirstRule => ~ (mpc \in MasterSection /\ spc \in SlaveSection)

\* The step of tc_next() that reads tc->o
Reads == mpc = "get" /\ "o" \in mtodo /\ "o" \notin mtodo'

(* The client receives the objects of its first rule in the order of the     *)
(* traversal: none is skipped or repeated.                                   *)
InOrder == [][FirstRule /\ Reads => o = [rule |-> r, nr |-> got + 1]]_vars

\* init_rule() has not failed: each rule is the client's or was freed.
NoneFailed == 1 .. nrules \subseteq freed \cup {r}

(* Even after tc_break() has unlocked a mutex it did not hold, and sections  *)
(* of the two threads overlap: unless init_rule() has failed, an object that *)
(* the client receives was found by its own rule and is none of those before *)
(* the last one it has received.  That one it may receive again (NoRepeats). *)
OwnObjects == [][NoneFailed /\ Reads /\ o # NoObj => o.rule = r /\ o.nr >= got]_vars

(* The slave uses a rule between TC_TRAVERSE and the end of call_fini().     *)
Traversing ==
  spc \in {"taken", "start", "apply", "main", "main2", "broken", "hand", "mtest", "msleep", "mslept", "mwake",
           "pass", "fini", "fini2", "done", "flag"}

(* tc_free() ends the slave of a session with one rule, whatever the slave   *)
(* is doing when the client leaves.                                          *)
FreeReturns == (mpc = "free" /\ FirstRule /\ spc # "none") ~> (mpc = "end")

-----------------------------------------------------------------------------
(* What the comments say and the code does not do *)

(* smdfunc.c: tc_break() waits until the slave "is ready for next command",  *)
(* so that it no longer uses the rule that its caller then frees.            *)
RuleValid == Traversing => rule \notin freed

(* smdfunc.h: TC_EXIT is to "break traversal and terminate thread", so that  *)
(* tc_free() returns from its pthread_join().                                *)
SlaveExits == (mpc = "free" /\ spc # "none") ~> (mpc = "end")

(* smdfunc.c: tc_next() returns NULL if there are "no more elements          *)
(* available" for the rule.                                                  *)
NoDataMeansDone == [][mpc = "nwait" /\ master_cmd = "READY" /\ r # NoRule => got = NObj]_vars

(* smdfunc.c: tc_break() waits until the slave is "ready for next command".  *)
(* If init_rule() has failed, the slave may still have the command of the    *)
(* rule before and hand over objects of a rule that was freed meanwhile.     *)
OwnRule == [][Reads /\ o # NoObj => o.rule = r]_vars

(* smdfunc.h: TC_NEXT says that the "next object is ready", so the client    *)
(* never receives an object twice.                                           *)
NoRepeats == [][Reads /\ o # NoObj => o.nr > got]_vars
=============================================================================
