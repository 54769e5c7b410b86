------------------------------ MODULE RuleEngine ------------------------------
(***************************************************************************)
(* The main thread of smrender applying its rules (src/smcore.c) on top of *)
(* the worker threads of ThreadPool: execute_rules() visits the rules of a *)
(* pass, apply_smrules() traverses the objects for one rule, apply_rule()  *)
(* calls the rule's main function or queues the object, call_ini() and     *)
(* call_fini() frame the applications of a rule.                           *)
(*                                                                         *)
(* Schedule is the sequence of calls of apply_smrules() with a visible     *)
(* rule of the right version: the rule, the objects of the tree it is      *)
(* given that apply_rule() finds visible and matching, and the traversal   *)
(* of the rules the call belongs to (an error ends that traversal).  A     *)
(* rule occurs more than once if sub() rules call it, each time with the   *)
(* objects that this sub() has collected.                                  *)
(***************************************************************************)
EXTENDS ThreadPool

CONSTANTS
  Rules,
  Threaded,       \* rules whose ini calls sm_threaded()
  Once,           \* rules whose ini sets ACTION_EXEC_ONCE
  Schedule,
  CallResults,    \* what the main function of an unthreaded rule may return
  IniResults,     \* what an ini function may return
  CopyResults,    \* what it may return for the further copies of a threaded rule
  Interruptible,  \* SIGINT may occur
  CreateFails     \* the sets of threads whose pthread_create() may fail

ASSUME EngineAssumption ==
  /\ Threaded \subseteq Rules /\ Once \subseteq Rules
  /\ Schedule \in Seq([rule : Rules, objs : SUBSET Obj, pass : Nat])
  /\ CallResults \subseteq Int /\ IniResults \subseteq Int /\ CopyResults \subseteq Int
  /\ Interruptible \in BOOLEAN /\ CreateFails \subseteq SUBSET Threads

VARIABLES
  mpc,       \* where the main thread is
  k,         \* position in Schedule
  todo,      \* matching objects that traverse() has not visited yet
  mobj,      \* the object apply_rule() is called with
  e,         \* return value of the handler, i.e. of traverse()
  int_,      \* set by the SIGINT handler
  exec,      \* rules with ACTION_EXEC
  finished,  \* rules with ACTION_FINISHED
  off,       \* rules whose main and fini were removed by call_ini()
  data       \* state of the data of a rule, for each copy of the rule

ruleVars   == <<exec, finished, off, data>>
engineVars == <<mpc, k, todo, mobj, e, int_, ruleVars>>
vars       == <<poolVars, engineVars>>

Copies  == 0 .. NThreads         \* rth[0 .. nthreads_], the rule itself is the last
Run     == Schedule[k]
TheRule == Run.rule
InPool  == NThreads > 0 /\ TheRule \in Threaded
Pcs     == {"next", "ini", "trv", "acquire", "append", "dispatch", "call", "signal",
            "wait", "fini", "exit", "join", "end"}

-----------------------------------------------------------------------------

(***************************************************************************)
(* call_ini() of rule r: the rule itself (result v); if that succeeds,     *)
(* copy 0 of a threaded rule shares its data and every further copy i is   *)
(* initialised on its own (result w[i]).  old is the data before the call. *)
(***************************************************************************)
IniData(r, v, w, old) ==
  [i \in Copies |->
     IF v = 0 /\ (i = NThreads \/ (r \in Threaded /\ (i = 0 \/ w[i] = 0))) THEN "live" ELSE old[i]]

IniCopies == [1 .. NThreads - 1 -> CopyResults]

\* init_rules(): call_ini() for every rule.  A positive result removes the
\* functions of the rule; init_rule() does not look at a negative one.
Init ==
  /\ \E Failed \in CreateFails : PoolInit(Failed)
  /\ mpc = "next"
  /\ k = 1 /\ todo = {} /\ mobj = NoObj /\ e = 0 /\ int_ = FALSE
  /\ exec = {} /\ finished = {}
  /\ \E v \in [Rules -> IniResults], w \in IniCopies :
       /\ off  = {r \in Rules : v[r] > 0}
       /\ data = [r \in Rules |-> IniData(r, v[r], w, [i \in Copies |-> "none"])]

\* The SIGINT handler runs at any time during the passes.
Interrupt ==
  /\ Interruptible /\ ~int_ /\ mpc \notin {"exit", "join", "end"}
  /\ int_' = TRUE
  /\ UNCHANGED <<poolVars, mpc, k, todo, mobj, e, ruleVars>>

At(pc)   == ~mwait /\ mpc = pc
Goto(pc) == mpc' = pc

\* apply_smrules(), entry: a finished rule is initialised again, unless it is
\* to be executed only once.
EnterRule ==
  /\ At("next") /\ k <= Len(Schedule) /\ ~int_
  /\ Goto("ini")
  /\ e' = 0
  /\ IF TheRule \in finished \ Once
       THEN /\ \E v \in IniResults, w \in IniCopies :
                 /\ data' = [data EXCEPT ![TheRule] = IniData(TheRule, v, w, @)]
                 /\ off' = IF v > 0 THEN off \cup {TheRule} ELSE off
            /\ finished' = finished \ {TheRule}
       ELSE UNCHANGED <<data, off, finished>>
  /\ UNCHANGED <<poolVars, k, todo, mobj, int_, exec>>

\* obj_queue_ini() and the start of the traversal, for a rule with a main function
BeginTraverse ==
  /\ At("ini") /\ TheRule \notin off
  /\ Goto("trv")
  /\ ObjQueueIni
  /\ todo' = Run.objs
  /\ UNCHANGED <<k, mobj, e, int_, ruleVars>>

NoMain ==
  /\ At("ini") /\ TheRule \in off
  /\ Goto("fini")
  /\ UNCHANGED <<poolVars, k, todo, mobj, e, int_, ruleVars>>

\* traverse(): the next object in the order of the tree, handed to apply_rule():
\* skipped if the rule was executed, queued, or given to main at once.
Visit(o) ==
  /\ At("trv") /\ ~int_ /\ e = 0
  /\ \A p \in todo : o <= p
  /\ todo' = todo \ {o}
  /\ IF TheRule \in Once \cap exec
       THEN UNCHANGED <<mpc, mobj>>
       ELSE /\ mobj' = o
            /\ Goto(IF ~InPool THEN "call" ELSE IF cur_id < 0 THEN "acquire" ELSE "append")
  /\ UNCHANGED <<poolVars, k, e, int_, ruleVars>>

\* traverse() returns: no objects left, int_ seen, or the handler returned non-zero
EndTraverse ==
  /\ At("trv") /\ (todo = {} \/ int_ \/ e # 0)
  /\ Goto("signal")
  /\ todo' = {}
  /\ UNCHANGED <<poolVars, k, mobj, e, int_, ruleVars>>

\* apply_rule() returns 0 and has stored v in *ret, which traverse() gets.
Applied(v) ==
  /\ Goto("trv")
  /\ e' = v
  /\ mobj' = NoObj
  /\ exec' = exec \cup {TheRule}
  /\ UNCHANGED <<k, todo, int_, finished, off, data>>

\* apply_rule(), not threaded: main called by the main thread itself
CallMain ==
  /\ At("call")
  /\ done' = [done EXCEPT ![mobj] = @ + 1]
  /\ \E v \in CallResults : Applied(v)
  /\ UNCHANGED <<slotVars, workerVars, mainVars, mwait>>

\* obj_queue(): wait for a slot; the error it may carry; append; start the thread
QueueSleep == At("acquire") /\ AcquireBlocked /\ UNCHANGED engineVars

QueueAcquire(n) ==
  /\ At("acquire")
  /\ Acquire(n)
  /\ IF result[n] # 0
       THEN Applied(result[n])
       ELSE Goto("append") /\ UNCHANGED <<k, todo, mobj, e, int_, ruleVars>>

\* Faulty variant: the thread is started one object too late.
QueueObjTooMany ==
  /\ At("append")
  /\ QueueAppend(mobj)
  /\ IF Len(obj[cur_id]) + 1 > ObjMax
       THEN Goto("dispatch") /\ UNCHANGED <<k, todo, mobj, e, int_, ruleVars>>
       ELSE Applied(0)

QueueObj ==
  /\ At("append")
  /\ QueueAppend(mobj)
  /\ IF Len(obj[cur_id]) + 1 >= ObjMax
       THEN Goto("dispatch") /\ UNCHANGED <<k, todo, mobj, e, int_, ruleVars>>
       ELSE Applied(0)

QueueDispatch == At("dispatch") /\ Dispatch /\ Applied(0)

\* apply_smrules() after the traversal: obj_queue_signal(), sm_wait_threads()
SignalRest ==
  /\ At("signal")
  /\ ObjQueueSignal
  /\ Goto("wait")
  /\ UNCHANGED <<k, todo, mobj, e, int_, ruleVars>>

WaitSleep == mpc \in {"wait", "exit"} /\ ~mwait /\ WaitBlocked /\ UNCHANGED engineVars

\* j: the first call after i that is not of the same pass
NextPass(i, j) ==
  \A h \in i + 1 .. j :
    h < j <=> h <= Len(Schedule) /\ Schedule[h].pass = Schedule[i].pass

\* An error < 0 is returned to the traversal of the rules, which ends.
WaitDone ==
  /\ At("wait")
  /\ WaitThreads
  /\ IF e < 0
       THEN Goto("next") /\ \E j \in k + 1 .. Len(Schedule) + 1 : NextPass(k, j) /\ k' = j
       ELSE Goto("fini") /\ k' = k
  /\ UNCHANGED <<todo, mobj, e, int_, ruleVars>>

\* call_fini(): the copies N-1 .. 1 and the rule; copy 0 shares the rule's data.
FiniCopies(r) == IF r \in Threaded THEN Copies ELSE {NThreads}

CallFini ==
  /\ At("fini")
  /\ Goto("next")
  /\ k' = k + 1
  /\ e' = 0
  /\ IF TheRule \in off \cup finished
       THEN UNCHANGED <<finished, data>>
       ELSE /\ finished' = finished \cup {TheRule}
            /\ data' = [data EXCEPT ![TheRule] =
                          [i \in Copies |-> IF i \in FiniCopies(TheRule) THEN "freed" ELSE @[i]]]
  /\ UNCHANGED <<poolVars, todo, mobj, int_, exec, off>>

\* The passes are over; main() returns and the destructor delete_threads() runs.
LeavePasses ==
  /\ At("next") /\ (k > Len(Schedule) \/ int_)
  /\ Goto("exit")
  /\ UNCHANGED <<poolVars, k, todo, mobj, e, int_, ruleVars>>

DeleteThreads ==
  /\ At("exit") /\ ~SomeExec
  /\ SetExit
  /\ Goto("join")
  /\ UNCHANGED <<k, todo, mobj, e, int_, ruleVars>>

JoinThreads ==
  /\ At("join")
  /\ Joined
  /\ Goto("end")
  /\ UNCHANGED <<k, todo, mobj, e, int_, ruleVars>>

Main ==
  \/ EnterRule \/ BeginTraverse \/ NoMain
  \/ \E o \in todo : Visit(o)
  \/ EndTraverse \/ CallMain
  \/ QueueSleep \/ (\E n \in Threads : QueueAcquire(n)) \/ QueueObj \/ QueueDispatch
  \/ SignalRest \/ WaitSleep \/ WaitDone \/ CallFini
  \/ LeavePasses \/ DeleteThreads \/ JoinThreads

WorkerStep(n) == Worker(n) /\ UNCHANGED engineVars

Ended == mpc = "end" /\ UNCHANGED vars

Next == Main \/ (\E n \in Threads : WorkerStep(n)) \/ Interrupt \/ Ended

\* Threads are scheduled by the kernel, mutexes are held for bounded times and
\* main functions return: every thread that can go on eventually does.
Fairness == WF_vars(Main) /\ \A n \in Threads : WF_vars(WorkerStep(n))

Spec     == Init /\ [][Next]_vars
FairSpec == Spec /\ Fairness

-----------------------------------------------------------------------------
\* between obj_queue_ini() and the end of call_fini()
InRule == mpc \notin {"next", "ini", "exit", "join", "end"} /\ TheRule \notin off

(* Type invariant: the pool's (PoolTypeOK) and the engine's variables. *)
TypeOK ==
  /\ PoolTypeOK
  /\ mpc  \in Pcs
  /\ k    \in 1 .. Len(Schedule) + 1
  /\ todo \subseteq Obj
  /\ mobj \in Obj \cup {NoObj}
  /\ e    \in {0} \cup MainResults \cup CallResults
  /\ int_ \in BOOLEAN
  /\ exec \subseteq Rules /\ finished \subseteq Rules /\ off \subseteq Rules
  /\ data \in [Rules -> [Copies -> {"none", "live", "freed"}]]

(* The unlocked accesses of obj_queue() and sm_thread_loop() never meet: the *)
(* slot the main thread fills is waiting, and a worker between its two       *)
(* critical sections has a slot that is executing.                           *)
Ownership ==
  /\ mpc \in {"append", "dispatch"} =>
       cur_id \in Threads /\ status[cur_id] = "WAIT" /\ wpc[cur_id] \in {"lock", "sleep"}
  /\ \A n \in Threads : wpc[n] \in {"exec", "main"} => status[n] = "EXEC"

(* The object list of a slot (an array of obj_max_ pointers next to those of *)
(* the other slots) is never written past its end, whatever main returned    *)
(* and although obj_queue_ini() keeps obj_cnt: a list that obj_queue() is    *)
(* about to append to has room.                                              *)
ListFits ==
  /\ \A n \in Threads : Len(obj[n]) <= ObjMax
  /\ mpc = "append" => Len(obj[cur_id]) < ObjMax

(* call_fini() runs alone, on data that was initialised: no worker executes, *)
(* and every copy it finalises is live (not freed by an earlier fini).       *)
FiniSafe ==
  mpc = "fini" =>
    /\ \A n \in Threads : wpc[n] \notin {"exec", "main"} /\ status[n] # "EXEC"
    /\ TheRule \notin off \cup finished => \A i \in FiniCopies(TheRule) : data[TheRule][i] = "live"

(* When call_fini() is reached without a signal or an error, every matching  *)
(* object has been given to main exactly once and no other object has: the   *)
(* hand-over through the slots loses and duplicates nothing.                 *)
AppliedOnce ==
  mpc = "fini" /\ TheRule \notin off \cup Once /\ ~int_ /\ e = 0 =>
    \A o \in Obj : done[o] = (IF o \in Run.objs THEN 1 ELSE 0)

(* Two workers never run main on the same object (main functions such as     *)
(* act_poly_area_main() reallocate the object's tags without a lock).        *)
NoConcurrentMain ==
  \A n, m \in Threads : n # m /\ wobj[n] # NoObj => wobj[n] # wobj[m]

(* An object list changes only by its worker taking its last object while it *)
(* executes, or by the main thread while the worker is before its mutex.     *)
ListHandedOver ==
  [][\A n \in Threads : obj'[n] # obj[n] =>
        \/ status[n] = "EXEC" /\ wpc[n] = "exec" /\ obj'[n] = SubSeq(obj[n], 1, Len(obj[n]) - 1)
        \/ status[n] = "WAIT" /\ wpc[n] \in {"lock", "sleep"}]_vars

(* Every run ends, with all threads joined, if a thread could be created:    *)
(* no wake-up is lost between the workers and the main thread.               *)
Terminates == (\E n \in Threads : wpc[n] # "none") ~> (mpc = "end")

(* The engine implements RuleRuns: an object that is not visited yet, held   *)
(* by apply_rule() or in a list is pending, one in a worker's main is active.*)
Runs == INSTANCE RuleRuns WITH
  applying <- mpc \notin {"next", "exit", "join", "end"},
  pending  <- IF mpc = "ini" THEN Run.objs
              ELSE todo \cup ({mobj} \ {NoObj}) \cup
                   UNION {{obj[n][i] : i \in DOMAIN obj[n]} : n \in Threads},
  active   <- {wobj[n] : n \in Threads} \ {NoObj},
  stopped  <- int_

(* If the functions of all rules return 0, rules are applied one at a time,  *)
(* each object once, and every application ends.                             *)
ImplementsRuns == Runs!Spec

-----------------------------------------------------------------------------
(* What the documentation says and the code does not do *)

(* smrender.tex: act_*_main() gets "the OSM object which matched the rule".  *)
MainOnMatch == \A n \in Threads : wpc[n] = "main" => wobj[n] \in Run.objs

(* smrender.tex: fini is called "directly after the last match", so main is  *)
(* not called with the data that fini has freed.                             *)
NoMainAfterFini == mpc = "call" => data[TheRule][NThreads] # "freed"
=============================================================================
