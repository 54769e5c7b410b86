------------------------------ MODULE ThreadPool ------------------------------
(***************************************************************************)
(* The worker threads of smrender (src/smthread.c, built with TH_OBJ_LIST). *)
(* The main thread collects objects in the list of one slot, hands a full  *)
(* list to the slot's thread and goes on with another slot; a worker runs  *)
(* the rule's main function on its list, last object first, and reports    *)
(* one result for the whole list.                                          *)
(*                                                                         *)
(* A section between pthread_mutex_lock and pthread_mutex_unlock of        *)
(* mmutex_ is one step; pthread_cond_wait ends it.  What the code does     *)
(* without the mutex (filling a list, emptying a list, running a main      *)
(* function) are steps of their own.  The module RuleEngine is the caller, *)
(* the main thread.                                                        *)
(***************************************************************************)
EXTENDS Integers, Sequences, FiniteSets

CONSTANTS
  NThreads,    \* nthreads_, the value of the option --threads
  ObjMax,      \* obj_max_, capacity of a slot's object list (8 in the build)
  Obj,         \* the OSM objects of the tree, ordered as traverse() visits them
  MainResults  \* what a threaded rule's main function may return

Threads == 0 .. NThreads - 1
NoObj   == 0                  \* NULL

ASSUME PoolAssumption ==
  /\ NThreads \in Nat
  /\ ObjMax \in Nat \ {0}
  /\ Obj \subseteq Nat \ {NoObj}
  /\ MainResults \subseteq Int

VARIABLES
  status,   \* smth_[n].status: "WAIT", "EXEC" or "EXIT"
  obj,      \* smth_[n].obj[0 .. obj_cnt - 1]
  result,   \* smth_[n].result
  cur_id,   \* cur_id_, the slot being filled, -1 if none
  last,     \* _last of get_free_thread()
  wpc,      \* where the worker is in sm_thread_loop()
  wobj,     \* object its main function is working on
  wres,     \* its local variable res
  mwait,    \* the main thread sleeps on mcond_
  done      \* history: calls of main on each object since obj_queue_ini()

workerVars == <<wpc, wobj, wres>>
slotVars   == <<status, obj, result>>
mainVars   == <<cur_id, last>>
poolVars   == <<slotVars, workerVars, mainVars, mwait, done>>

(***************************************************************************)
(* init_threads(): a slot whose pthread_create() failed is marked EXIT and *)
(* nothing runs on it ("none"); the number of slots is not reduced.        *)
(***************************************************************************)
PoolInit(Failed) ==
  /\ status = [n \in Threads |-> IF n \in Failed THEN "EXIT" ELSE "WAIT"]
  /\ wpc    = [n \in Threads |-> IF n \in Failed THEN "none" ELSE "lock"]
  /\ obj    = [n \in Threads |-> << >>]
  /\ result = [n \in Threads |-> 0]
  /\ wobj   = [n \in Threads |-> NoObj]
  /\ wres   = [n \in Threads |-> 0]
  /\ cur_id = -1
  /\ last   = 0
  /\ mwait  = FALSE
  /\ done   = [o \in Obj |-> 0]

-----------------------------------------------------------------------------
(* The worker: sm_thread_loop() *)

\* Top of the loop, under the mutex: start, leave, or sleep on the slot's cond.
WorkerLock(n) ==
  /\ wpc[n] = "lock"
  /\ wpc' = [wpc EXCEPT ![n] = CASE status[n] = "EXEC" -> "exec"
                                 [] status[n] = "EXIT" -> "gone"
                                 [] OTHER -> "sleep"]
  /\ wres' = [wres EXCEPT ![n] = 0]
  /\ UNCHANGED <<slotVars, wobj, mainVars, mwait, done>>

\* for (res = 0; !res && smth->obj_cnt;): take the last object, call main on it.
WorkerCall(n) ==
  /\ wpc[n] = "exec" /\ wres[n] = 0 /\ obj[n] # << >>
  /\ LET o == obj[n][Len(obj[n])] IN
       /\ wobj' = [wobj EXCEPT ![n] = o]
       /\ done' = [done EXCEPT ![o] = @ + 1]
  /\ obj' = [obj EXCEPT ![n] = SubSeq(@, 1, Len(@) - 1)]
  /\ wpc' = [wpc EXCEPT ![n] = "main"]
  /\ UNCHANGED <<status, result, wres, mainVars, mwait>>

WorkerReturn(n) ==
  /\ wpc[n] = "main"
  /\ \E v \in MainResults : wres' = [wres EXCEPT ![n] = v]
  /\ wobj' = [wobj EXCEPT ![n] = NoObj]
  /\ wpc' = [wpc EXCEPT ![n] = "exec"]
  /\ UNCHANGED <<slotVars, mainVars, mwait, done>>

\* Faulty variant: the main thread is not woken.
WorkerPublishSilent(n) ==
  /\ wpc[n] = "exec" /\ (wres[n] # 0 \/ obj[n] = << >>)
  /\ result' = [result EXCEPT ![n] = wres[n]]
  /\ status' = [status EXCEPT ![n] = "WAIT"]
  /\ wpc' = [wpc EXCEPT ![n] = "lock"]
  /\ UNCHANGED <<obj, wobj, wres, mainVars, mwait, done>>

\* End of the list or an error: publish the result, wake the main thread.
WorkerPublish(n) ==
  /\ wpc[n] = "exec" /\ (wres[n] # 0 \/ obj[n] = << >>)
  /\ result' = [result EXCEPT ![n] = wres[n]]
  /\ status' = [status EXCEPT ![n] = "WAIT"]
  /\ mwait' = FALSE
  /\ wpc' = [wpc EXCEPT ![n] = "lock"]
  /\ UNCHANGED <<obj, wobj, wres, mainVars, done>>

Worker(n) == WorkerLock(n) \/ WorkerCall(n) \/ WorkerReturn(n) \/ WorkerPublish(n)

-----------------------------------------------------------------------------
(* The functions the main thread calls *)

\* pthread_cond_signal(&smth_[n].cond) for the slots of S
Signal(S) ==
  wpc' = [n \in Threads |-> IF n \in S /\ wpc[n] = "sleep" THEN "lock" ELSE wpc[n]]

\* pthread_cond_wait(&mcond_, &mmutex_); the loops around it test again.
MainSleep ==
  /\ mwait' = TRUE
  /\ UNCHANGED <<slotVars, workerVars, mainVars, done>>

SomeExec == \E n \in Threads : status[n] = "EXEC"

\* Faulty variant: the next slot in turn, whatever its status is.
NextAny(n) == n = last % NThreads

\* get_free_thread(): the first WAIT slot, round robin from _last
NextFree(n) ==
  /\ status[n] = "WAIT"
  /\ \A m \in Threads :
       status[m] = "WAIT" => (n - last + NThreads) % NThreads <= (m - last + NThreads) % NThreads

\* Faulty variant: starts with the slot of the main thread.
ObjQueueIniMainSlot ==
  /\ cur_id' = NThreads
  /\ done' = [o \in Obj |-> 0]
  /\ UNCHANGED <<slotVars, workerVars, last, mwait>>

\* obj_queue_ini(): note that obj_cnt and result of the slots are kept.
ObjQueueIni ==
  /\ cur_id' = -1
  /\ done' = [o \in Obj |-> 0]
  /\ UNCHANGED <<slotVars, workerVars, last, mwait>>

\* First half of obj_queue(), cur_id_ < 0: get a free slot or sleep.  A slot
\* that carries an error loses its list and its error; obj_queue() returns it.
AcquireBlocked ==
  /\ \A n \in Threads : status[n] # "WAIT"
  /\ MainSleep

Acquire(n) ==
  /\ NextFree(n)
  /\ cur_id' = n
  /\ last' = n + 1
  /\ IF result[n] # 0
       THEN /\ obj' = [obj EXCEPT ![n] = << >>]
            /\ result' = [result EXCEPT ![n] = 0]
       ELSE UNCHANGED <<obj, result>>
  /\ UNCHANGED <<status, workerVars, mwait, done>>

\* Second half of obj_queue(): append without the mutex ...
QueueAppend(o) ==
  /\ obj' = [obj EXCEPT ![cur_id] = Append(@, o)]
  /\ UNCHANGED <<status, result, workerVars, mainVars, mwait, done>>

\* Faulty variant: the slot stays the one that is filled.
DispatchKeepsSlot ==
  /\ status' = [status EXCEPT ![cur_id] = "EXEC"]
  /\ Signal({cur_id})
  /\ UNCHANGED <<obj, result, wobj, wres, mainVars, mwait, done>>

\* ... and start the thread once the list is full.
Dispatch ==
  /\ status' = [status EXCEPT ![cur_id] = "EXEC"]
  /\ Signal({cur_id})
  /\ cur_id' = -1
  /\ UNCHANGED <<obj, result, wobj, wres, last, mwait, done>>

\* Faulty variant: lists that are not full are not started.
ObjQueueSignalFull ==
  LET S == {n \in Threads : status[n] = "WAIT" /\ Len(obj[n]) >= ObjMax} IN
  /\ status' = [n \in Threads |-> IF n \in S THEN "EXEC" ELSE status[n]]
  /\ Signal(S)
  /\ UNCHANGED <<obj, result, wobj, wres, mainVars, mwait, done>>

\* obj_queue_signal(): start every waiting slot that still has objects.
ObjQueueSignal ==
  LET S == {n \in Threads : status[n] = "WAIT" /\ obj[n] # << >>} IN
  /\ status' = [n \in Threads |-> IF n \in S THEN "EXEC" ELSE status[n]]
  /\ Signal(S)
  /\ UNCHANGED <<obj, result, wobj, wres, mainVars, mwait, done>>

\* sm_wait_threads() returns when no slot is executing
WaitBlocked == SomeExec /\ MainSleep

\* Faulty variant: the main thread goes on at once.
NoWait == UNCHANGED poolVars

WaitThreads == ~SomeExec /\ UNCHANGED poolVars

\* delete_threads(), after its sm_wait_threads(): tell all threads to exit ...
SetExit ==
  /\ status' = [n \in Threads |-> "EXIT"]
  /\ Signal(Threads)
  /\ UNCHANGED <<obj, result, wobj, wres, mainVars, mwait, done>>

\* ... and join them.
Joined ==
  /\ \A n \in Threads : wpc[n] \in {"gone", "none"}
  /\ UNCHANGED poolVars

-----------------------------------------------------------------------------
PoolTypeOK ==
  /\ status \in [Threads -> {"WAIT", "EXEC", "EXIT"}]
  /\ obj    \in [Threads -> Seq(Obj)]
  /\ result \in [Threads -> MainResults \cup {0}]
  /\ cur_id \in Threads \cup {-1}
  /\ last   \in 0 .. NThreads
  /\ wpc    \in [Threads -> {"lock", "sleep", "exec", "main", "gone", "none"}]
  /\ wobj   \in [Threads -> Obj \cup {NoObj}]
  /\ wres   \in [Threads -> MainResults \cup {0}]
  /\ mwait  \in BOOLEAN
  /\ done   \in [Obj -> Nat]
=============================================================================
