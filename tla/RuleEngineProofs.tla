--------------------------- MODULE RuleEngineProofs ---------------------------
(***************************************************************************)
(* Safety of the rule engine on its worker threads, for any number of      *)
(* threads, any capacity of the lists, any rules, objects and results.     *)
(*                                                                         *)
(* The properties are not inductive as they stand.  The invariant adds     *)
(* when the slot being filled is waiting (SlotWaits), that a list shrinks  *)
(* before its worker reports an error (ListRoom), and at which points of   *)
(* the main thread no worker executes (Quiet).                             *)
(***************************************************************************)
EXTENDS RuleEngine, SequenceTheorems, TLAPS

WorkerStatus ==
  \A n \in Threads :
    /\ wpc[n] \in {"exec", "main"} => status[n] = "EXEC"
    /\ wpc[n] \in {"gone", "none"} => status[n] = "EXIT"

SlotWaits ==
  /\ mpc \in {"append", "dispatch"} => cur_id \in Threads
  /\ mpc \in {"trv", "call", "append", "dispatch"} /\ cur_id \in Threads => status[cur_id] = "WAIT"

ListRoom ==
  \A n \in Threads :
    /\ Len(obj[n]) <= ObjMax
    /\ wpc[n] = "main" => Len(obj[n]) < ObjMax
    /\ wpc[n] = "exec" /\ wres[n] # 0 => Len(obj[n]) < ObjMax
    /\ status[n] = "WAIT" /\ ~(mpc = "dispatch" /\ n = cur_id) => Len(obj[n]) < ObjMax

Quiet ==
  mpc \in {"fini", "next", "ini", "exit", "join", "end"} =>
    \A n \in Threads : status[n] # "EXEC"

MObj == mpc \in {"call", "acquire", "append", "dispatch"} => mobj \in Obj /\ k <= Len(Schedule)

InSchedule == mpc \in Pcs \ {"next", "exit", "join", "end"} => k <= Len(Schedule)

IInv ==
  /\ TypeOK /\ MObj /\ InSchedule
  /\ WorkerStatus /\ SlotWaits /\ ListRoom /\ Quiet

USE DEF Threads, NoObj
USE PoolAssumption, EngineAssumption

-----------------------------------------------------------------------------
LEMMA ScheduleLength == Len(Schedule) \in Nat
  BY EngineAssumption, LenProperties

LEMMA ScheduleEntry ==
  ASSUME NEW i \in 1 .. Len(Schedule)
  PROVE  /\ Schedule[i].rule \in Rules
         /\ Schedule[i].objs \subseteq Obj
  <1> DEFINE Entry == [rule : Rules, objs : SUBSET Obj, pass : Nat]
  <1>1. Schedule \in Seq(Entry) BY EngineAssumption
  <1> HIDE DEF Entry
  <1>2. Schedule[i] \in Entry BY <1>1
  <1> QED BY <1>2 DEF Entry

\* Taking the last object of a list leaves a list that is one shorter.
LEMMA TakeLast ==
  ASSUME NEW S, NEW s \in Seq(S), s # << >>
  PROVE  /\ Len(s) \in Nat \ {0}
         /\ s[Len(s)] \in S
         /\ SubSeq(s, 1, Len(s) - 1) \in Seq(S)
         /\ Len(SubSeq(s, 1, Len(s) - 1)) = Len(s) - 1
  <1>1. Len(s) \in Nat \ {0}
    BY EmptySeq, LenProperties
  <1>2. \A i \in 1 .. Len(s) : s[i] \in S
    BY ElementOfSeq
  <1>3. Len(s) - 1 \in Int /\ \A i \in 1 .. Len(s) - 1 : s[i] \in S
    BY <1>1, <1>2
  <1>4. /\ SubSeq(s, 1, Len(s) - 1) \in Seq(S)
        /\ Len(SubSeq(s, 1, Len(s) - 1)) = IF 1 <= Len(s) - 1 THEN Len(s) - 1 - 1 + 1 ELSE 0
    BY <1>3, SubSeqProperties
  <1>5. \A m \in Nat \ {0} : (IF 1 <= m - 1 THEN m - 1 - 1 + 1 ELSE 0) = m - 1
    OBVIOUS
  <1>6. s[Len(s)] \in S
    BY <1>1, <1>2
  <1> QED BY <1>1, <1>4, <1>5, <1>6

LEMMA IniDataType ==
  ASSUME NEW r, NEW v, NEW w, NEW old \in [Copies -> {"none", "live", "freed"}]
  PROVE  IniData(r, v, w, old) \in [Copies -> {"none", "live", "freed"}]
  BY DEF IniData

(* The engine starts with empty lists, workers that sleep or were not       *)
(* created, and no data of rules.                                           *)
THEOREM InitInvariant == Init => IInv
  <1> SUFFICES ASSUME Init PROVE IInv
    OBVIOUS
  <1> PICK Failed \in CreateFails : PoolInit(Failed)
    BY DEF Init
  <1>1. PoolTypeOK
    <2>1. << >> \in Seq(Obj) /\ [n \in Threads |-> << >>] \in [Threads -> Seq(Obj)]
      OBVIOUS
    <2>2. /\ status \in [Threads -> {"WAIT", "EXEC", "EXIT"}]
          /\ wpc \in [Threads -> {"lock", "sleep", "exec", "main", "gone", "none"}]
          /\ wobj \in [Threads -> Obj \cup {NoObj}]
          /\ result \in [Threads -> MainResults \cup {0}]
          /\ wres \in [Threads -> MainResults \cup {0}]
      BY DEF PoolInit
    <2>3. last \in 0 .. NThreads /\ done \in [Obj -> Nat]
      BY DEF PoolInit
    <2> QED BY <2>1, <2>2, <2>3 DEF PoolInit, PoolTypeOK
  <1>2. data \in [Rules -> [Copies -> {"none", "live", "freed"}]]
    <2>1. PICK v \in [Rules -> IniResults], w \in IniCopies :
            data = [r \in Rules |-> IniData(r, v[r], w, [i \in Copies |-> "none"])]
      BY DEF Init
    <2>2. [i \in Copies |-> "none"] \in [Copies -> {"none", "live", "freed"}]
      OBVIOUS
    <2> QED BY <2>1, <2>2, IniDataType
  <1>3. TypeOK
    <2>1. k \in 1 .. Len(Schedule) + 1
      BY ScheduleLength DEF Init
    <2>2. off \subseteq Rules /\ exec \subseteq Rules /\ finished \subseteq Rules
      BY DEF Init
    <2> QED BY <1>1, <1>2, <2>1, <2>2 DEF Init, TypeOK, Pcs
  <1>4. MObj /\ InSchedule
    BY DEF Init, MObj, InSchedule
  <1>5. WorkerStatus /\ SlotWaits /\ Quiet
    BY DEF Init, PoolInit, WorkerStatus, SlotWaits, Quiet
  <1>6. ListRoom
    <2>1. \A n \in Threads : Len(obj[n]) = 0
      BY DEF PoolInit
    <2> QED BY <2>1 DEF ListRoom, Init, PoolInit
  <1> QED BY <1>3, <1>4, <1>5, <1>6 DEF IInv

-----------------------------------------------------------------------------
(* The steps of the workers *)

LEMMA WorkerLockInvariant ==
  ASSUME IInv, NEW n \in Threads, WorkerLock(n), UNCHANGED engineVars
  PROVE  IInv'
  <1> USE DEF engineVars, ruleVars, slotVars, mainVars
  <1>1. PoolTypeOK'
    BY DEF IInv, TypeOK, PoolTypeOK, WorkerLock
  <1>2. TypeOK'
    BY <1>1 DEF IInv, TypeOK
  <1>3. (MObj /\ InSchedule)'
    BY DEF IInv, MObj, InSchedule
  <1>4. WorkerStatus'
    BY DEF IInv, TypeOK, PoolTypeOK, WorkerStatus, WorkerLock
  <1>5. (SlotWaits /\ Quiet)'
    BY DEF IInv, SlotWaits, Quiet, WorkerLock
  <1>6. ListRoom'
    BY DEF IInv, TypeOK, PoolTypeOK, ListRoom, WorkerLock
  <1> QED BY <1>2, <1>3, <1>4, <1>5, <1>6 DEF IInv

LEMMA WorkerCallInvariant ==
  ASSUME IInv, NEW n \in Threads, WorkerCall(n), UNCHANGED engineVars
  PROVE  IInv'
  <1> USE DEF engineVars, ruleVars, slotVars, mainVars
  <1> DEFINE o == obj[n][Len(obj[n])]
             s == SubSeq(obj[n], 1, Len(obj[n]) - 1)
  <1>1. o \in Obj /\ s \in Seq(Obj) /\ Len(obj[n]) \in Nat \ {0} /\ Len(s) = Len(obj[n]) - 1
    BY TakeLast DEF IInv, TypeOK, PoolTypeOK, WorkerCall
  <1>2. /\ wobj' = [wobj EXCEPT ![n] = o]
        /\ done' = [done EXCEPT ![o] = @ + 1]
        /\ obj' = [obj EXCEPT ![n] = s]
        /\ wpc' = [wpc EXCEPT ![n] = "main"]
        /\ UNCHANGED <<status, result, wres, mainVars, mwait>>
        /\ wpc[n] = "exec"
    BY DEF WorkerCall
  <1> HIDE DEF o, s
  <1>3. PoolTypeOK'
    <2>1. (/\ obj \in [Threads -> Seq(Obj)]
           /\ wobj \in [Threads -> Obj \cup {NoObj}]
           /\ done \in [Obj -> Nat])'
      BY <1>1, <1>2, SMTT(40) DEF IInv, TypeOK, PoolTypeOK
    <2> QED BY <1>2, <2>1 DEF IInv, TypeOK, PoolTypeOK
  <1>4. TypeOK'
    BY <1>3 DEF IInv, TypeOK
  <1>5. (MObj /\ InSchedule)'
    BY DEF IInv, MObj, InSchedule
  <1>6. WorkerStatus'
    BY DEF IInv, TypeOK, PoolTypeOK, WorkerStatus, WorkerCall
  <1>7. (SlotWaits /\ Quiet)'
    BY DEF IInv, SlotWaits, Quiet, WorkerCall
  <1>8. ListRoom'
    BY <1>1, <1>2, SMTT(40) DEF IInv, TypeOK, PoolTypeOK, ListRoom
  <1> QED BY <1>4, <1>5, <1>6, <1>7, <1>8 DEF IInv

LEMMA WorkerReturnInvariant ==
  ASSUME IInv, NEW n \in Threads, WorkerReturn(n), UNCHANGED engineVars
  PROVE  IInv'
  <1> USE DEF engineVars, ruleVars, slotVars, mainVars
  <1>1. PoolTypeOK'
    BY DEF IInv, TypeOK, PoolTypeOK, WorkerReturn
  <1>2. TypeOK'
    BY <1>1 DEF IInv, TypeOK
  <1>3. (MObj /\ InSchedule)'
    BY DEF IInv, MObj, InSchedule
  <1>4. WorkerStatus'
    BY DEF IInv, TypeOK, PoolTypeOK, WorkerStatus, WorkerReturn
  <1>5. (SlotWaits /\ Quiet)'
    BY DEF IInv, SlotWaits, Quiet, WorkerReturn
  <1>6. ListRoom'
    BY DEF IInv, TypeOK, PoolTypeOK, ListRoom, WorkerReturn
  <1> QED BY <1>2, <1>3, <1>4, <1>5, <1>6 DEF IInv

LEMMA WorkerPublishInvariant ==
  ASSUME IInv, NEW n \in Threads, WorkerPublish(n), UNCHANGED engineVars
  PROVE  IInv'
  <1> USE DEF engineVars, ruleVars, slotVars, mainVars
  <1>1. PoolTypeOK'
    BY DEF IInv, TypeOK, PoolTypeOK, WorkerPublish
  <1>2. TypeOK'
    BY <1>1 DEF IInv, TypeOK
  <1>3. (MObj /\ InSchedule)'
    BY DEF IInv, MObj, InSchedule
  <1>4. WorkerStatus'
    BY DEF IInv, TypeOK, PoolTypeOK, WorkerStatus, WorkerPublish
  <1>5. (SlotWaits /\ Quiet)'
    BY DEF IInv, TypeOK, PoolTypeOK, SlotWaits, Quiet, WorkerPublish
  <1>6. ListRoom'
    <2>1. Len(obj[n]) < ObjMax
      BY DEF IInv, WorkerPublish, ListRoom
    <2> QED BY <2>1 DEF IInv, TypeOK, PoolTypeOK, ListRoom, WorkerPublish
  <1> QED BY <1>2, <1>3, <1>4, <1>5, <1>6 DEF IInv

LEMMA WorkerInvariant ==
  ASSUME IInv, NEW n \in Threads, WorkerStep(n)
  PROVE  IInv'
  BY WorkerLockInvariant, WorkerCallInvariant, WorkerReturnInvariant, WorkerPublishInvariant
     DEF WorkerStep, Worker

-----------------------------------------------------------------------------
(* The steps of the main thread that leave the pool alone *)

LEMMA KeepsPool ==
  ASSUME IInv, UNCHANGED poolVars
  PROVE  (PoolTypeOK /\ WorkerStatus)'
  BY DEF IInv, TypeOK, PoolTypeOK, WorkerStatus, poolVars, slotVars, workerVars, mainVars

LEMMA InterruptInvariant ==
  ASSUME IInv, Interrupt
  PROVE  IInv'
  <1> USE DEF poolVars, slotVars, workerVars, mainVars, ruleVars
  <1>1. TypeOK'
    BY KeepsPool DEF IInv, TypeOK, Interrupt
  <1>2. (MObj /\ InSchedule /\ SlotWaits /\ ListRoom /\ Quiet)'
    BY DEF IInv, MObj, InSchedule, SlotWaits, ListRoom, Quiet, Interrupt
  <1> QED BY <1>1, <1>2, KeepsPool DEF IInv, Interrupt

LEMMA EnterRuleInvariant ==
  ASSUME IInv, EnterRule
  PROVE  IInv'
  <1> USE DEF poolVars, slotVars, workerVars, mainVars, At, Goto
  <1>1. k \in 1 .. Len(Schedule) /\ TheRule \in Rules
    BY ScheduleLength, ScheduleEntry DEF IInv, TypeOK, EnterRule, TheRule, Run
  <1>2. data' \in [Rules -> [Copies -> {"none", "live", "freed"}]]
    <2>1. CASE TheRule \in finished \ Once
      <3>1. PICK v \in IniResults, w \in IniCopies :
              data' = [data EXCEPT ![TheRule] = IniData(TheRule, v, w, @)]
        BY <2>1 DEF EnterRule
      <3>2. IniData(TheRule, v, w, data[TheRule]) \in [Copies -> {"none", "live", "freed"}]
        BY <1>1, IniDataType DEF IInv, TypeOK
      <3> QED BY <3>1, <3>2 DEF IInv, TypeOK
    <2>2. CASE TheRule \notin finished \ Once
      BY <2>2 DEF IInv, TypeOK, EnterRule
    <2> QED BY <2>1, <2>2
  <1>3. /\ off' \subseteq Rules /\ finished' \subseteq Rules /\ exec' \subseteq Rules
        /\ mpc' = "ini" /\ e' = 0 /\ UNCHANGED <<poolVars, k, todo, mobj, int_>>
    BY <1>1 DEF IInv, TypeOK, EnterRule
  <1>4. TypeOK'
    BY <1>2, <1>3, KeepsPool DEF IInv, TypeOK, Pcs
  <1>5. (MObj /\ InSchedule)'
    BY <1>1, <1>3 DEF MObj, InSchedule
  <1>6. (SlotWaits /\ ListRoom /\ Quiet)'
    BY <1>3 DEF IInv, SlotWaits, ListRoom, Quiet, EnterRule
  <1> QED BY <1>3, <1>4, <1>5, <1>6, KeepsPool DEF IInv

LEMMA NoMainInvariant ==
  ASSUME IInv, NoMain
  PROVE  IInv'
  <1> USE DEF poolVars, slotVars, workerVars, mainVars, ruleVars, At, Goto
  <1>1. TypeOK'
    BY KeepsPool DEF IInv, TypeOK, NoMain, Pcs
  <1>2. (MObj /\ InSchedule /\ SlotWaits /\ ListRoom /\ Quiet)'
    BY DEF IInv, MObj, InSchedule, SlotWaits, ListRoom, Quiet, NoMain, Pcs
  <1> QED BY <1>1, <1>2, KeepsPool DEF IInv, NoMain

LEMMA VisitInvariant ==
  ASSUME IInv, NEW o \in todo, Visit(o)
  PROVE  IInv'
  <1> USE DEF poolVars, slotVars, workerVars, mainVars, ruleVars, At, Goto
  <1>1. o \in Obj /\ k <= Len(Schedule) /\ mpc = "trv"
    BY DEF IInv, TypeOK, InSchedule, Visit, Pcs
  <1>2. mpc' \in {"trv", "call", "acquire", "append"} /\ mobj' \in {mobj, o}
    BY <1>1 DEF Visit
  <1>3. TypeOK'
    BY <1>1, <1>2, KeepsPool DEF IInv, TypeOK, Visit, Pcs
  <1>4. (MObj /\ InSchedule)'
    BY <1>1 DEF IInv, MObj, InSchedule, Visit
  <1>5. SlotWaits'
    <2>1. mpc' = "append" => cur_id \in Threads
      BY <1>1 DEF IInv, TypeOK, PoolTypeOK, Visit
    <2>2. UNCHANGED poolVars
      BY DEF Visit
    <2> QED BY <1>1, <1>2, <2>1, <2>2 DEF IInv, SlotWaits
  <1>6. (ListRoom /\ Quiet)'
    BY <1>1, <1>2 DEF IInv, ListRoom, Quiet, Visit
  <1> QED BY <1>3, <1>4, <1>5, <1>6, KeepsPool DEF IInv, Visit

LEMMA EndTraverseInvariant ==
  ASSUME IInv, EndTraverse
  PROVE  IInv'
  <1> USE DEF poolVars, slotVars, workerVars, mainVars, ruleVars, At, Goto
  <1>1. TypeOK'
    BY KeepsPool DEF IInv, TypeOK, EndTraverse, Pcs
  <1>2. (MObj /\ InSchedule /\ SlotWaits /\ ListRoom /\ Quiet)'
    BY DEF IInv, MObj, InSchedule, SlotWaits, ListRoom, Quiet, EndTraverse, Pcs
  <1> QED BY <1>1, <1>2, KeepsPool DEF IInv, EndTraverse

LEMMA CallFiniInvariant ==
  ASSUME IInv, CallFini
  PROVE  IInv'
  <1> USE DEF poolVars, slotVars, workerVars, mainVars, At, Goto
  <1>1. k \in 1 .. Len(Schedule) /\ TheRule \in Rules
    BY ScheduleLength, ScheduleEntry DEF IInv, TypeOK, InSchedule, Pcs, CallFini, TheRule, Run
  <1>2. data' \in [Rules -> [Copies -> {"none", "live", "freed"}]] /\ finished' \subseteq Rules
    BY <1>1 DEF IInv, TypeOK, CallFini
  <1>3. k' \in 1 .. Len(Schedule) + 1
    BY <1>1, ScheduleLength DEF CallFini
  <1>4. TypeOK'
    BY <1>2, <1>3, KeepsPool DEF IInv, TypeOK, CallFini, Pcs
  <1>5. (MObj /\ InSchedule /\ SlotWaits /\ ListRoom /\ Quiet)'
    BY DEF IInv, MObj, InSchedule, SlotWaits, ListRoom, Quiet, CallFini, Pcs
  <1> QED BY <1>4, <1>5, KeepsPool DEF IInv, CallFini

LEMMA LeavePassesInvariant ==
  ASSUME IInv, LeavePasses
  PROVE  IInv'
  <1> USE DEF poolVars, slotVars, workerVars, mainVars, ruleVars, At, Goto
  <1>1. TypeOK'
    BY KeepsPool DEF IInv, TypeOK, LeavePasses, Pcs
  <1>2. (MObj /\ InSchedule /\ SlotWaits /\ ListRoom /\ Quiet)'
    BY DEF IInv, MObj, InSchedule, SlotWaits, ListRoom, Quiet, LeavePasses, Pcs
  <1> QED BY <1>1, <1>2, KeepsPool DEF IInv, LeavePasses

LEMMA WaitDoneInvariant ==
  ASSUME IInv, WaitDone
  PROVE  IInv'
  <1> USE DEF poolVars, slotVars, workerVars, mainVars, ruleVars, At, Goto
  <1>1. k \in 1 .. Len(Schedule)
    BY ScheduleLength DEF IInv, TypeOK, InSchedule, Pcs, WaitDone
  <1>2. k' \in 1 .. Len(Schedule) + 1 /\ (e >= 0 => k' = k)
    BY <1>1, ScheduleLength DEF IInv, TypeOK, WaitDone
  <1>3. /\ mpc' \in {"next", "fini"} /\ (mpc' = "fini" => k' = k) /\ ~SomeExec
        /\ UNCHANGED poolVars /\ UNCHANGED <<todo, mobj, e, int_, ruleVars>>
    BY DEF WaitDone, WaitThreads
  <1>4. TypeOK'
    BY <1>2, <1>3, KeepsPool DEF IInv, TypeOK, Pcs
  <1>5. (MObj /\ InSchedule)'
    BY <1>1, <1>3 DEF MObj, InSchedule
  <1>6. (SlotWaits /\ ListRoom /\ Quiet)'
    BY <1>3 DEF IInv, SlotWaits, ListRoom, Quiet, WaitDone, SomeExec
  <1> QED BY <1>3, <1>4, <1>5, <1>6, KeepsPool DEF IInv

LEMMA JoinThreadsInvariant ==
  ASSUME IInv, JoinThreads
  PROVE  IInv'
  <1> USE DEF poolVars, slotVars, workerVars, mainVars, ruleVars, At, Goto
  <1>1. TypeOK'
    BY KeepsPool DEF IInv, TypeOK, JoinThreads, Joined, Pcs
  <1>2. (MObj /\ InSchedule /\ SlotWaits /\ ListRoom /\ Quiet)'
    BY DEF IInv, MObj, InSchedule, SlotWaits, ListRoom, Quiet, JoinThreads, Joined, Pcs
  <1> QED BY <1>1, <1>2, KeepsPool DEF IInv, JoinThreads, Joined

-----------------------------------------------------------------------------
(* The steps of the main thread in the pool *)

LEMMA BeginTraverseInvariant ==
  ASSUME IInv, BeginTraverse
  PROVE  IInv'
  <1> USE DEF slotVars, workerVars, mainVars, ruleVars, At, Goto
  <1>1. k \in 1 .. Len(Schedule) /\ mpc = "ini" /\ mpc' = "trv" /\ Run.objs \subseteq Obj
    BY ScheduleLength, ScheduleEntry DEF IInv, TypeOK, InSchedule, Pcs, BeginTraverse, Run
  <1>2. PoolTypeOK'
    BY DEF IInv, TypeOK, PoolTypeOK, BeginTraverse, ObjQueueIni
  <1>3. TypeOK'
    BY <1>1, <1>2 DEF IInv, TypeOK, BeginTraverse, Pcs
  <1>4. (MObj /\ InSchedule /\ WorkerStatus /\ SlotWaits /\ ListRoom /\ Quiet)'
    BY <1>1 DEF IInv, MObj, InSchedule, WorkerStatus, SlotWaits, ListRoom, Quiet, BeginTraverse, ObjQueueIni
  <1> QED BY <1>3, <1>4 DEF IInv

LEMMA CallMainInvariant ==
  ASSUME IInv, CallMain
  PROVE  IInv'
  <1> USE DEF slotVars, workerVars, mainVars, ruleVars, At, Goto
  <1>1. mobj \in Obj /\ k \in 1 .. Len(Schedule) /\ TheRule \in Rules /\ mpc = "call"
    BY ScheduleLength, ScheduleEntry DEF IInv, TypeOK, MObj, CallMain, TheRule, Run
  <1>2. PICK v \in CallResults : Applied(v)
    BY DEF CallMain
  <1>3. done' \in [Obj -> Nat]
    BY <1>1, <1>2 DEF IInv, TypeOK, PoolTypeOK, CallMain
  <1>4. PoolTypeOK'
    BY <1>3 DEF IInv, TypeOK, PoolTypeOK, CallMain
  <1>5. TypeOK'
    BY <1>1, <1>2, <1>4 DEF IInv, TypeOK, Applied, Pcs
  <1>6. (MObj /\ InSchedule /\ WorkerStatus /\ SlotWaits /\ ListRoom /\ Quiet)'
    BY <1>1, <1>2 DEF IInv, MObj, InSchedule, WorkerStatus, SlotWaits, ListRoom, Quiet, CallMain, Applied
  <1> QED BY <1>5, <1>6 DEF IInv

\* pthread_cond_wait() of the main thread changes nothing the invariant speaks of.
LEMMA MainSleepInvariant ==
  ASSUME IInv, MainSleep, UNCHANGED engineVars
  PROVE  IInv'
  <1> USE DEF slotVars, workerVars, mainVars, ruleVars, engineVars
  <1>1. TypeOK'
    BY DEF IInv, TypeOK, PoolTypeOK, MainSleep
  <1>2. (MObj /\ InSchedule /\ WorkerStatus /\ SlotWaits /\ ListRoom /\ Quiet)'
    BY DEF IInv, MObj, InSchedule, WorkerStatus, SlotWaits, ListRoom, Quiet, MainSleep
  <1> QED BY <1>1, <1>2 DEF IInv

LEMMA QueueAcquireInvariant ==
  ASSUME IInv, NEW n \in Threads, QueueAcquire(n)
  PROVE  IInv'
  <1> USE DEF slotVars, workerVars, mainVars, ruleVars, At, Goto
  <1>1. /\ mobj \in Obj /\ k \in 1 .. Len(Schedule) /\ TheRule \in Rules
        /\ mpc = "acquire" /\ mpc' \in {"trv", "append"} /\ status[n] = "WAIT"
    BY ScheduleLength, ScheduleEntry
       DEF IInv, TypeOK, MObj, QueueAcquire, Acquire, NextFree, Applied, TheRule, Run
  <1>2. /\ cur_id' = n /\ last' = n + 1
        /\ obj' \in {obj, [obj EXCEPT ![n] = << >>]} /\ result' \in {result, [result EXCEPT ![n] = 0]}
        /\ UNCHANGED <<status, workerVars, mwait, done>>
    BY DEF QueueAcquire, Acquire
  <1>3. << >> \in Seq(Obj) /\ Len(<< >>) = 0
    BY EmptySeq
  <1>4. PoolTypeOK'
    <2>1. [obj EXCEPT ![n] = << >>] \in [Threads -> Seq(Obj)]
      BY <1>3 DEF IInv, TypeOK, PoolTypeOK
    <2>2. obj' \in [Threads -> Seq(Obj)]
      BY <1>2, <2>1 DEF IInv, TypeOK, PoolTypeOK
    <2>3. result' \in [Threads -> MainResults \cup {0}]
      BY <1>2 DEF IInv, TypeOK, PoolTypeOK
    <2>4. cur_id' \in Threads \cup {-1} /\ last' \in 0 .. NThreads
      BY <1>2
    <2> QED BY <1>2, <2>2, <2>3, <2>4 DEF IInv, TypeOK, PoolTypeOK
  <1>5. /\ e' \in {e, result[n]} /\ mobj' \in {mobj, NoObj} /\ exec' \subseteq Rules
        /\ UNCHANGED <<k, todo, int_, finished, off, data>>
    BY <1>1 DEF IInv, TypeOK, QueueAcquire, Applied
  <1>6. TypeOK'
    <2>1. result[n] \in MainResults \cup {0}
      BY DEF IInv, TypeOK, PoolTypeOK
    <2> QED BY <1>1, <1>4, <1>5, <2>1 DEF IInv, TypeOK, Pcs
  <1>7. (MObj /\ InSchedule)'
    BY <1>1 DEF MObj, InSchedule, QueueAcquire, Applied
  <1>8. (WorkerStatus /\ SlotWaits /\ Quiet)'
    BY <1>1, <1>2 DEF IInv, WorkerStatus, SlotWaits, Quiet
  <1>9. ListRoom'
    BY <1>1, <1>2, <1>3, SMTT(40) DEF IInv, TypeOK, PoolTypeOK, ListRoom
  <1> QED BY <1>6, <1>7, <1>8, <1>9 DEF IInv

LEMMA QueueObjInvariant ==
  ASSUME IInv, QueueObj
  PROVE  IInv'
  <1> USE DEF slotVars, workerVars, mainVars, ruleVars, At, Goto
  <1>1. /\ mobj \in Obj /\ k \in 1 .. Len(Schedule) /\ TheRule \in Rules
        /\ mpc = "append" /\ mpc' \in {"trv", "dispatch"}
        /\ cur_id \in Threads /\ status[cur_id] = "WAIT"
    BY ScheduleLength, ScheduleEntry
       DEF IInv, TypeOK, MObj, SlotWaits, QueueObj, Applied, TheRule, Run
  <1> DEFINE s == Append(obj[cur_id], mobj)
  <1>2. s \in Seq(Obj) /\ Len(s) = Len(obj[cur_id]) + 1 /\ Len(obj[cur_id]) \in Nat
    BY <1>1, AppendProperties, LenProperties DEF IInv, TypeOK, PoolTypeOK
  <1>3. /\ obj' = [obj EXCEPT ![cur_id] = s]
        /\ UNCHANGED <<status, result, workerVars, mainVars, mwait, done>>
    BY DEF QueueObj, QueueAppend
  <1> HIDE DEF s
  <1>4. PoolTypeOK'
    BY <1>1, <1>2, <1>3 DEF IInv, TypeOK, PoolTypeOK
  <1>5. TypeOK'
    BY <1>1, <1>4 DEF IInv, TypeOK, QueueObj, Applied, Pcs
  <1>6. (MObj /\ InSchedule)'
    BY <1>1 DEF IInv, MObj, InSchedule, QueueObj, Applied
  <1>7. (WorkerStatus /\ SlotWaits /\ Quiet)'
    BY <1>1, <1>3 DEF IInv, WorkerStatus, SlotWaits, Quiet
  <1>8. ListRoom'
    <2>1. Len(obj[cur_id]) < ObjMax /\ wpc[cur_id] \notin {"exec", "main"}
      BY <1>1 DEF IInv, ListRoom, WorkerStatus
    <2>2. mpc' = "dispatch" \/ Len(obj[cur_id]) + 1 < ObjMax
      BY <1>1, <1>2 DEF QueueObj
    <2> QED BY <1>1, <1>2, <1>3, <2>1, <2>2 DEF IInv, TypeOK, PoolTypeOK, ListRoom
  <1> QED BY <1>5, <1>6, <1>7, <1>8 DEF IInv

LEMMA QueueDispatchInvariant ==
  ASSUME IInv, QueueDispatch
  PROVE  IInv'
  <1> USE DEF slotVars, workerVars, mainVars, ruleVars, At, Goto
  <1>1. /\ k \in 1 .. Len(Schedule) /\ TheRule \in Rules
        /\ mpc = "dispatch" /\ mpc' = "trv"
        /\ cur_id \in Threads /\ status[cur_id] = "WAIT"
    BY ScheduleLength, ScheduleEntry
       DEF IInv, TypeOK, MObj, SlotWaits, QueueDispatch, Applied, TheRule, Run
  <1>2. /\ status' = [status EXCEPT ![cur_id] = "EXEC"] /\ cur_id' = -1
        /\ wpc' \in [Threads -> {"lock", "sleep", "exec", "main", "gone", "none"}]
        /\ \A n \in Threads : wpc'[n] = wpc[n] \/ (wpc[n] = "sleep" /\ wpc'[n] = "lock")
        /\ UNCHANGED <<obj, result, wobj, wres, last, mwait, done>>
    BY DEF IInv, TypeOK, PoolTypeOK, QueueDispatch, Dispatch, Signal
  <1>3. PoolTypeOK'
    BY <1>1, <1>2 DEF IInv, TypeOK, PoolTypeOK
  <1>4. TypeOK'
    BY <1>1, <1>3 DEF IInv, TypeOK, QueueDispatch, Applied, Pcs
  <1>5. (MObj /\ InSchedule)'
    BY <1>1 DEF IInv, MObj, InSchedule, QueueDispatch, Applied
  <1>6. (WorkerStatus /\ SlotWaits /\ Quiet)'
    BY <1>1, <1>2 DEF IInv, TypeOK, PoolTypeOK, WorkerStatus, SlotWaits, Quiet
  <1>7. ListRoom'
    BY <1>1, <1>2, SMTT(40) DEF IInv, TypeOK, PoolTypeOK, WorkerStatus, ListRoom
  <1> QED BY <1>4, <1>5, <1>6, <1>7 DEF IInv

LEMMA SignalRestInvariant ==
  ASSUME IInv, SignalRest
  PROVE  IInv'
  <1> USE DEF slotVars, workerVars, mainVars, ruleVars, At, Goto
  <1>1. mpc = "signal" /\ mpc' = "wait"
    BY DEF SignalRest
  <1>2. PoolTypeOK'
    BY DEF IInv, TypeOK, PoolTypeOK, SignalRest, ObjQueueSignal, Signal
  <1>3. TypeOK'
    BY <1>2 DEF IInv, TypeOK, SignalRest, Pcs
  <1>4. (MObj /\ InSchedule)'
    BY <1>1 DEF IInv, MObj, InSchedule, SignalRest, Pcs
  <1>5. (WorkerStatus /\ SlotWaits /\ Quiet)'
    BY <1>1 DEF IInv, TypeOK, PoolTypeOK, WorkerStatus, SlotWaits, Quiet, SignalRest, ObjQueueSignal, Signal
  <1>6. ListRoom'
    BY <1>1 DEF IInv, TypeOK, PoolTypeOK, WorkerStatus, ListRoom, SignalRest, ObjQueueSignal, Signal
  <1> QED BY <1>3, <1>4, <1>5, <1>6 DEF IInv

LEMMA DeleteThreadsInvariant ==
  ASSUME IInv, DeleteThreads
  PROVE  IInv'
  <1> USE DEF slotVars, workerVars, mainVars, ruleVars, At, Goto
  <1>1. mpc = "exit" /\ mpc' = "join" /\ \A n \in Threads : status[n] # "EXEC"
    BY DEF DeleteThreads, SomeExec
  <1>2. PoolTypeOK'
    BY DEF IInv, TypeOK, PoolTypeOK, DeleteThreads, SetExit, Signal
  <1>3. TypeOK'
    BY <1>2 DEF IInv, TypeOK, DeleteThreads, Pcs
  <1>4. (MObj /\ InSchedule)'
    BY <1>1 DEF MObj, InSchedule, Pcs
  <1>5. (WorkerStatus /\ SlotWaits /\ Quiet)'
    BY <1>1 DEF IInv, TypeOK, PoolTypeOK, WorkerStatus, SlotWaits, Quiet, DeleteThreads, SetExit, Signal
  <1>6. ListRoom'
    BY <1>1 DEF IInv, TypeOK, PoolTypeOK, WorkerStatus, ListRoom, DeleteThreads, SetExit, Signal
  <1> QED BY <1>3, <1>4, <1>5, <1>6 DEF IInv

LEMMA StutterInvariant ==
  ASSUME IInv, UNCHANGED vars
  PROVE  IInv'
  <1> USE DEF vars, poolVars, slotVars, workerVars, mainVars, ruleVars, engineVars
  <1>1. TypeOK'
    BY KeepsPool DEF IInv, TypeOK
  <1>2. (MObj /\ InSchedule /\ SlotWaits /\ ListRoom /\ Quiet)'
    BY DEF IInv, MObj, InSchedule, SlotWaits, ListRoom, Quiet
  <1> QED BY <1>1, <1>2, KeepsPool DEF IInv

-----------------------------------------------------------------------------
(* IInv is inductive: every step of the main thread, of a worker and of the *)
(* signal handler keeps it.                                                 *)
THEOREM InductiveInvariant == IInv /\ [Next]_vars => IInv'
  <1> SUFFICES ASSUME IInv, [Next]_vars PROVE IInv'
    OBVIOUS
  <1>1. CASE Main
    <2>1. CASE EnterRule \/ BeginTraverse \/ NoMain \/ EndTraverse
      BY <2>1, EnterRuleInvariant, BeginTraverseInvariant, NoMainInvariant, EndTraverseInvariant
    <2>2. CASE \E o \in todo : Visit(o)
      BY <2>2, VisitInvariant
    <2>3. CASE CallMain \/ QueueObj \/ QueueDispatch \/ SignalRest
      BY <2>3, CallMainInvariant, QueueObjInvariant, QueueDispatchInvariant, SignalRestInvariant
    <2>4. CASE QueueSleep \/ WaitSleep
      BY <2>4, MainSleepInvariant DEF QueueSleep, AcquireBlocked, WaitSleep, WaitBlocked
    <2>5. CASE \E n \in Threads : QueueAcquire(n)
      BY <2>5, QueueAcquireInvariant
    <2>6. CASE WaitDone \/ CallFini \/ LeavePasses \/ DeleteThreads \/ JoinThreads
      BY <2>6, WaitDoneInvariant, CallFiniInvariant, LeavePassesInvariant,
         DeleteThreadsInvariant, JoinThreadsInvariant
    <2> QED BY <1>1, <2>1, <2>2, <2>3, <2>4, <2>5, <2>6 DEF Main
  <1>2. CASE \E n \in Threads : WorkerStep(n)
    BY <1>2, WorkerInvariant
  <1>3. CASE Interrupt
    BY <1>3, InterruptInvariant
  <1>4. CASE Ended \/ UNCHANGED vars
    BY <1>4, StutterInvariant DEF Ended
  <1> QED BY <1>1, <1>2, <1>3, <1>4 DEF Next

LEMMA Invariance == Spec => []IInv
  BY InitInvariant, InductiveInvariant, PTL DEF Spec

(* Every variable of the pool and of the engine keeps its type: slot and     *)
(* thread numbers are in range, lists hold objects of the tree, the position *)
(* in the schedule never runs past its end.                                  *)
THEOREM TypeCorrect == Spec => []TypeOK
  <1>1. IInv => TypeOK
    BY DEF IInv
  <1> QED BY <1>1, Invariance, PTL

(* The unlocked accesses of obj_queue() and sm_thread_loop() never meet, for *)
(* any number of threads.                                                    *)
THEOREM OwnershipHolds == Spec => []Ownership
  <1>1. IInv => Ownership
    <2> SUFFICES ASSUME IInv PROVE Ownership
      OBVIOUS
    <2>1. ASSUME mpc \in {"append", "dispatch"}
          PROVE  cur_id \in Threads /\ status[cur_id] = "WAIT" /\ wpc[cur_id] \in {"lock", "sleep"}
      BY <2>1 DEF IInv, TypeOK, PoolTypeOK, SlotWaits, WorkerStatus
    <2> QED BY <2>1 DEF IInv, WorkerStatus, Ownership
  <1> QED BY <1>1, Invariance, PTL

(* No list of objects is written past obj_max_, for any results of main.     *)
THEOREM ListFitsHolds == Spec => []ListFits
  <1>1. IInv => ListFits
    BY DEF IInv, SlotWaits, ListRoom, ListFits
  <1> QED BY <1>1, Invariance, PTL

-----------------------------------------------------------------------------
(* A list changes only in the hands of its worker while the slot executes,   *)
(* or of the main thread while the slot waits and its worker is before the   *)
(* mutex: what ListHandedOver says of a step.                                *)
HandedOver ==
  \A n \in Threads : obj'[n] # obj[n] =>
    \/ status[n] = "EXEC" /\ wpc[n] = "exec" /\ obj'[n] = SubSeq(obj[n], 1, Len(obj[n]) - 1)
    \/ status[n] = "WAIT" /\ wpc[n] \in {"lock", "sleep"}

\* A waiting slot has a worker that is before its first critical section.
LEMMA WaitingWorker ==
  ASSUME IInv, NEW n \in Threads, status[n] = "WAIT"
  PROVE  wpc[n] \in {"lock", "sleep"}
  BY DEF IInv, TypeOK, PoolTypeOK, WorkerStatus

LEMMA StepHandsOver == IInv /\ [Next]_vars => HandedOver
  <1> SUFFICES ASSUME IInv, [Next]_vars, NEW n \in Threads, obj'[n] # obj[n]
               PROVE  \/ status[n] = "EXEC" /\ wpc[n] = "exec" /\ obj'[n] = SubSeq(obj[n], 1, Len(obj[n]) - 1)
                      \/ status[n] = "WAIT" /\ wpc[n] \in {"lock", "sleep"}
    BY DEF HandedOver
  <1> USE DEF slotVars, mainVars, workerVars, poolVars, engineVars
  <1>1. obj \in [Threads -> Seq(Obj)]
    BY DEF IInv, TypeOK, PoolTypeOK
  <1>2. CASE Main
    <2>1. CASE EnterRule \/ NoMain \/ EndTraverse \/ CallFini \/ LeavePasses \/ (\E o \in todo : Visit(o))
      BY <2>1 DEF EnterRule, NoMain, EndTraverse, CallFini, LeavePasses, Visit
    <2>2. CASE BeginTraverse \/ CallMain \/ QueueSleep \/ WaitSleep
      BY <2>2 DEF BeginTraverse, ObjQueueIni, CallMain, QueueSleep, AcquireBlocked, WaitSleep, WaitBlocked, MainSleep
    <2>3. CASE QueueDispatch \/ SignalRest \/ WaitDone \/ DeleteThreads \/ JoinThreads
      BY <2>3 DEF QueueDispatch, Dispatch, SignalRest, ObjQueueSignal, WaitDone, WaitThreads,
                  DeleteThreads, SetExit, JoinThreads, Joined
    <2>4. CASE \E m \in Threads : QueueAcquire(m)
      <3> PICK m \in Threads : QueueAcquire(m)
        BY <2>4
      <3>1. status[m] = "WAIT" /\ obj' \in {obj, [obj EXCEPT ![m] = << >>]}
        BY DEF QueueAcquire, Acquire, NextFree
      <3>2. n = m
        BY <1>1, <3>1
      <3> QED BY <3>1, <3>2, WaitingWorker
    <2>5. CASE QueueObj
      <3>1. cur_id \in Threads /\ status[cur_id] = "WAIT"
        BY <2>5 DEF IInv, SlotWaits, QueueObj, At
      <3>2. n = cur_id
        BY <1>1, <2>5, <3>1 DEF QueueObj, QueueAppend
      <3> QED BY <3>1, <3>2, WaitingWorker
    <2> QED BY <1>2, <2>1, <2>2, <2>3, <2>4, <2>5 DEF Main
  <1>3. CASE \E m \in Threads : WorkerStep(m)
    <2> PICK m \in Threads : WorkerStep(m)
      BY <1>3
    <2>1. CASE WorkerCall(m)
      <3>1. /\ wpc[m] = "exec" /\ status[m] = "EXEC"
            /\ obj' = [obj EXCEPT ![m] = SubSeq(obj[m], 1, Len(obj[m]) - 1)]
        BY <2>1 DEF WorkerCall, IInv, WorkerStatus
      <3>2. n = m
        BY <1>1, <3>1
      <3> QED BY <1>1, <3>1, <3>2
    <2>2. CASE WorkerLock(m) \/ WorkerReturn(m) \/ WorkerPublish(m)
      BY <2>2 DEF WorkerLock, WorkerReturn, WorkerPublish
    <2> QED BY <2>1, <2>2 DEF WorkerStep, Worker
  <1>4. CASE Interrupt \/ Ended \/ UNCHANGED vars
    BY <1>4 DEF Interrupt, Ended, vars
  <1> QED BY <1>2, <1>3, <1>4 DEF Next

(* The lists of objects are handed over between the threads without a race,  *)
(* in every step of every run.                                               *)
THEOREM ListHandedOverHolds == Spec => ListHandedOver
  BY Invariance, StepHandsOver, PTL DEF Spec, ListHandedOver, HandedOver

-----------------------------------------------------------------------------
(* call_fini() and the data of the rules.  A negative result of an ini       *)
(* function, and a failing ini of a further copy, are not acted upon by the  *)
(* code: without them, a rule that is neither switched off nor finished has  *)
(* live data in all copies that call_fini() will finalise.                   *)
FiniData ==
  \A r \in Rules \ (off \cup finished) : \A i \in FiniCopies(r) : data[r][i] = "live"

InisSucceed == IniResults \subseteq Nat /\ CopyResults \subseteq {0}

LEMMA IniDataLive ==
  ASSUME InisSucceed, NEW r \in Rules, NEW w \in IniCopies, NEW old,
         NEW i \in FiniCopies(r)
  PROVE  IniData(r, 0, w, old)[i] = "live"
  <1>1. i \in Copies /\ (i = NThreads \/ r \in Threaded)
    BY DEF FiniCopies, Copies
  <1>2. i \in 1 .. NThreads - 1 => w[i] = 0
    BY DEF InisSucceed, IniCopies
  <1>3. i = NThreads \/ i = 0 \/ w[i] = 0
    BY <1>1, <1>2 DEF Copies
  <1> QED BY <1>1, <1>3 DEF IniData

LEMMA InitFiniData == InisSucceed /\ Init => FiniData
  <1> SUFFICES ASSUME InisSucceed, Init PROVE FiniData
    OBVIOUS
  <1>1. PICK v \in [Rules -> IniResults], w \in IniCopies :
          /\ off = {r \in Rules : v[r] > 0}
          /\ data = [r \in Rules |-> IniData(r, v[r], w, [i \in Copies |-> "none"])]
    BY DEF Init
  <1>2. \A r \in Rules : v[r] \in Nat
    BY DEF InisSucceed
  <1>3. ASSUME NEW r \in Rules, r \notin off PROVE v[r] = 0
    BY <1>1, <1>2, <1>3
  <1>4. ASSUME NEW r \in Rules, r \notin off, NEW i \in FiniCopies(r)
        PROVE  data[r][i] = "live"
    BY <1>1, <1>3, <1>4, IniDataLive
  <1> QED BY <1>4 DEF FiniData

LEMMA StepFiniData == InisSucceed /\ IInv /\ FiniData /\ [Next]_vars => FiniData'
  <1> SUFFICES ASSUME InisSucceed, IInv, FiniData, [Next]_vars PROVE FiniData'
    OBVIOUS
  <1> USE DEF ruleVars, engineVars
  <1>1. CASE EnterRule
    <2>1. TheRule \in Rules
      BY <1>1, ScheduleLength, ScheduleEntry DEF IInv, TypeOK, EnterRule, TheRule, Run
    <2>2. CASE TheRule \in finished \ Once
      <3>1. PICK v \in IniResults, w \in IniCopies :
              /\ data' = [data EXCEPT ![TheRule] = IniData(TheRule, v, w, @)]
              /\ off' = IF v > 0 THEN off \cup {TheRule} ELSE off
        BY <1>1, <2>2 DEF EnterRule
      <3>2. finished' = finished \ {TheRule}
        BY <1>1, <2>2 DEF EnterRule
      <3>3. TheRule \notin off' => v = 0
        BY <3>1 DEF InisSucceed
      <3>4. TheRule \notin off' => \A i \in FiniCopies(TheRule) : data'[TheRule][i] = "live"
        BY <2>1, <3>1, <3>3, IniDataLive DEF IInv, TypeOK
      <3>5. \A r \in Rules \ {TheRule} : data'[r] = data[r]
        BY <3>1 DEF IInv, TypeOK
      <3>6. off \subseteq off'
        BY <3>1
      <3> QED BY <3>2, <3>4, <3>5, <3>6 DEF FiniData
    <2>3. CASE TheRule \notin finished \ Once
      BY <1>1, <2>3 DEF EnterRule, FiniData
    <2> QED BY <2>2, <2>3
  <1>2. CASE CallFini
    <2>1. CASE TheRule \in off \cup finished
      BY <1>2, <2>1 DEF CallFini, FiniData
    <2>2. CASE TheRule \notin off \cup finished
      <3>1. finished' = finished \cup {TheRule} /\ off' = off
        BY <1>2, <2>2 DEF CallFini
      <3>2. \A r \in Rules \ {TheRule} : data'[r] = data[r]
        BY <1>2, <2>2 DEF CallFini, IInv, TypeOK
      <3> QED BY <3>1, <3>2 DEF FiniData
    <2> QED BY <2>1, <2>2
  <1>3. CASE UNCHANGED <<off, finished, data>>
    BY <1>3 DEF FiniData
  <1>4. EnterRule \/ CallFini \/ UNCHANGED <<off, finished, data>>
    BY DEF Next, Main, BeginTraverse, NoMain, Visit, EndTraverse, Applied, CallMain,
           QueueSleep, QueueAcquire, QueueObj, QueueDispatch, SignalRest, WaitSleep, WaitDone,
           LeavePasses, DeleteThreads, JoinThreads, WorkerStep, Interrupt, Ended, vars
  <1> QED BY <1>1, <1>2, <1>3, <1>4

(* As long as the ini functions of the rules do not fail, call_fini() runs   *)
(* without a worker beside it and never finalises data that is not live, for *)
(* any results of the main functions and any moment of a SIGINT.             *)
THEOREM FiniSafeHolds == ASSUME InisSucceed PROVE Spec => []FiniSafe
  <1>1. Init => FiniData
    BY InitFiniData
  <1>2. IInv /\ FiniData /\ [Next]_vars => FiniData'
    BY StepFiniData
  <1>3. IInv /\ FiniData => FiniSafe
    <2> SUFFICES ASSUME IInv, FiniData, mpc = "fini"
                 PROVE  /\ \A n \in Threads : wpc[n] \notin {"exec", "main"} /\ status[n] # "EXEC"
                        /\ TheRule \notin off \cup finished =>
                             \A i \in FiniCopies(TheRule) : data[TheRule][i] = "live"
      BY DEF FiniSafe
    <2>1. TheRule \in Rules
      BY ScheduleLength, ScheduleEntry DEF IInv, TypeOK, InSchedule, Pcs, TheRule, Run
    <2>2. \A n \in Threads : status[n] # "EXEC"
      BY DEF IInv, Quiet
    <2> QED BY <2>1, <2>2 DEF IInv, WorkerStatus, FiniData
  <1> QED BY <1>1, <1>2, <1>3, Invariance, PTL DEF Spec

(***************************************************************************)
(* The rule engine keeps what RuleRuns promises (its safety part) as long  *)
(* as the functions of the rules return 0, for any number of threads, any  *)
(* capacity of the lists, any schedule and any moment of a SIGINT.         *)
(*                                                                         *)
(* The heart of it is where an object can be.  While a rule is applied an  *)
(* object is in at most one place (Apart): not visited yet, in the hands   *)
(* of apply_rule(), at one position of one slot's list, or in one worker's *)
(* main.  Lists are empty between two rules (Drained), so that no object   *)
(* of one rule is left for the next, and an object has been given to main  *)
(* once if it is in none of these places any more (Counted).               *)
(***************************************************************************)

\* The objects of a slot's list
Elems(s) == {s[i] : i \in DOMAIN s}

\* No object is in a list twice.
NoRepeats(s) == \A i, j \in DOMAIN s : s[i] = s[j] => i = j

\* The main functions of threaded rules succeed.
MainsSucceed == MainResults \subseteq {0}

\* between the start of the traversal and the end of sm_wait_threads()
InHand == {"call", "acquire", "append", "dispatch"}
Idle   == {"next", "ini", "fini", "exit", "join", "end"}

NoErrors == \A n \in Threads : result[n] = 0 /\ wres[n] = 0

Holding ==
  /\ \A n \in Threads : wobj[n] # NoObj <=> wpc[n] = "main"
  /\ mpc \notin InHand => mobj = NoObj
  /\ mpc \notin InHand \cup {"trv"} => todo = {}

\* An object is in at most one place.
Apart ==
  /\ \A n \in Threads : NoRepeats(obj[n])
  /\ \A n, m \in Threads : n # m => Elems(obj[n]) \cap Elems(obj[m]) = {}
  /\ \A n, m \in Threads : wobj[n] \notin Elems(obj[m])
  /\ \A n, m \in Threads : n # m /\ wobj[n] # NoObj => wobj[n] # wobj[m]
  /\ \A n \in Threads : wobj[n] \notin todo /\ todo \cap Elems(obj[n]) = {}
  /\ mobj \notin todo
  /\ mpc \in {"call", "acquire", "append"} => \A n \in Threads : mobj # wobj[n] /\ mobj \notin Elems(obj[n])
  /\ mpc = "dispatch" => mobj \in Elems(obj[cur_id])

\* Lists that were not handed to their worker are empty once the rule's lists
\* were all handed over, and all lists are empty when the rule is through.
Drained ==
  \A n \in Threads :
    /\ status[n] = "EXIT" => obj[n] = << >>
    /\ mpc = "wait" /\ status[n] # "EXEC" => obj[n] = << >>
    /\ mpc \in Idle => obj[n] = << >>

RInv == NoErrors /\ Holding /\ Apart /\ Drained

\* Objects that are still to be given to main; the objects main works on
Pending == todo \cup ({mobj} \ {NoObj}) \cup UNION {Elems(obj[n]) : n \in Threads}
Active  == {wobj[n] : n \in Threads} \ {NoObj}

\* What is pending matched the rule, and what matched and is no longer pending
\* has been given to main once.
Outside == {"next", "ini", "exit", "join", "end"}

Tally ==
  /\ Pending \subseteq Run.objs
  /\ TheRule \notin off \cup Once /\ ~int_ /\ e = 0 =>
       \A o \in Obj : done[o] = (IF o \in Run.objs \ Pending THEN 1 ELSE 0)

Counted ==
  /\ mpc \in InHand => e = 0
  /\ mpc \notin Outside => Tally

-----------------------------------------------------------------------------
(* Lists *)

\* Appending a new object to a list
LEMMA ElemsAppend ==
  ASSUME NEW S, NEW s \in Seq(S), NEW x \in S
  PROVE  /\ Elems(Append(s, x)) = Elems(s) \cup {x}
         /\ NoRepeats(s) /\ x \notin Elems(s) => NoRepeats(Append(s, x))
  <1>1. /\ Len(s) \in Nat /\ DOMAIN s = 1 .. Len(s)
        /\ DOMAIN Append(s, x) = 1 .. Len(s) + 1
        /\ \A i \in 1 .. Len(s) : Append(s, x)[i] = s[i]
        /\ Append(s, x)[Len(s) + 1] = x
    BY AppendProperties, LenProperties
  <1>2. 1 .. Len(s) + 1 = (1 .. Len(s)) \cup {Len(s) + 1}
    BY <1>1
  <1>3. Elems(Append(s, x)) = Elems(s) \cup {x}
    BY <1>1, <1>2 DEF Elems
  <1>4. ASSUME NoRepeats(s), x \notin Elems(s) PROVE NoRepeats(Append(s, x))
    BY <1>1, <1>2, <1>4 DEF NoRepeats, Elems
  <1> QED BY <1>3, <1>4

\* Taking the last object of a list without repetitions removes that object.
LEMMA ElemsTakeLast ==
  ASSUME NEW S, NEW s \in Seq(S), s # << >>, NoRepeats(s)
  PROVE  /\ s[Len(s)] \in Elems(s)
         /\ Elems(SubSeq(s, 1, Len(s) - 1)) = Elems(s) \ {s[Len(s)]}
         /\ NoRepeats(SubSeq(s, 1, Len(s) - 1))
  <1> DEFINE t == SubSeq(s, 1, Len(s) - 1)
  <1>1. Len(s) \in Nat \ {0} /\ t \in Seq(S) /\ Len(t) = Len(s) - 1
    BY TakeLast
  <1>2. DOMAIN s = 1 .. Len(s) /\ DOMAIN t = 1 .. Len(s) - 1
    BY <1>1, LenProperties
  <1>3. \A i \in 1 .. Len(s) - 1 : t[i] = s[i]
    BY <1>1, SubSeqProperties
  <1>4. 1 .. Len(s) = (1 .. Len(s) - 1) \cup {Len(s)} /\ Len(s) \notin 1 .. Len(s) - 1
    BY <1>1
  <1> HIDE DEF t
  <1>5. s[Len(s)] \in Elems(s)
    BY <1>1, <1>2 DEF Elems
  <1>6. \A i \in 1 .. Len(s) - 1 : s[i] # s[Len(s)]
    BY <1>2, <1>4 DEF NoRepeats
  <1>7. Elems(t) = Elems(s) \ {s[Len(s)]}
    BY <1>2, <1>3, <1>4, <1>6 DEF Elems
  <1>8. NoRepeats(t)
    BY <1>2, <1>3, <1>4 DEF NoRepeats
  <1> QED BY <1>5, <1>7, <1>8 DEF t

\* Lists hold objects of the tree, and NULL is none.
LEMMA ElemsObj ==
  ASSUME IInv, NEW n \in Threads
  PROVE  Elems(obj[n]) \subseteq Obj /\ NoObj \notin Elems(obj[n])
  <1>1. obj[n] \in Seq(Obj)
    BY DEF IInv, TypeOK, PoolTypeOK
  <1>2. \A i \in DOMAIN obj[n] : obj[n][i] \in Obj
    BY <1>1, LenProperties, ElementOfSeq
  <1> QED BY <1>2, PoolAssumption DEF Elems

LEMMA EmptyElems == Elems(<< >>) = {} /\ NoRepeats(<< >>)
  BY DEF Elems, NoRepeats

-----------------------------------------------------------------------------
(* Where an object can be: every step keeps RInv. *)

LEMMA InitRInv == Init => RInv
  <1> SUFFICES ASSUME Init PROVE RInv
    OBVIOUS
  <1> PICK Failed \in CreateFails : PoolInit(Failed)
    BY DEF Init
  <1>1. /\ \A n \in Threads : obj[n] = << >> /\ wobj[n] = NoObj /\ result[n] = 0 /\ wres[n] = 0
        /\ \A n \in Threads : wpc[n] # "main"
        /\ mpc = "next" /\ todo = {} /\ mobj = NoObj
    BY DEF PoolInit, Init
  <1>2. NoErrors /\ Holding /\ Drained
    BY <1>1 DEF NoErrors, Holding, Drained, InHand
  <1>3. Apart
    BY <1>1, EmptyElems DEF Apart
  <1> QED BY <1>2, <1>3 DEF RInv

LEMMA WorkerCallRInv ==
  ASSUME IInv, RInv, NEW n \in Threads, WorkerCall(n), UNCHANGED engineVars
  PROVE  RInv'
  <1> DEFINE x == obj[n][Len(obj[n])]
             s == SubSeq(obj[n], 1, Len(obj[n]) - 1)
  <1>1. /\ wpc[n] = "exec" /\ wres[n] = 0 /\ obj[n] # << >>
        /\ wobj' = [wobj EXCEPT ![n] = x]
        /\ obj' = [obj EXCEPT ![n] = s]
        /\ wpc' = [wpc EXCEPT ![n] = "main"]
        /\ UNCHANGED <<status, result, wres, cur_id, mpc, todo, mobj>>
    BY DEF WorkerCall, mainVars, engineVars
  <1>2. obj \in [Threads -> Seq(Obj)] /\ wobj \in [Threads -> Obj \cup {NoObj}] /\ DOMAIN wpc = Threads
    BY DEF IInv, TypeOK, PoolTypeOK
  <1>3. /\ x \in Elems(obj[n]) /\ Elems(s) = Elems(obj[n]) \ {x} /\ NoRepeats(s)
    BY <1>1, <1>2, ElemsTakeLast DEF RInv, Apart
  <1>4. x # NoObj
    BY <1>3, ElemsObj
  <1>5. status[n] = "EXEC" /\ (mpc = "dispatch" => cur_id \in Threads \ {n})
    BY <1>1 DEF IInv, WorkerStatus, SlotWaits
  <1> HIDE DEF x, s
  <1>6. NoErrors' /\ Holding' /\ Drained'
    BY <1>1, <1>2, <1>4, <1>5 DEF RInv, NoErrors, Holding, Drained, Idle
  <1>7. \A m \in Threads : Elems(obj'[m]) \subseteq Elems(obj[m]) /\ x \notin Elems(obj'[m])
    BY <1>1, <1>2, <1>3 DEF RInv, Apart
  <1>8. \A m \in Threads : wobj'[m] = IF m = n THEN x ELSE wobj[m]
    BY <1>1, <1>2
  <1>9. mpc = "dispatch" => Elems(obj'[cur_id]) = Elems(obj[cur_id])
    BY <1>1, <1>2, <1>5
  <1>10. Apart'
    <2>1. \A m \in Threads : NoRepeats(obj'[m])
      BY <1>1, <1>2, <1>3 DEF RInv, Apart
    <2>2. \A p, q \in Threads : p # q => Elems(obj'[p]) \cap Elems(obj'[q]) = {}
      BY <1>7 DEF RInv, Apart
    <2>3. \A p, q \in Threads : wobj'[p] \notin Elems(obj'[q])
      BY ONLY RInv, <1>7, <1>8 DEF RInv, Apart
    <2>4. \A p, q \in Threads : p # q /\ wobj'[p] # NoObj => wobj'[p] # wobj'[q]
      BY <1>3, <1>8 DEF RInv, Apart
    <2>5. \A p \in Threads : wobj'[p] \notin todo' /\ todo' \cap Elems(obj'[p]) = {}
      BY <1>1, <1>3, <1>7, <1>8 DEF RInv, Apart
    <2>6. mobj' \notin todo'
      BY <1>1 DEF RInv, Apart
    <2>7. mpc' \in {"call", "acquire", "append"} =>
            \A p \in Threads : mobj' # wobj'[p] /\ mobj' \notin Elems(obj'[p])
      BY <1>1, <1>3, <1>7, <1>8 DEF RInv, Apart
    <2>8. mpc' = "dispatch" => mobj' \in Elems(obj'[cur_id'])
      BY <1>1, <1>9 DEF RInv, Apart
    <2> QED BY <2>1, <2>2, <2>3, <2>4, <2>5, <2>6, <2>7, <2>8 DEF Apart
  <1> QED BY <1>6, <1>10 DEF RInv

LEMMA WorkerReturnRInv ==
  ASSUME MainsSucceed, IInv, RInv, NEW n \in Threads, WorkerReturn(n), UNCHANGED engineVars
  PROVE  RInv'
  <1>1. PICK v \in MainResults : wres' = [wres EXCEPT ![n] = v]
    BY DEF WorkerReturn
  <1>2. /\ wobj' = [wobj EXCEPT ![n] = NoObj]
        /\ wpc' = [wpc EXCEPT ![n] = "exec"]
        /\ UNCHANGED <<status, obj, result, cur_id, mpc, todo, mobj>>
    BY DEF WorkerReturn, slotVars, mainVars, engineVars
  <1>3. v = 0
    BY DEF MainsSucceed
  <1>4. /\ DOMAIN wobj = Threads /\ DOMAIN wpc = Threads /\ DOMAIN wres = Threads
        /\ todo \subseteq Obj /\ NoObj \notin Obj
    BY PoolAssumption DEF IInv, TypeOK, PoolTypeOK, NoObj
  <1>5. NoErrors' /\ Holding' /\ Drained'
    BY <1>1, <1>2, <1>3, <1>4 DEF RInv, NoErrors, Holding, Drained
  <1>6. \A m \in Threads : wobj'[m] = IF m = n THEN NoObj ELSE wobj[m]
    BY <1>2, <1>4
  <1>7. mpc \in {"call", "acquire", "append"} => mobj # NoObj
    BY <1>4 DEF IInv, MObj
  <1>8. Apart'
    BY <1>2, <1>4, <1>6, <1>7, ElemsObj DEF RInv, Apart
  <1> QED BY <1>5, <1>8 DEF RInv

LEMMA WorkerLockRInv ==
  ASSUME IInv, RInv, NEW n \in Threads, WorkerLock(n), UNCHANGED engineVars
  PROVE  RInv'
  <1>1. /\ wpc[n] = "lock"
        /\ wpc' = [wpc EXCEPT ![n] = wpc'[n]] /\ wpc'[n] \in {"exec", "gone", "sleep"}
        /\ wres' = [wres EXCEPT ![n] = 0]
        /\ UNCHANGED <<status, obj, result, wobj, cur_id, mpc, todo, mobj>>
    BY DEF WorkerLock, slotVars, mainVars, engineVars, IInv, TypeOK, PoolTypeOK
  <1>2. DOMAIN wpc = Threads /\ DOMAIN wres = Threads
    BY DEF IInv, TypeOK, PoolTypeOK
  <1>3. NoErrors' /\ Holding' /\ Drained'
    BY <1>1, <1>2 DEF RInv, NoErrors, Holding, Drained
  <1>4. Apart'
    BY <1>1 DEF RInv, Apart
  <1> QED BY <1>3, <1>4 DEF RInv

LEMMA WorkerPublishRInv ==
  ASSUME IInv, RInv, NEW n \in Threads, WorkerPublish(n), UNCHANGED engineVars
  PROVE  RInv'
  <1>1. /\ wpc[n] = "exec" /\ (wres[n] # 0 \/ obj[n] = << >>)
        /\ result' = [result EXCEPT ![n] = wres[n]]
        /\ status' = [status EXCEPT ![n] = "WAIT"]
        /\ wpc' = [wpc EXCEPT ![n] = "lock"]
        /\ UNCHANGED <<obj, wobj, wres, cur_id, mpc, todo, mobj>>
    BY DEF WorkerPublish, mainVars, engineVars
  <1>2. DOMAIN wpc = Threads /\ DOMAIN result = Threads /\ DOMAIN status = Threads
    BY DEF IInv, TypeOK, PoolTypeOK
  <1>3. wres[n] = 0 /\ obj[n] = << >>
    BY <1>1 DEF RInv, NoErrors
  <1>4. NoErrors' /\ Holding' /\ Drained'
    BY <1>1, <1>2, <1>3 DEF RInv, NoErrors, Holding, Drained
  <1>5. Apart'
    BY <1>1 DEF RInv, Apart
  <1> QED BY <1>4, <1>5 DEF RInv

\* The steps of the main thread that move no object
LEMMA NoMoveRInv ==
  ASSUME IInv, RInv,
         EnterRule \/ NoMain \/ QueueSleep \/ WaitSleep \/ WaitDone \/ CallFini
           \/ LeavePasses \/ JoinThreads \/ Interrupt \/ Ended \/ UNCHANGED vars
  PROVE  RInv'
  <1> USE DEF At, Goto, poolVars, slotVars, workerVars, mainVars, engineVars
  <1>1. UNCHANGED <<status, obj, result, wobj, wres, wpc, todo, mobj, cur_id>>
    BY DEF EnterRule, NoMain, QueueSleep, AcquireBlocked, MainSleep, WaitSleep, WaitBlocked, WaitDone,
           WaitThreads, CallFini, LeavePasses, JoinThreads, Joined, Interrupt, Ended, vars
  <1>2. \/ mpc' = mpc
        \/ mpc \in Idle \cup {"wait"} /\ mpc' \in Idle
    BY DEF EnterRule, NoMain, QueueSleep, WaitSleep, WaitDone, CallFini, LeavePasses, JoinThreads,
           Interrupt, Ended, vars, Idle
  <1>3. ASSUME mpc = "wait", mpc' # mpc PROVE \A n \in Threads : obj[n] = << >>
    <2>1. WaitDone
      BY <1>3 DEF EnterRule, NoMain, QueueSleep, WaitSleep, CallFini, LeavePasses, JoinThreads,
                  Interrupt, Ended, vars
    <2> QED BY <1>3, <2>1 DEF WaitDone, WaitThreads, SomeExec, RInv, Drained
  <1>4. NoErrors' /\ Holding'
    BY <1>1, <1>2 DEF RInv, NoErrors, Holding, InHand, Idle
  <1>5. Apart'
    BY <1>1, <1>2 DEF RInv, Apart, Idle
  <1>6. Drained'
    BY <1>1, <1>2, <1>3 DEF RInv, Drained, Idle
  <1> QED BY <1>4, <1>5, <1>6 DEF RInv

LEMMA BeginTraverseRInv ==
  ASSUME IInv, RInv, BeginTraverse
  PROVE  RInv'
  <1> USE DEF At, Goto, slotVars, workerVars
  <1>1. /\ mpc = "ini" /\ mpc' = "trv" /\ todo' = Run.objs
        /\ UNCHANGED <<status, obj, result, wobj, wres, wpc, mobj>>
    BY DEF BeginTraverse, ObjQueueIni
  <1>2. k \in 1 .. Len(Schedule)
    BY <1>1, ScheduleLength DEF IInv, TypeOK, InSchedule, Pcs
  <1>3. todo' \subseteq Obj /\ NoObj \notin Obj
    BY <1>1, <1>2, ScheduleEntry, PoolAssumption DEF Run, NoObj
  <1>4. \A n \in Threads : obj[n] = << >> /\ wobj[n] = NoObj
    BY <1>1 DEF IInv, WorkerStatus, Quiet, RInv, Holding, Drained, Idle
  <1>5. NoErrors' /\ Holding' /\ Drained'
    BY <1>1, <1>4 DEF RInv, NoErrors, Holding, Drained, InHand, Idle
  <1>6. Apart'
    BY <1>1, <1>3, <1>4, EmptyElems DEF RInv, Apart, Holding, InHand
  <1> QED BY <1>5, <1>6 DEF RInv

LEMMA VisitRInv ==
  ASSUME IInv, RInv, NEW o \in todo, Visit(o)
  PROVE  RInv'
  <1> USE DEF At, Goto, poolVars, slotVars, workerVars, mainVars
  <1>1. /\ mpc = "trv" /\ todo' = todo \ {o}
        /\ UNCHANGED <<status, obj, result, wobj, wres, wpc, cur_id>>
        /\ \/ UNCHANGED <<mpc, mobj>>
           \/ mobj' = o /\ mpc' \in {"call", "acquire", "append"}
    BY DEF Visit
  <1>2. NoErrors' /\ Holding' /\ Drained'
    BY <1>1 DEF RInv, NoErrors, Holding, Drained, InHand, Idle
  <1>3. Apart'
    BY ONLY RInv, o \in todo, <1>1 DEF NoObj, RInv, Apart, Holding, InHand
  <1> QED BY <1>2, <1>3 DEF RInv

LEMMA EndTraverseRInv ==
  ASSUME IInv, RInv, EndTraverse
  PROVE  RInv'
  <1> USE DEF At, Goto, poolVars, slotVars, workerVars, mainVars
  <1>1. /\ mpc = "trv" /\ mpc' = "signal" /\ todo' = {}
        /\ UNCHANGED <<status, obj, result, wobj, wres, wpc, mobj>>
    BY DEF EndTraverse
  <1>2. NoErrors' /\ Holding' /\ Drained'
    BY <1>1 DEF RInv, NoErrors, Holding, Drained, InHand, Idle
  <1>3. Apart'
    BY <1>1 DEF RInv, Apart
  <1> QED BY <1>2, <1>3 DEF RInv

LEMMA CallMainRInv ==
  ASSUME IInv, RInv, CallMain
  PROVE  RInv'
  <1> USE DEF At, Goto, slotVars, workerVars
  <1>1. /\ mpc = "call" /\ mpc' = "trv" /\ mobj' = NoObj
        /\ UNCHANGED <<status, obj, result, wobj, wres, wpc, todo>>
    BY DEF CallMain, Applied
  <1>2. NoErrors' /\ Holding' /\ Drained' /\ NoObj \notin todo
    BY <1>1, PoolAssumption DEF RInv, NoErrors, Holding, Drained, InHand, Idle, IInv, TypeOK, NoObj
  <1>3. Apart'
    BY <1>1, <1>2 DEF RInv, Apart
  <1> QED BY <1>2, <1>3 DEF RInv

LEMMA QueueAcquireRInv ==
  ASSUME IInv, RInv, NEW n \in Threads, QueueAcquire(n)
  PROVE  RInv'
  <1> USE DEF At, Goto, workerVars
  <1>1. /\ mpc = "acquire" /\ result[n] = 0
        /\ mpc' = "append"
        /\ UNCHANGED <<status, obj, result, wobj, wres, wpc, todo, mobj>>
    BY DEF QueueAcquire, Acquire, RInv, NoErrors
  <1>2. NoErrors' /\ Holding' /\ Drained'
    BY <1>1 DEF RInv, NoErrors, Holding, Drained, InHand, Idle
  <1>3. Apart'
    BY ONLY RInv, <1>1 DEF RInv, Apart
  <1> QED BY <1>2, <1>3 DEF RInv

LEMMA QueueObjRInv ==
  ASSUME IInv, RInv, QueueObj
  PROVE  RInv'
  <1> USE DEF At, Goto, workerVars
  <1>1. /\ mpc = "append" /\ cur_id \in Threads /\ status[cur_id] = "WAIT"
        /\ obj' = [obj EXCEPT ![cur_id] = Append(@, mobj)]
        /\ UNCHANGED <<status, result, wobj, wres, wpc, todo, cur_id>>
        /\ \/ mpc' = "dispatch" /\ mobj' = mobj
           \/ mpc' = "trv" /\ mobj' = NoObj
    BY DEF QueueObj, QueueAppend, Applied, mainVars, IInv, SlotWaits
  <1>2. obj \in [Threads -> Seq(Obj)] /\ mobj \in Obj /\ NoObj \notin Obj /\ todo \subseteq Obj
    BY <1>1, PoolAssumption DEF IInv, TypeOK, PoolTypeOK, MObj, NoObj
  <1>3. \A m \in Threads : mobj \notin Elems(obj[m]) /\ mobj # wobj[m]
    BY <1>1 DEF RInv, Apart
  <1>4. /\ Elems(obj'[cur_id]) = Elems(obj[cur_id]) \cup {mobj} /\ NoRepeats(obj'[cur_id])
        /\ \A m \in Threads \ {cur_id} : obj'[m] = obj[m]
    BY <1>1, <1>2, <1>3, ElemsAppend DEF RInv, Apart
  <1>5. NoErrors' /\ Holding' /\ Drained'
    BY <1>1, <1>4 DEF RInv, NoErrors, Holding, Drained, InHand, Idle
  <1>6. Apart'
    <2>1. \A m \in Threads : NoRepeats(obj'[m])
      BY <1>4 DEF RInv, Apart
    <2>2. \A p, q \in Threads : p # q => Elems(obj'[p]) \cap Elems(obj'[q]) = {}
      BY <1>3, <1>4 DEF RInv, Apart
    <2>3. \A p, q \in Threads : wobj'[p] \notin Elems(obj'[q])
      BY <1>1, <1>3, <1>4 DEF RInv, Apart
    <2>4. \A p \in Threads : wobj'[p] \notin todo' /\ todo' \cap Elems(obj'[p]) = {}
      BY <1>1, <1>4 DEF RInv, Apart
    <2>5. mobj' \notin todo'
      BY <1>1, <1>2 DEF RInv, Apart
    <2>6. mpc' = "dispatch" => mobj' \in Elems(obj'[cur_id'])
      BY <1>1, <1>4
    <2> QED BY <1>1, <2>1, <2>2, <2>3, <2>4, <2>5, <2>6 DEF Apart, RInv
  <1> QED BY <1>5, <1>6 DEF RInv

LEMMA QueueDispatchRInv ==
  ASSUME IInv, RInv, QueueDispatch
  PROVE  RInv'
  <1> USE DEF At, Goto
  <1>1. /\ mpc = "dispatch" /\ mpc' = "trv" /\ mobj' = NoObj
        /\ cur_id \in Threads
        /\ status' = [status EXCEPT ![cur_id] = "EXEC"]
        /\ \A n \in Threads : wpc'[n] = wpc[n] \/ (wpc[n] = "sleep" /\ wpc'[n] = "lock")
        /\ UNCHANGED <<obj, result, wobj, wres, todo>>
    BY DEF QueueDispatch, Dispatch, Signal, Applied, IInv, SlotWaits
  <1>2. NoErrors' /\ Holding' /\ Drained' /\ NoObj \notin todo
    BY <1>1, PoolAssumption
    DEF RInv, NoErrors, Holding, Drained, InHand, Idle, IInv, TypeOK, PoolTypeOK, NoObj
  <1>3. Apart'
    BY <1>1, <1>2 DEF RInv, Apart
  <1> QED BY <1>2, <1>3 DEF RInv

LEMMA SignalRestRInv ==
  ASSUME IInv, RInv, SignalRest
  PROVE  RInv'
  <1> USE DEF At, Goto
  <1>1. /\ mpc = "signal" /\ mpc' = "wait"
        /\ \A n \in Threads : status'[n] = IF status[n] = "WAIT" /\ obj[n] # << >> THEN "EXEC" ELSE status[n]
        /\ \A n \in Threads : wpc'[n] = wpc[n] \/ (wpc[n] = "sleep" /\ wpc'[n] = "lock")
        /\ UNCHANGED <<obj, result, wobj, wres, todo, mobj>>
    BY DEF SignalRest, ObjQueueSignal, Signal
  <1>2. \A n \in Threads : status[n] \in {"WAIT", "EXEC", "EXIT"}
    BY DEF IInv, TypeOK, PoolTypeOK
  <1>3. NoErrors' /\ Holding' /\ Drained'
    BY <1>1, <1>2 DEF RInv, NoErrors, Holding, Drained, InHand, Idle
  <1>4. Apart'
    BY <1>1 DEF RInv, Apart
  <1> QED BY <1>3, <1>4 DEF RInv

LEMMA DeleteThreadsRInv ==
  ASSUME IInv, RInv, DeleteThreads
  PROVE  RInv'
  <1> USE DEF At, Goto
  <1>1. /\ mpc = "exit" /\ mpc' = "join"
        /\ \A n \in Threads : wpc'[n] = wpc[n] \/ (wpc[n] = "sleep" /\ wpc'[n] = "lock")
        /\ UNCHANGED <<obj, result, wobj, wres, todo, mobj>>
    BY DEF DeleteThreads, SetExit, Signal
  <1>2. NoErrors' /\ Holding' /\ Drained'
    BY <1>1 DEF RInv, NoErrors, Holding, Drained, InHand, Idle
  <1>3. Apart'
    BY <1>1 DEF RInv, Apart
  <1> QED BY <1>2, <1>3 DEF RInv

\* A step of a worker, taken apart
LEMMA WorkerStepCases ==
  ASSUME NEW n \in Threads, WorkerStep(n)
  PROVE  (WorkerLock(n) \/ WorkerCall(n) \/ WorkerReturn(n) \/ WorkerPublish(n)) /\ UNCHANGED engineVars
  BY DEF WorkerStep, Worker

(* No step of the main thread, of a worker or of a signal brings an object   *)
(* into two hands, loses one on its way, or changes the count of its calls.  *)
THEOREM StepRInv == MainsSucceed /\ IInv /\ RInv /\ [Next]_vars => RInv'
  <1> SUFFICES ASSUME MainsSucceed, IInv, RInv, [Next]_vars PROVE RInv'
    OBVIOUS
  <1>1. CASE Main
    <2>1. CASE EnterRule \/ NoMain \/ QueueSleep \/ WaitSleep \/ WaitDone \/ CallFini
                 \/ LeavePasses \/ JoinThreads
      BY <2>1, NoMoveRInv
    <2>2. CASE BeginTraverse \/ EndTraverse \/ CallMain
      BY <2>2, BeginTraverseRInv, EndTraverseRInv, CallMainRInv
    <2>3. CASE \E o \in todo : Visit(o)
      BY <2>3, VisitRInv
    <2>4. CASE \E n \in Threads : QueueAcquire(n)
      BY <2>4, QueueAcquireRInv
    <2>5. CASE QueueObj \/ QueueDispatch \/ SignalRest \/ DeleteThreads
      BY <2>5, QueueObjRInv, QueueDispatchRInv, SignalRestRInv, DeleteThreadsRInv
    <2> QED BY <1>1, <2>1, <2>2, <2>3, <2>4, <2>5 DEF Main
  <1>2. CASE \E n \in Threads : WorkerStep(n)
    BY <1>2, WorkerStepCases, WorkerLockRInv, WorkerCallRInv, WorkerReturnRInv, WorkerPublishRInv
  <1>3. CASE Interrupt \/ Ended \/ UNCHANGED vars
    BY <1>3, NoMoveRInv
  <1> QED BY <1>1, <1>2, <1>3 DEF Next

LEMMA RunInvariance == ASSUME MainsSucceed PROVE Spec => [](IInv /\ RInv)
  <1>1. MainsSucceed
    OBVIOUS
  <1>2. IInv /\ RInv /\ [Next]_vars => RInv'
    BY <1>1, StepRInv
  <1> QED BY <1>2, InitRInv, Invariance, PTL DEF Spec

(* As long as the main functions succeed, two workers never run main on the  *)
(* same object: no two lists hold one object, and none is left in a list for *)
(* the next rule.                                                            *)
THEOREM NoConcurrentMainHolds == ASSUME MainsSucceed PROVE Spec => []NoConcurrentMain
  <1>1. RInv => NoConcurrentMain
    BY DEF RInv, Apart, NoConcurrentMain
  <1> QED BY <1>1, RunInvariance, PTL

-----------------------------------------------------------------------------
(* What the steps do to the pending and the active objects *)

LEMMA VisitMoves ==
  ASSUME IInv, RInv, NEW o \in todo, Visit(o)
  PROVE  /\ Pending' \subseteq Pending
         /\ TheRule \notin Once => Pending' = Pending
         /\ Active' = Active
  <1>1. /\ mpc = "trv" /\ todo' = todo \ {o} /\ UNCHANGED <<obj, wobj>>
        /\ \/ TheRule \in Once /\ mobj' = mobj
           \/ mobj' = o
    BY DEF Visit, At, poolVars, slotVars, workerVars
  <1>2. o # NoObj /\ mobj = NoObj
    BY <1>1, PoolAssumption DEF IInv, TypeOK, NoObj, RInv, Holding, InHand
  <1> QED BY <1>1, <1>2 DEF Pending, Active

LEMMA EndTraverseMoves ==
  ASSUME EndTraverse
  PROVE  /\ Pending' \subseteq Pending
         /\ ~int_ /\ e = 0 => Pending' = Pending
         /\ Active' = Active
  <1>1. /\ todo' = {} /\ (todo = {} \/ int_ \/ e # 0)
        /\ UNCHANGED <<obj, wobj, mobj>>
    BY DEF EndTraverse, poolVars, slotVars, workerVars
  <1> QED BY <1>1 DEF Pending, Active

LEMMA CallMainMoves ==
  ASSUME IInv, RInv, CallMain
  PROVE  /\ mobj \in Pending /\ Pending' = Pending \ {mobj}
         /\ Active' = Active
  <1>1. /\ mpc = "call" /\ mobj' = NoObj /\ UNCHANGED <<obj, wobj, todo>>
    BY DEF CallMain, At, Applied, slotVars, workerVars
  <1>2. /\ mobj \in Obj /\ NoObj \notin Obj
        /\ mobj \notin todo /\ \A n \in Threads : mobj \notin Elems(obj[n])
    BY <1>1, PoolAssumption DEF IInv, MObj, NoObj, RInv, Apart
  <1> QED BY <1>1, <1>2 DEF Pending, Active

LEMMA QueueObjMoves ==
  ASSUME IInv, RInv, QueueObj
  PROVE  Pending' = Pending /\ Active' = Active
  <1>1. /\ mpc = "append" /\ cur_id \in Threads
        /\ obj' = [obj EXCEPT ![cur_id] = Append(@, mobj)]
        /\ UNCHANGED <<wobj, todo>>
        /\ mobj' = mobj \/ mobj' = NoObj
    BY DEF QueueObj, QueueAppend, Applied, At, workerVars, IInv, SlotWaits
  <1>2. obj \in [Threads -> Seq(Obj)] /\ mobj \in Obj /\ NoObj \notin Obj
    BY <1>1, PoolAssumption DEF IInv, TypeOK, PoolTypeOK, MObj, NoObj
  <1>3. /\ Elems(obj'[cur_id]) = Elems(obj[cur_id]) \cup {mobj}
        /\ \A m \in Threads \ {cur_id} : obj'[m] = obj[m]
    BY <1>1, <1>2, ElemsAppend
  <1>4. UNION {Elems(obj'[n]) : n \in Threads} = (UNION {Elems(obj[n]) : n \in Threads}) \cup {mobj}
    BY <1>1, <1>3
  <1> QED BY ONLY <1>1, <1>2, <1>4 DEF Pending, Active

LEMMA QueueDispatchMoves ==
  ASSUME IInv, RInv, QueueDispatch
  PROVE  Pending' = Pending /\ Active' = Active
  <1>1. /\ mpc = "dispatch" /\ cur_id \in Threads /\ mobj' = NoObj
        /\ UNCHANGED <<obj, wobj, todo>>
    BY DEF QueueDispatch, Dispatch, Applied, At, IInv, SlotWaits
  <1>2. mobj \in Elems(obj[cur_id])
    BY <1>1 DEF RInv, Apart
  <1> QED BY <1>1, <1>2 DEF Pending, Active

\* The main thread's other steps move nothing while a rule is applied.
LEMMA NothingMoves ==
  ASSUME IInv, RInv,
         NoMain \/ QueueSleep \/ (\E n \in Threads : QueueAcquire(n)) \/ SignalRest \/ WaitSleep
           \/ WaitDone \/ CallFini \/ LeavePasses \/ DeleteThreads \/ JoinThreads
           \/ Interrupt \/ Ended \/ UNCHANGED vars
  PROVE  Pending' = Pending /\ Active' = Active
  <1> USE DEF poolVars, slotVars, workerVars, mainVars, engineVars
  <1>1. CASE \E n \in Threads : QueueAcquire(n)
    BY <1>1 DEF QueueAcquire, Acquire, RInv, NoErrors, Pending, Active
  <1>2. CASE ~ \E n \in Threads : QueueAcquire(n)
    <2>1. UNCHANGED <<obj, wobj, todo, mobj>>
      BY <1>2 DEF NoMain, QueueSleep, AcquireBlocked, MainSleep, SignalRest, ObjQueueSignal, WaitSleep,
             WaitBlocked, WaitDone, WaitThreads, CallFini, LeavePasses, DeleteThreads, SetExit,
             JoinThreads, Joined, Interrupt, Ended, vars
    <2> QED BY <2>1 DEF Pending, Active
  <1> QED BY <1>1, <1>2

LEMMA WorkerCallMoves ==
  ASSUME IInv, RInv, NEW n \in Threads, WorkerCall(n), UNCHANGED engineVars
  PROVE  \E x \in Pending \cap Obj :
           /\ Pending' = Pending \ {x}
           /\ Active' = Active \cup {x}
           /\ done' = [done EXCEPT ![x] = @ + 1]
  <1> DEFINE x == obj[n][Len(obj[n])]
             s == SubSeq(obj[n], 1, Len(obj[n]) - 1)
  <1>1. /\ wpc[n] = "exec" /\ obj[n] # << >>
        /\ wobj' = [wobj EXCEPT ![n] = x]
        /\ obj' = [obj EXCEPT ![n] = s]
        /\ done' = [done EXCEPT ![x] = @ + 1]
        /\ UNCHANGED <<mpc, todo, mobj>>
    BY DEF WorkerCall, engineVars
  <1>2. obj \in [Threads -> Seq(Obj)] /\ DOMAIN wobj = Threads
    BY DEF IInv, TypeOK, PoolTypeOK
  <1>3. x \in Elems(obj[n]) /\ Elems(s) = Elems(obj[n]) \ {x}
    BY <1>1, <1>2, ElemsTakeLast DEF RInv, Apart
  <1>4. x \in Obj /\ x # NoObj /\ wobj[n] = NoObj
    BY <1>1, <1>3, ElemsObj DEF RInv, Holding
  <1>5. mobj = x => mpc = "dispatch" /\ cur_id \in Threads \ {n}
    BY <1>1, <1>3, <1>4 DEF RInv, Holding, InHand, Apart, IInv, SlotWaits, WorkerStatus
  <1>6. mobj # x
    BY <1>3, <1>5 DEF RInv, Apart
  <1> HIDE DEF x, s
  <1>7. \A m \in Threads : Elems(obj'[m]) = Elems(obj[m]) \ {x}
    BY <1>1, <1>2, <1>3 DEF RInv, Apart
  <1>8. Pending' = Pending \ {x} /\ x \in Pending
    <2>1. UNION {Elems(obj'[m]) : m \in Threads} = (UNION {Elems(obj[m]) : m \in Threads}) \ {x}
      BY ONLY <1>7
    <2>2. x \notin todo
      BY <1>3 DEF RInv, Apart
    <2> QED BY <1>1, <1>3, <1>6, <2>1, <2>2 DEF Pending
  <1>9. Active' = Active \cup {x}
    <2>1. \A m \in Threads : wobj'[m] = IF m = n THEN x ELSE wobj[m]
      BY <1>1, <1>2
    <2> QED BY <1>4, <2>1 DEF Active
  <1> QED BY <1>1, <1>4, <1>8, <1>9

LEMMA WorkerReturnMoves ==
  ASSUME IInv, RInv, NEW n \in Threads, WorkerReturn(n), UNCHANGED engineVars
  PROVE  /\ Pending' = Pending
         /\ wobj[n] \in Active /\ Active' = Active \ {wobj[n]}
         /\ done' = done
  <1>1. /\ wpc[n] = "main" /\ wobj' = [wobj EXCEPT ![n] = NoObj]
        /\ UNCHANGED <<obj, todo, mobj, done>>
    BY DEF WorkerReturn, slotVars, engineVars
  <1>2. DOMAIN wobj = Threads /\ wobj[n] # NoObj
    BY <1>1 DEF IInv, TypeOK, PoolTypeOK, RInv, Holding
  <1>3. \A m \in Threads : wobj'[m] = IF m = n THEN NoObj ELSE wobj[m]
    BY <1>1, <1>2
  <1>4. \A m \in Threads : m # n => wobj[m] # wobj[n]
    BY <1>2 DEF RInv, Apart
  <1> QED BY <1>1, <1>2, <1>3, <1>4 DEF Pending, Active

LEMMA WorkerOtherMoves ==
  ASSUME NEW n \in Threads, WorkerLock(n) \/ WorkerPublish(n), UNCHANGED engineVars
  PROVE  Pending' = Pending /\ Active' = Active /\ done' = done
  BY DEF WorkerLock, WorkerPublish, slotVars, engineVars, Pending, Active

\* Nothing is pending or active between two rules.
LEMMA IdleEmpty ==
  ASSUME IInv, RInv, mpc \in Idle
  PROVE  Pending = {} /\ Active = {}
  <1>1. todo = {} /\ mobj = NoObj /\ \A n \in Threads : obj[n] = << >> /\ wobj[n] = NoObj
    BY DEF RInv, Holding, Drained, Idle, InHand, IInv, WorkerStatus, Quiet
  <1> QED BY <1>1, EmptyElems DEF Pending, Active

-----------------------------------------------------------------------------
(* Counting the calls of main *)

LEMMA InitCounted == Init => Counted
  BY DEF Init, Counted, InHand, Outside

LEMMA BeginTraverseCounted ==
  ASSUME IInv, RInv, BeginTraverse
  PROVE  Counted'
  <1> USE DEF At, Goto, slotVars, workerVars, ruleVars
  <1>1. /\ mpc = "ini" /\ mpc' = "trv" /\ todo' = Run.objs /\ Run' = Run
        /\ UNCHANGED <<obj, mobj>> /\ done' = [o \in Obj |-> 0]
    BY DEF BeginTraverse, ObjQueueIni, Run
  <1>2. mobj = NoObj /\ \A n \in Threads : obj[n] = << >>
    BY <1>1 DEF RInv, Holding, InHand, Drained, Idle
  <1>3. Pending' = Run.objs
    BY <1>1, <1>2, EmptyElems DEF Pending
  <1> QED BY <1>1, <1>3 DEF Counted, Tally, InHand

LEMMA NoMainCounted ==
  ASSUME IInv, RInv, NoMain
  PROVE  Counted'
  <1> USE DEF At, Goto, ruleVars
  <1>1. /\ mpc = "ini" /\ mpc' = "fini" /\ TheRule \in off
        /\ Run' = Run /\ TheRule' = TheRule /\ off' = off
    BY DEF NoMain, Run, TheRule
  <1>2. Pending' = {}
    BY <1>1, NothingMoves, IdleEmpty DEF Idle
  <1> QED BY <1>1, <1>2 DEF Counted, Tally, InHand

\* A step within the rule that calls main on no object
LEMMA TallyKept ==
  ASSUME Tally, UNCHANGED <<k, off, done>>,
         Pending' \subseteq Pending,
         TheRule \notin off \cup Once /\ ~int_' /\ e' = 0 => Pending' = Pending /\ ~int_ /\ e = 0
  PROVE  Tally'
  <1>1. Run' = Run /\ TheRule' = TheRule
    BY DEF Run, TheRule
  <1> QED BY <1>1 DEF Tally

\* A step within the rule that begins with main on x
LEMMA TallyOne ==
  ASSUME IInv, Tally, NEW x \in Pending \cap Obj,
         UNCHANGED <<k, off, int_>>, e' = 0 => e = 0,
         Pending' = Pending \ {x},
         done' = [done EXCEPT ![x] = @ + 1]
  PROVE  Tally'
  <1>1. Run' = Run /\ TheRule' = TheRule
    BY DEF Run, TheRule
  <1>2. DOMAIN done = Obj /\ x \in Run.objs
    BY DEF IInv, TypeOK, PoolTypeOK, Tally
  <1>3. \A o \in Obj : done'[o] = IF o = x THEN done[x] + 1 ELSE done[o]
    BY <1>2
  <1> QED BY <1>1, <1>2, <1>3 DEF Tally

LEMMA VisitCounted ==
  ASSUME IInv, RInv, Counted, NEW o \in todo, Visit(o)
  PROVE  Counted'
  <1> USE DEF At, Goto, poolVars, ruleVars
  <1>1. mpc = "trv" /\ e = 0 /\ ~int_ /\ UNCHANGED <<k, off, done, e, int_>>
    BY DEF Visit
  <1>2. Tally'
    BY <1>1, VisitMoves, TallyKept DEF Counted, Outside
  <1> QED BY <1>1, <1>2 DEF Counted

LEMMA EndTraverseCounted ==
  ASSUME IInv, RInv, Counted, EndTraverse
  PROVE  Counted'
  <1> USE DEF At, Goto, poolVars, ruleVars
  <1>1. mpc = "trv" /\ mpc' = "signal" /\ UNCHANGED <<k, off, done, e, int_>>
    BY DEF EndTraverse
  <1>2. Tally'
    BY <1>1, EndTraverseMoves, TallyKept DEF Counted, Outside
  <1> QED BY <1>1, <1>2 DEF Counted, InHand

LEMMA CallMainCounted ==
  ASSUME IInv, RInv, Counted, CallMain
  PROVE  Counted'
  <1> USE DEF At, Goto
  <1>1. /\ mpc = "call" /\ mpc' = "trv" /\ UNCHANGED <<k, off, int_>>
        /\ done' = [done EXCEPT ![mobj] = @ + 1]
    BY DEF CallMain, Applied
  <1>2. e = 0 /\ mobj \in Pending \cap Obj
    BY <1>1, CallMainMoves DEF Counted, InHand, IInv, MObj
  <1>3. Tally'
    BY <1>1, <1>2, CallMainMoves, TallyOne DEF Counted, Outside
  <1> QED BY <1>1, <1>3 DEF Counted, InHand

LEMMA QueueCounted ==
  ASSUME IInv, RInv, Counted,
         (\E n \in Threads : QueueAcquire(n)) \/ QueueObj \/ QueueDispatch
  PROVE  Counted'
  <1> USE DEF At, Goto
  <1>1. /\ mpc \in InHand /\ mpc \notin Outside /\ e = 0
        /\ UNCHANGED <<k, off, done, int_>>
    BY DEF QueueAcquire, Acquire, QueueObj, QueueAppend, QueueDispatch, Dispatch, Applied, ruleVars,
           InHand, Outside, Counted
  <1>2. e' = 0
    BY <1>1 DEF QueueAcquire, QueueObj, QueueDispatch, Applied, RInv, NoErrors
  <1>3. Pending' = Pending
    BY NothingMoves, QueueObjMoves, QueueDispatchMoves
  <1>4. Tally'
    BY <1>1, <1>2, <1>3, TallyKept DEF Counted
  <1> QED BY <1>2, <1>4 DEF Counted

LEMMA OtherCounted ==
  ASSUME IInv, RInv, Counted,
         QueueSleep \/ SignalRest \/ WaitSleep \/ WaitDone \/ Interrupt \/ Ended \/ UNCHANGED vars
  PROVE  Counted'
  <1> USE DEF At, Goto, poolVars, engineVars, ruleVars
  <1>1. /\ UNCHANGED <<off, done, e>> /\ (int_ => int_')
        /\ mpc' = mpc \/ mpc' \notin InHand
        /\ mpc' \notin Outside => mpc \notin Outside /\ k' = k
    BY DEF QueueSleep, AcquireBlocked, MainSleep, SignalRest, ObjQueueSignal, WaitSleep, WaitBlocked,
           WaitDone, WaitThreads, Interrupt, Ended, vars, InHand, Outside
  <1>2. Pending' = Pending
    BY NothingMoves
  <1>3. ASSUME mpc' \notin Outside PROVE Tally'
    BY <1>1, <1>2, <1>3, TallyKept DEF Counted
  <1> QED BY <1>1, <1>3 DEF Counted

LEMMA LeaveRuleCounted ==
  ASSUME EnterRule \/ CallFini \/ LeavePasses \/ DeleteThreads \/ JoinThreads
  PROVE  Counted'
  <1>1. mpc' \in Outside /\ mpc' \notin InHand
    BY DEF EnterRule, CallFini, LeavePasses, DeleteThreads, JoinThreads, Goto, Outside, InHand
  <1> QED BY <1>1 DEF Counted

LEMMA WorkerCounted ==
  ASSUME IInv, RInv, Counted, NEW n \in Threads, WorkerStep(n)
  PROVE  Counted'
  <1>1. UNCHANGED <<mpc, k, off, e, int_>>
    BY DEF WorkerStep, engineVars, ruleVars
  <1>2. ASSUME mpc \notin Outside PROVE Tally'
    <2>1. CASE WorkerCall(n)
      <3>1. PICK x \in Pending \cap Obj :
              Pending' = Pending \ {x} /\ done' = [done EXCEPT ![x] = @ + 1]
        BY <2>1, WorkerStepCases, WorkerCallMoves
      <3> QED BY <1>1, <1>2, <3>1, TallyOne DEF Counted
    <2>2. CASE WorkerLock(n) \/ WorkerReturn(n) \/ WorkerPublish(n)
      BY <1>1, <1>2, <2>2, WorkerStepCases, WorkerReturnMoves, WorkerOtherMoves, TallyKept DEF Counted
    <2> QED BY <2>1, <2>2, WorkerStepCases
  <1> QED BY <1>1, <1>2 DEF Counted

LEMMA StepCounted == IInv /\ RInv /\ Counted /\ [Next]_vars => Counted'
  <1> SUFFICES ASSUME IInv, RInv, Counted, [Next]_vars PROVE Counted'
    OBVIOUS
  <1>1. CASE Main
    <2>1. CASE EnterRule \/ BeginTraverse \/ NoMain \/ (\E o \in todo : Visit(o)) \/ EndTraverse \/ CallMain
      BY <2>1, LeaveRuleCounted, BeginTraverseCounted, NoMainCounted, VisitCounted, EndTraverseCounted,
         CallMainCounted
    <2>2. CASE QueueSleep \/ (\E n \in Threads : QueueAcquire(n)) \/ QueueObj \/ QueueDispatch
      BY <2>2, QueueCounted, OtherCounted
    <2>3. CASE SignalRest \/ WaitSleep \/ WaitDone \/ CallFini \/ LeavePasses \/ DeleteThreads \/ JoinThreads
      BY <2>3, OtherCounted, LeaveRuleCounted
    <2> QED BY <1>1, <2>1, <2>2, <2>3 DEF Main
  <1>2. CASE \E n \in Threads : WorkerStep(n)
    BY <1>2, WorkerCounted
  <1>3. CASE Interrupt \/ Ended \/ UNCHANGED vars
    BY <1>3, OtherCounted
  <1> QED BY <1>1, <1>2, <1>3 DEF Next

(* As long as the main functions succeed, a rule that reaches call_fini()    *)
(* without a signal has been applied exactly once to each of its objects and *)
(* to no other one: the hand-over through the slots loses none and           *)
(* duplicates none.                                                          *)
THEOREM AppliedOnceHolds == ASSUME MainsSucceed PROVE Spec => []AppliedOnce
  <1>1. IInv /\ RInv /\ Counted => AppliedOnce
    <2> SUFFICES ASSUME IInv, RInv, Counted, mpc = "fini", TheRule \notin off \cup Once, ~int_, e = 0
                 PROVE  \A o \in Obj : done[o] = (IF o \in Run.objs THEN 1 ELSE 0)
      BY DEF AppliedOnce
    <2>1. Pending = {}
      BY IdleEmpty DEF Idle
    <2> QED BY <2>1 DEF Counted, Tally, Outside
  <1> QED BY <1>1, InitCounted, StepCounted, RunInvariance, PTL DEF Spec

-----------------------------------------------------------------------------
(* The refinement of RuleRuns, step by step *)

\* The functions of the rules return 0: no ini function switches its rule off
\* and no main function stops a traversal.
RulesSucceed ==
  /\ MainsSucceed /\ CallResults \subseteq {0}
  /\ \A v \in IniResults : v <= 0

AllOn == off = {} /\ e = 0

LEMMA AllOnInit == RulesSucceed /\ Init => AllOn
  <1> SUFFICES ASSUME RulesSucceed, Init PROVE AllOn
    OBVIOUS
  <1>1. PICK v \in [Rules -> IniResults] : off = {r \in Rules : v[r] > 0}
    BY DEF Init
  <1>2. \A r \in Rules : v[r] \in Int /\ v[r] <= 0
    BY EngineAssumption DEF RulesSucceed
  <1> QED BY <1>1, <1>2 DEF Init, AllOn

LEMMA AllOnStep == RulesSucceed /\ IInv /\ RInv /\ AllOn /\ [Next]_vars => AllOn'
  <1> SUFFICES ASSUME RulesSucceed, IInv, RInv, AllOn, [Next]_vars PROVE AllOn'
    OBVIOUS
  <1> USE DEF ruleVars, engineVars
  <1>1. CASE EnterRule
    <2>1. off' = off /\ e' = 0
      BY <1>1, EngineAssumption DEF EnterRule, RulesSucceed
    <2> QED BY <2>1 DEF AllOn
  <1>2. CASE CallMain \/ (\E n \in Threads : QueueAcquire(n)) \/ QueueObj \/ QueueDispatch
    BY <1>2 DEF CallMain, QueueAcquire, QueueObj, QueueDispatch, Applied, RulesSucceed, AllOn, RInv, NoErrors
  <1>3. CASE ~ (EnterRule \/ CallMain \/ (\E n \in Threads : QueueAcquire(n)) \/ QueueObj \/ QueueDispatch)
    BY <1>3 DEF Next, Main, BeginTraverse, NoMain, Visit, EndTraverse, QueueSleep, SignalRest, WaitSleep,
           WaitDone, CallFini, LeavePasses, DeleteThreads, JoinThreads, WorkerStep, Interrupt, Ended, vars, AllOn
  <1> QED BY <1>1, <1>2, <1>3

\* The state of RuleRuns
Applying   == mpc \notin {"next", "exit", "join", "end"}
PendingOf  == IF mpc = "ini" THEN Run.objs ELSE Pending

LEMMA RunsState ==
  /\ Runs!Init <=> k = 1 /\ Applying = FALSE /\ PendingOf = {} /\ Active = {} /\ int_ = FALSE
  /\ UNCHANGED Runs!runVars <=> UNCHANGED <<k, Applying, PendingOf, Active, int_>>
  BY DEF Runs!Init, Runs!runVars, Applying, PendingOf, Pending, Active, Elems

LEMMA RunsStart ==
  ASSUME ~Applying, ~int_, k <= Len(Schedule), Applying' = TRUE, PendingOf' = Schedule[k].objs,
         UNCHANGED <<k, Active, int_>>
  PROVE  Runs!Start
  BY DEF Runs!Start, Applying, PendingOf, Pending, Active, Elems

LEMMA RunsBegin ==
  ASSUME NEW o \in PendingOf, PendingOf' = PendingOf \ {o}, Active' = Active \cup {o},
         UNCHANGED <<k, Applying, int_>>
  PROVE  Runs!Step
  <1>1. Runs!Begin(o)
    BY DEF Runs!Begin, Applying, PendingOf, Pending, Active, Elems
  <1> QED BY <1>1 DEF Runs!Step, PendingOf, Pending, Elems

LEMMA RunsServe ==
  ASSUME NEW o \in PendingOf, PendingOf' = PendingOf \ {o}, UNCHANGED <<k, Applying, Active, int_>>
  PROVE  Runs!Step
  <1>1. Runs!Serve(o)
    BY DEF Runs!Serve, Applying, PendingOf, Pending, Active, Elems
  <1> QED BY <1>1 DEF Runs!Step, PendingOf, Pending, Elems

LEMMA RunsEnd ==
  ASSUME NEW o \in Active, Active' = Active \ {o}, UNCHANGED <<k, Applying, PendingOf, int_>>
  PROVE  Runs!Step
  <1>1. Runs!End(o)
    BY DEF Runs!End, Applying, PendingOf, Pending, Active, Elems
  <1> QED BY <1>1 DEF Runs!Step, Active

LEMMA RunsLeaveOut ==
  ASSUME Applying, int_ \/ TheRule \in Once, PendingOf' \subseteq PendingOf,
         UNCHANGED <<k, Applying, Active, int_>>
  PROVE  Runs!LeaveOut
  BY DEF Runs!LeaveOut, Applying, PendingOf, Pending, Active, Elems, TheRule, Run

LEMMA RunsFinish ==
  ASSUME Applying, PendingOf = {}, Active = {}, Applying' = FALSE, k' = k + 1,
         UNCHANGED <<PendingOf, Active, int_>>
  PROVE  Runs!Finish
  BY DEF Runs!Finish, Applying, PendingOf, Pending, Active, Elems

LEMMA RunsStop ==
  ASSUME ~int_, int_' = TRUE, UNCHANGED <<k, Applying, PendingOf, Active>>
  PROVE  Runs!Stop
  BY DEF Runs!Stop, Applying, PendingOf, Pending, Active, Elems

\* A step of the engine is a step of RuleRuns or changes nothing that RuleRuns sees.
RunsStep == Runs!Next \/ UNCHANGED <<k, Applying, PendingOf, Active, int_>>

LEMMA EnterRuleRuns ==
  ASSUME IInv, RInv, EnterRule
  PROVE  RunsStep
  <1>1. /\ mpc = "next" /\ mpc' = "ini" /\ ~int_ /\ k <= Len(Schedule)
        /\ UNCHANGED <<k, int_, wobj>>
    BY DEF EnterRule, At, Goto, poolVars, workerVars
  <1>2. Applying' = TRUE /\ ~Applying /\ PendingOf' = Schedule[k].objs /\ Active' = Active
    BY <1>1 DEF Applying, PendingOf, Run, Active
  <1>3. Runs!Start
    BY <1>1, <1>2, RunsStart
  <1> QED BY <1>3 DEF Runs!Next, Runs!Step, RunsStep

LEMMA BeginTraverseRuns ==
  ASSUME IInv, RInv, BeginTraverse
  PROVE  RunsStep
  <1>1. /\ mpc = "ini" /\ mpc' = "trv" /\ todo' = Run.objs
        /\ UNCHANGED <<k, int_, obj, wobj, mobj>>
    BY DEF BeginTraverse, ObjQueueIni, At, Goto, slotVars, workerVars
  <1>2. mobj = NoObj /\ \A n \in Threads : obj[n] = << >>
    BY <1>1 DEF RInv, Holding, InHand, Drained, Idle
  <1>3. Pending' = Run.objs
    BY <1>1, <1>2, EmptyElems DEF Pending
  <1> QED BY <1>1, <1>3 DEF Applying, PendingOf, Active, RunsStep

LEMMA VisitRuns ==
  ASSUME IInv, RInv, NEW o \in todo, Visit(o)
  PROVE  RunsStep
  <1>1. /\ mpc = "trv" /\ mpc' \in InHand \cup {"trv"} /\ UNCHANGED <<k, int_>>
    BY DEF Visit, At, Goto, InHand
  <1>2. PendingOf = Pending /\ PendingOf' = Pending' /\ Applying /\ UNCHANGED Applying
    BY <1>1 DEF PendingOf, Applying, InHand
  <1>3. CASE TheRule \in Once
    <2>1. Runs!LeaveOut
      BY <1>1, <1>2, <1>3, VisitMoves, RunsLeaveOut
    <2> QED BY <2>1 DEF Runs!Next, Runs!Step, RunsStep
  <1>4. CASE TheRule \notin Once
    BY <1>1, <1>2, <1>4, VisitMoves DEF RunsStep
  <1> QED BY <1>3, <1>4

LEMMA EndTraverseRuns ==
  ASSUME IInv, RInv, AllOn, EndTraverse
  PROVE  RunsStep
  <1>1. mpc = "trv" /\ mpc' = "signal" /\ e = 0 /\ UNCHANGED <<k, int_>>
    BY DEF EndTraverse, At, Goto, AllOn
  <1>2. PendingOf = Pending /\ PendingOf' = Pending' /\ Applying /\ UNCHANGED Applying
    BY <1>1 DEF PendingOf, Applying
  <1>3. CASE int_
    <2>1. Runs!LeaveOut
      BY <1>1, <1>2, <1>3, EndTraverseMoves, RunsLeaveOut
    <2> QED BY <2>1 DEF Runs!Next, Runs!Step, RunsStep
  <1>4. CASE ~int_
    BY <1>1, <1>2, <1>4, EndTraverseMoves DEF RunsStep
  <1> QED BY <1>3, <1>4

LEMMA CallMainRuns ==
  ASSUME IInv, RInv, CallMain
  PROVE  RunsStep
  <1>1. mpc = "call" /\ mpc' = "trv" /\ UNCHANGED <<k, int_>>
    BY DEF CallMain, Applied, At, Goto
  <1>2. PendingOf = Pending /\ PendingOf' = Pending' /\ UNCHANGED Applying
    BY <1>1 DEF PendingOf, Applying
  <1>3. Runs!Step
    BY <1>1, <1>2, CallMainMoves, RunsServe
  <1> QED BY <1>3 DEF Runs!Next, RunsStep

LEMMA CallFiniRuns ==
  ASSUME IInv, RInv, CallFini
  PROVE  RunsStep
  <1>1. mpc = "fini" /\ mpc' = "next" /\ k' = k + 1 /\ int_' = int_
    BY DEF CallFini, At, Goto
  <1>2. Pending = {} /\ Active = {}
    BY <1>1, IdleEmpty DEF Idle
  <1>3. PendingOf = {} /\ Applying /\ Applying' = FALSE
    BY <1>1, <1>2 DEF PendingOf, Applying
  <1>4. UNCHANGED <<PendingOf, Active>>
    BY <1>1, NothingMoves DEF PendingOf
  <1>5. Runs!Finish
    BY <1>1, <1>2, <1>3, <1>4, RunsFinish
  <1> QED BY <1>5 DEF Runs!Next, Runs!Step, RunsStep

\* The main thread's other steps and those of the kernel
LEMMA OtherRuns ==
  ASSUME IInv, RInv, AllOn,
         QueueSleep \/ (\E n \in Threads : QueueAcquire(n)) \/ QueueObj \/ QueueDispatch
           \/ SignalRest \/ WaitSleep \/ WaitDone \/ LeavePasses \/ DeleteThreads \/ JoinThreads
           \/ Ended \/ UNCHANGED vars
  PROVE  RunsStep
  <1>1. Pending' = Pending /\ Active' = Active
    BY NothingMoves, QueueObjMoves, QueueDispatchMoves
  <1>2. UNCHANGED <<k, int_, Applying>> /\ (mpc' = "ini" <=> mpc = "ini")
    BY DEF QueueSleep, QueueAcquire, QueueObj, QueueDispatch, Applied, SignalRest, WaitSleep, WaitDone,
           LeavePasses, DeleteThreads, JoinThreads, Ended, vars, engineVars, At, Goto, AllOn, Applying
  <1>3. UNCHANGED PendingOf
    BY <1>1, <1>2 DEF PendingOf, Run
  <1> QED BY <1>1, <1>2, <1>3 DEF RunsStep

LEMMA InterruptRuns ==
  ASSUME IInv, RInv, Interrupt
  PROVE  RunsStep
  <1>1. ~int_ /\ int_' = TRUE /\ UNCHANGED <<k, mpc>>
    BY DEF Interrupt
  <1>2. UNCHANGED <<Applying, PendingOf, Active>>
    BY <1>1, NothingMoves DEF Applying, PendingOf, Run
  <1> QED BY <1>1, <1>2, RunsStop DEF Runs!Next, RunsStep

LEMMA WorkerRuns ==
  ASSUME IInv, RInv, NEW n \in Threads, WorkerStep(n)
  PROVE  RunsStep
  <1>1. UNCHANGED <<k, int_, mpc, Applying, Run>>
    BY DEF WorkerStep, engineVars, Applying, Run
  <1>2. CASE WorkerCall(n)
    <2>1. wpc[n] = "exec" /\ mpc # "ini"
      BY <1>2 DEF WorkerCall, IInv, WorkerStatus, Quiet
    <2>2. PendingOf = Pending /\ PendingOf' = Pending'
      BY <1>1, <2>1 DEF PendingOf
    <2>3. PICK x \in Pending : Pending' = Pending \ {x} /\ Active' = Active \cup {x}
      BY <1>2, WorkerStepCases, WorkerCallMoves
    <2>4. Runs!Step
      BY <1>1, <2>2, <2>3, RunsBegin
    <2> QED BY <2>4 DEF Runs!Next, RunsStep
  <1>3. CASE WorkerReturn(n)
    <2>1. wobj[n] \in Active /\ Active' = Active \ {wobj[n]} /\ Pending' = Pending
      BY <1>3, WorkerStepCases, WorkerReturnMoves
    <2>2. UNCHANGED PendingOf
      BY <1>1, <2>1 DEF PendingOf
    <2>3. Runs!Step
      BY <1>1, <2>1, <2>2, RunsEnd
    <2> QED BY <2>3 DEF Runs!Next, RunsStep
  <1>4. CASE WorkerLock(n) \/ WorkerPublish(n)
    <2>1. Pending' = Pending /\ Active' = Active
      BY <1>4, WorkerStepCases, WorkerOtherMoves
    <2> QED BY <1>1, <2>1 DEF PendingOf, RunsStep
  <1> QED BY <1>2, <1>3, <1>4, WorkerStepCases

LEMMA StepRuns == IInv /\ RInv /\ AllOn /\ [Next]_vars => RunsStep
  <1> SUFFICES ASSUME IInv, RInv, AllOn, [Next]_vars PROVE RunsStep
    OBVIOUS
  <1>1. CASE Main
    <2>1. CASE EnterRule \/ BeginTraverse \/ (\E o \in todo : Visit(o)) \/ EndTraverse \/ CallMain \/ CallFini
      BY <2>1, EnterRuleRuns, BeginTraverseRuns, VisitRuns, EndTraverseRuns, CallMainRuns, CallFiniRuns
    <2>2. CASE NoMain
      BY <2>2 DEF NoMain, AllOn
    <2>3. CASE QueueSleep \/ (\E n \in Threads : QueueAcquire(n)) \/ QueueObj \/ QueueDispatch
                 \/ SignalRest \/ WaitSleep \/ WaitDone \/ LeavePasses \/ DeleteThreads \/ JoinThreads
      BY <2>3, OtherRuns
    <2> QED BY <1>1, <2>1, <2>2, <2>3 DEF Main
  <1>2. CASE \E n \in Threads : WorkerStep(n)
    BY <1>2, WorkerRuns
  <1>3. CASE Interrupt
    BY <1>3, InterruptRuns
  <1>4. CASE Ended \/ UNCHANGED vars
    BY <1>4, OtherRuns
  <1> QED BY <1>1, <1>2, <1>3, <1>4 DEF Next

(* The safety part of ImplementsRuns: as long as the functions of the rules  *)
(* return 0, every behaviour of the engine and its threads is one of         *)
(* RuleRuns.  Rules are applied one at a time and in order, each object is   *)
(* served once, and a rule is finished when no object is pending or active.  *)
THEOREM ImplementsRunsSafety ==
  ASSUME RulesSucceed PROVE Spec => Runs!Init /\ [][Runs!Next]_(Runs!runVars)
  <1>1. RulesSucceed /\ MainsSucceed
    BY DEF RulesSucceed
  <1>2. Init => Runs!Init
    <2> SUFFICES ASSUME Init PROVE Runs!Init
      OBVIOUS
    <2>1. k = 1 /\ mpc = "next" /\ int_ = FALSE
      BY DEF Init
    <2>2. Pending = {} /\ Active = {}
      BY <2>1, InitInvariant, InitRInv, IdleEmpty DEF Idle
    <2> QED BY <2>1, <2>2, RunsState DEF Applying, PendingOf
  <1>3. Init => AllOn
    BY <1>1, AllOnInit
  <1>4. IInv /\ RInv /\ AllOn /\ [Next]_vars => AllOn'
    BY <1>1, AllOnStep
  <1>5. IInv /\ RInv /\ AllOn /\ [Next]_vars => [Runs!Next]_(Runs!runVars)
    BY StepRuns, RunsState DEF RunsStep
  <1>6. Spec => [](IInv /\ RInv)
    BY <1>1, RunInvariance
  <1> QED BY <1>2, <1>3, <1>4, <1>5, <1>6, PTL DEF Spec

=============================================================================
