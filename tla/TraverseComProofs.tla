--------------------------- MODULE TraverseComProofs ---------------------------
(***************************************************************************)
(* Safety of the session between the master and the slave of smrenderd,    *)
(* for any number of objects and rules.                                    *)
(*                                                                         *)
(* The mutex excludes until tc_break() unlocks it for whoever holds it     *)
(* (Locked), and then the client receives the first rule's objects one by  *)
(* one (First).  What the client receives after that does not rest on the  *)
(* mutex any more: tc_break() waits until the slave has answered (Broken), *)
(* so that no object of an old rule is handed over later (Own), unless     *)
(* init_rule() fails: then a command for the slave is still pending while  *)
(* the next rule is made.                                                  *)
(***************************************************************************)
EXTENDS TraverseCom, TLAPS

\* The slave has no rule that it traverses.  act_ws_traverse_fini() belongs to
\* this from its answer on, though tc->o may still point to the last object.
Rest == {"none", "top", "check", "ready", "ready2", "rsleep", "slept", "wake", "reset", "again", "leave",
         "gone", "done", "flag"}
Answered == spc \in Rest \/ (spc = "fini2" /\ "master_cmd" \notin stodo)

\* The slave is on the way to the next object, or has handed one over.
Seeking == {"start", "apply", "main", "main2"}
Handed  == {"mtest", "msleep", "mslept", "mwake"}
Mid     == (Seeking \ {"start"}) \cup Handed \cup {"hand", "pass", "broken", "fini", "fini2"}

\* Where the master waits for an answer
Asking  == {"next3", "nwait", "nsleep", "nslept", "nwake", "get"}

\* Bounds that TypeOK rests on
Bounds ==
  /\ mpc \in {"break", "break2", "parse"} \cup Spinning => nrules < MaxRules
  /\ mpc \in {"break", "break2"} \cup Spinning => r # NoRule
  /\ mpc \in {"trav", "trav2"} => nrules # 0
  /\ spc \in {"main", "main2", "hand", "pass"} \cup Handed => nr <= NObj

\* Rules are freed once, and only those that were made.
Fresh == freed \subseteq 1 .. nrules /\ r <= nrules /\ r \notin freed

\* The mutex is held by the thread that is in a section.
Locked ==
  mpc \notin Spinning /\ freed = {} =>
    /\ mtx = "master" <=> mpc \in MasterSection
    /\ mtx = "slave"  <=> spc \in SlaveSection

\* Rules: tc->r is the client's rule, and the slave has nothing to traverse
\* while there is none, or none it was told of.
Ruled ==
  NoneFailed =>
    /\ mpc = "parse" => r = NoRule
    /\ mpc \in {"trav", "trav2", "trav3"} => r # NoRule
    /\ r # NoRule => tc_r = r
    /\ r = NoRule \/ mpc \in {"trav", "trav2"} => Answered /\ slave_cmd # "TRAVERSE"
    /\ slave_cmd = "TRAVERSE" => Answered \/ spc \in {"take", "taken"}
    /\ ~ Answered /\ spc # "take" => rule = r

\* tc_break() ends when the slave has answered the command, and the slave
\* answers when it has nothing to hand over any more.
Broken ==
  NoneFailed =>
    /\ mpc \in Spinning => slave_cmd # "TRAVERSE" /\ (master_cmd = "READY" => Answered)
    /\ mpc = "broke" => Answered
    /\ mpc = "break2" /\ "slave_cmd" \notin mtodo => slave_cmd # "TRAVERSE"
    /\ mpc = "break2" /\ "master_cmd" \notin mtodo /\ master_cmd = "READY" =>
         /\ Answered
         /\ slave_cmd = "TRAVERSE" => spc \in {"ready2", "rsleep", "slept"}

\* An object handed over was found by the client's rule and is not one before
\* the last the client has received.  Only when the slave has answered tc->o
\* may still be one of an old rule, and then nobody reads it.
Own ==
  NoneFailed =>
    /\ mpc \in Asking => slave_cmd # "TRAVERSE"
    /\ mpc \in {"trav", "trav2"} \/ slave_cmd = "TRAVERSE" \/ spc \in {"take", "taken"} => got = 0
    /\ ~ Answered /\ spc # "take" => got <= nr
    /\ Answered \/ spc \in {"take", "taken", "start"} => master_cmd # "NEXT"
    /\ o # NoObj =>
         /\ spc \in Mid
         /\ spc = "fini2" => "o" \in stodo
         /\ \/ o.rule = r /\ got <= o.nr /\ (~ Answered => o.nr <= nr)
            \/ Answered /\ mpc # "get"

IInv == TypeOK /\ Bounds /\ Fresh /\ Locked /\ Ruled /\ Broken /\ Own

\* Until tc_break() or tc_free() is called
Early == FirstRule /\ mpc \notin {"break2", "free3", "exit", "join", "end", "crash"}

\* With the first rule the slave is never more than one object ahead of the
\* client, and hands over the next one only after the client has asked for it.
First ==
  Early =>
    /\ tc_r = r
    /\ slave_cmd \in {"WAIT", "NEXT", "TRAVERSE"}
    /\ nrules = 0 \/ mpc \in {"trav", "trav2"} => slave_cmd # "TRAVERSE" /\ spc \in Rest /\ got = 0
    /\ slave_cmd = "TRAVERSE" => spc \in Rest \cup {"take", "taken"} /\ got = 0
    /\ spc \notin Rest \cup {"take", "fini2"} => rule = r
    /\ spc \in {"take", "taken"} => got = 0
    /\ spc = "taken" => nr = 1
    /\ spc \in Seeking \cup {"hand"} => got = nr - 1
    /\ spc \in Seeking \cup {"pass"} => slave_cmd = "NEXT"
    /\ spc = "hand" =>
         /\ "o" \notin stodo => o = [rule |-> r, nr |-> nr]
         /\ "slave_cmd" \notin stodo => slave_cmd = "WAIT"
         /\ "master_cmd" \notin stodo => master_cmd = "NEXT"
    /\ spc \in Handed /\ mpc # "get" =>
         IF master_cmd = "NEXT"
           THEN o = [rule |-> r, nr |-> nr] /\ got = nr - 1 /\ (slave_cmd = "WAIT" \/ mpc \in {"next3", "nwait"})
           ELSE got = nr
    /\ spc = "pass" => got = nr
    /\ spc \notin Handed \cup {"hand"} => master_cmd # "NEXT"
    /\ spc # "broken"
    /\ mpc = "get" =>
         /\ spc \in {"mslept", "mwake"}
         /\ IF "o" \in mtodo THEN o = [rule |-> r, nr |-> nr] /\ got = nr - 1 ELSE got = nr
         /\ "master_cmd" \in mtodo \/ master_cmd = "WAIT"
    /\ mpc = "nsleep" => master_cmd # "NEXT"

-----------------------------------------------------------------------------
USE DEF com, rules, master, slave, vars

LEMMA InitInvariant == Init => IInv /\ First
  <1> SUFFICES ASSUME Init PROVE IInv /\ First
    OBVIOUS
  <1>1. TypeOK
    BY ComAssumption DEF Init, TypeOK, Cmds, NoRule, NoObj
  <1>2. Bounds /\ Fresh /\ Locked
    BY ComAssumption DEF Init, Bounds, Fresh, Locked, NoRule, Handed, MasterSection, SlaveSection, Spinning
  <1>3. Ruled /\ Broken /\ Own
    BY DEF Init, Ruled, Broken, Own, Answered, Rest, Spinning, Asking
  <1>4. First
    BY DEF Init, First, Seeking, Handed, Rest
  <1> QED BY <1>1, <1>2, <1>3, <1>4 DEF IInv

(* The invariant, part by part: every step of the master and of the slave    *)
(* keeps it.                                                                *)
LEMMA TypeStep == IInv /\ [Next]_vars => TypeOK'
  <1> SUFFICES ASSUME IInv, [Next]_vars PROVE TypeOK'
    OBVIOUS
  <1>1. CASE Command
    BY <1>1, ComAssumption DEF Command, IInv, TypeOK, Bounds, Handed, Cmds, MasterSection, SlaveSection, Spinning, NoRule, NoObj
  <1>2. CASE Leave
    BY <1>2, ComAssumption DEF Leave, IInv, TypeOK, Bounds, Handed, Cmds, MasterSection, SlaveSection, Spinning, NoRule, NoObj
  <1>3. CASE MasterLock
    BY <1>3, ComAssumption DEF MasterLock, MasterBody, IInv, TypeOK, Bounds, Handed, Cmds, MasterSection, SlaveSection, Spinning, NoRule, NoObj
  <1>4. CASE MasterSignal
    BY <1>4, ComAssumption DEF MasterSignal, MasterSignalled, Woken, IInv, TypeOK, Bounds, Handed, Cmds, MasterSection, SlaveSection, Spinning, NoRule, NoObj
  <1>5. CASE MasterUnlock
    BY <1>5, ComAssumption DEF MasterUnlock, MasterUnlocked, IInv, TypeOK, Bounds, Handed, Cmds, MasterSection, SlaveSection, Spinning, NoRule, NoObj
  <1>6. CASE Break
    BY <1>6, ComAssumption DEF Break, IInv, TypeOK, Bounds, Handed, Cmds, MasterSection, SlaveSection, Spinning, NoRule, NoObj
  <1>7. CASE Spin
    BY <1>7, ComAssumption DEF Spin, IInv, TypeOK, Bounds, Handed, Cmds, MasterSection, SlaveSection, Spinning, NoRule, NoObj
  <1>8. CASE Broke
    BY <1>8, ComAssumption DEF Broke, IInv, TypeOK, Bounds, Handed, Cmds, MasterSection, SlaveSection, Spinning, NoRule, NoObj
  <1>9. CASE Reject
    BY <1>9, ComAssumption DEF Reject, IInv, TypeOK, Bounds, Handed, Cmds, MasterSection, SlaveSection, Spinning, NoRule, NoObj
  <1>10. CASE NewRule
    BY <1>10, ComAssumption DEF NewRule, IInv, TypeOK, Bounds, Handed, Cmds, MasterSection, SlaveSection, Spinning, NoRule, NoObj
  <1>11. CASE Traverse
    BY <1>11, ComAssumption DEF Traverse, IInv, TypeOK, Bounds, Handed, Cmds, MasterSection, SlaveSection, Spinning, NoRule, NoObj
  <1>12. CASE NextRequest
    BY <1>12, ComAssumption DEF NextRequest, IInv, TypeOK, Bounds, Handed, Cmds, MasterSection, SlaveSection, Spinning, NoRule, NoObj
  <1>13. CASE Exit
    BY <1>13, ComAssumption DEF Exit, IInv, TypeOK, Bounds, Handed, Cmds, MasterSection, SlaveSection, Spinning, NoRule, NoObj
  <1>14. CASE NextAnswer
    <2>1. mpc' \in {"nsleep", "get", "unlock"} /\ mtodo' \subseteq {"slave_cmd", "master_cmd", "o"}
      BY <1>14 DEF NextAnswer, IInv, TypeOK
    <2>2. UNCHANGED <<mtx, slave_cmd, master_cmd, o, tc_r, r, nrules, freed, got, spc, rule, nr, stodo>>
      BY <1>14 DEF NextAnswer
    <2>3. mpc' \in MasterSection
      BY <2>1 DEF MasterSection
    <2> QED BY <2>1, <2>2, <2>3 DEF IInv, TypeOK
  <1>15. CASE NextSleep
    BY <1>15, ComAssumption DEF NextSleep, IInv, TypeOK, Bounds, Handed, Cmds, MasterSection, SlaveSection, Spinning, NoRule, NoObj
  <1>16. CASE GetObject
    BY <1>16, ComAssumption DEF GetObject, IInv, TypeOK, Bounds, Handed, Cmds, MasterSection, SlaveSection, Spinning, NoRule, NoObj
  <1>17. CASE ResetAnswer
    BY <1>17, ComAssumption DEF ResetAnswer, IInv, TypeOK, Bounds, Handed, Cmds, MasterSection, SlaveSection, Spinning, NoRule, NoObj
  <1>18. CASE GetUnlock
    BY <1>18, ComAssumption DEF GetUnlock, IInv, TypeOK, Bounds, Handed, Cmds, MasterSection, SlaveSection, Spinning, NoRule, NoObj
  <1>19. CASE Join
    BY <1>19, ComAssumption DEF Join, IInv, TypeOK, Bounds, Handed, Cmds, MasterSection, SlaveSection, Spinning, NoRule, NoObj
  <1>20. CASE SlaveLock
    BY <1>20, ComAssumption DEF SlaveLock, SlaveBody, IInv, TypeOK, Bounds, Handed, Cmds, MasterSection, SlaveSection, Spinning, NoRule, NoObj
  <1>21. CASE SlaveSignal
    BY <1>21, ComAssumption DEF SlaveSignal, SlaveSignalled, Woken, IInv, TypeOK, Bounds, Handed, Cmds, MasterSection, SlaveSection, Spinning, NoRule, NoObj
  <1>22. CASE SlaveUnlock
    BY <1>22, ComAssumption DEF SlaveUnlock, SlaveUnlocked, IInv, TypeOK, Bounds, Handed, Cmds, MasterSection, SlaveSection, Spinning, NoRule, NoObj
  <1>23. CASE Check
    BY <1>23, ComAssumption DEF Check, Commanded, Cmds, IInv, TypeOK, Bounds, Handed, Cmds, MasterSection, SlaveSection, Spinning, NoRule, NoObj
  <1>24. CASE Ready
    BY <1>24, ComAssumption DEF Ready, IInv, TypeOK, Bounds, Handed, Cmds, MasterSection, SlaveSection, Spinning, NoRule, NoObj
  <1>25. CASE ResetCmd
    BY <1>25, ComAssumption DEF ResetCmd, IInv, TypeOK, Bounds, Handed, Cmds, MasterSection, SlaveSection, Spinning, NoRule, NoObj
  <1>26. CASE TakeRule
    BY <1>26, ComAssumption DEF TakeRule, IInv, TypeOK, Bounds, Handed, Cmds, MasterSection, SlaveSection, Spinning, NoRule, NoObj
  <1>27. CASE DoTraverse
    BY <1>27, ComAssumption DEF DoTraverse, IInv, TypeOK, Bounds, Handed, Cmds, MasterSection, SlaveSection, Spinning, NoRule, NoObj
  <1>28. CASE Apply
    BY <1>28, ComAssumption DEF Apply, IInv, TypeOK, Bounds, Handed, Cmds, MasterSection, SlaveSection, Spinning, NoRule, NoObj
  <1>29. CASE MainCmd
    BY <1>29, ComAssumption DEF MainCmd, MainCommanded, Cmds, IInv, TypeOK, Bounds, Handed, Cmds, MasterSection, SlaveSection, Spinning, NoRule, NoObj
  <1>30. CASE MainNext
    BY <1>30, ComAssumption DEF MainNext, IInv, TypeOK, Bounds, Handed, Cmds, MasterSection, SlaveSection, Spinning, NoRule, NoObj
  <1>31. CASE MainWait
    BY <1>31, ComAssumption DEF MainWait, IInv, TypeOK, Bounds, Handed, Cmds, MasterSection, SlaveSection, Spinning, NoRule, NoObj
  <1>32. CASE MainReturn
    BY <1>32, ComAssumption DEF MainReturn, IInv, TypeOK, Bounds, Handed, Cmds, MasterSection, SlaveSection, Spinning, NoRule, NoObj
  <1>33. CASE Fini
    BY <1>33, ComAssumption DEF Fini, IInv, TypeOK, Bounds, Handed, Cmds, MasterSection, SlaveSection, Spinning, NoRule, NoObj
  <1>34. CASE SetFinished
    BY <1>34, ComAssumption DEF SetFinished, IInv, TypeOK, Bounds, Handed, Cmds, MasterSection, SlaveSection, Spinning, NoRule, NoObj
  <1>35. CASE Ended \/ UNCHANGED vars
    <2>1. UNCHANGED <<mtx, slave_cmd, master_cmd, o, tc_r, mpc, r, mtodo, spc, rule, nr, stodo, nrules, freed, got>>
      BY <1>35 DEF Ended
    <2> QED BY <2>1 DEF IInv, TypeOK
  <1> QED
    BY <1>1, <1>2, <1>3, <1>4, <1>5, <1>6, <1>7, <1>8, <1>9, <1>10, <1>11, <1>12, <1>13, <1>14, <1>15, <1>16, <1>17, <1>18, <1>19, <1>20, <1>21, <1>22, <1>23, <1>24, <1>25, <1>26, <1>27, <1>28, <1>29, <1>30, <1>31, <1>32, <1>33, <1>34, <1>35 DEF Next, Master, Slave

LEMMA BoundsStep == IInv /\ [Next]_vars => Bounds'
  <1> SUFFICES ASSUME IInv, [Next]_vars PROVE Bounds'
    OBVIOUS
  <1>1. CASE Command
    BY <1>1, ComAssumption DEF Command, IInv, TypeOK, Bounds, Handed, Spinning, NoRule
  <1>2. CASE Leave
    BY <1>2, ComAssumption DEF Leave, IInv, TypeOK, Bounds, Handed, Spinning, NoRule
  <1>3. CASE MasterLock
    BY <1>3, ComAssumption DEF MasterLock, MasterBody, IInv, TypeOK, Bounds, Handed, Spinning, NoRule
  <1>4. CASE MasterSignal
    BY <1>4, ComAssumption DEF MasterSignal, MasterSignalled, Woken, IInv, TypeOK, Bounds, Handed, Spinning, NoRule
  <1>5. CASE MasterUnlock
    BY <1>5, ComAssumption DEF MasterUnlock, MasterUnlocked, IInv, TypeOK, Bounds, Handed, Spinning, NoRule
  <1>6. CASE Break
    BY <1>6, ComAssumption DEF Break, IInv, TypeOK, Bounds, Handed, Spinning, NoRule
  <1>7. CASE Spin
    BY <1>7, ComAssumption DEF Spin, IInv, TypeOK, Bounds, Handed, Spinning, NoRule
  <1>8. CASE Broke
    BY <1>8, ComAssumption DEF Broke, IInv, TypeOK, Bounds, Handed, Spinning, NoRule
  <1>9. CASE Reject
    BY <1>9, ComAssumption DEF Reject, IInv, TypeOK, Bounds, Handed, Spinning, NoRule
  <1>10. CASE NewRule
    BY <1>10, ComAssumption DEF NewRule, IInv, TypeOK, Bounds, Handed, Spinning, NoRule
  <1>11. CASE Traverse
    BY <1>11, ComAssumption DEF Traverse, IInv, TypeOK, Bounds, Handed, Spinning, NoRule
  <1>12. CASE NextRequest
    BY <1>12, ComAssumption DEF NextRequest, IInv, TypeOK, Bounds, Handed, Spinning, NoRule
  <1>13. CASE Exit
    BY <1>13, ComAssumption DEF Exit, IInv, TypeOK, Bounds, Handed, Spinning, NoRule
  <1>14. CASE NextAnswer
    BY <1>14, ComAssumption DEF NextAnswer, IInv, TypeOK, Bounds, Handed, Spinning, NoRule
  <1>15. CASE NextSleep
    BY <1>15, ComAssumption DEF NextSleep, IInv, TypeOK, Bounds, Handed, Spinning, NoRule
  <1>16. CASE GetObject
    BY <1>16, ComAssumption DEF GetObject, IInv, TypeOK, Bounds, Handed, Spinning, NoRule
  <1>17. CASE ResetAnswer
    BY <1>17, ComAssumption DEF ResetAnswer, IInv, TypeOK, Bounds, Handed, Spinning, NoRule
  <1>18. CASE GetUnlock
    BY <1>18, ComAssumption DEF GetUnlock, IInv, TypeOK, Bounds, Handed, Spinning, NoRule
  <1>19. CASE Join
    BY <1>19, ComAssumption DEF Join, IInv, TypeOK, Bounds, Handed, Spinning, NoRule
  <1>20. CASE SlaveLock
    BY <1>20, ComAssumption DEF SlaveLock, SlaveBody, IInv, TypeOK, Bounds, Handed, Spinning, NoRule
  <1>21. CASE SlaveSignal
    BY <1>21, ComAssumption DEF SlaveSignal, SlaveSignalled, Woken, IInv, TypeOK, Bounds, Handed, Spinning, NoRule
  <1>22. CASE SlaveUnlock
    BY <1>22, ComAssumption DEF SlaveUnlock, SlaveUnlocked, IInv, TypeOK, Bounds, Handed, Spinning, NoRule
  <1>23. CASE Check
    BY <1>23, ComAssumption DEF Check, Commanded, Cmds, IInv, TypeOK, Bounds, Handed, Spinning, NoRule
  <1>24. CASE Ready
    BY <1>24, ComAssumption DEF Ready, IInv, TypeOK, Bounds, Handed, Spinning, NoRule
  <1>25. CASE ResetCmd
    BY <1>25, ComAssumption DEF ResetCmd, IInv, TypeOK, Bounds, Handed, Spinning, NoRule
  <1>26. CASE TakeRule
    BY <1>26, ComAssumption DEF TakeRule, IInv, TypeOK, Bounds, Handed, Spinning, NoRule
  <1>27. CASE DoTraverse
    BY <1>27, ComAssumption DEF DoTraverse, IInv, TypeOK, Bounds, Handed, Spinning, NoRule
  <1>28. CASE Apply
    BY <1>28, ComAssumption DEF Apply, IInv, TypeOK, Bounds, Handed, Spinning, NoRule
  <1>29. CASE MainCmd
    BY <1>29, ComAssumption DEF MainCmd, MainCommanded, Cmds, IInv, TypeOK, Bounds, Handed, Spinning, NoRule
  <1>30. CASE MainNext
    BY <1>30, ComAssumption DEF MainNext, IInv, TypeOK, Bounds, Handed, Spinning, NoRule
  <1>31. CASE MainWait
    BY <1>31, ComAssumption DEF MainWait, IInv, TypeOK, Bounds, Handed, Spinning, NoRule
  <1>32. CASE MainReturn
    BY <1>32, ComAssumption DEF MainReturn, IInv, TypeOK, Bounds, Handed, Spinning, NoRule
  <1>33. CASE Fini
    BY <1>33, ComAssumption DEF Fini, IInv, TypeOK, Bounds, Handed, Spinning, NoRule
  <1>34. CASE SetFinished
    BY <1>34, ComAssumption DEF SetFinished, IInv, TypeOK, Bounds, Handed, Spinning, NoRule
  <1>35. CASE Ended \/ UNCHANGED vars
    BY <1>35 DEF Ended, IInv, TypeOK, Bounds, Handed, Spinning
  <1> QED
    BY <1>1, <1>2, <1>3, <1>4, <1>5, <1>6, <1>7, <1>8, <1>9, <1>10, <1>11, <1>12, <1>13, <1>14, <1>15, <1>16, <1>17, <1>18, <1>19, <1>20, <1>21, <1>22, <1>23, <1>24, <1>25, <1>26, <1>27, <1>28, <1>29, <1>30, <1>31, <1>32, <1>33, <1>34, <1>35 DEF Next, Master, Slave

LEMMA FreshStep == IInv /\ [Next]_vars => Fresh'
  <1> SUFFICES ASSUME IInv, [Next]_vars PROVE Fresh'
    OBVIOUS
  <1>1. nrules \in Nat /\ r \in Nat
    BY ComAssumption DEF IInv, TypeOK
  <1>2. CASE NewRule
    <2>1. nrules' = nrules + 1 /\ (r' = nrules + 1 \/ r' = 0) /\ freed' = freed
      BY <1>2 DEF NewRule, NoRule
    <2>2. freed \subseteq 1 .. nrules + 1 /\ nrules + 1 \notin freed /\ 0 \notin freed
      BY <1>1 DEF IInv, Fresh
    <2>3. r' <= nrules + 1
      BY <1>1, <2>1
    <2> QED BY <2>1, <2>2, <2>3 DEF Fresh
  <1>3. CASE Broke
    <2>1. nrules' = nrules /\ freed' = freed \cup {r} /\ r' = 0
      BY <1>3 DEF Broke, NoRule
    <2>2. r \in 1 .. nrules
      BY <1>1, <1>3 DEF Broke, IInv, Bounds, Fresh, NoRule, Spinning
    <2>3. freed' \subseteq 1 .. nrules /\ 0 \notin freed'
      BY <1>1, <2>1, <2>2 DEF IInv, Fresh
    <2> QED BY <1>1, <2>1, <2>3 DEF Fresh
  <1>4. CASE UNCHANGED <<nrules, freed, r>>
    BY <1>4 DEF IInv, Fresh
  <1>5. NewRule \/ Broke \/ UNCHANGED <<nrules, freed, r>>
    BY DEF Next, Master, Slave, Ended,
           Command, Leave, MasterLock, MasterSignal, MasterUnlock, Break, Spin, Reject,
           Traverse, NextRequest, Exit, NextAnswer, NextSleep, GetObject, ResetAnswer,
           GetUnlock, Join, SlaveLock, SlaveSignal, SlaveUnlock, Check, Ready, ResetCmd,
           TakeRule, DoTraverse, Apply, MainCmd, MainNext, MainWait, MainReturn, Fini,
           SetFinished
  <1> QED BY <1>2, <1>3, <1>4, <1>5

LEMMA LockedStep == IInv /\ [Next]_vars => Locked'
  <1> SUFFICES ASSUME IInv, [Next]_vars PROVE Locked'
    OBVIOUS
  <1>1. CASE Command
    BY <1>1, ComAssumption DEF Command, IInv, TypeOK, Locked, MasterSection, SlaveSection, Spinning
  <1>2. CASE Leave
    BY <1>2, ComAssumption DEF Leave, IInv, TypeOK, Locked, MasterSection, SlaveSection, Spinning
  <1>3. CASE MasterLock
    BY <1>3, ComAssumption DEF MasterLock, MasterBody, IInv, TypeOK, Locked, MasterSection, SlaveSection, Spinning
  <1>4. CASE MasterSignal
    BY <1>4, ComAssumption DEF MasterSignal, MasterSignalled, Woken, IInv, TypeOK, Locked, MasterSection, SlaveSection, Spinning
  <1>5. CASE MasterUnlock
    BY <1>5, ComAssumption DEF MasterUnlock, MasterUnlocked, IInv, TypeOK, Locked, MasterSection, SlaveSection, Spinning
  <1>6. CASE Break
    BY <1>6, ComAssumption DEF Break, IInv, TypeOK, Locked, MasterSection, SlaveSection, Spinning
  <1>7. CASE Spin
    BY <1>7, ComAssumption DEF Spin, IInv, TypeOK, Locked, MasterSection, SlaveSection, Spinning
  <1>8. CASE Broke
    BY <1>8, ComAssumption DEF Broke, IInv, TypeOK, Locked, MasterSection, SlaveSection, Spinning
  <1>9. CASE Reject
    BY <1>9, ComAssumption DEF Reject, IInv, TypeOK, Locked, MasterSection, SlaveSection, Spinning
  <1>10. CASE NewRule
    BY <1>10, ComAssumption DEF NewRule, IInv, TypeOK, Locked, MasterSection, SlaveSection, Spinning
  <1>11. CASE Traverse
    BY <1>11, ComAssumption DEF Traverse, IInv, TypeOK, Locked, MasterSection, SlaveSection, Spinning
  <1>12. CASE NextRequest
    BY <1>12, ComAssumption DEF NextRequest, IInv, TypeOK, Locked, MasterSection, SlaveSection, Spinning
  <1>13. CASE Exit
    BY <1>13, ComAssumption DEF Exit, IInv, TypeOK, Locked, MasterSection, SlaveSection, Spinning
  <1>14. CASE NextAnswer
    BY <1>14, ComAssumption DEF NextAnswer, IInv, TypeOK, Locked, MasterSection, SlaveSection, Spinning
  <1>15. CASE NextSleep
    BY <1>15, ComAssumption DEF NextSleep, IInv, TypeOK, Locked, MasterSection, SlaveSection, Spinning
  <1>16. CASE GetObject
    BY <1>16, ComAssumption DEF GetObject, IInv, TypeOK, Locked, MasterSection, SlaveSection, Spinning
  <1>17. CASE ResetAnswer
    BY <1>17, ComAssumption DEF ResetAnswer, IInv, TypeOK, Locked, MasterSection, SlaveSection, Spinning
  <1>18. CASE GetUnlock
    BY <1>18, ComAssumption DEF GetUnlock, IInv, TypeOK, Locked, MasterSection, SlaveSection, Spinning
  <1>19. CASE Join
    BY <1>19, ComAssumption DEF Join, IInv, TypeOK, Locked, MasterSection, SlaveSection, Spinning
  <1>20. CASE SlaveLock
    BY <1>20, ComAssumption DEF SlaveLock, SlaveBody, IInv, TypeOK, Locked, MasterSection, SlaveSection, Spinning
  <1>21. CASE SlaveSignal
    BY <1>21, ComAssumption DEF SlaveSignal, SlaveSignalled, Woken, IInv, TypeOK, Locked, MasterSection, SlaveSection, Spinning
  <1>22. CASE SlaveUnlock
    BY <1>22, ComAssumption DEF SlaveUnlock, SlaveUnlocked, IInv, TypeOK, Locked, MasterSection, SlaveSection, Spinning
  <1>23. CASE Check
    BY <1>23, ComAssumption DEF Check, Commanded, Cmds, IInv, TypeOK, Locked, MasterSection, SlaveSection, Spinning
  <1>24. CASE Ready
    BY <1>24, ComAssumption DEF Ready, IInv, TypeOK, Locked, MasterSection, SlaveSection, Spinning
  <1>25. CASE ResetCmd
    BY <1>25, ComAssumption DEF ResetCmd, IInv, TypeOK, Locked, MasterSection, SlaveSection, Spinning
  <1>26. CASE TakeRule
    BY <1>26, ComAssumption DEF TakeRule, IInv, TypeOK, Locked, MasterSection, SlaveSection, Spinning
  <1>27. CASE DoTraverse
    BY <1>27, ComAssumption DEF DoTraverse, IInv, TypeOK, Locked, MasterSection, SlaveSection, Spinning
  <1>28. CASE Apply
    BY <1>28, ComAssumption DEF Apply, IInv, TypeOK, Locked, MasterSection, SlaveSection, Spinning
  <1>29. CASE MainCmd
    BY <1>29, ComAssumption DEF MainCmd, MainCommanded, Cmds, IInv, TypeOK, Locked, MasterSection, SlaveSection, Spinning
  <1>30. CASE MainNext
    BY <1>30, ComAssumption DEF MainNext, IInv, TypeOK, Locked, MasterSection, SlaveSection, Spinning
  <1>31. CASE MainWait
    BY <1>31, ComAssumption DEF MainWait, IInv, TypeOK, Locked, MasterSection, SlaveSection, Spinning
  <1>32. CASE MainReturn
    BY <1>32, ComAssumption DEF MainReturn, IInv, TypeOK, Locked, MasterSection, SlaveSection, Spinning
  <1>33. CASE Fini
    BY <1>33, ComAssumption DEF Fini, IInv, TypeOK, Locked, MasterSection, SlaveSection, Spinning
  <1>34. CASE SetFinished
    BY <1>34, ComAssumption DEF SetFinished, IInv, TypeOK, Locked, MasterSection, SlaveSection, Spinning
  <1>35. CASE Ended \/ UNCHANGED vars
    BY <1>35 DEF Ended, IInv, TypeOK, Locked, MasterSection, SlaveSection, Spinning
  <1> QED
    BY <1>1, <1>2, <1>3, <1>4, <1>5, <1>6, <1>7, <1>8, <1>9, <1>10, <1>11, <1>12, <1>13, <1>14, <1>15, <1>16, <1>17, <1>18, <1>19, <1>20, <1>21, <1>22, <1>23, <1>24, <1>25, <1>26, <1>27, <1>28, <1>29, <1>30, <1>31, <1>32, <1>33, <1>34, <1>35 DEF Next, Master, Slave

LEMMA RuledStep == IInv /\ [Next]_vars => Ruled'
  <1> SUFFICES ASSUME IInv, [Next]_vars PROVE Ruled'
    OBVIOUS
  <1>1. CASE Command
    BY <1>1, ComAssumption DEF Command, IInv, TypeOK, Bounds, Ruled, Broken, Answered, Rest, Spinning, NoneFailed, NoRule
  <1>2. CASE Leave
    BY <1>2, ComAssumption DEF Leave, IInv, TypeOK, Bounds, Ruled, Broken, Answered, Rest, Spinning, NoneFailed, NoRule
  <1>3. CASE MasterLock
    BY <1>3, ComAssumption DEF MasterLock, MasterBody, IInv, TypeOK, Bounds, Ruled, Broken, Answered, Rest, Spinning, NoneFailed, NoRule
  <1>4. CASE MasterSignal
    BY <1>4, ComAssumption DEF MasterSignal, MasterSignalled, Woken, IInv, TypeOK, Bounds, Ruled, Broken, Answered, Rest, Spinning, NoneFailed, NoRule
  <1>5. CASE MasterUnlock
    BY <1>5, ComAssumption DEF MasterUnlock, MasterUnlocked, IInv, TypeOK, Bounds, Ruled, Broken, Answered, Rest, Spinning, NoneFailed, NoRule
  <1>6. CASE Break
    BY <1>6, ComAssumption DEF Break, IInv, TypeOK, Bounds, Ruled, Broken, Answered, Rest, Spinning, NoneFailed, NoRule
  <1>7. CASE Spin
    BY <1>7, ComAssumption DEF Spin, IInv, TypeOK, Bounds, Ruled, Broken, Answered, Rest, Spinning, NoneFailed, NoRule
  <1>8. CASE Broke
    BY <1>8, ComAssumption DEF Broke, IInv, TypeOK, Bounds, Ruled, Broken, Answered, Rest, Spinning, NoneFailed, NoRule
  <1>9. CASE Reject
    BY <1>9, ComAssumption DEF Reject, IInv, TypeOK, Bounds, Ruled, Broken, Answered, Rest, Spinning, NoneFailed, NoRule
  <1>10. CASE NewRule
    <2> SUFFICES ASSUME NoneFailed' PROVE Ruled'
      BY DEF Ruled
    <2>1. /\ mpc = "parse" /\ mpc' = "trav" /\ tc_r' = r' /\ nrules' = nrules + 1 /\ (r' = nrules + 1 \/ r' = 0)
          /\ UNCHANGED <<slave_cmd, freed, spc, rule, stodo>>
      BY <1>10 DEF NewRule, NoRule
    <2>2. nrules \in Nat
      BY ComAssumption DEF IInv, TypeOK
    <2>3. nrules + 1 \in 1 .. nrules' /\ nrules + 1 \notin freed /\ nrules + 1 # 0
      BY <2>1, <2>2 DEF IInv, Fresh
    <2>4. r' = nrules + 1
      BY <2>1, <2>3 DEF NoneFailed
    <2>5. NoneFailed
      <3> SUFFICES ASSUME NEW n \in 1 .. nrules PROVE n \in freed
        BY DEF NoneFailed
      <3>1. n \in 1 .. nrules' /\ n # r'
        BY <2>1, <2>2, <2>4
      <3> QED BY <2>1, <3>1 DEF NoneFailed
    <2>6. Answered /\ slave_cmd # "TRAVERSE"
      BY <2>1, <2>5 DEF IInv, Ruled
    <2>7. Answered'
      BY <2>1, <2>6 DEF Answered
    <2> QED BY <2>1, <2>3, <2>4, <2>6, <2>7 DEF Ruled, NoRule
  <1>11. CASE Traverse
    BY <1>11, ComAssumption DEF Traverse, IInv, TypeOK, Bounds, Ruled, Broken, Answered, Rest, Spinning, NoneFailed, NoRule
  <1>12. CASE NextRequest
    BY <1>12, ComAssumption DEF NextRequest, IInv, TypeOK, Bounds, Ruled, Broken, Answered, Rest, Spinning, NoneFailed, NoRule
  <1>13. CASE Exit
    BY <1>13, ComAssumption DEF Exit, IInv, TypeOK, Bounds, Ruled, Broken, Answered, Rest, Spinning, NoneFailed, NoRule
  <1>14. CASE NextAnswer
    BY <1>14, ComAssumption DEF NextAnswer, IInv, TypeOK, Bounds, Ruled, Broken, Answered, Rest, Spinning, NoneFailed, NoRule
  <1>15. CASE NextSleep
    BY <1>15, ComAssumption DEF NextSleep, IInv, TypeOK, Bounds, Ruled, Broken, Answered, Rest, Spinning, NoneFailed, NoRule
  <1>16. CASE GetObject
    BY <1>16, ComAssumption DEF GetObject, IInv, TypeOK, Bounds, Ruled, Broken, Answered, Rest, Spinning, NoneFailed, NoRule
  <1>17. CASE ResetAnswer
    BY <1>17, ComAssumption DEF ResetAnswer, IInv, TypeOK, Bounds, Ruled, Broken, Answered, Rest, Spinning, NoneFailed, NoRule
  <1>18. CASE GetUnlock
    BY <1>18, ComAssumption DEF GetUnlock, IInv, TypeOK, Bounds, Ruled, Broken, Answered, Rest, Spinning, NoneFailed, NoRule
  <1>19. CASE Join
    BY <1>19, ComAssumption DEF Join, IInv, TypeOK, Bounds, Ruled, Broken, Answered, Rest, Spinning, NoneFailed, NoRule
  <1>20. CASE SlaveLock
    BY <1>20, ComAssumption DEF SlaveLock, SlaveBody, IInv, TypeOK, Bounds, Ruled, Broken, Answered, Rest, Spinning, NoneFailed, NoRule
  <1>21. CASE SlaveSignal
    BY <1>21, ComAssumption DEF SlaveSignal, SlaveSignalled, Woken, IInv, TypeOK, Bounds, Ruled, Broken, Answered, Rest, Spinning, NoneFailed, NoRule
  <1>22. CASE SlaveUnlock
    BY <1>22, ComAssumption DEF SlaveUnlock, SlaveUnlocked, IInv, TypeOK, Bounds, Ruled, Broken, Answered, Rest, Spinning, NoneFailed, NoRule
  <1>23. CASE Check
    BY <1>23, ComAssumption DEF Check, Commanded, Cmds, IInv, TypeOK, Bounds, Ruled, Broken, Answered, Rest, Spinning, NoneFailed, NoRule
  <1>24. CASE Ready
    BY <1>24, ComAssumption DEF Ready, IInv, TypeOK, Bounds, Ruled, Broken, Answered, Rest, Spinning, NoneFailed, NoRule
  <1>25. CASE ResetCmd
    BY <1>25, ComAssumption DEF ResetCmd, IInv, TypeOK, Bounds, Ruled, Broken, Answered, Rest, Spinning, NoneFailed, NoRule
  <1>26. CASE TakeRule
    BY <1>26, ComAssumption DEF TakeRule, IInv, TypeOK, Bounds, Ruled, Broken, Answered, Rest, Spinning, NoneFailed, NoRule
  <1>27. CASE DoTraverse
    BY <1>27, ComAssumption DEF DoTraverse, IInv, TypeOK, Bounds, Ruled, Broken, Answered, Rest, Spinning, NoneFailed, NoRule
  <1>28. CASE Apply
    BY <1>28, ComAssumption DEF Apply, IInv, TypeOK, Bounds, Ruled, Broken, Answered, Rest, Spinning, NoneFailed, NoRule
  <1>29. CASE MainCmd
    BY <1>29, ComAssumption DEF MainCmd, MainCommanded, Cmds, IInv, TypeOK, Bounds, Ruled, Broken, Answered, Rest, Spinning, NoneFailed, NoRule
  <1>30. CASE MainNext
    BY <1>30, ComAssumption DEF MainNext, IInv, TypeOK, Bounds, Ruled, Broken, Answered, Rest, Spinning, NoneFailed, NoRule
  <1>31. CASE MainWait
    BY <1>31, ComAssumption DEF MainWait, IInv, TypeOK, Bounds, Ruled, Broken, Answered, Rest, Spinning, NoneFailed, NoRule
  <1>32. CASE MainReturn
    BY <1>32, ComAssumption DEF MainReturn, IInv, TypeOK, Bounds, Ruled, Broken, Answered, Rest, Spinning, NoneFailed, NoRule
  <1>33. CASE Fini
    BY <1>33, ComAssumption DEF Fini, IInv, TypeOK, Bounds, Ruled, Broken, Answered, Rest, Spinning, NoneFailed, NoRule
  <1>34. CASE SetFinished
    BY <1>34, ComAssumption DEF SetFinished, IInv, TypeOK, Bounds, Ruled, Broken, Answered, Rest, Spinning, NoneFailed, NoRule
  <1>35. CASE Ended \/ UNCHANGED vars
    BY <1>35 DEF Ended, IInv, TypeOK, Bounds, Ruled, Broken, Answered, Rest, Spinning, NoneFailed
  <1> QED
    BY <1>1, <1>2, <1>3, <1>4, <1>5, <1>6, <1>7, <1>8, <1>9, <1>10, <1>11, <1>12, <1>13, <1>14, <1>15, <1>16, <1>17, <1>18, <1>19, <1>20, <1>21, <1>22, <1>23, <1>24, <1>25, <1>26, <1>27, <1>28, <1>29, <1>30, <1>31, <1>32, <1>33, <1>34, <1>35 DEF Next, Master, Slave

LEMMA BrokenStep == IInv /\ [Next]_vars => Broken'
  <1> SUFFICES ASSUME IInv, [Next]_vars PROVE Broken'
    OBVIOUS
  <1>1. CASE Command
    BY <1>1, ComAssumption DEF Command, IInv, TypeOK, Bounds, Ruled, Broken, Answered, Rest, Spinning, NoneFailed, NoRule
  <1>2. CASE Leave
    BY <1>2, ComAssumption DEF Leave, IInv, TypeOK, Bounds, Ruled, Broken, Answered, Rest, Spinning, NoneFailed, NoRule
  <1>3. CASE MasterLock
    BY <1>3, ComAssumption DEF MasterLock, MasterBody, IInv, TypeOK, Bounds, Ruled, Broken, Answered, Rest, Spinning, NoneFailed, NoRule
  <1>4. CASE MasterSignal
    BY <1>4, ComAssumption DEF MasterSignal, MasterSignalled, Woken, IInv, TypeOK, Bounds, Ruled, Broken, Answered, Rest, Spinning, NoneFailed, NoRule
  <1>5. CASE MasterUnlock
    BY <1>5, ComAssumption DEF MasterUnlock, MasterUnlocked, IInv, TypeOK, Bounds, Ruled, Broken, Answered, Rest, Spinning, NoneFailed, NoRule
  <1>6. CASE Break
    BY <1>6, ComAssumption DEF Break, IInv, TypeOK, Bounds, Ruled, Broken, Answered, Rest, Spinning, NoneFailed, NoRule
  <1>7. CASE Spin
    BY <1>7, ComAssumption DEF Spin, IInv, TypeOK, Bounds, Ruled, Broken, Answered, Rest, Spinning, NoneFailed, NoRule
  <1>8. CASE Broke
    BY <1>8, ComAssumption DEF Broke, IInv, TypeOK, Bounds, Ruled, Broken, Answered, Rest, Spinning, NoneFailed, NoRule
  <1>9. CASE Reject
    BY <1>9, ComAssumption DEF Reject, IInv, TypeOK, Bounds, Ruled, Broken, Answered, Rest, Spinning, NoneFailed, NoRule
  <1>10. CASE NewRule
    BY <1>10, ComAssumption DEF NewRule, IInv, TypeOK, Bounds, Ruled, Broken, Answered, Rest, Spinning, NoneFailed, NoRule
  <1>11. CASE Traverse
    BY <1>11, ComAssumption DEF Traverse, IInv, TypeOK, Bounds, Ruled, Broken, Answered, Rest, Spinning, NoneFailed, NoRule
  <1>12. CASE NextRequest
    BY <1>12, ComAssumption DEF NextRequest, IInv, TypeOK, Bounds, Ruled, Broken, Answered, Rest, Spinning, NoneFailed, NoRule
  <1>13. CASE Exit
    BY <1>13, ComAssumption DEF Exit, IInv, TypeOK, Bounds, Ruled, Broken, Answered, Rest, Spinning, NoneFailed, NoRule
  <1>14. CASE NextAnswer
    BY <1>14, ComAssumption DEF NextAnswer, IInv, TypeOK, Bounds, Ruled, Broken, Answered, Rest, Spinning, NoneFailed, NoRule
  <1>15. CASE NextSleep
    BY <1>15, ComAssumption DEF NextSleep, IInv, TypeOK, Bounds, Ruled, Broken, Answered, Rest, Spinning, NoneFailed, NoRule
  <1>16. CASE GetObject
    BY <1>16, ComAssumption DEF GetObject, IInv, TypeOK, Bounds, Ruled, Broken, Answered, Rest, Spinning, NoneFailed, NoRule
  <1>17. CASE ResetAnswer
    BY <1>17, ComAssumption DEF ResetAnswer, IInv, TypeOK, Bounds, Ruled, Broken, Answered, Rest, Spinning, NoneFailed, NoRule
  <1>18. CASE GetUnlock
    BY <1>18, ComAssumption DEF GetUnlock, IInv, TypeOK, Bounds, Ruled, Broken, Answered, Rest, Spinning, NoneFailed, NoRule
  <1>19. CASE Join
    BY <1>19, ComAssumption DEF Join, IInv, TypeOK, Bounds, Ruled, Broken, Answered, Rest, Spinning, NoneFailed, NoRule
  <1>20. CASE SlaveLock
    BY <1>20, ComAssumption DEF SlaveLock, SlaveBody, IInv, TypeOK, Bounds, Ruled, Broken, Answered, Rest, Spinning, NoneFailed, NoRule
  <1>21. CASE SlaveSignal
    BY <1>21, ComAssumption DEF SlaveSignal, SlaveSignalled, Woken, IInv, TypeOK, Bounds, Ruled, Broken, Answered, Rest, Spinning, NoneFailed, NoRule
  <1>22. CASE SlaveUnlock
    BY <1>22, ComAssumption DEF SlaveUnlock, SlaveUnlocked, IInv, TypeOK, Bounds, Ruled, Broken, Answered, Rest, Spinning, NoneFailed, NoRule
  <1>23. CASE Check
    BY <1>23, ComAssumption DEF Check, Commanded, Cmds, IInv, TypeOK, Bounds, Ruled, Broken, Answered, Rest, Spinning, NoneFailed, NoRule
  <1>24. CASE Ready
    BY <1>24, ComAssumption DEF Ready, IInv, TypeOK, Bounds, Ruled, Broken, Answered, Rest, Spinning, NoneFailed, NoRule
  <1>25. CASE ResetCmd
    BY <1>25, ComAssumption DEF ResetCmd, IInv, TypeOK, Bounds, Ruled, Broken, Answered, Rest, Spinning, NoneFailed, NoRule
  <1>26. CASE TakeRule
    BY <1>26, ComAssumption DEF TakeRule, IInv, TypeOK, Bounds, Ruled, Broken, Answered, Rest, Spinning, NoneFailed, NoRule
  <1>27. CASE DoTraverse
    BY <1>27, ComAssumption DEF DoTraverse, IInv, TypeOK, Bounds, Ruled, Broken, Answered, Rest, Spinning, NoneFailed, NoRule
  <1>28. CASE Apply
    BY <1>28, ComAssumption DEF Apply, IInv, TypeOK, Bounds, Ruled, Broken, Answered, Rest, Spinning, NoneFailed, NoRule
  <1>29. CASE MainCmd
    BY <1>29, ComAssumption DEF MainCmd, MainCommanded, Cmds, IInv, TypeOK, Bounds, Ruled, Broken, Answered, Rest, Spinning, NoneFailed, NoRule
  <1>30. CASE MainNext
    BY <1>30, ComAssumption DEF MainNext, IInv, TypeOK, Bounds, Ruled, Broken, Answered, Rest, Spinning, NoneFailed, NoRule
  <1>31. CASE MainWait
    BY <1>31, ComAssumption DEF MainWait, IInv, TypeOK, Bounds, Ruled, Broken, Answered, Rest, Spinning, NoneFailed, NoRule
  <1>32. CASE MainReturn
    BY <1>32, ComAssumption DEF MainReturn, IInv, TypeOK, Bounds, Ruled, Broken, Answered, Rest, Spinning, NoneFailed, NoRule
  <1>33. CASE Fini
    BY <1>33, ComAssumption DEF Fini, IInv, TypeOK, Bounds, Ruled, Broken, Answered, Rest, Spinning, NoneFailed, NoRule
  <1>34. CASE SetFinished
    BY <1>34, ComAssumption DEF SetFinished, IInv, TypeOK, Bounds, Ruled, Broken, Answered, Rest, Spinning, NoneFailed, NoRule
  <1>35. CASE Ended \/ UNCHANGED vars
    BY <1>35 DEF Ended, IInv, TypeOK, Bounds, Ruled, Broken, Answered, Rest, Spinning, NoneFailed
  <1> QED
    BY <1>1, <1>2, <1>3, <1>4, <1>5, <1>6, <1>7, <1>8, <1>9, <1>10, <1>11, <1>12, <1>13, <1>14, <1>15, <1>16, <1>17, <1>18, <1>19, <1>20, <1>21, <1>22, <1>23, <1>24, <1>25, <1>26, <1>27, <1>28, <1>29, <1>30, <1>31, <1>32, <1>33, <1>34, <1>35 DEF Next, Master, Slave

LEMMA OwnStep == IInv /\ [Next]_vars => Own'
  <1> SUFFICES ASSUME IInv, [Next]_vars PROVE Own'
    OBVIOUS
  <1>1. CASE Command
    BY <1>1, ComAssumption DEF Command, IInv, TypeOK, Bounds, Ruled, Broken, Own, Answered, Rest, Mid, Seeking, Handed, Asking, Spinning, NoneFailed, NoRule, NoObj
  <1>2. CASE Leave
    BY <1>2, ComAssumption DEF Leave, IInv, TypeOK, Bounds, Ruled, Broken, Own, Answered, Rest, Mid, Seeking, Handed, Asking, Spinning, NoneFailed, NoRule, NoObj
  <1>3. CASE MasterLock
    BY <1>3, ComAssumption DEF MasterLock, MasterBody, IInv, TypeOK, Bounds, Ruled, Broken, Own, Answered, Rest, Mid, Seeking, Handed, Asking, Spinning, NoneFailed, NoRule, NoObj
  <1>4. CASE MasterSignal
    BY <1>4, ComAssumption DEF MasterSignal, MasterSignalled, Woken, IInv, TypeOK, Bounds, Ruled, Broken, Own, Answered, Rest, Mid, Seeking, Handed, Asking, Spinning, NoneFailed, NoRule, NoObj
  <1>5. CASE MasterUnlock
    BY <1>5, ComAssumption DEF MasterUnlock, MasterUnlocked, IInv, TypeOK, Bounds, Ruled, Broken, Own, Answered, Rest, Mid, Seeking, Handed, Asking, Spinning, NoneFailed, NoRule, NoObj
  <1>6. CASE Break
    BY <1>6, ComAssumption DEF Break, IInv, TypeOK, Bounds, Ruled, Broken, Own, Answered, Rest, Mid, Seeking, Handed, Asking, Spinning, NoneFailed, NoRule, NoObj
  <1>7. CASE Spin
    BY <1>7, ComAssumption DEF Spin, IInv, TypeOK, Bounds, Ruled, Broken, Own, Answered, Rest, Mid, Seeking, Handed, Asking, Spinning, NoneFailed, NoRule, NoObj
  <1>8. CASE Broke
    BY <1>8, ComAssumption DEF Broke, IInv, TypeOK, Bounds, Ruled, Broken, Own, Answered, Rest, Mid, Seeking, Handed, Asking, Spinning, NoneFailed, NoRule, NoObj
  <1>9. CASE Reject
    BY <1>9, ComAssumption DEF Reject, IInv, TypeOK, Bounds, Ruled, Broken, Own, Answered, Rest, Mid, Seeking, Handed, Asking, Spinning, NoneFailed, NoRule, NoObj
  <1>10. CASE NewRule
    BY <1>10, ComAssumption DEF NewRule, IInv, TypeOK, Bounds, Ruled, Broken, Own, Answered, Rest, Mid, Seeking, Handed, Asking, Spinning, NoneFailed, NoRule, NoObj
  <1>11. CASE Traverse
    BY <1>11, ComAssumption DEF Traverse, IInv, TypeOK, Bounds, Ruled, Broken, Own, Answered, Rest, Mid, Seeking, Handed, Asking, Spinning, NoneFailed, NoRule, NoObj
  <1>12. CASE NextRequest
    BY <1>12, ComAssumption DEF NextRequest, IInv, TypeOK, Bounds, Ruled, Broken, Own, Answered, Rest, Mid, Seeking, Handed, Asking, Spinning, NoneFailed, NoRule, NoObj
  <1>13. CASE Exit
    BY <1>13, ComAssumption DEF Exit, IInv, TypeOK, Bounds, Ruled, Broken, Own, Answered, Rest, Mid, Seeking, Handed, Asking, Spinning, NoneFailed, NoRule, NoObj
  <1>14. CASE NextAnswer
    BY <1>14, ComAssumption DEF NextAnswer, IInv, TypeOK, Bounds, Ruled, Broken, Own, Answered, Rest, Mid, Seeking, Handed, Asking, Spinning, NoneFailed, NoRule, NoObj
  <1>15. CASE NextSleep
    BY <1>15, ComAssumption DEF NextSleep, IInv, TypeOK, Bounds, Ruled, Broken, Own, Answered, Rest, Mid, Seeking, Handed, Asking, Spinning, NoneFailed, NoRule, NoObj
  <1>16. CASE GetObject
    BY <1>16, ComAssumption DEF GetObject, IInv, TypeOK, Bounds, Ruled, Broken, Own, Answered, Rest, Mid, Seeking, Handed, Asking, Spinning, NoneFailed, NoRule, NoObj
  <1>17. CASE ResetAnswer
    BY <1>17, ComAssumption DEF ResetAnswer, IInv, TypeOK, Bounds, Ruled, Broken, Own, Answered, Rest, Mid, Seeking, Handed, Asking, Spinning, NoneFailed, NoRule, NoObj
  <1>18. CASE GetUnlock
    BY <1>18, ComAssumption DEF GetUnlock, IInv, TypeOK, Bounds, Ruled, Broken, Own, Answered, Rest, Mid, Seeking, Handed, Asking, Spinning, NoneFailed, NoRule, NoObj
  <1>19. CASE Join
    BY <1>19, ComAssumption DEF Join, IInv, TypeOK, Bounds, Ruled, Broken, Own, Answered, Rest, Mid, Seeking, Handed, Asking, Spinning, NoneFailed, NoRule, NoObj
  <1>20. CASE SlaveLock
    BY <1>20, ComAssumption DEF SlaveLock, SlaveBody, IInv, TypeOK, Bounds, Ruled, Broken, Own, Answered, Rest, Mid, Seeking, Handed, Asking, Spinning, NoneFailed, NoRule, NoObj
  <1>21. CASE SlaveSignal
    BY <1>21, ComAssumption DEF SlaveSignal, SlaveSignalled, Woken, IInv, TypeOK, Bounds, Ruled, Broken, Own, Answered, Rest, Mid, Seeking, Handed, Asking, Spinning, NoneFailed, NoRule, NoObj
  <1>22. CASE SlaveUnlock
    BY <1>22, ComAssumption DEF SlaveUnlock, SlaveUnlocked, IInv, TypeOK, Bounds, Ruled, Broken, Own, Answered, Rest, Mid, Seeking, Handed, Asking, Spinning, NoneFailed, NoRule, NoObj
  <1>23. CASE Check
    BY <1>23, ComAssumption DEF Check, Commanded, Cmds, IInv, TypeOK, Bounds, Ruled, Broken, Own, Answered, Rest, Mid, Seeking, Handed, Asking, Spinning, NoneFailed, NoRule, NoObj
  <1>24. CASE Ready
    BY <1>24, ComAssumption DEF Ready, IInv, TypeOK, Bounds, Ruled, Broken, Own, Answered, Rest, Mid, Seeking, Handed, Asking, Spinning, NoneFailed, NoRule, NoObj
  <1>25. CASE ResetCmd
    BY <1>25, ComAssumption DEF ResetCmd, IInv, TypeOK, Bounds, Ruled, Broken, Own, Answered, Rest, Mid, Seeking, Handed, Asking, Spinning, NoneFailed, NoRule, NoObj
  <1>26. CASE TakeRule
    BY <1>26, ComAssumption DEF TakeRule, IInv, TypeOK, Bounds, Ruled, Broken, Own, Answered, Rest, Mid, Seeking, Handed, Asking, Spinning, NoneFailed, NoRule, NoObj
  <1>27. CASE DoTraverse
    BY <1>27, ComAssumption DEF DoTraverse, IInv, TypeOK, Bounds, Ruled, Broken, Own, Answered, Rest, Mid, Seeking, Handed, Asking, Spinning, NoneFailed, NoRule, NoObj
  <1>28. CASE Apply
    BY <1>28, ComAssumption DEF Apply, IInv, TypeOK, Bounds, Ruled, Broken, Own, Answered, Rest, Mid, Seeking, Handed, Asking, Spinning, NoneFailed, NoRule, NoObj
  <1>29. CASE MainCmd
    BY <1>29, ComAssumption DEF MainCmd, MainCommanded, Cmds, IInv, TypeOK, Bounds, Ruled, Broken, Own, Answered, Rest, Mid, Seeking, Handed, Asking, Spinning, NoneFailed, NoRule, NoObj
  <1>30. CASE MainNext
    BY <1>30, ComAssumption DEF MainNext, IInv, TypeOK, Bounds, Ruled, Broken, Own, Answered, Rest, Mid, Seeking, Handed, Asking, Spinning, NoneFailed, NoRule, NoObj
  <1>31. CASE MainWait
    BY <1>31, ComAssumption DEF MainWait, IInv, TypeOK, Bounds, Ruled, Broken, Own, Answered, Rest, Mid, Seeking, Handed, Asking, Spinning, NoneFailed, NoRule, NoObj
  <1>32. CASE MainReturn
    BY <1>32, ComAssumption DEF MainReturn, IInv, TypeOK, Bounds, Ruled, Broken, Own, Answered, Rest, Mid, Seeking, Handed, Asking, Spinning, NoneFailed, NoRule, NoObj
  <1>33. CASE Fini
    BY <1>33, ComAssumption DEF Fini, IInv, TypeOK, Bounds, Ruled, Broken, Own, Answered, Rest, Mid, Seeking, Handed, Asking, Spinning, NoneFailed, NoRule, NoObj
  <1>34. CASE SetFinished
    BY <1>34, ComAssumption DEF SetFinished, IInv, TypeOK, Bounds, Ruled, Broken, Own, Answered, Rest, Mid, Seeking, Handed, Asking, Spinning, NoneFailed, NoRule, NoObj
  <1>35. CASE Ended \/ UNCHANGED vars
    BY <1>35 DEF Ended, IInv, TypeOK, Bounds, Ruled, Broken, Own, Answered, Rest, Mid, Seeking, Handed, Asking, Spinning, NoneFailed
  <1> QED
    BY <1>1, <1>2, <1>3, <1>4, <1>5, <1>6, <1>7, <1>8, <1>9, <1>10, <1>11, <1>12, <1>13, <1>14, <1>15, <1>16, <1>17, <1>18, <1>19, <1>20, <1>21, <1>22, <1>23, <1>24, <1>25, <1>26, <1>27, <1>28, <1>29, <1>30, <1>31, <1>32, <1>33, <1>34, <1>35 DEF Next, Master, Slave

\* Own does not mention the mutex; First needs it.
LEMMA FirstStep == IInv /\ First /\ [Next]_vars => First'
  <1> SUFFICES ASSUME IInv, First, [Next]_vars PROVE First'
    OBVIOUS
  <1>1. CASE Command
    BY <1>1, ComAssumption DEF Command, IInv, TypeOK, Bounds, Locked, First, Early, FirstRule, MasterSection, SlaveSection, Rest, Seeking, Handed, Spinning, NoRule, NoObj
  <1>2. CASE Leave
    BY <1>2, ComAssumption DEF Leave, IInv, TypeOK, Bounds, Locked, First, Early, FirstRule, MasterSection, SlaveSection, Rest, Seeking, Handed, Spinning, NoRule, NoObj
  <1>3. CASE MasterLock
    BY <1>3, ComAssumption DEF MasterLock, MasterBody, IInv, TypeOK, Bounds, Locked, First, Early, FirstRule, MasterSection, SlaveSection, Rest, Seeking, Handed, Spinning, NoRule, NoObj
  <1>4. CASE MasterSignal
    BY <1>4, ComAssumption DEF MasterSignal, MasterSignalled, Woken, IInv, TypeOK, Bounds, Locked, First, Early, FirstRule, MasterSection, SlaveSection, Rest, Seeking, Handed, Spinning, NoRule, NoObj
  <1>5. CASE MasterUnlock
    BY <1>5, ComAssumption DEF MasterUnlock, MasterUnlocked, IInv, TypeOK, Bounds, Locked, First, Early, FirstRule, MasterSection, SlaveSection, Rest, Seeking, Handed, Spinning, NoRule, NoObj
  <1>6. CASE Break
    BY <1>6, ComAssumption DEF Break, IInv, TypeOK, Bounds, Locked, First, Early, FirstRule, MasterSection, SlaveSection, Rest, Seeking, Handed, Spinning, NoRule, NoObj
  <1>7. CASE Spin
    BY <1>7, ComAssumption DEF Spin, IInv, TypeOK, Bounds, Locked, First, Early, FirstRule, MasterSection, SlaveSection, Rest, Seeking, Handed, Spinning, NoRule, NoObj
  <1>8. CASE Broke
    BY <1>8, ComAssumption DEF Broke, IInv, TypeOK, Bounds, Locked, First, Early, FirstRule, MasterSection, SlaveSection, Rest, Seeking, Handed, Spinning, NoRule, NoObj
  <1>9. CASE Reject
    BY <1>9, ComAssumption DEF Reject, IInv, TypeOK, Bounds, Locked, First, Early, FirstRule, MasterSection, SlaveSection, Rest, Seeking, Handed, Spinning, NoRule, NoObj
  <1>10. CASE NewRule
    BY <1>10, ComAssumption DEF NewRule, IInv, TypeOK, Bounds, Locked, First, Early, FirstRule, MasterSection, SlaveSection, Rest, Seeking, Handed, Spinning, NoRule, NoObj
  <1>11. CASE Traverse
    <2> SUFFICES ASSUME Early' PROVE First'
      BY DEF First
    <2>1. /\ mpc = "trav2" /\ mpc' = "trav3" /\ slave_cmd' = "TRAVERSE"
          /\ UNCHANGED <<master_cmd, o, tc_r, r, nrules, freed, got, spc, rule, nr, stodo, mtodo>>
      BY <1>11 DEF Traverse
    <2>2. Early
      BY <2>1 DEF Early, FirstRule, Spinning
    <2>3. tc_r = r /\ spc \in Rest /\ got = 0 /\ master_cmd # "NEXT"
      BY <2>1, <2>2 DEF First, Rest, Handed
    <2>4. nrules # 0
      BY <2>1 DEF IInv, Bounds
    <2> QED BY <2>1, <2>3, <2>4 DEF First, Rest, Seeking, Handed
  <1>12. CASE NextRequest
    BY <1>12, ComAssumption DEF NextRequest, IInv, TypeOK, Bounds, Locked, First, Early, FirstRule, MasterSection, SlaveSection, Rest, Seeking, Handed, Spinning, NoRule, NoObj
  <1>13. CASE Exit
    BY <1>13, ComAssumption DEF Exit, IInv, TypeOK, Bounds, Locked, First, Early, FirstRule, MasterSection, SlaveSection, Rest, Seeking, Handed, Spinning, NoRule, NoObj
  <1>14. CASE NextAnswer
    BY <1>14, ComAssumption DEF NextAnswer, IInv, TypeOK, Bounds, Locked, First, Early, FirstRule, MasterSection, SlaveSection, Rest, Seeking, Handed, Spinning, NoRule, NoObj
  <1>15. CASE NextSleep
    BY <1>15, ComAssumption DEF NextSleep, IInv, TypeOK, Bounds, Locked, First, Early, FirstRule, MasterSection, SlaveSection, Rest, Seeking, Handed, Spinning, NoRule, NoObj
  <1>16. CASE GetObject
    BY <1>16, ComAssumption DEF GetObject, IInv, TypeOK, Bounds, Locked, First, Early, FirstRule, MasterSection, SlaveSection, Rest, Seeking, Handed, Spinning, NoRule, NoObj
  <1>17. CASE ResetAnswer
    BY <1>17, ComAssumption DEF ResetAnswer, IInv, TypeOK, Bounds, Locked, First, Early, FirstRule, MasterSection, SlaveSection, Rest, Seeking, Handed, Spinning, NoRule, NoObj
  <1>18. CASE GetUnlock
    BY <1>18, ComAssumption DEF GetUnlock, IInv, TypeOK, Bounds, Locked, First, Early, FirstRule, MasterSection, SlaveSection, Rest, Seeking, Handed, Spinning, NoRule, NoObj
  <1>19. CASE Join
    BY <1>19, ComAssumption DEF Join, IInv, TypeOK, Bounds, Locked, First, Early, FirstRule, MasterSection, SlaveSection, Rest, Seeking, Handed, Spinning, NoRule, NoObj
  <1>20. CASE SlaveLock
    BY <1>20, ComAssumption DEF SlaveLock, SlaveBody, IInv, TypeOK, Bounds, Locked, First, Early, FirstRule, MasterSection, SlaveSection, Rest, Seeking, Handed, Spinning, NoRule, NoObj
  <1>21. CASE SlaveSignal
    BY <1>21, ComAssumption DEF SlaveSignal, SlaveSignalled, Woken, IInv, TypeOK, Bounds, Locked, First, Early, FirstRule, MasterSection, SlaveSection, Rest, Seeking, Handed, Spinning, NoRule, NoObj
  <1>22. CASE SlaveUnlock
    BY <1>22, ComAssumption DEF SlaveUnlock, SlaveUnlocked, IInv, TypeOK, Bounds, Locked, First, Early, FirstRule, MasterSection, SlaveSection, Rest, Seeking, Handed, Spinning, NoRule, NoObj
  <1>23. CASE Check
    BY <1>23, ComAssumption DEF Check, Commanded, Cmds, IInv, TypeOK, Bounds, Locked, First, Early, FirstRule, MasterSection, SlaveSection, Rest, Seeking, Handed, Spinning, NoRule, NoObj
  <1>24. CASE Ready
    BY <1>24, ComAssumption DEF Ready, IInv, TypeOK, Bounds, Locked, First, Early, FirstRule, MasterSection, SlaveSection, Rest, Seeking, Handed, Spinning, NoRule, NoObj
  <1>25. CASE ResetCmd
    BY <1>25, ComAssumption DEF ResetCmd, IInv, TypeOK, Bounds, Locked, First, Early, FirstRule, MasterSection, SlaveSection, Rest, Seeking, Handed, Spinning, NoRule, NoObj
  <1>26. CASE TakeRule
    BY <1>26, ComAssumption DEF TakeRule, IInv, TypeOK, Bounds, Locked, First, Early, FirstRule, MasterSection, SlaveSection, Rest, Seeking, Handed, Spinning, NoRule, NoObj
  <1>27. CASE DoTraverse
    BY <1>27, ComAssumption DEF DoTraverse, IInv, TypeOK, Bounds, Locked, First, Early, FirstRule, MasterSection, SlaveSection, Rest, Seeking, Handed, Spinning, NoRule, NoObj
  <1>28. CASE Apply
    BY <1>28, ComAssumption DEF Apply, IInv, TypeOK, Bounds, Locked, First, Early, FirstRule, MasterSection, SlaveSection, Rest, Seeking, Handed, Spinning, NoRule, NoObj
  <1>29. CASE MainCmd
    BY <1>29, ComAssumption DEF MainCmd, MainCommanded, Cmds, IInv, TypeOK, Bounds, Locked, First, Early, FirstRule, MasterSection, SlaveSection, Rest, Seeking, Handed, Spinning, NoRule, NoObj
  <1>30. CASE MainNext
    BY <1>30, ComAssumption DEF MainNext, IInv, TypeOK, Bounds, Locked, First, Early, FirstRule, MasterSection, SlaveSection, Rest, Seeking, Handed, Spinning, NoRule, NoObj
  <1>31. CASE MainWait
    BY <1>31, ComAssumption DEF MainWait, IInv, TypeOK, Bounds, Locked, First, Early, FirstRule, MasterSection, SlaveSection, Rest, Seeking, Handed, Spinning, NoRule, NoObj
  <1>32. CASE MainReturn
    BY <1>32, ComAssumption DEF MainReturn, IInv, TypeOK, Bounds, Locked, First, Early, FirstRule, MasterSection, SlaveSection, Rest, Seeking, Handed, Spinning, NoRule, NoObj
  <1>33. CASE Fini
    BY <1>33, ComAssumption DEF Fini, IInv, TypeOK, Bounds, Locked, First, Early, FirstRule, MasterSection, SlaveSection, Rest, Seeking, Handed, Spinning, NoRule, NoObj
  <1>34. CASE SetFinished
    BY <1>34, ComAssumption DEF SetFinished, IInv, TypeOK, Bounds, Locked, First, Early, FirstRule, MasterSection, SlaveSection, Rest, Seeking, Handed, Spinning, NoRule, NoObj
  <1>35. CASE Ended \/ UNCHANGED vars
    BY <1>35 DEF Ended, IInv, TypeOK, Bounds, Locked, First, Early, FirstRule, MasterSection, SlaveSection, Rest, Seeking, Handed, Spinning
  <1> QED
    BY <1>1, <1>2, <1>3, <1>4, <1>5, <1>6, <1>7, <1>8, <1>9, <1>10, <1>11, <1>12, <1>13, <1>14, <1>15, <1>16, <1>17, <1>18, <1>19, <1>20, <1>21, <1>22, <1>23, <1>24, <1>25, <1>26, <1>27, <1>28, <1>29, <1>30, <1>31, <1>32, <1>33, <1>34, <1>35 DEF Next, Master, Slave

LEMMA Invariance == Spec => [](IInv /\ First)
  <1>1. IInv /\ [Next]_vars => IInv'
    BY TypeStep, BoundsStep, FreshStep, LockedStep, RuledStep, BrokenStep, OwnStep DEF IInv
  <1> QED BY <1>1, InitInvariant, FirstStep, PTL DEF Spec

-----------------------------------------------------------------------------
(* The variables of the session keep their types: the number of the next     *)
(* object never runs past the end of the traversal, rules freed were created. *)
THEOREM TypeCorrect == Spec => []TypeOK
  <1>1. IInv => TypeOK
    BY DEF IInv
  <1> QED BY <1>1, Invariance, PTL

(* Until tc_break() unlocks a mutex it may not hold, the master and the slave *)
(* are never inside sections of the mutex at once.                           *)
THEOREM ExclusionHolds == Spec => []Exclusion
  <1>1. IInv => Exclusion
    BY DEF IInv, Locked, Exclusion, FirstRule, MasterSection, SlaveSection
  <1> QED BY <1>1, Invariance, PTL

(* With the first rule of a session the object that tc_next() takes is the   *)
(* one after the object it took before: none is skipped or repeated, for any *)
(* number of objects and however the two threads are scheduled.              *)
THEOREM InOrderHolds == Spec => InOrder
  <1> DEFINE InTurn == FirstRule /\ mpc = "get" /\ "o" \in mtodo => o = [rule |-> r, nr |-> got + 1]
  <1>1. IInv /\ First => InTurn
    <2> SUFFICES ASSUME IInv, First, FirstRule, mpc = "get", "o" \in mtodo
                 PROVE  o = [rule |-> r, nr |-> got + 1]
      OBVIOUS
    <2>1. o = [rule |-> r, nr |-> nr] /\ got = nr - 1
      BY DEF First, Early
    <2>2. got + 1 = nr
      BY <2>1 DEF IInv, TypeOK
    <2> QED BY <2>1, <2>2
  <1>2. InTurn => (FirstRule /\ Reads => o = [rule |-> r, nr |-> got + 1])
    BY DEF Reads
  <1>3. Spec => []InTurn
    BY <1>1, Invariance, PTL
  <1> QED BY <1>2, <1>3, PTL DEF InOrder

(* Unless init_rule() has failed, an object that the client receives was     *)
(* found by the client's own rule and is none of those before the last it    *)
(* has received, also when tc_break() has unlocked the mutex of the slave    *)
(* and the sections of the two overlap: this does not rest on the mutex.     *)
THEOREM OwnObjectsHolds == Spec => OwnObjects
  <1> DEFINE NotOld == NoneFailed /\ mpc = "get" /\ o # NoObj => o.rule = r /\ o.nr >= got
  <1>1. IInv => NotOld
    BY DEF IInv, TypeOK, Own
  <1>2. NotOld => (NoneFailed /\ Reads /\ o # NoObj => o.rule = r /\ o.nr >= got)
    BY DEF Reads
  <1>3. Spec => []NotOld
    BY <1>1, Invariance, PTL
  <1> QED BY <1>2, <1>3, PTL DEF OwnObjects

-----------------------------------------------------------------------------
(* RuleValid does not hold: tc_break() returns as soon as the slave has      *)
(* answered in act_ws_traverse_fini().  This is the part of it that does:    *)
(* until that answer the slave's rule is not a freed one.                    *)
ValidUntilFini == NoneFailed /\ Traversing /\ ~ Answered => rule \notin freed

(* Unless init_rule() has failed, the slave never traverses with a rule that *)
(* was freed: only between the answer of act_ws_traverse_fini() and the end  *)
(* of call_fini() can the rule be gone.                                      *)
THEOREM ValidUntilFiniHolds == Spec => []ValidUntilFini
  <1>1. IInv => ValidUntilFini
    BY DEF IInv, Ruled, Fresh, ValidUntilFini, Traversing
  <1> QED BY <1>1, Invariance, PTL
=============================================================================
