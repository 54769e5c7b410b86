------------------------------- MODULE RuleRuns -------------------------------
(***************************************************************************)
(* What applying the rules promises, as long as the functions of the rules *)
(* return 0: the rules are applied one after the other; while a rule is    *)
(* applied each of its objects is given to its main function once, by any  *)
(* number of threads at a time, and the rule is finished when all of them  *)
(* are through.  After a SIGINT, and for a rule that is to be executed     *)
(* only once, objects may be left out.                                     *)
(***************************************************************************)
EXTENDS Naturals, Sequences

CONSTANTS Schedule, Once

VARIABLES k, applying, pending, active, stopped

runVars == <<k, applying, pending, active, stopped>>

Init ==
  /\ k = 1 /\ applying = FALSE
  /\ pending = {} /\ active = {} /\ stopped = FALSE

Start ==
  /\ ~applying /\ ~stopped /\ k <= Len(Schedule)
  /\ applying' = TRUE
  /\ pending' = Schedule[k].objs
  /\ UNCHANGED <<k, active, stopped>>

\* A worker begins with an object, and has done with it.
Begin(o) ==
  /\ pending' = pending \ {o}
  /\ active' = active \cup {o}
  /\ UNCHANGED <<k, applying, stopped>>

End(o) ==
  /\ active' = active \ {o}
  /\ UNCHANGED <<k, applying, pending, stopped>>

\* The main thread serves an object itself.
Serve(o) ==
  /\ pending' = pending \ {o}
  /\ UNCHANGED <<k, applying, active, stopped>>

LeaveOut ==
  /\ applying
  /\ stopped \/ Schedule[k].rule \in Once
  /\ pending' \in SUBSET pending
  /\ UNCHANGED <<k, applying, active, stopped>>

Finish ==
  /\ applying /\ pending = {} /\ active = {}
  /\ applying' = FALSE
  /\ k' = k + 1
  /\ UNCHANGED <<pending, active, stopped>>

Stop == ~stopped /\ stopped' = TRUE /\ UNCHANGED <<k, applying, pending, active>>

Step ==
  \/ Start \/ LeaveOut \/ Finish
  \/ \E o \in pending : Begin(o) \/ Serve(o)
  \/ \E o \in active : End(o)

Next == Step \/ Stop

\* Every application that begins comes to its end.
Spec == Init /\ [][Next]_runVars /\ WF_runVars(Step)
=============================================================================
