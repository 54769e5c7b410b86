------------------------------ MODULE QueryCache ------------------------------
(***************************************************************************)
(* The query cache of smrenderd (smrenderd/smcache.c) as the connection    *)
(* threads use it (qc_get_bbi() and its callers in smrenderd/smhttp.c): a  *)
(* request looks its bounding box up; on a miss it queries the database    *)
(* and puts the resulting object tree into a free entry, after removing    *)
(* the oldest unused entry if there is none; it works on the tree of its   *)
(* entry and releases the entry.                                           *)
(*                                                                         *)
(* Each section under mutex_ is one step.  The ages are the values of      *)
(* time(NULL), in seconds, so several steps may see the same time.  A      *)
(* thread's local variables are reset where they are no longer used.       *)
(*                                                                         *)
(* A tree is its address: once it is freed, any later query may get it,    *)
(* and a second free of it frees whatever tree is there by then.           *)
(***************************************************************************)
EXTENDS Integers, FiniteSets

CONSTANTS
  Clients,   \* connection threads
  Size,      \* MAX_CACHE
  BBoxes,    \* bounding boxes requested
  Trees,     \* addresses malloc() may give to the result of a query; bounds how
             \* many of them are live at once
  NoTree,    \* NULL
  MaxTime,   \* bounds the clock
  MaxLeaks   \* bounds how often fdopen() fails in http_map_bbox(), per entry

ASSUME CacheAssumption ==
  /\ IsFiniteSet(Clients)
  /\ Size \in Nat \ {0}
  /\ BBoxes # {}
  /\ NoTree \notin Trees
  /\ MaxTime \in Nat /\ MaxLeaks \in Nat

Slots == 0 .. Size - 1

VARIABLES
  qc,      \* qc_[]: bb, tree, age (0: free) and ctr of every entry
  now,     \* time(NULL)
  mem,     \* "live" or "free", for every address of a tree
  pc,      \* where each thread is
  bb,      \* the bounding box it asks for
  tree,    \* its local tree: the query's result
  victim,  \* the tree qc_cleanup() is about to free
  slot,    \* the entry it works on, -1 if none
  leaked,  \* history: number of entries not released, per entry
  twice    \* history: qc_cleanup() has taken an entry that was free already

clientVars == <<pc, bb, tree, victim, slot>>
vars       == <<qc, now, mem, clientVars, leaked, twice>>

Box == CHOOSE b \in BBoxes : TRUE

Init ==
  /\ qc = [i \in Slots |-> [bb |-> Box, tree |-> NoTree, age |-> 0, ctr |-> 0]]
  /\ now = 1
  /\ mem = [t \in Trees |-> "free"]
  /\ pc = [c \in Clients |-> "idle"]
  /\ bb = [c \in Clients |-> Box]
  /\ tree = [c \in Clients |-> NoTree]
  /\ victim = [c \in Clients |-> NoTree]
  /\ slot = [c \in Clients |-> -1]
  /\ leaked = [i \in Slots |-> 0]
  /\ twice = FALSE

Tick == now < MaxTime /\ now' = now + 1 /\ UNCHANGED <<qc, mem, clientVars, leaked, twice>>

First(S, i) == i \in S /\ \A j \in S : i <= j

\* A request arrives; qc_lookup() returns the first entry in use with this box.
Hits(b) == {i \in Slots : qc[i].age # 0 /\ qc[i].bb = b}

Lookup(c, b) ==
  /\ pc[c] = "idle"
  /\ \/ /\ Hits(b) = {}
        /\ bb' = [bb EXCEPT ![c] = b]
        /\ pc' = [pc EXCEPT ![c] = "query"]
        /\ UNCHANGED <<qc, slot>>
     \/ \E i \in Slots :
          /\ First(Hits(b), i)
          /\ qc' = [qc EXCEPT ![i].age = now, ![i].ctr = @ + 1]
          /\ slot' = [slot EXCEPT ![c] = i]
          /\ pc' = [pc EXCEPT ![c] = "use"]
          /\ UNCHANGED bb
  /\ UNCHANGED <<now, mem, tree, victim, leaked, twice>>

\* get_obj_bb() builds a tree at any free address, or fails.
Query(c) ==
  /\ pc[c] = "query"
  /\ \E t \in Trees :
       /\ mem[t] = "free"
       /\ mem' = [mem EXCEPT ![t] = "live"]
       /\ tree' = [tree EXCEPT ![c] = t]
  /\ pc' = [pc EXCEPT ![c] = "put"]
  /\ UNCHANGED <<qc, now, bb, victim, slot, leaked, twice>>

QueryFails(c) ==
  /\ pc[c] = "query"
  /\ pc' = [pc EXCEPT ![c] = "idle"]
  /\ bb' = [bb EXCEPT ![c] = Box]
  /\ UNCHANGED <<qc, now, mem, tree, victim, slot, leaked, twice>>

\* qc_put(): the first free entry, NULL if there is none
FreeSlots == {i \in Slots : qc[i].age = 0}

\* Faulty variant: the counter of a new entry is left at 0.
PutUncounted(c) ==
  /\ pc[c] = "put"
  /\ \/ /\ FreeSlots = {}
        /\ pc' = [pc EXCEPT ![c] = "cleanup"]
        /\ UNCHANGED <<qc, slot, tree, bb>>
     \/ \E i \in Slots :
          /\ First(FreeSlots, i)
          /\ qc' = [qc EXCEPT ![i] = [bb |-> bb[c], tree |-> tree[c], age |-> now, ctr |-> 0]]
          /\ slot' = [slot EXCEPT ![c] = i]
          /\ tree' = [tree EXCEPT ![c] = NoTree]
          /\ bb' = [bb EXCEPT ![c] = Box]
          /\ pc' = [pc EXCEPT ![c] = "use"]
  /\ UNCHANGED <<now, mem, victim, leaked, twice>>

Put(c) ==
  /\ pc[c] = "put"
  /\ \/ /\ FreeSlots = {}
        /\ pc' = [pc EXCEPT ![c] = "cleanup"]
        /\ UNCHANGED <<qc, slot, tree, bb>>
     \/ \E i \in Slots :
          /\ First(FreeSlots, i)
          /\ qc' = [qc EXCEPT ![i] = [bb |-> bb[c], tree |-> tree[c], age |-> now, ctr |-> 1]]
          /\ slot' = [slot EXCEPT ![c] = i]
          /\ tree' = [tree EXCEPT ![c] = NoTree]
          /\ bb' = [bb EXCEPT ![c] = Box]
          /\ pc' = [pc EXCEPT ![c] = "use"]
  /\ UNCHANGED <<now, mem, victim, leaked, twice>>

\* Faulty variant: the oldest entry, used or not.
EvictableUsed == {i \in Slots : qc[i].age < now}

\* qc_oldest(): the first of the unused entries with the least age below now
Evictable == {i \in Slots : qc[i].ctr = 0 /\ qc[i].age < now}
Oldest(i) ==
  /\ i \in Evictable
  /\ \A j \in Evictable : qc[i].age < qc[j].age \/ (qc[i].age = qc[j].age /\ i <= j)

\* qc_cleanup(): sleep on cond_ as long as there is no such entry; mark the
\* entry free under the mutex; free after that what is at its address.
CleanupSleep(c) ==
  /\ pc[c] = "cleanup" /\ Evictable = {}
  /\ pc' = [pc EXCEPT ![c] = "sleep"]
  /\ UNCHANGED <<qc, now, mem, bb, tree, victim, slot, leaked, twice>>

CleanupMark(c) ==
  /\ pc[c] = "cleanup"
  /\ \E i \in Slots :
       /\ Oldest(i)
       /\ victim' = [victim EXCEPT ![c] = qc[i].tree]
       /\ qc' = [qc EXCEPT ![i].age = 0]
       /\ twice' = (twice \/ qc[i].age = 0)
  /\ pc' = [pc EXCEPT ![c] = "free"]
  /\ UNCHANGED <<now, mem, bb, tree, slot, leaked>>

CleanupFree(c) ==
  /\ pc[c] = "free"
  /\ mem' = [t \in Trees |-> IF t = victim[c] THEN "free" ELSE mem[t]]
  /\ victim' = [victim EXCEPT ![c] = NoTree]
  /\ pc' = [pc EXCEPT ![c] = "put"]
  /\ UNCHANGED <<qc, now, bb, tree, slot, leaked, twice>>

\* qc_release(): the last user of an entry signals one sleeping thread.
Sleeping == {c \in Clients : pc[c] = "sleep"}

Release(c) ==
  /\ pc[c] = "use"
  /\ qc' = [qc EXCEPT ![slot[c]].age = now, ![slot[c]].ctr = @ - 1]
  /\ slot' = [slot EXCEPT ![c] = -1]
  /\ \/ /\ qc[slot[c]].ctr # 1 \/ Sleeping = {}
        /\ pc' = [pc EXCEPT ![c] = "idle"]
     \/ /\ qc[slot[c]].ctr = 1
        /\ \E s \in Sleeping : pc' = [pc EXCEPT ![c] = "idle", ![s] = "cleanup"]
  /\ UNCHANGED <<now, mem, bb, tree, victim, leaked, twice>>

\* http_map_bbox() returns without qc_release() if fdopen() fails.
Leaks(i) == leaked[i] < MaxLeaks

Leak(c) ==
  /\ pc[c] = "use" /\ Leaks(slot[c])
  /\ leaked' = [leaked EXCEPT ![slot[c]] = @ + 1]
  /\ slot' = [slot EXCEPT ![c] = -1]
  /\ pc' = [pc EXCEPT ![c] = "idle"]
  /\ UNCHANGED <<qc, now, mem, bb, tree, victim, twice>>

\* What a thread does once it has a request
Proceed(c) ==
  \/ Query(c) \/ QueryFails(c) \/ Put(c)
  \/ CleanupSleep(c) \/ CleanupMark(c) \/ CleanupFree(c)
  \/ Release(c) \/ Leak(c)

Next == Tick \/ \E c \in Clients : (\E b \in BBoxes : Lookup(c, b)) \/ Proceed(c)

Spec == Init /\ [][Next]_vars

-----------------------------------------------------------------------------
TypeOK ==
  /\ qc \in [Slots -> [bb : BBoxes, tree : Trees \cup {NoTree}, age : Nat, ctr : Nat]]
  /\ now \in Nat \ {0}
  /\ mem \in [Trees -> {"live", "free"}]
  /\ pc \in [Clients -> {"idle", "query", "put", "cleanup", "sleep", "free", "use"}]
  /\ bb \in [Clients -> BBoxes]
  /\ tree \in [Clients -> Trees \cup {NoTree}]
  /\ victim \in [Clients -> Trees \cup {NoTree}]
  /\ slot \in [Clients -> Slots \cup {-1}]
  /\ leaked \in [Slots -> Nat]
  /\ twice \in BOOLEAN

Users(i) == {c \in Clients : pc[c] = "use" /\ slot[c] = i}

(* The usage counter is the number of threads that work on the entry (and of *)
(* those that left it without qc_release()): no entry is released twice and  *)
(* none is reused while its counter is still wrong.                          *)
CtrCountsUsers == \A i \in Slots : qc[i].ctr = Cardinality(Users(i)) + leaked[i]

(* A thread never works on a tree that was freed, although qc_cleanup()      *)
(* frees the tree after it has left the mutex and the address may be that of *)
(* a new tree at once; as long as no thread in qc_cleanup() has taken an     *)
(* entry that another one had taken and nobody had filled again.  After that *)
(* the second bx_free_tree() may hit any tree, so UsersSafe alone does not   *)
(* hold (run cache_double_free), although smcache.h says of an age of 0 that *)
(* "0 means cache free".                                                     *)
UsersSafe == \A c \in Clients : pc[c] = "use" => mem[qc[slot[c]].tree] = "live"
UseLiveTree == ~twice => UsersSafe

(* While a thread works on an entry, the entry keeps its box and its tree.   *)
EntryStable ==
  [][\A c \in Clients :
       pc[c] = "use" => /\ qc'[slot[c]].tree = qc[slot[c]].tree
                        /\ qc'[slot[c]].bb = qc[slot[c]].bb
                        /\ qc'[slot[c]].age # 0]_vars

=============================================================================
