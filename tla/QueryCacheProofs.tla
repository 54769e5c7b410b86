--------------------------- MODULE QueryCacheProofs ---------------------------
(***************************************************************************)
(* Safety of the query cache, for any number of threads and entries, any   *)
(* boxes and any number of queries.                                        *)
(*                                                                         *)
(* That a thread works on a live tree is not inductive.  The invariant     *)
(* adds that a free entry has no users, and that, until an entry is taken  *)
(* twice, every live tree has one owner: an entry in use, the thread that  *)
(* has got it from a query and not put it yet, or the one about to free    *)
(* it.  An address that is given out again is live, so it has no owner.    *)
(***************************************************************************)
EXTENDS QueryCache, FiniteSetTheorems, TLAPS

SlotOfUser == \A c \in Clients : pc[c] = "use" <=> slot[c] # -1

FreeUnused == \A i \in Slots : qc[i].age = 0 => qc[i].ctr = 0

EntryLive == \A i \in Slots : qc[i].age # 0 => qc[i].tree \in Trees /\ mem[qc[i].tree] = "live"

OneEntry ==
  \A i, j \in Slots : i # j /\ qc[i].age # 0 /\ qc[j].age # 0 => qc[i].tree # qc[j].tree

VictimOwn ==
  \A c \in Clients : victim[c] \in Trees =>
    /\ mem[victim[c]] = "live"
    /\ \A i \in Slots : qc[i].age # 0 => qc[i].tree # victim[c]
    /\ \A d \in Clients : d # c => victim[d] # victim[c]

HandOwn ==
  \A c \in Clients : tree[c] \in Trees =>
    /\ mem[tree[c]] = "live"
    /\ \A i \in Slots : qc[i].age # 0 => qc[i].tree # tree[c]
    /\ \A d \in Clients : victim[d] # tree[c]
    /\ \A d \in Clients : d # c => tree[d] # tree[c]

\* Where a thread has a tree of its own in hands
Carries ==
  \A c \in Clients :
    /\ pc[c] \in {"put", "cleanup", "sleep", "free"} => tree[c] \in Trees
    /\ pc[c] # "free" => victim[c] = NoTree

\* Each address has one owner: an entry in use, or a thread that is about to
\* put it, or one that is about to free it.
Owned == EntryLive /\ OneEntry /\ VictimOwn /\ HandOwn

IInv ==
  /\ TypeOK /\ CtrCountsUsers /\ SlotOfUser /\ FreeUnused /\ Carries
  /\ ~twice => Owned

USE CacheAssumption DEF Slots

-----------------------------------------------------------------------------
LEMMA UsersFinite ==
  ASSUME NEW i
  PROVE  IsFiniteSet(Users(i)) /\ Cardinality(Users(i)) \in Nat
<1>1. Users(i) \in SUBSET Clients
  BY DEF Users
<1> QED
  BY <1>1, FS_Subset, FS_CardinalityType

\* The counter of an entry a thread works on is not 0, nor is its age.
LEMMA UsedEntry ==
  ASSUME IInv, NEW c \in Clients, pc[c] = "use"
  PROVE  /\ slot[c] \in Slots
         /\ qc[slot[c]].ctr # 0
         /\ qc[slot[c]].age # 0
<1>1. slot[c] \in Slots
  BY DEF IInv, SlotOfUser, TypeOK
<1>2. c \in Users(slot[c])
  BY DEF Users
<1>3. Cardinality(Users(slot[c])) # 0
  BY <1>2, UsersFinite, FS_EmptySet
<1>4. qc[slot[c]].ctr # 0
  BY <1>1, <1>3, UsersFinite, SMTT(40) DEF IInv, CtrCountsUsers, TypeOK
<1> QED
  BY <1>1, <1>4 DEF IInv, FreeUnused

\* The counters are right if no thread begins or ends to use an entry.
LEMMA SameUsers ==
  ASSUME IInv, UNCHANGED leaked,
         \A i \in Slots : qc'[i].ctr = qc[i].ctr,
         \A d \in Clients : pc'[d] = "use" <=> pc[d] = "use",
         \A d \in Clients : pc[d] = "use" => slot'[d] = slot[d]
  PROVE  CtrCountsUsers'
<1>1. \A i \in Slots : Users(i)' = Users(i)
  BY DEF Users
<1> QED
  BY <1>1 DEF IInv, CtrCountsUsers

\* They are right if one more thread uses one entry.
LEMMA OneMoreUser ==
  ASSUME IInv, UNCHANGED leaked, NEW c \in Clients, NEW i \in Slots, pc[c] # "use",
         pc' = [pc EXCEPT ![c] = "use"], slot' = [slot EXCEPT ![c] = i],
         qc'[i].ctr = qc[i].ctr + 1,
         \A j \in Slots : j # i => qc'[j].ctr = qc[j].ctr
  PROVE  CtrCountsUsers'
<1> SUFFICES ASSUME NEW j \in Slots
             PROVE  qc'[j].ctr = Cardinality(Users(j)') + leaked[j]
  BY DEF CtrCountsUsers
<1>1. qc[j].ctr = Cardinality(Users(j)) + leaked[j] /\ leaked[j] \in Nat
  BY DEF IInv, CtrCountsUsers, TypeOK
<1>2. pc \in [Clients -> {"idle", "query", "put", "cleanup", "sleep", "free", "use"}] /\ slot \in [Clients -> Slots \cup {-1}]
  BY DEF IInv, TypeOK
<1>3. CASE j = i
  <2>1. Users(j)' = Users(j) \cup {c}
    BY <1>2, <1>3 DEF Users
  <2>2. c \notin Users(j)
    BY DEF Users
  <2>3. Cardinality(Users(j)') = Cardinality(Users(j)) + 1
    BY <2>1, <2>2, UsersFinite, FS_AddElement
  <2> QED
    BY <1>1, <1>3, <2>3, UsersFinite
<1>4. CASE j # i
  <2>1. Users(j)' = Users(j)
    BY <1>2, <1>4 DEF Users
  <2> QED
    BY <1>1, <1>4, <2>1
<1> QED
  BY <1>3, <1>4

\* The users of the entries after one thread has left its entry
LEMMA OneUserLess ==
  ASSUME IInv, NEW c \in Clients, pc[c] = "use",
         slot' = [slot EXCEPT ![c] = -1],
         \A d \in Clients : pc'[d] = "use" <=> pc[d] = "use" /\ d # c
  PROVE  \A j \in Slots :
           Cardinality(Users(j)') = IF j = slot[c] THEN Cardinality(Users(j)) - 1 ELSE Cardinality(Users(j))
<1> SUFFICES ASSUME NEW j \in Slots
             PROVE  Cardinality(Users(j)') = IF j = slot[c] THEN Cardinality(Users(j)) - 1 ELSE Cardinality(Users(j))
  OBVIOUS
<1>1. slot \in [Clients -> Slots \cup {-1}]
  BY DEF IInv, TypeOK
<1>2. CASE j = slot[c]
  <2>1. Users(j)' = Users(j) \ {c} /\ c \in Users(j)
    BY <1>1, <1>2 DEF Users
  <2>2. IsFiniteSet(Users(j))
    BY UsersFinite
  <2>3. Cardinality(Users(j) \ {c}) = Cardinality(Users(j)) - 1
    BY ONLY <2>1, <2>2, FS_RemoveElement
  <2> QED
    BY ONLY <1>2, <2>1, <2>3
<1>3. CASE j # slot[c]
  <2>1. Users(j)' = Users(j)
    BY <1>1, <1>3 DEF Users
  <2> QED
    BY <1>3, <2>1
<1> QED
  BY <1>2, <1>3

-----------------------------------------------------------------------------
LEMMA InitInv == Init => IInv
<1> SUFFICES ASSUME Init PROVE IInv
  OBVIOUS
<1>1. Box \in BBoxes
  BY DEF Box
<1>2. TypeOK
  <2>1. twice \in BOOLEAN
    BY DEF Init
  <2> QED
    BY <1>1, <2>1 DEF Init, TypeOK
<1>3. CtrCountsUsers
  <2> SUFFICES ASSUME NEW i \in Slots
               PROVE  qc[i].ctr = Cardinality(Users(i)) + leaked[i]
    BY DEF CtrCountsUsers
  <2>1. Users(i) = {}
    BY DEF Init, Users
  <2>2. Cardinality(Users(i)) = 0
    BY <2>1, FS_EmptySet
  <2> QED
    BY <2>2 DEF Init
<1>4. SlotOfUser /\ FreeUnused /\ EntryLive
  BY DEF Init, SlotOfUser, FreeUnused, EntryLive
<1>5. Carries /\ OneEntry /\ VictimOwn /\ HandOwn
  BY DEF Init, Carries, OneEntry, VictimOwn, HandOwn
<1> QED
  BY <1>2, <1>3, <1>4, <1>5 DEF IInv, Owned

-----------------------------------------------------------------------------
\* The clock
LEMMA TickInv ==
  ASSUME IInv, Tick
  PROVE  IInv'
<1>1. TypeOK'
  <2>1. now' \in Nat \ {0}
    BY DEF Tick, IInv, TypeOK
  <2> QED
    BY <2>1 DEF Tick, clientVars, IInv, TypeOK
<1>2. CtrCountsUsers'
  BY SameUsers DEF Tick, clientVars, IInv, TypeOK
<1>3. SlotOfUser'
  BY DEF IInv, TypeOK, SlotOfUser, Tick, clientVars
<1>4. FreeUnused'
  BY DEF IInv, TypeOK, FreeUnused, Tick, clientVars
<1>5. Carries'
  BY DEF IInv, TypeOK, Tick, clientVars, Carries, SlotOfUser
<1>6. ASSUME ~twice'
      PROVE  Owned'
  <2>a. ~twice /\ Owned
    BY <1>6, SMTT(40) DEF IInv, TypeOK, Tick, clientVars
  <2>1. EntryLive'
    BY <2>a, SMTT(40) DEF IInv, TypeOK, Tick, clientVars, Owned, EntryLive, Carries, HandOwn, VictimOwn
  <2>2. OneEntry'
    BY <2>a DEF Owned, OneEntry, Tick, clientVars
  <2>3. VictimOwn'
    BY <2>a, SMTT(40) DEF IInv, TypeOK, Tick, clientVars, Owned, VictimOwn, HandOwn, EntryLive, OneEntry, Carries
  <2>4. HandOwn'
    BY <2>a, SMTT(40) DEF IInv, TypeOK, Tick, clientVars, Owned, HandOwn, EntryLive, VictimOwn, Carries
  <2> QED
    BY <2>1, <2>2, <2>3, <2>4 DEF Owned
<1> QED
  BY <1>1, <1>2, <1>3, <1>4, <1>5, <1>6 DEF IInv

\* qc_lookup() without a hit
LEMMA LookupMissInv ==
  ASSUME IInv, NEW c \in Clients, NEW b \in BBoxes, Lookup(c, b), UNCHANGED qc, pc' = [pc EXCEPT ![c] = "query"],
         bb' = [bb EXCEPT ![c] = b], UNCHANGED slot
  PROVE  IInv'
<1>1. TypeOK'
  BY DEF IInv, TypeOK, Lookup
<1>2. CtrCountsUsers'
  BY SameUsers DEF Lookup, IInv, TypeOK
<1>3. SlotOfUser'
  BY DEF IInv, TypeOK, SlotOfUser, Lookup
<1>4. FreeUnused'
  BY DEF IInv, TypeOK, FreeUnused, Lookup
<1>5. Carries'
  BY DEF IInv, TypeOK, Lookup, Carries, SlotOfUser
<1>6. ASSUME ~twice'
      PROVE  Owned'
  <2>a. ~twice /\ Owned
    BY <1>6, SMTT(40) DEF IInv, TypeOK, Lookup
  <2>1. EntryLive'
    BY <2>a, SMTT(40) DEF IInv, TypeOK, Lookup, Owned, EntryLive, Carries, HandOwn, VictimOwn
  <2>2. OneEntry'
    BY <2>a, SMTT(40) DEF IInv, TypeOK, Lookup, Owned, OneEntry, HandOwn, Carries
  <2>3. VictimOwn'
    BY <2>a, SMTT(40) DEF IInv, TypeOK, Lookup, Owned, VictimOwn, HandOwn, EntryLive, OneEntry, Carries
  <2>4. HandOwn'
    BY <2>a, SMTT(40) DEF IInv, TypeOK, Lookup, Owned, HandOwn, EntryLive, VictimOwn, Carries
  <2> QED
    BY <2>1, <2>2, <2>3, <2>4 DEF Owned
<1> QED
  BY <1>1, <1>2, <1>3, <1>4, <1>5, <1>6 DEF IInv

\* qc_lookup() with a hit
LEMMA LookupHitInv ==
  ASSUME IInv, NEW c \in Clients, NEW i \in Slots, pc[c] = "idle", qc[i].age # 0,
         qc' = [qc EXCEPT ![i].age = now, ![i].ctr = @ + 1], slot' = [slot EXCEPT ![c] = i],
         pc' = [pc EXCEPT ![c] = "use"], UNCHANGED <<bb, now, mem, tree, victim, leaked, twice>>
  PROVE  IInv'
<1> DEFINE Entry == [bb : BBoxes, tree : Trees \cup {NoTree}, age : Nat, ctr : Nat]
           aged == [qc EXCEPT ![i].age = now]
<1>a. qc \in [Slots -> Entry] /\ now \in Nat
  BY DEF IInv, TypeOK
<1>b. aged \in [Slots -> Entry] /\ \A j \in Slots : aged[j].ctr = qc[j].ctr
  BY <1>a
<1>c. qc' = [aged EXCEPT ![i].ctr = qc[i].ctr + 1]
  BY <1>a
<1>1. TypeOK'
  <2>1. qc' \in [Slots -> Entry]
    <3>1. qc[i].ctr + 1 \in Nat
      BY <1>a
    <3> HIDE DEF aged
    <3> QED
      BY <1>b, <1>c, <3>1
  <2> QED
    BY <2>1 DEF IInv, TypeOK
<1>2. CtrCountsUsers'
  <2>1. qc'[i].ctr = qc[i].ctr + 1 /\ \A j \in Slots : j # i => qc'[j].ctr = qc[j].ctr
    <3> HIDE DEF aged
    <3> QED
      BY <1>b, <1>c
  <2> QED
    BY <2>1, OneMoreUser
<1>3. SlotOfUser'
  BY DEF IInv, TypeOK, SlotOfUser
<1>4. FreeUnused'
  BY DEF IInv, TypeOK, FreeUnused
<1>5. Carries'
  BY DEF IInv, TypeOK, Carries, SlotOfUser
<1>6. ASSUME ~twice'
      PROVE  Owned'
  <2>a. ~twice /\ Owned
    BY <1>6, SMTT(40) DEF IInv, TypeOK
  <2>1. EntryLive'
    BY <2>a, SMTT(40) DEF IInv, TypeOK, Owned, EntryLive, Carries, HandOwn, VictimOwn
  <2>2. OneEntry'
    BY <2>a, SMTT(40) DEF IInv, TypeOK, Owned, OneEntry, HandOwn, Carries
  <2>3. VictimOwn'
    BY <2>a, SMTT(40) DEF IInv, TypeOK, Owned, VictimOwn, HandOwn, EntryLive, OneEntry, Carries
  <2>4. HandOwn'
    BY <2>a, SMTT(40) DEF IInv, TypeOK, Owned, HandOwn, EntryLive, VictimOwn, Carries
  <2> QED
    BY <2>1, <2>2, <2>3, <2>4 DEF Owned
<1> QED
  BY <1>1, <1>2, <1>3, <1>4, <1>5, <1>6 DEF IInv

\* get_obj_bb() builds a tree
LEMMA QueryInv ==
  ASSUME IInv, NEW c \in Clients, Query(c)
  PROVE  IInv'
<1>1. TypeOK'
  BY SMTT(40) DEF IInv, TypeOK, Query
<1>2. CtrCountsUsers'
  BY SameUsers DEF Query, IInv, TypeOK
<1>3. SlotOfUser'
  BY DEF IInv, TypeOK, SlotOfUser, Query
<1>4. FreeUnused'
  BY DEF IInv, TypeOK, FreeUnused, Query
<1>5. Carries'
  BY DEF IInv, TypeOK, Query, Carries, SlotOfUser
<1>6. ASSUME ~twice'
      PROVE  Owned'
  <2>a. ~twice /\ Owned
    BY <1>6, SMTT(40) DEF IInv, TypeOK, Query
  <2>1. EntryLive'
    BY <2>a, SMTT(40) DEF IInv, TypeOK, Query, Owned, EntryLive, Carries, HandOwn, VictimOwn
  <2>2. OneEntry'
    BY <2>a DEF Owned, OneEntry, Query
  <2>3. VictimOwn'
    BY <2>a, SMTT(40) DEF IInv, TypeOK, Query, Owned, VictimOwn, HandOwn, EntryLive, OneEntry, Carries
  <2>4. HandOwn'
    BY <2>a, SMTT(40) DEF IInv, TypeOK, Query, Owned, HandOwn, EntryLive, VictimOwn, Carries
  <2> QED
    BY <2>1, <2>2, <2>3, <2>4 DEF Owned
<1> QED
  BY <1>1, <1>2, <1>3, <1>4, <1>5, <1>6 DEF IInv

\* get_obj_bb() fails
LEMMA QueryFailsInv ==
  ASSUME IInv, NEW c \in Clients, QueryFails(c)
  PROVE  IInv'
<1>1. TypeOK'
  <2>1. Box \in BBoxes
    BY DEF Box
  <2> QED
    BY <2>1 DEF QueryFails, IInv, TypeOK
<1>2. CtrCountsUsers'
  BY SameUsers DEF QueryFails, IInv, TypeOK
<1>3. SlotOfUser'
  BY DEF IInv, TypeOK, SlotOfUser, QueryFails
<1>4. FreeUnused'
  BY DEF IInv, TypeOK, FreeUnused, QueryFails
<1>5. Carries'
  BY DEF IInv, TypeOK, QueryFails, Carries, SlotOfUser
<1>6. ASSUME ~twice'
      PROVE  Owned'
  <2>a. ~twice /\ Owned
    BY <1>6, SMTT(40) DEF IInv, TypeOK, QueryFails
  <2>1. EntryLive'
    BY <2>a, SMTT(40) DEF IInv, TypeOK, QueryFails, Owned, EntryLive, Carries, HandOwn, VictimOwn
  <2>2. OneEntry'
    BY <2>a DEF Owned, OneEntry, QueryFails
  <2>3. VictimOwn'
    BY <2>a, SMTT(40) DEF IInv, TypeOK, QueryFails, Owned, VictimOwn, HandOwn, EntryLive, OneEntry, Carries
  <2>4. HandOwn'
    BY <2>a, SMTT(40) DEF IInv, TypeOK, QueryFails, Owned, HandOwn, EntryLive, VictimOwn, Carries
  <2> QED
    BY <2>1, <2>2, <2>3, <2>4 DEF Owned
<1> QED
  BY <1>1, <1>2, <1>3, <1>4, <1>5, <1>6 DEF IInv

\* qc_put() without a free entry
LEMMA PutFullInv ==
  ASSUME IInv, NEW c \in Clients, pc[c] = "put", pc' = [pc EXCEPT ![c] = "cleanup"],
         UNCHANGED <<qc, slot, tree, bb, now, mem, victim, leaked, twice>>
  PROVE  IInv'
<1>1. TypeOK'
  BY DEF IInv, TypeOK
<1>2. CtrCountsUsers'
  BY SameUsers DEF IInv, TypeOK
<1>3. SlotOfUser'
  BY DEF IInv, TypeOK, SlotOfUser
<1>4. FreeUnused'
  BY DEF IInv, TypeOK, FreeUnused
<1>5. Carries'
  BY DEF IInv, TypeOK, Carries, SlotOfUser
<1>6. ASSUME ~twice'
      PROVE  Owned'
  <2>a. ~twice /\ Owned
    BY <1>6, SMTT(40) DEF IInv, TypeOK
  <2>1. EntryLive'
    BY <2>a, SMTT(40) DEF IInv, TypeOK, Owned, EntryLive, Carries, HandOwn, VictimOwn
  <2>2. OneEntry'
    BY <2>a, SMTT(40) DEF IInv, TypeOK, Owned, OneEntry, HandOwn, Carries
  <2>3. VictimOwn'
    BY <2>a, SMTT(40) DEF IInv, TypeOK, Owned, VictimOwn, HandOwn, EntryLive, OneEntry, Carries
  <2>4. HandOwn'
    BY <2>a, SMTT(40) DEF IInv, TypeOK, Owned, HandOwn, EntryLive, VictimOwn, Carries
  <2> QED
    BY <2>1, <2>2, <2>3, <2>4 DEF Owned
<1> QED
  BY <1>1, <1>2, <1>3, <1>4, <1>5, <1>6 DEF IInv

\* qc_put() with a free entry
LEMMA PutFreeInv ==
  ASSUME IInv, NEW c \in Clients, NEW i \in Slots, pc[c] = "put", qc[i].age = 0,
         qc' = [qc EXCEPT ![i] = [bb |-> bb[c], tree |-> tree[c], age |-> now, ctr |-> 1]],
         slot' = [slot EXCEPT ![c] = i], tree' = [tree EXCEPT ![c] = NoTree],
         bb' = [bb EXCEPT ![c] = Box], pc' = [pc EXCEPT ![c] = "use"],
         UNCHANGED <<now, mem, victim, leaked, twice>>
  PROVE  IInv'
<1>1. TypeOK'
  <2>1. Box \in BBoxes
    BY DEF Box
  <2> QED
    BY <2>1 DEF IInv, TypeOK
<1>2. CtrCountsUsers'
  <2>1. qc[i].ctr = 0
    BY DEF IInv, FreeUnused
  <2>2. qc'[i].ctr = qc[i].ctr + 1 /\ \A j \in Slots : j # i => qc'[j].ctr = qc[j].ctr
    BY <2>1 DEF IInv, TypeOK
  <2> QED
    BY <2>2, OneMoreUser DEF IInv, TypeOK
<1>3. SlotOfUser'
  BY DEF IInv, TypeOK, SlotOfUser
<1>4. FreeUnused'
  BY DEF IInv, TypeOK, FreeUnused
<1>5. Carries'
  BY DEF IInv, TypeOK, Carries, SlotOfUser
<1>6. ASSUME ~twice'
      PROVE  Owned'
  <2>a. ~twice /\ Owned
    BY <1>6, SMTT(40) DEF IInv, TypeOK
  <2>1. EntryLive'
    BY <2>a, SMTT(40) DEF IInv, TypeOK, Owned, EntryLive, Carries, HandOwn, VictimOwn
  <2>2. OneEntry'
    BY <2>a, SMTT(40) DEF IInv, TypeOK, Owned, OneEntry, HandOwn, Carries
  <2>3. VictimOwn'
    BY <2>a, SMTT(40) DEF IInv, TypeOK, Owned, VictimOwn, HandOwn, EntryLive, OneEntry, Carries
  <2>4. HandOwn'
    BY <2>a, SMTT(40) DEF IInv, TypeOK, Owned, HandOwn, EntryLive, VictimOwn, Carries
  <2> QED
    BY <2>1, <2>2, <2>3, <2>4 DEF Owned
<1> QED
  BY <1>1, <1>2, <1>3, <1>4, <1>5, <1>6 DEF IInv

\* qc_cleanup() waits
LEMMA CleanupSleepInv ==
  ASSUME IInv, NEW c \in Clients, CleanupSleep(c)
  PROVE  IInv'
<1>1. TypeOK'
  BY DEF IInv, TypeOK, CleanupSleep
<1>2. CtrCountsUsers'
  BY SameUsers DEF CleanupSleep, IInv, TypeOK
<1>3. SlotOfUser'
  BY DEF IInv, TypeOK, SlotOfUser, CleanupSleep
<1>4. FreeUnused'
  BY DEF IInv, TypeOK, FreeUnused, CleanupSleep
<1>5. Carries'
  BY DEF IInv, TypeOK, CleanupSleep, Carries, SlotOfUser
<1>6. ASSUME ~twice'
      PROVE  Owned'
  <2>a. ~twice /\ Owned
    BY <1>6, SMTT(40) DEF IInv, TypeOK, CleanupSleep
  <2>1. EntryLive'
    BY <2>a, SMTT(40) DEF IInv, TypeOK, CleanupSleep, Owned, EntryLive, Carries, HandOwn, VictimOwn
  <2>2. OneEntry'
    BY <2>a DEF Owned, OneEntry, CleanupSleep
  <2>3. VictimOwn'
    BY <2>a, SMTT(40) DEF IInv, TypeOK, CleanupSleep, Owned, VictimOwn, HandOwn, EntryLive, OneEntry, Carries
  <2>4. HandOwn'
    BY <2>a, SMTT(40) DEF IInv, TypeOK, CleanupSleep, Owned, HandOwn, EntryLive, VictimOwn, Carries
  <2> QED
    BY <2>1, <2>2, <2>3, <2>4 DEF Owned
<1> QED
  BY <1>1, <1>2, <1>3, <1>4, <1>5, <1>6 DEF IInv

\* qc_cleanup() takes the tree of an entry without users
LEMMA CleanupMarkInv ==
  ASSUME IInv, NEW c \in Clients, CleanupMark(c)
  PROVE  IInv'
<1>1. TypeOK'
  <2>0. PICK i \in Slots : victim' = [victim EXCEPT ![c] = qc[i].tree] /\ qc' = [qc EXCEPT ![i].age = 0]
    BY DEF CleanupMark
  <2>1. qc' \in [Slots -> [bb : BBoxes, tree : Trees \cup {NoTree}, age : Nat, ctr : Nat]]
    <3>1. qc \in [Slots -> [bb : BBoxes, tree : Trees \cup {NoTree}, age : Nat, ctr : Nat]]
      BY DEF IInv, TypeOK
    <3> QED
      BY ONLY <3>1, <2>0
  <2>2. victim' \in [Clients -> Trees \cup {NoTree}]
    <3>1. qc[i].tree \in Trees \cup {NoTree} /\ victim \in [Clients -> Trees \cup {NoTree}]
      BY DEF IInv, TypeOK
    <3> QED
      BY ONLY <3>1, <2>0
  <2> QED
    BY <2>1, <2>2 DEF CleanupMark, IInv, TypeOK
<1>2. CtrCountsUsers'
  BY SameUsers, SMTT(40) DEF CleanupMark, Oldest, Evictable, IInv, TypeOK
<1>3. SlotOfUser'
  BY DEF IInv, TypeOK, SlotOfUser, CleanupMark, Oldest, Evictable
<1>4. FreeUnused'
  BY DEF IInv, TypeOK, FreeUnused, CleanupMark, Oldest, Evictable
<1>5. Carries'
  BY DEF IInv, TypeOK, CleanupMark, Oldest, Evictable, Carries, SlotOfUser
<1>6. ASSUME ~twice'
      PROVE  Owned'
  <2>0. PICK i \in Slots : /\ Oldest(i) /\ victim' = [victim EXCEPT ![c] = qc[i].tree]
                          /\ qc' = [qc EXCEPT ![i].age = 0] /\ twice' = (twice \/ qc[i].age = 0)
    BY DEF CleanupMark
  <2>1. ~twice /\ qc[i].age # 0
    BY <1>6, <2>0
  <2>2. EntryLive /\ OneEntry /\ VictimOwn /\ HandOwn
    BY <2>1 DEF IInv, Owned
  <2>3. \A j \in Slots : qc'[j].tree = qc[j].tree /\ (qc'[j].age # 0 => (j # i /\ qc[j].age # 0))
    BY <2>0 DEF IInv, TypeOK
  <2>4. \A d \in Clients : victim'[d] = IF d = c THEN qc[i].tree ELSE victim[d]
    BY <2>0 DEF IInv, TypeOK
  <2>5. UNCHANGED <<mem, tree>>
    BY DEF CleanupMark
  <2>6. EntryLive' /\ OneEntry'
    <3>1. EntryLive'
      BY <2>2, <2>3, <2>5, Zenon DEF EntryLive
    <3>2. OneEntry'
      BY <2>2, <2>3, Zenon DEF OneEntry
    <3> QED
      BY <3>1, <3>2
  <2>7. VictimOwn'
    <3>1. qc[i].tree \in Trees /\ mem[qc[i].tree] = "live"
      BY <2>1, <2>2 DEF EntryLive
    <3>2. \A j \in Slots : qc'[j].age # 0 => qc'[j].tree # qc[i].tree
      BY <2>1, <2>2, <2>3, Zenon DEF OneEntry
    <3>3. \A d \in Clients : victim[d] # qc[i].tree
      BY <2>1, <2>2, <3>1 DEF VictimOwn
    <3> SUFFICES ASSUME NEW d \in Clients, victim'[d] \in Trees
                 PROVE  /\ mem[victim'[d]] = "live"
                        /\ \A j \in Slots : qc'[j].age # 0 => qc'[j].tree # victim'[d]
                        /\ \A e \in Clients : e # d => victim'[e] # victim'[d]
      BY <2>5 DEF VictimOwn
    <3>4. CASE d = c
      BY <2>4, <3>1, <3>2, <3>3, <3>4
    <3>5. CASE d # c
      BY <2>2, <2>3, <2>4, <3>3, <3>5, Zenon DEF VictimOwn
    <3> QED
      BY <3>4, <3>5
  <2>8. HandOwn'
    BY <2>1, <2>2, <2>3, <2>4, <2>5 DEF HandOwn
  <2> QED
    BY <2>6, <2>7, <2>8 DEF Owned
<1> QED
  BY <1>1, <1>2, <1>3, <1>4, <1>5, <1>6 DEF IInv

\* qc_cleanup() frees it
LEMMA CleanupFreeInv ==
  ASSUME IInv, NEW c \in Clients, CleanupFree(c)
  PROVE  IInv'
<1>1. TypeOK'
  BY DEF IInv, TypeOK, CleanupFree
<1>2. CtrCountsUsers'
  BY SameUsers DEF CleanupFree, IInv, TypeOK
<1>3. SlotOfUser'
  BY DEF IInv, TypeOK, SlotOfUser, CleanupFree
<1>4. FreeUnused'
  BY DEF IInv, TypeOK, FreeUnused, CleanupFree
<1>5. Carries'
  BY DEF IInv, TypeOK, CleanupFree, Carries, SlotOfUser
<1>6. ASSUME ~twice'
      PROVE  Owned'
  <2>a. ~twice /\ Owned
    BY <1>6, SMTT(40) DEF IInv, TypeOK, CleanupFree
  <2>1. EntryLive'
    BY <2>a, SMTT(40) DEF IInv, TypeOK, CleanupFree, Owned, EntryLive, Carries, HandOwn, VictimOwn
  <2>2. OneEntry'
    BY <2>a, SMTT(40) DEF IInv, TypeOK, CleanupFree, Owned, OneEntry, HandOwn, Carries
  <2>3. VictimOwn'
    BY <2>a, SMTT(40) DEF IInv, TypeOK, CleanupFree, Owned, VictimOwn, HandOwn, EntryLive, OneEntry, Carries
  <2>4. HandOwn'
    BY <2>a, SMTT(40) DEF IInv, TypeOK, CleanupFree, Owned, HandOwn, EntryLive, VictimOwn, Carries
  <2> QED
    BY <2>1, <2>2, <2>3, <2>4 DEF Owned
<1> QED
  BY <1>1, <1>2, <1>3, <1>4, <1>5, <1>6 DEF IInv

\* qc_release()
LEMMA ReleaseInv ==
  ASSUME IInv, NEW c \in Clients, Release(c)
  PROVE  IInv'
<1> DEFINE i == slot[c]
<1>a. i \in Slots /\ qc[i].ctr # 0 /\ qc[i].age # 0
  BY UsedEntry DEF Release
<1>b. /\ pc[c] = "use" /\ qc' = [qc EXCEPT ![i].age = now, ![i].ctr = @ - 1]
     /\ slot' = [slot EXCEPT ![c] = -1] /\ UNCHANGED <<now, mem, bb, tree, victim, leaked, twice>>
  BY DEF Release
<1>1. TypeOK'
  <2>1. qc[i].ctr - 1 \in Nat
    BY <1>a DEF IInv, TypeOK
  <2>2. qc' \in [Slots -> [bb : BBoxes, tree : Trees \cup {NoTree}, age : Nat, ctr : Nat]]
    <3>1. now \in Nat /\ qc \in [Slots -> [bb : BBoxes, tree : Trees \cup {NoTree}, age : Nat, ctr : Nat]]
      BY DEF IInv, TypeOK
    <3> DEFINE Entry == [bb : BBoxes, tree : Trees \cup {NoTree}, age : Nat, ctr : Nat]
               aged == [qc EXCEPT ![i].age = now]
    <3>2. aged \in [Slots -> Entry] /\ aged[i].ctr = qc[i].ctr
      BY <1>a, <3>1
    <3>3. qc' = [aged EXCEPT ![i].ctr = qc[i].ctr - 1]
      BY <1>a, <1>b, <3>1
    <3> HIDE DEF aged
    <3> QED
      BY <1>a, <2>1, <3>2, <3>3
  <2>3. pc' \in [Clients -> {"idle", "query", "put", "cleanup", "sleep", "free", "use"}]
    <3>1. pc' = [pc EXCEPT ![c] = "idle"] \/ \E s \in Sleeping : pc' = [pc EXCEPT ![c] = "idle", ![s] = "cleanup"]
      BY DEF Release
    <3>2. pc \in [Clients -> {"idle", "query", "put", "cleanup", "sleep", "free", "use"}]
      BY DEF IInv, TypeOK
    <3> QED
      BY <3>1, <3>2 DEF Sleeping
  <2>4. slot' \in [Clients -> Slots \cup {-1}]
    BY <1>b DEF IInv, TypeOK
  <2> QED
    BY <1>b, <2>2, <2>3, <2>4 DEF IInv, TypeOK
<1>2. CtrCountsUsers'
  <2>1. \A d \in Clients : pc'[d] = "use" <=> pc[d] = "use" /\ d # c
    BY DEF Release, Sleeping, IInv, TypeOK
  <2>2. \A j \in Slots : Cardinality(Users(j)') = IF j = i THEN Cardinality(Users(j)) - 1 ELSE Cardinality(Users(j))
    BY <1>b, <2>1, OneUserLess
  <2>3. \A j \in Slots : qc'[j].ctr = IF j = i THEN qc[j].ctr - 1 ELSE qc[j].ctr
    BY <1>a, <1>b DEF IInv, TypeOK
  <2> SUFFICES ASSUME NEW j \in Slots
               PROVE  qc'[j].ctr = Cardinality(Users(j)') + leaked[j]
    BY <1>b DEF CtrCountsUsers
  <2>4. qc[j].ctr = Cardinality(Users(j)) + leaked[j] /\ leaked[j] \in Nat
    BY DEF IInv, CtrCountsUsers, TypeOK
  <2> QED
    BY <2>2, <2>3, <2>4, UsersFinite
<1>3. SlotOfUser'
  BY <1>a, <1>b DEF IInv, TypeOK, SlotOfUser, Release, Sleeping
<1>4. FreeUnused'
  BY <1>a, <1>b DEF IInv, TypeOK, FreeUnused, Release, Sleeping
<1>5. Carries'
  BY <1>a, <1>b, SMTT(40) DEF IInv, TypeOK, Release, Sleeping, Carries, SlotOfUser
<1>6. ASSUME ~twice'
      PROVE  Owned'
  <2>a. ~twice /\ Owned
    BY <1>6, <1>a, <1>b, SMTT(40) DEF IInv, TypeOK, Release, Sleeping
  <2>1. EntryLive'
    BY <2>a, <1>a, <1>b, SMTT(40) DEF IInv, TypeOK, Release, Sleeping, Owned, EntryLive, Carries, HandOwn, VictimOwn
  <2>2. OneEntry'
    BY <2>a, <1>a, <1>b, SMTT(40) DEF IInv, TypeOK, Release, Sleeping, Owned, OneEntry, HandOwn, Carries
  <2>3. VictimOwn'
    BY <2>a, <1>a, <1>b, SMTT(40) DEF IInv, TypeOK, Release, Sleeping, Owned, VictimOwn, HandOwn, EntryLive, OneEntry, Carries
  <2>4. HandOwn'
    BY <2>a, <1>a, <1>b, SMTT(40) DEF IInv, TypeOK, Release, Sleeping, Owned, HandOwn, EntryLive, VictimOwn, Carries
  <2> QED
    BY <2>1, <2>2, <2>3, <2>4 DEF Owned
<1> QED
  BY <1>1, <1>2, <1>3, <1>4, <1>5, <1>6 DEF IInv

\* http_map_bbox() fails
LEMMA LeakInv ==
  ASSUME IInv, NEW c \in Clients, Leak(c)
  PROVE  IInv'
<1> DEFINE i == slot[c]
<1>a. i \in Slots /\ qc[i].ctr # 0 /\ qc[i].age # 0
  BY UsedEntry DEF Leak
<1>1. TypeOK'
  <2>1. leaked' \in [Slots -> Nat]
    <3>1. leaked' = [leaked EXCEPT ![i] = leaked[i] + 1] /\ leaked \in [Slots -> Nat]
      BY <1>a DEF Leak, IInv, TypeOK
    <3>2. leaked[i] + 1 \in Nat
      BY <1>a, <3>1
    <3> QED
      BY <3>1, <3>2
  <2> QED
    BY <2>1 DEF IInv, TypeOK, Leak
<1>2. CtrCountsUsers'
  <2>1. \A d \in Clients : pc'[d] = "use" <=> pc[d] = "use" /\ d # c
    BY DEF Leak, IInv, TypeOK
  <2>2. \A j \in Slots : Cardinality(Users(j)') = IF j = i THEN Cardinality(Users(j)) - 1 ELSE Cardinality(Users(j))
    BY <2>1, OneUserLess DEF Leak
  <2>3. \A j \in Slots : leaked'[j] = IF j = i THEN leaked[j] + 1 ELSE leaked[j]
    BY <1>a DEF Leak, IInv, TypeOK
  <2> SUFFICES ASSUME NEW j \in Slots
               PROVE  qc[j].ctr = Cardinality(Users(j)') + leaked'[j]
    BY DEF CtrCountsUsers, Leak
  <2>4. qc[j].ctr = Cardinality(Users(j)) + leaked[j] /\ leaked[j] \in Nat
    BY DEF IInv, CtrCountsUsers, TypeOK
  <2> QED
    BY <2>2, <2>3, <2>4, UsersFinite
<1>3. SlotOfUser'
  BY <1>a DEF IInv, TypeOK, SlotOfUser, Leak, Leaks
<1>4. FreeUnused'
  BY <1>a DEF IInv, TypeOK, FreeUnused, Leak, Leaks
<1>5. Carries'
  BY <1>a DEF IInv, TypeOK, Leak, Leaks, Carries, SlotOfUser
<1>6. ASSUME ~twice'
      PROVE  Owned'
  <2>a. ~twice /\ Owned
    BY <1>6, <1>a, SMTT(40) DEF IInv, TypeOK, Leak, Leaks
  <2>1. EntryLive'
    BY <2>a, <1>a, SMTT(40) DEF IInv, TypeOK, Leak, Leaks, Owned, EntryLive, Carries, HandOwn, VictimOwn
  <2>2. OneEntry'
    BY <2>a DEF Owned, OneEntry, Leak
  <2>3. VictimOwn'
    BY <2>a, <1>a, SMTT(40) DEF IInv, TypeOK, Leak, Leaks, Owned, VictimOwn, HandOwn, EntryLive, OneEntry, Carries
  <2>4. HandOwn'
    BY <2>a, <1>a, SMTT(40) DEF IInv, TypeOK, Leak, Leaks, Owned, HandOwn, EntryLive, VictimOwn, Carries
  <2> QED
    BY <2>1, <2>2, <2>3, <2>4 DEF Owned
<1> QED
  BY <1>1, <1>2, <1>3, <1>4, <1>5, <1>6 DEF IInv

-----------------------------------------------------------------------------
LEMMA NextInv ==
  ASSUME IInv, [Next]_vars
  PROVE  IInv'
<1>1. CASE Tick
  BY <1>1, TickInv
<1>2. ASSUME NEW c \in Clients, NEW b \in BBoxes, Lookup(c, b)
      PROVE  IInv'
  <2>1. CASE Hits(b) = {} /\ bb' = [bb EXCEPT ![c] = b] /\ pc' = [pc EXCEPT ![c] = "query"] /\ UNCHANGED <<qc, slot>>
    BY <1>2, <2>1, LookupMissInv DEF Lookup
  <2>2. ASSUME NEW i \in Slots, First(Hits(b), i),
               qc' = [qc EXCEPT ![i].age = now, ![i].ctr = @ + 1], slot' = [slot EXCEPT ![c] = i],
               pc' = [pc EXCEPT ![c] = "use"], UNCHANGED bb
        PROVE  IInv'
    <3>1. qc[i].age # 0
      BY <2>2 DEF First, Hits
    <3> QED
      BY <1>2, <2>2, <3>1, LookupHitInv DEF Lookup
  <2> QED
    BY <1>2, <2>1, <2>2 DEF Lookup
<1>3. ASSUME NEW c \in Clients, Proceed(c)
      PROVE  IInv'
  <2>1. CASE Query(c)
    BY <2>1, QueryInv
  <2>2. CASE QueryFails(c)
    BY <2>2, QueryFailsInv
  <2>3. CASE Put(c)
    <3>1. CASE FreeSlots = {} /\ pc' = [pc EXCEPT ![c] = "cleanup"] /\ UNCHANGED <<qc, slot, tree, bb>>
      BY <2>3, <3>1, PutFullInv DEF Put
    <3>2. ASSUME NEW i \in Slots, First(FreeSlots, i),
                 qc' = [qc EXCEPT ![i] = [bb |-> bb[c], tree |-> tree[c], age |-> now, ctr |-> 1]],
                 slot' = [slot EXCEPT ![c] = i], tree' = [tree EXCEPT ![c] = NoTree],
                 bb' = [bb EXCEPT ![c] = Box], pc' = [pc EXCEPT ![c] = "use"]
          PROVE  IInv'
      <4>1. qc[i].age = 0
        BY <3>2 DEF First, FreeSlots
      <4> QED
        BY <2>3, <3>2, <4>1, PutFreeInv DEF Put
    <3> QED
      BY <2>3, <3>1, <3>2 DEF Put
  <2>4. CASE CleanupSleep(c)
    BY <2>4, CleanupSleepInv
  <2>5. CASE CleanupMark(c)
    BY <2>5, CleanupMarkInv
  <2>6. CASE CleanupFree(c)
    BY <2>6, CleanupFreeInv
  <2>7. CASE Release(c)
    BY <2>7, ReleaseInv
  <2>8. CASE Leak(c)
    BY <2>8, LeakInv
  <2> QED
    BY <1>3, <2>1, <2>2, <2>3, <2>4, <2>5, <2>6, <2>7, <2>8 DEF Proceed
<1>4. CASE UNCHANGED vars
  <2>1. UNCHANGED <<qc, now, mem, pc, bb, tree, victim, slot, leaked, twice>>
    BY <1>4 DEF vars, clientVars
  <2>2. CtrCountsUsers'
    BY <2>1, SameUsers
  <2>3. TypeOK'
    BY <2>1 DEF IInv, TypeOK
  <2>4. SlotOfUser' /\ FreeUnused' /\ Carries'
    BY <2>1 DEF IInv, SlotOfUser, FreeUnused, Carries
  <2>5. ~twice' => Owned'
    BY <2>1 DEF IInv, Owned, EntryLive, OneEntry, VictimOwn, HandOwn
  <2> QED
    BY <2>2, <2>3, <2>4, <2>5 DEF IInv
<1> QED
  BY <1>1, <1>2, <1>3, <1>4 DEF Next

LEMMA Inductive == Spec => []IInv
<1> QED
  BY InitInv, NextInv, PTL DEF Spec

-----------------------------------------------------------------------------
(* The locals of the threads and the entries have the values the code gives  *)
(* them: the counter of an entry never gets negative, however often it is    *)
(* taken and released.                                                       *)
THEOREM TypeCorrect == Spec => []TypeOK
<1>1. IInv => TypeOK
  BY DEF IInv
<1> QED
  BY <1>1, Inductive, PTL

(* The counter of an entry is the number of the threads that work on it and  *)
(* of those that left it without qc_release().                               *)
THEOREM CountersRight == Spec => []CtrCountsUsers
<1>1. IInv => CtrCountsUsers
  BY DEF IInv
<1> QED
  BY <1>1, Inductive, PTL

(* Until qc_cleanup() takes an entry that is free already, no thread works   *)
(* on a tree that was freed, even if every freed address is given out again  *)
(* at once.                                                                  *)
THEOREM NoUseAfterFree == Spec => []UseLiveTree
<1>1. IInv => UseLiveTree
  <2> SUFFICES ASSUME IInv, ~twice, NEW c \in Clients, pc[c] = "use"
               PROVE  mem[qc[slot[c]].tree] = "live"
    BY DEF UseLiveTree, UsersSafe
  <2> QED
    BY UsedEntry DEF IInv, Owned, EntryLive
<1> QED
  BY <1>1, Inductive, PTL

(* The entry a thread works on is neither reused nor marked free by another  *)
(* thread, and keeps its box and its tree.                                   *)
THEOREM EntriesStable == Spec => EntryStable
<1> DEFINE Keeps(c) == /\ qc'[slot[c]].tree = qc[slot[c]].tree
                       /\ qc'[slot[c]].bb = qc[slot[c]].bb
                       /\ qc'[slot[c]].age # 0
<1>1. ASSUME IInv, [Next]_vars
      PROVE  [\A c \in Clients : pc[c] = "use" => Keeps(c)]_vars
  <2> SUFFICES ASSUME Next, NEW c \in Clients, pc[c] = "use"
               PROVE  Keeps(c)
    BY <1>1
  <2>1. slot[c] \in Slots /\ qc[slot[c]].ctr # 0 /\ qc[slot[c]].age # 0
    BY <1>1, UsedEntry
  <2>2. qc \in [Slots -> [bb : BBoxes, tree : Trees \cup {NoTree}, age : Nat, ctr : Nat]] /\ now # 0
    BY <1>1 DEF IInv, TypeOK
  <2>3. CASE UNCHANGED qc
    BY <2>1, <2>3
  <2>4. ASSUME NEW d \in Clients, NEW b \in BBoxes, Lookup(d, b)
        PROVE  Keeps(c)
    <3>1. CASE UNCHANGED qc
      BY <2>1, <3>1
    <3>2. ASSUME NEW i \in Slots, qc' = [qc EXCEPT ![i].age = now, ![i].ctr = @ + 1]
          PROVE  Keeps(c)
      <4>1. CASE slot[c] = i
        BY <2>1, <2>2, <3>2, <4>1
      <4>2. CASE slot[c] # i
        BY <2>1, <2>2, <3>2, <4>2
      <4> QED
        BY <4>1, <4>2
    <3> QED
      BY <2>4, <3>1, <3>2 DEF Lookup
  <2>5. ASSUME NEW d \in Clients, Put(d)
        PROVE  Keeps(c)
    BY <2>1, <2>2, <2>5 DEF Put, First, FreeSlots
  <2>6. ASSUME NEW d \in Clients, CleanupMark(d)
        PROVE  Keeps(c)
    BY <2>1, <2>2, <2>6 DEF CleanupMark, Oldest, Evictable
  <2>7. ASSUME NEW d \in Clients, Release(d)
        PROVE  Keeps(c)
    <3>1. slot[d] \in Slots
      BY <1>1, <2>7, UsedEntry DEF Release
    <3> QED
      BY <2>1, <2>2, <2>7, <3>1 DEF Release
  <2> QED
    BY <2>3, <2>4, <2>5, <2>6, <2>7
    DEF Next, Proceed, Tick, Query, QueryFails, CleanupSleep, CleanupFree, Leak
<1>2. Spec => [][Next]_vars
  BY PTL DEF Spec
<1> QED
  BY <1>1, <1>2, Inductive, PTL DEF EntryStable
=============================================================================
