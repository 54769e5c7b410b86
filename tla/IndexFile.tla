------------------------------- MODULE IndexFile -------------------------------
(***************************************************************************)
(* The index file of option -x: smindex.c and its use in smrender.c        *)
(* (lines 1234 to 1260).  A run of smrender reads its rules, maps the data *)
(* file and tries to read the index; if it cannot use it, it parses the    *)
(* data and writes the index again.  Several runs may work on the same     *)
(* files, the data file may be edited, a run may be killed between any two *)
(* system calls, and write(2) may fail.                                    *)
(*                                                                         *)
(* The file is a sequence of cells.  A cell is what one step of the writer *)
(* writes: the file header, a chunk header, a role or an object with its   *)
(* tags, references and members.  The statistics are part of the header of *)
(* their chunk.  A file hole reads as Zero, a piece whose write(2) failed  *)
(* half way as Torn.                                                       *)
(*                                                                         *)
(* Relation members refer to their role by its number in the role table of *)
(* the program (role_root_ in osm_func.c), and tags to their text by a     *)
(* pointer; the index keeps the number, and the offset of the pointer to   *)
(* the data file.  An object has at most one role here.                    *)
(*                                                                         *)
(* The length of a chunk is a long in the file, index_read_roles() and     *)
(* index_read_objs() take it as an int.                                    *)
(***************************************************************************)
EXTENDS Integers, Sequences, FiniteSets

CONSTANTS
  Runs,       \* runs of smrender, each is started once
  Order,      \* the objects' ids in the order of traverse(), by type
  Type,       \* IDX_NODE, IDX_WAY or IDX_REL of each id
  Data,       \* the data file: version -> id -> role
  DataRoles,  \* version -> sequence of its roles as they appear first
  RuleRoles,  \* run -> sequence of the roles that its rules have
  Made,       \* run -> ids of objects made by ini functions (action "grid")
  Unmapped,   \* the runs with option -m, which do not map the data file
  MaxInt,     \* most cells of a chunk whose length fits into an int
  NoRole,     \* ROLE_NA
  MaxFails    \* bounds the failures of write(2)

Range1(s) == {s[i] : i \in 1 .. Len(s)}
Ids == Range1(Order)

ASSUME IndexAssumption ==
  /\ Order \in Seq(Ids)
  /\ \A i, j \in 1 .. Len(Order) :
       i < j => Order[i] # Order[j] /\ Type[Order[i]] <= Type[Order[j]]
  /\ DOMAIN Data \subseteq Nat \ {0}
  /\ \A v \in DOMAIN Data : DOMAIN Data[v] \subseteq Ids
  /\ \A p \in Runs : Made[p] \subseteq Ids /\ \A v \in DOMAIN Data : Made[p] \cap DOMAIN Data[v] = {}
  /\ MaxFails \in Nat /\ MaxInt \in Nat

\* Roles that occur in the data are listed, and have names.
ASSUME RoleAssumption ==
  /\ \A p \in Runs : RuleRoles[p] \in Seq(Range1(RuleRoles[p]) \ {NoRole})
  /\ \A v \in DOMAIN Data :
       /\ DataRoles[v] \in Seq(Range1(DataRoles[v]) \ {NoRole})
       /\ \A id \in DOMAIN Data[v] : Data[v][id] \in Range1(DataRoles[v]) \cup {NoRole}

VARIABLES
  data,     \* current version of the data file
  file,     \* the index file: exists, cells, older (its mtime is less than the
            \* data file's), tainted (history: not written by one undisturbed run)
  fails,    \* failures of write(2) so far
  pc,       \* where each run is
  ver,      \* version of the data it has mapped
  roles,    \* its role table
  tree,     \* its object tree: id -> object
  pos,      \* the cell it reads or writes next
  size,     \* number of cells it has mapped (st_size)
  cnt,      \* vh.len of the chunk it writes
  spoilt    \* history: its index was tainted, changed while it was read, or
            \* had a chunk with more than MaxInt cells

run  == <<pc, ver, roles, tree, pos, size, cnt, spoilt>>
vars == <<data, file, fails, run>>

Hdr(dirty)  == [k |-> "hdr", dirty |-> dirty]
Chunk(t, n) == [k |-> "chunk", type |-> t, len |-> n]
Role(r)     == [k |-> "role", name |-> r]
Zero        == [k |-> "zero"]
Torn        == [k |-> "torn"]

\* Where the text of the tags is: in the mapped data of some version, in the
\* memory of the program, or where no text is.
InMem == 0
Wild  == -1

\* strrole() for each of rs: a role that is new is appended, one without a name
\* is skipped.
AddRoles(t, rs) ==
  LET upto[n \in 0 .. Len(rs)] ==
        IF n = 0 THEN t
        ELSE IF rs[n] \in Range1(upto[n - 1]) \cup {NoRole} THEN upto[n - 1]
        ELSE Append(upto[n - 1], rs[n])
  IN upto[Len(rs)]
RoleNo(t, r) == IF r = NoRole THEN 0 ELSE CHOOSE i \in 1 .. Len(t) : t[i] = r
RoleStr(t, i) == IF i \in 1 .. Len(t) THEN t[i] ELSE NoRole

\* The tree t with the objects of new put into it, in the place of what is there
Over(new, t) ==
  [id \in DOMAIN new \cup DOMAIN t |-> IF id \in DOMAIN new THEN new[id] ELSE t[id]]

Obj(id, role, text) == [k |-> "obj", id |-> id, role |-> role, text |-> text]

Init ==
  /\ data \in DOMAIN Data
  /\ file = [exists |-> FALSE, cells |-> <<>>, older |-> FALSE, tainted |-> FALSE]
  /\ fails = 0
  /\ pc = [p \in Runs |-> "start"]
  /\ ver = [p \in Runs |-> data]
  /\ roles = [p \in Runs |-> <<>>]
  /\ tree = [p \in Runs |-> <<>>]
  /\ pos = [p \in Runs |-> 1]
  /\ size = [p \in Runs |-> 0]
  /\ cnt = [p \in Runs |-> 0]
  /\ spoilt = [p \in Runs |-> FALSE]

Goto(p, l) == pc' = [pc EXCEPT ![p] = l]

\* Rules are read and initialised, the data file is opened.
Start(p) ==
  /\ pc[p] = "start"
  /\ Goto(p, "open")
  /\ ver' = [ver EXCEPT ![p] = data]
  /\ roles' = [roles EXCEPT ![p] = AddRoles(<<>>, RuleRoles[p])]
  /\ tree' = [tree EXCEPT ![p] = [id \in Made[p] |-> Obj(id, 0, InMem)]]
  /\ UNCHANGED <<data, file, fails, pos, size, cnt, spoilt>>

\* Faulty variant: the time stamps are not compared.
OpenAnyAge(p) ==
  /\ pc[p] = "open"
  /\ \/ ~file.exists /\ Goto(p, "parse") /\ UNCHANGED <<pos, size>>
     \/ /\ file.exists
        /\ file.cells = <<>>
        /\ Goto(p, "corrupt") /\ UNCHANGED <<pos, size>>
     \/ /\ file.exists /\ file.cells # <<>>
        /\ IF file.cells[1] = Hdr(FALSE)
           THEN /\ Goto(p, "read")
                /\ pos' = [pos EXCEPT ![p] = 2]
                /\ size' = [size EXCEPT ![p] = Len(file.cells)]
           ELSE Goto(p, "parse") /\ UNCHANGED <<pos, size>>
  /\ spoilt' = [spoilt EXCEPT ![p] = file.tainted \/ ver[p] # data]
  /\ UNCHANGED <<data, file, fails, ver, roles, tree, cnt>>

\* index_read() up to the file header.  The value -2 of a file with a wrong or
\* dirty header is ESM_NOFILE, so it is parsed like a missing one; a file that
\* is shorter than the header ends the program.
Open(p) ==
  /\ pc[p] = "open"
  /\ \/ /\ ~file.exists \/ file.older \/ (file.cells # <<>> /\ file.cells[1] # Hdr(FALSE))
        /\ Goto(p, "parse")
        /\ UNCHANGED <<pos, size>>
     \/ /\ file.exists /\ ~file.older
        /\ file.cells = <<>>
        /\ Goto(p, "corrupt")
        /\ UNCHANGED <<pos, size>>
     \/ /\ file.exists /\ ~file.older
        /\ file.cells # <<>> /\ file.cells[1] = Hdr(FALSE)
        /\ Goto(p, "read")
        /\ pos' = [pos EXCEPT ![p] = 2]
        /\ size' = [size EXCEPT ![p] = Len(file.cells)]
  /\ spoilt' = [spoilt EXCEPT ![p] = file.tainted \/ ver[p] # data]
  /\ UNCHANGED <<data, file, fails, ver, roles, tree, cnt>>

\* The rest of the mapping as it is now.  Another run may have truncated the
\* file: pages behind its end are fatal, the rest of the last page is zero.
Left(p) == size[p] - pos[p] + 1
Cell(i) == IF i \in 1 .. Len(file.cells) THEN file.cells[i] ELSE Zero
Body(p, n) == [i \in 1 .. n |-> Cell(pos[p] + i)]
Fatal(p, n) ==
  /\ pos[p] + n > Len(file.cells)
  /\ Goto(p, "dead")
  /\ UNCHANGED <<roles, tree, pos>>

\* s up to the first place that is not one of the good ones, and what follows
\* the chunk
Prefix(s, good) ==
  SubSeq(s, 1, CHOOSE n \in 0 .. Len(s) : 1 .. n \subseteq good /\ (n < Len(s) => n + 1 \notin good))
Behind(p, n, whole) ==
  IF whole THEN pos' = [pos EXCEPT ![p] = @ + n + 1] /\ UNCHANGED pc
           ELSE Goto(p, "parse") /\ UNCHANGED pos

\* index_read_roles() of the cells of body in a chunk of n: empty names are
\* skipped, an invalid one ends it.
ReadRoles(p, body, n) ==
  LET ok    == Prefix(body, {i \in 1 .. Len(body) : body[i].k \in {"role", "zero"}})
      names == [i \in 1 .. Len(ok) |-> IF ok[i].k = "role" THEN ok[i].name ELSE NoRole]
  IN /\ roles' = [roles EXCEPT ![p] = AddRoles(@, names)]
     /\ Behind(p, n, Len(ok) = Len(body))
     /\ UNCHANGED tree

\* reloc() leaves text that was not in the data file nowhere.  With option -m
\* the offsets lead into the buffer of hpx_init(), which nothing was read into.
Relocated(p, o) == [o EXCEPT !.text = IF @ = InMem \/ p \in Unmapped THEN Wild ELSE @]

\* index_read_objs(): an invalid type ends it.  An object that exists already
\* is an error only if it is the first one, as ctrl is NULL afterwards.
ReadObjs(p, body, n) ==
  LET good   == {i \in 1 .. Len(body) : body[i].k = "obj" /\ (i = 1 => body[i].id \notin DOMAIN tree[p])}
      ok     == Prefix(body, good)
      At(id) == CHOOSE i \in 1 .. Len(ok) : /\ ok[i].id = id
                                            /\ \A j \in i + 1 .. Len(ok) : ok[j].id # id
  IN /\ tree' = [tree EXCEPT ![p] =
                   Over([id \in {ok[i].id : i \in 1 .. Len(ok)} |-> Relocated(p, ok[At(id)])], @)]
     /\ Behind(p, n, Len(ok) = Len(body))
     /\ UNCHANGED roles

\* A chunk that is too long for an int: a part of it is read, or none if the int
\* is not positive, and the last cell of the part may be cut; the loop goes on
\* behind the chunk.
Long(h) == h.k = "chunk" /\ h.type \in {"ROLE", "OBJS"} /\ h.len > MaxInt
ReadLong(p, h) ==
  /\ Long(h) /\ h.len <= Left(p)
  /\ \E m \in 0 .. h.len - 1 : \E body \in {Body(p, m), Append(Body(p, m), Torn)} :
       \/ h.type = "ROLE" /\ ReadRoles(p, body, h.len)
       \/ h.type = "OBJS" /\ ReadObjs(p, body, h.len)
  /\ spoilt' = [spoilt EXCEPT ![p] = TRUE]

\* One turn of the loop in index_read().  What is not a chunk header has any
\* type and length: the rest of the file is refused or a part of it ignored.
ReadChunk(p) ==
  /\ pc[p] = "read" /\ Left(p) > 1
  /\ LET h == Cell(pos[p]) IN
       \/ ReadLong(p, h)
       \/ /\ Fatal(p, IF h.k = "chunk" THEN h.len ELSE 0)
          /\ UNCHANGED spoilt
       \/ /\ h.k = "chunk" /\ h.len > Left(p)
          /\ Goto(p, "parse")
          /\ UNCHANGED <<roles, tree, pos, spoilt>>
       \/ /\ h.k = "chunk" /\ h.len <= Left(p) /\ ~ Long(h)
          /\ CASE h.type = "ROLE" -> ReadRoles(p, Body(p, h.len), h.len)
               [] h.type = "OBJS" -> ReadObjs(p, Body(p, h.len), h.len)
               [] h.type = "DSTS" -> Behind(p, h.len, TRUE) /\ UNCHANGED <<roles, tree>>
          /\ UNCHANGED spoilt
       \/ /\ h.k # "chunk"
          /\ \/ \E n \in IF h.k = "zero" THEN {0} ELSE 0 .. Left(p) : Behind(p, n, TRUE)
             \/ h.k # "zero" /\ Behind(p, 0, FALSE)
          /\ UNCHANGED <<roles, tree, spoilt>>
  /\ UNCHANGED <<data, file, fails, ver, size, cnt>>

ReadEnd(p) ==
  /\ pc[p] = "read" /\ Left(p) <= 1
  /\ Goto(p, "loaded")
  /\ UNCHANGED <<data, file, fails, ver, roles, tree, pos, size, cnt, spoilt>>

\* Faulty variant: objects that are in the tree are not replaced.
ParseKeeps(p) ==
  /\ pc[p] = "parse"
  /\ LET t == AddRoles(roles[p], DataRoles[ver[p]]) IN
       /\ roles' = [roles EXCEPT ![p] = t]
       /\ tree' = [tree EXCEPT ![p] =
            Over(@, [id \in DOMAIN Data[ver[p]] |-> Obj(id, RoleNo(t, Data[ver[p]][id]), ver[p])])]
  /\ Goto(p, "create")
  /\ pos' = [pos EXCEPT ![p] = 1]
  /\ size' = [size EXCEPT ![p] = 0]
  /\ UNCHANGED <<data, file, fails, ver, cnt, spoilt>>

\* read_osm_file() into the tree, whatever index_read() left there
Parse(p) ==
  /\ pc[p] = "parse"
  /\ LET t == AddRoles(roles[p], DataRoles[ver[p]]) IN
       /\ roles' = [roles EXCEPT ![p] = t]
       /\ tree' = [tree EXCEPT ![p] =
            Over([id \in DOMAIN Data[ver[p]] |-> Obj(id, RoleNo(t, Data[ver[p]][id]), ver[p])], @)]
  /\ Goto(p, "create")
  /\ pos' = [pos EXCEPT ![p] = 1]
  /\ size' = [size EXCEPT ![p] = 0]
  /\ UNCHANGED <<data, file, fails, ver, cnt, spoilt>>

-----------------------------------------------------------------------------
\* index_write()

writing == {"header", "rolehdr", "role", "dsts", "objhdr", "obj", "clean"}
Writers == {p \in Runs : pc[p] \in writing}

\* creat() truncates the file; it may fail.
Create(p) ==
  /\ pc[p] = "create"
  /\ \/ /\ Goto(p, "header")
        /\ file' = [exists |-> TRUE, cells |-> <<>>, older |-> FALSE,
                    tainted |-> Writers # {} \/ spoilt[p] \/ ver[p] # data]
        /\ spoilt' = [q \in Runs |-> spoilt[q] \/ pc[q] = "read"]
     \/ Goto(p, "done") /\ UNCHANGED <<file, spoilt>>
  /\ UNCHANGED <<data, fails, ver, roles, tree, pos, size, cnt>>

\* sm_write() of one cell at position i: all of it, or -1 after nothing or a part
Padded(i) == [j \in 1 .. (IF i > Len(file.cells) THEN i ELSE Len(file.cells)) |-> Cell(j)]
Wrote(p, i, c) ==
  /\ file' = [file EXCEPT !.cells = [Padded(i) EXCEPT ![i] = c], !.older = FALSE,
                          !.tainted = @ \/ ver[p] # data]
  /\ UNCHANGED fails
Failed(i, n) ==
  /\ fails < MaxFails
  /\ fails' = fails + 1
  /\ file' = [file EXCEPT !.cells = IF n = 0 THEN @ ELSE [Padded(i) EXCEPT ![i] = Torn],
                          !.older = @ /\ n = 0,
                          !.tainted = TRUE]

Move(p, n) == pos' = [pos EXCEPT ![p] = @ + n]

\* Faulty variant: the file is not marked while it is incomplete.
WriteHeaderClean(p) ==
  /\ pc[p] = "header"
  /\ \/ Wrote(p, 1, Hdr(FALSE)) /\ Move(p, 1)
     \/ \E n \in 0 .. 1 : Failed(1, n) /\ Move(p, n)
  /\ Goto(p, "rolehdr")
  /\ UNCHANGED <<data, ver, roles, tree, size, cnt, spoilt>>

\* The result of the first index_write_header() is not looked at.
WriteHeader(p) ==
  /\ pc[p] = "header"
  /\ \/ Wrote(p, 1, Hdr(TRUE)) /\ Move(p, 1)
     \/ \E n \in 0 .. 1 : Failed(1, n) /\ Move(p, n)
  /\ Goto(p, "rolehdr")
  /\ UNCHANGED <<data, ver, roles, tree, size, cnt, spoilt>>

\* A step of index_write_roles(), index_write_dstats() or the first one of
\* index_write_objects(); an error closes the dirty file.
WriteOrQuit(p, here, there, i, c, move) ==
  /\ pc[p] = here
  /\ \/ Wrote(p, i, c) /\ Move(p, move) /\ Goto(p, there)
     \/ \E n \in 0 .. 1 : Failed(i, n) /\ Goto(p, "done") /\ UNCHANGED pos

WriteRoleHdr(p) ==
  /\ WriteOrQuit(p, "rolehdr", "role", pos[p], Chunk("ROLE", 0), 1)
  /\ cnt' = [cnt EXCEPT ![p] = 0]
  /\ UNCHANGED <<data, ver, roles, tree, size, spoilt>>

WriteRole(p) ==
  /\ cnt[p] < Len(roles[p])
  /\ WriteOrQuit(p, "role", "role", pos[p], Role(roles[p][cnt[p] + 1]), 1)
  /\ cnt' = [cnt EXCEPT ![p] = @ + 1]
  /\ UNCHANGED <<data, ver, roles, tree, size, spoilt>>

WriteRoleLen(p) ==
  /\ cnt[p] = Len(roles[p])
  /\ WriteOrQuit(p, "role", "dsts", pos[p] - cnt[p] - 1, Chunk("ROLE", cnt[p]), 0)
  /\ UNCHANGED <<data, ver, roles, tree, size, cnt, spoilt>>

WriteDstats(p) ==
  /\ WriteOrQuit(p, "dsts", "objhdr", pos[p], Chunk("DSTS", 0), 1)
  /\ UNCHANGED <<data, ver, roles, tree, size, cnt, spoilt>>

\* size is used for the place in Order from here on.
WriteObjHdr(p) ==
  /\ WriteOrQuit(p, "objhdr", "obj", pos[p], Chunk("OBJS", 0), 1)
  /\ cnt' = [cnt EXCEPT ![p] = 0]
  /\ size' = [size EXCEPT ![p] = 1]
  /\ UNCHANGED <<data, ver, roles, tree, spoilt>>

\* The next object of the traversal, Len(Order) + 1 if there is none
NextFrom(p, S) ==
  CHOOSE i \in S \cup {Len(Order) + 1} :
    /\ i <= Len(Order) => Order[i] \in DOMAIN tree[p]
    /\ \A j \in S : j < i => Order[j] \notin DOMAIN tree[p]
NextObj(p) == NextFrom(p, size[p] .. Len(Order))

\* index_write_obj(): an error ends the traversal of the objects of its type
\* and is not looked at otherwise.
WriteObj(p) ==
  /\ pc[p] = "obj" /\ NextObj(p) <= Len(Order)
  /\ LET i == NextObj(p) IN
       \/ /\ Wrote(p, pos[p], tree[p][Order[i]]) /\ Move(p, 1)
          /\ cnt' = [cnt EXCEPT ![p] = @ + 1]
          /\ size' = [size EXCEPT ![p] = i + 1]
       \/ /\ \E n \in 0 .. 1 : Failed(pos[p], n) /\ Move(p, n)
          /\ size' = [size EXCEPT ![p] =
               NextFrom(p, {j \in i + 1 .. Len(Order) : Type[Order[j]] > Type[Order[i]]})]
          /\ UNCHANGED cnt
  /\ UNCHANGED <<data, pc, ver, roles, tree, spoilt>>

\* Faulty variant: the length is not written.
WriteObjLenOnlySeek(p) ==
  /\ pc[p] = "obj" /\ NextObj(p) > Len(Order)
  /\ Goto(p, "clean")
  /\ UNCHANGED <<data, file, fails, ver, roles, tree, pos, size, cnt, spoilt>>

WriteObjLen(p) ==
  /\ pc[p] = "obj" /\ NextObj(p) > Len(Order)
  /\ WriteOrQuit(p, "obj", "clean", pos[p] - cnt[p] - 1, Chunk("OBJS", cnt[p]), 0)
  /\ UNCHANGED <<data, ver, roles, tree, size, cnt, spoilt>>

\* The header is written again without INDEX_FDIRTY, the file is closed.
WriteClean(p) ==
  /\ pc[p] = "clean"
  /\ \/ Wrote(p, 1, Hdr(FALSE))
     \/ \E n \in 0 .. 1 : Failed(1, n)
  /\ Goto(p, "done")
  /\ UNCHANGED <<data, ver, roles, tree, pos, size, cnt, spoilt>>

-----------------------------------------------------------------------------
final == {"loaded", "done", "corrupt", "dead"}

\* A run is killed.
Kill(p) ==
  /\ pc[p] \notin final
  /\ Goto(p, "dead")
  /\ UNCHANGED <<data, file, fails, ver, roles, tree, pos, size, cnt, spoilt>>

\* The data file is replaced by its next version; its mtime is later than that
\* of anything written before.
Edit ==
  /\ data + 1 \in DOMAIN Data
  /\ data' = data + 1
  /\ file' = [file EXCEPT !.older = TRUE]
  /\ UNCHANGED <<fails, run>>

Write(p) ==
  \/ Create(p) \/ WriteHeader(p)
  \/ WriteRoleHdr(p) \/ WriteRole(p) \/ WriteRoleLen(p)
  \/ WriteDstats(p)
  \/ WriteObjHdr(p) \/ WriteObj(p) \/ WriteObjLen(p)
  \/ WriteClean(p)

Next ==
  \/ \E p \in Runs : \/ Start(p) \/ Open(p) \/ ReadChunk(p) \/ ReadEnd(p) \/ Parse(p)
                     \/ Write(p) \/ Kill(p)
  \/ Edit

Spec == Init /\ [][Next]_vars
-----------------------------------------------------------------------------
Names == (UNION {Range1(RuleRoles[p]) : p \in Runs}) \cup (UNION {Range1(DataRoles[v]) : v \in DOMAIN Data})
Objs  == [k : {"obj"}, id : Ids, role : Nat, text : DOMAIN Data \cup {InMem, Wild}]
Cells == [k : {"hdr"}, dirty : BOOLEAN] \cup [k : {"chunk"}, type : {"ROLE", "DSTS", "OBJS"}, len : Nat]
         \cup [k : {"role"}, name : Names] \cup Objs \cup [k : {"zero", "torn"}]

TypeOK ==
  /\ data \in DOMAIN Data
  /\ file \in [exists : BOOLEAN, cells : Seq(Cells), older : BOOLEAN, tainted : BOOLEAN]
  /\ fails \in 0 .. MaxFails
  /\ pc \in [Runs -> final \cup writing \cup {"start", "open", "read", "parse", "create"}]
  /\ ver \in [Runs -> DOMAIN Data]
  /\ roles \in [Runs -> Seq(Names \ {NoRole})]
  /\ DOMAIN tree = Runs
  /\ \A p \in Runs : DOMAIN tree[p] \subseteq Ids /\ tree[p] \in [DOMAIN tree[p] -> Objs]
  /\ pos \in [Runs -> Nat] /\ size \in [Runs -> Nat] /\ cnt \in [Runs -> Nat]
  /\ spoilt \in [Runs -> BOOLEAN]

\* What parsing version v gives in a program whose role table is t
Meant(o, v, t, id) ==
  /\ o.id = id /\ o.text = v
  /\ RoleStr(t, o.role) = Data[v][id]
IsData(tr, v, t) == \A id \in DOMAIN Data[v] : id \in DOMAIN tr /\ Meant(tr[id], v, t, id)

\* A usable index (complete, not older than the data) that one run wrote without
\* errors and without another writer beside it holds exactly the objects of the
\* current data file, whenever the writers and readers were killed
\* (index_write() marks the file dirty until it is complete).
CleanWhole ==
  file.exists /\ ~file.older /\ ~file.tainted /\ file.cells # <<>>
    /\ file.cells[1] = Hdr(FALSE)
  => LET c == file.cells IN
     \E nr \in 0 .. Len(c) - 4 :
       /\ c[2] = Chunk("ROLE", nr)
       /\ \A i \in 3 .. nr + 2 : c[i].k = "role"
       /\ c[nr + 3] = Chunk("DSTS", 0)
       /\ c[nr + 4] = Chunk("OBJS", Len(c) - nr - 4)
       /\ \A i \in nr + 5 .. Len(c) :
            c[i].k = "obj" /\ Meant(c[i], data, [j \in 1 .. nr |-> c[j + 2].name], c[i].id)
       /\ {c[i].id : i \in nr + 5 .. Len(c)} = DOMAIN Data[data]

\* A run that index_read() succeeds in has the objects, roles and texts that
\* parsing the data file would have given it, unless it was started with -m or
\* the index has a chunk that is too long for an int.  Runs with other rules are
\* included as long as their roles come first in the same order.
LoadedExact ==
  \A p \in Runs \ Unmapped : pc[p] = "loaded" /\ ~spoilt[p] =>
    /\ IsData(tree[p], ver[p], roles[p])
    /\ DOMAIN tree[p] = DOMAIN Data[ver[p]] \cup Made[p]

\* A run that had to parse the data renders every object as it is in the data
\* file, also if index_read() gave up half way and whatever other runs do to the
\* index; and it renders nothing else, unless it met an index that was not whole
\* (objects that index_read() left behind stay in the tree).
ParsedExact ==
  \A p \in Runs : pc[p] \in writing \cup {"create", "done"} =>
    /\ IsData(tree[p], ver[p], roles[p])
    /\ ~spoilt[p] => DOMAIN tree[p] = DOMAIN Data[ver[p]] \cup Made[p]

\* The text of every tag of an object of a run is in its data or its memory:
\* "In a subsequent run of smrender it will pull in the index directly from the
\* file instead of parsing" (doc/smrender.tex:492).
TextsValid ==
  \A p \in Runs : \A id \in DOMAIN tree[p] : tree[p][id].text # Wild

\* A writer that nothing has disturbed leaves an index that the next run loads
\* (index_write() to its end; index_read()).
LeavesUsable ==
  [][\A p \in Runs :
       pc[p] = "clean" /\ pc'[p] = "done" /\ ~file'.tainted =>
         /\ file'.cells[1] = Hdr(FALSE)
         /\ \E i \in 1 .. Len(file'.cells) :
              /\ file'.cells[i] = Chunk("OBJS", Cardinality(DOMAIN tree[p]))
              /\ Len(file'.cells) = i + Cardinality(DOMAIN tree[p])]_vars
=============================================================================
