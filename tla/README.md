# TLA+ models of smrender

Smrender renders OSM data to charts. It reads rules (themselves OSM objects whose
tags name an *action*), reads the data into a tree of objects, and applies every
rule to the objects that match it, with worker threads where an action allows it.
`smrenderd` keeps such a tree in memory and answers queries over HTTP and
websockets. This directory holds models of the parts of both programs in which
threads, processes, files and errors meet, TLC configurations that check them, and
proofs about the core for TLAPS.

Paths below are relative to the repository. `PROJECT.json` maps each definition to
the lines it models, lists the runs, the faulty variants used to show that the
properties can fail, the theorems, the findings and the hazards.

    tlc -config engine_work.cfg MCRuleEngine       # one run
    tlapm RuleEngineProofs.tla                     # proofs: also QueryCacheProofs, TraverseComProofs,
                                                   # ObjTreeProofs, ExecCliProofs, IndexFileProofs,
                                                   # TagActionsProofs, WayEditProofs

## 1. Inventory

| component | state | operations | interacts with | what is hard | what makes it correct |
|---|---|---|---|---|---|
| thread pool, `src/smthread.c` | `smth_[]` (status, list, result, rule), `cur_id_`, `mmutex_`, `mcond_`, a `cond` per slot | `init_threads`, `obj_queue_ini`, `obj_queue`, `obj_queue_signal`, `sm_wait_threads`, `delete_threads`, `sm_thread_loop` | called by the engine, calls main functions | lists are filled and emptied outside the mutex; two kinds of condition; results of a list arrive while another is filled; threads that cannot be created | every object reaches main once; no list is shared or overrun; nobody waits for ever |
| rule engine, `src/smcore.c` | flags and data of each rule, `int_` | `execute_rules`, `apply_smrules`, `apply_rule`, `call_ini`, `call_fini`, `traverse` | pool, rule actions, SIGINT | copies of a rule per thread, reentry through `sub()`, `ACTION_EXEC_ONCE`, errors in the middle of a traversal | main runs between ini and fini on live data; all matching objects are served; errors end what the documentation says |
| rule parser, `src/smrparse.c` | rule structures and copies | `init_rules`, `init_rule`, `alloc_rule`, tag and option parsing | engine, loader of action libraries | failing ini functions | only initialised rules run; patterns match what the manual says |
| rule actions, `src/smfunc.c` | `data` of a rule, the object tree, the reverse index, new ids | ini, main, fini of about 50 actions | engine, tree, index | actions change the list they walk, the ways others share, and objects whose ids are keys elsewhere | the reverse index is complete; edits lose no node and no tag; files are consistent |
| coastlines and polygons, `src/smcoast.c` | way list, sorted end points | `cat_poly` (gather, join, close, trim, connect), `refine_poly`, `check` | tree, page border | order of end points, corners at 0/360 degrees, list changed by each merge | every piece in one ring, in its direction; the repetition ends |
| sub-processes, `src/smexec.c` | `exec_ctrl` per rule, pipes | `act_exec_ini/main/fini`, `exec_cli`, `parse_exec_args` | processes of the user, engine | inherited descriptors, processes that die or answer out of turn | one answer per command; objects in order; the program ends |
| object tree, `libsmrender/bxtree.c`, `smutil.c`, `osm_func.c` | trie of 8-bit digits, role table | add, get, rem, traverse, free | everything | order of negative ids, changes by handlers of a running traversal | lookup returns what was put; a traversal sees what stays |
| OSM reader and writer, `src/smloadosm.c`, `libhpxml.c`, `smosmout.c`, `smjson.c` | buffer window, open elements, statistics, heap shared by trees | `hpx_get_eleml`, `read_osm_file`, `save_osm`, `out`, `diff`, renumber | tree, role table, files | buffer refill in the middle of an element; duplicates; ids changed in two passes | tree equals file, file equals tree, references stay |
| index file, `src/smindex.c` | `<data>.index` | `index_write`, `index_read` | tree, role table, mapped data file | kill between two writes, failing writes, several runs, edited data | what an index gives is what parsing gives |
| main program, `src/smrender.c` | options, passes | `main`, signal handler | all of the above | SIGINT at any time | passes in order, shutdown |
| query cache, `smrenderd/smcache.c` | `qc_[]` of 256 entries with age and counter, `mutex_`, `cond_` | `qc_lookup`, `qc_put`, `qc_release`, `qc_cleanup` | connection threads in `smhttp.c` | eviction while other threads work, full cache, tree freed outside the mutex | nobody uses a freed tree, trees are freed once |
| traverse session, `smrenderd/smdfunc.c`, `http_ws_com()` | `trv_com_t`: two commands, one object, a rule, a mutex and two conditions | `tc_init`, `tc_traverse`, `tc_next`, `tc_break`, `tc_free`, the slave's loop and its rule functions | connection thread, rule engine, cache | two threads in a dialogue over shared variables; stopping a traversal from outside | objects in order, none of another rule; every call returns; no rule is freed in use |
| HTTP and websocket, `smrenderd/smhttp.c`, `websocket.c`, `smrenderd.c`, `smwsclient.c` | sockets, table of descriptors, frames | accept, parse, reply, close; frame | cache, session | descriptors are shared by threads, closed in several places | a thread uses its own connection; frames are decoded as sent |
| database of smrenderd, `smrenderd/smdb.c` | result trees | `get_obj_bb` | tree, cache | - | the result is closed under references |
| utilities, lists, bstrings, log | list heads, strings | look-up, formatting | all | - | - |
| drawing, graticule, images: `smrules_cairo.c`, `smgrid.c`, `rdata.c`, `smtile.c`, `smkap.c`, `bspline_ctrl.c`, ... | cairo contexts | drawing | engine | floating point | out of reach of these tools |

`src/smem.c` is not called; `libsmfilter`, `libskel`, `tools`, icons, rules and the
manual are inputs or examples.

## 2. What is modelled

### ThreadPool, RuleEngine, RuleRuns

`ThreadPool` is `smthread.c` as it is built (with `TH_OBJ_LIST`). `status`, `obj`
and `result` are the fields of `smth_[]`, `cur_id` is `cur_id_`, `last` is the
static variable of `get_free_thread()`. Each section under `mmutex_` is one step,
since all accesses to its variables are under that mutex; what the code does
outside it are separate steps: the main thread appending to the list
(`obj_queue()`), the worker taking the last object and calling main
(`WorkerCall`), main returning (`WorkerReturn`). The one unlocked read,
`obj_cnt` in `obj_queue_signal()`, is of lists in the hands of the main thread,
and of running ones, where nothing is decided by it. Sleeping on a condition
(`wpc = "sleep"`, `mwait`) is kept apart from being scheduled, so that lost
wake-ups would show. A slot whose thread could not be created has `wpc = "none"`;
`pthread_join()` on it is taken to return.

`RuleEngine` extends it with the main thread: entry into `apply_smrules()`
(`EnterRule`, with the second ini of a finished rule), `BeginTraverse`, one
`Visit` for each object, `CallMain` for unthreaded rules, the parts of
`obj_queue()`, `SignalRest`, `WaitDone`, `CallFini`, `LeavePasses`,
`DeleteThreads` and `JoinThreads`; `Interrupt` is SIGINT. `Schedule` is the
sequence of calls of `apply_smrules()`: tag matching and the collection of objects
by `sub()` decide who is in it, so a rule that is called by two `sub()` rules
occurs twice. Objects are numbered in the order of `traverse()`. All rules are
taken to have the three functions.

`RuleRuns` says what this amounts to when functions return 0: rules one after the
other, every object once, each application ends. `ImplementsRuns` is the
refinement.

### QueryCache

`qc_lookup()`, `qc_put()`, `qc_cleanup()`, `qc_release()` and their callers in
`smhttp.c`, for any number of connection threads. A section under `mutex_` is one
step; `qc_cleanup()` marks the entry free in one step and frees the tree in
another, as it does after the unlock. A tree is its address: `mem` says which
addresses are in use, a query gets any that is not, and so an address that was freed
comes back as the tree of another query. A second free of it frees what lives there by then.
The history `twice` says that `qc_cleanup()` has taken an entry that was free already.
The clock is a variable, in seconds. `Leak` is the early return of `http_map_bbox()`.

### TraverseCom

The two threads of a websocket session. The mutex is explicit, because
`tc_break()` unlocks it in a loop, also while the other thread has it. For a
default mutex of glibc this marks the mutex free (POSIX leaves it undefined), and
sections can then overlap. So each access to the shared `trv_com_t` is a step, and so are
lock, unlock, signal and sleep; stores with no call between them (`mtodo`, `stodo` are
those a thread still has to make) may come in any order. `tc_init()` may fail, which
`http_ws_com()` does not look at (`smhttp.c:814`): then there is no slave (`spc = "none"`).
`Command` is what the client may do; nothing forces it to. Rules are numbered by
the calls of `init_rule()`.

### IndexFile

`index_write()`, `index_read()` and their use in `main()` for any number of runs
on the same files. A cell of the file is what one step writes: file header, chunk
header, a role, an object with its parts. `sm_write()` of a cell succeeds, or
fails and leaves nothing or a torn cell. `creat()` by another run truncates the
file under its readers and writers: writers go on behind a hole, readers of a
missing page die. What is not a chunk header is read as one with any type and
length not below 0. `older` is the comparison of the two mtimes. `Parse` is
`read_osm_file()` over whatever `index_read()` has left in the tree. `Kill` may
happen between any two steps. The length of a chunk is a long in the file and
an int in `index_read_roles()` and `index_read_objs()`: of a chunk with more cells than
`MaxInt` the model reads any part, possibly cut within a cell (`ReadLong`). Runs in
`Unmapped` have the option -m, with which the data is not mapped: what they load points
to no text (`Wild`). Two history variables: `file.tainted` tells an index that was not
written by one undisturbed run without a failed write; a run is `spoilt` if its index was
tainted, changed while it was read, or had a chunk that is too long. Pieces of an object that are written before a failing one are part of Torn.
Roles in the model have other names than `n/a`, which `smindex.c:212` takes for the
end of the table.

### WayEdit

The main functions of `smfunc.c` and `smcoast.c` that change nodes and ways, each
one action, called in any order on the same data (`MaxEdits`). The state is one
record `data`: positions, node lists, the index of reverse pointers, the marks of
`wrapdetect`, the next ids. Functions that walk the list of a node's parents while
they change it (split, zeroway) do so in the code's order. `zeroway` connects one way after
the other to the new node (`Connect`); since it does not count them (`smfunc.c:2250`, `:2265`)
the list of this node has the way of length zero and the last one connected. `data.fault`
says that memory was used that is not there, `data.raw` which ways never got all their
entries in the index, or lost one in this way. Lists of parents are made in the order of
the tree, in which negative ids come last. Positions are
pairs of integers, and distances the sum of the differences, for which points between
two others are exact. The model has no RECURSIVE operators: a pass over a known list is the
recursive function of `InTurn`, a loop whose end depends on what it does is that of `Loop`,
which makes `MaxTurns` turns and leaves the state alone once the loop is over; a call
that would take more turns is left out. `MapsAssumption` says what data is: ids are integers,
those of ways below those of relations, and no way refers to a node with an id that is not
positive and not in the data (ids that `set_unique_node_id()` would give out).

### CatPoly

`cat_poly` as a sequence of phases: `Gather` (one way per call of main), `Join`
(sorting of end points, `poly_find_adj2`, `join_open_poly`, `loop_detect`),
`ConnectAlmostClosed`, `Trim`, and rounds of `Connect` until one connects nothing.
`Connect` goes through the list of end points in the code's order and changes it
as it goes. Positions are bearings in 16ths of the circle. `arcs` is a history of
the connections made. `qsort()` is taken to be stable, as glibc's merge sort is.

### TagActions

Matching (`bs_match`, `match_attr`, `apply_rule`) and the actions that change tags
or visibility. Keys and values are numbers, patterns hit sets of them, with the
flags for inversion and exclusion. Each action calls the match first, as
`apply_rule()` does; the state is the tags and visibility of every object. `mask` meets
the nodes in the order of `traverse()`, which takes ids as unsigned: negative ones, those
of added nodes, come last (`Before`). Of `inherit_tags` the type asked for (`object=`) is
ignored by rules for ways that go down.

### ObjTree

`bxtree.c` with the put and get functions of `smutil.c`, and `traverse()` as one
step per handler, during which the handler may put or remove objects. `store` is
the abstract map from ids and types to objects; `leaf` and `alloc` are the tree.
`put_object0()` writes the pointer of a leaf outside the lock of the tree
(`smutil.c:168`); ids of different objects have different leaves, and rules that
put objects from threads take new ids, so one step is enough for it.

### XmlStream and OsmFile

`XmlStream` holds the operators of `libhpxml.c`: what a tag, comment, literal is in
the window of the buffer, and when it has to be filled. A read delivers any number
of tokens (`Refill`), so every place of the text is once the end of the window.
Blanks are stepped over as `hpx_proc_buf()` does: if they are half of the rest or more, it may
end without the rest (`Stuck`, `GivesUp`).
`OsmFile` puts `smloadosm.c` on top, then the actions `out`, `diff` and renumber and
the writer `smosmout.c`, with escaping, rounding and `-N` as operators on values. Rules are read
by `open_osm_source()`, here from a directory, in blocks; the file of a `diff` rule is
mapped, the data file is mapped unless -m is given. At the end of the data
`strip_ways()` removes references to nodes that are not there. `rtree`, `itree` and `tree`
are the three trees. Trees hold pointers into a heap, so renumbering one file
shows in the others. The file that a run writes can be the input of the next run.

### ExecCli

All rules with the action exec: `Fork` and `IniDone` for the ini functions, then the
dialogue of the parent with one process after the other (`SendObject`, `Cli`,
`SendEnd`, `Close`, `Wait`), pass by pass: after a negative code `NextPass` goes to the rules
of the next version, as `main()` does (`smrender.c:1301`), and leaves the process as it is
(`halted`). Rules are of one type, with versions in the order of their ids. And the processes, which read, send a command when it
is their turn, write to stderr, die, or cannot be executed. The descriptors that a
process inherits are sets, because whether a pipe is at its end depends on all
who hold its write end. One `read()` gets what is in the pipe.

### HttpConn

The connection threads of `smrenderd` with the table of file descriptors, in which
a closed number is given to the next `accept()`. `Get` closes the descriptor (the
`FILE` opened on it), `SetNonblock` and `FlushRead` use it afterwards, as
`handle_http()` does. Sessions and queries are TraverseCom and QueryCache.

### Definitions named "Faulty variant"

An operator with this comment is an action changed the way a slip in the C code
would (a reset that is missing, a signal that is not sent). No specification uses
it. Put in place of the action after it, it makes TLC find the named property
violated; `PROJECT.json` lists the pairs.

## 3. Runs

| run | bounds | shows |
|---|---|---|
| `engine_work` | 2 threads, of which 1 may fail to start, lists of 2, 5 objects, 4 calls of 3 rules in 2 passes, SIGINT | with functions that return 0: `AppliedOnce`, `NoConcurrentMain`, `ListHandedOver`, `TypeOK`, and the refinement `ImplementsRuns` (with liveness) |
| `engine_errors` | as above, results -1, 0, 1 of main, 0 and 1 of ini | `Ownership`, `ListFits`, `FiniSafe` whatever functions return; `Terminates`: no wake-up is lost |
| `cache_safety` | 3 threads, 2 entries, 2 boxes, 4 addresses, 3 seconds, 1 leak per entry | `CtrCountsUsers`, `EntryStable`; `UseLiveTree` until an entry is taken twice |
| `com_session` | 2 objects, 4 rules, failing thread, allocation and read | `Exclusion` and `InOrder` for the first rule; `OwnObjects`: unless `init_rule()` failed, objects of the own rule, none before the last received; `FreeReturns` |
| `index_safety` | 2 runs, one of them with -m, 2 versions of the data with 3 and 4 objects of three types and 2 roles, chunks of at most 3 cells in an int, one failing write | `CleanWhole`, `LoadedExact`, `ParsedExact`, `LeavesUsable` |
| `way_edits` | 5 maps of 2 to 4 nodes and 1 or 2 ways (a crossing with a relation, a ring, a way that passes a node twice, ways over the seam, one with a missing node), 3 edits in a row, 9 nodes, 12 turns of a loop | `IndexComplete`, `SplitExact`, `WrapMarked`, `DirectionSet` |
| `coast` | all pairings of 6 end points in all kinds of regions, all chains of 3 ways over 3 nodes, both roundings of the northern corner, with gaps, repeated and missing nodes | `JoinedOnce`, `RingsClosed`, `CornersOnTheWay`, `RoundsEnd` |
| `tags` | 3 nodes, a closed way, a relation with a missing member, 4 tag lists, 7 conditions with every flag, 2 calls | `MatchMeaning`, `TagsKept`, `InheritsDown`, `MaskSpread` |
| `objtree` | ids -1, 0, 5, 6 with 3 binary digits, 2 types, 2 objects, 3 changes | `GetLastPut`, `TraverseExact` |
| `osm_file` | 7 data files of up to 7 objects with comments, CDATA, quotes, unknown elements, duplicates, relations, new objects, missing nodes, blanks at the end; rules in two files; a window filled at any place; -m, -n, -N; 2 runs | `StreamExact`, `ObjectsExact`, `FileConsistent` |
| `exec` | 4 processes in 2 passes, one that cannot be executed, one that reads to the end of its input, 2 commands each besides success, codes at both ends of the range, 1 death | `Answered`, `ObjectsInOrder`, `Finishes` |
| `http_fd` | 2 threads, 2 descriptors, 2 requests | violation of `OwnFd` |

Why the bounds suffice for the cases of interest. Engine: with five objects and
lists of two, a slot is filled, handed over, filled again while the other works,
and a list that is not full is left at the end; with one thread missing the search
of `get_free_thread()` passes over it. Cache: three threads on two entries make it
full with two threads in `qc_cleanup()`, and four addresses are enough for each to be freed and
given out again. Session: four rules of two objects let
`tc_break()` meet the slave in each of its states, also after an earlier one has broken the
mutex. Index: two runs cover a writer
that is killed at each point, and then a run that rebuilds or loads; overlapping
writers; a reader under a writer. WayEdit: three edits are enough to make entries
stale by one, use them by the next and change the result by a third; the maps have
what is special about one of the functions (see `MCWayEdit`), and nine nodes are enough
for a way of four that crosses the seam three times. CatPoly: three ways
are the least that give a cycle, a chain, and a merge whose end was merged before;
the six border points lie in the corner regions and on the sides. ObjTree: -1 and 6
share two digits, 5 and 6 one, and -1 is the greatest unsigned id. OsmFile: the window is cut
everywhere, two runs read what was written. ExecCli: with three processes in one pass the
first and the last have other neighbours than the one between, and the fourth is in the pass
after a negative code. Larger instances are left to
the proofs.

Fairness. `FairSpec` of the engine is weak fairness of the main thread and of
each worker: the threads are scheduled and main functions return. A thread that
sleeps has no enabled step, so nothing is assumed about wake-ups. `TraverseCom`
has weak fairness of both threads and strong fairness of taking the mutex:
`tc_break()` releases it again and again, and a waiter gets it at some time. The
client's commands are not fair. `ExecCli` has weak fairness of the parent and of
each process: a process reads what it is sent and in the end sends a command when
it is its turn; that it may send only `MaxCmds` others before success is the bound
that stands for a process that does not talk for ever. Nothing is assumed about
deaths. Deadlock is checked in the engine, in `coast` and in `exec`; the
other models may stop (a client that sends nothing, a cache that waits for a
release that does not come, edits at their bound).

## 4. Where code and documentation differ

`http_fd` is a run that ends in a counterexample: `handle_http()` calls
`http_flush_input_headers(fd)` after `http_proc_get()` has closed `fd`
(`smhttp.c:1130`). Between the two another thread may have accepted a connection
with this number; what the client has sent is then thrown away and the descriptor
no longer blocks. `http_served.cfg` shows the consequence: a connection closed
without a status.

The following have a configuration of their own that is not among the runs of
`PROJECT.json`; `tlc -config X.cfg M` gives the shortest counterexample.

| configuration, module | violates | what the code does |
|---|---|---|
| `engine_stale_object`, MCRuleEngine | `MainOnMatch` | If main fails, the worker leaves the rest of the list; `obj_queue_ini()` does not reset `obj_cnt` (the line is commented out, `smthread.c:302`) and sets the new rule, which gets the old objects. |
| `engine_once_by_sub`, MCRuleEngine | `NoMainAfterFini` | A rule that is executed once and called by two `sub()` runs main on data that fini has freed, if the first call matched nothing. |
| `cache_double_free`, MCQueryCache | `UsersSafe` | `qc_oldest()` does not skip entries that are free, so two threads in `qc_cleanup()` free one tree twice; the second free may hit the tree of another query that was given the address, while a thread works on it. |
| `com_rule_freed`, MCTraverseCom | `RuleValid` | READY is set in the rule's fini, inside `call_fini()`; `tc_break()` returns and the rule is freed. |
| `com_free_hangs`, MCTraverseCom | `SlaveExits` | The slave overwrites TC_EXIT with TC_WAIT in a section that overlaps the master's. |
| `com_no_data`, MCTraverseCom | `NoDataMeansDone` | READY of an earlier phase is taken for the end of the data. |
| `index_grid`, MCIndexFile | `TextsValid` | With `-x` and the action `grid` the index has objects whose tags are constants of the program. |
| `edit_wraps`, MCWayEdit | `OnlyWraps` | After an insertion `wrapdetect` skips the node reached and goes on from the second new node (`i += 2`, `smfunc.c:3457`, where `next_available_node()` has moved `i` already; the comment says "continue at next node behind the newly inserted ones"). The segment behind it is measured from the meridian and can be taken apart although it does not cross it. |
| `inherit_up`, MCTagActions | `InheritsUp` | Of a list of keys only the first that is present is copied up (`smfunc.c:2032`; `smrender.tex:1458`). |
| `exec_hang`, MCExecCli | deadlock (`Finishes`) | A process forked later holds the write end of an earlier one's input; if the earlier reads to the end, `waitpid()` (`smexec.c:319`) waits for ever (`smrender.tex:1991`: "will close all streams and continue"). |
| `exec_header`, MCExecCli | `OneHeader` | If `execvp()` fails, `exit(1)` writes the copied stdio buffers, so an earlier process gets a second header. |

`http_one.cfg` (MCHttpConn) shows that a single thread with all kinds of requests
serves every connection and stays up.

More deviations, which the models contain, or leave out on purpose.

Engine and session
- An error result of a list is read when its slot is reused, possibly by the next
  rule, whose traversal then ends (`smthread.c:319`, `smcore.c:240`); the result of
  a slot's last list is not read for its own rule.
- A negative result ends the whole pass without fini (`smcore.c:484`), a positive
  one of an unthreaded rule the traversal of its type (`smcore.c:639`);
  `smrender.tex:1851` says otherwise.
- If no thread can be created, `get_free_thread()` sleeps for ever
  (`smthread.c:120`, `:270`); `Terminates` assumes one.
- A negative result of ini is logged only (`smrparse.c:464`, `smcore.c:409`).
- After such a failed list, an unthreaded rule can be started in a worker with a
  copy that has no data (`smthread.c:357`).
- The second of two cleaners is not woken when the entry it waits for is one that
  the first has released (`smcache.c:79`, `:97`).
- If `init_rule()` fails after `tc_break()`, the slave may still have the command of the rule
  before, and the client gets objects of a rule that was freed (`OwnRule`). After
  `tc_break()` has unlocked the slave's mutex, the sections of `act_ws_traverse_main()`
  (`smdfunc.c:62`) and `tc_next()` (`smdfunc.c:174`) overlap and the client may get one object
  twice (`NoRepeats`). Both are violated in place of `OwnObjects` in `com_session.cfg`.
- The result of `tc_init()` is not looked at (`smhttp.c:814`): without a slave,
  `tc_next()` and `tc_break()` wait for ever, and `tc_free()` joins a thread that was never
  created, which is undefined.
- A session that ends with a read error leaves its slave running on a tree whose
  cache entry is released (`smhttp.c:829`, `:1110`).

Index
- An index whose objects could not all be written is marked clean
  (`smindex.c:264`), and so is one that two runs have written at once; a run that
  loads it lacks objects. `CleanWhole` and `LoadedExact` therefore speak of
  untainted indexes.
- Of an index with 2 GiB or more of objects or roles a part is loaded, and
  there is no error (`smindex.c:348`, `:422`, where the length is an int; `:632`, `:650`).
  `LoadedExact` leaves out runs that met such a chunk.
- With -m and -x the index is loaded with pointers into a buffer that nothing was read into
  (`smrender.c:1003`, `:1208`; `smindex.c:456`). `LoadedExact` leaves these runs out.
- Objects that a failing `index_read()` has put into the tree stay there when the
  data is parsed after it. `ParsedExact` says of every run that parsed that it has all objects
  of the data, as they are there, and of those whose index was not spoilt that it has no others.
- Role numbers in the index are those of the writer, whose table begins with the
  roles of its rules (`osm_func.c:269`): with rules whose relation members have
  roles in another order, a run that loads the index reads other roles.
  `index_safety` has rules with roles in the order of the data.
- A dirty or malformed index is treated as a missing one, since `index_read()`
  returns -2, which is `ESM_NOFILE`; only an index shorter than its header (a run
  killed right after `creat()`) ends the program with "index file corrupt".
- `index_read_objs()` refuses an object that exists already only if it is the first
  one of the file, since `ctrl` is NULL after it.

Reader and writer
- The end of a comment or of CDATA is looked for behind its 7th or 12th character
  (`libhpxml.c:403`), so empty ones are not recognised as closed. Whether blanks
  around a literal are kept depends on where the buffer was filled (so
  `StreamExact` leaves texts out). Lines are counted twice behind a refill.
- Blanks of half or more of the rest of the file end the reading: the loop in
  `hpx_proc_buf()` compares their number with the length that it decrements
  (`libhpxml.c:505`). The tags behind them are lost, and there is no error. `StreamExact` and
  `ObjectsExact` say what is read up to them.
- `<` and `"` in tags are written as entities (`smosmout.c:52`), but entities are not taken
  back when a file is read (`smloadosm.c:462`), so they grow with each run. The changeset is not
  written, positions are written with seven digits. References of ways to nodes that
  are not in the data are removed (`smrender.c:224`), those of relations are kept.
- A tag with more than 16 attributes is an error. `<tag></tag>` counts its closing
  tag. A read error ends the loop with what was loaded so far, and result 0.
- With a box, ways that come before their nodes lose the references to them. Of
  duplicates the last one is kept.
- With -n, the mask for ids made positive is computed in an int and may be one bit
  short; ids collide (`OutIdsDistinct`; `smrender.tex:406`).
- Members that are relations are written with type way. Renumbering one file
  changes the ids of objects shared with another; unresolved references keep the
  old id. Relations that contain each other make `out` recurse without end.

Actions
- The reverse index covers the data at the time it is made (`smrender.c:1275`);
  `shape` and `refine_poly` never enter their nodes, `simplify` and `check` leave entries behind.
  `IndexComplete` speaks of the ways that were indexed.
- `split` of a way with a missing node logs what "should not happen" (`smfunc.c:2340`, `:2406`;
  `NothingEmerges`, in place of `IndexComplete` in `way_edits.cfg`, is violated).
- `zeroway` at a node with three ways or more loses ways from the list of the new node: `k` is
  never incremented (`smfunc.c:2250`, `:2265`), so each way takes the slot of the one before,
  and a later split or `zeroway` at the new node leaves those ways as they are. `data.raw`
  has them. `IndexComplete` and `SplitExact` without this exception are
  violated in `way_edits.cfg`.
- `zeroway` uses NULL if the last parent of a node is a relation. A node that is
  repeated in the part split off overwrites the terminator of its list.
  `reverse_way` leaves the end nodes, `simplify` may open a ring, and `wrapdetect`
  also marks long segments that do not cross the meridian.
- A point on a side of the page that is not between start and end may be added by
  `connect_open()` (`MiddlesOnTheWay`; `smcoast.c:56` says it is); corners are
  right (`CornersOnTheWay`). `connect_almost_closed()` appends to the way it was
  made from and not to the joined one. Ways that contradict each other in
  their direction are dropped, hence `WellDirected`.
- `del_match_tags` and `translate` with an exclusion use the index INT_MAX that
  stands for "no tag matched". `translate` changes the first matching key only
  (`smrender.tex:2505`). `set_tags` appends a key that is there already.

Sub-processes and HTTP
- Of several commands in one `read()` only the first is executed
  (`smrender.tex:1977` promises an answer to each), and text that begins with '#' is dropped with
  all that follows. The processes of the model wait for the status.
- A negative code ends the pass of the rules, not the program: `main()` does not look at the
  result of `execute_rules()` (`smrender.c:1301`), and the rules of later versions are
  served, while `smrender.tex:1996` says that smrender stops immediately (`StopsAtOnce`, violated
  in place of `ObjectsInOrder` in `exec.cfg`).
- If `parse_exec_args()` fails, `ec` is freed and used. A grandchild that keeps
  stderr open blocks `exec_cli()`. After a negative code neither fini nor
  `waitpid()` is called.
- A websocket session that ends normally, and a failing `http_init_ws()`, leave the
  descriptor open; when none is left `accept()` fails and the program exits.

## 5. Proofs

`RuleEngineProofs` proves for every number of threads, list length, set of objects,
rules, schedule and results, from the assumptions `PoolAssumption` and
`EngineAssumption` (which are typing):

- `TypeCorrect`: `Spec => []TypeOK`
- `OwnershipHolds`: the slot that the main thread fills waits and its worker is not
  running
- `ListFitsHolds`: no list is longer than `ObjMax`
- `ListHandedOverHolds`: the action property of who changes a list
- `FiniSafeHolds`: fini runs with no worker in main and on live data. It assumes
  `InisSucceed` (no ini returns a negative value, and those of the further copies return 0);
  without it there is no data to speak of.

The properties are not inductive. `IInv` adds, to the types:

- `WorkerStatus`: a worker in its unlocked part has status EXEC, one that has left
  has EXIT. Without it a slot that waits could have a running worker.
- `SlotWaits`: from `Acquire` until `Dispatch` the current slot waits. It carries
  `Ownership` over the traversal.
- `ListRoom`: the list has room where an append may follow; a worker that leaves
  a list because of an error has taken at least one object, so what remains is
  shorter than `ObjMax`. This is why the residue of finding 1 does not overflow.
- `Quiet`: no slot has EXEC when fini, the next rule or the end is reached. It is
  established by `sm_wait_threads()`.
- `MObj`, `InSchedule`: the object in hand and the position are real.
- `FiniData`, only for `FiniSafeHolds`: a rule that is neither finished nor off has
  live data, in each copy that `call_fini()` visits.

`InitInvariant` and one lemma for each action give `InductiveInvariant`;
`Invariance` combines them with PTL. Every lemma treats the conjuncts that its
action disturbs one by one.

`QueryCacheProofs` proves, for any number of threads, entries, boxes, queries, any
time and any number of leaks, from `CacheAssumption`:

- `CountersRight`: `Spec => []CtrCountsUsers`
- `NoUseAfterFree`: `Spec => []UseLiveTree`
- `EntriesStable`: `Spec => EntryStable`
- `TypeCorrect`: `Spec => []TypeOK`, in particular that no counter gets negative

An address that was freed is given out again, so `UseLiveTree` is not about names that are
used once: it needs that each tree has one owner. `IInv` adds `SlotOfUser` (a thread has an
entry exactly while it works), `FreeUnused` (a free entry has no users, which is why `qc_put()`
may overwrite it) and `Carries` (which variables a thread at a given place has set). As long
as `qc_cleanup()` has taken no entry twice it adds `Owned`: an entry in use has a live tree
(`EntryLive`) that is in no other entry (`OneEntry`), the tree that a thread is about to
free is live, in no entry in use and in nobody else's hands (`VictimOwn`: the reason why
freeing it outside the mutex is safe), and so is the one that a query returned, until it is put
(`HandOwn`). `qc_cleanup()` may take a free entry again, since that keeps its age of 0 and
its pointer, and from then on `Owned` is lost: `UsersSafe` does not hold
(`cache_double_free`, section 4). The other theorems do not depend on it. The counting rests
on two lemmas, `OneMoreUser` and `OneUserLess`, and these on the library's facts about finite
sets.

The second part of `RuleEngineProofs` proves what the engine promises if functions
return 0.

- `NoConcurrentMainHolds` and `AppliedOnceHolds` assume `MainsSucceed` (main returns
  0; ini may return what it likes): as soon as main fails, objects stay in a list for
  the next rule (section 4), and neither property holds.
- `ImplementsRunsSafety` assumes `RulesSucceed` (ini returns 0 as well): the engine
  starts as `RuleRuns` does, and every step is one of `RuleRuns` or a stutter under
  the refinement mapping. `ImplementsRuns` asks for its fairness too, which stays with
  TLC.

`RInv` extends `IInv` by the question where an object can be: not visited yet, in the
hands of `apply_rule()`, at one position of one list, or in one worker's main, and in
one of these at most (`Apart`). `Holding` ties the hands to the program counters;
`Drained` says that lists are empty between rules, without which the objects of one
rule would be counted for the next; `NoErrors` that no result other than 0 is under
way. `Counted` then says that what matched and is in none of these places was given to
main once; `Apart` makes the count of a step unique.

`TraverseComProofs` proves for any number of objects and rules: `TypeCorrect`,
`ExclusionHolds`, `InOrderHolds`, `OwnObjectsHolds` and `ValidUntilFiniHolds`. The
invariant has two layers because `tc_break()` unlocks a mutex it may not hold.
`Locked` (the holder of the mutex is the thread in a section) and `First` (the slave is
at most one object ahead of the client) hold until then, and give `Exclusion` and
`InOrder` for the first rule. `Ruled`, `Broken` and `Own` do not use the mutex, and hold after
each single access when sections overlap: `tc_break()` waits for the slave's READY, and
what the slave may still do before and after it (`Ruled`, `Broken`) is such that no object of
an old rule is handed over to the next, and none before the last one received (`Own`). The same
object may come twice, so `OwnObjects` does not say more (section 4), and it
is about sessions in which `init_rule()` did not fail (`NoneFailed`). `ValidUntilFini` is what
is true of `RuleValid`, which section 4 refutes: a rule may be freed only between the answer of
`act_ws_traverse_fini()` (`Answered`) and the end of `call_fini()`.

`ObjTreeProofs` proves `GetLastPutHolds`: an id and a type give what was put last,
for any ids, digits, width and types, with handlers that change the tree during a
traversal. It assumes `PathInjective` (ids that differ, differ in their digits: ids
have 64 bits, the digits cover them), `ObjAssumption` (an object is not NULL) and
`DigitAssumption` (typing). `IInv` is `TreeType`, `LeafHolds` (the leaf of an id
holds what was put last) and `Reachable` (all nodes on the way to an object exist,
without which `bx_get_node1()` would not find the leaf).

`TraverseExactHolds` is about `traverse()` with handlers that put and remove objects:
it visits in the order of the unsigned ids, no slot twice, and, if it ends without an
error, everything that was there all the time. It assumes two facts more:
`PowerAssumption` (the laws of powers, which the provers do not know) and
`SlotAssumption` (slots are numbered from 0). The order of positions in the trie is the
order of numbers: `Rank` of a path is the number its digits write (`NumberIs`), it
tells paths apart (`RankInjective`), and so are position and slot (`PositionInjective`).
`TInv` says of a running traversal that what was visited is behind it in order
(`Sorted`), that what is to be kept is still in the tree (`Kept`), and that nothing
behind it was left out (`Complete`). The recursive function in `Rank` is met with
induction over a set of naturals (`InductionTo`), from the least element that is not in
it, since the library's induction takes an operator as a parameter. The few lemmas about
natural numbers that several proofs need are at the beginning of each module, so that
each can be checked by itself.

`ExecCliProofs` proves for any number of rules, objects, commands and crashes:

- `AnsweredHolds`: a process gets one status for each command, the one that belongs to
  it, also if processes send comments.
- `ObjectsInOrderHolds`, if `NoComments`: `exec_cli()` drops what it has read
  together with a comment, so with comments a negative code can get lost and a later
  rule be served (section 4). It speaks of one pass: after a negative code
  no later rule of the same pass has got an object; those of the next passes may.

`IInv` splits the rules by the place of the parent: those ahead of it are `Untouched`, also
those that a negative code has made it skip; those it is through with have ended or were halted
(`Past`), and a halted one has sent a negative code (`Halts`); for the one whose turn it is
(`Current`), `Stage`, `Streams`, `Dialogue` and `Result` say what both sides know. The core is `Talk`, with the six
states of a dialogue: the process has the word (`HasWord`), the object, the end or an
answer is on its way to it (`GetsObject`, `GetsEnd`, `GetsAnswer`), its command is on
the way to the parent (`Asks`), or was lost (`Lost`). Each of them relates the contents
of both pipes to what was asked, so a step of either side moves from one to another.
A process that dies, or cannot be executed, leaves `Talk` but not `Result`.

`IndexFileProofs` proves for any data, edits, rules, number of runs, failing writes
and kills at any step:

- `ParsedHolds`: a run that had to parse has every object of its data as it is there,
  whatever `index_read()` has left in the tree, and whatever objects rules make.
- `ParsedExactHolds`, if `NothingMade`: such a run has these objects and no others, unless the
  index it met was not whole; then what a failing `index_read()` has left may remain.
- `LeavesUsableHolds`: a writer that nothing has disturbed leaves an index that is
  marked clean and ends with the objects that its header counts.
- `CleanWholeHolds`, if `NothingMade`: an untainted index that is marked clean and not
  older than the data holds exactly the objects of the data.
- `LoadedExactHolds`, if `NothingMade` and `RolesInOrder(all)`: a run without -m that loads an
  index and is not spoilt has the objects and roles that parsing would have given it.

`NothingMade` says that no rule makes objects as the action `grid` does; such objects
are written to the index too (run `index_grid`, section 4). `RolesInOrder(all)` says
that the roles of all rules and of all versions of the data are beginnings of one
list; otherwise a reader's numbers are not those of the writer (section 4). The
instance of `index_safety` satisfies both, with `<<outer, inner>>` for `all`. The
assumptions on constants are typing (`IndexAssumption`) and that the roles in the data
are listed and have names (`RoleAssumption`).

The invariant has three layers. `IInv` needs no hypothesis: `Alone` says that an
untainted index has one writer at most, whose place in `index_write()` determines its
cells: they are the first `pos - 1` of what it is to write (`Layout`); so a write that
replaces a chunk header meets the header it wrote itself. `WInv` follows the contents:
`Exact` (a run that is not spoilt writes the objects of its version), `Clean` (a clean
header in an untainted index means that it is `Whole`, and there is no writer) and
`Reading` (a run that is not spoilt reads a whole index, of its version, to its end and
never leaves it half way). It needs `IInv` at the step that makes the header clean,
where `Layout` becomes `Whole`. `LInv(all)` adds the numbers of roles: the tables of the
runs (`Tables`) and of the index (`Indexed`) begin `all`, and a reader that is past the
role chunk has all the names that the objects may refer to (`Reach`). Prefixes and the
role table are folds over sequences; `UptoIs` and `PrefixIs` unfold them once, by
induction over a set of naturals.

`TagActionsProofs` proves for any data, rules and number of calls:

- `MatchMeaningHolds`: `bs_match_attr()` decides what the manual says, for patterns
  that exclude a key or a value alone (with both, it does not mean anything simple).
- `TagsKeptHolds`: only `del_match_tags` removes or moves a tag, and a value changes
  only where the call may overwrite it.
- `InheritsDownHolds`: all keys reach all nodes or members. Upwards they do not
  (run `inherit_up`, section 4).
- `MaskSpreadHolds`: what `mask` leaves is spread, and what it masks is near to one before it
  in the order of the tree that is left.

The assumption on the constants is `TagAssumption`: tag lists and patterns are such,
ids in the data are natural numbers, every node has a position. `IInv` is `TypeOK` and
`NewNodes`: the objects are those of the data and negative ids in a row, so that a new
node replaces nothing and `TagsKept` holds for it too. `MatchIs` says once what
`MatchAttr` returns (the first tag that is hit); `KeyIndexIs`, `KeptAppend` and
`KeptReplace` say what setting a tag does to every other key, and `CopyTagIs` puts them
together. The loops over keys and conditions are recursive functions: the lemma
`Recursion` gives a function that satisfies the equation, and
`InductionTo` carries a property along it (`InheritedIs`, `TranslatedIs`, `DeletedIs`,
`MaskedIs`). For `mask`, `InOrderIs` shows that the ranks enumerate the nodes in
the order of the tree (`Before`, negative ids last), and `MaskedIs` that an index is masked exactly by an earlier one
that is not.

`WayEditProofs` proves for any data, distances and number of calls, with functions in any
order:

- `TypeCorrect`: positions, ways and lists of parents keep their form.
- `NewIdsAreNew`: a new node or way takes no id that is in use, nor one that a way has for
  a node that is missing.
- `IndexStaysComplete`: the list of a node has every way the node is in (`IndexComplete`),
  except for ways in `raw`: those that were never entered with all their nodes, and those that
  `zeroway` overwrites in the list of a node where it finds more than two ways.
- `DirectionIsSet`: `set_ccw` and `set_cw` give the wanted direction and the same ring.
- `SplitIsExact`: `split` keeps every segment of every way, and with `remsegment` removes
  exactly those that begin at the node, as long as `raw` is empty.
- `WrapIsMarked`: `wrapdetect` loses no node, and what jumps over the seam afterwards begins
  at a marked node.

The assumptions are `MapsAssumption` and `NumbersAssumption` (typing, ids of ways below
those of relations, nodes that are missing have positive ids). `IInv` is `Sound(data)`: the
record is `Data`; `Fresh`, new ids are below all that are in use, also by ways for
nodes that are missing; and the index is `Complete` for the ways that are not in `raw`.
`Fresh` is needed for `Complete`: a new node with an id that a way refers to already
would be in that way without being in the index. `Within` carries the invariant through a
loop as a set of states that a turn does not leave (`SplitStates`, `ZeroStates`, ...); that
the recursive function behind a loop exists is `Recursion`.

The action properties need more than `IInv`. For `DirectionIsSet` the area is a sum that
reversing negates (`ReversedArea`), and a bijection of the places keeps the number of
segments between two nodes. For `SplitIsExact` each cut is a bijection of segments, without
the removed one (`CutSegments`); the loop keeps that the parents before its
position end at the node (`Ending`), which stays true because the list of the node only
gets longer (`Begins`) and no cut puts a node behind the node (`CutKept`). When the loop is over
all parents are ending, and since the index is complete they are all the ways the node is in. For
`WrapIsMarked`, `Above` gives the old nodes of a way, which an insertion does not change
(`AboveTwo`); `Walked` says that everything behind the loop is marked, and that the node it
goes on from, which may be one of the two inserted, is on the side of the one before
(`OnSide`): what crosses behind the one crosses behind the other (`SeamFits`; the converse is
false, section 4, `OnlyWraps`). The
second part assumes a way whose nodes are all there, on the map (`OnMap`): with longitudes
beyond the meridian the distance to the seam may be more than half the map.

Only model-checked:

- liveness and fairness: `Terminates`, `FreeReturns`, `Finishes`, `RoundsEnd`, and the
  part of `ImplementsRuns` that says every application ends;
- `JoinedOnce`, `RingsClosed` and `CornersOnTheWay` of CatPoly, `StreamExact`, `ObjectsExact`
  and `FileConsistent` of OsmFile: the phases of `cat_poly()` and the scanner of `libhpxml.c`
  are RECURSIVE operators, which tlapm cannot unfold, and what they compute is said by
  induction over the data (the list of open ways, the text), for which the library's
  theorems take operators as parameters;
- that a loop of WayEdit ends: the proofs are about calls that take `MaxTurns` turns at most,
  for every `MaxTurns`;
- HttpConn, whose run is a counterexample.

## 6. Not modelled

- Drawing, graticule, images, tiles, KAP (`smrules_cairo.c`, `smgrid.c`, `rdata.c`,
  `smtile.c`, `smkap.c`, `bspline_ctrl.c`): floating point and calls of cairo.
- The syntax of rules (`smrparse.c`), options, units, log and JSON output: text.
- `smdb.c`: `get_obj_bb()` walks a tree once that does not change; its result is a
  tree in QueryCache. `list.c` and `bstring.c` are containers without state of
  their own.
- Framing of websocket messages (`websocket.c`) and the client program.
- Of the reader and the writer: version, user and time of an object, which are copied; the
  output of -o; an id that becomes 0 by -N, which the reader would take for a missing one.
- `smem.c` is not called. `libsmfilter` and `libskel` are examples of action
  libraries, `tools` are separate programs.

`PROJECT.json` lists every component with its status.

## 7. Plan

Done, with proofs: ThreadPool, RuleEngine and RuleRuns; QueryCache; TraverseCom;
IndexFile; ExecCli; ObjTree; TagActions; WayEdit. Done without: HttpConn; CatPoly;
XmlStream and OsmFile. What is left, most important first:

1. Proofs: what can be said of CatPoly and OsmFile with recursive functions
   in place of their recursive operators (typing, conservation of ways); that threads
   of `http_fd` use a descriptor of their own as long as nobody closes one twice.
2. A session that composes QueryCache and TraverseCom: what a slave that is left
   behind does to the tree of a released entry.
3. Frames of websocket messages over partial reads.
4. `get_obj_bb()` against closure under references.
5. The remaining ini functions of the rule parser, with failures at each step.
