# Verification of mini_web_server

This directory holds TLA+ specifications of the server under `src/`, the TLC
configurations that check them on small instances, and TLAPS proofs of the
properties that matter most.

## 1. Inventory

The program (`src/src/main.c`) runs in one of several modes (`-m tcp`, `fork`,
`thread`, `pool`, `select`, `epoll`, `process`, or from a configuration file as
master and workers).  All modes answer a connection with the same request handler and share the
same stores.

| Component | State | Operations | Hard behaviour |
|---|---|---|---|
| Thread pool (`thread_pool.c`) | ring buffer of descriptors, slots `worker_active`/`workers`, `num_workers`, statistics, `shutdown` | create, add_task, worker loop, shutdown, destroy | mutex and two condition variables; scale-up by callers, scale-down by idle timeout; draining; lock-free reads in destroy |
| Pool server (`tcp_pool_server.c`) | `g_shutdown`, listening socket, `clients_served` | accept loop, SIGINT, report | signal against accept, shutdown while blocked on a full ring |
| Process server (`process_server.c`) | queue of 64 paths, `tasks_sem`, `done_flag`, statistics | fill, spawn, worker loop, join | semaphore and condition variable together, threads that cannot be created |
| Master and workers (`master_worker.c`) | `g_workers[]`, `g_num_workers`, `g_master_shutdown`, processes | fork loop, SIGCHLD, SIGINT, terminate, wait, kill | handlers between any two steps; children reaped before recorded |
| Sessions (`session.c`) | `g_sessions[1024]`, `g_hash[256]` | create, lookup, destroy, cleanup | linear probing without tombstones, expiry, full index |
| Route table (`route_table.c`) | exact and prefix entries, one global hash index | add, find, validate | probe chains shared by paths and methods, 405 against 404 |
| User store (`user_store.c`, `user_index.c`) | shared mapping: list, red-black tree, pools; per-process root | load, add, delete, find, auth | several processes, one lock, unlocked readers, a root copy per process |
| Log (`log.c`) | two stream pointers, line counts | init, write, rotate, reopen, close | both pointers may be one stream; several processes rotate the same files |
| Epoll server (`epoll_server.c`) | connection table, interest list, `g_active_conns`, document root | accept, receive, answer, idle closing | table full, stale events, several workers on one listening socket |
| Select server (`select_server.c`) | connection table, `master_set`, `max_fd` | the same | `max_fd` repaired by hand on five paths and left alone at the end, descriptors reused within a round |
| Fork server (`tcp_fork_server.c`) | copies of descriptors in parent and children | accept, fork, reap, last sweep | children that end at any moment, signals against accept and usleep |
| Thread and sequential servers | detached threads | accept loop, teardown | teardown under running threads |
| Request handler (`request_handler.c`) | static response buffers, current root, redirected standard output | connection loop, dispatch, authentication | buffers shared by threads, output captured through a pipe |
| Configuration (`config.c`) | server blocks | parse, validate, find_server | order of matching |

Interaction: the accept loops hand descriptors to the pool, to threads or to
child processes; every one of them calls
`request_handler_handle_connection`, which uses the route table, the sessions
and the user store and writes the log.  The master forks workers that run the
epoll loop on an inherited listening socket and an inherited shared mapping.

What makes each component correct is listed under "hazards" in `PROJECT.json`,
at the line where it can go wrong, with the properties that would catch it.
In short:

* *Thread pool*: no descriptor lost, handled twice or left open; slots and
  counters agree with the threads; blocked callers and sleeping workers are
  released; everything accepted is served before the ring is freed.
* *Master and workers*: no child is ever forgotten; shutdown ends; nobody is
  killed before the grace period is over.
* *Event loops*: table, kernel set and counters agree after every way a
  connection can end; no event is applied to a connection it was not meant for.
* *Stores*: an index finds just what is stored; unlocked readers are not misled;
  every call returns.
* *Route table*: no order of the routes and no collision hides one, except
  behind an earlier method of the same path.
* *Request handler*: the answer to a request is its own although the buffers,
  the document root and standard output belong to the process.
* *Log*: a line is kept as long as rotation promises, in order, whoever else
  rotates or dies, and no closed stream is used.

## 2. Plan

Order: what several threads or processes do to shared state first, then the
sequential data structures every request relies on, then the rest of the modes.

Done:

1. `ThreadPool` with its abstract contract `ConnQueue`, `PoolServer` (composes
   `ThreadPool`), `ThreadPoolProofs`.
2. `MasterWorker`, `MasterWorkerProofs`; `ProcessServer`, `ProcessServerProofs`.
3. `SessionTable` with its abstract contract `SessionStore`; the theorems about
   it are in `MasterWorkerProofs`. `UserStore`, `UserStoreProofs`;
   `UserTree` (the links of the index) and `UserIndex`; `RouteTable`.
4. `EpollServer`, `SelectServer`, `ForkServer`, with `EpollServerProofs` and
   `SelectServerProofs`; the theorems about `ForkServer` are in
   `ProcessServerProofs`.
5. `LogFiles` (`log.c`), `LogFilesProofs`.
6. `RequestHandler` (`request_handler.c`) over `RouteTable`, with
   `config_find_server`; `ThreadServer` (`tcp_thread_server.c` and
   `tcp_server.c`) over `RequestHandler`; `ThreadServerProofs` about all three.

Next, in this order:

7. `EpollServer` under `MasterWorker`: the worker's life is abstract in the
   latter, the master is absent from the former. The property to reach for is
   that a shutdown of the master leaves no connection open.
8. The request loop over `SessionStore`: a login in one request and the
   session's use in the next.
9. The legacy server of request files, which shares no code with the others.
10. The readers of the index (`user_store_search`, `bst_format_users`) between
   the turns of an insertion: they take no mutex and can follow links that a
   rotation changes. `UserIndex` has the turns, but no readers between them.

## 3. Modules and code

One action stands for what lies between two points at which another actor can
see or make a difference; the comment at the head of each module says where
these points are. Names of variables, states and operators are those of the
source wherever that is possible. `PROJECT.json` ("map") gives the lines of
every definition.

| Module | Code | State in the model |
|---|---|---|
| `ConnQueue` | contract in `thread_pool.h` | a FIFO `waiting`, the sets `serving` and `served`, `open` |
| `ThreadPool` | `thread_pool.c` | the ring (`tasks`, `head`, `tail`, `count`), slots, statistics, `shutdown`; a program counter per worker thread (`wpc`) and per caller (`cpc`); the state of each descriptor (`fd`). A worker asleep on `not_empty` is in state "waiting", a caller on `not_full` in "notFull"; signals pick any sleeper, broadcasts wake all, spurious wake-ups and time-outs are actions |
| `PoolServer` | `tcp_pool_server.c` | extends `ThreadPool`: `server`, `g_shutdown`, `listening`, `clients_served`. The accept loop is the pool's owner and only caller; every pool step is an action of `ThreadPool` |
| `ProcessServer` | `process_server.c` | `queue`, `tasks_sem`, `done_flag`, statistics, one state per worker |
| `MasterWorker` | `master_worker.c` | `g_workers`, `g_num_workers`, `g_master_shutdown`, `remaining`; a pending SIGCHLD; the life of each child. The two handlers are actions enabled at every step of the main program |
| `SessionStore` | contract in `session.h`, as far as collisions leave it | the sessions that have not ended (`valid`); of their ids those a look-up is bound to find (`firm`: first of their probe) and those it finds at present (`loose`); the ids that ended |
| `SessionTable` | `session.c` | the slots, the index `g_hash`, the clock; a probe that would never end sets `looping` |
| `UserStore` | `user_store.c` | the linked list in shared memory, its pool, `size`, the mutex; a state per process; ghosts `present` and `absent` record whether a look-up's name was stored, or not, at some moment of the call |
| `UserTree` | `user_index.c`: nodes, rotations, transplant, the links of a new node and of a successor | none: the operators that change links in one place |
| `UserIndex` | `user_index.c` and its use in `user_store.c` | extends `UserTree`: the tree in shared memory, the root each process remembers; of the call in progress the place in the code (`stage`), its process, the user, and the node `at` that the loop has come to. One action is one turn of a loop, or the half of a turn that ends with a rotation |
| `RouteTable` | `route_table.c` | exact routes, prefix routes, the hash index; `Find` is the look-up |
| `RequestHandler` | `request_handler.c`, `config_find_server` | extends `RouteTable`: one program counter per connection, the static buffers, the root, the default table as it is filled, descriptor 1, its buffer and the pipes; `FindServer` and `Authorized` are pure operators |
| `ThreadServer` | `tcp_thread_server.c`, `tcp_server.c` | extends `RequestHandler`: the main thread, the listening socket, descriptors, whether log and store were freed; `mode` says which of the two servers runs |
| `LogFiles` | `log.c` | the files of both logs and their old ones with the lines in them; per process two stream pointers, two counts, the call in progress; a stream is known by the name its file has now, so a rename moves everybody's streams |
| `EpollServer` | `epoll_server.c` | per process: slots, interest list, the events of the round, the count; shared: the listening queue and the sockets |
| `SelectServer` | `select_server.c` | slots, `master_set`, `max_fd`, the rest of `read_set`, descriptor numbers as the kernel gives them out |
| `ForkServer` | `tcp_fork_server.c` | who holds which descriptor, the life of each child, a pending SIGCHLD, the parent's place |
| `*Proofs` | | theorems about the module of that name; those about `PoolServer` are in `ThreadPoolProofs`, about `ForkServer` in `ProcessServerProofs`, about `SessionTable` in `MasterWorkerProofs`, about `UserTree` and `UserIndex` in `UserStoreProofs` |
| `MC*` | | values for TLC: hash functions, host tables, loaded users, symmetry |

Abstractions that matter when reading the models:

* Time is kept only as "the time-out may happen": idle extra workers, quiet
  connections, the shutdown time-out of the master. Sessions have a clock with
  one tick per step, `TTL` ticks long.
* A client sends one complete message and waits for its answer, so partial
  requests and pipelining are out of `EpollServer` and `SelectServer`. Its
  message can be refused (400), answered, or be an end of file or a reset that
  replaces what was there. A client may stop reading: then the send lasts.
* A request's content appears only as far as a decision needs it: which host
  it names, which method and path, the role of its session or credentials. A
  page is known by its route, its document root and whose text is in it.
* The threads of `RequestHandler` interleave at every access to something
  static, and between the system calls of `capture_stdout`. One thread
  that fills the default table alone does so one `route_table_add` at a time,
  which is sound because nobody looks at the table before it is ready. Two that
  are in it together race over the count, the entries and the index
  (`route_table.c:163-200`): their stores are not followed one by one, instead
  the contents are unknown from then on and a look-up may find any route or
  none (`Findings`). Other data races are the interleavings of whole steps.
* `LogFiles` splits a rotation at each `fclose`, `remove`, `rename` and
  `fopen`. A line is one `write`, as it is flushed at once. An `fopen` may
  give the address of a stream that was closed before, so a dangling pointer
  may become a second pointer to the new stream.
* What `malloc`, `pthread_create`, `fork`, `accept`, `epoll_wait` and `select`
  may fail at is a failing action. Stores become visible in program order, as
  on the machines the build targets.
* A mutex that protects a whole step makes the step atomic; where the code
  reads without the mutex (`thread_pool_destroy`, `thread_pool_create` on its
  failure path, the look-ups of the user store) the steps are split there.

## 4. Runs

| Run | Bounds | Distinct states | What it shows |
|---|---|---|---|
| `pool_safety` | 2 core and at most 3 workers, 4 threads, 2 callers, ring of 2, 3 connections, symmetry | 429,403 | Slots match workers, each connection has one holder, core workers stay, the ring is empty and everything served when it is freed |
| `pool_server` | 1 core and at most 2 workers, ring of 2, 3 connections | 158,296 | The server over the pool refines `ConnQueue`, first in first out across the wrap of the ring, with its liveness; blocked callers return; SIGINT stops the server; the last report is exact |
| `process_run` | 4 files, queue of 3, 3 workers | 158,995 | No worker blocks for ever, both numbers of the report equal what became of the files, the server returns |
| `master_run` | 3 workers, 2 SIGINTs | 40,407 | Every unreaped child is in the table, none survives, none is killed early, shutdown ends |
| `epoll_run` | 2 processes, 2 connections, 1 slot each, rounds of 2 events, 2 requests per connection | 326,328 | Table, interest list and counts agree (`TablesAgree`); no event is stale (`EventsAreFresh`); messages are received; signals stop the loop |
| `select_run` | 3 connections, 2 slots, descriptors 4 to 6, 2 requests per connection | 128,100 | `master_set`, `max_fd` and the table agree; `read_set` never names a stale descriptor; messages are received and SIGINT stops the loop (`ServerProgresses`) |
| `fork_run` | 3 connections | 10,864 | Every copy of a descriptor is closed by its holder, children are reaped; clients see the end and SIGINT stops the parent (`ServerEnds`) |
| `thread_run` | 2 methods, 2 paths, 2 patterns, index of 4, 3 routes, every hash function; then 2 connections, 2 requests, 4 kinds of request, 2 server blocks, modes `thread` and `tcp` | 1,467,882 | What look-up answers, for every table that can be built, unless two threads filled it together (`RoutesAreFound`); an undisturbed request gets its own page (`AnswerIsOwn`); SIGINT ends the process |
| `log_run` | main process and 1 worker, 2 old files of 1 line each, 4 lines, one failing `fopen` or death, 3 configurations | 1,249,952 | Lines stay in order, the end of a log is kept without a gap, streams stay usable |
| `session_run` | 4 ids, 4 slots, index of 3, every hash function, 3 ticks, symmetry of the ids | 227,766 | Live sessions stay in the index, a new session is found, the table refines `SessionStore` whatever collides, and no probe runs for ever before as many sessions were created as the index has entries |
| `store_run` | 2 processes, 2 names, pool of 5 nodes, header line in the file, a process may die at any step | 122,912 | The list is what the actions take it for; look-ups are exact; the count goes up and down with the list (`SizeKeepsPace`); calls return unless a process died in the critical section |
| `index_run` | 1 process, 9 users, 3 loaded in any order | 189,106 | After every sequence of insertions and deletions the walk of the index is the sorted list, a search finds who is stored, and the tree is red-black (`IndexIsSound`) |

Why the bounds are enough for the cases that matter:

* Pool: three connections wrap a ring of two and fill it while both callers
  wait; four threads let a slot be left, claimed again and rolled back while its
  last holder is still returning; a core and two extra workers make scale-up and
  scale-down overlap.
* Master: three workers give a child that is reaped before it is recorded, one
  in the wait loop and one that must be killed, all at once; the second SIGINT
  comes during the shutdown.
* Process server: one more file than the queue holds, and fewer or more workers
  than files, since any of them may fail to start.
* Epoll: a second process competes for each connection; with one slot per
  process the table is full with the first; two events per round make the first
  change what the second is about.
* Select: with three descriptors and two slots there is a newcomer for a full
  table, a newcomer without a descriptor, and a descriptor freed and reused in
  the same round.
* Fork: a running child, a child not yet started and an accepted connection
  without a child at once.
* Sessions: `MAX_SESSIONS` is larger than `SESSION_HASH_SIZE`, as in the code.
  With an index of three and four sessions under every hash function chains
  wrap, collide and get holes, displaced sessions are hidden and come back,
  entries of expired sessions are left over, and the index is full: the probe
  that runs for ever is reached, and so are the states before it.
* User store: three additions fill the pool; two processes, as an addition or a
  deletion has one other party that matters, the reader; the holder of the mutex
  dies at each of its steps.
* Index: nine nodes are enough for each case of both fix-ups on either side,
  the recolouring that climbs more than one level included.
* Routes: three routes in four places make chains of three, wrap-around, and
  one path under two methods with and without a prefix route that covers it.
* Threads: two threads interleave every step of two requests, for the same
  page or for two, one captured and one not; the second request of a connection
  meets what the first left in the static variables. Only a few of the tables
  are served (`ServedTables`): requests tell exact, prefix and missing routes
  apart, and the look-up itself was checked for all tables. With server blocks
  a request names the second block, none, or has roles to be checked.
* Log: with one line a file, four lines push one out at the far end, and each
  rotation has a loop of two turns; the worker and the main process rotate the
  same files at once, and one failure or death comes at each step of it.

`CHECK_DEADLOCK FALSE` is given to `session_run`, whose clock stops at
`MaxTime` and where a probe that never ends stops it, and to `log_run`, where
processes that close their logs, die, or have written `MaxWritten` lines do
nothing more. All other models end in named steps (`Finished`, `Stopped`,
`Over`, `Rest`, `Loaded`) that stutter only where the program has ended, sleeps
until a signal comes, or has nothing left to do; any other stop is reported as a
deadlock. Counters that grow are bounded by the sets of connections, files and
names, but for `MaxTime` (`SessionTable`), `MaxInterrupts` (`MasterWorker`),
`MaxRequests` (`MAX_KEEP_ALIVE_REQUESTS` in `EpollServer`, `SelectServer` and
`RequestHandler`), `MaxSent` (messages of all clients in `RequestHandler`),
`MaxRoutes` (`RouteTable`), `MaxWritten` and `MaxFaults` (`LogFiles`).

## 5. Fairness

* `ThreadPool`, `PoolServer`: weak fairness of every thread's own steps (the
  kernel schedules it), strong fairness of the steps that take the mutex, for
  which a thread competes again and again. `Handle` is fair since
  `request_handler_handle_connection` has a receive time-out of 5 s and a limit
  of requests. Nothing is assumed of clients, SIGINT, spurious wake-ups, idle
  time-outs or failures.
* `ProcessServer`: weak fairness of each thread. `sem_wait` needs no more,
  because no worker finds the semaphore at zero (`WorkersNeverBlock`).
* `MasterWorker`: the master is scheduled, pending signals are delivered.
  Workers may hang for ever: this is what SIGKILL is for.
* `EpollServer`, `SelectServer`: each process is scheduled. Clients need not
  send, close or read; the liveness properties except the wait for a client.
* `ForkServer`: parent and children are scheduled, SIGCHLD is delivered; a
  child ends, as its client is taken to read its answer and its request loop has
  a time-out and a limit.
* `UserStore`: a process is scheduled (weak) and gets the mutex if it is
  released again and again (strong). Nobody need call or crash.
* `ThreadServer`: weak fairness of the main thread alone. In mode `tcp` it
  handles the requests itself: `recv` has a time-out, and clients read what they
  are sent. With threads it waits for none of them.
* `SessionTable`, `UserIndex`, `RouteTable`, `LogFiles`: none, they have safety
  properties only (`SessionStore` is refined without liveness).

## 6. Proofs

All theorems hold for every value of the constants that satisfies the `ASSUME`
of the module (for instance `1 <= CoreSize <= MaxSize`, a ring of at least one
position, finite sets of threads and connections); each `ASSUME` is evaluated in
the runs as well.

* `ThreadPoolProofs`, about `ThreadPool` and `PoolServer`. The invariant `IInv`
  has five parts.
  - `TypeInv` (`TypeCorrect`): `TypeOK`, and that `pthread_join` is called for a
    slot below `max_size` (`JoinInRange`).
  - `SlotInv` (`SlotsCorrect` proves `SlotsMatchWorkers`): `workers[slot]` names
    the thread that works in the slot (`HandlesMatch`). The care is in the
    counting: claiming a slot adds one to the active slots, releasing it or
    rolling back takes one away, and by the invariant nobody else has that slot.
  - `HoldInv` (`HoldersCorrect` proves `OneHolder`): `tail` is `head + count`
    modulo the capacity (`RingInv`), so the positions in use are `count` different
    ones (the lemmas about `Ring`); a connection is open just when a caller, one
    of these positions or a worker has it, and no two of them have the same.
  - `CoreInv` (`CoreStays` proves `CoreWorkersStay`): there are as many core
    workers as were created, and each works until the pool is shut down and
    drained, for it never waits with a limit.
  - `EndInv` (`DrainCorrect` proves `DrainedBeforeFree`): the owner passes in its
    joins only slots that nobody has, or will have again, and nobody else is in
    the pool. When all slots are passed no core worker works, so by `CoreInv` the
    ring is empty.

  `PoolIsQueue` is the simulation of `ConnQueue` step by step, with the ring read
  from head to tail as the queue: every step of the pool is one of the queue or
  leaves it alone. `ServerIsQueue` is the same for the pool under the accept
  loop. `ReportCorrect` proves `ReportIsExact` with `Account`, a balance sheet:
  what the server counted, and the connection whose call has not returned yet,
  is together what is in the ring, in the hands of workers, and processed.
* `ProcessServerProofs`. `WorkersNeverBlock` proves `NoWorkerBlocks`. The
  invariant is an account of the semaphore (`UnitsMatch`): its units and the
  workers that took one without having taken a file yet are together the files
  queued and, once they are posted, one order to stop for each worker.
  `NotBefore` says that no worker exists before the posts are done, `NotYet` that
  the loop has not created the workers it has still to come to. `ReportCorrect`
  proves `ReportIsComplete` with `FileInv`: a file is in one place (`Placed`), both
  totals equal the outcomes but for the workers about to add theirs (`Counted`),
  and a worker that has returned has seen the queue empty (`Seen`).
* `MasterWorkerProofs`. `ChildrenRecorded`, `NoneSurvives` and `GraceIsGiven`
  prove `UnreapedIsRecorded`, `NoWorkerSurvives` and `NobodyKilledEarly`.
  `Control` says in which phase the main program can be where, and that the table
  is as long as the number of forks, but for the child just made; `Table` that
  child p has slot p or was cleared from it; `Killed` what the signals sent so
  far have achieved; `Waited` that the local counter of the wait loop is never
  below the number of children to be reaped. One lemma for all signals
  (`DeliverShrinks`) says that they only take workers away.
* `MasterWorkerProofs`, second part, about `SessionTable`, of which every worker
  has one; the module extends both, and they share no state.
  - `LiveStaysIndexed` proves `LiveIsIndexed`. It is inductive with the types:
    what the clean-up leaves of the index differs from it only where the slot
    expired (`CleanedIs`, along the slots), a removal empties the entry of the
    slot it frees, and a new session takes an empty one.
  - `CreatedFound` proves `CreatedIsFound`, for every hash function. A slot in
    use has an id that was issued (`UsedAreIssued`), so a probe for a new id
    takes no other session for its own; and the buckets before its entry were
    not empty (`Entered`).
  - `CallsDoReturn` proves `CallsReturn`, for a table that was initialised. A
    probe comes by every bucket (`ProbeIsOnto`), so one that never ends, also
    inside the clean-up, has met no empty entry (`LoopMeansFull`); and an
    operation fills an entry only with a session it creates, so that there are
    at most as many entries as sessions were created (`FewEntries`).
  - `TableIsStore` proves the refinement `ImplementsStore`. An id is found when
    its probe comes to its entry before an empty one (`Chained`), it is firm when
    that is the first bucket (`AtHome`); `StoreIsSeen` says so of the mapping. A
    step that takes entries of other slots away can break chains and nothing else
    (`EntriesGo`), one that fills an empty entry touches no other session's home
    bucket; `StepIsSeen` sums up what the steps do and the lemmas after it turn
    each into a step of the store.
* `UserStoreProofs`. `NamesStayUnique` proves `NamesUnique`, `CountNeverDrifts`
  `SizeKeepsPace` and `LookupsAreExact` `FindIsExact`; `HeaderIsCounted` settles
  when `user_store.h:29`, "current user count", is true of the field: always if
  the file has no header line, never if it has. The invariant has four parts
  besides the types: who holds the mutex (`LockInv`); the shape of the list
  (`ListInv`: links lead to older nodes and never over a node that is in the
  list); the count and by how much it is late (`SizeInv`); and what a reader has
  ahead of it (`ReadInv`): its name, unless that was absent at some moment of the
  call, and nothing that was not stored during the call. The last point is
  stated by a set of nodes that the reader cannot leave (`Confined`), which
  spares an induction along the list: a node that is put in front is not
  reachable from it, and an unlinked one keeps its link. `ListIsWhole` proves
  `WalkIsLinked`: membership in `linked` satisfies the equation of the recursive
  function that walks the links (`LinkedFromLinked`), and the equation has no
  other solution, since links lead to older nodes (take the first node at which
  two solutions differ).

  The second part is about the index, with any number of users.
  `IndexStaysSound` proves `IndexIsSound`, by way of `IndexStaysInShape`: the
  invariant `IndexInv` says what the tree is at every turn of the loops.
  - `SearchTree(t, S, U)`: `t` is a search tree of the users in `S`, and those
    below node `n` are `U[n]`. The sets `U` take the place of a definition of
    "below" by recursion: they are equations between a node and its children, so
    that a change of links needs only the new `U`. A search tree has no cycle
    because the sets get smaller (`FewerBelow`), each node but the root hangs below
    one parent, and a node is below another if the way leads there.
    `RotateKeepsTree` (either side, also at the root), `TransplantKeepsTree` (out
    goes a user who lacks a child), `HangKeepsTree` (a new user) and
    `SucceedKeepsTree` (the successor takes the place of a user with two
    children) name the new `U` for each operator of `UserTree`.
  - `Heights(t, S, H, p, a)`: `H[n]` is the number of black nodes on every way
    down from `n`, where one may be missing on side `a` of `p`; `RedRule`: a red
    node has black children, with at most one exception. Each stage of a fix-up
    has its own form: in an insertion the red node `z` may have a red parent
    (`Inserted`, and `Outer` before the second rotation); in a deletion a black
    node is missing above `x`, which may be the sentinel that all leaves share
    (`OneShort`, `BlackSibling`, `RedNephew`). That its parent link is then the
    right one is part of these: the code reads it.
    There is one lemma for each case of `rbt_insert_fixup` and
    `rbt_delete_fixup`, for either side, and one for each action that takes it.
  - Between calls `Finish` forgets what no link leads to (`FinishIs`), and the
    new node of the next call is prepared from it (`InsertStep`).
  - The walks are recursive functions. That they exist, with the equation that
    defines them, is proved (`Iterates`, `Iterated`); `WalkLists` (`bst_inorder`
    lists the users in order), `SearchFinds` (`bst_find` finds them) and
    `HeightsMeet` go level by level, by the least level at which they would fail
    (`LevelByLevel`).

  The hypothesis of both theorems about `IndexSpec`, `OneProcess`, says that one
  process adds and deletes users, as in the modes that serve from one process,
whose threads share the root. It is what the code needs, as section 7 shows.
  The theorems about the operators and the walks do not need it.
* `ProcessServerProofs`, second part, about `ForkServer`, which the module
  extends beside `ProcessServer`; the two share no state. `CopiesClosed` proves
  `CopiesAreClosed`, with `ForkControl`:
  a connection is in the parent's hands just between accept and close, it has no
  child before the fork, and no connection has a child before it was accepted.
  One lemma covers the two signal handlers, which change no descriptor.

* `SelectServerProofs`. `TypeCorrect`, `TablesAgree` (proves `SetsAgree`) and
  `ScanIsFresh` (proves `ReadSetIsFresh`). `Linked` ties a connection to its
  socket, `OneSlotEach` says that no two slots have one connection,
  `SetIsExact` that `master_set` is what the slots hold and the listening
  socket, `CountIsExact` that `g_active_conns` counts the slots in use; `Turn`
  places the scan between the descriptors it has seen and `max_fd`. The five ways
  to close a connection in the loop share one lemma, `DropKeeps`; the last close
  of all, which empties the set and leaves `max_fd` as it is, has `ShutFrees` and
  `ShutKeeps`. The search for the next lower `max_fd` is exact by `LoweredIsLargest`, whose maximum exists
  because strict subsets are well-founded, without an induction.
* `EpollServerProofs`. `TypeCorrect`, `TablesCorrect` (proves `TablesAgree`) and
  `EventsFresh` (proves `EventsAreFresh`). `Linked` says which process holds which connection, `Turn`
  what of the current round is left; an event that is still to be handled is
  about a connection the process holds because only the handler of its own
  connection takes one away. That a newcomer finds a slot while the count is
  below the limit (`FreedAreCounted`) comes from a bijection of slots and
  connections. The sum over all processes in `TablesAgree` is a fold; it is the
  cardinality of a set of counted units (`UnitsAdd`), because the equation of the
  fold has one solution (take a smallest set of processes on which two differ).
  It needs that the processes are finitely many, as `ProcsAssumption` says.
* `ThreadServerProofs`. `RoutesSeen` proves `RoutesAreFound`, `AnswersAreOwn`
  proves `AnswerIsOwn`.

  The first is a fact about the index that `Rebuilt` makes (`RebuiltIndexes`):
  every route is reached from its hash across earlier routes only (`Meets`),
  because an insertion fills the nearest free slot and never empties one
  (`InsertKeeps`), and a free slot is left since `MAX_ROUTES < HASH_SIZE`
  (`SomeAreFree`). So a probe ends at the route or earlier at one with its path
  (`ProbeFinds`), and the second only if that one was added before. `TableOK`
  says that the index was made from the table, and every step keeps it; once two
  threads have filled the default table together nothing is claimed.

  The second is about everything that is static. `OwnInv` says of a thread that
  nobody disturbed what each buffer holds for it at each step (`Own`): the root of
  its host, its name in `g_compare_ctx`, descriptor 1 and its text alone in its
  pipe, its page in the body and then in the response buffer. `HitInv` says that
  what it looked up is what the table should give, `FillInv` how much of the
  default table is there while one thread fills it, `PipeInv` that only threads
  that capture have text in a pipe. `NotYet` says that a connection that was not
  accepted has no thread. Each action has a lemma; a step that leaves the thread's
  text alone is covered by the lemmas on frames (`MovesKeep`, `RestsKeep`).
* `LogFilesProofs`. `StreamsStayOpen` proves `StreamsAreOpen`. `Sound` says for
  each process what its two pointers may be at each step of a call, as long as
  the access log has its own path and did not fail to open; the invariant is
  that implication, so a failure to open the access log needs no case.
  `MovedKeeps` covers every `remove` and `rename` of any process: streams stay
  open and in their log.

  `OrderStays` proves `OrderIsKept`, in every configuration and with any number
  of processes that rotate at once. The property alone is not inductive, as a
  process may still write to a file that others have renamed. `AllBehind` says
  that nothing a process wrote to a log is in a file newer than the one its
  stream is on, and `Numbered` that no line has a number its process has not
  reached. `Moves` describes every `remove` and `rename` at once: contents and
  streams move together, and never past one another.

  `RecentStays` proves `KeptIsRecent`. `Shape` is what one process keeps true of
  a log that it alone writes: its stream is on the current file (`Attached`), a
  file is renamed only to a name that is free (`Vacated`), the current file is
  full when it is renamed since the count is never above its lines
  (`CountIsLow`), and so an old file with number a has `Newer` full files after
  it (`Spread`): what `remove` takes is older than the last `MaxRoll * MaxLines`
  lines. The others must leave that log alone: a worker that has written nothing
  to it has nothing to rotate (`Silent`), and before the main process has
  written its first line there is no worker (`BeforeFirst`).

Every invariant that a run checks is also proved. What is checked by TLC only is
liveness, that of the refinement of `ConnQueue` included: liveness under fairness
and ENABLED are out of the prover's reach. So are the induction theorems of the
library, which take an operator as a parameter: where a proof needs an extreme
element, a count or an induction it is taken from facts about finite sets. Type correctness is proved for
`ThreadPool`, `ProcessServer`, `MasterWorker`, `SessionTable`, `UserStore`,
`ForkServer`, `SelectServer`, `EpollServer` and `LogFiles`, and not repeated in their runs.

## 7. Where code and documents disagree

Statements of comments and documents that the models do not satisfy are written
down at the end of their modules, each with its source. No run checks these.
The one that matters most is `FindsListed` of `UserIndex`, when more than one
process adds and deletes users (`user_store.c:362`, "sync to shared memory"): a
writer keeps the root of the shared red-black tree in a global of its own process
and stores it in the shared header, from which no process reads it again. After
an insertion that rotates at the root, another process starts its searches below
it and does not find users that are stored. Two processes, four users and two
loaded ones show it: `IndexIsSound` is violated, where with one process it is
proved for any number of users.

| Module | Statement | The code |
|---|---|---|
| `ThreadPool` | `ScaleUpOnlyWhenBusy` | A caller scales up while a worker that was signalled has not yet run |
| `ThreadPool` | `PeakIsHighest` | A worker can leave before the level it made is recorded |
| `ThreadPool` | `ProcessedAreSuccesses` | `total_processed` counts failed tasks as well |
| `ThreadPool` | `FailedCreateReturns` | `shutdown` set without the mutex can be missed by a worker about to wait: the join never returns |
| `ThreadPool` | `NoWorkerOutlivesPool` | A worker that has released its slot is not joined: it can still have to unlock the mutex that is destroyed |
| `PoolServer` | `InterruptAlwaysStops` | A SIGINT between the test and `accept` waits for the next client |
| `ProcessServer` | `ZeroMeansServed` | 0 is returned although files were left for want of queue space or of workers |
| `MasterWorker` | `ReapedAreMarked`, `MasterSurvives` | A child reaped before it is recorded stays in the table; a slot cleared between test and `kill` gives `kill(0)` |
| `MasterWorker` | `InterruptStops` | A SIGINT between the test and `pause` is seen with the next signal only |
| `SessionTable` | `LiveIsFound`, `LogoutIsFinal` | A removal in the middle of a probe chain hides the sessions behind it; the logout of a hidden session does nothing, and a later login that fills the hole brings it back |
| `SessionTable` | `FullIsRefused` | `session.c:79` returns NULL when the sessions are "really full"; the index is full at a quarter of that, and then a probe for an id that is not in it never ends |
| `EpollServer` | `AcceptFindsOne`, `IdleIsClosed`, `HostSelectsRoot` | All workers wake for one connection and the losers block in `accept`; idle connections are looked at only when nothing happens for a second; the root of the last request with a Host header is used for requests without |
| `SelectServer` | `IdleIsClosed` | As in `EpollServer` |
| `ForkServer` | `GraceIsGiven`, `StopsAfter(5)` | The first SIGCHLD ends the grace period; there is no limit of clients |
| `RouteTable` | `ExactIsFound`, `PathIsNeverUnknown`, `LongestPrefixWins` | A second method of a path can be hidden by the first: the answer is a 405 whose Allow header names the method of the request, against `route_table.h:13-14` and `:114`; the probe for a method that a path does not have can miss its other methods (404); prefix routes are tried in the order of the file, not by length: `conf/server.conf` puts `/users/*` first, which hides the longer ones of its method |
| `UserIndex` | `FindsListed` | See above: it fails with two processes |
| `LogFiles` | `ClosedOnce` | When both pointers are one stream, or the access log has no path, `log_close` closes it twice (`log.c:426`) and a rotation leaves a dangling pointer |
| `ThreadServer` | `StoreOutlivesThreads` | `main` waits 500 ms, then frees the store under the threads that still run (`tcp_thread_server.c:216`) |
| `ThreadServer` | `EveryAnswerIsOwn` | The buffers and the root are one for all threads (`request_handler.h:48`, "for the current request/thread") |
| `UserStore` | `SizeIsUserCount` | `user_store.h:29` calls the field the "current user count"; the loader counts the header line of the file too (`user_store.c:199`, `241`), so it is one too many for ever. `HeaderIsCounted` proves it |

Also seen while reading, and modelled unless said otherwise:

* When the access log cannot be opened, the first rotation of an access line
  closes the system log's stream and leaves that pointer dangling (`log.c:105`,
  "non-fatal: system log still works"). `log_reopen` counts from 0 whatever
  the files hold. With `max_roll` 0 nothing is deleted, against `log.h`
  ("0 = delete old"); `LogAssumption` leaves that value out.
* The pool and thread modes read no configuration: they serve the default table
  and the root "www". A request without Host keeps the root of the last one
  that had it.
* `tcp_server.c` does not ignore SIGPIPE: a client that closes before its
  answer is sent ends the process.
* In thread mode a line that `main` prints can go into the pipe of a thread that
  captures its output. When standard output is a file, earlier console lines
  that were not flushed appear in a captured answer; the run has a terminal
  (`Buffering = {FALSE}`).

`SELECT_MAX_CONNS` equals `FD_SETSIZE`, so with the usual limit of
1024 descriptors the branch "table full" of `select_server.c` cannot be
reached, and the lack of a guard around `FD_SET` relies on that limit
(`SizeAssumption` of `SelectServer`); the run has a smaller table so that the
branch is taken.

## 8. Not modelled

* Of `request_handler.c`: the text of the pages, the forms that add and delete
  users (their effect on the store is `UserStore`), and the capacity of the pipe
  of `capture_stdout`: a handler that prints more than it holds would block for
  ever, since it is read only afterwards.
* Of `log.c`: levels, time stamps, `log_init_single`, and `max_roll` 0.
* Of `config.c`: the parser and the validation; a configuration is the server
  blocks and routes it yields.
* The parsers (`http_parser.c`, `config.c`, `base64.c`) and page rendering are
  text processing without shared state; their outcome is a choice in the models.
* The legacy server with one process per request file, the test client and the
  course exercises are not part of the server's own logic.
* In `EpollServer` and `SelectServer`: requests in pieces, pipelined requests,
  and the early return that closes an epoll descriptor that was never opened.
* In `UserIndex`: `rbt_find_predecessor`, which nothing calls, and readers
  between the turns of an insertion or a deletion.
