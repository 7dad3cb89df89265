------------------------------ MODULE ThreadPool ------------------------------
(***************************************************************************)
(* The dynamic thread pool of src/thread_pool.c: a ring buffer of accepted *)
(* connections guarded by pool->mutex, two condition variables, core       *)
(* workers that wait for ever, extra workers that leave after an idle      *)
(* timeout, and the life cycle create / add_task / shutdown / destroy.     *)
(*                                                                         *)
(* Granularity.  A critical section of pool->mutex that runs to its end is *)
(* one action.  The mutex is held across a state only where a thread       *)
(* outside the mutex can see the difference: between the test of a worker's*)
(* wait loop and pthread_cond_wait (thread_pool_create sets shutdown       *)
(* without the mutex), and between the release of a slot and the unlock    *)
(* (thread_pool_destroy reads worker_active without the mutex).            *)
(***************************************************************************)
EXTENDS Integers, FiniteSets

CONSTANTS
  CoreSize,   \* core_size: workers that are never scaled down
  MaxSize,    \* max_size: number of worker slots
  Capacity,   \* capacity of the ring buffer
  Threads,    \* the threads pthread_create can hand out
  Callers,    \* the threads that call thread_pool_add_task
  Owner,      \* the caller that creates, shuts down and destroys the pool
  Conns,      \* client connections (their descriptors)
  None

ASSUME SizeAssumption ==
  /\ CoreSize \in Nat \ {0}
  /\ MaxSize \in Nat
  /\ CoreSize <= MaxSize
  /\ Capacity \in Nat \ {0}

ASSUME NameAssumption ==
  /\ Owner \in Callers
  /\ None \notin Threads \cup Conns

Slots == 0 .. MaxSize - 1
Positions == 0 .. Capacity - 1

VARIABLES
  tasks, head, tail, count,              \* the ring buffer
  mutex,                                 \* holder of pool->mutex across states
  worker_active, workers, num_workers,   \* the slots
  total_processed, total_errors, peak_workers,
  shutdown,
  wpc, slot, is_core, job,               \* worker threads: control and locals
  cpc, arg, newslot,                     \* callers: control, fd, slot to fill
  created,                               \* core workers created so far
  joined,                                \* slots thread_pool_destroy has passed
  freed,                                 \* the pool's memory is released
  fd                                     \* state of each connection

queue == <<tasks, head, tail, count>>
slots == <<worker_active, workers, num_workers>>
stats == <<total_processed, total_errors, peak_workers>>
threads == <<wpc, slot, is_core, job>>
calls == <<cpc, arg, newslot>>
life == <<shutdown, created, joined, freed>>
vars == <<queue, slots, stats, threads, calls, life, mutex, fd>>

-----------------------------------------------------------------------------
(* Control points.                                                         *)

(* Of a worker that owns its slot. *)
Working == {"lock", "toWait", "waiting", "late", "handle", "ok", "err"}
(* Of a worker that has given up its slot and has not returned yet. *)
Leaving == {"idle", "left", "drained"}
WorkerPoints == Working \cup Leaving \cup {"none", "done", "joined", "fault"}

(* Of a caller that has a slot reserved for the thread it creates. *)
Spawning == {"peak", "create", "rollback"}
(* Of the owner inside thread_pool_destroy, or past it. *)
Destroying == {"scan", "joining", "gone"}
CallerPoints == {"ready", "add", "notFull", "refused", "accepted", "reserve",
                 "abort", "stopped"} \cup Spawning \cup Destroying

(* thread_pool_create is still running: whatever is spawned now is core. *)
Creating == created < CoreSize

Init ==
  /\ tasks = [p \in Positions |-> None]
  /\ head = 0 /\ tail = 0 /\ count = 0
  /\ mutex = None
  /\ worker_active = [s \in Slots |-> FALSE]
  /\ workers = [s \in Slots |-> None]
  /\ num_workers = 0
  /\ total_processed = 0 /\ total_errors = 0 /\ peak_workers = 0
  /\ shutdown = FALSE
  /\ wpc = [t \in Threads |-> "none"]
  /\ slot = [t \in Threads |-> 0]
  /\ is_core = [t \in Threads |-> FALSE]
  /\ job = [t \in Threads |-> None]
  /\ cpc = [c \in Callers |-> IF c = Owner THEN "reserve" ELSE "ready"]
  /\ arg = [c \in Callers |-> None]
  /\ newslot = [c \in Callers |-> 0]
  /\ created = 0
  /\ joined = 0
  /\ freed = FALSE
  /\ fd = [f \in Conns |-> "fresh"]

-----------------------------------------------------------------------------
(* The ring buffer.                                                        *)

Advance(p) == (p + 1) % Capacity

FullOffByOne == count > Capacity
Full == count >= Capacity

-----------------------------------------------------------------------------
(* Condition variables.  A waiter that is woken goes back to the point     *)
(* where it competes for the mutex.  POSIX allows spurious wakeups.        *)

Sleepers == {t \in Threads : wpc[t] = "waiting"}
Blocked == {c \in Callers : cpc[c] = "notFull"}

(* pthread_cond_signal(&pool->not_empty) *)
SignalNotEmpty ==
  IF Sleepers = {} THEN UNCHANGED wpc
  ELSE \E t \in Sleepers : wpc' = [wpc EXCEPT ![t] = "lock"]

(* pthread_cond_signal(&pool->not_full) *)
SignalNoCaller == UNCHANGED cpc
SignalNotFull ==
  IF Blocked = {} THEN UNCHANGED cpc
  ELSE \E c \in Blocked : cpc' = [cpc EXCEPT ![c] = "add"]

(* pthread_cond_broadcast(&pool->not_empty) *)
BroadcastToNobody == UNCHANGED wpc
BroadcastNotEmpty ==
  wpc' = [t \in Threads |-> IF wpc[t] = "waiting" THEN "lock" ELSE wpc[t]]

SpuriousWakeup ==
  \/ /\ \E t \in Sleepers : wpc' = [wpc EXCEPT ![t] = "lock"]
     /\ UNCHANGED cpc
  \/ /\ \E c \in Blocked : cpc' = [cpc EXCEPT ![c] = "add"]
     /\ UNCHANGED wpc

Wakeup ==
  /\ SpuriousWakeup
  /\ UNCHANGED <<queue, slots, stats, slot, is_core, job, arg, newslot, life,
                 mutex, fd>>

-----------------------------------------------------------------------------
(* worker_thread_func                                                      *)

Awake(t) == wpc[t] \in {"lock", "late"} /\ mutex = None

(* The loop test finds nothing to do; the mutex stays held. *)
FindEmpty(t) ==
  /\ wpc[t] = "lock" /\ mutex = None
  /\ count = 0 /\ ~shutdown
  /\ mutex' = t
  /\ wpc' = [wpc EXCEPT ![t] = "toWait"]
  /\ UNCHANGED <<queue, slots, stats, slot, is_core, job, calls, life, fd>>

(* pthread_cond_wait or pthread_cond_timedwait: release the mutex and sleep. *)
CondWait(t) ==
  /\ wpc[t] = "toWait"
  /\ mutex' = None
  /\ wpc' = [wpc EXCEPT ![t] = "waiting"]
  /\ UNCHANGED <<queue, slots, stats, slot, is_core, job, calls, life, fd>>

TimedWaitOfAny(t) == wpc[t] = "waiting"
TimedWait(t) == wpc[t] = "waiting" /\ ~is_core[t]

(* ETIMEDOUT: only an extra worker waits with a limit.  It still has to get *)
(* the mutex back before it can look at the queue again.                    *)
TimedOut(t) ==
  /\ TimedWait(t)
  /\ wpc' = [wpc EXCEPT ![t] = "late"]
  /\ UNCHANGED <<queue, slots, stats, slot, is_core, job, calls, life, mutex,
                 fd>>

ReleaseSlotUncounted(s) ==
  /\ worker_active' = [worker_active EXCEPT ![s] = FALSE]
  /\ UNCHANGED <<num_workers, workers>>

ReleaseSlot(s) ==
  /\ worker_active' = [worker_active EXCEPT ![s] = FALSE]
  /\ num_workers' = num_workers - 1
  /\ UNCHANGED workers

(* Scale down, up to the unlock. *)
IdleExit(t) ==
  /\ wpc[t] = "late" /\ mutex = None
  /\ count = 0 /\ ~shutdown
  /\ ReleaseSlot(slot[t])
  /\ mutex' = t
  /\ wpc' = [wpc EXCEPT ![t] = "idle"]
  /\ UNCHANGED <<queue, stats, slot, is_core, job, calls, life, fd>>

IdleUnlock(t) ==
  /\ wpc[t] = "idle"
  /\ mutex' = None
  /\ wpc' = [wpc EXCEPT ![t] = "left"]
  /\ UNCHANGED <<queue, slots, stats, slot, is_core, job, calls, life, fd>>

(* The log line after the unlock still reads pool->num_workers. *)
IdleReturn(t) ==
  /\ wpc[t] = "left"
  /\ wpc' = [wpc EXCEPT ![t] = "done"]
  /\ UNCHANGED <<queue, slots, stats, slot, is_core, job, calls, life, mutex,
                 fd>>

DrainedAtShutdown == shutdown
Drained == shutdown /\ count = 0

(* Shutdown and nothing left to drain, up to the unlock. *)
DrainExit(t) ==
  /\ Awake(t)
  /\ Drained
  /\ ReleaseSlot(slot[t])
  /\ mutex' = t
  /\ wpc' = [wpc EXCEPT ![t] = "drained"]
  /\ UNCHANGED <<queue, stats, slot, is_core, job, calls, life, fd>>

DrainReturn(t) ==
  /\ wpc[t] = "drained"
  /\ mutex' = None
  /\ wpc' = [wpc EXCEPT ![t] = "done"]
  /\ UNCHANGED <<queue, slots, stats, slot, is_core, job, calls, life, fd>>

DequeueNewest(t) ==
  /\ Awake(t)
  /\ count > 0
  /\ LET newest == (tail + Capacity - 1) % Capacity
     IN  job' = [job EXCEPT ![t] = tasks[newest]] /\ tail' = newest
  /\ count' = count - 1
  /\ SignalNotFull
  /\ wpc' = [wpc EXCEPT ![t] = "handle"]
  /\ UNCHANGED <<tasks, head, slots, stats, slot, is_core, arg, newslot, life,
                 mutex, fd>>

Dequeue(t) ==
  /\ Awake(t)
  /\ count > 0
  /\ job' = [job EXCEPT ![t] = tasks[head]]
  /\ head' = Advance(head)
  /\ count' = count - 1
  /\ SignalNotFull
  /\ wpc' = [wpc EXCEPT ![t] = "handle"]
  /\ UNCHANGED <<tasks, tail, slots, stats, slot, is_core, arg, newslot, life,
                 mutex, fd>>

(* request_handler_handle_connection returns 0 or -1, then close(client_fd). *)
Handle(t) ==
  /\ wpc[t] = "handle"
  /\ \E ret \in {"ok", "err"} : wpc' = [wpc EXCEPT ![t] = ret]
  /\ fd' = [fd EXCEPT ![job[t]] = "closed"]
  /\ job' = [job EXCEPT ![t] = None]
  /\ UNCHANGED <<queue, slots, stats, slot, is_core, calls, life, mutex>>

(* The statistics, under stats_mutex. *)
CountTask(t) ==
  /\ wpc[t] \in {"ok", "err"}
  /\ total_processed' = total_processed + 1
  /\ total_errors' = IF wpc[t] = "err" THEN total_errors + 1 ELSE total_errors
  /\ wpc' = [wpc EXCEPT ![t] = "lock"]
  /\ UNCHANGED <<queue, slots, peak_workers, slot, is_core, job, calls, life,
                 mutex, fd>>

(* A worker that still unlocks or reads a pool that was freed: undefined.  *)
(* Either nothing is noticed (the actions above) or the process dies.      *)
Fault(t) ==
  /\ freed /\ wpc[t] \in Leaving
  /\ wpc' = [wpc EXCEPT ![t] = "fault"]
  /\ UNCHANGED <<queue, slots, stats, slot, is_core, job, calls, life, mutex,
                 fd>>

WorkerLocks(t) == FindEmpty(t) \/ IdleExit(t) \/ DrainExit(t) \/ Dequeue(t)
WorkerRuns(t) ==
  CondWait(t) \/ TimedOut(t) \/ IdleUnlock(t) \/ IdleReturn(t) \/ DrainReturn(t)
    \/ Handle(t) \/ CountTask(t)

-----------------------------------------------------------------------------
(* thread_pool_add_task                                                    *)

(* Callers use the pool after thread_pool_create has returned it and before *)
(* the owner destroys it.                                                   *)
Usable == ~Creating /\ cpc[Owner] \notin Destroying

AddTask(c, f) ==
  /\ Usable
  /\ cpc[c] = "ready"
  /\ fd[f] = "fresh"
  /\ fd' = [fd EXCEPT ![f] = "open"]
  /\ arg' = [arg EXCEPT ![c] = f]
  /\ cpc' = [cpc EXCEPT ![c] = "add"]
  /\ UNCHANGED <<queue, slots, stats, threads, newslot, life, mutex>>

(* Rejected, at the entry or after a wait for room. *)
Refuse(c) ==
  /\ cpc[c] = "add" /\ mutex = None
  /\ shutdown
  /\ cpc' = [cpc EXCEPT ![c] = "refused"]
  /\ UNCHANGED <<queue, slots, stats, threads, arg, newslot, life, mutex, fd>>

WaitForRoom(c) ==
  /\ cpc[c] = "add" /\ mutex = None
  /\ ~shutdown /\ Full
  /\ cpc' = [cpc EXCEPT ![c] = "notFull"]
  /\ UNCHANGED <<queue, slots, stats, threads, arg, newslot, life, mutex, fd>>

(* should_spawn is decided inside the critical section of the enqueue. *)
Enqueue(c) ==
  /\ cpc[c] = "add" /\ mutex = None
  /\ ~shutdown /\ ~Full
  /\ tasks' = [tasks EXCEPT ![tail] = arg[c]]
  /\ tail' = Advance(tail)
  /\ count' = count + 1
  /\ SignalNotEmpty
  /\ arg' = [arg EXCEPT ![c] = None]
  /\ LET should_spawn == count' > 0 /\ num_workers < MaxSize
     IN  cpc' = [cpc EXCEPT ![c] = IF should_spawn THEN "reserve"
                                                   ELSE "accepted"]
  /\ UNCHANGED <<head, slots, stats, slot, is_core, job, newslot, life, mutex,
                 fd>>

ReturnAccepted(c) ==
  /\ cpc[c] = "accepted"
  /\ cpc' = [cpc EXCEPT ![c] = "ready"]
  /\ UNCHANGED <<queue, slots, stats, threads, arg, newslot, life, mutex, fd>>

(* The caller closes a connection the pool did not take. *)
ReturnRefused(c) ==
  /\ cpc[c] = "refused"
  /\ fd' = [fd EXCEPT ![arg[c]] = "rejected"]
  /\ arg' = [arg EXCEPT ![c] = None]
  /\ cpc' = [cpc EXCEPT ![c] = "ready"]
  /\ UNCHANGED <<queue, slots, stats, threads, newslot, life, mutex>>

-----------------------------------------------------------------------------
(* spawn_worker: for a core worker in thread_pool_create, otherwise for an *)
(* extra worker, whose result add_task ignores.                            *)

SpawnFailed == IF Creating THEN "abort" ELSE "accepted"

ReserveSlot(c) ==
  /\ cpc[c] = "reserve" /\ mutex = None
  /\ \E s \in Slots :
       /\ ~worker_active[s]
       /\ \A r \in 0 .. s - 1 : worker_active[r]
       /\ worker_active' = [worker_active EXCEPT ![s] = TRUE]
       /\ newslot' = [newslot EXCEPT ![c] = s]
  /\ num_workers' = num_workers + 1
  /\ cpc' = [cpc EXCEPT ![c] = "peak"]
  /\ UNCHANGED <<queue, workers, stats, threads, arg, life, mutex, fd>>

NoFreeSlot(c) ==
  /\ cpc[c] = "reserve" /\ mutex = None
  /\ \A s \in Slots : worker_active[s]
  /\ cpc' = [cpc EXCEPT ![c] = SpawnFailed]
  /\ UNCHANGED <<queue, slots, stats, threads, arg, newslot, life, mutex, fd>>

Higher(n) == IF n > peak_workers THEN n ELSE peak_workers

(* Reads num_workers under stats_mutex, not under the pool's mutex. *)
RecordPeak(c) ==
  /\ cpc[c] = "peak"
  /\ peak_workers' = Higher(num_workers)
  /\ cpc' = [cpc EXCEPT ![c] = "create"]
  /\ UNCHANGED <<queue, slots, total_processed, total_errors, threads, arg,
                 newslot, life, mutex, fd>>

(* pthread_create succeeds; the new thread goes straight to its first lock. *)
CreateThread(c) ==
  /\ cpc[c] = "create"
  /\ \E t \in Threads :
       /\ wpc[t] = "none"
       /\ wpc' = [wpc EXCEPT ![t] = "lock"]
       /\ slot' = [slot EXCEPT ![t] = newslot[c]]
       /\ is_core' = [is_core EXCEPT ![t] = Creating]
       /\ workers' = [workers EXCEPT ![newslot[c]] = t]
  /\ created' = IF Creating THEN created + 1 ELSE created
  /\ cpc' = [cpc EXCEPT ![c] = IF ~Creating THEN "accepted"
                               ELSE IF created' = CoreSize THEN "ready"
                               ELSE "reserve"]
  /\ UNCHANGED <<queue, worker_active, num_workers, stats, job, arg, newslot,
                 shutdown, joined, freed, mutex, fd>>

(* malloc or pthread_create fails. *)
CreateFails(c) ==
  /\ cpc[c] = "create"
  /\ cpc' = [cpc EXCEPT ![c] = "rollback"]
  /\ UNCHANGED <<queue, slots, stats, threads, arg, newslot, life, mutex, fd>>

Rollback(c) ==
  /\ cpc[c] = "rollback" /\ mutex = None
  /\ ReleaseSlot(newslot[c])
  /\ cpc' = [cpc EXCEPT ![c] = SpawnFailed]
  /\ UNCHANGED <<queue, stats, threads, arg, newslot, life, mutex, fd>>

-----------------------------------------------------------------------------
(* Shutdown and destruction, by the owner.                                 *)

(* The failure path of thread_pool_create: no mutex around the store. *)
Abort ==
  /\ cpc[Owner] = "abort"
  /\ shutdown' = TRUE
  /\ BroadcastNotEmpty
  /\ cpc' = [cpc EXCEPT ![Owner] = "scan"]
  /\ UNCHANGED <<queue, slots, stats, slot, is_core, job, arg, newslot, created,
                 joined, freed, mutex, fd>>

(* thread_pool_shutdown *)
Shutdown ==
  /\ cpc[Owner] = "ready" /\ ~Creating /\ mutex = None
  /\ shutdown' = TRUE
  /\ BroadcastNotEmpty
  /\ cpc' = [c \in Callers |-> IF c = Owner THEN "stopped"
                               ELSE IF cpc[c] = "notFull" THEN "add"
                               ELSE cpc[c]]
  /\ UNCHANGED <<queue, slots, stats, slot, is_core, job, arg, newslot, created,
                 joined, freed, mutex, fd>>

(* thread_pool_destroy, once no other caller is inside the pool. *)
Destroy ==
  /\ cpc[Owner] = "stopped"
  /\ \A c \in Callers \ {Owner} : cpc[c] = "ready"
  /\ cpc' = [cpc EXCEPT ![Owner] = "scan"]
  /\ UNCHANGED <<queue, slots, stats, threads, arg, newslot, life, mutex, fd>>

(* Reads worker_active without the mutex: an inactive slot is skipped. *)
ScanSlot ==
  /\ cpc[Owner] = "scan" /\ joined < MaxSize
  /\ IF worker_active[joined]
     THEN /\ cpc' = [cpc EXCEPT ![Owner] = "joining"]
          /\ UNCHANGED joined
     ELSE /\ joined' = joined + 1
          /\ UNCHANGED cpc
  /\ UNCHANGED <<queue, slots, stats, threads, arg, newslot, shutdown, created,
                 freed, mutex, fd>>

(* pthread_join returns when the thread in the slot has returned. *)
Join ==
  /\ cpc[Owner] = "joining"
  /\ wpc[workers[joined]] = "done"
  /\ wpc' = [wpc EXCEPT ![workers[joined]] = "joined"]
  /\ joined' = joined + 1
  /\ cpc' = [cpc EXCEPT ![Owner] = "scan"]
  /\ UNCHANGED <<queue, slots, stats, slot, is_core, job, arg, newslot,
                 shutdown, created, freed, mutex, fd>>

Free ==
  /\ cpc[Owner] = "scan" /\ joined = MaxSize
  /\ freed' = TRUE
  /\ cpc' = [cpc EXCEPT ![Owner] = "gone"]
  /\ UNCHANGED <<queue, slots, stats, threads, arg, newslot, shutdown, created,
                 joined, mutex, fd>>

(* The pool is gone and no worker has a step left: nothing more happens.   *)
Finished ==
  /\ cpc[Owner] = "gone"
  /\ \A t \in Threads : wpc[t] \in {"none", "done", "joined", "fault"}
  /\ UNCHANGED vars

CallerLocks(c) ==
  Refuse(c) \/ WaitForRoom(c) \/ Enqueue(c) \/ ReserveSlot(c) \/ NoFreeSlot(c)
    \/ Rollback(c)
CallerRuns(c) ==
  RecordPeak(c) \/ CreateThread(c) \/ CreateFails(c)
Returns(c) == ReturnAccepted(c) \/ ReturnRefused(c)
OwnerRuns == Abort \/ Destroy \/ ScanSlot \/ Join \/ Free

Next ==
  \/ \E t \in Threads : WorkerLocks(t) \/ WorkerRuns(t) \/ Fault(t)
  \/ \E c \in Callers : CallerLocks(c) \/ CallerRuns(c) \/ Returns(c)
  \/ \E c \in Callers, f \in Conns : AddTask(c, f)
  \/ Shutdown
  \/ OwnerRuns
  \/ Wakeup
  \/ Finished

Safety == Init /\ [][Next]_vars

(* Every thread is scheduled; a thread that competes for the mutex again   *)
(* and again gets it (strong fairness).  Handle is fair because a          *)
(* connection is bounded by the receive timeout and the request limit of   *)
(* request_handler_handle_connection.  Nobody is obliged to offer a        *)
(* connection, to shut down, or to be woken spuriously.                    *)
Fairness ==
  /\ \A t \in Threads : SF_vars(WorkerLocks(t)) /\ WF_vars(WorkerRuns(t))
  /\ \A c \in Callers :
       /\ SF_vars(CallerLocks(c))
       /\ WF_vars(CallerRuns(c))
       /\ WF_vars(Returns(c))
  /\ WF_vars(OwnerRuns)

Spec == Safety /\ Fairness

-----------------------------------------------------------------------------
(* Invariants.                                                             *)

(* The ranges of the pool's fields and of the threads' locals.             *)
TypeOK ==
  /\ tasks \in [Positions -> Conns \cup {None}]
  /\ head \in Positions /\ tail \in Positions /\ count \in 0 .. Capacity
  /\ mutex \in Threads \cup {None}
  /\ worker_active \in [Slots -> BOOLEAN]
  /\ workers \in [Slots -> Threads \cup {None}]
  /\ num_workers \in Int
  /\ total_processed \in Nat /\ total_errors \in Nat /\ peak_workers \in Int
  /\ shutdown \in BOOLEAN
  /\ wpc \in [Threads -> WorkerPoints]
  /\ slot \in [Threads -> Slots]
  /\ is_core \in [Threads -> BOOLEAN]
  /\ job \in [Threads -> Conns \cup {None}]
  /\ cpc \in [Callers -> CallerPoints]
  /\ arg \in [Callers -> Conns \cup {None}]
  /\ newslot \in [Callers -> Slots]
  /\ created \in 0 .. CoreSize
  /\ joined \in 0 .. MaxSize
  /\ freed \in BOOLEAN
  /\ fd \in [Conns -> {"fresh", "open", "closed", "rejected"}]

ActiveSlots == {s \in Slots : worker_active[s]}

Occupies(t, s) == wpc[t] \in Working /\ slot[t] = s
Reserves(c, s) == cpc[c] \in Spawning /\ newslot[c] = s

(* worker_active and num_workers are claimed by spawn_worker, rolled back  *)
(* on failure and released by the worker that leaves, in critical sections *)
(* far apart: the count is exact, and a slot is active if and only if one  *)
(* working thread or one pending creation has it, never two of them.       *)
SlotsMatchWorkers ==
  /\ num_workers = Cardinality(ActiveSlots)
  /\ \A s \in Slots :
       /\ worker_active[s] <=> \/ \E t \in Threads : Occupies(t, s)
                               \/ \E c \in Callers : Reserves(c, s)
       /\ \A t, u \in Threads : Occupies(t, s) /\ Occupies(u, s) => t = u
       /\ \A c, d \in Callers : Reserves(c, s) /\ Reserves(d, s) => c = d
       /\ \A t \in Threads, c \in Callers : ~(Occupies(t, s) /\ Reserves(c, s))

(* The ring positions that hold waiting connections.                       *)
Pending == {(head + i) % Capacity : i \in 0 .. count - 1}

(* A connection that was accepted and is not closed yet is in exactly one  *)
(* place: the caller that offers it, one position of the ring, or one      *)
(* worker.  A closed one is nowhere: no descriptor is handled or closed    *)
(* twice, and none is lost when head and tail wrap around.                 *)
OneHolder ==
  \A f \in Conns :
    Cardinality({c \in Callers : arg[c] = f})
      + Cardinality({p \in Pending : tasks[p] = f})
      + Cardinality({t \in Threads : job[t] = f})
    = IF fd[f] = "open" THEN 1 ELSE 0

(* thread_pool_shutdown is "drain and stop": when thread_pool_destroy      *)
(* frees the ring buffer nothing is queued, and every connection that was  *)
(* accepted has been handled and closed.                                   *)
DrainedBeforeFree ==
  freed => count = 0 /\ \A f \in Conns : fd[f] # "open"

(* core_size workers are "never scaled down": from the return of           *)
(* thread_pool_create until the queue is drained all of them work.         *)
CoreWorkersStay ==
  ~Creating /\ (~shutdown \/ count > 0)
    => Cardinality({t \in Threads : is_core[t] /\ wpc[t] \in Working})
         = CoreSize

-----------------------------------------------------------------------------
(* Refinement and liveness.                                                *)

Contract == INSTANCE ConnQueue WITH
  open <- ~shutdown,
  waiting <- [i \in 1 .. count |-> tasks[(head + i - 1) % Capacity]],
  serving <- {job[t] : t \in {u \in Threads : wpc[u] = "handle"}},
  served <- {f \in Conns : fd[f] = "closed"}

(* The ring buffer, the mutex and the condition variables implement the    *)
(* bounded FIFO queue, and every accepted connection is served in the end, *)
(* whether or not the pool is being shut down meanwhile.                   *)
ImplementsContract == Contract!Spec

(* A caller blocked on a full ring is always released: by a worker that    *)
(* makes room or by the shutdown.                                          *)
BlockedCallerReturns ==
  \A c \in Callers : cpc[c] = "notFull" ~> cpc[c] \in {"ready", "gone"}

-----------------------------------------------------------------------------
(* Statements of comments and headers that the code does not satisfy.      *)

(* thread_pool.c: "count > 0 after enqueue means no idle worker was        *)
(* available to pick it up immediately".                                   *)
ScaleUpOnlyWhenBusy ==
  [][\A c \in Callers :
       cpc[c] = "add" /\ cpc'[c] = "reserve" => Sleepers = {}]_vars

(* thread_pool.h: thread_pool_destroy "joins all remaining workers and     *)
(* frees resources".                                                       *)
NoWorkerOutlivesPool == freed => \A t \in Threads : wpc[t] \notin Leaving

(* thread_pool.h: thread_pool_create "Returns a heap-allocated pool on     *)
(* success, NULL on failure".                                              *)
FailedCreateReturns == cpc[Owner] = "abort" ~> cpc[Owner] = "gone"

(* thread_pool.h: peak_workers is the "highest num_workers reached": no    *)
(* level of num_workers is left before it is recorded.                     *)
PeakIsHighest ==
  [][num_workers' < num_workers => num_workers <= peak_workers]_vars

(* thread_pool.h: thread_pool_get_processed returns "the number of         *)
(* successfully processed tasks".                                          *)
ProcessedAreSuccesses ==
  freed => total_processed + total_errors
             = Cardinality({f \in Conns : fd[f] = "closed"})

=============================================================================
