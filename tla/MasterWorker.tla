----------------------------- MODULE MasterWorker -----------------------------
(***************************************************************************)
(* The master process of src/master_worker.c and the life of its workers.  *)
(*                                                                         *)
(* The handlers of SIGINT and SIGCHLD run between any two steps of the     *)
(* master's main program; a step here is what lies between two points at   *)
(* which it matters that a handler runs.  A handler suspends the main      *)
(* program and is one action.  Pid p is the p-th child; pids are not       *)
(* reused.  Of a worker's event loop only what signals meet is kept: is it *)
(* in a system call that may block, and has it seen the order to stop.     *)
(***************************************************************************)
EXTENDS Integers, FiniteSets

CONSTANTS
  NumWorkers,     \* worker_processes
  MaxInterrupts   \* bound: how often SIGINT is sent

ASSUME NumAssumption == NumWorkers \in Nat /\ MaxInterrupts \in Nat

Pids == 1 .. NumWorkers
Slots == 1 .. NumWorkers

VARIABLES
  main, phase,            \* control of the main program
  forked, index,          \* loop variables: children forked, slot looked at
  g_workers, g_num_workers, g_master_shutdown,
  remaining,              \* local of master_wait_for_workers
  sigchld,                \* SIGCHLD is pending at the master
  worker, g_shutdown,     \* of each worker: its state, its own stop flag
  interrupts,             \* SIGINTs sent so far
  timedOut                \* history: the first wait ended by its timeout

table == <<g_workers, g_num_workers>>
control == <<main, phase, forked, index>>
env == <<interrupts, timedOut>>
vars == <<control, table, g_master_shutdown, remaining, sigchld, worker,
          g_shutdown, env>>

Init ==
  /\ main = "open" /\ phase = "run" /\ forked = 0 /\ index = 1
  /\ g_workers = [s \in Slots |-> 0] /\ g_num_workers = 0
  /\ g_master_shutdown = FALSE
  /\ remaining = 0
  /\ sigchld = FALSE
  /\ worker = [p \in Pids |-> "none"]
  /\ g_shutdown = [p \in Pids |-> FALSE]
  /\ interrupts = 0 /\ timedOut = FALSE

Live == {p \in Pids : worker[p] \in {"starting", "running", "blocked"}}
Zombies == {p \in Pids : worker[p] = "zombie"}
Unreaped == Live \cup Zombies
Over == main \in {"done", "failed", "killed"}

-----------------------------------------------------------------------------
(* Signals and their handlers.                                             *)

(* What SIGTERM or SIGINT does to a worker: until it has installed its own *)
(* handlers it has the default action for SIGTERM and the master's handler *)
(* for SIGINT; then the flag, and EINTR for the call it is blocked in.     *)
AfterSignal(signum, p) ==
  IF worker[p] \notin {"starting", "running", "blocked"} THEN worker[p]
  ELSE IF signum = "KILL" \/ (signum = "TERM" /\ worker[p] = "starting")
       THEN "zombie"
       ELSE IF worker[p] = "starting" THEN "starting" ELSE "running"

Deliver(signum, targets) ==
  LET dying == {p \in targets \cap Live : AfterSignal(signum, p) = "zombie"}
  IN /\ worker' = [p \in Pids |-> IF p \in targets THEN AfterSignal(signum, p)
                                                   ELSE worker[p]]
     /\ g_shutdown' = [p \in Pids |-> g_shutdown[p] \/
                        (p \in targets /\ worker[p] \in {"running", "blocked"})]
     /\ sigchld' = (sigchld \/ dying # {})

(* master_sigint_handler.  SIGINT comes from kill(1), for the master only, *)
(* or from the terminal, for the whole process group.                      *)
Interrupt ==
  /\ ~Over /\ interrupts < MaxInterrupts
  /\ interrupts' = interrupts + 1
  /\ g_master_shutdown' = TRUE
  /\ main' = IF main = "pause" THEN "test" ELSE main
  /\ \E targets \in {{}, Pids} : Deliver("INT", targets)
  /\ UNCHANGED <<phase, forked, index, table, remaining, timedOut>>

ClearedByPid(pids) ==
  [s \in Slots |-> IF s <= g_num_workers /\ s + 1 \in pids
                   THEN 0 ELSE g_workers[s]]
Cleared(pids) ==
  [s \in Slots |-> IF s <= g_num_workers /\ g_workers[s] \in pids
                   THEN 0 ELSE g_workers[s]]

Reaped(pids) ==
  worker' = [p \in Pids |-> IF p \in pids THEN "reaped" ELSE worker[p]]

(* master_sigchld_handler *)
Sigchld ==
  /\ ~Over /\ sigchld
  /\ sigchld' = FALSE
  /\ Reaped(Zombies)
  /\ g_workers' = Cleared(Zombies)
  /\ main' = IF main = "pause" THEN "test" ELSE main
  /\ UNCHANGED <<phase, forked, index, g_num_workers, g_master_shutdown,
                 remaining, g_shutdown, env>>

-----------------------------------------------------------------------------
(* The main program of the master.                                         *)

(* The listening socket and the shared memory, or return -1.               *)
Open ==
  /\ main = "open"
  /\ main' \in {"fork", "failed"}
  /\ UNCHANGED <<phase, forked, index, table, g_master_shutdown, remaining,
                 sigchld, worker, g_shutdown, env>>

Fork ==
  /\ main = "fork" /\ forked < NumWorkers
  /\ forked' = forked + 1
  /\ worker' = [worker EXCEPT ![forked + 1] = "starting"]
  /\ main' = "record"
  /\ UNCHANGED <<phase, index, table, g_master_shutdown, remaining, sigchld,
                 g_shutdown, env>>

(* The parent's part after fork; the child may have run and died before.   *)
Record ==
  /\ main = "record"
  /\ g_workers' = [g_workers EXCEPT ![g_num_workers + 1] = forked]
  /\ g_num_workers' = g_num_workers + 1
  /\ main' = "fork"
  /\ UNCHANGED <<phase, forked, index, g_master_shutdown, remaining, sigchld,
                 worker, g_shutdown, env>>

ForkFails ==
  /\ main = "fork" /\ forked < NumWorkers
  /\ main' = "kill" /\ phase' = "abortTerm" /\ index' = 1
  /\ UNCHANGED <<forked, table, g_master_shutdown, remaining, sigchld, worker,
                 g_shutdown, env>>

AllForked ==
  /\ main = "fork" /\ forked = NumWorkers
  /\ main' = "test"
  /\ UNCHANGED <<phase, forked, index, table, g_master_shutdown, remaining,
                 sigchld, worker, g_shutdown, env>>

(* while (!g_master_shutdown) pause();  then close the socket.             *)
Test ==
  /\ main = "test"
  /\ main' = IF g_master_shutdown THEN "kill" ELSE "call pause"
  /\ phase' = IF g_master_shutdown THEN "term" ELSE phase
  /\ index' = 1
  /\ UNCHANGED <<forked, table, g_master_shutdown, remaining, sigchld, worker,
                 g_shutdown, env>>

(* pause returns after a handler that runs from now on.                    *)
Pause ==
  /\ main = "call pause"
  /\ main' = "pause"
  /\ UNCHANGED <<phase, forked, index, table, g_master_shutdown, remaining,
                 sigchld, worker, g_shutdown, env>>

(* master_kill_workers looks at a slot ...                                 *)
SlotsToKillButOne == g_num_workers - 1
SlotsToKill == g_num_workers

CheckSlot ==
  /\ main = "kill" /\ index <= SlotsToKill
  /\ IF g_workers[index] > 0
     THEN main' = "send" /\ index' = index
     ELSE main' = "kill" /\ index' = index + 1
  /\ UNCHANGED <<phase, forked, table, g_master_shutdown, remaining, sigchld,
                 worker, g_shutdown, env>>

(* ... and, after a log line, reads it again for kill.  By then a handler  *)
(* may have cleared it, and kill(0) is for the whole process group: the    *)
(* master has no handler for SIGTERM.                                      *)
Send ==
  LET signum == IF phase \in {"term", "abortTerm"} THEN "TERM" ELSE "KILL"
      group == g_workers[index] = 0
  IN /\ main = "send"
     /\ Deliver(signum, IF group THEN Pids ELSE {g_workers[index]})
     /\ main' = IF group THEN "killed" ELSE "kill"
     /\ index' = index + 1
     /\ UNCHANGED <<phase, forked, table, g_master_shutdown, remaining, env>>

(* After SIGTERM and SIGKILL of a failed start: return -1 without a wait.  *)
AbortNext ==
  /\ main = "kill" /\ index > SlotsToKill
  /\ \/ phase = "abortTerm" /\ phase' = "abortKill" /\ main' = main
     \/ phase = "abortKill" /\ phase' = phase /\ main' = "failed"
  /\ index' = 1
  /\ UNCHANGED <<forked, table, g_master_shutdown, remaining, sigchld, worker,
                 g_shutdown, env>>

(* master_wait_for_workers *)
Occupied == {s \in 1 .. g_num_workers : g_workers[s] > 0}
StillOne == IF Occupied = {} THEN 0 ELSE 1
StillThere == Cardinality(Occupied)

StartWait ==
  /\ main = "kill" /\ index > SlotsToKill
  /\ phase \in {"term", "kill"}
  /\ remaining' = StillThere
  /\ main' = IF remaining' = 0 THEN "done" ELSE "wait"
  /\ UNCHANGED <<phase, forked, index, table, g_master_shutdown, sigchld,
                 worker, g_shutdown, env>>

WaitReap ==
  /\ main = "wait" /\ remaining > 0
  /\ \E p \in Zombies :
       /\ Reaped({p})
       /\ g_workers' = Cleared({p})
  /\ remaining' = remaining - 1
  /\ UNCHANGED <<control, g_num_workers, g_master_shutdown, sigchld,
                 g_shutdown, env>>

PatientFirst == phase = "kill"
MayTimeOut == phase \in {"term", "kill"}

(* No child has ended, and the time is up.  While it is not, the loop      *)
(* changes nothing.                                                        *)
WaitTimesOut ==
  /\ main = "wait" /\ remaining > 0
  /\ Zombies = {} /\ Live # {}
  /\ MayTimeOut
  /\ main' = "recount"
  /\ timedOut' = TRUE
  /\ UNCHANGED <<phase, forked, index, table, g_master_shutdown, remaining,
                 sigchld, worker, g_shutdown, interrupts>>

(* None remains, or waitpid says ECHILD.                                   *)
WaitOver ==
  /\ main = "wait"
  /\ remaining = 0 \/ Unreaped = {}
  /\ main' = "recount"
  /\ UNCHANGED <<phase, forked, index, table, g_master_shutdown, remaining,
                 sigchld, worker, g_shutdown, env>>

(* The recount decides whether SIGKILL is needed; after the second wait    *)
(* its result is not used.                                                 *)
Recount ==
  /\ main = "recount"
  /\ IF phase = "term" /\ Occupied # {}
     THEN main' = "kill" /\ phase' = "kill" /\ index' = 1
     ELSE main' = "done" /\ UNCHANGED <<phase, index>>
  /\ UNCHANGED <<forked, table, g_master_shutdown, remaining, sigchld, worker,
                 g_shutdown, env>>

-----------------------------------------------------------------------------
(* A worker process.                                                       *)

(* log_reopen, then epoll_server_worker_run installs its handlers.         *)
Starts(p) ==
  /\ worker[p] = "starting"
  /\ worker' = [worker EXCEPT ![p] = "running"]
  /\ UNCHANGED <<control, table, g_master_shutdown, remaining, sigchld,
                 g_shutdown, env>>

(* It cannot start and returns, or it crashes.                             *)
Fails(p) ==
  /\ worker[p] \in {"starting", "running"}
  /\ worker' = [worker EXCEPT ![p] = "zombie"]
  /\ sigchld' = TRUE
  /\ UNCHANGED <<control, table, g_master_shutdown, remaining, g_shutdown, env>>

(* It enters accept after another worker has taken the connection, or a    *)
(* recv that no data comes for; also between the signal and the loop test. *)
Blocks(p) ==
  /\ worker[p] = "running"
  /\ worker' = [worker EXCEPT ![p] = "blocked"]
  /\ UNCHANGED <<control, table, g_master_shutdown, remaining, sigchld,
                 g_shutdown, env>>

Resumes(p) ==
  /\ worker[p] = "blocked"
  /\ worker' = [worker EXCEPT ![p] = "running"]
  /\ UNCHANGED <<control, table, g_master_shutdown, remaining, sigchld,
                 g_shutdown, env>>

Exits(p) ==
  /\ worker[p] = "running" /\ g_shutdown[p]
  /\ worker' = [worker EXCEPT ![p] = "zombie"]
  /\ sigchld' = TRUE
  /\ UNCHANGED <<control, table, g_master_shutdown, remaining, g_shutdown, env>>

-----------------------------------------------------------------------------
MainRuns ==
  Open \/ Fork \/ Record \/ ForkFails \/ AllForked \/ Test \/ Pause \/ CheckSlot
    \/ Send \/ AbortNext \/ StartWait \/ WaitReap \/ WaitTimesOut \/ WaitOver \/ Recount
WorkerRuns(p) == Starts(p) \/ Fails(p) \/ Blocks(p) \/ Resumes(p) \/ Exits(p)
(* The master has returned, or sleeps until the next signal.               *)
Rest == (Over \/ main = "pause") /\ UNCHANGED vars

Next ==
  \/ MainRuns \/ Interrupt \/ Sigchld \/ Rest
  \/ \E p \in Pids : ~Over /\ WorkerRuns(p)

(* The master is scheduled and its pending signals are delivered; nothing  *)
(* is assumed of the workers and of whoever sends SIGINT.                  *)
Spec == Init /\ [][Next]_vars /\ WF_vars(MainRuns) /\ WF_vars(Sigchld)

-----------------------------------------------------------------------------
TypeOK ==
  /\ main \in {"open", "fork", "record", "test", "call pause", "pause", "kill",
               "send", "wait", "recount", "done", "failed", "killed"}
  /\ phase \in {"run", "term", "kill", "abortTerm", "abortKill"}
  /\ forked \in 0 .. NumWorkers /\ index \in 1 .. NumWorkers + 1
  /\ g_workers \in [Slots -> 0 .. NumWorkers]
  /\ g_num_workers \in 0 .. NumWorkers
  /\ g_master_shutdown \in BOOLEAN
  /\ remaining \in 0 .. NumWorkers
  /\ sigchld \in BOOLEAN
  /\ worker \in [Pids -> {"none", "starting", "running", "blocked", "zombie",
                          "reaped"}]
  /\ g_shutdown \in [Pids -> BOOLEAN]
  /\ interrupts \in 0 .. MaxInterrupts
  /\ timedOut \in BOOLEAN

(* Whatever the handlers reap, and whenever they do it, the master never   *)
(* loses a child: one that has not been reaped is in the table, or is the  *)
(* one that is being entered there.                                        *)
UnreapedIsRecorded ==
  \A p \in Unreaped :
    \/ \E s \in 1 .. g_num_workers : g_workers[s] = p
    \/ main = "record" /\ p = forked

(* When master_worker_run returns no worker lives on, after a clean        *)
(* shutdown all of them are reaped, and after a failed start too they have *)
(* at least been killed.                                                   *)
NoWorkerSurvives ==
  /\ main = "done" => Unreaped = {}
  /\ main = "failed" => Live = {}

(* SIGKILL is for workers that have had worker_shutdown_timeout_ms to end: *)
(* children reaped by the SIGCHLD handler, which master_wait_for_workers   *)
(* does not see, never make it stop waiting for the others.                *)
NobodyKilledEarly == phase = "kill" /\ Live # {} => timedOut

(* Once the master has begun its shutdown it comes to an end, whatever the *)
(* workers do.                                                             *)
ShutdownEnds == phase = "term" ~> Over

(* master_worker.c:69 "mark this worker as dead": the table holds no pid   *)
(* of a worker that the SIGCHLD handler has reaped.                        *)
ReapedAreMarked ==
  \A s \in 1 .. g_num_workers :
    g_workers[s] > 0 => worker[g_workers[s]] # "reaped"

(* master_worker.c:140 "Send a signal to all alive workers": not to the    *)
(* process group, of which the master is a member.                         *)
MasterSurvives == main # "killed"

(* master_worker.c:387 "If it's SIGINT, g_master_shutdown is set and we    *)
(* exit the loop."                                                         *)
InterruptStops == g_master_shutdown ~> Over

=============================================================================
