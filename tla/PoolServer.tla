------------------------------ MODULE PoolServer ------------------------------
(***************************************************************************)
(* tcp_pool_server_run (src/tcp_pool_server.c): the main thread accepts    *)
(* connections and hands them to the thread pool until SIGINT or a failed  *)
(* accept, then drains and destroys the pool.  The main thread is the      *)
(* pool's owner and its only caller; every step of the pool is an action   *)
(* of ThreadPool.                                                          *)
(*                                                                         *)
(* SIGINT is delivered to the main thread, which is the thread the kernel  *)
(* prefers for a signal sent to the process.                               *)
(***************************************************************************)
EXTENDS ThreadPool

VARIABLES
  server,          \* where the main thread is
  g_shutdown,      \* set by sigint_handler
  listening,       \* listen_fd is open
  clients_served

server_vars == <<server, g_shutdown, listening, clients_served>>
all_vars == <<vars, server_vars>>

ServerPoints == {"create", "loop", "calling", "accept", "submit", "close",
                 "destroy", "exit", "failed"}

ServerInit ==
  /\ Init
  /\ server = "create"
  /\ g_shutdown = FALSE
  /\ listening = TRUE
  /\ clients_served = 0

(* thread_pool_create returns the pool, or NULL. *)
PoolCreated ==
  /\ server = "create" /\ cpc[Owner] = "ready"
  /\ server' = "loop"
  /\ UNCHANGED <<vars, g_shutdown, listening, clients_served>>

PoolFailed ==
  /\ server = "create" /\ cpc[Owner] = "gone"
  /\ listening' = FALSE
  /\ server' = "failed"
  /\ UNCHANGED <<vars, g_shutdown, clients_served>>

(* while (!g_shutdown) *)
TestShutdown ==
  /\ server = "loop"
  /\ server' = IF g_shutdown THEN "close" ELSE "calling"
  /\ UNCHANGED <<vars, g_shutdown, listening, clients_served>>

(* The call of accept: from here on a signal interrupts it. *)
EnterAccept ==
  /\ server = "calling"
  /\ server' = "accept"
  /\ UNCHANGED <<vars, g_shutdown, listening, clients_served>>

Accept(f) ==
  /\ server = "accept"
  /\ AddTask(Owner, f)
  /\ server' = "submit"
  /\ UNCHANGED <<g_shutdown, listening, clients_served>>

AcceptFails ==
  /\ server = "accept"
  /\ server' = "close"
  /\ UNCHANGED <<vars, g_shutdown, listening, clients_served>>

(* sigint_handler.  No SA_RESTART: a blocked accept returns EINTR. *)
Interrupt ==
  /\ ~g_shutdown /\ server \notin {"exit", "failed"}
  /\ g_shutdown' = TRUE
  /\ server' = IF server = "accept" THEN "close" ELSE server
  /\ UNCHANGED <<vars, listening, clients_served>>

(* thread_pool_add_task returns 0, or -1 and the connection is closed. *)
TaskSubmitted ==
  /\ server = "submit"
  /\ Returns(Owner)
  /\ LET enqueued == cpc[Owner] = "accepted"
     IN  /\ clients_served' = IF enqueued THEN clients_served + 1
                                          ELSE clients_served
         /\ server' = IF enqueued THEN "loop" ELSE "close"
  /\ UNCHANGED <<g_shutdown, listening>>

CloseAndShutdown ==
  /\ server = "close"
  /\ listening' = FALSE
  /\ Shutdown
  /\ server' = "destroy"
  /\ UNCHANGED <<g_shutdown, clients_served>>

DestroyPool ==
  /\ server = "destroy"
  /\ Destroy
  /\ UNCHANGED server_vars

(* The summary line, and the return to main. *)
Report ==
  /\ server = "destroy" /\ cpc[Owner] = "gone"
  /\ server' = "exit"
  /\ UNCHANGED <<vars, g_shutdown, listening, clients_served>>

ServerStops == server \in {"exit", "failed"} /\ UNCHANGED all_vars

(* The pool's own steps. *)
InPool(A) == A /\ UNCHANGED server_vars

ServerRuns ==
  PoolCreated \/ PoolFailed \/ TestShutdown \/ EnterAccept \/ TaskSubmitted
    \/ CloseAndShutdown \/ DestroyPool \/ Report

ServerNext ==
  \/ \E t \in Threads :
       InPool(WorkerLocks(t)) \/ InPool(WorkerRuns(t)) \/ InPool(Fault(t))
  \/ InPool(CallerLocks(Owner))
  \/ InPool(CallerRuns(Owner))
  \/ InPool(Abort \/ ScanSlot \/ Join \/ Free)
  \/ InPool(Wakeup)
  \/ \E f \in Conns : Accept(f)
  \/ AcceptFails
  \/ Interrupt
  \/ ServerRuns
  \/ ServerStops

ServerSafety == ServerInit /\ [][ServerNext]_all_vars

(* As in ThreadPool; clients and SIGINT are the environment's choice.      *)
ServerFairness ==
  /\ \A t \in Threads :
       /\ SF_all_vars(InPool(WorkerLocks(t)))
       /\ WF_all_vars(InPool(WorkerRuns(t)))
  /\ SF_all_vars(InPool(CallerLocks(Owner)))
  /\ WF_all_vars(InPool(CallerRuns(Owner)))
  /\ WF_all_vars(InPool(Abort \/ ScanSlot \/ Join \/ Free))
  /\ SF_all_vars(ServerRuns)

ServerSpec == ServerSafety /\ ServerFairness

-----------------------------------------------------------------------------
(* The summary of tcp_pool_server_run, "accepted %d clients, processed     *)
(* %d": the two numbers agree, and no accepted connection is still open.   *)
(* The acceptor alone shuts the pool down, and only after its loop, so     *)
(* that none is refused either.                                            *)
ReportIsExact ==
  server = "exit" =>
    /\ clients_served = total_processed
    /\ \A f \in Conns : fd[f] # "open"

(* SIGINT that finds the main thread anywhere but at the brink of accept   *)
(* stops the server: also one that comes while add_task is blocked on a    *)
(* full ring, or spawning a worker.                                        *)
InterruptStops ==
  g_shutdown /\ server \in {"loop", "submit", "close"} ~> server = "exit"

(* tcp_pool_server.c: "SIGINT: graceful shutdown (sets flag, accept        *)
(* returns EINTR)", without an exception for the moment between the test   *)
(* of the flag and the call of accept.                                     *)
InterruptAlwaysStops == g_shutdown ~> server \in {"exit", "failed"}

=============================================================================
