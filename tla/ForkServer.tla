------------------------------ MODULE ForkServer ------------------------------
(***************************************************************************)
(* The server of src/tcp_fork_server.c (-m fork): the parent accepts, each *)
(* connection is answered by a child of its own, and a handler of SIGCHLD  *)
(* reaps the children.                                                     *)
(*                                                                         *)
(* A connection is open as long as a process holds a copy of its           *)
(* descriptor and nobody has called shutdown on it.  A call that waits     *)
(* (accept, usleep) and the moment before it are one state of the parent:  *)
(* a signal handler that runs then may interrupt the call or come too      *)
(* early to do so.                                                         *)
(***************************************************************************)
EXTENDS Integers, FiniteSets

CONSTANTS
  Conns,   \* client connections; the child of a connection has its name
  NoFd

ASSUME ConnAssumption ==
  IsFiniteSet(Conns) /\ NoFd \notin Conns /\ "parent" \notin Conns

VARIABLES
  net,          \* each connection, as the listening socket sees it
  parent_fds,   \* the connections of which the parent has a descriptor
  child_fds,    \* those whose child has one
  listening,    \* the processes that hold listen_fd: children, "parent"
  shut,         \* connections on which shutdown was called
  pc,
  conn_fd,      \* the connection in the parent's hands
  child,        \* the life of each child
  sigchld,      \* SIGCHLD is pending in the parent
  clients_served, g_shutdown,
  slept         \* usleep(500000) was not interrupted

descriptors == <<parent_fds, child_fds, listening, shut>>
fork_vars == <<net, descriptors, pc, conn_fd, child, sigchld, clients_served,
               g_shutdown, slept>>

ForkInit ==
  /\ net = [c \in Conns |-> "fresh"]
  /\ parent_fds = {} /\ child_fds = {} /\ listening = {} /\ shut = {}
  /\ pc = "start"
  /\ conn_fd = NoFd
  /\ child = [c \in Conns |-> "none"]
  /\ sigchld = FALSE
  /\ clients_served = 0
  /\ g_shutdown = FALSE
  /\ slept = FALSE

Queued == {c \in Conns : net[c] = "queued"}
Zombies == {c \in Conns : child[c] = "zombie"}
Forked == {c \in Conns : child[c] # "none"}
Running == {c \in Conns : child[c] \in {"forked", "handle"}}
Gone == pc \in {"exit", "failed"}

(* The client sees the end of the connection. *)
Ended(c) ==
  net[c] = "accepted" /\ (c \in shut \/ c \notin parent_fds \cup child_fds)

-----------------------------------------------------------------------------
(* Clients and signals.                                                    *)

Connect(c) ==
  /\ net[c] = "fresh" /\ listening # {}
  /\ net' = [net EXCEPT ![c] = "queued"]
  /\ UNCHANGED <<descriptors, pc, conn_fd, child, sigchld, clients_served,
                 g_shutdown, slept>>

(* while (!g_shutdown) *)
Loop == IF g_shutdown THEN "grace" ELSE "accept"

(* Where a signal handler returns to: a call that waits gives EINTR, if it *)
(* had begun to wait.                                                      *)
Interrupted(next) ==
  \/ pc' = pc
  \/ pc = "accept" /\ pc' = next
  \/ pc = "grace" /\ pc' = "sweep"

(* sigint_handler, perhaps more than once. *)
Interrupt ==
  /\ ~Gone
  /\ g_shutdown' = TRUE
  /\ Interrupted("grace")
  /\ UNCHANGED <<net, descriptors, conn_fd, child, sigchld, clients_served,
                 slept>>

Reaped(S) == [c \in Conns |-> IF c \in S THEN "gone" ELSE child[c]]

ReapOnce == \E c \in Zombies : child' = Reaped({c})
ReapAll == child' = Reaped(Zombies)

(* sigchld_handler: waitpid for as long as it finds a child.               *)
Sigchld ==
  /\ sigchld /\ ~Gone
  /\ sigchld' = FALSE
  /\ IF Zombies = {} THEN UNCHANGED child ELSE ReapAll
  /\ Interrupted(Loop)
  /\ UNCHANGED <<net, descriptors, conn_fd, clients_served, g_shutdown, slept>>

-----------------------------------------------------------------------------
(* The parent: tcp_fork_server_run.                                        *)

(* Up to the accept loop; anything on the way may fail.                    *)
Start ==
  /\ pc = "start"
  /\ \/ pc' = Loop /\ listening' = {"parent"}
     \/ pc' = "failed" /\ UNCHANGED listening
  /\ UNCHANGED <<net, parent_fds, child_fds, shut, conn_fd, child, sigchld,
                 clients_served, g_shutdown, slept>>

Accept(c) ==
  /\ pc = "accept" /\ c \in Queued
  /\ net' = [net EXCEPT ![c] = "accepted"]
  /\ parent_fds' = parent_fds \cup {c}
  /\ conn_fd' = c
  /\ pc' = "fork"
  /\ UNCHANGED <<child_fds, listening, shut, child, sigchld, clients_served,
                 g_shutdown, slept>>

(* Not EINTR: "break".                                                     *)
AcceptFails ==
  /\ pc = "accept"
  /\ pc' = "grace"
  /\ UNCHANGED <<net, descriptors, conn_fd, child, sigchld, clients_served,
                 g_shutdown, slept>>

(* The child has a copy of every descriptor of its parent.                 *)
Fork ==
  /\ pc = "fork"
  /\ child' = [child EXCEPT ![conn_fd] = "forked"]
  /\ child_fds' = child_fds \cup {conn_fd}
  /\ listening' = listening \cup {conn_fd}
  /\ pc' = "close"
  /\ UNCHANGED <<net, parent_fds, shut, conn_fd, sigchld, clients_served,
                 g_shutdown, slept>>

ForkFailsKeepingFd ==
  /\ pc = "fork"
  /\ conn_fd' = NoFd
  /\ pc' = Loop
  /\ UNCHANGED <<net, descriptors, child, sigchld, clients_served, g_shutdown,
                 slept>>

ForkFails ==
  /\ pc = "fork"
  /\ parent_fds' = parent_fds \ {conn_fd}
  /\ conn_fd' = NoFd
  /\ pc' = Loop
  /\ UNCHANGED <<net, child_fds, listening, shut, child, sigchld,
                 clients_served, g_shutdown, slept>>

(* The child has its own copy. *)
CloseCopy ==
  /\ pc = "close"
  /\ parent_fds' = parent_fds \ {conn_fd}
  /\ conn_fd' = NoFd
  /\ clients_served' = clients_served + 1
  /\ pc' = Loop
  /\ UNCHANGED <<net, child_fds, listening, shut, child, sigchld,
                 g_shutdown, slept>>

(* 500 ms are over. *)
GraceOver ==
  /\ pc = "grace"
  /\ slept' = TRUE
  /\ pc' = "sweep"
  /\ UNCHANGED <<net, descriptors, conn_fd, child, sigchld, clients_served,
                 g_shutdown>>

(* The last waitpids, close(listen_fd) and the end of the process, which   *)
(* closes what it still holds.  init reaps the children it leaves behind.  *)
Finish ==
  /\ pc = "sweep"
  /\ ReapAll
  /\ parent_fds' = {}
  /\ listening' = listening \ {"parent"}
  /\ pc' = "exit"
  /\ UNCHANGED <<net, child_fds, shut, conn_fd, sigchld, clients_served,
                 g_shutdown, slept>>

-----------------------------------------------------------------------------
(* A child.                                                                *)

(* close(listen_fd) *)
ChildStartsListening(c) ==
  /\ child[c] = "forked"
  /\ child' = [child EXCEPT ![c] = "handle"]
  /\ UNCHANGED <<net, descriptors, pc, conn_fd, sigchld, clients_served,
                 g_shutdown, slept>>
ChildStarts(c) ==
  /\ child[c] = "forked"
  /\ child' = [child EXCEPT ![c] = "handle"]
  /\ listening' = listening \ {c}
  /\ UNCHANGED <<net, parent_fds, child_fds, shut, pc, conn_fd, sigchld,
                 clients_served, g_shutdown, slept>>

(* The end of a process closes its descriptors and tells the parent.       *)
Exits(c) ==
  /\ child_fds' = child_fds \ {c}
  /\ listening' = listening \ {c}
  /\ child' = [child EXCEPT ![c] = IF Gone THEN "gone" ELSE "zombie"]
  /\ sigchld' = ~Gone
  /\ UNCHANGED <<net, parent_fds, pc, conn_fd, clients_served, g_shutdown,
                 slept>>

(* request_handler_handle_connection returns; shutdown, close, _exit.      *)
ChildEnds(c) ==
  /\ child[c] = "handle"
  /\ shut' = shut \cup {c}
  /\ Exits(c)

(* The child is killed, or dies of a fault. *)
ChildDies(c) ==
  /\ c \in Running
  /\ UNCHANGED shut
  /\ Exits(c)

-----------------------------------------------------------------------------
(* The steps that the parent itself is due to take. *)
ParentRuns ==
  \/ Start \/ CloseCopy \/ GraceOver \/ Finish \/ Sigchld
  \/ Fork \/ ForkFails
  \/ \E c \in Conns : Accept(c)

ChildRuns(c) == ChildStarts(c) \/ ChildEnds(c)

Over == Gone /\ Running = {} /\ UNCHANGED fork_vars

ForkNext ==
  \/ \E c \in Conns : Connect(c) \/ ChildRuns(c) \/ ChildDies(c)
  \/ Interrupt \/ AcceptFails \/ ParentRuns \/ Over

(* Processes are scheduled and signals delivered.  The child of a          *)
(* connection ends: it waits KEEP_ALIVE_TIMEOUT_SEC seconds for a request, *)
(* for MAX_KEEP_ALIVE_REQUESTS requests at most, and its client reads.     *)
ForkSpec ==
  /\ ForkInit /\ [][ForkNext]_fork_vars
  /\ WF_fork_vars(ParentRuns) /\ WF_fork_vars(Sigchld)
  /\ \A c \in Conns : WF_fork_vars(ChildRuns(c))

-----------------------------------------------------------------------------
ForkTypeOK ==
  /\ net \in [Conns -> {"fresh", "queued", "accepted"}]
  /\ parent_fds \subseteq Conns /\ child_fds \subseteq Conns
  /\ listening \subseteq Conns \cup {"parent"} /\ shut \subseteq Conns
  /\ pc \in {"start", "accept", "fork", "close", "grace", "sweep", "exit",
             "failed"}
  /\ conn_fd \in Conns \cup {NoFd}
  /\ child \in [Conns -> {"none", "forked", "handle", "zombie", "gone"}]
  /\ sigchld \in BOOLEAN /\ g_shutdown \in BOOLEAN /\ slept \in BOOLEAN
  /\ clients_served \in Nat

(* "parent closes its copy; the child has its own copy and will close it   *)
(* when done" (tcp_fork_server.c:231): the parent holds no descriptor but  *)
(* that of the connection in its hands, a child only those of its own      *)
(* connection and, before it runs, of the listening socket, whoever runs   *)
(* first; nothing but running children outlives the parent's sockets; and  *)
(* the count is that of the children made.                                 *)
CopiesAreClosed ==
  /\ parent_fds = {conn_fd} \ {NoFd}
  /\ child_fds = Running
  /\ listening \ {"parent"} = {c \in Conns : child[c] = "forked"}
  /\ ("parent" \in listening) = (pc \notin {"start", "exit", "failed"})
  /\ clients_served + (IF pc = "close" THEN 1 ELSE 0)
       = Cardinality(Forked)

(* "reap all exited children to avoid zombies" (tcp_fork_server.c:47):     *)
(* signals are not queued, and children end at any time, before the parent *)
(* knows of them and during its last sweep.                                *)
ZombiesAreReaped == \A c \in Conns : child[c] = "zombie" ~> child[c] = "gone"

(* The client of an accepted connection sees its end, whether fork fails,  *)
(* the child dies or the parent has left.                                  *)
ClientsSeeTheEnd == \A c \in Conns : net[c] = "accepted" ~> Ended(c)

(* SIGINT that comes while the parent starts, forks or closes its copy     *)
(* ends it.  One that comes between the test of g_shutdown and accept ends *)
(* it too, but not until a client connects or a child ends.                *)
InterruptStops ==
  /\ g_shutdown /\ pc # "accept" ~> Gone
  /\ g_shutdown ~> Gone \/ (pc = "accept" /\ Queued = {} /\ ~sigchld)

(* The server ends what it was given, and itself.                          *)
ServerEnds == ClientsSeeTheEnd /\ InterruptStops

-----------------------------------------------------------------------------
(* Statements of comments and documents that the code does not satisfy.    *)

(* tcp_fork_server.c:249 "brief grace period for children still sending    *)
(* responses": the signal of the first child that ends interrupts it.      *)
GraceIsGiven == pc = "exit" /\ Running # {} => slept

(* README.md:56: the server exits after MAX_CLIENTS (5) connections.       *)
StopsAfter(max) == clients_served <= max

=============================================================================
