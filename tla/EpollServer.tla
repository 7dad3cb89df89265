------------------------------ MODULE EpollServer ------------------------------
(***************************************************************************)
(* The event loop of src/epoll_server.c, in one process (-m epoll) or in   *)
(* each of the workers of the master mode, which share the listening       *)
(* socket and nothing else.                                                *)
(*                                                                         *)
(* A process has one thread.  What lies between two points at which        *)
(* another process, a client or a signal makes a difference is one action. *)
(* Of the time only this is kept: has a connection been quiet for          *)
(* KEEP_ALIVE_TIMEOUT_SEC seconds.  A client sends one message and waits   *)
(* for the answer; it may close or reset its connection at any time.  A    *)
(* send of a large answer lasts until the client reads it.                 *)
(***************************************************************************)
EXTENDS Integers, FiniteSets, FiniteSetsExt

CONSTANTS
  Procs,         \* the processes that run the loop
  Conns,         \* client connections
  MaxConns,      \* EPOLL_MAX_CONNS
  MaxEvents,     \* EPOLL_MAX_EVENTS
  MaxRequests,   \* MAX_KEEP_ALIVE_REQUESTS
  Requests,      \* HTTP requests: their Host header, their wish to close
  server_of,     \* the root config_find_server yields for a Host header
  FirstRoot,     \* the root of the first server block
  Listen,        \* the listening socket
  None

ASSUME SizeAssumption ==
  /\ MaxConns \in Nat \ {0} /\ MaxEvents \in Nat \ {0}
  /\ MaxRequests \in Nat \ {0}
  /\ None \notin Conns /\ Listen \notin Conns

ASSUME ProcsAssumption == IsFiniteSet(Procs)

ASSUME RequestAssumption ==
  Requests \subseteq [host : DOMAIN server_of \cup {None}, close : BOOLEAN]

Slots == 0 .. MaxConns - 1

VARIABLES
  net,              \* each connection, as its socket is on the server's side
  inbox,            \* what the socket has for recv: data, "fin" or "rst"
  quiet,            \* no data for KEEP_ALIVE_TIMEOUT_SEC seconds
  pc,
  connections,      \* the slots: connections[i].fd
  interest,         \* the interest list of the epoll instance
  events,           \* the events of this round not looked at yet
  left_out,         \* what was ready and did not fit into this round
  current, request, \* the connection being answered, its request
  request_count,
  root,             \* request_handler's document root
  g_active_conns, clients_served, g_shutdown

sockets == <<net, inbox, quiet>>
tables == <<connections, interest, g_active_conns>>
rounds == <<events, left_out>>
answer == <<current, request, root>>
vars == <<sockets, pc, tables, rounds, answer, request_count, clients_served,
          g_shutdown>>

Init ==
  /\ net = [c \in Conns |-> "fresh"]
  /\ inbox = [c \in Conns |-> "empty"]
  /\ quiet = [c \in Conns |-> FALSE]
  /\ pc = [p \in Procs |-> "start"]
  /\ connections = [p \in Procs |-> [s \in Slots |-> None]]
  /\ interest = [p \in Procs |-> {}]
  /\ events = [p \in Procs |-> {}]
  /\ left_out = [p \in Procs |-> {}]
  /\ current = [p \in Procs |-> None]
  /\ request = [p \in Procs |-> None]
  /\ request_count = [c \in Conns |-> 0]
  /\ root = [p \in Procs |-> FirstRoot]
  /\ g_active_conns = [p \in Procs |-> 0]
  /\ clients_served = [p \in Procs |-> 0]
  /\ g_shutdown = [p \in Procs |-> FALSE]

Held(p) == {connections[p][s] : s \in Slots} \ {None}
Queued == {c \in Conns : net[c] = "queued"}

-----------------------------------------------------------------------------
(* Clients and signals.                                                    *)

Connect(c) ==
  /\ net[c] = "fresh"
  /\ net' = [net EXCEPT ![c] = "queued"]
  /\ UNCHANGED <<inbox, quiet, pc, tables, rounds, answer, request_count,
                 clients_served, g_shutdown>>

(* It is received before epoll_wait can time out: no longer quiet.         *)
Arrives(c, what) ==
  /\ net[c] \in {"queued", "open"}
  /\ inbox' = [inbox EXCEPT ![c] = what]
  /\ quiet' = [quiet EXCEPT ![c] = FALSE]
  /\ UNCHANGED <<net, pc, tables, rounds, answer, request_count,
                 clients_served, g_shutdown>>

(* A client waits for the answer before it sends again.                    *)
ClientSends(c) ==
  /\ inbox[c] = "empty" /\ \A p \in Procs : current[p] # c
  /\ Arrives(c, "data") \/ Arrives(c, "fin")
ClientResets(c) == inbox[c] # "rst" /\ Arrives(c, "rst")

QuietLong(c) ==
  /\ net[c] = "open" /\ inbox[c] = "empty" /\ ~quiet[c]
  /\ quiet' = [quiet EXCEPT ![c] = TRUE]
  /\ UNCHANGED <<net, inbox, pc, tables, rounds, answer, request_count,
                 clients_served, g_shutdown>>

(* SIGINT or SIGTERM.  A call of accept or send that has begun to wait     *)
(* returns EINTR, one that is about to begin does not.                     *)
Signal(p) ==
  /\ ~g_shutdown[p] /\ pc[p] \notin {"start", "exit", "failed"}
  /\ g_shutdown' = [g_shutdown EXCEPT ![p] = TRUE]
  /\ \/ UNCHANGED pc
     \/ pc[p] = "accept" /\ pc' = [pc EXCEPT ![p] = "events"]
     \/ pc[p] = "send" /\ pc' = [pc EXCEPT ![p] = "send failed"]
  /\ UNCHANGED <<sockets, tables, rounds, answer, request_count,
                 clients_served>>

-----------------------------------------------------------------------------
(* The connection table.                                                   *)

(* EPOLL_CTL_DEL, safe_close with what the socket still has, fd = -1; what *)
(* the slot says of the connection no longer counts.                       *)
Unlink(p, S) ==
  /\ net' = [c \in Conns |-> IF c \in S THEN "closed" ELSE net[c]]
  /\ inbox' = [c \in Conns |-> IF c \in S THEN "empty" ELSE inbox[c]]
  /\ quiet' = [c \in Conns |-> quiet[c] /\ c \notin S]
  /\ connections' =
       [connections EXCEPT ![p] =
          [s \in Slots |-> IF @[s] \in S THEN None ELSE @[s]]]
  /\ interest' = [interest EXCEPT ![p] = @ \ S]
  /\ request_count' = [c \in Conns |-> IF c \in S THEN 0 ELSE request_count[c]]

DropUncounted(p, S) == Unlink(p, S) /\ UNCHANGED g_active_conns
Drop(p, S) ==
  /\ Unlink(p, S)
  /\ g_active_conns' = [g_active_conns EXCEPT ![p] = @ - Cardinality(S)]

FreeSlots(p) == {s \in Slots : connections[p][s] = None}

(* The first free slot, and EPOLL_CTL_ADD. *)
InsertUnwatched(p, c) ==
  /\ connections' = [connections EXCEPT ![p][Min(FreeSlots(p))] = c]
  /\ g_active_conns' = [g_active_conns EXCEPT ![p] = @ + 1]
  /\ UNCHANGED interest
Insert(p, c) ==
  /\ connections' = [connections EXCEPT ![p][Min(FreeSlots(p))] = c]
  /\ interest' = [interest EXCEPT ![p] = @ \cup {c}]
  /\ g_active_conns' = [g_active_conns EXCEPT ![p] = @ + 1]

-----------------------------------------------------------------------------
(* epoll_server_run                                                        *)

Goto(p, label) == pc' = [pc EXCEPT ![p] = label]

(* while (!g_shutdown) *)
LoopForEver(p) == Goto(p, "wait")
Loop(p) == Goto(p, IF g_shutdown[p] THEN "closing" ELSE "wait")

(* Up to the event loop; anything on the way may fail.                     *)
Start(p) ==
  /\ pc[p] = "start"
  /\ \/ Goto(p, "wait") /\ interest' = [interest EXCEPT ![p] = {Listen}]
     \/ Goto(p, "failed") /\ UNCHANGED interest
  /\ UNCHANGED <<sockets, connections, g_active_conns, rounds, answer,
                 request_count, clients_served, g_shutdown>>

(* Level triggered: what has something to read, for every process that     *)
(* watches it.                                                             *)
ReadyOrWritable(p) ==
  (interest[p] \ {Listen}) \cup {e \in {Listen} \cap interest[p] : Queued # {}}
Ready(p) ==
  {c \in interest[p] \ {Listen} : inbox[c] # "empty"}
    \cup {e \in {Listen} \cap interest[p] : Queued # {}}

(* epoll_wait returns all that is ready, or as much as the array takes:    *)
(* first what was left out the last time.                                  *)
Wait(p, batch) ==
  /\ pc[p] = "wait"
  /\ batch # {} /\ batch \subseteq Ready(p)
  /\ batch = Ready(p) \/ Cardinality(batch) = MaxEvents
  /\ Cardinality(batch) <= MaxEvents
  /\ batch \subseteq left_out[p] \/ left_out[p] \cap Ready(p) \subseteq batch
  /\ events' = [events EXCEPT ![p] = batch]
  /\ left_out' = [left_out EXCEPT ![p] = Ready(p) \ batch]
  /\ Goto(p, "events")
  /\ UNCHANGED <<sockets, tables, answer, request_count, clients_served,
                 g_shutdown>>

(* EINTR, or another failure of epoll_wait.                                *)
WaitFails(p) ==
  /\ pc[p] = "wait"
  /\ Goto(p, "closing")
  /\ UNCHANGED <<sockets, tables, rounds, answer, request_count,
                 clients_served, g_shutdown>>

(* A second without an event: the quiet connections are closed.            *)
WaitTimesOut(p) ==
  /\ pc[p] = "wait"
  /\ Ready(p) = {}
  /\ Drop(p, {c \in Held(p) : quiet[c]})
  /\ Loop(p)
  /\ UNCHANGED <<rounds, answer, clients_served, g_shutdown>>

RoundOver(p) ==
  /\ pc[p] = "events" /\ events[p] = {}
  /\ Loop(p)
  /\ UNCHANGED <<sockets, tables, rounds, answer, request_count,
                 clients_served, g_shutdown>>

Event(p, e) ==
  /\ pc[p] = "events" /\ e \in events[p]
  /\ events' = [events EXCEPT ![p] = @ \ {e}]
  /\ UNCHANGED left_out

(* A new connection: accept waits while there is none, or no longer any.   *)
NewConnection(p) ==
  /\ Event(p, Listen)
  /\ Goto(p, "accept")
  /\ UNCHANGED <<sockets, tables, answer, request_count, clients_served,
                 g_shutdown>>

AcceptFails(p) ==
  /\ pc[p] = "accept"
  /\ Goto(p, "events")
  /\ UNCHANGED <<sockets, tables, rounds, answer, request_count,
                 clients_served, g_shutdown>>

(* The table is full, or EPOLL_CTL_ADD fails.                              *)
Reject(p, c) ==
  /\ pc[p] = "accept" /\ c \in Queued
  /\ net' = [net EXCEPT ![c] = "rejected"]
  /\ Goto(p, "events")
  /\ UNCHANGED <<inbox, quiet, tables, rounds, answer, request_count,
                 clients_served, g_shutdown>>

Accept(p, c) ==
  /\ pc[p] = "accept" /\ c \in Queued
  /\ FreeSlots(p) # {}
  /\ net' = [net EXCEPT ![c] = "open"]
  /\ Insert(p, c)
  /\ clients_served' = [clients_served EXCEPT ![p] = @ + 1]
  /\ Goto(p, "events")
  /\ UNCHANGED <<inbox, quiet, rounds, answer, request_count, g_shutdown>>

(* EPOLLERR or EPOLLHUP, or recv returns 0 or -1.                          *)
Disconnect(p, c) ==
  /\ Event(p, c)
  /\ inbox[c] \in {"fin", "rst"}
  /\ Drop(p, {c})
  /\ UNCHANGED <<pc, answer, clients_served, g_shutdown>>

Receive(p, c) ==
  /\ Event(p, c)
  /\ inbox[c] = "data"
  /\ inbox' = [inbox EXCEPT ![c] = "empty"]

(* What came is malformed or too large: 400 or 413, and close.             *)
Refuse(p, c) ==
  /\ Receive(p, c)
  /\ Drop(p, {c})
  /\ UNCHANGED <<pc, answer, clients_served, g_shutdown>>

(* Only compared with MAX_KEEP_ALIVE_REQUESTS: it need not grow beyond it. *)
OneMore(n) == IF n < MaxRequests THEN n + 1 ELSE n

(* It is not HTTP: echoed, whatever the count says.                        *)
Echo(p, c) ==
  /\ Receive(p, c)
  /\ request_count' = [request_count EXCEPT ![c] = OneMore(@)]
  /\ UNCHANGED <<net, quiet, pc, tables, answer, clients_served, g_shutdown>>

(* A request without a Host header leaves the root as it is.               *)
RootFor(p, req) == IF req.host = None THEN root[p] ELSE server_of[req.host]

Process(p, c, req) ==
  /\ Receive(p, c)
  /\ current' = [current EXCEPT ![p] = c]
  /\ request' = [request EXCEPT ![p] = req]
  /\ root' = [root EXCEPT ![p] = RootFor(p, req)]
  /\ Goto(p, "send")
  /\ UNCHANGED <<net, quiet, tables, request_count, clients_served, g_shutdown>>

Answered(p) ==
  /\ current' = [current EXCEPT ![p] = None]
  /\ request' = [request EXCEPT ![p] = None]
  /\ Goto(p, "events")
  /\ UNCHANGED <<rounds, root, clients_served, g_shutdown>>

(* The client has read the answer.                                         *)
Send(p) ==
  LET c == current[p]
      count == OneMore(request_count[c])
      last == count = MaxRequests \/ request[p].close
  IN /\ pc[p] = "send"
     /\ \/ last /\ Drop(p, {c})
        \/ /\ ~last
           /\ request_count' = [request_count EXCEPT ![c] = count]
           /\ UNCHANGED <<sockets, tables>>
     /\ Answered(p)

SendFails(p) ==
  /\ \/ pc[p] = "send failed"
     \/ pc[p] = "send" /\ inbox[current[p]] = "rst"
  /\ Drop(p, {current[p]})
  /\ Answered(p)

(* After the loop.  Only a process of its own closes the listening socket. *)
CloseAll(p) ==
  /\ pc[p] = "closing"
  /\ Drop(p, Held(p))
  /\ Goto(p, "exit")
  /\ UNCHANGED <<rounds, answer, clients_served, g_shutdown>>

-----------------------------------------------------------------------------
ClientActs(c) ==
  Connect(c) \/ ClientSends(c) \/ ClientResets(c) \/ QuietLong(c)

(* The steps that the process itself is due to take.                       *)
Runs(p) ==
  \/ Start(p) \/ WaitTimesOut(p) \/ RoundOver(p) \/ NewConnection(p)
  \/ SendFails(p) \/ CloseAll(p)
  \/ \E batch \in SUBSET Ready(p) : Wait(p, batch)
  \/ \E c \in Conns :
       \/ Reject(p, c) \/ Accept(p, c) \/ Disconnect(p, c) \/ Refuse(p, c)
       \/ Echo(p, c)
       \/ \E req \in Requests : Process(p, c, req)

(* Failures, and the client's part of a send.                              *)
MayHappen(p) == WaitFails(p) \/ AcceptFails(p) \/ Send(p)

Over ==
  /\ \A p \in Procs : pc[p] \in {"exit", "failed"}
  /\ UNCHANGED vars

Next ==
  \/ \E c \in Conns : ClientActs(c)
  \/ \E p \in Procs : Signal(p) \/ Runs(p) \/ MayHappen(p)
  \/ Over

(* A process is scheduled.  Clients need not do anything, not even read an *)
(* answer.                                                                 *)
Spec == Init /\ [][Next]_vars /\ \A p \in Procs : WF_vars(Runs(p))

-----------------------------------------------------------------------------
TypeOK ==
  /\ net \in [Conns -> {"fresh", "queued", "open", "closed", "rejected"}]
  /\ inbox \in [Conns -> {"empty", "data", "fin", "rst"}]
  /\ quiet \in [Conns -> BOOLEAN]
  /\ pc \in [Procs -> {"start", "wait", "events", "accept", "send",
                       "send failed", "closing", "exit", "failed"}]
  /\ connections \in [Procs -> [Slots -> Conns \cup {None}]]
  /\ interest \in [Procs -> SUBSET (Conns \cup {Listen})]
  /\ events \in [Procs -> SUBSET (Conns \cup {Listen})]
  /\ left_out \in [Procs -> SUBSET (Conns \cup {Listen})]
  /\ current \in [Procs -> Conns \cup {None}]
  /\ request \in [Procs -> Requests \cup {None}]
  /\ request_count \in [Conns -> 0 .. MaxRequests]
  /\ root \in [Procs -> {FirstRoot} \cup Range(server_of)]
  /\ g_active_conns \in [Procs -> 0 .. MaxConns]
  /\ clients_served \in [Procs -> Nat]
  /\ g_shutdown \in [Procs -> BOOLEAN]

(* The table, the count and the interest list are changed on eight paths   *)
(* that end a connection.  After each of them they agree: an open          *)
(* connection has exactly one slot, in one process, and that process, only *)
(* that one, watches it; a closed one has none.  "served %d client(s)":    *)
(* the processes together count each connection that was ever in a table   *)
(* once.                                                                   *)
WatchedAreHeld ==
  \A p \in Procs :
    /\ interest[p] \ {Listen} = Held(p)
    /\ g_active_conns[p] = Cardinality(Slots) - Cardinality(FreeSlots(p))
OneSlotEach ==
  \A c \in Conns :
    Cardinality({x \in Procs \X Slots : connections[x[1]][x[2]] = c})
      = IF net[c] = "open" THEN 1 ELSE 0
ServedIsExact ==
  SumFunction(clients_served)
    = Cardinality({c \in Conns : net[c] \in {"open", "closed"}})
TablesAgree == WatchedAreHeld /\ OneSlotEach /\ ServedIsExact

(* An event points at a slot.  Whatever happened to the events before it   *)
(* in the same round, the slot is still that of the connection it was      *)
(* reported for, and recv finds something: the loop never waits in recv.   *)
EventsAreFresh ==
  \A p \in Procs : \A c \in events[p] \ {Listen} :
    c \in Held(p) /\ inbox[c] # "empty"

Waits(p) == pc[p] = "send" \/ (pc[p] = "accept" /\ Queued = {})

(* A message on an open connection is received, or the connection is       *)
(* closed, unless the process waits for a client: for one to read a long   *)
(* answer, or, after another worker has taken the new connection, for the  *)
(* next one to come.                                                       *)
MessagesAreReceived ==
  \A c \in Conns :
    net[c] = "open" /\ inbox[c] # "empty"
      ~> \/ net[c] # "open" \/ inbox[c] = "empty"
         \/ \E p \in Procs : c \in Held(p) /\ Waits(p)

(* A process that has seen a signal ends, unless it waits for a client.    *)
SignalStops ==
  \A p \in Procs : g_shutdown[p] ~> pc[p] = "exit" \/ Waits(p)

-----------------------------------------------------------------------------
(* Statements of comments and documents that the code does not satisfy.    *)

(* config.c:95 "No Host header -> find default_server".                    *)
HostSelectsRoot ==
  \A p \in Procs : pc[p] = "send" =>
    root[p] = IF request[p].host = None THEN FirstRoot
                                        ELSE server_of[request[p].host]

(* docs/master-worker-flow.md:321: the kernel wakes only one worker for a  *)
(* new connection.  A worker that calls accept finds one.                  *)
AcceptFindsOne == \A p \in Procs : pc[p] = "accept" => Queued # {}

(* README.md:215: keep-alive connections are closed after 5 idle seconds,  *)
(* if nothing holds the process up.                                        *)
IdleIsClosed ==
  \A c \in Conns :
    quiet[c] /\ net[c] = "open"
      ~> \/ ~quiet[c] \/ net[c] # "open"
         \/ \E p \in Procs : c \in Held(p) /\ Waits(p)

=============================================================================
