----------------------------- MODULE SelectServer -----------------------------
(***************************************************************************)
(* The server of src/select_server.c (-m select): one thread, a table of   *)
(* connections, a master fd_set and the largest descriptor in it.          *)
(*                                                                         *)
(* Descriptors are numbers, as the kernel gives them out: the smallest     *)
(* that is free.  A round scans the descriptors select reported in         *)
(* ascending order.  Of the time only this is kept: has a connection been  *)
(* quiet for KEEP_ALIVE_TIMEOUT_SEC seconds.  A client sends one message   *)
(* and waits for the answer; it may close or reset its connection at any   *)
(* time.  A send of a large answer lasts until the client reads it.        *)
(***************************************************************************)
EXTENDS Integers, FiniteSets, FiniteSetsExt

CONSTANTS
  Conns,         \* client connections
  ListenFd,      \* the listening socket; smaller descriptors are all in use
  NoFile,        \* the limit on descriptors
  FdSetSize,     \* FD_SETSIZE
  MaxConns,      \* SELECT_MAX_CONNS
  MaxRequests,   \* MAX_KEEP_ALIVE_REQUESTS
  None

(* FD_SET is not guarded: select_server_run relies on the limit.           *)
ASSUME SizeAssumption ==
  /\ ListenFd \in Nat /\ NoFile \in Nat /\ FdSetSize \in Nat
  /\ ListenFd < NoFile /\ NoFile <= FdSetSize
  /\ MaxConns \in Nat \ {0} /\ MaxRequests \in Nat \ {0}
  /\ None \notin Conns /\ IsFiniteSet(Conns)

Fds == ListenFd + 1 .. NoFile - 1
Slots == 0 .. MaxConns - 1
Free == -1

VARIABLES
  net,             \* each connection, as it is on the server's side
  inbox,           \* what the socket has for recv: data, "fin" or "rst"
  quiet,           \* no data for KEEP_ALIVE_TIMEOUT_SEC seconds
  sock,            \* the open descriptors and their connections
  pc,
  connections,     \* the slots: connections[i].fd
  request_count,   \* connections[i].request_count
  master_set, max_fd,
  read_set,        \* what select reported and the scan has not reached
  current,         \* the descriptor being answered
  clients_served, g_shutdown

sockets == <<net, inbox, quiet, sock>>
tables == <<connections, master_set, max_fd>>
vars == <<sockets, pc, tables, request_count, read_set, current,
          clients_served, g_shutdown>>

Init ==
  /\ net = [c \in Conns |-> "fresh"]
  /\ inbox = [c \in Conns |-> "empty"]
  /\ quiet = [c \in Conns |-> FALSE]
  /\ sock = [fd \in Fds |-> None]
  /\ pc = "start"
  /\ connections = [s \in Slots |-> Free]
  /\ request_count = [s \in Slots |-> 0]
  /\ master_set = {} /\ max_fd = ListenFd
  /\ read_set = {}
  /\ current = Free
  /\ clients_served = 0
  /\ g_shutdown = FALSE

Queued == {c \in Conns : net[c] = "queued"}
FreeFds == {fd \in Fds : sock[fd] = None}
FreeSlots == {s \in Slots : connections[s] = Free}
SlotOf(fd) == CHOOSE s \in Slots : connections[s] = fd

-----------------------------------------------------------------------------
(* Clients and signals.                                                    *)

Connect(c) ==
  /\ net[c] = "fresh"
  /\ net' = [net EXCEPT ![c] = "queued"]
  /\ UNCHANGED <<inbox, quiet, sock, pc, tables, request_count, read_set,
                 current, clients_served, g_shutdown>>

(* It is received before select can time out: no longer quiet.             *)
Arrives(c, what) ==
  /\ net[c] \in {"queued", "open"}
  /\ inbox' = [inbox EXCEPT ![c] = what]
  /\ quiet' = [quiet EXCEPT ![c] = FALSE]
  /\ UNCHANGED <<net, sock, pc, tables, request_count, read_set, current,
                 clients_served, g_shutdown>>

(* A client waits for the answer before it sends again.                    *)
ClientSends(c) ==
  /\ inbox[c] = "empty"
  /\ current # Free => sock[current] # c
  /\ Arrives(c, "data") \/ Arrives(c, "fin")
ClientResets(c) == inbox[c] # "rst" /\ Arrives(c, "rst")

(* The client reads the answer, so that send can return.                   *)
ClientReads ==
  /\ pc = "send"
  /\ pc' = "sent"
  /\ UNCHANGED <<sockets, tables, request_count, read_set, current,
                 clients_served, g_shutdown>>

QuietLong(c) ==
  /\ net[c] = "open" /\ inbox[c] = "empty" /\ ~quiet[c]
  /\ quiet' = [quiet EXCEPT ![c] = TRUE]
  /\ UNCHANGED <<net, inbox, sock, pc, tables, request_count, read_set,
                 current, clients_served, g_shutdown>>

(* SIGINT.  A call that has begun to wait returns: select with EINTR, send *)
(* with EINTR or with the part that was sent.  One that is about to begin  *)
(* does not.                                                               *)
Signal ==
  /\ ~g_shutdown /\ pc \notin {"exit", "failed"}
  /\ g_shutdown' = TRUE
  /\ \/ UNCHANGED pc
     \/ pc = "select" /\ pc' = "closing"
     \/ pc = "send" /\ pc' \in {"send failed", "sent"}
  /\ UNCHANGED <<sockets, tables, request_count, read_set, current,
                 clients_served>>

-----------------------------------------------------------------------------
(* The table, master_set and max_fd.                                       *)

(* "if (fd == max_fd) while (max_fd > listen_fd && !FD_ISSET) max_fd--"    *)
Kept(S) == max_fd
Lowered(S) ==
  IF max_fd \in S
  THEN Max({ListenFd} \cup {fd \in master_set \ S : fd < max_fd})
  ELSE max_fd

(* close with what the socket still has, and fd = -1.                      *)
Shut(S) ==
  LET gone == {sock[fd] : fd \in S}
  IN /\ net' = [c \in Conns |-> IF c \in gone THEN "closed" ELSE net[c]]
     /\ inbox' = [c \in Conns |-> IF c \in gone THEN "empty" ELSE inbox[c]]
     /\ quiet' = [c \in Conns |-> quiet[c] /\ c \notin gone]
     /\ sock' = [fd \in Fds |-> IF fd \in S THEN None ELSE sock[fd]]
     /\ connections' =
          [s \in Slots |->
             IF connections[s] \in S THEN Free ELSE connections[s]]

(* A connection that ends while the loop goes on.                          *)
Drop(S) ==
  /\ Shut(S)
  /\ master_set' = master_set \ S
  /\ max_fd' = Lowered(S)

(* The first free slot, FD_SET, "if (conn_fd > max_fd) max_fd = conn_fd".  *)
Fill(fd, count, largest) ==
  LET s == Min(FreeSlots)
  IN /\ connections' = [connections EXCEPT ![s] = fd]
     /\ request_count' = [request_count EXCEPT ![s] = count]
     /\ master_set' = master_set \cup {fd}
     /\ max_fd' = largest

InsertBelowMax(fd) == Fill(fd, 0, max_fd)
Insert(fd) == Fill(fd, 0, Max({fd, max_fd}))

-----------------------------------------------------------------------------
(* select_server_run                                                       *)

(* while (!g_shutdown) *)
Loop == pc' = IF g_shutdown THEN "closing" ELSE "select"

(* Up to the event loop; anything on the way may fail.                     *)
Start ==
  /\ pc = "start"
  /\ \/ Loop /\ master_set' = {ListenFd}
     \/ pc' = "failed" /\ UNCHANGED master_set
  /\ UNCHANGED <<sockets, connections, max_fd, request_count, read_set,
                 current, clients_served, g_shutdown>>

AllWatched == master_set
Ready ==
  {fd \in master_set \cap Fds : sock[fd] # None /\ inbox[sock[fd]] # "empty"}
    \cup {fd \in master_set \cap {ListenFd} : Queued # {}}

(* select looks at the descriptors up to max_fd.                           *)
Reported == {fd \in Ready : fd <= max_fd}

Select ==
  /\ pc = "select"
  /\ Reported # {}
  /\ read_set' = Reported
  /\ pc' = "scan"
  /\ UNCHANGED <<sockets, tables, request_count, current, clients_served,
                 g_shutdown>>

(* A second without anything to read: the quiet connections are closed.    *)
SelectTimesOut ==
  /\ pc = "select"
  /\ Reported = {}
  /\ Drop({connections[s] : s \in {s \in Slots \ FreeSlots :
                                     quiet[sock[connections[s]]]}})
  /\ Loop
  /\ UNCHANGED <<request_count, read_set, current, clients_served, g_shutdown>>

(* Not EINTR: "break".                                                     *)
SelectFails ==
  /\ pc = "select"
  /\ pc' = "closing"
  /\ UNCHANGED <<sockets, tables, request_count, read_set, current,
                 clients_served, g_shutdown>>

(* The scan ends at max_fd, which may have changed since select.           *)
ScanOver ==
  /\ pc = "scan" /\ \A fd \in read_set : fd > max_fd
  /\ Loop
  /\ read_set' = {}
  /\ UNCHANGED <<sockets, tables, request_count, current, clients_served,
                 g_shutdown>>

(* FD_ISSET(fd, &read_set): it is the turn of this descriptor.             *)
Reach(fd) ==
  /\ pc = "scan" /\ fd \in read_set /\ fd <= max_fd
  /\ \A other \in read_set : fd <= other
  /\ read_set' = read_set \ {fd}

(* No descriptor is left, or another failure of accept.                    *)
AcceptFails ==
  /\ Reach(ListenFd)
  /\ UNCHANGED <<sockets, pc, tables, request_count, current, clients_served,
                 g_shutdown>>

(* The table is full: the newcomer is closed.                              *)
Reject(c) ==
  /\ Reach(ListenFd) /\ c \in Queued
  /\ FreeFds # {} /\ FreeSlots = {}
  /\ net' = [net EXCEPT ![c] = "rejected"]
  /\ inbox' = [inbox EXCEPT ![c] = "empty"]
  /\ UNCHANGED <<quiet, sock, pc, tables, request_count, current,
                 clients_served, g_shutdown>>

Accept(c) ==
  /\ Reach(ListenFd) /\ c \in Queued
  /\ FreeFds # {} /\ FreeSlots # {}
  /\ net' = [net EXCEPT ![c] = "open"]
  /\ sock' = [sock EXCEPT ![Min(FreeFds)] = c]
  /\ Insert(Min(FreeFds))
  /\ clients_served' = clients_served + 1
  /\ UNCHANGED <<inbox, quiet, pc, current, g_shutdown>>

(* recv returns 0 or -1.                                                   *)
Disconnect(fd) ==
  /\ Reach(fd) /\ inbox[sock[fd]] \in {"fin", "rst"}
  /\ Drop({fd})
  /\ UNCHANGED <<pc, request_count, current, clients_served, g_shutdown>>

(* No blank in the request line: 400, and close.                           *)
Refuse(fd) ==
  /\ Reach(fd) /\ inbox[sock[fd]] = "data"
  /\ Drop({fd})
  /\ UNCHANGED <<pc, request_count, current, clients_served, g_shutdown>>

(* request_handler_process_http has filled the buffer; send is called.     *)
Process(fd) ==
  /\ Reach(fd) /\ inbox[sock[fd]] = "data"
  /\ inbox' = [inbox EXCEPT ![sock[fd]] = "empty"]
  /\ current' = fd
  /\ pc' = "send"
  /\ UNCHANGED <<net, quiet, sock, tables, request_count, clients_served,
                 g_shutdown>>

(* Keep the connection for another request, or close it.                   *)
Sent ==
  LET s == SlotOf(current)
      count == request_count[s] + 1
  IN /\ pc = "sent"
     /\ request_count' = [request_count EXCEPT ![s] = count]
     /\ \/ count < MaxRequests /\ UNCHANGED <<sockets, tables>>
        \/ count >= MaxRequests /\ Drop({current})
     /\ pc' = "scan" /\ current' = Free
     /\ UNCHANGED <<read_set, clients_served, g_shutdown>>

SendFails ==
  /\ pc = "send failed" \/ (pc = "send" /\ inbox[sock[current]] = "rst")
  /\ Drop({current})
  /\ pc' = "scan" /\ current' = Free
  /\ UNCHANGED <<request_count, read_set, clients_served, g_shutdown>>

(* After the loop every slot is closed, and the listening socket.  Nobody  *)
(* lowers max_fd any more: there is no select to come.                     *)
CloseAll ==
  LET open == {connections[s] : s \in Slots \ FreeSlots}
  IN
  /\ pc = "closing"
  /\ Shut(open)
  /\ master_set' = master_set \ (open \cup {ListenFd})
  /\ pc' = "exit"
  /\ UNCHANGED <<max_fd, request_count, read_set, current, clients_served, g_shutdown>>

-----------------------------------------------------------------------------
ClientActs(c) ==
  Connect(c) \/ ClientSends(c) \/ ClientResets(c) \/ QuietLong(c)

(* The steps that the process itself is due to take.                       *)
Runs ==
  \/ Start \/ Select \/ SelectTimesOut \/ ScanOver \/ AcceptFails \/ Sent
  \/ SendFails \/ CloseAll
  \/ \E c \in Conns : Reject(c) \/ Accept(c)
  \/ \E fd \in Fds : Disconnect(fd) \/ Refuse(fd) \/ Process(fd)

Over == pc \in {"exit", "failed"} /\ UNCHANGED vars

Next ==
  \/ \E c \in Conns : ClientActs(c)
  \/ ClientReads \/ Signal \/ SelectFails \/ Runs \/ Over

(* The process is scheduled.  Clients need not do anything, not even read  *)
(* an answer.                                                              *)
Spec == Init /\ [][Next]_vars /\ WF_vars(Runs)

-----------------------------------------------------------------------------
TypeOK ==
  /\ net \in [Conns -> {"fresh", "queued", "open", "closed", "rejected"}]
  /\ inbox \in [Conns -> {"empty", "data", "fin", "rst"}]
  /\ quiet \in [Conns -> BOOLEAN]
  /\ sock \in [Fds -> Conns \cup {None}]
  /\ pc \in {"start", "select", "scan", "send", "sent", "send failed",
             "closing", "exit", "failed"}
  /\ connections \in [Slots -> Fds \cup {Free}]
  /\ request_count \in [Slots -> 0 .. MaxRequests]
  /\ master_set \in SUBSET (Fds \cup {ListenFd})
  /\ max_fd \in Fds \cup {ListenFd}
  /\ read_set \in SUBSET (Fds \cup {ListenFd})
  /\ current \in Fds \cup {Free}
  /\ clients_served \in Nat
  /\ g_shutdown \in BOOLEAN

(* Five paths end a connection while the server runs, and each of them     *)
(* repairs the table, the set and the largest descriptor by hand           *)
(* (select_server.c:203, 321, 379, 485, 509).  After every step of every   *)
(* path they agree: an open connection has one descriptor, the descriptor  *)
(* one slot, the set holds just these and the listening socket, max_fd is  *)
(* its largest member, and the count of the final report includes each     *)
(* connection once.  The end of the server (:536) forgets no descriptor:   *)
(* it empties the table and the set, and leaves max_fd as it was.          *)
OneDescriptorEach ==
  \A c \in Conns :
    Cardinality({fd \in Fds : sock[fd] = c}) = IF net[c] = "open" THEN 1 ELSE 0
OneSlotEach ==
  /\ \A fd \in Fds \ FreeFds : \E s \in Slots : connections[s] = fd
  /\ \A s \in Slots \ FreeSlots : connections[s] \in Fds \ FreeFds
  /\ \A s, t \in Slots \ FreeSlots : connections[s] = connections[t] => s = t
SetIsExact ==
  /\ pc \notin {"start", "failed", "exit"} =>
       /\ master_set = {ListenFd} \cup (Fds \ FreeFds)
       /\ max_fd \in master_set /\ \A fd \in master_set : fd <= max_fd
  /\ pc = "exit" => master_set = {} /\ FreeFds = Fds /\ FreeSlots = Slots
CountIsExact ==
  clients_served = Cardinality({c \in Conns : net[c] \in {"open", "closed"}})
SetsAgree == OneDescriptorEach /\ OneSlotEach /\ SetIsExact /\ CountIsExact

(* "should not happen - fd in read_set but not in our connection table"    *)
(* (select_server.c:297): a descriptor that the scan has still to reach    *)
(* has a slot, and recv finds something there: it never waits.  Accept     *)
(* reuses descriptors in the same round.                                   *)
ReadSetIsFresh ==
  \A fd \in read_set \cap Fds :
    /\ \E s \in Slots : connections[s] = fd
    /\ sock[fd] # None /\ inbox[sock[fd]] # "empty"

(* A message on an open connection is received, or the connection closed,  *)
(* unless the server waits for a client to read its answer.                *)
MessagesAreReceived ==
  \A c \in Conns :
    net[c] = "open" /\ inbox[c] # "empty"
      ~> net[c] # "open" \/ inbox[c] = "empty" \/ pc = "send"

(* A server that has seen SIGINT at any point ends, unless it waits for a  *)
(* client to read: the timeout of select covers a signal that comes        *)
(* between the test of g_shutdown and select.                              *)
SignalStops == g_shutdown ~> pc \in {"exit", "failed", "send"}

(* The server neither starves a connection nor ignores SIGINT.             *)
ServerProgresses == MessagesAreReceived /\ SignalStops

-----------------------------------------------------------------------------
(* A statement of a document that the code does not satisfy.               *)

(* README.md:215: keep-alive connections are closed after 5 idle seconds,  *)
(* if no client holds the server up.  A connection that cannot be accepted *)
(* for want of a descriptor is enough to keep select from timing out.      *)
IdleIsClosed ==
  \A c \in Conns :
    quiet[c] /\ net[c] = "open" ~> ~quiet[c] \/ net[c] # "open" \/ pc = "send"

=============================================================================
