----------------------------- MODULE ThreadServer -----------------------------
(***************************************************************************)
(* Two servers around the request loop of RequestHandler: the one of       *)
(* src/tcp_thread_server.c (-m thread), which starts a detached thread for *)
(* each connection, and the sequential one of src/tcp_server.c, which      *)
(* reads a configuration file and answers one connection after the other.  *)
(*                                                                         *)
(* The kernel gives SIGINT to the main thread, which does not block it.  A *)
(* call that waits and the moment before it are one state of that thread.  *)
(***************************************************************************)
EXTENDS RequestHandler

CONSTANTS
  Modes,        \* {"thread", "tcp"}
  Servers,      \* the server blocks of the configuration file
  ServedKey,    \* bounds: the hash function and the configured tables whose
  ServedTables  \* requests are followed

VARIABLES
  mode,
  net,          \* each connection: "fresh", "queued" or "accepted"
  fds,          \* connections of which the server has the descriptor
  main,         \* what the main thread does
  listening, g_shutdown,
  freed         \* log and user store were closed and freed by main

main_vars == <<mode, net, fds, main, listening, g_shutdown, freed>>
all_vars == <<vars, handler_vars, main_vars>>

(* The server with threads reads no configuration file.                    *)
ServerInit ==
  /\ Init /\ HandlerInit
  /\ mode \in Modes
  /\ mode = "thread" => hash_key = ServedKey
  /\ g_servers = IF mode = "tcp" THEN Servers ELSE <<>>
  /\ net = [c \in Conns |-> "fresh"]
  /\ fds = {}
  /\ main = "config"
  /\ listening = FALSE /\ g_shutdown = FALSE /\ freed = FALSE

Queued == {c \in Conns : net[c] = "queued"}
Gone == main \in {"exit", "failed", "killed"}

-----------------------------------------------------------------------------
(* Configuration and start.                                                *)

(* The sequential server reads its routes.                                 *)
Configure ==
  /\ main = "config" /\ mode = "tcp"
  /\ Next
  /\ UNCHANGED <<handler_vars, main_vars>>

Follow == hash_key = ServedKey /\ <<exact, prefix>> \in ServedTables

(* Up to the accept loop; anything on the way may fail.                    *)
Launch ==
  /\ main = "config"
  /\ mode = "tcp" => server = "serving" /\ Follow
  /\ default_rt' = IF exact = <<>> /\ prefix = <<>> THEN "empty" ELSE "unused"
  /\ \/ main' = "accept" /\ listening' = TRUE
     \/ main' = "failed" /\ UNCHANGED listening
  /\ UNCHANGED <<vars, clients, pc, req, hit, turn, served, statics, g_servers,
                 output, buffered, undisturbed, raced>>
  /\ UNCHANGED <<mode, net, fds, g_shutdown, freed>>

-----------------------------------------------------------------------------
(* Clients and SIGINT.                                                     *)

handler_rest == <<pc, req, hit, turn, served, statics, g_servers, default_rt,
                  output, buffered, undisturbed, raced>>

Connect(c) ==
  /\ net[c] = "fresh" /\ listening
  /\ net' = [net EXCEPT ![c] = "queued"]
  /\ UNCHANGED <<vars, handler_vars, mode, fds, main, listening, g_shutdown,
                 freed>>

(* Host, cookie and credentials make no difference to the server with      *)
(* threads, whose routes have no roles.                                    *)
Sent == IF mode = "tcp" THEN Requests
        ELSE {q \in Requests : q.host = None /\ q.session = None /\ q.basic = None}

ClientActs(c) ==
  /\ net[c] # "fresh" /\ pc[c] # "done" /\ ~Gone
  /\ \/ \E m \in Sent \cup {Malformed} : ClientSends(c, m)
     \/ ClientCloses(c)
  /\ UNCHANGED <<vars, handler_rest, main_vars>>

(* while (!g_shutdown) *)
LoopForEver == "accept"
Loop == IF g_shutdown THEN "leave" ELSE "accept"

(* sigint_handler, perhaps more than once: it may interrupt accept, usleep *)
(* and, in the sequential server, recv.                                    *)
Interrupt ==
  /\ ~Gone /\ main # "config"
  /\ g_shutdown' = TRUE
  /\ \/ UNCHANGED <<main, pc>>
     \/ main = "accept" /\ main' = "leave" /\ UNCHANGED pc
     \/ /\ main = "handle" /\ UNCHANGED main
        /\ \E c \in Conns : pc[c] = "recv" /\ Goto(c, "close")
  /\ UNCHANGED <<vars, clients, req, hit, turn, served, statics, g_servers,
                 default_rt, output, buffered, undisturbed, raced>>
  /\ UNCHANGED <<mode, net, fds, listening, freed>>

-----------------------------------------------------------------------------
(* The main thread.  Between accept and pthread_create it touches nothing  *)
(* that other threads use.                                                 *)

main_rest == <<vars, clients, req, hit, turn, statics, g_servers, default_rt,
               buffered, raced, mode, g_shutdown>>

Accept(c) ==
  /\ main = "accept" /\ c \in Queued
  /\ net' = [net EXCEPT ![c] = "accepted"]

(* Main prints a line: whoever captures standard output gets it.           *)
Disturbs == undisturbed' = None

(* pthread_create and pthread_detach. *)
Spawn(c) ==
  /\ mode = "thread" /\ Accept(c)
  /\ fds' = fds \cup {c}
  /\ Goto(c, "recv")
  /\ Say(Console) /\ Disturbs
  /\ main' = Loop
  /\ UNCHANGED <<main_rest, served, stdout, saved, listening, freed>>

(* malloc or pthread_create fails: the connection is closed.               *)
SpawnFails(c) ==
  /\ mode = "thread" /\ Accept(c)
  /\ main' = Loop
  /\ UNCHANGED <<main_rest, served, pc, output, undisturbed, fds, listening, freed>>

(* accept fails: the sequential server goes on, the other one ends.        *)
AcceptFails ==
  /\ main = "accept" /\ mode = "thread"
  /\ main' = "leave"
  /\ UNCHANGED <<main_rest, served, pc, output, undisturbed, net, fds, listening, freed>>

(* handle_one_request of the sequential server. *)
HandleOne(c) ==
  /\ mode = "tcp" /\ Accept(c)
  /\ fds' = fds \cup {c}
  /\ Goto(c, "recv")
  /\ SayNow(Console) /\ Disturbs
  /\ main' = "handle"
  /\ UNCHANGED <<main_rest, served, stdout, saved, listening, freed>>

(* The connection is closed by its thread or after handle_one_request.     *)
Close(c) ==
  /\ pc[c] = "close"
  /\ fds' = fds \ {c}
  /\ Goto(c, "done")
  /\ served' = [served EXCEPT ![c] = 0]
  /\ client' = [client EXCEPT ![c] = "closed"]
  /\ inbox' = [inbox EXCEPT ![c] = None]
  /\ main' = IF mode = "tcp" THEN Loop ELSE main
  /\ UNCHANGED <<vars, sent, req, hit, turn, statics, g_servers, default_rt,
                 output, buffered, undisturbed, raced>>
  /\ UNCHANGED <<mode, net, listening, g_shutdown, freed>>

(* With threads main first waits for 500 ms, whether any is running or not.*)
(* Then the listening socket is closed, and main() calls log_close and     *)
(* user_store_free.                                                        *)
Leave ==
  /\ main = "leave"
  /\ listening' = FALSE /\ freed' = TRUE
  /\ main' = "return"
  /\ UNCHANGED <<main_rest, served, pc, output, undisturbed, net, fds>>

(* The process is over, with its threads, descriptors and memory.          *)
Ends(how) ==
  /\ main' = how
  /\ fds' = {}
  /\ listening' = FALSE
  /\ pc' = [c \in Conns |-> "none"] /\ served' = [c \in Conns |-> 0]
  /\ req' = [c \in Conns |-> None] /\ hit' = [c \in Conns |-> None]
  /\ g_body_buf' = NoPage /\ resp_buf' = NoPage /\ g_compare_ctx' = None
  /\ stdout' = Console /\ lines' = {} /\ saved' = [c \in Conns |-> None]
  /\ pipe' = [c \in Conns |-> {}] /\ undisturbed' = None
  /\ UNCHANGED <<vars, clients, turn, g_current_root, g_servers, default_rt,
                 buffered, raced, mode, net, g_shutdown, freed>>

Exit == main = "return" /\ Ends("exit")

(* The sequential server does not ignore SIGPIPE.                          *)
KilledBySend(c) ==
  mode = "tcp" /\ pc[c] = "send" /\ client[c] = "closed" /\ Ends("killed")

(* A thread that uses the freed store may bring the process down.          *)
KilledByStore(c) == freed /\ pc[c] \in {"body", "print"} /\ Ends("killed")

MainRuns ==
  \/ \E c \in Conns : Spawn(c) \/ SpawnFails(c) \/ HandleOne(c)
  \/ Leave \/ Exit

ThreadRuns(c) ==
  \/ (HandlesRequest(c) \/ UsesStore(c)) /\ UNCHANGED main_vars
  \/ mode = "thread" /\ SendFails(c) /\ UNCHANGED main_vars
  \/ KilledBySend(c) \/ KilledByStore(c) \/ Close(c)

Stopped == Gone /\ UNCHANGED all_vars

ServerNext ==
  \/ Configure \/ Launch \/ Interrupt \/ MainRuns \/ AcceptFails \/ Stopped
  \/ \E c \in Conns : Connect(c) \/ ClientActs(c) \/ ThreadRuns(c)

(* The main thread, which handles the requests itself in the sequential    *)
(* server, is scheduled; recv waits KEEP_ALIVE_TIMEOUT_SEC at most, and    *)
(* clients read what they are sent.                                        *)
MainThread == MainRuns \/ \E c \in Conns : mode = "tcp" /\ ThreadRuns(c)

ServerSpec == ServerInit /\ [][ServerNext]_all_vars /\ WF_all_vars(MainThread)

-----------------------------------------------------------------------------
ServerTypeOK ==
  /\ mode \in Modes /\ net \in [Conns -> {"fresh", "queued", "accepted"}]
  /\ fds \subseteq Conns
  /\ main \in {"config", "accept", "handle", "leave", "return", "exit",
               "failed", "killed"}
  /\ listening \in BOOLEAN /\ g_shutdown \in BOOLEAN /\ freed \in BOOLEAN

(* The table of the configuration, and the default table that one thread   *)
(* fills, hide no route, while it is filled and afterwards.  Threads that  *)
(* fill the default table together can leave it in any state.              *)
RoutesAreFound == "fill" \notin raced => RoutesAreSeen

(* A request during which no other thread ran gets the page of its own     *)
(* route, with nobody else's text in it, and the root of the host it names:*)
(* always in the sequential server; with threads as long as the default    *)
(* table was not filled by two of them at once.  Standard output is a      *)
(* terminal.                                                               *)
AnswerIsOwn ==
  \A c \in Conns :
    (pc[c] = "send" /\ undisturbed = c /\ "fill" \notin raced /\ ~buffered)
      => IsAnswerTo(c, req[c], resp_buf)

(* SIGINT ends the process, unless it arrives when the loop has looked at  *)
(* the flag and accept does not wait yet; then the next connection does.   *)
InterruptStops ==
  (g_shutdown /\ (main # "accept" \/ Queued # {})) ~> Gone

-----------------------------------------------------------------------------
(* Statements that the code does not satisfy.                              *)

(* tcp_thread_server.c:216 "wait a moment for remaining threads to finish":*)
(* no thread is handling a request when the store is freed.                *)
StoreOutlivesThreads == freed => \A c \in Conns : ~Busy(c)

(* request_handler.h:48 "for the current request/thread": the answer to    *)
(* any request, overlapped or not, is its own.                             *)
EveryAnswerIsOwn ==
  \A c \in Conns : pc[c] = "send" => IsAnswerTo(c, req[c], resp_buf)

=============================================================================
