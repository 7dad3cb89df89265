---------------------------- MODULE RequestHandler ----------------------------
(***************************************************************************)
(* The request loop of a connection (src/request_handler.c), run by one    *)
(* thread for each connection or by one thread for all.  What a request    *)
(* needs beyond its thread's stack is static: the body and the response    *)
(* buffer, the document root, the default route table, and standard output,*)
(* which a handler that captures it redirects for the whole process.       *)
(*                                                                         *)
(* A page is known by the route it comes from, its document root and whose *)
(* text is in it.  Standard output is buffered by lines if it is a         *)
(* terminal, and until fflush if it is a file.                             *)
(***************************************************************************)
EXTENDS RouteTable

CONSTANTS
  Conns,        \* connections; the thread of one has its name
  Malformed,    \* a message, or credentials, that cannot be parsed
  Requests,     \* records: route, host, session, basic
  Required,     \* the role that each configured route requires, or None
  Capturing,    \* the routes whose handler captures standard output
  Rooted,       \* those whose handler serves a file of the document root
  DefaultTable, \* route_table_populate_defaults: "exact" or "prefix", route
  Buffering,    \* whether stdout may be a file: a subset of BOOLEAN
  MaxRequests,  \* MAX_KEEP_ALIVE_REQUESTS
  MaxSent       \* bound on the messages the clients send

Console == "console"
Broken == "broken"    \* a pipe whose read end is closed

(* None, Console and Broken are names of nothing else, and the default     *)
(* table fits into the arrays.                                             *)
ASSUME HandlerAssumption ==
  /\ \A q \in Requests : q.route \in Route(Paths)
  /\ None \notin Requests /\ {None, Console, Broken} \cap Conns = {}
  /\ DefaultTable \in Seq([match : {"exact"}, route : Route(Paths)]
                          \cup [match : {"prefix"}, route : Route(Patterns)])
  /\ Len(DefaultTable) <= MaxRoutes

VARIABLES
  client,       \* each client: "idle", "waiting" for an answer or "closed"
  inbox,        \* what it sent and the server has not read
  sent,         \* messages sent by all clients
  pc, req, hit, turn, served,   \* the thread of each connection
  g_body_buf, resp_buf, g_current_root, g_compare_ctx,
  g_servers,    \* the configured server blocks: names, default, root
  default_rt,   \* "unused", "empty" or, once initialised, "ready"
  stdout,       \* descriptor 1: the console, Broken or a connection's pipe
  lines,        \* whose text is in the buffer of stdout
  saved,        \* each thread's duplicate of stdout, or None
  pipe,         \* whose text is in each connection's pipe
  buffered,     \* stdout is not a terminal
  undisturbed,  \* the connection whose request is being handled without any
                \* other thread having run since it came, or None
  raced         \* "fill", "capture": two threads did so at the same time

clients == <<client, inbox, sent>>
output == <<stdout, lines, saved, pipe>>
statics == <<g_body_buf, resp_buf, g_current_root, g_compare_ctx>>
default_table == <<exact, prefix, g_hash, default_rt>>
fixed == <<hash_key, server, g_servers, buffered>>
handler_vars == <<clients, pc, req, hit, turn, served, statics, g_servers,
                  default_rt, output, buffered, undisturbed, raced>>

NoPage == [route |-> None, status |-> 0, root |-> None, text |-> {}]

HandlerInit ==
  /\ client = [c \in Conns |-> "idle"]
  /\ inbox = [c \in Conns |-> None]
  /\ sent = 0
  /\ pc = [c \in Conns |-> "none"]
  /\ req = [c \in Conns |-> None]
  /\ hit = [c \in Conns |-> None]
  /\ turn = [c \in Conns |-> 0] /\ served = [c \in Conns |-> 0]
  /\ g_body_buf = NoPage /\ resp_buf = NoPage
  /\ g_current_root = "www" /\ g_compare_ctx = None
  /\ default_rt = "unused"
  /\ stdout = Console /\ lines = {}
  /\ saved = [c \in Conns |-> None]
  /\ pipe = [c \in Conns |-> {}]
  /\ buffered \in Buffering
  /\ undisturbed = None
  /\ raced = {}

-----------------------------------------------------------------------------
(* Clients.                                                                *)

ClientSends(c, message) ==
  /\ client[c] = "idle" /\ sent < MaxSent
  /\ client' = [client EXCEPT ![c] = "waiting"]
  /\ inbox' = [inbox EXCEPT ![c] = message]
  /\ sent' = sent + 1

(* One that closes between two requests is one that sends nothing more.    *)
ClientCloses(c) ==
  /\ client[c] = "waiting"
  /\ client' = [client EXCEPT ![c] = "closed"]
  /\ UNCHANGED <<inbox, sent>>

-----------------------------------------------------------------------------
(* Pure parts: virtual hosts and authorisation.                            *)

(* config_find_server for a request with a Host header.                    *)
FindServer(host) ==
  LET matching == {i \in DOMAIN g_servers :
                     g_servers[i].names = {} \/ host \in g_servers[i].names}
      default == {i \in DOMAIN g_servers : g_servers[i].default}
  IN  IF matching # {} THEN g_servers[Min(matching)]
      ELSE IF default # {} THEN g_servers[Min(default)]
      ELSE g_servers[1]

(* The document root of the process after a request with this header.      *)
RootFor(host, root) ==
  IF host = None \/ g_servers = <<>> THEN root
  ELSE IF FindServer(host).root = None THEN root ELSE FindServer(host).root

(* The role of a session wins over the role of basic credentials; only the *)
(* administrator or the role itself may pass.                              *)
Authorized(q, required) ==
  LET role == IF q.session # None THEN q.session ELSE q.basic
  IN  IF required = None THEN 200
      ELSE IF q.session = None /\ q.basic = Malformed THEN 400
      ELSE IF role = "unknown" THEN 401
      ELSE IF role = None THEN 302
      ELSE IF role \in {"admin", required} THEN 200 ELSE 403

(* The routes of the default table require no role.                        *)
RequiredFor(route) == IF default_rt = "unused" THEN Required[route] ELSE None

(* The status of the answer to q for what route_table_find returned.       *)
StatusOf(q, found) ==
  IF found.entry # None THEN Authorized(q, RequiredFor(found.entry))
  ELSE IF found.allow # {} THEN 405 ELSE 404

-----------------------------------------------------------------------------
(* Standard output.  Its buffer and descriptor 1 belong to the process.    *)

Piped(texts) ==
  [c \in Conns |-> IF stdout = c THEN pipe[c] \cup texts ELSE pipe[c]]

(* printf of a whole line.                                                 *)
Say(text) ==
  IF buffered THEN lines' = lines \cup {text} /\ UNCHANGED pipe
  ELSE pipe' = Piped({text}) /\ UNCHANGED lines

(* printf and fflush.                                                      *)
SayNow(text) ==
  /\ pipe' = Piped(lines \cup {text})
  /\ lines' = {}

(* Somebody can still write to the pipe of c.                              *)
HasWriter(c) == stdout = c \/ \E d \in Conns : saved[d] = c

(* The read end of the pipe of c is closed.                                *)
Unread(c, descriptor) == IF descriptor = c THEN Broken ELSE descriptor

-----------------------------------------------------------------------------
(* request_handler_handle_connection and request_handler_process_http.     *)

Busy(c) == pc[c] \notin {"none", "recv", "close", "done"}

(* Thread c takes a step. *)
Acts(c) == undisturbed' = IF pc[c] = "recv" \/ undisturbed = c THEN c ELSE None

Goto(c, label) == pc' = [pc EXCEPT ![c] = label]

(* recv gives a request: its first line and headers are parsed into the    *)
(* thread's own request_t, and a Host header sets the root of the process. *)
Receive(c) ==
  /\ pc[c] = "recv" /\ inbox[c] \in Requests /\ served[c] < MaxRequests
  /\ req' = [req EXCEPT ![c] = inbox[c]]
  /\ inbox' = [inbox EXCEPT ![c] = None]
  /\ g_current_root' = RootFor(inbox[c].host, g_current_root)
  /\ Goto(c, "table") /\ Acts(c)
  /\ UNCHANGED <<fixed, client, sent, hit, turn, served, g_body_buf, resp_buf,
                 g_compare_ctx, default_table, output, raced>>

(* A malformed first line is answered at once, and ends the connection.    *)
BadRequest == [NoPage EXCEPT !.status = 400]

ReceiveMalformed(c) ==
  /\ pc[c] = "recv" /\ inbox[c] = Malformed /\ served[c] < MaxRequests
  /\ inbox' = [inbox EXCEPT ![c] = None]
  /\ resp_buf' = BadRequest
  /\ client' = [client EXCEPT ![c] = IF @ = "waiting" THEN "idle" ELSE @]
  /\ Goto(c, "close") /\ Acts(c)
  /\ UNCHANGED <<fixed, sent, req, hit, turn, served, g_body_buf, g_current_root,
                 g_compare_ctx, default_table, output, raced>>

(* The client closed, or nothing came for KEEP_ALIVE_TIMEOUT_SEC seconds,  *)
(* or recv fails, or the connection has had its share.                     *)
ReceiveNothing(c) ==
  /\ pc[c] = "recv" /\ (inbox[c] = None \/ served[c] = MaxRequests)
  /\ Goto(c, "close")
  /\ UNCHANGED <<fixed, clients, req, hit, turn, served, statics,
                 default_table, output, undisturbed, raced>>

(* Another thread is in the same part of the code.                         *)
Together(c, labels) == \E d \in Conns \ {c} : pc[d] \in labels

(* The effect of one route_table_add, which refuses a duplicate.           *)
Added(seq, r) == IF Accepted(seq, r) THEN Append(seq, r) ELSE seq

(* route_table_init, then one route_table_add after the other.  As long as *)
(* one thread is filling nobody looks at the table, so an addition can be  *)
(* one step.  Two threads that are in it together race over the count, the *)
(* entry and the index, which either may wipe under the other: from then   *)
(* on the contents are not followed, and Findings allows for anything.     *)
FillTable(c) ==
  LET alone == ~Together(c, {"fill"})
      n == turn[c]
      add == DefaultTable[n]
  IN
  /\ pc[c] = "fill"
  /\ raced' = IF alone THEN raced ELSE raced \cup {"fill"}
  /\ IF "fill" \in raced' THEN UNCHANGED <<exact, prefix, g_hash>>
     ELSE IF n = 0
     THEN exact' = <<>> /\ prefix' = <<>> /\ g_hash' = Empty
     ELSE IF add.match = "exact"
     THEN /\ exact' = Added(exact, add.route)
          /\ g_hash' = Rebuilt(exact')
          /\ UNCHANGED prefix
     ELSE /\ prefix' = Added(prefix, add.route)
          /\ UNCHANGED <<exact, g_hash>>
  /\ turn' = [turn EXCEPT ![c] = IF n = Len(DefaultTable) THEN 0 ELSE n + 1]
  /\ IF n = Len(DefaultTable)
     THEN default_rt' = "ready" /\ Goto(c, "find")
     ELSE UNCHANGED <<default_rt, pc>>
  /\ Acts(c)
  /\ UNCHANGED <<fixed, clients, req, hit, served, statics, output>>

(* What route_table_find may return: in a table that two threads filled at *)
(* the same time any of its routes, or none with any set of methods.       *)
Findings(r) ==
  IF "fill" \in raced
  THEN {Hit(DefaultTable[i].route) : i \in DOMAIN DefaultTable}
         \cup {Refusal(methods) : methods \in SUBSET Methods}
  ELSE {Find(r)}

(* route_table_find and the checks before a handler is called.             *)
Lookup(c) ==
  \E found \in Findings(req[c].route) :
    LET status == StatusOf(req[c], found) IN
    /\ hit' = [hit EXCEPT ![c] = [route |-> found.entry, status |-> status]]
    /\ Goto(c, IF status = 200 /\ found.entry \in Capturing THEN "save"
               ELSE IF status \in {200, 404} THEN "body" ELSE "direct")

(* The body buffer is cleared; without configured routes the default table *)
(* is used, and filled by the first thread that finds it was not.          *)
Dispatch(c) ==
  /\ pc[c] = "table"
  /\ g_body_buf' = NoPage
  /\ IF default_rt = "empty" THEN Goto(c, "fill") /\ UNCHANGED hit ELSE Lookup(c)
  /\ Acts(c)
  /\ UNCHANGED <<fixed, clients, req, turn, served, resp_buf, g_current_root,
                 g_compare_ctx, default_table, output, raced>>

DispatchFilled(c) ==
  /\ pc[c] = "find" /\ Lookup(c) /\ Acts(c)
  /\ UNCHANGED <<fixed, clients, req, turn, served, statics, default_table,
                 output, raced>>

(* What thread c makes of its request, with the root the process has now.  *)
Page(c, texts) ==
  [route |-> hit[c].route, status |-> hit[c].status,
   root |-> IF hit[c].status = 200 /\ hit[c].route \in Rooted
            THEN g_current_root ELSE None,
   text |-> texts]

(* A handler formats its page in the body buffer; a file may be missing.   *)
Missing(c) == [NoPage EXCEPT !.status = 404, !.text = {c}, !.route = hit[c].route]

FormatBody(c) ==
  /\ pc[c] = "body"
  /\ \/ g_body_buf' = Page(c, {c})
     \/ hit[c].status = 200 /\ hit[c].route \in Rooted /\ g_body_buf' = Missing(c)
  /\ Goto(c, "build") /\ Acts(c)
  /\ UNCHANGED <<fixed, clients, req, hit, turn, served, resp_buf,
                 g_current_root, g_compare_ctx, default_table, output, raced>>

(* The body is copied behind its header.                                   *)
BuildResponse(c) ==
  /\ pc[c] = "build"
  /\ resp_buf' = g_body_buf
  /\ Goto(c, "send") /\ Acts(c)
  /\ UNCHANGED <<fixed, clients, req, hit, turn, served, g_body_buf,
                 g_current_root, g_compare_ctx, default_table, output, raced>>

(* 400, 401, 302, 403 and 405 are written straight to the response buffer. *)
WriteDirect(c) ==
  /\ pc[c] = "direct"
  /\ resp_buf' = Page(c, {c})
  /\ Goto(c, "send") /\ Acts(c)
  /\ UNCHANGED <<fixed, clients, req, hit, turn, served, g_body_buf,
                 g_current_root, g_compare_ctx, default_table, output, raced>>

(* capture_stdout of what a comparison prints about the name in            *)
(* g_compare_ctx: a new pipe, dup, dup2, print and flush, dup2, read.      *)
SaveStdoutOldName(c) ==
  /\ pc[c] = "save"
  /\ g_compare_ctx' = IF g_compare_ctx = None THEN c ELSE g_compare_ctx
  /\ saved' = [saved EXCEPT ![c] = stdout]
  /\ Goto(c, "redirect") /\ Acts(c)
  /\ UNCHANGED <<fixed, clients, req, hit, turn, served, g_body_buf, resp_buf,
                 g_current_root, default_table, stdout, lines, pipe, raced>>

SaveStdout(c) ==
  /\ pc[c] = "save"
  /\ g_compare_ctx' = c
  /\ saved' = [saved EXCEPT ![c] = stdout]
  /\ Goto(c, "redirect") /\ Acts(c)
  /\ UNCHANGED <<fixed, clients, req, hit, turn, served, g_body_buf, resp_buf,
                 g_current_root, default_table, stdout, lines, pipe, raced>>

Captured == {"redirect", "print", "restore", "read"}

Redirect(c) ==
  /\ pc[c] = "redirect"
  /\ stdout' = c
  /\ raced' = IF Together(c, Captured) THEN raced \cup {"capture"} ELSE raced
  /\ Goto(c, "print") /\ Acts(c)
  /\ UNCHANGED <<fixed, clients, req, hit, turn, served, statics,
                 default_table, lines, saved, pipe>>

PrintCaptured(c) ==
  /\ pc[c] = "print"
  /\ SayNow(g_compare_ctx)
  /\ Goto(c, "restore") /\ Acts(c)
  /\ UNCHANGED <<fixed, clients, req, hit, turn, served, statics,
                 default_table, stdout, saved, raced>>

RestoreStdout(c) ==
  /\ pc[c] = "restore"
  /\ stdout' = saved[c]
  /\ saved' = [saved EXCEPT ![c] = None]
  /\ Goto(c, "read") /\ Acts(c)
  /\ UNCHANGED <<fixed, clients, req, hit, turn, served, statics,
                 default_table, lines, pipe, raced>>

(* read waits while the pipe is empty and somebody may write to it.        *)
ReadCaptured(c) ==
  /\ pc[c] = "read" /\ (pipe[c] # {} \/ ~HasWriter(c))
  /\ g_body_buf' = Page(c, pipe[c])
  /\ pipe' = [pipe EXCEPT ![c] = {}]
  /\ stdout' = Unread(c, stdout)
  /\ saved' = [d \in Conns |-> Unread(c, saved[d])]
  /\ Goto(c, "build") /\ Acts(c)
  /\ UNCHANGED <<fixed, clients, req, hit, turn, served, resp_buf,
                 g_current_root, g_compare_ctx, default_table, lines, raced>>

(* The thread's own variables are of no use after a request.               *)
Forget(c) ==
  /\ req' = [req EXCEPT ![c] = None]
  /\ hit' = [hit EXCEPT ![c] = None]

(* The line on the console and the answer, from the static buffer.         *)
Send(c) ==
  /\ pc[c] = "send"
  /\ Say(Console)
  /\ client' = [client EXCEPT ![c] = IF @ = "waiting" THEN "idle" ELSE @]
  /\ served' = [served EXCEPT ![c] = @ + 1]
  /\ Goto(c, "recv") /\ Forget(c) /\ Acts(c)
  /\ UNCHANGED <<fixed, inbox, sent, turn, statics, default_table, stdout,
                 saved, raced>>

(* send fails because the client closed: EPIPE.                            *)
SendFails(c) ==
  /\ pc[c] = "send" /\ client[c] = "closed"
  /\ Say(Console)
  /\ Goto(c, "close") /\ Forget(c) /\ Acts(c)
  /\ UNCHANGED <<fixed, clients, turn, served, statics, default_table, stdout,
                 saved, raced>>

UsesStore(c) == FormatBody(c) \/ PrintCaptured(c)

HandlesRequest(c) ==
  \/ Receive(c) \/ ReceiveMalformed(c) \/ ReceiveNothing(c)
  \/ Dispatch(c) \/ FillTable(c) \/ DispatchFilled(c)
  \/ SaveStdout(c) \/ Redirect(c) \/ RestoreStdout(c) \/ ReadCaptured(c)
  \/ BuildResponse(c) \/ WriteDirect(c) \/ Send(c)

-----------------------------------------------------------------------------
(* The answer a request should have, from the table the server was given.  *)

GivenTo(match) ==
  IF default_rt = "unused"
  THEN IF match = "exact" THEN Range(exact) ELSE Range(prefix)
  ELSE {DefaultTable[i].route :
          i \in {j \in DOMAIN DefaultTable : DefaultTable[j].match = match}}

(* The page for q is that of its route, or of a prefix route if it has no  *)
(* exact one, with nobody else's text; if it names its host, with the root *)
(* of that host.                                                           *)
IsAnswerTo(c, q, page) ==
  /\ page.route # None =>
       /\ page.route = q.route
            \/ (/\ q.route \notin GivenTo("exact")
                /\ page.route \in GivenTo("prefix")
                /\ page.route.method = q.route.method
                /\ q.route.path \in Covered[page.route.path])
       /\ page.status = Authorized(q, RequiredFor(page.route))
            \/ (page.status = 404 /\ page.route \in Rooted)
  /\ page.status = 200 =>
       /\ page.text = {c}
       /\ page.route \in Rooted /\ q.host # None =>
            page.root = RootFor(q.host, page.root)
  /\ page.status = 404 /\ page.route = None =>
       /\ q.route \notin GivenTo("exact")
       /\ \A r \in GivenTo("prefix") : q.route.path \notin Covered[r.path]

=============================================================================
