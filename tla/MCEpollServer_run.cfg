SPECIFICATION Spec
CONSTANTS
  Procs = {p1, p2}
  Conns = {c1, c2}
  MaxConns = 1
  MaxEvents = 2
  MaxRequests = 2
  Requests <- NoHost
  server_of <- Blog
  FirstRoot = "www"
  Listen = Listen
  None = None
INVARIANTS TablesAgree EventsAreFresh
PROPERTIES MessagesAreReceived SignalStops
