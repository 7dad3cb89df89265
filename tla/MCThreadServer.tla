---------------------------- MODULE MCThreadServer ----------------------------
(* Instances of ThreadServer: the index page, and a comparison.  A pattern *)
(* has a star, to tell it from the path that is written like it.           *)
EXTENDS ThreadServer

CONSTANTS c1, c2

CoveredPaths == [p \in Patterns |-> IF p = "/*" THEN Paths ELSE {"/users/x"}]

Get(path) == [method |-> "GET", path |-> path]
RootedRoutes == {Get("/")}
CapturingRoutes == {Get("/users/*")}
RequiredRoles ==
  [r \in Route(Paths) \cup Route(Patterns) |->
     IF r = Get("/") THEN "user" ELSE None]

Defaults == << [match |-> "exact", route |-> Get("/")],
               [match |-> "prefix", route |-> Get("/users/*")] >>
Tables == { << <<Get("/")>>, <<Get("/users/*")>> >>, << <<>>, <<>> >> }
Key == [r \in Route(Paths) |-> IF r.path = "/" THEN 3 ELSE 1]

Ask(path, host, session, basic) ==
  [route |-> Get(path), host |-> host, session |-> session, basic |-> basic]
SomeRequests ==
  {Ask("/users/x", None, None, None), Ask("/", None, None, None),
   Ask("/", "b", "user", None), Ask("/", None, None, "unknown")}

Blocks == << [names |-> {"a"}, default |-> TRUE, root |-> "A"],
             [names |-> {"b"}, default |-> FALSE, root |-> "B"] >>

=============================================================================
