------------------------------ MODULE RouteTable ------------------------------
(***************************************************************************)
(* The route table (src/route_table.c): exact routes, found through a hash *)
(* index with linear probing, and prefix routes in the order in which they *)
(* were added.  The configuration file is read line by line, each route is *)
(* added or makes the server refuse to start; then requests are looked up. *)
(*                                                                         *)
(* The index has one key per method and path, but a probe stops at the     *)
(* first entry with the path, whatever its method.  The hash function is a *)
(* choice: nothing depends on djb2.  Handlers and roles are left out.      *)
(***************************************************************************)
EXTENDS Integers, Sequences, FiniteSetsExt

CONSTANTS
  Methods,
  Paths,       \* of requests and of exact routes
  Patterns,    \* of prefix routes
  Covered,     \* Covered[pattern]: the paths that begin with it
  HashSize,    \* HASH_SIZE
  MaxRoutes,   \* MAX_ROUTES
  None

(* The text of a pattern may be a path too: it has another name then.      *)
ASSUME RouteAssumption ==
  /\ MaxRoutes \in Nat /\ HashSize \in Nat /\ MaxRoutes < HashSize
  /\ Covered \in [Patterns -> SUBSET Paths]
  /\ Paths \cap Patterns = {}
  /\ None \notin [method : Methods, path : Paths \cup Patterns]

Slots == 0 .. HashSize - 1
Route(paths) == [method : Methods, path : paths]

VARIABLES
  hash_key,    \* the hash function
  exact, prefix,
  g_hash,      \* a position in exact, or 0 for the -1 of the code
  server       \* "starting", "serving" or "refused"

vars == <<hash_key, exact, prefix, g_hash, server>>

Empty == [s \in Slots |-> 0]

Init ==
  /\ hash_key \in [Route(Paths) -> Slots]
  /\ exact = <<>> /\ prefix = <<>>
  /\ g_hash = Empty
  /\ server = "starting"

-----------------------------------------------------------------------------
(* Where a probe that begins at h stops, if it stops at the slots in S.    *)
NearestNoWrap(h, S) == Min({s \in S : s >= h} \cup {HashSize - 1})
Nearest(h, S) == (h + Min({i \in Slots : (h + i) % HashSize \in S})) % HashSize

(* hash_insert of the routes of seq, one after the other, into an empty    *)
(* index.                                                                  *)
Rebuilt(seq) ==
  LET index[n \in 0 .. Len(seq)] ==
        IF n = 0 THEN Empty
        ELSE LET free == {s \in Slots : index[n - 1][s] = 0}
             IN  [index[n - 1] EXCEPT ![Nearest(hash_key[seq[n]], free)] = n]
  IN  index[Len(seq)]

(* The slot at which hash_lookup ends.                                     *)
Probe(r) ==
  Nearest(hash_key[r],
          {s \in Slots : g_hash[s] = 0 \/ exact[g_hash[s]].path = r.path})

(* build_allow_for_path *)
Allow(seq, path) == {seq[i].method : i \in {j \in DOMAIN seq : seq[j].path = path}}

(* The routes and the methods that an answer is made of: 200, 405 or, if   *)
(* both are missing, 404.                                                  *)
Hit(route) == [entry |-> route, allow |-> {}]
Refusal(methods) == [entry |-> None, allow |-> methods]

FindPrefix(r) ==
  LET covering == {i \in DOMAIN prefix : r.path \in Covered[prefix[i].path]}
      right == {i \in covering : prefix[i].method = r.method}
  IN  IF right # {} THEN Hit(prefix[Min(right)])
      ELSE IF covering # {}
      THEN Refusal(Allow(prefix, prefix[Min(covering)].path))
      ELSE Refusal({})

(* route_table_find *)
Find(r) ==
  LET at == g_hash[Probe(r)]
  IN  IF at = 0 THEN FindPrefix(r)
      ELSE IF exact[at].method = r.method THEN Hit(exact[at])
      ELSE Refusal(Allow(exact, r.path))

-----------------------------------------------------------------------------
(* route_table_add, and what the parsers do with its result.               *)

Accepted(seq, r) == Len(seq) < MaxRoutes /\ \A i \in DOMAIN seq : seq[i] # r

AddExact(r) ==
  /\ server = "starting" /\ Accepted(exact, r)
  /\ exact' = Append(exact, r)
  /\ g_hash' = Rebuilt(exact')
  /\ UNCHANGED <<hash_key, prefix, server>>

AddPrefix(r) ==
  /\ server = "starting" /\ Accepted(prefix, r)
  /\ prefix' = Append(prefix, r)
  /\ UNCHANGED <<hash_key, exact, g_hash, server>>

(* The process exits, and its table is gone.                               *)
AddRefused ==
  /\ server = "starting"
  /\ \/ \E r \in Route(Paths) : ~Accepted(exact, r)
     \/ \E r \in Route(Patterns) : ~Accepted(prefix, r)
  /\ server' = "refused"
  /\ exact' = <<>> /\ prefix' = <<>> /\ g_hash' = Empty
  /\ UNCHANGED hash_key

(* route_table_validate finds nothing that route_table_add lets pass.      *)
Start ==
  /\ server = "starting"
  /\ server' = "serving"
  /\ UNCHANGED <<hash_key, exact, prefix, g_hash>>

(* Looking up a request changes nothing.                                   *)
Loaded == server # "starting" /\ UNCHANGED vars

Next ==
  \/ \E r \in Route(Paths) : AddExact(r)
  \/ \E r \in Route(Patterns) : AddPrefix(r)
  \/ AddRefused \/ Start \/ Loaded

Spec == Init /\ [][Next]_vars

-----------------------------------------------------------------------------
(* The index hides no route: for every hash function and every order of    *)
(* the routes the request of an exact route finds it, if no earlier route  *)
(* has its path; behind an earlier one it may be refused, with a 405 of    *)
(* just the methods of its path.  A request without an exact route never   *)
(* gets one: it is refused in the same way, if its path has any, or gets   *)
(* what the prefix routes say.  Displaced entries, the wrap-around and the *)
(* rebuilding make no difference.                                          *)
RoutesAreSeen ==
  \A r \in Route(Paths) :
    LET answer == Find(r)
        methods == Allow(exact, r.path)
    IN  /\ \A i \in DOMAIN exact : exact[i] = r =>
             \/ answer = Hit(r)
             \/ /\ answer = Refusal(methods)
                /\ \E j \in 1 .. i - 1 : exact[j].path = r.path
        /\ r \notin Range(exact) =>
             \/ answer = FindPrefix(r)
             \/ answer = Refusal(methods) /\ methods # {}

-----------------------------------------------------------------------------
(* Statements of route_table.h that the code does not satisfy.             *)

(* route_table.h:114 "Exact path match with matching method": the probe    *)
(* does not go on behind an entry with the path and another method, so the *)
(* answer can be a 405 that names the method of the request.               *)
ExactIsFound ==
  \A i \in DOMAIN exact : Find(exact[i]).entry = exact[i]

(* route_table.h:18 "longest-prefix-first": the first added wins.          *)
LongestPrefixWins ==
  \A r \in Route(Paths), i, j \in DOMAIN prefix :
    Find(r).entry = prefix[i] /\ prefix[j].method = r.method
      /\ r.path \in Covered[prefix[j].path]
        => ~(Covered[prefix[j].path] \subseteq Covered[prefix[i].path]) \/ i = j
           \/ prefix[i].path = prefix[j].path

(* route_table.h:119 "Exact path match, wrong method": 405, not 404.       *)
PathIsNeverUnknown ==
  \A r \in Route(Paths) :
    Allow(exact, r.path) # {} => Find(r) # Refusal({})

=============================================================================
