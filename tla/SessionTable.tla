----------------------------- MODULE SessionTable -----------------------------
(***************************************************************************)
(* The session table of src/session.c: an array of sessions and an index   *)
(* g_hash with linear probing.  An entry of the index is removed by making *)
(* it empty, without a tombstone.                                          *)
(*                                                                         *)
(* A table belongs to one process, and the processes that use it (the      *)
(* workers of the master mode) have one thread: an operation is one action.*)
(* A probe that meets neither an empty entry nor what it looks for never   *)
(* ends: the operation sets looping and nothing happens afterwards.        *)
(***************************************************************************)
EXTENDS Integers, FiniteSets, FiniteSetsExt

CONSTANTS
  Ids,           \* the session ids /dev/urandom can yield
  MaxSessions,   \* MAX_SESSIONS
  HashSize,      \* SESSION_HASH_SIZE
  TTL,           \* SESSION_TTL
  MaxTime,       \* bound on the clock
  Homes,         \* the functions hash_id can be, over Ids
  Initialised,   \* main calls session_init (in the master mode only)
  None

ASSUME SizeAssumption ==
  /\ MaxSessions \in Nat \ {0} /\ HashSize \in Nat \ {0}
  /\ TTL \in Nat /\ MaxTime \in Nat
  /\ Homes \subseteq [Ids -> 0 .. HashSize - 1]

SessionSlots == 0 .. MaxSessions - 1
Buckets == 0 .. HashSize - 1
Empty == -1

VARIABLES
  used, session_id, expires_at,   \* g_sessions
  g_hash,
  now,                            \* time(NULL)
  hash_id,                        \* the hash function
  looping,                        \* a probe of this process never ends
  issued,                         \* the ids session_create returned
  logged_out                      \* the ids session_destroy was called with

sessions == <<used, session_id, expires_at>>
table_vars == <<sessions, g_hash, now, hash_id, looping, issued, logged_out>>

TableInit ==
  /\ used = [s \in SessionSlots |-> FALSE]
  /\ session_id = [s \in SessionSlots |-> None]
  /\ expires_at = [s \in SessionSlots |-> 0]
  /\ g_hash = [b \in Buckets |-> IF Initialised THEN Empty ELSE 0]
  /\ now = 0
  /\ hash_id \in Homes
  /\ looping = FALSE
  /\ issued = {} /\ logged_out = {}

-----------------------------------------------------------------------------
(* Probing.                                                                *)

(* The k-th bucket of the probe for id i. *)
BucketToTheEnd(i, k) ==
  IF hash_id[i] + k < HashSize THEN hash_id[i] + k ELSE HashSize - 1
Bucket(i, k) == (hash_id[i] + k) % HashSize

(* The steps at which a probe of index g for i may stop. *)
Stops(g, i, Hit(_)) ==
  {k \in Buckets : g[Bucket(i, k)] = Empty \/ Hit(Bucket(i, k))}

(* Where it stops first. *)
StopsAt(g, i, Hit(_)) == Bucket(i, Min(Stops(g, i, Hit)))

IsLive(i, s) == used[s] /\ session_id[s] = i

(* The entry that session_lookup and session_destroy look for. *)
Holds(i, b) == g_hash[b] # Empty /\ IsLive(i, g_hash[b])

ProbeLoops(i) == Stops(g_hash, i, LAMBDA b : Holds(i, b)) = {}
ProbeEnd(i) == StopsAt(g_hash, i, LAMBDA b : Holds(i, b))

(* The probe of i reaches a live session with that id. *)
Reaches(i) == ~ProbeLoops(i) /\ Holds(i, ProbeEnd(i))

(* session_lookup(i) returns a session. *)
Found(i) == Reaches(i) /\ now <= expires_at[g_hash[ProbeEnd(i)]]

-----------------------------------------------------------------------------
(* session_cleanup_expired walks the slots in order; the removal of one    *)
(* entry changes the probes of the slots after it.                         *)

Expired(s) == used[s] /\ now > expires_at[s]

CleanHomeBucket(g, s) == [g EXCEPT ![hash_id[session_id[s]]] = Empty]

(* The index without the entry of slot s, as far as its probe reaches it. *)
CleanEntry(g, s) ==
  LET at == StopsAt(g, session_id[s], LAMBDA b : g[b] = s)
  IN  [g EXCEPT ![at] = Empty]

CleanLoops(g, s) == Stops(g, session_id[s], LAMBDA b : g[b] = s) = {}

(* The index after slots 0 .. n - 1, and whether a probe did not end.      *)
Cleaned ==
  LET after[n \in 0 .. MaxSessions] ==
        IF n = 0 THEN [index |-> g_hash, loops |-> FALSE]
        ELSE LET r == after[n - 1]
                 s == n - 1
             IN  IF r.loops \/ ~Expired(s) THEN r
                 ELSE IF CleanLoops(r.index, s)
                      THEN [r EXCEPT !.loops = TRUE]
                      ELSE [r EXCEPT !.index = CleanEntry(r.index, s)]
  IN  after[MaxSessions]

-----------------------------------------------------------------------------
(* The operations.                                                         *)

Hang ==
  /\ looping' = TRUE
  /\ UNCHANGED <<sessions, g_hash, now, hash_id, issued, logged_out>>

Expiry == now + TTL

FirstEmptyEntry(g, i) == Min({b \in Buckets : g[b] = Empty})

(* The empty entry that the insertion of i takes. *)
EntryFor(g, i) == StopsAt(g, i, LAMBDA b : FALSE)

(* session_create: clean up, take the first free slot, enter it.           *)
Create(i) ==
  /\ ~looping
  /\ i \notin issued
  /\ IF Cleaned.loops THEN Hang
     ELSE
       LET g == Cleaned.index
           still == [s \in SessionSlots |-> used[s] /\ ~Expired(s)]
           free == {s \in SessionSlots : ~still[s]}
           slot == Min(free)
       IN  IF free = {}
           THEN /\ used' = still /\ g_hash' = g
                /\ UNCHANGED <<session_id, expires_at, looping, issued>>
           ELSE /\ used' = [still EXCEPT ![slot] = TRUE]
                /\ session_id' = [session_id EXCEPT ![slot] = i]
                /\ expires_at' = [expires_at EXCEPT ![slot] = Expiry]
                /\ IF Stops(g, i, LAMBDA b : FALSE) = {}
                   THEN looping' = TRUE /\ g_hash' = g /\ UNCHANGED issued
                   ELSE /\ g_hash' = [g EXCEPT ![EntryFor(g, i)] = slot]
                        /\ issued' = issued \cup {i}
                        /\ UNCHANGED looping
  /\ UNCHANGED <<now, hash_id, logged_out>>

ReleaseHomeBucket(i) ==
  /\ used' = [used EXCEPT ![g_hash[ProbeEnd(i)]] = FALSE]
  /\ g_hash' = [g_hash EXCEPT ![hash_id[i]] = Empty]

(* The session and the entry that led to it. *)
Release(i) ==
  /\ used' = [used EXCEPT ![g_hash[ProbeEnd(i)]] = FALSE]
  /\ g_hash' = [g_hash EXCEPT ![ProbeEnd(i)] = Empty]

(* session_lookup; an expired session is destroyed on the way.             *)
Lookup(i) ==
  /\ ~looping
  /\ IF ProbeLoops(i) THEN Hang
     ELSE /\ IF Reaches(i) /\ ~Found(i) THEN Release(i)
                                        ELSE UNCHANGED <<used, g_hash>>
          /\ UNCHANGED <<session_id, expires_at, now, hash_id, looping, issued,
                         logged_out>>

(* session_destroy, by the logout handler. *)
Destroy(i) ==
  /\ ~looping
  /\ IF ProbeLoops(i) THEN Hang
     ELSE /\ IF Reaches(i) THEN Release(i) ELSE UNCHANGED <<used, g_hash>>
          /\ logged_out' = logged_out \cup {i}
          /\ UNCHANGED <<session_id, expires_at, now, hash_id, looping, issued>>

(* Time passes, MaxTime seconds at most. *)
Tick ==
  /\ ~looping
  /\ now < MaxTime
  /\ now' = now + 1
  /\ UNCHANGED <<sessions, g_hash, hash_id, looping, issued, logged_out>>

(* Clients present the ids they were given, and ids of other servers.      *)
TableNext ==
  \/ \E i \in Ids : Create(i) \/ Lookup(i)
  \/ \E i \in issued : Destroy(i)
  \/ Tick

TableSpec == TableInit /\ [][TableNext]_table_vars

-----------------------------------------------------------------------------
TableTypeOK ==
  /\ used \in [SessionSlots -> BOOLEAN]
  /\ session_id \in [SessionSlots -> Ids \cup {None}]
  /\ expires_at \in [SessionSlots -> 0 .. MaxTime + TTL]
  /\ g_hash \in [Buckets -> SessionSlots \cup {Empty}]
  /\ now \in 0 .. MaxTime
  /\ hash_id \in [Ids -> Buckets]
  /\ looping \in BOOLEAN
  /\ issued \subseteq Ids /\ logged_out \subseteq Ids

(* A live session is never dropped from the index while its slot is in     *)
(* use, whatever is removed around it: a removal can hide it behind a hole *)
(* in its probe chain, but its entry stays until it is itself removed.     *)
LiveIsIndexed ==
  ~looping => \A s \in SessionSlots : used[s] => \E b \in Buckets : g_hash[b] = s

(* The cookie of a login works for the next request: session_create enters *)
(* the id where session_lookup comes by, however many holes and left-over  *)
(* entries the index has.                                                  *)
CreatedIsFound ==
  [][\A i \in Ids : i \in issued' \ issued => Found(i)']_table_vars

(* The sessions that were returned to somebody and have not ended, and the *)
(* ids that would be found, at the head of their probe or further on.      *)
LiveSlots ==
  {s \in SessionSlots : used[s] /\ session_id[s] \in issued
                                /\ now <= expires_at[s]}
FoundIds == {i \in issued : Found(i)}
FirmIds == {i \in FoundIds : Holds(i, hash_id[i])}

Store == INSTANCE SessionStore WITH
  valid <- {<<session_id[s], expires_at[s]>> : s \in LiveSlots},
  firm <- FirmIds,
  loose <- FoundIds \ FirmIds,
  ended <- issued \ {session_id[s] : s \in LiveSlots}

ImplementsStore == Store!Spec

(* A probe ends at an empty entry at the latest.  As many sessions as the  *)
(* index has entries must have been created before none is left, whatever  *)
(* collides and whatever was removed, and until then every call returns.   *)
(* The number of live sessions would be no bound: the entries of expired   *)
(* sessions that a hole hides from the clean-up stay for good.             *)
CallsReturn == Cardinality(issued) < HashSize => ~looping

-----------------------------------------------------------------------------
(* Statements of session.h that collisions break.                          *)

(* "Look up a session by ID.  Returns NULL if not found or expired": a     *)
(* session that was neither destroyed nor expired is returned.             *)
LiveIsFound ==
  ~looping =>
    \A s \in SessionSlots : used[s] /\ now <= expires_at[s] => Found(session_id[s])

(* "Destroy (logout) a session by ID": a destroyed session is not returned *)
(* again.                                                                  *)
LogoutIsFinal == \A i \in logged_out : ~Found(i)

(* session.c:79, "really full": when there is no room session_create       *)
(* returns NULL.  The index is full long before the sessions are, and then *)
(* a probe for an id that is not in it runs for ever.                      *)
FullIsRefused == ~looping

=============================================================================
