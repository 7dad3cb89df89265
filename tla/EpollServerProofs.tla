--------------------------- MODULE EpollServerProofs ---------------------------
(***************************************************************************)
(* Proofs about EpollServer, for every set of processes, of connections    *)
(* and of requests, and every size of the table and of a round.            *)
(***************************************************************************)
EXTENDS EpollServer, FiniteSetTheorems, WellFoundedInduction, TLAPS

(* The first free slot exists. *)
LEMMA MinOfNaturals ==
  ASSUME NEW S \in SUBSET Nat, S # {}
  PROVE  Min(S) \in S /\ \A y \in S : Min(S) <= y
<1> DEFINE Below == {0 .. x : x \in S}
<1>1. Below \subseteq FiniteSubsetsOf(Nat) /\ Below # {}
  <2>1. ASSUME NEW x \in S
        PROVE  0 .. x \in FiniteSubsetsOf(Nat)
    <3>1. IsFiniteSet(0 .. x)
      BY FS_Interval, 0 \in Int, x \in Int
    <3>2. 0 .. x \subseteq Nat
      OBVIOUS
    <3> QED
      BY <3>1, <3>2 DEF FiniteSubsetsOf
  <2> QED
    BY <2>1
<1>2. PICK B \in Below :
        \A C \in Below : ~ (<<C, B>> \in StrictSubsetOrdering(Nat))
  BY <1>1, FS_StrictSubsetOrderingWellFounded, WFMin
<1>3. PICK x \in S : B = 0 .. x
  BY <1>2
<1>4. ASSUME NEW y \in S, y < x
      PROVE  FALSE
  <2>1. 0 .. y \in Below /\ 0 .. y \subseteq Nat /\ 0 .. x \subseteq Nat
    OBVIOUS
  <2>2. 0 .. y \subseteq 0 .. x /\ x \in 0 .. x /\ x \notin 0 .. y
    BY <1>4
  <2>3. <<0 .. y, 0 .. x>> \in StrictSubsetOrdering(Nat)
    BY <2>1, <2>2 DEF StrictSubsetOrdering
  <2> QED
    BY <1>2, <1>3, <2>1, <2>3
<1>5. \A y \in S : x <= y
  BY <1>4
<1> QED
  BY <1>5 DEF Min

(* The tables and the connections: an open connection has one slot, in one *)
(* process, and nothing else has.                                          *)
Linked ==
  /\ \A p \in Procs, s \in Slots :
       connections[p][s] # None => net[connections[p][s]] = "open"
  /\ \A p, q \in Procs, s, t \in Slots :
       connections[p][s] = connections[q][t] /\ connections[p][s] # None
         => p = q /\ s = t
  /\ \A c \in Conns : net[c] = "open" =>
       \E p \in Procs, s \in Slots : connections[p][s] = c

(* Whose turn it is in each process: the connection that is being answered *)
(* is in the table and no event of it is left.                             *)
Turn ==
  \A p \in Procs :
    /\ current[p] # None <=> pc[p] \in {"send", "send failed"}
    /\ current[p] # None =>
         current[p] \in Held(p) /\ current[p] \notin events[p]
    /\ events[p] # {} => pc[p] \in {"events", "accept", "send", "send failed"}
    /\ pc[p] = "start" => Held(p) = {}

(* TypeOK but for the counts of the tables, which follow.                  *)
Types ==
  /\ net \in [Conns -> {"fresh", "queued", "open", "closed", "rejected"}]
  /\ inbox \in [Conns -> {"empty", "data", "fin", "rst"}]
  /\ quiet \in [Conns -> BOOLEAN]
  /\ pc \in [Procs -> {"start", "wait", "events", "accept", "send",
                       "send failed", "closing", "exit", "failed"}]
  /\ connections \in [Procs -> [Slots -> Conns \cup {None}]]
  /\ interest \in [Procs -> SUBSET (Conns \cup {Listen})]
  /\ events \in [Procs -> SUBSET (Conns \cup {Listen})]
  /\ left_out \in [Procs -> SUBSET (Conns \cup {Listen})]
  /\ current \in [Procs -> Conns \cup {None}]
  /\ request \in [Procs -> Requests \cup {None}]
  /\ request_count \in [Conns -> 0 .. MaxRequests]
  /\ root \in [Procs -> {FirstRoot} \cup Range(server_of)]
  /\ g_active_conns \in [Procs -> Int]
  /\ clients_served \in [Procs -> Nat]
  /\ g_shutdown \in [Procs -> BOOLEAN]

IInv ==
  Types /\ Linked /\ WatchedAreHeld /\ Turn /\ EventsAreFresh

LEMMA SlotFacts ==
  /\ IsFiniteSet(Slots) /\ Cardinality(Slots) = MaxConns /\ MaxConns \in Nat
  /\ \A p \in Procs : FreeSlots(p) \subseteq Slots
                      /\ IsFiniteSet(FreeSlots(p))
                      /\ Cardinality(FreeSlots(p)) \in 0 .. MaxConns
<1>1. MaxConns \in Nat \ {0}
  BY SizeAssumption
<1>2. IsFiniteSet(Slots) /\ Cardinality(Slots) = MaxConns
  <2>1. 0 \in Int /\ MaxConns - 1 \in Int /\ ~(0 > MaxConns - 1)
    BY <1>1
  <2>2. MaxConns - 1 - 0 + 1 = MaxConns
    BY <1>1
  <2> QED
    BY <2>1, <2>2, FS_Interval DEF Slots
<1>3. ASSUME NEW p \in Procs
      PROVE  FreeSlots(p) \subseteq Slots /\ IsFiniteSet(FreeSlots(p))
             /\ Cardinality(FreeSlots(p)) \in 0 .. MaxConns
  <2>1. FreeSlots(p) \in SUBSET Slots
    BY DEF FreeSlots
  <2>2. IsFiniteSet(FreeSlots(p)) /\ Cardinality(FreeSlots(p)) <= MaxConns
    BY <1>2, <2>1, FS_Subset
  <2>3. Cardinality(FreeSlots(p)) \in Nat
    BY <2>2, FS_CardinalityType
  <2> QED
    BY <1>1, <2>1, <2>2, <2>3
<1> QED
  BY <1>1, <1>2, <1>3

LEMMA SlotHolds ==
  ASSUME Types, NEW p \in Procs, NEW s \in Slots
  PROVE  connections[p][s] \in Conns \cup {None}
<1>1. connections \in [Procs -> [Slots -> Conns \cup {None}]]
  BY DEF Types
<1>2. connections[p] \in [Slots -> Conns \cup {None}]
  BY <1>1
<1> QED
  BY <1>2

LEMMA HeldFacts ==
  ASSUME Types, NEW p \in Procs
  PROVE  /\ Held(p) \subseteq Conns
         /\ \A c : c \in Held(p) <=>
                     c # None /\ \E s \in Slots : connections[p][s] = c
<1>1. \A c : c \in Held(p) <=>
              c # None /\ \E s \in Slots : connections[p][s] = c
  BY DEF Held
<1>2. ASSUME NEW s \in Slots, connections[p][s] # None
      PROVE  connections[p][s] \in Conns
  BY <1>2, SlotHolds
<1> QED
  BY <1>1, <1>2

LEMMA TypeFollows == IInv => TypeOK
<1> SUFFICES ASSUME IInv PROVE TypeOK
  OBVIOUS
<1>1. ASSUME NEW p \in Procs PROVE g_active_conns[p] \in 0 .. MaxConns
  <2>1. g_active_conns[p] = MaxConns - Cardinality(FreeSlots(p))
    BY SlotFacts DEF IInv, WatchedAreHeld
  <2> QED
    BY <2>1, SlotFacts
<1>2. g_active_conns \in [Procs -> 0 .. MaxConns]
  BY <1>1 DEF IInv, Types
<1> QED
  BY <1>2 DEF IInv, Types, TypeOK

LEMMA OneSlotFollows == IInv => OneSlotEach
<1> SUFFICES ASSUME IInv, NEW c \in Conns
             PROVE  Cardinality({x \in Procs \X Slots :
                                   connections[x[1]][x[2]] = c})
                      = IF net[c] = "open" THEN 1 ELSE 0
  BY DEF OneSlotEach
<1> USE DEF IInv
<1> DEFINE H == {x \in Procs \X Slots : connections[x[1]][x[2]] = c}
<1>1. c # None
  BY SizeAssumption
<1>2. CASE net[c] = "open"
  <2>1. PICK p \in Procs, s \in Slots : connections[p][s] = c
    BY <1>2 DEF Linked
  <2>2. \A x \in H : x = <<p, s>>
    BY <1>1, <2>1 DEF Linked
  <2>3. H = {<<p, s>>}
    BY <2>1, <2>2
  <2> QED
    BY <1>2, <2>3, FS_Singleton
<1>3. CASE net[c] # "open"
  <2>1. H = {}
    BY <1>1, <1>3 DEF Linked
  <2> QED
    BY <1>3, <2>1, FS_EmptySet
<1> QED
  BY <1>2, <1>3

LEMMA InitOK == Init => IInv
<1> SUFFICES ASSUME Init PROVE IInv
  OBVIOUS
<1>1. Types
  <2>1. request_count \in [Conns -> 0 .. MaxRequests]
    BY SizeAssumption DEF Init
  <2>2. g_active_conns \in [Procs -> Int] /\ clients_served \in [Procs -> Nat]
    BY DEF Init
  <2> QED
    BY <2>1, <2>2 DEF Init, Types
<1>2. \A p \in Procs : Held(p) = {} /\ FreeSlots(p) = Slots
  BY DEF Init, Held, FreeSlots
<1>3. Linked /\ Turn /\ EventsAreFresh
  BY <1>2 DEF Init, Linked, Turn, EventsAreFresh
<1>4. WatchedAreHeld
  <2>1. \A p \in Procs : g_active_conns[p] = 0 /\ interest[p] = {}
    BY DEF Init
  <2>2. 0 = Cardinality(Slots) - Cardinality(Slots)
    BY SlotFacts
  <2> QED
    BY <1>2, <2>1, <2>2 DEF WatchedAreHeld
<1> QED
  BY <1>1, <1>3, <1>4 DEF IInv

-----------------------------------------------------------------------------
(* What the operations on the tables keep.                                 *)

(* As many slots become free as connections are dropped.                   *)
LEMMA FreedAreCounted ==
  ASSUME Types, Linked, NEW p \in Procs, NEW S \in SUBSET Held(p)
  PROVE  /\ IsFiniteSet(S) /\ Cardinality(S) \in Nat
         /\ Cardinality(FreeSlots(p)
                          \cup {s \in Slots : connections[p][s] \in S})
              = Cardinality(FreeSlots(p)) + Cardinality(S)
<1> DEFINE T == {s \in Slots : connections[p][s] \in S}
           f == [s \in T |-> connections[p][s]]
<1>1. \A c \in S : c # None /\ \E s \in Slots : connections[p][s] = c
  BY HeldFacts
<1>2. f \in [T -> S] /\ \A s \in T : f[s] = connections[p][s]
  OBVIOUS
<1>3. \A s, t \in T : f[s] = f[t] => s = t
  BY <1>1, <1>2 DEF Linked
<1>4. \A c \in S : \E s \in T : f[s] = c
  BY <1>1, <1>2
<1>5. f \in Bijection(T, S)
  BY <1>2, <1>3, <1>4 DEF Bijection, Injection, Surjection, IsInjective
<1>6. IsFiniteSet(T)
  BY SlotFacts, FS_Subset
<1>7. IsFiniteSet(S) /\ Cardinality(S) = Cardinality(T)
  BY <1>5, <1>6, FS_Bijection DEF ExistsBijection
<1>8. FreeSlots(p) \cap T = {}
  BY <1>1 DEF FreeSlots
<1>9. /\ Cardinality(FreeSlots(p) \cup T)
           = Cardinality(FreeSlots(p)) + Cardinality(T)
               - Cardinality(FreeSlots(p) \cap T)
  BY <1>6, SlotFacts, FS_Union
<1>10. Cardinality(T) \in Nat /\ Cardinality(FreeSlots(p)) \in Nat
       /\ Cardinality(FreeSlots(p) \cap T) = 0
  BY <1>6, <1>8, SlotFacts, FS_CardinalityType, FS_EmptySet
<1> QED
  BY <1>7, <1>9, <1>10

(* Closing the connections in S, wherever the process goes on.             *)
LEMMA DropKeeps ==
  ASSUME IInv, NEW p \in Procs, NEW S \in SUBSET Held(p), Drop(p, S),
         NEW next \in {"wait", "events", "closing", "exit"},
         pc' = [pc EXCEPT ![p] = next],
         current' = [current EXCEPT ![p] = None],
         request' \in [Procs -> Requests \cup {None}],
         \A q \in Procs \ {p} : request'[q] = request[q],
         events'[p] \subseteq events[p] \ S,
         \A q \in Procs \ {p} : events'[q] = events[q],
         events' \in [Procs -> SUBSET (Conns \cup {Listen})],
         events'[p] # {} => next = "events",
         UNCHANGED <<left_out, root, clients_served, g_shutdown>>
  PROVE  IInv'
<1> USE DEF IInv
<1>1. /\ S \subseteq Conns
      /\ \A c \in S : net[c] = "open" /\ c # None
  BY HeldFacts DEF Linked
<1>2. /\ \A c \in Conns :
           /\ net'[c] = IF c \in S THEN "closed" ELSE net[c]
           /\ inbox'[c] = IF c \in S THEN "empty" ELSE inbox[c]
      /\ \A s \in Slots : connections'[p][s]
           = IF connections[p][s] \in S THEN None ELSE connections[p][s]
      /\ \A q \in Procs \ {p} : connections'[q] = connections[q]
      /\ interest'[p] = interest[p] \ S
      /\ \A q \in Procs \ {p} : interest'[q] = interest[q]
      /\ g_active_conns'[p] = g_active_conns[p] - Cardinality(S)
      /\ \A q \in Procs \ {p} : g_active_conns'[q] = g_active_conns[q]
  BY DEF Drop, Unlink, Types
<1>3. Types'
  <2>1. /\ net' \in [Conns -> {"fresh", "queued", "open", "closed", "rejected"}]
        /\ inbox' \in [Conns -> {"empty", "data", "fin", "rst"}]
    BY DEF Drop, Unlink, Types
  <2>2. quiet' \in [Conns -> BOOLEAN]
    BY Zenon DEF Drop, Unlink, Types
  <2>3. connections' \in [Procs -> [Slots -> Conns \cup {None}]]
    <3>1. connections \in [Procs -> [Slots -> Conns \cup {None}]]
      BY DEF Types
    <3>2. connections[p] \in [Slots -> Conns \cup {None}]
      BY <3>1
    <3> DEFINE row == [s \in Slots |-> IF connections[p][s] \in S THEN None
                                      ELSE connections[p][s]]
    <3>3. row \in [Slots -> Conns \cup {None}]
      BY <3>2
    <3>4. connections' = [connections EXCEPT ![p] = row]
      BY DEF Drop, Unlink
    <3> HIDE DEF row
    <3> QED
      BY <3>1, <3>3, <3>4
  <2>4. interest' \in [Procs -> SUBSET (Conns \cup {Listen})]
    BY DEF Drop, Unlink, Types
  <2>5. request_count' \in [Conns -> 0 .. MaxRequests]
    <3>1. 0 \in 0 .. MaxRequests
      BY SizeAssumption
    <3>2. request_count \in [Conns -> 0 .. MaxRequests]
      BY DEF Types
    <3> QED
      BY <3>1, <3>2 DEF Drop, Unlink
  <2>6. g_active_conns' \in [Procs -> Int]
    <3>1. Cardinality(S) \in Nat
      BY FreedAreCounted
    <3>2. g_active_conns \in [Procs -> Int]
      BY DEF Types
    <3>3. g_active_conns' = [g_active_conns EXCEPT ![p] = @ - Cardinality(S)]
      BY DEF Drop
    <3> QED
      BY <3>1, <3>2, <3>3
  <2>7. pc' \in [Procs -> {"start", "wait", "events", "accept", "send",
                           "send failed", "closing", "exit", "failed"}]
    BY DEF Types
  <2>8. current' \in [Procs -> Conns \cup {None}]
    BY DEF Types
  <2> QED
    BY <2>1, <2>2, <2>3, <2>4, <2>5, <2>6, <2>7, <2>8 DEF Types
<1>4. \A q \in Procs \ {p}, s \in Slots : connections[q][s] \notin S
  BY <1>1, HeldFacts DEF Linked
<1>5. \A q \in Procs, s \in Slots :
        connections'[q][s]
          = IF connections[q][s] \in S THEN None ELSE connections[q][s]
  BY <1>2, <1>4
<1>6. Linked'
  <2>1. \A q \in Procs, s \in Slots : connections'[q][s] # None =>
          net'[connections'[q][s]] = "open"
    <3> SUFFICES ASSUME NEW q \in Procs, NEW s \in Slots,
                        connections'[q][s] # None
                 PROVE  net'[connections'[q][s]] = "open"
      OBVIOUS
    <3>1. connections'[q][s] = connections[q][s] /\ connections[q][s] \notin S
      BY <1>5
    <3>2. connections[q][s] \in Conns
      BY <3>1, SlotHolds
    <3> QED
      BY <1>2, <3>1, <3>2 DEF Linked
  <2>2. ASSUME NEW q \in Procs, NEW r \in Procs, NEW s \in Slots,
               NEW t \in Slots, connections'[q][s] = connections'[r][t],
               connections'[q][s] # None
        PROVE  q = r /\ s = t
    <3>1. connections[q][s] = connections[r][t] /\ connections[q][s] # None
      BY <1>5, <2>2
    <3> QED
      BY <3>1 DEF Linked
  <2>3. ASSUME NEW c \in Conns, net'[c] = "open"
        PROVE  \E q \in Procs, s \in Slots : connections'[q][s] = c
    <3>1. c \notin S /\ net[c] = "open"
      BY <1>2, <2>3
    <3>2. PICK q \in Procs, s \in Slots : connections[q][s] = c
      BY <3>1 DEF Linked
    <3> QED
      BY <1>5, <3>1, <3>2
  <2> QED
    BY <2>1, <2>2, <2>3 DEF Linked
<1>7. Held(p)' = Held(p) \ S /\ \A q \in Procs \ {p} : Held(q)' = Held(q)
  <2>1. Held(p)' = Held(p) \ S
    BY <1>2 DEF Held
  <2> QED
    BY <1>2, <2>1 DEF Held
<1>8. WatchedAreHeld'
  <2>1. interest'[p] \ {Listen} = Held(p)'
    BY <1>2, <1>7 DEF WatchedAreHeld
  <2>2. FreeSlots(p)' = FreeSlots(p)
                          \cup {s \in Slots : connections[p][s] \in S}
    BY <1>2 DEF FreeSlots
  <2>3. /\ Cardinality(FreeSlots(p)')
             = Cardinality(FreeSlots(p)) + Cardinality(S)
        /\ Cardinality(S) \in Nat
    BY <2>2, FreedAreCounted
  <2>4. g_active_conns[p] = MaxConns - Cardinality(FreeSlots(p))
    BY SlotFacts DEF WatchedAreHeld
  <2>5. g_active_conns'[p]
          = Cardinality(Slots) - Cardinality(FreeSlots(p)')
    <3>1. Cardinality(FreeSlots(p)) \in Nat /\ MaxConns \in Nat
          /\ Cardinality(Slots) = MaxConns
      BY SlotFacts
    <3> QED
      BY <1>2, <2>3, <2>4, <3>1
  <2>6. ASSUME NEW q \in Procs \ {p}
        PROVE  /\ interest'[q] \ {Listen} = Held(q)'
               /\ g_active_conns'[q]
                    = Cardinality(Slots) - Cardinality(FreeSlots(q)')
    <3>1. FreeSlots(q)' = FreeSlots(q)
      BY <1>2 DEF FreeSlots
    <3> QED
      BY <1>2, <1>7, <3>1 DEF WatchedAreHeld
  <2> QED
    BY <2>1, <2>5, <2>6 DEF WatchedAreHeld
<1>9. Turn'
  <2>1. /\ pc'[p] = next /\ current'[p] = None
        /\ \A q \in Procs \ {p} : pc'[q] = pc[q] /\ current'[q] = current[q]
    BY DEF Types
  <2>2. ASSUME NEW q \in Procs \ {p}, current[q] # None
        PROVE  current[q] \in Held(q)' /\ current[q] \notin events'[q]
    BY <1>7, <2>2 DEF Turn
  <2>3. ASSUME NEW q \in Procs \ {p}
        PROVE  /\ current'[q] # None <=> pc'[q] \in {"send", "send failed"}
               /\ events'[q] # {} =>
                    pc'[q] \in {"events", "accept", "send", "send failed"}
               /\ pc'[q] = "start" => Held(q)' = {}
    BY <1>7, <2>1 DEF Turn
  <2> QED
    BY <2>1, <2>2, <2>3 DEF Turn
<1>10. EventsAreFresh'
  <2> SUFFICES ASSUME NEW q \in Procs, NEW c \in events'[q] \ {Listen}
               PROVE  c \in Held(q)' /\ inbox'[c] # "empty"
    BY DEF EventsAreFresh
  <2>1. c \in Held(q) /\ inbox[c] # "empty" /\ c \notin S
    <3>1. CASE q = p
      BY <3>1 DEF EventsAreFresh
    <3>2. CASE q # p
      <4>1. c \in Held(q) /\ inbox[c] # "empty"
        BY <3>2 DEF EventsAreFresh
      <4> QED
        BY <1>4, <3>2, <4>1, HeldFacts
    <3> QED
      BY <3>1, <3>2
  <2>2. c \in Conns
    BY <2>1, HeldFacts
  <2> QED
    BY <1>2, <1>7, <2>1, <2>2
<1> QED
  BY <1>3, <1>6, <1>8, <1>9, <1>10

(* Steps that leave the tables. *)
LEMMA TablesKeep ==
  ASSUME IInv, UNCHANGED tables,
         \A c \in Conns : net'[c] = "open" <=> net[c] = "open"
  PROVE  /\ Linked' /\ WatchedAreHeld'
         /\ \A p \in Procs : Held(p)' = Held(p)
<1> USE DEF IInv
<1>1. connections' = connections /\ interest' = interest
      /\ g_active_conns' = g_active_conns
  BY DEF tables
<1>2. \A p \in Procs : Held(p)' = Held(p) /\ FreeSlots(p)' = FreeSlots(p)
  BY <1>1 DEF Held, FreeSlots
<1>3. WatchedAreHeld'
  BY <1>1, <1>2 DEF WatchedAreHeld
<1>4. Linked'
  <2>1. \A p \in Procs, s \in Slots : connections[p][s] # None =>
          connections[p][s] \in Conns /\ net[connections[p][s]] = "open"
    BY SlotHolds DEF Linked
  <2>2. \A p \in Procs, s \in Slots :
          connections'[p][s] # None => net'[connections'[p][s]] = "open"
    BY <1>1, <2>1
  <2> QED
    BY <1>1, <2>2 DEF Linked
<1> QED
  BY <1>2, <1>3, <1>4

(* Clients, and whatever else leaves the processes as they are.            *)
LEMMA ClientKeeps ==
  ASSUME IInv, UNCHANGED <<pc, tables, rounds, answer, request_count,
                           clients_served, g_shutdown>>,
         net' \in [Conns -> {"fresh", "queued", "open", "closed", "rejected"}],
         inbox' \in [Conns -> {"empty", "data", "fin", "rst"}],
         quiet' \in [Conns -> BOOLEAN],
         \A c \in Conns :
           /\ net'[c] = net[c] \/ (net[c] = "fresh" /\ net'[c] = "queued")
           /\ inbox[c] # "empty" => inbox'[c] # "empty"
  PROVE  IInv'
<1> USE DEF IInv
<1>1. Types'
  BY DEF Types, tables, rounds, answer
<1>2. /\ Linked' /\ WatchedAreHeld'
      /\ \A p \in Procs : Held(p)' = Held(p)
  BY TablesKeep
<1>3. Turn'
  BY <1>2 DEF Turn, rounds, answer
<1>4. EventsAreFresh'
  BY <1>2, HeldFacts DEF EventsAreFresh, rounds
<1> QED
  BY <1>1, <1>2, <1>3, <1>4

(* A process goes on without a change of connections or tables.            *)
LEMMA ControlKeeps ==
  ASSUME IInv, NEW p \in Procs,
         NEW next \in {"wait", "events", "accept", "send", "send failed",
                       "closing", "exit", "failed"},
         pc' = [pc EXCEPT ![p] = next],
         UNCHANGED <<sockets, tables, answer, request_count, clients_served>>,
         events' \in [Procs -> SUBSET (Conns \cup {Listen})],
         left_out' \in [Procs -> SUBSET (Conns \cup {Listen})],
         g_shutdown' \in [Procs -> BOOLEAN],
         \A q \in Procs \ {p} : events'[q] = events[q],
         \A c \in events'[p] \ {Listen} : c \in Held(p) /\ inbox[c] # "empty",
         events'[p] # {} => next \in {"events", "accept", "send",
                                      "send failed"},
         current[p] # None <=> next \in {"send", "send failed"},
         current[p] # None => events'[p] \subseteq events[p]
  PROVE  IInv'
<1> USE DEF IInv
<1>1. Types'
  <2>1. pc' \in [Procs -> {"start", "wait", "events", "accept", "send",
                           "send failed", "closing", "exit", "failed"}]
    BY DEF Types
  <2> QED
    BY <2>1 DEF Types, sockets, tables, answer
<1>2. /\ Linked' /\ WatchedAreHeld'
      /\ \A q \in Procs : Held(q)' = Held(q)
  BY TablesKeep DEF sockets
<1>3. /\ pc'[p] = next /\ \A q \in Procs \ {p} : pc'[q] = pc[q]
      /\ current' = current /\ request' = request
  BY DEF Types, answer
<1>4. Turn'
  BY <1>2, <1>3 DEF Turn
<1>5. EventsAreFresh'
  BY <1>2 DEF EventsAreFresh, sockets
<1> QED
  BY <1>1, <1>2, <1>4, <1>5

LEMMA StartKeeps ==
  ASSUME IInv, NEW p \in Procs, Start(p)
  PROVE  IInv'
<1> USE DEF IInv
<1>1. /\ pc[p] = "start" /\ Held(p) = {} /\ current[p] = None
      /\ events[p] = {}
  BY DEF Start, Turn
<1>2. CASE Goto(p, "failed") /\ UNCHANGED interest
  BY <1>1, <1>2, ControlKeeps DEF Start, Goto, tables, rounds, Types
<1>3. CASE Goto(p, "wait") /\ interest' = [interest EXCEPT ![p] = {Listen}]
  <2>1. /\ pc' = [pc EXCEPT ![p] = "wait"]
        /\ UNCHANGED <<net, inbox, quiet, connections, g_active_conns, events,
                       left_out, current, request, root, request_count,
                       clients_served, g_shutdown>>
    BY <1>3 DEF Start, Goto, sockets, rounds, answer
  <2>2. Types'
    BY <1>3, <2>1 DEF Types
  <2>3. Linked'
    BY <2>1 DEF Linked
  <2>4. \A q \in Procs : Held(q)' = Held(q) /\ FreeSlots(q)' = FreeSlots(q)
    BY <2>1 DEF Held, FreeSlots
  <2>5. /\ interest'[p] = {Listen} /\ pc'[p] = "wait"
        /\ \A q \in Procs \ {p} : interest'[q] = interest[q] /\ pc'[q] = pc[q]
    BY <1>3, <2>1 DEF Types
  <2>6. WatchedAreHeld'
    BY <1>1, <2>1, <2>4, <2>5 DEF WatchedAreHeld
  <2>7. Turn'
    BY <1>1, <2>1, <2>4, <2>5 DEF Turn
  <2>8. EventsAreFresh'
    BY <2>1, <2>4 DEF EventsAreFresh
  <2> QED
    BY <2>2, <2>3, <2>6, <2>7, <2>8
<1> QED
  BY <1>2, <1>3 DEF Start

LEMMA RejectKeeps ==
  ASSUME IInv, NEW p \in Procs, NEW c \in Conns, Reject(p, c)
  PROVE  IInv'
<1> USE DEF IInv
<1>1. /\ pc[p] = "accept" /\ net[c] = "queued"
      /\ net' = [net EXCEPT ![c] = "rejected"]
      /\ pc' = [pc EXCEPT ![p] = "events"]
      /\ UNCHANGED <<inbox, quiet, tables, rounds, answer, request_count,
                     clients_served, g_shutdown>>
  BY DEF Reject, Queued, Goto
<1>2. Types'
  BY <1>1 DEF Types, tables, rounds, answer
<1>3. \A d \in Conns : net'[d] = "open" <=> net[d] = "open"
  BY <1>1 DEF Types
<1>4. /\ Linked' /\ WatchedAreHeld'
      /\ \A q \in Procs : Held(q)' = Held(q)
  BY <1>1, <1>3, TablesKeep
<1>5. /\ pc'[p] = "events" /\ \A q \in Procs \ {p} : pc'[q] = pc[q]
      /\ current' = current /\ request' = request /\ events' = events
  BY <1>1 DEF Types, rounds, answer
<1>6. Turn'
  BY <1>1, <1>4, <1>5 DEF Turn
<1>7. EventsAreFresh'
  BY <1>1, <1>4, <1>5 DEF EventsAreFresh
<1> QED
  BY <1>2, <1>4, <1>6, <1>7

(* A newcomer takes the first free slot of one process.                    *)
LEMMA AcceptKeeps ==
  ASSUME IInv, NEW p \in Procs, NEW c \in Conns, Accept(p, c)
  PROVE  IInv'
<1> USE DEF IInv
<1> DEFINE slot == Min(FreeSlots(p))
<1>1. slot \in Slots /\ connections[p][slot] = None
  <2>1. FreeSlots(p) \in SUBSET Nat /\ FreeSlots(p) # {}
    <3>1. Slots \subseteq Nat
      BY SizeAssumption DEF Slots
    <3> QED
      BY <3>1 DEF Accept, FreeSlots
  <2>2. slot \in FreeSlots(p)
    BY <2>1, MinOfNaturals
  <2> QED
    BY <2>2 DEF FreeSlots
<1>2. /\ pc[p] = "accept" /\ net[c] = "queued"
      /\ net' = [net EXCEPT ![c] = "open"]
      /\ connections' = [connections EXCEPT ![p][slot] = c]
      /\ interest' = [interest EXCEPT ![p] = @ \cup {c}]
      /\ g_active_conns' = [g_active_conns EXCEPT ![p] = @ + 1]
      /\ clients_served' = [clients_served EXCEPT ![p] = @ + 1]
      /\ pc' = [pc EXCEPT ![p] = "events"]
      /\ UNCHANGED <<inbox, quiet, events, left_out, current, request, root,
                     request_count, g_shutdown>>
  BY DEF Accept, Insert, Queued, Goto, rounds, answer
<1> HIDE DEF slot
<1>3. /\ connections'[p][slot] = c
      /\ \A s \in Slots \ {slot} : connections'[p][s] = connections[p][s]
      /\ \A q \in Procs \ {p} : connections'[q] = connections[q]
  <2>1. connections \in [Procs -> [Slots -> Conns \cup {None}]]
    BY DEF Types
  <2> QED
    BY <1>1, <1>2, <2>1
<1>4. c # None /\ c # Listen
  BY SizeAssumption
<1>5. Types'
  <2>1. net' \in [Conns -> {"fresh", "queued", "open", "closed", "rejected"}]
    BY <1>2 DEF Types
  <2>2. connections' \in [Procs -> [Slots -> Conns \cup {None}]]
    BY <1>1, <1>2 DEF Types
  <2>3. interest' \in [Procs -> SUBSET (Conns \cup {Listen})]
    BY <1>2 DEF Types
  <2>4. g_active_conns' \in [Procs -> Int]
    <3>1. g_active_conns \in [Procs -> Int]
      BY DEF Types
    <3> QED
      BY <1>2, <3>1
  <2>5. clients_served' \in [Procs -> Nat]
    <3>1. clients_served \in [Procs -> Nat]
      BY DEF Types
    <3> QED
      BY <1>2, <3>1
  <2>6. pc' \in [Procs -> {"start", "wait", "events", "accept", "send",
                           "send failed", "closing", "exit", "failed"}]
    BY <1>2 DEF Types
  <2> QED
    BY <1>2, <2>1, <2>2, <2>3, <2>4, <2>5, <2>6 DEF Types
<1>6. \A q \in Procs, s \in Slots : connections[q][s] # None =>
        /\ <<q, s>> # <<p, slot>> /\ connections[q][s] # c
        /\ connections[q][s] \in Conns /\ net[connections[q][s]] = "open"
  BY <1>1, <1>2, SlotHolds DEF Linked
<1>7. \A q \in Procs, s \in Slots :
        \/ q = p /\ s = slot
        \/ connections'[q][s] = connections[q][s]
  BY <1>3
<1>8. Linked'
  <2>1. /\ net'[c] = "open"
        /\ \A d \in Conns : d # c => net'[d] = net[d]
    BY <1>2 DEF Types
  <2>2. \A q \in Procs, s \in Slots :
          connections'[q][s] # None => net'[connections'[q][s]] = "open"
    BY <1>3, <1>6, <1>7, <2>1
  <2>3. ASSUME NEW q \in Procs, NEW r \in Procs, NEW s \in Slots,
               NEW t \in Slots, connections'[q][s] = connections'[r][t],
               connections'[q][s] # None
        PROVE  q = r /\ s = t
    BY <1>3, <1>4, <1>6, <1>7, <2>3 DEF Linked
  <2>4. ASSUME NEW d \in Conns, net'[d] = "open"
        PROVE  \E q \in Procs, s \in Slots : connections'[q][s] = d
    <3>1. CASE d = c
      BY <1>1, <1>3, <3>1
    <3>2. CASE d # c
      <4>1. PICK q \in Procs, s \in Slots : connections[q][s] = d
        BY <2>1, <2>4, <3>2 DEF Linked
      <4>2. d # None
        BY SizeAssumption
      <4> QED
        BY <1>6, <1>7, <4>1, <4>2
    <3> QED
      BY <3>1, <3>2
  <2> QED
    BY <2>2, <2>3, <2>4 DEF Linked
<1>9. Held(p)' = Held(p) \cup {c} /\ \A q \in Procs \ {p} : Held(q)' = Held(q)
  <2>1. Held(p)' = Held(p) \cup {c}
    BY <1>1, <1>3, <1>4 DEF Held
  <2>2. ASSUME NEW q \in Procs \ {p} PROVE Held(q)' = Held(q)
    BY <1>3 DEF Held
  <2> QED
    BY <2>1, <2>2
<1>10. WatchedAreHeld'
  <2>1. interest'[p] \ {Listen} = Held(p)'
    <3>1. interest'[p] = interest[p] \cup {c}
      BY <1>2 DEF Types
    <3>2. interest[p] \ {Listen} = Held(p)
      BY DEF WatchedAreHeld
    <3> QED
      BY <1>4, <1>9, <3>1, <3>2
  <2>2. FreeSlots(p)' = FreeSlots(p) \ {slot} /\ slot \in FreeSlots(p)
    BY <1>1, <1>3, <1>4 DEF FreeSlots
  <2>3. /\ Cardinality(FreeSlots(p)') = Cardinality(FreeSlots(p)) - 1
        /\ Cardinality(FreeSlots(p)) \in Nat /\ Cardinality(Slots) \in Nat
    <3>1. /\ IsFiniteSet(FreeSlots(p)) /\ Cardinality(FreeSlots(p)) \in Nat
          /\ Cardinality(Slots) \in Nat
      BY SlotFacts
    <3>2. Cardinality(FreeSlots(p) \ {slot}) = Cardinality(FreeSlots(p)) - 1
      BY <2>2, <3>1, FS_RemoveElement
    <3> QED
      BY <2>2, <3>1, <3>2
  <2>4. g_active_conns'[p] = g_active_conns[p] + 1
    BY <1>2 DEF Types
  <2>5. g_active_conns'[p] = Cardinality(Slots) - Cardinality(FreeSlots(p)')
    BY <2>3, <2>4 DEF WatchedAreHeld
  <2>6. ASSUME NEW q \in Procs \ {p}
        PROVE  /\ interest'[q] \ {Listen} = Held(q)'
               /\ g_active_conns'[q]
                    = Cardinality(Slots) - Cardinality(FreeSlots(q)')
    <3>1. FreeSlots(q)' = FreeSlots(q)
      BY <1>3 DEF FreeSlots
    <3>2. interest'[q] = interest[q] /\ g_active_conns'[q] = g_active_conns[q]
      BY <1>2 DEF Types
    <3> QED
      BY <1>9, <3>1, <3>2 DEF WatchedAreHeld
  <2> QED
    BY <2>1, <2>5, <2>6 DEF WatchedAreHeld
<1>11. Turn'
  <2>1. /\ pc'[p] = "events" /\ \A q \in Procs \ {p} : pc'[q] = pc[q]
        /\ current' = current /\ request' = request /\ events' = events
    BY <1>2 DEF Types
  <2> QED
    BY <1>2, <1>9, <2>1 DEF Turn
<1>12. EventsAreFresh'
  BY <1>2, <1>9 DEF EventsAreFresh
<1> QED
  BY <1>5, <1>8, <1>10, <1>11, <1>12

LEMMA OneMoreInRange ==
  ASSUME NEW n \in 0 .. MaxRequests
  PROVE  OneMore(n) \in 0 .. MaxRequests
<1>1. MaxRequests \in Nat
  BY SizeAssumption
<1> QED
  BY <1>1 DEF OneMore

(* What is received is not there any more, and no other event is of it.    *)
LEMMA ReceiveKeeps ==
  ASSUME IInv, NEW p \in Procs, NEW c \in Conns, Receive(p, c)
  PROVE  /\ c \in Held(p) /\ current[p] = None /\ pc[p] = "events"
         /\ inbox' \in [Conns -> {"empty", "data", "fin", "rst"}]
         /\ events' \in [Procs -> SUBSET (Conns \cup {Listen})]
         /\ events'[p] = events[p] \ {c}
         /\ \A q \in Procs \ {p} : events'[q] = events[q]
         /\ left_out' = left_out
         /\ \A q \in Procs : \A d \in events'[q] \ {Listen} :
              d \in Held(q) /\ inbox'[d] # "empty"
<1> USE DEF IInv
<1>1. /\ pc[p] = "events" /\ c \in events[p] /\ left_out' = left_out
      /\ events' = [events EXCEPT ![p] = @ \ {c}]
      /\ inbox' = [inbox EXCEPT ![c] = "empty"]
  BY DEF Receive, Event
<1>2. c # Listen
  BY SizeAssumption
<1>3. c \in Held(p) /\ current[p] = None
  BY <1>1, <1>2 DEF EventsAreFresh, Turn
<1>4. /\ events' \in [Procs -> SUBSET (Conns \cup {Listen})]
      /\ events'[p] = events[p] \ {c}
      /\ \A q \in Procs \ {p} : events'[q] = events[q]
  BY <1>1 DEF Types
<1>5. inbox' \in [Conns -> {"empty", "data", "fin", "rst"}]
  BY <1>1 DEF Types
<1>6. ASSUME NEW q \in Procs, NEW d \in events'[q] \ {Listen}
      PROVE  d \in Held(q) /\ inbox'[d] # "empty"
  <2>1. d \in events[q]
    BY <1>4
  <2>2. d \in Held(q) /\ inbox[d] # "empty"
    BY <2>1 DEF EventsAreFresh
  <2>3. d # c
    <3>1. CASE q = p
      BY <1>4, <3>1
    <3>2. CASE q # p
      <4>1. c \notin Held(q)
        BY <1>3, <3>2, HeldFacts DEF Linked
      <4> QED
        BY <2>2, <4>1
    <3> QED
      BY <3>1, <3>2
  <2>4. d \in Conns
    BY <2>2, HeldFacts
  <2> QED
    BY <1>1, <2>2, <2>3, <2>4 DEF Types
<1> QED
  BY <1>1, <1>3, <1>4, <1>5, <1>6

LEMMA EchoKeeps ==
  ASSUME IInv, NEW p \in Procs, NEW c \in Conns, Echo(p, c)
  PROVE  IInv'
<1> USE DEF IInv
<1>1. /\ Receive(p, c)
      /\ request_count' = [request_count EXCEPT ![c] = OneMore(@)]
      /\ UNCHANGED <<net, quiet, pc, tables, answer, clients_served,
                     g_shutdown>>
  BY DEF Echo
<1>2. request_count' \in [Conns -> 0 .. MaxRequests]
  <2>1. request_count \in [Conns -> 0 .. MaxRequests]
    BY DEF Types
  <2> QED
    BY <1>1, <2>1, OneMoreInRange
<1>3. Types'
  BY <1>1, <1>2, ReceiveKeeps DEF Types, tables, answer
<1>4. /\ Linked' /\ WatchedAreHeld'
      /\ \A q \in Procs : Held(q)' = Held(q)
  BY <1>1, TablesKeep
<1>5. Turn'
  BY <1>1, <1>4, ReceiveKeeps DEF Turn, answer
<1>6. EventsAreFresh'
  BY <1>1, <1>4, ReceiveKeeps DEF EventsAreFresh
<1> QED
  BY <1>3, <1>4, <1>5, <1>6

LEMMA ProcessKeeps ==
  ASSUME IInv, NEW p \in Procs, NEW c \in Conns, NEW req \in Requests,
         Process(p, c, req)
  PROVE  IInv'
<1> USE DEF IInv
<1>1. /\ Receive(p, c)
      /\ current' = [current EXCEPT ![p] = c]
      /\ request' = [request EXCEPT ![p] = req]
      /\ root' = [root EXCEPT ![p] = RootFor(p, req)]
      /\ pc' = [pc EXCEPT ![p] = "send"]
      /\ UNCHANGED <<net, quiet, tables, request_count, clients_served,
                     g_shutdown>>
  BY DEF Process, Goto
<1>2. RootFor(p, req) \in {FirstRoot} \cup Range(server_of)
  <2>1. req.host \in DOMAIN server_of \cup {None}
    BY RequestAssumption
  <2>2. root[p] \in {FirstRoot} \cup Range(server_of)
    BY DEF Types
  <2> QED
    BY <2>1, <2>2 DEF RootFor, Range
<1>3. Types'
  <2>1. root' \in [Procs -> {FirstRoot} \cup Range(server_of)]
    BY <1>1, <1>2 DEF Types
  <2>2. pc' \in [Procs -> {"start", "wait", "events", "accept", "send",
                           "send failed", "closing", "exit", "failed"}]
    BY <1>1 DEF Types
  <2>3. /\ current' \in [Procs -> Conns \cup {None}]
        /\ request' \in [Procs -> Requests \cup {None}]
    BY <1>1 DEF Types
  <2> QED
    BY <1>1, <2>1, <2>2, <2>3, ReceiveKeeps DEF Types, tables
<1>4. /\ Linked' /\ WatchedAreHeld'
      /\ \A q \in Procs : Held(q)' = Held(q)
  BY <1>1, TablesKeep
<1>5. c # None
  BY SizeAssumption
<1>6. /\ current'[p] = c /\ request'[p] = req /\ pc'[p] = "send"
      /\ \A q \in Procs \ {p} : /\ current'[q] = current[q]
                                /\ request'[q] = request[q]
                                /\ pc'[q] = pc[q]
  BY <1>1 DEF Types
<1>7. Turn'
  <2>1. /\ c \in Held(p)' /\ c \notin events'[p]
        /\ \A q \in Procs \ {p} : events'[q] = events[q]
    BY <1>1, <1>4, ReceiveKeeps
  <2>2. ASSUME NEW q \in Procs \ {p}
        PROVE  /\ current'[q] # None <=> pc'[q] \in {"send", "send failed"}
               /\ current'[q] # None =>
                    current'[q] \in Held(q)' /\ current'[q] \notin events'[q]
               /\ events'[q] # {} =>
                    pc'[q] \in {"events", "accept", "send", "send failed"}
               /\ pc'[q] = "start" => Held(q)' = {}
    BY <1>4, <1>6, <2>1 DEF Turn
  <2> QED
    BY <1>5, <1>6, <2>1, <2>2 DEF Turn
<1>8. EventsAreFresh'
  BY <1>1, <1>4, ReceiveKeeps DEF EventsAreFresh
<1> QED
  BY <1>3, <1>4, <1>7, <1>8

(* The other steps that close connections.                                 *)
LEMMA ClosingKeeps ==
  ASSUME IInv, NEW p \in Procs, NEW S \in SUBSET Held(p), Drop(p, S),
         NEW next \in {"wait", "events", "closing", "exit"},
         pc' = [pc EXCEPT ![p] = next],
         current[p] = None, UNCHANGED <<events, answer>>,
         events[p] \cap S = {}, events[p] # {} => next = "events",
         UNCHANGED <<left_out, clients_served, g_shutdown>>
  PROVE  IInv'
<1>1. current' = [current EXCEPT ![p] = None]
  BY DEF IInv, Types, answer
<1>2. /\ request' \in [Procs -> Requests \cup {None}]
      /\ events' \in [Procs -> SUBSET (Conns \cup {Listen})]
      /\ request' = request /\ root' = root
  BY DEF IInv, Types, answer
<1>3. events'[p] \subseteq events[p] \ S
  OBVIOUS
<1> QED
  BY <1>1, <1>2, <1>3, DropKeeps

(* After an answer, or a failed one, the connection is kept or closed.     *)
LEMMA AnsweredKeeps ==
  ASSUME IInv, NEW p \in Procs, Send(p) \/ SendFails(p)
  PROVE  IInv'
<1> USE DEF IInv
<1> DEFINE c == current[p]
<1>1. pc[p] \in {"send", "send failed"} /\ Answered(p)
  BY DEF Send, SendFails
<1>2. c # None /\ c \in Held(p) /\ c \notin events[p]
  BY <1>1 DEF Turn
<1>3. /\ current' = [current EXCEPT ![p] = None]
      /\ request' = [request EXCEPT ![p] = None]
      /\ pc' = [pc EXCEPT ![p] = "events"]
      /\ UNCHANGED <<events, left_out, root, clients_served, g_shutdown>>
  BY <1>1 DEF Answered, Goto, rounds
<1>4. /\ request' \in [Procs -> Requests \cup {None}]
      /\ current' \in [Procs -> Conns \cup {None}]
      /\ \A q \in Procs \ {p} : request'[q] = request[q]
  BY <1>3 DEF Types
<1>5. CASE Drop(p, {c})
  <2>1. events'[p] \subseteq events[p] \ {c}
    BY <1>2, <1>3
  <2>2. events' \in [Procs -> SUBSET (Conns \cup {Listen})]
    BY <1>3 DEF Types
  <2>3. {c} \in SUBSET Held(p) /\ \A q \in Procs \ {p} : events'[q] = events[q]
    BY <1>2, <1>3
  <2> HIDE DEF c
  <2> QED
    BY <1>3, <1>4, <1>5, <2>1, <2>2, <2>3, DropKeeps
<1>6. CASE /\ request_count' =
                [request_count EXCEPT ![c] = OneMore(request_count[c])]
           /\ UNCHANGED <<sockets, tables>>
  <2>1. request_count' \in [Conns -> 0 .. MaxRequests]
    <3>1. request_count \in [Conns -> 0 .. MaxRequests]
      BY DEF Types
    <3>2. c \in Conns
      BY <1>2, HeldFacts
    <3> QED
      BY <1>6, <3>1, <3>2, OneMoreInRange
  <2>2. pc' \in [Procs -> {"start", "wait", "events", "accept", "send",
                           "send failed", "closing", "exit", "failed"}]
    BY <1>3 DEF Types
  <2>3. Types'
    BY <1>3, <1>4, <1>6, <2>1, <2>2 DEF Types, sockets, tables
  <2>4. /\ Linked' /\ WatchedAreHeld'
        /\ \A q \in Procs : Held(q)' = Held(q)
    BY <1>6, TablesKeep DEF sockets
  <2>5. /\ pc'[p] = "events" /\ current'[p] = None
        /\ \A q \in Procs \ {p} : pc'[q] = pc[q] /\ current'[q] = current[q]
    BY <1>3 DEF Types
  <2>6. Turn'
    BY <1>3, <2>4, <2>5 DEF Turn
  <2>7. EventsAreFresh'
    BY <1>3, <1>6, <2>4 DEF EventsAreFresh, sockets
  <2> QED
    BY <2>3, <2>4, <2>6, <2>7
<1> QED
  BY <1>5, <1>6 DEF Send, SendFails

LEMMA StepOK == IInv /\ [Next]_vars => IInv'
<1> SUFFICES ASSUME IInv, [Next]_vars PROVE IInv'
  OBVIOUS
<1> USE DEF IInv
<1>1. ASSUME NEW c \in Conns, ClientActs(c) PROVE IInv'
  <2>1. CASE Connect(c)
    BY <2>1, ClientKeeps DEF Connect, Types
  <2>2. ASSUME NEW what \in {"data", "fin", "rst"}, Arrives(c, what)
        PROVE  IInv'
    BY <2>2, ClientKeeps DEF Arrives, Types
  <2>3. CASE QuietLong(c)
    BY <2>3, ClientKeeps DEF QuietLong, Types
  <2> QED
    BY <1>1, <2>1, <2>2, <2>3 DEF ClientActs, ClientSends, ClientResets
<1>2. ASSUME NEW p \in Procs, Signal(p) PROVE IInv'
  <2>1. PICK next \in {"wait", "events", "accept", "send", "send failed",
                       "closing", "exit", "failed"} :
          /\ pc' = [pc EXCEPT ![p] = next]
          /\ \/ next = pc[p]
             \/ pc[p] = "accept" /\ next = "events"
             \/ pc[p] = "send" /\ next = "send failed"
    <3>1. CASE UNCHANGED pc
      <4>1. pc[p] \in {"wait", "events", "accept", "send", "send failed",
                       "closing", "exit", "failed"}
        BY <1>2 DEF Signal, Types
      <4>2. pc' = [pc EXCEPT ![p] = pc[p]]
        BY <3>1 DEF Types
      <4> QED
        BY <4>1, <4>2
    <3>2. CASE pc[p] = "accept" /\ pc' = [pc EXCEPT ![p] = "events"]
      BY <3>2
    <3>3. CASE pc[p] = "send" /\ pc' = [pc EXCEPT ![p] = "send failed"]
      BY <3>3
    <3> QED
      BY <1>2, <3>1, <3>2, <3>3 DEF Signal
  <2>2. /\ UNCHANGED <<sockets, tables, events, left_out, answer,
                       request_count, clients_served>>
        /\ g_shutdown' \in [Procs -> BOOLEAN]
    BY <1>2 DEF Signal, rounds, Types
  <2>3. /\ events[p] # {} => next \in {"events", "accept", "send",
                                       "send failed"}
        /\ current[p] # None <=> next \in {"send", "send failed"}
    BY <2>1 DEF Turn
  <2>4. /\ events' \in [Procs -> SUBSET (Conns \cup {Listen})]
        /\ left_out' \in [Procs -> SUBSET (Conns \cup {Listen})]
        /\ events' = events
    BY <2>2 DEF Types
  <2>5. \A c \in events'[p] \ {Listen} : c \in Held(p) /\ inbox[c] # "empty"
    BY <2>4 DEF EventsAreFresh
  <2> QED
    BY <2>1, <2>2, <2>3, <2>4, <2>5, ControlKeeps
<1>3. ASSUME NEW p \in Procs, Start(p) PROVE IInv'
  BY <1>3, StartKeeps
<1>4. ASSUME NEW p \in Procs,
             WaitFails(p) \/ RoundOver(p) \/ NewConnection(p) \/ AcceptFails(p)
      PROVE  IInv'
  <2>1. PICK next \in {"wait", "closing", "accept", "events"} :
          /\ pc' = [pc EXCEPT ![p] = next]
          /\ next \in {"wait", "closing"} => events[p] = {}
    BY <1>4 DEF WaitFails, RoundOver, NewConnection, AcceptFails, Goto, Loop,
                Turn
  <2>2. /\ UNCHANGED <<sockets, tables, answer, request_count, clients_served,
                       g_shutdown, left_out>>
        /\ pc[p] \in {"wait", "events", "accept"}
        /\ events' = events \/ events' = [events EXCEPT ![p] = @ \ {Listen}]
    BY <1>4 DEF WaitFails, RoundOver, NewConnection, AcceptFails, Event,
                rounds
  <2>3. /\ events' \in [Procs -> SUBSET (Conns \cup {Listen})]
        /\ events'[p] \subseteq events[p]
        /\ \A q \in Procs \ {p} : events'[q] = events[q]
    <3>1. CASE events' = events
      BY <3>1 DEF Types
    <3>2. CASE events' = [events EXCEPT ![p] = @ \ {Listen}]
      BY <3>2 DEF Types
    <3> QED
      BY <2>2, <3>1, <3>2
  <2>4. /\ left_out' \in [Procs -> SUBSET (Conns \cup {Listen})]
        /\ g_shutdown' \in [Procs -> BOOLEAN]
    BY <2>2 DEF Types
  <2>5. \A c \in events'[p] \ {Listen} : c \in Held(p) /\ inbox[c] # "empty"
    BY <2>3 DEF EventsAreFresh
  <2>6. /\ current[p] = None
        /\ events'[p] # {} => next \in {"accept", "events"}
    BY <2>1, <2>2, <2>3 DEF Turn
  <2> QED
    BY <2>1, <2>2, <2>3, <2>4, <2>5, <2>6, ControlKeeps
<1>5. ASSUME NEW p \in Procs, NEW batch \in SUBSET Ready(p), Wait(p, batch)
      PROVE  IInv'
  <2>1. /\ pc[p] = "wait" /\ current[p] = None
        /\ pc' = [pc EXCEPT ![p] = "events"]
        /\ events' = [events EXCEPT ![p] = batch]
        /\ left_out' = [left_out EXCEPT ![p] = Ready(p) \ batch]
        /\ UNCHANGED <<sockets, tables, answer, request_count, clients_served,
                       g_shutdown>>
    BY <1>5 DEF Wait, Goto, Turn
  <2>2. /\ Ready(p) \subseteq Conns \cup {Listen}
        /\ \A c \in Ready(p) \ {Listen} : c \in Held(p) /\ inbox[c] # "empty"
    BY HeldFacts DEF Ready, WatchedAreHeld
  <2>3. /\ events' \in [Procs -> SUBSET (Conns \cup {Listen})]
        /\ left_out' \in [Procs -> SUBSET (Conns \cup {Listen})]
        /\ g_shutdown' \in [Procs -> BOOLEAN]
        /\ events'[p] = batch
        /\ \A q \in Procs \ {p} : events'[q] = events[q]
    BY <2>1, <2>2 DEF Types
  <2> QED
    BY <2>1, <2>2, <2>3, ControlKeeps
<1>6. ASSUME NEW p \in Procs, WaitTimesOut(p) PROVE IInv'
  <2>1. /\ events[p] = {} /\ current[p] = None
    BY <1>6 DEF WaitTimesOut, Turn
  <2>2. PICK next \in {"wait", "closing"} : pc' = [pc EXCEPT ![p] = next]
    BY <1>6 DEF WaitTimesOut, Loop, Goto
  <2>3. {c \in Held(p) : quiet[c]} \in SUBSET Held(p)
    OBVIOUS
  <2>4. /\ Drop(p, {c \in Held(p) : quiet[c]})
        /\ UNCHANGED <<events, left_out, answer, clients_served, g_shutdown>>
    BY <1>6 DEF WaitTimesOut, rounds
  <2> QED
    BY <2>1, <2>2, <2>3, <2>4, ClosingKeeps
<1>7. ASSUME NEW p \in Procs, CloseAll(p) PROVE IInv'
  <2>1. /\ events[p] = {} /\ current[p] = None
    BY <1>7 DEF CloseAll, Turn
  <2>2. /\ Drop(p, Held(p)) /\ pc' = [pc EXCEPT ![p] = "exit"]
        /\ UNCHANGED <<events, left_out, answer, clients_served, g_shutdown>>
    BY <1>7 DEF CloseAll, rounds, Goto
  <2> QED
    BY <2>1, <2>2, ClosingKeeps
<1>8. ASSUME NEW p \in Procs, NEW c \in Conns, Disconnect(p, c) \/ Refuse(p, c)
      PROVE  IInv'
  <2>1. /\ pc[p] = "events" /\ c \in events[p] /\ left_out' = left_out
        /\ events' = [events EXCEPT ![p] = @ \ {c}]
        /\ Drop(p, {c})
        /\ UNCHANGED <<pc, answer, clients_served, g_shutdown>>
    BY <1>8 DEF Disconnect, Refuse, Receive, Event
  <2>2. c \in Held(p) /\ current[p] = None
    BY <2>1, SizeAssumption DEF EventsAreFresh, Turn
  <2>3. /\ events' \in [Procs -> SUBSET (Conns \cup {Listen})]
        /\ events'[p] = events[p] \ {c}
        /\ \A q \in Procs \ {p} : events'[q] = events[q]
        /\ pc' = [pc EXCEPT ![p] = "events"]
        /\ current' = [current EXCEPT ![p] = None]
        /\ request' \in [Procs -> Requests \cup {None}]
        /\ request' = request /\ root' = root
    BY <2>1, <2>2 DEF Types, answer
  <2>4. {c} \in SUBSET Held(p) /\ events'[p] \subseteq events[p] \ {c}
    BY <2>2, <2>3
  <2> QED
    BY <2>1, <2>3, <2>4, DropKeeps
<1>9. ASSUME NEW p \in Procs, NEW c \in Conns,
             Reject(p, c) \/ Accept(p, c) \/ Echo(p, c)
      PROVE  IInv'
  BY <1>9, RejectKeeps, AcceptKeeps, EchoKeeps
<1>10. ASSUME NEW p \in Procs, NEW c \in Conns, NEW req \in Requests,
              Process(p, c, req)
       PROVE  IInv'
  BY <1>10, ProcessKeeps
<1>11. ASSUME NEW p \in Procs, Send(p) \/ SendFails(p) PROVE IInv'
  BY <1>11, AnsweredKeeps
<1>12. CASE UNCHANGED vars
  <2>1. /\ UNCHANGED <<net, inbox, quiet, pc, connections, interest,
                       g_active_conns, events, left_out, current, request,
                       root, request_count, clients_served, g_shutdown>>
        /\ UNCHANGED tables
    BY <1>12 DEF vars, sockets, tables, rounds, answer
  <2>2. /\ Linked' /\ WatchedAreHeld'
        /\ \A p \in Procs : Held(p)' = Held(p)
    BY <2>1, TablesKeep
  <2>3. Types'
    BY <2>1 DEF Types
  <2>4. Turn' /\ EventsAreFresh'
    BY <2>1, <2>2 DEF Turn, EventsAreFresh
  <2> QED
    BY <2>2, <2>3, <2>4
<1>13. CASE \E p \in Procs : Runs(p)
  BY <1>3, <1>4, <1>5, <1>6, <1>7, <1>8, <1>9, <1>10, <1>11, <1>13 DEF Runs
<1>14. CASE \E p \in Procs : MayHappen(p)
  BY <1>4, <1>11, <1>14 DEF MayHappen
<1> QED
  BY <1>1, <1>2, <1>12, <1>13, <1>14 DEF Next, Over

-----------------------------------------------------------------------------
(* The state of epoll_server_run has the types its declarations give it,   *)
(* in every worker; g_active_conns stays within EPOLL_MAX_CONNS.           *)
THEOREM TypeCorrect == Spec => []TypeOK
<1> QED
  BY InitOK, StepOK, TypeFollows, PTL DEF Spec

(* The loop never looks at a slot that was emptied or filled again since   *)
(* epoll_wait reported it, and never waits in recv, for any number of      *)
(* workers on one listening socket.                                        *)
THEOREM EventsFresh == Spec => []EventsAreFresh
<1>1. IInv => EventsAreFresh
  BY DEF IInv
<1> QED
  BY <1>1, InitOK, StepOK, PTL DEF Spec

-----------------------------------------------------------------------------
(* The clients that all processes together have served.                    *)

(* The equation by which SumFunction adds up f: g gives the sum over each  *)
(* part of the domain.                                                     *)
Adds(f, g) ==
  g = [s \in SUBSET DOMAIN f |->
         IF s = {} THEN 0
         ELSE LET x == CHOOSE y \in s : TRUE IN f[x] + g[s \ {x}]]

LEMMA SumIsChosen ==
  ASSUME NEW f
  PROVE  SumFunction(f) = (CHOOSE g : Adds(f, g))[DOMAIN f]
BY DEF SumFunction, SumFunctionOnSet, FoldFunctionOnSet, MapThenFoldSet, Adds

(* The same sum as a set that is counted: f[x] units for each x.           *)
Units(f, s) == {u \in s \X Nat : u[2] \in 1 .. f[u[1]]}

LEMMA UnitsGrow ==
  ASSUME NEW f, NEW s, NEW x \in s, f[x] \in Nat, IsFiniteSet(Units(f, s \ {x}))
  PROVE  /\ IsFiniteSet(Units(f, s))
         /\ Cardinality(Units(f, s)) = f[x] + Cardinality(Units(f, s \ {x}))
<1> DEFINE New == {x} \X (1 .. f[x])
<1>1. Units(f, s) = Units(f, s \ {x}) \cup New
  <2>1. \A u \in Units(f, s) : u \in Units(f, s \ {x}) \cup New
    BY DEF Units
  <2>2. \A u \in New : u \in Units(f, s)
    BY DEF Units
  <2>3. \A u \in Units(f, s \ {x}) : u \in Units(f, s)
    BY DEF Units
  <2> QED
    BY <2>1, <2>2, <2>3
<1>2. Units(f, s \ {x}) \cap New = {}
  BY DEF Units
<1>3. IsFiniteSet(New) /\ Cardinality(New) = f[x]
  <2>1. IsFiniteSet({x}) /\ Cardinality({x}) = 1
    BY FS_Singleton
  <2>2. IsFiniteSet(1 .. f[x])
        /\ Cardinality(1 .. f[x]) = IF 1 > f[x] THEN 0 ELSE f[x] - 1 + 1
    BY FS_Interval
  <2>3. Cardinality(1 .. f[x]) = f[x]
    BY <2>2
  <2>4. IsFiniteSet(New)
        /\ Cardinality(New) = Cardinality({x}) * Cardinality(1 .. f[x])
    BY <2>1, <2>2, FS_Product
  <2> QED
    BY <2>1, <2>3, <2>4
<1> HIDE DEF New
<1>4. /\ IsFiniteSet(Units(f, s \ {x}) \cup New)
      /\ Cardinality(Units(f, s \ {x}) \cup New)
           = Cardinality(Units(f, s \ {x})) + Cardinality(New)
               - Cardinality(Units(f, s \ {x}) \cap New)
  BY <1>3, FS_Union
<1>5. Cardinality(Units(f, s \ {x}) \cap New) = 0
      /\ Cardinality(Units(f, s \ {x})) \in Nat
  BY <1>2, FS_EmptySet, FS_CardinalityType
<1> QED
  BY <1>1, <1>3, <1>4, <1>5

LEMMA UnitsFinite ==
  ASSUME NEW f, IsFiniteSet(DOMAIN f), \A x \in DOMAIN f : f[x] \in Nat,
         NEW s \in SUBSET DOMAIN f
  PROVE  IsFiniteSet(Units(f, s)) /\ Cardinality(Units(f, s)) \in Nat
<1> DEFINE Rows == {{x} \X (1 .. f[x]) : x \in s}
<1>1. IsFiniteSet(s)
  BY FS_Subset
<1>2. IsFiniteSet(Rows)
  <2> DEFINE row == [x \in s |-> {x} \X (1 .. f[x])]
  <2>1. row \in Surjection(s, Rows)
    BY DEF Surjection
  <2> QED
    BY <1>1, <2>1, FS_Surjection
<1>3. ASSUME NEW x \in s PROVE IsFiniteSet({x} \X (1 .. f[x]))
  <2>1. 1 \in Int /\ f[x] \in Int
    OBVIOUS
  <2>2. IsFiniteSet(1 .. f[x])
    BY <2>1, FS_Interval
  <2>3. IsFiniteSet({x})
    BY FS_Singleton
  <2> QED
    BY <2>2, <2>3, FS_Product
<1>4. IsFiniteSet(UNION Rows)
  BY <1>2, <1>3, FS_UNION
<1>5. Units(f, s) \subseteq UNION Rows
  BY DEF Units
<1> QED
  BY <1>4, <1>5, FS_Subset, FS_CardinalityType

(* Counting the units solves the equation...                               *)
LEMMA UnitsAdd ==
  ASSUME NEW f, IsFiniteSet(DOMAIN f), \A x \in DOMAIN f : f[x] \in Nat
  PROVE  Adds(f, [s \in SUBSET DOMAIN f |-> Cardinality(Units(f, s))])
<1> DEFINE g == [s \in SUBSET DOMAIN f |-> Cardinality(Units(f, s))]
<1>1. ASSUME NEW s \in SUBSET DOMAIN f
      PROVE  g[s] = IF s = {} THEN 0
                    ELSE LET x == CHOOSE y \in s : TRUE IN f[x] + g[s \ {x}]
  <2>1. CASE s = {}
    <3>1. Units(f, s) = {}
      BY <2>1 DEF Units
    <3> QED
      BY <2>1, <3>1, FS_EmptySet
  <2>2. CASE s # {}
    <3> DEFINE x == CHOOSE y \in s : TRUE
    <3>1. x \in s
      BY <2>2
    <3> HIDE DEF x
    <3>2. f[x] \in Nat /\ s \ {x} \in SUBSET DOMAIN f
      BY <3>1
    <3>3. Cardinality(Units(f, s)) = f[x] + Cardinality(Units(f, s \ {x}))
      BY <3>1, <3>2, UnitsFinite, UnitsGrow
    <3>4. g[s] = f[x] + g[s \ {x}]
      BY <3>2, <3>3
    <3> QED
      BY <2>2, <3>4 DEF x
  <2> QED
    BY <2>1, <2>2
<1> HIDE DEF g
<1>2. g = [s \in SUBSET DOMAIN f |-> g[s]]
  BY DEF g
<1>3. Adds(f, g)
  BY <1>1, <1>2 DEF Adds
<1> QED
  BY <1>3 DEF g

(* ... and nothing else does: a smallest part where two solutions differ   *)
(* would have a smaller one.                                               *)
LEMMA AddsOnce ==
  ASSUME NEW f, IsFiniteSet(DOMAIN f), NEW g, NEW h, Adds(f, g), Adds(f, h)
  PROVE  g[DOMAIN f] = h[DOMAIN f]
<1> DEFINE Wrong == {s \in SUBSET DOMAIN f : g[s] # h[s]}
<1>1. \A s \in SUBSET DOMAIN f :
        /\ g[s] = IF s = {} THEN 0
                  ELSE LET x == CHOOSE y \in s : TRUE IN f[x] + g[s \ {x}]
        /\ h[s] = IF s = {} THEN 0
                  ELSE LET x == CHOOSE y \in s : TRUE IN f[x] + h[s \ {x}]
  BY DEF Adds
<1>2. ASSUME Wrong # {} PROVE FALSE
  <2>1. Wrong \subseteq FiniteSubsetsOf(DOMAIN f)
    BY FS_Subset DEF FiniteSubsetsOf
  <2>2. PICK s \in Wrong :
          \A t \in Wrong : ~ (<<t, s>> \in StrictSubsetOrdering(DOMAIN f))
    BY <1>2, <2>1, FS_StrictSubsetOrderingWellFounded, WFMin
  <2>3. s # {}
    BY <1>1
  <2> DEFINE x == CHOOSE y \in s : TRUE
  <2>4. x \in s
    BY <2>3
  <2>5. g[s] = f[x] + g[s \ {x}] /\ h[s] = f[x] + h[s \ {x}]
    BY <1>1, <2>3
  <2> HIDE DEF x
  <2>6. s \ {x} \in Wrong
    BY <2>5
  <2>7. <<s \ {x}, s>> \in StrictSubsetOrdering(DOMAIN f)
    BY <2>4 DEF StrictSubsetOrdering
  <2> QED
    BY <2>2, <2>6, <2>7
<1> QED
  BY <1>2

LEMMA SumCounts ==
  ASSUME NEW f, IsFiniteSet(DOMAIN f), \A x \in DOMAIN f : f[x] \in Nat
  PROVE  SumFunction(f) = Cardinality(Units(f, DOMAIN f))
<1> DEFINE g == CHOOSE g : Adds(f, g)
           h == [s \in SUBSET DOMAIN f |-> Cardinality(Units(f, s))]
<1>1. Adds(f, h)
  BY UnitsAdd
<1>2. Adds(f, g)
  BY <1>1
<1>3. SumFunction(f) = g[DOMAIN f]
  BY SumIsChosen
<1>4. h[DOMAIN f] = Cardinality(Units(f, DOMAIN f))
  OBVIOUS
<1> HIDE DEF g, h
<1> QED
  BY <1>1, <1>2, <1>3, <1>4, AddsOnce

LEMMA SumOfZeros ==
  ASSUME NEW S, IsFiniteSet(S), NEW f \in [S -> Nat], \A x \in S : f[x] = 0
  PROVE  SumFunction(f) = 0
<1>1. Units(f, DOMAIN f) = {}
  BY DEF Units
<1>2. SumFunction(f) = Cardinality(Units(f, DOMAIN f))
  BY SumCounts
<1> QED
  BY <1>1, <1>2, FS_EmptySet

(* One process counts one more.                                            *)
LEMMA SumGrows ==
  ASSUME NEW S, IsFiniteSet(S), NEW f \in [S -> Nat], NEW p \in S
  PROVE  SumFunction([f EXCEPT ![p] = @ + 1]) = SumFunction(f) + 1
<1> DEFINE g == [f EXCEPT ![p] = @ + 1]
<1>1. /\ g \in [S -> Nat] /\ g[p] = f[p] + 1
      /\ \A x \in S : x # p => g[x] = f[x]
  OBVIOUS
<1> HIDE DEF g
<1>2. Units(g, S) = Units(f, S) \cup {<<p, g[p]>>}
  <2>1. ASSUME NEW u \in S \X Nat
        PROVE  u \in Units(g, S) <=> u \in Units(f, S) \/ u = <<p, g[p]>>
    <3>1. u[1] \in S /\ u[2] \in Nat /\ u = <<u[1], u[2]>>
      OBVIOUS
    <3>2. CASE u[1] = p
      BY <1>1, <3>1, <3>2 DEF Units
    <3>3. CASE u[1] # p
      BY <1>1, <3>1, <3>3 DEF Units
    <3> QED
      BY <3>2, <3>3
  <2>2. <<p, g[p]>> \in S \X Nat
    BY <1>1
  <2>3. Units(f, S) \subseteq S \X Nat /\ Units(g, S) \subseteq S \X Nat
    BY DEF Units
  <2> QED
    BY <2>1, <2>2, <2>3
<1>3. <<p, g[p]>> \notin Units(f, S)
  BY <1>1 DEF Units
<1>4. IsFiniteSet(Units(f, S)) /\ Cardinality(Units(f, S)) \in Nat
  BY UnitsFinite
<1>5. Cardinality(Units(g, S)) = Cardinality(Units(f, S)) + 1
  BY <1>2, <1>3, <1>4, FS_AddElement
<1>6. /\ SumFunction(f) = Cardinality(Units(f, S))
      /\ SumFunction(g) = Cardinality(Units(g, S))
  BY <1>1, SumCounts
<1> QED
  BY <1>5, <1>6 DEF g

-----------------------------------------------------------------------------
(* The connections that were ever in a table.                              *)
Served == {c \in Conns : net[c] \in {"open", "closed"}}

SumInv == IsFiniteSet(Served) /\ ServedIsExact

LEMMA SumInit == Init => SumInv
<1> SUFFICES ASSUME Init PROVE SumInv
  OBVIOUS
<1>1. Served = {}
  BY DEF Init, Served
<1>2. clients_served \in [Procs -> Nat] /\ \A p \in Procs : clients_served[p] = 0
  BY DEF Init
<1>3. SumFunction(clients_served) = 0
  BY <1>2, ProcsAssumption, SumOfZeros
<1> QED
  BY <1>1, <1>3, FS_EmptySet DEF SumInv, ServedIsExact, Served

(* Whatever closes connections closes such as are open.                    *)
LEMMA DropServes ==
  ASSUME IInv, NEW p \in Procs, NEW S \in SUBSET Held(p), Drop(p, S)
  PROVE  Served' = Served
<1>1. \A c \in S : net[c] = "open" /\ c \in Conns
  BY HeldFacts DEF IInv, Linked
<1>2. \A c \in Conns : net'[c] = IF c \in S THEN "closed" ELSE net[c]
  BY DEF Drop, Unlink
<1> QED
  BY <1>1, <1>2 DEF Served

SameServed == clients_served' = clients_served /\ Served' = Served
OneMoreServed ==
  \E p \in Procs, c \in Conns :
    /\ c \notin Served /\ Served' = Served \cup {c}
    /\ clients_served' = [clients_served EXCEPT ![p] = @ + 1]

LEMMA ServedSteps ==
  ASSUME IInv, [Next]_vars
  PROVE  SameServed \/ OneMoreServed
<1>1. ASSUME net' = net, clients_served' = clients_served PROVE SameServed
  BY <1>1 DEF Served, SameServed
<1>2. ASSUME NEW c \in Conns, ClientActs(c) PROVE SameServed
  <2>1. CASE Connect(c)
    <3>1. \A d \in Conns : \/ net'[d] = net[d]
                           \/ net[d] = "fresh" /\ net'[d] = "queued"
      BY <2>1 DEF Connect, IInv, Types
    <3> QED
      BY <2>1, <3>1 DEF Connect, Served, SameServed
  <2>2. CASE ClientSends(c) \/ ClientResets(c) \/ QuietLong(c)
    BY <1>1, <2>2 DEF ClientSends, ClientResets, Arrives, QuietLong
  <2> QED
    BY <1>2, <2>1, <2>2 DEF ClientActs
<1>3. ASSUME NEW p \in Procs,
             Signal(p) \/ Start(p) \/ WaitFails(p) \/ RoundOver(p)
               \/ NewConnection(p) \/ AcceptFails(p)
               \/ \E batch \in SUBSET Ready(p) : Wait(p, batch)
      PROVE  SameServed
  BY <1>1, <1>3 DEF Signal, Start, WaitFails, RoundOver, NewConnection,
                    AcceptFails, Wait, sockets
<1>4. ASSUME NEW p \in Procs, WaitTimesOut(p) \/ CloseAll(p) PROVE SameServed
  <2>1. PICK S \in SUBSET Held(p) : Drop(p, S)
    BY <1>4 DEF WaitTimesOut, CloseAll
  <2> QED
    BY <1>4, <2>1, DropServes DEF WaitTimesOut, CloseAll, SameServed
<1>5. ASSUME NEW p \in Procs, NEW c \in Conns, Disconnect(p, c) \/ Refuse(p, c)
      PROVE  SameServed
  <2>1. /\ c \in events[p] /\ Drop(p, {c})
        /\ clients_served' = clients_served
    BY <1>5 DEF Disconnect, Refuse, Receive, Event
  <2>2. c \in Held(p)
    BY <2>1, SizeAssumption DEF IInv, EventsAreFresh
  <2> QED
    BY <2>1, <2>2, DropServes DEF SameServed
<1>6. ASSUME NEW p \in Procs, Send(p) \/ SendFails(p) PROVE SameServed
  <2>1. pc[p] \in {"send", "send failed"} /\ clients_served' = clients_served
    BY <1>6 DEF Send, SendFails, Answered
  <2>2. current[p] \in Held(p)
    BY <2>1 DEF IInv, Turn
  <2>3. CASE Drop(p, {current[p]})
    BY <2>1, <2>2, <2>3, DropServes DEF SameServed
  <2>4. CASE UNCHANGED sockets
    BY <1>1, <2>1, <2>4 DEF sockets
  <2> QED
    BY <1>6, <2>3, <2>4 DEF Send, SendFails
<1>7. ASSUME NEW p \in Procs, NEW c \in Conns, Reject(p, c) PROVE SameServed
  <2>1. \A d \in Conns :
          \/ net'[d] = net[d]
          \/ net[d] = "queued" /\ net'[d] = "rejected"
    BY <1>7 DEF Reject, Queued, IInv, Types
  <2> QED
    BY <1>7, <2>1 DEF Reject, Served, SameServed
<1>8. ASSUME NEW p \in Procs, NEW c \in Conns, Accept(p, c)
      PROVE  OneMoreServed
  <2>1. /\ net[c] = "queued" /\ net'[c] = "open"
        /\ \A d \in Conns \ {c} : net'[d] = net[d]
        /\ clients_served' = [clients_served EXCEPT ![p] = @ + 1]
    BY <1>8 DEF Accept, Queued, IInv, Types
  <2>2. c \notin Served /\ Served' = Served \cup {c}
    BY <2>1 DEF Served
  <2> QED
    BY <2>1, <2>2 DEF OneMoreServed
<1>9. ASSUME NEW p \in Procs, NEW c \in Conns,
             Echo(p, c) \/ \E req \in Requests : Process(p, c, req)
      PROVE  SameServed
  BY <1>1, <1>9 DEF Echo, Process
<1>10. CASE UNCHANGED vars
  BY <1>1, <1>10 DEF vars, sockets
<1>11. CASE \E p \in Procs : Runs(p)
  BY <1>3, <1>4, <1>5, <1>6, <1>7, <1>8, <1>9, <1>11 DEF Runs
<1>12. CASE \E p \in Procs : MayHappen(p)
  BY <1>3, <1>6, <1>12 DEF MayHappen
<1> QED
  BY <1>2, <1>3, <1>10, <1>11, <1>12 DEF Next, Over

LEMMA SumStep ==
  ASSUME IInv, SumInv, [Next]_vars
  PROVE  SumInv'
<1>1. CASE SameServed
  BY <1>1 DEF SumInv, ServedIsExact, SameServed, Served
<1>2. CASE OneMoreServed
  <2>1. PICK p \in Procs, c \in Conns :
          /\ c \notin Served /\ Served' = Served \cup {c}
          /\ clients_served' = [clients_served EXCEPT ![p] = @ + 1]
    BY <1>2 DEF OneMoreServed
  <2>2. SumFunction(clients_served') = SumFunction(clients_served) + 1
    BY <2>1, ProcsAssumption, SumGrows DEF IInv, Types
  <2>3. IsFiniteSet(Served')
        /\ Cardinality(Served') = Cardinality(Served) + 1
    BY <2>1, FS_AddElement DEF SumInv
  <2> QED
    BY <2>2, <2>3 DEF SumInv, ServedIsExact, Served
<1> QED
  BY <1>1, <1>2, ServedSteps

(* Table, interest list and count of a process agree, an open connection   *)
(* has one slot in one process, and what the processes report at their end *)
(* ("served %d client(s)") adds up to the connections that were ever in a  *)
(* table, whichever process accepted them and however they ended.          *)
THEOREM TablesCorrect == Spec => []TablesAgree
<1>1. Init => IInv /\ SumInv
  BY InitOK, SumInit
<1>2. IInv /\ SumInv /\ [Next]_vars => (IInv /\ SumInv)'
  BY StepOK, SumStep
<1>3. IInv /\ SumInv => TablesAgree
  BY OneSlotFollows DEF IInv, SumInv, TablesAgree
<1> QED
  BY <1>1, <1>2, <1>3, PTL DEF Spec

=============================================================================
