-------------------------- MODULE SelectServerProofs --------------------------
(***************************************************************************)
(* Proofs about SelectServer, for every limit on descriptors, every size   *)
(* of the table and every finite set of connections.                       *)
(***************************************************************************)
EXTENDS SelectServer, FiniteSetTheorems, WellFoundedInduction, TLAPS

-----------------------------------------------------------------------------
(* Smallest and largest members.                                           *)

LEMMA MinOfNaturals ==
  ASSUME NEW S \in SUBSET Nat, S # {}
  PROVE  Min(S) \in S /\ \A y \in S : Min(S) <= y
<1> DEFINE Below == {0 .. x : x \in S}
<1>1. Below \subseteq FiniteSubsetsOf(Nat) /\ Below # {}
  <2>1. ASSUME NEW x \in S
        PROVE  0 .. x \in FiniteSubsetsOf(Nat)
    <3>1. IsFiniteSet(0 .. x)
      BY FS_Interval, 0 \in Int, x \in Int
    <3>2. 0 .. x \subseteq Nat
      OBVIOUS
    <3> QED
      BY <3>1, <3>2 DEF FiniteSubsetsOf
  <2> QED
    BY <2>1
<1>2. PICK B \in Below :
        \A C \in Below : ~ (<<C, B>> \in StrictSubsetOrdering(Nat))
  BY <1>1, FS_StrictSubsetOrderingWellFounded, WFMin
<1>3. PICK x \in S : B = 0 .. x
  BY <1>2
<1>4. ASSUME NEW y \in S, y < x
      PROVE  FALSE
  <2>1. 0 .. y \in Below /\ 0 .. y \subseteq Nat /\ 0 .. x \subseteq Nat
    OBVIOUS
  <2>2. 0 .. y \subseteq 0 .. x /\ x \in 0 .. x /\ x \notin 0 .. y
    BY <1>4
  <2>3. <<0 .. y, 0 .. x>> \in StrictSubsetOrdering(Nat)
    BY <2>1, <2>2 DEF StrictSubsetOrdering
  <2> QED
    BY <1>2, <1>3, <2>1, <2>3
<1>5. \A y \in S : x <= y
  BY <1>4
<1> QED
  BY <1>5 DEF Min

LEMMA MaxOfBounded ==
  ASSUME NEW S \in SUBSET Nat, S # {}, NEW n \in Nat, \A x \in S : x <= n
  PROVE  Max(S) \in S /\ \A y \in S : y <= Max(S)
<1> DEFINE D == {n - x : x \in S}
<1>1. D \in SUBSET Nat /\ D # {}
  <2>1. ASSUME NEW x \in S
        PROVE  n - x \in Nat
    <3>1. x \in Nat /\ x <= n
      OBVIOUS
    <3> QED
      BY <3>1
  <2> QED
    BY <2>1
<1> HIDE DEF D
<1>2. Min(D) \in D /\ \A y \in D : Min(D) <= y
  BY <1>1, MinOfNaturals
<1>3. PICK x \in S : Min(D) = n - x
  BY <1>2 DEF D
<1>4. \A y \in S : x >= y
  <2> SUFFICES ASSUME NEW y \in S PROVE x >= y
    OBVIOUS
  <2>1. n - y \in D
    BY DEF D
  <2>2. n - x <= n - y
    BY <1>2, <1>3, <2>1
  <2> QED
    BY <2>2
<1>5. Max(S) \in S /\ \A y \in S : Max(S) >= y
  BY <1>4 DEF Max
<1> QED
  BY <1>5

-----------------------------------------------------------------------------
(* The inductive invariant.                                                *)

(* The sockets and the connections: an open connection, and no other, has  *)
(* one descriptor.                                                         *)
Linked ==
  /\ \A fd \in Fds \ FreeFds : net[sock[fd]] = "open"
  /\ \A fd, gd \in Fds \ FreeFds : sock[fd] = sock[gd] => fd = gd
  /\ \A c \in Conns : net[c] = "open" => \E fd \in Fds : sock[fd] = c

(* Whose turn it is: the descriptor that is being answered is open and has *)
(* left the set of the scan.                                               *)
Turn ==
  /\ current # Free <=> pc \in {"send", "sent", "send failed"}
  /\ current # Free => current \in Fds \ FreeFds
  /\ read_set # {} => pc \in {"scan", "send", "sent", "send failed"}
  /\ current \notin read_set

Opening == pc = "start" => FreeFds = Fds /\ max_fd = ListenFd

(* A connection that is kept has requests left.                            *)
RequestsLeft == \A s \in Slots \ FreeSlots : request_count[s] < MaxRequests

IInv ==
  /\ TypeOK /\ Linked /\ OneSlotEach /\ SetIsExact /\ CountIsExact
  /\ ReadSetIsFresh /\ Turn /\ Opening /\ RequestsLeft

Served == {c \in Conns : net[c] \in {"open", "closed"}}

LEMMA FdFacts ==
  /\ Fds \subseteq Nat /\ ListenFd \in Nat /\ NoFile \in Nat
  /\ ListenFd \notin Fds /\ Free \notin Fds /\ Free \notin Nat
  /\ ListenFd <= NoFile
  /\ \A fd \in Fds : ListenFd < fd /\ fd <= NoFile
<1>1. ListenFd \in Nat /\ NoFile \in Nat /\ ListenFd < NoFile
  BY SizeAssumption
<1>2. \A fd \in Fds : fd \in Nat /\ ListenFd < fd /\ fd <= NoFile
  BY <1>1 DEF Fds
<1>3. ListenFd \notin Fds
  BY <1>1, <1>2
<1>4. Free \notin Nat
  BY DEF Free
<1> QED
  BY <1>1, <1>2, <1>3, <1>4

LEMMA SlotFacts == Slots \subseteq Nat /\ MaxRequests \in Nat \ {0}
<1>1. MaxConns \in Nat /\ MaxRequests \in Nat \ {0}
  BY SizeAssumption
<1> QED
  BY <1>1 DEF Slots

LEMMA ServedIsFinite == IsFiniteSet(Served)
BY SizeAssumption, FS_Subset DEF Served

(* CountIsExact depends on nothing but the set of the served.              *)
LEMMA SameServed ==
  ASSUME CountIsExact, Served' = Served, UNCHANGED clients_served
  PROVE  CountIsExact'
BY DEF CountIsExact, Served

(* The descriptors in use, as the table and the set hold them.             *)
LEMMA OneDescriptorFollows ==
  ASSUME TypeOK, Linked
  PROVE  OneDescriptorEach
<1> SUFFICES ASSUME NEW c \in Conns
             PROVE  Cardinality({fd \in Fds : sock[fd] = c})
                      = IF net[c] = "open" THEN 1 ELSE 0
  BY DEF OneDescriptorEach
<1> DEFINE F == {fd \in Fds : sock[fd] = c}
<1>1. \A fd \in F : fd \in Fds \ FreeFds
  BY SizeAssumption DEF FreeFds
<1>2. CASE net[c] = "open"
  <2>1. PICK fd \in Fds : sock[fd] = c
    BY <1>2 DEF Linked
  <2>2. F = {fd}
    BY <2>1, <1>1 DEF Linked
  <2> QED
    BY <1>2, <2>2, FS_Singleton
<1>3. CASE net[c] # "open"
  <2>1. F = {}
    BY <1>1, <1>3 DEF Linked
  <2> QED
    BY <1>3, <2>1, FS_EmptySet
<1> QED
  BY <1>2, <1>3

LEMMA InitOK == Init => IInv
<1> SUFFICES ASSUME Init PROVE IInv
  OBVIOUS
<1>1. FreeFds = Fds /\ FreeSlots = Slots
  BY DEF Init, FreeFds, FreeSlots
<1>2. TypeOK
  <2>1. request_count \in [Slots -> 0 .. MaxRequests]
    BY SlotFacts DEF Init
  <2> QED
    BY <2>1 DEF Init, TypeOK
<1>3. Linked /\ OneSlotEach /\ SetIsExact /\ ReadSetIsFresh
  BY <1>1 DEF Init, Linked, OneSlotEach, SetIsExact, ReadSetIsFresh
<1>4. Turn /\ Opening /\ RequestsLeft
  BY <1>1 DEF Init, Turn, Opening, RequestsLeft
<1>5. Served = {}
  BY DEF Init, Served
<1>6. CountIsExact
  BY <1>5, FS_EmptySet DEF Init, CountIsExact, Served
<1> QED
  BY <1>2, <1>3, <1>4, <1>6 DEF IInv

-----------------------------------------------------------------------------
(* What the two operations on the tables keep.                             *)

(* Lowering the largest descriptor after the descriptors in S are gone.    *)
LEMMA LoweredIsLargest ==
  ASSUME TypeOK, SetIsExact, pc \notin {"start", "failed", "exit"},
         NEW S \in SUBSET Fds, NEW M, M = master_set \ S
  PROVE  /\ Lowered(S) \in M
         /\ \A fd \in M : fd <= Lowered(S)
<1>1. /\ master_set \subseteq Fds \cup {ListenFd} /\ ListenFd \in M
      /\ max_fd \in master_set /\ \A fd \in master_set : fd <= max_fd
  BY FdFacts DEF TypeOK, SetIsExact
<1>2. /\ M \in SUBSET Nat /\ M # {} /\ max_fd \in Nat
      /\ \A fd \in M : fd <= max_fd
  BY <1>1, FdFacts
<1>3. CASE max_fd \notin S
  BY <1>1, <1>3 DEF Lowered
<1>4. CASE max_fd \in S
  <2>1. \A fd \in M : fd < max_fd
    BY <1>2, <1>4
  <2>2. {ListenFd} \cup {fd \in master_set \ S : fd < max_fd} = M
    BY <1>1, <2>1
  <2>3. Lowered(S) = Max(M)
    BY <1>4, <2>2 DEF Lowered
  <2> QED
    BY <1>2, <2>3, MaxOfBounded
<1> QED
  BY <1>3, <1>4

(* The descriptors and slots that are free when those in S are closed.     *)
LEMMA ShutFrees ==
  ASSUME NEW S \in SUBSET Fds, Shut(S)
  PROVE  /\ FreeFds' = FreeFds \cup S
         /\ FreeSlots' = FreeSlots \cup {s \in Slots : connections[s] \in S}
<1>1. /\ \A fd \in Fds : sock'[fd] = IF fd \in S THEN None ELSE sock[fd]
      /\ \A s \in Slots :
           connections'[s] = IF connections[s] \in S THEN Free
                             ELSE connections[s]
  BY DEF Shut
<1> QED
  BY <1>1 DEF FreeFds, FreeSlots

(* Closing the descriptors in S, wherever the program goes on, if the set  *)
(* and its largest descriptor are then right.                              *)
LEMMA ShutKeeps ==
  ASSUME IInv, pc \notin {"start", "failed"},
         NEW S \in SUBSET (Fds \ FreeFds), Shut(S),
         master_set' \in SUBSET (Fds \cup {ListenFd}),
         max_fd' \in Fds \cup {ListenFd}, SetIsExact',
         pc' \in {"scan", "select", "closing", "exit"},
         current' = Free,
         read_set' \subseteq read_set \ S, read_set' # {} => pc' = "scan",
         request_count' \in [Slots -> 0 .. MaxRequests],
         \A s \in Slots \ FreeSlots :
           connections[s] \notin S => request_count'[s] < MaxRequests,
         UNCHANGED clients_served, g_shutdown' \in BOOLEAN
  PROVE  IInv'
<1> USE DEF IInv
<1> DEFINE gone == {sock[fd] : fd \in S}
<1>1. /\ \A fd \in Fds : sock'[fd] = IF fd \in S THEN None ELSE sock[fd]
      /\ \A c \in Conns :
           /\ net'[c] = IF c \in gone THEN "closed" ELSE net[c]
           /\ inbox'[c] = IF c \in gone THEN "empty" ELSE inbox[c]
      /\ \A s \in Slots :
           connections'[s] = IF connections[s] \in S THEN Free
                             ELSE connections[s]
  BY DEF Shut
<1>2. FreeFds' = FreeFds \cup S
  BY ShutFrees
<1>3. FreeSlots' = FreeSlots \cup {s \in Slots : connections[s] \in S}
  BY ShutFrees
<1>4. \A fd \in Fds \ FreeFds :
        sock[fd] \in Conns /\ (sock[fd] \in gone => fd \in S)
  <2> SUFFICES ASSUME NEW fd \in Fds \ FreeFds
               PROVE  sock[fd] \in Conns /\ (sock[fd] \in gone => fd \in S)
    OBVIOUS
  <2>1. sock[fd] \in Conns
    BY DEF TypeOK, FreeFds
  <2>2. ASSUME NEW gd \in S, sock[fd] = sock[gd]
        PROVE  fd \in S
    BY <2>2 DEF Linked
  <2> QED
    BY <2>1, <2>2
<1>5. \A c \in gone : c \in Conns /\ net[c] = "open"
  BY <1>4 DEF Linked
<1>7. TypeOK'
  <2>1. /\ net' \in [Conns -> {"fresh", "queued", "open", "closed", "rejected"}]
        /\ inbox' \in [Conns -> {"empty", "data", "fin", "rst"}]
    BY DEF Shut, TypeOK
  <2>2. quiet' \in [Conns -> BOOLEAN]
    BY Zenon DEF Shut, TypeOK
  <2>3. sock' \in [Fds -> Conns \cup {None}]
    BY DEF Shut, TypeOK
  <2>4. connections' \in [Slots -> Fds \cup {Free}]
    BY DEF Shut, TypeOK
  <2>5. /\ master_set' \in SUBSET (Fds \cup {ListenFd})
        /\ max_fd' \in Fds \cup {ListenFd}
        /\ read_set' \in SUBSET (Fds \cup {ListenFd})
    BY DEF TypeOK
  <2> QED
    BY <2>1, <2>2, <2>3, <2>4, <2>5 DEF TypeOK
<1>8. Linked'
  <2>1. \A fd \in Fds \ FreeFds' : net'[sock'[fd]] = "open"
    BY <1>1, <1>2, <1>4 DEF Linked
  <2>2. \A fd, gd \in Fds \ FreeFds' : sock'[fd] = sock'[gd] => fd = gd
    BY <1>1, <1>2 DEF Linked
  <2>3. ASSUME NEW c \in Conns, net'[c] = "open"
        PROVE  \E fd \in Fds : sock'[fd] = c
    <3>1. c \notin gone /\ net[c] = "open"
      BY <1>1, <2>3
    <3>2. PICK fd \in Fds : sock[fd] = c
      BY <3>1 DEF Linked
    <3> QED
      BY <1>1, <3>1, <3>2
  <2> QED
    BY <2>1, <2>2, <2>3 DEF Linked
<1>9. OneSlotEach'
  <2>1. \A fd \in Fds \ FreeFds' : \E s \in Slots : connections'[s] = fd
    <3> SUFFICES ASSUME NEW fd \in Fds \ FreeFds'
                 PROVE  \E s \in Slots : connections'[s] = fd
      OBVIOUS
    <3>1. fd \in Fds \ FreeFds /\ fd \notin S
      BY <1>2
    <3>2. PICK s \in Slots : connections[s] = fd
      BY <3>1 DEF OneSlotEach
    <3> QED
      BY <1>1, <3>1, <3>2
  <2>2. \A s \in Slots \ FreeSlots' :
          s \in Slots \ FreeSlots /\ connections'[s] = connections[s]
          /\ connections[s] \notin S
    BY <1>1, <1>3
  <2>3. \A s \in Slots \ FreeSlots' : connections'[s] \in Fds \ FreeFds'
    BY <1>2, <2>2 DEF OneSlotEach
  <2>4. \A s, t \in Slots \ FreeSlots' :
          connections'[s] = connections'[t] => s = t
    BY <2>2 DEF OneSlotEach
  <2> QED
    BY <2>1, <2>3, <2>4 DEF OneSlotEach
<1>11. CountIsExact'
  <2>1. Served' = Served
    BY <1>1, <1>5 DEF Served
  <2> QED
    BY <2>1, SameServed
<1>12. ReadSetIsFresh'
  <2> SUFFICES ASSUME NEW fd \in read_set' \cap Fds
               PROVE  /\ \E s \in Slots : connections'[s] = fd
                      /\ sock'[fd] # None /\ inbox'[sock'[fd]] # "empty"
    BY DEF ReadSetIsFresh
  <2>1. fd \in read_set \cap Fds /\ fd \notin S
    OBVIOUS
  <2>2. PICK s \in Slots : connections[s] = fd
    BY <2>1 DEF ReadSetIsFresh
  <2>3. sock[fd] # None /\ inbox[sock[fd]] # "empty" /\ sock'[fd] = sock[fd]
    BY <1>1, <2>1 DEF ReadSetIsFresh
  <2>4. sock[fd] \in Conns /\ sock[fd] \notin gone
    BY <1>4, <2>1, <2>3 DEF FreeFds
  <2> QED
    BY <1>1, <2>1, <2>2, <2>3, <2>4
<1>13. Turn' /\ Opening'
  <2>1. /\ pc' \notin {"start", "send", "sent", "send failed"}
        /\ read_set' # {} => pc' = "scan"
    OBVIOUS
  <2>2. current' \notin read_set'
    BY FdFacts DEF TypeOK
  <2>3. current' # Free <=> pc' \in {"send", "sent", "send failed"}
    BY <2>1
  <2>4. Turn'
    BY <2>1, <2>2, <2>3 DEF Turn
  <2>5. Opening'
    BY <2>1 DEF Opening
  <2> QED
    BY <2>4, <2>5
<1>14. RequestsLeft'
  BY <1>3 DEF RequestsLeft
<1> QED
  BY <1>7, <1>8, <1>9, <1>11, <1>12, <1>13, <1>14

(* The same while the loop goes on.                                        *)
LEMMA DropKeeps ==
  ASSUME IInv, pc \notin {"start", "failed", "exit"},
         NEW S \in SUBSET (Fds \ FreeFds), Drop(S),
         pc' \in {"scan", "select", "closing"},
         current' = Free,
         read_set' \subseteq read_set \ S, read_set' # {} => pc' = "scan",
         request_count' \in [Slots -> 0 .. MaxRequests],
         \A s \in Slots \ FreeSlots :
           connections[s] \notin S => request_count'[s] < MaxRequests,
         UNCHANGED clients_served, g_shutdown' \in BOOLEAN
  PROVE  IInv'
<1>1. Shut(S) /\ master_set' = master_set \ S /\ max_fd' = Lowered(S)
  BY DEF Drop
<1>2. FreeFds' = FreeFds \cup S
  BY <1>1, ShutFrees
<1>3. /\ max_fd' \in master_set' /\ \A fd \in master_set' : fd <= max_fd'
  BY <1>1, LoweredIsLargest DEF IInv
<1>4. /\ master_set' \in SUBSET (Fds \cup {ListenFd})
      /\ max_fd' \in Fds \cup {ListenFd}
  BY <1>1, <1>3 DEF IInv, TypeOK
<1>5. SetIsExact'
  <2>1. master_set = {ListenFd} \cup (Fds \ FreeFds)
    BY DEF IInv, SetIsExact
  <2>2. master_set' = {ListenFd} \cup (Fds \ FreeFds')
    BY <1>1, <1>2, <2>1, FdFacts
  <2> QED
    BY <1>3, <2>2 DEF SetIsExact
<1> QED
  BY <1>1, <1>4, <1>5, ShutKeeps

(* Steps that leave the tables, the descriptors and the server's control.  *)
LEMMA ClientKeeps ==
  ASSUME IInv,
         UNCHANGED <<sock, pc, tables, request_count, read_set, current,
                     clients_served, g_shutdown>>,
         net' \in [Conns -> {"fresh", "queued", "open", "closed", "rejected"}],
         inbox' \in [Conns -> {"empty", "data", "fin", "rst"}],
         quiet' \in [Conns -> BOOLEAN],
         \A c \in Conns :
           /\ net'[c] = net[c] \/ (net[c] = "fresh" /\ net'[c] = "queued")
           /\ inbox[c] # "empty" => inbox'[c] # "empty"
  PROVE  IInv'
<1> USE DEF IInv
<1>1. FreeFds' = FreeFds /\ FreeSlots' = FreeSlots /\ Served' = Served
  BY DEF tables, FreeFds, FreeSlots, Served
<1>2. TypeOK'
  BY DEF tables, TypeOK
<1>3. /\ \A c \in Conns : net'[c] = "open" <=> net[c] = "open"
      /\ \A fd \in Fds : sock[fd] # None => sock[fd] \in Conns
      /\ sock' = sock /\ connections' = connections /\ read_set' = read_set
  BY DEF TypeOK, tables
<1>31. Linked'
  BY <1>1, <1>3 DEF Linked, FreeFds
<1>4. OneSlotEach' /\ SetIsExact'
  BY <1>1 DEF OneSlotEach, SetIsExact, tables
<1>5. CountIsExact'
  BY <1>1, SameServed
<1>6. ReadSetIsFresh'
  BY <1>3 DEF ReadSetIsFresh
<1>7. Turn' /\ Opening'
  BY <1>1 DEF Turn, Opening, tables
<1>8. RequestsLeft'
  BY <1>1 DEF RequestsLeft
<1> QED
  BY <1>2, <1>31, <1>4, <1>5, <1>6, <1>7, <1>8

(* Steps of the server that leave sockets and tables.                      *)
LEMMA ControlKeeps ==
  ASSUME IInv, UNCHANGED <<sockets, tables, request_count, clients_served>>,
         pc' \in {"select", "scan", "send", "sent", "send failed", "closing",
                  "failed"},
         pc \notin {"failed", "exit"}, pc = "start" => pc' = "failed",
         read_set' \in SUBSET (Fds \cup {ListenFd}),
         \A fd \in read_set' \cap Fds :
           sock[fd] # None /\ inbox[sock[fd]] # "empty",
         current' = current, g_shutdown' \in BOOLEAN,
         Turn'
  PROVE  IInv'
<1> USE DEF IInv
<1>1. /\ FreeFds' = FreeFds /\ FreeSlots' = FreeSlots /\ Served' = Served
      /\ net' = net /\ sock' = sock /\ inbox' = inbox
      /\ connections' = connections
  BY DEF sockets, tables, FreeFds, FreeSlots, Served
<1>2. TypeOK'
  BY DEF sockets, tables, TypeOK
<1>3. Linked' /\ OneSlotEach'
  BY <1>1 DEF Linked, OneSlotEach
<1>4. SetIsExact' /\ Opening'
  BY <1>1 DEF SetIsExact, Opening, tables
<1>5. CountIsExact'
  BY <1>1, SameServed
<1>6. ReadSetIsFresh'
  <2>1. \A fd \in read_set' \cap Fds : \E s \in Slots : connections[s] = fd
    BY DEF OneSlotEach, FreeFds
  <2> QED
    BY <1>1, <2>1 DEF ReadSetIsFresh
<1>7. RequestsLeft'
  BY <1>1 DEF RequestsLeft
<1> QED
  BY <1>2, <1>3, <1>4, <1>5, <1>6, <1>7

LEMMA StartKeeps == IInv /\ Start => IInv'
<1> SUFFICES ASSUME IInv, Start PROVE IInv'
  OBVIOUS
<1> USE DEF IInv
<1>1. CASE pc' = "failed" /\ UNCHANGED master_set
  <2>1. UNCHANGED <<sockets, tables, request_count, clients_served>>
    BY <1>1 DEF Start, tables
  <2>2. Turn'
    BY <1>1 DEF Start, Turn
  <2>3. read_set' = {}
    BY DEF Start, Turn
  <2> QED
    BY <1>1, <2>1, <2>2, <2>3, ControlKeeps DEF Start, TypeOK
<1>2. CASE Loop /\ master_set' = {ListenFd}
  <2>1. /\ FreeFds' = FreeFds /\ FreeSlots' = FreeSlots /\ Served' = Served
        /\ FreeFds = Fds /\ max_fd' = ListenFd
        /\ net' = net /\ sock' = sock /\ inbox' = inbox
        /\ connections' = connections
    BY DEF Start, sockets, FreeFds, FreeSlots, Served, Opening
  <2>2. TypeOK'
    BY <1>2 DEF Start, Loop, sockets, TypeOK
  <2>3. Linked' /\ OneSlotEach'
    BY <2>1 DEF Linked, OneSlotEach
  <2>4. SetIsExact'
    BY <1>2, <2>1, FdFacts DEF SetIsExact, Loop
  <2>5. CountIsExact'
    BY <2>1, SameServed DEF Start
  <2>6. ReadSetIsFresh' /\ RequestsLeft'
    BY <2>1 DEF Start, ReadSetIsFresh, RequestsLeft
  <2>7. Turn' /\ Opening'
    BY <1>2 DEF Start, Loop, Turn, Opening
  <2> QED
    BY <2>2, <2>3, <2>4, <2>5, <2>6, <2>7
<1> QED
  BY <1>1, <1>2 DEF Start

LEMMA RejectKeeps ==
  ASSUME IInv, NEW c \in Conns, Reject(c)
  PROVE  IInv'
<1> USE DEF IInv
<1>1. /\ net[c] = "queued" /\ net' = [net EXCEPT ![c] = "rejected"]
      /\ inbox' = [inbox EXCEPT ![c] = "empty"]
      /\ UNCHANGED <<quiet, sock, pc, tables, request_count, current,
                     clients_served, g_shutdown>>
      /\ read_set' \subseteq read_set /\ pc = "scan"
  BY DEF Reject, Reach, Queued
<1>2. TypeOK'
  BY <1>1 DEF TypeOK, tables
<1>3. FreeFds' = FreeFds /\ FreeSlots' = FreeSlots /\ Served' = Served
  BY <1>1 DEF FreeFds, FreeSlots, Served, tables, TypeOK
<1>4. /\ \A d \in Conns : net'[d] = "open" <=> net[d] = "open"
      /\ \A d \in Conns : net[d] = "open" => inbox'[d] = inbox[d]
      /\ \A fd \in Fds \ FreeFds : sock[fd] \in Conns
      /\ sock' = sock /\ connections' = connections
  BY <1>1 DEF TypeOK, tables, FreeFds
<1>5. Linked' /\ OneSlotEach'
  BY <1>3, <1>4 DEF Linked, OneSlotEach
<1>6. SetIsExact'
  BY <1>1, <1>3 DEF SetIsExact, tables
<1>7. CountIsExact'
  BY <1>1, <1>3, SameServed
<1>8. ReadSetIsFresh'
  <2> SUFFICES ASSUME NEW fd \in read_set' \cap Fds
               PROVE  /\ \E s \in Slots : connections[s] = fd
                      /\ sock[fd] # None /\ inbox'[sock[fd]] # "empty"
    BY <1>4 DEF ReadSetIsFresh
  <2>1. fd \in read_set /\ fd \in Fds \ FreeFds
    BY <1>1 DEF ReadSetIsFresh, FreeFds
  <2> QED
    BY <1>4, <2>1 DEF ReadSetIsFresh, Linked
<1>9. Turn' /\ Opening' /\ RequestsLeft'
  BY <1>1, <1>3 DEF Turn, Opening, RequestsLeft
<1> QED
  BY <1>2, <1>5, <1>6, <1>7, <1>8, <1>9

LEMMA ProcessKeeps ==
  ASSUME IInv, NEW fd \in Fds, Process(fd)
  PROVE  IInv'
<1> USE DEF IInv
<1>1. /\ inbox' = [inbox EXCEPT ![sock[fd]] = "empty"]
      /\ current' = fd /\ pc' = "send" /\ pc = "scan"
      /\ UNCHANGED <<net, quiet, sock, tables, request_count, clients_served,
                     g_shutdown>>
      /\ read_set' = read_set \ {fd} /\ fd \in read_set
  BY DEF Process, Reach
<1>2. TypeOK'
  BY <1>1 DEF TypeOK, tables
<1>3. /\ FreeFds' = FreeFds /\ FreeSlots' = FreeSlots /\ Served' = Served
      /\ net' = net /\ sock' = sock /\ connections' = connections
  BY <1>1 DEF FreeFds, FreeSlots, Served, tables
<1>4. Linked' /\ OneSlotEach'
  BY <1>3 DEF Linked, OneSlotEach
<1>5. SetIsExact' /\ Opening'
  BY <1>1, <1>3 DEF SetIsExact, Opening, tables
<1>6. CountIsExact'
  BY <1>1, <1>3, SameServed
<1>7. fd \in Fds \ FreeFds
  BY <1>1 DEF ReadSetIsFresh, FreeFds
<1>8. ReadSetIsFresh'
  <2> SUFFICES ASSUME NEW gd \in read_set' \cap Fds
               PROVE  /\ \E s \in Slots : connections[s] = gd
                      /\ sock[gd] # None /\ inbox'[sock[gd]] # "empty"
    BY <1>3 DEF ReadSetIsFresh
  <2>1. gd \in read_set /\ gd # fd /\ gd \in Fds \ FreeFds
    BY <1>1 DEF ReadSetIsFresh, FreeFds
  <2>2. sock[gd] # sock[fd]
    BY <1>7, <2>1 DEF Linked
  <2>3. sock[gd] \in Conns
    BY <2>1 DEF TypeOK, FreeFds
  <2> QED
    BY <1>1, <2>1, <2>2, <2>3 DEF ReadSetIsFresh, TypeOK
<1>9. Turn' /\ RequestsLeft'
  BY <1>1, <1>3, <1>7, FdFacts DEF Turn, RequestsLeft
<1> QED
  BY <1>2, <1>4, <1>5, <1>6, <1>8, <1>9

(* A newcomer takes the first free descriptor and the first free slot.     *)
LEMMA AcceptKeeps ==
  ASSUME IInv, NEW c \in Conns, Accept(c)
  PROVE  IInv'
<1> USE DEF IInv
<1> DEFINE new == Min(FreeFds)
           slot == Min(FreeSlots)
<1>1. new \in Fds /\ sock[new] = None
  <2>1. FreeFds \in SUBSET Nat /\ FreeFds # {}
    BY FdFacts DEF Accept, FreeFds
  <2> QED
    BY <2>1, MinOfNaturals DEF FreeFds
<1>2. slot \in Slots /\ connections[slot] = Free
  <2>1. FreeSlots \in SUBSET Nat /\ FreeSlots # {}
    BY SlotFacts DEF Accept, FreeSlots
  <2> QED
    BY <2>1, MinOfNaturals DEF FreeSlots
<1>3. /\ net[c] = "queued" /\ net' = [net EXCEPT ![c] = "open"]
      /\ sock' = [sock EXCEPT ![new] = c]
      /\ connections' = [connections EXCEPT ![slot] = new]
      /\ request_count' = [request_count EXCEPT ![slot] = 0]
      /\ master_set' = master_set \cup {new}
      /\ max_fd' = Max({new, max_fd})
      /\ clients_served' = clients_served + 1
      /\ UNCHANGED <<inbox, quiet, pc, current, g_shutdown>>
      /\ read_set' \subseteq read_set /\ pc = "scan"
  BY DEF Accept, Reach, Queued, Insert, Fill
<1> HIDE DEF new, slot
<1>4. /\ max_fd' \in {new, max_fd} /\ new <= max_fd' /\ max_fd <= max_fd'
  <2>1. new \in Nat /\ max_fd \in Nat /\ new <= NoFile /\ max_fd <= NoFile
        /\ NoFile \in Nat
    BY <1>1, FdFacts DEF TypeOK
  <2>2. {new, max_fd} \in SUBSET Nat /\ \A x \in {new, max_fd} : x <= NoFile
    BY <2>1
  <2> QED
    BY <1>3, <2>1, <2>2, MaxOfBounded
<1>5. TypeOK'
  <2>1. request_count' \in [Slots -> 0 .. MaxRequests]
    <3>1. 0 \in 0 .. MaxRequests
      BY SlotFacts
    <3>2. request_count \in [Slots -> 0 .. MaxRequests]
      BY DEF TypeOK
    <3> QED
      BY <1>3, <3>1, <3>2
  <2>2. clients_served' \in Nat
    BY <1>3 DEF TypeOK
  <2>3. /\ net' \in [Conns -> {"fresh", "queued", "open", "closed", "rejected"}]
        /\ sock' \in [Fds -> Conns \cup {None}]
        /\ connections' \in [Slots -> Fds \cup {Free}]
        /\ master_set' \in SUBSET (Fds \cup {ListenFd})
        /\ max_fd' \in Fds \cup {ListenFd}
        /\ read_set' \in SUBSET (Fds \cup {ListenFd})
    BY <1>1, <1>3, <1>4 DEF TypeOK
  <2> QED
    BY <1>3, <2>1, <2>2, <2>3 DEF TypeOK
<1>6. /\ FreeFds' = FreeFds \ {new} /\ new \in FreeFds
      /\ FreeSlots' = FreeSlots \ {slot} /\ slot \in FreeSlots
  <2>1. c # None
    BY SizeAssumption
  <2>2. new # Free
    BY <1>1, FdFacts
  <2>3. FreeFds' = FreeFds \ {new}
    BY <1>1, <1>3, <2>1 DEF FreeFds, TypeOK
  <2>4. FreeSlots' = FreeSlots \ {slot}
    BY <1>2, <1>3, <2>2 DEF FreeSlots, TypeOK
  <2> QED
    BY <1>1, <1>2, <2>3, <2>4 DEF FreeFds, FreeSlots
<1>7. /\ sock'[new] = c /\ net'[c] = "open"
      /\ \A fd \in Fds \ FreeFds :
           /\ fd # new /\ sock'[fd] = sock[fd]
           /\ sock[fd] \in Conns /\ sock[fd] # c
           /\ net'[sock[fd]] = net[sock[fd]]
  <2>1. \A fd \in Fds \ FreeFds : sock[fd] \in Conns /\ fd # new
    BY <1>6 DEF FreeFds, TypeOK
  <2>2. \A fd \in Fds \ FreeFds : sock[fd] # c
    BY <1>3 DEF Linked
  <2> QED
    BY <1>1, <1>3, <2>1, <2>2 DEF TypeOK
<1>8. Linked'
  <2>1. Fds \ FreeFds' = (Fds \ FreeFds) \cup {new}
    BY <1>1, <1>6
  <2>2. \A fd \in Fds \ FreeFds' : net'[sock'[fd]] = "open"
    BY <1>7, <2>1 DEF Linked
  <2>3. \A fd, gd \in Fds \ FreeFds' : sock'[fd] = sock'[gd] => fd = gd
    BY <1>7, <2>1 DEF Linked
  <2>4. ASSUME NEW d \in Conns, net'[d] = "open"
        PROVE  \E fd \in Fds : sock'[fd] = d
    <3>1. CASE d = c
      BY <1>1, <1>7, <3>1
    <3>2. CASE d # c
      <4>1. net[d] = "open"
        BY <1>3, <2>4, <3>2 DEF TypeOK
      <4>2. PICK fd \in Fds : sock[fd] = d
        BY <4>1 DEF Linked
      <4>3. fd \in Fds \ FreeFds
        BY <4>2, SizeAssumption DEF FreeFds
      <4> QED
        BY <1>7, <4>2, <4>3
    <3> QED
      BY <3>1, <3>2
  <2> QED
    BY <2>2, <2>3, <2>4 DEF Linked
<1>9. /\ connections'[slot] = new
      /\ \A s \in Slots \ FreeSlots :
           s # slot /\ connections'[s] = connections[s]
  BY <1>2, <1>3, <1>6 DEF TypeOK
<1>10. OneSlotEach'
  <2>1. Slots \ FreeSlots' = (Slots \ FreeSlots) \cup {slot}
    BY <1>2, <1>6
  <2>2. Fds \ FreeFds' = (Fds \ FreeFds) \cup {new}
    BY <1>1, <1>6
  <2>3. \A fd \in Fds \ FreeFds : \E s \in Slots \ FreeSlots : connections[s] = fd
    BY FdFacts DEF OneSlotEach, FreeSlots
  <2>4. \A fd \in Fds \ FreeFds' : \E s \in Slots : connections'[s] = fd
    BY <1>2, <1>9, <2>2, <2>3
  <2>5. \A s \in Slots \ FreeSlots' : connections'[s] \in Fds \ FreeFds'
    BY <1>9, <2>1, <2>2 DEF OneSlotEach
  <2>6. \A s, t \in Slots \ FreeSlots' :
          connections'[s] = connections'[t] => s = t
    BY <1>6, <1>9, <2>1 DEF OneSlotEach
  <2> QED
    BY <2>4, <2>5, <2>6 DEF OneSlotEach
<1>11. SetIsExact'
  <2>1. /\ master_set = {ListenFd} \cup (Fds \ FreeFds)
        /\ max_fd \in master_set /\ \A fd \in master_set : fd <= max_fd
    BY <1>3 DEF SetIsExact
  <2>2. master_set' = {ListenFd} \cup (Fds \ FreeFds') /\ pc' = "scan"
    BY <1>1, <1>3, <1>6, <2>1
  <2>3. max_fd' \in master_set'
    BY <1>3, <1>4, <2>1
  <2>4. ASSUME NEW fd \in master_set' PROVE fd <= max_fd'
    <3>1. fd \in Nat /\ max_fd \in Nat /\ max_fd' \in Nat
      BY <1>5, FdFacts DEF TypeOK
    <3>2. fd = new \/ fd <= max_fd
      BY <1>3, <2>1
    <3> QED
      BY <1>4, <3>1, <3>2
  <2> QED
    BY <2>2, <2>3, <2>4 DEF SetIsExact
<1>12. CountIsExact'
  <2>1. Served' = Served \cup {c} /\ c \notin Served
    BY <1>3 DEF Served, TypeOK
  <2>2. Cardinality(Served') = Cardinality(Served) + 1
    BY <2>1, ServedIsFinite, FS_AddElement
  <2> QED
    BY <1>3, <2>2 DEF CountIsExact, Served
<1>13. ReadSetIsFresh'
  <2> SUFFICES ASSUME NEW fd \in read_set' \cap Fds
               PROVE  /\ \E s \in Slots : connections'[s] = fd
                      /\ sock'[fd] # None /\ inbox[sock'[fd]] # "empty"
    BY <1>3 DEF ReadSetIsFresh
  <2>1. fd \in read_set /\ fd \in Fds \ FreeFds
    BY <1>3 DEF ReadSetIsFresh, FreeFds
  <2>2. PICK s \in Slots : connections[s] = fd
    BY <2>1 DEF ReadSetIsFresh
  <2>3. s \in Slots \ FreeSlots
    BY <2>1, <2>2, FdFacts DEF FreeSlots
  <2> QED
    BY <1>7, <1>9, <2>1, <2>2, <2>3 DEF ReadSetIsFresh
<1>14. Turn' /\ Opening'
  <2>1. current' = Free /\ current = Free /\ pc' = "scan"
    BY <1>3 DEF Turn
  <2>2. current' \notin read_set'
    BY <2>1, <1>5, FdFacts DEF TypeOK
  <2> QED
    BY <2>1, <2>2 DEF Turn, Opening
<1>15. RequestsLeft'
  <2>1. request_count'[slot] = 0 /\ 0 < MaxRequests
    BY <1>2, <1>3, SlotFacts DEF TypeOK
  <2> QED
    BY <1>3, <1>6, <2>1 DEF RequestsLeft, TypeOK
<1> QED
  BY <1>5, <1>8, <1>10, <1>11, <1>12, <1>13, <1>14, <1>15

(* After an answer the connection is kept or closed.                       *)
LEMMA SentKeeps == IInv /\ Sent => IInv'
<1> SUFFICES ASSUME IInv, Sent PROVE IInv'
  OBVIOUS
<1> USE DEF IInv
<1> DEFINE s == SlotOf(current)
           count == request_count[s] + 1
<1>1. current \in Fds \ FreeFds /\ pc = "sent"
  BY DEF Sent, Turn
<1>2. s \in Slots /\ connections[s] = current
  <2>1. \E t \in Slots : connections[t] = current
    BY <1>1 DEF OneSlotEach
  <2> QED
    BY <2>1 DEF SlotOf
<1>3. /\ request_count' = [request_count EXCEPT ![s] = count]
      /\ \/ count < MaxRequests /\ UNCHANGED <<sockets, tables>>
         \/ count >= MaxRequests /\ Drop({current})
      /\ pc' = "scan" /\ current' = Free
      /\ UNCHANGED <<read_set, clients_served, g_shutdown>>
  BY DEF Sent
<1> HIDE DEF s
<1>4. request_count[s] \in Nat /\ request_count[s] < MaxRequests
  <2>1. request_count[s] \in 0 .. MaxRequests
    BY <1>2 DEF TypeOK
  <2>2. s \in Slots \ FreeSlots
    BY <1>1, <1>2, FdFacts DEF FreeSlots
  <2> QED
    BY <2>1, <2>2, SlotFacts DEF RequestsLeft
<1>5. count \in 0 .. MaxRequests
  BY <1>4, SlotFacts
<1>6. request_count' \in [Slots -> 0 .. MaxRequests]
  <2>1. request_count \in [Slots -> 0 .. MaxRequests]
    BY DEF TypeOK
  <2> QED
    BY <1>3, <1>5, <2>1
<1>7. \A t \in Slots : t # s => request_count'[t] = request_count[t]
  BY <1>3 DEF TypeOK
<1>8. CASE count < MaxRequests /\ UNCHANGED <<sockets, tables>>
  <2>1. /\ FreeFds' = FreeFds /\ FreeSlots' = FreeSlots /\ Served' = Served
        /\ net' = net /\ sock' = sock /\ inbox' = inbox
        /\ connections' = connections
    BY <1>8 DEF sockets, tables, FreeFds, FreeSlots, Served
  <2>2. TypeOK'
    BY <1>3, <1>6, <1>8 DEF TypeOK, sockets, tables
  <2>3. Linked' /\ OneSlotEach'
    BY <2>1 DEF Linked, OneSlotEach
  <2>4. SetIsExact' /\ Opening'
    BY <1>1, <1>3, <1>8, <2>1 DEF SetIsExact, Opening, tables
  <2>5. CountIsExact'
    BY <1>3, <2>1, SameServed
  <2>6. ReadSetIsFresh'
    BY <1>3, <2>1 DEF ReadSetIsFresh
  <2>7. Turn'
    <3>1. current' \notin read_set'
      BY <1>3, FdFacts DEF TypeOK
    <3> QED
      BY <1>3, <3>1 DEF Turn
  <2>8. RequestsLeft'
    <3>1. request_count'[s] = count
      BY <1>2, <1>3 DEF TypeOK
    <3> QED
      BY <1>7, <1>8, <2>1, <3>1 DEF RequestsLeft
  <2> QED
    BY <2>2, <2>3, <2>4, <2>5, <2>6, <2>7, <2>8
<1>9. CASE Drop({current})
  <2>1. \A t \in Slots \ FreeSlots :
          connections[t] \notin {current} => request_count'[t] < MaxRequests
    BY <1>2, <1>7 DEF RequestsLeft
  <2>2. read_set' \subseteq read_set \ {current} /\ g_shutdown' \in BOOLEAN
    BY <1>3 DEF Turn, TypeOK
  <2> QED
    BY <1>1, <1>3, <1>6, <1>9, <2>1, <2>2, DropKeeps
<1> QED
  BY <1>3, <1>8, <1>9

(* The other steps that close descriptors.                                 *)
LEMMA ClosingKeeps ==
  ASSUME IInv, pc \notin {"start", "failed", "exit"},
         NEW S \in SUBSET (Fds \ FreeFds), Drop(S),
         pc' \in {"scan", "select", "closing"},
         current' = Free,
         read_set' \subseteq read_set \ S, read_set' # {} => pc' = "scan",
         UNCHANGED <<request_count, clients_served, g_shutdown>>
  PROVE  IInv'
<1>1. /\ request_count' \in [Slots -> 0 .. MaxRequests]
      /\ g_shutdown' \in BOOLEAN
  BY DEF IInv, TypeOK
<1>2. \A s \in Slots \ FreeSlots :
        connections[s] \notin S => request_count'[s] < MaxRequests
  BY DEF IInv, RequestsLeft
<1> QED
  BY <1>1, <1>2, DropKeeps

LEMMA StepOK == IInv /\ [Next]_vars => IInv'
<1> SUFFICES ASSUME IInv, [Next]_vars PROVE IInv'
  OBVIOUS
<1> USE DEF IInv
<1>1. ASSUME NEW c \in Conns, ClientActs(c) PROVE IInv'
  <2>1. CASE Connect(c)
    BY <2>1, ClientKeeps DEF Connect, TypeOK, tables
  <2>2. ASSUME NEW what \in {"data", "fin", "rst"}, Arrives(c, what)
        PROVE  IInv'
    BY <2>2, ClientKeeps DEF Arrives, TypeOK, tables
  <2>3. CASE QuietLong(c)
    BY <2>3, ClientKeeps DEF QuietLong, TypeOK, tables
  <2> QED
    BY <1>1, <2>1, <2>2, <2>3 DEF ClientActs, ClientSends, ClientResets
<1>2. CASE ClientReads
  <2>1. Turn'
    <3>1. /\ pc = "send" /\ pc' = "sent" /\ FreeFds' = FreeFds
          /\ read_set' = read_set /\ current' = current
      BY <1>2 DEF ClientReads, sockets, FreeFds
    <3> QED
      BY <3>1 DEF Turn
  <2> QED
    BY <1>2, <2>1, ControlKeeps DEF ClientReads, TypeOK, ReadSetIsFresh
<1>3. CASE Signal
  <2>1. read_set # {} => pc # "select"
    BY DEF Turn
  <2>2. Turn'
    <3>1. FreeFds' = FreeFds /\ read_set' = read_set /\ current' = current
      BY <1>3 DEF Signal, sockets, FreeFds
    <3>2. \/ pc' = pc
          \/ pc = "select" /\ pc' = "closing"
          \/ pc = "send" /\ pc' \in {"send failed", "sent"}
      BY <1>3 DEF Signal
    <3> QED
      BY <2>1, <3>1, <3>2 DEF Turn
  <2>3. CASE pc = "start"
    <3>1. /\ FreeFds' = FreeFds /\ FreeSlots' = FreeSlots /\ Served' = Served
          /\ UNCHANGED <<net, inbox, quiet, sock, connections, request_count,
                         master_set, max_fd, read_set, current,
                         clients_served, pc>>
          /\ g_shutdown' = TRUE
      BY <1>3, <2>3
         DEF Signal, sockets, tables, FreeFds, FreeSlots, Served
    <3>2. TypeOK' /\ Linked' /\ OneSlotEach'
      BY <3>1 DEF TypeOK, Linked, OneSlotEach
    <3>3. SetIsExact' /\ ReadSetIsFresh' /\ Opening' /\ RequestsLeft'
      BY <3>1 DEF SetIsExact, ReadSetIsFresh, Opening, RequestsLeft
    <3>4. CountIsExact'
      BY <3>1, SameServed
    <3> QED
      BY <2>2, <3>2, <3>3, <3>4
  <2>4. CASE pc # "start"
    <3>1. /\ UNCHANGED <<sockets, tables, request_count, clients_served>>
          /\ read_set' = read_set /\ current' = current /\ g_shutdown' = TRUE
          /\ pc \notin {"failed", "exit"}
          /\ pc' \in {"select", "scan", "send", "sent", "send failed",
                      "closing"}
      BY <1>3, <2>4 DEF Signal, TypeOK
    <3> QED
      BY <2>2, <2>4, <3>1, ControlKeeps DEF TypeOK, ReadSetIsFresh
  <2> QED
    BY <2>3, <2>4
<1>4. CASE SelectFails
  <2>1. Turn'
    BY <1>4 DEF SelectFails, Turn
  <2> QED
    BY <1>4, <2>1, ControlKeeps DEF SelectFails, TypeOK, ReadSetIsFresh
<1>5. CASE Start
  BY <1>5, StartKeeps
<1>6. CASE Select
  <2>1. \A fd \in Reported \cap Fds :
          sock[fd] # None /\ inbox[sock[fd]] # "empty"
    BY FdFacts DEF Reported, Ready
  <2>2. Reported \subseteq Fds \cup {ListenFd}
    BY DEF Reported, Ready
  <2>3. current = Free /\ Free \notin Reported
    BY <1>6, <2>2, FdFacts DEF Select, Turn
  <2>4. Turn'
    BY <1>6, <2>3 DEF Select, Turn
  <2> QED
    BY <1>6, <2>1, <2>2, <2>4, ControlKeeps DEF Select, TypeOK
<1>7. CASE SelectTimesOut
  <2> DEFINE S == {connections[s] : s \in {s \in Slots \ FreeSlots :
                                     quiet[sock[connections[s]]]}}
  <2>1. S \in SUBSET (Fds \ FreeFds)
    BY DEF OneSlotEach
  <2>2. current = Free /\ read_set = {}
    BY <1>7 DEF SelectTimesOut, Turn
  <2>3. Drop(S)
    BY <1>7 DEF SelectTimesOut
  <2> HIDE DEF S
  <2> QED
    BY <1>7, <2>1, <2>2, <2>3, ClosingKeeps DEF SelectTimesOut, Loop
<1>8. CASE ScanOver
  <2>1. Turn'
    BY <1>8 DEF ScanOver, Loop, Turn
  <2> QED
    BY <1>8, <2>1, ControlKeeps DEF ScanOver, Loop, TypeOK
<1>9. CASE AcceptFails
  <2>1. Turn'
    BY <1>9 DEF AcceptFails, Reach, Turn
  <2>2. pc' = "scan" /\ read_set' \subseteq read_set
    BY <1>9 DEF AcceptFails, Reach
  <2> QED
    BY <1>9, <2>1, <2>2, ControlKeeps
       DEF AcceptFails, Reach, TypeOK, ReadSetIsFresh
<1>10. CASE Sent
  BY <1>10, SentKeeps
<1>11. CASE SendFails
  <2>1. /\ current \in Fds \ FreeFds /\ current \notin read_set
        /\ pc \notin {"start", "failed", "exit"}
    BY <1>11 DEF SendFails, Turn
  <2> QED
    BY <1>11, <2>1, ClosingKeeps DEF SendFails
<1>12. CASE CloseAll
  <2> DEFINE S == {connections[s] : s \in Slots \ FreeSlots}
  <2>1. S = Fds \ FreeFds
    <3>1. S \subseteq Fds \ FreeFds
      BY DEF OneSlotEach
    <3>2. ASSUME NEW fd \in Fds \ FreeFds PROVE fd \in S
      <4>1. PICK s \in Slots : connections[s] = fd
        BY DEF OneSlotEach
      <4>2. s \in Slots \ FreeSlots
        BY <4>1, FdFacts DEF FreeSlots
      <4> QED
        BY <4>1, <4>2
    <3> QED
      BY <3>1, <3>2
  <2>2. current = Free /\ read_set = {} /\ pc = "closing"
    BY <1>12 DEF CloseAll, Turn
  <2>3. /\ Shut(S) /\ master_set' = master_set \ (S \cup {ListenFd})
        /\ max_fd' = max_fd /\ pc' = "exit"
        /\ UNCHANGED <<request_count, read_set, current, clients_served,
                       g_shutdown>>
    BY <1>12 DEF CloseAll
  <2>4. \A s \in Slots : s \in FreeSlots \/ connections[s] \in S
    OBVIOUS
  <2> HIDE DEF S
  <2>5. FreeFds \subseteq Fds /\ FreeSlots \subseteq Slots
    BY DEF FreeFds, FreeSlots
  <2>6. FreeFds' = Fds /\ FreeSlots' = Slots
    BY <2>1, <2>3, <2>4, <2>5, ShutFrees
  <2>7. master_set' = {}
    BY <2>1, <2>2, <2>3 DEF SetIsExact
  <2>8. SetIsExact'
    BY <2>3, <2>6, <2>7 DEF SetIsExact
  <2>9. /\ max_fd' \in Fds \cup {ListenFd} /\ g_shutdown' \in BOOLEAN
        /\ request_count' \in [Slots -> 0 .. MaxRequests]
    BY <2>3 DEF TypeOK
  <2>10. \A s \in Slots \ FreeSlots :
           connections[s] \notin S => request_count'[s] < MaxRequests
    BY <2>4
  <2> QED
    BY <2>1, <2>2, <2>3, <2>7, <2>8, <2>9, <2>10, ShutKeeps
<1>13. ASSUME NEW c \in Conns, Reject(c) \/ Accept(c) PROVE IInv'
  BY <1>13, RejectKeeps, AcceptKeeps
<1>14. ASSUME NEW fd \in Fds, Disconnect(fd) \/ Refuse(fd) PROVE IInv'
  <2>1. /\ Drop({fd}) /\ pc = "scan" /\ pc' = pc /\ current' = current
        /\ fd \in read_set /\ read_set' = read_set \ {fd}
        /\ UNCHANGED <<request_count, clients_served, g_shutdown>>
    BY <1>14 DEF Disconnect, Refuse, Reach
  <2>2. fd \in Fds \ FreeFds /\ current = Free
    BY <2>1 DEF ReadSetIsFresh, FreeFds, Turn
  <2> QED
    BY <2>1, <2>2, ClosingKeeps
<1>15. ASSUME NEW fd \in Fds, Process(fd) PROVE IInv'
  BY <1>15, ProcessKeeps
<1>16. CASE UNCHANGED vars
  <2>1. /\ FreeFds' = FreeFds /\ FreeSlots' = FreeSlots /\ Served' = Served
        /\ UNCHANGED <<net, inbox, quiet, sock, connections, request_count,
                       master_set, max_fd, read_set, current,
                       clients_served, pc, g_shutdown>>
    BY <1>16 DEF vars, sockets, tables, FreeFds, FreeSlots, Served
  <2>2. TypeOK' /\ Linked' /\ OneSlotEach'
    BY <2>1 DEF TypeOK, Linked, OneSlotEach
  <2>3. SetIsExact' /\ ReadSetIsFresh' /\ Turn' /\ Opening' /\ RequestsLeft'
    BY <2>1 DEF SetIsExact, ReadSetIsFresh, Turn, Opening, RequestsLeft
  <2>4. CountIsExact'
    BY <2>1, SameServed
  <2> QED
    BY <2>2, <2>3, <2>4
<1> QED
  BY <1>1, <1>2, <1>3, <1>4, <1>5, <1>6, <1>7, <1>8, <1>9, <1>10, <1>11,
     <1>12, <1>13, <1>14, <1>15, <1>16 DEF Next, Runs, Over

-----------------------------------------------------------------------------
(* The state of select_server_run has the types its declarations give it,  *)
(* after any number of connections.                                        *)
THEOREM TypeCorrect == Spec => []TypeOK
<1>1. IInv => TypeOK
  BY DEF IInv
<1> QED
  BY <1>1, InitOK, StepOK, PTL DEF Spec

(* The table of connections, the fd_set, its largest descriptor and the    *)
(* count of the served agree after every step, whichever of the six paths  *)
(* closed a connection.                                                    *)
THEOREM TablesAgree == Spec => []SetsAgree
<1>1. IInv => SetsAgree
  BY OneDescriptorFollows DEF IInv, SetsAgree
<1> QED
  BY <1>1, InitOK, StepOK, PTL DEF Spec

(* No descriptor is read that was closed, or reused, since select reported *)
(* it: recv never waits.                                                   *)
THEOREM ScanIsFresh == Spec => []ReadSetIsFresh
<1>1. IInv => ReadSetIsFresh
  BY DEF IInv
<1> QED
  BY <1>1, InitOK, StepOK, PTL DEF Spec
=============================================================================
