-------------------------- MODULE UserStoreProofs ---------------------------
(***************************************************************************)
(* Theorems about UserStore, for any number of processes and any pool,     *)
(* and, from "The tree of the index" on, about UserIndex, for any number   *)
(* of users and one process.                                               *)
(***************************************************************************)
EXTENDS UserStore, UserIndex, FiniteSetTheorems, WellFoundedInduction, TLAPS

(* The slots that were ever handed out.                                    *)
Given == 1 .. list_next_free - 1

Section == {"adding", "indexing", "deleting", "unlinked", "unindexing"}

(* Who is in a critical section has the mutex.                             *)
LockInv == \A p \in Procs : pc[p] \in Section => lock = p

(* Links lead to older nodes, and never over a node that is in the list.   *)
ListInv ==
  /\ linked \subseteq Given
  /\ \A s \in Given : next[s] \in Given \cup {End} /\ next[s] < s
  /\ \A s \in Given, t \in linked : t < s => t <= next[s]
  /\ \A s \in linked : next[s] \in linked \cup {End} /\ used[s]
  /\ next[head] \in linked \cup {End}
  /\ \A t \in linked : t <= next[head]
  /\ NamesUnique
  /\ \A p \in Procs : pc[p] = "unlinked" => cur[p] \in Given \ linked

(* By how much the count is late.                                          *)
Owed == IF lock = None THEN 0
        ELSE IF pc[lock] = "indexing" THEN 1
        ELSE IF pc[lock] \in {"unlinked", "unindexing"} THEN -1
        ELSE 0

SizeInv ==
  lock = None \/ pc[lock] # "crashed" =>
    size + Owed = Cardinality(linked) + HeaderLines

(* A set of nodes that the reader cannot leave.                            *)
Confined(p, V) ==
  /\ cur[p] \in V \cup {End}
  /\ \A v \in V : next[v] \in V \cup {End}
  /\ \A v \in V : name[v] = arg[p] => present[p]

(* A reader has everything of its name ahead of it that is in the list,    *)
(* and nothing ahead that was never in the list during the call.           *)
Reader(p) ==
  /\ pc[p] = "walk" =>
       /\ absent[p] \/ \E t \in linked : t <= cur[p] /\ name[t] = arg[p]
       /\ \E V \in SUBSET Given : Confined(p, V)
  /\ pc[p] = "found" => cur[p] \in Given /\ name[cur[p]] = arg[p] /\ present[p]
  /\ pc[p] = "missed" => absent[p]

ReadInv == \A p \in Procs : Reader(p)

IInv == TypeOK /\ LockInv /\ ListInv /\ SizeInv /\ ReadInv

-----------------------------------------------------------------------------
(* The nodes, the linked ones among them, and their number.                *)

LEMMA NodeFacts ==
  ASSUME TypeOK
  PROVE  /\ Given \subseteq Nodes
         /\ Nodes \subseteq Int /\ head \notin Nodes /\ End \notin Nodes
         /\ Nodes \subseteq Slots /\ head \in Slots
         /\ PoolNodes \in Nat /\ list_next_free \in Int
         /\ list_next_free \notin Given
         /\ \A s \in Given : s < list_next_free
BY PoolAssumption DEF TypeOK, Given, Nodes, Slots, head, End

LEMMA LinkedIsFinite ==
  ASSUME NEW S \in SUBSET Nodes
  PROVE  IsFiniteSet(S) /\ Cardinality(S) \in Nat /\ Cardinality(S) <= PoolNodes - 1
<1>1. IsFiniteSet(Nodes) /\ Cardinality(Nodes) = PoolNodes - 1
  BY FS_Interval, PoolAssumption DEF Nodes
<1>2. IsFiniteSet(S) /\ Cardinality(S) <= Cardinality(Nodes)
  BY <1>1, FS_Subset
<1>3. Cardinality(S) \in Nat
  BY <1>2, FS_CardinalityType
<1> QED BY <1>1, <1>2, <1>3

-----------------------------------------------------------------------------
(* Which steps write what.                                                 *)

(* Only three actions write the nodes.                                     *)
LEMMA WhoWritesNodes ==
  ASSUME [Next]_vars
  PROVE  \/ UNCHANGED <<next, name, used, list_next_free, linked>>
         \/ \E p \in Procs : Publish(p) \/ Unlink(p) \/ MarkUnused(p)
BY DEF Next, vars, list, Runs, Acquire, Look, Return, Exists, PoolFull, Added,
       NotThere, Deleted, Unlock, Crash, Over, Call, CallFind, CallAdd, CallDelete

LEMMA InitIInv == Init => IInv
<1> SUFFICES ASSUME Init PROVE IInv
  OBVIOUS
<1> USE PoolAssumption, NoneAssumption
<1>1. TypeOK
  BY DEF Init, TypeOK, Slots, Nodes, head, End, Older, SizeLoaded
<1>2. LockInv
  BY DEF Init, LockInv, Section
<1>3. ListInv
  <2>1. /\ Given = 1 .. NumLoaded /\ linked = Given
        /\ next[head] = IF NumLoaded = 0 THEN End ELSE NumLoaded
        /\ \A t \in Given : next[t] = (IF t = 1 THEN End ELSE t - 1) /\ used[t]
        /\ \A t \in Given : t \in Slots /\ name[t] = Loaded[t]
    <3>1. Given = 1 .. NumLoaded /\ linked = Given
      BY DEF Init, Given
    <3>2. head \in Slots /\ \A t \in Given : t \in Slots /\ t # head /\ t <= NumLoaded
      BY <3>1 DEF Slots, head
    <3>3. next[head] = IF NumLoaded = 0 THEN End ELSE NumLoaded
      BY <3>2 DEF Init, Older
    <3>4. \A t \in Given : next[t] = IF t = 1 THEN End ELSE t - 1
      BY <3>2 DEF Init, Older
    <3>5. \A t \in Given : used[t] /\ name[t] = Loaded[t]
      BY <3>1, <3>2 DEF Init
    <3> QED BY <3>1, <3>2, <3>3, <3>4, <3>5
  <2>2. \A s \in Given : next[s] \in Given \cup {End} /\ next[s] < s
    BY <2>1 DEF End
  <2>3. \A s \in Given, t \in linked : t < s => t <= next[s]
    BY <2>1
  <2>4. next[head] \in linked \cup {End} /\ \A t \in linked : t <= next[head]
    BY <2>1
  <2>5. NamesUnique
    BY <2>1 DEF NamesUnique
  <2>6. \A p \in Procs : pc[p] # "unlinked"
    BY DEF Init
  <2> QED BY <2>1, <2>2, <2>3, <2>4, <2>5, <2>6 DEF ListInv
<1>4. SizeInv
  <2>1. Cardinality(1 .. NumLoaded) = NumLoaded
    BY FS_Interval
  <2> QED BY <2>1 DEF Init, SizeLoaded, SizeInv, Owed
<1>5. ReadInv
  BY DEF Init, ReadInv, Reader
<1> QED BY <1>1, <1>2, <1>3, <1>4, <1>5 DEF IInv

-----------------------------------------------------------------------------
(* The mutex.                                                              *)

(* Alone p is in a critical section, if it is.                             *)
LEMMA AloneInside ==
  ASSUME LockInv, NEW p \in Procs, pc[p] \in Section
  PROVE  lock = p /\ \A q \in Procs : q # p => pc[q] \notin Section
BY DEF LockInv

LEMMA LockStep ==
  ASSUME TypeOK, LockInv, [Next]_vars
  PROVE  LockInv'
<1> USE DEF Section
<1>1. CASE UNCHANGED vars
  BY <1>1 DEF LockInv, vars, calls
<1>2. ASSUME NEW p \in Procs, Acquire(p)
      PROVE  LockInv'
  BY <1>2, NoneAssumption DEF TypeOK, LockInv, Acquire, Goto
<1>3. ASSUME NEW p \in Procs, Exists(p) \/ PoolFull(p) \/ Added(p) \/ NotThere(p)
                                \/ Deleted(p)
      PROVE  LockInv'
  <2>1. pc[p] \in Section /\ pc' = [pc EXCEPT ![p] = "idle"]
    BY <1>3 DEF Exists, PoolFull, Added, NotThere, Deleted, Unlock, Leave, Goto
  <2>2. \A q \in Procs : q # p => pc[q] \notin Section
    BY <2>1, AloneInside
  <2> QED BY <2>1, <2>2 DEF TypeOK, LockInv
<1>4. ASSUME NEW p \in Procs, Publish(p) \/ Unlink(p) \/ MarkUnused(p)
      PROVE  LockInv'
  BY <1>4 DEF TypeOK, LockInv, Publish, Unlink, MarkUnused, Goto
<1>5. ASSUME NEW p \in Procs, Look(p) \/ Return(p) \/ Crash(p)
      PROVE  LockInv'
  BY <1>5 DEF TypeOK, LockInv, Look, Return, Crash, Leave, Goto
<1>6. ASSUME NEW p \in Procs, NEW n \in Names,
             CallFind(p, n) \/ CallAdd(p, n) \/ CallDelete(p, n)
      PROVE  LockInv'
  BY <1>6 DEF TypeOK, LockInv, CallFind, CallAdd, CallDelete, Call, Goto
<1> QED
  BY <1>1, <1>2, <1>3, <1>4, <1>5, <1>6 DEF Next, Runs, Over

-----------------------------------------------------------------------------
(* The list.                                                               *)

LEMMA PublishKeepsList ==
  ASSUME TypeOK, LockInv, ListInv, NEW p \in Procs, Publish(p)
  PROVE  ListInv'
<1> DEFINE node == list_next_free
<1>1. /\ node \in Nodes /\ node \notin Given /\ node \in Slots
      /\ node \in Int /\ Given' = Given \cup {node}
      /\ \A s \in Given : s \in Slots /\ s \in Int /\ s < node
  BY NodeFacts, PoolAssumption
     DEF TypeOK, Publish, Exhausted, Given, Nodes, Slots
<1>2. /\ head \in Slots /\ head # node /\ End \notin Nodes
      /\ \A s \in Given : s # head
  BY <1>1, NodeFacts
<1>3. /\ next'[node] = next[head] /\ next'[head] = node
      /\ \A s \in Given : next'[s] = next[s]
      /\ \A s \in Given : used'[s] = used[s] /\ name'[s] = name[s]
      /\ used'[node] = TRUE /\ name'[node] = arg[p]
      /\ linked' = linked \cup {node}
  BY <1>1, <1>2 DEF TypeOK, Publish
<1>4. linked \subseteq Given
  BY DEF ListInv
<1>5. \A s \in linked : name[s] # arg[p]
  BY DEF ListInv, Publish, Taken, Matches
<1>6. linked' \subseteq Given'
  BY <1>1, <1>3, <1>4
<1>7. \A s \in Given' : next'[s] \in Given' \cup {End} /\ next'[s] < s
  <2>1. next[head] \in Given \cup {End}
    BY <1>4 DEF ListInv
  <2>2. next[head] < node
    BY <1>1, <2>1, PoolAssumption DEF End, TypeOK
  <2>3. \A s \in Given : next[s] \in Given \cup {End} /\ next[s] < s
    BY DEF ListInv
  <2> QED BY <1>1, <1>3, <2>1, <2>2, <2>3
<1>8. \A s \in Given', t \in linked' : t < s => t <= next'[s]
  <2>1. \A s \in Given, t \in linked : t < s => t <= next[s]
    BY DEF ListInv
  <2>2. \A t \in linked : t <= next[head]
    BY DEF ListInv
  <2>3. \A s \in Given : ~(node < s)
    BY <1>1
  <2>4. ~(node < node)
    BY <1>1
  <2> QED BY <1>1, <1>3, <2>1, <2>2, <2>3, <2>4
<1>9. \A s \in linked' : next'[s] \in linked' \cup {End} /\ used'[s]
  <2>1. \A s \in linked : next[s] \in linked \cup {End} /\ used[s]
    BY DEF ListInv
  <2>2. next[head] \in linked \cup {End}
    BY DEF ListInv
  <2> QED BY <1>3, <1>4, <2>1, <2>2
<1>10. next'[head] \in linked' \cup {End} /\ \A t \in linked' : t <= next'[head]
  <2>1. \A t \in linked : t <= node
    BY <1>1, <1>4
  <2>2. node <= node
    BY <1>1
  <2> QED BY <1>3, <2>1, <2>2
<1>11. NamesUnique'
  BY <1>3, <1>4, <1>5, <1>1 DEF NamesUnique, ListInv
<1>12. \A q \in Procs : pc'[q] = "unlinked" => cur'[q] \in Given' \ linked'
  <2>1. \A q \in Procs : pc'[q] = "unlinked" => pc[q] = "unlinked"
    BY DEF TypeOK, Publish, Goto
  <2>2. cur' = cur
    BY DEF Publish
  <2>3. \A q \in Procs : pc[q] = "unlinked" => cur[q] \in Given \ linked
    BY DEF ListInv
  <2> QED BY <1>1, <1>3, <2>1, <2>2, <2>3
<1> QED BY <1>6, <1>7, <1>8, <1>9, <1>10, <1>11, <1>12 DEF ListInv

(* What an unlinking does to the links.                                    *)
LEMMA UnlinkFacts ==
  ASSUME TypeOK, ListInv, NEW p \in Procs, Unlink(p)
  PROVE  \E s \in linked :
           /\ name[s] = arg[p] /\ used[s]
           /\ linked' = linked \ {s} /\ cur' = [cur EXCEPT ![p] = s]
           /\ \A r \in Given \cup {head} :
                next'[r] = IF next[r] = s /\ r \in linked \cup {head}
                           THEN next[s] ELSE next[r]
<1>1. PICK s \in linked : /\ Matches(s, arg[p])
                          /\ next' = Around(s)
                          /\ linked' = linked \ {s}
                          /\ cur' = [cur EXCEPT ![p] = s]
  BY DEF Unlink
<1>2. Given \cup {head} \subseteq Slots
  BY NodeFacts
<1> QED BY <1>1, <1>2 DEF Around, Matches

LEMMA UnlinkKeepsList ==
  ASSUME TypeOK, LockInv, ListInv, NEW p \in Procs, Unlink(p)
  PROVE  ListInv'
<1>1. PICK s \in linked :
           /\ linked' = linked \ {s} /\ cur' = [cur EXCEPT ![p] = s]
           /\ \A r \in Given \cup {head} :
                next'[r] = IF next[r] = s /\ r \in linked \cup {head}
                           THEN next[s] ELSE next[r]
  BY UnlinkFacts
<1>2. Given' = Given /\ used' = used /\ name' = name
  BY DEF Unlink, Given
<1>3. /\ linked \subseteq Given /\ s \in Given /\ Given \subseteq Int
      /\ next[s] \in linked \cup {End} /\ next[s] < s /\ End \notin Nodes
      /\ Given \subseteq Nodes
  BY NodeFacts DEF ListInv
<1>4. \A r \in Given \cup {head} :
        next[r] \in Given \cup {End} /\ next'[r] \in Given \cup {End}
  BY <1>1, <1>3 DEF ListInv
<1>5. \A r \in Given : next'[r] < r
  <2>1. \A r \in Given : next[r] < r
    BY DEF ListInv
  <2>2. \A r \in Given : next[r] = s => next[s] < r
    <3>0. End \in Int /\ \A t \in linked : t \in Int
      <4>1. End \in Int
        BY DEF End
      <4> QED BY <4>1, <1>3
    <3>1. s \in Int /\ next[s] \in Int
      BY <3>0, <1>3
    <3>2. \A r \in Given : r \in Int
      BY <1>3
    <3>3. next[s] < s
      BY <1>3
    <3>4. \A r \in Given : next[r] = s => s < r
      BY <2>1
    <3> QED BY <3>1, <3>2, <3>3, <3>4
  <2> QED BY <1>1, <2>1, <2>2
<1>6. \A r \in Given, t \in linked' : t < r => t <= next'[r]
  <2>1. \A r \in Given, t \in linked : t < r => t <= next[r]
    BY DEF ListInv
  <2>2. \A t \in linked' : t \in linked /\ t # s /\ t \in Int
    BY <1>1, <1>3
  <2>3. \A t \in linked' : t <= s => t <= next[s]
    BY <2>1, <2>2, <1>3
  <2> QED BY <1>1, <2>1, <2>2, <2>3
<1>7. \A r \in linked' : next'[r] \in linked' \cup {End} /\ used'[r]
  <2>1. \A r \in linked : next[r] \in linked \cup {End} /\ used[r]
    BY DEF ListInv
  <2>2. next[s] # s
    BY <1>3
  <2> QED BY <1>1, <1>2, <1>3, <2>1, <2>2
<1>8. next'[head] \in linked' \cup {End} /\ \A t \in linked' : t <= next'[head]
  <2>1. next[head] \in linked \cup {End} /\ \A t \in linked : t <= next[head]
    BY DEF ListInv
  <2>2. next[s] # s
    BY <1>3
  <2>3. next'[head] \in linked' \cup {End}
    BY <1>1, <1>3, <2>1, <2>2
  <2>4. \A t \in linked' : t \in linked /\ t # s /\ t \in Int /\ t \in Given
    BY <1>1, <1>3
  <2>5. \A t \in linked' : t <= s => t <= next[s]
    BY <2>4, <1>3 DEF ListInv
  <2> QED BY <1>1, <2>1, <2>3, <2>4, <2>5
<1>9. NamesUnique'
  BY <1>1, <1>2 DEF NamesUnique, ListInv
<1>10. \A q \in Procs : pc'[q] = "unlinked" => cur'[q] \in Given \ linked'
  <2>1. \A q \in Procs : q # p => pc'[q] = pc[q] /\ cur'[q] = cur[q]
    BY <1>1 DEF TypeOK, Unlink, Goto
  <2>2. cur'[p] = s
    BY <1>1 DEF TypeOK
  <2>3. \A q \in Procs : pc[q] = "unlinked" => cur[q] \in Given \ linked
    BY DEF ListInv
  <2> QED BY <1>1, <1>3, <2>1, <2>2, <2>3
<1> QED BY <1>1, <1>2, <1>3, <1>4, <1>5, <1>6, <1>7, <1>8, <1>9, <1>10 DEF ListInv

LEMMA MarkUnusedKeepsList ==
  ASSUME TypeOK, LockInv, ListInv, NEW p \in Procs, MarkUnused(p)
  PROVE  ListInv'
<1>1. /\ next' = next /\ name' = name /\ linked' = linked /\ cur' = cur
      /\ list_next_free' = list_next_free
      /\ used' = [used EXCEPT ![cur[p]] = FALSE]
  BY DEF MarkUnused
<1>2. cur[p] \in Given \ linked
  BY DEF ListInv, MarkUnused
<1>3. \A s \in linked : used'[s]
  BY <1>1, <1>2, NodeFacts DEF ListInv, TypeOK
<1>4. \A q \in Procs : pc'[q] = "unlinked" => pc[q] = "unlinked"
  BY DEF TypeOK, MarkUnused, Goto
<1> QED BY <1>1, <1>3, <1>4 DEF ListInv, Given, NamesUnique

LEMMA ListStep ==
  ASSUME TypeOK, LockInv, ListInv, [Next]_vars
  PROVE  ListInv'
<1>1. CASE \E p \in Procs : Publish(p) \/ Unlink(p) \/ MarkUnused(p)
  BY <1>1, PublishKeepsList, UnlinkKeepsList, MarkUnusedKeepsList
<1>2. CASE UNCHANGED <<next, name, used, list_next_free, linked>>
           /\ ~\E p \in Procs : Publish(p) \/ Unlink(p) \/ MarkUnused(p)
  <2>1. \A q \in Procs : pc'[q] = "unlinked" => pc[q] = "unlinked" /\ cur'[q] = cur[q]
    BY <1>2 DEF TypeOK, Next, vars, calls, Runs, Acquire, Look, Return, Exists,
                PoolFull, Added, NotThere, Deleted, Unlock, Leave, Crash, Over,
                Call, CallFind, CallAdd, CallDelete, Goto
  <2> QED BY <1>2, <2>1 DEF ListInv, Given, NamesUnique
<1> QED BY <1>1, <1>2, WhoWritesNodes

-----------------------------------------------------------------------------
(* The readers.                                                            *)

LEMMA CallFindReads ==
  ASSUME TypeOK, ListInv, NEW p \in Procs, NEW n \in Names, CallFind(p, n)
  PROVE  Reader(p)'
<1>1. /\ pc'[p] = "walk" /\ arg'[p] = n /\ cur'[p] = next[head]
      /\ present'[p] = (n \in Stored) /\ absent'[p] = (n \notin Stored)
      /\ next' = next /\ name' = name /\ linked' = linked /\ Given' = Given
  BY DEF TypeOK, CallFind, Call, Goto, list, Given
<1>2. absent'[p] \/ \E t \in linked' : t <= cur'[p] /\ name'[t] = arg'[p]
  <2>1. CASE n \notin Stored
    BY <2>1, <1>1
  <2>2. CASE n \in Stored
    <3>1. PICK t \in linked : name[t] = n
      BY <2>2 DEF Stored
    <3>2. t <= next[head]
      BY DEF ListInv
    <3> QED BY <3>1, <3>2, <1>1
  <2> QED BY <2>1, <2>2
<1>3. linked \in SUBSET Given' /\ Confined(p, linked)'
  BY <1>1 DEF Confined, ListInv, Stored
<1> QED BY <1>1, <1>2, <1>3 DEF Reader

LEMMA LookReads ==
  ASSUME TypeOK, ListInv, NEW p \in Procs, Reader(p), Look(p)
  PROVE  Reader(p)'
<1>1. /\ pc[p] = "walk" /\ arg' = arg /\ present' = present /\ absent' = absent
      /\ next' = next /\ name' = name /\ linked' = linked /\ Given' = Given
  BY DEF Look, list, seen, Given
<1>2. PICK V \in SUBSET Given : Confined(p, V)
  BY <1>1 DEF Reader
<1>3. absent[p] \/ \E t \in linked : t <= cur[p] /\ name[t] = arg[p]
  BY <1>1 DEF Reader
<1>4. CASE cur[p] = End /\ pc' = [pc EXCEPT ![p] = "missed"]
  <2>1. \A t \in linked : ~(t <= End)
    BY DEF ListInv, Given, End
  <2>2. absent'[p] /\ pc'[p] = "missed"
    BY <1>1, <1>3, <1>4, <2>1 DEF TypeOK
  <2> QED BY <2>2 DEF Reader
<1>5. CASE /\ cur[p] # End /\ Matches(cur[p], arg[p])
           /\ pc' = [pc EXCEPT ![p] = "found"] /\ cur' = cur
  <2>1. cur[p] \in V /\ name[cur[p]] = arg[p] /\ pc'[p] = "found"
    BY <1>2, <1>5 DEF Confined, Matches, TypeOK
  <2> QED BY <1>1, <1>2, <1>5, <2>1 DEF Reader, Confined
<1>6. CASE /\ cur[p] # End /\ ~Matches(cur[p], arg[p])
           /\ cur' = [cur EXCEPT ![p] = next[@]] /\ pc' = pc
  <2>1. cur[p] \in V /\ cur'[p] = next[cur[p]] /\ cur[p] \in Given
    BY <1>2, <1>6 DEF Confined, TypeOK
  <2>2. Confined(p, V)'
    BY <1>1, <1>2, <2>1 DEF Confined
  <2>3. absent'[p] \/ \E t \in linked' : t <= cur'[p] /\ name'[t] = arg'[p]
    <3>1. CASE absent[p]
      BY <3>1, <1>1
    <3>2. ASSUME NEW t \in linked, t <= cur[p], name[t] = arg[p]
          PROVE  t <= next[cur[p]]
      <4>1. t # cur[p]
        BY <1>6, <3>2 DEF Matches, ListInv
      <4>2. t \in Int /\ cur[p] \in Int
        BY <2>1, NodeFacts DEF ListInv
      <4>3. t < cur[p]
        BY <3>2, <4>1, <4>2
      <4> QED BY <2>1, <4>3 DEF ListInv
    <3> QED BY <1>1, <1>3, <2>1, <3>1, <3>2
  <2> QED BY <1>1, <1>2, <1>6, <2>2, <2>3 DEF Reader
<1> QED BY <1>4, <1>5, <1>6 DEF Look, Goto

(* A reader that does not move itself, in a list that nobody writes.       *)
LEMMA StillReads ==
  ASSUME NEW q \in Procs, Reader(q),
         next' = next, name' = name, linked' = linked, Given' = Given,
         pc'[q] \in {"walk", "found", "missed"} =>
           /\ pc'[q] = pc[q] /\ arg'[q] = arg[q] /\ cur'[q] = cur[q]
           /\ present'[q] = present[q] /\ absent'[q] = absent[q]
  PROVE  Reader(q)'
BY DEF Reader, Confined

(* A new node is in front of every reader.                                 *)
LEMMA PublishReads ==
  ASSUME TypeOK, ListInv, NEW p \in Procs, Publish(p), NEW q \in Procs, Reader(q)
  PROVE  Reader(q)'
<1> DEFINE node == list_next_free
<1>1. /\ arg' = arg /\ cur' = cur /\ absent' = absent
      /\ linked' = linked \cup {node}
      /\ pc'[q] \in {"walk", "found", "missed"} => pc'[q] = pc[q]
      /\ present[q] => present'[q]
  BY DEF TypeOK, Publish, Goto
<1>2. /\ node \notin Given /\ Given \subseteq Given'
      /\ \A s \in Given : s # head /\ s \in Slots /\ s # node
  <2>1. Given' = 1 .. node /\ node \in Int
    BY DEF Publish, Given, TypeOK
  <2>2. \A i \in Given : i \in 1 .. node
    BY <2>1 DEF Given
  <2>3. node \notin Given /\ \A s \in Given : s < node
    BY <2>1 DEF Given
  <2>4. \A s \in Given : s \in Nodes /\ s \in Slots /\ s # head
    BY NodeFacts
  <2> QED BY <2>1, <2>2, <2>3, <2>4
<1>3. \A s \in Given : next'[s] = next[s] /\ name'[s] = name[s]
  BY <1>2 DEF TypeOK, Publish
<1>4. linked \subseteq Given
  BY DEF ListInv
<1>5. ASSUME NEW V \in SUBSET Given, Confined(q, V)
      PROVE  V \in SUBSET Given' /\ Confined(q, V)'
  BY <1>1, <1>2, <1>3, <1>5 DEF Confined
<1>6. ASSUME pc'[q] = "walk"
      PROVE  /\ absent'[q] \/ \E t \in linked' : t <= cur'[q] /\ name'[t] = arg'[q]
             /\ \E V \in SUBSET Given' : Confined(q, V)'
  <2>1. pc[q] = "walk"
    BY <1>1, <1>6
  <2>2. absent[q] \/ \E t \in linked : t <= cur[q] /\ name[t] = arg[q]
    BY <2>1 DEF Reader
  <2>3. PICK V \in SUBSET Given : Confined(q, V)
    BY <2>1 DEF Reader
  <2> QED BY <1>1, <1>3, <1>4, <1>5, <2>2, <2>3
<1>7. ASSUME pc'[q] = "found"
      PROVE  cur'[q] \in Given' /\ name'[cur'[q]] = arg'[q] /\ present'[q]
  BY <1>1, <1>2, <1>3, <1>7 DEF Reader
<1>8. pc'[q] = "missed" => absent'[q]
  BY <1>1 DEF Reader
<1> QED BY <1>6, <1>7, <1>8 DEF Reader

(* A reader at an unlinked node still comes back to the list; what is      *)
(* unlinked ahead of it was absent during the call.                        *)
LEMMA UnlinkReads ==
  ASSUME TypeOK, ListInv, NEW p \in Procs, Unlink(p), NEW q \in Procs, Reader(q)
  PROVE  Reader(q)'
<1>1. PICK s \in linked :
           /\ name[s] = arg[p] /\ linked' = linked \ {s}
           /\ cur' = [cur EXCEPT ![p] = s]
           /\ \A r \in Given \cup {head} :
                next'[r] = IF next[r] = s /\ r \in linked \cup {head}
                           THEN next[s] ELSE next[r]
  BY UnlinkFacts
<1>2. Given' = Given /\ name' = name /\ arg' = arg /\ present' = present
  BY DEF Unlink, Given
<1>3. CASE q = p
  <2>1. pc'[q] = "unlinked"
    BY <1>3 DEF TypeOK, Unlink, Goto
  <2> QED BY <2>1 DEF Reader
<1>4. CASE q # p
  <2>1. /\ pc'[q] = pc[q] /\ cur'[q] = cur[q]
        /\ absent'[q] = (absent[q] \/ LooksFor(q, arg[p]))
    BY <1>1, <1>4 DEF TypeOK, Unlink, Goto
  <2>2. ASSUME NEW V \in SUBSET Given, Confined(q, V)
        PROVE  Confined(q, V)'
    <3>1. cur'[q] \in V \cup {End}
      BY <2>1, <2>2 DEF Confined
    <3>2. ASSUME NEW v \in V
          PROVE  next'[v] \in V \cup {End}
      <4>1. next[v] \in V \cup {End}
        BY <2>2 DEF Confined
      <4>2. s # End
        BY NodeFacts DEF ListInv
      <4>3. next[v] = s => next[s] \in V \cup {End}
        BY <2>2, <4>1, <4>2 DEF Confined
      <4> QED BY <1>1, <4>1, <4>3
    <3>3. \A v \in V : name'[v] = arg'[q] => present'[q]
      BY <1>2, <2>2 DEF Confined
    <3> QED BY <3>1, <3>2, <3>3 DEF Confined
  <2>3. ASSUME pc[q] = "walk",
               absent[q] \/ \E t \in linked : t <= cur[q] /\ name[t] = arg[q]
        PROVE  absent'[q] \/ \E t \in linked' : t <= cur'[q] /\ name'[t] = arg'[q]
    BY <1>1, <1>2, <2>1, <2>3 DEF LooksFor
  <2>4. ASSUME pc'[q] = "walk"
        PROVE  /\ absent'[q] \/ \E t \in linked' : t <= cur'[q] /\ name'[t] = arg'[q]
               /\ \E V \in SUBSET Given' : Confined(q, V)'
    BY <1>2, <2>1, <2>2, <2>3, <2>4 DEF Reader
  <2>5. pc'[q] = "found" =>
          cur'[q] \in Given' /\ name'[cur'[q]] = arg'[q] /\ present'[q]
    BY <1>2, <2>1 DEF Reader
  <2>6. pc'[q] = "missed" => absent'[q]
    BY <2>1 DEF Reader
  <2> QED BY <2>4, <2>5, <2>6 DEF Reader
<1> QED BY <1>3, <1>4

(* A process whose own step is neither a call nor a look goes on reading,  *)
(* or does not read.                                                       *)
LEMMA OwnStep ==
  ASSUME TypeOK, [Next]_vars, NEW q \in Procs,
         ~Look(q), ~\E n \in Names : CallFind(q, n),
         ~\E p \in Procs : Publish(p) \/ Unlink(p),
         pc'[q] \in {"walk", "found", "missed"}
  PROVE  /\ pc'[q] = pc[q] /\ arg'[q] = arg[q] /\ cur'[q] = cur[q]
         /\ present'[q] = present[q] /\ absent'[q] = absent[q]
<1> DEFINE Same == /\ pc'[q] = pc[q] /\ arg'[q] = arg[q] /\ cur'[q] = cur[q]
                   /\ present'[q] = present[q] /\ absent'[q] = absent[q]
<1>1. CASE UNCHANGED vars
  BY <1>1 DEF vars, calls, seen
<1>2. ASSUME NEW p \in Procs, Look(p) \/ Crash(p) \/ Acquire(p) \/ MarkUnused(p)
      PROVE  Same
  BY <1>2 DEF TypeOK, Look, Crash, Acquire, MarkUnused, Goto, seen
<1>3. ASSUME NEW p \in Procs, Return(p) \/ Exists(p) \/ PoolFull(p) \/ Added(p)
                                \/ NotThere(p) \/ Deleted(p)
      PROVE  Same
  <2>1. Leave(p)
    BY <1>3 DEF Return, Exists, PoolFull, Added, NotThere, Deleted, Unlock
  <2> QED BY <2>1 DEF TypeOK, Leave, Goto
<1>4. ASSUME NEW p \in Procs, NEW n \in Names,
             CallFind(p, n) \/ CallAdd(p, n) \/ CallDelete(p, n)
      PROVE  Same
  BY <1>4 DEF TypeOK, CallFind, CallAdd, CallDelete, Call, Goto, seen
<1> QED
  BY <1>1, <1>2, <1>3, <1>4 DEF Next, Runs, Over

LEMMA ReadStep ==
  ASSUME TypeOK, LockInv, ListInv, ReadInv, [Next]_vars
  PROVE  ReadInv'
<1> SUFFICES ASSUME NEW q \in Procs PROVE Reader(q)'
  BY DEF ReadInv
<1>1. Reader(q)
  BY DEF ReadInv
<1>2. CASE \E p \in Procs : Publish(p) \/ Unlink(p)
  BY <1>1, <1>2, PublishReads, UnlinkReads
<1>3. CASE Look(q) \/ \E n \in Names : CallFind(q, n)
  BY <1>1, <1>3, LookReads, CallFindReads
<1>4. CASE /\ ~\E p \in Procs : Publish(p) \/ Unlink(p)
           /\ ~Look(q) /\ ~\E n \in Names : CallFind(q, n)
  <2>1. UNCHANGED <<next, name, list_next_free, linked>>
    BY <1>4, WhoWritesNodes DEF MarkUnused
  <2> QED BY <1>1, <1>4, <2>1, OwnStep, StillReads DEF Given
<1> QED BY <1>2, <1>3, <1>4

-----------------------------------------------------------------------------
(* The count.                                                              *)

LEMMA SizeStep ==
  ASSUME TypeOK, LockInv, ListInv, SizeInv, [Next]_vars
  PROVE  SizeInv'
<1> USE NoneAssumption
<1>0. Cardinality(linked) \in Nat /\ IsFiniteSet(linked) /\ HeaderLines \in Int
      /\ size \in Int
  BY LinkedIsFinite, PoolAssumption DEF TypeOK
<1>1. CASE UNCHANGED vars
  BY <1>1 DEF vars, list, calls, SizeInv, Owed
<1>2. ASSUME NEW p \in Procs, Acquire(p)
      PROVE  SizeInv'
  BY <1>2 DEF TypeOK, Acquire, Goto, list, SizeInv, Owed
<1>3. ASSUME NEW p \in Procs, Exists(p) \/ PoolFull(p) \/ NotThere(p)
      PROVE  SizeInv'
  <2>1. /\ pc[p] \in {"adding", "deleting"} /\ lock' = None
        /\ size' = size /\ linked' = linked
    BY <1>3 DEF Exists, PoolFull, NotThere, Unlock
  <2>2. lock = p
    BY <2>1, AloneInside DEF Section
  <2> QED BY <2>1, <2>2, <1>0 DEF SizeInv, Owed
<1>4. ASSUME NEW p \in Procs, Added(p)
      PROVE  SizeInv'
  <2>1. lock = p /\ pc[p] = "indexing" /\ lock' = None /\ size' = size + 1
        /\ linked' = linked
    BY <1>4, AloneInside DEF Section, Added, Unlock
  <2> QED BY <2>1, <1>0 DEF SizeInv, Owed
<1>5. ASSUME NEW p \in Procs, Deleted(p)
      PROVE  SizeInv'
  <2>1. lock = p /\ pc[p] = "unindexing" /\ lock' = None /\ size' = size - 1
        /\ linked' = linked
    BY <1>5, AloneInside DEF Section, Deleted, Unlock
  <2> QED BY <2>1, <1>0 DEF SizeInv, Owed
<1>6. ASSUME NEW p \in Procs, Publish(p)
      PROVE  SizeInv'
  <2>1. lock = p /\ pc[p] = "adding" /\ lock' = lock /\ size' = size
        /\ pc'[p] = "indexing" /\ linked' = linked \cup {list_next_free}
    BY <1>6, AloneInside DEF TypeOK, Section, Publish, Goto
  <2>2. list_next_free \notin linked
    BY NodeFacts DEF ListInv
  <2>3. Cardinality(linked') = Cardinality(linked) + 1
    BY <1>0, <2>1, <2>2, FS_AddElement
  <2> QED BY <2>1, <2>3, <1>0 DEF SizeInv, Owed
<1>7. ASSUME NEW p \in Procs, Unlink(p)
      PROVE  SizeInv'
  <2>1. lock = p /\ pc[p] = "deleting" /\ lock' = lock /\ size' = size
        /\ pc'[p] = "unlinked"
    BY <1>7, AloneInside DEF TypeOK, Section, Unlink, Goto
  <2>2. PICK s \in linked : linked' = linked \ {s}
    BY <1>7 DEF Unlink
  <2>3. Cardinality(linked') = Cardinality(linked) - 1
    BY <1>0, <2>2, FS_RemoveElement
  <2> QED BY <2>1, <2>3, <1>0 DEF SizeInv, Owed
<1>8. ASSUME NEW p \in Procs, MarkUnused(p)
      PROVE  SizeInv'
  <2>1. lock = p /\ pc[p] = "unlinked" /\ lock' = lock /\ size' = size
        /\ pc'[p] = "unindexing" /\ linked' = linked
    BY <1>8, AloneInside DEF TypeOK, Section, MarkUnused, Goto
  <2> QED BY <2>1 DEF SizeInv, Owed
<1>9. ASSUME NEW p \in Procs, Look(p) \/ Return(p) \/ Crash(p)
      PROVE  SizeInv'
  <2>1. /\ lock' = lock /\ size' = size /\ linked' = linked
        /\ \A q \in Procs : q # p => pc'[q] = pc[q]
        /\ pc'[p] \in {"walk", "missed", "found", "idle", "crashed"}
        /\ pc'[p] = "crashed" \/ pc[p] \in {"walk", "missed", "found"}
    BY <1>9 DEF TypeOK, Look, Return, Crash, Leave, Goto, list
  <2> QED BY <2>1 DEF TypeOK, SizeInv, Owed
<1>10. ASSUME NEW p \in Procs, NEW n \in Names,
              CallFind(p, n) \/ CallAdd(p, n) \/ CallDelete(p, n)
       PROVE  SizeInv'
  <2>1. /\ lock' = lock /\ size' = size /\ linked' = linked
        /\ \A q \in Procs : q # p => pc'[q] = pc[q]
        /\ pc[p] = "idle" /\ pc'[p] \in {"walk", "add", "delete"}
    BY <1>10 DEF TypeOK, CallFind, CallAdd, CallDelete, Call, Goto, list
  <2> QED BY <2>1 DEF TypeOK, SizeInv, Owed
<1> QED
  BY <1>1, <1>2, <1>3, <1>4, <1>5, <1>6, <1>7, <1>8, <1>9, <1>10
     DEF Next, Runs, Over

-----------------------------------------------------------------------------
(* Types.                                                                  *)

LEMMA SizeType ==
  ASSUME TypeOK, LockInv, ListInv, SizeInv, [Next]_vars
  PROVE  size' \in 0 .. PoolNodes
<1>1. CASE size' = size
  BY <1>1 DEF TypeOK
<1>2. CASE \E p \in Procs : Added(p) \/ Deleted(p)
  <2>1. lock' = None
    BY <1>2 DEF Added, Deleted, Unlock
  <2>2. size' + 0 = Cardinality(linked') + HeaderLines
    BY <2>1, SizeStep DEF SizeInv, Owed
  <2>3. linked' = linked /\ size' \in Int
    BY <1>2 DEF Added, Deleted, Unlock, TypeOK
  <2>4. Cardinality(linked) \in Nat /\ Cardinality(linked) <= PoolNodes - 1
    BY LinkedIsFinite DEF TypeOK
  <2> QED BY <2>2, <2>3, <2>4, PoolAssumption
<1> QED
  BY <1>1, <1>2 DEF Next, vars, list, Runs, Acquire, Look, Return, Exists,
     PoolFull, Publish, NotThere, Unlink, MarkUnused, Crash, Over, Call,
     CallFind, CallAdd, CallDelete

LEMMA TypeStep ==
  ASSUME TypeOK, LockInv, ListInv, SizeInv, [Next]_vars
  PROVE  TypeOK'
<1> USE PoolAssumption, NodeFacts, SizeType
<1>1. CASE UNCHANGED vars
  BY <1>1 DEF TypeOK, vars, list, calls, seen
<1>2. ASSUME NEW p \in Procs, Look(p) \/ Crash(p) \/ Acquire(p)
      PROVE  TypeOK'
  <2>1. CASE Look(p)
    BY <2>1 DEF TypeOK, Look, Goto, list, seen
  <2>2. CASE Crash(p)
    BY <2>2 DEF TypeOK, Crash, Goto, list, seen
  <2>3. CASE Acquire(p)
    BY <2>3 DEF TypeOK, Acquire, Goto, list, seen
  <2> QED BY <1>2, <2>1, <2>2, <2>3
<1>3. ASSUME NEW p \in Procs, Return(p) \/ Exists(p) \/ PoolFull(p) \/ Added(p)
                                \/ NotThere(p) \/ Deleted(p)
      PROVE  TypeOK'
  <2>1. Leave(p) /\ UNCHANGED <<next, name, used, list_next_free, linked>>
        /\ (lock' = lock \/ lock' = None)
    BY <1>3 DEF Return, Exists, PoolFull, Added, NotThere, Deleted, Unlock, list
  <2> QED BY <2>1 DEF TypeOK, Leave, Goto
<1>4. ASSUME NEW p \in Procs, Publish(p)
      PROVE  TypeOK'
  <2>1. list_next_free \in Nodes /\ list_next_free + 1 \in 1 .. PoolNodes
    BY <1>4 DEF TypeOK, Publish, Exhausted, Nodes
  <2> QED BY <1>4, <2>1 DEF TypeOK, Publish, Goto
<1>5. ASSUME NEW p \in Procs, Unlink(p)
      PROVE  TypeOK'
  <2>1. PICK s \in linked : /\ next' = Around(s) /\ linked' = linked \ {s}
                            /\ cur' = [cur EXCEPT ![p] = s]
    BY <1>5 DEF Unlink
  <2>2. Around(s) \in [Slots -> Nodes \cup {End}]
    BY DEF Around, TypeOK
  <2>3. s \in Nodes
    BY DEF TypeOK
  <2>4. UNCHANGED <<name, used, list_next_free, lock, arg, present>>
        /\ absent' = [q \in Procs |-> absent[q] \/ LooksFor(q, arg[p])]
        /\ pc' = [pc EXCEPT ![p] = "unlinked"]
    BY <1>5 DEF Unlink, Goto
  <2>5. absent' \in [Procs -> BOOLEAN]
    BY <2>4 DEF TypeOK, LooksFor
  <2> QED BY <2>1, <2>2, <2>3, <2>4, <2>5 DEF TypeOK
<1>6. ASSUME NEW p \in Procs, MarkUnused(p)
      PROVE  TypeOK'
  BY <1>6 DEF TypeOK, MarkUnused, Goto, seen
<1>7. ASSUME NEW p \in Procs, NEW n \in Names,
             CallFind(p, n) \/ CallAdd(p, n) \/ CallDelete(p, n)
      PROVE  TypeOK'
  <2>1. /\ UNCHANGED <<list, lock>> /\ arg' = [arg EXCEPT ![p] = n]
        /\ \E label \in {"walk", "add", "delete"} : pc' = [pc EXCEPT ![p] = label]
    BY <1>7 DEF CallFind, CallAdd, CallDelete, Call, Goto
  <2>2. CASE CallFind(p, n)
    <3>1. present' \in [Procs -> BOOLEAN] /\ absent' \in [Procs -> BOOLEAN]
      BY <2>2 DEF TypeOK, CallFind
    <3>2. cur' \in [Procs -> Nodes \cup {End}]
      BY <2>2 DEF TypeOK, CallFind
    <3>3. arg' \in [Procs -> Names \cup {None}]
      BY <2>1 DEF TypeOK
    <3>4. pc' \in [Procs -> {"idle", "walk", "missed", "found", "add", "adding",
                            "indexing", "delete", "deleting", "unlinked",
                            "unindexing", "crashed"}]
      BY <2>1 DEF TypeOK
    <3> QED BY <2>1, <3>1, <3>2, <3>3, <3>4 DEF TypeOK, list
  <2>3. CASE CallAdd(p, n) \/ CallDelete(p, n)
    BY <2>1, <2>3 DEF TypeOK, CallAdd, CallDelete, list, seen
  <2> QED BY <1>7, <2>2, <2>3
<1> QED
  BY <1>1, <1>2, <1>3, <1>4, <1>5, <1>6, <1>7 DEF Next, Runs, Over

LEMMA StepIInv == IInv /\ [Next]_vars => IInv'
BY TypeStep, LockStep, ListStep, SizeStep, ReadStep DEF IInv

LEMMA Inductive == Spec => []IInv
BY InitIInv, StepIInv, PTL DEF Spec

-----------------------------------------------------------------------------
(* The variables of the store have their types for ever, whatever number   *)
(* of processes call user_store_add, user_store_delete and the look-ups,   *)
(* and wherever they die; in particular the pool never overruns.           *)
THEOREM TypeCorrect == Spec => []TypeOK
<1>1. IInv => TypeOK
  BY DEF IInv
<1> QED BY <1>1, Inductive, PTL

(* user_store_add never stores a name twice.                               *)
THEOREM NamesStayUnique == Spec => []NamesUnique
<1>1. IInv => NamesUnique
  BY DEF IInv, ListInv
<1> QED BY <1>1, Inductive, PTL

(* The size is that of the list, and the header line.                      *)
LEMMA SizeIsKnown ==
  ASSUME IInv, lock = None
  PROVE  /\ size = Cardinality(linked) + HeaderLines
         /\ Cardinality(linked) \in Nat /\ size \in Int
<1>1. size + 0 = Cardinality(linked) + HeaderLines
  BY DEF IInv, SizeInv, Owed
<1>2. Cardinality(linked) \in Nat /\ size \in Int
  BY LinkedIsFinite DEF IInv, TypeOK
<1> QED
  BY <1>1, <1>2

(* g_header->size never drifts from the list: since the file was loaded it *)
(* has changed by as many users, whenever nobody holds the mutex.          *)
THEOREM CountNeverDrifts == Spec => []SizeKeepsPace
<1>1. IInv => SizeKeepsPace
  BY SizeIsKnown, PoolAssumption DEF SizeKeepsPace, SizeLoaded
<1> QED BY <1>1, Inductive, PTL

(* user_store.h:29 "current user count" holds of g_header->size, whenever  *)
(* nobody holds the mutex, if the file has no header line; with a header   *)
(* line it never holds, whatever is added or deleted.                      *)
THEOREM HeaderIsCounted ==
  Spec => [](lock = None => (SizeIsUserCount <=> HeaderLines = 0))
<1>1. IInv => (lock = None => (SizeIsUserCount <=> HeaderLines = 0))
  BY SizeIsKnown, PoolAssumption DEF SizeIsUserCount
<1> QED BY <1>1, Inductive, PTL

(* user_store_find, user_store_auth and user_store_lookup_name are right   *)
(* without the mutex: what they return was stored during the call, and     *)
(* what they miss was not, at some moment of it.                           *)
THEOREM LookupsAreExact == Spec => []FindIsExact
<1>1. IInv => FindIsExact
  BY DEF IInv, ReadInv, Reader, FindIsExact
<1> QED BY <1>1, Inductive, PTL

-----------------------------------------------------------------------------
(* The walk along the list.                                                *)

LEMMA SmallestIs ==
  ASSUME NEW S \in SUBSET Nat, S # {}
  PROVE  \E m \in S : \A y \in S : m <= y
<1> DEFINE Below == {0 .. x : x \in S}
<1>1. Below \subseteq FiniteSubsetsOf(Nat) /\ Below # {}
  <2>1. ASSUME NEW x \in S PROVE 0 .. x \in FiniteSubsetsOf(Nat)
    <3>1. IsFiniteSet(0 .. x) /\ 0 .. x \subseteq Nat
      BY FS_Interval, 0 \in Int, x \in Int
    <3> QED
      BY <3>1 DEF FiniteSubsetsOf
  <2> QED
    BY <2>1
<1>2. PICK B \in Below :
        \A C \in Below : ~ (<<C, B>> \in StrictSubsetOrdering(Nat))
  BY <1>1, FS_StrictSubsetOrderingWellFounded, WFMin
<1>3. PICK m \in S : B = 0 .. m
  BY <1>2
<1>4. ASSUME NEW y \in S, y < m PROVE FALSE
  <2>1. 0 .. y \in Below /\ 0 .. y \subseteq Nat /\ 0 .. m \subseteq Nat
    OBVIOUS
  <2>2. 0 .. y \subseteq 0 .. m /\ m \in 0 .. m /\ m \notin 0 .. y
    BY <1>4
  <2>3. <<0 .. y, 0 .. m>> \in StrictSubsetOrdering(Nat)
    BY <2>1, <2>2 DEF StrictSubsetOrdering
  <2> QED
    BY <1>2, <1>3, <2>1, <2>3
<1>5. \A y \in S : m <= y
  BY <1>4
<1> QED
  BY <1>5

(* A node is in the list if and only if the sentinel or another node of    *)
(* the list links to it.                                                   *)
LEMMA LinkedFromLinked ==
  ASSUME TypeOK, ListInv, NEW s \in Nodes
  PROVE  s \in linked <=>
           \/ next[head] = s
           \/ \E r \in s + 1 .. PoolNodes - 1 : next[r] = s /\ r \in linked
<1>1. /\ linked \subseteq Given /\ Given \subseteq Nodes /\ Nodes \subseteq Int
      /\ PoolNodes \in Nat /\ End \notin Nodes /\ s \in Int /\ s # End
      /\ Nodes \subseteq Nat /\ Nodes = 1 .. PoolNodes - 1
  BY NodeFacts, PoolAssumption DEF ListInv, Nodes
<1>2. ASSUME \/ next[head] = s
             \/ \E r \in s + 1 .. PoolNodes - 1 : next[r] = s /\ r \in linked
      PROVE  s \in linked
  BY <1>1, <1>2 DEF ListInv
<1>3. ASSUME s \in linked, next[head] # s
      PROVE  \E r \in s + 1 .. PoolNodes - 1 : next[r] = s /\ r \in linked
  <2> DEFINE After == {r \in linked : r > s}
  <2>1. next[head] \in After
    <3>1. PICK h : h = next[head]
      OBVIOUS
    <3>2. h \in linked \cup {End} /\ s <= h /\ h # s
      BY <1>3, <3>1 DEF ListInv
    <3>3. s >= 1 /\ End < 1
      BY <1>1 DEF End
    <3>4. h \in linked /\ h > s
      BY <1>1, <3>2, <3>3
    <3> QED
      BY <3>1, <3>4
  <2>2. After \in SUBSET Nat
    BY <1>1
  <2>3. PICK r \in After : \A y \in After : r <= y
    BY <2>1, <2>2, SmallestIs
  <2>4. r \in linked /\ r > s /\ r \in Given /\ r \in Int
    BY <1>1, <2>3
  <2>5. s <= next[r] /\ next[r] < r /\ next[r] \in linked \cup {End}
    BY <1>3, <2>4 DEF ListInv
  <2>6. next[r] \notin After
    <3>1. next[r] \in After => next[r] \in Int /\ r <= next[r]
      BY <2>2, <2>3
    <3> QED
      BY <2>4, <2>5, <3>1
  <2>7. next[r] \in linked
    BY <1>1, <2>5 DEF End, Nodes
  <2>8. next[r] = s
    <3>1. PICK n \in linked : n = next[r]
      BY <2>7
    <3>2. s <= n /\ ~(n > s) /\ n \in Int
      BY <1>1, <2>5, <2>6, <3>1
    <3> QED
      BY <1>1, <3>1, <3>2
  <2>9. r \in s + 1 .. PoolNodes - 1
    BY <1>1, <2>4
  <2> QED
    BY <2>4, <2>8, <2>9
<1> QED
  BY <1>2, <1>3

(* The equation of the recursive function of WalkIsLinked, whose value at  *)
(* a node depends on the nodes above it: it has one solution.              *)
Walks(f) ==
  f = [s \in Nodes |->
         next[head] = s \/ \E r \in s + 1 .. PoolNodes - 1 :
                             next[r] = s /\ f[r]]

LEMMA WalkExists ==
  ASSUME TypeOK, ListInv
  PROVE  Walks([s \in Nodes |-> s \in linked])
<1> DEFINE f == [s \in Nodes |-> s \in linked]
<1>1. ASSUME NEW s \in Nodes
      PROVE  f[s] = (next[head] = s \/ \E r \in s + 1 .. PoolNodes - 1 :
                                         next[r] = s /\ f[r])
  <2>1. \A r \in s + 1 .. PoolNodes - 1 : r \in Nodes
    BY PoolAssumption DEF Nodes
  <2>2. \A r \in s + 1 .. PoolNodes - 1 : f[r] = (r \in linked)
    BY <2>1
  <2>3. f[s] = (s \in linked)
    OBVIOUS
  <2> HIDE DEF f
  <2>4. f[s] <=> \/ next[head] = s
                 \/ \E r \in s + 1 .. PoolNodes - 1 : next[r] = s /\ f[r]
    BY <2>2, <2>3, LinkedFromLinked
  <2>5. f[s] \in BOOLEAN
    BY <2>3
  <2> QED
    BY <2>4, <2>5
<1> QED
  BY <1>1 DEF Walks

LEMMA WalkIsUnique ==
  ASSUME TypeOK, ListInv, NEW f, Walks(f)
  PROVE  linked = {s \in Nodes : f[s]}
<1>1. /\ linked \subseteq Nodes /\ PoolNodes \in Nat
      /\ Nodes = 1 .. PoolNodes - 1
  BY PoolAssumption DEF TypeOK, Nodes
<1>2. \A s \in Nodes :
        f[s] = (next[head] = s \/ \E r \in s + 1 .. PoolNodes - 1 :
                                    next[r] = s /\ f[r])
  BY DEF Walks
<1> DEFINE Wrong == {s \in Nodes : ~(f[s] <=> s \in linked)}
<1>3. ASSUME NEW s0 \in Wrong PROVE FALSE
  <2> DEFINE Above == {PoolNodes - s : s \in Wrong}
  <2>1. Above \in SUBSET Nat /\ Above # {}
    BY <1>1, <1>3
  <2>2. PICK d \in Above : \A y \in Above : d <= y
    BY <2>1, SmallestIs
  <2>3. PICK s \in Wrong : d = PoolNodes - s
    BY <2>2
  <2>4. ASSUME NEW r \in s + 1 .. PoolNodes - 1 PROVE f[r] <=> r \in linked
    <3>1. s \in Nodes /\ r \in Nodes /\ s \in Int /\ r \in Int /\ s < r
      BY <1>1, <2>3, <2>4
    <3>2. r \notin Wrong
      <4>1. SUFFICES ASSUME r \in Wrong PROVE FALSE
        OBVIOUS
      <4>2. PoolNodes - s <= PoolNodes - r
        BY <2>2, <2>3, <4>1
      <4> QED
        BY <1>1, <3>1, <4>2
    <3> QED
      BY <3>1, <3>2
  <2>5. s \in Nodes /\ ~(f[s] <=> s \in linked)
    BY <2>3
  <2> HIDE DEF Wrong, Above
  <2>6. (\E r \in s + 1 .. PoolNodes - 1 : next[r] = s /\ f[r])
          <=> (\E r \in s + 1 .. PoolNodes - 1 : next[r] = s /\ r \in linked)
    BY <2>4
  <2>7. f[s] = (next[head] = s \/ \E r \in s + 1 .. PoolNodes - 1 :
                                     next[r] = s /\ f[r])
    BY <1>2, <2>5
  <2>8. f[s] <=> \/ next[head] = s
                 \/ \E r \in s + 1 .. PoolNodes - 1 : next[r] = s /\ r \in linked
    BY <2>6, <2>7
  <2>9. s \in linked <=> \/ next[head] = s
                         \/ \E r \in s + 1 .. PoolNodes - 1 :
                              next[r] = s /\ r \in linked
    BY <2>5, LinkedFromLinked
  <2> QED
    BY <2>5, <2>8, <2>9
<1>4. \A s \in Nodes : f[s] <=> s \in linked
  BY <1>3
<1> HIDE DEF Wrong
<1> QED
  BY <1>1, <1>4

(* The list that user_store_add and user_store_delete build of links is    *)
(* at every moment, also between the stores of a call and after a process  *)
(* died there, the set of users they take it for.                          *)
THEOREM ListIsWhole == Spec => []WalkIsLinked
<1>1. ASSUME IInv PROVE WalkIsLinked
  <2>1. TypeOK /\ ListInv
    BY <1>1 DEF IInv
  <2> DEFINE reached == CHOOSE f : Walks(f)
  <2>2. Walks(reached)
    BY <2>1, WalkExists
  <2>3. linked = {s \in Nodes : reached[s]}
    BY <2>1, <2>2, WalkIsUnique
  <2> QED
    BY <2>3 DEF WalkIsLinked, Walks
<1> QED BY <1>1, Inductive, PTL

-----------------------------------------------------------------------------
(* The tree of the index.                                                  *)

(* What a tree is made of.                                                 *)
Trees ==
  [child : [Sides -> [TreeNodes -> TreeNodes]],
   parent : [TreeNodes -> TreeNodes],
   color : [TreeNodes -> {"red", "black"}],
   root : TreeNodes]

(* t is a search tree of the users in S, of which those in U[n] are n and  *)
(* what hangs below n.  Children name their parents, the sentinel has no   *)
(* children and is black.                                                  *)
SearchTree(t, S, U) ==
  /\ t \in Trees /\ S \subseteq Users /\ U \in [TreeNodes -> SUBSET S]
  /\ t.root \in S \cup {Nil} /\ U[t.root] = S
  /\ t.root # Nil => t.parent[t.root] = Nil
  /\ \A n \in S : U[n] = {n} \cup U[t.child["left"][n]]
                             \cup U[t.child["right"][n]]
  /\ \A n \in S, s \in Sides :
       /\ t.child[s][n] \in S \cup {Nil}
       /\ t.child[s][n] # Nil => t.parent[t.child[s][n]] = n
       /\ \A m \in U[t.child[s][n]] : m # n /\ Toward(n, m) = s
  /\ U[Nil] = {} /\ t.color[Nil] = "black"
  /\ \A s \in Sides : t.child[s][Nil] = Nil

Weight(t, n) == IF t.color[n] = "black" THEN 1 ELSE 0

(* On every way down from n there are H[n] black nodes, where one that is  *)
(* missing on side a of p is counted; there is none if p is the sentinel.  *)
Heights(t, S, H, p, a) ==
  /\ H \in [TreeNodes -> Nat] /\ H[Nil] = 0
  /\ \A n \in S, s \in Sides :
       H[n] = H[t.child[s][n]] + (IF n = p /\ s = a THEN 1 ELSE 0)
                + Weight(t, n)

(* Red nodes have black children, but for those of hi and for lo.          *)
RedRule(t, S, hi, lo) ==
  \A n \in S, s \in Sides :
    t.color[n] = "red" /\ n # hi /\ t.child[s][n] # lo =>
      t.color[t.child[s][n]] = "black"

(* What holds between calls.                                               *)
Balanced(t, S, U, H) ==
  /\ SearchTree(t, S, U)
  /\ Heights(t, S, H, Nil, "left") /\ RedRule(t, S, Nil, Nil)
  /\ t.color[t.root] = "black"

(* The way to u leads through x.                                           *)
Leads(t, S, U, x, u) ==
  \A n \in S, s \in Sides : x \in U[t.child[s][n]] => Toward(n, u) = s

(* An insertion has put z in: it is red, and its parent may be.            *)
Inserted(t, S, U, H, z) ==
  /\ SearchTree(t, S, U)
  /\ Heights(t, S, H, Nil, "left") /\ RedRule(t, S, Nil, z)
  /\ z \in S /\ t.color[z] = "red"
  /\ t.root # z => t.color[t.root] = "black"

(* z is a red outer grandchild below a red parent, and has a black uncle.  *)
Outer(t, z) ==
  LET p == t.parent[z]
      g == t.parent[p]
      side == SideOf(t, g, p)
  IN  /\ t.color[p] = "red" /\ z = t.child[side][p]
      /\ t.color[t.child[Other(side)][g]] = "black"

(* A deletion has taken a black node away above x.                         *)
OneShort(t, S, U, H, x, a) ==
  /\ SearchTree(t, S, U)
  /\ Heights(t, S, H, t.parent[x], a) /\ RedRule(t, S, x, x)
  /\ x \in S \cup {Nil}
  /\ t.root # x => /\ t.color[t.root] = "black"
                   /\ t.parent[x] \in S /\ t.child[a][t.parent[x]] = x
  /\ t.root = x => t.parent[x] = Nil

(* x is not the root and black, and its sibling is black.                  *)
BlackSibling(t, x, a) ==
  /\ t.root # x /\ t.color[x] = "black"
  /\ t.color[t.child[Other(a)][t.parent[x]]] = "black"

RedNephew(t, x, a) ==
  t.color[t.child[Other(a)][t.child[Other(a)][t.parent[x]]]] = "red"

(* The users in the tree: a call first changes the list.                   *)
Indexed ==
  IF stage = "descend" THEN listed \ {user}
  ELSE IF stage \in {"seek", "minimum"} THEN listed \cup {user}
  ELSE listed

IndexStages ==
  {"idle", "descend", "fixInsert", "turnInsert", "seek", "minimum",
   "fixDelete", "sibling", "turnDelete"}

IndexTypes ==
  /\ tree \in [child : [Sides -> [TreeNodes -> TreeNodes]],
               parent : [TreeNodes -> TreeNodes],
               color : [TreeNodes -> {"red", "black"}]]
  /\ root \in [Processes -> TreeNodes]
  /\ listed \in SUBSET Users /\ loading \in BOOLEAN
  /\ stage \in IndexStages /\ worker \in Processes
  /\ user \in TreeNodes /\ at \in TreeNodes /\ above \in TreeNodes

(* The new node is red and loose, and the way to it goes through above.    *)
Descent(U) ==
  /\ user \in listed
  /\ \A s \in Sides : Here.child[s][user] = Nil
  /\ Here.color[user] = "red"
  /\ above = Nil => at = Here.root
  /\ above # Nil => /\ above \in Indexed
                    /\ at = Here.child[Toward(above, user)][above]
                    /\ Leads(Here, Indexed, U, above, user)

(* On the way to the least user right of the one who is deleted.           *)
Successor(U) ==
  LET r == Here.child["right"][user]
  IN  /\ \A s \in Sides : Here.child[s][user] # Nil
      /\ at \in U[r]
      /\ \A n \in U[r], m \in U[at] : n \in U[at] \/ Toward(n, m) = "left"

(* What the call in progress needs of the tree, at each of its stages.     *)
TreeInv(U, H, a) ==
  /\ stage \in {"idle", "descend", "seek", "minimum"} =>
       Balanced(Here, Indexed, U, H)
  /\ stage = "descend" => Descent(U)
  /\ stage \in {"fixInsert", "turnInsert"} => Inserted(Here, listed, U, H, at)
  /\ stage = "turnInsert" => Outer(Here, at)
  /\ stage \in {"seek", "minimum"} => user \in Users \ listed
  /\ stage = "seek" => at \in Indexed /\ user \in U[at]
  /\ stage = "minimum" => Successor(U)
  /\ stage \in {"fixDelete", "sibling", "turnDelete"} =>
       OneShort(Here, listed, U, H, at, a)
  /\ stage \in {"sibling", "turnDelete"} => BlackSibling(Here, at, a)
  /\ stage = "turnDelete" => RedNephew(Here, at, a)

(* The inductive invariant: U and H give for each node the users below it  *)
(* and its black height.                                                   *)
IndexInv ==
  /\ IndexTypes
  /\ \E U \in [TreeNodes -> SUBSET Indexed], H \in [TreeNodes -> Nat],
        a \in Sides : TreeInv(U, H, a)

-----------------------------------------------------------------------------
(* Facts about the nodes and sides.                                        *)

LEMMA NodesAre ==
  /\ Nil \notin Users /\ Nil \in TreeNodes /\ Users \subseteq TreeNodes
  /\ TreeNodes = Users \cup {Nil}
BY UsersAssumption DEF Nil, TreeNodes, Users

LEMMA SidesAre ==
  /\ Sides = {"left", "right"} /\ "left" # "right"
  /\ Other("left") = "right" /\ Other("right") = "left"
  /\ \A s \in Sides : Other(s) \in Sides /\ Other(s) # s /\ Other(Other(s)) = s
  /\ \A s, r \in Sides : r # s => r = Other(s)
BY DEF Sides, Other

(* Toward sorts the users: who is on one side of the other.                *)
LEMMA TowardIs ==
  ASSUME NEW m \in Users, NEW n \in Users, m # n
  PROVE  /\ Toward(n, m) \in Sides
         /\ Toward(m, n) = Other(Toward(n, m))
BY UsersAssumption DEF Toward, Other, Sides, Users

LEMMA TowardGoesOn ==
  ASSUME NEW l \in Users, NEW m \in Users, NEW n \in Users,
         l # n, m # n, Toward(n, l) = Other(Toward(n, m))
  PROVE  l # m /\ Toward(m, l) = Toward(n, l)
BY UsersAssumption DEF Toward, Other, Users

(* What a search tree says of a node.                                      *)
LEMMA NodeIs ==
  ASSUME NEW t, NEW S, NEW U, SearchTree(t, S, U), NEW n \in S, NEW s \in Sides
  PROVE  /\ n \in Users /\ n # Nil /\ n \in TreeNodes /\ n \in U[n]
         /\ U[n] \subseteq S
         /\ U[n] = {n} \cup U[t.child[s][n]] \cup U[t.child[Other(s)][n]]
         /\ t.child[s][n] \in S \cup {Nil} /\ t.child[s][n] \in TreeNodes
         /\ t.child[s][n] # n
         /\ U[t.child[s][n]] \subseteq U[n] \ {n}
         /\ t.child[s][n] # Nil =>
              /\ t.child[s][n] \in S /\ t.parent[t.child[s][n]] = n
              /\ t.child[s][n] \in U[t.child[s][n]]
              /\ t.child[s][n] # t.child[Other(s)][n]
         /\ \A m \in U[t.child[s][n]] :
              /\ m # n /\ Toward(n, m) = s
              /\ m \notin U[t.child[Other(s)][n]]
<1> DEFINE c == t.child[s][n]
           d == t.child[Other(s)][n]
<1>1. /\ n \in Users /\ n # Nil /\ n \in TreeNodes
      /\ S \subseteq Users /\ S \subseteq TreeNodes
      /\ U \in [TreeNodes -> SUBSET S] /\ U[Nil] = {}
  BY NodesAre DEF SearchTree
<1>2. /\ c \in S \cup {Nil} /\ (c # Nil => t.parent[c] = n)
      /\ d \in S \cup {Nil} /\ (d # Nil => t.parent[d] = n)
      /\ \A m \in U[c] : m # n /\ Toward(n, m) = s
      /\ \A m \in U[d] : m # n /\ Toward(n, m) = Other(s)
  BY SidesAre DEF SearchTree
<1>3. U[n] = {n} \cup U[c] \cup U[d]
  <2>1. U[n] = {n} \cup U[t.child["left"][n]] \cup U[t.child["right"][n]]
    BY DEF SearchTree
  <2>2. CASE s = "left"
    BY <2>1, <2>2, SidesAre
  <2>3. CASE s = "right"
    BY <2>1, <2>3, SidesAre
  <2> QED
    BY <2>2, <2>3, SidesAre
<1>4. \A m \in S : m \in U[m]
  BY DEF SearchTree
<1>5. c \in TreeNodes /\ c \notin U[d] /\ c # n /\ (c # Nil => c \in U[c])
  <2>1. c # Nil => c \in U[c]
    BY <1>2, <1>4
  <2>2. c # n
    BY <1>1, <1>2, <2>1
  <2>3. c \notin U[d]
    <3>1. d \in TreeNodes /\ U[d] \subseteq S /\ Nil \notin S
      BY <1>1, <1>2, NodesAre
    <3>2. c # Nil => Toward(n, c) = s
      BY <1>2, <2>1
    <3> QED
      BY <1>2, <3>1, <3>2, SidesAre
  <2> QED
    BY <1>1, <1>2, <2>1, <2>2, <2>3, NodesAre
<1>6. \A m \in U[c] : m \notin U[d]
  BY <1>2, SidesAre
<1>7. c # Nil => c # d
  BY <1>2, <1>4, <1>5
<1>8. U[n] \subseteq S /\ n \in U[n]
  BY <1>1, <1>4
<1>9. U[c] \subseteq U[n] \ {n}
  BY <1>2, <1>3
<1> HIDE DEF c, d
<1>10. c # Nil => c \in S
  BY <1>2
<1> QED
  BY <1>1, <1>2, <1>3, <1>5, <1>6, <1>7, <1>8, <1>9, <1>10 DEF c, d

LEMMA UsersAreFinite ==
  /\ IsFiniteSet(Users) /\ Cardinality(Users) = NumUsers
  /\ \A V \in SUBSET Users :
       IsFiniteSet(V) /\ Cardinality(V) \in Nat /\ Cardinality(V) <= NumUsers
<1>1. IsFiniteSet(Users) /\ Cardinality(Users) = NumUsers
  BY FS_Interval, UsersAssumption DEF Users
<1>2. ASSUME NEW V \in SUBSET Users
      PROVE  IsFiniteSet(V) /\ Cardinality(V) \in Nat /\ Cardinality(V) <= NumUsers
  BY <1>1, FS_Subset, FS_CardinalityType
<1> QED
  BY <1>1, <1>2

(* There are fewer below a child.                                          *)
LEMMA FewerBelow ==
  ASSUME NEW t, NEW S, NEW U, SearchTree(t, S, U), NEW n \in S, NEW s \in Sides
  PROVE  /\ Cardinality(U[n]) \in Nat /\ Cardinality(U[t.child[s][n]]) \in Nat
         /\ Cardinality(U[t.child[s][n]]) < Cardinality(U[n])
<1>1. /\ U[n] \subseteq Users /\ n \in U[n]
      /\ U[t.child[s][n]] \subseteq U[n] /\ n \notin U[t.child[s][n]]
  BY NodeIs DEF SearchTree
<1> DEFINE A == U[t.child[s][n]]
           B == U[n]
<1>2. A \in SUBSET Users /\ B \in SUBSET Users /\ A \subseteq B /\ A # B
  BY <1>1
<1> HIDE DEF A, B
<1>3. IsFiniteSet(B) /\ Cardinality(A) \in Nat /\ Cardinality(B) \in Nat
  BY <1>2, UsersAreFinite
<1>4. Cardinality(A) <= Cardinality(B) /\ Cardinality(A) # Cardinality(B)
  BY <1>2, <1>3, FS_Subset
<1>5. Cardinality(A) < Cardinality(B)
  BY <1>3, <1>4
<1> QED
  BY <1>3, <1>5 DEF A, B

(* Who hangs below m hangs below somebody who hangs below m.               *)
LEMMA ParentsBelow ==
  ASSUME NEW t, NEW S, NEW U, SearchTree(t, S, U)
  PROVE  \A m \in S : \A c \in U[m] \ {m} :
           t.parent[c] \in U[m] /\ \E s \in Sides : t.child[s][t.parent[c]] = c
<1> DEFINE Ok(m, c) == /\ t.parent[c] \in U[m]
                       /\ \E s \in Sides : t.child[s][t.parent[c]] = c
           Bad == {m \in S : \E c \in U[m] \ {m} : ~Ok(m, c)}
<1> SUFFICES ASSUME Bad # {} PROVE FALSE
  OBVIOUS
<1> DEFINE Sizes == {Cardinality(U[m]) : m \in Bad}
<1>1. Sizes \in SUBSET Nat /\ Sizes # {}
  BY FewerBelow, SidesAre
<1>2. PICK k \in Sizes : \A i \in Sizes : k <= i
  BY <1>1, SmallestIs
<1>3. PICK m \in Bad : k = Cardinality(U[m])
  BY <1>2
<1>4. PICK c \in U[m] \ {m} : ~Ok(m, c)
  BY <1>3
<1>5. PICK s \in Sides : c \in U[t.child[s][m]]
  <2>1. U[m] = {m} \cup U[t.child["left"][m]] \cup U[t.child["right"][m]]
    BY <1>3 DEF SearchTree
  <2> QED
    BY <1>4, <2>1, SidesAre
<1> DEFINE d == t.child[s][m]
<1>6. d \in S /\ t.parent[d] = m /\ m \in U[m] /\ U[d] \subseteq U[m]
  <2>1. d # Nil
    BY <1>5 DEF SearchTree
  <2> QED
    BY <1>3, <2>1, NodeIs
<1>7. c # d
  BY <1>4, <1>6
<1>8. d \notin Bad
  <2>1. Cardinality(U[d]) < k /\ Cardinality(U[d]) \in Nat /\ k \in Nat
    BY <1>3, FewerBelow
  <2> HIDE DEF Bad, d
  <2>2. d \in Bad => k <= Cardinality(U[d])
    BY <1>2
  <2> QED
    BY <2>1, <2>2
<1>9. Ok(d, c)
  BY <1>5, <1>6, <1>7, <1>8
<1> QED
  BY <1>4, <1>6, <1>9

(* Every node but the root hangs below its parent; the root has none.      *)
LEMMA HangsBelow ==
  ASSUME NEW t, NEW S, NEW U, SearchTree(t, S, U), NEW n \in S
  PROVE  /\ t.root \in S /\ t.root # Nil /\ t.parent[t.root] = Nil
         /\ n # t.root =>
              /\ t.parent[n] \in S /\ t.parent[n] # Nil /\ t.parent[n] # n
              /\ SideOf(t, t.parent[n], n) \in Sides
              /\ t.child[SideOf(t, t.parent[n], n)][t.parent[n]] = n
         /\ \A m \in S, s \in Sides :
              t.child[s][m] = n => /\ m = t.parent[n] /\ n # t.root
                                   /\ s = SideOf(t, m, n)
<1>1. n # Nil /\ n \in Users /\ Nil \notin S
  BY NodeIs, NodesAre DEF SearchTree
<1>2. t.root \in S /\ t.root # Nil /\ t.parent[t.root] = Nil
  BY <1>1 DEF SearchTree
<1>3. ASSUME n # t.root
      PROVE  /\ t.parent[n] \in S /\ t.parent[n] # Nil /\ t.parent[n] # n
             /\ SideOf(t, t.parent[n], n) \in Sides
             /\ t.child[SideOf(t, t.parent[n], n)][t.parent[n]] = n
  <2>1. U[t.root] = S
    BY DEF SearchTree
  <2>2. PICK s \in Sides : t.child[s][t.parent[n]] = n /\ t.parent[n] \in S
    BY <1>2, <1>3, <2>1, ParentsBelow
  <2>3. /\ SideOf(t, t.parent[n], n) \in Sides
        /\ t.child[SideOf(t, t.parent[n], n)][t.parent[n]] = n
    BY <2>2 DEF SideOf, Sides
  <2>4. t.parent[n] # n
    BY <2>2, NodeIs
  <2> QED
    BY <1>1, <2>2, <2>3, <2>4
<1>4. ASSUME NEW m \in S, NEW s \in Sides, t.child[s][m] = n
      PROVE  m = t.parent[n] /\ n # t.root /\ s = SideOf(t, m, n)
  <2>1. m = t.parent[n] /\ t.child[Other(s)][m] # n /\ m # Nil
    BY <1>1, <1>4, NodeIs
  <2>2. n # t.root
    BY <1>2, <2>1
  <2>3. s = SideOf(t, m, n)
    BY <1>4, <2>1, SidesAre DEF SideOf
  <2> QED
    BY <2>1, <2>2, <2>3
<1> QED
  BY <1>2, <1>3, <1>4

(* What hangs below a node of a subtree is in the subtree.                 *)
LEMMA SubtreesNest ==
  ASSUME NEW t, NEW S, NEW U, SearchTree(t, S, U)
  PROVE  \A m \in S : \A n \in U[m] : U[n] \subseteq U[m]
<1> DEFINE Bad == {m \in S : \E n \in U[m] : ~(U[n] \subseteq U[m])}
<1> SUFFICES ASSUME Bad # {} PROVE FALSE
  OBVIOUS
<1> DEFINE Sizes == {Cardinality(U[m]) : m \in Bad}
<1>1. Sizes \in SUBSET Nat /\ Sizes # {}
  BY FewerBelow, SidesAre
<1>2. PICK k \in Sizes : \A i \in Sizes : k <= i
  BY <1>1, SmallestIs
<1>3. PICK m \in Bad : k = Cardinality(U[m])
  BY <1>2
<1>4. PICK n \in U[m] : ~(U[n] \subseteq U[m])
  BY <1>3
<1>5. PICK s \in Sides : n \in U[t.child[s][m]]
  <2>1. U[m] = {m} \cup U[t.child["left"][m]] \cup U[t.child["right"][m]]
    BY <1>3 DEF SearchTree
  <2> QED
    BY <1>4, <2>1, SidesAre
<1> DEFINE d == t.child[s][m]
<1>6. d \in S /\ U[d] \subseteq U[m]
  <2>1. d # Nil
    BY <1>5 DEF SearchTree
  <2> QED
    BY <1>3, <2>1, NodeIs
<1>7. d \notin Bad
  <2>1. Cardinality(U[d]) < k /\ Cardinality(U[d]) \in Nat /\ k \in Nat
    BY <1>3, FewerBelow
  <2> HIDE DEF Bad, d
  <2>2. d \in Bad => k <= Cardinality(U[d])
    BY <1>2
  <2> QED
    BY <2>1, <2>2
<1> QED
  BY <1>4, <1>5, <1>6, <1>7

(* Only what is in S matters, and the sentinel.                            *)
LEMMA SameOnUsers ==
  ASSUME NEW t, NEW S, NEW U, SearchTree(t, S, U), NEW r \in Trees,
         r.root = t.root,
         \A s \in Sides, n \in S : r.child[s][n] = t.child[s][n],
         \A n \in S : r.parent[n] = t.parent[n],
         \A s \in Sides : r.child[s][Nil] = Nil,
         r.color[Nil] = "black"
  PROVE  SearchTree(r, S, U)
<1>1. "left" \in Sides /\ "right" \in Sides
  BY SidesAre
<1>2. \A n \in S, s \in Sides :
        /\ r.child[s][n] \in S \cup {Nil}
        /\ r.child[s][n] # Nil => r.parent[r.child[s][n]] = n
        /\ \A m \in U[r.child[s][n]] : m # n /\ Toward(n, m) = s
  BY DEF SearchTree
<1>3. r.root # Nil => r.parent[r.root] = Nil
  BY DEF SearchTree
<1>4. \A n \in S : U[n] = {n} \cup U[r.child["left"][n]]
                              \cup U[r.child["right"][n]]
  BY <1>1 DEF SearchTree
<1> QED
  BY <1>2, <1>3, <1>4 DEF SearchTree

-----------------------------------------------------------------------------
(* What the operators that change links do to them.                        *)

LEMMA ReplaceIs ==
  ASSUME NEW t \in Trees, NEW u \in Users, NEW v \in TreeNodes
  PROVE  LET r == Replace(t, u, v)
             p == t.parent[u]
         IN  /\ r \in Trees /\ r.parent = t.parent /\ r.color = t.color
             /\ r.root = IF p = Nil THEN v ELSE t.root
             /\ \A s \in Sides, n \in TreeNodes :
                  r.child[s][n] = IF p # Nil /\ n = p /\ s = SideOf(t, p, u)
                                  THEN v ELSE t.child[s][n]
<1> DEFINE p == t.parent[u]
           a == SideOf(t, p, u)
<1>1. a \in Sides
  BY DEF SideOf, Sides
<1>2. p \in TreeNodes
  BY NodesAre DEF Trees
<1> HIDE DEF a, p
<1>3. CASE p = Nil
  <2>1. Replace(t, u, v) = [t EXCEPT !.root = v]
    BY <1>3 DEF Replace, p
  <2> QED
    BY <1>3, <2>1 DEF Trees, p
<1>4. CASE p # Nil
  <2>1. Replace(t, u, v) = [t EXCEPT !.child[a][p] = v]
    BY <1>4 DEF Replace, p, a
  <2> DEFINE r == [t EXCEPT !.child[a][p] = v]
  <2>2. /\ r.parent = t.parent /\ r.color = t.color /\ r.root = t.root
        /\ r.child = [t.child EXCEPT ![a][p] = v]
        /\ r \in Trees
    BY <1>1, <1>2 DEF Trees
  <2>3. \A s \in Sides, n \in TreeNodes :
          r.child[s][n] = IF n = p /\ s = a THEN v ELSE t.child[s][n]
    BY <1>1, <1>2, <2>2 DEF Trees
  <2> HIDE DEF r
  <2> QED
    BY <1>4, <2>1, <2>2, <2>3 DEF p, a, r
<1> QED
  BY <1>3, <1>4

LEMMA RotateIs ==
  ASSUME NEW t \in Trees, NEW x \in Users, NEW side \in Sides,
         t.child[Other(side)][x] # Nil
  PROVE  LET r == Rotate(t, x, side)
             y == t.child[Other(side)][x]
             inner == t.child[side][y]
             p == t.parent[x]
         IN  /\ r \in Trees /\ r.color = t.color
             /\ r.root = IF p = Nil THEN y ELSE t.root
             /\ \A s \in Sides, n \in TreeNodes :
                  r.child[s][n] =
                    IF n = y /\ s = side THEN x
                    ELSE IF n = x /\ s = Other(side) THEN inner
                    ELSE IF p # Nil /\ n = p /\ s = SideOf(t, p, x) THEN y
                    ELSE t.child[s][n]
             /\ \A n \in TreeNodes :
                  r.parent[n] = IF n = x THEN y
                                ELSE IF n = y THEN p
                                ELSE IF n = inner /\ n # Nil THEN x
                                ELSE t.parent[n]
<1> DEFINE far == Other(side)
           y == t.child[far][x]
           inner == t.child[side][y]
           p == t.parent[x]
           a == SideOf(t, p, x)
           b == Replace(t, x, y)
           up == [n \in TreeNodes |-> IF n = x THEN y
                                      ELSE IF n = y THEN p
                                      ELSE IF n = inner /\ n # Nil THEN x
                                      ELSE b.parent[n]]
           kids == [b.child EXCEPT ![far][x] = inner, ![side][y] = x]
           r == [b EXCEPT !.child = kids, !.parent = up]
<1>1. far \in Sides /\ far # side /\ x \in TreeNodes
  BY SidesAre, NodesAre
<1>2. y \in TreeNodes /\ inner \in TreeNodes /\ p \in TreeNodes
  BY <1>1 DEF Trees
<1>3. /\ b \in Trees /\ b.parent = t.parent /\ b.color = t.color
      /\ b.root = IF p = Nil THEN y ELSE t.root
      /\ \A s \in Sides, n \in TreeNodes :
           b.child[s][n] = IF p # Nil /\ n = p /\ s = a THEN y
                           ELSE t.child[s][n]
  BY <1>2, ReplaceIs
<1>4. Rotate(t, x, side) = r
  <2>1. b = [child |-> b.child, parent |-> b.parent, color |-> b.color,
             root |-> b.root]
    BY <1>3 DEF Trees
  <2> HIDE DEF b
  <2>2. Rotate(t, x, side) =
          [b EXCEPT !.child[far][x] = inner, !.child[side][y] = x,
             !.parent = [n \in TreeNodes |->
                       IF n = x THEN y
                       ELSE IF n = y THEN p
                       ELSE IF n = inner /\ n # Nil THEN x
                       ELSE @[n]]]
    BY DEF Rotate, b
  <2> QED
    BY <2>1, <2>2
<1> HIDE DEF b, a, far
<1>5. kids \in [Sides -> [TreeNodes -> TreeNodes]]
  BY <1>1, <1>2, <1>3 DEF Trees
<1>6. up \in [TreeNodes -> TreeNodes]
  BY <1>1, <1>2, <1>3 DEF Trees
<1>7. \A s \in Sides, n \in TreeNodes :
        kids[s][n] = IF n = y /\ s = side THEN x
                     ELSE IF n = x /\ s = far THEN inner
                     ELSE b.child[s][n]
  BY <1>1, <1>2, <1>3 DEF Trees
<1> HIDE DEF kids, up
<1>8. /\ r \in Trees /\ r.child = kids /\ r.parent = up /\ r.root = b.root
      /\ r.color = t.color
  BY <1>3, <1>5, <1>6 DEF Trees
<1> HIDE DEF r
<1>9. \A n \in TreeNodes :
        up[n] = IF n = x THEN y
                ELSE IF n = y THEN p
                ELSE IF n = inner /\ n # Nil THEN x
                ELSE t.parent[n]
  BY <1>3 DEF up
<1>10. /\ r.root = IF p = Nil THEN y ELSE t.root
       /\ \A s \in Sides, n \in TreeNodes :
            r.child[s][n] = IF n = y /\ s = side THEN x
                            ELSE IF n = x /\ s = far THEN inner
                            ELSE IF p # Nil /\ n = p /\ s = a THEN y
                            ELSE t.child[s][n]
  BY <1>3, <1>7, <1>8
<1> HIDE DEF y, inner, p
<1> QED
  BY <1>4, <1>8, <1>9, <1>10 DEF far, a, y, inner, p

LEMMA TransplantIs ==
  ASSUME NEW t \in Trees, NEW u \in Users, NEW v \in TreeNodes
  PROVE  LET r == Transplant(t, u, v)
             p == t.parent[u]
         IN  /\ r \in Trees /\ r.color = t.color
             /\ r.root = IF p = Nil THEN v ELSE t.root
             /\ \A s \in Sides, n \in TreeNodes :
                  r.child[s][n] = IF p # Nil /\ n = p /\ s = SideOf(t, p, u)
                                  THEN v ELSE t.child[s][n]
             /\ \A n \in TreeNodes :
                  r.parent[n] = IF n = v THEN p ELSE t.parent[n]
<1> DEFINE b == Replace(t, u, v)
           p == t.parent[u]
           r == [b EXCEPT !.parent[v] = p]
<1>1. p \in TreeNodes
  BY NodesAre DEF Trees
<1>2. /\ b \in Trees /\ b.parent = t.parent /\ b.color = t.color
      /\ b.root = IF p = Nil THEN v ELSE t.root
      /\ \A s \in Sides, n \in TreeNodes :
           b.child[s][n] = IF p # Nil /\ n = p /\ s = SideOf(t, p, u)
                           THEN v ELSE t.child[s][n]
  BY ReplaceIs
<1>3. Transplant(t, u, v) = r
  BY DEF Transplant
<1> HIDE DEF b, p
<1>4. /\ r \in Trees /\ r.child = b.child /\ r.root = b.root
      /\ r.color = t.color
      /\ r.parent = [t.parent EXCEPT ![v] = p]
  BY <1>1, <1>2 DEF Trees
<1>5. \A n \in TreeNodes : r.parent[n] = IF n = v THEN p ELSE t.parent[n]
  BY <1>4 DEF Trees
<1> HIDE DEF r
<1> QED
  BY <1>2, <1>3, <1>4, <1>5 DEF p

(* A rotation in a search tree: whoever led to x leads to y.               *)
LEMMA RotateLinks ==
  ASSUME NEW t, NEW S, NEW U, SearchTree(t, S, U), NEW x \in S,
         NEW side \in Sides, t.child[Other(side)][x] # Nil
  PROVE  LET r == Rotate(t, x, side)
             y == t.child[Other(side)][x]
             inner == t.child[side][y]
         IN  /\ r \in Trees /\ r.color = t.color
             /\ y \in S /\ y # x /\ inner \in S \cup {Nil}
             /\ inner # x /\ inner # y
             /\ r.root = IF t.root = x THEN y ELSE t.root
             /\ \A s \in Sides, n \in S :
                  /\ t.child[s][n] = x => n # x /\ n # y
                  /\ r.child[s][n] =
                       IF n = y /\ s = side THEN x
                       ELSE IF n = x /\ s = Other(side) THEN inner
                       ELSE IF t.child[s][n] = x THEN y ELSE t.child[s][n]
             /\ \A s \in Sides : r.child[s][Nil] = Nil
             /\ \A n \in S :
                  r.parent[n] = IF n = x THEN y
                                ELSE IF n = y THEN t.parent[x]
                                ELSE IF n = inner THEN x ELSE t.parent[n]
<1> DEFINE far == Other(side)
           r == Rotate(t, x, side)
           y == t.child[far][x]
           inner == t.child[side][y]
           p == t.parent[x]
           a == SideOf(t, p, x)
<1>1. /\ t \in Trees /\ S \subseteq Users /\ x \in Users /\ Nil \notin S
      /\ S \subseteq TreeNodes /\ far \in Sides /\ Nil \in TreeNodes
  BY NodesAre, SidesAre DEF SearchTree
<1>2. /\ y \in S /\ y # x /\ t.parent[y] = x /\ y # Nil
  BY <1>1, NodeIs
<1>3. /\ inner \in S \cup {Nil} /\ inner # y /\ (inner # Nil => t.parent[inner] = y)
  BY <1>2, NodeIs
<1>4. /\ x # t.root => p \in S /\ p # Nil /\ t.child[a][p] = x
      /\ x = t.root => p = Nil
      /\ \A m \in S, s \in Sides :
           t.child[s][m] = x => m = p /\ x # t.root /\ s = a
      /\ p # y /\ p # x
  <2>1. y # t.root /\ \A m \in S, s \in Sides : t.child[s][m] = y => m = x
    BY <1>1, <1>2, HangsBelow
  <2>2. /\ x # t.root => p \in S /\ p # Nil /\ t.child[a][p] = x
        /\ x = t.root => p = Nil
        /\ \A m \in S, s \in Sides :
             t.child[s][m] = x => m = p /\ x # t.root /\ s = a
        /\ p # x
    BY <1>1, HangsBelow
  <2>3. p # y
    <3>1. ASSUME p = y PROVE FALSE
      <4>1. x # t.root
        BY <1>2, <2>2, <3>1
      <4>2. a \in Sides
        BY DEF a, SideOf, Sides
      <4>3. x \in U[y]
        BY <1>2, <2>2, <3>1, <4>1, <4>2, NodeIs
      <4>4. U[y] \subseteq U[x] \ {x}
        BY <1>1, NodeIs
      <4> QED
        BY <4>3, <4>4
    <3> QED
      BY <3>1
  <2> QED
    BY <2>2, <2>3
<1>5. inner # x
  BY <1>2, <1>3, <1>4
<1>6. /\ r \in Trees /\ r.color = t.color
      /\ r.root = IF p = Nil THEN y ELSE t.root
      /\ \A s \in Sides, n \in TreeNodes :
           r.child[s][n] = IF n = y /\ s = side THEN x
                           ELSE IF n = x /\ s = far THEN inner
                           ELSE IF p # Nil /\ n = p /\ s = a THEN y
                           ELSE t.child[s][n]
      /\ \A n \in TreeNodes :
           r.parent[n] = IF n = x THEN y
                         ELSE IF n = y THEN p
                         ELSE IF n = inner /\ n # Nil THEN x
                         ELSE t.parent[n]
  BY <1>1, <1>2, RotateIs
<1> HIDE DEF r, y, inner, p, a, far
<1>7. r.root = IF t.root = x THEN y ELSE t.root
  BY <1>1, <1>4, <1>6
<1>8. \A s \in Sides, n \in S :
        /\ t.child[s][n] = x => n # x /\ n # y
        /\ r.child[s][n] =
             IF n = y /\ s = side THEN x
             ELSE IF n = x /\ s = far THEN inner
             ELSE IF t.child[s][n] = x THEN y ELSE t.child[s][n]
  BY <1>1, <1>4, <1>6
<1>9. \A s \in Sides : r.child[s][Nil] = Nil
  <2>1. \A s \in Sides : t.child[s][Nil] = Nil
    BY DEF SearchTree
  <2>2. y # Nil /\ x # Nil
    BY <1>1, <1>2
  <2> QED
    BY <1>1, <1>6, <2>1, <2>2
<1>10. \A n \in S :
         r.parent[n] = IF n = x THEN y
                       ELSE IF n = y THEN p
                       ELSE IF n = inner THEN x ELSE t.parent[n]
  BY <1>1, <1>6
<1>11. y \in S /\ y # x
  BY <1>2
<1> QED
  BY <1>3, <1>5, <1>6, <1>7, <1>8, <1>9, <1>10, <1>11 DEF r, y, inner, p, far

(* Who is below whom after the rotation.                                   *)
Turned(t, U, x, side) ==
  LET y == t.child[Other(side)][x]
  IN  [U EXCEPT ![x] = {x} \cup U[t.child[side][x]] \cup U[t.child[side][y]],
                ![y] = U[x]]

(* rbt_left_rotate and rbt_right_rotate keep the users of the tree and     *)
(* their order, and parents and children agree.                            *)
THEOREM RotateKeepsTree ==
  ASSUME NEW t, NEW S, NEW U, SearchTree(t, S, U), NEW x \in S,
         NEW side \in Sides, t.child[Other(side)][x] # Nil
  PROVE  SearchTree(Rotate(t, x, side), S, Turned(t, U, x, side))
<1> DEFINE far == Other(side)
           r == Rotate(t, x, side)
           y == t.child[far][x]
           inner == t.child[side][y]
           outer == t.child[side][x]
           end == t.child[far][y]
           V == Turned(t, U, x, side)
<1>1. /\ t \in Trees /\ S \subseteq Users /\ x \in Users /\ Nil \notin S
      /\ S \subseteq TreeNodes /\ far \in Sides /\ far # side /\ Other(far) = side
      /\ U \in [TreeNodes -> SUBSET S] /\ U[Nil] = {} /\ U[t.root] = S
      /\ t.root \in S \cup {Nil}
      /\ \A s \in Sides : s = side \/ s = far
  BY NodesAre, SidesAre DEF SearchTree
<1>2. /\ r \in Trees /\ r.color = t.color
      /\ y \in S /\ y # x /\ inner \in S \cup {Nil}
      /\ inner # x /\ inner # y
      /\ r.root = IF t.root = x THEN y ELSE t.root
      /\ \A s \in Sides, n \in S :
           /\ t.child[s][n] = x => n # x /\ n # y
           /\ r.child[s][n] =
                IF n = y /\ s = side THEN x
                ELSE IF n = x /\ s = far THEN inner
                ELSE IF t.child[s][n] = x THEN y ELSE t.child[s][n]
      /\ \A s \in Sides : r.child[s][Nil] = Nil
      /\ \A n \in S :
           r.parent[n] = IF n = x THEN y
                         ELSE IF n = y THEN t.parent[x]
                         ELSE IF n = inner THEN x ELSE t.parent[n]
  BY RotateLinks
<1>3. /\ U[x] = {x} \cup U[outer] \cup U[y] /\ U[y] = {y} \cup U[inner] \cup U[end]
      /\ outer \in S \cup {Nil} /\ outer # x /\ outer # y
      /\ end \in S \cup {Nil} /\ end # x /\ end # y
  <2>1. U[y] = {y} \cup U[end] \cup U[inner] /\ end # y /\ end \in S \cup {Nil}
    BY <1>1, <1>2, NodeIs
  <2>2. U[x] = {x} \cup U[y] \cup U[outer] /\ y # outer
    BY <1>1, <1>2, NodeIs
  <2>3. outer # x /\ outer \in S \cup {Nil} /\ end # x
    BY <1>1, <1>2, NodeIs
  <2> QED
    BY <2>1, <2>2, <2>3
<1>4. /\ V \in [TreeNodes -> SUBSET S]
      /\ \A n \in TreeNodes : V[n] = IF n = y THEN U[x]
                                     ELSE IF n = x
                                     THEN {x} \cup U[outer] \cup U[inner]
                                     ELSE U[n]
  <2>1. outer \in TreeNodes /\ inner \in TreeNodes
    BY <1>1, <1>2, <1>3, NodesAre
  <2> DEFINE low == {x} \cup U[outer] \cup U[inner]
  <2>2. V = [U EXCEPT ![x] = low, ![y] = U[x]]
    BY DEF Turned
  <2>3. low \in SUBSET S /\ U[x] \in SUBSET S /\ x \in TreeNodes /\ y \in TreeNodes
    BY <1>1, <1>2, <2>1
  <2> HIDE DEF low, V, y
  <2>4. /\ V \in [TreeNodes -> SUBSET S]
        /\ \A n \in TreeNodes : V[n] = IF n = y THEN U[x]
                                       ELSE IF n = x THEN low ELSE U[n]
    BY <1>1, <1>2, <2>2, <2>3
  <2> QED
    BY <2>4 DEF low
<1>5. \A n \in S, s \in Sides :
        /\ t.child[s][n] \in S \cup {Nil}
        /\ t.child[s][n] # Nil => t.parent[t.child[s][n]] = n
        /\ \A m \in U[t.child[s][n]] : m # n /\ Toward(n, m) = s
  BY DEF SearchTree
<1>6. /\ \A m \in U[inner] : m # x /\ Toward(x, m) = far
      /\ \A m \in U[x] \ U[y] : m # y /\ Toward(y, m) = side
  <2>1. U[inner] \subseteq U[y]
    BY <1>3
  <2>2. \A m \in U[y] : m # x /\ Toward(x, m) = far
    BY <1>1, <1>5
  <2>3. y \in U[y] /\ y \in Users
    BY <1>1, <1>2, NodeIs
  <2>4. Toward(x, y) = far /\ Toward(y, x) = side
    BY <1>1, <1>2, <2>2, <2>3, TowardIs
  <2>5. ASSUME NEW m \in U[outer] PROVE m # y /\ Toward(y, m) = side
    <3>1. m # x /\ Toward(x, m) = side /\ m \in Users
      BY <1>1, <1>3, <1>5, <2>5, NodesAre
    <3> QED
      BY <1>1, <1>2, <2>3, <2>4, <3>1, TowardGoesOn
  <2> QED
    BY <1>2, <1>3, <2>1, <2>2, <2>4, <2>5
<1> HIDE DEF r, y, inner, outer, end, far, V
<1>7. \A n \in S : V[n] = {n} \cup V[r.child[side][n]] \cup V[r.child[far][n]]
  <2> SUFFICES ASSUME NEW n \in S
               PROVE  V[n] = {n} \cup V[r.child[side][n]] \cup V[r.child[far][n]]
    OBVIOUS
  <2> DEFINE c == t.child[side][n]
             d == t.child[far][n]
  <2>1. n \in TreeNodes /\ c \in TreeNodes /\ d \in TreeNodes
    BY <1>1, <1>5, NodesAre
  <2>2. outer \in TreeNodes /\ inner \in TreeNodes /\ end \in TreeNodes
    BY <1>1, <1>2, <1>3, NodesAre
  <2>3. CASE n = x
    <3>1. r.child[side][n] = outer /\ r.child[far][n] = inner
      BY <1>1, <1>2, <1>3, <2>3 DEF outer
    <3>2. V[outer] = U[outer] /\ V[inner] = U[inner]
      BY <1>2, <1>3, <1>4, <2>2
    <3> QED
      BY <1>2, <1>4, <2>1, <2>3, <3>1, <3>2
  <2>4. CASE n = y
    <3>1. r.child[side][n] = x /\ r.child[far][n] = end
      BY <1>1, <1>2, <1>3, <2>4 DEF end
    <3>2. V[x] = {x} \cup U[outer] \cup U[inner] /\ V[end] = U[end]
      BY <1>1, <1>2, <1>3, <1>4, <2>2
    <3> QED
      BY <1>3, <1>4, <2>1, <2>4, <3>1, <3>2
  <2>5. CASE n # x /\ n # y
    <3>1. /\ r.child[side][n] = IF c = x THEN y ELSE c
          /\ r.child[far][n] = IF d = x THEN y ELSE d
      BY <1>1, <1>2, <2>5
    <3>2. U[n] = {n} \cup U[c] \cup U[d]
      BY NodeIs DEF far
    <3>3. c # y /\ d # y
      <4>1. t.parent[y] = x /\ y # Nil
        BY <1>1, <1>2, <1>5 DEF y
      <4> QED
        BY <1>1, <1>5, <2>5, <4>1
    <3>4. V[r.child[side][n]] = U[c] /\ V[r.child[far][n]] = U[d]
      BY <1>1, <1>2, <1>4, <2>1, <3>1, <3>3
    <3> QED
      BY <1>4, <2>1, <2>5, <3>2, <3>4
  <2> QED
    BY <2>3, <2>4, <2>5
<1>8. \A n \in S, s \in Sides :
        /\ r.child[s][n] \in S \cup {Nil}
        /\ r.child[s][n] # Nil => r.parent[r.child[s][n]] = n
  <2> SUFFICES ASSUME NEW n \in S, NEW s \in Sides
               PROVE  /\ r.child[s][n] \in S \cup {Nil}
                      /\ r.child[s][n] # Nil => r.parent[r.child[s][n]] = n
    OBVIOUS
  <2> DEFINE c == t.child[s][n]
  <2>1. /\ c \in S \cup {Nil} /\ (c # Nil => t.parent[c] = n)
        /\ c = x => n # x /\ n # y
        /\ r.child[s][n] = IF n = y /\ s = side THEN x
                           ELSE IF n = x /\ s = far THEN inner
                           ELSE IF c = x THEN y ELSE c
    BY <1>2, <1>5
  <2>2. t.parent[y] = x /\ (inner # Nil => t.parent[inner] = y)
    BY <1>1, <1>2, <1>5 DEF y, inner
  <2>3. CASE n = y /\ s = side
    BY <1>1, <1>2, <2>1, <2>3
  <2>4. CASE n = x /\ s = far
    BY <1>1, <1>2, <2>1, <2>4
  <2>5. CASE c = x
    BY <1>1, <1>2, <2>1, <2>5
  <2>6. CASE c # x /\ ~(n = y /\ s = side) /\ ~(n = x /\ s = far)
    <3>1. r.child[s][n] = c
      BY <2>1, <2>6
    <3>2. ASSUME c # Nil PROVE r.parent[c] = n
      <4>1. c # y
        <5>1. c = y => n = x
          BY <2>1, <2>2, <3>2
        <5>2. n = x => s = side
          BY <1>1, <2>6
        <5>3. n = x => c = outer
          BY <5>2 DEF outer
        <5> QED
          BY <1>3, <5>1, <5>3
      <4>2. c # inner
        <5>1. c = inner => n = y /\ s = far
          BY <1>1, <2>1, <2>2, <2>6, <3>2
        <5>2. n = y /\ s = far /\ c = inner => FALSE
          <6>1. \A m \in U[t.child[side][y]] : Toward(y, m) = side
            BY <1>1, <1>2, <1>5
          <6>2. inner # Nil => inner \in U[inner]
            BY <1>2, NodeIs
          <6>3. \A m \in U[t.child[far][y]] : Toward(y, m) = far
            BY <1>1, <1>2, <1>5
          <6> QED
            BY <1>1, <3>2, <6>1, <6>2, <6>3 DEF inner
        <5> QED
          BY <5>1, <5>2
      <4>3. c \in S
        BY <2>1, <3>2
      <4> QED
        BY <1>2, <2>1, <2>6, <3>2, <4>1, <4>2, <4>3
    <3> QED
      BY <2>1, <3>1, <3>2
  <2> QED
    BY <2>3, <2>4, <2>5, <2>6
<1>9. \A n \in S, s \in Sides :
        \A m \in V[r.child[s][n]] : m # n /\ Toward(n, m) = s
  <2> SUFFICES ASSUME NEW n \in S, NEW s \in Sides, NEW m \in V[r.child[s][n]]
               PROVE  m # n /\ Toward(n, m) = s
    OBVIOUS
  <2> DEFINE c == t.child[s][n]
  <2>1. /\ c \in TreeNodes
        /\ \A k \in U[c] : k # n /\ Toward(n, k) = s
        /\ r.child[s][n] = IF n = y /\ s = side THEN x
                           ELSE IF n = x /\ s = far THEN inner
                           ELSE IF c = x THEN y ELSE c
    BY <1>2, <1>5, NodesAre, <1>1
  <2>2. x \in TreeNodes /\ y \in TreeNodes /\ inner \in TreeNodes
    BY <1>1, <1>2, NodesAre
  <2>3. CASE n = y /\ s = side
    <3>1. m \in {x} \cup U[outer] \cup U[inner]
      BY <1>2, <1>4, <2>1, <2>2, <2>3
    <3>2. m \in U[inner] => m # n /\ Toward(n, m) = s
      BY <1>1, <1>2, <1>5, <2>3 DEF inner
    <3>3. x \in U[x] /\ x \notin U[y] /\ \A k \in U[outer] : k \notin U[y]
      <4>1. \A k \in U[y] : Toward(x, k) = far /\ k # x
        BY <1>1, <1>5 DEF y
      <4>2. \A k \in U[outer] : Toward(x, k) = side
        BY <1>1, <1>5 DEF outer
      <4> QED
        BY <1>1, <1>3, <4>1, <4>2
    <3> QED
      BY <1>3, <1>6, <2>3, <3>1, <3>2, <3>3
  <2>4. CASE n = x /\ s = far
    <3>1. m \in U[inner]
      BY <1>1, <1>2, <1>4, <2>1, <2>2, <2>4
    <3> QED
      BY <1>6, <2>4, <3>1
  <2>5. CASE c = x /\ n # x /\ n # y
    BY <1>4, <2>1, <2>2, <2>5
  <2>6. CASE c # x /\ ~(n = y /\ s = side) /\ ~(n = x /\ s = far)
    <3>1. c # y
      <4>1. t.parent[y] = x /\ y # Nil
        BY <1>1, <1>2, <1>5 DEF y
      <4>2. c = y => n = x
        BY <1>5, <4>1
      <4>3. n = x => c = outer
        BY <1>1, <2>6 DEF outer
      <4> QED
        BY <1>3, <4>2, <4>3
    <3> QED
      BY <1>4, <2>1, <2>6, <3>1
  <2> QED
    BY <1>2, <2>3, <2>4, <2>5, <2>6
<1>10. /\ r.root \in S \cup {Nil} /\ V[r.root] = S
       /\ r.root # Nil => r.parent[r.root] = Nil
  <2>1. t.root # Nil => t.parent[t.root] = Nil
    BY DEF SearchTree
  <2>2. t.parent[y] = x /\ y # Nil /\ x # Nil /\ (inner # Nil => t.parent[inner] = y)
    BY <1>1, <1>2, <1>5 DEF y, inner
  <2>3. CASE t.root = x
    BY <1>1, <1>2, <1>4, <2>1, <2>2, <2>3
  <2>4. CASE t.root # x
    <3>1. t.root # y /\ (t.root = inner => t.root = Nil)
      BY <1>1, <1>2, <2>1, <2>2
    <3>2. t.root \in TreeNodes
      BY <1>1, NodesAre
    <3> QED
      BY <1>1, <1>2, <1>4, <2>1, <2>4, <3>1, <3>2
  <2> QED
    BY <2>3, <2>4
<1>11. \A n \in S : V[n] = {n} \cup V[r.child["left"][n]] \cup V[r.child["right"][n]]
  <2>1. \/ side = "left" /\ far = "right"
        \/ side = "right" /\ far = "left"
    BY SidesAre DEF far
  <2> QED
    BY <1>7, <2>1
<1>12. V[Nil] = {} /\ r.color[Nil] = "black"
  <2>1. t.color[Nil] = "black" /\ Nil # x /\ Nil # y /\ Nil \in TreeNodes
    BY <1>1, <1>2, NodesAre DEF SearchTree
  <2> QED
    BY <1>1, <1>2, <1>4, <2>1
<1>13. SearchTree(r, S, V)
  BY <1>1, <1>2, <1>4, <1>8, <1>9, <1>10, <1>11, <1>12 DEF SearchTree
<1> QED
  BY <1>13 DEF r, V

(* Who takes the place of a user with at most one child is taken out.      *)
LEMMA TransplantLinks ==
  ASSUME NEW t, NEW S, NEW U, SearchTree(t, S, U), NEW z \in S,
         NEW x \in TreeNodes, x # z
  PROVE  LET r == Transplant(t, z, x)
         IN  /\ r \in Trees /\ r.color = t.color
             /\ r.root = IF t.root = z THEN x ELSE t.root
             /\ \A s \in Sides, n \in S :
                  r.child[s][n] = IF t.child[s][n] = z THEN x ELSE t.child[s][n]
             /\ \A s \in Sides : r.child[s][Nil] = Nil
             /\ \A n \in TreeNodes :
                  r.parent[n] = IF n = x THEN t.parent[z] ELSE t.parent[n]
<1> DEFINE r == Transplant(t, z, x)
           p == t.parent[z]
           a == SideOf(t, p, z)
<1>1. /\ t \in Trees /\ S \subseteq Users /\ z \in Users /\ Nil \notin S
      /\ S \subseteq TreeNodes /\ Nil \in TreeNodes
      /\ \A s \in Sides : t.child[s][Nil] = Nil
  BY NodesAre DEF SearchTree
<1>2. /\ z # t.root => p \in S /\ p # Nil /\ t.child[a][p] = z
      /\ z = t.root => p = Nil
      /\ \A m \in S, s \in Sides :
           t.child[s][m] = z => m = p /\ z # t.root /\ s = a
  BY <1>1, HangsBelow
<1>3. /\ r \in Trees /\ r.color = t.color
      /\ r.root = IF p = Nil THEN x ELSE t.root
      /\ \A s \in Sides, n \in TreeNodes :
           r.child[s][n] = IF p # Nil /\ n = p /\ s = a THEN x
                           ELSE t.child[s][n]
      /\ \A n \in TreeNodes : r.parent[n] = IF n = x THEN p ELSE t.parent[n]
  BY <1>1, TransplantIs
<1> HIDE DEF r, p, a
<1>4. r.root = IF t.root = z THEN x ELSE t.root
  BY <1>1, <1>2, <1>3
<1>5. \A s \in Sides, n \in S :
        r.child[s][n] = IF t.child[s][n] = z THEN x ELSE t.child[s][n]
  BY <1>1, <1>2, <1>3
<1>6. \A s \in Sides : r.child[s][Nil] = Nil
  BY <1>1, <1>2, <1>3
<1> QED
  BY <1>3, <1>4, <1>5, <1>6 DEF r, p

Without(U, z) == [n \in TreeNodes |-> U[n] \ {z}]

(* bst_delete of a user who lacks a child, by rbt_transplant, keeps the    *)
(* others and their order.                                                 *)
THEOREM TransplantKeepsTree ==
  ASSUME NEW t, NEW S, NEW U, SearchTree(t, S, U), NEW z \in S,
         NEW side \in Sides, t.child[Other(side)][z] = Nil
  PROVE  SearchTree(Transplant(t, z, t.child[side][z]), S \ {z}, Without(U, z))
<1> DEFINE x == t.child[side][z]
           r == Transplant(t, z, x)
           T == S \ {z}
           V == Without(U, z)
<1>1. /\ t \in Trees /\ S \subseteq Users /\ Nil \notin S
      /\ S \subseteq TreeNodes /\ T \subseteq Users
      /\ U \in [TreeNodes -> SUBSET S] /\ U[Nil] = {} /\ U[t.root] = S
      /\ t.root \in S \cup {Nil} /\ Nil \in TreeNodes
      /\ t.root # Nil => t.parent[t.root] = Nil
  BY NodesAre DEF SearchTree
<1>2. \A n \in S, s \in Sides :
        /\ t.child[s][n] \in S \cup {Nil}
        /\ t.child[s][n] # Nil => t.parent[t.child[s][n]] = n
        /\ \A m \in U[t.child[s][n]] : m # n /\ Toward(n, m) = s
  BY DEF SearchTree
<1>3. /\ x \in S \cup {Nil} /\ x \in TreeNodes /\ x # z
      /\ (x # Nil => t.parent[x] = z)
      /\ U[z] = {z} \cup U[x] /\ z \notin U[x]
  <2>1. U[z] = {z} \cup U[x] \cup U[t.child[Other(side)][z]]
    BY NodeIs
  <2> QED
    BY <1>1, <2>1, NodeIs
<1>4. /\ r \in Trees /\ r.color = t.color
      /\ r.root = IF t.root = z THEN x ELSE t.root
      /\ \A s \in Sides, n \in S :
           r.child[s][n] = IF t.child[s][n] = z THEN x ELSE t.child[s][n]
      /\ \A s \in Sides : r.child[s][Nil] = Nil
      /\ \A n \in TreeNodes :
           r.parent[n] = IF n = x THEN t.parent[z] ELSE t.parent[n]
  BY <1>3, TransplantLinks
<1>5. /\ V \in [TreeNodes -> SUBSET T]
      /\ \A n \in TreeNodes : V[n] = U[n] \ {z}
  BY <1>1 DEF Without
<1> HIDE DEF r, x, V
<1>6. ASSUME NEW n \in T, NEW s \in Sides
      PROVE  /\ r.child[s][n] \in T \cup {Nil}
             /\ r.child[s][n] # Nil => r.parent[r.child[s][n]] = n
             /\ V[r.child[s][n]] = U[t.child[s][n]] \ {z}
             /\ \A m \in V[r.child[s][n]] : m # n /\ Toward(n, m) = s
  <2> DEFINE c == t.child[s][n]
  <2>1. /\ c \in S \cup {Nil} /\ (c # Nil => t.parent[c] = n)
        /\ \A m \in U[c] : m # n /\ Toward(n, m) = s
        /\ r.child[s][n] = IF c = z THEN x ELSE c
        /\ c \in TreeNodes
    BY <1>1, <1>2, <1>4, NodesAre
  <2>2. V[r.child[s][n]] = U[c] \ {z}
    BY <1>3, <1>5, <2>1
  <2>3. r.child[s][n] \in T \cup {Nil}
    BY <1>1, <1>3, <2>1
  <2>4. ASSUME r.child[s][n] # Nil PROVE r.parent[r.child[s][n]] = n
    <3>1. CASE c = z
      BY <1>1, <1>3, <1>4, <2>1, <2>4, <3>1
    <3>2. CASE c # z
      <4>1. c # Nil /\ c # x
        BY <1>3, <2>1, <2>4, <3>2
      <4> QED
        BY <1>4, <2>1, <3>2, <4>1
    <3> QED
      BY <3>1, <3>2
  <2> QED
    BY <2>1, <2>2, <2>3, <2>4
<1>7. \A n \in T : V[n] = {n} \cup V[r.child["left"][n]] \cup V[r.child["right"][n]]
  <2> SUFFICES ASSUME NEW n \in T
               PROVE  V[n] = {n} \cup V[r.child["left"][n]] \cup V[r.child["right"][n]]
    OBVIOUS
  <2>1. U[n] = {n} \cup U[t.child["left"][n]] \cup U[t.child["right"][n]]
    BY DEF SearchTree
  <2>2. /\ V[r.child["left"][n]] = U[t.child["left"][n]] \ {z}
        /\ V[r.child["right"][n]] = U[t.child["right"][n]] \ {z}
    BY <1>6, SidesAre
  <2>3. V[n] = U[n] \ {z} /\ n # z
    BY <1>1, <1>5
  <2> QED
    BY <2>1, <2>2, <2>3
<1>8. /\ r.root \in T \cup {Nil} /\ V[r.root] = T
      /\ r.root # Nil => r.parent[r.root] = Nil
  <2>1. CASE t.root = z
    BY <1>1, <1>3, <1>4, <1>5, <2>1
  <2>2. CASE t.root # z
    <3>1. t.root = x => t.root = Nil
      BY <1>1, <1>3
    <3>2. t.root \in TreeNodes
      BY <1>1
    <3> QED
      BY <1>1, <1>4, <1>5, <2>2, <3>1, <3>2
  <2> QED
    BY <2>1, <2>2
<1>9. V[Nil] = {} /\ r.color[Nil] = "black"
  BY <1>1, <1>4, <1>5 DEF SearchTree
<1>10. SearchTree(r, T, V)
  BY <1>1, <1>4, <1>5, <1>6, <1>7, <1>8, <1>9 DEF SearchTree
<1> QED
  BY <1>10 DEF r, V, x

(* bst_insert hangs u below y, on the side where it looked for u.          *)
LEMMA HangIs ==
  ASSUME NEW t \in Trees, NEW u \in Users, NEW y \in TreeNodes, y # u
  PROVE  LET r == Hang(t, u, y)
         IN  /\ r \in Trees /\ r.color = t.color
             /\ r.root = IF y = Nil THEN u ELSE t.root
             /\ \A s \in Sides, n \in TreeNodes :
                  r.child[s][n] = IF y # Nil /\ n = y /\ s = Toward(y, u)
                                  THEN u ELSE t.child[s][n]
             /\ \A n \in TreeNodes :
                  r.parent[n] = IF n = u THEN y ELSE t.parent[n]
<1>1. u \in TreeNodes /\ u # Nil
  BY NodesAre
<1>2. CASE y = Nil
  <2>1. Hang(t, u, y) = [t EXCEPT !.parent[u] = y, !.root = u]
    BY <1>2 DEF Hang
  <2> DEFINE r == [t EXCEPT !.parent[u] = y, !.root = u]
  <2>2. /\ r.parent = [t.parent EXCEPT ![u] = y] /\ r.color = t.color
        /\ r.root = u /\ r.child = t.child /\ r \in Trees
    BY <1>1 DEF Trees
  <2>3. \A n \in TreeNodes : r.parent[n] = IF n = u THEN y ELSE t.parent[n]
    BY <1>1, <2>2 DEF Trees
  <2> HIDE DEF r
  <2> QED
    BY <1>2, <2>1, <2>2, <2>3 DEF r
<1>3. CASE y # Nil
  <2> DEFINE a == Toward(y, u)
  <2>1. a \in Sides
    BY <1>3, NodesAre, TowardIs
  <2>2. Hang(t, u, y) = [t EXCEPT !.parent[u] = y, !.child[a][y] = u]
    BY <1>3 DEF Hang
  <2> HIDE DEF a
  <2> DEFINE r == [t EXCEPT !.parent[u] = y, !.child[a][y] = u]
  <2>3. /\ r.parent = [t.parent EXCEPT ![u] = y] /\ r.color = t.color
        /\ r.root = t.root /\ r.child = [t.child EXCEPT ![a][y] = u]
        /\ r \in Trees
    BY <1>1, <2>1 DEF Trees
  <2>4. /\ \A s \in Sides, n \in TreeNodes :
             r.child[s][n] = IF n = y /\ s = a THEN u ELSE t.child[s][n]
        /\ \A n \in TreeNodes : r.parent[n] = IF n = u THEN y ELSE t.parent[n]
    BY <1>1, <2>1, <2>3 DEF Trees
  <2> HIDE DEF r
  <2> QED
    BY <1>3, <2>2, <2>3, <2>4 DEF a, r
<1> QED
  BY <1>2, <1>3

(* Who is below whom when u hangs below y.                                 *)
With(S, U, u, y) ==
  [n \in TreeNodes |-> IF n = u THEN {u}
                       ELSE IF n \in S /\ y \in U[n] THEN U[n] \cup {u}
                       ELSE U[n]]

(* bst_insert hangs a user where the search for him ends: the others keep  *)
(* their places, and he is in order among them.                            *)
THEOREM HangKeepsTree ==
  ASSUME NEW t, NEW S, NEW U, SearchTree(t, S, U), NEW u \in Users \ S,
         \A s \in Sides : t.child[s][u] = Nil,
         NEW y \in S \cup {Nil}, y = Nil => t.root = Nil,
         y # Nil => /\ t.child[Toward(y, u)][y] = Nil
                    /\ Leads(t, S, U, y, u)
  PROVE  SearchTree(Hang(t, u, y), S \cup {u}, With(S, U, u, y))
<1> DEFINE r == Hang(t, u, y)
           T == S \cup {u}
           V == With(S, U, u, y)
           a == Toward(y, u)
<1>1. /\ t \in Trees /\ S \subseteq Users /\ Nil \notin S /\ u # Nil
      /\ S \subseteq TreeNodes /\ T \subseteq Users /\ u \in TreeNodes
      /\ U \in [TreeNodes -> SUBSET S] /\ U[Nil] = {} /\ U[t.root] = S
      /\ t.root \in S \cup {Nil} /\ Nil \in TreeNodes /\ y \in TreeNodes
      /\ t.root # Nil => t.parent[t.root] = Nil
      /\ y # u /\ u \notin S
  BY NodesAre DEF SearchTree
<1>2. /\ \A n \in S, s \in Sides :
           /\ t.child[s][n] \in S \cup {Nil} /\ t.child[s][n] \in TreeNodes
           /\ t.child[s][n] # Nil => t.parent[t.child[s][n]] = n
           /\ \A m \in U[t.child[s][n]] : m # n /\ Toward(n, m) = s
      /\ \A s \in Sides : t.child[s][Nil] = Nil
  BY <1>1 DEF SearchTree
<1>3. /\ r \in Trees /\ r.color = t.color
      /\ r.root = IF y = Nil THEN u ELSE t.root
      /\ \A s \in Sides, n \in TreeNodes :
           r.child[s][n] = IF y # Nil /\ n = y /\ s = a
                           THEN u ELSE t.child[s][n]
      /\ \A n \in TreeNodes : r.parent[n] = IF n = u THEN y ELSE t.parent[n]
  BY <1>1, HangIs
<1>4. /\ \A n \in TreeNodes : V[n] = IF n = u THEN {u}
                                     ELSE IF n \in S /\ y \in U[n]
                                     THEN U[n] \cup {u} ELSE U[n]
      /\ V \in [TreeNodes -> SUBSET T]
  BY <1>1 DEF With
<1>5. y # Nil => /\ y \in S /\ y \in U[y] /\ a \in Sides /\ y \in Users
                 /\ \A s \in Sides : y \notin U[t.child[s][y]]
  BY <1>1, <1>2, NodeIs, TowardIs
<1> HIDE DEF r, V, a
<1>6. ASSUME NEW n \in S, NEW s \in Sides
      PROVE  /\ r.child[s][n] \in T \cup {Nil}
             /\ r.child[s][n] # Nil => r.parent[r.child[s][n]] = n
             /\ V[r.child[s][n]] =
                  IF (n = y /\ s = a) \/ y \in U[t.child[s][n]]
                  THEN U[t.child[s][n]] \cup {u} ELSE U[t.child[s][n]]
             /\ \A m \in V[r.child[s][n]] : m # n /\ Toward(n, m) = s
  <2> DEFINE c == t.child[s][n]
  <2>1. /\ c \in S \cup {Nil} /\ c \in TreeNodes /\ (c # Nil => t.parent[c] = n)
        /\ \A m \in U[c] : m # n /\ Toward(n, m) = s
        /\ n \in TreeNodes /\ n # Nil /\ n # u /\ c # u
    BY <1>1, <1>2
  <2>2. CASE n = y /\ s = a
    <3>1. r.child[s][n] = u /\ c = Nil
      BY <1>3, <2>1, <2>2 DEF a
    <3> QED
      BY <1>1, <1>3, <1>4, <2>1, <2>2, <3>1 DEF a
  <2>3. CASE ~(n = y /\ s = a)
    <3>1. r.child[s][n] = c
      BY <1>3, <2>1, <2>3
    <3>2. c # Nil => r.parent[c] = n
      BY <1>3, <2>1
    <3>3. V[c] = IF y \in U[c] THEN U[c] \cup {u} ELSE U[c]
      BY <1>1, <1>4, <2>1
    <3>4. y \in U[c] => Toward(n, u) = s
      <4>1. y \in U[c] => y # Nil
        BY <1>1, <2>1
      <4> QED
        BY <4>1 DEF Leads
    <3> QED
      BY <2>1, <2>3, <3>1, <3>2, <3>3, <3>4
  <2> QED
    BY <2>2, <2>3
<1>7. ASSUME NEW s \in Sides
      PROVE  r.child[s][u] = Nil /\ r.child[s][Nil] = Nil
  BY <1>1, <1>2, <1>3
<1>8. \A n \in T : V[n] = {n} \cup V[r.child["left"][n]] \cup V[r.child["right"][n]]
  <2> SUFFICES ASSUME NEW n \in T
               PROVE  V[n] = {n} \cup V[r.child["left"][n]] \cup V[r.child["right"][n]]
    OBVIOUS
  <2>1. CASE n = u
    BY <1>1, <1>4, <1>7, <2>1, SidesAre
  <2>2. CASE n \in S
    <3> DEFINE c == t.child["left"][n]
               d == t.child["right"][n]
    <3>1. U[n] = {n} \cup U[c] \cup U[d]
      BY <2>2 DEF SearchTree
    <3>2. /\ V[r.child["left"][n]] =
               IF (n = y /\ a = "left") \/ y \in U[c] THEN U[c] \cup {u} ELSE U[c]
          /\ V[r.child["right"][n]] =
               IF (n = y /\ a = "right") \/ y \in U[d] THEN U[d] \cup {u} ELSE U[d]
      BY <1>6, <2>2, SidesAre
    <3>3. V[n] = IF y \in U[n] THEN U[n] \cup {u} ELSE U[n]
      BY <1>1, <1>4, <2>2
    <3>4. n = y => a \in {"left", "right"}
      BY <1>1, <1>5, <2>2, SidesAre
    <3> HIDE DEF c, d
    <3> QED
      BY <3>1, <3>2, <3>3, <3>4
  <2> QED
    BY <2>1, <2>2
<1>9. /\ r.root \in T \cup {Nil} /\ V[r.root] = T
      /\ r.root # Nil => r.parent[r.root] = Nil
  BY <1>1, <1>3, <1>4
<1>10. V[Nil] = {} /\ r.color[Nil] = "black"
  BY <1>1, <1>3, <1>4 DEF SearchTree
<1>11. \A n \in T, s \in Sides :
         /\ r.child[s][n] \in T \cup {Nil}
         /\ r.child[s][n] # Nil => r.parent[r.child[s][n]] = n
         /\ \A m \in V[r.child[s][n]] : m # n /\ Toward(n, m) = s
  BY <1>6, <1>7, <1>10
<1>12. SearchTree(r, T, V)
  BY <1>1, <1>3, <1>4, <1>7, <1>8, <1>9, <1>10, <1>11 DEF SearchTree
<1> QED
  BY <1>12 DEF r, V

(* Users with two children, and who comes next.                            *)
Succeeds(t, S, U, z, y) ==
  /\ \A s \in Sides : t.child[s][z] # Nil
  /\ y \in U[t.child["right"][z]] /\ t.child["left"][y] = Nil

LEMMA SuccessorIs ==
  ASSUME NEW t, NEW S, NEW U, SearchTree(t, S, U), NEW z \in S,
         NEW y, Succeeds(t, S, U, z, y)
  PROVE  LET l == t.child["left"][z]
             r == t.child["right"][z]
             x == t.child["right"][y]
         IN  /\ y \in S /\ y # z /\ y # Nil /\ y # t.root
             /\ l \in S /\ r \in S /\ l # r /\ l # z /\ r # z /\ l # y
             /\ x \in S \cup {Nil} /\ x # y /\ x # z /\ x # l /\ x # r
             /\ t.parent[y] \in S /\ t.parent[y] # y
             /\ t.parent[z] # y /\ t.parent[z] # z
             /\ (t.parent[y] = z <=> y = r)
             /\ y \in U[r] /\ U[r] \subseteq U[z] \ {z} /\ z \in U[z]
             /\ U[y] \subseteq U[r] /\ U[y] = {y} \cup U[x] /\ y \notin U[x]
             /\ y \notin U[l] /\ z \notin U[l] /\ z \notin U[x]
             /\ U[z] = {z} \cup U[l] \cup U[r]
<1> DEFINE l == t.child["left"][z]
           r == t.child["right"][z]
           x == t.child["right"][y]
<1>1. /\ "left" \in Sides /\ "right" \in Sides /\ "left" # "right"
      /\ Other("left") = "right" /\ Other("right") = "left"
      /\ Nil \notin S /\ U[Nil] = {} /\ S \subseteq TreeNodes /\ Nil \in TreeNodes
      /\ U[t.root] = S
  BY SidesAre, NodesAre DEF SearchTree
<1>2. l # Nil /\ r # Nil /\ y \in U[r] /\ t.child["left"][y] = Nil
  BY <1>1 DEF Succeeds
<1>3. /\ l \in S /\ r \in S /\ l # r /\ l # z /\ r # z
      /\ U[z] = {z} \cup U[l] \cup U[r] /\ z \in U[z]
      /\ U[r] \subseteq U[z] \ {z} /\ U[l] \subseteq U[z] \ {z}
      /\ l \in U[l] /\ r \in U[r] /\ \A m \in U[r] : m \notin U[l]
      /\ t.parent[r] = z
  <2>1. /\ l \in S /\ l # r /\ l # z /\ l \in U[l] /\ U[l] \subseteq U[z] \ {z}
        /\ U[z] = {z} \cup U[l] \cup U[r] /\ z \in U[z]
    BY <1>1, <1>2, NodeIs
  <2>2. /\ r \in S /\ r # z /\ r \in U[r] /\ U[r] \subseteq U[z] \ {z}
        /\ t.parent[r] = z /\ \A m \in U[r] : m \notin U[l]
    BY <1>1, <1>2, NodeIs
  <2> QED
    BY <2>1, <2>2
<1>4. /\ y \in S /\ y # z /\ y # l /\ y # Nil /\ y \notin U[l]
      /\ U[y] \subseteq U[r]
  <2>1. U[r] \subseteq S
    BY <1>3, NodeIs, SidesAre
  <2> QED
    BY <1>1, <1>2, <1>3, <2>1, SubtreesNest
<1>5. /\ x \in S \cup {Nil} /\ x # y /\ U[y] = {y} \cup U[x] /\ y \notin U[x]
      /\ (x # Nil => x \in U[x])
  <2>1. U[y] = {y} \cup U[x] \cup U[t.child["left"][y]]
    BY <1>1, <1>4, NodeIs
  <2>2. /\ x \in S \cup {Nil} /\ x # y /\ U[x] \subseteq U[y] \ {y}
        /\ (x # Nil => x \in U[x])
    BY <1>1, <1>4, NodeIs
  <2> QED
    BY <1>1, <1>2, <2>1, <2>2
<1>6. x # z /\ x # l /\ x # r /\ z \notin U[x] /\ z \notin U[l]
  <2>1. U[x] \subseteq U[r] /\ z \notin U[r]
    BY <1>3, <1>4, <1>5
  <2>2. x = r => FALSE
    BY <1>2, <1>5
  <2> QED
    BY <1>1, <1>3, <1>5, <2>1, <2>2
<1>7. y # t.root
  BY <1>1, <1>3, <1>4
<1>8. /\ t.parent[y] \in S /\ t.parent[y] # y
      /\ SideOf(t, t.parent[y], y) \in Sides
      /\ t.child[SideOf(t, t.parent[y], y)][t.parent[y]] = y
  BY <1>4, <1>7, HangsBelow
<1>9. t.parent[y] = z <=> y = r
  <2>1. t.parent[y] = z => y \in {l, r}
    BY <1>8, SidesAre
  <2> QED
    BY <1>3, <1>4, <2>1
<1>10. t.parent[z] # z /\ t.parent[z] # y
  <2>1. CASE z = t.root
    <3>1. t.parent[z] = Nil
      BY <2>1, HangsBelow
    <3> QED
      BY <1>1, <1>4, <3>1
  <2>2. CASE z # t.root
    <3> DEFINE a == SideOf(t, t.parent[z], z)
    <3>1. t.parent[z] # z /\ t.parent[z] \in S /\ a \in Sides
          /\ t.child[a][t.parent[z]] = z
      BY <2>2, HangsBelow
    <3>2. t.parent[z] = y => U[z] \subseteq U[y] \ {y}
      <4> HIDE DEF a
      <4> QED
        BY <1>4, <3>1, NodeIs
    <3> QED
      BY <1>3, <1>4, <3>1, <3>2
  <2> QED
    BY <2>1, <2>2
<1> HIDE DEF l, r, x
<1>11. y \in U[r]
  BY <1>2
<1> QED
  BY <1>3, <1>4, <1>5, <1>6, <1>7, <1>8, <1>9, <1>10, <1>11 DEF l, r, x

(* Who follows a node whose children were c, in Succeed.                   *)
Instead(t, z, y, c) ==
  IF c = y THEN t.child["right"][y] ELSE IF c = z THEN y ELSE c

LEMMA SucceedLinks ==
  ASSUME NEW t, NEW S, NEW U, SearchTree(t, S, U), NEW z \in S,
         NEW y, Succeeds(t, S, U, z, y)
  PROVE  LET f == Succeed(t, z, y)
             l == t.child["left"][z]
             r == t.child["right"][z]
             x == t.child["right"][y]
         IN  /\ f \in Trees
             /\ f.root = IF t.root = z THEN y ELSE t.root
             /\ \A s \in Sides, n \in S \ {z} :
                  f.child[s][n] = IF n = y
                                  THEN Instead(t, z, y, t.child[s][z])
                                  ELSE Instead(t, z, y, t.child[s][n])
             /\ \A s \in Sides : f.child[s][Nil] = Nil
             /\ \A n \in TreeNodes :
                  f.parent[n] = IF n = l THEN y
                                ELSE IF n = y THEN t.parent[z]
                                ELSE IF n = r THEN y
                                ELSE IF n = x
                                THEN (IF y = r THEN y ELSE t.parent[y])
                                ELSE t.parent[n]
             /\ \A n \in TreeNodes :
                  f.color[n] = IF n = y THEN t.color[z] ELSE t.color[n]
<1> DEFINE l == t.child["left"][z]
           r == t.child["right"][z]
           x == t.child["right"][y]
           b == Transplant(t, y, x)
           p == t.parent[z]
           a == IF t.parent[y] = z THEN [t EXCEPT !.parent[x] = y]
                ELSE [b EXCEPT !.child["right"][y] = b.child["right"][z],
                               !.parent[b.child["right"][z]] = y]
           c == Transplant(a, z, y)
           f == Succeed(t, z, y)
<1>1. /\ t \in Trees /\ S \subseteq TreeNodes /\ Nil \notin S /\ Nil \in TreeNodes
      /\ S \subseteq Users /\ "left" \in Sides /\ "right" \in Sides
      /\ "left" # "right" /\ \A s \in Sides : t.child[s][Nil] = Nil
      /\ \A s \in Sides : s = "left" \/ s = "right"
  BY NodesAre, SidesAre DEF SearchTree
<1>2. /\ y \in S /\ y # z /\ y # Nil /\ y # t.root
      /\ l \in S /\ r \in S /\ l # r /\ l # z /\ r # z /\ l # y
      /\ x \in S \cup {Nil} /\ x # y /\ x # z /\ x # l /\ x # r
      /\ t.parent[y] \in S /\ t.parent[y] # y
      /\ p # y /\ p # z /\ (t.parent[y] = z <=> y = r)
  BY SuccessorIs
<1>3. /\ b \in Trees /\ b.color = t.color
      /\ b.root = t.root
      /\ \A s \in Sides, n \in S :
           b.child[s][n] = IF t.child[s][n] = y THEN x ELSE t.child[s][n]
      /\ \A s \in Sides : b.child[s][Nil] = Nil
      /\ \A n \in TreeNodes :
           b.parent[n] = IF n = x THEN t.parent[y] ELSE t.parent[n]
  BY <1>1, <1>2, TransplantLinks
<1>4. /\ z # t.root => p \in S /\ p # Nil
      /\ z = t.root => p = Nil
      /\ \A m \in S, s \in Sides :
           t.child[s][m] = z <=> m = p /\ s = SideOf(t, p, z) /\ z # t.root
  BY <1>1, HangsBelow
<1>5. /\ t.child["left"][y] = Nil /\ p \in TreeNodes /\ x \in TreeNodes
      /\ t.parent[x] \in TreeNodes
      /\ \A n \in S, s \in Sides :
           t.child[s][n] = y => n = t.parent[y]
  <2>1. t.child["left"][y] = Nil
    BY DEF Succeeds
  <2>2. p \in TreeNodes /\ x \in TreeNodes /\ t.parent[x] \in TreeNodes
    BY <1>1, <1>2 DEF Trees
  <2> QED
    BY <1>1, <1>2, <2>1, <2>2, HangsBelow
<1> HIDE DEF b, x, p, l, r
<1>6. /\ a \in Trees /\ a.color = t.color /\ a.root = t.root
      /\ \A s \in Sides, n \in S :
           a.child[s][n] = IF y # r /\ n = y /\ s = "right" THEN r
                           ELSE IF y # r /\ t.child[s][n] = y THEN x
                           ELSE t.child[s][n]
      /\ \A s \in Sides : a.child[s][Nil] = Nil
      /\ \A n \in TreeNodes :
           a.parent[n] = IF y # r /\ n = r THEN y
                         ELSE IF n = x THEN (IF y = r THEN y ELSE t.parent[y])
                         ELSE t.parent[n]
  <2>1. CASE y = r
    <3>1. a = [t EXCEPT !.parent[x] = y]
      BY <1>2, <2>1
    <3> DEFINE e == [t EXCEPT !.parent[x] = y]
    <3>2. /\ e \in Trees /\ e.color = t.color /\ e.root = t.root
          /\ e.child = t.child /\ e.parent = [t.parent EXCEPT ![x] = y]
      BY <1>1, <1>2, <1>5 DEF Trees
    <3>3. \A n \in TreeNodes : e.parent[n] = IF n = x THEN y ELSE t.parent[n]
      BY <1>1, <1>5, <3>2 DEF Trees
    <3> HIDE DEF e, a
    <3>4. a = e
      BY <3>1 DEF e
    <3> QED
      BY <1>1, <2>1, <3>2, <3>3, <3>4
  <2>2. CASE y # r
    <3>1. b.child["right"][z] = r
      BY <1>1, <1>3, <2>2 DEF r
    <3> DEFINE e == [b EXCEPT !.child["right"][y] = r, !.parent[r] = y]
    <3>2. a = e
      BY <1>2, <2>2, <3>1
    <3>3. /\ e \in Trees /\ e.color = b.color /\ e.root = b.root
          /\ e.child = [b.child EXCEPT !["right"][y] = r]
          /\ e.parent = [b.parent EXCEPT ![r] = y]
      BY <1>1, <1>2, <1>3 DEF Trees
    <3>4. /\ \A s \in Sides, n \in TreeNodes :
               e.child[s][n] = IF n = y /\ s = "right" THEN r ELSE b.child[s][n]
          /\ \A n \in TreeNodes :
               e.parent[n] = IF n = r THEN y ELSE b.parent[n]
      BY <1>1, <1>2, <1>3, <3>3 DEF Trees
    <3> HIDE DEF e, a
    <3>5. \A s \in Sides, n \in S :
            e.child[s][n] = IF n = y /\ s = "right" THEN r
                            ELSE IF t.child[s][n] = y THEN x ELSE t.child[s][n]
      BY <1>1, <1>3, <3>4
    <3>6. \A s \in Sides : e.child[s][Nil] = Nil
      BY <1>1, <1>2, <1>3, <3>4
    <3>7. \A n \in TreeNodes :
            e.parent[n] = IF n = r THEN y
                          ELSE IF n = x THEN t.parent[y] ELSE t.parent[n]
      BY <1>3, <3>4
    <3> QED
      BY <1>3, <2>2, <3>2, <3>3, <3>5, <3>6, <3>7
  <2> QED
    BY <2>1, <2>2
<1> HIDE DEF a
<1>7. /\ a.parent[z] = p
      /\ p # Nil => SideOf(a, p, z) = SideOf(t, p, z)
  <2>1. a.parent[z] = p
    BY <1>1, <1>2, <1>6 DEF p
  <2>2. ASSUME p # Nil PROVE a.child["left"][p] = z <=> t.child["left"][p] = z
    BY <1>1, <1>2, <1>4, <1>6, <2>2
  <2> QED
    BY <2>1, <2>2 DEF SideOf
<1>8. /\ c \in Trees /\ c.color = t.color
      /\ c.root = IF t.root = z THEN y ELSE t.root
      /\ \A s \in Sides, n \in TreeNodes :
           c.child[s][n] = IF p # Nil /\ n = p /\ s = SideOf(t, p, z)
                           THEN y ELSE a.child[s][n]
      /\ \A n \in TreeNodes : c.parent[n] = IF n = y THEN p ELSE a.parent[n]
  <2>1. /\ c \in Trees /\ c.color = a.color
        /\ c.root = IF a.parent[z] = Nil THEN y ELSE a.root
        /\ \A s \in Sides, n \in TreeNodes :
             c.child[s][n] = IF a.parent[z] # Nil /\ n = a.parent[z]
                                /\ s = SideOf(a, a.parent[z], z)
                             THEN y ELSE a.child[s][n]
        /\ \A n \in TreeNodes :
             c.parent[n] = IF n = y THEN a.parent[z] ELSE a.parent[n]
    <3>1. z \in Users /\ y \in TreeNodes /\ a \in Trees
      BY <1>1, <1>2, <1>6
    <3> QED
      BY <3>1, TransplantIs
  <2> HIDE DEF c
  <2>2. p = Nil <=> t.root = z
    BY <1>1, <1>4
  <2> QED
    BY <1>6, <1>7, <2>1, <2>2
<1> HIDE DEF c
<1>9. \A s \in Sides, n \in S \ {z} :
        c.child[s][n] = IF y # r /\ n = y /\ s = "right" THEN r
                        ELSE IF y # r /\ t.child[s][n] = y THEN x
                        ELSE IF t.child[s][n] = z THEN y ELSE t.child[s][n]
  <2> SUFFICES ASSUME NEW s \in Sides, NEW n \in S \ {z}
               PROVE  c.child[s][n] =
                        IF y # r /\ n = y /\ s = "right" THEN r
                        ELSE IF y # r /\ t.child[s][n] = y THEN x
                        ELSE IF t.child[s][n] = z THEN y ELSE t.child[s][n]
    OBVIOUS
  <2>1. n \in TreeNodes /\ n \in S
    BY <1>1
  <2>2. t.child[s][n] = z <=> p # Nil /\ n = p /\ s = SideOf(t, p, z)
    BY <1>1, <1>4
  <2>3. c.child[s][n] = IF t.child[s][n] = z THEN y ELSE a.child[s][n]
    BY <1>8, <2>1, <2>2
  <2>4. t.child[s][n] = z => n # y /\ t.child[s][n] # y
    BY <1>2, <2>2
  <2> QED
    BY <1>6, <2>1, <2>3, <2>4
<1>10. /\ c.child["left"][z] = l
       /\ \A s \in Sides : c.child[s][Nil] = Nil
       /\ c.color[z] = t.color[z]
  <2>1. c.child["left"][z] = a.child["left"][z]
    BY <1>1, <1>2, <1>8
  <2>2. a.child["left"][z] = l
    BY <1>1, <1>2, <1>6 DEF l
  <2>3. \A s \in Sides : c.child[s][Nil] = Nil
    BY <1>1, <1>6, <1>8
  <2> QED
    BY <1>8, <2>1, <2>2, <2>3
<1> DEFINE e == [c EXCEPT !.child["left"][y] = l, !.parent[l] = y,
                          !.color[y] = t.color[z]]
<1>11. f = e
  <2>1. f = [c EXCEPT !.child["left"][y] = c.child["left"][z],
                      !.parent[c.child["left"][z]] = y,
                      !.color[y] = c.color[z]]
    BY DEF Succeed, c, a, b, x
  <2> HIDE DEF f
  <2> QED
    BY <1>10, <2>1
<1>12. /\ e.child = [c.child EXCEPT !["left"][y] = l] /\ e.root = c.root
       /\ e.parent = [c.parent EXCEPT ![l] = y]
       /\ e.color = [c.color EXCEPT ![y] = t.color[z]]
       /\ e \in Trees
  <2>1. t.color[z] \in {"red", "black"}
    BY <1>1 DEF Trees
  <2>2. /\ c \in Trees /\ "left" \in Sides
        /\ y \in TreeNodes /\ l \in TreeNodes /\ l = t.child["left"][z]
    BY <1>1, <1>2, <1>8, SidesAre DEF l
  <2> HIDE DEF l
  <2>3. /\ e.child = [c.child EXCEPT !["left"][y] = l] /\ e.root = c.root
        /\ e.parent = [c.parent EXCEPT ![l] = y]
        /\ e.color = [c.color EXCEPT ![y] = t.color[z]]
    BY <2>2 DEF Trees
  <2>4. /\ c.child \in [Sides -> [TreeNodes -> TreeNodes]]
        /\ c.parent \in [TreeNodes -> TreeNodes]
        /\ c.color \in [TreeNodes -> {"red", "black"}] /\ c.root \in TreeNodes
    BY <2>2 DEF Trees
  <2>5. e \in Trees
    BY <2>1, <2>2, <2>4 DEF Trees
  <2> QED
    BY <2>3, <2>5
<1> HIDE DEF e, f
<1>13. /\ \A s \in Sides, n \in TreeNodes :
            e.child[s][n] = IF n = y /\ s = "left" THEN l ELSE c.child[s][n]
       /\ \A n \in TreeNodes : e.parent[n] = IF n = l THEN y ELSE c.parent[n]
       /\ \A n \in TreeNodes :
            e.color[n] = IF n = y THEN t.color[z] ELSE t.color[n]
  BY <1>1, <1>2, <1>8, <1>12, SMTT(30) DEF Trees
<1>14. ASSUME NEW s \in Sides, NEW n \in S \ {z}
       PROVE  e.child[s][n] = IF n = y THEN Instead(t, z, y, t.child[s][z])
                              ELSE Instead(t, z, y, t.child[s][n])
  <2>1. /\ e.child[s][n] = IF n = y /\ s = "left" THEN l ELSE c.child[s][n]
        /\ c.child[s][n] = IF y # r /\ n = y /\ s = "right" THEN r
                           ELSE IF y # r /\ t.child[s][n] = y THEN x
                           ELSE IF t.child[s][n] = z THEN y ELSE t.child[s][n]
    BY <1>1, <1>9, <1>13
  <2>2. CASE n = y
    <3>1. CASE s = "left"
      BY <1>2, <2>1, <2>2, <3>1 DEF Instead, l
    <3>2. CASE s = "right"
      <4>1. t.child[s][n] = x
        BY <2>2, <3>2 DEF x
      <4>2. e.child[s][n] = IF y # r THEN r ELSE x
        BY <1>1, <1>2, <2>1, <2>2, <3>2, <4>1
      <4>3. Instead(t, z, y, r) = IF y = r THEN x ELSE r
        BY <1>2 DEF Instead, x
      <4> QED
        BY <2>2, <3>2, <4>2, <4>3 DEF r
    <3> QED
      BY <1>1, <3>1, <3>2
  <2>3. CASE n # y
    <3>1. y = r => t.child[s][n] # y
      BY <1>2, <1>5
    <3>2. Instead(t, z, y, t.child[s][n]) =
            IF t.child[s][n] = y THEN x
            ELSE IF t.child[s][n] = z THEN y ELSE t.child[s][n]
      BY DEF Instead, x
    <3> QED
      BY <2>1, <2>3, <3>1, <3>2
  <2> QED
    BY <2>2, <2>3
<1>15. \A s \in Sides : e.child[s][Nil] = Nil
  BY <1>1, <1>2, <1>10, <1>13
<1>16. \A n \in TreeNodes :
         e.parent[n] = IF n = l THEN y
                       ELSE IF n = y THEN p
                       ELSE IF n = r THEN y
                       ELSE IF n = x
                       THEN (IF y = r THEN y ELSE t.parent[y])
                       ELSE t.parent[n]
  BY <1>2, <1>6, <1>8, <1>13
<1> QED
  BY <1>8, <1>11, <1>12, <1>13, <1>14, <1>15, <1>16 DEF l, r, x, p, f

(* Who is below whom when y has taken the place of z.                      *)
Replaced(U, z, y) ==
  [n \in TreeNodes |-> IF n = y THEN U[z] \ {z}
                       ELSE IF z \in U[n] THEN U[n] \ {z} ELSE U[n] \ {y}]

(* bst_delete of a user with two children: the least user to the right of  *)
(* him takes his place, and all others keep theirs in the order.           *)
THEOREM SucceedKeepsTree ==
  ASSUME NEW t, NEW S, NEW U, SearchTree(t, S, U), NEW z \in S,
         NEW y, Succeeds(t, S, U, z, y),
         \A m \in U[t.child["right"][z]] \ {y} : Toward(y, m) = "right"
  PROVE  SearchTree(Succeed(t, z, y), S \ {z}, Replaced(U, z, y))
<1> DEFINE l == t.child["left"][z]
           r == t.child["right"][z]
           x == t.child["right"][y]
           f == Succeed(t, z, y)
           T == S \ {z}
           V == Replaced(U, z, y)
           New(c) == Instead(t, z, y, c)
<1>1. /\ t \in Trees /\ S \subseteq TreeNodes /\ Nil \notin S /\ Nil \in TreeNodes
      /\ S \subseteq Users /\ T \subseteq Users
      /\ "left" \in Sides /\ "right" \in Sides
      /\ "left" # "right" /\ \A s \in Sides : t.child[s][Nil] = Nil
      /\ \A s \in Sides : s = "left" \/ s = "right"
      /\ U \in [TreeNodes -> SUBSET S] /\ U[Nil] = {} /\ U[t.root] = S
      /\ t.root \in S \cup {Nil}
      /\ t.root # Nil => t.parent[t.root] = Nil
  BY NodesAre, SidesAre DEF SearchTree
<1>2. /\ y \in S /\ y # z /\ y # Nil /\ y # t.root
      /\ l \in S /\ r \in S /\ l # r /\ l # z /\ r # z /\ l # y
      /\ x \in S \cup {Nil} /\ x # y /\ x # z /\ x # l /\ x # r
      /\ t.parent[y] \in S /\ t.parent[y] # y
      /\ t.parent[z] # y /\ t.parent[z] # z
      /\ (t.parent[y] = z <=> y = r)
      /\ y \in U[r] /\ U[r] \subseteq U[z] \ {z} /\ z \in U[z]
      /\ U[y] \subseteq U[r] /\ U[y] = {y} \cup U[x] /\ y \notin U[x]
      /\ y \notin U[l] /\ z \notin U[l] /\ z \notin U[x]
      /\ U[z] = {z} \cup U[l] \cup U[r]
  BY SuccessorIs
<1>3. /\ f \in Trees
      /\ f.root = IF t.root = z THEN y ELSE t.root
      /\ \A s \in Sides, n \in T :
           f.child[s][n] = IF n = y THEN New(t.child[s][z])
                           ELSE New(t.child[s][n])
      /\ \A s \in Sides : f.child[s][Nil] = Nil
      /\ \A n \in TreeNodes :
           f.parent[n] = IF n = l THEN y
                         ELSE IF n = y THEN t.parent[z]
                         ELSE IF n = r THEN y
                         ELSE IF n = x
                         THEN (IF y = r THEN y ELSE t.parent[y])
                         ELSE t.parent[n]
      /\ \A n \in TreeNodes :
           f.color[n] = IF n = y THEN t.color[z] ELSE t.color[n]
  BY SucceedLinks
<1>4. \A c : New(c) = IF c = y THEN x ELSE IF c = z THEN y ELSE c
  BY DEF Instead
<1>5. /\ V \in [TreeNodes -> SUBSET T]
      /\ \A n \in TreeNodes :
           V[n] = IF n = y THEN U[z] \ {z}
                  ELSE IF z \in U[n] THEN U[n] \ {z} ELSE U[n] \ {y}
  BY <1>1 DEF Replaced
<1>6. /\ \A n \in S, s \in Sides :
           /\ t.child[s][n] \in S \cup {Nil} /\ t.child[s][n] \in TreeNodes
           /\ t.child[s][n] # Nil => t.parent[t.child[s][n]] = n
           /\ \A m \in U[t.child[s][n]] : m # n /\ Toward(n, m) = s
      /\ \A n \in S : U[n] = {n} \cup U[t.child["left"][n]]
                                 \cup U[t.child["right"][n]]
      /\ \A n \in S : n \in U[n]
      /\ \A m \in S : \A n \in U[m] : U[n] \subseteq U[m]
  BY <1>1, SubtreesNest DEF SearchTree
<1>7. t.parent[l] = z /\ t.parent[r] = z /\ (x # Nil => t.parent[x] = y)
  BY <1>1, <1>2, <1>6
<1> HIDE DEF l, r, x, f, V, New
<1>8. \A m \in U[r] \ {y} : Toward(y, m) = "right" /\ m # y
  BY DEF r
<1>9. \A m \in U[l] : Toward(y, m) = "left" /\ m # y
  <2> SUFFICES ASSUME NEW m \in U[l] PROVE Toward(y, m) = "left" /\ m # y
    OBVIOUS
  <2>1. Toward(z, m) = "left" /\ m # z
    BY <1>1, <1>6 DEF l
  <2>2. Toward(z, y) = "right"
    BY <1>1, <1>2, <1>6 DEF r
  <2>3. m \in Users /\ y \in Users /\ z \in Users
    BY <1>1, <1>2
  <2> QED
    BY <1>1, <1>2, <2>1, <2>2, <2>3, SidesAre, TowardGoesOn
(* The subtree of whoever comes instead of c.                              *)
<1>10. ASSUME NEW n \in T, n # y, NEW s \in Sides
       PROVE  V[New(t.child[s][n])] =
                IF t.child[s][n] = y THEN U[x]
                ELSE IF z \in U[t.child[s][n]] THEN U[t.child[s][n]] \ {z}
                ELSE U[t.child[s][n]] \ {y}
  <2> DEFINE c == t.child[s][n]
  <2>1. c \in TreeNodes /\ c \in S \cup {Nil}
    BY <1>6
  <2> SUFFICES V[New(c)] = IF c = y THEN U[x]
                           ELSE IF z \in U[c] THEN U[c] \ {z} ELSE U[c] \ {y}
    OBVIOUS
  <2> HIDE DEF c
  <2>2. CASE c = y
    <3>1. New(c) = x /\ x \in TreeNodes
      BY <1>1, <1>2, <1>4, <2>2
    <3>2. V[x] = U[x] \ {y}
      BY <1>2, <1>5, <3>1
    <3>3. U[x] \ {y} = U[x]
      BY <1>2
    <3> QED
      BY <2>2, <3>1, <3>2, <3>3
  <2>3. CASE c = z
    <3>1. New(c) = y /\ y \in TreeNodes
      BY <1>1, <1>2, <1>4, <2>3
    <3>2. V[y] = U[z] \ {z}
      BY <1>5, <3>1
    <3> QED
      BY <1>2, <2>3, <3>1, <3>2
  <2>4. CASE c # y /\ c # z
    <3>1. New(c) = c
      BY <1>4, <2>4
    <3>2. V[c] = IF z \in U[c] THEN U[c] \ {z} ELSE U[c] \ {y}
      BY <1>5, <2>1, <2>4
    <3> QED
      BY <2>4, <3>1, <3>2
  <2> QED
    BY <2>2, <2>3, <2>4
<1>11. /\ V[New(l)] = U[l] /\ V[New(r)] = U[r] \ {y}
       /\ New(l) = l /\ New(r) = IF y = r THEN x ELSE r
  <2>1. New(l) = l /\ New(r) = IF y = r THEN x ELSE r
    BY <1>2, <1>4
  <2>2. l \in TreeNodes /\ r \in TreeNodes /\ x \in TreeNodes
    BY <1>1, <1>2
  <2>3. V[l] = U[l]
    <3>1. V[l] = U[l] \ {y}
      BY <1>2, <1>5, <2>2
    <3>2. U[l] \ {y} = U[l]
      BY <1>2
    <3> QED
      BY <3>1, <3>2
  <2>4. y # r => V[r] = U[r] \ {y}
    BY <1>2, <1>5, <2>2
  <2>5. y = r => V[x] = U[r] \ {y}
    BY <1>2, <1>5, <2>2
  <2> QED
    BY <2>1, <2>3, <2>4, <2>5
<1>12. ASSUME NEW n \in T
       PROVE  V[n] = {n} \cup V[f.child["left"][n]] \cup V[f.child["right"][n]]
  <2> DEFINE c == t.child["left"][n]
             d == t.child["right"][n]
  <2>1. CASE n = y
    <3>1. f.child["left"][n] = New(l) /\ f.child["right"][n] = New(r)
      BY <1>1, <1>3, <2>1 DEF l, r
    <3>2. V[n] = U[z] \ {z}
      BY <1>1, <1>2, <1>5, <2>1
    <3> QED
      BY <1>2, <1>11, <2>1, <3>1, <3>2
  <2>2. CASE n # y
    <3>1. f.child["left"][n] = New(c) /\ f.child["right"][n] = New(d)
      BY <1>1, <1>3, <2>2
    <3>2. /\ V[New(c)] = IF c = y THEN U[x]
                         ELSE IF z \in U[c] THEN U[c] \ {z} ELSE U[c] \ {y}
          /\ V[New(d)] = IF d = y THEN U[x]
                         ELSE IF z \in U[d] THEN U[d] \ {z} ELSE U[d] \ {y}
      BY <1>1, <1>10, <2>2
    <3>3. /\ U[n] = {n} \cup U[c] \cup U[d] /\ n \in S /\ n # z
          /\ c \in S \cup {Nil} /\ d \in S \cup {Nil} /\ n \in TreeNodes
          /\ \A m \in U[c] : m \notin U[d]
      <4>1. \A m \in U[c] : m \notin U[d]
        BY <1>1, <1>6
      <4> QED
        BY <1>1, <1>6, <4>1
    <3>4. V[n] = IF z \in U[n] THEN U[n] \ {z} ELSE U[n] \ {y}
      BY <1>5, <2>2, <3>3
    <3>5. /\ z \in U[c] => y \in U[c]
          /\ z \in U[d] => y \in U[d]
      <4>1. \A k \in S \cup {Nil} : z \in U[k] => U[z] \subseteq U[k]
        BY <1>1, <1>6
      <4> QED
        BY <1>2, <3>3, <4>1
    <3>6. /\ c = y => U[x] = U[c] \ {y} /\ y \in U[c] /\ z \notin U[c]
          /\ d = y => U[x] = U[d] \ {y} /\ y \in U[d] /\ z \notin U[d]
      BY <1>2
    <3>7. /\ V[New(c)] = IF z \in U[c] THEN U[c] \ {z} ELSE U[c] \ {y}
          /\ V[New(d)] = IF z \in U[d] THEN U[d] \ {z} ELSE U[d] \ {y}
      BY <3>2, <3>6
    <3> HIDE DEF c, d
    <3>8. ASSUME z \in U[c]
         PROVE  V[n] = {n} \cup V[New(c)] \cup V[New(d)]
      BY <2>2, <3>3, <3>4, <3>5, <3>7, <3>8
    <3>9. ASSUME z \in U[d]
         PROVE  V[n] = {n} \cup V[New(c)] \cup V[New(d)]
      BY <2>2, <3>3, <3>4, <3>5, <3>7, <3>9
    <3>10. ASSUME z \notin U[c] /\ z \notin U[d]
         PROVE  V[n] = {n} \cup V[New(c)] \cup V[New(d)]
      BY <2>2, <3>3, <3>4, <3>7, <3>10
    <3>11. V[n] = {n} \cup V[New(c)] \cup V[New(d)]
      BY <3>8, <3>9, <3>10
    <3> QED
      BY <3>1, <3>11 DEF c, d
  <2> QED
    BY <2>1, <2>2
<1>13. ASSUME NEW n \in T, NEW s \in Sides, NEW m \in V[f.child[s][n]]
       PROVE  m # n /\ Toward(n, m) = s
  <2>1. CASE n = y /\ s = "left"
    <3>1. f.child[s][n] = New(l)
      BY <1>3, <2>1 DEF l
    <3> QED
      BY <1>9, <1>11, <2>1, <3>1
  <2>2. CASE n = y /\ s = "right"
    <3>1. f.child[s][n] = New(r)
      BY <1>3, <2>2 DEF r
    <3> QED
      BY <1>8, <1>11, <2>2, <3>1
  <2>3. CASE n # y
    <3> DEFINE c == t.child[s][n]
    <3>1. f.child[s][n] = New(c)
      BY <1>3, <2>3
    <3>2. V[New(c)] = IF c = y THEN U[x]
                      ELSE IF z \in U[c] THEN U[c] \ {z} ELSE U[c] \ {y}
      BY <1>10, <2>3
    <3>3. m \in U[c]
      BY <1>2, <3>1, <3>2
    <3> QED
      BY <1>6, <3>3
  <2> QED
    BY <1>1, <2>1, <2>2, <2>3
<1>14. ASSUME NEW n \in T, NEW s \in Sides
       PROVE  /\ f.child[s][n] \in T \cup {Nil}
              /\ f.child[s][n] # Nil => f.parent[f.child[s][n]] = n
  <2>1. CASE n = y /\ s = "left"
    <3>1. f.child[s][n] = l
      BY <1>3, <1>11, <2>1 DEF l
    <3> QED
      BY <1>1, <1>2, <1>3, <2>1, <3>1
  <2>2. CASE n = y /\ s = "right"
    <3>1. f.child[s][n] = IF y = r THEN x ELSE r
      BY <1>3, <1>11, <2>2 DEF r
    <3> QED
      BY <1>1, <1>2, <1>3, <2>2, <3>1
  <2>3. CASE n # y
    <3> DEFINE c == t.child[s][n]
    <3>1. f.child[s][n] = IF c = y THEN x ELSE IF c = z THEN y ELSE c
      BY <1>3, <1>4, <2>3
    <3>2. c \in S \cup {Nil} /\ (c # Nil => t.parent[c] = n) /\ c \in TreeNodes
      BY <1>6
    <3>3. CASE c = y
      <4>1. n = t.parent[y] /\ y # r
        BY <1>2, <3>2, <3>3
      <4> QED
        BY <1>1, <1>2, <1>3, <3>1, <3>3, <4>1
    <3>4. CASE c = z
      <4>1. n = t.parent[z] /\ z # Nil
        BY <1>1, <3>2, <3>4
      <4> QED
        BY <1>1, <1>2, <1>3, <3>1, <3>4, <4>1
    <3>5. CASE c # y /\ c # z
      <4>1. f.child[s][n] = c
        BY <3>1, <3>5
      <4>2. c # Nil => c # l /\ c # r /\ c # x
        BY <1>1, <1>7, <2>3, <3>2
      <4> QED
        BY <1>3, <3>2, <3>5, <4>1, <4>2
    <3> QED
      BY <3>3, <3>4, <3>5
  <2> QED
    BY <1>1, <2>1, <2>2, <2>3
<1>15. /\ f.root \in T \cup {Nil} /\ V[f.root] = T
       /\ f.root # Nil => f.parent[f.root] = Nil
  <2>1. CASE t.root = z
    <3>1. t.parent[z] = Nil
      BY <1>1, <2>1
    <3> QED
      BY <1>1, <1>2, <1>3, <1>5, <2>1, <3>1
  <2>2. CASE t.root # z
    <3>1. t.root # Nil
      BY <1>1, <1>2
    <3>2. t.root # l /\ t.root # r /\ t.root # x
      BY <1>1, <1>2, <1>7
    <3>3. V[t.root] = T /\ t.root \in TreeNodes
      BY <1>1, <1>2, <1>5, <3>1
    <3> QED
      BY <1>1, <1>2, <1>3, <2>2, <3>1, <3>2, <3>3
  <2> QED
    BY <2>1, <2>2
<1>16. V[Nil] = {} /\ f.color[Nil] = "black"
  <2>1. t.color[Nil] = "black"
    BY DEF SearchTree
  <2> QED
    BY <1>1, <1>2, <1>3, <1>5, <2>1
<1>17. SearchTree(f, T, V)
  BY <1>1, <1>3, <1>5, <1>12, <1>13, <1>14, <1>15, <1>16 DEF SearchTree
<1> QED
  BY <1>17 DEF f, V

-----------------------------------------------------------------------------
(* The colours.                                                            *)

(* The nodes of X may be painted in colour c: the sentinel stays black.    *)
Paints(X, c) == c \in {"red", "black"} /\ (Nil \in X => c = "black")

LEMMA PaintIs ==
  ASSUME NEW t, NEW S, NEW U, NEW X, NEW c, NEW r, r = Paint(t, X, c),
         SearchTree(t, S, U), Paints(X, c)
  PROVE  /\ SearchTree(r, S, U) /\ r.root = t.root
         /\ r.child = t.child /\ r.parent = t.parent
         /\ \A n \in TreeNodes : r.color[n] = IF n \in X THEN c ELSE t.color[n]
<1>1. t \in Trees /\ Nil \in TreeNodes /\ S \subseteq TreeNodes
  BY NodesAre DEF SearchTree
<1>2. r = [t EXCEPT !.color = [n \in TreeNodes |-> IF n \in X THEN c
                                                   ELSE t.color[n]]]
  BY DEF Paint
<1>3. /\ r \in Trees /\ r.root = t.root
      /\ r.child = t.child /\ r.parent = t.parent
      /\ \A n \in TreeNodes : r.color[n] = IF n \in X THEN c ELSE t.color[n]
  BY <1>1, <1>2 DEF Trees, Paints
<1>4. /\ \A s \in Sides : r.child[s][Nil] = Nil
      /\ t.color[Nil] = "black"
  BY <1>3 DEF SearchTree
<1>5. r.color[Nil] = "black"
  BY <1>1, <1>3, <1>4 DEF Paints
<1>6. SearchTree(r, S, U)
  BY <1>3, <1>4, <1>5, SameOnUsers
<1> QED
  BY <1>3, <1>6

LEMMA RepaintIs ==
  ASSUME NEW t, NEW S, NEW U, NEW X, NEW c, NEW Y, NEW d,
         NEW r, r = Paint(Paint(t, X, c), Y, d),
         SearchTree(t, S, U), Paints(X, c), Paints(Y, d)
  PROVE  /\ SearchTree(r, S, U) /\ r.root = t.root
         /\ r.child = t.child /\ r.parent = t.parent
         /\ \A n \in TreeNodes :
              r.color[n] = IF n \in Y THEN d ELSE IF n \in X THEN c
                           ELSE t.color[n]
<1>1. PICK v : v = Paint(t, X, c)
  OBVIOUS
<1>2. /\ SearchTree(v, S, U) /\ v.root = t.root
      /\ v.child = t.child /\ v.parent = t.parent
      /\ \A n \in TreeNodes : v.color[n] = IF n \in X THEN c ELSE t.color[n]
  BY <1>1, PaintIs
<1>3. /\ SearchTree(r, S, U) /\ r.root = v.root
      /\ r.child = v.child /\ r.parent = v.parent
      /\ \A n \in TreeNodes : r.color[n] = IF n \in Y THEN d ELSE v.color[n]
  BY <1>1, <1>2, PaintIs
<1> QED
  BY <1>2, <1>3

(* What a rotation of x and its child y does to the links.                 *)
Rotated(t, S, r, x, side, y) ==
  LET inner == t.child[side][y]
  IN  /\ r.color = t.color
      /\ y \in S /\ y # x /\ inner \in S \cup {Nil}
      /\ inner # x /\ inner # y
      /\ r.root = IF t.root = x THEN y ELSE t.root
      /\ \A s \in Sides, n \in S :
           r.child[s][n] =
             IF n = y /\ s = side THEN x
             ELSE IF n = x /\ s = Other(side) THEN inner
             ELSE IF t.child[s][n] = x THEN y ELSE t.child[s][n]
      /\ \A s \in Sides : r.child[s][Nil] = Nil
      /\ \A n \in S :
           r.parent[n] = IF n = x THEN y
                         ELSE IF n = y THEN t.parent[x]
                         ELSE IF n = inner THEN x ELSE t.parent[n]
      /\ r.parent[Nil] = t.parent[Nil]

LEMMA RotatedIs ==
  ASSUME NEW t, NEW S, NEW U, SearchTree(t, S, U), NEW x \in S,
         NEW side \in Sides, t.child[Other(side)][x] # Nil
  PROVE  Rotated(t, S, Rotate(t, x, side), x, side, t.child[Other(side)][x])
<1> DEFINE y == t.child[Other(side)][x]
           r == Rotate(t, x, side)
<1>1. r.parent[Nil] = t.parent[Nil]
  <2>1. /\ t \in Trees /\ x \in Users /\ y \in S /\ Nil \in TreeNodes
        /\ x # Nil /\ y # Nil
    BY NodesAre, SidesAre DEF SearchTree
  <2>2. \A n \in TreeNodes :
          r.parent[n] = IF n = x THEN y
                        ELSE IF n = y THEN t.parent[x]
                        ELSE IF n = t.child[side][y] /\ n # Nil THEN x
                        ELSE t.parent[n]
    BY <2>1, RotateIs
  <2> QED
    BY <2>1, <2>2
<1> QED
  BY <1>1, RotateLinks DEF Rotated

(* What the heights say of a node and its child.                           *)
LEMMA HeightIs ==
  ASSUME NEW t, NEW S, NEW U, NEW H, NEW q, NEW d,
         SearchTree(t, S, U), Heights(t, S, H, q, d)
  PROVE  /\ S \subseteq TreeNodes /\ Nil \in TreeNodes /\ Nil \notin S
         /\ H \in [TreeNodes -> Nat] /\ H[Nil] = 0
         /\ \A n \in TreeNodes : H[n] \in Nat
         /\ \A n \in S, s \in Sides :
              /\ t.child[s][n] \in S \cup {Nil} /\ t.child[s][n] \in TreeNodes
              /\ ~(n = q /\ s = d) => H[n] = H[t.child[s][n]] + Weight(t, n)
              /\ n = q /\ s = d => H[n] = H[t.child[s][n]] + 1 + Weight(t, n)
<1>1. S \subseteq TreeNodes /\ Nil \in TreeNodes /\ Nil \notin S
  BY NodesAre DEF SearchTree
<1>2. H \in [TreeNodes -> Nat] /\ H[Nil] = 0
  BY DEF Heights
<1>3. ASSUME NEW n \in S, NEW s \in Sides
      PROVE  /\ t.child[s][n] \in S \cup {Nil} /\ t.child[s][n] \in TreeNodes
             /\ ~(n = q /\ s = d) => H[n] = H[t.child[s][n]] + Weight(t, n)
             /\ n = q /\ s = d => H[n] = H[t.child[s][n]] + 1 + Weight(t, n)
  <2>1. t.child[s][n] \in S \cup {Nil} /\ t.child[s][n] \in TreeNodes
    BY <1>1 DEF SearchTree
  <2>2. H[n] = H[t.child[s][n]] + (IF n = q /\ s = d THEN 1 ELSE 0)
                 + Weight(t, n)
    BY DEF Heights
  <2>3. Weight(t, n) \in {0, 1}
    BY DEF Weight
  <2>4. H[t.child[s][n]] \in Nat
    BY <1>2, <2>1
  <2> QED
    BY <2>1, <2>2, <2>3, <2>4
<1> QED
  BY <1>1, <1>2, <1>3

LEMMA HeightsFrom ==
  ASSUME NEW t, NEW S, NEW U, NEW G, NEW q, NEW d,
         SearchTree(t, S, U), G \in [TreeNodes -> Nat], G[Nil] = 0,
         \A n \in S, s \in Sides :
           /\ ~(n = q /\ s = d) => G[n] = G[t.child[s][n]] + Weight(t, n)
           /\ n = q /\ s = d => G[n] = G[t.child[s][n]] + 1 + Weight(t, n)
  PROVE  Heights(t, S, G, q, d)
<1>1. ASSUME NEW n \in S, NEW s \in Sides
      PROVE  G[n] = G[t.child[s][n]] + (IF n = q /\ s = d THEN 1 ELSE 0)
                      + Weight(t, n)
  <2>1. Weight(t, n) \in {0, 1}
    BY DEF Weight
  <2>2. G[t.child[s][n]] \in Nat
    BY NodeIs
  <2>3. CASE n = q /\ s = d
    BY <2>1, <2>2, <2>3
  <2>4. CASE ~(n = q /\ s = d)
    BY <2>1, <2>2, <2>4
  <2> QED
    BY <2>3, <2>4
<1> QED
  BY <1>1 DEF Heights

LEMMA OtherSide ==
  ASSUME NEW a \in Sides, NEW s \in Sides
  PROVE  s = a \/ s = Other(a)
BY DEF Sides, Other

(* There is one way from above to a node.                                  *)
LEMMA ChildIs ==
  ASSUME NEW t, NEW S, NEW U, SearchTree(t, S, U), NEW m \in S, NEW s \in Sides,
         NEW n, n = t.child[s][m], n # Nil
  PROVE  /\ n \in S /\ n # m /\ n # t.root /\ m = t.parent[n]
         /\ s = SideOf(t, m, n)
         /\ \A i \in S, r \in Sides : t.child[r][i] = n => i = m /\ r = s
<1>1. n \in S /\ n # m
  BY NodeIs
<1>2. /\ \A i \in S, r \in Sides :
           t.child[r][i] = n => /\ i = t.parent[n] /\ n # t.root
                                /\ r = SideOf(t, i, n)
  BY <1>1, HangsBelow
<1> QED
  BY <1>1, <1>2

(* The red node z has a red parent: there is a black grandparent.          *)
LEMMA RedParentIs ==
  ASSUME NEW t, NEW S, NEW U, NEW H, NEW z, Inserted(t, S, U, H, z),
         NEW p, p = t.parent[z], t.color[p] = "red",
         NEW g, g = t.parent[p], NEW a, a = SideOf(t, g, p),
         NEW b, b = SideOf(t, p, z), NEW u, u = t.child[Other(a)][g]
  PROVE  /\ z \in S /\ p \in S /\ g \in S /\ u \in S \cup {Nil}
         /\ p # z /\ g # z /\ p # g /\ u # p /\ u # g /\ u # z
         /\ z # t.root /\ p # t.root
         /\ a \in Sides /\ b \in Sides
         /\ t.child[a][g] = p /\ t.child[b][p] = z
         /\ t.color[g] = "black" /\ t.color[z] = "red"
         /\ \A n \in S, s \in Sides :
              /\ t.child[s][n] = p => n = g /\ s = a
              /\ t.child[s][n] = z => n = p /\ s = b
              /\ u # Nil /\ t.child[s][n] = u => n = g /\ s = Other(a)
<1>1. /\ SearchTree(t, S, U) /\ z \in S /\ t.color[z] = "red"
      /\ t.root # z => t.color[t.root] = "black"
      /\ RedRule(t, S, Nil, z) /\ t.color[Nil] = "black" /\ Nil \notin S
  BY NodesAre DEF Inserted, SearchTree
<1>2. z # t.root
  BY <1>1, HangsBelow
<1>3. p \in S /\ p # Nil /\ p # z /\ b \in Sides /\ t.child[b][p] = z
  BY <1>1, <1>2, HangsBelow
<1>4. p # t.root
  BY <1>1, <1>2
<1>5. g \in S /\ g # Nil /\ g # p /\ a \in Sides /\ t.child[a][g] = p
  BY <1>1, <1>3, <1>4, HangsBelow
<1>6. z \in U[p] /\ g \notin U[p]
  <2>1. z \in U[p]
    BY <1>1, <1>3, NodeIs
  <2>2. U[p] \subseteq U[g] \ {g}
    BY <1>1, <1>5, NodeIs
  <2> QED
    BY <2>1, <2>2
<1>7. Other(a) \in Sides /\ Other(a) # a /\ Other(Other(a)) = a
  BY <1>5, SidesAre
<1>8. /\ u \in S \cup {Nil} /\ u # g /\ u # p /\ (u # Nil => t.parent[u] = g)
  <2>1. u # p
    BY <1>1, <1>3, <1>5, NodeIs
  <2>2. u \in S \cup {Nil} /\ u # g /\ (u # Nil => t.parent[u] = g)
    <3>1. SearchTree(t, S, U) /\ g \in S /\ Other(a) \in Sides
      BY <1>1, <1>5, <1>7
    <3>2. /\ t.child[Other(a)][g] \in S \cup {Nil}
          /\ t.child[Other(a)][g] # g
          /\ t.child[Other(a)][g] # Nil => t.parent[t.child[Other(a)][g]] = g
      BY ONLY <3>1, NodeIs
    <3> QED
      BY <3>2
  <2> QED
    BY <2>1, <2>2
<1>9. u # z
  BY <1>1, <1>5, <1>8
<1>10. t.color[g] = "black"
  <2>1. t.color[g] \in {"red", "black"}
    <3>1. t.color \in [TreeNodes -> {"red", "black"}] /\ S \subseteq Users
      BY <1>1 DEF SearchTree, Trees
    <3> QED
      BY <1>5, <3>1, NodesAre
  <2>2. t.color[g] = "red" => t.color[p] = "black"
    BY <1>1, <1>3, <1>5 DEF RedRule
  <2> QED
    BY <2>1, <2>2
<1>11. \A n \in S, s \in Sides :
         /\ t.child[s][n] = p => n = g /\ s = a
         /\ t.child[s][n] = z => n = p /\ s = b
  BY <1>1, <1>3, HangsBelow
<1>12. u # Nil => \A n \in S, s \in Sides :
                    t.child[s][n] = u => n = g /\ s = Other(a)
  BY <1>1, <1>5, <1>7, ChildIs
<1> QED
  BY <1>1, <1>2, <1>3, <1>4, <1>5, <1>6, <1>8, <1>9, <1>10, <1>11, <1>12


(* The uncle is red too: both go black, and the red node moves up.         *)
LEMMA RecolourKeeps ==
  ASSUME NEW t, NEW S, NEW U, NEW H, NEW z, Inserted(t, S, U, H, z)
  PROVE  LET p == t.parent[z]
             g == t.parent[p]
             u == t.child[Other(SideOf(t, g, p))][g]
             r == Paint(Paint(t, {p, u}, "black"), {g}, "red")
         IN  t.color[p] = "red" /\ t.color[u] = "red" =>
               \E G \in [TreeNodes -> Nat] : Inserted(r, S, U, G, g)
<1> DEFINE p == t.parent[z]
           g == t.parent[p]
           a == SideOf(t, g, p)
           u == t.child[Other(a)][g]
           r == Paint(Paint(t, {p, u}, "black"), {g}, "red")
           G == [n \in TreeNodes |-> IF n = p \/ n = u THEN H[n] + 1 ELSE H[n]]
<1> SUFFICES ASSUME t.color[p] = "red", t.color[u] = "red"
             PROVE  \E K \in [TreeNodes -> Nat] : Inserted(r, S, U, K, g)
  OBVIOUS
<1>1. /\ z \in S /\ p \in S /\ g \in S /\ u \in S
      /\ p # z /\ g # z /\ p # g /\ u # p /\ u # g /\ u # z
      /\ z # t.root /\ p # t.root
      /\ a \in Sides /\ t.child[a][g] = p /\ t.child[Other(a)][g] = u
      /\ t.color[g] = "black"
      /\ \A n \in S, s \in Sides :
           /\ t.child[s][n] = p => n = g /\ s = a
           /\ t.child[s][n] = z => n = p
           /\ t.child[s][n] = u => n = g /\ s = Other(a)
  <2>1. t.color[Nil] = "black"
    BY DEF Inserted, SearchTree
  <2> QED
    BY <2>1, RedParentIs
<1>2. SearchTree(t, S, U) /\ Heights(t, S, H, Nil, "left") /\ RedRule(t, S, Nil, z)
  BY DEF Inserted
<1>3. /\ S \subseteq TreeNodes /\ Nil \in TreeNodes /\ Nil \notin S
      /\ H \in [TreeNodes -> Nat] /\ H[Nil] = 0
      /\ \A n \in TreeNodes : H[n] \in Nat
      /\ \A n \in S, s \in Sides :
           /\ t.child[s][n] \in S \cup {Nil} /\ t.child[s][n] \in TreeNodes
           /\ H[n] = H[t.child[s][n]] + Weight(t, n)
  BY <1>2, HeightIs
<1> HIDE DEF p, g, a, u
<1>4. /\ SearchTree(r, S, U) /\ r.child = t.child /\ r.root = t.root
      /\ \A n \in TreeNodes :
           r.color[n] = IF n = g THEN "red"
                        ELSE IF n = p \/ n = u THEN "black" ELSE t.color[n]
  <2> DEFINE X == {p, u}
             Y == {g}
  <2>1. Paints(X, "black") /\ Paints(Y, "red")
    BY <1>1, <1>3 DEF Paints
  <2>2. r = Paint(Paint(t, X, "black"), Y, "red")
    OBVIOUS
  <2> HIDE DEF X, Y, r
  <2>3. /\ SearchTree(r, S, U) /\ r.child = t.child /\ r.root = t.root
        /\ \A n \in TreeNodes :
             r.color[n] = IF n \in Y THEN "red" ELSE IF n \in X THEN "black"
                          ELSE t.color[n]
    BY <1>2, <2>1, <2>2, RepaintIs
  <2> QED
    BY <2>3 DEF X, Y
<1>5. /\ G \in [TreeNodes -> Nat] /\ G[Nil] = 0
      /\ \A n \in TreeNodes : G[n] = IF n = p \/ n = u THEN H[n] + 1 ELSE H[n]
  <2>1. G \in [TreeNodes -> Nat]
    BY <1>3
  <2>2. Nil # p /\ Nil # u
    BY <1>1, <1>3
  <2> QED
    BY <1>3, <2>1, <2>2
<1> HIDE DEF G, r
<1>6. ASSUME NEW n \in S, NEW s \in Sides
      PROVE  G[n] = G[r.child[s][n]] + Weight(r, n)
  <2>1. PICK c : c = t.child[s][n] /\ c = r.child[s][n]
    BY <1>4
  <2>2. /\ H[n] = H[c] + Weight(t, n) /\ c \in TreeNodes /\ n \in TreeNodes
        /\ H[n] \in Nat /\ H[c] \in Nat
    BY <1>3, <2>1
  <2>3. CASE n = g
    <3>1. c = p \/ c = u
      <4>1. s = a \/ s = Other(a)
        BY <1>1, OtherSide
      <4> QED
        BY <1>1, <2>1, <2>3, <4>1
    <3>2. Weight(t, n) = 1 /\ Weight(r, n) = 0
      BY <1>1, <1>4, <2>2, <2>3 DEF Weight
    <3>3. G[n] = H[n] /\ G[c] = H[c] + 1
      BY <1>1, <1>5, <2>2, <2>3, <3>1
    <3> QED
      BY <2>1, <2>2, <3>2, <3>3
  <2>4. CASE n = p \/ n = u
    <3>1. c # p /\ c # u
      BY <1>1, <2>1, <2>4
    <3>2. Weight(t, n) = 0 /\ Weight(r, n) = 1
      BY <1>1, <1>4, <2>2, <2>4 DEF Weight
    <3>3. G[n] = H[n] + 1 /\ G[c] = H[c]
      BY <1>5, <2>2, <2>4, <3>1
    <3> QED
      BY <2>1, <2>2, <3>2, <3>3
  <2>5. CASE n # g /\ n # p /\ n # u
    <3>1. c # p /\ c # u
      BY <1>1, <2>1, <2>5
    <3>2. Weight(t, n) = Weight(r, n)
      BY <1>4, <2>2, <2>5 DEF Weight
    <3>3. G[n] = H[n] /\ G[c] = H[c]
      BY <1>5, <2>2, <2>5, <3>1
    <3> QED
      BY <2>1, <2>2, <3>2, <3>3
  <2> QED
    BY <2>3, <2>4, <2>5
<1>7. Heights(r, S, G, Nil, "left")
  BY <1>3, <1>4, <1>5, <1>6, HeightsFrom
<1>8. ASSUME NEW n \in S, NEW s \in Sides, r.color[n] = "red",
             r.child[s][n] # g
      PROVE  r.color[r.child[s][n]] = "black"
  <2>1. PICK c : c = t.child[s][n] /\ c = r.child[s][n]
    BY <1>4
  <2>2. c \in TreeNodes /\ n \in TreeNodes
    BY <1>3, <2>1
  <2>3. CASE c = p \/ c = u
    <3>1. r.color[c] = "black"
      BY <1>1, <1>4, <2>2, <2>3
    <3> QED
      BY <2>1, <3>1
  <2>4. CASE c # p /\ c # u
    <3>1. n # g
      <4>1. s = a \/ s = Other(a)
        BY <1>1, OtherSide
      <4> QED
        BY <1>1, <2>1, <2>4, <4>1
    <3>2. n # p /\ n # u /\ t.color[n] = "red"
      BY <1>4, <1>8, <2>2, <3>1
    <3>3. c # z
      BY <1>1, <2>1, <3>2
    <3>4. t.color[c] = "black"
      <4>1. n # Nil /\ t.child[s][n] # z /\ t.color[n] = "red"
        BY <1>3, <2>1, <3>2, <3>3
      <4>2. t.color[t.child[s][n]] = "black"
        BY <1>2, <4>1 DEF RedRule
      <4> QED
        BY <2>1, <4>2
    <3> QED
      BY <1>4, <1>8, <2>1, <2>2, <2>4, <3>4
  <2> QED
    BY <2>3, <2>4
<1>9. RedRule(r, S, Nil, g)
  BY <1>8 DEF RedRule
<1>10. r.root # g => r.color[r.root] = "black"
  <2>1. t.color[t.root] = "black" /\ t.root \in TreeNodes
    BY <1>1, <1>3 DEF Inserted, SearchTree
  <2> QED
    BY <1>4, <2>1
<1>11. Inserted(r, S, U, G, g)
  BY <1>1, <1>3, <1>4, <1>7, <1>9, <1>10 DEF Inserted
<1> QED
  BY <1>5, <1>11

(* z is the inner grandchild: a rotation makes its parent the outer one.   *)
LEMMA TurnParentKeeps ==
  ASSUME NEW t, NEW S, NEW U, NEW H, NEW z, Inserted(t, S, U, H, z)
  PROVE  LET p == t.parent[z]
             g == t.parent[p]
             a == SideOf(t, g, p)
             u == t.child[Other(a)][g]
             r == Rotate(t, p, a)
         IN  t.color[p] = "red" /\ t.color[u] # "red"
                /\ z = t.child[Other(a)][p] =>
               Inserted(r, S, Turned(t, U, p, a), H, p) /\ Outer(r, p)
<1> DEFINE p == t.parent[z]
           g == t.parent[p]
           a == SideOf(t, g, p)
           u == t.child[Other(a)][g]
           far == Other(a)
           inner == t.child[a][z]
           r == Rotate(t, p, a)
           V == Turned(t, U, p, a)
<1> SUFFICES ASSUME t.color[p] = "red", t.color[u] # "red",
                    z = t.child[far][p]
             PROVE  Inserted(r, S, V, H, p) /\ Outer(r, p)
  OBVIOUS
<1>1. /\ z \in S /\ p \in S /\ g \in S /\ u \in S \cup {Nil}
      /\ p # z /\ g # z /\ p # g /\ u # p /\ u # g /\ u # z
      /\ z # t.root /\ p # t.root
      /\ a \in Sides /\ t.child[a][g] = p /\ t.child[far][g] = u
      /\ t.color[g] = "black" /\ t.color[z] = "red"
      /\ \A n \in S, s \in Sides :
           /\ t.child[s][n] = p => n = g /\ s = a
           /\ t.child[s][n] = z => n = p
  <2> DEFINE b == SideOf(t, p, z)
  <2>1. /\ p = t.parent[z] /\ g = t.parent[p] /\ a = SideOf(t, g, p)
        /\ b = SideOf(t, p, z) /\ u = t.child[far][g] /\ far = Other(a)
    OBVIOUS
  <2> HIDE DEF p, g, a, b, u, far, inner, r, V
  <2>2. Inserted(t, S, U, H, z) /\ t.color[p] = "red" /\ u = t.child[Other(a)][g]
    BY <2>1
  <2>3. /\ z \in S /\ p \in S /\ g \in S /\ u \in S \cup {Nil}
        /\ p # z /\ g # z /\ p # g /\ u # p /\ u # g /\ u # z
        /\ z # t.root /\ p # t.root
        /\ a \in Sides /\ t.child[a][g] = p
        /\ t.color[g] = "black" /\ t.color[z] = "red"
        /\ \A n \in S, s \in Sides :
             /\ t.child[s][n] = p => n = g /\ s = a
             /\ t.child[s][n] = z => n = p
    BY ONLY <2>1, <2>2, RedParentIs
  <2> QED
    BY <2>1, <2>3
<1>2. SearchTree(t, S, U) /\ Heights(t, S, H, Nil, "left") /\ RedRule(t, S, Nil, z)
  BY DEF Inserted
<1>3. /\ S \subseteq TreeNodes /\ Nil \in TreeNodes /\ Nil \notin S
      /\ H \in [TreeNodes -> Nat] /\ H[Nil] = 0
      /\ \A n \in TreeNodes : H[n] \in Nat
      /\ \A n \in S, s \in Sides :
           /\ t.child[s][n] \in S \cup {Nil} /\ t.child[s][n] \in TreeNodes
           /\ H[n] = H[t.child[s][n]] + Weight(t, n)
  BY <1>2, HeightIs
<1>4. far \in Sides /\ far # a /\ Other(far) = a
  BY <1>1, SidesAre
<1>5. t.parent[p] = g
  OBVIOUS
<1>6. /\ SearchTree(r, S, V) /\ r.color = t.color
      /\ inner \in S \cup {Nil} /\ inner # p /\ inner # z
      /\ r.root = IF t.root = p THEN z ELSE t.root
      /\ \A s \in Sides, n \in S :
           r.child[s][n] =
             IF n = z /\ s = a THEN p
             ELSE IF n = p /\ s = far THEN inner
             ELSE IF t.child[s][n] = p THEN z ELSE t.child[s][n]
      /\ \A n \in S :
           r.parent[n] = IF n = p THEN z
                         ELSE IF n = z THEN t.parent[p]
                         ELSE IF n = inner THEN p ELSE t.parent[n]
  <2>1. /\ z # Nil /\ p \in S /\ a \in Sides /\ t.child[Other(a)][p] = z
    BY <1>1, <1>3
  <2> HIDE DEF p, g, a, u
  <2>2. SearchTree(r, S, V)
    BY <1>2, <2>1, RotateKeepsTree
  <2>3. Rotated(t, S, r, p, a, t.child[Other(a)][p])
    BY <1>2, <2>1, RotatedIs
  <2>4. Rotated(t, S, r, p, a, z)
    BY <2>1, <2>3
  <2> HIDE DEF r, V
  <2> QED
    BY <2>2, <2>4 DEF Rotated
<1>7. t.child[a][z] = inner
  OBVIOUS
<1> HIDE DEF p, g, a, u, far, inner, r, V
<1>8. /\ H[p] = H[z] /\ H[z] = H[inner]
      /\ \A s \in Sides, n \in S : H[n] = H[r.child[s][n]] + Weight(r, n)
  <2>1. Weight(t, p) = 0 /\ Weight(t, z) = 0
    BY <1>1 DEF Weight
  <2>2. H[p] = H[z] + 0 /\ H[z] = H[inner] + 0
    BY <1>1, <1>3, <1>4, <1>7, <2>1
  <2>3. H[p] = H[z] /\ H[z] = H[inner]
    BY <1>1, <1>3, <1>6, <2>2
  <2>4. ASSUME NEW s \in Sides, NEW n \in S
        PROVE  H[r.child[s][n]] = H[t.child[s][n]]
    <3>1. CASE n = z /\ s = a
      BY <1>6, <1>7, <2>3, <3>1
    <3>2. CASE n = p /\ s = far
      BY <1>1, <1>6, <2>3, <3>2
    <3>3. CASE ~(n = z /\ s = a) /\ ~(n = p /\ s = far)
      <4>1. r.child[s][n] = IF t.child[s][n] = p THEN z ELSE t.child[s][n]
        BY <1>6, <3>3
      <4> QED
        BY <2>3, <4>1
    <3> QED
      BY <3>1, <3>2, <3>3
  <2>5. \A n \in S : Weight(r, n) = Weight(t, n)
    BY <1>6 DEF Weight
  <2> QED
    BY <1>3, <2>3, <2>4, <2>5
<1>9. Heights(r, S, H, Nil, "left")
  BY <1>3, <1>6, <1>8, HeightsFrom
<1>10. ASSUME NEW n \in S, NEW s \in Sides, t.color[n] = "red",
              r.child[s][n] # p
       PROVE  t.color[r.child[s][n]] = "black"
  <2>1. \A m \in S, q \in Sides :
          t.color[m] = "red" /\ t.child[q][m] # z => t.color[t.child[q][m]] = "black"
    BY <1>2, <1>3 DEF RedRule
  <2>2. CASE n = z
    <3>1. r.child[s][n] = t.child[s][n]
      <4>1. s # a
        BY <1>6, <1>10, <2>2
      <4>2. t.child[s][n] # p
        BY <1>1, <2>2
      <4> QED
        BY <1>1, <1>6, <2>2, <4>1, <4>2
    <3>2. t.child[s][n] # z
      BY <1>1, <2>2
    <3> QED
      BY <1>10, <2>1, <3>1, <3>2
  <2>3. CASE n = p
    <3>1. CASE s = far
      <4>1. r.child[s][n] = inner
        BY <1>1, <1>6, <2>3, <3>1
      <4>2. t.child[a][z] # z
        BY <1>6, <1>7
      <4> QED
        BY <1>1, <1>7, <2>1, <4>1, <4>2
    <3>2. CASE s # far
      <4>1. t.child[s][n] # p /\ t.child[s][n] # z
        <5>1. s = a
          BY <1>1, <3>2, OtherSide DEF far
        <5>2. t.child[a][p] # t.child[far][p]
          <6>1. \A q \in Sides : t.child[q][p] = z => q = far
            <7>1. z # Nil
              BY <1>1, <1>3
            <7> QED
              BY <1>1, <1>2, <1>4, <7>1, ChildIs
          <6> QED
            BY <1>1, <1>4, <6>1
        <5>3. t.child[s][n] # p
          BY <1>1, <2>3
        <5> QED
          BY <2>3, <5>1, <5>2, <5>3
      <4>2. r.child[s][n] = t.child[s][n]
        BY <1>1, <1>6, <2>3, <3>2, <4>1
      <4> QED
        BY <1>10, <2>1, <4>1, <4>2
    <3> QED
      BY <3>1, <3>2
  <2>4. CASE n # z /\ n # p
    <3>1. t.child[s][n] # p /\ t.child[s][n] # z
      BY <1>1, <1>10, <2>4
    <3>2. r.child[s][n] = t.child[s][n]
      BY <1>6, <2>4, <3>1
    <3> QED
      BY <1>10, <2>1, <3>1, <3>2
  <2> QED
    BY <2>2, <2>3, <2>4
<1>11. RedRule(r, S, Nil, p)
  BY <1>6, <1>10 DEF RedRule
<1>12. r.root # p => r.color[r.root] = "black"
  BY <1>1, <1>6 DEF Inserted
<1>13. Inserted(r, S, V, H, p)
  BY <1>1, <1>6, <1>9, <1>11, <1>12 DEF Inserted
<1>14. /\ r.parent[p] = z /\ r.parent[z] = g
       /\ r.child[a][g] = z /\ r.child[far][g] = u
       /\ r.child[a][z] = p
  BY <1>1, <1>4, <1>5, <1>6
<1>15. SideOf(r, g, z) = a
  <2>1. z # Nil
    BY <1>1, <1>3
  <2> QED
    BY <1>1, <1>6, <1>14, <2>1, ChildIs
<1>16. Outer(r, p)
  <2>1. t.color[u] = "black"
    <3>1. u \in TreeNodes
      BY <1>1, <1>3
    <3> QED
      BY <1>2, <3>1 DEF SearchTree, Trees
  <2>2. Other(a) = far
    BY DEF far
  <2> QED
    BY <1>1, <1>6, <1>14, <1>15, <2>1, <2>2 DEF Outer
<1> QED
  BY <1>13, <1>16

(* z is the outer grandchild: parent and grandparent swap their colours,   *)
(* and a rotation puts the parent above.                                   *)
LEMMA TurnGrandparentKeeps ==
  ASSUME NEW t, NEW S, NEW U, NEW H, NEW z,
         Inserted(t, S, U, H, z), Outer(t, z)
  PROVE  LET p == t.parent[z]
             g == t.parent[p]
             a == SideOf(t, g, p)
             v == Paint(Paint(t, {p}, "black"), {g}, "red")
             r == Rotate(v, g, Other(a))
         IN  \E G \in [TreeNodes -> Nat] :
               Inserted(r, S, Turned(v, U, g, Other(a)), G, z)
<1> DEFINE p == t.parent[z]
           g == t.parent[p]
           a == SideOf(t, g, p)
           far == Other(a)
           u == t.child[far][g]
           v == Paint(Paint(t, {p}, "black"), {g}, "red")
           inner == t.child[far][p]
           r == Rotate(v, g, far)
           V == Turned(v, U, g, far)
           G == [n \in TreeNodes |-> IF n = p THEN H[g]
                                     ELSE IF n = g THEN H[p] ELSE H[n]]
<1>0. t.color[p] = "red" /\ z = t.child[a][p] /\ t.color[u] = "black"
  BY DEF Outer
<1>1. /\ z \in S /\ p \in S /\ g \in S /\ u \in S \cup {Nil}
      /\ p # z /\ g # z /\ p # g /\ u # p /\ u # g /\ u # z
      /\ z # t.root /\ p # t.root
      /\ a \in Sides /\ t.child[a][g] = p /\ t.child[far][g] = u
      /\ t.color[g] = "black" /\ t.color[z] = "red"
      /\ \A n \in S, s \in Sides :
           /\ t.child[s][n] = p => n = g /\ s = a
           /\ t.child[s][n] = z => n = p
  BY <1>0, RedParentIs
<1>2. SearchTree(t, S, U) /\ Heights(t, S, H, Nil, "left") /\ RedRule(t, S, Nil, z)
  BY DEF Inserted
<1>3. /\ S \subseteq TreeNodes /\ Nil \in TreeNodes /\ Nil \notin S
      /\ H \in [TreeNodes -> Nat] /\ H[Nil] = 0
      /\ \A n \in TreeNodes : H[n] \in Nat
      /\ \A n \in S, s \in Sides :
           /\ t.child[s][n] \in S \cup {Nil} /\ t.child[s][n] \in TreeNodes
           /\ H[n] = H[t.child[s][n]] + Weight(t, n)
  BY <1>2, HeightIs
<1>4. far \in Sides /\ far # a /\ Other(far) = a
  BY <1>1, SidesAre
<1>5. \A m \in S, q \in Sides :
        t.color[m] = "red" /\ t.child[q][m] # z => t.color[t.child[q][m]] = "black"
  BY <1>2, <1>3 DEF RedRule
<1>6. t.child[far][p] = inner /\ inner \in TreeNodes /\ t.child[a][p] = z
  BY <1>0, <1>1, <1>3, <1>4
<1> HIDE DEF p, g, a, u
<1>7. /\ SearchTree(v, S, U) /\ v.child = t.child /\ v.root = t.root
      /\ \A n \in TreeNodes :
           v.color[n] = IF n = g THEN "red"
                        ELSE IF n = p THEN "black" ELSE t.color[n]
  <2> DEFINE X == {p}
             Y == {g}
  <2>1. Paints(X, "black") /\ Paints(Y, "red")
    BY <1>1, <1>3 DEF Paints
  <2>2. v = Paint(Paint(t, X, "black"), Y, "red")
    OBVIOUS
  <2> HIDE DEF X, Y, v
  <2>3. /\ SearchTree(v, S, U) /\ v.child = t.child /\ v.root = t.root
        /\ \A n \in TreeNodes :
             v.color[n] = IF n \in Y THEN "red" ELSE IF n \in X THEN "black"
                          ELSE t.color[n]
    BY <1>2, <2>1, <2>2, RepaintIs
  <2> QED
    BY <2>3 DEF X, Y
<1> HIDE DEF v
<1>8. SearchTree(r, S, V) /\ Rotated(v, S, r, g, far, p)
  <2>1. v.child[Other(far)][g] = p /\ p # Nil /\ v.child[Other(far)][g] # Nil
    BY <1>1, <1>3, <1>4, <1>7
  <2> HIDE DEF far
  <2>2. SearchTree(r, S, V)
    BY <1>1, <1>4, <1>7, <2>1, RotateKeepsTree
  <2>3. Rotated(v, S, r, g, far, v.child[Other(far)][g])
    BY <1>1, <1>4, <1>7, <2>1, RotatedIs
  <2> QED
    BY <2>1, <2>2, <2>3
<1> HIDE DEF far, inner, r, V
<1>9. /\ SearchTree(r, S, V) /\ r.root = IF t.root = g THEN p ELSE t.root
      /\ inner \in S \cup {Nil} /\ inner # g /\ inner # p
      /\ \A s \in Sides, n \in S :
           r.child[s][n] =
             IF n = p /\ s = far THEN g
             ELSE IF n = g /\ s = a THEN inner
             ELSE IF t.child[s][n] = g THEN p ELSE t.child[s][n]
      /\ \A n \in TreeNodes :
           r.color[n] = IF n = g THEN "red"
                        ELSE IF n = p THEN "black" ELSE t.color[n]
  BY <1>4, <1>6, <1>7, <1>8 DEF Rotated
<1>10. inner # z
  <2>1. z # Nil
    BY <1>1, <1>3
  <2> QED
    BY <1>1, <1>2, <1>4, <1>6, <2>1, ChildIs
<1>11. /\ \A n \in TreeNodes : G[n] = IF n = p THEN H[g]
                                       ELSE IF n = g THEN H[p] ELSE H[n]
       /\ G \in [TreeNodes -> Nat] /\ G[Nil] = 0
  <2>1. G \in [TreeNodes -> Nat]
    BY <1>1, <1>3
  <2>2. Nil # p /\ Nil # g
    BY <1>1, <1>3
  <2> QED
    BY <1>3, <2>1, <2>2
<1> HIDE DEF G
<1>12. /\ H[p] = H[z] /\ H[p] = H[inner] /\ H[g] = H[p] + 1 /\ H[u] = H[p]
       /\ H[p] \in Nat /\ H[g] \in Nat
  <2>1. Weight(t, p) = 0 /\ Weight(t, g) = 1
    BY <1>0, <1>1 DEF Weight
  <2>2. H[p] = H[z] + 0 /\ H[p] = H[inner] + 0
    BY <1>1, <1>3, <1>4, <1>6, <2>1
  <2>3. H[g] = H[p] + 1 /\ H[g] = H[u] + 1
    BY <1>1, <1>3, <1>4, <2>1
  <2>4. H[z] \in Nat /\ H[inner] \in Nat /\ H[u] \in Nat /\ H[p] \in Nat /\ H[g] \in Nat
    BY <1>1, <1>3, <1>6
  <2> QED
    BY <2>2, <2>3, <2>4
<1>13. ASSUME NEW n \in S, NEW s \in Sides
       PROVE  G[n] = G[r.child[s][n]] + Weight(r, n)
  <2>1. n \in TreeNodes /\ t.child[s][n] \in TreeNodes /\ (s = a \/ s = far)
    BY <1>1, <1>3, OtherSide DEF far
  <2>2. CASE n = p
    <3>1. Weight(r, n) = 1 /\ G[n] = H[p] + 1
      BY <1>9, <1>11, <1>12, <1>1, <2>1, <2>2 DEF Weight
    <3>2. CASE s = far
      <4>1. r.child[s][n] = g
        BY <1>9, <2>2, <3>2
      <4>2. G[g] = H[p]
        BY <1>1, <1>3, <1>11
      <4> QED
        BY <3>1, <4>1, <4>2
    <3>3. CASE s = a
      <4>1. r.child[s][n] = z
        BY <1>1, <1>4, <1>6, <1>9, <2>2, <3>3
      <4>2. G[z] = H[p]
        BY <1>1, <1>3, <1>11, <1>12
      <4> QED
        BY <3>1, <4>1, <4>2
    <3> QED
      BY <2>1, <3>2, <3>3
  <2>3. CASE n = g
    <3>1. Weight(r, n) = 0 /\ G[n] = H[p]
      BY <1>1, <1>9, <1>11, <2>1, <2>3 DEF Weight
    <3>2. CASE s = a
      <4>1. r.child[s][n] = inner
        BY <1>1, <1>9, <2>3, <3>2
      <4>2. G[inner] = H[p]
        BY <1>6, <1>9, <1>11, <1>12
      <4> QED
        BY <1>12, <3>1, <4>1, <4>2
    <3>3. CASE s = far
      <4>1. r.child[s][n] = u
        BY <1>1, <1>4, <1>9, <2>3, <3>3
      <4>2. G[u] = H[p]
        BY <1>1, <1>3, <1>11, <1>12
      <4> QED
        BY <1>12, <3>1, <4>1, <4>2
    <3> QED
      BY <2>1, <3>2, <3>3
  <2>4. CASE n # p /\ n # g
    <3>1. Weight(r, n) = Weight(t, n) /\ G[n] = H[n]
      BY <1>9, <1>11, <2>1, <2>4 DEF Weight
    <3>2. t.child[s][n] # p
      BY <1>1, <2>4
    <3>3. G[r.child[s][n]] = H[t.child[s][n]]
      <4>1. CASE t.child[s][n] = g
        <5>1. r.child[s][n] = p
          BY <1>9, <2>4, <4>1
        <5>2. G[p] = H[g]
          BY <1>1, <1>3, <1>11
        <5> QED
          BY <4>1, <5>1, <5>2
      <4>2. CASE t.child[s][n] # g
        <5>1. r.child[s][n] = t.child[s][n]
          BY <1>9, <2>4, <4>2
        <5> QED
          BY <1>11, <2>1, <3>2, <4>2, <5>1
      <4> QED
        BY <4>1, <4>2
    <3> QED
      BY <1>3, <3>1, <3>3
  <2> QED
    BY <2>2, <2>3, <2>4
<1>14. Heights(r, S, G, Nil, "left")
  BY <1>3, <1>9, <1>11, <1>13, HeightsFrom
<1>15. ASSUME NEW n \in S, NEW s \in Sides, r.color[n] = "red",
              r.child[s][n] # z
       PROVE  r.color[r.child[s][n]] = "black"
  <2>1. n \in TreeNodes /\ t.child[s][n] \in TreeNodes /\ (s = a \/ s = far)
        /\ p \in TreeNodes
    BY <1>1, <1>3, OtherSide DEF far
  <2>2. n # p
    BY <1>1, <1>9, <1>15, <2>1
  <2>3. CASE n = g
    <3>1. r.child[s][n] = inner \/ r.child[s][n] = u
      BY <1>1, <1>4, <1>9, <2>1, <2>3
    <3>2. t.color[inner] = "black" /\ t.color[u] = "black"
      BY <1>0, <1>1, <1>4, <1>5, <1>6, <1>10
    <3>3. u \in TreeNodes /\ u # g /\ inner \in TreeNodes /\ inner # g
      BY <1>1, <1>3, <1>6, <1>9
    <3>4. r.color[inner] = "black" /\ r.color[u] = "black"
      BY <1>9, <3>2, <3>3
    <3> QED
      BY <3>1, <3>4
  <2>4. CASE n # g
    <3>1. t.color[n] = "red" /\ t.child[s][n] # p /\ t.child[s][n] # z
      BY <1>1, <1>9, <1>15, <2>1, <2>2, <2>4
    <3>2. t.color[t.child[s][n]] = "black"
      BY <1>5, <3>1
    <3>3. CASE t.child[s][n] = g
      <4>1. r.child[s][n] = p
        BY <1>9, <2>2, <2>4, <3>3
      <4>2. r.color[p] = "black"
        BY <1>1, <1>9, <2>1
      <4> QED
        BY <4>1, <4>2
    <3>4. CASE t.child[s][n] # g
      <4>1. r.child[s][n] = t.child[s][n]
        BY <1>9, <2>2, <2>4, <3>4
      <4>2. r.color[t.child[s][n]] = "black"
        BY <1>9, <2>1, <3>2, <3>4
      <4> QED
        BY <4>1, <4>2
    <3> QED
      BY <3>3, <3>4
  <2> QED
    BY <2>3, <2>4
<1>16. RedRule(r, S, Nil, z)
  BY <1>15 DEF RedRule
<1>17. r.root # z => r.color[r.root] = "black"
  <2>1. t.color[t.root] = "black" /\ t.root \in TreeNodes /\ p \in TreeNodes
    BY <1>1, <1>3 DEF Inserted, SearchTree
  <2> QED
    BY <1>1, <1>9, <2>1
<1>18. r.color[z] = "red"
  BY <1>1, <1>3, <1>9
<1>19. Inserted(r, S, V, G, z)
  BY <1>1, <1>9, <1>14, <1>16, <1>17, <1>18 DEF Inserted
<1> QED
  BY <1>11, <1>19 DEF p, g, a, far, v, r, V

(* The parent of z is black: the root is painted black.                    *)
LEMMA InsertDoneKeeps ==
  ASSUME NEW t, NEW S, NEW U, NEW H, NEW z, Inserted(t, S, U, H, z),
         t.color[t.parent[z]] # "red"
  PROVE  LET r == Paint(t, {t.root}, "black")
         IN  \E G \in [TreeNodes -> Nat] : Balanced(r, S, U, G)
<1> DEFINE e == t.root
           r == Paint(t, {e}, "black")
           G == [n \in TreeNodes |-> IF n = e /\ t.color[e] = "red" THEN H[n] + 1
                                     ELSE H[n]]
<1>1. SearchTree(t, S, U) /\ Heights(t, S, H, Nil, "left") /\ RedRule(t, S, Nil, z)
  BY DEF Inserted
<1>2. /\ S \subseteq TreeNodes /\ Nil \in TreeNodes /\ Nil \notin S
      /\ H \in [TreeNodes -> Nat] /\ H[Nil] = 0
      /\ \A n \in TreeNodes : H[n] \in Nat
      /\ \A n \in S, s \in Sides :
           /\ t.child[s][n] \in S \cup {Nil} /\ t.child[s][n] \in TreeNodes
           /\ H[n] = H[t.child[s][n]] + Weight(t, n)
  BY <1>1, HeightIs
<1>3. /\ z \in S /\ e \in S
      /\ \A n \in S, s \in Sides : t.child[s][n] # e
      /\ \A n \in S, s \in Sides : t.child[s][n] = z => t.color[n] # "red"
  <2>1. z \in S
    BY DEF Inserted
  <2>2. e \in S /\ e # Nil
    BY <1>1, <2>1, HangsBelow
  <2>3. \A n \in S, s \in Sides : t.child[s][n] # e
    BY <1>1, <2>2, ChildIs
  <2>4. ASSUME NEW n \in S, NEW s \in Sides, t.child[s][n] = z
        PROVE  t.color[n] # "red"
    <3>1. n = t.parent[z]
      BY <1>1, <1>2, <2>1, <2>4, HangsBelow
    <3> QED
      BY <3>1
  <2> QED
    BY <2>1, <2>2, <2>3, <2>4
<1>4. /\ SearchTree(r, S, U) /\ r.child = t.child /\ r.root = e
      /\ \A n \in TreeNodes : r.color[n] = IF n = e THEN "black" ELSE t.color[n]
  <2> DEFINE X == {e}
  <2>1. Paints(X, "black") /\ r = Paint(t, X, "black")
    BY DEF Paints
  <2> HIDE DEF X, r
  <2>2. /\ SearchTree(r, S, U) /\ r.child = t.child /\ r.root = t.root
        /\ \A n \in TreeNodes : r.color[n] = IF n \in X THEN "black" ELSE t.color[n]
    BY <1>1, <2>1, PaintIs
  <2> QED
    BY <2>2 DEF X
<1> HIDE DEF e, r
<1>5. /\ \A n \in TreeNodes : G[n] = IF n = e /\ t.color[e] = "red" THEN H[n] + 1
                                     ELSE H[n]
      /\ G \in [TreeNodes -> Nat] /\ G[Nil] = 0
  <2>1. G \in [TreeNodes -> Nat]
    BY <1>2
  <2>2. Nil # e
    BY <1>2, <1>3
  <2> QED
    BY <1>2, <2>1, <2>2
<1> HIDE DEF G
<1>6. ASSUME NEW n \in S, NEW s \in Sides
      PROVE  G[n] = G[r.child[s][n]] + Weight(r, n)
  <2>1. n \in TreeNodes /\ t.child[s][n] \in TreeNodes /\ t.child[s][n] # e
        /\ H[n] = H[t.child[s][n]] + Weight(t, n)
    BY <1>2, <1>3
  <2>2. G[r.child[s][n]] = H[t.child[s][n]]
    BY <1>4, <1>5, <2>1
  <2>3. G[n] = H[t.child[s][n]] + Weight(r, n)
    <3>1. t.color[n] \in {"red", "black"}
      BY <1>1, <2>1 DEF SearchTree, Trees
    <3>2. CASE n = e /\ t.color[n] = "red"
      <4>1. Weight(t, n) = 0 /\ Weight(r, n) = 1 /\ G[n] = H[n] + 1
        BY <1>4, <1>5, <2>1, <3>2 DEF Weight
      <4> QED
        BY <1>2, <2>1, <4>1
    <3>3. CASE ~(n = e /\ t.color[n] = "red")
      <4>1. Weight(t, n) = Weight(r, n) /\ G[n] = H[n]
        BY <1>4, <1>5, <2>1, <3>1, <3>3 DEF Weight
      <4> QED
        BY <2>1, <4>1
    <3> QED
      BY <3>2, <3>3
  <2> QED
    BY <2>2, <2>3
<1>7. Heights(r, S, G, Nil, "left")
  BY <1>2, <1>4, <1>5, <1>6, HeightsFrom
<1>8. ASSUME NEW n \in S, NEW s \in Sides, r.color[n] = "red"
      PROVE  r.color[r.child[s][n]] = "black"
  <2>1. n \in TreeNodes /\ t.child[s][n] \in TreeNodes /\ t.child[s][n] # e /\ n # Nil
    BY <1>2, <1>3
  <2>2. t.color[n] = "red"
    BY <1>4, <1>8, <2>1
  <2>3. t.child[s][n] # z
    BY <1>3, <2>2
  <2>4. t.color[t.child[s][n]] = "black"
    BY <1>1, <2>1, <2>2, <2>3 DEF RedRule
  <2> QED
    BY <1>4, <2>1, <2>4
<1>9. RedRule(r, S, Nil, Nil)
  BY <1>8 DEF RedRule
<1>10. r.color[r.root] = "black"
  BY <1>2, <1>3, <1>4
<1>11. Balanced(r, S, U, G)
  BY <1>4, <1>7, <1>9, <1>10 DEF Balanced
<1> QED
  BY <1>5, <1>11 DEF r, e

-----------------------------------------------------------------------------
(* The fix-up of a deletion.                                               *)

(* x is black and not the root: its sibling w is there, as tall as x and   *)
(* the missing node.                                                       *)
LEMMA SiblingIs ==
  ASSUME NEW t, NEW S, NEW U, NEW H, NEW x, NEW a, a \in Sides,
         OneShort(t, S, U, H, x, a), t.root # x, t.color[x] = "black",
         NEW p, p = t.parent[x], NEW w, w = t.child[Other(a)][p]
  PROVE  /\ p \in S /\ p # x /\ w \in S /\ w # p /\ w # x /\ w # t.root
         /\ x \in S \cup {Nil} /\ t.child[a][p] = x /\ a = SideOf(t, p, x)
         /\ \A n \in S, s \in Sides :
              /\ t.child[s][n] = w => n = p /\ s = Other(a)
              /\ x # Nil /\ t.child[s][n] = x => n = p
         /\ H[w] = H[x] + 1 /\ H[p] = H[w] + Weight(t, p)
         /\ H[x] \in Nat
<1>1. /\ SearchTree(t, S, U) /\ Heights(t, S, H, p, a)
      /\ x \in S \cup {Nil} /\ p \in S /\ t.child[a][p] = x
  BY DEF OneShort
<1>2. Other(a) \in Sides /\ Other(a) # a
  BY SidesAre
<1>3. /\ S \subseteq TreeNodes /\ Nil \in TreeNodes /\ Nil \notin S
      /\ H[Nil] = 0 /\ H[p] \in Nat /\ H[x] \in Nat /\ H[w] \in Nat
      /\ H[p] = H[x] + 1 + Weight(t, p) /\ H[p] = H[w] + Weight(t, p)
      /\ w \in S \cup {Nil}
  <2>1. /\ S \subseteq TreeNodes /\ Nil \in TreeNodes /\ Nil \notin S
        /\ H[Nil] = 0 /\ \A n \in TreeNodes : H[n] \in Nat
    BY <1>1, HeightIs
  <2>2. /\ H[p] = H[x] + 1 + Weight(t, p) /\ H[p] = H[w] + Weight(t, p)
        /\ w \in S \cup {Nil}
    BY <1>1, <1>2, HeightIs
  <2> QED
    BY <1>1, <2>1, <2>2
<1>4. Weight(t, p) \in {0, 1}
  BY DEF Weight
<1>5. H[w] = H[x] + 1
  BY <1>3, <1>4
<1>6. w # Nil /\ w \in S
  BY <1>3, <1>5
<1>7. /\ w # p /\ w # t.root
      /\ \A n \in S, s \in Sides : t.child[s][n] = w => n = p /\ s = Other(a)
  BY <1>1, <1>2, <1>6, ChildIs
<1>8. /\ w # x /\ p # x
      /\ \A n \in S, s \in Sides : x # Nil /\ t.child[s][n] = x => n = p
  <2>1. w # x
    BY <1>1, <1>2, <1>7
  <2>2. x # Nil => /\ p # x
                   /\ \A n \in S, s \in Sides : t.child[s][n] = x => n = p
    BY <1>1, ChildIs
  <2>3. p # Nil
    BY <1>1, <1>3
  <2> QED
    BY <2>1, <2>2, <2>3
<1>9. a = SideOf(t, p, x)
  <2>1. t.child["left"][p] = x => a = "left"
    BY <1>1, <1>8, SidesAre
  <2>2. t.child["left"][p] # x => a = "right"
    BY <1>1, SidesAre
  <2> QED
    BY <2>1, <2>2 DEF SideOf
<1> QED
  BY <1>1, <1>3, <1>5, <1>6, <1>7, <1>8, <1>9

(* The sibling is black and has no red child: it is painted red, and the   *)
(* black node is missing above the parent.                                 *)
LEMMA MoveUpKeeps ==
  ASSUME NEW t, NEW S, NEW U, NEW H, NEW x, NEW a, a \in Sides,
         OneShort(t, S, U, H, x, a), BlackSibling(t, x, a)
  PROVE  LET p == t.parent[x]
             w == t.child[Other(a)][p]
             r == Paint(t, {w}, "red")
         IN  (\A s \in Sides : t.color[t.child[s][w]] = "black") =>
               \E G \in [TreeNodes -> Nat], b \in Sides : OneShort(r, S, U, G, p, b)
<1> DEFINE p == t.parent[x]
           w == t.child[Other(a)][p]
           r == Paint(t, {w}, "red")
           q == t.parent[p]
           b == SideOf(t, q, p)
           G == [n \in TreeNodes |-> IF n = p \/ n = w THEN H[n] - 1 ELSE H[n]]
<1> SUFFICES ASSUME \A s \in Sides : t.color[t.child[s][w]] = "black"
             PROVE  \E K \in [TreeNodes -> Nat], d \in Sides :
                      OneShort(r, S, U, K, p, d)
  OBVIOUS
<1>1. /\ SearchTree(t, S, U) /\ Heights(t, S, H, p, a) /\ RedRule(t, S, x, x)
      /\ t.root # x /\ t.color[x] = "black" /\ t.color[w] = "black"
      /\ t.color[t.root] = "black"
  BY DEF OneShort, BlackSibling
<1>2. /\ p \in S /\ p # x /\ w \in S /\ w # p /\ w # x /\ w # t.root
      /\ x \in S \cup {Nil} /\ t.child[a][p] = x /\ t.child[Other(a)][p] = w
      /\ \A n \in S, s \in Sides :
           /\ t.child[s][n] = w => n = p /\ s = Other(a)
           /\ x # Nil /\ t.child[s][n] = x => n = p
      /\ H[w] = H[x] + 1 /\ H[p] = H[w] + Weight(t, p)
      /\ H[x] \in Nat
  BY <1>1, SiblingIs
<1>3. /\ S \subseteq TreeNodes /\ Nil \in TreeNodes /\ Nil \notin S
      /\ H \in [TreeNodes -> Nat] /\ H[Nil] = 0
      /\ \A n \in TreeNodes : H[n] \in Nat
      /\ \A n \in S, s \in Sides :
           /\ t.child[s][n] \in S \cup {Nil} /\ t.child[s][n] \in TreeNodes
           /\ ~(n = p /\ s = a) => H[n] = H[t.child[s][n]] + Weight(t, n)
  BY <1>1, HeightIs
<1>4. /\ p # t.root => /\ q \in S /\ t.child[b][q] = p /\ b \in Sides
      /\ p = t.root => q = Nil
      /\ b \in Sides
      /\ \A n \in S, s \in Sides : t.child[s][n] = p => n = q /\ s = b /\ p # t.root
  <2>1. b \in Sides
    BY DEF SideOf, Sides
  <2>2. /\ p # t.root => q \in S /\ t.child[b][q] = p
        /\ p = t.root => q = Nil
    <3> HIDE DEF p, w, q, b, r, G
    <3>1. SearchTree(t, S, U) /\ p \in S
      BY <1>1, <1>2
    <3>2. p # t.root => /\ t.parent[p] \in S
                        /\ t.child[SideOf(t, t.parent[p], p)][t.parent[p]] = p
      BY <3>1, HangsBelow
    <3>3. p = t.root => t.parent[p] = Nil
      BY <3>1, HangsBelow
    <3> QED
      BY <3>2, <3>3 DEF q, b
  <2>3. ASSUME NEW n \in S, NEW s \in Sides, t.child[s][n] = p
        PROVE  n = q /\ s = b /\ p # t.root
    <3> HIDE DEF p, w, q, b, r, G
    <3>1. SearchTree(t, S, U) /\ p \in S /\ t.child[s][n] = p
      BY <1>1, <1>2, <2>3
    <3>2. n = t.parent[p] /\ s = SideOf(t, n, p) /\ p # t.root
      BY <3>1, HangsBelow
    <3> QED
      BY <3>2 DEF q, b
  <2> QED
    BY <2>1, <2>2, <2>3
<1>5. t.parent[p] = q
  OBVIOUS
<1> HIDE DEF p, w, q, b
<1>6. /\ SearchTree(r, S, U) /\ r.child = t.child /\ r.parent = t.parent
      /\ r.root = t.root
      /\ \A n \in TreeNodes : r.color[n] = IF n = w THEN "red" ELSE t.color[n]
  <2> DEFINE X == {w}
  <2>1. Paints(X, "red") /\ r = Paint(t, X, "red")
    BY <1>2, <1>3 DEF Paints
  <2> HIDE DEF X, r
  <2>2. /\ SearchTree(r, S, U) /\ r.child = t.child /\ r.root = t.root
        /\ r.parent = t.parent
        /\ \A n \in TreeNodes : r.color[n] = IF n \in X THEN "red" ELSE t.color[n]
    BY <1>1, <2>1, PaintIs
  <2> QED
    BY <2>2 DEF X
<1> HIDE DEF r
<1>7. /\ \A n \in TreeNodes : G[n] = IF n = p \/ n = w THEN H[n] - 1 ELSE H[n]
      /\ G \in [TreeNodes -> Nat] /\ G[Nil] = 0
  <2>1. Weight(t, p) \in {0, 1}
    BY DEF Weight
  <2>2. p \in TreeNodes /\ w \in TreeNodes /\ H[w] \in Nat /\ H[p] \in Nat
    BY <1>2, <1>3
  <2>3. H[w] - 1 \in Nat /\ H[p] - 1 \in Nat
    BY <1>2, <2>1, <2>2
  <2>4. G \in [TreeNodes -> Nat]
    BY <1>3, <2>3
  <2>5. Nil # p /\ Nil # w
    BY <1>2, <1>3
  <2> QED
    BY <1>3, <2>4, <2>5
<1> HIDE DEF G
<1>8. ASSUME NEW n \in S, NEW s \in Sides
      PROVE  /\ ~(n = q /\ s = b) => G[n] = G[r.child[s][n]] + Weight(r, n)
             /\ n = q /\ s = b => G[n] = G[r.child[s][n]] + 1 + Weight(r, n)
  <2> DEFINE c == t.child[s][n]
  <2>1. n \in TreeNodes /\ c \in TreeNodes /\ (s = a \/ s = Other(a))
        /\ H[n] \in Nat /\ H[c] \in Nat /\ r.child[s][n] = c
    BY <1>3, <1>6, OtherSide
  <2>2. CASE n = p
    <3>1. c = IF s = a THEN x ELSE w
      BY <1>2, <2>1, <2>2
    <3>2. Weight(t, p) = Weight(r, p) /\ Weight(t, p) \in {0, 1}
      BY <1>2, <1>6, <2>1, <2>2 DEF Weight
    <3>3. ~(n = q /\ s = b)
      <4>1. q # p
        <5>1. p # t.root => t.child[b][q] # q
          BY <1>1, <1>4, NodeIs
        <5> QED
          BY <1>2, <1>3, <1>4, <5>1
      <4> QED
        BY <2>2, <4>1
    <3>4. G[p] = H[p] - 1 /\ G[c] = H[x]
      <4>1. G[x] = H[x] /\ G[w] = H[w] - 1
        BY <1>2, <1>3, <1>7
      <4> QED
        BY <1>2, <1>7, <2>1, <2>2, <3>1, <4>1
    <3>5. H[p] = H[x] + 1 + Weight(r, p)
      BY <1>2, <3>2
    <3> HIDE DEF c
    <3> QED
      BY <1>2, <2>1, <2>2, <3>2, <3>3, <3>4, <3>5
  <2>3. CASE n = w
    <3>1. Weight(t, n) = 1 /\ Weight(r, n) = 0
      BY <1>1, <1>6, <2>1, <2>3 DEF Weight
    <3>2. c # p /\ c # w
      <4>1. c # w
        BY <1>2, <2>3
      <4>2. c # p
        <5>1. p # t.root => U[p] \subseteq U[q] \ {q}
          BY <1>1, <1>4, NodeIs
        <5>2. w \in U[p]
          <6>1. w # Nil
            BY <1>2, <1>3
          <6> QED
            BY <1>1, <1>2, <6>1, NodeIs, SidesAre
        <5> QED
          BY <1>4, <2>3, <5>1, <5>2
      <4> QED
        BY <4>1, <4>2
    <3>3. G[n] = H[n] - 1 /\ G[c] = H[c] /\ H[n] = H[c] + Weight(t, n)
      BY <1>2, <1>3, <1>7, <2>1, <2>3, <3>2
    <3>4. ~(n = q /\ s = b)
      BY <1>4, <1>2, <1>3, <2>3, <3>2
    <3> HIDE DEF c
    <3> QED
      BY <2>1, <3>1, <3>3, <3>4
  <2>4. CASE n # p /\ n # w
    <3>1. Weight(t, n) = Weight(r, n) /\ Weight(t, n) \in {0, 1} /\ G[n] = H[n]
      BY <1>6, <1>7, <2>1, <2>4 DEF Weight
    <3>2. H[n] = H[c] + Weight(t, n) /\ c # w
      BY <1>2, <1>3, <2>4
    <3>3. CASE c = p
      <4>1. n = q /\ s = b
        BY <1>4, <3>3
      <4>2. G[c] = H[c] - 1
        BY <1>7, <2>1, <3>3
      <4> HIDE DEF c
      <4> QED
        BY <2>1, <3>1, <3>2, <4>1, <4>2
    <3>4. CASE c # p
      <4>1. ~(n = q /\ s = b)
        BY <1>2, <1>3, <1>4, <3>4
      <4>2. G[c] = H[c]
        BY <1>7, <2>1, <3>2, <3>4
      <4> HIDE DEF c
      <4> QED
        BY <2>1, <3>1, <3>2, <4>1, <4>2
    <3> QED
      BY <3>3, <3>4
  <2> QED
    BY <2>2, <2>3, <2>4
<1>9. Heights(r, S, G, q, b)
  BY <1>3, <1>6, <1>7, <1>8, HeightsFrom
<1>10. ASSUME NEW n \in S, NEW s \in Sides, r.color[n] = "red", n # p
       PROVE  r.color[r.child[s][n]] = "black"
  <2>1. n \in TreeNodes /\ t.child[s][n] \in TreeNodes /\ t.child[s][n] # w
    BY <1>2, <1>3, <1>10
  <2>2. r.color[r.child[s][n]] = t.color[t.child[s][n]]
    BY <1>6, <2>1
  <2>3. CASE n = w
    BY <2>2, <2>3
  <2>4. CASE n # w
    <3>1. t.color[n] = "red" /\ n # x
      BY <1>1, <1>6, <1>10, <2>1, <2>4
    <3>2. t.color[t.child[s][n]] = "black"
      BY <1>1, <3>1 DEF RedRule
    <3> QED
      BY <2>2, <3>2
  <2> QED
    BY <2>3, <2>4
<1>11. RedRule(r, S, p, p)
  BY <1>10 DEF RedRule
<1>12. r.color[r.root] = "black"
  <2>1. t.root \in TreeNodes
    BY <1>1, <1>3 DEF SearchTree
  <2> QED
    BY <1>1, <1>2, <1>6, <2>1
<1>13. OneShort(r, S, U, G, p, b)
  BY <1>2, <1>4, <1>5, <1>6, <1>9, <1>11, <1>12 DEF OneShort
<1> QED
  BY <1>4, <1>7, <1>13

NephewOf(t, S, H, p, w, s, c) ==
  /\ c \in S \cup {Nil} /\ c # p /\ c # w
  /\ H[w] = H[c] + Weight(t, w)
  /\ c # Nil => /\ c # t.root
                /\ \A n \in S, r \in Sides :
                     t.child[r][n] = c => n = w /\ r = s

LEMMA NephewIs ==
  ASSUME NEW t, NEW S, NEW U, NEW H, NEW p, NEW w, NEW a, NEW b, NEW s,
         SearchTree(t, S, U), Heights(t, S, H, p, a),
         p \in S, w \in S, w # p, b \in Sides, s \in Sides,
         t.child[b][p] = w
  PROVE  NephewOf(t, S, H, p, w, s, t.child[s][w])
<1> DEFINE c == t.child[s][w]
<1>1. c \in S \cup {Nil} /\ c # w
  BY NodeIs
<1>2. H[w] = H[c] + Weight(t, w)
  BY HeightIs
<1>3. c # Nil => /\ c # t.root
                 /\ \A n \in S, r \in Sides :
                      t.child[r][n] = c => n = w /\ r = s
  BY ChildIs
<1>4. c # p
  <2>1. p # Nil /\ w # Nil
    BY NodeIs
  <2>2. U[w] \subseteq U[p] \ {p}
    BY <2>1, NodeIs
  <2>3. U[c] \subseteq U[w]
    BY NodeIs
  <2>4. c # Nil => c \in U[c]
    <3>1. c # Nil => c \in S
      BY <1>1
    <3> HIDE DEF c
    <3> QED
      BY <3>1 DEF SearchTree
  <2> QED
    BY <2>1, <2>2, <2>3, <2>4
<1> QED
  BY <1>1, <1>2, <1>3, <1>4 DEF NephewOf

(* What a lemma about the fix-up starts from.                              *)
Short(t, S, U, H, x, a, p, w, near, far) ==
  /\ SearchTree(t, S, U) /\ RedRule(t, S, x, x)
  /\ p \in S /\ w \in S /\ x \in S \cup {Nil}
  /\ near \in S \cup {Nil} /\ far \in S \cup {Nil}
  /\ p # x /\ w # p /\ w # x /\ near # p /\ near # w /\ far # p /\ far # w
  /\ w # t.root
  /\ near # Nil => near # x /\ near # far /\ near # t.root
  /\ far # Nil => far # x /\ far # t.root
  /\ t.child[a][p] = x /\ t.child[Other(a)][p] = w
  /\ t.child[a][w] = near /\ t.child[Other(a)][w] = far
  /\ \A n \in S, s \in Sides :
       /\ t.child[s][n] = w => n = p /\ s = Other(a)
       /\ x # Nil /\ t.child[s][n] = x => n = p
       /\ near # Nil /\ t.child[s][n] = near => n = w /\ s = a
       /\ far # Nil /\ t.child[s][n] = far => n = w /\ s = Other(a)
  /\ S \subseteq TreeNodes /\ Nil \in TreeNodes /\ Nil \notin S
  /\ t.parent[x] = p /\ t.color[t.root] = "black" /\ t.color[Nil] = "black"
  /\ t.root \in S /\ t.color \in [TreeNodes -> {"red", "black"}]
  /\ Other(a) \in Sides /\ Other(a) # a /\ Other(Other(a)) = a
  /\ \A s \in Sides : s = a \/ s = Other(a)
  /\ H \in [TreeNodes -> Nat] /\ H[Nil] = 0
  /\ H[p] = H[x] + 1 + Weight(t, p) /\ H[p] = H[w] + Weight(t, p)
  /\ H[w] = H[x] + 1
  /\ H[w] = H[near] + Weight(t, w) /\ H[w] = H[far] + Weight(t, w)
  /\ \A n \in S, s \in Sides :
       /\ t.child[s][n] \in S \cup {Nil} /\ t.child[s][n] \in TreeNodes
       /\ ~(n = p /\ s = a) => H[n] = H[t.child[s][n]] + Weight(t, n)

LEMMA ShortIs ==
  ASSUME NEW t, NEW S, NEW U, NEW H, NEW x, NEW a, a \in Sides,
         OneShort(t, S, U, H, x, a), t.root # x, t.color[x] = "black"
  PROVE  LET p == t.parent[x]
             w == t.child[Other(a)][p]
         IN  /\ Short(t, S, U, H, x, a, p, w,
                      t.child[a][w], t.child[Other(a)][w])
             /\ SideOf(t, p, x) = a
<1> DEFINE p == t.parent[x]
           w == t.child[Other(a)][p]
           near == t.child[a][w]
           far == t.child[Other(a)][w]
<1>1. /\ SearchTree(t, S, U) /\ RedRule(t, S, x, x) /\ Heights(t, S, H, p, a)
      /\ t.color[t.root] = "black"
  BY DEF OneShort
<1>2. /\ p \in S /\ p # x /\ w \in S /\ w # p /\ w # x /\ w # t.root
      /\ x \in S \cup {Nil} /\ t.child[a][p] = x /\ a = SideOf(t, p, x)
      /\ \A n \in S, s \in Sides :
           /\ t.child[s][n] = w => n = p /\ s = Other(a)
           /\ x # Nil /\ t.child[s][n] = x => n = p
      /\ H[w] = H[x] + 1 /\ H[p] = H[w] + Weight(t, p)
  BY SiblingIs
<1>3. /\ Other(a) \in Sides /\ Other(a) # a /\ Other(Other(a)) = a
      /\ \A s \in Sides : s = a \/ s = Other(a)
  BY SidesAre, OtherSide
<1>4. /\ near \in S \cup {Nil} /\ near # p /\ near # w
      /\ H[w] = H[near] + Weight(t, w)
      /\ near # Nil => /\ near # x /\ near # t.root
                       /\ \A n \in S, s \in Sides :
                            t.child[s][n] = near => n = w /\ s = a
  <2> HIDE DEF p, w
  <2>1. t.child[Other(a)][p] = w
    BY DEF w
  <2>3. /\ SearchTree(t, S, U) /\ Heights(t, S, H, p, a) /\ p \in S /\ w \in S
        /\ w # p /\ Other(a) \in Sides
    BY <1>1, <1>2, <1>3
  <2>2. NephewOf(t, S, H, p, w, a, near)
    BY <1>3, <2>1, <2>3, NephewIs
  <2> HIDE DEF near
  <2> QED
    BY <1>2, <2>2 DEF NephewOf
<1>5. /\ far \in S \cup {Nil} /\ far # p /\ far # w
      /\ H[w] = H[far] + Weight(t, w)
      /\ far # Nil => /\ far # x /\ far # t.root
                      /\ \A n \in S, s \in Sides :
                           t.child[s][n] = far => n = w /\ s = Other(a)
  <2> HIDE DEF p, w
  <2>1. t.child[Other(a)][p] = w
    BY DEF w
  <2>3. /\ SearchTree(t, S, U) /\ Heights(t, S, H, p, a) /\ p \in S /\ w \in S
        /\ w # p /\ Other(a) \in Sides
    BY <1>1, <1>2, <1>3
  <2>2. NephewOf(t, S, H, p, w, Other(a), far)
    BY <1>3, <2>1, <2>3, NephewIs
  <2> HIDE DEF far
  <2> QED
    BY <1>2, <2>2 DEF NephewOf
<1>6. /\ S \subseteq TreeNodes /\ Nil \in TreeNodes /\ Nil \notin S
      /\ H \in [TreeNodes -> Nat] /\ H[Nil] = 0
      /\ \A n \in S, s \in Sides :
           /\ t.child[s][n] \in S \cup {Nil} /\ t.child[s][n] \in TreeNodes
           /\ ~(n = p /\ s = a) => H[n] = H[t.child[s][n]] + Weight(t, n)
      /\ H[p] = H[x] + 1 + Weight(t, p)
  <2>1. /\ S \subseteq TreeNodes /\ Nil \in TreeNodes /\ Nil \notin S
        /\ H \in [TreeNodes -> Nat] /\ H[Nil] = 0
        /\ \A n \in S, s \in Sides :
             /\ t.child[s][n] \in S \cup {Nil} /\ t.child[s][n] \in TreeNodes
             /\ ~(n = p /\ s = a) => H[n] = H[t.child[s][n]] + Weight(t, n)
    BY <1>1, HeightIs
  <2>2. H[p] = H[t.child[a][p]] + 1 + Weight(t, p)
    BY <1>1, <1>2, HeightIs
  <2> QED
    BY <1>2, <2>1, <2>2
<1>7. /\ t.parent[x] = p /\ t.child[Other(a)][p] = w
      /\ t.child[a][w] = near /\ t.child[Other(a)][w] = far
  OBVIOUS
<1>8. near # Nil => near # far
  BY <1>2, <1>3, <1>4, <1>7
<1>9. /\ t.color[Nil] = "black" /\ t.root \in S
      /\ t.color \in [TreeNodes -> {"red", "black"}]
  <2>1. t.root \in S
    BY <1>1, <1>2, HangsBelow
  <2> QED
    BY <1>1, <2>1 DEF SearchTree, Trees
<1> HIDE DEF p, w, near, far
<1>10. Short(t, S, U, H, x, a, p, w, near, far)
  BY <1>1, <1>2, <1>3, <1>4, <1>5, <1>6, <1>7, <1>8, <1>9 DEF Short
<1> QED
  BY <1>2, <1>10 DEF p, w, near, far

(* The sibling is red: a rotation puts it above, and x gets a black one.   *)
LEMMA RedSiblingKeeps ==
  ASSUME NEW t, NEW S, NEW U, NEW H, NEW x, NEW a, a \in Sides,
         OneShort(t, S, U, H, x, a), t.root # x, t.color[x] = "black"
  PROVE  LET p == t.parent[x]
             w == t.child[Other(a)][p]
             v == Paint(Paint(t, {w}, "black"), {p}, "red")
             r == Rotate(v, p, a)
         IN  t.color[w] = "red" =>
               \E G \in [TreeNodes -> Nat] :
                 /\ OneShort(r, S, Turned(v, U, p, a), G, x, a)
                 /\ BlackSibling(r, x, a)
<1> DEFINE p == t.parent[x]
           b == Other(a)
           w == t.child[b][p]
           near == t.child[a][w]
           far == t.child[b][w]
           v == Paint(Paint(t, {w}, "black"), {p}, "red")
           r == Rotate(v, p, a)
           V == Turned(v, U, p, a)
           G == [n \in TreeNodes |-> IF n = p THEN H[w]
                                     ELSE IF n = w THEN H[p] ELSE H[n]]
<1> SUFFICES ASSUME t.color[w] = "red"
             PROVE  \E K \in [TreeNodes -> Nat] :
                      OneShort(r, S, V, K, x, a) /\ BlackSibling(r, x, a)
  OBVIOUS
<1>1. Short(t, S, U, H, x, a, p, w, near, far)
  BY ShortIs
<1> HIDE DEF p, w, near, far
<1>2. /\ SearchTree(t, S, U) /\ p \in S /\ w \in S /\ x \in S \cup {Nil}
      /\ near \in S \cup {Nil} /\ far \in S \cup {Nil}
      /\ p # x /\ w # p /\ w # x /\ near # p /\ near # w /\ far # p /\ far # w
      /\ w # t.root /\ (near # Nil => near # x)
      /\ t.child[a][p] = x /\ t.child[b][p] = w
      /\ t.child[a][w] = near /\ t.child[b][w] = far
      /\ \A n \in S, s \in Sides :
           /\ t.child[s][n] = w => n = p
           /\ x # Nil /\ t.child[s][n] = x => n = p
      /\ S \subseteq TreeNodes /\ Nil \in TreeNodes /\ Nil \notin S
      /\ t.parent[x] = p /\ t.color[t.root] = "black" /\ t.root \in S
      /\ t.color \in [TreeNodes -> {"red", "black"}]
      /\ b \in Sides /\ b # a /\ Other(b) = a
      /\ \A s \in Sides : s = a \/ s = b
  BY <1>1 DEF Short
<1>3. /\ \A n \in S, s \in Sides :
           t.color[n] = "red" /\ n # x /\ t.child[s][n] # x =>
             t.color[t.child[s][n]] = "black"
  BY <1>1 DEF Short, RedRule
<1>4. /\ near # Nil /\ t.color[near] = "black" /\ t.color[p] = "black"
      /\ H[near] = H[w] /\ H[far] = H[w] /\ H[w] = H[x] + 1 /\ H[p] = H[w] + 1
      /\ H \in [TreeNodes -> Nat] /\ H[Nil] = 0
      /\ \A n \in S, s \in Sides :
           /\ t.child[s][n] \in S \cup {Nil} /\ t.child[s][n] \in TreeNodes
           /\ ~(n = p /\ s = a) => H[n] = H[t.child[s][n]] + Weight(t, n)
  <2>1. /\ H[w] = H[near] + Weight(t, w) /\ H[w] = H[far] + Weight(t, w)
        /\ H[w] = H[x] + 1 /\ H[p] = H[w] + Weight(t, p)
        /\ H \in [TreeNodes -> Nat] /\ H[Nil] = 0
        /\ \A n \in S, s \in Sides :
             /\ t.child[s][n] \in S \cup {Nil} /\ t.child[s][n] \in TreeNodes
             /\ ~(n = p /\ s = a) => H[n] = H[t.child[s][n]] + Weight(t, n)
    BY <1>1 DEF Short
  <2>2. t.color[p] = "black"
    <3>1. t.color[p] = "red" => t.color[w] = "black"
      BY <1>2, <1>3
    <3> QED
      BY <1>2, <3>1
  <2>3. Weight(t, w) = 0 /\ Weight(t, p) = 1
    BY <2>2 DEF Weight
  <2>4. H[near] \in Nat /\ H[far] \in Nat /\ H[x] \in Nat /\ H[w] \in Nat
    BY <1>2, <2>1
  <2>5. near # Nil
    BY <2>1, <2>3, <2>4
  <2>6. t.color[near] = "black"
    BY <1>2, <1>3, <2>5
  <2> QED
    BY <2>1, <2>2, <2>3, <2>4, <2>5, <2>6
<1>5. /\ SearchTree(v, S, U) /\ v.child = t.child /\ v.root = t.root
      /\ v.parent = t.parent
      /\ \A n \in TreeNodes :
           v.color[n] = IF n = p THEN "red"
                        ELSE IF n = w THEN "black" ELSE t.color[n]
  <2> DEFINE X == {w}
             Y == {p}
  <2>1. SearchTree(t, S, U) /\ Paints(X, "black") /\ Paints(Y, "red")
    BY <1>2 DEF Paints
  <2>2. v = Paint(Paint(t, X, "black"), Y, "red")
    OBVIOUS
  <2> HIDE DEF X, Y, v
  <2>3. /\ SearchTree(v, S, U) /\ v.child = t.child /\ v.root = t.root
        /\ v.parent = t.parent
        /\ \A n \in TreeNodes :
             v.color[n] = IF n \in Y THEN "red" ELSE IF n \in X THEN "black"
                          ELSE t.color[n]
    BY <2>1, <2>2, RepaintIs
  <2> QED
    BY <2>3 DEF X, Y
<1> HIDE DEF v
<1>6. SearchTree(r, S, V) /\ Rotated(v, S, r, p, a, w)
  <2>1. v.child[Other(a)][p] = w /\ v.child[Other(a)][p] # Nil
    BY <1>2, <1>5
  <2>2. SearchTree(r, S, V)
    BY <1>2, <1>5, <2>1, RotateKeepsTree
  <2>3. Rotated(v, S, r, p, a, v.child[Other(a)][p])
    BY <1>2, <1>5, <2>1, RotatedIs
  <2> QED
    BY <2>1, <2>2, <2>3
<1>7. Other(a) = b
  OBVIOUS
<1> HIDE DEF b, r, V
<1>8. /\ r.root = IF t.root = p THEN w ELSE t.root
      /\ \A s \in Sides, n \in S :
           r.child[s][n] =
             IF n = w /\ s = a THEN p
             ELSE IF n = p /\ s = b THEN near
             ELSE IF t.child[s][n] = p THEN w ELSE t.child[s][n]
      /\ \A s \in Sides : r.child[s][Nil] = Nil
      /\ \A n \in S :
           r.parent[n] = IF n = p THEN w
                         ELSE IF n = w THEN t.parent[p]
                         ELSE IF n = near THEN p ELSE t.parent[n]
      /\ \A n \in TreeNodes :
           r.color[n] = IF n = p THEN "red"
                        ELSE IF n = w THEN "black" ELSE t.color[n]
  BY <1>2, <1>5, <1>6, <1>7 DEF Rotated
<1>9. /\ \A n \in TreeNodes : G[n] = IF n = p THEN H[w]
                                      ELSE IF n = w THEN H[p] ELSE H[n]
      /\ G \in [TreeNodes -> Nat] /\ G[Nil] = 0
  <2>1. G \in [TreeNodes -> Nat]
    BY <1>2, <1>4
  <2>2. Nil # p /\ Nil # w
    BY <1>2
  <2> QED
    BY <1>2, <1>4, <2>1, <2>2
<1> HIDE DEF G
<1>10. /\ r.parent[x] = p /\ r.child[a][p] = x /\ r.child[b][p] = near
       /\ r.child[a][w] = p /\ r.child[b][w] = far
  <2>1. r.parent[x] = p
    <3>1. CASE x = Nil
      BY <1>2, <1>5, <1>6, <3>1 DEF Rotated
    <3>2. CASE x # Nil
      <4>1. x \in S /\ x # p /\ x # w /\ x # near
        BY <1>2, <1>4, <3>2
      <4> QED
        BY <1>2, <1>8, <4>1
    <3> QED
      BY <3>1, <3>2
  <2>2. r.child[a][p] = x /\ r.child[b][p] = near
    BY <1>2, <1>8
  <2>3. r.child[a][w] = p /\ r.child[b][w] = far
    BY <1>2, <1>8
  <2> QED
    BY <2>1, <2>2, <2>3
<1>11. ASSUME NEW n \in S, NEW s \in Sides
       PROVE  /\ ~(n = p /\ s = a) => G[n] = G[r.child[s][n]] + Weight(r, n)
              /\ n = p /\ s = a => G[n] = G[r.child[s][n]] + 1 + Weight(r, n)
  <2>1. /\ n \in TreeNodes /\ t.child[s][n] \in TreeNodes /\ (s = a \/ s = b)
        /\ w \in TreeNodes /\ x \in TreeNodes /\ near \in TreeNodes
        /\ far \in TreeNodes /\ p \in TreeNodes
    BY <1>2, <1>4
  <2>2. /\ G[p] = H[w] /\ G[w] = H[w] + 1 /\ G[x] = H[x] /\ G[near] = H[w]
        /\ G[far] = H[w] /\ H[w] \in Nat /\ H[x] \in Nat /\ H[w] = H[x] + 1
    BY <1>2, <1>4, <1>9, <2>1
  <2>3. CASE n = p
    <3>1. Weight(r, n) = 0
      BY <1>8, <2>1, <2>3 DEF Weight
    <3>2. CASE s = a
      BY <1>10, <2>2, <2>3, <3>1, <3>2
    <3>3. CASE s = b
      BY <1>2, <1>10, <2>2, <2>3, <3>1, <3>3
    <3> QED
      BY <2>1, <3>2, <3>3
  <2>4. CASE n = w
    <3>1. Weight(r, n) = 1
      BY <1>2, <1>8, <2>1, <2>4 DEF Weight
    <3>2. r.child[s][n] = p \/ r.child[s][n] = far
      BY <1>10, <2>1, <2>4
    <3> QED
      BY <1>2, <2>2, <2>4, <3>1, <3>2
  <2>5. CASE n # p /\ n # w
    <3>1. Weight(r, n) = Weight(t, n) /\ G[n] = H[n]
      BY <1>8, <1>9, <2>1, <2>5 DEF Weight
    <3>2. t.child[s][n] # w
      BY <1>2, <2>5
    <3>3. G[r.child[s][n]] = H[t.child[s][n]]
      <4>1. CASE t.child[s][n] = p
        BY <1>4, <1>8, <2>2, <2>5, <4>1
      <4>2. CASE t.child[s][n] # p
        <5>1. r.child[s][n] = t.child[s][n]
          BY <1>8, <2>5, <4>2
        <5> QED
          BY <1>9, <2>1, <3>2, <4>2, <5>1
      <4> QED
        BY <4>1, <4>2
    <3> QED
      BY <1>4, <2>5, <3>1, <3>3
  <2> QED
    BY <2>3, <2>4, <2>5
<1>12. Heights(r, S, G, p, a)
  BY <1>4, <1>6, <1>9, <1>11, HeightsFrom
<1>13. ASSUME NEW n \in S, NEW s \in Sides, r.color[n] = "red", n # x,
              r.child[s][n] # x
       PROVE  r.color[r.child[s][n]] = "black"
  <2>1. /\ n \in TreeNodes /\ t.child[s][n] \in TreeNodes /\ (s = a \/ s = b)
        /\ w \in TreeNodes /\ near \in TreeNodes /\ r.color[w] = "black"
    BY <1>2, <1>4, <1>8
  <2>2. n # w
    BY <1>13, <2>1
  <2>3. CASE n = p
    <3>1. r.child[s][n] = near
      BY <1>10, <1>13, <2>1, <2>3
    <3> QED
      BY <1>2, <1>4, <1>8, <2>1, <3>1
  <2>4. CASE n # p
    <3>1. t.color[n] = "red" /\ t.child[s][n] # w
      BY <1>2, <1>8, <1>13, <2>1, <2>2, <2>4
    <3>2. CASE t.child[s][n] = p
      BY <1>8, <2>1, <2>2, <2>4, <3>2
    <3>3. CASE t.child[s][n] # p
      <4>1. r.child[s][n] = t.child[s][n]
        BY <1>8, <2>2, <2>4, <3>3
      <4>2. t.color[t.child[s][n]] = "black"
        BY <1>3, <1>13, <3>1, <4>1
      <4>3. r.color[t.child[s][n]] = "black"
        BY <1>8, <2>1, <3>1, <3>3, <4>2
      <4> QED
        BY <4>1, <4>3
    <3> QED
      BY <3>2, <3>3
  <2> QED
    BY <2>3, <2>4
<1>14. RedRule(r, S, x, x)
  BY <1>13 DEF RedRule
<1>15. r.root # x /\ r.color[r.root] = "black"
  BY <1>2, <1>8
<1>16. OneShort(r, S, V, G, x, a)
  BY <1>2, <1>6, <1>10, <1>12, <1>14, <1>15 DEF OneShort
<1>17. BlackSibling(r, x, a)
  <2>1. x \in TreeNodes /\ near \in TreeNodes
    BY <1>2, <1>4
  <2>2. r.color[x] = "black" /\ r.color[near] = "black"
    BY <1>2, <1>4, <1>8, <2>1
  <2> QED
    BY <1>7, <1>10, <1>15, <2>2 DEF BlackSibling
<1> QED
  BY <1>9, <1>16, <1>17

(* Only the near nephew is red: a rotation makes it the sibling, and the   *)
(* far nephew is red then.                                                 *)
LEMMA TurnSiblingKeeps ==
  ASSUME NEW t, NEW S, NEW U, NEW H, NEW x, NEW a, a \in Sides,
         OneShort(t, S, U, H, x, a), BlackSibling(t, x, a)
  PROVE  LET w == t.child[Other(a)][t.parent[x]]
             near == t.child[a][w]
             v == Paint(Paint(t, {near}, "black"), {w}, "red")
             r == Rotate(v, w, Other(a))
         IN  t.color[near] # "black" /\ t.color[t.child[Other(a)][w]] = "black" =>
               \E G \in [TreeNodes -> Nat] :
                 /\ OneShort(r, S, Turned(v, U, w, Other(a)), G, x, a)
                 /\ BlackSibling(r, x, a) /\ RedNephew(r, x, a)
<1> DEFINE p == t.parent[x]
           b == Other(a)
           w == t.child[b][p]
           near == t.child[a][w]
           far == t.child[b][w]
           v == Paint(Paint(t, {near}, "black"), {w}, "red")
           r == Rotate(v, w, b)
           V == Turned(v, U, w, b)
           G == [n \in TreeNodes |-> IF n = w THEN H[near]
                                     ELSE IF n = near THEN H[w] ELSE H[n]]
<1> SUFFICES ASSUME t.color[near] # "black", t.color[far] = "black"
             PROVE  \E K \in [TreeNodes -> Nat] :
                      /\ OneShort(r, S, V, K, x, a)
                      /\ BlackSibling(r, x, a) /\ RedNephew(r, x, a)
  OBVIOUS
<1>1. /\ Short(t, S, U, H, x, a, p, w, near, far)
      /\ t.color[x] = "black" /\ t.color[w] = "black" /\ t.root # x
  BY ShortIs DEF BlackSibling
<1> HIDE DEF p, w, near, far
<1>2. /\ SearchTree(t, S, U) /\ p \in S /\ w \in S /\ x \in S \cup {Nil}
      /\ near \in S /\ far \in S \cup {Nil}
      /\ p # x /\ w # p /\ w # x /\ near # p /\ near # w /\ far # p /\ far # w
      /\ w # t.root /\ near # x /\ near # far /\ near # t.root
      /\ t.child[a][p] = x /\ t.child[b][p] = w
      /\ t.child[a][w] = near /\ t.child[b][w] = far
      /\ \A n \in S, s \in Sides :
           /\ t.child[s][n] = w => n = p
           /\ t.child[s][n] = near => n = w
           /\ x # Nil /\ t.child[s][n] = x => n = p
      /\ S \subseteq TreeNodes /\ Nil \in TreeNodes /\ Nil \notin S
      /\ t.parent[x] = p /\ t.color[t.root] = "black" /\ t.root \in S
      /\ t.color \in [TreeNodes -> {"red", "black"}]
      /\ b \in Sides /\ b # a /\ Other(b) = a
      /\ \A s \in Sides : s = a \/ s = b
  <2>1. t.color[Nil] = "black"
    BY <1>1 DEF Short
  <2>2. near # Nil
    BY <2>1
  <2> QED
    BY <1>1, <2>2 DEF Short
<1>3. /\ t.color[near] = "red"
      /\ \A n \in S, s \in Sides :
           t.color[n] = "red" /\ n # x => t.color[t.child[s][n]] = "black"
  <2>1. /\ \A n \in S, s \in Sides :
             t.color[n] = "red" /\ n # x /\ t.child[s][n] # x =>
               t.color[t.child[s][n]] = "black"
    BY <1>1 DEF Short, RedRule
  <2>2. t.color[near] = "red"
    BY <1>2
  <2> QED
    BY <1>1, <2>1, <2>2
<1>4. /\ H[far] = H[near] /\ H[w] = H[near] + 1
      /\ H \in [TreeNodes -> Nat] /\ H[Nil] = 0
      /\ H[p] = H[x] + 1 + Weight(t, p)
      /\ \A n \in S, s \in Sides :
           /\ t.child[s][n] \in S \cup {Nil} /\ t.child[s][n] \in TreeNodes
           /\ ~(n = p /\ s = a) => H[n] = H[t.child[s][n]] + Weight(t, n)
  <2>1. /\ H[w] = H[near] + Weight(t, w) /\ H[w] = H[far] + Weight(t, w)
        /\ H[p] = H[x] + 1 + Weight(t, p)
        /\ H \in [TreeNodes -> Nat] /\ H[Nil] = 0
        /\ \A n \in S, s \in Sides :
             /\ t.child[s][n] \in S \cup {Nil} /\ t.child[s][n] \in TreeNodes
             /\ ~(n = p /\ s = a) => H[n] = H[t.child[s][n]] + Weight(t, n)
    BY <1>1 DEF Short
  <2>2. Weight(t, w) = 1
    BY <1>1 DEF Weight
  <2>3. H[near] \in Nat /\ H[far] \in Nat
    BY <1>2, <2>1
  <2> QED
    BY <2>1, <2>2, <2>3
<1>5. /\ SearchTree(v, S, U) /\ v.child = t.child /\ v.root = t.root
      /\ v.parent = t.parent
      /\ \A n \in TreeNodes :
           v.color[n] = IF n = w THEN "red"
                        ELSE IF n = near THEN "black" ELSE t.color[n]
  <2> DEFINE X == {near}
             Y == {w}
  <2>1. SearchTree(t, S, U) /\ Paints(X, "black") /\ Paints(Y, "red")
    BY <1>2 DEF Paints
  <2>2. v = Paint(Paint(t, X, "black"), Y, "red")
    OBVIOUS
  <2> HIDE DEF X, Y, v
  <2>3. /\ SearchTree(v, S, U) /\ v.child = t.child /\ v.root = t.root
        /\ v.parent = t.parent
        /\ \A n \in TreeNodes :
             v.color[n] = IF n \in Y THEN "red" ELSE IF n \in X THEN "black"
                          ELSE t.color[n]
    BY <2>1, <2>2, RepaintIs
  <2> QED
    BY <2>3 DEF X, Y
<1>6. Other(a) = b
  OBVIOUS
<1> HIDE DEF b, v
<1>7. SearchTree(r, S, V) /\ Rotated(v, S, r, w, b, near)
  <2>1. v.child[Other(b)][w] = near /\ v.child[Other(b)][w] # Nil
    BY <1>2, <1>5
  <2>2. SearchTree(r, S, V)
    BY <1>2, <1>5, <2>1, RotateKeepsTree
  <2>3. Rotated(v, S, r, w, b, v.child[Other(b)][w])
    BY <1>2, <1>5, <2>1, RotatedIs
  <2> QED
    BY <2>1, <2>2, <2>3
<1> HIDE DEF r, V
<1>8. PICK k : k = t.child[b][near]
  OBVIOUS
<1>9. /\ r.root = t.root
      /\ k \in S \cup {Nil} /\ k # w /\ k # near /\ (x # Nil => k # x)
      /\ \A s \in Sides, n \in S :
           r.child[s][n] =
             IF n = near /\ s = b THEN w
             ELSE IF n = w /\ s = a THEN k
             ELSE IF t.child[s][n] = w THEN near ELSE t.child[s][n]
      /\ \A n \in S :
           r.parent[n] = IF n = w THEN near
                         ELSE IF n = near THEN t.parent[w]
                         ELSE IF n = k THEN w ELSE t.parent[n]
      /\ r.parent[Nil] = t.parent[Nil]
      /\ \A n \in TreeNodes :
           r.color[n] = IF n = w THEN "red"
                        ELSE IF n = near THEN "black" ELSE t.color[n]
  BY <1>2, <1>5, <1>7, <1>8 DEF Rotated
<1>10. /\ \A n \in TreeNodes : G[n] = IF n = w THEN H[near]
                                       ELSE IF n = near THEN H[w] ELSE H[n]
       /\ G \in [TreeNodes -> Nat] /\ G[Nil] = 0
  <2>1. G \in [TreeNodes -> Nat]
    BY <1>2, <1>4
  <2>2. Nil # near /\ Nil # w
    BY <1>2
  <2> QED
    BY <1>2, <1>4, <2>1, <2>2
<1> HIDE DEF G
<1>11. /\ r.parent[x] = p /\ r.child[a][p] = x /\ r.child[b][p] = near
       /\ r.child[a][w] = k /\ r.child[b][w] = far
       /\ r.child[b][near] = w /\ r.child[a][near] = t.child[a][near]
  <2>1. r.parent[x] = p
    <3>1. CASE x = Nil
      BY <1>2, <1>9, <3>1
    <3>2. CASE x # Nil
      BY <1>2, <1>9, <3>2
    <3> QED
      BY <3>1, <3>2
  <2>2. r.child[a][p] = x /\ r.child[b][p] = near
    BY <1>2, <1>9
  <2>3. r.child[a][w] = k /\ r.child[b][w] = far
    BY <1>2, <1>9
  <2>4. r.child[b][near] = w /\ r.child[a][near] = t.child[a][near]
    BY <1>2, <1>9
  <2> QED
    BY <2>1, <2>2, <2>3, <2>4
<1>12. ASSUME NEW n \in S, NEW s \in Sides
       PROVE  /\ ~(n = p /\ s = a) => G[n] = G[r.child[s][n]] + Weight(r, n)
              /\ n = p /\ s = a => G[n] = G[r.child[s][n]] + 1 + Weight(r, n)
  <2>1. /\ n \in TreeNodes /\ t.child[s][n] \in TreeNodes /\ (s = a \/ s = b)
        /\ w \in TreeNodes /\ x \in TreeNodes /\ near \in TreeNodes
        /\ far \in TreeNodes /\ p \in TreeNodes /\ k \in TreeNodes
    BY <1>2, <1>4, <1>9
  <2>2. Weight(t, near) = 0 /\ H[near] = H[k] + 0 /\ H[near] \in Nat /\ H[k] \in Nat
    <3>1. Weight(t, near) = 0
      BY <1>3 DEF Weight
    <3> QED
      BY <1>2, <1>4, <1>8, <2>1, <3>1
  <2>3. /\ G[near] = H[near] + 1 /\ G[w] = H[near] /\ G[x] = H[x]
        /\ G[far] = H[near] /\ G[k] = H[near] /\ G[p] = H[p]
    BY <1>2, <1>4, <1>9, <1>10, <2>1, <2>2
  <2>4. CASE n = near
    <3>1. Weight(r, n) = 1
      BY <1>2, <1>9, <2>1, <2>4 DEF Weight
    <3>2. CASE s = b
      BY <1>2, <1>11, <2>2, <2>3, <2>4, <3>1, <3>2
    <3>3. CASE s = a
      <4>1. r.child[s][n] = t.child[s][n] /\ t.child[s][n] # w /\ t.child[s][n] # near
        BY <1>2, <1>11, <2>4, <3>3
      <4>2. H[near] = H[t.child[s][n]] + 0
        BY <1>2, <1>4, <2>2, <2>4
      <4>3. G[r.child[s][n]] = H[t.child[s][n]] /\ H[t.child[s][n]] \in Nat
        BY <1>4, <1>10, <2>1, <4>1
      <4> QED
        BY <1>2, <2>2, <2>3, <2>4, <3>1, <4>2, <4>3
    <3> QED
      BY <2>1, <3>2, <3>3
  <2>5. CASE n = w
    <3>1. Weight(r, n) = 0
      BY <1>9, <2>1, <2>5 DEF Weight
    <3>2. r.child[s][n] = k \/ r.child[s][n] = far
      BY <1>11, <2>1, <2>5
    <3> QED
      BY <1>2, <2>2, <2>3, <2>5, <3>1, <3>2
  <2>6. CASE n # near /\ n # w
    <3>1. Weight(r, n) = Weight(t, n) /\ G[n] = H[n]
      BY <1>9, <1>10, <2>1, <2>6 DEF Weight
    <3>2. t.child[s][n] # near
      BY <1>2, <2>6
    <3>3. G[r.child[s][n]] = H[t.child[s][n]]
      <4>1. CASE t.child[s][n] = w
        BY <1>4, <1>9, <2>3, <2>6, <4>1
      <4>2. CASE t.child[s][n] # w
        <5>1. r.child[s][n] = t.child[s][n]
          BY <1>9, <2>6, <4>2
        <5> QED
          BY <1>10, <2>1, <3>2, <4>2, <5>1
      <4> QED
        BY <4>1, <4>2
    <3>4. n = p /\ s = a => H[n] = H[t.child[s][n]] + 1 + Weight(t, n)
      BY <1>2, <1>4
    <3> QED
      BY <1>4, <2>6, <3>1, <3>3, <3>4
  <2> QED
    BY <2>4, <2>5, <2>6
<1>13. Heights(r, S, G, p, a)
  BY <1>4, <1>7, <1>10, <1>12, HeightsFrom
<1>14. ASSUME NEW n \in S, NEW s \in Sides, r.color[n] = "red", n # x
       PROVE  r.color[r.child[s][n]] = "black"
  <2>1. /\ n \in TreeNodes /\ t.child[s][n] \in TreeNodes /\ (s = a \/ s = b)
        /\ w \in TreeNodes /\ near \in TreeNodes /\ r.color[near] = "black"
        /\ k \in TreeNodes /\ far \in TreeNodes
    BY <1>2, <1>4, <1>9
  <2>2. n # near
    BY <1>14, <2>1
  <2>3. CASE n = w
    <3>1. r.child[s][n] = k \/ r.child[s][n] = far
      BY <1>11, <2>1, <2>3
    <3>2. t.color[k] = "black" /\ t.color[far] = "black"
      BY <1>2, <1>3, <1>8
    <3>3. r.color[k] = "black" /\ r.color[far] = "black"
      BY <1>2, <1>9, <2>1, <3>2
    <3> QED
      BY <3>1, <3>3
  <2>4. CASE n # w
    <3>1. t.color[n] = "red" /\ t.child[s][n] # near
      BY <1>2, <1>9, <1>14, <2>1, <2>2, <2>4
    <3>2. CASE t.child[s][n] = w
      BY <1>9, <2>1, <2>2, <2>4, <3>2
    <3>3. CASE t.child[s][n] # w
      <4>1. r.child[s][n] = t.child[s][n]
        BY <1>9, <2>2, <2>4, <3>3
      <4>2. t.color[t.child[s][n]] = "black"
        BY <1>3, <1>14, <3>1
      <4>3. r.color[t.child[s][n]] = "black"
        BY <1>9, <2>1, <3>1, <3>3, <4>2
      <4> QED
        BY <4>1, <4>3
    <3> QED
      BY <3>2, <3>3
  <2> QED
    BY <2>3, <2>4
<1>15. RedRule(r, S, x, x)
  BY <1>14 DEF RedRule
<1>16. r.root # x /\ r.color[r.root] = "black"
  BY <1>1, <1>2, <1>9
<1>17. OneShort(r, S, V, G, x, a)
  BY <1>2, <1>7, <1>11, <1>13, <1>15, <1>16 DEF OneShort
<1>18. BlackSibling(r, x, a) /\ RedNephew(r, x, a)
  <2>1. x \in TreeNodes /\ near \in TreeNodes /\ w \in TreeNodes
    BY <1>2
  <2>2. r.color[x] = "black" /\ r.color[near] = "black" /\ r.color[w] = "red"
    BY <1>1, <1>2, <1>9, <2>1
  <2> QED
    BY <1>6, <1>11, <1>16, <2>2 DEF BlackSibling, RedNephew
<1>19. \E K \in [TreeNodes -> Nat] :
         /\ OneShort(r, S, V, K, x, a)
         /\ BlackSibling(r, x, a) /\ RedNephew(r, x, a)
  BY <1>10, <1>17, <1>18
<1> QED
  BY <1>19

(* The far nephew is red: a rotation puts a black node above x, and no     *)
(* node is missing any more.                                               *)
LEMMA TurnUpKeeps ==
  ASSUME NEW t, NEW S, NEW U, NEW H, NEW x, NEW a, a \in Sides,
         OneShort(t, S, U, H, x, a), BlackSibling(t, x, a)
  PROVE  LET p == t.parent[x]
             w == t.child[Other(a)][p]
             far == t.child[Other(a)][w]
             v == Paint(Paint(t, {w}, t.color[p]), {p, far}, "black")
             r == Rotate(v, p, a)
         IN  t.color[far] # "black" =>
               \E G \in [TreeNodes -> Nat] :
                 OneShort(r, S, Turned(v, U, p, a), G, r.root, a)
<1> DEFINE p == t.parent[x]
           b == Other(a)
           w == t.child[b][p]
           near == t.child[a][w]
           far == t.child[b][w]
           v == Paint(Paint(t, {w}, t.color[p]), {p, far}, "black")
           r == Rotate(v, p, a)
           V == Turned(v, U, p, a)
           G == [n \in TreeNodes |-> IF n = p THEN H[w]
                                     ELSE IF n = w THEN H[p]
                                     ELSE IF n = far THEN H[far] + 1
                                     ELSE H[n]]
<1> SUFFICES ASSUME t.color[far] # "black"
             PROVE  \E K \in [TreeNodes -> Nat] : OneShort(r, S, V, K, r.root, a)
  OBVIOUS
<1>1. /\ Short(t, S, U, H, x, a, p, w, near, far)
      /\ t.color[x] = "black" /\ t.color[w] = "black" /\ t.root # x
  BY ShortIs DEF BlackSibling
<1> HIDE DEF p, w, near, far
<1>2. /\ SearchTree(t, S, U) /\ p \in S /\ w \in S /\ x \in S \cup {Nil}
      /\ near \in S \cup {Nil} /\ far \in S
      /\ p # x /\ w # p /\ w # x /\ near # p /\ near # w /\ far # p /\ far # w
      /\ w # t.root /\ far # x /\ near # far /\ far # t.root
      /\ t.child[a][p] = x /\ t.child[b][p] = w
      /\ t.child[a][w] = near /\ t.child[b][w] = far
      /\ \A n \in S, s \in Sides :
           /\ t.child[s][n] = w => n = p
           /\ t.child[s][n] = far => n = w
      /\ S \subseteq TreeNodes /\ Nil \in TreeNodes /\ Nil \notin S
      /\ t.color[t.root] = "black" /\ t.root \in S
      /\ t.color \in [TreeNodes -> {"red", "black"}]
      /\ b \in Sides /\ b # a /\ Other(b) = a
      /\ \A s \in Sides : s = a \/ s = b
  <2>1. t.color[Nil] = "black"
    BY <1>1 DEF Short
  <2>2. far # Nil
    BY <2>1
  <2>3. near # far
    BY <1>1, <2>2 DEF Short
  <2> QED
    BY <1>1, <2>2, <2>3 DEF Short
<1>3. /\ t.color[far] = "red"
      /\ \A n \in S, s \in Sides :
           t.color[n] = "red" => t.color[t.child[s][n]] = "black"
  <2>1. /\ \A n \in S, s \in Sides :
             t.color[n] = "red" /\ n # x /\ t.child[s][n] # x =>
               t.color[t.child[s][n]] = "black"
    BY <1>1 DEF Short, RedRule
  <2>2. t.color[far] = "red"
    BY <1>2
  <2> QED
    BY <1>1, <2>1, <2>2
<1>4. /\ H[near] = H[x] /\ H[far] = H[x] /\ H[w] = H[x] + 1
      /\ H[p] = H[w] + Weight(t, p) /\ H[x] \in Nat /\ H[p] \in Nat
      /\ H \in [TreeNodes -> Nat] /\ H[Nil] = 0
      /\ \A n \in S, s \in Sides :
           /\ t.child[s][n] \in S \cup {Nil} /\ t.child[s][n] \in TreeNodes
           /\ ~(n = p /\ s = a) => H[n] = H[t.child[s][n]] + Weight(t, n)
  <2>1. /\ H[w] = H[near] + Weight(t, w) /\ H[w] = H[far] + Weight(t, w)
        /\ H[w] = H[x] + 1 /\ H[p] = H[w] + Weight(t, p)
        /\ H \in [TreeNodes -> Nat] /\ H[Nil] = 0
        /\ \A n \in S, s \in Sides :
             /\ t.child[s][n] \in S \cup {Nil} /\ t.child[s][n] \in TreeNodes
             /\ ~(n = p /\ s = a) => H[n] = H[t.child[s][n]] + Weight(t, n)
    BY <1>1 DEF Short
  <2>2. Weight(t, w) = 1
    BY <1>1 DEF Weight
  <2>3. H[near] \in Nat /\ H[far] \in Nat /\ H[x] \in Nat /\ H[p] \in Nat
    BY <1>2, <2>1
  <2> QED
    BY <2>1, <2>2, <2>3
<1>5. /\ SearchTree(v, S, U) /\ v.child = t.child /\ v.root = t.root
      /\ v.parent = t.parent
      /\ \A n \in TreeNodes :
           v.color[n] = IF n = p \/ n = far THEN "black"
                        ELSE IF n = w THEN t.color[p] ELSE t.color[n]
  <2> DEFINE X == {w}
             Y == {p, far}
             c == t.color[p]
  <2>1. SearchTree(t, S, U) /\ Paints(X, c) /\ Paints(Y, "black")
    BY <1>2 DEF Paints
  <2>2. v = Paint(Paint(t, X, c), Y, "black")
    OBVIOUS
  <2> HIDE DEF X, Y, v, c
  <2>3. /\ SearchTree(v, S, U) /\ v.child = t.child /\ v.root = t.root
        /\ v.parent = t.parent
        /\ \A n \in TreeNodes :
             v.color[n] = IF n \in Y THEN "black" ELSE IF n \in X THEN c
                          ELSE t.color[n]
    BY <2>1, <2>2, RepaintIs
  <2> QED
    BY <2>3 DEF X, Y, c
<1> HIDE DEF v
<1>6. SearchTree(r, S, V) /\ Rotated(v, S, r, p, a, w)
  <2>1. v.child[Other(a)][p] = w /\ v.child[Other(a)][p] # Nil
    BY <1>2, <1>5
  <2>2. SearchTree(r, S, V)
    BY <1>2, <1>5, <2>1, RotateKeepsTree
  <2>3. Rotated(v, S, r, p, a, v.child[Other(a)][p])
    BY <1>2, <1>5, <2>1, RotatedIs
  <2> QED
    BY <2>1, <2>2, <2>3
<1>7. Other(a) = b
  OBVIOUS
<1> HIDE DEF b, r, V
<1>8. /\ r.root = IF t.root = p THEN w ELSE t.root
      /\ \A s \in Sides, n \in S :
           r.child[s][n] =
             IF n = w /\ s = a THEN p
             ELSE IF n = p /\ s = b THEN near
             ELSE IF t.child[s][n] = p THEN w ELSE t.child[s][n]
      /\ \A n \in TreeNodes :
           r.color[n] = IF n = p \/ n = far THEN "black"
                        ELSE IF n = w THEN t.color[p] ELSE t.color[n]
  BY <1>2, <1>5, <1>6, <1>7 DEF Rotated
<1>9. /\ \A n \in TreeNodes : G[n] = IF n = p THEN H[w]
                                      ELSE IF n = w THEN H[p]
                                      ELSE IF n = far THEN H[far] + 1
                                      ELSE H[n]
      /\ G \in [TreeNodes -> Nat] /\ G[Nil] = 0
  <2>1. G \in [TreeNodes -> Nat]
    BY <1>2, <1>4
  <2>2. Nil # p /\ Nil # w /\ Nil # far
    BY <1>2
  <2> QED
    BY <1>2, <1>4, <2>1, <2>2
<1> HIDE DEF G
<1>10. /\ r.child[a][p] = x /\ r.child[b][p] = near
       /\ r.child[a][w] = p /\ r.child[b][w] = far
       /\ \A s \in Sides : /\ r.child[s][far] = t.child[s][far]
                           /\ t.child[s][far] # p /\ t.child[s][far] # w
                           /\ t.child[s][far] # far
  <2>1. r.child[a][p] = x /\ r.child[b][p] = near
    BY <1>2, <1>8
  <2>2. r.child[a][w] = p /\ r.child[b][w] = far
    BY <1>2, <1>8
  <2>3. ASSUME NEW s \in Sides
        PROVE  t.child[s][far] # p /\ t.child[s][far] # w /\ t.child[s][far] # far
    <3>1. t.child[s][far] # w /\ t.child[s][far] # far
      BY <1>2
    <3>2. U[t.child[s][far]] \subseteq U[far]
      BY <1>2, NodeIs
    <3>3. w # Nil /\ far # Nil
      BY <1>2
    <3>4. U[far] \subseteq U[w]
      BY <1>2, <3>3, NodeIs
    <3>5. U[w] \subseteq U[p] \ {p} /\ p \in U[p]
      BY <1>2, <3>3, NodeIs
    <3> QED
      BY <3>1, <3>2, <3>4, <3>5
  <2>4. \A s \in Sides : r.child[s][far] = t.child[s][far]
    BY <1>2, <1>8, <2>3
  <2> QED
    BY <2>1, <2>2, <2>3, <2>4
<1>11. ASSUME NEW n \in S, NEW s \in Sides
       PROVE  G[n] = G[r.child[s][n]] + Weight(r, n)
  <2>1. /\ n \in TreeNodes /\ t.child[s][n] \in TreeNodes /\ (s = a \/ s = b)
        /\ w \in TreeNodes /\ x \in TreeNodes /\ near \in TreeNodes
        /\ far \in TreeNodes /\ p \in TreeNodes
    BY <1>2, <1>4
  <2>2. /\ G[p] = H[x] + 1 /\ G[w] = H[x] + 1 + Weight(t, p) /\ G[x] = H[x]
        /\ G[near] = H[x] /\ G[far] = H[x] + 1
    BY <1>2, <1>4, <1>9, <2>1
  <2>3. CASE n = p
    <3>1. Weight(r, n) = 1
      BY <1>8, <2>1, <2>3 DEF Weight
    <3>2. r.child[s][n] = x \/ r.child[s][n] = near
      BY <1>10, <2>1, <2>3
    <3> QED
      BY <1>4, <2>2, <2>3, <3>1, <3>2
  <2>4. CASE n = w
    <3>1. Weight(r, n) = Weight(t, p) /\ Weight(t, p) \in {0, 1}
      BY <1>2, <1>8, <2>1, <2>4 DEF Weight
    <3>2. r.child[s][n] = p \/ r.child[s][n] = far
      BY <1>10, <2>1, <2>4
    <3> QED
      BY <1>4, <2>2, <2>4, <3>1, <3>2
  <2>5. CASE n = far
    <3>1. Weight(r, n) = 1 /\ Weight(t, n) = 0
      BY <1>3, <1>8, <2>1, <2>5 DEF Weight
    <3>2. H[n] = H[t.child[s][n]] + 0
      BY <1>2, <1>4, <2>5, <3>1
    <3>3. G[r.child[s][n]] = H[t.child[s][n]] /\ H[t.child[s][n]] \in Nat
      BY <1>4, <1>9, <1>10, <2>1, <2>5
    <3> QED
      BY <1>4, <2>2, <2>5, <3>1, <3>2, <3>3
  <2>6. CASE n # p /\ n # w /\ n # far
    <3>1. Weight(r, n) = Weight(t, n) /\ G[n] = H[n]
      BY <1>8, <1>9, <2>1, <2>6 DEF Weight
    <3>2. t.child[s][n] # w /\ t.child[s][n] # far
      BY <1>2, <2>6
    <3>3. G[r.child[s][n]] = H[t.child[s][n]]
      <4>1. CASE t.child[s][n] = p
        BY <1>8, <1>9, <2>1, <2>6, <4>1, <1>2
      <4>2. CASE t.child[s][n] # p
        <5>1. r.child[s][n] = t.child[s][n]
          BY <1>8, <2>6, <4>2
        <5> QED
          BY <1>9, <2>1, <3>2, <4>2, <5>1
      <4> QED
        BY <4>1, <4>2
    <3> QED
      BY <1>4, <2>6, <3>1, <3>3
  <2> QED
    BY <2>3, <2>4, <2>5, <2>6
<1>12. ASSUME NEW n \in S, NEW s \in Sides, r.color[n] = "red"
       PROVE  r.color[r.child[s][n]] = "black"
  <2>1. /\ n \in TreeNodes /\ t.child[s][n] \in TreeNodes /\ (s = a \/ s = b)
        /\ w \in TreeNodes /\ p \in TreeNodes /\ far \in TreeNodes
        /\ r.color[p] = "black" /\ r.color[far] = "black"
    BY <1>2, <1>4, <1>8
  <2>2. n # p /\ n # far
    BY <1>12, <2>1
  <2>3. CASE n = w
    <3>1. r.child[s][n] = p \/ r.child[s][n] = far
      BY <1>10, <2>1, <2>3
    <3> QED
      BY <2>1, <3>1
  <2>4. CASE n # w
    <3>1. t.color[n] = "red" /\ t.child[s][n] # w /\ t.child[s][n] # far
      BY <1>2, <1>8, <1>12, <2>1, <2>2, <2>4
    <3>2. t.color[t.child[s][n]] = "black"
      BY <1>3, <3>1
    <3>3. CASE t.child[s][n] = p
      BY <1>2, <1>8, <2>1, <2>2, <2>4, <3>2, <3>3
    <3>4. CASE t.child[s][n] # p
      <4>1. r.child[s][n] = t.child[s][n]
        BY <1>8, <2>2, <2>4, <3>4
      <4>2. r.color[t.child[s][n]] = "black"
        BY <1>8, <2>1, <3>1, <3>2, <3>4
      <4> QED
        BY <4>1, <4>2
    <3> QED
      BY <3>3, <3>4
  <2> QED
    BY <2>3, <2>4
<1>13. r.root \in S /\ r.parent[r.root] = Nil
  <2>1. r.root \in S
    BY <1>2, <1>8
  <2> QED
    BY <1>2, <1>6, <2>1 DEF SearchTree
<1>14. Heights(r, S, G, r.parent[r.root], a)
  <2> DEFINE e == r.parent[r.root]
  <2>1. \A n \in S : n # e
    BY <1>2, <1>13
  <2> HIDE DEF e
  <2>2. Heights(r, S, G, e, a)
    BY <1>6, <1>9, <1>11, <2>1, HeightsFrom
  <2> QED
    BY <2>2 DEF e
<1>15. RedRule(r, S, r.root, r.root)
  BY <1>12 DEF RedRule
<1>16. OneShort(r, S, V, G, r.root, a)
  BY <1>6, <1>13, <1>14, <1>15 DEF OneShort
<1>17. \E K \in [TreeNodes -> Nat] : OneShort(r, S, V, K, r.root, a)
  BY <1>9, <1>16
<1> QED
  BY <1>17

(* x is the root or red: painting it black is enough.                      *)
LEMMA DeleteDoneKeeps ==
  ASSUME NEW t, NEW S, NEW U, NEW H, NEW x, NEW a, a \in Sides,
         OneShort(t, S, U, H, x, a), x = t.root \/ t.color[x] # "black"
  PROVE  LET r == Paint(t, {x}, "black")
         IN  \E G \in [TreeNodes -> Nat] : Balanced(r, S, U, G)
<1> DEFINE q == t.parent[x]
           r == Paint(t, {x}, "black")
           G == [n \in TreeNodes |-> IF n = x /\ t.color[x] = "red" THEN H[n] + 1
                                     ELSE H[n]]
<1>1. /\ SearchTree(t, S, U) /\ Heights(t, S, H, q, a) /\ RedRule(t, S, x, x)
      /\ x \in S \cup {Nil}
      /\ t.root # x => t.color[t.root] = "black" /\ q \in S /\ t.child[a][q] = x
      /\ t.root = x => q = Nil
  BY DEF OneShort
<1>2. /\ S \subseteq TreeNodes /\ Nil \in TreeNodes /\ Nil \notin S
      /\ H \in [TreeNodes -> Nat] /\ H[Nil] = 0
      /\ \A n \in S, s \in Sides :
           /\ t.child[s][n] \in S \cup {Nil} /\ t.child[s][n] \in TreeNodes
           /\ ~(n = q /\ s = a) => H[n] = H[t.child[s][n]] + Weight(t, n)
           /\ n = q /\ s = a => H[n] = H[t.child[s][n]] + 1 + Weight(t, n)
  BY <1>1, HeightIs
<1>3. /\ t.color \in [TreeNodes -> {"red", "black"}] /\ t.color[Nil] = "black"
      /\ t.root \in S \cup {Nil} /\ x \in TreeNodes
      /\ t.color[x] = "red" => x \in S
  BY <1>1, <1>2 DEF SearchTree, Trees
<1>4. \A n \in S, s \in Sides :
        x # Nil /\ t.child[s][n] = x => n = q /\ s = a
  <2> SUFFICES ASSUME NEW n \in S, NEW s \in Sides, x # Nil, t.child[s][n] = x
               PROVE  n = q /\ s = a
    OBVIOUS
  <2>1. t.root # x
    BY <1>1, <1>2, ChildIs
  <2> HIDE DEF q
  <2>2. q \in S /\ t.child[a][q] = x
    BY <1>1, <2>1
  <2> QED
    BY <1>1, <2>2, ChildIs
<1> HIDE DEF q
<1>5. /\ SearchTree(r, S, U) /\ r.child = t.child /\ r.root = t.root
      /\ \A n \in TreeNodes : r.color[n] = IF n = x THEN "black" ELSE t.color[n]
  <2> DEFINE X == {x}
  <2>1. Paints(X, "black") /\ r = Paint(t, X, "black") /\ SearchTree(t, S, U)
    BY <1>1 DEF Paints
  <2> HIDE DEF X, r
  <2>2. /\ SearchTree(r, S, U) /\ r.child = t.child /\ r.root = t.root
        /\ \A n \in TreeNodes : r.color[n] = IF n \in X THEN "black" ELSE t.color[n]
    BY <2>1, PaintIs
  <2> QED
    BY <2>2 DEF X
<1> HIDE DEF r
<1>6. /\ \A n \in TreeNodes : G[n] = IF n = x /\ t.color[x] = "red" THEN H[n] + 1
                                     ELSE H[n]
      /\ G \in [TreeNodes -> Nat] /\ G[Nil] = 0
  <2>1. G \in [TreeNodes -> Nat]
    BY <1>2
  <2>2. t.color[x] = "red" => Nil # x
    BY <1>3
  <2> QED
    BY <1>2, <2>1, <2>2
<1> HIDE DEF G
<1>7. ASSUME NEW n \in S, NEW s \in Sides
      PROVE  G[n] = G[r.child[s][n]] + Weight(r, n)
  <2> DEFINE c == t.child[s][n]
  <2>1. /\ n \in TreeNodes /\ c \in TreeNodes /\ r.child[s][n] = c
        /\ H[n] \in Nat /\ H[c] \in Nat
        /\ ~(n = q /\ s = a) => H[n] = H[c] + Weight(t, n)
        /\ n = q /\ s = a => H[n] = H[c] + 1 + Weight(t, n)
        /\ x # Nil /\ c = x => n = q /\ s = a
    BY <1>2, <1>4, <1>5
  <2>2. t.root # x => t.child[a][q] = x /\ t.color[x] = "red" /\ x # Nil
    BY <1>1, <1>3
  <2>3. G[c] + (IF n = x THEN Weight(t, n) ELSE Weight(r, n)) = H[n]
    <3>1. n # x => Weight(r, n) = Weight(t, n)
      BY <1>5, <2>1 DEF Weight
    <3>2. Weight(t, n) \in {0, 1}
      BY DEF Weight
    <3>3. CASE n = q /\ s = a
      <4>1. t.root # x
        BY <1>1, <1>2, <3>3
      <4>2. c = x /\ t.color[x] = "red"
        BY <2>2, <3>3, <4>1
      <4>3. G[c] = H[c] + 1
        BY <1>6, <2>1, <4>2
      <4> HIDE DEF c
      <4> QED
        BY <2>1, <3>1, <3>2, <3>3, <4>3
    <3>4. CASE ~(n = q /\ s = a)
      <4>1. c = x => t.color[x] # "red"
        BY <1>3, <1>2, <2>1, <3>4
      <4>2. G[c] = H[c]
        BY <1>6, <2>1, <4>1
      <4> HIDE DEF c
      <4> QED
        BY <2>1, <3>1, <3>2, <3>4, <4>2
    <3> QED
      BY <3>3, <3>4
  <2>4. G[c] \in Nat
    BY <1>6, <2>1
  <2>5. CASE n = x /\ t.color[x] = "red"
    <3>1. Weight(t, n) = 0 /\ Weight(r, n) = 1 /\ G[n] = H[n] + 1
      BY <1>5, <1>6, <2>1, <2>5 DEF Weight
    <3> HIDE DEF c
    <3> QED
      BY <2>1, <2>3, <2>4, <2>5, <3>1
  <2>6. CASE n = x /\ t.color[x] # "red"
    <3>1. Weight(t, n) = 1 /\ Weight(r, n) = 1 /\ G[n] = H[n]
      BY <1>3, <1>5, <1>6, <2>1, <2>6 DEF Weight
    <3> HIDE DEF c
    <3> QED
      BY <2>1, <2>3, <2>4, <2>6, <3>1
  <2>7. CASE n # x
    <3>1. G[n] = H[n] /\ Weight(r, n) \in {0, 1}
      BY <1>6, <2>1, <2>7 DEF Weight
    <3> HIDE DEF c
    <3> QED
      BY <2>1, <2>3, <2>4, <2>7, <3>1
  <2> QED
    BY <2>5, <2>6, <2>7
<1>8. Heights(r, S, G, Nil, "left")
  BY <1>2, <1>5, <1>6, <1>7, HeightsFrom
<1>9. ASSUME NEW n \in S, NEW s \in Sides, r.color[n] = "red"
      PROVE  r.color[r.child[s][n]] = "black"
  <2>1. n \in TreeNodes /\ t.child[s][n] \in TreeNodes /\ n # x
    BY <1>2, <1>5, <1>9
  <2>2. t.color[n] = "red"
    BY <1>5, <1>9, <2>1
  <2>3. t.child[s][n] # x => t.color[t.child[s][n]] = "black"
    BY <1>1, <2>1, <2>2 DEF RedRule
  <2> QED
    BY <1>5, <2>1, <2>3
<1>10. RedRule(r, S, Nil, Nil)
  BY <1>9 DEF RedRule
<1>11. r.color[r.root] = "black"
  BY <1>1, <1>2, <1>3, <1>5
<1>12. Balanced(r, S, U, G)
  BY <1>5, <1>8, <1>10, <1>11 DEF Balanced
<1> QED
  BY <1>6, <1>12 DEF r

-----------------------------------------------------------------------------
(* The removal of a node.                                                  *)

Transplanted(t, S, r, z, x) ==
  /\ r.color = t.color
  /\ r.root = IF t.root = z THEN x ELSE t.root
  /\ \A s \in Sides, n \in S :
       r.child[s][n] = IF t.child[s][n] = z THEN x ELSE t.child[s][n]
  /\ \A n \in TreeNodes :
       r.parent[n] = IF n = x THEN t.parent[z] ELSE t.parent[n]

LEMMA TransplantedIs ==
  ASSUME NEW t, NEW S, NEW U, SearchTree(t, S, U), NEW z \in S,
         NEW x \in TreeNodes, x # z
  PROVE  Transplanted(t, S, Transplant(t, z, x), z, x)
BY TransplantLinks DEF Transplanted

(* z lacks a child.                                                        *)
LEMMA RemoveKeeps ==
  ASSUME NEW t, NEW S, NEW U, NEW H, NEW z, NEW side,
         Balanced(t, S, U, H), z \in S, side \in Sides,
         t.child[Other(side)][z] = Nil
  PROVE  LET x == t.child[side][z]
             r == Transplant(t, z, x)
             T == S \ {z}
             V == Without(U, z)
         IN  /\ t.color[z] = "black" =>
                  \E b \in Sides : OneShort(r, T, V, H, x, b)
             /\ t.color[z] # "black" => Balanced(r, T, V, H)
<1> DEFINE x == t.child[side][z]
           r == Transplant(t, z, x)
           T == S \ {z}
           V == Without(U, z)
           q == t.parent[z]
           b == SideOf(t, q, z)
<1>1. /\ SearchTree(t, S, U) /\ Heights(t, S, H, Nil, "left")
      /\ RedRule(t, S, Nil, Nil) /\ t.color[t.root] = "black"
  BY DEF Balanced
<1>2. /\ S \subseteq TreeNodes /\ Nil \in TreeNodes /\ Nil \notin S
      /\ H \in [TreeNodes -> Nat] /\ H[Nil] = 0
      /\ \A n \in S, s \in Sides :
           /\ t.child[s][n] \in S \cup {Nil} /\ t.child[s][n] \in TreeNodes
           /\ H[n] = H[t.child[s][n]] + Weight(t, n)
  BY <1>1, HeightIs
<1>3. /\ x \in S \cup {Nil} /\ x \in TreeNodes /\ x # z
      /\ x # Nil => /\ x # t.root
                   /\ \A n \in S, s \in Sides : t.child[s][n] = x => n = z
  BY <1>1, NodeIs, ChildIs
<1>4. /\ t.root \in S /\ (z = t.root => q = Nil) /\ b \in Sides
      /\ z # t.root => q \in S /\ q # z /\ t.child[b][q] = z
  <2>1. b \in Sides
    BY DEF SideOf, Sides
  <2> QED
    BY <1>1, <2>1, HangsBelow
<1>5. \A n \in S, s \in Sides : t.child[s][n] = z => n = q /\ s = b /\ z # t.root
  <2> SUFFICES ASSUME NEW n \in S, NEW s \in Sides, t.child[s][n] = z
               PROVE  n = q /\ s = b /\ z # t.root
    OBVIOUS
  <2> HIDE DEF q, b, r, V, T, x
  <2>1. n = t.parent[z] /\ s = SideOf(t, n, z) /\ z # t.root
    BY <1>1, HangsBelow
  <2> QED
    BY <2>1 DEF q, b
<1>6. H[z] = Weight(t, z) /\ H[x] = 0
  <2>1. Other(side) \in Sides
    BY SidesAre
  <2>2. H[z] = 0 + Weight(t, z)
    BY <1>2, <2>1
  <2>3. Weight(t, z) \in {0, 1} /\ H[x] \in Nat
    BY <1>2, <1>3 DEF Weight
  <2>4. H[z] = H[x] + Weight(t, z)
    BY <1>2
  <2> HIDE DEF x
  <2> QED
    BY <2>2, <2>3, <2>4
<1>7. SearchTree(r, T, V)
  BY <1>1, TransplantKeepsTree
<1>8. Transplanted(t, S, r, z, x)
  BY <1>1, <1>3, TransplantedIs
<1>9. t.parent[z] = q
  OBVIOUS
<1> HIDE DEF x, r, q, b
<1>10. /\ r.root = IF t.root = z THEN x ELSE t.root
       /\ \A s \in Sides, n \in S :
            r.child[s][n] = IF t.child[s][n] = z THEN x ELSE t.child[s][n]
       /\ \A n \in TreeNodes : r.color[n] = t.color[n]
       /\ r.parent[x] = q
  BY <1>3, <1>8, <1>9 DEF Transplanted
<1>11. ASSUME NEW n \in T, NEW s \in Sides
       PROVE  /\ ~(n = q /\ s = b) => H[n] = H[r.child[s][n]] + Weight(r, n)
              /\ n = q /\ s = b =>
                   H[n] = H[r.child[s][n]] + Weight(t, z) + Weight(r, n)
  <2>1. n \in S /\ n \in TreeNodes /\ Weight(r, n) = Weight(t, n)
    BY <1>2, <1>10 DEF Weight
  <2>2. CASE t.child[s][n] = z
    <3>1. n = q /\ s = b /\ r.child[s][n] = x
      BY <1>5, <1>10, <2>1, <2>2
    <3>2. H[n] = H[z] + Weight(t, n)
      BY <1>2, <2>1, <2>2
    <3>3. H[z] \in Nat /\ Weight(t, z) \in {0, 1} /\ Weight(t, n) \in {0, 1}
      BY <1>2 DEF Weight
    <3> QED
      BY <1>6, <2>1, <3>1, <3>2, <3>3
  <2>3. CASE t.child[s][n] # z
    <3>1. r.child[s][n] = t.child[s][n]
      BY <1>10, <2>1, <2>3
    <3>2. ~(n = q /\ s = b)
      BY <1>2, <1>4, <2>1, <2>3
    <3> QED
      BY <1>2, <2>1, <3>1, <3>2
  <2> QED
    BY <2>2, <2>3
<1>12. \A n \in S, s \in Sides :
         t.color[n] = "red" => t.color[t.child[s][n]] = "black"
  <2>1. \A n \in S, s \in Sides : t.child[s][n] = Nil => t.color[t.child[s][n]] = "black"
    BY <1>1 DEF SearchTree
  <2> QED
    BY <1>1, <1>2, <2>1 DEF RedRule
<1>13. ASSUME t.color[z] = "black"
       PROVE  OneShort(r, T, V, H, x, b)
  <2>1. Weight(t, z) = 1
    BY <1>13 DEF Weight
  <2>2. Heights(r, T, H, q, b)
    <3>1. ASSUME NEW n \in T, NEW s \in Sides
          PROVE  /\ ~(n = q /\ s = b) => H[n] = H[r.child[s][n]] + Weight(r, n)
                 /\ n = q /\ s = b => H[n] = H[r.child[s][n]] + 1 + Weight(r, n)
      BY <1>11, <2>1
    <3> QED
      BY <1>2, <1>7, <3>1, HeightsFrom
  <2>3. ASSUME NEW n \in T, NEW s \in Sides, r.color[n] = "red", r.child[s][n] # x
        PROVE  r.color[r.child[s][n]] = "black"
    <3>1. n \in S /\ n \in TreeNodes /\ t.child[s][n] \in TreeNodes
      BY <1>2
    <3>2. r.child[s][n] = t.child[s][n]
      BY <1>10, <2>3, <3>1
    <3> QED
      BY <1>10, <1>12, <2>3, <3>1, <3>2
  <2>4. RedRule(r, T, x, x)
    BY <2>3 DEF RedRule
  <2>5. x \in T \cup {Nil}
    BY <1>3
  <2>6. r.root # x => r.color[r.root] = "black" /\ q \in T /\ r.child[b][q] = x
    <3> SUFFICES ASSUME r.root # x
                 PROVE  r.color[r.root] = "black" /\ q \in T /\ r.child[b][q] = x
      OBVIOUS
    <3>1. t.root # z
      BY <1>10
    <3>2. q \in T /\ q \in S /\ t.child[b][q] = z
      BY <1>4, <3>1
    <3> QED
      BY <1>1, <1>2, <1>4, <1>10, <3>1, <3>2
  <2>7. r.root = x => q = Nil
    <3>1. t.root # z => t.root # x
      BY <1>2, <1>3, <1>4
    <3> QED
      BY <1>4, <1>10, <3>1
  <2> QED
    BY <1>7, <1>10, <2>2, <2>4, <2>5, <2>6, <2>7 DEF OneShort
<1>14. ASSUME t.color[z] # "black"
       PROVE  Balanced(r, T, V, H)
  <2>1. Weight(t, z) = 0 /\ t.color[z] = "red"
    BY <1>1, <1>2, <1>14 DEF Weight, SearchTree, Trees
  <2>2. Heights(r, T, H, Nil, "left")
    <3>1. ASSUME NEW n \in T, NEW s \in Sides
          PROVE  H[n] = H[r.child[s][n]] + Weight(r, n)
      <4>1. r.child[s][n] \in TreeNodes /\ H[r.child[s][n]] \in Nat
        BY <1>2, <1>3, <1>10
      <4>2. Weight(r, n) \in {0, 1}
        BY DEF Weight
      <4> QED
        BY <1>11, <2>1, <4>1, <4>2
    <3>2. Nil \notin T
      BY <1>2
    <3> QED
      BY <1>2, <1>7, <3>1, <3>2, HeightsFrom
  <2>3. ASSUME NEW n \in T, NEW s \in Sides, r.color[n] = "red"
        PROVE  r.color[r.child[s][n]] = "black"
    <3>1. n \in S /\ n \in TreeNodes /\ t.child[s][n] \in TreeNodes
      BY <1>2
    <3>2. t.color[n] = "red" /\ t.color[t.child[s][n]] = "black"
      BY <1>10, <1>12, <2>3, <3>1
    <3>3. t.child[s][n] # z
      BY <1>14, <3>2
    <3> QED
      BY <1>10, <3>1, <3>2, <3>3
  <2>4. RedRule(r, T, Nil, Nil)
    BY <2>3 DEF RedRule
  <2>5. r.color[r.root] = "black"
    <3>1. t.root # z
      BY <1>1, <1>14
    <3> QED
      BY <1>1, <1>2, <1>4, <1>10, <3>1
  <2> QED
    BY <1>7, <2>2, <2>4, <2>5 DEF Balanced
<1> QED
  BY <1>4, <1>13, <1>14 DEF x, r

(* The insertion of a red node where there was none.                       *)
LEMMA AttachKeeps ==
  ASSUME NEW t, NEW S, NEW U, NEW H, NEW u, NEW y,
         Balanced(t, S, U, H), u \in Users \ S, t.color[u] = "red",
         \A s \in Sides : t.child[s][u] = Nil,
         y \in S \cup {Nil}, y = Nil => t.root = Nil,
         y # Nil => /\ t.child[Toward(y, u)][y] = Nil
                    /\ Leads(t, S, U, y, u)
  PROVE  \E G \in [TreeNodes -> Nat] :
           Inserted(Hang(t, u, y), S \cup {u}, With(S, U, u, y), G, u)
<1> DEFINE r == Hang(t, u, y)
           T == S \cup {u}
           V == With(S, U, u, y)
           G == [n \in TreeNodes |-> IF n = u THEN 0 ELSE H[n]]
<1>1. /\ SearchTree(t, S, U) /\ Heights(t, S, H, Nil, "left")
      /\ RedRule(t, S, Nil, Nil) /\ t.color[t.root] = "black"
  BY DEF Balanced
<1>2. /\ S \subseteq TreeNodes /\ Nil \in TreeNodes /\ Nil \notin S
      /\ H \in [TreeNodes -> Nat] /\ H[Nil] = 0
      /\ \A n \in S, s \in Sides :
           /\ t.child[s][n] \in S \cup {Nil} /\ t.child[s][n] \in TreeNodes
           /\ H[n] = H[t.child[s][n]] + Weight(t, n)
  BY <1>1, HeightIs
<1>3. u \in TreeNodes /\ u # Nil /\ u \notin S /\ y \in TreeNodes /\ y # u
  BY <1>2, NodesAre
<1>4. SearchTree(r, T, V)
  BY <1>1, HangKeepsTree
<1>5. /\ r.color = t.color
      /\ r.root = IF y = Nil THEN u ELSE t.root
      /\ \A s \in Sides, n \in TreeNodes :
           r.child[s][n] = IF y # Nil /\ n = y /\ s = Toward(y, u)
                           THEN u ELSE t.child[s][n]
  <2>1. t \in Trees
    BY <1>1 DEF SearchTree
  <2> QED
    BY <1>3, <2>1, HangIs
<1>6. /\ G \in [TreeNodes -> Nat] /\ G[Nil] = 0 /\ G[u] = 0
      /\ \A n \in S \cup {Nil} : G[n] = H[n]
  BY <1>2, <1>3
<1> HIDE DEF r, V, G
<1>7. ASSUME NEW n \in T, NEW s \in Sides
      PROVE  G[n] = G[r.child[s][n]] + Weight(r, n)
  <2>1. CASE n = u
    <3>1. r.child[s][n] = Nil /\ Weight(r, n) = 0
      BY <1>3, <1>5, <2>1 DEF Weight
    <3> QED
      BY <1>6, <2>1, <3>1
  <2>2. CASE n \in S
    <3>1. G[n] = H[t.child[s][n]] + Weight(t, n) /\ Weight(t, n) = Weight(r, n)
      BY <1>2, <1>5, <1>6, <2>2 DEF Weight
    <3>2. G[r.child[s][n]] = H[t.child[s][n]]
      <4>1. CASE y # Nil /\ n = y /\ s = Toward(y, u)
        <5>1. r.child[s][n] = u /\ t.child[s][n] = Nil
          BY <1>3, <1>5, <4>1
        <5> QED
          BY <1>2, <1>6, <5>1
      <4>2. CASE ~(y # Nil /\ n = y /\ s = Toward(y, u))
        <5>1. r.child[s][n] = t.child[s][n] /\ t.child[s][n] \in S \cup {Nil}
          BY <1>2, <1>5, <2>2, <4>2
        <5> QED
          BY <1>6, <5>1
      <4> QED
        BY <4>1, <4>2
    <3> QED
      BY <3>1, <3>2
  <2> QED
    BY <2>1, <2>2
<1>8. Heights(r, T, G, Nil, "left")
  BY <1>2, <1>3, <1>4, <1>6, <1>7, HeightsFrom
<1>9. RedRule(r, T, Nil, u)
  <2> SUFFICES ASSUME NEW n \in T, NEW s \in Sides, r.color[n] = "red",
                      r.child[s][n] # u
               PROVE  r.color[r.child[s][n]] = "black"
    BY DEF RedRule
  <2>1. r.child[s][n] = t.child[s][n]
    BY <1>2, <1>3, <1>5
  <2>2. t.color[Nil] = "black"
    BY <1>1 DEF SearchTree
  <2>3. CASE n = u
    BY <1>5, <2>1, <2>2, <2>3
  <2>4. CASE n \in S /\ t.child[s][n] # Nil
    BY <1>1, <1>2, <1>5, <2>1, <2>4 DEF RedRule
  <2> QED
    BY <1>5, <2>1, <2>2, <2>3, <2>4
<1>10. r.root # u => r.color[r.root] = "black"
  BY <1>1, <1>5
<1>11. Inserted(r, T, V, G, u)
  BY <1>4, <1>5, <1>8, <1>9, <1>10 DEF Inserted
<1> QED
  BY <1>6, <1>11 DEF r, V

(* What the removal of a user with two children does to the links.         *)
Succeeded(t, S, f, z, y) ==
  LET x == t.child["right"][y]
  IN  /\ f.root = IF t.root = z THEN y ELSE t.root
      /\ \A s \in Sides, n \in S \ {z} :
           f.child[s][n] = IF n = y THEN Instead(t, z, y, t.child[s][z])
                           ELSE Instead(t, z, y, t.child[s][n])
      /\ f.parent[x] = IF y = t.child["right"][z] THEN y ELSE t.parent[y]
      /\ \A n \in TreeNodes :
           f.color[n] = IF n = y THEN t.color[z] ELSE t.color[n]

LEMMA SucceededIs ==
  ASSUME NEW t, NEW S, NEW U, SearchTree(t, S, U), NEW z \in S,
         NEW y, Succeeds(t, S, U, z, y)
  PROVE  Succeeded(t, S, Succeed(t, z, y), z, y)
<1> DEFINE f == Succeed(t, z, y)
           l == t.child["left"][z]
           r == t.child["right"][z]
           x == t.child["right"][y]
<1>1. x \in S \cup {Nil} /\ x # y /\ x # z /\ x # l /\ x # r
  BY SuccessorIs
<1>2. x \in TreeNodes
  BY <1>1, NodesAre DEF SearchTree
<1>3. /\ f.root = IF t.root = z THEN y ELSE t.root
      /\ \A s \in Sides, n \in S \ {z} :
           f.child[s][n] = IF n = y THEN Instead(t, z, y, t.child[s][z])
                           ELSE Instead(t, z, y, t.child[s][n])
      /\ \A n \in TreeNodes :
           f.parent[n] = IF n = l THEN y
                         ELSE IF n = y THEN t.parent[z]
                         ELSE IF n = r THEN y
                         ELSE IF n = x
                         THEN (IF y = r THEN y ELSE t.parent[y])
                         ELSE t.parent[n]
      /\ \A n \in TreeNodes :
           f.color[n] = IF n = y THEN t.color[z] ELSE t.color[n]
  BY SucceedLinks
<1>4. f.parent[x] = IF y = r THEN y ELSE t.parent[y]
  <2> HIDE DEF f, l, r, x
  <2> QED
    BY <1>1, <1>2, <1>3
<1> HIDE DEF f
<1>5. Succeeded(t, S, f, z, y)
  BY <1>3, <1>4 DEF Succeeded
<1> QED
  BY <1>5 DEF f

(* z has two children.                                                     *)
LEMMA RemoveInnerKeeps ==
  ASSUME NEW t, NEW S, NEW U, NEW H, NEW z, NEW y,
         Balanced(t, S, U, H), z \in S, Succeeds(t, S, U, z, y),
         \A m \in U[t.child["right"][z]] \ {y} : Toward(y, m) = "right"
  PROVE  LET x == t.child["right"][y]
             f == Succeed(t, z, y)
             T == S \ {z}
             V == Replaced(U, z, y)
         IN  /\ t.color[y] = "black" =>
                  \E G \in [TreeNodes -> Nat], b \in Sides :
                    OneShort(f, T, V, G, x, b)
             /\ t.color[y] # "black" =>
                  \E G \in [TreeNodes -> Nat] : Balanced(f, T, V, G)
<1> DEFINE x == t.child["right"][y]
           f == Succeed(t, z, y)
           T == S \ {z}
           V == Replaced(U, z, y)
           l == t.child["left"][z]
           r == t.child["right"][z]
           q == IF y = r THEN y ELSE t.parent[y]
           b == IF y = r THEN "right" ELSE SideOf(t, t.parent[y], y)
           G == [n \in TreeNodes |-> IF n = y THEN H[z] ELSE H[n]]
<1>1. /\ SearchTree(t, S, U) /\ Heights(t, S, H, Nil, "left")
      /\ RedRule(t, S, Nil, Nil) /\ t.color[t.root] = "black"
  BY DEF Balanced
<1>2. /\ S \subseteq TreeNodes /\ Nil \in TreeNodes /\ Nil \notin S
      /\ H \in [TreeNodes -> Nat] /\ H[Nil] = 0
      /\ \A n \in S, s \in Sides :
           /\ t.child[s][n] \in S \cup {Nil} /\ t.child[s][n] \in TreeNodes
           /\ H[n] = H[t.child[s][n]] + Weight(t, n)
  BY <1>1, HeightIs
<1>3. /\ y \in S /\ y # z /\ y # Nil /\ y # t.root
      /\ x \in S \cup {Nil} /\ x # y /\ x # z
      /\ t.parent[y] \in S /\ t.parent[y] # y
      /\ (t.parent[y] = z <=> y = r)
  BY <1>1, SuccessorIs
<1>4. /\ t.root \in S /\ x # t.root
      /\ b \in Sides /\ q \in T
  <2>1. t.root \in S
    BY <1>1, HangsBelow
  <2>2. x # Nil => x # t.root
    BY <1>1, <1>3, SidesAre, ChildIs
  <2>3. b \in Sides
    BY DEF SideOf, Sides
  <2>4. q \in T
    BY <1>3
  <2> QED
    BY <1>2, <2>1, <2>2, <2>3, <2>4
<1>5. /\ \A n \in S, s \in Sides :
           t.child[s][n] = y => n = t.parent[y] /\ s = SideOf(t, t.parent[y], y)
      /\ t.child[SideOf(t, t.parent[y], y)][t.parent[y]] = y
  <2> HIDE DEF x, f, V, q, b, G
  <2>1. t.child[SideOf(t, t.parent[y], y)][t.parent[y]] = y
    BY <1>1, <1>3, HangsBelow
  <2>2. \A n \in S, s \in Sides :
           t.child[s][n] = y => n = t.parent[y] /\ s = SideOf(t, n, y)
    BY <1>1, <1>3, HangsBelow
  <2> QED
    BY <2>1, <2>2
<1>6. H[y] = Weight(t, y) /\ H[x] = 0
  <2>1. t.child["left"][y] = Nil /\ "left" \in Sides /\ "right" \in Sides
    BY SidesAre DEF Succeeds
  <2>2. H[y] = 0 + Weight(t, y)
    BY <1>2, <1>3, <2>1
  <2>3. Weight(t, y) \in {0, 1} /\ H[x] \in Nat
    BY <1>2, <1>3 DEF Weight
  <2>4. H[y] = H[x] + Weight(t, y)
    BY <1>2, <1>3, <2>1
  <2> HIDE DEF x
  <2> QED
    BY <2>2, <2>3, <2>4
<1>7. SearchTree(f, T, V)
  BY <1>1, SucceedKeepsTree
<1>8. Succeeded(t, S, f, z, y)
  BY <1>1, SucceededIs
<1>9. /\ G \in [TreeNodes -> Nat] /\ G[y] = H[z]
      /\ \A n \in S \cup {Nil} : n # y => G[n] = H[n]
  BY <1>2, <1>3
<1>10. \A c : Instead(t, z, y, c) = IF c = y THEN x ELSE IF c = z THEN y ELSE c
  BY DEF Instead
<1> HIDE DEF f, V, G
<1>11. /\ f.root = IF t.root = z THEN y ELSE t.root
       /\ \A s \in Sides, n \in T :
            f.child[s][n] =
              LET c == IF n = y THEN t.child[s][z] ELSE t.child[s][n]
              IN  IF c = y THEN x ELSE IF c = z THEN y ELSE c
       /\ f.parent[x] = q
       /\ \A n \in TreeNodes :
            f.color[n] = IF n = y THEN t.color[z] ELSE t.color[n]
  BY <1>8, <1>10 DEF Succeeded
(* Whose child c has made way, on which side.                              *)
<1>12. \A n \in T, s \in Sides :
         LET c == IF n = y THEN t.child[s][z] ELSE t.child[s][n]
         IN  c = y <=> n = q /\ s = b
  <2> SUFFICES ASSUME NEW n \in T, NEW s \in Sides
               PROVE  (IF n = y THEN t.child[s][z] ELSE t.child[s][n]) = y
                        <=> n = q /\ s = b
    OBVIOUS
  <2>1. CASE y = r
    <3>1. q = y /\ b = "right" /\ t.parent[y] = z
      BY <1>3, <2>1
    <3>2. SideOf(t, t.parent[y], y) = "right"
      BY <1>5, <2>1, <3>1, SidesAre
    <3> HIDE DEF q, b, x
    <3> QED
      BY <1>5, <2>1, <3>1, <3>2
  <2>2. CASE y # r
    <3>1. q = t.parent[y] /\ b = SideOf(t, t.parent[y], y) /\ q # z /\ q # y
      BY <1>3, <2>2
    <3> HIDE DEF q, b, x
    <3> QED
      BY <1>5, <2>2, <3>1
  <2> QED
    BY <2>1, <2>2
<1> HIDE DEF x, q, b
<1>13. ASSUME NEW n \in T, NEW s \in Sides
       PROVE  /\ ~(n = q /\ s = b) => G[n] = G[f.child[s][n]] + Weight(f, n)
              /\ n = q /\ s = b =>
                   G[n] = G[f.child[s][n]] + Weight(t, y) + Weight(f, n)
  <2> DEFINE m == IF n = y THEN z ELSE n
             c == t.child[s][m]
  <2>1. /\ m \in S /\ c \in S \cup {Nil} /\ H[m] = H[c] + Weight(t, m)
        /\ G[n] = H[m] /\ Weight(f, n) = Weight(t, m) /\ n \in TreeNodes
    BY <1>2, <1>9, <1>11 DEF Weight
  <2>2. /\ f.child[s][n] = IF c = y THEN x ELSE IF c = z THEN y ELSE c
        /\ c = y <=> n = q /\ s = b
    BY <1>11, <1>12
  <2>3. G[x] = 0 /\ G[y] = H[z] /\ H[y] = Weight(t, y)
    BY <1>3, <1>6, <1>9
  <2>4. Weight(t, y) \in {0, 1} /\ Weight(f, n) \in {0, 1} /\ H[c] \in Nat
    BY <1>2, <2>1 DEF Weight
  <2> HIDE DEF m, c
  <2>5. CASE c = y
    BY <2>1, <2>2, <2>3, <2>4, <2>5
  <2>6. CASE c = z
    BY <1>3, <2>1, <2>2, <2>3, <2>6
  <2>7. CASE c # y /\ c # z
    BY <1>9, <2>1, <2>2, <2>7
  <2> QED
    BY <2>5, <2>6, <2>7
<1>14. ASSUME NEW n \in S, NEW s \in Sides, t.color[n] = "red"
       PROVE  t.color[t.child[s][n]] = "black"
  <2>1. t.color[Nil] = "black"
    BY <1>1 DEF SearchTree
  <2> QED
    BY <1>1, <1>2, <1>14, <2>1 DEF RedRule
<1>15. ASSUME NEW n \in T, NEW s \in Sides, f.color[n] = "red"
       PROVE  f.child[s][n] # x => f.color[f.child[s][n]] = "black"
  <2> DEFINE m == IF n = y THEN z ELSE n
             c == t.child[s][m]
  <2>1. /\ m \in S /\ c \in S \cup {Nil} /\ t.color[m] = "red"
        /\ n \in TreeNodes /\ c \in TreeNodes
    BY <1>2, <1>11, <1>15
  <2>2. f.child[s][n] = IF c = y THEN x ELSE IF c = z THEN y ELSE c
    BY <1>11
  <2>3. t.color[c] = "black"
    BY <1>14, <2>1
  <2> HIDE DEF m, c
  <2> QED
    BY <1>2, <1>3, <1>11, <2>1, <2>2, <2>3
<1>16. f.color[f.root] = "black" /\ f.root # x
  BY <1>1, <1>2, <1>3, <1>4, <1>11
<1>17. G[Nil] = 0 /\ Nil \notin T
  BY <1>2, <1>3, <1>9
<1>18. ASSUME t.color[y] = "black"
       PROVE  OneShort(f, T, V, G, x, b)
  <2>1. Weight(t, y) = 1
    BY <1>18 DEF Weight
  <2>2. Heights(f, T, G, q, b)
    <3>1. ASSUME NEW n \in T, NEW s \in Sides
          PROVE  /\ ~(n = q /\ s = b) => G[n] = G[f.child[s][n]] + Weight(f, n)
                 /\ n = q /\ s = b => G[n] = G[f.child[s][n]] + 1 + Weight(f, n)
      BY <1>13, <2>1
    <3> QED
      BY <1>7, <1>9, <1>17, <3>1, HeightsFrom
  <2>3. RedRule(f, T, x, x)
    BY <1>15 DEF RedRule
  <2>4. x \in T \cup {Nil}
    BY <1>3
  <2>5. f.child[b][q] = x
    BY <1>4, <1>11, <1>12
  <2> QED
    BY <1>4, <1>7, <1>11, <1>16, <2>2, <2>3, <2>4, <2>5 DEF OneShort
<1>19. ASSUME t.color[y] # "black"
       PROVE  Balanced(f, T, V, G)
  <2>1. Weight(t, y) = 0 /\ t.color[y] = "red"
    BY <1>1, <1>2, <1>3, <1>19 DEF Weight, SearchTree, Trees
  <2>2. Heights(f, T, G, Nil, "left")
    <3>1. ASSUME NEW n \in T, NEW s \in Sides
          PROVE  G[n] = G[f.child[s][n]] + Weight(f, n)
      <4>1. G[f.child[s][n]] \in Nat /\ Weight(f, n) \in {0, 1}
        BY <1>2, <1>7, <1>9, NodeIs DEF Weight
      <4> QED
        BY <1>13, <2>1, <4>1
    <3> QED
      BY <1>7, <1>9, <1>17, <3>1, HeightsFrom
  <2>3. ASSUME NEW n \in T, NEW s \in Sides, f.color[n] = "red",
               f.child[s][n] = x
        PROVE  f.color[f.child[s][n]] = "black"
    <3> DEFINE m == IF n = y THEN z ELSE n
               c == t.child[s][m]
    <3>1. /\ m \in S /\ c \in S \cup {Nil} /\ t.color[m] = "red"
          /\ n \in TreeNodes /\ c \in TreeNodes /\ x \in TreeNodes
      BY <1>2, <1>3, <1>11, <2>3
    <3>2. x = IF c = y THEN x ELSE IF c = z THEN y ELSE c
      BY <1>11, <2>3
    <3>3. t.color[c] = "black"
      BY <1>14, <3>1
    <3> HIDE DEF m, c
    <3> QED
      BY <1>2, <1>3, <1>11, <2>1, <2>3, <3>1, <3>2, <3>3
  <2>4. RedRule(f, T, Nil, Nil)
    BY <1>15, <2>3 DEF RedRule
  <2> QED
    BY <1>7, <1>16, <2>2, <2>4 DEF Balanced
<1> QED
  BY <1>4, <1>9, <1>18, <1>19 DEF x, f, V

-----------------------------------------------------------------------------
(* The steps of the calls.                                                 *)

(* As in the modes without fork.  With several processes an insertion of   *)
(* one leaves the others with the root of before: each has a g_user_bst.   *)
OneProcess == \E p : Processes = {p}

LEMMA HereIs ==
  /\ Here.child = tree.child /\ Here.parent = tree.parent
  /\ Here.color = tree.color /\ Here.root = root[worker]
BY DEF Here, View

LEMMA HereIsTree ==
  ASSUME IndexTypes
  PROVE  Here \in Trees
<1>1. root[worker] \in TreeNodes
  BY DEF IndexTypes
<1> QED
  BY <1>1 DEF IndexTypes, Trees, Here, View

LEMMA TreesAre ==
  ASSUME NEW t \in Trees
  PROVE  /\ t.child \in [Sides -> [TreeNodes -> TreeNodes]]
         /\ t.parent \in [TreeNodes -> TreeNodes]
         /\ t.color \in [TreeNodes -> {"red", "black"}]
         /\ t.root \in TreeNodes
         /\ t = [child |-> t.child, parent |-> t.parent,
                 color |-> t.color, root |-> t.root]
BY DEF Trees

(* Only what is in S matters, and the sentinel.                            *)
LEMMA StaysBalanced ==
  ASSUME NEW t, NEW S, NEW U, NEW H, Balanced(t, S, U, H), NEW r \in Trees,
         r.root = t.root,
         \A s \in Sides, n \in S : r.child[s][n] = t.child[s][n],
         \A n \in S : r.parent[n] = t.parent[n] /\ r.color[n] = t.color[n],
         \A s \in Sides : r.child[s][Nil] = Nil,
         r.color[Nil] = "black"
  PROVE  Balanced(r, S, U, H)
<1>1. /\ SearchTree(t, S, U) /\ Heights(t, S, H, Nil, "left")
      /\ RedRule(t, S, Nil, Nil) /\ t.color[t.root] = "black"
      /\ t.root \in S \cup {Nil}
  BY DEF Balanced, SearchTree
<1>2. SearchTree(r, S, U)
  BY <1>1, SameOnUsers
<1>3. Heights(r, S, H, Nil, "left")
  BY <1>1 DEF Heights, Weight
<1>4. RedRule(r, S, Nil, Nil)
  <2>1. \A n \in S, s \in Sides : t.child[s][n] \in S \cup {Nil}
    BY <1>1 DEF SearchTree
  <2> QED
    BY <1>1, <2>1 DEF RedRule
<1>5. r.color[r.root] = "black"
  BY <1>1
<1> QED
  BY <1>2, <1>3, <1>4, <1>5 DEF Balanced

(* A step inside a call leaves t and goes on at x.                         *)
LEMMA StoreIs ==
  ASSUME IndexTypes, NEW t \in Trees, NEW s \in IndexStages,
         NEW x \in TreeNodes, Store(t), Proceed(s, x)
  PROVE  /\ Here' = t /\ IndexTypes' /\ stage' = s /\ at' = x
         /\ listed' = listed /\ user' = user
<1>1. /\ worker' = worker /\ stage' = s /\ at' = x /\ above' = Nil
      /\ listed' = listed /\ user' = user /\ loading' = loading
  BY DEF Proceed
<1>2. /\ tree' = [child |-> t.child, parent |-> t.parent, color |-> t.color]
      /\ tree'.child = t.child /\ tree'.parent = t.parent
      /\ tree'.color = t.color
  BY DEF Store
<1>3. root' \in [Processes -> TreeNodes] /\ root'[worker] = t.root
  <2>1. t.root \in TreeNodes /\ root \in [Processes -> TreeNodes]
        /\ worker \in Processes
    BY TreesAre DEF IndexTypes
  <2>2. CASE loading
    <3>1. root' = [q \in Processes |-> t.root]
      BY <2>2 DEF Store
    <3> QED
      BY <2>1, <3>1
  <2>3. CASE ~loading
    <3>1. root' = [root EXCEPT ![worker] = t.root]
      BY <2>3 DEF Store
    <3> QED
      BY <2>1, <3>1
  <2> QED
    BY <2>2, <2>3
<1>4. Here' = t
  <2>1. Here' = [child |-> tree'.child, parent |-> tree'.parent,
                 color |-> tree'.color, root |-> root'[worker']]
    BY DEF Here, View
  <2> QED
    BY <1>1, <1>2, <1>3, <2>1, TreesAre
<1>5. /\ tree' \in [child : [Sides -> [TreeNodes -> TreeNodes]],
                   parent : [TreeNodes -> TreeNodes],
                   color : [TreeNodes -> {"red", "black"}]]
      /\ root' \in [Processes -> TreeNodes]
      /\ listed' \in SUBSET Users /\ loading' \in BOOLEAN
      /\ stage' \in IndexStages /\ worker' \in Processes
      /\ user' \in TreeNodes /\ at' \in TreeNodes /\ above' \in TreeNodes
  BY <1>1, <1>2, <1>3, NodesAre, TreesAre DEF IndexTypes
<1>6. IndexTypes'
  BY <1>5 DEF IndexTypes
<1> QED
  BY <1>1, <1>4, <1>6

(* A step that only looks.                                                 *)
LEMMA LookIs ==
  ASSUME IndexTypes, NEW s \in IndexStages, NEW x \in TreeNodes,
         Proceed(s, x), UNCHANGED shape
  PROVE  /\ Here' = Here /\ IndexTypes' /\ stage' = s /\ at' = x
         /\ listed' = listed /\ user' = user
<1>1. /\ worker' = worker /\ stage' = s /\ at' = x /\ above' = Nil
      /\ listed' = listed /\ user' = user /\ loading' = loading
      /\ tree' = tree /\ root' = root
  BY DEF Proceed, shape
<1>2. Here' = Here
  BY <1>1 DEF Here, View
<1>3. /\ tree' \in [child : [Sides -> [TreeNodes -> TreeNodes]],
                   parent : [TreeNodes -> TreeNodes],
                   color : [TreeNodes -> {"red", "black"}]]
      /\ root' \in [Processes -> TreeNodes]
      /\ listed' \in SUBSET Users /\ loading' \in BOOLEAN
      /\ stage' \in IndexStages /\ worker' \in Processes
      /\ user' \in TreeNodes /\ at' \in TreeNodes /\ above' \in TreeNodes
  BY <1>1, NodesAre DEF IndexTypes
<1>4. IndexTypes'
  BY <1>3 DEF IndexTypes
<1> QED
  BY <1>1, <1>2, <1>4

(* The end of a call: what Tidy forgets is not in the tree.                *)
LEMMA FinishIs ==
  ASSUME IndexTypes, NEW t, NEW U, NEW H, Balanced(t, listed, U, H), Finish(t)
  PROVE  /\ Balanced(Here', listed', U, H)
         /\ IndexTypes' /\ stage' = "idle" /\ listed' = listed
<1>1. /\ worker' = worker /\ stage' = "idle" /\ at' = Nil /\ above' = Nil
      /\ listed' = listed /\ user' = Nil /\ loading' = loading
      /\ tree' = Tidy(t, root')
  BY DEF Finish
<1>2. SearchTree(t, listed, U) /\ t \in Trees /\ listed \subseteq Users
  BY DEF Balanced, SearchTree
<1>3. root' \in [Processes -> TreeNodes] /\ root'[worker] = t.root
  <2>1. t.root \in TreeNodes /\ root \in [Processes -> TreeNodes]
        /\ worker \in Processes
    BY <1>2, TreesAre DEF IndexTypes
  <2>2. CASE loading
    <3>1. root' = [q \in Processes |-> t.root]
      BY <2>2 DEF Finish
    <3> QED
      BY <2>1, <3>1
  <2>3. CASE ~loading
    <3>1. root' = [root EXCEPT ![worker] = t.root]
      BY <2>3 DEF Finish
    <3> QED
      BY <2>1, <3>1
  <2> QED
    BY <2>2, <2>3
<1> DEFINE old(n) == n = Nil \/ (n \notin listed /\ Loose(t, root', n))
           h == Here'
<1>4. /\ tree' = [child |-> h.child, parent |-> h.parent, color |-> h.color]
      /\ h.child = [s \in Sides |->
                      [n \in TreeNodes |-> IF old(n) THEN Nil
                                           ELSE t.child[s][n]]]
      /\ h.parent = [n \in TreeNodes |-> IF old(n) THEN Nil ELSE t.parent[n]]
      /\ h.color = [n \in TreeNodes |-> IF old(n) THEN "black"
                                        ELSE t.color[n]]
      /\ h.root = t.root
      /\ h = [child |-> h.child, parent |-> h.parent, color |-> h.color,
              root |-> h.root]
  BY <1>1, <1>3 DEF Here, View, Tidy
<1>5. old(Nil) /\ \A n \in listed : ~old(n) /\ n \in TreeNodes
  BY <1>2, NodesAre
<1> HIDE DEF old, h
<1>6. h \in Trees
  <2>1. /\ t.child \in [Sides -> [TreeNodes -> TreeNodes]]
        /\ t.parent \in [TreeNodes -> TreeNodes]
        /\ t.color \in [TreeNodes -> {"red", "black"}]
        /\ t.root \in TreeNodes /\ Nil \in TreeNodes
    BY <1>2, TreesAre, NodesAre
  <2>2. /\ h.child \in [Sides -> [TreeNodes -> TreeNodes]]
        /\ h.parent \in [TreeNodes -> TreeNodes]
        /\ h.color \in [TreeNodes -> {"red", "black"}]
        /\ h.root \in TreeNodes
    BY <1>4, <2>1
  <2> QED
    BY <1>4, <2>2 DEF Trees
<1>7. /\ \A s \in Sides, n \in listed : h.child[s][n] = t.child[s][n]
      /\ \A n \in listed : h.parent[n] = t.parent[n] /\ h.color[n] = t.color[n]
      /\ \A s \in Sides : h.child[s][Nil] = Nil
      /\ h.color[Nil] = "black"
  BY <1>4, <1>5, NodesAre
<1>12. Balanced(h, listed, U, H)
  BY <1>4, <1>6, <1>7, StaysBalanced
<1>13. /\ tree' \in [child : [Sides -> [TreeNodes -> TreeNodes]],
                   parent : [TreeNodes -> TreeNodes],
                   color : [TreeNodes -> {"red", "black"}]]
       /\ root' \in [Processes -> TreeNodes]
       /\ listed' \in SUBSET Users /\ loading' \in BOOLEAN
       /\ stage' \in IndexStages /\ worker' \in Processes
       /\ user' \in TreeNodes /\ at' \in TreeNodes /\ above' \in TreeNodes
  BY <1>1, <1>3, <1>4, <1>6, NodesAre, TreesAre DEF IndexTypes, IndexStages
<1>14. IndexTypes'
  BY <1>13 DEF IndexTypes
<1> QED
  BY <1>1, <1>12, <1>14 DEF h

(* What has to be shown where a step leads.                                *)
LEMMA ToIdle ==
  ASSUME NEW U, NEW H, IndexTypes', stage' = "idle",
         Balanced(Here', listed', U, H)
  PROVE  IndexInv'
<1>1. Indexed' = listed'
  BY DEF Indexed
<1>2. U \in [TreeNodes -> SUBSET Indexed'] /\ H \in [TreeNodes -> Nat]
  BY <1>1 DEF Balanced, SearchTree, Heights
<1>3. TreeInv(U, H, "left")'
  BY <1>1 DEF TreeInv
<1> QED
  BY <1>2, <1>3, SidesAre DEF IndexInv

LEMMA ToFixInsert ==
  ASSUME NEW U, NEW H, IndexTypes', stage' \in {"fixInsert", "turnInsert"},
         Inserted(Here', listed', U, H, at'),
         stage' = "turnInsert" => Outer(Here', at')
  PROVE  IndexInv'
<1>1. Indexed' = listed'
  BY DEF Indexed
<1>2. U \in [TreeNodes -> SUBSET Indexed'] /\ H \in [TreeNodes -> Nat]
  BY <1>1 DEF Inserted, SearchTree, Heights
<1>3. TreeInv(U, H, "left")'
  BY <1>1 DEF TreeInv
<1> QED
  BY <1>2, <1>3, SidesAre DEF IndexInv

LEMMA ToFixDelete ==
  ASSUME NEW U, NEW H, NEW a \in Sides, IndexTypes',
         stage' \in {"fixDelete", "sibling", "turnDelete"},
         OneShort(Here', listed', U, H, at', a),
         stage' # "fixDelete" => BlackSibling(Here', at', a),
         stage' = "turnDelete" => RedNephew(Here', at', a)
  PROVE  IndexInv'
<1>1. Indexed' = listed'
  BY DEF Indexed
<1>2. U \in [TreeNodes -> SUBSET Indexed'] /\ H \in [TreeNodes -> Nat]
  BY <1>1 DEF OneShort, SearchTree, Heights
<1>3. TreeInv(U, H, a)'
  BY <1>1 DEF TreeInv
<1> QED
  BY <1>2, <1>3 DEF IndexInv

-----------------------------------------------------------------------------
(* The inductive invariant, step by step.                                  *)

LEMMA IndexStarts == IndexInit => IndexInv
<1> SUFFICES ASSUME IndexInit PROVE IndexInv
  OBVIOUS
<1> DEFINE U == [n \in TreeNodes |-> {}]
           H == [n \in TreeNodes |-> 0]
<1>1. /\ tree = [child |-> [s \in Sides |-> [n \in TreeNodes |-> Nil]],
                 parent |-> [n \in TreeNodes |-> Nil],
                 color |-> [n \in TreeNodes |-> "black"]]
      /\ root = [p \in Processes |-> Nil] /\ worker \in Processes
      /\ listed = {} /\ loading = TRUE /\ stage = "idle"
      /\ user = Nil /\ at = Nil /\ above = Nil /\ Nil \in TreeNodes
  BY NodesAre DEF IndexInit
<1> DEFINE h == Here
<1>2. h = [child |-> [s \in Sides |-> [n \in TreeNodes |-> Nil]],
           parent |-> [n \in TreeNodes |-> Nil],
           color |-> [n \in TreeNodes |-> "black"], root |-> Nil]
  BY <1>1 DEF Here, View
<1> HIDE DEF h
<1>3. h \in Trees
  BY <1>1, <1>2 DEF Trees
<1>4. /\ U \in [TreeNodes -> SUBSET {}] /\ H \in [TreeNodes -> Nat]
      /\ U[Nil] = {} /\ H[Nil] = 0
  BY <1>1
<1>5. /\ h.root = Nil /\ h.color[Nil] = "black"
      /\ \A s \in Sides : h.child[s][Nil] = Nil
  BY <1>1, <1>2
<1> HIDE DEF U, H
<1>6. SearchTree(h, {}, U)
  BY <1>3, <1>4, <1>5 DEF SearchTree
<1>7. Balanced(h, {}, U, H)
  BY <1>4, <1>5, <1>6 DEF Balanced, Heights, RedRule
<1>8. IndexTypes
  BY <1>1 DEF IndexTypes, IndexStages
<1>9. Indexed = {} /\ "left" \in Sides
  BY <1>1, SidesAre DEF Indexed
<1>10. TreeInv(U, H, "left")
  BY <1>1, <1>7, <1>9 DEF TreeInv, h
<1> QED
  BY <1>4, <1>8, <1>9, <1>10 DEF IndexInv

LEMMA IndexedIs ==
  /\ stage = "idle" => Indexed = listed
  /\ stage = "descend" => Indexed = listed \ {user}
  /\ stage \in {"seek", "minimum"} => Indexed = listed \cup {user}
  /\ stage \in {"fixInsert", "turnInsert", "fixDelete", "sibling", "turnDelete"}
       => Indexed = listed
BY DEF Indexed

(* Between calls.                                                          *)
LEMMA IdleIs ==
  ASSUME IndexInv, stage = "idle"
  PROVE  /\ IndexTypes
         /\ \E U, H : Balanced(Here, listed, U, H)
<1>1. IndexTypes /\ \E U, H : \E a \in Sides : TreeInv(U, H, a)
  BY DEF IndexInv
<1> QED
  BY <1>1, IndexedIs DEF TreeInv

LEMMA ForkStep ==
  ASSUME IndexInv, Fork
  PROVE  IndexInv'
<1>1. /\ stage = "idle" /\ stage' = "idle" /\ loading' = FALSE
      /\ tree' = tree /\ root' = root /\ listed' = listed /\ worker' = worker
      /\ user' = user /\ at' = at /\ above' = above
  BY DEF Fork, shape, call
<1>2. Here' = Here
  BY <1>1 DEF Here, View
<1>3. IndexTypes
  BY <1>1, IdleIs
<1>4. PICK U, H : Balanced(Here, listed, U, H)
  BY <1>1, IdleIs
<1>5. IndexTypes'
  BY <1>1, <1>2, <1>3 DEF IndexTypes
<1>6. Balanced(Here', listed', U, H)
  BY <1>1, <1>2, <1>4
<1> QED
  BY <1>1, <1>5, <1>6, ToIdle

(* The node of a new user is prepared.                                     *)
LEMMA InsertStep ==
  ASSUME IndexInv, OneProcess, stage = "idle",
         NEW q \in Processes, NEW u \in Users, u \notin listed, Insert(q, u)
  PROVE  IndexInv'
<1>1. /\ listed' = listed \cup {u}
      /\ tree' = [tree EXCEPT !.child["left"][u] = Nil, !.child["right"][u] = Nil,
                              !.parent[u] = Nil, !.color[u] = "red"]
      /\ stage' = "descend" /\ worker' = q /\ user' = u
      /\ at' = root[q] /\ above' = Nil
      /\ root' = root /\ loading' = loading
  BY DEF Insert
<1>2. IndexTypes
  BY IdleIs
<1>3. PICK U, H : Balanced(Here, listed, U, H)
  BY IdleIs
<1>4. q = worker
  BY <1>2 DEF OneProcess, IndexTypes
<1> DEFINE t == Here
           h == Here'
<1>5. /\ t.child = tree.child /\ t.parent = tree.parent
      /\ t.color = tree.color /\ t.root = root[worker] /\ t \in Trees
  BY <1>2, HereIs, HereIsTree
<1>6. /\ h.child = tree'.child /\ h.parent = tree'.parent
      /\ h.color = tree'.color /\ h.root = root[worker]
  BY <1>1, <1>4 DEF Here, View
<1>7. u \in TreeNodes /\ u # Nil /\ Nil \in TreeNodes /\ listed \subseteq TreeNodes
      /\ Nil \notin listed
  BY <1>2, NodesAre DEF IndexTypes
<1>8. /\ tree' \in [child : [Sides -> [TreeNodes -> TreeNodes]],
                   parent : [TreeNodes -> TreeNodes],
                   color : [TreeNodes -> {"red", "black"}]]
  BY <1>1, <1>2, <1>7 DEF IndexTypes, Sides
<1>9. /\ \A s \in Sides, n \in TreeNodes :
           tree'.child[s][n] = IF n = u THEN Nil ELSE tree.child[s][n]
      /\ \A n \in TreeNodes :
           /\ tree'.parent[n] = IF n = u THEN Nil ELSE tree.parent[n]
           /\ tree'.color[n] = IF n = u THEN "red" ELSE tree.color[n]
  BY <1>1, <1>2, <1>7 DEF IndexTypes, Sides
<1>10. h \in Trees
  <2>1. h = [child |-> tree'.child, parent |-> tree'.parent,
             color |-> tree'.color, root |-> root[worker]]
    BY <1>1, <1>4 DEF Here, View
  <2>2. root[worker] \in TreeNodes
    BY <1>5, TreesAre
  <2> QED
    BY <1>8, <2>1, <2>2 DEF Trees
<1>11. t.child["left"][Nil] = Nil /\ t.child["right"][Nil] = Nil
       /\ t.color[Nil] = "black" /\ listed \subseteq Users
       /\ \A s \in Sides : t.child[s][Nil] = Nil
  BY <1>3, SidesAre DEF Balanced, SearchTree
<1> HIDE DEF t, h
<1>12. Balanced(h, listed, U, H)
  <2>1. Balanced(t, listed, U, H)
    BY <1>3 DEF t
  <2>2. /\ h.root = t.root
        /\ \A s \in Sides, n \in listed : h.child[s][n] = t.child[s][n]
        /\ \A n \in listed : h.parent[n] = t.parent[n] /\ h.color[n] = t.color[n]
        /\ \A s \in Sides : h.child[s][Nil] = Nil
        /\ h.color[Nil] = "black"
    BY <1>5, <1>6, <1>7, <1>9, <1>11
  <2> QED
    BY <1>10, <2>1, <2>2, StaysBalanced
<1>13. Indexed' = listed
  BY <1>1 DEF Indexed
<1>14. Descent(U)'
  <2>1. /\ user' \in listed' /\ above' = Nil /\ at' = h.root
        /\ \A s \in Sides : h.child[s][user'] = Nil
        /\ h.color[user'] = "red"
    BY <1>1, <1>4, <1>6, <1>7, <1>9
  <2> QED
    BY <2>1 DEF Descent, h
<1>15. IndexTypes'
  <2>1. /\ root' \in [Processes -> TreeNodes]
        /\ listed' \in SUBSET Users /\ loading' \in BOOLEAN
        /\ stage' \in IndexStages /\ worker' \in Processes
        /\ user' \in TreeNodes /\ at' \in TreeNodes /\ above' \in TreeNodes
    BY <1>1, <1>2, <1>7 DEF IndexTypes, IndexStages
  <2> QED
    BY <1>8, <2>1 DEF IndexTypes
<1>16. TreeInv(U, H, "left")'
  <2>1. Balanced(h, Indexed', U, H)
    BY <1>12, <1>13
  <2> QED
    BY <1>1, <1>14, <2>1 DEF TreeInv, h
<1>17. U \in [TreeNodes -> SUBSET Indexed'] /\ H \in [TreeNodes -> Nat]
  BY <1>12, <1>13 DEF Balanced, SearchTree, Heights
<1> QED
  BY <1>15, <1>16, <1>17, SidesAre DEF IndexInv

LEMMA LoadUserStep ==
  ASSUME IndexInv, OneProcess, NEW u \in Users, LoadUser(u)
  PROVE  IndexInv'
<1>1. stage = "idle" /\ u \notin listed /\ Insert(worker, u)
  BY DEF LoadUser
<1>2. worker \in Processes
  BY <1>1, IdleIs DEF IndexTypes
<1> QED
  BY <1>1, <1>2, InsertStep

LEMMA AddUserStep ==
  ASSUME IndexInv, OneProcess, NEW q \in Processes, NEW u \in Users,
         AddUser(q, u)
  PROVE  IndexInv'
BY InsertStep DEF AddUser

(* On the way down of an insertion.                                        *)
LEMMA DescendStep ==
  ASSUME IndexInv, Descend
  PROVE  IndexInv'
<1>1. /\ stage = "descend" /\ at # Nil /\ above' = at
      /\ at' = Here.child[Toward(at, user)][at]
      /\ tree' = tree /\ root' = root /\ listed' = listed /\ loading' = loading
      /\ stage' = stage /\ worker' = worker /\ user' = user
  BY DEF Descend, shape
<1>2. IndexTypes
  BY DEF IndexInv
<1>3. PICK U \in [TreeNodes -> SUBSET Indexed], H \in [TreeNodes -> Nat],
           a \in Sides : TreeInv(U, H, a)
  BY DEF IndexInv
<1> DEFINE t == Here
           S == Indexed
           d == Toward(at, user)
<1>4. Balanced(t, S, U, H) /\ Descent(U) /\ S = listed \ {user}
  BY <1>1, <1>3, IndexedIs DEF TreeInv
<1>5. t' = t /\ S' = S
  BY <1>1 DEF Here, View, Indexed
<1>6. SearchTree(t, S, U) /\ user \in listed /\ listed \subseteq Users
  BY <1>2, <1>4 DEF Balanced, Descent, IndexTypes
<1>7. /\ above = Nil => at = t.root
      /\ above # Nil => /\ above \in S
                        /\ at = t.child[Toward(above, user)][above]
                        /\ Leads(t, S, U, above, user)
  BY <1>4 DEF Descent
<1>8. Toward(above, user) \in Sides /\ d \in Sides
  BY DEF Toward, Sides
<1> HIDE DEF t, S, d
<1>9. at \in S
  BY <1>1, <1>6, <1>7, <1>8 DEF SearchTree
<1>10. Leads(t, S, U, at, user)
  <2> SUFFICES ASSUME NEW n \in S, NEW s \in Sides, at \in U[t.child[s][n]]
               PROVE  Toward(n, user) = s
    BY DEF Leads
  <2> DEFINE c == t.child[s][n]
  <2>1. /\ c \in S /\ U[c] \subseteq U[n] \ {n} /\ n \in U[n] /\ U[n] \subseteq S
    <3>1. c # Nil
      BY <1>6 DEF SearchTree
    <3> QED
      BY <1>6, <3>1, NodeIs
  <2>2. CASE above = Nil
    <3>1. U[at] = S
      BY <1>6, <1>7, <2>2 DEF SearchTree
    <3>2. U[at] \subseteq U[c]
      BY <1>6, <2>1, SubtreesNest
    <3> QED
      BY <2>1, <3>1, <3>2
  <2>3. CASE above # Nil /\ c = at
    <3>1. n = above /\ s = Toward(above, user)
      <4>1. at = t.child[Toward(above, user)][above] /\ above \in S
        BY <1>7, <2>3
      <4> QED
        BY <1>1, <1>6, <1>8, <2>3, <4>1, ChildIs
    <3> QED
      BY <3>1
  <2>4. CASE above # Nil /\ c # at
    <3>1. t.parent[at] \in U[c]
      BY <1>6, <2>1, <2>4, ParentsBelow
    <3>2. t.parent[at] = above
      BY <1>1, <1>6, <1>7, <1>8, <2>4 DEF SearchTree
    <3> QED
      BY <1>7, <2>4, <3>1, <3>2 DEF Leads
  <2> QED
    BY <2>2, <2>3, <2>4
<1>11. t.child[d][at] \in TreeNodes /\ at \in TreeNodes
  BY <1>6, <1>8, <1>9, NodeIs
<1>12. IndexTypes'
  <2>1. above' \in TreeNodes /\ at' \in TreeNodes
    BY <1>1, <1>11 DEF t, d
  <2> QED
    BY <1>1, <1>2, <2>1 DEF IndexTypes
<1>13. Descent(U)'
  <2>1. /\ user' \in listed' /\ above' # Nil /\ above' \in S'
        /\ at' = t'.child[Toward(above', user')][above']
        /\ Leads(t', S', U, above', user')
    BY <1>1, <1>5, <1>6, <1>9, <1>10 DEF t
  <2>2. /\ \A s \in Sides : t'.child[s][user'] = Nil
        /\ t'.color[user'] = "red"
    BY <1>1, <1>4, <1>5 DEF Descent, t
  <2> QED
    BY <2>1, <2>2 DEF Descent, t, S
<1>14. TreeInv(U, H, a)'
  <2>1. Balanced(t', S', U, H)
    BY <1>4, <1>5
  <2> QED
    BY <1>1, <1>13, <2>1 DEF TreeInv, t, S
<1>15. U \in [TreeNodes -> SUBSET S']
  BY <1>5 DEF S
<1> QED
  BY <1>12, <1>14, <1>15 DEF IndexInv, S

LEMMA AttachStep ==
  ASSUME IndexInv, Attach
  PROVE  IndexInv'
<1>1. /\ stage = "descend" /\ at = Nil
      /\ Store(Hang(Here, user, above)) /\ Proceed("fixInsert", user)
  BY DEF Attach
<1>2. IndexTypes
  BY DEF IndexInv
<1>3. PICK U, H : \E a \in Sides : TreeInv(U, H, a)
  BY DEF IndexInv
<1> DEFINE t == Here
           S == listed \ {user}
           r == Hang(t, user, above)
<1>4. Balanced(t, S, U, H) /\ Descent(U) /\ Indexed = S
  BY <1>1, <1>3, IndexedIs DEF TreeInv
<1> HIDE DEF t, S
<1>5. /\ user \in Users \ S /\ t.color[user] = "red" /\ S \cup {user} = listed
      /\ \A s \in Sides : t.child[s][user] = Nil
      /\ above \in S \cup {Nil} /\ (above = Nil => t.root = Nil)
      /\ above # Nil => /\ t.child[Toward(above, user)][above] = Nil
                        /\ Leads(t, S, U, above, user)
  BY <1>1, <1>2, <1>4 DEF Descent, IndexTypes, t, S
<1>6. PICK G \in [TreeNodes -> Nat] :
        Inserted(r, listed, With(S, U, user, above), G, user)
  BY <1>4, <1>5, AttachKeeps
<1> HIDE DEF r
<1>7. r \in Trees /\ "fixInsert" \in IndexStages /\ user \in TreeNodes
  BY <1>2, <1>6 DEF Inserted, SearchTree, IndexStages, IndexTypes
<1>8. Store(r)
  BY <1>1 DEF r, t
<1>9. /\ Here' = r /\ IndexTypes' /\ stage' = "fixInsert" /\ at' = user
      /\ listed' = listed
  BY <1>1, <1>2, <1>7, <1>8, StoreIs
<1>10. Inserted(Here', listed', With(S, U, user, above), G, at')
  BY <1>6, <1>9
<1> QED
  BY <1>9, <1>10, ToFixInsert

LEMMA DeleteUserStep ==
  ASSUME IndexInv, OneProcess, NEW q \in Processes, NEW u \in Users,
         DeleteUser(q, u)
  PROVE  IndexInv'
<1>1. /\ stage = "idle" /\ u \in listed /\ listed' = listed \ {u}
      /\ stage' = "seek" /\ worker' = q /\ user' = u
      /\ at' = root[q] /\ above' = Nil
      /\ tree' = tree /\ root' = root /\ loading' = loading
  BY DEF DeleteUser, shape
<1>2. IndexTypes
  BY <1>1, IdleIs
<1>3. PICK U, H : Balanced(Here, listed, U, H)
  BY <1>1, IdleIs
<1>4. q = worker
  BY <1>2 DEF OneProcess, IndexTypes
<1>5. Here' = Here /\ Here.root = root[q]
  BY <1>1, <1>4 DEF Here, View
<1>6. Indexed' = listed
  BY <1>1 DEF Indexed
<1>7. /\ SearchTree(Here, listed, U) /\ H \in [TreeNodes -> Nat]
      /\ U \in [TreeNodes -> SUBSET listed] /\ U[root[q]] = listed
      /\ root[q] \in listed \cup {Nil} /\ U[Nil] = {}
  BY <1>3, <1>5 DEF Balanced, SearchTree, Heights
<1>8. /\ at' \in listed /\ user' \in U[at'] /\ user' \in Users \ listed'
  BY <1>1, <1>2, <1>7 DEF IndexTypes
<1>9. IndexTypes'
  <2>1. /\ stage' \in IndexStages /\ user' \in TreeNodes /\ at' \in TreeNodes
        /\ above' \in TreeNodes /\ listed' \in SUBSET Users
    BY <1>1, <1>2, <1>8, NodesAre DEF IndexTypes, IndexStages
  <2> QED
    BY <1>1, <1>2, <2>1 DEF IndexTypes
<1>10. TreeInv(U, H, "left")'
  <2>1. Balanced(Here', Indexed', U, H)
    BY <1>3, <1>5, <1>6
  <2> QED
    BY <1>1, <1>6, <1>8, <2>1 DEF TreeInv
<1> QED
  BY <1>6, <1>7, <1>9, <1>10, SidesAre DEF IndexInv

(* The state of a deletion that looks for somebody.                        *)
LEMMA SeekIs ==
  ASSUME IndexInv, stage \in {"seek", "minimum"}
  PROVE  /\ IndexTypes
         /\ \E U, H : /\ Balanced(Here, Indexed, U, H)
                      /\ stage = "seek" => at \in Indexed /\ user \in U[at]
                      /\ stage = "minimum" => Successor(U)
         /\ user \in Users \ listed /\ Indexed = listed \cup {user}
         /\ user \in Indexed /\ Indexed \ {user} = listed
<1>1. IndexTypes /\ \E U, H : \E a \in Sides : TreeInv(U, H, a)
  BY DEF IndexInv
<1>2. user \in Users \ listed /\ Indexed = listed \cup {user}
  BY <1>1, IndexedIs DEF TreeInv
<1>3. \E U, H : /\ Balanced(Here, Indexed, U, H)
                /\ stage = "seek" => at \in Indexed /\ user \in U[at]
                /\ stage = "minimum" => Successor(U)
  BY <1>1 DEF TreeInv
<1> QED
  BY <1>1, <1>2, <1>3

(* A step that looks on.                                                   *)
LEMMA ToSeek ==
  ASSUME IndexTypes', NEW U, NEW H, stage' \in {"seek", "minimum"},
         Balanced(Here', Indexed', U, H),
         stage' = "seek" => at' \in Indexed' /\ user' \in U[at'],
         stage' = "minimum" => Successor(U)',
         user' \in Users \ listed'
  PROVE  IndexInv'
<1>1. U \in [TreeNodes -> SUBSET Indexed'] /\ H \in [TreeNodes -> Nat]
  BY DEF Balanced, SearchTree, Heights
<1>2. TreeInv(U, H, "left")'
  BY DEF TreeInv
<1> QED
  BY <1>1, <1>2, SidesAre DEF IndexInv

LEMMA SeekStep ==
  ASSUME IndexInv, Seek
  PROVE  IndexInv'
<1>1. stage = "seek" /\ at # user
  BY DEF Seek
<1>2. /\ IndexTypes /\ user \in Users \ listed /\ Indexed = listed \cup {user}
  BY <1>1, SeekIs
<1>3. PICK U, H : /\ Balanced(Here, Indexed, U, H)
                  /\ at \in Indexed /\ user \in U[at]
  BY <1>1, SeekIs
<1> DEFINE d == Toward(at, user)
           c == Here.child[d][at]
<1>4. SearchTree(Here, Indexed, U) /\ d \in Sides /\ Other(d) \in Sides
      /\ Other(d) # d
  BY <1>3, SidesAre DEF Balanced, Toward, Sides
<1>5. /\ c \in Indexed \cup {Nil} /\ c \in TreeNodes
      /\ U[at] = {at} \cup U[c] \cup U[Here.child[Other(d)][at]]
      /\ at # Nil
  BY <1>3, <1>4, NodeIs
<1>6. user \in U[c] /\ c \in Indexed
  <2>1. \A m \in U[Here.child[Other(d)][at]] : Toward(at, m) = Other(d)
    BY <1>3, <1>4, NodeIs
  <2>2. U[Nil] = {}
    BY <1>4 DEF SearchTree
  <2> HIDE DEF c
  <2>3. user \notin U[Here.child[Other(d)][at]]
    BY <1>4, <2>1
  <2> QED
    BY <1>1, <1>3, <1>5, <2>2, <2>3
<1>7. Proceed("seek", c) /\ UNCHANGED shape
  <2>1. tree.child[d][at] = c
    BY HereIs
  <2> HIDE DEF c, d
  <2> QED
    BY <1>5, <2>1 DEF Seek, d
<1> HIDE DEF c
<1>8. /\ Here' = Here /\ IndexTypes' /\ stage' = "seek" /\ at' = c
      /\ listed' = listed /\ user' = user
  BY <1>2, <1>5, <1>7, LookIs DEF IndexStages
<1>9. Indexed' = Indexed
  BY <1>2, <1>8, IndexedIs DEF Indexed
<1> QED
  BY <1>2, <1>3, <1>6, <1>8, <1>9, ToSeek

(* After a removal.                                                        *)
LEMMA AfterRemovalStep ==
  ASSUME IndexTypes, NEW t, NEW x \in TreeNodes, NEW gone, NEW V,
         AfterRemoval(t, x, gone),
         gone = "black" =>
           \E G : \E b \in Sides : OneShort(t, listed, V, G, x, b),
         gone # "black" => \E G : Balanced(t, listed, V, G)
  PROVE  IndexInv'
<1>1. CASE gone = "black"
  <2>1. PICK G : \E b \in Sides : OneShort(t, listed, V, G, x, b)
    BY <1>1
  <2>5. PICK b \in Sides : OneShort(t, listed, V, G, x, b)
    BY <2>1
  <2>2. t \in Trees /\ Store(t) /\ Proceed("fixDelete", x)
        /\ "fixDelete" \in IndexStages
    BY <1>1, <2>5 DEF OneShort, SearchTree, AfterRemoval, IndexStages
  <2>3. /\ Here' = t /\ IndexTypes' /\ stage' = "fixDelete" /\ at' = x
        /\ listed' = listed
    BY <2>2, StoreIs
  <2>4. OneShort(Here', listed', V, G, at', b)
    BY <2>5, <2>3
  <2> QED
    BY <2>3, <2>4, ToFixDelete
<1>2. CASE gone # "black"
  <2>1. PICK G : Balanced(t, listed, V, G)
    BY <1>2
  <2>2. Finish(t)
    BY <1>2 DEF AfterRemoval
  <2>3. /\ Balanced(Here', listed', V, G)
        /\ IndexTypes' /\ stage' = "idle"
    BY <2>1, <2>2, FinishIs
  <2> QED
    BY <2>3, ToIdle
<1> QED
  BY <1>1, <1>2

LEMMA RemoveStep ==
  ASSUME IndexInv, Remove
  PROVE  IndexInv'
<1>1. stage = "seek"
  BY DEF Remove
<1>2. /\ IndexTypes /\ user \in Indexed /\ Indexed \ {user} = listed
      /\ user \in TreeNodes
  BY <1>1, SeekIs DEF IndexTypes
<1>3. PICK U, H : Balanced(Here, Indexed, U, H)
  BY <1>1, SeekIs
<1>4. PICK side \in Sides : /\ Here.child[Other(side)][user] = Nil
                            /\ RemoveAt(side)
  <2>1. \/ Lacks("left") /\ RemoveAt("right")
        \/ Lacks("right") /\ RemoveAt("left")
    BY DEF Remove
  <2>2. \A s \in Sides : Lacks(s) <=> Here.child[s][user] = Nil
    BY HereIs DEF Lacks
  <2> QED
    BY <2>1, <2>2, SidesAre
<1> DEFINE x == Here.child[side][user]
           r == Transplant(Here, user, x)
           V == Without(U, user)
<1>5. x \in TreeNodes
  BY <1>2, HereIsTree, TreesAre
<1>6. /\ Here.color[user] = "black" =>
           \E b \in Sides : OneShort(r, listed, V, H, x, b)
      /\ Here.color[user] # "black" => Balanced(r, listed, V, H)
  BY <1>2, <1>3, <1>4, RemoveKeeps
<1>7. AfterRemoval(r, x, Here.color[user])
  BY <1>4, HereIs DEF RemoveAt
<1> HIDE DEF x, r, V
<1> QED
  BY <1>2, <1>5, <1>6, <1>7, AfterRemovalStep

LEMMA FindSuccessorStep ==
  ASSUME IndexInv, FindSuccessor
  PROVE  IndexInv'
<1> DEFINE r == Here.child["right"][user]
<1>1. /\ stage = "seek" /\ Proceed("minimum", r) /\ UNCHANGED shape
      /\ \A s \in Sides : Here.child[s][user] # Nil
  BY HereIs, SidesAre DEF FindSuccessor, Lacks
<1>2. /\ IndexTypes /\ user \in Users \ listed /\ Indexed = listed \cup {user}
      /\ user \in Indexed
  BY <1>1, SeekIs
<1>3. PICK U, H : Balanced(Here, Indexed, U, H)
  BY <1>1, SeekIs
<1>4. r \in TreeNodes /\ r \in U[r]
  BY <1>1, <1>2, <1>3, NodeIs, SidesAre DEF Balanced
<1>5. /\ Here' = Here /\ IndexTypes' /\ stage' = "minimum" /\ at' = r
      /\ listed' = listed /\ user' = user
  BY <1>1, <1>2, <1>4, LookIs DEF IndexStages
<1>6. Indexed' = Indexed
  BY <1>2, <1>5, IndexedIs DEF Indexed
<1>7. Successor(U)'
  BY <1>1, <1>4, <1>5 DEF Successor
<1> QED
  BY <1>2, <1>3, <1>5, <1>6, <1>7, ToSeek

LEMMA MinimumStep ==
  ASSUME IndexInv, Minimum
  PROVE  IndexInv'
<1> DEFINE r == Here.child["right"][user]
           c == Here.child["left"][at]
<1>1. /\ stage = "minimum" /\ Proceed("minimum", c) /\ UNCHANGED shape
      /\ c # Nil
  BY HereIs DEF Minimum
<1>2. /\ IndexTypes /\ user \in Users \ listed /\ Indexed = listed \cup {user}
      /\ user \in Indexed
  BY <1>1, SeekIs
<1>3. PICK U, H : Balanced(Here, Indexed, U, H) /\ Successor(U)
  BY <1>1, SeekIs
<1>4. /\ SearchTree(Here, Indexed, U)
      /\ \A s \in Sides : Here.child[s][user] # Nil
      /\ at \in U[r]
      /\ \A n \in U[r], m \in U[at] : n \in U[at] \/ Toward(n, m) = "left"
  BY <1>3 DEF Balanced, Successor
<1>5. r \in Indexed /\ U[r] \subseteq Indexed /\ at \in Indexed /\ U[at] \subseteq U[r]
  <2>1. r \in Indexed
    BY <1>2, <1>4, NodeIs, SidesAre
  <2>2. U[r] \subseteq Indexed
    BY <1>4, <2>1, NodeIs, SidesAre
  <2>3. U[at] \subseteq U[r]
    BY <1>4, <2>1, SubtreesNest
  <2> QED
    BY <1>4, <2>1, <2>2, <2>3
<1> DEFINE d == Here.child["right"][at]
<1>6. /\ c \in TreeNodes /\ c \in U[c] /\ U[at] = {at} \cup U[c] \cup U[d]
      /\ \A m \in U[c] : m # at /\ Toward(at, m) = "left"
      /\ \A m \in U[d] : m # at /\ Toward(at, m) = "right"
  <2>1. /\ c \in TreeNodes /\ c \in U[c]
        /\ U[at] = {at} \cup U[c] \cup U[Here.child[Other("left")][at]]
        /\ \A m \in U[c] : m # at /\ Toward(at, m) = "left"
    BY <1>1, <1>4, <1>5, NodeIs, SidesAre
  <2>2. \A m \in U[d] : m # at /\ Toward(at, m) = "right"
    BY <1>4, <1>5, NodeIs, SidesAre
  <2> QED
    BY <2>1, <2>2, SidesAre
<1> HIDE DEF r, c, d
<1>7. Indexed \subseteq Users
  BY <1>4 DEF SearchTree
<1>8. ASSUME NEW n \in U[r], NEW m \in U[c], n \notin U[c]
      PROVE  Toward(n, m) = "left"
  <2>1. CASE n \notin U[at]
    BY <1>4, <1>6, <2>1
  <2>2. CASE n = at
    BY <1>6, <2>2
  <2>3. CASE n \in U[d]
    <3>1. n \in Users /\ m \in Users /\ at \in Users
      BY <1>5, <1>6, <1>7
    <3> QED
      BY <1>6, <2>3, <3>1, TowardGoesOn, SidesAre
  <2> QED
    BY <1>6, <1>8, <2>1, <2>2, <2>3
<1>9. /\ Here' = Here /\ IndexTypes' /\ stage' = "minimum" /\ at' = c
      /\ listed' = listed /\ user' = user
  BY <1>1, <1>2, <1>6, LookIs DEF IndexStages
<1>10. Indexed' = Indexed
  BY <1>2, <1>9, IndexedIs DEF Indexed
<1>11. c \in U[r]
  BY <1>5, <1>6
<1>12. Successor(U)'
  BY <1>4, <1>8, <1>9, <1>11 DEF Successor, r
<1> QED
  BY <1>2, <1>3, <1>9, <1>10, <1>12, ToSeek

LEMMA RemoveInnerStep ==
  ASSUME IndexInv, RemoveInner
  PROVE  IndexInv'
<1> DEFINE r == Here.child["right"][user]
           x == Here.child["right"][at]
           f == Succeed(Here, user, at)
<1>1. /\ stage = "minimum" /\ Here.child["left"][at] = Nil
      /\ AfterRemoval(f, x, Here.color[at])
  BY HereIs DEF RemoveInner
<1>2. /\ IndexTypes /\ user \in Indexed /\ Indexed \ {user} = listed
      /\ at \in TreeNodes
  BY <1>1, SeekIs DEF IndexTypes
<1>3. PICK U, H : Balanced(Here, Indexed, U, H) /\ Successor(U)
  BY <1>1, SeekIs
<1>4. /\ SearchTree(Here, Indexed, U)
      /\ \A s \in Sides : Here.child[s][user] # Nil
      /\ at \in U[r]
      /\ \A n \in U[r], m \in U[at] : n \in U[at] \/ Toward(n, m) = "left"
  BY <1>3 DEF Balanced, Successor
<1>5. Succeeds(Here, Indexed, U, user, at)
  BY <1>1, <1>4 DEF Succeeds
<1>6. r \in Indexed /\ U[r] \subseteq Indexed /\ at \in Indexed
      /\ Indexed \subseteq Users /\ at \in U[at]
  <2>1. r \in Indexed
    BY <1>2, <1>4, NodeIs, SidesAre
  <2>2. U[r] \subseteq Indexed
    BY <1>4, <2>1, NodeIs, SidesAre
  <2>3. at \in U[at]
    BY <1>4, <2>2, NodeIs, SidesAre
  <2> QED
    BY <1>4, <2>1, <2>2, <2>3 DEF SearchTree
<1>7. \A m \in U[r] \ {at} : Toward(at, m) = "right"
  <2> SUFFICES ASSUME NEW m \in U[r] \ {at} PROVE Toward(at, m) = "right"
    OBVIOUS
  <2>1. CASE m \in U[at]
    <3>1. /\ U[at] = {at} \cup U[x] \cup U[Here.child[Other("right")][at]]
          /\ \A n \in U[x] : Toward(at, n) = "right"
      BY <1>4, <1>6, NodeIs, SidesAre
    <3>2. U[Nil] = {} /\ Here.child[Other("right")][at] = Nil
      BY <1>1, <1>4, SidesAre DEF SearchTree
    <3> QED
      BY <2>1, <3>1, <3>2
  <2>2. CASE m \notin U[at]
    <3>1. Toward(m, at) = "left"
      BY <1>4, <1>6, <2>2
    <3>2. m \in Users /\ at \in Users /\ m # at
      BY <1>6
    <3> QED
      BY <3>1, <3>2, TowardIs, SidesAre
  <2> QED
    BY <2>1, <2>2
<1>8. x \in TreeNodes
  BY <1>2, HereIsTree, TreesAre, SidesAre
<1> DEFINE V == Replaced(U, user, at)
<1>9. /\ Here.color[at] = "black" =>
           \E G \in [TreeNodes -> Nat], b \in Sides :
             OneShort(f, listed, V, G, x, b)
      /\ Here.color[at] # "black" =>
           \E G \in [TreeNodes -> Nat] : Balanced(f, listed, V, G)
  BY <1>2, <1>3, <1>5, <1>7, RemoveInnerKeeps
<1> HIDE DEF x, f, V
<1> QED
  BY <1>1, <1>2, <1>8, <1>9, AfterRemovalStep

(* The state of the fix-up of an insertion.                                *)
LEMMA FixInsertIs ==
  ASSUME IndexInv, stage \in {"fixInsert", "turnInsert"}
  PROVE  /\ IndexTypes
         /\ \E U, H : Inserted(Here, listed, U, H, at)
         /\ stage = "turnInsert" => Outer(Here, at)
<1>1. IndexTypes /\ \E U, H : \E a \in Sides : TreeInv(U, H, a)
  BY DEF IndexInv
<1> QED
  BY <1>1 DEF TreeInv

(* An insertion goes on.                                                   *)
LEMMA FixInsertGoesOn ==
  ASSUME IndexTypes, NEW t, NEW V, NEW G, NEW x,
         NEW s \in {"fixInsert", "turnInsert"},
         Inserted(t, listed, V, G, x), s = "turnInsert" => Outer(t, x),
         Store(t), Proceed(s, x)
  PROVE  IndexInv'
<1>1. t \in Trees /\ x \in TreeNodes /\ s \in IndexStages
  <2>1. t \in Trees /\ x \in listed /\ listed \subseteq TreeNodes
    BY NodesAre DEF Inserted, SearchTree
  <2> QED
    BY <2>1 DEF IndexStages
<1>2. /\ Here' = t /\ IndexTypes' /\ stage' = s /\ at' = x
      /\ listed' = listed
  BY <1>1, StoreIs
<1>3. /\ Inserted(Here', listed', V, G, at')
      /\ stage' = "turnInsert" => Outer(Here', at')
  BY <1>2
<1> QED
  BY <1>2, <1>3, ToFixInsert

(* The names of the code for the nodes around z.                           *)
LEMMA AroundZ ==
  /\ Zp = Here.parent[at] /\ Zpp = Here.parent[Zp]
  /\ ZpSide = SideOf(Here, Zpp, Zp)
  /\ Uncle = Here.child[Other(ZpSide)][Zpp]
BY HereIs DEF Zp, Zpp, ZpSide, Uncle

LEMMA RecolourStep ==
  ASSUME IndexInv, Recolour
  PROVE  IndexInv'
<1> DEFINE r == Paint(Paint(Here, {Zp, Uncle}, "black"), {Zpp}, "red")
<1>1. /\ stage = "fixInsert" /\ Here.color[Zp] = "red"
      /\ Here.color[Uncle] = "red" /\ Store(r) /\ Proceed("fixInsert", Zpp)
  BY HereIs DEF Recolour
<1>2. IndexTypes
  BY <1>1, FixInsertIs
<1>3. PICK U, H : Inserted(Here, listed, U, H, at)
  BY <1>1, FixInsertIs
<1>4. \E G \in [TreeNodes -> Nat] : Inserted(r, listed, U, G, Zpp)
  <2> DEFINE p == Here.parent[at]
             g == Here.parent[p]
             u == Here.child[Other(SideOf(Here, g, p))][g]
  <2>1. Zp = p /\ Zpp = g /\ Uncle = u
    BY AroundZ
  <2>2. Here.color[p] = "red" /\ Here.color[u] = "red"
    <3> HIDE DEF p, g, u, r
    <3> QED
      BY <1>1, <2>1
  <2>3. \E G \in [TreeNodes -> Nat] :
          Inserted(Paint(Paint(Here, {p, u}, "black"), {g}, "red"),
                   listed, U, G, g)
    BY <1>3, <2>2, RecolourKeeps
  <2> HIDE DEF p, g, u
  <2> QED
    BY <2>1, <2>3
<1> HIDE DEF r
<1> QED
  BY <1>1, <1>2, <1>4, FixInsertGoesOn

LEMMA TurnParentStep ==
  ASSUME IndexInv, TurnParent
  PROVE  IndexInv'
<1> DEFINE r == Rotate(Here, Zp, ZpSide)
<1>1. /\ stage = "fixInsert" /\ Here.color[Zp] = "red"
      /\ Here.color[Uncle] # "red" /\ at = Here.child[Other(ZpSide)][Zp]
      /\ Store(r) /\ Proceed("turnInsert", Zp)
  BY HereIs DEF TurnParent
<1>2. IndexTypes
  BY <1>1, FixInsertIs
<1>3. PICK U, H : Inserted(Here, listed, U, H, at)
  BY <1>1, FixInsertIs
<1> DEFINE V == Turned(Here, U, Zp, ZpSide)
<1>4. Inserted(r, listed, V, H, Zp) /\ Outer(r, Zp)
  <2> DEFINE p == Here.parent[at]
             g == Here.parent[p]
             b == SideOf(Here, g, p)
             u == Here.child[Other(b)][g]
             e == Rotate(Here, p, b)
  <2>1. Zp = p /\ Zpp = g /\ ZpSide = b /\ Uncle = u
    BY AroundZ
  <2>2. /\ Here.color[p] = "red" /\ Here.color[u] # "red"
        /\ at = Here.child[Other(b)][p]
    <3> HIDE DEF p, g, b, u, r
    <3> QED
      BY <1>1, <2>1
  <2>3. Inserted(e, listed, Turned(Here, U, p, b), H, p) /\ Outer(e, p)
    BY <1>3, <2>2, TurnParentKeeps, Zenon
  <2> HIDE DEF p, g, b, u
  <2> QED
    BY <2>1, <2>3
<1> HIDE DEF r, V
<1> QED
  BY <1>1, <1>2, <1>4, FixInsertGoesOn

LEMMA TurnGrandparentStep ==
  ASSUME IndexInv, TurnGrandparent
  PROVE  IndexInv'
<1> DEFINE v == Paint(Paint(Here, {Zp}, "black"), {Zpp}, "red")
           r == Rotate(v, Zpp, Other(ZpSide))
<1>1. /\ stage \in {"fixInsert", "turnInsert"}
      /\ stage = "fixInsert" => /\ Here.color[Zp] = "red"
                                /\ Here.color[Uncle] # "red"
                                /\ at # Here.child[Other(ZpSide)][Zp]
      /\ Store(r) /\ Proceed("fixInsert", at)
  BY HereIs DEF TurnGrandparent
<1>2. IndexTypes /\ (stage = "turnInsert" => Outer(Here, at))
  BY <1>1, FixInsertIs
<1>3. PICK U, H : Inserted(Here, listed, U, H, at)
  BY <1>1, FixInsertIs
<1>4. Outer(Here, at)
  <2> SUFFICES ASSUME stage = "fixInsert" PROVE Outer(Here, at)
    BY <1>1, <1>2
  <2> DEFINE b == SideOf(Here, Zp, at)
  <2>1. /\ Zp \in listed /\ Zpp \in listed /\ Uncle \in listed \cup {Nil}
        /\ ZpSide \in Sides /\ b \in Sides /\ Here.child[b][Zp] = at
    <3> DEFINE p == Here.parent[at]
               g == Here.parent[p]
               a == SideOf(Here, g, p)
               c == SideOf(Here, p, at)
               u == Here.child[Other(a)][g]
    <3>1. Zp = p /\ Zpp = g /\ ZpSide = a /\ Uncle = u /\ b = c
      BY AroundZ
    <3>2. /\ p = Here.parent[at] /\ g = Here.parent[p] /\ a = SideOf(Here, g, p)
          /\ c = SideOf(Here, p, at) /\ u = Here.child[Other(a)][g]
      OBVIOUS
    <3> HIDE DEF p, g, a, b, c, u
    <3>3. Here.color[p] = "red"
      BY <1>1, <3>1
    <3>4. /\ p \in listed /\ g \in listed /\ u \in listed \cup {Nil}
          /\ a \in Sides /\ c \in Sides /\ Here.child[c][p] = at
      BY <1>3, <3>2, <3>3, RedParentIs
    <3> QED
      BY <3>1, <3>4
  <2>2. Here.color \in [TreeNodes -> {"red", "black"}] /\ Uncle \in TreeNodes
    BY <1>2, <2>1, HereIsTree, TreesAre, NodesAre DEF IndexTypes
  <2>3. Here.color[Uncle] = "black"
    BY <1>1, <2>2
  <2>4. b = ZpSide
    <3> HIDE DEF b
    <3> QED
      BY <1>1, <2>1, OtherSide
  <2> HIDE DEF b
  <2> QED
    BY <1>1, <2>1, <2>3, <2>4, AroundZ DEF Outer
<1>5. \E G \in [TreeNodes -> Nat] :
        Inserted(r, listed, Turned(v, U, Zpp, Other(ZpSide)), G, at)
  BY <1>3, <1>4, AroundZ, TurnGrandparentKeeps
<1> HIDE DEF r, v
<1> QED
  BY <1>1, <1>2, <1>5, FixInsertGoesOn

LEMMA InsertDoneStep ==
  ASSUME IndexInv, InsertDone
  PROVE  IndexInv'
<1> DEFINE r == Paint(Here, {Here.root}, "black")
<1>1. stage = "fixInsert" /\ Here.color[Here.parent[at]] # "red" /\ Finish(r)
  BY HereIs DEF InsertDone, Zp
<1>2. IndexTypes
  BY <1>1, FixInsertIs
<1>3. PICK U, H : Inserted(Here, listed, U, H, at)
  BY <1>1, FixInsertIs
<1>4. PICK G \in [TreeNodes -> Nat] : Balanced(r, listed, U, G)
  BY <1>1, <1>3, InsertDoneKeeps
<1> HIDE DEF r
<1>5. /\ Balanced(Here', listed', U, G)
      /\ IndexTypes' /\ stage' = "idle"
  BY <1>1, <1>2, <1>4, FinishIs
<1> QED
  BY <1>5, ToIdle

(* The state of the fix-up of a deletion.                                  *)
LEMMA FixDeleteIs ==
  ASSUME IndexInv, stage \in {"fixDelete", "sibling", "turnDelete"}
  PROVE  /\ IndexTypes
         /\ \E U, H : \E a \in Sides :
              /\ OneShort(Here, listed, U, H, at, a)
              /\ stage # "fixDelete" => BlackSibling(Here, at, a)
              /\ stage = "turnDelete" => RedNephew(Here, at, a)
<1>1. IndexTypes /\ \E U, H : \E a \in Sides : TreeInv(U, H, a)
  BY DEF IndexInv
<1> QED
  BY <1>1 DEF TreeInv

(* A deletion goes on.                                                     *)
LEMMA FixDeleteGoesOn ==
  ASSUME IndexTypes, NEW t, NEW V, NEW G, NEW x, NEW a \in Sides,
         NEW s \in {"fixDelete", "sibling", "turnDelete"},
         OneShort(t, listed, V, G, x, a),
         s # "fixDelete" => BlackSibling(t, x, a),
         s = "turnDelete" => RedNephew(t, x, a),
         Store(t), Proceed(s, x)
  PROVE  IndexInv'
<1>1. t \in Trees /\ x \in TreeNodes /\ s \in IndexStages
  <2>1. t \in Trees /\ x \in listed \cup {Nil} /\ listed \subseteq TreeNodes
    BY NodesAre DEF OneShort, SearchTree
  <2> QED
    BY <2>1, NodesAre DEF IndexStages
<1>2. /\ Here' = t /\ IndexTypes' /\ stage' = s /\ at' = x
      /\ listed' = listed
  BY <1>1, StoreIs
<1>3. /\ OneShort(Here', listed', V, G, at', a)
      /\ stage' # "fixDelete" => BlackSibling(Here', at', a)
      /\ stage' = "turnDelete" => RedNephew(Here', at', a)
  BY <1>2
<1> QED
  BY <1>2, <1>3, ToFixDelete

(* The names of the code for the nodes around x.                           *)
LEMMA AroundX ==
  ASSUME NEW U, NEW H, NEW a \in Sides,
         OneShort(Here, listed, U, H, at, a),
         Here.root # at, Here.color[at] = "black"
  PROVE  /\ Xp = Here.parent[at] /\ XSide = a
         /\ W = Here.child[Other(a)][Xp]
         /\ Near = Here.child[a][W] /\ Far = Here.child[Other(a)][W]
         /\ W \in listed /\ Xp \in listed
<1>1. Xp = Here.parent[at] /\ XSide = SideOf(Here, Xp, at)
  BY HereIs DEF Xp, XSide
<1>2. SideOf(Here, Xp, at) = a
  BY <1>1, ShortIs
<1>3. W = Here.child[Other(a)][Xp]
  BY <1>1, <1>2, HereIs DEF W
<1>4. W \in listed /\ Xp \in listed
  BY <1>1, <1>3, SiblingIs
<1> QED
  BY <1>1, <1>2, <1>3, <1>4, HereIs DEF Near, Far

(* Where the sibling is known to be black it is.                           *)
LEMMA AtSiblingIs ==
  ASSUME IndexInv, AtSibling \/ stage = "turnDelete"
  PROVE  \E U, H : \E a \in Sides :
           /\ OneShort(Here, listed, U, H, at, a) /\ BlackSibling(Here, at, a)
           /\ stage = "turnDelete" => RedNephew(Here, at, a)
<1>1. stage \in {"fixDelete", "sibling", "turnDelete"}
  BY DEF AtSibling, InLoop
<1>2. IndexTypes
  BY <1>1, FixDeleteIs
<1>3. PICK U, H : \E a \in Sides :
              /\ OneShort(Here, listed, U, H, at, a)
              /\ stage # "fixDelete" => BlackSibling(Here, at, a)
              /\ stage = "turnDelete" => RedNephew(Here, at, a)
  BY <1>1, FixDeleteIs
<1>4. PICK a \in Sides :
              /\ OneShort(Here, listed, U, H, at, a)
              /\ stage # "fixDelete" => BlackSibling(Here, at, a)
              /\ stage = "turnDelete" => RedNephew(Here, at, a)
  BY <1>3
<1>5. stage = "fixDelete" => BlackSibling(Here, at, a)
  <2> SUFFICES ASSUME stage = "fixDelete" PROVE BlackSibling(Here, at, a)
    OBVIOUS
  <2>1. Here.root # at /\ Here.color[at] = "black" /\ Here.color[W] # "red"
    BY HereIs DEF AtSibling, InLoop
  <2>2. W = Here.child[Other(a)][Here.parent[at]] /\ W \in listed
    BY <1>4, <2>1, AroundX
  <2>3. Here.color \in [TreeNodes -> {"red", "black"}] /\ W \in TreeNodes
    BY <1>2, <2>2, HereIsTree, TreesAre, NodesAre DEF IndexTypes
  <2> QED
    BY <2>1, <2>2, <2>3 DEF BlackSibling
<1> QED
  BY <1>1, <1>4, <1>5

LEMMA RedSiblingStep ==
  ASSUME IndexInv, RedSibling
  PROVE  IndexInv'
<1> DEFINE v == Paint(Paint(Here, {W}, "black"), {Xp}, "red")
           r == Rotate(v, Xp, XSide)
<1>1. /\ stage = "fixDelete" /\ Here.root # at /\ Here.color[at] = "black"
      /\ Here.color[W] = "red" /\ Store(r) /\ Proceed("sibling", at)
  BY HereIs DEF RedSibling, InLoop
<1>2. IndexTypes
  BY <1>1, FixDeleteIs
<1>3. PICK U, H : \E a \in Sides : OneShort(Here, listed, U, H, at, a)
  BY <1>1, FixDeleteIs
<1>4. PICK a \in Sides : OneShort(Here, listed, U, H, at, a)
  BY <1>3
<1>5. /\ Xp = Here.parent[at] /\ XSide = a
      /\ W = Here.child[Other(a)][Xp]
  BY <1>1, <1>4, AroundX
<1>6. PICK G \in [TreeNodes -> Nat] :
        /\ OneShort(r, listed, Turned(v, U, Xp, a), G, at, a)
        /\ BlackSibling(r, at, a)
  BY <1>1, <1>4, <1>5, RedSiblingKeeps
<1> HIDE DEF r, v
<1> QED
  BY <1>1, <1>2, <1>6, FixDeleteGoesOn

LEMMA MoveUpStep ==
  ASSUME IndexInv, MoveUp
  PROVE  IndexInv'
<1> DEFINE r == Paint(Here, {W}, "red")
<1>1. /\ AtSibling /\ Here.color[Near] = "black" /\ Here.color[Far] = "black"
      /\ Store(r) /\ Proceed("fixDelete", Xp)
  BY HereIs DEF MoveUp
<1>2. IndexTypes
  BY DEF IndexInv
<1>3. PICK U, H : \E a \in Sides :
        OneShort(Here, listed, U, H, at, a) /\ BlackSibling(Here, at, a)
  BY <1>1, AtSiblingIs
<1>4. PICK a \in Sides :
        OneShort(Here, listed, U, H, at, a) /\ BlackSibling(Here, at, a)
  BY <1>3
<1>5. /\ Xp = Here.parent[at] /\ W = Here.child[Other(a)][Xp]
      /\ Near = Here.child[a][W] /\ Far = Here.child[Other(a)][W]
  BY <1>4, AroundX DEF BlackSibling
<1>6. \A s \in Sides : Here.color[Here.child[s][W]] = "black"
  BY <1>1, <1>5, OtherSide
<1>7. \E G \in [TreeNodes -> Nat], b \in Sides :
        OneShort(r, listed, U, G, Xp, b)
  BY <1>4, <1>5, <1>6, MoveUpKeeps
<1> HIDE DEF r
<1> QED
  BY <1>1, <1>2, <1>7, FixDeleteGoesOn

LEMMA TurnSiblingStep ==
  ASSUME IndexInv, TurnSibling
  PROVE  IndexInv'
<1> DEFINE v == Paint(Paint(Here, {Near}, "black"), {W}, "red")
           r == Rotate(v, W, Other(XSide))
<1>1. /\ AtSibling /\ Here.color[Near] # "black" /\ Here.color[Far] = "black"
      /\ Store(r) /\ Proceed("turnDelete", at)
  BY HereIs DEF TurnSibling
<1>2. IndexTypes
  BY DEF IndexInv
<1>3. PICK U, H : \E a \in Sides :
        OneShort(Here, listed, U, H, at, a) /\ BlackSibling(Here, at, a)
  BY <1>1, AtSiblingIs
<1>4. PICK a \in Sides :
        OneShort(Here, listed, U, H, at, a) /\ BlackSibling(Here, at, a)
  BY <1>3
<1>5. /\ Xp = Here.parent[at] /\ XSide = a /\ W = Here.child[Other(a)][Xp]
      /\ Near = Here.child[a][W] /\ Far = Here.child[Other(a)][W]
  BY <1>4, AroundX DEF BlackSibling
<1>6. PICK G \in [TreeNodes -> Nat] :
        /\ OneShort(r, listed, Turned(v, U, W, Other(a)), G, at, a)
        /\ BlackSibling(r, at, a) /\ RedNephew(r, at, a)
  <2> DEFINE w == Here.child[Other(a)][Here.parent[at]]
             near == Here.child[a][w]
             vv == Paint(Paint(Here, {near}, "black"), {w}, "red")
             e == Rotate(vv, w, Other(a))
  <2>1. W = w /\ Near = near /\ XSide = a /\ Far = Here.child[Other(a)][w]
    BY <1>5
  <2>2. Here.color[near] # "black" /\ Here.color[Here.child[Other(a)][w]] = "black"
    <3> HIDE DEF w, near, r
    <3> QED
      BY <1>1, <2>1
  <2>3. \E G \in [TreeNodes -> Nat] :
          /\ OneShort(e, listed, Turned(vv, U, w, Other(a)), G, at, a)
          /\ BlackSibling(e, at, a) /\ RedNephew(e, at, a)
    BY <1>4, <2>2, TurnSiblingKeeps, Zenon
  <2>4. r = e /\ v = vv
    <3> HIDE DEF w, near
    <3> QED
      BY <2>1
  <2> HIDE DEF w, near, e, vv, r, v
  <2> QED
    BY <2>1, <2>3, <2>4
<1> HIDE DEF r, v
<1> QED
  BY <1>1, <1>2, <1>6, FixDeleteGoesOn

LEMMA TurnUpStep ==
  ASSUME IndexInv, TurnUp
  PROVE  IndexInv'
<1> DEFINE v == Paint(Paint(Here, {W}, Here.color[Xp]), {Xp, Far}, "black")
           r == Rotate(v, Xp, XSide)
<1>1. /\ \/ stage = "turnDelete" \/ (AtSibling /\ Here.color[Far] # "black")
      /\ Store(r) /\ Proceed("fixDelete", r.root)
  BY HereIs DEF TurnUp
<1>2. IndexTypes
  BY DEF IndexInv
<1>3. PICK U, H : \E a \in Sides :
        /\ OneShort(Here, listed, U, H, at, a) /\ BlackSibling(Here, at, a)
        /\ stage = "turnDelete" => RedNephew(Here, at, a)
  BY <1>1, AtSiblingIs
<1>4. PICK a \in Sides :
        /\ OneShort(Here, listed, U, H, at, a) /\ BlackSibling(Here, at, a)
        /\ stage = "turnDelete" => RedNephew(Here, at, a)
  BY <1>3
<1>5. /\ Xp = Here.parent[at] /\ XSide = a /\ W = Here.child[Other(a)][Xp]
      /\ Far = Here.child[Other(a)][W]
  BY <1>4, AroundX DEF BlackSibling
<1>6. Here.color[Far] # "black"
  <2>1. CASE stage = "turnDelete"
    <3>1. Far = Here.child[Other(a)][Here.child[Other(a)][Here.parent[at]]]
      BY <1>5
    <3>2. Here.color[Far] = "red"
      BY <1>4, <2>1, <3>1 DEF RedNephew
    <3> QED
      BY <3>2
  <2> QED
    BY <1>1, <2>1
<1>7. PICK G \in [TreeNodes -> Nat] :
        OneShort(r, listed, Turned(v, U, Xp, a), G, r.root, a)
  <2> DEFINE p == Here.parent[at]
             w == Here.child[Other(a)][p]
             far == Here.child[Other(a)][w]
             vv == Paint(Paint(Here, {w}, Here.color[p]), {p, far}, "black")
             e == Rotate(vv, p, a)
  <2>1. Xp = p /\ W = w /\ Far = far /\ XSide = a
    BY <1>5
  <2>2. Here.color[far] # "black"
    BY <1>6, <2>1
  <2>3. \E G \in [TreeNodes -> Nat] :
          OneShort(e, listed, Turned(vv, U, p, a), G, e.root, a)
    BY <1>4, <2>2, TurnUpKeeps, Zenon
  <2>4. r = e /\ v = vv
    <3> HIDE DEF p, w, far
    <3> QED
      BY <2>1
  <2> HIDE DEF p, w, far, e, vv, r, v
  <2> QED
    BY <2>1, <2>3, <2>4
<1> HIDE DEF r, v
<1> QED
  BY <1>1, <1>2, <1>7, FixDeleteGoesOn

LEMMA DeleteDoneStep ==
  ASSUME IndexInv, DeleteDone
  PROVE  IndexInv'
<1> DEFINE r == Paint(Here, {at}, "black")
<1>1. /\ stage = "fixDelete" /\ (at = Here.root \/ Here.color[at] # "black")
      /\ Finish(r)
  BY HereIs DEF DeleteDone
<1>2. IndexTypes
  BY <1>1, FixDeleteIs
<1>3. PICK U, H : \E a \in Sides : OneShort(Here, listed, U, H, at, a)
  BY <1>1, FixDeleteIs
<1>4. PICK G \in [TreeNodes -> Nat] : Balanced(r, listed, U, G)
  BY <1>1, <1>3, DeleteDoneKeeps
<1> HIDE DEF r
<1>5. /\ Balanced(Here', listed', U, G)
      /\ IndexTypes' /\ stage' = "idle"
  BY <1>1, <1>2, <1>4, FinishIs
<1> QED
  BY <1>5, ToIdle

(* No step leaves the tree in a state that the next ones cannot repair.    *)
LEMMA IndexGoesOn ==
  ASSUME OneProcess, IndexInv, [IndexNext]_index_vars
  PROVE  IndexInv'
<1>1. CASE UNCHANGED index_vars
  <2>1. /\ tree' = tree /\ root' = root /\ listed' = listed
        /\ loading' = loading /\ stage' = stage /\ worker' = worker
        /\ user' = user /\ at' = at /\ above' = above
    BY <1>1 DEF index_vars, shape, call
  <2>2. Here' = Here /\ Indexed' = Indexed
    BY <2>1 DEF Here, View, Indexed
  <2>3. \A U, H, a : TreeInv(U, H, a)' <=> TreeInv(U, H, a)
    BY <2>1, <2>2 DEF TreeInv, Descent, Successor
  <2>4. IndexTypes'
    BY <2>1 DEF IndexTypes, IndexInv
  <2> QED
    BY <2>2, <2>3, <2>4 DEF IndexInv
<1>2. CASE Fork
  BY <1>2, ForkStep
<1>3. CASE \E u \in Users : LoadUser(u)
  BY <1>3, LoadUserStep
<1>4. CASE \E p \in Processes, u \in Users : AddUser(p, u)
  BY <1>4, AddUserStep
<1>5. CASE \E p \in Processes, u \in Users : DeleteUser(p, u)
  BY <1>5, DeleteUserStep
<1>6. CASE Descend \/ Attach
  BY <1>6, DescendStep, AttachStep
<1>7. CASE Recolour \/ TurnParent \/ TurnGrandparent \/ InsertDone
  BY <1>7, RecolourStep, TurnParentStep, TurnGrandparentStep, InsertDoneStep
<1>8. CASE Seek \/ Remove \/ FindSuccessor \/ Minimum \/ RemoveInner
  BY <1>8, SeekStep, RemoveStep, FindSuccessorStep, MinimumStep, RemoveInnerStep
<1>9. CASE RedSibling \/ MoveUp \/ TurnSibling \/ TurnUp \/ DeleteDone
  BY <1>9, RedSiblingStep, MoveUpStep, TurnSiblingStep, TurnUpStep, DeleteDoneStep
<1> QED
  BY <1>1, <1>2, <1>3, <1>4, <1>5, <1>6, <1>7, <1>8, <1>9 DEF IndexNext

(* After every turn of the loops of bst_insert, bst_delete and their fix-ups *)
(* the tree is a search tree of the listed users but one at most, and as   *)
(* balanced as rbt_insert_fixup or rbt_delete_fixup needs it.              *)
THEOREM IndexStaysInShape == ASSUME OneProcess PROVE IndexSpec => []IndexInv
<1>1. IndexInit => IndexInv
  BY IndexStarts
<1>2. IndexInv /\ [IndexNext]_index_vars => IndexInv'
  BY IndexGoesOn
<1> QED
  BY <1>1, <1>2, PTL DEF IndexSpec

-----------------------------------------------------------------------------
(* The walks.                                                              *)

(* A function that is applied again and again: the recursive functions of  *)
(* the walks exist.                                                        *)
Iterates(f, D, step, start, N) ==
  /\ f \in [0 .. N -> D]
  /\ f = [k \in 0 .. N |-> IF k = 0 THEN start ELSE step[f[k - 1]]]

LEMMA Iterated ==
  ASSUME NEW D, NEW step \in [D -> D], NEW start \in D, NEW N \in Nat
  PROVE  \E f : Iterates(f, D, step, start, N)
<1> DEFINE Good(j, f) == /\ f \in [0 .. j -> D] /\ f[0] = start
                         /\ \A k \in 1 .. j : f[k] = step[f[k - 1]]
           Bad == {j \in 0 .. N : \A f : ~Good(j, f)}
<1> SUFFICES ASSUME Bad # {} PROVE FALSE
  <2>1. PICK f : Good(N, f)
    OBVIOUS
  <2>2. ASSUME NEW k \in 0 .. N
        PROVE  f[k] = IF k = 0 THEN start ELSE step[f[k - 1]]
    <3>1. k # 0 => k \in 1 .. N
      OBVIOUS
    <3> QED
      BY <2>1, <3>1
  <2>3. f \in [0 .. N -> D]
    BY <2>1
  <2> HIDE DEF Good
  <2>4. f = [k \in 0 .. N |-> IF k = 0 THEN start ELSE step[f[k - 1]]]
    BY <2>2, <2>3
  <2> QED
    BY <2>3, <2>4 DEF Iterates
<1>1. PICK m \in Bad : \A j \in Bad : m <= j
  <2>1. Bad \in SUBSET Nat
    OBVIOUS
  <2> HIDE DEF Bad
  <2> QED
    BY <2>1, SmallestIs
<1>2. m \in 0 .. N /\ \A f : ~Good(m, f)
  BY <1>1
<1>3. CASE m = 0
  <2> DEFINE f == [k \in 0 .. 0 |-> start]
  <2>1. Good(0, f)
    OBVIOUS
  <2> HIDE DEF Good
  <2> QED
    BY <1>2, <1>3, <2>1
<1>4. CASE m # 0
  <2>1. m - 1 \in 0 .. N /\ m - 1 \notin Bad
    <3>1. m - 1 \in 0 .. N /\ ~(m <= m - 1)
      BY <1>2, <1>4
    <3> HIDE DEF Bad
    <3> QED
      BY <1>1, <3>1
  <2>2. PICK f : Good(m - 1, f)
    BY <2>1
  <2> DEFINE g == [k \in 0 .. m |-> IF k = m THEN step[f[m - 1]] ELSE f[k]]
  <2>3. m \in Nat /\ m - 1 \in 0 .. m - 1 /\ f[m - 1] \in D
    BY <1>2, <1>4, <2>2
  <2>4. step[f[m - 1]] \in D
    BY <2>3
  <2>5. g \in [0 .. m -> D]
    BY <2>2, <2>3, <2>4
  <2>6. g[0] = start
    BY <1>4, <2>2, <2>3
  <2>7. ASSUME NEW k \in 1 .. m PROVE g[k] = step[g[k - 1]]
    <3>1. CASE k = m
      BY <1>4, <2>3, <3>1
    <3>2. CASE k # m
      <4>1. k \in 1 .. m - 1 /\ k \in 0 .. m /\ k - 1 \in 0 .. m /\ k - 1 # m
        BY <2>3, <3>2
      <4> QED
        BY <2>2, <3>2, <4>1
    <3> QED
      BY <3>1, <3>2
  <2> HIDE DEF g
  <2>8. Good(m, g)
    BY <2>5, <2>6, <2>7
  <2> HIDE DEF Good
  <2> QED
    BY <1>2, <2>8
<1> QED
  BY <1>3, <1>4

(* A listing of V in the order of the names.                               *)
Lists(s, V) ==
  /\ s \in Seq(Users) /\ {s[i] : i \in 1 .. Len(s)} = V
  /\ \A i, j \in 1 .. Len(s) : i < j => s[i] < s[j]

LEMMA ListsJoin ==
  ASSUME NEW n \in Users, NEW l, NEW r, NEW A, NEW B,
         Lists(l, A), Lists(r, B),
         \A m \in A : m < n, \A m \in B : n < m
  PROVE  Lists(l \o <<n>> \o r, {n} \cup A \cup B)
<1> DEFINE s == l \o <<n>> \o r
           p == Len(l)
           q == Len(r)
<1>1. /\ l \in Seq(Users) /\ r \in Seq(Users) /\ <<n>> \in Seq(Users)
      /\ A = {l[i] : i \in 1 .. p} /\ B = {r[i] : i \in 1 .. q}
      /\ \A i, j \in 1 .. p : i < j => l[i] < l[j]
      /\ \A i, j \in 1 .. q : i < j => r[i] < r[j]
      /\ p \in Nat /\ q \in Nat
  BY DEF Lists
<1>2. /\ s \in Seq(Users) /\ Len(s) = p + 1 + q
      /\ \A i \in 1 .. p + 1 + q :
           s[i] = IF i <= p THEN l[i] ELSE IF i = p + 1 THEN n
                  ELSE r[i - (p + 1)]
  BY <1>1
<1> HIDE DEF s, p, q
<1>3. /\ \A i \in 1 .. p : l[i] \in A /\ l[i] < n
      /\ \A i \in 1 .. q : r[i] \in B /\ n < r[i]
  BY <1>1
<1>4. A \subseteq Users /\ B \subseteq Users /\ \A m \in Users : m \in Int
  <2>1. \A i \in 1 .. p : l[i] \in Users
    BY <1>1 DEF p
  <2>2. \A i \in 1 .. q : r[i] \in Users
    BY <1>1 DEF q
  <2> QED
    BY <1>1, <2>1, <2>2 DEF Users
<1>5. {s[i] : i \in 1 .. Len(s)} = {n} \cup A \cup B
  <2>1. ASSUME NEW i \in 1 .. p + 1 + q PROVE s[i] \in {n} \cup A \cup B
    <3>1. i <= p => i \in 1 .. p
      BY <1>1
    <3>2. i > p + 1 => i - (p + 1) \in 1 .. q
      BY <1>1
    <3> QED
      BY <1>1, <1>2, <1>3, <3>1, <3>2
  <2>2. ASSUME NEW m \in {n} \cup A \cup B
        PROVE  \E i \in 1 .. p + 1 + q : s[i] = m
    <3>1. CASE m = n
      <4>1. p + 1 \in 1 .. p + 1 + q /\ ~(p + 1 <= p)
        BY <1>1
      <4> QED
        BY <1>2, <3>1, <4>1
    <3>2. CASE m \in A
      <4>1. PICK i \in 1 .. p : m = l[i]
        BY <1>1, <3>2
      <4>2. i \in 1 .. p + 1 + q /\ i <= p
        BY <1>1
      <4> QED
        BY <1>2, <4>1, <4>2
    <3>3. CASE m \in B
      <4>1. PICK i \in 1 .. q : m = r[i]
        BY <1>1, <3>3
      <4>2. /\ i + (p + 1) \in 1 .. p + 1 + q /\ ~(i + (p + 1) <= p)
            /\ i + (p + 1) # p + 1 /\ (i + (p + 1)) - (p + 1) = i
        <5>1. p \in Nat /\ q \in Nat
          BY <1>1
        <5> QED
          BY <5>1
      <4> QED
        BY <1>2, <4>1, <4>2
    <3> QED
      BY <3>1, <3>2, <3>3
  <2>3. {s[i] : i \in 1 .. p + 1 + q} = {n} \cup A \cup B
    BY <2>1, <2>2
  <2> QED
    BY <1>2, <2>3
<1>6. ASSUME NEW i \in 1 .. p + 1 + q, NEW j \in 1 .. p + 1 + q, i < j
      PROVE  s[i] < s[j]
  <2>1. /\ i <= p => i \in 1 .. p
        /\ j <= p => j \in 1 .. p
        /\ i > p + 1 => i - (p + 1) \in 1 .. q
        /\ j > p + 1 => j - (p + 1) \in 1 .. q
        /\ i \in Int /\ j \in Int
    BY <1>1
  <2>2. CASE j <= p
    BY <1>1, <1>2, <1>6, <2>1, <2>2
  <2>3. CASE j = p + 1
    BY <1>1, <1>2, <1>3, <1>6, <2>1, <2>3
  <2>4. CASE j > p + 1 /\ i <= p
    <3>1. s[i] < n /\ n < s[j] /\ s[i] \in Int /\ s[j] \in Int /\ n \in Int
      <4>1. s[i] = l[i] /\ s[j] = r[j - (p + 1)]
        BY <1>1, <1>2, <2>1, <2>4
      <4>2. l[i] \in A /\ l[i] < n /\ r[j - (p + 1)] \in B /\ n < r[j - (p + 1)]
        BY <1>3, <2>1, <2>4
      <4> QED
        BY <1>4, <4>1, <4>2
    <3> QED
      BY <3>1
  <2>5. CASE j > p + 1 /\ i = p + 1
    BY <1>1, <1>2, <1>3, <1>6, <2>1, <2>5
  <2>6. CASE j > p + 1 /\ i > p + 1
    <3>1. i - (p + 1) < j - (p + 1)
      BY <1>1, <1>6, <2>1
    <3>2. s[i] = r[i - (p + 1)] /\ s[j] = r[j - (p + 1)]
      BY <1>1, <1>2, <2>1, <2>6
    <3> QED
      BY <1>1, <2>1, <2>6, <3>1, <3>2
  <2> QED
    BY <1>1, <1>6, <2>1, <2>2, <2>3, <2>4, <2>5, <2>6
<1>7. Lists(s, {n} \cup A \cup B)
  BY <1>2, <1>5, <1>6 DEF Lists
<1> QED
  BY <1>7 DEF s

(* The recursive functions of InOrder, Search and BlackHeight.             *)
Walk(t) ==
  CHOOSE walk : walk =
    [k \in 0 .. NumUsers |->
       [n \in TreeNodes |->
          IF k = 0 \/ n = Nil THEN << >>
          ELSE walk[k - 1][t.child["left"][n]] \o <<n>>
                 \o walk[k - 1][t.child["right"][n]]]]

Way(t, u) ==
  CHOOSE way : way =
    [k \in 0 .. NumUsers |->
       IF k = 0 THEN t.root
       ELSE LET x == way[k - 1]
            IN  IF x \in {Nil, u} THEN x ELSE t.child[Toward(x, u)][x]]

Height(t) ==
  CHOOSE height : height =
    [k \in 0 .. NumUsers |->
       [n \in TreeNodes |->
          IF n = Nil THEN 0
          ELSE IF k = 0 THEN -1
          ELSE LET l == height[k - 1][t.child["left"][n]]
                   r == height[k - 1][t.child["right"][n]]
               IN  IF \/ l # r \/ l = -1
                      \/ /\ t.color[n] = "red"
                         /\ \E s \in Sides : t.color[t.child[s][n]] = "red"
                   THEN -1
                   ELSE IF t.color[n] = "black" THEN l + 1 ELSE l]]

LEMMA WalksAre ==
  ASSUME NEW t, NEW u
  PROVE  /\ InOrder(t) = Walk(t)[NumUsers][t.root]
         /\ Search(t, u) = Way(t, u)[NumUsers]
         /\ BlackHeight(t) = Height(t)[NumUsers][t.root]
<1>1. InOrder(t) = Walk(t)[NumUsers][t.root]
  BY DEF InOrder, Walk
<1>2. Search(t, u) = Way(t, u)[NumUsers]
  BY DEF Search, Way
<1>3. BlackHeight(t) = Height(t)[NumUsers][t.root]
  BY DEF BlackHeight, Height
<1> QED
  BY <1>1, <1>2, <1>3

LEMMA WalkIs ==
  ASSUME NEW t \in Trees, NEW k \in 0 .. NumUsers, NEW n \in TreeNodes
  PROVE  Walk(t)[k][n] =
           IF k = 0 \/ n = Nil THEN << >>
           ELSE Walk(t)[k - 1][t.child["left"][n]] \o <<n>>
                  \o Walk(t)[k - 1][t.child["right"][n]]
<1> DEFINE L(m) == t.child["left"][m]
           R(m) == t.child["right"][m]
           Join(m, w) == w[L(m)] \o <<m>> \o w[R(m)]
           Level(i, walk) == [m \in TreeNodes |->
                                IF i = 0 \/ m = Nil THEN << >>
                                ELSE Join(m, walk[i - 1])]
           Body(walk) == [i \in 0 .. NumUsers |-> Level(i, walk)]
           D == [TreeNodes -> Seq(TreeNodes)]
           start == [m \in TreeNodes |-> << >>]
           step == [w \in D |->
                      [m \in TreeNodes |->
                         IF m = Nil THEN << >> ELSE Join(m, w)]]
<1>1. \A m \in TreeNodes : L(m) \in TreeNodes /\ R(m) \in TreeNodes
  BY TreesAre, SidesAre
<1> HIDE DEF L, R
<1>2. ASSUME NEW w \in D, NEW m \in TreeNodes
      PROVE  Join(m, w) \in Seq(TreeNodes)
  <2>1. w[L(m)] \in Seq(TreeNodes) /\ w[R(m)] \in Seq(TreeNodes)
        /\ <<m>> \in Seq(TreeNodes)
    BY <1>1
  <2> HIDE DEF D
  <2> QED
    BY <2>1
<1>3. Walk(t) = CHOOSE w : w = Body(w)
  BY DEF Walk, L, R
<1> HIDE DEF Join
<1>4. step \in [D -> D] /\ start \in D
  BY <1>2
<1>5. ASSUME NEW f \in [0 .. NumUsers -> D], NEW i \in 0 .. NumUsers
      PROVE  Level(i, f) = IF i = 0 THEN start ELSE step[f[i - 1]]
  <2>1. CASE i = 0
    BY <2>1
  <2>2. CASE i # 0
    <3>1. f[i - 1] \in D
      <4>1. i - 1 \in 0 .. NumUsers
        BY <2>2, UsersAssumption
      <4> HIDE DEF D
      <4> QED
        BY <4>1
    <3> QED
      BY <2>2, <3>1
  <2> QED
    BY <2>1, <2>2
<1> HIDE DEF D, start, step, Level
<1>6. \E f : f = Body(f)
  <2>1. PICK f : Iterates(f, D, step, start, NumUsers)
    <3> HIDE DEF Body
    <3> QED
      BY <1>4, Iterated, UsersAssumption
  <2>4. f \in [0 .. NumUsers -> D]
    BY <2>1 DEF Iterates
  <2>2. ASSUME NEW i \in 0 .. NumUsers PROVE f[i] = Level(i, f)
    <3>1. f[i] = IF i = 0 THEN start ELSE step[f[i - 1]]
      BY <2>1 DEF Iterates
    <3> QED
      BY <1>5, <2>4, <3>1
  <2>3. f = Body(f)
    <3>1. f = [i \in 0 .. NumUsers |-> f[i]]
      BY <2>4
    <3>2. [i \in 0 .. NumUsers |-> f[i]] = [i \in 0 .. NumUsers |-> Level(i, f)]
      BY <2>2
    <3> QED
      BY <3>1, <3>2, Zenon
  <2> HIDE DEF Body
  <2> QED
    BY <2>3
<1> DEFINE g == Walk(t)
<1>7. g = Body(g)
  <2> HIDE DEF Body
  <2> QED
    BY <1>3, <1>6, Zenon
<1> HIDE DEF g
<1>8. g[k] = Level(k, g)
  <2>1. Body(g)[k] = Level(k, g)
    OBVIOUS
  <2> HIDE DEF Body
  <2> QED
    BY <1>7, <2>1
<1>9. Level(k, g)[n] = IF k = 0 \/ n = Nil THEN << >>
                       ELSE g[k - 1][L(n)] \o <<n>> \o g[k - 1][R(n)]
  BY DEF Level, Join
<1> QED
  BY <1>8, <1>9 DEF g, L, R

LEMMA WayIs ==
  ASSUME NEW t \in Trees, NEW u \in Users, NEW k \in 0 .. NumUsers
  PROVE  Way(t, u)[k] =
           IF k = 0 THEN t.root
           ELSE LET x == Way(t, u)[k - 1]
                IN  IF x \in {Nil, u} THEN x ELSE t.child[Toward(x, u)][x]
<1> DEFINE Turn(x) == IF x \in {Nil, u} THEN x ELSE t.child[Toward(x, u)][x]
           Level(i, way) == IF i = 0 THEN t.root ELSE Turn(way[i - 1])
           Body(way) == [i \in 0 .. NumUsers |-> Level(i, way)]
           step == [x \in TreeNodes |-> Turn(x)]
<1>1. t.root \in TreeNodes /\ \A x \in TreeNodes : Turn(x) \in TreeNodes
  BY TreesAre DEF Toward, Sides
<1>2. Way(t, u) = CHOOSE w : w = Body(w)
  BY DEF Way
<1> HIDE DEF Turn
<1>3. step \in [TreeNodes -> TreeNodes]
  BY <1>1
<1>4. ASSUME NEW f \in [0 .. NumUsers -> TreeNodes], NEW i \in 0 .. NumUsers
      PROVE  Level(i, f) = IF i = 0 THEN t.root ELSE step[f[i - 1]]
  <2>1. i # 0 => i - 1 \in 0 .. NumUsers
    BY UsersAssumption
  <2> QED
    BY <2>1
<1> HIDE DEF step, Level
<1>5. \E f : f = Body(f)
  <2>1. PICK f : Iterates(f, TreeNodes, step, t.root, NumUsers)
    <3> HIDE DEF Body
    <3> QED
      BY <1>1, <1>3, Iterated, UsersAssumption
  <2>4. f \in [0 .. NumUsers -> TreeNodes]
    BY <2>1 DEF Iterates
  <2>2. ASSUME NEW i \in 0 .. NumUsers PROVE f[i] = Level(i, f)
    <3>1. f[i] = IF i = 0 THEN t.root ELSE step[f[i - 1]]
      BY <2>1 DEF Iterates
    <3> QED
      BY <1>4, <2>4, <3>1
  <2>3. f = Body(f)
    <3>1. f = [i \in 0 .. NumUsers |-> f[i]]
      BY <2>4
    <3>2. [i \in 0 .. NumUsers |-> f[i]] = [i \in 0 .. NumUsers |-> Level(i, f)]
      BY <2>2
    <3> QED
      BY <3>1, <3>2, Zenon
  <2> HIDE DEF Body
  <2> QED
    BY <2>3
<1> DEFINE g == Way(t, u)
<1>6. g = Body(g)
  <2> HIDE DEF Body
  <2> QED
    BY <1>2, <1>5, Zenon
<1> HIDE DEF g
<1>7. g[k] = Level(k, g)
  <2>1. Body(g)[k] = Level(k, g)
    OBVIOUS
  <2> HIDE DEF Body
  <2> QED
    BY <1>6, <2>1
<1> QED
  BY <1>7 DEF g, Level, Turn

LEMMA HeightFunctionIs ==
  ASSUME NEW t \in Trees, NEW k \in 0 .. NumUsers, NEW n \in TreeNodes
  PROVE  Height(t)[k][n] =
           IF n = Nil THEN 0
           ELSE IF k = 0 THEN -1
           ELSE LET l == Height(t)[k - 1][t.child["left"][n]]
                    r == Height(t)[k - 1][t.child["right"][n]]
                IN  IF \/ l # r \/ l = -1
                       \/ /\ t.color[n] = "red"
                          /\ \E s \in Sides : t.color[t.child[s][n]] = "red"
                    THEN -1
                    ELSE IF t.color[n] = "black" THEN l + 1 ELSE l
<1> DEFINE L(m) == t.child["left"][m]
           R(m) == t.child["right"][m]
           Mix(m, l, r) == IF \/ l # r \/ l = -1
                              \/ /\ t.color[m] = "red"
                                 /\ \E s \in Sides : t.color[t.child[s][m]] = "red"
                           THEN -1
                           ELSE IF t.color[m] = "black" THEN l + 1 ELSE l
           Level(i, height) == [m \in TreeNodes |->
                                  IF m = Nil THEN 0
                                  ELSE IF i = 0 THEN -1
                                  ELSE Mix(m, height[i - 1][L(m)],
                                              height[i - 1][R(m)])]
           Body(height) == [i \in 0 .. NumUsers |-> Level(i, height)]
           D == [TreeNodes -> Int]
           start == [m \in TreeNodes |-> IF m = Nil THEN 0 ELSE -1]
           step == [w \in D |->
                      [m \in TreeNodes |->
                         IF m = Nil THEN 0 ELSE Mix(m, w[L(m)], w[R(m)])]]
<1>1. /\ \A m \in TreeNodes : L(m) \in TreeNodes /\ R(m) \in TreeNodes
      /\ \A m, l, r : l \in Int /\ r \in Int => Mix(m, l, r) \in Int
  BY TreesAre, SidesAre
<1>2. Height(t) = CHOOSE w : w = Body(w)
  BY DEF Height
<1> HIDE DEF L, R, Mix
<1>3. step \in [D -> D] /\ start \in D
  <2>1. ASSUME NEW w \in D, NEW m \in TreeNodes
        PROVE  Mix(m, w[L(m)], w[R(m)]) \in Int
    BY <1>1
  <2> QED
    BY <2>1
<1>4. ASSUME NEW f \in [0 .. NumUsers -> D], NEW i \in 0 .. NumUsers
      PROVE  Level(i, f) = IF i = 0 THEN start ELSE step[f[i - 1]]
  <2>1. CASE i = 0
    BY <2>1
  <2>2. CASE i # 0
    <3>1. f[i - 1] \in D
      <4>1. i - 1 \in 0 .. NumUsers
        BY <2>2, UsersAssumption
      <4> HIDE DEF D
      <4> QED
        BY <4>1
    <3> QED
      BY <2>2, <3>1
  <2> QED
    BY <2>1, <2>2
<1> HIDE DEF D, start, step, Level
<1>5. \E f : f = Body(f)
  <2>1. PICK f : Iterates(f, D, step, start, NumUsers)
    <3> HIDE DEF Body
    <3> QED
      BY <1>3, Iterated, UsersAssumption
  <2>4. f \in [0 .. NumUsers -> D]
    BY <2>1 DEF Iterates
  <2>2. ASSUME NEW i \in 0 .. NumUsers PROVE f[i] = Level(i, f)
    <3>1. f[i] = IF i = 0 THEN start ELSE step[f[i - 1]]
      BY <2>1 DEF Iterates
    <3> QED
      BY <1>4, <2>4, <3>1
  <2>3. f = Body(f)
    <3>1. f = [i \in 0 .. NumUsers |-> f[i]]
      BY <2>4
    <3>2. [i \in 0 .. NumUsers |-> f[i]] = [i \in 0 .. NumUsers |-> Level(i, f)]
      BY <2>2
    <3> QED
      BY <3>1, <3>2, Zenon
  <2> HIDE DEF Body
  <2> QED
    BY <2>3
<1> DEFINE g == Height(t)
<1>6. g = Body(g)
  <2> HIDE DEF Body
  <2> QED
    BY <1>2, <1>5, Zenon
<1> HIDE DEF g
<1>7. g[k] = Level(k, g)
  <2>1. Body(g)[k] = Level(k, g)
    OBVIOUS
  <2> HIDE DEF Body
  <2> QED
    BY <1>6, <2>1
<1>8. Level(k, g)[n] = IF n = Nil THEN 0
                       ELSE IF k = 0 THEN -1
                       ELSE Mix(n, g[k - 1][L(n)], g[k - 1][R(n)])
  BY DEF Level
<1> QED
  BY <1>7, <1>8 DEF g, L, R, Mix

(* Induction over the levels of a walk.                                    *)
LEMMA LevelByLevel ==
  ASSUME NEW N \in Nat, NEW P, 0 \in P,
         \A k \in 1 .. N : k - 1 \in P => k \in P
  PROVE  \A k \in 0 .. N : k \in P
<1> DEFINE Bad == {k \in 0 .. N : k \notin P}
<1> SUFFICES ASSUME Bad # {} PROVE FALSE
  OBVIOUS
<1>1. PICK m \in Bad : \A j \in Bad : m <= j
  <2>1. Bad \in SUBSET Nat
    OBVIOUS
  <2> HIDE DEF Bad
  <2> QED
    BY <2>1, SmallestIs
<1>2. m \in 1 .. N /\ m - 1 \in 0 .. N /\ ~(m <= m - 1)
  BY <1>1
<1>3. m - 1 \notin Bad
  <2> HIDE DEF Bad
  <2> QED
    BY <1>1, <1>2
<1> QED
  BY <1>1, <1>2, <1>3

(* bst_inorder and bst_format_users list the users of a search tree, each  *)
(* once, in the order of their names.                                      *)
THEOREM WalkLists ==
  ASSUME NEW t, NEW S, NEW U, SearchTree(t, S, U)
  PROVE  Lists(InOrder(t), S)
<1>1. /\ t \in Trees /\ S \subseteq Users /\ U[Nil] = {} /\ U[t.root] = S
      /\ t.root \in S \cup {Nil} /\ t.root \in TreeNodes /\ Nil \notin S
      /\ S \subseteq TreeNodes
  BY NodesAre, TreesAre DEF SearchTree
<1> DEFINE Done(k) == \A n \in S \cup {Nil} :
                        Cardinality(U[n]) <= k => Lists(Walk(t)[k][n], U[n])
           P == {k \in 0 .. NumUsers : Done(k)}
<1>2. Lists(<< >>, {})
  BY DEF Lists
<1>3. ASSUME NEW k \in 0 .. NumUsers PROVE Lists(Walk(t)[k][Nil], U[Nil])
  <2>1. Walk(t)[k][Nil] = << >>
    BY <1>1, NodesAre, WalkIs
  <2> QED
    BY <1>1, <1>2, <2>1
<1>4. \A n \in S : Cardinality(U[n]) \in Nat /\ Cardinality(U[n]) > 0
  BY FewerBelow, SidesAre
<1>5. 0 \in P
  BY <1>3, <1>4, UsersAssumption
<1>6. ASSUME NEW k \in 1 .. NumUsers, k - 1 \in P PROVE k \in P
  <2>1. k \in 0 .. NumUsers /\ k # 0 /\ k - 1 \in 0 .. NumUsers
    BY UsersAssumption
  <2> SUFFICES ASSUME NEW n \in S, Cardinality(U[n]) <= k
               PROVE  Lists(Walk(t)[k][n], U[n])
    BY <1>3, <2>1
  <2> DEFINE l == t.child["left"][n]
             r == t.child["right"][n]
  <2>2. /\ l \in S \cup {Nil} /\ r \in S \cup {Nil} /\ n \in Users /\ n # Nil
        /\ n \in TreeNodes
        /\ U[n] = {n} \cup U[l] \cup U[r]
        /\ \A m \in U[l] : m \in Users /\ m # n /\ Toward(n, m) = "left"
        /\ \A m \in U[r] : m \in Users /\ m # n /\ Toward(n, m) = "right"
    <3>1. /\ l \in S \cup {Nil} /\ n \in Users /\ n # Nil /\ n \in TreeNodes
          /\ U[n] = {n} \cup U[l] \cup U[r] /\ U[n] \subseteq S
          /\ \A m \in U[l] : m # n /\ Toward(n, m) = "left"
      BY NodeIs, SidesAre
    <3>2. /\ r \in S \cup {Nil}
          /\ \A m \in U[r] : m # n /\ Toward(n, m) = "right"
      BY NodeIs, SidesAre
    <3> QED
      BY <1>1, <3>1, <3>2
  <2>3. /\ Cardinality(U[l]) <= k - 1 /\ Cardinality(U[r]) <= k - 1
    <3>1. /\ Cardinality(U[l]) \in Nat /\ Cardinality(U[l]) < Cardinality(U[n])
          /\ Cardinality(U[r]) \in Nat /\ Cardinality(U[r]) < Cardinality(U[n])
          /\ Cardinality(U[n]) \in Nat
      BY FewerBelow, SidesAre
    <3> QED
      BY <3>1
  <2> HIDE DEF l, r
  <2>4. Lists(Walk(t)[k - 1][l], U[l]) /\ Lists(Walk(t)[k - 1][r], U[r])
    BY <1>6, <2>2, <2>3
  <2>5. /\ \A m \in U[l] : m < n
        /\ \A m \in U[r] : n < m
    <3>1. \A m \in Users : m \in Int
      BY DEF Users
    <3> QED
      BY <2>2, <3>1 DEF Toward
  <2>6. Lists(Walk(t)[k - 1][l] \o <<n>> \o Walk(t)[k - 1][r],
              {n} \cup U[l] \cup U[r])
    BY <2>2, <2>4, <2>5, ListsJoin
  <2>7. Walk(t)[k][n] = Walk(t)[k - 1][l] \o <<n>> \o Walk(t)[k - 1][r]
    <3>1. t \in Trees /\ k \in 0 .. NumUsers /\ n \in TreeNodes
      BY <1>1, <2>1, <2>2
    <3>2. Walk(t)[k][n] =
            IF k = 0 \/ n = Nil THEN << >>
            ELSE Walk(t)[k - 1][t.child["left"][n]] \o <<n>>
                   \o Walk(t)[k - 1][t.child["right"][n]]
      BY ONLY <3>1, WalkIs, Zenon
    <3>3. Walk(t)[k][n] =
            Walk(t)[k - 1][t.child["left"][n]] \o <<n>>
              \o Walk(t)[k - 1][t.child["right"][n]]
      BY <2>1, <2>2, <3>2, Zenon
    <3> QED
      BY <3>3, Zenon DEF l, r
  <2> QED
    BY <2>2, <2>6, <2>7
<1>7. NumUsers \in P
  <2> HIDE DEF P
  <2> QED
    BY <1>5, <1>6, LevelByLevel, UsersAssumption
<1>8. Cardinality(U[t.root]) <= NumUsers
  BY <1>1, UsersAreFinite
<1>9. Lists(Walk(t)[NumUsers][t.root], S)
  BY <1>1, <1>7, <1>8
<1> QED
  BY <1>9, WalksAre

(* bst_find finds the users of a search tree and no others.                *)
THEOREM SearchFinds ==
  ASSUME NEW t, NEW S, NEW U, SearchTree(t, S, U), NEW u \in Users
  PROVE  Search(t, u) = IF u \in S THEN u ELSE Nil
<1>1. /\ t \in Trees /\ S \subseteq Users /\ U[Nil] = {} /\ U[t.root] = S
      /\ t.root \in S \cup {Nil} /\ t.root \in TreeNodes /\ Nil \notin S
      /\ S \subseteq TreeNodes /\ u # Nil
  BY NodesAre, TreesAre DEF SearchTree
<1> DEFINE x(k) == Way(t, u)[k]
           Done(k) == /\ x(k) \in S \cup {Nil} /\ (u \in S => u \in U[x(k)])
                      /\ x(k) \in {Nil, u} \/ Cardinality(U[x(k)]) + k <= NumUsers
           P == {k \in 0 .. NumUsers : Done(k)}
<1>2. 0 \in P
  <2>1. x(0) = t.root
    BY <1>1, UsersAssumption, WayIs
  <2>2. Cardinality(S) \in Nat /\ Cardinality(S) <= NumUsers
    BY <1>1, UsersAreFinite
  <2>3. Cardinality(U[x(0)]) + 0 <= NumUsers
    BY <1>1, <2>1, <2>2
  <2> HIDE DEF x
  <2> QED
    BY <1>1, <2>1, <2>3, UsersAssumption
<1>3. ASSUME NEW k \in 1 .. NumUsers, k - 1 \in P PROVE k \in P
  <2> DEFINE y == x(k - 1)
             d == Toward(y, u)
             c == t.child[d][y]
  <2>1. k \in 0 .. NumUsers /\ k # 0 /\ k - 1 \in 0 .. NumUsers
    BY UsersAssumption
  <2>2. x(k) = IF y \in {Nil, u} THEN y ELSE c
    BY <1>1, <2>1, WayIs
  <2>3. /\ y \in S \cup {Nil} /\ (u \in S => u \in U[y])
        /\ y \in {Nil, u} \/ Cardinality(U[y]) + (k - 1) <= NumUsers
    BY <1>3
  <2> HIDE DEF x, y
  <2>4. CASE y \in {Nil, u}
    BY <2>1, <2>2, <2>3, <2>4
  <2>5. CASE y \notin {Nil, u}
    <3>1. y \in S /\ d \in Sides /\ Other(d) \in Sides /\ Other(d) # d
      BY <2>3, <2>5, SidesAre DEF Toward, Sides
    <3>2. /\ c \in S \cup {Nil}
          /\ U[y] = {y} \cup U[c] \cup U[t.child[Other(d)][y]]
      BY <3>1, NodeIs
    <3>3. \A m \in U[t.child[Other(d)][y]] : Toward(y, m) = Other(d)
      BY <3>1, NodeIs
    <3>4. /\ Cardinality(U[y]) \in Nat /\ Cardinality(U[c]) \in Nat
          /\ Cardinality(U[c]) < Cardinality(U[y])
      BY <3>1, FewerBelow
    <3>5. u \in S => u \in U[c]
      <4> HIDE DEF c
      <4>1. u \notin U[t.child[Other(d)][y]]
        BY <3>1, <3>3
      <4> QED
        BY <2>3, <2>5, <3>2, <4>1
    <3>6. Cardinality(U[c]) + k <= NumUsers
      <4>1. Cardinality(U[y]) + (k - 1) <= NumUsers
        BY <2>3, <2>5
      <4> HIDE DEF c
      <4> QED
        BY <3>4, <4>1, UsersAssumption
    <3>7. x(k) = c
      BY <2>2, <2>5
    <3> HIDE DEF c
    <3> QED
      BY <2>1, <3>2, <3>5, <3>6, <3>7
  <2> QED
    BY <2>4, <2>5
<1>4. NumUsers \in P
  <2> HIDE DEF P
  <2> QED
    BY <1>2, <1>3, LevelByLevel, UsersAssumption
<1> DEFINE z == x(NumUsers)
<1>5. /\ z \in S \cup {Nil} /\ (u \in S => u \in U[z])
      /\ z \in {Nil, u} \/ Cardinality(U[z]) + NumUsers <= NumUsers
  BY <1>4
<1> HIDE DEF z
<1>6. z \in {Nil, u}
  <2> SUFFICES ASSUME z \notin {Nil, u} PROVE FALSE
    OBVIOUS
  <2>1. z \in S
    BY <1>5
  <2>2. Cardinality(U[z]) \in Nat /\ Cardinality(U[z]) > 0
    BY <2>1, FewerBelow, SidesAre
  <2> QED
    BY <1>5, <2>2, UsersAssumption
<1>7. z = IF u \in S THEN u ELSE Nil
  BY <1>1, <1>5, <1>6
<1> QED
  BY <1>7, WalksAre DEF z

(* The ways down from the root have the same number of black nodes.        *)
LEMMA HeightsMeet ==
  ASSUME NEW t, NEW S, NEW U, NEW H, Balanced(t, S, U, H)
  PROVE  BlackHeight(t) = H[t.root] /\ BlackHeight(t) \in Nat
<1>1. /\ SearchTree(t, S, U) /\ Heights(t, S, H, Nil, "left")
      /\ RedRule(t, S, Nil, Nil) /\ t.color[Nil] = "black"
  BY DEF Balanced, SearchTree
<1>2. /\ S \subseteq TreeNodes /\ Nil \in TreeNodes /\ Nil \notin S
      /\ H \in [TreeNodes -> Nat] /\ H[Nil] = 0
      /\ \A n \in S, s \in Sides :
           /\ t.child[s][n] \in S \cup {Nil} /\ t.child[s][n] \in TreeNodes
           /\ H[n] = H[t.child[s][n]] + Weight(t, n)
  BY <1>1, HeightIs
<1>3. /\ t \in Trees /\ t.root \in TreeNodes /\ t.root \in S \cup {Nil}
      /\ S \subseteq Users /\ U[t.root] = S /\ U[Nil] = {}
      /\ "left" \in Sides /\ "right" \in Sides
  BY <1>1, TreesAre, SidesAre DEF SearchTree
<1> DEFINE Done(k) == \A n \in S \cup {Nil} :
                        n = Nil \/ Cardinality(U[n]) <= k =>
                          Height(t)[k][n] = H[n]
           P == {k \in 0 .. NumUsers : Done(k)}
<1>4. ASSUME NEW k \in 0 .. NumUsers PROVE Height(t)[k][Nil] = H[Nil]
  BY <1>2, <1>3, HeightFunctionIs
<1>5. \A n \in S : Cardinality(U[n]) \in Nat /\ Cardinality(U[n]) > 0
  BY <1>1, FewerBelow, SidesAre
<1>6. 0 \in P
  BY <1>4, <1>5, UsersAssumption
<1>7. ASSUME NEW k \in 1 .. NumUsers, k - 1 \in P PROVE k \in P
  <2>1. k \in 0 .. NumUsers /\ k # 0 /\ k - 1 \in 0 .. NumUsers
    BY UsersAssumption
  <2> SUFFICES ASSUME NEW n \in S, Cardinality(U[n]) <= k
               PROVE  Height(t)[k][n] = H[n]
    BY <1>2, <1>4, <2>1
  <2> DEFINE l == t.child["left"][n]
             r == t.child["right"][n]
             hl == Height(t)[k - 1][l]
             hr == Height(t)[k - 1][r]
  <2>2. /\ l \in S \cup {Nil} /\ r \in S \cup {Nil} /\ n # Nil /\ n \in TreeNodes
        /\ l \in TreeNodes /\ r \in TreeNodes
        /\ H[n] = H[l] + Weight(t, n) /\ H[n] = H[r] + Weight(t, n)
    BY <1>2, <1>3
  <2>3. /\ l = Nil \/ Cardinality(U[l]) <= k - 1
        /\ r = Nil \/ Cardinality(U[r]) <= k - 1
    <3>1. /\ Cardinality(U[l]) \in Nat /\ Cardinality(U[l]) < Cardinality(U[n])
          /\ Cardinality(U[r]) \in Nat /\ Cardinality(U[r]) < Cardinality(U[n])
          /\ Cardinality(U[n]) \in Nat
      BY <1>1, <1>3, FewerBelow
    <3> QED
      BY <3>1
  <2>4. hl = H[l] /\ hr = H[r]
    <3> HIDE DEF l, r
    <3> QED
      BY <1>7, <2>2, <2>3
  <2>5. /\ H[l] \in Nat /\ H[r] \in Nat /\ H[l] = H[r]
        /\ Weight(t, n) = IF t.color[n] = "black" THEN 1 ELSE 0
    <3>1. H[l] \in Nat /\ H[r] \in Nat /\ Weight(t, n) \in {0, 1}
      BY <1>2, <2>2 DEF Weight
    <3> QED
      BY <2>2, <3>1 DEF Weight
  <2>6. ~(/\ t.color[n] = "red"
          /\ \E s \in Sides : t.color[t.child[s][n]] = "red")
    <3> SUFFICES ASSUME t.color[n] = "red", NEW s \in Sides,
                        t.color[t.child[s][n]] = "red"
                 PROVE  FALSE
      OBVIOUS
    <3>1. t.child[s][n] # Nil
      BY <1>1
    <3> QED
      BY <1>1, <2>2, <3>1 DEF RedRule
  <2>7. Height(t)[k][n] =
           IF \/ hl # hr \/ hl = -1
              \/ /\ t.color[n] = "red"
                 /\ \E s \in Sides : t.color[t.child[s][n]] = "red"
           THEN -1
           ELSE IF t.color[n] = "black" THEN hl + 1 ELSE hl
    BY <1>3, <2>1, <2>2, HeightFunctionIs
  <2>8. Height(t)[k][n] = IF t.color[n] = "black" THEN hl + 1 ELSE hl
    BY <2>4, <2>5, <2>6, <2>7
  <2> QED
    BY <2>2, <2>4, <2>5, <2>8
<1>8. NumUsers \in P
  <2> HIDE DEF P
  <2> QED
    BY <1>6, <1>7, LevelByLevel, UsersAssumption
<1>9. Cardinality(U[t.root]) <= NumUsers
  BY <1>3, UsersAreFinite
<1>10. Height(t)[NumUsers][t.root] = H[t.root]
  BY <1>3, <1>8, <1>9
<1>11. H[t.root] \in Nat
  BY <1>2, <1>3
<1> QED
  BY <1>10, <1>11, WalksAre

(* Between calls the invariant says what IndexIsSound does.                *)
LEMMA ShapeIsSound ==
  ASSUME OneProcess, IndexInv
  PROVE  IndexIsSound
<1> SUFFICES ASSUME stage = "idle"
             PROVE  WalkIsSortedList /\ FindsListed /\ RedBlack
  BY DEF IndexIsSound
<1>1. IndexTypes
  BY IdleIs
<1>2. PICK U, H : Balanced(Here, listed, U, H)
  BY IdleIs
<1>3. \A p \in Processes : View(p) = Here /\ p = worker
  BY <1>1 DEF OneProcess, IndexTypes, Here
<1>4. SearchTree(Here, listed, U)
  BY <1>2 DEF Balanced
<1>5. WalkIsSortedList
  <2> SUFFICES ASSUME NEW p \in Processes
               PROVE  LET walk == InOrder(View(p))
                      IN  /\ {walk[i] : i \in 1 .. Len(walk)} = listed
                          /\ \A i \in 1 .. Len(walk) - 1 : walk[i] < walk[i + 1]
    BY DEF WalkIsSortedList
  <2> DEFINE w == InOrder(View(p))
  <2>1. Lists(w, listed)
    BY <1>3, <1>4, WalkLists
  <2> HIDE DEF w
  <2>2. {w[i] : i \in 1 .. Len(w)} = listed
    BY <2>1 DEF Lists
  <2>3. ASSUME NEW i \in 1 .. Len(w) - 1 PROVE w[i] < w[i + 1]
    <3>1. Len(w) \in Nat
      BY <2>1 DEF Lists
    <3>2. i \in 1 .. Len(w) /\ i + 1 \in 1 .. Len(w) /\ i < i + 1
      BY <3>1
    <3> QED
      BY <2>1, <3>2 DEF Lists
  <2> QED
    BY <2>2, <2>3 DEF w
<1>6. FindsListed
  BY <1>3, <1>4, SearchFinds DEF FindsListed
<1>7. RedBlack
  <2>1. BlackHeight(Here) \in Nat /\ Here.color[Here.root] = "black"
    BY <1>2, HeightsMeet DEF Balanced
  <2> QED
    BY <1>3, <2>1, HereIs DEF RedBlack
<1> QED
  BY <1>5, <1>6, <1>7

(* user_index.c: with one process every insertion and deletion, whatever   *)
(* came before it, leaves a balanced search tree of the users in the list, *)
(* so that the walks list them in order and a search finds them.           *)
THEOREM IndexStaysSound == ASSUME OneProcess PROVE IndexSpec => []IndexIsSound
<1>1. IndexSpec => []IndexInv
  BY IndexStaysInShape
<1>2. IndexInv => IndexIsSound
  BY ShapeIsSound
<1> QED
  BY <1>1, <1>2, PTL

===============================================================================
