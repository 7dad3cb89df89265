------------------------------ MODULE UserStore ------------------------------
(***************************************************************************)
(* The list of users in shared memory (src/user_store.c).  Processes add   *)
(* and delete under a process-shared mutex; the look-ups walk the list     *)
(* without it.  The index is the subject of UserIndex: here an insertion   *)
(* into it, or a deletion, is part of the step that ends the call.         *)
(*                                                                         *)
(* Only the holder of the mutex writes, so that what it reads of the list  *)
(* does not change under it: a search under the mutex is part of a step.   *)
(* A step of a writer ends where a process that reads without the mutex    *)
(* can see the difference, a step of a reader at each node.  Nodes come    *)
(* from a pool in the order of their numbers and are never used again; the *)
(* pool of the index nodes has the same size and is used in step.          *)
(***************************************************************************)
EXTENDS Integers, FiniteSets

CONSTANTS
  Procs,       \* the processes, or threads, that call the store
  Names,
  Loaded,      \* the users of the CSV file: Loaded[i] has node i
  NumLoaded,
  HeaderLines, \* 1 if the file starts with a line of column names, or 0
  PoolNodes,   \* USER_STORE_POOL_NODES
  None

ASSUME PoolAssumption ==
  /\ PoolNodes \in Nat /\ NumLoaded \in Nat /\ NumLoaded < PoolNodes
  /\ HeaderLines \in {0, 1}
  /\ Loaded \in [1 .. NumLoaded -> Names]
  /\ \A i, j \in 1 .. NumLoaded : Loaded[i] = Loaded[j] => i = j

ASSUME NoneAssumption == None \notin Procs \cup Names

head == 0                   \* the sentinel has the first slot of the pool
Slots == 0 .. PoolNodes - 1
Nodes == 1 .. PoolNodes - 1
End == -1                   \* next_off = 0, that is NULL

VARIABLES
  next, name, used,         \* the list nodes
  list_next_free, size, lock,
  pc, arg, cur,             \* of each process: control, name, node looked at
  linked,                   \* history: the nodes that are in the list
  present, absent           \* history: arg was, was not stored during the call

list == <<next, name, used, list_next_free, size, linked>>
calls == <<pc, arg, cur>>
seen == <<present, absent>>
vars == <<list, lock, calls, seen>>

(* The loader counts the lines that it stored, and the line of names.      *)
SizeLoaded == NumLoaded + HeaderLines

(* What the loader finds in front when it inserts node s.                  *)
Older(s) == IF s = 1 THEN End ELSE s - 1

Init ==
  /\ next = [s \in Slots |->
               IF s = head THEN Older(NumLoaded + 1)
               ELSE IF s <= NumLoaded THEN Older(s) ELSE End]
  /\ name = [s \in Slots |-> IF s \in 1 .. NumLoaded THEN Loaded[s] ELSE None]
  /\ used = [s \in Slots |-> s <= NumLoaded]
  /\ list_next_free = NumLoaded + 1
  /\ size = SizeLoaded
  /\ linked = 1 .. NumLoaded
  /\ lock = None
  /\ pc = [p \in Procs |-> "idle"]
  /\ arg = [p \in Procs |-> None]
  /\ cur = [p \in Procs |-> End]
  /\ present = [p \in Procs |-> FALSE]
  /\ absent = [p \in Procs |-> FALSE]

-----------------------------------------------------------------------------
(* The list.                                                               *)

Stored == {name[s] : s \in linked}

Matches(s, n) == used[s] /\ name[s] = n

(* A search under the mutex finds n. *)
Taken(n) == \E s \in linked : Matches(s, n)

Goto(p, label) == pc' = [pc EXCEPT ![p] = label]

-----------------------------------------------------------------------------
(* user_store_find, user_store_lookup_name, user_store_auth                *)

(* Its locals are gone with the call. *)
Leave(p) ==
  /\ Goto(p, "idle")
  /\ arg' = [arg EXCEPT ![p] = None]
  /\ cur' = [cur EXCEPT ![p] = End]
  /\ present' = [present EXCEPT ![p] = FALSE]
  /\ absent' = [absent EXCEPT ![p] = FALSE]

Call(p, n, label) ==
  /\ pc[p] = "idle"
  /\ Goto(p, label)
  /\ arg' = [arg EXCEPT ![p] = n]
  /\ UNCHANGED <<list, lock>>

CallFind(p, n) ==
  /\ Call(p, n, "walk")
  /\ cur' = [cur EXCEPT ![p] = next[head]]
  /\ present' = [present EXCEPT ![p] = n \in Stored]
  /\ absent' = [absent EXCEPT ![p] = n \notin Stored]

(* A node that does not match never will, so that next_off may be read in  *)
(* the same step.                                                          *)
Look(p) ==
  /\ pc[p] = "walk"
  /\ \/ cur[p] = End /\ Goto(p, "missed") /\ UNCHANGED cur
     \/ cur[p] # End /\ Matches(cur[p], arg[p])
        /\ Goto(p, "found") /\ UNCHANGED cur
     \/ cur[p] # End /\ ~Matches(cur[p], arg[p])
        /\ cur' = [cur EXCEPT ![p] = next[@]] /\ UNCHANGED pc
  /\ UNCHANGED <<list, lock, arg, seen>>

LooksFor(q, n) == pc[q] = "walk" /\ arg[q] = n

Return(p) ==
  /\ pc[p] \in {"missed", "found"}
  /\ Leave(p)
  /\ UNCHANGED <<list, lock>>

-----------------------------------------------------------------------------
(* user_store_add, user_store_delete                                       *)

CallAdd(p, n) == Call(p, n, "add") /\ UNCHANGED <<cur, seen>>
CallDelete(p, n) == Call(p, n, "delete") /\ UNCHANGED <<cur, seen>>

Acquire(p) ==
  /\ pc[p] \in {"add", "delete"} /\ lock = None
  /\ lock' = p
  /\ Goto(p, IF pc[p] = "add" THEN "adding" ELSE "deleting")
  /\ UNCHANGED <<list, arg, cur, seen>>

(* pthread_mutex_unlock, and return. *)
Unlock(p) ==
  /\ lock' = None
  /\ Leave(p)
  /\ UNCHANGED <<next, name, used, list_next_free, linked>>

(* list_alloc and tree_alloc return NULL. *)
Exhausted == list_next_free >= PoolNodes

ExistsKeepingLock(p) ==
  /\ pc[p] = "adding" /\ Taken(arg[p])
  /\ Leave(p) /\ UNCHANGED <<list, lock>>
Exists(p) ==
  /\ pc[p] = "adding" /\ Taken(arg[p])
  /\ Unlock(p) /\ UNCHANGED size

PoolFull(p) ==
  /\ pc[p] = "adding" /\ ~Taken(arg[p]) /\ Exhausted
  /\ Unlock(p) /\ UNCHANGED size

(* Filled, and inserted at the head. *)
Publish(p) ==
  LET node == list_next_free
  IN /\ pc[p] = "adding" /\ ~Taken(arg[p]) /\ ~Exhausted
     /\ list_next_free' = node + 1
     /\ name' = [name EXCEPT ![node] = arg[p]]
     /\ used' = [used EXCEPT ![node] = TRUE]
     /\ next' = [next EXCEPT ![node] = next[head], ![head] = node]
     /\ linked' = linked \cup {node}
     /\ present' = [q \in Procs |-> present[q] \/ LooksFor(q, arg[p])]
     /\ Goto(p, "indexing")
     /\ UNCHANGED <<size, lock, arg, cur, absent>>

Added(p) ==
  /\ pc[p] = "indexing"
  /\ size' = size + 1
  /\ Unlock(p)

NotThere(p) ==
  /\ pc[p] = "deleting" /\ ~Taken(arg[p])
  /\ Unlock(p) /\ UNCHANGED size

(* prev->next_off = cur->next_off *)
AroundFromHead(s) == [next EXCEPT ![head] = next[s]]
AroundAndCut(s) ==
  [r \in Slots |-> IF next[r] = s /\ r \in linked \cup {head} THEN next[s]
                   ELSE IF r = s THEN End ELSE next[r]]
Around(s) ==
  [r \in Slots |-> IF next[r] = s /\ r \in linked \cup {head} THEN next[s]
                   ELSE next[r]]

Unlink(p) ==
  /\ pc[p] = "deleting"
  /\ \E s \in linked :
       /\ Matches(s, arg[p])
       /\ next' = Around(s)
       /\ linked' = linked \ {s}
       /\ cur' = [cur EXCEPT ![p] = s]
  /\ absent' = [q \in Procs |-> absent[q] \/ LooksFor(q, arg[p])]
  /\ Goto(p, "unlinked")
  /\ UNCHANGED <<name, used, list_next_free, size, lock, arg, present>>

MarkUnused(p) ==
  /\ pc[p] = "unlinked"
  /\ used' = [used EXCEPT ![cur[p]] = FALSE]
  /\ Goto(p, "unindexing")
  /\ UNCHANGED <<next, name, list_next_free, size, linked, lock, arg, cur, seen>>

DeletedUncounted(p) ==
  /\ pc[p] = "unindexing"
  /\ UNCHANGED size
  /\ Unlock(p)
Deleted(p) ==
  /\ pc[p] = "unindexing"
  /\ size' = size - 1
  /\ Unlock(p)

(* A worker dies, wherever it is; the mutex is not a robust one.           *)
Crash(p) ==
  /\ pc[p] # "crashed"
  /\ Goto(p, "crashed")
  /\ UNCHANGED <<list, lock, arg, cur, seen>>

-----------------------------------------------------------------------------
(* What a process does once it has called.                                 *)
Runs(p) ==
  \/ Look(p) \/ Return(p)
  \/ Exists(p) \/ PoolFull(p) \/ Publish(p) \/ Added(p)
  \/ NotThere(p) \/ Unlink(p) \/ MarkUnused(p) \/ Deleted(p)

Over == (\A p \in Procs : pc[p] = "crashed") /\ UNCHANGED vars

Next ==
  \/ \E p \in Procs :
       \/ Acquire(p) \/ Runs(p) \/ Crash(p)
       \/ \E n \in Names : CallFind(p, n) \/ CallAdd(p, n) \/ CallDelete(p, n)
  \/ Over

(* A process is scheduled, and one that waits for the mutex gets it in the *)
(* end if it is released again and again.  Nobody need call, or crash.     *)
Spec ==
  /\ Init /\ [][Next]_vars
  /\ \A p \in Procs : WF_vars(Runs(p)) /\ SF_vars(Acquire(p))

-----------------------------------------------------------------------------
TypeOK ==
  /\ next \in [Slots -> Nodes \cup {End}]
  /\ name \in [Slots -> Names \cup {None}]
  /\ used \in [Slots -> BOOLEAN]
  /\ list_next_free \in 1 .. PoolNodes
  /\ size \in 0 .. PoolNodes
  /\ linked \subseteq Nodes
  /\ lock \in Procs \cup {None}
  /\ pc \in [Procs -> {"idle", "walk", "missed", "found", "add", "adding",
                       "indexing", "delete", "deleting", "unlinked",
                       "unindexing", "crashed"}]
  /\ arg \in [Procs -> Names \cup {None}]
  /\ cur \in [Procs -> Nodes \cup {End}]
  /\ present \in [Procs -> BOOLEAN] /\ absent \in [Procs -> BOOLEAN]

(* What the actions take for the list is the list: a walk from the head    *)
(* comes to every node that was put in and not unlinked, and to no other.  *)
WalkIsLinked ==
  LET reached[s \in Nodes] ==
        next[head] = s \/ \E r \in s + 1 .. PoolNodes - 1 :
                           next[r] = s /\ reached[r]
  IN  linked = {s \in Nodes : reached[s]}

(* The look-ups take no mutex.  Still one that returns a user returns one  *)
(* that was stored at some moment of the call, and one that returns NULL   *)
(* was called while the name was not stored at some moment: nodes that are *)
(* put in front, unlinked under the reader or left half done by a process  *)
(* that died never make it lose its way.                                   *)
FindIsExact ==
  \A p \in Procs :
    /\ pc[p] = "found" => name[cur[p]] = arg[p] /\ present[p]
    /\ pc[p] = "missed" => absent[p]

(* A name is stored once: the search for it and the insertion are under    *)
(* the same mutex.                                                         *)
NamesUnique ==
  \A s, t \in linked : name[s] = name[t] => s = t

(* Whenever the mutex is free g_header->size has gone up and down, since   *)
(* the file was loaded, by as many users as the list: additions and        *)
(* deletions that fail, race, meet a full pool or die never make it drift. *)
(* What it was after loading is SizeIsUserCount, below.                    *)
SizeKeepsPace ==
  lock = None => size - SizeLoaded = Cardinality(linked) - NumLoaded

(* Every call returns, unless a process died inside a critical section. A  *)
(* look-up ends although others insert and delete all the time.            *)
CallsReturn ==
  \A p \in Procs :
    pc[p] # "idle" ~> \/ pc[p] \in {"idle", "crashed"}
                      \/ lock # None /\ pc[lock] = "crashed"

-----------------------------------------------------------------------------
(* A statement of user_store.h that the code satisfies only if the file    *)
(* has no header line.                                                     *)

(* user_store.h:29 "current user count": user_store.c:199 counts a header  *)
(* line, line 241 stores the sum, and it is one too many for ever.         *)
SizeIsUserCount == lock = None => size = Cardinality(linked)

=============================================================================
