--------------------------- MODULE ThreadPoolProofs ---------------------------
(***************************************************************************)
(* Proofs about ThreadPool, for every number of workers, slots, callers    *)
(* and connections, and about PoolServer, which uses it.                   *)
(***************************************************************************)
EXTENDS PoolServer, Sequences, FiniteSetTheorems, SequenceTheorems, TLAPS

(* The constants that occur as bounds.                                     *)
LEMMA Sizes ==
  /\ CoreSize \in Nat /\ CoreSize > 0
  /\ MaxSize \in Nat /\ MaxSize > 0 /\ CoreSize <= MaxSize
  /\ Capacity \in Nat /\ Capacity > 0
  /\ Slots \subseteq Nat /\ 0 \in Slots
  /\ Positions \subseteq Nat /\ 0 \in Positions
  /\ Owner \in Callers
BY SizeAssumption, NameAssumption DEF Slots, Positions

(* pthread_join is called for a slot below max_size.                       *)
JoinInRange == cpc[Owner] = "joining" => joined < MaxSize

TypeInv == TypeOK /\ JoinInRange

(* A step along the ring stays on the ring.                                *)
LEMMA AdvanceInRange ==
  ASSUME NEW p \in Positions
  PROVE  Advance(p) \in Positions
BY SizeAssumption DEF Advance, Positions

LEMMA TypeInit == Init => TypeInv
<1> SUFFICES ASSUME Init PROVE TypeInv
  OBVIOUS
<1>1. /\ tasks \in [Positions -> Conns \cup {None}]
      /\ head \in Positions /\ tail \in Positions /\ count \in 0 .. Capacity
      /\ mutex \in Threads \cup {None}
  BY Sizes DEF Init
<1>2. /\ worker_active \in [Slots -> BOOLEAN]
      /\ workers \in [Slots -> Threads \cup {None}]
      /\ num_workers \in Int /\ peak_workers \in Int
      /\ total_processed \in Nat /\ total_errors \in Nat
  BY DEF Init
<1>3. /\ wpc \in [Threads -> WorkerPoints]
      /\ slot \in [Threads -> Slots]
      /\ is_core \in [Threads -> BOOLEAN]
      /\ job \in [Threads -> Conns \cup {None}]
  BY Sizes DEF Init, WorkerPoints
<1>4. /\ cpc \in [Callers -> CallerPoints]
      /\ arg \in [Callers -> Conns \cup {None}]
      /\ newslot \in [Callers -> Slots]
      /\ JoinInRange
  BY Sizes DEF Init, CallerPoints, JoinInRange
<1>5. shutdown \in BOOLEAN /\ freed \in BOOLEAN
  BY DEF Init
<1>6. /\ created \in 0 .. CoreSize /\ joined \in 0 .. MaxSize
      /\ fd \in [Conns -> {"fresh", "open", "closed", "rejected"}]
  BY Sizes DEF Init
<1> QED
  BY <1>1, <1>2, <1>3, <1>4, <1>5, <1>6 DEF TypeInv, TypeOK

LEMMA TypeWorker ==
  ASSUME TypeInv, NEW t \in Threads,
         WorkerLocks(t) \/ WorkerRuns(t) \/ Fault(t)
  PROVE  TypeInv'
<1> USE DEF TypeInv, TypeOK, JoinInRange, queue, slots, stats, threads, calls,
        life, WorkerPoints, Working, Leaving
<1>1. CASE FindEmpty(t)
  BY <1>1 DEF FindEmpty
<1>2. CASE CondWait(t)
  BY <1>2 DEF CondWait
<1>3. CASE TimedOut(t)
  BY <1>3 DEF TimedOut
<1>4. CASE IdleExit(t)
  BY <1>4 DEF IdleExit, ReleaseSlot
<1>5. CASE IdleUnlock(t)
  BY <1>5 DEF IdleUnlock
<1>6. CASE IdleReturn(t)
  BY <1>6 DEF IdleReturn
<1>7. CASE DrainExit(t)
  BY <1>7 DEF DrainExit, ReleaseSlot
<1>8. CASE DrainReturn(t)
  BY <1>8 DEF DrainReturn
<1>9. CASE Dequeue(t)
  <2>1. head' \in Positions /\ count' \in 0 .. Capacity
    BY <1>9, Sizes, AdvanceInRange DEF Dequeue
  <2>2. cpc' \in [Callers -> CallerPoints]
    BY <1>9 DEF Dequeue, SignalNotFull, Blocked, CallerPoints
  <2>3. cpc'[Owner] = "joining" => cpc[Owner] = "joining"
    BY <1>9, Sizes DEF Dequeue, SignalNotFull, Blocked
  <2> QED
    BY <1>9, <2>1, <2>2, <2>3 DEF Dequeue
<1>10. CASE Handle(t)
  BY <1>10 DEF Handle
<1>11. CASE CountTask(t)
  BY <1>11 DEF CountTask
<1>12. CASE Fault(t)
  BY <1>12 DEF Fault
<1> QED
  BY <1>1, <1>2, <1>3, <1>4, <1>5, <1>6, <1>7, <1>8, <1>9, <1>10, <1>11, <1>12
     DEF WorkerLocks, WorkerRuns

LEMMA TypeCaller ==
  ASSUME TypeInv, NEW c \in Callers,
         CallerLocks(c) \/ CallerRuns(c) \/ Returns(c)
  PROVE  TypeInv'
<1> USE Sizes DEF TypeInv, TypeOK, JoinInRange, queue, slots, stats, threads,
        calls, life, CallerPoints, Spawning, Destroying
<1>1. CASE Refuse(c)
  BY <1>1 DEF Refuse
<1>2. CASE WaitForRoom(c)
  BY <1>2 DEF WaitForRoom
<1>3. CASE Enqueue(c)
  <2>1. tail' \in Positions /\ count' \in 0 .. Capacity
    BY <1>3, AdvanceInRange DEF Enqueue, Full
  <2>2. wpc' \in [Threads -> WorkerPoints]
    BY <1>3 DEF Enqueue, SignalNotEmpty, Sleepers, WorkerPoints, Working
  <2>3. /\ tasks' \in [Positions -> Conns \cup {None}]
        /\ arg' \in [Callers -> Conns \cup {None}]
    BY <1>3 DEF Enqueue
  <2>4. /\ cpc' \in [Callers -> CallerPoints]
        /\ cpc'[Owner] = "joining" => cpc[Owner] = "joining"
    BY <1>3 DEF Enqueue
  <2> QED
    BY <1>3, <2>1, <2>2, <2>3, <2>4 DEF Enqueue
<1>4. CASE ReserveSlot(c)
  <2>1. /\ worker_active' \in [Slots -> BOOLEAN]
        /\ newslot' \in [Callers -> Slots]
    BY <1>4 DEF ReserveSlot
  <2> QED
    BY <1>4, <2>1 DEF ReserveSlot
<1>5. CASE NoFreeSlot(c)
  BY <1>5 DEF NoFreeSlot, SpawnFailed
<1>6. CASE Rollback(c)
  BY <1>6 DEF Rollback, ReleaseSlot, SpawnFailed
<1>7. CASE RecordPeak(c)
  BY <1>7 DEF RecordPeak, Higher
<1>8. CASE CreateThread(c)
  <2>1. created' \in 0 .. CoreSize
    BY <1>8 DEF CreateThread, Creating
  <2>2. PICK t \in Threads :
          /\ wpc' = [wpc EXCEPT ![t] = "lock"]
          /\ slot' = [slot EXCEPT ![t] = newslot[c]]
          /\ is_core' = [is_core EXCEPT ![t] = Creating]
          /\ workers' = [workers EXCEPT ![newslot[c]] = t]
    BY <1>8 DEF CreateThread
  <2>3. /\ wpc' \in [Threads -> WorkerPoints]
        /\ slot' \in [Threads -> Slots]
        /\ workers' \in [Slots -> Threads \cup {None}]
    BY <2>2 DEF WorkerPoints, Working
  <2>4. is_core' \in [Threads -> BOOLEAN]
    BY <2>2 DEF Creating
  <2>5. /\ cpc' \in [Callers -> CallerPoints]
        /\ cpc'[Owner] = "joining" => cpc[Owner] = "joining"
    BY <1>8 DEF CreateThread
  <2> QED
    BY <1>8, <2>1, <2>3, <2>4, <2>5 DEF CreateThread
<1>9. CASE CreateFails(c)
  BY <1>9 DEF CreateFails
<1>10. CASE ReturnAccepted(c)
  BY <1>10 DEF ReturnAccepted
<1>11. CASE ReturnRefused(c)
  BY <1>11 DEF ReturnRefused
<1> QED
  BY <1>1, <1>2, <1>3, <1>4, <1>5, <1>6, <1>7, <1>8, <1>9, <1>10, <1>11
     DEF CallerLocks, CallerRuns, Returns

LEMMA TypeAddTask ==
  ASSUME TypeInv, NEW c \in Callers, NEW f \in Conns, AddTask(c, f)
  PROVE  TypeInv'
BY DEF TypeInv, TypeOK, JoinInRange, AddTask, queue, slots, stats, threads,
   life, CallerPoints

LEMMA TypeOwner ==
  ASSUME TypeInv, Shutdown \/ OwnerRuns
  PROVE  TypeInv'
<1> USE Sizes DEF TypeInv, TypeOK, JoinInRange, queue, slots, stats, threads,
        calls, life, CallerPoints, Destroying
<1>1. CASE Abort
  BY <1>1 DEF Abort, BroadcastNotEmpty, WorkerPoints, Working
<1>2. CASE Shutdown
  BY <1>2 DEF Shutdown, BroadcastNotEmpty, WorkerPoints, Working
<1>3. CASE Destroy
  BY <1>3 DEF Destroy
<1>4. CASE ScanSlot
  BY <1>4 DEF ScanSlot
<1>5. CASE Join
  <2>1. wpc' \in [Threads -> WorkerPoints]
    BY <1>5 DEF Join, WorkerPoints
  <2>2. joined' \in 0 .. MaxSize
    BY <1>5 DEF Join
  <2>3. cpc' \in [Callers -> CallerPoints] /\ cpc'[Owner] = "scan"
    BY <1>5 DEF Join
  <2> QED
    BY <1>5, <2>1, <2>2, <2>3 DEF Join
<1>6. CASE Free
  BY <1>6 DEF Free
<1> QED
  BY <1>1, <1>2, <1>3, <1>4, <1>5, <1>6 DEF OwnerRuns

LEMMA TypeWakeup ==
  ASSUME TypeInv, Wakeup
  PROVE  TypeInv'
<1>1. wpc' \in [Threads -> WorkerPoints]
  BY DEF TypeInv, TypeOK, Wakeup, SpuriousWakeup, Sleepers, WorkerPoints,
     Working
<1>2. /\ cpc' \in [Callers -> CallerPoints]
      /\ cpc'[Owner] = "joining" => cpc[Owner] = "joining"
  BY Sizes DEF TypeInv, TypeOK, Wakeup, SpuriousWakeup, Blocked, CallerPoints
<1> QED
  BY <1>1, <1>2 DEF TypeInv, TypeOK, JoinInRange, Wakeup, queue, slots, stats,
     life

LEMMA TypeStutter ==
  ASSUME TypeInv, UNCHANGED vars
  PROVE  TypeInv'
BY DEF TypeInv, TypeOK, JoinInRange, vars, queue, slots, stats, threads, calls,
   life

LEMMA TypeStep == TypeInv /\ [Next]_vars => TypeInv'
BY TypeWorker, TypeCaller, TypeAddTask, TypeOwner, TypeWakeup, TypeStutter
   DEF Next, Finished

(* Every field of the pool and every local stays in its range: indices on  *)
(* the ring, a count between 0 and capacity, slots below max_size.         *)
THEOREM TypeCorrect == Spec => []TypeOK
<1>1. TypeInv => TypeOK
  BY DEF TypeInv
<1> QED
  BY TypeInit, TypeStep, <1>1, PTL DEF Spec, Safety

-----------------------------------------------------------------------------
(* Slots.  SlotsMatchWorkers is inductive given the types; the handle kept *)
(* in a slot is that of the thread that occupies it.                       *)

HandlesMatch == \A t \in Threads : wpc[t] \in Working => workers[slot[t]] = t

SlotInv == SlotsMatchWorkers /\ HandlesMatch

(* A step that leaves every slot with whoever has it.                      *)
SameSlots ==
  /\ \A t \in Threads : wpc'[t] \in Working <=> wpc[t] \in Working
  /\ \A c \in Callers : cpc'[c] \in Spawning <=> cpc[c] \in Spawning
  /\ slot' = slot /\ newslot' = newslot
  /\ worker_active' = worker_active /\ workers' = workers
  /\ num_workers' = num_workers

(* There are finitely many slots, so adding or removing one counts one.    *)
LEMMA ActiveSlotsFinite ==
  /\ IsFiniteSet(ActiveSlots)
  /\ \A s \in Slots :
       /\ s \notin ActiveSlots =>
            Cardinality(ActiveSlots \cup {s}) = Cardinality(ActiveSlots) + 1
       /\ s \in ActiveSlots =>
            Cardinality(ActiveSlots \ {s}) = Cardinality(ActiveSlots) - 1
<1>1. IsFiniteSet(Slots)
  BY FS_Interval, Sizes DEF Slots
<1>2. IsFiniteSet(ActiveSlots)
  BY <1>1, FS_Subset DEF ActiveSlots
<1> QED
  BY <1>2, FS_AddElement, FS_RemoveElement

LEMMA SlotInit == Init => SlotInv
<1> SUFFICES ASSUME Init PROVE SlotInv
  OBVIOUS
<1>1. ActiveSlots = {}
  BY DEF Init, ActiveSlots
<1>2. num_workers = Cardinality(ActiveSlots)
  BY <1>1, FS_EmptySet DEF Init
<1> QED
  BY <1>2 DEF Init, SlotInv, SlotsMatchWorkers, HandlesMatch, Occupies,
     Reserves, Working, Spawning

LEMMA SlotFrame ==
  ASSUME SlotInv, SameSlots
  PROVE  SlotInv'
<1>1. ActiveSlots' = ActiveSlots
  BY DEF SameSlots, ActiveSlots
<1>2. num_workers' = Cardinality(ActiveSlots')
  BY <1>1 DEF SlotInv, SlotsMatchWorkers, SameSlots
<1>3. \A s \in Slots :
        /\ \A t \in Threads : Occupies(t, s)' <=> Occupies(t, s)
        /\ \A c \in Callers : Reserves(c, s)' <=> Reserves(c, s)
  BY DEF SameSlots, Occupies, Reserves
<1> QED
  BY <1>2, <1>3 DEF SlotInv, SlotsMatchWorkers, HandlesMatch, SameSlots

(* The worker's side: a slot is released by the thread that occupies it.   *)
LEMMA SlotRelease ==
  ASSUME TypeInv, SlotInv, NEW t \in Threads,
         wpc[t] \in Working, ReleaseSlot(slot[t]),
         NEW pc \in Leaving, wpc' = [wpc EXCEPT ![t] = pc],
         UNCHANGED <<slot, cpc, newslot>>
  PROVE  SlotInv'
<1> USE DEF TypeInv, TypeOK
<1>1. Occupies(t, slot[t]) /\ slot[t] \in Slots
  BY DEF Occupies
<1>2. slot[t] \in ActiveSlots
  BY <1>1 DEF SlotInv, SlotsMatchWorkers, ActiveSlots
<1>3. ActiveSlots' = ActiveSlots \ {slot[t]}
  BY <1>1 DEF ReleaseSlot, ActiveSlots
<1>4. num_workers' = Cardinality(ActiveSlots')
  BY <1>1, <1>2, <1>3, ActiveSlotsFinite
     DEF ReleaseSlot, SlotInv, SlotsMatchWorkers
<1>5. \A u \in Threads, s \in Slots :
        Occupies(u, s)' <=> u # t /\ Occupies(u, s)
  BY DEF Occupies, Working, Leaving
<1>6. \A c \in Callers, s \in Slots : Reserves(c, s)' <=> Reserves(c, s)
  BY DEF Reserves
<1>7. \A s \in Slots : worker_active'[s] <=> s # slot[t] /\ worker_active[s]
  BY <1>1 DEF ReleaseSlot
<1>8. \A s \in Slots :
        worker_active'[s] <=> \/ \E u \in Threads : Occupies(u, s)'
                               \/ \E c \in Callers : Reserves(c, s)'
  <2> SUFFICES ASSUME NEW s \in Slots
               PROVE  worker_active'[s] <=>
                        \/ \E u \in Threads : Occupies(u, s)'
                        \/ \E c \in Callers : Reserves(c, s)'
    OBVIOUS
  <2>1. CASE s = slot[t]
    BY <2>1, <1>1, <1>5, <1>6, <1>7 DEF SlotInv, SlotsMatchWorkers
  <2>2. CASE s # slot[t]
    <3>1. \A u \in Threads : Occupies(u, s)' <=> Occupies(u, s)
      BY <2>2, <1>5 DEF Occupies
    <3> QED
      BY <3>1, <2>2, <1>6, <1>7 DEF SlotInv, SlotsMatchWorkers
  <2> QED
    BY <2>1, <2>2
<1>9. HandlesMatch'
  BY DEF HandlesMatch, SlotInv, ReleaseSlot, Working, Leaving
<1> QED
  BY <1>4, <1>5, <1>6, <1>8, <1>9 DEF SlotInv, SlotsMatchWorkers

LEMMA SlotWorker ==
  ASSUME TypeInv, SlotInv, NEW t \in Threads,
         WorkerLocks(t) \/ WorkerRuns(t) \/ Fault(t)
  PROVE  SlotInv'
<1> USE DEF TypeInv, TypeOK, slots, calls, Working, Leaving, SameSlots
<1>1. CASE IdleExit(t)
  BY <1>1, SlotRelease DEF IdleExit
<1>2. CASE DrainExit(t)
  BY <1>2, SlotRelease DEF DrainExit, Awake
<1>3. CASE Dequeue(t)
  <2>1. \A c \in Callers : cpc'[c] \in Spawning <=> cpc[c] \in Spawning
    BY <1>3 DEF Dequeue, SignalNotFull, Blocked, Spawning
  <2>2. \A u \in Threads : wpc'[u] \in Working <=> wpc[u] \in Working
    BY <1>3 DEF Dequeue, Awake
  <2> QED
    BY <1>3, <2>1, <2>2, SlotFrame DEF Dequeue
<1>4. CASE FindEmpty(t)
  BY <1>4, SlotFrame DEF FindEmpty
<1>5. CASE CondWait(t)
  BY <1>5, SlotFrame DEF CondWait
<1>6. CASE TimedOut(t)
  BY <1>6, SlotFrame DEF TimedOut, TimedWait
<1>7. CASE IdleUnlock(t)
  BY <1>7, SlotFrame DEF IdleUnlock
<1>8. CASE IdleReturn(t)
  BY <1>8, SlotFrame DEF IdleReturn
<1>9. CASE DrainReturn(t)
  BY <1>9, SlotFrame DEF DrainReturn
<1>10. CASE Handle(t)
  BY <1>10, SlotFrame DEF Handle
<1>11. CASE CountTask(t)
  BY <1>11, SlotFrame DEF CountTask
<1>12. CASE Fault(t)
  BY <1>12, SlotFrame DEF Fault
<1> QED
  BY <1>1, <1>2, <1>3, <1>4, <1>5, <1>6, <1>7, <1>8, <1>9, <1>10, <1>11, <1>12
     DEF WorkerLocks, WorkerRuns

(* A free slot is claimed: nobody has it yet.                              *)
LEMMA SlotReserve ==
  ASSUME TypeInv, SlotInv, NEW c \in Callers, ReserveSlot(c)
  PROVE  SlotInv'
<1> USE DEF TypeInv, TypeOK
<1>1. PICK s \in Slots :
        /\ ~worker_active[s]
        /\ worker_active' = [worker_active EXCEPT ![s] = TRUE]
        /\ newslot' = [newslot EXCEPT ![c] = s]
  BY DEF ReserveSlot
<1>2. ActiveSlots' = ActiveSlots \cup {s} /\ s \notin ActiveSlots
  BY <1>1 DEF ActiveSlots
<1>3. num_workers' = Cardinality(ActiveSlots')
  BY <1>2, ActiveSlotsFinite DEF ReserveSlot, SlotInv, SlotsMatchWorkers
<1>4. \A t \in Threads, r \in Slots : Occupies(t, r)' <=> Occupies(t, r)
  BY DEF ReserveSlot, threads, Occupies
<1>5. /\ ~ \E t \in Threads : Occupies(t, s)
      /\ ~ \E d \in Callers : Reserves(d, s)
  BY <1>1 DEF SlotInv, SlotsMatchWorkers
<1>6. \A d \in Callers, r \in Slots :
        Reserves(d, r)' <=> (d = c /\ r = s) \/ (d # c /\ Reserves(d, r))
  BY <1>1 DEF ReserveSlot, Reserves, Spawning
<1>7. \A r \in Slots : ~Reserves(c, r)
  BY DEF ReserveSlot, Reserves, Spawning
<1>8. \A r \in Slots : worker_active'[r] <=> r = s \/ worker_active[r]
  BY <1>1
<1>9. ASSUME NEW r \in Slots
      PROVE  /\ worker_active'[r] <=> \/ \E t \in Threads : Occupies(t, r)'
                                      \/ \E d \in Callers : Reserves(d, r)'
             /\ \A d, e \in Callers :
                  Reserves(d, r)' /\ Reserves(e, r)' => d = e
             /\ \A t \in Threads, d \in Callers :
                  ~(Occupies(t, r)' /\ Reserves(d, r)')
  <2>1. CASE r = s
    BY <2>1, <1>4, <1>5, <1>6, <1>8
  <2>2. CASE r # s
    <3>1. \A d \in Callers : Reserves(d, r)' <=> Reserves(d, r)
      BY <2>2, <1>6, <1>7
    <3> QED
      BY <2>2, <3>1, <1>4, <1>8 DEF SlotInv, SlotsMatchWorkers
  <2> QED
    BY <2>1, <2>2
<1>10. HandlesMatch'
  BY DEF HandlesMatch, SlotInv, ReserveSlot, threads
<1> QED
  BY <1>3, <1>4, <1>9, <1>10 DEF SlotInv, SlotsMatchWorkers

(* The creation failed: the claim is rolled back.                          *)
LEMMA SlotRollback ==
  ASSUME TypeInv, SlotInv, NEW c \in Callers, Rollback(c)
  PROVE  SlotInv'
<1> USE DEF TypeInv, TypeOK
<1>1. Reserves(c, newslot[c]) /\ newslot[c] \in Slots
  BY DEF Rollback, Reserves, Spawning
<1>2. newslot[c] \in ActiveSlots
  BY <1>1 DEF SlotInv, SlotsMatchWorkers, ActiveSlots
<1>3. ActiveSlots' = ActiveSlots \ {newslot[c]}
  BY <1>1 DEF Rollback, ReleaseSlot, ActiveSlots
<1>4. num_workers' = Cardinality(ActiveSlots')
  BY <1>1, <1>2, <1>3, ActiveSlotsFinite
     DEF Rollback, ReleaseSlot, SlotInv, SlotsMatchWorkers
<1>5. \A t \in Threads, r \in Slots : Occupies(t, r)' <=> Occupies(t, r)
  BY DEF Rollback, threads, Occupies
<1>6. \A d \in Callers, r \in Slots :
        Reserves(d, r)' <=> d # c /\ Reserves(d, r)
  BY DEF Rollback, Reserves, Spawning, SpawnFailed
<1>7. \A r \in Slots :
        worker_active'[r] <=> r # newslot[c] /\ worker_active[r]
  BY <1>1 DEF Rollback, ReleaseSlot
<1>8. ASSUME NEW r \in Slots
      PROVE  worker_active'[r] <=> \/ \E t \in Threads : Occupies(t, r)'
                                  \/ \E d \in Callers : Reserves(d, r)'
  <2>1. CASE r = newslot[c]
    BY <2>1, <1>1, <1>5, <1>6, <1>7 DEF SlotInv, SlotsMatchWorkers
  <2>2. CASE r # newslot[c]
    <3>1. \A d \in Callers : Reserves(d, r)' <=> Reserves(d, r)
      BY <2>2, <1>6 DEF Reserves
    <3> QED
      BY <2>2, <3>1, <1>5, <1>7 DEF SlotInv, SlotsMatchWorkers
  <2> QED
    BY <2>1, <2>2
<1>9. HandlesMatch'
  BY DEF HandlesMatch, SlotInv, Rollback, ReleaseSlot, threads
<1> QED
  BY <1>4, <1>5, <1>6, <1>8, <1>9 DEF SlotInv, SlotsMatchWorkers

(* The new thread takes over the slot reserved for it.                     *)
LEMMA SlotCreate ==
  ASSUME TypeInv, SlotInv, NEW c \in Callers, CreateThread(c)
  PROVE  SlotInv'
<1> USE DEF TypeInv, TypeOK
<1>1. PICK t \in Threads :
        /\ wpc[t] = "none"
        /\ wpc' = [wpc EXCEPT ![t] = "lock"]
        /\ slot' = [slot EXCEPT ![t] = newslot[c]]
        /\ workers' = [workers EXCEPT ![newslot[c]] = t]
  BY DEF CreateThread
<1>2. Reserves(c, newslot[c]) /\ newslot[c] \in Slots
  BY DEF CreateThread, Reserves, Spawning
<1>3. num_workers' = Cardinality(ActiveSlots')
  BY DEF CreateThread, ActiveSlots, SlotInv, SlotsMatchWorkers
<1>4. \A u \in Threads, r \in Slots :
        Occupies(u, r)' <=> \/ u = t /\ r = newslot[c]
                            \/ u # t /\ Occupies(u, r)
  BY <1>1 DEF Occupies, Working
<1>5. \A r \in Slots : ~Occupies(t, r)
  BY <1>1 DEF Occupies, Working
<1>6. \A d \in Callers, r \in Slots :
        Reserves(d, r)' <=> d # c /\ Reserves(d, r)
  BY DEF CreateThread, Reserves, Spawning
<1>7. worker_active' = worker_active
  BY DEF CreateThread
<1>8. ASSUME NEW r \in Slots
      PROVE  /\ worker_active'[r] <=> \/ \E u \in Threads : Occupies(u, r)'
                                      \/ \E d \in Callers : Reserves(d, r)'
             /\ \A u, v \in Threads :
                  Occupies(u, r)' /\ Occupies(v, r)' => u = v
             /\ \A u \in Threads, d \in Callers :
                  ~(Occupies(u, r)' /\ Reserves(d, r)')
  <2>1. CASE r = newslot[c]
    BY <2>1, <1>2, <1>4, <1>6, <1>7 DEF SlotInv, SlotsMatchWorkers
  <2>2. CASE r # newslot[c]
    <3>1. /\ \A u \in Threads : Occupies(u, r)' <=> Occupies(u, r)
          /\ \A d \in Callers : Reserves(d, r)' <=> Reserves(d, r)
      BY <2>2, <1>4, <1>5, <1>6 DEF Reserves
    <3> QED
      BY <3>1, <1>7 DEF SlotInv, SlotsMatchWorkers
  <2> QED
    BY <2>1, <2>2
<1>9. \A u \in Threads : wpc[u] \in Working => slot[u] # newslot[c]
  BY <1>2 DEF SlotInv, SlotsMatchWorkers, Occupies
<1>10. HandlesMatch'
  BY <1>1, <1>2, <1>9 DEF HandlesMatch, SlotInv, Working
<1> QED
  BY <1>3, <1>6, <1>8, <1>10 DEF SlotInv, SlotsMatchWorkers

LEMMA SlotCaller ==
  ASSUME TypeInv, SlotInv, NEW c \in Callers,
         CallerLocks(c) \/ CallerRuns(c) \/ Returns(c)
  PROVE  SlotInv'
<1> USE DEF TypeInv, TypeOK, slots, threads, Spawning, SameSlots
<1>1. CASE ReserveSlot(c)
  BY <1>1, SlotReserve
<1>2. CASE Rollback(c)
  BY <1>2, SlotRollback
<1>3. CASE CreateThread(c)
  BY <1>3, SlotCreate
<1>4. CASE Enqueue(c)
  <2>1. \A t \in Threads : wpc'[t] \in Working <=> wpc[t] \in Working
    BY <1>4 DEF Enqueue, SignalNotEmpty, Sleepers, Working
  <2>2. \A d \in Callers : cpc'[d] \in Spawning <=> cpc[d] \in Spawning
    BY <1>4 DEF Enqueue
  <2> QED
    BY <1>4, <2>1, <2>2, SlotFrame DEF Enqueue
<1>5. CASE Refuse(c)
  BY <1>5, SlotFrame DEF Refuse
<1>6. CASE WaitForRoom(c)
  BY <1>6, SlotFrame DEF WaitForRoom
<1>7. CASE NoFreeSlot(c)
  BY <1>7, SlotFrame DEF NoFreeSlot, SpawnFailed
<1>8. CASE RecordPeak(c)
  BY <1>8, SlotFrame DEF RecordPeak
<1>9. CASE CreateFails(c)
  BY <1>9, SlotFrame DEF CreateFails
<1>10. CASE ReturnAccepted(c)
  BY <1>10, SlotFrame DEF ReturnAccepted
<1>11. CASE ReturnRefused(c)
  BY <1>11, SlotFrame DEF ReturnRefused
<1> QED
  BY <1>1, <1>2, <1>3, <1>4, <1>5, <1>6, <1>7, <1>8, <1>9, <1>10, <1>11
     DEF CallerLocks, CallerRuns, Returns

LEMMA SlotRest ==
  ASSUME TypeInv, SlotInv,
         \/ \E c \in Callers, f \in Conns : AddTask(c, f)
         \/ Shutdown
         \/ OwnerRuns
         \/ Wakeup
         \/ UNCHANGED vars
  PROVE  SlotInv'
<1> USE Sizes DEF TypeInv, TypeOK, slots, threads, calls, Spawning, SameSlots
<1>1. CASE \E c \in Callers, f \in Conns : AddTask(c, f)
  BY <1>1, SlotFrame DEF AddTask
<1>2. CASE Shutdown
  BY <1>2, SlotFrame DEF Shutdown, BroadcastNotEmpty, Working
<1>3. CASE Abort
  BY <1>3, SlotFrame DEF Abort, BroadcastNotEmpty, Working
<1>4. CASE Destroy
  BY <1>4, SlotFrame DEF Destroy
<1>5. CASE ScanSlot
  BY <1>5, SlotFrame DEF ScanSlot
<1>6. CASE Join
  BY <1>6, SlotFrame DEF Join, Working
<1>7. CASE Free
  BY <1>7, SlotFrame DEF Free
<1>8. CASE Wakeup
  BY <1>8, SlotFrame DEF Wakeup, SpuriousWakeup, Sleepers, Blocked, Working
<1>9. CASE UNCHANGED vars
  BY <1>9, SlotFrame DEF vars
<1> QED
  BY <1>1, <1>2, <1>3, <1>4, <1>5, <1>6, <1>7, <1>8, <1>9 DEF OwnerRuns

LEMMA SlotStep == TypeInv /\ SlotInv /\ [Next]_vars => SlotInv'
BY SlotWorker, SlotCaller, SlotRest DEF Next, Finished

(* num_workers counts the active slots exactly, and each active slot is    *)
(* held by one working thread or one pending creation, whatever the order  *)
(* of claims, roll-backs and releases.                                     *)
THEOREM SlotsCorrect == Spec => []SlotsMatchWorkers
<1>1. TypeInv /\ SlotInv => SlotsMatchWorkers
  BY DEF SlotInv
<1> QED
  BY TypeInit, TypeStep, SlotInit, SlotStep, <1>1, PTL DEF Spec, Safety

-----------------------------------------------------------------------------
(* The ring, and who holds which connection.                               *)

(* n positions of the ring from h on. *)
Ring(h, n) == {(h + i) % Capacity : i \in 0 .. n - 1}

RingInv == tail = (head + count) % Capacity

Offering == {"add", "notFull", "refused"}

(* A descriptor is in the hands of a caller, in the ring or in the hands   *)
(* of a worker only at certain steps, never in two places, and in one of   *)
(* them just as long as it is open.                                        *)
HeldAtSteps ==
  /\ \A c \in Callers : arg[c] # None <=> cpc[c] \in Offering
  /\ \A t \in Threads : job[t] # None <=> wpc[t] = "handle"
  /\ \A p \in Pending : tasks[p] # None

HeldOnce ==
  /\ \A c, d \in Callers : arg[c] = arg[d] /\ arg[c] # None => c = d
  /\ \A t, u \in Threads : job[t] = job[u] /\ job[t] # None => t = u
  /\ \A p, q \in Pending : tasks[p] = tasks[q] => p = q
  /\ \A c \in Callers, t \in Threads : arg[c] = job[t] => arg[c] = None
  /\ \A c \in Callers, p \in Pending : arg[c] # tasks[p]
  /\ \A t \in Threads, p \in Pending : job[t] # tasks[p]

Holds(f) ==
  \/ \E c \in Callers : arg[c] = f
  \/ \E p \in Pending : tasks[p] = f
  \/ \E t \in Threads : job[t] = f

OpenAreHeld == \A f \in Conns : fd[f] = "open" <=> Holds(f)

HoldInv == RingInv /\ HeldAtSteps /\ HeldOnce /\ OpenAreHeld

-----------------------------------------------------------------------------
(* The core workers, and the end of the pool.                              *)

Core == {t \in Threads : is_core[t]}

(* There are as many core workers as were created, and they leave only     *)
(* when the pool is drained: none of them ever waits with a limit.         *)
CoreInv ==
  /\ IsFiniteSet(Core) /\ Cardinality(Core) = created
  /\ \A t \in Core : /\ wpc[t] \notin {"none", "late"}
                     /\ wpc[t] \in Working \/ (shutdown /\ count = 0)

(* The owner destroys the pool when nobody else is in it, and passes only  *)
(* slots that nobody has or will have again.                               *)
OwnerPoints == {"reserve", "abort"} \cup Spawning \cup Destroying

EndInv ==
  /\ Creating => /\ count = 0 /\ \A f \in Conns : fd[f] = "fresh"
                 /\ \A c \in Callers \ {Owner} : cpc[c] = "ready"
                 /\ cpc[Owner] \in OwnerPoints
  /\ cpc[Owner] = "abort" => Creating
  /\ cpc[Owner] \in Destroying \cup {"stopped"} => shutdown
  /\ cpc[Owner] \in Destroying =>
       /\ \A c \in Callers \ {Owner} : cpc[c] = "ready"
       /\ \A s \in Slots : s < joined => ~worker_active[s]
  /\ cpc[Owner] = "gone" <=> freed
  /\ freed => joined = MaxSize
  /\ cpc[Owner] \notin Destroying => joined = 0

IInv == TypeInv /\ SlotInv /\ HoldInv /\ CoreInv /\ EndInv

-----------------------------------------------------------------------------
(* The server: which point of the main thread goes with which point of the *)
(* call it has made, and the account of the connections it counts.         *)

ServerControl ==
  /\ server = "create" =>
       /\ cpc[Owner] \in {"ready"} \cup OwnerPoints
       /\ cpc[Owner] \in {"reserve"} \cup Spawning => Creating
  /\ server \in {"loop", "calling", "accept", "close"} => cpc[Owner] = "ready"
  /\ server = "submit" =>
       cpc[Owner] \in Offering \cup {"accepted", "reserve"} \cup Spawning
  /\ server = "destroy" => cpc[Owner] \in {"stopped"} \cup Destroying
  /\ server \in {"exit", "failed"} => cpc[Owner] = "gone"
  /\ server # "create" /\ server # "failed" => ~Creating

Busy == {t \in Threads : wpc[t] \in {"handle", "ok", "err"}}

(* Enqueued by the call that has not returned yet. *)
Uncounted ==
  IF server = "submit"
       /\ cpc[Owner] \in {"accepted", "reserve"} \cup Spawning
  THEN 1 ELSE 0

Account ==
  /\ IsFiniteSet(Busy) /\ clients_served \in Int
  /\ clients_served + Uncounted = count + Cardinality(Busy) + total_processed

ServerIInv == IInv /\ server \in ServerPoints /\ ServerControl /\ Account

-----------------------------------------------------------------------------
(* The ring.                                                               *)

LEMMA RingSteps ==
  ASSUME NEW h \in Positions, NEW i \in 0 .. Capacity
  PROVE  /\ (h + i) % Capacity = IF h + i < Capacity THEN h + i
                                                     ELSE h + i - Capacity
         /\ (h + i) % Capacity \in Positions
BY SizeAssumption DEF Positions

(* No two places of a ring that is not over-full are the same position.    *)
LEMMA RingInjective ==
  ASSUME NEW h \in Positions, NEW i \in 0 .. Capacity - 1,
         NEW j \in 0 .. Capacity - 1,
         (h + i) % Capacity = (h + j) % Capacity
  PROVE  i = j
<1>1. i \in 0 .. Capacity /\ j \in 0 .. Capacity
  BY SizeAssumption
<1>2. /\ (h + i) % Capacity = IF h + i < Capacity THEN h + i
                                                  ELSE h + i - Capacity
      /\ (h + j) % Capacity = IF h + j < Capacity THEN h + j
                                                  ELSE h + j - Capacity
  BY <1>1, RingSteps
<1> QED
  BY <1>2, SizeAssumption DEF Positions

LEMMA RingGrows ==
  ASSUME NEW h \in Positions, NEW n \in 0 .. Capacity - 1
  PROVE  /\ Ring(h, n + 1) = Ring(h, n) \cup {(h + n) % Capacity}
         /\ (h + n) % Capacity \notin Ring(h, n)
         /\ Advance((h + n) % Capacity) = (h + (n + 1)) % Capacity
<1>1. 0 .. (n + 1) - 1 = (0 .. n - 1) \cup {n}
  BY SizeAssumption
<1>2. Ring(h, n + 1) = Ring(h, n) \cup {(h + n) % Capacity}
  BY <1>1 DEF Ring
<1>3. \A i \in 0 .. n - 1 : i \in 0 .. Capacity - 1 /\ i # n
  BY SizeAssumption
<1>4. (h + n) % Capacity \notin Ring(h, n)
  BY <1>3, RingInjective DEF Ring
<1>5. Advance((h + n) % Capacity) = (h + (n + 1)) % Capacity
  <2>1. n \in 0 .. Capacity /\ n + 1 \in 0 .. Capacity
    BY SizeAssumption
  <2>2. /\ (h + n) % Capacity = IF h + n < Capacity THEN h + n
                                                    ELSE h + n - Capacity
        /\ (h + n) % Capacity \in Positions
    BY <2>1, RingSteps
  <2>3. (h + (n + 1)) % Capacity = IF h + (n + 1) < Capacity THEN h + (n + 1)
                                   ELSE h + (n + 1) - Capacity
    BY <2>1, RingSteps
  <2>4. 1 \in 0 .. Capacity
    BY SizeAssumption
  <2>5. Advance((h + n) % Capacity)
          = IF ((h + n) % Capacity) + 1 < Capacity
            THEN ((h + n) % Capacity) + 1
            ELSE ((h + n) % Capacity) + 1 - Capacity
    BY <2>2, <2>4, RingSteps DEF Advance
  <2> QED
    BY <2>2, <2>3, <2>5, SizeAssumption DEF Positions
<1> QED
  BY <1>2, <1>4, <1>5

LEMMA RingShifts ==
  ASSUME NEW h \in Positions, NEW i \in 0 .. Capacity - 1
  PROVE  (Advance(h) + i) % Capacity = (h + (i + 1)) % Capacity
<1>1. i \in 0 .. Capacity /\ i + 1 \in 0 .. Capacity /\ 1 \in 0 .. Capacity
  BY SizeAssumption
<1>2. /\ Advance(h) = IF h + 1 < Capacity THEN h + 1 ELSE h + 1 - Capacity
      /\ Advance(h) \in Positions
  BY <1>1, RingSteps DEF Advance
<1>3. (Advance(h) + i) % Capacity
        = IF Advance(h) + i < Capacity THEN Advance(h) + i
          ELSE Advance(h) + i - Capacity
  BY <1>1, <1>2, RingSteps
<1>4. (h + (i + 1)) % Capacity = IF h + (i + 1) < Capacity THEN h + (i + 1)
                                 ELSE h + (i + 1) - Capacity
  BY <1>1, RingSteps
<1> QED
  BY <1>2, <1>3, <1>4, SizeAssumption DEF Positions

LEMMA RingShrinks ==
  ASSUME NEW h \in Positions, NEW n \in 1 .. Capacity
  PROVE  /\ h \in Ring(h, n)
         /\ Ring(Advance(h), n - 1) = Ring(h, n) \ {h}
         /\ (Advance(h) + (n - 1)) % Capacity = (h + n) % Capacity
<1>1. (h + 0) % Capacity = h
  <2>1. 0 \in 0 .. Capacity /\ h + 0 = h /\ h < Capacity
    BY SizeAssumption DEF Positions
  <2>2. (h + 0) % Capacity = IF h + 0 < Capacity THEN h + 0
                                                 ELSE h + 0 - Capacity
    BY <2>1, RingSteps
  <2> QED
    BY <2>1, <2>2
<1>2. 0 \in 0 .. n - 1 /\ 0 \in 0 .. Capacity - 1
  BY SizeAssumption
<1>3. h \in Ring(h, n)
  BY <1>1, <1>2 DEF Ring
<1>4. \A i \in 0 .. (n - 1) - 1 :
        /\ i \in 0 .. Capacity - 1 /\ i + 1 \in 0 .. Capacity - 1
        /\ i + 1 \in 0 .. n - 1 /\ i + 1 # 0
  BY SizeAssumption
<1>5. ASSUME NEW p \in Ring(Advance(h), n - 1)
      PROVE  p \in Ring(h, n) \ {h}
  <2>1. PICK i \in 0 .. (n - 1) - 1 : p = (Advance(h) + i) % Capacity
    BY DEF Ring
  <2>2. p = (h + (i + 1)) % Capacity
    BY <1>4, <2>1, RingShifts
  <2>3. p \in Ring(h, n)
    BY <1>4, <2>2 DEF Ring
  <2>4. p # h
    BY <1>1, <1>2, <1>4, <2>2, RingInjective
  <2> QED
    BY <2>3, <2>4
<1>6. ASSUME NEW p \in Ring(h, n) \ {h}
      PROVE  p \in Ring(Advance(h), n - 1)
  <2>1. PICK j \in 0 .. n - 1 : p = (h + j) % Capacity
    BY DEF Ring
  <2>2. j # 0
    BY <1>1, <2>1
  <2>3. j - 1 \in 0 .. (n - 1) - 1 /\ j - 1 \in 0 .. Capacity - 1
        /\ (j - 1) + 1 = j
    BY <2>2, SizeAssumption
  <2>4. (Advance(h) + (j - 1)) % Capacity = p
    BY <2>1, <2>3, RingShifts
  <2> QED
    BY <2>3, <2>4 DEF Ring
<1>7. (Advance(h) + (n - 1)) % Capacity = (h + n) % Capacity
  <2>1. n - 1 \in 0 .. Capacity - 1 /\ (n - 1) + 1 = n
    BY SizeAssumption
  <2> QED
    BY <2>1, RingShifts
<1> QED
  BY <1>3, <1>5, <1>6, <1>7

-----------------------------------------------------------------------------
(* Who holds which connection.                                             *)

LEMMA PendingIsRing ==
  /\ Pending = Ring(head, count)
  /\ Pending' = Ring(head', count')
BY DEF Pending, Ring

(* What a step that moves no descriptor leaves alone.                      *)
SameHolders ==
  /\ UNCHANGED <<queue, arg, job, fd>>
  /\ \A c \in Callers : cpc'[c] \in Offering <=> cpc[c] \in Offering
  /\ \A t \in Threads : wpc'[t] = "handle" <=> wpc[t] = "handle"

LEMMA HoldFrame ==
  ASSUME HoldInv, SameHolders
  PROVE  HoldInv'
<1>1. UNCHANGED <<tasks, head, tail, count, arg, job, fd>>
  BY DEF SameHolders, queue
<1>2. Pending' = Pending
  BY <1>1, PendingIsRing
<1>3. RingInv' /\ HeldOnce'
  BY <1>1, <1>2 DEF HoldInv, RingInv, HeldOnce
<1>4. HeldAtSteps'
  BY <1>1, <1>2 DEF HoldInv, HeldAtSteps, SameHolders
<1>5. OpenAreHeld'
  BY <1>1, <1>2 DEF HoldInv, OpenAreHeld, Holds
<1> QED
  BY <1>3, <1>4, <1>5 DEF HoldInv

LEMMA HoldInit == Init => HoldInv
<1> SUFFICES ASSUME Init PROVE HoldInv
  OBVIOUS
<1>1. Pending = {}
  BY DEF Init, Pending
<1>2. RingInv
  <2>1. 0 \in Positions /\ 0 \in 0 .. Capacity /\ 0 < Capacity
    BY Sizes
  <2>2. (0 + 0) % Capacity = 0
    BY <2>1, RingSteps
  <2> QED
    BY <2>2 DEF Init, RingInv
<1>3. HeldAtSteps /\ HeldOnce
  BY <1>1 DEF Init, HeldAtSteps, HeldOnce, Offering
<1>4. OpenAreHeld
  BY <1>1, NameAssumption DEF Init, OpenAreHeld, Holds
<1> QED
  BY <1>2, <1>3, <1>4 DEF HoldInv

(* From the client to a caller. *)
LEMMA HoldAddTask ==
  ASSUME TypeInv, HoldInv, NEW c \in Callers, NEW f \in Conns, AddTask(c, f)
  PROVE  HoldInv'
<1> USE DEF TypeInv, TypeOK, HoldInv
<1>1. /\ cpc[c] = "ready" /\ fd[f] = "fresh"
      /\ fd' = [fd EXCEPT ![f] = "open"]
      /\ arg' = [arg EXCEPT ![c] = f]
      /\ cpc' = [cpc EXCEPT ![c] = "add"]
      /\ UNCHANGED <<tasks, head, tail, count, job, wpc>>
  BY DEF AddTask, queue, threads
<1>2. Pending' = Pending
  BY <1>1, PendingIsRing
<1>3. f # None /\ ~Holds(f) /\ arg[c] = None
  BY <1>1, NameAssumption DEF OpenAreHeld, HeldAtSteps, Offering
<1>4. \A d \in Callers : arg'[d] = IF d = c THEN f ELSE arg[d]
  BY <1>1
<1>5. RingInv'
  BY <1>1 DEF RingInv
<1>6. HeldAtSteps'
  BY <1>1, <1>2, <1>3, <1>4 DEF HeldAtSteps, Offering
<1>7. HeldOnce'
  BY <1>1, <1>2, <1>3, <1>4 DEF HeldOnce, Holds
<1>8. OpenAreHeld'
  <2> SUFFICES ASSUME NEW g \in Conns
               PROVE  fd'[g] = "open" <=> Holds(g)'
    BY DEF OpenAreHeld
  <2>1. CASE g = f
    BY <1>1, <1>4, <2>1 DEF Holds
  <2>2. CASE g # f
    <3>1. fd'[g] = fd[g]
      BY <1>1, <2>2
    <3>2. (\E d \in Callers : arg'[d] = g) <=> (\E d \in Callers : arg[d] = g)
      BY <1>3, <1>4, <2>2, NameAssumption
    <3>3. Holds(g)' <=> Holds(g)
      BY <1>1, <1>2, <3>2 DEF Holds
    <3> QED
      BY <3>1, <3>3 DEF OpenAreHeld
  <2> QED
    BY <2>1, <2>2
<1> QED
  BY <1>5, <1>6, <1>7, <1>8

(* From a caller into the ring. *)
LEMMA HoldEnqueue ==
  ASSUME TypeInv, HoldInv, NEW c \in Callers, Enqueue(c)
  PROVE  HoldInv' /\ Pending' = Pending \cup {tail} /\ tail \notin Pending
<1> USE DEF TypeInv, TypeOK, HoldInv
<1>1. /\ cpc[c] = "add" /\ count \in 0 .. Capacity - 1
      /\ tasks' = [tasks EXCEPT ![tail] = arg[c]]
      /\ tail' = Advance(tail) /\ count' = count + 1
      /\ arg' = [arg EXCEPT ![c] = None]
      /\ UNCHANGED <<head, job, fd>>
  BY Sizes DEF Enqueue, Full
<1>2. /\ \A d \in Callers : cpc'[d] \in Offering <=> d # c /\ cpc[d] \in Offering
      /\ \A t \in Threads : wpc'[t] = "handle" <=> wpc[t] = "handle"
  <2>1. \A d \in Callers : cpc'[d] \in Offering <=> d # c /\ cpc[d] \in Offering
    BY DEF Enqueue, Offering
  <2>2. \A t \in Threads : wpc'[t] = "handle" <=> wpc[t] = "handle"
    BY DEF Enqueue, SignalNotEmpty, Sleepers
  <2> QED
    BY <2>1, <2>2
<1>3. /\ Pending' = Pending \cup {tail} /\ tail \notin Pending
      /\ tail' = (head + (count + 1)) % Capacity
  BY <1>1, PendingIsRing, RingGrows DEF RingInv
<1>4. arg[c] # None
  BY <1>1 DEF HeldAtSteps, Offering
<1>5. /\ \A d \in Callers : arg'[d] = IF d = c THEN None ELSE arg[d]
      /\ tasks'[tail] = arg[c] /\ tail \in Positions
  BY <1>1
<1>6. \A p \in Pending : p \in Positions /\ p # tail /\ tasks'[p] = tasks[p]
  <2>1. \A i \in 0 .. count - 1 : i \in 0 .. Capacity
    BY <1>1, Sizes
  <2>2. Pending \subseteq Positions
    BY <2>1, RingSteps DEF Pending
  <2> QED
    BY <1>1, <1>3, <2>2
<1>7. RingInv'
  BY <1>1, <1>3 DEF RingInv
<1>8. HeldAtSteps'
  BY <1>1, <1>2, <1>3, <1>4, <1>5, <1>6 DEF HeldAtSteps
<1>9. HeldOnce'
  <2>1. /\ \A d, e \in Callers : arg'[d] = arg'[e] /\ arg'[d] # None => d = e
        /\ \A t, u \in Threads : job'[t] = job'[u] /\ job'[t] # None => t = u
        /\ \A d \in Callers, t \in Threads : arg'[d] = job'[t] => arg'[d] = None
    BY <1>1, <1>5 DEF HeldOnce
  <2>2. \A p, q \in Pending' : tasks'[p] = tasks'[q] => p = q
    BY <1>3, <1>5, <1>6 DEF HeldOnce
  <2>3. \A d \in Callers, p \in Pending' : arg'[d] # tasks'[p]
    <3>1. \A p \in Pending' : tasks'[p] # None
      BY <1>3, <1>4, <1>5, <1>6 DEF HeldAtSteps
    <3>2. \A d \in Callers : d # c => arg'[d] # tasks'[tail]
      BY <1>4, <1>5 DEF HeldOnce
    <3>3. \A d \in Callers, p \in Pending : d # c => arg'[d] # tasks'[p]
      BY <1>5, <1>6 DEF HeldOnce
    <3> QED
      BY <1>3, <1>5, <3>1, <3>2, <3>3
  <2>4. \A t \in Threads, p \in Pending' : job'[t] # tasks'[p]
    BY <1>1, <1>3, <1>4, <1>5, <1>6 DEF HeldOnce
  <2> QED
    BY <2>1, <2>2, <2>3, <2>4 DEF HeldOnce
<1>10. OpenAreHeld'
  <2> SUFFICES ASSUME NEW g \in Conns
               PROVE  Holds(g)' <=> Holds(g)
    BY <1>1 DEF OpenAreHeld
  <2>1. g # None
    BY NameAssumption
  <2>2. (\E d \in Callers : arg'[d] = g) <=>
          (\E d \in Callers : d # c /\ arg[d] = g)
    BY <1>5, <2>1
  <2>3. (\E p \in Pending' : tasks'[p] = g) <=>
          arg[c] = g \/ \E p \in Pending : tasks[p] = g
    BY <1>3, <1>5, <1>6
  <2> QED
    BY <1>1, <2>2, <2>3 DEF Holds
<1> QED
  BY <1>3, <1>7, <1>8, <1>9, <1>10

(* From the ring to a worker. *)
LEMMA HoldDequeue ==
  ASSUME TypeInv, HoldInv, NEW t \in Threads, Dequeue(t)
  PROVE  HoldInv' /\ Pending' = Pending \ {head} /\ head \in Pending
<1> USE DEF TypeInv, TypeOK, HoldInv
<1>1. /\ wpc[t] # "handle" /\ count \in 1 .. Capacity
      /\ job' = [job EXCEPT ![t] = tasks[head]]
      /\ head' = Advance(head) /\ count' = count - 1
      /\ wpc' = [wpc EXCEPT ![t] = "handle"]
      /\ UNCHANGED <<tasks, tail, arg, fd>>
  BY Sizes DEF Dequeue, Awake
<1>2. \A d \in Callers : cpc'[d] \in Offering <=> cpc[d] \in Offering
  BY DEF Dequeue, SignalNotFull, Blocked, Offering
<1>3. /\ Pending' = Pending \ {head} /\ head \in Pending
      /\ tail' = (head' + count') % Capacity
  BY <1>1, PendingIsRing, RingShrinks DEF RingInv
<1>4. job[t] = None /\ tasks[head] # None
  BY <1>1, <1>3 DEF HeldAtSteps
<1>5. \A u \in Threads : job'[u] = IF u = t THEN tasks[head] ELSE job[u]
  BY <1>1
<1>6. RingInv'
  BY <1>3 DEF RingInv
<1>7. HeldAtSteps'
  BY <1>1, <1>2, <1>3, <1>4, <1>5 DEF HeldAtSteps
<1>8. HeldOnce'
  BY <1>1, <1>3, <1>4, <1>5 DEF HeldOnce
<1>9. OpenAreHeld'
  <2> SUFFICES ASSUME NEW g \in Conns
               PROVE  Holds(g)' <=> Holds(g)
    BY <1>1 DEF OpenAreHeld
  <2>1. g # None
    BY NameAssumption
  <2>2. (\E u \in Threads : job'[u] = g) <=>
          tasks[head] = g \/ \E u \in Threads : job[u] = g
    BY <1>4, <1>5, <2>1
  <2>3. (\E p \in Pending : tasks[p] = g) <=>
          tasks[head] = g \/ \E p \in Pending' : tasks[p] = g
    BY <1>3
  <2> QED
    BY <1>1, <2>2, <2>3 DEF Holds
<1> QED
  BY <1>3, <1>6, <1>7, <1>8, <1>9

(* A worker or a caller closes the connection. *)
LEMMA HoldHandle ==
  ASSUME TypeInv, HoldInv, NEW t \in Threads, Handle(t)
  PROVE  HoldInv'
<1> USE DEF TypeInv, TypeOK, HoldInv
<1>1. /\ wpc[t] = "handle"
      /\ fd' = [fd EXCEPT ![job[t]] = "closed"]
      /\ job' = [job EXCEPT ![t] = None]
      /\ UNCHANGED <<tasks, head, tail, count, arg, cpc>>
  BY DEF Handle, queue, calls
<1>2. \A u \in Threads : wpc'[u] = "handle" <=> u # t /\ wpc[u] = "handle"
  BY DEF Handle
<1>3. Pending' = Pending
  BY <1>1, PendingIsRing
<1>4. job[t] \in Conns /\ job[t] # None
  BY <1>1 DEF HeldAtSteps
<1>5. \A u \in Threads : job'[u] = IF u = t THEN None ELSE job[u]
  BY <1>1
<1>6. RingInv' /\ HeldAtSteps' /\ HeldOnce'
  BY <1>1, <1>2, <1>3, <1>5 DEF RingInv, HeldAtSteps, HeldOnce
<1>7. OpenAreHeld'
  <2> SUFFICES ASSUME NEW g \in Conns
               PROVE  fd'[g] = "open" <=> Holds(g)'
    BY DEF OpenAreHeld
  <2>1. g # None
    BY NameAssumption
  <2>2. CASE g = job[t]
    <3>1. fd'[g] = "closed"
      BY <1>1, <2>2
    <3>2. ~Holds(g)'
      BY <1>1, <1>3, <1>5, <2>1, <2>2 DEF Holds, HeldOnce
    <3> QED
      BY <3>1, <3>2
  <2>3. CASE g # job[t]
    <3>1. fd'[g] = fd[g]
      BY <1>1, <2>3
    <3>2. Holds(g)' <=> Holds(g)
      BY <1>1, <1>3, <1>5, <2>1, <2>3 DEF Holds
    <3> QED
      BY <3>1, <3>2 DEF OpenAreHeld
  <2> QED
    BY <2>2, <2>3
<1> QED
  BY <1>6, <1>7

LEMMA HoldRefused ==
  ASSUME TypeInv, HoldInv, NEW c \in Callers, ReturnRefused(c)
  PROVE  HoldInv'
<1> USE DEF TypeInv, TypeOK, HoldInv
<1>1. /\ cpc[c] = "refused"
      /\ fd' = [fd EXCEPT ![arg[c]] = "rejected"]
      /\ arg' = [arg EXCEPT ![c] = None]
      /\ UNCHANGED <<tasks, head, tail, count, job, wpc>>
  BY DEF ReturnRefused, queue, threads
<1>2. \A d \in Callers : cpc'[d] \in Offering <=> d # c /\ cpc[d] \in Offering
  BY DEF ReturnRefused, Offering
<1>3. Pending' = Pending
  BY <1>1, PendingIsRing
<1>4. arg[c] \in Conns /\ arg[c] # None
  BY <1>1 DEF HeldAtSteps, Offering
<1>5. \A d \in Callers : arg'[d] = IF d = c THEN None ELSE arg[d]
  BY <1>1
<1>6. RingInv' /\ HeldAtSteps' /\ HeldOnce'
  BY <1>1, <1>2, <1>3, <1>5 DEF RingInv, HeldAtSteps, HeldOnce
<1>7. OpenAreHeld'
  <2> SUFFICES ASSUME NEW g \in Conns
               PROVE  fd'[g] = "open" <=> Holds(g)'
    BY DEF OpenAreHeld
  <2>1. g # None
    BY NameAssumption
  <2>2. CASE g = arg[c]
    <3>1. fd'[g] = "rejected"
      BY <1>1, <2>2
    <3>2. ~Holds(g)'
      BY <1>1, <1>3, <1>4, <1>5, <2>1, <2>2 DEF Holds, HeldOnce
    <3> QED
      BY <3>1, <3>2
  <2>3. CASE g # arg[c]
    <3>1. fd'[g] = fd[g]
      BY <1>1, <2>3
    <3>2. Holds(g)' <=> Holds(g)
      BY <1>1, <1>3, <1>5, <2>1, <2>3 DEF Holds
    <3> QED
      BY <3>1, <3>2 DEF OpenAreHeld
  <2> QED
    BY <2>2, <2>3
<1> QED
  BY <1>6, <1>7

(* Which steps move a descriptor from one place to another.                *)
LEMMA WorkerMoves ==
  ASSUME TypeInv, NEW t \in Threads,
         WorkerLocks(t) \/ WorkerRuns(t) \/ Fault(t)
  PROVE  Dequeue(t) \/ Handle(t) \/ (SameHolders /\ UNCHANGED shutdown)
<1> USE DEF TypeInv, TypeOK, queue, calls, life, SameHolders
<1>1. CASE Dequeue(t)
  BY <1>1
<1>2. CASE Handle(t)
  BY <1>2
<1>3. CASE IdleExit(t)
  BY <1>3 DEF IdleExit
<1>4. CASE FindEmpty(t)
  BY <1>4 DEF FindEmpty
<1>5. CASE CondWait(t)
  BY <1>5 DEF CondWait
<1>6. CASE TimedOut(t)
  BY <1>6 DEF TimedOut, TimedWait
<1>7. CASE IdleUnlock(t)
  BY <1>7 DEF IdleUnlock
<1>8. CASE IdleReturn(t)
  BY <1>8 DEF IdleReturn
<1>9. CASE DrainExit(t)
  BY <1>9 DEF DrainExit, Awake
<1>10. CASE DrainReturn(t)
  BY <1>10 DEF DrainReturn
<1>11. CASE CountTask(t)
  BY <1>11 DEF CountTask
<1>12. CASE Fault(t)
  BY <1>12 DEF Fault, Leaving
<1> QED
  BY <1>1, <1>2, <1>3, <1>4, <1>5, <1>6, <1>7, <1>8, <1>9, <1>10, <1>11, <1>12
     DEF WorkerLocks, WorkerRuns

LEMMA CallerMoves ==
  ASSUME TypeInv, NEW c \in Callers,
         CallerLocks(c) \/ CallerRuns(c) \/ Returns(c)
  PROVE  Enqueue(c) \/ ReturnRefused(c) \/ (SameHolders /\ UNCHANGED shutdown)
<1> USE DEF TypeInv, TypeOK, queue, threads, life, Offering, SameHolders
<1>1. CASE Enqueue(c)
  BY <1>1
<1>2. CASE ReturnRefused(c)
  BY <1>2
<1>3. CASE Refuse(c)
  BY <1>3 DEF Refuse
<1>4. CASE WaitForRoom(c)
  BY <1>4 DEF WaitForRoom
<1>5. CASE ReserveSlot(c)
  BY <1>5 DEF ReserveSlot
<1>6. CASE NoFreeSlot(c)
  BY <1>6 DEF NoFreeSlot, SpawnFailed
<1>7. CASE Rollback(c)
  BY <1>7 DEF Rollback, SpawnFailed
<1>8. CASE RecordPeak(c)
  BY <1>8 DEF RecordPeak
<1>9. CASE CreateThread(c)
  <2>1. \A t \in Threads : wpc'[t] = "handle" <=> wpc[t] = "handle"
    BY <1>9 DEF CreateThread
  <2>2. \A d \in Callers : cpc'[d] \in Offering <=> cpc[d] \in Offering
    BY <1>9 DEF CreateThread
  <2> QED
    BY <1>9, <2>1, <2>2 DEF CreateThread
<1>10. CASE CreateFails(c)
  BY <1>10 DEF CreateFails
<1>11. CASE ReturnAccepted(c)
  BY <1>11 DEF ReturnAccepted
<1> QED
  BY <1>1, <1>2, <1>3, <1>4, <1>5, <1>6, <1>7, <1>8, <1>9, <1>10, <1>11
     DEF CallerLocks, CallerRuns, Returns

LEMMA OwnerMoves ==
  ASSUME TypeInv, Shutdown \/ OwnerRuns \/ Wakeup \/ UNCHANGED vars
  PROVE  SameHolders /\ (shutdown' \/ UNCHANGED shutdown)
<1> USE Sizes DEF TypeInv, TypeOK, queue, threads, calls, life, Offering,
        SameHolders
<1>1. CASE Shutdown
  <2>1. \A c \in Callers : cpc'[c] \in Offering <=> cpc[c] \in Offering
    BY <1>1 DEF Shutdown
  <2>2. \A t \in Threads : wpc'[t] = "handle" <=> wpc[t] = "handle"
    BY <1>1 DEF Shutdown, BroadcastNotEmpty
  <2> QED
    BY <1>1, <2>1, <2>2 DEF Shutdown
<1>2. CASE Abort
  BY <1>2 DEF Abort, BroadcastNotEmpty
<1>3. CASE Destroy
  BY <1>3 DEF Destroy
<1>4. CASE ScanSlot
  BY <1>4 DEF ScanSlot
<1>5. CASE Join
  BY <1>5 DEF Join
<1>6. CASE Free
  BY <1>6 DEF Free
<1>7. CASE Wakeup
  <2>1. \A c \in Callers : cpc'[c] \in Offering <=> cpc[c] \in Offering
    BY <1>7 DEF Wakeup, SpuriousWakeup, Blocked
  <2>2. \A t \in Threads : wpc'[t] = "handle" <=> wpc[t] = "handle"
    BY <1>7 DEF Wakeup, SpuriousWakeup, Sleepers
  <2> QED
    BY <1>7, <2>1, <2>2 DEF Wakeup
<1>8. CASE UNCHANGED vars
  BY <1>8 DEF vars
<1> QED
  BY <1>1, <1>2, <1>3, <1>4, <1>5, <1>6, <1>7, <1>8 DEF OwnerRuns

LEMMA HoldStep == TypeInv /\ HoldInv /\ [Next]_vars => HoldInv'
BY WorkerMoves, CallerMoves, OwnerMoves, HoldFrame, HoldDequeue, HoldHandle,
   HoldEnqueue, HoldRefused, HoldAddTask DEF Next, Finished

(* A set with at most one element has none or one.                         *)
LEMMA AtMostOne ==
  ASSUME NEW S, \A x, y \in S : x = y
  PROVE  /\ S = {} => Cardinality(S) = 0
         /\ S # {} => Cardinality(S) = 1
<1>1. CASE S = {}
  BY <1>1, FS_EmptySet
<1>2. CASE S # {}
  <2>1. PICK x : x \in S
    BY <1>2
  <2>2. S = {x}
    BY <2>1
  <2> QED
    BY <1>2, <2>2, FS_Singleton
<1> QED
  BY <1>1, <1>2

LEMMA HeldByOne == TypeInv /\ HoldInv => OneHolder
<1> SUFFICES ASSUME TypeInv, HoldInv, NEW f \in Conns
             PROVE  Cardinality({c \in Callers : arg[c] = f})
                      + Cardinality({p \in Pending : tasks[p] = f})
                      + Cardinality({t \in Threads : job[t] = f})
                    = IF fd[f] = "open" THEN 1 ELSE 0
  BY DEF OneHolder
<1> DEFINE C == {c \in Callers : arg[c] = f}
           P == {p \in Pending : tasks[p] = f}
           T == {t \in Threads : job[t] = f}
<1>1. f # None
  BY NameAssumption
<1>2. /\ \A x, y \in C : x = y
      /\ \A x, y \in P : x = y
      /\ \A x, y \in T : x = y
  BY <1>1 DEF HoldInv, HeldOnce
<1>3. /\ C = {} \/ P = {}
      /\ C = {} \/ T = {}
      /\ P = {} \/ T = {}
  BY <1>1 DEF HoldInv, HeldOnce
<1>4. fd[f] = "open" <=> C # {} \/ P # {} \/ T # {}
  BY DEF HoldInv, OpenAreHeld, Holds
<1>5. /\ Cardinality(C) = IF C = {} THEN 0 ELSE 1
      /\ Cardinality(P) = IF P = {} THEN 0 ELSE 1
      /\ Cardinality(T) = IF T = {} THEN 0 ELSE 1
  <2> HIDE DEF C, P, T
  <2> QED
    BY <1>2, AtMostOne
<1>6. Cardinality(C) + Cardinality(P) + Cardinality(T)
        = IF fd[f] = "open" THEN 1 ELSE 0
  <2> HIDE DEF C, P, T
  <2> QED
    BY <1>3, <1>4, <1>5
<1> QED
  BY <1>6

(* A connection that was accepted and is not closed yet is in exactly one  *)
(* place, a caller, the ring or a worker, wherever head and tail have got  *)
(* to; a closed one is nowhere.                                            *)
THEOREM HoldersCorrect == Spec => []OneHolder
BY TypeInit, TypeStep, HoldInit, HoldStep, HeldByOne, PTL DEF Spec, Safety

-----------------------------------------------------------------------------
(* The core workers.                                                       *)

(* What a step that neither creates a worker nor lets one go may do: a     *)
(* core worker stays at work, unless it was off already, and an empty      *)
(* queue that is shut down stays so.                                       *)
CoreKept ==
  /\ UNCHANGED <<is_core, created>>
  /\ \A t \in Core : /\ wpc'[t] \notin {"none", "late"}
                     /\ wpc[t] \in Working => wpc'[t] \in Working
  /\ shutdown /\ count = 0 => shutdown' /\ count' = 0

LEMMA CoreFrame ==
  ASSUME CoreInv, CoreKept
  PROVE  CoreInv'
<1>1. Core' = Core
  BY DEF CoreKept, Core
<1> QED
  BY <1>1 DEF CoreKept, CoreInv

LEMMA CoreInit == Init => CoreInv
<1> SUFFICES ASSUME Init PROVE CoreInv
  OBVIOUS
<1>1. Core = {}
  BY DEF Init, Core
<1> QED
  BY <1>1, FS_EmptySet DEF Init, CoreInv

LEMMA CoreWorker ==
  ASSUME TypeInv, CoreInv, NEW t \in Threads,
         WorkerLocks(t) \/ WorkerRuns(t) \/ Fault(t)
  PROVE  CoreInv'
<1> USE DEF TypeInv, TypeOK, CoreInv, queue, life, Core, Working, CoreKept
<1>1. CASE Dequeue(t)
  BY <1>1, CoreFrame DEF Dequeue, Awake
<1>2. CASE Handle(t)
  BY <1>2, CoreFrame DEF Handle
<1>3. CASE IdleExit(t)
  BY <1>3, CoreFrame DEF IdleExit
<1>4. CASE FindEmpty(t)
  BY <1>4, CoreFrame DEF FindEmpty
<1>5. CASE CondWait(t)
  BY <1>5, CoreFrame DEF CondWait
<1>6. CASE TimedOut(t)
  BY <1>6, CoreFrame DEF TimedOut, TimedWait
<1>7. CASE IdleUnlock(t)
  BY <1>7, CoreFrame DEF IdleUnlock
<1>8. CASE IdleReturn(t)
  BY <1>8, CoreFrame DEF IdleReturn
<1>9. CASE DrainExit(t)
  <2>1. /\ Core' = Core /\ UNCHANGED <<created, shutdown, count>>
        /\ shutdown /\ count = 0
    BY <1>9 DEF DrainExit, Drained
  <2>2. \A u \in Core : wpc'[u] \notin {"none", "late"}
    BY <1>9 DEF DrainExit
  <2> QED
    BY <2>1, <2>2
<1>10. CASE DrainReturn(t)
  BY <1>10, CoreFrame DEF DrainReturn
<1>11. CASE CountTask(t)
  BY <1>11, CoreFrame DEF CountTask
<1>12. CASE Fault(t)
  BY <1>12, CoreFrame DEF Fault, Leaving
<1> QED
  BY <1>1, <1>2, <1>3, <1>4, <1>5, <1>6, <1>7, <1>8, <1>9, <1>10, <1>11, <1>12
     DEF WorkerLocks, WorkerRuns

(* The worker created last is a core worker as long as the pool is being   *)
(* created.                                                                *)
LEMMA CoreCreate ==
  ASSUME TypeInv, CoreInv, NEW c \in Callers, CreateThread(c)
  PROVE  CoreInv'
<1> USE DEF TypeInv, TypeOK, CoreInv
<1>1. PICK t \in Threads :
        /\ wpc[t] = "none"
        /\ wpc' = [wpc EXCEPT ![t] = "lock"]
        /\ is_core' = [is_core EXCEPT ![t] = Creating]
  BY DEF CreateThread
<1>2. /\ created' = IF Creating THEN created + 1 ELSE created
      /\ UNCHANGED <<shutdown, count>>
  BY DEF CreateThread, queue
<1>3. t \notin Core
  BY <1>1
<1>4. Core' = IF Creating THEN Core \cup {t} ELSE Core
  BY <1>1, <1>3 DEF Core, Creating
<1>5. IsFiniteSet(Core') /\ Cardinality(Core') = created'
  BY <1>2, <1>3, <1>4, FS_AddElement
<1>6. \A u \in Core' : /\ wpc'[u] \notin {"none", "late"}
                       /\ wpc'[u] \in Working \/ (shutdown' /\ count' = 0)
  BY <1>1, <1>2, <1>4 DEF Core, Working
<1> QED
  BY <1>5, <1>6

LEMMA CoreCaller ==
  ASSUME TypeInv, CoreInv, NEW c \in Callers,
         CallerLocks(c) \/ CallerRuns(c) \/ Returns(c)
  PROVE  CoreInv'
<1> USE DEF TypeInv, TypeOK, CoreInv, queue, threads, life, Core, CoreKept
<1>1. CASE Enqueue(c)
  <2>1. \A t \in Core : /\ wpc'[t] \notin {"none", "late"}
                        /\ wpc[t] \in Working => wpc'[t] \in Working
    BY <1>1 DEF Enqueue, SignalNotEmpty, Sleepers, Working
  <2> QED
    BY <1>1, <2>1, CoreFrame DEF Enqueue
<1>2. CASE CreateThread(c)
  BY <1>2, CoreCreate
<1>3. CASE Refuse(c)
  BY <1>3, CoreFrame DEF Refuse
<1>4. CASE WaitForRoom(c)
  BY <1>4, CoreFrame DEF WaitForRoom
<1>5. CASE ReserveSlot(c)
  BY <1>5, CoreFrame DEF ReserveSlot
<1>6. CASE NoFreeSlot(c)
  BY <1>6, CoreFrame DEF NoFreeSlot
<1>7. CASE Rollback(c)
  BY <1>7, CoreFrame DEF Rollback
<1>8. CASE RecordPeak(c)
  BY <1>8, CoreFrame DEF RecordPeak
<1>9. CASE CreateFails(c)
  BY <1>9, CoreFrame DEF CreateFails
<1>10. CASE ReturnAccepted(c)
  BY <1>10, CoreFrame DEF ReturnAccepted
<1>11. CASE ReturnRefused(c)
  BY <1>11, CoreFrame DEF ReturnRefused
<1> QED
  BY <1>1, <1>2, <1>3, <1>4, <1>5, <1>6, <1>7, <1>8, <1>9, <1>10, <1>11
     DEF CallerLocks, CallerRuns, Returns

LEMMA CoreRest ==
  ASSUME TypeInv, CoreInv,
         \/ \E c \in Callers, f \in Conns : AddTask(c, f)
         \/ Shutdown
         \/ OwnerRuns
         \/ Wakeup
         \/ UNCHANGED vars
  PROVE  CoreInv'
<1> USE Sizes DEF TypeInv, TypeOK, CoreInv, queue, threads, life, Core, CoreKept
<1>1. CASE \E c \in Callers, f \in Conns : AddTask(c, f)
  BY <1>1, CoreFrame DEF AddTask
<1>2. CASE Shutdown
  BY <1>2, CoreFrame DEF Shutdown, BroadcastNotEmpty, Working
<1>3. CASE Abort
  BY <1>3, CoreFrame DEF Abort, BroadcastNotEmpty, Working
<1>4. CASE Destroy
  BY <1>4, CoreFrame DEF Destroy
<1>5. CASE ScanSlot
  BY <1>5, CoreFrame DEF ScanSlot
<1>6. CASE Join
  BY <1>6, CoreFrame DEF Join, Working
<1>7. CASE Free
  BY <1>7, CoreFrame DEF Free
<1>8. CASE Wakeup
  BY <1>8, CoreFrame DEF Wakeup, SpuriousWakeup, Sleepers, Working
<1>9. CASE UNCHANGED vars
  BY <1>9, CoreFrame DEF vars
<1> QED
  BY <1>1, <1>2, <1>3, <1>4, <1>5, <1>6, <1>7, <1>8, <1>9 DEF OwnerRuns

LEMMA CoreStep == TypeInv /\ CoreInv /\ [Next]_vars => CoreInv'
BY CoreWorker, CoreCaller, CoreRest DEF Next, Finished

(* From the return of thread_pool_create until the queue is drained all    *)
(* core_size core workers work: none of them is scaled down.               *)
THEOREM CoreStays == Spec => []CoreWorkersStay
<1>1. TypeInv /\ CoreInv => CoreWorkersStay
  <2> SUFFICES ASSUME TypeInv, CoreInv, ~Creating, ~shutdown \/ count > 0
               PROVE  Cardinality({t \in Threads :
                                     is_core[t] /\ wpc[t] \in Working})
                        = CoreSize
    BY DEF CoreWorkersStay
  <2>1. {t \in Threads : is_core[t] /\ wpc[t] \in Working} = Core
    BY DEF Core, CoreInv
  <2>2. created = CoreSize
    BY Sizes DEF TypeInv, TypeOK, Creating
  <2> QED
    BY <2>1, <2>2 DEF CoreInv
<1> QED
  BY TypeInit, TypeStep, CoreInit, CoreStep, <1>1, PTL DEF Spec, Safety

-----------------------------------------------------------------------------
(* The end of the pool.                                                    *)

(* What the steps of the workers, and wakeups, may do.                     *)
EndKept ==
  /\ UNCHANGED <<created, joined, freed>>
  /\ shutdown => shutdown'
  /\ count = 0 => count' = 0
  /\ \A f \in Conns : fd[f] = "fresh" => fd'[f] = "fresh"
  /\ \A c \in Callers : \/ cpc'[c] = cpc[c]
                        \/ cpc[c] = "notFull" /\ cpc'[c] = "add"
  /\ \A s \in Slots : worker_active'[s] => worker_active[s]

LEMMA EndFrame ==
  ASSUME TypeInv, EndInv, EndKept
  PROVE  EndInv'
<1> USE Sizes DEF EndInv, EndKept, Creating, OwnerPoints, Spawning, Destroying
<1>1. \/ cpc'[Owner] = cpc[Owner]
      \/ cpc[Owner] = "notFull" /\ cpc'[Owner] = "add"
  OBVIOUS
<1>2. /\ Creating' <=> Creating
      /\ \A c \in Callers : cpc[c] = "ready" => cpc'[c] = "ready"
  OBVIOUS
<1>3. (Creating => /\ count = 0 /\ \A f \in Conns : fd[f] = "fresh"
                   /\ \A c \in Callers \ {Owner} : cpc[c] = "ready"
                   /\ cpc[Owner] \in OwnerPoints)'
  BY <1>1, <1>2
<1>4. (cpc[Owner] \in Destroying =>
         /\ \A c \in Callers \ {Owner} : cpc[c] = "ready"
         /\ \A s \in Slots : s < joined => ~worker_active[s])'
  BY <1>1, <1>2
<1> QED
  BY <1>1, <1>2, <1>3, <1>4

LEMMA EndInit == Init => EndInv
BY Sizes DEF Init, EndInv, OwnerPoints, Spawning, Destroying

LEMMA EndWorker ==
  ASSUME TypeInv, HoldInv, EndInv, NEW t \in Threads,
         WorkerLocks(t) \/ WorkerRuns(t) \/ Fault(t)
  PROVE  EndInv'
<1> USE DEF TypeInv, TypeOK, queue, slots, calls, life, EndKept
<1>1. CASE Dequeue(t)
  <2>1. \A c \in Callers : \/ cpc'[c] = cpc[c]
                           \/ cpc[c] = "notFull" /\ cpc'[c] = "add"
    BY <1>1 DEF Dequeue, SignalNotFull, Blocked
  <2> QED
    BY <1>1, <2>1, EndFrame DEF Dequeue
<1>2. CASE Handle(t)
  <2>1. job[t] \in Conns /\ fd[job[t]] = "open"
    BY <1>2 DEF Handle, HoldInv, HeldAtSteps, OpenAreHeld, Holds
  <2> QED
    BY <1>2, <2>1, EndFrame DEF Handle
<1>3. CASE IdleExit(t)
  BY <1>3, EndFrame DEF IdleExit, ReleaseSlot
<1>4. CASE FindEmpty(t)
  BY <1>4, EndFrame DEF FindEmpty
<1>5. CASE CondWait(t)
  BY <1>5, EndFrame DEF CondWait
<1>6. CASE TimedOut(t)
  BY <1>6, EndFrame DEF TimedOut
<1>7. CASE IdleUnlock(t)
  BY <1>7, EndFrame DEF IdleUnlock
<1>8. CASE IdleReturn(t)
  BY <1>8, EndFrame DEF IdleReturn
<1>9. CASE DrainExit(t)
  BY <1>9, EndFrame DEF DrainExit, ReleaseSlot
<1>10. CASE DrainReturn(t)
  BY <1>10, EndFrame DEF DrainReturn
<1>11. CASE CountTask(t)
  BY <1>11, EndFrame DEF CountTask
<1>12. CASE Fault(t)
  BY <1>12, EndFrame DEF Fault
<1> QED
  BY <1>1, <1>2, <1>3, <1>4, <1>5, <1>6, <1>7, <1>8, <1>9, <1>10, <1>11, <1>12
     DEF WorkerLocks, WorkerRuns

(* While the pool is being created its owner is the only caller; and no    *)
(* caller has a step left once the pool is being destroyed.                *)
LEMMA EndCaller ==
  ASSUME TypeInv, EndInv, NEW c \in Callers,
         CallerLocks(c) \/ CallerRuns(c) \/ Returns(c)
  PROVE  EndInv'
<1> USE Sizes DEF TypeInv, TypeOK
<1>1. /\ cpc[c] \notin {"ready", "abort", "stopped"} \cup Destroying
      /\ cpc'[c] \notin {"stopped"} \cup Destroying
      /\ \A d \in Callers : d # c => cpc'[d] = cpc[d]
      /\ UNCHANGED <<shutdown, joined, freed>>
  BY DEF CallerLocks, CallerRuns, Returns, Refuse, WaitForRoom, Enqueue,
     ReserveSlot, NoFreeSlot, Rollback, RecordPeak, CreateThread, CreateFails,
     ReturnAccepted, ReturnRefused, SpawnFailed, Creating, Destroying, life
<1>2. cpc[Owner] \notin Destroying
  BY <1>1 DEF EndInv
<1>3. cpc'[Owner] \notin Destroying
  BY <1>1, <1>2
<1>4. /\ Creating => c = Owner /\ cpc[c] \in {"reserve"} \cup Spawning
      /\ Creating' => Creating
      /\ cpc'[Owner] = "abort" => Creating'
      /\ Creating' => /\ cpc'[Owner] \in {"reserve", "abort"} \cup Spawning
                      /\ UNCHANGED <<count, fd>>
  <2>1. Creating => c = Owner /\ cpc[c] \in {"reserve"} \cup Spawning
    BY <1>1 DEF EndInv, OwnerPoints, Destroying
  <2>2. CASE ReserveSlot(c) \/ NoFreeSlot(c) \/ Rollback(c) \/ RecordPeak(c)
               \/ CreateFails(c)
    BY <1>1, <2>1, <2>2 DEF EndInv, ReserveSlot, NoFreeSlot, Rollback,
       RecordPeak, CreateFails, SpawnFailed, Creating, Spawning, queue, life
  <2>3. CASE CreateThread(c)
    <3>1. /\ created' = IF Creating THEN created + 1 ELSE created
          /\ cpc'[c] = IF ~Creating THEN "accepted"
                       ELSE IF created' = CoreSize THEN "ready" ELSE "reserve"
          /\ UNCHANGED <<count, fd>>
      BY <2>3 DEF CreateThread, queue
    <3> QED
      BY <1>1, <2>1, <3>1 DEF EndInv, Creating
  <2>4. CASE Refuse(c) \/ WaitForRoom(c) \/ Enqueue(c) \/ Returns(c)
    <3>1. /\ cpc[c] \in {"add", "accepted", "refused"} /\ created' = created
          /\ cpc'[c] # "abort"
      BY <2>4 DEF Refuse, WaitForRoom, Enqueue, Returns, ReturnAccepted,
         ReturnRefused, life
    <3> QED
      BY <1>1, <2>1, <3>1 DEF EndInv, Creating, Spawning
  <2> QED
    BY <2>1, <2>2, <2>3, <2>4 DEF CallerLocks, CallerRuns
<1>5. (Creating => /\ count = 0 /\ \A f \in Conns : fd[f] = "fresh"
                   /\ \A d \in Callers \ {Owner} : cpc[d] = "ready"
                   /\ cpc[Owner] \in OwnerPoints)'
  BY <1>1, <1>4 DEF EndInv, OwnerPoints
<1>6. cpc'[Owner] # "stopped" \/ cpc[Owner] = "stopped"
  BY <1>1
<1>7. freed = FALSE /\ joined = 0 /\ cpc'[Owner] # "gone"
  BY <1>2, <1>3 DEF EndInv, Destroying
<1> QED
  BY <1>1, <1>3, <1>4, <1>5, <1>6, <1>7 DEF EndInv

(* pthread_join has returned: the thread that had the slot gave it up      *)
(* before, and nobody can claim it any more.                               *)
LEMMA JoinedIsInactive ==
  ASSUME TypeInv, SlotInv, EndInv, Join
  PROVE  ~worker_active[joined]
<1> USE Sizes DEF TypeInv, TypeOK
<1>1. cpc[Owner] = "joining" /\ wpc[workers[joined]] = "done"
  BY DEF Join
<1>2. joined \in Slots
  BY <1>1 DEF JoinInRange, Slots
<1>3. ~ \E t \in Threads : Occupies(t, joined)
  BY <1>1 DEF SlotInv, HandlesMatch, Occupies, Working
<1>4. ~ \E c \in Callers : Reserves(c, joined)
  BY <1>1 DEF EndInv, Reserves, Spawning, Destroying
<1> QED
  BY <1>2, <1>3, <1>4 DEF SlotInv, SlotsMatchWorkers

LEMMA EndOwner ==
  ASSUME TypeInv, SlotInv, EndInv, Shutdown \/ OwnerRuns
  PROVE  EndInv'
<1> USE Sizes DEF TypeInv, TypeOK, EndInv, queue, slots, life, Creating,
        Destroying, OwnerPoints, Spawning
<1>1. CASE Shutdown
  BY <1>1 DEF Shutdown
<1>2. CASE Abort
  BY <1>2 DEF Abort, Slots
<1>3. CASE Destroy
  BY <1>3 DEF Destroy, Slots
<1>4. CASE ScanSlot
  <2>1. cpc[Owner] = "scan" /\ UNCHANGED <<worker_active, shutdown, created,
                                           freed, count, fd>>
    BY <1>4 DEF ScanSlot
  <2>2. /\ \A s \in Slots : s < joined' => ~worker_active[s]
        /\ cpc'[Owner] \in {"scan", "joining"}
        /\ \A c \in Callers : c # Owner => cpc'[c] = cpc[c]
    BY <1>4 DEF ScanSlot, Slots
  <2> QED
    BY <2>1, <2>2
<1>5. CASE Join
  <2>1. /\ cpc[Owner] = "joining" /\ joined' = joined + 1
        /\ cpc' = [cpc EXCEPT ![Owner] = "scan"]
        /\ UNCHANGED <<worker_active, shutdown, created, freed, count, fd>>
    BY <1>5 DEF Join
  <2>2. \A s \in Slots : s < joined' => ~worker_active[s]
    BY <1>5, <2>1, JoinedIsInactive
  <2> QED
    BY <2>1, <2>2
<1>6. CASE Free
  BY <1>6 DEF Free
<1> QED
  BY <1>1, <1>2, <1>3, <1>4, <1>5, <1>6 DEF OwnerRuns

LEMMA EndAddTask ==
  ASSUME TypeInv, EndInv, NEW c \in Callers, NEW f \in Conns, AddTask(c, f)
  PROVE  EndInv'
<1> USE Sizes DEF TypeInv, TypeOK, AddTask, Usable, life
<1>1. ~Creating' /\ cpc[Owner] \notin Destroying
  BY DEF Creating
<1>2. cpc'[Owner] \notin Destroying
  BY <1>1 DEF Destroying
<1>3. cpc'[Owner] \notin {"abort", "stopped", "gone"} \/ cpc'[Owner] = cpc[Owner]
  OBVIOUS
<1> QED
  BY <1>1, <1>2, <1>3 DEF EndInv, Creating, Destroying

LEMMA EndWakeup ==
  ASSUME TypeInv, EndInv, Wakeup
  PROVE  EndInv'
<1>1. \A c \in Callers : \/ cpc'[c] = cpc[c]
                         \/ cpc[c] = "notFull" /\ cpc'[c] = "add"
  BY DEF TypeInv, TypeOK, Wakeup, SpuriousWakeup, Blocked
<1> QED
  BY <1>1, EndFrame DEF EndKept, Wakeup, queue, slots, life

LEMMA EndStutter ==
  ASSUME TypeInv, EndInv, UNCHANGED vars
  PROVE  EndInv'
BY EndFrame DEF EndKept, vars, queue, slots, calls, life

LEMMA EndStep == TypeInv /\ SlotInv /\ HoldInv /\ EndInv /\ [Next]_vars => EndInv'
BY EndWorker, EndCaller, EndOwner, EndAddTask, EndWakeup, EndStutter
   DEF Next, Finished

LEMMA IInvInit == Init => IInv
BY TypeInit, SlotInit, HoldInit, CoreInit, EndInit DEF IInv

LEMMA IInvStep == IInv /\ [Next]_vars => IInv'
BY TypeStep, SlotStep, HoldStep, CoreStep, EndStep DEF IInv

(* Every slot is inactive when the pool is freed, so that no worker is at  *)
(* work any more; the core workers left an empty queue behind.             *)
LEMMA NobodyAtTheEnd ==
  ASSUME IInv, freed
  PROVE  /\ count = 0
         /\ \A t \in Threads : wpc[t] \notin Working
         /\ \A c \in Callers : cpc[c] \in {"ready", "gone"}
<1> USE Sizes DEF IInv, TypeInv, TypeOK
<1>1. /\ cpc[Owner] = "gone" /\ joined = MaxSize /\ shutdown
      /\ \A c \in Callers \ {Owner} : cpc[c] = "ready"
      /\ \A s \in Slots : ~worker_active[s]
  BY DEF EndInv, Destroying, Slots
<1>2. ASSUME NEW t \in Threads, wpc[t] \in Working
      PROVE  FALSE
  <2>1. slot[t] \in Slots /\ Occupies(t, slot[t])
    BY <1>2 DEF Occupies
  <2> QED
    BY <1>1, <2>1 DEF SlotInv, SlotsMatchWorkers
<1>3. count = 0
  <2>1. CASE Creating
    BY <2>1 DEF EndInv
  <2>2. CASE ~Creating
    <3>1. Cardinality(Core) # 0
      BY <2>2 DEF CoreInv, Creating
    <3>2. PICK t \in Core : TRUE
      BY <3>1, FS_EmptySet
    <3> QED
      BY <1>2, <3>2 DEF CoreInv, Core
  <2> QED
    BY <2>1, <2>2
<1> QED
  BY <1>1, <1>2, <1>3

LEMMA DrainedAtTheEnd == IInv => DrainedBeforeFree
<1> SUFFICES ASSUME IInv, freed
             PROVE  count = 0 /\ \A f \in Conns : fd[f] # "open"
  BY DEF DrainedBeforeFree
<1>1. Pending = {}
  BY NobodyAtTheEnd DEF Pending
<1>2. /\ \A c \in Callers : arg[c] = None
      /\ \A t \in Threads : job[t] = None
  BY NobodyAtTheEnd DEF IInv, HoldInv, HeldAtSteps, Offering, Working
<1>3. \A f \in Conns : ~Holds(f)
  BY <1>1, <1>2, NameAssumption DEF Holds
<1> QED
  BY <1>3, NobodyAtTheEnd DEF IInv, HoldInv, OpenAreHeld

(* When thread_pool_destroy frees the ring nothing is queued, and every    *)
(* connection that was accepted has been closed, also after a failed       *)
(* thread_pool_create.                                                     *)
THEOREM DrainCorrect == Spec => []DrainedBeforeFree
BY IInvInit, IInvStep, DrainedAtTheEnd, PTL DEF Spec, Safety

-----------------------------------------------------------------------------
(* The refinement: the ring, read from head on, is the contract's queue.   *)

Holdings == Conns \cup {None}

(* The n entries of ring tk from position h on, oldest first.              *)
Line(tk, h, n) == [i \in 1 .. n |-> tk[(h + i - 1) % Capacity]]

LEMMA LineIsSeq ==
  ASSUME NEW tk \in [Positions -> Holdings], NEW h \in Positions,
         NEW n \in 0 .. Capacity
  PROVE  /\ Line(tk, h, n) \in Seq(Holdings)
         /\ Len(Line(tk, h, n)) = n
         /\ \A i \in 1 .. n : /\ i - 1 \in 0 .. n - 1
                              /\ Line(tk, h, n)[i] = tk[(h + (i - 1)) % Capacity]
<1>1. \A i \in 1 .. n :
        /\ h + i - 1 = h + (i - 1)
        /\ i - 1 \in 0 .. Capacity /\ i - 1 \in 0 .. n - 1
  BY SizeAssumption DEF Positions
<1>2. \A i \in 1 .. n : tk[(h + i - 1) % Capacity] \in Holdings
  BY <1>1, RingSteps
<1>3. Line(tk, h, n) \in [1 .. n -> Holdings]
  BY <1>2 DEF Line
<1>4. n \in Nat
  BY SizeAssumption
<1>5. \A i \in 1 .. n : Line(tk, h, n)[i] = tk[(h + (i - 1)) % Capacity]
  BY <1>1 DEF Line
<1> QED
  BY <1>1, <1>3, <1>4, <1>5

LEMMA LineGrows ==
  ASSUME NEW tk \in [Positions -> Holdings], NEW h \in Positions,
         NEW n \in 0 .. Capacity - 1, NEW f \in Holdings
  PROVE  Line([tk EXCEPT ![(h + n) % Capacity] = f], h, n + 1)
           = Append(Line(tk, h, n), f)
<1> DEFINE tk2 == [tk EXCEPT ![(h + n) % Capacity] = f]
           new == Line(tk2, h, n + 1)
           old == Append(Line(tk, h, n), f)
<1>1. n \in 0 .. Capacity /\ n + 1 \in 0 .. Capacity /\ n \in Nat
  BY SizeAssumption
<1>2. tk2 \in [Positions -> Holdings] /\ (h + n) % Capacity \in Positions
  BY <1>1, RingSteps
<1>3. /\ new \in Seq(Holdings) /\ Len(new) = n + 1
      /\ \A i \in 1 .. n + 1 : new[i] = tk2[(h + (i - 1)) % Capacity]
  <2> HIDE DEF tk2
  <2> QED
    BY <1>1, <1>2, LineIsSeq
<1>4. /\ Line(tk, h, n) \in Seq(Holdings) /\ Len(Line(tk, h, n)) = n
      /\ \A i \in 1 .. n : Line(tk, h, n)[i] = tk[(h + (i - 1)) % Capacity]
  BY <1>1, LineIsSeq
<1>5. /\ old \in Seq(Holdings) /\ Len(old) = n + 1
      /\ \A i \in 1 .. n + 1 :
           old[i] = IF i = n + 1 THEN f ELSE Line(tk, h, n)[i]
  BY <1>1, <1>4
<1>6. ASSUME NEW i \in 1 .. n + 1
      PROVE  new[i] = old[i]
  <2>1. CASE i = n + 1
    <3>1. i - 1 = n
      BY <1>1, <2>1
    <3> QED
      BY <1>2, <1>3, <1>5, <2>1, <3>1
  <2>2. CASE i # n + 1
    <3>1. i \in 1 .. n /\ i - 1 \in 0 .. n - 1 /\ i - 1 \in 0 .. Capacity
      BY <1>1, <2>2, SizeAssumption
    <3>2. /\ (h + (i - 1)) % Capacity \in Ring(h, n)
          /\ (h + (i - 1)) % Capacity \in Positions
      BY <3>1, RingSteps DEF Ring
    <3>3. (h + (i - 1)) % Capacity # (h + n) % Capacity
      BY <3>2, RingGrows
    <3>4. tk2[(h + (i - 1)) % Capacity] = tk[(h + (i - 1)) % Capacity]
      BY <3>2, <3>3
    <3> QED
      BY <1>3, <1>4, <1>5, <2>2, <3>1, <3>4
  <2> QED
    BY <2>1, <2>2
<1> HIDE DEF new, old
<1>7. new = old
  BY <1>3, <1>5, <1>6, SeqEqual
<1> QED
  BY <1>7 DEF new, old

LEMMA LineShrinks ==
  ASSUME NEW tk \in [Positions -> Holdings], NEW h \in Positions,
         NEW n \in 1 .. Capacity
  PROVE  /\ Line(tk, h, n) # << >>
         /\ Head(Line(tk, h, n)) = tk[h]
         /\ Line(tk, Advance(h), n - 1) = Tail(Line(tk, h, n))
<1> DEFINE new == Line(tk, Advance(h), n - 1)
           old == Line(tk, h, n)
<1>1. n \in 0 .. Capacity /\ n - 1 \in 0 .. Capacity /\ n \in Nat /\ n > 0
  BY SizeAssumption
<1>2. Advance(h) \in Positions
  BY AdvanceInRange
<1>3. /\ new \in Seq(Holdings) /\ Len(new) = n - 1
      /\ \A i \in 1 .. n - 1 : new[i] = tk[(Advance(h) + (i - 1)) % Capacity]
  BY <1>1, <1>2, LineIsSeq
<1>4. /\ old \in Seq(Holdings) /\ Len(old) = n
      /\ \A i \in 1 .. n : old[i] = tk[(h + (i - 1)) % Capacity]
  BY <1>1, LineIsSeq
<1>5. old # << >>
  BY <1>1, <1>4
<1>6. Head(old) = tk[h]
  <2>1. 1 \in 1 .. n /\ 1 - 1 = 0 /\ h + 0 = h /\ h < Capacity
    BY <1>1, SizeAssumption DEF Positions
  <2>2. 0 \in 0 .. Capacity
    BY SizeAssumption
  <2>3. (h + 0) % Capacity = h
    BY <2>1, <2>2, RingSteps
  <2>4. old[1] = tk[h]
    BY <1>4, <2>1, <2>3
  <2> HIDE DEF old
  <2> QED
    BY <1>4, <1>5, <2>4
<1>7. /\ Tail(old) \in Seq(Holdings) /\ Len(Tail(old)) = n - 1
      /\ \A i \in 1 .. n - 1 : Tail(old)[i] = old[i + 1]
  <2> HIDE DEF old
  <2> QED
    BY <1>4, <1>5, HeadTailProperties
<1>8. ASSUME NEW i \in 1 .. n - 1
      PROVE  new[i] = Tail(old)[i]
  <2>1. /\ i - 1 \in 0 .. Capacity - 1 /\ (i - 1) + 1 = i
        /\ i + 1 \in 1 .. n /\ (i + 1) - 1 = i
    BY <1>1, SizeAssumption
  <2>2. (Advance(h) + (i - 1)) % Capacity = (h + i) % Capacity
    BY <2>1, RingShifts
  <2>3. old[i + 1] = tk[(h + i) % Capacity]
    BY <1>4, <2>1
  <2> QED
    BY <1>3, <1>7, <2>2, <2>3
<1> HIDE DEF new, old
<1>9. new = Tail(old)
  BY <1>3, <1>7, <1>8, SeqEqual
<1> QED
  BY <1>5, <1>6, <1>9 DEF new, old

Serving == {job[t] : t \in {u \in Threads : wpc[u] = "handle"}}
Served == {f \in Conns : fd[f] = "closed"}

LEMMA RefinesInit == Init => Contract!Init
<1> SUFFICES ASSUME Init PROVE Contract!Init
  OBVIOUS
<1>1. 1 .. count = {}
  BY DEF Init
<1>2. [i \in 1 .. count |-> tasks[(head + i - 1) % Capacity]] = << >>
  BY <1>1
<1> QED
  BY <1>2 DEF Init, Contract!Init

(* A step that moves no descriptor closes the queue or changes nothing.    *)
LEMMA RefinesFrame ==
  ASSUME TypeInv, HoldInv, SameHolders, shutdown' \/ UNCHANGED shutdown
  PROVE  Contract!Close \/ UNCHANGED Contract!vars
<1>1. UNCHANGED <<tasks, head, count, job, fd>>
  BY DEF SameHolders, queue
<1>2. Serving' = Serving /\ Served' = Served
  BY <1>1 DEF SameHolders, Serving, Served
<1>3. [i \in 1 .. count |-> tasks[(head + i - 1) % Capacity]]'
        = [i \in 1 .. count |-> tasks[(head + i - 1) % Capacity]]
  BY <1>1
<1> QED
  BY <1>2, <1>3 DEF TypeInv, TypeOK, Contract!Close, Contract!vars, Serving,
     Served

LEMMA RefinesAddTask ==
  ASSUME TypeInv, NEW c \in Callers, NEW f \in Conns, AddTask(c, f)
  PROVE  UNCHANGED Contract!vars
<1> USE DEF TypeInv, TypeOK
<1>1. /\ fd[f] = "fresh" /\ fd' = [fd EXCEPT ![f] = "open"]
      /\ UNCHANGED <<tasks, head, count, job, wpc, shutdown>>
  BY DEF AddTask, queue, threads, life
<1>2. Served' = Served
  BY <1>1 DEF Served
<1> QED
  BY <1>1, <1>2 DEF Contract!vars, Served

LEMMA RefinesRefused ==
  ASSUME TypeInv, HoldInv, NEW c \in Callers, ReturnRefused(c)
  PROVE  UNCHANGED Contract!vars
<1> USE DEF TypeInv, TypeOK
<1>1. /\ cpc[c] = "refused" /\ fd' = [fd EXCEPT ![arg[c]] = "rejected"]
      /\ UNCHANGED <<tasks, head, count, job, wpc, shutdown>>
  BY DEF ReturnRefused, queue, threads, life
<1>2. arg[c] \in Conns /\ fd[arg[c]] = "open"
  BY <1>1 DEF HoldInv, HeldAtSteps, OpenAreHeld, Holds, Offering
<1>3. Served' = Served
  BY <1>1, <1>2 DEF Served
<1> QED
  BY <1>1, <1>3 DEF Contract!vars, Served

LEMMA RefinesHandle ==
  ASSUME TypeInv, HoldInv, NEW t \in Threads, Handle(t)
  PROVE  \E f \in Conns : Contract!Finish(f)
<1> USE DEF TypeInv, TypeOK
<1>1. /\ wpc[t] = "handle" /\ fd' = [fd EXCEPT ![job[t]] = "closed"]
      /\ job' = [job EXCEPT ![t] = None]
      /\ \A u \in Threads : wpc'[u] = "handle" <=> u # t /\ wpc[u] = "handle"
      /\ UNCHANGED <<tasks, head, count, shutdown>>
  BY DEF Handle, queue, life
<1>2. job[t] \in Conns /\ job[t] # None
  BY <1>1 DEF HoldInv, HeldAtSteps
<1>3. job[t] \in Serving
  BY <1>1 DEF Serving
<1>4. \A u \in Threads : u # t /\ wpc[u] = "handle" => job[u] # job[t]
  BY <1>2 DEF HoldInv, HeldOnce
<1>5. Serving' = Serving \ {job[t]}
  BY <1>1, <1>4 DEF Serving
<1>6. Served' = Served \cup {job[t]}
  BY <1>1, <1>2 DEF Served
<1>7. PICK f \in Conns : f = job[t]
  BY <1>2
<1>8. Contract!Finish(f)
  BY <1>1, <1>3, <1>5, <1>6, <1>7 DEF Contract!Finish, Serving, Served
<1> QED
  BY <1>8

LEMMA RefinesDequeue ==
  ASSUME TypeInv, HoldInv, NEW t \in Threads, Dequeue(t)
  PROVE  Contract!Take
<1> USE DEF TypeInv, TypeOK
<1>1. /\ wpc[t] # "handle" /\ count \in 1 .. Capacity
      /\ job' = [job EXCEPT ![t] = tasks[head]]
      /\ head' = Advance(head) /\ count' = count - 1
      /\ wpc' = [wpc EXCEPT ![t] = "handle"]
      /\ UNCHANGED <<tasks, fd, shutdown>>
  BY Sizes DEF Dequeue, Awake, life
<1>2. tasks \in [Positions -> Holdings]
  BY DEF Holdings
<1>3. /\ Line(tasks, head, count) # << >>
      /\ Head(Line(tasks, head, count)) = tasks[head]
      /\ Line(tasks', head', count') = Tail(Line(tasks, head, count))
  BY <1>1, <1>2, LineShrinks
<1>4. Serving' = Serving \cup {tasks[head]}
  BY <1>1 DEF Serving
<1> QED
  BY <1>1, <1>3, <1>4 DEF Contract!Take, Line, Serving

LEMMA RefinesEnqueue ==
  ASSUME TypeInv, HoldInv, NEW c \in Callers, Enqueue(c)
  PROVE  \E f \in Conns : Contract!Accept(f)
<1> USE DEF TypeInv, TypeOK
<1>1. /\ cpc[c] = "add" /\ ~shutdown /\ count \in 0 .. Capacity - 1
      /\ tasks' = [tasks EXCEPT ![tail] = arg[c]]
      /\ count' = count + 1
      /\ UNCHANGED <<head, job, fd, shutdown>>
  BY Sizes DEF Enqueue, Full, life
<1>2. \A t \in Threads : wpc'[t] = "handle" <=> wpc[t] = "handle"
  BY DEF Enqueue, SignalNotEmpty, Sleepers
<1>3. arg[c] \in Conns /\ arg[c] # None
  BY <1>1 DEF HoldInv, HeldAtSteps, Offering
<1>4. tasks \in [Positions -> Holdings] /\ arg[c] \in Holdings
  BY DEF Holdings
<1>5. /\ Line(tasks', head', count')
           = Append(Line(tasks, head, count), arg[c])
      /\ Len(Line(tasks, head, count)) = count /\ count < Capacity
  <2>1. tail = (head + count) % Capacity /\ count \in 0 .. Capacity
    BY <1>1, Sizes DEF HoldInv, RingInv
  <2>2. tasks' = [tasks EXCEPT ![(head + count) % Capacity] = arg[c]]
    BY <1>1, <2>1
  <2>3. Line([tasks EXCEPT ![(head + count) % Capacity] = arg[c]],
             head, count + 1)
          = Append(Line(tasks, head, count), arg[c])
    BY <1>1, <1>4, LineGrows
  <2>4. Line(tasks', head', count') = Append(Line(tasks, head, count), arg[c])
    BY <1>1, <2>2, <2>3
  <2>5. Len(Line(tasks, head, count)) = count
    BY <1>4, <2>1, LineIsSeq
  <2>6. count < Capacity
    BY <1>1, Sizes
  <2> QED
    BY <2>4, <2>5, <2>6
<1>6. \A i \in DOMAIN Line(tasks, head, count) :
        Line(tasks, head, count)[i] # arg[c]
  <2> SUFFICES ASSUME NEW i \in 1 .. count
               PROVE  Line(tasks, head, count)[i] # arg[c]
    BY DEF Line
  <2>1. /\ i - 1 \in 0 .. count - 1
        /\ Line(tasks, head, count)[i] = tasks[(head + (i - 1)) % Capacity]
    BY <1>4, LineIsSeq
  <2>2. (head + (i - 1)) % Capacity \in Pending
    BY <2>1 DEF Pending
  <2> QED
    BY <2>1, <2>2 DEF HoldInv, HeldOnce
<1>7. arg[c] \notin Serving
  BY <1>3 DEF Serving, HoldInv, HeldOnce
<1>8. arg[c] \notin Served
  BY <1>3 DEF Served, HoldInv, OpenAreHeld, Holds
<1>9. Serving' = Serving /\ Served' = Served
  BY <1>1, <1>2 DEF Serving, Served
<1>10. arg[c] \notin Contract!Waiting
  BY <1>6 DEF Contract!Waiting, Line
<1>11. PICK f \in Conns : f = arg[c]
  BY <1>3
<1>12. Contract!Accept(f)
  BY <1>1, <1>5, <1>7, <1>8, <1>9, <1>10, <1>11
     DEF Contract!Accept, Line, Serving, Served
<1> QED
  BY <1>12

LEMMA RefinesNext ==
  TypeInv /\ HoldInv /\ [Next]_vars => [Contract!Next]_(Contract!vars)
<1> SUFFICES ASSUME TypeInv, HoldInv, [Next]_vars
             PROVE  [Contract!Next]_(Contract!vars)
  OBVIOUS
<1>1. CASE \E t \in Threads : WorkerLocks(t) \/ WorkerRuns(t) \/ Fault(t)
  <2>1. PICK t \in Threads : WorkerLocks(t) \/ WorkerRuns(t) \/ Fault(t)
    BY <1>1
  <2>2. CASE Dequeue(t)
    BY <2>2, RefinesDequeue DEF Contract!Next
  <2>3. CASE Handle(t)
    BY <2>3, RefinesHandle DEF Contract!Next
  <2>4. CASE SameHolders /\ UNCHANGED shutdown
    BY <2>4, RefinesFrame DEF Contract!Next
  <2> QED
    BY <2>1, <2>2, <2>3, <2>4, WorkerMoves
<1>2. CASE \E c \in Callers : CallerLocks(c) \/ CallerRuns(c) \/ Returns(c)
  <2>1. PICK c \in Callers : CallerLocks(c) \/ CallerRuns(c) \/ Returns(c)
    BY <1>2
  <2>2. CASE Enqueue(c)
    BY <2>2, RefinesEnqueue DEF Contract!Next
  <2>3. CASE ReturnRefused(c)
    BY <2>3, RefinesRefused
  <2>4. CASE SameHolders /\ UNCHANGED shutdown
    BY <2>4, RefinesFrame DEF Contract!Next
  <2> QED
    BY <2>1, <2>2, <2>3, <2>4, CallerMoves
<1>3. CASE \E c \in Callers, f \in Conns : AddTask(c, f)
  BY <1>3, RefinesAddTask
<1>4. CASE Shutdown \/ OwnerRuns \/ Wakeup \/ UNCHANGED vars
  BY <1>4, OwnerMoves, RefinesFrame DEF Contract!Next
<1> QED
  BY <1>1, <1>2, <1>3, <1>4 DEF Next, Finished

(* The ring buffer under its mutex and condition variables is the bounded  *)
(* FIFO queue of ConnQueue: every step is one of the queue's or leaves it  *)
(* as it is.  (The other half of ImplementsContract, that every accepted   *)
(* connection is served, is model-checked.)                                *)
THEOREM PoolIsQueue == Safety => Contract!Safety
BY TypeInit, TypeStep, HoldInit, HoldStep, RefinesInit, RefinesNext, PTL
   DEF Safety, Contract!Safety

-----------------------------------------------------------------------------
(* The pool server.                                                        *)

LEMMA ServerStepsPool == [ServerNext]_all_vars => [Next]_vars
BY Sizes
   DEF ServerNext, all_vars, InPool, Next, OwnerRuns, Accept, AcceptFails,
   Interrupt, ServerRuns, PoolCreated, PoolFailed, TestShutdown, EnterAccept,
   TaskSubmitted, CloseAndShutdown, DestroyPool, Report, ServerStops

(* tcp_pool_server_run drives the pool through its interface only, and so  *)
(* what is proved of the pool holds inside the server: it is the bounded   *)
(* FIFO queue there too.                                                   *)
THEOREM ServerIsQueue == ServerSafety => Contract!Safety
<1>1. ServerSafety => Safety
  BY ServerStepsPool, PTL DEF ServerSafety, ServerInit, Safety
<1> QED
  BY <1>1, PoolIsQueue

(* A step that leaves the account of accepted connections as it is.        *)
SameAccount ==
  /\ UNCHANGED <<count, total_processed, clients_served>>
  /\ Uncounted' = Uncounted
  /\ \A t \in Threads : wpc'[t] \in {"handle", "ok", "err"}
                          <=> wpc[t] \in {"handle", "ok", "err"}

LEMMA AccountFrame ==
  ASSUME Account, SameAccount
  PROVE  Account'
<1>1. Busy' = Busy
  BY DEF SameAccount, Busy
<1> QED
  BY <1>1 DEF SameAccount, Account

LEMMA ServerWorker ==
  ASSUME ServerIInv, NEW t \in Threads,
         WorkerLocks(t) \/ WorkerRuns(t) \/ Fault(t), UNCHANGED server_vars
  PROVE  ServerControl' /\ Account'
<1> USE Sizes DEF ServerIInv, IInv, TypeInv, TypeOK, server_vars
<1>1. /\ \/ cpc'[Owner] = cpc[Owner]
         \/ cpc[Owner] = "notFull" /\ cpc'[Owner] = "add"
      /\ created' = created
  BY DEF WorkerLocks, WorkerRuns, Fault, FindEmpty, CondWait, TimedOut,
     IdleExit, IdleUnlock, IdleReturn, DrainExit, DrainReturn, Dequeue, Handle,
     CountTask, SignalNotFull, Blocked, calls, life
<1>2. ServerControl'
  BY <1>1 DEF ServerControl, OwnerPoints, Offering, Spawning, Destroying,
     Creating
<1>3. Uncounted' = Uncounted
  BY <1>1 DEF Uncounted, Spawning
<1>4. CASE Dequeue(t)
  <2>1. /\ wpc[t] \in {"lock", "late"} /\ wpc' = [wpc EXCEPT ![t] = "handle"]
        /\ count' = count - 1 /\ total_processed' = total_processed
    BY <1>4 DEF Dequeue, Awake, stats
  <2>2. Busy' = Busy \cup {t} /\ t \notin Busy
    BY <2>1 DEF Busy
  <2>3. IsFiniteSet(Busy') /\ Cardinality(Busy') = Cardinality(Busy) + 1
    BY <2>2, FS_AddElement DEF Account
  <2>4. Cardinality(Busy) \in Nat /\ Uncounted \in Nat
    BY FS_CardinalityType DEF Account, Uncounted
  <2> QED
    BY <1>2, <1>3, <2>1, <2>3, <2>4 DEF Account
<1>5. CASE CountTask(t)
  <2>1. /\ wpc[t] \in {"ok", "err"} /\ wpc' = [wpc EXCEPT ![t] = "lock"]
        /\ count' = count /\ total_processed' = total_processed + 1
    BY <1>5 DEF CountTask, queue
  <2>2. Busy' = Busy \ {t} /\ t \in Busy
    BY <2>1 DEF Busy
  <2>3. IsFiniteSet(Busy') /\ Cardinality(Busy') = Cardinality(Busy) - 1
    BY <2>2, FS_RemoveElement DEF Account
  <2>4. Cardinality(Busy) \in Nat /\ Uncounted \in Nat
    BY FS_CardinalityType DEF Account, Uncounted
  <2> QED
    BY <1>2, <1>3, <2>1, <2>3, <2>4 DEF Account
<1>6. CASE FindEmpty(t) \/ CondWait(t) \/ TimedOut(t) \/ IdleExit(t)
             \/ IdleUnlock(t) \/ IdleReturn(t) \/ DrainExit(t)
             \/ DrainReturn(t) \/ Handle(t) \/ Fault(t)
  <2>1. UNCHANGED <<count, total_processed>>
    BY <1>6 DEF FindEmpty, CondWait, TimedOut, IdleExit, IdleUnlock,
       IdleReturn, DrainExit, DrainReturn, Handle, Fault, queue, stats
  <2>2. \A u \in Threads : wpc'[u] \in {"handle", "ok", "err"}
                             <=> wpc[u] \in {"handle", "ok", "err"}
    BY <1>6 DEF FindEmpty, CondWait, TimedOut, TimedWait, IdleExit, IdleUnlock,
       IdleReturn, DrainExit, DrainReturn, Awake, Handle, Fault, Leaving
  <2> QED
    BY <1>2, <1>3, <2>1, <2>2, AccountFrame DEF SameAccount
<1> QED
  BY <1>4, <1>5, <1>6 DEF WorkerLocks, WorkerRuns

(* The main thread inside thread_pool_create or thread_pool_add_task.      *)
LEMMA ServerCaller ==
  ASSUME ServerIInv, CallerLocks(Owner) \/ CallerRuns(Owner),
         UNCHANGED server_vars
  PROVE  ServerControl' /\ Account'
<1> USE Sizes DEF ServerIInv, IInv, TypeInv, TypeOK, server_vars
<1>1. /\ cpc[Owner] \in {"add", "reserve"} \cup Spawning
      /\ total_processed' = total_processed
  BY DEF CallerLocks, CallerRuns, Refuse, WaitForRoom, Enqueue, ReserveSlot,
     NoFreeSlot, Rollback, RecordPeak, CreateThread, CreateFails, Spawning,
     stats
<1>2. \/ server = "submit" /\ ~Creating
      \/ server = "create" /\ Creating /\ cpc[Owner] \in {"reserve"} \cup Spawning
  BY <1>1 DEF ServerControl, ServerPoints, OwnerPoints, Spawning, Destroying
<1>3. \A t \in Threads : wpc'[t] \in {"handle", "ok", "err"}
                           <=> wpc[t] \in {"handle", "ok", "err"}
  <2>1. CASE CreateThread(Owner)
    BY <2>1 DEF CreateThread
  <2>2. CASE Enqueue(Owner)
    BY <2>2 DEF Enqueue, SignalNotEmpty, Sleepers
  <2>3. CASE CreateFails(Owner) \/ RecordPeak(Owner) \/ Refuse(Owner)
               \/ WaitForRoom(Owner) \/ ReserveSlot(Owner) \/ NoFreeSlot(Owner)
               \/ Rollback(Owner)
    BY <2>3 DEF CreateFails, RecordPeak, Refuse, WaitForRoom, ReserveSlot,
       NoFreeSlot, Rollback, threads
  <2> QED
    BY <2>1, <2>2, <2>3 DEF CallerLocks, CallerRuns
<1>4. CASE Enqueue(Owner)
  <2>1. /\ cpc[Owner] = "add" /\ cpc'[Owner] \in {"accepted", "reserve"}
        /\ count' = count + 1 /\ created' = created
    BY <1>4 DEF Enqueue, life
  <2>2. server = "submit"
    BY <1>2, <2>1 DEF Spawning
  <2>3. Uncounted = 0 /\ Uncounted' = 1
    BY <2>1, <2>2 DEF Uncounted, Spawning
  <2>4. Busy' = Busy
    BY <1>3 DEF Busy
  <2>5. Cardinality(Busy) \in Nat
    BY FS_CardinalityType DEF Account
  <2>6. Account'
    BY <1>1, <2>1, <2>3, <2>4, <2>5 DEF Account
  <2>7. ServerControl'
    BY <1>2, <2>1, <2>2 DEF ServerControl, Creating
  <2> QED
    BY <2>6, <2>7
<1>5. CASE Refuse(Owner) \/ WaitForRoom(Owner)
  <2>1. /\ cpc[Owner] = "add" /\ cpc'[Owner] \in Offering
        /\ UNCHANGED <<count, created>>
    BY <1>5 DEF Refuse, WaitForRoom, Offering, queue, life
  <2>2. Uncounted' = Uncounted
    BY <2>1 DEF Uncounted, Offering, Spawning
  <2>3. ServerControl'
    BY <1>2, <2>1 DEF ServerControl, Creating, Spawning
  <2> QED
    BY <1>1, <1>3, <2>1, <2>2, <2>3, AccountFrame DEF SameAccount
<1>6. CASE ReserveSlot(Owner) \/ NoFreeSlot(Owner) \/ Rollback(Owner)
             \/ RecordPeak(Owner) \/ CreateThread(Owner) \/ CreateFails(Owner)
  <2>1. /\ cpc[Owner] \in {"reserve"} \cup Spawning
        /\ UNCHANGED count
    BY <1>6 DEF ReserveSlot, NoFreeSlot, Rollback, RecordPeak, CreateThread,
       CreateFails, Spawning, queue
  <2>2. /\ ~Creating => /\ cpc'[Owner] \in {"accepted"} \cup Spawning
                        /\ created' = created
        /\ Creating => \/ /\ cpc'[Owner] \in {"abort", "reserve"} \cup Spawning
                          /\ Creating'
                       \/ cpc'[Owner] = "ready"
    <3>1. CASE CreateThread(Owner)
      <4>1. /\ created' = IF Creating THEN created + 1 ELSE created
            /\ cpc'[Owner] = IF ~Creating THEN "accepted"
                             ELSE IF created' = CoreSize THEN "ready"
                             ELSE "reserve"
        BY <3>1 DEF CreateThread
      <4> QED
        BY <4>1 DEF Creating
    <3>2. CASE ReserveSlot(Owner) \/ NoFreeSlot(Owner) \/ Rollback(Owner)
                 \/ RecordPeak(Owner) \/ CreateFails(Owner)
      BY <3>2 DEF ReserveSlot, NoFreeSlot, Rollback, RecordPeak, CreateFails,
         SpawnFailed, Creating, Spawning, life
    <3> QED
      BY <1>6, <3>1, <3>2
  <2>3. Uncounted' = Uncounted
    BY <1>2, <2>1, <2>2 DEF Uncounted
  <2>4. ServerControl'
    BY <1>2, <2>2 DEF ServerControl, Creating, OwnerPoints, Spawning
  <2> QED
    BY <1>1, <1>3, <2>1, <2>3, <2>4, AccountFrame DEF SameAccount
<1> QED
  BY <1>4, <1>5, <1>6 DEF CallerLocks, CallerRuns

(* The main thread inside thread_pool_destroy, and wakeups.                *)
LEMMA ServerOwner ==
  ASSUME ServerIInv, Abort \/ ScanSlot \/ Join \/ Free \/ Wakeup,
         UNCHANGED server_vars
  PROVE  ServerControl' /\ Account'
<1> USE Sizes DEF ServerIInv, IInv, TypeInv, TypeOK, server_vars
<1>1. UNCHANGED <<count, total_processed, created>>
  BY DEF Abort, ScanSlot, Join, Free, Wakeup, queue, stats, life
<1>2. \A t \in Threads : wpc'[t] \in {"handle", "ok", "err"}
                           <=> wpc[t] \in {"handle", "ok", "err"}
  BY DEF Abort, ScanSlot, Join, Free, Wakeup, SpuriousWakeup, Sleepers,
     BroadcastNotEmpty, threads
<1>3. \/ cpc'[Owner] = cpc[Owner]
      \/ cpc[Owner] = "notFull" /\ cpc'[Owner] = "add"
      \/ cpc[Owner] \in {"abort", "scan", "joining"} /\ cpc'[Owner] \in Destroying
  BY DEF Abort, ScanSlot, Join, Free, Wakeup, SpuriousWakeup, Blocked,
     Destroying
<1>4. ServerControl'
  BY <1>1, <1>3 DEF ServerControl, OwnerPoints, Offering, Spawning, Destroying,
     Creating
<1>5. Uncounted' = Uncounted
  BY <1>3 DEF Uncounted, Spawning, Destroying
<1> QED
  BY <1>1, <1>2, <1>4, <1>5, AccountFrame DEF SameAccount

(* The main thread between its calls of the pool.                          *)
LEMMA ServerLoop ==
  ASSUME ServerIInv, UNCHANGED vars,
         \/ PoolCreated \/ PoolFailed \/ TestShutdown \/ EnterAccept
         \/ AcceptFails \/ Interrupt \/ Report \/ UNCHANGED server_vars
  PROVE  server' \in ServerPoints /\ ServerControl' /\ Account'
<1> USE Sizes DEF ServerIInv, IInv
<1>1. UNCHANGED <<count, total_processed, clients_served, created, cpc, wpc>>
  BY DEF vars, queue, stats, threads, calls, life, server_vars, PoolCreated,
     PoolFailed, TestShutdown, EnterAccept, AcceptFails, Interrupt, Report
<1>2. /\ server' \in ServerPoints
      /\ server' = "submit" <=> server = "submit"
  BY DEF ServerPoints, server_vars, PoolCreated, PoolFailed, TestShutdown,
     EnterAccept, AcceptFails, Interrupt, Report
<1>3. Creating => cpc[Owner] # "ready"
  BY DEF EndInv, OwnerPoints, Spawning, Destroying
<1>4. ServerControl'
  BY <1>1, <1>3 DEF ServerControl, Creating, server_vars, PoolCreated,
     PoolFailed, TestShutdown, EnterAccept, AcceptFails, Interrupt, Report
<1>5. Uncounted' = Uncounted
  BY <1>1, <1>2 DEF Uncounted
<1> QED
  BY <1>1, <1>2, <1>4, <1>5, AccountFrame DEF SameAccount

(* The calls of thread_pool_add_task, thread_pool_shutdown and             *)
(* thread_pool_destroy, and the return of the first.                       *)
LEMMA ServerCalls ==
  ASSUME ServerIInv,
         \/ \E f \in Conns : Accept(f)
         \/ TaskSubmitted \/ CloseAndShutdown \/ DestroyPool
  PROVE  server' \in ServerPoints /\ ServerControl' /\ Account'
<1> USE Sizes DEF ServerIInv, IInv, TypeInv, TypeOK, ServerPoints, server_vars
<1>1. UNCHANGED <<count, total_processed, created>>
  BY DEF Accept, AddTask, TaskSubmitted, Returns, ReturnAccepted,
     ReturnRefused, CloseAndShutdown, Shutdown, DestroyPool, Destroy, queue,
     stats, life
<1>2. \A t \in Threads : wpc'[t] \in {"handle", "ok", "err"}
                           <=> wpc[t] \in {"handle", "ok", "err"}
  BY DEF Accept, AddTask, TaskSubmitted, Returns, ReturnAccepted,
     ReturnRefused, CloseAndShutdown, Shutdown, BroadcastNotEmpty, DestroyPool,
     Destroy, threads
<1>3. CASE \E f \in Conns : Accept(f)
  <2>1. /\ server = "accept" /\ server' = "submit"
        /\ cpc[Owner] = "ready" /\ cpc'[Owner] = "add"
        /\ clients_served' = clients_served
    BY <1>3 DEF Accept, AddTask
  <2>2. Uncounted = 0 /\ Uncounted' = 0
    BY <2>1 DEF Uncounted, Spawning
  <2>3. ServerControl'
    BY <1>1, <2>1 DEF ServerControl, Creating, Offering
  <2> QED
    BY <1>1, <1>2, <2>1, <2>2, <2>3, AccountFrame DEF SameAccount
<1>4. CASE TaskSubmitted
  <2>1. /\ server = "submit" /\ cpc'[Owner] = "ready"
        /\ cpc[Owner] \in {"accepted", "refused"}
        /\ clients_served' = IF cpc[Owner] = "accepted" THEN clients_served + 1
                                                        ELSE clients_served
        /\ server' = IF cpc[Owner] = "accepted" THEN "loop" ELSE "close"
    BY <1>4 DEF TaskSubmitted, Returns, ReturnAccepted, ReturnRefused
  <2>2. /\ Uncounted = IF cpc[Owner] = "accepted" THEN 1 ELSE 0
        /\ Uncounted' = 0
    BY <2>1 DEF Uncounted, Spawning
  <2>3. Busy' = Busy
    BY <1>2 DEF Busy
  <2>4. Cardinality(Busy) \in Nat
    BY FS_CardinalityType DEF Account
  <2>5. Account'
    BY <1>1, <2>1, <2>2, <2>3, <2>4 DEF Account
  <2>6. ServerControl'
    BY <1>1, <2>1 DEF ServerControl, Creating
  <2> QED
    BY <2>1, <2>5, <2>6
<1>5. CASE CloseAndShutdown \/ DestroyPool
  <2>1. /\ server \in {"close", "destroy"} /\ server' = "destroy"
        /\ cpc'[Owner] \in {"stopped", "scan"}
        /\ clients_served' = clients_served
    BY <1>5 DEF CloseAndShutdown, Shutdown, DestroyPool, Destroy
  <2>2. Uncounted = 0 /\ Uncounted' = 0
    BY <2>1 DEF Uncounted
  <2>3. ServerControl'
    BY <1>1, <2>1 DEF ServerControl, Creating, Destroying
  <2> QED
    BY <1>1, <1>2, <2>1, <2>2, <2>3, AccountFrame DEF SameAccount
<1> QED
  BY <1>3, <1>4, <1>5

LEMMA ServerIInvInit == ServerInit => ServerIInv
<1> SUFFICES ASSUME ServerInit PROVE ServerIInv
  OBVIOUS
<1>1. Busy = {}
  BY DEF ServerInit, Init, Busy
<1>2. IsFiniteSet(Busy) /\ Cardinality(Busy) = 0
  BY <1>1, FS_EmptySet
<1> QED
  BY <1>2, IInvInit, Sizes DEF ServerInit, Init, ServerIInv, ServerPoints,
     ServerControl, Account, Uncounted, OwnerPoints, Creating

LEMMA ServerIInvStep == ServerIInv /\ [ServerNext]_all_vars => ServerIInv'
<1> SUFFICES ASSUME ServerIInv, [ServerNext]_all_vars
             PROVE  server' \in ServerPoints /\ ServerControl' /\ Account'
  BY ServerStepsPool, IInvStep DEF ServerIInv
<1>1. CASE \E t \in Threads : \/ InPool(WorkerLocks(t))
                              \/ InPool(WorkerRuns(t)) \/ InPool(Fault(t))
  BY <1>1, ServerWorker DEF InPool, server_vars, ServerIInv
<1>2. CASE InPool(CallerLocks(Owner)) \/ InPool(CallerRuns(Owner))
  BY <1>2, ServerCaller DEF InPool, server_vars, ServerIInv
<1>3. CASE InPool(Abort \/ ScanSlot \/ Join \/ Free) \/ InPool(Wakeup)
  BY <1>3, ServerOwner DEF InPool, server_vars, ServerIInv
<1>4. CASE \/ AcceptFails \/ Interrupt \/ PoolCreated \/ PoolFailed
           \/ TestShutdown \/ EnterAccept \/ Report \/ ServerStops
           \/ UNCHANGED all_vars
  BY <1>4, ServerLoop DEF AcceptFails, Interrupt, PoolCreated, PoolFailed,
     TestShutdown, EnterAccept, Report, ServerStops, all_vars
<1>5. CASE \/ \E f \in Conns : Accept(f)
           \/ TaskSubmitted \/ CloseAndShutdown \/ DestroyPool
  BY <1>5, ServerCalls
<1> QED
  BY <1>1, <1>2, <1>3, <1>4, <1>5 DEF ServerNext, ServerRuns

(* The numbers the server reports in the end are equal, and no accepted    *)
(* connection is left open, whatever the interleaving of the acceptor, the *)
(* workers, the scaling of the pool and SIGINT.                            *)
THEOREM ReportCorrect == ServerSpec => []ReportIsExact
<1>1. ServerIInv => ReportIsExact
  <2> SUFFICES ASSUME ServerIInv, server = "exit"
               PROVE  /\ clients_served = total_processed
                      /\ \A f \in Conns : fd[f] # "open"
    BY DEF ReportIsExact
  <2>1. IInv /\ freed
    BY DEF ServerIInv, ServerControl, IInv, EndInv
  <2>2. count = 0 /\ Busy = {}
    BY <2>1, NobodyAtTheEnd DEF Busy, Working
  <2>3. clients_served = total_processed
    BY <2>1, <2>2, FS_EmptySet DEF ServerIInv, Account, Uncounted, IInv,
       TypeInv, TypeOK
  <2> QED
    BY <2>1, <2>3, DrainedAtTheEnd DEF DrainedBeforeFree
<1> QED
  BY ServerIInvInit, ServerIInvStep, <1>1, PTL DEF ServerSpec, ServerSafety

=============================================================================
