-------------------------- MODULE MasterWorkerProofs --------------------------
(***************************************************************************)
(* Proofs about MasterWorker, for every number of workers and of SIGINTs,  *)
(* and, from "The session table" on, about SessionTable, which each worker *)
(* of the master has one of: for every size of the table and of its index, *)
(* every hash function and all ids.  The two share no state.               *)
(***************************************************************************)
EXTENDS MasterWorker, SessionTable, FiniteSetTheorems, WellFoundedInduction,
        TLAPS

LEMMA Numbers == NumWorkers \in Nat /\ MaxInterrupts \in Nat
BY NumAssumption

LEMMA FirstIndex == 1 \in 1 .. NumWorkers + 1
BY Numbers

LEMMA OneMoreInterrupt ==
  ASSUME interrupts \in 0 .. MaxInterrupts, interrupts < MaxInterrupts
  PROVE  interrupts + 1 \in 0 .. MaxInterrupts
BY Numbers

(* Where the main program is, and in which phase; the table has an entry   *)
(* for each child, but for the one just forked.                            *)
Control ==
  /\ main \in {"open", "fork", "record", "test", "call pause", "pause"}
       => phase = "run"
  /\ main \in {"kill", "send"}
       => phase \in {"term", "kill", "abortTerm", "abortKill"}
  /\ main \in {"wait", "recount"} => phase \in {"term", "kill"}
  /\ main = "send" => index <= g_num_workers
  /\ main = "open" => forked = 0
  /\ main = "record" => forked = g_num_workers + 1
  /\ main # "record" => forked = g_num_workers

TypeInv == TypeOK /\ Control

LEMMA TypeInit == Init => TypeInv
<1> SUFFICES ASSUME Init PROVE TypeInv
  OBVIOUS
<1>1. /\ g_workers \in [Slots -> 0 .. NumWorkers]
      /\ worker \in [Pids -> {"none", "starting", "running", "blocked", "zombie",
                              "reaped"}]
      /\ forked \in 0 .. NumWorkers /\ index \in 1 .. NumWorkers + 1
      /\ g_num_workers \in 0 .. NumWorkers /\ remaining \in 0 .. NumWorkers
      /\ interrupts \in 0 .. MaxInterrupts
  BY Numbers DEF Init
<1>2. g_shutdown \in [Pids -> BOOLEAN]
  BY DEF Init
<1>3. g_master_shutdown \in BOOLEAN /\ sigchld \in BOOLEAN /\ timedOut \in BOOLEAN
  BY DEF Init
<1>4. main = "open" /\ phase = "run" /\ Control
  BY DEF Init, Control
<1> QED
  BY <1>1, <1>2, <1>3, <1>4 DEF TypeInv, TypeOK

(* What a signal leaves of the types of the workers.                       *)
LEMMA DeliverType ==
  ASSUME TypeOK, NEW signum, NEW targets, Deliver(signum, targets)
  PROVE  /\ worker' \in [Pids -> {"none", "starting", "running", "blocked",
                                  "zombie", "reaped"}]
         /\ g_shutdown' \in [Pids -> BOOLEAN]
         /\ sigchld' \in BOOLEAN
<1>1. \A p \in Pids : AfterSignal(signum, p) \in
        {"none", "starting", "running", "blocked", "zombie", "reaped"}
  BY DEF AfterSignal, TypeOK
<1>2. worker' \in [Pids -> {"none", "starting", "running", "blocked",
                            "zombie", "reaped"}]
  BY <1>1 DEF Deliver, TypeOK
<1>3. g_shutdown' \in [Pids -> BOOLEAN]
  BY DEF Deliver
<1>4. sigchld' \in BOOLEAN
  BY DEF Deliver
<1> QED
  BY <1>2, <1>3, <1>4

(* Signals and reaping only ever take workers away.                        *)
LEMMA DeliverShrinks ==
  ASSUME TypeOK, NEW signum, NEW targets, Deliver(signum, targets)
  PROVE  /\ Live' \subseteq Live /\ Unreaped' = Unreaped
         /\ \A p \in Pids : worker[p] = "none" => worker'[p] = "none"
<1>1. \A p \in Pids : worker'[p] = worker[p] \/ worker'[p] = AfterSignal(signum, p)
  BY DEF Deliver
<1>2. \A p \in Pids : p \notin Live => AfterSignal(signum, p) = worker[p]
  BY DEF AfterSignal, Live
<1>3. \A p \in Pids : p \in Live =>
        AfterSignal(signum, p) \in {"zombie", "starting", "running"}
  BY DEF AfterSignal, Live
<1>4. \A p \in Pids : p \in Unreaped <=> p \in Unreaped'
  BY <1>1, <1>2, <1>3 DEF Live, Zombies, Unreaped
<1>5. \A p \in Pids : worker[p] = "none" => worker'[p] = "none"
  BY <1>1, <1>2 DEF Live
<1>6. Live' \subseteq Live
  BY <1>1, <1>2 DEF Live
<1> QED
  BY <1>4, <1>5, <1>6 DEF Live, Zombies, Unreaped

LEMMA OccupiedFinite ==
  ASSUME TypeOK
  PROVE  /\ IsFiniteSet(Occupied) /\ Cardinality(Occupied) \in 0 .. NumWorkers
<1>1. IsFiniteSet(1 .. NumWorkers) /\ Cardinality(1 .. NumWorkers) = NumWorkers
  BY Numbers, FS_Interval
<1>b. g_num_workers \in 0 .. NumWorkers
  BY DEF TypeOK
<1>a. g_num_workers \in Nat /\ g_num_workers <= NumWorkers
  BY <1>b, Numbers
<1>2. Occupied \subseteq 1 .. NumWorkers
  BY <1>a, Numbers DEF Occupied
<1>3. IsFiniteSet(Occupied) /\ Cardinality(Occupied) <= NumWorkers
  BY <1>1, <1>2, FS_Subset
<1> QED
  BY <1>3, FS_CardinalityType, Numbers

-----------------------------------------------------------------------------
(* Type correctness.                                                       *)

(* Clearing slots keeps the table a table.                                 *)
LEMMA ClearedType ==
  ASSUME TypeOK, NEW pids
  PROVE  Cleared(pids) \in [Slots -> 0 .. NumWorkers]
<1>1. 0 \in 0 .. NumWorkers
  BY Numbers
<1>2. \A s \in Slots : g_workers[s] \in 0 .. NumWorkers
  BY DEF TypeOK
<1> QED
  BY <1>1, <1>2 DEF Cleared

LEMMA TypeMain == ASSUME TypeInv, MainRuns PROVE TypeInv'
<1> USE DEF TypeInv, TypeOK, Control, control, table, env
<1>1. CASE Open
  BY <1>1 DEF Open
<1>2. CASE Fork
  BY <1>2, Numbers DEF Fork, Pids
<1>3. CASE Record
  <2>1. g_num_workers + 1 \in Slots /\ forked \in 0 .. NumWorkers
    BY <1>3, Numbers DEF Record, Slots
  <2>2. g_workers' \in [Slots -> 0 .. NumWorkers]
    BY <1>3, <2>1 DEF Record
  <2> QED
    BY <1>3, <2>1, <2>2, Numbers DEF Record
<1>4. CASE ForkFails
  BY <1>4, Numbers DEF ForkFails
<1>5. CASE AllForked
  BY <1>5 DEF AllForked
<1>6. CASE Test
  <2>a. index' = 1
    BY <1>6 DEF Test
  <2>1. index' \in 1 .. NumWorkers + 1
    BY <2>a, FirstIndex
  <2>2. TypeOK'
    BY <1>6, <2>1 DEF Test
  <2>3. Control'
    BY <1>6 DEF Test
  <2> QED
    BY <2>2, <2>3
<1>7. CASE Pause
  BY <1>7 DEF Pause
<1>8. CASE CheckSlot
  <2>1. index' \in 1 .. NumWorkers + 1
    BY <1>8, Numbers DEF CheckSlot, SlotsToKill
  <2>2. TypeOK'
    BY <1>8, <2>1 DEF CheckSlot
  <2>3. Control'
    BY <1>8 DEF CheckSlot, SlotsToKill
  <2> QED
    BY <2>2, <2>3
<1>9. CASE Send
  <2>1. PICK signum, targets : Deliver(signum, targets)
    BY <1>9 DEF Send
  <2>2. /\ worker' \in [Pids -> {"none", "starting", "running", "blocked",
                                 "zombie", "reaped"}]
        /\ g_shutdown' \in [Pids -> BOOLEAN]
        /\ sigchld' \in BOOLEAN
    BY <2>1, DeliverType
  <2>3. /\ main = "send" /\ main' \in {"kill", "killed"} /\ index' = index + 1
        /\ UNCHANGED <<phase, forked, table, g_master_shutdown, remaining, env>>
    BY <1>9 DEF Send
  <2>4. index' \in 1 .. NumWorkers + 1
    BY <2>3, Numbers
  <2> QED
    BY <2>2, <2>3, <2>4
<1>10. CASE AbortNext
  <2>1. index' \in 1 .. NumWorkers + 1
    BY <1>10, Numbers DEF AbortNext
  <2>2. TypeOK'
    BY <1>10, <2>1 DEF AbortNext
  <2>3. Control'
    BY <1>10 DEF AbortNext
  <2> QED
    BY <2>2, <2>3
<1>11. CASE StartWait
  BY <1>11, OccupiedFinite DEF StartWait, StillThere
<1>12. CASE WaitReap
  <2>1. PICK p \in Zombies : Reaped({p}) /\ g_workers' = Cleared({p})
    BY <1>12 DEF WaitReap
  <2>2. g_workers' \in [Slots -> 0 .. NumWorkers]
    BY <2>1, ClearedType
  <2>3. worker' \in [Pids -> {"none", "starting", "running", "blocked",
                              "zombie", "reaped"}]
    BY <2>1 DEF Reaped
  <2>4. remaining' \in 0 .. NumWorkers
    BY <1>12, Numbers DEF WaitReap
  <2> QED
    BY <1>12, <2>2, <2>3, <2>4 DEF WaitReap
<1>13. CASE WaitTimesOut
  BY <1>13 DEF WaitTimesOut
<1>14. CASE WaitOver
  BY <1>14 DEF WaitOver
<1>15. CASE Recount
  <2>1. index' \in 1 .. NumWorkers + 1
    BY <1>15, Numbers DEF Recount
  <2>2. TypeOK'
    BY <1>15, <2>1 DEF Recount
  <2>3. Control'
    BY <1>15 DEF Recount
  <2> QED
    BY <2>2, <2>3
<1> QED
  BY <1>1, <1>2, <1>3, <1>4, <1>5, <1>6, <1>7, <1>8, <1>9, <1>10, <1>11, <1>12,
     <1>13, <1>14, <1>15 DEF MainRuns

LEMMA TypeSignals == ASSUME TypeInv, Interrupt \/ Sigchld PROVE TypeInv'
<1> USE DEF TypeInv, TypeOK, table, env
<1>1. CASE Interrupt
  <2>1. PICK targets : Deliver("INT", targets)
    BY <1>1 DEF Interrupt
  <2>2. /\ worker' \in [Pids -> {"none", "starting", "running", "blocked",
                                 "zombie", "reaped"}]
        /\ g_shutdown' \in [Pids -> BOOLEAN]
        /\ sigchld' \in BOOLEAN
    BY <2>1, DeliverType
  <2>a. interrupts < MaxInterrupts /\ interrupts' = interrupts + 1
    BY <1>1 DEF Interrupt
  <2>b. interrupts \in 0 .. MaxInterrupts
    OBVIOUS
  <2>3. interrupts' \in 0 .. MaxInterrupts
    BY <2>a, <2>b, OneMoreInterrupt
  <2>4. Control'
    BY <1>1 DEF Interrupt, Control
  <2>5. main' \in {"open", "fork", "record", "test", "call pause", "pause",
                   "kill", "send", "wait", "recount", "done", "failed", "killed"}
    BY <1>1 DEF Interrupt
  <2>6. g_master_shutdown' \in BOOLEAN
    BY <1>1 DEF Interrupt
  <2> QED
    BY <1>1, <2>2, <2>3, <2>4, <2>5, <2>6 DEF Interrupt
<1>2. CASE Sigchld
  <2>1. g_workers' \in [Slots -> 0 .. NumWorkers]
    BY <1>2, ClearedType DEF Sigchld
  <2>2. worker' \in [Pids -> {"none", "starting", "running", "blocked",
                              "zombie", "reaped"}]
    BY <1>2 DEF Sigchld, Reaped
  <2>3. Control'
    BY <1>2 DEF Sigchld, Control
  <2> QED
    BY <1>2, <2>1, <2>2, <2>3 DEF Sigchld
<1> QED
  BY <1>1, <1>2

LEMMA TypeWorker ==
  ASSUME TypeInv, NEW p \in Pids, WorkerRuns(p) PROVE TypeInv'
<1>1. /\ worker' \in [Pids -> {"none", "starting", "running", "blocked",
                              "zombie", "reaped"}]
      /\ sigchld' \in BOOLEAN
  BY DEF TypeInv, TypeOK, WorkerRuns, Starts, Fails, Blocks, Resumes, Exits
<1>2. UNCHANGED <<control, table, g_master_shutdown, remaining, g_shutdown, env>>
  BY DEF WorkerRuns, Starts, Fails, Blocks, Resumes, Exits, control, table, env
<1> QED
  BY <1>1, <1>2 DEF TypeInv, TypeOK, Control, control, table, env

LEMMA TypeStep == TypeInv /\ [Next]_vars => TypeInv'
<1> SUFFICES ASSUME TypeInv, [Next]_vars PROVE TypeInv'
  OBVIOUS
<1>1. CASE MainRuns
  BY <1>1, TypeMain
<1>2. CASE Interrupt \/ Sigchld
  BY <1>2, TypeSignals
<1>3. CASE \E p \in Pids : WorkerRuns(p)
  BY <1>3, TypeWorker
<1>4. CASE UNCHANGED vars
  BY <1>4 DEF TypeInv, TypeOK, Control, vars, control, table, env
<1> QED
  BY <1>1, <1>2, <1>3, <1>4 DEF Next, Rest

(* The slots, counters and states of the master and its workers keep their *)
(* ranges; the table never overflows.                                      *)
THEOREM TypeCorrect == Spec => []TypeOK
<1>1. TypeInv => TypeOK
  BY DEF TypeInv
<1> QED
  BY <1>1, TypeInit, TypeStep, PTL DEF Spec

-----------------------------------------------------------------------------
(* No child is lost.                                                       *)

(* Child p has slot p of the table, or has been cleared from it; only the  *)
(* one that was just forked is not there yet.                              *)
Table ==
  /\ \A s \in Slots : g_workers[s] \in {0, s}
  /\ \A p \in Pids : p > forked => worker[p] = "none"
  /\ \A p \in Unreaped :
       /\ p <= forked
       /\ g_workers[p] = p \/ (main = "record" /\ p = forked)

(* What the signals sent and the waits have achieved so far.               *)
Killed ==
  /\ main \in {"kill", "send"} /\ phase \in {"kill", "abortKill"}
       => \A p \in Live : p >= index
  /\ main \in {"wait", "recount"} /\ phase = "kill" => Live = {}
  /\ main = "failed" => Live = {}
  /\ phase = "kill" /\ ~timedOut => Live = {}

Waited ==
  /\ main = "wait" => Cardinality(Unreaped) <= remaining
  /\ main = "recount" /\ (phase = "kill" \/ ~timedOut) => Unreaped = {}
  /\ main = "done" => Unreaped = {}

Inv == TypeInv /\ Table /\ Killed /\ Waited

LEMMA UnreapedFinite ==
  IsFiniteSet(Unreaped) /\ Cardinality(Unreaped) \in Nat
<1>1. IsFiniteSet(Pids)
  BY Numbers, FS_Interval DEF Pids
<1>2. Unreaped \subseteq Pids
  BY DEF Unreaped, Live, Zombies
<1> QED
  BY <1>1, <1>2, FS_Subset, FS_CardinalityType

(* The steps that reap workers, and those of the workers themselves.       *)
LEMMA ReapedShrinks ==
  ASSUME TypeOK, NEW pids \in SUBSET Zombies, Reaped(pids)
  PROVE  /\ Live' = Live /\ Unreaped' = Unreaped \ pids
         /\ \A p \in Pids : worker[p] = "none" => worker'[p] = "none"
<1>1. \A p \in Pids : worker'[p] = IF p \in pids THEN "reaped" ELSE worker[p]
  BY DEF Reaped
<1>2. \A p \in pids : p \in Pids /\ worker[p] = "zombie"
  BY DEF Zombies
<1> QED
  BY <1>1, <1>2 DEF Live, Zombies, Unreaped

LEMMA WorkerShrinks ==
  ASSUME TypeOK, NEW p \in Pids, WorkerRuns(p)
  PROVE  /\ Live' \subseteq Live /\ Unreaped' = Unreaped
         /\ \A q \in Pids : worker[q] = "none" => worker'[q] = "none"
         /\ UNCHANGED <<control, table, remaining, timedOut>>
<1>1. \A q \in Pids : q # p => worker'[q] = worker[q]
  BY DEF WorkerRuns, Starts, Fails, Blocks, Resumes, Exits, TypeOK
<1>2. p \in Live /\ worker'[p] \in {"running", "blocked", "zombie"}
  BY DEF WorkerRuns, Starts, Fails, Blocks, Resumes, Exits, TypeOK, Live
<1>3. UNCHANGED <<control, table, remaining, timedOut>>
  BY DEF WorkerRuns, Starts, Fails, Blocks, Resumes, Exits, env
<1>4. \A q \in Pids : (q \in Live' => q \in Live) /\ (q \in Unreaped' <=> q \in Unreaped)
  BY <1>1, <1>2 DEF Live, Zombies, Unreaped
<1>5. \A q \in Pids : worker[q] = "none" => worker'[q] = "none"
  BY <1>1, <1>2 DEF Live
<1> QED
  BY <1>3, <1>4, <1>5 DEF Live, Zombies, Unreaped

(* Steps that take workers away and leave the table alone.                 *)
LEMMA TableFrame ==
  ASSUME Table, UNCHANGED <<g_workers, forked>>,
         Unreaped' \subseteq Unreaped,
         \A p \in Pids : worker[p] = "none" => worker'[p] = "none",
         main = "record" => main' = "record"
  PROVE  Table'
BY DEF Table

LEMMA TableReaped ==
  ASSUME TypeInv, Table, NEW pids \in SUBSET Zombies, Reaped(pids),
         g_workers' = Cleared(pids), forked' = forked,
         main = "record" => main' = "record"
  PROVE  Table'
<1>1. /\ Unreaped' = Unreaped \ pids
      /\ \A p \in Pids : worker[p] = "none" => worker'[p] = "none"
  BY ReapedShrinks DEF TypeInv
<1>2. \A s \in Slots : g_workers'[s] \in {0, g_workers[s]}
  BY DEF Cleared
<1>3. ASSUME NEW p \in Unreaped'
      PROVE  p <= forked /\ (g_workers'[p] = p \/ (main = "record" /\ p = forked))
  <2>1. p \in Unreaped /\ p \notin pids
    BY <1>1
  <2>2. p \in Slots
    BY <2>1 DEF Unreaped, Live, Zombies, Pids, Slots
  <2>3. g_workers[p] = p => g_workers'[p] = p
    BY <2>1, <2>2 DEF Cleared
  <2> QED
    BY <2>1, <2>3 DEF Table
<1> QED
  BY <1>1, <1>2, <1>3 DEF Table

(* Steps that take workers away while the main program stands still or is  *)
(* woken up.                                                               *)
LEMMA KilledFrame ==
  ASSUME Killed, Live' \subseteq Live, UNCHANGED <<phase, index, timedOut>>,
         main' = main \/ (main = "pause" /\ main' = "test")
  PROVE  Killed'
BY DEF Killed

LEMMA WaitedFrame ==
  ASSUME TypeOK, Waited, Unreaped' \subseteq Unreaped,
         UNCHANGED <<phase, remaining, timedOut>>,
         main' = main \/ (main = "pause" /\ main' = "test")
  PROVE  Waited'
<1>1. Cardinality(Unreaped') <= Cardinality(Unreaped)
  BY UnreapedFinite, FS_Subset
<1>2. Cardinality(Unreaped') \in Nat /\ Cardinality(Unreaped) \in Nat
  BY UnreapedFinite, FS_Subset, FS_CardinalityType
<1>a. remaining \in 0 .. NumWorkers
  BY DEF TypeOK
<1>3. remaining \in Int
  BY <1>a, Numbers
<1> QED
  BY <1>1, <1>2, <1>3 DEF Waited

-----------------------------------------------------------------------------
LEMMA InvInit == Init => Inv
<1> SUFFICES ASSUME Init PROVE Inv
  OBVIOUS
<1>1. \A p \in Pids : worker[p] = "none"
  BY DEF Init
<1>2. Live = {} /\ Unreaped = {}
  BY <1>1 DEF Live, Zombies, Unreaped
<1>3. Table
  BY <1>1, <1>2 DEF Init, Table
<1>4. Killed /\ Waited
  BY <1>2 DEF Init, Killed, Waited
<1> QED
  BY <1>3, <1>4, TypeInit DEF Inv

(* Handlers and workers.                                                   *)
LEMMA InvOthers ==
  ASSUME Inv, Interrupt \/ Sigchld \/ \E p \in Pids : WorkerRuns(p)
  PROVE  Table' /\ Killed' /\ Waited'
<1>0. TypeInv /\ TypeOK /\ Table /\ Killed /\ Waited
  BY DEF Inv, TypeInv
<1>1. CASE Interrupt
  <2>1. PICK targets : Deliver("INT", targets)
    BY <1>1 DEF Interrupt
  <2>2. /\ Live' \subseteq Live /\ Unreaped' = Unreaped
        /\ \A p \in Pids : worker[p] = "none" => worker'[p] = "none"
    BY <1>0, <2>1, DeliverShrinks
  <2>3. /\ UNCHANGED <<phase, forked, index, g_workers, remaining, timedOut>>
        /\ main' = main \/ (main = "pause" /\ main' = "test")
    BY <1>1 DEF Interrupt, table
  <2> QED
    BY <1>0, <2>2, <2>3, TableFrame, KilledFrame, WaitedFrame
<1>2. CASE Sigchld
  <2>1. /\ Reaped(Zombies) /\ g_workers' = Cleared(Zombies)
        /\ UNCHANGED <<phase, forked, index, remaining, timedOut>>
        /\ main' = main \/ (main = "pause" /\ main' = "test")
    BY <1>2 DEF Sigchld, env
  <2>2. Live' = Live /\ Unreaped' = Unreaped \ Zombies
    BY <1>0, <2>1, ReapedShrinks
  <2>3. Table'
    BY <1>0, <2>1, TableReaped
  <2> QED
    BY <1>0, <2>1, <2>2, <2>3, KilledFrame, WaitedFrame
<1>3. CASE \E p \in Pids : WorkerRuns(p)
  <2>1. PICK p \in Pids : WorkerRuns(p)
    BY <1>3
  <2>2. /\ Live' \subseteq Live /\ Unreaped' = Unreaped
        /\ \A q \in Pids : worker[q] = "none" => worker'[q] = "none"
        /\ UNCHANGED <<control, table, remaining, timedOut>>
    BY <1>0, <2>1, WorkerShrinks
  <2> QED
    BY <1>0, <2>2, TableFrame, KilledFrame, WaitedFrame DEF control, table
<1> QED
  BY <1>1, <1>2, <1>3

(* Unless it forks, records or reaps a child or sends a signal, the main    *)
(* program leaves workers and table alone.                                 *)
LEMMA MainQuiet ==
  ASSUME Inv,
         \/ Open \/ ForkFails \/ AllForked \/ Test \/ Pause \/ CheckSlot
         \/ AbortNext \/ StartWait \/ WaitTimesOut \/ WaitOver \/ Recount
  PROVE  /\ Live' = Live /\ Unreaped' = Unreaped /\ Table'
         /\ UNCHANGED <<g_workers, g_num_workers, forked>>
         /\ main # "record"
<1>1. UNCHANGED <<worker, g_workers, g_num_workers, forked>> /\ main # "record"
  BY DEF Open, ForkFails, AllForked, Test, Pause, CheckSlot, AbortNext,
         StartWait, WaitTimesOut, WaitOver, Recount, table, control, env
<1>2. Live' = Live /\ Zombies' = Zombies
  BY <1>1 DEF Live, Zombies
<1>3. Unreaped' = Unreaped
  BY <1>2 DEF Unreaped
<1>4. Table'
  BY <1>1, <1>3, TableFrame DEF Inv
<1> QED
  BY <1>1, <1>2, <1>3, <1>4

(* A child that is not in its slot, outside of the fork, has been reaped.  *)
LEMMA InSlot ==
  ASSUME Inv, main # "record", NEW p \in Unreaped
  PROVE  /\ p \in 1 .. g_num_workers /\ g_workers[p] = p /\ p \in Occupied
<1>1. p \in Pids
  BY DEF Unreaped, Live, Zombies
<1>2. forked = g_num_workers /\ p <= forked /\ g_workers[p] = p
  BY DEF Inv, TypeInv, Control, Table
<1>3. g_num_workers \in 0 .. NumWorkers
  BY DEF Inv, TypeInv, TypeOK
<1>4. p \in Int /\ p >= 1
  BY <1>1, Numbers DEF Pids
<1>5. p \in 1 .. g_num_workers
  BY <1>2, <1>3, <1>4, Numbers
<1> QED
  BY <1>2, <1>4, <1>5 DEF Occupied

LEMMA LiveInTable ==
  ASSUME Inv, main # "record", NEW p \in Live
  PROVE  p \in Int /\ p >= 1 /\ p <= g_num_workers
<1>1. p \in Unreaped
  BY DEF Unreaped
<1>2. p \in 1 .. g_num_workers
  BY <1>1, InSlot
<1>3. g_num_workers \in 0 .. NumWorkers
  BY DEF Inv, TypeInv, TypeOK
<1>4. g_num_workers \in Int
  BY <1>3, Numbers
<1> QED
  BY <1>2, <1>4

LEMMA InvMain == ASSUME Inv, MainRuns PROVE Table' /\ Killed' /\ Waited'
<1>0. TypeInv /\ TypeOK /\ Control /\ Table /\ Killed /\ Waited
  BY DEF Inv, TypeInv
<1>1. CASE Open
  <2>1. Live' = Live /\ Table'
    BY <1>1, MainQuiet
  <2>2. phase = "run" /\ phase' = "run" /\ main' \in {"fork", "failed"}
    BY <1>0, <1>1 DEF Open, Control
  <2>3. Live = {}
    BY <1>0, <1>1, Numbers DEF Open, Control, Table, Live, Pids
  <2> QED
    BY <2>1, <2>2, <2>3 DEF Killed, Waited
<1>2. CASE Fork
  <2>1. /\ main = "fork" /\ main' = "record" /\ phase = "run" /\ phase' = "run"
        /\ forked' = forked + 1 /\ forked < NumWorkers
        /\ worker' = [worker EXCEPT ![forked + 1] = "starting"]
        /\ UNCHANGED g_workers
    BY <1>0, <1>2 DEF Fork, Control, table
  <2>2. Killed' /\ Waited'
    BY <2>1 DEF Killed, Waited
  <2>3. forked \in 0 .. NumWorkers
    BY <1>0 DEF TypeOK
  <2>4. \A p \in Pids : p \in Int
    BY Numbers DEF Pids
  <2>5. \A p \in Pids : p # forked + 1 => worker'[p] = worker[p]
    BY <1>0, <2>1 DEF TypeOK
  <2>6. \A p \in Pids : p > forked' => worker'[p] = "none"
    BY <1>0, <2>1, <2>3, <2>4, <2>5, Numbers DEF Table
  <2>7. ASSUME NEW p \in Unreaped' PROVE p <= forked' /\ (g_workers'[p] = p \/ p = forked')
    <3>1. p \in Pids
      BY DEF Unreaped, Live, Zombies
    <3>2. CASE p = forked + 1
      BY <2>1, <2>3, <3>2, Numbers
    <3>3. CASE p # forked + 1
      <4>1. p \in Unreaped
        BY <2>5, <3>1, <3>3 DEF Unreaped, Live, Zombies
      <4>2. p <= forked /\ g_workers[p] = p
        BY <1>0, <2>1, <4>1 DEF Table
      <4> QED
        BY <2>1, <2>3, <2>4, <3>1, <4>2, Numbers
    <3> QED
      BY <3>2, <3>3
  <2>8. Table'
    BY <1>0, <2>1, <2>6, <2>7 DEF Table
  <2> QED
    BY <2>2, <2>8
<1>3. CASE Record
  <2>1. /\ main = "record" /\ main' = "fork" /\ phase = "run" /\ phase' = "run"
        /\ forked = g_num_workers + 1
        /\ g_workers' = [g_workers EXCEPT ![g_num_workers + 1] = forked]
        /\ UNCHANGED <<forked, worker>>
    BY <1>0, <1>3 DEF Record, Control
  <2>2. Killed' /\ Waited'
    BY <2>1 DEF Killed, Waited
  <2>3. Unreaped' = Unreaped
    BY <2>1 DEF Unreaped, Live, Zombies
  <2>4. \A s \in Slots : g_workers'[s] = IF s = forked THEN s ELSE g_workers[s]
    BY <1>0, <2>1 DEF TypeOK
  <2>5. Unreaped \subseteq Slots
    BY DEF Unreaped, Live, Zombies, Pids, Slots
  <2>6. Table'
    BY <1>0, <2>1, <2>3, <2>4, <2>5 DEF Table
  <2> QED
    BY <2>2, <2>6
<1>4. CASE ForkFails \/ AllForked \/ Test \/ Pause
  <2>1. Live' = Live /\ Table'
    BY <1>4, MainQuiet
  <2>2. /\ main' \in {"kill", "test", "call pause", "pause"}
        /\ phase' \in {"run", "term", "abortTerm"}
    BY <1>0, <1>4 DEF ForkFails, AllForked, Test, Pause, Control
  <2> QED
    BY <2>1, <2>2 DEF Killed, Waited
<1>5. CASE CheckSlot
  <2>1. Live' = Live /\ Table' /\ main # "record"
    BY <1>5, MainQuiet
  <2>2. /\ main = "kill" /\ main' \in {"kill", "send"}
        /\ UNCHANGED <<phase, timedOut>>
        /\ \/ index' = index
           \/ index' = index + 1 /\ ~(g_workers[index] > 0)
    BY <1>5 DEF CheckSlot, env
  <2>3. \A p \in Live : p \in Int /\ g_workers[p] = p /\ p > 0
    BY <2>1, InSlot, Numbers DEF Inv, Unreaped, Live, Pids
  <2>4. index \in 1 .. NumWorkers + 1
    BY <1>0 DEF TypeOK
  <2>5. ASSUME phase \in {"kill", "abortKill"}, NEW p \in Live
        PROVE  p >= index'
    <3>1. p >= index
      BY <1>0, <2>2, <2>5 DEF Killed
    <3>2. p = index => g_workers[index] > 0
      BY <2>3
    <3> QED
      BY <2>2, <2>3, <2>4, <3>1, <3>2, Numbers
  <2>6. Killed'
    BY <1>0, <2>1, <2>2, <2>5 DEF Killed
  <2> QED
    BY <2>1, <2>2, <2>6 DEF Waited
<1>6. CASE Send
  <2>1. PICK signum, targets :
          /\ Deliver(signum, targets)
          /\ phase \in {"kill", "abortKill"} => signum = "KILL"
          /\ g_workers[index] # 0 => targets = {g_workers[index]}
    BY <1>6 DEF Send
  <2>2. /\ main = "send" /\ main' \in {"kill", "killed"} /\ index' = index + 1
        /\ main' = "kill" => g_workers[index] # 0
        /\ UNCHANGED <<phase, forked, g_workers, timedOut>>
    BY <1>6 DEF Send, table, env
  <2>3. /\ Live' \subseteq Live /\ Unreaped' = Unreaped
        /\ \A p \in Pids : worker[p] = "none" => worker'[p] = "none"
    BY <1>0, <2>1, DeliverShrinks
  <2>4. Table'
    BY <1>0, <2>2, <2>3, TableFrame
  <2>5. index \in Slots
    <3>1. /\ index \in 1 .. NumWorkers + 1 /\ g_num_workers \in 0 .. NumWorkers
          /\ index <= g_num_workers
      BY <1>0, <2>2 DEF TypeOK, Control
    <3> QED
      BY <3>1, Numbers DEF Slots
  <2>6. ASSUME main' = "kill", phase \in {"kill", "abortKill"}, NEW p \in Live'
        PROVE  p >= index'
    <3>1. p \in Live /\ p \in Pids /\ p >= index
      BY <1>0, <2>2, <2>3, <2>6 DEF Killed, Live
    <3>2. targets = {index}
      BY <1>0, <2>1, <2>2, <2>5, <2>6 DEF Table
    <3>3. p \in targets => worker'[p] = "zombie"
      BY <2>1, <2>6, <3>1 DEF Deliver, AfterSignal, Live
    <3>4. p # index
      BY <2>6, <3>2, <3>3 DEF Live
    <3>5. p \in Int /\ index \in Int
      BY <2>5, <3>1, Numbers DEF Pids, Slots
    <3> QED
      BY <2>2, <3>1, <3>4, <3>5
  <2>7. Killed'
    BY <1>0, <2>2, <2>3, <2>6 DEF Killed
  <2> QED
    BY <2>2, <2>4, <2>7 DEF Waited
<1>7. CASE AbortNext
  <2>1. Live' = Live /\ Table' /\ main # "record"
    BY <1>7, MainQuiet
  <2>2. /\ main = "kill" /\ index > g_num_workers /\ index' = 1
        /\ \/ phase' = "abortKill" /\ main' = "kill"
           \/ phase = "abortKill" /\ phase' = phase /\ main' = "failed"
    BY <1>7 DEF AbortNext, SlotsToKill
  <2>3. \A p \in Live : p \in Int /\ p >= 1 /\ p <= g_num_workers
    BY <2>1, LiveInTable
  <2>4. index \in 1 .. NumWorkers + 1 /\ g_num_workers \in 0 .. NumWorkers
    BY <1>0 DEF TypeOK
  <2>5. phase = "abortKill" => Live = {}
    BY <1>0, <2>2, <2>3, <2>4, Numbers DEF Killed
  <2> QED
    BY <2>1, <2>2, <2>3, <2>5 DEF Killed, Waited
<1>8. CASE StartWait
  <2>1. Live' = Live /\ Unreaped' = Unreaped /\ Table' /\ main # "record"
    BY <1>8, MainQuiet
  <2>2. /\ main = "kill" /\ index > g_num_workers
        /\ remaining' = Cardinality(Occupied)
        /\ main' = IF remaining' = 0 THEN "done" ELSE "wait"
        /\ UNCHANGED <<phase, timedOut>>
    BY <1>8 DEF StartWait, SlotsToKill, StillThere, env
  <2>3. \A p \in Live : p \in Int /\ p >= 1 /\ p <= g_num_workers
    BY <2>1, LiveInTable
  <2>4. index \in 1 .. NumWorkers + 1 /\ g_num_workers \in 0 .. NumWorkers
    BY <1>0 DEF TypeOK
  <2>5. phase = "kill" => Live = {}
    BY <1>0, <2>2, <2>3, <2>4, Numbers DEF Killed
  <2>6. Unreaped \subseteq Occupied
    BY <2>1, InSlot
  <2>7. Cardinality(Unreaped) <= remaining'
    BY <1>0, <2>2, <2>6, OccupiedFinite, FS_Subset
  <2>8. remaining' = 0 => Unreaped = {}
    BY <1>0, <2>2, <2>6, OccupiedFinite, FS_EmptySet
  <2>9. Killed'
    BY <1>0, <2>1, <2>2, <2>5 DEF Killed
  <2> QED
    BY <2>1, <2>2, <2>7, <2>8, <2>9 DEF Waited
<1>9. CASE WaitReap
  <2>1. PICK p \in Zombies : Reaped({p}) /\ g_workers' = Cleared({p})
    BY <1>9 DEF WaitReap
  <2>2. /\ main = "wait" /\ remaining' = remaining - 1
        /\ UNCHANGED <<main, phase, forked, index, timedOut>>
    BY <1>9 DEF WaitReap, control, env
  <2>3. Live' = Live /\ Unreaped' = Unreaped \ {p} /\ p \in Unreaped
    BY <1>0, <2>1, ReapedShrinks DEF Unreaped
  <2>4. Table'
    BY <1>0, <2>1, <2>2, TableReaped
  <2>5. Killed'
    BY <1>0, <2>2, <2>3, KilledFrame
  <2>6. Cardinality(Unreaped') = Cardinality(Unreaped) - 1
    BY <2>3, UnreapedFinite, FS_RemoveElement
  <2>7. remaining \in 0 .. NumWorkers
    BY <1>0 DEF TypeOK
  <2>8. Cardinality(Unreaped') <= remaining'
    BY <1>0, <2>2, <2>6, <2>7, UnreapedFinite, Numbers DEF Waited
  <2> QED
    BY <2>2, <2>4, <2>5, <2>8 DEF Waited
<1>10. CASE WaitTimesOut
  <2>1. Live' = Live /\ Table'
    BY <1>10, MainQuiet
  <2>2. /\ main = "wait" /\ main' = "recount" /\ Live # {} /\ timedOut' = TRUE
        /\ UNCHANGED phase
    BY <1>10 DEF WaitTimesOut
  <2>3. phase # "kill"
    BY <1>0, <2>2 DEF Killed
  <2> QED
    BY <2>1, <2>2, <2>3 DEF Killed, Waited
<1>11. CASE WaitOver
  <2>1. Live' = Live /\ Unreaped' = Unreaped /\ Table'
    BY <1>11, MainQuiet
  <2>2. /\ main = "wait" /\ main' = "recount"
        /\ remaining = 0 \/ Unreaped = {}
        /\ UNCHANGED <<phase, timedOut>>
    BY <1>11 DEF WaitOver, env
  <2>3. remaining = 0 => Cardinality(Unreaped) = 0
    BY <1>0, <2>2, UnreapedFinite DEF Waited
  <2>4. Unreaped = {}
    BY <2>2, <2>3, UnreapedFinite, FS_EmptySet
  <2>5. Killed'
    BY <1>0, <2>1, <2>2 DEF Killed
  <2> QED
    BY <2>1, <2>2, <2>4, <2>5 DEF Waited
<1>12. CASE Recount
  <2>1. Live' = Live /\ Unreaped' = Unreaped /\ Table' /\ main # "record"
    BY <1>12, MainQuiet
  <2>2. main = "recount" /\ phase \in {"term", "kill"} /\ UNCHANGED timedOut
    BY <1>0, <1>12 DEF Recount, Control, env
  <2>3. CASE phase = "term" /\ Occupied # {}
    <3>1. main' = "kill" /\ phase' = "kill" /\ index' = 1
      BY <1>12, <2>3 DEF Recount
    <3>2. \A p \in Live : p \in Int /\ p >= 1
      BY Numbers DEF Live, Pids
    <3>3. ~timedOut => Live = {}
      BY <1>0, <2>2 DEF Waited, Unreaped
    <3> QED
      BY <2>1, <2>2, <3>1, <3>2, <3>3 DEF Killed, Waited
  <2>4. CASE ~(phase = "term" /\ Occupied # {})
    <3>1. main' = "done" /\ UNCHANGED phase
      BY <1>12, <2>4 DEF Recount
    <3>2. Occupied = {} => Unreaped = {}
      BY <2>1, InSlot
    <3>3. Unreaped = {}
      BY <1>0, <2>2, <2>4, <3>2 DEF Waited
    <3> QED
      BY <2>1, <2>2, <3>1, <3>3 DEF Killed, Waited, Unreaped
  <2> QED
    BY <2>3, <2>4
<1> QED
  BY <1>1, <1>2, <1>3, <1>4, <1>5, <1>6, <1>7, <1>8, <1>9, <1>10, <1>11, <1>12
     DEF MainRuns

LEMMA InvStep == Inv /\ [Next]_vars => Inv'
<1> SUFFICES ASSUME Inv, [Next]_vars PROVE Inv'
  OBVIOUS
<1>1. TypeInv'
  BY TypeStep DEF Inv
<1>2. CASE MainRuns
  BY <1>1, <1>2, InvMain DEF Inv
<1>3. CASE Interrupt \/ Sigchld \/ \E p \in Pids : WorkerRuns(p)
  BY <1>1, <1>3, InvOthers DEF Inv
<1>4. CASE UNCHANGED vars
  <2>1. Live' = Live /\ Unreaped' = Unreaped
    BY <1>4 DEF vars, Live, Zombies, Unreaped
  <2>2. Table' /\ Killed' /\ Waited'
    BY <1>4, <2>1 DEF vars, control, table, env, Inv, Table, Killed, Waited
  <2> QED
    BY <1>1, <2>2 DEF Inv
<1> QED
  BY <1>2, <1>3, <1>4 DEF Next, Rest

(* The master never loses a child it has not reaped, whenever the handler  *)
(* of SIGCHLD runs.                                                        *)
THEOREM ChildrenRecorded == Spec => []UnreapedIsRecorded
<1>1. ASSUME Inv PROVE UnreapedIsRecorded
  <2> SUFFICES ASSUME NEW p \in Unreaped
               PROVE  \/ \E s \in 1 .. g_num_workers : g_workers[s] = p
                      \/ main = "record" /\ p = forked
    BY DEF UnreapedIsRecorded
  <2>1. CASE main # "record"
    BY <1>1, <2>1, InSlot
  <2>2. CASE main = "record" /\ p # forked
    <3>1. /\ p \in Pids /\ p <= forked /\ g_workers[p] = p
          /\ forked = g_num_workers + 1 /\ g_num_workers \in 0 .. NumWorkers
      BY <1>1, <2>2 DEF Inv, TypeInv, TypeOK, Control, Table, Unreaped, Live,
                        Zombies
    <3>2. p \in 1 .. g_num_workers
      BY <2>2, <3>1, Numbers DEF Pids
    <3> QED
      BY <3>1, <3>2
  <2> QED
    BY <2>1, <2>2
<1> QED
  BY <1>1, InvInit, InvStep, PTL DEF Spec

(* No worker outlives master_worker_run, and after a clean shutdown every  *)
(* one is reaped.                                                          *)
THEOREM NoneSurvives == Spec => []NoWorkerSurvives
<1>1. Inv => NoWorkerSurvives
  BY DEF Inv, Killed, Waited, NoWorkerSurvives
<1> QED
  BY <1>1, InvInit, InvStep, PTL DEF Spec

(* No worker is killed before worker_shutdown_timeout_ms has passed.       *)
THEOREM GraceIsGiven == Spec => []NobodyKilledEarly
<1>1. Inv => NobodyKilledEarly
  BY DEF Inv, Killed, NobodyKilledEarly
<1> QED
  BY <1>1, InvInit, InvStep, PTL DEF Spec

-----------------------------------------------------------------------------
(* The session table.                                                      *)

LEMMA TableSizes ==
  /\ MaxSessions \in Nat /\ MaxSessions > 0 /\ HashSize \in Nat /\ HashSize > 0
  /\ TTL \in Nat /\ MaxTime \in Nat
  /\ SessionSlots = 0 .. MaxSessions - 1 /\ Buckets = 0 .. HashSize - 1
  /\ Empty \notin SessionSlots /\ 0 \in SessionSlots /\ 0 \in Buckets
BY SizeAssumption DEF SessionSlots, Buckets, Empty

(* Every set of natural numbers has a smallest member.                     *)
LEMMA SmallestIs ==
  ASSUME NEW S \in SUBSET Nat, S # {}
  PROVE  \E x \in S : \A y \in S : x <= y
<1> DEFINE Below == {0 .. x : x \in S}
<1>1. Below \subseteq FiniteSubsetsOf(Nat) /\ Below # {}
  <2>1. ASSUME NEW x \in S
        PROVE  0 .. x \in FiniteSubsetsOf(Nat)
    <3>1. IsFiniteSet(0 .. x)
      BY FS_Interval, 0 \in Int, x \in Int
    <3>2. 0 .. x \subseteq Nat
      OBVIOUS
    <3> QED
      BY <3>1, <3>2 DEF FiniteSubsetsOf
  <2> QED
    BY <2>1
<1>2. PICK B \in Below :
        \A C \in Below : ~ (<<C, B>> \in StrictSubsetOrdering(Nat))
  BY <1>1, FS_StrictSubsetOrderingWellFounded, WFMin
<1>3. PICK x \in S : B = 0 .. x
  BY <1>2
<1>4. ASSUME NEW y \in S, y < x
      PROVE  FALSE
  <2>1. 0 .. y \in Below /\ 0 .. y \subseteq Nat /\ 0 .. x \subseteq Nat
    OBVIOUS
  <2>2. 0 .. y \subseteq 0 .. x /\ x \in 0 .. x /\ x \notin 0 .. y
    BY <1>4
  <2>3. <<0 .. y, 0 .. x>> \in StrictSubsetOrdering(Nat)
    BY <2>1, <2>2 DEF StrictSubsetOrdering
  <2> QED
    BY <1>2, <1>3, <2>1, <2>3
<1>5. \A y \in S : x <= y
  BY <1>4
<1> QED
  BY <1>5

LEMMA MinOfNaturals ==
  ASSUME NEW S \in SUBSET Nat, S # {}
  PROVE  Min(S) \in S /\ \A y \in S : Min(S) <= y
BY SmallestIs DEF Min

LEMMA MinOfInterval ==
  ASSUME NEW n \in Nat, NEW S \in SUBSET (0 .. n - 1), S # {}
  PROVE  Min(S) \in S /\ \A y \in S : Min(S) <= y
<1>1. S \in SUBSET Nat
  OBVIOUS
<1> QED
  BY <1>1, MinOfNaturals

-----------------------------------------------------------------------------
(* Probing.                                                                *)

LEMMA HomeIsFirst ==
  ASSUME NEW i, hash_id[i] \in Buckets
  PROVE  Bucket(i, 0) = hash_id[i]
BY TableSizes DEF Bucket

(* Where the probe of i ends, and that it has met nothing before.          *)
LEMMA ProbeEnds ==
  ASSUME NEW i, ~ProbeLoops(i)
  PROVE  \E k \in Buckets :
           /\ ProbeEnd(i) = Bucket(i, k)
           /\ g_hash[Bucket(i, k)] = Empty \/ Holds(i, Bucket(i, k))
           /\ \A m \in Buckets :
                m < k => /\ g_hash[Bucket(i, m)] # Empty
                         /\ ~Holds(i, Bucket(i, m))
<1> DEFINE S == {k \in Buckets :
                   g_hash[Bucket(i, k)] = Empty \/ Holds(i, Bucket(i, k))}
<1>1. S # {} /\ ProbeEnd(i) = Bucket(i, Min(S))
  BY DEF ProbeLoops, ProbeEnd, StopsAt, Stops
<1>2. S \in SUBSET (0 .. HashSize - 1)
  BY TableSizes
<1>3. Min(S) \in S /\ \A y \in S : Min(S) <= y
  BY <1>1, <1>2, TableSizes, MinOfInterval
<1>4. ASSUME NEW m \in Buckets, m < Min(S) PROVE m \notin S
  <2>1. m \in Int /\ Min(S) \in Int
    BY <1>2, <1>3, TableSizes
  <2> QED
    BY <1>3, <1>4, <2>1
<1> QED
  BY <1>1, <1>3, <1>4

LEMMA ProbeStops ==
  ASSUME NEW i, NEW k \in Buckets,
         g_hash[Bucket(i, k)] = Empty \/ Holds(i, Bucket(i, k))
  PROVE  ~ProbeLoops(i)
BY DEF ProbeLoops, Stops

(* The same for the insertion of i into index g.                           *)
LEMMA EntryIsFirst ==
  ASSUME NEW g, NEW i, Stops(g, i, LAMBDA b : FALSE) # {}
  PROVE  \E k \in Buckets :
           /\ EntryFor(g, i) = Bucket(i, k)
           /\ g[Bucket(i, k)] = Empty
           /\ \A m \in Buckets : m < k => g[Bucket(i, m)] # Empty
<1> DEFINE S == {k \in Buckets : g[Bucket(i, k)] = Empty}
<1>1. S # {} /\ EntryFor(g, i) = Bucket(i, Min(S))
  BY DEF EntryFor, StopsAt, Stops
<1>2. S \in SUBSET (0 .. HashSize - 1)
  BY TableSizes
<1>3. Min(S) \in S /\ \A y \in S : Min(S) <= y
  BY <1>1, <1>2, TableSizes, MinOfInterval
<1>4. ASSUME NEW m \in Buckets, m < Min(S) PROVE m \notin S
  <2>1. m \in Int /\ Min(S) \in Int
    BY <1>2, <1>3, TableSizes
  <2> QED
    BY <1>3, <1>4, <2>1
<1> QED
  BY <1>1, <1>3, <1>4

(* And for the removal of the entry of slot s.                             *)
LEMMA CleanedAt ==
  ASSUME NEW g, NEW s, ~CleanLoops(g, s)
  PROVE  \E k \in Buckets :
           /\ CleanEntry(g, s) = [g EXCEPT ![Bucket(session_id[s], k)] = Empty]
           /\ \/ g[Bucket(session_id[s], k)] = Empty
              \/ g[Bucket(session_id[s], k)] = s
           /\ \A m \in Buckets :
                m < k => /\ g[Bucket(session_id[s], m)] # Empty
                         /\ g[Bucket(session_id[s], m)] # s
<1> DEFINE i == session_id[s]
           S == {k \in Buckets : g[Bucket(i, k)] = Empty \/ g[Bucket(i, k)] = s}
<1>1. S # {} /\ CleanEntry(g, s) = [g EXCEPT ![Bucket(i, Min(S))] = Empty]
  BY DEF CleanLoops, CleanEntry, StopsAt, Stops
<1>2. S \in SUBSET (0 .. HashSize - 1)
  BY TableSizes
<1>3. Min(S) \in S /\ \A y \in S : Min(S) <= y
  BY <1>1, <1>2, TableSizes, MinOfInterval
<1>4. ASSUME NEW m \in Buckets, m < Min(S) PROVE m \notin S
  <2>1. m \in Int /\ Min(S) \in Int
    BY <1>2, <1>3, TableSizes
  <2> QED
    BY <1>3, <1>4, <2>1
<1> QED
  BY <1>1, <1>3, <1>4

(* A function on 0 .. N is defined by its first value and a step.          *)
Steps(N, V) == [1 .. N -> [V -> V]]
Follows(f, N, V, v, T) ==
  /\ f \in [0 .. N -> V] /\ f[0] = v
  /\ \A n \in 1 .. N : f[n] = T[n][f[n - 1]]

LEMMA StepsDefine ==
  ASSUME NEW N \in Nat, NEW V, NEW v \in V, NEW T \in Steps(N, V)
  PROVE  \E f : Follows(f, N, V, v, T)
<1> DEFINE Up(n, f) == Follows(f, n, V, v, T)
           Bad == {n \in 0 .. N : ~ \E f : Up(n, f)}
<1>1. ASSUME Bad # {} PROVE FALSE
  <2>1. Bad \in SUBSET Nat
    OBVIOUS
  <2>2. PICK n \in Bad : \A y \in Bad : n <= y
    BY <1>1, <2>1, SmallestIs
  <2>3. CASE n = 0
    <3>1. Up(0, [k \in 0 .. 0 |-> v])
      BY DEF Follows
    <3> QED
      BY <2>2, <2>3, <3>1
  <2>4. CASE n # 0
    <3>1. n - 1 \in 0 .. N /\ n \in 1 .. N /\ ~(n <= n - 1)
      BY <2>2, <2>4
    <3>2. PICK f : Up(n - 1, f)
      BY <2>2, <3>1
    <3> DEFINE g == [k \in 0 .. n |-> IF k = n THEN T[n][f[n - 1]] ELSE f[k]]
    <3>3. f \in [0 .. n - 1 -> V] /\ f[0] = v
          /\ \A k \in 1 .. n - 1 : f[k] = T[k][f[k - 1]]
      BY <3>2 DEF Follows
    <3>4. f[n - 1] \in V
      BY <3>1, <3>3
    <3>5. T[n][f[n - 1]] \in V
      BY <3>1, <3>4 DEF Steps
    <3>6. g \in [0 .. n -> V] /\ g[0] = v
      BY <3>1, <3>3, <3>5
    <3>7. ASSUME NEW k \in 1 .. n PROVE g[k] = T[k][g[k - 1]]
      <4>1. k - 1 \in 0 .. n - 1 /\ k - 1 # n /\ k \in 0 .. n
        BY <3>1
      <4>2. g[k - 1] = f[k - 1]
        BY <4>1, <3>1
      <4>3. CASE k = n
        BY <4>1, <4>2, <4>3
      <4>4. CASE k # n
        <5>1. k \in 1 .. n - 1
          BY <3>1, <4>4
        <5> QED
          BY <3>3, <4>1, <4>2, <4>4, <5>1
      <4> QED
        BY <4>3, <4>4
    <3> HIDE DEF g
    <3>8. Up(n, g)
      BY <3>6, <3>7 DEF Follows
    <3> QED
      BY <2>2, <3>8
  <2> QED
    BY <2>3, <2>4
<1>2. N \in 0 .. N
  OBVIOUS
<1>3. PICK f : Up(N, f)
  BY <1>1, <1>2
<1> QED
  BY <1>3

-----------------------------------------------------------------------------
(* Cleaning up.                                                            *)

TableIndexes == [Buckets -> SessionSlots \cup {Empty}]

(* What the removal of the entry of slot s, if it expired, makes of r.     *)
CleanSlot(r, s) ==
  IF r.loops \/ ~Expired(s) THEN r
  ELSE IF CleanLoops(r.index, s) THEN [r EXCEPT !.loops = TRUE]
  ELSE [r EXCEPT !.index = CleanEntry(r.index, s)]

LEMMA CleanedByStep ==
  ASSUME g_hash \in TableIndexes
  PROVE  \E after \in [0 .. MaxSessions ->
                         [index : TableIndexes, loops : BOOLEAN]] :
           /\ after[0] = [index |-> g_hash, loops |-> FALSE]
           /\ \A n \in 1 .. MaxSessions :
                after[n] = CleanSlot(after[n - 1], n - 1)
           /\ Cleaned = after[MaxSessions]
<1> DEFINE V == [index : TableIndexes, loops : BOOLEAN]
           first == [index |-> g_hash, loops |-> FALSE]
           T == [n \in 1 .. MaxSessions |-> [r \in V |-> CleanSlot(r, n - 1)]]
           Builds(f) ==
             f = [n \in 0 .. MaxSessions |->
                    IF n = 0 THEN [index |-> g_hash, loops |-> FALSE]
                    ELSE LET r == f[n - 1]
                             s == n - 1
                         IN  IF r.loops \/ ~Expired(s) THEN r
                             ELSE IF CleanLoops(r.index, s)
                                  THEN [r EXCEPT !.loops = TRUE]
                                  ELSE [r EXCEPT
                                          !.index = CleanEntry(r.index, s)]]
<1>1. MaxSessions \in Nat /\ first \in V
  BY TableSizes
<1>2. T \in Steps(MaxSessions, V)
  <2>1. ASSUME NEW r \in V, NEW s PROVE CleanSlot(r, s) \in V
    <3>1. CleanEntry(r.index, s) \in TableIndexes
      BY DEF CleanEntry, TableIndexes
    <3> QED
      BY <3>1 DEF CleanSlot
  <2> HIDE DEF V
  <2> QED
    BY <2>1 DEF Steps
<1> HIDE DEF T, V
<1>3. PICK h : Follows(h, MaxSessions, V, first, T)
  BY <1>1, <1>2, StepsDefine
<1>4. /\ h \in [0 .. MaxSessions -> V] /\ h[0] = first
      /\ \A n \in 1 .. MaxSessions : h[n] = T[n][h[n - 1]]
  BY <1>3 DEF Follows
<1>5. ASSUME NEW n \in 1 .. MaxSessions
      PROVE  h[n] = CleanSlot(h[n - 1], n - 1)
  <2>1. n - 1 \in 0 .. MaxSessions
    BY <1>1
  <2>2. h[n - 1] \in V
    BY <1>4, <2>1
  <2> QED
    BY <1>4, <2>2 DEF T
<1>6. \A n \in 0 .. MaxSessions : n = 0 \/ n \in 1 .. MaxSessions
  BY <1>1
<1>7. Builds(h)
  BY <1>4, <1>5, <1>6 DEF CleanSlot
<1> DEFINE after == CHOOSE f : Builds(f)
<1>8. Builds(after)
  BY <1>7
<1>9. Cleaned = after[MaxSessions]
  BY DEF Cleaned
<1> HIDE DEF after
<1>10. /\ after[0] = first
       /\ \A n \in 1 .. MaxSessions : after[n] = CleanSlot(after[n - 1], n - 1)
       /\ after = [n \in 0 .. MaxSessions |-> after[n]]
  <2>1. after[0] = first
    BY <1>1, <1>8
  <2>2. ASSUME NEW n \in 1 .. MaxSessions
        PROVE  after[n] = CleanSlot(after[n - 1], n - 1)
    <3>1. n \in 0 .. MaxSessions /\ n # 0
      BY <1>1
    <3> QED
      BY <1>8, <3>1 DEF CleanSlot
  <2>3. after = [n \in 0 .. MaxSessions |-> after[n]]
    BY <1>8
  <2> QED
    BY <2>1, <2>2, <2>3
<1> HIDE DEF Builds, first
<1>11. ASSUME NEW n \in 0 .. MaxSessions PROVE after[n] \in V
  <2> DEFINE Bad == {m \in 0 .. MaxSessions : after[m] \notin V}
  <2>1. ASSUME Bad # {} PROVE FALSE
    <3>1. Bad \in SUBSET Nat
      OBVIOUS
    <3>2. PICK m \in Bad : \A y \in Bad : m <= y
      BY <2>1, <3>1, SmallestIs
    <3>3. m \in 1 .. MaxSessions
      BY <1>1, <1>6, <1>10, <3>2
    <3>4. m - 1 \in 0 .. MaxSessions /\ ~(m <= m - 1)
      BY <1>1, <3>3
    <3>5. after[m - 1] \in V
      BY <3>2, <3>4
    <3>6. T[m][after[m - 1]] \in V
      BY <1>2, <3>3, <3>5 DEF Steps
    <3>7. after[m] = T[m][after[m - 1]]
      BY <1>10, <3>3, <3>5 DEF T
    <3> QED
      BY <3>2, <3>6, <3>7
  <2> QED
    BY <2>1
<1>12. after \in [0 .. MaxSessions -> V]
  BY <1>10, <1>11
<1> QED
  BY <1>9, <1>10, <1>12 DEF V, first

(* The clean-up removes entries of expired sessions only.                  *)
LEMMA CleanedIs ==
  ASSUME g_hash \in TableIndexes
  PROVE  /\ Cleaned.index \in TableIndexes /\ Cleaned.loops \in BOOLEAN
         /\ \A b \in Buckets :
              \/ Cleaned.index[b] = g_hash[b]
              \/ /\ Cleaned.index[b] = Empty
                 /\ g_hash[b] \in SessionSlots /\ Expired(g_hash[b])
<1>1. PICK after \in [0 .. MaxSessions ->
                        [index : TableIndexes, loops : BOOLEAN]] :
        /\ after[0] = [index |-> g_hash, loops |-> FALSE]
        /\ \A n \in 1 .. MaxSessions : after[n] = CleanSlot(after[n - 1], n - 1)
        /\ Cleaned = after[MaxSessions]
  BY CleanedByStep
<1> DEFINE OnlyExpired(g) ==
             \A b \in Buckets :
               \/ g[b] = g_hash[b]
               \/ /\ g[b] = Empty
                  /\ g_hash[b] \in SessionSlots /\ Expired(g_hash[b])
           Bad == {n \in 0 .. MaxSessions : ~OnlyExpired(after[n].index)}
<1>2. MaxSessions \in Nat
  BY TableSizes
<1>3. ASSUME Bad # {} PROVE FALSE
  <2>1. Bad \in SUBSET Nat
    OBVIOUS
  <2>2. PICK n \in Bad : \A y \in Bad : n <= y
    BY <1>3, <2>1, SmallestIs
  <2>3. OnlyExpired(after[0].index)
    BY <1>1
  <2>4. n \in 1 .. MaxSessions /\ n - 1 \in 0 .. MaxSessions /\ ~(n <= n - 1)
        /\ n - 1 \in SessionSlots
    BY <1>2, <2>2, <2>3, TableSizes
  <2>5. OnlyExpired(after[n - 1].index)
    BY <2>2, <2>4
  <2> DEFINE r == after[n - 1]
             s == n - 1
  <2>6. /\ r \in [index : TableIndexes, loops : BOOLEAN]
        /\ after[n] = CleanSlot(r, s)
    BY <1>1, <2>4
  <2>7. r.index \in TableIndexes
    BY <2>6
  <2> HIDE DEF r
  <2>8. CASE r.loops \/ ~Expired(s)
    <3>1. after[n].index = r.index
      BY <2>6, <2>8 DEF CleanSlot
    <3> QED
      BY <2>2, <2>5, <3>1 DEF r
  <2>9. CASE ~(r.loops \/ ~Expired(s)) /\ CleanLoops(r.index, s)
    <3>1. after[n].index = r.index
      BY <2>6, <2>9 DEF CleanSlot
    <3> QED
      BY <2>2, <2>5, <3>1 DEF r
  <2>10. CASE ~(r.loops \/ ~Expired(s)) /\ ~CleanLoops(r.index, s)
    <3>1. after[n].index = CleanEntry(r.index, s) /\ Expired(s)
      BY <2>6, <2>10 DEF CleanSlot
    <3>2. PICK k \in Buckets :
            /\ CleanEntry(r.index, s)
                 = [r.index EXCEPT ![Bucket(session_id[s], k)] = Empty]
            /\ \/ r.index[Bucket(session_id[s], k)] = Empty
               \/ r.index[Bucket(session_id[s], k)] = s
      BY <2>10, CleanedAt
    <3> DEFINE at == Bucket(session_id[s], k)
    <3> HIDE DEF at
    <3>3. /\ after[n].index = [r.index EXCEPT ![at] = Empty]
          /\ r.index[at] = Empty \/ r.index[at] = s
      BY <3>1, <3>2 DEF at
    <3>4. ASSUME NEW b \in Buckets
          PROVE  \/ after[n].index[b] = g_hash[b]
                 \/ /\ after[n].index[b] = Empty
                    /\ g_hash[b] \in SessionSlots /\ Expired(g_hash[b])
      <4>1. CASE b # at
        <5>1. after[n].index[b] = r.index[b]
          BY <2>7, <3>3, <4>1 DEF TableIndexes
        <5> QED
          BY <2>5, <5>1 DEF r
      <4>2. CASE b = at
        <5>1. after[n].index[b] = Empty /\ (r.index[b] = Empty \/ r.index[b] = s)
          BY <2>7, <3>3, <4>2 DEF TableIndexes
        <5>2. s \in SessionSlots /\ Expired(s)
          BY <2>4, <3>1
        <5>3. \/ r.index[b] = g_hash[b]
              \/ g_hash[b] \in SessionSlots /\ Expired(g_hash[b])
          BY <2>5 DEF r
        <5> QED
          BY <5>1, <5>2, <5>3
      <4> QED
        BY <4>1, <4>2
    <3> QED
      BY <2>2, <3>4
  <2> QED
    BY <2>8, <2>9, <2>10
<1>4. MaxSessions \in 0 .. MaxSessions
  BY <1>2
<1>5. OnlyExpired(Cleaned.index)
  BY <1>1, <1>3, <1>4
<1> QED
  BY <1>1, <1>4, <1>5

-----------------------------------------------------------------------------
(* The steps.                                                              *)

Still == [s \in SessionSlots |-> used[s] /\ ~Expired(s)]

LEMMA BucketInRange ==
  ASSUME NEW i, hash_id[i] \in Buckets, NEW k \in Buckets
  PROVE  Bucket(i, k) \in Buckets
BY TableSizes DEF Bucket

LEMMA CreateDoes ==
  ASSUME NEW i \in Ids, Create(i)
  PROVE  /\ ~looping /\ i \notin issued
         /\ UNCHANGED <<now, hash_id, logged_out>>
         /\ \/ /\ Cleaned.loops /\ looping' = TRUE
               /\ UNCHANGED <<used, session_id, expires_at, g_hash, issued>>
            \/ /\ ~Cleaned.loops
               /\ used' = Still /\ g_hash' = Cleaned.index
               /\ UNCHANGED <<session_id, expires_at, looping, issued>>
            \/ /\ ~Cleaned.loops
               /\ \E slot \in SessionSlots :
                    /\ ~Still[slot]
                    /\ used' = [Still EXCEPT ![slot] = TRUE]
                    /\ session_id' = [session_id EXCEPT ![slot] = i]
                    /\ expires_at' = [expires_at EXCEPT ![slot] = now + TTL]
                    /\ \/ /\ Stops(Cleaned.index, i, LAMBDA b : FALSE) = {}
                          /\ looping' = TRUE /\ g_hash' = Cleaned.index
                          /\ UNCHANGED issued
                       \/ /\ Stops(Cleaned.index, i, LAMBDA b : FALSE) # {}
                          /\ g_hash' = [Cleaned.index EXCEPT
                                          ![EntryFor(Cleaned.index, i)] = slot]
                          /\ issued' = issued \cup {i}
                          /\ UNCHANGED looping
<1> DEFINE g == Cleaned.index
           free == {s \in SessionSlots : ~Still[s]}
           slot == Min(free)
<1>1. /\ ~looping /\ i \notin issued
      /\ UNCHANGED <<now, hash_id, logged_out>>
  BY DEF Create
<1>2. CASE Cleaned.loops
  BY <1>1, <1>2 DEF Create, Hang, sessions
<1>3. CASE ~Cleaned.loops /\ free = {}
  BY <1>1, <1>3 DEF Create, Still
<1>4. CASE ~Cleaned.loops /\ free # {}
  <2>1. slot \in SessionSlots /\ ~Still[slot]
    <3>1. free \in SUBSET (0 .. MaxSessions - 1)
      BY TableSizes
    <3>2. slot \in free
      BY <1>4, <3>1, TableSizes, MinOfInterval
    <3> QED
      BY <3>2
  <2>2. /\ used' = [Still EXCEPT ![slot] = TRUE]
        /\ session_id' = [session_id EXCEPT ![slot] = i]
        /\ expires_at' = [expires_at EXCEPT ![slot] = now + TTL]
        /\ IF Stops(g, i, LAMBDA b : FALSE) = {}
           THEN looping' = TRUE /\ g_hash' = g /\ UNCHANGED issued
           ELSE /\ g_hash' = [g EXCEPT ![EntryFor(g, i)] = slot]
                /\ issued' = issued \cup {i}
                /\ UNCHANGED looping
    BY <1>4 DEF Create, Still, Expiry
  <2> HIDE DEF slot
  <2> QED
    BY <1>1, <1>4, <2>1, <2>2
<1> QED
  BY <1>2, <1>3, <1>4

(* The removal of the session that a probe has found.                      *)
Removes(s, b) ==
  /\ g_hash[b] = s
  /\ used' = [used EXCEPT ![s] = FALSE]
  /\ g_hash' = [g_hash EXCEPT ![b] = Empty]

LEMMA ReachesSlot ==
  ASSUME TableTypeOK, NEW i \in Ids, Reaches(i)
  PROVE  /\ ProbeEnd(i) \in Buckets
         /\ g_hash[ProbeEnd(i)] \in SessionSlots
         /\ used[g_hash[ProbeEnd(i)]]
         /\ session_id[g_hash[ProbeEnd(i)]] = i
<1>1. PICK k \in Buckets : ProbeEnd(i) = Bucket(i, k)
  BY ProbeEnds DEF Reaches
<1>2. hash_id[i] \in Buckets
  BY DEF TableTypeOK
<1>3. ProbeEnd(i) \in Buckets
  BY <1>1, <1>2, BucketInRange
<1> QED
  BY <1>3 DEF Reaches, Holds, IsLive, TableTypeOK

LEMMA ReleaseDoes ==
  ASSUME TableTypeOK, NEW i \in Ids, Reaches(i), Release(i)
  PROVE  Removes(g_hash[ProbeEnd(i)], ProbeEnd(i))
BY DEF Release, Removes

(* What a step does, once it is known which entry a probe led to.          *)
LEMMA LookupDoes ==
  ASSUME TableTypeOK, NEW i \in Ids, Lookup(i)
  PROVE  /\ ~looping
         /\ UNCHANGED <<session_id, expires_at, now, hash_id, issued,
                        logged_out>>
         /\ \/ ProbeLoops(i) /\ looping' = TRUE /\ UNCHANGED <<used, g_hash>>
            \/ /\ ~ProbeLoops(i) /\ UNCHANGED looping
               /\ \/ Reaches(i) /\ ~Found(i)
                     /\ Removes(g_hash[ProbeEnd(i)], ProbeEnd(i))
                  \/ ~(Reaches(i) /\ ~Found(i)) /\ UNCHANGED <<used, g_hash>>
BY ReleaseDoes DEF Lookup, Hang, sessions

LEMMA DestroyDoes ==
  ASSUME TableTypeOK, NEW i \in Ids, Destroy(i)
  PROVE  /\ ~looping
         /\ UNCHANGED <<session_id, expires_at, now, hash_id, issued>>
         /\ logged_out' \in {logged_out, logged_out \cup {i}}
         /\ \/ ProbeLoops(i) /\ looping' = TRUE /\ UNCHANGED <<used, g_hash>>
            \/ /\ ~ProbeLoops(i) /\ UNCHANGED looping
               /\ \/ Reaches(i) /\ Removes(g_hash[ProbeEnd(i)], ProbeEnd(i))
                  \/ ~Reaches(i) /\ UNCHANGED <<used, g_hash>>
BY ReleaseDoes DEF Destroy, Hang, sessions

-----------------------------------------------------------------------------
(* Types, and the sessions in use.                                         *)

(* A slot in use has an id that session_create returned.                   *)
UsedAreIssued ==
  ~looping => \A s \in SessionSlots : used[s] => session_id[s] \in issued

TableInv == TableTypeOK /\ UsedAreIssued /\ LiveIsIndexed

LEMMA TableInvInit == TableInit => TableInv
<1> SUFFICES ASSUME TableInit PROVE TableInv
  OBVIOUS
<1>1. hash_id \in [Ids -> Buckets]
  BY SizeAssumption DEF TableInit, Buckets
<1>2. g_hash \in [Buckets -> SessionSlots \cup {Empty}]
  BY TableSizes DEF TableInit
<1>3. TTL \in Nat /\ MaxTime \in Nat /\ 0 \in 0 .. MaxTime + TTL
      /\ 0 \in 0 .. MaxTime
  BY TableSizes
<1>4. TableTypeOK
  BY <1>1, <1>2, <1>3 DEF TableInit, TableTypeOK
<1> QED
  BY <1>4 DEF TableInit, TableInv, UsedAreIssued, LiveIsIndexed

LEMMA CreateKeepsInv ==
  ASSUME TableInv, NEW i \in Ids, Create(i)
  PROVE  TableInv'
<1> DEFINE g == Cleaned.index
<1>1. TableTypeOK /\ g_hash \in TableIndexes
  BY DEF TableInv, TableTypeOK, TableIndexes
<1>2. /\ g \in TableIndexes
      /\ \A b \in Buckets :
           \/ g[b] = g_hash[b]
           \/ /\ g[b] = Empty
              /\ g_hash[b] \in SessionSlots /\ Expired(g_hash[b])
  BY <1>1, CleanedIs
<1>3. ASSUME NEW s \in SessionSlots, Still[s]
      PROVE  used[s] /\ \E b \in Buckets : g[b] = s
  <2>1. used[s] /\ ~Expired(s)
    BY <1>3 DEF Still
  <2>2. PICK b \in Buckets : g_hash[b] = s
    BY <2>1, CreateDoes DEF TableInv, LiveIsIndexed
  <2>3. g[b] = s
    BY <1>2, <2>1, <2>2
  <2> QED
    BY <2>1, <2>3
<1>4. Still \in [SessionSlots -> BOOLEAN]
  BY <1>1 DEF Still, Expired, TableTypeOK
<1>5. now + TTL \in 0 .. MaxTime + TTL
  BY <1>1, TableSizes DEF TableTypeOK
<1> HIDE DEF g
<1>6. /\ ~looping /\ i \notin issued
      /\ UNCHANGED <<now, hash_id, logged_out>>
  BY CreateDoes
<1>7. \A s \in SessionSlots : used[s] => session_id[s] \in issued
  BY <1>6 DEF TableInv, UsedAreIssued
<1>8. CASE /\ looping' = TRUE
           /\ UNCHANGED <<used, session_id, expires_at, g_hash, issued>>
  BY <1>1, <1>6, <1>8
     DEF TableInv, TableTypeOK, UsedAreIssued, LiveIsIndexed
<1>9. CASE /\ used' = Still /\ g_hash' = g
           /\ UNCHANGED <<session_id, expires_at, looping, issued>>
  <2>1. TableTypeOK'
    BY <1>1, <1>2, <1>4, <1>6, <1>9 DEF TableTypeOK, TableIndexes
  <2>2. UsedAreIssued'
    BY <1>3, <1>7, <1>9 DEF UsedAreIssued
  <2>3. LiveIsIndexed'
    BY <1>3, <1>9 DEF LiveIsIndexed
  <2> QED
    BY <2>1, <2>2, <2>3 DEF TableInv
<1>10. ASSUME NEW slot \in SessionSlots,
              ~Still[slot],
              used' = [Still EXCEPT ![slot] = TRUE],
              session_id' = [session_id EXCEPT ![slot] = i],
              expires_at' = [expires_at EXCEPT ![slot] = now + TTL],
              looping' = TRUE, g_hash' = g, UNCHANGED issued
       PROVE  TableInv'
  <2>1. TableTypeOK'
    <3>1. used' \in [SessionSlots -> BOOLEAN]
      BY <1>4, <1>10
    <3>2. session_id' \in [SessionSlots -> Ids \cup {None}]
      BY <1>1, <1>10 DEF TableTypeOK
    <3>3. expires_at' \in [SessionSlots -> 0 .. MaxTime + TTL]
      BY <1>1, <1>5, <1>10 DEF TableTypeOK
    <3> QED
      BY <1>1, <1>2, <1>6, <1>10, <3>1, <3>2, <3>3
         DEF TableTypeOK, TableIndexes
  <2> QED
    BY <1>10, <2>1 DEF TableInv, UsedAreIssued, LiveIsIndexed
<1>11. ASSUME NEW slot \in SessionSlots,
              ~Still[slot],
              used' = [Still EXCEPT ![slot] = TRUE],
              session_id' = [session_id EXCEPT ![slot] = i],
              expires_at' = [expires_at EXCEPT ![slot] = now + TTL],
              Stops(g, i, LAMBDA b : FALSE) # {},
              g_hash' = [g EXCEPT ![EntryFor(g, i)] = slot],
              issued' = issued \cup {i}, UNCHANGED looping
       PROVE  TableInv'
  <2>1. PICK k \in Buckets :
          EntryFor(g, i) = Bucket(i, k) /\ g[Bucket(i, k)] = Empty
    BY <1>11, EntryIsFirst
  <2> DEFINE at == Bucket(i, k)
  <2>2. at \in Buckets /\ g[at] = Empty /\ g_hash' = [g EXCEPT ![at] = slot]
    BY <1>1, <1>11, <2>1, BucketInRange DEF TableTypeOK
  <2> HIDE DEF at
  <2>3. g_hash' \in [Buckets -> SessionSlots \cup {Empty}]
    BY <1>2, <2>2 DEF TableIndexes
  <2>4. g_hash'[at] = slot /\ \A b \in Buckets : b # at => g_hash'[b] = g[b]
    BY <1>2, <2>2 DEF TableIndexes
  <2>5. TableTypeOK'
    <3>1. used' \in [SessionSlots -> BOOLEAN]
      BY <1>4, <1>11
    <3>2. session_id' \in [SessionSlots -> Ids \cup {None}]
      BY <1>1, <1>11 DEF TableTypeOK
    <3>3. expires_at' \in [SessionSlots -> 0 .. MaxTime + TTL]
      BY <1>1, <1>5, <1>11 DEF TableTypeOK
    <3> QED
      BY <1>1, <1>6, <1>11, <2>3, <3>1, <3>2, <3>3 DEF TableTypeOK
  <2>6. ASSUME NEW s \in SessionSlots, used'[s]
        PROVE  session_id'[s] \in issued' /\ \E b \in Buckets : g_hash'[b] = s
    <3>1. CASE s = slot
      <4>1. session_id'[s] = i
        BY <1>1, <1>11, <3>1 DEF TableTypeOK
      <4> QED
        BY <1>11, <2>2, <2>4, <3>1, <4>1
    <3>2. CASE s # slot
      <4>1. Still[s] /\ session_id'[s] = session_id[s]
        BY <1>1, <1>4, <1>11, <2>6, <3>2 DEF TableTypeOK
      <4>2. PICK b \in Buckets : g[b] = s
        BY <1>3, <4>1
      <4>3. b # at
        BY <2>2, <4>2, TableSizes
      <4> QED
        BY <1>3, <1>7, <1>11, <2>4, <4>1, <4>2, <4>3
    <3> QED
      BY <3>1, <3>2
  <2> QED
    BY <2>5, <2>6 DEF TableInv, UsedAreIssued, LiveIsIndexed
<1> QED
  BY <1>8, <1>9, <1>10, <1>11, CreateDoes DEF g

(* The steps that remove a session, or nothing.                            *)
LEMMA RemovalKeepsInv ==
  ASSUME TableInv, NEW i \in Ids, ~looping,
         UNCHANGED <<session_id, expires_at, now, hash_id, issued>>,
         logged_out' \in {logged_out, logged_out \cup {i}},
         \/ looping' = TRUE /\ UNCHANGED <<used, g_hash>>
         \/ /\ UNCHANGED looping
            /\ \/ Reaches(i) /\ Removes(g_hash[ProbeEnd(i)], ProbeEnd(i))
               \/ UNCHANGED <<used, g_hash>>
  PROVE  TableInv'
<1>1. TableTypeOK /\ logged_out' \subseteq Ids
  BY DEF TableInv, TableTypeOK
<1>2. CASE looping' \in BOOLEAN /\ UNCHANGED <<used, g_hash>>
  BY <1>1, <1>2 DEF TableInv, TableTypeOK, UsedAreIssued, LiveIsIndexed
<1>3. CASE /\ UNCHANGED looping /\ Reaches(i)
           /\ Removes(g_hash[ProbeEnd(i)], ProbeEnd(i))
  <2> DEFINE b == ProbeEnd(i)
             s == g_hash[b]
  <2>1. b \in Buckets /\ s \in SessionSlots
    BY <1>1, <1>3, ReachesSlot
  <2>2. /\ used' = [used EXCEPT ![s] = FALSE]
        /\ g_hash' = [g_hash EXCEPT ![b] = Empty]
    BY <1>3 DEF Removes
  <2>3. g_hash[b] = s
    OBVIOUS
  <2> HIDE DEF b, s
  <2>4. TableTypeOK'
    BY <1>1, <1>3, <2>1, <2>2 DEF TableTypeOK
  <2>5. ASSUME NEW t \in SessionSlots, used'[t]
        PROVE  used[t] /\ \E c \in Buckets : g_hash'[c] = t
    <3>1. t # s /\ used[t]
      BY <1>1, <2>1, <2>2, <2>5 DEF TableTypeOK
    <3>2. PICK c \in Buckets : g_hash[c] = t
      BY <3>1 DEF TableInv, LiveIsIndexed
    <3>3. c # b
      BY <2>3, <3>1, <3>2
    <3>4. g_hash'[c] = t
      BY <1>1, <2>2, <3>2, <3>3 DEF TableTypeOK
    <3> QED
      BY <3>1, <3>4
  <2> QED
    BY <2>4, <2>5 DEF TableInv, UsedAreIssued, LiveIsIndexed
<1> QED
  BY <1>1, <1>2, <1>3 DEF TableTypeOK

LEMMA TableInvStep == TableInv /\ [TableNext]_table_vars => TableInv'
<1> SUFFICES ASSUME TableInv, [TableNext]_table_vars PROVE TableInv'
  OBVIOUS
<1>1. ASSUME NEW i \in Ids, Create(i) PROVE TableInv'
  BY <1>1, CreateKeepsInv
<1>2. ASSUME NEW i \in Ids, Lookup(i) PROVE TableInv'
  BY <1>2, LookupDoes, RemovalKeepsInv DEF TableInv
<1>3. ASSUME NEW i \in issued, Destroy(i) PROVE TableInv'
  <2>1. i \in Ids
    BY DEF TableInv, TableTypeOK
  <2> QED
    BY <1>3, <2>1, DestroyDoes, RemovalKeepsInv DEF TableInv
<1>4. CASE Tick
  <2>1. now' \in 0 .. MaxTime
    BY <1>4, TableSizes DEF Tick, TableInv, TableTypeOK
  <2> QED
    BY <1>4, <2>1
       DEF Tick, sessions, TableInv, TableTypeOK, UsedAreIssued, LiveIsIndexed
<1>5. CASE UNCHANGED table_vars
  BY <1>5 DEF table_vars, sessions, TableInv, TableTypeOK, UsedAreIssued,
              LiveIsIndexed
<1> QED
  BY <1>1, <1>2, <1>3, <1>4, <1>5 DEF TableNext

LEMMA TableInvariant == TableSpec => []TableInv
BY TableInvInit, TableInvStep, PTL DEF TableSpec

(* The sessions, the index and the ids keep their types.                   *)
THEOREM TableTypeCorrect == TableSpec => []TableTypeOK
<1>1. TableInv => TableTypeOK
  BY DEF TableInv
<1> QED
  BY <1>1, TableInvariant, PTL

(* A session in use keeps its entry in the index, whatever is removed      *)
(* around it (session.c:128, 145).                                         *)
THEOREM LiveStaysIndexed == TableSpec => []LiveIsIndexed
<1>1. TableInv => LiveIsIndexed
  BY DEF TableInv
<1> QED
  BY <1>1, TableInvariant, PTL

-----------------------------------------------------------------------------
(* A new session is found.                                                 *)

(* Slot s holds the session of i, alone, and the k-th bucket of its probe  *)
(* leads to it with no empty bucket before.                                *)
Entered(i) ==
  \E s \in SessionSlots, k \in Buckets :
    /\ used[s] /\ session_id[s] = i /\ now <= expires_at[s]
    /\ \A t \in SessionSlots : used[t] /\ session_id[t] = i => t = s
    /\ g_hash[Bucket(i, k)] = s
    /\ \A m \in Buckets : m < k => g_hash[Bucket(i, m)] # Empty

EnteredAreFound == \A i \in Ids : Entered(i) => Found(i)

LEMMA EnteredFound == TableTypeOK => EnteredAreFound
<1> SUFFICES ASSUME TableTypeOK, NEW i \in Ids, Entered(i) PROVE Found(i)
  BY DEF EnteredAreFound
<1>1. PICK s \in SessionSlots, k \in Buckets :
        /\ used[s] /\ session_id[s] = i /\ now <= expires_at[s]
        /\ \A t \in SessionSlots : used[t] /\ session_id[t] = i => t = s
        /\ g_hash[Bucket(i, k)] = s
        /\ \A m \in Buckets : m < k => g_hash[Bucket(i, m)] # Empty
  BY DEF Entered
<1>2. Holds(i, Bucket(i, k))
  BY <1>1, TableSizes DEF Holds, IsLive
<1>3. ~ProbeLoops(i)
  BY <1>2, ProbeStops
<1>4. PICK n \in Buckets :
        /\ ProbeEnd(i) = Bucket(i, n)
        /\ g_hash[Bucket(i, n)] = Empty \/ Holds(i, Bucket(i, n))
        /\ \A m \in Buckets : m < n => ~Holds(i, Bucket(i, m))
  BY <1>3, ProbeEnds
<1>5. ~(k < n)
  BY <1>2, <1>4
<1>6. n = k \/ n < k
  BY <1>5, TableSizes
<1>7. Holds(i, Bucket(i, n))
  BY <1>1, <1>2, <1>4, <1>6
<1>8. Reaches(i)
  BY <1>3, <1>4, <1>7 DEF Reaches
<1>9. g_hash[ProbeEnd(i)] = s
  BY <1>1, <1>8, ReachesSlot
<1> QED
  BY <1>1, <1>8, <1>9 DEF Found

LEMMA CreateEnters ==
  ASSUME TableInv, NEW i \in Ids, Create(i), issued' # issued
  PROVE  issued' = issued \cup {i} /\ Entered(i)'
<1> DEFINE g == Cleaned.index
<1>1. TableTypeOK /\ g \in TableIndexes
  BY CleanedIs DEF TableInv, TableTypeOK, TableIndexes
<1>2. /\ ~looping /\ i \notin issued
      /\ UNCHANGED <<now, hash_id, logged_out>>
  BY CreateDoes
<1>3. PICK slot \in SessionSlots :
        /\ used' = [Still EXCEPT ![slot] = TRUE]
        /\ session_id' = [session_id EXCEPT ![slot] = i]
        /\ expires_at' = [expires_at EXCEPT ![slot] = now + TTL]
        /\ Stops(g, i, LAMBDA b : FALSE) # {}
        /\ g_hash' = [g EXCEPT ![EntryFor(g, i)] = slot]
        /\ issued' = issued \cup {i}
  BY CreateDoes
<1> HIDE DEF g
<1>4. PICK k \in Buckets :
        /\ EntryFor(g, i) = Bucket(i, k)
        /\ g[Bucket(i, k)] = Empty
        /\ \A m \in Buckets : m < k => g[Bucket(i, m)] # Empty
  BY <1>3, EntryIsFirst
<1>5. \A m \in Buckets : Bucket(i, m) \in Buckets
  BY <1>1, BucketInRange DEF TableTypeOK
<1> DEFINE at == [m \in Buckets |-> Bucket(i, m)]
<1>6. \A m \in Buckets : Bucket(i, m)' = at[m] /\ at[m] = Bucket(i, m)
  BY <1>2 DEF Bucket
<1>7. at \in [Buckets -> Buckets]
  BY <1>5
<1>8. /\ g[at[k]] = Empty /\ g_hash' = [g EXCEPT ![at[k]] = slot]
      /\ \A m \in Buckets : m < k => g[at[m]] # Empty
  BY <1>3, <1>4
<1> HIDE DEF at
<1>9. g_hash'[at[k]] = slot /\ \A b \in Buckets : b # at[k] => g_hash'[b] = g[b]
  BY <1>1, <1>7, <1>8 DEF TableIndexes
<1>10. \A m \in Buckets : m < k => g_hash'[at[m]] # Empty
  BY <1>7, <1>8, <1>9
<1>11. used'[slot] /\ session_id'[slot] = i /\ expires_at'[slot] = now + TTL
  BY <1>1, <1>3 DEF TableTypeOK, Still
<1>12. now' <= expires_at'[slot]
  BY <1>1, <1>2, <1>11, TableSizes DEF TableTypeOK
<1>13. ASSUME NEW t \in SessionSlots, used'[t], session_id'[t] = i
       PROVE  t = slot
  <2>1. ASSUME t # slot PROVE FALSE
    <3>1. session_id[t] = i /\ Still[t]
      BY <1>1, <1>3, <1>13, <2>1 DEF TableTypeOK, Still
    <3>2. used[t]
      BY <3>1 DEF Still
    <3> QED
      BY <1>2, <3>1, <3>2 DEF TableInv, UsedAreIssued
  <2> QED
    BY <2>1
<1>14. g_hash'[Bucket(i, k)'] = slot
       /\ \A m \in Buckets : m < k => g_hash'[Bucket(i, m)'] # Empty
  BY <1>6, <1>9, <1>10
<1>15. Entered(i)'
  BY <1>11, <1>12, <1>13, <1>14 DEF Entered
<1> QED
  BY <1>3, <1>15

(* The cookie of a login works for the next request: session_lookup comes  *)
(* by the entry that session_create made, however many holes and left-over *)
(* entries the index has (session.c:91).                                   *)
THEOREM CreatedFound == TableSpec => CreatedIsFound
<1> DEFINE A == \A i \in Ids : i \in issued' \ issued => Found(i)'
<1>1. TableInv /\ EnteredAreFound' /\ [TableNext]_table_vars => [A]_table_vars
  <2> SUFFICES ASSUME TableInv, EnteredAreFound', [TableNext]_table_vars,
                      NEW i \in Ids, i \in issued' \ issued
               PROVE  Found(i)'
    BY DEF A
  <2>1. ASSUME NEW j \in Ids, Create(j) PROVE Found(i)'
    <3>1. issued' = issued \cup {j} /\ Entered(j)'
      BY <2>1, CreateEnters
    <3> QED
      BY <3>1 DEF EnteredAreFound
  <2>2. ASSUME NEW j \in Ids, Lookup(j) PROVE FALSE
    BY <2>2, LookupDoes DEF TableInv
  <2>3. ASSUME NEW j \in issued, Destroy(j) PROVE FALSE
    <3>1. j \in Ids
      BY DEF TableInv, TableTypeOK
    <3> QED
      BY <2>3, <3>1, DestroyDoes DEF TableInv
  <2>4. CASE Tick
    BY <2>4 DEF Tick
  <2>5. CASE UNCHANGED table_vars
    BY <2>5 DEF table_vars
  <2> QED
    BY <2>1, <2>2, <2>3, <2>4, <2>5 DEF TableNext
<1>2. TableInv => EnteredAreFound
  BY EnteredFound DEF TableInv
<1> HIDE DEF A
<1>3. TableSpec => [][A]_table_vars
  BY <1>1, <1>2, TableInvariant, PTL DEF TableSpec
<1> QED
  BY <1>3 DEF CreatedIsFound, A

-----------------------------------------------------------------------------
(* How full the index can be.                                              *)

InUse(g) == {b \in Buckets : g[b] # Empty}

(* No more entries than sessions were created.                             *)
FewEntries ==
  /\ IsFiniteSet(issued)
  /\ Cardinality(InUse(g_hash)) <= Cardinality(issued)
  /\ CallsReturn

LEMMA InUseFinite ==
  ASSUME NEW g
  PROVE  /\ IsFiniteSet(InUse(g)) /\ Cardinality(InUse(g)) \in Nat
         /\ (\A b \in Buckets : g[b] # Empty) => Cardinality(InUse(g)) = HashSize
<1>1. IsFiniteSet(Buckets) /\ Cardinality(Buckets) = HashSize
  <2>1. 0 \in Int /\ HashSize - 1 \in Int /\ HashSize \in Nat \ {0}
    BY TableSizes
  <2>2. /\ IsFiniteSet(0 .. HashSize - 1)
        /\ Cardinality(0 .. HashSize - 1)
             = IF 0 > HashSize - 1 THEN 0 ELSE HashSize - 1 - 0 + 1
    BY <2>1, FS_Interval
  <2> QED
    BY <2>1, <2>2, TableSizes
<1>2. InUse(g) \subseteq Buckets
  BY DEF InUse
<1>3. (\A b \in Buckets : g[b] # Empty) => InUse(g) = Buckets
  BY DEF InUse
<1> QED
  BY <1>1, <1>2, <1>3, FS_Subset, FS_CardinalityType

(* A probe comes by every bucket, so one that never ends has met no empty  *)
(* entry anywhere.                                                         *)
LEMMA ProbeIsOnto ==
  ASSUME NEW i, hash_id[i] \in Buckets, NEW b \in Buckets
  PROVE  \E k \in Buckets : Bucket(i, k) = b
<1> DEFINE h == hash_id[i]
<1>1. /\ h \in Nat /\ h < HashSize /\ b \in Nat /\ b < HashSize
      /\ HashSize \in Nat \ {0}
  BY TableSizes
<1>2. CASE b >= h
  <2>1. b - h \in Buckets /\ h + (b - h) = b
    BY <1>1, <1>2, TableSizes
  <2>2. b % HashSize = b
    BY <1>1
  <2> QED
    BY <2>1, <2>2 DEF Bucket
<1>3. CASE b < h
  <2>1. b - h + HashSize \in Buckets /\ h + (b - h + HashSize) = b + HashSize
    BY <1>1, <1>3, TableSizes
  <2>2. (b + HashSize) % HashSize = b
    BY <1>1
  <2> QED
    BY <2>1, <2>2 DEF Bucket
<1> QED
  BY <1>1, <1>2, <1>3

LEMMA LoopMeansFull ==
  ASSUME NEW i, hash_id[i] \in Buckets
  PROVE  /\ ProbeLoops(i) => \A b \in Buckets : g_hash[b] # Empty
         /\ \A g : Stops(g, i, LAMBDA b : FALSE) = {}
                     => \A b \in Buckets : g[b] # Empty
         /\ \A g, s : CleanLoops(g, s) /\ session_id[s] = i
                        => \A b \in Buckets : g[b] # Empty
<1>1. ProbeLoops(i) => \A k \in Buckets : g_hash[Bucket(i, k)] # Empty
  BY DEF ProbeLoops, Stops
<1>2. \A g : Stops(g, i, LAMBDA b : FALSE) = {}
               => \A k \in Buckets : g[Bucket(i, k)] # Empty
  BY DEF Stops
<1>3. \A g, s : CleanLoops(g, s) /\ session_id[s] = i
                  => \A k \in Buckets : g[Bucket(i, k)] # Empty
  BY DEF CleanLoops, Stops
<1> QED
  BY <1>1, <1>2, <1>3, ProbeIsOnto

(* Also a probe of the clean-up, which has not filled any entry before.    *)
LEMMA CleanedLoopMeansFull ==
  ASSUME TableInv, ~looping, Cleaned.loops
  PROVE  \A b \in Buckets : g_hash[b] # Empty
<1>1. g_hash \in TableIndexes
  BY DEF TableInv, TableTypeOK, TableIndexes
<1>2. PICK after \in [0 .. MaxSessions ->
                        [index : TableIndexes, loops : BOOLEAN]] :
        /\ after[0] = [index |-> g_hash, loops |-> FALSE]
        /\ \A n \in 1 .. MaxSessions : after[n] = CleanSlot(after[n - 1], n - 1)
        /\ Cleaned = after[MaxSessions]
  BY <1>1, CleanedByStep
<1> DEFINE Good(n) ==
             after[n].loops => \A b \in Buckets : after[n].index[b] # Empty
           Bad == {n \in 0 .. MaxSessions : ~Good(n)}
<1>3. MaxSessions \in Nat
  BY TableSizes
<1>4. ASSUME Bad # {} PROVE FALSE
  <2>1. Bad \in SUBSET Nat
    OBVIOUS
  <2>2. PICK n \in Bad : \A y \in Bad : n <= y
    BY <1>4, <2>1, SmallestIs
  <2>3. Good(0)
    BY <1>2
  <2>4. n \in 1 .. MaxSessions /\ n - 1 \in 0 .. MaxSessions /\ ~(n <= n - 1)
        /\ n - 1 \in SessionSlots
    BY <1>3, <2>2, <2>3, TableSizes
  <2>5. Good(n - 1) /\ ~Good(n)
    BY <2>2, <2>4
  <2> DEFINE r == after[n - 1]
             s == n - 1
  <2>6. /\ r \in [index : TableIndexes, loops : BOOLEAN]
        /\ after[n] = CleanSlot(r, s)
    BY <1>2, <2>4
  <2>7. r.loops => \A b \in Buckets : r.index[b] # Empty
    BY <2>5
  <2>8. after[n].loops /\ ~ \A b \in Buckets : after[n].index[b] # Empty
    BY <2>5
  <2> HIDE DEF Good, Bad, r
  <2>9. CASE r.loops \/ ~Expired(s)
    BY <2>6, <2>7, <2>8, <2>9 DEF CleanSlot
  <2>10. CASE ~(r.loops \/ ~Expired(s)) /\ CleanLoops(r.index, s)
    <3>1. after[n].index = r.index
      BY <2>6, <2>10 DEF CleanSlot
    <3>2. used[s] /\ session_id[s] \in Ids
      BY <2>4, <2>10 DEF Expired, TableInv, TableTypeOK, UsedAreIssued
    <3>3. hash_id[session_id[s]] \in Buckets
      BY <3>2 DEF TableInv, TableTypeOK
    <3> QED
      BY <2>8, <2>10, <3>1, <3>3, LoopMeansFull
  <2>11. CASE ~(r.loops \/ ~Expired(s)) /\ ~CleanLoops(r.index, s)
    <3>1. after[n] = [r EXCEPT !.index = CleanEntry(r.index, s)]
      BY <2>6, <2>11 DEF CleanSlot
    <3>2. after[n].loops = r.loops
      BY <2>6, <3>1
    <3> QED
      BY <2>8, <2>11, <3>2
  <2> QED
    BY <2>9, <2>10, <2>11
<1>5. MaxSessions \in 0 .. MaxSessions
  BY <1>3
<1>6. \A b \in Buckets : Cleaned.index[b] # Empty
  BY <1>2, <1>4, <1>5
<1> QED
  BY <1>1, <1>6, CleanedIs

LEMMA FewInit == ASSUME Initialised PROVE TableInit => FewEntries
<1> SUFFICES ASSUME TableInit PROVE FewEntries
  OBVIOUS
<1>1. InUse(g_hash) = {} /\ issued = {} /\ ~looping
  BY DEF TableInit, InUse
<1> QED
  BY <1>1, FS_EmptySet DEF FewEntries, CallsReturn

(* Entries go, or one comes with a new session.                            *)
LEMMA FewFrame ==
  ASSUME FewEntries, issued' = issued,
         \A b \in Buckets : g_hash'[b] = g_hash[b] \/ g_hash'[b] = Empty,
         looping' => looping \/ \A b \in Buckets : g_hash[b] # Empty
  PROVE  FewEntries'
<1>1. InUse(g_hash') \subseteq InUse(g_hash)
  BY DEF InUse
<1>2. Cardinality(InUse(g_hash')) <= Cardinality(InUse(g_hash))
  BY <1>1, InUseFinite, FS_Subset
<1>3. Cardinality(InUse(g_hash')) \in Nat /\ Cardinality(InUse(g_hash)) \in Nat
      /\ Cardinality(issued) \in Nat /\ HashSize \in Nat
  BY InUseFinite, FS_CardinalityType, TableSizes DEF FewEntries
<1>4. Cardinality(InUse(g_hash')) <= Cardinality(issued)
  BY <1>2, <1>3 DEF FewEntries
<1>5. (\A b \in Buckets : g_hash[b] # Empty) => HashSize <= Cardinality(issued)
  BY InUseFinite DEF FewEntries
<1>6. CallsReturn'
  BY <1>3, <1>5 DEF FewEntries, CallsReturn
<1> QED
  BY <1>4, <1>6 DEF FewEntries

LEMMA FewCreate ==
  ASSUME TableInv, FewEntries, NEW i \in Ids, Create(i)
  PROVE  FewEntries'
<1> DEFINE g == Cleaned.index
<1>1. /\ g \in TableIndexes /\ Cleaned.loops \in BOOLEAN
      /\ \A b \in Buckets : g[b] = g_hash[b] \/ g[b] = Empty
  BY CleanedIs DEF TableInv, TableTypeOK, TableIndexes
<1>2. ~looping /\ i \notin issued /\ hash_id[i] \in Buckets
  BY CreateDoes DEF TableInv, TableTypeOK
<1>3. CASE /\ Cleaned.loops /\ looping' = TRUE
           /\ UNCHANGED <<used, session_id, expires_at, g_hash, issued>>
  BY <1>2, <1>3, CleanedLoopMeansFull, FewFrame
<1>4. CASE used' = Still /\ g_hash' = g /\ UNCHANGED <<looping, issued>>
  BY <1>1, <1>4, FewFrame
<1>5. CASE /\ Stops(g, i, LAMBDA b : FALSE) = {}
           /\ looping' = TRUE /\ g_hash' = g /\ UNCHANGED issued
  <2>1. \A b \in Buckets : g[b] # Empty
    BY <1>2, <1>5, LoopMeansFull
  <2>2. \A b \in Buckets : g_hash[b] # Empty
    BY <1>1, <2>1
  <2> QED
    BY <1>1, <1>5, <2>2, FewFrame
<1>6. ASSUME NEW slot \in SessionSlots,
             Stops(g, i, LAMBDA b : FALSE) # {},
             g_hash' = [g EXCEPT ![EntryFor(g, i)] = slot],
             issued' = issued \cup {i}, UNCHANGED looping
      PROVE  FewEntries'
  <2> DEFINE at == EntryFor(g, i)
  <2>1. InUse(g_hash') \subseteq InUse(g_hash) \cup {at}
    BY <1>1, <1>6 DEF InUse, TableIndexes
  <2> HIDE DEF at
  <2>2. /\ IsFiniteSet(InUse(g_hash) \cup {at})
        /\ Cardinality(InUse(g_hash) \cup {at}) <= Cardinality(InUse(g_hash)) + 1
    BY InUseFinite, FS_AddElement
  <2>3. Cardinality(InUse(g_hash')) <= Cardinality(InUse(g_hash) \cup {at})
    BY <2>1, <2>2, FS_Subset
  <2>4. /\ IsFiniteSet(issued')
        /\ Cardinality(issued') = Cardinality(issued) + 1
    BY <1>2, <1>6, FS_AddElement DEF FewEntries
  <2>5. /\ Cardinality(InUse(g_hash')) \in Nat /\ Cardinality(InUse(g_hash)) \in Nat
        /\ Cardinality(InUse(g_hash) \cup {at}) \in Nat
        /\ Cardinality(issued) \in Nat /\ HashSize \in Nat
    BY InUseFinite, <2>2, FS_CardinalityType, TableSizes DEF FewEntries
  <2>6. Cardinality(InUse(g_hash')) <= Cardinality(issued')
    BY <2>2, <2>3, <2>4, <2>5 DEF FewEntries
  <2>7. CallsReturn'
    BY <1>2, <1>6 DEF CallsReturn
  <2> QED
    BY <2>4, <2>6, <2>7 DEF FewEntries
<1> HIDE DEF g
<1> QED
  BY <1>3, <1>4, <1>5, <1>6, CreateDoes DEF g

LEMMA FewStep == TableInv /\ FewEntries /\ [TableNext]_table_vars => FewEntries'
<1> SUFFICES ASSUME TableInv, FewEntries, [TableNext]_table_vars
             PROVE  FewEntries'
  OBVIOUS
<1>1. TableTypeOK
  BY DEF TableInv
<1>2. ASSUME NEW i \in Ids,
             \/ ProbeLoops(i) /\ looping' = TRUE /\ UNCHANGED <<used, g_hash>>
             \/ /\ UNCHANGED looping
                /\ \/ \E s, b : Removes(s, b)
                   \/ UNCHANGED <<used, g_hash>>,
             issued' = issued
      PROVE  FewEntries'
  <2>1. looping' => looping \/ \A b \in Buckets : g_hash[b] # Empty
    BY <1>1, <1>2, LoopMeansFull DEF TableTypeOK
  <2>2. \A b \in Buckets : g_hash'[b] = g_hash[b] \/ g_hash'[b] = Empty
    BY <1>1, <1>2 DEF Removes, TableTypeOK
  <2> QED
    BY <1>2, <2>1, <2>2, FewFrame
<1>3. ASSUME NEW i \in Ids, Lookup(i) PROVE FewEntries'
  <2>1. \/ ProbeLoops(i) /\ looping' = TRUE /\ UNCHANGED <<used, g_hash>>
        \/ /\ UNCHANGED looping
           /\ \/ \E s, b : Removes(s, b)
              \/ UNCHANGED <<used, g_hash>>
    BY <1>1, <1>3, LookupDoes
  <2>2. issued' = issued
    BY <1>1, <1>3, LookupDoes
  <2> QED
    BY <1>2, <2>1, <2>2
<1>4. ASSUME NEW i \in issued, Destroy(i) PROVE FewEntries'
  <2>1. i \in Ids
    BY <1>1 DEF TableTypeOK
  <2>2. \/ ProbeLoops(i) /\ looping' = TRUE /\ UNCHANGED <<used, g_hash>>
        \/ /\ UNCHANGED looping
           /\ \/ \E s, b : Removes(s, b)
              \/ UNCHANGED <<used, g_hash>>
    BY <1>1, <1>4, <2>1, DestroyDoes
  <2>3. issued' = issued
    BY <1>1, <1>4, <2>1, DestroyDoes
  <2> QED
    BY <1>2, <2>1, <2>2, <2>3
<1>5. CASE Tick \/ UNCHANGED table_vars
  <2>1. UNCHANGED <<issued, g_hash, looping>>
    BY <1>5 DEF Tick, table_vars
  <2> QED
    BY <2>1, FewFrame
<1> QED
  BY <1>3, <1>4, <1>5, FewCreate DEF TableNext

(* In an initialised table no probe runs for ever before as many sessions  *)
(* have been created as the index has entries, for every hash function and *)
(* whatever was removed (session.c:93, 103, 142).                          *)
THEOREM CallsDoReturn == ASSUME Initialised PROVE TableSpec => []CallsReturn
<1>1. TableInit => TableInv /\ FewEntries
  BY TableInvInit, FewInit
<1>2. (TableInv /\ FewEntries) /\ [TableNext]_table_vars
        => (TableInv /\ FewEntries)'
  BY TableInvStep, FewStep
<1>3. TableInv /\ FewEntries => CallsReturn
  BY DEF FewEntries
<1> QED
  BY <1>1, <1>2, <1>3, PTL DEF TableSpec

-----------------------------------------------------------------------------
(* The store.                                                              *)

(* No two slots have the session of one id.                                *)
OneSlotEach ==
  \A s, t \in SessionSlots :
    used[s] /\ used[t] /\ session_id[s] = session_id[t] => s = t

(* Slot s is live and has the session of i.                                *)
Has(s, i) == s \in LiveSlots /\ session_id[s] = i

(* The entry of i is the first of its probe; or one that the probe comes   *)
(* to without an empty one before.                                         *)
AtHome(i) == \E s \in SessionSlots : Has(s, i) /\ g_hash[hash_id[i]] = s
Chained(i) ==
  \E s \in SessionSlots, k \in Buckets :
    /\ Has(s, i) /\ g_hash[Bucket(i, k)] = s
    /\ \A m \in Buckets : m < k => g_hash[Bucket(i, m)] # Empty

(* The state of SessionStore in these terms.                               *)
StoreIs ==
  /\ FoundIds = {i \in issued : Chained(i)}
  /\ FirmIds = {i \in issued : AtHome(i)}
  /\ \A i \in issued : AtHome(i) => Chained(i)

LEMMA StoreIsSeen == TableInv /\ OneSlotEach => StoreIs
<1> SUFFICES ASSUME TableInv, OneSlotEach PROVE StoreIs
  OBVIOUS
<1>1. TableTypeOK
  BY DEF TableInv
<1>2. ASSUME NEW i \in issued
      PROVE  /\ Found(i) <=> Chained(i)
             /\ Found(i) /\ Holds(i, hash_id[i]) <=> AtHome(i)
             /\ AtHome(i) => Chained(i)
  <2>1. i \in Ids /\ hash_id[i] \in Buckets /\ Bucket(i, 0) = hash_id[i]
        /\ 0 \in Buckets /\ \A m \in Buckets : ~(m < 0)
    BY <1>1, HomeIsFirst, TableSizes DEF TableTypeOK
  <2>2. ASSUME NEW s \in SessionSlots, used[s], session_id[s] = i,
               now <= expires_at[s]
        PROVE  Has(s, i)
    BY <1>2, <2>2 DEF Has, LiveSlots
  <2>3. \A s \in SessionSlots : Has(s, i) =>
          /\ used[s] /\ session_id[s] = i /\ now <= expires_at[s]
          /\ \A t \in SessionSlots : used[t] /\ session_id[t] = i => t = s
    BY DEF Has, LiveSlots, OneSlotEach
  <2>4. Chained(i) => Found(i)
    <3> SUFFICES ASSUME Chained(i) PROVE Entered(i)
      BY <1>1, <2>1, EnteredFound DEF EnteredAreFound
    <3>1. PICK s \in SessionSlots, k \in Buckets :
            /\ Has(s, i) /\ g_hash[Bucket(i, k)] = s
            /\ \A m \in Buckets : m < k => g_hash[Bucket(i, m)] # Empty
      BY DEF Chained
    <3> QED
      BY <2>3, <3>1 DEF Entered
  <2>5. Found(i) => Chained(i)
    <3> SUFFICES ASSUME Found(i) PROVE Chained(i)
      OBVIOUS
    <3>1. Reaches(i) /\ now <= expires_at[g_hash[ProbeEnd(i)]]
      BY DEF Found
    <3>2. PICK k \in Buckets :
            /\ ProbeEnd(i) = Bucket(i, k)
            /\ \A m \in Buckets : m < k => g_hash[Bucket(i, m)] # Empty
      BY <3>1, ProbeEnds DEF Reaches
    <3>3. /\ g_hash[ProbeEnd(i)] \in SessionSlots
          /\ used[g_hash[ProbeEnd(i)]]
          /\ session_id[g_hash[ProbeEnd(i)]] = i
      BY <1>1, <2>1, <3>1, ReachesSlot
    <3>4. Has(g_hash[ProbeEnd(i)], i)
      BY <2>2, <3>1, <3>3
    <3> QED
      BY <3>2, <3>3, <3>4 DEF Chained
  <2>6. AtHome(i) => Chained(i)
    BY <2>1 DEF AtHome, Chained
  <2>7. AtHome(i) => Holds(i, hash_id[i])
    BY <2>1, <2>3, TableSizes DEF AtHome, Holds, IsLive
  <2>8. ASSUME Found(i), Holds(i, hash_id[i]) PROVE AtHome(i)
    <3>1. PICK s \in SessionSlots : Has(s, i)
      BY <2>5, <2>8 DEF Chained
    <3>2. /\ g_hash[hash_id[i]] \in SessionSlots
          /\ used[g_hash[hash_id[i]]] /\ session_id[g_hash[hash_id[i]]] = i
      BY <1>1, <2>1, <2>8 DEF Holds, IsLive, TableTypeOK
    <3>3. g_hash[hash_id[i]] = s
      BY <2>3, <3>1, <3>2
    <3> QED
      BY <3>1, <3>3 DEF AtHome
  <2> QED
    BY <2>4, <2>5, <2>6, <2>7, <2>8
<1>3. FoundIds = {i \in issued : Found(i)}
      /\ FirmIds = {i \in issued : Found(i) /\ Holds(i, hash_id[i])}
  BY DEF FoundIds, FirmIds
<1> QED
  BY <1>2, <1>3 DEF StoreIs

(* What the steps do to live sessions.                                     *)
SameSessions ==
  /\ UNCHANGED <<issued, now>>
  /\ LiveSlots' = LiveSlots
  /\ \A s \in LiveSlots : session_id'[s] = session_id[s]
                          /\ expires_at'[s] = expires_at[s]

(* The ids but i stay at home, and none is found that was not before.      *)
OthersStay(i) ==
  \A j \in issued : j # i => /\ AtHome(j)' <=> AtHome(j)
                             /\ Chained(j)' => Chained(j)

CreatedNow(i) ==
  \E slot \in SessionSlots :
    /\ slot \notin LiveSlots /\ LiveSlots' = LiveSlots \cup {slot}
    /\ session_id'[slot] = i /\ expires_at'[slot] = now + TTL
    /\ \A s \in LiveSlots : session_id'[s] = session_id[s]
                            /\ expires_at'[s] = expires_at[s]
    /\ i \notin issued /\ issued' = issued \cup {i} /\ now' = now
    /\ \A j \in issued : AtHome(j)' <=> AtHome(j)
    /\ Chained(i)'

DestroyedNow(i) ==
  \E s \in LiveSlots :
    /\ session_id[s] = i /\ Chained(i)
    /\ LiveSlots' = LiveSlots \ {s}
    /\ UNCHANGED <<session_id, expires_at, issued, now>>
    /\ OthersStay(i)

(* A step that leaves the live sessions in their slots, and takes from the *)
(* index entries of other slots only, can at most break chains.            *)
LEMMA EntriesGo ==
  ASSUME TableTypeOK, hash_id' = hash_id, NEW j \in issued, issued \subseteq issued',
         \A s \in SessionSlots : Has(s, j)' <=> Has(s, j),
         \A b \in Buckets :
           \/ g_hash'[b] = g_hash[b]
           \/ g_hash'[b] = Empty /\ ~Has(g_hash[b], j)
  PROVE  /\ AtHome(j)' <=> AtHome(j)
         /\ Chained(j)' => Chained(j)
<1>1. hash_id[j] \in Buckets
  BY DEF TableTypeOK
<1>2. \A k \in Buckets : Bucket(j, k)' = Bucket(j, k) /\ Bucket(j, k) \in Buckets
  BY <1>1, BucketInRange DEF Bucket
<1>3. \A s \in SessionSlots : s # Empty
  BY TableSizes
<1>4. AtHome(j)' <=> AtHome(j)
  <2>1. \A s \in SessionSlots :
          Has(s, j) => (g_hash'[hash_id[j]] = s <=> g_hash[hash_id[j]] = s)
    BY <1>1, <1>3
  <2> QED
    BY <2>1 DEF AtHome
<1>5. ASSUME Chained(j)' PROVE Chained(j)
  <2>1. PICK s \in SessionSlots, k \in Buckets :
          /\ Has(s, j)' /\ g_hash'[Bucket(j, k)'] = s
          /\ \A m \in Buckets : m < k => g_hash'[Bucket(j, m)'] # Empty
    BY <1>5 DEF Chained
  <2>2. /\ Has(s, j) /\ g_hash[Bucket(j, k)] = s
        /\ \A m \in Buckets : m < k => g_hash[Bucket(j, m)] # Empty
    BY <1>2, <1>3, <2>1
  <2> QED
    BY <2>2 DEF Chained
<1> QED
  BY <1>4, <1>5

(* How each step looks from there.                                         *)
Unseen ==
  /\ SameSessions
  /\ \A j \in issued : /\ AtHome(j)' <=> AtHome(j)
                       /\ Chained(j)' => Chained(j)

LEMMA OneSlotInit == TableInit => OneSlotEach
BY DEF TableInit, OneSlotEach

LEMMA OneSlotStep ==
  TableInv /\ OneSlotEach /\ [TableNext]_table_vars => OneSlotEach'
<1> SUFFICES ASSUME TableInv, OneSlotEach, [TableNext]_table_vars
             PROVE  OneSlotEach'
  OBVIOUS
<1>1. TableTypeOK
  BY DEF TableInv
<1>2. ASSUME UNCHANGED session_id,
             \A s \in SessionSlots : used'[s] => used[s]
      PROVE  OneSlotEach'
  BY <1>2 DEF OneSlotEach
<1>3. ASSUME \E s, b : Removes(s, b)
      PROVE  \A s \in SessionSlots : used'[s] => used[s]
  BY <1>1, <1>3 DEF Removes, TableTypeOK
<1>4. ASSUME NEW i \in Ids, Create(i) PROVE OneSlotEach'
  <2>1. ~looping /\ i \notin issued
    BY <1>4, CreateDoes
  <2>2. \A s \in SessionSlots :
          /\ Still[s] => used[s]
          /\ used[s] => session_id[s] # i
    BY <2>1 DEF Still, TableInv, UsedAreIssued
  <2>3. CASE UNCHANGED <<used, session_id>>
    BY <1>2, <2>3
  <2>4. CASE used' = Still /\ UNCHANGED session_id
    BY <1>2, <2>2, <2>4
  <2>5. ASSUME NEW slot \in SessionSlots,
               used' = [Still EXCEPT ![slot] = TRUE],
               session_id' = [session_id EXCEPT ![slot] = i]
        PROVE  OneSlotEach'
    <3>1. \A s \in SessionSlots :
            s # slot => /\ used'[s] => used[s] /\ session_id[s] # i
                        /\ session_id'[s] = session_id[s]
      BY <1>1, <2>2, <2>5 DEF Still, TableTypeOK
    <3>2. session_id'[slot] = i
      BY <1>1, <2>5 DEF TableTypeOK
    <3> QED
      BY <3>1, <3>2 DEF OneSlotEach
  <2> QED
    BY <1>4, <2>3, <2>4, <2>5, CreateDoes
<1>5. ASSUME NEW i \in Ids, Lookup(i) PROVE OneSlotEach'
  BY <1>1, <1>2, <1>3, <1>5, LookupDoes
<1>6. ASSUME NEW i \in issued, Destroy(i) PROVE OneSlotEach'
  <2>1. i \in Ids
    BY <1>1 DEF TableTypeOK
  <2> QED
    BY <1>1, <1>2, <1>3, <1>6, <2>1, DestroyDoes
<1>7. CASE Tick \/ UNCHANGED table_vars
  BY <1>2, <1>7 DEF Tick, table_vars, sessions
<1> QED
  BY <1>4, <1>5, <1>6, <1>7 DEF TableNext

(* Slots keep their live sessions, and entries of other slots go.          *)
LEMMA UnseenStep ==
  ASSUME TableTypeOK, UNCHANGED <<hash_id, issued, now>>, SameSessions,
         \A b \in Buckets :
           \/ g_hash'[b] = g_hash[b]
           \/ g_hash'[b] = Empty /\ g_hash[b] \notin LiveSlots
  PROVE  Unseen
<1>1. \A j \in issued, s \in SessionSlots : Has(s, j)' <=> Has(s, j)
  BY DEF SameSessions, Has
<1>2. \A j, b : g_hash[b] \notin LiveSlots => ~Has(g_hash[b], j)
  BY DEF Has
<1>3. ASSUME NEW j \in issued
      PROVE  /\ AtHome(j)' <=> AtHome(j)
             /\ Chained(j)' => Chained(j)
  BY <1>1, <1>2, EntriesGo
<1> QED
  BY <1>3 DEF Unseen

LEMMA CreateIsSeen ==
  ASSUME TableInv, OneSlotEach, NEW i \in Ids, Create(i)
  PROVE  CreatedNow(i) \/ Unseen
<1> DEFINE g == Cleaned.index
<1>1. TableTypeOK /\ g \in TableIndexes
  BY CleanedIs DEF TableInv, TableTypeOK, TableIndexes
<1>2. \A b \in Buckets : \/ g[b] = g_hash[b]
                         \/ /\ g[b] = Empty /\ g_hash[b] \in SessionSlots
                            /\ Expired(g_hash[b])
  BY CleanedIs DEF TableInv, TableTypeOK, TableIndexes
<1>3. ~looping /\ i \notin issued /\ UNCHANGED <<now, hash_id>>
  BY CreateDoes
<1>t. /\ now \in Int /\ TTL \in Nat /\ now <= now + TTL
      /\ \A s \in SessionSlots : expires_at[s] \in Int /\ used[s] \in BOOLEAN
  <2>1. now \in 0 .. MaxTime /\ MaxTime \in Nat /\ TTL \in Nat
    BY <1>1, TableSizes DEF TableTypeOK
  <2>2. expires_at \in [SessionSlots -> 0 .. MaxTime + TTL]
        /\ used \in [SessionSlots -> BOOLEAN]
    BY <1>1 DEF TableTypeOK
  <2> QED
    BY <2>1, <2>2
<1>4. \A s \in SessionSlots : /\ Expired(s) => s \notin LiveSlots
                              /\ s \in LiveSlots => Still[s]
                              /\ Still[s] => used[s] /\ now <= expires_at[s]
  <2> TAKE s \in SessionSlots
  <2>1. now <= expires_at[s] <=> ~(now > expires_at[s])
    BY <1>t
  <2>2. s \in LiveSlots => used[s] /\ now <= expires_at[s]
    BY DEF LiveSlots
  <2>3. Still[s] = (used[s] /\ ~Expired(s))
    BY DEF Still
  <2> QED
    BY <2>1, <2>2, <2>3 DEF Expired
<1>5. \A b \in Buckets : \/ g[b] = g_hash[b]
                         \/ g[b] = Empty /\ g_hash[b] \notin LiveSlots
  BY <1>2, <1>4
<1>6. LiveSlots = {s \in SessionSlots : Still[s]}
  BY <1>3, <1>4 DEF LiveSlots, TableInv, UsedAreIssued
<1> HIDE DEF g
<1>7. CASE UNCHANGED <<used, session_id, expires_at, g_hash, issued>>
  <2>1. SameSessions
    BY <1>3, <1>7 DEF SameSessions, LiveSlots
  <2> QED
    BY <1>1, <1>3, <1>7, <2>1, UnseenStep
<1>8. CASE used' = Still /\ g_hash' = g
           /\ UNCHANGED <<session_id, expires_at, issued>>
  <2>1. LiveSlots' = LiveSlots
    BY <1>3, <1>4, <1>8 DEF LiveSlots
  <2>2. SameSessions
    BY <1>3, <1>8, <2>1 DEF SameSessions
  <2> QED
    BY <1>1, <1>3, <1>5, <1>8, <2>2, UnseenStep
<1>9. ASSUME NEW slot \in SessionSlots, ~Still[slot],
             used' = [Still EXCEPT ![slot] = TRUE],
             session_id' = [session_id EXCEPT ![slot] = i],
             expires_at' = [expires_at EXCEPT ![slot] = now + TTL]
      PROVE  /\ slot \notin LiveSlots /\ used'[slot]
             /\ session_id'[slot] = i /\ expires_at'[slot] = now + TTL
             /\ \A s \in SessionSlots :
                  s # slot => /\ used'[s] = Still[s]
                              /\ session_id'[s] = session_id[s]
                              /\ expires_at'[s] = expires_at[s]
  BY <1>1, <1>4, <1>9 DEF TableTypeOK, Still
<1>o. ASSUME NEW s \in SessionSlots, used'[s] = Still[s], now' = now,
              issued \subseteq issued',
              session_id'[s] = session_id[s], expires_at'[s] = expires_at[s]
       PROVE  s \in LiveSlots' <=> s \in LiveSlots
  <2>1. s \in LiveSlots' <=> /\ used'[s] /\ session_id'[s] \in issued'
                             /\ now' <= expires_at'[s]
    BY DEF LiveSlots
  <2>2. Still[s] => session_id[s] \in issued /\ now <= expires_at[s]
    BY <1>3, <1>4 DEF TableInv, UsedAreIssued
  <2>3. s \in LiveSlots <=> Still[s]
    BY <1>6
  <2> QED
    BY <1>o, <2>1, <2>2, <2>3
<1>10. ASSUME NEW slot \in SessionSlots, ~Still[slot],
              used' = [Still EXCEPT ![slot] = TRUE],
              session_id' = [session_id EXCEPT ![slot] = i],
              expires_at' = [expires_at EXCEPT ![slot] = now + TTL],
              g_hash' = g, UNCHANGED issued
       PROVE  Unseen
  <2>1. LiveSlots' = LiveSlots
    <3>1. ASSUME NEW s \in SessionSlots, s # slot
          PROVE  s \in LiveSlots' <=> s \in LiveSlots
      <4>1. /\ used'[s] = Still[s] /\ session_id'[s] = session_id[s]
            /\ expires_at'[s] = expires_at[s]
        BY <1>9, <1>10, <3>1
      <4>2. now' = now /\ issued \subseteq issued'
        BY <1>3, <1>10
      <4> QED
        BY <1>o, <3>1, <4>1, <4>2
    <3>2. slot \notin LiveSlots' /\ slot \notin LiveSlots
      <4>1. session_id'[slot] = i /\ issued' = issued /\ slot \notin LiveSlots
        BY <1>9, <1>10
      <4>2. slot \in LiveSlots' => session_id'[slot] \in issued'
        BY DEF LiveSlots
      <4> QED
        BY <1>3, <4>1, <4>2
    <3> QED
      BY <3>1, <3>2 DEF LiveSlots
  <2>2. SameSessions
    BY <1>3, <1>9, <1>10, <2>1 DEF SameSessions, LiveSlots
  <2> QED
    BY <1>1, <1>3, <1>5, <1>10, <2>2, UnseenStep
<1>11. ASSUME NEW slot \in SessionSlots, ~Still[slot],
              used' = [Still EXCEPT ![slot] = TRUE],
              session_id' = [session_id EXCEPT ![slot] = i],
              expires_at' = [expires_at EXCEPT ![slot] = now + TTL],
              Stops(g, i, LAMBDA b : FALSE) # {},
              g_hash' = [g EXCEPT ![EntryFor(g, i)] = slot],
              issued' = issued \cup {i}
       PROVE  CreatedNow(i)
  <2>1. ASSUME NEW s \in SessionSlots, s # slot
        PROVE  s \in LiveSlots' <=> s \in LiveSlots
    <3>1. /\ used'[s] = Still[s] /\ session_id'[s] = session_id[s]
          /\ expires_at'[s] = expires_at[s]
      BY <1>9, <1>11, <2>1
    <3>2. now' = now /\ issued \subseteq issued'
      BY <1>3, <1>11
    <3> QED
      BY <1>o, <2>1, <3>1, <3>2
  <2>2. now' <= expires_at'[slot] /\ session_id'[slot] \in issued'
    <3>1. session_id'[slot] = i /\ expires_at'[slot] = now + TTL
      BY <1>9, <1>11
    <3>2. now' = now /\ i \in issued'
      BY <1>3, <1>11
    <3> QED
      BY <1>t, <3>1, <3>2
  <2>3. slot \in LiveSlots'
    <3>1. used'[slot]
      BY <1>9, <1>11
    <3> QED
      BY <2>2, <3>1 DEF LiveSlots
  <2>4. LiveSlots' = LiveSlots \cup {slot}
    BY <2>1, <2>3 DEF LiveSlots
  <2>5. \A s \in LiveSlots : session_id'[s] = session_id[s]
                             /\ expires_at'[s] = expires_at[s]
    BY <1>9, <1>11 DEF LiveSlots
  <2>6. PICK at \in Buckets : EntryFor(g, i) = at /\ g[at] = Empty
    <3>1. hash_id[i] \in Buckets
      BY <1>1 DEF TableTypeOK
    <3> QED
      BY <1>11, <3>1, EntryIsFirst, BucketInRange
  <2>7. /\ g_hash'[at] = slot
        /\ \A b \in Buckets : b # at => g_hash'[b] = g[b]
    BY <1>1, <1>11, <2>6 DEF TableIndexes
  <2>8. ASSUME NEW j \in issued PROVE AtHome(j)' <=> AtHome(j)
    <3>1. hash_id'[j] = hash_id[j] /\ hash_id[j] \in Buckets
      BY <1>1, <1>3 DEF TableTypeOK
    <3>2. \A s \in SessionSlots : Has(s, j)' <=> Has(s, j)
      BY <1>3, <1>9, <1>11, <2>4, <2>5 DEF Has
    <3>3. ASSUME NEW s \in SessionSlots, Has(s, j), NEW b \in Buckets
          PROVE  g_hash'[b] = s <=> g_hash[b] = s
      <4>1. s \in LiveSlots /\ s # slot /\ s # Empty
        BY <1>9, <1>11, <3>3, TableSizes DEF Has
      <4>2. g[b] = s <=> g_hash[b] = s
        BY <1>5, <4>1
      <4>3. g[at] # s
        BY <2>6, <4>1
      <4> QED
        BY <2>7, <4>1, <4>2, <4>3
    <3> QED
      BY <3>1, <3>2, <3>3 DEF AtHome
  <2>9. Chained(i)'
    <3>1. Entered(i)'
      BY <1>3, <1>11, CreateEnters
    <3>2. PICK s \in SessionSlots, k \in Buckets :
            /\ used'[s] /\ session_id'[s] = i /\ now' <= expires_at'[s]
            /\ g_hash'[Bucket(i, k)'] = s
            /\ \A m \in Buckets : m < k => g_hash'[Bucket(i, m)'] # Empty
      BY <3>1 DEF Entered
    <3>3. Has(s, i)'
      BY <1>11, <3>2 DEF Has, LiveSlots
    <3> QED
      BY <3>2, <3>3 DEF Chained
  <2> QED
    BY <1>3, <1>9, <1>11, <2>4, <2>5, <2>8, <2>9 DEF CreatedNow
<1> QED
  BY <1>7, <1>8, <1>10, <1>11, CreateDoes DEF g

LEMMA RemovalIsSeen ==
  ASSUME TableInv, OneSlotEach, NEW i \in issued, Reaches(i),
         Removes(g_hash[ProbeEnd(i)], ProbeEnd(i)),
         UNCHANGED <<session_id, expires_at, now, hash_id, issued>>
  PROVE  IF Found(i) THEN DestroyedNow(i) ELSE Unseen
<1> DEFINE b == ProbeEnd(i)
           s == g_hash[b]
<1>1. TableTypeOK /\ i \in Ids
  BY DEF TableInv, TableTypeOK
<1>2. b \in Buckets /\ s \in SessionSlots /\ used[s] /\ session_id[s] = i
  BY <1>1, ReachesSlot
<1>3. /\ used' = [used EXCEPT ![s] = FALSE]
      /\ g_hash' = [g_hash EXCEPT ![b] = Empty]
  BY DEF Removes
<1>4. Found(i) <=> now <= expires_at[s]
  BY DEF Found
<1>5. g_hash[b] = s
  OBVIOUS
<1>6. Found(i) => Chained(i)
  BY StoreIsSeen DEF StoreIs, FoundIds
<1> HIDE DEF b, s
<1>7. s \in LiveSlots <=> Found(i)
  BY <1>2, <1>4 DEF LiveSlots
<1>8. LiveSlots' = LiveSlots \ {s}
  <2>1. ~used'[s] /\ \A t \in SessionSlots : t # s => used'[t] = used[t]
    BY <1>1, <1>2, <1>3 DEF TableTypeOK
  <2>2. \A t \in SessionSlots : t \in LiveSlots' <=> t \in LiveSlots /\ t # s
    BY <2>1 DEF LiveSlots
  <2> QED
    BY <2>2 DEF LiveSlots
<1>9. \A c \in Buckets : \/ g_hash'[c] = g_hash[c]
                         \/ g_hash'[c] = Empty /\ g_hash[c] = s
  BY <1>1, <1>2, <1>3, <1>5 DEF TableTypeOK
<1>10. CASE ~Found(i)
  <2>1. SameSessions
    BY <1>7, <1>8, <1>10 DEF SameSessions
  <2> QED
    BY <1>1, <1>7, <1>9, <1>10, <2>1, UnseenStep
<1>11. CASE Found(i)
  <2>1. ASSUME NEW j \in issued, j # i
        PROVE  /\ AtHome(j)' <=> AtHome(j)
               /\ Chained(j)' => Chained(j)
    <3>1. \A t \in SessionSlots : Has(t, j)' <=> Has(t, j)
      BY <1>2, <1>8, <2>1 DEF Has
    <3>2. ~Has(s, j)
      BY <1>2, <2>1 DEF Has
    <3>3. \A c \in Buckets : \/ g_hash'[c] = g_hash[c]
                             \/ g_hash'[c] = Empty /\ ~Has(g_hash[c], j)
      BY <1>9, <3>2
    <3> QED
      BY <1>1, <3>1, <3>3, EntriesGo
  <2>2. OthersStay(i)
    BY <2>1 DEF OthersStay
  <2> QED
    BY <1>2, <1>6, <1>7, <1>8, <1>11, <2>2 DEF DestroyedNow
<1> QED
  BY <1>10, <1>11

TicksNow ==
  /\ now' = now + 1
  /\ UNCHANGED <<sessions, g_hash, hash_id, issued>>

LEMMA StepIsSeen ==
  TableInv /\ OneSlotEach /\ [TableNext]_table_vars
    => \/ \E i \in Ids : CreatedNow(i)
       \/ \E i \in issued : DestroyedNow(i)
       \/ Unseen \/ TicksNow
<1> SUFFICES ASSUME TableInv, OneSlotEach, [TableNext]_table_vars
             PROVE  \/ \E i \in Ids : CreatedNow(i)
                    \/ \E i \in issued : DestroyedNow(i)
                    \/ Unseen \/ TicksNow
  OBVIOUS
<1>1. TableTypeOK
  BY DEF TableInv
<1>2. ASSUME UNCHANGED <<sessions, g_hash, now, hash_id, issued>>
      PROVE  Unseen
  <2>1. SameSessions
    BY <1>2 DEF SameSessions, LiveSlots, sessions
  <2> QED
    BY <1>1, <1>2, <2>1, UnseenStep
<1>3. ASSUME NEW i \in Ids, Create(i) PROVE CreatedNow(i) \/ Unseen
  BY <1>3, CreateIsSeen
<1>4. ASSUME NEW i \in Ids, Lookup(i) PROVE Unseen
  <2>1. UNCHANGED <<session_id, expires_at, now, hash_id, issued>> /\ ~looping
    BY <1>1, <1>4, LookupDoes
  <2>2. CASE UNCHANGED <<used, g_hash>>
    BY <1>2, <2>1, <2>2 DEF sessions
  <2>3. CASE /\ Reaches(i) /\ ~Found(i)
             /\ Removes(g_hash[ProbeEnd(i)], ProbeEnd(i))
    <3>1. i \in issued
      BY <1>1, <2>1, <2>3, ReachesSlot DEF TableInv, UsedAreIssued
    <3> QED
      BY <2>1, <2>3, <3>1, RemovalIsSeen
  <2> QED
    BY <1>1, <1>4, <2>2, <2>3, LookupDoes
<1>5. ASSUME NEW i \in issued, Destroy(i) PROVE DestroyedNow(i) \/ Unseen
  <2>1. i \in Ids
    BY <1>1 DEF TableTypeOK
  <2>2. UNCHANGED <<session_id, expires_at, now, hash_id, issued>>
    BY <1>1, <1>5, <2>1, DestroyDoes
  <2>3. CASE UNCHANGED <<used, g_hash>>
    BY <1>2, <2>2, <2>3 DEF sessions
  <2>4. CASE Reaches(i) /\ Removes(g_hash[ProbeEnd(i)], ProbeEnd(i))
    BY <2>2, <2>4, RemovalIsSeen
  <2> QED
    BY <1>1, <1>5, <2>1, <2>3, <2>4, DestroyDoes
<1>6. CASE Tick
  BY <1>6 DEF Tick, TicksNow
<1>7. CASE UNCHANGED table_vars
  BY <1>2, <1>7 DEF table_vars
<1> QED
  BY <1>3, <1>4, <1>5, <1>6, <1>7 DEF TableNext

(* The refinement mapping.                                                 *)
LiveIds == {session_id[s] : s \in LiveSlots}
ValidNow == {<<session_id[s], expires_at[s]>> : s \in LiveSlots}

LEMMA IdsAre ==
  /\ Store!Alive = LiveIds
  /\ Store!IdsOf(ValidNow') = LiveIds'
<1>1. Store!Alive = {v[1] : v \in ValidNow}
  BY DEF Store!Alive, Store!IdsOf, ValidNow
<1>2. Store!IdsOf(ValidNow') = {v[1] : v \in ValidNow'}
  BY DEF Store!IdsOf
<1>3. {v[1] : v \in ValidNow} = LiveIds
  <2>1. \A s \in LiveSlots : \E v \in ValidNow : v[1] = session_id[s]
    <3> TAKE s \in LiveSlots
    <3>1. <<session_id[s], expires_at[s]>> \in ValidNow
      BY DEF ValidNow
    <3> QED
      BY <3>1
  <2>2. \A v \in ValidNow : \E s \in LiveSlots : v[1] = session_id[s]
    BY DEF ValidNow
  <2> QED
    BY <2>1, <2>2 DEF LiveIds
<1>4. {v[1] : v \in ValidNow'} = LiveIds'
  <2>1. \A s \in LiveSlots' : \E v \in ValidNow' : v[1] = session_id'[s]
    <3> TAKE s \in LiveSlots'
    <3>1. <<session_id'[s], expires_at'[s]>> \in ValidNow'
      BY DEF ValidNow
    <3> QED
      BY <3>1
  <2>2. \A v \in ValidNow' : \E s \in LiveSlots' : v[1] = session_id'[s]
    BY DEF ValidNow
  <2> QED
    BY <2>1, <2>2 DEF LiveIds
<1> QED
  BY <1>1, <1>2, <1>3, <1>4

LEMMA StoreInit == TableInit => Store!Init
<1> SUFFICES ASSUME TableInit PROVE Store!Init
  OBVIOUS
<1>1. LiveSlots = {} /\ issued = {} /\ now = 0
  BY DEF TableInit, LiveSlots
<1>2. FoundIds = {} /\ FirmIds = {}
  BY <1>1 DEF FoundIds, FirmIds
<1> QED
  BY <1>1, <1>2 DEF Store!Init

LEMMA LiveAreIssued ==
  /\ LiveIds \subseteq issued
  /\ \A j : Chained(j) => j \in LiveIds
  /\ \A s, j : Has(s, j) => j \in LiveIds
BY DEF LiveIds, LiveSlots, Chained, Has

LEMMA StoreCreates ==
  ASSUME StoreIs, StoreIs', NEW i \in Ids, CreatedNow(i)
  PROVE  Store!Create(i)
<1>1. PICK slot \in SessionSlots :
        /\ slot \notin LiveSlots /\ LiveSlots' = LiveSlots \cup {slot}
        /\ session_id'[slot] = i /\ expires_at'[slot] = now + TTL
        /\ \A s \in LiveSlots : session_id'[s] = session_id[s]
                                /\ expires_at'[s] = expires_at[s]
  BY DEF CreatedNow
<1>2. /\ i \notin issued /\ issued' = issued \cup {i} /\ now' = now
      /\ \A j \in issued : AtHome(j)' <=> AtHome(j)
      /\ Chained(i)'
  BY DEF CreatedNow
<1>3. LiveIds' = LiveIds \cup {i}
  BY <1>1 DEF LiveIds
<1>4. ValidNow' = ValidNow \cup {<<i, now + TTL>>}
  BY <1>1 DEF ValidNow
<1>5. i \notin LiveIds
  BY <1>2, LiveAreIssued
<1>6. /\ FoundIds' = {j \in issued' : Chained(j)'}
      /\ FirmIds' = {j \in issued' : AtHome(j)'}
      /\ FirmIds = {j \in issued : AtHome(j)}
  BY DEF StoreIs
<1>7. FirmIds' \in {FirmIds, FirmIds \cup {i}}
  <2>1. CASE AtHome(i)'
    BY <1>2, <1>6, <2>1
  <2>2. CASE ~AtHome(i)'
    BY <1>2, <1>6, <2>2
  <2> QED
    BY <2>1, <2>2
<1>8. FoundIds' \subseteq LiveIds \cup {i}
  <2>1. \A j : Chained(j)' => j \in LiveIds'
    BY DEF LiveIds, Chained, Has
  <2> QED
    BY <1>3, <1>6, <2>1
<1>9. i \in FoundIds'
  BY <1>2, <1>6
<1>10. issued' \ LiveIds' = issued \ LiveIds
  BY <1>2, <1>3
<1> QED
  BY <1>2, <1>4, <1>5, <1>7, <1>8, <1>9, <1>10, IdsAre
     DEF Store!Create, ValidNow, LiveIds

LEMMA StoreDestroys ==
  ASSUME OneSlotEach, StoreIs, StoreIs', NEW i \in issued, DestroyedNow(i)
  PROVE  Store!Destroy(i)
<1>1. PICK s \in LiveSlots :
        /\ session_id[s] = i /\ Chained(i)
        /\ LiveSlots' = LiveSlots \ {s}
        /\ UNCHANGED <<session_id, expires_at, issued, now>>
        /\ OthersStay(i)
  BY DEF DestroyedNow
<1>2. \A t \in LiveSlots : session_id[t] = i <=> t = s
  BY <1>1 DEF OneSlotEach, LiveSlots
<1>3. LiveIds' = LiveIds \ {i} /\ i \in LiveIds
  BY <1>1, <1>2 DEF LiveIds
<1>4. ValidNow' = {v \in ValidNow : v[1] # i}
  BY <1>1, <1>2 DEF ValidNow
<1>5. /\ FoundIds' = {j \in issued' : Chained(j)'}
      /\ FirmIds' = {j \in issued' : AtHome(j)'}
      /\ FoundIds = {j \in issued : Chained(j)}
      /\ FirmIds = {j \in issued : AtHome(j)}
  BY DEF StoreIs
<1>6. ~Chained(i)' /\ ~AtHome(i)'
  BY <1>1, <1>2 DEF Chained, AtHome, Has
<1>7. FirmIds' = FirmIds \ {i}
  BY <1>1, <1>5, <1>6 DEF OthersStay
<1>8. FoundIds' \subseteq FoundIds \ {i}
  BY <1>1, <1>5, <1>6 DEF OthersStay
<1>9. i \in FoundIds
  BY <1>1, <1>5
<1>10. issued' \ LiveIds' = (issued \ LiveIds) \cup {i}
  BY <1>1, <1>3
<1>11. FoundIds' \ FirmIds' \subseteq (FoundIds \ FirmIds) \ {i}
  BY <1>7, <1>8
<1> QED
  BY <1>1, <1>4, <1>7, <1>9, <1>10, <1>11
     DEF Store!Destroy, ValidNow, LiveIds

LEMMA StoreCleans == ASSUME StoreIs, StoreIs', Unseen PROVE Store!CleanUp
<1>1. /\ UNCHANGED <<issued, now>> /\ LiveSlots' = LiveSlots
      /\ \A s \in LiveSlots : session_id'[s] = session_id[s]
                              /\ expires_at'[s] = expires_at[s]
      /\ \A j \in issued : /\ AtHome(j)' <=> AtHome(j)
                           /\ Chained(j)' => Chained(j)
  BY DEF Unseen, SameSessions
<1>2. LiveIds' = LiveIds /\ ValidNow' = ValidNow
  BY <1>1 DEF LiveIds, ValidNow
<1>3. FirmIds' = FirmIds /\ FoundIds' \subseteq FoundIds
  BY <1>1 DEF StoreIs
<1> QED
  BY <1>1, <1>2, <1>3 DEF Store!CleanUp, ValidNow, LiveIds

LEMMA StoreTicks ==
  ASSUME TableTypeOK, OneSlotEach, StoreIs, StoreIs', TicksNow
  PROVE  Store!Tick
<1>1. /\ now' = now + 1 /\ UNCHANGED <<session_id, expires_at, g_hash, issued>>
      /\ used' = used /\ hash_id' = hash_id
  BY DEF TicksNow, sessions
<1>2. /\ now \in Int
      /\ \A s \in SessionSlots : expires_at[s] \in Int
  <2>1. now \in 0 .. MaxTime /\ expires_at \in [SessionSlots -> 0 .. MaxTime + TTL]
    BY DEF TableTypeOK
  <2> QED
    BY <2>1, TableSizes
<1>3. LiveSlots' = {s \in LiveSlots : expires_at[s] > now}
  <2>1. \A s \in SessionSlots : now + 1 <= expires_at[s] <=>
                                now <= expires_at[s] /\ expires_at[s] > now
    BY <1>2
  <2> QED
    BY <1>1, <2>1 DEF LiveSlots
<1>4. ValidNow' = {v \in ValidNow : v[2] > now}
  BY <1>1, <1>3 DEF ValidNow
<1>5. LiveIds' \subseteq LiveIds /\ LiveIds \subseteq issued
  BY <1>1, <1>3, LiveAreIssued DEF LiveIds
<1>6. \A j, s : Has(s, j) => (Has(s, j)' <=> j \in LiveIds')
  <2> TAKE j, s
  <2> HAVE Has(s, j)
  <2>1. s \in LiveSlots /\ session_id[s] = j /\ session_id' = session_id
    BY <1>1 DEF Has
  <2>2. Has(s, j)' => j \in LiveIds'
    BY DEF Has, LiveIds
  <2>3. ASSUME j \in LiveIds' PROVE Has(s, j)'
    <3>1. PICK t \in LiveSlots' : session_id[t] = j
      BY <1>1, <2>3 DEF LiveIds
    <3>2. t = s
      BY <1>3, <2>1, <3>1 DEF OneSlotEach, LiveSlots
    <3> QED
      BY <2>1, <3>1, <3>2 DEF Has
  <2> QED
    BY <2>2, <2>3
<1>7. \A j, s : Has(s, j)' => Has(s, j) /\ j \in LiveIds'
  BY <1>1, <1>3 DEF Has, LiveIds
<1>8. \A i, k : Bucket(i, k)' = Bucket(i, k)
  BY <1>1 DEF Bucket
<1>9. \A j : AtHome(j)' <=> AtHome(j) /\ j \in LiveIds'
  BY <1>1, <1>6, <1>7 DEF AtHome
<1>10. \A j : Chained(j)' <=> Chained(j) /\ j \in LiveIds'
  <2> TAKE j
  <2>1. ASSUME NEW s \in SessionSlots
        PROVE  Has(s, j)' <=> Has(s, j) /\ j \in LiveIds'
    BY <1>6, <1>7
  <2> QED
    BY <1>1, <1>8, <2>1 DEF Chained
<1>11. /\ FirmIds' = FirmIds \cap LiveIds'
       /\ FoundIds' \ FirmIds' = (FoundIds \ FirmIds) \cap LiveIds'
  BY <1>1, <1>9, <1>10 DEF StoreIs
<1>12. issued' \ LiveIds' = (issued \ LiveIds) \cup (LiveIds \ LiveIds')
  BY <1>1, <1>5
<1> QED
  BY <1>1, <1>4, <1>11, <1>12, IdsAre DEF Store!Tick, ValidNow, LiveIds

LEMMA StoreStep ==
  TableInv /\ OneSlotEach /\ StoreIs /\ StoreIs' /\ [TableNext]_table_vars
    => [Store!Next]_(Store!store_vars)
<1> SUFFICES ASSUME TableInv, OneSlotEach, StoreIs, StoreIs',
                    [TableNext]_table_vars
             PROVE  [Store!Next]_(Store!store_vars)
  OBVIOUS
<1>1. TableTypeOK /\ issued \subseteq Ids
  BY DEF TableInv, TableTypeOK
<1>2. ASSUME NEW i \in Ids, CreatedNow(i) PROVE Store!Next
  BY <1>2, StoreCreates DEF Store!Next
<1>3. ASSUME NEW i \in issued, DestroyedNow(i) PROVE Store!Next
  BY <1>1, <1>3, StoreDestroys DEF Store!Next
<1>4. Unseen => Store!Next
  BY StoreCleans DEF Store!Next
<1>5. TicksNow => Store!Next
  BY <1>1, StoreTicks DEF Store!Next
<1> QED
  BY <1>2, <1>3, <1>4, <1>5, StepIsSeen

(* What is left of the promises of session.h, for every hash function: the *)
(* table implements SessionStore.  A session at the home bucket of its id  *)
(* is found until it ends, one further on may be lost on the way, and none *)
(* is found after its end (session.c:111-148).                             *)
THEOREM TableIsStore == TableSpec => ImplementsStore
<1>1. TableInit => TableInv /\ OneSlotEach
  BY TableInvInit, OneSlotInit
<1>2. (TableInv /\ OneSlotEach) /\ [TableNext]_table_vars
        => (TableInv /\ OneSlotEach)'
  BY TableInvStep, OneSlotStep
<1>3. TableInv /\ OneSlotEach => StoreIs
  BY StoreIsSeen
<1>4. (TableInv /\ OneSlotEach) /\ StoreIs /\ StoreIs' /\ [TableNext]_table_vars
        => [Store!Next]_(Store!store_vars)
  BY StoreStep
<1>5. TableInit => Store!Init
  BY StoreInit
<1> QED
  BY <1>1, <1>2, <1>3, <1>4, <1>5, PTL DEF TableSpec, ImplementsStore, Store!Spec

=============================================================================
