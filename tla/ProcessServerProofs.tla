-------------------------- MODULE ProcessServerProofs --------------------------
(***************************************************************************)
(* Proofs about ProcessServer, for every number of files and of workers    *)
(* and every size of the queue, and, from "The server with a process for   *)
(* each connection" on, about ForkServer, for every set of connections.    *)
(* The two share no state.                                                 *)
(***************************************************************************)
EXTENDS ProcessServer, ForkServer, FiniteSetTheorems, TLAPS

LEMMA WorkersFinite ==
  /\ NumWorkers \in Nat /\ QueueSize \in Nat
  /\ IsFiniteSet(Workers) /\ Cardinality(Workers) = NumWorkers
<1>1. NumWorkers \in Nat /\ QueueSize \in Nat
  BY SizeAssumption
<1>2. /\ IsFiniteSet(1 .. NumWorkers)
      /\ Cardinality(1 .. NumWorkers) = IF 1 > NumWorkers THEN 0
                                        ELSE NumWorkers - 1 + 1
  BY <1>1, FS_Interval
<1> QED
  BY <1>1, <1>2 DEF Workers

-----------------------------------------------------------------------------
(* Type correctness.                                                       *)

LEMMA TypeInit == Init => TypeOK
<1> SUFFICES ASSUME Init PROVE TypeOK
  OBVIOUS
<1>1. queue \in Seq(Files) /\ Len(queue) <= QueueSize
  BY WorkersFinite DEF Init
<1>2. next \in 1 .. NumWorkers + 1
  BY WorkersFinite DEF Init
<1>3. /\ wpc \in [Workers -> {"none", "sem", "lock", "asleep", "serve", "failed",
                              "served", "returned"}]
      /\ file \in [Workers -> Files \cup {None}]
      /\ errors \in [Workers -> 0 .. 1]
      /\ outcome \in [Files -> {"left", "queued", "failed", "served"}]
  BY DEF Init
<1>4. /\ main = "open" /\ scanned \subseteq Files
      /\ tasks_sem \in Nat /\ total_processed \in Nat /\ total_errors \in Nat
  BY DEF Init
<1>5. done_flag \in BOOLEAN
  BY DEF Init
<1> QED
  BY <1>1, <1>2, <1>3, <1>4, <1>5 DEF TypeOK

LEMMA TypeMain == ASSUME TypeOK, MainRuns PROVE TypeOK'
<1> USE DEF TypeOK, main_vars, stats
<1>1. CASE Open
  BY <1>1 DEF Open
<1>2. CASE StopScan
  BY <1>2 DEF StopScan
<1>3. CASE SetDone
  BY <1>3 DEF SetDone
<1>4. CASE Post
  <2>1. wpc' \in [Workers -> {"none", "sem", "lock", "asleep", "serve", "failed",
                              "served", "returned"}]
    BY <1>4 DEF Post
  <2>2. tasks_sem' \in Nat
    BY <1>4, WorkersFinite DEF Post, Terminators
  <2> QED
    BY <1>4, <2>1, <2>2 DEF Post
<1>5. CASE Spawn
  <2>1. next' \in 1 .. NumWorkers + 1
    BY <1>5, WorkersFinite DEF Spawn
  <2>2. wpc' \in [Workers -> {"none", "sem", "lock", "asleep", "serve", "failed",
                              "served", "returned"}]
    BY <1>5 DEF Spawn
  <2> QED
    BY <1>5, <2>1, <2>2 DEF Spawn
<1>6. CASE StartJoin
  BY <1>6, WorkersFinite DEF StartJoin
<1>7. CASE Join
  BY <1>7, WorkersFinite DEF Join
<1>8. CASE Report
  BY <1>8 DEF Report
<1>9. CASE \E f \in Files : Enqueue(f)
  BY <1>9, WorkersFinite DEF Enqueue, Full
<1> QED
  BY <1>1, <1>2, <1>3, <1>4, <1>5, <1>6, <1>7, <1>8, <1>9 DEF MainRuns

LEMMA TypeWorker ==
  ASSUME TypeOK, NEW w \in Workers, WorkerRuns(w) PROVE TypeOK'
<1> USE DEF TypeOK, main_vars, stats
<1>1. CASE SemWait(w)
  BY <1>1 DEF SemWait
<1>2. CASE FindEmpty(w)
  BY <1>2 DEF FindEmpty
<1>3. CASE Dequeue(w)
  BY <1>3, WorkersFinite DEF Dequeue
<1>4. CASE ServeFails(w)
  BY <1>4 DEF ServeFails
<1>5. CASE Serve(w)
  BY <1>5 DEF Serve
<1>6. CASE CountFailure(w)
  BY <1>6 DEF CountFailure
<1>7. CASE Count(w)
  BY <1>7 DEF Count
<1> QED
  BY <1>1, <1>2, <1>3, <1>4, <1>5, <1>6, <1>7 DEF WorkerRuns

LEMMA TypeStep == TypeOK /\ [Next]_vars => TypeOK'
<1> SUFFICES ASSUME TypeOK, [Next]_vars PROVE TypeOK'
  OBVIOUS
<1>1. CASE MainRuns
  BY <1>1, TypeMain
<1>2. CASE \E w \in Workers : WorkerRuns(w)
  BY <1>2, TypeWorker
<1>3. CASE UNCHANGED vars
  BY <1>3 DEF TypeOK, vars, main_vars, stats
<1> QED
  BY <1>1, <1>2, <1>3 DEF Next, Stopped

(* The fields of the server keep their ranges: the queue never holds more  *)
(* than MAX_REQ_FILES paths and tasks_sem never goes below zero.           *)
THEOREM TypeCorrect == Spec => []TypeOK
BY TypeInit, TypeStep, PTL DEF Spec

-----------------------------------------------------------------------------
(* The accounting of tasks_sem.                                            *)

(* The workers that have taken a unit and no file for it (yet).            *)
Takers == {w \in Workers : wpc[w] \in {"lock", "returned"}}

Posted == main \in {"spawn", "join", "exit"}

(* Each unit of tasks_sem stands for a queued file or for a worker that    *)
(* has still to be stopped; before the units for the workers are posted    *)
(* there is no worker.                                                     *)
UnitsMatch ==
  tasks_sem + Cardinality(Takers)
    = Len(queue) + (IF Posted THEN NumWorkers ELSE 0)

NotBefore ==
  /\ ~Posted => \A w \in Workers : wpc[w] = "none"
  /\ main = "post" \/ Posted => done_flag
  /\ \A w \in Workers : wpc[w] # "asleep"

(* Worker next is created by the next iteration of the loop.               *)
NotYet ==
  /\ ~Posted => next = 1
  /\ main = "spawn" => \A w \in Workers : w >= next => wpc[w] = "none"

SemInv == UnitsMatch /\ NotBefore /\ NotYet

LEMMA TakersFinite ==
  IsFiniteSet(Takers) /\ Cardinality(Takers) \in Nat
BY WorkersFinite, FS_Subset, FS_CardinalityType DEF Takers

LEMMA SemInit == Init => SemInv
<1> SUFFICES ASSUME Init PROVE SemInv
  OBVIOUS
<1>1. Takers = {}
  BY DEF Init, Takers
<1>2. ~Posted /\ Len(queue) = 0 /\ tasks_sem = 0
  BY DEF Init, Posted
<1>3. NotBefore /\ NotYet
  BY <1>2 DEF Init, NotBefore, NotYet
<1> QED
  BY <1>1, <1>2, <1>3, FS_EmptySet DEF SemInv, UnitsMatch

(* A step that leaves the terms of the account alone.                      *)
LEMMA SemFrame ==
  ASSUME UnitsMatch, Takers' = Takers,
         UNCHANGED <<tasks_sem, queue>>, Posted' <=> Posted
  PROVE  UnitsMatch'
BY DEF UnitsMatch

LEMMA SemMain == ASSUME TypeOK, SemInv, MainRuns PROVE SemInv'
<1> USE DEF main_vars, stats
<1>1. CASE Open
  <2>1. Takers' = Takers /\ ~Posted /\ ~Posted'
    BY <1>1 DEF Open, Takers, Posted
  <2>2. UnitsMatch'
    BY <1>1, <2>1, SemFrame DEF Open, SemInv
  <2>3. NotBefore' /\ NotYet'
    BY <1>1, <2>1 DEF Open, SemInv, NotBefore, NotYet, Posted
  <2> QED
    BY <2>2, <2>3 DEF SemInv
<1>2. CASE StopScan
  <2>1. Takers' = Takers /\ ~Posted /\ ~Posted'
    BY <1>2 DEF StopScan, Takers, Posted
  <2>2. UnitsMatch'
    BY <1>2, <2>1, SemFrame DEF StopScan, SemInv
  <2>3. NotBefore' /\ NotYet'
    BY <1>2, <2>1 DEF StopScan, SemInv, NotBefore, NotYet, Posted
  <2> QED
    BY <2>2, <2>3 DEF SemInv
<1>3. CASE SetDone
  <2>1. Takers' = Takers /\ ~Posted /\ ~Posted'
    BY <1>3 DEF SetDone, Takers, Posted
  <2>2. UnitsMatch'
    BY <1>3, <2>1, SemFrame DEF SetDone, SemInv
  <2>3. NotBefore' /\ NotYet'
    BY <1>3, <2>1 DEF SetDone, SemInv, NotBefore, NotYet, Posted
  <2> QED
    BY <2>2, <2>3 DEF SemInv
<1>4. CASE Post
  <2>1. ~Posted /\ Posted' /\ done_flag'
    BY <1>4 DEF Post, Posted, SemInv, NotBefore
  <2>2. \A w \in Workers : wpc[w] = "none" /\ wpc'[w] = "none"
    BY <1>4, <2>1 DEF Post, SemInv, NotBefore
  <2>3. Takers = {} /\ Takers' = {}
    BY <2>2 DEF Takers
  <2>4. tasks_sem' = tasks_sem + NumWorkers /\ queue' = queue
    BY <1>4 DEF Post, Terminators
  <2>a. tasks_sem + Cardinality(Takers) = Len(queue) + 0
    BY <2>1 DEF UnitsMatch, SemInv
  <2>c. Cardinality(Takers) = 0 /\ Cardinality(Takers') = 0
    BY <2>3, FS_EmptySet
  <2>d. tasks_sem \in Nat /\ Len(queue) \in Nat
    BY DEF TypeOK
  <2>b. tasks_sem' + Cardinality(Takers') = Len(queue') + NumWorkers
    BY <2>4, <2>a, <2>c, <2>d, WorkersFinite
  <2>5. UnitsMatch'
    BY <2>1, <2>b DEF UnitsMatch
  <2>6. NotBefore' /\ NotYet'
    BY <2>1, <2>2 DEF NotBefore, NotYet
  <2> QED
    BY <2>5, <2>6 DEF SemInv
<1>5. CASE Spawn
  <2>a. next \in Workers /\ wpc[next] = "none"
    BY <1>5, WorkersFinite DEF Spawn, SemInv, NotYet, TypeOK, Workers
  <2>b. PICK started \in {"sem", "none"} : wpc' = [wpc EXCEPT ![next] = started]
    BY <1>5 DEF Spawn
  <2>1. Takers' = Takers
    BY <2>a, <2>b DEF Takers, TypeOK
  <2>2. Posted /\ Posted'
    BY <1>5 DEF Spawn, Posted
  <2>3. UnitsMatch'
    BY <1>5, <2>1, <2>2, SemFrame DEF Spawn, SemInv
  <2>c. \A w \in Workers : w # next => wpc'[w] = wpc[w]
    BY <2>a, <2>b DEF TypeOK
  <2>d. wpc'[next] # "asleep"
    BY <2>a, <2>b DEF TypeOK
  <2>e. NotBefore'
    BY <1>5, <2>2, <2>c, <2>d DEF Spawn, SemInv, NotBefore
  <2>f. \A w \in Workers : w >= next' => w >= next /\ w # next
    BY <1>5, WorkersFinite DEF Spawn, Workers, TypeOK
  <2>g. NotYet'
    BY <1>5, <2>2, <2>c, <2>f DEF Spawn, SemInv, NotYet
  <2>4. NotBefore' /\ NotYet'
    BY <2>e, <2>g
  <2> QED
    BY <2>3, <2>4 DEF SemInv
<1>6. CASE StartJoin \/ Join \/ Report
  <2>1. UNCHANGED <<wpc, queue, tasks_sem, done_flag>> /\ Posted /\ Posted'
    BY <1>6 DEF StartJoin, Join, Report, Posted
  <2>2. Takers' = Takers
    BY <2>1 DEF Takers
  <2>3. UnitsMatch'
    BY <2>1, <2>2, SemFrame DEF SemInv
  <2>4. NotBefore' /\ NotYet'
    BY <1>6, <2>1 DEF StartJoin, Join, Report, SemInv, NotBefore, NotYet
  <2> QED
    BY <2>3, <2>4 DEF SemInv
<1>7. ASSUME NEW f \in Files, Enqueue(f) PROVE SemInv'
  <2>1. Takers' = Takers /\ ~Posted /\ ~Posted'
    BY <1>7 DEF Enqueue, Takers, Posted
  <2>2. Len(queue') = Len(queue) + 1 /\ tasks_sem' = tasks_sem + 1
    BY <1>7 DEF Enqueue, TypeOK
  <2>a. tasks_sem + Cardinality(Takers) = Len(queue) + 0
    BY <2>1 DEF UnitsMatch, SemInv
  <2>n. tasks_sem \in Nat /\ Len(queue) \in Nat
    BY DEF TypeOK
  <2>b. tasks_sem' + Cardinality(Takers') = Len(queue') + 0
    BY <2>1, <2>2, <2>a, <2>n, TakersFinite
  <2>3. UnitsMatch'
    BY <2>1, <2>b DEF UnitsMatch
  <2>4. NotBefore' /\ NotYet'
    BY <1>7, <2>1 DEF Enqueue, SemInv, NotBefore, NotYet
  <2> QED
    BY <2>3, <2>4 DEF SemInv
<1> QED
  BY <1>1, <1>2, <1>3, <1>4, <1>5, <1>6, <1>7 DEF MainRuns

LEMMA SemWorker ==
  ASSUME TypeOK, SemInv, NEW w \in Workers, WorkerRuns(w) PROVE SemInv'
<1> USE DEF main_vars, stats
<1>1. Posted /\ done_flag /\ Posted' /\ done_flag'
  <2>1. wpc[w] # "none"
    BY DEF WorkerRuns, SemWait, FindEmpty, Dequeue, ServeFails, Serve,
           CountFailure, Count
  <2>2. UNCHANGED <<main, done_flag>>
    BY DEF WorkerRuns, SemWait, FindEmpty, Dequeue, ServeFails, Serve,
           CountFailure, Count
  <2> QED
    BY <2>1, <2>2 DEF SemInv, NotBefore, Posted
<1>2. NotBefore' /\ NotYet'
  <2>1. \A v \in Workers : wpc'[v] # "asleep"
    BY <1>1 DEF WorkerRuns, SemWait, FindEmpty, Dequeue, ServeFails, Serve,
           CountFailure, Count, SemInv, NotBefore, TypeOK
  <2>2. \A v \in Workers : wpc[v] = "none" => wpc'[v] = "none"
    BY DEF WorkerRuns, SemWait, FindEmpty, Dequeue, ServeFails, Serve,
           CountFailure, Count, TypeOK
  <2>3. UNCHANGED main_vars
    BY DEF WorkerRuns, SemWait, FindEmpty, Dequeue, ServeFails, Serve,
           CountFailure, Count
  <2> QED
    BY <1>1, <2>1, <2>2, <2>3 DEF NotBefore, NotYet, SemInv
<1>3. CASE SemWait(w)
  <2>1. Takers' = Takers \cup {w} /\ w \notin Takers
    BY <1>3 DEF SemWait, Takers, TypeOK
  <2>2. Cardinality(Takers') = Cardinality(Takers) + 1
    BY <2>1, TakersFinite, FS_AddElement
  <2>3. tasks_sem' = tasks_sem - 1 /\ queue' = queue
    BY <1>3 DEF SemWait
  <2>n. tasks_sem \in Nat /\ Len(queue) \in Nat
    BY DEF TypeOK
  <2>4. UnitsMatch'
    BY <1>1, <2>2, <2>3, <2>n, TakersFinite, WorkersFinite
       DEF UnitsMatch, SemInv
  <2> QED
    BY <1>2, <2>4 DEF SemInv
<1>4. CASE FindEmpty(w)
  <2>1. Takers' = Takers
    BY <1>1, <1>4 DEF FindEmpty, Takers, TypeOK
  <2>2. UnitsMatch'
    BY <1>1, <1>4, <2>1, SemFrame DEF FindEmpty, SemInv
  <2> QED
    BY <1>2, <2>2 DEF SemInv
<1>5. CASE Dequeue(w)
  <2>1. Takers' = Takers \ {w} /\ w \in Takers
    BY <1>5 DEF Dequeue, Takers, TypeOK
  <2>2. Cardinality(Takers') = Cardinality(Takers) - 1
    BY <2>1, TakersFinite, FS_RemoveElement
  <2>3. tasks_sem' = tasks_sem /\ Len(queue') = Len(queue) - 1
    BY <1>5 DEF Dequeue, TypeOK
  <2>n. tasks_sem \in Nat /\ Len(queue) \in Nat
    BY DEF TypeOK
  <2>4. UnitsMatch'
    BY <1>1, <2>2, <2>3, <2>n, TakersFinite, WorkersFinite
       DEF UnitsMatch, SemInv
  <2> QED
    BY <1>2, <2>4 DEF SemInv
<1>6. CASE ServeFails(w) \/ Serve(w) \/ CountFailure(w) \/ Count(w)
  <2>1. Takers' = Takers
    BY <1>6 DEF ServeFails, Serve, CountFailure, Count, Takers, TypeOK
  <2>2. UNCHANGED <<tasks_sem, queue>>
    BY <1>6 DEF ServeFails, Serve, CountFailure, Count
  <2>3. UnitsMatch'
    BY <1>1, <2>1, <2>2, SemFrame DEF SemInv
  <2> QED
    BY <1>2, <2>3 DEF SemInv
<1> QED
  BY <1>3, <1>4, <1>5, <1>6 DEF WorkerRuns

LEMMA SemStep == TypeOK /\ SemInv /\ [Next]_vars => SemInv'
<1> SUFFICES ASSUME TypeOK, SemInv, [Next]_vars PROVE SemInv'
  OBVIOUS
<1>1. CASE MainRuns
  BY <1>1, SemMain
<1>2. CASE \E w \in Workers : WorkerRuns(w)
  BY <1>2, SemWorker
<1>3. CASE UNCHANGED vars
  BY <1>3 DEF SemInv, UnitsMatch, NotBefore, NotYet, Takers, Posted, vars,
              main_vars, stats
<1> QED
  BY <1>1, <1>2, <1>3 DEF Next, Stopped

(* One worker at sem_wait is enough: the others hold at most one unit      *)
(* each, so that its own is still there.                                   *)
LEMMA SemInvImplies == TypeOK /\ SemInv => NoWorkerBlocks
<1> SUFFICES ASSUME TypeOK, SemInv, NEW w \in Workers, wpc[w] = "sem"
             PROVE  tasks_sem > 0
  BY DEF NoWorkerBlocks, SemInv, NotBefore
<1>1. Posted
  BY DEF SemInv, NotBefore
<1>2. Takers \subseteq Workers \ {w}
  BY DEF Takers
<1>3. /\ IsFiniteSet(Workers \ {w})
      /\ Cardinality(Workers \ {w}) = NumWorkers - 1
  BY WorkersFinite, FS_RemoveElement
<1>4. Cardinality(Takers) <= NumWorkers - 1
  BY <1>2, <1>3, FS_Subset
<1>5. Len(queue) \in Nat
  BY DEF TypeOK
<1> QED
  BY <1>1, <1>4, <1>5, TakersFinite, WorkersFinite
     DEF SemInv, UnitsMatch, TypeOK

(* A worker never blocks in sem_wait and never waits on queue_cond, even   *)
(* when some of the workers could not be created: the units posted for     *)
(* files and for stopping workers together always suffice.                 *)
THEOREM WorkersNeverBlock == Spec => []NoWorkerBlocks
<1>1. Init => TypeOK /\ SemInv
  BY TypeInit, SemInit
<1>2. (TypeOK /\ SemInv) /\ [Next]_vars => (TypeOK /\ SemInv)'
  BY TypeStep, SemStep
<1>3. TypeOK /\ SemInv => NoWorkerBlocks
  BY SemInvImplies
<1> QED
  BY <1>1, <1>2, <1>3, PTL DEF Spec

-----------------------------------------------------------------------------
(* The files.                                                              *)

Holding == {"serve", "failed", "served"}

(* A queued file is at one place of the queue or with one worker, and has  *)
(* no outcome yet; a file that was not scanned is left alone.              *)
Placed ==
  /\ \A w \in Workers : /\ file[w] # None <=> wpc[w] \in Holding
                        /\ wpc[w] = "serve" => outcome[file[w]] = "queued"
  /\ \A v, w \in Workers : file[v] = file[w] /\ file[v] # None => v = w
  /\ \A i \in 1 .. Len(queue) : /\ outcome[queue[i]] = "queued"
                                /\ \A w \in Workers : file[w] # queue[i]
  /\ \A i, j \in 1 .. Len(queue) : queue[i] = queue[j] => i = j
  /\ \A f \in Files : /\ outcome[f] = "left" <=> f \notin scanned
                      /\ outcome[f] = "queued" =>
                           \/ \E i \in 1 .. Len(queue) : queue[i] = f
                           \/ \E w \in Workers : wpc[w] = "serve" /\ file[w] = f

(* The files the two totals are about, and the workers that have yet to    *)
(* add theirs.                                                             *)
Answered == {f \in Files : outcome[f] \in {"faulty", "served"}}
InError == {f \in Files : outcome[f] \in {"failed", "faulty"}}
Owing == {w \in Workers : wpc[w] = "served"}
OwingError ==
  {w \in Workers : wpc[w] = "failed" \/ (wpc[w] = "served" /\ errors[w] = 1)}

(* The totals lag behind by just these workers.                            *)
Counted ==
  /\ total_processed + Cardinality(Owing) = Cardinality(Answered)
  /\ total_errors + Cardinality(OwingError) = Cardinality(InError)

(* A worker returns when the queue is empty for good, and the workers that *)
(* were joined have returned.                                              *)
Resting == {"none", "returned"}
Seen ==
  /\ (\E w \in Workers : wpc[w] = "returned") => queue = <<>>
  /\ main = "join" => \A w \in Workers : w < next => wpc[w] \in Resting
  /\ main = "exit" => \A w \in Workers : wpc[w] \in Resting

FileInv == Placed /\ Counted /\ Seen

LEMMA FilesFinite ==
  /\ IsFiniteSet(Answered) /\ Cardinality(Answered) \in Nat
  /\ IsFiniteSet(InError) /\ Cardinality(InError) \in Nat
  /\ IsFiniteSet(Owing) /\ Cardinality(Owing) \in Nat
  /\ IsFiniteSet(OwingError) /\ Cardinality(OwingError) \in Nat
<1>1. Answered \subseteq Files /\ InError \subseteq Files
  BY DEF Answered, InError
<1>2. Owing \subseteq Workers /\ OwingError \subseteq Workers
  BY DEF Owing, OwingError
<1> QED
  BY <1>1, <1>2, WorkersFinite, SizeAssumption, FS_Subset, FS_CardinalityType

LEMMA FileInit == Init => FileInv
<1> SUFFICES ASSUME Init PROVE FileInv
  OBVIOUS
<1>1. Len(queue) = 0 /\ \A i \in 1 .. Len(queue) : FALSE
  BY DEF Init
<1>2. Placed /\ Seen
  BY <1>1 DEF Init, Placed, Seen, Holding
<1>3. Answered = {} /\ InError = {} /\ Owing = {} /\ OwingError = {}
  BY DEF Init, Answered, InError, Owing, OwingError
<1>4. total_processed = 0 /\ total_errors = 0
  BY DEF Init
<1>5. Counted
  BY <1>3, <1>4, FS_EmptySet DEF Counted
<1> QED
  BY <1>2, <1>5 DEF FileInv

(* A step that leaves the files where they are, or the account as it is.   *)
SamePlaces ==
  /\ UNCHANGED <<file, outcome, scanned, queue>>
  /\ \A w \in Workers : /\ wpc'[w] \in Holding <=> wpc[w] \in Holding
                        /\ wpc'[w] = "serve" <=> wpc[w] = "serve"

SameAccount ==
  /\ UNCHANGED <<outcome, total_processed, total_errors>>
  /\ \A w \in Workers : /\ wpc'[w] = "served" <=> wpc[w] = "served"
                        /\ wpc'[w] = "failed" <=> wpc[w] = "failed"
                        /\ errors'[w] = errors[w]

LEMMA PlacedFrame == ASSUME Placed, SamePlaces PROVE Placed'
BY DEF Placed, SamePlaces

LEMMA CountedFrame == ASSUME Counted, SameAccount PROVE Counted'
<1>1. UNCHANGED <<Answered, InError, Owing, OwingError>>
  BY DEF SameAccount, Answered, InError, Owing, OwingError
<1> QED
  BY <1>1 DEF Counted, SameAccount

LEMMA FileEnqueue ==
  ASSUME TypeOK, SemInv, FileInv, NEW f \in Files, Enqueue(f)
  PROVE  FileInv'
<1> USE DEF TypeOK, FileInv
<1>1. /\ main = "scan" /\ f \notin scanned
      /\ scanned' = scanned \cup {f} /\ queue' = Append(queue, f)
      /\ outcome' = [outcome EXCEPT ![f] = "queued"]
      /\ UNCHANGED <<main, wpc, file, errors, total_processed, total_errors>>
  BY DEF Enqueue, main_vars, stats
<1>2. outcome[f] = "left"
  BY <1>1 DEF Placed
<1>3. \A w \in Workers : wpc[w] = "none" /\ file[w] = None
  BY <1>1 DEF SemInv, NotBefore, Posted, Placed, Holding
<1>4. /\ Len(queue') = Len(queue) + 1 /\ Len(queue) \in Nat
      /\ \A i \in 1 .. Len(queue') :
           queue'[i] = IF i = Len(queue) + 1 THEN f ELSE queue[i]
  BY <1>1
<1>5. \A i \in 1 .. Len(queue) : /\ queue[i] # f /\ queue[i] \in Files
                                 /\ queue'[i] = queue[i]
                                 /\ i \in 1 .. Len(queue')
  BY <1>2, <1>4 DEF Placed
<1>6. /\ Len(queue) + 1 \in 1 .. Len(queue') /\ queue'[Len(queue) + 1] = f
      /\ \A i \in 1 .. Len(queue') : i \in 1 .. Len(queue) \/ i = Len(queue) + 1
  BY <1>4
<1>7. \A g \in Files : outcome'[g] = IF g = f THEN "queued" ELSE outcome[g]
  BY <1>1
<1>8. Placed'
  <2>1. \A i \in 1 .. Len(queue') : outcome'[queue'[i]] = "queued"
    BY <1>5, <1>6, <1>7 DEF Placed
  <2>2. \A i, j \in 1 .. Len(queue') : queue'[i] = queue'[j] => i = j
    BY <1>5, <1>6 DEF Placed
  <2>3. \A g \in Files : outcome'[g] = "left" <=> g \notin scanned'
    BY <1>1, <1>7 DEF Placed
  <2>4. \A g \in Files : outcome'[g] = "queued" =>
          \E i \in 1 .. Len(queue') : queue'[i] = g
    BY <1>3, <1>5, <1>6, <1>7 DEF Placed
  <2>5. \A w \in Workers : wpc'[w] = "none" /\ file'[w] = None
    BY <1>1, <1>3
  <2>6. \A i \in 1 .. Len(queue') : queue'[i] # None
    BY <1>5, <1>6, SizeAssumption
  <2> QED
    BY <2>1, <2>2, <2>3, <2>4, <2>5, <2>6 DEF Placed, Holding
<1>9. UNCHANGED <<Answered, InError, Owing, OwingError>>
  BY <1>1, <1>2, <1>7 DEF Answered, InError, Owing, OwingError
<1>10. Counted'
  BY <1>1, <1>9 DEF Counted
<1>11. Seen'
  BY <1>1, <1>3 DEF Seen
<1> QED
  BY <1>8, <1>10, <1>11

LEMMA FileMain ==
  ASSUME TypeOK, SemInv, FileInv, MainRuns
  PROVE  FileInv'
<1> USE DEF main_vars, stats
<1>1. CASE \E f \in Files : Enqueue(f)
  BY <1>1, FileEnqueue
<1>2. CASE Post \/ Spawn
  <2>1. UNCHANGED <<file, errors, outcome, scanned, queue, total_processed,
                    total_errors>>
    BY <1>2 DEF Post, Spawn
  <2>2. \A w \in Workers :
          wpc'[w] = wpc[w] \/ (wpc[w] = "none" /\ wpc'[w] \in {"none", "sem"})
    <3>1. CASE Post
      BY <3>1 DEF Post, SemInv, NotBefore
    <3>2. CASE Spawn
      <4>1. next \in Workers /\ wpc[next] = "none"
        BY <3>2, WorkersFinite DEF Spawn, SemInv, NotYet, TypeOK, Workers
      <4> QED
        BY <3>2, <4>1 DEF Spawn, TypeOK
    <3> QED
      BY <1>2, <3>1, <3>2
  <2>3. SamePlaces /\ SameAccount
    BY <2>1, <2>2 DEF SamePlaces, SameAccount, Holding
  <2>4. Seen'
    BY <1>2, <2>1, <2>2 DEF Post, Spawn, FileInv, Seen
  <2> QED
    BY <2>3, <2>4, PlacedFrame, CountedFrame DEF FileInv
<1>3. CASE Open \/ StopScan \/ SetDone \/ StartJoin \/ Join \/ Report
  <2>1. UNCHANGED <<wpc, file, errors, outcome, scanned, queue,
                    total_processed, total_errors>>
    BY <1>3 DEF Open, StopScan, SetDone, StartJoin, Join, Report
  <2>2. SamePlaces /\ SameAccount
    BY <2>1 DEF SamePlaces, SameAccount
  <2>3. Seen'
    <3>1. (main = "join" => \A w \in Workers : w < next => wpc[w] \in Resting)'
      <4>1. CASE StartJoin
        BY <4>1 DEF StartJoin, Workers
      <4>2. CASE Join
        <5>1. /\ main = "join" /\ wpc[next] \in Resting /\ next' = next + 1
              /\ next \in Int
          BY <4>2 DEF Join, Resting, TypeOK
        <5>2. \A w \in Workers : w < next' => w < next \/ w = next
          BY <5>1, WorkersFinite DEF Workers
        <5> QED
          BY <2>1, <5>1, <5>2 DEF FileInv, Seen
      <4>3. CASE Open \/ StopScan \/ SetDone \/ Report
        BY <4>3 DEF Open, StopScan, SetDone, Report
      <4> QED
        BY <1>3, <4>1, <4>2, <4>3
    <3>2. (main = "exit" => \A w \in Workers : wpc[w] \in Resting)'
      <4>1. CASE Report
        <5>1. main = "join" /\ \A w \in Workers : w < next
          BY <4>1, WorkersFinite DEF Report, Workers, TypeOK
        <5> QED
          BY <2>1, <5>1 DEF FileInv, Seen
      <4>2. CASE Open \/ StopScan \/ SetDone \/ StartJoin \/ Join
        BY <4>2 DEF Open, StopScan, SetDone, StartJoin, Join
      <4> QED
        BY <1>3, <4>1, <4>2
    <3> QED
      BY <2>1, <3>1, <3>2 DEF FileInv, Seen
  <2> QED
    BY <2>2, <2>3, PlacedFrame, CountedFrame DEF FileInv
<1> QED
  BY <1>1, <1>2, <1>3 DEF MainRuns

(* The worker's side.  None of its steps touches another worker.           *)
LEMMA WorkerAlone ==
  ASSUME TypeOK, NEW w \in Workers, WorkerRuns(w)
  PROVE  /\ wpc[w] \notin Resting
         /\ \A v \in Workers : v # w => /\ wpc'[v] = wpc[v]
                                        /\ file'[v] = file[v]
         /\ UNCHANGED <<main, next, scanned, done_flag>>
BY DEF TypeOK, WorkerRuns, SemWait, FindEmpty, Dequeue, ServeFails, Serve,
   CountFailure, Count, Resting, main_vars

LEMMA EndedWorker ==
  ASSUME TypeOK, Seen, NEW w \in Workers, WorkerRuns(w)
  PROVE  Seen'
<1>1. \/ queue' = queue /\ (wpc'[w] = "returned" => queue = <<>>)
      \/ queue # <<>> /\ wpc'[w] # "returned"
  BY DEF TypeOK, WorkerRuns, SemWait, FindEmpty, NothingToDo, Dequeue,
     ServeFails, Serve, CountFailure, Count
<1>2. (\E v \in Workers : wpc'[v] = "returned") => queue' = <<>>
  BY <1>1, WorkerAlone DEF Seen
<1>3. (main = "join" => \A v \in Workers : v < next => wpc[v] \in Resting)'
  BY WorkerAlone DEF Seen
<1>4. (main = "exit" => \A v \in Workers : wpc[v] \in Resting)'
  BY WorkerAlone DEF Seen
<1> QED
  BY <1>2, <1>3, <1>4 DEF Seen

LEMMA FileDequeue ==
  ASSUME TypeOK, FileInv, NEW w \in Workers, Dequeue(w)
  PROVE  Placed' /\ Counted'
<1> USE DEF TypeOK, FileInv
<1>1. /\ wpc[w] = "lock" /\ queue # <<>>
      /\ file' = [file EXCEPT ![w] = queue[1]]
      /\ queue' = Tail(queue)
      /\ wpc' = [wpc EXCEPT ![w] = "serve"]
      /\ UNCHANGED <<scanned, errors, outcome, total_processed, total_errors>>
  BY DEF Dequeue, stats
<1>2. /\ Len(queue) \in Nat /\ Len(queue) > 0 /\ Len(queue') = Len(queue) - 1
      /\ \A i \in 1 .. Len(queue') : queue'[i] = queue[i + 1]
  BY <1>1
<1>3. /\ 1 \in 1 .. Len(queue)
      /\ \A i \in 1 .. Len(queue') : i + 1 \in 1 .. Len(queue) /\ i + 1 # 1
      /\ \A i \in 1 .. Len(queue) : i # 1 => /\ i - 1 \in 1 .. Len(queue')
                                             /\ queue'[i - 1] = queue[i]
  BY <1>2
<1>4. queue[1] \in Files /\ queue[1] # None
  BY <1>3, SizeAssumption
<1>5. /\ outcome[queue[1]] = "queued"
      /\ \A v \in Workers : file[v] # queue[1]
      /\ \A i \in 1 .. Len(queue') : queue'[i] # queue[1]
  BY <1>2, <1>3 DEF Placed
<1>6. /\ file[w] = None
      /\ \A v \in Workers : /\ file'[v] = IF v = w THEN queue[1] ELSE file[v]
                            /\ wpc'[v] = IF v = w THEN "serve" ELSE wpc[v]
  BY <1>1 DEF Placed, Holding
<1>7. Placed'
  <2>1. \A v \in Workers : /\ file'[v] # None <=> wpc'[v] \in Holding
                           /\ wpc'[v] = "serve" => outcome'[file'[v]] = "queued"
    BY <1>1, <1>4, <1>5, <1>6 DEF Placed, Holding
  <2>2. \A u, v \in Workers : file'[u] = file'[v] /\ file'[u] # None => u = v
    BY <1>5, <1>6 DEF Placed
  <2>3. \A i \in 1 .. Len(queue') : /\ outcome'[queue'[i]] = "queued"
                                    /\ \A v \in Workers : file'[v] # queue'[i]
    BY <1>1, <1>2, <1>3, <1>5, <1>6 DEF Placed
  <2>4. \A i, j \in 1 .. Len(queue') : queue'[i] = queue'[j] => i = j
    <3> SUFFICES ASSUME NEW i \in 1 .. Len(queue'), NEW j \in 1 .. Len(queue'),
                        queue'[i] = queue'[j]
                 PROVE  i = j
      OBVIOUS
    <3>1. queue[i + 1] = queue[j + 1]
      BY <1>2
    <3>2. i + 1 \in 1 .. Len(queue) /\ j + 1 \in 1 .. Len(queue)
      BY <1>3
    <3>3. \A a, b \in 1 .. Len(queue) : queue[a] = queue[b] => a = b
      BY DEF Placed
    <3> HIDE DEF TypeOK, FileInv
    <3>4. i + 1 = j + 1
      BY <3>1, <3>2, <3>3
    <3> QED
      BY <3>4
  <2>5. ASSUME NEW f \in Files, outcome'[f] = "queued"
        PROVE  \/ \E i \in 1 .. Len(queue') : queue'[i] = f
               \/ \E v \in Workers : wpc'[v] = "serve" /\ file'[v] = f
    <3>1. CASE \E v \in Workers : wpc[v] = "serve" /\ file[v] = f
      BY <1>1, <1>6, <3>1
    <3>2. CASE \E i \in 1 .. Len(queue) : queue[i] = f
      <4>1. PICK i \in 1 .. Len(queue) : queue[i] = f
        BY <3>2
      <4>2. CASE i = 1
        BY <1>6, <4>1, <4>2
      <4>3. CASE i # 1
        BY <1>3, <4>1, <4>3
      <4> QED
        BY <4>2, <4>3
    <3> QED
      BY <1>1, <2>5, <3>1, <3>2 DEF Placed
  <2> QED
    BY <1>1, <2>1, <2>2, <2>3, <2>4, <2>5 DEF Placed
<1>8. SameAccount
  BY <1>1, <1>6 DEF SameAccount
<1> QED
  BY <1>7, <1>8, CountedFrame

(* A file gets its outcome, and the worker has yet to count it.            *)
LEMMA FileServe ==
  ASSUME TypeOK, FileInv, NEW w \in Workers, ServeFails(w) \/ Serve(w)
  PROVE  Placed' /\ Counted'
<1> USE DEF TypeOK, FileInv
<1> DEFINE p(o) == IF o = "failed" THEN "failed" ELSE "served"
<1>1. PICK o \in {"failed", "faulty", "served"} :
        /\ outcome' = [outcome EXCEPT ![file[w]] = o]
        /\ wpc' = [wpc EXCEPT ![w] = p(o)]
        /\ o = "faulty" => errors' = [errors EXCEPT ![w] = 1]
        /\ o = "served" => errors' = [errors EXCEPT ![w] = 0]
        /\ o = "failed" => errors' = errors
  <2>1. CASE ServeFails(w)
    <3>1. /\ outcome' = [outcome EXCEPT ![file[w]] = "failed"]
          /\ wpc' = [wpc EXCEPT ![w] = p("failed")]
          /\ errors' = errors
      BY <2>1 DEF ServeFails
    <3> QED
      BY <3>1
  <2>2. CASE Serve(w)
    <3>1. PICK n \in 0 .. 1 :
            /\ errors' = [errors EXCEPT ![w] = n]
            /\ outcome' = [outcome EXCEPT ![file[w]] = IF n > 0 THEN "faulty"
                                                               ELSE "served"]
      BY <2>2 DEF Serve
    <3>2. wpc' = [wpc EXCEPT ![w] = "served"]
      BY <2>2 DEF Serve
    <3>3. CASE n = 1
      <4>1. outcome' = [outcome EXCEPT ![file[w]] = "faulty"]
        BY <3>1, <3>3
      <4> QED
        BY <3>1, <3>2, <3>3, <4>1
    <3>4. CASE n = 0
      <4>1. outcome' = [outcome EXCEPT ![file[w]] = "served"]
        BY <3>1, <3>4
      <4> QED
        BY <3>1, <3>2, <3>4, <4>1
    <3> QED
      BY <3>3, <3>4
  <2> QED
    BY <2>1, <2>2
<1>2. wpc[w] = "serve" /\ UNCHANGED <<queue, scanned, file, stats>>
  BY DEF ServeFails, Serve
<1>3. file[w] \in Files /\ outcome[file[w]] = "queued" /\ file[w] # None
  BY <1>2 DEF Placed, Holding
<1>4. /\ \A f \in Files : outcome'[f] = IF f = file[w] THEN o ELSE outcome[f]
      /\ \A v \in Workers : wpc'[v] = IF v = w THEN p(o) ELSE wpc[v]
      /\ \A v \in Workers : v # w => errors'[v] = errors[v]
      /\ o = "faulty" => errors'[w] = 1
      /\ o = "served" => errors'[w] = 0
  BY <1>1
<1>5. /\ \A v \in Workers : v # w => file[v] # file[w]
      /\ \A i \in 1 .. Len(queue) : queue[i] # file[w] /\ queue[i] \in Files
  BY <1>3 DEF Placed
<1>6. Placed'
  <2>1. \A v \in Workers : /\ file'[v] # None <=> wpc'[v] \in Holding
                           /\ wpc'[v] = "serve" => outcome'[file'[v]] = "queued"
    <3>1. \A v \in Workers : wpc'[v] = "serve" => v # w /\ file[v] \in Files
      BY <1>4 DEF Placed, Holding
    <3> QED
      BY <1>2, <1>3, <1>4, <1>5, <3>1 DEF Placed, Holding
  <2>2. /\ \A u, v \in Workers : file'[u] = file'[v] /\ file'[u] # None => u = v
        /\ \A i, j \in 1 .. Len(queue') : queue'[i] = queue'[j] => i = j
    BY <1>2 DEF Placed
  <2>3. \A i \in 1 .. Len(queue') : /\ outcome'[queue'[i]] = "queued"
                                    /\ \A v \in Workers : file'[v] # queue'[i]
    BY <1>2, <1>4, <1>5 DEF Placed
  <2>4. \A f \in Files : outcome'[f] = "left" <=> f \notin scanned'
    BY <1>2, <1>3, <1>4 DEF Placed
  <2>5. \A f \in Files : outcome'[f] = "queued" =>
          \/ \E i \in 1 .. Len(queue') : queue'[i] = f
          \/ \E v \in Workers : wpc'[v] = "serve" /\ file'[v] = f
    BY <1>2, <1>4 DEF Placed
  <2> QED
    BY <2>1, <2>2, <2>3, <2>4, <2>5 DEF Placed
<1>7. /\ file[w] \notin Answered /\ file[w] \notin InError
      /\ w \notin Owing /\ w \notin OwingError
  BY <1>2, <1>3 DEF Answered, InError, Owing, OwingError
<1>8. /\ Answered' = IF o = "failed" THEN Answered ELSE Answered \cup {file[w]}
      /\ Owing' = IF o = "failed" THEN Owing ELSE Owing \cup {w}
  BY <1>2, <1>3, <1>4 DEF Answered, Owing
<1>9. /\ InError' = IF o = "served" THEN InError ELSE InError \cup {file[w]}
      /\ OwingError' = IF o = "served" THEN OwingError ELSE OwingError \cup {w}
  <2>1. InError' = IF o = "served" THEN InError ELSE InError \cup {file[w]}
    BY <1>3, <1>4 DEF InError
  <2>2. \A v \in Workers :
          (wpc'[v] = "failed" \/ (wpc'[v] = "served" /\ errors'[v] = 1))
            <=> IF v = w THEN o # "served"
                ELSE wpc[v] = "failed" \/ (wpc[v] = "served" /\ errors[v] = 1)
    BY <1>4
  <2>3. OwingError' = IF o = "served" THEN OwingError ELSE OwingError \cup {w}
    BY <1>2, <2>2 DEF OwingError
  <2> QED
    BY <2>1, <2>3
<1>10. Counted'
  <2> DEFINE a == IF o = "failed" THEN 0 ELSE 1
             e == IF o = "served" THEN 0 ELSE 1
  <2>1. UNCHANGED <<total_processed, total_errors>>
    BY <1>2 DEF stats
  <2>2. /\ Cardinality(Answered \cup {file[w]}) = Cardinality(Answered) + 1
        /\ Cardinality(InError \cup {file[w]}) = Cardinality(InError) + 1
        /\ Cardinality(Owing \cup {w}) = Cardinality(Owing) + 1
        /\ Cardinality(OwingError \cup {w}) = Cardinality(OwingError) + 1
    <3> HIDE DEF TypeOK, FileInv
    <3> QED
      BY <1>7, FilesFinite, FS_AddElement
  <2>3. /\ Cardinality(Answered') = Cardinality(Answered) + a
        /\ Cardinality(Owing') = Cardinality(Owing) + a
    <3>1. CASE o = "failed"
      BY <1>8, <3>1, FilesFinite
    <3>2. CASE o # "failed"
      BY <1>8, <2>2, <3>2
    <3> QED
      BY <3>1, <3>2
  <2>4. /\ Cardinality(InError') = Cardinality(InError) + e
        /\ Cardinality(OwingError') = Cardinality(OwingError) + e
    <3>1. CASE o = "served"
      BY <1>9, <3>1, FilesFinite
    <3>2. CASE o # "served"
      BY <1>9, <2>2, <3>2
    <3> QED
      BY <3>1, <3>2
  <2>5. a \in Nat /\ e \in Nat
    OBVIOUS
  <2> HIDE DEF a, e
  <2> QED
    BY <2>1, <2>3, <2>4, <2>5, FilesFinite DEF Counted
<1> QED
  BY <1>6, <1>10

LEMMA FileCount ==
  ASSUME TypeOK, FileInv, NEW w \in Workers, CountFailure(w) \/ Count(w)
  PROVE  Placed' /\ Counted'
<1> USE DEF TypeOK, FileInv
<1>1. PICK o \in {"failed", "served"} :
        /\ wpc[w] = o
        /\ o = "failed" => /\ total_errors' = total_errors + 1
                           /\ total_processed' = total_processed
                           /\ errors' = errors
        /\ o = "served" => /\ total_errors' = total_errors + errors[w]
                           /\ total_processed' = total_processed + 1
                           /\ errors' = [errors EXCEPT ![w] = 0]
  BY DEF CountFailure, Count
<1>2. /\ file' = [file EXCEPT ![w] = None]
      /\ wpc' = [wpc EXCEPT ![w] = "sem"]
      /\ UNCHANGED <<queue, scanned, outcome>>
  BY DEF CountFailure, Count
<1>3. \A v \in Workers : /\ file'[v] = IF v = w THEN None ELSE file[v]
                         /\ wpc'[v] = IF v = w THEN "sem" ELSE wpc[v]
  BY <1>2
<1>4. \A i \in 1 .. Len(queue) : queue[i] # None
  BY SizeAssumption
<1>5. Placed'
  BY <1>1, <1>2, <1>3, <1>4 DEF Placed, Holding
<1>6. UNCHANGED <<Answered, InError>>
  BY <1>2 DEF Answered, InError
<1>7. \A v \in Workers : v # w => errors'[v] = errors[v]
  BY <1>1
<1>8. /\ Owing' = Owing \ {w} /\ OwingError' = OwingError \ {w}
      /\ w \in Owing <=> o = "served"
      /\ w \in OwingError <=> o = "failed" \/ errors[w] = 1
  BY <1>1, <1>3, <1>7 DEF Owing, OwingError
<1>9. Counted'
  <2>1. /\ Cardinality(Owing \ {w})
             = IF w \in Owing THEN Cardinality(Owing) - 1 ELSE Cardinality(Owing)
        /\ Cardinality(OwingError \ {w})
             = IF w \in OwingError THEN Cardinality(OwingError) - 1
                                   ELSE Cardinality(OwingError)
    <3> HIDE DEF TypeOK, FileInv
    <3> QED
      BY FilesFinite, FS_RemoveElement
  <2>2. total_processed' = total_processed + (IF o = "served" THEN 1 ELSE 0)
    BY <1>1
  <2>3. (total_processed + Cardinality(Owing) = Cardinality(Answered))'
    BY <1>6, <1>8, <2>1, <2>2, FilesFinite DEF Counted
  <2>4. errors[w] \in {0, 1} /\ total_errors \in Nat
    OBVIOUS
  <2>5. total_errors'
          = total_errors + (IF o = "failed" \/ errors[w] = 1 THEN 1 ELSE 0)
    BY <1>1, <2>4
  <2>6. (total_errors + Cardinality(OwingError) = Cardinality(InError))'
    BY <1>6, <1>8, <2>1, <2>4, <2>5, FilesFinite DEF Counted
  <2> QED
    BY <2>3, <2>6 DEF Counted
<1> QED
  BY <1>5, <1>9

LEMMA FileWorker ==
  ASSUME TypeOK, FileInv, NEW w \in Workers, WorkerRuns(w)
  PROVE  FileInv'
<1>1. Seen'
  BY EndedWorker DEF FileInv
<1>2. CASE SemWait(w) \/ FindEmpty(w)
  <2>1. SamePlaces
    BY <1>2 DEF TypeOK, SemWait, FindEmpty, SamePlaces, Holding
  <2>2. SameAccount
    BY <1>2 DEF TypeOK, SemWait, FindEmpty, SameAccount, stats
  <2> QED
    BY <1>1, <2>1, <2>2, PlacedFrame, CountedFrame DEF FileInv
<1>3. CASE Dequeue(w)
  BY <1>1, <1>3, FileDequeue DEF FileInv
<1>4. CASE ServeFails(w) \/ Serve(w)
  BY <1>1, <1>4, FileServe DEF FileInv
<1>5. CASE CountFailure(w) \/ Count(w)
  BY <1>1, <1>5, FileCount DEF FileInv
<1> QED
  BY <1>2, <1>3, <1>4, <1>5 DEF WorkerRuns

LEMMA FileStep == TypeOK /\ SemInv /\ FileInv /\ [Next]_vars => FileInv'
<1>1. ASSUME FileInv, UNCHANGED vars PROVE FileInv'
  <2>1. SamePlaces /\ SameAccount /\ UNCHANGED <<main, next, wpc, queue>>
    BY <1>1 DEF vars, main_vars, stats, SamePlaces, SameAccount
  <2> QED
    BY <1>1, <2>1, PlacedFrame, CountedFrame DEF FileInv, Seen
<1> QED
  BY <1>1, FileMain, FileWorker DEF Next, Stopped

(* At the end of process_server_run every queued file has been taken by    *)
(* one worker and is answered or failed, and both totals are equal to what *)
(* became of the files, for any number of workers of which at least one    *)
(* could be created.                                                       *)
THEOREM ReportCorrect == Spec => []ReportIsComplete
<1>1. TypeOK /\ FileInv => ReportIsComplete
  <2> SUFFICES ASSUME TypeOK, FileInv, main = "exit",
                      NEW w \in Workers, wpc[w] # "none"
               PROVE  /\ queue = <<>>
                      /\ \A f \in scanned :
                           outcome[f] \in {"failed", "faulty", "served"}
                      /\ total_processed = Cardinality(Answered)
                      /\ total_errors = Cardinality(InError)
    BY DEF ReportIsComplete, Answered, InError
  <2>1. \A v \in Workers : wpc[v] \in Resting
    BY DEF FileInv, Seen
  <2>2. queue = <<>>
    BY <2>1 DEF FileInv, Seen, Resting
  <2>3. \A f \in scanned : outcome[f] \in {"failed", "faulty", "served"}
    <3>1. \A i \in 1 .. Len(queue) : FALSE
      BY <2>2
    <3> QED
      BY <2>1, <3>1 DEF FileInv, Placed, Resting, TypeOK
  <2>4. Owing = {} /\ OwingError = {}
    BY <2>1 DEF Owing, OwingError, Resting
  <2> QED
    BY <2>2, <2>3, <2>4, FS_EmptySet, FilesFinite
       DEF FileInv, Counted, TypeOK
<1> QED
  BY TypeInit, TypeStep, SemInit, SemStep, FileInit, FileStep, <1>1, PTL DEF Spec

-----------------------------------------------------------------------------
(* The server with a process for each connection.                          *)

(* What is in the parent's hands, and that a connection has a child only   *)
(* after it was accepted.                                                  *)
ForkControl ==
  /\ (conn_fd # NoFd) = (pc \in {"fork", "close"})
  /\ pc = "fork" => child[conn_fd] = "none" /\ net[conn_fd] = "accepted"
  /\ \A c \in Conns : net[c] # "accepted" => child[c] = "none"
  /\ pc = "start" => \A c \in Conns : child[c] = "none"

ForkInv == ForkTypeOK /\ ForkControl /\ CopiesAreClosed

LEMMA ForkedIsFinite == IsFiniteSet(Forked) /\ Cardinality(Forked) \in Nat
<1>1. IsFiniteSet(Forked)
  BY ConnAssumption, FS_Subset DEF Forked
<1> QED
  BY <1>1, FS_CardinalityType

(* A step that makes no child leaves the count of them.                    *)
LEMMA NoNewChild ==
  ASSUME \A c \in Conns : (child[c] = "none") = (child'[c] = "none")
  PROVE  Forked' = Forked
BY DEF Forked

LEMMA ForkInitOK == ForkInit => ForkInv
<1> SUFFICES ASSUME ForkInit PROVE ForkInv
  OBVIOUS
<1>1. ForkTypeOK
  BY DEF ForkInit, ForkTypeOK
<1>2. ForkControl
  BY DEF ForkInit, ForkControl
<1>3. Forked = {}
  BY DEF ForkInit, Forked
<1>4. Cardinality(Forked) = 0
  BY <1>3, FS_EmptySet
<1>5. CopiesAreClosed
  BY <1>4 DEF ForkInit, CopiesAreClosed, Running
<1> QED
  BY <1>1, <1>2, <1>5 DEF ForkInv

(* Where a handler returns to is no place where a connection is held.      *)
LEMMA HandlerReturns ==
  ASSUME ForkInv, NEW label \in {"accept", "grace"}, Interrupted(label),
         UNCHANGED <<net, descriptors, conn_fd, clients_served, slept>>,
         child' \in [Conns -> {"none", "forked", "handle", "zombie", "gone"}],
         \A c \in Conns : child'[c] = child[c]
                          \/ (child[c] = "zombie" /\ child'[c] = "gone"),
         sigchld' \in BOOLEAN, g_shutdown' \in BOOLEAN
  PROVE  ForkInv'
<1>1. ForkTypeOK'
  BY DEF ForkInv, ForkTypeOK, Interrupted, descriptors
<1>2. ForkControl'
  BY DEF ForkInv, ForkTypeOK, ForkControl, Interrupted
<1>3. Forked' = Forked /\ Running' = Running
  BY DEF Forked, Running
<1>4. {c \in Conns : child'[c] = "forked"} = {c \in Conns : child[c] = "forked"}
  OBVIOUS
<1>5. CopiesAreClosed'
  BY <1>3, <1>4 DEF ForkInv, CopiesAreClosed, Interrupted, descriptors
<1> QED
  BY <1>1, <1>2, <1>5 DEF ForkInv

LEMMA ForkStepOK == ForkInv /\ [ForkNext]_fork_vars => ForkInv'
<1> SUFFICES ASSUME ForkInv, [ForkNext]_fork_vars PROVE ForkInv'
  OBVIOUS
<1> USE DEF ForkInv
<1>1. CASE UNCHANGED fork_vars
  <2>1. ForkTypeOK' /\ ForkControl'
    BY <1>1 DEF fork_vars, descriptors, ForkTypeOK, ForkControl
  <2>2. CopiesAreClosed'
    BY <1>1 DEF fork_vars, descriptors, CopiesAreClosed, Forked, Running
  <2> QED
    BY <2>1, <2>2
<1>2. ASSUME NEW c \in Conns, Connect(c) PROVE ForkInv'
  <2>1. ForkTypeOK' /\ ForkControl'
    BY <1>2 DEF Connect, descriptors, ForkTypeOK, ForkControl
  <2>2. CopiesAreClosed'
    BY <1>2 DEF Connect, descriptors, CopiesAreClosed, Forked, Running
  <2> QED
    BY <2>1, <2>2
<1>3. CASE Interrupt
  BY <1>3, HandlerReturns DEF Interrupt, ForkTypeOK
<1>4. CASE Sigchld
  <2>1. Loop \in {"accept", "grace"}
    BY DEF Loop
  <2>2. /\ child' \in [Conns -> {"none", "forked", "handle", "zombie", "gone"}]
        /\ \A c \in Conns : child'[c] = child[c]
                            \/ (child[c] = "zombie" /\ child'[c] = "gone")
    BY <1>4 DEF Sigchld, ReapAll, Reaped, Zombies, ForkTypeOK
  <2>3. g_shutdown' \in BOOLEAN
    BY <1>4 DEF Sigchld, ForkTypeOK
  <2> QED
    BY <1>4, <2>1, <2>2, <2>3, HandlerReturns DEF Sigchld
<1>5. CASE Start
  <2>1. ForkTypeOK' /\ ForkControl'
    BY <1>5 DEF Start, Loop, ForkTypeOK, ForkControl
  <2>2. {c \in Conns : child[c] = "forked"} = {} /\ listening = {}
    BY <1>5 DEF Start, ForkControl, CopiesAreClosed
  <2>3. CopiesAreClosed'
    BY <1>5, <2>2 DEF Start, Loop, CopiesAreClosed, ForkControl, Forked, Running
  <2> QED
    BY <2>1, <2>3
<1>6. ASSUME NEW c \in Conns, Accept(c) PROVE ForkInv'
  <2>0. c # NoFd
    BY ConnAssumption
  <2>1. ForkTypeOK'
    BY <1>6 DEF Accept, ForkTypeOK
  <2>2. ForkControl'
    BY <1>6, <2>0 DEF Accept, Queued, ForkTypeOK, ForkControl
  <2>3. CopiesAreClosed'
    BY <1>6, <2>0 DEF Accept, CopiesAreClosed, ForkControl, Forked, Running
  <2> QED
    BY <2>1, <2>2, <2>3
<1>7. CASE AcceptFails
  <2>1. ForkTypeOK' /\ ForkControl'
    BY <1>7 DEF AcceptFails, descriptors, ForkTypeOK, ForkControl
  <2>2. CopiesAreClosed'
    BY <1>7 DEF AcceptFails, descriptors, CopiesAreClosed, Forked, Running
  <2> QED
    BY <2>1, <2>2
<1>8. CASE Fork
  <2>1. conn_fd \in Conns /\ child[conn_fd] = "none" /\ net[conn_fd] = "accepted"
    BY <1>8 DEF Fork, ForkControl, ForkTypeOK
  <2>2. ForkTypeOK' /\ ForkControl'
    BY <1>8, <2>1 DEF Fork, ForkTypeOK, ForkControl
  <2>3. Forked' = Forked \cup {conn_fd} /\ conn_fd \notin Forked
    BY <1>8, <2>1 DEF Fork, Forked, ForkTypeOK
  <2>4. Cardinality(Forked') = Cardinality(Forked) + 1
    BY <2>3, ForkedIsFinite, FS_AddElement
  <2>5. Running' = Running \cup {conn_fd}
    BY <1>8, <2>1 DEF Fork, Running, ForkTypeOK
  <2>6. {c \in Conns : child'[c] = "forked"}
          = {c \in Conns : child[c] = "forked"} \cup {conn_fd}
    BY <1>8, <2>1 DEF Fork, ForkTypeOK
  <2>7. clients_served' + 1 = Cardinality(Forked')
    <3>1. clients_served = Cardinality(Forked) /\ clients_served' = clients_served
      BY <1>8, ForkedIsFinite DEF Fork, CopiesAreClosed, ForkTypeOK
    <3> QED
      BY <2>4, <3>1
  <2>8. conn_fd # "parent" /\ pc = "fork" /\ pc' = "close"
    BY <1>8, <2>1, ConnAssumption DEF Fork
  <2>9. listening' \ {"parent"} = {c \in Conns : child'[c] = "forked"}
    BY <1>8, <2>6, <2>8 DEF Fork, CopiesAreClosed
  <2>10. CopiesAreClosed'
    BY <1>8, <2>5, <2>7, <2>8, <2>9 DEF Fork, CopiesAreClosed
  <2> QED
    BY <2>2, <2>10
<1>9. CASE ForkFails
  <2>1. ForkTypeOK' /\ ForkControl'
    BY <1>9 DEF ForkFails, Loop, ForkTypeOK, ForkControl
  <2>2. CopiesAreClosed'
    BY <1>9 DEF ForkFails, Loop, CopiesAreClosed, Forked, Running
  <2> QED
    BY <2>1, <2>2
<1>10. CASE CloseCopy
  <2>1. ForkTypeOK' /\ ForkControl'
    BY <1>10 DEF CloseCopy, Loop, ForkTypeOK, ForkControl
  <2>2. clients_served' = clients_served + 1 /\ Cardinality(Forked') = clients_served + 1
    BY <1>10, ForkedIsFinite DEF CloseCopy, CopiesAreClosed, Forked
  <2>3. clients_served' + 0 = Cardinality(Forked')
    BY <2>2 DEF ForkTypeOK
  <2>4. CopiesAreClosed'
    BY <1>10, <2>3 DEF CloseCopy, Loop, CopiesAreClosed, Running
  <2> QED
    BY <2>1, <2>4
<1>11. CASE GraceOver
  <2>1. ForkTypeOK' /\ ForkControl'
    BY <1>11 DEF GraceOver, descriptors, ForkTypeOK, ForkControl
  <2>2. CopiesAreClosed'
    BY <1>11 DEF GraceOver, descriptors, CopiesAreClosed, Forked, Running
  <2> QED
    BY <2>1, <2>2
<1>12. CASE Finish
  <2>1. /\ child' \in [Conns -> {"none", "forked", "handle", "zombie", "gone"}]
        /\ \A c \in Conns : child'[c] = child[c]
                            \/ (child[c] = "zombie" /\ child'[c] = "gone")
    BY <1>12 DEF Finish, ReapAll, Reaped, Zombies, ForkTypeOK
  <2>2. ForkTypeOK' /\ ForkControl'
    BY <1>12, <2>1 DEF Finish, ForkTypeOK, ForkControl
  <2>3. Forked' = Forked /\ Running' = Running
    BY <2>1 DEF Forked, Running
  <2>4. {c \in Conns : child'[c] = "forked"} = {c \in Conns : child[c] = "forked"}
    BY <2>1
  <2>5. CopiesAreClosed'
    BY <1>12, <2>3, <2>4 DEF Finish, CopiesAreClosed, ForkControl
  <2> QED
    BY <2>2, <2>5
<1>13. ASSUME NEW c \in Conns, ChildStarts(c) PROVE ForkInv'
  <2>1. ForkTypeOK' /\ ForkControl'
    BY <1>13 DEF ChildStarts, ForkTypeOK, ForkControl
  <2>2. Forked' = Forked /\ Running' = Running
    BY <1>13 DEF ChildStarts, Forked, Running, ForkTypeOK
  <2>3. {d \in Conns : child'[d] = "forked"} = {d \in Conns : child[d] = "forked"} \ {c}
    BY <1>13 DEF ChildStarts, ForkTypeOK
  <2>4. c # "parent"
    BY ConnAssumption
  <2>5. CopiesAreClosed'
    BY <1>13, <2>2, <2>3, <2>4 DEF ChildStarts, CopiesAreClosed
  <2> QED
    BY <2>1, <2>5
<1>14. ASSUME NEW c \in Running, Exits(c), shut' \subseteq Conns PROVE ForkInv'
  <2>1. c \in Conns /\ child[c] \in {"forked", "handle"} /\ c # "parent"
    BY ConnAssumption DEF Running
  <2>2. ForkTypeOK' /\ ForkControl'
    BY <1>14, <2>1 DEF Exits, ForkTypeOK, ForkControl
  <2>3. Forked' = Forked /\ Running' = Running \ {c}
    BY <1>14, <2>1 DEF Exits, Forked, Running, ForkTypeOK
  <2>4. {d \in Conns : child'[d] = "forked"} = {d \in Conns : child[d] = "forked"} \ {c}
    BY <1>14, <2>1 DEF Exits, ForkTypeOK
  <2>5. CopiesAreClosed'
    BY <1>14, <2>1, <2>3, <2>4 DEF Exits, CopiesAreClosed
  <2> QED
    BY <2>2, <2>5
<1>15. ASSUME NEW c \in Conns, ChildEnds(c) PROVE ForkInv'
  BY <1>14, <1>15 DEF ChildEnds, Running, ForkTypeOK
<1>16. ASSUME NEW c \in Conns, ChildDies(c) PROVE ForkInv'
  BY <1>14, <1>16 DEF ChildDies, ForkTypeOK
<1> QED
  BY <1>1, <1>2, <1>3, <1>4, <1>5, <1>6, <1>7, <1>8, <1>9, <1>10, <1>11, <1>12,
     <1>13, <1>15, <1>16 DEF ForkNext, ParentRuns, ChildRuns, Over

LEMMA ForkInvariance == ForkSpec => []ForkInv
BY ForkInitOK, ForkStepOK, PTL DEF ForkSpec

(* The variables keep their types.                                         *)
THEOREM ForkTypeCorrect == ForkSpec => []ForkTypeOK
<1>1. ForkInv => ForkTypeOK
  BY DEF ForkInv
<1> QED
  BY <1>1, ForkInvariance, PTL

(* Every copy of every descriptor is closed by the process that holds it,  *)
(* whoever runs first, and the children are counted once                   *)
(* (tcp_fork_server.c:231).                                                *)
THEOREM CopiesClosed == ForkSpec => []CopiesAreClosed
<1>1. ForkInv => CopiesAreClosed
  BY DEF ForkInv
<1> QED
  BY <1>1, ForkInvariance, PTL

=============================================================================
