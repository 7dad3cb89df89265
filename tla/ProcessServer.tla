---------------------------- MODULE ProcessServer ----------------------------
(***************************************************************************)
(* process_server_run and its workers (src/process_server.c): the main     *)
(* thread queues the request files it finds, posts one unit of tasks_sem   *)
(* for each and one more for each worker as its order to stop, creates the *)
(* workers and joins them.                                                 *)
(*                                                                         *)
(* The ring request_queue is filled once, before it is emptied: it is a    *)
(* sequence here.  The critical sections of queue_mutex and stats_mutex    *)
(* are one action each.  pthread_cond_signal is left out while files are   *)
(* queued: no worker exists yet.                                           *)
(***************************************************************************)
EXTENDS Integers, Sequences, FiniteSets

CONSTANTS
  Files,        \* the *.req files of the directory requests
  QueueSize,    \* MAX_REQ_FILES
  NumWorkers,   \* NUM_WORKERS
  None

ASSUME SizeAssumption ==
  /\ QueueSize \in Nat
  /\ NumWorkers \in Nat
  /\ None \notin Files
  /\ IsFiniteSet(Files)

Workers == 1 .. NumWorkers

VARIABLES
  main, next,                   \* control of the main thread, its loop index
  queue,
  scanned,                      \* the files readdir has returned
  tasks_sem, done_flag,
  wpc, file, errors,            \* workers: control, current file, its errors
  outcome,                      \* what became of each file (ghost)
  total_processed, total_errors

main_vars == <<main, next>>
stats == <<total_processed, total_errors>>
vars == <<main_vars, queue, scanned, tasks_sem, done_flag, wpc, file, errors,
          outcome, stats>>

Init ==
  /\ main = "open" /\ next = 1
  /\ queue = <<>> /\ scanned = {}
  /\ tasks_sem = 0 /\ done_flag = FALSE
  /\ wpc = [w \in Workers |-> "none"]
  /\ file = [w \in Workers |-> None]
  /\ errors = [w \in Workers |-> 0]
  /\ outcome = [f \in Files |-> "left"]
  /\ total_processed = 0 /\ total_errors = 0

-----------------------------------------------------------------------------
(* The main thread.                                                        *)

(* mkdir, the primitives and opendir: any of them can fail.                *)
Open ==
  /\ main = "open"
  /\ main' \in {"scan", "failed"}
  /\ UNCHANGED <<next, queue, scanned, tasks_sem, done_flag, wpc, file, errors,
                 outcome, stats>>

Full == Len(queue) >= QueueSize

Enqueue(f) ==
  /\ main = "scan" /\ f \notin scanned
  /\ ~Full
  /\ scanned' = scanned \cup {f}
  /\ queue' = Append(queue, f)
  /\ tasks_sem' = tasks_sem + 1
  /\ outcome' = [outcome EXCEPT ![f] = "queued"]
  /\ UNCHANGED <<main_vars, done_flag, wpc, file, errors, stats>>

(* The directory is read, or the queue is full: the rest is left.          *)
StopScan ==
  /\ main = "scan"
  /\ scanned = Files \/ Full
  /\ main' = "done"
  /\ UNCHANGED <<next, queue, scanned, tasks_sem, done_flag, wpc, file, errors,
                 outcome, stats>>

SetDone ==
  /\ main = "done"
  /\ done_flag' = TRUE
  /\ main' = "post"
  /\ UNCHANGED <<next, queue, scanned, tasks_sem, wpc, file, errors, outcome,
                 stats>>

OneTerminator == 1
Terminators == NumWorkers

(* One unit for each worker, and a broadcast.                              *)
Post ==
  /\ main = "post"
  /\ tasks_sem' = tasks_sem + Terminators
  /\ wpc' = [w \in Workers |-> IF wpc[w] = "asleep" THEN "lock" ELSE wpc[w]]
  /\ main' = "spawn"
  /\ UNCHANGED <<next, queue, scanned, done_flag, file, errors, outcome, stats>>

(* malloc or pthread_create may fail: the loop goes on with the next one.  *)
Spawn ==
  /\ main = "spawn" /\ next <= NumWorkers
  /\ \E started \in {"sem", "none"} : wpc' = [wpc EXCEPT ![next] = started]
  /\ next' = next + 1
  /\ UNCHANGED <<main, queue, scanned, tasks_sem, done_flag, file, errors,
                 outcome, stats>>

StartJoin ==
  /\ main = "spawn" /\ next > NumWorkers
  /\ main' = "join" /\ next' = 1
  /\ UNCHANGED <<queue, scanned, tasks_sem, done_flag, wpc, file, errors,
                 outcome, stats>>

(* pthread_join of the workers that were created, in their order.          *)
Join ==
  /\ main = "join" /\ next <= NumWorkers
  /\ wpc[next] \in {"none", "returned"}
  /\ next' = next + 1
  /\ UNCHANGED <<main, queue, scanned, tasks_sem, done_flag, wpc, file, errors,
                 outcome, stats>>

(* The statistics, and return 0.                                           *)
Report ==
  /\ main = "join" /\ next > NumWorkers
  /\ main' = "exit"
  /\ UNCHANGED <<next, queue, scanned, tasks_sem, done_flag, wpc, file, errors,
                 outcome, stats>>

-----------------------------------------------------------------------------
(* worker_thread_func                                                      *)

SemWait(w) ==
  /\ wpc[w] = "sem"
  /\ tasks_sem > 0
  /\ tasks_sem' = tasks_sem - 1
  /\ wpc' = [wpc EXCEPT ![w] = "lock"]
  /\ UNCHANGED <<main_vars, queue, scanned, done_flag, file, errors, outcome,
                 stats>>

NothingToDoOnceDone == done_flag \/ queue = <<>>
NothingToDo == queue = <<>>

(* Leave, or pthread_cond_wait.                                            *)
FindEmpty(w) ==
  /\ wpc[w] = "lock"
  /\ NothingToDo
  /\ wpc' = [wpc EXCEPT ![w] = IF done_flag THEN "returned" ELSE "asleep"]
  /\ UNCHANGED <<main_vars, queue, scanned, tasks_sem, done_flag, file, errors,
                 outcome, stats>>

Dequeue(w) ==
  /\ wpc[w] = "lock"
  /\ queue # <<>>
  /\ file' = [file EXCEPT ![w] = Head(queue)]
  /\ queue' = Tail(queue)
  /\ wpc' = [wpc EXCEPT ![w] = "serve"]
  /\ UNCHANGED <<main_vars, scanned, tasks_sem, done_flag, errors, outcome,
                 stats>>

(* strdup, the request file or the output file fails.                      *)
ServeFails(w) ==
  /\ wpc[w] = "serve"
  /\ outcome' = [outcome EXCEPT ![file[w]] = "failed"]
  /\ wpc' = [wpc EXCEPT ![w] = "failed"]
  /\ UNCHANGED <<main_vars, queue, scanned, tasks_sem, done_flag, file, errors,
                 stats>>

(* The file is answered line by line; request_handler_process fails for    *)
(* some lines (one at most here), which makes the file faulty.             *)
Serve(w) ==
  /\ wpc[w] = "serve"
  /\ \E n \in 0 .. 1 :
       /\ errors' = [errors EXCEPT ![w] = n]
       /\ outcome' = [outcome EXCEPT ![file[w]] = IF n > 0 THEN "faulty"
                                                           ELSE "served"]
  /\ wpc' = [wpc EXCEPT ![w] = "served"]
  /\ UNCHANGED <<main_vars, queue, scanned, tasks_sem, done_flag, file, stats>>

(* Under stats_mutex.                                                      *)
CountFailure(w) ==
  /\ wpc[w] = "failed"
  /\ total_errors' = total_errors + 1
  /\ file' = [file EXCEPT ![w] = None]
  /\ wpc' = [wpc EXCEPT ![w] = "sem"]
  /\ UNCHANGED <<main_vars, queue, scanned, tasks_sem, done_flag, errors,
                 outcome, total_processed>>

Count(w) ==
  /\ wpc[w] = "served"
  /\ total_processed' = total_processed + 1
  /\ total_errors' = total_errors + errors[w]
  /\ errors' = [errors EXCEPT ![w] = 0]
  /\ file' = [file EXCEPT ![w] = None]
  /\ wpc' = [wpc EXCEPT ![w] = "sem"]
  /\ UNCHANGED <<main_vars, queue, scanned, tasks_sem, done_flag, outcome>>

Stopped == main \in {"exit", "failed"} /\ UNCHANGED vars

MainRuns ==
  Open \/ StopScan \/ SetDone \/ Post \/ Spawn \/ StartJoin \/ Join \/ Report
    \/ \E f \in Files : Enqueue(f)
WorkerRuns(w) ==
  SemWait(w) \/ FindEmpty(w) \/ Dequeue(w) \/ ServeFails(w) \/ Serve(w)
    \/ CountFailure(w) \/ Count(w)

Next == MainRuns \/ (\E w \in Workers : WorkerRuns(w)) \/ Stopped

(* Every thread is scheduled.  sem_wait needs no more: see NoWorkerBlocks.  *)
Spec ==
  /\ Init /\ [][Next]_vars
  /\ WF_vars(MainRuns)
  /\ \A w \in Workers : WF_vars(WorkerRuns(w))

-----------------------------------------------------------------------------
TypeOK ==
  /\ main \in {"open", "scan", "done", "post", "spawn", "join", "exit",
               "failed"}
  /\ next \in 1 .. NumWorkers + 1
  /\ queue \in Seq(Files) /\ Len(queue) <= QueueSize
  /\ scanned \subseteq Files
  /\ tasks_sem \in Nat
  /\ done_flag \in BOOLEAN
  /\ wpc \in [Workers -> {"none", "sem", "lock", "asleep", "serve", "failed",
                          "served", "returned"}]
  /\ file \in [Workers -> Files \cup {None}]
  /\ errors \in [Workers -> 0 .. 1]
  /\ outcome \in [Files -> {"left", "queued", "failed", "faulty", "served"}]
  /\ total_processed \in Nat /\ total_errors \in Nat

(* The units of tasks_sem go to files and to orders to stop alike, and a   *)
(* worker cannot tell which it took.  Still a worker that comes to         *)
(* sem_wait always finds one left, also when other workers could not be    *)
(* created, and no worker ever waits on queue_cond.                        *)
NoWorkerBlocks ==
  \A w \in Workers : /\ wpc[w] = "sem" => tasks_sem > 0
                     /\ wpc[w] # "asleep"

(* When process_server_run returns and had at least one worker, each file  *)
(* it queued was taken by one worker and has its outcome, and the last log *)
(* line ("processed: %d, errors: %d") is exact: as many files were          *)
(* processed as were answered, and as many errors counted as files could   *)
(* not be opened and requests of the others failed, no more and no less.   *)
ReportIsComplete ==
  main = "exit" /\ (\E w \in Workers : wpc[w] # "none") =>
    /\ queue = <<>>
    /\ \A f \in scanned : outcome[f] \in {"failed", "faulty", "served"}
    /\ total_processed
         = Cardinality({f \in Files : outcome[f] \in {"faulty", "served"}})
    /\ total_errors
         = Cardinality({f \in Files : outcome[f] \in {"failed", "faulty"}})

(* process_server_run returns: every pthread_join does.                    *)
Returns == <>(main \in {"exit", "failed"})

(* process_server.h: "Returns 0 on success, -1 on failure": a run that     *)
(* returns 0 has served the request files.                                 *)
ZeroMeansServed ==
  main = "exit" => \A f \in Files : outcome[f] \notin {"left", "queued"}

=============================================================================
