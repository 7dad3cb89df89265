------------------------------ MODULE ConnQueue ------------------------------
(***************************************************************************)
(* What a pool of workers promises to the thread that accepts connections: *)
(* a bounded FIFO of accepted connections.  Each accepted connection is    *)
(* taken by exactly one worker, in the order of acceptance, and is closed  *)
(* when that worker is done with it.  Once the queue is closed nothing     *)
(* more is accepted, but everything accepted before is still served.       *)
(*                                                                         *)
(* thread_pool.h states this contract; ThreadPool is shown to implement it.*)
(***************************************************************************)
EXTENDS Integers, Sequences

CONSTANTS
  Conns,      \* the connections that may be offered
  Capacity    \* how many of them may wait

VARIABLES
  open,       \* new connections are still accepted
  waiting,    \* accepted, not yet taken, oldest first
  serving,    \* taken by a worker
  served      \* closed by the worker that took them

vars == <<open, waiting, serving, served>>

Init ==
  /\ open = TRUE
  /\ waiting = <<>>
  /\ serving = {}
  /\ served = {}

Waiting == {waiting[i] : i \in DOMAIN waiting}

Accept(c) ==
  /\ open
  /\ c \notin Waiting \cup serving \cup served
  /\ Len(waiting) < Capacity
  /\ waiting' = Append(waiting, c)
  /\ UNCHANGED <<open, serving, served>>

Take ==
  /\ waiting # <<>>
  /\ serving' = serving \cup {Head(waiting)}
  /\ waiting' = Tail(waiting)
  /\ UNCHANGED <<open, served>>

Finish(c) ==
  /\ c \in serving
  /\ serving' = serving \ {c}
  /\ served' = served \cup {c}
  /\ UNCHANGED <<open, waiting>>

Close ==
  /\ open
  /\ open' = FALSE
  /\ UNCHANGED <<waiting, serving, served>>

Next ==
  \/ \E c \in Conns : Accept(c) \/ Finish(c)
  \/ Take
  \/ Close

Safety == Init /\ [][Next]_vars

(* Waiting connections are taken, and a taken connection is closed.        *)
Spec ==
  /\ Safety
  /\ WF_vars(Take)
  /\ \A c \in Conns : WF_vars(Finish(c))

=============================================================================
