---------------------------- MODULE LogFilesProofs ----------------------------
(***************************************************************************)
(* Proofs about LogFiles, for every number of workers, of lines in a file  *)
(* and of old files, and for any number of failures.                       *)
(***************************************************************************)
EXTENDS LogFiles, TLAPS

SystemNames == {n \in Names : n[1] = "system"}
AccessNames == {n \in Names : n[1] = "access"}

(* The part of the state that says which streams are open.                 *)
Types ==
  /\ g_system_log \in [Procs -> SystemNames \cup {Null, Unlinked}]
  /\ g_access_log \in [Procs -> AccessNames \cup {Null, Closed, Unlinked}]
  /\ shared = [p \in Procs |-> FALSE]
  /\ pc \in [Procs -> {"off", "forked", "idle", "log", "shift", "rename",
                       "open", "write", "closing"}]
  /\ call \in [Procs -> {"system", "access", "close"}]
  /\ turn \in [Procs -> 0 .. MaxRoll]

(* A rotation, from fclose to the next fopen. *)
Rotates(p) == pc[p] \in {"shift", "rename", "open"}

(* The pointers of one process.  The rotation of the access log leaves its *)
(* pointer dangling until it returns, that of the system log clears it.    *)
Pointers(p) ==
  /\ pc[p] # "off" => g_access_log[p] # Null
  /\ g_access_log[p] = Closed => Rotates(p) /\ call[p] = "access"
  /\ pc[p] \notin {"off"} /\ failed = {} /\ g_system_log[p] = Null =>
       Rotates(p) /\ call[p] # "access"
  /\ pc[p] = "shift" => turn[p] >= 1

(* With an access log of its own that could be opened so far.              *)
Sound == Types /\ \A p \in Procs : Pointers(p)
IInv == deploy = "own" /\ "access" \notin failed => Sound

LEMMA NameFacts ==
  /\ MaxRoll \in Nat /\ MaxRoll >= 1
  /\ SystemNames \subseteq Names /\ AccessNames \subseteq Names
  /\ SystemNames \cap AccessNames = {}
  /\ \A i \in 0 .. MaxRoll :
       <<"system", i>> \in SystemNames /\ <<"access", i>> \in AccessNames
  /\ Null \notin Names /\ Closed \notin Names /\ Unlinked \notin Names
  /\ Null # Closed /\ Null # Unlinked /\ Closed # Unlinked
<1>1. MaxRoll \in Nat /\ MaxRoll >= 1
  BY LogAssumption
<1>2. /\ Null \notin Names /\ Closed \notin Names /\ Unlinked \notin Names
      /\ Null # Closed /\ Null # Unlinked /\ Closed # Unlinked
  BY LogAssumption
<1>3. \A i \in 0 .. MaxRoll :
       <<"system", i>> \in SystemNames /\ <<"access", i>> \in AccessNames
  BY DEF SystemNames, AccessNames, Names, Logs
<1>4. SystemNames \cap AccessNames = {}
  BY DEF SystemNames, AccessNames
<1> QED
  BY <1>1, <1>2, <1>3, <1>4 DEF SystemNames, AccessNames

LEMMA InitOK == Init => IInv
<1> SUFFICES ASSUME Init PROVE Sound
  BY DEF IInv
<1>1. Types
  <2>1. turn \in [Procs -> 0 .. MaxRoll]
    BY NameFacts DEF Init
  <2> QED
    BY <2>1 DEF Init, Types
<1>2. \A p \in Procs : Pointers(p)
  BY NameFacts DEF Init, Pointers, Rotates
<1> QED
  BY <1>1, <1>2 DEF Sound

(* A step that changes no pointer and no rotation. *)
LEMMA CallKeeps ==
  ASSUME Sound, NEW p \in Procs,
         NEW next \in {"idle", "log", "closing"},
         NEW c \in {"system", "access", "close"},
         pc[p] # "off", ~Rotates(p),
         pc' = [pc EXCEPT ![p] = next], call' = [call EXCEPT ![p] = c],
         UNCHANGED <<streams, turn>>, failed \subseteq failed'
  PROVE  Sound'
<1>1. Types'
  BY DEF Sound, Types, streams
<1>2. ASSUME NEW q \in Procs PROVE Pointers(q)'
  <2>1. CASE q = p
    BY <2>1 DEF Sound, Types, Pointers, Rotates, streams
  <2>2. CASE q # p
    BY <2>2 DEF Sound, Types, Pointers, Rotates, streams
  <2> QED
    BY <2>1, <2>2
<1> QED
  BY <1>1, <1>2 DEF Sound

(* What has its name changed stays open, and in its log.                   *)
LEMMA MovedKeeps ==
  ASSUME NEW sys \in [Procs -> SystemNames \cup {Null, Unlinked}],
         NEW acc \in [Procs -> AccessNames \cup {Null, Closed, Unlinked}],
         NEW l \in Logs, NEW a, \E i \in 0 .. MaxRoll : a = <<l, i>>,
         NEW b, \/ b = Unlinked
                \/ \E j \in 0 .. MaxRoll : b = <<l, j>>
  PROVE  /\ Moved(sys, a, b) \in [Procs -> SystemNames \cup {Null, Unlinked}]
         /\ Moved(acc, a, b)
              \in [Procs -> AccessNames \cup {Null, Closed, Unlinked}]
         /\ \A p \in Procs :
              /\ Moved(sys, a, b)[p] = Null <=> sys[p] = Null
              /\ Moved(acc, a, b)[p] = Null <=> acc[p] = Null
              /\ Moved(acc, a, b)[p] = Closed <=> acc[p] = Closed
<1>1. l = "system" \/ l = "access"
  BY DEF Logs
<1>2. CASE l = "system"
  <2>1. a \in SystemNames /\ b \in SystemNames \cup {Unlinked}
    BY <1>2, NameFacts
  <2>2. \A p \in Procs : acc[p] # a
    BY <2>1, NameFacts
  <2> QED
    BY <2>1, <2>2, NameFacts DEF Moved
<1>3. CASE l = "access"
  <2>1. a \in AccessNames /\ b \in AccessNames \cup {Unlinked}
    BY <1>3, NameFacts
  <2>2. \A p \in Procs : sys[p] # a
    BY <2>1, NameFacts
  <2> QED
    BY <2>1, <2>2, NameFacts DEF Moved
<1> QED
  BY <1>1, <1>2, <1>3

(* The same pointers as before, as far as Pointers can tell.               *)
SameStreams ==
  /\ g_system_log' \in [Procs -> SystemNames \cup {Null, Unlinked}]
  /\ g_access_log' \in [Procs -> AccessNames \cup {Null, Closed, Unlinked}]
  /\ \A p \in Procs :
       /\ g_system_log'[p] = Null <=> g_system_log[p] = Null
       /\ g_access_log'[p] = Null <=> g_access_log[p] = Null
       /\ g_access_log'[p] = Closed <=> g_access_log[p] = Closed

LEMMA UnlinkKeeps ==
  ASSUME Types, NEW l \in Logs, NEW i \in 0 .. MaxRoll, Unlink(<<l, i>>)
  PROVE  SameStreams
<1> DEFINE a == <<l, i>>
<1>1. /\ g_system_log' = Moved(g_system_log, a, Unlinked)
      /\ g_access_log' = Moved(g_access_log, a, Unlinked)
  BY DEF Unlink
<1>2. \E k \in 0 .. MaxRoll : a = <<l, k>>
  OBVIOUS
<1>3. /\ g_system_log \in [Procs -> SystemNames \cup {Null, Unlinked}]
      /\ g_access_log \in [Procs -> AccessNames \cup {Null, Closed, Unlinked}]
  BY DEF Types
<1> HIDE DEF a
<1> QED
  BY <1>1, <1>2, <1>3, MovedKeeps DEF SameStreams

LEMMA RenameKeeps ==
  ASSUME Types, NEW l \in Logs, NEW i \in 0 .. MaxRoll, NEW j \in 0 .. MaxRoll,
         Rename(<<l, i>>, <<l, j>>)
  PROVE  SameStreams
<1> DEFINE a == <<l, i>>
           b == <<l, j>>
           sys == Moved(g_system_log, b, Unlinked)
           acc == Moved(g_access_log, b, Unlinked)
<1>1. CASE UNCHANGED <<g_system_log, g_access_log>>
  BY <1>1 DEF Types, SameStreams
<1>2. CASE /\ g_system_log' = Moved(sys, a, b)
           /\ g_access_log' = Moved(acc, a, b)
  <2>1. /\ sys \in [Procs -> SystemNames \cup {Null, Unlinked}]
        /\ acc \in [Procs -> AccessNames \cup {Null, Closed, Unlinked}]
        /\ \A p \in Procs :
             /\ sys[p] = Null <=> g_system_log[p] = Null
             /\ acc[p] = Null <=> g_access_log[p] = Null
             /\ acc[p] = Closed <=> g_access_log[p] = Closed
    <3>1. /\ g_system_log \in [Procs -> SystemNames \cup {Null, Unlinked}]
          /\ g_access_log
               \in [Procs -> AccessNames \cup {Null, Closed, Unlinked}]
      BY DEF Types
    <3>2. \E k \in 0 .. MaxRoll : b = <<l, k>>
      OBVIOUS
    <3>3. /\ sys = Moved(g_system_log, b, Unlinked)
          /\ acc = Moved(g_access_log, b, Unlinked)
      OBVIOUS
    <3> HIDE DEF b, sys, acc
    <3> QED
      BY <3>1, <3>2, <3>3, MovedKeeps
  <2> HIDE DEF sys, acc
  <2>2. /\ Moved(sys, a, b) \in [Procs -> SystemNames \cup {Null, Unlinked}]
        /\ Moved(acc, a, b)
             \in [Procs -> AccessNames \cup {Null, Closed, Unlinked}]
        /\ \A p \in Procs :
             /\ Moved(sys, a, b)[p] = Null <=> sys[p] = Null
             /\ Moved(acc, a, b)[p] = Null <=> acc[p] = Null
             /\ Moved(acc, a, b)[p] = Closed <=> acc[p] = Closed
    BY <2>1, MovedKeeps
  <2> QED
    BY <1>2, <2>1, <2>2 DEF SameStreams
<1> QED
  BY <1>1, <1>2 DEF Rename

(* One turn of the loop of rotate_log, or the rename after it.             *)
LEMMA RotationKeeps ==
  ASSUME Sound, NEW p \in Procs, Shift(p) \/ RenameCurrent(p)
  PROVE  Sound'
<1> USE DEF Sound
<1> DEFINE l == RotLog(p)
           i == turn[p]
<1>1. l \in Logs
  BY DEF RotLog, Logs
<1>2. /\ failed' = failed /\ call' = call /\ shared' = shared
      /\ \A q \in Procs \ {p} : pc'[q] = pc[q] /\ turn'[q] = turn[q]
  BY DEF Shift, RenameCurrent, bounds, Types
<1>3. CASE Shift(p)
  <2>1. i \in 0 .. MaxRoll /\ i >= 1 /\ pc[p] = "shift"
    BY <1>3 DEF Shift, Pointers, Types
  <2>2. SameStreams
    <3>1. CASE i = MaxRoll
      BY <1>1, <1>3, <2>1, <3>1, UnlinkKeeps DEF Shift, ShiftOne
    <3>2. CASE i # MaxRoll
      <4>1. i + 1 \in 0 .. MaxRoll
        BY <2>1, <3>2, NameFacts
      <4>2. Rename(<<l, i>>, <<l, i + 1>>)
        BY <1>3, <3>2 DEF Shift, ShiftOne
      <4> QED
        BY <1>1, <2>1, <4>1, <4>2, RenameKeeps
    <3> QED
      BY <3>1, <3>2
  <2>3. /\ i - 1 \in 0 .. MaxRoll
        /\ turn' = [turn EXCEPT ![p] = i - 1]
        /\ pc' = [pc EXCEPT ![p] = IF i = 1 THEN "rename" ELSE "shift"]
    BY <1>3, <2>1, NameFacts DEF Shift
  <2>4. pc'[p] \in {"shift", "rename"} /\ (pc'[p] = "shift" => turn'[p] >= 1)
    BY <2>1, <2>3 DEF Types
  <2>5. Types'
    BY <1>2, <2>2, <2>3 DEF Types, SameStreams
  <2>6. \A q \in Procs : Pointers(q)'
    BY <1>2, <2>1, <2>2, <2>4 DEF SameStreams, Pointers, Rotates
  <2> QED
    BY <2>5, <2>6
<1>4. CASE RenameCurrent(p)
  <2>1. /\ pc[p] = "rename" /\ pc' = [pc EXCEPT ![p] = "open"] /\ turn' = turn
    BY <1>4 DEF RenameCurrent
  <2>2. SameStreams
    BY <1>1, <1>4, NameFacts, RenameKeeps, 0 \in 0 .. MaxRoll,
       1 \in 0 .. MaxRoll DEF RenameCurrent
  <2>3. pc'[p] = "open"
    BY <2>1 DEF Types
  <2>4. Types'
    BY <1>2, <2>1, <2>2 DEF Types, SameStreams
  <2>5. \A q \in Procs : Pointers(q)'
    BY <1>2, <2>1, <2>2, <2>3 DEF SameStreams, Pointers, Rotates
  <2> QED
    BY <2>4, <2>5
<1> QED
  BY <1>3, <1>4

-----------------------------------------------------------------------------
(* Every step.                                                             *)

(* Only the state of process p changes. *)
LEMMA OneProcess ==
  ASSUME Sound, Types', NEW p \in Procs, failed \subseteq failed',
         \A q \in Procs \ {p} :
           /\ g_system_log'[q] = g_system_log[q]
           /\ g_access_log'[q] = g_access_log[q]
           /\ pc'[q] = pc[q] /\ call'[q] = call[q] /\ turn'[q] = turn[q],
         Pointers(p)'
  PROVE  Sound'
<1> SUFFICES ASSUME NEW q \in Procs PROVE Pointers(q)'
  BY DEF Sound
<1>1. CASE q = p
  BY <1>1
<1>2. CASE q # p
  BY <1>2 DEF Sound, Pointers, Rotates
<1> QED
  BY <1>1, <1>2

LEMMA FailuresStay == [Next]_vars => failed \subseteq failed' /\ deploy' = deploy
<1> SUFFICES ASSUME [Next]_vars
             PROVE  failed \subseteq failed' /\ deploy' = deploy
  OBVIOUS
<1>1. CASE LogInit
  BY <1>1 DEF LogInit, MayFail
<1>2. ASSUME NEW w \in Workers, Fork(w) \/ LogReopen(w)
      PROVE  failed \subseteq failed' /\ deploy' = deploy
  BY <1>2 DEF Fork, LogReopen
<1>3. ASSUME NEW p \in Procs, Step(p)
      PROVE  failed \subseteq failed' /\ deploy' = deploy
  BY <1>3 DEF Step, Call, Drop, Undefined, CloseStream, Shift, RenameCurrent,
              OpenNew, OpenFails, MayFail, Write, LogClose, Crash, bounds
<1>4. CASE UNCHANGED vars
  BY <1>4 DEF vars
<1> QED
  BY <1>1, <1>2, <1>3, <1>4 DEF Next

LEMMA InitialisationKeeps ==
  ASSUME Sound, Own, LogInit, "access" \notin failed'
  PROVE  Sound'
<1> USE DEF Sound
<1>1. Main \in Procs /\ 0 \in 0 .. MaxRoll /\ turn' = turn
      /\ failed \subseteq failed'
  BY NameFacts DEF Procs, LogInit, MayFail
<1>2. <<"system", 0>> \in SystemNames /\ <<"access", 0>> \in AccessNames
  BY <1>1, NameFacts
<1>3. /\ g_system_log' = [g_system_log EXCEPT ![Main] = <<"system", 0>>]
      /\ g_access_log' = [g_access_log EXCEPT ![Main] = <<"access", 0>>]
      /\ shared' = [shared EXCEPT ![Main] = FALSE]
      /\ pc' = [pc EXCEPT ![Main] = "log"]
      /\ call' = [call EXCEPT ![Main] = "system"]
  BY DEF LogInit, Own, MayFail
<1>4. Types'
  BY <1>1, <1>2, <1>3 DEF Types
<1>5. Pointers(Main)'
  <2>1. /\ pc'[Main] = "log" /\ g_access_log'[Main] = <<"access", 0>>
        /\ g_system_log'[Main] = <<"system", 0>>
    BY <1>1, <1>3 DEF Types
  <2> QED
    BY <1>2, <2>1, NameFacts DEF Pointers
<1> QED
  BY <1>1, <1>3, <1>4, <1>5, OneProcess DEF Types

LEMMA ForkKeeps ==
  ASSUME Sound, NEW w \in Workers, Fork(w)
  PROVE  Sound'
<1> USE DEF Sound
<1>1. w \in Procs /\ Main \in Procs /\ failed' = failed
  BY DEF Procs, Fork
<1>2. /\ g_system_log' = [g_system_log EXCEPT ![w] = g_system_log[Main]]
      /\ g_access_log' = [g_access_log EXCEPT ![w] = g_access_log[Main]]
      /\ shared' = [shared EXCEPT ![w] = shared[Main]]
      /\ pc' = [pc EXCEPT ![w] = "forked"]
      /\ call' = call /\ turn' = turn /\ pc[Main] = "idle"
  BY DEF Fork
<1>3. Types'
  BY <1>1, <1>2 DEF Types
<1>4. Pointers(w)'
  <2>1. /\ g_access_log[Main] # Null /\ g_access_log[Main] # Closed
        /\ failed = {} => g_system_log[Main] # Null
    BY <1>1, <1>2 DEF Pointers, Rotates
  <2>2. /\ pc'[w] = "forked" /\ g_access_log'[w] = g_access_log[Main]
        /\ g_system_log'[w] = g_system_log[Main]
    BY <1>1, <1>2 DEF Types
  <2> QED
    BY <1>1, <2>1, <2>2 DEF Pointers
<1> QED
  BY <1>1, <1>2, <1>3, <1>4, OneProcess DEF Types

LEMMA ReopenKeeps ==
  ASSUME Sound, Own, NEW w \in Workers, LogReopen(w), "access" \notin failed'
  PROVE  Sound'
<1> USE DEF Sound
<1>1. w \in Procs /\ 0 \in 0 .. MaxRoll
  BY NameFacts DEF Procs
<1>2. <<"system", 0>> \in SystemNames /\ <<"access", 0>> \in AccessNames
  BY <1>1, NameFacts
<1>3. pc[w] = "forked" /\ g_access_log[w] # Null
  BY <1>1 DEF LogReopen, Pointers
<1>4. PICK F \in SUBSET (Logs \ failed) :
        /\ failed' = failed \cup F
        /\ LET sys == IF g_system_log[w] = Null \/ "system" \in F THEN Null
                      ELSE <<"system", 0>>
           IN  /\ g_system_log' = [g_system_log EXCEPT ![w] = sys]
               /\ g_access_log' = [g_access_log EXCEPT ![w] =
                    IF ~Own THEN sys
                    ELSE IF g_access_log[w] = Null \/ "access" \in F THEN Null
                    ELSE <<"access", 0>>]
               /\ shared' = [shared EXCEPT ![w] = ~Own /\ sys # Null]
  BY DEF LogReopen
<1>5. "access" \notin F
  BY <1>4
<1>6. /\ g_access_log' = [g_access_log EXCEPT ![w] = <<"access", 0>>]
      /\ shared' = [shared EXCEPT ![w] = FALSE]
      /\ pc' = [pc EXCEPT ![w] = "idle"] /\ call' = call /\ turn' = turn
  BY <1>3, <1>4, <1>5 DEF LogReopen
<1>7. \/ g_system_log' = [g_system_log EXCEPT ![w] = <<"system", 0>>]
      \/ /\ g_system_log' = [g_system_log EXCEPT ![w] = Null]
         /\ g_system_log[w] = Null \/ failed' # {}
  BY <1>4
<1>8. Types'
  BY <1>1, <1>2, <1>6, <1>7 DEF Types
<1>9. Pointers(w)'
  <2>1. pc'[w] = "idle" /\ g_access_log'[w] = <<"access", 0>>
    BY <1>1, <1>6 DEF Types
  <2>2. failed' = {} => failed = {} /\ g_system_log[w] # Null
    BY <1>1, <1>3, <1>4 DEF Pointers, Rotates
  <2>3. failed' = {} => g_system_log'[w] = <<"system", 0>>
    BY <1>1, <1>7, <2>2 DEF Types
  <2> QED
    BY <1>2, <2>1, <2>3, NameFacts DEF Pointers
<1>10. failed \subseteq failed'
  BY <1>4
<1> QED
  BY <1>1, <1>6, <1>7, <1>8, <1>9, <1>10, OneProcess DEF Types

LEMMA CloseStreamKeeps ==
  ASSUME Sound, NEW p \in Procs, CloseStream(p)
  PROVE  Sound'
<1> USE DEF Sound
<1>1. /\ pc[p] = "log" /\ failed' = failed /\ call' = call
      /\ pc' = [pc EXCEPT ![p] = "shift"]
      /\ turn' = [turn EXCEPT ![p] = MaxRoll]
  BY DEF CloseStream, bounds
<1>2. /\ g_access_log[p] # Null /\ g_access_log[p] # Closed /\ ~shared[p]
  BY <1>1 DEF Pointers, Rotates, Types
<1>3. MaxRoll \in 0 .. MaxRoll
  BY NameFacts
<1>4. CASE call[p] = "access"
  <2>1. /\ g_access_log' = [g_access_log EXCEPT ![p] = Closed]
        /\ g_system_log' = g_system_log /\ shared' = shared
    BY <1>2, <1>4 DEF CloseStream, Types
  <2>2. Types'
    BY <1>1, <1>3, <2>1 DEF Types
  <2>3. /\ pc'[p] = "shift" /\ turn'[p] = MaxRoll /\ call'[p] = "access"
        /\ g_access_log'[p] = Closed /\ g_system_log'[p] = g_system_log[p]
    BY <1>1, <1>4, <2>1 DEF Types
  <2>4. failed = {} => g_system_log[p] # Null
    BY <1>1 DEF Pointers, Rotates
  <2>5. Pointers(p)'
    BY <1>1, <2>3, <2>4, NameFacts DEF Pointers, Rotates
  <2> QED
    BY <1>1, <2>1, <2>2, <2>5, OneProcess DEF Types
<1>5. CASE call[p] # "access"
  <2>1. /\ g_system_log' = [g_system_log EXCEPT ![p] = Null]
        /\ g_access_log' = g_access_log
        /\ shared' = [shared EXCEPT ![p] = FALSE]
    BY <1>2, <1>5 DEF CloseStream, Types
  <2>2. Types'
    BY <1>1, <1>3, <2>1 DEF Types
  <2>3. /\ pc'[p] = "shift" /\ turn'[p] = MaxRoll /\ call'[p] # "access"
        /\ g_access_log'[p] = g_access_log[p]
    BY <1>1, <1>5, <2>1 DEF Types
  <2>4. Pointers(p)'
    BY <1>1, <1>2, <2>3, NameFacts DEF Pointers, Rotates
  <2> QED
    BY <1>1, <2>1, <2>2, <2>4, OneProcess DEF Types
<1> QED
  BY <1>4, <1>5

LEMMA OpenNewKeeps ==
  ASSUME Sound, Own, NEW p \in Procs, OpenNew(p)
  PROVE  Sound'
<1> USE DEF Sound
<1> DEFINE s == <<RotLog(p), 0>>
<1>1. /\ pc[p] = "open" /\ failed' = failed /\ call' = call /\ turn' = turn
      /\ pc' = [pc EXCEPT ![p] = "write"]
  BY DEF OpenNew, bounds
<1>2. 0 \in 0 .. MaxRoll /\ g_access_log[p] # Null
  BY <1>1, NameFacts DEF Pointers
<1>3. CASE call[p] = "access"
  <2>1. s \in AccessNames
    BY <1>2, <1>3, NameFacts DEF RotLog
  <2>2. Reused(g_system_log[p], s) = {g_system_log[p]}
    BY NameFacts DEF Reused, Types
  <2>3. g_system_log[p] # s
    BY <2>1, NameFacts DEF Types
  <2>4. /\ g_access_log' = [g_access_log EXCEPT ![p] = s]
        /\ g_system_log' = [g_system_log EXCEPT ![p] = g_system_log[p]]
        /\ shared' = [shared EXCEPT ![p] = FALSE]
    BY <1>3, <2>2, <2>3 DEF OpenNew
  <2>5. Types'
    BY <1>1, <2>1, <2>4 DEF Types
  <2>6. /\ pc'[p] = "write" /\ g_access_log'[p] = s
        /\ g_system_log'[p] = g_system_log[p]
    BY <1>1, <2>4 DEF Types
  <2>7. failed = {} => g_system_log[p] # Null
    BY <1>1, <1>3 DEF Pointers
  <2>8. Pointers(p)'
    BY <1>1, <2>1, <2>6, <2>7, NameFacts DEF Pointers
  <2> QED
    BY <1>1, <2>4, <2>5, <2>8, OneProcess DEF Types
<1>4. CASE call[p] # "access"
  <2>1. s \in SystemNames
    BY <1>2, <1>4, NameFacts DEF RotLog
  <2>2. g_access_log[p] # Closed
    BY <1>4 DEF Pointers
  <2>3. Reused(g_access_log[p], s) = {g_access_log[p]}
    BY <2>2 DEF Reused
  <2>4. g_access_log[p] # s
    BY <2>1, NameFacts DEF Types
  <2>5. /\ g_system_log' = [g_system_log EXCEPT ![p] = s]
        /\ g_access_log' = [g_access_log EXCEPT ![p] = g_access_log[p]]
        /\ shared' = [shared EXCEPT ![p] = FALSE]
    BY <1>4, <2>3, <2>4 DEF OpenNew
  <2>6. Types'
    BY <1>1, <2>1, <2>5 DEF Types
  <2>7. /\ pc'[p] = "write" /\ g_access_log'[p] = g_access_log[p]
        /\ g_system_log'[p] = s
    BY <1>1, <2>5 DEF Types
  <2>8. Pointers(p)'
    BY <1>2, <2>1, <2>2, <2>7, NameFacts DEF Pointers
  <2> QED
    BY <1>1, <2>5, <2>6, <2>8, OneProcess DEF Types
<1> QED
  BY <1>3, <1>4

LEMMA OpenFailsKeeps ==
  ASSUME Sound, Own, NEW p \in Procs, OpenFails(p), "access" \notin failed'
  PROVE  Sound'
<1> USE DEF Sound
<1>1. /\ pc[p] = "open" /\ failed' = failed \cup {RotLog(p)}
      /\ g_system_log' = g_system_log /\ g_access_log' = g_access_log
      /\ shared' = shared /\ turn' = turn
      /\ \E next \in {"idle", "closing"} : pc' = [pc EXCEPT ![p] = next]
      /\ call' = [call EXCEPT ![p] = "system"]
  BY DEF OpenFails, MayFail, Return, streams
<1>2. call[p] # "access"
  BY <1>1 DEF RotLog
<1>3. Types'
  BY <1>1 DEF Types
<1>4. Pointers(p)'
  <2>1. g_access_log[p] # Null /\ g_access_log[p] # Closed
    BY <1>1, <1>2 DEF Pointers
  <2>2. pc'[p] \in {"idle", "closing"} /\ failed' # {}
    BY <1>1 DEF Types
  <2> QED
    BY <1>1, <2>1, <2>2 DEF Pointers
<1>5. failed \subseteq failed'
  BY <1>1
<1> QED
  BY <1>1, <1>3, <1>4, <1>5, OneProcess DEF Types

(* log_close, or death: the process has no streams any more.               *)
LEMMA EndKeeps ==
  ASSUME Sound, NEW p \in Procs, LogClose(p) \/ Crash(p)
  PROVE  Sound'
<1> USE DEF Sound
<1>1. /\ g_system_log' = [g_system_log EXCEPT ![p] = Null]
      /\ g_access_log' = [g_access_log EXCEPT ![p] = Null]
      /\ shared' = [shared EXCEPT ![p] = FALSE]
      /\ call' = [call EXCEPT ![p] = "system"]
      /\ turn' = [turn EXCEPT ![p] = 0]
      /\ failed' = failed
  BY DEF LogClose, Crash, Forget, bounds
<1>2. pc' = [pc EXCEPT ![p] = "off"]
  <2>1. CASE Crash(p)
    BY <2>1 DEF Crash
  <2>2. CASE LogClose(p)
    <3>1. /\ pc[p] = "closing" /\ ~shared[p]
          /\ g_access_log[p] # Closed /\ g_system_log[p] # Closed
      BY <2>2, NameFacts DEF LogClose, Types, Pointers, Rotates
    <3> QED
      BY <2>2, <3>1 DEF LogClose
  <2> QED
    BY <2>1, <2>2
<1>3. 0 \in 0 .. MaxRoll
  BY NameFacts
<1>4. Types'
  BY <1>1, <1>2, <1>3 DEF Types
<1>5. Pointers(p)'
  <2>1. pc'[p] = "off" /\ g_access_log'[p] = Null
    BY <1>1, <1>2 DEF Types
  <2> QED
    BY <2>1, NameFacts DEF Pointers
<1> QED
  BY <1>1, <1>2, <1>4, <1>5, OneProcess DEF Types

LEMMA NothingDangles ==
  ASSUME Sound, NEW p \in Procs
  PROVE  ~Undefined(p)
<1> SUFFICES ASSUME pc[p] \in {"log", "write"}, Stream(p) = Closed
             PROVE  FALSE
  BY DEF Undefined
<1>1. g_access_log[p] # Closed /\ g_system_log[p] # Closed
  BY NameFacts DEF Sound, Types, Pointers, Rotates
<1> QED
  BY <1>1 DEF Stream

LEMMA StepOK == IInv /\ [Next]_vars => IInv'
<1> SUFFICES ASSUME IInv, [Next]_vars, deploy' = "own", "access" \notin failed'
             PROVE  Sound'
  BY DEF IInv
<1>1. deploy = "own" /\ "access" \notin failed /\ failed \subseteq failed'
  BY FailuresStay
<1>2. Sound /\ Own
  BY <1>1 DEF IInv, Own
<1>3. CASE LogInit
  BY <1>2, <1>3, InitialisationKeeps
<1>4. ASSUME NEW w \in Workers, Fork(w) \/ LogReopen(w) PROVE Sound'
  BY <1>2, <1>4, ForkKeeps, ReopenKeeps
<1>5. ASSUME NEW p \in Procs, Step(p) PROVE Sound'
  <2>1. ASSUME NEW c \in {"system", "access", "close"}, Call(p, c)
        PROVE  Sound'
    BY <1>1, <1>2, <2>1, CallKeeps DEF Call, Rotates
  <2>2. CASE Drop(p) \/ Write(p)
    <3>1. /\ pc[p] # "off" /\ ~Rotates(p)
          /\ UNCHANGED <<streams, turn>>
          /\ \E next \in {"idle", "closing"} : pc' = [pc EXCEPT ![p] = next]
          /\ call' = [call EXCEPT ![p] = "system"]
      BY <2>2 DEF Drop, Write, Return, Rotates
    <3> QED
      BY <1>1, <1>2, <3>1, CallKeeps
  <2>3. CASE CloseStream(p)
    BY <1>2, <2>3, CloseStreamKeeps
  <2>4. CASE Shift(p) \/ RenameCurrent(p)
    BY <1>2, <2>4, RotationKeeps
  <2>5. CASE OpenNew(p) \/ OpenFails(p)
    BY <1>2, <2>5, OpenNewKeeps, OpenFailsKeeps
  <2>6. CASE LogClose(p) \/ Crash(p)
    BY <1>2, <2>6, EndKeeps
  <2> QED
    BY <1>2, <1>5, <2>1, <2>2, <2>3, <2>4, <2>5, <2>6, NothingDangles DEF Step
<1>6. CASE UNCHANGED vars
  <2>1. UNCHANGED <<g_system_log, g_access_log, shared, pc, call, turn, failed>>
    BY <1>6 DEF vars, streams
  <2> QED
    BY <1>2, <2>1 DEF Sound, Types, Pointers, Rotates
<1> QED
  BY <1>3, <1>4, <1>5, <1>6 DEF Next

(* With an access log of its own that could be opened whenever it had to   *)
(* be, no process of log.c ever uses or closes a stream that was closed;   *)
(* and while every fopen succeeds both logs are open between two calls.    *)
THEOREM StreamsStayOpen == Spec => []StreamsAreOpen
<1>1. IInv => StreamsAreOpen
  <2> SUFFICES ASSUME IInv, Own, NEW p \in Procs
               PROVE  /\ pc[p] = "undefined" => "access" \in failed
                      /\ pc[p] = "idle" /\ failed = {} =>
                           IsOpen(g_system_log[p]) /\ IsOpen(g_access_log[p])
    BY DEF StreamsAreOpen
  <2>1. CASE "access" \in failed
    BY <2>1
  <2>2. CASE "access" \notin failed
    <3>1. Sound
      BY <2>2 DEF IInv, Own
    <3>2. pc[p] # "undefined"
      BY <3>1 DEF Sound, Types
    <3>3. ASSUME pc[p] = "idle", failed = {}
          PROVE  IsOpen(g_system_log[p]) /\ IsOpen(g_access_log[p])
      BY <3>1, <3>3, NameFacts DEF Sound, Types, Pointers, Rotates, IsOpen
    <3> QED
      BY <3>2, <3>3
  <2> QED
    BY <2>1, <2>2
<1> QED
  BY <1>1, InitOK, StepOK, PTL DEF Spec

-----------------------------------------------------------------------------
(* The files, whatever the configuration and whatever fails.               *)

Lines == Procs \X Logs \X Nat
Streams == Names \cup {Null, Closed, Unlinked}

Turning == \A p \in Procs : pc[p] = "shift" => turn[p] >= 1
TypeInv == TypeOK /\ Turning

LEMMA NamesAre ==
  /\ MaxRoll \in Nat /\ MaxRoll >= 1 /\ 0 \in 0 .. MaxRoll /\ 1 \in 0 .. MaxRoll
  /\ Main \in Procs /\ Workers \subseteq Procs
  /\ \A l \in Logs : \A k \in 0 .. MaxRoll : <<l, k>> \in Names
  /\ \A n \in Names : n[1] \in Logs /\ n[2] \in 0 .. MaxRoll /\ n = <<n[1], n[2]>>
  /\ "system" \in Logs /\ "access" \in Logs
  /\ Null \notin Names /\ Closed \notin Names /\ Unlinked \notin Names
  /\ Null # Closed /\ Null # Unlinked /\ Closed # Unlinked
  /\ Absent \notin Seq(Lines)
<1>1. /\ MaxRoll \in Nat /\ MaxRoll >= 1
      /\ 0 \in 0 .. MaxRoll /\ 1 \in 0 .. MaxRoll
  BY LogAssumption
<1>2. /\ \A l \in Logs : \A k \in 0 .. MaxRoll : <<l, k>> \in Names
      /\ \A n \in Names :
           n[1] \in Logs /\ n[2] \in 0 .. MaxRoll /\ n = <<n[1], n[2]>>
  BY DEF Names
<1>3. /\ Null \notin Names /\ Closed \notin Names /\ Unlinked \notin Names
      /\ Null # Closed /\ Null # Unlinked /\ Closed # Unlinked
      /\ Absent \notin Seq(Lines)
  BY LogAssumption DEF Lines
<1>4. Main \in Procs /\ Workers \subseteq Procs
      /\ "system" \in Logs /\ "access" \in Logs
  BY DEF Procs, Logs
<1> QED
  BY <1>1, <1>2, <1>3, <1>4

LEMMA ContentsAre ==
  ASSUME TypeOK, NEW n \in Names
  PROVE  /\ Contents(n) \in Seq(Lines) /\ Len(Contents(n)) \in Nat
         /\ DOMAIN Contents(n) = 1 .. Len(Contents(n))
         /\ \A i \in DOMAIN Contents(n) : Contents(n)[i] \in Lines
<1>1. dir[n] \in Seq(Lines) \cup {Absent}
  BY DEF TypeOK, Lines
<1>2. Contents(n) \in Seq(Lines)
  BY <1>1 DEF Contents
<1> QED
  BY <1>2

LEMMA TypesInit == Init => TypeInv
<1> SUFFICES ASSUME Init PROVE TypeInv
  OBVIOUS
<1>1. /\ turn \in [Procs -> 0 .. MaxRoll]
      /\ written \in [Procs -> [Logs -> Nat]]
      /\ dir \in [Names -> Seq(Procs \X Logs \X Nat) \cup {Absent}]
  BY NamesAre DEF Init
<1> QED
  BY <1>1 DEF Init, TypeInv, TypeOK, Turning, Logs

(* What fopen does to the directory. *)
LEMMA OpenedTypes ==
  ASSUME TypeOK, NEW S
  PROVE  Opened(S) \in [Names -> Seq(Lines) \cup {Absent}]
BY ContentsAre DEF Opened, TypeOK, Lines

LEMMA MovedTypes ==
  ASSUME NEW s \in [Procs -> Streams], NEW a, NEW b \in Streams
  PROVE  Moved(s, a, b) \in [Procs -> Streams]
BY DEF Moved

LEMMA RenameTypes ==
  ASSUME TypeOK, NEW a \in Names, NEW b \in Names,
         Rename(a, b) \/ Unlink(a)
  PROVE  /\ dir' \in [Names -> Seq(Lines) \cup {Absent}]
         /\ g_system_log' \in [Procs -> Streams]
         /\ g_access_log' \in [Procs -> Streams]
<1>1. /\ dir \in [Names -> Seq(Lines) \cup {Absent}]
      /\ g_system_log \in [Procs -> Streams]
      /\ g_access_log \in [Procs -> Streams]
  BY DEF TypeOK, Lines, Streams
<1>2. b \in Streams /\ Unlinked \in Streams
  BY DEF Streams
<1>3. CASE Unlink(a)
  BY <1>1, <1>2, <1>3, MovedTypes DEF Unlink
<1>4. CASE Rename(a, b)
  <2>1. CASE dir[a] = Absent
    BY <1>1, <1>4, <2>1 DEF Rename
  <2>2. CASE dir[a] # Absent
    <3>1. /\ dir' = [dir EXCEPT ![b] = dir[a], ![a] = Absent]
          /\ g_system_log' = Moved(Moved(g_system_log, b, Unlinked), a, b)
          /\ g_access_log' = Moved(Moved(g_access_log, b, Unlinked), a, b)
      BY <1>4, <2>2 DEF Rename
    <3>2. /\ Moved(g_system_log, b, Unlinked) \in [Procs -> Streams]
          /\ Moved(g_access_log, b, Unlinked) \in [Procs -> Streams]
      BY <1>1, <1>2, MovedTypes
    <3>3. /\ g_system_log' \in [Procs -> Streams]
          /\ g_access_log' \in [Procs -> Streams]
      BY <1>2, <3>1, <3>2, MovedTypes
    <3> QED
      BY <1>1, <3>1, <3>3
  <2> QED
    BY <2>1, <2>2
<1> QED
  BY <1>3, <1>4

(* One turn of the loop, or the rename after it: what it does to the files.*)
LEMMA RotationMoves ==
  ASSUME TypeInv, NEW p \in Procs, Shift(p) \/ RenameCurrent(p)
  PROVE  /\ RotLog(p) \in Logs
         /\ \/ /\ pc[p] = "shift" /\ turn[p] = MaxRoll
               /\ Unlink(<<RotLog(p), MaxRoll>>)
            \/ \E i \in 0 .. MaxRoll - 1 :
                 /\ i = IF pc[p] = "shift" THEN turn[p] ELSE 0
                 /\ Rename(<<RotLog(p), i>>, <<RotLog(p), i + 1>>)
<1>1. RotLog(p) \in Logs
  BY NamesAre DEF RotLog
<1>2. CASE Shift(p)
  <2>1. turn[p] \in 1 .. MaxRoll /\ pc[p] = "shift"
    BY <1>2 DEF Shift, TypeInv, TypeOK, Turning
  <2>2. CASE turn[p] = MaxRoll
    BY <1>1, <1>2, <2>1, <2>2 DEF Shift, ShiftOne
  <2>3. CASE turn[p] # MaxRoll
    <3>1. turn[p] \in 0 .. MaxRoll - 1
      BY <2>1, <2>3, NamesAre
    <3>2. Rename(<<RotLog(p), turn[p]>>, <<RotLog(p), turn[p] + 1>>)
      BY <1>2, <2>3 DEF Shift, ShiftOne
    <3> QED
      BY <1>1, <2>1, <3>1, <3>2
  <2> QED
    BY <2>2, <2>3
<1>3. CASE RenameCurrent(p)
  <2>1. 0 \in 0 .. MaxRoll - 1 /\ 0 + 1 = 1
    BY NamesAre
  <2>2. pc[p] # "shift" /\ Rename(<<RotLog(p), 0>>, <<RotLog(p), 0 + 1>>)
    BY <1>3, <2>1 DEF RenameCurrent
  <2> QED
    BY <1>1, <2>1, <2>2
<1> QED
  BY <1>2, <1>3

(* The parts of TypeInv that are not about the files. *)
LEMMA ControlTypes ==
  ASSUME TypeInv, NEW p \in Procs,
         pc' \in [Procs -> {"off", "forked", "idle", "log", "shift", "rename",
                            "open", "write", "closing", "undefined"}],
         call' \in [Procs -> {"system", "access", "close"}],
         turn' \in [Procs -> 0 .. MaxRoll],
         pc'[p] = "shift" => turn'[p] >= 1,
         \A q \in Procs \ {p} : pc'[q] = pc[q] /\ turn'[q] = turn[q],
         deploy' = deploy, failed' \subseteq Logs, crashes' \in Nat,
         forked' \subseteq Workers,
         dir' \in [Names -> Seq(Lines) \cup {Absent}],
         g_system_log' \in [Procs -> Streams],
         g_access_log' \in [Procs -> Streams],
         shared' \in [Procs -> BOOLEAN],
         g_system_lines' \in [Procs -> Nat], g_access_lines' \in [Procs -> Nat],
         written' \in [Procs -> [Logs -> Nat]]
  PROVE  TypeInv'
<1>1. Turning'
  BY DEF TypeInv, Turning
<1>2. deploy' \in Deployments
  BY DEF TypeInv, TypeOK
<1> QED
  BY <1>1, <1>2 DEF TypeInv, TypeOK, Lines, Streams

(* The control state of p after a step that does not turn to the loop.     *)
LEMMA NextControl ==
  ASSUME TypeInv, NEW p \in Procs,
         NEW next \in {"off", "forked", "idle", "log", "rename", "open",
                       "write", "closing", "undefined"},
         pc' = [pc EXCEPT ![p] = next],
         NEW c \in {"system", "access", "close"},
         call' = call \/ call' = [call EXCEPT ![p] = c],
         turn' = turn \/ turn' = [turn EXCEPT ![p] = 0]
  PROVE  /\ pc' \in [Procs -> {"off", "forked", "idle", "log", "shift",
                               "rename", "open", "write", "closing",
                               "undefined"}]
         /\ call' \in [Procs -> {"system", "access", "close"}]
         /\ turn' \in [Procs -> 0 .. MaxRoll]
         /\ pc'[p] # "shift"
         /\ \A q \in Procs \ {p} : pc'[q] = pc[q] /\ turn'[q] = turn[q]
<1>1. /\ pc \in [Procs -> {"off", "forked", "idle", "log", "shift", "rename",
                          "open", "write", "closing", "undefined"}]
      /\ call \in [Procs -> {"system", "access", "close"}]
      /\ turn \in [Procs -> 0 .. MaxRoll] /\ 0 \in 0 .. MaxRoll
  BY NamesAre DEF TypeInv, TypeOK
<1>2. /\ pc' \in [Procs -> {"off", "forked", "idle", "log", "shift",
                           "rename", "open", "write", "closing", "undefined"}]
      /\ pc'[p] # "shift" /\ \A q \in Procs \ {p} : pc'[q] = pc[q]
  BY <1>1
<1>3. /\ turn' \in [Procs -> 0 .. MaxRoll]
      /\ \A q \in Procs \ {p} : turn'[q] = turn[q]
  BY <1>1
<1>4. call' \in [Procs -> {"system", "access", "close"}]
  BY <1>1
<1> QED
  BY <1>2, <1>3, <1>4

LEMMA TypesOpening ==
  ASSUME TypeInv, LogInit \/ \E w \in Workers : Fork(w) \/ LogReopen(w)
  PROVE  TypeInv'
<1> USE DEF TypeInv
<1>1. /\ dir \in [Names -> Seq(Lines) \cup {Absent}]
      /\ g_system_log \in [Procs -> Streams]
      /\ g_access_log \in [Procs -> Streams]
  BY DEF TypeOK, Lines, Streams
<1>2. /\ <<"system", 0>> \in Names /\ <<"access", 0>> \in Names
      /\ <<"system", 0>> \in Streams /\ <<"access", 0>> \in Streams
      /\ Null \in Streams
  BY NamesAre DEF Streams
<1>3. CASE LogInit
  <2>1. /\ Len(Contents(<<"system", 0>>)) \in Nat
        /\ Len(Contents(<<"access", 0>>)) \in Nat
    BY <1>2, ContentsAre
  <2>2. dir' \in [Names -> Seq(Lines) \cup {Absent}]
    BY <1>3, OpenedTypes DEF LogInit
  <2>3. failed' \subseteq Logs
    BY <1>3, NamesAre DEF LogInit, MayFail, TypeOK
  <2>4. /\ g_system_log' \in [Procs -> Streams]
        /\ g_system_lines' \in [Procs -> Nat]
        /\ shared' \in [Procs -> BOOLEAN]
    BY <1>1, <1>2, <1>3, <2>1 DEF LogInit, TypeOK
  <2>5. g_system_lines'[Main] \in Nat
    BY <2>4, NamesAre
  <2>6. \E s \in Streams : g_access_log' = [g_access_log EXCEPT ![Main] = s]
    BY <1>2, <1>3 DEF LogInit
  <2>7. \E n \in Nat : g_access_lines' = [g_access_lines EXCEPT ![Main] = n]
    BY <1>3, <2>1, <2>5 DEF LogInit
  <2>8. /\ g_access_log' \in [Procs -> Streams]
        /\ g_access_lines' \in [Procs -> Nat]
    <3>1. g_access_log' \in [Procs -> Streams]
      BY <1>1, <2>6
    <3>2. g_access_lines \in [Procs -> Nat]
      BY DEF TypeOK
    <3>3. g_access_lines' \in [Procs -> Nat]
      BY <2>7, <3>2
    <3> QED
      BY <3>1, <3>3
  <2>9. /\ pc' = [pc EXCEPT ![Main] = "log"]
        /\ call' = [call EXCEPT ![Main] = "system"] /\ forked' = {}
        /\ deploy' = deploy /\ turn' = turn /\ written' = written
        /\ crashes' = crashes
    BY <1>3 DEF LogInit
  <2>10. /\ pc' \in [Procs -> {"off", "forked", "idle", "log", "shift", "rename",
                               "open", "write", "closing", "undefined"}]
         /\ call' \in [Procs -> {"system", "access", "close"}]
         /\ turn' \in [Procs -> 0 .. MaxRoll] /\ pc'[Main] # "shift"
         /\ \A q \in Procs \ {Main} : pc'[q] = pc[q] /\ turn'[q] = turn[q]
    BY <2>9, NamesAre, NextControl
  <2>11. /\ crashes' \in Nat /\ forked' \subseteq Workers
         /\ written' \in [Procs -> [Logs -> Nat]]
    BY <2>9 DEF TypeOK
  <2> QED
    BY <2>2, <2>3, <2>4, <2>8, <2>9, <2>10, <2>11, NamesAre, ControlTypes
<1>4. ASSUME NEW w \in Workers, Fork(w) PROVE TypeInv'
  <2>1. w \in Procs /\ Main \in Procs
    BY NamesAre
  <2>2. /\ g_system_log' \in [Procs -> Streams]
        /\ g_access_log' \in [Procs -> Streams]
        /\ shared' \in [Procs -> BOOLEAN]
        /\ g_system_lines' \in [Procs -> Nat]
        /\ g_access_lines' \in [Procs -> Nat]
    BY <1>1, <1>4, <2>1 DEF Fork, TypeOK
  <2>3. /\ forked' \subseteq Workers /\ pc' = [pc EXCEPT ![w] = "forked"]
        /\ UNCHANGED <<deploy, failed, crashes, dir, call, turn, written>>
    BY <1>4 DEF Fork, TypeOK
  <2> QED
    BY <1>1, <2>1, <2>2, <2>3, ControlTypes DEF TypeOK
<1>5. ASSUME NEW w \in Workers, LogReopen(w) PROVE TypeInv'
  <2>1. w \in Procs
    BY NamesAre
  <2>2. /\ failed' \subseteq Logs
        /\ \E s \in Streams : g_system_log' = [g_system_log EXCEPT ![w] = s]
        /\ \E s \in Streams : g_access_log' = [g_access_log EXCEPT ![w] = s]
        /\ \E b \in BOOLEAN : shared' = [shared EXCEPT ![w] = b]
        /\ \E n \in Nat :
             g_system_lines' = [g_system_lines EXCEPT ![w] = n]
    BY <1>2, <1>5, <2>1 DEF LogReopen, TypeOK
  <2>3. \E n \in Nat : g_access_lines' = [g_access_lines EXCEPT ![w] = n]
    BY <1>5, <2>1 DEF LogReopen, TypeOK
  <2>4. dir' \in [Names -> Seq(Lines) \cup {Absent}]
    BY <1>5, OpenedTypes DEF LogReopen
  <2>5. /\ g_system_log' \in [Procs -> Streams]
        /\ g_access_log' \in [Procs -> Streams]
        /\ shared' \in [Procs -> BOOLEAN]
        /\ g_system_lines' \in [Procs -> Nat]
        /\ g_access_lines' \in [Procs -> Nat]
    <3>1. /\ shared \in [Procs -> BOOLEAN]
          /\ g_system_lines \in [Procs -> Nat]
          /\ g_access_lines \in [Procs -> Nat]
      BY DEF TypeOK
    <3>2. /\ g_system_log' \in [Procs -> Streams]
          /\ g_access_log' \in [Procs -> Streams]
      BY <1>1, <2>2
    <3>3. shared' \in [Procs -> BOOLEAN] /\ g_system_lines' \in [Procs -> Nat]
      BY <2>2, <3>1
    <3>4. g_access_lines' \in [Procs -> Nat]
      BY <2>3, <3>1
    <3> QED
      BY <3>2, <3>3, <3>4
  <2>6. /\ pc' = [pc EXCEPT ![w] = "idle"]
        /\ UNCHANGED <<deploy, crashes, forked, call, turn, written>>
    BY <1>5 DEF LogReopen
  <2>7. /\ pc' \in [Procs -> {"off", "forked", "idle", "log", "shift", "rename",
                               "open", "write", "closing", "undefined"}]
        /\ call' \in [Procs -> {"system", "access", "close"}]
        /\ turn' \in [Procs -> 0 .. MaxRoll] /\ pc'[w] # "shift"
        /\ \A q \in Procs \ {w} : pc'[q] = pc[q] /\ turn'[q] = turn[q]
    BY <2>1, <2>6, NextControl
  <2>8. /\ crashes' \in Nat /\ forked' \subseteq Workers
        /\ written' \in [Procs -> [Logs -> Nat]]
    BY <2>6 DEF TypeOK
  <2> QED
    BY <2>1, <2>2, <2>4, <2>5, <2>6, <2>7, <2>8, ControlTypes
<1> QED
  BY <1>3, <1>4, <1>5

LEMMA ResetTypes ==
  ASSUME TypeOK, NEW p \in Procs, ResetCount(p)
  PROVE  g_system_lines' \in [Procs -> Nat] /\ g_access_lines' \in [Procs -> Nat]
<1>1. g_system_lines \in [Procs -> Nat] /\ g_access_lines \in [Procs -> Nat]
  BY DEF TypeOK
<1>2. CASE call[p] = "access"
  BY <1>1, <1>2 DEF ResetCount
<1>3. CASE call[p] # "access"
  BY <1>1, <1>3 DEF ResetCount
<1> QED
  BY <1>2, <1>3

LEMMA TypesRotation ==
  ASSUME TypeInv, NEW p \in Procs,
         \/ CloseStream(p) \/ Shift(p) \/ RenameCurrent(p)
         \/ OpenNew(p) \/ OpenFails(p)
  PROVE  TypeInv'
<1> USE DEF TypeInv
<1>1. /\ dir \in [Names -> Seq(Lines) \cup {Absent}]
      /\ g_system_log \in [Procs -> Streams]
      /\ g_access_log \in [Procs -> Streams]
      /\ Null \in Streams /\ Closed \in Streams /\ MaxRoll \in 0 .. MaxRoll
  BY NamesAre DEF TypeOK, Lines, Streams
<1>2. CASE CloseStream(p)
  <2>1. /\ \E s \in Streams : g_system_log' = [g_system_log EXCEPT ![p] = s]
        /\ \E s \in Streams : g_access_log' = [g_access_log EXCEPT ![p] = s]
        /\ shared' \in [Procs -> BOOLEAN]
    BY <1>1, <1>2 DEF CloseStream, TypeOK
  <2>2. /\ pc' = [pc EXCEPT ![p] = "shift"]
        /\ turn' = [turn EXCEPT ![p] = MaxRoll]
        /\ UNCHANGED <<bounds, dir, counts, call, written>>
    BY <1>2 DEF CloseStream
  <2>3. /\ g_system_log' \in [Procs -> Streams]
        /\ g_access_log' \in [Procs -> Streams]
    BY <1>1, <2>1
  <2>4. turn'[p] = MaxRoll /\ turn' \in [Procs -> 0 .. MaxRoll]
    BY <1>1, <2>2 DEF TypeOK
  <2> QED
    BY <1>1, <2>1, <2>2, <2>3, <2>4, NamesAre, ControlTypes
       DEF TypeOK, bounds, counts
<1>3. CASE Shift(p) \/ RenameCurrent(p)
  <2>1. /\ dir' \in [Names -> Seq(Lines) \cup {Absent}]
        /\ g_system_log' \in [Procs -> Streams]
        /\ g_access_log' \in [Procs -> Streams]
    <3>1. ASSUME NEW i \in 0 .. MaxRoll - 1
          PROVE  i \in 0 .. MaxRoll /\ i + 1 \in 0 .. MaxRoll
      BY NamesAre
    <3> QED
      BY <1>1, <1>3, <3>1, RotationMoves, RenameTypes, NamesAre
  <2>2. UNCHANGED <<bounds, shared, counts, call, written>>
    BY <1>3 DEF Shift, RenameCurrent
  <2>3. CASE Shift(p)
    <3>1. turn[p] \in 1 .. MaxRoll
      BY <2>3 DEF Shift, TypeOK, Turning
    <3>2. /\ turn' = [turn EXCEPT ![p] = turn[p] - 1]
          /\ turn[p] - 1 \in 0 .. MaxRoll
          /\ pc' = [pc EXCEPT ![p] = IF turn[p] = 1 THEN "rename" ELSE "shift"]
      BY <2>3, <3>1, NamesAre DEF Shift
    <3>3. /\ turn' \in [Procs -> 0 .. MaxRoll] /\ turn'[p] = turn[p] - 1
          /\ pc'[p] = IF turn[p] = 1 THEN "rename" ELSE "shift"
      BY <3>2 DEF TypeOK
    <3>4. pc'[p] = "shift" => turn'[p] >= 1
      BY <3>1, <3>3, NamesAre
    <3> QED
      BY <2>1, <2>2, <3>2, <3>3, <3>4, ControlTypes DEF TypeOK, bounds, counts
  <2>4. CASE RenameCurrent(p)
    <3>1. pc' = [pc EXCEPT ![p] = "open"] /\ turn' = turn
      BY <2>4 DEF RenameCurrent
    <3> QED
      BY <2>1, <2>2, <3>1, ControlTypes DEF TypeOK, bounds, counts
  <2> QED
    BY <1>3, <2>3, <2>4
<1>4. CASE OpenNew(p)
  <2>1. <<RotLog(p), 0>> \in Streams
    BY NamesAre DEF RotLog, Streams
  <2>2. /\ \E s \in Streams : g_system_log' = [g_system_log EXCEPT ![p] = s]
        /\ \E s \in Streams : g_access_log' = [g_access_log EXCEPT ![p] = s]
        /\ \E b \in BOOLEAN : shared' = [shared EXCEPT ![p] = b]
    BY <1>1, <1>4, <2>1 DEF OpenNew, Reused
  <2>3. /\ pc' = [pc EXCEPT ![p] = "write"]
        /\ dir' = Opened({<<RotLog(p), 0>>})
        /\ ResetCount(p) /\ UNCHANGED <<bounds, call, turn, written>>
    BY <1>4 DEF OpenNew
  <2>4. /\ g_system_log' \in [Procs -> Streams]
        /\ g_access_log' \in [Procs -> Streams]
        /\ shared' \in [Procs -> BOOLEAN]
    <3>1. shared \in [Procs -> BOOLEAN]
      BY DEF TypeOK
    <3> QED
      BY <1>1, <2>2, <3>1
  <2>5. /\ g_system_lines' \in [Procs -> Nat]
        /\ g_access_lines' \in [Procs -> Nat]
    BY <2>3, ResetTypes
  <2>6. dir' \in [Names -> Seq(Lines) \cup {Absent}]
    BY <2>3, OpenedTypes
  <2> QED
    BY <2>3, <2>4, <2>5, <2>6, ControlTypes DEF TypeOK, bounds
<1>5. CASE OpenFails(p)
  <2>1. failed' \subseteq Logs
    BY <1>5, NamesAre DEF OpenFails, MayFail, RotLog, TypeOK
  <2>2. /\ g_system_lines' \in [Procs -> Nat]
        /\ g_access_lines' \in [Procs -> Nat]
    BY <1>5, ResetTypes DEF OpenFails
  <2>3. /\ \E next \in {"idle", "closing"} : pc' = [pc EXCEPT ![p] = next]
        /\ call' = [call EXCEPT ![p] = "system"]
        /\ UNCHANGED <<deploy, crashes, forked, dir, streams, turn, written>>
    BY <1>5 DEF OpenFails, Return
  <2>4. /\ pc' \in [Procs -> {"off", "forked", "idle", "log", "shift", "rename",
                               "open", "write", "closing", "undefined"}]
        /\ call' \in [Procs -> {"system", "access", "close"}]
        /\ turn' \in [Procs -> 0 .. MaxRoll] /\ pc'[p] # "shift"
        /\ \A q \in Procs \ {p} : pc'[q] = pc[q] /\ turn'[q] = turn[q]
    BY <2>3, NextControl
  <2>5. /\ crashes' \in Nat /\ forked' \subseteq Workers
        /\ written' \in [Procs -> [Logs -> Nat]]
        /\ shared' \in [Procs -> BOOLEAN] /\ deploy' = deploy
    BY <2>3 DEF TypeOK, streams
  <2>6. /\ dir' \in [Names -> Seq(Lines) \cup {Absent}]
        /\ g_system_log' \in [Procs -> Streams]
        /\ g_access_log' \in [Procs -> Streams]
    BY <1>1, <2>3 DEF streams
  <2> QED
    BY <2>1, <2>2, <2>4, <2>5, <2>6, ControlTypes
<1> QED
  BY <1>2, <1>3, <1>4, <1>5

(* The file of an open stream exists, if it has a name. *)
Present ==
  \A p \in Procs :
    /\ g_system_log[p] \in Names => dir[g_system_log[p]] # Absent
    /\ g_access_log[p] \in Names => dir[g_access_log[p]] # Absent

LEMMA TypesCall ==
  ASSUME TypeInv, Present, NEW p \in Procs,
         \/ \E c \in {"system", "access", "close"} : Call(p, c)
         \/ Drop(p) \/ Undefined(p) \/ Write(p) \/ LogClose(p) \/ Crash(p)
  PROVE  TypeInv'
<1> USE DEF TypeInv
<1>1. /\ dir \in [Names -> Seq(Lines) \cup {Absent}]
      /\ g_system_log \in [Procs -> Streams]
      /\ g_access_log \in [Procs -> Streams]
      /\ shared \in [Procs -> BOOLEAN]
      /\ g_system_lines \in [Procs -> Nat] /\ g_access_lines \in [Procs -> Nat]
      /\ written \in [Procs -> [Logs -> Nat]]
      /\ Null \in Streams /\ 0 \in 0 .. MaxRoll
  BY NamesAre DEF TypeOK, Lines, Streams
<1>2. CASE \/ \E c \in {"system", "access", "close"} : Call(p, c)
           \/ Drop(p) \/ Undefined(p)
  <2>1. /\ \E next \in {"log", "idle", "closing", "undefined"} :
             pc' = [pc EXCEPT ![p] = next]
        /\ \E c \in {"system", "access", "close"} :
             call' = [call EXCEPT ![p] = c]
        /\ UNCHANGED <<bounds, dir, streams, counts, turn, written>>
    <3>1. CASE Undefined(p)
      <4>1. /\ call = [call EXCEPT ![p] = call[p]]
            /\ call[p] \in {"system", "access", "close"}
        BY DEF TypeOK
      <4>2. call' = call /\ pc' = [pc EXCEPT ![p] = "undefined"]
        BY <3>1 DEF Undefined
      <4> QED
        BY <3>1, <4>1, <4>2 DEF Undefined
    <3>2. CASE Drop(p)
      BY <3>2 DEF Drop, Return
    <3>3. CASE \E c \in {"system", "access", "close"} : Call(p, c)
      BY <3>3 DEF Call
    <3> QED
      BY <1>2, <3>1, <3>2, <3>3
  <2> QED
    <3>1. PICK next \in {"log", "idle", "closing", "undefined"} :
            pc' = [pc EXCEPT ![p] = next]
      BY <2>1
    <3>2. /\ pc' \in [Procs -> {"off", "forked", "idle", "log", "shift", "rename",
                                "open", "write", "closing", "undefined"}]
          /\ pc'[p] = next /\ \A q \in Procs \ {p} : pc'[q] = pc[q]
          /\ call' \in [Procs -> {"system", "access", "close"}]
      BY <2>1, <3>1 DEF TypeOK
    <3>3. UNCHANGED <<deploy, failed, crashes, forked, dir, g_system_log,
                      g_access_log, shared, g_system_lines, g_access_lines,
                      turn, written>>
      BY <2>1 DEF bounds, streams, counts
    <3> QED
      BY <1>1, <3>2, <3>3, ControlTypes DEF TypeOK
<1>3. CASE Write(p)
  <2> DEFINE l == IF call[p] = "access" THEN "access" ELSE "system"
             line == <<p, l, written[p][l] + 1>>
  <2>1. l \in Logs /\ line \in Lines /\ written[p][l] + 1 \in Nat
    BY <1>1, NamesAre DEF Lines
  <2>2. /\ written' = [written EXCEPT ![p][l] = @ + 1]
        /\ dir' = IF Stream(p) = Unlinked THEN dir
                  ELSE Appended(Stream(p), line)
        /\ \/ /\ g_access_lines' = [g_access_lines EXCEPT ![p] = @ + 1]
              /\ UNCHANGED g_system_lines
           \/ /\ g_system_lines' = [g_system_lines EXCEPT ![p] = @ + 1]
              /\ UNCHANGED g_access_lines
        /\ \E next \in {"idle", "closing"} : pc' = [pc EXCEPT ![p] = next]
        /\ call' = [call EXCEPT ![p] = "system"]
        /\ UNCHANGED <<bounds, streams, turn>>
    BY <1>3 DEF Write, Return
  <2> HIDE DEF l, line
  <2>3. written' \in [Procs -> [Logs -> Nat]]
    BY <1>1, <2>1, <2>2
  <2>4. /\ g_system_lines' \in [Procs -> Nat]
        /\ g_access_lines' \in [Procs -> Nat]
    <3>1. CASE /\ g_access_lines' = [g_access_lines EXCEPT ![p] = @ + 1]
               /\ UNCHANGED g_system_lines
      BY <1>1, <3>1
    <3>2. CASE /\ g_system_lines' = [g_system_lines EXCEPT ![p] = @ + 1]
               /\ UNCHANGED g_access_lines
      BY <1>1, <3>2
    <3> QED
      BY <2>2, <3>1, <3>2
  <2>5. dir' \in [Names -> Seq(Lines) \cup {Absent}]
    <3>1. CASE Stream(p) = Unlinked
      BY <1>1, <2>2, <3>1
    <3>2. CASE Stream(p) # Unlinked
      <4>1. Stream(p) \in Names
        BY <1>1, <1>3, <3>2 DEF Write, Stream, IsOpen, Streams
      <4>2. dir[Stream(p)] # Absent
        BY <4>1 DEF Present, Stream
      <4>3. Append(dir[Stream(p)], line) \in Seq(Lines)
        BY <1>1, <2>1, <4>1, <4>2
      <4> QED
        BY <1>1, <2>2, <3>2, <4>1, <4>3 DEF Appended
    <3> QED
      BY <3>1, <3>2
  <2> QED
    <3>1. PICK next \in {"idle", "closing"} : pc' = [pc EXCEPT ![p] = next]
      BY <2>2
    <3>2. /\ pc' \in [Procs -> {"off", "forked", "idle", "log", "shift", "rename",
                                "open", "write", "closing", "undefined"}]
          /\ pc'[p] = next /\ \A q \in Procs \ {p} : pc'[q] = pc[q]
          /\ call' \in [Procs -> {"system", "access", "close"}]
      BY <2>2, <3>1 DEF TypeOK
    <3>3. UNCHANGED <<deploy, failed, crashes, forked, g_system_log,
                      g_access_log, shared, turn>>
      BY <2>2 DEF bounds, streams
    <3> QED
      BY <1>1, <2>3, <2>4, <2>5, <3>2, <3>3, ControlTypes DEF TypeOK
<1>4. CASE LogClose(p) \/ Crash(p)
  <2>1. /\ g_system_log' = [g_system_log EXCEPT ![p] = Null]
        /\ g_access_log' = [g_access_log EXCEPT ![p] = Null]
        /\ shared' = [shared EXCEPT ![p] = FALSE]
        /\ g_system_lines' = [g_system_lines EXCEPT ![p] = 0]
        /\ g_access_lines' = [g_access_lines EXCEPT ![p] = 0]
        /\ call' = [call EXCEPT ![p] = "system"]
        /\ turn' = [turn EXCEPT ![p] = 0]
        /\ UNCHANGED <<deploy, failed, forked, dir, written>>
    BY <1>4 DEF LogClose, Crash, Forget, bounds
  <2>2. /\ \E next \in {"undefined", "off"} : pc' = [pc EXCEPT ![p] = next]
        /\ crashes' \in Nat
    BY <1>4 DEF LogClose, Crash, bounds, TypeOK
  <2>3. /\ pc' \in [Procs -> {"off", "forked", "idle", "log", "shift", "rename",
                               "open", "write", "closing", "undefined"}]
        /\ call' \in [Procs -> {"system", "access", "close"}]
        /\ turn' \in [Procs -> 0 .. MaxRoll] /\ pc'[p] # "shift"
        /\ \A q \in Procs \ {p} : pc'[q] = pc[q] /\ turn'[q] = turn[q]
    BY <2>1, <2>2, NextControl
  <2>4. /\ g_system_lines' \in [Procs -> Nat]
        /\ g_access_lines' \in [Procs -> Nat]
        /\ shared' \in [Procs -> BOOLEAN]
    BY <2>1 DEF TypeOK
  <2>5. /\ g_system_log' \in [Procs -> Streams]
        /\ g_access_log' \in [Procs -> Streams]
        /\ dir' \in [Names -> Seq(Lines) \cup {Absent}]
    <3>1. Null \in Streams
      BY DEF Streams
    <3> QED
      BY <1>1, <2>1, <3>1
  <2>6. /\ failed' \subseteq Logs /\ forked' \subseteq Workers
        /\ written' \in [Procs -> [Logs -> Nat]] /\ deploy' = deploy
    BY <2>1 DEF TypeOK
  <2> QED
    BY <2>2, <2>3, <2>4, <2>5, <2>6, ControlTypes
<1> QED
  BY <1>2, <1>3, <1>4

LEMMA TypesStep == TypeInv /\ Present /\ [Next]_vars => TypeInv'
<1> SUFFICES ASSUME TypeInv, Present, [Next]_vars PROVE TypeInv'
  OBVIOUS
<1>1. CASE LogInit \/ \E w \in Workers : Fork(w) \/ LogReopen(w)
  BY <1>1, TypesOpening
<1>2. ASSUME NEW p \in Procs, Step(p) PROVE TypeInv'
  BY <1>2, TypesRotation, TypesCall DEF Step
<1>3. CASE UNCHANGED vars
  BY <1>3 DEF vars, streams, counts, TypeInv, TypeOK, Turning
<1> QED
  BY <1>1, <1>2, <1>3 DEF Next

-----------------------------------------------------------------------------
(* The order of the lines.                                                 *)

(* Where the next line of p of log l goes. *)
Target(p, l) == IF l = "access" /\ g_access_log[p] # Null
                THEN g_access_log[p] ELSE g_system_log[p]

(* No line has a number that was not given yet. *)
Numbered ==
  \A n \in Names : \A i \in DOMAIN Contents(n) :
    LET line == Contents(n)[i] IN line[3] <= written[line[1]][line[2]]

(* No file that is newer than the one p writes to has a line of p.         *)
Behind(p, l) ==
  \A f \in Logs : \A m, k \in 0 .. MaxRoll :
    Target(p, l) = <<f, m>> =>
      \A i \in DOMAIN Contents(<<f, k>>) :
        LET line == Contents(<<f, k>>)[i]
        IN  line[1] = p /\ line[2] = l => k >= m

AllBehind ==
  \A p \in Procs, l \in Logs : pc[p] \notin {"off", "forked"} => Behind(p, l)

OrderInv == TypeInv /\ Present /\ Numbered /\ AllBehind /\ OrderIsKept

(* What a step of a rotation does to the files: file i of log l moves, or  *)
(* is no more, and so do the streams on it; a file it replaces is no more. *)
MovedName(s, a, b, moved) ==
  IF s = a THEN IF moved THEN b ELSE Unlinked
  ELSE IF moved /\ s = b THEN Unlinked ELSE s

Moves(l, i, moved) ==
  LET a == <<l, i>>
      b == <<l, i + 1>>
  IN  /\ moved => i < MaxRoll
      /\ Contents(a)' = <<>>
      /\ \A n \in Names \ {a} :
           Contents(n)' = IF moved /\ n = b THEN Contents(a) ELSE Contents(n)
      /\ \A n \in Names \ {a} :
           (dir'[n] = Absent) = IF moved /\ n = b THEN FALSE ELSE dir[n] = Absent
      /\ \A p \in Procs :
           /\ g_system_log'[p] = MovedName(g_system_log[p], a, b, moved)
           /\ g_access_log'[p] = MovedName(g_access_log[p], a, b, moved)

LEMMA UnlinkMoves ==
  ASSUME TypeInv, NEW l \in Logs, NEW i \in 0 .. MaxRoll, Unlink(<<l, i>>)
  PROVE  Moves(l, i, FALSE)
<1> DEFINE a == <<l, i>>
<1>1. a \in Names
  BY NamesAre
<1>2. dir' = [dir EXCEPT ![a] = Absent] /\ DOMAIN dir = Names
  BY DEF Unlink, TypeInv, TypeOK
<1>3. /\ g_system_log' = Moved(g_system_log, a, Unlinked)
      /\ g_access_log' = Moved(g_access_log, a, Unlinked)
  BY DEF Unlink
<1> HIDE DEF a
<1>4. dir'[a] = Absent /\ \A n \in Names \ {a} : dir'[n] = dir[n]
  BY <1>1, <1>2
<1>5. Contents(a)' = <<>> /\ \A n \in Names \ {a} : Contents(n)' = Contents(n)
  BY <1>4 DEF Contents
<1>6. \A p \in Procs :
        /\ g_system_log'[p] = MovedName(g_system_log[p], a, <<l, i + 1>>, FALSE)
        /\ g_access_log'[p] = MovedName(g_access_log[p], a, <<l, i + 1>>, FALSE)
  BY <1>3 DEF Moved, MovedName
<1> QED
  BY <1>4, <1>5, <1>6 DEF Moves, a

LEMMA RenameMoves ==
  ASSUME TypeInv, Present, NEW l \in Logs, NEW i \in 0 .. MaxRoll - 1,
         Rename(<<l, i>>, <<l, i + 1>>)
  PROVE  Moves(l, i, TRUE) \/ Moves(l, i, FALSE)
<1> DEFINE a == <<l, i>>
           b == <<l, i + 1>>
<1>1. a \in Names /\ b \in Names /\ a # b /\ i < MaxRoll
  BY NamesAre
<1>2. CASE dir[a] = Absent
  <2>1. UNCHANGED <<dir, g_system_log, g_access_log>>
    BY <1>2 DEF Rename
  <2>2. \A p \in Procs : g_system_log[p] # a /\ g_access_log[p] # a
    BY <1>1, <1>2 DEF Present
  <2>3. Contents(a) = <<>>
    BY <1>2 DEF Contents
  <2>4. \A n \in Names : Contents(n)' = Contents(n)
    BY <2>1 DEF Contents
  <2> HIDE DEF a, b
  <2>5. Contents(a)' = <<>> /\ dir'[a] = Absent
    BY <1>1, <1>2, <2>1, <2>3, <2>4
  <2>6. \A p \in Procs :
          /\ g_system_log'[p] = MovedName(g_system_log[p], a, b, FALSE)
          /\ g_access_log'[p] = MovedName(g_access_log[p], a, b, FALSE)
    BY <2>1, <2>2 DEF MovedName
  <2> QED
    BY <2>1, <2>4, <2>5, <2>6 DEF Moves, a, b
<1>3. CASE dir[a] # Absent
  <2>1. /\ dir' = [dir EXCEPT ![b] = dir[a], ![a] = Absent]
        /\ g_system_log' = Moved(Moved(g_system_log, b, Unlinked), a, b)
        /\ g_access_log' = Moved(Moved(g_access_log, b, Unlinked), a, b)
    BY <1>3 DEF Rename
  <2>2. DOMAIN dir = Names /\ Unlinked # a
    BY <1>1, NamesAre DEF TypeInv, TypeOK
  <2> HIDE DEF a, b
  <2>3. /\ dir'[a] = Absent /\ dir'[b] = dir[a]
        /\ \A n \in Names \ {a, b} : dir'[n] = dir[n]
    BY <1>1, <2>1, <2>2
  <2>4. /\ Contents(a)' = <<>> /\ Contents(b)' = Contents(a)
        /\ \A n \in Names \ {a, b} : Contents(n)' = Contents(n)
    BY <2>3 DEF Contents
  <2>5. \A p \in Procs :
          /\ g_system_log'[p] = MovedName(g_system_log[p], a, b, TRUE)
          /\ g_access_log'[p] = MovedName(g_access_log[p], a, b, TRUE)
    BY <1>1, <2>1, <2>2 DEF Moved, MovedName
  <2>6. /\ \A n \in Names \ {a} : Contents(n)' =
               IF TRUE /\ n = b THEN Contents(a) ELSE Contents(n)
        /\ \A n \in Names \ {a} : (dir'[n] = Absent) =
               IF TRUE /\ n = b THEN FALSE ELSE dir[n] = Absent
    BY <1>3, <2>3, <2>4
  <2> QED
    BY <1>1, <2>4, <2>5, <2>6 DEF Moves, a, b
<1> QED
  BY <1>2, <1>3

LEMMA RotationIs ==
  ASSUME TypeInv, Present, NEW p \in Procs, Shift(p) \/ RenameCurrent(p)
  PROVE  \E l \in Logs, i \in 0 .. MaxRoll, moved \in BOOLEAN :
           Moves(l, i, moved)
<1>1. RotLog(p) \in Logs /\ MaxRoll \in 0 .. MaxRoll
  BY NamesAre DEF RotLog
<1>2. ASSUME NEW i \in 0 .. MaxRoll - 1 PROVE i \in 0 .. MaxRoll
  BY NamesAre
<1>3. CASE Unlink(<<RotLog(p), MaxRoll>>)
  BY <1>1, <1>3, UnlinkMoves
<1>4. ASSUME NEW i \in 0 .. MaxRoll - 1,
             Rename(<<RotLog(p), i>>, <<RotLog(p), i + 1>>)
      PROVE  Moves(RotLog(p), i, TRUE) \/ Moves(RotLog(p), i, FALSE)
  BY <1>1, <1>4, RenameMoves
<1> QED
  BY <1>1, <1>2, <1>3, <1>4, RotationMoves

(* A rotation keeps the order, because it keeps the order of the files.    *)
LEMMA MovesKeep ==
  ASSUME OrderInv, TypeInv', NEW l \in Logs, NEW i \in 0 .. MaxRoll,
         NEW moved \in BOOLEAN, Moves(l, i, moved), written' = written,
         \A p \in Procs : pc'[p] \notin {"off", "forked"} =>
                            pc[p] \notin {"off", "forked"}
  PROVE  OrderInv'
<1> USE DEF OrderInv
<1> DEFINE a == <<l, i>>
           b == <<l, i + 1>>
           From(k) == IF moved /\ k = i + 1 THEN i ELSE k
<1>1. /\ Contents(a)' = <<>> /\ a \in Names /\ a # b
      /\ moved => i < MaxRoll /\ b \in Names
      /\ \A n \in Names \ {a} :
           Contents(n)' = IF moved /\ n = b THEN Contents(a) ELSE Contents(n)
      /\ \A n \in Names \ {a} :
           (dir'[n] = Absent) = IF moved /\ n = b THEN FALSE ELSE dir[n] = Absent
  <2>1. a \in Names /\ a # b
    BY NamesAre
  <2>2. moved => i < MaxRoll /\ i + 1 \in 0 .. MaxRoll
    BY NamesAre DEF Moves
  <2>3. moved => b \in Names
    BY <2>2, NamesAre
  <2> QED
    BY <2>1, <2>2, <2>3 DEF Moves
<1>2. \A p \in Procs :
        /\ g_system_log'[p] = MovedName(g_system_log[p], a, b, moved)
        /\ g_access_log'[p] = MovedName(g_access_log[p], a, b, moved)
  BY DEF Moves
<1>3. /\ Unlinked \notin Names /\ Null \notin Names /\ Null # Unlinked
      /\ \A m \in Logs : \A k \in 0 .. MaxRoll : <<m, k>> \in Names
      /\ MaxRoll \in Nat
  BY NamesAre
<1>4. Present'
  <2>1. ASSUME NEW s, NEW t, s \in Names => dir[s] # Absent,
               t = MovedName(s, a, b, moved), t \in Names
        PROVE  dir'[t] # Absent
    BY <1>1, <1>3, <2>1 DEF MovedName
  <2> HIDE DEF a, b
  <2> QED
    BY <1>2, <2>1 DEF Present
<1>5. ASSUME NEW m \in Logs, NEW k \in 0 .. MaxRoll,
             NEW j \in DOMAIN Contents(<<m, k>>)'
      PROVE  /\ m = l => k # i
             /\ m # l => Contents(<<m, k>>)' = Contents(<<m, k>>)
             /\ m = l => Contents(<<m, k>>)' = Contents(<<m, From(k)>>)
             /\ From(k) \in 0 .. MaxRoll
  <2>1. <<m, k>> # a
    BY <1>1, <1>5
  <2>2. m = l => k # i
    BY <2>1
  <2>3. From(k) \in 0 .. MaxRoll
    OBVIOUS
  <2>4. CASE m # l
    BY <1>1, <1>3, <2>1, <2>2, <2>3, <2>4
  <2>5. CASE m = l /\ moved /\ k = i + 1
    <3>1. <<m, k>> = b
      BY <2>5
    <3>2. <<m, From(k)>> = a
      BY <2>5
    <3> HIDE DEF a, b, From
    <3>3. Contents(<<m, k>>)' = Contents(a)
      BY <1>1, <1>3, <2>1, <2>5, <3>1
    <3> QED
      BY <2>2, <2>3, <2>5, <3>2, <3>3
  <2>6. CASE m = l /\ ~(moved /\ k = i + 1)
    <3>1. ~(moved /\ <<m, k>> = b) /\ From(k) = k
      BY <2>6
    <3> HIDE DEF a, b, From
    <3>2. Contents(<<m, k>>)' = Contents(<<m, k>>)
      BY <1>1, <1>3, <2>1, <3>1
    <3> QED
      BY <2>2, <2>3, <2>6, <3>1, <3>2
  <2> QED
    BY <2>4, <2>5, <2>6
<1>6. Numbered'
  <2> SUFFICES ASSUME NEW n \in Names, NEW j \in DOMAIN Contents(n)'
               PROVE  LET line == Contents(n)'[j]
                      IN  line[3] <= written'[line[1]][line[2]]
    BY DEF Numbered
  <2>1. n[1] \in Logs /\ n[2] \in 0 .. MaxRoll /\ n = <<n[1], n[2]>>
    BY NamesAre
  <2>2. \E from \in Names : Contents(n)' = Contents(from)
    BY <1>3, <1>5, <2>1
  <2> QED
    BY <2>2 DEF Numbered
<1>7. OrderIsKept'
  <2> SUFFICES ASSUME NEW m \in Logs, NEW c \in 0 .. MaxRoll,
                      NEW d \in 0 .. MaxRoll,
                      NEW j \in DOMAIN Contents(<<m, c>>)',
                      NEW k \in DOMAIN Contents(<<m, d>>)',
                      c > d \/ (c = d /\ j < k),
                      Contents(<<m, c>>)'[j][1] = Contents(<<m, d>>)'[k][1],
                      Contents(<<m, c>>)'[j][2] = Contents(<<m, d>>)'[k][2]
               PROVE  Contents(<<m, c>>)'[j][3] < Contents(<<m, d>>)'[k][3]
    BY DEF OrderIsKept
  <2>1. CASE m # l
    <3>1. /\ Contents(<<m, c>>)' = Contents(<<m, c>>)
          /\ Contents(<<m, d>>)' = Contents(<<m, d>>)
      BY <1>5, <2>1
    <3> QED
      BY <3>1 DEF OrderIsKept
  <2>2. CASE m = l
    <3>1. /\ c # i /\ d # i
          /\ Contents(<<m, c>>)' = Contents(<<m, From(c)>>)
          /\ Contents(<<m, d>>)' = Contents(<<m, From(d)>>)
          /\ From(c) \in 0 .. MaxRoll /\ From(d) \in 0 .. MaxRoll
      BY <1>5, <2>2
    <3>2. From(c) > From(d) \/ (From(c) = From(d) /\ j < k)
      BY <3>1
    <3> HIDE DEF From
    <3> QED
      BY <3>1, <3>2 DEF OrderIsKept
  <2> QED
    BY <2>1, <2>2
<1>8. AllBehind'
  <2> SUFFICES ASSUME NEW p \in Procs, NEW c \in Logs, Behind(p, c),
                      NEW f \in Logs, NEW m \in 0 .. MaxRoll,
                      NEW k \in 0 .. MaxRoll,
                      Target(p, c)' = <<f, m>>,
                      NEW j \in DOMAIN Contents(<<f, k>>)',
                      Contents(<<f, k>>)'[j][1] = p,
                      Contents(<<f, k>>)'[j][2] = c
               PROVE  k >= m
    BY DEF AllBehind, Behind
  <2> DEFINE s == Target(p, c)
             t == <<f, m>>
  <2>1. t = MovedName(s, a, b, moved)
    BY <1>1, <1>2, <1>3 DEF Target, MovedName
  <2>2. t \in Names
    BY <1>3
  <2>3. CASE s = a
    <3>1. t = b /\ moved /\ f = l /\ m = i + 1
      BY <1>3, <2>1, <2>2, <2>3 DEF MovedName
    <3>2. /\ k # i /\ From(k) \in 0 .. MaxRoll
          /\ Contents(<<l, k>>)' = Contents(<<l, From(k)>>)
      BY <1>5, <3>1
    <3>3. Target(p, c) = <<l, i>>
      BY <2>3
    <3> HIDE DEF a, b, From, t, s
    <3>4. From(k) >= i
      BY <3>1, <3>2, <3>3 DEF Behind
    <3> QED
      BY <3>1, <3>2, <3>4 DEF From
  <2>4. CASE s # a
    <3>1. s = t /\ ~(moved /\ t = b)
      BY <1>3, <2>1, <2>2, <2>4 DEF MovedName
    <3>2. CASE f # l
      BY <1>5, <3>1, <3>2 DEF Behind
    <3>3. CASE f = l
      <4>1. /\ k # i /\ From(k) \in 0 .. MaxRoll
            /\ Contents(<<l, k>>)' = Contents(<<l, From(k)>>)
        BY <1>5, <3>3
      <4>2. m # i /\ (moved => m # i + 1)
        BY <2>4, <3>1, <3>3
      <4>3. Target(p, c) = <<l, m>>
        BY <3>1, <3>3
      <4> HIDE DEF a, b, From, t, s
      <4>4. From(k) >= m
        BY <3>3, <4>1, <4>3 DEF Behind
      <4> QED
        BY <4>1, <4>2, <4>4 DEF From
    <3> QED
      BY <3>2, <3>3
  <2> QED
    BY <2>3, <2>4
<1> QED
  BY <1>4, <1>6, <1>7, <1>8

LEMMA OpenedKeeps ==
  ASSUME TypeInv, dir' = dir \/ \E S : dir' = Opened(S)
  PROVE  /\ \A n \in Names : Contents(n)' = Contents(n)
         /\ \A n \in Names : dir[n] # Absent => dir'[n] # Absent
<1>1. CASE dir' = dir
  BY <1>1 DEF Contents
<1>2. ASSUME NEW S, dir' = Opened(S), NEW n \in Names
      PROVE  Contents(n)' = Contents(n) /\ (dir[n] # Absent => dir'[n] # Absent)
  <2>1. Contents(n) # Absent
    BY ContentsAre, NamesAre DEF TypeInv
  <2>2. dir'[n] = IF n \in S THEN Contents(n) ELSE dir[n]
    BY <1>2 DEF Opened
  <2> QED
    BY <2>1, <2>2 DEF Contents
<1> QED
  BY <1>1, <1>2

LEMMA OpenedExists ==
  ASSUME TypeInv, NEW S, dir' = Opened(S), NEW n \in Names, n \in S
  PROVE  dir'[n] # Absent
<1>1. Contents(n) # Absent
  BY ContentsAre, NamesAre DEF TypeInv
<1> QED
  BY <1>1 DEF Opened

(* A step of p that writes and moves nothing: p may only turn to a new     *)
(* file, or to none.                                                       *)
LEMMA QuietKeeps ==
  ASSUME OrderInv, TypeInv', NEW p \in Procs, written' = written,
         dir' = dir \/ \E S : dir' = Opened(S),
         \A q \in Procs \ {p} :
           /\ g_system_log'[q] = g_system_log[q]
           /\ g_access_log'[q] = g_access_log[q] /\ pc'[q] = pc[q],
         g_system_log'[p] \in Names => dir'[g_system_log'[p]] # Absent,
         g_access_log'[p] \in Names => dir'[g_access_log'[p]] # Absent,
         \A l \in Logs : pc'[p] \notin {"off", "forked"} =>
           \/ Target(p, l)' \notin Names
           \/ \E f \in Logs : Target(p, l)' = <<f, 0>>
           \/ pc[p] \notin {"off", "forked"} /\ Target(p, l)' = Target(p, l)
  PROVE  OrderInv'
<1> USE DEF OrderInv
<1>1. /\ \A n \in Names : Contents(n)' = Contents(n)
      /\ \A n \in Names : dir[n] # Absent => dir'[n] # Absent
  BY OpenedKeeps
<1>2. \A l \in Logs : \A k \in 0 .. MaxRoll : <<l, k>> \in Names
  BY NamesAre
<1>3. Present'
  BY <1>1 DEF Present
<1>4. Numbered'
  BY <1>1 DEF Numbered
<1>5. OrderIsKept'
  BY <1>1, <1>2 DEF OrderIsKept
<1>6. AllBehind'
  <2> SUFFICES ASSUME NEW q \in Procs, NEW l \in Logs,
                      pc'[q] \notin {"off", "forked"}
               PROVE  Behind(q, l)'
    BY DEF AllBehind
  <2>1. CASE pc[q] \notin {"off", "forked"} /\ Target(q, l)' = Target(q, l)
    <3>1. Behind(q, l)
      BY <2>1 DEF AllBehind
    <3> QED
      BY <1>1, <1>2, <2>1, <3>1 DEF Behind
  <2>2. CASE Target(q, l)' \notin Names
    BY <1>2, <2>2 DEF Behind
  <2>3. ASSUME NEW f \in Logs, Target(q, l)' = <<f, 0>> PROVE Behind(q, l)'
    BY <2>3 DEF Behind
  <2>4. q # p => pc[q] \notin {"off", "forked"} /\ Target(q, l)' = Target(q, l)
    BY DEF Target
  <2> QED
    BY <2>1, <2>2, <2>3, <2>4
<1> QED
  BY <1>3, <1>4, <1>5, <1>6

(* A line is added at the end of a file of which p has no newer one.       *)
LEMMA WriteKeepsOrder ==
  ASSUME OrderInv, TypeInv', NEW p \in Procs, Write(p)
  PROVE  OrderInv'
<1> USE DEF OrderInv
<1>a. PICK l \in Logs : l = IF call[p] = "access" THEN "access" ELSE "system"
  BY NamesAre
<1>b. PICK t \in Streams : t = Target(p, l)
  BY DEF Target, TypeInv, TypeOK, Streams
<1>c. PICK number \in Nat : number = written[p][l] + 1
  BY DEF TypeInv, TypeOK
<1>d. t = Stream(p)
  BY <1>a, <1>b DEF Stream, Target
<1> DEFINE line == <<p, l, number>>
<1>1. /\ line \in Lines /\ line[1] = p /\ line[2] = l
      /\ line[3] = written[p][l] + 1
  BY <1>c DEF Lines
<1>2. /\ pc[p] \notin {"off", "forked"}
      /\ written' = [written EXCEPT ![p][l] = @ + 1]
      /\ dir' = IF t = Unlinked THEN dir ELSE Appended(t, line)
      /\ g_system_log' = g_system_log /\ g_access_log' = g_access_log
      /\ IsOpen(t)
      /\ \E next \in {"idle", "closing"} : pc' = [pc EXCEPT ![p] = next]
  BY <1>a, <1>c, <1>d DEF Write, Return, streams
<1>3. t \in Names \cup {Unlinked}
  BY <1>2 DEF IsOpen, Streams
<1>4. /\ \A q \in Procs, m \in Logs : Target(q, m)' = Target(q, m)
      /\ \A q \in Procs : pc'[q] \notin {"off", "forked"} =>
                            pc[q] \notin {"off", "forked"}
  BY <1>2 DEF Target, TypeInv, TypeOK
<1> HIDE DEF line
<1>5. /\ written' \in [Procs -> [Logs -> Nat]]
      /\ written \in [Procs -> [Logs -> Nat]]
      /\ written'[p][l] = written[p][l] + 1
      /\ \A q \in Procs, m \in Logs : written'[q][m] >= written[q][m]
  <2>1. written \in [Procs -> [Logs -> Nat]] /\ written[p][l] \in Nat
    BY <1>1 DEF TypeInv, TypeOK
  <2>2. /\ written'[p] = [written[p] EXCEPT ![l] = @ + 1]
        /\ \A q \in Procs \ {p} : written'[q] = written[q]
    BY <1>2, <2>1
  <2>3. written'[p][l] = written[p][l] + 1
    BY <1>1, <2>1, <2>2
  <2>4. ASSUME NEW q \in Procs, NEW m \in Logs
        PROVE  written'[q][m] = written[q][m]
                 \/ written'[q][m] = written[q][m] + 1
    <3>1. CASE q # p
      BY <2>2, <3>1
    <3>2. CASE q = p
      BY <2>1, <2>2, <2>3, <3>2
    <3> QED
      BY <3>1, <3>2
  <2>5. \A q \in Procs, m \in Logs : written'[q][m] >= written[q][m]
    <3>1. \A q \in Procs, m \in Logs : written[q][m] \in Nat
      BY <2>1
    <3> QED
      BY <2>4, <3>1
  <2>6. written' \in [Procs -> [Logs -> Nat]]
    BY <1>1, <1>2, <2>1
  <2> QED
    BY <2>1, <2>3, <2>5, <2>6
<1>6. ASSUME NEW n \in Names, NEW j \in DOMAIN Contents(n)
      PROVE  /\ Contents(n)[j] \in Lines /\ Contents(n)[j][1] \in Procs
             /\ Contents(n)[j][2] \in Logs /\ Contents(n)[j][3] \in Nat
  BY ContentsAre DEF Lines, TypeInv
<1>7. \A m \in Logs : \A k \in 0 .. MaxRoll : <<m, k>> \in Names
  BY NamesAre
<1>8. CASE t = Unlinked
  <2>1. \A n \in Names : Contents(n)' = Contents(n)
    BY <1>2, <1>8 DEF Contents
  <2>2. Present'
    BY <1>2, <1>8 DEF Present
  <2>3. Numbered'
    BY <1>5, <1>6, <2>1 DEF Numbered
  <2>4. OrderIsKept'
    BY <1>7, <2>1 DEF OrderIsKept
  <2>5. AllBehind'
    BY <1>4, <1>7, <2>1 DEF AllBehind, Behind
  <2> QED
    BY <2>2, <2>3, <2>4, <2>5
<1>9. CASE t \in Names
  <2>1. PICK f \in Logs, m \in 0 .. MaxRoll : t = <<f, m>>
    BY <1>9, NamesAre
  <2>2. dir[t] # Absent /\ dir' = [dir EXCEPT ![t] = Append(@, line)]
    BY <1>2, <1>9, <1>b, NamesAre DEF Present, Target, Appended
  <2>3. /\ Contents(t) \in Seq(Lines) /\ dir[t] = Contents(t)
        /\ Append(Contents(t), line) # Absent
    <3>1. Contents(t) \in Seq(Lines)
      BY <1>9, ContentsAre DEF TypeInv
    <3>2. Append(Contents(t), line) \in Seq(Lines)
      BY <1>1, <3>1
    <3> QED
      BY <2>2, <3>1, <3>2, NamesAre DEF Contents
  <2>4. /\ Contents(t)' = Append(Contents(t), line)
        /\ \A n \in Names \ {t} : Contents(n)' = Contents(n)
        /\ \A n \in Names : dir[n] # Absent => dir'[n] # Absent
    <3>1. DOMAIN dir = Names
      BY DEF TypeInv, TypeOK
    <3>2. /\ dir'[t] = Append(Contents(t), line)
          /\ \A n \in Names \ {t} : dir'[n] = dir[n]
      BY <1>9, <2>2, <2>3, <3>1
    <3> QED
      BY <2>3, <3>2 DEF Contents
  <2>5. ASSUME NEW n \in Names, NEW j \in DOMAIN Contents(n)'
        PROVE  \/ j \in DOMAIN Contents(n) /\ Contents(n)'[j] = Contents(n)[j]
               \/ /\ n = t /\ j = Len(Contents(t)) + 1 /\ Contents(n)'[j] = line
    BY <2>3, <2>4
  <2>6. \A j \in DOMAIN Contents(t) : j < Len(Contents(t)) + 1
    BY <2>3
  <2>7. Present'
    BY <1>2, <2>4 DEF Present
  <2>8. Numbered'
    <3> SUFFICES ASSUME NEW n \in Names, NEW j \in DOMAIN Contents(n)'
                 PROVE  LET x == Contents(n)'[j]
                        IN  x[3] <= written'[x[1]][x[2]]
      BY DEF Numbered
    <3>1. CASE j \in DOMAIN Contents(n) /\ Contents(n)'[j] = Contents(n)[j]
      BY <1>5, <1>6, <3>1 DEF Numbered
    <3>2. CASE Contents(n)'[j] = line
      BY <1>1, <1>5, <3>2
    <3> QED
      BY <2>5, <3>1, <3>2
  <2>9. Behind(p, l)
    BY <1>1, <1>2 DEF AllBehind
  <2>10. OrderIsKept'
    <3> SUFFICES ASSUME NEW g \in Logs, NEW c \in 0 .. MaxRoll,
                        NEW d \in 0 .. MaxRoll,
                        NEW j \in DOMAIN Contents(<<g, c>>)',
                        NEW k \in DOMAIN Contents(<<g, d>>)',
                        c > d \/ (c = d /\ j < k),
                        Contents(<<g, c>>)'[j][1] = Contents(<<g, d>>)'[k][1],
                        Contents(<<g, c>>)'[j][2] = Contents(<<g, d>>)'[k][2]
                 PROVE  Contents(<<g, c>>)'[j][3] < Contents(<<g, d>>)'[k][3]
      BY DEF OrderIsKept
    <3> DEFINE x == Contents(<<g, c>>)'[j]
               y == Contents(<<g, d>>)'[k]
    <3>1. /\ \/ j \in DOMAIN Contents(<<g, c>>) /\ x = Contents(<<g, c>>)[j]
             \/ <<g, c>> = t /\ j = Len(Contents(t)) + 1 /\ x = line
          /\ \/ k \in DOMAIN Contents(<<g, d>>) /\ y = Contents(<<g, d>>)[k]
             \/ <<g, d>> = t /\ k = Len(Contents(t)) + 1 /\ y = line
      BY <1>7, <2>5
    <3>2. CASE /\ j \in DOMAIN Contents(<<g, c>>) /\ x = Contents(<<g, c>>)[j]
               /\ k \in DOMAIN Contents(<<g, d>>) /\ y = Contents(<<g, d>>)[k]
      BY <3>2 DEF OrderIsKept
    <3>3. CASE /\ j \in DOMAIN Contents(<<g, c>>) /\ x = Contents(<<g, c>>)[j]
               /\ y = line
      <4>1. x[1] = p /\ x[2] = l
        BY <1>1, <3>3
      <4>2. x[3] <= written[p][l] /\ x[3] \in Nat /\ written[p][l] \in Nat
        BY <1>1, <1>5, <1>6, <1>7, <3>3, <4>1 DEF Numbered
      <4> QED
        BY <1>1, <3>3, <4>2
    <3>4. CASE /\ <<g, c>> = t /\ j = Len(Contents(t)) + 1 /\ x = line
               /\ k \in DOMAIN Contents(<<g, d>>) /\ y = Contents(<<g, d>>)[k]
      <4>1. y[1] = p /\ y[2] = l
        BY <1>1, <3>4
      <4>2. g = f /\ c = m /\ Target(p, l) = <<f, m>>
        BY <1>b, <2>1, <3>4
      <4>3. d >= c
        BY <2>9, <3>4, <4>1, <4>2 DEF Behind
      <4>4. c = d /\ j < k
        BY <4>3
      <4> QED
        BY <2>6, <3>4, <4>4
    <3>5. CASE /\ <<g, c>> = t /\ j = Len(Contents(t)) + 1 /\ x = line
               /\ <<g, d>> = t /\ k = Len(Contents(t)) + 1 /\ y = line
      <4>1. c = d /\ j = k /\ j \in Int
        BY <2>1, <2>3, <3>5
      <4> QED
        BY <4>1
    <3> QED
      BY <3>1, <3>2, <3>3, <3>4, <3>5
  <2>11. AllBehind'
    <3> SUFFICES ASSUME NEW q \in Procs, NEW c \in Logs, Behind(q, c),
                        NEW g \in Logs, NEW h \in 0 .. MaxRoll,
                        NEW k \in 0 .. MaxRoll, Target(q, c) = <<g, h>>,
                        NEW j \in DOMAIN Contents(<<g, k>>)',
                        Contents(<<g, k>>)'[j][1] = q,
                        Contents(<<g, k>>)'[j][2] = c
                 PROVE  k >= h
      BY <1>4 DEF AllBehind, Behind
    <3>1. CASE /\ j \in DOMAIN Contents(<<g, k>>)
               /\ Contents(<<g, k>>)'[j] = Contents(<<g, k>>)[j]
      BY <3>1 DEF Behind
    <3>2. CASE <<g, k>> = t /\ Contents(<<g, k>>)'[j] = line
      <4>1. q = p /\ c = l
        BY <1>1, <3>2
      <4>2. <<g, k>> = <<g, h>>
        BY <1>b, <3>2, <4>1
      <4> QED
        BY <4>2
    <3> QED
      BY <1>7, <2>5, <3>1, <3>2
  <2> QED
    BY <2>7, <2>8, <2>10, <2>11
<1> QED
  BY <1>3, <1>8, <1>9

LEMMA OpeningKeepsOrder ==
  ASSUME OrderInv, TypeInv',
         LogInit \/ \E w \in Workers : Fork(w) \/ LogReopen(w)
  PROVE  OrderInv'
<1> USE DEF OrderInv
<1>1. /\ "system" \in Logs /\ "access" \in Logs /\ Null \notin Names
      /\ <<"system", 0>> \in Names /\ <<"access", 0>> \in Names
      /\ Main \in Procs /\ Workers \subseteq Procs
  BY NamesAre
<1>2. CASE LogInit
  <2>1. /\ g_system_log'[Main] = <<"system", 0>>
        /\ g_access_log'[Main]
             \in {<<"system", 0>>, <<"access", 0>>, Null}
        /\ \A q \in Procs \ {Main} :
             /\ g_system_log'[q] = g_system_log[q]
             /\ g_access_log'[q] = g_access_log[q] /\ pc'[q] = pc[q]
        /\ written' = written
    BY <1>1, <1>2 DEF LogInit, TypeInv, TypeOK
  <2>2. \E S : /\ dir' = Opened(S) /\ <<"system", 0>> \in S
               /\ g_access_log'[Main] = Null \/ g_access_log'[Main] \in S
    <3>1. DOMAIN g_access_log = Procs
      BY DEF TypeInv, TypeOK
    <3>2. CASE Own /\ g_access_log' = [g_access_log EXCEPT ![Main] = <<"access", 0>>]
               /\ dir' = Opened({<<"system", 0>>, <<"access", 0>>})
      BY <1>1, <3>1, <3>2
    <3>3. CASE /\ dir' = Opened({<<"system", 0>>})
               /\ \/ g_access_log' = [g_access_log EXCEPT ![Main] = Null]
                  \/ g_access_log' =
                       [g_access_log EXCEPT ![Main] = <<"system", 0>>]
      BY <1>1, <3>1, <3>3
    <3> QED
      BY <1>2, <3>2, <3>3 DEF LogInit
  <2>3. /\ dir'[<<"system", 0>>] # Absent
        /\ g_access_log'[Main] \in Names => dir'[g_access_log'[Main]] # Absent
    BY <1>1, <2>2, OpenedExists
  <2>4. \A l \in Logs : \/ Target(Main, l)' \notin Names
                        \/ \E f \in Logs : Target(Main, l)' = <<f, 0>>
    BY <1>1, <2>1 DEF Target
  <2> QED
    BY <1>1, <2>1, <2>2, <2>3, <2>4, QuietKeeps
<1>3. ASSUME NEW w \in Workers, Fork(w) PROVE OrderInv'
  <2>1. /\ g_system_log'[w] = g_system_log[Main]
        /\ g_access_log'[w] = g_access_log[Main] /\ pc'[w] = "forked"
        /\ \A q \in Procs \ {w} :
             /\ g_system_log'[q] = g_system_log[q]
             /\ g_access_log'[q] = g_access_log[q] /\ pc'[q] = pc[q]
        /\ written' = written /\ dir' = dir /\ w \in Procs
    BY <1>1, <1>3 DEF Fork, TypeInv, TypeOK
  <2>2. /\ g_system_log'[w] \in Names => dir'[g_system_log'[w]] # Absent
        /\ g_access_log'[w] \in Names => dir'[g_access_log'[w]] # Absent
    BY <1>1, <2>1 DEF Present
  <2> QED
    BY <2>1, <2>2, QuietKeeps
<1>4. ASSUME NEW w \in Workers, LogReopen(w) PROVE OrderInv'
  <2>1. /\ g_system_log'[w] \in {<<"system", 0>>, Null}
        /\ g_access_log'[w] \in {<<"system", 0>>, <<"access", 0>>, Null}
        /\ w \in Procs
    BY <1>1, <1>4 DEF LogReopen, TypeInv, TypeOK
  <2>2. dir' = Opened({g_system_log'[w], g_access_log'[w]})
    BY <1>4 DEF LogReopen
  <2>3. /\ g_system_log'[w] \in Names => dir'[g_system_log'[w]] # Absent
        /\ g_access_log'[w] \in Names => dir'[g_access_log'[w]] # Absent
    BY <2>2, OpenedExists
  <2>4. /\ \A q \in Procs \ {w} :
             /\ g_system_log'[q] = g_system_log[q]
             /\ g_access_log'[q] = g_access_log[q] /\ pc'[q] = pc[q]
        /\ written' = written
    BY <1>1, <1>4 DEF LogReopen, TypeInv, TypeOK
  <2>5. \A l \in Logs : \/ Target(w, l)' \notin Names
                        \/ \E f \in Logs : Target(w, l)' = <<f, 0>>
    BY <1>1, <2>1 DEF Target
  <2> QED
    BY <2>1, <2>2, <2>3, <2>4, <2>5, QuietKeeps
<1> QED
  BY <1>2, <1>3, <1>4

LEMMA OtherStepsKeepOrder ==
  ASSUME OrderInv, TypeInv', NEW p \in Procs,
         \/ \E c \in {"system", "access", "close"} : Call(p, c)
         \/ Drop(p) \/ Undefined(p) \/ CloseStream(p) \/ OpenNew(p)
         \/ OpenFails(p) \/ LogClose(p) \/ Crash(p)
  PROVE  OrderInv'
<1> USE DEF OrderInv
<1>1. /\ "system" \in Logs /\ "access" \in Logs
      /\ Null \notin Names /\ Closed \notin Names /\ Null # Closed
  BY NamesAre
<1>2. CASE \/ \E c \in {"system", "access", "close"} : Call(p, c)
           \/ Drop(p) \/ Undefined(p) \/ OpenFails(p)
  <2>1. /\ g_system_log' = g_system_log /\ g_access_log' = g_access_log
        /\ dir' = dir /\ written' = written /\ pc[p] \notin {"off", "forked"}
        /\ \E next \in {"log", "idle", "closing", "undefined"} :
             pc' = [pc EXCEPT ![p] = next]
    BY <1>2 DEF Call, Drop, Return, Undefined, OpenFails, streams
  <2>2. \A l \in Logs : Target(p, l)' = Target(p, l)
    BY <2>1 DEF Target
  <2>3. \A q \in Procs \ {p} : pc'[q] = pc[q]
    BY <2>1
  <2> QED
    BY <2>1, <2>2, <2>3, QuietKeeps DEF Present
<1>3. CASE CloseStream(p)
  <2>1. /\ g_system_log'[p] \in {g_system_log[p], Null, Closed}
        /\ g_access_log'[p] \in {g_access_log[p], Closed}
        /\ g_access_log[p] = Null => g_access_log'[p] \in {Null, Closed}
        /\ \A q \in Procs \ {p} :
             /\ g_system_log'[q] = g_system_log[q]
             /\ g_access_log'[q] = g_access_log[q] /\ pc'[q] = pc[q]
        /\ dir' = dir /\ written' = written /\ pc[p] \notin {"off", "forked"}
    BY <1>1, <1>3 DEF CloseStream, TypeInv, TypeOK
  <2>2. \A l \in Logs : \/ Target(p, l)' \notin Names
                        \/ Target(p, l)' = Target(p, l)
    BY <1>1, <2>1 DEF Target
  <2> QED
    BY <1>1, <2>1, <2>2, QuietKeeps DEF Present
<1>4. CASE OpenNew(p)
  <2>1. PICK f \in Logs : f = RotLog(p)
    BY <1>1 DEF RotLog
  <2>2. /\ pc[p] \notin {"off", "forked"} /\ written' = written
        /\ dir' = Opened({<<f, 0>>})
        /\ \A q \in Procs \ {p} : pc'[q] = pc[q]
    BY <1>4, <2>1 DEF OpenNew
  <2>3. /\ g_system_log'[p] \in {g_system_log[p], <<f, 0>>}
        /\ g_access_log'[p] \in {g_access_log[p], <<f, 0>>}
        /\ g_system_log'[p] = <<f, 0>> \/ g_access_log'[p] = <<f, 0>>
        /\ \A q \in Procs \ {p} : /\ g_system_log'[q] = g_system_log[q]
                                  /\ g_access_log'[q] = g_access_log[q]
    BY <1>4, <2>1 DEF OpenNew, Reused, TypeInv, TypeOK
  <2>4. <<f, 0>> \in Names /\ dir'[<<f, 0>>] # Absent
    BY <2>2, NamesAre, OpenedExists
  <2>5. /\ g_system_log'[p] \in Names => dir'[g_system_log'[p]] # Absent
        /\ g_access_log'[p] \in Names => dir'[g_access_log'[p]] # Absent
    BY <2>2, <2>3, <2>4, OpenedKeeps DEF Present
  <2>6. \A l \in Logs : \/ Target(p, l)' = <<f, 0>>
                        \/ Target(p, l)' = Target(p, l)
    BY <1>1, <2>3, <2>4 DEF Target
  <2> QED
    BY <2>2, <2>3, <2>5, <2>6, QuietKeeps
<1>5. CASE LogClose(p) \/ Crash(p)
  <2>1. /\ g_system_log'[p] = Null /\ g_access_log'[p] = Null
        /\ \A q \in Procs \ {p} :
             /\ g_system_log'[q] = g_system_log[q]
             /\ g_access_log'[q] = g_access_log[q] /\ pc'[q] = pc[q]
        /\ dir' = dir /\ written' = written
    BY <1>5 DEF LogClose, Crash, TypeInv, TypeOK
  <2>2. \A l \in Logs : Target(p, l)' \notin Names
    BY <1>1, <2>1 DEF Target
  <2> QED
    BY <1>1, <2>1, <2>2, QuietKeeps
<1> QED
  BY <1>2, <1>3, <1>4, <1>5

LEMMA OrderInit == Init => OrderInv
<1> SUFFICES ASSUME Init PROVE OrderInv
  OBVIOUS
<1>1. TypeInv
  BY TypesInit
<1>2. \A n \in Names : DOMAIN Contents(n) = {}
  BY DEF Init, Contents
<1>3. Present /\ AllBehind
  BY NamesAre DEF Init, Present, AllBehind
<1>4. Numbered
  BY <1>2 DEF Numbered
<1>5. OrderIsKept
  BY <1>2, NamesAre DEF OrderIsKept
<1> QED
  BY <1>1, <1>3, <1>4, <1>5 DEF OrderInv

LEMMA OrderStep == OrderInv /\ [Next]_vars => OrderInv'
<1> SUFFICES ASSUME OrderInv, [Next]_vars PROVE OrderInv'
  OBVIOUS
<1>1. TypeInv'
  BY TypesStep DEF OrderInv
<1>2. CASE LogInit \/ \E w \in Workers : Fork(w) \/ LogReopen(w)
  BY <1>1, <1>2, OpeningKeepsOrder
<1>3. ASSUME NEW p \in Procs, Step(p) PROVE OrderInv'
  <2>1. CASE Shift(p) \/ RenameCurrent(p)
    <3>1. /\ written' = written
          /\ \A q \in Procs : pc'[q] \notin {"off", "forked"} =>
                                pc[q] \notin {"off", "forked"}
      BY <2>1 DEF Shift, RenameCurrent, OrderInv, TypeInv, TypeOK
    <3>2. \E l \in Logs, i \in 0 .. MaxRoll, moved \in BOOLEAN :
            Moves(l, i, moved)
      BY <2>1, RotationIs DEF OrderInv
    <3> QED
      BY <1>1, <3>1, <3>2, MovesKeep
  <2>2. CASE Write(p)
    BY <1>1, <2>2, WriteKeepsOrder
  <2> QED
    BY <1>1, <1>3, <2>1, <2>2, OtherStepsKeepOrder DEF Step
<1>4. CASE UNCHANGED vars
  <2>1. /\ UNCHANGED <<dir, g_system_log, g_access_log, pc, written>>
        /\ \A l \in Logs : Target(Main, l)' = Target(Main, l)
    BY <1>4 DEF vars, streams, Target
  <2> QED
    BY <1>1, <2>1, QuietKeeps, NamesAre DEF OrderInv, Present
<1> QED
  BY <1>2, <1>3, <1>4 DEF Next

(* Every variable of the log keeps its range: a file is absent or a        *)
(* sequence of lines, a stream is on a name of a file or on none.          *)
THEOREM TypeCorrect == Spec => []TypeOK
<1>1. OrderInv => TypeOK
  BY DEF OrderInv, TypeInv
<1> QED
  BY <1>1, OrderInit, OrderStep, PTL DEF Spec

(* However many processes rotate and write at the same time, and wherever  *)
(* they die, the lines of one process stay in the order of their writing.  *)
THEOREM OrderStays == Spec => []OrderIsKept
<1>1. OrderInv => OrderIsKept
  BY DEF OrderInv
<1> QED
  BY <1>1, OrderInit, OrderStep, PTL DEF Spec

-----------------------------------------------------------------------------
(* What is kept, with an access log of its own that could be opened.       *)

Live(p) == pc[p] \notin {"off", "forked"}
Count(p, l) == IF l = "access" THEN g_access_lines[p] ELSE g_system_lines[p]
RotatesLog(p, l) == Rotates(p) /\ RotLog(p) = l
File(l, k) == Contents(<<l, k>>)

(* The lines of a log are in its own files, and are numbered from 1.       *)
Pure ==
  \A l \in Logs : \A k \in 0 .. MaxRoll : \A i \in DOMAIN File(l, k) :
    File(l, k)[i][2] = l /\ File(l, k)[i][3] >= 1

(* A process that rotates a log has no stream on it. *)
Detached ==
  \A p \in Procs : Rotates(p) =>
    IF call[p] = "access" THEN g_access_log[p] = Closed
    ELSE g_system_log[p] = Null

(* Until the main process has written its first line there is no worker,   *)
(* and nothing in the system log.                                          *)
BeforeFirst ==
  written[Main]["system"] = 0 =>
    /\ \A w \in Workers : pc[w] = "off"
    /\ \/ pc[Main] = "off"
       \/ /\ pc[Main] = "log" /\ call[Main] = "system"
          /\ g_system_log[Main] # Null /\ g_system_lines[Main] = 0
    /\ \A k \in 0 .. MaxRoll : File("system", k) = <<>>

(* A worker that has written nothing to a log has nothing to rotate.       *)
Silent(p, l) ==
  Live(p) /\ written[p][l] = 0 =>
    ~RotatesLog(p, l) /\ (Target(p, l) = Null \/ Count(p, l) = 0)

(* The log as the one process p that writes it keeps it: p writes to the   *)
(* current file,                                                           *)
Attached(p, l) == Live(p) => Target(p, l) \in {<<l, 0>>, Null, Closed}

(* no line between two that are kept is lost,                              *)
NoGap(p, l) ==
  \A k \in 1 .. written[p][l] : \A j \in 1 .. k :
    IsKept(p, l, j) => IsKept(p, l, k)

(* a file is moved to where there is none,                                 *)
Vacated(p, l) ==
  RotatesLog(p, l) =>
    /\ pc[p] = "shift" =>
         \A k \in 0 .. MaxRoll : k = turn[p] + 1 => File(l, k) = <<>>
    /\ pc[p] = "rename" => File(l, 1) = <<>>
    /\ pc[p] = "open" => File(l, 0) = <<>>
    /\ pc[p] # "open" => Len(File(l, 0)) >= MaxLines

(* the count of p is not above the lines of the current file,              *)
CountIsLow(p, l) ==
  Live(p) /\ Target(p, l) = <<l, 0>> /\ (p = Main => l = "system") =>
    Count(p, l) <= Len(File(l, 0))

(* and the newest MaxRoll * MaxLines lines are kept, since every old file  *)
(* but the newest has Newer full ones after it.                            *)
Newer(p, l, a) ==
  IF /\ RotatesLog(p, l)
     /\ pc[p] = "rename" \/ (pc[p] = "shift" /\ a > turn[p])
  THEN a - 2 ELSE a - 1

Recent(p, l) ==
  \A k \in 1 .. written[p][l] :
    k > written[p][l] - MaxRoll * MaxLines => IsKept(p, l, k)

Spread(p, l) ==
  \A a \in 1 .. MaxRoll : \A i \in DOMAIN File(l, a) :
    File(l, a)[i][3]
      <= written[p][l] - Len(File(l, 0)) - Newer(p, l, a) * MaxLines

Shape(p, l) ==
  /\ Attached(p, l) /\ NoGap(p, l) /\ Vacated(p, l) /\ CountIsLow(p, l)
  /\ crashes = 0 => Recent(p, l) /\ Spread(p, l)

Usual == OrderInv /\ Sound /\ Own /\ "access" \notin failed

KeepInv ==
  /\ call[Main] # "access"
  /\ Pure /\ Detached /\ BeforeFirst
  /\ \A p \in Workers, l \in Logs : Silent(p, l)
  /\ \A p \in Procs, l \in Logs : Alone(p, l) => Shape(p, l)

RecentInv == OrderInv /\ IInv /\ (Own /\ "access" \notin failed => KeepInv)

LEMMA TargetIs ==
  ASSUME Usual, NEW p \in Procs, pc[p] # "off"
  PROVE  /\ Stream(p) = Target(p, RotLog(p)) /\ RotLog(p) \in Logs
         /\ RotLog(p) = IF call[p] = "access" THEN "access" ELSE "system"
         /\ Target(p, "access") = g_access_log[p]
         /\ Target(p, "system") = g_system_log[p]
         /\ \A l \in Logs : \A f \in Logs : \A k \in 0 .. MaxRoll :
              Target(p, l) = <<f, k>> => f = l
         /\ \A l \in Logs : Target(p, l) \in Names \cup {Null, Closed, Unlinked}
<1>1. /\ g_access_log[p] # Null
      /\ g_system_log[p] \in SystemNames \cup {Null, Unlinked}
      /\ g_access_log[p] \in AccessNames \cup {Null, Closed, Unlinked}
  BY DEF Usual, Sound, Types, Pointers
<1>2. \A f \in Logs : \A k \in 0 .. MaxRoll : <<f, k>> \in Names
  BY NamesAre
<1>3. /\ \A f \in Logs : \A k \in 0 .. MaxRoll :
           /\ g_system_log[p] = <<f, k>> => f = "system"
           /\ g_access_log[p] = <<f, k>> => f = "access"
  <2>1. Null \notin Names /\ Closed \notin Names /\ Unlinked \notin Names
    BY NamesAre
  <2>2. \A f \in Logs : \A k \in 0 .. MaxRoll :
          /\ <<f, k>> \in SystemNames => f = "system"
          /\ <<f, k>> \in AccessNames => f = "access"
    BY DEF SystemNames, AccessNames
  <2> QED
    BY <1>1, <1>2, <2>1, <2>2
<1>4. /\ Target(p, "access") = g_access_log[p]
      /\ Target(p, "system") = g_system_log[p]
  BY <1>1 DEF Target
<1>5. /\ Stream(p) = Target(p, RotLog(p)) /\ RotLog(p) \in Logs
      /\ RotLog(p) = IF call[p] = "access" THEN "access" ELSE "system"
  BY <1>1 DEF Stream, Target, RotLog, Usual, Own, Logs
<1>6. \A l \in Logs : l = "access" \/ l = "system"
  BY DEF Logs
<1> QED
  BY <1>1, <1>3, <1>4, <1>5, <1>6 DEF SystemNames, AccessNames

(* Only a rotation of log l and a line for log l change its files.         *)
LEMMA FilesStay ==
  ASSUME Usual, NEW p \in Procs, NEW l \in Logs, Step(p),
         ~((Shift(p) \/ RenameCurrent(p) \/ Write(p)) /\ RotLog(p) = l)
  PROVE  \A k \in 0 .. MaxRoll : File(l, k)' = File(l, k)
<1>1. TypeInv /\ \A k \in 0 .. MaxRoll : <<l, k>> \in Names
  BY NamesAre DEF Usual, OrderInv
<1>2. CASE dir' = dir \/ \E S : dir' = Opened(S)
  BY <1>1, <1>2, OpenedKeeps DEF File
<1>3. CASE Shift(p) \/ RenameCurrent(p)
  <2>1. RotLog(p) \in Logs /\ RotLog(p) # l
    BY <1>1, <1>3, RotationMoves
  <2>2. ASSUME NEW k \in 0 .. MaxRoll PROVE dir'[<<l, k>>] = dir[<<l, k>>]
    <3>1. DOMAIN dir = Names /\ <<l, k>> \in Names
      BY <1>1 DEF TypeInv, TypeOK
    <3>2. ASSUME NEW i, Unlink(<<RotLog(p), i>>)
          PROVE  dir'[<<l, k>>] = dir[<<l, k>>]
      <4>1. dir' = [dir EXCEPT ![<<RotLog(p), i>>] = Absent]
        BY <3>2 DEF Unlink
      <4>2. <<l, k>> # <<RotLog(p), i>>
        BY <2>1
      <4> QED
        BY <3>1, <4>1, <4>2
    <3>3. ASSUME NEW i, NEW j, Rename(<<RotLog(p), i>>, <<RotLog(p), j>>)
          PROVE  dir'[<<l, k>>] = dir[<<l, k>>]
      <4>1. \/ dir' = dir
            \/ dir' = [dir EXCEPT ![<<RotLog(p), j>>] = dir[<<RotLog(p), i>>],
                                  ![<<RotLog(p), i>>] = Absent]
        BY <3>3 DEF Rename
      <4>2. <<l, k>> # <<RotLog(p), i>> /\ <<l, k>> # <<RotLog(p), j>>
        BY <2>1
      <4> QED
        BY <3>1, <4>1, <4>2
    <3> QED
      BY <1>1, <1>3, <3>2, <3>3, RotationMoves
  <2> QED
    BY <2>2 DEF File, Contents
<1>4. CASE Write(p)
  <2>1. pc[p] # "off" /\ RotLog(p) # l /\ IsOpen(Stream(p))
    BY <1>4 DEF Write
  <2>2. PICK t : t = Stream(p)
    OBVIOUS
  <2>3. t \in Names \cup {Unlinked} /\ (t \in Names => t[1] # l)
    <3>1. t \in Names \cup {Unlinked}
      BY <2>1, <2>2, TargetIs DEF IsOpen
    <3>2. ASSUME t \in Names PROVE t[1] # l
      <4>1. t[1] \in Logs /\ t[2] \in 0 .. MaxRoll /\ t = <<t[1], t[2]>>
        BY <3>2, NamesAre
      <4> QED
        BY <2>1, <2>2, <4>1, TargetIs
    <3> QED
      BY <3>1, <3>2
  <2>4. \/ dir' = dir
        \/ t \in Names /\ \E line : dir' = [dir EXCEPT ![t] = Append(@, line)]
    BY <1>4, <2>2, <2>3 DEF Write, Appended
  <2>5. \A k \in 0 .. MaxRoll : dir'[<<l, k>>] = dir[<<l, k>>]
    BY <1>1, <2>3, <2>4 DEF TypeInv, TypeOK
  <2> QED
    BY <2>5 DEF File, Contents
<1>5. CASE ~(Shift(p) \/ RenameCurrent(p) \/ Write(p))
  BY <1>2, <1>5 DEF Step, Call, Drop, Undefined, CloseStream, OpenNew,
                    OpenFails, LogClose, Crash
<1> QED
  BY <1>3, <1>4, <1>5

(* The files of a log when one of them is renamed to a free name, or lost. *)
LEMMA RenameFiles ==
  ASSUME TypeInv, NEW l \in Logs, NEW i \in 0 .. MaxRoll - 1,
         Rename(<<l, i>>, <<l, i + 1>>), File(l, i + 1) = <<>>
  PROVE  /\ File(l, i)' = <<>> /\ File(l, i + 1)' = File(l, i)
         /\ \A k \in 0 .. MaxRoll : k # i /\ k # i + 1 =>
              File(l, k)' = File(l, k)
<1> DEFINE a == <<l, i>>
           b == <<l, i + 1>>
<1>1. i \in 0 .. MaxRoll /\ i + 1 \in 0 .. MaxRoll
  BY NamesAre
<1>2. a \in Names /\ b \in Names /\ a # b /\ DOMAIN dir = Names
  BY <1>1, NamesAre DEF TypeInv, TypeOK
<1>3. ASSUME NEW k \in 0 .. MaxRoll, k # i, k # i + 1
      PROVE  <<l, k>> \in Names \ {a, b}
  BY <1>3, NamesAre
<1>4. CASE dir[a] = Absent
  <2>1. dir' = dir
    BY <1>4 DEF Rename
  <2>2. File(l, i) = <<>>
    BY <1>4 DEF File, Contents
  <2>3. \A k \in 0 .. MaxRoll : File(l, k)' = File(l, k)
    BY <2>1 DEF File, Contents
  <2> HIDE DEF a, b
  <2> QED
    BY <1>1, <2>2, <2>3
<1>5. CASE dir[a] # Absent
  <2>1. dir' = [dir EXCEPT ![b] = dir[a], ![a] = Absent]
    BY <1>5 DEF Rename
  <2> HIDE DEF a, b
  <2>2. /\ dir'[a] = Absent /\ dir'[b] = dir[a]
        /\ \A n \in Names \ {a, b} : dir'[n] = dir[n]
    BY <1>2, <2>1
  <2> USE DEF a, b
  <2>3. /\ File(l, i)' = <<>> /\ File(l, i + 1)' = File(l, i)
    BY <2>2 DEF File, Contents
  <2>4. \A k \in 0 .. MaxRoll : k # i /\ k # i + 1 => File(l, k)' = File(l, k)
    BY <1>3, <2>2 DEF File, Contents
  <2> QED
    BY <2>3, <2>4
<1> QED
  BY <1>4, <1>5

LEMMA UnlinkFiles ==
  ASSUME TypeInv, NEW l \in Logs, NEW i \in 0 .. MaxRoll, Unlink(<<l, i>>)
  PROVE  /\ File(l, i)' = <<>>
         /\ \A k \in 0 .. MaxRoll : k # i => File(l, k)' = File(l, k)
<1>1. dir' = [dir EXCEPT ![<<l, i>>] = Absent] /\ DOMAIN dir = Names
  BY DEF Unlink, TypeInv, TypeOK
<1>2. <<l, i>> \in Names /\ \A k \in 0 .. MaxRoll : <<l, k>> \in Names
  BY NamesAre
<1>3. dir'[<<l, i>>] = Absent
  BY <1>1, <1>2
<1>4. \A k \in 0 .. MaxRoll : k # i => dir'[<<l, k>>] = dir[<<l, k>>]
  BY <1>1, <1>2
<1> QED
  BY <1>3, <1>4 DEF File, Contents

LEMMA FilesAre ==
  ASSUME TypeInv, NEW l \in Logs, NEW k \in 0 .. MaxRoll
  PROVE  /\ File(l, k) \in Seq(Lines) /\ Len(File(l, k)) \in Nat
         /\ DOMAIN File(l, k) = 1 .. Len(File(l, k))
         /\ \A i \in DOMAIN File(l, k) :
              /\ File(l, k)[i] \in Lines /\ File(l, k)[i][1] \in Procs
              /\ File(l, k)[i][2] \in Logs /\ File(l, k)[i][3] \in Nat
              /\ File(l, k)[i] = <<File(l, k)[i][1], File(l, k)[i][2],
                                   File(l, k)[i][3]>>
<1>1. <<l, k>> \in Names
  BY NamesAre
<1>2. /\ File(l, k) \in Seq(Lines) /\ Len(File(l, k)) \in Nat
      /\ DOMAIN File(l, k) = 1 .. Len(File(l, k))
      /\ \A i \in DOMAIN File(l, k) : File(l, k)[i] \in Lines
  BY <1>1, ContentsAre DEF File, TypeInv
<1> QED
  BY <1>2 DEF Lines

LEMMA KeptIs ==
  \A p \in Procs, l \in Logs : \A k :
    IsKept(p, l, k) <=> \E a \in 0 .. MaxRoll : \E i \in DOMAIN File(l, a) :
                          File(l, a)[i] = <<p, l, k>>
BY DEF IsKept, File

LEMMA RenameKeepsLines ==
  ASSUME NEW l \in Logs, NEW i \in 0 .. MaxRoll - 1, NEW p \in Procs,
         File(l, i + 1) = <<>>,
         File(l, i)' = <<>>, File(l, i + 1)' = File(l, i),
         \A k \in 0 .. MaxRoll : k # i /\ k # i + 1 => File(l, k)' = File(l, k)
  PROVE  \A k : IsKept(p, l, k)' <=> IsKept(p, l, k)
<1>1. i \in 0 .. MaxRoll /\ i + 1 \in 0 .. MaxRoll
  BY NamesAre
<1>2. \A a \in 0 .. MaxRoll : \/ a = i \/ a = i + 1
                              \/ a # i /\ a # i + 1 /\ File(l, a)' = File(l, a)
  OBVIOUS
<1>3. ASSUME NEW k, IsKept(p, l, k) PROVE IsKept(p, l, k)'
  <2>1. PICK a \in 0 .. MaxRoll :
          \E j \in DOMAIN File(l, a) : File(l, a)[j] = <<p, l, k>>
    BY <1>3, KeptIs
  <2>2. a # i + 1
    BY <2>1
  <2>3. \E b \in 0 .. MaxRoll : File(l, b)' = File(l, a)
    BY <1>1, <1>2, <2>2
  <2> QED
    BY <2>1, <2>3 DEF IsKept, File
<1>4. ASSUME NEW k, IsKept(p, l, k)' PROVE IsKept(p, l, k)
  <2>1. PICK a \in 0 .. MaxRoll :
          \E j \in DOMAIN File(l, a)' : File(l, a)'[j] = <<p, l, k>>
    BY <1>4 DEF IsKept, File
  <2>2. a # i
    BY <2>1
  <2>3. \E b \in 0 .. MaxRoll : File(l, a)' = File(l, b)
    BY <1>1, <1>2, <2>2
  <2> QED
    BY <2>1, <2>3, KeptIs
<1> QED
  BY <1>3, <1>4

(* What a file older than MaxRoll - 1 others loses is the oldest there is. *)
LEMMA UnlinkKeepsRecent ==
  ASSUME Usual, NEW p \in Procs, NEW l \in Logs, NoGap(p, l),
         written' = written, File(l, MaxRoll)' = <<>>,
         \A k \in 0 .. MaxRoll : k # MaxRoll => File(l, k)' = File(l, k)
  PROVE  /\ NoGap(p, l)'
         /\ \A k : IsKept(p, l, k) =>
              \/ IsKept(p, l, k)'
              \/ \E i \in DOMAIN File(l, MaxRoll) :
                   File(l, MaxRoll)[i] = <<p, l, k>>
<1>1. MaxRoll \in 0 .. MaxRoll
  BY NamesAre
<1>2. ASSUME NEW k, IsKept(p, l, k)
      PROVE  \/ IsKept(p, l, k)'
             \/ \E i \in DOMAIN File(l, MaxRoll) :
                  File(l, MaxRoll)[i] = <<p, l, k>>
  <2>1. PICK a \in 0 .. MaxRoll :
          \E j \in DOMAIN File(l, a) : File(l, a)[j] = <<p, l, k>>
    BY <1>2, KeptIs
  <2>2. CASE a # MaxRoll
    BY <2>1, <2>2 DEF IsKept, File
  <2> QED
    BY <2>1, <2>2
<1>3. NoGap(p, l)'
  <2> SUFFICES ASSUME NEW k \in 1 .. written[p][l], NEW j \in 1 .. k,
                      IsKept(p, l, j)', ~IsKept(p, l, k)'
               PROVE  FALSE
    BY DEF NoGap
  <2>1. PICK a \in 0 .. MaxRoll : \E i \in DOMAIN File(l, a)' :
          File(l, a)'[i] = <<p, l, j>>
    BY DEF IsKept, File
  <2>2. a # MaxRoll /\ File(l, a)' = File(l, a)
    BY <2>1
  <2>3. PICK i \in DOMAIN File(l, a) : File(l, a)[i] = <<p, l, j>>
    BY <2>1, <2>2
  <2>4. IsKept(p, l, k)
    BY <2>3, KeptIs DEF NoGap
  <2>5. PICK m \in DOMAIN File(l, MaxRoll) :
          File(l, MaxRoll)[m] = <<p, l, k>>
    BY <1>2, <2>4
  <2>6. MaxRoll > a
    BY <1>1, <2>2
  <2>7. k < j
    BY <1>1, <2>3, <2>5, <2>6 DEF Usual, OrderInv, OrderIsKept, File
  <2>8. written[p][l] \in Nat
    BY DEF Usual, OrderInv, TypeInv, TypeOK
  <2> QED
    BY <2>7, <2>8
<1> QED
  BY <1>2, <1>3

(* A rotation moves the streams of its log only. *)
LEMMA RotationLeaves ==
  ASSUME Usual, NEW q \in Procs, Shift(q) \/ RenameCurrent(q), NEW p \in Procs
  PROVE  /\ (\A k \in 0 .. MaxRoll : g_system_log[p] # <<RotLog(q), k>>)
              => g_system_log'[p] = g_system_log[p]
         /\ (\A k \in 0 .. MaxRoll : g_access_log[p] # <<RotLog(q), k>>)
              => g_access_log'[p] = g_access_log[p]
         /\ g_access_log'[p] = Null <=> g_access_log[p] = Null
<1>1. TypeInv /\ RotLog(q) \in Logs /\ MaxRoll \in 0 .. MaxRoll
  <2>1. TypeInv
    BY DEF Usual, OrderInv
  <2>2. RotLog(q) \in Logs
    BY NamesAre DEF RotLog
  <2>3. MaxRoll \in 0 .. MaxRoll
    BY NamesAre
  <2> QED
    BY <2>1, <2>2, <2>3
<1>2. /\ Null \notin Names /\ Null # Unlinked
      /\ \A k \in 0 .. MaxRoll : <<RotLog(q), k>> \in Names
  BY <1>1, NamesAre
<1>3. \A i \in 0 .. MaxRoll - 1 : i \in 0 .. MaxRoll /\ i + 1 \in 0 .. MaxRoll
  BY NamesAre
<1>4. CASE Unlink(<<RotLog(q), MaxRoll>>)
  BY <1>1, <1>2, <1>4 DEF Unlink, Moved
<1>5. ASSUME NEW i \in 0 .. MaxRoll - 1,
             Rename(<<RotLog(q), i>>, <<RotLog(q), i + 1>>)
      PROVE  /\ (\A k \in 0 .. MaxRoll : g_system_log[p] # <<RotLog(q), k>>)
                  => g_system_log'[p] = g_system_log[p]
             /\ (\A k \in 0 .. MaxRoll : g_access_log[p] # <<RotLog(q), k>>)
                  => g_access_log'[p] = g_access_log[p]
             /\ g_access_log'[p] = Null <=> g_access_log[p] = Null
  <2> DEFINE a == <<RotLog(q), i>>
             b == <<RotLog(q), i + 1>>
  <2>1. a \in Names /\ b \in Names
    BY <1>2, <1>3
  <2>2. /\ (\A k \in 0 .. MaxRoll : g_system_log[p] # <<RotLog(q), k>>)
             => g_system_log[p] # a /\ g_system_log[p] # b
        /\ (\A k \in 0 .. MaxRoll : g_access_log[p] # <<RotLog(q), k>>)
             => g_access_log[p] # a /\ g_access_log[p] # b
    BY <1>3
  <2>3. \/ UNCHANGED <<g_system_log, g_access_log>>
        \/ /\ g_system_log' = Moved(Moved(g_system_log, b, Unlinked), a, b)
           /\ g_access_log' = Moved(Moved(g_access_log, b, Unlinked), a, b)
    BY <1>5 DEF Rename
  <2> HIDE DEF a, b
  <2> QED
    BY <1>2, <2>1, <2>2, <2>3 DEF Moved
<1> QED
  BY <1>1, <1>4, <1>5, RotationMoves

LEMMA TargetStays ==
  ASSUME Usual, NEW q \in Procs, Shift(q) \/ RenameCurrent(q),
         NEW p \in Procs, NEW l \in Logs, pc[p] # "off",
         Target(p, l) \in {<<l, 0>>, Null, Closed},
         RotLog(q) # l \/ Target(p, l) # <<l, 0>>
  PROVE  Target(p, l)' = Target(p, l)
<1>1. Null \notin Names /\ Closed \notin Names
  BY NamesAre
<1>2. /\ \A k \in 0 .. MaxRoll : <<RotLog(q), k>> \in Names
      /\ RotLog(q) \in Logs
  BY RotationMoves, NamesAre DEF Usual, OrderInv
<1>3. \A k \in 0 .. MaxRoll : Target(p, l) # <<RotLog(q), k>>
  BY <1>1, <1>2
<1>4. l = "access" \/ l = "system"
  BY DEF Logs
<1>5. g_access_log[p] # Null
  BY DEF Usual, Sound, Pointers
<1>6. CASE l = "access"
  BY <1>3, <1>5, <1>6, RotationLeaves DEF Target
<1>7. CASE l = "system"
  BY <1>3, <1>7, RotationLeaves DEF Target
<1> QED
  BY <1>4, <1>6, <1>7

(* A rotating process stays without a stream on the log.                   *)
LEMMA DetachedTarget ==
  ASSUME Usual, Detached, NEW p \in Procs, Rotates(p)
  PROVE  Target(p, RotLog(p)) \in {Null, Closed}
<1>1. pc[p] # "off"
  BY DEF Rotates
<1> QED
  BY <1>1, TargetIs DEF Detached

LEMMA ShiftKeepsShape ==
  ASSUME Usual, TypeInv', Detached, NEW p \in Procs, Shift(p),
         NEW l \in Logs, l = RotLog(p), Shape(p, l)
  PROVE  Shape(p, l)'
<1>1. /\ TypeInv /\ MaxRoll \in Nat \ {0} /\ MaxLines \in Nat \ {0}
      /\ turn[p] \in 1 .. MaxRoll /\ MaxRoll \in 0 .. MaxRoll
      /\ turn[p] \in 0 .. MaxRoll /\ 0 \in 0 .. MaxRoll
      /\ written[p][l] \in Nat
  BY LogAssumption DEF Usual, OrderInv, TypeInv, TypeOK, Turning, Shift
<1>2. /\ pc[p] = "shift" /\ Rotates(p) /\ RotatesLog(p, l) /\ Live(p)
      /\ turn'[p] = turn[p] - 1
      /\ pc'[p] = IF turn[p] = 1 THEN "rename" ELSE "shift"
      /\ call' = call /\ written' = written /\ crashes' = crashes
      /\ deploy' = deploy
  BY <1>1 DEF Shift, Rotates, RotatesLog, Live, bounds, TypeInv, TypeOK
<1>3. Rotates(p)' /\ RotLog(p)' = l /\ RotatesLog(p, l)' /\ Live(p)'
  BY <1>2 DEF Rotates, RotLog, Own, RotatesLog, Live
<1>4. Target(p, l)' = Target(p, l) /\ Target(p, l) \in {Null, Closed}
  BY <1>2, DetachedTarget, TargetStays, NamesAre
<1>5. Attached(p, l)'
  BY <1>4 DEF Attached
<1>6. CountIsLow(p, l)'
  BY <1>4, NamesAre DEF CountIsLow
<1>7. \A k \in 0 .. MaxRoll :
        /\ Len(File(l, k)) \in Nat
        /\ \A i \in DOMAIN File(l, k) : File(l, k)[i][3] \in Nat
  BY <1>1, FilesAre
<1>8. CASE turn[p] = MaxRoll
  <2>1. /\ File(l, MaxRoll)' = <<>>
        /\ \A k \in 0 .. MaxRoll : k # MaxRoll => File(l, k)' = File(l, k)
    BY <1>1, <1>8, UnlinkFiles DEF Shift, ShiftOne
  <2>2. /\ NoGap(p, l)'
        /\ \A k : IsKept(p, l, k) =>
             \/ IsKept(p, l, k)'
             \/ \E i \in DOMAIN File(l, MaxRoll) :
                  File(l, MaxRoll)[i] = <<p, l, k>>
    BY <1>2, <2>1, UnlinkKeepsRecent DEF Shape
  <2>3. File(l, 0)' = File(l, 0)
    BY <1>1, <2>1
  <2>4. Vacated(p, l)'
    <3>1. pc'[p] = "shift" => turn'[p] + 1 = MaxRoll
      BY <1>1, <1>2, <1>8
    <3>2. pc'[p] = "rename" => MaxRoll = 1
      BY <1>2, <1>8
    <3>3. Len(File(l, 0)) >= MaxLines /\ pc'[p] # "open"
      BY <1>2 DEF Shape, Vacated
    <3> QED
      BY <2>1, <2>3, <3>1, <3>2, <3>3 DEF Vacated
  <2>5. ASSUME crashes = 0 PROVE Recent(p, l)'
    <3>1. Recent(p, l) /\ Spread(p, l) /\ Len(File(l, 0)) >= MaxLines
      BY <1>2, <2>5 DEF Shape, Vacated
    <3>2. ASSUME NEW i \in DOMAIN File(l, MaxRoll)
          PROVE  File(l, MaxRoll)[i][3]
                   <= written[p][l] - MaxRoll * MaxLines
      <4>1. MaxRoll \in 1 .. MaxRoll /\ Newer(p, l, MaxRoll) = MaxRoll - 1
        BY <1>1, <1>2, <1>8 DEF Newer
      <4>2. File(l, MaxRoll)[i][3] <= written[p][l] - Len(File(l, 0))
                                        - (MaxRoll - 1) * MaxLines
        BY <3>1, <4>1 DEF Spread
      <4> DEFINE full == (MaxRoll - 1) * MaxLines
                 all == MaxRoll * MaxLines
      <4>3. full = all - MaxLines /\ full \in Int /\ all \in Int
        BY <1>1
      <4>4. File(l, MaxRoll)[i][3] \in Nat /\ Len(File(l, 0)) \in Nat
        BY <1>1, <1>7
      <4> HIDE DEF full, all
      <4>5. File(l, MaxRoll)[i][3] <= written[p][l] - all
        BY <1>1, <3>1, <4>2, <4>3, <4>4 DEF full
      <4> QED
        BY <4>5 DEF all
    <3>3. ASSUME NEW k \in 1 .. written[p][l],
                 k > written[p][l] - MaxRoll * MaxLines
          PROVE  IsKept(p, l, k)'
      <4>1. IsKept(p, l, k)
        BY <3>1, <3>3 DEF Recent
      <4>2. ASSUME NEW i \in DOMAIN File(l, MaxRoll),
                   File(l, MaxRoll)[i] = <<p, l, k>>
            PROVE  FALSE
        <5>1. k <= written[p][l] - MaxRoll * MaxLines
          BY <3>2, <4>2
        <5>2. MaxRoll * MaxLines \in Int
          BY <1>1
        <5> QED
          BY <1>1, <3>3, <5>1, <5>2
      <4> QED
        BY <2>2, <4>1, <4>2
    <3> QED
      BY <1>2, <3>3 DEF Recent
  <2>6. ASSUME crashes = 0 PROVE Spread(p, l)'
    <3> SUFFICES ASSUME NEW a \in 1 .. MaxRoll,
                        NEW i \in DOMAIN File(l, a)'
                 PROVE  File(l, a)'[i][3] <= written[p][l]
                          - Len(File(l, 0)) - Newer(p, l, a)' * MaxLines
      BY <1>2, <2>3 DEF Spread
    <3>1. a # MaxRoll /\ a \in 0 .. MaxRoll /\ File(l, a)' = File(l, a)
      BY <1>1, <2>1
    <3>2. Newer(p, l, a) = a - 1
      BY <1>1, <1>2, <1>8, <3>1 DEF Newer
    <3>3. Newer(p, l, a)' = a - 1
      <4>1. turn[p] = 1 => FALSE
        BY <1>1, <1>8, <3>1
      <4> QED
        BY <1>1, <1>2, <1>3, <1>8, <3>1, <4>1 DEF Newer
    <3> QED
      BY <2>6, <3>1, <3>2, <3>3 DEF Shape, Spread
  <2> QED
    BY <1>2, <1>5, <1>6, <2>2, <2>4, <2>5, <2>6 DEF Shape
<1>9. CASE turn[p] # MaxRoll
  <2>1. turn[p] \in 0 .. MaxRoll - 1 /\ turn[p] < MaxRoll
    BY <1>1, <1>9
  <2>2. File(l, turn[p] + 1) = <<>>
    <3>1. turn[p] + 1 \in 0 .. MaxRoll
      BY <1>1, <2>1
    <3> QED
      BY <1>2, <3>1 DEF Shape, Vacated
  <2>3. PICK t \in 0 .. MaxRoll - 1 : t = turn[p] /\ t >= 1
    BY <1>1, <2>1
  <2>4. /\ File(l, t)' = <<>> /\ File(l, t + 1)' = File(l, t)
        /\ \A k \in 0 .. MaxRoll : k # t /\ k # t + 1 =>
             File(l, k)' = File(l, k)
    BY <1>1, <1>9, <2>2, <2>3, RenameFiles DEF Shift, ShiftOne
  <2>5. \A k : IsKept(p, l, k)' <=> IsKept(p, l, k)
    BY <2>2, <2>3, <2>4, RenameKeepsLines
  <2>6. File(l, 0)' = File(l, 0)
    BY <1>1, <2>3, <2>4
  <2>7. NoGap(p, l)' /\ (crashes = 0 => Recent(p, l)')
    BY <1>2, <2>5 DEF Shape, NoGap, Recent
  <2>8. Vacated(p, l)'
    <3>1. pc'[p] = "shift" => turn'[p] + 1 = t
      BY <1>1, <1>2, <2>3
    <3>2. pc'[p] = "rename" => t = 1
      BY <1>2, <2>3
    <3>3. Len(File(l, 0)) >= MaxLines /\ pc'[p] # "open"
      BY <1>2 DEF Shape, Vacated
    <3> QED
      BY <2>4, <2>6, <3>1, <3>2, <3>3 DEF Vacated
  <2>9. ASSUME crashes = 0 PROVE Spread(p, l)'
    <3> SUFFICES ASSUME NEW a \in 1 .. MaxRoll,
                        NEW i \in DOMAIN File(l, a)'
                 PROVE  File(l, a)'[i][3] <= written[p][l]
                          - Len(File(l, 0)) - Newer(p, l, a)' * MaxLines
      BY <1>2, <2>6 DEF Spread
    <3>1. Spread(p, l)
      BY <2>9 DEF Shape
    <3>2. a # t /\ a \in 0 .. MaxRoll
      BY <1>1, <2>4
    <3>3. CASE a = t + 1
      <4>1. t \in 1 .. MaxRoll /\ Newer(p, l, t) = t - 1
        BY <1>1, <1>2, <2>3 DEF Newer
      <4>2. Newer(p, l, a)' = t - 1
        BY <1>2, <1>3, <2>3, <3>3 DEF Newer
      <4>3. File(l, a)' = File(l, t)
        BY <2>4, <3>3
      <4> QED
        BY <3>1, <4>1, <4>2, <4>3 DEF Spread
    <3>4. CASE a # t + 1
      <4>1. File(l, a)' = File(l, a)
        BY <2>4, <3>2, <3>4
      <4>2. Newer(p, l, a)' = Newer(p, l, a)
        BY <1>2, <1>3, <2>3, <3>2, <3>4 DEF Newer
      <4> QED
        BY <3>1, <4>1, <4>2 DEF Spread
    <3> QED
      BY <3>3, <3>4
  <2> QED
    BY <1>2, <1>5, <1>6, <2>7, <2>8, <2>9 DEF Shape
<1> QED
  BY <1>8, <1>9

(* All the lines of a log that p alone wrote are lines of p. *)
LEMMA OwnLines ==
  ASSUME Usual, Pure, NEW p \in Procs, NEW l \in Logs, Alone(p, l),
         NEW k \in 0 .. MaxRoll, NEW i \in DOMAIN File(l, k)
  PROVE  /\ File(l, k)[i] = <<p, l, File(l, k)[i][3]>>
         /\ File(l, k)[i][3] \in 1 .. written[p][l]
<1> DEFINE line == File(l, k)[i]
<1>1. /\ line[1] \in Procs /\ line[2] = l /\ line[3] \in Nat /\ line[3] >= 1
      /\ line = <<line[1], line[2], line[3]>>
  BY FilesAre DEF Pure, Usual, OrderInv
<1>2. line[3] <= written[line[1]][line[2]]
  BY NamesAre DEF Usual, OrderInv, Numbered, File
<1>3. line[1] = p
  BY <1>1, <1>2 DEF Alone
<1>4. written[p][l] \in Nat
  BY DEF Usual, OrderInv, TypeInv, TypeOK
<1> HIDE DEF line
<1>5. line = <<p, l, line[3]>> /\ line[3] \in 1 .. written[p][l]
  BY <1>1, <1>2, <1>3, <1>4
<1> QED
  BY <1>5 DEF line

LEMMA RenameCurrentKeepsShape ==
  ASSUME Usual, TypeInv', Detached, Pure, NEW p \in Procs, RenameCurrent(p),
         NEW l \in Logs, l = RotLog(p), Alone(p, l), Shape(p, l)
  PROVE  Shape(p, l)'
<1>1. /\ TypeInv /\ MaxRoll \in Nat \ {0} /\ MaxLines \in Nat \ {0}
      /\ 0 \in 0 .. MaxRoll - 1 /\ 0 + 1 = 1
      /\ 0 \in 0 .. MaxRoll /\ 1 \in 0 .. MaxRoll
      /\ written[p][l] \in Nat
  BY LogAssumption DEF Usual, OrderInv, TypeInv, TypeOK
<1>2. /\ pc[p] = "rename" /\ Rotates(p) /\ RotatesLog(p, l) /\ Live(p)
      /\ pc'[p] = "open" /\ call' = call /\ written' = written
      /\ crashes' = crashes /\ deploy' = deploy
  BY <1>1 DEF RenameCurrent, Rotates, RotatesLog, Live, bounds, TypeInv, TypeOK
<1>3. RotatesLog(p, l)' /\ Live(p)'
  BY <1>2 DEF Rotates, RotLog, Own, RotatesLog, Live
<1>4. Target(p, l)' = Target(p, l) /\ Target(p, l) \in {Null, Closed}
  BY <1>2, DetachedTarget, TargetStays, NamesAre
<1>5. Attached(p, l)' /\ CountIsLow(p, l)'
  BY <1>4, NamesAre DEF Attached, CountIsLow
<1>6. \A k \in 0 .. MaxRoll :
        /\ Len(File(l, k)) \in Nat
        /\ \A i \in DOMAIN File(l, k) : File(l, k)[i][3] \in Nat
  BY <1>1, FilesAre
<1>7. File(l, 1) = <<>> /\ Len(File(l, 0)) >= MaxLines
  BY <1>2 DEF Shape, Vacated
<1>8. /\ File(l, 0)' = <<>> /\ File(l, 1)' = File(l, 0)
      /\ \A k \in 0 .. MaxRoll : k # 0 /\ k # 1 => File(l, k)' = File(l, k)
  <2>1. Rename(<<l, 0>>, <<l, 0 + 1>>)
    BY <1>1 DEF RenameCurrent
  <2>2. File(l, 0 + 1) = <<>>
    BY <1>1, <1>7
  <2>3. /\ File(l, 0)' = <<>> /\ File(l, 0 + 1)' = File(l, 0)
        /\ \A k \in 0 .. MaxRoll : k # 0 /\ k # 0 + 1 =>
             File(l, k)' = File(l, k)
    BY <1>1, <2>1, <2>2, RenameFiles
  <2> QED
    BY <1>1, <2>3
<1>9. \A k : IsKept(p, l, k)' <=> IsKept(p, l, k)
  <2>1. /\ File(l, 0 + 1) = <<>> /\ File(l, 0 + 1)' = File(l, 0)
        /\ \A k \in 0 .. MaxRoll : k # 0 /\ k # 0 + 1 =>
             File(l, k)' = File(l, k)
    BY <1>1, <1>7, <1>8
  <2> QED
    BY <1>1, <1>8, <2>1, RenameKeepsLines
<1>10. NoGap(p, l)' /\ (crashes = 0 => Recent(p, l)')
  BY <1>2, <1>9 DEF Shape, NoGap, Recent
<1>11. Vacated(p, l)'
  BY <1>2, <1>8 DEF Vacated
<1>12. ASSUME crashes = 0 PROVE Spread(p, l)'
  <2> SUFFICES ASSUME NEW a \in 1 .. MaxRoll, NEW i \in DOMAIN File(l, a)'
               PROVE  File(l, a)'[i][3] <= written[p][l]
                        - Len(File(l, 0)') - Newer(p, l, a)' * MaxLines
    BY <1>2 DEF Spread
  <2>1. Newer(p, l, a)' = a - 1 /\ Newer(p, l, a) = a - 2
    BY <1>2 DEF Newer
  <2>2. Len(File(l, 0)') = 0
    BY <1>8
  <2>3. CASE a = 1
    <3>1. File(l, a)' = File(l, 0)
      BY <1>8, <2>3
    <3>2. File(l, a)'[i][3] <= written[p][l]
      BY <1>1, <3>1, OwnLines
    <3>3. Newer(p, l, a)' * MaxLines = 0
      BY <1>1, <2>1, <2>3
    <3>4. File(l, a)'[i][3] \in Nat
      BY <1>1, <1>6, <3>1
    <3> QED
      BY <1>1, <2>2, <3>2, <3>3, <3>4
  <2>4. CASE a # 1
    <3>1. a \in 0 .. MaxRoll /\ File(l, a)' = File(l, a)
      BY <1>1, <1>8, <2>4
    <3> DEFINE before == (a - 2) * MaxLines
               after == (a - 1) * MaxLines
    <3>2. /\ after = before + MaxLines /\ before \in Int /\ after \in Int
      BY <1>1
    <3>3. File(l, a)[i][3] <= written[p][l] - Len(File(l, 0)) - before
      BY <1>12, <2>1, <3>1 DEF Shape, Spread
    <3>4. File(l, a)[i][3] \in Nat /\ Len(File(l, 0)) \in Nat
      BY <1>1, <1>6, <3>1
    <3> HIDE DEF before, after
    <3>5. File(l, a)[i][3] <= written[p][l] - 0 - after
      BY <1>1, <1>7, <3>2, <3>3, <3>4
    <3> QED
      BY <2>1, <2>2, <3>1, <3>5 DEF after
  <2> QED
    BY <2>3, <2>4
<1> QED
  BY <1>2, <1>5, <1>10, <1>11, <1>12 DEF Shape

(* Steps that leave the files of the log as they are. *)
LEMMA QuietShape ==
  ASSUME NEW p \in Procs, NEW l \in Logs, Shape(p, l),
         \A k \in 0 .. MaxRoll : File(l, k)' = File(l, k),
         written'[p][l] = written[p][l], crashes' = 0 => crashes = 0,
         ~RotatesLog(p, l)',
         RotatesLog(p, l) => pc[p] = "open" \/ crashes' # 0,
         Attached(p, l)', CountIsLow(p, l)'
  PROVE  Shape(p, l)'
<1>1. \A k : IsKept(p, l, k)' <=> IsKept(p, l, k)
  BY DEF IsKept, File
<1>2. NoGap(p, l)' /\ (crashes' = 0 => Recent(p, l)')
  BY <1>1 DEF Shape, NoGap, Recent
<1>3. Vacated(p, l)'
  BY DEF Vacated
<1>4. ASSUME crashes' = 0 PROVE Spread(p, l)'
  <2>1. \A a : Newer(p, l, a)' = a - 1 /\ Newer(p, l, a) = a - 1
    BY <1>4 DEF Newer
  <2>2. \A a \in 1 .. MaxRoll : File(l, a)' = File(l, a)
    BY NamesAre
  <2>3. File(l, 0)' = File(l, 0)
    BY NamesAre
  <2> QED
    BY <1>4, <2>1, <2>2, <2>3 DEF Shape, Spread
<1> QED
  BY <1>2, <1>3, <1>4 DEF Shape

(* Steps of another process.                                               *)
LEMMA SameShape ==
  ASSUME NEW p \in Procs, NEW l \in Logs, Shape(p, l),
         \A k \in 0 .. MaxRoll : File(l, k)' = File(l, k),
         written'[p][l] = written[p][l], crashes' = 0 => crashes = 0,
         pc'[p] = pc[p], turn'[p] = turn[p], Count(p, l)' = Count(p, l),
         RotatesLog(p, l)' <=> RotatesLog(p, l),
         Live(p) => Target(p, l)' = Target(p, l)
  PROVE  Shape(p, l)'
<1>1. \A k : IsKept(p, l, k)' <=> IsKept(p, l, k)
  BY DEF IsKept, File
<1>2. NoGap(p, l)' /\ (crashes' = 0 => Recent(p, l)')
  BY <1>1 DEF Shape, NoGap, Recent
<1>3. File(l, 0)' = File(l, 0) /\ File(l, 1)' = File(l, 1)
  BY NamesAre
<1>4. Vacated(p, l)'
  BY <1>3 DEF Shape, Vacated
<1>5. Attached(p, l)' /\ CountIsLow(p, l)'
  BY <1>3 DEF Shape, Attached, CountIsLow, Live
<1>6. ASSUME crashes' = 0 PROVE Spread(p, l)'
  <2>1. \A a : Newer(p, l, a)' = Newer(p, l, a)
    BY DEF Newer
  <2>2. \A a \in 1 .. MaxRoll : File(l, a)' = File(l, a)
    BY NamesAre
  <2> QED
    BY <1>3, <1>6, <2>1, <2>2 DEF Shape, Spread
<1> QED
  BY <1>2, <1>4, <1>5, <1>6 DEF Shape

LEMMA CloseStreamKeepsShape ==
  ASSUME Usual, NEW p \in Procs, CloseStream(p), p = Main => call[p] # "access",
         NEW l \in Logs, l = RotLog(p), Shape(p, l)
  PROVE  Shape(p, l)'
<1>1. /\ pc[p] = "log" /\ pc'[p] = "shift" /\ turn'[p] = MaxRoll
      /\ dir' = dir /\ call' = call /\ written' = written
      /\ crashes' = crashes /\ deploy' = deploy
  BY DEF CloseStream, bounds, Usual, OrderInv, TypeInv, TypeOK
<1>2. \A k \in 0 .. MaxRoll : File(l, k)' = File(l, k)
  BY <1>1 DEF File, Contents
<1>3. /\ ~RotatesLog(p, l) /\ RotatesLog(p, l)' /\ Live(p) /\ Live(p)'
  BY <1>1 DEF RotatesLog, Rotates, RotLog, Own, Live
<1>4. /\ Stream(p) = Target(p, l)
      /\ l = IF call[p] = "access" THEN "access" ELSE "system"
      /\ Target(p, "access") = g_access_log[p]
      /\ Target(p, "system") = g_system_log[p]
  BY <1>1, TargetIs
<1>5. Target(p, l) = <<l, 0>> /\ Count(p, l) >= MaxLines
  <2>1. IsOpen(Stream(p)) /\ MustRotate(p)
    BY DEF CloseStream
  <2>2. Target(p, l) = <<l, 0>>
    BY <1>3, <1>4, <2>1 DEF IsOpen, Shape, Attached
  <2>3. LinesOf(p) = Count(p, l)
    BY <1>4 DEF LinesOf, Count
  <2> QED
    BY <2>1, <2>2, <2>3 DEF MustRotate
<1>6. Len(File(l, 0)) >= MaxLines
  <2>1. Count(p, l) <= Len(File(l, 0))
    BY <1>3, <1>4, <1>5 DEF Shape, CountIsLow
  <2>2. /\ Count(p, l) \in Nat /\ Len(File(l, 0)) \in Nat /\ MaxLines \in Nat
    BY FilesAre, NamesAre, LogAssumption
       DEF Count, Usual, OrderInv, TypeInv, TypeOK
  <2> QED
    BY <1>5, <2>1, <2>2
<1>7. /\ g_access_log[p] # Null /\ ~shared[p]
  BY <1>1 DEF Usual, Sound, Types, Pointers
<1>8. Target(p, l)' \in {Null, Closed}
  <2>1. CASE call[p] = "access"
    <3>1. g_access_log'[p] = Closed
      BY <1>7, <2>1 DEF CloseStream, Usual, Sound, Types
    <3> QED
      BY <1>4, <2>1, <3>1, NamesAre DEF Target
  <2>2. CASE call[p] # "access"
    <3>1. g_system_log'[p] = Null
      BY <2>2 DEF CloseStream, Usual, Sound, Types
    <3> QED
      BY <1>4, <2>2, <3>1 DEF Target
  <2> QED
    BY <2>1, <2>2
<1>9. Attached(p, l)' /\ CountIsLow(p, l)'
  BY <1>8, NamesAre DEF Attached, CountIsLow
<1>10. Vacated(p, l)'
  <2>1. \A k \in 0 .. MaxRoll : k # turn'[p] + 1
    BY <1>1, NamesAre
  <2>2. File(l, 0)' = File(l, 0)
    BY <1>2, NamesAre
  <2> QED
    BY <1>1, <1>6, <2>1, <2>2 DEF Vacated
<1>11. \A k : IsKept(p, l, k)' <=> IsKept(p, l, k)
  BY <1>2 DEF IsKept, File
<1>12. NoGap(p, l)' /\ (crashes = 0 => Recent(p, l)')
  BY <1>1, <1>11 DEF Shape, NoGap, Recent
<1>13. ASSUME crashes = 0 PROVE Spread(p, l)'
  <2>1. \A a \in 1 .. MaxRoll : Newer(p, l, a)' = a - 1 /\ Newer(p, l, a) = a - 1
    BY <1>1, <1>3, NamesAre DEF Newer
  <2>2. \A a \in 1 .. MaxRoll : File(l, a)' = File(l, a)
    BY <1>2, NamesAre
  <2>3. File(l, 0)' = File(l, 0)
    BY <1>2, NamesAre
  <2> QED
    BY <1>1, <1>13, <2>1, <2>2, <2>3 DEF Shape, Spread
<1> QED
  BY <1>1, <1>9, <1>10, <1>12, <1>13 DEF Shape

(* What a line adds. *)
LEMMA WriteAdds ==
  ASSUME Usual, NEW p \in Procs, Write(p), NEW l \in Logs, l = RotLog(p),
         Attached(p, l)
  PROVE  /\ Target(p, l) = <<l, 0>> /\ Live(p) /\ ~Rotates(p)
         /\ written[p][l] \in Nat
         /\ written' = [written EXCEPT ![p][l] = @ + 1]
         /\ File(l, 0)' = Append(File(l, 0), <<p, l, written[p][l] + 1>>)
         /\ \A k \in 1 .. MaxRoll : File(l, k)' = File(l, k)
         /\ pc'[p] \in {"idle", "closing"}
         /\ Count(p, l)' = Count(p, l) + 1
<1>1. /\ Stream(p) = Target(p, l)
      /\ l = IF call[p] = "access" THEN "access" ELSE "system"
      /\ Live(p) /\ ~Rotates(p) /\ IsOpen(Stream(p))
  BY TargetIs DEF Write, Live, Rotates
<1>2. Target(p, l) = <<l, 0>>
  BY <1>1 DEF Attached, IsOpen
<1>3. /\ <<l, 0>> \in Names /\ <<l, 0>> # Unlinked
      /\ \A k \in 0 .. MaxRoll : <<l, k>> \in Names
      /\ \A k \in 1 .. MaxRoll : k \in 0 .. MaxRoll /\ <<l, k>> # <<l, 0>>
  BY NamesAre
<1>4. dir[<<l, 0>>] # Absent
  BY <1>2, <1>3 DEF Target, Usual, OrderInv, Present
<1>5. /\ written[p][l] \in Nat /\ written \in [Procs -> [Logs -> Nat]]
      /\ DOMAIN dir = Names
  BY DEF Usual, OrderInv, TypeInv, TypeOK
<1>6. PICK line : line = <<p, l, written[p][l] + 1>>
  OBVIOUS
<1>7. /\ written' = [written EXCEPT ![p][l] = @ + 1]
      /\ dir' = [dir EXCEPT ![<<l, 0>>] = Append(@, line)]
  BY <1>1, <1>2, <1>3, <1>6 DEF Write, Appended
<1>8. /\ dir'[<<l, 0>>] = Append(dir[<<l, 0>>], line)
      /\ \A k \in 1 .. MaxRoll : dir'[<<l, k>>] = dir[<<l, k>>]
  BY <1>3, <1>5, <1>7
<1>9. Append(dir[<<l, 0>>], line) # Absent /\ File(l, 0) = dir[<<l, 0>>]
  <2>1. dir[<<l, 0>>] \in Seq(Lines)
    BY <1>3, <1>4 DEF Usual, OrderInv, TypeInv, TypeOK, Lines
  <2>2. line \in Lines
    BY <1>5, <1>6 DEF Lines
  <2>3. Append(dir[<<l, 0>>], line) \in Seq(Lines)
    BY <2>1, <2>2
  <2> QED
    BY <1>4, <2>3, NamesAre DEF File, Contents
<1>10. /\ File(l, 0)' = Append(File(l, 0), line)
       /\ \A k \in 1 .. MaxRoll : File(l, k)' = File(l, k)
  BY <1>8, <1>9 DEF File, Contents
<1>11. pc'[p] \in {"idle", "closing"}
  BY DEF Write, Return, Usual, OrderInv, TypeInv, TypeOK
<1>12. Count(p, l)' = Count(p, l) + 1
  BY <1>1 DEF Write, Count, Usual, OrderInv, TypeInv, TypeOK
<1> QED
  BY <1>1, <1>2, <1>5, <1>6, <1>7, <1>10, <1>11, <1>12

LEMMA WriteKeepsShape ==
  ASSUME Usual, TypeInv', Pure, NEW p \in Procs, Write(p),
         NEW l \in Logs, l = RotLog(p), Alone(p, l), Shape(p, l)
  PROVE  Shape(p, l)'
<1>0. PICK n \in Nat : n = written[p][l]
  BY WriteAdds DEF Shape
<1>1. /\ Target(p, l) = <<l, 0>> /\ Live(p) /\ ~Rotates(p)
      /\ written' = [written EXCEPT ![p][l] = @ + 1]
      /\ File(l, 0)' = Append(File(l, 0), <<p, l, n + 1>>)
      /\ \A k \in 1 .. MaxRoll : File(l, k)' = File(l, k)
      /\ pc'[p] \in {"idle", "closing"}
      /\ Count(p, l)' = Count(p, l) + 1
  BY <1>0, WriteAdds DEF Shape
<1>2. /\ 0 \in 0 .. MaxRoll /\ MaxRoll \in Nat /\ MaxLines \in Nat \ {0}
      /\ \A k \in 0 .. MaxRoll : k = 0 \/ k \in 1 .. MaxRoll
  BY NamesAre, LogAssumption
<1>3. /\ File(l, 0) \in Seq(Lines) /\ Len(File(l, 0)) \in Nat
      /\ DOMAIN File(l, 0) = 1 .. Len(File(l, 0))
      /\ \A k \in 0 .. MaxRoll : \A i \in DOMAIN File(l, k) :
           File(l, k)[i][3] \in Nat
  BY <1>2, FilesAre DEF Usual, OrderInv
<1>4. /\ Len(File(l, 0)') = Len(File(l, 0)) + 1
      /\ \A i \in DOMAIN File(l, 0) :
           i \in DOMAIN File(l, 0)' /\ File(l, 0)'[i] = File(l, 0)[i]
      /\ Len(File(l, 0)) + 1 \in DOMAIN File(l, 0)'
      /\ File(l, 0)'[Len(File(l, 0)) + 1] = <<p, l, n + 1>>
  <2>0. PICK s \in Seq(Lines) : s = File(l, 0)
    BY <1>3
  <2>1. PICK line : s = File(l, 0) /\ line = <<p, l, n + 1>>
    BY <2>0
  <2>2. /\ File(l, 0)' = Append(s, line) /\ DOMAIN s = 1 .. Len(s)
        /\ Len(s) \in Nat
    BY <1>1, <1>3, <2>1
  <2>3. /\ Len(Append(s, line)) = Len(s) + 1
        /\ Append(s, line)[Len(s) + 1] = line
        /\ DOMAIN Append(s, line) = 1 .. Len(s) + 1
        /\ \A i \in 1 .. Len(s) : Append(s, line)[i] = s[i]
    BY <2>2
  <2>4. PICK r : r = Append(s, line)
    OBVIOUS
  <2>5. /\ Len(r) = Len(s) + 1 /\ r[Len(s) + 1] = line
        /\ DOMAIN r = 1 .. Len(s) + 1 /\ \A i \in 1 .. Len(s) : r[i] = s[i]
        /\ File(l, 0)' = r
    BY <2>2, <2>3, <2>4
  <2>6. /\ \A i \in 1 .. Len(s) : i \in 1 .. Len(s) + 1
        /\ Len(s) + 1 \in 1 .. Len(s) + 1
    BY <2>2
  <2> QED
    BY <2>1, <2>2, <2>5, <2>6
<1>5. /\ Target(p, l)' = Target(p, l) /\ ~RotatesLog(p, l) /\ ~RotatesLog(p, l)'
      /\ Live(p)' /\ crashes' = crashes /\ written'[p][l] = n + 1
      /\ Count(p, l) \in Nat
  BY <1>0, <1>1 DEF Write, streams, bounds, Target, RotatesLog, Rotates, Live,
              Count, Usual, OrderInv, TypeInv, TypeOK
<1>6. /\ \A k : IsKept(p, l, k) => IsKept(p, l, k)'
      /\ IsKept(p, l, n + 1)'
  <2>1. ASSUME NEW k, IsKept(p, l, k) PROVE IsKept(p, l, k)'
    <3>1. PICK a \in 0 .. MaxRoll :
            \E j \in DOMAIN File(l, a) : File(l, a)[j] = <<p, l, k>>
      BY <2>1, KeptIs
    <3>2. \E j \in DOMAIN File(l, a)' : File(l, a)'[j] = <<p, l, k>>
      BY <1>1, <1>2, <1>4, <3>1
    <3> QED
      BY <3>2 DEF IsKept, File
  <2>2. \E j \in DOMAIN File(l, 0)' : File(l, 0)'[j] = <<p, l, n + 1>>
    BY <1>4
  <2> QED
    BY <1>2, <2>1, <2>2 DEF IsKept, File
<1>7. NoGap(p, l)'
  <2> SUFFICES ASSUME NEW k \in 1 .. n + 1, NEW j \in 1 .. k, k # n + 1,
                      IsKept(p, l, j)'
               PROVE  IsKept(p, l, k)'
    BY <1>5, <1>6 DEF NoGap
  <2>1. k \in 1 .. n /\ j # n + 1
    OBVIOUS
  <2>2. PICK a \in 0 .. MaxRoll : \E i \in DOMAIN File(l, a)' :
          File(l, a)'[i] = <<p, l, j>>
    BY DEF IsKept, File
  <2>3. PICK i \in DOMAIN File(l, a)' : File(l, a)'[i] = <<p, l, j>>
    BY <2>2
  <2>4. i \in DOMAIN File(l, a) /\ File(l, a)[i] = <<p, l, j>>
    <3>1. CASE a = 0
      <4>1. i \in DOMAIN File(l, 0) \/ i = Len(File(l, 0)) + 1
        BY <1>1, <1>3, <2>3, <3>1
      <4>2. i # Len(File(l, 0)) + 1
        BY <1>4, <2>1, <2>3, <3>1
      <4> QED
        BY <1>4, <2>3, <3>1, <4>1, <4>2
    <3>2. CASE a # 0
      BY <1>1, <1>2, <2>3, <3>2
    <3> QED
      BY <3>1, <3>2
  <2>5. IsKept(p, l, k)
    BY <1>0, <2>1, <2>4, KeptIs DEF Shape, NoGap
  <2> QED
    BY <1>6, <2>5
<1>8. Attached(p, l)' /\ Vacated(p, l)' /\ CountIsLow(p, l)'
  <2>1. Attached(p, l)' /\ Vacated(p, l)'
    BY <1>1, <1>5 DEF Attached, Vacated
  <2>2. CountIsLow(p, l)'
    BY <1>1, <1>3, <1>4, <1>5 DEF CountIsLow, Shape
  <2> QED
    BY <2>1, <2>2
<1>9. ASSUME crashes = 0 PROVE Recent(p, l)' /\ Spread(p, l)'
  <2>0. PICK m : m = n + 1 /\ written'[p][l] = m
    BY <1>5
  <2>1. Recent(p, l)'
    <3> DEFINE all == MaxRoll * MaxLines
    <3>1. all \in Int
      BY <1>2
    <3>2. \A k \in 1 .. n : k > n - all => IsKept(p, l, k)
      BY <1>0, <1>9 DEF Shape, Recent
    <3> HIDE DEF all
    <3>3. ASSUME NEW k \in 1 .. m, k > m - all PROVE IsKept(p, l, k)'
      <4>1. k = n + 1 \/ (k \in 1 .. n /\ k > n - all)
        BY <2>0, <3>1, <3>3
      <4> QED
        BY <1>6, <3>2, <4>1
    <3>4. \A k \in 1 .. m : k > m - MaxRoll * MaxLines => IsKept(p, l, k)'
      BY <3>3 DEF all
    <3> QED
      BY <2>0, <3>4 DEF Recent
  <2>2. Spread(p, l)'
    <3> SUFFICES ASSUME NEW a \in 1 .. MaxRoll, NEW i \in DOMAIN File(l, a)'
                 PROVE  File(l, a)'[i][3] <= m
                          - Len(File(l, 0)') - Newer(p, l, a)' * MaxLines
      BY <2>0 DEF Spread
    <3>1. /\ Newer(p, l, a) = a - 1 /\ Newer(p, l, a)' = a - 1
          /\ File(l, a)' = File(l, a) /\ a \in 0 .. MaxRoll
      BY <1>1, <1>5 DEF Newer
    <3> DEFINE newer == (a - 1) * MaxLines
    <3>2. newer \in Int
      BY <1>2
    <3>3. File(l, a)[i][3] <= n - Len(File(l, 0)) - newer
      BY <1>0, <1>9, <3>1 DEF Shape, Spread
    <3>4. File(l, a)[i][3] \in Nat
      BY <1>3, <3>1
    <3> HIDE DEF newer
    <3>5. File(l, a)[i][3] <= m - Len(File(l, 0)') - newer
      <4>1. Len(File(l, 0)') = Len(File(l, 0)) + 1 /\ Len(File(l, 0)) \in Nat
        BY <1>3, <1>4
      <4>2. PICK x \in Nat, y \in Nat, z \in Nat :
              x = File(l, a)[i][3] /\ y = Len(File(l, 0)) /\ z = Len(File(l, 0)')
        BY <3>4, <4>1
      <4>3. x <= n - y - newer /\ z = y + 1
        BY <3>3, <4>1, <4>2
      <4>4. x <= m - z - newer
        <5>1. PICK c \in Int : c = newer
          BY <3>2
        <5>2. x <= n - y - c /\ z = y + 1 /\ m = n + 1
          BY <2>0, <4>3, <5>1
        <5>3. x <= m - z - c
          BY <5>2
        <5> QED
          BY <5>1, <5>3
      <4> QED
        BY <4>2, <4>4
    <3> QED
      BY <3>1, <3>5 DEF newer
  <2> QED
    BY <2>1, <2>2
<1> QED
  BY <1>5, <1>7, <1>8, <1>9 DEF Shape

(* A process that does not rotate a log keeps its stream on it and its     *)
(* count, unless it ends.                                                  *)
LEMMA OtherLog ==
  ASSUME Usual, NEW p \in Procs, Step(p), NEW l \in Logs, l # RotLog(p),
         Shift(p) \/ RenameCurrent(p) => Attached(p, l)
  PROVE  Live(p)' => /\ Live(p) /\ Target(p, l)' = Target(p, l)
                     /\ Count(p, l)' = Count(p, l)
<1> SUFFICES ASSUME Live(p)'
             PROVE  /\ Live(p) /\ Target(p, l)' = Target(p, l)
                    /\ Count(p, l)' = Count(p, l)
  OBVIOUS
<1>1. l = "access" \/ l = "system"
  BY DEF Logs
<1>2. CASE \/ \E c \in {"system", "access", "close"} : Call(p, c)
           \/ Drop(p) \/ Undefined(p)
  <2>1. /\ Live(p) /\ UNCHANGED <<g_system_log, g_access_log,
                                  g_system_lines, g_access_lines>>
    BY <1>2 DEF Call, Drop, Undefined, Live, streams, counts
  <2> QED
    BY <2>1 DEF Target, Count
<1>3. CASE Shift(p) \/ RenameCurrent(p)
  <2>1. Live(p) /\ UNCHANGED <<g_system_lines, g_access_lines>>
    BY <1>3 DEF Shift, RenameCurrent, Live, counts
  <2>2. pc[p] # "off" /\ Target(p, l) \in {<<l, 0>>, Null, Closed}
    BY <1>3, <2>1 DEF Live, Attached
  <2>3. Target(p, l)' = Target(p, l)
    BY <1>3, <2>2, TargetStays
  <2> QED
    BY <2>1, <2>3 DEF Count
<1>4. CASE OpenFails(p) \/ Write(p)
  <2>1. Live(p) /\ UNCHANGED <<g_system_log, g_access_log>>
    BY <1>4 DEF OpenFails, Write, Live, streams
  <2>2. RotLog(p) = IF call[p] = "access" THEN "access" ELSE "system"
    BY <2>1, TargetIs DEF Live
  <2>3. CASE call[p] = "access"
    <3>1. l = "system" /\ UNCHANGED g_system_lines
      BY <1>1, <1>4, <2>2, <2>3 DEF OpenFails, ResetCount, Write
    <3> QED
      BY <2>1, <3>1 DEF Target, Count
  <2>4. CASE call[p] # "access"
    <3>1. l = "access" /\ UNCHANGED g_access_lines
      BY <1>1, <1>4, <2>2, <2>4 DEF OpenFails, ResetCount, Write
    <3> QED
      BY <2>1, <3>1 DEF Target, Count
  <2> QED
    BY <2>3, <2>4
<1>5. CASE CloseStream(p) \/ OpenNew(p)
  <2>1. Live(p) /\ pc[p] # "off"
    BY <1>5 DEF CloseStream, OpenNew, Live
  <2>2. RotLog(p) = IF call[p] = "access" THEN "access" ELSE "system"
    BY <2>1, TargetIs
  <2>3. /\ g_access_log[p] # Null /\ ~shared[p] /\ g_system_log[p] # Closed
        /\ call[p] # "access" => g_access_log[p] # Closed
        /\ DOMAIN g_system_log = Procs /\ DOMAIN g_access_log = Procs
    BY <2>1, NameFacts DEF Usual, Sound, Types, Pointers
  <2>4. CASE call[p] = "access"
    <3>1. l = "system"
      BY <1>1, <2>2, <2>4
    <3>2. g_system_log'[p] = g_system_log[p]
      BY <1>5, <2>3, <2>4 DEF CloseStream, OpenNew, Reused, Usual, Own
    <3>3. g_system_lines' = g_system_lines
      BY <1>5, <2>4 DEF CloseStream, OpenNew, ResetCount, counts
    <3> QED
      BY <2>1, <3>1, <3>2, <3>3 DEF Target, Count
  <2>5. CASE call[p] # "access"
    <3>1. l = "access"
      BY <1>1, <2>2, <2>5
    <3>2. g_access_log'[p] = g_access_log[p]
      BY <1>5, <2>3, <2>5 DEF CloseStream, OpenNew, Reused
    <3>3. g_access_lines' = g_access_lines
      BY <1>5, <2>5 DEF CloseStream, OpenNew, ResetCount, counts
    <3> QED
      BY <2>1, <2>3, <3>1, <3>2, <3>3 DEF Target, Count
  <2> QED
    BY <2>4, <2>5
<1>6. CASE LogClose(p) \/ Crash(p)
  <2>1. pc'[p] \in {"off", "undefined"}
    BY <1>6 DEF LogClose, Crash, Usual, OrderInv, TypeInv, TypeOK
  <2>2. pc'[p] # "undefined"
    <3>1. CASE Crash(p)
      BY <3>1 DEF Crash, Usual, OrderInv, TypeInv, TypeOK
    <3>2. CASE LogClose(p)
      <4>1. /\ ~shared[p] /\ g_access_log[p] # Closed /\ g_system_log[p] # Closed
        BY <3>2, NameFacts
           DEF LogClose, Usual, Sound, Types, Pointers, Rotates
      <4> QED
        BY <3>2, <4>1 DEF LogClose, Usual, OrderInv, TypeInv, TypeOK
    <3> QED
      BY <1>6, <3>1, <3>2
  <2> QED
    BY <2>1, <2>2 DEF Live
<1> QED
  BY <1>2, <1>3, <1>4, <1>5, <1>6 DEF Step

(* A step of p on the log it is not about. *)
LEMMA OtherLogKeepsShape ==
  ASSUME Usual, Detached, NEW p \in Procs, Step(p), NEW l \in Logs,
         l # RotLog(p), Alone(p, l), Shape(p, l)
  PROVE  Shape(p, l)'
<1>1. \A k \in 0 .. MaxRoll : File(l, k)' = File(l, k)
  BY FilesStay
<1>2. /\ Live(p)' => /\ Live(p) /\ Target(p, l)' = Target(p, l)
                     /\ Count(p, l)' = Count(p, l)
  BY OtherLog DEF Shape
<1>3. ~RotatesLog(p, l) /\ ~RotatesLog(p, l)'
  <2>1. ~RotatesLog(p, l)
    BY DEF RotatesLog
  <2>2. CASE Rotates(p)'
    <3>1. call' = call /\ deploy' = deploy
      <4>1. \/ CloseStream(p) \/ Shift(p) \/ RenameCurrent(p)
        BY <2>2 DEF Step, Rotates, Call, Drop, Undefined, OpenNew, OpenFails,
             Write, LogClose, Crash, Return, Usual, OrderInv, TypeInv, TypeOK
      <4> QED
        BY <4>1 DEF CloseStream, Shift, RenameCurrent, bounds
    <3> QED
      BY <3>1 DEF RotatesLog, RotLog, Own
  <2> QED
    BY <2>1, <2>2 DEF RotatesLog
<1>4. written'[p][l] = written[p][l] /\ (crashes' = 0 => crashes = 0)
  <2>1. CASE Write(p)
    <3>1. pc[p] # "off"
      BY <2>1 DEF Write
    <3>2. RotLog(p) = IF call[p] = "access" THEN "access" ELSE "system"
      BY <3>1, TargetIs
    <3> QED
      BY <2>1, <3>2 DEF Write, bounds, Usual, OrderInv, TypeInv, TypeOK
  <2>2. CASE ~Write(p)
    <3>1. written' = written
      BY <2>2 DEF Step, Call, Drop, Undefined, CloseStream, Shift,
           RenameCurrent, OpenNew, OpenFails, LogClose, Crash
    <3>2. crashes' = crashes \/ crashes' = crashes + 1
      BY <2>2 DEF Step, Call, Drop, Undefined, CloseStream, Shift,
           RenameCurrent, OpenNew, OpenFails, LogClose, Crash, bounds
    <3>3. crashes \in Nat
      BY DEF Usual, OrderInv, TypeInv, TypeOK
    <3> QED
      BY <3>1, <3>2, <3>3
  <2> QED
    BY <2>1, <2>2
<1>5. File(l, 0)' = File(l, 0)
  BY <1>1, NamesAre
<1>6. Attached(p, l)' /\ CountIsLow(p, l)'
  BY <1>2, <1>5 DEF Shape, Attached, CountIsLow
<1> QED
  BY <1>1, <1>3, <1>4, <1>6, QuietShape

(* A call begins, or drops its line. *)
LEMMA CallKeepsShape ==
  ASSUME Usual, NEW p \in Procs,
         \/ \E c \in {"system", "access", "close"} : Call(p, c)
         \/ Drop(p) \/ Undefined(p),
         NEW l \in Logs, Shape(p, l)
  PROVE  Shape(p, l)'
<1>1. /\ UNCHANGED <<dir, g_system_log, g_access_log, g_system_lines,
                     g_access_lines, written, crashes>>
      /\ pc[p] \in {"idle", "log", "write"}
  BY DEF Call, Drop, Undefined, streams, counts, bounds
<1>2. pc'[p] \in {"log", "idle", "closing", "undefined"}
  BY DEF Call, Drop, Undefined, Return, Usual, OrderInv, TypeInv, TypeOK
<1>3. /\ \A k \in 0 .. MaxRoll : File(l, k)' = File(l, k)
      /\ Target(p, l)' = Target(p, l) /\ Count(p, l)' = Count(p, l)
  BY <1>1 DEF File, Contents, Target, Count
<1>4. ~RotatesLog(p, l) /\ ~RotatesLog(p, l)' /\ Live(p) /\ Live(p)'
  BY <1>1, <1>2 DEF RotatesLog, Rotates, Live
<1>5. File(l, 0)' = File(l, 0)
  BY <1>3, NamesAre
<1>6. Attached(p, l)' /\ CountIsLow(p, l)'
  BY <1>3, <1>4, <1>5 DEF Shape, Attached, CountIsLow
<1> QED
  BY <1>1, <1>3, <1>4, <1>6, QuietShape

(* The new file is there, or cannot be opened. *)
LEMMA OpenNewKeepsShape ==
  ASSUME Usual, NEW p \in Procs, OpenNew(p),
         NEW l \in Logs, l = RotLog(p), Shape(p, l)
  PROVE  Shape(p, l)'
<1>1. /\ pc[p] = "open" /\ pc'[p] = "write" /\ call' = call
      /\ crashes' = crashes /\ written' = written
  BY DEF OpenNew, bounds, Usual, OrderInv, TypeInv, TypeOK
<1>2. \A k \in 0 .. MaxRoll : File(l, k)' = File(l, k)
  BY <1>1, FilesStay DEF Step, Shift, RenameCurrent, Write
<1>3. ~RotatesLog(p, l)'
  BY <1>1 DEF RotatesLog, Rotates
<1>4. l = IF call[p] = "access" THEN "access" ELSE "system"
  BY <1>1, TargetIs
<1>5. Target(p, l)' = <<l, 0>>
  <2>1. CASE call[p] = "access"
    <3>1. g_access_log'[p] = <<l, 0>>
      BY <2>1 DEF OpenNew, Usual, OrderInv, TypeInv, TypeOK
    <3> QED
      BY <1>4, <2>1, <3>1, NamesAre DEF Target
  <2>2. CASE call[p] # "access"
    <3>1. g_system_log'[p] = <<l, 0>>
      BY <2>2 DEF OpenNew, Usual, OrderInv, TypeInv, TypeOK
    <3> QED
      BY <1>4, <2>2, <3>1 DEF Target
  <2> QED
    BY <2>1, <2>2
<1>6. Count(p, l)' = 0
  BY <1>4 DEF OpenNew, ResetCount, Count, Usual, OrderInv, TypeInv, TypeOK
<1>7. File(l, 0)' = File(l, 0) /\ Len(File(l, 0)) \in Nat
  BY <1>2, FilesAre, NamesAre DEF Usual, OrderInv
<1>8. Attached(p, l)' /\ CountIsLow(p, l)'
  BY <1>5, <1>6, <1>7 DEF Attached, CountIsLow
<1> QED
  BY <1>1, <1>2, <1>3, <1>8, QuietShape

LEMMA OpenFailsKeepsShape ==
  ASSUME Usual, Detached, NEW p \in Procs, OpenFails(p),
         NEW l \in Logs, l = RotLog(p), Shape(p, l)
  PROVE  Shape(p, l)'
<1>1. /\ pc[p] = "open" /\ pc'[p] \in {"idle", "closing"}
      /\ crashes' = crashes /\ UNCHANGED <<dir, written>>
      /\ UNCHANGED <<g_system_log, g_access_log>>
  BY DEF OpenFails, Return, streams, Usual, OrderInv, TypeInv, TypeOK
<1>2. \A k \in 0 .. MaxRoll : File(l, k)' = File(l, k)
  BY <1>1 DEF File, Contents
<1>3. ~RotatesLog(p, l)'
  BY <1>1 DEF RotatesLog, Rotates
<1>4. Target(p, l)' = Target(p, l) /\ Target(p, l) \in {Null, Closed}
  BY <1>1, DetachedTarget DEF Target, Rotates
<1>5. Attached(p, l)' /\ CountIsLow(p, l)'
  BY <1>4, NamesAre DEF Attached, CountIsLow
<1> QED
  BY <1>1, <1>2, <1>3, <1>5, QuietShape

(* The end of a process. *)
LEMMA EndIsQuiet ==
  ASSUME Usual, NEW p \in Procs, LogClose(p) \/ Crash(p)
  PROVE  /\ pc'[p] = "off" /\ UNCHANGED <<dir, written>>
         /\ \/ pc[p] = "closing" /\ crashes' = crashes
            \/ crashes \in Nat /\ crashes' = crashes + 1
<1>1. CASE Crash(p)
  BY <1>1 DEF Crash, Usual, OrderInv, TypeInv, TypeOK
<1>2. CASE LogClose(p)
  <2>1. /\ ~shared[p] /\ g_access_log[p] # Closed /\ g_system_log[p] # Closed
    BY <1>2, NameFacts DEF LogClose, Usual, Sound, Types, Pointers, Rotates
  <2> QED
    BY <1>2, <2>1 DEF LogClose, bounds, Usual, OrderInv, TypeInv, TypeOK
<1> QED
  BY <1>1, <1>2

LEMMA EndKeepsShape ==
  ASSUME Usual, NEW p \in Procs, LogClose(p) \/ Crash(p),
         NEW l \in Logs, Shape(p, l)
  PROVE  Shape(p, l)'
<1>1. /\ pc'[p] = "off" /\ UNCHANGED <<dir, written>>
      /\ \/ pc[p] = "closing" /\ crashes' = crashes
         \/ crashes \in Nat /\ crashes' = crashes + 1
  BY EndIsQuiet
<1>2. \A k \in 0 .. MaxRoll : File(l, k)' = File(l, k)
  BY <1>1 DEF File, Contents
<1>3. ~RotatesLog(p, l)' /\ (RotatesLog(p, l) => crashes' # 0)
  BY <1>1 DEF RotatesLog, Rotates
<1>4. Attached(p, l)' /\ CountIsLow(p, l)'
  BY <1>1 DEF Attached, CountIsLow, Live
<1> QED
  BY <1>1, <1>2, <1>3, <1>4, QuietShape

LEMMA OwnStepKeepsShape ==
  ASSUME Usual, TypeInv', Detached, Pure, NEW p \in Procs, Step(p),
         p = Main => call[p] # "access",
         NEW l \in Logs, Alone(p, l), Shape(p, l)
  PROVE  Shape(p, l)'
<1>1. CASE l = RotLog(p)
  BY <1>1, CallKeepsShape, CloseStreamKeepsShape, ShiftKeepsShape,
     RenameCurrentKeepsShape, OpenNewKeepsShape, OpenFailsKeepsShape,
     WriteKeepsShape, EndKeepsShape DEF Step
<1>2. CASE l # RotLog(p)
  BY <1>2, OtherLogKeepsShape
<1> QED
  BY <1>1, <1>2

(* What a step of one process leaves as it is. *)
LEMMA WrittenGrows ==
  ASSUME OrderInv, OrderInv', Next, NEW p \in Procs, NEW l \in Logs
  PROVE  /\ written'[p][l] = 0 => written[p][l] = 0
         /\ crashes' = 0 => crashes = 0
<1>1. /\ written[p][l] \in Nat /\ crashes \in Nat
      /\ written \in [Procs -> [Logs -> Nat]]
  BY DEF OrderInv, TypeInv, TypeOK
<1>2. CASE LogInit \/ \E w \in Workers : Fork(w) \/ LogReopen(w)
  BY <1>2 DEF LogInit, Fork, LogReopen
<1>3. ASSUME NEW q \in Procs, Step(q)
      PROVE  /\ written'[p][l] = 0 => written[p][l] = 0
             /\ crashes' = 0 => crashes = 0
  <2>1. crashes' = crashes \/ crashes' = crashes + 1
    BY <1>3 DEF Step, Call, Drop, Undefined, CloseStream, Shift, RenameCurrent,
         OpenNew, OpenFails, Write, LogClose, Crash, bounds
  <2>2. CASE ~Write(q)
    <3>1. written' = written
      BY <1>3, <2>2 DEF Step, Call, Drop, Undefined, CloseStream, Shift,
           RenameCurrent, OpenNew, OpenFails, LogClose, Crash
    <3> QED
      BY <1>1, <2>1, <3>1
  <2>3. CASE Write(q)
    <3>1. PICK f \in Logs : written' = [written EXCEPT ![q][f] = @ + 1]
      BY <2>3, NamesAre DEF Write
    <3>2. written'[p][l] = written[p][l] \/ written'[p][l] = written[p][l] + 1
      BY <1>1, <1>3, <3>1
    <3> QED
      BY <1>1, <2>1, <3>2
  <2> QED
    BY <2>2, <2>3
<1> QED
  BY <1>2, <1>3 DEF Next

LEMMA OthersKeep ==
  ASSUME OrderInv, NEW q \in Procs, Step(q), NEW p \in Procs, p # q
  PROVE  /\ pc'[p] = pc[p] /\ turn'[p] = turn[p] /\ call'[p] = call[p]
         /\ written'[p] = written[p] /\ deploy' = deploy
         /\ \A l : Count(p, l)' = Count(p, l)
         /\ \/ Shift(q) \/ RenameCurrent(q)
            \/ /\ g_system_log'[p] = g_system_log[p]
               /\ g_access_log'[p] = g_access_log[p]
<1>1. TypeOK
  BY DEF OrderInv, TypeInv
<1>2. /\ pc'[p] = pc[p] /\ turn'[p] = turn[p] /\ call'[p] = call[p]
      /\ deploy' = deploy
  BY <1>1 DEF Step, Call, Drop, Undefined, CloseStream, Shift, RenameCurrent,
       OpenNew, OpenFails, Write, LogClose, Crash, bounds, Return, Forget, TypeOK
<1>3. written'[p] = written[p]
  <2>1. CASE Write(q)
    <3>1. PICK f : written' = [written EXCEPT ![q][f] = @ + 1]
      BY <2>1 DEF Write
    <3> QED
      BY <1>1, <3>1 DEF TypeOK
  <2>2. CASE ~Write(q)
    BY <2>2 DEF Step, Call, Drop, Undefined, CloseStream, Shift,
         RenameCurrent, OpenNew, OpenFails, LogClose, Crash
  <2> QED
    BY <2>1, <2>2
<1>4. /\ g_system_lines'[p] = g_system_lines[p]
      /\ g_access_lines'[p] = g_access_lines[p]
  BY <1>1 DEF Step, Call, Drop, Undefined, CloseStream, Shift, RenameCurrent,
       OpenNew, OpenFails, Write, LogClose, Crash, counts, ResetCount, Forget,
       TypeOK
<1>5. \/ Shift(q) \/ RenameCurrent(q)
      \/ /\ g_system_log'[p] = g_system_log[p]
         /\ g_access_log'[p] = g_access_log[p]
  BY <1>1 DEF Step, Call, Drop, Undefined, CloseStream, OpenNew, OpenFails,
       Write, LogClose, Crash, streams, TypeOK
<1> QED
  BY <1>2, <1>3, <1>4, <1>5 DEF Count

(* The shape of a log that p alone writes is not changed by another.       *)
LEMMA OtherStepKeepsShape ==
  ASSUME Usual, OrderInv', KeepInv, NEW q \in Procs, Step(q),
         NEW p \in Procs, p # q, NEW l \in Logs, Alone(p, l)', Shape(p, l)
  PROVE  Shape(p, l)'
<1>1. OrderInv /\ TypeInv /\ TypeOK
  BY DEF Usual, OrderInv, TypeInv
<1>2. /\ pc'[p] = pc[p] /\ turn'[p] = turn[p] /\ call'[p] = call[p]
      /\ written'[p] = written[p] /\ deploy' = deploy
      /\ Count(p, l)' = Count(p, l)
  BY <1>1, OthersKeep
<1>3. written'[q][l] = 0 /\ written[q][l] = 0 /\ (crashes' = 0 => crashes = 0)
  <2>1. written'[q][l] = 0
    BY DEF Alone
  <2> QED
    BY <1>1, <2>1, WrittenGrows DEF Next
<1>4. pc[q] # "off" => RotLog(q) = IF call[q] = "access" THEN "access" ELSE "system"
  BY TargetIs
<1>5. ~(Write(q) /\ RotLog(q) = l)
  <2>1. SUFFICES ASSUME Write(q), RotLog(q) = l PROVE FALSE
    OBVIOUS
  <2>2. written'[q][l] = written[q][l] + 1
    BY <1>1, <1>4, <2>1 DEF Write, TypeOK
  <2> QED
    BY <1>3, <2>2
<1>6. ~((Shift(q) \/ RenameCurrent(q)) /\ RotLog(q) = l)
  <2>1. SUFFICES ASSUME Shift(q) \/ RenameCurrent(q), RotLog(q) = l PROVE FALSE
    OBVIOUS
  <2>2. pc[q] \in {"shift", "rename"} /\ RotatesLog(q, l) /\ Live(q)
    BY <2>1 DEF Shift, RenameCurrent, RotatesLog, Rotates, Live
  <2>3. CASE q \in Workers
    BY <1>3, <2>2, <2>3 DEF KeepInv, Silent
  <2>4. CASE q = Main
    <3>1. l = "system"
      BY <1>4, <2>1, <2>2, <2>4 DEF KeepInv
    <3> QED
      BY <1>3, <2>2, <2>4, <3>1 DEF KeepInv, BeforeFirst
  <2> QED
    BY <2>3, <2>4 DEF Procs
<1>7. \A k \in 0 .. MaxRoll : File(l, k)' = File(l, k)
  BY <1>5, <1>6, FilesStay
<1>8. Live(p) => Target(p, l)' = Target(p, l)
  <2>1. CASE Shift(q) \/ RenameCurrent(q)
    <3>1. RotLog(q) # l
      BY <1>6, <2>1
    <3> QED
      BY <2>1, <3>1, TargetStays DEF Shape, Attached, Live
  <2>2. CASE ~(Shift(q) \/ RenameCurrent(q))
    <3>1. /\ g_system_log'[p] = g_system_log[p]
          /\ g_access_log'[p] = g_access_log[p]
      BY <1>1, <2>2, OthersKeep
    <3> QED
      BY <3>1 DEF Target
  <2> QED
    BY <2>1, <2>2
<1>9. RotatesLog(p, l)' <=> RotatesLog(p, l)
  BY <1>2 DEF RotatesLog, Rotates, RotLog, Own
<1> QED
  BY <1>2, <1>3, <1>7, <1>8, <1>9, SameShape

(* Opening the logs: the process that does it, and the others.             *)
Opens(p) ==
  \/ p = Main /\ LogInit
  \/ p \in Workers /\ (Fork(p) \/ LogReopen(p))

LEMMA OpeningIs ==
  ASSUME Usual, "access" \notin failed', NEW q \in Procs, Opens(q)
  PROVE  /\ pc[q] \in {"off", "forked"}
         /\ pc'[q] \in {"log", "idle", "forked"}
         /\ pc'[q] # "forked" =>
              /\ g_system_log'[q] \in {<<"system", 0>>, Null}
              /\ g_access_log'[q] = <<"access", 0>>
              /\ q \in Workers => g_access_lines'[q] = 0
              /\ g_system_log'[q] # Null =>
                   g_system_lines'[q] =
                     IF q = Main THEN Len(File("system", 0)) ELSE 0
         /\ pc'[q] = "log" <=> q = Main
         /\ q = Main => g_system_log'[q] # Null
         /\ call'[q] = IF q = Main THEN "system" ELSE call[q]
<1>1. TypeOK /\ deploy = "own"
  BY DEF Usual, OrderInv, TypeInv, Own
<1>2. CASE q = Main /\ LogInit
  <2>1. /\ pc[q] = "off" /\ pc'[q] = "log" /\ call'[q] = "system"
        /\ g_system_log'[q] = <<"system", 0>>
        /\ g_system_lines'[q] = Len(File("system", 0))
    BY <1>1, <1>2 DEF LogInit, File, TypeOK
  <2>2. g_access_log'[q] = <<"access", 0>>
    BY <1>1, <1>2 DEF LogInit, Own, MayFail, TypeOK
  <2>3. q \notin Workers /\ <<"system", 0>> # Null
    <3>1. <<"system", 0>> \in Names /\ Null \notin Names
      BY NamesAre
    <3> QED
      BY <1>2, <3>1, LogAssumption
  <2> QED
    BY <1>2, <2>1, <2>2, <2>3
<1>3. CASE q \in Workers /\ Fork(q)
  <2>1. pc[q] = "off" /\ pc'[q] = "forked" /\ call'[q] = call[q] /\ q # Main
    BY <1>1, <1>3, LogAssumption DEF Fork, TypeOK
  <2> QED
    BY <2>1
<1>4. CASE q \in Workers /\ LogReopen(q)
  <2>1. pc[q] = "forked" /\ pc'[q] = "idle" /\ call'[q] = call[q] /\ q # Main
    BY <1>1, <1>4, LogAssumption DEF LogReopen, TypeOK
  <2>2. g_access_log[q] # Null
    BY <2>1 DEF Usual, Sound, Pointers
  <2>3. PICK F \in SUBSET (Logs \ failed) :
          \E sys \in {Null, <<"system", 0>>} :
            /\ failed' = failed \cup F
            /\ g_system_log' = [g_system_log EXCEPT ![q] = sys]
            /\ g_access_log' = [g_access_log EXCEPT ![q] =
                 IF ~Own THEN sys
                 ELSE IF g_access_log[q] = Null \/ "access" \in F THEN Null
                 ELSE <<"access", 0>>]
            /\ g_system_lines' =
                 [g_system_lines EXCEPT ![q] = IF sys = Null THEN @ ELSE 0]
    BY <1>4 DEF LogReopen
  <2>4. /\ g_access_log'[q] = <<"access", 0>>
        /\ g_system_log'[q] \in {Null, <<"system", 0>>}
        /\ g_system_log'[q] # Null => g_system_lines'[q] = 0
    BY <1>1, <2>2, <2>3 DEF Own, TypeOK
  <2>5. g_access_lines'[q] = 0
    BY <1>1, <1>4, <2>4 DEF LogReopen, TypeOK
  <2> QED
    BY <2>1, <2>4, <2>5
<1> QED
  BY <1>2, <1>3, <1>4 DEF Opens

LEMMA OpeningLeaves ==
  ASSUME Usual, NEW q \in Procs, Opens(q)
  PROVE  /\ \A l \in Logs : \A k \in 0 .. MaxRoll : File(l, k)' = File(l, k)
         /\ written' = written /\ crashes' = crashes /\ turn' = turn
         /\ \A p \in Procs \ {q} :
              /\ pc'[p] = pc[p] /\ call'[p] = call[p] /\ deploy' = deploy
              /\ g_system_log'[p] = g_system_log[p]
              /\ g_access_log'[p] = g_access_log[p]
              /\ \A l : Count(p, l)' = Count(p, l)
<1>1. TypeInv /\ TypeOK
  BY DEF Usual, OrderInv, TypeInv
<1>2. dir' = dir \/ \E S : dir' = Opened(S)
  BY DEF Opens, LogInit, Fork, LogReopen
<1>3. \A l \in Logs : \A k \in 0 .. MaxRoll : File(l, k)' = File(l, k)
  BY <1>1, <1>2, OpenedKeeps, NamesAre DEF File
<1>4. written' = written /\ crashes' = crashes /\ turn' = turn
  BY DEF Opens, LogInit, Fork, LogReopen
<1>5. ASSUME NEW p \in Procs \ {q}
      PROVE  /\ pc'[p] = pc[p] /\ call'[p] = call[p] /\ deploy' = deploy
             /\ g_system_log'[p] = g_system_log[p]
             /\ g_access_log'[p] = g_access_log[p]
             /\ g_system_lines'[p] = g_system_lines[p]
             /\ g_access_lines'[p] = g_access_lines[p]
  <2>1. CASE q = Main /\ LogInit
    BY <1>1, <2>1 DEF LogInit, TypeOK
  <2>2. CASE Fork(q)
    BY <1>1, <2>2 DEF Fork, TypeOK
  <2>3. CASE LogReopen(q)
    BY <1>1, <2>3 DEF LogReopen, TypeOK
  <2> QED
    BY <2>1, <2>2, <2>3 DEF Opens
<1> QED
  BY <1>3, <1>4, <1>5 DEF Count

LEMMA OpeningKeepsShape ==
  ASSUME Usual, "access" \notin failed', NEW q \in Procs, Opens(q),
         NEW p \in Procs, NEW l \in Logs, Shape(p, l)
  PROVE  Shape(p, l)'
<1>1. \A k \in 0 .. MaxRoll : File(l, k)' = File(l, k)
  BY OpeningLeaves
<1>2. written' = written /\ crashes' = crashes /\ turn' = turn
  BY OpeningLeaves
<1>3. l = "access" \/ l = "system"
  BY DEF Logs
<1>4. CASE p = q
  <2>1. /\ ~RotatesLog(p, l) /\ ~RotatesLog(p, l)'
    BY <1>4, OpeningIs DEF RotatesLog, Rotates
  <2>2. Live(p)' =>
          /\ Target(p, l)' \in {<<l, 0>>, Null}
          /\ (Target(p, l)' = <<l, 0>> /\ (p = Main => l = "system")) =>
               Count(p, l)' = 0 \/ Count(p, l)' = Len(File(l, 0))
    <3>1. SUFFICES ASSUME Live(p)'
                   PROVE  /\ Target(p, l)' \in {<<l, 0>>, Null}
                          /\ (Target(p, l)' = <<l, 0>>
                                /\ (p = Main => l = "system")) =>
                               Count(p, l)' = 0
                                 \/ Count(p, l)' = Len(File(l, 0))
      OBVIOUS
    <3>2. /\ g_system_log'[p] \in {<<"system", 0>>, Null}
          /\ g_access_log'[p] = <<"access", 0>>
          /\ p \in Workers => g_access_lines'[p] = 0
          /\ g_system_log'[p] # Null =>
               g_system_lines'[p] =
                 IF p = Main THEN Len(File("system", 0)) ELSE 0
      BY <1>4, <3>1, OpeningIs DEF Live
    <3>3. \A k \in Logs : <<k, 0>> \in Names /\ <<k, 0>> # Null
      BY NamesAre
    <3>4. CASE l = "access"
      BY <3>2, <3>3, <3>4 DEF Target, Count, Procs
    <3>5. CASE l = "system"
      BY <3>2, <3>3, <3>5 DEF Target, Count
    <3> QED
      BY <1>3, <3>4, <3>5
  <2>3. File(l, 0)' = File(l, 0) /\ Len(File(l, 0)) \in Nat
    BY <1>1, FilesAre, NamesAre DEF Usual, OrderInv
  <2>4. Attached(p, l)' /\ CountIsLow(p, l)'
    BY <2>2, <2>3 DEF Attached, CountIsLow
  <2> QED
    BY <1>1, <1>2, <2>1, <2>4, QuietShape
<1>5. CASE p # q
  <2>1. /\ pc'[p] = pc[p] /\ call'[p] = call[p] /\ deploy' = deploy
        /\ g_system_log'[p] = g_system_log[p]
        /\ g_access_log'[p] = g_access_log[p]
        /\ Count(p, l)' = Count(p, l)
    BY <1>5, OpeningLeaves
  <2>2. RotatesLog(p, l)' <=> RotatesLog(p, l)
    BY <2>1 DEF RotatesLog, Rotates, RotLog, Own
  <2>3. Target(p, l)' = Target(p, l)
    BY <2>1 DEF Target
  <2> QED
    BY <1>1, <1>2, <2>1, <2>2, <2>3, SameShape
<1> QED
  BY <1>4, <1>5

LEMMA MainWritesSystem ==
  ASSUME OrderInv, Next, call[Main] # "access"
  PROVE  call'[Main] # "access"
<1>1. TypeOK /\ Main \in Procs /\ Main \notin Workers
  BY NamesAre, LogAssumption DEF OrderInv, TypeInv
<1>2. CASE LogInit \/ \E w \in Workers : Fork(w) \/ LogReopen(w)
  BY <1>1, <1>2 DEF LogInit, Fork, LogReopen, TypeOK
<1>3. ASSUME NEW p \in Procs, Step(p), p # Main PROVE call'[Main] # "access"
  BY <1>1, <1>3, OthersKeep
<1>4. CASE Step(Main)
  BY <1>1, <1>4 DEF Step, Call, Drop, Undefined, CloseStream, Shift,
       RenameCurrent, OpenNew, OpenFails, Write, LogClose, Crash, Return,
       Forget, TypeOK
<1> QED
  BY <1>2, <1>3, <1>4 DEF Next

LEMMA PureStep ==
  ASSUME Usual, Pure, Next, "access" \notin failed'
  PROVE  Pure'
<1>1. TypeInv /\ TypeOK
  BY DEF Usual, OrderInv, TypeInv
<1>2. ASSUME NEW q \in Procs, Opens(q) PROVE Pure'
  BY <1>2, OpeningLeaves DEF Pure
<1>3. ASSUME NEW p \in Procs, Step(p), ~(Shift(p) \/ RenameCurrent(p) \/ Write(p))
      PROVE  Pure'
  BY <1>3, FilesStay DEF Pure
<1>4. ASSUME NEW p \in Procs, Shift(p) \/ RenameCurrent(p) PROVE Pure'
  <2>1. PICK l \in Logs : l = RotLog(p)
    BY <1>1, <1>4, RotationMoves
  <2>2. ASSUME NEW k \in 0 .. MaxRoll
        PROVE  \/ File(l, k)' = <<>>
               \/ \E j \in 0 .. MaxRoll : File(l, k)' = File(l, j)
    <3>1. DOMAIN dir = Names /\ \A j \in 0 .. MaxRoll : <<l, j>> \in Names
      BY <1>1, <2>1, NamesAre DEF TypeOK
    <3>2. dir'[<<l, k>>] = Absent
            \/ \E j \in 0 .. MaxRoll : dir'[<<l, k>>] = dir[<<l, j>>]
      <4>1. CASE Unlink(<<l, MaxRoll>>)
        BY <3>1, <4>1 DEF Unlink
      <4>2. ASSUME NEW i \in 0 .. MaxRoll - 1, Rename(<<l, i>>, <<l, i + 1>>)
            PROVE  dir'[<<l, k>>] = Absent
                     \/ \E j \in 0 .. MaxRoll : dir'[<<l, k>>] = dir[<<l, j>>]
        <5>1. i \in 0 .. MaxRoll
          BY NamesAre
        <5> DEFINE a == <<l, i>>
                   b == <<l, i + 1>>
        <5>2. dir' = dir \/ dir' = [dir EXCEPT ![b] = dir[a], ![a] = Absent]
          BY <4>2 DEF Rename
        <5> HIDE DEF a, b
        <5>3. \/ dir'[<<l, k>>] = Absent \/ dir'[<<l, k>>] = dir[<<l, k>>]
              \/ dir'[<<l, k>>] = dir[a]
          BY <3>1, <5>2
        <5> USE DEF a
        <5> QED
          BY <5>1, <5>3
      <4> QED
        BY <1>1, <1>4, <2>1, <4>1, <4>2, RotationMoves
    <3> QED
      BY <3>2 DEF File, Contents
  <2>3. ASSUME NEW f \in Logs, f # l, NEW k \in 0 .. MaxRoll
        PROVE  File(f, k)' = File(f, k)
    BY <1>4, <2>1, <2>3, FilesStay DEF Step
  <2> SUFFICES ASSUME NEW f \in Logs, NEW k \in 0 .. MaxRoll,
                      NEW i \in DOMAIN File(f, k)'
               PROVE  File(f, k)'[i][2] = f /\ File(f, k)'[i][3] >= 1
    BY DEF Pure
  <2>4. CASE f # l
    BY <2>3, <2>4 DEF Pure
  <2>5. CASE f = l
    BY <2>2, <2>5 DEF Pure
  <2> QED
    BY <2>4, <2>5
<1>5. ASSUME NEW p \in Procs, Write(p) PROVE Pure'
  <2>1. pc[p] # "off" /\ IsOpen(Stream(p))
    BY <1>5 DEF Write
  <2>2. PICK l \in Logs : l = RotLog(p)
    BY <2>1, TargetIs
  <2>3. PICK t : t = Stream(p)
    OBVIOUS
  <2>4. PICK n \in Nat : n = written[p][l] + 1
    BY <1>1 DEF TypeOK
  <2>5. n >= 1
    <3>1. written[p][l] \in Nat
      BY <1>1 DEF TypeOK
    <3> QED
      BY <2>4, <3>1
  <2>6. /\ t \in Names \cup {Unlinked}
        /\ t \in Names => \E k \in 0 .. MaxRoll : t = <<l, k>>
    <3>1. t \in Names \cup {Unlinked}
      BY <2>1, <2>3, TargetIs DEF IsOpen
    <3>2. ASSUME t \in Names PROVE \E k \in 0 .. MaxRoll : t = <<l, k>>
      <4>1. t[1] \in Logs /\ t[2] \in 0 .. MaxRoll /\ t = <<t[1], t[2]>>
        BY <3>2, NamesAre
      <4>2. t[1] = l
        BY <2>1, <2>2, <2>3, <4>1, TargetIs
      <4> QED
        BY <4>1, <4>2
    <3> QED
      BY <3>1, <3>2
  <2>7. l = IF call[p] = "access" THEN "access" ELSE "system"
    BY <2>1, <2>2, TargetIs
  <2>8. \/ dir' = dir
        \/ \E k \in 0 .. MaxRoll :
             /\ t = <<l, k>>
             /\ dir' = [dir EXCEPT ![t] = Append(@, <<p, l, n>>)]
    BY <1>5, <2>3, <2>4, <2>6, <2>7 DEF Write, Appended
  <2>9. CASE dir' = dir
    BY <2>9 DEF Pure, File, Contents
  <2>10. ASSUME NEW m \in 0 .. MaxRoll, t = <<l, m>>,
                dir' = [dir EXCEPT ![t] = Append(@, <<p, l, n>>)]
         PROVE  Pure'
    <3>1. t \in Names /\ t # Unlinked /\ DOMAIN dir = Names
      BY <1>1, <2>10, NamesAre DEF TypeOK
    <3>2. dir[t] # Absent
      BY <2>3, <3>1 DEF Stream, Present, Usual, OrderInv
    <3>3. \A f \in Logs : \A k \in 0 .. MaxRoll :
            f # l \/ k # m => File(f, k)' = File(f, k)
      <4>1. ASSUME NEW f \in Logs, NEW k \in 0 .. MaxRoll, f # l \/ k # m
            PROVE  dir'[<<f, k>>] = dir[<<f, k>>]
        <5>1. <<f, k>> \in Names /\ <<f, k>> # t
          BY <2>10, <4>1, NamesAre
        <5> QED
          BY <2>10, <3>1, <5>1
      <4> QED
        BY <4>1 DEF File, Contents
    <3>4. File(l, m)' = Append(File(l, m), <<p, l, n>>)
      <4>1. dir[t] \in Seq(Lines) /\ <<p, l, n>> \in Lines
        BY <1>1, <3>1, <3>2 DEF TypeOK, Lines
      <4>2. dir'[t] = Append(dir[t], <<p, l, n>>)
        BY <2>10, <3>1
      <4>3. dir'[t] # Absent
        <5>1. PICK line : line = <<p, l, n>>
          OBVIOUS
        <5>2. dir[t] \in Seq(Lines) /\ line \in Lines
          BY <4>1, <5>1
        <5>3. Append(dir[t], line) \in Seq(Lines)
          BY <5>2
        <5> QED
          BY <4>2, <5>1, <5>3, NamesAre
      <4>4. File(l, m) = dir[t] /\ File(l, m)' = dir'[t]
        BY <2>10, <3>2, <4>3 DEF File, Contents
      <4> QED
        BY <4>2, <4>4
    <3>5. /\ File(l, m) \in Seq(Lines) /\ Len(File(l, m)) \in Nat
          /\ DOMAIN File(l, m) = 1 .. Len(File(l, m))
      BY <1>1, FilesAre
    <3> SUFFICES ASSUME NEW f \in Logs, NEW k \in 0 .. MaxRoll,
                        NEW i \in DOMAIN File(f, k)'
                 PROVE  File(f, k)'[i][2] = f /\ File(f, k)'[i][3] >= 1
      BY DEF Pure
    <3>6. CASE f # l \/ k # m
      BY <3>3, <3>6 DEF Pure
    <3>7. CASE f = l /\ k = m
      <4>1. \/ i \in DOMAIN File(l, m) /\ File(l, m)'[i] = File(l, m)[i]
            \/ File(l, m)'[i] = <<p, l, n>>
        BY <3>4, <3>5, <3>7
      <4> QED
        BY <2>5, <3>7, <4>1 DEF Pure
    <3> QED
      BY <3>6, <3>7
  <2> QED
    BY <2>8, <2>9, <2>10
<1> QED
  BY <1>2, <1>3, <1>4, <1>5, NamesAre DEF Next, Opens

LEMMA DetachedStep ==
  ASSUME Usual, "access" \notin failed', Detached, Next
  PROVE  Detached'
<1>1. OrderInv /\ TypeOK
  BY DEF Usual, OrderInv, TypeInv
<1>2. SUFFICES ASSUME NEW p \in Procs, Rotates(p)'
               PROVE  IF call'[p] = "access" THEN g_access_log'[p] = Closed
                      ELSE g_system_log'[p] = Null
  BY DEF Detached
<1>3. ASSUME NEW q \in Procs, Opens(q)
      PROVE  IF call'[p] = "access" THEN g_access_log'[p] = Closed
             ELSE g_system_log'[p] = Null
  <2>1. p # q
    BY <1>2, <1>3, OpeningIs DEF Rotates
  <2>2. /\ pc'[p] = pc[p] /\ call'[p] = call[p]
        /\ g_system_log'[p] = g_system_log[p]
        /\ g_access_log'[p] = g_access_log[p]
    BY <1>3, <2>1, OpeningLeaves
  <2> QED
    BY <1>2, <2>2 DEF Detached, Rotates
<1>4. ASSUME NEW q \in Procs, Shift(q) \/ RenameCurrent(q)
      PROVE  IF call'[p] = "access" THEN g_access_log'[p] = Closed
             ELSE g_system_log'[p] = Null
  <2>1. call' = call /\ Rotates(p)
    <3>1. call' = call /\ (p = q \/ pc'[p] = pc[p])
      BY <1>1, <1>4 DEF Shift, RenameCurrent, TypeOK
    <3>2. pc[q] \in {"shift", "rename"}
      BY <1>4 DEF Shift, RenameCurrent
    <3> QED
      BY <1>2, <3>1, <3>2 DEF Rotates
  <2>2. \A k \in 0 .. MaxRoll :
          <<RotLog(q), k>> # Null /\ <<RotLog(q), k>> # Closed
    BY NamesAre DEF RotLog
  <2>3. /\ g_system_log[p] = Null => g_system_log'[p] = Null
        /\ g_access_log[p] = Closed => g_access_log'[p] = Closed
    BY <1>4, <2>2, RotationLeaves
  <2> QED
    BY <2>1, <2>3 DEF Detached
<1>5. ASSUME NEW q \in Procs, Step(q), ~(Shift(q) \/ RenameCurrent(q)), q # p
      PROVE  IF call'[p] = "access" THEN g_access_log'[p] = Closed
             ELSE g_system_log'[p] = Null
  <2>1. /\ pc'[p] = pc[p] /\ call'[p] = call[p]
        /\ g_system_log'[p] = g_system_log[p]
        /\ g_access_log'[p] = g_access_log[p]
    BY <1>1, <1>5, OthersKeep
  <2> QED
    BY <1>2, <2>1 DEF Detached, Rotates
<1>6. ASSUME Step(p), ~(Shift(p) \/ RenameCurrent(p))
      PROVE  IF call'[p] = "access" THEN g_access_log'[p] = Closed
             ELSE g_system_log'[p] = Null
  <2>1. CloseStream(p)
    BY <1>1, <1>2, <1>6 DEF Rotates, Step, Call, Drop, Undefined, OpenNew,
         OpenFails, Write, LogClose, Crash, Return, TypeOK
  <2>2. g_access_log[p] # Null
    BY <2>1 DEF CloseStream, Usual, Sound, Pointers
  <2> QED
    BY <1>1, <2>1, <2>2 DEF CloseStream, TypeOK
<1> QED
  BY <1>3, <1>4, <1>5, <1>6, NamesAre DEF Next, Opens

(* Before the first line of the main process. *)
LEMMA BeforeFirstStep ==
  ASSUME Usual, OrderInv', BeforeFirst, Next, "access" \notin failed'
  PROVE  BeforeFirst'
<1>1. OrderInv /\ TypeOK /\ Main \in Procs /\ Main \notin Workers
  BY NamesAre, LogAssumption DEF Usual, OrderInv, TypeInv
<1>2. SUFFICES ASSUME written'[Main]["system"] = 0
               PROVE  /\ \A w \in Workers : pc'[w] = "off"
                      /\ \/ pc'[Main] = "off"
                         \/ /\ pc'[Main] = "log" /\ call'[Main] = "system"
                            /\ g_system_log'[Main] # Null
                            /\ g_system_lines'[Main] = 0
                      /\ \A k \in 0 .. MaxRoll : File("system", k)' = <<>>
  BY DEF BeforeFirst
<1>3. /\ \A w \in Workers : pc[w] = "off"
      /\ \/ pc[Main] = "off"
         \/ /\ pc[Main] = "log" /\ call[Main] = "system"
            /\ g_system_log[Main] # Null /\ g_system_lines[Main] = 0
      /\ \A k \in 0 .. MaxRoll : File("system", k) = <<>>
  <2>1. written[Main]["system"] = 0
    BY <1>1, <1>2, WrittenGrows, NamesAre
  <2> QED
    BY <2>1 DEF BeforeFirst
<1>4. PICK q \in Procs : Opens(q) \/ Step(q)
  BY <1>1, NamesAre DEF Next, Opens
<1>5. q = Main
  <2>1. pc[Main] # "idle" /\ \A w \in Workers : pc[w] # "forked"
    BY <1>3
  <2>2. ~Step(q) \/ pc[q] # "off"
    BY DEF Step, Call, Drop, Undefined, CloseStream, Shift,
           RenameCurrent, OpenNew, OpenFails, Write, LogClose, Crash
  <2> QED
    BY <1>3, <1>4, <2>1, <2>2 DEF Opens, Fork, LogReopen, Procs
<1>6. ASSUME NEW w \in Workers PROVE pc'[w] = "off"
  <2>1. w \in Procs /\ w # Main
    BY <1>1, NamesAre
  <2>2. pc'[w] = pc[w]
    BY <1>1, <1>4, <1>5, <2>1, OpeningLeaves, OthersKeep
  <2> QED
    BY <1>3, <2>2
<1>7. CASE Opens(Main)
  <2>1. \A k \in 0 .. MaxRoll : File("system", k)' = File("system", k)
    BY <1>1, <1>7, OpeningLeaves, NamesAre
  <2>2. LogInit
    BY <1>1, <1>7 DEF Opens
  <2>3. /\ pc'[Main] = "log" /\ call'[Main] = "system"
        /\ g_system_log'[Main] # Null
        /\ g_system_lines'[Main] = Len(File("system", 0))
    <3>1. pc'[Main] = "log"
      BY <1>1, <2>2 DEF LogInit, TypeOK
    <3>2. call'[Main] = "system" /\ g_system_log'[Main] # Null
      BY <1>1, <1>7, OpeningIs
    <3> QED
      BY <1>1, <1>7, <3>1, <3>2, OpeningIs
  <2>4. Len(File("system", 0)) = 0
    <3>1. File("system", 0) = <<>>
      BY <1>3, NamesAre
    <3> QED
      BY <3>1
  <2> QED
    BY <1>3, <1>6, <2>1, <2>3, <2>4
<1>8. CASE Step(Main)
  <2>1. /\ pc[Main] = "log" /\ call[Main] = "system"
        /\ g_system_log[Main] # Null /\ g_system_lines[Main] = 0
    BY <1>3, <1>8 DEF Step, Call, Drop, Undefined, CloseStream, Shift,
         RenameCurrent, OpenNew, OpenFails, Write, LogClose, Crash
  <2>2. Stream(Main) = g_system_log[Main] /\ LinesOf(Main) = 0
    BY <2>1 DEF Stream, LinesOf
  <2>3. g_system_log[Main] # Closed /\ ~MustRotate(Main)
    <3>1. g_system_log[Main] # Closed
      BY <1>1, NameFacts DEF Usual, Sound, Types
    <3> QED
      BY <2>2, <3>1, LogAssumption DEF MustRotate
  <2>4. ~Write(Main)
    <3>1. SUFFICES ASSUME Write(Main) PROVE FALSE
      OBVIOUS
    <3>2. written'[Main]["system"] = written[Main]["system"] + 1
      BY <1>1, <2>1, <3>1, NamesAre DEF Write, TypeOK
    <3>3. written[Main]["system"] = 0
      BY <1>1, <1>2, WrittenGrows, NamesAre
    <3> QED
      BY <1>2, <3>2, <3>3
  <2>5. Crash(Main)
    BY <1>8, <2>1, <2>2, <2>3, <2>4 DEF Step, Call, Drop, Undefined,
         CloseStream, Shift, RenameCurrent, OpenNew, OpenFails, LogClose
  <2>6. pc'[Main] = "off" /\ dir' = dir
    BY <1>1, <2>5, EndIsQuiet
  <2> QED
    BY <1>3, <1>6, <2>6 DEF File, Contents
<1> QED
  BY <1>4, <1>5, <1>7, <1>8

(* A worker that has written nothing to a log. *)
LEMMA SilentStep ==
  ASSUME Usual, OrderInv', "access" \notin failed', Next,
         NEW p \in Workers, NEW l \in Logs, Silent(p, l)
  PROVE  Silent(p, l)'
<1>1. /\ OrderInv /\ TypeOK /\ p \in Procs /\ p # Main
      /\ l = "access" \/ l = "system"
  BY NamesAre, LogAssumption DEF Usual, OrderInv, TypeInv, Logs
<1>2. SUFFICES ASSUME Live(p)', written'[p][l] = 0
               PROVE  /\ ~RotatesLog(p, l)'
                      /\ Target(p, l)' = Null \/ Count(p, l)' = 0
  BY DEF Silent
<1>3. /\ written[p][l] = 0
      /\ Live(p) => /\ ~RotatesLog(p, l)
                    /\ Target(p, l) = Null \/ Count(p, l) = 0
  <2>1. written[p][l] = 0
    BY <1>1, <1>2, WrittenGrows
  <2> QED
    BY <2>1 DEF Silent
<1>4. ASSUME NEW q \in Procs, Shift(q) \/ RenameCurrent(q),
             Target(p, l) = Null
      PROVE  Target(p, l)' = Null
  <2>1. \A k \in 0 .. MaxRoll : <<RotLog(q), k>> # Null
    BY NamesAre DEF RotLog
  <2>2. /\ g_system_log[p] = Null => g_system_log'[p] = Null
        /\ g_access_log'[p] = Null <=> g_access_log[p] = Null
    BY <1>1, <1>4, <2>1, RotationLeaves
  <2> QED
    BY <1>4, <2>2 DEF Target
<1>5. ASSUME NEW q \in Procs, Opens(q)
      PROVE  /\ ~RotatesLog(p, l)'
             /\ Target(p, l)' = Null \/ Count(p, l)' = 0
  <2>1. CASE q = p
    <3>1. pc'[p] = "idle"
      BY <1>1, <1>2, <1>5, <2>1, OpeningIs DEF Live
    <3>2. /\ g_access_log'[p] = <<"access", 0>>
          /\ g_access_lines'[p] = 0
          /\ g_system_log'[p] # Null => g_system_lines'[p] = 0
      BY <1>1, <1>5, <2>1, <3>1, OpeningIs
    <3>3. ~RotatesLog(p, l)'
      BY <3>1 DEF RotatesLog, Rotates
    <3> QED
      BY <1>1, <3>2, <3>3 DEF Target, Count
  <2>2. CASE q # p
    <3>1. /\ pc'[p] = pc[p] /\ call'[p] = call[p] /\ deploy' = deploy
          /\ g_system_log'[p] = g_system_log[p]
          /\ g_access_log'[p] = g_access_log[p]
          /\ Count(p, l)' = Count(p, l)
      BY <1>1, <1>5, <2>2, OpeningLeaves
    <3>2. Live(p) /\ Target(p, l)' = Target(p, l)
      BY <1>2, <3>1 DEF Live, Target
    <3>3. RotatesLog(p, l)' <=> RotatesLog(p, l)
      BY <3>1 DEF RotatesLog, Rotates, RotLog, Own
    <3> QED
      BY <1>3, <3>1, <3>2, <3>3
  <2> QED
    BY <2>1, <2>2
<1>6. ASSUME NEW q \in Procs, q # p, Step(q)
      PROVE  /\ ~RotatesLog(p, l)'
             /\ Target(p, l)' = Null \/ Count(p, l)' = 0
  <2>1. /\ pc'[p] = pc[p] /\ call'[p] = call[p] /\ deploy' = deploy
        /\ Count(p, l)' = Count(p, l)
    BY <1>1, <1>6, OthersKeep
  <2>2. Live(p) /\ (RotatesLog(p, l)' <=> RotatesLog(p, l))
    BY <1>2, <2>1 DEF Live, RotatesLog, Rotates, RotLog, Own
  <2>3. Target(p, l) = Null => Target(p, l)' = Null
    <3>1. CASE Shift(q) \/ RenameCurrent(q)
      BY <1>4, <3>1
    <3>2. CASE ~(Shift(q) \/ RenameCurrent(q))
      <4>1. /\ g_system_log'[p] = g_system_log[p]
            /\ g_access_log'[p] = g_access_log[p]
        BY <1>1, <1>6, <3>2, OthersKeep
      <4> QED
        BY <4>1 DEF Target
    <3> QED
      BY <3>1, <3>2
  <2> QED
    BY <1>3, <2>1, <2>2, <2>3
<1>7. ASSUME Step(p)
      PROVE  /\ ~RotatesLog(p, l)'
             /\ Target(p, l)' = Null \/ Count(p, l)' = 0
  <2>1. Live(p) /\ pc[p] # "off"
    <3>1. pc[p] # "off"
      BY <1>7 DEF Step, Call, Drop, Undefined, CloseStream, Shift,
         RenameCurrent, OpenNew, OpenFails, Write, LogClose, Crash
    <3>2. CASE pc[p] = "forked"
      <4>1. Crash(p)
        BY <1>7, <3>2 DEF Step, Call, Drop, Undefined, CloseStream, Shift,
           RenameCurrent, OpenNew, OpenFails, Write, LogClose
      <4> QED
        BY <1>1, <1>2, <4>1, EndIsQuiet DEF Live
    <3> QED
      BY <3>1, <3>2 DEF Live
  <2>2. ~RotatesLog(p, l) /\ (Target(p, l) = Null \/ Count(p, l) = 0)
    BY <1>3, <2>1
  <2>3. CASE \/ \E c \in {"system", "access", "close"} : Call(p, c)
             \/ Drop(p) \/ Undefined(p)
    <3>1. /\ UNCHANGED <<g_system_log, g_access_log, g_system_lines,
                         g_access_lines>>
          /\ pc'[p] \in {"log", "idle", "closing", "undefined"}
      BY <1>1, <2>3
         DEF Call, Drop, Undefined, Return, streams, counts, TypeOK
    <3> QED
      BY <2>2, <3>1 DEF RotatesLog, Rotates, Target, Count
  <2>4. CASE LogClose(p) \/ Crash(p)
    BY <1>1, <1>2, <2>4, EndIsQuiet DEF Live
  <2>5. CASE OpenNew(p) \/ OpenFails(p) \/ Write(p)
    <3>1. ~RotatesLog(p, l)'
      <4>1. pc'[p] \in {"write", "idle", "closing"}
        BY <1>1, <2>5 DEF OpenNew, OpenFails, Write, Return, TypeOK
      <4> QED
        BY <4>1 DEF RotatesLog, Rotates
    <3>2. RotLog(p) # l
      <4>1. CASE OpenNew(p) \/ OpenFails(p)
        BY <2>2, <4>1 DEF OpenNew, OpenFails, RotatesLog, Rotates
      <4>2. CASE Write(p)
        <5>1. RotLog(p) = IF call[p] = "access" THEN "access" ELSE "system"
          BY <1>1, <2>1, TargetIs
        <5>2. SUFFICES ASSUME RotLog(p) = l PROVE FALSE
          OBVIOUS
        <5>3. written'[p][l] = written[p][l] + 1
          BY <1>1, <4>2, <5>1, <5>2 DEF Write, TypeOK
        <5> QED
          BY <1>2, <1>3, <5>3
      <4> QED
        BY <2>5, <4>1, <4>2
    <3>3. ~(Shift(p) \/ RenameCurrent(p))
      <4>1. pc[p] \notin {"shift", "rename"}
        BY <2>5 DEF OpenNew, OpenFails, Write
      <4> QED
        BY <4>1 DEF Shift, RenameCurrent
    <3>4. Target(p, l)' = Target(p, l) /\ Count(p, l)' = Count(p, l)
      BY <1>1, <1>2, <1>7, <3>2, <3>3, OtherLog
    <3> QED
      BY <2>2, <3>1, <3>4
  <2>6. CASE Shift(p) \/ RenameCurrent(p)
    <3>1. /\ Rotates(p) /\ call' = call /\ deploy' = deploy
          /\ UNCHANGED <<g_system_lines, g_access_lines>>
      BY <2>6 DEF Shift, RenameCurrent, Rotates, counts, bounds
    <3>2. ~RotatesLog(p, l)'
      BY <2>2, <3>1 DEF RotatesLog, RotLog, Own
    <3>3. Target(p, l) = Null => Target(p, l)' = Null
      BY <1>1, <1>4, <2>6
    <3> QED
      BY <2>2, <3>1, <3>2, <3>3 DEF Count
  <2>7. CASE CloseStream(p)
    <3>1. /\ IsOpen(Stream(p)) /\ MustRotate(p) /\ call' = call
          /\ deploy' = deploy
      BY <2>7 DEF CloseStream, bounds
    <3>2. RotLog(p) # l
      <4>1. SUFFICES ASSUME RotLog(p) = l PROVE FALSE
        OBVIOUS
      <4>2. /\ Stream(p) = Target(p, l)
            /\ l = IF call[p] = "access" THEN "access" ELSE "system"
        BY <1>1, <2>1, <4>1, TargetIs
      <4>3. LinesOf(p) = Count(p, l) /\ Count(p, l) = 0
        BY <2>2, <3>1, <4>2 DEF LinesOf, Count, IsOpen
      <4> QED
        BY <3>1, <4>3, LogAssumption DEF MustRotate
    <3>3. ~(Shift(p) \/ RenameCurrent(p))
      BY <2>7 DEF CloseStream, Shift, RenameCurrent
    <3>4. Target(p, l)' = Target(p, l) /\ Count(p, l)' = Count(p, l)
      BY <1>1, <1>2, <1>7, <3>2, <3>3, OtherLog
    <3>5. ~RotatesLog(p, l)'
      BY <3>1, <3>2 DEF RotatesLog, RotLog, Own
    <3> QED
      BY <2>2, <3>4, <3>5
  <2> QED
    BY <1>7, <2>3, <2>4, <2>5, <2>6, <2>7 DEF Step
<1> QED
  BY <1>1, <1>5, <1>6, <1>7, NamesAre DEF Next, Opens

LEMMA RecentInit == Init => RecentInv
<1> SUFFICES ASSUME Init PROVE RecentInv
  OBVIOUS
<1>1. OrderInv /\ IInv
  BY OrderInit, InitOK
<1>2. /\ pc = [p \in Procs |-> "off"] /\ call = [p \in Procs |-> "system"]
      /\ written = [p \in Procs |-> [l \in Logs |-> 0]]
      /\ dir = [n \in Names |-> Absent]
      /\ Main \in Procs /\ Workers \subseteq Procs
  BY NamesAre DEF Init
<1>3. \A l \in Logs : \A k \in 0 .. MaxRoll : File(l, k) = <<>>
  BY <1>2, NamesAre DEF File, Contents
<1>4. Pure /\ Detached /\ call[Main] # "access"
  BY <1>2, <1>3 DEF Pure, Detached, Rotates
<1>5. BeforeFirst
  BY <1>2, <1>3, NamesAre DEF BeforeFirst
<1>6. \A p \in Workers, l \in Logs : Silent(p, l)
  BY <1>2 DEF Silent, Live
<1>7. ASSUME NEW p \in Procs, NEW l \in Logs PROVE Shape(p, l)
  <2>1. ~Live(p) /\ ~RotatesLog(p, l)
    BY <1>2 DEF Live, RotatesLog, Rotates
  <2>2. \A k : k \notin 1 .. written[p][l]
    BY <1>2
  <2>3. Attached(p, l) /\ NoGap(p, l) /\ Vacated(p, l) /\ CountIsLow(p, l)
    BY <2>1, <2>2 DEF Attached, NoGap, Vacated, CountIsLow
  <2>4. Recent(p, l) /\ Spread(p, l)
    BY <1>3, <2>2, NamesAre DEF Recent, Spread
  <2> QED
    BY <2>3, <2>4 DEF Shape
<1> QED
  BY <1>1, <1>4, <1>5, <1>6, <1>7 DEF RecentInv, KeepInv

LEMMA RecentStep == RecentInv /\ [Next]_vars => RecentInv'
<1> SUFFICES ASSUME RecentInv, [Next]_vars PROVE RecentInv'
  OBVIOUS
<1>1. OrderInv' /\ IInv'
  BY OrderStep, StepOK DEF RecentInv
<1>2. SUFFICES ASSUME Own', "access" \notin failed' PROVE KeepInv'
  BY <1>1 DEF RecentInv
<1>3. Own /\ "access" \notin failed
  BY <1>2, FailuresStay DEF Own
<1>4. Usual /\ KeepInv
  BY <1>3 DEF RecentInv, IInv, Own, Usual
<1>5. CASE Next
  <2>1. call'[Main] # "access" /\ Pure' /\ Detached' /\ BeforeFirst'
    BY <1>1, <1>2, <1>4, <1>5, MainWritesSystem, PureStep, DetachedStep,
       BeforeFirstStep DEF KeepInv, Usual
  <2>2. ASSUME NEW p \in Workers, NEW l \in Logs PROVE Silent(p, l)'
    BY <1>1, <1>2, <1>4, <1>5, SilentStep DEF KeepInv
  <2>3. ASSUME NEW p \in Procs, NEW l \in Logs, Alone(p, l)'
        PROVE  Shape(p, l)'
    <3>1. Alone(p, l)
      <4>1. \A q \in Procs : written'[q][l] = 0 => written[q][l] = 0
        BY <1>1, <1>4, <1>5, WrittenGrows DEF Usual
      <4> QED
        BY <2>3, <4>1 DEF Alone
    <3>2. Shape(p, l)
      BY <1>4, <3>1 DEF KeepInv
    <3>3. ASSUME NEW q \in Procs, Opens(q) PROVE Shape(p, l)'
      BY <1>2, <1>4, <3>2, <3>3, OpeningKeepsShape
    <3>4. CASE Step(p)
      <4>1. TypeInv'
        BY <1>1 DEF OrderInv
      <4>2. Detached /\ Pure /\ (p = Main => call[p] # "access")
        BY <1>4 DEF KeepInv
      <4> QED
        BY <1>4, <3>1, <3>2, <3>4, <4>1, <4>2, OwnStepKeepsShape
    <3>5. ASSUME NEW q \in Procs, q # p, Step(q) PROVE Shape(p, l)'
      BY <1>1, <1>4, <2>3, <3>2, <3>5, OtherStepKeepsShape
    <3> QED
      BY <1>5, <3>3, <3>4, <3>5, NamesAre DEF Next, Opens
  <2> QED
    BY <2>1, <2>2, <2>3 DEF KeepInv
<1>6. CASE UNCHANGED vars
  <2>1. UNCHANGED <<deploy, dir, g_system_log, g_access_log, g_system_lines,
                    g_access_lines, pc, call, turn, written, crashes>>
    BY <1>6 DEF vars, streams, counts
  <2>2. /\ \A l, k : File(l, k)' = File(l, k)
        /\ \A p, l : Count(p, l)' = Count(p, l)
        /\ \A p, l : Target(p, l)' = Target(p, l)
        /\ \A p : RotLog(p)' = RotLog(p)
        /\ \A p, l, k : IsKept(p, l, k)' <=> IsKept(p, l, k)
    BY <2>1 DEF File, Contents, Count, Target, RotLog, Own, IsKept
  <2>3. /\ \A p : Live(p)' <=> Live(p)
        /\ \A p : Rotates(p)' <=> Rotates(p)
    BY <2>1 DEF Live, Rotates
  <2>4. \A p, l : RotatesLog(p, l)' <=> RotatesLog(p, l)
    BY <2>2, <2>3 DEF RotatesLog
  <2>5. Pure' /\ Detached' /\ BeforeFirst' /\ call'[Main] # "access"
    BY <1>4, <2>1, <2>2, <2>3 DEF KeepInv, Pure, Detached, BeforeFirst
  <2>6. ASSUME NEW p \in Workers, NEW l \in Logs PROVE Silent(p, l)'
    BY <1>4, <2>1, <2>2, <2>3, <2>4 DEF KeepInv, Silent
  <2>7. ASSUME NEW p \in Procs, NEW l \in Logs, Alone(p, l)'
        PROVE  Shape(p, l)'
    <3>1. Shape(p, l)
      BY <1>4, <2>1, <2>7 DEF KeepInv, Alone
    <3> QED
      BY <2>1, <2>2, <2>3, <2>4, <3>1, SameShape
  <2> QED
    BY <2>5, <2>6, <2>7 DEF KeepInv
<1> QED
  BY <1>5, <1>6

(* With an access log of its own that can always be opened, what a log     *)
(* keeps of the lines of its only writer is the end of them without a gap, *)
(* and while no process has died at least the last MaxRoll files' worth:   *)
(* rotate_log shifts, renames and reopens without losing a line in between *)
(* (src/log.c), whatever the other processes do meanwhile with their log.  *)
THEOREM RecentStays == Spec => []KeptIsRecent
<1>1. ASSUME RecentInv PROVE KeptIsRecent
  <2>1. SUFFICES ASSUME NEW p \in Procs, NEW l \in Logs,
                        Own, "access" \notin failed, Alone(p, l),
                        NEW k \in 1 .. written[p][l]
                 PROVE  /\ (\E j \in 1 .. k : IsKept(p, l, j)) => IsKept(p, l, k)
                        /\ crashes = 0 /\ k > written[p][l] - MaxRoll * MaxLines
                             => IsKept(p, l, k)
    BY DEF KeptIsRecent
  <2>2. Shape(p, l)
    BY <1>1, <2>1 DEF RecentInv, KeepInv
  <2> QED
    BY <2>2 DEF Shape, NoGap, Recent
<1> QED
  BY <1>1, RecentInit, RecentStep, PTL DEF Spec

=============================================================================
