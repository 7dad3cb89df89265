------------------------------- MODULE LogFiles -------------------------------
(***************************************************************************)
(* The log of src/log.c: a system log and an access log, each rotated      *)
(* after MaxLines lines through at most MaxRoll old files, written by the  *)
(* main process and by workers that reopen both logs after fork.           *)
(*                                                                         *)
(* A file is known by its name, the log and how often it was rotated; a    *)
(* stream by the name its file has now.  A line is the process that wrote  *)
(* it and a number that process gives to its lines of that log.  A process *)
(* has one thread in the modes whose logs rotate; it may be interrupted by *)
(* others between any two system calls of a rotation, and die there.       *)
(***************************************************************************)
EXTENDS Integers, Sequences, FiniteSetsExt

CONSTANTS
  Main,        \* the process that calls log_init
  Workers,     \* its children, each calls log_reopen
  MaxLines, MaxRoll,
  Absent,      \* in the place of a file: there is none
  Null,        \* in the place of a stream: the pointer is NULL
  Closed,      \* the pointer is to a stream that was closed
  Unlinked,    \* the stream is open, but its file has no name any more
  Deployments, \* how the access log is configured, see Own below
  MaxWritten,  \* bound on the lines written by all of them
  MaxFaults    \* bound on failing fopens and processes that die

Procs == {Main} \cup Workers
Logs == {"system", "access"}
Names == Logs \X (0 .. MaxRoll)

ASSUME LogAssumption ==
  /\ Main \notin Workers
  /\ MaxLines \in Nat \ {0} /\ MaxRoll \in Nat \ {0}
  /\ Deployments \subseteq {"own", "shared", "none"}
  /\ Null # Closed /\ Null # Unlinked /\ Closed # Unlinked
  /\ {Null, Closed, Unlinked} \cap Names = {}
  /\ Absent \notin Seq(Procs \X Logs \X Nat)

VARIABLES
  deploy,      \* the access log has its own path, the system log's, or none
  dir,         \* the lines of each file, or Absent
  g_system_log, g_access_log,      \* where each stream's file is now
  shared,      \* g_access_log and g_system_log are the same FILE *
  g_system_lines, g_access_lines,
  pc, call, turn,                  \* the call in progress and its loop index
  written,     \* lines each process has written to each log
  failed,      \* logs that an fopen failed to open, at most once each
  crashes,
  forked       \* the workers the main process has forked

streams == <<g_system_log, g_access_log, shared>>
counts == <<g_system_lines, g_access_lines>>
bounds == <<deploy, failed, crashes, forked>>
vars == <<deploy, dir, streams, counts, pc, call, turn, written, failed,
          crashes, forked>>

Init ==
  /\ deploy \in Deployments
  /\ dir = [n \in Names |-> Absent]
  /\ g_system_log = [p \in Procs |-> Null]
  /\ g_access_log = [p \in Procs |-> Null]
  /\ shared = [p \in Procs |-> FALSE]
  /\ g_system_lines = [p \in Procs |-> 0]
  /\ g_access_lines = [p \in Procs |-> 0]
  /\ pc = [p \in Procs |-> "off"]
  /\ call = [p \in Procs |-> "system"]
  /\ turn = [p \in Procs |-> 0]
  /\ written = [p \in Procs |-> [l \in Logs |-> 0]]
  /\ failed = {}
  /\ crashes = 0
  /\ forked = {}

(* g_access_path is not empty *)
Own == deploy = "own"

IsOpen(s) == s \notin {Null, Closed}

(* The log whose files the call in progress rotates: rot_path.             *)
RotLog(p) == IF call[p] = "access" /\ Own THEN "access" ELSE "system"

(* The stream the call in progress writes to: fp of log_access.            *)
Stream(p) ==
  IF call[p] = "access" /\ g_access_log[p] # Null
  THEN g_access_log[p] ELSE g_system_log[p]

LinesOf(p) == IF call[p] = "access" THEN g_access_lines[p]
              ELSE g_system_lines[p]

-----------------------------------------------------------------------------
(* The file system.                                                        *)

Contents(n) == IF dir[n] = Absent THEN <<>> ELSE dir[n]

(* fopen(path, "a"), as far as it changes the directory.                   *)
Opened(S) == [n \in Names |-> IF n \in S THEN Contents(n) ELSE dir[n]]

(* One line written to file n: the stream was opened to append.            *)
AppendedFirst(n, line) == [dir EXCEPT ![n] = <<line>> \o @]
Appended(n, line) == [dir EXCEPT ![n] = Append(@, line)]

(* What happens to the streams of all processes when the file a gets the  *)
(* name b, or loses its name.                                              *)
Moved(stream, a, b) ==
  [p \in Procs |-> IF stream[p] = a THEN b ELSE stream[p]]

(* remove(a) *)
Unlink(a) ==
  /\ dir' = [dir EXCEPT ![a] = Absent]
  /\ g_system_log' = Moved(g_system_log, a, Unlinked)
  /\ g_access_log' = Moved(g_access_log, a, Unlinked)

(* rename(a, b): fails when there is no a, and replaces b otherwise.       *)
Rename(a, b) ==
  IF dir[a] = Absent
  THEN UNCHANGED <<dir, g_system_log, g_access_log>>
  ELSE /\ dir' = [dir EXCEPT ![b] = dir[a], ![a] = Absent]
       /\ g_system_log' = Moved(Moved(g_system_log, b, Unlinked), a, b)
       /\ g_access_log' = Moved(Moved(g_access_log, b, Unlinked), a, b)

LinesWritten ==
  LET OfLog(l) == MapThenSumSet(LAMBDA p : written[p][l], Procs)
  IN  OfLog("system") + OfLog("access")

-----------------------------------------------------------------------------
(* Opening: log_init, fork and log_reopen.                                 *)

Faults == crashes + Cardinality(failed)

(* An fopen of log l, which may fail once in a behaviour.                  *)
MayFail(l) ==
  /\ l \notin failed /\ Faults < MaxFaults
  /\ failed' = failed \cup {l}

(* log_init; when the system log cannot be opened the process exits.  The  *)
(* line it writes is the call that follows.                                *)
LogInit ==
  /\ pc[Main] = "off" /\ LinesWritten < MaxWritten
  /\ shared' = [shared EXCEPT ![Main] = deploy = "shared"]
  /\ g_system_log' = [g_system_log EXCEPT ![Main] = <<"system", 0>>]
  /\ g_system_lines' =
       [g_system_lines EXCEPT ![Main] = Len(Contents(<<"system", 0>>))]
  /\ \/ /\ Own /\ UNCHANGED failed
        /\ dir' = Opened({<<"system", 0>>, <<"access", 0>>})
        /\ g_access_log' = [g_access_log EXCEPT ![Main] = <<"access", 0>>]
        /\ g_access_lines' =
             [g_access_lines EXCEPT ![Main] = Len(Contents(<<"access", 0>>))]
     \/ /\ ~Own /\ UNCHANGED failed
        /\ dir' = Opened({<<"system", 0>>})
        /\ g_access_log' = [g_access_log EXCEPT
             ![Main] = IF deploy = "shared" THEN <<"system", 0>> ELSE Null]
        /\ g_access_lines' = [g_access_lines EXCEPT
             ![Main] = IF deploy = "shared" THEN g_system_lines'[Main] ELSE 0]
     \/ /\ Own /\ MayFail("access")
        /\ dir' = Opened({<<"system", 0>>})
        /\ g_access_log' = [g_access_log EXCEPT ![Main] = Null]
        /\ g_access_lines' = [g_access_lines EXCEPT ![Main] = 0]
  /\ pc' = [pc EXCEPT ![Main] = "log"]
  /\ call' = [call EXCEPT ![Main] = "system"]
  /\ forked' = {}
  /\ UNCHANGED <<deploy, turn, written, crashes>>

(* fork: the child has copies of the pointers, the counts and the streams. *)
Fork(w) ==
  /\ pc[Main] = "idle" /\ pc[w] = "off" /\ w \notin forked
  /\ forked' = forked \cup {w}
  /\ pc' = [pc EXCEPT ![w] = "forked"]
  /\ g_system_log' = [g_system_log EXCEPT ![w] = g_system_log[Main]]
  /\ g_access_log' = [g_access_log EXCEPT ![w] = g_access_log[Main]]
  /\ shared' = [shared EXCEPT ![w] = shared[Main]]
  /\ g_system_lines' = [g_system_lines EXCEPT ![w] = g_system_lines[Main]]
  /\ g_access_lines' = [g_access_lines EXCEPT ![w] = g_access_lines[Main]]
  /\ UNCHANGED <<deploy, failed, crashes, dir, call, turn, written>>

(* log_reopen.  The counts start at 0 whatever the files hold.             *)
LogReopen(w) ==
  LET system == <<"system", 0>>
      access == <<"access", 0>>
      both == g_system_log[w] # Null /\ Own /\ g_access_log[w] # Null
  IN
  /\ pc[w] = "forked"
  /\ pc' = [pc EXCEPT ![w] = "idle"]
  /\ \E F \in SUBSET (Logs \ failed) :   \* what fails to open
       /\ Faults + Cardinality(F) <= MaxFaults
       /\ F \subseteq (IF both THEN Logs ELSE {"system"})
       /\ failed' = failed \cup F
       /\ LET sys == IF g_system_log[w] = Null \/ "system" \in F THEN Null
                     ELSE system
          IN  /\ g_system_log' = [g_system_log EXCEPT ![w] = sys]
              /\ g_access_log' = [g_access_log EXCEPT ![w] =
                   IF ~Own THEN sys
                   ELSE IF g_access_log[w] = Null \/ "access" \in F THEN Null
                   ELSE access]
              /\ shared' = [shared EXCEPT ![w] = ~Own /\ sys # Null]
              /\ g_system_lines' =
                   [g_system_lines EXCEPT ![w] = IF sys = Null THEN @ ELSE 0]
       /\ g_access_lines' = [g_access_lines EXCEPT ![w] =
            IF g_access_log'[w] = access THEN 0 ELSE @]
       /\ dir' = Opened({g_system_log'[w], g_access_log'[w]})
  /\ UNCHANGED <<deploy, crashes, forked, call, turn, written>>

-----------------------------------------------------------------------------
(* One call: log_write_system, log_access, or the last line of log_close.  *)

Call(p, c) ==
  /\ pc[p] = "idle" /\ (c = "close" \/ LinesWritten < MaxWritten)
  /\ c = "access" => p \in Workers
  /\ pc' = [pc EXCEPT ![p] = "log"]
  /\ call' = [call EXCEPT ![p] = c]
  /\ UNCHANGED <<bounds, dir, streams, counts, turn, written>>

(* Where a call returns to. *)
Return(p) ==
  /\ pc' = [pc EXCEPT ![p] = IF call[p] = "close" THEN "closing" ELSE "idle"]
  /\ call' = [call EXCEPT ![p] = "system"]

(* The pointer is NULL: the line is dropped.                               *)
Drop(p) ==
  /\ pc[p] = "log" /\ Stream(p) = Null
  /\ Return(p)
  /\ UNCHANGED <<bounds, dir, streams, counts, turn, written>>

(* A stream is used after it was closed: anything may happen from here on. *)
Undefined(p) ==
  /\ pc[p] \in {"log", "write"} /\ Stream(p) = Closed
  /\ pc' = [pc EXCEPT ![p] = "undefined"]
  /\ UNCHANGED <<bounds, dir, streams, counts, call, turn, written>>

MustRotate(p) == LinesOf(p) >= MaxLines

(* rotate_log, as far as fclose.  A rotation of the system log sets its    *)
(* pointer to NULL; log_access passes a local variable and leaves the      *)
(* pointers as they are.                                                   *)
CloseStream(p) ==
  /\ pc[p] = "log" /\ IsOpen(Stream(p)) /\ MustRotate(p)
  /\ IF call[p] = "access"
     THEN /\ g_access_log' = [g_access_log EXCEPT ![p] =
               IF @ = Null THEN Null ELSE Closed]
          /\ g_system_log' = [g_system_log EXCEPT ![p] =
               IF g_access_log[p] = Null \/ shared[p] THEN Closed ELSE @]
          /\ UNCHANGED shared
     ELSE /\ g_system_log' = [g_system_log EXCEPT ![p] = Null]
          /\ g_access_log' = [g_access_log EXCEPT ![p] =
               IF shared[p] THEN Closed ELSE @]
          /\ shared' = [shared EXCEPT ![p] = FALSE]
  /\ pc' = [pc EXCEPT ![p] = "shift"]
  /\ turn' = [turn EXCEPT ![p] = MaxRoll]
  /\ UNCHANGED <<bounds, dir, counts, call, written>>

(* One turn of the loop of rotate_log.                                     *)
ShiftNone(l, i) ==
  IF i = MaxRoll THEN Unlink(<<l, i>>)
  ELSE UNCHANGED <<dir, g_system_log, g_access_log>>
ShiftOne(l, i) ==
  IF i = MaxRoll THEN Unlink(<<l, i>>) ELSE Rename(<<l, i>>, <<l, i + 1>>)

Shift(p) ==
  /\ pc[p] = "shift"
  /\ ShiftOne(RotLog(p), turn[p])
  /\ turn' = [turn EXCEPT ![p] = @ - 1]
  /\ pc' = [pc EXCEPT ![p] = IF turn[p] = 1 THEN "rename" ELSE "shift"]
  /\ UNCHANGED <<bounds, shared, counts, call, written>>

(* The current file becomes the newest old one.                            *)
RenameCurrent(p) ==
  /\ pc[p] = "rename"
  /\ Rename(<<RotLog(p), 0>>, <<RotLog(p), 1>>)
  /\ pc' = [pc EXCEPT ![p] = "open"]
  /\ UNCHANGED <<bounds, shared, counts, call, turn, written>>

ResetCount(p) ==
  IF call[p] = "access"
  THEN /\ g_access_lines' = [g_access_lines EXCEPT ![p] = 0]
       /\ UNCHANGED g_system_lines
  ELSE /\ g_system_lines' = [g_system_lines EXCEPT ![p] = 0]
       /\ UNCHANGED g_access_lines

(* The new FILE may have the address of the one that was closed: a pointer *)
(* to that one is then a pointer to the new stream.                        *)
Reused(pointer, s) == IF pointer = Closed THEN {Closed, s} ELSE {pointer}

OpenNewForgets(p) ==
  /\ pc[p] = "open"
  /\ dir' = Opened({<<RotLog(p), 0>>})
  /\ ResetCount(p)
  /\ pc' = [pc EXCEPT ![p] = "write"]
  /\ UNCHANGED <<bounds, streams, call, turn, written>>

(* The last fopen of rotate_log, and the pointers set on its return.       *)
OpenNew(p) ==
  LET s == <<RotLog(p), 0>>
  IN
  /\ pc[p] = "open"
  /\ dir' = Opened({s})
  /\ IF call[p] = "access"
     THEN /\ g_access_log' = [g_access_log EXCEPT ![p] = s]
          /\ \E g \in (IF Own THEN Reused(g_system_log[p], s) ELSE {s}) :
               /\ g_system_log' = [g_system_log EXCEPT ![p] = g]
               /\ shared' = [shared EXCEPT ![p] = g = s]
     ELSE /\ g_system_log' = [g_system_log EXCEPT ![p] = s]
          /\ \E g \in Reused(g_access_log[p], s) :
               /\ g_access_log' = [g_access_log EXCEPT ![p] = g]
               /\ shared' = [shared EXCEPT ![p] = g = s]
  /\ ResetCount(p)
  /\ pc' = [pc EXCEPT ![p] = "write"]
  /\ UNCHANGED <<bounds, call, turn, written>>

(* It fails: the call returns without a line and without setting pointers. *)
OpenFails(p) ==
  /\ pc[p] = "open" /\ MayFail(RotLog(p))
  /\ ResetCount(p)
  /\ Return(p)
  /\ UNCHANGED <<deploy, crashes, forked, dir, streams, turn, written>>

(* The line, in one write because it is flushed at once.                   *)
Write(p) ==
  /\ IsOpen(Stream(p))
  /\ \/ pc[p] = "write"
     \/ pc[p] = "log" /\ ~MustRotate(p)
  /\ LET l == IF call[p] = "access" THEN "access" ELSE "system"
     IN  /\ written' = [written EXCEPT ![p][l] = @ + 1]
         /\ dir' = IF Stream(p) = Unlinked THEN dir
                   ELSE Appended(Stream(p), <<p, l, written[p][l] + 1>>)
  /\ IF call[p] = "access"
     THEN /\ g_access_lines' = [g_access_lines EXCEPT ![p] = @ + 1]
          /\ UNCHANGED g_system_lines
     ELSE /\ g_system_lines' = [g_system_lines EXCEPT ![p] = @ + 1]
          /\ UNCHANGED g_access_lines
  /\ Return(p)
  /\ UNCHANGED <<bounds, streams, turn>>

(* The variables of a process end with it.                                 *)
Forget(p) ==
  /\ g_system_lines' = [g_system_lines EXCEPT ![p] = 0]
  /\ g_access_lines' = [g_access_lines EXCEPT ![p] = 0]
  /\ call' = [call EXCEPT ![p] = "system"]
  /\ turn' = [turn EXCEPT ![p] = 0]

(* The rest of log_close.  A stream that both pointers share, or a dangling*)
(* pointer, is closed a second time.                                       *)
LogClose(p) ==
  /\ pc[p] = "closing"
  /\ pc' = [pc EXCEPT ![p] =
       IF g_access_log[p] = Closed \/ g_system_log[p] = Closed
            \/ (shared[p] /\ g_access_log[p] # Null)
       THEN "undefined" ELSE "off"]
  /\ g_system_log' = [g_system_log EXCEPT ![p] = Null]
  /\ g_access_log' = [g_access_log EXCEPT ![p] = Null]
  /\ shared' = [shared EXCEPT ![p] = FALSE]
  /\ Forget(p)
  /\ UNCHANGED <<bounds, dir, written>>

(* The process dies without log_close, between any two steps.              *)
Crash(p) ==
  /\ pc[p] \notin {"off", "undefined"} /\ Faults < MaxFaults
  /\ crashes' = crashes + 1
  /\ pc' = [pc EXCEPT ![p] = "off"]
  /\ g_system_log' = [g_system_log EXCEPT ![p] = Null]
  /\ g_access_log' = [g_access_log EXCEPT ![p] = Null]
  /\ shared' = [shared EXCEPT ![p] = FALSE]
  /\ Forget(p)
  /\ UNCHANGED <<deploy, failed, forked, dir, written>>

Step(p) ==
  \/ \E c \in {"system", "access", "close"} : Call(p, c)
  \/ Drop(p) \/ Undefined(p) \/ CloseStream(p) \/ Shift(p)
  \/ RenameCurrent(p) \/ OpenNew(p) \/ OpenFails(p) \/ Write(p)
  \/ LogClose(p) \/ Crash(p)

Next ==
  \/ LogInit
  \/ \E w \in Workers : Fork(w) \/ LogReopen(w)
  \/ \E p \in Procs : Step(p)

Spec == Init /\ [][Next]_vars

-----------------------------------------------------------------------------
TypeOK ==
  /\ deploy \in Deployments
  /\ dir \in [Names -> Seq(Procs \X Logs \X Nat) \cup {Absent}]
  /\ g_system_log \in [Procs -> Names \cup {Null, Closed, Unlinked}]
  /\ g_access_log \in [Procs -> Names \cup {Null, Closed, Unlinked}]
  /\ shared \in [Procs -> BOOLEAN]
  /\ g_system_lines \in [Procs -> Nat] /\ g_access_lines \in [Procs -> Nat]
  /\ pc \in [Procs -> {"off", "forked", "idle", "log", "shift", "rename",
                       "open", "write", "closing", "undefined"}]
  /\ call \in [Procs -> {"system", "access", "close"}]
  /\ turn \in [Procs -> 0 .. MaxRoll]
  /\ written \in [Procs -> [Logs -> Nat]]
  /\ failed \subseteq Logs /\ crashes \in Nat /\ forked \subseteq Workers

(* Rotation never puts a process's lines out of order: read from the       *)
(* oldest file to the newest, the lines of one process are in the order in *)
(* which it wrote them, whoever rotates at the same time and wherever a    *)
(* process dies in the middle of a rotation.                               *)
OrderIsKept ==
  \A l \in Logs : \A a, b \in 0 .. MaxRoll :
    \A i \in DOMAIN Contents(<<l, a>>), j \in DOMAIN Contents(<<l, b>>) :
      LET first == Contents(<<l, a>>)[i]
          second == Contents(<<l, b>>)[j]
      IN  /\ a > b \/ (a = b /\ i < j)
          /\ first[1] = second[1] /\ first[2] = second[2]
          => first[3] < second[3]

(* The log has been written by p only. *)
Alone(p, l) == \A q \in Procs \ {p} : written[q][l] = 0

(* Line k that p wrote to log l is still in one of the files of the log.   *)
IsKept(p, l, k) ==
  \E a \in 0 .. MaxRoll :
    \E i \in DOMAIN Contents(<<l, a>>) : Contents(<<l, a>>)[i] = <<p, l, k>>

(* What a log keeps when one process writes it is the end of what was      *)
(* written, without a gap; and if no process died, at least the last       *)
(* MaxRoll files' worth of it.                                             *)
KeptIsRecent ==
  \A p \in Procs, l \in Logs :
    (Own /\ "access" \notin failed /\ Alone(p, l)) =>
      \A k \in 1 .. written[p][l] :
        /\ (\E j \in 1 .. k : IsKept(p, l, j)) => IsKept(p, l, k)
        /\ crashes = 0 /\ k > written[p][l] - MaxRoll * MaxLines
             => IsKept(p, l, k)

(* With an access log of its own, no process uses or closes a stream that  *)
(* was closed, unless it could not open the access log; and the logs do    *)
(* not fall silent unless it could not open one of them.                   *)
StreamsAreOpen ==
  Own => \A p \in Procs :
    /\ pc[p] = "undefined" => "access" \in failed
    /\ pc[p] = "idle" /\ failed = {} =>
         IsOpen(g_system_log[p]) /\ IsOpen(g_access_log[p])

(* log.c:426: "If they share the same FILE*, we already closed it above":  *)
(* no stream is used or closed after it was closed.                        *)
ClosedOnce == \A p \in Procs : pc[p] # "undefined"

=============================================================================
