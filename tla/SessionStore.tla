----------------------------- MODULE SessionStore -----------------------------
(***************************************************************************)
(* What src/session.c keeps of the promises of include/session.h, for any  *)
(* hash function.  A session that got its home bucket, the first of its    *)
(* probe, is firm: it is found by its id until it is destroyed or expires, *)
(* and never afterwards.  One that was displaced is loose: it may be lost  *)
(* when another session is removed, and come back when another is created, *)
(* but it too is found at first and never after its end.                   *)
(***************************************************************************)
EXTENDS Integers

CONSTANTS Ids, TTL

VARIABLES
  valid,   \* the sessions neither destroyed nor expired: <<id, last moment>>
  firm,    \* the ids that session_lookup is bound to find
  loose,   \* the other ids it would find now
  ended,   \* the ids that were destroyed or expired
  now

store_vars == <<valid, firm, loose, ended, now>>

IdsOf(V) == {v[1] : v \in V}
Alive == IdsOf(valid)

Init == valid = {} /\ firm = {} /\ loose = {} /\ ended = {} /\ now = 0

(* The new session is found; others may have been lost to the clean-up, or *)
(* come back because the entry fills a hole.                               *)
Create(i) ==
  /\ i \notin Alive \cup ended
  /\ valid' = valid \cup {<<i, now + TTL>>}
  /\ firm' \in {firm, firm \cup {i}}
  /\ loose' \subseteq (Alive \cup {i}) \ firm'
  /\ i \in firm' \cup loose'
  /\ UNCHANGED <<ended, now>>

(* Only a session that would be found is destroyed.                        *)
Destroy(i) ==
  /\ i \in firm \cup loose
  /\ valid' = {v \in valid : v[1] # i}
  /\ firm' = firm \ {i}
  /\ loose' \subseteq loose \ {i}
  /\ ended' = ended \cup {i}
  /\ UNCHANGED now

(* What is left of expired sessions is removed.                            *)
CleanUp ==
  /\ loose' \subseteq loose
  /\ UNCHANGED <<valid, firm, ended, now>>

(* A tick of the clock ends the sessions whose last moment it was.         *)
Tick ==
  /\ now' = now + 1
  /\ valid' = {v \in valid : v[2] > now}
  /\ firm' = firm \cap IdsOf(valid')
  /\ loose' = loose \cap IdsOf(valid')
  /\ ended' = ended \cup (Alive \ IdsOf(valid'))

Next == CleanUp \/ Tick \/ \E i \in Ids : Create(i) \/ Destroy(i)

Spec == Init /\ [][Next]_store_vars

=============================================================================
