----------------------------- MODULE MCThreadPool -----------------------------
(* Small instances of ThreadPool for TLC.                                  *)
EXTENDS ThreadPool, TLC

(* Threads, connections and the callers other than the owner are           *)
(* interchangeable: they are model values that only equality tells apart.  *)
Symmetry ==
  Permutations(Threads) \cup Permutations(Conns)
    \cup Permutations(Callers \ {Owner})
=============================================================================
