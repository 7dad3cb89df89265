---------------------------- MODULE MCSessionTable ----------------------------
(* An instance of SessionTable with every hash function.                   *)
EXTENDS SessionTable, TLC

AnyHash == [Ids -> 0 .. HashSize - 1]

(* The ids are alike, as the set of hash functions treats them all alike.  *)
IdSymmetry == Permutations(Ids)

=============================================================================
