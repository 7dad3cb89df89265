----------------------------- MODULE MCUserStore -----------------------------
(* Instances of UserStore. *)
EXTENDS UserStore, TLC

AnnAndBob == [i \in {1, 2} |-> IF i = 1 THEN "ann" ELSE "bob"]

=============================================================================
