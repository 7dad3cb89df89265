------------------------------- MODULE UserTree -------------------------------
(***************************************************************************)
(* The nodes of the tree of src/user_index.c and the operators that change *)
(* its links in one place.  Users are numbered in the order of their       *)
(* names, the node of a user has his number, and 0 is the sentinel.  Each  *)
(* pair of mirrored cases in the code is one case with a side.             *)
(***************************************************************************)
EXTENDS Integers

CONSTANT NumUsers   \* bound: different user names

ASSUME UsersAssumption == NumUsers \in Nat

Users == 1 .. NumUsers
Nil == 0
TreeNodes == Users \cup {Nil}
Sides == {"left", "right"}
Other(side) == IF side = "left" THEN "right" ELSE "left"

(* On which side of node x a search for u goes on.                         *)
Toward(x, u) == IF u < x THEN "left" ELSE "right"

-----------------------------------------------------------------------------
(* Links.                                                                  *)

(* The side on which n hangs below p: a comparison with the left child.    *)
SideOf(t, p, n) == IF t.child["left"][p] = n THEN "left" ELSE "right"

(* What led to u leads to v. *)
Replace(t, u, v) ==
  LET p == t.parent[u]
  IN  IF p = Nil THEN [t EXCEPT !.root = v]
                 ELSE [t EXCEPT !.child[SideOf(t, p, u)][p] = v]

Paint(t, S, c) ==
  [t EXCEPT !.color = [n \in TreeNodes |-> IF n \in S THEN c ELSE @[n]]]

(* rbt_left_rotate(x) for side "left", rbt_right_rotate(x) for "right".    *)
Rotate(t, x, side) ==
  LET y == t.child[Other(side)][x]
      inner == t.child[side][y]
  IN  [Replace(t, x, y) EXCEPT
         !.child[Other(side)][x] = inner,
         !.child[side][y] = x,
         !.parent = [n \in TreeNodes |->
                       IF n = x THEN y
                       ELSE IF n = y THEN t.parent[x]
                       ELSE IF n = inner /\ n # Nil THEN x
                       ELSE @[n]]]

(* rbt_transplant; the sentinel gets a parent too. *)
Transplant(t, u, v) == [Replace(t, u, v) EXCEPT !.parent[v] = t.parent[u]]

(* bst_insert puts u below y. *)
Hang(t, u, y) ==
  IF y = Nil THEN [t EXCEPT !.parent[u] = y, !.root = u]
             ELSE [t EXCEPT !.parent[u] = y, !.child[Toward(y, u)][y] = u]

(* bst_delete: y, the least user right of z, takes the place of z.         *)
Succeed(t, z, y) ==
  LET x == t.child["right"][y]
      a == IF t.parent[y] = z THEN [t EXCEPT !.parent[x] = y]
           ELSE LET b == Transplant(t, y, x)
                    r == b.child["right"][z]
                IN  [b EXCEPT !.child["right"][y] = r, !.parent[r] = y]
      c == Transplant(a, z, y)
      l == c.child["left"][z]
  IN  [c EXCEPT !.child["left"][y] = l, !.parent[l] = y,
                !.color[y] = c.color[z]]

===============================================================================
