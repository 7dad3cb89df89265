------------------------------ MODULE UserIndex ------------------------------
(***************************************************************************)
(* The red-black tree of src/user_index.c as user_store.c uses it.  The    *)
(* nodes lie in memory that all processes share; the offset of the root is *)
(* a global of each process (g_user_bst), copied by fork.                  *)
(*                                                                         *)
(* Insertions and deletions run under the lock of the store, so there is   *)
(* one at a time.  A step of the model is one turn of one of their loops,  *)
(* or the half of a turn that ends with a rotation.  The code never uses a *)
(* node again: a user is added again only when nothing leads to his old    *)
(* node.  Each pair of mirrored cases in the code is one case with a side. *)
(***************************************************************************)
EXTENDS UserTree, Sequences

CONSTANTS
  Processes,   \* those that add and delete users
  FileUsers    \* the users in the CSV file, in any order

ASSUME FileAssumption == FileUsers \subseteq Users

VARIABLES
  tree,      \* the nodes: child[side], parent, color
  root,      \* g_user_bst.root_off of each process
  listed,    \* the users in the linked list of the store
  loading,   \* the file is being read, nothing has been forked
  stage,     \* where the insertion or deletion in progress is
  worker,    \* the process that runs it
  user,      \* whom it inserts or deletes
  at,        \* z of an insertion; z, y or x of a deletion
  above      \* y of bst_insert

shape == <<tree, root>>
call == <<stage, worker, user, at, above>>
index_vars == <<shape, listed, loading, call>>

(* The tree as process p sees it, and as the process at work does.         *)
View(p) == [child |-> tree.child, parent |-> tree.parent,
            color |-> tree.color, root |-> root[p]]
Here == View(worker)

(* Before the fork there is one copy of the root.                          *)
Store(t) ==
  /\ tree' = [child |-> t.child, parent |-> t.parent, color |-> t.color]
  /\ root' = IF loading THEN [q \in Processes |-> t.root]
             ELSE [root EXCEPT ![worker] = t.root]

Proceed(s, x) ==
  /\ stage' = s /\ at' = x /\ above' = Nil
  /\ UNCHANGED <<listed, loading, worker, user>>

(* Nothing leads to node n: it is not the root of a process nor next to    *)
(* another node.                                                           *)
Loose(t, r, n) ==
  /\ \A q \in Processes : r[q] # n
  /\ \A m \in Users : t.parent[m] # n /\ \A s \in Sides : t.child[s][m] # n

(* Loose nodes whose users are not listed do not matter any more, nor does *)
(* the parent of the sentinel, which is always set before it is read.      *)
Tidy(t, r) ==
  LET old(n) == n = Nil \/ (n \notin listed /\ Loose(t, r, n))
  IN  [child |-> [s \in Sides |->
                    [n \in TreeNodes |-> IF old(n) THEN Nil ELSE t.child[s][n]]],
       parent |-> [n \in TreeNodes |-> IF old(n) THEN Nil ELSE t.parent[n]],
       color |-> [n \in TreeNodes |-> IF old(n) THEN "black" ELSE t.color[n]]]

(* The call returns and leaves t.                                          *)
Finish(t) ==
  /\ root' = IF loading THEN [q \in Processes |-> t.root]
             ELSE [root EXCEPT ![worker] = t.root]
  /\ tree' = Tidy(t, root')
  /\ stage' = "idle" /\ user' = Nil /\ at' = Nil /\ above' = Nil
  /\ UNCHANGED <<listed, loading, worker>>

IndexInit ==
  /\ tree = [child |-> [s \in Sides |-> [n \in TreeNodes |-> Nil]],
             parent |-> [n \in TreeNodes |-> Nil],
             color |-> [n \in TreeNodes |-> "black"]]
  /\ root = [p \in Processes |-> Nil]
  /\ listed = {} /\ loading = TRUE
  /\ stage = "idle" /\ worker \in Processes
  /\ user = Nil /\ at = Nil /\ above = Nil

-----------------------------------------------------------------------------
(* bst_insert                                                              *)

(* The node of u as user_store_add and bst_insert prepare it.              *)
Insert(p, u) ==
  /\ listed' = listed \cup {u}
  /\ tree' = [tree EXCEPT !.child["left"][u] = Nil, !.child["right"][u] = Nil,
                          !.parent[u] = Nil, !.color[u] = "red"]
  /\ stage' = "descend" /\ worker' = p /\ user' = u
  /\ at' = root[p] /\ above' = Nil
  /\ UNCHANGED <<root, loading>>

(* user_store_shm_load_csv                                                 *)
LoadUser(u) ==
  /\ stage = "idle" /\ loading
  /\ u \in FileUsers \ listed
  /\ Insert(worker, u)

Fork ==
  /\ stage = "idle" /\ loading /\ listed = FileUsers
  /\ loading' = FALSE
  /\ UNCHANGED <<shape, listed, call>>

AddUser(p, u) ==
  /\ stage = "idle" /\ ~loading
  /\ u \notin listed /\ Loose(tree, root, u)
  /\ Insert(p, u)

Descend ==
  /\ stage = "descend" /\ at # Nil
  /\ above' = at
  /\ at' = Here.child[Toward(at, user)][at]
  /\ UNCHANGED <<shape, listed, loading, stage, worker, user>>

Attach ==
  /\ stage = "descend" /\ at = Nil
  /\ Store(Hang(Here, user, above))
  /\ Proceed("fixInsert", user)

-----------------------------------------------------------------------------
(* rbt_insert_fixup; z is at.                                              *)

Zp == tree.parent[at]
Zpp == tree.parent[Zp]
ZpSide == SideOf(Here, Zpp, Zp)
Uncle == tree.child[Other(ZpSide)][Zpp]

Recolour ==
  /\ stage = "fixInsert"
  /\ tree.color[Zp] = "red" /\ tree.color[Uncle] = "red"
  /\ Store(Paint(Paint(Here, {Zp, Uncle}, "black"), {Zpp}, "red"))
  /\ Proceed("fixInsert", Zpp)

(* z is the inner grandchild.                                              *)
TurnParent ==
  /\ stage = "fixInsert"
  /\ tree.color[Zp] = "red" /\ tree.color[Uncle] # "red"
  /\ at = tree.child[Other(ZpSide)][Zp]
  /\ Store(Rotate(Here, Zp, ZpSide))
  /\ Proceed("turnInsert", Zp)

TurnGrandparent ==
  /\ \/ stage = "turnInsert"
     \/ /\ stage = "fixInsert"
        /\ tree.color[Zp] = "red" /\ tree.color[Uncle] # "red"
        /\ at # tree.child[Other(ZpSide)][Zp]
  /\ Store(Rotate(Paint(Paint(Here, {Zp}, "black"), {Zpp}, "red"),
                  Zpp, Other(ZpSide)))
  /\ Proceed("fixInsert", at)

InsertDone ==
  /\ stage = "fixInsert" /\ tree.color[Zp] # "red"
  /\ Finish(Paint(Here, {Here.root}, "black"))

-----------------------------------------------------------------------------
(* bst_delete                                                              *)

(* user_store_delete has taken the user from the list.                     *)
DeleteUser(p, u) ==
  /\ stage = "idle" /\ ~loading
  /\ u \in listed
  /\ listed' = listed \ {u}
  /\ stage' = "seek" /\ worker' = p /\ user' = u
  /\ at' = root[p] /\ above' = Nil
  /\ UNCHANGED <<shape, loading>>

(* A process with a stale root may come to the sentinel: -1 is returned.   *)
Seek ==
  /\ stage = "seek" /\ at # user
  /\ IF at = Nil THEN Finish(Here)
     ELSE /\ Proceed("seek", tree.child[Toward(at, user)][at])
          /\ UNCHANGED shape

AfterRemovalUnfixed(t, x, gone) == Finish(t)

(* What follows a removal: the loss of a black node has to be made good.   *)
AfterRemoval(t, x, gone) ==
  IF gone = "black" THEN Store(t) /\ Proceed("fixDelete", x) ELSE Finish(t)

Lacks(side) == tree.child[side][user] = Nil

RemoveAt(side) ==
  LET x == tree.child[side][user]
  IN  AfterRemoval(Transplant(Here, user, x), x, tree.color[user])

(* z lacks a child: the other one takes its place.                         *)
Remove ==
  /\ stage = "seek" /\ at = user
  /\ \/ Lacks("left") /\ RemoveAt("right")
     \/ ~Lacks("left") /\ Lacks("right") /\ RemoveAt("left")

FindSuccessor ==
  /\ stage = "seek" /\ at = user
  /\ ~Lacks("left") /\ ~Lacks("right")
  /\ Proceed("minimum", tree.child["right"][user])
  /\ UNCHANGED shape

Minimum ==
  /\ stage = "minimum" /\ tree.child["left"][at] # Nil
  /\ Proceed("minimum", tree.child["left"][at])
  /\ UNCHANGED shape

(* z has two children: its successor y takes its place and colour.         *)
RemoveInner ==
  /\ stage = "minimum" /\ tree.child["left"][at] = Nil
  /\ AfterRemoval(Succeed(Here, user, at), tree.child["right"][at],
                  tree.color[at])

-----------------------------------------------------------------------------
(* rbt_delete_fixup; x is at, and may be the sentinel.                     *)

Xp == tree.parent[at]
XSide == SideOf(Here, Xp, at)
W == tree.child[Other(XSide)][Xp]
Near == tree.child[XSide][W]
Far == tree.child[Other(XSide)][W]

DeleteDone ==
  /\ stage = "fixDelete" /\ (at = Here.root \/ tree.color[at] # "black")
  /\ Finish(Paint(Here, {at}, "black"))

InLoop ==
  /\ stage = "fixDelete"
  /\ at # Here.root /\ tree.color[at] = "black"

RedSibling ==
  /\ InLoop /\ tree.color[W] = "red"
  /\ Store(Rotate(Paint(Paint(Here, {W}, "black"), {Xp}, "red"), Xp, XSide))
  /\ Proceed("sibling", at)

(* The sibling is known to be black.                                       *)
AtSibling == stage = "sibling" \/ (InLoop /\ tree.color[W] # "red")

MoveUp ==
  /\ AtSibling
  /\ tree.color[Near] = "black" /\ tree.color[Far] = "black"
  /\ Store(Paint(Here, {W}, "red"))
  /\ Proceed("fixDelete", Xp)

TurnSibling ==
  /\ AtSibling
  /\ tree.color[Near] # "black" /\ tree.color[Far] = "black"
  /\ Store(Rotate(Paint(Paint(Here, {Near}, "black"), {W}, "red"),
                  W, Other(XSide)))
  /\ Proceed("turnDelete", at)

TurnUp ==
  /\ stage = "turnDelete" \/ (AtSibling /\ tree.color[Far] # "black")
  /\ LET t == Rotate(Paint(Paint(Here, {W}, tree.color[Xp]), {Xp, Far}, "black"),
                     Xp, XSide)
     IN  Store(t) /\ Proceed("fixDelete", t.root)

-----------------------------------------------------------------------------
IndexNext ==
  \/ Fork \/ \E u \in Users : LoadUser(u)
  \/ \E p \in Processes, u \in Users : AddUser(p, u) \/ DeleteUser(p, u)
  \/ Descend \/ Attach
  \/ Recolour \/ TurnParent \/ TurnGrandparent \/ InsertDone
  \/ Seek \/ Remove \/ FindSuccessor \/ Minimum \/ RemoveInner
  \/ RedSibling \/ MoveUp \/ TurnSibling \/ TurnUp \/ DeleteDone

IndexSpec == IndexInit /\ [][IndexNext]_index_vars

-----------------------------------------------------------------------------
(* The walks.  No way down has more nodes than there are users, so that    *)
(* k levels are enough.                                                    *)

(* bst_inorder, bst_format_users.  WalkIsSortedList says that the walk     *)
(* meets listed users only, so that their tests of used skip nobody.       *)
InOrder(t) ==
  LET walk[k \in 0 .. NumUsers] ==
        [n \in TreeNodes |->
           IF k = 0 \/ n = Nil THEN << >>
           ELSE walk[k - 1][t.child["left"][n]] \o <<n>>
                  \o walk[k - 1][t.child["right"][n]]]
  IN  walk[NumUsers][t.root]

(* bst_find                                                                *)
Search(t, u) ==
  LET way[k \in 0 .. NumUsers] ==
        IF k = 0 THEN t.root
        ELSE LET x == way[k - 1]
             IN  IF x \in {Nil, u} THEN x ELSE t.child[Toward(x, u)][x]
  IN  way[NumUsers]

(* The black nodes on every way down from the root, or -1: the ways        *)
(* differ, or a red node has a red child.                                  *)
BlackHeight(t) ==
  LET height[k \in 0 .. NumUsers] ==
        [n \in TreeNodes |->
           IF n = Nil THEN 0
           ELSE IF k = 0 THEN -1
           ELSE LET l == height[k - 1][t.child["left"][n]]
                    r == height[k - 1][t.child["right"][n]]
                IN  IF \/ l # r \/ l = -1
                       \/ /\ t.color[n] = "red"
                          /\ \E s \in Sides : t.color[t.child[s][n]] = "red"
                    THEN -1
                    ELSE IF t.color[n] = "black" THEN l + 1 ELSE l]
  IN  height[NumUsers][t.root]

(* What bst_inorder, bst_format_users and user_store_search walk through   *)
(* is the list of the users, each once, in the order of their names: no    *)
(* insertion or deletion loses a subtree or puts it in the wrong place.    *)
WalkIsSortedList ==
  \A p \in Processes :
    LET walk == InOrder(View(p))
    IN  /\ {walk[i] : i \in 1 .. Len(walk)} = listed
        /\ \A i \in 1 .. Len(walk) - 1 : walk[i] < walk[i + 1]

(* A search through the index finds the users of the list and no others.   *)
(* user_store.h:13 "making the data fork-safe: workers share the same      *)
(* physical pages" and user_store.c:362 "sync to shared memory" promise it *)
(* to every process; it holds for one process only, because the others     *)
(* start from the root that they had at the fork.                          *)
FindsListed ==
  \A p \in Processes, u \in Users :
    Search(View(p), u) = IF u \in listed THEN u ELSE Nil

(* A red-black tree, so that a search takes logarithmic time.              *)
RedBlack ==
  \A p \in Processes :
    tree.color[root[p]] = "black" /\ BlackHeight(View(p)) >= 0

(* Whenever no call is in progress the index is a search tree of the list  *)
(* and balanced, after every sequence of insertions and deletions, though  *)
(* the fix-up of a deletion climbs through the links of a sentinel that    *)
(* all the leaves share.                                                   *)
IndexIsSound ==
  stage = "idle" => WalkIsSortedList /\ FindsListed /\ RedBlack

=============================================================================
