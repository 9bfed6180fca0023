------------------------------- MODULE Ranking -------------------------------
(***************************************************************************)
(* RBTree, the tree of SortedList::cups_users that ranks the players.  A   *)
(* node is named by its place in "node", the heap, and never freed: my_de- *)
(* lete unlinks it only.  A value stands for a ScoreIndex, by its place in *)
(* the order of ScoreIndex::operator<.                                     *)
(*                                                                         *)
(* A node keeps its parent for refresh_child and for the iterator, but an  *)
(* insertion returns the new root without clearing its parent: after a     *)
(* rotation at the root that points to one of its own children, or later   *)
(* to a node that is gone.                                                 *)
(***************************************************************************)
EXTENDS Integers, FiniteSets, Sequences

CONSTANTS
  Values,       (* the values that are inserted                            *)
  MaxNodes      (* nodes that are ever made                                *)

ASSUME RankingAssumption == Values \subseteq Nat \ {0} /\ MaxNodes \in Nat \ {0}

VARIABLES
  tree,         (* node: the heap, root: RBTree::_root, up: FALSE after a  *)
                (*   null pointer was used                                 *)
  shrunk        (* "yes" after the first deletion (history)                *)

treeVars == <<tree, shrunk>>

Null == 0
Other(side) == IF side = "left" THEN "right" ELSE "left"

InitTree == tree = [node |-> <<>>, root |-> Null, up |-> TRUE] /\ shrunk = "no"

-----------------------------------------------------------------------------
(* Helpers of a heap h.                                                     *)

Count(h, n) == IF n = Null THEN 0 ELSE h[n].count
is_red(h, n) == n # Null /\ h[n].color = "red"

RECURSIVE refresh_child(_, _)
refresh_child(h, n) ==
  LET count == 1 + Count(h, h[n].left) + Count(h, h[n].right)
      g     == [h EXCEPT ![n].count = count]
  IN  IF count # h[n].count /\ h[n].parent # Null THEN refresh_child(g, h[n].parent) ELSE g

(* Seeded fault: the count is left alone.                                   *)
set_childFault(h, n, side, c) ==
  LET g == [h EXCEPT ![n][side] = c]
  IN  IF c = Null THEN g ELSE [g EXCEPT ![c].parent = n]

(* set_left and set_rigth.                                                  *)
set_child(h, n, side, c) ==
  LET g == [h EXCEPT ![n][side] = c]
  IN  refresh_child(IF c = Null THEN g ELSE [g EXCEPT ![c].parent = n], n)

(* left_rotation and right_rotation: the heap, and the node on top.         *)
rotation(h, n, side) ==
  LET x == h[n][Other(side)]
      g == set_child(set_child(h, n, Other(side), h[x][side]), x, side, n)
  IN  <<[g EXCEPT ![x].color = g[n].color, ![n].color = "red"], x>>

Flipped(c) == IF c = "red" THEN "black" ELSE "red"
flip_colors(h, n) ==
  [m \in DOMAIN h |-> IF m \in {n, h[n].left, h[n].right} THEN [h[m] EXCEPT !.color = Flipped(@)] ELSE h[m]]

(* Seeded fault: red links that lean to the right stay.                     *)
RepairFault(h, n) ==
  LET b == IF is_red(h, h[n].left) /\ is_red(h, h[h[n].left].left) THEN rotation(h, n, "right") ELSE <<h, n>>
      m == b[2]
      g == b[1]
  IN  <<IF is_red(g, g[m].left) /\ is_red(g, g[m].right) THEN flip_colors(g, m) ELSE g, m>>

(* The end of recursive_insertion.                                          *)
Repair(h, n) ==
  LET a == IF is_red(h, h[n].right) THEN rotation(h, n, "left") ELSE <<h, n>>
      b == LET k == a[1]
               m == a[2]
           IN  IF is_red(k, k[m].left) /\ is_red(k, k[k[m].left].left) THEN rotation(k, m, "right") ELSE a
      m == b[2]
      g == b[1]
  IN  <<IF is_red(g, g[m].left) /\ is_red(g, g[m].right) THEN flip_colors(g, m) ELSE g, m>>

initNode(v) == [value |-> v, color |-> "red", left |-> Null, right |-> Null, parent |-> Null, count |-> 1]

RECURSIVE recursive_insertion(_, _, _)
recursive_insertion(h, n, v) ==
  IF n = Null THEN <<Append(h, initNode(v)), Len(h) + 1>>
  ELSE IF h[n].value = v THEN Repair(refresh_child(h, n), n)
  ELSE LET side == IF h[n].value < v THEN "right" ELSE "left"
           r    == recursive_insertion(h, h[n][side], v)
       IN  Repair(refresh_child(set_child(r[1], n, side, r[2]), n), n)

RECURSIVE Outermost(_, _, _)
Outermost(h, n, side) == IF h[n][side] = Null THEN n ELSE Outermost(h, h[n][side], side)

-----------------------------------------------------------------------------
(* The calls, on a tree t.                                                  *)

inserted(t, v) ==
  LET r == recursive_insertion(t.node, t.root, v)
  IN  [t EXCEPT !.node = [r[1] EXCEPT ![r[2]].color = "black"], !.root = r[2]]

(* Without a parent _root is cleared, and the null pointer used all the     *)
(* same.                                                                    *)
remove_leaf(t, z) ==
  LET p == t.node[z].parent
      Unlink(h, side) == IF h[p][side] = z THEN set_child(h, p, side, Null) ELSE h
  IN  IF p = Null THEN [t EXCEPT !.root = Null, !.up = FALSE]
      ELSE [t EXCEPT !.node = refresh_child(Unlink(Unlink(@, "left"), "right"), p)]

(* Seeded fault: the value of the next node is not taken over.              *)
RECURSIVE my_deleteFault(_, _)
my_deleteFault(t, z) ==
  LET Pull(s, side) ==
        IF s.node[z][side] = Null THEN s
        ELSE my_deleteFault(s, Outermost(s.node, s.node[z][side], Other(side)))
  IN  IF t.node[z].left = Null /\ t.node[z].right = Null THEN remove_leaf(t, z)
      ELSE Pull(Pull(t, "right"), "left")

(* A node with children takes the value of TREE_SUCCESSOR, whose node is    *)
(* then deleted, and of TREE_MINOR as well: one with two children loses the *)
(* first of the two values.                                                 *)
RECURSIVE my_delete(_, _)
my_delete(t, z) ==
  LET Pull(s, side) ==
        IF s.node[z][side] = Null THEN s
        ELSE LET y == Outermost(s.node, s.node[z][side], Other(side))
             IN  my_delete([s EXCEPT !.node[z].value = s.node[y].value], y)
  IN  IF t.node[z].left = Null /\ t.node[z].right = Null THEN remove_leaf(t, z)
      ELSE Pull(Pull(t, "right"), "left")

(* search: the node, and its index if there is one (out is not set when     *)
(* there is none).                                                          *)
RECURSIVE recursive_search(_, _, _)
recursive_search(h, n, v) ==
  IF n = Null THEN <<Null, 0>>
  ELSE LET before == Count(h, h[n].left) IN
    IF v < h[n].value THEN recursive_search(h, h[n].left, v)
    ELSE IF v = h[n].value THEN <<n, before>>
    ELSE LET r == recursive_search(h, h[n].right, v) IN <<r[1], r[2] + before + 1>>

search(t, v) == recursive_search(t.node, t.root, v)
deleted(t, v) == LET n == search(t, v)[1] IN IF n = Null THEN t ELSE my_delete(t, n)

size(t) == Count(t.node, t.root)

RECURSIVE by_index(_, _, _)
by_index(h, i, n) ==
  IF n = Null THEN Null
  ELSE LET before == Count(h, h[n].left) IN
    IF i < before THEN by_index(h, i, h[n].left)
    ELSE IF i = before THEN n ELSE by_index(h, i - before - 1, h[n].right)

(* my_iterator::operator++.  A way up that comes to a node again never ends.*)
Endless == -1
RECURSIVE Climb(_, _, _)
Climb(h, n, passed) ==
  LET p == h[n].parent
  IN  IF p = Null \/ h[p].left = n THEN p
      ELSE IF p \in passed THEN Endless ELSE Climb(h, p, passed \cup {p})
NextNode(h, n) == IF h[n].right # Null THEN Outermost(h, h[n].right, "left") ELSE Climb(h, n, {n})

(* The users that get_top_hundred reads, and whether it returns them: it    *)
(* steps on after the last one as well.                                     *)
get_top_hundred(t, shift, count) ==
  LET start == by_index(t.node, shift, t.root)
      at[i \in Nat] == IF i = 0 THEN start ELSE NextNode(t.node, at[i - 1])
      many  == IF shift + count > size(t) THEN size(t) - shift ELSE count
  IN  [users |-> [i \in 1 .. many |-> t.node[at[i - 1]].value], returns |-> at[many] # Endless]

-----------------------------------------------------------------------------
Insert(v) ==
  /\ Len(tree.node) < MaxNodes
  /\ tree' = inserted(tree, v)
  /\ UNCHANGED shrunk

Delete(v) ==
  /\ tree' = deleted(tree, v)
  /\ shrunk' = "yes"

(* SortedList::change_user.                                                 *)
ChangeUser(v) ==
  /\ Len(tree.node) < MaxNodes
  /\ LET t == deleted(tree, v) IN tree' = IF t.up THEN inserted(t, v) ELSE t
  /\ shrunk' = IF search(tree, v)[1] = Null THEN shrunk ELSE "yes"

NextTree ==
  /\ tree.up
  /\ \E v \in Values : Insert(v) \/ Delete(v) \/ ChangeUser(v)

-----------------------------------------------------------------------------
RECURSIVE Below(_, _)
Below(h, n) == IF n = Null THEN {} ELSE {n} \cup Below(h, h[n].left) \cup Below(h, h[n].right)
Keys(t) == {t.node[n].value : n \in Below(t.node, t.root)}
Rank(s, v) == Cardinality({w \in s : w < v})

(* "for(int i=0; i<rb->_root->childs_number; ++i)" (rbtree.inl): by_index   *)
(* finds a node for every index below the size, search gives its value that *)
(* same index, which is its place in the order, and a page of the list      *)
(* reads the players in order.  It survives every mix of insertions and     *)
(* deletions, although deletions never repair the tree.  A page is returned *)
(* if players follow it, or if the root has no parent: the test there sets  *)
(* "rb->_root->parent=nullptr" before it goes through the tree.  The server *)
(* does not, and a page with the last player is not returned if the parent  *)
(* of the root is the root's right child.                                   *)
RanksAgree ==
  tree.up =>
    LET keys == Keys(tree)  root == tree.node[tree.root] IN
    /\ size(tree) = Cardinality(keys)
    /\ \A v \in keys :
         /\ search(tree, v)[2] = Rank(keys, v)
         /\ tree.node[by_index(tree.node, Rank(keys, v), tree.root)].value = v
    /\ \A shift \in 0 .. (size(tree) - 1), count \in 1 .. 3 :
         LET page == get_top_hundred(tree, shift, count) IN
         /\ \A i \in DOMAIN page.users :
              page.users[i] \in keys /\ Rank(keys, page.users[i]) = shift + i - 1
         /\ shift + count < size(tree) \/ root.parent = Null => page.returns
         /\ page.returns => shift + count < size(tree) \/ root.parent = Null \/ root.parent # root.right

(* "An implementation of LLRB" (rbtree.h): until the first deletion no red  *)
(* link leans to the right, no two red links follow each other, and all     *)
(* ways down have as many black nodes.                                      *)
Balanced ==
  shrunk = "no" =>
    LET h == tree.node
        IsBelow == Below(h, tree.root)
        black[n \in IsBelow \cup {Null}] ==
          IF n = Null THEN 1 ELSE black[h[n].left] + (IF h[n].color = "black" THEN 1 ELSE 0)
    IN  \A n \in IsBelow :
          /\ ~is_red(h, h[n].right)
          /\ ~(is_red(h, n) /\ is_red(h, h[n].left))
          /\ black[h[n].left] = black[h[n].right]

(* Which values a deletion of v leaves: a value above two others takes the  *)
(* next one with it, and a root that is a leaf and has a stale parent stays.*)
Left(t, v) ==
  LET old   == Keys(t)
      n     == search(t, v)[1]
      above == {t.node[n].left, t.node[n].right} \ {Null}
      next  == {w \in old : w > v /\ Rank(old, w) = Rank(old, v) + 1}
  IN  CASE n = Null \/ (above = {} /\ n = t.root) -> old
        [] Cardinality(above) = 2 -> old \ ({v} \cup next)
        [] OTHER -> old \ {v}

(* Insertions, deletions and changes, in any order, leave the other         *)
(* players' values, except for the one that a deletion is known to lose.    *)
OthersStay ==
  [][\A v \in Values :
       /\ Insert(v) => Keys(tree') = Keys(tree) \cup {v}
       /\ Delete(v) /\ tree'.up => Keys(tree') = Left(tree, v)
       /\ ChangeUser(v) /\ tree'.up => Keys(tree') = Left(tree, v) \cup {v}]_treeVars
=============================================================================
