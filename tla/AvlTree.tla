------------------------------ MODULE AvlTree ------------------------------
(***************************************************************************)
(* avl.cpp as operators on a tree.  A tree is a record with one function   *)
(* per field of AVLNode; None is NULL.  A C++ function that assigns        *)
(* through pointers is an operator that returns the changed tree.  The     *)
(* loops whose end is not obvious (avl_fix, avl_offset) appear as one      *)
(* iteration, which the module that uses them repeats.                     *)
(*                                                                         *)
(* avl.cpp writes every rotation twice, mirrored; here a side is a         *)
(* parameter: t[side][n] is n->left or n->right.                           *)
(***************************************************************************)
EXTENDS Integers

CONSTANTS
  Node,      \* the nodes that can be in a tree
  None       \* NULL

Opp(side) == IF side = "left" THEN "right" ELSE "left"

avl_height(t, n) == IF n = None THEN 0 ELSE t.height[n]
avl_cnt(t, n) == IF n = None THEN 0 ELSE t.cnt[n]

avl_init(t, n) ==
  [t EXCEPT !.left[n] = None, !.right[n] = None, !.parent[n] = None,
            !.height[n] = 1, !.cnt[n] = 1]

\* Node objects that no tree has touched yet.
Untouched ==
  LET null == [n \in Node |-> None]
      one == [n \in Node |-> 1]
  IN  [left |-> null, right |-> null, parent |-> null, height |-> one, cnt |-> one]

\* The height and cnt fields from those of the children.
avl_update(t, n) ==
  LET l == avl_height(t, t.left[n])
      r == avl_height(t, t.right[n])
  IN  [t EXCEPT !.height[n] = 1 + (IF l < r THEN r ELSE l),
                !.cnt[n] = 1 + avl_cnt(t, t.left[n]) + avl_cnt(t, t.right[n])]

\* if (n) n->parent = p
set_parent(t, n, p) == IF n = None THEN t ELSE [t EXCEPT !.parent[n] = p]

\* rot_left (side = "left") and rot_right: n goes down on that side and its
\* other child takes its place.
rot(t, n, side) ==
  LET new == t[Opp(side)][n]
      inner == t[side][new]
      moved == [set_parent(t, inner, n) EXCEPT
                  ![Opp(side)][n] = inner, !.parent[new] = t.parent[n],
                  ![side][new] = n, !.parent[n] = new]
  IN  avl_update(avl_update(moved, n), new)

\* Faulty variant of avl_fix_side: never a double rotation.
avl_fix_side_single(t, n, side) ==
  [tree |-> rot(t, n, Opp(side)), top |-> t[side][n]]

\* avl_fix_left (side = "left") and avl_fix_right: the subtree on that side is
\* taller by 2.  top is the root of the fixed subtree.
avl_fix_side(t, n, side) ==
  LET child == t[side][n]
      bent == avl_height(t, t[side][child]) < avl_height(t, t[Opp(side)][child])
      mid == IF bent
             THEN [rot(t, child, side) EXCEPT ![side][n] = t[Opp(side)][child]]
             ELSE t
  IN  [tree |-> rot(mid, n, Opp(side)), top |-> mid[side][n]]

\* *from = new, where from is the link of p that holds old.
replace_child(t, p, old, new) ==
  IF p = None THEN t
  ELSE [t EXCEPT ![IF t.left[p] = old THEN "left" ELSE "right"][p] = new]

\* One iteration of avl_fix at n; the next one is at its parent.
avl_fix_step(t, n) ==
  LET p == t.parent[n]
      u == avl_update(t, n)
      l == avl_height(u, u.left[n])
      r == avl_height(u, u.right[n])
      fixed == IF l = r + 2 THEN avl_fix_side(u, n, "left")
               ELSE IF l + 2 = r THEN avl_fix_side(u, n, "right")
               ELSE [tree |-> u, top |-> n]
  IN  [tree |-> replace_child(fixed.tree, p, n, fixed.top), top |-> fixed.top]

\* avl_del_easy up to its call of avl_fix: n has at most one child.
only_child(t, n) == IF t.left[n] # None THEN t.left[n] ELSE t.right[n]

avl_detach(t, n) ==
  LET child == only_child(t, n)
  IN  replace_child(set_parent(t, child, t.parent[n]), t.parent[n], n, child)

\* The loop of avl_del that finds the successor.
leftmost(t, n) ==
  LET walk[m \in Node] == IF t.left[m] = None THEN m ELSE walk[t.left[m]]
  IN  walk[n]

\* The end of avl_del: the successor takes the links of the node.  Its height
\* and cnt stay what they were at its old place.
avl_swap(t, n, victim) ==
  LET links == [t EXCEPT !.left[victim] = t.left[n], !.right[victim] = t.right[n],
                         !.parent[victim] = t.parent[n]]
      below == set_parent(set_parent(links, t.left[n], victim), t.right[n], victim)
  IN  replace_child(below, t.parent[n], n, victim)

\* Faulty variant of up_pos: going up, the node itself is not counted.
up_pos_short(t, n, pos) ==
  IF t.right[t.parent[n]] = n THEN pos - avl_cnt(t, t.left[n])
  ELSE pos + avl_cnt(t, t.right[n])

\* The position of the parent of a node that is at pos.
up_pos(t, n, pos) ==
  IF t.right[t.parent[n]] = n THEN pos - avl_cnt(t, t.left[n]) - 1
  ELSE pos + avl_cnt(t, t.right[n]) + 1

\* Faulty variant of in_right: off by one at the end of the right subtree.
in_right_strict(t, n, pos, offset) ==
  pos < offset /\ pos + avl_cnt(t, t.right[n]) > offset

\* The target is inside the right subtree; the left one.
in_right(t, n, pos, offset) ==
  pos < offset /\ pos + avl_cnt(t, t.right[n]) >= offset

in_left(t, n, pos, offset) ==
  pos > offset /\ pos - avl_cnt(t, t.left[n]) <= offset

\* One iteration of avl_offset, while pos # offset.
avl_offset_step(t, n, pos, offset) ==
  LET l == t.left[n]
      r == t.right[n]
  IN  IF in_right(t, n, pos, offset)
      THEN [node |-> r, pos |-> pos + avl_cnt(t, t.left[r]) + 1]
      ELSE IF in_left(t, n, pos, offset)
      THEN [node |-> l, pos |-> pos - avl_cnt(t, t.right[l]) - 1]
      ELSE IF t.parent[n] = None THEN [node |-> None, pos |-> offset]
      ELSE [node |-> t.parent[n], pos |-> up_pos(t, n, pos)]
=============================================================================
