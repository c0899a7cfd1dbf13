----------------------------- MODULE ZSetProofs -----------------------------
(***************************************************************************)
(* Machine-checked proofs about ZSet, for any set of names, scores and     *)
(* members.                                                                *)
(*                                                                         *)
(* A tree is described by a function S that gives each node the set of the *)
(* nodes below it, itself included (TreeAt).  Every operation of avl.cpp   *)
(* comes with what it makes of S: a rotation, an attached leaf, a detached *)
(* node, a node that another takes the place of.  TreeInv says which nodes *)
(* are in the tree between the steps of an update.                         *)
(*                                                                         *)
(* The heights and counts come second (BalanceInv): they are right for     *)
(* every node but the one where avl_fix stands, whose parent goes by the   *)
(* height it had (Near).  With right counts every step of avl_offset keeps *)
(* the place of its target in the order (QueryInv).                        *)
(***************************************************************************)
EXTENDS ZSet, TLAPS, WellFoundedInduction, FiniteSetTheorems

\* Every non-empty set of natural numbers has a least element.
LEMMA LeastNat ==
  ASSUME NEW S \in SUBSET Nat, S # {}
  PROVE  \E m \in S : \A k \in S : m <= k
<1>1. PICK m \in S : \A k \in S : ~(<<k, m>> \in OpToRel(<, Nat))
  BY NatLessThanWellFounded, WFMin, Zenon
<1>2. ASSUME NEW k \in S PROVE m <= k
  <2>1. ~(<<k, m>> \in OpToRel(<, Nat))
    BY <1>1, Zenon
  <2>2. ~(k < m)
    BY <2>1 DEF OpToRel
  <2> QED
    BY <2>2
<1> QED
  BY <1>2

\* Induction: what holds at 0 and passes to the next number holds everywhere.
LEMMA Induction ==
  ASSUME NEW S \in SUBSET Nat, 0 \in S, \A n \in Nat : n \in S => n + 1 \in S
  PROVE  S = Nat
<1> SUFFICES ASSUME Nat \ S # {} PROVE FALSE
  OBVIOUS
<1>1. PICK m \in Nat \ S : \A k \in Nat \ S : m <= k
  <2>1. Nat \ S \in SUBSET Nat
    OBVIOUS
  <2> QED BY <2>1, LeastNat
<1>2. m - 1 \in Nat /\ m - 1 \in S
  BY <1>1
<1> QED BY <1>2

\* Induction up to a bound.
LEMMA InductionUpTo ==
  ASSUME NEW N \in Nat, NEW S, 0 \in S, \A n \in 0 .. N - 1 : n \in S => n + 1 \in S
  PROVE  \A n \in 0 .. N : n \in S
<1> DEFINE T == {n \in Nat : n <= N => n \in S}
<1>1. T \in SUBSET Nat /\ 0 \in T
  OBVIOUS
<1>2. \A n \in Nat : n \in T => n + 1 \in T
  OBVIOUS
<1>3. T = Nat
  <2> HIDE DEF T
  <2> QED BY <1>1, <1>2, Induction
<1> QED BY <1>3

Side == {"left", "right"}

TreeType(t) ==
  t \in [left : [Node -> Ptr], right : [Node -> Ptr], parent : [Node -> Ptr],
         height : [Node -> Nat], cnt : [Node -> Nat]]

ScoreType(sc) == sc \in [Node -> Int]

-----------------------------------------------------------------------------
(* The order of the members *)

Before(sc, a, b) == zless(sc, a, sc[b], b)

LEMMA Order ==
  ASSUME NEW sc, ScoreType(sc), NEW a \in Node, NEW b \in Node
  PROVE  /\ ~Before(sc, a, a)
         /\ Before(sc, a, b) => ~Before(sc, b, a) /\ a # b
         /\ a # b => Before(sc, a, b) \/ Before(sc, b, a)
         /\ \A c \in Node : Before(sc, a, b) /\ Before(sc, b, c) => Before(sc, a, c)
BY ZSetConstants DEF Before, zless, ScoreType

\* Where m is to be, seen from n.
OnSide(sc, m, n, s) == IF s = "left" THEN Before(sc, m, n) ELSE Before(sc, n, m)

LEMMA Sides ==
  ASSUME NEW sc, ScoreType(sc), NEW a \in Node, NEW b \in Node, NEW s \in Side
  PROVE  /\ ~OnSide(sc, a, a, s) /\ Opp(s) \in Side /\ Opp(Opp(s)) = s
         /\ OnSide(sc, a, b, Opp(s)) <=> OnSide(sc, b, a, s)
         /\ OnSide(sc, a, b, s) => ~OnSide(sc, a, b, Opp(s))
         /\ a # b => OnSide(sc, a, b, s) \/ OnSide(sc, a, b, Opp(s))
         /\ \A c \in Node : OnSide(sc, a, b, s) /\ OnSide(sc, b, c, s) => OnSide(sc, a, c, s)
BY Order DEF OnSide, Side, Opp

-----------------------------------------------------------------------------
(* Trees *)

\* The members M hang from r in t: S[n] are the nodes below n, and n.
TreeAt(t, r, M, S, sc) ==
  /\ M \subseteq Node /\ r \in Ptr
  /\ S \in [Ptr -> SUBSET Node] /\ S[None] = {} /\ S[r] = M
  /\ r # None => r \in M /\ t.parent[r] = None
  /\ \A n \in M :
       /\ S[n] \subseteq M
       /\ S[n] = {n} \cup S[t.left[n]] \cup S[t.right[n]]
       /\ \A s \in Side :
            /\ t[s][n] # None => t[s][n] \in M /\ t.parent[t[s][n]] = n
            /\ \A m \in S[t[s][n]] : OnSide(sc, m, n, s)

\* A node and what is below it.
LEMMA Below ==
  ASSUME NEW t, TreeType(t), NEW r, NEW M, NEW S, NEW sc, ScoreType(sc),
         TreeAt(t, r, M, S, sc), NEW n \in M
  PROVE  /\ n \in Node /\ n \in S[n] /\ S[n] \subseteq M
         /\ n \notin S[t.left[n]] /\ n \notin S[t.right[n]]
         /\ S[t.left[n]] \cap S[t.right[n]] = {}
         /\ \A s \in Side : /\ t[s][n] \in Ptr /\ S[t[s][n]] \subseteq S[n]
                            /\ n \notin S[t[s][n]]
                            /\ t[s][n] # None =>
                                 /\ t[s][n] \in M /\ t.parent[t[s][n]] = n
                                 /\ t[s][n] \in S[t[s][n]]
                                 /\ t[Opp(s)][n] # t[s][n]
<1>1. n \in Node /\ n \in S[n] /\ S[n] \subseteq M
  BY DEF TreeAt
<1>2. \A m \in M : m \in S[m]
  BY DEF TreeAt
<1>3. S[t.left[n]] \subseteq Node /\ S[t.right[n]] \subseteq Node
  BY DEF TreeAt
<1>4. n \notin S[t.left[n]] /\ n \notin S[t.right[n]]
  BY <1>1, Order DEF TreeAt, OnSide, Side
<1>5. S[t.left[n]] \cap S[t.right[n]] = {}
  <2> SUFFICES ASSUME NEW m \in Node, m \in S[t.left[n]], m \in S[t.right[n]] PROVE FALSE
    BY <1>3
  <2> QED BY <1>1, Order DEF TreeAt, OnSide, Side
<1>6. ASSUME NEW s \in Side
      PROVE  /\ t[s][n] \in Ptr /\ S[t[s][n]] \subseteq S[n]
             /\ n \notin S[t[s][n]]
             /\ t[s][n] # None =>
                  /\ t[s][n] \in M /\ t.parent[t[s][n]] = n
                  /\ t[s][n] \in S[t[s][n]]
                  /\ t[Opp(s)][n] # t[s][n]
  <2>1. t[s][n] \in Ptr
    BY <1>1 DEF TreeType, Side
  <2>2. S[t[s][n]] \subseteq S[n] /\ n \notin S[t[s][n]]
    BY <1>4 DEF TreeAt, Side
  <2>3. t[s][n] # None => t[s][n] \in M /\ t.parent[t[s][n]] = n
    BY DEF TreeAt
  <2>4. ASSUME t[s][n] # None PROVE t[Opp(s)][n] # t[s][n]
    BY <1>2, <1>5, <2>3, <2>4 DEF Opp, Side
  <2> QED BY <1>2, <2>1, <2>2, <2>3, <2>4
<1> QED BY <1>1, <1>4, <1>5, <1>6
\* A shorter way to state the lemmas below.
IsTree(t, r, M, S, sc) == TreeType(t) /\ ScoreType(sc) /\ TreeAt(t, r, M, S, sc)

\* The trees below the children are smaller.
LEMMA Shrinks ==
  ASSUME NEW t, NEW r, NEW M, NEW S, NEW sc, IsTree(t, r, M, S, sc), NEW n \in M
  PROVE  /\ IsFiniteSet(S[n]) /\ Cardinality(S[n]) \in Nat
         /\ Cardinality(S[n]) <= Cardinality(Node)
         /\ \A s \in Side : t[s][n] # None => Cardinality(S[t[s][n]]) < Cardinality(S[n])
<1>1. S[n] \subseteq Node
  BY DEF IsTree, TreeAt
<1>2. IsFiniteSet(S[n]) /\ Cardinality(S[n]) <= Cardinality(Node)
  BY <1>1, FS_Subset, ZSetConstants
<1>3. Cardinality(S[n]) \in Nat
  BY <1>2, FS_CardinalityType
<1>4. ASSUME NEW s \in Side, t[s][n] # None
      PROVE  Cardinality(S[t[s][n]]) < Cardinality(S[n])
  <2>1. S[t[s][n]] \subseteq S[n] /\ S[t[s][n]] # S[n]
    BY Below DEF IsTree
  <2>2. /\ IsFiniteSet(S[t[s][n]]) /\ Cardinality(S[t[s][n]]) <= Cardinality(S[n])
        /\ Cardinality(S[t[s][n]]) # Cardinality(S[n])
    BY <1>2, <2>1, FS_Subset
  <2>3. Cardinality(S[t[s][n]]) \in Nat
    BY <2>2, FS_CardinalityType
  <2> QED BY <1>3, <2>2, <2>3
<1> QED BY <1>2, <1>3, <1>4

\* Among some members there is one with a smallest tree.
LEMMA Smallest ==
  ASSUME NEW t, NEW r, NEW M, NEW S, NEW sc, IsTree(t, r, M, S, sc),
         NEW X \in SUBSET M, X # {}
  PROVE  \E b \in X : \A s \in Side : t[s][b] \notin X
<1> DEFINE C == {Cardinality(S[b]) : b \in X}
<1>1. C \in SUBSET Nat /\ C # {}
  BY Shrinks
<1>2. PICK m \in C : \A k \in C : m <= k
  <2> HIDE DEF C
  <2> QED BY <1>1, LeastNat
<1>3. PICK b \in X : m = Cardinality(S[b])
  BY <1>2
<1>4. ASSUME NEW s \in Side, t[s][b] \in X PROVE FALSE
  <2>1. t[s][b] # None
    BY <1>4, ZSetConstants DEF IsTree, TreeAt
  <2>2. Cardinality(S[t[s][b]]) < Cardinality(S[b])
    BY <2>1, Shrinks
  <2>3. Cardinality(S[b]) <= Cardinality(S[t[s][b]])
    BY <1>2, <1>3, <1>4
  <2>4. b \in M /\ t[s][b] \in M
    BY <1>4
  <2>5. Cardinality(S[b]) \in Nat /\ Cardinality(S[t[s][b]]) \in Nat
    BY <2>4, Shrinks
  <2> QED BY <2>2, <2>3, <2>5
<1> QED BY <1>4

\* What is below a node below n is below n.
LEMMA Nested ==
  ASSUME NEW t, NEW r, NEW M, NEW S, NEW sc, IsTree(t, r, M, S, sc)
  PROVE  \A n \in M : \A a \in S[n] : a \in M /\ S[a] \subseteq S[n]
<1> DEFINE X == {n \in M : ~(\A a \in S[n] : S[a] \subseteq S[n])}
<1>1. ASSUME X # {} PROVE FALSE
  <2>1. PICK n \in X : \A s \in Side : t[s][n] \notin X
    BY <1>1, Smallest
  <2>2. PICK a \in S[n] : ~(S[a] \subseteq S[n])
    BY <2>1
  <2>3. a # n
    BY <2>2
  <2>4. PICK s \in Side : a \in S[t[s][n]]
    BY <2>3 DEF IsTree, TreeAt, Side
  <2>5. t[s][n] # None
    BY <2>4 DEF IsTree, TreeAt
  <2>6. t[s][n] \in M /\ S[t[s][n]] \subseteq S[n]
    BY <2>5, Below DEF IsTree
  <2>7. S[a] \subseteq S[t[s][n]]
    BY <2>1, <2>4, <2>6
  <2> QED BY <2>2, <2>6, <2>7
<1>2. \A n \in M : S[n] \subseteq M
  BY DEF IsTree, TreeAt
<1> QED BY <1>1, <1>2

\* A node that is not the root of the tree has its parent in it.
LEMMA Parents ==
  ASSUME NEW t, NEW r, NEW M, NEW S, NEW sc, IsTree(t, r, M, S, sc),
         NEW a \in M, NEW n \in S[a], n # a
  PROVE  /\ t.parent[n] \in M /\ t.parent[n] \in S[a] /\ n \in M
         /\ \E s \in Side : t[s][t.parent[n]] = n
<1> DEFINE X == {b \in S[a] : n \in S[b] /\ b # n}
<1>1. n \in M /\ X \subseteq M /\ a \in X
  BY Below, Nested DEF IsTree
<1>2. PICK b \in X : \A s \in Side : t[s][b] \notin X
  BY <1>1, Smallest
<1>3. PICK s \in Side : n \in S[t[s][b]]
  BY <1>1, <1>2 DEF IsTree, TreeAt, Side
<1>4. t[s][b] # None
  BY <1>3 DEF IsTree, TreeAt
<1>5. t[s][b] \in M /\ t.parent[t[s][b]] = b /\ t[s][b] \in S[b]
  BY <1>1, <1>2, <1>4, Below DEF IsTree
<1>6. t[s][b] \in S[a]
  BY <1>2, <1>5, Nested
<1>7. t[s][b] = n
  BY <1>2, <1>3, <1>6
<1> QED BY <1>1, <1>2, <1>5, <1>7

\* The root has no parent, and only the root.
LEMMA RootOnly ==
  ASSUME NEW t, NEW r, NEW M, NEW S, NEW sc, IsTree(t, r, M, S, sc), NEW n \in M
  PROVE  /\ r \in M /\ n \in S[r]
         /\ t.parent[n] = None <=> n = r
         /\ t.parent[n] # None => /\ t.parent[n] \in M /\ n # t.parent[n]
                                  /\ n \in S[t.parent[n]]
                                  /\ \E s \in Side : t[s][t.parent[n]] = n
<1>1. r \in M /\ n \in S[r] /\ t.parent[r] = None
  BY DEF IsTree, TreeAt
<1>2. None \notin M
  BY ZSetConstants DEF IsTree, TreeAt
<1>3. ASSUME n # r PROVE /\ t.parent[n] \in M /\ n # t.parent[n] /\ n \in S[t.parent[n]]
                         /\ \E s \in Side : t[s][t.parent[n]] = n
  <2>1. PICK s \in Side : t.parent[n] \in M /\ t[s][t.parent[n]] = n
    BY <1>1, <1>3, Parents
  <2> QED BY <1>2, <2>1, Below DEF IsTree
<1> QED BY <1>1, <1>2, <1>3

\* Of two members one is below the other, or they are on two sides of a third.
LEMMA Apart ==
  ASSUME NEW t, NEW r, NEW M, NEW S, NEW sc, IsTree(t, r, M, S, sc),
         NEW a \in M, NEW m \in M
  PROVE  \/ a \in S[m] \/ m \in S[a]
         \/ \E b \in M : \/ a \in S[t.left[b]] /\ m \in S[t.right[b]]
                         \/ m \in S[t.left[b]] /\ a \in S[t.right[b]]
<1> DEFINE X == {b \in M : a \in S[b] /\ m \in S[b]}
<1>1. r \in X
  BY RootOnly
<1>2. PICK b \in X : \A s \in Side : t[s][b] \notin X
  BY <1>1, Smallest
<1>3. b \in M /\ S[b] = {b} \cup S[t.left[b]] \cup S[t.right[b]]
  BY <1>2 DEF IsTree, TreeAt
<1>4. ASSUME NEW s \in Side, a \in S[t[s][b]], m \in S[t[s][b]] PROVE FALSE
  <2>1. t[s][b] # None
    BY <1>4 DEF IsTree, TreeAt
  <2>2. t[s][b] \in M
    BY <1>3, <2>1, Below DEF IsTree
  <2> QED BY <1>2, <1>4, <2>2
<1>5. \/ a = b \/ m = b
      \/ a \in S[t.left[b]] /\ m \in S[t.right[b]]
      \/ m \in S[t.left[b]] /\ a \in S[t.right[b]]
  BY <1>2, <1>3, <1>4 DEF Side
<1> QED BY <1>2, <1>3, <1>5

-----------------------------------------------------------------------------
(* Changes of the links *)

SameLinks(t, u) == u.left = t.left /\ u.right = t.right /\ u.parent = t.parent

LEMMA SameTree ==
  ASSUME NEW t, NEW u, NEW r, NEW M, NEW S, NEW sc, IsTree(t, r, M, S, sc),
         TreeType(u), SameLinks(t, u)
  PROVE  IsTree(u, r, M, S, sc)
<1>1. \A s \in Side : u[s] = t[s]
  BY DEF SameLinks, Side
<1> QED BY <1>1 DEF IsTree, TreeAt, SameLinks

\* One assignment to a link.
ChildSet(t, s, m, n) == [t EXCEPT ![s][m] = n]
ParentSet(t, m, p) == [t EXCEPT !.parent[m] = p]

LEMMA SetChild ==
  ASSUME NEW t, TreeType(t), NEW s \in Side, NEW m \in Node, NEW n \in Ptr
  PROVE  LET u == ChildSet(t, s, m, n)
         IN  /\ TreeType(u) /\ u.parent = t.parent
             /\ \A o \in Side, a \in Node : u[o][a] = IF a = m /\ o = s THEN n ELSE t[o][a]
<1>1. PICK u : u = ChildSet(t, s, m, n)
  OBVIOUS
<1>2. CASE s = "left"
  <2>1. u = [t EXCEPT !.left[m] = n]
    BY <1>1, <1>2 DEF ChildSet
  <2>2. TreeType(u) /\ u.parent = t.parent /\ u.right = t.right
        /\ u.left = [t.left EXCEPT ![m] = n]
    BY <2>1 DEF TreeType
  <2> QED BY <1>1, <1>2, <2>2 DEF TreeType, Side
<1>3. CASE s = "right"
  <2>1. u = [t EXCEPT !.right[m] = n]
    BY <1>1, <1>3 DEF ChildSet
  <2>2. TreeType(u) /\ u.parent = t.parent /\ u.left = t.left
        /\ u.right = [t.right EXCEPT ![m] = n]
    BY <2>1 DEF TreeType
  <2> QED BY <1>1, <1>3, <2>2 DEF TreeType, Side
<1> QED BY <1>2, <1>3 DEF Side

LEMMA SetParent ==
  ASSUME NEW t, TreeType(t), NEW m \in Node, NEW p \in Ptr
  PROVE  LET u == ParentSet(t, m, p)
         IN  /\ TreeType(u) /\ u.left = t.left /\ u.right = t.right
             /\ \A a \in Node : u.parent[a] = IF a = m THEN p ELSE t.parent[a]
<1>1. PICK u : u = ParentSet(t, m, p)
  OBVIOUS
<1>2. u = [t EXCEPT !.parent[m] = p]
  BY <1>1 DEF ParentSet
<1>3. TreeType(u) /\ u.left = t.left /\ u.right = t.right
      /\ u.parent = [t.parent EXCEPT ![m] = p]
  BY <1>2 DEF TreeType
<1> QED BY <1>1, <1>3 DEF TreeType

LEMMA UpdateLinks ==
  ASSUME NEW t, TreeType(t), NEW n \in Node
  PROVE  TreeType(avl_update(t, n)) /\ SameLinks(t, avl_update(t, n))
<1>1. t.left[n] \in Ptr /\ t.right[n] \in Ptr
  BY DEF TreeType
<1>2. \A c \in Ptr : avl_height(t, c) \in Nat /\ avl_cnt(t, c) \in Nat
  BY DEF TreeType, avl_height, avl_cnt, Ptr
<1>3. /\ 1 + (IF avl_height(t, t.left[n]) < avl_height(t, t.right[n])
              THEN avl_height(t, t.right[n]) ELSE avl_height(t, t.left[n])) \in Nat
      /\ 1 + avl_cnt(t, t.left[n]) + avl_cnt(t, t.right[n]) \in Nat
  BY <1>1, <1>2
<1>4. PICK a \in Nat, b \in Nat :
        avl_update(t, n) = [t EXCEPT !.height[n] = a, !.cnt[n] = b]
  BY <1>3 DEF avl_update
<1>5. PICK u : u = [t EXCEPT !.height[n] = a, !.cnt[n] = b]
  OBVIOUS
<1>6. TreeType(u)
  BY <1>5 DEF TreeType
<1>7. SameLinks(t, u)
  BY <1>5 DEF TreeType, SameLinks
<1> QED BY <1>4, <1>5, <1>6, <1>7

\* The links that rot leaves: n has gone down on its side, its other child is
\* in its place, but the parent still leads to n.
Turned(t, n, side, u) ==
  LET new == t[Opp(side)][n]
      inner == t[side][new]
  IN  /\ u[side] = [t[side] EXCEPT ![new] = n]
      /\ u[Opp(side)] = [t[Opp(side)] EXCEPT ![n] = inner]
      /\ \A m \in Node :
           u.parent[m] = IF m = n THEN new
                         ELSE IF m = new THEN t.parent[n]
                         ELSE IF m = inner THEN n ELSE t.parent[m]

LEMMA RotLinks ==
  ASSUME NEW t, TreeType(t), NEW n \in Node, NEW side \in Side, NEW new \in Node,
         new = t[Opp(side)][n], new # n, t[side][new] # n, t[side][new] # new
  PROVE  TreeType(rot(t, n, side)) /\ Turned(t, n, side, rot(t, n, side))
<1>1. PICK inner \in Ptr : inner = t[side][new]
  BY DEF TreeType, Side
<1>2. PICK v : v = set_parent(t, inner, n)
  OBVIOUS
<1>3. /\ TreeType(v) /\ v.left = t.left /\ v.right = t.right
      /\ \A m \in Node : v.parent[m] = IF m = inner THEN n ELSE t.parent[m]
  BY <1>2, ZSetConstants DEF set_parent, TreeType, Ptr
<1>4. PICK w : w = [v EXCEPT ![Opp(side)][n] = inner, !.parent[new] = t.parent[n],
                             ![side][new] = n, !.parent[n] = new]
  OBVIOUS
<1>5. TreeType(w) /\ Turned(t, n, side, w)
  <2>1. t.parent[n] \in Ptr /\ new \in Ptr /\ n \in Ptr
    BY DEF TreeType, Ptr
  <2>2. CASE side = "left"
    BY <1>1, <1>3, <1>4, <2>1, <2>2 DEF TreeType, Turned, Opp
  <2>3. CASE side = "right"
    BY <1>1, <1>3, <1>4, <2>1, <2>3 DEF TreeType, Turned, Opp
  <2> QED BY <2>2, <2>3 DEF Side
<1>6. rot(t, n, side) = avl_update(avl_update(w, n), new)
  BY <1>1, <1>2, <1>4 DEF rot
<1>7. TreeType(avl_update(w, n)) /\ SameLinks(w, avl_update(w, n))
  BY <1>5, UpdateLinks
<1>8. /\ TreeType(avl_update(avl_update(w, n), new))
      /\ SameLinks(avl_update(w, n), avl_update(avl_update(w, n), new))
  BY <1>7, UpdateLinks
<1>9. PICK u : u = rot(t, n, side)
  OBVIOUS
<1>10. TreeType(u) /\ \A s \in Side : u[s] = w[s] /\ u.parent = w.parent
  BY <1>6, <1>7, <1>8, <1>9 DEF SameLinks, Side
<1>11. side \in Side /\ Opp(side) \in Side
  BY DEF Side, Opp
<1> QED BY <1>5, <1>9, <1>10, <1>11 DEF Turned

\* The whole rotation: with the link that leads to n.
Rotated(t, n, side) == replace_child(rot(t, n, side), t.parent[n], n, t[Opp(side)][n])

\* What is below every node after it.
RotatedBelow(t, S, n, side) ==
  LET new == t[Opp(side)][n]
  IN  [S EXCEPT ![n] = {n} \cup S[t[side][n]] \cup S[t[side][new]], ![new] = S[n]]

LEMMA ReplaceChild ==
  ASSUME NEW t, TreeType(t), NEW p \in Ptr, NEW old \in Ptr, NEW new \in Ptr,
         NEW u, u = replace_child(t, p, old, new),
         p # None => t.left[p] = old \/ t.right[p] = old,
         p # None => t.left[p] # t.right[p]
  PROVE  /\ TreeType(u) /\ u.parent = t.parent
         /\ \A s \in Side, m \in Node :
              u[s][m] = IF m = p /\ t[s][p] = old THEN new ELSE t[s][m]
<1>1. CASE p = None
  BY <1>1, ZSetConstants DEF replace_child, Side, TreeType
<1>2. CASE p # None /\ t.left[p] = old
  BY <1>2 DEF replace_child, Side, TreeType, Ptr
<1>3. CASE p # None /\ t.left[p] # old
  BY <1>3 DEF replace_child, Side, TreeType, Ptr
<1> QED BY <1>1, <1>2, <1>3

LEMMA RotatedLinks ==
  ASSUME NEW t, NEW r, NEW M, NEW S, NEW sc, IsTree(t, r, M, S, sc),
         NEW n \in M, NEW side \in Side, t[Opp(side)][n] # None
  PROVE  LET u == Rotated(t, n, side)
             new == t[Opp(side)][n]
             inner == t[side][new]
         IN  /\ TreeType(u) /\ new \in M /\ new # n /\ inner # n /\ inner # new
             /\ t.parent[n] # n /\ t.parent[n] # new
             /\ \A m \in Node :
                  /\ u[side][m] = IF m = new THEN n
                                  ELSE IF m = t.parent[n] /\ t[side][m] = n THEN new
                                  ELSE t[side][m]
                  /\ u[Opp(side)][m] = IF m = n THEN inner
                                       ELSE IF m = t.parent[n] /\ t[Opp(side)][m] = n THEN new
                                       ELSE t[Opp(side)][m]
                  /\ u.parent[m] = IF m = n THEN new
                                   ELSE IF m = new THEN t.parent[n]
                                   ELSE IF m = inner THEN n ELSE t.parent[m]
<1>1. Opp(side) \in Side /\ Opp(Opp(side)) = side /\ side # Opp(side)
  BY DEF Side, Opp
<1>2. PICK new \in M : new = t[Opp(side)][n]
  BY <1>1, Below DEF IsTree
<1>3. new \in Node /\ n \in Node /\ TreeType(t)
  BY <1>2, Below DEF IsTree
<1>4. new # n /\ n \notin S[new] /\ new \in S[n]
  BY <1>1, <1>2, Below DEF IsTree
<1>5. t[side][new] # n /\ t[side][new] # new
  BY <1>2, <1>4, Below DEF IsTree
<1>6. t.parent[n] # n /\ t.parent[n] # new
  <2>1. CASE t.parent[n] = None
    BY <1>3, <2>1, ZSetConstants
  <2>2. CASE t.parent[n] # None
    <3>1. n \in S[t.parent[n]] /\ t.parent[n] # n
      BY <2>2, RootOnly
    <3> QED BY <1>4, <3>1
  <2> QED BY <2>1, <2>2
<1>7. PICK v : v = rot(t, n, side)
  OBVIOUS
<1>8. TreeType(v) /\ Turned(t, n, side, v)
  BY <1>2, <1>3, <1>4, <1>5, <1>7, RotLinks
<1>9. PICK p \in Ptr : p = t.parent[n]
  BY <1>3 DEF TreeType
<1>10. /\ v[side] = [t[side] EXCEPT ![new] = n]
       /\ v[Opp(side)] = [t[Opp(side)] EXCEPT ![n] = t[side][new]]
       /\ \A m \in Node :
           v.parent[m] = IF m = n THEN new
                         ELSE IF m = new THEN t.parent[n]
                         ELSE IF m = t[side][new] THEN n ELSE t.parent[m]
  BY <1>2, <1>8 DEF Turned
<1>11. t[side] \in [Node -> Ptr] /\ t[Opp(side)] \in [Node -> Ptr]
  BY <1>1, <1>3 DEF TreeType, Side
<1>12. \A m \in Node :
         /\ v[side][m] = IF m = new THEN n ELSE t[side][m]
         /\ v[Opp(side)][m] = IF m = n THEN t[side][new] ELSE t[Opp(side)][m]
  BY <1>10, <1>11
<1>13. p # None => p \in Node /\ \A s \in Side : v[s][p] = t[s][p]
  <2>1. p # None => p \in Node
    BY DEF Ptr
  <2> QED BY <1>1, <1>6, <1>9, <1>12, <2>1 DEF Side
<1>14. p # None => (v.left[p] = n \/ v.right[p] = n) /\ v.left[p] # v.right[p]
  <2> SUFFICES ASSUME p # None
               PROVE  (v.left[p] = n \/ v.right[p] = n) /\ v.left[p] # v.right[p]
    OBVIOUS
  <2>1. p \in M /\ \E s \in Side : t[s][p] = n
    BY <1>9, RootOnly
  <2>2. t.left[p] # t.right[p]
    BY <1>3, <2>1, Below, ZSetConstants DEF IsTree, Side, Opp
  <2> QED BY <1>13, <2>1, <2>2 DEF Side
<1>15. PICK u : u = replace_child(v, p, n, new)
  OBVIOUS
<1>16. /\ TreeType(u) /\ u.parent = v.parent
       /\ \A s \in Side, m \in Node :
            u[s][m] = IF m = p /\ v[s][p] = n THEN new ELSE v[s][m]
  <2>1. n \in Ptr /\ new \in Ptr
    BY <1>3 DEF Ptr
  <2> QED BY <1>8, <1>14, <1>15, <2>1, ReplaceChild
<1>17. u = Rotated(t, n, side)
  BY <1>2, <1>7, <1>9, <1>15 DEF Rotated
<1>18. ASSUME NEW m \in Node
       PROVE  /\ u[side][m] = IF m = new THEN n
                              ELSE IF m = p /\ t[side][m] = n THEN new ELSE t[side][m]
              /\ u[Opp(side)][m] = IF m = n THEN t[side][new]
                                   ELSE IF m = p /\ t[Opp(side)][m] = n THEN new
                                   ELSE t[Opp(side)][m]
              /\ u.parent[m] = IF m = n THEN new
                               ELSE IF m = new THEN p
                               ELSE IF m = t[side][new] THEN n ELSE t.parent[m]
  <2>1. /\ u[side][m] = IF m = p /\ v[side][p] = n THEN new ELSE v[side][m]
        /\ u[Opp(side)][m] = IF m = p /\ v[Opp(side)][p] = n THEN new ELSE v[Opp(side)][m]
    BY <1>1, <1>16
  <2>2. u.parent[m] = v.parent[m]
    BY <1>16
  <2>3. m = p => m # None
    BY ZSetConstants
  <2>4. p # n /\ p # new
    BY <1>6, <1>9
  <2> QED BY <1>1, <1>9, <1>10, <1>12, <1>13, <2>1, <2>2, <2>3, <2>4
<1> QED BY <1>2, <1>4, <1>5, <1>6, <1>9, <1>16, <1>17, <1>18

\* A rotation leaves a tree of the same members.
LEMMA RotateTree ==
  ASSUME NEW t, NEW r, NEW M, NEW S, NEW sc, IsTree(t, r, M, S, sc),
         NEW n \in M, NEW side \in Side, t[Opp(side)][n] # None
  PROVE  IsTree(Rotated(t, n, side), IF r = n THEN t[Opp(side)][n] ELSE r, M,
                RotatedBelow(t, S, n, side), sc)
<1>1. Opp(side) \in Side /\ Opp(Opp(side)) = side /\ \A s \in Side : s = side \/ s = Opp(side)
  BY DEF Side, Opp
<1>2. PICK new \in M : new = t[Opp(side)][n]
  BY <1>1, Below DEF IsTree
<1>3. PICK inner \in Ptr : inner = t[side][new]
  BY Below DEF IsTree
<1>4. PICK outer \in Ptr : outer = t[side][n]
  BY Below DEF IsTree
<1>5. PICK p : p = t.parent[n]
  OBVIOUS
<1>6. PICK u : u = Rotated(t, n, side)
  OBVIOUS
<1>7. /\ TreeType(u) /\ new # n /\ inner # n /\ inner # new /\ p # n /\ p # new
      /\ \A m \in M :
           /\ u[side][m] = IF m = new THEN n
                           ELSE IF m = p /\ t[side][m] = n THEN new ELSE t[side][m]
           /\ u[Opp(side)][m] = IF m = n THEN inner
                                ELSE IF m = p /\ t[Opp(side)][m] = n THEN new
                                ELSE t[Opp(side)][m]
           /\ u.parent[m] = IF m = n THEN new
                            ELSE IF m = new THEN p
                            ELSE IF m = inner THEN n ELSE t.parent[m]
  <2>1. M \subseteq Node
    BY DEF IsTree, TreeAt
  <2> QED BY <1>2, <1>3, <1>5, <1>6, <2>1, RotatedLinks
<1>8. M \subseteq Node /\ S \in [Ptr -> SUBSET Node] /\ S[None] = {} /\ None \notin M /\ r \in Ptr
  BY ZSetConstants DEF IsTree, TreeAt
<1>9. PICK S2 : S2 = RotatedBelow(t, S, n, side)
  OBVIOUS
<1>10. S2 = [S EXCEPT ![n] = {n} \cup S[outer] \cup S[inner], ![new] = S[n]]
  BY <1>2, <1>3, <1>4, <1>9 DEF RotatedBelow
<1>11. /\ S2 \in [Ptr -> SUBSET Node] /\ S2[None] = {}
       /\ S2[n] = {n} \cup S[outer] \cup S[inner] /\ S2[new] = S[n]
       /\ \A m \in Ptr : m # n /\ m # new => S2[m] = S[m]
  <2>1. n \in Ptr /\ new \in Ptr /\ None \in Ptr
    BY <1>8 DEF Ptr
  <2> QED BY <1>7, <1>8, <1>10, <2>1
<1>12. /\ S[n] = {n} \cup S[outer] \cup S[new]
       /\ S[new] = {new} \cup S[inner] \cup S[t[Opp(side)][new]]
  BY <1>2, <1>3, <1>4 DEF IsTree, TreeAt, Opp, Side
<1>13. S[n] \subseteq M /\ S[new] \subseteq M
  BY DEF IsTree, TreeAt
<1>14. \A m \in M : m # n => \A s \in Side : t[s][m] # new
  <2>1. t.parent[new] = n
    BY <1>1, <1>2, Below DEF IsTree
  <2> QED BY <1>8, <2>1, Below DEF IsTree
<1>15. \A m \in M, s \in Side : t[s][m] = n => m = p
  BY <1>5, <1>8, Below DEF IsTree
<1>16. ASSUME NEW m \in M, m # n, m # new, NEW s \in Side
       PROVE  /\ S2[u[s][m]] = S[t[s][m]]
              /\ u[s][m] # None => u[s][m] \in M /\ u.parent[u[s][m]] = m
  <2>1. u[s][m] = IF m = p /\ t[s][m] = n THEN new ELSE t[s][m]
    BY <1>1, <1>7, <1>16
  <2>2. t[s][m] # new /\ t[s][m] \in Ptr
    BY <1>14, <1>16, Below DEF IsTree
  <2>3. CASE t[s][m] = n
    <3>1. m = p /\ u[s][m] = new
      BY <1>15, <2>1, <2>3
    <3> QED BY <1>7, <1>11, <2>3, <3>1
  <2>4. CASE t[s][m] # n
    <3>1. u[s][m] = t[s][m] /\ S2[u[s][m]] = S[t[s][m]]
      BY <1>11, <2>1, <2>2, <2>4
    <3>2. ASSUME t[s][m] # None PROVE t[s][m] \in M /\ t.parent[t[s][m]] = m
      BY <3>2, Below DEF IsTree
    <3>3. inner # None => t.parent[inner] = new
      BY <1>3, Below DEF IsTree
    <3>4. ASSUME t[s][m] # None PROVE t[s][m] # inner
      BY <1>16, <3>2, <3>3, <3>4
    <3> QED BY <1>7, <2>2, <2>4, <3>1, <3>2, <3>4
  <2> QED BY <2>3, <2>4
<1>17. ASSUME NEW m \in M
       PROVE  /\ S2[m] \subseteq M
              /\ S2[m] = {m} \cup S2[u.left[m]] \cup S2[u.right[m]]
              /\ \A s \in Side :
                   /\ u[s][m] # None => u[s][m] \in M /\ u.parent[u[s][m]] = m
                   /\ \A k \in S2[u[s][m]] : OnSide(sc, k, m, s)
  <2>0. \A k \in M : k \in Node
    BY <1>8
  <2>1. CASE m # n /\ m # new
    <3>1. m \in Ptr /\ S2[m] = S[m]
      BY <1>8, <1>11, <2>1 DEF Ptr
    <3>2. S2[u.left[m]] = S[t.left[m]] /\ S2[u.right[m]] = S[t.right[m]]
      BY <1>16, <2>1 DEF Side
    <3>3. /\ S[m] \subseteq M /\ S[m] = {m} \cup S[t.left[m]] \cup S[t.right[m]]
          /\ \A s \in Side : \A k \in S[t[s][m]] : OnSide(sc, k, m, s)
      BY DEF IsTree, TreeAt
    <3> QED BY <1>16, <2>1, <3>1, <3>2, <3>3
  <2>2. CASE m = n
    <3>1. u[side][m] = outer /\ u[Opp(side)][m] = inner
      BY <1>4, <1>7, <1>15, <2>2
    <3>2. outer # n /\ outer # new
      BY <1>1, <1>2, <1>4, <1>8, Below DEF IsTree
    <3>3. S2[outer] = S[outer] /\ S2[inner] = S[inner]
      BY <1>7, <1>11, <3>2
    <3>4. S2[m] = {m} \cup S2[u[side][m]] \cup S2[u[Opp(side)][m]]
      BY <1>11, <2>2, <3>1, <3>3
    <3>5. outer # None => outer \in M /\ t.parent[outer] = n
      BY <1>4, Below DEF IsTree
    <3>6. inner # None => inner \in M /\ t.parent[inner] = new
      BY <1>3, Below DEF IsTree
    <3>7. outer # None => u.parent[outer] = n
      BY <1>7, <3>2, <3>5, <3>6
    <3>8. inner # None => u.parent[inner] = n
      BY <1>7, <3>6
    <3>9. \A k \in S[outer] : OnSide(sc, k, n, side)
      BY <1>4 DEF IsTree, TreeAt
    <3>10. \A k \in S[inner] : OnSide(sc, k, n, Opp(side))
      BY <1>1, <1>2, <1>12 DEF IsTree, TreeAt
    <3>11. S2[m] \subseteq M
      BY <1>11, <1>12, <1>13, <2>2
    <3>12. S2[m] = {m} \cup S2[u.left[m]] \cup S2[u.right[m]]
      BY <3>4 DEF Side, Opp
    <3>13. ASSUME NEW s \in Side
           PROVE  /\ u[s][m] # None => u[s][m] \in M /\ u.parent[u[s][m]] = m
                  /\ \A k \in S2[u[s][m]] : OnSide(sc, k, m, s)
      <4>1. CASE s = side
        BY <2>2, <3>1, <3>3, <3>5, <3>7, <3>9, <4>1
      <4>2. CASE s = Opp(side)
        BY <2>2, <3>1, <3>3, <3>6, <3>8, <3>10, <4>2
      <4> QED BY <1>1, <4>1, <4>2
    <3> QED BY <3>11, <3>12, <3>13
  <2>3. CASE m = new
    <3>1. PICK far \in Ptr : far = t[Opp(side)][new]
      BY <1>1, Below DEF IsTree
    <3>2. far # n /\ far # new
      BY <1>1, <1>7, <1>8, <1>15, <3>1, Below DEF IsTree
    <3>3. u[side][m] = n /\ u[Opp(side)][m] = far
      BY <1>7, <2>3, <3>1
    <3>4. S2[far] = S[far]
      BY <1>11, <3>2
    <3>5. S2[m] = {m} \cup S2[u[side][m]] \cup S2[u[Opp(side)][m]]
      BY <1>11, <1>12, <2>3, <3>1, <3>3, <3>4
    <3>6. far # None => far \in M /\ t.parent[far] = new /\ far # inner
      BY <1>1, <1>3, <3>1, Below DEF IsTree
    <3>7. far # None => u.parent[far] = new
      BY <1>7, <3>2, <3>6
    <3>8. u.parent[n] = new
      BY <1>7
    <3>9. \A k \in S[far] : OnSide(sc, k, new, Opp(side))
      BY <1>1, <3>1 DEF IsTree, TreeAt
    <3>10. OnSide(sc, n, new, side)
      <4>1. OnSide(sc, new, n, Opp(side))
        BY <1>1, <1>2, <1>12, Below DEF IsTree, TreeAt
      <4> QED BY <2>0, <4>1, Sides DEF IsTree
    <3>11. \A k \in S[inner] : OnSide(sc, k, new, side)
      BY <1>3 DEF IsTree, TreeAt
    <3>12. \A k \in S[outer] : OnSide(sc, k, new, side)
      <4> SUFFICES ASSUME NEW k \in S[outer] PROVE OnSide(sc, k, new, side)
        OBVIOUS
      <4>1. OnSide(sc, k, n, side) /\ k \in M
        BY <1>4, <1>12, <1>13 DEF IsTree, TreeAt
      <4> QED BY <2>0, <3>10, <4>1, Sides DEF IsTree
    <3>13. S2[m] \subseteq M
      BY <1>11, <1>13, <2>3
    <3>14. S2[m] = {m} \cup S2[u.left[m]] \cup S2[u.right[m]]
      BY <3>5 DEF Side, Opp
    <3>15. ASSUME NEW s \in Side
           PROVE  /\ u[s][m] # None => u[s][m] \in M /\ u.parent[u[s][m]] = m
                  /\ \A k \in S2[u[s][m]] : OnSide(sc, k, m, s)
      <4>1. CASE s = side
        BY <1>11, <2>3, <3>3, <3>8, <3>10, <3>11, <3>12, <4>1
      <4>2. CASE s = Opp(side)
        BY <2>3, <3>3, <3>4, <3>6, <3>7, <3>9, <4>2
      <4> QED BY <1>1, <4>1, <4>2
    <3> QED BY <3>13, <3>14, <3>15
  <2> QED BY <2>1, <2>2, <2>3
<1>18. PICK r2 : r2 = IF r = n THEN new ELSE r
  OBVIOUS
<1>19. /\ r2 \in M /\ r2 \in Ptr /\ S2[r2] = M /\ u.parent[r2] = None
  <2>1. r \in M /\ S[r] = M /\ t.parent[r] = None
    BY RootOnly DEF IsTree, TreeAt
  <2>2. CASE r = n
    BY <1>5, <1>7, <1>8, <1>11, <1>18, <2>1, <2>2 DEF Ptr
  <2>3. CASE r # n
    <3>1. r # new
      <4>1. t.parent[new] = n
        BY <1>1, <1>2, Below DEF IsTree
      <4> QED BY <1>8, <2>1, <4>1
    <3>2. r # inner
      <4>1. inner # None => t.parent[inner] = new
        BY <1>3, Below DEF IsTree
      <4> QED BY <1>8, <2>1, <4>1
    <3> QED BY <1>7, <1>8, <1>11, <1>18, <2>1, <2>3, <3>1, <3>2
  <2> QED BY <2>2, <2>3
<1>20. TreeAt(u, r2, M, S2, sc)
  BY <1>8, <1>11, <1>17, <1>19 DEF TreeAt
<1> QED BY <1>2, <1>6, <1>7, <1>9, <1>18, <1>20 DEF IsTree

-----------------------------------------------------------------------------
(* avl_fix *)

\* The grandchild on the far side is taller: avl_fix_side rotates twice.
Bent(t, n, side) ==
  LET child == t[side][n]
  IN  avl_height(t, t[side][child]) < avl_height(t, t[Opp(side)][child])

\* The tree before the second rotation.
Middle(t, n, side) ==
  IF Bent(t, n, side) THEN Rotated(t, t[side][n], side) ELSE t

LEMMA NoHeight ==
  ASSUME NEW t, TreeType(t), NEW n \in Ptr
  PROVE  avl_height(t, n) \in Nat /\ avl_cnt(t, n) \in Nat
BY DEF avl_height, avl_cnt, TreeType, Ptr

\* Both branches of avl_fix_side, with the link that leads to n, are rotations.
LEMMA FixSideIs ==
  ASSUME NEW t, NEW r, NEW M, NEW S, NEW sc, IsTree(t, r, M, S, sc),
         NEW n \in M, NEW side \in Side, t[side][n] # None,
         NEW mid, mid = Middle(t, n, side),
         NEW f, f = avl_fix_side(t, n, side)
  PROVE  /\ replace_child(f.tree, t.parent[n], n, f.top) = Rotated(mid, n, Opp(side))
         /\ f.top = mid[side][n] /\ mid.parent[n] = t.parent[n]
         /\ mid[side][n] # None
         /\ Bent(t, n, side) => /\ t[side][n] \in M
                                /\ t[Opp(side)][t[side][n]] # None
         /\ \E S2 : IsTree(mid, r, M, S2, sc)
         /\ \A m \in Node \ M, s \in Side : mid[s][m] = t[s][m]
<1>1. Opp(side) \in Side /\ Opp(Opp(side)) = side /\ side # Opp(side)
  BY DEF Side, Opp
<1>2. PICK child \in M : child = t[side][n]
  BY Below DEF IsTree
<1>3. /\ TreeType(t) /\ None \notin M /\ M \subseteq Node
  BY ZSetConstants DEF IsTree, TreeAt
<1>4. t.parent[child] = n /\ child # n /\ child \in S[n] /\ n \notin S[child]
  BY <1>2, Below DEF IsTree
<1>5. CASE ~Bent(t, n, side)
  <2>1. mid = t
    BY <1>5 DEF Middle
  <2>2. f = [tree |-> rot(t, n, Opp(side)), top |-> t[side][n]]
    BY <1>5 DEF avl_fix_side, Bent
  <2> QED BY <1>1, <1>5, <2>1, <2>2 DEF Rotated
<1>6. CASE Bent(t, n, side)
  <2>1. PICK new \in Ptr : new = t[Opp(side)][child]
    BY <1>1, Below DEF IsTree
  <2>2. new # None
    <3>1. avl_height(t, t[side][child]) < avl_height(t, new)
      BY <1>2, <1>6, <2>1 DEF Bent
    <3>2. t[side][child] \in Ptr
      BY Below DEF IsTree
    <3>3. avl_height(t, t[side][child]) \in Nat
      BY <1>3, <3>2, NoHeight
    <3> QED BY <3>1, <3>3 DEF avl_height
  <2>3. mid = Rotated(t, child, side)
    BY <1>2, <1>6 DEF Middle
  <2>4. PICK v : v = rot(t, child, side)
    OBVIOUS
  <2>5. mid = replace_child(v, n, child, new)
    BY <1>4, <2>1, <2>3, <2>4 DEF Rotated
  <2>6. new \in M /\ new # child /\ t[side][new] # child /\ t[side][new] # new /\ new # n
    BY <1>1, <1>4, <2>1, <2>2, RotatedLinks
  <2>7. TreeType(v) /\ Turned(t, child, side, v)
    BY <1>3, <2>1, <2>4, <2>6, RotLinks
  <2>8. v[side][n] = child /\ v[Opp(side)][n] # child
    <3>1. v[side] = [t[side] EXCEPT ![new] = child]
      BY <2>1, <2>7 DEF Turned
    <3>2. v[Opp(side)] = [t[Opp(side)] EXCEPT ![child] = t[side][new]]
      BY <2>1, <2>7 DEF Turned
    <3>3. t[side] \in [Node -> Ptr] /\ t[Opp(side)] \in [Node -> Ptr] /\ n \in Node
      BY <1>1, <1>3 DEF TreeType, Side
    <3>4. t[Opp(side)][n] # child
      BY <1>2, <1>3, Below DEF IsTree
    <3> QED BY <1>2, <1>4, <2>6, <3>1, <3>2, <3>3, <3>4
  <2>9. mid = [v EXCEPT ![side][n] = new]
    <3>1. n # None
      BY <1>3
    <3>2. CASE side = "left"
      BY <2>5, <2>8, <3>1, <3>2 DEF replace_child
    <3>3. CASE side = "right"
      BY <2>5, <2>8, <3>1, <3>3 DEF replace_child, Opp
    <3> QED BY <3>2, <3>3 DEF Side
  <2>10. f = [tree |-> rot(mid, n, Opp(side)), top |-> mid[side][n]]
    BY <1>2, <1>6, <2>1, <2>4, <2>9 DEF avl_fix_side, Bent
  <2>11. \A m \in Node : mid.parent[m] = IF m = child THEN new
                                        ELSE IF m = new THEN n
                                        ELSE IF m = t[side][new] THEN child ELSE t.parent[m]
    BY <1>1, <1>4, <2>1, <2>2, <2>3, RotatedLinks
  <2>12. t[side][new] # n
    <3>1. S[new] \subseteq S[child]
      BY <1>1, <2>1, Below DEF IsTree
    <3>2. t[side][new] = n => n \in S[new]
      BY <1>3, <2>6, Below DEF IsTree
    <3> QED BY <1>4, <3>1, <3>2
  <2>13. mid.parent[n] = t.parent[n]
    BY <1>3, <1>4, <2>6, <2>11, <2>12
  <2>14. mid[side][n] = new
    <3>1. v[side] \in [Node -> Ptr] /\ n \in Node
      BY <1>3, <2>7 DEF TreeType, Side
    <3>2. TreeType(mid) /\ mid[side] = [v[side] EXCEPT ![n] = new]
      BY <1>3, <2>1, <2>7, <2>9 DEF TreeType, Side
    <3> QED BY <3>1, <3>2
  <2>15. IsTree(mid, r, M, RotatedBelow(t, S, child, side), sc)
    <3>1. r # child
      BY <1>3, <1>4, RootOnly
    <3> QED BY <1>1, <2>1, <2>2, <2>3, <3>1, RotateTree
  <2>16. \A m \in Node \ M, s \in Side : mid[s][m] = t[s][m]
    <3>1. \A m \in Node :
            /\ mid[side][m] = IF m = new THEN child
                              ELSE IF m = t.parent[child] /\ t[side][m] = child THEN new
                              ELSE t[side][m]
            /\ mid[Opp(side)][m] = IF m = child THEN t[side][new]
                                   ELSE IF m = t.parent[child] /\ t[Opp(side)][m] = child
                                   THEN new ELSE t[Opp(side)][m]
      BY <1>1, <2>1, <2>2, <2>3, RotatedLinks
    <3> QED BY <1>4, <2>6, <3>1 DEF Side, Opp
  <2>17. replace_child(f.tree, t.parent[n], n, f.top) = Rotated(mid, n, Opp(side))
    BY <1>1, <2>10, <2>13 DEF Rotated
  <2>18. f.top = mid[side][n]
    BY <2>10
  <2> QED BY <1>2, <2>1, <2>2, <2>13, <2>14, <2>15, <2>16, <2>17, <2>18
<1> QED BY <1>5, <1>6

\* One iteration of avl_fix leaves a tree of the same members.
LEMMA FixTree ==
  ASSUME NEW t, NEW r, NEW M, NEW S, NEW sc, IsTree(t, r, M, S, sc), NEW n \in M,
         NEW f, f = avl_fix_step(t, n)
  PROVE  /\ \E S2 : IsTree(f.tree, IF r = n THEN f.top ELSE r, M, S2, sc)
         /\ \A m \in Node \ M, s \in Side : f.tree[s][m] = t[s][m]
         /\ f.top \in M
<1>1. TreeType(t) /\ n \in Node /\ M \subseteq Node
  BY DEF IsTree, TreeAt
<1>2. PICK u : u = avl_update(t, n)
  OBVIOUS
<1>3. TreeType(u) /\ SameLinks(t, u)
  BY <1>1, <1>2, UpdateLinks
<1>4. IsTree(u, r, M, S, sc)
  BY <1>3, SameTree
<1>5. \A m \in Node, s \in Side : u[s][m] = t[s][m]
  BY <1>3 DEF SameLinks, Side
<1>6. PICK p \in Ptr : p = t.parent[n] /\ p = u.parent[n]
  BY <1>1, <1>3 DEF SameLinks, TreeType
<1>7. u.left[n] \in Ptr /\ u.right[n] \in Ptr
  BY <1>1, <1>3 DEF TreeType
<1>8. PICK l \in Nat : l = avl_height(u, u.left[n])
  BY <1>3, <1>7, NoHeight
<1>9. PICK h \in Nat : h = avl_height(u, u.right[n])
  BY <1>3, <1>7, NoHeight
<1>10. ASSUME NEW side \in Side, u[side][n] # None,
              NEW g, g = avl_fix_side(u, n, side),
              f = [tree |-> replace_child(g.tree, p, n, g.top), top |-> g.top]
       PROVE  /\ \E S2 : IsTree(f.tree, IF r = n THEN f.top ELSE r, M, S2, sc)
              /\ \A m \in Node \ M, s \in Side : f.tree[s][m] = t[s][m]
              /\ f.top \in M
  <2>1. PICK mid : mid = Middle(u, n, side)
    OBVIOUS
  <2>2. /\ f.tree = Rotated(mid, n, Opp(side)) /\ f.top = mid[side][n] /\ mid[side][n] # None
        /\ \A m \in Node \ M, s \in Side : mid[s][m] = u[s][m]
    BY <1>4, <1>6, <1>10, <2>1, FixSideIs
  <2>3. PICK S1 : IsTree(mid, r, M, S1, sc)
    BY <1>4, <1>10, <2>1, FixSideIs
  <2>4. Opp(side) \in Side /\ Opp(Opp(side)) = side
    BY DEF Side, Opp
  <2>5. IsTree(f.tree, IF r = n THEN f.top ELSE r, M, RotatedBelow(mid, S1, n, Opp(side)), sc)
    BY <2>2, <2>3, <2>4, RotateTree
  <2>6. f.top \in M /\ M \subseteq Node /\ None \notin M
    BY <2>2, <2>3, Below, ZSetConstants DEF IsTree, TreeAt
  <2>7. \A m \in Node \ M, s \in Side : f.tree[s][m] = mid[s][m]
    <3>1. \A m \in Node :
            /\ f.tree[Opp(side)][m] = IF m = f.top THEN n
                              ELSE IF m = mid.parent[n] /\ mid[Opp(side)][m] = n THEN f.top
                              ELSE mid[Opp(side)][m]
            /\ f.tree[side][m] = IF m = n THEN mid[Opp(side)][f.top]
                                 ELSE IF m = mid.parent[n] /\ mid[side][m] = n THEN f.top
                                 ELSE mid[side][m]
      <4>1. PICK o \in Side : o = Opp(side) /\ Opp(o) = side
        BY <2>4
      <4>2. f.tree = Rotated(mid, n, o) /\ f.top = mid[Opp(o)][n] /\ mid[Opp(o)][n] # None
        BY <2>2, <4>1
      <4> QED BY <2>3, <4>1, <4>2, RotatedLinks
    <3>2. mid.parent[n] # None => mid.parent[n] \in M
      BY <2>3, RootOnly
    <3>3. \A m \in Node : m # None
      BY ZSetConstants
    <3> QED BY <2>6, <3>1, <3>2, <3>3 DEF Side, Opp
  <2> QED BY <1>5, <2>2, <2>5, <2>6, <2>7
<1>11. CASE l = h + 2
  <2>1. PICK g : g = avl_fix_side(u, n, "left")
    OBVIOUS
  <2>2. f = [tree |-> replace_child(g.tree, p, n, g.top), top |-> g.top]
    BY <1>2, <1>6, <1>8, <1>9, <1>11, <2>1 DEF avl_fix_step
  <2>3. u.left[n] # None
    BY <1>8, <1>11 DEF avl_height
  <2> QED BY <1>10, <2>1, <2>2, <2>3 DEF Side
<1>12. CASE l # h + 2 /\ l + 2 = h
  <2>1. PICK g : g = avl_fix_side(u, n, "right")
    OBVIOUS
  <2>2. f = [tree |-> replace_child(g.tree, p, n, g.top), top |-> g.top]
    BY <1>2, <1>6, <1>8, <1>9, <1>12, <2>1 DEF avl_fix_step
  <2>3. u.right[n] # None
    BY <1>9, <1>12 DEF avl_height
  <2> QED BY <1>10, <2>1, <2>2, <2>3 DEF Side
<1>13. CASE l # h + 2 /\ l + 2 # h
  <2>1. f = [tree |-> replace_child(u, p, n, n), top |-> n]
    BY <1>2, <1>6, <1>8, <1>9, <1>13 DEF avl_fix_step
  <2>2. p # None => (u.left[p] = n \/ u.right[p] = n) /\ u.left[p] # u.right[p]
    <3> SUFFICES ASSUME p # None PROVE (u.left[p] = n \/ u.right[p] = n) /\ u.left[p] # u.right[p]
      OBVIOUS
    <3>1. p \in M /\ \E s \in Side : u[s][p] = n
      BY <1>4, <1>6, RootOnly
    <3>2. None \notin M
      BY <1>1, ZSetConstants
    <3> QED BY <1>4, <3>1, <3>2, Below DEF IsTree, Side, Opp
  <2>3. n \in Ptr
    BY <1>1 DEF Ptr
  <2>4. /\ TreeType(f.tree) /\ f.tree.parent = u.parent
        /\ \A s \in Side, m \in Node :
             f.tree[s][m] = IF m = p /\ u[s][p] = n THEN n ELSE u[s][m]
    BY <1>3, <1>6, <2>1, <2>2, <2>3, ReplaceChild
  <2>5. \A s \in Side, m \in Node : f.tree[s][m] = u[s][m]
    BY <2>4
  <2>6. SameLinks(u, f.tree)
    BY <1>3, <2>4, <2>5 DEF SameLinks, TreeType, Side
  <2>7. IsTree(f.tree, r, M, S, sc)
    BY <1>4, <2>4, <2>6, SameTree
  <2> QED BY <1>5, <2>1, <2>5, <2>7
<1> QED BY <1>11, <1>12, <1>13

-----------------------------------------------------------------------------
(* Walks *)

\* f follows next to the end.
Walks(f, next) == f = [m \in Node |-> IF next[m] = None THEN m ELSE f[next[m]]]

\* Every step leads to a smaller rank.
Descends(next, rank, N) ==
  /\ next \in [Node -> Ptr] /\ rank \in [Node -> 0 .. N] /\ N \in Nat
  /\ \A m \in Node : next[m] # None => rank[next[m]] < rank[m]

LEMMA WalkExists ==
  ASSUME NEW next, NEW rank, NEW N, Descends(next, rank, N)
  PROVE  \E f : Walks(f, next)
<1> DEFINE Upto(k, f) == \A m \in Node :
                           rank[m] <= k => f[m] = IF next[m] = None THEN m ELSE f[next[m]]
           T == {k \in 0 .. N : \E f \in [Node -> Node] : Upto(k, f)}
<1>0. N \in Nat /\ \A m \in Node : rank[m] \in 0 .. N /\ next[m] \in Ptr
  BY DEF Descends
<1>1. 0 \in T
  <2> DEFINE g == [m \in Node |-> m]
  <2>1. ASSUME NEW m \in Node, rank[m] <= 0 PROVE next[m] = None
    <3>1. next[m] # None => next[m] \in Node
      BY <1>0 DEF Ptr
    <3> QED BY <1>0, <2>1, <3>1 DEF Descends
  <2>2. g \in [Node -> Node] /\ Upto(0, g)
    BY <2>1
  <2>3. \E f \in [Node -> Node] : Upto(0, f)
    <3> HIDE DEF g, Upto
    <3> QED BY <2>2, Zenon
  <2> QED BY <1>0, <2>3
<1>2. ASSUME NEW k \in 0 .. N - 1, k \in T PROVE k + 1 \in T
  <2>1. PICK f \in [Node -> Node] : Upto(k, f)
    BY <1>2
  <2> DEFINE g == [m \in Node |-> IF next[m] = None THEN m ELSE f[next[m]]]
  <2>2. g \in [Node -> Node]
    BY <1>0 DEF Ptr
  <2>3. ASSUME NEW m \in Node, rank[m] <= k + 1, next[m] # None PROVE g[m] = g[next[m]]
    <3>1. next[m] \in Node /\ rank[next[m]] < rank[m]
      BY <1>0, <2>3 DEF Descends, Ptr
    <3>2. rank[next[m]] <= k
      BY <1>0, <2>3, <3>1
    <3>3. f[next[m]] = IF next[next[m]] = None THEN next[m] ELSE f[next[next[m]]]
      BY <2>1, <3>1, <3>2
    <3>4. g[next[m]] = IF next[next[m]] = None THEN next[m] ELSE f[next[next[m]]]
      BY <3>1
    <3>5. g[m] = f[next[m]]
      BY <2>3
    <3> QED BY <3>3, <3>4, <3>5
  <2>4. Upto(k + 1, g)
    BY <2>3
  <2>5. \E h \in [Node -> Node] : Upto(k + 1, h)
    <3> HIDE DEF g, Upto
    <3> QED BY <2>2, <2>4, Zenon
  <2>6. k + 1 \in 0 .. N
    BY <1>0
  <2> QED BY <2>5, <2>6
<1>3. N \in T
  <2> HIDE DEF T
  <2>1. \A k \in 0 .. N - 1 : k \in T => k + 1 \in T
    BY <1>2, Zenon
  <2>2. \A k \in 0 .. N : k \in T
    BY <1>0, <1>1, <2>1, InductionUpTo, Zenon
  <2> QED BY <1>0, <2>2
<1>4. PICK f \in [Node -> Node] : Upto(N, f)
  BY <1>3
<1>5. ASSUME NEW m \in Node PROVE f[m] = IF next[m] = None THEN m ELSE f[next[m]]
  <2>1. rank[m] <= N
    BY <1>0
  <2> QED BY <1>4, <2>1, Zenon
<1>6. Walks(f, next)
  BY <1>5 DEF Walks
<1> QED BY <1>6

\* What is passed on from step to step is true of the end.
LEMMA WalkEnds ==
  ASSUME NEW next, NEW rank, NEW N, Descends(next, rank, N), NEW f, Walks(f, next),
         NEW P \in SUBSET Node, \A m \in P : next[m] # None => next[m] \in P
  PROVE  \A m \in P : f[m] \in P /\ next[f[m]] = None
<1>0. N \in Nat /\ \A m \in Node : rank[m] \in 0 .. N
  BY DEF Descends
<1> DEFINE T == {k \in 0 .. N : \A m \in P : rank[m] <= k => f[m] \in P /\ next[f[m]] = None}
<1>1. \A m \in P : next[m] = None => f[m] = m
  BY DEF Walks
<1>2. \A m \in P : next[m] # None => f[m] = f[next[m]]
  BY DEF Walks
<1>3. \A m \in P : next[m] # None => rank[next[m]] < rank[m] /\ next[m] \in P
  BY DEF Descends
<1>4. 0 \in T
  BY <1>0, <1>1, <1>3
<1>5. ASSUME NEW k \in 0 .. N - 1, k \in T PROVE k + 1 \in T
  <2>1. ASSUME NEW m \in P, rank[m] <= k + 1 PROVE f[m] \in P /\ next[f[m]] = None
    <3>1. CASE next[m] = None
      BY <1>1, <3>1
    <3>2. CASE next[m] # None
      <4>1. rank[next[m]] <= k /\ next[m] \in P
        BY <1>0, <1>3, <2>1, <3>2
      <4> QED BY <1>2, <1>5, <3>2, <4>1
    <3> QED BY <3>1, <3>2
  <2>2. k + 1 \in 0 .. N
    BY <1>0
  <2> QED BY <2>1, <2>2
<1>6. \A k \in 0 .. N : k \in T
  <2> HIDE DEF T
  <2>1. \A k \in 0 .. N - 1 : k \in T => k + 1 \in T
    BY <1>5, Zenon
  <2> QED BY <1>0, <1>4, <2>1, InductionUpTo, Zenon
<1>7. N \in T
  BY <1>0, <1>6
<1>8. ASSUME NEW m \in P PROVE rank[m] <= N
  BY <1>0
<1> QED BY <1>7, <1>8, Zenon

\* Nodes that are not members have no children.
Leaves(t, M) == \A m \in Node \ M, s \in Side : t[s][m] = None

\* Down a tree the trees get smaller.
RankOf(M, S) == [m \in Node |-> IF m \in M THEN Cardinality(S[m]) ELSE 0]

LEMMA DownDescends ==
  ASSUME NEW t, NEW r, NEW M, NEW S, NEW sc, IsTree(t, r, M, S, sc), Leaves(t, M),
         NEW next \in [Node -> Ptr],
         \A m \in Node : \E s \in Side : next[m] = t[s][m]
  PROVE  /\ Descends(next, RankOf(M, S), Cardinality(Node))
         /\ \A m \in Node : next[m] # None => m \in M /\ next[m] \in M
<1>1. Cardinality(Node) \in Nat
  BY ZSetConstants, FS_CardinalityType
<1>2. RankOf(M, S) \in [Node -> 0 .. Cardinality(Node)]
  BY <1>1, Shrinks DEF RankOf
<1>3. ASSUME NEW m \in Node, next[m] # None
      PROVE  m \in M /\ next[m] \in M /\ RankOf(M, S)[next[m]] < RankOf(M, S)[m]
  <2>1. PICK s \in Side : next[m] = t[s][m]
    OBVIOUS
  <2>2. m \in M
    BY <1>3, <2>1 DEF Leaves
  <2>3. next[m] \in M
    BY <1>3, <2>1, <2>2, Below DEF IsTree
  <2>4. Cardinality(S[next[m]]) < Cardinality(S[m])
    BY <1>3, <2>1, <2>2, Shrinks
  <2>5. next[m] \in Node
    BY <2>3 DEF IsTree, TreeAt
  <2> QED BY <2>2, <2>3, <2>4, <2>5 DEF RankOf
<1> QED BY <1>1, <1>2, <1>3 DEF Descends

\* The loop of tree_insert: which way it goes at m.
WayOf(sc, n, m) == IF Before(sc, n, m) THEN "left" ELSE "right"

\* It comes by m when n belongs into the tree below m.
PathTo(t, M, S, sc, n) ==
  {m \in M : \A a \in M : m \in S[a] /\ m # a => m \in S[t[WayOf(sc, n, a)][a]]}

\* The tree when n hangs below m.
Attached(t, sc, n, m) == [t EXCEPT ![WayOf(sc, n, m)][m] = n, !.parent[n] = m]

\* tree_insert finds a free place, and the one where n belongs.
LEMMA InsertPlace ==
  ASSUME NEW t, NEW r, NEW M, NEW S, NEW sc, IsTree(t, r, M, S, sc), Leaves(t, M),
         NEW n \in Node \ M, r # None
  PROVE  \E m \in PathTo(t, M, S, sc, n) :
           /\ t[WayOf(sc, n, m)][m] = None
           /\ tree_insert(t, r, sc, n) = Attached(t, sc, n, m)
<1> DEFINE next == [m \in Node |-> t[WayOf(sc, n, m)][m]]
           rank == RankOf(M, S)
<1>1. \A m \in Node : WayOf(sc, n, m) \in Side /\ t[WayOf(sc, n, m)][m] \in Ptr
  BY DEF WayOf, Side, IsTree, TreeType
<1>2. next \in [Node -> Ptr] /\ \A m \in Node : \E s \in Side : next[m] = t[s][m]
  BY <1>1
<1>3. /\ Descends(next, rank, Cardinality(Node))
      /\ \A m \in Node : next[m] # None => m \in M /\ next[m] \in M
  <2> HIDE DEF next
  <2> QED BY <1>2, DownDescends
<1> DEFINE walk == CHOOSE f : f = [m \in Node |->
                     LET child == t[IF zless(sc, n, sc[m], m) THEN "left" ELSE "right"][m]
                     IN  IF child = None THEN m ELSE f[child]]
<1>4. Walks(walk, next)
  <2>1. \E f : Walks(f, next)
    <3> HIDE DEF next, rank
    <3> QED BY <1>3, WalkExists
  <2>2. \A f : Walks(f, next) <=> f = [m \in Node |->
                     LET child == t[IF zless(sc, n, sc[m], m) THEN "left" ELSE "right"][m]
                     IN  IF child = None THEN m ELSE f[child]]
    BY DEF Walks, WayOf, Before
  <2> HIDE DEF next
  <2> QED BY <2>1, <2>2
<1>5. tree_insert(t, r, sc, n) = Attached(t, sc, n, walk[r])
  BY DEF tree_insert, WayOf, Before, Attached
<1> DEFINE P == PathTo(t, M, S, sc, n)
<1>6. P \in SUBSET Node
  BY DEF PathTo, IsTree, TreeAt
<1>7. r \in P
  <2>1. r \in M
    BY DEF IsTree, TreeAt
  <2>2. ASSUME NEW a \in M, r \in S[a], r # a PROVE FALSE
    <3>1. t.parent[r] \in M
      BY <2>2, Parents
    <3>2. t.parent[r] = None /\ None \notin M
      BY <2>1, ZSetConstants DEF IsTree, TreeAt
    <3> QED BY <3>1, <3>2
  <2> QED BY <2>1, <2>2 DEF PathTo
<1>8. ASSUME NEW m \in P, next[m] # None PROVE next[m] \in P
  <2>1. PICK c \in M : c = next[m] /\ c = t[WayOf(sc, n, m)][m] /\ m \in M /\ m \in Node
    BY <1>3, <1>6, <1>8
  <2>2. t.parent[c] = m /\ c \in S[c]
    BY <1>1, <2>1, Below, ZSetConstants DEF IsTree, TreeAt
  <2>3. ASSUME NEW a \in M, c \in S[a], c # a PROVE c \in S[t[WayOf(sc, n, a)][a]]
    <3>1. m \in S[a]
      BY <2>2, <2>3, Parents
    <3>2. CASE m = a
      BY <2>1, <2>2, <3>2
    <3>3. CASE m # a
      <4>1. m \in S[t[WayOf(sc, n, a)][a]]
        BY <3>1, <3>3 DEF PathTo
      <4>2. a \in Node /\ t[WayOf(sc, n, a)][a] # None
        BY <4>1 DEF IsTree, TreeAt
      <4>3. t[WayOf(sc, n, a)][a] \in M
        BY <1>1, <4>2, Below DEF IsTree
      <4>4. S[m] \subseteq S[t[WayOf(sc, n, a)][a]]
        BY <4>1, <4>3, Nested
      <4>5. c \in S[m]
        BY <1>1, <2>1, <2>2, Below DEF IsTree
      <4> QED BY <4>4, <4>5
    <3> QED BY <3>2, <3>3
  <2> QED BY <2>1, <2>3 DEF PathTo
<1>9. walk[r] \in P /\ next[walk[r]] = None
  <2> HIDE DEF P, next, rank, walk
  <2> QED BY <1>3, <1>4, <1>6, <1>7, <1>8, WalkEnds
<1>10. t[WayOf(sc, n, walk[r])][walk[r]] = None
  <2> HIDE DEF walk, P
  <2> QED BY <1>6, <1>9
<1>11. PICK m : m = walk[r]
  OBVIOUS
<1> HIDE DEF walk
<1> QED BY <1>5, <1>9, <1>10, <1>11

\* What is below every node then.
AttachedBelow(S, n, m) ==
  [a \in Ptr |-> IF a = n THEN {n} ELSE IF m \in S[a] THEN S[a] \cup {n} ELSE S[a]]

LEMMA AttachTree ==
  ASSUME NEW t, NEW r, NEW M, NEW S, NEW sc, IsTree(t, r, M, S, sc),
         NEW n, n \in Node, n \notin M, t.left[n] = None, t.right[n] = None,
         NEW m, m \in PathTo(t, M, S, sc, n), t[WayOf(sc, n, m)][m] = None,
         NEW u, u = Attached(t, sc, n, m),
         NEW S2, S2 = AttachedBelow(S, n, m)
  PROVE  /\ IsTree(u, r, M \cup {n}, S2, sc)
         /\ \A a \in Node \ M, s \in Side : u[s][a] = t[s][a]
<1>1. PICK w \in Side : w = WayOf(sc, n, m)
  BY DEF WayOf, Side
<1>2. m \in M /\ m \in Node /\ m # n /\ m # None /\ n \in Node /\ n # None
  BY ZSetConstants DEF PathTo, IsTree, TreeAt
<1>3. /\ TreeType(u)
      /\ \A a \in Node, s \in Side : u[s][a] = IF a = m /\ s = w THEN n ELSE t[s][a]
      /\ \A a \in Node : u.parent[a] = IF a = n THEN m ELSE t.parent[a]
  <2>1. TreeType(t) /\ n \in Ptr /\ m \in Ptr
    BY <1>2 DEF IsTree, Ptr
  <2>2. PICK v : v = ChildSet(t, w, m, n)
    OBVIOUS
  <2>3. TreeType(v) /\ v.parent = t.parent
        /\ \A o \in Side, a \in Node : v[o][a] = IF a = m /\ o = w THEN n ELSE t[o][a]
    <3>1. TreeType(t) /\ w \in Side /\ m \in Node /\ n \in Ptr
      BY <1>2, <2>1
    <3>2. /\ TreeType(ChildSet(t, w, m, n)) /\ ChildSet(t, w, m, n).parent = t.parent
          /\ \A o \in Side, a \in Node :
               ChildSet(t, w, m, n)[o][a] = IF a = m /\ o = w THEN n ELSE t[o][a]
      BY <3>1, SetChild
    <3> QED BY <2>2, <3>2
  <2>4. u = ParentSet(v, n, m)
    BY <1>1, <2>2 DEF Attached, ChildSet, ParentSet
  <2>5. /\ TreeType(u) /\ u.left = v.left /\ u.right = v.right
        /\ \A a \in Node : u.parent[a] = IF a = n THEN m ELSE v.parent[a]
    <3>1. TreeType(v) /\ n \in Node /\ m \in Ptr
      BY <1>2, <2>1, <2>3
    <3> QED BY <2>4, <3>1, SetParent
  <2> QED BY <2>3, <2>5 DEF Side
<1>4. /\ M \subseteq Node /\ r \in Ptr /\ S \in [Ptr -> SUBSET Node] /\ S[None] = {} /\ S[r] = M
      /\ None \notin M /\ \A a \in M : S[a] \subseteq M
  BY ZSetConstants DEF IsTree, TreeAt
<1>5. S2 \in [Ptr -> SUBSET Node] /\ S2[None] = {} /\ S2[n] = {n}
  BY <1>2, <1>4 DEF Ptr, AttachedBelow
<1>6. \A a \in M : a \in Ptr /\ a # n /\ S2[a] = IF m \in S[a] THEN S[a] \cup {n} ELSE S[a]
  BY <1>4 DEF Ptr, AttachedBelow
<1>7. ASSUME NEW a \in M
      PROVE  /\ S2[a] \subseteq M \cup {n}
             /\ S2[a] = {a} \cup S2[u.left[a]] \cup S2[u.right[a]]
             /\ \A s \in Side :
                  /\ u[s][a] # None => u[s][a] \in M \cup {n} /\ u.parent[u[s][a]] = a
                  /\ \A k \in S2[u[s][a]] : OnSide(sc, k, a, s)
  <2>1. a \in Node
    BY <1>4
  <2>2. S2[a] \subseteq M \cup {n}
    BY <1>4, <1>6
  <2>3. ASSUME NEW s \in Side
        PROVE  /\ t[s][a] \in Ptr /\ t[s][a] # n
               /\ t[s][a] # None => t[s][a] \in M /\ t.parent[t[s][a]] = a
               /\ S2[t[s][a]] = IF m \in S[t[s][a]] THEN S[t[s][a]] \cup {n} ELSE S[t[s][a]]
               /\ \A k \in S[t[s][a]] : OnSide(sc, k, a, s)
    <3>1. t[s][a] \in Ptr /\ (t[s][a] # None => t[s][a] \in M /\ t.parent[t[s][a]] = a)
      BY Below DEF IsTree
    <3>2. \A k \in S[t[s][a]] : OnSide(sc, k, a, s)
      BY DEF IsTree, TreeAt
    <3> QED BY <1>2, <1>4, <1>5, <1>6, <3>1, <3>2
  <2>4. S[a] = {a} \cup S[t.left[a]] \cup S[t.right[a]]
    BY DEF IsTree, TreeAt
  <2>5. CASE a = m
    <3>1. u[w][a] = n /\ S[t[w][a]] = {} /\ m \in S[a]
      BY <1>1, <1>2, <1>3, <1>4, <2>5, Below DEF IsTree
    <3>2. PICK o \in Side : o = Opp(w) /\ o # w /\ \A s \in Side : s = w \/ s = o
      BY DEF Side, Opp
    <3>3. u[o][a] = t[o][a] /\ m \notin S[t[o][a]]
      BY <1>2, <1>3, <2>5, <3>2, Below DEF IsTree
    <3>4. S2[u[o][a]] = S[t[o][a]]
      BY <2>3, <3>3
    <3>5. S2[a] = {a} \cup S2[u[w][a]] \cup S2[u[o][a]]
      <4>1. S[a] = {a} \cup S[t[w][a]] \cup S[t[o][a]]
        BY <2>4, <3>2 DEF Side
      <4>2. S2[a] = S[a] \cup {n}
        BY <1>6, <3>1, <2>5
      <4> QED BY <1>5, <3>1, <3>4, <4>1, <4>2
    <3>6. S2[a] = {a} \cup S2[u.left[a]] \cup S2[u.right[a]]
      BY <3>2, <3>5 DEF Side
    <3>7. OnSide(sc, n, a, w)
      BY <1>1, <1>2, <2>5, Order DEF WayOf, OnSide, IsTree
    <3>8. \A k \in S2[u[w][a]] : OnSide(sc, k, a, w)
      BY <1>5, <3>1, <3>7
    <3>9. \A k \in S2[u[o][a]] : OnSide(sc, k, a, o)
      BY <2>3, <3>2, <3>4
    <3>10. u.parent[n] = a
      BY <1>2, <1>3, <2>5
    <3>11. ASSUME t[o][a] # None PROVE u[o][a] \in M /\ u.parent[u[o][a]] = a
      <4>1. t[o][a] \in M /\ t.parent[t[o][a]] = a /\ t[o][a] # n
        BY <2>3, <3>2, <3>11
      <4>2. t[o][a] \in Node
        BY <1>4, <4>1
      <4> QED BY <1>3, <3>3, <4>1, <4>2
    <3> QED BY <2>2, <3>1, <3>2, <3>3, <3>6, <3>8, <3>9, <3>10, <3>11
  <2>6. CASE a # m
    <3>1. \A s \in Side : u[s][a] = t[s][a]
      BY <1>3, <2>1, <2>6
    <3>2. m \in S[a] <=> m \in S[t.left[a]] \/ m \in S[t.right[a]]
      BY <2>4, <2>6
    <3>3. S2[a] = {a} \cup S2[u.left[a]] \cup S2[u.right[a]]
      <4>1. PICK l : l = t.left[a] /\ l = t["left"][a] /\ l = u.left[a]
        BY <3>1 DEF Side
      <4>2. PICK o : o = t.right[a] /\ o = t["right"][a] /\ o = u.right[a]
        BY <3>1 DEF Side
      <4>3. S2[l] = IF m \in S[l] THEN S[l] \cup {n} ELSE S[l]
        BY <2>3, <4>1 DEF Side
      <4>4. S2[o] = IF m \in S[o] THEN S[o] \cup {n} ELSE S[o]
        BY <2>3, <4>2 DEF Side
      <4>5. S[a] = {a} \cup S[l] \cup S[o] /\ (m \in S[a] <=> m \in S[l] \/ m \in S[o])
        BY <2>4, <3>2, <4>1, <4>2
      <4>6. S2[a] = IF m \in S[a] THEN S[a] \cup {n} ELSE S[a]
        BY <1>6
      <4>7. S2[a] = {a} \cup S2[l] \cup S2[o]
        BY <4>3, <4>4, <4>5, <4>6
      <4> QED BY <4>1, <4>2, <4>7
    <3>4. ASSUME NEW s \in Side, m \in S[t[s][a]] PROVE OnSide(sc, n, a, s)
      <4>1. m \in S[a]
        BY <3>2, <3>4 DEF Side
      <4>2. m \in S[t[WayOf(sc, n, a)][a]]
        BY <2>6, <4>1 DEF PathTo
      <4>3. s = WayOf(sc, n, a)
        BY <3>4, <4>2, Below DEF IsTree, Side, WayOf
      <4> QED BY <2>1, <4>3, Order DEF WayOf, OnSide, IsTree
    <3>5. ASSUME NEW s \in Side
          PROVE  /\ u[s][a] # None => u[s][a] \in M \cup {n} /\ u.parent[u[s][a]] = a
                 /\ \A k \in S2[u[s][a]] : OnSide(sc, k, a, s)
      <4>1. u[s][a] = t[s][a]
        BY <3>1
      <4>2. ASSUME t[s][a] # None PROVE t[s][a] \in M /\ u.parent[t[s][a]] = a
        <5>1. t[s][a] \in M /\ t.parent[t[s][a]] = a /\ t[s][a] # n
          BY <2>3, <4>2
        <5>2. t[s][a] \in Node
          BY <1>4, <5>1
        <5> QED BY <1>3, <5>1, <5>2
      <4>3. \A k \in S2[t[s][a]] : OnSide(sc, k, a, s)
        BY <2>3, <3>4
      <4> QED BY <4>1, <4>2, <4>3
    <3> QED BY <2>2, <3>3, <3>5
  <2> QED BY <2>5, <2>6
<1>8. /\ S2[n] \subseteq M \cup {n}
      /\ S2[n] = {n} \cup S2[u.left[n]] \cup S2[u.right[n]]
      /\ \A s \in Side : u[s][n] = None
  BY <1>2, <1>3, <1>5 DEF Side
<1>9. r \in M \cup {n} /\ S2[r] = M \cup {n} /\ u.parent[r] = None
  <2>1. r \in M /\ t.parent[r] = None /\ r # n
    BY <1>2, RootOnly
  <2> QED BY <1>2, <1>3, <1>4, <1>6, <2>1
<1>10. TreeAt(u, r, M \cup {n}, S2, sc)
  BY <1>2, <1>4, <1>5, <1>7, <1>8, <1>9 DEF TreeAt
<1> QED BY <1>2, <1>3, <1>10 DEF IsTree

\* tree_insert up to avl_fix makes n a member.
LEMMA InsertTree ==
  ASSUME NEW t, NEW r, NEW M, NEW S, NEW sc, IsTree(t, r, M, S, sc), Leaves(t, M),
         NEW n \in Node \ M, t.parent[n] = None,
         NEW u, u = tree_insert(t, r, sc, n)
  PROVE  /\ \E S2 : IsTree(u, IF r = None THEN n ELSE r, M \cup {n}, S2, sc)
         /\ Leaves(u, M \cup {n})
<1>0. t.left[n] = None /\ t.right[n] = None
  BY DEF Leaves, Side
<1>1. CASE r = None
  <2>1. u = t /\ M = {}
    BY <1>1 DEF tree_insert, IsTree, TreeAt
  <2> DEFINE S2 == [a \in Ptr |-> IF a = n THEN {n} ELSE {}]
  <2>2. S2 \in [Ptr -> SUBSET Node] /\ S2[None] = {} /\ S2[n] = {n} /\ n \in Ptr
    BY ZSetConstants DEF Ptr
  <2>3. TreeAt(u, n, {n}, S2, sc)
    <3> HIDE DEF S2
    <3>1. \A s \in Side : u[s][n] = None
      BY <1>0, <2>1 DEF Side
    <3>2. u.left[n] = None /\ u.right[n] = None
      BY <1>0, <2>1
    <3> QED BY <2>1, <2>2, <3>1, <3>2, ZSetConstants DEF TreeAt
  <2>4. IsTree(u, n, {n}, S2, sc)
    BY <2>1, <2>3 DEF IsTree
  <2>5. Leaves(u, {n})
    BY <2>1 DEF Leaves
  <2> HIDE DEF S2
  <2> QED BY <1>1, <2>1, <2>4, <2>5
<1>2. CASE r # None
  <2>1. PICK m \in PathTo(t, M, S, sc, n) :
          /\ t[WayOf(sc, n, m)][m] = None
          /\ u = Attached(t, sc, n, m)
    BY <1>2, InsertPlace
  <2>2. PICK S2 : S2 = AttachedBelow(S, n, m)
    OBVIOUS
  <2>3. /\ IsTree(u, r, M \cup {n}, S2, sc)
        /\ \A a \in Node \ M, s \in Side : u[s][a] = t[s][a]
    BY <1>0, <2>1, <2>2, AttachTree
  <2>4. Leaves(u, M \cup {n})
    BY <2>3 DEF Leaves
  <2> QED BY <1>2, <2>3, <2>4
<1> QED BY <1>1, <1>2

\* The parent of d leads to it.
LEMMA ParentLink ==
  ASSUME NEW t, NEW r, NEW M, NEW S, NEW sc, IsTree(t, r, M, S, sc), NEW d \in M
  PROVE  /\ t.parent[d] \in Ptr /\ d \in Ptr
         /\ t.parent[d] # None => /\ t.parent[d] \in M
                                  /\ t.left[t.parent[d]] = d \/ t.right[t.parent[d]] = d
                                  /\ t.left[t.parent[d]] # t.right[t.parent[d]]
<1>1. TreeType(t) /\ d \in Node
  BY DEF IsTree, TreeAt
<1>2. t.parent[d] \in Ptr /\ d \in Ptr
  BY <1>1 DEF TreeType, Ptr
<1>3. ASSUME t.parent[d] # None
      PROVE  /\ t.parent[d] \in M
             /\ t.left[t.parent[d]] = d \/ t.right[t.parent[d]] = d
             /\ t.left[t.parent[d]] # t.right[t.parent[d]]
  <2>1. PICK p \in M : p = t.parent[d] /\ \E s \in Side : t[s][p] = d
    BY <1>3, RootOnly
  <2>2. t.left[p] = d \/ t.right[p] = d
    BY <2>1 DEF Side
  <2>3. d # None
    BY <1>1, ZSetConstants
  <2>4. t.left[p] # t.right[p]
    <3>1. \A s \in Side : t[s][p] # None => t[Opp(s)][p] # t[s][p]
      BY Below DEF IsTree
    <3>2. t["left"][p] # None => t["right"][p] # t["left"][p]
      BY <3>1 DEF Side, Opp
    <3>3. t["right"][p] # None => t["left"][p] # t["right"][p]
      BY <3>1 DEF Side, Opp
    <3> QED BY <2>2, <2>3, <3>2, <3>3
  <2> QED BY <2>1, <2>2, <2>4
<1> QED BY <1>2, <1>3

\* What avl_detach leaves of the links.
LEMMA DetachLinks ==
  ASSUME NEW t, NEW r, NEW M, NEW S, NEW sc, IsTree(t, r, M, S, sc),
         NEW d \in M, NEW child, child = only_child(t, d)
  PROVE  LET u == avl_detach(t, d)
             p == t.parent[d]
         IN  /\ TreeType(u)
             /\ \A s \in Side, m \in Node :
                  u[s][m] = IF m = p /\ t[s][p] = d THEN child ELSE t[s][m]
             /\ \A m \in Node : u.parent[m] = IF m = child THEN p ELSE t.parent[m]
<1>1. TreeType(t) /\ d \in Node
  BY DEF IsTree, TreeAt
<1>2. child \in Ptr
  BY <1>1 DEF only_child, TreeType
<1>3. PICK p : p = t.parent[d]
  OBVIOUS
<1>4. PICK v : v = set_parent(t, child, p)
  OBVIOUS
<1>5. p \in Ptr /\ d \in Ptr
  BY <1>1, <1>3 DEF TreeType, Ptr
<1>6. /\ TreeType(v) /\ v.left = t.left /\ v.right = t.right
      /\ \A m \in Node : v.parent[m] = IF m = child THEN p ELSE t.parent[m]
  BY <1>1, <1>2, <1>4, <1>5, ZSetConstants DEF set_parent, TreeType, Ptr
<1>7. PICK u : u = replace_child(v, p, d, child)
  OBVIOUS
<1>8. p # None => (v.left[p] = d \/ v.right[p] = d) /\ v.left[p] # v.right[p]
  BY <1>3, <1>6, ParentLink
<1>9. /\ TreeType(u) /\ u.parent = v.parent
      /\ \A s \in Side, m \in Node :
           u[s][m] = IF m = p /\ v[s][p] = d THEN child ELSE v[s][m]
  BY <1>2, <1>5, <1>6, <1>7, <1>8, ReplaceChild
<1>10. \A s \in Side : v[s] = t[s]
  BY <1>6 DEF Side
<1>11. u = avl_detach(t, d)
  BY <1>3, <1>4, <1>7 DEF avl_detach
<1> QED BY <1>3, <1>6, <1>9, <1>10, <1>11

Removed(S, d) == [a \in Ptr |-> S[a] \ {d}]

\* The child of a node with at most one.
LEMMA OnlyChild ==
  ASSUME NEW t, NEW r, NEW M, NEW S, NEW sc, IsTree(t, r, M, S, sc),
         NEW d \in M, t.left[d] = None \/ t.right[d] = None,
         NEW child, child = only_child(t, d)
  PROVE  /\ child \in Ptr /\ S[child] = S[d] \ {d} /\ d \notin S[child]
         /\ child # None => /\ child \in M /\ child # d /\ t.parent[child] = d
                            /\ child \in S[d] /\ child \in S[child]
<1>1. PICK s \in Side : child = t[s][d] /\ t[Opp(s)][d] = None
  <2>1. CASE t.left[d] # None
    <3>1. child = t["left"][d] /\ t[Opp("left")][d] = None
      BY <2>1 DEF only_child, Opp
    <3> QED BY <3>1 DEF Side
  <2>2. CASE t.left[d] = None
    <3>1. child = t["right"][d] /\ t[Opp("right")][d] = None
      BY <2>2 DEF only_child, Opp
    <3> QED BY <3>1 DEF Side
  <2> QED BY <2>1, <2>2
<1>2. S[d] = {d} \cup S[t.left[d]] \cup S[t.right[d]] /\ S[None] = {}
  BY DEF IsTree, TreeAt
<1>3. S[d] = {d} \cup S[child]
  BY <1>1, <1>2 DEF Side, Opp
<1>4. child \in Ptr /\ d \notin S[child]
  BY <1>1, Below DEF IsTree
<1>5. ASSUME child # None
      PROVE  child \in M /\ child # d /\ t.parent[child] = d /\ child \in S[child]
  <2>1. child \in M /\ t.parent[child] = d /\ child \in S[child]
    BY <1>1, <1>5, Below DEF IsTree
  <2> QED BY <1>4, <2>1
<1> QED BY <1>3, <1>4, <1>5

LEMMA DetachTree ==
  ASSUME NEW t, NEW r, NEW M, NEW S, NEW sc, IsTree(t, r, M, S, sc),
         NEW d \in M, t.left[d] = None \/ t.right[d] = None,
         NEW u, u = avl_detach(t, d), NEW S2, S2 = Removed(S, d)
  PROVE  /\ IsTree(u, IF d = r THEN only_child(t, d) ELSE r, M \ {d}, S2, sc)
         /\ \A a \in Node \ M, s \in Side : u[s][a] = t[s][a]
         /\ \A s \in Side : u[s][d] = t[s][d]
         /\ \A a \in Node : a # only_child(t, d) => u.parent[a] = t.parent[a]
<1>1. PICK child : child = only_child(t, d)
  OBVIOUS
<1>2. /\ child \in Ptr /\ S[child] = S[d] \ {d} /\ d \notin S[child]
      /\ child # None => /\ child \in M /\ child # d /\ t.parent[child] = d
                         /\ child \in S[d] /\ child \in S[child]
  BY <1>1, OnlyChild
<1>3. PICK p \in Ptr : p = t.parent[d]
  BY ParentLink
<1>4. /\ TreeType(u)
      /\ \A s \in Side, m \in Node :
           u[s][m] = IF m = p /\ t[s][p] = d THEN child ELSE t[s][m]
      /\ \A m \in Node : u.parent[m] = IF m = child THEN p ELSE t.parent[m]
  BY <1>1, <1>3, DetachLinks
<1>5. /\ M \subseteq Node /\ r \in Ptr /\ S \in [Ptr -> SUBSET Node] /\ S[None] = {} /\ S[r] = M
      /\ None \notin M /\ None \notin Node /\ \A a \in M : S[a] \subseteq M
  BY ZSetConstants DEF IsTree, TreeAt
<1>6. r \in M /\ d \in S[r] /\ t.parent[r] = None
  BY RootOnly
<1>7. p = None <=> d = r
  BY <1>3, RootOnly
<1>8. p # d /\ (p # None => p \in M)
  BY <1>3, <1>5, RootOnly
<1>9. S2 \in [Ptr -> SUBSET Node] /\ S2[None] = {} /\ \A a \in Ptr : S2[a] = S[a] \ {d}
  BY <1>5 DEF Removed, Ptr
<1>10. S2[child] = S[child]
  BY <1>2, <1>9
<1>11. ASSUME NEW a \in M \ {d}
       PROVE  /\ S2[a] \subseteq M \ {d}
              /\ S2[a] = {a} \cup S2[u.left[a]] \cup S2[u.right[a]]
              /\ \A s \in Side :
                   /\ u[s][a] # None => u[s][a] \in M \ {d} /\ u.parent[u[s][a]] = a
                   /\ \A k \in S2[u[s][a]] : OnSide(sc, k, a, s)
  <2>1. a \in M /\ a \in Node /\ a \in Ptr /\ a # d
    BY <1>5 DEF Ptr
  <2>2. S2[a] = S[a] \ {d} /\ S2[a] \subseteq M \ {d}
    BY <1>5, <1>9, <2>1
  <2>3. ASSUME NEW s \in Side
        PROVE  /\ S2[u[s][a]] = S[t[s][a]] \ {d}
               /\ u[s][a] # None => u[s][a] \in M \ {d} /\ u.parent[u[s][a]] = a
               /\ \A k \in S2[u[s][a]] : OnSide(sc, k, a, s)
    <3>1. /\ t[s][a] \in Ptr
          /\ t[s][a] # None => t[s][a] \in M /\ t.parent[t[s][a]] = a
      BY <2>1, Below DEF IsTree
    <3>2. \A k \in S[t[s][a]] : OnSide(sc, k, a, s)
      BY <2>1 DEF IsTree, TreeAt
    <3>3. CASE t[s][a] = d
      <4>1. a = p
        BY <1>3, <1>5, <3>1, <3>3
      <4>2. u[s][a] = child
        BY <1>4, <2>1, <3>3, <4>1
      <4>3. S2[u[s][a]] = S[t[s][a]] \ {d}
        BY <1>2, <1>10, <3>3, <4>2
      <4>4. ASSUME child # None PROVE child \in M \ {d} /\ u.parent[child] = a
        <5>1. child \in M \ {d} /\ child \in Node
          BY <1>2, <1>5, <4>4
        <5> QED BY <1>4, <4>1, <5>1
      <4> QED BY <3>2, <4>2, <4>3, <4>4
    <3>4. CASE t[s][a] # d
      <4>1. u[s][a] = t[s][a]
        BY <1>4, <2>1, <3>4
      <4>2. S2[u[s][a]] = S[t[s][a]] \ {d}
        BY <1>9, <3>1, <4>1
      <4>3. ASSUME t[s][a] # None PROVE t[s][a] \in M \ {d} /\ u.parent[t[s][a]] = a
        <5>1. t[s][a] \in M \ {d} /\ t[s][a] \in Node /\ t.parent[t[s][a]] = a
          BY <1>5, <3>1, <3>4, <4>3
        <5>2. t[s][a] # child
          BY <1>2, <1>5, <2>1, <5>1
        <5> QED BY <1>4, <5>1, <5>2
      <4> QED BY <3>2, <4>1, <4>2, <4>3
    <3> QED BY <3>3, <3>4
  <2>4. S[a] = {a} \cup S[t.left[a]] \cup S[t.right[a]]
    BY <2>1 DEF IsTree, TreeAt
  <2>5. S2[u.left[a]] = S[t.left[a]] \ {d} /\ S2[u.right[a]] = S[t.right[a]] \ {d}
    BY <2>3 DEF Side
  <2>6. S2[a] = {a} \cup S2[u.left[a]] \cup S2[u.right[a]]
    BY <2>1, <2>2, <2>4, <2>5
  <2> QED BY <2>2, <2>3, <2>6
<1>12. PICK r2 : r2 = IF d = r THEN child ELSE r
  OBVIOUS
<1>13. /\ r2 \in Ptr /\ S2[r2] = M \ {d}
       /\ r2 # None => r2 \in M \ {d} /\ u.parent[r2] = None
  <2>1. CASE d = r
    <3>1. ASSUME child # None PROVE child \in M \ {d} /\ u.parent[child] = None
      <4>1. child \in M \ {d} /\ child \in Node
        BY <1>2, <1>5, <3>1
      <4> QED BY <1>4, <1>7, <2>1, <4>1
    <3> QED BY <1>2, <1>5, <1>10, <1>12, <2>1, <3>1
  <2>2. CASE d # r
    <3>1. r \in M \ {d} /\ r \in Node
      BY <1>5, <1>6, <2>2
    <3>2. r # child
      BY <1>2, <1>5, <1>6
    <3>3. u.parent[r] = None
      BY <1>4, <1>6, <3>1, <3>2
    <3> QED BY <1>5, <1>9, <1>12, <2>2, <3>1, <3>3
  <2> QED BY <2>1, <2>2
<1>14. M \ {d} \subseteq Node
  BY <1>5
<1>15. TreeAt(u, r2, M \ {d}, S2, sc)
  BY <1>9, <1>11, <1>13, <1>14 DEF TreeAt
<1>16. \A a \in Node \ M, s \in Side : u[s][a] = t[s][a]
  <2>1. \A a \in Node \ M : a # p
    BY <1>5, <1>8
  <2> QED BY <1>4, <2>1
<1>17. \A s \in Side : u[s][d] = t[s][d]
  <2>1. d \in Node
    BY <1>5
  <2> QED BY <1>4, <1>8, <2>1
<1>18. IsTree(u, r2, M \ {d}, S2, sc)
  BY <1>4, <1>15 DEF IsTree
<1> QED BY <1>1, <1>4, <1>12, <1>16, <1>17, <1>18

\* The loop of avl_del finds the first node below c.
LEMMA Leftmost ==
  ASSUME NEW t, NEW r, NEW M, NEW S, NEW sc, IsTree(t, r, M, S, sc), Leaves(t, M),
         NEW c \in M, NEW v, v = leftmost(t, c)
  PROVE  /\ v \in M /\ v \in S[c] /\ t.left[v] = None
         /\ \A m \in S[c] : m = v \/ Before(sc, v, m)
<1> DEFINE next == t.left
           rank == RankOf(M, S)
           P == {m \in S[c] : \A k \in S[c] : k \in S[m] \/ \A j \in S[m] : Before(sc, j, k)}
<1>1. next \in [Node -> Ptr] /\ \A m \in Node : \E s \in Side : next[m] = t[s][m]
  BY DEF IsTree, TreeType, Side
<1>2. /\ Descends(next, rank, Cardinality(Node))
      /\ \A m \in Node : next[m] # None => m \in M /\ next[m] \in M
  <2> HIDE DEF next
  <2> QED BY <1>1, DownDescends
<1>3. M \subseteq Node /\ S[c] \subseteq M /\ c \in S[c] /\ ScoreType(sc)
  BY Below DEF IsTree, TreeAt
<1>4. P \in SUBSET Node
  BY <1>3
<1>5. c \in P
  BY <1>3
<1>6. ASSUME NEW m \in P, next[m] # None PROVE next[m] \in P
  <2>1. PICK l \in M : l = t.left[m] /\ m \in M /\ m \in Node
    BY <1>2, <1>3, <1>6
  <2>2. /\ S[m] = {m} \cup S[l] \cup S[t.right[m]]
        /\ \A j \in S[l] : OnSide(sc, j, m, "left")
        /\ \A j \in S[t.right[m]] : OnSide(sc, j, m, "right")
    BY <2>1 DEF IsTree, TreeAt, Side
  <2>3. l \in S[l] /\ S[l] \subseteq M
    BY <2>1, Below DEF IsTree
  <2>4. S[m] \subseteq S[c] /\ S[m] \subseteq M
    BY <1>3, Nested
  <2>5. l \in S[c]
    BY <2>2, <2>3, <2>4
  <2>6. ASSUME NEW k \in S[c], k \notin S[l], NEW j \in S[l] PROVE Before(sc, j, k)
    <3>1. CASE k \notin S[m]
      BY <2>2, <2>6, <3>1
    <3>2. CASE k \in S[m]
      <4>1. Before(sc, j, m) /\ j \in Node /\ k \in Node
        BY <1>3, <2>2, <2>3 DEF OnSide
      <4>2. k = m \/ Before(sc, m, k)
        BY <2>2, <2>6, <3>2 DEF OnSide
      <4> QED BY <1>3, <2>1, <4>1, <4>2, Order
    <3> QED BY <3>1, <3>2
  <2> QED BY <2>1, <2>5, <2>6
<1> DEFINE walk == CHOOSE f : f = [m \in Node |-> IF t.left[m] = None THEN m ELSE f[t.left[m]]]
<1>7. Walks(walk, next)
  <2>1. \E f : Walks(f, next)
    <3> HIDE DEF next, rank
    <3> QED BY <1>2, WalkExists
  <2> QED BY <2>1 DEF Walks
<1>8. v = walk[c]
  BY DEF leftmost
<1>9. v \in P /\ next[v] = None
  <2> HIDE DEF P, next, rank, walk
  <2> QED BY <1>2, <1>4, <1>5, <1>6, <1>7, <1>8, WalkEnds
<1>10. v \in S[c] /\ v \in M /\ t.left[v] = None
  BY <1>3, <1>9
<1>11. ASSUME NEW m \in S[c], m # v PROVE Before(sc, v, m)
  <2>1. v \in S[v] /\ S[v] = {v} \cup S[t.left[v]] \cup S[t.right[v]] /\ S[None] = {}
    BY <1>10, Below DEF IsTree, TreeAt
  <2>2. CASE m \in S[v]
    <3>1. m \in S[t.right[v]]
      BY <1>10, <1>11, <2>1, <2>2
    <3>2. OnSide(sc, m, v, "right")
      BY <1>10, <3>1 DEF IsTree, TreeAt, Side
    <3> QED BY <3>2 DEF OnSide
  <2>3. CASE m \notin S[v]
    BY <1>9, <2>1, <2>3
  <2> QED BY <2>2, <2>3
<1> QED BY <1>10, <1>11

\* v is where n is among the others.
StandsFor(sc, M, n, v) ==
  \A m \in M : m # n /\ m # v => (Before(sc, m, v) <=> Before(sc, m, n))

\* The first node on the right of n is the next one after n.
LEMMA Successor ==
  ASSUME NEW t, NEW r, NEW M, NEW S, NEW sc, IsTree(t, r, M, S, sc),
         NEW n \in M, NEW v \in S[t.right[n]],
         \A m \in S[t.right[n]] : m = v \/ Before(sc, v, m)
  PROVE  StandsFor(sc, M, n, v) /\ v \in M /\ v # n
<1>1. M \subseteq Node /\ S[n] \subseteq M /\ S[t.right[n]] \subseteq S[n] /\ n \in S[n]
  BY Below DEF IsTree, TreeAt, Side
<1>2. v \in M /\ v \in S[n] /\ v \in Node /\ n \in Node /\ ScoreType(sc)
  BY <1>1 DEF IsTree
<1>3. Before(sc, n, v)
  BY DEF IsTree, TreeAt, OnSide, Side
<1>4. \A b \in M : /\ S[b] = {b} \cup S[t.left[b]] \cup S[t.right[b]]
                   /\ \A m \in S[t.left[b]] : Before(sc, m, b)
                   /\ \A m \in S[t.right[b]] : Before(sc, b, m)
  BY DEF IsTree, TreeAt, OnSide, Side
<1>5. ASSUME NEW b \in M, NEW s \in Side, n \in S[t[s][b]]
      PROVE  v \in S[t[s][b]]
  <2>1. t[s][b] # None
    BY <1>5 DEF IsTree, TreeAt
  <2>2. t[s][b] \in M
    BY <2>1, Below DEF IsTree
  <2> QED BY <1>2, <1>5, <2>2, Nested
<1>6. ASSUME NEW m \in M, m # n, m # v, Before(sc, m, v), ~Before(sc, m, n)
      PROVE  FALSE
  <2>1. m \in Node /\ Before(sc, n, m) /\ ~Before(sc, v, m)
    BY <1>1, <1>2, <1>6, Order
  <2>2. m \notin S[n]
    BY <1>4, <1>6, <2>1
  <2>3. n \notin S[m]
    <3>1. ASSUME n \in S[m] PROVE FALSE
      <4>1. n \in S[t.left[m]]
        BY <1>2, <1>4, <1>6, <2>1, <3>1, Order
      <4>2. v \in S[t["left"][m]]
        BY <1>5, <4>1 DEF Side
      <4> QED BY <1>4, <2>1, <4>2
    <3> QED BY <3>1
  <2>4. PICK b \in M : \/ n \in S[t.left[b]] /\ m \in S[t.right[b]]
                       \/ m \in S[t.left[b]] /\ n \in S[t.right[b]]
    BY <2>2, <2>3, Apart
  <2>5. b \in Node
    BY <1>1
  <2>6. CASE n \in S[t.left[b]] /\ m \in S[t.right[b]]
    <3>1. v \in S[t["left"][b]]
      BY <1>5, <2>6 DEF Side
    <3>2. Before(sc, v, b) /\ Before(sc, b, m)
      BY <1>4, <2>6, <3>1
    <3> QED BY <1>2, <2>1, <2>5, <3>2, Order
  <2>7. CASE m \in S[t.left[b]] /\ n \in S[t.right[b]]
    <3>1. Before(sc, m, b) /\ Before(sc, b, n)
      BY <1>4, <2>7
    <3> QED BY <1>2, <1>6, <2>1, <2>5, <3>1, Order
  <2> QED BY <2>4, <2>6, <2>7
<1>7. ASSUME NEW m \in M, Before(sc, m, n) PROVE Before(sc, m, v)
  BY <1>1, <1>2, <1>3, <1>7, Order
<1>8. v # n
  BY <1>2, <1>3, Order
<1> QED BY <1>2, <1>6, <1>7, <1>8 DEF StandsFor

\* What avl_swap leaves of the links.
LEMMA SwapLinks ==
  ASSUME NEW t, NEW r, NEW M, NEW S, NEW sc, IsTree(t, r, M, S, sc),
         NEW n \in M, NEW v, v \in Node, v \notin M
  PROVE  LET u == avl_swap(t, n, v)
             p == t.parent[n]
         IN  /\ TreeType(u)
             /\ \A s \in Side, m \in Node :
                  u[s][m] = IF m = v THEN t[s][n]
                            ELSE IF m = p /\ t[s][p] = n THEN v ELSE t[s][m]
             /\ \A m \in Node :
                  u.parent[m] = IF m = t.left[n] \/ m = t.right[n] THEN v
                                ELSE IF m = v THEN p ELSE t.parent[m]
<1>1. TreeType(t) /\ n \in Node /\ M \subseteq Node /\ None \notin Node /\ v \in Ptr /\ n \in Ptr
  BY ZSetConstants DEF IsTree, TreeAt, Ptr
<1>2. PICK p \in Ptr : p = t.parent[n]
  BY ParentLink
<1>3. PICK l : l = t.left[n] /\ l \in Ptr
  BY <1>1 DEF TreeType
<1>4. PICK o : o = t.right[n] /\ o \in Ptr
  BY <1>1 DEF TreeType
<1>5. l # v /\ o # v
  <2>1. \A s \in Side : t[s][n] # None => t[s][n] \in M
    BY Below DEF IsTree
  <2> QED BY <1>1, <1>3, <1>4, <2>1 DEF Side
<1>6. PICK w : w = [t EXCEPT !.left[v] = l, !.right[v] = o, !.parent[v] = p]
  OBVIOUS
<1>7. /\ TreeType(w)
      /\ \A m \in Node : /\ w.left[m] = IF m = v THEN l ELSE t.left[m]
                         /\ w.right[m] = IF m = v THEN o ELSE t.right[m]
                         /\ w.parent[m] = IF m = v THEN p ELSE t.parent[m]
  BY <1>1, <1>2, <1>3, <1>4, <1>6 DEF TreeType
<1>8. PICK x : x = set_parent(w, l, v)
  OBVIOUS
<1>9. /\ TreeType(x) /\ x.left = w.left /\ x.right = w.right
      /\ \A m \in Node : x.parent[m] = IF m = l THEN v ELSE w.parent[m]
  BY <1>1, <1>3, <1>7, <1>8 DEF set_parent, TreeType, Ptr
<1>10. PICK y : y = set_parent(x, o, v)
  OBVIOUS
<1>11. /\ TreeType(y) /\ y.left = x.left /\ y.right = x.right
       /\ \A m \in Node : y.parent[m] = IF m = o THEN v ELSE x.parent[m]
  BY <1>1, <1>4, <1>9, <1>10 DEF set_parent, TreeType, Ptr
<1>12. \A s \in Side, m \in Node : y[s][m] = IF m = v THEN t[s][n] ELSE t[s][m]
  <2>1. \A m \in Node : /\ y.left[m] = IF m = v THEN l ELSE t.left[m]
                        /\ y.right[m] = IF m = v THEN o ELSE t.right[m]
    <3>1. y.left = w.left /\ y.right = w.right
      BY <1>9, <1>11
    <3> QED BY <1>7, <3>1
  <2>2. \A m \in Node : y["left"][m] = IF m = v THEN t["left"][n] ELSE t["left"][m]
    BY <1>3, <2>1
  <2>3. \A m \in Node : y["right"][m] = IF m = v THEN t["right"][n] ELSE t["right"][m]
    BY <1>4, <2>1
  <2> QED BY <2>2, <2>3 DEF Side
<1>13. \A m \in Node : y.parent[m] = IF m = l \/ m = o THEN v
                                     ELSE IF m = v THEN p ELSE t.parent[m]
  BY <1>7, <1>9, <1>11
<1>14. PICK u : u = replace_child(y, p, n, v)
  OBVIOUS
<1>15. p # None => /\ p \in Node /\ p # v
                   /\ y.left[p] = t.left[p] /\ y.right[p] = t.right[p]
                   /\ y.left[p] = n \/ y.right[p] = n
                   /\ y.left[p] # y.right[p]
  <2> SUFFICES ASSUME p # None
               PROVE  /\ p \in Node /\ p # v
                      /\ y.left[p] = t.left[p] /\ y.right[p] = t.right[p]
                      /\ y.left[p] = n \/ y.right[p] = n
                      /\ y.left[p] # y.right[p]
    OBVIOUS
  <2>1. /\ p \in M
        /\ t.left[p] = n \/ t.right[p] = n
        /\ t.left[p] # t.right[p]
    BY <1>2, ParentLink
  <2>2. p \in M
    BY <1>2, ParentLink
  <2>3. p \in Node /\ p # v
    BY <1>1, <2>2
  <2>4. y.left[p] = t.left[p] /\ y.right[p] = t.right[p]
    BY <1>12, <2>3 DEF Side
  <2> QED BY <2>1, <2>3, <2>4
<1>16. /\ TreeType(u) /\ u.parent = y.parent
       /\ \A s \in Side, m \in Node :
            u[s][m] = IF m = p /\ y[s][p] = n THEN v ELSE y[s][m]
  <2>1. p # None => (y.left[p] = n \/ y.right[p] = n) /\ y.left[p] # y.right[p]
    BY <1>15
  <2>2. TreeType(y) /\ n \in Ptr /\ v \in Ptr
    BY <1>1, <1>11
  <2> QED BY <1>14, <2>1, <2>2, ReplaceChild
<1>17. \A s \in Side, m \in Node :
         u[s][m] = IF m = v THEN t[s][n]
                   ELSE IF m = p /\ t[s][p] = n THEN v ELSE t[s][m]
  <2>1. ASSUME NEW s \in Side, NEW m \in Node, m = p
        PROVE  m # v /\ y[s][p] = t[s][p]
    BY <1>1, <1>12, <1>15, <2>1
  <2> QED BY <1>12, <1>16, <2>1
<1>18. u = avl_swap(t, n, v)
  <2>1. avl_swap(t, n, v) = replace_child(set_parent(set_parent(
          [t EXCEPT !.left[v] = t.left[n], !.right[v] = t.right[n], !.parent[v] = t.parent[n]],
          t.left[n], v), t.right[n], v), t.parent[n], n, v)
    BY DEF avl_swap
  <2> QED BY <1>2, <1>3, <1>4, <1>6, <1>8, <1>10, <1>14, <2>1
<1> QED BY <1>2, <1>3, <1>4, <1>13, <1>16, <1>17, <1>18

Replaced(S, n, v) ==
  [a \in Ptr |-> IF a = v \/ n \in S[a]
                 THEN ((IF a = v THEN S[n] ELSE S[a]) \ {n}) \cup {v} ELSE S[a]]

\* avl_swap: v takes the place of n.
LEMMA SwapTree ==
  ASSUME NEW t, NEW r, NEW M, NEW S, NEW sc, IsTree(t, r, M, S, sc),
         NEW n \in M, NEW v, v \in Node, v \notin M, StandsFor(sc, M, n, v),
         NEW u, u = avl_swap(t, n, v), NEW S2, S2 = Replaced(S, n, v)
  PROVE  /\ IsTree(u, IF n = r THEN v ELSE r, (M \ {n}) \cup {v}, S2, sc)
         /\ \A a \in Node \ M, s \in Side : a # v => u[s][a] = t[s][a]
<1>1. PICK p \in Ptr : p = t.parent[n]
  BY ParentLink
<1>2. /\ TreeType(u)
      /\ \A s \in Side, m \in Node :
           u[s][m] = IF m = v THEN t[s][n]
                     ELSE IF m = p /\ t[s][p] = n THEN v ELSE t[s][m]
      /\ \A m \in Node :
           u.parent[m] = IF m = t.left[n] \/ m = t.right[n] THEN v
                         ELSE IF m = v THEN p ELSE t.parent[m]
  BY <1>1, SwapLinks
<1>3. /\ M \subseteq Node /\ r \in Ptr /\ S \in [Ptr -> SUBSET Node] /\ S[None] = {} /\ S[r] = M
      /\ None \notin M /\ None \notin Node /\ ScoreType(sc)
      /\ \A a \in M : S[a] \subseteq M /\ a \in Node /\ a \in Ptr /\ a # v
  BY ZSetConstants DEF IsTree, TreeAt, Ptr
<1>4. r \in M /\ n \in S[r] /\ t.parent[r] = None /\ (p = None <=> n = r)
  BY <1>1, RootOnly
<1>5. p # n /\ (p # None => p \in M)
  BY <1>1, <1>3, RootOnly
<1>6. S2 \in [Ptr -> SUBSET Node] /\ S2[None] = {} /\ v \in Ptr
  BY <1>3 DEF Replaced, Ptr
<1>7. S2[v] = (S[n] \ {n}) \cup {v}
  BY <1>6 DEF Replaced
<1>8. \A a \in Ptr : a # v => S2[a] = IF n \in S[a] THEN (S[a] \ {n}) \cup {v} ELSE S[a]
  BY DEF Replaced
<1>9. ASSUME NEW a \in M, NEW s \in Side
      PROVE  /\ t[s][a] \in Ptr /\ t[s][a] # v /\ S[t[s][a]] \subseteq M /\ a \notin S[t[s][a]]
             /\ S[t[s][a]] \subseteq S[a]
             /\ t[s][a] # None => t[s][a] \in M /\ t[s][a] \in Node /\ t.parent[t[s][a]] = a
             /\ \A k \in S[t[s][a]] : OnSide(sc, k, a, s)
  <2>1. /\ t[s][a] \in Ptr /\ S[t[s][a]] \subseteq S[a] /\ a \notin S[t[s][a]]
        /\ t[s][a] # None => t[s][a] \in M /\ t.parent[t[s][a]] = a
    BY Below DEF IsTree
  <2>2. \A k \in S[t[s][a]] : OnSide(sc, k, a, s)
    BY DEF IsTree, TreeAt
  <2>3. None # v
    BY <1>3
  <2> QED BY <1>3, <2>1, <2>2, <2>3
<1>10. \A m \in M, s \in Side : m # n =>
         /\ OnSide(sc, m, n, s) => OnSide(sc, m, v, s)
         /\ OnSide(sc, n, m, s) => OnSide(sc, v, m, s)
  <2>1. ASSUME NEW m \in M, m # n
        PROVE  /\ Before(sc, m, v) <=> Before(sc, m, n)
               /\ Before(sc, v, m) <=> Before(sc, n, m)
    <3>1. Before(sc, m, v) <=> Before(sc, m, n)
      BY <1>3, <2>1 DEF StandsFor
    <3>2. m \in Node /\ n \in Node /\ m # v
      BY <1>3
    <3> QED BY <1>3, <2>1, <3>1, <3>2, Order
  <2> QED BY <2>1 DEF OnSide
<1>11. ASSUME NEW a \in M, a # n
       PROVE  /\ S2[a] \subseteq (M \ {n}) \cup {v}
              /\ S2[a] = {a} \cup S2[u.left[a]] \cup S2[u.right[a]]
              /\ \A s \in Side :
                   /\ u[s][a] # None => u[s][a] \in (M \ {n}) \cup {v} /\ u.parent[u[s][a]] = a
                   /\ \A k \in S2[u[s][a]] : OnSide(sc, k, a, s)
  <2>1. S2[a] = (IF n \in S[a] THEN (S[a] \ {n}) \cup {v} ELSE S[a])
    BY <1>3, <1>8
  <2>2. S2[a] \subseteq (M \ {n}) \cup {v}
    BY <1>3, <2>1
  <2>3. ASSUME NEW s \in Side
        PROVE  /\ S2[u[s][a]] = IF n \in S[t[s][a]]
                                THEN (S[t[s][a]] \ {n}) \cup {v} ELSE S[t[s][a]]
               /\ u[s][a] # None => u[s][a] \in (M \ {n}) \cup {v} /\ u.parent[u[s][a]] = a
    <3>1. CASE t[s][a] = n
      <4>1. a = p
        BY <1>1, <1>3, <1>9, <3>1
      <4>2. u[s][a] = v
        BY <1>2, <1>3, <3>1, <4>1
      <4>3. n \in S[t[s][a]]
        BY <3>1, Below DEF IsTree
      <4>4. S2[u[s][a]] = (S[t[s][a]] \ {n}) \cup {v}
        BY <1>7, <3>1, <4>2
      <4>5. u.parent[v] = a
        <5>1. v # t.left[n] /\ v # t.right[n]
          BY <1>9 DEF Side
        <5> QED BY <1>2, <4>1, <5>1
      <4> QED BY <4>2, <4>3, <4>4, <4>5
    <3>2. CASE t[s][a] # n
      <4>1. u[s][a] = t[s][a]
        BY <1>2, <1>3, <3>2
      <4>2. S2[u[s][a]] = IF n \in S[t[s][a]]
                          THEN (S[t[s][a]] \ {n}) \cup {v} ELSE S[t[s][a]]
        BY <1>8, <1>9, <4>1
      <4>3. ASSUME t[s][a] # None PROVE t[s][a] \in M \ {n} /\ u.parent[t[s][a]] = a
        <5>1. t[s][a] \in M /\ t[s][a] \in Node /\ t.parent[t[s][a]] = a /\ t[s][a] # v
          BY <1>9, <4>3
        <5>2. t[s][a] # t.left[n] /\ t[s][a] # t.right[n]
          <6>1. \A o \in Side : t[o][n] # None => t.parent[t[o][n]] = n
            BY <1>9
          <6> QED BY <1>11, <4>3, <5>1, <6>1 DEF Side
        <5> QED BY <1>2, <3>2, <5>1, <5>2
      <4> QED BY <4>1, <4>2, <4>3
    <3> QED BY <3>1, <3>2
  <2>4. S[a] = {a} \cup S[t.left[a]] \cup S[t.right[a]]
    BY DEF IsTree, TreeAt
  <2>5. /\ S2[u.left[a]] = IF n \in S[t.left[a]]
                           THEN (S[t.left[a]] \ {n}) \cup {v} ELSE S[t.left[a]]
        /\ S2[u.right[a]] = IF n \in S[t.right[a]]
                            THEN (S[t.right[a]] \ {n}) \cup {v} ELSE S[t.right[a]]
    BY <2>3 DEF Side
  <2>6. S2[a] = {a} \cup S2[u.left[a]] \cup S2[u.right[a]]
    BY <1>11, <2>1, <2>4, <2>5
  <2>7. ASSUME NEW s \in Side, NEW k \in S2[u[s][a]] PROVE OnSide(sc, k, a, s)
    <3>1. k \in S[t[s][a]] \/ (k = v /\ n \in S[t[s][a]])
      <4>1. S2[u[s][a]] = IF n \in S[t[s][a]] THEN (S[t[s][a]] \ {n}) \cup {v} ELSE S[t[s][a]]
        BY <2>3
      <4> QED BY <2>7, <4>1
    <3>2. n \in S[t[s][a]] => OnSide(sc, n, a, s)
      BY <1>9
    <3> QED BY <1>9, <1>10, <1>11, <3>1, <3>2
  <2> QED BY <2>2, <2>3, <2>6, <2>7
<1>12. /\ S2[v] \subseteq (M \ {n}) \cup {v}
       /\ S2[v] = {v} \cup S2[u.left[v]] \cup S2[u.right[v]]
       /\ \A s \in Side :
            /\ u[s][v] # None => u[s][v] \in (M \ {n}) \cup {v} /\ u.parent[u[s][v]] = v
            /\ \A k \in S2[u[s][v]] : OnSide(sc, k, v, s)
  <2>1. S[n] = {n} \cup S[t.left[n]] \cup S[t.right[n]] /\ S[n] \subseteq M
    BY DEF IsTree, TreeAt
  <2>2. ASSUME NEW s \in Side
        PROVE  /\ S2[u[s][v]] = S[t[s][n]]
               /\ u[s][v] # None => u[s][v] \in (M \ {n}) \cup {v} /\ u.parent[u[s][v]] = v
               /\ \A k \in S2[u[s][v]] : OnSide(sc, k, v, s)
    <3>1. u[s][v] = t[s][n]
      BY <1>2
    <3>2. S2[u[s][v]] = S[t[s][n]]
      BY <1>8, <1>9, <3>1
    <3>3. ASSUME t[s][n] # None PROVE t[s][n] \in M \ {n} /\ u.parent[t[s][n]] = v
      <4>1. t[s][n] \in M /\ t[s][n] \in Node /\ t.parent[t[s][n]] = n
        BY <1>9, <3>3
      <4>2. t[s][n] # n
        BY <3>3, <4>1, Below DEF IsTree
      <4>3. t[s][n] = t.left[n] \/ t[s][n] = t.right[n]
        BY DEF Side
      <4> QED BY <1>2, <4>1, <4>2, <4>3
    <3>4. ASSUME NEW k \in S[t[s][n]] PROVE OnSide(sc, k, v, s)
      <4>1. k \in M /\ k # n /\ OnSide(sc, k, n, s)
        BY <1>9
      <4> QED BY <1>10, <4>1
    <3> QED BY <3>1, <3>2, <3>3, <3>4
  <2>3. S2[u.left[v]] = S[t.left[n]] /\ S2[u.right[v]] = S[t.right[n]]
    BY <2>2 DEF Side
  <2>4. n \notin S[t.left[n]] /\ n \notin S[t.right[n]]
    BY Below DEF IsTree
  <2>5. S2[v] = {v} \cup S2[u.left[v]] \cup S2[u.right[v]]
    BY <1>7, <2>1, <2>3, <2>4
  <2>6. S2[v] \subseteq (M \ {n}) \cup {v}
    BY <1>7, <2>1
  <2> QED BY <2>2, <2>5, <2>6
<1>13. PICK r2 : r2 = IF n = r THEN v ELSE r
  OBVIOUS
<1>14. r2 \in Ptr /\ r2 \in (M \ {n}) \cup {v} /\ S2[r2] = (M \ {n}) \cup {v} /\ u.parent[r2] = None
  <2>1. v # t.left[n] /\ v # t.right[n]
    BY <1>9 DEF Side
  <2>2. CASE n = r
    <3>1. u.parent[v] = None
      BY <1>2, <1>4, <2>1, <2>2
    <3> QED BY <1>3, <1>6, <1>7, <1>13, <2>2, <3>1
  <2>3. CASE n # r
    <3>1. r # t.left[n] /\ r # t.right[n]
      <4>1. \A o \in Side : t[o][n] # None => t.parent[t[o][n]] = n
        BY <1>9
      <4> QED BY <1>3, <1>4, <4>1 DEF Side
    <3>2. u.parent[r] = None
      BY <1>2, <1>3, <1>4, <3>1
    <3>3. S2[r] = (M \ {n}) \cup {v}
      BY <1>3, <1>4, <1>8
    <3> QED BY <1>3, <1>4, <1>13, <2>3, <3>2, <3>3
  <2> QED BY <2>2, <2>3
<1>15. (M \ {n}) \cup {v} \subseteq Node
  BY <1>3
<1>16. TreeAt(u, r2, (M \ {n}) \cup {v}, S2, sc)
  <2>1. \A a \in (M \ {n}) \cup {v} :
          /\ S2[a] \subseteq (M \ {n}) \cup {v}
          /\ S2[a] = {a} \cup S2[u.left[a]] \cup S2[u.right[a]]
          /\ \A s \in Side :
               /\ u[s][a] # None => u[s][a] \in (M \ {n}) \cup {v} /\ u.parent[u[s][a]] = a
               /\ \A k \in S2[u[s][a]] : OnSide(sc, k, a, s)
    BY <1>11, <1>12
  <2> QED BY <1>6, <1>14, <1>15, <2>1 DEF TreeAt
<1>17. \A a \in Node \ M, s \in Side : a # v => u[s][a] = t[s][a]
  <2>1. \A a \in Node \ M : a # p
    BY <1>3, <1>5
  <2> QED BY <1>2, <2>1
<1> QED BY <1>2, <1>13, <1>16, <1>17, <1>3 DEF IsTree

-----------------------------------------------------------------------------
(* Changes of nodes that are not in the tree *)

LEMMA InitTree ==
  ASSUME NEW t, NEW r, NEW M, NEW S, NEW sc, IsTree(t, r, M, S, sc),
         NEW n \in Node \ M, NEW u, u = avl_init(t, n)
  PROVE  /\ IsTree(u, r, M, S, sc)
         /\ u.left[n] = None /\ u.right[n] = None /\ u.parent[n] = None
         /\ \A a \in Node \ {n}, s \in Side : u[s][a] = t[s][a]
<1>1. /\ TreeType(u)
      /\ u.left[n] = None /\ u.right[n] = None /\ u.parent[n] = None
      /\ \A a \in Node \ {n} : /\ u.left[a] = t.left[a] /\ u.right[a] = t.right[a]
                               /\ u.parent[a] = t.parent[a]
  BY DEF avl_init, IsTree, TreeType, Ptr
<1>2. \A a \in Node \ {n}, s \in Side : u[s][a] = t[s][a]
  BY <1>1 DEF Side
<1>3. M \subseteq Node \ {n} /\ None \notin M
  BY ZSetConstants DEF IsTree, TreeAt
<1>4. ASSUME NEW a \in M
      PROVE  /\ S[a] = {a} \cup S[u.left[a]] \cup S[u.right[a]]
             /\ \A s \in Side :
                  /\ u[s][a] # None => u[s][a] \in M /\ u.parent[u[s][a]] = a
                  /\ \A m \in S[u[s][a]] : OnSide(sc, m, a, s)
  <2>1. /\ S[a] = {a} \cup S[t.left[a]] \cup S[t.right[a]]
        /\ \A s \in Side :
             /\ t[s][a] # None => t[s][a] \in M /\ t.parent[t[s][a]] = a
             /\ \A m \in S[t[s][a]] : OnSide(sc, m, a, s)
    BY DEF IsTree, TreeAt
  <2>2. a \in Node \ {n}
    BY <1>3
  <2>3. S[a] = {a} \cup S[u.left[a]] \cup S[u.right[a]]
    BY <1>1, <2>1, <2>2
  <2>4. ASSUME NEW s \in Side
        PROVE  /\ u[s][a] # None => u[s][a] \in M /\ u.parent[u[s][a]] = a
               /\ \A m \in S[u[s][a]] : OnSide(sc, m, a, s)
    <3>1. u[s][a] = t[s][a]
      BY <1>2, <2>2
    <3>2. ASSUME t[s][a] # None PROVE t[s][a] \in M /\ u.parent[t[s][a]] = a
      <4>1. t[s][a] \in M /\ t.parent[t[s][a]] = a
        BY <2>1, <3>2
      <4>2. t[s][a] \in Node \ {n}
        BY <1>3, <4>1
      <4> QED BY <1>1, <4>1, <4>2
    <3> QED BY <2>1, <3>1, <3>2
  <2> QED BY <2>3, <2>4
<1>5. r # None => r \in M /\ u.parent[r] = None
  BY <1>1, <1>3 DEF IsTree, TreeAt
<1>6. TreeAt(u, r, M, S, sc)
  <2>1. /\ M \subseteq Node /\ r \in Ptr
        /\ S \in [Ptr -> SUBSET Node] /\ S[None] = {} /\ S[r] = M
        /\ \A a \in M : S[a] \subseteq M
    BY DEF IsTree, TreeAt
  <2> QED BY <1>4, <1>5, <2>1 DEF TreeAt
<1> QED BY <1>1, <1>2, <1>6 DEF IsTree

LEMMA ScoreTree ==
  ASSUME NEW t, NEW r, NEW M, NEW S, NEW sc, IsTree(t, r, M, S, sc),
         NEW n \in Node \ M, NEW x \in Int, NEW sc2, sc2 = [sc EXCEPT ![n] = x]
  PROVE  IsTree(t, r, M, S, sc2)
<1>1. ScoreType(sc2) /\ \A a \in Node \ {n} : sc2[a] = sc[a]
  BY DEF IsTree, ScoreType
<1>2. M \subseteq Node \ {n}
  BY DEF IsTree, TreeAt
<1>3. \A a \in M, b \in M : Before(sc, a, b) <=> Before(sc2, a, b)
  BY <1>1, <1>2 DEF Before, zless
<1>4. ASSUME NEW a \in M, NEW s \in Side, NEW m \in S[t[s][a]]
      PROVE  OnSide(sc2, m, a, s)
  <2>1. OnSide(sc, m, a, s)
    BY DEF IsTree, TreeAt
  <2>2. m \in M
    <3>1. S[t[s][a]] \subseteq S[a] /\ S[a] \subseteq M
      BY Below DEF IsTree
    <3> QED BY <3>1
  <2> QED BY <1>3, <2>1, <2>2 DEF OnSide
<1> QED BY <1>1, <1>4 DEF IsTree, TreeAt

-----------------------------------------------------------------------------
(* The steps of the code on a tree *)

Holds(t, r, M, sc) == \E S : IsTree(t, r, M, S, sc)

\* avl_del up to its calls of avl_fix: d is detached.
LEMMA DelTree ==
  ASSUME NEW t, NEW r, NEW h, NEW sc, Holds(t, r, h, sc), Leaves(t, h), NEW n \in h,
         NEW both, both <=> t.left[n] # None /\ t.right[n] # None,
         NEW d, d = IF both THEN leftmost(t, t.right[n]) ELSE n,
         NEW u, u = avl_detach(t, d)
  PROVE  /\ d \in h /\ only_child(t, d) \in Ptr
         /\ Holds(u, IF d = r THEN only_child(t, d) ELSE r, h \ {d}, sc)
         /\ Leaves(u, h)
         /\ t.parent[d] = None <=> d = r
         /\ t.parent[d] # None => t.parent[d] \in h \ {d}
         /\ both => d # n /\ d # r /\ StandsFor(sc, h \ {d}, n, d)
<1>1. PICK S : IsTree(t, r, h, S, sc)
  BY DEF Holds
<1>2. ASSUME d \in h, t.left[d] = None \/ t.right[d] = None
      PROVE  /\ only_child(t, d) \in Ptr
             /\ Holds(u, IF d = r THEN only_child(t, d) ELSE r, h \ {d}, sc)
             /\ Leaves(u, h)
             /\ t.parent[d] = None <=> d = r
             /\ t.parent[d] # None => t.parent[d] \in h \ {d}
  <2>1. only_child(t, d) \in Ptr
    BY <1>1, <1>2, OnlyChild
  <2>2. PICK S2 : S2 = Removed(S, d)
    OBVIOUS
  <2>3. /\ IsTree(u, IF d = r THEN only_child(t, d) ELSE r, h \ {d}, S2, sc)
        /\ \A a \in Node \ h, s \in Side : u[s][a] = t[s][a]
    BY <1>1, <1>2, <2>2, DetachTree
  <2>4. Leaves(u, h)
    BY <2>3 DEF Leaves
  <2>5. /\ t.parent[d] = None <=> d = r
        /\ t.parent[d] # None => t.parent[d] \in h \ {d}
    BY <1>1, <1>2, RootOnly
  <2> QED BY <2>1, <2>3, <2>4, <2>5 DEF Holds
<1>3. CASE both
  <2>1. PICK c : c = t.right[n]
    OBVIOUS
  <2>2. c \in h
    <3>1. t["right"][n] # None => t["right"][n] \in h
      BY <1>1, Below DEF IsTree, Side
    <3> QED BY <1>3, <2>1, <3>1
  <2>3. d = leftmost(t, c)
    BY <1>3, <2>1
  <2>4. /\ d \in h /\ d \in S[c] /\ t.left[d] = None
        /\ \A m \in S[c] : m = d \/ Before(sc, d, m)
    BY <1>1, <2>2, <2>3, Leftmost
  <2>5. StandsFor(sc, h, n, d) /\ d # n
    BY <1>1, <2>1, <2>4, Successor
  <2>6. d # r
    <3>1. n \notin S[c]
      BY <1>1, <2>1, Below DEF IsTree
    <3>2. S[d] \subseteq S[c]
      BY <1>1, <2>2, <2>4, Nested
    <3>3. S[r] = h
      BY <1>1 DEF IsTree, TreeAt
    <3> QED BY <3>1, <3>2, <3>3
  <2>7. StandsFor(sc, h \ {d}, n, d)
    BY <2>5 DEF StandsFor
  <2> QED BY <1>2, <2>4, <2>5, <2>6, <2>7
<1>4. CASE ~both
  <2>1. d = n /\ (t.left[d] = None \/ t.right[d] = None)
    BY <1>4
  <2> QED BY <1>4, <1>2, <2>1
<1> QED BY <1>3, <1>4

\* One iteration of avl_fix.
LEMMA FixStep ==
  ASSUME NEW t, NEW r, NEW M, NEW sc, Holds(t, r, M, sc), NEW n \in M,
         NEW f, f = avl_fix_step(t, n), NEW h, M \subseteq h, Leaves(t, h)
  PROVE  /\ Holds(f.tree, IF r = n THEN f.top ELSE r, M, sc)
         /\ Leaves(f.tree, h) /\ f.top \in M
         /\ t.parent[n] = None <=> n = r
         /\ t.parent[n] # None => t.parent[n] \in M
<1>1. PICK S : IsTree(t, r, M, S, sc)
  BY DEF Holds
<1>2. /\ \E S2 : IsTree(f.tree, IF r = n THEN f.top ELSE r, M, S2, sc)
      /\ \A m \in Node \ M, s \in Side : f.tree[s][m] = t[s][m]
      /\ f.top \in M
  BY <1>1, FixTree
<1>3. Leaves(f.tree, h)
  BY <1>2 DEF Leaves
<1>4. t.parent[n] = None <=> n = r
  BY <1>1, RootOnly
<1>5. t.parent[n] # None => t.parent[n] \in M
  BY <1>1, RootOnly
<1> QED BY <1>2, <1>3, <1>4, <1>5 DEF Holds

\* The end of avl_del for a node with two children.
LEMMA SwapStep ==
  ASSUME NEW t, NEW r, NEW M, NEW sc, Holds(t, r, M, sc), NEW n \in M,
         NEW v, v \in Node, v \notin M, StandsFor(sc, M, n, v),
         NEW u, u = avl_swap(t, n, v), NEW h, M \subseteq h, v \in h, Leaves(t, h)
  PROVE  /\ Holds(u, IF t.parent[n] = None THEN v ELSE r, (M \ {n}) \cup {v}, sc)
         /\ Leaves(u, h)
<1>1. PICK S : IsTree(t, r, M, S, sc)
  BY DEF Holds
<1>2. PICK S2 : S2 = Replaced(S, n, v)
  OBVIOUS
<1>3. /\ IsTree(u, IF n = r THEN v ELSE r, (M \ {n}) \cup {v}, S2, sc)
      /\ \A a \in Node \ M, s \in Side : a # v => u[s][a] = t[s][a]
  BY <1>1, <1>2, SwapTree
<1>4. t.parent[n] = None <=> n = r
  BY <1>1, RootOnly
<1>5. Leaves(u, h)
  BY <1>3 DEF Leaves
<1> QED BY <1>3, <1>4, <1>5 DEF Holds

\* avl_init, the new score and tree_insert up to avl_fix.
LEMMA InsertStep ==
  ASSUME NEW t, NEW r, NEW M, NEW sc, Holds(t, r, M, sc),
         NEW n, n \in Node, n \notin M, Leaves(t, M \cup {n}),
         NEW x \in Int, NEW sc2, sc2 = [sc EXCEPT ![n] = x],
         NEW u, u = tree_insert(avl_init(t, n), r, sc2, n)
  PROVE  /\ Holds(u, IF r = None THEN n ELSE r, M \cup {n}, sc2)
         /\ Leaves(u, M \cup {n})
<1>1. PICK S : IsTree(t, r, M, S, sc)
  BY DEF Holds
<1>2. IsTree(t, r, M, S, sc2)
  BY <1>1, ScoreTree
<1>3. PICK w : w = avl_init(t, n)
  OBVIOUS
<1>4. /\ IsTree(w, r, M, S, sc2)
      /\ w.left[n] = None /\ w.right[n] = None /\ w.parent[n] = None
      /\ \A a \in Node \ {n}, s \in Side : w[s][a] = t[s][a]
  BY <1>2, <1>3, InitTree
<1>5. Leaves(w, M)
  BY <1>4 DEF Leaves, Side
<1>6. u = tree_insert(w, r, sc2, n)
  BY <1>3
<1> QED BY <1>4, <1>5, <1>6, InsertTree DEF Holds

-----------------------------------------------------------------------------
(* Recursion *)

\* The value at m depends on values at smaller ranks.
IsRanked(D, V, N, rank, step) ==
  /\ N \in Nat /\ rank \in [D -> 0 .. N] /\ step \in [D -> [[D -> V] -> V]]
  /\ \A m \in D : \A f, g \in [D -> V] :
       (\A x \in D : rank[x] < rank[m] => f[x] = g[x]) => step[m][f] = step[m][g]

\* There is such a function.
LEMMA RankedRecursion ==
  ASSUME NEW D, NEW V, NEW N, NEW rank, NEW step, IsRanked(D, V, N, rank, step),
         NEW v \in V
  PROVE  \E f \in [D -> V] : \A m \in D : f[m] = step[m][f]
<1> DEFINE Upto(k, f) == \A m \in D : rank[m] <= k => f[m] = step[m][f]
           T == {k \in 0 .. N : \E f \in [D -> V] : Upto(k, f)}
<1>0. /\ N \in Nat /\ \A m \in D : rank[m] \in 0 .. N
      /\ \A m \in D : \A f \in [D -> V] : step[m][f] \in V
  BY DEF IsRanked
<1>1. ASSUME NEW m \in D, NEW f \in [D -> V], NEW g \in [D -> V],
             \A x \in D : rank[x] < rank[m] => f[x] = g[x]
      PROVE  step[m][f] = step[m][g]
  BY <1>1 DEF IsRanked
<1>2. 0 \in T
  <2> DEFINE e == [m \in D |-> v]
             g == [m \in D |-> step[m][e]]
  <2>1. e \in [D -> V]
    OBVIOUS
  <2> HIDE DEF e
  <2>2. g \in [D -> V] /\ \A m \in D : g[m] = step[m][e]
    BY <1>0, <2>1
  <2> HIDE DEF g
  <2>3. ASSUME NEW m \in D, rank[m] <= 0 PROVE g[m] = step[m][g]
    <3>1. \A x \in D : ~(rank[x] < rank[m])
      BY <1>0, <2>3
    <3>2. step[m][e] = step[m][g]
      BY <1>1, <2>1, <2>2, <3>1
    <3> QED BY <2>2, <3>2
  <2>4. Upto(0, g)
    BY <2>3
  <2>5. \E f \in [D -> V] : Upto(0, f)
    <3> HIDE DEF Upto
    <3> QED BY <2>2, <2>4, Zenon
  <2>6. 0 \in 0 .. N
    BY <1>0
  <2> HIDE DEF Upto
  <2> QED BY <2>5, <2>6
<1>3. ASSUME NEW k \in 0 .. N - 1, k \in T PROVE k + 1 \in T
  <2>1. PICK f \in [D -> V] : Upto(k, f)
    BY <1>3
  <2> DEFINE g == [m \in D |-> step[m][f]]
  <2>2. g \in [D -> V] /\ \A m \in D : g[m] = step[m][f]
    BY <1>0
  <2> HIDE DEF g
  <2>3. ASSUME NEW m \in D, rank[m] <= k + 1 PROVE g[m] = step[m][g]
    <3>1. ASSUME NEW x \in D, rank[x] < rank[m] PROVE f[x] = g[x]
      <4>1. rank[x] <= k
        BY <1>0, <2>3, <3>1
      <4> QED BY <2>1, <2>2, <4>1
    <3>2. step[m][f] = step[m][g]
      BY <1>1, <2>2, <3>1
    <3> QED BY <2>2, <3>2
  <2>4. Upto(k + 1, g)
    BY <2>3
  <2>5. \E h \in [D -> V] : Upto(k + 1, h)
    <3> HIDE DEF Upto
    <3> QED BY <2>2, <2>4, Zenon
  <2>6. k + 1 \in 0 .. N
    BY <1>0
  <2> HIDE DEF Upto
  <2> QED BY <2>5, <2>6
<1>4. N \in T
  <2> HIDE DEF T
  <2>1. \A k \in 0 .. N - 1 : k \in T => k + 1 \in T
    BY <1>3, Zenon
  <2>2. \A k \in 0 .. N : k \in T
    BY <1>0, <1>2, <2>1, InductionUpTo, Zenon
  <2> QED BY <1>0, <2>2
<1>5. PICK f \in [D -> V] : Upto(N, f)
  BY <1>4
<1>6. \A m \in D : f[m] = step[m][f]
  BY <1>0, <1>5
<1> QED BY <1>6

\* None is below every node.
DownRank(M, S) == [m \in Ptr |-> IF m \in M THEN Cardinality(S[m]) ELSE IF m = None THEN 0 ELSE 1]

LEMMA DownRanks ==
  ASSUME NEW t, NEW r, NEW M, NEW S, NEW sc, IsTree(t, r, M, S, sc), Leaves(t, M)
  PROVE  /\ Cardinality(Node) + 1 \in Nat
         /\ DownRank(M, S) \in [Ptr -> 0 .. Cardinality(Node) + 1]
         /\ \A m \in Node, s \in Side : /\ t[s][m] \in Ptr
                                        /\ DownRank(M, S)[t[s][m]] < DownRank(M, S)[m]
<1>1. Cardinality(Node) \in Nat /\ None \notin Node /\ M \subseteq Node /\ None \notin M
  BY ZSetConstants, FS_CardinalityType DEF IsTree, TreeAt
<1>2. \A m \in M : Cardinality(S[m]) \in 0 .. Cardinality(Node)
  BY <1>1, Shrinks
<1>3. DownRank(M, S) \in [Ptr -> 0 .. Cardinality(Node) + 1]
  BY <1>1, <1>2 DEF DownRank
<1>4. ASSUME NEW m \in Node, NEW s \in Side
      PROVE  t[s][m] \in Ptr /\ DownRank(M, S)[t[s][m]] < DownRank(M, S)[m]
  <2>1. t[s][m] \in Ptr /\ m \in Ptr /\ None \in Ptr /\ m # None
    BY <1>1 DEF IsTree, TreeType, Side, Ptr
  <2>2. DownRank(M, S)[None] = 0
    BY <1>1, <2>1 DEF DownRank
  <2>3. CASE m \notin M
    <3>1. t[s][m] = None
      BY <2>3 DEF Leaves
    <3>2. DownRank(M, S)[m] = 1
      BY <2>1, <2>3 DEF DownRank
    <3> QED BY <2>1, <2>2, <3>1, <3>2
  <2>4. CASE m \in M
    <3>1. DownRank(M, S)[m] = Cardinality(S[m])
      BY <2>1, <2>4 DEF DownRank
    <3>2. CASE t[s][m] = None
      <4>1. m \in S[m] /\ IsFiniteSet(S[m])
        BY <2>4, Below, Shrinks DEF IsTree
      <4>2. Cardinality(S[m]) > 0
        <5>1. Cardinality(S[m]) # 0
          BY <4>1, FS_EmptySet
        <5> QED BY <1>2, <2>4, <5>1
      <4> QED BY <2>1, <2>2, <3>1, <3>2, <4>2
    <3>3. CASE t[s][m] # None
      <4>1. t[s][m] \in M
        BY <2>4, <3>3, Below DEF IsTree
      <4>2. DownRank(M, S)[t[s][m]] = Cardinality(S[t[s][m]])
        BY <2>1, <4>1 DEF DownRank
      <4>3. Cardinality(S[t[s][m]]) < Cardinality(S[m])
        BY <2>4, <3>3, Shrinks
      <4> QED BY <2>1, <3>1, <4>2, <4>3
    <3> QED BY <3>2, <3>3
  <2> QED BY <2>3, <2>4
<1> QED BY <1>1, <1>3, <1>4

-----------------------------------------------------------------------------
(* The lookup of ZQUERY *)

\* One iteration of zset_seekge at m.
SeekStep(t, sc, s, n, m, f) ==
  IF m = None THEN None
  ELSE IF zless(sc, m, s, n) THEN f[t.right[m]]
  ELSE IF f[t.left[m]] = None THEN m ELSE f[t.left[m]]

Seeks(f, t, sc, s, n) == f = [m \in Ptr |-> SeekStep(t, sc, s, n, m, f)]

LEMMA SeekExists ==
  ASSUME NEW t, NEW r, NEW M, NEW S, NEW sc, IsTree(t, r, M, S, sc), Leaves(t, M),
         NEW s, NEW n
  PROVE  \E f : Seeks(f, t, sc, s, n)
<1> DEFINE step == [m \in Ptr |-> [f \in [Ptr -> Ptr] |-> SeekStep(t, sc, s, n, m, f)]]
<1>1. \A m \in Node : t.left[m] \in Ptr /\ t.right[m] \in Ptr
  BY DEF IsTree, TreeType
<1>2. step \in [Ptr -> [[Ptr -> Ptr] -> Ptr]]
  BY <1>1 DEF SeekStep, Ptr
<1>3. ASSUME NEW m \in Ptr, NEW f \in [Ptr -> Ptr], NEW g \in [Ptr -> Ptr],
             \A x \in Ptr : DownRank(M, S)[x] < DownRank(M, S)[m] => f[x] = g[x]
      PROVE  step[m][f] = step[m][g]
  <2>1. CASE m = None
    BY <2>1 DEF SeekStep
  <2>2. CASE m # None
    <3>1. m \in Node
      BY <2>2 DEF Ptr
    <3>2. /\ DownRank(M, S)[t["left"][m]] < DownRank(M, S)[m]
          /\ DownRank(M, S)[t["right"][m]] < DownRank(M, S)[m]
      BY <3>1, DownRanks DEF Side
    <3>3. f[t.left[m]] = g[t.left[m]] /\ f[t.right[m]] = g[t.right[m]]
      BY <1>1, <1>3, <3>1, <3>2
    <3> QED BY <3>3 DEF SeekStep
  <2> QED BY <2>1, <2>2
<1>4. IsRanked(Ptr, Ptr, Cardinality(Node) + 1, DownRank(M, S), step)
  <2> HIDE DEF step
  <2> QED BY <1>2, <1>3, DownRanks DEF IsRanked
<1>5. None \in Ptr
  BY DEF Ptr
<1>6. PICK f \in [Ptr -> Ptr] : \A m \in Ptr : f[m] = step[m][f]
  <2> HIDE DEF step
  <2> QED BY <1>4, <1>5, RankedRecursion
<1>7. Seeks(f, t, sc, s, n)
  BY <1>6 DEF Seeks
<1> QED BY <1>7

\* What comes before a pair is not one of the candidates.
Found(sc, s, n, X, m) ==
  IF m = None THEN \A a \in X : zless(sc, a, s, n)
  ELSE /\ m \in X /\ ~zless(sc, m, s, n)
       /\ \A a \in X : zless(sc, a, s, n) \/ a = m \/ Before(sc, m, a)

\* zset_seekge finds the first node that does not come before the pair.
LEMMA SeekFinds ==
  ASSUME NEW t, NEW r, NEW M, NEW S, NEW sc, IsTree(t, r, M, S, sc),
         NEW s \in Int, NEW n \in Nat, NEW f, Seeks(f, t, sc, s, n)
  PROVE  Found(sc, s, n, M, f[r])
<1>1. M \subseteq Node /\ None \notin M /\ None \in Ptr /\ S[None] = {} /\ S[r] = M /\ r \in Ptr
      /\ ScoreType(sc)
  BY ZSetConstants DEF IsTree, TreeAt, Ptr
<1>2. \A m \in Ptr : f[m] = SeekStep(t, sc, s, n, m, f)
  BY DEF Seeks
<1>3. Found(sc, s, n, S[None], f[None]) /\ f[None] = None
  BY <1>1, <1>2 DEF Found, SeekStep
<1>4. ASSUME NEW a \in Node, NEW b \in Node, Before(sc, a, b), zless(sc, b, s, n)
      PROVE  zless(sc, a, s, n)
  BY <1>1, <1>4, ZSetConstants DEF zless, Before, ScoreType
<1> DEFINE X == {m \in M : ~Found(sc, s, n, S[m], f[m])}
<1>5. ASSUME X # {} PROVE FALSE
  <2>1. PICK m \in X : \A o \in Side : t[o][m] \notin X
    BY <1>5, Smallest
  <2>2. m \in M /\ m \in Node /\ m \in Ptr /\ m # None
    BY <1>1 DEF Ptr
  <2>3. ASSUME NEW o \in Side
        PROVE  Found(sc, s, n, S[t[o][m]], f[t[o][m]])
    <3>1. t[o][m] # None => t[o][m] \in M
      BY <2>2, Below DEF IsTree
    <3> QED BY <1>3, <2>1, <3>1
  <2>4. Found(sc, s, n, S[t.left[m]], f[t.left[m]]) /\ Found(sc, s, n, S[t.right[m]], f[t.right[m]])
    BY <2>3 DEF Side
  <2>5. /\ S[m] = {m} \cup S[t.left[m]] \cup S[t.right[m]]
        /\ \A a \in S[t.left[m]] : a \in Node /\ Before(sc, a, m)
        /\ \A a \in S[t.right[m]] : a \in Node /\ Before(sc, m, a)
    <3>1. S[m] = {m} \cup S[t.left[m]] \cup S[t.right[m]] /\ S[m] \subseteq M
      BY <2>2 DEF IsTree, TreeAt
    <3>2. /\ \A a \in S[t.left[m]] : OnSide(sc, a, m, "left")
          /\ \A a \in S[t.right[m]] : OnSide(sc, a, m, "right")
      BY <2>2 DEF IsTree, TreeAt, Side
    <3> QED BY <1>1, <3>1, <3>2 DEF OnSide
  <2>6. f[m] = IF zless(sc, m, s, n) THEN f[t.right[m]]
               ELSE IF f[t.left[m]] = None THEN m ELSE f[t.left[m]]
    BY <1>2, <2>2 DEF SeekStep
  <2>7. Found(sc, s, n, S[m], f[m])
    <3>1. CASE zless(sc, m, s, n)
      <4>1. \A a \in S[t.left[m]] : zless(sc, a, s, n)
        BY <1>4, <2>2, <2>5, <3>1
      <4>2. f[m] = f[t.right[m]]
        BY <2>6, <3>1
      <4> QED BY <2>4, <2>5, <3>1, <4>1, <4>2 DEF Found
    <3>2. CASE ~zless(sc, m, s, n) /\ f[t.left[m]] = None
      <4>1. f[m] = m
        BY <2>6, <3>2
      <4>2. \A a \in S[t.left[m]] : zless(sc, a, s, n)
        BY <2>4, <3>2 DEF Found
      <4> QED BY <2>2, <2>5, <3>2, <4>1, <4>2 DEF Found
    <3>3. CASE ~zless(sc, m, s, n) /\ f[t.left[m]] # None
      <4>1. PICK b \in S[t.left[m]] : b = f[t.left[m]] /\ ~zless(sc, b, s, n)
                          /\ \A a \in S[t.left[m]] : zless(sc, a, s, n) \/ a = b \/ Before(sc, b, a)
        BY <2>4, <3>3 DEF Found
      <4>2. f[m] = b /\ b # None /\ b \in S[m] /\ b \in Node /\ Before(sc, b, m)
        BY <1>1, <2>5, <2>6, <3>3, <4>1
      <4>3. \A a \in S[t.right[m]] : Before(sc, b, a)
        BY <1>1, <2>2, <2>5, <4>2, Order
      <4> QED BY <2>5, <4>1, <4>2, <4>3 DEF Found
    <3> QED BY <3>1, <3>2, <3>3
  <2> QED BY <2>1, <2>7
<1>6. r # None => r \in M
  BY DEF IsTree, TreeAt
<1> QED BY <1>1, <1>3, <1>5, <1>6

-----------------------------------------------------------------------------
(* The invariant *)

\* The root of the tree: a pointer that dangles is that of an empty tree.
TopOf(x) == IF x = Freed THEN None ELSE x

\* The nodes in the tree while an update runs, by what comes after avl_fix.
InTree(h, j, k) == IF k = "inserted" THEN h
                   ELSE IF k = "swap" THEN (h \cup {j.name}) \ {j.victim}
                   ELSE h \ {j.name}

\* The state of an update, with the root at r, that goes on at k.
Stage(t, r, h, sc, j, k) ==
  /\ k \in {"inserted", "swap", "deleted"} /\ j.name \in Node
  /\ Holds(t, r, InTree(h, j, k), sc) /\ Leaves(t, h \cup {j.name})
  /\ k = "inserted" => j.name \in h
  /\ k = "swap" => /\ j.victim \in h /\ j.victim # j.name
                   /\ StandsFor(sc, InTree(h, j, k), j.name, j.victim)

TreeInv ==
  /\ pc \in {"idle", "offset", "reply"} => Holds(tree, TopOf(root), hmap, score) /\ Leaves(tree, hmap)
  /\ pc = "offset" => node \in Node
  /\ pc = "fix" => /\ \E r : Stage(tree, r, hmap, score, job, job.after)
                   /\ node \in InTree(hmap, job, job.after)
  /\ pc \in {"inserted", "swap", "deleted"} => Stage(tree, ret, hmap, score, job, pc)
  /\ pc \in {"fix", "swap", "deleted"} =>
       /\ job.op = "delete" => job.name \notin hmap
       /\ job.op = "update" => job.name \in hmap

ZInv == TypeOK /\ TreeInv

LEMMA UntouchedTree ==
  /\ TreeType(Untouched)
  /\ \A sc : ScoreType(sc) => Holds(Untouched, None, {}, sc)
  /\ \A M : Leaves(Untouched, M)
<1>1. TreeType(Untouched) /\ Untouched.left = [n \in Node |-> None]
      /\ Untouched.right = [n \in Node |-> None]
  BY DEF Untouched, TreeType, Ptr
<1>2. \A M : Leaves(Untouched, M)
  BY <1>1 DEF Leaves, Side
<1>3. ASSUME NEW sc, ScoreType(sc) PROVE Holds(Untouched, None, {}, sc)
  <2>1. PICK S : S = [a \in Ptr |-> {}]
    OBVIOUS
  <2>2. S \in [Ptr -> SUBSET Node] /\ S[None] = {} /\ None \in Ptr
    BY <2>1 DEF Ptr
  <2>3. TreeAt(Untouched, None, {}, S, sc)
    BY <2>2 DEF TreeAt
  <2> QED BY <1>1, <1>3, <2>3 DEF Holds, IsTree
<1> QED BY <1>1, <1>2, <1>3

LEMMA HoldsType ==
  ASSUME NEW t, NEW r, NEW M, NEW sc, Holds(t, r, M, sc)
  PROVE  TreeType(t) /\ ScoreType(sc) /\ r \in Ptr /\ M \subseteq Node /\ (r = None => M = {})
BY DEF Holds, IsTree, TreeAt

LEMMA ZInvInit == Init => ZInv
<1> SUFFICES ASSUME Init PROVE ZInv
  OBVIOUS
<1>1. score \in [Node -> Score \cup {0}] /\ ScoreType(score)
  BY DEF Init, ScoreType
<1>2. TypeOK
  <2>1. NoJob \in [op : {"none", "insert", "update", "delete"}, name : Ptr,
                   val : Score \cup {0}, victim : Ptr,
                   after : {"idle", "swap", "deleted", "inserted"}]
    BY DEF NoJob, Ptr
  <2>2. NoQuery \in [score : Int, name : Nat, offset : Int, limit : Int]
    BY DEF NoQuery
  <2>3. root \in Ptr \cup {Freed} /\ None \in Ptr /\ reply \in Seq(Node) /\ hmap \subseteq Node
    BY DEF Ptr, Init
  <2>4. pc \in {"idle", "fix", "swap", "deleted", "inserted", "offset", "reply", "undefined"}
        /\ 0 \in Int /\ FALSE \in BOOLEAN
    BY DEF Init
  <2> QED BY <1>1, <2>1, <2>2, <2>3, <2>4, UntouchedTree, Zenon DEF Init, TypeOK, TreeType
<1>3. TopOf(root) = None
  BY ZSetConstants DEF Init, TopOf
<1>4. TreeInv
  BY <1>1, <1>3, UntouchedTree DEF Init, TreeInv
<1> QED BY <1>2, <1>4 DEF ZInv

\* Between the updates the tree has a root or the set is empty.
LEMMA Idle ==
  ASSUME TypeOK, TreeInv, pc \in {"idle", "offset", "reply"}
  PROVE  /\ Holds(tree, TopOf(root), hmap, score) /\ Leaves(tree, hmap)
         /\ TopOf(root) \in Ptr /\ ScoreType(score) /\ hmap \subseteq Node
         /\ root = Freed => hmap = {}
         /\ root # Freed => TopOf(root) = root
<1>1. Holds(tree, TopOf(root), hmap, score) /\ Leaves(tree, hmap)
  BY DEF TreeInv
<1> QED BY <1>1, HoldsType DEF TopOf

-----------------------------------------------------------------------------
(* Every action keeps it *)

JobType == [op : {"none", "insert", "update", "delete"}, name : Ptr,
            val : Score \cup {0}, victim : Ptr,
            after : {"idle", "swap", "deleted", "inserted"}]

LEMMA InsertKeeps ==
  ASSUME TypeOK, TreeInv, NEW n \in Node, NEW s \in Score, zset_insert(n, s)
  PROVE  TypeOK' /\ TreeInv'
<1>1. /\ Holds(tree, TopOf(root), hmap, score) /\ Leaves(tree, hmap)
      /\ root # Freed => TopOf(root) = root
      /\ pc = "idle" /\ hmap' = hmap \cup {n} /\ hmap' \subseteq Node
      /\ score' = [score EXCEPT ![n] = s]
      /\ root' = root /\ ret' = ret /\ q' = q /\ pos' = pos /\ off' = off /\ reply' = reply
      /\ swapped' = swapped
  BY Idle DEF zset_insert, queryVars
<1>2. score' \in [Node -> Score \cup {0}]
  BY <1>1 DEF TypeOK
<1>3. CASE root = Freed
  <2>1. pc' = "undefined" /\ tree' = tree /\ job' = job /\ node' = node
    BY <1>3 DEF zset_insert
  <2>2. pc' \in {"idle", "fix", "swap", "deleted", "inserted", "offset", "reply", "undefined"}
    BY <2>1
  <2>3. TypeOK'
    BY <1>1, <1>2, <2>1, <2>2, Zenon DEF TypeOK
  <2>4. TreeInv'
    BY <2>1 DEF TreeInv
  <2> QED BY <2>3, <2>4
<1>4. CASE root # Freed
  <2>1. /\ tree' = tree_insert(avl_init(tree, n), root, score', n)
        /\ node' = n /\ pc' = "fix"
        /\ job' = [NoJob EXCEPT !.op = "insert", !.name = n, !.after = "inserted"]
    BY <1>4 DEF zset_insert
  <2>2. n \notin hmap
    BY <1>1, <1>4, HoldsType DEF zset_insert, zset_lookup
  <2>3. Leaves(tree, hmap \cup {n})
    BY <1>1 DEF Leaves
  <2>4. s \in Int
    BY ZSetConstants
  <2>5. /\ Holds(tree', IF root = None THEN n ELSE root, hmap', score')
        /\ Leaves(tree', hmap')
    BY <1>1, <1>4, <2>1, <2>2, <2>3, <2>4, InsertStep
  <2>6. /\ job'.op = "insert" /\ job'.name = n /\ job'.after = "inserted"
        /\ job' \in JobType
    BY <2>1 DEF NoJob, JobType, Ptr
  <2>7. TreeType(tree')
    BY <2>5, HoldsType
  <2>8. n \in hmap' /\ hmap' \cup {n} = hmap' /\ n \in Ptr
    BY <1>1 DEF Ptr
  <2>9. Stage(tree', IF root = None THEN n ELSE root, hmap', score', job', job'.after)
    BY <2>5, <2>6, <2>8 DEF Stage, InTree
  <2>10. TreeInv'
    BY <2>1, <2>6, <2>8, <2>9 DEF TreeInv, InTree
  <2>11. pc' \in {"idle", "fix", "swap", "deleted", "inserted", "offset", "reply", "undefined"}
    BY <2>1
  <2>12. TypeOK'
    BY <1>1, <1>2, <2>1, <2>6, <2>7, <2>8, <2>11, Zenon DEF TypeOK, TreeType, JobType
  <2> QED BY <2>10, <2>12
<1> QED BY <1>3, <1>4

LEMMA DeletionKeeps ==
  ASSUME TypeOK, TreeInv, pc = "idle", NEW n \in hmap, NEW s \in Score \cup {0},
         NEW op \in {"update", "delete"}, avl_del(op, n, s),
         hmap' = IF op = "delete" THEN hmap \ {n} ELSE hmap,
         UNCHANGED <<root, score, queryVars, swapped>>
  PROVE  TypeOK' /\ TreeInv'
<1>1. PICK r : /\ r = TopOf(root) /\ Holds(tree, r, hmap, score) /\ Leaves(tree, hmap)
               /\ hmap \subseteq Node
  BY Idle
<1>2. PICK both : both <=> tree.left[n] # None /\ tree.right[n] # None
  OBVIOUS
<1>3. PICK d : d = IF both THEN leftmost(tree, tree.right[n]) ELSE n
  OBVIOUS
<1>4. PICK p : p = tree.parent[d]
  OBVIOUS
<1>5. /\ tree' = avl_detach(tree, d)
      /\ job' = [op |-> op, name |-> n, val |-> s,
                 victim |-> IF both THEN d ELSE None,
                 after |-> IF both THEN "swap" ELSE "deleted"]
      /\ node' = p
      /\ ret' = IF p = None THEN only_child(tree, d) ELSE None
      /\ pc' = IF p = None THEN "deleted" ELSE "fix"
  BY <1>2, <1>3, <1>4 DEF avl_del
<1>6. /\ d \in hmap /\ only_child(tree, d) \in Ptr
      /\ Holds(tree', IF d = r THEN only_child(tree, d) ELSE r, hmap \ {d}, score)
      /\ Leaves(tree', hmap)
      /\ p = None <=> d = r
      /\ p # None => p \in hmap \ {d}
      /\ both => d # n /\ d # r /\ StandsFor(score, hmap \ {d}, n, d)
  BY <1>1, <1>2, <1>3, <1>4, <1>5, DelTree
<1>7. /\ hmap' \cup {n} = hmap /\ hmap' \ {n} = hmap \ {n} /\ score' = score
      /\ hmap' \subseteq Node /\ n \in Node
      /\ op = "delete" => n \notin hmap'
      /\ op = "update" => n \in hmap'
  BY <1>1
<1>8. /\ job'.op = op /\ job'.name = n
      /\ job'.victim = IF both THEN d ELSE None
      /\ job'.after = IF both THEN "swap" ELSE "deleted"
  BY <1>5
<1>9. InTree(hmap', job', job'.after) = hmap \ {d}
  <2>1. CASE both
    BY <1>7, <1>8, <2>1 DEF InTree
  <2>2. CASE ~both
    BY <1>3, <1>7, <1>8, <2>2 DEF InTree
  <2> QED BY <2>1, <2>2
<1>10. Stage(tree', IF d = r THEN only_child(tree, d) ELSE r, hmap', score', job', job'.after)
  <2>1. job'.after = "swap" => /\ job'.victim \in hmap' /\ job'.victim # job'.name
                               /\ StandsFor(score', InTree(hmap', job', job'.after), n, d)
                               /\ job'.victim = d
    BY <1>6, <1>7, <1>8, <1>9
  <2>2. job'.after \in {"swap", "deleted"}
    BY <1>8
  <2> QED BY <1>6, <1>7, <1>8, <1>9, <2>1, <2>2 DEF Stage
<1>11. TreeInv'
  <2>1. CASE p = None
    <3>1. job'.after = "deleted"
      BY <1>6, <1>8, <2>1
    <3>2. pc' = "deleted" /\ ret' = only_child(tree, d) /\ d = r
      BY <1>5, <1>6, <2>1
    <3>3. Stage(tree', ret', hmap', score', job', pc')
      BY <1>10, <3>1, <3>2
    <3> QED BY <1>7, <1>8, <3>2, <3>3 DEF TreeInv
  <2>2. CASE p # None
    <3>1. pc' = "fix" /\ node' = p /\ p \in InTree(hmap', job', job'.after)
      BY <1>5, <1>6, <1>9, <2>2
    <3> QED BY <1>7, <1>8, <1>10, <3>1 DEF TreeInv
  <2> QED BY <2>1, <2>2
<1>12. TypeOK'
  <2>1. TreeType(tree')
    BY <1>6, HoldsType
  <2>2. job' \in JobType
    <3>1. n \in Ptr /\ d \in Ptr /\ None \in Ptr
      BY <1>1, <1>6 DEF Ptr
    <3> QED BY <1>5, <3>1 DEF JobType
  <2>3. node' \in Ptr /\ ret' \in Ptr
    BY <1>1, <1>5, <1>6 DEF Ptr
  <2>4. pc' \in {"idle", "fix", "swap", "deleted", "inserted", "offset", "reply", "undefined"}
    BY <1>5
  <2>5. /\ root' = root /\ score' = score /\ swapped' = swapped
        /\ q' = q /\ pos' = pos /\ off' = off /\ reply' = reply
    BY DEF queryVars
  <2> QED BY <1>7, <2>1, <2>2, <2>3, <2>4, <2>5, Zenon DEF TypeOK, TreeType, JobType
<1> QED BY <1>11, <1>12

LEMMA UpdateKeeps ==
  ASSUME TypeOK, TreeInv, NEW n \in Node, NEW s \in Score, zset_update(n, s)
  PROVE  TypeOK' /\ TreeInv'
<1>1. pc = "idle" /\ n \in hmap /\ s \in Score \cup {0} /\ avl_del("update", n, s)
      /\ hmap' = hmap /\ UNCHANGED <<root, score, queryVars, swapped>>
  BY DEF zset_update, zset_lookup
<1> QED BY <1>1, DeletionKeeps

LEMMA DeleteKeeps ==
  ASSUME TypeOK, TreeInv, NEW n \in Node, zset_delete(n)
  PROVE  TypeOK' /\ TreeInv'
<1>1. pc = "idle" /\ n \in hmap /\ 0 \in Score \cup {0} /\ avl_del("delete", n, 0)
      /\ hmap' = hmap \ {n} /\ UNCHANGED <<root, score, queryVars, swapped>>
  BY DEF zset_delete, zset_lookup
<1> QED BY <1>1, DeletionKeeps

LEMMA FixKeeps ==
  ASSUME TypeOK, TreeInv, avl_fix
  PROVE  TypeOK' /\ TreeInv'
<1>1. PICK f : f = avl_fix_step(tree, node)
  OBVIOUS
<1>2. PICK p : p = tree.parent[node]
  OBVIOUS
<1>3. /\ pc = "fix" /\ tree' = f.tree /\ node' = p
      /\ ret' = IF p = None THEN f.top ELSE None
      /\ pc' = IF p = None THEN job.after ELSE "fix"
      /\ root' = root /\ hmap' = hmap /\ score' = score /\ job' = job
      /\ q' = q /\ pos' = pos /\ off' = off /\ reply' = reply /\ swapped' = swapped
  BY <1>1, <1>2 DEF avl_fix, queryVars
<1>4. PICK r : Stage(tree, r, hmap, score, job, job.after)
  BY <1>3 DEF TreeInv
<1>5. PICK M : M = InTree(hmap, job, job.after)
  OBVIOUS
<1>6. node \in M /\ M \subseteq hmap \cup {job.name}
  BY <1>3, <1>5 DEF TreeInv, InTree
<1>7. /\ Holds(f.tree, IF r = node THEN f.top ELSE r, M, score)
      /\ Leaves(f.tree, hmap \cup {job.name}) /\ f.top \in M
      /\ p = None <=> node = r
      /\ p # None => p \in M
  BY <1>1, <1>2, <1>4, <1>5, <1>6, FixStep DEF Stage
<1>8. Stage(tree', IF r = node THEN f.top ELSE r, hmap', score', job', job'.after)
  BY <1>3, <1>4, <1>5, <1>7 DEF Stage
<1>9. job.after \in {"inserted", "swap", "deleted"}
  BY <1>4 DEF Stage
<1>10. /\ job'.op = "delete" => job'.name \notin hmap'
       /\ job'.op = "update" => job'.name \in hmap'
  BY <1>3 DEF TreeInv
<1>11. TreeInv'
  <2>1. CASE p = None
    <3>1. pc' = job'.after /\ ret' = f.top /\ node = r
      BY <1>3, <1>7, <2>1
    <3>2. Stage(tree', ret', hmap', score', job', pc')
      BY <1>8, <3>1
    <3> QED BY <1>3, <1>9, <1>10, <3>1, <3>2 DEF TreeInv
  <2>2. CASE p # None
    <3>1. pc' = "fix" /\ node' \in InTree(hmap', job', job'.after)
      BY <1>3, <1>5, <1>7, <2>2
    <3> QED BY <1>8, <1>10, <3>1 DEF TreeInv
  <2> QED BY <2>1, <2>2
<1>12. TypeOK'
  <2>1. TreeType(tree')
    BY <1>3, <1>7, HoldsType
  <2>2. node' \in Ptr /\ ret' \in Ptr
    <3>1. M \subseteq Node
      BY <1>7, HoldsType
    <3> QED BY <1>3, <1>7, <3>1 DEF Ptr
  <2>3. pc' \in {"idle", "fix", "swap", "deleted", "inserted", "offset", "reply", "undefined"}
    BY <1>3, <1>9
  <2> QED BY <1>3, <2>1, <2>2, <2>3, Zenon DEF TypeOK, TreeType
<1> QED BY <1>11, <1>12

LEMMA SwapKeeps ==
  ASSUME TypeOK, TreeInv, avl_del_swap
  PROVE  TypeOK' /\ TreeInv'
<1>1. PICK n : n = job.name
  OBVIOUS
<1>2. PICK v : v = job.victim
  OBVIOUS
<1>3. /\ pc = "swap" /\ tree' = avl_swap(tree, n, v)
      /\ ret' = IF tree.parent[n] = None THEN v ELSE ret
      /\ pc' = "deleted" /\ swapped' = TRUE
      /\ root' = root /\ hmap' = hmap /\ score' = score /\ job' = job /\ node' = node
      /\ q' = q /\ pos' = pos /\ off' = off /\ reply' = reply
  BY <1>1, <1>2 DEF avl_del_swap, queryVars
<1>4. PICK M : M = (hmap \cup {n}) \ {v}
  OBVIOUS
<1>5. /\ Holds(tree, ret, M, score) /\ Leaves(tree, hmap \cup {n}) /\ n \in Node
      /\ v \in hmap /\ v # n /\ StandsFor(score, M, n, v)
  BY <1>1, <1>2, <1>3, <1>4 DEF TreeInv, Stage, InTree
<1>6. hmap \subseteq Node
  BY DEF TypeOK
<1>7. /\ Holds(tree', ret', (M \ {n}) \cup {v}, score)
      /\ Leaves(tree', hmap \cup {n})
  <2>1. n \in M /\ v \in Node /\ v \notin M /\ M \subseteq hmap \cup {n} /\ v \in hmap \cup {n}
    BY <1>4, <1>5, <1>6
  <2> QED BY <1>3, <1>5, <2>1, SwapStep
<1>8. (M \ {n}) \cup {v} = InTree(hmap', job', "deleted")
  BY <1>1, <1>3, <1>4, <1>5 DEF InTree
<1>9. Stage(tree', ret', hmap', score', job', pc')
  BY <1>1, <1>3, <1>5, <1>7, <1>8 DEF Stage
<1>10. TreeInv'
  BY <1>3, <1>9 DEF TreeInv
<1>11. TypeOK'
  <2>1. TreeType(tree') /\ ret' \in Ptr
    BY <1>7, HoldsType
  <2>2. pc' \in {"idle", "fix", "swap", "deleted", "inserted", "offset", "reply", "undefined"}
        /\ swapped' \in BOOLEAN
    BY <1>3
  <2> QED BY <1>3, <2>1, <2>2, Zenon DEF TypeOK, TreeType
<1> QED BY <1>10, <1>11

LEMMA ReinsertKeeps ==
  ASSUME TypeOK, TreeInv, update_reinsert
  PROVE  TypeOK' /\ TreeInv'
<1>1. PICK n : n = job.name
  OBVIOUS
<1>2. PICK x : x = job.val
  OBVIOUS
<1>3. /\ pc = "deleted" /\ job.op = "update" /\ root' = ret
      /\ score' = [score EXCEPT ![n] = x]
      /\ tree' = tree_insert(avl_init(tree, n), ret, score', n)
      /\ node' = n /\ ret' = None /\ pc' = "fix" /\ hmap' = hmap
      /\ job' = [job EXCEPT !.victim = None, !.after = "inserted"]
      /\ q' = q /\ pos' = pos /\ off' = off /\ reply' = reply /\ swapped' = swapped
  BY <1>1, <1>2 DEF update_reinsert, queryVars
<1>4. /\ Holds(tree, ret, hmap \ {n}, score) /\ Leaves(tree, hmap \cup {n})
      /\ n \in Node /\ n \in hmap
  BY <1>1, <1>3 DEF TreeInv, Stage, InTree
<1>5. /\ hmap \subseteq Node /\ x \in Score \cup {0} /\ job \in JobType /\ ret \in Ptr
      /\ score \in [Node -> Score \cup {0}]
  BY <1>2 DEF TypeOK, JobType
<1>6. /\ Holds(tree', IF ret = None THEN n ELSE ret, hmap', score')
      /\ Leaves(tree', hmap')
  <2>1. PICK M : M = hmap \ {n}
    OBVIOUS
  <2>2. M \cup {n} = hmap /\ hmap \cup {n} = hmap /\ n \notin M
    BY <1>4, <2>1
  <2>3. x \in Int
    BY <1>5, ZSetConstants
  <2>4. Holds(tree, ret, M, score) /\ Leaves(tree, M \cup {n}) /\ n \in Node
    BY <1>4, <2>1, <2>2
  <2>5. /\ Holds(tree', IF ret = None THEN n ELSE ret, M \cup {n}, score')
        /\ Leaves(tree', M \cup {n})
    <3>1. PICK sc2 : sc2 = score' /\ sc2 = [score EXCEPT ![n] = x]
      BY <1>3
    <3>2. PICK u : u = tree' /\ u = tree_insert(avl_init(tree, n), ret, sc2, n)
      BY <1>3, <3>1
    <3>3. /\ Holds(u, IF ret = None THEN n ELSE ret, M \cup {n}, sc2)
          /\ Leaves(u, M \cup {n})
      BY <2>2, <2>3, <2>4, <3>1, <3>2, InsertStep
    <3> QED BY <3>1, <3>2, <3>3
  <2> QED BY <1>3, <2>2, <2>5
<1>7. /\ job' \in JobType /\ job'.op = "update" /\ job'.name = n /\ job'.after = "inserted"
  BY <1>1, <1>3, <1>5 DEF JobType, Ptr
<1>8. hmap' \cup {n} = hmap' /\ n \in hmap'
  BY <1>3, <1>4
<1>9. Stage(tree', IF ret = None THEN n ELSE ret, hmap', score', job', job'.after)
  BY <1>4, <1>6, <1>7, <1>8 DEF Stage, InTree
<1>10. TreeInv'
  BY <1>3, <1>7, <1>8, <1>9 DEF TreeInv, InTree
<1>11. TypeOK'
  <2>1. TreeType(tree')
    BY <1>6, HoldsType
  <2>2. node' \in Ptr /\ ret' \in Ptr /\ root' \in Ptr \cup {Freed}
    BY <1>3, <1>4, <1>5 DEF Ptr
  <2>3. pc' \in {"idle", "fix", "swap", "deleted", "inserted", "offset", "reply", "undefined"}
    BY <1>3
  <2>4. score' \in [Node -> Score \cup {0}]
    BY <1>3, <1>5
  <2> QED BY <1>3, <1>7, <2>1, <2>2, <2>3, <2>4, Zenon DEF TypeOK, TreeType, JobType
<1> QED BY <1>10, <1>11

LEMMA DeleteDoneKeeps ==
  ASSUME TypeOK, TreeInv, delete_done
  PROVE  TypeOK' /\ TreeInv'
<1>1. PICK n : n = job.name
  OBVIOUS
<1>2. /\ pc = "deleted" /\ job.op = "delete"
      /\ root' = IF ret = None THEN Freed ELSE ret
      /\ tree' = avl_init(tree, n) /\ score' = [score EXCEPT ![n] = 0]
      /\ ret' = None /\ node' = None /\ job' = NoJob /\ pc' = "idle" /\ hmap' = hmap
      /\ q' = q /\ pos' = pos /\ off' = off /\ reply' = reply /\ swapped' = swapped
  BY <1>1 DEF delete_done, queryVars, new_root
<1>3. /\ Holds(tree, ret, hmap \ {n}, score) /\ Leaves(tree, hmap \cup {n})
      /\ n \in Node /\ n \notin hmap
  BY <1>1, <1>2 DEF TreeInv, Stage, InTree
<1>4. hmap \ {n} = hmap /\ ret \in Ptr /\ score \in [Node -> Score \cup {0}]
  BY <1>3 DEF TypeOK
<1>5. PICK S : IsTree(tree, ret, hmap, S, score)
  BY <1>3, <1>4 DEF Holds
<1>6. /\ IsTree(tree', ret, hmap, S, score)
      /\ tree'.left[n] = None /\ tree'.right[n] = None
      /\ \A a \in Node \ {n}, s \in Side : tree'[s][a] = tree[s][a]
  BY <1>2, <1>3, <1>5, InitTree
<1>7. IsTree(tree', ret, hmap, S, score')
  <2>1. n \in Node \ hmap /\ 0 \in Int
    BY <1>3
  <2> QED BY <1>2, <1>6, <2>1, ScoreTree
<1>8. Leaves(tree', hmap')
  BY <1>2, <1>3, <1>6 DEF Leaves, Side
<1>9. TopOf(root') = ret
  BY <1>2, <1>4, ZSetConstants DEF TopOf, Ptr
<1>10. TreeInv'
  BY <1>2, <1>7, <1>8, <1>9 DEF TreeInv, Holds
<1>11. TypeOK'
  <2>1. TreeType(tree')
    BY <1>6 DEF IsTree
  <2>2. node' \in Ptr /\ ret' \in Ptr /\ root' \in Ptr \cup {Freed}
    BY <1>2, <1>4 DEF Ptr
  <2>3. pc' \in {"idle", "fix", "swap", "deleted", "inserted", "offset", "reply", "undefined"}
    BY <1>2
  <2>4. score' \in [Node -> Score \cup {0}]
    BY <1>2, <1>4
  <2>5. job' \in JobType
    BY <1>2 DEF NoJob, JobType, Ptr
  <2> QED BY <1>2, <2>1, <2>2, <2>3, <2>4, <2>5, Zenon DEF TypeOK, TreeType, JobType
<1> QED BY <1>10, <1>11

LEMMA InsertDoneKeeps ==
  ASSUME TypeOK, TreeInv, insert_done
  PROVE  TypeOK' /\ TreeInv'
<1>1. /\ pc = "inserted" /\ root' = ret /\ ret' = None /\ job' = NoJob /\ pc' = "idle"
      /\ tree' = tree /\ hmap' = hmap /\ score' = score /\ node' = node
      /\ q' = q /\ pos' = pos /\ off' = off /\ reply' = reply /\ swapped' = swapped
  BY DEF insert_done, queryVars
<1>2. Holds(tree, ret, hmap, score) /\ Leaves(tree, hmap)
  <2>1. Holds(tree, ret, hmap, score) /\ Leaves(tree, hmap \cup {job.name}) /\ job.name \in hmap
    BY <1>1 DEF TreeInv, Stage, InTree
  <2>2. hmap \cup {job.name} = hmap
    BY <2>1
  <2> QED BY <2>1, <2>2
<1>3. ret \in Ptr
  BY DEF TypeOK
<1>4. TopOf(root') = ret
  BY <1>1, <1>3, ZSetConstants DEF TopOf, Ptr
<1>5. TreeInv'
  BY <1>1, <1>2, <1>4 DEF TreeInv
<1>6. TypeOK'
  <2>1. ret' \in Ptr /\ root' \in Ptr \cup {Freed}
    BY <1>1, <1>3 DEF Ptr
  <2>2. pc' \in {"idle", "fix", "swap", "deleted", "inserted", "offset", "reply", "undefined"}
    BY <1>1
  <2>3. job' \in JobType
    BY <1>1 DEF NoJob, JobType, Ptr
  <2> QED BY <1>1, <2>1, <2>2, <2>3, Zenon DEF TypeOK, JobType
<1> QED BY <1>5, <1>6

LEMMA ClearKeeps ==
  ASSUME TypeOK, TreeInv, zset_clear
  PROVE  TypeOK' /\ TreeInv'
<1>1. /\ pc = "idle" /\ hmap' = {} /\ job' = job /\ node' = node /\ ret' = ret
      /\ q' = q /\ pos' = pos /\ off' = off /\ reply' = reply
  BY DEF zset_clear, queryVars
<1>2. CASE root = Freed /\ pc' = "undefined" /\ UNCHANGED <<tree, root, score, swapped>>
  <2>1. TreeInv'
    BY <1>2 DEF TreeInv
  <2>2. pc' \in {"idle", "fix", "swap", "deleted", "inserted", "offset", "reply", "undefined"}
        /\ hmap' \subseteq Node
    BY <1>1, <1>2
  <2> QED BY <1>1, <1>2, <2>1, <2>2, Zenon DEF TypeOK
<1>3. CASE /\ tree' = Untouched /\ root' = None /\ score' = [n \in Node |-> 0]
           /\ swapped' = FALSE /\ pc' = pc
  <2>1. score' \in [Node -> Score \cup {0}] /\ ScoreType(score')
    BY <1>3 DEF ScoreType
  <2>2. TopOf(root') = None
    BY <1>3, ZSetConstants DEF TopOf
  <2>3. TreeInv'
    BY <1>1, <1>3, <2>1, <2>2, UntouchedTree DEF TreeInv
  <2>4. TreeType(tree') /\ swapped' \in BOOLEAN /\ root' \in Ptr \cup {Freed} /\ hmap' \subseteq Node
    BY <1>1, <1>3, UntouchedTree DEF Ptr
  <2> QED BY <1>1, <1>3, <2>1, <2>3, <2>4, Zenon DEF TypeOK, TreeType
<1> QED BY <1>2, <1>3 DEF zset_clear

\* The actions of a query only read the tree.
Reading == pc' \in {"idle", "offset", "reply"}
           /\ UNCHANGED <<tree, root, hmap, score, job, ret, swapped>>

LEMMA ReadingKeeps ==
  ASSUME TypeOK, TreeInv, pc \in {"idle", "offset", "reply"}, Reading,
         node' \in Ptr, pc' = "offset" => node' \in Node,
         q' \in [score : Int, name : Nat, offset : Int, limit : Int],
         pos' \in Int, off' \in Int, reply' \in Seq(Node)
  PROVE  TypeOK' /\ TreeInv'
<1>1. TreeInv'
  BY DEF TreeInv, Reading
<1>2. pc' \in {"idle", "fix", "swap", "deleted", "inserted", "offset", "reply", "undefined"}
  BY DEF Reading
<1>3. TypeOK'
  BY <1>2, Zenon DEF TypeOK, Reading
<1> QED BY <1>1, <1>3

LEMMA ZqueryKeeps ==
  ASSUME TypeOK, TreeInv, NEW n \in Node, NEW s \in Score, NEW o \in Offset, NEW l \in Limit,
         do_zquery(s, n, o, l)
  PROVE  TypeOK' /\ TreeInv'
<1>1. /\ pc = "idle" /\ off' = o /\ pos' = pos /\ reply' = reply
      /\ q' = [score |-> s, name |-> n, offset |-> o, limit |-> l]
      /\ UNCHANGED <<tree, root, hmap, score, job, ret, swapped>>
  BY DEF do_zquery
<1>2. /\ q' \in [score : Int, name : Nat, offset : Int, limit : Int]
      /\ off' \in Int
  BY <1>1, ZSetConstants
<1>3. pos' \in Int /\ reply' \in Seq(Node) /\ node \in Ptr
  BY <1>1 DEF TypeOK
<1>4. CASE node' = node /\ pc' = "reply"
  <2>1. Reading
    BY <1>1, <1>4 DEF Reading
  <2> QED BY <1>1, <1>2, <1>3, <1>4, <2>1, ReadingKeeps
<1>5. CASE node' = node /\ pc' = "undefined"
  <2>1. TreeInv'
    BY <1>5 DEF TreeInv
  <2>2. pc' \in {"idle", "fix", "swap", "deleted", "inserted", "offset", "reply", "undefined"}
    BY <1>5
  <2>3. TypeOK'
    BY <1>1, <1>2, <1>3, <1>5, <2>2, Zenon DEF TypeOK
  <2> QED BY <2>1, <2>3
<1>6. CASE root # Freed /\ node' = zset_seekge(s, n) /\ node' # None /\ pc' = "offset"
  <2>1. PICK S : IsTree(tree, root, hmap, S, score)
    BY <1>1, <1>6, Idle DEF Holds
  <2>2. Leaves(tree, hmap) /\ hmap \subseteq Node
    BY <1>1, Idle
  <2> DEFINE walk == CHOOSE f : f = [m \in Ptr |->
                       IF m = None THEN None
                       ELSE IF zless(score, m, s, n) THEN f[tree.right[m]]
                       ELSE LET better == f[tree.left[m]]
                            IN  IF better = None THEN m ELSE better]
  <2>3. Seeks(walk, tree, score, s, n)
    <3>1. \E f : Seeks(f, tree, score, s, n)
      BY <2>1, <2>2, SeekExists
    <3> QED BY <3>1 DEF Seeks, SeekStep
  <2>4. node' = walk[root]
    BY <1>6 DEF zset_seekge
  <2>5. Found(score, s, n, hmap, node')
    <3>1. s \in Int /\ n \in Nat
      BY ZSetConstants
    <3> HIDE DEF walk
    <3> QED BY <2>1, <2>3, <2>4, <3>1, SeekFinds
  <2>6. node' \in Node /\ node' \in Ptr
    BY <1>6, <2>2, <2>5 DEF Found, Ptr
  <2>7. Reading
    BY <1>1, <1>6 DEF Reading
  <2> QED BY <1>1, <1>2, <1>3, <2>6, <2>7, ReadingKeeps
<1> QED BY <1>4, <1>5, <1>6 DEF do_zquery

\* Where the next iteration of avl_offset looks.
LEMMA OffsetStep ==
  ASSUME NEW t, TreeType(t), NEW n \in Node, NEW p \in Int, NEW o \in Int
  PROVE  /\ avl_offset_step(t, n, p, o).node \in Ptr
         /\ avl_offset_step(t, n, p, o).pos \in Int
<1>1. PICK l \in Ptr : l = t.left[n]
  BY DEF TreeType
<1>2. PICK r \in Ptr : r = t.right[n]
  BY DEF TreeType
<1>3. t.parent[n] \in Ptr
  BY DEF TreeType
<1>4. \A c \in Ptr : avl_cnt(t, c) \in Nat /\ (c = None => avl_cnt(t, c) = 0)
  BY DEF TreeType, avl_cnt, Ptr
<1>5. in_right(t, n, p, o) => r \in Node
  BY <1>2, <1>4 DEF in_right, Ptr
<1>6. in_left(t, n, p, o) => l \in Node
  BY <1>1, <1>4 DEF in_left, Ptr
<1>7. \A c \in Node : t.left[c] \in Ptr /\ t.right[c] \in Ptr
  BY DEF TreeType
<1>8. t.parent[n] # None => up_pos(t, n, p) \in Int
  BY <1>1, <1>2, <1>4 DEF up_pos
<1>9. None \in Ptr
  BY DEF Ptr
<1>10. CASE in_right(t, n, p, o)
  <2>1. avl_cnt(t, t.left[r]) \in Nat
    BY <1>4, <1>5, <1>7, <1>10
  <2> QED BY <1>2, <1>10, <2>1 DEF avl_offset_step
<1>11. CASE ~in_right(t, n, p, o) /\ in_left(t, n, p, o)
  <2>1. avl_cnt(t, t.right[l]) \in Nat
    BY <1>4, <1>6, <1>7, <1>11
  <2> QED BY <1>1, <1>11, <2>1 DEF avl_offset_step
<1>12. CASE ~in_right(t, n, p, o) /\ ~in_left(t, n, p, o)
  BY <1>3, <1>8, <1>9, <1>12 DEF avl_offset_step
<1> QED BY <1>10, <1>11, <1>12

LEMMA OffsetKeeps ==
  ASSUME TypeOK, TreeInv, avl_offset
  PROVE  TypeOK' /\ TreeInv'
<1>1. /\ pc = "offset" /\ pc' = offset_pc(node') /\ off' = off /\ q' = q /\ reply' = reply
      /\ node' = avl_offset_step(tree, node, pos, off).node
      /\ pos' = avl_offset_step(tree, node, pos, off).pos
      /\ UNCHANGED <<tree, root, hmap, score, job, ret, swapped>>
  BY DEF avl_offset
<1>2. node' \in Ptr /\ pos' \in Int
  <2>1. node \in Node /\ TreeType(tree) /\ pos \in Int /\ off \in Int
    BY <1>1 DEF TreeInv, TypeOK, TreeType
  <2> QED BY <1>1, <2>1, OffsetStep
<1>3. Reading /\ (pc' = "offset" => node' \in Node)
  BY <1>1, <1>2 DEF Reading, offset_pc, Ptr
<1>4. /\ off' \in Int /\ reply' \in Seq(Node)
      /\ q' \in [score : Int, name : Nat, offset : Int, limit : Int]
  BY <1>1 DEF TypeOK
<1> QED BY <1>1, <1>2, <1>3, <1>4, ReadingKeeps

LEMMA EmitKeeps ==
  ASSUME TypeOK, TreeInv, emit
  PROVE  TypeOK' /\ TreeInv'
<1>1. pc = "offset" /\ q' = q /\ UNCHANGED <<tree, root, hmap, score, job, ret, swapped>>
  BY DEF emit
<1>2. /\ pos \in Int /\ off \in Int /\ reply \in Seq(Node) /\ node \in Node /\ node \in Ptr
      /\ None \in Ptr /\ q' \in [score : Int, name : Nat, offset : Int, limit : Int]
  BY <1>1 DEF TypeOK, TreeInv, Ptr
<1>3. CASE reply' = Append(reply, node) /\ pos' = 0 /\ off' = 1 /\ pc' = pc /\ node' = node
  <2>1. Reading /\ reply' \in Seq(Node) /\ pos' \in Int /\ off' \in Int
    BY <1>1, <1>2, <1>3 DEF Reading
  <2> QED BY <1>1, <1>2, <1>3, <2>1, ReadingKeeps
<1>4. CASE reply' = reply /\ pos' = pos /\ off' = off /\ pc' = "reply" /\ node' = None
  <2>1. Reading
    BY <1>1, <1>4 DEF Reading
  <2> QED BY <1>1, <1>2, <1>4, <2>1, ReadingKeeps
<1> QED BY <1>3, <1>4 DEF emit

LEMMA SendKeeps ==
  ASSUME TypeOK, TreeInv, send_reply
  PROVE  TypeOK' /\ TreeInv'
<1>1. /\ pc = "reply" /\ pc' = "idle" /\ q' = NoQuery /\ pos' = 0 /\ off' = 0 /\ reply' = << >>
      /\ node' = node /\ UNCHANGED <<tree, root, hmap, score, job, ret, swapped>>
  BY DEF send_reply
<1>2. NoQuery \in [score : Int, name : Nat, offset : Int, limit : Int] /\ << >> \in Seq(Node)
      /\ node \in Ptr
  BY DEF NoQuery, TypeOK
<1>3. Reading
  BY <1>1 DEF Reading
<1> QED BY <1>1, <1>2, <1>3, ReadingKeeps

LEMMA ZInvNext == ZInv /\ [Next]_vars => ZInv'
<1> SUFFICES ASSUME TypeOK, TreeInv, [Next]_vars PROVE TypeOK' /\ TreeInv'
  BY DEF ZInv
<1>1. CASE UNCHANGED vars
  BY <1>1 DEF vars, queryVars, TypeOK, TreeInv
<1>2. ASSUME NEW n \in Node, NEW s \in Score, zset_insert(n, s) \/ zset_update(n, s)
      PROVE  TypeOK' /\ TreeInv'
  BY <1>2, InsertKeeps, UpdateKeeps
<1>3. ASSUME NEW n \in Node, zset_delete(n) PROVE TypeOK' /\ TreeInv'
  BY <1>3, DeleteKeeps
<1>4. CASE zset_clear
  BY <1>4, ClearKeeps
<1>5. ASSUME NEW n \in Node, NEW s \in Score, NEW o \in Offset, NEW l \in Limit,
             do_zquery(s, n, o, l)
      PROVE  TypeOK' /\ TreeInv'
  BY <1>5, ZqueryKeeps
<1>6. CASE avl_fix \/ avl_del_swap \/ update_reinsert \/ delete_done \/ insert_done
  BY <1>6, FixKeeps, SwapKeeps, ReinsertKeeps, DeleteDoneKeeps, InsertDoneKeeps
<1>7. CASE QueryStep
  BY <1>7, OffsetKeeps, EmitKeeps, SendKeeps DEF QueryStep
<1> QED BY <1>1, <1>2, <1>3, <1>4, <1>5, <1>6, <1>7 DEF Next

\* The invariant of zset.cpp over avl.cpp: whatever insertions, updates, deletions and
\* queries came before, and in the middle of each, the links form an ordered tree
\* of exactly the nodes that belong in it.
THEOREM TreeInvariant == Spec => []ZInv
<1>1. Init => ZInv
  BY ZInvInit
<1>2. ZInv /\ [Next]_vars => ZInv'
  BY ZInvNext
<1> QED BY <1>1, <1>2, PTL DEF Spec

-----------------------------------------------------------------------------
(* What the runs see of the trees *)

\* One step of Subtree.
Wider(t, X) == (X \cup UNION {{t.left[m], t.right[m]} : m \in X}) \ {None}

Widens(f, t, n) ==
  f = [k \in 0 .. Cardinality(Node) |-> IF k = 0 THEN {n} \ {None} ELSE Wider(t, f[k - 1])]

LEMMA WidensExists ==
  ASSUME NEW t, TreeType(t), NEW n \in Ptr
  PROVE  \E f : Widens(f, t, n)
<1>1. PICK N \in Nat : N = Cardinality(Node)
  BY ZSetConstants, FS_CardinalityType
<1> DEFINE D == 0 .. N
           V == SUBSET Node
           rank == [k \in D |-> k]
           step == [k \in D |-> [f \in [D -> V] |->
                     IF k = 0 THEN {n} \ {None} ELSE Wider(t, f[k - 1])]]
<1>2. ASSUME NEW X \in SUBSET Node PROVE Wider(t, X) \in SUBSET Node
  <2>1. \A m \in X : t.left[m] \in Ptr /\ t.right[m] \in Ptr
    BY DEF TreeType
  <2> QED BY <2>1 DEF Wider, Ptr
<1>3. step \in [D -> [[D -> V] -> V]]
  <2>1. ASSUME NEW k \in D, NEW f \in [D -> V]
        PROVE  (IF k = 0 THEN {n} \ {None} ELSE Wider(t, f[k - 1])) \in V
    <3>1. CASE k = 0
      BY <3>1 DEF Ptr
    <3>2. CASE k # 0
      <4>1. k - 1 \in D
        BY <1>1, <3>2
      <4>2. f[k - 1] \in SUBSET Node
        BY <4>1
      <4> QED BY <1>2, <3>2, <4>2
    <3> QED BY <3>1, <3>2
  <2> QED BY <2>1
<1>4. ASSUME NEW m \in D, NEW f \in [D -> V], NEW g \in [D -> V],
             \A x \in D : rank[x] < rank[m] => f[x] = g[x]
      PROVE  step[m][f] = step[m][g]
  <2>1. CASE m = 0
    BY <2>1
  <2>2. CASE m # 0
    <3>1. m - 1 \in D /\ m - 1 < m
      BY <1>1, <2>2
    <3>2. f[m - 1] = g[m - 1]
      BY <1>4, <3>1
    <3> QED BY <3>2
  <2> QED BY <2>1, <2>2
<1>5. rank \in [D -> 0 .. N]
  OBVIOUS
<1>6. IsRanked(D, V, N, rank, step)
  <2> HIDE DEF D, V, rank, step
  <2> QED BY <1>1, <1>3, <1>4, <1>5 DEF IsRanked
<1>7. {} \in V
  OBVIOUS
<1>8. PICK f \in [D -> V] : \A k \in D : f[k] = step[k][f]
  <2> HIDE DEF D, V, rank, step
  <2> QED BY <1>6, <1>7, RankedRecursion
<1>9. \A k \in D : f[k] = IF k = 0 THEN {n} \ {None} ELSE Wider(t, f[k - 1])
  BY <1>8
<1>10. Widens(f, t, n)
  BY <1>1, <1>8, <1>9 DEF Widens
<1> QED BY <1>10

\* Widening from n ends with the tree below n.
LEMMA WidensTo ==
  ASSUME NEW t, NEW r, NEW M, NEW S, NEW sc, IsTree(t, r, M, S, sc),
         NEW n \in M, NEW f, Widens(f, t, n)
  PROVE  f[Cardinality(Node)] = S[n]
<1>1. PICK N \in Nat : N = Cardinality(Node)
  BY ZSetConstants, FS_CardinalityType
<1>2. f[0] = {n} \ {None} /\ \A k \in 1 .. N : f[k] = Wider(t, f[k - 1])
  <2>1. f = [k \in 0 .. N |-> IF k = 0 THEN {n} \ {None} ELSE Wider(t, f[k - 1])]
    BY <1>1 DEF Widens
  <2>2. ASSUME NEW k \in 0 .. N
        PROVE  f[k] = IF k = 0 THEN {n} \ {None} ELSE Wider(t, f[k - 1])
    BY <2>1
  <2>3. 0 \in 0 .. N /\ \A k \in 1 .. N : k \in 0 .. N /\ k # 0
    OBVIOUS
  <2> QED BY <2>2, <2>3
<1>3. /\ M \subseteq Node /\ None \notin M /\ S[n] \subseteq M /\ n \in S[n] /\ S[None] = {}
  BY Below, ZSetConstants DEF IsTree, TreeAt
<1>4. f[0] = {n}
  BY <1>2, <1>3
<1> DEFINE T == {k \in 0 .. N : /\ f[k] \subseteq S[n]
                                /\ \A m \in S[n] : Cardinality(S[n]) - Cardinality(S[m]) <= k
                                                   => m \in f[k]}
<1>5. \A m \in M : Cardinality(S[m]) \in Nat
  BY Shrinks
<1>6. ASSUME NEW m \in S[n], m # n
      PROVE  /\ t.parent[m] \in S[n] /\ t.parent[m] \in M /\ m \in M
             /\ m = t.left[t.parent[m]] \/ m = t.right[t.parent[m]]
             /\ Cardinality(S[m]) < Cardinality(S[t.parent[m]])
  <2>1. PICK s \in Side : /\ t.parent[m] \in S[n] /\ t.parent[m] \in M /\ m \in M
                          /\ t[s][t.parent[m]] = m
    BY <1>6, Parents
  <2>2. m = t.left[t.parent[m]] \/ m = t.right[t.parent[m]]
    BY <2>1 DEF Side
  <2>3. t[s][t.parent[m]] # None
    BY <1>3, <2>1
  <2>4. Cardinality(S[t[s][t.parent[m]]]) < Cardinality(S[t.parent[m]])
    BY <2>1, <2>3, Shrinks
  <2> QED BY <2>1, <2>2, <2>4
<1>7. 0 \in T
  <2>1. ASSUME NEW m \in S[n], m # n
        PROVE  ~(Cardinality(S[n]) - Cardinality(S[m]) <= 0)
    <3>1. t.parent[m] \in S[n] /\ t.parent[m] \in M /\ m \in M
          /\ Cardinality(S[m]) < Cardinality(S[t.parent[m]])
      BY <1>6, <2>1
    <3>2. S[t.parent[m]] \subseteq S[n]
      BY <3>1, Nested
    <3>3. Cardinality(S[t.parent[m]]) <= Cardinality(S[n])
      BY <3>2, FS_Subset, Shrinks
    <3> QED BY <1>5, <3>1, <3>3
  <2> QED BY <1>3, <1>4, <2>1
<1>8. ASSUME NEW k \in 0 .. N - 1, k \in T PROVE k + 1 \in T
  <2>1. f[k + 1] = Wider(t, f[k]) /\ k + 1 \in 0 .. N
    <3>1. k + 1 \in 1 .. N /\ (k + 1) - 1 = k
      BY <1>1
    <3> QED BY <1>2, <3>1
  <2>2. f[k] \subseteq S[n] /\ f[k] \subseteq M
    BY <1>3, <1>8
  <2>3. ASSUME NEW m \in f[k], NEW s \in Side, t[s][m] # None PROVE t[s][m] \in S[n]
    <3>1. t[s][m] \in S[m]
      BY <2>2, <2>3, Below DEF IsTree
    <3>2. S[m] \subseteq S[n]
      BY <2>2, Nested
    <3> QED BY <3>1, <3>2
  <2>4. f[k + 1] \subseteq S[n]
    <3>1. \A m \in f[k] : /\ t.left[m] # None => t.left[m] \in S[n]
                          /\ t.right[m] # None => t.right[m] \in S[n]
      BY <2>3 DEF Side
    <3> QED BY <2>1, <2>2, <3>1 DEF Wider
  <2>5. ASSUME NEW m \in S[n], Cardinality(S[n]) - Cardinality(S[m]) <= k + 1
        PROVE  m \in f[k + 1]
    <3>1. CASE m = n
      <4>1. Cardinality(S[n]) - Cardinality(S[n]) = 0
        BY <1>5
      <4>2. n \in f[k]
        BY <1>3, <1>8, <4>1
      <4> QED BY <1>3, <2>1, <3>1, <4>2 DEF Wider
    <3>2. CASE m # n
      <4>1. /\ t.parent[m] \in S[n] /\ t.parent[m] \in M /\ m \in M
            /\ m = t.left[t.parent[m]] \/ m = t.right[t.parent[m]]
            /\ Cardinality(S[m]) < Cardinality(S[t.parent[m]])
        BY <1>6, <3>2
      <4>2. Cardinality(S[n]) - Cardinality(S[t.parent[m]]) <= k
        BY <1>5, <2>5, <4>1
      <4>3. t.parent[m] \in f[k]
        BY <1>8, <4>1, <4>2
      <4>4. m # None
        BY <1>3, <4>1
      <4> QED BY <2>1, <4>1, <4>3, <4>4 DEF Wider
    <3> QED BY <3>1, <3>2
  <2> QED BY <2>1, <2>4, <2>5
<1>9. N \in T
  <2> HIDE DEF T
  <2>1. \A k \in 0 .. N - 1 : k \in T => k + 1 \in T
    BY <1>8, Zenon
  <2>2. \A k \in 0 .. N : k \in T
    BY <1>1, <1>7, <2>1, InductionUpTo, Zenon
  <2> QED BY <1>1, <2>2
<1>10. ASSUME NEW m \in S[n] PROVE m \in f[N]
  <2>1. m \in M
    BY <1>3
  <2>2. Cardinality(S[n]) <= N /\ Cardinality(S[n]) \in Nat /\ Cardinality(S[m]) \in Nat
    BY <1>1, <2>1, Shrinks
  <2>3. Cardinality(S[n]) - Cardinality(S[m]) <= N
    BY <1>1, <2>2
  <2> QED BY <1>9, <2>3
<1> QED BY <1>1, <1>9, <1>10

\* Widening from nowhere leads nowhere.
LEMMA WidensNone ==
  ASSUME NEW t, NEW f, Widens(f, t, None)
  PROVE  f[Cardinality(Node)] = {}
<1>1. PICK N \in Nat : N = Cardinality(Node)
  BY ZSetConstants, FS_CardinalityType
<1> DEFINE T == {k \in 0 .. N : f[k] = {}}
<1>2. 0 \in T
  BY <1>1 DEF Widens
<1>3. ASSUME NEW k \in 0 .. N - 1, k \in T PROVE k + 1 \in T
  <2>1. k + 1 \in 0 .. N /\ k + 1 # 0 /\ (k + 1) - 1 = k
    BY <1>1
  <2>2. f[k + 1] = Wider(t, f[k])
    BY <1>1, <2>1 DEF Widens
  <2> QED BY <1>3, <2>1, <2>2 DEF Wider
<1>4. N \in T
  <2> HIDE DEF T
  <2>1. \A k \in 0 .. N - 1 : k \in T => k + 1 \in T
    BY <1>3, Zenon
  <2>2. \A k \in 0 .. N : k \in T
    BY <1>1, <1>2, <2>1, InductionUpTo, Zenon
  <2> QED BY <1>1, <2>2
<1> QED BY <1>1, <1>4

LEMMA SubtreeIs ==
  ASSUME NEW r, NEW M, NEW S, IsTree(tree, r, M, S, score), NEW n \in M \cup {None}
  PROVE  Subtree(n) = S[n]
<1>1. n \in Ptr /\ TreeType(tree) /\ S[None] = {}
  BY DEF IsTree, TreeAt, Ptr
<1> DEFINE upto == CHOOSE f : f = [k \in 0 .. Cardinality(Node) |->
                     IF k = 0 THEN {n} \ {None}
                     ELSE LET X == f[k - 1]
                          IN  (X \cup UNION {{tree.left[m], tree.right[m]} : m \in X}) \ {None}]
<1>2. Widens(upto, tree, n)
  <2>1. \E f : Widens(f, tree, n)
    BY <1>1, WidensExists
  <2> QED BY <2>1 DEF Widens, Wider
<1>3. Subtree(n) = upto[Cardinality(Node)]
  BY DEF Subtree
<1> HIDE DEF upto
<1>4. CASE n = None
  BY <1>1, <1>2, <1>3, <1>4, WidensNone
<1>5. CASE n # None
  BY <1>2, <1>3, <1>5, WidensTo
<1> QED BY <1>4, <1>5

\* TreeHoldsMembers: between the calls the tree holds the nodes of the hash table,
\* in order, over links that agree.
LEMMA ZInvHolds == ZInv => TreeHoldsMembers
<1> SUFFICES ASSUME TypeOK, TreeInv PROVE TreeHoldsMembers
  BY DEF ZInv
<1>1. pc = "idle" /\ root = Freed => hmap = {}
  BY Idle
<1>2. ASSUME Quiet
      PROVE  /\ Subtree(root) = hmap
             /\ root # None => tree.parent[root] = None
             /\ \A n \in hmap : \A side \in {"left", "right"} :
                  LET c == tree[side][n]
                  IN  c # None =>
                        /\ tree.parent[c] = n
                        /\ tree[Opp(side)][n] # c
                        /\ \A m \in Subtree(c) :
                             zless(score, m, score[n], n) <=> side = "left"
  <2>1. PICK S : IsTree(tree, root, hmap, S, score)
    BY <1>2, Idle DEF Quiet, Holds
  <2>2. /\ hmap \subseteq Node /\ S[root] = hmap /\ root \in hmap \cup {None}
        /\ root # None => tree.parent[root] = None
    BY <2>1 DEF IsTree, TreeAt
  <2>3. Subtree(root) = hmap
    BY <2>1, <2>2, SubtreeIs
  <2>4. ASSUME NEW n \in hmap, NEW side \in Side, NEW c, c = tree[side][n], c # None
        PROVE  /\ tree.parent[c] = n
               /\ tree[Opp(side)][n] # c
               /\ \A m \in Subtree(c) : zless(score, m, score[n], n) <=> side = "left"
    <3>1. /\ c \in hmap /\ tree.parent[c] = n /\ tree[Opp(side)][n] # c
          /\ n \in Node /\ S[c] \subseteq S[n] /\ S[n] \subseteq hmap
      BY <2>1, <2>4, Below DEF IsTree
    <3>2. Subtree(c) = S[c]
      BY <2>1, <3>1, SubtreeIs
    <3>3. \A m \in S[c] : OnSide(score, m, n, side)
      BY <2>1, <2>4 DEF IsTree, TreeAt
    <3>4. ASSUME NEW m \in S[c] PROVE Before(score, m, n) <=> side = "left"
      <4>1. m \in Node /\ ScoreType(score)
        BY <2>1, <2>2, <3>1 DEF IsTree
      <4> QED BY <3>1, <3>3, <4>1, Order DEF OnSide, Side
    <3> QED BY <3>1, <3>2, <3>4 DEF Before
  <2> QED BY <2>2, <2>3, <2>4 DEF Side
<1> QED BY <1>1, <1>2 DEF TreeHoldsMembers

\* TreeHoldsMembers: between the calls of zset_insert, zset_delete and zset_clear the
\* tree holds exactly the members in the hash table, in the order of (score, name),
\* over links that agree in both directions; rotations and avl_del lose no node, and
\* a root that dangles is that of an empty set.
THEOREM TreeIsTheSet == Spec => []TreeHoldsMembers
BY TreeInvariant, ZInvHolds, PTL

-----------------------------------------------------------------------------
(* Heights and counts *)

Taller(a, b) == IF a < b THEN b ELSE a

\* What avl_update computes for m.
HeightBelow(t, m) == 1 + Taller(avl_height(t, t.left[m]), avl_height(t, t.right[m]))
CountBelow(t, m) == 1 + avl_cnt(t, t.left[m]) + avl_cnt(t, t.right[m])

\* The fields of m are those that its children call for.
Fields(t, m) == t.height[m] = HeightBelow(t, m) /\ t.cnt[m] = CountBelow(t, m)

\* The children of m are equally high, or nearly so.
Even(t, m) == avl_height(t, t.left[m]) - avl_height(t, t.right[m]) \in -1 .. 1

\* The nodes outside X have kept their fields.
KeepFields(t, u, X) == \A m \in Node \ X : u.height[m] = t.height[m] /\ u.cnt[m] = t.cnt[m]

LEMMA BelowType ==
  ASSUME NEW t, TreeType(t), NEW m \in Node
  PROVE  HeightBelow(t, m) \in Nat /\ CountBelow(t, m) \in Nat
<1>1. t.left[m] \in Ptr /\ t.right[m] \in Ptr
  BY DEF TreeType
<1>2. /\ avl_height(t, t.left[m]) \in Nat /\ avl_height(t, t.right[m]) \in Nat
      /\ avl_cnt(t, t.left[m]) \in Nat /\ avl_cnt(t, t.right[m]) \in Nat
  BY <1>1, NoHeight
<1> QED BY <1>2 DEF HeightBelow, CountBelow, Taller

\* The same, seen from a side.
LEMMA FieldsFrom ==
  ASSUME NEW t, TreeType(t), NEW m \in Node, NEW s \in Side
  PROVE  /\ HeightBelow(t, m) = 1 + Taller(avl_height(t, t[s][m]), avl_height(t, t[Opp(s)][m]))
         /\ CountBelow(t, m) = 1 + avl_cnt(t, t[s][m]) + avl_cnt(t, t[Opp(s)][m])
         /\ Even(t, m) <=> avl_height(t, t[s][m]) - avl_height(t, t[Opp(s)][m]) \in -1 .. 1
         /\ avl_height(t, t[s][m]) \in Nat /\ avl_height(t, t[Opp(s)][m]) \in Nat
         /\ avl_cnt(t, t[s][m]) \in Nat /\ avl_cnt(t, t[Opp(s)][m]) \in Nat
<1>1. t.left[m] \in Ptr /\ t.right[m] \in Ptr
  BY DEF TreeType
<1>2. /\ avl_height(t, t.left[m]) \in Nat /\ avl_height(t, t.right[m]) \in Nat
      /\ avl_cnt(t, t.left[m]) \in Nat /\ avl_cnt(t, t.right[m]) \in Nat
  BY <1>1, NoHeight
<1>3. \A a, b \in Nat : /\ Taller(a, b) = Taller(b, a) /\ 1 + a + b = 1 + b + a
                        /\ a - b \in -1 .. 1 <=> b - a \in -1 .. 1
  BY DEF Taller
<1>4. CASE s = "left"
  BY <1>2, <1>4 DEF HeightBelow, CountBelow, Even, Opp
<1>5. CASE s = "right"
  BY <1>2, <1>3, <1>5 DEF HeightBelow, CountBelow, Even, Opp
<1> QED BY <1>4, <1>5 DEF Side

\* The fields are those that the children call for when the children are as they
\* were, or have the fields they had.
LEMMA SameBelow ==
  ASSUME NEW t, TreeType(t), NEW u, TreeType(u), NEW m \in Node,
         \A s \in Side : /\ avl_height(u, u[s][m]) = avl_height(t, t[s][m])
                         /\ avl_cnt(u, u[s][m]) = avl_cnt(t, t[s][m])
  PROVE  HeightBelow(u, m) = HeightBelow(t, m) /\ CountBelow(u, m) = CountBelow(t, m)
         /\ (Even(u, m) <=> Even(t, m))
<1>1. /\ avl_height(u, u["left"][m]) = avl_height(t, t["left"][m])
      /\ avl_cnt(u, u["left"][m]) = avl_cnt(t, t["left"][m])
      /\ avl_height(u, u["right"][m]) = avl_height(t, t["right"][m])
      /\ avl_cnt(u, u["right"][m]) = avl_cnt(t, t["right"][m])
  BY DEF Side
<1> QED BY <1>1 DEF HeightBelow, CountBelow, Even

LEMMA SameHeight ==
  ASSUME NEW t, NEW u, NEW X, KeepFields(t, u, X), NEW c \in Ptr, c \notin X
  PROVE  avl_height(u, c) = avl_height(t, c) /\ avl_cnt(u, c) = avl_cnt(t, c)
BY DEF KeepFields, avl_height, avl_cnt, Ptr

LEMMA UpdateFields ==
  ASSUME NEW t, TreeType(t), NEW n \in Node, t.left[n] # n, t.right[n] # n,
         NEW u, u = avl_update(t, n)
  PROVE  Fields(u, n) /\ KeepFields(t, u, {n})
         /\ HeightBelow(u, n) = HeightBelow(t, n) /\ CountBelow(u, n) = CountBelow(t, n)
<1>1. HeightBelow(t, n) \in Nat /\ CountBelow(t, n) \in Nat
  BY BelowType
<1>2. u = [t EXCEPT !.height[n] = HeightBelow(t, n), !.cnt[n] = CountBelow(t, n)]
  <2>1. PICK a : a = 1 + (IF avl_height(t, t.left[n]) < avl_height(t, t.right[n])
                          THEN avl_height(t, t.right[n]) ELSE avl_height(t, t.left[n]))
    OBVIOUS
  <2>2. PICK b : b = 1 + avl_cnt(t, t.left[n]) + avl_cnt(t, t.right[n])
    OBVIOUS
  <2>3. a = HeightBelow(t, n)
    BY <2>1 DEF HeightBelow, Taller
  <2>4. b = CountBelow(t, n)
    BY <2>2 DEF CountBelow
  <2>5. u = [t EXCEPT !.height[n] = a, !.cnt[n] = b]
    <3>1. avl_update(t, n)
            = [t EXCEPT !.height[n] = 1 + (IF avl_height(t, t.left[n]) < avl_height(t, t.right[n])
                                           THEN avl_height(t, t.right[n])
                                           ELSE avl_height(t, t.left[n])),
                        !.cnt[n] = 1 + avl_cnt(t, t.left[n]) + avl_cnt(t, t.right[n])]
      BY Zenon DEF avl_update
    <3> QED BY <2>1, <2>2, <3>1, Zenon
  <2> QED BY <2>3, <2>4, <2>5
<1>3. /\ u.left = t.left /\ u.right = t.right /\ KeepFields(t, u, {n})
      /\ u.height[n] = HeightBelow(t, n) /\ u.cnt[n] = CountBelow(t, n)
  BY <1>1, <1>2 DEF KeepFields, TreeType
<1>4. t.left[n] \in Ptr /\ t.right[n] \in Ptr
  BY DEF TreeType
<1>5. /\ avl_height(u, t.left[n]) = avl_height(t, t.left[n])
      /\ avl_cnt(u, t.left[n]) = avl_cnt(t, t.left[n])
      /\ avl_height(u, t.right[n]) = avl_height(t, t.right[n])
      /\ avl_cnt(u, t.right[n]) = avl_cnt(t, t.right[n])
  BY <1>3, <1>4, SameHeight
<1>6. HeightBelow(u, n) = HeightBelow(t, n) /\ CountBelow(u, n) = CountBelow(t, n)
  BY <1>3, <1>5 DEF HeightBelow, CountBelow
<1> QED BY <1>3, <1>6 DEF Fields

\* The changes of the links leave the fields alone.
LEMMA ReplaceKeepsFields ==
  ASSUME NEW t, TreeType(t), NEW p \in Ptr, NEW old, NEW new,
         NEW u, u = replace_child(t, p, old, new)
  PROVE  u.height = t.height /\ u.cnt = t.cnt
<1>1. CASE p = None
  BY <1>1 DEF replace_child
<1>2. CASE p # None /\ t.left[p] = old
  BY <1>2 DEF replace_child, TreeType
<1>3. CASE p # None /\ t.left[p] # old
  BY <1>3 DEF replace_child, TreeType
<1> QED BY <1>1, <1>2, <1>3

\* What a rotation writes into the two nodes that change places.
TurnedFields(t, M, n, new, outer, inner, far, u) ==
  /\ u.height[n] = 1 + Taller(avl_height(t, outer), avl_height(t, inner))
  /\ u.cnt[n] = 1 + avl_cnt(t, outer) + avl_cnt(t, inner)
  /\ u.height[new] = 1 + Taller(u.height[n], avl_height(t, far))
  /\ u.cnt[new] = 1 + u.cnt[n] + avl_cnt(t, far)
  /\ KeepFields(t, u, {n, new})
  /\ outer \in Ptr \ {n, new} /\ inner \in Ptr \ {n, new} /\ far \in Ptr \ {n, new}
  /\ new \in M /\ new # n

LEMMA RotFields ==
  ASSUME NEW t, NEW r, NEW M, NEW S, NEW sc, IsTree(t, r, M, S, sc),
         NEW n \in M, NEW side \in Side,
         NEW new, new = t[Opp(side)][n], new # None,
         NEW outer, outer = t[side][n],
         NEW inner, inner = t[side][new], NEW far, far = t[Opp(side)][new],
         NEW u, u = Rotated(t, n, side)
  PROVE  TurnedFields(t, M, n, new, outer, inner, far, u)
<1>1. Opp(side) \in Side /\ Opp(Opp(side)) = side /\ side # Opp(side)
  BY DEF Side, Opp
<1>2. /\ TreeType(t) /\ n \in Node /\ M \subseteq Node /\ None \notin Node
      /\ new \in M /\ new # n /\ inner # n /\ inner # new
  <2>1. new \in M /\ new # n /\ inner # n /\ inner # new
    BY <1>1, RotatedLinks
  <2> QED BY <2>1, ZSetConstants DEF IsTree, TreeAt
<1>3. outer \in Ptr \ {n, new} /\ inner \in Ptr \ {n, new} /\ far \in Ptr \ {n, new}
  <2>1. outer \in Ptr /\ outer # new
    BY <1>1, Below DEF IsTree
  <2>2. outer # n
    BY <1>1, <1>2, Below DEF IsTree
  <2>3. inner \in Ptr /\ far \in Ptr /\ far # new
    BY <1>1, <1>2, Below DEF IsTree
  <2>4. n \notin S[new] /\ S[far] \subseteq S[new] /\ n \in S[n]
    BY <1>1, <1>2, Below DEF IsTree
  <2> QED BY <1>2, <2>1, <2>2, <2>3, <2>4
<1>4. PICK v : v = set_parent(t, inner, n)
  OBVIOUS
<1>5. /\ TreeType(v) /\ v.left = t.left /\ v.right = t.right
      /\ v.height = t.height /\ v.cnt = t.cnt
  BY <1>2, <1>3, <1>4 DEF set_parent, TreeType, Ptr
<1>6. PICK w : w = [v EXCEPT ![Opp(side)][n] = inner, !.parent[new] = t.parent[n],
                             ![side][new] = n, !.parent[n] = new]
  OBVIOUS
<1>7. /\ TreeType(w) /\ w.height = t.height /\ w.cnt = t.cnt
      /\ w[side][n] = outer /\ w[Opp(side)][n] = inner
      /\ w[side][new] = n /\ w[Opp(side)][new] = far
  <2>1. t.parent[n] \in Ptr /\ new \in Ptr /\ n \in Ptr /\ new \in Node
    BY <1>2 DEF TreeType, Ptr
  <2>2. CASE side = "left"
    BY <1>2, <1>3, <1>5, <1>6, <2>1, <2>2 DEF TreeType, Opp
  <2>3. CASE side = "right"
    BY <1>2, <1>3, <1>5, <1>6, <2>1, <2>3 DEF TreeType, Opp
  <2> QED BY <2>2, <2>3 DEF Side
<1>8. PICK x : x = avl_update(w, n)
  OBVIOUS
<1>9. PICK y : y = avl_update(x, new)
  OBVIOUS
<1>10. TreeType(x) /\ SameLinks(w, x) /\ TreeType(y) /\ SameLinks(x, y)
  BY <1>2, <1>7, <1>8, <1>9, UpdateLinks
<1>11. \A s \in Side : x[s] = w[s] /\ y[s] = w[s]
  BY <1>10 DEF SameLinks, Side
<1>12. y = rot(t, n, side)
  BY <1>4, <1>6, <1>8, <1>9 DEF rot
<1>13. u.height = y.height /\ u.cnt = y.cnt
  <2>1. u = replace_child(y, t.parent[n], n, new) /\ t.parent[n] \in Ptr
    BY <1>2, <1>12 DEF Rotated, TreeType
  <2> QED BY <1>10, <2>1, ReplaceKeepsFields
<1>14. /\ x.height[n] = 1 + Taller(avl_height(w, outer), avl_height(w, inner))
       /\ x.cnt[n] = 1 + avl_cnt(w, outer) + avl_cnt(w, inner)
       /\ KeepFields(w, x, {n})
  <2>1. w.left[n] # n /\ w.right[n] # n
    BY <1>3, <1>7 DEF Side, Opp
  <2>2. /\ Fields(x, n) /\ KeepFields(w, x, {n})
        /\ HeightBelow(x, n) = HeightBelow(w, n) /\ CountBelow(x, n) = CountBelow(w, n)
    BY <1>2, <1>7, <1>8, <2>1, UpdateFields
  <2>3. /\ HeightBelow(w, n) = 1 + Taller(avl_height(w, outer), avl_height(w, inner))
        /\ CountBelow(w, n) = 1 + avl_cnt(w, outer) + avl_cnt(w, inner)
    <3>1. TreeType(w) /\ n \in Node /\ side \in Side
      BY <1>2, <1>7
    <3>2. /\ HeightBelow(w, n) = 1 + Taller(avl_height(w, w[side][n]), avl_height(w, w[Opp(side)][n]))
          /\ CountBelow(w, n) = 1 + avl_cnt(w, w[side][n]) + avl_cnt(w, w[Opp(side)][n])
      BY <3>1, FieldsFrom
    <3> QED BY <1>7, <3>2
  <2> QED BY <2>2, <2>3 DEF Fields
<1>15. /\ y.height[new] = 1 + Taller(avl_height(x, n), avl_height(x, far))
       /\ y.cnt[new] = 1 + avl_cnt(x, n) + avl_cnt(x, far)
       /\ KeepFields(x, y, {new})
  <2>1. x.left[new] # new /\ x.right[new] # new
    BY <1>2, <1>3, <1>7, <1>11 DEF Side, Opp
  <2>2. /\ Fields(y, new) /\ KeepFields(x, y, {new}) /\ new \in Node
        /\ HeightBelow(y, new) = HeightBelow(x, new) /\ CountBelow(y, new) = CountBelow(x, new)
    BY <1>2, <1>9, <1>10, <2>1, UpdateFields
  <2>3. x[side][new] = n /\ x[Opp(side)][new] = far
    BY <1>1, <1>7, <1>11
  <2>4. /\ HeightBelow(x, new) = 1 + Taller(avl_height(x, n), avl_height(x, far))
        /\ CountBelow(x, new) = 1 + avl_cnt(x, n) + avl_cnt(x, far)
    BY <1>10, <2>2, <2>3, FieldsFrom
  <2> QED BY <2>2, <2>4 DEF Fields
<1>16. \A c : /\ avl_height(w, c) = avl_height(t, c)
              /\ avl_cnt(w, c) = avl_cnt(t, c)
  BY <1>7 DEF avl_height, avl_cnt
<1>17. avl_height(x, far) = avl_height(t, far) /\ avl_cnt(x, far) = avl_cnt(t, far)
  BY <1>3, <1>14, <1>16, SameHeight
<1>18. avl_height(x, n) = x.height[n] /\ avl_cnt(x, n) = x.cnt[n]
  BY <1>2 DEF avl_height, avl_cnt
<1>19. y.height[n] = x.height[n] /\ y.cnt[n] = x.cnt[n] /\ KeepFields(t, u, {n, new})
  BY <1>2, <1>7, <1>13, <1>14, <1>15 DEF KeepFields
<1>20. u.height[n] = 1 + Taller(avl_height(t, outer), avl_height(t, inner))
  BY <1>13, <1>14, <1>15, <1>16, <1>17, <1>18, <1>19
<1> QED BY <1>2, <1>3, <1>13, <1>14, <1>15, <1>16, <1>17, <1>18, <1>19, <1>20 DEF TurnedFields

\* The two nodes that change places get the right fields.
LEMMA RotBoth ==
  ASSUME NEW t, NEW r, NEW M, NEW S, NEW sc, IsTree(t, r, M, S, sc),
         NEW n \in M, NEW side \in Side,
         NEW new, new = t[Opp(side)][n], new # None,
         NEW outer, outer = t[side][n],
         NEW inner, inner = t[side][new], NEW far, far = t[Opp(side)][new],
         NEW u, u = Rotated(t, n, side)
  PROVE  /\ Fields(u, n) /\ Fields(u, new)
         /\ Even(u, n) <=> avl_height(t, outer) - avl_height(t, inner) \in -1 .. 1
         /\ Even(u, new) <=> u.height[n] - avl_height(t, far) \in -1 .. 1
         /\ TreeType(u) /\ TreeType(t)
<1>1. /\ u.height[n] = 1 + Taller(avl_height(t, outer), avl_height(t, inner))
      /\ u.cnt[n] = 1 + avl_cnt(t, outer) + avl_cnt(t, inner)
      /\ u.height[new] = 1 + Taller(u.height[n], avl_height(t, far))
      /\ u.cnt[new] = 1 + u.cnt[n] + avl_cnt(t, far)
      /\ KeepFields(t, u, {n, new})
      /\ outer \in Ptr \ {n, new} /\ inner \in Ptr \ {n, new} /\ far \in Ptr \ {n, new}
      /\ new \in M /\ new # n
  <2>1. TurnedFields(t, M, n, new, outer, inner, far, u)
    BY RotFields
  <2> QED BY <2>1 DEF TurnedFields
<1>2. Opp(side) \in Side /\ Opp(Opp(side)) = side /\ side # Opp(side)
  BY DEF Side, Opp
<1>3. /\ TreeType(t) /\ M \subseteq Node /\ n \in Node /\ new \in Node /\ n # None
  BY <1>1, ZSetConstants DEF IsTree, TreeAt
<1>4. /\ TreeType(u)
      /\ u[side][n] = outer /\ u[Opp(side)][n] = inner
      /\ u[side][new] = n /\ u[Opp(side)][new] = far
  <2>1. /\ TreeType(u) /\ t.parent[n] # n /\ t.parent[n] # new
        /\ \A m \in Node :
             /\ u[side][m] = IF m = new THEN n
                             ELSE IF m = t.parent[n] /\ t[side][m] = n THEN new
                             ELSE t[side][m]
             /\ u[Opp(side)][m] = IF m = n THEN inner
                                  ELSE IF m = t.parent[n] /\ t[Opp(side)][m] = n THEN new
                                  ELSE t[Opp(side)][m]
    BY <1>2, RotatedLinks
  <2> QED BY <1>1, <1>3, <2>1
<1>5. /\ avl_height(u, outer) = avl_height(t, outer) /\ avl_cnt(u, outer) = avl_cnt(t, outer)
      /\ avl_height(u, inner) = avl_height(t, inner) /\ avl_cnt(u, inner) = avl_cnt(t, inner)
      /\ avl_height(u, far) = avl_height(t, far) /\ avl_cnt(u, far) = avl_cnt(t, far)
  BY <1>1, SameHeight
<1>6. avl_height(u, n) = u.height[n] /\ avl_cnt(u, n) = u.cnt[n]
  BY <1>3 DEF avl_height, avl_cnt
<1>7. /\ HeightBelow(u, n) = 1 + Taller(avl_height(u, outer), avl_height(u, inner))
      /\ CountBelow(u, n) = 1 + avl_cnt(u, outer) + avl_cnt(u, inner)
      /\ Even(u, n) <=> avl_height(u, outer) - avl_height(u, inner) \in -1 .. 1
  BY <1>3, <1>4, FieldsFrom
<1>8. /\ HeightBelow(u, new) = 1 + Taller(avl_height(u, n), avl_height(u, far))
      /\ CountBelow(u, new) = 1 + avl_cnt(u, n) + avl_cnt(u, far)
      /\ Even(u, new) <=> avl_height(u, n) - avl_height(u, far) \in -1 .. 1
  BY <1>3, <1>4, FieldsFrom
<1>9. Fields(u, n) /\ Fields(u, new)
  <2>1. u.height[n] = HeightBelow(u, n) /\ u.cnt[n] = CountBelow(u, n)
    BY <1>1, <1>5, <1>7
  <2>2. u.height[new] = HeightBelow(u, new) /\ u.cnt[new] = CountBelow(u, new)
    BY <1>1, <1>5, <1>6, <1>8
  <2> QED BY <2>1, <2>2 DEF Fields
<1>10. Even(u, n) <=> avl_height(t, outer) - avl_height(t, inner) \in -1 .. 1
  BY <1>5, <1>7
<1>11. Even(u, new) <=> u.height[n] - avl_height(t, far) \in -1 .. 1
  BY <1>5, <1>6, <1>8
<1> QED BY <1>3, <1>4, <1>9, <1>10, <1>11

\* m keeps its fields and what its children call for.
Steady(t, u, m) ==
  /\ Fields(t, m) => Fields(u, m)
  /\ Even(t, m) => Even(u, m)

\* m has the same fields and, on each side, a child of the same fields.
Alike(t, u, m) ==
  /\ u.height[m] = t.height[m] /\ u.cnt[m] = t.cnt[m]
  /\ \A s \in Side : /\ avl_height(u, u[s][m]) = avl_height(t, t[s][m])
                     /\ avl_cnt(u, u[s][m]) = avl_cnt(t, t[s][m])

LEMMA AlikeSteady ==
  ASSUME NEW t, TreeType(t), NEW u, TreeType(u), NEW m \in Node, Alike(t, u, m)
  PROVE  Steady(t, u, m)
<1>1. /\ HeightBelow(u, m) = HeightBelow(t, m) /\ CountBelow(u, m) = CountBelow(t, m)
      /\ (Even(u, m) <=> Even(t, m))
  BY SameBelow DEF Alike
<1> QED BY <1>1 DEF Alike, Steady, Fields

\* The other nodes keep theirs; the parent has new for a child instead of n.
LEMMA RotOthers ==
  ASSUME NEW t, NEW r, NEW M, NEW S, NEW sc, IsTree(t, r, M, S, sc),
         NEW n \in M, NEW side \in Side,
         NEW new, new = t[Opp(side)][n], new # None,
         NEW u, u = Rotated(t, n, side)
  PROVE  /\ \A m \in M : m \notin {n, new, t.parent[n]} =>
              Alike(t, u, m) /\ \A s \in Side : u[s][m] = t[s][m]
         /\ \A p \in M : p = t.parent[n] =>
              /\ u.height[p] = t.height[p] /\ u.cnt[p] = t.cnt[p] /\ p # n /\ p # new
              /\ \A s \in Side :
                   /\ t[s][p] = n => u[s][p] = new
                   /\ t[s][p] # n => /\ u[s][p] = t[s][p]
                                     /\ avl_height(u, u[s][p]) = avl_height(t, t[s][p])
                                     /\ avl_cnt(u, u[s][p]) = avl_cnt(t, t[s][p])
<1>1. PICK inner : inner = t[side][new]
  OBVIOUS
<1>2. KeepFields(t, u, {n, new}) /\ new \in M /\ new # n
  <2>1. PICK outer, far : outer = t[side][n] /\ far = t[Opp(side)][new]
    OBVIOUS
  <2>2. TurnedFields(t, M, n, new, outer, inner, far, u)
    BY <1>1, <2>1, RotFields
  <2> QED BY <2>2 DEF TurnedFields
<1>3. Opp(side) \in Side /\ Opp(Opp(side)) = side /\ side # Opp(side)
  BY DEF Side, Opp
<1>4. /\ TreeType(t) /\ M \subseteq Node /\ n \in Node /\ new \in Node
      /\ \A s \in Side : s = side \/ s = Opp(side)
  BY <1>2 DEF IsTree, TreeAt, Side, Opp
<1>5. PICK p : p = t.parent[n]
  OBVIOUS
<1>6. /\ p # n /\ p # new
      /\ \A m \in Node :
           /\ u[side][m] = IF m = new THEN n
                           ELSE IF m = p /\ t[side][m] = n THEN new ELSE t[side][m]
           /\ u[Opp(side)][m] = IF m = n THEN inner
                                ELSE IF m = p /\ t[Opp(side)][m] = n THEN new
                                ELSE t[Opp(side)][m]
  BY <1>1, <1>3, <1>5, RotatedLinks
<1>7. ASSUME NEW m \in M, m # n, m # new, NEW s \in Side, ~(m = p /\ t[s][m] = n)
      PROVE  /\ u[s][m] = t[s][m]
             /\ avl_height(u, u[s][m]) = avl_height(t, t[s][m])
             /\ avl_cnt(u, u[s][m]) = avl_cnt(t, t[s][m])
  <2>1. u[s][m] = t[s][m]
    BY <1>4, <1>6, <1>7
  <2>2. t[s][m] \in Ptr /\ (t[s][m] # None => t.parent[t[s][m]] = m)
    BY Below DEF IsTree
  <2>3. t.parent[new] = n
    BY <1>3, Below DEF IsTree
  <2>4. t[s][m] \notin {n, new}
    <3>1. n # None
      BY <1>4, ZSetConstants
    <3> QED BY <1>5, <1>7, <2>2, <2>3, <3>1
  <2>5. /\ avl_height(u, t[s][m]) = avl_height(t, t[s][m])
        /\ avl_cnt(u, t[s][m]) = avl_cnt(t, t[s][m])
    BY <1>2, <2>2, <2>4, SameHeight
  <2> QED BY <2>1, <2>5
<1>8. \A m \in M : m # n /\ m # new => u.height[m] = t.height[m] /\ u.cnt[m] = t.cnt[m]
  BY <1>2, <1>4 DEF KeepFields
<1>9. ASSUME NEW m \in M, m \notin {n, new, p}
      PROVE  Alike(t, u, m) /\ \A s \in Side : u[s][m] = t[s][m]
  BY <1>7, <1>8, <1>9 DEF Alike
<1>10. ASSUME p \in M
       PROVE  /\ u.height[p] = t.height[p] /\ u.cnt[p] = t.cnt[p]
              /\ \A s \in Side :
                   /\ t[s][p] = n => u[s][p] = new
                   /\ t[s][p] # n => /\ u[s][p] = t[s][p]
                                     /\ avl_height(u, u[s][p]) = avl_height(t, t[s][p])
                                     /\ avl_cnt(u, u[s][p]) = avl_cnt(t, t[s][p])
  <2>1. \A s \in Side : t[s][p] = n => u[s][p] = new
    BY <1>4, <1>6, <1>10
  <2> QED BY <1>6, <1>7, <1>8, <1>10, <2>1
<1> QED BY <1>5, <1>6, <1>9, <1>10

\* A rotation at n with the nodes it touches by name, and the facts above about it: each
\* follows from this one predicate, whatever else is known where it is used.
Turns(t, r, M, S, sc, n, side, new, outer, inner, far, u) ==
  /\ IsTree(t, r, M, S, sc) /\ n \in M /\ side \in Side
  /\ new = t[Opp(side)][n] /\ new # None /\ outer = t[side][n]
  /\ inner = t[side][new] /\ far = t[Opp(side)][new] /\ u = Rotated(t, n, side)

LEMMA TurnFields ==
  ASSUME NEW t, NEW r, NEW M, NEW S, NEW sc, NEW n, NEW side,
         NEW new, NEW outer, NEW inner, NEW far, NEW u,
         Turns(t, r, M, S, sc, n, side, new, outer, inner, far, u)
  PROVE  TurnedFields(t, M, n, new, outer, inner, far, u)
<1>1. /\ IsTree(t, r, M, S, sc) /\ n \in M /\ side \in Side
      /\ new = t[Opp(side)][n] /\ new # None /\ outer = t[side][n]
      /\ inner = t[side][new] /\ far = t[Opp(side)][new] /\ u = Rotated(t, n, side)
  BY DEF Turns
<1> QED BY <1>1, RotFields

LEMMA TurnBoth ==
  ASSUME NEW t, NEW r, NEW M, NEW S, NEW sc, NEW n, NEW side,
         NEW new, NEW outer, NEW inner, NEW far, NEW u,
         Turns(t, r, M, S, sc, n, side, new, outer, inner, far, u)
  PROVE  /\ Fields(u, n) /\ Fields(u, new)
         /\ Even(u, n) <=> avl_height(t, outer) - avl_height(t, inner) \in -1 .. 1
         /\ Even(u, new) <=> u.height[n] - avl_height(t, far) \in -1 .. 1
         /\ TreeType(u) /\ TreeType(t)
<1>1. /\ IsTree(t, r, M, S, sc) /\ n \in M /\ side \in Side
      /\ new = t[Opp(side)][n] /\ new # None /\ outer = t[side][n]
      /\ inner = t[side][new] /\ far = t[Opp(side)][new] /\ u = Rotated(t, n, side)
  BY DEF Turns
<1> QED BY <1>1, RotBoth

LEMMA TurnOthers ==
  ASSUME NEW t, NEW r, NEW M, NEW S, NEW sc, NEW n, NEW side,
         NEW new, NEW outer, NEW inner, NEW far, NEW u,
         Turns(t, r, M, S, sc, n, side, new, outer, inner, far, u)
  PROVE  /\ \A m \in M : m \notin {n, new, t.parent[n]} =>
              Alike(t, u, m) /\ \A s \in Side : u[s][m] = t[s][m]
         /\ \A p \in M : p = t.parent[n] =>
              /\ u.height[p] = t.height[p] /\ u.cnt[p] = t.cnt[p] /\ p # n /\ p # new
              /\ \A s \in Side :
                   /\ t[s][p] = n => u[s][p] = new
                   /\ t[s][p] # n => /\ u[s][p] = t[s][p]
                                     /\ avl_height(u, u[s][p]) = avl_height(t, t[s][p])
                                     /\ avl_cnt(u, u[s][p]) = avl_cnt(t, t[s][p])
<1>1. /\ IsTree(t, r, M, S, sc) /\ n \in M /\ side \in Side
      /\ new = t[Opp(side)][n] /\ new # None /\ outer = t[side][n]
      /\ inner = t[side][new] /\ far = t[Opp(side)][new] /\ u = Rotated(t, n, side)
  BY DEF Turns
<1> QED BY <1>1, RotOthers

TurnedLinks(t, n, side, new, inner, u) ==
  \A m \in Node :
    /\ u[side][m] = IF m = new THEN n
                    ELSE IF m = t.parent[n] /\ t[side][m] = n THEN new
                    ELSE t[side][m]
    /\ u[Opp(side)][m] = IF m = n THEN inner
                         ELSE IF m = t.parent[n] /\ t[Opp(side)][m] = n THEN new
                         ELSE t[Opp(side)][m]

LEMMA RotLinksOf ==
  ASSUME NEW t, NEW r, NEW M, NEW S, NEW sc, IsTree(t, r, M, S, sc),
         NEW n \in M, NEW side \in Side, t[Opp(side)][n] # None
  PROVE  TurnedLinks(t, n, side, t[Opp(side)][n], t[side][t[Opp(side)][n]], Rotated(t, n, side))
BY RotatedLinks DEF TurnedLinks

LEMMA TurnLinks ==
  ASSUME NEW t, NEW r, NEW M, NEW S, NEW sc, NEW n, NEW side,
         NEW new, NEW outer, NEW inner, NEW far, NEW u,
         Turns(t, r, M, S, sc, n, side, new, outer, inner, far, u)
  PROVE  TurnedLinks(t, n, side, new, inner, u)
<1>1. /\ IsTree(t, r, M, S, sc) /\ n \in M /\ side \in Side
      /\ new = t[Opp(side)][n] /\ new # None /\ outer = t[side][n]
      /\ inner = t[side][new] /\ far = t[Opp(side)][new] /\ u = Rotated(t, n, side)
  BY DEF Turns
<1>2. t[Opp(side)][n] # None
  BY <1>1
<1>3. TurnedLinks(t, n, side, t[Opp(side)][n], t[side][t[Opp(side)][n]], Rotated(t, n, side))
  BY <1>1, <1>2, RotLinksOf
<1> QED BY <1>1, <1>3

\* The heights in a single rotation, and in a double one: b is the height of the lower
\* side of n, x and y those of the outer and the inner grandchild on the other side,
\* c and d those below the inner one.
LEMMA SingleHeights ==
  ASSUME NEW b \in Nat, NEW x \in Nat, NEW y \in Nat,
         b + 2 = 1 + Taller(x, y), x - y \in -1 .. 1, ~(x < y)
  PROVE  /\ b - y \in -1 .. 1 /\ (1 + Taller(b, y)) - x \in -1 .. 1
         /\ 1 + Taller(1 + Taller(b, y), x) \in {b + 2, b + 3}
BY DEF Taller

LEMMA DoubleHeights ==
  ASSUME NEW b \in Nat, NEW x \in Nat, NEW y \in Nat, NEW c \in Nat, NEW d \in Nat,
         b + 2 = 1 + Taller(x, y), x - y \in -1 .. 1, x < y,
         y = 1 + Taller(c, d), c - d \in -1 .. 1
  PROVE  /\ x - c \in -1 .. 1 /\ b - d \in -1 .. 1
         /\ (1 + Taller(b, d)) - (1 + Taller(x, c)) \in -1 .. 1
         /\ 1 + Taller(1 + Taller(b, d), 1 + Taller(x, c)) \in {b + 2, b + 3}
BY DEF Taller

\* What avl_fix has put right when it leaves n, whose place top has taken.
Righted(t, w, M, n, top, p) ==
  /\ \A m \in M : m # p => Fields(w, m) /\ Even(w, m)
  /\ p \in M => /\ w.height[p] = t.height[p]
                /\ \A s \in Side : t[s][p] = n =>
                     /\ w[s][p] = top
                     /\ avl_height(w, w[Opp(s)][p]) = avl_height(t, t[Opp(s)][p])

\* avl_fix_side with a single rotation.
LEMMA FixSingle ==
  ASSUME NEW t, NEW r, NEW M, NEW S, NEW sc, IsTree(t, r, M, S, sc),
         NEW n \in M, NEW side \in Side, NEW p, p = t.parent[n],
         NEW new, new = t[Opp(side)][n], NEW outer, outer = t[side][n],
         avl_height(t, new) = avl_height(t, outer) + 2,
         \A m \in M : m # n /\ m # p => Fields(t, m) /\ Even(t, m),
         ~Bent(t, n, Opp(side)),
         NEW w, w = Rotated(t, n, side)
  PROVE  /\ Righted(t, w, M, n, new, p)
         /\ w.height[new] \in {avl_height(t, new), avl_height(t, new) + 1}
<1>1. Opp(side) \in Side /\ Opp(Opp(side)) = side /\ Opp(side) # side
  BY DEF Side, Opp
<1>2. new \in Ptr
  BY <1>1, Below DEF IsTree
<1>3. PICK inner : inner = t[side][new]
  OBVIOUS
<1>4. PICK far : far = t[Opp(side)][new]
  OBVIOUS
<1>5. TreeType(t) /\ M \subseteq Node /\ n \in Node
  BY DEF IsTree, TreeAt
<1>6. outer \in Ptr /\ avl_height(t, outer) \in Nat
  <2>1. outer \in Ptr
    BY Below DEF IsTree
  <2> QED BY <1>5, <2>1, NoHeight
<1>7. new # None
  BY <1>6 DEF avl_height
<1>7a. Turns(t, r, M, S, sc, n, side, new, outer, inner, far, w)
  BY <1>3, <1>4, <1>7 DEF Turns
<1>8. /\ w.height[n] = 1 + Taller(avl_height(t, outer), avl_height(t, inner))
      /\ w.height[new] = 1 + Taller(w.height[n], avl_height(t, far))
      /\ new \in M /\ new # n
  <2>1. /\ w.height[n] = 1 + Taller(avl_height(t, outer), avl_height(t, inner))
        /\ w.cnt[n] = 1 + avl_cnt(t, outer) + avl_cnt(t, inner)
        /\ w.height[new] = 1 + Taller(w.height[n], avl_height(t, far))
        /\ w.cnt[new] = 1 + w.cnt[n] + avl_cnt(t, far)
        /\ KeepFields(t, w, {n, new})
        /\ outer \in Ptr \ {n, new} /\ inner \in Ptr \ {n, new} /\ far \in Ptr \ {n, new}
        /\ new \in M /\ new # n
    <3>1. TurnedFields(t, M, n, new, outer, inner, far, w)
      BY <1>7a, TurnFields
    <3> QED BY <3>1 DEF TurnedFields
  <2> QED BY <2>1
<1>9. /\ Fields(w, n) /\ Fields(w, new)
      /\ Even(w, n) <=> avl_height(t, outer) - avl_height(t, inner) \in -1 .. 1
      /\ Even(w, new) <=> w.height[n] - avl_height(t, far) \in -1 .. 1
      /\ TreeType(w)
  <2>1. /\ Fields(w, n) /\ Fields(w, new)
        /\ Even(w, n) <=> avl_height(t, outer) - avl_height(t, inner) \in -1 .. 1
        /\ Even(w, new) <=> w.height[n] - avl_height(t, far) \in -1 .. 1
        /\ TreeType(w) /\ TreeType(t)
    BY <1>7a, TurnBoth
  <2> QED BY <2>1
<1>10. /\ \A m \in M : m \notin {n, new, p} => Alike(t, w, m)
       /\ p \in M =>
              /\ w.height[p] = t.height[p] /\ p # n /\ p # new
              /\ \A s \in Side :
                   /\ t[s][p] = n => w[s][p] = new
                   /\ t[s][p] # n => /\ w[s][p] = t[s][p]
                                     /\ avl_height(w, w[s][p]) = avl_height(t, t[s][p])
  <2>1. /\ \A m \in M : m \notin {n, new, t.parent[n]} =>
              Alike(t, w, m) /\ \A s \in Side : w[s][m] = t[s][m]
        /\ \A b \in M : b = t.parent[n] =>
              /\ w.height[b] = t.height[b] /\ w.cnt[b] = t.cnt[b] /\ b # n /\ b # new
              /\ \A s \in Side :
                   /\ t[s][b] = n => w[s][b] = new
                   /\ t[s][b] # n => /\ w[s][b] = t[s][b]
                                     /\ avl_height(w, w[s][b]) = avl_height(t, t[s][b])
                                     /\ avl_cnt(w, w[s][b]) = avl_cnt(t, t[s][b])
    BY <1>7a, TurnOthers
  <2> QED BY <2>1
<1>11. new # p
  <2>1. p # None => p \in M
    BY RootOnly
  <2> QED BY <1>7, <1>10, <2>1
<1>12. /\ t.height[new] = 1 + Taller(avl_height(t, far), avl_height(t, inner))
       /\ avl_height(t, far) - avl_height(t, inner) \in -1 .. 1
       /\ avl_height(t, far) \in Nat /\ avl_height(t, inner) \in Nat
       /\ ~(avl_height(t, far) < avl_height(t, inner))
  <2>1. Fields(t, new) /\ Even(t, new) /\ new \in Node
    BY <1>5, <1>8, <1>11
  <2>2. /\ HeightBelow(t, new) = 1 + Taller(avl_height(t, far), avl_height(t, inner))
        /\ Even(t, new) <=> avl_height(t, far) - avl_height(t, inner) \in -1 .. 1
        /\ avl_height(t, far) \in Nat /\ avl_height(t, inner) \in Nat
    <3>1. TreeType(t) /\ new \in Node /\ side \in Side
      BY <1>5, <2>1
    <3>2. /\ HeightBelow(t, new) = 1 + Taller(avl_height(t, t[side][new]), avl_height(t, t[Opp(side)][new]))
          /\ Even(t, new) <=> avl_height(t, t[side][new]) - avl_height(t, t[Opp(side)][new]) \in -1 .. 1
          /\ avl_height(t, t[side][new]) \in Nat /\ avl_height(t, t[Opp(side)][new]) \in Nat
      BY <3>1, FieldsFrom
    <3>3. PICK a \in Nat : a = avl_height(t, inner) /\ a = avl_height(t, t[side][new])
      BY <1>3, <3>2
    <3>4. PICK b \in Nat : b = avl_height(t, far) /\ b = avl_height(t, t[Opp(side)][new])
      BY <1>4, <3>2
    <3>5. 1 + Taller(a, b) = 1 + Taller(b, a) /\ (a - b \in -1 .. 1 <=> b - a \in -1 .. 1)
      BY DEF Taller
    <3> QED BY <3>2, <3>3, <3>4, <3>5
  <2>3. ~(avl_height(t, far) < avl_height(t, inner))
    BY <1>1, <1>3, <1>4 DEF Bent
  <2> QED BY <2>1, <2>2, <2>3 DEF Fields
<1>13. avl_height(t, new) = t.height[new]
  BY <1>7 DEF avl_height
<1>14. /\ Even(w, n) /\ Even(w, new)
       /\ w.height[new] \in {avl_height(t, new), avl_height(t, new) + 1}
  <2>1. PICK b \in Nat : b = avl_height(t, outer)
    BY <1>6
  <2>2. PICK x \in Nat : x = avl_height(t, far)
    BY <1>12
  <2>3. PICK y \in Nat : y = avl_height(t, inner)
    BY <1>12
  <2>4. b + 2 = 1 + Taller(x, y) /\ x - y \in -1 .. 1 /\ ~(x < y) /\ avl_height(t, new) = b + 2
    BY <1>12, <1>13, <2>1, <2>2, <2>3
  <2>5. /\ b - y \in -1 .. 1 /\ (1 + Taller(b, y)) - x \in -1 .. 1
        /\ 1 + Taller(1 + Taller(b, y), x) \in {b + 2, b + 3}
    BY <2>4, SingleHeights
  <2>6. Even(w, n) /\ Even(w, new)
    BY <1>8, <1>9, <2>1, <2>2, <2>3, <2>5
  <2>7. w.height[new] = 1 + Taller(1 + Taller(b, y), x)
    BY <1>8, <2>1, <2>2, <2>3
  <2> QED BY <2>4, <2>5, <2>6, <2>7
<1>15. ASSUME NEW m \in M, m # p PROVE Fields(w, m) /\ Even(w, m)
  <2>1. CASE m = n \/ m = new
    BY <1>9, <1>14, <2>1
  <2>2. CASE m # n /\ m # new
    <3>1. Fields(t, m) /\ Even(t, m) /\ Alike(t, w, m) /\ m \in Node
      BY <1>5, <1>10, <1>15, <2>2
    <3> QED BY <1>5, <1>9, <3>1, AlikeSteady DEF Steady
  <2> QED BY <2>1, <2>2
<1>16. ASSUME p \in M
       PROVE  /\ w.height[p] = t.height[p]
              /\ \A s \in Side : t[s][p] = n =>
                   /\ w[s][p] = new
                   /\ avl_height(w, w[Opp(s)][p]) = avl_height(t, t[Opp(s)][p])
  <2>1. ASSUME NEW s \in Side, t[s][p] = n PROVE t[Opp(s)][p] # n /\ Opp(s) \in Side
    <3>1. n # None
      BY <1>5, ZSetConstants
    <3>2. Opp(s) \in Side
      BY DEF Side, Opp
    <3> QED BY <1>16, <2>1, <3>1, <3>2, Below DEF IsTree
  <2> QED BY <1>10, <1>16, <2>1
<1> QED BY <1>14, <1>15, <1>16 DEF Righted

\* avl_fix_side with a double rotation.
LEMMA FixDouble ==
  ASSUME NEW t, NEW r, NEW M, NEW S, NEW sc, IsTree(t, r, M, S, sc),
         NEW n \in M, NEW side \in Side, NEW p, p = t.parent[n],
         NEW child, child = t[Opp(side)][n], NEW outer, outer = t[side][n],
         avl_height(t, child) = avl_height(t, outer) + 2,
         \A m \in M : m # n /\ m # p => Fields(t, m) /\ Even(t, m),
         Bent(t, n, Opp(side)),
         NEW mid, mid = Middle(t, n, Opp(side)),
         NEW w, w = Rotated(mid, n, side), NEW top, top = mid[Opp(side)][n]
  PROVE  /\ Righted(t, w, M, n, top, p)
         /\ w.height[top] \in {avl_height(t, child), avl_height(t, child) + 1}
<1>1. PICK o \in Side : o = Opp(side) /\ side = Opp(o) /\ o # side
  BY DEF Side, Opp
<1>2. TreeType(t) /\ M \subseteq Node /\ n \in Node /\ n # None
  BY ZSetConstants DEF IsTree, TreeAt
<1>3. outer \in Ptr /\ child \in Ptr /\ avl_height(t, outer) \in Nat
  <2>1. outer \in Ptr /\ child \in Ptr
    BY <1>1, Below DEF IsTree
  <2> QED BY <1>2, <2>1, NoHeight
<1>4. child # None
  BY <1>3 DEF avl_height
<1>5. /\ child \in M /\ t.parent[child] = n /\ child # n /\ n \notin S[child] /\ outer # child
      /\ t[o][n] = child /\ t[side][n] # child
  BY <1>1, <1>4, Below DEF IsTree
<1>6. PICK g : g = t[side][child]
  OBVIOUS
<1>7. PICK f : f = avl_fix_side(t, n, o)
  OBVIOUS
<1>8. mid = Rotated(t, child, o) /\ g # None /\ mid.parent[n] = p
  <2>1. mid = Rotated(t, child, o)
    BY <1>1 DEF Middle
  <2>2. t[Opp(o)][t[o][n]] # None /\ mid.parent[n] = t.parent[n]
    BY <1>1, <1>4, <1>7, FixSideIs
  <2> QED BY <1>1, <1>6, <2>1, <2>2
<1>9. PICK S2 : IsTree(mid, r, M, S2, sc)
  BY <1>1, <1>4, <1>7, FixSideIs
<1>10. PICK x : x = t[o][child]
  OBVIOUS
<1>11. PICK c : c = t[o][g]
  OBVIOUS
<1>12. PICK d : d = t[side][g]
  OBVIOUS
<1>13. g = t[Opp(o)][child] /\ d = t[Opp(o)][g]
  BY <1>1, <1>6, <1>12
<1>13a. Turns(t, r, M, S, sc, child, o, g, x, c, d, mid)
  BY <1>5, <1>8, <1>10, <1>11, <1>13 DEF Turns
<1>14. /\ mid.height[child] = 1 + Taller(avl_height(t, x), avl_height(t, c))
       /\ KeepFields(t, mid, {child, g}) /\ d \in Ptr \ {child, g} /\ x \in Ptr /\ c \in Ptr
       /\ g \in M /\ g # child
  <2>1. /\ mid.height[child] = 1 + Taller(avl_height(t, x), avl_height(t, c))
        /\ mid.cnt[child] = 1 + avl_cnt(t, x) + avl_cnt(t, c)
        /\ mid.height[g] = 1 + Taller(mid.height[child], avl_height(t, d))
        /\ mid.cnt[g] = 1 + mid.cnt[child] + avl_cnt(t, d)
        /\ KeepFields(t, mid, {child, g})
        /\ x \in Ptr \ {child, g} /\ c \in Ptr \ {child, g} /\ d \in Ptr \ {child, g}
        /\ g \in M /\ g # child
    <3>1. TurnedFields(t, M, child, g, x, c, d, mid)
      BY <1>13a, TurnFields
    <3> QED BY <3>1 DEF TurnedFields
  <2> QED BY <2>1
<1>15. /\ Fields(mid, child) /\ TreeType(mid)
       /\ Even(mid, child) <=> avl_height(t, x) - avl_height(t, c) \in -1 .. 1
  <2>1. /\ Fields(mid, child) /\ Fields(mid, g)
        /\ Even(mid, child) <=> avl_height(t, x) - avl_height(t, c) \in -1 .. 1
        /\ Even(mid, g) <=> mid.height[child] - avl_height(t, d) \in -1 .. 1
        /\ TreeType(mid) /\ TreeType(t)
    BY <1>13a, TurnBoth
  <2> QED BY <2>1
<1>16. /\ \A m \in M : m \notin {child, g, n} =>
              Alike(t, mid, m) /\ \A s \in Side : mid[s][m] = t[s][m]
       /\ n # g
       /\ mid[o][n] = g /\ mid[side][n] = outer
       /\ avl_height(mid, outer) = avl_height(t, outer)
  <2>1. /\ \A m \in M : m \notin {child, g, t.parent[child]} =>
              Alike(t, mid, m) /\ \A s \in Side : mid[s][m] = t[s][m]
        /\ \A b \in M : b = t.parent[child] =>
              /\ mid.height[b] = t.height[b] /\ mid.cnt[b] = t.cnt[b] /\ b # child /\ b # g
              /\ \A s \in Side :
                   /\ t[s][b] = child => mid[s][b] = g
                   /\ t[s][b] # child => /\ mid[s][b] = t[s][b]
                                     /\ avl_height(mid, mid[s][b]) = avl_height(t, t[s][b])
                                     /\ avl_cnt(mid, mid[s][b]) = avl_cnt(t, t[s][b])
    BY <1>13a, TurnOthers
  <2>2. mid[side][n] = t[side][n] /\ avl_height(mid, mid[side][n]) = avl_height(t, t[side][n])
    BY <1>5, <2>1
  <2>3. n # g /\ mid[o][n] = g
    BY <1>1, <1>5, <2>1
  <2> QED BY <1>5, <2>1, <2>2, <2>3
<1>17. mid[o][g] = child /\ mid[side][g] = d
  <2>1. /\ mid[o][g] = IF g = g THEN child ELSE t[o][g]
        /\ mid[Opp(o)][g] = IF g = child THEN c
                            ELSE IF g = t.parent[child] /\ t[Opp(o)][g] = child THEN g
                            ELSE t[Opp(o)][g]
    <3>1. \A m \in Node :
                  /\ mid[o][m] = IF m = g THEN child
                                  ELSE IF m = t.parent[child] /\ t[o][m] = child THEN g
                                  ELSE t[o][m]
                  /\ mid[Opp(o)][m] = IF m = child THEN c
                                       ELSE IF m = t.parent[child] /\ t[Opp(o)][m] = child THEN g
                                       ELSE t[Opp(o)][m]
      <4>1. TurnedLinks(t, child, o, g, c, mid)
        BY <1>13a, TurnLinks
      <4> QED BY <4>1 DEF TurnedLinks
    <3>2. g \in Node
      BY <1>2, <1>14
    <3> QED BY <3>1, <3>2
  <2> QED BY <1>1, <1>5, <1>12, <1>14, <1>16, <2>1
<1>18. /\ top = g /\ g = mid[Opp(side)][n] /\ g # None
       /\ outer = mid[side][n] /\ d = mid[side][g] /\ child = mid[Opp(side)][g]
  BY <1>1, <1>8, <1>16, <1>17
<1>18a. Turns(mid, r, M, S2, sc, n, side, g, outer, d, child, w)
  BY <1>9, <1>18 DEF Turns
<1>19. /\ w.height[n] = 1 + Taller(avl_height(mid, outer), avl_height(mid, d))
       /\ w.height[g] = 1 + Taller(w.height[n], avl_height(mid, child))
  <2>1. /\ w.height[n] = 1 + Taller(avl_height(mid, outer), avl_height(mid, d))
        /\ w.cnt[n] = 1 + avl_cnt(mid, outer) + avl_cnt(mid, d)
        /\ w.height[g] = 1 + Taller(w.height[n], avl_height(mid, child))
        /\ w.cnt[g] = 1 + w.cnt[n] + avl_cnt(mid, child)
        /\ KeepFields(mid, w, {n, g})
        /\ outer \in Ptr \ {n, g} /\ d \in Ptr \ {n, g} /\ child \in Ptr \ {n, g}
        /\ g \in M /\ g # n
    <3>1. TurnedFields(mid, M, n, g, outer, d, child, w)
      BY <1>18a, TurnFields
    <3> QED BY <3>1 DEF TurnedFields
  <2> QED BY <2>1
<1>20. /\ Fields(w, n) /\ Fields(w, g)
       /\ Even(w, n) <=> avl_height(mid, outer) - avl_height(mid, d) \in -1 .. 1
       /\ Even(w, g) <=> w.height[n] - avl_height(mid, child) \in -1 .. 1
       /\ TreeType(w)
  <2>1. /\ Fields(w, n) /\ Fields(w, g)
        /\ Even(w, n) <=> avl_height(mid, outer) - avl_height(mid, d) \in -1 .. 1
        /\ Even(w, g) <=> w.height[n] - avl_height(mid, child) \in -1 .. 1
        /\ TreeType(w) /\ TreeType(mid)
    BY <1>18a, TurnBoth
  <2> QED BY <2>1
<1>21. /\ \A m \in M : m \notin {n, g, p} => Alike(mid, w, m)
       /\ p \in M =>
              /\ w.height[p] = mid.height[p] /\ p # n /\ p # g
              /\ \A s \in Side :
                   /\ mid[s][p] = n => w[s][p] = g
                   /\ mid[s][p] # n => avl_height(w, w[s][p]) = avl_height(mid, mid[s][p])
  <2>1. /\ \A m \in M : m \notin {n, g, mid.parent[n]} =>
              Alike(mid, w, m) /\ \A s \in Side : w[s][m] = mid[s][m]
        /\ \A b \in M : b = mid.parent[n] =>
              /\ w.height[b] = mid.height[b] /\ w.cnt[b] = mid.cnt[b] /\ b # n /\ b # g
              /\ \A s \in Side :
                   /\ mid[s][b] = n => w[s][b] = g
                   /\ mid[s][b] # n => /\ w[s][b] = mid[s][b]
                                     /\ avl_height(w, w[s][b]) = avl_height(mid, mid[s][b])
                                     /\ avl_cnt(w, w[s][b]) = avl_cnt(mid, mid[s][b])
    BY <1>18a, TurnOthers
  <2> QED BY <1>8, <2>1
<1>22. /\ avl_height(mid, d) = avl_height(t, d)
       /\ avl_height(mid, child) = 1 + Taller(avl_height(t, x), avl_height(t, c))
  BY <1>4, <1>14, SameHeight DEF avl_height
<1>23. p # child /\ p # g /\ (p # None => p \in M)
  <2>1. p # None => p \in M /\ n \in S[p]
    BY RootOnly
  <2>2. None \notin M
    BY <1>2, ZSetConstants
  <2> QED BY <1>5, <1>8, <1>21, <2>1, <2>2
<1>24. /\ t.height[child] = 1 + Taller(avl_height(t, x), avl_height(t, g))
       /\ avl_height(t, x) - avl_height(t, g) \in -1 .. 1
       /\ avl_height(t, x) \in Nat /\ avl_height(t, g) \in Nat
       /\ avl_height(t, x) < avl_height(t, g)
  <2>1. Fields(t, child) /\ Even(t, child) /\ child \in Node
    BY <1>2, <1>5, <1>23
  <2>2. /\ HeightBelow(t, child) = 1 + Taller(avl_height(t, x), avl_height(t, g))
        /\ Even(t, child) <=> avl_height(t, x) - avl_height(t, g) \in -1 .. 1
        /\ avl_height(t, x) \in Nat /\ avl_height(t, g) \in Nat
    <3>1. /\ HeightBelow(t, child) = 1 + Taller(avl_height(t, t[o][child]), avl_height(t, t[Opp(o)][child]))
          /\ Even(t, child) <=> avl_height(t, t[o][child]) - avl_height(t, t[Opp(o)][child]) \in -1 .. 1
          /\ avl_height(t, t[o][child]) \in Nat /\ avl_height(t, t[Opp(o)][child]) \in Nat
      BY <1>2, <2>1, FieldsFrom
    <3>2. x = t[o][child] /\ g = t[Opp(o)][child]
      BY <1>10, <1>13
    <3> QED BY <3>1, <3>2
  <2>3. avl_height(t, x) < avl_height(t, g)
    BY <1>1, <1>5, <1>6, <1>10 DEF Bent
  <2> QED BY <2>1, <2>2, <2>3 DEF Fields
<1>25. /\ t.height[g] = 1 + Taller(avl_height(t, c), avl_height(t, d))
       /\ avl_height(t, c) - avl_height(t, d) \in -1 .. 1
       /\ avl_height(t, c) \in Nat /\ avl_height(t, d) \in Nat
  <2>1. Fields(t, g) /\ Even(t, g) /\ g \in Node
    BY <1>2, <1>14, <1>16, <1>23
  <2>2. /\ HeightBelow(t, g) = 1 + Taller(avl_height(t, c), avl_height(t, d))
        /\ Even(t, g) <=> avl_height(t, c) - avl_height(t, d) \in -1 .. 1
        /\ avl_height(t, c) \in Nat /\ avl_height(t, d) \in Nat
    <3>1. /\ HeightBelow(t, g) = 1 + Taller(avl_height(t, t[o][g]), avl_height(t, t[Opp(o)][g]))
          /\ Even(t, g) <=> avl_height(t, t[o][g]) - avl_height(t, t[Opp(o)][g]) \in -1 .. 1
          /\ avl_height(t, t[o][g]) \in Nat /\ avl_height(t, t[Opp(o)][g]) \in Nat
      BY <1>2, <2>1, FieldsFrom
    <3>2. c = t[o][g] /\ d = t[Opp(o)][g]
      BY <1>11, <1>13
    <3> QED BY <3>1, <3>2
  <2> QED BY <2>1, <2>2 DEF Fields
<1>26. avl_height(t, child) = t.height[child] /\ avl_height(t, g) = t.height[g]
  BY <1>4, <1>8 DEF avl_height
<1>27. /\ Even(w, n) /\ Even(w, g) /\ Even(mid, child)
       /\ w.height[g] \in {avl_height(t, child), avl_height(t, child) + 1}
  <2>1. PICK hb \in Nat : hb = avl_height(t, outer)
    BY <1>3
  <2>2. PICK hx \in Nat : hx = avl_height(t, x)
    BY <1>24
  <2>3. PICK hg \in Nat : hg = avl_height(t, g)
    BY <1>24
  <2>4. PICK hc \in Nat : hc = avl_height(t, c)
    BY <1>25
  <2>5. PICK hd \in Nat : hd = avl_height(t, d)
    BY <1>25
  <2>6. /\ hb + 2 = 1 + Taller(hx, hg) /\ hx - hg \in -1 .. 1 /\ hx < hg
        /\ hg = 1 + Taller(hc, hd) /\ hc - hd \in -1 .. 1
        /\ avl_height(t, child) = hb + 2
    BY <1>24, <1>25, <1>26, <2>1, <2>2, <2>3, <2>4, <2>5
  <2>7. /\ hx - hc \in -1 .. 1 /\ hb - hd \in -1 .. 1
        /\ (1 + Taller(hb, hd)) - (1 + Taller(hx, hc)) \in -1 .. 1
        /\ 1 + Taller(1 + Taller(hb, hd), 1 + Taller(hx, hc)) \in {hb + 2, hb + 3}
    BY <2>6, DoubleHeights
  <2>8. w.height[n] = 1 + Taller(hb, hd) /\ avl_height(mid, child) = 1 + Taller(hx, hc)
    BY <1>16, <1>19, <1>22, <2>1, <2>2, <2>4, <2>5
  <2>9. Even(w, n) /\ Even(w, g) /\ Even(mid, child)
    BY <1>15, <1>16, <1>20, <1>22, <2>1, <2>2, <2>4, <2>5, <2>7, <2>8
  <2>10. w.height[g] = 1 + Taller(1 + Taller(hb, hd), 1 + Taller(hx, hc))
    BY <1>19, <2>8
  <2> QED BY <2>6, <2>7, <2>9, <2>10
<1>28. ASSUME NEW m \in M, m # p PROVE Fields(w, m) /\ Even(w, m)
  <2>1. CASE m = n \/ m = g
    BY <1>20, <1>27, <2>1
  <2>2. CASE m = child
    <3>1. Alike(mid, w, m) /\ m \in Node
      BY <1>2, <1>5, <1>14, <1>21, <1>28, <2>2
    <3> QED BY <1>15, <1>20, <1>27, <2>2, <3>1, AlikeSteady DEF Steady
  <2>3. CASE m \notin {n, g, child}
    <3>1. Fields(t, m) /\ Even(t, m) /\ m \in Node
      BY <1>2, <1>28, <2>3
    <3>2. Alike(t, mid, m) /\ Alike(mid, w, m)
      BY <1>16, <1>21, <1>28, <2>3
    <3>3. Steady(t, mid, m)
      BY <1>2, <1>15, <3>1, <3>2, AlikeSteady
    <3>4. Steady(mid, w, m)
      BY <1>15, <1>20, <3>1, <3>2, AlikeSteady
    <3> QED BY <3>1, <3>3, <3>4 DEF Steady
  <2> QED BY <2>1, <2>2, <2>3
<1>29. ASSUME p \in M
       PROVE  /\ w.height[p] = t.height[p]
              /\ \A s \in Side : t[s][p] = n =>
                   /\ w[s][p] = g
                   /\ avl_height(w, w[Opp(s)][p]) = avl_height(t, t[Opp(s)][p])
  <2>1. Alike(t, mid, p) /\ \A s \in Side : mid[s][p] = t[s][p]
    BY <1>16, <1>21, <1>23, <1>29
  <2>2. ASSUME NEW s \in Side, t[s][p] = n PROVE t[Opp(s)][p] # n /\ Opp(s) \in Side
    <3>1. Opp(s) \in Side
      BY DEF Side, Opp
    <3> QED BY <1>2, <1>29, <2>2, <3>1, Below DEF IsTree
  <2>3. w.height[p] = t.height[p]
    BY <1>21, <1>29, <2>1 DEF Alike
  <2>4. ASSUME NEW s \in Side, t[s][p] = n
        PROVE  /\ w[s][p] = g
               /\ avl_height(w, w[Opp(s)][p]) = avl_height(t, t[Opp(s)][p])
    <3>1. t[Opp(s)][p] # n /\ Opp(s) \in Side
      BY <2>2, <2>4
    <3>2. mid[s][p] = n /\ mid[Opp(s)][p] # n
      BY <2>1, <2>4, <3>1
    <3>3. w[s][p] = g /\ avl_height(w, w[Opp(s)][p]) = avl_height(mid, mid[Opp(s)][p])
      BY <1>21, <1>29, <3>1, <3>2
    <3>4. avl_height(mid, mid[Opp(s)][p]) = avl_height(t, t[Opp(s)][p])
      BY <2>1, <3>1 DEF Alike
    <3> QED BY <3>3, <3>4
  <2> QED BY <2>3, <2>4
<1>30. Righted(t, w, M, n, g, p)
  BY <1>28, <1>29 DEF Righted
<1> QED BY <1>18, <1>27, <1>30

\* The heights at a node of avl_fix, a and b those of its children, whose parent goes by h.
Due(a, b, h) ==
  \/ a - b \in -1 .. 1 /\ (1 + Taller(a, b)) - h \in -1 .. 1
  \/ a = b + 2 /\ h \in {a, a + 1}
  \/ b = a + 2 /\ h \in {b, b + 1}

\* When a child whose height was h has the height k, at most one away, and the other
\* child has the height b.
LEMMA DueAbove ==
  ASSUME NEW h \in Nat, NEW k \in Nat, NEW b \in Nat, k - h \in -1 .. 1, h - b \in -1 .. 1
  PROVE  /\ Due(k, b, 1 + Taller(h, b)) /\ Due(b, k, 1 + Taller(h, b))
         /\ 1 + Taller(h, b) \in Nat
BY DEF Due, Taller

\* Everything is right above and below n, where avl_fix stands, if one takes h for the
\* height of n.
Near(t, M, n, h) ==
  /\ h \in Nat
  /\ Due(avl_height(t, t.left[n]), avl_height(t, t.right[n]), h)
  /\ \A m \in M : m # n /\ m # t.parent[n] => Fields(t, m) /\ Even(t, m)
  /\ \A p \in M, s \in Side : p = t.parent[n] /\ t[s][p] = n =>
       LET o == avl_height(t, t[Opp(s)][p])
       IN  t.height[p] = 1 + Taller(h, o) /\ h - o \in -1 .. 1

\* Every node has the right fields and is balanced.
Right(t, M) == \A m \in M : Fields(t, m) /\ Even(t, m)

\* The heights on both sides of n.
LEMMA DueSides ==
  ASSUME NEW t, TreeType(t), NEW n \in Node, NEW h,
         Due(avl_height(t, t.left[n]), avl_height(t, t.right[n]), h), NEW s \in Side
  PROVE  Due(avl_height(t, t[s][n]), avl_height(t, t[Opp(s)][n]), h)
<1>1. t.left[n] \in Ptr /\ t.right[n] \in Ptr
  BY DEF TreeType
<1>2. avl_height(t, t.left[n]) \in Nat /\ avl_height(t, t.right[n]) \in Nat
  BY <1>1, NoHeight
<1>3. \A a, b \in Nat : Due(a, b, h) => Due(b, a, h)
  BY DEF Due, Taller
<1>4. CASE s = "left"
  BY <1>4 DEF Opp
<1>5. CASE s = "right"
  BY <1>2, <1>3, <1>5 DEF Opp
<1> QED BY <1>4, <1>5 DEF Side

\* avl_update at n.
LEMMA UpdateNear ==
  ASSUME NEW t, NEW r, NEW M, NEW S, NEW sc, IsTree(t, r, M, S, sc), NEW n \in M,
         NEW h, Near(t, M, n, h), NEW u, u = avl_update(t, n)
  PROVE  /\ Near(u, M, n, h) /\ Fields(u, n) /\ IsTree(u, r, M, S, sc) /\ SameLinks(t, u)
<1>1. TreeType(t) /\ M \subseteq Node /\ n \in Node /\ n # None
  BY ZSetConstants DEF IsTree, TreeAt
<1>2. TreeType(u) /\ SameLinks(t, u)
  BY <1>1, UpdateLinks
<1>3. IsTree(u, r, M, S, sc)
  BY <1>2, SameTree
<1>4. t.left[n] # n /\ t.right[n] # n /\ t.left[n] \in Ptr /\ t.right[n] \in Ptr
  <2>1. \A s \in Side : t[s][n] \in Ptr /\ (t[s][n] # None => t[s][n] \in S[t[s][n]]) /\ n \notin S[t[s][n]]
    BY Below DEF IsTree
  <2>2. \A s \in Side : t[s][n] \in Ptr /\ t[s][n] # n
    BY <1>1, <2>1
  <2> QED BY <2>2 DEF Side
<1>5. Fields(u, n) /\ KeepFields(t, u, {n})
  BY <1>1, <1>4, UpdateFields
<1>6. \A s \in Side : u[s] = t[s]
  BY <1>2 DEF SameLinks, Side
<1>7. u.parent = t.parent /\ u.left = t.left /\ u.right = t.right
  BY <1>2 DEF SameLinks
<1>8. ASSUME NEW m \in M, NEW s \in Side, t[s][m] # n
      PROVE  /\ avl_height(u, u[s][m]) = avl_height(t, t[s][m])
             /\ avl_cnt(u, u[s][m]) = avl_cnt(t, t[s][m])
  <2>1. t[s][m] \in Ptr
    BY Below DEF IsTree
  <2> QED BY <1>5, <1>6, <1>8, <2>1, SameHeight
<1>9. ASSUME NEW m \in M, m # n, m # t.parent[n] PROVE Fields(u, m) /\ Even(u, m)
  <2>1. \A s \in Side : t[s][m] # n
    BY <1>1, <1>9, Below DEF IsTree
  <2>2. u.height[m] = t.height[m] /\ u.cnt[m] = t.cnt[m]
    BY <1>1, <1>5, <1>9 DEF KeepFields
  <2>3. Alike(t, u, m) /\ m \in Node
    BY <1>1, <1>8, <2>1, <2>2 DEF Alike
  <2>4. Fields(t, m) /\ Even(t, m)
    BY <1>9 DEF Near
  <2> QED BY <1>1, <1>2, <2>3, <2>4, AlikeSteady DEF Steady
<1>10. Due(avl_height(u, u.left[n]), avl_height(u, u.right[n]), h)
  <2>1. /\ avl_height(u, t.left[n]) = avl_height(t, t.left[n])
        /\ avl_height(u, t.right[n]) = avl_height(t, t.right[n])
    BY <1>4, <1>5, SameHeight
  <2> QED BY <1>7, <2>1 DEF Near
<1>11. ASSUME NEW p \in M, NEW s \in Side, p = t.parent[n], t[s][p] = n,
              NEW o, o = avl_height(u, u[Opp(s)][p])
       PROVE  u.height[p] = 1 + Taller(h, o) /\ h - o \in -1 .. 1
  <2>1. Opp(s) \in Side
    BY DEF Side, Opp
  <2>2. t[Opp(s)][p] # n /\ p # n
    <3>1. p # n /\ p \in M /\ n # None
      BY <1>1, <1>11, ZSetConstants, RootOnly
    <3>2. TreeType(t) /\ ScoreType(sc) /\ TreeAt(t, r, M, S, sc)
      BY DEF IsTree
    <3>3. t[s][p] # None => t[Opp(s)][p] # t[s][p]
      BY <1>11, <3>1, <3>2, Below
    <3> QED BY <1>11, <3>1, <3>3
  <2>3. o = avl_height(t, t[Opp(s)][p]) /\ u.height[p] = t.height[p]
    BY <1>1, <1>5, <1>8, <1>11, <2>1, <2>2 DEF KeepFields
  <2> QED BY <1>11, <2>3 DEF Near
<1>12. ASSUME NEW p \in M, NEW s \in Side, p = u.parent[n] /\ u[s][p] = n
       PROVE  LET o == avl_height(u, u[Opp(s)][p])
              IN  u.height[p] = 1 + Taller(h, o) /\ h - o \in -1 .. 1
  BY <1>6, <1>7, <1>11, <1>12
<1>13. Near(u, M, n, h)
  BY <1>7, <1>9, <1>10, <1>12 DEF Near
<1> QED BY <1>2, <1>3, <1>5, <1>13

\* When avl_fix has put right the tree at n, its parent is the next node.
LEMMA NearAbove ==
  ASSUME NEW t, NEW r, NEW M, NEW S, NEW sc, IsTree(t, r, M, S, sc), NEW n \in M,
         NEW h, Near(t, M, n, h), NEW p, p = t.parent[n], p \in M,
         NEW w, NEW r2, NEW S2, IsTree(w, r2, M, S2, sc), NEW top \in M,
         Righted(t, w, M, n, top, p), w.height[top] - h \in -1 .. 1
  PROVE  Near(w, M, p, w.height[p])
<1>1. TreeType(t) /\ TreeType(w) /\ M \subseteq Node /\ p \in Node /\ top \in Node /\ top # None
  BY ZSetConstants DEF IsTree, TreeAt
<1>2. p # None
  BY <1>1, ZSetConstants
<1>3. PICK s \in Side : t[s][p] = n
  BY <1>2, RootOnly
<1>4. PICK o : o = avl_height(t, t[Opp(s)][p])
  OBVIOUS
<1>5. /\ w.height[p] = t.height[p] /\ w[s][p] = top
      /\ avl_height(w, w[Opp(s)][p]) = o
  BY <1>3, <1>4 DEF Righted
<1>6. t.height[p] = 1 + Taller(h, o) /\ h - o \in -1 .. 1 /\ h \in Nat
  BY <1>3, <1>4 DEF Near
<1>7. o \in Nat
  BY <1>1, <1>4, FieldsFrom
<1>8. avl_height(w, top) = w.height[top] /\ w.height[top] \in Nat
  BY <1>1 DEF avl_height, TreeType
<1>9. PICK k \in Nat : k = w.height[top]
  BY <1>8
<1>10. Due(k, o, w.height[p]) /\ Due(o, k, w.height[p]) /\ w.height[p] \in Nat
  <2>1. k - h \in -1 .. 1
    BY <1>9
  <2>2. /\ Due(k, o, 1 + Taller(h, o)) /\ Due(o, k, 1 + Taller(h, o))
        /\ 1 + Taller(h, o) \in Nat
    BY <1>6, <1>7, <2>1, DueAbove
  <2> QED BY <1>5, <1>6, <2>2
<1>11. Due(avl_height(w, w.left[p]), avl_height(w, w.right[p]), w.height[p])
  <2>1. CASE s = "left"
    BY <1>5, <1>8, <1>9, <1>10, <2>1 DEF Opp
  <2>2. CASE s = "right"
    BY <1>5, <1>8, <1>9, <1>10, <2>2 DEF Opp
  <2> QED BY <2>1, <2>2 DEF Side
<1>12. \A m \in M : m # p => Fields(w, m) /\ Even(w, m)
  BY DEF Righted
<1>13. ASSUME NEW b \in M, NEW x \in Side, b = w.parent[p] /\ w[x][b] = p
       PROVE  LET y == avl_height(w, w[Opp(x)][b])
              IN  w.height[b] = 1 + Taller(w.height[p], y) /\ w.height[p] - y \in -1 .. 1
  <2>1. b # p /\ b \in Node
    <3>1. w.parent[p] # None => p # w.parent[p]
      BY RootOnly
    <3> QED BY <1>1, <1>2, <1>13, <3>1
  <2>2. Fields(w, b) /\ Even(w, b)
    BY <1>12, <2>1
  <2>3. /\ HeightBelow(w, b) = 1 + Taller(avl_height(w, w[x][b]), avl_height(w, w[Opp(x)][b]))
        /\ Even(w, b) <=> avl_height(w, w[x][b]) - avl_height(w, w[Opp(x)][b]) \in -1 .. 1
    BY <1>1, <2>1, FieldsFrom
  <2>4. avl_height(w, p) = w.height[p]
    BY <1>2 DEF avl_height
  <2> QED BY <1>13, <2>2, <2>3, <2>4 DEF Fields
<1> QED BY <1>10, <1>11, <1>12, <1>13 DEF Near

\* avl_fix_side puts right the tree at n.
LEMMA FixSideRight ==
  ASSUME NEW t, NEW r, NEW M, NEW S, NEW sc, IsTree(t, r, M, S, sc), NEW n \in M,
         NEW h, Near(t, M, n, h), NEW p, p = t.parent[n], NEW side \in Side,
         avl_height(t, t[Opp(side)][n]) = avl_height(t, t[side][n]) + 2,
         NEW mid, mid = Middle(t, n, Opp(side)),
         NEW w, w = Rotated(mid, n, side), NEW top, top = mid[Opp(side)][n]
  PROVE  Righted(t, w, M, n, top, p) /\ w.height[top] - h \in -1 .. 1
<1>1. PICK c : c = t[Opp(side)][n]
  OBVIOUS
<1>2. PICK d : d = t[side][n]
  OBVIOUS
<1>3. Opp(side) \in Side /\ Opp(Opp(side)) = side
  BY DEF Side, Opp
<1>4. TreeType(t) /\ n \in Node
  BY DEF IsTree, TreeAt
<1>5. PICK a \in Nat : a = avl_height(t, c)
  BY <1>1, <1>3, <1>4, FieldsFrom
<1>6. PICK b \in Nat : b = avl_height(t, d)
  BY <1>2, <1>3, <1>4, FieldsFrom
<1>7. a = b + 2 /\ \A m \in M : m # n /\ m # p => Fields(t, m) /\ Even(t, m)
  BY <1>1, <1>2, <1>5, <1>6 DEF Near
<1>8. Righted(t, w, M, n, top, p) /\ w.height[top] \in {a, a + 1}
  <2>1. avl_height(t, c) = avl_height(t, d) + 2
    BY <1>5, <1>6, <1>7
  <2>2. CASE ~Bent(t, n, Opp(side))
    <3>1. mid = t /\ top = c
      BY <1>1, <2>2 DEF Middle
    <3>2. w = Rotated(t, n, side)
      BY <3>1
    <3>3. Righted(t, w, M, n, c, p) /\ w.height[c] \in {avl_height(t, c), avl_height(t, c) + 1}
      BY <1>1, <1>2, <1>7, <2>1, <2>2, <3>2, FixSingle
    <3> QED BY <1>5, <3>1, <3>3
  <2>3. CASE Bent(t, n, Opp(side))
    <3>1. Righted(t, w, M, n, top, p) /\ w.height[top] \in {avl_height(t, c), avl_height(t, c) + 1}
      BY <1>1, <1>2, <1>7, <2>1, <2>3, FixDouble
    <3> QED BY <1>5, <3>1
  <2> QED BY <2>2, <2>3
<1>9. Due(b, a, h) /\ h \in Nat
  <2>1. Due(avl_height(t, t.left[n]), avl_height(t, t.right[n]), h) /\ h \in Nat
    BY DEF Near
  <2> QED BY <1>1, <1>2, <1>4, <1>5, <1>6, <2>1, DueSides
<1>10. h \in {a, a + 1}
  BY <1>7, <1>9 DEF Due
<1> QED BY <1>8, <1>10

\* One iteration of avl_fix.
LEMMA FixRight ==
  ASSUME NEW t, NEW r, NEW M, NEW S, NEW sc, IsTree(t, r, M, S, sc), NEW n \in M,
         NEW h, Near(t, M, n, h), NEW f, f = avl_fix_step(t, n)
  PROVE  /\ t.parent[n] # None => \E k : Near(f.tree, M, t.parent[n], k)
         /\ t.parent[n] = None => Right(f.tree, M)
<1>1. TreeType(t) /\ M \subseteq Node /\ n \in Node /\ None \notin M
  BY ZSetConstants DEF IsTree, TreeAt
<1>2. PICK u : u = avl_update(t, n)
  OBVIOUS
<1>3. Near(u, M, n, h) /\ Fields(u, n) /\ IsTree(u, r, M, S, sc) /\ SameLinks(t, u)
  BY <1>2, UpdateNear
<1>4. PICK p \in Ptr : p = t.parent[n] /\ p = u.parent[n]
  BY <1>1, <1>3 DEF SameLinks, TreeType
<1>5. TreeType(u) /\ u.left[n] \in Ptr /\ u.right[n] \in Ptr
  BY <1>1, <1>3 DEF IsTree, TreeType
<1>6. PICK a \in Nat : a = avl_height(u, u.left[n])
  BY <1>5, NoHeight
<1>7. PICK b \in Nat : b = avl_height(u, u.right[n])
  BY <1>5, NoHeight
<1>8. Due(a, b, h) /\ h \in Nat
  BY <1>3, <1>6, <1>7 DEF Near
<1>9. Righted(u, f.tree, M, n, f.top, p) /\ f.tree.height[f.top] - h \in -1 .. 1
  <2>1. ASSUME NEW side \in Side,
               avl_height(u, u[Opp(side)][n]) = avl_height(u, u[side][n]) + 2,
               NEW g, g = avl_fix_side(u, n, Opp(side)),
               f = [tree |-> replace_child(g.tree, p, n, g.top), top |-> g.top]
        PROVE  Righted(u, f.tree, M, n, f.top, p) /\ f.tree.height[f.top] - h \in -1 .. 1
    <3>1. PICK mid : mid = Middle(u, n, Opp(side))
      OBVIOUS
    <3>2. Opp(side) \in Side /\ Opp(Opp(side)) = side
      BY DEF Side, Opp
    <3>3. u[Opp(side)][n] # None
      <4>1. u[side][n] \in Ptr
        BY <1>1, <1>5 DEF TreeType, Side
      <4>2. avl_height(u, u[side][n]) \in Nat
        BY <1>5, <4>1, NoHeight
      <4> QED BY <2>1, <4>2 DEF avl_height
    <3>4. f.tree = Rotated(mid, n, side) /\ f.top = mid[Opp(side)][n]
      <4>1. PICK o \in Side : o = Opp(side) /\ Opp(o) = side
        BY <3>2
      <4>2. u[o][n] # None /\ mid = Middle(u, n, o) /\ g = avl_fix_side(u, n, o)
        BY <2>1, <3>1, <3>3, <4>1
      <4>3. /\ replace_child(g.tree, u.parent[n], n, g.top) = Rotated(mid, n, Opp(o))
            /\ g.top = mid[o][n]
        BY <1>3, <4>2, FixSideIs
      <4> QED BY <1>4, <2>1, <4>1, <4>3
    <3>5. PICK w : w = f.tree
      OBVIOUS
    <3>6. PICK top : top = f.top
      OBVIOUS
    <3>7. Righted(u, w, M, n, top, p) /\ w.height[top] - h \in -1 .. 1
      BY <1>3, <1>4, <2>1, <3>1, <3>4, <3>5, <3>6, FixSideRight
    <3> QED BY <3>5, <3>6, <3>7
  <2>2. CASE a = b + 2
    <3>1. PICK g : g = avl_fix_side(u, n, "left")
      OBVIOUS
    <3>2. f = [tree |-> replace_child(g.tree, p, n, g.top), top |-> g.top]
      BY <1>2, <1>4, <1>6, <1>7, <2>2, <3>1 DEF avl_fix_step
    <3>3. avl_height(u, u["left"][n]) = avl_height(u, u["right"][n]) + 2
      BY <1>6, <1>7, <2>2
    <3>4. "right" \in Side /\ Opp("right") = "left"
      BY DEF Side, Opp
    <3> QED BY <2>1, <3>1, <3>2, <3>3, <3>4
  <2>3. CASE a # b + 2 /\ a + 2 = b
    <3>1. PICK g : g = avl_fix_side(u, n, "right")
      OBVIOUS
    <3>2. f = [tree |-> replace_child(g.tree, p, n, g.top), top |-> g.top]
      BY <1>2, <1>4, <1>6, <1>7, <2>3, <3>1 DEF avl_fix_step
    <3>3. avl_height(u, u["right"][n]) = avl_height(u, u["left"][n]) + 2
      BY <1>6, <1>7, <2>3
    <3>4. "left" \in Side /\ Opp("left") = "right"
      BY DEF Side, Opp
    <3> QED BY <2>1, <3>1, <3>2, <3>3, <3>4
  <2>4. CASE a # b + 2 /\ a + 2 # b
    <3>1. f = [tree |-> replace_child(u, p, n, n), top |-> n]
      BY <1>2, <1>4, <1>6, <1>7, <2>4 DEF avl_fix_step
    <3>2. PICK w : w = f.tree /\ w = replace_child(u, p, n, n)
      BY <3>1
    <3>3. p # None => (u.left[p] = n \/ u.right[p] = n) /\ u.left[p] # u.right[p]
      <4> SUFFICES ASSUME p # None
                   PROVE  (u.left[p] = n \/ u.right[p] = n) /\ u.left[p] # u.right[p]
        OBVIOUS
      <4>1. p \in M /\ \E s \in Side : u[s][p] = n
        BY <1>3, <1>4, RootOnly
      <4> QED BY <1>1, <1>3, <4>1, Below DEF IsTree, Side, Opp
    <3>4. n \in Ptr
      BY <1>1 DEF Ptr
    <3>5. /\ TreeType(w)
          /\ \A s \in Side, m \in Node :
               w[s][m] = IF m = p /\ u[s][p] = n THEN n ELSE u[s][m]
      <4>1. w = replace_child(u, p, n, n) /\ TreeType(u)
        BY <1>5, <3>2
      <4>2. /\ TreeType(w) /\ w.parent = u.parent
            /\ \A s \in Side, m \in Node :
                 w[s][m] = IF m = p /\ u[s][p] = n THEN n ELSE u[s][m]
        BY <3>3, <3>4, <4>1, ReplaceChild
      <4> QED BY <4>2
    <3>6. w.height = u.height /\ w.cnt = u.cnt
      BY <1>4, <1>5, <3>2, ReplaceKeepsFields
    <3>7. \A c : avl_height(w, c) = avl_height(u, c) /\ avl_cnt(w, c) = avl_cnt(u, c)
      BY <3>6 DEF avl_height, avl_cnt
    <3>8. \A s \in Side, m \in Node : w[s][m] = u[s][m]
      BY <3>5
    <3>9. ASSUME NEW m \in M, m # p PROVE Fields(w, m) /\ Even(w, m)
      <4>1. Alike(u, w, m) /\ m \in Node
        BY <1>1, <3>6, <3>7, <3>8 DEF Alike
      <4>2. Fields(u, m) /\ Even(u, m)
        <5>1. CASE m = n
          <6>1. a - b \in -1 .. 1
            BY <1>8, <2>4 DEF Due
          <6> QED BY <1>3, <1>6, <1>7, <5>1, <6>1 DEF Even
        <5>2. CASE m # n
          BY <1>3, <1>4, <3>9, <5>2 DEF Near
        <5> QED BY <5>1, <5>2
      <4> QED BY <1>5, <3>5, <4>1, <4>2, AlikeSteady DEF Steady
    <3>10. ASSUME p \in M
           PROVE  /\ w.height[p] = u.height[p]
                  /\ \A s \in Side : u[s][p] = n =>
                       /\ w[s][p] = n
                       /\ avl_height(w, w[Opp(s)][p]) = avl_height(u, u[Opp(s)][p])
      <4>1. \A s \in Side : Opp(s) \in Side
        BY DEF Side, Opp
      <4> QED BY <1>1, <3>6, <3>7, <3>8, <3>10, <4>1
    <3>11. w.height[n] - h \in -1 .. 1
      <4>1. u.height[n] = 1 + Taller(a, b)
        BY <1>3, <1>6, <1>7 DEF Fields, HeightBelow
      <4>2. (1 + Taller(a, b)) - h \in -1 .. 1
        BY <1>8, <2>4 DEF Due
      <4> QED BY <3>6, <4>1, <4>2
    <3>12. Righted(u, w, M, n, n, p)
      BY <3>9, <3>10 DEF Righted
    <3>13. f.top = n
      BY <3>1
    <3> QED BY <3>2, <3>11, <3>12, <3>13
  <2> QED BY <2>2, <2>3, <2>4
<1>10. f.top \in M /\ \E S2 : IsTree(f.tree, IF r = n THEN f.top ELSE r, M, S2, sc)
  BY FixTree
<1>11. ASSUME p # None PROVE \E k : Near(f.tree, M, p, k)
  <2>1. p \in M
    <3>1. t.parent[n] # None => t.parent[n] \in M
      BY RootOnly
    <3> QED BY <1>4, <1>11, <3>1
  <2>2. PICK w : w = f.tree
    OBVIOUS
  <2>3. PICK top \in M : top = f.top
    BY <1>10
  <2>4. PICK r2, S2 : IsTree(w, r2, M, S2, sc)
    BY <1>10, <2>2
  <2>5. Righted(u, w, M, n, top, p) /\ w.height[top] - h \in -1 .. 1
    BY <1>9, <2>2, <2>3
  <2>6. Near(w, M, p, w.height[p])
    BY <1>3, <1>4, <2>1, <2>4, <2>5, NearAbove
  <2> QED BY <2>2, <2>6
<1>12. ASSUME p = None PROVE Right(f.tree, M)
  BY <1>1, <1>9, <1>12 DEF Righted, Right
<1> QED BY <1>4, <1>11, <1>12

\* tree_insert up to avl_fix: the new node counts for the height 0.
LEMMA InsertNear ==
  ASSUME NEW t, NEW r, NEW M, NEW S, NEW sc, IsTree(t, r, M, S, sc), Leaves(t, M), Right(t, M),
         NEW n \in Node \ M, t.parent[n] = None,
         NEW u, u = tree_insert(t, r, sc, n)
  PROVE  Near(u, M \cup {n}, n, 0)
<1>1. t.left[n] = None /\ t.right[n] = None /\ TreeType(t) /\ M \subseteq Node /\ n # None
      /\ None \notin M
  BY ZSetConstants DEF Leaves, Side, IsTree, TreeAt
<1>2. /\ u.left[n] = None /\ u.right[n] = None /\ u.height = t.height /\ u.cnt = t.cnt
      /\ \A m \in M, s \in Side : u[s][m] # t[s][m] =>
           m = u.parent[n] /\ t[s][m] = None /\ u[s][m] = n
      /\ \A m \in M, s \in Side : t[s][m] # n
  <2>1. \A m \in M, s \in Side : t[s][m] # n
    BY <1>1, Below DEF IsTree
  <2>2. CASE r = None
    <3>1. u = t
      BY <2>2 DEF tree_insert
    <3> QED BY <1>1, <2>1, <3>1
  <2>3. CASE r # None
    <3>1. PICK m \in PathTo(t, M, S, sc, n) :
            /\ t[WayOf(sc, n, m)][m] = None
            /\ u = Attached(t, sc, n, m)
      BY <2>3, InsertPlace
    <3>2. PICK w \in Side : w = WayOf(sc, n, m)
      BY DEF WayOf, Side
    <3>3. m \in Node /\ m # n /\ n \in Ptr /\ m \in Ptr
      BY <1>1 DEF PathTo, Ptr
    <3>4. PICK v : v = ChildSet(t, w, m, n)
      OBVIOUS
    <3>5. TreeType(v) /\ v.parent = t.parent
          /\ \A o \in Side, a \in Node : v[o][a] = IF a = m /\ o = w THEN n ELSE t[o][a]
      <4>1. TreeType(t) /\ w \in Side /\ m \in Node /\ n \in Ptr
        BY <1>1, <3>3
      <4>2. /\ TreeType(ChildSet(t, w, m, n)) /\ ChildSet(t, w, m, n).parent = t.parent
            /\ \A o \in Side, a \in Node :
                 ChildSet(t, w, m, n)[o][a] = IF a = m /\ o = w THEN n ELSE t[o][a]
        BY <4>1, SetChild
      <4> QED BY <3>4, <4>2
    <3>6. u = ParentSet(v, n, m)
      BY <3>1, <3>2, <3>4 DEF Attached, ChildSet, ParentSet
    <3>7. /\ u.left = v.left /\ u.right = v.right
          /\ \A a \in Node : u.parent[a] = IF a = n THEN m ELSE v.parent[a]
      BY <3>3, <3>5, <3>6, SetParent
    <3>8. u.height = v.height /\ u.cnt = v.cnt
      BY <3>5, <3>6 DEF ParentSet, TreeType
    <3>9. v.height = t.height /\ v.cnt = t.cnt
      <4>1. CASE w = "left"
        BY <1>1, <3>4, <4>1 DEF ChildSet, TreeType
      <4>2. CASE w = "right"
        BY <1>1, <3>4, <4>2 DEF ChildSet, TreeType
      <4> QED BY <4>1, <4>2 DEF Side
    <3>10. \A s \in Side : u[s] = v[s]
      BY <3>7 DEF Side
    <3>11. u.left[n] = None /\ u.right[n] = None
      <4>1. \A s \in Side : u[s][n] = t[s][n]
        BY <3>3, <3>5, <3>10
      <4> QED BY <1>1, <4>1 DEF Side
    <3>12. \A b \in M, s \in Side : u[s][b] # t[s][b] =>
             b = u.parent[n] /\ t[s][b] = None /\ u[s][b] = n
      BY <1>1, <3>1, <3>2, <3>5, <3>7, <3>10
    <3> QED BY <2>1, <3>8, <3>9, <3>11, <3>12
  <2> QED BY <2>2, <2>3
<1>3. PICK r2, S2 : IsTree(u, r2, M \cup {n}, S2, sc)
  BY InsertTree
<1>4. \A c : avl_height(u, c) = avl_height(t, c) /\ avl_cnt(u, c) = avl_cnt(t, c)
  BY <1>2 DEF avl_height, avl_cnt
<1>5. Due(avl_height(u, u.left[n]), avl_height(u, u.right[n]), 0)
  BY <1>2 DEF Due, Taller, avl_height
<1>6. TreeType(u)
  BY <1>3 DEF IsTree
<1>7. ASSUME NEW m \in M, m # u.parent[n] PROVE Fields(u, m) /\ Even(u, m)
  <2>1. \A s \in Side : u[s][m] = t[s][m]
    BY <1>2, <1>7
  <2>2. Alike(t, u, m) /\ m \in Node
    BY <1>1, <1>2, <1>4, <2>1 DEF Alike
  <2> QED BY <1>1, <1>6, <2>2, AlikeSteady DEF Steady, Right
<1>8. ASSUME NEW p \in M \cup {n}, NEW s \in Side, p = u.parent[n] /\ u[s][p] = n
      PROVE  LET o == avl_height(u, u[Opp(s)][p])
             IN  u.height[p] = 1 + Taller(0, o) /\ 0 - o \in -1 .. 1
  <2>1. p # n /\ p \in M
    BY <1>1, <1>2, <1>8 DEF Side
  <2>2. t[s][p] = None
    BY <1>2, <1>8, <2>1
  <2>3. Opp(s) \in Side /\ u[Opp(s)][p] # n
    <3>1. Opp(s) \in Side
      BY DEF Side, Opp
    <3> QED BY <1>1, <1>3, <1>8, <3>1, Below DEF IsTree
  <2>4. u[Opp(s)][p] = t[Opp(s)][p]
    BY <1>2, <2>1, <2>3
  <2>5. Fields(t, p) /\ Even(t, p) /\ p \in Node
    BY <1>1, <2>1 DEF Right
  <2>6. /\ HeightBelow(t, p) = 1 + Taller(avl_height(t, t[s][p]), avl_height(t, t[Opp(s)][p]))
        /\ Even(t, p) <=> avl_height(t, t[s][p]) - avl_height(t, t[Opp(s)][p]) \in -1 .. 1
    BY <1>1, <2>5, FieldsFrom
  <2>7. avl_height(t, t[s][p]) = 0
    BY <2>2 DEF avl_height
  <2> QED BY <1>2, <1>4, <2>4, <2>5, <2>6, <2>7 DEF Fields
<1> QED BY <1>5, <1>7, <1>8 DEF Near

\* avl_del_easy up to avl_fix: the parent still has the height that it had with d.
LEMMA DetachNear ==
  ASSUME NEW t, NEW r, NEW M, NEW S, NEW sc, IsTree(t, r, M, S, sc), Right(t, M),
         NEW d \in M, t.left[d] = None \/ t.right[d] = None,
         NEW u, u = avl_detach(t, d)
  PROVE  /\ t.parent[d] # None => \E k : Near(u, M \ {d}, t.parent[d], k)
         /\ t.parent[d] = None => Right(u, M \ {d})
<1>1. PICK c : c = only_child(t, d)
  OBVIOUS
<1>2. PICK p \in Ptr : p = t.parent[d]
  BY ParentLink
<1>3. /\ TreeType(t) /\ M \subseteq Node /\ d \in Node /\ d # None /\ None \notin M
  BY ZSetConstants DEF IsTree, TreeAt
<1>4. c \in Ptr
  BY <1>1, OnlyChild
<1>5. /\ TreeType(u)
      /\ \A s \in Side, m \in Node :
           u[s][m] = IF m = p /\ t[s][p] = d THEN c ELSE t[s][m]
  BY <1>1, <1>2, DetachLinks
<1>6. u.height = t.height /\ u.cnt = t.cnt
  <2>1. PICK v : v = set_parent(t, c, p)
    OBVIOUS
  <2>2. u = replace_child(v, p, d, c)
    BY <1>1, <1>2, <2>1 DEF avl_detach
  <2>3. TreeType(v) /\ v.height = t.height /\ v.cnt = t.cnt
    BY <1>2, <1>3, <1>4, <2>1 DEF set_parent, TreeType, Ptr
  <2> QED BY <1>2, <2>2, <2>3, ReplaceKeepsFields
<1>7. \A x : avl_height(u, x) = avl_height(t, x) /\ avl_cnt(u, x) = avl_cnt(t, x)
  BY <1>6 DEF avl_height, avl_cnt
<1>8. PICK r2, S2 : IsTree(u, r2, M \ {d}, S2, sc)
  <2>1. PICK S2 : S2 = Removed(S, d)
    OBVIOUS
  <2>2. IsTree(u, IF d = r THEN only_child(t, d) ELSE r, M \ {d}, S2, sc)
    BY <2>1, DetachTree
  <2> QED BY <2>2
<1>9. ASSUME NEW m \in M \ {d}, m # p PROVE Fields(u, m) /\ Even(u, m)
  <2>1. \A s \in Side : u[s][m] = t[s][m]
    BY <1>3, <1>5, <1>9
  <2>2. Alike(t, u, m) /\ m \in Node
    BY <1>3, <1>6, <1>7, <2>1 DEF Alike
  <2> QED BY <1>3, <1>5, <2>2, AlikeSteady DEF Steady, Right
<1>10. CASE p = None
  BY <1>2, <1>3, <1>9, <1>10 DEF Right
<1>11. CASE p # None
  <2>1. p \in M /\ p # d /\ p \in Node
    BY <1>2, <1>3, <1>11, RootOnly
  <2>2. PICK s \in Side : t[s][p] = d
    BY <1>2, <1>11, RootOnly
  <2>3. Opp(s) \in Side /\ t[Opp(s)][p] # d
    <3>1. Opp(s) \in Side
      BY DEF Side, Opp
    <3> QED BY <1>3, <2>1, <2>2, <3>1, Below DEF IsTree
  <2>4. u[s][p] = c /\ u[Opp(s)][p] = t[Opp(s)][p]
    BY <1>5, <2>1, <2>2, <2>3
  <2>5. PICK k \in Nat : k = avl_height(t, c)
    BY <1>3, <1>4, NoHeight
  <2>6. PICK b \in Nat : b = avl_height(t, t[Opp(s)][p])
    BY <1>3, <2>1, <2>2, FieldsFrom
  <2>7. avl_height(t, d) = 1 + k
    <3>1. Fields(t, d)
      BY DEF Right
    <3>2. avl_height(t, None) = 0
      BY DEF avl_height
    <3>3. Taller(k, 0) = k /\ Taller(0, k) = k
      BY DEF Taller
    <3>4. HeightBelow(t, d) = 1 + k
      BY <1>1, <2>5, <3>2, <3>3 DEF HeightBelow, only_child
    <3> QED BY <1>3, <3>1, <3>4 DEF Fields, avl_height
  <2>8. t.height[p] = 1 + Taller(1 + k, b) /\ (1 + k) - b \in -1 .. 1
    <3>1. Fields(t, p) /\ Even(t, p)
      BY <2>1 DEF Right
    <3>2. /\ HeightBelow(t, p) = 1 + Taller(avl_height(t, t[s][p]), avl_height(t, t[Opp(s)][p]))
          /\ Even(t, p) <=> avl_height(t, t[s][p]) - avl_height(t, t[Opp(s)][p]) \in -1 .. 1
      BY <1>3, <2>1, FieldsFrom
    <3> QED BY <2>2, <2>6, <2>7, <3>1, <3>2 DEF Fields
  <2>9. PICK h : h = t.height[p]
    OBVIOUS
  <2>10. Due(k, b, h) /\ Due(b, k, h) /\ h \in Nat
    <3>1. 1 + k \in Nat /\ k - (1 + k) \in -1 .. 1
      OBVIOUS
    <3>2. PICK e \in Nat : e = 1 + k
      BY <3>1
    <3>3. k - e \in -1 .. 1 /\ e - b \in -1 .. 1 /\ h = 1 + Taller(e, b)
      BY <2>8, <2>9, <3>2
    <3> QED BY <3>3, DueAbove
  <2>11. Due(avl_height(u, u.left[p]), avl_height(u, u.right[p]), h)
    <3>1. CASE s = "left"
      BY <1>7, <2>4, <2>5, <2>6, <2>10, <3>1 DEF Opp
    <3>2. CASE s = "right"
      BY <1>7, <2>4, <2>5, <2>6, <2>10, <3>2 DEF Opp
    <3> QED BY <3>1, <3>2 DEF Side
  <2>12. ASSUME NEW a \in M \ {d}, NEW x \in Side, a = u.parent[p] /\ u[x][a] = p
         PROVE  LET y == avl_height(u, u[Opp(x)][a])
                IN  u.height[a] = 1 + Taller(h, y) /\ h - y \in -1 .. 1
    <3>1. a # p /\ a \in Node
      <4>1. u.parent[p] # None => p # u.parent[p]
        BY <1>8, <2>1, RootOnly
      <4> QED BY <1>3, <2>12, <4>1
    <3>2. Fields(u, a) /\ Even(u, a)
      BY <1>9, <3>1
    <3>3. /\ HeightBelow(u, a) = 1 + Taller(avl_height(u, u[x][a]), avl_height(u, u[Opp(x)][a]))
          /\ Even(u, a) <=> avl_height(u, u[x][a]) - avl_height(u, u[Opp(x)][a]) \in -1 .. 1
      BY <1>5, <3>1, FieldsFrom
    <3>4. avl_height(u, p) = h
      BY <1>6, <1>11, <2>9 DEF avl_height
    <3> QED BY <2>12, <3>2, <3>3, <3>4 DEF Fields
  <2>13. Near(u, M \ {d}, p, h)
    BY <1>9, <2>10, <2>11, <2>12 DEF Near
  <2> QED BY <1>2, <1>11, <2>13
<1> QED BY <1>10, <1>11

\* avl_init of a node that is not in the tree.
LEMMA InitRight ==
  ASSUME NEW t, NEW r, NEW M, NEW S, NEW sc, IsTree(t, r, M, S, sc), Right(t, M),
         NEW n \in Node, n \notin M, NEW w, w = avl_init(t, n)
  PROVE  Right(w, M)
<1>1. /\ TreeType(t) /\ M \subseteq Node /\ n # None /\ None \notin M
  BY ZSetConstants DEF IsTree, TreeAt
<1>2. /\ IsTree(w, r, M, S, sc)
      /\ \A a \in Node \ {n}, s \in Side : w[s][a] = t[s][a]
  BY InitTree
<1>3. TreeType(w) /\ KeepFields(t, w, {n})
  BY <1>1, <1>2 DEF IsTree, avl_init, KeepFields, TreeType
<1>4. ASSUME NEW m \in M PROVE Fields(w, m) /\ Even(w, m)
  <2>1. m # n /\ m \in Node /\ Fields(t, m) /\ Even(t, m)
    BY <1>1 DEF Right
  <2>2. ASSUME NEW s \in Side
        PROVE  /\ avl_height(w, w[s][m]) = avl_height(t, t[s][m])
               /\ avl_cnt(w, w[s][m]) = avl_cnt(t, t[s][m])
    <3>1. w[s][m] = t[s][m] /\ t[s][m] \in Ptr /\ t[s][m] # n
      BY <1>1, <1>2, <2>1, Below DEF IsTree
    <3> QED BY <1>3, <3>1, SameHeight
  <2>3. Alike(t, w, m)
    BY <1>3, <2>1, <2>2 DEF Alike, KeepFields
  <2> QED BY <1>1, <1>3, <2>1, <2>3, AlikeSteady DEF Steady
<1> QED BY <1>4 DEF Right

\* avl_init and tree_insert.
LEMMA InsertStepNear ==
  ASSUME NEW t, NEW r, NEW M, NEW sc, Holds(t, r, M, sc), Right(t, M),
         NEW n, n \in Node, n \notin M, Leaves(t, M \cup {n}),
         NEW x \in Int, NEW sc2, sc2 = [sc EXCEPT ![n] = x],
         NEW u, u = tree_insert(avl_init(t, n), r, sc2, n)
  PROVE  \E h : Near(u, M \cup {n}, n, h)
<1>1. PICK S : IsTree(t, r, M, S, sc)
  BY DEF Holds
<1>2. IsTree(t, r, M, S, sc2)
  BY <1>1, ScoreTree
<1>3. PICK w : w = avl_init(t, n)
  OBVIOUS
<1>4. /\ IsTree(w, r, M, S, sc2)
      /\ w.left[n] = None /\ w.right[n] = None /\ w.parent[n] = None
      /\ \A a \in Node \ {n}, s \in Side : w[s][a] = t[s][a]
  BY <1>2, <1>3, InitTree
<1>5. Leaves(w, M)
  BY <1>4 DEF Leaves, Side
<1>6. u = tree_insert(w, r, sc2, n)
  BY <1>3
<1>7. Right(w, M)
  BY <1>1, <1>3, InitRight
<1>8. Near(u, M \cup {n}, n, 0)
  BY <1>4, <1>5, <1>6, <1>7, InsertNear
<1> QED BY <1>8

\* avl_del up to its calls of avl_fix.
LEMMA DelNear ==
  ASSUME NEW t, NEW r, NEW h, NEW sc, Holds(t, r, h, sc), Leaves(t, h), Right(t, h), NEW n \in h,
         NEW both, both <=> t.left[n] # None /\ t.right[n] # None,
         NEW d, d = IF both THEN leftmost(t, t.right[n]) ELSE n,
         NEW u, u = avl_detach(t, d)
  PROVE  /\ t.parent[d] # None => \E k : Near(u, h \ {d}, t.parent[d], k)
         /\ t.parent[d] = None => Right(u, h \ {d})
<1>1. PICK S : IsTree(t, r, h, S, sc)
  BY DEF Holds
<1>2. d \in h /\ (t.left[d] = None \/ t.right[d] = None)
  <2>1. CASE both
    <3>1. PICK c : c = t.right[n]
      OBVIOUS
    <3>2. c \in h
      <4>1. t["right"][n] # None => t["right"][n] \in h
        BY <1>1, Below DEF IsTree, Side
      <4> QED BY <2>1, <3>1, <4>1
    <3>3. d = leftmost(t, c)
      BY <2>1, <3>1
    <3>4. d \in h /\ t.left[d] = None
      BY <1>1, <3>2, <3>3, Leftmost
    <3> QED BY <3>4
  <2>2. CASE ~both
    BY <2>2
  <2> QED BY <2>1, <2>2
<1> QED BY <1>1, <1>2, DetachNear

-----------------------------------------------------------------------------
(* Every action keeps heights and counts right, until a node is replaced by its *)
(* successor                                                                    *)

BalanceInv ==
  ~swapped =>
    /\ pc \in {"idle", "offset", "reply"} => Right(tree, hmap)
    /\ pc = "fix" => \E h : Near(tree, InTree(hmap, job, job.after), node, h)
    /\ pc \in {"inserted", "swap", "deleted"} => Right(tree, InTree(hmap, job, pc))

LEMMA InsertBalances ==
  ASSUME TypeOK, TreeInv, BalanceInv, NEW n \in Node, NEW s \in Score, zset_insert(n, s)
  PROVE  BalanceInv'
<1>1. /\ Holds(tree, TopOf(root), hmap, score) /\ Leaves(tree, hmap)
      /\ root # Freed => TopOf(root) = root
      /\ pc = "idle" /\ hmap' = hmap \cup {n}
      /\ score' = [score EXCEPT ![n] = s]
      /\ swapped' = swapped
  BY Idle DEF zset_insert, queryVars
<1>2. CASE root = Freed
  BY <1>2 DEF zset_insert, BalanceInv
<1>3. CASE root # Freed /\ ~swapped
  <2>1. /\ tree' = tree_insert(avl_init(tree, n), root, score', n)
        /\ node' = n /\ pc' = "fix"
        /\ job' = [NoJob EXCEPT !.op = "insert", !.name = n, !.after = "inserted"]
    BY <1>3 DEF zset_insert
  <2>2. n \notin hmap
    BY <1>1, <1>3, HoldsType DEF zset_insert, zset_lookup
  <2>3. Leaves(tree, hmap \cup {n})
    BY <1>1 DEF Leaves
  <2>4. s \in Int /\ Right(tree, hmap)
    BY <1>1, <1>3, ZSetConstants DEF BalanceInv
  <2>5. \E h : Near(tree', hmap \cup {n}, n, h)
    BY <1>1, <1>3, <2>1, <2>2, <2>3, <2>4, InsertStepNear
  <2>6. job'.after = "inserted"
    BY <2>1 DEF NoJob
  <2>7. InTree(hmap', job', job'.after) = hmap \cup {n}
    BY <1>1, <2>6 DEF InTree
  <2> QED BY <2>1, <2>5, <2>7 DEF BalanceInv
<1> QED BY <1>1, <1>2, <1>3 DEF BalanceInv

LEMMA DeletionBalances ==
  ASSUME TypeOK, TreeInv, BalanceInv, pc = "idle", NEW n \in hmap, NEW s \in Score \cup {0},
         NEW op \in {"update", "delete"}, avl_del(op, n, s),
         hmap' = IF op = "delete" THEN hmap \ {n} ELSE hmap,
         UNCHANGED <<root, score, queryVars, swapped>>
  PROVE  BalanceInv'
<1>1. PICK r : /\ r = TopOf(root) /\ Holds(tree, r, hmap, score) /\ Leaves(tree, hmap)
               /\ hmap \subseteq Node
  BY Idle
<1>2. PICK both : both <=> tree.left[n] # None /\ tree.right[n] # None
  OBVIOUS
<1>3. PICK d : d = IF both THEN leftmost(tree, tree.right[n]) ELSE n
  OBVIOUS
<1>4. PICK p : p = tree.parent[d]
  OBVIOUS
<1>5. /\ tree' = avl_detach(tree, d)
      /\ job' = [op |-> op, name |-> n, val |-> s,
                 victim |-> IF both THEN d ELSE None,
                 after |-> IF both THEN "swap" ELSE "deleted"]
      /\ node' = p
      /\ pc' = IF p = None THEN "deleted" ELSE "fix"
  BY <1>2, <1>3, <1>4 DEF avl_del
<1>6. /\ p = None <=> d = r
      /\ both => d # n /\ d # r
  <2>1. /\ d \in hmap /\ only_child(tree, d) \in Ptr
        /\ Holds(tree', IF d = r THEN only_child(tree, d) ELSE r, hmap \ {d}, score)
        /\ Leaves(tree', hmap)
        /\ p = None <=> d = r
        /\ p # None => p \in hmap \ {d}
        /\ both => d # n /\ d # r /\ StandsFor(score, hmap \ {d}, n, d)
    BY <1>1, <1>2, <1>3, <1>4, <1>5, DelTree
  <2> QED BY <2>1
<1>7. hmap' \cup {n} = hmap /\ hmap' \ {n} = hmap \ {n} /\ swapped' = swapped
  BY <1>1
<1>8. /\ job'.name = n
      /\ job'.victim = IF both THEN d ELSE None
      /\ job'.after = IF both THEN "swap" ELSE "deleted"
  BY <1>5
<1>9. InTree(hmap', job', job'.after) = hmap \ {d}
  <2>1. CASE both
    BY <1>7, <1>8, <2>1 DEF InTree
  <2>2. CASE ~both
    BY <1>3, <1>7, <1>8, <2>2 DEF InTree
  <2> QED BY <2>1, <2>2
<1>10. ASSUME ~swapped
       PROVE  /\ p # None => \E k : Near(tree', hmap \ {d}, p, k)
              /\ p = None => Right(tree', hmap \ {d})
  <2>1. Right(tree, hmap)
    BY <1>10 DEF BalanceInv
  <2> QED BY <1>1, <1>2, <1>3, <1>4, <1>5, <2>1, DelNear
<1>11. ASSUME ~swapped, p = None PROVE BalanceInv'
  <2>1. job'.after = "deleted" /\ pc' = "deleted"
    BY <1>5, <1>6, <1>8, <1>11
  <2> QED BY <1>9, <1>10, <1>11, <2>1 DEF BalanceInv
<1>12. ASSUME ~swapped, p # None PROVE BalanceInv'
  <2>1. pc' = "fix" /\ node' = p
    BY <1>5, <1>12
  <2> QED BY <1>9, <1>10, <1>12, <2>1 DEF BalanceInv
<1> QED BY <1>7, <1>11, <1>12 DEF BalanceInv

LEMMA FixBalances ==
  ASSUME TypeOK, TreeInv, BalanceInv, avl_fix
  PROVE  BalanceInv'
<1>1. PICK f : f = avl_fix_step(tree, node)
  OBVIOUS
<1>2. PICK p : p = tree.parent[node]
  OBVIOUS
<1>3. /\ pc = "fix" /\ tree' = f.tree /\ node' = p
      /\ pc' = IF p = None THEN job.after ELSE "fix"
      /\ hmap' = hmap /\ job' = job /\ swapped' = swapped
  BY <1>1, <1>2 DEF avl_fix, queryVars
<1>4. PICK r : Stage(tree, r, hmap, score, job, job.after)
  BY <1>3 DEF TreeInv
<1>5. PICK M : M = InTree(hmap, job, job.after)
  OBVIOUS
<1>6. PICK S : IsTree(tree, r, M, S, score)
  BY <1>4, <1>5 DEF Stage, Holds
<1>7. node \in M /\ job.after \in {"inserted", "swap", "deleted"}
  BY <1>3, <1>4, <1>5 DEF TreeInv, Stage
<1>8. ASSUME ~swapped
      PROVE  /\ p # None => \E k : Near(f.tree, M, p, k)
             /\ p = None => Right(f.tree, M)
  <2>1. PICK h : Near(tree, M, node, h)
    BY <1>3, <1>5, <1>8 DEF BalanceInv
  <2> QED BY <1>1, <1>2, <1>6, <1>7, <2>1, FixRight
<1>9. ASSUME ~swapped, p = None PROVE BalanceInv'
  BY <1>3, <1>5, <1>7, <1>8, <1>9 DEF BalanceInv
<1>10. ASSUME ~swapped, p # None PROVE BalanceInv'
  BY <1>3, <1>5, <1>8, <1>10 DEF BalanceInv
<1> QED BY <1>3, <1>9, <1>10 DEF BalanceInv

LEMMA ReinsertBalances ==
  ASSUME TypeOK, TreeInv, BalanceInv, update_reinsert
  PROVE  BalanceInv'
<1>1. PICK n : n = job.name
  OBVIOUS
<1>2. PICK x : x = job.val
  OBVIOUS
<1>3. /\ pc = "deleted" /\ job.op = "update"
      /\ score' = [score EXCEPT ![n] = x]
      /\ tree' = tree_insert(avl_init(tree, n), ret, score', n)
      /\ node' = n /\ pc' = "fix" /\ hmap' = hmap
      /\ job' = [job EXCEPT !.victim = None, !.after = "inserted"]
      /\ swapped' = swapped
  BY <1>1, <1>2 DEF update_reinsert, queryVars
<1>4. /\ Holds(tree, ret, hmap \ {n}, score) /\ Leaves(tree, hmap \cup {n})
      /\ n \in Node /\ n \in hmap
  BY <1>1, <1>3 DEF TreeInv, Stage, InTree
<1>5. x \in Score \cup {0} /\ job \in JobType
  BY <1>2 DEF TypeOK, JobType
<1>6. x \in Int
  BY <1>5, ZSetConstants
<1>7. PICK M : M = hmap \ {n}
  OBVIOUS
<1>8. M \cup {n} = hmap /\ hmap \cup {n} = hmap /\ n \notin M
  BY <1>4, <1>7
<1>9. ASSUME ~swapped PROVE \E h : Near(tree', hmap', n, h)
  <2>1. Right(tree, M)
    BY <1>1, <1>3, <1>7, <1>9 DEF BalanceInv, InTree
  <2>2. Holds(tree, ret, M, score) /\ Leaves(tree, M \cup {n}) /\ n \in Node
    BY <1>4, <1>7, <1>8
  <2>3. PICK sc2 : sc2 = score' /\ sc2 = [score EXCEPT ![n] = x]
    BY <1>3
  <2>4. PICK u : u = tree' /\ u = tree_insert(avl_init(tree, n), ret, sc2, n)
    BY <1>3, <2>3
  <2>5. \E h : Near(u, M \cup {n}, n, h)
    BY <1>6, <1>8, <2>1, <2>2, <2>3, <2>4, InsertStepNear
  <2> QED BY <1>3, <1>8, <2>4, <2>5
<1>10. job'.after = "inserted"
  BY <1>3, <1>5 DEF JobType
<1>11. InTree(hmap', job', job'.after) = hmap'
  BY <1>10 DEF InTree
<1> QED BY <1>3, <1>9, <1>11 DEF BalanceInv

LEMMA DeleteDoneBalances ==
  ASSUME TypeOK, TreeInv, BalanceInv, delete_done
  PROVE  BalanceInv'
<1>1. PICK n : n = job.name
  OBVIOUS
<1>2. /\ pc = "deleted" /\ job.op = "delete" /\ tree' = avl_init(tree, n)
      /\ pc' = "idle" /\ hmap' = hmap /\ swapped' = swapped
  BY <1>1 DEF delete_done, queryVars
<1>3. /\ Holds(tree, ret, hmap \ {n}, score) /\ n \in Node /\ n \notin hmap
  BY <1>1, <1>2 DEF TreeInv, Stage, InTree
<1>4. hmap \ {n} = hmap
  BY <1>3
<1>5. PICK S : IsTree(tree, ret, hmap, S, score)
  BY <1>3, <1>4 DEF Holds
<1>6. ASSUME ~swapped PROVE Right(tree', hmap)
  <2>1. Right(tree, hmap)
    BY <1>1, <1>2, <1>4, <1>6 DEF BalanceInv, InTree
  <2> QED BY <1>2, <1>3, <1>5, <2>1, InitRight
<1> QED BY <1>2, <1>6 DEF BalanceInv

\* BalanceInv: heights and counts are right and the tree is balanced, but for the
\* node where avl_fix stands.
LEMMA BalanceNext == ZInv /\ BalanceInv /\ [Next]_vars => BalanceInv'
<1> SUFFICES ASSUME TypeOK, TreeInv, BalanceInv, [Next]_vars PROVE BalanceInv'
  BY DEF ZInv
<1>1. CASE UNCHANGED vars
  BY <1>1 DEF vars, queryVars, BalanceInv
<1>2. ASSUME NEW n \in Node, NEW s \in Score, zset_insert(n, s) \/ zset_update(n, s)
      PROVE  BalanceInv'
  <2>1. CASE zset_insert(n, s)
    BY <2>1, InsertBalances
  <2>2. CASE zset_update(n, s)
    <3>1. pc = "idle" /\ n \in hmap /\ s \in Score \cup {0} /\ avl_del("update", n, s)
          /\ hmap' = hmap /\ UNCHANGED <<root, score, queryVars, swapped>>
      BY <2>2 DEF zset_update, zset_lookup
    <3> QED BY <3>1, DeletionBalances
  <2> QED BY <1>2, <2>1, <2>2
<1>3. ASSUME NEW n \in Node, zset_delete(n) PROVE BalanceInv'
  <2>1. pc = "idle" /\ n \in hmap /\ 0 \in Score \cup {0} /\ avl_del("delete", n, 0)
        /\ hmap' = hmap \ {n} /\ UNCHANGED <<root, score, queryVars, swapped>>
    BY <1>3 DEF zset_delete, zset_lookup
  <2> QED BY <2>1, DeletionBalances
<1>4. CASE zset_clear
  BY <1>4 DEF zset_clear, BalanceInv, Right
<1>5. ASSUME NEW n \in Node, NEW s \in Score, NEW o \in Offset, NEW l \in Limit,
             do_zquery(s, n, o, l)
      PROVE  BalanceInv'
  BY <1>5 DEF do_zquery, BalanceInv
<1>6. CASE avl_fix
  BY <1>6, FixBalances
<1>7. CASE avl_del_swap
  BY <1>7 DEF avl_del_swap, BalanceInv
<1>8. CASE update_reinsert
  BY <1>8, ReinsertBalances
<1>9. CASE delete_done
  BY <1>9, DeleteDoneBalances
<1>10. CASE insert_done
  BY <1>10 DEF insert_done, BalanceInv, InTree, queryVars
<1>11. CASE QueryStep
  BY <1>11 DEF QueryStep, avl_offset, offset_pc, emit, send_reply, BalanceInv
<1> QED BY <1>1, <1>2, <1>3, <1>4, <1>5, <1>6, <1>7, <1>8, <1>9, <1>10, <1>11 DEF Next

\* The heights and counts that the steps of zset.cpp and avl.cpp leave: right, with a
\* balanced tree, but for the node where avl_fix stands.
THEOREM BalanceInvariant == Spec => []BalanceInv
<1>1. Init => BalanceInv
  BY DEF Init, BalanceInv, Right
<1> QED BY <1>1, BalanceNext, TreeInvariant, PTL DEF Spec

-----------------------------------------------------------------------------
(* What the fields say of the tree *)

\* The nodes below n are those on its two sides, and n.
LEMMA SidesCount ==
  ASSUME NEW t, NEW r, NEW M, NEW S, NEW sc, IsTree(t, r, M, S, sc), NEW n \in M
  PROVE  /\ \A s \in Side : Cardinality(S[t[s][n]]) \in Nat
         /\ Cardinality(S[n]) = 1 + Cardinality(S[t.left[n]]) + Cardinality(S[t.right[n]])
<1>1. /\ n \notin S[t.left[n]] /\ n \notin S[t.right[n]]
      /\ S[t.left[n]] \cap S[t.right[n]] = {}
      /\ \A s \in Side : S[t[s][n]] \subseteq S[n]
  BY Below DEF IsTree
<1>2. S[n] = {n} \cup S[t.left[n]] \cup S[t.right[n]]
  BY DEF IsTree, TreeAt
<1>3. IsFiniteSet(S[n])
  BY Shrinks
<1>4. PICK L : L = S[t.left[n]]
  OBVIOUS
<1>5. PICK R : R = S[t.right[n]]
  OBVIOUS
<1>6. L \subseteq S[n] /\ R \subseteq S[n]
  BY <1>2, <1>4, <1>5
<1>7. IsFiniteSet(L) /\ IsFiniteSet(R)
  BY <1>3, <1>6, FS_Subset
<1>8. Cardinality(L) \in Nat /\ Cardinality(R) \in Nat
  BY <1>7, FS_CardinalityType
<1>9. /\ IsFiniteSet(L \cup R)
      /\ Cardinality(L \cup R) = Cardinality(L) + Cardinality(R) - Cardinality(L \cap R)
  BY <1>7, FS_Union
<1>10. Cardinality(L \cap R) = 0
  BY <1>1, <1>4, <1>5, FS_EmptySet
<1>11. n \notin L \cup R /\ S[n] = (L \cup R) \cup {n}
  BY <1>1, <1>2, <1>4, <1>5
<1>12. Cardinality(S[n]) = Cardinality(L \cup R) + 1
  BY <1>9, <1>11, FS_AddElement
<1>13. Cardinality(S[n]) = 1 + Cardinality(L) + Cardinality(R)
  BY <1>8, <1>9, <1>10, <1>12
<1> QED BY <1>4, <1>5, <1>8, <1>13 DEF Side

\* cnt counts the nodes below.
LEMMA CountsExact ==
  ASSUME NEW t, NEW r, NEW M, NEW S, NEW sc, IsTree(t, r, M, S, sc), Right(t, M)
  PROVE  \A n \in M \cup {None} : avl_cnt(t, n) = Cardinality(S[n])
<1>1. M \subseteq Node /\ None \notin M /\ S[None] = {}
  BY ZSetConstants DEF IsTree, TreeAt
<1>2. avl_cnt(t, None) = Cardinality(S[None])
  BY <1>1, FS_EmptySet DEF avl_cnt
<1> DEFINE X == {n \in M : avl_cnt(t, n) # Cardinality(S[n])}
<1>3. ASSUME X # {} PROVE FALSE
  <2>1. X \in SUBSET M
    OBVIOUS
  <2>2. PICK b \in X : \A s \in Side : t[s][b] \notin X
    BY <1>3, <2>1, Smallest
  <2>3. b \in M /\ avl_cnt(t, b) = t.cnt[b]
    BY <1>1 DEF avl_cnt
  <2>4. ASSUME NEW s \in Side PROVE avl_cnt(t, t[s][b]) = Cardinality(S[t[s][b]])
    <3>1. t[s][b] # None => t[s][b] \in M
      BY <2>3, Below DEF IsTree
    <3> QED BY <1>2, <2>2, <3>1
  <2>5. /\ avl_cnt(t, t.left[b]) = Cardinality(S[t.left[b]])
        /\ avl_cnt(t, t.right[b]) = Cardinality(S[t.right[b]])
    BY <2>4 DEF Side
  <2>6. t.cnt[b] = 1 + avl_cnt(t, t.left[b]) + avl_cnt(t, t.right[b])
    BY <2>3 DEF Right, Fields, CountBelow
  <2>7. Cardinality(S[b]) = 1 + Cardinality(S[t.left[b]]) + Cardinality(S[t.right[b]])
    BY <2>3, SidesCount
  <2> QED BY <2>2, <2>3, <2>5, <2>6, <2>7
<1> QED BY <1>2, <1>3

\* The recursion of Depth.
Downs(f, t) == f = [m \in Ptr |-> IF m = None THEN 0
                                  ELSE 1 + Taller(f[t.left[m]], f[t.right[m]])]

LEMMA DownsExist ==
  ASSUME NEW t, NEW r, NEW M, NEW S, NEW sc, IsTree(t, r, M, S, sc), Leaves(t, M)
  PROVE  \E f : Downs(f, t)
<1> DEFINE step == [m \in Ptr |-> [f \in [Ptr -> Nat] |->
                     IF m = None THEN 0 ELSE 1 + Taller(f[t.left[m]], f[t.right[m]])]]
<1>1. \A m \in Node : t.left[m] \in Ptr /\ t.right[m] \in Ptr
  BY DEF IsTree, TreeType
<1>2. ASSUME NEW m \in Ptr, NEW f \in [Ptr -> Nat] PROVE step[m][f] \in Nat
  <2>1. CASE m = None
    BY <2>1
  <2>2. CASE m # None
    <3>1. f[t.left[m]] \in Nat /\ f[t.right[m]] \in Nat
      BY <1>1, <2>2 DEF Ptr
    <3> QED BY <2>2, <3>1 DEF Taller
  <2> QED BY <2>1, <2>2
<1>3. step \in [Ptr -> [[Ptr -> Nat] -> Nat]]
  BY <1>2
<1>4. ASSUME NEW m \in Ptr, NEW f \in [Ptr -> Nat], NEW g \in [Ptr -> Nat],
             \A x \in Ptr : DownRank(M, S)[x] < DownRank(M, S)[m] => f[x] = g[x]
      PROVE  step[m][f] = step[m][g]
  <2>1. CASE m = None
    BY <2>1
  <2>2. CASE m # None
    <3>1. m \in Node
      BY <2>2 DEF Ptr
    <3>2. /\ DownRank(M, S)[t["left"][m]] < DownRank(M, S)[m]
          /\ DownRank(M, S)[t["right"][m]] < DownRank(M, S)[m]
      BY <3>1, DownRanks DEF Side
    <3>3. f[t.left[m]] = g[t.left[m]] /\ f[t.right[m]] = g[t.right[m]]
      BY <1>1, <1>4, <3>1, <3>2
    <3> QED BY <3>3
  <2> QED BY <2>1, <2>2
<1>5. IsRanked(Ptr, Nat, Cardinality(Node) + 1, DownRank(M, S), step)
  <2> HIDE DEF step
  <2> QED BY <1>3, <1>4, DownRanks DEF IsRanked
<1>6. PICK f \in [Ptr -> Nat] : \A m \in Ptr : f[m] = step[m][f]
  <2> HIDE DEF step
  <2> QED BY <1>5, RankedRecursion
<1>7. Downs(f, t)
  BY <1>6 DEF Downs
<1> QED BY <1>7

\* height is the depth of the tree below.
LEMMA HeightsExact ==
  ASSUME NEW r, NEW M, NEW S, IsTree(tree, r, M, S, score), Leaves(tree, M), Right(tree, M)
  PROVE  \A n \in M : tree.height[n] = Depth(n)
<1>1. M \subseteq Node /\ None \notin M /\ None \in Ptr
  BY ZSetConstants DEF IsTree, TreeAt, Ptr
<1> DEFINE down == CHOOSE f : f = [m \in Ptr |->
                     IF m = None THEN 0
                     ELSE LET a == f[tree.left[m]]
                              b == f[tree.right[m]]
                          IN  1 + IF a < b THEN b ELSE a]
<1>2. Downs(down, tree)
  <2>1. \E f : Downs(f, tree)
    BY DownsExist
  <2> QED BY <2>1 DEF Downs, Taller
<1>3. \A n \in M : Depth(n) = down[n]
  BY DEF Depth
<1> HIDE DEF down
<1>4. \A m \in Ptr : down[m] = IF m = None THEN 0
                               ELSE 1 + Taller(down[tree.left[m]], down[tree.right[m]])
  BY <1>2 DEF Downs
<1> DEFINE X == {n \in M : tree.height[n] # down[n]}
<1>5. ASSUME X # {} PROVE FALSE
  <2>1. X \in SUBSET M
    OBVIOUS
  <2>2. PICK b \in X : \A s \in Side : tree[s][b] \notin X
    BY <1>5, <2>1, Smallest
  <2>3. b \in M /\ b \in Ptr /\ b # None
    BY <1>1 DEF Ptr
  <2>4. ASSUME NEW s \in Side PROVE avl_height(tree, tree[s][b]) = down[tree[s][b]]
    <3>1. tree[s][b] # None => tree[s][b] \in M
      BY <2>3, Below DEF IsTree
    <3> QED BY <1>1, <1>4, <2>2, <3>1 DEF avl_height
  <2>5. /\ avl_height(tree, tree.left[b]) = down[tree.left[b]]
        /\ avl_height(tree, tree.right[b]) = down[tree.right[b]]
    BY <2>4 DEF Side
  <2>6. tree.height[b] = 1 + Taller(avl_height(tree, tree.left[b]), avl_height(tree, tree.right[b]))
    BY <2>3 DEF Right, Fields, HeightBelow
  <2> QED BY <1>4, <2>2, <2>3, <2>5, <2>6
<1> QED BY <1>3, <1>5

LEMMA BalanceHolds == ZInv /\ BalanceInv => BalancedUntilSwap
<1> SUFFICES ASSUME TypeOK, TreeInv, BalanceInv, Quiet, ~swapped, NEW n \in hmap
             PROVE  /\ AuxExact(n)
                    /\ avl_height(tree, tree.left[n]) - avl_height(tree, tree.right[n]) \in -1 .. 1
  BY DEF ZInv, BalancedUntilSwap
<1>1. PICK S : IsTree(tree, root, hmap, S, score)
  BY Idle DEF Quiet, Holds
<1>2. Leaves(tree, hmap) /\ Right(tree, hmap) /\ n \in Node /\ n # None
  BY Idle, ZSetConstants DEF Quiet, BalanceInv
<1>3. Subtree(n) = S[n]
  BY <1>1, SubtreeIs
<1>4. tree.cnt[n] = Cardinality(S[n])
  BY <1>1, <1>2, CountsExact DEF avl_cnt
<1>5. tree.height[n] = Depth(n)
  BY <1>1, <1>2, HeightsExact
<1>6. Even(tree, n)
  BY <1>2 DEF Right
<1> QED BY <1>3, <1>4, <1>5, <1>6 DEF AuxExact, Even

\* BalancedUntilSwap: as long as avl_del has replaced no node by its successor, every
\* height and cnt that avl_fix, the rotations and the detached nodes leave is that of
\* the tree below, and the tree is balanced, between any two calls.
THEOREM TreeIsBalanced == Spec => []BalancedUntilSwap
BY TreeInvariant, BalanceInvariant, BalanceHolds, PTL

-----------------------------------------------------------------------------
(* Places in the order *)

\* Seen from outside a subtree, its nodes are all on the same side.
LEMMA Convex ==
  ASSUME NEW t, NEW r, NEW M, NEW S, NEW sc, IsTree(t, r, M, S, sc),
         NEW n \in M, NEW a \in M, a \notin S[n], NEW b \in S[n]
  PROVE  Before(sc, a, b) <=> Before(sc, a, n)
<1>1. M \subseteq Node /\ ScoreType(sc) /\ b \in M /\ n \in S[n]
  BY Below, Nested DEF IsTree, TreeAt
<1>2. \A c \in M : /\ S[c] = {c} \cup S[t.left[c]] \cup S[t.right[c]]
                   /\ \A m \in S[t.left[c]] : m \in M /\ Before(sc, m, c)
                   /\ \A m \in S[t.right[c]] : m \in M /\ Before(sc, c, m)
  <2>1. ASSUME NEW c \in M
        PROVE  /\ S[c] = {c} \cup S[t.left[c]] \cup S[t.right[c]] /\ S[c] \subseteq M
               /\ \A m \in S[t.left[c]] : Before(sc, m, c)
               /\ \A m \in S[t.right[c]] : Before(sc, c, m)
    BY DEF IsTree, TreeAt, OnSide, Side
  <2> QED BY <2>1
<1>3. ASSUME NEW c \in M, NEW s \in Side, n \in S[t[s][c]] PROVE b \in S[t[s][c]]
  <2>1. t[s][c] # None
    BY <1>3 DEF IsTree, TreeAt
  <2>2. t[s][c] \in M
    BY <2>1, Below DEF IsTree
  <2> QED BY <1>3, <2>2, Nested
<1>4. CASE n \in S[a]
  <2>1. PICK s \in Side : n \in S[t[s][a]]
    BY <1>1, <1>2, <1>4 DEF Side
  <2>2. b \in S[t[s][a]]
    BY <1>3, <2>1
  <2> QED BY <1>1, <1>2, <2>1, <2>2, Order DEF Side
<1>5. ASSUME NEW c \in M, \/ a \in S[t.left[c]] /\ n \in S[t.right[c]]
                          \/ n \in S[t.left[c]] /\ a \in S[t.right[c]]
      PROVE  Before(sc, a, b) <=> Before(sc, a, n)
  <2>1. CASE a \in S[t.left[c]] /\ n \in S[t.right[c]]
    <3>1. b \in S[t.right[c]]
      BY <1>3, <2>1 DEF Side
    <3>2. Before(sc, a, c) /\ Before(sc, c, n) /\ Before(sc, c, b)
      BY <1>2, <2>1, <3>1
    <3>3. a \in Node /\ b \in Node /\ n \in Node /\ c \in Node
      BY <1>1
    <3> QED BY <1>1, <3>2, <3>3, Order
  <2>2. CASE n \in S[t.left[c]] /\ a \in S[t.right[c]]
    <3>1. b \in S[t.left[c]]
      BY <1>3, <2>2 DEF Side
    <3>2. Before(sc, c, a) /\ Before(sc, n, c) /\ Before(sc, b, c)
      BY <1>2, <2>2, <3>1
    <3>3. a \in Node /\ b \in Node /\ n \in Node /\ c \in Node
      BY <1>1
    <3>4. Before(sc, b, a) /\ Before(sc, n, a)
      BY <1>1, <3>2, <3>3, Order
    <3> QED BY <1>1, <3>3, <3>4, Order
  <2> QED BY <1>5, <2>1, <2>2
<1> QED BY <1>4, <1>5, Apart

\* The members before n, and how many they are.
Earlier(sc, M, n) == {a \in M : Before(sc, a, n)}
Place(sc, M, n) == Cardinality(Earlier(sc, M, n))

\* The members before c are those before n, n, and those between.
LEMMA PlaceAfter ==
  ASSUME NEW sc, NEW M, IsFiniteSet(M), NEW n \in M, NEW c \in M, NEW X \in SUBSET M,
         ~Before(sc, n, n), n \notin X, \A a \in X : ~Before(sc, a, n),
         \A a \in M : Before(sc, a, c) <=> Before(sc, a, n) \/ a = n \/ a \in X
  PROVE  Place(sc, M, c) = Place(sc, M, n) + Cardinality(X) + 1
<1>1. PICK E : E = Earlier(sc, M, n)
  OBVIOUS
<1>2. E \subseteq M /\ n \notin E /\ E \cap X = {} /\ Earlier(sc, M, c) = (E \cup X) \cup {n}
  BY <1>1 DEF Earlier
<1>3. IsFiniteSet(E) /\ IsFiniteSet(X)
  BY <1>2, FS_Subset
<1>4. Cardinality(E) \in Nat /\ Cardinality(X) \in Nat
  BY <1>3, FS_CardinalityType
<1>5. /\ IsFiniteSet(E \cup X)
      /\ Cardinality(E \cup X) = Cardinality(E) + Cardinality(X) - Cardinality(E \cap X)
  BY <1>3, FS_Union
<1>6. Cardinality(E \cap X) = 0
  BY <1>2, FS_EmptySet
<1>7. n \notin E \cup X
  BY <1>2
<1>8. Cardinality((E \cup X) \cup {n}) = Cardinality(E \cup X) + 1
  BY <1>5, <1>7, FS_AddElement
<1>9. Place(sc, M, c) = Cardinality(E) + Cardinality(X) + 1
  BY <1>2, <1>4, <1>5, <1>6, <1>8 DEF Place
<1> QED BY <1>1, <1>9 DEF Place

\* From a node to its child.
LEMMA ChildPlace ==
  ASSUME NEW t, NEW r, NEW M, NEW S, NEW sc, IsTree(t, r, M, S, sc), NEW n \in M
  PROVE  /\ t.right[n] # None =>
              Place(sc, M, t.right[n]) = Place(sc, M, n) + Cardinality(S[t.left[t.right[n]]]) + 1
         /\ t.left[n] # None =>
              Place(sc, M, n) = Place(sc, M, t.left[n]) + Cardinality(S[t.right[t.left[n]]]) + 1
<1>1. M \subseteq Node /\ ScoreType(sc) /\ IsFiniteSet(M)
  BY FS_Subset, ZSetConstants DEF IsTree, TreeAt
<1>2. ASSUME NEW c \in M
      PROVE  /\ S[c] = {c} \cup S[t.left[c]] \cup S[t.right[c]] /\ c \in S[c]
             /\ S[c] \subseteq M
             /\ \A m \in S[t.left[c]] : m \in M /\ Before(sc, m, c)
             /\ \A m \in S[t.right[c]] : m \in M /\ Before(sc, c, m)
  BY DEF IsTree, TreeAt, OnSide, Side
<1>3. \A a \in M : a \notin S[n] => \A b \in S[n] : Before(sc, a, b) <=> Before(sc, a, n)
  BY Convex
<1>4. ASSUME t.right[n] # None
      PROVE  Place(sc, M, t.right[n]) = Place(sc, M, n) + Cardinality(S[t.left[t.right[n]]]) + 1
  <2>1. PICK c \in M : c = t.right[n]
    BY <1>4, Below DEF IsTree, Side
  <2>2. /\ S[n] = {n} \cup S[t.left[n]] \cup S[c] /\ c \in S[c]
        /\ \A m \in S[t.left[n]] : m \in M /\ Before(sc, m, n)
        /\ \A m \in S[c] : m \in M /\ Before(sc, n, m)
    BY <1>2, <2>1
  <2>3. /\ S[c] = {c} \cup S[t.left[c]] \cup S[t.right[c]] /\ S[c] \subseteq M
        /\ \A m \in S[t.left[c]] : m \in M /\ Before(sc, m, c)
        /\ \A m \in S[t.right[c]] : m \in M /\ Before(sc, c, m)
    BY <1>2
  <2>4. PICK X \in SUBSET M : X = S[t.left[c]]
    BY <2>3
  <2>5. ~Before(sc, n, n) /\ n \notin X /\ \A a \in X : ~Before(sc, a, n)
    <3>1. \A a \in X : a \in Node /\ Before(sc, n, a)
      BY <1>1, <2>2, <2>3, <2>4
    <3>2. n \in Node
      BY <1>1
    <3> QED BY <1>1, <3>1, <3>2, Order
  <2>6. ASSUME NEW a \in M PROVE Before(sc, a, c) <=> Before(sc, a, n) \/ a = n \/ a \in X
    <3>0. a \in Node /\ n \in Node /\ c \in Node /\ Before(sc, n, c)
      BY <1>1, <2>2
    <3>1. CASE a \notin S[n]
      <4>1. Before(sc, a, c) <=> Before(sc, a, n)
        BY <1>3, <2>2, <3>1
      <4>2. a # n /\ a \notin X
        BY <2>2, <2>3, <2>4, <3>1
      <4> QED BY <4>1, <4>2
    <3>2. CASE a = n
      BY <3>0, <3>2
    <3>3. CASE a \in S[t.left[n]]
      <4>1. Before(sc, a, n)
        BY <2>2, <3>3
      <4>2. Before(sc, a, c)
        BY <1>1, <3>0, <4>1, Order
      <4> QED BY <4>1, <4>2
    <3>4. CASE a \in X
      BY <2>3, <2>4, <3>4
    <3>5. CASE a \in S[c] /\ a \notin X
      <4>1. ~Before(sc, a, n) /\ a # n
        BY <1>1, <2>2, <3>0, <3>5, Order
      <4>2. ~Before(sc, a, c)
        BY <1>1, <2>3, <2>4, <3>0, <3>5, Order
      <4> QED BY <3>5, <4>1, <4>2
    <3> QED BY <2>2, <3>1, <3>2, <3>3, <3>4, <3>5
  <2>7. Place(sc, M, c) = Place(sc, M, n) + Cardinality(X) + 1
    BY <1>1, <2>5, <2>6, PlaceAfter
  <2> QED BY <2>1, <2>4, <2>7
<1>5. ASSUME t.left[n] # None
      PROVE  Place(sc, M, n) = Place(sc, M, t.left[n]) + Cardinality(S[t.right[t.left[n]]]) + 1
  <2>1. PICK c \in M : c = t.left[n]
    BY <1>5, Below DEF IsTree, Side
  <2>2. /\ S[n] = {n} \cup S[c] \cup S[t.right[n]] /\ c \in S[c]
        /\ \A m \in S[c] : m \in M /\ Before(sc, m, n)
        /\ \A m \in S[t.right[n]] : m \in M /\ Before(sc, n, m)
    BY <1>2, <2>1
  <2>3. /\ S[c] = {c} \cup S[t.left[c]] \cup S[t.right[c]] /\ S[c] \subseteq M
        /\ \A m \in S[t.left[c]] : m \in M /\ Before(sc, m, c)
        /\ \A m \in S[t.right[c]] : m \in M /\ Before(sc, c, m)
    BY <1>2
  <2>4. PICK X \in SUBSET M : X = S[t.right[c]]
    BY <2>3
  <2>5. ~Before(sc, c, c) /\ c \notin X /\ \A a \in X : ~Before(sc, a, c)
    <3>1. \A a \in X : a \in Node /\ Before(sc, c, a)
      BY <1>1, <2>3, <2>4
    <3>2. c \in Node
      BY <1>1
    <3> QED BY <1>1, <3>1, <3>2, Order
  <2>6. ASSUME NEW a \in M PROVE Before(sc, a, n) <=> Before(sc, a, c) \/ a = c \/ a \in X
    <3>0. a \in Node /\ n \in Node /\ c \in Node /\ Before(sc, c, n)
      BY <1>1, <2>2
    <3>1. CASE a \notin S[n]
      <4>1. Before(sc, a, c) <=> Before(sc, a, n)
        BY <1>3, <2>2, <3>1
      <4>2. a # c /\ a \notin X
        BY <2>2, <2>3, <2>4, <3>1
      <4> QED BY <4>1, <4>2
    <3>2. CASE a = n
      <4>1. ~Before(sc, a, n) /\ ~Before(sc, a, c) /\ a # c
        BY <1>1, <3>0, <3>2, Order
      <4>2. a \notin X
        BY <1>1, <2>2, <2>3, <2>4, <3>0, <3>2, Order
      <4> QED BY <4>1, <4>2
    <3>3. CASE a \in S[t.right[n]]
      <4>1. Before(sc, n, a)
        BY <2>2, <3>3
      <4>2. Before(sc, c, a)
        BY <1>1, <3>0, <4>1, Order
      <4>3. ~Before(sc, a, n) /\ ~Before(sc, a, c) /\ a # c
        BY <1>1, <3>0, <4>1, <4>2, Order
      <4>4. a \notin X
        BY <2>2, <2>3, <2>4, <4>3
      <4> QED BY <4>3, <4>4
    <3>4. CASE a \in S[c]
      <4>1. Before(sc, a, n)
        BY <2>2, <3>4
      <4> QED BY <2>3, <2>4, <3>4, <4>1
    <3> QED BY <2>2, <3>1, <3>2, <3>3, <3>4
  <2>7. Place(sc, M, n) = Place(sc, M, c) + Cardinality(X) + 1
    BY <1>1, <2>5, <2>6, PlaceAfter
  <2> QED BY <2>1, <2>4, <2>7
<1> QED BY <1>4, <1>5

\* Before the root are the nodes on its left; after it those on its right.
LEMMA RootPlace ==
  ASSUME NEW t, NEW r, NEW M, NEW S, NEW sc, IsTree(t, r, M, S, sc), r \in M
  PROVE  /\ Place(sc, M, r) = Cardinality(S[t.left[r]])
         /\ Cardinality(M) = Place(sc, M, r) + Cardinality(S[t.right[r]]) + 1
<1>1. M \subseteq Node /\ ScoreType(sc) /\ S[r] = M
  BY DEF IsTree, TreeAt
<1>2. /\ M = {r} \cup S[t.left[r]] \cup S[t.right[r]]
      /\ \A m \in S[t.left[r]] : Before(sc, m, r)
      /\ \A m \in S[t.right[r]] : Before(sc, r, m)
  BY <1>1 DEF IsTree, TreeAt, OnSide, Side
<1>3. Earlier(sc, M, r) = S[t.left[r]]
  BY <1>1, <1>2, Order DEF Earlier
<1>4. /\ \A s \in Side : Cardinality(S[t[s][r]]) \in Nat
      /\ Cardinality(S[r]) = 1 + Cardinality(S[t.left[r]]) + Cardinality(S[t.right[r]])
  BY SidesCount
<1>5. Cardinality(S[t.left[r]]) \in Nat /\ Cardinality(S[t.right[r]]) \in Nat
  BY <1>4 DEF Side
<1> QED BY <1>1, <1>3, <1>4, <1>5 DEF Place

\* A member has a place below their number.
LEMMA PlaceBound ==
  ASSUME NEW sc, ScoreType(sc), NEW M \in SUBSET Node, NEW n \in M
  PROVE  Place(sc, M, n) \in 0 .. Cardinality(M) - 1 /\ Cardinality(M) \in Nat
<1>1. IsFiniteSet(M)
  BY FS_Subset, ZSetConstants
<1>2. Earlier(sc, M, n) \subseteq M /\ Earlier(sc, M, n) # M
  BY Order DEF Earlier
<1>3. /\ IsFiniteSet(Earlier(sc, M, n)) /\ Place(sc, M, n) <= Cardinality(M)
      /\ Place(sc, M, n) # Cardinality(M)
  BY <1>1, <1>2, FS_Subset DEF Place
<1>4. Place(sc, M, n) \in Nat /\ Cardinality(M) \in Nat
  BY <1>1, <1>3, FS_CardinalityType DEF Place
<1> QED BY <1>3, <1>4

\* What zset_seekge finds comes right after those before the pair.
LEMMA FoundPlace ==
  ASSUME NEW sc, ScoreType(sc), NEW M \in SUBSET Node, NEW s \in Int, NEW n \in Nat,
         NEW m \in Ptr, Found(sc, s, n, M, m)
  PROVE  /\ m # None => m \in M /\ Place(sc, M, m) = Cardinality({a \in M : zless(sc, a, s, n)})
         /\ m = None => Cardinality(M) = Cardinality({a \in M : zless(sc, a, s, n)})
<1>1. CASE m = None
  <2>1. {a \in M : zless(sc, a, s, n)} = M
    BY <1>1 DEF Found
  <2> QED BY <1>1, <2>1
<1>2. CASE m # None
  <2>1. m \in M /\ m \in Node /\ ~zless(sc, m, s, n)
        /\ \A a \in M : zless(sc, a, s, n) \/ a = m \/ Before(sc, m, a)
    BY <1>2 DEF Found
  <2>2. ASSUME NEW a \in M PROVE zless(sc, a, s, n) <=> Before(sc, a, m)
    <3>1. ASSUME zless(sc, a, s, n) PROVE Before(sc, a, m)
      BY <2>1, <3>1, ZSetConstants DEF zless, Before, ScoreType
    <3>2. ASSUME Before(sc, a, m), ~zless(sc, a, s, n) PROVE FALSE
      BY <2>1, <3>2, Order
    <3> QED BY <3>1, <3>2
  <2>3. {a \in M : zless(sc, a, s, n)} = Earlier(sc, M, m)
    BY <2>2 DEF Earlier
  <2> QED BY <1>2, <2>1, <2>3 DEF Place
<1> QED BY <1>1, <1>2

-----------------------------------------------------------------------------
(* ZQUERY *)

\* One iteration of avl_offset, in a tree with right counts, keeps the place of the
\* target, and gives up only when there is no such place.
LEMMA OffsetMoves ==
  ASSUME NEW t, NEW r, NEW M, NEW S, NEW sc, IsTree(t, r, M, S, sc), Right(t, M),
         NEW n \in M, NEW p \in Int, NEW o \in Int, p # o,
         NEW x, x = avl_offset_step(t, n, p, o)
  PROVE  /\ x.node # None => /\ x.node \in M /\ x.pos \in Int
                             /\ Place(sc, M, x.node) + o - x.pos = Place(sc, M, n) + o - p
         /\ x.node = None => Place(sc, M, n) + o - p \notin 0 .. Cardinality(M) - 1
<1>1. /\ M \subseteq Node /\ None \notin M /\ TreeType(t) /\ ScoreType(sc) /\ S[None] = {}
      /\ Cardinality(M) \in Nat /\ \A m \in M : Place(sc, M, m) \in Nat
  <2>1. /\ M \subseteq Node /\ None \notin M /\ TreeType(t) /\ ScoreType(sc) /\ S[None] = {}
        /\ M \in SUBSET Node
    BY ZSetConstants DEF IsTree, TreeAt
  <2>2. \A m \in M : Place(sc, M, m) \in 0 .. Cardinality(M) - 1 /\ Cardinality(M) \in Nat
    BY <2>1, PlaceBound
  <2> QED BY <2>1, <2>2
<1>2. ASSUME NEW m \in M
      PROVE  /\ t.left[m] \in M \cup {None} /\ t.right[m] \in M \cup {None}
             /\ avl_cnt(t, t.left[m]) \in Nat /\ avl_cnt(t, t.right[m]) \in Nat
             /\ avl_cnt(t, t.left[m]) = Cardinality(S[t.left[m]])
             /\ avl_cnt(t, t.right[m]) = Cardinality(S[t.right[m]])
             /\ t.left[m] = None => avl_cnt(t, t.left[m]) = 0
             /\ t.right[m] = None => avl_cnt(t, t.right[m]) = 0
  <2>1. t.left[m] \in M \cup {None} /\ t.right[m] \in M \cup {None}
    BY Below DEF IsTree, Side
  <2>2. /\ avl_cnt(t, t.left[m]) = Cardinality(S[t.left[m]])
        /\ avl_cnt(t, t.right[m]) = Cardinality(S[t.right[m]])
    BY <2>1, CountsExact
  <2>3. avl_cnt(t, t.left[m]) \in Nat /\ avl_cnt(t, t.right[m]) \in Nat
    <3>1. \A c \in Node : t.cnt[c] \in Nat
      BY <1>1 DEF TreeType
    <3> QED BY <1>1, <2>1, <3>1 DEF avl_cnt
  <2> QED BY <2>1, <2>2, <2>3 DEF avl_cnt
<1>3. ASSUME NEW m \in M
      PROVE  /\ t.right[m] # None =>
                  Place(sc, M, t.right[m]) = Place(sc, M, m) + avl_cnt(t, t.left[t.right[m]]) + 1
             /\ t.left[m] # None =>
                  Place(sc, M, m) = Place(sc, M, t.left[m]) + avl_cnt(t, t.right[t.left[m]]) + 1
  <2>1. /\ t.right[m] # None =>
             Place(sc, M, t.right[m]) = Place(sc, M, m) + Cardinality(S[t.left[t.right[m]]]) + 1
        /\ t.left[m] # None =>
             Place(sc, M, m) = Place(sc, M, t.left[m]) + Cardinality(S[t.right[t.left[m]]]) + 1
    BY ChildPlace
  <2>2. t.left[m] \in M \cup {None} /\ t.right[m] \in M \cup {None}
    BY <1>2
  <2>3. t.right[m] # None => Cardinality(S[t.left[t.right[m]]]) = avl_cnt(t, t.left[t.right[m]])
    BY <1>2, <2>2
  <2>4. t.left[m] # None => Cardinality(S[t.right[t.left[m]]]) = avl_cnt(t, t.right[t.left[m]])
    BY <1>2, <2>2
  <2> QED BY <2>1, <2>3, <2>4
<1>4. CASE in_right(t, n, p, o)
  <2>1. x = [node |-> t.right[n], pos |-> p + avl_cnt(t, t.left[t.right[n]]) + 1]
    BY <1>4 DEF avl_offset_step
  <2>2. PICK c : c = t.right[n]
    OBVIOUS
  <2>3. c \in M /\ c # None
    BY <1>1, <1>2, <1>4, <2>2 DEF in_right
  <2>4. PICK k \in Nat : k = avl_cnt(t, t.left[c])
    BY <1>2, <2>3
  <2>5. Place(sc, M, c) = Place(sc, M, n) + k + 1
    BY <1>3, <2>2, <2>3, <2>4
  <2>6. x.node = c /\ x.pos = p + k + 1
    BY <2>1, <2>2, <2>4
  <2>7. Place(sc, M, n) \in Nat
    BY <1>1
  <2> QED BY <2>3, <2>5, <2>6, <2>7
<1>5. CASE ~in_right(t, n, p, o) /\ in_left(t, n, p, o)
  <2>1. x = [node |-> t.left[n], pos |-> p - avl_cnt(t, t.right[t.left[n]]) - 1]
    BY <1>5 DEF avl_offset_step
  <2>2. PICK c : c = t.left[n]
    OBVIOUS
  <2>3. c \in M /\ c # None
    BY <1>1, <1>2, <1>5, <2>2 DEF in_left
  <2>4. PICK k \in Nat : k = avl_cnt(t, t.right[c])
    BY <1>2, <2>3
  <2>5. Place(sc, M, n) = Place(sc, M, c) + k + 1
    BY <1>3, <2>2, <2>3, <2>4
  <2>6. x.node = c /\ x.pos = p - k - 1
    BY <2>1, <2>2, <2>4
  <2>7. Place(sc, M, n) \in Nat /\ Place(sc, M, c) \in Nat
    BY <1>1, <2>3
  <2> QED BY <2>3, <2>5, <2>6, <2>7
<1>6. CASE ~in_right(t, n, p, o) /\ ~in_left(t, n, p, o) /\ t.parent[n] = None
  <2>1. x.node = None
    BY <1>6 DEF avl_offset_step
  <2>2. n = r
    BY <1>6, RootOnly
  <2>3. PICK a \in Nat : a = avl_cnt(t, t.left[n])
    BY <1>2
  <2>4. PICK b \in Nat : b = avl_cnt(t, t.right[n])
    BY <1>2
  <2>5. /\ Place(sc, M, r) = Cardinality(S[t.left[r]])
        /\ Cardinality(M) = Place(sc, M, r) + Cardinality(S[t.right[r]]) + 1
    BY <2>2, RootPlace
  <2>6. Place(sc, M, n) = a /\ Cardinality(M) = a + b + 1
    BY <1>2, <2>2, <2>3, <2>4, <2>5
  <2>7. ~(p < o /\ p + b >= o) /\ ~(p > o /\ p - a <= o)
    BY <1>6, <2>3, <2>4 DEF in_right, in_left
  <2>8. a + o - p \notin 0 .. a + b
    BY <2>7
  <2> QED BY <2>1, <2>6, <2>8
<1>7. CASE ~in_right(t, n, p, o) /\ ~in_left(t, n, p, o) /\ t.parent[n] # None
  <2>1. x = [node |-> t.parent[n], pos |-> up_pos(t, n, p)]
    BY <1>7 DEF avl_offset_step
  <2>2. PICK c : c = t.parent[n]
    OBVIOUS
  <2>3. c \in M /\ \E s \in Side : t[s][c] = n
    BY <1>7, <2>2, RootOnly
  <2>4. PICK a \in Nat : a = avl_cnt(t, t.left[n])
    BY <1>2
  <2>5. PICK b \in Nat : b = avl_cnt(t, t.right[n])
    BY <1>2
  <2>6. Place(sc, M, n) \in Nat /\ Place(sc, M, c) \in Nat /\ c # None /\ n # None
    BY <1>1, <2>3
  <2>7. CASE t.right[c] = n
    <3>1. x.node = c /\ x.pos = p - a - 1
      BY <2>1, <2>2, <2>4, <2>7 DEF up_pos
    <3>2. Place(sc, M, n) = Place(sc, M, c) + a + 1
      BY <1>3, <2>3, <2>4, <2>6, <2>7
    <3> QED BY <2>3, <2>6, <3>1, <3>2
  <2>8. CASE t.right[c] # n
    <3>1. x.node = c /\ x.pos = p + b + 1
      BY <2>1, <2>2, <2>5, <2>8 DEF up_pos
    <3>2. t.left[c] = n
      BY <2>3, <2>8 DEF Side
    <3>3. Place(sc, M, c) = Place(sc, M, n) + b + 1
      BY <1>3, <2>3, <2>5, <2>6, <3>2
    <3> QED BY <2>3, <2>6, <3>1, <3>3
  <2> QED BY <2>7, <2>8
<1> QED BY <1>4, <1>5, <1>6, <1>7

\* How many members come before the pair of a ZQUERY, and the place its answer begins at.
Base(H, sc, Q) == Cardinality({m \in H : zless(sc, m, Q.score, Q.name)})
First(H, sc, Q) == Base(H, sc, Q) + Q.offset

Room(Q) == (Q.limit + 1) \div 2

\* The members in the reply are those from First on.
InOrder(H, sc, Q, rep) ==
  \A i \in DOMAIN rep : Place(sc, H, rep[i]) = First(H, sc, Q) + i - 1

\* avl_offset is at n, on the way from p to o: the target is the next member to
\* put out.
Seeking(H, sc, Q, n, p, o, rep) ==
  /\ n \in H /\ 0 < Q.limit /\ Base(H, sc, Q) < Cardinality(H)
  /\ Place(sc, H, n) + o - p = First(H, sc, Q) + Len(rep)
  /\ Len(rep) <= Room(Q)
  /\ Len(rep) > 0 => 0 <= First(H, sc, Q) /\ First(H, sc, Q) + Len(rep) <= Cardinality(H)
  /\ InOrder(H, sc, Q, rep)

\* The reply is that of QueryExact.
Answered(H, sc, Q, rep) ==
  LET first == First(H, sc, Q)
      there == Base(H, sc, Q) < Cardinality(H) /\ first \in 0 .. Cardinality(H) - 1
  IN  /\ Len(rep) = IF ~there \/ Q.limit <= 0 THEN 0
                    ELSE IF Cardinality(H) - first < Room(Q)
                         THEN Cardinality(H) - first ELSE Room(Q)
      /\ InOrder(H, sc, Q, rep)

QueryType(H, sc, Q, rep) ==
  /\ H \in SUBSET Node /\ ScoreType(sc) /\ rep \in Seq(Node)
  /\ Q \in [score : Int, name : Nat, offset : Int, limit : Int]

LEMMA QueryTypes ==
  ASSUME NEW H, NEW sc, NEW Q, NEW rep, QueryType(H, sc, Q, rep)
  PROVE  /\ Base(H, sc, Q) \in Nat /\ First(H, sc, Q) \in Int /\ Cardinality(H) \in Nat
         /\ Q.limit \in Int /\ Q.offset \in Int /\ Room(Q) \in Int /\ Len(rep) \in Nat
         /\ DOMAIN rep = 1 .. Len(rep)
         /\ Q.limit <= 2 * Room(Q) /\ 2 * Room(Q) <= Q.limit + 1
         /\ \A n \in H : Place(sc, H, n) \in 0 .. Cardinality(H) - 1
<1>1. PICK B : B = {m \in H : zless(sc, m, Q.score, Q.name)}
  OBVIOUS
<1>2. IsFiniteSet(H) /\ H \in SUBSET Node /\ ScoreType(sc)
  BY FS_Subset, ZSetConstants DEF QueryType
<1>3. B \subseteq H
  BY <1>1
<1>4. IsFiniteSet(B)
  BY <1>2, <1>3, FS_Subset
<1>5. Cardinality(B) \in Nat /\ Cardinality(H) \in Nat
  BY <1>2, <1>4, FS_CardinalityType
<1>6. Q.limit \in Int /\ Q.offset \in Int
  BY DEF QueryType
<1>7. Room(Q) \in Int /\ Q.limit <= 2 * Room(Q) /\ 2 * Room(Q) <= Q.limit + 1
  BY <1>6 DEF Room
<1>8. Len(rep) \in Nat /\ DOMAIN rep = 1 .. Len(rep)
  BY DEF QueryType
<1>9. \A n \in H : Place(sc, H, n) \in 0 .. Cardinality(H) - 1 /\ Cardinality(H) \in Nat
  BY <1>2, PlaceBound
<1> QED BY <1>1, <1>5, <1>6, <1>7, <1>8, <1>9 DEF Base, First

\* avl_offset arrives, and the limit allows another member.
LEMMA EmitSeeks ==
  ASSUME NEW H, NEW sc, NEW Q, NEW rep, QueryType(H, sc, Q, rep),
         NEW n, NEW p \in Int, Seeking(H, sc, Q, n, p, p, rep), 2 * Len(rep) < Q.limit
  PROVE  Seeking(H, sc, Q, n, 0, 1, Append(rep, n))
<1>1. PICK F \in Int : F = First(H, sc, Q)
  BY QueryTypes
<1>2. PICK R \in Int : R = Room(Q) /\ Q.limit <= 2 * R
  BY QueryTypes
<1>3. PICK C \in Nat : C = Cardinality(H)
  BY QueryTypes
<1>4. PICK k \in Nat : k = Len(rep) /\ DOMAIN rep = 1 .. k
  BY QueryTypes
<1>5. PICK P \in 0 .. C - 1 : P = Place(sc, H, n)
  BY <1>3, QueryTypes DEF Seeking
<1>6. /\ n \in H /\ 0 < Q.limit /\ Base(H, sc, Q) < Cardinality(H)
      /\ P + p - p = F + k /\ k <= R
      /\ \A i \in 1 .. k : Place(sc, H, rep[i]) = F + i - 1
  BY <1>1, <1>2, <1>4, <1>5 DEF Seeking, InOrder
<1>7. P = F + k
  BY <1>6
<1>8. PICK s : s = Append(rep, n)
  OBVIOUS
<1>9. /\ Len(s) = k + 1 /\ DOMAIN s = 1 .. k + 1 /\ s[k + 1] = n
      /\ \A i \in 1 .. k : s[i] = rep[i]
  <2>1. rep \in Seq(Node) /\ n \in Node
    BY <1>6 DEF QueryType
  <2> QED BY <1>4, <1>8, <2>1
<1>10. ASSUME NEW i \in 1 .. k + 1 PROVE Place(sc, H, s[i]) = F + i - 1
  <2>1. CASE i = k + 1
    <3>1. s[i] = n
      BY <1>9, <2>1
    <3>2. Place(sc, H, s[i]) = P
      BY <1>5, <3>1
    <3>3. P = F + i - 1
      BY <1>7, <2>1
    <3> QED BY <3>2, <3>3
  <2>2. CASE i # k + 1
    BY <1>6, <1>9, <2>2
  <2> QED BY <2>1, <2>2
<1>11. InOrder(H, sc, Q, s)
  BY <1>1, <1>9, <1>10 DEF InOrder
<1>12. k + 1 <= R
  <2>1. Q.limit \in Int /\ 2 * k < Q.limit
    BY <1>4, QueryTypes
  <2> QED BY <1>2, <2>1
<1>13. Seeking(H, sc, Q, n, 0, 1, s)
  <2>1. P + 1 - 0 = F + (k + 1) /\ 0 <= F + k /\ F + (k + 1) <= C
    BY <1>3, <1>7
  <2>2. 0 <= F
    BY <1>1, <1>4, <1>7 DEF Seeking
  <2> QED BY <1>1, <1>2, <1>3, <1>5, <1>6, <1>9, <1>11, <1>12, <2>1, <2>2 DEF Seeking
<1> QED BY <1>8, <1>13

\* avl_offset arrives, and the limit is reached.
LEMMA EmitAnswers ==
  ASSUME NEW H, NEW sc, NEW Q, NEW rep, QueryType(H, sc, Q, rep),
         NEW n, NEW p, NEW o, Seeking(H, sc, Q, n, p, o, rep), ~(2 * Len(rep) < Q.limit)
  PROVE  Answered(H, sc, Q, rep)
<1>1. PICK F \in Int : F = First(H, sc, Q)
  BY QueryTypes
<1>2. PICK R \in Int : R = Room(Q) /\ Q.limit <= 2 * R /\ 2 * R <= Q.limit + 1
  BY QueryTypes
<1>3. PICK C \in Nat : C = Cardinality(H)
  BY QueryTypes
<1>4. PICK k \in Nat : k = Len(rep)
  BY QueryTypes
<1>5. PICK l \in Int : l = Q.limit
  BY QueryTypes
<1>6. /\ 0 < l /\ Base(H, sc, Q) < C /\ k <= R
      /\ k > 0 => 0 <= F /\ F + k <= C
      /\ InOrder(H, sc, Q, rep)
  BY <1>1, <1>2, <1>3, <1>4, <1>5 DEF Seeking
<1>7. k = R /\ k > 0 /\ F \in 0 .. C - 1 /\ ~(C - F < R)
  BY <1>2, <1>4, <1>5, <1>6
<1> QED BY <1>1, <1>2, <1>3, <1>4, <1>5, <1>6, <1>7 DEF Answered

\* avl_offset gives up.
LEMMA LostAnswers ==
  ASSUME NEW H, NEW sc, NEW Q, NEW rep, QueryType(H, sc, Q, rep),
         NEW n, NEW p \in Int, NEW o \in Int, Seeking(H, sc, Q, n, p, o, rep),
         Place(sc, H, n) + o - p \notin 0 .. Cardinality(H) - 1
  PROVE  Answered(H, sc, Q, rep)
<1>1. PICK F \in Int : F = First(H, sc, Q)
  BY QueryTypes
<1>2. PICK R \in Int : R = Room(Q)
  BY QueryTypes
<1>3. PICK C \in Nat : C = Cardinality(H)
  BY QueryTypes
<1>4. PICK k \in Nat : k = Len(rep)
  BY QueryTypes
<1>5. PICK l \in Int : l = Q.limit
  BY QueryTypes
<1>6. /\ 0 < l /\ Base(H, sc, Q) < C /\ k <= R
      /\ k > 0 => 0 <= F /\ F + k <= C
      /\ InOrder(H, sc, Q, rep) /\ F + k \notin 0 .. C - 1
  BY <1>1, <1>2, <1>3, <1>4, <1>5 DEF Seeking
<1>7. CASE k = 0
  <2>1. F \notin 0 .. C - 1
    BY <1>6, <1>7
  <2> QED BY <1>1, <1>3, <1>4, <1>6, <1>7, <2>1 DEF Answered
<1>8. CASE k # 0
  <2>1. k = C - F /\ F \in 0 .. C - 1
    BY <1>6, <1>8
  <2>2. k = IF C - F < R THEN C - F ELSE R
    BY <1>6, <2>1
  <2> QED BY <1>1, <1>2, <1>3, <1>4, <1>5, <1>6, <2>1, <2>2 DEF Answered
<1> QED BY <1>7, <1>8

\* Between the queries nothing is left of the last one; while one runs, avl_offset
\* is on its way to the next member of the answer.
QueryInv ==
  /\ pc \notin {"offset", "reply"} => pos = 0 /\ reply = << >>
  /\ pc = "offset" /\ ~swapped => Seeking(hmap, score, q, node, pos, off, reply)
  /\ pc = "reply" /\ ~swapped => Answered(hmap, score, q, reply)

LEMMA QueryState ==
  ASSUME TypeOK, TreeInv, pc \in {"idle", "offset", "reply"}
  PROVE  QueryType(hmap, score, q, reply)
<1>1. hmap \in SUBSET Node /\ ScoreType(score)
  BY Idle
<1> QED BY <1>1 DEF QueryType, TypeOK

\* zset_seekge finds where the answer begins, or that there is none.
LEMMA ZqueryAnswers ==
  ASSUME TypeOK, TreeInv, QueryInv,
         NEW n \in Node, NEW s \in Score, NEW o \in Offset, NEW l \in Limit,
         do_zquery(s, n, o, l)
  PROVE  QueryInv'
<1>1. /\ pc = "idle" /\ off' = o /\ pos' = 0 /\ reply' = << >>
      /\ q' = [score |-> s, name |-> n, offset |-> o, limit |-> l]
      /\ hmap' = hmap /\ score' = score /\ swapped' = swapped
  BY DEF do_zquery, QueryInv
<1>2. s \in Int /\ n \in Nat /\ o \in Int /\ l \in Int
  BY ZSetConstants
<1>3. PICK Q : Q = [score |-> s, name |-> n, offset |-> o, limit |-> l]
  OBVIOUS
<1>4. Q \in [score : Int, name : Nat, offset : Int, limit : Int]
      /\ Q.score = s /\ Q.name = n /\ Q.offset = o /\ Q.limit = l
  BY <1>2, <1>3
<1>5. hmap \in SUBSET Node /\ ScoreType(score)
  BY <1>1, Idle
<1>6. PICK e : e = << >>
  OBVIOUS
<1>7. e \in Seq(Node) /\ Len(e) = 0 /\ DOMAIN e = {}
  BY <1>6
<1>8. QueryType(hmap, score, Q, e)
  BY <1>4, <1>5, <1>7 DEF QueryType
<1>9. InOrder(hmap, score, Q, e)
  BY <1>7 DEF InOrder
<1>10. q' = Q /\ reply' = e
  BY <1>1, <1>3, <1>6
<1>11. CASE l <= 0 /\ pc' = "reply"
  <2>1. Answered(hmap, score, Q, e)
    BY <1>4, <1>7, <1>9, <1>11 DEF Answered
  <2> QED BY <1>1, <1>10, <1>11, <2>1 DEF QueryInv
<1>12. CASE pc' = "undefined"
  BY <1>1, <1>12 DEF QueryInv
<1>13. CASE /\ l > 0 /\ root # Freed
            /\ \/ zset_seekge(s, n) = None /\ pc' = "reply"
               \/ /\ zset_seekge(s, n) # None /\ pc' = "offset"
                  /\ node' = zset_seekge(s, n)
  <2>0. root # Freed /\ l > 0
    BY <1>13
  <2>1. PICK S : IsTree(tree, root, hmap, S, score)
    BY <1>1, <2>0, Idle DEF Holds
  <2>2. Leaves(tree, hmap) /\ hmap \subseteq Node
    BY <1>1, Idle
  <2> DEFINE walk == CHOOSE f : f = [m \in Ptr |->
                       IF m = None THEN None
                       ELSE IF zless(score, m, s, n) THEN f[tree.right[m]]
                       ELSE LET better == f[tree.left[m]]
                            IN  IF better = None THEN m ELSE better]
  <2>3. Seeks(walk, tree, score, s, n)
    <3>1. \E f : Seeks(f, tree, score, s, n)
      BY <2>1, <2>2, SeekExists
    <3> QED BY <3>1 DEF Seeks, SeekStep
  <2>4. zset_seekge(s, n) = walk[root]
    BY DEF zset_seekge
  <2> HIDE DEF walk
  <2>5. PICK m : m = walk[root]
    OBVIOUS
  <2>6. Found(score, s, n, hmap, m)
    BY <1>2, <2>1, <2>3, <2>5, SeekFinds
  <2>7. m \in Ptr
    BY <2>2, <2>6 DEF Found, Ptr
  <2>8. /\ m # None => m \in hmap /\ Place(score, hmap, m) = Base(hmap, score, Q)
        /\ m = None => Cardinality(hmap) = Base(hmap, score, Q)
    <3>1. /\ m # None => /\ m \in hmap
                         /\ Place(score, hmap, m) = Cardinality({a \in hmap : zless(score, a, s, n)})
          /\ m = None => Cardinality(hmap) = Cardinality({a \in hmap : zless(score, a, s, n)})
      BY <1>2, <1>5, <2>6, <2>7, FoundPlace
    <3> QED BY <1>4, <3>1 DEF Base
  <2>9. CASE m = None /\ pc' = "reply"
    <3>1. ~(Base(hmap, score, Q) < Cardinality(hmap))
      BY <1>8, <2>8, <2>9, QueryTypes
    <3>2. Answered(hmap, score, Q, e)
      BY <1>7, <1>9, <3>1 DEF Answered
    <3> QED BY <1>1, <1>10, <2>9, <3>2 DEF QueryInv
  <2>10. CASE m # None /\ pc' = "offset" /\ node' = m
    <3>1. /\ Base(hmap, score, Q) < Cardinality(hmap) /\ 0 <= Room(Q)
          /\ Base(hmap, score, Q) \in Nat
      <4>1. /\ Base(hmap, score, Q) \in Nat /\ Cardinality(hmap) \in Nat
            /\ Room(Q) \in Int /\ Q.limit <= 2 * Room(Q)
            /\ Place(score, hmap, m) \in 0 .. Cardinality(hmap) - 1
        BY <1>8, <2>8, <2>10, QueryTypes
      <4>2. Place(score, hmap, m) = Base(hmap, score, Q) /\ Q.limit > 0
        BY <1>4, <2>0, <2>8, <2>10
      <4> QED BY <1>2, <1>4, <4>1, <4>2
    <3>2. Place(score, hmap, m) + o - 0 = First(hmap, score, Q) + Len(e)
      BY <1>2, <1>4, <1>7, <2>8, <2>10, <3>1 DEF First
    <3>3. Seeking(hmap, score, Q, m, 0, o, e)
      <4>1. m \in hmap /\ 0 < Q.limit
        BY <1>2, <1>4, <2>0, <2>8, <2>10
      <4>2. Len(e) <= Room(Q) /\ ~(Len(e) > 0)
        BY <1>7, <3>1
      <4> QED BY <1>9, <3>1, <3>2, <4>1, <4>2 DEF Seeking
    <3> QED BY <1>1, <1>10, <2>10, <3>3 DEF QueryInv
  <2> QED BY <1>13, <2>4, <2>5, <2>9, <2>10
<1> QED BY <1>11, <1>12, <1>13 DEF do_zquery

LEMMA OffsetAnswers ==
  ASSUME TypeOK, TreeInv, BalanceInv, QueryInv, avl_offset
  PROVE  QueryInv'
<1>1. /\ pc = "offset" /\ pos # off /\ pc' = offset_pc(node') /\ off' = off
      /\ node' = avl_offset_step(tree, node, pos, off).node
      /\ pos' = avl_offset_step(tree, node, pos, off).pos
      /\ UNCHANGED <<tree, root, hmap, score, q, reply, swapped>>
  BY DEF avl_offset
<1>2. pos \in Int /\ off \in Int /\ QueryType(hmap, score, q, reply)
  BY <1>1, QueryState DEF TypeOK
<1>3. pc' \in {"offset", "reply"} /\ (pc' = "reply" <=> node' = None)
  BY <1>1 DEF offset_pc
<1>4. CASE swapped
  BY <1>1, <1>3, <1>4 DEF QueryInv
<1>5. CASE ~swapped
  <2>1. Seeking(hmap, score, q, node, pos, off, reply)
    BY <1>1, <1>5 DEF QueryInv
  <2>2. PICK S : IsTree(tree, TopOf(root), hmap, S, score)
    BY <1>1, Idle DEF Holds
  <2>3. Right(tree, hmap) /\ node \in hmap
    BY <1>1, <1>5, <2>1 DEF BalanceInv, Seeking
  <2>4. PICK x : x = avl_offset_step(tree, node, pos, off)
    OBVIOUS
  <2>5. /\ x.node # None =>
             /\ x.node \in hmap /\ x.pos \in Int
             /\ Place(score, hmap, x.node) + off - x.pos = Place(score, hmap, node) + off - pos
        /\ x.node = None => Place(score, hmap, node) + off - pos \notin 0 .. Cardinality(hmap) - 1
    BY <1>1, <1>2, <2>2, <2>3, <2>4, OffsetMoves
  <2>6. node' = x.node /\ pos' = x.pos
    BY <1>1, <2>4
  <2>7. CASE x.node # None
    <3>1. Seeking(hmap, score, q, x.node, x.pos, off, reply)
      BY <2>1, <2>5, <2>7 DEF Seeking
    <3> QED BY <1>1, <1>3, <2>6, <2>7, <3>1 DEF QueryInv
  <2>8. CASE x.node = None
    <3>1. Answered(hmap, score, q, reply)
      BY <1>2, <2>1, <2>5, <2>8, LostAnswers
    <3> QED BY <1>1, <1>3, <2>6, <2>8, <3>1 DEF QueryInv
  <2> QED BY <2>7, <2>8
<1> QED BY <1>4, <1>5

LEMMA EmitKeepsQuery ==
  ASSUME TypeOK, TreeInv, QueryInv, emit
  PROVE  QueryInv'
<1>1. pc = "offset" /\ pos = off /\ UNCHANGED <<hmap, score, q, swapped>>
  BY DEF emit
<1>2. pos \in Int /\ QueryType(hmap, score, q, reply)
  BY <1>1, QueryState DEF TypeOK
<1>3. ~swapped => Seeking(hmap, score, q, node, pos, pos, reply)
  BY <1>1 DEF QueryInv
<1>4. CASE /\ 2 * Len(reply) < q.limit /\ reply' = Append(reply, node)
           /\ pos' = 0 /\ off' = 1 /\ pc' = pc /\ node' = node
  <2>1. ~swapped => Seeking(hmap, score, q, node, 0, 1, Append(reply, node))
    BY <1>2, <1>3, <1>4, EmitSeeks
  <2> QED BY <1>1, <1>4, <2>1 DEF QueryInv
<1>5. CASE 2 * Len(reply) >= q.limit /\ pc' = "reply" /\ reply' = reply
  <2>1. ~(2 * Len(reply) < q.limit)
    <3>1. Len(reply) \in Nat /\ q.limit \in Int
      BY <1>2, QueryTypes
    <3> QED BY <1>5, <3>1
  <2>2. ~swapped => Answered(hmap, score, q, reply)
    BY <1>2, <1>3, <2>1, EmitAnswers
  <2> QED BY <1>1, <1>5, <2>2 DEF QueryInv
<1> QED BY <1>4, <1>5 DEF emit

LEMMA QueryNext == ZInv /\ BalanceInv /\ QueryInv /\ [Next]_vars => QueryInv'
<1> SUFFICES ASSUME TypeOK, TreeInv, BalanceInv, QueryInv, [Next]_vars PROVE QueryInv'
  BY DEF ZInv
<1>1. CASE UNCHANGED vars
  BY <1>1 DEF vars, queryVars, QueryInv
<1>2. ASSUME pc \notin {"offset", "reply"}, pc' \notin {"offset", "reply"},
             UNCHANGED queryVars
      PROVE  QueryInv'
  BY <1>2 DEF QueryInv, queryVars
<1>3. ASSUME NEW n \in Node, NEW s \in Score, zset_insert(n, s) \/ zset_update(n, s)
      PROVE  QueryInv'
  BY <1>2, <1>3 DEF zset_insert, zset_update, avl_del
<1>4. ASSUME NEW n \in Node, zset_delete(n) PROVE QueryInv'
  BY <1>2, <1>4 DEF zset_delete, avl_del
<1>5. CASE zset_clear
  BY <1>2, <1>5 DEF zset_clear
<1>6. ASSUME NEW n \in Node, NEW s \in Score, NEW o \in Offset, NEW l \in Limit,
             do_zquery(s, n, o, l)
      PROVE  QueryInv'
  BY <1>6, ZqueryAnswers
<1>7. CASE avl_fix
  <2>1. job.after \in {"idle", "swap", "deleted", "inserted"}
    BY DEF TypeOK
  <2> QED BY <1>2, <1>7, <2>1 DEF avl_fix
<1>8. CASE avl_del_swap \/ update_reinsert \/ delete_done \/ insert_done
  BY <1>2, <1>8 DEF avl_del_swap, update_reinsert, delete_done, insert_done
<1>9. CASE avl_offset
  BY <1>9, OffsetAnswers
<1>10. CASE emit
  BY <1>10, EmitKeepsQuery
<1>11. CASE send_reply
  BY <1>11 DEF send_reply, QueryInv
<1> QED BY <1>1, <1>3, <1>4, <1>5, <1>6, <1>7, <1>8, <1>9, <1>10, <1>11 DEF Next, QueryStep

\* While a ZQUERY runs, avl_offset is on its way to the next member of the answer,
\* and the members already in the reply are those that come before it.
THEOREM QueryInvariant == Spec => []QueryInv
<1>1. Init => QueryInv
  BY DEF Init, QueryInv
<1> QED BY <1>1, QueryNext, TreeInvariant, BalanceInvariant, PTL DEF Spec

LEMMA QueryHolds == ZInv /\ QueryInv => QueryExact
<1> SUFFICES ASSUME TypeOK, TreeInv, QueryInv, pc = "reply", ~swapped PROVE QueryExact
  BY DEF ZInv, QueryExact
<1>1. Answered(hmap, score, q, reply)
  BY DEF QueryInv
<1>2. Base(hmap, score, q) = Rank(q.score, q.name)
  BY DEF Base, Rank
<1>3. \A i \in DOMAIN reply : Rank(score[reply[i]], reply[i]) = Place(score, hmap, reply[i])
  BY DEF Rank, Place, Earlier, Before
<1> QED BY <1>1, <1>2, <1>3 DEF Answered, First, InOrder, Room, QueryExact

\* QueryExact: as long as avl_del has replaced no node by its successor, ZQUERY answers
\* with the members from the one `offset' places after the first that is not before
\* (score, name), in order and without gaps, as many as half the limit allows: the
\* steps of avl_offset, by the counts alone, never end at another member.
THEOREM QueriesAreExact == Spec => []QueryExact
BY TreeInvariant, QueryInvariant, QueryHolds, PTL
=============================================================================
