-------------------------------- MODULE ZSet --------------------------------
(***************************************************************************)
(* zset.cpp over avl.cpp: a sorted set is a hash table by name and an AVL  *)
(* tree by (score, name) over the same ZNode objects.  Updates run the     *)
(* loop of avl_fix one iteration per step; ZQUERY (do_zquery) runs the     *)
(* loop of avl_offset one iteration per step.                              *)
(*                                                                         *)
(* A node stands for its name, a number in the order of memcmp; the hash   *)
(* table is the set of nodes that HMap is shown to implement.  A pointer   *)
(* to a ZNode that was freed is Freed: following it has no defined         *)
(* outcome, the program may crash, loop or go on with other data, and the  *)
(* model stops in "undefined", after which nothing is claimed.  What freed *)
(* nodes hold is not kept.                                                 *)
(***************************************************************************)
EXTENDS AvlTree, Sequences, FiniteSets

CONSTANTS
  Score,     \* scores; str2dbl refuses NaN, so they are ordered
  Offset,    \* offsets of ZQUERY
  Limit,     \* limits of ZQUERY
  Freed      \* a pointer to a ZNode that was freed

ASSUME ZSetConstants ==
  /\ Node \subseteq Nat /\ IsFiniteSet(Node)
  /\ Score \subseteq Int /\ Offset \subseteq Int /\ Limit \subseteq Int
  /\ {None, Freed} \cap Node = {} /\ None # Freed

VARIABLES
  tree,      \* the AVLNode of every ZNode
  root,      \* zset->root
  hmap,      \* the nodes in zset->hmap
  score,     \* ZNode.score
  pc,        \* "idle" between calls
  job,       \* the running update: its kind, node, new score, and for avl_del
             \* the successor and where avl_fix returns to
  node,      \* the node avl_fix or avl_offset is at
  ret,       \* the root avl_fix or avl_del returns
  q,         \* the arguments of the running ZQUERY
  pos, off,  \* pos and offset of avl_offset
  reply,     \* the names ZQUERY has put out
  swapped    \* history: has avl_del replaced a node by its successor?

vars == <<tree, root, hmap, score, pc, job, node, ret, q, pos, off, reply, swapped>>
queryVars == <<q, pos, off, reply>>

NoJob == [op |-> "none", name |-> None, val |-> 0, victim |-> None, after |-> "idle"]
NoQuery == [score |-> 0, name |-> 0, offset |-> 0, limit |-> 0]

Ptr == Node \cup {None}

TypeOK ==
  /\ tree \in [left : [Node -> Ptr], right : [Node -> Ptr], parent : [Node -> Ptr],
               height : [Node -> Nat], cnt : [Node -> Nat]]
  /\ root \in Ptr \cup {Freed}
  /\ hmap \subseteq Node
  /\ score \in [Node -> Score \cup {0}]
  /\ pc \in {"idle", "fix", "swap", "deleted", "inserted", "offset", "reply", "undefined"}
  /\ job \in [op : {"none", "insert", "update", "delete"}, name : Ptr,
              val : Score \cup {0}, victim : Ptr,
              after : {"idle", "swap", "deleted", "inserted"}]
  /\ node \in Ptr /\ ret \in Ptr
  /\ q \in [score : Int, name : Nat, offset : Int, limit : Int]
  /\ pos \in Int /\ off \in Int
  /\ reply \in Seq(Node)
  /\ swapped \in BOOLEAN

Init ==
  /\ tree = Untouched
  /\ root = None /\ hmap = {} /\ score = [n \in Node |-> 0]
  /\ pc = "idle" /\ job = NoJob /\ node = None /\ ret = None
  /\ q = NoQuery /\ pos = 0 /\ off = 0 /\ reply = << >>
  /\ swapped = FALSE

\* zset_lookup
zset_lookup(n) == root # None /\ n \in hmap

\* The node a comes before the pair (s, b); sc gives the scores.
zless(sc, a, s, b) == sc[a] < s \/ (sc[a] = s /\ a < b)

\* tree_insert up to its call of avl_fix, in the tree with root r.
tree_insert(t, r, sc, n) ==
  LET side(m) == IF zless(sc, n, sc[m], m) THEN "left" ELSE "right"
      walk[m \in Node] == LET next == t[side(m)][m]
                          IN  IF next = None THEN m ELSE walk[next]
  IN  IF r = None THEN t
      ELSE [t EXCEPT ![side(walk[r])][walk[r]] = n, !.parent[n] = walk[r]]

\* The loop of zset_seekge: left of a candidate there may be a better one.
zset_seekge(s, n) ==
  LET walk[m \in Ptr] ==
        IF m = None THEN None
        ELSE IF zless(score, m, s, n) THEN walk[tree.right[m]]
        ELSE LET better == walk[tree.left[m]]
             IN  IF better = None THEN m ELSE better
  IN  walk[root]

-----------------------------------------------------------------------------
(* Updates *)

\* zset_insert of a name that is not there: znode_new, hm_insert, tree_insert.
zset_insert(n, s) ==
  /\ pc = "idle"
  /\ ~zset_lookup(n)
  /\ hmap' = hmap \cup {n}
  /\ score' = [score EXCEPT ![n] = s]
  /\ \/ /\ root = Freed
        /\ pc' = "undefined"
        /\ UNCHANGED <<tree, job, node>>
     \/ /\ root # Freed
        /\ tree' = tree_insert(avl_init(tree, n), root, score', n)
        /\ node' = n
        /\ job' = [NoJob EXCEPT !.op = "insert", !.name = n, !.after = "inserted"]
        /\ pc' = "fix"
  /\ UNCHANGED <<root, ret, queryVars, swapped>>

\* avl_del up to its calls of avl_fix: the node, or its successor when it has
\* two children, is detached.
avl_del(op, n, s) ==
  LET both == tree.left[n] # None /\ tree.right[n] # None
      d == IF both THEN leftmost(tree, tree.right[n]) ELSE n
      p == tree.parent[d]
  IN  /\ tree' = avl_detach(tree, d)
      /\ job' = [op |-> op, name |-> n, val |-> s,
                 victim |-> IF both THEN d ELSE None,
                 after |-> IF both THEN "swap" ELSE "deleted"]
      /\ node' = p
      /\ ret' = IF p = None THEN only_child(tree, d) ELSE None
      /\ pc' = IF p = None THEN "deleted" ELSE "fix"

\* zset_update, called by zset_insert for a name that is there.
zset_update(n, s) ==
  /\ pc = "idle"
  /\ zset_lookup(n)
  /\ score[n] # s
  /\ avl_del("update", n, s)
  /\ UNCHANGED <<root, hmap, score, queryVars, swapped>>

\* zset_delete of a node that do_zrem has looked up.
zset_delete(n) ==
  /\ pc = "idle"
  /\ zset_lookup(n)
  /\ hmap' = hmap \ {n}
  /\ avl_del("delete", n, 0)
  /\ UNCHANGED <<root, score, queryVars, swapped>>

\* One iteration of avl_fix; at the root it returns.
avl_fix ==
  LET step == avl_fix_step(tree, node)
      p == tree.parent[node]
  IN  /\ pc = "fix"
      /\ tree' = step.tree
      /\ node' = p
      /\ ret' = IF p = None THEN step.top ELSE None
      /\ pc' = IF p = None THEN job.after ELSE "fix"
      /\ UNCHANGED <<root, hmap, score, job, queryVars, swapped>>

\* The second half of avl_del for a node with two children.
avl_del_swap ==
  /\ pc = "swap"
  /\ tree' = avl_swap(tree, job.name, job.victim)
  /\ ret' = IF tree.parent[job.name] = None THEN job.victim ELSE ret
  /\ pc' = "deleted"
  /\ swapped' = TRUE
  /\ UNCHANGED <<root, hmap, score, job, node, queryVars>>

\* zset_update after avl_del: the node goes in again with its new score.
update_reinsert ==
  /\ pc = "deleted" /\ job.op = "update"
  /\ root' = ret
  /\ score' = [score EXCEPT ![job.name] = job.val]
  /\ tree' = tree_insert(avl_init(tree, job.name), ret, score', job.name)
  /\ node' = job.name
  /\ ret' = None
  /\ job' = [job EXCEPT !.victim = None, !.after = "inserted"]
  /\ pc' = "fix"
  /\ UNCHANGED <<hmap, queryVars, swapped>>

\* Faulty variant of new_root: the root is never moved.
new_root_kept == IF root = job.name THEN Freed ELSE root

\* zset->root after zset_delete: it is only assigned when it is not NULL.
new_root == IF ret = None THEN Freed ELSE ret

\* zset_delete after avl_del: znode_del frees the node.
delete_done ==
  /\ pc = "deleted" /\ job.op = "delete"
  /\ root' = new_root
  /\ tree' = avl_init(tree, job.name)
  /\ score' = [score EXCEPT ![job.name] = 0]
  /\ ret' = None /\ node' = None /\ job' = NoJob
  /\ pc' = "idle"
  /\ UNCHANGED <<hmap, queryVars, swapped>>

\* tree_insert returns.
insert_done ==
  /\ pc = "inserted"
  /\ root' = ret
  /\ ret' = None /\ job' = NoJob
  /\ pc' = "idle"
  /\ UNCHANGED <<tree, hmap, score, node, queryVars, swapped>>

\* zset_clear, from entry_del_sync: hm_clear, then tree_dispose of the root.
zset_clear ==
  /\ pc = "idle"
  /\ hmap # {} \/ root # None
  /\ hmap' = {}
  /\ \/ root = Freed /\ pc' = "undefined" /\ UNCHANGED <<tree, root, score, swapped>>
     \/ /\ root # Freed
        /\ tree' = Untouched /\ root' = None /\ score' = [n \in Node |-> 0]
        /\ swapped' = FALSE
        /\ UNCHANGED pc
  /\ UNCHANGED <<job, node, ret, queryVars>>

-----------------------------------------------------------------------------
(* do_zquery *)
do_zquery(s, n, o, l) ==
  LET found == zset_seekge(s, n)
  IN  /\ pc = "idle"
      /\ q' = [score |-> s, name |-> n, offset |-> o, limit |-> l]
      /\ off' = o
      /\ \/ l <= 0 /\ pc' = "reply" /\ UNCHANGED node
         \/ l > 0 /\ root = Freed /\ pc' = "undefined" /\ UNCHANGED node
         \/ l > 0 /\ root # Freed /\ found = None /\ pc' = "reply" /\ UNCHANGED node
         \/ l > 0 /\ root # Freed /\ found # None /\ pc' = "offset" /\ node' = found
      /\ UNCHANGED <<tree, root, hmap, score, job, ret, pos, reply, swapped>>

\* znode_offset returns NULL when there is no such node.
offset_pc(n) == IF n = None THEN "reply" ELSE "offset"

\* One iteration of avl_offset.
avl_offset ==
  LET step == avl_offset_step(tree, node, pos, off)
  IN  /\ pc = "offset"
      /\ pos # off
      /\ node' = step.node
      /\ pos' = step.pos
      /\ pc' = offset_pc(step.node)
      /\ UNCHANGED <<tree, root, hmap, score, job, ret, q, off, reply, swapped>>

\* avl_offset has found a node: it is put out if the limit allows (a name and
\* a score count as two), and the next one is looked for.
emit ==
  /\ pc = "offset"
  /\ pos = off
  /\ \/ /\ 2 * Len(reply) < q.limit
        /\ reply' = Append(reply, node)
        /\ pos' = 0 /\ off' = 1
        /\ UNCHANGED <<pc, node>>
     \/ /\ 2 * Len(reply) >= q.limit
        /\ pc' = "reply" /\ node' = None
        /\ UNCHANGED <<reply, pos, off>>
  /\ UNCHANGED <<tree, root, hmap, score, job, ret, q, swapped>>

send_reply ==
  /\ pc = "reply"
  /\ pc' = "idle"
  /\ q' = NoQuery /\ pos' = 0 /\ off' = 0 /\ reply' = << >>
  /\ UNCHANGED <<tree, root, hmap, score, job, node, ret, swapped>>

-----------------------------------------------------------------------------
QueryStep == avl_offset \/ emit \/ send_reply

Next ==
  \/ \E n \in Node, s \in Score : zset_insert(n, s) \/ zset_update(n, s)
  \/ \E n \in Node : zset_delete(n)
  \/ zset_clear
  \/ \E n \in Node, s \in Score, o \in Offset, l \in Limit : do_zquery(s, n, o, l)
  \/ avl_fix \/ avl_del_swap \/ update_reinsert \/ delete_done \/ insert_done
  \/ QueryStep

Spec == Init /\ [][Next]_vars

\* A query runs on the event-loop thread and is not interrupted.
FairSpec == Spec /\ WF_vars(QueryStep)

-----------------------------------------------------------------------------
(***************************************************************************)
(* Properties.                                                             *)
(***************************************************************************)
\* The nodes below n, and n.
Subtree(n) ==
  LET upto[k \in 0 .. Cardinality(Node)] ==
        IF k = 0 THEN {n} \ {None}
        ELSE LET S == upto[k - 1]
             IN  (S \cup UNION {{tree.left[m], tree.right[m]} : m \in S}) \ {None}
  IN  upto[Cardinality(Node)]

\* The length of the longest path down from n.
Depth(n) ==
  LET down[m \in Ptr] ==
        IF m = None THEN 0
        ELSE LET l == down[tree.left[m]]
                 r == down[tree.right[m]]
             IN  1 + IF l < r THEN r ELSE l
  IN  down[n]

Quiet == pc = "idle" /\ root # Freed

\* Between calls the tree holds exactly the nodes of the hash table, reached
\* over links that agree in both directions, in the order of (score, name):
\* otherwise ZSCORE and ZQUERY disagree, and zset_clear leaks or frees twice.
\* The root that zset_delete leaves dangling is that of an empty set.
TreeHoldsMembers ==
  /\ TypeOK
  /\ pc = "idle" /\ root = Freed => hmap = {}
  /\ Quiet =>
    /\ Subtree(root) = hmap
    /\ root # None => tree.parent[root] = None
    /\ \A n \in hmap : \A side \in {"left", "right"} :
         LET c == tree[side][n]
         IN  c # None =>
               /\ tree.parent[c] = n
               /\ tree[Opp(side)][n] # c
               /\ \A m \in Subtree(c) :
                    zless(score, m, score[n], n) <=> side = "left"

\* height and cnt of a node are those of the subtree below it.
AuxExact(n) == tree.cnt[n] = Cardinality(Subtree(n)) /\ tree.height[n] = Depth(n)

\* As long as no node was replaced by its successor, every height and count is
\* right and the tree is balanced, whatever rotations and one-child deletions
\* led to it: avl_offset navigates by the counts alone.
BalancedUntilSwap ==
  Quiet /\ ~swapped =>
    \A n \in hmap :
      /\ AuxExact(n)
      /\ avl_height(tree, tree.left[n]) - avl_height(tree, tree.right[n]) \in -1 .. 1

\* How many members come before the pair (s, n).
Rank(s, n) == Cardinality({m \in hmap : zless(score, m, s, n)})

\* ZQUERY answers with the members from the one `offset' places after the first
\* that is >= (score, name), in order, half as many as the limit at most.
QueryExact ==
  pc = "reply" /\ ~swapped =>
    LET base == Rank(q.score, q.name)
        first == base + q.offset
        room == (q.limit + 1) \div 2
        there == base < Cardinality(hmap) /\ first \in 0 .. Cardinality(hmap) - 1
    IN  /\ Len(reply) = IF ~there \/ q.limit <= 0 THEN 0
                        ELSE IF Cardinality(hmap) - first < room
                             THEN Cardinality(hmap) - first ELSE room
        /\ \A i \in DOMAIN reply : Rank(score[reply[i]], reply[i]) = first + i - 1

\* avl_offset on a tree with right counts reaches its target or runs out of
\* parents, whatever the offset: ZQUERY is answered.
QueriesEnd == (pc = "offset" /\ ~swapped) ~> pc = "idle"

\* avl_offset returns, on every tree that insertions and deletions can build.
OffsetEnds == pc = "offset" ~> pc = "reply"
=============================================================================
