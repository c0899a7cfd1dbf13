----------------------------- MODULE HMapProofs -----------------------------
(***************************************************************************)
(* Machine-checked proofs about HMap, for every set of nodes, every hash   *)
(* function and all values of the three constants of hashtable.cpp: the    *)
(* inductive invariant HMapInv, what it implies about KEYS, the bounds of  *)
(* the migration and the load factor, and that the table implements        *)
(* NodeSet.                                                                *)
(***************************************************************************)
EXTENDS HMap, TLAPS, FiniteSetTheorems

(* The operations on one table. *)

\* hcode & mask is a slot of the table.
LEMMA SlotInRange ==
  ASSUME NEW h, IsTab(h), h.slots > 0, NEW n \in Node
  PROVE  Slot(h, n) \in 0 .. h.slots - 1
<1>1. hcode[n] \in Nat /\ h.slots \in Nat
  BY HMapConstants DEF IsTab
<1> QED BY <1>1 DEF Slot

\* A node is in a table if and only if it is in one of its chains.
LEMMA InNodes ==
  ASSUME NEW h, IsTab(h), NEW n
  PROVE  n \in Nodes(h) <=> \E i \in 0 .. h.slots - 1 : n \in h.tab[i]
BY DEF Nodes

\* h_lookup searches the one chain the node can be in.
LEMMA LookupExact ==
  ASSUME NEW h, IsTab(h), TabInv(h), NEW n \in Node
  PROVE  h_lookup(h, n) <=> n \in Nodes(h)
<1>1. CASE h.slots > 0
  BY <1>1, SlotInRange, InNodes DEF h_lookup, TabInv
<1>2. CASE ~(h.slots > 0)
  BY <1>2, InNodes DEF h_lookup, IsTab
<1> QED BY <1>1, <1>2

\* A table of size 0 has no nodes, and the other way round.
LEMMA SizeZero ==
  ASSUME NEW h, IsTab(h), TabInv(h)
  PROVE  h.size = 0 <=> Nodes(h) = {}
BY FS_EmptySet DEF TabInv

\* A table without slots is empty.
LEMMA NoSlots ==
  ASSUME NEW h, IsTab(h), TabInv(h), h.slots = 0
  PROVE  h.size = 0 /\ Nodes(h) = {}
BY SizeZero, InNodes

\* A new table is in order and empty, and so is a null one.
LEMMA InitTab ==
  ASSUME NEW k \in Nat, k # 1
  PROVE  /\ IsTab(h_init(k)) /\ TabInv(h_init(k))
         /\ h_init(k).slots = k /\ h_init(k).size = 0
         /\ Nodes(h_init(k)) = {}
<1> DEFINE h == h_init(k)
<1>1. IsTab(h) /\ h.slots = k /\ h.size = 0
  BY DEF IsTab, h_init
<1>2. \A i \in 0 .. h.slots - 1 : h.tab[i] = {}
  BY DEF h_init
<1>3. Nodes(h) = {}
  BY <1>2 DEF Nodes
<1>4. TabInv(h)
  BY <1>1, <1>2, <1>3, FS_EmptySet DEF TabInv
<1> QED BY <1>1, <1>3, <1>4

\* A table that was not allocated.
LEMMA NoTabOK ==
  /\ IsTab(NoTab) /\ TabInv(NoTab)
  /\ NoTab.slots = 0 /\ NoTab.size = 0
  /\ Nodes(NoTab) = {}
<1>1. IsTab(NoTab) /\ NoTab.slots = 0 /\ NoTab.size = 0
  BY DEF IsTab, NoTab
<1>2. Nodes(NoTab) = {}
  BY <1>1 DEF Nodes
<1>3. TabInv(NoTab)
  BY <1>1, <1>2, FS_EmptySet DEF TabInv
<1> QED BY <1>1, <1>2, <1>3

\* h_insert adds the node to its chain and counts it.
LEMMA InsertTab ==
  ASSUME NEW h, IsTab(h), TabInv(h), h.slots > 0,
         NEW n \in Node, n \notin Nodes(h)
  PROVE  /\ IsTab(h_insert(h, n)) /\ TabInv(h_insert(h, n))
         /\ h_insert(h, n).slots = h.slots
         /\ h_insert(h, n).size = h.size + 1
         /\ Nodes(h_insert(h, n)) = Nodes(h) \cup {n}
<1> DEFINE g == h_insert(h, n)
           p == Slot(h, n)
<1>1. p \in 0 .. h.slots - 1
  BY SlotInRange
<1>2. /\ g.slots = h.slots /\ g.size = h.size + 1
      /\ g.tab = [h.tab EXCEPT ![p] = @ \cup {n}]
      /\ DOMAIN g = {"slots", "tab", "size"}
  BY DEF h_insert, IsTab
<1> HIDE DEF g, p
<1>3. \A i \in 0 .. h.slots - 1 :
        g.tab[i] = IF i = p THEN h.tab[i] \cup {n} ELSE h.tab[i]
  BY <1>2 DEF IsTab
<1>4. IsTab(g)
  BY <1>1, <1>2 DEF IsTab
<1>5. Nodes(g) = Nodes(h) \cup {n}
  <2>1. ASSUME NEW m PROVE m \in Nodes(g) <=> m \in Nodes(h) \/ m = n
    <3>1. m \in Nodes(g) <=> \E i \in 0 .. h.slots - 1 : m \in g.tab[i]
      BY <1>2, <1>4, InNodes
    <3>2. m \in Nodes(h) <=> \E i \in 0 .. h.slots - 1 : m \in h.tab[i]
      BY InNodes
    <3>3. (\E i \in 0 .. h.slots - 1 : m \in g.tab[i])
            <=> (\E i \in 0 .. h.slots - 1 : m \in h.tab[i]) \/ m = n
      BY <1>1, <1>3
    <3> QED BY <3>1, <3>2, <3>3
  <2> QED BY <2>1
<1>6. \A m \in Node : Slot(g, m) = Slot(h, m)
  BY <1>2 DEF Slot
<1>7. \A i \in 0 .. g.slots - 1 : \A m \in g.tab[i] : Slot(g, m) = i
  BY <1>2, <1>3, <1>6 DEF TabInv, IsTab, p
<1>8. IsFiniteSet(Nodes(g)) /\ g.size = Cardinality(Nodes(g))
  BY <1>2, <1>5, FS_AddElement DEF TabInv
<1>9. TabInv(g)
  BY <1>2, <1>7, <1>8 DEF TabInv
<1> QED BY <1>2, <1>4, <1>5, <1>9 DEF g

\* h_detach takes the node out of its chain and uncounts it.
LEMMA DetachTab ==
  ASSUME NEW h, IsTab(h), TabInv(h),
         NEW p \in 0 .. h.slots - 1, NEW n \in h.tab[p]
  PROVE  /\ IsTab(h_detach(h, p, n)) /\ TabInv(h_detach(h, p, n))
         /\ h_detach(h, p, n).slots = h.slots
         /\ h_detach(h, p, n).size = h.size - 1
         /\ Nodes(h_detach(h, p, n)) = Nodes(h) \ {n}
         /\ \A i \in 0 .. h.slots - 1 :
              h_detach(h, p, n).tab[i] \subseteq h.tab[i]
<1> DEFINE g == h_detach(h, p, n)
<1>1. /\ g.slots = h.slots /\ g.size = h.size - 1
      /\ g.tab = [h.tab EXCEPT ![p] = @ \ {n}]
      /\ DOMAIN g = {"slots", "tab", "size"}
  BY DEF h_detach, IsTab
<1> HIDE DEF g
<1>2. \A i \in 0 .. h.slots - 1 :
        g.tab[i] = IF i = p THEN h.tab[i] \ {n} ELSE h.tab[i]
  BY <1>1 DEF IsTab
<1>3. n \in Nodes(h)
  BY InNodes
<1>4. h.size > 0
  BY <1>3, SizeZero DEF IsTab
<1>5. IsTab(g)
  BY <1>1, <1>4 DEF IsTab
<1>6. Nodes(g) = Nodes(h) \ {n}
  <2>1. ASSUME NEW i \in 0 .. h.slots - 1, n \in h.tab[i] PROVE i = p
    BY <2>1 DEF TabInv
  <2> QED BY <1>1, <1>2, <2>1 DEF Nodes
<1>7. \A m \in Node : Slot(g, m) = Slot(h, m)
  BY <1>1 DEF Slot
<1>8. \A i \in 0 .. g.slots - 1 : \A m \in g.tab[i] : Slot(g, m) = i
  BY <1>1, <1>2, <1>7 DEF TabInv, IsTab
<1>9. IsFiniteSet(Nodes(g)) /\ g.size = Cardinality(Nodes(g))
  BY <1>1, <1>3, <1>6, FS_RemoveElement DEF TabInv
<1>10. TabInv(g)
  BY <1>1, <1>8, <1>9 DEF TabInv
<1> QED BY <1>1, <1>2, <1>5, <1>6, <1>10 DEF g
-----------------------------------------------------------------------------
(* The invariant. *)

\* The first table has room for two nodes, and doubling the slots doubles the
\* room.
LEMMA Capacity ==
  /\ k_init_slots * k_max_load_factor \in Nat
  /\ k_init_slots * k_max_load_factor > 1
  /\ \A s \in Nat : /\ s * k_max_load_factor \in Nat
                    /\ (s * 2) * k_max_load_factor = 2 * (s * k_max_load_factor)
<1>1. k_init_slots \in Nat /\ k_init_slots > 1 /\ k_max_load_factor \in Nat \ {0}
  BY HMapConstants
<1>2. k_init_slots * k_max_load_factor >= k_init_slots * 1
  BY <1>1
<1> QED BY <1>1, <1>2

\* The invariant holds for an empty HMap.
LEMMA InitHMapInv == Init => HMapInv
<1> SUFFICES ASSUME Init PROVE HMapInv
  OBVIOUS
<1>1. TypeOK
  BY NoTabOK, HMapConstants DEF Init, TypeOK
<1>2. TabInv(newer) /\ TabInv(older)
  BY NoTabOK DEF Init
<1>3. DrainInv /\ LoadInv
  BY NoTabOK DEF Init, DrainInv, LoadInv
<1> QED BY <1>1, <1>2, <1>3 DEF HMapInv

\* An insertion goes to the newer table, and starts a resize exactly when that
\* table is full and no resize is under way.
LEMMA InsertStep ==
  ASSUME HMapInv, NEW n \in Node, hm_insert(n)
  PROVE  /\ HMapInv'
         /\ Nodes(newer)' \cup Nodes(older)' = Nodes(newer) \cup Nodes(older) \cup {n}
<1> DEFINE base == IF newer.slots = 0 THEN h_init(k_init_slots) ELSE newer
           tab == h_insert(base, n)
           full == older.slots = 0 /\ tab.size >= tab.slots * k_max_load_factor
           L == k_max_load_factor
<1>1. /\ n \notin Nodes(newer) \cup Nodes(older)
      /\ pc = "idle" /\ pc' = "rehash" /\ op' = "insert" /\ key' = n /\ nwork' = 0
      /\ \/ full /\ hm_trigger_rehashing(tab)
         \/ ~full /\ newer' = tab /\ UNCHANGED <<older, migrate_pos>>
      /\ answer' = None
  BY DEF hm_insert, Begin
<1>2. /\ IsTab(newer) /\ TabInv(newer) /\ IsTab(older) /\ TabInv(older)
      /\ newer.slots \in Nat /\ newer.size \in Nat
      /\ older.slots \in Nat /\ older.size \in Nat /\ L \in Nat
  BY HMapConstants DEF HMapInv, TypeOK, IsTab
<1>3. /\ IsTab(base) /\ TabInv(base) /\ base.slots > 0 /\ base.slots \in Nat
      /\ base.size = newer.size /\ Nodes(base) = Nodes(newer)
  <2>1. CASE newer.slots = 0
    <3>1. k_init_slots \in Nat /\ k_init_slots > 1 /\ k_init_slots # 1
      BY HMapConstants
    <3>2. newer.size = 0 /\ Nodes(newer) = {}
      BY <1>2, <2>1, NoSlots
    <3>3. base = h_init(k_init_slots)
      BY <2>1
    <3> HIDE DEF base
    <3> QED BY <3>1, <3>2, <3>3, InitTab
  <2>2. CASE newer.slots # 0
    BY <1>2, <2>2
  <2> QED BY <2>1, <2>2
<1>4. /\ older.size = 0 => base.size < base.slots * L
      /\ older.slots > 0 /\ older.size = 0 => base.size + 2 < base.slots * L
      /\ older.size > 0 => base.size + 2 * older.size < base.slots * L
  <2>1. CASE newer.slots = 0
    BY <1>2, <1>3, <2>1, InitTab, NoSlots, Capacity, HMapConstants DEF HMapInv, DrainInv
  <2>2. CASE newer.slots # 0
    BY <1>1, <1>2, <2>2 DEF HMapInv, LoadInv
  <2> QED BY <2>1, <2>2
<1> HIDE DEF base
<1>5. /\ IsTab(tab) /\ TabInv(tab) /\ tab.slots = base.slots
      /\ tab.size = newer.size + 1 /\ tab.size \in Nat
      /\ Nodes(tab) = Nodes(newer) \cup {n}
  BY <1>1, <1>2, <1>3, InsertTab
<1>6. base.slots * L \in Nat /\ (base.slots * 2) * L = 2 * (base.slots * L)
  BY <1>3, Capacity
<1> HIDE DEF tab
<1>7. CASE full
  <2>1. /\ older' = tab /\ newer' = h_init(base.slots * 2) /\ migrate_pos' = 0
    BY <1>1, <1>5, <1>7 DEF hm_trigger_rehashing
  <2>2. base.slots * 2 \in Nat /\ base.slots * 2 # 1
    BY <1>3
  <2>3. /\ IsTab(newer') /\ TabInv(newer') /\ Nodes(newer') = {}
        /\ newer'.slots = base.slots * 2 /\ newer'.size = 0
    BY <2>1, <2>2, InitTab
  <2>4. older.size = 0 /\ Nodes(older) = {}
    BY <1>2, <1>7, NoSlots
  <2>5. tab.size = base.slots * L
    BY <1>2, <1>3, <1>4, <1>5, <1>6, <1>7, <2>4
  <2>6. TypeOK'
    BY <1>1, <1>5, <2>1, <2>3, HMapConstants DEF HMapInv, TypeOK
  <2>7. DrainInv'
    BY <1>3, <1>5, <2>1, <2>3 DEF DrainInv, IsTab
  <2>8. LoadInv'
    <3>1. /\ older'.size > 0 /\ older'.size \in Nat
          /\ 2 * older'.size = newer'.slots * L
      BY <1>2, <1>5, <1>6, <2>1, <2>3, <2>5
    <3> QED BY <1>1, <2>3, <3>1 DEF LoadInv
  <2> QED BY <1>5, <2>1, <2>3, <2>4, <2>6, <2>7, <2>8 DEF HMapInv
<1>8. CASE ~full
  <2>1. newer' = tab /\ UNCHANGED <<older, migrate_pos>>
    BY <1>1, <1>8
  <2>2. TypeOK'
    BY <1>1, <1>5, <2>1, HMapConstants DEF HMapInv, TypeOK
  <2>3. DrainInv'
    BY <1>1, <1>3, <1>5, <2>1 DEF HMapInv, DrainInv
  <2>4. LoadInv'
    <3>1. newer'.slots = base.slots /\ newer'.size = newer.size + 1
      BY <1>5, <2>1
    <3>2. older.size = 0 => newer.size + 1 < base.slots * L
      <4>1. CASE older.slots = 0
        BY <4>1, <1>2, <1>5, <1>6, <1>8
      <4>2. CASE older.slots # 0
        BY <4>2, <1>2, <1>3, <1>4, <1>6
      <4> QED BY <4>1, <4>2
    <3>3. older.size > 0 => newer.size + 1 + 2 * older.size <= base.slots * L
      BY <1>2, <1>3, <1>4, <1>6
    <3> QED BY <1>1, <1>2, <2>1, <3>1, <3>2, <3>3 DEF LoadInv
  <2> QED BY <1>2, <1>5, <2>1, <2>2, <2>3, <2>4 DEF HMapInv
<1> QED BY <1>7, <1>8

\* A lookup or a deletion begins.
LEMMA BeginStep ==
  ASSUME HMapInv, NEW n \in Node, hm_lookup(n) \/ hm_delete(n)
  PROVE  HMapInv'
<1> USE DEF hm_lookup, hm_delete, Begin
<1>1. TypeOK'
  BY HMapConstants DEF HMapInv, TypeOK
<1>2. TabInv(newer)' /\ TabInv(older)'
  BY DEF HMapInv
<1>3. DrainInv'
  BY DEF HMapInv, DrainInv
<1>4. LoadInv'
  BY DEF HMapInv, LoadInv
<1> QED BY <1>1, <1>2, <1>3, <1>4 DEF HMapInv

\* hm_clear frees both tables.
LEMMA ClearStep ==
  ASSUME HMapInv, hm_clear
  PROVE  HMapInv' /\ Nodes(newer)' \cup Nodes(older)' = {}
<1> USE DEF hm_clear
<1>1. TypeOK'
  BY NoTabOK DEF HMapInv, TypeOK
<1>2. TabInv(newer)' /\ TabInv(older)'
  BY NoTabOK
<1>3. DrainInv' /\ LoadInv'
  BY NoTabOK DEF DrainInv, LoadInv
<1>4. Nodes(newer)' \cup Nodes(older)' = {}
  BY NoTabOK
<1> QED BY <1>1, <1>2, <1>3, <1>4 DEF HMapInv
\* As long as there is something to move, the next chain to look at is one of
\* the older table: the chains before it are empty.
LEMMA WorkInBounds ==
  ASSUME HMapInv, older.size > 0
  PROVE  migrate_pos \in 0 .. older.slots - 1
<1>1. IsTab(older) /\ TabInv(older) /\ migrate_pos \in Nat
  BY DEF HMapInv, TypeOK
<1>2. Nodes(older) # {}
  BY <1>1, SizeZero
<1>3. PICK i \in 0 .. older.slots - 1 : older.tab[i] # {}
  BY <1>1, <1>2, InNodes
<1>4. ~(i < migrate_pos)
  BY <1>3 DEF HMapInv, DrainInv
<1>5. older.slots \in Nat
  BY <1>1 DEF IsTab
<1> QED BY <1>1, <1>4, <1>5

\* The migration passes an empty slot.
LEMMA SkipStep ==
  ASSUME HMapInv, rehash_skip
  PROVE  HMapInv'
<1> USE DEF rehash_skip
<1>1. TypeOK'
  BY DEF HMapInv, TypeOK
<1>2. TabInv(newer)' /\ TabInv(older)'
  BY DEF HMapInv
<1>3. DrainInv'
  <2>1. ASSUME NEW i \in 0 .. older.slots - 1, i < migrate_pos + 1
        PROVE  i < migrate_pos \/ i = migrate_pos
    BY <2>1 DEF HMapInv, TypeOK
  <2> QED BY <2>1 DEF HMapInv, DrainInv
<1>4. LoadInv'
  BY DEF HMapInv, LoadInv
<1> QED BY <1>1, <1>2, <1>3, <1>4 DEF HMapInv

\* A node moves: it is in one table before and after, and the newer table has
\* the room that was kept for it.
LEMMA MoveStep ==
  ASSUME HMapInv, rehash_move
  PROVE  /\ HMapInv'
         /\ Nodes(newer)' \cup Nodes(older)' = Nodes(newer) \cup Nodes(older)
<1>1. /\ IsTab(newer) /\ TabInv(newer) /\ IsTab(older) /\ TabInv(older)
      /\ newer.slots \in Nat /\ newer.size \in Nat
      /\ older.slots \in Nat /\ older.size \in Nat
      /\ older.tab \in [0 .. older.slots - 1 -> SUBSET Node]
  BY DEF HMapInv, TypeOK, IsTab
<1>2. pc = "rehash" /\ nwork < k_rehasing_work /\ older.size > 0
  BY DEF rehash_move, Working
<1>3. PICK n \in older.tab[migrate_pos] :
        /\ older' = h_detach(older, migrate_pos, n)
        /\ newer' = h_insert(newer, n)
  BY DEF rehash_move
<1>4. /\ nwork' = nwork + 1
      /\ UNCHANGED <<migrate_pos, pc, op, key, answer>>
  BY DEF rehash_move
<1>5. migrate_pos \in 0 .. older.slots - 1
  BY <1>2, WorkInBounds
<1>6. n \in Node /\ n \in Nodes(older) /\ n \notin Nodes(newer)
  BY <1>1, <1>3, <1>5, InNodes DEF HMapInv, DrainInv
<1>7. newer.slots > 0
  BY <1>1, <1>5 DEF HMapInv, DrainInv
<1>8. /\ IsTab(newer') /\ TabInv(newer') /\ newer'.slots = newer.slots
      /\ newer'.size = newer.size + 1 /\ Nodes(newer') = Nodes(newer) \cup {n}
  BY <1>1, <1>3, <1>6, <1>7, InsertTab
<1>9. /\ IsTab(older') /\ TabInv(older') /\ older'.slots = older.slots
      /\ older'.size = older.size - 1 /\ Nodes(older') = Nodes(older) \ {n}
      /\ \A i \in 0 .. older.slots - 1 : older'.tab[i] \subseteq older.tab[i]
  BY <1>1, <1>3, <1>5, DetachTab
<1>10. TypeOK'
  BY <1>2, <1>4, <1>8, <1>9, HMapConstants DEF HMapInv, TypeOK
<1>11. DrainInv'
  BY <1>4, <1>6, <1>8, <1>9 DEF HMapInv, DrainInv
<1>12. LoadInv'
  <2> DEFINE cap == newer.slots * k_max_load_factor
  <2>1. cap \in Nat
    BY <1>1, Capacity
  <2>2. newer.size + 2 * older.size <= cap
    BY <1>2, <1>7 DEF HMapInv, LoadInv
  <2>3. /\ newer'.size + 2 * older'.size < cap
        /\ older'.size = 0 => newer'.size < cap
    BY <1>1, <1>2, <1>8, <1>9, <2>1, <2>2
  <2> QED BY <1>1, <1>2, <1>4, <1>8, <1>9, <2>1, <2>3 DEF LoadInv
<1> QED BY <1>6, <1>8, <1>9, <1>10, <1>11, <1>12 DEF HMapInv

\* Freeing the older table loses nothing, as it is empty then.
LEMMA OlderLeft ==
  ASSUME HMapInv
  PROVE  /\ IsTab(older_left) /\ TabInv(older_left)
         /\ older_left.size = older.size /\ Nodes(older_left) = Nodes(older)
         /\ older_left.slots > 0 => older_left = older /\ older.size > 0
<1>1. IsTab(older) /\ TabInv(older) /\ older.size \in Nat
  BY DEF HMapInv, TypeOK, IsTab
<1>2. CASE older.size = 0
  <2>1. older_left = NoTab
    BY <1>2 DEF older_left
  <2>2. Nodes(older) = {}
    BY <1>1, <1>2, SizeZero
  <2> QED BY <1>2, <2>1, <2>2, NoTabOK
<1>3. CASE older.size # 0
  <2>1. older_left = older
    BY <1>3 DEF older_left
  <2> QED BY <1>1, <1>3, <2>1
<1> QED BY <1>2, <1>3

\* The room in the newer table when the loop of hm_help_rehashing is left: it
\* has moved a node, as the bound on the work is not 0, or nothing was left.
LEMMA LoadAfterLoop ==
  ASSUME HMapInv, pc = "rehash", ~Working, newer.slots > 0
  PROVE  LET cap == newer.slots * k_max_load_factor
         IN  /\ cap \in Nat
             /\ newer.size < cap
             /\ older.size > 0 => /\ newer.size + 2 * older.size < cap
                                  /\ newer.size + 2 < cap
<1> DEFINE cap == newer.slots * k_max_load_factor
<1>1. /\ newer.slots \in Nat /\ newer.size \in Nat /\ older.size \in Nat
      /\ nwork \in Nat
  BY HMapConstants DEF HMapInv, TypeOK, IsTab
<1>2. cap \in Nat
  BY <1>1, Capacity
<1>3. older.size > 0 => nwork # 0
  BY <1>1, HMapConstants DEF Working
<1>4. /\ older.size = 0 => newer.size < cap
      /\ older.size > 0 => newer.size + 2 * older.size < cap
  BY <1>3 DEF HMapInv, LoadInv
<1> HIDE DEF cap
<1>5. newer.size < cap /\ (older.size > 0 => newer.size + 2 < cap)
  BY <1>1, <1>2, <1>4
<1> QED BY <1>2, <1>4, <1>5 DEF cap

\* The operation ends: a deletion removes its node from the table it is in, and
\* a lookup or a deletion answers with what was in the two tables.
LEMMA FinishStep ==
  ASSUME HMapInv, finish
  PROVE  /\ HMapInv'
         /\ op = "insert" =>
              /\ answer' = answer
              /\ Nodes(newer)' \cup Nodes(older)' = Nodes(newer) \cup Nodes(older)
         /\ op = "lookup" =>
              /\ answer' = IF key \in Nodes(newer) \cup Nodes(older) THEN key ELSE None
              /\ Nodes(newer)' \cup Nodes(older)' = Nodes(newer) \cup Nodes(older)
         /\ op = "delete" =>
              /\ answer' = IF key \in Nodes(newer) \cup Nodes(older) THEN key ELSE None
              /\ Nodes(newer)' \cup Nodes(older)'
                   = (Nodes(newer) \cup Nodes(older)) \ {key}
<1>1. /\ IsTab(newer) /\ TabInv(newer) /\ IsTab(older) /\ TabInv(older)
      /\ newer.slots \in Nat /\ newer.size \in Nat /\ older.size \in Nat
      /\ migrate_pos \in Nat
      /\ Nodes(newer) \cap Nodes(older) = {}
  BY DEF HMapInv, TypeOK, IsTab, DrainInv
<1>2. /\ pc = "rehash" /\ ~Working /\ pc' = "idle"
      /\ UNCHANGED <<migrate_pos, op, key, nwork>>
      /\ key \in Node
  BY DEF finish, HMapInv, TypeOK
<1> DEFINE left == older_left
           cap == newer.slots * k_max_load_factor
<1>3. /\ IsTab(left) /\ TabInv(left)
      /\ left.size = older.size /\ Nodes(left) = Nodes(older)
      /\ left.slots > 0 => left = older /\ older.size > 0
  BY OlderLeft
<1>4. /\ h_lookup(newer, key) <=> key \in Nodes(newer)
      /\ h_lookup(left, key) <=> key \in Nodes(older)
  BY <1>1, <1>2, <1>3, LookupExact
<1>5. left.slots > 0 => /\ newer.slots > 0
                        /\ \A i \in 0 .. left.slots - 1 : i < migrate_pos => left.tab[i] = {}
  BY <1>3 DEF HMapInv, DrainInv
<1>6. newer.slots > 0 => /\ cap \in Nat
                         /\ newer.size < cap
                         /\ older.size > 0 => /\ newer.size + 2 * older.size < cap
                                              /\ newer.size + 2 < cap
  BY <1>2, LoadAfterLoop
<1> HIDE DEF left, cap
<1>7. \/ newer' = newer /\ older' = left
      \/ /\ op = "delete" /\ key \in Nodes(newer)
         /\ newer' = h_detach(newer, Slot(newer, key), key) /\ older' = left
      \/ /\ op = "delete" /\ key \in Nodes(older)
         /\ newer' = newer /\ older' = h_detach(left, Slot(left, key), key)
  BY <1>4 DEF finish, left
<1>8. /\ op = "insert" => UNCHANGED newer /\ older' = left /\ answer' = answer
      /\ op = "lookup" =>
           /\ UNCHANGED newer /\ older' = left
           /\ answer' = IF key \in Nodes(newer) \cup Nodes(older) THEN key ELSE None
      /\ op = "delete" =>
           /\ answer' = IF key \in Nodes(newer) \cup Nodes(older) THEN key ELSE None
           /\ newer' = newer /\ older' = left => key \notin Nodes(newer) \cup Nodes(older)
  <2>1. CASE op = "insert"
    BY <2>1 DEF finish, left
  <2>2. CASE op = "lookup"
    BY <2>2, <1>4 DEF finish, left
  <2>3. CASE op = "delete"
    <3>1. CASE key \in Nodes(newer)
      <4>1. newer' = h_detach(newer, Slot(newer, key), key) /\ answer' = key
        BY <2>3, <3>1, <1>4 DEF finish
      <4>2. newer' # newer
        BY <4>1, <1>1, <3>1, InNodes, DetachTab DEF TabInv
      <4> QED BY <2>3, <3>1, <4>1, <4>2
    <3>2. CASE key \notin Nodes(newer) /\ key \in Nodes(older)
      <4>1. older' = h_detach(left, Slot(left, key), key) /\ answer' = key
        BY <2>3, <3>2, <1>4 DEF finish, left
      <4>2. Slot(left, key) \in 0 .. left.slots - 1 /\ key \in left.tab[Slot(left, key)]
        BY <1>3, <3>2, InNodes DEF TabInv
      <4>3. Nodes(older') = Nodes(left) \ {key}
        BY <4>1, <4>2, <1>3, DetachTab
      <4>4. older' # left
        BY <4>3, <1>3, <3>2
      <4> QED BY <2>3, <3>2, <4>1, <4>4
    <3>3. CASE key \notin Nodes(newer) /\ key \notin Nodes(older)
      BY <2>3, <3>3, <1>4 DEF finish, left
    <3> QED BY <3>1, <3>2, <3>3
  <2> QED BY <2>1, <2>2, <2>3
<1>9. answer' \in Node \cup {None} /\ op \in {"insert", "lookup", "delete"}
  BY <1>2, <1>8 DEF HMapInv, TypeOK
<1>10. CASE newer' = newer /\ older' = left
  <2>1. TypeOK'
    BY <1>1, <1>2, <1>3, <1>9, <1>10 DEF HMapInv, TypeOK
  <2>2. DrainInv'
    BY <1>1, <1>2, <1>3, <1>5, <1>10 DEF DrainInv, IsTab
  <2>3. LoadInv'
    BY <1>1, <1>2, <1>3, <1>6, <1>10 DEF LoadInv, cap
  <2> QED BY <1>1, <1>3, <1>8, <1>10, <2>1, <2>2, <2>3 DEF HMapInv
<1>11. CASE /\ op = "delete" /\ key \in Nodes(newer)
            /\ newer' = h_detach(newer, Slot(newer, key), key) /\ older' = left
  <2>1. Slot(newer, key) \in 0 .. newer.slots - 1 /\ key \in newer.tab[Slot(newer, key)]
    BY <1>1, <1>11, InNodes DEF TabInv
  <2>2. /\ IsTab(newer') /\ TabInv(newer') /\ newer'.slots = newer.slots
        /\ newer'.size = newer.size - 1 /\ Nodes(newer') = Nodes(newer) \ {key}
    BY <1>1, <1>11, <2>1, DetachTab
  <2>3. TypeOK'
    BY <1>1, <1>2, <1>3, <1>9, <1>11, <2>2 DEF HMapInv, TypeOK
  <2>4. DrainInv'
    BY <1>1, <1>2, <1>3, <1>5, <1>11, <2>2 DEF DrainInv, IsTab
  <2>5. LoadInv'
    BY <1>1, <1>2, <1>3, <1>6, <1>11, <2>2 DEF LoadInv, cap
  <2> QED BY <1>1, <1>3, <1>8, <1>11, <2>2, <2>3, <2>4, <2>5 DEF HMapInv
<1>12. CASE /\ op = "delete" /\ key \in Nodes(older)
            /\ newer' = newer /\ older' = h_detach(left, Slot(left, key), key)
  <2>1. Slot(left, key) \in 0 .. left.slots - 1 /\ key \in left.tab[Slot(left, key)]
    BY <1>3, <1>12, InNodes DEF TabInv
  <2>2. /\ IsTab(older') /\ TabInv(older') /\ older'.slots = left.slots
        /\ older'.size = left.size - 1 /\ Nodes(older') = Nodes(older) \ {key}
        /\ \A i \in 0 .. left.slots - 1 : older'.tab[i] \subseteq left.tab[i]
    BY <1>3, <1>12, <2>1, DetachTab
  <2>3. left.slots > 0 /\ left = older /\ older.size > 0 /\ newer.slots > 0
    BY <1>3, <1>5, <2>1 DEF IsTab
  <2>4. TypeOK'
    BY <1>1, <1>2, <1>9, <1>12, <2>2 DEF HMapInv, TypeOK
  <2>5. DrainInv'
    BY <1>1, <1>2, <1>5, <1>12, <2>2, <2>3 DEF DrainInv
  <2>6. LoadInv'
    BY <1>1, <1>2, <1>3, <1>6, <1>12, <2>2, <2>3 DEF LoadInv, cap
  <2> QED BY <1>1, <1>8, <1>12, <2>2, <2>4, <2>5, <2>6 DEF HMapInv
<1> QED BY <1>7, <1>10, <1>11, <1>12
-----------------------------------------------------------------------------
\* HMapInv holds in every reachable state.
THEOREM HMapInvariant == Spec => []HMapInv
<1>1. HMapInv /\ [Next]_vars => HMapInv'
  <2> SUFFICES ASSUME HMapInv, [Next]_vars PROVE HMapInv'
    OBVIOUS
  <2>1. ASSUME NEW n \in Node, hm_insert(n) \/ hm_lookup(n) \/ hm_delete(n)
        PROVE  HMapInv'
    BY <2>1, InsertStep, BeginStep
  <2>2. CASE hm_clear
    BY <2>2, ClearStep
  <2>3. CASE rehash_skip \/ rehash_move \/ finish
    BY <2>3, SkipStep, MoveStep, FinishStep
  <2>4. CASE UNCHANGED vars
    BY <2>4 DEF vars, HMapInv, TypeOK, DrainInv, LoadInv
  <2> QED BY <2>1, <2>2, <2>3, <2>4 DEF Next
<1> QED BY InitHMapInv, <1>1, PTL DEF Spec

\* KEYS announces as many elements as it sends, in every state of a resize and
\* for every hash function.
THEOREM KeysReplyAlwaysComplete == Spec => []KeysReplyComplete
<1>1. HMapInv => KeysReplyComplete
  <2> SUFFICES ASSUME HMapInv PROVE KeysReplyComplete
    OBVIOUS
  <2>1. /\ IsTab(newer) /\ TabInv(newer) /\ IsTab(older) /\ TabInv(older)
        /\ Nodes(newer) \cap Nodes(older) = {}
    BY DEF HMapInv, TypeOK, DrainInv
  <2>2. ASSUME NEW h, IsTab(h), TabInv(h) PROVE h_foreach(h) = Nodes(h)
    <3>1. CASE h.slots > 1
      BY <3>1 DEF h_foreach
    <3>2. CASE h.slots = 0
      BY <2>2, <3>2, NoSlots DEF h_foreach
    <3> QED BY <2>2, <3>1, <3>2 DEF TabInv, IsTab
  <2>3. hm_foreach = Nodes(newer) \cup Nodes(older)
    BY <2>1, <2>2 DEF hm_foreach
  <2>4. Cardinality(Nodes(newer) \cup Nodes(older)) =
          Cardinality(Nodes(newer)) + Cardinality(Nodes(older))
                                    - Cardinality(Nodes(newer) \cap Nodes(older))
    BY <2>1, FS_Union DEF TabInv
  <2>5. Cardinality(Nodes(newer) \cap Nodes(older)) = 0
    BY <2>1, FS_EmptySet
  <2>6. newer.size \in Nat /\ older.size \in Nat
    BY <2>1 DEF IsTab
  <2> QED BY <2>1, <2>3, <2>4, <2>5, <2>6 DEF KeysReplyComplete, hm_size, TabInv
<1> QED BY <1>1, HMapInvariant, PTL

\* older.tab[migrate_pos] is read within the table.
THEOREM MigrationInBounds == Spec => []MigrateInBounds
<1>1. HMapInv => MigrateInBounds
  <2> SUFFICES ASSUME HMapInv, Working PROVE migrate_pos < older.slots
    BY DEF MigrateInBounds
  <2>1. migrate_pos \in 0 .. older.slots - 1
    BY WorkInBounds DEF Working
  <2>2. older.slots \in Nat
    BY DEF HMapInv, TypeOK, IsTab
  <2> QED BY <2>1, <2>2
<1> QED BY <1>1, HMapInvariant, PTL

\* A resize ends before the next one is due: one moved node per operation is
\* enough, whatever the load factor and the amount of work per operation.
THEOREM LoadStaysBounded == Spec => []LoadBounded
<1>1. HMapInv => LoadBounded
  <2> SUFFICES ASSUME HMapInv, pc = "idle", newer.slots > 0
               PROVE  newer.size < newer.slots * k_max_load_factor
    BY DEF LoadBounded
  <2> DEFINE cap == newer.slots * k_max_load_factor
  <2>1. newer.slots \in Nat /\ newer.size \in Nat /\ older.size \in Nat
    BY DEF HMapInv, TypeOK, IsTab
  <2>2. cap \in Nat
    BY <2>1, Capacity
  <2>3. /\ older.size = 0 => newer.size < cap
        /\ older.size > 0 => newer.size + 2 * older.size <= cap
    BY DEF HMapInv, LoadInv
  <2> HIDE DEF cap
  <2>4. newer.size < cap
    BY <2>1, <2>2, <2>3
  <2> QED BY <2>4 DEF cap
<1> QED BY <1>1, HMapInvariant, PTL

\* The table with its progressive resize implements a set of nodes.
THEOREM HMapImplementsSet == Spec => ImplementsSet
<1>1. Init => Set!Init
  BY NoTabOK DEF Init, Set!Init
<1>2. HMapInv /\ [Next]_vars => [Set!Next]_(Set!vars)
  <2> SUFFICES ASSUME HMapInv, [Next]_vars
               PROVE  Set!Next \/ UNCHANGED Set!vars
    OBVIOUS
  <2> USE DEF Set!vars
  <2>1. ASSUME NEW n \in Node, hm_insert(n) PROVE Set!Next
    <3>1. /\ n \notin Nodes(newer) \cup Nodes(older) /\ answer' = None
      BY <2>1 DEF hm_insert
    <3>2. Set!Insert(n)
      BY <2>1, <3>1, InsertStep DEF Set!Insert
    <3> QED BY <3>2 DEF Set!Next
  <2>2. ASSUME NEW n \in Node, hm_lookup(n) \/ hm_delete(n)
        PROVE  UNCHANGED Set!vars
    BY <2>2 DEF hm_lookup, hm_delete
  <2>3. CASE hm_clear
    BY <2>3, ClearStep DEF hm_clear, Set!Next, Set!Clear
  <2>4. CASE rehash_skip
    BY <2>4 DEF rehash_skip
  <2>5. CASE rehash_move
    BY <2>5, MoveStep DEF rehash_move
  <2>6. CASE finish
    <3>1. op \in {"insert", "lookup", "delete"} /\ key \in Node
      BY <2>6 DEF HMapInv, TypeOK, finish
    <3>2. PICK n \in Node : n = key
      BY <3>1
    <3>3. CASE op = "insert"
      BY <2>6, <3>3, FinishStep
    <3>4. CASE op = "lookup"
      <4>1. Set!Lookup(n)
        BY <2>6, <3>2, <3>4, FinishStep DEF Set!Lookup, Set!Found
      <4> QED BY <4>1 DEF Set!Next
    <3>5. CASE op = "delete"
      <4>1. Set!Delete(n)
        BY <2>6, <3>2, <3>5, FinishStep DEF Set!Delete, Set!Found
      <4> QED BY <4>1 DEF Set!Next
    <3> QED BY <3>1, <3>3, <3>4, <3>5
  <2>7. CASE UNCHANGED vars
    BY <2>7 DEF vars
  <2> QED BY <2>1, <2>2, <2>3, <2>4, <2>5, <2>6, <2>7 DEF Next
<1> QED BY <1>1, <1>2, HMapInvariant, PTL DEF Spec, ImplementsSet, Set!Spec
=============================================================================
