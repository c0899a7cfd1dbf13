---------------------------- MODULE TtlHeapProofs ----------------------------
(***************************************************************************)
(* Machine-checked proofs about TtlHeap, for every set of entries and      *)
(* every set of deadlines: the inductive invariant HeapInv, and what       *)
(* follows from it: type correctness, RefsExact and RootIsMin.             *)
(***************************************************************************)
EXTENDS TtlHeap, TLAPS, WellFoundedInduction

\* Every non-empty set of natural numbers has a least element.
LEMMA LeastNat ==
  ASSUME NEW S \in SUBSET Nat, S # {}
  PROVE  \E m \in S : \A k \in S : m <= k
<1>1. PICK m \in S : \A k \in S : ~(<<k, m>> \in OpToRel(<, Nat))
  BY NatLessThanWellFounded, WFMin, Zenon
<1>2. ASSUME NEW k \in S PROVE m <= k
  <2>1. ~(<<k, m>> \in OpToRel(<, Nat))
    BY <1>1, Zenon
  <2>2. ~(k < m)
    BY <2>1 DEF OpToRel
  <2> QED
    BY <2>2
<1> QED
  BY <1>2

\* The index arithmetic of heap.cpp: the parent of a slot lies before it, and
\* heap_left and heap_right are the two slots whose parent is the given one.
LEMMA ParentOf ==
  ASSUME NEW i \in Nat, i > 0
  PROVE  /\ heap_parent(i) \in Nat
         /\ heap_parent(i) < i
         /\ i = heap_left(heap_parent(i)) \/ i = heap_right(heap_parent(i))
BY DEF heap_parent, heap_left, heap_right

\* The children of a slot lie behind it and have it as their parent.
LEMMA ChildrenOf ==
  ASSUME NEW i \in Nat
  PROVE  /\ heap_left(i) \in Nat /\ heap_right(i) \in Nat
         /\ heap_left(i) > i /\ heap_right(i) > i
         /\ heap_parent(heap_left(i)) = i
         /\ heap_parent(heap_right(i)) = i
BY DEF heap_parent, heap_left, heap_right

-----------------------------------------------------------------------------
\* In a heap that is ordered between every slot and its parent, the root is
\* the least item: the least slot that is smaller than the root would have a
\* parent that is smaller too.
LEMMA OrderedRootIsMin ==
  ASSUME NEW n \in Nat, NEW v \in [0 .. n - 1 -> Nat],
         \A i \in 0 .. n - 1 : i > 0 => v[heap_parent(i)] <= v[i]
  PROVE  \A i \in 0 .. n - 1 : v[0] <= v[i]
<1> DEFINE Bad == {i \in 0 .. n - 1 : ~(v[0] <= v[i])}
<1> SUFFICES ASSUME Bad # {} PROVE FALSE
  OBVIOUS
<1>1. Bad \in SUBSET Nat
  OBVIOUS
<1>2. PICK m \in Bad : \A k \in Bad : m <= k
  <2> HIDE DEF Bad
  <2> QED BY <1>1, LeastNat
<1>3. m \in 0 .. n - 1 /\ m # 0 /\ 0 \in 0 .. n - 1
  OBVIOUS
<1>4. heap_parent(m) \in 0 .. n - 1 /\ heap_parent(m) < m
  BY <1>3, ParentOf
<1>5. v[heap_parent(m)] <= v[m]
  BY <1>3
<1>6. v[heap_parent(m)] \in Nat /\ v[m] \in Nat /\ v[0] \in Nat
  BY <1>3, <1>4
<1>7. heap_parent(m) \in Bad
  BY <1>4, <1>5, <1>6
<1> QED
  BY <1>2, <1>4, <1>7

-----------------------------------------------------------------------------
\* The initial state satisfies the invariant.
LEMMA InitHeapInv == Init => HeapInv
BY HeapConstants DEF Init, HeapInv, TypeOK, RefInv, OrderInv, Settled, Held,
   Slots, NoIdx, HeapItem

\* heap_update, called on an ordered heap of which only slot p has changed,
\* chooses the loop that can restore the order.
LEMMA OpenHoleOrder ==
  ASSUME HeapInv, pc = "idle", NEW n \in Nat, NEW p \in 0 .. n - 1,
         NEW a \in [0 .. n - 1 -> HeapItem],
         \A i \in 0 .. n - 1 : i # p => i \in 0 .. len - 1 /\ a[i] = heap[i],
         heap_update(a, p, n)
  PROVE  OrderInv'
<1> USE HeapConstants
<1>1. /\ heap' = a /\ len' = n /\ pos' = p /\ t' = a[p]
      /\ pc' = IF p > 0 /\ a[heap_parent(p)].val > a[p].val
               THEN "heap_up" ELSE "heap_down"
  BY DEF heap_update
<1>2. len \in Nat /\ heap \in [0 .. len - 1 -> HeapItem]
  BY DEF HeapInv, TypeOK, Slots
<1>3. \A i \in 0 .. len - 1 : i > 0 => heap[heap_parent(i)].val <= heap[i].val
  BY <1>2, ParentOf DEF HeapInv, OrderInv, Settled, Slots
<1>4. /\ \A i \in 0 .. len - 1 : heap[i].val \in Nat
      /\ \A i \in 0 .. n - 1 : a[i].val \in Nat
  BY <1>2 DEF HeapItem
<1>5. ASSUME NEW i \in 0 .. n - 1, i > 0, i # p, heap_parent(i) # p
      PROVE a[heap_parent(i)].val <= a[i].val
  <2>1. heap_parent(i) \in 0 .. n - 1
    BY <1>5, ParentOf
  <2>2. /\ i \in 0 .. len - 1 /\ a[i] = heap[i]
        /\ a[heap_parent(i)] = heap[heap_parent(i)]
    BY <1>5, <2>1
  <2> QED BY <1>3, <1>5, <2>2
<1>6. ASSUME NEW i \in 0 .. n - 1, i > 0, heap_parent(i) = p
      PROVE /\ p > 0 => a[heap_parent(p)].val <= a[i].val
            /\ p > 0 /\ a[heap_parent(p)].val > a[p].val => a[p].val <= a[i].val
  <2>1. i # p /\ i \in 0 .. len - 1 /\ a[i] = heap[i] /\ p \in 0 .. len - 1
    BY <1>6, <1>2, ParentOf
  <2>2. heap[p].val <= heap[i].val
    BY <1>3, <1>6, <2>1
  <2>3. CASE p > 0
    <3>1. /\ heap_parent(p) \in 0 .. n - 1 /\ heap_parent(p) # p
          /\ heap_parent(p) \in 0 .. len - 1
      BY <2>1, <2>3, <1>2, ParentOf
    <3>2. a[heap_parent(p)] = heap[heap_parent(p)]
      BY <3>1
    <3>3. heap[heap_parent(p)].val <= heap[p].val
      BY <1>3, <2>1, <2>3
    <3> QED BY <2>1, <2>2, <3>1, <3>2, <3>3, <1>4
  <2> QED BY <2>3
<1>7. p > 0 /\ ~(a[heap_parent(p)].val > a[p].val) => a[heap_parent(p)].val <= a[p].val
  <2> SUFFICES ASSUME p > 0 PROVE heap_parent(p) \in 0 .. n - 1
    BY <1>4
  <2> QED BY ParentOf
<1> QED
  BY <1>1, <1>2, <1>5, <1>6, <1>7 DEF OrderInv, Settled, Slots

\* entry_set_ttl opens the hole in the slot of the entry, or in a new one.
LEMMA SetTtlHeapInv ==
  ASSUME HeapInv, NEW e \in Entry, NEW d \in Deadline, entry_set_ttl(e, d)
  PROVE  HeapInv'
<1> DEFINE item == [val |-> d, ref |-> e]
           n == IF idx[e] \in Slots THEN len ELSE len + 1
           p == IF idx[e] \in Slots THEN idx[e] ELSE len
           a == [i \in 0 .. n - 1 |-> IF i = p THEN item ELSE heap[i]]
<1> USE HeapConstants
<1>1. /\ pc = "idle" /\ victim = None
      /\ heap' = a /\ len' = n /\ pos' = p /\ t' = a[p]
      /\ pc' = IF p > 0 /\ a[heap_parent(p)].val > a[p].val
               THEN "heap_up" ELSE "heap_down"
      /\ idx' = idx /\ victim' = None /\ answer' = None /\ fired' = None
  BY DEF entry_set_ttl, heap_upsert, heap_update, HeapInv, RefInv
<1>2. /\ len \in Nat /\ n \in Nat /\ p \in 0 .. n - 1 /\ p \in Nat
      /\ heap \in [0 .. len - 1 -> HeapItem]
      /\ idx \in [Entry -> Nat \cup {NoIdx}]
      /\ n = len \/ (n = len + 1 /\ p = len)
  BY DEF HeapInv, TypeOK, Slots, NoIdx
<1>3. item \in HeapItem /\ a \in [0 .. n - 1 -> HeapItem] /\ a[p] = item
  BY <1>2 DEF HeapItem
<1>4. \A i \in 0 .. n - 1 : i # p => i \in 0 .. len - 1 /\ a[i] = heap[i]
  BY <1>2
<1>5. TypeOK'
  BY <1>1, <1>2, <1>3 DEF TypeOK, Slots, NoIdx
<1>6. RefInv'
  <2> HIDE DEF item, n, p, a
  <2>1. t'.ref = e
    BY <1>1, <1>3 DEF item
  <2>2. \A i \in 0 .. len - 1 : idx[heap[i].ref] = i
    BY <1>1 DEF HeapInv, RefInv, Settled, Slots
  <2>3. \A f \in Entry : idx[f] # NoIdx => idx[f] \in 0 .. len - 1 /\ heap[idx[f]].ref = f
    BY <1>1, HeapConstants DEF HeapInv, RefInv, Settled, Slots, Held
  <2>4. \A i \in 0 .. n - 1 : i # p => heap[i].ref # e
    BY <1>2, <1>4, <2>2, <2>3 DEF p, Slots
  <2>5. \A f \in Entry : f # e /\ idx[f] # NoIdx => idx[f] # p
    <3> SUFFICES ASSUME NEW f \in Entry, f # e, idx[f] # NoIdx, idx[f] = p PROVE FALSE
      OBVIOUS
    <3>1. p \in 0 .. len - 1 /\ heap[p].ref = f
      BY <2>3
    <3>2. idx[e] = p
      BY <3>1, <1>2 DEF p, Slots
    <3> QED BY <3>1, <3>2, <2>3
  <2>6. pc' \in {"heap_up", "heap_down"}
    BY <1>1
  <2>7. ASSUME NEW i \in Slots', Settled(i)'
        PROVE (idx[heap[i].ref] = i /\ heap[i].ref # victim /\ ~Held(heap[i].ref))'
    <3>1. i \in 0 .. n - 1 /\ i # p
      BY <2>7, <1>1, <2>6 DEF Settled, Slots
    <3>2. heap'[i] = heap[i] /\ i \in 0 .. len - 1 /\ heap[i].ref \in Entry
      BY <3>1, <1>4, <1>1, <1>2 DEF HeapItem
    <3> QED BY <3>1, <3>2, <2>1, <2>2, <2>4, <1>1, HeapConstants DEF Held
  <2>8. ASSUME NEW f \in Entry, idx'[f] # NoIdx, f # victim', ~Held(f)'
        PROVE (Settled(idx[f]) /\ heap[idx[f]].ref = f)'
    <3>1. f # e
      BY <2>8, <2>1, <2>6 DEF Held
    <3>2. idx[f] \in 0 .. len - 1 /\ heap[idx[f]].ref = f /\ idx[f] # p
      BY <2>8, <3>1, <2>3, <2>5, <1>1
    <3>3. idx[f] \in 0 .. n - 1 /\ a[idx[f]] = heap[idx[f]]
      BY <3>2, <1>2, <1>4
    <3> QED BY <3>2, <3>3, <1>1 DEF Settled, Slots
  <2> QED
    BY <2>6, <2>7, <2>8, <1>1 DEF RefInv
<1>7. OrderInv'
  <2>1. heap_update(a, p, n)
    BY DEF entry_set_ttl, heap_upsert
  <2> HIDE DEF item, n, p, a
  <2> QED BY <2>1, <1>1, <1>2, <1>3, <1>4, OpenHoleOrder
<1> QED
  BY <1>5, <1>6, <1>7 DEF HeapInv

\* heap_delete leaves the slot of the erased entry as the hole, with the last
\* item in hand, or just drops the last slot.
LEMMA DeleteHeapInv ==
  ASSUME HeapInv, pc = "idle", NEW e \in Entry, idx[e] # NoIdx, heap_delete(e),
         answer' \in Deadline \cup {None}, fired' \in Entry \cup {None}
  PROVE  HeapInv'
<1> DEFINE p == idx[e]
           n == len - 1
           a == [i \in 0 .. n - 1 |-> IF i = p THEN heap[n] ELSE heap[i]]
<1> USE HeapConstants
<1>1. /\ victim = None /\ len \in Nat /\ pos \in Nat /\ t \in HeapItem \cup {None}
      /\ heap \in [0 .. len - 1 -> HeapItem]
      /\ idx \in [Entry -> Nat \cup {NoIdx}]
  BY DEF HeapInv, TypeOK, RefInv, Slots
<1>2. \A i \in 0 .. len - 1 : idx[heap[i].ref] = i /\ heap[i].ref \in Entry
  BY <1>1 DEF HeapInv, RefInv, Settled, Slots, HeapItem
<1>3. \A f \in Entry : idx[f] # NoIdx =>
                         idx[f] \in 0 .. len - 1 /\ heap[idx[f]].ref = f
  BY <1>1 DEF HeapInv, RefInv, Settled, Slots, Held
<1>4. p \in 0 .. len - 1 /\ heap[p].ref = e /\ n \in 0 .. len - 1 /\ n \in Nat
  BY <1>1, <1>3
<1>5. /\ a \in [0 .. n - 1 -> HeapItem]
      /\ \A i \in 0 .. n - 1 : i # p => i \in 0 .. len - 1 /\ a[i] = heap[i]
  BY <1>1, <1>4
<1>6. CASE /\ p < n
           /\ heap_update(a, p, n)
           /\ victim' = e
           /\ UNCHANGED idx
  <2>1. /\ heap' = a /\ len' = n /\ pos' = p /\ t' = heap[n]
        /\ pc' \in {"heap_up", "heap_down"} /\ p \in 0 .. n - 1
        /\ victim' = e /\ idx' = idx
    BY <1>1, <1>4, <1>6 DEF heap_update
  <2>2. TypeOK'
    BY <2>1, <1>1, <1>4, <1>5 DEF TypeOK, Slots
  <2>3. OrderInv'
    <3>1. heap_update(a, p, n)
      BY <1>6
    <3> HIDE DEF a, p, n
    <3> QED BY <3>1, <2>1, <1>4, <1>5, OpenHoleOrder
  <2> HIDE DEF a, p, n
  <2>4. ASSUME NEW i \in Slots', Settled(i)'
        PROVE (idx[heap[i].ref] = i /\ heap[i].ref # victim /\ ~Held(heap[i].ref))'
    <3>1. i \in 0 .. n - 1 /\ i # p /\ i \in 0 .. len - 1 /\ heap'[i] = heap[i] /\ i # n
      BY <2>4, <2>1, <1>1, <1>4, <1>5 DEF Settled, Slots
    <3>2. heap[i].ref # heap[n].ref /\ heap[i].ref # e
      BY <3>1, <1>2, <1>4 DEF p
    <3> QED BY <3>1, <3>2, <2>1, <1>2 DEF Held
  <2>5. ASSUME NEW f \in Entry, idx'[f] # NoIdx, f # victim', ~Held(f)'
        PROVE (Settled(idx[f]) /\ heap[idx[f]].ref = f)'
    <3>1. f # e /\ f # heap[n].ref /\ idx[f] # NoIdx
      BY <2>5, <2>1 DEF Held
    <3>2. idx[f] \in 0 .. len - 1 /\ heap[idx[f]].ref = f
      BY <3>1, <1>3
    <3>3. idx[f] # n /\ idx[f] # p
      BY <3>1, <3>2, <1>4
    <3>4. idx[f] \in 0 .. n - 1
      BY <3>2, <3>3, <1>1 DEF n
    <3> QED BY <3>2, <3>3, <3>4, <2>1, <1>5 DEF Settled, Slots
  <2>6. (~(victim # None /\ Held(victim)))'
    <3>1. heap[n].ref # e
      BY <1>2, <1>4, <1>6, <1>1 DEF p, n
    <3> QED BY <3>1, <2>1 DEF Held
  <2> QED
    BY <2>1, <2>2, <2>3, <2>4, <2>5, <2>6 DEF HeapInv, RefInv
<1>7. CASE /\ p >= n
           /\ heap' = a
           /\ len' = n
           /\ idx' = [idx EXCEPT ![e] = NoIdx]
           /\ UNCHANGED <<pc, pos, t, victim>>
  <2>1. p = n /\ \A i \in 0 .. n - 1 : heap'[i] = heap[i] /\ i \in 0 .. len - 1 /\ i # p
    BY <1>1, <1>4, <1>5, <1>7
  <2>2. TypeOK'
    BY <1>7, <1>1, <1>4, <1>5 DEF TypeOK, Slots
  <2>3. OrderInv'
    <3>1. ASSUME NEW i \in 0 .. n - 1, i > 0
          PROVE  heap'[heap_parent(i)].val <= heap'[i].val
      <4>1. heap_parent(i) \in 0 .. n - 1
        BY <3>1, <1>4, ParentOf
      <4>2. heap[heap_parent(i)].val <= heap[i].val
        BY <3>1, <4>1, <2>1 DEF HeapInv, OrderInv, Settled, Slots
      <4> QED BY <4>1, <4>2, <2>1
    <3> QED BY <3>1, <1>7 DEF OrderInv, Slots
  <2> HIDE DEF a, p, n
  <2>4. ASSUME NEW i \in Slots', Settled(i)'
        PROVE (idx[heap[i].ref] = i /\ heap[i].ref # victim /\ ~Held(heap[i].ref))'
    <3>1. i \in 0 .. n - 1 /\ i \in 0 .. len - 1 /\ heap'[i] = heap[i] /\ i # p
      BY <2>1, <1>7 DEF Slots
    <3>2. heap[i].ref \in Entry /\ heap[i].ref # e
      BY <3>1, <1>2, <1>4 DEF p
    <3> QED BY <3>1, <3>2, <1>2, <1>7, <1>1 DEF Held
  <2>5. ASSUME NEW f \in Entry, idx'[f] # NoIdx, f # victim', ~Held(f)'
        PROVE (Settled(idx[f]) /\ heap[idx[f]].ref = f)'
    <3>1. f # e /\ idx'[f] = idx[f]
      BY <2>5, <1>7, <1>1
    <3>2. idx[f] \in 0 .. len - 1 /\ heap[idx[f]].ref = f /\ idx[f] # p
      BY <2>5, <3>1, <1>3, <1>4
    <3>3. idx[f] \in 0 .. n - 1
      BY <3>2, <2>1, <1>1 DEF n
    <3> QED BY <3>1, <3>2, <3>3, <1>7, <2>1 DEF Settled, Slots
  <2> QED
    BY <2>2, <2>3, <2>4, <2>5, <1>7, <1>1 DEF HeapInv, RefInv, Held
<1> QED
  BY <1>6, <1>7 DEF heap_delete

-----------------------------------------------------------------------------
\* What HeapInv says in the middle of a sift, in the form the steps use.
LEMMA InFlight ==
  ASSUME HeapInv, pc # "idle"
  PROVE  /\ len \in Nat /\ pos \in 0 .. len - 1 /\ t \in HeapItem
         /\ heap \in [0 .. len - 1 -> HeapItem]
         /\ idx \in [Entry -> Nat \cup {NoIdx}]
         /\ t.val \in Nat /\ \A i \in 0 .. len - 1 : heap[i].val \in Nat
         /\ \A i \in 0 .. len - 1 : i # pos =>
              /\ heap[i].ref \in Entry /\ idx[heap[i].ref] = i
              /\ heap[i].ref # victim /\ heap[i].ref # t.ref
         /\ \A e \in Entry : idx[e] # NoIdx /\ e # victim /\ e # t.ref =>
              idx[e] \in 0 .. len - 1 /\ idx[e] # pos /\ heap[idx[e]].ref = e
         /\ victim # None => t.ref # victim
BY HeapConstants DEF HeapInv, TypeOK, RefInv, Settled, Held, Slots, HeapItem

\* Moving an item into the hole keeps the items and their entries together.
LEMMA MoveTypeRef ==
  ASSUME HeapInv, pc # "idle", NEW q \in 0 .. len - 1, q # pos, move(q)
  PROVE  TypeOK' /\ RefInv'
<1> USE HeapConstants
<1>1. /\ heap' = [heap EXCEPT ![pos] = heap[q]]
      /\ idx' = [idx EXCEPT ![heap[q].ref] = pos]
      /\ pos' = q /\ len' = len /\ pc' = pc /\ t' = t /\ victim' = victim
      /\ answer' = answer /\ fired' = fired
  BY DEF move
<1>2. TypeOK'
  BY <1>1, InFlight DEF HeapInv, TypeOK, Slots
<1>3. ASSUME NEW i \in Slots', Settled(i)'
      PROVE (idx[heap[i].ref] = i /\ heap[i].ref # victim /\ ~Held(heap[i].ref))'
  <2>1. i \in 0 .. len - 1 /\ i # q
    BY <1>3, <1>1 DEF Settled, Slots
  <2>2. CASE i = pos
    BY <2>1, <2>2, <1>1, InFlight DEF Held
  <2>3. CASE i # pos
    <3>1. heap'[i] = heap[i] /\ heap[i].ref # heap[q].ref
      BY <2>1, <2>3, <1>1, InFlight
    <3> QED BY <2>1, <2>3, <3>1, <1>1, InFlight DEF Held
  <2> QED BY <2>2, <2>3
<1>4. ASSUME NEW f \in Entry, idx'[f] # NoIdx, f # victim', ~Held(f)'
      PROVE (Settled(idx[f]) /\ heap[idx[f]].ref = f)'
  <2>1. f # victim /\ f # t.ref
    BY <1>4, <1>1 DEF Held
  <2>2. CASE f = heap[q].ref
    BY <2>1, <2>2, <1>1, InFlight DEF Settled, Slots
  <2>3. CASE f # heap[q].ref
    <3>1. idx'[f] = idx[f] /\ idx[f] # NoIdx
      BY <2>3, <1>1, <1>4, InFlight
    <3>2. /\ idx[f] \in 0 .. len - 1 /\ idx[f] # pos /\ idx[f] # q
          /\ heap[idx[f]].ref = f
      BY <2>1, <2>3, <3>1, InFlight
    <3> QED BY <3>1, <3>2, <1>1, InFlight DEF Settled, Slots
  <2> QED BY <2>2, <2>3
<1>5. (~(victim # None /\ Held(victim)))' /\ pc' # "idle"
  BY <1>1, InFlight DEF Held
<1> QED
  BY <1>2, <1>3, <1>4, <1>5 DEF RefInv

\* Putting t down in the hole keeps the items and their entries together; the
\* entry that was deleted ends up without a slot.
LEMMA PlaceTypeRef ==
  ASSUME HeapInv, pc # "idle", place
  PROVE  TypeOK' /\ RefInv'
<1> USE HeapConstants
<1>1. /\ heap' = [heap EXCEPT ![pos] = t]
      /\ idx' = [e \in Entry |-> IF e = victim THEN NoIdx
                                 ELSE IF e = t.ref THEN pos ELSE idx[e]]
      /\ pc' = "idle" /\ pos' = 0 /\ t' = None /\ victim' = None /\ len' = len
      /\ answer' = answer /\ fired' = fired
  BY DEF place
<1>2. TypeOK'
  BY <1>1, InFlight DEF HeapInv, TypeOK, Slots
<1>3. ASSUME NEW i \in Slots'
      PROVE (idx[heap[i].ref] = i /\ heap[i].ref # victim /\ ~Held(heap[i].ref))'
  <2>1. i \in 0 .. len - 1
    BY <1>1 DEF Slots
  <2>2. CASE i = pos
    <3>1. t.ref \in Entry /\ t.ref # victim
      BY InFlight DEF HeapItem
    <3> QED BY <2>1, <2>2, <3>1, <1>1, InFlight DEF Held
  <2>3. CASE i # pos
    BY <2>1, <2>3, <1>1, InFlight DEF Held
  <2> QED BY <2>2, <2>3
<1>4. ASSUME NEW f \in Entry, idx'[f] # NoIdx, f # victim', ~Held(f)'
      PROVE (Settled(idx[f]) /\ heap[idx[f]].ref = f)'
  <2>1. f # victim
    BY <1>4, <1>1
  <2>2. CASE f = t.ref
    BY <2>1, <2>2, <1>1, InFlight DEF Settled, Slots
  <2>3. CASE f # t.ref
    BY <2>1, <2>3, <1>1, <1>4, InFlight DEF Settled, Slots
  <2> QED BY <2>2, <2>3
<1> QED
  BY <1>1, <1>2, <1>3, <1>4 DEF RefInv, Held

-----------------------------------------------------------------------------
\* What OrderInv says in the middle of a sift.
LEMMA InFlightOrder ==
  ASSUME HeapInv, pc # "idle"
  PROVE  /\ \A i \in 0 .. len - 1 : i > 0 /\ i # pos /\ heap_parent(i) # pos =>
              heap[heap_parent(i)].val <= heap[i].val
         /\ \A i \in 0 .. len - 1 : i > 0 /\ heap_parent(i) = pos =>
              /\ pos > 0 => heap[heap_parent(pos)].val <= heap[i].val
              /\ pc = "heap_up" => t.val <= heap[i].val
         /\ pc = "heap_down" /\ pos > 0 => heap[heap_parent(pos)].val <= t.val
<1>1. \A i \in 0 .. len - 1 : i > 0 => heap_parent(i) \in 0 .. len - 1
  BY InFlight, ParentOf
<1> QED BY <1>1 DEF HeapInv, OrderInv, Settled, Slots

\* An iteration of heap_up keeps the invariant.
LEMMA UpHeapInv ==
  ASSUME HeapInv, heap_up
  PROVE  HeapInv'
<1> DEFINE q == heap_parent(pos)
<1> USE HeapConstants
<1>1. CASE UpContinues /\ move(heap_parent(pos))
  <2>1. pc = "heap_up" /\ pos > 0 /\ heap[q].val > t.val /\ pc # "idle"
    BY <1>1 DEF heap_up, UpContinues
  <2>2. q \in 0 .. len - 1 /\ q # pos /\ q < pos
    BY <2>1, InFlight, ParentOf
  <2>3. /\ heap' = [heap EXCEPT ![pos] = heap[q]]
        /\ pos' = q /\ len' = len /\ pc' = pc /\ t' = t
        /\ heap'[pos] = heap[q]
        /\ \A i \in 0 .. len - 1 : i # pos => heap'[i] = heap[i]
    BY <1>1, <2>1, InFlight DEF move
  <2>4. TypeOK' /\ RefInv'
    BY <1>1, <2>1, <2>2, MoveTypeRef
  <2>5. \A i \in 0 .. len - 1 : i > 0 =>
          heap_parent(i) \in 0 .. len - 1 /\ heap_parent(i) < i
    BY <2>1, InFlight, ParentOf
  <2>6. q > 0 => heap[heap_parent(q)].val <= heap[q].val
    BY <2>1, <2>2, <2>5, InFlight, InFlightOrder
  <2>7. ASSUME NEW i \in 0 .. len - 1, i > 0, i # q, heap_parent(i) # q
        PROVE heap'[heap_parent(i)].val <= heap'[i].val
    <3>1. i # pos
      BY <2>7
    <3>2. CASE heap_parent(i) = pos
      BY <3>1, <3>2, <2>1, <2>3, <2>7, InFlightOrder
    <3>3. CASE heap_parent(i) # pos
      BY <3>1, <3>3, <2>1, <2>3, <2>5, <2>7, InFlightOrder
    <3> QED BY <3>2, <3>3
  <2>8. ASSUME NEW i \in 0 .. len - 1, i > 0, heap_parent(i) = q
        PROVE /\ q > 0 => heap'[heap_parent(q)].val <= heap'[i].val
              /\ t.val <= heap'[i].val
    <3>1. heap[q].val <= heap'[i].val
      <4>1. CASE i = pos
        BY <4>1, <2>1, <2>2, <2>3, InFlight
      <4>2. CASE i # pos
        BY <4>2, <2>1, <2>2, <2>3, <2>8, InFlightOrder
      <4> QED BY <4>1, <4>2
    <3>2. heap'[i].val \in Nat /\ heap[q].val \in Nat /\ t.val \in Nat
      BY <2>1, <2>2, <2>3, InFlight
    <3>3. q > 0 => /\ heap_parent(q) \in 0 .. len - 1
                   /\ heap'[heap_parent(q)] = heap[heap_parent(q)]
                   /\ heap[heap_parent(q)].val \in Nat
      BY <2>1, <2>2, <2>3, <2>5, InFlight
    <3> QED BY <3>1, <3>2, <3>3, <2>1, <2>6
  <2>9. OrderInv'
    <3> HIDE DEF q
    <3> QED BY <2>1, <2>3, <2>7, <2>8 DEF OrderInv, Settled, Slots
  <2> QED BY <2>4, <2>9 DEF HeapInv
<1>2. CASE ~UpContinues /\ place
  <2>1. pc = "heap_up" /\ pc # "idle"
    BY DEF heap_up
  <2>2. TypeOK' /\ RefInv'
    BY <1>2, <2>1, PlaceTypeRef
  <2>3. /\ len' = len /\ pc' = "idle" /\ heap'[pos] = t
        /\ \A i \in 0 .. len - 1 : i # pos => heap'[i] = heap[i]
    BY <1>2, <2>1, InFlight DEF place
  <2>4. \A i \in 0 .. len - 1 : i > 0 =>
          heap_parent(i) \in 0 .. len - 1 /\ heap_parent(i) < i
    BY <2>1, InFlight, ParentOf
  <2>5. pos > 0 => heap[q].val <= t.val
    BY <1>2, <2>1, <2>4, InFlight DEF UpContinues
  <2>6. ASSUME NEW i \in 0 .. len - 1, i > 0
        PROVE heap'[heap_parent(i)].val <= heap'[i].val
    <3>1. CASE i = pos
      BY <3>1, <2>3, <2>4, <2>5, <2>6
    <3>2. CASE heap_parent(i) = pos
      BY <3>2, <2>1, <2>3, <2>4, <2>6, InFlightOrder
    <3>3. CASE i # pos /\ heap_parent(i) # pos
      BY <3>3, <2>1, <2>3, <2>4, <2>6, InFlightOrder
    <3> QED BY <3>1, <3>2, <3>3
  <2>7. OrderInv'
    BY <2>3, <2>6 DEF OrderInv, Slots
  <2> QED BY <2>2, <2>7 DEF HeapInv
<1> QED
  BY <1>1, <1>2 DEF heap_up

\* The child heap_down chooses is smaller than t and than the other child; when
\* it chooses none, no child is smaller than t.
LEMMA MinPos ==
  ASSUME HeapInv, pc = "heap_down"
  PROVE  /\ min_pos # pos => /\ min_pos \in 0 .. len - 1
                             /\ min_pos > 0 /\ heap_parent(min_pos) = pos
                             /\ heap[min_pos].val < t.val
         /\ min_pos = pos =>
              \A i \in 0 .. len - 1 : i > 0 /\ heap_parent(i) = pos =>
                t.val <= heap[i].val
         /\ min_pos # pos =>
              \A i \in 0 .. len - 1 : i > 0 /\ heap_parent(i) = pos =>
                heap[min_pos].val <= heap[i].val
<1>1. /\ len \in Nat /\ pos \in 0 .. len - 1 /\ pos \in Nat /\ t.val \in Nat
      /\ \A i \in 0 .. len - 1 : heap[i].val \in Nat
  BY InFlight
<1> DEFINE l == heap_left(pos)
           r == heap_right(pos)
<1>2. /\ l \in Nat /\ r \in Nat /\ l > pos /\ r > pos
      /\ heap_parent(l) = pos /\ heap_parent(r) = pos
  BY <1>1, ChildrenOf
<1>3. \A i \in 0 .. len - 1 : i > 0 /\ heap_parent(i) = pos => i = l \/ i = r
  BY <1>1, ParentOf
<1>4. min_pos = IF r < len /\ heap[r].val < (IF l < len /\ heap[l].val < t.val THEN heap[l].val ELSE t.val)
                THEN r ELSE IF l < len /\ heap[l].val < t.val THEN l ELSE pos
  BY DEF min_pos
<1> HIDE DEF l, r
<1>5. (l < len => heap[l].val \in Nat) /\ (r < len => heap[r].val \in Nat)
  BY <1>1, <1>2
<1> QED BY <1>1, <1>2, <1>3, <1>4, <1>5

\* An iteration of heap_down keeps the invariant.
LEMMA DownHeapInv ==
  ASSUME HeapInv, heap_down
  PROVE  HeapInv'
<1> DEFINE q == min_pos
<1> USE HeapConstants
<1>0. pc = "heap_down" /\ pc # "idle"
  BY DEF heap_down
<1>p. \A i \in 0 .. len - 1 : i > 0 =>
        heap_parent(i) \in 0 .. len - 1 /\ heap_parent(i) < i
  BY <1>0, InFlight, ParentOf
<1>1. CASE min_pos # pos /\ move(min_pos)
  <2>1. /\ q \in 0 .. len - 1 /\ q > 0 /\ heap_parent(q) = pos /\ q # pos
        /\ heap[q].val < t.val
        /\ \A i \in 0 .. len - 1 : i > 0 /\ heap_parent(i) = pos =>
             heap[q].val <= heap[i].val
    BY <1>0, <1>1, MinPos
  <2>2. /\ pos' = q /\ len' = len /\ pc' = pc /\ t' = t
        /\ heap'[pos] = heap[q]
        /\ \A i \in 0 .. len - 1 : i # pos => heap'[i] = heap[i]
    BY <1>0, <1>1, <2>1, InFlight DEF move
  <2>3. TypeOK' /\ RefInv'
    BY <1>0, <1>1, <2>1, MoveTypeRef
  <2> HIDE DEF q
  <2>4. ASSUME NEW i \in 0 .. len - 1, i > 0, i # q, heap_parent(i) # q
        PROVE heap'[heap_parent(i)].val <= heap'[i].val
    <3>1. CASE i = pos
      <4>1. heap[heap_parent(pos)].val <= heap[q].val
        BY <3>1, <2>1, <2>4, <1>0, InFlightOrder
      <4> QED BY <4>1, <3>1, <2>2, <2>4, <1>p
    <3>2. CASE heap_parent(i) = pos
      BY <3>2, <2>1, <2>2, <2>4, <1>p
    <3>3. CASE i # pos /\ heap_parent(i) # pos
      BY <3>3, <2>2, <2>4, <1>0, <1>p, InFlightOrder
    <3> QED BY <3>1, <3>2, <3>3
  <2>5. ASSUME NEW i \in 0 .. len - 1, i > 0, heap_parent(i) = q
        PROVE heap'[heap_parent(q)].val <= heap'[i].val
    <3>1. i # pos
      BY <2>1, <2>5, <1>p
    <3>2. heap[q].val <= heap[i].val
      BY <3>1, <2>1, <2>5, <1>0, InFlightOrder
    <3> QED BY <3>1, <3>2, <2>1, <2>2
  <2>6. heap'[heap_parent(q)].val <= t.val
    BY <2>1, <2>2, <1>0, InFlight
  <2>7. OrderInv'
    BY <1>0, <2>2, <2>4, <2>5, <2>6 DEF OrderInv, Settled, Slots
  <2> QED BY <2>3, <2>7 DEF HeapInv
<1>2. CASE min_pos = pos /\ place
  <2>1. TypeOK' /\ RefInv'
    BY <1>0, <1>2, PlaceTypeRef
  <2>2. /\ len' = len /\ pc' = "idle" /\ heap'[pos] = t
        /\ \A i \in 0 .. len - 1 : i # pos => heap'[i] = heap[i]
    BY <1>0, <1>2, InFlight DEF place
  <2>3. \A i \in 0 .. len - 1 : i > 0 /\ heap_parent(i) = pos => t.val <= heap[i].val
    BY <1>0, <1>2, MinPos
  <2>4. ASSUME NEW i \in 0 .. len - 1, i > 0
        PROVE heap'[heap_parent(i)].val <= heap'[i].val
    <3>1. CASE i = pos
      BY <3>1, <2>2, <2>4, <1>0, <1>p, InFlightOrder
    <3>2. CASE heap_parent(i) = pos
      BY <3>2, <2>2, <2>3, <2>4, <1>p
    <3>3. CASE i # pos /\ heap_parent(i) # pos
      BY <3>3, <2>2, <2>4, <1>0, <1>p, InFlightOrder
    <3> QED BY <3>1, <3>2, <3>3
  <2>5. OrderInv'
    BY <2>2, <2>4 DEF OrderInv, Slots
  <2> QED BY <2>1, <2>5 DEF HeapInv
<1> QED
  BY <1>1, <1>2 DEF heap_down

-----------------------------------------------------------------------------
\* HeapInv is inductive.
LEMMA NextHeapInv == HeapInv /\ [Next]_vars => HeapInv'
<1> SUFFICES ASSUME HeapInv, [Next]_vars PROVE HeapInv'
  OBVIOUS
<1> USE HeapConstants
<1>1. ASSUME NEW e \in Entry, NEW d \in Deadline, entry_set_ttl(e, d) PROVE HeapInv'
  BY <1>1, SetTtlHeapInv
<1>2. ASSUME NEW e \in Entry, entry_clear_ttl(e) PROVE HeapInv'
  BY <1>2, DeleteHeapInv DEF entry_clear_ttl
<1>3. ASSUME NEW e \in Entry, do_ttl(e) PROVE HeapInv'
  <2>1. answer' \in Deadline
    BY <1>3 DEF do_ttl, HeapInv, TypeOK, RefInv, Settled, Held, Slots, HeapItem
  <2> QED BY <1>3, <2>1 DEF do_ttl, HeapInv, TypeOK, RefInv, OrderInv, Settled, Held, Slots
<1>4. CASE process_timers
  <2>1. heap[0].ref \in Entry
    BY <1>4 DEF process_timers, HeapInv, TypeOK, Slots, HeapItem
  <2> QED BY <1>4, <2>1, DeleteHeapInv DEF process_timers
<1>5. CASE heap_up
  BY <1>5, UpHeapInv
<1>6. CASE heap_down
  BY <1>6, DownHeapInv
<1>7. CASE UNCHANGED vars
  BY <1>7 DEF vars, HeapInv, TypeOK, RefInv, OrderInv, Settled, Held, Slots
<1> QED
  BY <1>1, <1>2, <1>3, <1>4, <1>5, <1>6, <1>7 DEF Next

\* Every state of heap.cpp and of the operations server.cpp builds on it
\* satisfies the inductive invariant, whatever the number of entries.
THEOREM HeapInvariant == Spec => []HeapInv
<1>1. Init => HeapInv
  BY InitHeapInv
<1>2. HeapInv /\ [Next]_vars => HeapInv'
  BY NextHeapInv
<1> QED
  BY <1>1, <1>2, PTL DEF Spec

\* Type correctness of the heap; in particular a running sift always holds its
\* hole inside of the vector.
THEOREM TypeCorrect == Spec => []TypeOK
<1>1. HeapInv => TypeOK
  BY DEF HeapInv
<1> QED
  BY <1>1, HeapInvariant, PTL

\* Between operations heap_idx and the heap slots point at each other: every
\* unchecked g_data.heap[ent->heap_idx] is the entry's own item.
THEOREM RefsAlwaysExact == Spec => []RefsExact
<1>1. HeapInv => RefsExact
  <2> SUFFICES ASSUME HeapInv, pc = "idle"
               PROVE  /\ \A i \in Slots : idx[heap[i].ref] = i
                      /\ \A e \in Entry : idx[e] # NoIdx => /\ idx[e] \in Slots
                                                            /\ heap[idx[e]].ref = e
    BY DEF RefsExact
  <2> QED BY HeapConstants DEF HeapInv, RefInv, Settled, Held
<1> QED
  BY <1>1, HeapInvariant, PTL

\* The item at the root is due first, in every reachable state between operations.
LEMMA IdleRootIsMin == HeapInv => RootIsMin
<1> SUFFICES ASSUME HeapInv, pc = "idle"
             PROVE  \A i \in Slots : heap[0].val <= heap[i].val
  BY DEF RootIsMin
<1> DEFINE v == [i \in 0 .. len - 1 |-> heap[i].val]
<1>1. len \in Nat /\ v \in [0 .. len - 1 -> Nat]
  BY HeapConstants DEF HeapInv, TypeOK, Slots, HeapItem
<1>2. \A i \in 0 .. len - 1 : i > 0 => heap_parent(i) \in 0 .. len - 1
  BY <1>1, ParentOf
<1>3. \A i \in 0 .. len - 1 : i > 0 => v[heap_parent(i)] <= v[i]
  BY <1>2 DEF HeapInv, OrderInv, Settled, Slots
<1>4. \A i \in 0 .. len - 1 : v[0] <= v[i]
  <2> HIDE DEF v
  <2> QED BY <1>1, <1>3, OrderedRootIsMin
<1>5. ASSUME NEW i \in Slots PROVE heap[0].val <= heap[i].val
  <2>1. i \in 0 .. len - 1 /\ 0 \in 0 .. len - 1
    BY <1>1, <1>5 DEF Slots
  <2>2. v[0] = heap[0].val /\ v[i] = heap[i].val /\ v[0] <= v[i]
    BY <2>1, <1>4
  <2> HIDE DEF v
  <2> QED BY <2>2
<1> QED
  BY <1>5

\* next_timer_ms and process_timers, which look at heap[0] only, never miss an
\* earlier deadline.
THEOREM RootAlwaysMin == Spec => []RootIsMin
  BY IdleRootIsMin, HeapInvariant, PTL

-----------------------------------------------------------------------------
(***************************************************************************)
(* The heap implements the abstract TTL queue.                             *)
(***************************************************************************)
\* The deadline of each entry, between operations and in the middle of a sift.
LEMMA IdleExpireAt ==
  ASSUME HeapInv, pc = "idle"
  PROVE  ExpireAt = [e \in Entry |-> IF idx[e] = NoIdx THEN None ELSE heap[idx[e]].val]
BY HeapConstants DEF ExpireAt, HeapInv, RefInv

\* The deadlines in the middle of a sift.
LEMMA FlightExpireAt ==
  ASSUME pc # "idle"
  PROVE  ExpireAt = [e \in Entry |-> IF e = victim THEN None
                                     ELSE IF e = t.ref THEN t.val
                                     ELSE IF idx[e] = NoIdx THEN None
                                     ELSE heap[idx[e]].val]
BY HeapConstants DEF ExpireAt

\* entry_set_ttl gives the entry its deadline and touches no other.
LEMMA SetTtlRefines ==
  ASSUME HeapInv, HeapInv', NEW e \in Entry, NEW d \in Deadline, entry_set_ttl(e, d)
  PROVE  Queue!SetTtl(e, d)
<1> USE HeapConstants
<1>1. /\ pc = "idle" /\ pc' # "idle" /\ victim' = None /\ idx' = idx
      /\ t' = [val |-> d, ref |-> e] /\ answer' = None /\ fired' = None
      /\ \A f \in Entry : f # e /\ idx[f] # NoIdx => heap'[idx[f]] = heap[idx[f]]
  <2> DEFINE item == [val |-> d, ref |-> e]
             n == IF idx[e] \in Slots THEN len ELSE len + 1
             p == IF idx[e] \in Slots THEN idx[e] ELSE len
             a == [i \in 0 .. n - 1 |-> IF i = p THEN item ELSE heap[i]]
  <2>1. /\ pc = "idle" /\ pc' # "idle" /\ victim' = None /\ idx' = idx
        /\ heap' = a /\ t' = a[p] /\ answer' = None /\ fired' = None
    BY DEF entry_set_ttl, heap_upsert, heap_update
  <2>2. len \in Nat /\ idx \in [Entry -> Nat \cup {NoIdx}]
    BY DEF HeapInv, TypeOK
  <2>3. \A f \in Entry : idx[f] # NoIdx => idx[f] \in 0 .. len - 1 /\ heap[idx[f]].ref = f
    BY <2>1 DEF HeapInv, RefInv, Settled, Slots, Held
  <2>4. p \in 0 .. n - 1
    BY <2>2 DEF Slots, NoIdx
  <2>5. ASSUME NEW f \in Entry, f # e, idx[f] # NoIdx
        PROVE  idx[f] # p /\ idx[f] \in 0 .. n - 1
    BY <2>2, <2>3, <2>5 DEF Slots, NoIdx
  <2> QED BY <2>1, <2>4, <2>5
<1>2. ExpireAt' = [f \in Entry |-> IF f = victim' THEN None
                                   ELSE IF f = t'.ref THEN t'.val
                                   ELSE IF idx'[f] = NoIdx THEN None
                                   ELSE heap'[idx'[f]].val]
  BY <1>1 DEF ExpireAt
<1>3. ExpireAt' = [ExpireAt EXCEPT ![e] = d]
  BY <1>1, <1>2, IdleExpireAt
<1> QED
  BY <1>1, <1>3 DEF Queue!SetTtl

\* heap_delete takes the deadline of the erased entry away and no other.
LEMMA DeleteRefines ==
  ASSUME HeapInv, HeapInv', pc = "idle", NEW e \in Entry, idx[e] # NoIdx, heap_delete(e)
  PROVE  ExpireAt[e] # None /\ ExpireAt' = [ExpireAt EXCEPT ![e] = None]
<1> USE HeapConstants
<1> DEFINE p == idx[e]
           n == len - 1
           a == [i \in 0 .. n - 1 |-> IF i = p THEN heap[n] ELSE heap[i]]
<1>1. /\ len \in Nat /\ idx \in [Entry -> Nat \cup {NoIdx}] /\ victim = None
      /\ heap \in [0 .. len - 1 -> HeapItem]
  BY DEF HeapInv, TypeOK, RefInv, Slots
<1>2. \A f \in Entry : idx[f] # NoIdx => idx[f] \in 0 .. len - 1 /\ heap[idx[f]].ref = f
  BY DEF HeapInv, RefInv, Settled, Slots, Held
<1>3. \A i \in 0 .. len - 1 : heap[i].val \in Nat /\ heap[i].ref \in Entry /\ idx[heap[i].ref] = i
  BY <1>1 DEF HeapItem, HeapInv, RefInv, Settled, Slots
<1>4. ExpireAt[e] # None
  BY <1>2, <1>3, IdleExpireAt
<1>5. CASE /\ p < n /\ heap_update(a, p, n) /\ victim' = e /\ UNCHANGED idx
  <2>1. pc' # "idle" /\ heap' = a /\ t' = heap[n] /\ victim' = e /\ idx' = idx
    BY <1>1, <1>2, <1>5 DEF heap_update
  <2>2. ExpireAt' = [f \in Entry |-> IF f = e THEN None
                                     ELSE IF f = heap[n].ref THEN heap[n].val
                                     ELSE IF idx[f] = NoIdx THEN None
                                     ELSE a[idx[f]].val]
    BY <2>1 DEF ExpireAt
  <2>3. ASSUME NEW f \in Entry, f # e, idx[f] # NoIdx
        PROVE  (IF f = heap[n].ref THEN heap[n].val ELSE a[idx[f]].val) = heap[idx[f]].val
    <3>1. idx[f] \in 0 .. len - 1 /\ heap[idx[f]].ref = f /\ idx[f] # p
      BY <1>2, <2>3
    <3>2. CASE idx[f] = n
      BY <3>1, <3>2
    <3>3. CASE idx[f] # n
      <4>1. idx[f] \in 0 .. n - 1
        BY <3>1, <3>3, <1>1
      <4>2. f # heap[n].ref
        BY <3>1, <3>3, <1>1, <1>3
      <4> QED BY <3>1, <4>1, <4>2
    <3> QED BY <3>2, <3>3
  <2>4. idx[heap[n].ref] # NoIdx
    BY <1>1, <1>2, <1>3 DEF NoIdx
  <2> HIDE DEF a, n, p
  <2>5. ExpireAt = [f \in Entry |-> IF idx[f] = NoIdx THEN None ELSE heap[idx[f]].val]
    BY IdleExpireAt
  <2>6. ASSUME NEW f \in Entry, f # e PROVE ExpireAt'[f] = ExpireAt[f]
    BY <2>2, <2>3, <2>4, <2>5, <2>6
  <2>7. ExpireAt'[e] = None
    BY <2>2
  <2> QED BY <1>4, <2>2, <2>5, <2>6, <2>7
<1>6. CASE /\ p >= n /\ heap' = a /\ len' = n /\ idx' = [idx EXCEPT ![e] = NoIdx]
           /\ UNCHANGED <<pc, pos, t, victim>>
  <2>1. ExpireAt' = [f \in Entry |-> IF idx'[f] = NoIdx THEN None ELSE heap'[idx'[f]].val]
    BY <1>1, <1>6 DEF ExpireAt
  <2>2. ASSUME NEW f \in Entry, f # e, idx[f] # NoIdx
        PROVE  heap'[idx[f]] = heap[idx[f]]
    <3>1. idx[f] \in 0 .. len - 1 /\ idx[f] # p /\ p \in 0 .. len - 1
      BY <1>2, <2>2
    <3> QED BY <3>1, <1>1, <1>6
  <2> HIDE DEF a, n, p
  <2>3. ExpireAt = [f \in Entry |-> IF idx[f] = NoIdx THEN None ELSE heap[idx[f]].val]
    BY IdleExpireAt
  <2>4. ASSUME NEW f \in Entry, f # e PROVE ExpireAt'[f] = ExpireAt[f]
    <3>1. idx'[f] = idx[f]
      BY <1>1, <1>6, <2>4
    <3> QED BY <2>1, <2>2, <2>3, <2>4, <3>1
  <2>5. idx'[e] = NoIdx
    BY <1>1, <1>6
  <2>6. ExpireAt'[e] = None
    BY <2>1, <2>5
  <2> QED BY <1>4, <2>1, <2>3, <2>4, <2>6
<1> QED
  BY <1>5, <1>6 DEF heap_delete

\* A step of a sift moves items and changes no deadline.
LEMMA MoveRefines ==
  ASSUME HeapInv, pc # "idle", NEW q \in 0 .. len - 1, q # pos, move(q)
  PROVE  ExpireAt' = ExpireAt
<1>1. /\ heap' = [heap EXCEPT ![pos] = heap[q]]
      /\ idx' = [idx EXCEPT ![heap[q].ref] = pos]
      /\ pc' = pc /\ t' = t /\ victim' = victim
  BY DEF move
<1>2. ExpireAt' = [e \in Entry |-> IF e = victim THEN None
                                   ELSE IF e = t.ref THEN t.val
                                   ELSE IF idx'[e] = NoIdx THEN None
                                   ELSE heap'[idx'[e]].val]
  BY <1>1, HeapConstants DEF ExpireAt
<1>3. ASSUME NEW e \in Entry, e # victim, e # t.ref
      PROVE  /\ idx'[e] = NoIdx <=> idx[e] = NoIdx
             /\ idx[e] # NoIdx => heap'[idx'[e]] = heap[idx[e]]
  <2>1. CASE e = heap[q].ref
    <3>1. idx'[e] = pos /\ idx[e] = q /\ pos # NoIdx /\ q # NoIdx
      BY <2>1, <1>1, InFlight DEF NoIdx
    <3> QED BY <3>1, <1>1, InFlight
  <2>2. CASE e # heap[q].ref
    <3>1. idx'[e] = idx[e]
      BY <2>2, <1>1, InFlight
    <3>2. idx[e] # NoIdx => idx[e] \in 0 .. len - 1 /\ idx[e] # pos
      BY <1>3, InFlight
    <3> QED BY <3>1, <3>2, <1>1, InFlight
  <2> QED BY <2>1, <2>2
<1> QED
  BY <1>2, <1>3, FlightExpireAt

\* Putting the held item down changes no deadline.
LEMMA PlaceRefines ==
  ASSUME HeapInv, pc # "idle", place
  PROVE  ExpireAt' = ExpireAt
<1> USE HeapConstants
<1>1. /\ heap' = [heap EXCEPT ![pos] = t]
      /\ idx' = [e \in Entry |-> IF e = victim THEN NoIdx
                                 ELSE IF e = t.ref THEN pos ELSE idx[e]]
      /\ pc' = "idle" /\ victim' = None
  BY DEF place
<1>2. ExpireAt' = [e \in Entry |-> IF idx'[e] = NoIdx THEN None ELSE heap'[idx'[e]].val]
  BY <1>1 DEF ExpireAt
<1>3. pos # NoIdx /\ heap'[pos] = t
  BY <1>1, InFlight DEF NoIdx
<1>4. ASSUME NEW e \in Entry, e # victim, e # t.ref, idx[e] # NoIdx
      PROVE  heap'[idx[e]] = heap[idx[e]]
  BY <1>1, <1>4, InFlight
<1> QED
  BY <1>1, <1>2, <1>3, <1>4, FlightExpireAt

\* The heap of heap.cpp, with the back-references and every intermediate state
\* of its sifts, implements the abstract TTL queue.
THEOREM HeapImplementsQueue == Spec => ImplementsQueue
<1>1. Init => Queue!Init
  BY HeapConstants DEF Init, Queue!Init, ExpireAt, NoIdx
<1>2. HeapInv /\ HeapInv' /\ [Next]_vars => [Queue!Next]_(Queue!vars)
  <2> SUFFICES ASSUME HeapInv, HeapInv', [Next]_vars
               PROVE  Queue!Next \/ (ExpireAt' = ExpireAt /\ answer' = answer /\ fired' = fired)
    BY DEF Queue!vars
  <2> USE HeapConstants
  <2>1. ASSUME NEW e \in Entry, NEW d \in Deadline, entry_set_ttl(e, d) PROVE Queue!Next
    BY <2>1, SetTtlRefines DEF Queue!Next
  <2>2. ASSUME NEW e \in Entry, entry_clear_ttl(e) PROVE Queue!Next
    <3>1. Queue!ClearTtl(e)
      BY <2>2, DeleteRefines DEF entry_clear_ttl, Queue!ClearTtl
    <3> QED BY <3>1 DEF Queue!Next
  <2>3. ASSUME NEW e \in Entry, do_ttl(e) PROVE Queue!Next
    <3>1. pc = "idle" /\ pc' = "idle"
      BY <2>3 DEF do_ttl
    <3>2. ExpireAt' = ExpireAt
      BY <2>3 DEF do_ttl, ExpireAt
    <3>3. ExpireAt[e] = heap[idx[e]].val
      BY <2>3, <3>1, IdleExpireAt DEF do_ttl
    <3>4. heap[idx[e]].val # None
      BY <2>3, <3>1 DEF do_ttl, HeapInv, TypeOK, RefInv, Settled, Held, Slots, HeapItem
    <3>5. Queue!ReadTtl(e)
      BY <2>3, <3>2, <3>3, <3>4 DEF do_ttl, Queue!ReadTtl
    <3> QED BY <3>5 DEF Queue!Next
  <2>4. CASE process_timers
    <3> DEFINE e == heap[0].ref
    <3>1. /\ pc = "idle" /\ len \in Nat /\ 0 \in Slots /\ e \in Entry /\ idx[e] # NoIdx
          /\ heap_delete(e) /\ answer' = None /\ fired' = e
      BY <2>4 DEF process_timers, HeapInv, TypeOK, Slots, HeapItem
    <3>2. ExpireAt[e] # None /\ ExpireAt' = [ExpireAt EXCEPT ![e] = None]
      BY <3>1, DeleteRefines
    <3>3. \A f \in Entry : idx[f] # NoIdx => idx[f] \in Slots
      BY <3>1 DEF HeapInv, RefInv, Settled, Held
    <3>4. idx[e] = 0
      BY <3>1 DEF HeapInv, RefInv, Settled
    <3>5. \A i \in Slots : heap[0].val <= heap[i].val
      BY <3>1, IdleRootIsMin DEF RootIsMin
    <3>6. \A f \in Queue!Armed : ExpireAt[e] <= ExpireAt[f]
      BY <3>1, <3>2, <3>3, <3>4, <3>5, IdleExpireAt DEF Queue!Armed
    <3>7. Queue!FireNext(e)
      BY <3>1, <3>2, <3>6 DEF Queue!FireNext
    <3> QED BY <3>1, <3>7 DEF Queue!Next
  <2>5. CASE heap_up
    <3>1. CASE UpContinues /\ move(heap_parent(pos))
      <4>1. heap_parent(pos) \in 0 .. len - 1 /\ heap_parent(pos) # pos /\ pc # "idle"
        BY <2>5, <3>1, InFlight, ParentOf DEF heap_up, UpContinues
      <4> QED BY <3>1, <4>1, MoveRefines DEF move
    <3>2. CASE place
      BY <2>5, <3>2, PlaceRefines DEF heap_up, place
    <3> QED BY <2>5, <3>1, <3>2 DEF heap_up
  <2>6. CASE heap_down
    <3>1. pc = "heap_down" /\ pc # "idle"
      BY <2>6 DEF heap_down
    <3>2. CASE min_pos # pos /\ move(min_pos)
      <4>1. min_pos \in 0 .. len - 1
        BY <3>1, <3>2, MinPos
      <4> QED BY <3>1, <3>2, <4>1, MoveRefines DEF move
    <3>3. CASE place
      BY <3>1, <3>3, PlaceRefines DEF place
    <3> QED BY <2>6, <3>2, <3>3 DEF heap_down
  <2>7. CASE UNCHANGED vars
    BY <2>7 DEF vars, ExpireAt
  <2> QED
    BY <2>1, <2>2, <2>3, <2>4, <2>5, <2>6, <2>7 DEF Next
<1> QED
  BY <1>1, <1>2, HeapInvariant, PTL DEF Spec, ImplementsQueue, Queue!Spec

=============================================================================
