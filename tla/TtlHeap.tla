------------------------------- MODULE TtlHeap -------------------------------
(***************************************************************************)
(* The TTL timers of the server: the binary heap g_data.heap (heap.cpp)    *)
(* with the operations server.cpp builds on it (heap_upsert, heap_delete,  *)
(* entry_set_ttl) and the index every Entry keeps of its own heap slot     *)
(* (Entry.heap_idx, written through HeapItem.ref while items move).        *)
(*                                                                         *)
(* An operation starts with an action of its own and then runs the loop of *)
(* heap_up or heap_down one iteration per step; no operation starts before *)
(* the loop of the previous one has ended (there is one event-loop thread).*)
(* While a loop runs, slot `pos' is a hole: the item that belongs there is *)
(* in the local variable t of heap_up / heap_down.                         *)
(***************************************************************************)
EXTENDS Integers

CONSTANTS
  Entry,      \* the Entry objects (struct Entry, by address)
  Deadline,   \* the values expire_at may take
  None        \* no entry, no item, no answer

ASSUME HeapConstants ==
  /\ Deadline \subseteq Nat
  /\ None \notin Entry
  /\ None \notin Nat

VARIABLES
  heap,       \* g_data.heap: the items, indexed from 0
  len,        \* g_data.heap.size()
  idx,        \* Entry.heap_idx of every entry
  pc,         \* "idle", or the loop that is running
  pos,        \* pos of heap_up / heap_down
  t,          \* t of heap_up / heap_down
  victim,     \* the entry whose heap_idx entry_set_ttl clears on its way out
  answer,     \* what do_ttl last read
  fired       \* the entry process_timers last took from the heap

vars == <<heap, len, idx, pc, pos, t, victim, answer, fired>>

HeapItem == [val : Deadline, ref : Entry]

\* (size_t)-1 is above every vector size: it is never `< a.size()'.
NoIdx == -1

Slots == 0 .. len - 1

TypeOK ==
  /\ len \in Nat
  /\ heap \in [Slots -> HeapItem]
  /\ idx \in [Entry -> Nat \cup {NoIdx}]
  /\ pc \in {"idle", "heap_up", "heap_down"}
  /\ pos \in Nat
  /\ pc # "idle" => pos \in Slots
  /\ t \in HeapItem \cup {None}
  /\ pc # "idle" => t \in HeapItem
  /\ victim \in Entry \cup {None}
  /\ answer \in Deadline \cup {None}
  /\ fired \in Entry \cup {None}

Init ==
  /\ heap = [i \in {} |-> None]
  /\ len = 0
  /\ idx = [e \in Entry |-> NoIdx]
  /\ pc = "idle"
  /\ pos = 0
  /\ t = None
  /\ victim = None
  /\ answer = None
  /\ fired = None

-----------------------------------------------------------------------------
heap_parent(i) == (i + 1) \div 2 - 1
heap_left(i) == i * 2 + 1
heap_right(i) == i * 2 + 2

\* Faulty variant of heap_update: the item never moves towards the root.
heap_update_only_down(a, p, n) ==
  /\ heap' = a
  /\ len' = n
  /\ pos' = p
  /\ t' = a[p]
  /\ pc' = "heap_down"

\* heap_update(a, p, n) up to the first iteration of the loop it chooses.
heap_update(a, p, n) ==
  /\ heap' = a
  /\ len' = n
  /\ pos' = p
  /\ t' = a[p]
  /\ pc' = IF p > 0 /\ a[heap_parent(p)].val > a[p].val
           THEN "heap_up" ELSE "heap_down"

\* heap_upsert(a, heap_idx, {d, &heap_idx}): overwrite the slot or push_back.
heap_upsert(e, d) ==
  LET item == [val |-> d, ref |-> e]
      n == IF idx[e] \in Slots THEN len ELSE len + 1
      p == IF idx[e] \in Slots THEN idx[e] ELSE len
  IN  /\ heap_update([i \in 0 .. n - 1 |-> IF i = p THEN item ELSE heap[i]], p, n)
      /\ victim' = None
      /\ UNCHANGED idx

\* heap_delete(a, heap_idx) and the reset of heap_idx that follows it: the
\* last item replaces the erased one and is sifted, unless it was the last.
heap_delete(e) ==
  LET p == idx[e]
      n == len - 1
      a == [i \in 0 .. n - 1 |-> IF i = p THEN heap[n] ELSE heap[i]]
  IN  \/ /\ p < n
         /\ heap_update(a, p, n)
         /\ victim' = e
         /\ UNCHANGED idx
      \/ /\ p >= n
         /\ heap' = a
         /\ len' = n
         /\ idx' = [idx EXCEPT ![e] = NoIdx]
         /\ UNCHANGED <<pc, pos, t, victim>>

\* entry_set_ttl with ttl_ms >= 0 (do_expire).
entry_set_ttl(e, d) ==
  /\ pc = "idle"
  /\ heap_upsert(e, d)
  /\ answer' = None
  /\ fired' = None

\* entry_set_ttl with ttl_ms < 0 (do_expire, entry_del); nothing to do for an
\* entry that has no TTL.
entry_clear_ttl(e) ==
  /\ pc = "idle"
  /\ idx[e] # NoIdx
  /\ heap_delete(e)
  /\ answer' = None
  /\ fired' = None

\* do_ttl of an entry that has a TTL: g_data.heap[ent->heap_idx].val.
do_ttl(e) ==
  /\ pc = "idle"
  /\ idx[e] # NoIdx
  /\ answer' = heap[idx[e]].val
  /\ fired' = None
  /\ UNCHANGED <<heap, len, idx, pc, pos, t, victim>>

\* process_timers takes the entry at the root and deletes it (entry_del).
process_timers ==
  /\ pc = "idle"
  /\ len > 0
  /\ idx[heap[0].ref] # NoIdx
  /\ heap_delete(heap[0].ref)
  /\ answer' = None
  /\ fired' = heap[0].ref

-----------------------------------------------------------------------------
\* Faulty variant of place: heap_idx of the deleted entry is not reset.
place_keeps_victim ==
  /\ heap' = [heap EXCEPT ![pos] = t]
  /\ idx' = [idx EXCEPT ![t.ref] = pos]
  /\ pc' = "idle"
  /\ pos' = 0
  /\ t' = None
  /\ victim' = None
  /\ UNCHANGED <<len, answer, fired>>

\* The end of heap_up / heap_down: t lands in the hole.  When the operation
\* was a deletion, entry_set_ttl then clears heap_idx of the deleted entry.
place ==
  /\ heap' = [heap EXCEPT ![pos] = t]
  /\ idx' = [e \in Entry |-> IF e = victim THEN NoIdx
                             ELSE IF e = t.ref THEN pos ELSE idx[e]]
  /\ pc' = "idle"
  /\ pos' = 0
  /\ t' = None
  /\ victim' = None
  /\ UNCHANGED <<len, answer, fired>>

\* Faulty variant of move: the entry is not told where its item is now.
move_silently(from) ==
  /\ heap' = [heap EXCEPT ![pos] = heap[from]]
  /\ pos' = from
  /\ UNCHANGED <<len, idx, pc, t, victim, answer, fired>>

\* One iteration: the item of slot `from' moves into the hole and is told so.
move(from) ==
  /\ heap' = [heap EXCEPT ![pos] = heap[from]]
  /\ idx' = [idx EXCEPT ![heap[from].ref] = pos]
  /\ pos' = from
  /\ UNCHANGED <<len, pc, t, victim, answer, fired>>

UpContinues == pos > 0 /\ heap[heap_parent(pos)].val > t.val

heap_up ==
  /\ pc = "heap_up"
  /\ \/ UpContinues /\ move(heap_parent(pos))
     \/ ~UpContinues /\ place

\* Faulty variant of min_pos: the right child is compared with t instead of
\* with the smaller one of t and the left child.
min_pos_any_child ==
  LET l == heap_left(pos)
      r == heap_right(pos)
  IN  IF r < len /\ heap[r].val < t.val THEN r
      ELSE IF l < len /\ heap[l].val < t.val THEN l ELSE pos

\* min_pos: the hole itself, or the child that must move up into it.
min_pos ==
  LET l == heap_left(pos)
      r == heap_right(pos)
      lless == l < len /\ heap[l].val < t.val
      min_val == IF lless THEN heap[l].val ELSE t.val
  IN  IF r < len /\ heap[r].val < min_val THEN r
      ELSE IF lless THEN l ELSE pos

heap_down ==
  /\ pc = "heap_down"
  /\ \/ min_pos # pos /\ move(min_pos)
     \/ min_pos = pos /\ place

Next ==
  \/ \E e \in Entry, d \in Deadline : entry_set_ttl(e, d)
  \/ \E e \in Entry : entry_clear_ttl(e)
  \/ \E e \in Entry : do_ttl(e)
  \/ process_timers
  \/ heap_up
  \/ heap_down

Spec == Init /\ [][Next]_vars

-----------------------------------------------------------------------------
(***************************************************************************)
(* Properties.                                                             *)
(***************************************************************************)

\* Between operations every item knows its entry and every entry its item:
\* heap_idx of the entry behind slot i is i, and an entry whose heap_idx is set
\* finds its own item there.  do_ttl, heap_upsert and heap_delete all index the
\* vector with heap_idx unchecked, and process_timers casts heap[0].ref back to
\* the entry; the "skip stale entry" branch of process_timers is dead code.
RefsExact ==
  pc = "idle" =>
    /\ \A i \in Slots : idx[heap[i].ref] = i
    /\ \A e \in Entry : idx[e] # NoIdx => /\ idx[e] \in Slots
                                          /\ heap[idx[e]].ref = e

\* Between operations heap[0] is due first: next_timer_ms sleeps until heap[0]
\* and process_timers stops at the first heap[0] that is not due, so a smaller
\* deadline deeper in the heap would be missed.
RootIsMin ==
  pc = "idle" => \A i \in Slots : heap[0].val <= heap[i].val

\* The deadline of each entry, also while items are on the move.
ExpireAt ==
  [e \in Entry |->
     IF e = victim \/ (idx[e] = NoIdx /\ ~(pc # "idle" /\ t.ref = e)) THEN None
     ELSE IF pc # "idle" /\ t.ref = e THEN t.val
     ELSE heap[idx[e]].val]

Queue == INSTANCE TtlQueue WITH expire <- ExpireAt

\* The heap with its back-references is a TTL queue: no upsert, deletion or
\* sift loses, duplicates or changes the deadline of any entry, PTTL reads the
\* entry's own deadline, and the entry process_timers takes is due first.
ImplementsQueue == Queue!Spec

-----------------------------------------------------------------------------
(***************************************************************************)
(* The inductive invariant.  It says of every intermediate state of a sift *)
(* what RefsExact and RootIsMin say of the states between operations.      *)
(***************************************************************************)

\* Slots whose content is valid: all but the hole of a running sift.
Settled(i) == i \in Slots /\ (pc = "idle" \/ i # pos)

\* The item held outside of the heap belongs to e.
Held(e) == pc # "idle" /\ t.ref = e

RefInv ==
  /\ \A i \in Slots : Settled(i) => /\ idx[heap[i].ref] = i
                                    /\ heap[i].ref # victim
                                    /\ ~Held(heap[i].ref)
  /\ \A e \in Entry : idx[e] # NoIdx /\ e # victim /\ ~Held(e) =>
                        Settled(idx[e]) /\ heap[idx[e]].ref = e
  /\ pc = "idle" => victim = None
  /\ ~(victim # None /\ Held(victim))

OrderInv ==
  /\ \A i \in Slots : i > 0 /\ Settled(i) /\ Settled(heap_parent(i)) =>
                        heap[heap_parent(i)].val <= heap[i].val
  /\ pc # "idle" =>
       \A i \in Slots : i > 0 /\ heap_parent(i) = pos =>
         /\ pos > 0 => heap[heap_parent(pos)].val <= heap[i].val
         /\ pc = "heap_up" => t.val <= heap[i].val
  /\ pc = "heap_down" /\ pos > 0 => heap[heap_parent(pos)].val <= t.val

\* The invariant the proofs rest on: in the middle of a sift only the hole is
\* out of order, and every item outside of it is where its entry believes.
HeapInv == TypeOK /\ RefInv /\ OrderInv

=============================================================================
