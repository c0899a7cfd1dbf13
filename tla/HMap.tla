-------------------------------- MODULE HMap --------------------------------
(***************************************************************************)
(* hashtable.cpp: the chained hash table that resizes progressively.  Two  *)
(* tables exist while a resize is under way; every operation moves at most *)
(* k_rehasing_work nodes from the older to the newer one.                  *)
(*                                                                         *)
(* An operation starts with an action of its own, runs the loop of         *)
(* hm_help_rehashing one iteration per step, and ends.  A chain is a set:  *)
(* the order in it is only seen by hm_foreach.  Nodes stand for their      *)
(* keys: every caller looks the key up before it inserts a node for it.    *)
(***************************************************************************)
EXTENDS Integers, FiniteSets

CONSTANTS
  Node,                \* HNode objects
  hcode,               \* HNode.hcode of each of them
  k_init_slots,        \* the size of the first table: 4 in hm_insert
  k_max_load_factor,
  k_rehasing_work,
  None                 \* a null pointer

ASSUME HMapConstants ==
  /\ hcode \in [Node -> Nat]
  /\ k_init_slots \in Nat /\ k_init_slots > 1
  /\ k_max_load_factor \in Nat \ {0}
  /\ k_rehasing_work \in Nat \ {0}
  /\ None \notin Node

VARIABLES
  newer, older,        \* hmap->newer, hmap->older
  migrate_pos,         \* hmap->migrate_pos
  pc,                  \* "idle", or "rehash" in the loop of hm_help_rehashing
  op, key,             \* the operation under way and its argument
  nwork,               \* nwork of hm_help_rehashing
  answer               \* what the last hm_lookup or hm_delete returned

vars == <<newer, older, migrate_pos, pc, op, key, nwork, answer>>

\* struct HTab; slots is mask + 1, and 0 when tab is NULL.
NoTab == [slots |-> 0, tab |-> [i \in {} |-> {}], size |-> 0]

h_init(n) == [slots |-> n, tab |-> [i \in 0 .. n - 1 |-> {}], size |-> 0]

\* hcode & mask, mask + 1 being a power of two.
Slot(htab, n) == hcode[n] % htab.slots

h_insert(htab, n) ==
  [htab EXCEPT !.tab[Slot(htab, n)] = @ \cup {n}, !.size = @ + 1]

\* Is the node found where h_lookup looks for it?
h_lookup(htab, n) == htab.slots > 0 /\ n \in htab.tab[Slot(htab, n)]

\* Faulty variant of h_detach: the size is not decremented.
h_detach_keeps_size(htab, p, n) ==
  [htab EXCEPT !.tab[p] = @ \ {n}]

\* h_detach of a node of the chain in slot p.
h_detach(htab, p, n) ==
  [htab EXCEPT !.tab[p] = @ \ {n}, !.size = @ - 1]

\* The nodes in the chains of a table, wherever they are.
Nodes(htab) == UNION {htab.tab[i] : i \in 0 .. htab.slots - 1}

IsTab(htab) ==
  /\ DOMAIN htab = {"slots", "tab", "size"}
  /\ htab.slots \in Nat
  /\ htab.tab \in [0 .. htab.slots - 1 -> SUBSET Node]
  /\ htab.size \in Nat

TypeOK ==
  /\ IsTab(newer) /\ IsTab(older)
  /\ migrate_pos \in Nat
  /\ pc \in {"idle", "rehash"}
  /\ op \in {"insert", "lookup", "delete"}
  /\ key \in Node \cup {None}
  /\ pc = "rehash" => key \in Node
  /\ nwork \in 0 .. k_rehasing_work
  /\ answer \in Node \cup {None}

Init ==
  /\ newer = NoTab /\ older = NoTab
  /\ migrate_pos = 0
  /\ pc = "idle"
  /\ op = "lookup" /\ key = None
  /\ nwork = 0
  /\ answer = None

-----------------------------------------------------------------------------
Begin(o, n) ==
  /\ pc = "idle"
  /\ pc' = "rehash"
  /\ op' = o
  /\ key' = n
  /\ nwork' = 0

\* Faulty variant of hm_trigger_rehashing: migrate_pos keeps its old value.
hm_trigger_rehashing_no_reset(htab) ==
  /\ older' = htab
  /\ newer' = h_init(htab.slots * 2)
  /\ UNCHANGED migrate_pos

\* hm_trigger_rehashing: newer becomes older, and newer is empty and twice as
\* large.
hm_trigger_rehashing(htab) ==
  /\ older' = htab
  /\ newer' = h_init(htab.slots * 2)
  /\ migrate_pos' = 0

\* Faulty variant of hm_insert: the table may be full for one more operation.
hm_insert_late(n) ==
  LET tab == h_insert(IF newer.slots = 0 THEN h_init(k_init_slots) ELSE newer, n)
      full == older.slots = 0 /\ tab.size > tab.slots * k_max_load_factor
  IN  /\ n \notin Nodes(newer) \cup Nodes(older)
      /\ Begin("insert", n)
      /\ \/ full /\ hm_trigger_rehashing(tab)
         \/ ~full /\ newer' = tab /\ UNCHANGED <<older, migrate_pos>>
      /\ answer' = None

\* hm_insert up to its call of hm_help_rehashing.
hm_insert(n) ==
  LET tab == h_insert(IF newer.slots = 0 THEN h_init(k_init_slots) ELSE newer, n)
      full == older.slots = 0 /\ tab.size >= tab.slots * k_max_load_factor
  IN  /\ n \notin Nodes(newer) \cup Nodes(older)
      /\ Begin("insert", n)
      /\ \/ full /\ hm_trigger_rehashing(tab)
         \/ ~full /\ newer' = tab /\ UNCHANGED <<older, migrate_pos>>
      /\ answer' = None

hm_lookup(n) ==
  /\ Begin("lookup", n)
  /\ UNCHANGED <<newer, older, migrate_pos, answer>>

hm_delete(n) ==
  /\ Begin("delete", n)
  /\ UNCHANGED <<newer, older, migrate_pos, answer>>

hm_clear ==
  /\ pc = "idle"
  /\ newer' = NoTab /\ older' = NoTab
  /\ migrate_pos' = 0
  /\ answer' = None
  /\ UNCHANGED <<pc, op, key, nwork>>

-----------------------------------------------------------------------------
(* hm_help_rehashing *)
\* Faulty variant of the loop condition: one unit of work too many.
Working_one_more == pc = "rehash" /\ nwork <= k_rehasing_work /\ older.size > 0

Working == pc = "rehash" /\ nwork < k_rehasing_work /\ older.size > 0

\* Faulty variant of rehash_skip: the loop continues at the same slot.
rehash_skip_in_place ==
  /\ Working
  /\ older.tab[migrate_pos] = {}
  /\ UNCHANGED vars

\* The slot is empty.
rehash_skip ==
  /\ Working
  /\ older.tab[migrate_pos] = {}
  /\ migrate_pos' = migrate_pos + 1
  /\ UNCHANGED <<newer, older, pc, op, key, nwork, answer>>

\* The first node of the chain moves to the newer table.
rehash_move ==
  /\ Working
  /\ \E n \in older.tab[migrate_pos] :
       /\ older' = h_detach(older, migrate_pos, n)
       /\ newer' = h_insert(newer, n)
  /\ nwork' = nwork + 1
  /\ UNCHANGED <<migrate_pos, pc, op, key, answer>>

\* Faulty variant of older_left: the older table is freed after every call.
older_left_always_freed == NoTab

\* older after the loop: freed when it is empty.
older_left == IF older.size = 0 THEN NoTab ELSE older

\* The end of the operation that called hm_help_rehashing.
finish ==
  /\ pc = "rehash"
  /\ ~Working
  /\ \/ /\ op = "insert"
        /\ older' = older_left
        /\ UNCHANGED <<newer, answer>>
     \/ /\ op = "lookup"
        /\ answer' = IF h_lookup(newer, key) \/ h_lookup(older_left, key)
                     THEN key ELSE None
        /\ older' = older_left
        /\ UNCHANGED newer
     \/ /\ op = "delete"
        /\ h_lookup(newer, key)
        /\ newer' = h_detach(newer, Slot(newer, key), key)
        /\ older' = older_left
        /\ answer' = key
     \/ /\ op = "delete"
        /\ ~h_lookup(newer, key)
        /\ h_lookup(older_left, key)
        /\ older' = h_detach(older_left, Slot(older_left, key), key)
        /\ UNCHANGED newer
        /\ answer' = key
     \/ /\ op = "delete"
        /\ ~h_lookup(newer, key) /\ ~h_lookup(older_left, key)
        /\ older' = older_left
        /\ answer' = None
        /\ UNCHANGED newer
  /\ pc' = "idle"
  /\ UNCHANGED <<migrate_pos, op, key, nwork>>

Next ==
  \/ \E n \in Node : hm_insert(n) \/ hm_lookup(n) \/ hm_delete(n)
  \/ hm_clear
  \/ rehash_skip \/ rehash_move \/ finish

Spec == Init /\ [][Next]_vars

\* The loop runs on the event-loop thread, which is never stopped in it.
FairSpec == Spec /\ WF_vars(rehash_skip \/ rehash_move \/ finish)

-----------------------------------------------------------------------------
(***************************************************************************)
(* Properties.                                                             *)
(***************************************************************************)

\* hm_size and hm_foreach, which do_keys combines into one reply: the header
\* counts hm_size elements and hm_foreach writes them.  h_foreach skips a table
\* whose mask is 0.
hm_size == newer.size + older.size
h_foreach(htab) == IF htab.slots > 1 THEN Nodes(htab) ELSE {}
hm_foreach == h_foreach(newer) \cup h_foreach(older)

\* KEYS announces exactly as many elements as it sends, also in the middle of
\* a resize: no node is counted twice, lost, or in both tables.
KeysReplyComplete ==
  /\ Nodes(newer) \cap Nodes(older) = {}
  /\ hm_size = Cardinality(hm_foreach)

\* hm_help_rehashing reads older.tab[migrate_pos] without a check: as long as
\* it has work to do, migrate_pos is a slot of the older table.
MigrateInBounds == Working => migrate_pos < older.slots

\* Between operations the newer table is below the load factor, even while the
\* older one is still being drained and a resize cannot be triggered: the
\* resize always ends before the next one is due.
LoadBounded ==
  pc = "idle" /\ newer.slots > 0 => newer.size < newer.slots * k_max_load_factor

\* A table is in order: every node is in the chain of its hash code, where
\* h_lookup looks for it, and size counts the nodes.  No table has one slot.
TabInv(htab) ==
  /\ htab.slots # 1
  /\ \A i \in 0 .. htab.slots - 1 : \A n \in htab.tab[i] : Slot(htab, n) = i
  /\ IsFiniteSet(Nodes(htab)) /\ htab.size = Cardinality(Nodes(htab))

\* The resize: there is a newer table to move to, no node is in both tables,
\* and the slots before migrate_pos are drained.
DrainInv ==
  /\ older.slots > 0 => newer.slots > 0
  /\ Nodes(newer) \cap Nodes(older) = {}
  /\ \A i \in 0 .. older.slots - 1 : i < migrate_pos => older.tab[i] = {}

\* The room left in the newer table: each node still to be moved needs one
\* place, and an insertion that may come with it another one.  hm_insert uses
\* the reserve up, and the first node that is moved afterwards restores it.
LoadInv ==
  LET cap == newer.slots * k_max_load_factor
  IN  newer.slots > 0 =>
        /\ older.size = 0 => newer.size < cap
        /\ older.size > 0 => newer.size + 2 * older.size <= cap
        /\ older.size > 0 /\ ~(pc = "rehash" /\ op = "insert" /\ nwork = 0)
             => newer.size + 2 * older.size < cap
        /\ pc = "idle" /\ older.slots > 0 => newer.size + 2 < cap

\* The inductive invariant of the table, in and between operations.
HMapInv == TypeOK /\ TabInv(newer) /\ TabInv(older) /\ DrainInv /\ LoadInv

Set == INSTANCE NodeSet WITH members <- Nodes(newer) \cup Nodes(older)

\* A resize is invisible: whatever its state, hm_lookup and hm_delete find a
\* node if and only if it was inserted and not deleted.
ImplementsSet == Set!Spec

\* Every call of hm_help_rehashing returns.
RehashEnds == pc = "rehash" ~> pc = "idle"

=============================================================================
