-------------------------- MODULE EventLoopProofs --------------------------
(***************************************************************************)
(* Machine-checked proofs about EventLoop, for any number of connections,  *)
(* descriptors and entries and all values of its constants: the inductive  *)
(* invariant LoopInv and what it implies about fd2conn, the idle list, the *)
(* sleep of poll(), its events and the state of each connection.           *)
(***************************************************************************)
EXTENDS EventLoop, TLAPS, WellFoundedInduction, FiniteSetTheorems

\* Every non-empty set of natural numbers has a least element.
LEMMA LeastNat ==
  ASSUME NEW S \in SUBSET Nat, S # {}
  PROVE  \E m \in S : \A k \in S : m <= k
<1>1. PICK m \in S : \A k \in S : ~(<<k, m>> \in OpToRel(<, Nat))
  BY NatLessThanWellFounded, WFMin, Zenon
<1>2. ASSUME NEW k \in S PROVE m <= k
  <2>1. ~(<<k, m>> \in OpToRel(<, Nat))
    BY <1>1, Zenon
  <2>2. ~(k < m)
    BY <2>1 DEF OpToRel
  <2> QED
    BY <2>2
<1> QED
  BY <1>2

\* Min chooses it.
LEMMA MinIsLeast ==
  ASSUME NEW S \in SUBSET Nat, S # {}
  PROVE  Min(S) \in S /\ \A k \in S : Min(S) <= k
<1>1. \E m \in S : \A k \in S : m <= k
  BY LeastNat
<1> QED BY <1>1 DEF Min

-----------------------------------------------------------------------------
(* The operations of list.h. *)

Anchor == Conn \cup {ListHead}
IsDList(l) ==
  l \in [next : [Anchor -> Anchor \cup {None}], prev : [Anchor -> Anchor \cup {None}]]

\* n different nodes.
IsNodes(list, n) ==
  /\ n \in Nat /\ list \in [1 .. n -> Conn]
  /\ \A i, j \in 1 .. n : i # j => list[i] # list[j]

\* What the three operations leave in the pointers.
LEMMA DetachPointers ==
  ASSUME NEW l, IsDList(l), NEW c \in Conn,
         NEW m, m = dlist_detach(l, c)
  PROVE  /\ IsDList(m)
         /\ \A x \in Anchor :
              /\ m.next[x] = IF x = l.prev[c] THEN l.next[c] ELSE l.next[x]
              /\ m.prev[x] = IF x = l.next[c] THEN l.prev[c] ELSE l.prev[x]
BY DEF IsDList, Anchor, dlist_detach

\* dlist_insert_before links a node at the end of the list.
LEMMA InsertPointers ==
  ASSUME NEW l, IsDList(l), NEW c \in Conn,
         NEW m, m = dlist_insert_before(l, ListHead, c)
  PROVE  /\ IsDList(m)
         /\ \A x \in Anchor :
              /\ m.next[x] = IF x = c THEN ListHead
                             ELSE IF x = l.prev[ListHead] THEN c ELSE l.next[x]
              /\ m.prev[x] = IF x = ListHead THEN c
                             ELSE IF x = c THEN l.prev[ListHead] ELSE l.prev[x]
BY LoopConstants DEF IsDList, Anchor, dlist_insert_before

\* The other pointers outlive a deleted node.
LEMMA DeletedPointers ==
  ASSUME NEW l, IsDList(l), NEW c \in Conn,
         NEW m, m = deleted(l, c)
  PROVE  /\ IsDList(m)
         /\ \A x \in Anchor : x # c => m.next[x] = l.next[x] /\ m.prev[x] = l.prev[x]
BY DEF IsDList, Anchor, deleted

\* Going round a list of different nodes, only the head comes twice.
LEMMA RoundNodes ==
  ASSUME NEW list, NEW n, IsNodes(list, n), NEW at, at = Round(list, n)
  PROVE  /\ at[0] = ListHead /\ at[n + 1] = ListHead
         /\ \A i \in 1 .. n : at[i] = list[i] /\ at[i] \in Conn
         /\ \A i \in 0 .. n + 1 : at[i] \in Anchor
         /\ \A i, j \in 0 .. n : i # j => at[i] # at[j]
         /\ \A i, j \in 1 .. n + 1 : i # j => at[i] # at[j]
BY LoopConstants DEF IsNodes, Round, Anchor

\* The list without its p-th node, and with a node at its end.
Without(list, n, p) == [i \in 1 .. n - 1 |-> IF i < p THEN list[i] ELSE list[i + 1]]
With(list, n, c) == [i \in 1 .. n + 1 |-> IF i = n + 1 THEN c ELSE list[i]]

\* dlist_detach takes the node out and leaves the others in their order.
LEMMA DetachLinked ==
  ASSUME NEW l, IsDList(l), NEW list, NEW n, IsNodes(list, n), Linked(l, list, n),
         NEW p \in 1 .. n
  PROVE  /\ IsNodes(Without(list, n, p), n - 1)
         /\ Linked(dlist_detach(l, list[p]), Without(list, n, p), n - 1)
         /\ \A i \in 1 .. n - 1 : Without(list, n, p)[i] # list[p]
<1> DEFINE m == dlist_detach(l, list[p])
           out == Without(list, n, p)
           at == Round(list, n)
           at2 == Round(out, n - 1)
<1>1. n \in Nat /\ list[p] \in Conn /\ n - 1 \in Nat
  BY DEF IsNodes
<1>2. IsNodes(out, n - 1) /\ \A i \in 1 .. n - 1 : out[i] # list[p]
  BY <1>1 DEF IsNodes, Without
<1>3. /\ at[0] = ListHead /\ at[n + 1] = ListHead
      /\ \A i \in 1 .. n : at[i] = list[i] /\ at[i] \in Conn
      /\ \A i \in 0 .. n + 1 : at[i] \in Anchor
      /\ \A i, j \in 0 .. n : i # j => at[i] # at[j]
      /\ \A i, j \in 1 .. n + 1 : i # j => at[i] # at[j]
  BY RoundNodes
<1>4. \A i \in 0 .. n : l.next[at[i]] = at[i + 1] /\ l.prev[at[i + 1]] = at[i]
  BY DEF Linked
<1>5. \A i \in 0 .. n : at2[i] = IF i < p THEN at[i] ELSE at[i + 1]
  BY <1>1 DEF Round, Without
<1>6. at[p] = list[p] /\ l.prev[list[p]] = at[p - 1] /\ l.next[list[p]] = at[p + 1]
  <2>1. p - 1 \in 0 .. n /\ (p - 1) + 1 = p /\ p \in 0 .. n
    BY <1>1
  <2> QED BY <1>3, <1>4, <2>1
<1>7. \A x \in Anchor :
        /\ m.next[x] = IF x = at[p - 1] THEN at[p + 1] ELSE l.next[x]
        /\ m.prev[x] = IF x = at[p + 1] THEN at[p - 1] ELSE l.prev[x]
  BY <1>1, <1>6, DetachPointers
<1> HIDE DEF m, out, at, at2
<1>8. ASSUME NEW i \in 0 .. n - 1
      PROVE  m.next[at2[i]] = at2[i + 1] /\ m.prev[at2[i + 1]] = at2[i]
  <2>1. CASE i < p - 1
    <3>1. at2[i] = at[i] /\ at2[i + 1] = at[i + 1]
      BY <1>1, <1>5, <2>1
    <3>2. at[i] # at[p - 1] /\ at[i + 1] # at[p + 1]
      BY <1>1, <1>3, <2>1
    <3> QED BY <1>1, <1>3, <1>4, <1>7, <3>1, <3>2
  <2>2. CASE i = p - 1
    <3>1. at2[i] = at[p - 1] /\ at2[i + 1] = at[p + 1]
      BY <1>1, <1>5, <2>2
    <3> QED BY <1>1, <1>3, <1>7, <3>1
  <2>3. CASE i > p - 1
    <3>1. /\ at2[i] = at[i + 1] /\ at2[i + 1] = at[(i + 1) + 1]
          /\ i + 1 \in 0 .. n /\ (i + 1) + 1 \in 0 .. n + 1
      BY <1>1, <1>5, <2>3
    <3>2. at[i + 1] # at[p - 1] /\ at[(i + 1) + 1] # at[p + 1]
      BY <1>1, <1>3, <2>3
    <3>3. /\ at[i + 1] \in Anchor /\ at[(i + 1) + 1] \in Anchor
          /\ l.next[at[i + 1]] = at[(i + 1) + 1] /\ l.prev[at[(i + 1) + 1]] = at[i + 1]
      BY <1>1, <1>3, <1>4, <3>1
    <3> QED BY <1>7, <3>1, <3>2, <3>3
  <2> QED BY <1>1, <2>1, <2>2, <2>3
<1>9. Linked(m, out, n - 1)
  BY <1>8 DEF Linked, at2
<1> QED BY <1>2, <1>9 DEF m, out

\* dlist_insert_before(&g_data.idle_list, ...) puts a node at the end.
LEMMA InsertLinked ==
  ASSUME NEW l, IsDList(l), NEW list, NEW n, IsNodes(list, n), Linked(l, list, n),
         NEW c \in Conn, \A i \in 1 .. n : list[i] # c
  PROVE  /\ IsNodes(With(list, n, c), n + 1)
         /\ Linked(dlist_insert_before(l, ListHead, c), With(list, n, c), n + 1)
<1> DEFINE m == dlist_insert_before(l, ListHead, c)
           in == With(list, n, c)
           at == Round(list, n)
           at2 == Round(in, n + 1)
<1>1. n \in Nat
  BY DEF IsNodes
<1>2. IsNodes(in, n + 1)
  BY <1>1 DEF IsNodes, With
<1>3. /\ at[0] = ListHead /\ at[n + 1] = ListHead
      /\ \A i \in 1 .. n : at[i] = list[i] /\ at[i] \in Conn
      /\ \A i \in 0 .. n + 1 : at[i] \in Anchor
      /\ \A i, j \in 0 .. n : i # j => at[i] # at[j]
  BY RoundNodes
<1>4. \A i \in 0 .. n : l.next[at[i]] = at[i + 1] /\ l.prev[at[i + 1]] = at[i]
  BY DEF Linked
<1>5. /\ \A i \in 0 .. n : at2[i] = at[i]
      /\ at2[n + 1] = c /\ at2[(n + 1) + 1] = ListHead
  BY <1>1 DEF Round, With
<1>6. l.prev[ListHead] = at[n]
  BY <1>1, <1>3, <1>4
<1>7. c # ListHead /\ \A i \in 0 .. n : at[i] # c
  <2>1. c # ListHead
    BY LoopConstants
  <2>2. \A i \in 0 .. n : i = 0 \/ i \in 1 .. n
    BY <1>1
  <2> QED BY <1>3, <2>1, <2>2
<1>8. \A x \in Anchor :
        /\ m.next[x] = IF x = c THEN ListHead ELSE IF x = at[n] THEN c ELSE l.next[x]
        /\ m.prev[x] = IF x = ListHead THEN c ELSE IF x = c THEN at[n] ELSE l.prev[x]
  BY <1>6, InsertPointers
<1> HIDE DEF m, in, at, at2
<1>9. ASSUME NEW i \in 0 .. n + 1
      PROVE  m.next[at2[i]] = at2[i + 1] /\ m.prev[at2[i + 1]] = at2[i]
  <2>1. CASE i < n
    <3>1. at2[i] = at[i] /\ at2[i + 1] = at[i + 1] /\ i \in 0 .. n /\ i + 1 \in 0 .. n
      BY <1>1, <1>5, <2>1
    <3>2. at[i] # at[n] /\ at[i + 1] # at[0]
      BY <1>1, <1>3, <2>1, <3>1
    <3>3. /\ at[i] \in Anchor /\ at[i + 1] \in Anchor
          /\ l.next[at[i]] = at[i + 1] /\ l.prev[at[i + 1]] = at[i]
          /\ at[i] # c /\ at[i + 1] # c
      BY <1>1, <1>3, <1>4, <1>7, <3>1
    <3> QED BY <1>3, <1>8, <3>1, <3>2, <3>3
  <2>2. CASE i = n
    BY <1>1, <1>3, <1>5, <1>7, <1>8, <2>2 DEF Anchor
  <2>3. CASE i = n + 1
    BY <1>1, <1>5, <1>8, <2>3 DEF Anchor
  <2> QED BY <1>1, <2>1, <2>2, <2>3
<1>10. Linked(m, in, n + 1)
  BY <1>9 DEF Linked, at2
<1> QED BY <1>2, <1>10 DEF m, in

\* Freeing an object that is not on the list leaves the list alone.
LEMMA DeletedLinked ==
  ASSUME NEW l, IsDList(l), NEW list, NEW n, IsNodes(list, n), Linked(l, list, n),
         NEW c \in Conn, \A i \in 1 .. n : list[i] # c
  PROVE  Linked(deleted(l, c), list, n)
<1> DEFINE m == deleted(l, c)
           at == Round(list, n)
<1>1. n \in Nat
  BY DEF IsNodes
<1>2. /\ at[0] = ListHead /\ at[n + 1] = ListHead
      /\ \A i \in 1 .. n : at[i] = list[i]
      /\ \A i \in 0 .. n + 1 : at[i] \in Anchor
  BY RoundNodes
<1>3. \A i \in 0 .. n : l.next[at[i]] = at[i + 1] /\ l.prev[at[i + 1]] = at[i]
  BY DEF Linked
<1>4. \A i \in 0 .. n + 1 : at[i] # c
  <2>1. c # ListHead
    BY LoopConstants
  <2>2. \A i \in 0 .. n + 1 : i = 0 \/ i \in 1 .. n \/ i = n + 1
    BY <1>1
  <2> QED BY <1>2, <2>1, <2>2
<1>5. \A x \in Anchor : x # c => m.next[x] = l.next[x] /\ m.prev[x] = l.prev[x]
  BY DeletedPointers
<1> HIDE DEF m, at
<1>6. \A i \in 0 .. n : i \in 0 .. n + 1 /\ i + 1 \in 0 .. n + 1
  BY <1>1
<1>7. \A i \in 0 .. n : m.next[at[i]] = at[i + 1] /\ m.prev[at[i + 1]] = at[i]
  BY <1>2, <1>3, <1>4, <1>5, <1>6
<1> QED BY <1>7 DEF Linked, at, m
-----------------------------------------------------------------------------
(* The connections: fd2conn, the idle list and the times of last activity. *)

\* fd2conn holds exactly the connections that exist.
Table ==
  /\ \A c \in Live : fd2conn[conn[c].fd] = c
  /\ \A fd \in Fd : fd2conn[fd] # None =>
       fd2conn[fd] \in Live /\ conn[fd2conn[fd]].fd = fd

Recent == \A c \in Live : conn[c].last_active_ms <= now

ConnInv == Table /\ IdleListExact /\ Recent

\* The witness of IdleListExact.
IdleOrder(list) ==
  /\ list \in [1 .. Cardinality(Live) -> Live]
  /\ Linked(idle_list, list, Cardinality(Live))
  /\ \A c \in Live : \E i \in DOMAIN list : list[i] = c
  /\ \A i, j \in DOMAIN list : i < j =>
       /\ list[i] # list[j]
       /\ conn[list[i]].last_active_ms <= conn[list[j]].last_active_ms

\* There are finitely many connections.
LEMMA LiveFinite == IsFiniteSet(Live) /\ Cardinality(Live) \in Nat /\ Live \subseteq Conn
<1>1. Live \subseteq Conn
  BY DEF Live
<1>2. IsFiniteSet(Live)
  BY <1>1, LoopConstants, FS_Subset
<1> QED BY <1>1, <1>2, FS_CardinalityType

\* IdleListExact says that there is such an order.
LEMMA IdleOrderExists == IdleListExact <=> \E list : IdleOrder(list)
BY DEF IdleListExact, IdleOrder

\* The connections in the order of the list are different nodes.
LEMMA IdleOrderNodes ==
  ASSUME NEW list, IdleOrder(list)
  PROVE  IsNodes(list, Cardinality(Live)) /\ DOMAIN list = 1 .. Cardinality(Live)
<1>1. /\ Cardinality(Live) \in Nat /\ DOMAIN list = 1 .. Cardinality(Live)
      /\ list \in [1 .. Cardinality(Live) -> Conn]
  BY LiveFinite DEF IdleOrder
<1>2. \A i, j \in 1 .. Cardinality(Live) : i # j => list[i] # list[j]
  <2> SUFFICES ASSUME NEW i \in 1 .. Cardinality(Live), NEW j \in 1 .. Cardinality(Live),
                      i # j
               PROVE  list[i] # list[j]
    OBVIOUS
  <2>1. i < j \/ j < i
    OBVIOUS
  <2> QED BY <1>1, <2>1 DEF IdleOrder
<1> QED BY <1>1, <1>2 DEF IsNodes

\* The object of a connection that exists.
LEMMA LiveObject ==
  ASSUME TypeOK, NEW c \in Live
  PROVE  c \in Conn /\ c # None /\ conn[c] \in ConnObject
BY LoopConstants DEF TypeOK, Live

\* A step that leaves the connections alone.
LEMMA ConnSame ==
  ASSUME TypeOK, ConnInv, UNCHANGED connVars, now' \in Nat, now <= now'
  PROVE  ConnInv' /\ Live' = Live
<1>1. Live' = Live
  BY DEF connVars, Live
<1>2. Table'
  BY <1>1 DEF ConnInv, Table, connVars
<1>3. IdleListExact'
  <2>1. IdleListExact
    BY DEF ConnInv
  <2>2. Cardinality(Live)' = Cardinality(Live) /\ idle_list' = idle_list /\ conn' = conn
    BY <1>1 DEF connVars
  <2>3. PICK list \in [1 .. Cardinality(Live) -> Live] :
          /\ Linked(idle_list, list, Cardinality(Live))
          /\ \A c \in Live : \E i \in DOMAIN list : list[i] = c
          /\ \A i, j \in DOMAIN list : i < j =>
               /\ list[i] # list[j]
               /\ conn[list[i]].last_active_ms <= conn[list[j]].last_active_ms
    BY <2>1 DEF IdleListExact
  <2>4. \A c \in Live' : \E i \in DOMAIN list : list[i] = c
    BY <1>1, <2>3
  <2>5. \A i, j \in DOMAIN list : i < j =>
          list[i] # list[j] /\ conn'[list[i]].last_active_ms <= conn'[list[j]].last_active_ms
    BY <2>2, <2>3
  <2>6. list \in [1 .. Cardinality(Live)' -> Live'] /\ Linked(idle_list', list, Cardinality(Live)')
    BY <1>1, <2>2, <2>3
  <2> QED BY <2>4, <2>5, <2>6 DEF IdleListExact
<1>4. Recent'
  <2> SUFFICES ASSUME NEW c \in Live PROVE conn[c].last_active_ms <= now'
    BY <1>1 DEF Recent, connVars
  <2>1. conn[c].last_active_ms \in Nat /\ now \in Nat
    BY LiveObject DEF ConnObject, TypeOK
  <2> QED BY <2>1 DEF ConnInv, Recent
<1> QED BY <1>1, <1>2, <1>3, <1>4 DEF ConnInv

\* A step that changes what one connection wants, and nothing else of it.
LEMMA ConnFields ==
  ASSUME TypeOK, ConnInv, UNCHANGED <<fd2conn, idle_list, now>>,
         NEW c \in Live, NEW o \in ConnObject,
         o.fd = conn[c].fd, o.last_active_ms = conn[c].last_active_ms,
         conn' = [conn EXCEPT ![c] = o]
  PROVE  ConnInv' /\ Live' = Live /\ conn' \in [Conn -> ConnObject \cup {None}]
<1>1. conn \in [Conn -> ConnObject \cup {None}] /\ c \in Conn /\ o # None
  BY LiveObject, NullIsNoObject DEF TypeOK
<1>2. /\ conn' \in [Conn -> ConnObject \cup {None}]
      /\ \A d \in Conn : conn'[d] = IF d = c THEN o ELSE conn[d]
  BY <1>1
<1>3. Live' = Live
  BY <1>1, <1>2 DEF Live
<1>4. \A d \in Live : /\ conn'[d].fd = conn[d].fd
                      /\ conn'[d].last_active_ms = conn[d].last_active_ms
  BY <1>2 DEF Live
<1>5. Table'
  BY <1>3, <1>4 DEF ConnInv, Table
<1>6. IdleListExact'
  <2>1. PICK list : IdleOrder(list)
    BY IdleOrderExists DEF ConnInv
  <2>2. IdleOrder(list)'
    BY <1>3, <1>4, <2>1 DEF IdleOrder
  <2> QED BY <2>2 DEF IdleListExact, IdleOrder
<1>7. Recent'
  BY <1>3, <1>4 DEF ConnInv, Recent
<1> QED BY <1>2, <1>3, <1>5, <1>6, <1>7 DEF ConnInv

\* conn_destroy: the connection leaves fd2conn and the idle list.
LEMMA ConnDestroy ==
  ASSUME TypeOK, ConnInv, UNCHANGED now, NEW c \in Live, conn_destroy(c)
  PROVE  /\ ConnInv' /\ Live' = Live \ {c} /\ IsDList(idle_list')
         /\ conn' \in [Conn -> ConnObject \cup {None}]
         /\ fd2conn' \in [Fd -> Conn \cup {None}]
         /\ \A d \in Live \ {c} : conn'[d] = conn[d]
         /\ \A fd \in Fd : fd2conn'[fd] = IF fd = conn[c].fd THEN None ELSE fd2conn[fd]
<1>1. /\ conn \in [Conn -> ConnObject \cup {None}] /\ c \in Conn
      /\ fd2conn \in [Fd -> Conn \cup {None}]
      /\ conn[c].fd \in Fd
  BY LiveObject DEF TypeOK, ConnObject
<1>2. /\ conn' \in [Conn -> ConnObject \cup {None}]
      /\ \A d \in Conn : conn'[d] = IF d = c THEN None ELSE conn[d]
  BY <1>1 DEF conn_destroy
<1>3. Live' = Live \ {c}
  BY <1>1, <1>2 DEF Live
<1>4. /\ fd2conn' \in [Fd -> Conn \cup {None}]
      /\ \A fd \in Fd : fd2conn'[fd] = IF fd = conn[c].fd THEN None ELSE fd2conn[fd]
  BY <1>1 DEF conn_destroy, slot_cleared
<1>5. \A d \in Live : d \in Conn /\ conn[d].fd \in Fd
  BY LiveObject DEF ConnObject
<1>6. \A d \in Live \ {c} : conn'[d] = conn[d]
  BY <1>2 DEF Live
<1>7. Table'
  <2>1. ASSUME NEW d \in Live \ {c} PROVE fd2conn'[conn'[d].fd] = d
    <3>1. fd2conn[conn[d].fd] = d /\ fd2conn[conn[c].fd] = c
      BY DEF ConnInv, Table
    <3> QED BY <1>4, <1>5, <1>6, <3>1
  <2>2. ASSUME NEW fd \in Fd, fd2conn'[fd] # None
        PROVE  fd2conn'[fd] \in Live \ {c} /\ conn'[fd2conn'[fd]].fd = fd
    <3>1. fd # conn[c].fd /\ fd2conn'[fd] = fd2conn[fd]
      BY <1>4, <2>2
    <3>2. fd2conn[fd] \in Live /\ conn[fd2conn[fd]].fd = fd
      BY <2>2, <3>1 DEF ConnInv, Table
    <3> QED BY <1>6, <3>1, <3>2
  <2> QED BY <1>3, <2>1, <2>2 DEF Table
<1>8. IsDList(idle_list)
  BY DEF TypeOK, IsDList, Anchor
<1>9. PICK list : IdleOrder(list)
  BY IdleOrderExists DEF ConnInv
<1>n. PICK n \in Nat : n = Cardinality(Live)
  BY LiveFinite
<1>10. IsNodes(list, n) /\ DOMAIN list = 1 .. n /\ Linked(idle_list, list, n)
  BY <1>n, <1>9, IdleOrderNodes DEF IdleOrder
<1>11. PICK p \in 1 .. n : list[p] = c
  BY <1>9, <1>10 DEF IdleOrder
<1> DEFINE out == Without(list, n, p)
           l == dlist_detach(idle_list, c)
<1>12. IsDList(l)
  BY <1>1, <1>8, DetachPointers
<1>13. /\ IsNodes(out, n - 1) /\ Linked(l, out, n - 1)
       /\ \A i \in 1 .. n - 1 : out[i] # c
  BY <1>8, <1>10, <1>11, DetachLinked
<1>14. idle_list' = deleted(l, c)
  BY DEF conn_destroy
<1>15. Linked(idle_list', out, n - 1)
  <2> HIDE DEF l, out
  <2> QED BY <1>1, <1>12, <1>13, <1>14, DeletedLinked
<1>16. IsDList(idle_list')
  <2> HIDE DEF l
  <2> QED BY <1>1, <1>12, <1>14, DeletedPointers
<1>17. Cardinality(Live') = n - 1 /\ n \in Nat
  BY <1>n, <1>3, LiveFinite, FS_RemoveElement
<1>18. IdleOrder(out)'
  <2>1. /\ DOMAIN out = 1 .. n - 1
        /\ \A i \in 1 .. n - 1 : out[i] = IF i < p THEN list[i] ELSE list[i + 1]
    BY DEF Without
  <2>2. \A i \in 1 .. n - 1 : out[i] \in Live \ {c}
    <3>1. \A i \in 1 .. n : list[i] \in Live
      BY <1>n, <1>9, <1>10 DEF IdleOrder
    <3>2. \A i \in 1 .. n - 1 : i \in 1 .. n /\ i + 1 \in 1 .. n
      OBVIOUS
    <3> QED BY <1>13, <2>1, <3>1, <3>2
  <2>3. out \in [1 .. n - 1 -> Live']
    BY <1>3, <2>2 DEF Without
  <2>4. ASSUME NEW d \in Live' PROVE \E i \in 1 .. n - 1 : out[i] = d
    <3>1. PICK i \in 1 .. n : list[i] = d
      BY <1>3, <1>9, <1>10 DEF IdleOrder
    <3>2. i # p
      BY <1>3, <1>11, <3>1
    <3>3. CASE i < p
      <4>1. i \in 1 .. n - 1 /\ out[i] = d
        BY <1>17, <2>1, <3>1, <3>3
      <4> QED BY <4>1
    <3>4. CASE i > p
      <4>1. i - 1 \in 1 .. n - 1 /\ out[i - 1] = d
        BY <1>17, <2>1, <3>1, <3>4
      <4> QED BY <4>1
    <3> QED BY <3>2, <3>3, <3>4
  <2>5. ASSUME NEW i \in 1 .. n - 1, NEW j \in 1 .. n - 1, i < j
        PROVE  /\ out[i] # out[j]
               /\ conn'[out[i]].last_active_ms <= conn'[out[j]].last_active_ms
    <3>1. PICK a \in 1 .. n, b \in 1 .. n : a < b /\ out[i] = list[a] /\ out[j] = list[b]
      <4> DEFINE a == IF i < p THEN i ELSE i + 1
                 b == IF j < p THEN j ELSE j + 1
      <4>1. a \in 1 .. n /\ b \in 1 .. n /\ a < b
        BY <1>17, <2>5
      <4>2. out[i] = list[a] /\ out[j] = list[b]
        BY <2>1
      <4> QED BY <4>1, <4>2
    <3>2. list[a] # list[b] /\ conn[list[a]].last_active_ms <= conn[list[b]].last_active_ms
      BY <1>9, <1>10, <3>1 DEF IdleOrder
    <3> QED BY <1>6, <2>2, <3>1, <3>2
  <2> HIDE DEF out
  <2> QED BY <1>15, <1>17, <2>1, <2>3, <2>4, <2>5 DEF IdleOrder
<1>19. IdleListExact'
  BY <1>18 DEF IdleListExact, IdleOrder
<1>20. Recent'
  BY <1>3, <1>6 DEF ConnInv, Recent
<1> QED BY <1>2, <1>3, <1>4, <1>6, <1>7, <1>16, <1>19, <1>20 DEF ConnInv
\* handle_accept: a new connection, the most recently active one.
LEMMA ConnAccept ==
  ASSUME TypeOK, ConnInv, UNCHANGED now, NEW c \in Conn \ Live,
         Fd \ {conn[d].fd : d \in Live} # {}, handle_accept(c)
  PROVE  /\ ConnInv' /\ Live' = Live \cup {c} /\ IsDList(idle_list')
         /\ conn' \in [Conn -> ConnObject \cup {None}]
         /\ fd2conn' \in [Fd -> Conn \cup {None}]
         /\ db' \in [Conn -> SUBSET Entry]
         /\ \A d \in Live : conn'[d] = conn[d]
         /\ conn'[c].want = "read" /\ ~conn'[c].outgoing /\ ~conn'[c].want_close
         /\ \A fd \in Fd : fd2conn[fd] # None => fd2conn'[fd] = fd2conn[fd]
<1> DEFINE Free == Fd \ {conn[d].fd : d \in Live}
           fd == Min(Free)
           new == [fd |-> fd, want |-> "read", want_close |-> FALSE,
                   outgoing |-> FALSE, last_active_ms |-> now]
<1>1. /\ conn' = [conn EXCEPT ![c] = new]
      /\ idle_list' = dlist_insert_before(idle_list, ListHead, c)
      /\ db' = [db EXCEPT ![c] = {}]
      /\ fd2conn' = [fd2conn EXCEPT ![fd] = c]
  BY DEF handle_accept
<1>2. fd \in Free
  BY LoopConstants, MinIsLeast
<1> HIDE DEF fd
<1>3. /\ new \in ConnObject /\ new # None
      /\ new.fd = fd /\ new.want = "read" /\ ~new.outgoing /\ ~new.want_close
      /\ new.last_active_ms = now
  <2>1. fd \in Fd /\ now \in Nat
    BY <1>2 DEF TypeOK
  <2>2. new \in ConnObject
    BY <2>1 DEF ConnObject
  <2>3. new # None
    BY <2>2, NullIsNoObject
  <2> QED BY <2>2, <2>3
<1> HIDE DEF new
<1>4. /\ conn' \in [Conn -> ConnObject \cup {None}]
      /\ \A d \in Conn : conn'[d] = IF d = c THEN new ELSE conn[d]
      /\ fd2conn' \in [Fd -> Conn \cup {None}]
      /\ \A g \in Fd : fd2conn'[g] = IF g = fd THEN c ELSE fd2conn[g]
      /\ db' \in [Conn -> SUBSET Entry]
  BY <1>1, <1>2, <1>3 DEF TypeOK
<1>5. Live' = Live \cup {c} /\ c \notin Live /\ c # None
  BY <1>3, <1>4, LoopConstants DEF Live
<1>6. \A d \in Live : conn'[d] = conn[d] /\ d \in Conn /\ conn[d].fd \in Fd \ {fd}
  BY <1>2, <1>4, LiveObject DEF Live, ConnObject
<1>7. \A g \in Fd : fd2conn[g] # None => g # fd
  BY <1>6 DEF ConnInv, Table
<1>8. Table'
  <2>1. ASSUME NEW d \in Live \cup {c} PROVE fd2conn'[conn'[d].fd] = d
    BY <1>2, <1>3, <1>4, <1>6 DEF ConnInv, Table
  <2>2. ASSUME NEW g \in Fd, fd2conn'[g] # None
        PROVE  fd2conn'[g] \in Live \cup {c} /\ conn'[fd2conn'[g]].fd = g
    <3>1. CASE g = fd
      BY <1>3, <1>4, <3>1
    <3>2. CASE g # fd
      BY <1>4, <1>6, <2>2, <3>2 DEF ConnInv, Table
    <3> QED BY <3>1, <3>2
  <2> QED BY <1>5, <2>1, <2>2 DEF Table
<1>9. IsDList(idle_list)
  BY DEF TypeOK, IsDList, Anchor
<1>10. IsDList(idle_list')
  BY <1>1, <1>9, InsertPointers
<1>11. PICK list : IdleOrder(list)
  BY IdleOrderExists DEF ConnInv
<1>12. PICK n \in Nat : n = Cardinality(Live)
  BY LiveFinite
<1>13. /\ IsNodes(list, n) /\ DOMAIN list = 1 .. n /\ Linked(idle_list, list, n)
       /\ \A i \in 1 .. n : list[i] \in Live
  BY <1>11, <1>12, IdleOrderNodes DEF IdleOrder
<1> DEFINE in == With(list, n, c)
<1>14. IsNodes(in, n + 1) /\ Linked(idle_list', in, n + 1)
  BY <1>1, <1>5, <1>9, <1>13, InsertLinked
<1>15. Cardinality(Live') = n + 1
  BY <1>5, <1>12, LiveFinite, FS_AddElement
<1>16. IdleOrder(in)'
  <2>1. /\ DOMAIN in = 1 .. n + 1
        /\ \A i \in 1 .. n + 1 : in[i] = IF i = n + 1 THEN c ELSE list[i]
        /\ \A i \in 1 .. n + 1 : i # n + 1 => i \in 1 .. n
    BY DEF With
  <2>2. in \in [1 .. n + 1 -> Live']
    BY <1>5, <1>13, <2>1 DEF With
  <2>3. ASSUME NEW d \in Live' PROVE \E i \in 1 .. n + 1 : in[i] = d
    <3>1. CASE d = c
      <4>1. n + 1 \in 1 .. n + 1
        OBVIOUS
      <4> QED BY <2>1, <3>1, <4>1
    <3>2. CASE d \in Live
      <4>1. PICK i \in 1 .. n : list[i] = d
        BY <1>11, <1>13, <3>2 DEF IdleOrder
      <4>2. i \in 1 .. n + 1 /\ i # n + 1
        OBVIOUS
      <4> QED BY <2>1, <4>1, <4>2
    <3> QED BY <1>5, <3>1, <3>2
  <2>4. ASSUME NEW i \in 1 .. n + 1, NEW j \in 1 .. n + 1, i < j
        PROVE  /\ in[i] # in[j]
               /\ conn'[in[i]].last_active_ms <= conn'[in[j]].last_active_ms
    <3>1. i \in 1 .. n /\ in[i] = list[i] /\ list[i] \in Live
      BY <1>13, <2>1, <2>4
    <3>2. CASE j = n + 1
      BY <1>3, <1>4, <1>5, <1>6, <2>1, <3>1, <3>2 DEF ConnInv, Recent
    <3>3. CASE j # n + 1
      BY <1>6, <1>11, <1>13, <2>1, <2>4, <3>1, <3>3 DEF IdleOrder
    <3> QED BY <3>2, <3>3
  <2> HIDE DEF in
  <2> QED BY <1>14, <1>15, <2>1, <2>2, <2>3, <2>4 DEF IdleOrder
<1>17. IdleListExact'
  BY <1>16 DEF IdleListExact, IdleOrder
<1>18. Recent'
  BY <1>3, <1>4, <1>5, <1>6 DEF ConnInv, Recent, TypeOK
<1> QED BY <1>3, <1>4, <1>5, <1>6, <1>7, <1>8, <1>10, <1>17, <1>18 DEF ConnInv

\* main moves a connection it serves to the end of the list, as of now.
LEMMA ConnTouch ==
  ASSUME TypeOK, ConnInv, UNCHANGED <<now, fd2conn>>, NEW c \in Live,
         conn' = [conn EXCEPT ![c].last_active_ms = now],
         idle_list' = moved_to_back(c)
  PROVE  /\ ConnInv' /\ Live' = Live /\ IsDList(idle_list')
         /\ conn' \in [Conn -> ConnObject \cup {None}]
         /\ \A d \in Live : /\ conn'[d].want = conn[d].want
                            /\ conn'[d].outgoing = conn[d].outgoing
                            /\ conn'[d].want_close = conn[d].want_close
<1> DEFINE o == [conn[c] EXCEPT !.last_active_ms = now]
<1>1. /\ conn \in [Conn -> ConnObject \cup {None}] /\ c \in Conn
      /\ conn[c] \in ConnObject /\ now \in Nat
  BY LiveObject DEF TypeOK
<1>2. /\ o \in ConnObject /\ o # None
      /\ o.fd = conn[c].fd /\ o.want = conn[c].want /\ o.outgoing = conn[c].outgoing
      /\ o.want_close = conn[c].want_close /\ o.last_active_ms = now
  BY <1>1, NullIsNoObject DEF ConnObject
<1>3. /\ conn' \in [Conn -> ConnObject \cup {None}]
      /\ \A d \in Conn : conn'[d] = IF d = c THEN o ELSE conn[d]
  BY <1>1, <1>2
<1> HIDE DEF o
<1>4. Live' = Live /\ Live \subseteq Conn
  BY <1>1, <1>2, <1>3 DEF Live
<1>5. \A d \in Live : /\ conn'[d].fd = conn[d].fd
                      /\ conn'[d].want = conn[d].want
                      /\ conn'[d].outgoing = conn[d].outgoing
                      /\ conn'[d].want_close = conn[d].want_close
                      /\ conn'[d].last_active_ms =
                           IF d = c THEN now ELSE conn[d].last_active_ms
  BY <1>2, <1>3, <1>4
<1>6. Table'
  BY <1>4, <1>5 DEF ConnInv, Table
<1>7. IsDList(idle_list)
  BY DEF TypeOK, IsDList, Anchor
<1>8. PICK list : IdleOrder(list)
  BY IdleOrderExists DEF ConnInv
<1>9. PICK n \in Nat : n = Cardinality(Live)
  BY LiveFinite
<1>10. /\ IsNodes(list, n) /\ DOMAIN list = 1 .. n /\ Linked(idle_list, list, n)
       /\ \A i \in 1 .. n : list[i] \in Live
  BY <1>8, <1>9, IdleOrderNodes DEF IdleOrder
<1>11. PICK p \in 1 .. n : list[p] = c
  BY <1>8, <1>10 DEF IdleOrder
<1> DEFINE out == Without(list, n, p)
           back == With(out, n - 1, c)
           l == dlist_detach(idle_list, c)
<1>12. IsDList(l)
  BY <1>1, <1>7, DetachPointers
<1>13. /\ IsNodes(out, n - 1) /\ Linked(l, out, n - 1)
       /\ \A i \in 1 .. n - 1 : out[i] # c
  BY <1>7, <1>10, <1>11, DetachLinked
<1>14. idle_list' = dlist_insert_before(l, ListHead, c)
  BY DEF moved_to_back
<1>15. IsDList(idle_list')
  <2> HIDE DEF l
  <2> QED BY <1>1, <1>12, <1>14, InsertPointers
<1>16. Linked(idle_list', back, n)
  <2>1. (n - 1) + 1 = n
    OBVIOUS
  <2> HIDE DEF l, out
  <2>2. Linked(idle_list', back, (n - 1) + 1)
    BY <1>1, <1>12, <1>13, <1>14, InsertLinked
  <2> QED BY <2>1, <2>2
<1>17. IdleOrder(back)'
  <2>1. /\ DOMAIN back = 1 .. n
        /\ \A i \in 1 .. n : back[i] = IF i = n THEN c
                                      ELSE IF i < p THEN list[i] ELSE list[i + 1]
    BY DEF With, Without
  <2>2. \A i \in 1 .. n : back[i] \in Live
    BY <1>10, <2>1
  <2>3. back \in [1 .. n -> Live']
    BY <1>4, <2>1, <2>2 DEF With
  <2>4. ASSUME NEW d \in Live' PROVE \E i \in 1 .. n : back[i] = d
    <3>1. PICK i \in 1 .. n : list[i] = d
      BY <1>4, <1>8, <1>10 DEF IdleOrder
    <3>2. CASE i < p
      <4>1. i # n /\ back[i] = d
        BY <2>1, <3>1, <3>2
      <4> QED BY <4>1
    <3>3. CASE i = p
      <4>1. n \in 1 .. n /\ back[n] = d
        BY <1>11, <2>1, <3>1, <3>3
      <4> QED BY <4>1
    <3>4. CASE i > p
      <4>1. i - 1 \in 1 .. n /\ i - 1 # n /\ ~(i - 1 < p) /\ (i - 1) + 1 = i
        BY <3>4
      <4>2. back[i - 1] = d
        BY <2>1, <3>1, <4>1
      <4> QED BY <4>1, <4>2
    <3> QED BY <3>2, <3>3, <3>4
  <2>5. ASSUME NEW i \in 1 .. n, NEW j \in 1 .. n, i < j
        PROVE  /\ back[i] # back[j]
               /\ conn'[back[i]].last_active_ms <= conn'[back[j]].last_active_ms
    <3> DEFINE a == IF i < p THEN i ELSE i + 1
               b == IF j < p THEN j ELSE j + 1
    <3>1. a \in 1 .. n /\ back[i] = list[a] /\ a # p /\ i # n
      BY <2>1, <2>5
    <3>2. list[a] # c /\ list[a] \in Live
      BY <1>10, <1>11, <3>1 DEF IsNodes
    <3>3. CASE j = n
      BY <1>5, <2>1, <3>1, <3>2, <3>3 DEF ConnInv, Recent
    <3>4. CASE j # n
      <4>1. b \in 1 .. n /\ back[j] = list[b] /\ b # p /\ a < b
        BY <2>1, <2>5, <3>4
      <4>2. list[b] # c /\ list[b] \in Live
        BY <1>10, <1>11, <4>1 DEF IsNodes
      <4>3. list[a] # list[b] /\ conn[list[a]].last_active_ms <= conn[list[b]].last_active_ms
        BY <1>8, <1>10, <3>1, <4>1 DEF IdleOrder
      <4> QED BY <1>5, <3>1, <3>2, <4>1, <4>2, <4>3
    <3> QED BY <3>3, <3>4
  <2>6. Cardinality(Live') = n
    BY <1>4, <1>9
  <2> HIDE DEF back
  <2> QED BY <1>16, <2>1, <2>3, <2>4, <2>5, <2>6 DEF IdleOrder
<1>18. IdleListExact'
  BY <1>17 DEF IdleListExact, IdleOrder
<1>19. Recent'
  BY <1>1, <1>4, <1>5 DEF ConnInv, Recent
<1> QED BY <1>3, <1>4, <1>5, <1>6, <1>15, <1>18, <1>19 DEF ConnInv
-----------------------------------------------------------------------------
(* The timers. *)

\* The first connection of the idle list is the least recently active one.
LEMMA FirstIsLeast ==
  ASSUME TypeOK, ConnInv
  PROVE  /\ dlist_empty(idle_list) <=> Live = {}
         /\ Live # {} =>
              /\ First \in Live
              /\ \A c \in Live : conn[First].last_active_ms <= conn[c].last_active_ms
<1>1. PICK list : IdleOrder(list)
  BY IdleOrderExists DEF ConnInv
<1>2. PICK n \in Nat : n = Cardinality(Live)
  BY LiveFinite
<1>3. /\ IsNodes(list, n) /\ DOMAIN list = 1 .. n /\ Linked(idle_list, list, n)
      /\ \A i \in 1 .. n : list[i] \in Live
      /\ \A c \in Live : \E i \in 1 .. n : list[i] = c
  BY <1>1, <1>2, IdleOrderNodes DEF IdleOrder
<1> DEFINE at == Round(list, n)
<1>4. at[0] = ListHead /\ at[n + 1] = ListHead /\ \A i \in 1 .. n : at[i] = list[i]
  BY <1>3, RoundNodes
<1>5. First = at[1]
  BY <1>3, <1>4 DEF Linked, First
<1> HIDE DEF at
<1>6. CASE n = 0
  <2>1. Live = {}
    BY <1>3, <1>6
  <2> QED BY <1>4, <1>5, <1>6, <2>1 DEF dlist_empty, First
<1>7. CASE n # 0
  <2>1. 1 \in 1 .. n
    BY <1>7
  <2>2. First = list[1] /\ First \in Live
    BY <1>3, <1>4, <1>5, <2>1
  <2>3. First # ListHead
    BY <2>2, LoopConstants DEF Live
  <2>4. ASSUME NEW c \in Live
        PROVE  conn[First].last_active_ms <= conn[c].last_active_ms
    <3>1. PICK i \in 1 .. n : list[i] = c
      BY <1>3
    <3>2. CASE i = 1
      <4>1. conn[c].last_active_ms \in Nat
        BY LiveObject DEF ConnObject
      <4> QED BY <2>2, <3>1, <3>2, <4>1
    <3>3. CASE i # 1
      BY <1>1, <1>3, <2>1, <2>2, <3>1, <3>3 DEF IdleOrder
    <3> QED BY <3>2, <3>3
  <2> QED BY <2>2, <2>3, <2>4 DEF dlist_empty, First
<1> QED BY <1>6, <1>7

\* The sleep that next_timer_ms asks for ends with the first timer or, without
\* clients, may be endless: a client's idle timeout keeps it below the range of
\* int32_t, so the truncation changes nothing.
LEMMA NextTimer ==
  ASSUME TypeOK, ConnInv
  PROVE  /\ next_timer_ms \in Nat \cup {None}
         /\ Live # {} =>
              /\ next_timer_ms # None
              /\ \A c \in Live : next_timer_ms <= conn[c].last_active_ms + k_idle_timeout_ms
              /\ \A e \in Armed : next_timer_ms <= expire[e]
<1> DEFINE next == Min(timers)
           timeout == (next - now) % TimeoutMod
<1>1. /\ k_idle_timeout_ms \in Nat /\ TimeoutMod \in Nat /\ None \notin Nat
      /\ 2 * k_idle_timeout_ms < TimeoutMod /\ now \in Nat
  BY LoopConstants DEF TypeOK
<1>2. \A c \in Live : conn[c].last_active_ms \in Nat /\ conn[c].last_active_ms <= now
  BY LiveObject DEF ConnObject, ConnInv, Recent
<1>3. \A e \in Armed : expire[e] \in Nat
  BY DEF TypeOK, Armed
<1>4. /\ Live = {} => IdleTimers = {}
      /\ Live # {} => IdleTimers = {conn[First].last_active_ms + k_idle_timeout_ms}
  BY FirstIsLeast DEF IdleTimers
<1>5. timers \in SUBSET Nat
  <2>1. IdleTimers \in SUBSET Nat
    BY <1>1, <1>2, <1>4, FirstIsLeast
  <2> QED BY <1>3, <2>1 DEF timers, TtlTimers
<1>6. next_timer_ms = IF timers = {} THEN None
                      ELSE IF next <= now THEN next
                      ELSE IF 2 * timeout >= TimeoutMod THEN None
                      ELSE now + timeout
  BY DEF next_timer_ms
<1>7. timers # {} => next \in timers /\ next \in Nat /\ \A t \in timers : next <= t
  BY <1>5, MinIsLeast
<1> HIDE DEF next
<1>8. next_timer_ms \in Nat \cup {None}
  <2>1. timers # {} => timeout \in Nat
    BY <1>1, <1>7
  <2> HIDE DEF timeout
  <2> QED BY <1>1, <1>6, <1>7, <2>1
<1>9. ASSUME Live # {}
      PROVE  /\ next_timer_ms # None
             /\ \A c \in Live : next_timer_ms <= conn[c].last_active_ms + k_idle_timeout_ms
             /\ \A e \in Armed : next_timer_ms <= expire[e]
  <2>1. /\ First \in Live
        /\ conn[First].last_active_ms + k_idle_timeout_ms \in timers
        /\ \A c \in Live : conn[First].last_active_ms <= conn[c].last_active_ms
    BY <1>4, <1>9, FirstIsLeast DEF timers
  <2>2. /\ next \in Nat /\ next <= conn[First].last_active_ms + k_idle_timeout_ms
        /\ \A t \in timers : next <= t
    BY <1>7, <2>1
  <2>3. next <= now + k_idle_timeout_ms
    BY <1>1, <1>2, <2>1, <2>2
  <2>4. next_timer_ms = next
    <3>1. CASE next <= now
      BY <1>6, <2>1, <3>1
    <3>2. CASE ~(next <= now)
      <4>1. next - now \in 0 .. TimeoutMod - 1 /\ 2 * (next - now) < TimeoutMod
        BY <1>1, <2>2, <2>3, <3>2
      <4>2. timeout = next - now
        BY <1>1, <4>1
      <4> HIDE DEF timeout
      <4> QED BY <1>1, <1>6, <2>1, <2>2, <3>2, <4>1, <4>2
    <3> QED BY <3>1, <3>2
  <2>5. \A c \in Live : next <= conn[c].last_active_ms + k_idle_timeout_ms
    BY <1>1, <1>2, <2>1, <2>2
  <2>6. \A e \in Armed : next <= expire[e]
    BY <2>2 DEF timers, TtlTimers
  <2> QED BY <1>1, <2>2, <2>4, <2>5, <2>6
<1> QED BY <1>8, <1>9
-----------------------------------------------------------------------------
(* The steps of the loop. *)

\* LoopInv in the parts the steps disturb separately.
LEMMA LoopParts ==
  LoopInv <=> /\ TypeOK /\ ConnInv /\ SleepCoversTimers
              /\ EventsReachTheirConn /\ ServeInv /\ PollInv
BY DEF LoopInv, FdTableExact, ConnInv, Table, Recent

\* The invariant holds when main enters its loop.
LEMMA InitLoopInv == Init => LoopInv
<1> SUFFICES ASSUME Init PROVE LoopInv
  OBVIOUS
<1>1. TypeOK
  BY LoopConstants DEF Init, TypeOK, dlist_init
<1>2. Live = {} /\ Polled = {}
  BY DEF Init, Live, Polled
<1>3. IdleListExact
  <2>1. Cardinality(Live) = 0
    BY <1>2, FS_EmptySet
  <2> DEFINE list == [i \in 1 .. 0 |-> None]
  <2>2. list \in [1 .. 0 -> Live] /\ DOMAIN list = {}
    OBVIOUS
  <2>3. Linked(idle_list, list, 0)
    BY DEF Init, dlist_init, Linked, Round
  <2> HIDE DEF list
  <2> QED BY <1>2, <2>1, <2>2, <2>3 DEF IdleListExact
<1>4. ConnInv
  BY <1>2, <1>3 DEF ConnInv, Table, Recent, Init
<1>5. SleepCoversTimers /\ EventsReachTheirConn /\ PollInv
  BY DEF Init, SleepCoversTimers, EventsReachTheirConn, PollInv
<1>6. ServeInv
  BY <1>2 DEF Init, ServeInv, Serving
<1> QED BY <1>1, <1>4, <1>5, <1>6, LoopParts

\* The same for the next state, as a fact to cite.
LEMMA LoopPartsNext ==
  ASSUME TypeOK', ConnInv', SleepCoversTimers', EventsReachTheirConn', ServeInv', PollInv'
  PROVE  LoopInv'
BY DEF LoopInv, FdTableExact, ConnInv, Table, Recent

\* Nothing is being served before and after, and the connections stay as they are.
LEMMA ServeFrame ==
  ASSUME ServeInv, UNCHANGED <<conn, cur>>, ~Serving, ~Serving'
  PROVE  ServeInv'
<1>1. Live' = Live
  BY DEF Live
<1>2. \A c \in Live : Settled(c)'
  BY DEF ServeInv, Settled
<1>3. cur' = None
  BY DEF ServeInv
<1> QED BY <1>1, <1>2, <1>3 DEF ServeInv

\* The connection that is being served exists.
LEMMA CurLive ==
  ASSUME LoopInv, Serving
  PROVE  /\ cur \in Fd /\ cur \in Polled /\ Cur \in Live
         /\ conn[Cur] \in ConnObject /\ conn[Cur].fd = cur
<1>1. cur # None /\ cur \in Polled /\ Cur # None
  BY DEF LoopInv, ServeInv
<1>2. cur \in Fd
  BY <1>1 DEF Polled
<1>3. Cur \in Live /\ conn[Cur].fd = cur
  BY <1>1, <1>2 DEF LoopInv, FdTableExact, Cur
<1> QED BY <1>1, <1>2, <1>3, LiveObject DEF LoopInv, FdTableExact

\* poll() is asked about every connection, with a timeout that covers all timers.
LEMMA Prepare ==
  ASSUME LoopInv, prepare
  PROVE  LoopInv'
<1> USE DEF prepare
<1>1. /\ TypeOK /\ ConnInv /\ ServeInv
      /\ UNCHANGED <<connVars, keyVars, now>>
  BY LoopParts
<1>2. ConnInv' /\ Live' = Live
  BY <1>1, ConnSame DEF TypeOK
<1>3. TypeOK'
  <2>1. poll_args' \in [Fd -> PollArg \cup {None}]
    BY <1>1 DEF TypeOK, PollArg
  <2>2. wake' \in Nat \cup {None}
    BY <1>1, NextTimer
  <2> QED BY <1>1, <2>1, <2>2 DEF TypeOK, connVars, keyVars, timerVars
<1>4. SleepCoversTimers'
  <2>1. UNCHANGED <<Armed, owner, expire, conn>>
    BY <1>1 DEF keyVars, connVars, Armed
  <2>2. ASSUME NEW c \in Live
        PROVE  wake' # None /\ wake' <= conn[c].last_active_ms + k_idle_timeout_ms
    BY <1>1, NextTimer
  <2>3. ASSUME NEW e \in Armed, owner[e] \in Live
        PROVE  wake' # None /\ wake' <= expire[e]
    BY <1>1, <2>3, NextTimer
  <2> QED BY <1>2, <2>1, <2>2, <2>3 DEF SleepCoversTimers
<1>5. EventsReachTheirConn'
  BY DEF EventsReachTheirConn
<1>6. ServeInv'
  BY <1>1, ServeFrame DEF Serving, connVars
<1>7. PollInv'
  BY <1>1 DEF PollInv, Polled, connVars
<1> QED BY <1>2, <1>3, <1>4, <1>5, <1>6, <1>7, LoopPartsNext

\* poll() returns events that were asked for.
LEMMA PollReady ==
  ASSUME LoopInv, poll_ready
  PROVE  LoopInv'
<1>1. /\ TypeOK /\ ConnInv /\ ServeInv /\ PollInv
      /\ UNCHANGED <<connVars, keyVars, now, wake, cur>>
      /\ pc = "poll" /\ pc' = "accept"
  BY LoopParts DEF poll_ready
<1>2. PICK r \in [Polled -> SUBSET Event] :
        /\ \A fd \in Polled : r[fd] \in Reportable(fd)
        /\ poll_args' = [fd \in Fd |-> IF fd \in Polled
                                       THEN [poll_args[fd] EXCEPT !.revents = r[fd]]
                                       ELSE None]
  BY DEF poll_ready
<1>3. ConnInv' /\ Live' = Live
  BY <1>1, ConnSame DEF TypeOK
<1>4. \A fd \in Polled : /\ fd \in Fd /\ poll_args[fd] \in PollArg
                         /\ poll_args'[fd] \in PollArg
                         /\ poll_args'[fd].conn = poll_args[fd].conn
                         /\ poll_args'[fd].revents = r[fd]
  BY <1>1, <1>2 DEF TypeOK, Polled, PollArg
<1>5. Polled' = Polled
  BY <1>2, <1>4, NullIsNoObject DEF Polled
<1>6. TypeOK'
  <2>1. poll_args' \in [Fd -> PollArg \cup {None}]
    BY <1>2, <1>4 DEF Polled
  <2>2. listening' \in BOOLEAN
    BY DEF poll_ready
  <2>3. UNCHANGED timerVars
    BY DEF poll_ready
  <2> QED BY <1>1, <2>1, <2>2, <2>3 DEF TypeOK, connVars, keyVars, timerVars
<1>7. SleepCoversTimers' /\ EventsReachTheirConn'
  BY <1>1 DEF SleepCoversTimers, EventsReachTheirConn
<1>8. ServeInv'
  BY <1>1, ServeFrame DEF Serving, connVars
<1>9. PollInv'
  <2>1. \A fd \in Polled : /\ "POLLIN" \in r[fd] => conn[fd2conn[fd]].want = "read"
                           /\ "POLLOUT" \in r[fd] => conn[fd2conn[fd]].want # "read"
    BY <1>2 DEF Reportable
  <2>2. \A fd \in Polled : fd2conn[fd] # None => conn[fd2conn[fd]].want \in {"read", "write"}
    BY <1>1, LiveObject DEF ConnInv, Table, Polled, ConnObject
  <2>3. \A fd \in Polled : fd2conn'[fd] = poll_args'[fd].conn
    BY <1>1, <1>4 DEF PollInv, connVars
  <2>4. ASSUME NEW fd \in Polled, fd2conn'[fd] # None
        PROVE  /\ "POLLIN" \in poll_args'[fd].revents => conn'[fd2conn'[fd]].want = "read"
               /\ "POLLOUT" \in poll_args'[fd].revents => conn'[fd2conn'[fd]].want = "write"
    <3>1. fd2conn' = fd2conn /\ conn' = conn /\ poll_args'[fd].revents = r[fd]
      BY <1>1, <1>4 DEF connVars
    <3> QED BY <2>1, <2>2, <2>4, <3>1
  <2> QED BY <1>1, <1>5, <2>3, <2>4 DEF PollInv
<1> QED BY <1>3, <1>6, <1>7, <1>8, <1>9, LoopPartsNext

\* poll() returns without events.
LEMMA PollEmpty ==
  ASSUME LoopInv, poll_timeout \/ poll_interrupted
  PROVE  LoopInv'
<1>1. /\ TypeOK /\ ConnInv /\ ServeInv /\ PollInv
      /\ UNCHANGED <<connVars, keyVars, now, ioVars, timerVars>>
      /\ pc = "poll" /\ pc' \in {"accept", "prepare"}
  BY LoopParts DEF poll_timeout, poll_interrupted
<1>2. ConnInv' /\ Live' = Live
  BY <1>1, ConnSame DEF TypeOK
<1>3. TypeOK'
  BY <1>1 DEF TypeOK, connVars, keyVars, ioVars, timerVars
<1>4. SleepCoversTimers' /\ EventsReachTheirConn'
  BY <1>1 DEF SleepCoversTimers, EventsReachTheirConn
<1>5. ServeInv'
  BY <1>1, ServeFrame DEF Serving, connVars, ioVars
<1>6. PollInv'
  BY <1>1 DEF PollInv, Polled, connVars, ioVars
<1> QED BY <1>2, <1>3, <1>4, <1>5, <1>6, LoopPartsNext

\* accept() returns a descriptor that no connection has, so none that poll()
\* has reported events for.
LEMMA Accept ==
  ASSUME LoopInv, accept
  PROVE  LoopInv'
<1>1. /\ TypeOK /\ ConnInv /\ ServeInv /\ PollInv
      /\ UNCHANGED <<now, owner, expire, timerVars, ioVars>>
      /\ pc = "accept" /\ pc' = "conns"
  BY LoopParts DEF accept, accept_one
<1>2. Polled' = Polled
  BY <1>1 DEF Polled, ioVars
<1>3. SleepCoversTimers'
  BY <1>1 DEF SleepCoversTimers
<1>4. CASE UNCHANGED <<connVars, db>>
  <2>1. ConnInv' /\ Live' = Live
    BY <1>1, <1>4, ConnSame DEF TypeOK
  <2>2. TypeOK'
    BY <1>1, <1>4 DEF TypeOK, connVars, keyVars, ioVars, timerVars
  <2>3. EventsReachTheirConn' /\ PollInv'
    BY <1>1, <1>2, <1>4 DEF PollInv, EventsReachTheirConn, connVars, ioVars
  <2>4. ServeInv'
    BY <1>1, <1>4, ServeFrame DEF Serving, connVars, ioVars
  <2> QED BY <1>3, <2>1, <2>2, <2>3, <2>4, LoopPartsNext
<1>5. CASE \E c \in Conn \ Live : /\ Fd \ {conn[d].fd : d \in Live} # {}
                                  /\ handle_accept(c)
  <2>1. PICK c \in Conn \ Live : /\ Fd \ {conn[d].fd : d \in Live} # {}
                                 /\ handle_accept(c)
    BY <1>5
  <2>2. /\ ConnInv' /\ Live' = Live \cup {c} /\ IsDList(idle_list')
        /\ conn' \in [Conn -> ConnObject \cup {None}]
        /\ fd2conn' \in [Fd -> Conn \cup {None}]
        /\ db' \in [Conn -> SUBSET Entry]
        /\ \A d \in Live : conn'[d] = conn[d]
        /\ conn'[c].want = "read" /\ ~conn'[c].outgoing /\ ~conn'[c].want_close
        /\ \A fd \in Fd : fd2conn[fd] # None => fd2conn'[fd] = fd2conn[fd]
    BY <1>1, <2>1, ConnAccept
  <2>3. TypeOK'
    BY <1>1, <2>2 DEF TypeOK, ioVars, timerVars, IsDList, Anchor
  <2>4. \A fd \in Polled : /\ fd2conn'[fd] = poll_args[fd].conn
                           /\ fd2conn'[fd] = fd2conn[fd]
                           /\ fd2conn[fd] # None => fd2conn[fd] \in Live
    <3>1. \A fd \in Polled : /\ fd \in Fd /\ fd2conn[fd] = poll_args[fd].conn
                             /\ poll_args[fd].conn \in Conn
      BY <1>1 DEF PollInv, Polled, TypeOK, PollArg
    <3>2. None \notin Conn
      BY LoopConstants
    <3> QED BY <1>1, <2>2, <3>1, <3>2 DEF ConnInv, Table
  <2>5. EventsReachTheirConn' /\ PollInv'
    <3>1. poll_args' = poll_args /\ cur' = cur
      BY <1>1 DEF ioVars
    <3>2. EventsReachTheirConn'
      BY <1>2, <2>4, <3>1 DEF EventsReachTheirConn
    <3>3. ASSUME NEW fd \in Polled, fd2conn'[fd] # None, fd # cur
          PROVE  /\ "POLLIN" \in poll_args[fd].revents => conn'[fd2conn'[fd]].want = "read"
                 /\ "POLLOUT" \in poll_args[fd].revents => conn'[fd2conn'[fd]].want = "write"
      <4>1. fd2conn'[fd] = fd2conn[fd] /\ conn'[fd2conn[fd]] = conn[fd2conn[fd]]
        BY <2>2, <2>4, <3>3
      <4> QED BY <1>1, <3>3, <4>1 DEF PollInv
    <3>4. PollInv'
      BY <1>1, <1>2, <3>1, <3>3 DEF PollInv
    <3> QED BY <3>2, <3>4
  <2>6. ServeInv'
    <3>1. \A d \in Live : Settled(d)
      BY <1>1 DEF ServeInv, Serving
    <3>2. \A d \in Live' : Settled(d)'
      BY <2>2, <3>1 DEF Settled
    <3>3. cur = None /\ cur' = None /\ ~Serving'
      BY <1>1 DEF ServeInv, Serving, ioVars
    <3> QED BY <3>2, <3>3 DEF ServeInv
  <2> QED BY <1>3, <2>2, <2>3, <2>5, <2>6, LoopPartsNext
<1> QED BY <1>4, <1>5 DEF accept, accept_one

\* A descriptor without events, or whose connection is gone.
LEMMA SkipConn ==
  ASSUME LoopInv, skip_conn
  PROVE  LoopInv'
<1>1. /\ TypeOK /\ ConnInv /\ ServeInv /\ PollInv /\ EventsReachTheirConn
      /\ UNCHANGED <<connVars, keyVars, now, timerVars, listening, wake, pc, cur>>
      /\ pc = "conns" /\ Polled # {}
      /\ poll_args' = [poll_args EXCEPT ![NextFd] = None]
  BY LoopParts DEF skip_conn
<1>2. ConnInv' /\ Live' = Live
  BY <1>1, ConnSame DEF TypeOK
<1>3. TypeOK'
  BY <1>1 DEF TypeOK, connVars, keyVars, timerVars
<1>4. SleepCoversTimers'
  BY <1>1 DEF SleepCoversTimers
<1>5. Polled' \subseteq Polled /\ \A fd \in Polled' : poll_args'[fd] = poll_args[fd]
  BY <1>1 DEF Polled, TypeOK
<1>6. EventsReachTheirConn' /\ PollInv'
  BY <1>1, <1>5 DEF PollInv, EventsReachTheirConn, connVars
<1>7. ServeInv'
  BY <1>1, ServeFrame DEF Serving, connVars
<1> QED BY <1>2, <1>3, <1>4, <1>6, <1>7, LoopPartsNext

\* main turns to a connection: what poll() has reported tells what it wants.
LEMMA TouchConn ==
  ASSUME LoopInv, touch_conn
  PROVE  LoopInv'
<1>1. PICK fd \in Polled : fd = NextFd
  <2>1. Polled \in SUBSET Nat
    BY LoopConstants DEF Polled
  <2> QED BY <2>1, MinIsLeast DEF NextFd, touch_conn
<1> DEFINE ready == poll_args[fd].revents
<1>2. fd \in Fd /\ fd2conn[fd] # None
  BY <1>1 DEF Polled, touch_conn, Ready
<1>3. PICK c \in Live : c = fd2conn[fd]
  BY <1>2, LoopParts DEF ConnInv, Table
<1>4. /\ TypeOK /\ ConnInv /\ ServeInv /\ PollInv /\ EventsReachTheirConn
      /\ UNCHANGED <<now, fd2conn, keyVars, timerVars, poll_args, listening, wake>>
      /\ pc = "conns" /\ cur' = fd
      /\ conn' = [conn EXCEPT ![c].last_active_ms = now]
      /\ idle_list' = moved_to_back(c)
      /\ pc' = IF "POLLIN" \in ready THEN "read"
               ELSE IF "POLLOUT" \in ready THEN "write" ELSE "close"
  BY <1>1, <1>3, LoopParts DEF touch_conn
<1>5. /\ ConnInv' /\ Live' = Live /\ IsDList(idle_list')
      /\ conn' \in [Conn -> ConnObject \cup {None}]
      /\ \A d \in Live : /\ conn'[d].want = conn[d].want
                         /\ conn'[d].outgoing = conn[d].outgoing
                         /\ conn'[d].want_close = conn[d].want_close
  BY <1>4, ConnTouch
<1>6. Polled' = Polled
  BY <1>4 DEF Polled
<1>7. pc' \in {"read", "write", "close"}
  BY <1>4
<1>8. TypeOK'
  BY <1>4, <1>2, <1>5, <1>7 DEF TypeOK, keyVars, timerVars, IsDList, Anchor
<1>9. SleepCoversTimers'
  BY <1>7 DEF SleepCoversTimers
<1>10. EventsReachTheirConn'
  BY <1>4, <1>6 DEF EventsReachTheirConn
<1>11. /\ cur = None /\ \A d \in Live : Settled(d)
       /\ \A d \in Live : Settled(d)'
  BY <1>4, <1>5 DEF ServeInv, Serving, Settled
<1>12. /\ "POLLIN" \in ready => conn[c].want = "read"
       /\ "POLLOUT" \in ready => conn[c].want = "write"
  <2>1. fd # cur
    BY <1>2, <1>11, LoopConstants
  <2> QED BY <1>4, <1>2, <1>3, <2>1 DEF PollInv
<1>13. ServeInv'
  <2>1. Cur' = c
    BY <1>4, <1>3 DEF Cur
  <2>2. Serving' /\ cur' # None
    BY <1>4, <1>2, <1>7, LoopConstants DEF Serving
  <2>3. pc' = "read" => /\ "POLLIN" \in ready /\ "POLLOUT" \notin ready
                        /\ conn'[c].want = "read" /\ ~conn'[c].want_close
    BY <1>4, <1>3, <1>5, <1>11, <1>12 DEF Settled
  <2>4. c # None /\ Settled(c)'
    BY <1>11, LoopConstants DEF Live
  <2> QED BY <1>4, <1>2, <1>5, <1>6, <1>11, <2>1, <2>2, <2>3, <2>4
          DEF ServeInv, Settled
<1>14. PollInv'
  <2>1. ASSUME NEW g \in Polled, fd2conn[g] # None, g # fd
        PROVE  /\ "POLLIN" \in poll_args[g].revents => conn'[fd2conn[g]].want = "read"
               /\ "POLLOUT" \in poll_args[g].revents => conn'[fd2conn[g]].want = "write"
    <3>1. fd2conn[g] \in Live /\ g # cur
      BY <1>4, <1>11, <2>1, LoopConstants DEF ConnInv, Table, Polled
    <3> QED BY <1>4, <1>5, <2>1, <3>1 DEF PollInv
  <2> QED BY <1>4, <1>6, <1>7, <2>1 DEF PollInv
<1> QED BY <1>5, <1>8, <1>9, <1>10, <1>13, <1>14, LoopPartsNext

\* A step of handle_read or handle_write changes what the served connection
\* wants; the parts of the invariant about the other connections are kept.
LEMMA ServeStep ==
  ASSUME LoopInv, pc \in {"read", "write"}, NEW o \in ConnObject,
         o.fd = conn[Cur].fd, o.last_active_ms = conn[Cur].last_active_ms,
         conn' = [conn EXCEPT ![Cur] = o],
         UNCHANGED <<now, fd2conn, idle_list, ioVars, timerVars>>,
         db' \in [Conn -> SUBSET Entry], owner' \in [Entry -> Conn \cup {None}],
         expire' \in [Entry -> Nat \cup {None}],
         pc' \in {"read", "write", "close", "killed"},
         pc' = "read" => pc = "read" /\ o.want = "read" /\ ~o.want_close,
         pc' = "write" => o.want = "write" /\ o.outgoing /\ ~o.want_close,
         pc' = "close" => o.want_close \/ (o.want = "write" <=> o.outgoing)
  PROVE  LoopInv'
<1>1. /\ TypeOK /\ ConnInv /\ ServeInv /\ PollInv /\ EventsReachTheirConn
  BY LoopParts
<1>2. /\ cur \in Fd /\ cur \in Polled /\ Cur \in Live /\ conn[Cur].fd = cur
      /\ Serving
  BY CurLive DEF Serving
<1>3. ConnInv' /\ Live' = Live /\ conn' \in [Conn -> ConnObject \cup {None}]
  BY <1>1, <1>2, ConnFields
<1>4. UNCHANGED <<poll_args, listening, wake, cur, Polled, Cur>>
  BY DEF ioVars, Polled, Cur
<1>5. TypeOK'
  BY <1>1, <1>3, <1>4 DEF TypeOK, timerVars
<1>6. SleepCoversTimers'
  BY DEF SleepCoversTimers
<1>7. EventsReachTheirConn'
  BY <1>1, <1>4 DEF EventsReachTheirConn
<1>8. conn'[Cur] = o /\ \A d \in Live : d # Cur => conn'[d] = conn[d]
  BY <1>1, <1>2 DEF TypeOK, Live
<1>9. ServeInv'
  <2>1. Serving' /\ cur' # None /\ Cur' = Cur
    BY <1>1, <1>2, <1>4 DEF Serving, ServeInv
  <2>2. \A d \in Live' : Settled(d)' \/ d = Cur
    BY <1>1, <1>3, <1>8 DEF ServeInv, Settled
  <2> QED BY <1>1, <1>3, <1>4, <1>8, <2>1, <2>2 DEF ServeInv, Settled
<1>10. PollInv'
  <2>1. ASSUME NEW g \in Polled, fd2conn[g] # None, g # cur
        PROVE  conn'[fd2conn[g]] = conn[fd2conn[g]]
    <3>1. fd2conn[g] \in Live /\ fd2conn[g] # Cur
      BY <1>1, <1>2, <2>1 DEF ConnInv, Table, Polled
    <3> QED BY <1>8, <3>1
  <2>2. ASSUME NEW g \in Polled, fd2conn[g] # None, g # cur
        PROVE  /\ "POLLIN" \in poll_args[g].revents => conn'[fd2conn[g]].want = "read"
               /\ "POLLOUT" \in poll_args[g].revents => conn'[fd2conn[g]].want = "write"
    BY <1>1, <2>1, <2>2 DEF PollInv
  <2> QED BY <1>4, <2>2 DEF PollInv
<1> QED BY <1>3, <1>5, <1>6, <1>7, <1>9, <1>10, LoopPartsNext

\* One request: a response is appended, entries and TTLs change.
LEMMA RequestStep ==
  ASSUME LoopInv, Request
  PROVE  LoopInv'
<1>1. respond /\ pc = "read" /\ pc' = "read"
  BY DEF Request, do_set, do_del, do_expire, do_other, respond
<1>2. TypeOK /\ Cur \in Live /\ Cur \in Conn /\ conn[Cur] \in ConnObject
  BY <1>1, CurLive, LoopParts, LiveObject DEF Serving
<1>3. PICK o \in ConnObject : o = [conn[Cur] EXCEPT !.outgoing = TRUE]
  BY <1>2 DEF ConnObject
<1>4. /\ o.fd = conn[Cur].fd /\ o.last_active_ms = conn[Cur].last_active_ms
      /\ o.want = "read" /\ ~o.want_close
  <2>1. conn[Cur].want = "read" /\ ~conn[Cur].want_close
    BY <1>1, LoopParts DEF ServeInv, Serving
  <2> QED BY <1>2, <1>3, <2>1 DEF ConnObject
<1>5. /\ conn' = [conn EXCEPT ![Cur] = o]
      /\ UNCHANGED <<now, fd2conn, idle_list, ioVars, timerVars>>
  BY <1>1, <1>3 DEF respond
<1>6. /\ db' \in [Conn -> SUBSET Entry]
      /\ owner' \in [Entry -> Conn \cup {None}]
      /\ expire' \in [Entry -> Nat \cup {None}]
  <2>1. /\ db \in [Conn -> SUBSET Entry] /\ owner \in [Entry -> Conn \cup {None}]
        /\ expire \in [Entry -> Nat \cup {None}] /\ now \in Nat
    BY <1>2 DEF TypeOK
  <2>2. ASSUME NEW e \in Entry, do_set(e)
        PROVE  <1>6!:
    BY <1>2, <2>1, <2>2 DEF do_set
  <2>3. ASSUME NEW e \in Entry, do_del(e)
        PROVE  <1>6!:
    BY <2>1, <2>3 DEF do_del, entry_del
  <2>4. ASSUME NEW e \in Entry, NEW ttl \in Ttl \cup {-1}, do_expire(e, ttl)
        PROVE  <1>6!:
    <3>1. ttl \in Int
      BY LoopConstants
    <3>2. expire_at(ttl) \in Nat \cup {None}
      BY <2>1, <3>1 DEF expire_at
    <3> QED BY <2>1, <2>4, <3>2 DEF do_expire
  <2>5. ASSUME do_other
        PROVE  <1>6!:
    BY <2>1, <2>5 DEF do_other, keyVars
  <2> QED BY <2>2, <2>3, <2>4, <2>5 DEF Request
<1> QED BY <1>1, <1>4, <1>5, <1>6, ServeStep

\* handle_read ends; poll() was not asked about writing, so handle_write does
\* not follow.
LEMMA ReadEnds ==
  ASSUME LoopInv, bad_request \/ read_fails \/ read_ends
  PROVE  LoopInv'
<1>1. /\ pc = "read"
      /\ UNCHANGED <<now, fd2conn, idle_list, keyVars, ioVars, timerVars>>
      /\ pc' = AfterRead
  BY DEF bad_request, read_fails, read_ends
<1>2. /\ TypeOK /\ Cur \in Live /\ Cur \in Conn /\ conn[Cur] \in ConnObject
      /\ conn \in [Conn -> ConnObject \cup {None}]
  BY <1>1, CurLive, LoopParts, LiveObject DEF Serving, TypeOK
<1>3. pc' = "close" /\ conn[Cur].want = "read" /\ ~conn[Cur].want_close
  BY <1>1, LoopParts DEF ServeInv, Serving, AfterRead
<1>4. PICK o \in ConnObject :
        /\ o.fd = conn[Cur].fd /\ o.last_active_ms = conn[Cur].last_active_ms
        /\ conn' = [conn EXCEPT ![Cur] = o]
        /\ o.want_close \/ (o.want = "write" <=> o.outgoing)
  <2> DEFINE Result(o) ==
        /\ o \in ConnObject
        /\ o.fd = conn[Cur].fd /\ o.last_active_ms = conn[Cur].last_active_ms
        /\ conn' = [conn EXCEPT ![Cur] = o]
        /\ o.want_close \/ (o.want = "write" <=> o.outgoing)
  <2>1. CASE bad_request
    <3>1. Result([conn[Cur] EXCEPT !.outgoing = TRUE, !.want = "write", !.want_close = TRUE])
      BY <1>2, <2>1 DEF bad_request, ConnObject
    <3> QED BY <3>1
  <2>2. CASE read_fails
    <3>1. Result([conn[Cur] EXCEPT !.want_close = TRUE])
      BY <1>2, <2>2 DEF read_fails, ConnObject
    <3> QED BY <3>1
  <2>3. CASE read_ends
    <3>1. Result([conn[Cur] EXCEPT !.want = IF conn[Cur].outgoing THEN "write" ELSE @])
      BY <1>2, <1>3, <2>3 DEF read_ends, ConnObject
    <3> QED BY <3>1
  <2> QED BY <2>1, <2>2, <2>3
<1>5. /\ db' \in [Conn -> SUBSET Entry]
      /\ owner' \in [Entry -> Conn \cup {None}]
      /\ expire' \in [Entry -> Nat \cup {None}]
  BY <1>1, <1>2 DEF TypeOK, keyVars
<1> QED BY <1>1, <1>3, <1>4, <1>5, ServeStep

\* handle_write, with each of its outcomes.
LEMMA Written ==
  ASSUME LoopInv, handle_write
  PROVE  LoopInv'
<1>1. /\ pc = "write" /\ pc' \in {"close", "killed"}
      /\ UNCHANGED <<now, fd2conn, idle_list, keyVars, ioVars, timerVars>>
  BY DEF handle_write
<1>2. /\ TypeOK /\ Cur \in Live /\ Cur \in Conn /\ conn[Cur] \in ConnObject
      /\ conn \in [Conn -> ConnObject \cup {None}]
  BY <1>1, CurLive, LoopParts, LiveObject DEF Serving, TypeOK
<1>3. Settled(Cur)
  BY <1>1, LoopParts DEF ServeInv, Serving
<1>4. PICK o \in ConnObject :
        /\ o.fd = conn[Cur].fd /\ o.last_active_ms = conn[Cur].last_active_ms
        /\ conn' = [conn EXCEPT ![Cur] = o]
        /\ o.want_close \/ (o.want = "write" <=> o.outgoing)
  <2> DEFINE Result(o) ==
        /\ o \in ConnObject
        /\ o.fd = conn[Cur].fd /\ o.last_active_ms = conn[Cur].last_active_ms
        /\ conn' = [conn EXCEPT ![Cur] = o]
        /\ o.want_close \/ (o.want = "write" <=> o.outgoing)
  <2>1. CASE conn' = [conn EXCEPT ![Cur].outgoing = FALSE, ![Cur].want = "read"]
    <3>1. Result([conn[Cur] EXCEPT !.outgoing = FALSE, !.want = "read"])
      BY <1>2, <2>1 DEF ConnObject
    <3> QED BY <3>1
  <2>2. CASE conn' = conn
    <3>1. conn' = [conn EXCEPT ![Cur] = conn[Cur]]
      BY <1>2, <2>2
    <3>2. Result(conn[Cur])
      BY <1>2, <1>3, <3>1 DEF Settled
    <3> QED BY <3>2
  <2>3. CASE conn' = [conn EXCEPT ![Cur].want_close = TRUE]
    <3>1. Result([conn[Cur] EXCEPT !.want_close = TRUE])
      BY <1>2, <2>3 DEF ConnObject
    <3> QED BY <3>1
  <2> QED BY <2>1, <2>2, <2>3 DEF handle_write, full_socket
<1>5. /\ db' \in [Conn -> SUBSET Entry]
      /\ owner' \in [Entry -> Conn \cup {None}]
      /\ expire' \in [Entry -> Nat \cup {None}]
  BY <1>1, <1>2 DEF TypeOK, keyVars
<1> QED BY <1>1, <1>4, <1>5, ServeStep

\* A connection is closed outside its turn, or at the end of it: the others, and
\* the events poll() has reported for them, stay as they are.
LEMMA Closed ==
  ASSUME TypeOK, ConnInv, UNCHANGED now, NEW c \in Live, conn_destroy(c),
         NEW g \in Fd, fd2conn'[g] # None
  PROVE  /\ fd2conn'[g] = fd2conn[g] /\ fd2conn[g] \in Live \ {c}
         /\ conn'[fd2conn[g]] = conn[fd2conn[g]]
<1>1. /\ \A d \in Live \ {c} : conn'[d] = conn[d]
      /\ \A fd \in Fd : fd2conn'[fd] = IF fd = conn[c].fd THEN None ELSE fd2conn[fd]
  BY ConnDestroy
<1>2. g # conn[c].fd /\ fd2conn'[g] = fd2conn[g]
  BY <1>1
<1>3. fd2conn[g] \in Live /\ conn[fd2conn[g]].fd = g
  BY <1>2 DEF ConnInv, Table
<1> QED BY <1>1, <1>2, <1>3

\* At the end of its turn a connection is closed, or waits for what it needs next.
LEMMA CloseConn ==
  ASSUME LoopInv, close_conn
  PROVE  LoopInv'
<1>1. /\ TypeOK /\ ConnInv /\ ServeInv /\ PollInv /\ EventsReachTheirConn
      /\ pc = "close" /\ Serving /\ pc' = "conns" /\ cur' = None /\ ~Serving'
      /\ UNCHANGED <<now, keyVars, timerVars, listening, wake>>
  BY LoopParts DEF close_conn, Serving
<1>2. PICK f \in Fd : f = cur
  BY <1>1, CurLive
<1>3. PICK c \in Live : c = Cur /\ c = fd2conn[f] /\ conn[c].fd = f
  BY <1>1, <1>2, CurLive DEF Cur
<1>4. /\ poll_args' = [poll_args EXCEPT ![f] = None]
      /\ IF "POLLERR" \in poll_args[f].revents \/ conn[c].want_close
         THEN conn_destroy(c) ELSE UNCHANGED connVars
  BY <1>2, <1>3 DEF close_conn
<1>5. /\ poll_args' \in [Fd -> PollArg \cup {None}]
      /\ Polled' = Polled \ {f}
      /\ \A fd \in Polled' : fd \in Fd /\ poll_args'[fd] = poll_args[fd]
  BY <1>1, <1>4 DEF TypeOK, Polled
<1>6. SleepCoversTimers'
  BY <1>1 DEF SleepCoversTimers
<1>7. \A d \in Live : d # c => Settled(d)
  BY <1>1, <1>3 DEF ServeInv
<1>8. CASE conn_destroy(c)
  <2>1. /\ ConnInv' /\ Live' = Live \ {c} /\ IsDList(idle_list')
        /\ conn' \in [Conn -> ConnObject \cup {None}]
        /\ fd2conn' \in [Fd -> Conn \cup {None}]
        /\ \A d \in Live \ {c} : conn'[d] = conn[d]
    BY <1>1, <1>8, ConnDestroy
  <2>2. TypeOK'
    BY <1>1, <1>5, <2>1 DEF TypeOK, keyVars, timerVars, IsDList, Anchor
  <2>3. ServeInv'
    <3>1. \A d \in Live' : Settled(d)'
      BY <1>7, <2>1 DEF Settled
    <3> QED BY <1>1, <3>1 DEF ServeInv
  <2>4. ASSUME NEW g \in Fd, fd2conn'[g] # None
        PROVE  fd2conn'[g] = fd2conn[g] /\ conn'[fd2conn[g]] = conn[fd2conn[g]]
    BY <1>1, <1>8, <2>4, Closed
  <2>5. EventsReachTheirConn'
    <3>1. \A g \in Polled' : fd2conn'[g] \in {poll_args'[g].conn, None}
      BY <1>1, <1>5, <2>4 DEF EventsReachTheirConn
    <3> QED BY <3>1 DEF EventsReachTheirConn
  <2>6. PollInv'
    <3>1. ASSUME NEW g \in Polled', fd2conn'[g] # None
          PROVE  /\ "POLLIN" \in poll_args'[g].revents => conn'[fd2conn'[g]].want = "read"
                 /\ "POLLOUT" \in poll_args'[g].revents => conn'[fd2conn'[g]].want = "write"
      <4>1. g \in Polled /\ g # cur /\ poll_args'[g] = poll_args[g]
        BY <1>2, <1>5
      <4>2. fd2conn'[g] = fd2conn[g] /\ conn'[fd2conn[g]] = conn[fd2conn[g]]
        BY <1>5, <2>4, <3>1
      <4>3. fd2conn[g] # None
        BY <3>1, <4>2
      <4>4. /\ "POLLIN" \in poll_args[g].revents => conn[fd2conn[g]].want = "read"
            /\ "POLLOUT" \in poll_args[g].revents => conn[fd2conn[g]].want = "write"
        BY <1>1, <4>1, <4>3 DEF PollInv
      <4> QED BY <4>1, <4>2, <4>4
    <3> QED BY <1>1, <3>1 DEF PollInv
  <2> QED BY <1>6, <2>1, <2>2, <2>3, <2>5, <2>6, LoopPartsNext
<1>9. CASE UNCHANGED connVars /\ ~conn[c].want_close
  <2>1. ConnInv' /\ Live' = Live
    BY <1>1, <1>9, ConnSame DEF TypeOK
  <2>2. TypeOK'
    BY <1>1, <1>5, <1>9 DEF TypeOK, keyVars, timerVars, connVars
  <2>3. ServeInv'
    <3>1. Settled(c)
      BY <1>1, <1>3, <1>9 DEF ServeInv
    <3>2. \A d \in Live' : Settled(d)'
      BY <1>7, <1>9, <2>1, <3>1 DEF Settled, connVars
    <3> QED BY <1>1, <3>2 DEF ServeInv
  <2>4. EventsReachTheirConn'
    BY <1>1, <1>5, <1>9 DEF EventsReachTheirConn, connVars
  <2>5. PollInv'
    BY <1>1, <1>2, <1>5, <1>9 DEF PollInv, connVars
  <2> QED BY <1>6, <2>1, <2>2, <2>3, <2>4, <2>5, LoopPartsNext
<1> QED BY <1>4, <1>8, <1>9

\* The idle timer closes the first connection of the idle list.
LEMMA IdleTimerStep ==
  ASSUME LoopInv, idle_timers
  PROVE  LoopInv'
<1>1. /\ TypeOK /\ ConnInv /\ ServeInv
      /\ pc = "idle_timers" /\ pc' \in {"idle_timers", "ttl_timers"}
      /\ ~Serving /\ ~Serving'
      /\ UNCHANGED <<now, keyVars, ioVars, timerVars>>
  BY LoopParts DEF idle_timers, Serving
<1>2. SleepCoversTimers' /\ EventsReachTheirConn' /\ PollInv'
  BY <1>1 DEF SleepCoversTimers, EventsReachTheirConn, PollInv
<1>3. CASE IdleExpired /\ conn_destroy(First)
  <2>1. PICK c \in Live : c = First
    BY <1>1, <1>3, FirstIsLeast DEF IdleExpired
  <2>2. conn_destroy(c)
    BY <1>3, <2>1
  <2>3. /\ ConnInv' /\ Live' = Live \ {c} /\ IsDList(idle_list')
        /\ conn' \in [Conn -> ConnObject \cup {None}]
        /\ fd2conn' \in [Fd -> Conn \cup {None}]
        /\ \A d \in Live \ {c} : conn'[d] = conn[d]
    BY <1>1, <2>2, ConnDestroy
  <2>4. TypeOK'
    BY <1>1, <2>3 DEF TypeOK, keyVars, ioVars, timerVars, IsDList, Anchor
  <2>5. ServeInv'
    <3>1. \A d \in Live' : Settled(d)'
      BY <1>1, <2>3 DEF ServeInv, Settled
    <3>2. cur' = None
      BY <1>1 DEF ServeInv, ioVars
    <3> QED BY <1>1, <3>1, <3>2 DEF ServeInv
  <2> QED BY <1>2, <2>3, <2>4, <2>5, LoopPartsNext
<1>4. CASE UNCHANGED connVars
  <2>1. ConnInv'
    BY <1>1, <1>4, ConnSame DEF TypeOK
  <2>2. TypeOK'
    BY <1>1, <1>4 DEF TypeOK, keyVars, ioVars, timerVars, connVars
  <2>3. ServeInv'
    BY <1>1, <1>4, ServeFrame DEF connVars, ioVars
  <2> QED BY <1>2, <2>1, <2>2, <2>3, LoopPartsNext
<1> QED BY <1>3, <1>4 DEF idle_timers

\* The other steps of process_timers leave the connections alone.
LEMMA TimerSteps ==
  ASSUME LoopInv, start_timers \/ timers_done \/ \E e \in Entry : expire_key(e)
  PROVE  LoopInv'
<1>1. /\ TypeOK /\ ConnInv /\ ServeInv
      /\ pc \in {"conns", "ttl_timers"}
      /\ pc' \in {"idle_timers", "ttl_timers", "prepare", "aborted"}
      /\ ~Serving /\ ~Serving'
      /\ UNCHANGED <<now, connVars, ioVars>>
  BY LoopParts DEF start_timers, timers_done, expire_key, Serving
<1>2. SleepCoversTimers' /\ EventsReachTheirConn' /\ PollInv'
  BY <1>1 DEF SleepCoversTimers, EventsReachTheirConn, PollInv
<1>3. ConnInv'
  BY <1>1, ConnSame DEF TypeOK
<1>4. TypeOK'
  <2>1. ASSUME start_timers \/ timers_done PROVE TypeOK'
    BY <1>1, <2>1 DEF start_timers, timers_done, TypeOK, keyVars, ioVars, timerVars, connVars
  <2>2. ASSUME NEW e \in Entry, expire_key(e) PROVE TypeOK'
    <3>1. CASE entry_del(e) /\ nworks' = nworks + 1 /\ now_ms' = now_ms
      <4>1. /\ db' \in [Conn -> SUBSET Entry]
            /\ owner' \in [Entry -> Conn \cup {None}]
            /\ expire' \in [Entry -> Nat \cup {None}]
        BY <1>1, <3>1 DEF TypeOK, entry_del
      <4> QED BY <1>1, <3>1, <4>1 DEF TypeOK, ioVars, connVars
    <3>2. CASE UNCHANGED <<keyVars, nworks, now_ms>>
      BY <1>1, <3>2 DEF TypeOK, keyVars, ioVars, connVars
    <3> QED BY <2>2, <3>1, <3>2 DEF expire_key
  <2> QED BY <2>1, <2>2
<1>5. ServeInv'
  BY <1>1, ServeFrame DEF connVars, ioVars
<1> QED BY <1>2, <1>3, <1>4, <1>5, LoopPartsNext

\* The clock advances: no activity lies in the future, and poll() sleeps as
\* long as it was told to.
LEMMA TickStep ==
  ASSUME LoopInv, Tick \/ UNCHANGED vars
  PROVE  LoopInv'
<1>1. /\ TypeOK /\ ConnInv /\ SleepCoversTimers /\ EventsReachTheirConn /\ ServeInv /\ PollInv
      /\ UNCHANGED <<connVars, keyVars, ioVars, timerVars, pc>>
  BY LoopParts DEF Tick, vars, connVars, keyVars, ioVars, timerVars
<1>2. now' \in Nat /\ now <= now'
  BY <1>1 DEF Tick, vars, TypeOK
<1>3. ConnInv' /\ Live' = Live
  BY <1>1, <1>2, ConnSame
<1>4. TypeOK'
  BY <1>1, <1>2 DEF TypeOK, keyVars, ioVars, timerVars, connVars
<1>5. UNCHANGED <<Armed, Polled, Serving, Cur>>
  BY <1>1 DEF Armed, Polled, Serving, Cur, keyVars, ioVars, connVars
<1>6. SleepCoversTimers'
  BY <1>1, <1>3, <1>5 DEF SleepCoversTimers, keyVars, ioVars, connVars
<1>7. EventsReachTheirConn' /\ PollInv'
  BY <1>1, <1>3, <1>5 DEF EventsReachTheirConn, PollInv, ioVars, connVars
<1>8. ServeInv'
  BY <1>1, <1>3, <1>5 DEF ServeInv, Settled, ioVars, connVars
<1> QED BY <1>3, <1>4, <1>6, <1>7, <1>8, LoopPartsNext

-----------------------------------------------------------------------------
(* The theorems. *)

\* Every step of the loop keeps the invariant.
LEMMA LoopNext == LoopInv /\ [Next]_vars => LoopInv'
<1> SUFFICES ASSUME LoopInv, [Next]_vars PROVE LoopInv'
  OBVIOUS
<1>1. CASE prepare
  BY <1>1, Prepare
<1>2. CASE accept
  BY <1>2, Accept
<1>3. CASE skip_conn
  BY <1>3, SkipConn
<1>4. CASE touch_conn
  BY <1>4, TouchConn
<1>5. CASE bad_request \/ read_fails \/ read_ends
  BY <1>5, ReadEnds
<1>6. CASE handle_write
  BY <1>6, Written
<1>7. CASE close_conn
  BY <1>7, CloseConn
<1>8. CASE idle_timers
  BY <1>8, IdleTimerStep
<1>9. CASE start_timers \/ timers_done \/ \E e \in Entry : expire_key(e)
  BY <1>9, TimerSteps
<1>10. CASE Request
  BY <1>10, RequestStep
<1>11. CASE poll_ready
  BY <1>11, PollReady
<1>12. CASE poll_timeout \/ poll_interrupted
  BY <1>12, PollEmpty
<1>13. CASE Tick \/ UNCHANGED vars
  BY <1>13, TickStep
<1> QED BY <1>1, <1>2, <1>3, <1>4, <1>5, <1>6, <1>7, <1>8, <1>9, <1>10, <1>11, <1>12, <1>13
        DEF Next, Step

\* LoopInv is an invariant of the event loop of server.cpp: it holds at the start
\* and every step of main, handle_accept, handle_read, handle_write, conn_destroy
\* and process_timers keeps it, whatever clients and the clock do.
THEOREM LoopInvariant == Spec => []LoopInv
BY InitLoopInv, LoopNext, PTL DEF Spec

\* main never finds a freed or a foreign connection in g_data.fd2conn, and every
\* connection that exists is in it under its own descriptor.
THEOREM TableAlwaysExact == Spec => []FdTableExact
<1>1. LoopInv => FdTableExact
  BY DEF LoopInv
<1> QED BY <1>1, LoopInvariant, PTL

\* The pointers of g_data.idle_list always link every connection once, from the
\* least to the most recently active: DList's detach and insert, called from
\* accept, from serving and from closing, never break it.
THEOREM IdleListAlwaysExact == Spec => []IdleListExact
<1>1. LoopInv => IdleListExact
  BY DEF LoopInv
<1> QED BY <1>1, LoopInvariant, PTL

\* The timeout that next_timer_ms computes, truncated to int32_t, never lets
\* poll() sleep past the idle timeout of a connection or the TTL of a key that a
\* client can still see, for every idle timeout below 2^31.
THEOREM SleepNeverTooLong == Spec => []SleepCoversTimers
<1>1. LoopInv => SleepCoversTimers
  BY DEF LoopInv
<1> QED BY <1>1, LoopInvariant, PTL

\* The events that poll() reported for a connection are never used on another
\* one that got the same descriptor from accept() in between.
THEOREM EventsNeverMisdelivered == Spec => []EventsReachTheirConn
<1>1. LoopInv => EventsReachTheirConn
  BY DEF LoopInv
<1> QED BY <1>1, LoopInvariant, PTL

\* Whenever the loop polls, every connection waits for the event it needs: the
\* flags that handle_read, handle_write and the close test of main leave behind
\* are never stuck.
THEOREM AlwaysWaitsRight == Spec => []WaitsForTheRightEvent
<1>1. LoopInv => WaitsForTheRightEvent
  BY DEF LoopInv, ServeInv, Serving, Settled, WaitsForTheRightEvent
<1> QED BY <1>1, LoopInvariant, PTL
=============================================================================
