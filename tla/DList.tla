------------------------------- MODULE DList -------------------------------
(***************************************************************************)
(* list.h: a circular doubly linked list through a dummy head.  A list is  *)
(* its two pointer maps, and an operation returns the changed maps.        *)
(***************************************************************************)
EXTENDS Naturals, FiniteSets

CONSTANTS
  Conn,         \* the objects that have a DList node
  ListHead,     \* the dummy
  None          \* NULL

\* dlist_init(&g_data.idle_list), before any node exists.
dlist_init ==
  LET null == [n \in Conn \cup {ListHead} |-> IF n = ListHead THEN ListHead ELSE None]
  IN  [next |-> null, prev |-> null]

dlist_empty(l) == l.next[ListHead] = ListHead

\* The node keeps its own pointers.
dlist_detach(l, n) ==
  [l EXCEPT !.next[l.prev[n]] = l.next[n], !.prev[l.next[n]] = l.prev[n]]

dlist_insert_before(l, target, n) ==
  [l EXCEPT !.next[l.prev[target]] = n, !.prev[n] = l.prev[target],
            !.next[n] = target, !.prev[target] = n]

\* The node goes with the object that holds it.
deleted(l, n) == [l EXCEPT !.next[n] = None, !.prev[n] = None]

-----------------------------------------------------------------------------
\* Going round the list: the head, the n nodes of list, the head again.
Round(list, n) == [i \in 0 .. n + 1 |-> IF i \in 1 .. n THEN list[i] ELSE ListHead]

\* The list consists of these nodes in this order, forwards and backwards.
Linked(l, list, n) ==
  LET at == Round(list, n)
  IN  \A i \in 0 .. n : l.next[at[i]] = at[i + 1] /\ l.prev[at[i + 1]] = at[i]
=============================================================================
