------------------------------- MODULE NodeSet -------------------------------
(***************************************************************************)
(* What the keyspace and the sorted sets rely on when they use an HMap: a  *)
(* set of nodes that a lookup searches and a deletion shrinks, whatever    *)
(* the state of a resize.  HMap is shown to implement it.                  *)
(***************************************************************************)
CONSTANTS
  Node,       \* the HNode objects; each has a key of its own
  None        \* a null pointer

VARIABLES
  members,    \* the nodes in the map
  answer      \* what the last lookup or deletion returned

vars == <<members, answer>>

Found(n) == IF n \in members THEN n ELSE None

Init == members = {} /\ answer = None

Insert(n) ==
  /\ n \notin members
  /\ members' = members \cup {n}
  /\ answer' = None

Lookup(n) ==
  /\ answer' = Found(n)
  /\ UNCHANGED members

Delete(n) ==
  /\ answer' = Found(n)
  /\ members' = members \ {n}

Clear == members' = {} /\ answer' = None

Next == Clear \/ \E n \in Node : Insert(n) \/ Lookup(n) \/ Delete(n)

Spec == Init /\ [][Next]_vars
=============================================================================
