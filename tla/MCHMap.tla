------------------------------- MODULE MCHMap -------------------------------
(* Instances of HMap for TLC. *)
EXTENDS HMap

\* Nodes are numbers; with tables of 2, 4 and 8 slots some of them share a
\* slot in every table, some only in the smaller ones.
MChcode == [n \in Node |-> n % 8]
=============================================================================
