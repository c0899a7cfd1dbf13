------------------------------ MODULE MCTtlHeap ------------------------------
(* Instances of TtlHeap for TLC. *)
EXTENDS TtlHeap, TLC

\* The entries are interchangeable.
EntrySymmetry == Permutations(Entry)
=============================================================================
