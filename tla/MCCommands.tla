----------------------------- MODULE MCCommands -----------------------------
(* Instances of Commands for TLC. *)
EXTENDS Commands, TLC

Text(t, i) == [text |-> t, n |-> i]

MCArg == {Text("num", -1), Text("empty", 0), Text("junk", 0)}

Symmetry ==
  Permutations(Conn) \cup Permutations(Key) \cup Permutations(Name)
=============================================================================
