----------------------------- MODULE MCEventLoop -----------------------------
(* Instances of EventLoop for TLC. *)
EXTENDS EventLoop, TLC

\* Addresses are interchangeable; descriptors are not (accept() takes the
\* lowest one).
AddressSymmetry == Permutations(Conn) \cup Permutations(Entry)
=============================================================================
