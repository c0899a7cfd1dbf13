------------------------------- MODULE MCZSet -------------------------------
(* Instances of ZSet for TLC. *)
EXTENDS ZSet

\* Before, at and after the member that was looked up, and out of range.
MCOffset == {-2, 0, 3}
=============================================================================
