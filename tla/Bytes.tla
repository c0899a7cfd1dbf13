------------------------------- MODULE Bytes -------------------------------
(***************************************************************************)
(* Byte strings as the programs build them with memcpy on a little-endian  *)
(* machine.  The size of a byte and of the integers are parameters, so     *)
(* that every string of a useful length can be enumerated.                 *)
(***************************************************************************)
EXTENDS Integers, Sequences

CONSTANTS
  Base,        \* how many values a byte has: 256
  WordLen      \* bytes in a uint32_t: 4

ASSUME BytesConstants == Base \in Nat \ {0, 1} /\ WordLen \in Nat \ {0}

Byte == 0 .. Base - 1

\* What the byte at offset k of an integer counts for.
weight[k \in 0 .. WordLen] == IF k = 0 THEN 1 ELSE Base * weight[k - 1]

\* buf_append_u32: the bytes of v, the lowest first.
u32(v) == [i \in 1 .. WordLen |-> (v \div weight[i - 1]) % Base]

\* memcpy(&v, &s[at], 4): the value at offset `at', counted from 0.
u32_at(s, at) ==
  LET upto[k \in 0 .. WordLen] ==
        IF k = 0 THEN 0 ELSE upto[k - 1] + s[at + k] * weight[k - 1]
  IN  upto[WordLen]
=============================================================================
