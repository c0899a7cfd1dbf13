------------------------------ MODULE Replies ------------------------------
(***************************************************************************)
(* Keys, values, arguments and replies of the commands.                    *)
(***************************************************************************)
EXTENDS Integers

CONSTANTS
  Conn,        \* the open connections
  Key,
  Val,         \* string values
  Name,        \* members of sorted sets
  Arg,         \* numbers as they are sent: [text, n], text "num", "empty" or "junk"
  None         \* no deadline, no entry

\* A value has a type, and both a string and a sorted set, like struct Entry.
Value(type, str, zset) == [type |-> type, str |-> str, zset |-> zset]
Absent == Value("none", 0, << >>)

ERR_UNKNOWN == 1
ERR_BAD_TYP == 3
ERR_BAD_ARG == 4

\* A reply has a tag and the values in it.
Reply(c, tag, vals) == [to |-> c, tag |-> tag, vals |-> vals]
BadType(c) == Reply(c, "err", {ERR_BAD_TYP})
BadArg(c) == Reply(c, "err", {ERR_BAD_ARG})

\* strtoll and strtod read an empty string as 0 and stop at its end.
ParsedOk(a) == a.text # "junk"
Parsed(a) == IF a.text = "num" THEN a.n ELSE 0
=============================================================================
