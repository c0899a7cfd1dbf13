---------------------------- MODULE RequestWire ----------------------------
(***************************************************************************)
(* The body of a request: send_request of client.cpp writes a command as   *)
(* the number of its strings and each string after its length, and         *)
(* parse_req of server.cpp reads it back, one string per step.  The input  *)
(* is any byte string at all, since the server parses whatever arrives.    *)
(***************************************************************************)
EXTENDS Bytes, SequencesExt

CONSTANTS
  Input,       \* the bodies that clients send
  MaxLen,      \* bound on their length
  k_max_args

ASSUME RequestConstants ==
  /\ MaxLen \in Nat /\ k_max_args \in Nat
  /\ \A b \in Input : b \in Seq(Byte) /\ Len(b) <= MaxLen

VARIABLES
  body,        \* the body of the message
  cur,         \* how much of it has been read
  nstr,        \* the number of strings, -1 before it is read
  out,         \* the strings
  parsed       \* what parse_req returns, "none" while it runs

parseVars == <<body, cur, nstr, out, parsed>>

\* read_u32 and read_str succeed when there are n bytes left.
available(n) == cur + n <= Len(body)

too_many(n) == n > k_max_args

\* The number of strings.
parse_count ==
  /\ parsed = "none" /\ nstr = -1
  /\ \/ /\ available(WordLen)
        /\ nstr' = u32_at(body, 0)
        /\ cur' = WordLen
        /\ parsed' = IF too_many(nstr') THEN "error" ELSE "none"
     \/ /\ ~available(WordLen)
        /\ parsed' = "error"
        /\ UNCHANGED <<nstr, cur>>
  /\ UNCHANGED <<body, out>>

\* One string: its length, then its bytes.
parse_str ==
  /\ parsed = "none" /\ Len(out) < nstr
  /\ \/ /\ available(WordLen)
        /\ LET len == u32_at(body, cur)
           IN  /\ available(WordLen + len)
               /\ out' = Append(out, SubSeq(body, cur + WordLen + 1, cur + WordLen + len))
               /\ cur' = cur + WordLen + len
        /\ UNCHANGED parsed
     \/ /\ available(WordLen) => ~available(WordLen + u32_at(body, cur))
        /\ parsed' = "error"
        /\ UNCHANGED <<out, cur>>
  /\ UNCHANGED <<body, nstr>>

\* Faulty variant of at_end: trailing bytes are ignored.
at_end_unchecked == TRUE

at_end == cur = Len(body)

\* Nothing may follow the last string.
parse_end ==
  /\ parsed = "none" /\ nstr >= 0 /\ Len(out) = nstr
  /\ parsed' = IF at_end THEN "ok" ELSE "error"
  /\ UNCHANGED <<body, cur, nstr, out>>

parse_req == parse_count \/ parse_str \/ parse_end

-----------------------------------------------------------------------------
\* send_request, the body of its message.
encode(cmd) ==
  u32(Len(cmd)) \o FlattenSeq([i \in DOMAIN cmd |-> u32(Len(cmd[i])) \o cmd[i]])

\* Every command of the bytes in Input whose body is no longer than MaxLen.
Letter == UNION {Range(b) : b \in Input}

Command ==
  {cmd \in UNION {[1 .. n -> BoundedSeq(Letter, MaxLen - (n + 1) * WordLen)] :
                  n \in 0 .. (MaxLen \div WordLen) - 1} :
     Len(encode(cmd)) <= MaxLen}

\* The bodies that a client which respects k_max_args can send.
Encoded == {encode(cmd) : cmd \in {c \in Command : Len(c) <= k_max_args}}

\* parse_req accepts exactly what send_request writes, and returns the strings
\* that were sent: no other byte string is taken for a command.
ParseExact ==
  /\ parsed = "ok" => encode(out) = body /\ Len(out) <= k_max_args
  /\ parsed = "error" => body \notin Encoded
=============================================================================
