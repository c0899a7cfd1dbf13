------------------------------ MODULE KeySpace ------------------------------
(***************************************************************************)
(* What the commands promise a client: a private map from keys to values,  *)
(* each with an optional deadline, that only the client's own commands and *)
(* the deadlines change.  Commands is shown to implement it: the entries,  *)
(* the shared heap and the background deletions are not visible here.      *)
(***************************************************************************)
EXTENDS Replies

VARIABLES
  now,         \* the clock
  space,       \* the value of each key, by connection
  deadline,    \* when it is removed
  reply        \* the last reply, and whom it went to

vars == <<now, space, deadline, reply>>

Init ==
  /\ now = 0
  /\ space = [c \in Conn |-> [k \in Key |-> Absent]]
  /\ deadline = [c \in Conn |-> [k \in Key |-> None]]
  /\ reply = [to |-> None, tag |-> "none", vals |-> {}]

\* A command of c leaves key k with a value and a deadline, and replies r.
Leave(c, k, v, d, r) ==
  /\ space' = [space EXCEPT ![c][k] = v]
  /\ deadline' = [deadline EXCEPT ![c][k] = d]
  /\ reply' = r
  /\ UNCHANGED now

Answer(r) == reply' = r /\ UNCHANGED <<now, space, deadline>>

Type(c, k) == space[c][k].type
Members(c, k) == DOMAIN space[c][k].zset

Get(c, k) ==
  Answer(CASE Type(c, k) = "none" -> Reply(c, "nil", {})
              [] Type(c, k) = "str" -> Reply(c, "str", {space[c][k].str})
              [] Type(c, k) = "zset" -> BadType(c))

Set(c, k, v) ==
  \/ Type(c, k) = "zset" /\ Answer(BadType(c))
  \/ /\ Type(c, k) # "zset"
     /\ Leave(c, k, Value("str", v, << >>), deadline[c][k], Reply(c, "str", {1}))

Del(c, k) ==
  Leave(c, k, Absent, None, Reply(c, "str", {IF Type(c, k) = "none" THEN 0 ELSE 1}))

PExpire(c, k, a) ==
  \/ ~ParsedOk(a) /\ Answer(BadArg(c))
  \/ ParsedOk(a) /\ Type(c, k) = "none" /\ Answer(Reply(c, "int", {0}))
  \/ /\ ParsedOk(a) /\ Type(c, k) # "none"
     /\ Leave(c, k, space[c][k], IF Parsed(a) < 0 THEN None ELSE now + Parsed(a),
              Reply(c, "int", {1}))

PTtl(c, k) ==
  LET d == deadline[c][k]
  IN  Answer(Reply(c, "int", {IF Type(c, k) = "none" THEN -2
                                 ELSE IF d = None THEN -1
                                 ELSE IF d > now THEN d - now ELSE 0}))

Keys(c) == Answer(Reply(c, "arr", {k \in Key : Type(c, k) # "none"}))

ZAdd(c, k, a, n) ==
  LET old == space[c][k].zset
      new == [m \in DOMAIN old \cup {n} |-> IF m = n THEN Parsed(a) ELSE old[m]]
  IN  \/ ~ParsedOk(a) /\ Answer(BadArg(c))
      \/ ParsedOk(a) /\ Type(c, k) = "str" /\ Answer(BadType(c))
      \/ /\ ParsedOk(a) /\ Type(c, k) # "str"
         /\ Leave(c, k, Value("zset", 0, new), deadline[c][k],
                  Reply(c, "int", {IF n \in DOMAIN old THEN 0 ELSE 1}))

ZRem(c, k, n) ==
  \/ Type(c, k) = "str" /\ Answer(BadType(c))
  \/ Type(c, k) # "str" /\ n \notin Members(c, k) /\ Answer(Reply(c, "int", {0}))
  \/ /\ n \in Members(c, k)
     /\ Leave(c, k,
              Value("zset", 0, [m \in Members(c, k) \ {n} |-> space[c][k].zset[m]]),
              deadline[c][k], Reply(c, "int", {1}))

ZScore(c, k, n) ==
  Answer(IF Type(c, k) = "str" THEN BadType(c)
            ELSE IF n \in Members(c, k) THEN Reply(c, "dbl", {space[c][k].zset[n]})
            ELSE Reply(c, "nil", {}))

\* The members a ZQUERY returns, and their order, are the subject of ZSet.
ZQuery(c, k, a) ==
  Answer(IF ~ParsedOk(a) THEN BadArg(c)
            ELSE IF Type(c, k) = "str" THEN BadType(c)
            ELSE Reply(c, "arr", {}))

Other(c) == \E r \in {Reply(c, "bye", {}), Reply(c, "err", {ERR_UNKNOWN})} : Answer(r)

\* A key is removed by its deadline when that has passed, and not before.
Expire(c, k) ==
  /\ deadline[c][k] # None /\ deadline[c][k] < now
  /\ Leave(c, k, Absent, None, reply)

Tick == now' = now + 1 /\ UNCHANGED <<space, deadline, reply>>

Command(c) ==
  \/ \E k \in Key : Get(c, k) \/ Del(c, k) \/ PTtl(c, k) \/ \E v \in Val : Set(c, k, v)
  \/ \E k \in Key, a \in Arg : PExpire(c, k, a) \/ ZQuery(c, k, a)
  \/ \E k \in Key, n \in Name : ZRem(c, k, n) \/ ZScore(c, k, n) \/ \E a \in Arg : ZAdd(c, k, a, n)
  \/ Keys(c) \/ Other(c)

Next == Tick \/ \E c \in Conn : Command(c) \/ \E k \in Key : Expire(c, k)

Spec == Init /\ [][Next]_vars
=============================================================================
