------------------------------ MODULE Exchange ------------------------------
(***************************************************************************)
(* One command from the line the user types to the reply that is printed:  *)
(* ClientLine, RequestWire and ReplyWire one after the other, with the     *)
(* bytes that each hands to the next.  Requests also come from other       *)
(* clients, as any bytes.  Which reply a command gets is left open here    *)
(* (see Commands), and so is how the bytes travel (see Session), except    *)
(* that the connection may end in the middle of a response.                *)
(***************************************************************************)
EXTENDS ClientLine, RequestWire, ReplyWire

\* A body that is longer than k_max_msg is not let in (see Session), and the
\* length of one that is not fits in its word.
ASSUME ExchangeConstants == MaxLen <= k_max_msg /\ k_max_msg < weight[WordLen]

VARIABLES
  phase,       \* "line", "parse" or "reply"
  typed        \* does the request come from the line?

vars == <<phase, typed, lineVars, parseVars, replyVars>>

NoLine == [text |-> << >>, meant |-> << >>]

Init ==
  /\ \/ phase = "line" /\ typed = TRUE /\ input \in Line /\ body = << >>
     \/ phase = "parse" /\ typed = FALSE /\ input = NoLine /\ body \in Input
  /\ pos = 0 /\ cmd = << >>
  /\ cur = 0 /\ nstr = -1 /\ out = << >> /\ parsed = "none"
  /\ reply = << >> /\ outgoing = << >> /\ kept = 0
  /\ at = 0 /\ left = << >> /\ printed = << >> /\ accepted = "none"

type_line ==
  /\ phase = "line"
  /\ read_line
  /\ UNCHANGED <<phase, typed, parseVars, replyVars>>

too_large == Len(encode(cmd)) > k_max_msg

\* A request that the server would not let in is not sent: query() fails and
\* the next line is read.
refuse_request ==
  /\ phase = "line" /\ LineRead
  /\ too_large
  /\ input' \in Line /\ pos' = 0 /\ cmd' = << >>
  /\ UNCHANGED <<phase, typed, parseVars, replyVars>>

\* query() with the arguments of the line.
send_request ==
  /\ phase = "line" /\ LineRead
  /\ ~too_large
  /\ body' = encode(cmd)
  /\ phase' = "parse"
  /\ UNCHANGED <<typed, lineVars, cur, nstr, out, parsed, replyVars>>

parse ==
  /\ phase = "parse"
  /\ parse_req
  /\ UNCHANGED <<phase, typed, lineVars, replyVars>>

\* do_request, response_end; what was sent is not needed any more.
do_request ==
  /\ phase = "parse" /\ parsed = "ok"
  /\ reply' \in Reply
  /\ outgoing' = response(reply')
  /\ kept' \in 0 .. Len(outgoing')
  /\ UNCHANGED <<at, left, printed, accepted>>
  /\ phase' = "reply" /\ typed' = TRUE
  /\ input' = NoLine /\ pos' = 0 /\ cmd' = << >>
  /\ body' = << >> /\ cur' = 0 /\ nstr' = -1 /\ out' = << >> /\ parsed' = "none"

read_reply ==
  /\ phase = "reply"
  /\ client_reads
  /\ UNCHANGED <<phase, typed, lineVars, parseVars>>

\* The next line, if the connection is still there.
next_line ==
  /\ phase = "reply" /\ accepted # "none" /\ kept = Len(outgoing)
  /\ phase' = "line"
  /\ input' \in Line /\ pos' = 0 /\ cmd' = << >>
  /\ reply' = << >> /\ outgoing' = << >> /\ kept' = 0
  /\ at' = 0 /\ left' = << >> /\ printed' = << >> /\ accepted' = "none"
  /\ UNCHANGED <<typed, parseVars>>

Next ==
  type_line \/ refuse_request \/ send_request \/ parse \/ do_request \/ read_reply \/ next_line

Spec == Init /\ [][Next]_vars

-----------------------------------------------------------------------------
\* A command that is typed argument by argument, in quotes where it has to be,
\* reaches do_request with exactly these arguments, empty ones and spaces
\* included.
ArgumentsExact ==
  phase = "parse" /\ typed =>
    /\ parsed = "error" => Len(input.meant) > k_max_args
    /\ parsed = "ok" => out = input.meant
=============================================================================
