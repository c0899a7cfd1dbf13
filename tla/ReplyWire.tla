----------------------------- MODULE ReplyWire -----------------------------
(***************************************************************************)
(* A response, from the out_ functions and response_end of server.cpp to   *)
(* read_response and print_response of client.cpp.  print_response calls   *)
(* itself for the elements of an array; here one call is a step and `left' *)
(* is the stack of how many elements each open array still has.            *)
(*                                                                         *)
(* The connection may end in the middle of a response.  read_full returns  *)
(* 0 at an end of file as it does on success, so the client goes on with   *)
(* the zeros its buffers were made of: kept is how much really arrived.    *)
(***************************************************************************)
EXTENDS Bytes, SequencesExt

CONSTANTS
  NumLen,      \* bytes in an int64_t or a double: 8
  Str,         \* strings (keys, members, values)
  Num,         \* numbers, as their NumLen bytes
  MaxArr,      \* bound on the strings of KEYS and the pairs of ZQUERY
  ErrMsg,      \* the text of "response is too big"
  k_max_msg

\* Every tag has a byte, and the error for a response that is too big fits.
ASSUME ReplyConstants ==
  /\ Base > 5 /\ NumLen \in Nat \ {0} /\ MaxArr \in Nat
  /\ Str \subseteq Seq(Byte) /\ Num \subseteq [1 .. NumLen -> Byte]
  /\ ErrMsg \in Seq(Byte)
  /\ k_max_msg \in Nat /\ k_max_msg >= 1 + 2 * WordLen + Len(ErrMsg)

TAG_NIL == 0
TAG_ERR == 1
TAG_STR == 2
TAG_INT == 3
TAG_DBL == 4
TAG_ARR == 5

ERR_TOO_BIG == 2

\* A reply as the client prints it: a sequence of tokens [tag, len, bytes],
\* where len is the length of a string, the size of an array or 0, and an
\* array is followed by its elements.
Token(tag, len, bytes) == [tag |-> tag, len |-> len, bytes |-> bytes]

nil == Token(TAG_NIL, 0, << >>)
str(s) == Token(TAG_STR, Len(s), s)
err(code, s) == Token(TAG_ERR, Len(s), u32(code) \o s)
num(tag, b) == Token(tag, 0, b)
arr(n) == Token(TAG_ARR, n, << >>)

Reply ==
  {<<nil>>} \cup {<<str(s)>> : s \in Str} \cup {<<err(1, s)>> : s \in Str}
  \cup {<<num(t, b)>> : t \in {TAG_INT, TAG_DBL}, b \in Num}
  \cup {<<arr(Len(ks))>> \o [i \in DOMAIN ks |-> str(ks[i])] : ks \in BoundedSeq(Str, MaxArr)}
  \cup {<<arr(2 * Len(ps))>>
          \o FlattenSeq([i \in DOMAIN ps |-> <<str(ps[i][1]), num(TAG_DBL, ps[i][2])>>]) :
        ps \in BoundedSeq(Str \X Num, MaxArr)}

VARIABLES
  reply,       \* what the command puts out
  outgoing,    \* the response as it is sent
  kept,        \* how much of it the client gets
  at,          \* how much of the body print_response is through with
  left,        \* elements to come in the open arrays, the innermost last
  printed,
  accepted     \* the result of read_response, "none" while it runs

replyVars == <<reply, outgoing, kept, at, left, printed, accepted>>

-----------------------------------------------------------------------------
(* The server *)

\* out_nil, out_str, out_int, out_dbl, out_err and out_arr.
out_(t) ==
  <<t.tag>> \o
  CASE t.tag \in {TAG_NIL, TAG_INT, TAG_DBL} -> t.bytes
    [] t.tag \in {TAG_STR, TAG_ARR} -> u32(t.len) \o t.bytes
    [] t.tag = TAG_ERR -> SubSeq(t.bytes, 1, WordLen) \o u32(t.len)
                            \o SubSeq(t.bytes, WordLen + 1, Len(t.bytes))

TooBig == <<err(ERR_TOO_BIG, ErrMsg)>>

\* Faulty variant of sent: the limit is not looked at.
sent_unlimited(r) == r

\* What response_end leaves of the reply.
sent(r) ==
  IF Len(FlattenSeq([i \in DOMAIN r |-> out_(r[i])])) > k_max_msg THEN TooBig ELSE r

\* response_begin, the command, response_end: the length, then the body.
response(r) ==
  LET body == FlattenSeq([i \in DOMAIN sent(r) |-> out_(sent(r)[i])])
  IN  u32(Len(body)) \o body

-----------------------------------------------------------------------------
(* The client *)

\* The byte at offset i of the response, 0 when it did not arrive.
recv(i) == IF i < kept THEN outgoing[i + 1] ELSE 0
word(i) == u32_at([k \in 1 .. WordLen |-> recv(i + k - 1)], 0)

len == word(0)
data(i) == recv(WordLen + i)
size == len - at

\* How many bytes the element at `at' takes, and how many of them come before
\* its string; the length field is after the tag, or after the code of an error.
head == CASE data(at) = TAG_NIL -> 1
          [] data(at) = TAG_ERR -> 1 + 2 * WordLen
          [] data(at) \in {TAG_STR, TAG_ARR} -> 1 + WordLen
          [] OTHER -> 1 + NumLen

field == IF data(at) \in {TAG_ERR, TAG_STR, TAG_ARR}
         THEN word(WordLen + at + head - WordLen) ELSE 0

bytes == IF data(at) \in {TAG_ERR, TAG_STR} THEN head + field ELSE head

\* What print_response prints of it.
token ==
  [tag |-> data(at), len |-> field,
   bytes |-> LET body == [i \in 1 .. bytes - 1 |-> data(at + i)]
             IN  CASE data(at) = TAG_NIL \/ data(at) = TAG_ARR -> << >>
                   [] data(at) = TAG_STR -> SubSeq(body, WordLen + 1, bytes - 1)
                   [] data(at) = TAG_ERR -> SubSeq(body, 1, WordLen)
                                              \o SubSeq(body, 2 * WordLen + 1, bytes - 1)
                   [] OTHER -> body]

\* Arrays that have no more elements are closed.
close(stack) ==
  SubSeq(stack, 1, Max({0} \cup {i \in DOMAIN stack : stack[i] > 0}))

Bad ==
  \/ len > k_max_msg
  \/ size < 1 \/ data(at) \notin TAG_NIL .. TAG_ARR
  \/ size < head \/ size < bytes

\* One call of print_response, for the response or for an element.
print_response ==
  /\ accepted = "none"
  /\ at = 0 \/ left # << >>
  /\ \/ /\ Bad
        /\ accepted' = "error"
        /\ UNCHANGED <<at, left, printed>>
     \/ /\ ~Bad
        /\ printed' = Append(printed, token)
        /\ at' = at + bytes
        /\ LET open == IF left = << >> THEN << >>
                       ELSE [left EXCEPT ![Len(left)] = @ - 1]
           IN  left' = close(IF data(at) = TAG_ARR THEN Append(open, field) ELSE open)
        /\ UNCHANGED accepted
  /\ UNCHANGED <<reply, outgoing, kept>>

\* Faulty variant of size_matches: read_response does not compare.
size_matches_any == TRUE

size_matches == at = len

\* read_response compares the size.
read_response ==
  /\ accepted = "none"
  /\ at > 0 /\ left = << >>
  /\ accepted' = IF size_matches THEN "ok" ELSE "error"
  /\ UNCHANGED <<reply, outgoing, kept, at, left, printed>>

client_reads == print_response \/ read_response

-----------------------------------------------------------------------------
\* A response that arrives whole is accepted and printed as it was meant; one
\* that was too big arrives as the error that says so.
ClientReadsReply ==
  kept = Len(outgoing) =>
    /\ accepted # "error"
    /\ accepted = "ok" => printed = sent(reply)

\* The tags and lengths, without the contents.
Shape(tokens) == [i \in DOMAIN tokens |-> <<tokens[i].tag, tokens[i].len>>]

\* A response cut short after its header is rejected unless all its tags and
\* lengths arrived: what the client accepts has the right shape, although not
\* the right contents.
ShapeIsRight == accepted = "ok" /\ kept >= WordLen => Shape(printed) = Shape(sent(reply))
=============================================================================
