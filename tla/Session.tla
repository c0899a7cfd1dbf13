------------------------------ MODULE Session ------------------------------
(***************************************************************************)
(* One connection, from both ends: query() of client.cpp, and handle_read, *)
(* try_one_request, handle_write and conn_destroy of server.cpp, over a    *)
(* TCP stream in each direction that delivers bytes in order, in pieces of *)
(* any size, and holds a bounded number of them.                           *)
(*                                                                         *)
(* A message is HeaderLen cells of header and then its body; a cell is     *)
(* <<i, j>>, the j-th of the i-th request or of the response to it.  The   *)
(* client of the repository has one request under way (window = 1); any    *)
(* other may send more before it reads a response.                         *)
(***************************************************************************)
EXTENDS Integers, SequencesExt

CONSTANTS
  Kind,        \* requests: "ok", "bad" (parse_req fails), "long" (> k_max_msg)
  HeaderLen,   \* the cells of a header
  ReqLen,      \* the cells of a request's body
  RespLen,     \* the cells of a response's body
  ShapeLen,    \* the first of them, which hold its tag and length: without these
               \* print_response does not return the size of the response
  ReadBuf,     \* sizeof(buf) in handle_read
  Capacity,    \* what a socket holds in one direction
  Window,      \* how many requests clients have under way at most
  MaxReq       \* bound: how many requests it sends

ASSUME SessionConstants ==
  /\ Kind \subseteq {"ok", "bad", "long"}
  /\ {HeaderLen, ReqLen, RespLen, ReadBuf, Capacity} \cup Window \subseteq Nat \ {0}
  /\ ShapeLen \in 1 .. RespLen /\ MaxReq \in Nat

VARIABLES
  window,      \* the Window of this client
  kind,        \* the requests the client has made, in order
  tosend,      \* what write_all has not written yet
  c2s, s2c,    \* bytes under way
  incoming, outgoing,
  want,        \* want_read or want_write
  spc,         \* where the server is with this connection
  down,        \* "open", or how the server's end of the connection ended: "fin"
               \* (all it had written arrives) or "rst"
  served,      \* history: the requests that do_request was called for
  rx,          \* history: the cells the client has read
  got,         \* how many of them belong to the response it is reading
  results,     \* what query() returned for each request, in order
  cpc          \* "run" while the client lives, "quit", or "killed" by SIGPIPE

vars == <<window, kind, tosend, c2s, s2c, incoming, outgoing, want, spc, down, served,
          rx, got, results, cpc>>
serverVars == <<incoming, outgoing, want, spc, served>>
readerVars == <<rx, got, results>>

Cells(i, n) == [j \in 1 .. n |-> <<i, j>>]
Request(i) == Cells(i, HeaderLen + ReqLen)
Response(i) == Cells(i, HeaderLen + RespLen)

Cell == (1 .. MaxReq) \X Nat

Result == [id : 0 .. MaxReq, ok : BOOLEAN, n : Nat]

TypeOK ==
  /\ window \in Window
  /\ kind \in Seq(Kind)
  /\ {tosend, c2s, s2c, incoming, outgoing, rx} \subseteq Seq(Cell)
  /\ Len(c2s) <= Capacity /\ Len(s2c) <= Capacity
  /\ want \in {"read", "write"}
  /\ spc \in {"poll", "serve", "close", "closed"}
  /\ down \in {"open", "fin", "rst"}
  /\ served \in Seq(1 .. MaxReq)
  /\ got \in 0 .. HeaderLen + RespLen
  /\ results \in Seq(Result)
  /\ cpc \in {"run", "quit", "killed"}

Init ==
  /\ window \in Window
  /\ kind = << >> /\ tosend = << >>
  /\ c2s = << >> /\ s2c = << >>
  /\ incoming = << >> /\ outgoing = << >>
  /\ want = "read" /\ spc = "poll" /\ down = "open"
  /\ served = << >>
  /\ rx = << >> /\ got = 0 /\ results = << >>
  /\ cpc = "run"

Drop(s, n) == SubSeq(s, n + 1, Len(s))
Take(s, n) == SubSeq(s, 1, n)
Least(a, b) == IF a < b THEN a ELSE b

-----------------------------------------------------------------------------
(* The client *)

UnderWay == Len(kind) - Len(results)

\* query() starts: send_request puts the message together.
query(k) ==
  /\ cpc = "run"
  /\ tosend = << >> /\ UnderWay < window /\ Len(kind) < MaxReq
  /\ kind' = Append(kind, k)
  /\ tosend' = Request(Len(kind) + 1)
  /\ UNCHANGED <<c2s, s2c, serverVars, down, readerVars, cpc>>

\* query() returns; n cells of the response were there.
return_(ok, n, id) ==
  /\ results' = Append(results, [id |-> id, ok |-> ok, n |-> n])
  /\ got' = 0

\* One write() of write_all.  When the server has closed, what is written is
\* answered by a reset, and the next write raises SIGPIPE.
write_all ==
  /\ cpc = "run" /\ tosend # << >>
  /\ \/ /\ down = "open"
        /\ \E n \in 1 .. Least(Len(tosend), Capacity - Len(c2s)) :
             c2s' = c2s \o Take(tosend, n) /\ tosend' = Drop(tosend, n)
        /\ UNCHANGED <<down, cpc>>
     \/ /\ down = "fin"
        /\ tosend' = << >> /\ down' = "rst"
        /\ UNCHANGED <<c2s, cpc>>
     \/ /\ down = "rst"
        /\ cpc' = "killed" /\ tosend' = << >>
        /\ UNCHANGED <<c2s, down>>
  /\ UNCHANGED <<kind, s2c, serverVars, readerVars>>

\* The first write() after the reset may fail instead: query() returns -1.
write_fails ==
  /\ cpc = "run" /\ tosend # << >> /\ down = "rst"
  /\ tosend' = << >>
  /\ return_(FALSE, 0, 0)
  /\ UNCHANGED <<kind, c2s, s2c, serverVars, down, rx, cpc>>

Reading == cpc = "run" /\ UnderWay > 0 /\ (tosend = << >> \/ window > 1)

\* Faulty variant of need: after a short read read_full asks for all of it again.
need_again == IF got < HeaderLen THEN HeaderLen ELSE HeaderLen + RespLen

\* How much is missing of the header, or of the body.
need == IF got < HeaderLen THEN HeaderLen - got ELSE HeaderLen + RespLen - got

\* One read() of read_full, for the header or for the body.
read_full ==
  /\ Reading /\ s2c # << >>
  /\ \E n \in 1 .. Least(need, Len(s2c)) :
       /\ rx' = rx \o Take(s2c, n)
       /\ s2c' = Drop(s2c, n)
       /\ IF got + n = HeaderLen + RespLen
          THEN return_(TRUE, got + n, s2c[n][1])
          ELSE got' = got + n /\ UNCHANGED results
  /\ UNCHANGED <<kind, tosend, c2s, serverVars, down, cpc>>

\* Faulty variant of eof_result: an end of file is taken for a full read.
eof_result_trusting == TRUE

\* read_full returns 0 at the end of the stream as well.  The rest of the
\* buffer is zero, and read_response reports an error only when print_response
\* does not find a response of the announced size in it.
eof_result == got >= HeaderLen + ShapeLen

read_eof ==
  /\ Reading /\ s2c = << >>
  /\ \/ down = "fin" /\ return_(eof_result, got, IF got = 0 THEN 0 ELSE Last(rx)[1])
     \/ down = "rst" /\ return_(FALSE, got, 0)
  /\ UNCHANGED <<kind, tosend, c2s, s2c, serverVars, down, rx, cpc>>

\* End of input, or the reply to `quit' was read: close() and exit.
client_close ==
  /\ cpc = "run" /\ UnderWay = 0 /\ tosend = << >>
  /\ cpc' = "quit"
  /\ UNCHANGED <<kind, tosend, c2s, s2c, serverVars, down, readerVars>>

-----------------------------------------------------------------------------
(* The server *)

\* handle_read up to its loop: read() returns what has arrived, or 0.
handle_read ==
  LET n == Least(Len(c2s), ReadBuf)
  IN  /\ spc = "poll" /\ want = "read"
      /\ \/ /\ c2s # << >>
            /\ incoming' = incoming \o Take(c2s, n)
            /\ c2s' = Drop(c2s, n)
            /\ spc' = "serve"
         \/ /\ c2s = << >> /\ cpc # "run"
            /\ spc' = "close"
            /\ UNCHANGED <<incoming, c2s>>
      /\ UNCHANGED <<kind, tosend, s2c, outgoing, want, down, served, readerVars, cpc>>

\* outgoing.clear(), response_begin, do_request, response_end.
answer(i) == Response(i)

\* Faulty variant of consumed: the header is not counted.
consumed_short(i) == ReqLen

\* What buf_consume takes off incoming: the message, or the header alone when
\* its length is out of range.
consumed(i) == IF kind[i] = "long" THEN HeaderLen ELSE HeaderLen + ReqLen

Complete == Len(incoming) >= HeaderLen /\ Len(incoming) >= consumed(incoming[1][1])

\* One call of try_one_request that finds a request.
try_one_request ==
  LET i == incoming[1][1]
  IN  /\ spc = "serve"
      /\ Complete
      /\ incoming' = Drop(incoming, consumed(i))
      /\ \/ /\ kind[i] = "ok"
            /\ outgoing' = answer(i)
            /\ served' = Append(served, i)
            /\ UNCHANGED <<want, spc>>
         \/ /\ kind[i] # "ok"
            /\ outgoing' = outgoing \o Response(i)
            /\ want' = "write"
            /\ spc' = "close"
            /\ UNCHANGED served
      /\ UNCHANGED <<kind, tosend, c2s, s2c, down, readerVars, cpc>>

\* The last one finds none; handle_read returns.
read_done ==
  /\ spc = "serve"
  /\ ~Complete
  /\ want' = IF outgoing = << >> THEN want ELSE "write"
  /\ spc' = "poll"
  /\ UNCHANGED <<kind, tosend, c2s, s2c, incoming, outgoing, down, served,
                 readerVars, cpc>>

\* Faulty variants of want_after_write: reading starts over at EAGAIN, or not
\* even when all is written.
want_after_write_eagain(left) == "read"
want_after_write_stuck(left) == "write"

want_after_write(left) == IF left = << >> THEN "read" ELSE "write"

\* handle_write: bytes are written until there are none or the socket is full.
handle_write ==
  /\ spc = "poll" /\ want = "write"
  /\ \E n \in 1 .. Least(Len(outgoing), Capacity - Len(s2c)) :
       /\ s2c' = s2c \o Take(outgoing, n)
       /\ outgoing' = Drop(outgoing, n)
       /\ want' = want_after_write(Drop(outgoing, n))
  /\ UNCHANGED <<kind, tosend, c2s, incoming, spc, down, served, readerVars, cpc>>

\* conn_destroy.  A socket closed with unread input resets the connection, and
\* what the peer had not received yet is lost.
conn_destroy ==
  /\ spc' = "closed"
  /\ c2s' = << >>
  /\ \/ c2s = << >> /\ down' = "fin" /\ UNCHANGED s2c
     \/ c2s # << >> /\ down' = "rst" /\ \E n \in 0 .. Len(s2c) : s2c' = Take(s2c, n)
  /\ UNCHANGED <<kind, tosend, incoming, outgoing, want, served, readerVars, cpc>>

\* main, after handle_read has set want_close.
close_conn == spc = "close" /\ conn_destroy

\* process_timers, for a client that was idle or stopped for a minute; the end
\* of the server process looks the same to the client.
idle_close == spc = "poll" /\ conn_destroy

-----------------------------------------------------------------------------
ClientStep == UNCHANGED window /\ (write_all \/ write_fails \/ read_full \/ read_eof)

ServerStep ==
  /\ UNCHANGED window
  /\ handle_read \/ try_one_request \/ read_done \/ handle_write \/ close_conn

\* A new request, the end of the client, or a connection that is idle.
Decision ==
  /\ UNCHANGED window
  /\ (\E k \in Kind : query(k)) \/ client_close \/ idle_close

Next == ClientStep \/ ServerStep \/ Decision

Spec == Init /\ [][Next]_vars

\* The client does nothing else while query() runs, and poll() reports every
\* connection that is ready.  Nobody has to make a request or be idle.
FairSpec == Spec /\ WF_vars(ClientStep) /\ WF_vars(ServerStep)

-----------------------------------------------------------------------------
(***************************************************************************)
(* Properties.                                                             *)
(***************************************************************************)
\* What the client has been or will be given.
Stream == rx \o s2c \o (IF down = "open" THEN outgoing ELSE << >>)

MsgLen == HeaderLen + RespLen

\* The cells of a stream are whole responses one after the other, each to a
\* later request, the last one perhaps cut short.
Intact(s) ==
  \A k \in DOMAIN s :
    /\ s[k][2] = ((k - 1) % MsgLen) + 1
    /\ k > 1 => IF s[k][2] = 1 THEN s[k - 1][1] < s[k][1]
                ELSE s[k - 1][1] = s[k][1]

\* No response is interleaved with another or sent twice, however the writes
\* and the reads were split.
StreamIntact == Intact(Stream)

\* incoming starts at a header whenever it is looked at, and the server does
\* not wait for more input while a request it could serve is buffered: the
\* client would wait for the response forever.
NoRequestStranded ==
  /\ TypeOK
  /\ spc \in {"poll", "serve"} /\ incoming # << >> => incoming[1][2] = 1
  /\ spc = "poll" => ~Complete

\* With one request under way a response that the client accepts answers the
\* request it was read for.
AnswersMatch ==
  window = 1 => \A r \in DOMAIN results : results[r].ok => results[r].id = r

\* What the client has written or still writes, and the server has not taken
\* off incoming.
Pending == incoming \o c2s \o tosend

ReqMsgLen == HeaderLen + ReqLen

\* The cells of p are the last Len(p) cells of n requests.
Aligned(p, n) ==
  \A k \in DOMAIN p :
    /\ p[k][1] \in 1 .. n /\ p[k][2] \in 1 .. ReqMsgLen
    /\ (p[k][1] - 1) * ReqMsgLen + p[k][2] = n * ReqMsgLen - (Len(p) - k)

\* Until the server gives the connection up, what it has not looked at starts
\* with the header of a request whose response is not in the stream yet.
PendingInv ==
  down = "open" =>
    /\ Aligned(Pending, Len(kind))
    /\ spc \in {"poll", "serve"} /\ Pending # << >> =>
         /\ Pending[1][2] = 1
         /\ \A k \in DOMAIN Stream : Stream[k][1] < Pending[1][1]

\* The server has whole responses to write, and it takes up requests only when
\* it has written all of the last one: outgoing.clear() loses no part of one.
OutgoingInv ==
  /\ down = "open" <=> spc # "closed"
  /\ down = "open" => Len(Stream) % MsgLen = 0
  /\ spc = "serve" => want = "read" /\ Len(rx \o s2c) % MsgLen = 0
  /\ spc = "poll" => (want = "read" <=> outgoing = << >>)

\* With one request under way, all that the client has read of the response it
\* waits for, or will read, and all that the server will look at, belongs to a
\* request for which query() has not returned.
QueryInv ==
  window = 1 =>
    /\ UnderWay \in {0, 1}
    /\ \A k \in DOMAIN Stream : k > Len(rx) - got => Stream[k][1] > Len(results)
    /\ spc \in {"poll", "serve"} /\ Pending # << >> => Pending[1][1] > Len(results)
    /\ tosend # << >> => s2c = << >> /\ UnderWay = 1
    /\ down = "open" \/ s2c # << >> => Len(rx) % MsgLen = got

\* The inductive invariant of the session.
SessionInv ==
  /\ StreamIntact /\ NoRequestStranded /\ AnswersMatch
  /\ PendingInv /\ OutgoingInv /\ QueryInv
  /\ Len(kind) <= MaxReq /\ got <= Len(rx)
  /\ \A k \in DOMAIN Stream : Stream[k][1] <= Len(kind)

\* With one request under way query() returns: with a response, with an error
\* once the connection is gone, or by the death of the client.
QueryReturns == window = 1 /\ UnderWay > 0 ~> (UnderWay = 0 \/ cpc = "killed")

\* Every request that was executed has its response in the stream.
ServedIsAnswered ==
  spc = "poll" /\ down = "open" => \A i \in Range(served) : <<i, 1>> \in Range(Stream)
=============================================================================
