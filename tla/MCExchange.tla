----------------------------- MODULE MCExchange -----------------------------
(* Instances of Exchange for TLC. *)
EXTENDS Exchange

\* The bytes of requests and lines: a letter, a space and a quote.
Char == {0, 1, 2}

MCInput == BoundedSeq(Char, MaxLen)

Word == BoundedSeq({0, Space}, 2)

\* An argument in quotes, or bare when it is not empty and has no space.
Spelled(w) ==
  {<<Quote>> \o w \o <<Quote>>}
  \cup (IF w # << >> /\ Space \notin Range(w) THEN {w} ELSE {})

Gap == {<<Space>>, <<Space, Space>>}

LongArg == [i \in 1 .. 17 |-> 0]

\* Up to two arguments, with space around and between them; three short ones;
\* one that is too long to be sent; and a line with a quote that is not closed,
\* which is never sent.
MCLine ==
  {[text |-> << >>, meant |-> << >>], [text |-> LongArg, meant |-> <<LongArg>>],
   [text |-> <<0, Space, Quote, 0>>, meant |-> <<<<0>>>>],
   [text |-> <<0, Space, 0, Space, 0>>, meant |-> <<<<0>>, <<0>>, <<0>>>>]}
  \cup UNION {{[text |-> g \o t, meant |-> <<w>>] : t \in Spelled(w), g \in Gap \cup {<< >>}} :
              w \in Word}
  \cup UNION {{[text |-> t \o g \o u, meant |-> <<w, v>>] :
                 t \in Spelled(w), u \in Spelled(v), g \in Gap} : w, v \in Word}

MCStr == {<< >>, <<0>>, <<2, 5>>}
MCNum == {<<0, 0>>, <<7, 1>>}
MCErrMsg == <<6>>
=============================================================================
