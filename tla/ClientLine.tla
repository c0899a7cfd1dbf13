----------------------------- MODULE ClientLine -----------------------------
(***************************************************************************)
(* The interactive loop of client.cpp: a line of input is cut into the     *)
(* arguments of a command, which are separated by spaces and may be        *)
(* quoted.  One step is one iteration of the inner loop.                   *)
(***************************************************************************)
EXTENDS Bytes, SequencesExt

CONSTANTS
  Space, Quote, \* the characters with a meaning
  Line          \* what the user types: [text, meant], the characters and the
                \* arguments of the command that they are written down for

\* Argument w is written in t from offset a to offset b: in quotes, or bare when
\* it is not empty, has no space and does not begin with a quote.
Written(t, a, b, w) ==
  \/ SubSeq(t, a + 1, b) = <<Quote>> \o w \o <<Quote>> /\ Quote \notin Range(w)
  \/ /\ w # << >> /\ SubSeq(t, a + 1, b) = w
     /\ Space \notin Range(w) /\ w[1] # Quote
     /\ b = Len(t) \/ t[b + 1] = Space

\* Argument i of the line l is written from first[i] to past[i], with nothing
\* but spaces before, between and after the arguments; a quote that is never
\* closed may follow them.
LaidOut(l, first, past) ==
  /\ past[0] = 0
  /\ \A i \in 1 .. Len(l.meant) : Written(l.text, first[i], past[i], l.meant[i])
  /\ \A i \in 0 .. Len(l.meant) :
       /\ past[i] <= first[i + 1]
       /\ \A p \in past[i] + 1 .. first[i + 1] : l.text[p] = Space
  /\ LET end == first[Len(l.meant) + 1]
     IN  end < Len(l.text) =>
           /\ l.text[end + 1] = Quote
           /\ \A p \in end + 2 .. Len(l.text) : l.text[p] # Quote

Firsts(l) == [1 .. Len(l.meant) + 1 -> 0 .. Len(l.text)]
Pasts(l) == [0 .. Len(l.meant) -> 0 .. Len(l.text)]

\* Every line is a command that was written down by these rules.
ASSUME LineConstants ==
  /\ {Space, Quote} \subseteq Byte /\ Space # Quote
  /\ \A l \in Line :
       /\ l.text \in Seq(Byte) /\ l.meant \in Seq(Seq(Byte))
       /\ \E first \in Firsts(l), past \in Pasts(l) : LaidOut(l, first, past)

VARIABLES input, pos, cmd

lineVars == <<input, pos, cmd>>

Size == Len(input.text)
At(p) == input.text[p + 1]

\* input.find(c, from), the size of the line for npos.
find(c, from) ==
  CHOOSE p \in from .. Size :
    /\ p = Size \/ At(p) = c
    /\ \A o \in from .. p - 1 : At(o) # c

substr(from, n) == SubSeq(input.text, from + 1, from + n)

skip_space ==
  /\ pos < Size /\ At(pos) = Space
  /\ pos' = pos + 1
  /\ UNCHANGED <<input, cmd>>

\* Faulty variant of between_quotes: the closing quote is taken as well.
between_quotes_and_end(end) == substr(pos + 1, end - pos)

between_quotes(end) == substr(pos + 1, end - pos - 1)

\* A quoted argument.  Without a closing quote the loop starts over: pos has
\* not moved.
quoted ==
  LET end == find(Quote, pos + 1)
  IN  /\ pos < Size /\ At(pos) = Quote
      /\ IF end = Size THEN UNCHANGED <<cmd, pos>>
         ELSE /\ cmd' = Append(cmd, between_quotes(end))
              /\ pos' = end + 1
      /\ UNCHANGED input

\* A bare argument, to the next space.
bare ==
  LET end == find(Space, pos)
  IN  /\ pos < Size /\ At(pos) \notin {Space, Quote}
      /\ cmd' = Append(cmd, substr(pos, end - pos))
      /\ pos' = end
      /\ UNCHANGED input

read_line == skip_space \/ quoted \/ bare

\* The line is used up.
LineRead == pos >= Size
=============================================================================
