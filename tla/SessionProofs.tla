--------------------------- MODULE SessionProofs ---------------------------
(***************************************************************************)
(* Machine-checked proofs about Session, for messages, buffers and sockets *)
(* of any size and any number of requests: the inductive invariant         *)
(* SessionInv and what it implies about the stream of responses, about     *)
(* buffered requests, and about what query() returns.                      *)
(***************************************************************************)
EXTENDS Session, TLAPS, SequenceTheorems

\* A multiple of m that is nearer to 0 than m is 0.
LEMMA SmallMultiple ==
  ASSUME NEW m \in Nat \ {0}, NEW d \in Int, d * m < m, d * m > -m
  PROVE  d = 0
<1>1. CASE d >= 1
  <2>1. (d - 1) * m >= 0
    BY <1>1
  <2>2. d * m = (d - 1) * m + m
    OBVIOUS
  <2> QED BY <2>1, <2>2
<1>2. CASE d <= -1
  <2>1. (-1 - d) * m >= 0
    BY <1>2
  <2>2. d * m = -m - (-1 - d) * m
    OBVIOUS
  <2> QED BY <2>1, <2>2
<1> QED BY <1>1, <1>2

\* Two ways of dividing with a remainder agree.
LEMMA SameQuotient ==
  ASSUME NEW m \in Nat \ {0}, NEW p \in Int, NEW q \in Int,
         NEW i \in 0 .. m - 1, NEW j \in 0 .. m - 1, p * m + i = q * m + j
  PROVE  p = q /\ i = j
<1>1. (p - q) * m = j - i
  <2>1. (p - q) * m = p * m - q * m
    OBVIOUS
  <2>2. p * m \in Int /\ q * m \in Int
    OBVIOUS
  <2> QED BY <2>1, <2>2
<1>2. p - q = 0
  BY <1>1, SmallMultiple
<1> QED BY <1>2

-----------------------------------------------------------------------------
(* Arithmetic. *)

\* The constants are positive.
LEMMA Lengths ==
  /\ HeaderLen \in Nat \ {0} /\ ReqLen \in Nat \ {0} /\ RespLen \in Nat \ {0}
  /\ MsgLen \in Nat \ {0} /\ ReqMsgLen \in Nat \ {0}
  /\ ReadBuf \in Nat \ {0} /\ Capacity \in Nat \ {0} /\ MaxReq \in Nat
  /\ ShapeLen \in 1 .. RespLen /\ Window \subseteq Nat \ {0}
BY SessionConstants DEF MsgLen, ReqMsgLen

\* The remainder of a sum, up to the next multiple.
LEMMA AddToRemainder ==
  ASSUME NEW m \in Nat \ {0}, NEW a \in Nat, NEW n \in Nat, (a % m) + n <= m
  PROVE  (a + n) % m = IF (a % m) + n = m THEN 0 ELSE (a % m) + n
<1>1. PICK q \in Int : q = a \div m
  OBVIOUS
<1>2. PICK r \in 0 .. m - 1 : r = a % m
  OBVIOUS
<1>3. a = q * m + r
  BY <1>1, <1>2
<1>4. PICK p \in Int : p = (a + n) \div m
  OBVIOUS
<1>5. PICK s \in 0 .. m - 1 : s = (a + n) % m
  OBVIOUS
<1>6. a + n = p * m + s
  BY <1>4, <1>5
<1>7. CASE r + n = m
  <2>1. (q + 1) * m = q * m + m
    OBVIOUS
  <2>2. q * m \in Int /\ p * m \in Int
    OBVIOUS
  <2>3. (q + 1) * m + 0 = p * m + s
    BY <1>3, <1>6, <1>7, <2>1, <2>2
  <2>4. 0 = s
    BY <2>3, SameQuotient
  <2> QED BY <1>2, <1>5, <1>7, <2>4
<1>8. CASE r + n # m
  <2>1. r + n \in 0 .. m - 1
    BY <1>2, <1>8
  <2>2. q * m \in Int /\ p * m \in Int
    OBVIOUS
  <2>3. q * m + (r + n) = p * m + s
    BY <1>3, <1>6, <2>2
  <2>4. r + n = s
    BY <2>1, <2>3, SameQuotient
  <2> QED BY <1>2, <1>5, <1>8, <2>4
<1> QED BY <1>7, <1>8

\* The remainder after a whole number of multiples.
LEMMA AfterWhole ==
  ASSUME NEW m \in Nat \ {0}, NEW a \in Nat, a % m = 0, NEW z \in Nat, z < m
  PROVE  (a + z) % m = z
<1>1. PICK q \in Int : q = a \div m
  OBVIOUS
<1>2. a = q * m /\ q * m \in Int
  BY <1>1
<1>3. PICK p \in Int : p = (a + z) \div m
  OBVIOUS
<1>4. PICK r \in 0 .. m - 1 : r = (a + z) % m
  OBVIOUS
<1>5. a + z = p * m + r
  BY <1>3, <1>4
<1>6. z \in 0 .. m - 1 /\ p * m + r = q * m + z
  BY <1>2, <1>5
<1>7. r = z
  BY <1>6, SameQuotient
<1> QED BY <1>4, <1>7

-----------------------------------------------------------------------------
(* Sequences of cells. *)

\* What Take and Drop return, and that together they are the sequence again.
LEMMA TakeDrop ==
  ASSUME NEW S, NEW t \in Seq(S), NEW n \in 0 .. Len(t)
  PROVE  /\ Take(t, n) \in Seq(S) /\ Len(Take(t, n)) = n
         /\ \A i \in 1 .. n : Take(t, n)[i] = t[i]
         /\ Drop(t, n) \in Seq(S) /\ Len(Drop(t, n)) = Len(t) - n
         /\ \A i \in 1 .. Len(t) - n : Drop(t, n)[i] = t[n + i]
         /\ Take(t, n) \o Drop(t, n) = t
<1>1. Len(t) \in Nat /\ \A i \in 1 .. Len(t) : t[i] \in S
  BY LenProperties, ElementOfSeq
<1>2. Take(t, n) \in Seq(S) /\ Len(Take(t, n)) = n /\ \A i \in 1 .. n : Take(t, n)[i] = t[i]
  <2>1. \A i \in 1 .. n : t[i] \in S
    BY <1>1
  <2>2. /\ SubSeq(t, 1, n) \in Seq(S)
        /\ Len(SubSeq(t, 1, n)) = IF 1 <= n THEN n - 1 + 1 ELSE 0
        /\ \A i \in 1 .. n - 1 + 1 : SubSeq(t, 1, n)[i] = t[1 + i - 1]
    BY <1>1, <2>1, SubSeqProperties
  <2> QED BY <1>1, <2>2 DEF Take
<1>3. /\ Drop(t, n) \in Seq(S) /\ Len(Drop(t, n)) = Len(t) - n
      /\ \A i \in 1 .. Len(t) - n : Drop(t, n)[i] = t[n + i]
  <2>1. \A i \in n + 1 .. Len(t) : t[i] \in S
    BY <1>1
  <2>2. /\ SubSeq(t, n + 1, Len(t)) \in Seq(S)
        /\ Len(SubSeq(t, n + 1, Len(t))) = IF n + 1 <= Len(t) THEN Len(t) - (n + 1) + 1 ELSE 0
        /\ \A i \in 1 .. Len(t) - (n + 1) + 1 : SubSeq(t, n + 1, Len(t))[i] = t[n + 1 + i - 1]
    BY <1>1, <2>1, SubSeqProperties
  <2>3. Len(t) - (n + 1) + 1 = Len(t) - n
    BY <1>1
  <2>4. \A i \in 1 .. Len(t) - n : SubSeq(t, n + 1, Len(t))[i] = t[n + 1 + i - 1] /\ n + 1 + i - 1 = n + i
    BY <1>1, <2>2, <2>3
  <2> QED BY <1>1, <2>2, <2>4 DEF Drop
<1>4. Take(t, n) \o Drop(t, n) = t
  <2> DEFINE u == Take(t, n) \o Drop(t, n)
  <2>1. /\ u \in Seq(S) /\ Len(u) = n + (Len(t) - n)
        /\ \A i \in 1 .. n + (Len(t) - n) :
             u[i] = IF i <= n THEN Take(t, n)[i] ELSE Drop(t, n)[i - n]
    BY <1>2, <1>3, ConcatProperties
  <2> HIDE DEF u
  <2>4. PICK m \in Nat : m = Len(t) /\ n + (m - n) = m /\ n <= m
    BY <1>1
  <2>5. ASSUME NEW i \in 1 .. m PROVE u[i] = t[i]
    <3>1. u[i] = IF i <= n THEN Take(t, n)[i] ELSE Drop(t, n)[i - n]
      BY <2>1, <2>4
    <3>2. CASE i <= n
      BY <1>2, <3>1, <3>2
    <3>3. CASE ~(i <= n)
      <4>1. i - n \in 1 .. Len(t) - n /\ n + (i - n) = i
        BY <2>4, <3>3
      <4> QED BY <1>3, <3>1, <3>3, <4>1
    <3> QED BY <3>2, <3>3
  <2>2. Len(u) = Len(t) /\ \A i \in 1 .. Len(t) : u[i] = t[i]
    BY <2>1, <2>4, <2>5
  <2>3. u = t
    BY <2>1, <2>2, SeqEqual
  <2> QED BY <2>3 DEF u
<1> QED BY <1>2, <1>3, <1>4

\* The two parts of a sequence of cells by name.
LEMMA Split ==
  ASSUME NEW t \in Seq(Cell), NEW n \in 0 .. Len(t)
  PROVE  \E a, b \in Seq(Cell) : /\ a = Take(t, n) /\ b = Drop(t, n)
                                 /\ Len(a) = n /\ Len(b) = Len(t) - n /\ a \o b = t
BY TakeDrop

\* Concatenation under a name the provers do not rewrite by themselves.
Cat(a, b) == a \o b

LEMMA CatAssociates ==
  ASSUME NEW a \in Seq(Cell), NEW b \in Seq(Cell), NEW c \in Seq(Cell)
  PROVE  Cat(a, b) \in Seq(Cell) /\ Cat(Cat(a, b), c) = Cat(a, Cat(b, c))
<1>1. a \o b \in Seq(Cell)
  BY ConcatProperties
<1>2. (a \o b) \o c = a \o (b \o c)
  BY ConcatAssociative
<1> QED BY <1>1, <1>2 DEF Cat

\* Four sequences one after the other, bracketed in two ways.
LEMMA Regroup ==
  ASSUME NEW a \in Seq(Cell), NEW b \in Seq(Cell), NEW c \in Seq(Cell), NEW d \in Seq(Cell)
  PROVE  Cat(Cat(a, Cat(b, c)), d) = Cat(Cat(a, b), Cat(c, d))
<1>1. Cat(a, b) \in Seq(Cell) /\ Cat(b, c) \in Seq(Cell) /\ Cat(c, d) \in Seq(Cell)
  BY CatAssociates
<1>2. Cat(Cat(a, Cat(b, c)), d) = Cat(a, Cat(Cat(b, c), d))
  BY <1>1, CatAssociates
<1>3. Cat(Cat(b, c), d) = Cat(b, Cat(c, d))
  BY CatAssociates
<1>4. Cat(Cat(a, b), Cat(c, d)) = Cat(a, Cat(b, Cat(c, d)))
  BY <1>1, CatAssociates
<1> QED BY <1>2, <1>3, <1>4

\* Cells that go from the front of one sequence to the end of the one before it
\* leave the whole as it is.
LEMMA ShiftBehind ==
  ASSUME NEW r \in Seq(Cell), NEW s \in Seq(Cell), NEW t \in Seq(Cell), NEW n \in 0 .. Len(t)
  PROVE  Cat(Cat(r, Cat(s, Take(t, n))), Drop(t, n)) = Cat(Cat(r, s), t)
<1>1. Take(t, n) \in Seq(Cell) /\ Drop(t, n) \in Seq(Cell) /\ Cat(Take(t, n), Drop(t, n)) = t
  BY TakeDrop DEF Cat
<1> QED BY <1>1, Regroup

\* A cut through the second of three sequences.
LEMMA ShiftBetween ==
  ASSUME NEW r \in Seq(Cell), NEW s \in Seq(Cell), NEW t \in Seq(Cell), NEW n \in 0 .. Len(s)
  PROVE  Cat(Cat(r, s), t) = Cat(Cat(r, Take(s, n)), Cat(Drop(s, n), t))
<1>1. Take(s, n) \in Seq(Cell) /\ Drop(s, n) \in Seq(Cell) /\ Cat(Take(s, n), Drop(s, n)) = s
  BY TakeDrop DEF Cat
<1> QED BY <1>1, Regroup

\* Dropping from the front of a concatenation.
LEMMA DropConcat ==
  ASSUME NEW S, NEW s \in Seq(S), NEW t \in Seq(S), NEW n \in 0 .. Len(s)
  PROVE  Drop(s \o t, n) = Drop(s, n) \o t
<1> DEFINE u == s \o t
           v == Drop(s, n) \o t
<1>1. Len(s) \in Nat /\ Len(t) \in Nat
  OBVIOUS
<1>2. /\ u \in Seq(S) /\ Len(u) = Len(s) + Len(t)
      /\ \A i \in 1 .. Len(s) + Len(t) : u[i] = IF i <= Len(s) THEN s[i] ELSE t[i - Len(s)]
  BY ConcatProperties
<1>3. /\ Drop(s, n) \in Seq(S) /\ Len(Drop(s, n)) = Len(s) - n
      /\ \A i \in 1 .. Len(s) - n : Drop(s, n)[i] = s[n + i]
  BY TakeDrop
<1>4. /\ v \in Seq(S) /\ Len(v) = Len(s) - n + Len(t)
      /\ \A i \in 1 .. Len(s) - n + Len(t) :
           v[i] = IF i <= Len(s) - n THEN Drop(s, n)[i] ELSE t[i - (Len(s) - n)]
  <2>1. PICK d \in Seq(S) : d = Drop(s, n)
    BY <1>3
  <2>2. /\ d \o t \in Seq(S) /\ Len(d \o t) = Len(d) + Len(t)
        /\ \A i \in 1 .. Len(d) + Len(t) : (d \o t)[i] = IF i <= Len(d) THEN d[i] ELSE t[i - Len(d)]
    BY ConcatProperties
  <2>3. Len(d) = Len(s) - n /\ v = d \o t
    BY <1>3, <2>1
  <2> QED BY <2>1, <2>2, <2>3
<1> HIDE DEF u, v
<1>5. n \in 0 .. Len(u)
  BY <1>1, <1>2
<1>6. /\ Drop(u, n) \in Seq(S) /\ Len(Drop(u, n)) = Len(u) - n
      /\ \A i \in 1 .. Len(u) - n : Drop(u, n)[i] = u[n + i]
  BY <1>2, <1>5, TakeDrop
<1>7. ASSUME NEW i \in 1 .. Len(u) - n PROVE u[n + i] = v[i]
  <2>1. i \in 1 .. Len(s) - n + Len(t) /\ n + i \in 1 .. Len(s) + Len(t)
    BY <1>1, <1>2
  <2>2. CASE i <= Len(s) - n
    BY <1>1, <1>2, <1>3, <1>4, <2>1, <2>2
  <2>3. CASE i > Len(s) - n
    <3>1. n + i - Len(s) = i - (Len(s) - n)
      BY <1>1
    <3>2. u[n + i] = t[n + i - Len(s)]
      BY <1>1, <1>2, <2>1, <2>3
    <3>3. v[i] = t[i - (Len(s) - n)]
      BY <1>1, <1>4, <2>1, <2>3
    <3> QED BY <3>1, <3>2, <3>3
  <2> QED BY <1>1, <2>2, <2>3
<1>8. Len(Drop(u, n)) = Len(v) /\ \A i \in 1 .. Len(v) : Drop(u, n)[i] = v[i]
  BY <1>1, <1>2, <1>4, <1>6, <1>7
<1>9. Drop(u, n) = v
  BY <1>4, <1>6, <1>8, SeqEqual
<1> QED BY <1>9 DEF u, v

\* The cells of one message.
LEMMA MessageCells ==
  ASSUME NEW i \in 1 .. MaxReq, NEW n \in Nat
  PROVE  /\ Cells(i, n) \in Seq(Cell) /\ Len(Cells(i, n)) = n
         /\ \A j \in 1 .. n : Cells(i, n)[j] = <<i, j>>
BY DEF Cells, Cell

\* A cell is a pair.
LEMMA CellParts ==
  ASSUME NEW s \in Seq(Cell), NEW k \in 1 .. Len(s)
  PROVE  s[k][1] \in 1 .. MaxReq /\ s[k][2] \in Nat
<1>1. s[k] \in Cell
  BY ElementOfSeq
<1> QED BY <1>1 DEF Cell

\* Each position of a concatenation is one of the first or of the second part.
LEMMA Concat ==
  ASSUME NEW S, NEW s \in Seq(S), NEW t \in Seq(S)
  PROVE  /\ s \o t \in Seq(S) /\ Len(s \o t) = Len(s) + Len(t)
         /\ \A k \in 1 .. Len(s) : (s \o t)[k] = s[k]
         /\ \A k \in 1 .. Len(t) : (s \o t)[Len(s) + k] = t[k]
<1>1. Len(s) \in Nat /\ Len(t) \in Nat
  OBVIOUS
<1>2. /\ s \o t \in Seq(S) /\ Len(s \o t) = Len(s) + Len(t)
      /\ \A i \in 1 .. Len(s) + Len(t) : (s \o t)[i] =
           IF i <= Len(s) THEN s[i] ELSE t[i - Len(s)]
  BY ConcatProperties
<1>3. \A k \in 1 .. Len(s) : (s \o t)[k] = s[k]
  BY <1>1, <1>2
<1>4. ASSUME NEW k \in 1 .. Len(t) PROVE (s \o t)[Len(s) + k] = t[k]
  <2>1. Len(s) + k \in 1 .. Len(s) + Len(t) /\ ~(Len(s) + k <= Len(s)) /\ Len(s) + k - Len(s) = k
    BY <1>1
  <2> QED BY <1>2, <2>1
<1> QED BY <1>2, <1>3, <1>4

-----------------------------------------------------------------------------
(* Streams of responses. *)

\* The cell at position k follows the one before it.
InOrder(s, k) ==
  /\ s[k][2] = ((k - 1) % MsgLen) + 1
  /\ k > 1 => IF s[k][2] = 1 THEN s[k - 1][1] < s[k][1] ELSE s[k - 1][1] = s[k][1]

\* Intact, position by position.
LEMMA IntactCells ==
  ASSUME NEW s \in Seq(Cell)
  PROVE  Intact(s) <=> \A k \in 1 .. Len(s) : InOrder(s, k)
<1>1. DOMAIN s = 1 .. Len(s)
  BY LenProperties
<1> QED BY <1>1, Zenon DEF Intact, InOrder

\* The start of an intact stream is intact.
LEMMA IntactPrefix ==
  ASSUME NEW s \in Seq(Cell), NEW t \in Seq(Cell), Intact(s \o t)
  PROVE  Intact(s)
<1>1. PICK u \in Seq(Cell) : u = s \o t
  BY Concat
<1>2. /\ Len(u) = Len(s) + Len(t) /\ Len(s) \in Nat /\ Len(t) \in Nat
      /\ \A k \in 1 .. Len(s) : u[k] = s[k]
  BY <1>1, Concat
<1>3. \A k \in 1 .. Len(u) : InOrder(u, k)
  BY <1>1, IntactCells
<1>4. ASSUME NEW k \in 1 .. Len(s) PROVE InOrder(s, k)
  <2>1. k \in 1 .. Len(u) /\ u[k] = s[k] /\ (k > 1 => u[k - 1] = s[k - 1])
    BY <1>2
  <2>2. InOrder(u, k)
    BY <1>3, <2>1
  <2> QED BY <2>1, <2>2 DEF InOrder
<1> QED BY <1>4, IntactCells

\* So is one that a whole response to a later request is appended to.
LEMMA IntactAppend ==
  ASSUME NEW s \in Seq(Cell), NEW i \in 1 .. MaxReq, Intact(s), Len(s) % MsgLen = 0,
         \A k \in DOMAIN s : s[k][1] < i
  PROVE  /\ s \o Response(i) \in Seq(Cell)
         /\ Intact(s \o Response(i))
         /\ Len(s \o Response(i)) % MsgLen = 0
         /\ \A k \in DOMAIN (s \o Response(i)) :
              /\ (s \o Response(i))[k][1] <= i
              /\ k > Len(s) => (s \o Response(i))[k][1] = i
<1>1. PICK r \in Seq(Cell) : r = Response(i)
  BY MessageCells, Lengths DEF Response, MsgLen
<1>2. Len(r) = MsgLen /\ \A j \in 1 .. MsgLen : r[j] = <<i, j>>
  BY <1>1, MessageCells, Lengths DEF Response, MsgLen
<1>3. PICK u \in Seq(Cell) : u = s \o r
  BY Concat
<1>4. /\ Len(u) = Len(s) + MsgLen /\ Len(s) \in Nat
      /\ \A k \in 1 .. Len(s) : u[k] = s[k]
      /\ \A k \in 1 .. MsgLen : u[Len(s) + k] = r[k]
  BY <1>2, <1>3, Concat
<1>5. \A k \in 1 .. Len(s) : InOrder(s, k) /\ s[k][1] < i
  BY IntactCells
<1>6. \A k \in 1 .. Len(u) : k \in 1 .. Len(s) \/ \E j \in 1 .. MsgLen : k = Len(s) + j
  <2>1. ASSUME NEW k \in 1 .. Len(u), k \notin 1 .. Len(s) PROVE \E j \in 1 .. MsgLen : k = Len(s) + j
    <3>1. k - Len(s) \in 1 .. MsgLen /\ k = Len(s) + (k - Len(s))
      BY <1>4, <2>1, Lengths
    <3> QED BY <3>1
  <2> QED BY <2>1
<1>7. ASSUME NEW j \in 1 .. MsgLen
      PROVE  /\ u[Len(s) + j][1] = i /\ u[Len(s) + j][2] = j
             /\ ((Len(s) + j) - 1) % MsgLen = j - 1
  <2>1. u[Len(s) + j] = <<i, j>>
    BY <1>2, <1>4
  <2>3. (Len(s) + (j - 1)) % MsgLen = j - 1
    <3>1. PICK M \in Nat \ {0} : M = MsgLen
      BY Lengths
    <3>2. PICK L \in Nat : L = Len(s)
      BY <1>4
    <3>3. PICK z \in Nat : z = j - 1
      BY <3>1
    <3>4. L % M = 0 /\ z < M
      BY <3>1, <3>2, <3>3
    <3>5. (L + z) % M = z
      BY <3>4, AfterWhole
    <3> QED BY <3>1, <3>2, <3>3, <3>5
  <2>4. (Len(s) + j) - 1 = Len(s) + (j - 1)
    BY <1>4, Lengths
  <2> QED BY <2>1, <2>3, <2>4
<1>8. ASSUME NEW k \in 1 .. Len(u)
      PROVE  /\ InOrder(u, k)
             /\ u[k][1] <= i
             /\ k > Len(s) => u[k][1] = i
  <2>1. CASE k \in 1 .. Len(s)
    <3>1. u[k] = s[k] /\ (k > 1 => u[k - 1] = s[k - 1])
      BY <1>4, <2>1
    <3>2. u[k][1] <= i /\ ~(k > Len(s))
      <4>1. s[k][1] < i /\ s[k][1] \in Nat
        BY <1>5, <2>1, CellParts
      <4> QED BY <1>4, <2>1, <3>1, <4>1
    <3>3. InOrder(s, k)
      BY <1>5, <2>1
    <3> QED BY <3>1, <3>2, <3>3 DEF InOrder
  <2>2. CASE k \notin 1 .. Len(s)
    <3>1. PICK j \in 1 .. MsgLen : k = Len(s) + j
      BY <1>6, <2>2
    <3>2. u[k][1] = i /\ u[k][2] = j /\ (k - 1) % MsgLen = j - 1
      BY <1>7, <3>1
    <3>3. CASE j = 1
      <4>1. k > 1 => k - 1 \in 1 .. Len(s) /\ u[k - 1] = s[k - 1]
        BY <1>4, <3>1, <3>3
      <4>2. k > 1 => u[k - 1][1] < i
        BY <1>5, <4>1
      <4> QED BY <3>2, <3>3, <4>2 DEF InOrder
    <3>4. CASE j # 1
      <4>1. j - 1 \in 1 .. MsgLen /\ k - 1 = Len(s) + (j - 1)
        BY <1>4, <3>1, <3>4, Lengths
      <4>2. u[k - 1][1] = i
        BY <1>7, <4>1
      <4>3. (j - 1) + 1 = j
        BY Lengths
      <4> QED BY <3>2, <3>4, <4>2, <4>3 DEF InOrder
    <3> QED BY <3>3, <3>4
  <2> QED BY <2>1, <2>2
<1>9. Len(u) % MsgLen = 0
  <2>1. (Len(s) % MsgLen) + MsgLen = MsgLen
    BY Lengths
  <2> QED BY <1>4, <2>1, Lengths, AddToRemainder
<1>10. Intact(u)
  BY <1>8, IntactCells
<1> QED BY <1>1, <1>3, <1>8, <1>9, <1>10

\* The ids of a stream do not decrease, and the cell after a whole response is
\* of a later request.
LEMMA NextResponse ==
  ASSUME NEW s \in Seq(Cell), Intact(s), NEW k \in 1 .. Len(s), k > 1, (k - 1) % MsgLen = 0
  PROVE  s[k - 1][1] < s[k][1]
BY IntactCells DEF InOrder

-----------------------------------------------------------------------------
(* Requests under way. *)

\* The cell at position k of p is where the last Len(p) cells of n requests
\* have it.
InPlace(p, n, k) ==
  /\ p[k][1] \in 1 .. n /\ p[k][2] \in 1 .. ReqMsgLen
  /\ (p[k][1] - 1) * ReqMsgLen + p[k][2] = n * ReqMsgLen - (Len(p) - k)

\* Aligned, position by position.
LEMMA AlignedCells ==
  ASSUME NEW p \in Seq(Cell), NEW n \in Nat
  PROVE  Aligned(p, n) <=> \A k \in 1 .. Len(p) : InPlace(p, n, k)
<1>1. DOMAIN p = 1 .. Len(p)
  BY LenProperties
<1> QED BY <1>1, Zenon DEF Aligned, InPlace

\* What is left when cells are taken off the front is still in place.
LEMMA AlignedDrop ==
  ASSUME NEW p \in Seq(Cell), NEW n \in Nat, NEW m \in 0 .. Len(p), Aligned(p, n)
  PROVE  Aligned(Drop(p, m), n)
<1>1. PICK d \in Seq(Cell) : d = Drop(p, m)
  BY TakeDrop
<1>2. Len(p) \in Nat /\ Len(d) = Len(p) - m /\ \A i \in 1 .. Len(d) : d[i] = p[m + i]
  <2>1. /\ Len(Drop(p, m)) = Len(p) - m
        /\ \A i \in 1 .. Len(p) - m : Drop(p, m)[i] = p[m + i]
    BY TakeDrop
  <2> QED BY <1>1, <2>1
<1>3. ASSUME NEW i \in 1 .. Len(d) PROVE InPlace(d, n, i)
  <2>1. m + i \in 1 .. Len(p) /\ d[i] = p[m + i] /\ Len(p) - (m + i) = Len(d) - i
    BY <1>2
  <2>2. InPlace(p, n, m + i)
    BY <2>1, AlignedCells
  <2> QED BY <2>1, <2>2 DEF InPlace
<1> QED BY <1>1, <1>3, AlignedCells

\* The next request goes to the end.
LEMMA AlignedAppend ==
  ASSUME NEW p \in Seq(Cell), NEW n \in Nat, n < MaxReq, Aligned(p, n)
  PROVE  /\ p \o Request(n + 1) \in Seq(Cell)
         /\ Aligned(p \o Request(n + 1), n + 1)
         /\ p \o Request(n + 1) # << >>
         /\ p = << >> => (p \o Request(n + 1))[1] = <<n + 1, 1>>
         /\ p # << >> => (p \o Request(n + 1))[1] = p[1]
<1> DEFINE M == ReqMsgLen
<1>1. n + 1 \in 1 .. MaxReq /\ M \in Nat \ {0}
  BY Lengths
<1>2. PICK r \in Seq(Cell) : r = Request(n + 1)
  BY <1>1, MessageCells, Lengths DEF Request, ReqMsgLen
<1>3. Len(r) = M /\ \A j \in 1 .. M : r[j] = <<n + 1, j>>
  BY <1>1, <1>2, MessageCells, Lengths DEF Request, ReqMsgLen
<1> HIDE DEF M
<1>4. PICK u \in Seq(Cell) : u = p \o r
  BY Concat
<1>5. /\ Len(u) = Len(p) + M /\ Len(p) \in Nat
      /\ \A k \in 1 .. Len(p) : u[k] = p[k]
      /\ \A k \in 1 .. M : u[Len(p) + k] = r[k]
  <2>1. /\ Len(p \o r) = Len(p) + Len(r)
        /\ \A k \in 1 .. Len(p) : (p \o r)[k] = p[k]
        /\ \A k \in 1 .. Len(r) : (p \o r)[Len(p) + k] = r[k]
    BY Concat
  <2> QED BY <1>3, <1>4, <2>1
<1>6. (n + 1) * M = n * M + M /\ n * M \in Int
  BY <1>1
<1>7. ASSUME NEW k \in 1 .. Len(u) PROVE InPlace(u, n + 1, k)
  <2>1. CASE k \in 1 .. Len(p)
    <3>1. u[k] = p[k] /\ InPlace(p, n, k)
      BY <1>5, <2>1, AlignedCells
    <3>2. p[k][1] \in 1 .. n + 1
      BY <3>1 DEF InPlace
    <3>3. (n + 1) * M - (Len(u) - k) = n * M - (Len(p) - k)
      BY <1>1, <1>5, <1>6
    <3> QED BY <3>1, <3>2, <3>3 DEF InPlace, M
  <2>2. CASE k \notin 1 .. Len(p)
    <3>1. PICK j \in 1 .. M : k = Len(p) + j
      <4>1. k - Len(p) \in 1 .. M /\ k = Len(p) + (k - Len(p))
        BY <1>1, <1>5, <2>2
      <4> QED BY <4>1
    <3>2. u[k] = <<n + 1, j>>
      BY <1>3, <1>5, <3>1
    <3>3. u[k][1] = n + 1 /\ u[k][2] = j /\ (n + 1) - 1 = n
      BY <3>2
    <3>4. n * M + j = (n + 1) * M - (Len(u) - k)
      BY <1>1, <1>5, <1>6, <3>1
    <3> QED BY <3>1, <3>3, <3>4 DEF InPlace, M
  <2> QED BY <2>1, <2>2
<1>8. Aligned(u, n + 1)
  BY <1>7, AlignedCells
<1>9. u # << >>
  BY <1>1, <1>5
<1>10. p = << >> => u[1] = <<n + 1, 1>>
  BY <1>1, <1>3, <1>5
<1>11. p # << >> => u[1] = p[1]
  <2>1. p # << >> => 1 \in 1 .. Len(p)
    BY EmptySeq
  <2> QED BY <1>5, <2>1
<1> QED BY <1>2, <1>4, <1>8, <1>9, <1>10, <1>11

\* After a whole request comes the header of the next one.
LEMMA AlignedNext ==
  ASSUME NEW p \in Seq(Cell), NEW n \in Nat, Aligned(p, n),
         Len(p) > ReqMsgLen, p[1][2] = 1
  PROVE  p[ReqMsgLen + 1][1] = p[1][1] + 1 /\ p[ReqMsgLen + 1][2] = 1
<1> DEFINE M == ReqMsgLen
<1>1. M \in Nat \ {0} /\ Len(p) \in Nat /\ 1 \in 1 .. Len(p) /\ M + 1 \in 1 .. Len(p)
  BY Lengths
<1>2. InPlace(p, n, 1) /\ InPlace(p, n, M + 1)
  BY <1>1, AlignedCells
<1>3. PICK i \in 1 .. n : i = p[1][1]
  BY <1>2 DEF InPlace
<1>4. PICK a \in 1 .. n, b \in 1 .. M : a = p[M + 1][1] /\ b = p[M + 1][2]
  BY <1>2 DEF InPlace
<1>5. /\ (i - 1) * M + 1 = n * M - (Len(p) - 1)
      /\ (a - 1) * M + b = n * M - (Len(p) - (M + 1))
  BY <1>2, <1>3, <1>4 DEF InPlace
<1> HIDE DEF M
<1>6. i * M = (i - 1) * M + M /\ (i - 1) * M \in Int /\ (a - 1) * M \in Int /\ n * M \in Int
  BY <1>1
<1>7. (a - 1) * M + (b - 1) = i * M + 0
  BY <1>1, <1>5, <1>6
<1>8. a - 1 = i /\ b - 1 = 0
  BY <1>1, <1>7, SameQuotient
<1>9. a = i + 1 /\ b = 1
  BY <1>1, <1>8
<1> QED BY <1>3, <1>4, <1>9 DEF M

-----------------------------------------------------------------------------
(* The state. *)

\* What the type invariant says of the sequences, and of the two they make up.
LEMMA Shapes ==
  ASSUME TypeOK
  PROVE  /\ tosend \in Seq(Cell) /\ c2s \in Seq(Cell) /\ s2c \in Seq(Cell)
         /\ incoming \in Seq(Cell) /\ outgoing \in Seq(Cell) /\ rx \in Seq(Cell)
         /\ Len(kind) \in Nat /\ Len(results) \in Nat /\ Len(rx) \in Nat /\ Len(s2c) \in Nat
         /\ rx \o s2c \in Seq(Cell) /\ Len(rx \o s2c) = Len(rx) + Len(s2c)
         /\ Stream \in Seq(Cell) /\ DOMAIN Stream = 1 .. Len(Stream) /\ Len(Stream) \in Nat
         /\ Len(rx) + Len(s2c) <= Len(Stream)
         /\ \A k \in 1 .. Len(rx) : Stream[k] = rx[k]
         /\ \A k \in 1 .. Len(s2c) : Stream[Len(rx) + k] = s2c[k]
         /\ Pending \in Seq(Cell) /\ Len(incoming) <= Len(Pending) /\ Len(Pending) \in Nat
         /\ \A k \in 1 .. Len(incoming) : Pending[k] = incoming[k]
         /\ tosend # << >> => Pending # << >>
<1>1. /\ tosend \in Seq(Cell) /\ c2s \in Seq(Cell) /\ s2c \in Seq(Cell)
      /\ incoming \in Seq(Cell) /\ outgoing \in Seq(Cell) /\ rx \in Seq(Cell)
      /\ Len(kind) \in Nat /\ Len(results) \in Nat /\ Len(rx) \in Nat /\ Len(s2c) \in Nat
  BY DEF TypeOK
<1>2. PICK o \in Seq(Cell) : o = IF down = "open" THEN outgoing ELSE << >>
  BY <1>1, EmptySeq
<1>3. PICK a \in Seq(Cell) : a = rx \o s2c
  BY <1>1, Concat
<1>4. /\ Len(a) = Len(rx) + Len(s2c)
      /\ \A k \in 1 .. Len(rx) : a[k] = rx[k]
      /\ \A k \in 1 .. Len(s2c) : a[Len(rx) + k] = s2c[k]
  BY <1>1, <1>3, Concat
<1>5. PICK s \in Seq(Cell) : s = a \o o /\ s = Stream
  BY <1>2, <1>3, Concat DEF Stream
<1>6. Len(s) = Len(a) + Len(o) /\ \A k \in 1 .. Len(a) : s[k] = a[k]
  <2>1. Len(a \o o) = Len(a) + Len(o) /\ \A k \in 1 .. Len(a) : (a \o o)[k] = a[k]
    BY Concat
  <2> QED BY <1>5, <2>1
<1>7. /\ Stream \in Seq(Cell) /\ DOMAIN Stream = 1 .. Len(Stream) /\ Len(Stream) \in Nat
      /\ Len(rx) + Len(s2c) <= Len(Stream)
      /\ \A k \in 1 .. Len(rx) : Stream[k] = rx[k]
      /\ \A k \in 1 .. Len(s2c) : Stream[Len(rx) + k] = s2c[k]
  <2>1. Len(o) \in Nat /\ Len(s) \in Nat /\ DOMAIN s = 1 .. Len(s)
    BY LenProperties
  <2>2. Len(rx) + Len(s2c) <= Len(s)
    BY <1>1, <1>4, <1>6, <2>1
  <2>3. \A k \in 1 .. Len(rx) : s[k] = rx[k]
    BY <1>1, <1>4, <1>6
  <2>4. ASSUME NEW k \in 1 .. Len(s2c) PROVE s[Len(rx) + k] = s2c[k]
    <3>1. Len(rx) + k \in 1 .. Len(a)
      BY <1>1, <1>4
    <3> QED BY <1>4, <1>6, <3>1
  <2> QED BY <1>5, <2>1, <2>2, <2>3, <2>4
<1>8. PICK b \in Seq(Cell) : b = incoming \o c2s
  BY <1>1, Concat
<1>9. Len(b) = Len(incoming) + Len(c2s) /\ \A k \in 1 .. Len(incoming) : b[k] = incoming[k]
  BY <1>1, <1>8, Concat
<1>10. PICK p \in Seq(Cell) : p = b \o tosend /\ p = Pending
  BY <1>1, <1>8, Concat DEF Pending
<1>11. Len(p) = Len(b) + Len(tosend) /\ \A k \in 1 .. Len(b) : p[k] = b[k]
  <2>1. Len(b \o tosend) = Len(b) + Len(tosend) /\ \A k \in 1 .. Len(b) : (b \o tosend)[k] = b[k]
    BY <1>1, Concat
  <2> QED BY <1>10, <2>1
<1>12. /\ Pending \in Seq(Cell) /\ Len(incoming) <= Len(Pending) /\ Len(Pending) \in Nat
       /\ \A k \in 1 .. Len(incoming) : Pending[k] = incoming[k]
       /\ tosend # << >> => Pending # << >>
  <2>1. Len(incoming) \in Nat /\ Len(c2s) \in Nat /\ Len(tosend) \in Nat /\ Len(b) \in Nat
    BY <1>1, LenProperties
  <2>2. Len(incoming) <= Len(p) /\ Len(p) \in Nat
    BY <1>9, <1>11, <2>1
  <2>3. \A k \in 1 .. Len(incoming) : p[k] = incoming[k]
    BY <1>9, <1>11, <2>1
  <2>4. tosend # << >> => Len(tosend) # 0
    BY <1>1, EmptySeq
  <2>5. tosend # << >> => p # << >>
    BY <1>11, <2>1, <2>4
  <2> QED BY <1>10, <2>2, <2>3, <2>5
<1> QED BY <1>1, <1>3, <1>4, <1>7, <1>12

\* The id in a cell of the stream is that of a request, and a natural number.
LEMMA StreamId ==
  ASSUME TypeOK, NEW k \in DOMAIN Stream
  PROVE  Stream[k][1] \in 1 .. MaxReq
BY Shapes, CellParts

\* So is that of the first cell under way, which is not later than the last
\* request made.
LEMMA PendingId ==
  ASSUME SessionInv, Pending # << >>, down = "open"
  PROVE  Pending[1][1] \in 1 .. Len(kind) /\ 1 \in 1 .. Len(Pending)
<1>1. TypeOK
  BY DEF SessionInv, NoRequestStranded
<1>2. PICK p \in Seq(Cell) : p = Pending /\ Len(kind) \in Nat
  BY <1>1, Shapes
<1>3. 1 \in 1 .. Len(p)
  BY <1>2, EmptySeq
<1>4. Aligned(p, Len(kind))
  BY <1>2 DEF SessionInv, PendingInv
<1>5. InPlace(p, Len(kind), 1)
  BY <1>2, <1>3, <1>4, AlignedCells
<1> QED BY <1>2, <1>3, <1>5 DEF InPlace

\* The invariant holds when the connection is made.
LEMMA InitSessionInv == Init => SessionInv
<1> SUFFICES ASSUME Init PROVE SessionInv
  OBVIOUS
<1>1. << >> \in Seq(Cell) /\ Len(<< >>) = 0
  BY EmptySeq
<1>2. TypeOK
  <2>1. << >> \in Seq(Kind) /\ << >> \in Seq(1 .. MaxReq) /\ << >> \in Seq(Result)
    BY EmptySeq
  <2> QED BY <1>1, <2>1, Lengths DEF Init, TypeOK, MsgLen
<1>3. Stream = << >> /\ Pending = << >>
  BY <1>1, ConcatEmptySeq DEF Init, Stream, Pending
<1>4. StreamIntact /\ PendingInv
  BY <1>1, <1>3 DEF StreamIntact, Intact, PendingInv, Aligned
<1>5. 0 % MsgLen = 0
  BY Lengths
<1>6. rx \o s2c = << >>
  BY <1>1, ConcatEmptySeq DEF Init
<1>7. OutgoingInv
  BY <1>1, <1>3, <1>5, <1>6 DEF Init, OutgoingInv
<1>8. QueryInv
  BY <1>1, <1>3, <1>5 DEF Init, QueryInv, UnderWay
<1>9. NoRequestStranded
  BY <1>1, <1>2, Lengths DEF Init, NoRequestStranded, Complete
<1>10. AnswersMatch
  BY <1>1 DEF Init, AnswersMatch
<1> QED BY <1>1, <1>3, <1>4, <1>7, <1>8, <1>9, <1>10, Lengths DEF Init, SessionInv

-----------------------------------------------------------------------------
(* Steps that leave the stream of responses as it is. *)

\* The server may still look at what arrives.
Looking == {"poll", "serve"}

\* What depends on the two sequences alone.
LEMMA Unmoved ==
  ASSUME SessionInv, Stream' = Stream, UNCHANGED kind,
         down' = "open" => /\ down = "open" /\ Pending' = Pending
                           /\ spc' \in Looking => spc \in Looking
  PROVE  /\ StreamIntact' /\ PendingInv'
         /\ Len(kind') <= MaxReq
         /\ \A k \in DOMAIN Stream' : Stream'[k][1] <= Len(kind')
<1>1. StreamIntact'
  BY DEF SessionInv, StreamIntact, Intact
<1>2. PendingInv'
  BY DEF SessionInv, PendingInv, Aligned, Looking
<1> QED BY <1>1, <1>2 DEF SessionInv

\* What depends on the client's position in it as well.
LEMMA UnmovedQuery ==
  ASSUME SessionInv, Stream' = Stream, UNCHANGED <<window, kind, rx, got, results>>,
         spc' \in Looking => spc \in Looking /\ Pending' = Pending,
         window = 1 /\ tosend' # << >> => tosend # << >> /\ s2c' = s2c,
         down' = "open" \/ s2c' # << >> => down = "open" \/ s2c # << >>
  PROVE  /\ QueryInv' /\ AnswersMatch' /\ got' <= Len(rx')
<1>1. QueryInv'
  BY DEF SessionInv, QueryInv, UnderWay, Looking
<1> QED BY <1>1 DEF SessionInv, AnswersMatch

\* incoming is looked at as before: the requests it holds have their kinds.
LEMMA UnmovedIncoming ==
  ASSUME SessionInv, TypeOK', UNCHANGED <<incoming, kind, spc>>
  PROVE  NoRequestStranded'
BY DEF SessionInv, NoRequestStranded, Complete, consumed

\* One write() of write_all.
LEMMA WriteStep ==
  ASSUME SessionInv, UNCHANGED window, write_all
  PROVE  SessionInv'
<1>1. TypeOK
  BY DEF SessionInv, NoRequestStranded
<1>2. UNCHANGED <<kind, s2c, rx, got, results, incoming, outgoing, want, spc, served>>
  BY DEF write_all, serverVars, readerVars
<1>3. /\ tosend' \in Seq(Cell) /\ c2s' \in Seq(Cell) /\ Len(c2s') <= Capacity
      /\ down' = "open" => down = "open" /\ Pending' = Pending
      /\ down = "open" => down' = "open"
      /\ down' \in {"open", "fin", "rst"} /\ cpc' \in {"run", "quit", "killed"}
      /\ tosend # << >>
  <2>1. CASE down = "open"
    <3>1. PICK n \in 1 .. Least(Len(tosend), Capacity - Len(c2s)) :
            c2s' = c2s \o Take(tosend, n) /\ tosend' = Drop(tosend, n)
      BY <2>1 DEF write_all
    <3>2. /\ tosend \in Seq(Cell) /\ c2s \in Seq(Cell) /\ incoming \in Seq(Cell)
          /\ Len(tosend) \in Nat /\ Len(c2s) \in Nat
      BY <1>1, Shapes, LenProperties
    <3>3. n \in 0 .. Len(tosend) /\ n <= Capacity - Len(c2s)
      BY <3>1, <3>2, Lengths DEF Least
    <3>4. PICK t \in Seq(Cell), d \in Seq(Cell) :
            t = Take(tosend, n) /\ d = Drop(tosend, n) /\ Len(t) = n /\ t \o d = tosend
      <4>1. PICK c \in Seq(Cell) : c = tosend /\ n \in 0 .. Len(c)
        BY <3>2, <3>3
      <4>2. \E a, b \in Seq(Cell) : /\ a = Take(c, n) /\ b = Drop(c, n)
                                    /\ Len(a) = n /\ Len(b) = Len(c) - n /\ a \o b = c
        BY <4>1, Split
      <4> QED BY <4>1, <4>2
    <3>5. c2s' \in Seq(Cell) /\ Len(c2s') = Len(c2s) + n
      <4>1. c2s \o t \in Seq(Cell) /\ Len(c2s \o t) = Len(c2s) + Len(t)
        BY <3>2, ConcatProperties
      <4> QED BY <3>1, <3>4, <4>1
    <3>6. (incoming \o (c2s \o t)) \o d = (incoming \o c2s) \o (t \o d)
      <4>1. PICK a \in Seq(Cell), b \in Seq(Cell) : a = incoming /\ b = c2s
        BY <3>2
      <4>2. Cat(Cat(a, Cat(b, t)), d) = Cat(Cat(a, b), Cat(t, d))
        BY Regroup
      <4>3. (a \o (b \o t)) \o d = (a \o b) \o (t \o d)
        BY <4>2 DEF Cat
      <4> QED BY <4>1, <4>3
    <3>7. Pending' = Pending
      BY <1>2, <3>1, <3>4, <3>6 DEF Pending
    <3> QED BY <1>1, <2>1, <3>1, <3>2, <3>3, <3>4, <3>5, <3>7, Lengths DEF write_all, TypeOK
  <2>2. CASE down # "open"
    BY <1>1, <2>2, EmptySeq DEF write_all, TypeOK
  <2> QED BY <2>1, <2>2
<1>4. TypeOK'
  BY <1>1, <1>2, <1>3 DEF TypeOK
<1>5. Stream' = Stream
  BY <1>2, <1>3 DEF Stream
<1>6. spc' \in Looking => spc \in Looking /\ Pending' = Pending
  <2>1. spc # "closed" => down = "open"
    BY DEF SessionInv, OutgoingInv
  <2> QED BY <1>2, <1>3, <2>1 DEF Looking
<1>7. OutgoingInv'
  BY <1>2, <1>3, <1>5 DEF SessionInv, OutgoingInv
<1> QED BY <1>2, <1>3, <1>4, <1>5, <1>6, <1>7, Unmoved, UnmovedQuery, UnmovedIncoming DEF SessionInv

\* query() makes a request: it goes to the end of what is under way.
LEMMA QueryStep ==
  ASSUME SessionInv, UNCHANGED window, NEW k \in Kind, query(k)
  PROVE  SessionInv'
<1>1. TypeOK
  BY DEF SessionInv, NoRequestStranded
<1>2. /\ UNCHANGED <<c2s, s2c, incoming, outgoing, want, spc, served, down, rx, got, results, cpc>>
      /\ tosend = << >> /\ UnderWay < window /\ Len(kind) < MaxReq
      /\ kind' = Append(kind, k) /\ tosend' = Request(Len(kind) + 1)
  BY DEF query, serverVars, readerVars
<1>3. PICK n \in Nat : n = Len(kind) /\ n < MaxReq
  BY <1>1, <1>2, Shapes
<1>4. /\ kind' \in Seq(Kind) /\ Len(kind') = n + 1
      /\ \A i \in 1 .. n : kind'[i] = kind[i]
  BY <1>1, <1>2, <1>3, AppendProperties DEF TypeOK
<1>5. Request(n + 1) \in Seq(Cell)
  BY <1>3, Lengths, MessageCells DEF Request
<1>6. TypeOK'
  BY <1>1, <1>2, <1>3, <1>4, <1>5 DEF TypeOK
<1>7. Stream' = Stream
  BY <1>2 DEF Stream
<1>8. PICK p \in Seq(Cell) : p = Pending /\ Pending' = p \o Request(n + 1)
  <2>1. incoming \o c2s \in Seq(Cell)
    BY <1>1, Shapes, ConcatProperties
  <2>2. Pending = incoming \o c2s
    BY <1>2, <2>1, ConcatEmptySeq DEF Pending
  <2>3. Pending' = (incoming \o c2s) \o Request(n + 1)
    BY <1>2, <1>3 DEF Pending
  <2> QED BY <2>1, <2>2, <2>3
<1>9. PICK q : q = Pending' /\ q = p \o Request(n + 1)
  BY <1>8
<1>10. ASSUME down = "open"
      PROVE  /\ q \in Seq(Cell) /\ Aligned(q, n + 1) /\ q # << >>
             /\ p = << >> => q[1] = <<n + 1, 1>>
             /\ p # << >> => q[1] = p[1]
  <2>1. Aligned(p, n)
    BY <1>3, <1>8, <1>9, <1>10 DEF SessionInv, PendingInv
  <2>2. /\ p \o Request(n + 1) \in Seq(Cell)
        /\ Aligned(p \o Request(n + 1), n + 1)
        /\ p \o Request(n + 1) # << >>
        /\ p = << >> => (p \o Request(n + 1))[1] = <<n + 1, 1>>
        /\ p # << >> => (p \o Request(n + 1))[1] = p[1]
    BY <1>3, <1>8, <2>1, AlignedAppend
  <2> QED BY <1>9, <2>2
<1>11. \A j \in DOMAIN Stream : Stream[j][1] \in Nat /\ Stream[j][1] < n + 1
  BY <1>1, <1>3, StreamId DEF SessionInv
<1>12. PendingInv'
  <2> SUFFICES ASSUME down' = "open" PROVE PendingInv'
    BY DEF PendingInv
  <2>1. down = "open" /\ spc' = spc
    BY <1>2
  <2>2. /\ q \in Seq(Cell) /\ Aligned(q, n + 1) /\ q # << >>
        /\ p = << >> => q[1] = <<n + 1, 1>>
        /\ p # << >> => q[1] = p[1]
    BY <1>10, <2>1
  <2>3. Aligned(Pending, Len(kind))'
    BY <1>4, <1>8, <1>9, <2>2 DEF Aligned
  <2>4. spc \in Looking => q[1][2] = 1 /\ \A j \in DOMAIN Stream : Stream[j][1] < q[1][1]
    <3>1. CASE p = << >>
      BY <1>11, <2>2, <3>1
    <3>2. CASE p # << >>
      BY <1>8, <1>9, <2>1, <2>2, <3>2 DEF SessionInv, PendingInv, Looking
    <3> QED BY <3>1, <3>2
  <2> QED BY <1>7, <1>8, <1>9, <2>1, <2>3, <2>4 DEF PendingInv, Looking
<1>13. OutgoingInv'
  BY <1>2, <1>7 DEF SessionInv, OutgoingInv
<1>14. QueryInv'
  <2> SUFFICES ASSUME window = 1 PROVE QueryInv'
    BY DEF QueryInv
  <2>1. Len(results) \in Nat /\ Len(rx) \in Nat /\ Len(s2c) \in Nat /\ got \in Nat
    BY <1>1, Shapes, Lengths DEF TypeOK
  <2>2. n = Len(results)
    BY <1>2, <1>3, <2>1 DEF SessionInv, QueryInv, UnderWay
  <2>3. UnderWay' = 1
    BY <1>2, <1>4, <2>1, <2>2 DEF UnderWay
  <2>4. \A j \in DOMAIN Stream : ~(j > Len(rx) - got)
    BY <1>11, <2>2 DEF SessionInv, QueryInv
  <2>5. s2c = << >>
    <3>1. CASE Len(s2c) > 0
      <4>1. Len(rx) + 1 \in DOMAIN Stream /\ Len(rx) + 1 > Len(rx) - got
        BY <1>1, <2>1, <3>1, Shapes
      <4> QED BY <2>4, <4>1
    <3>2. CASE Len(s2c) = 0
      BY <1>1, <3>2, Shapes, EmptySeq
    <3> QED BY <2>1, <3>1, <3>2
  <2>6. spc \in Looking => q[1][1] > Len(results)
    <3> SUFFICES ASSUME spc \in Looking PROVE q[1][1] > Len(results)
      OBVIOUS
    <3>1. down = "open"
      BY DEF SessionInv, OutgoingInv, Looking
    <3>2. CASE p = << >>
      BY <1>10, <2>1, <2>2, <3>1, <3>2
    <3>3. CASE p # << >>
      BY <1>8, <1>9, <1>10, <3>1, <3>3 DEF SessionInv, QueryInv, Looking
    <3> QED BY <3>2, <3>3
  <2> QED BY <1>2, <1>7, <1>8, <1>9, <2>3, <2>4, <2>5, <2>6 DEF SessionInv, QueryInv, Looking
<1>15. NoRequestStranded'
  <2>1. ASSUME spc = "poll", Complete' PROVE Complete
    <3>1. down = "open" /\ Len(incoming) >= HeaderLen
      BY <1>2, <2>1 DEF SessionInv, OutgoingInv, Complete
    <3>2. 1 \in 1 .. Len(incoming)
      BY <1>1, <3>1, Shapes, LenProperties, Lengths
    <3>3. incoming[1] = Pending[1] /\ Pending # << >>
      BY <1>1, <3>2, Shapes
    <3>4. incoming[1][1] \in 1 .. n
      BY <1>3, <3>1, <3>3, PendingId
    <3>5. kind'[incoming[1][1]] = kind[incoming[1][1]]
      BY <1>4, <3>4
    <3> QED BY <1>2, <2>1, <3>5 DEF Complete, consumed
  <2> QED BY <1>2, <1>6, <2>1 DEF SessionInv, NoRequestStranded
<1>16. AnswersMatch'
  BY <1>2 DEF SessionInv, AnswersMatch
<1>17. StreamIntact'
  BY <1>7 DEF SessionInv, StreamIntact, Intact
<1>18. \A j \in DOMAIN Stream' : Stream'[j][1] <= Len(kind')
  BY <1>4, <1>7, <1>11
<1> QED BY <1>2, <1>3, <1>4, <1>12, <1>13, <1>14, <1>15, <1>16, <1>17, <1>18, Lengths DEF SessionInv

\* The client ends.
LEMMA ClientCloseStep ==
  ASSUME SessionInv, UNCHANGED window, client_close
  PROVE  SessionInv'
<1>1. UNCHANGED <<window, kind, tosend, c2s, s2c, incoming, outgoing, want, spc, served, down,
                  rx, got, results>> /\ cpc' = "quit"
  BY DEF client_close, serverVars, readerVars
<1>2. TypeOK'
  BY <1>1 DEF SessionInv, NoRequestStranded, TypeOK
<1>3. Stream' = Stream /\ Pending' = Pending
  BY <1>1 DEF Stream, Pending
<1>4. OutgoingInv'
  BY <1>1, <1>3 DEF SessionInv, OutgoingInv
<1> QED BY <1>1, <1>2, <1>3, <1>4, Unmoved, UnmovedQuery, UnmovedIncoming DEF SessionInv

\* query() returns after the connection is gone: with one request under way
\* nothing is left of the stream.
LEMMA ReturnStep ==
  ASSUME SessionInv, down # "open",
         UNCHANGED <<window, kind, c2s, s2c, incoming, outgoing, want, spc, served, down, rx, cpc>>,
         tosend' \in {tosend, << >>},
         NEW ok \in BOOLEAN, NEW n \in Nat, NEW id \in 0 .. MaxReq, return_(ok, n, id),
         window = 1 => /\ s2c = << >> /\ UnderWay = 1 /\ tosend' = << >>
                       /\ ok => id = Len(results) + 1
  PROVE  SessionInv'
<1>1. TypeOK
  BY DEF SessionInv, NoRequestStranded
<1>2. PICK r \in Result : r = [id |-> id, ok |-> ok, n |-> n]
  BY DEF Result
<1>3. r.id = id /\ r.ok = ok
  BY <1>2
<1>4. results' = Append(results, r) /\ got' = 0
  BY <1>2 DEF return_
<1>5. PICK m \in Nat : m = Len(results)
  BY <1>1, Shapes
<1>6. /\ results' \in Seq(Result) /\ Len(results') = m + 1 /\ DOMAIN results' = 1 .. m + 1
      /\ \A i \in 1 .. m : results'[i] = results[i]
      /\ results'[m + 1] = r /\ DOMAIN results = 1 .. m
  BY <1>1, <1>4, <1>5, AppendProperties, LenProperties DEF TypeOK
<1>7. TypeOK'
  <2>1. tosend' \in Seq(Cell)
    BY <1>1, Shapes, EmptySeq
  <2> QED BY <1>1, <1>4, <1>6, <2>1, Lengths DEF TypeOK
<1>8. Stream' = Stream
  BY DEF Stream
<1>9. spc = "closed" /\ OutgoingInv'
  BY <1>8 DEF SessionInv, OutgoingInv
<1>10. Len(rx) \in Nat
  BY <1>1, Shapes
<1>11. QueryInv'
  <2> SUFFICES ASSUME window = 1 PROVE QueryInv'
    BY DEF QueryInv
  <2>1. UnderWay' = 0
    BY <1>5, <1>6, <1>1, Shapes DEF UnderWay
  <2>2. Stream = rx
    BY <1>1, Shapes, ConcatEmptySeq DEF Stream
  <2>3. \A k \in DOMAIN Stream' : ~(k > Len(rx') - got')
    BY <1>1, <1>4, <1>8, <1>10, <2>2, Shapes
  <2> QED BY <1>9, <2>1, <2>3 DEF QueryInv
<1>12. AnswersMatch'
  <2> SUFFICES ASSUME window = 1, NEW i \in 1 .. m + 1, results'[i].ok PROVE results'[i].id = i
    BY <1>6 DEF AnswersMatch
  <2>1. CASE i = m + 1
    BY <1>3, <1>5, <1>6, <2>1
  <2>2. CASE i # m + 1
    <3>1. i \in 1 .. m
      BY <2>2
    <3> QED BY <1>6, <3>1 DEF SessionInv, AnswersMatch
  <2> QED BY <2>1, <2>2
<1>13. got' <= Len(rx')
  BY <1>4, <1>10
<1> QED BY <1>7, <1>8, <1>9, <1>11, <1>12, <1>13, Unmoved, UnmovedIncoming DEF SessionInv

\* write() fails after a reset.
LEMMA WriteFailsStep ==
  ASSUME SessionInv, UNCHANGED window, write_fails
  PROVE  SessionInv'
<1>1. UNCHANGED <<window, kind, c2s, s2c, incoming, outgoing, want, spc, served, down, rx, cpc>>
  BY DEF write_fails, serverVars
<1>2. down # "open" /\ tosend' = << >> /\ return_(FALSE, 0, 0)
  BY DEF write_fails
<1>3. window = 1 => s2c = << >> /\ UnderWay = 1
  BY DEF SessionInv, QueryInv, write_fails
<1>4. 0 \in 0 .. MaxReq
  BY Lengths
<1> QED BY <1>1, <1>2, <1>3, <1>4, ReturnStep

\* read() finds the end of the stream, or fails after a reset.
LEMMA ReadEofStep ==
  ASSUME SessionInv, UNCHANGED window, read_eof
  PROVE  SessionInv'
<1>1. TypeOK
  BY DEF SessionInv, NoRequestStranded
<1>2. UNCHANGED <<window, kind, tosend, c2s, s2c, incoming, outgoing, want, spc, served, down, rx, cpc>>
  BY DEF read_eof, serverVars
<1>3. /\ Reading /\ s2c = << >> /\ down # "open" /\ got \in Nat /\ Len(rx) \in Nat
      /\ Len(results) \in Nat /\ Len(kind) \in Nat /\ got <= Len(rx)
  <2>1. Reading /\ s2c = << >> /\ down \in {"fin", "rst"}
    BY Zenon DEF read_eof
  <2>2. got \in Nat
    BY <1>1, Lengths DEF TypeOK
  <2> QED BY <1>1, <2>1, <2>2, Shapes DEF SessionInv
<1>4. window = 1 => UnderWay = 1 /\ tosend = << >>
  BY <1>3 DEF SessionInv, QueryInv, Reading
<1>5. PICK id : id = IF got = 0 THEN 0 ELSE Last(rx)[1]
  OBVIOUS
<1>6. got # 0 => /\ Len(rx) \in DOMAIN Stream /\ id = Stream[Len(rx)][1]
                 /\ id \in 1 .. MaxReq /\ id <= Len(kind)
  <2> SUFFICES ASSUME got # 0
               PROVE  /\ Len(rx) \in DOMAIN Stream /\ id = Stream[Len(rx)][1]
                      /\ id \in 1 .. MaxReq /\ id <= Len(kind)
    OBVIOUS
  <2>1. Len(rx) \in 1 .. Len(rx) /\ Len(rx) \in DOMAIN Stream
    BY <1>1, <1>3, Shapes
  <2>2. id = Stream[Len(rx)][1]
    BY <1>1, <1>5, <2>1, Shapes DEF Last
  <2> QED BY <1>1, <2>1, <2>2, StreamId DEF SessionInv
<1>7. id \in 0 .. MaxReq
  BY <1>5, <1>6, Lengths
<1>8. CASE down = "fin"
  <2>1. return_(eof_result, got, id) /\ eof_result \in BOOLEAN
    BY <1>5, <1>8 DEF read_eof, eof_result
  <2>2. window = 1 /\ eof_result => id = Len(results) + 1
    <3> SUFFICES ASSUME window = 1, eof_result PROVE id = Len(results) + 1
      OBVIOUS
    <3>1. got # 0 /\ Len(rx) > Len(rx) - got
      BY <1>3, Lengths DEF eof_result
    <3>2. id > Len(results) /\ id <= Len(kind)
      BY <1>6, <3>1 DEF SessionInv, QueryInv
    <3>3. Len(kind) = Len(results) + 1
      BY <1>3, <1>4 DEF UnderWay
    <3> QED BY <1>3, <1>7, <3>2, <3>3
  <2> QED BY <1>2, <1>3, <1>4, <1>7, <2>1, <2>2, ReturnStep
<1>9. CASE down = "rst"
  <2>1. return_(FALSE, got, 0) /\ 0 \in 0 .. MaxReq
    BY <1>9, Lengths DEF read_eof, return_
  <2> QED BY <1>2, <1>3, <1>4, <2>1, ReturnStep
<1> QED BY <1>8, <1>9 DEF read_eof

\* One read() of read_full.  A response that is complete is the one to the
\* request under way: had it been an earlier one, query() would have returned
\* for it, and the one after it would be of a request that was not made.
LEMMA ReadStep ==
  ASSUME SessionInv, UNCHANGED window, read_full
  PROVE  SessionInv'
<1>1. TypeOK
  BY DEF SessionInv, NoRequestStranded
<1>2. UNCHANGED <<window, kind, tosend, c2s, incoming, outgoing, want, spc, served, down, cpc>>
  BY DEF read_full, serverVars
<1>3. Reading /\ s2c # << >>
  BY Zenon DEF read_full
<1>4. PICK n \in 1 .. Least(need, Len(s2c)) :
        /\ rx' = rx \o Take(s2c, n)
        /\ s2c' = Drop(s2c, n)
        /\ IF got + n = HeaderLen + RespLen
           THEN return_(TRUE, got + n, s2c[n][1])
           ELSE got' = got + n /\ UNCHANGED results
  BY DEF read_full
<1>5. /\ rx \in Seq(Cell) /\ s2c \in Seq(Cell) /\ Len(rx) \in Nat /\ Len(s2c) \in Nat
      /\ got \in 0 .. MsgLen /\ MsgLen \in Nat \ {0} /\ Len(kind) \in Nat
  BY <1>1, Shapes, Lengths DEF TypeOK, MsgLen
<1>6. n \in 0 .. Len(s2c) /\ n \in 1 .. Len(s2c) /\ got + n <= MsgLen /\ n \in Nat
  BY <1>4, <1>5, Lengths DEF Least, need, MsgLen
<1>7. PICK t \in Seq(Cell), d \in Seq(Cell) :
        /\ t = Take(s2c, n) /\ d = Drop(s2c, n) /\ Len(t) = n /\ Len(d) = Len(s2c) - n
        /\ t \o d = s2c
  <2>1. PICK c \in Seq(Cell) : c = s2c /\ n \in 0 .. Len(c)
    BY <1>5, <1>6
  <2>2. \E a, b \in Seq(Cell) : /\ a = Take(c, n) /\ b = Drop(c, n)
                                /\ Len(a) = n /\ Len(b) = Len(c) - n /\ a \o b = c
    BY <2>1, Split
  <2> QED BY <2>1, <2>2
<1>8. rx' \in Seq(Cell) /\ Len(rx') = Len(rx) + n /\ s2c' \in Seq(Cell) /\ Len(s2c') <= Len(s2c)
  <2>1. rx \o t \in Seq(Cell) /\ Len(rx \o t) = Len(rx) + Len(t)
    BY <1>5, ConcatProperties
  <2> QED BY <1>4, <1>5, <1>6, <1>7, <2>1
<1>9. rx' \o s2c' = rx \o s2c
  <2>1. PICK a \in Seq(Cell) : a = rx
    BY <1>5
  <2>2. (a \o t) \o d = a \o (t \o d)
    <3>1. Cat(Cat(a, t), d) = Cat(a, Cat(t, d))
      BY CatAssociates
    <3> QED BY <3>1 DEF Cat
  <2> QED BY <1>4, <1>7, <2>1, <2>2
<1>10. Stream' = Stream /\ Pending' = Pending
  BY <1>2, <1>9 DEF Stream, Pending
<1>11. /\ Len(rx) + n \in DOMAIN Stream /\ s2c[n] = Stream[Len(rx) + n]
       /\ Stream[Len(rx) + n][1] \in 1 .. MaxReq /\ Stream[Len(rx) + n][1] <= Len(kind)
  <2>1. Len(rx) + n \in DOMAIN Stream /\ s2c[n] = Stream[Len(rx) + n]
    BY <1>1, <1>5, <1>6, Shapes
  <2> QED BY <1>1, <2>1, StreamId DEF SessionInv
<1>12. OutgoingInv'
  BY <1>2, <1>9, <1>10 DEF SessionInv, OutgoingInv
<1>13. window = 1 => /\ Len(rx) % MsgLen = got /\ tosend = << >>
                     /\ Stream[Len(rx) + n][1] > Len(results)
                     /\ Len(kind) = Len(results) + 1
  <2> SUFFICES ASSUME window = 1
               PROVE  /\ Len(rx) % MsgLen = got /\ tosend = << >>
                      /\ Stream[Len(rx) + n][1] > Len(results)
                      /\ Len(kind) = Len(results) + 1
    OBVIOUS
  <2>1. Len(results) \in Nat
    BY <1>1, Shapes
  <2>2. Len(rx) % MsgLen = got
    BY <1>3 DEF SessionInv, QueryInv
  <2>3. tosend = << >> /\ UnderWay = 1
    BY <1>3, <2>1, <1>5 DEF SessionInv, QueryInv, Reading
  <2>4. Len(rx) + n > Len(rx) - got
    BY <1>5, <1>6
  <2>5. Stream[Len(rx) + n][1] > Len(results)
    BY <1>11, <2>4 DEF SessionInv, QueryInv
  <2> QED BY <1>5, <2>1, <2>2, <2>3, <2>5 DEF UnderWay
<1>14. window = 1 => Len(rx') % MsgLen = IF got + n = MsgLen THEN 0 ELSE got + n
  <2>1. PICK a \in Nat, b \in Nat : a = Len(rx) /\ b = n /\ a % MsgLen \in Int
    BY <1>5, <1>6
  <2>2. (a % MsgLen) + b <= MsgLen =>
          (a + b) % MsgLen = IF (a % MsgLen) + b = MsgLen THEN 0 ELSE (a % MsgLen) + b
    BY <1>5, AddToRemainder
  <2> QED BY <1>6, <1>8, <1>13, <2>1, <2>2
<1>15. /\ window' \in Window /\ kind' \in Seq(Kind)
       /\ {tosend', c2s', s2c', incoming', outgoing', rx'} \subseteq Seq(Cell)
       /\ Len(c2s') <= Capacity /\ Len(s2c') <= Capacity
       /\ want' \in {"read", "write"} /\ spc' \in {"poll", "serve", "close", "closed"}
       /\ down' \in {"open", "fin", "rst"} /\ served' \in Seq(1 .. MaxReq)
       /\ cpc' \in {"run", "quit", "killed"}
  <2>1. Len(s2c') <= Capacity
    BY <1>1, <1>5, <1>6, <1>7, <1>4, Lengths DEF TypeOK
  <2> QED BY <1>1, <1>2, <1>8, <2>1 DEF TypeOK
<1>16. CASE got + n # MsgLen
  <2>1. got' = got + n /\ results' = results
    BY <1>4, <1>16 DEF MsgLen
  <2>2. TypeOK'
    <3>1. got' \in 0 .. HeaderLen + RespLen /\ results' \in Seq(Result)
      BY <1>1, <1>5, <1>6, <2>1 DEF TypeOK, MsgLen
    <3> QED BY <1>15, <3>1 DEF TypeOK
  <2>3. got' <= Len(rx') /\ Len(rx') - got' = Len(rx) - got
    BY <1>5, <1>6, <1>8, <2>1 DEF SessionInv
  <2>4. window = 1 => Len(rx') % MsgLen = got'
    BY <1>16, <1>14, <2>1
  <2>5. QueryInv'
    BY <1>2, <1>10, <1>13, <2>1, <2>3, <2>4 DEF SessionInv, QueryInv, UnderWay
  <2>6. AnswersMatch'
    BY <1>2, <2>1 DEF SessionInv, AnswersMatch
  <2> QED BY <1>2, <1>10, <1>12, <2>2, <2>3, <2>5, <2>6, Unmoved, UnmovedIncoming DEF SessionInv
<1>17. CASE got + n = MsgLen
  <2>1. PICK r \in Result : r = [id |-> s2c[n][1], ok |-> TRUE, n |-> got + n]
    <3>1. PICK i \in 0 .. MaxReq, g \in Nat : i = s2c[n][1] /\ g = got + n
      BY <1>5, <1>6, <1>11
    <3>2. [id |-> i, ok |-> TRUE, n |-> g] \in Result
      BY DEF Result
    <3> QED BY <3>1, <3>2
  <2>2. r.id = Stream[Len(rx) + n][1]
    BY <1>11, <2>1
  <2>3. results' = Append(results, r) /\ got' = 0
    BY <1>4, <1>17, <2>1 DEF return_, MsgLen
  <2>4. PICK m \in Nat : m = Len(results)
    BY <1>1, Shapes
  <2>5. /\ results' \in Seq(Result) /\ Len(results') = m + 1 /\ DOMAIN results' = 1 .. m + 1
        /\ \A i \in 1 .. m : results'[i] = results[i]
        /\ results'[m + 1] = r /\ DOMAIN results = 1 .. m
    BY <1>1, <2>3, <2>4, AppendProperties, LenProperties DEF TypeOK
  <2>6. TypeOK'
    <3>1. got' \in 0 .. HeaderLen + RespLen
      BY <2>3, Lengths
    <3> QED BY <1>15, <2>5, <3>1 DEF TypeOK
  <2>7. window = 1 => /\ Stream[Len(rx) + n][1] = m + 1 /\ Len(kind) = m + 1
                      /\ Len(rx') % MsgLen = 0
    <3>1. window = 1 => Len(rx') % MsgLen = 0
      BY <1>17, <1>14
    <3> QED BY <1>11, <1>13, <2>4, <3>1
  <2>8. QueryInv'
    <3> SUFFICES ASSUME window = 1 PROVE QueryInv'
      BY DEF QueryInv
    <3>1. UnderWay' = 0
      <4>1. Len(kind') = m + 1 /\ Len(results') = m + 1
        BY <1>2, <2>5, <2>7
      <4> QED BY <4>1 DEF UnderWay
    <3>2. PICK s \in Seq(Cell), e \in Nat :
            s = Stream /\ e = Len(rx) + n /\ e \in 1 .. Len(s) /\ Len(s) \in Nat /\ DOMAIN s = 1 .. Len(s)
      <4>1. Stream \in Seq(Cell) /\ DOMAIN Stream = 1 .. Len(Stream) /\ Len(Stream) \in Nat
        BY <1>1, Shapes
      <4>2. Len(rx) + n \in Nat /\ Len(rx) + n \in 1 .. Len(Stream)
        BY <1>5, <1>6, <1>11, <4>1
      <4> QED BY <4>1, <4>2
    <3>3. Intact(s) /\ (\A k \in 1 .. Len(s) : s[k][1] <= m + 1) /\ s[e][1] = m + 1
      BY <2>7, <3>2 DEF SessionInv, StreamIntact
    <3>4. e = Len(s)
      <4> SUFFICES ASSUME e # Len(s) PROVE FALSE
        OBVIOUS
      <4>1. e + 1 \in 1 .. Len(s) /\ e + 1 > 1 /\ (e + 1) - 1 = e /\ e % MsgLen = 0
        <5>1. Len(rx') = e /\ Len(rx') % MsgLen = 0
          BY <1>8, <2>7, <3>2
        <5>2. e \in Nat \ {0} /\ Len(s) \in Nat /\ e < Len(s)
          <6>1. PICK l \in Nat : l = Len(s) /\ e \in 1 .. l /\ e # l
            BY <3>2
          <6> QED BY <6>1
        <5> QED BY <5>1, <5>2
      <4>2. s[(e + 1) - 1][1] < s[e + 1][1]
        BY <3>3, <4>1, NextResponse
      <4>3. s[e + 1][1] <= m + 1 /\ s[e + 1][1] \in Nat
        BY <3>3, <4>1, CellParts
      <4> QED BY <3>3, <4>1, <4>2, <4>3
    <3>5. \A k \in DOMAIN Stream' : ~(k > Len(rx') - got')
      BY <1>8, <1>10, <2>3, <3>2, <3>4
    <3>6. spc' \in Looking => Pending' = << >>
      <4> SUFFICES ASSUME spc \in Looking, Pending # << >> PROVE FALSE
        BY <1>2, <1>10
      <4>1. down = "open"
        BY DEF SessionInv, OutgoingInv, Looking
      <4>2. Pending[1][1] \in 1 .. m + 1
        BY <2>7, <4>1, PendingId
      <4>3. Stream[Len(rx) + n][1] < Pending[1][1]
        BY <1>11, <4>1 DEF SessionInv, PendingInv, Looking
      <4> QED BY <2>7, <4>2, <4>3
    <3> QED BY <1>2, <1>13, <2>3, <2>7, <3>1, <3>5, <3>6 DEF QueryInv, Looking
  <2>9. AnswersMatch'
    <3> SUFFICES ASSUME window = 1, NEW i \in 1 .. m + 1, results'[i].ok PROVE results'[i].id = i
      BY <1>2, <2>5 DEF AnswersMatch
    <3>1. CASE i = m + 1
      BY <2>2, <2>5, <2>7, <3>1
    <3>2. CASE i # m + 1
      <4>1. i \in 1 .. m
        BY <3>2
      <4> QED BY <2>5, <4>1 DEF SessionInv, AnswersMatch
    <3> QED BY <3>1, <3>2
  <2>10. got' <= Len(rx')
    BY <1>5, <1>6, <1>8, <2>3
  <2> QED BY <1>2, <1>10, <1>12, <2>6, <2>8, <2>9, <2>10, Unmoved, UnmovedIncoming DEF SessionInv
<1> QED BY <1>16, <1>17

-----------------------------------------------------------------------------
(* The server. *)

\* The first cell of incoming is the first of all that is under way.
LEMMA FrontCell ==
  ASSUME NEW a \in Seq(Cell), NEW b \in Seq(Cell), NEW c \in Seq(Cell), a # << >>
  PROVE  ((a \o b) \o c)[1] = a[1] /\ (a \o b) \o c # << >>
<1>1. Len(a) \in Nat \ {0} /\ Len(b) \in Nat /\ Len(c) \in Nat
  BY EmptySeq, LenProperties
<1>2. a \o b \in Seq(Cell) /\ Len(a \o b) = Len(a) + Len(b) /\ (a \o b)[1] = a[1]
  BY <1>1
<1>3. PICK d \in Seq(Cell) : d = a \o b
  BY <1>2
<1>4. Len(d) \in Nat \ {0} /\ d[1] = a[1]
  BY <1>1, <1>2, <1>3
<1>5. Len(d \o c) = Len(d) + Len(c) /\ (d \o c)[1] = d[1]
  BY <1>1, <1>4
<1> QED BY <1>1, <1>3, <1>4, <1>5

\* incoming starts at a header because what is under way does.
LEMMA Stranded ==
  ASSUME TypeOK', PendingInv', OutgoingInv', spc' = "poll" => ~Complete'
  PROVE  NoRequestStranded'
<1>1. ASSUME spc' \in Looking, incoming' # << >> PROVE incoming'[1][2] = 1
  <2>1. PICK a \in Seq(Cell), b \in Seq(Cell), c \in Seq(Cell) :
          a = incoming' /\ b = c2s' /\ c = tosend'
    BY DEF TypeOK
  <2>2. Pending'[1] = a[1] /\ Pending' # << >>
    BY <1>1, <2>1, FrontCell DEF Pending
  <2>3. down' = "open"
    BY <1>1 DEF OutgoingInv, Looking
  <2> QED BY <1>1, <2>1, <2>2, <2>3 DEF PendingInv, Looking
<1> QED BY <1>1 DEF NoRequestStranded, Looking

\* handle_read takes what has arrived, or finds the end of the stream.
LEMMA HandleReadStep ==
  ASSUME SessionInv, UNCHANGED window, handle_read
  PROVE  SessionInv'
<1>1. TypeOK
  BY DEF SessionInv, NoRequestStranded
<1>2. UNCHANGED <<window, kind, tosend, s2c, outgoing, want, down, served, rx, got, results, cpc>>
  BY DEF handle_read, readerVars
<1>3. spc = "poll" /\ want = "read" /\ down = "open" /\ outgoing = << >>
  BY DEF handle_read, SessionInv, OutgoingInv
<1>4. /\ spc' \in {"serve", "close"} /\ Pending' = Pending
      /\ incoming' \in Seq(Cell) /\ c2s' \in Seq(Cell) /\ Len(c2s') <= Capacity
  <2>1. CASE c2s = << >>
    BY <1>1, <1>2, <2>1 DEF handle_read, Pending, TypeOK
  <2>2. CASE c2s # << >>
    <3>1. PICK n : n = Least(Len(c2s), ReadBuf)
      OBVIOUS
    <3>2. /\ c2s \in Seq(Cell) /\ incoming \in Seq(Cell) /\ tosend \in Seq(Cell)
          /\ Len(c2s) \in Nat \ {0} /\ Len(c2s) <= Capacity
      BY <1>1, <2>2, EmptySeq DEF TypeOK
    <3>3. n \in 0 .. Len(c2s)
      BY <3>1, <3>2, Lengths DEF Least
    <3>4. incoming' = incoming \o Take(c2s, n) /\ c2s' = Drop(c2s, n) /\ spc' = "serve"
      BY <2>2, <3>1 DEF handle_read
    <3>5. PICK b \in Seq(Cell) : b = c2s /\ n \in 0 .. Len(b)
      BY <3>2, <3>3
    <3>6. PICK t \in Seq(Cell), d \in Seq(Cell) :
            t = Take(b, n) /\ d = Drop(b, n) /\ Len(d) = Len(b) - n /\ t \o d = b
      <4>1. \E u, v \in Seq(Cell) : /\ u = Take(b, n) /\ v = Drop(b, n)
                                    /\ Len(u) = n /\ Len(v) = Len(b) - n /\ u \o v = b
        BY <3>5, Split
      <4> QED BY <4>1
    <3>7. PICK a \in Seq(Cell), c \in Seq(Cell) : a = incoming /\ c = tosend
      BY <3>2
    <3>8. ((a \o t) \o d) \o c = (a \o (t \o d)) \o c
      <4>1. Cat(Cat(a, t), d) = Cat(a, Cat(t, d))
        BY CatAssociates
      <4>2. (a \o t) \o d = a \o (t \o d)
        BY <4>1 DEF Cat
      <4> QED BY <4>2
    <3>9. Pending' = Pending
      BY <1>2, <3>4, <3>5, <3>6, <3>7, <3>8 DEF Pending
    <3>10. incoming' \in Seq(Cell)
      <4>1. a \o t \in Seq(Cell)
        BY ConcatProperties
      <4> QED BY <3>4, <3>5, <3>6, <3>7, <4>1
    <3>11. Len(c2s') <= Capacity
      BY <3>2, <3>3, <3>4, <3>5, <3>6, Lengths
    <3> QED BY <3>4, <3>5, <3>6, <3>9, <3>10, <3>11
  <2> QED BY <2>1, <2>2
<1>5. TypeOK'
  BY <1>1, <1>2, <1>4 DEF TypeOK
<1>6. Stream' = Stream
  BY <1>2 DEF Stream
<1>7. OutgoingInv'
  <2>1. Stream = rx \o s2c
    BY <1>1, <1>3, Shapes, ConcatEmptySeq DEF Stream
  <2> QED BY <1>2, <1>3, <1>4, <1>6, <2>1 DEF SessionInv, OutgoingInv
<1>8. /\ StreamIntact' /\ PendingInv' /\ Len(kind') <= MaxReq
      /\ \A k \in DOMAIN Stream' : Stream'[k][1] <= Len(kind')
  BY <1>2, <1>3, <1>4, <1>6, Unmoved DEF Looking
<1>9. QueryInv' /\ AnswersMatch' /\ got' <= Len(rx')
  BY <1>2, <1>3, <1>4, <1>6, UnmovedQuery DEF Looking
<1>10. NoRequestStranded'
  BY <1>4, <1>5, <1>7, <1>8, Stranded
<1> QED BY <1>7, <1>8, <1>9, <1>10 DEF SessionInv

\* handle_read returns: what it has not taken is not a whole request.
LEMMA ReadDoneStep ==
  ASSUME SessionInv, UNCHANGED window, read_done
  PROVE  SessionInv'
<1>1. UNCHANGED <<window, kind, tosend, c2s, s2c, incoming, outgoing, down, served, rx, got,
                  results, cpc>>
  BY DEF read_done, readerVars
<1>2. /\ spc = "serve" /\ ~Complete /\ spc' = "poll"
      /\ want' = IF outgoing = << >> THEN want ELSE "write"
  BY DEF read_done
<1>3. want = "read" /\ down = "open"
  BY <1>2 DEF SessionInv, OutgoingInv
<1>4. TypeOK'
  BY <1>1, <1>2, <1>3 DEF SessionInv, NoRequestStranded, TypeOK
<1>5. Stream' = Stream /\ Pending' = Pending
  BY <1>1 DEF Stream, Pending
<1>6. OutgoingInv'
  BY <1>1, <1>2, <1>3, <1>5 DEF SessionInv, OutgoingInv
<1>7. /\ StreamIntact' /\ PendingInv' /\ Len(kind') <= MaxReq
      /\ \A k \in DOMAIN Stream' : Stream'[k][1] <= Len(kind')
  BY <1>1, <1>2, <1>5, Unmoved DEF Looking
<1>8. QueryInv' /\ AnswersMatch' /\ got' <= Len(rx')
  BY <1>1, <1>2, <1>5, UnmovedQuery DEF Looking
<1>9. NoRequestStranded'
  BY <1>1, <1>2, <1>4, <1>6, <1>7, Stranded DEF Complete, consumed
<1> QED BY <1>6, <1>7, <1>8, <1>9 DEF SessionInv

\* handle_write moves cells from outgoing to the socket.  With one request
\* under way the client has written it all, as its response is there.
LEMMA HandleWriteStep ==
  ASSUME SessionInv, UNCHANGED window, handle_write
  PROVE  SessionInv'
<1>1. TypeOK
  BY DEF SessionInv, NoRequestStranded
<1>2. UNCHANGED <<window, kind, tosend, c2s, incoming, spc, down, served, rx, got, results, cpc>>
  BY DEF handle_write, readerVars
<1>3. spc = "poll" /\ want = "write" /\ down = "open"
  BY DEF handle_write, SessionInv, OutgoingInv
<1>4. PICK n \in 1 .. Least(Len(outgoing), Capacity - Len(s2c)) :
        /\ s2c' = s2c \o Take(outgoing, n) /\ outgoing' = Drop(outgoing, n)
        /\ want' = want_after_write(Drop(outgoing, n))
  BY DEF handle_write
<1>5. /\ rx \in Seq(Cell) /\ s2c \in Seq(Cell) /\ outgoing \in Seq(Cell)
      /\ Len(rx) \in Nat /\ Len(s2c) \in Nat /\ Len(outgoing) \in Nat /\ got \in Nat
  BY <1>1, Shapes, Lengths DEF TypeOK
<1>6. n \in 0 .. Len(outgoing) /\ n > 0 /\ n <= Capacity - Len(s2c)
  BY <1>4, <1>5, Lengths DEF Least
<1>7. PICK o \in Seq(Cell) : o = outgoing /\ n \in 0 .. Len(o)
  BY <1>5, <1>6
<1>8. PICK t \in Seq(Cell), d \in Seq(Cell) :
        t = Take(o, n) /\ d = Drop(o, n) /\ Len(t) = n /\ t \o d = o
  <2>1. \E u, v \in Seq(Cell) : /\ u = Take(o, n) /\ v = Drop(o, n)
                                /\ Len(u) = n /\ Len(v) = Len(o) - n /\ u \o v = o
    BY <1>7, Split
  <2> QED BY <2>1
<1>9. PICK s \in Seq(Cell) : s = s2c
  BY <1>5
<1>10. Stream' = Stream
  <2>1. Cat(Cat(rx, Cat(s2c, Take(outgoing, n))), Drop(outgoing, n)) = Cat(Cat(rx, s2c), outgoing)
    BY <1>5, <1>6, ShiftBehind
  <2> QED BY <1>2, <1>3, <1>4, <2>1 DEF Stream, Cat
<1>11. s2c' \in Seq(Cell) /\ Len(s2c') <= Capacity /\ outgoing' \in Seq(Cell)
  <2>1. s \o t \in Seq(Cell) /\ Len(s \o t) = Len(s) + Len(t)
    BY ConcatProperties
  <2> QED BY <1>4, <1>5, <1>6, <1>7, <1>8, <1>9, <2>1, Lengths
<1>12. want' \in {"read", "write"} /\ (want' = "read" <=> outgoing' = << >>)
  BY <1>4 DEF want_after_write
<1>13. TypeOK'
  BY <1>1, <1>2, <1>11, <1>12 DEF TypeOK
<1>14. Pending' = Pending
  BY <1>2 DEF Pending
<1>15. OutgoingInv'
  BY <1>2, <1>3, <1>10, <1>12 DEF SessionInv, OutgoingInv
<1>16. window = 1 => tosend = << >>
  <2> SUFFICES ASSUME window = 1, tosend # << >> PROVE FALSE
    OBVIOUS
  <2>1. Len(results) \in Nat /\ Len(kind) \in Nat /\ Len(kind) = Len(results) + 1
    BY <1>1, Shapes DEF SessionInv, QueryInv, UnderWay
  <2>2. Pending # << >> /\ Pending[1][1] \in 1 .. Len(kind)
    BY <1>1, <1>3, Shapes, PendingId
  <2>3. PICK k \in DOMAIN Stream : k > Len(rx) - got
    <3>1. PICK a \in Seq(Cell) : a = rx \o s2c
      BY <1>1, Shapes
    <3>2. Len(a \o o) = Len(a) + Len(o) /\ Len(a) = Len(rx) + Len(s2c)
      BY <1>1, <3>1, Shapes, ConcatProperties
    <3>3. Len(Stream) > Len(rx)
      BY <1>3, <1>5, <1>6, <1>7, <3>1, <3>2 DEF Stream
    <3>4. Len(Stream) \in DOMAIN Stream /\ Len(Stream) > Len(rx) - got
      BY <1>1, <1>5, <3>3, Shapes
    <3> QED BY <3>4
  <2>4. Stream[k][1] > Len(results) /\ Stream[k][1] \in Nat
    BY <1>1, <2>3, StreamId DEF SessionInv, QueryInv
  <2>5. Stream[k][1] < Pending[1][1]
    BY <1>3, <2>2 DEF SessionInv, PendingInv
  <2> QED BY <2>1, <2>2, <2>4, <2>5
<1>17. /\ StreamIntact' /\ PendingInv' /\ Len(kind') <= MaxReq
       /\ \A k \in DOMAIN Stream' : Stream'[k][1] <= Len(kind')
  BY <1>2, <1>3, <1>10, <1>14, Unmoved
<1>18. QueryInv' /\ AnswersMatch' /\ got' <= Len(rx')
  BY <1>2, <1>3, <1>10, <1>14, <1>16, UnmovedQuery
<1> QED BY <1>2, <1>13, <1>15, <1>17, <1>18, UnmovedIncoming DEF SessionInv

\* conn_destroy: what the client can still read is the start of the stream.
LEMMA DestroyStep ==
  ASSUME SessionInv, UNCHANGED window, spc \in {"poll", "close"}, conn_destroy
  PROVE  SessionInv'
<1>1. TypeOK
  BY DEF SessionInv, NoRequestStranded
<1>2. UNCHANGED <<window, kind, tosend, incoming, outgoing, want, served, rx, got, results, cpc>>
  BY DEF conn_destroy, readerVars
<1>3. spc' = "closed" /\ c2s' = << >> /\ down' \in {"fin", "rst"} /\ down = "open"
  BY DEF conn_destroy, SessionInv, OutgoingInv
<1>4. /\ rx \in Seq(Cell) /\ s2c \in Seq(Cell) /\ outgoing \in Seq(Cell)
      /\ Len(rx) \in Nat /\ Len(s2c) \in Nat /\ Len(s2c) <= Capacity
  BY <1>1, Shapes DEF TypeOK
<1>5. PICK s \in Seq(Cell) : s = s2c
  BY <1>4
<1>6. PICK n \in 0 .. Len(s) : s2c' = Take(s, n)
  <2>1. CASE s2c' = s2c
    <3>1. Len(s) \in 0 .. Len(s) /\ Take(s, Len(s)) = s
      BY <1>4, <1>5 DEF Take
    <3> QED BY <1>5, <2>1, <3>1
  <2>2. CASE s2c' # s2c
    BY <1>5, <2>2 DEF conn_destroy
  <2> QED BY <2>1, <2>2
<1>7. s2c' \in Seq(Cell) /\ Len(s2c') <= Len(s)
  <2>1. Take(s, n) \in Seq(Cell) /\ Len(Take(s, n)) = n
    BY TakeDrop
  <2> QED BY <1>4, <1>5, <1>6, <2>1
<1>8. TypeOK'
  <2>1. Len(s2c') <= Capacity /\ Len(<< >>) <= Capacity /\ << >> \in Seq(Cell)
    BY <1>4, <1>5, <1>7, Lengths, EmptySeq
  <2> QED BY <1>1, <1>2, <1>3, <1>7, <2>1 DEF TypeOK
<1>9. PICK u \in Seq(Cell), v \in Seq(Cell) : u = rx \o Take(s, n) /\ v = Drop(s, n) \o outgoing
  <2>1. Take(s, n) \in Seq(Cell) /\ Drop(s, n) \in Seq(Cell)
    BY TakeDrop
  <2>2. rx \o Take(s, n) \in Seq(Cell) /\ Drop(s, n) \o outgoing \in Seq(Cell)
    BY <1>4, <2>1, ConcatProperties
  <2> QED BY <2>2
<1>10. Stream' = u /\ Stream = u \o v
  <2>1. Stream' = u \o << >> /\ u \o << >> = u
    BY <1>2, <1>3, <1>6, <1>9, ConcatEmptySeq DEF Stream
  <2>2. Cat(Cat(rx, s), outgoing) = Cat(Cat(rx, Take(s, n)), Cat(Drop(s, n), outgoing))
    BY <1>4, ShiftBetween
  <2> QED BY <1>3, <1>5, <1>9, <2>1, <2>2 DEF Stream, Cat
<1>11. Intact(u) /\ StreamIntact'
  <2>1. Intact(u \o v)
    BY <1>10 DEF SessionInv, StreamIntact
  <2>2. Intact(u)
    BY <2>1, IntactPrefix
  <2> QED BY <1>10, <2>2 DEF StreamIntact, Intact
<1>12. \A k \in DOMAIN Stream' : k \in DOMAIN Stream /\ Stream'[k] = Stream[k]
  <2>1. Len(u \o v) = Len(u) + Len(v) /\ \A k \in 1 .. Len(u) : (u \o v)[k] = u[k]
    BY Concat
  <2>2. DOMAIN u = 1 .. Len(u) /\ Len(u) \in Nat /\ Len(v) \in Nat
    BY LenProperties
  <2>3. DOMAIN Stream = 1 .. Len(Stream)
    BY <1>1, Shapes
  <2> QED BY <1>10, <2>1, <2>2, <2>3
<1>13. PendingInv' /\ OutgoingInv'
  BY <1>3 DEF PendingInv, OutgoingInv
<1>14. NoRequestStranded'
  BY <1>3, <1>8 DEF NoRequestStranded
<1>15. s2c' # << >> => s2c # << >>
  <2>1. s2c' # << >> => Len(s2c') > 0
    BY <1>7, EmptySeq
  <2> QED BY <1>4, <1>5, <1>7, <2>1
<1>16. QueryInv'
  BY <1>2, <1>3, <1>12, <1>15 DEF SessionInv, QueryInv, UnderWay
<1>17. AnswersMatch' /\ Len(kind') <= MaxReq /\ got' <= Len(rx')
  BY <1>2 DEF SessionInv, AnswersMatch
<1>18. \A k \in DOMAIN Stream' : Stream'[k][1] <= Len(kind')
  BY <1>2, <1>12 DEF SessionInv
<1> QED BY <1>11, <1>13, <1>14, <1>16, <1>17, <1>18 DEF SessionInv

\* One request of incoming is served: its response is appended to a stream of
\* whole responses to earlier requests, and the next request, if any of it is
\* there, starts where this one ended.
LEMMA TryOneRequestStep ==
  ASSUME SessionInv, UNCHANGED window, try_one_request
  PROVE  SessionInv'
<1>1. TypeOK
  BY DEF SessionInv, NoRequestStranded
<1>2. UNCHANGED <<window, kind, tosend, c2s, s2c, down, rx, got, results, cpc>>
  BY DEF try_one_request, readerVars
<1>3. spc = "serve" /\ Complete /\ want = "read" /\ down = "open"
  <2>1. spc = "serve" /\ Complete
    BY Zenon DEF try_one_request
  <2> QED BY <2>1 DEF SessionInv, OutgoingInv
<1>4. /\ rx \in Seq(Cell) /\ s2c \in Seq(Cell) /\ outgoing \in Seq(Cell) /\ incoming \in Seq(Cell)
      /\ c2s \in Seq(Cell) /\ tosend \in Seq(Cell) /\ Len(incoming) \in Nat
      /\ Len(kind) \in Nat /\ Len(results) \in Nat /\ Len(rx) \in Nat /\ got \in Nat
  BY <1>1, Shapes, LenProperties, Lengths DEF TypeOK
<1>5. 1 \in 1 .. Len(incoming)
  BY <1>3, <1>4, Lengths DEF Complete
<1>6. Pending # << >> /\ Pending[1] = incoming[1] /\ Len(incoming) <= Len(Pending)
  BY <1>1, <1>4, <1>5, Shapes
<1>7. PICK i \in 1 .. MaxReq : i = incoming[1][1] /\ i = Pending[1][1] /\ i <= Len(kind)
  <2>1. Pending[1][1] \in 1 .. Len(kind)
    BY <1>3, <1>6, PendingId
  <2> QED BY <1>4, <1>6, <2>1, Lengths DEF SessionInv
<1>8. PICK m \in Nat : m = consumed(i) /\ m <= Len(incoming) /\ (kind[i] = "ok" => m = ReqMsgLen)
  BY <1>3, <1>7, Lengths DEF Complete, consumed, ReqMsgLen
<1>9. /\ incoming' = Drop(incoming, m)
      /\ \/ /\ kind[i] = "ok"
            /\ outgoing' = Response(i) /\ served' = Append(served, i)
            /\ UNCHANGED <<want, spc>>
         \/ /\ kind[i] # "ok"
            /\ outgoing' = outgoing \o Response(i)
            /\ want' = "write" /\ spc' = "close" /\ UNCHANGED served
  BY <1>7, <1>8 DEF try_one_request, answer
<1>10. PICK p \in Seq(Cell) : p = Pending /\ m \in 0 .. Len(p) /\ Pending' = Drop(p, m)
  <2>1. PICK a \in Seq(Cell), b \in Seq(Cell), c \in Seq(Cell) :
          a = incoming /\ b = c2s /\ c = tosend /\ m \in 0 .. Len(a)
    BY <1>4, <1>8
  <2>2. PICK ab \in Seq(Cell) : ab = a \o b /\ m \in 0 .. Len(ab)
    <3>1. a \o b \in Seq(Cell) /\ Len(a \o b) = Len(a) + Len(b) /\ Len(a) \in Nat /\ Len(b) \in Nat
      BY ConcatProperties, LenProperties
    <3>2. m \in 0 .. Len(a) + Len(b)
      BY <2>1, <3>1
    <3> QED BY <3>1, <3>2, Zenon
  <2>3. Drop(a \o b, m) = Drop(a, m) \o b
    BY <2>1, DropConcat
  <2>4. Drop(ab \o c, m) = Drop(ab, m) \o c
    BY <2>2, DropConcat
  <2>5. Pending = ab \o c /\ Pending' = (Drop(a, m) \o b) \o c
    BY <1>2, <1>9, <2>1, <2>2 DEF Pending
  <2>6. Pending' = Drop(Pending, m)
    BY <2>2, <2>3, <2>4, <2>5
  <2>7. Pending \in Seq(Cell) /\ m \in 0 .. Len(Pending)
    BY <1>1, <1>4, <1>6, <1>8, Shapes
  <2> QED BY <2>6, <2>7
<1>11. incoming' \in Seq(Cell)
  <2>1. m \in 0 .. Len(incoming)
    BY <1>4, <1>8
  <2>2. Drop(incoming, m) \in Seq(Cell)
    BY <1>4, <2>1, Split
  <2> QED BY <1>9, <2>2
<1>12. PICK r \in Seq(Cell) : r = Response(i)
  BY MessageCells, Lengths DEF Response
<1>13. outgoing' \in Seq(Cell) /\ served' \in Seq(1 .. MaxReq)
  <2>1. outgoing \o r \in Seq(Cell)
    BY <1>4, ConcatProperties
  <2>2. Append(served, i) \in Seq(1 .. MaxReq)
    BY <1>1, AppendProperties DEF TypeOK
  <2> QED BY <1>1, <1>9, <1>12, <2>1, <2>2 DEF TypeOK
<1>14. TypeOK'
  BY <1>1, <1>2, <1>9, <1>11, <1>13 DEF TypeOK
<1>15. PICK s \in Seq(Cell) :
         /\ Stream' = s \o Response(i) /\ Intact(s) /\ Len(s) % MsgLen = 0
         /\ \A k \in DOMAIN s : k \in DOMAIN Stream /\ s[k] = Stream[k]
  <2>1. PICK a \in Seq(Cell), o \in Seq(Cell) : a = rx \o s2c /\ o = outgoing
    BY <1>1, <1>4, Shapes
  <2>2. Stream = a \o o /\ Stream \in Seq(Cell) /\ Intact(Stream)
    BY <1>1, <1>3, <2>1, Shapes DEF Stream, SessionInv, StreamIntact
  <2>3. CASE kind[i] = "ok"
    <3>1. Stream' = a \o Response(i)
      BY <1>2, <1>3, <1>9, <2>1, <2>3 DEF Stream
    <3>2. Intact(a)
      BY <2>2, IntactPrefix
    <3>3. Len(a) % MsgLen = 0
      BY <1>3, <2>1 DEF SessionInv, OutgoingInv
    <3>4. \A k \in DOMAIN a : k \in DOMAIN Stream /\ a[k] = Stream[k]
      <4>1. Len(a \o o) = Len(a) + Len(o) /\ \A k \in 1 .. Len(a) : (a \o o)[k] = a[k]
        BY Concat
      <4>2. DOMAIN a = 1 .. Len(a) /\ Len(a) \in Nat /\ Len(o) \in Nat
        BY LenProperties
      <4>3. DOMAIN Stream = 1 .. Len(Stream)
        BY <1>1, Shapes
      <4> QED BY <2>2, <4>1, <4>2, <4>3
    <3> QED BY <3>1, <3>2, <3>3, <3>4
  <2>4. CASE kind[i] # "ok"
    <3>1. Stream' = a \o (o \o r)
      BY <1>2, <1>3, <1>9, <1>12, <2>1, <2>4 DEF Stream
    <3>2. (a \o o) \o r = a \o (o \o r)
      <4>1. Cat(Cat(a, o), r) = Cat(a, Cat(o, r))
        BY CatAssociates
      <4> QED BY <4>1 DEF Cat
    <3>3. Stream' = Stream \o Response(i)
      BY <1>12, <2>2, <3>1, <3>2
    <3>4. Len(Stream) % MsgLen = 0
      BY <1>3 DEF SessionInv, OutgoingInv
    <3> QED BY <2>2, <3>3, <3>4
  <2> QED BY <2>3, <2>4
<1>16. \A k \in DOMAIN s : s[k][1] < i /\ s[k][1] <= Len(kind)
  BY <1>3, <1>6, <1>7, <1>15 DEF SessionInv, PendingInv
<1>17. PICK u \in Seq(Cell) :
         /\ u = Stream' /\ Intact(u) /\ Len(u) % MsgLen = 0
         /\ \A k \in DOMAIN u : u[k][1] <= i
         /\ \A k \in DOMAIN u : u[k][1] = i \/ (k \in DOMAIN Stream /\ u[k] = Stream[k])
  <2>1. /\ s \o Response(i) \in Seq(Cell)
        /\ Intact(s \o Response(i))
        /\ Len(s \o Response(i)) % MsgLen = 0
        /\ \A k \in DOMAIN (s \o Response(i)) :
             /\ (s \o Response(i))[k][1] <= i
             /\ k > Len(s) => (s \o Response(i))[k][1] = i
    BY <1>15, <1>16, IntactAppend
  <2>2. \A k \in 1 .. Len(s) : (s \o r)[k] = s[k]
    BY Concat
  <2>3. PICK u \in Seq(Cell) : u = s \o Response(i)
    BY <2>1
  <2>4. ASSUME NEW k \in DOMAIN u
        PROVE  u[k][1] = i \/ (k \in DOMAIN Stream /\ u[k] = Stream[k])
    <3>1. k \in Nat \ {0} /\ Len(s) \in Nat /\ DOMAIN s = 1 .. Len(s)
      BY LenProperties
    <3>2. CASE k > Len(s)
      BY <2>1, <2>3, <3>2
    <3>3. CASE k <= Len(s)
      BY <1>12, <1>15, <2>2, <2>3, <3>1, <3>3
    <3> QED BY <3>1, <3>2, <3>3
  <2> QED BY <1>15, <2>1, <2>3, <2>4
<1>18. /\ StreamIntact' /\ Len(kind') <= MaxReq
       /\ \A k \in DOMAIN Stream' : Stream'[k][1] <= Len(kind')
  <2>1. StreamIntact'
    BY <1>17 DEF StreamIntact, Intact
  <2>2. ASSUME NEW k \in DOMAIN u PROVE u[k][1] <= Len(kind)
    <3>1. u[k][1] \in Nat /\ u[k][1] <= i
      <4>1. k \in 1 .. Len(u)
        BY LenProperties
      <4>2. u[k][1] \in 1 .. MaxReq
        BY <4>1, CellParts
      <4> QED BY <1>17, <4>2, Lengths
    <3>2. i \in Nat /\ i <= Len(kind) /\ Len(kind) \in Nat
      <4>1. Len(kind) \in Nat
        BY <1>1, Shapes
      <4> QED BY <1>7, <4>1, Lengths
    <3> QED BY <3>1, <3>2
  <2> QED BY <1>2, <1>17, <2>1, <2>2 DEF SessionInv
<1>19. PICK q \in Seq(Cell) : q = Pending' /\ Aligned(q, Len(kind))
  <2>1. Aligned(p, Len(kind))
    BY <1>3, <1>10 DEF SessionInv, PendingInv
  <2>2. Aligned(Drop(p, m), Len(kind))
    BY <1>4, <1>10, <2>1, AlignedDrop
  <2>3. Drop(p, m) \in Seq(Cell)
    BY <1>10, Split
  <2> QED BY <1>10, <2>2, <2>3
<1>20. spc' \in Looking /\ q # << >> => q[1][1] = i + 1 /\ q[1][2] = 1
  <2> SUFFICES ASSUME spc' \in Looking, q # << >> PROVE q[1][1] = i + 1 /\ q[1][2] = 1
    OBVIOUS
  <2>1. m = ReqMsgLen
    BY <1>8, <1>9 DEF Looking
  <2>2. /\ Len(Drop(p, m)) = Len(p) - m
        /\ \A j \in 1 .. Len(p) - m : Drop(p, m)[j] = p[m + j]
    BY <1>10, TakeDrop
  <2>3. Len(q) \in Nat \ {0} /\ Len(p) \in Nat
    BY EmptySeq, LenProperties
  <2>4. Len(p) > m /\ q[1] = p[m + 1]
    BY <1>10, <1>19, <2>2, <2>3
  <2>5. Aligned(p, Len(kind)) /\ p[1][2] = 1
    BY <1>3, <1>6, <1>10 DEF SessionInv, PendingInv
  <2>6. p[ReqMsgLen + 1][1] = p[1][1] + 1 /\ p[ReqMsgLen + 1][2] = 1
    BY <1>4, <2>1, <2>4, <2>5, AlignedNext
  <2> QED BY <1>7, <1>10, <2>1, <2>4, <2>6
<1>21. PendingInv'
  <2>1. Aligned(Pending, Len(kind))'
    BY <1>2, <1>19 DEF Aligned
  <2>2. ASSUME spc' \in Looking, q # << >>
        PROVE  q[1][2] = 1 /\ \A k \in DOMAIN u : u[k][1] < q[1][1]
    <3>1. q[1][1] = i + 1 /\ q[1][2] = 1
      BY <1>20, <2>2
    <3>2. ASSUME NEW k \in DOMAIN u PROVE u[k][1] < i + 1
      <4>1. u[k][1] \in Nat /\ u[k][1] <= i
        <5>1. k \in 1 .. Len(u)
          BY LenProperties
        <5>2. u[k][1] \in 1 .. MaxReq
          BY <5>1, CellParts
        <5> QED BY <1>17, <5>2, Lengths
      <4> QED BY <4>1
    <3> QED BY <3>1, <3>2
  <2> QED BY <1>17, <1>19, <2>1, <2>2 DEF PendingInv, Looking
<1>22. OutgoingInv'
  BY <1>2, <1>3, <1>9, <1>17 DEF SessionInv, OutgoingInv
<1>23. QueryInv'
  <2> SUFFICES ASSUME window = 1 PROVE QueryInv'
    BY DEF QueryInv
  <2>1. i > Len(results)
    BY <1>3, <1>6, <1>7 DEF SessionInv, QueryInv
  <2>2. \A k \in DOMAIN u : k > Len(rx) - got => u[k][1] > Len(results)
    BY <1>17, <2>1 DEF SessionInv, QueryInv
  <2>3. spc' \in Looking /\ q # << >> => q[1][1] > Len(results)
    <3>1. i \in Nat /\ Len(results) \in Nat
      <4>1. Len(results) \in Nat
        BY <1>1, Shapes
      <4> QED BY <4>1, Lengths
    <3> QED BY <1>20, <2>1, <3>1
  <2> QED BY <1>2, <1>3, <1>17, <1>19, <2>2, <2>3 DEF SessionInv, QueryInv, UnderWay, Looking
<1>24. NoRequestStranded'
  BY <1>3, <1>9, <1>14, <1>21, <1>22, Stranded
<1>25. AnswersMatch' /\ got' <= Len(rx')
  BY <1>2 DEF SessionInv, AnswersMatch
<1> QED BY <1>18, <1>21, <1>22, <1>23, <1>24, <1>25 DEF SessionInv

-----------------------------------------------------------------------------
(* The theorems. *)

\* Every step keeps the invariant.
LEMMA StepSessionInv == SessionInv /\ [Next]_vars => SessionInv'
<1> SUFFICES ASSUME SessionInv, [Next]_vars PROVE SessionInv'
  OBVIOUS
<1>1. CASE ClientStep
  BY <1>1, WriteStep, WriteFailsStep, ReadStep, ReadEofStep DEF ClientStep
<1>2. CASE ServerStep
  BY <1>2, HandleReadStep, TryOneRequestStep, ReadDoneStep, HandleWriteStep, DestroyStep
  DEF ServerStep, close_conn
<1>3. CASE Decision
  BY <1>3, QueryStep, ClientCloseStep, DestroyStep DEF Decision, idle_close
<1>4. CASE UNCHANGED vars
  <2>1. UNCHANGED <<window, kind, tosend, c2s, s2c, incoming, outgoing, want, spc, down, served,
                    rx, got, results, cpc>>
    BY <1>4 DEF vars
  <2>2. TypeOK'
    BY <2>1 DEF SessionInv, NoRequestStranded, TypeOK
  <2>3. Stream' = Stream /\ Pending' = Pending
    BY <2>1 DEF Stream, Pending
  <2>4. OutgoingInv'
    BY <2>1, <2>3 DEF SessionInv, OutgoingInv
  <2> QED BY <2>1, <2>2, <2>3, <2>4, Unmoved, UnmovedQuery, UnmovedIncoming DEF SessionInv
<1> QED BY <1>1, <1>2, <1>3, <1>4 DEF Next

\* SessionInv is an invariant of a connection, whatever the sizes of messages,
\* buffers and sockets and however reads and writes are split.
THEOREM SessionInvariant == Spec => []SessionInv
<1>1. Init => SessionInv
  BY InitSessionInv
<1>2. SessionInv /\ [Next]_vars => SessionInv'
  BY StepSessionInv
<1> QED BY <1>1, <1>2, PTL DEF Spec

\* The client is given whole responses in the order of its requests, the last
\* one perhaps cut short: handle_write resumes where it stopped, and
\* outgoing.clear() in try_one_request never cuts into a response that is
\* partly written.
THEOREM StreamAlwaysIntact == Spec => []StreamIntact
<1>1. SessionInv => StreamIntact
  BY DEF SessionInv
<1> QED BY <1>1, SessionInvariant, PTL

\* buf_consume leaves incoming at the start of a header, and handle_read does
\* not return with a whole request in it.
THEOREM RequestsNeverStranded == Spec => []NoRequestStranded
<1>1. SessionInv => NoRequestStranded
  BY DEF SessionInv
<1> QED BY <1>1, SessionInvariant, PTL

\* A client that has one request under way, as client.cpp has, never takes the
\* response to one request for the answer to another, through errors, ends of
\* stream and resets.
THEOREM AnswersAlwaysMatch == Spec => []AnswersMatch
<1>1. SessionInv => AnswersMatch
  BY DEF SessionInv
<1> QED BY <1>1, SessionInvariant, PTL
=============================================================================
