--------------------------- MODULE ExchangeProofs ---------------------------
(***************************************************************************)
(* Proofs about Exchange: what is typed reaches do_request, and what the   *)
(* server answers is what the client prints.                               *)
(*                                                                         *)
(* The messages are recursive functions of their pieces, so the module     *)
(* first says what a word, a joined sequence and an encoded request are    *)
(* made of, by induction over 0 .. n.  RequestInv then                     *)
(* says how far the splitting of the line and parse_req have come, and     *)
(* ReplyInv where print_response is in the body of the response.           *)
(***************************************************************************)
EXTENDS Exchange, TLAPS, WellFoundedInduction, SequenceTheorems

\* Every non-empty set of natural numbers has a least element.
LEMMA LeastNat ==
  ASSUME NEW S \in SUBSET Nat, S # {}
  PROVE  \E m \in S : \A k \in S : m <= k
<1>1. PICK m \in S : \A k \in S : ~(<<k, m>> \in OpToRel(<, Nat))
  BY NatLessThanWellFounded, WFMin, Zenon
<1>2. ASSUME NEW k \in S PROVE m <= k
  <2>1. ~(<<k, m>> \in OpToRel(<, Nat))
    BY <1>1, Zenon
  <2>2. ~(k < m)
    BY <2>1 DEF OpToRel
  <2> QED
    BY <2>2
<1> QED
  BY <1>2

\* Induction: what holds at 0 and passes to the next number holds everywhere.
LEMMA Induction ==
  ASSUME NEW S \in SUBSET Nat, 0 \in S, \A n \in Nat : n \in S => n + 1 \in S
  PROVE  S = Nat
<1> SUFFICES ASSUME Nat \ S # {} PROVE FALSE
  OBVIOUS
<1>1. PICK m \in Nat \ S : \A k \in Nat \ S : m <= k
  <2>1. Nat \ S \in SUBSET Nat
    OBVIOUS
  <2> QED BY <2>1, LeastNat
<1>2. m - 1 \in Nat /\ m - 1 \in S
  BY <1>1
<1> QED BY <1>2

\* Induction up to a bound.
LEMMA InductionUpTo ==
  ASSUME NEW N \in Nat, NEW S, 0 \in S, \A n \in 0 .. N - 1 : n \in S => n + 1 \in S
  PROVE  \A n \in 0 .. N : n \in S
<1> DEFINE T == {n \in Nat : n <= N => n \in S}
<1>1. T \in SUBSET Nat /\ 0 \in T
  OBVIOUS
<1>2. \A n \in Nat : n \in T => n + 1 \in T
  OBVIOUS
<1>3. T = Nat
  <2> HIDE DEF T
  <2> QED BY <1>1, <1>2, Induction
<1> QED BY <1>3

\* f begins with a, and each of its other values, up to N, is what step makes of
\* the one before.
IsStep(step, N, S) == step \in [1 .. N -> [S -> S]]

IsRecursion(f, N, S, a, step) ==
  f \in [0 .. N -> S] /\ f[0] = a /\ \A k \in 1 .. N : f[k] = step[k][f[k - 1]]

\* Recursion: there is such a function.
LEMMA RecursionExists ==
  ASSUME NEW N \in Nat, NEW S, NEW a \in S, NEW step, IsStep(step, N, S)
  PROVE  \E f : IsRecursion(f, N, S, a, step)
<1> USE DEF IsStep
<1> DEFINE Upto(n, f) == f[0] = a /\ \A k \in 1 .. n : f[k] = step[k][f[k - 1]]
           T == {n \in 0 .. N : \E f \in [0 .. n -> S] : Upto(n, f)}
<1>1. 0 \in T
  <2> DEFINE g == [k \in 0 .. 0 |-> a]
  <2>1. g \in [0 .. 0 -> S] /\ Upto(0, g)
    OBVIOUS
  <2>2. \E f \in [0 .. 0 -> S] : Upto(0, f)
    <3> HIDE DEF g, Upto
    <3> QED BY <2>1, Zenon
  <2> QED BY <2>2
<1>2. ASSUME NEW n \in 0 .. N - 1, n \in T PROVE n + 1 \in T
  <2>1. PICK f \in [0 .. n -> S] : Upto(n, f)
    BY <1>2
  <2> DEFINE g == [k \in 0 .. n + 1 |-> IF k = n + 1 THEN step[n + 1][f[n]] ELSE f[k]]
  <2>2. n + 1 \in 1 .. N /\ f[n] \in S
    OBVIOUS
  <2>3. step[n + 1][f[n]] \in S
    BY <2>2
  <2>4. g \in [0 .. n + 1 -> S]
    BY <2>3
  <2>5. ASSUME NEW k \in 1 .. n + 1 PROVE g[k] = step[k][g[k - 1]]
    <3>1. CASE k = n + 1
      BY <3>1
    <3>2. CASE k # n + 1
      <4>1. k \in 1 .. n /\ k - 1 \in 0 .. n /\ k - 1 # n + 1
        BY <3>2
      <4>2. g[k] = f[k] /\ g[k - 1] = f[k - 1]
        BY <4>1
      <4> QED BY <4>1, <4>2, <2>1
    <3> QED BY <3>1, <3>2
  <2>6. g[0] = a
    BY <2>1
  <2>7. Upto(n + 1, g)
    BY <2>5, <2>6
  <2>8. \E h \in [0 .. n + 1 -> S] : Upto(n + 1, h)
    <3> HIDE DEF g, Upto
    <3> QED BY <2>4, <2>7, Zenon
  <2> QED BY <2>8
<1>3. N \in T
  <2> HIDE DEF T
  <2>1. \A n \in 0 .. N - 1 : n \in T => n + 1 \in T
    BY <1>2, Zenon
  <2>2. \A n \in 0 .. N : n \in T
    BY <1>1, <2>1, InductionUpTo, Zenon
  <2> QED BY <2>2
<1>4. PICK f \in [0 .. N -> S] : Upto(N, f)
  BY <1>3
<1>5. IsRecursion(f, N, S, a, step)
  BY <1>4 DEF IsRecursion
<1> QED BY <1>5, Zenon

\* A multiple of m that is nearer to 0 than m is 0.
LEMMA SmallMultiple ==
  ASSUME NEW m \in Nat \ {0}, NEW d \in Int, d * m < m, d * m > -m
  PROVE  d = 0
<1>1. CASE d >= 1
  <2>1. (d - 1) * m >= 0
    BY <1>1
  <2>2. d * m = (d - 1) * m + m
    OBVIOUS
  <2> QED BY <2>1, <2>2
<1>2. CASE d <= -1
  <2>1. (-1 - d) * m >= 0
    BY <1>2
  <2>2. d * m = -m - (-1 - d) * m
    OBVIOUS
  <2> QED BY <2>1, <2>2
<1> QED BY <1>1, <1>2

\* Two ways of dividing with a remainder agree.
LEMMA SameQuotient ==
  ASSUME NEW m \in Nat \ {0}, NEW p \in Int, NEW q \in Int,
         NEW i \in 0 .. m - 1, NEW j \in 0 .. m - 1, p * m + i = q * m + j
  PROVE  p = q /\ i = j
<1>1. (p - q) * m = j - i
  <2>1. (p - q) * m = p * m - q * m
    OBVIOUS
  <2>2. p * m \in Int /\ q * m \in Int
    OBVIOUS
  <2> QED BY <2>1, <2>2
<1>2. p - q = 0
  BY <1>1, SmallMultiple
<1> QED BY <1>2

-----------------------------------------------------------------------------
(* Words: the integers of the messages. *)

LEMMA WeightRec ==
  /\ weight \in [0 .. WordLen -> Nat]
  /\ weight[0] = 1
  /\ \A k \in 1 .. WordLen : weight[k] = Base * weight[k - 1]
<1> USE BytesConstants
<1> DEFINE step == [k \in 1 .. WordLen |-> [v \in Nat |-> Base * v]]
<1>1. PICK f : IsRecursion(f, WordLen, Nat, 1, step)
  <2>1. IsStep(step, WordLen, Nat) /\ WordLen \in Nat /\ 1 \in Nat
    BY DEF IsStep
  <2> HIDE DEF step
  <2> QED BY <2>1, RecursionExists, Zenon
<1>2. f = [k \in 0 .. WordLen |-> IF k = 0 THEN 1 ELSE Base * f[k - 1]]
  <2>1. ASSUME NEW k \in 0 .. WordLen
        PROVE  f[k] = IF k = 0 THEN 1 ELSE Base * f[k - 1]
    <3>1. CASE k = 0
      BY <1>1, <3>1 DEF IsRecursion
    <3>2. CASE k # 0
      <4> HIDE DEF step
      <4>0. k \in 1 .. WordLen /\ k - 1 \in 0 .. WordLen
        BY <3>2
      <4>1. f[k - 1] \in Nat
        BY <1>1, <4>0 DEF IsRecursion
      <4>2. step[k][f[k - 1]] = Base * f[k - 1]
        BY <4>0, <4>1 DEF step
      <4>3. f[k] = step[k][f[k - 1]]
        BY <4>0, <1>1 DEF IsRecursion
      <4> QED BY <3>2, <4>2, <4>3
    <3> QED BY <3>1, <3>2
  <2>2. f \in [0 .. WordLen -> Nat]
    BY <1>1 DEF IsRecursion
  <2> QED BY <2>1, <2>2
<1>3. weight = [k \in 0 .. WordLen |-> IF k = 0 THEN 1 ELSE Base * weight[k - 1]]
  BY <1>2, Zenon DEF weight
<1>4. \A k \in 0 .. WordLen : weight[k] = IF k = 0 THEN 1 ELSE Base * weight[k - 1]
  <2> DEFINE g == [k \in 0 .. WordLen |-> IF k = 0 THEN 1 ELSE Base * weight[k - 1]]
  <2>1. \A k \in 0 .. WordLen : g[k] = IF k = 0 THEN 1 ELSE Base * weight[k - 1]
    OBVIOUS
  <2>2. weight = g
    BY <1>3, Zenon
  <2> QED BY <2>1, <2>2, Zenon
<1>5. \A n \in 0 .. WordLen : weight[n] \in Nat
  <2> DEFINE S == {n \in 0 .. WordLen : weight[n] \in Nat}
  <2>1. 0 \in S
    BY <1>4
  <2>2. \A n \in 0 .. WordLen - 1 : n \in S => n + 1 \in S
    <3> SUFFICES ASSUME NEW n \in 0 .. WordLen - 1, n \in S PROVE n + 1 \in S
      OBVIOUS
    <3>1. weight[n + 1] = Base * weight[n]
      BY <1>4
    <3> QED BY <3>1
  <2>3. \A n \in 0 .. WordLen : n \in S
    <3> HIDE DEF S
    <3> QED BY <2>1, <2>2, InductionUpTo
  <2> QED BY <2>3
<1>6. weight = [k \in 0 .. WordLen |-> weight[k]]
  BY <1>3
<1>7. weight \in [0 .. WordLen -> Nat]
  BY <1>5, <1>6
<1> QED BY <1>4, <1>7

\* A weight is positive.
LEMMA WeightPos ==
  ASSUME NEW k \in 0 .. WordLen
  PROVE  weight[k] \in Nat \ {0}
<1> USE BytesConstants
<1> DEFINE S == {n \in 0 .. WordLen : weight[n] \in Nat \ {0}}
<1>1. 0 \in S
  BY WeightRec
<1>2. \A n \in 0 .. WordLen - 1 : n \in S => n + 1 \in S
  <2> SUFFICES ASSUME NEW n \in 0 .. WordLen - 1, n \in S PROVE n + 1 \in S
    OBVIOUS
  <2>1. weight[n + 1] = Base * weight[n]
    BY WeightRec
  <2>2. PICK w \in Nat \ {0} : w = weight[n]
    OBVIOUS
  <2>3. Base * w \in Nat \ {0}
    OBVIOUS
  <2> QED BY <2>1, <2>2, <2>3
<1>3. \A n \in 0 .. WordLen : n \in S
  <2> HIDE DEF S
  <2> QED BY <1>1, <1>2, InductionUpTo
<1> QED BY <1>3

\* One more byte d, of base b, on top of a number below w.
LEMMA MoreByte ==
  ASSUME NEW b \in Nat \ {0}, NEW w \in Nat \ {0}, NEW lo \in 0 .. w - 1, NEW d \in 0 .. b - 1
  PROVE  lo + d * w \in 0 .. b * w - 1
<1>1. (b - 1 - d) * w >= 0 /\ d * w >= 0
  OBVIOUS
<1>2. (b - 1 - d) * w = b * w - w - d * w
  OBVIOUS
<1>3. b * w \in Int /\ d * w \in Int
  OBVIOUS
<1> QED BY <1>1, <1>2, <1>3

\* The bytes of a number, from the lowest.
LEMMA NextByte ==
  ASSUME NEW b \in Nat \ {0}, NEW w \in Nat \ {0}, NEW v \in Nat
  PROVE  v % (b * w) = (v % w) + ((v \div w) % b) * w
<1>1. PICK q \in Int, r \in 0 .. w - 1 : q = v \div w /\ r = v % w
  OBVIOUS
<1>2. v = q * w + r
  BY <1>1
<1>3. PICK p \in Int, d \in 0 .. b - 1 : p = q \div b /\ d = q % b
  OBVIOUS
<1>4. q = p * b + d
  BY <1>3
<1>5. b * w \in Nat \ {0}
  OBVIOUS
<1>6. PICK x \in Int, y \in 0 .. b * w - 1 : x = v \div (b * w) /\ y = v % (b * w)
  BY <1>5
<1>7. v = x * (b * w) + y
  BY <1>5, <1>6
<1>8. r + d * w \in 0 .. b * w - 1
  BY MoreByte
<1>9. v = p * (b * w) + (r + d * w)
  <2>1. (p * b + d) * w = p * (b * w) + d * w
    OBVIOUS
  <2>2. q * w = p * (b * w) + d * w
    BY <1>4, <2>1
  <2>3. p * (b * w) \in Int /\ d * w \in Int
    OBVIOUS
  <2> QED BY <1>2, <2>2, <2>3
<1>10. y = r + d * w
  <2>1. PICK m \in Nat \ {0} : m = b * w
    BY <1>5
  <2>2. PICK s \in 0 .. m - 1 : s = r + d * w
    BY <1>8, <2>1
  <2>3. p * m + s = x * m + y
    BY <1>7, <1>9, <2>1, <2>2
  <2>4. y \in 0 .. m - 1
    BY <2>1
  <2>5. s = y
    BY <2>3, <2>4, SameQuotient
  <2> QED BY <2>2, <2>5
<1> QED BY <1>1, <1>3, <1>6, <1>10

\* The bytes of a word are read one after the other.
IsWord(s, at_) == \A k \in 1 .. WordLen : s[at_ + k] \in Byte

SumsUp(f, s, at_) ==
  /\ f \in [0 .. WordLen -> Nat]
  /\ f[0] = 0
  /\ \A k \in 1 .. WordLen : f[k] = f[k - 1] + s[at_ + k] * weight[k - 1]

LEMMA WordRec ==
  ASSUME NEW s, NEW at_ \in Int, IsWord(s, at_)
  PROVE  \E f : SumsUp(f, s, at_) /\ u32_at(s, at_) = f[WordLen]
<1> USE BytesConstants
<1> DEFINE step == [k \in 1 .. WordLen |-> [v \in Nat |-> v + s[at_ + k] * weight[k - 1]]]
           Eqn(f) == f = [k \in 0 .. WordLen |->
                            IF k = 0 THEN 0 ELSE f[k - 1] + s[at_ + k] * weight[k - 1]]
<1>1. \A k \in 1 .. WordLen : s[at_ + k] * weight[k - 1] \in Nat
  <2> SUFFICES ASSUME NEW k \in 1 .. WordLen PROVE s[at_ + k] * weight[k - 1] \in Nat
    OBVIOUS
  <2>1. s[at_ + k] \in Nat
    BY DEF IsWord, Byte
  <2>2. weight[k - 1] \in Nat
    BY WeightPos
  <2> QED BY <2>1, <2>2
<1>2. PICK f : IsRecursion(f, WordLen, Nat, 0, step)
  <2>1. IsStep(step, WordLen, Nat) /\ WordLen \in Nat /\ 0 \in Nat
    BY <1>1 DEF IsStep
  <2> HIDE DEF step
  <2> QED BY <2>1, RecursionExists, Zenon
<1>3. f \in [0 .. WordLen -> Nat] /\ f[0] = 0
  <2> HIDE DEF step
  <2> QED BY <1>2 DEF IsRecursion
<1>4. ASSUME NEW k \in 1 .. WordLen PROVE f[k] = f[k - 1] + s[at_ + k] * weight[k - 1]
  <2>1. f[k - 1] \in Nat
    BY <1>3
  <2>2. step[k][f[k - 1]] = f[k - 1] + s[at_ + k] * weight[k - 1]
    BY <2>1
  <2> HIDE DEF step
  <2> QED BY <2>2, <1>2 DEF IsRecursion
<1>5. Eqn(f)
  <2>1. \A k \in 0 .. WordLen :
          f[k] = IF k = 0 THEN 0 ELSE f[k - 1] + s[at_ + k] * weight[k - 1]
    BY <1>3, <1>4
  <2> QED BY <1>3, <2>1
<1> DEFINE upto == CHOOSE g : Eqn(g)
<1>6. Eqn(upto)
  BY <1>5, Zenon
<1>7. u32_at(s, at_) = upto[WordLen]
  BY DEF u32_at
<1>8. \A k \in 0 .. WordLen :
        upto[k] = IF k = 0 THEN 0 ELSE upto[k - 1] + s[at_ + k] * weight[k - 1]
  <2> HIDE DEF upto
  <2> DEFINE g == [k \in 0 .. WordLen |->
                     IF k = 0 THEN 0 ELSE upto[k - 1] + s[at_ + k] * weight[k - 1]]
  <2>1. \A k \in 0 .. WordLen :
          g[k] = IF k = 0 THEN 0 ELSE upto[k - 1] + s[at_ + k] * weight[k - 1]
    OBVIOUS
  <2>2. upto = g
    BY <1>6, Zenon
  <2> QED BY <2>1, <2>2, Zenon
<1>9. \A k \in 0 .. WordLen : upto[k] = f[k]
  <2> HIDE DEF upto, step
  <2> DEFINE S == {n \in 0 .. WordLen : upto[n] = f[n]}
  <2>1. 0 \in S
    BY <1>3, <1>8
  <2>2. \A n \in 0 .. WordLen - 1 : n \in S => n + 1 \in S
    <3> SUFFICES ASSUME NEW n \in 0 .. WordLen - 1, n \in S PROVE n + 1 \in S
      OBVIOUS
    <3>1. upto[n + 1] = upto[n] + s[at_ + (n + 1)] * weight[n]
      BY <1>8
    <3>2. f[n + 1] = f[n] + s[at_ + (n + 1)] * weight[n]
      BY <1>4
    <3> QED BY <3>1, <3>2
  <2>3. \A n \in 0 .. WordLen : n \in S
    <3> HIDE DEF S
    <3> QED BY <2>1, <2>2, InductionUpTo
  <2> QED BY <2>3
<1>10. u32_at(s, at_) = f[WordLen]
  BY <1>7, <1>9
<1>11. SumsUp(f, s, at_)
  <2> HIDE DEF step
  <2> QED BY <1>3, <1>4 DEF SumsUp
<1> QED BY <1>10, <1>11, Zenon

\* u32 writes WordLen bytes.
LEMMA U32Type ==
  ASSUME NEW v \in Nat
  PROVE  /\ u32(v) \in Seq(Byte) /\ Len(u32(v)) = WordLen
         /\ \A k \in 1 .. WordLen : u32(v)[k] \in Byte
<1> USE BytesConstants
<1>1. ASSUME NEW k \in 1 .. WordLen PROVE (v \div weight[k - 1]) % Base \in Byte
  <2>1. PICK w \in Nat \ {0} : w = weight[k - 1]
    BY WeightPos
  <2>2. v \div w \in Nat
    OBVIOUS
  <2>3. (v \div w) % Base \in 0 .. Base - 1
    BY <2>2
  <2> QED BY <2>1, <2>3 DEF Byte
<1>2. u32(v) \in [1 .. WordLen -> Byte]
  BY <1>1 DEF u32
<1> QED BY <1>2

\* A word is below the weight of the byte that would come after it.
LEMMA WordBelow ==
  ASSUME NEW s, NEW at_ \in Int, IsWord(s, at_), NEW f, SumsUp(f, s, at_)
  PROVE  \A k \in 0 .. WordLen : f[k] \in 0 .. weight[k] - 1
<1> USE BytesConstants
<1> DEFINE S == {n \in 0 .. WordLen : f[n] \in 0 .. weight[n] - 1}
<1>1. 0 \in S
  BY WeightRec DEF SumsUp
<1>2. \A n \in 0 .. WordLen - 1 : n \in S => n + 1 \in S
  <2> SUFFICES ASSUME NEW n \in 0 .. WordLen - 1, n \in S PROVE n + 1 \in S
    OBVIOUS
  <2>1. f[n + 1] = f[n] + s[at_ + (n + 1)] * weight[n]
    BY DEF SumsUp
  <2>2. weight[n + 1] = Base * weight[n]
    BY WeightRec
  <2>3. PICK w \in Nat \ {0} : w = weight[n]
    BY WeightPos
  <2>4. PICK lo \in 0 .. w - 1 : lo = f[n]
    BY <2>3
  <2>5. PICK d \in 0 .. Base - 1 : d = s[at_ + (n + 1)]
    <3>1. n + 1 \in 1 .. WordLen
      OBVIOUS
    <3>2. s[at_ + (n + 1)] \in 0 .. Base - 1
      BY <3>1 DEF IsWord, Byte
    <3> QED BY <3>2
  <2>6. lo + d * w \in 0 .. Base * w - 1
    BY MoreByte
  <2> QED BY <2>1, <2>2, <2>3, <2>4, <2>5, <2>6
<1>3. \A n \in 0 .. WordLen : n \in S
  <2> HIDE DEF S
  <2> QED BY <1>1, <1>2, InductionUpTo
<1> QED BY <1>3

LEMMA U32AtType ==
  ASSUME NEW s, NEW at_ \in Int, IsWord(s, at_)
  PROVE  u32_at(s, at_) \in 0 .. weight[WordLen] - 1
<1>1. PICK f : SumsUp(f, s, at_) /\ u32_at(s, at_) = f[WordLen]
  BY WordRec
<1> QED BY <1>1, WordBelow, BytesConstants

\* What u32 writes is read back, if it fits.
LEMMA ReadBack ==
  ASSUME NEW v \in Nat, v < weight[WordLen], NEW s, NEW at_ \in Int,
         \A k \in 1 .. WordLen : s[at_ + k] = u32(v)[k]
  PROVE  u32_at(s, at_) = v
<1> USE BytesConstants
<1>1. IsWord(s, at_)
  BY U32Type DEF IsWord
<1>2. PICK f : SumsUp(f, s, at_) /\ u32_at(s, at_) = f[WordLen]
  BY <1>1, WordRec
<1> DEFINE S == {n \in 0 .. WordLen : f[n] = v % weight[n]}
<1>3. 0 \in S
  BY <1>2, WeightRec DEF SumsUp
<1>4. \A n \in 0 .. WordLen - 1 : n \in S => n + 1 \in S
  <2> SUFFICES ASSUME NEW n \in 0 .. WordLen - 1, n \in S PROVE n + 1 \in S
    OBVIOUS
  <2>1. f[n + 1] = f[n] + s[at_ + (n + 1)] * weight[n]
    BY <1>2 DEF SumsUp
  <2>2. s[at_ + (n + 1)] = (v \div weight[n]) % Base
    <3>1. n + 1 \in 1 .. WordLen /\ (n + 1) - 1 = n
      OBVIOUS
    <3>2. u32(v)[n + 1] = (v \div weight[(n + 1) - 1]) % Base
      BY <3>1 DEF u32
    <3>3. s[at_ + (n + 1)] = u32(v)[n + 1]
      BY <3>1
    <3> QED BY <3>1, <3>2, <3>3
  <2>3. weight[n + 1] = Base * weight[n]
    BY WeightRec
  <2>4. PICK w \in Nat \ {0} : w = weight[n]
    BY WeightPos
  <2>5. v % (Base * w) = (v % w) + ((v \div w) % Base) * w
    BY NextByte
  <2> QED BY <2>1, <2>2, <2>3, <2>4, <2>5
<1>5. \A n \in 0 .. WordLen : n \in S
  <2> HIDE DEF S
  <2> QED BY <1>3, <1>4, InductionUpTo
<1>6. f[WordLen] = v % weight[WordLen]
  BY <1>5
<1>7. PICK w \in Nat \ {0} : w = weight[WordLen]
  BY WeightPos
<1>8. v % w = v
  BY <1>7
<1> QED BY <1>2, <1>6, <1>7, <1>8

\* Two words that are equal have the same bytes.
LEMMA SameBytes ==
  ASSUME NEW s, NEW a \in Int, IsWord(s, a), NEW t, NEW b \in Int, IsWord(t, b),
         u32_at(s, a) = u32_at(t, b)
  PROVE  \A k \in 1 .. WordLen : s[a + k] = t[b + k]
<1> USE BytesConstants
<1>1. PICK f : SumsUp(f, s, a) /\ u32_at(s, a) = f[WordLen]
  BY WordRec
<1>2. PICK g : SumsUp(g, t, b) /\ u32_at(t, b) = g[WordLen]
  BY WordRec
<1>3. ASSUME NEW k \in 1 .. WordLen, f[k] = g[k]
      PROVE  s[a + k] = t[b + k] /\ f[k - 1] = g[k - 1]
  <2>1. f[k] = f[k - 1] + s[a + k] * weight[k - 1]
    BY <1>1 DEF SumsUp
  <2>2. g[k] = g[k - 1] + t[b + k] * weight[k - 1]
    BY <1>2 DEF SumsUp
  <2>3. PICK w \in Nat \ {0} : w = weight[k - 1]
    BY WeightPos
  <2>4. PICK i \in 0 .. w - 1 : i = f[k - 1]
    BY <1>1, <2>3, WordBelow
  <2>5. PICK j \in 0 .. w - 1 : j = g[k - 1]
    BY <1>2, <2>3, WordBelow
  <2>6. PICK p \in Int : p = s[a + k]
    BY DEF IsWord, Byte
  <2>7. PICK q \in Int : q = t[b + k]
    BY DEF IsWord, Byte
  <2>8. p * w + i = q * w + j
    <3>1. p * w \in Int /\ q * w \in Int
      OBVIOUS
    <3>2. i + p * w = j + q * w
      BY <1>3, <2>1, <2>2, <2>3, <2>4, <2>5, <2>6, <2>7
    <3> QED BY <3>1, <3>2
  <2>9. p = q /\ i = j
    BY <2>8, SameQuotient
  <2> QED BY <2>4, <2>5, <2>6, <2>7, <2>9
<1> DEFINE S == {n \in 0 .. WordLen : f[WordLen - n] = g[WordLen - n]}
<1>4. 0 \in S
  <2>1. f[WordLen] = g[WordLen]
    BY <1>1, <1>2, Zenon
  <2>2. WordLen - 0 = WordLen /\ 0 \in 0 .. WordLen
    OBVIOUS
  <2> QED BY <2>1, <2>2
<1>5. \A n \in 0 .. WordLen - 1 : n \in S => n + 1 \in S
  <2> SUFFICES ASSUME NEW n \in 0 .. WordLen - 1, n \in S PROVE n + 1 \in S
    OBVIOUS
  <2>1. WordLen - n \in 1 .. WordLen /\ WordLen - (n + 1) = (WordLen - n) - 1
    OBVIOUS
  <2> QED BY <2>1, <1>3
<1>6. \A n \in 0 .. WordLen : n \in S
  <2> HIDE DEF S
  <2> QED BY <1>4, <1>5, InductionUpTo
<1>7. ASSUME NEW k \in 1 .. WordLen PROVE f[k] = g[k]
  <2>1. WordLen - k \in 0 .. WordLen /\ WordLen - (WordLen - k) = k
    OBVIOUS
  <2> QED BY <2>1, <1>6
<1> QED BY <1>3, <1>7

\* The word that is read is written with the bytes it was read from.
LEMMA WriteBack ==
  ASSUME NEW s, NEW at_ \in Int, IsWord(s, at_)
  PROVE  \A k \in 1 .. WordLen : u32(u32_at(s, at_))[k] = s[at_ + k]
<1>1. PICK v \in Nat : v = u32_at(s, at_) /\ v < weight[WordLen]
  BY U32AtType, WeightPos, BytesConstants
<1>2. IsWord(u32(v), 0)
  BY U32Type, BytesConstants DEF IsWord
<1>3. \A k \in 1 .. WordLen : u32(v)[0 + k] = u32(v)[k]
  BY BytesConstants
<1>4. u32_at(u32(v), 0) = v
  BY <1>1, <1>3, ReadBack
<1>5. \A k \in 1 .. WordLen : u32(v)[0 + k] = s[at_ + k]
  BY <1>1, <1>2, <1>4, SameBytes
<1> QED BY <1>1, <1>3, <1>5

\* A word none of whose bytes is larger is not larger.
LEMMA SmallerWord ==
  ASSUME NEW s, NEW a \in Int, IsWord(s, a), NEW t, NEW b \in Int, IsWord(t, b),
         \A k \in 1 .. WordLen : s[a + k] <= t[b + k]
  PROVE  u32_at(s, a) <= u32_at(t, b)
<1> USE BytesConstants
<1>1. PICK f : SumsUp(f, s, a) /\ u32_at(s, a) = f[WordLen]
  BY WordRec
<1>2. PICK g : SumsUp(g, t, b) /\ u32_at(t, b) = g[WordLen]
  BY WordRec
<1> DEFINE S == {n \in 0 .. WordLen : f[n] <= g[n]}
<1>3. 0 \in S
  BY <1>1, <1>2 DEF SumsUp
<1>4. \A n \in 0 .. WordLen - 1 : n \in S => n + 1 \in S
  <2> SUFFICES ASSUME NEW n \in 0 .. WordLen - 1, n \in S PROVE n + 1 \in S
    OBVIOUS
  <2>1. f[n + 1] = f[n] + s[a + (n + 1)] * weight[n]
    BY <1>1 DEF SumsUp
  <2>2. g[n + 1] = g[n] + t[b + (n + 1)] * weight[n]
    BY <1>2 DEF SumsUp
  <2>3. PICK w \in Nat \ {0} : w = weight[n]
    BY WeightPos
  <2>4. PICK x \in Nat, y \in Nat : x = f[n] /\ y = g[n]
    BY <1>1, <1>2 DEF SumsUp
  <2>5. PICK p \in Nat, q \in Nat : p = s[a + (n + 1)] /\ q = t[b + (n + 1)]
    <3>1. n + 1 \in 1 .. WordLen
      BY BytesConstants
    <3>2. s[a + (n + 1)] \in Byte /\ t[b + (n + 1)] \in Byte
      BY <3>1, Zenon DEF IsWord
    <3>3. Byte \subseteq Nat
      BY DEF Byte
    <3> QED BY <3>2, <3>3, Zenon
  <2>6. p <= q /\ x <= y
    BY <2>4, <2>5
  <2>7. p * w <= q * w
    <3>1. (q - p) * w >= 0
      BY <2>6
    <3>2. (q - p) * w = q * w - p * w
      OBVIOUS
    <3>3. q * w \in Int /\ p * w \in Int
      OBVIOUS
    <3> QED BY <3>1, <3>2, <3>3
  <2>8. x + p * w <= y + q * w
    <3>1. q * w \in Int /\ p * w \in Int
      OBVIOUS
    <3> QED BY <2>6, <2>7, <3>1
  <2> QED BY <2>1, <2>2, <2>3, <2>4, <2>5, <2>8
<1>5. \A n \in 0 .. WordLen : n \in S
  <2> HIDE DEF S
  <2> QED BY <1>3, <1>4, InductionUpTo
<1> QED BY <1>1, <1>2, <1>5

-----------------------------------------------------------------------------
(* Strings of strings: what FlattenSeq joins, one string after the other. *)

\* Where the elements of two joined strings are.
LEMMA Concat ==
  ASSUME NEW A, NEW a \in Seq(A), NEW b \in Seq(A)
  PROVE  /\ a \o b \in Seq(A) /\ Len(a \o b) = Len(a) + Len(b)
         /\ Len(a) \in Nat /\ Len(b) \in Nat
         /\ \A j \in 1 .. Len(a) : (a \o b)[j] = a[j]
         /\ \A j \in 1 .. Len(b) : (a \o b)[Len(a) + j] = b[j]
<1>1. Len(a) \in Nat /\ Len(b) \in Nat
  BY LenProperties
<1>2. a \o b \in Seq(A) /\ Len(a \o b) = Len(a) + Len(b)
  BY ConcatProperties
<1>3. ASSUME NEW j \in 1 .. Len(a) PROVE (a \o b)[j] = a[j]
  BY <1>1, ConcatProperties
<1>4. ASSUME NEW j \in 1 .. Len(b) PROVE (a \o b)[Len(a) + j] = b[j]
  BY <1>1, ConcatProperties
<1> QED BY <1>1, <1>2, <1>3, <1>4

\* f[k] is the first k strings of s joined.
Joined(f, s, A) ==
  /\ f \in [0 .. Len(s) -> Seq(A)]
  /\ f[0] = << >>
  /\ \A k \in 1 .. Len(s) : f[k] = f[k - 1] \o s[k]

LEMMA JoinedExists ==
  ASSUME NEW A, NEW s \in Seq(Seq(A))
  PROVE  \E f : Joined(f, s, A)
<1>1. PICK N \in Nat : N = Len(s)
  BY LenProperties
<1>2. \A k \in 1 .. N : s[k] \in Seq(A)
  BY <1>1, ElementOfSeq
<1> DEFINE step == [k \in 1 .. N |-> [v \in Seq(A) |-> v \o s[k]]]
<1>3. IsStep(step, N, Seq(A))
  <2>1. \A k \in 1 .. N : \A v \in Seq(A) : v \o s[k] \in Seq(A)
    BY <1>2, ConcatProperties
  <2> QED BY <2>1 DEF IsStep
<1>4. << >> \in Seq(A)
  OBVIOUS
<1>5. PICK f : IsRecursion(f, N, Seq(A), << >>, step)
  <2> HIDE DEF step
  <2> QED BY <1>3, <1>4, RecursionExists, Zenon
<1>6. f \in [0 .. N -> Seq(A)] /\ f[0] = << >>
  <2> HIDE DEF step
  <2> QED BY <1>5 DEF IsRecursion
<1>7. ASSUME NEW k \in 1 .. N PROVE f[k] = f[k - 1] \o s[k]
  <2>1. f[k - 1] \in Seq(A)
    BY <1>6
  <2>2. step[k][f[k - 1]] = f[k - 1] \o s[k]
    BY <2>1
  <2> HIDE DEF step
  <2> QED BY <2>2, <1>5 DEF IsRecursion
<1>8. Joined(f, s, A)
  <2> HIDE DEF step
  <2> QED BY <1>1, <1>6, <1>7 DEF Joined
<1> QED BY <1>8, Zenon

\* Two sequences that begin with the same strings begin with the same bytes.
LEMMA JoinedSame ==
  ASSUME NEW A, NEW s \in Seq(Seq(A)), NEW t \in Seq(Seq(A)),
         NEW f, Joined(f, s, A), NEW g, Joined(g, t, A),
         NEW n \in Nat, n <= Len(s), n <= Len(t), \A k \in 1 .. n : s[k] = t[k]
  PROVE  \A k \in 0 .. n : f[k] = g[k]
<1> DEFINE S == {k \in 0 .. n : f[k] = g[k]}
<1>0. Len(s) \in Nat /\ Len(t) \in Nat
  BY LenProperties
<1>1. 0 \in S
  BY DEF Joined
<1>2. \A k \in 0 .. n - 1 : k \in S => k + 1 \in S
  <2> SUFFICES ASSUME NEW k \in 0 .. n - 1, k \in S PROVE k + 1 \in S
    OBVIOUS
  <2>1. k + 1 \in 1 .. Len(s) /\ k + 1 \in 1 .. Len(t) /\ (k + 1) - 1 = k /\ k + 1 \in 1 .. n
    BY <1>0
  <2>2. f[k + 1] = f[k] \o s[k + 1]
    BY <2>1 DEF Joined
  <2>3. g[k + 1] = g[k] \o t[k + 1]
    BY <2>1 DEF Joined
  <2>4. s[k + 1] = t[k + 1] /\ f[k] = g[k]
    BY <2>1
  <2>5. f[k + 1] = g[k + 1]
    BY <2>2, <2>3, <2>4, Zenon
  <2> QED BY <2>1, <2>5
<1>3. \A k \in 0 .. n : k \in S
  <2> HIDE DEF S
  <2> QED BY <1>1, <1>2, InductionUpTo
<1> QED BY <1>3

\* FlattenSeq joins all of them.
LEMMA FlattenJoins ==
  ASSUME NEW A, NEW s \in Seq(Seq(A)), NEW f, Joined(f, s, A)
  PROVE  FlattenSeq(s) = f[Len(s)]
<1>1. PICK N \in Nat : N = Len(s)
  BY LenProperties
<1>2. \A k \in 1 .. N : s[k] \in Seq(A)
  BY <1>1, ElementOfSeq
<1>3. /\ f \in [0 .. N -> Seq(A)] /\ f[0] = << >>
      /\ \A k \in 1 .. N : f[k] = f[k - 1] \o s[k]
  BY <1>1 DEF Joined
<1>4. CASE N = 0
  <2>1. s = << >>
    BY <1>1, <1>4, EmptySeq
  <2>2. FlattenSeq(s) = s
    BY <1>1, <1>4 DEF FlattenSeq
  <2> QED BY <1>1, <1>3, <1>4, <2>1, <2>2
<1>5. CASE N # 0
  <2> DEFINE Eqn(g) == g = [i \in 1 .. Len(s) |-> IF i = 1 THEN s[i] ELSE g[i - 1] \o s[i]]
  <2> DEFINE h == [i \in 1 .. N |-> f[i]]
  <2>1. f[1] = s[1]
    <3>1. 1 \in 1 .. N /\ 1 - 1 = 0
      BY <1>5
    <3>2. f[1] = << >> \o s[1]
      BY <1>3, <3>1
    <3> QED BY <1>2, <3>1, <3>2, ConcatEmptySeq
  <2>2. ASSUME NEW i \in 1 .. N
        PROVE  h[i] = IF i = 1 THEN s[i] ELSE h[i - 1] \o s[i]
    <3>1. CASE i = 1
      BY <2>1, <3>1
    <3>2. CASE i # 1
      <4>1. i - 1 \in 1 .. N
        BY <3>2
      <4>2. h[i] = f[i] /\ h[i - 1] = f[i - 1]
        BY <4>1
      <4>3. f[i] = f[i - 1] \o s[i]
        BY <1>3
      <4> HIDE DEF h
      <4> QED BY <3>2, <4>2, <4>3
    <3> QED BY <3>1, <3>2
  <2>3. Eqn(h)
    <3>1. h = [i \in 1 .. N |-> h[i]]
      OBVIOUS
    <3> HIDE DEF h
    <3> QED BY <1>1, <2>2, <3>1
  <2> DEFINE flatten == CHOOSE g : Eqn(g)
  <2>4. Eqn(flatten)
    <3> HIDE DEF h
    <3> QED BY <2>3, Zenon
  <2>5. FlattenSeq(s) = flatten[Len(s)]
    <3>1. Len(s) # 0
      BY <1>1, <1>5
    <3> QED BY <3>1 DEF FlattenSeq
  <2> HIDE DEF flatten
  <2>6. \A i \in 1 .. N : flatten[i] = IF i = 1 THEN s[i] ELSE flatten[i - 1] \o s[i]
    <3> DEFINE g == [i \in 1 .. Len(s) |-> IF i = 1 THEN s[i] ELSE flatten[i - 1] \o s[i]]
    <3>1. \A i \in 1 .. N : g[i] = IF i = 1 THEN s[i] ELSE flatten[i - 1] \o s[i]
      BY <1>1
    <3>2. flatten = g
      BY <2>4, Zenon
    <3> HIDE DEF g
    <3> QED BY <3>1, <3>2, Zenon
  <2> DEFINE S == {n \in 0 .. N - 1 : flatten[n + 1] = f[n + 1]}
  <2>7. 0 \in S
    <3>1. flatten[1] = s[1]
      BY <1>5, <2>6
    <3> QED BY <1>5, <2>1, <3>1
  <2>8. \A n \in 0 .. (N - 1) - 1 : n \in S => n + 1 \in S
    <3> SUFFICES ASSUME NEW n \in 0 .. (N - 1) - 1, n \in S PROVE n + 1 \in S
      OBVIOUS
    <3>1. n + 2 \in 1 .. N /\ n + 2 # 1 /\ (n + 2) - 1 = n + 1 /\ (n + 1) + 1 = n + 2
      OBVIOUS
    <3>2. flatten[n + 2] = flatten[n + 1] \o s[n + 2]
      BY <2>6, <3>1
    <3>3. f[n + 2] = f[n + 1] \o s[n + 2]
      BY <1>3, <3>1
    <3>4. flatten[n + 2] = f[n + 2]
      BY <3>2, <3>3
    <3> QED BY <3>1, <3>4
  <2>9. \A n \in 0 .. N - 1 : n \in S
    <3>1. N - 1 \in Nat
      BY <1>5
    <3> HIDE DEF S
    <3> QED BY <2>7, <2>8, <3>1, InductionUpTo
  <2>10. flatten[N] = f[N]
    <3>1. N - 1 \in 0 .. N - 1 /\ (N - 1) + 1 = N
      BY <1>5
    <3> QED BY <2>9, <3>1
  <2> QED BY <1>1, <2>5, <2>10
<1> QED BY <1>4, <1>5

LEMMA JoinedType ==
  ASSUME NEW A, NEW s \in Seq(Seq(A)), NEW f, Joined(f, s, A), NEW k \in 0 .. Len(s)
  PROVE  f[k] \in Seq(A) /\ Len(f[k]) \in Nat
<1>1. f[k] \in Seq(A)
  BY DEF Joined
<1> QED BY <1>1, LenProperties

LEMMA JoinedStep ==
  ASSUME NEW A, NEW s \in Seq(Seq(A)), NEW f, Joined(f, s, A), NEW k \in 1 .. Len(s)
  PROVE  f[k - 1] \in Seq(A) /\ s[k] \in Seq(A) /\ f[k] = f[k - 1] \o s[k]
<1>1. k - 1 \in 0 .. Len(s)
  BY LenProperties
<1>2. s[k] \in Seq(A)
  BY ElementOfSeq
<1> QED BY <1>1, <1>2 DEF Joined

LEMMA FlattenType ==
  ASSUME NEW A, NEW s \in Seq(Seq(A))
  PROVE  FlattenSeq(s) \in Seq(A)
<1>1. PICK f : Joined(f, s, A)
  BY JoinedExists
<1>2. Len(s) \in Nat
  BY LenProperties
<1>3. f[Len(s)] \in Seq(A)
  BY <1>1, <1>2, JoinedType
<1> QED BY <1>1, <1>3, FlattenJoins

\* The first k strings joined.
LEMMA FlattenPrefix ==
  ASSUME NEW A, NEW s \in Seq(Seq(A)), NEW f, Joined(f, s, A), NEW k \in 0 .. Len(s)
  PROVE  /\ SubSeq(s, 1, k) \in Seq(Seq(A)) /\ Len(SubSeq(s, 1, k)) = k
         /\ FlattenSeq(SubSeq(s, 1, k)) = f[k]
<1>1. Len(s) \in Nat /\ \A i \in 1 .. Len(s) : s[i] \in Seq(A)
  BY LenProperties, ElementOfSeq
<1>2. PICK t : t = SubSeq(s, 1, k)
  OBVIOUS
<1>3. t \in Seq(Seq(A)) /\ Len(t) = k /\ \A i \in 1 .. k : t[i] = s[i]
  <2>1. \A i \in 1 .. k : s[i] \in Seq(A)
    BY <1>1
  <2>2. /\ SubSeq(s, 1, k) \in Seq(Seq(A))
        /\ Len(SubSeq(s, 1, k)) = IF 1 <= k THEN k - 1 + 1 ELSE 0
        /\ \A i \in 1 .. k - 1 + 1 : SubSeq(s, 1, k)[i] = s[1 + i - 1]
    BY <2>1, SubSeqProperties
  <2> QED BY <1>2, <2>2
<1>4. PICK g : Joined(g, t, A)
  BY <1>3, JoinedExists
<1>5. FlattenSeq(t) = g[k]
  BY <1>3, <1>4, FlattenJoins
<1>6. f[k] = g[k]
  <2>1. \A i \in 0 .. k : f[i] = g[i]
    BY <1>1, <1>3, <1>4, JoinedSame
  <2> QED BY <2>1
<1> QED BY <1>2, <1>3, <1>5, <1>6

\* One more string.
LEMMA FlattenAppend ==
  ASSUME NEW A, NEW s \in Seq(Seq(A)), NEW x \in Seq(A)
  PROVE  FlattenSeq(Append(s, x)) = FlattenSeq(s) \o x
<1>1. Len(s) \in Nat
  BY LenProperties
<1>2. PICK t : t = Append(s, x)
  OBVIOUS
<1>3. t \in Seq(Seq(A)) /\ Len(t) = Len(s) + 1 /\ t[Len(s) + 1] = x
      /\ \A i \in 1 .. Len(s) : t[i] = s[i]
  BY <1>2, AppendProperties
<1>4. PICK f : Joined(f, s, A)
  BY JoinedExists
<1>5. PICK g : Joined(g, t, A)
  BY <1>3, JoinedExists
<1>6. FlattenSeq(s) = f[Len(s)]
  BY <1>4, FlattenJoins
<1>7. FlattenSeq(t) = g[Len(s) + 1]
  BY <1>3, <1>5, FlattenJoins
<1>8. f[Len(s)] = g[Len(s)]
  <2>1. \A i \in 1 .. Len(s) : s[i] = t[i]
    BY <1>3
  <2>2. Len(s) <= Len(s) /\ Len(s) <= Len(t) /\ t \in Seq(Seq(A))
    BY <1>1, <1>3
  <2>3. \A i \in 0 .. Len(s) : f[i] = g[i]
    BY <1>1, <1>4, <1>5, <2>1, <2>2, JoinedSame
  <2> QED BY <1>1, <2>3
<1>9. g[Len(s) + 1] = g[Len(s)] \o x
  <2>1. Len(s) + 1 \in 1 .. Len(t) /\ (Len(s) + 1) - 1 = Len(s)
    BY <1>1, <1>3
  <2>2. g[Len(s) + 1] = g[(Len(s) + 1) - 1] \o t[Len(s) + 1]
    BY <1>5, <2>1 DEF Joined
  <2> QED BY <1>3, <2>1, <2>2
<1> QED BY <1>2, <1>6, <1>7, <1>8, <1>9

\* What is joined stays in place when more is joined to it.
LEMMA JoinedKeeps ==
  ASSUME NEW A, NEW s \in Seq(Seq(A)), NEW f, Joined(f, s, A),
         NEW k \in 0 .. Len(s), NEW n \in k .. Len(s)
  PROVE  Len(f[k]) <= Len(f[n]) /\ \A j \in 1 .. Len(f[k]) : f[n][j] = f[k][j]
<1>0. Len(s) \in Nat
  BY LenProperties
<1> DEFINE Keeps(m) == /\ Len(f[k]) <= Len(f[k + m])
                       /\ \A j \in 1 .. Len(f[k]) : f[k + m][j] = f[k][j]
           S == {m \in 0 .. Len(s) - k : Keeps(m)}
<1>1. f[k] \in Seq(A) /\ Len(f[k]) \in Nat
  BY JoinedType
<1>2. 0 \in S
  <2>1. k + 0 = k
    OBVIOUS
  <2>2. Keeps(0)
    BY <1>1, <2>1
  <2> QED BY <1>0, <2>2
<1>3. \A m \in 0 .. (Len(s) - k) - 1 : m \in S => m + 1 \in S
  <2> SUFFICES ASSUME NEW m \in 0 .. (Len(s) - k) - 1, m \in S PROVE m + 1 \in S
    OBVIOUS
  <2>1. k + m \in 0 .. Len(s) /\ k + (m + 1) \in 1 .. Len(s) /\ k + (m + 1) - 1 = k + m
        /\ m + 1 \in 0 .. Len(s) - k
    BY <1>0
  <2>2. f[k + (m + 1)] = f[k + m] \o s[k + (m + 1)]
    <3>1. PICK i \in 1 .. Len(s) : i = k + (m + 1)
      BY <2>1
    <3>2. f[i] = f[i - 1] \o s[i]
      BY DEF Joined
    <3>3. i - 1 = k + m
      BY <2>1, <3>1
    <3> QED BY <3>1, <3>2, <3>3
  <2>3. PICK a \in Seq(A) : a = f[k + m]
    BY <2>1, JoinedType
  <2>4. PICK b \in Seq(A) : b = s[k + (m + 1)]
    BY <2>1, ElementOfSeq
  <2>5. Len(a \o b) = Len(a) + Len(b) /\ \A j \in 1 .. Len(a) : (a \o b)[j] = a[j]
    BY Concat
  <2>6. Len(a) \in Nat /\ Len(b) \in Nat
    BY LenProperties
  <2>7. Keeps(m)
    OBVIOUS
  <2>8. Len(f[k]) <= Len(a) /\ \A j \in 1 .. Len(f[k]) : a[j] = f[k][j]
    BY <2>3, <2>7
  <2>9. f[k + (m + 1)] = a \o b
    BY <2>2, <2>3, <2>4
  <2>10. Keeps(m + 1)
    BY <1>1, <2>5, <2>6, <2>8, <2>9
  <2> QED BY <2>1, <2>10
<1>4. \A m \in 0 .. Len(s) - k : m \in S
  <2>1. Len(s) - k \in Nat
    BY <1>0
  <2> HIDE DEF S
  <2> QED BY <1>2, <1>3, <2>1, InductionUpTo
<1>5. n - k \in 0 .. Len(s) - k /\ k + (n - k) = n
  BY <1>0
<1>6. Keeps(n - k)
  BY <1>4, <1>5
<1> QED BY <1>5, <1>6

\* Where string k is found.
LEMMA PieceAt ==
  ASSUME NEW A, NEW s \in Seq(Seq(A)), NEW f, Joined(f, s, A), NEW k \in 1 .. Len(s)
  PROVE  /\ s[k] \in Seq(A) /\ Len(s[k]) \in Nat
         /\ Len(f[k - 1]) \in Nat /\ Len(f[k]) = Len(f[k - 1]) + Len(s[k])
         /\ Len(f[k]) <= Len(FlattenSeq(s))
         /\ \A j \in 1 .. Len(s[k]) : FlattenSeq(s)[Len(f[k - 1]) + j] = s[k][j]
<1>0. Len(s) \in Nat
  BY LenProperties
<1>1. PICK a \in Seq(A) : a = f[k - 1]
  <2>1. k - 1 \in 0 .. Len(s)
    BY <1>0
  <2> QED BY <2>1, JoinedType
<1>2. PICK b \in Seq(A) : b = s[k]
  BY ElementOfSeq
<1>3. f[k] = a \o b
  BY <1>1, <1>2 DEF Joined
<1>4. Len(a) \in Nat /\ Len(b) \in Nat
  BY LenProperties
<1>5. Len(a \o b) = Len(a) + Len(b) /\ \A j \in 1 .. Len(b) : (a \o b)[Len(a) + j] = b[j]
  BY Concat
<1>6. Len(f[k]) <= Len(f[Len(s)]) /\ \A j \in 1 .. Len(f[k]) : f[Len(s)][j] = f[k][j]
  <2>1. k \in 0 .. Len(s) /\ Len(s) \in k .. Len(s)
    BY <1>0
  <2> QED BY <2>1, JoinedKeeps
<1>7. f[Len(s)] = FlattenSeq(s)
  BY FlattenJoins
<1>8. ASSUME NEW j \in 1 .. Len(b) PROVE FlattenSeq(s)[Len(a) + j] = b[j]
  <2>1. Len(a) + j \in 1 .. Len(a \o b)
    BY <1>4, <1>5
  <2> QED BY <1>3, <1>5, <1>6, <1>7, <2>1
<1> QED BY <1>1, <1>2, <1>3, <1>4, <1>5, <1>6, <1>7, <1>8

\* The string b begins with the string a.
Begins(a, b) == Len(a) <= Len(b) /\ \A j \in 1 .. Len(a) : b[j] = a[j]

LEMMA JoinedBegins ==
  ASSUME NEW A, NEW s \in Seq(Seq(A)), NEW f, Joined(f, s, A), NEW k \in 0 .. Len(s)
  PROVE  Begins(f[k], FlattenSeq(s))
<1>1. Len(s) \in k .. Len(s)
  BY LenProperties
<1>2. f[Len(s)] = FlattenSeq(s)
  BY FlattenJoins
<1> QED BY <1>1, <1>2, JoinedKeeps DEF Begins

\* Strings that are not empty join to a string that is at least as long as there
\* are strings.
LEMMA JoinedGrows ==
  ASSUME NEW A, NEW s \in Seq(Seq(A)), NEW f, Joined(f, s, A),
         \A k \in 1 .. Len(s) : Len(s[k]) >= 1
  PROVE  \A k \in 0 .. Len(s) : Len(f[Len(s)]) >= Len(f[k]) + (Len(s) - k)
<1>0. Len(s) \in Nat
  BY LenProperties
<1> DEFINE S == {m \in 0 .. Len(s) : Len(f[Len(s)]) >= Len(f[Len(s) - m]) + m}
<1>1. 0 \in S
  <2>1. Len(s) - 0 = Len(s) /\ Len(s) \in 0 .. Len(s) /\ 0 \in 0 .. Len(s)
    BY <1>0
  <2>2. Len(f[Len(s)]) \in Nat
    BY <2>1, JoinedType
  <2> QED BY <2>1, <2>2
<1>2. \A m \in 0 .. Len(s) - 1 : m \in S => m + 1 \in S
  <2> SUFFICES ASSUME NEW m \in 0 .. Len(s) - 1, m \in S PROVE m + 1 \in S
    OBVIOUS
  <2>1. PICK k \in 1 .. Len(s) : k = Len(s) - m
    BY <1>0
  <2>2. k - 1 = Len(s) - (m + 1) /\ m + 1 \in 0 .. Len(s) /\ Len(s) \in 0 .. Len(s)
    BY <1>0, <2>1
  <2>5. Len(f[Len(s)]) >= Len(f[k]) + m /\ m \in Nat
    BY <2>1
  <2> HIDE DEF S
  <2>3. Len(f[k]) = Len(f[k - 1]) + Len(s[k]) /\ Len(f[k - 1]) \in Nat /\ Len(s[k]) \in Nat
    <3>1. f[k - 1] \in Seq(A) /\ s[k] \in Seq(A) /\ f[k] = f[k - 1] \o s[k]
      BY JoinedStep
    <3> QED BY <3>1, Concat
  <2>4. Len(f[Len(s)]) \in Nat
    BY <2>2, JoinedType
  <2>6. Len(s[k]) >= 1
    OBVIOUS
  <2>7. Len(f[Len(s)]) >= Len(f[k - 1]) + (m + 1)
    <3>1. PICK x \in Nat, y \in Nat, z \in Nat :
            x = Len(f[k - 1]) /\ y = Len(s[k]) /\ z = Len(f[Len(s)])
      BY <2>3, <2>4
    <3>2. z >= (x + y) + m /\ y >= 1
      BY <2>3, <2>5, <2>6, <3>1
    <3>3. z >= x + (m + 1)
      BY <2>5, <3>2
    <3> QED BY <3>1, <3>3
  <2> QED BY <2>2, <2>7 DEF S
<1>3. \A m \in 0 .. Len(s) : m \in S
  <2> HIDE DEF S
  <2> QED BY <1>0, <1>1, <1>2, InductionUpTo
<1>4. ASSUME NEW k \in 0 .. Len(s)
      PROVE  Len(f[Len(s)]) >= Len(f[k]) + (Len(s) - k)
  <2>1. Len(s) - k \in 0 .. Len(s) /\ Len(s) - (Len(s) - k) = k
    BY <1>0
  <2> QED BY <1>3, <2>1
<1> QED BY <1>4

\* What a part of a string is.
LEMMA Part ==
  ASSUME NEW A, NEW s \in Seq(A), NEW a \in Nat, NEW n \in Nat, a + n <= Len(s)
  PROVE  /\ SubSeq(s, a + 1, a + n) \in Seq(A)
         /\ Len(SubSeq(s, a + 1, a + n)) = n
         /\ \A i \in 1 .. n : SubSeq(s, a + 1, a + n)[i] = s[a + i]
<1>1. Len(s) \in Nat /\ \A i \in 1 .. Len(s) : s[i] \in A
  BY LenProperties, ElementOfSeq
<1>2. \A i \in a + 1 .. a + n : s[i] \in A
  BY <1>1
<1>3. /\ SubSeq(s, a + 1, a + n) \in Seq(A)
      /\ Len(SubSeq(s, a + 1, a + n)) = IF a + 1 <= a + n THEN (a + n) - (a + 1) + 1 ELSE 0
      /\ \A i \in 1 .. (a + n) - (a + 1) + 1 : SubSeq(s, a + 1, a + n)[i] = s[(a + 1) + i - 1]
  BY <1>2, SubSeqProperties
<1>4. (a + n) - (a + 1) + 1 = n /\ \A i \in 1 .. n : (a + 1) + i - 1 = a + i
  OBVIOUS
<1> QED BY <1>3, <1>4

LEMMA Prefix ==
  ASSUME NEW A, NEW s \in Seq(A), NEW n \in 0 .. Len(s)
  PROVE  /\ SubSeq(s, 1, n) \in Seq(A) /\ Len(SubSeq(s, 1, n)) = n
         /\ \A i \in 1 .. n : SubSeq(s, 1, n)[i] = s[i]
<1>1. Len(s) \in Nat
  BY LenProperties
<1>2. n \in Nat /\ 0 + n <= Len(s) /\ 0 + 1 = 1 /\ 0 + n = n
  BY <1>1
<1>3. /\ SubSeq(s, 0 + 1, 0 + n) \in Seq(A) /\ Len(SubSeq(s, 0 + 1, 0 + n)) = n
      /\ \A i \in 1 .. n : SubSeq(s, 0 + 1, 0 + n)[i] = s[0 + i]
  BY <1>2, Part
<1>4. \A i \in 1 .. n : 0 + i = i
  OBVIOUS
<1> QED BY <1>2, <1>3, <1>4

\* The parts before and after m are the string up to n.
LEMMA PrefixSplit ==
  ASSUME NEW A, NEW s \in Seq(A), NEW m \in Nat, NEW n \in Nat, m + n <= Len(s)
  PROVE  SubSeq(s, 1, m + n) = SubSeq(s, 1, m) \o SubSeq(s, m + 1, m + n)
<1>0. Len(s) \in Nat
  BY LenProperties
<1>1. PICK a \in Seq(A) : a = SubSeq(s, 1, m) /\ Len(a) = m /\ \A i \in 1 .. m : a[i] = s[i]
  <2>1. m \in 0 .. Len(s)
    BY <1>0
  <2>2. /\ SubSeq(s, 1, m) \in Seq(A) /\ Len(SubSeq(s, 1, m)) = m
        /\ \A i \in 1 .. m : SubSeq(s, 1, m)[i] = s[i]
    BY <2>1, Prefix
  <2> QED BY <2>2
<1>2. PICK b \in Seq(A) : /\ b = SubSeq(s, m + 1, m + n) /\ Len(b) = n
                          /\ \A i \in 1 .. n : b[i] = s[m + i]
  <2>1. /\ SubSeq(s, m + 1, m + n) \in Seq(A) /\ Len(SubSeq(s, m + 1, m + n)) = n
        /\ \A i \in 1 .. n : SubSeq(s, m + 1, m + n)[i] = s[m + i]
    BY Part
  <2> QED BY <2>1
<1>3. PICK c \in Seq(A) : /\ c = SubSeq(s, 1, m + n) /\ Len(c) = m + n
                          /\ \A i \in 1 .. m + n : c[i] = s[i]
  <2>1. m + n \in 0 .. Len(s)
    BY <1>0
  <2>2. /\ SubSeq(s, 1, m + n) \in Seq(A) /\ Len(SubSeq(s, 1, m + n)) = m + n
        /\ \A i \in 1 .. m + n : SubSeq(s, 1, m + n)[i] = s[i]
    BY <2>1, Prefix
  <2> QED BY <2>2
<1>4. /\ a \o b \in Seq(A) /\ Len(a \o b) = Len(a) + Len(b)
      /\ \A j \in 1 .. Len(a) : (a \o b)[j] = a[j]
      /\ \A j \in 1 .. Len(b) : (a \o b)[Len(a) + j] = b[j]
  BY Concat
<1>5. ASSUME NEW i \in 1 .. m + n PROVE c[i] = (a \o b)[i]
  <2>0. i <= m \/ i > m
    OBVIOUS
  <2>1. CASE i <= m
    BY <1>1, <1>3, <1>4, <2>1
  <2>2. CASE i > m
    <3>1. i - m \in 1 .. n /\ m + (i - m) = i
      BY <2>2
    <3>2. (a \o b)[i] = b[i - m]
      BY <1>1, <1>2, <1>4, <3>1
    <3>3. b[i - m] = s[i]
      BY <1>2, <3>1
    <3> QED BY <1>3, <3>2, <3>3
  <2> QED BY <2>0, <2>1, <2>2, Zenon
<1>6. c = a \o b
  <2>1. Len(c) = Len(a \o b) /\ \A i \in 1 .. Len(c) : c[i] = (a \o b)[i]
    BY <1>1, <1>2, <1>3, <1>4, <1>5
  <2> QED BY <1>4, <2>1, SeqEqual
<1> QED BY <1>1, <1>2, <1>3, <1>6

-----------------------------------------------------------------------------
(* Requests: parse_req reads what send_request has written. *)

Commands == Seq(Seq(Byte))

\* The strings of a body: each argument after its length.
Pieces(c) == [i \in DOMAIN c |-> u32(Len(c[i])) \o c[i]]

LEMMA EncodeIs ==
  ASSUME NEW c
  PROVE  encode(c) = u32(Len(c)) \o FlattenSeq(Pieces(c))
BY DEF encode, Pieces

LEMMA PiecesType ==
  ASSUME NEW c \in Commands
  PROVE  /\ Pieces(c) \in Commands /\ Len(Pieces(c)) = Len(c) /\ Len(c) \in Nat
         /\ \A i \in 1 .. Len(c) :
              /\ c[i] \in Seq(Byte) /\ Len(c[i]) \in Nat
              /\ Pieces(c)[i] = u32(Len(c[i])) \o c[i]
              /\ Len(Pieces(c)[i]) = WordLen + Len(c[i])
<1>1. Len(c) \in Nat /\ DOMAIN c = 1 .. Len(c)
  BY LenProperties DEF Commands
<1>2. ASSUME NEW i \in 1 .. Len(c)
      PROVE  /\ c[i] \in Seq(Byte) /\ Len(c[i]) \in Nat
             /\ u32(Len(c[i])) \o c[i] \in Seq(Byte)
             /\ Len(u32(Len(c[i])) \o c[i]) = WordLen + Len(c[i])
  <2>1. PICK b \in Seq(Byte) : b = c[i]
    BY ElementOfSeq DEF Commands
  <2>2. Len(b) \in Nat
    BY LenProperties
  <2>3. PICK a \in Seq(Byte) : a = u32(Len(b)) /\ Len(a) = WordLen
    BY <2>2, U32Type
  <2>4. a \o b \in Seq(Byte) /\ Len(a \o b) = Len(a) + Len(b)
    BY Concat
  <2> QED BY <2>1, <2>2, <2>3, <2>4
<1>3. Pieces(c) \in [1 .. Len(c) -> Seq(Byte)]
  BY <1>1, <1>2 DEF Pieces
<1>4. Pieces(c) \in Commands /\ Len(Pieces(c)) = Len(c)
  BY <1>1, <1>3 DEF Commands
<1>5. \A i \in 1 .. Len(c) : Pieces(c)[i] = u32(Len(c[i])) \o c[i]
  BY <1>1 DEF Pieces
<1> QED BY <1>1, <1>2, <1>4, <1>5

LEMMA PiecesPrefix ==
  ASSUME NEW c \in Commands, NEW k \in 0 .. Len(c)
  PROVE  /\ SubSeq(c, 1, k) \in Commands /\ Len(SubSeq(c, 1, k)) = k
         /\ Pieces(SubSeq(c, 1, k)) = SubSeq(Pieces(c), 1, k)
<1>1. PICK d \in Commands : /\ d = SubSeq(c, 1, k) /\ Len(d) = k
                            /\ \A i \in 1 .. k : d[i] = c[i]
  <2>1. /\ SubSeq(c, 1, k) \in Commands /\ Len(SubSeq(c, 1, k)) = k
        /\ \A i \in 1 .. k : SubSeq(c, 1, k)[i] = c[i]
    BY Prefix DEF Commands
  <2> QED BY <2>1
<1>2. PICK p \in Commands : /\ p = Pieces(c) /\ Len(p) = Len(c)
                            /\ \A i \in 1 .. Len(c) : p[i] = u32(Len(c[i])) \o c[i]
  BY PiecesType
<1>3. PICK q \in Commands : /\ q = Pieces(d) /\ Len(q) = k
                            /\ \A i \in 1 .. k : q[i] = u32(Len(d[i])) \o d[i]
  <2>1. /\ Pieces(d) \in Commands /\ Len(Pieces(d)) = Len(d)
        /\ \A i \in 1 .. Len(d) : Pieces(d)[i] = u32(Len(d[i])) \o d[i]
    BY PiecesType
  <2> QED BY <1>1, <2>1
<1>4. PICK r \in Commands : /\ r = SubSeq(p, 1, k) /\ Len(r) = k
                            /\ \A i \in 1 .. k : r[i] = p[i]
  <2>1. k \in 0 .. Len(p)
    BY <1>2
  <2>2. /\ SubSeq(p, 1, k) \in Commands /\ Len(SubSeq(p, 1, k)) = k
        /\ \A i \in 1 .. k : SubSeq(p, 1, k)[i] = p[i]
    BY <2>1, Prefix DEF Commands
  <2> QED BY <2>2
<1>5. ASSUME NEW i \in 1 .. k PROVE q[i] = r[i]
  <2>1. i \in 1 .. Len(c)
    BY PiecesType
  <2> QED BY <1>1, <1>2, <1>3, <1>4, <2>1
<1>6. q = r
  BY <1>3, <1>4, <1>5, SeqEqual DEF Commands
<1> QED BY <1>1, <1>2, <1>3, <1>4, <1>6

LEMMA PiecesAppend ==
  ASSUME NEW c \in Commands, NEW x \in Seq(Byte)
  PROVE  /\ Append(c, x) \in Commands /\ Len(Append(c, x)) = Len(c) + 1
         /\ Pieces(Append(c, x)) = Append(Pieces(c), u32(Len(x)) \o x)
<1>1. PICK d \in Commands : /\ d = Append(c, x) /\ Len(d) = Len(c) + 1
                            /\ d[Len(c) + 1] = x /\ \A i \in 1 .. Len(c) : d[i] = c[i]
  <2>1. /\ Append(c, x) \in Commands /\ Len(Append(c, x)) = Len(c) + 1
        /\ Append(c, x)[Len(c) + 1] = x /\ \A i \in 1 .. Len(c) : Append(c, x)[i] = c[i]
    BY AppendProperties DEF Commands
  <2> QED BY <2>1
<1>2. PICK p \in Commands : /\ p = Pieces(c) /\ Len(p) = Len(c) /\ Len(c) \in Nat
                            /\ \A i \in 1 .. Len(c) : p[i] = u32(Len(c[i])) \o c[i]
  BY PiecesType
<1>3. PICK q \in Commands : /\ q = Pieces(d) /\ Len(q) = Len(d)
                            /\ \A i \in 1 .. Len(d) : q[i] = u32(Len(d[i])) \o d[i]
  BY <1>1, PiecesType
<1>4. PICK w \in Seq(Byte) : w = u32(Len(x)) \o x
  <2>1. Len(x) \in Nat
    BY LenProperties
  <2>2. u32(Len(x)) \in Seq(Byte)
    BY <2>1, U32Type
  <2> QED BY <2>2, ConcatProperties
<1>5. PICK r \in Commands : /\ r = Append(p, w) /\ Len(r) = Len(p) + 1
                            /\ r[Len(p) + 1] = w /\ \A i \in 1 .. Len(p) : r[i] = p[i]
  <2>1. /\ Append(p, w) \in Commands /\ Len(Append(p, w)) = Len(p) + 1
        /\ Append(p, w)[Len(p) + 1] = w /\ \A i \in 1 .. Len(p) : Append(p, w)[i] = p[i]
    BY AppendProperties DEF Commands
  <2> QED BY <2>1
<1>6. ASSUME NEW i \in 1 .. Len(c) + 1 PROVE q[i] = r[i]
  <2>1. CASE i = Len(c) + 1
    <3>1. q[i] = u32(Len(d[i])) \o d[i] /\ d[i] = x
      BY <1>1, <1>3, <2>1
    <3> QED BY <1>2, <1>4, <1>5, <2>1, <3>1
  <2>2. CASE i # Len(c) + 1
    <3>1. i \in 1 .. Len(c)
      BY <1>2, <2>2
    <3> QED BY <1>1, <1>2, <1>3, <1>5, <3>1
  <2> QED BY <2>1, <2>2
<1>7. q = r
  BY <1>1, <1>2, <1>3, <1>5, <1>6, SeqEqual DEF Commands
<1> QED BY <1>1, <1>2, <1>3, <1>4, <1>5, <1>7

\* The number of arguments is in the first word.
LEMMA EncodedCount ==
  ASSUME NEW c \in Commands, Len(encode(c)) < weight[WordLen]
  PROVE  /\ encode(c) \in Seq(Byte)
         /\ Len(encode(c)) = WordLen + Len(FlattenSeq(Pieces(c)))
         /\ Len(encode(c)) >= WordLen
         /\ u32_at(encode(c), 0) = Len(c)
<1>1. PICK p \in Commands :
        /\ p = Pieces(c) /\ Len(p) = Len(c) /\ Len(c) \in Nat
        /\ \A i \in 1 .. Len(c) : Len(p[i]) = WordLen + Len(c[i]) /\ Len(c[i]) \in Nat
  BY PiecesType
<1>2. PICK a \in Seq(Byte) : a = u32(Len(c)) /\ Len(a) = WordLen
  BY <1>1, U32Type
<1>3. PICK b \in Seq(Byte) : b = FlattenSeq(p)
  BY <1>1, FlattenType DEF Commands
<1>4. PICK e \in Seq(Byte) :
        /\ e = a \o b /\ Len(e) = Len(a) + Len(b)
        /\ Len(b) \in Nat /\ \A j \in 1 .. Len(a) : e[j] = a[j]
  <2>1. /\ a \o b \in Seq(Byte) /\ Len(a \o b) = Len(a) + Len(b)
        /\ Len(b) \in Nat /\ \A j \in 1 .. Len(a) : (a \o b)[j] = a[j]
    BY Concat
  <2> QED BY <2>1
<1>5. e = encode(c)
  BY <1>1, <1>2, <1>3, <1>4, EncodeIs
<1>6. Len(b) >= Len(c)
  <2>1. PICK f : Joined(f, p, Byte)
    BY JoinedExists DEF Commands
  <2>2. \A k \in 1 .. Len(p) : Len(p[k]) >= 1
    BY <1>1, BytesConstants
  <2>3. Len(f[Len(p)]) >= Len(f[0]) + (Len(p) - 0)
    <3>1. 0 \in 0 .. Len(p)
      BY <1>1
    <3> QED BY <2>1, <2>2, <3>1, JoinedGrows DEF Commands
  <2>4. f[Len(p)] = b
    BY <1>3, <2>1, FlattenJoins DEF Commands
  <2>5. Len(f[0]) = 0
    BY <2>1 DEF Joined
  <2> QED BY <1>1, <2>3, <2>4, <2>5
<1>7. Len(c) < weight[WordLen]
  BY <1>1, <1>2, <1>4, <1>5, <1>6, WeightPos, BytesConstants
<1>8. \A k \in 1 .. WordLen : e[0 + k] = u32(Len(c))[k]
  BY <1>2, <1>4, BytesConstants
<1>9. u32_at(e, 0) = Len(c)
  BY <1>1, <1>7, <1>8, ReadBack
<1> QED BY <1>1, <1>2, <1>3, <1>4, <1>5, <1>9, BytesConstants

\* Where parse_req is after the first i arguments.
Offset_(c, i) == WordLen + Len(FlattenSeq(Pieces(SubSeq(c, 1, i))))

\* What it finds there: the length of the next argument and its bytes.
LEMMA EncodedAt ==
  ASSUME NEW c \in Commands, Len(encode(c)) < weight[WordLen], NEW i \in 0 .. Len(c) - 1
  PROVE  LET from == Offset_(c, i)
             n == Len(c[i + 1])
         IN  /\ from \in Nat /\ n \in Nat
             /\ from + WordLen + n <= Len(encode(c))
             /\ u32_at(encode(c), from) = n
             /\ SubSeq(encode(c), from + WordLen + 1, from + WordLen + n) = c[i + 1]
<1>1. PICK p \in Commands : p = Pieces(c) /\ Len(p) = Len(c) /\ Len(c) \in Nat
  BY PiecesType
<1>2. PICK k \in 1 .. Len(c) : k = i + 1
  BY <1>1
<1>3. PICK x \in Seq(Byte) : x = c[k] /\ p[k] = u32(Len(x)) \o x /\ Len(x) \in Nat
  <2>1. /\ c[k] \in Seq(Byte) /\ Len(c[k]) \in Nat
        /\ Pieces(c)[k] = u32(Len(c[k])) \o c[k]
    BY PiecesType
  <2> QED BY <1>1, <2>1
<1>4. PICK f : Joined(f, p, Byte)
  BY JoinedExists DEF Commands
<1>5. FlattenSeq(Pieces(SubSeq(c, 1, i))) = f[i]
  <2>1. i \in 0 .. Len(c) /\ i \in 0 .. Len(p)
    BY <1>1
  <2>2. Pieces(SubSeq(c, 1, i)) = SubSeq(p, 1, i)
    BY <1>1, <2>1, PiecesPrefix
  <2>3. FlattenSeq(SubSeq(p, 1, i)) = f[i]
    BY <1>4, <2>1, FlattenPrefix DEF Commands
  <2> QED BY <2>2, <2>3
<1>6. PICK a \in Seq(Byte) : a = u32(Len(x)) /\ Len(a) = WordLen
  BY <1>3, U32Type
<1>7. PICK w \in Seq(Byte) : /\ w = a \o x /\ Len(w) = WordLen + Len(x)
                             /\ \A j \in 1 .. WordLen : w[j] = a[j]
                             /\ \A j \in 1 .. Len(x) : w[WordLen + j] = x[j]
  <2>1. /\ a \o x \in Seq(Byte) /\ Len(a \o x) = Len(a) + Len(x)
        /\ \A j \in 1 .. Len(a) : (a \o x)[j] = a[j]
        /\ \A j \in 1 .. Len(x) : (a \o x)[Len(a) + j] = x[j]
    BY Concat
  <2> QED BY <1>6, <2>1
<1>8. w = p[k]
  BY <1>3, <1>6, <1>7
<1>9. PICK b \in Seq(Byte) : b = FlattenSeq(p) /\ Len(b) \in Nat
  <2>1. FlattenSeq(p) \in Seq(Byte)
    BY FlattenType DEF Commands
  <2> QED BY <2>1, LenProperties
<1>10. PICK m \in Nat : m = Len(f[i])
  <2>1. i \in 0 .. Len(p)
    BY <1>1
  <2> QED BY <1>4, <2>1, JoinedType DEF Commands
<1>11. m + (WordLen + Len(x)) <= Len(b) /\ \A j \in 1 .. WordLen + Len(x) : b[m + j] = w[j]
  <2>1. p \in Seq(Seq(Byte)) /\ k \in 1 .. Len(p) /\ k - 1 = i
    BY <1>1, <1>2 DEF Commands
  <2>2. Len(f[k]) <= Len(FlattenSeq(p))
    BY <1>4, <2>1, PieceAt
  <2>3. \A j \in 1 .. Len(p[k]) : FlattenSeq(p)[Len(f[k - 1]) + j] = p[k][j]
    <3>1. PICK g \in Seq(Byte) : g = f[k - 1]
      BY <1>4, <2>1, JoinedStep
    <3>2. f[k] = g \o w
      BY <1>4, <1>8, <2>1, <3>1, JoinedStep
    <3>3. /\ Len(g \o w) = Len(g) + Len(w) /\ Len(g) \in Nat /\ Len(w) \in Nat
          /\ \A j \in 1 .. Len(w) : (g \o w)[Len(g) + j] = w[j]
      BY Concat
    <3>4. k \in 0 .. Len(p)
      BY <1>1, <2>1
    <3>5. Begins(f[k], FlattenSeq(p))
      BY <1>4, <2>1, <3>4, JoinedBegins
    <3>6. ASSUME NEW j \in 1 .. Len(w) PROVE FlattenSeq(p)[Len(g) + j] = w[j]
      <4>1. Len(g) + j \in 1 .. Len(g \o w)
        BY <3>3
      <4> QED BY <3>2, <3>3, <3>5, <4>1 DEF Begins
    <3> QED BY <1>8, <3>1, <3>6
  <2>4. Len(f[k]) = Len(f[k - 1]) + Len(p[k])
    <3>1. f[k - 1] \in Seq(Byte) /\ p[k] \in Seq(Byte) /\ f[k] = f[k - 1] \o p[k]
      BY <1>4, <2>1, JoinedStep
    <3> QED BY <3>1, Concat
  <2> QED BY <1>7, <1>8, <1>9, <1>10, <2>1, <2>2, <2>3, <2>4
<1>12. PICK e \in Seq(Byte) : /\ e = encode(c) /\ Len(e) = WordLen + Len(b)
                              /\ \A j \in 1 .. Len(b) : e[WordLen + j] = b[j]
  <2>1. PICK h \in Seq(Byte) : h = u32(Len(c)) /\ Len(h) = WordLen
    BY <1>1, U32Type
  <2>2. /\ h \o b \in Seq(Byte) /\ Len(h \o b) = Len(h) + Len(b)
        /\ \A j \in 1 .. Len(b) : (h \o b)[Len(h) + j] = b[j]
    BY Concat
  <2>3. h \o b = encode(c)
    BY <1>1, <1>9, <2>1, EncodeIs
  <2> QED BY <2>1, <2>2, <2>3
<1>13. \A j \in 1 .. WordLen + Len(x) : e[(WordLen + m) + j] = w[j]
  <2> SUFFICES ASSUME NEW j \in 1 .. WordLen + Len(x) PROVE e[(WordLen + m) + j] = w[j]
    OBVIOUS
  <2>1. m + j \in 1 .. Len(b) /\ (WordLen + m) + j = WordLen + (m + j)
    BY <1>3, <1>9, <1>11, BytesConstants
  <2> QED BY <1>11, <1>12, <2>1
<1>14. Len(x) < weight[WordLen]
  BY <1>3, <1>9, <1>11, <1>12, WeightPos, BytesConstants
<1>15. u32_at(e, WordLen + m) = Len(x)
  <2>1. ASSUME NEW j \in 1 .. WordLen PROVE e[(WordLen + m) + j] = u32(Len(x))[j]
    <3>1. j \in 1 .. WordLen + Len(x)
      BY <1>3, BytesConstants
    <3>2. w[j] = a[j]
      BY <1>7
    <3> QED BY <1>6, <1>13, <3>1, <3>2
  <2>2. WordLen + m \in Int
    BY BytesConstants
  <2> QED BY <1>3, <1>14, <2>1, <2>2, ReadBack
<1>16. (WordLen + m) + WordLen + Len(x) <= Len(e)
  <2>1. m + (WordLen + Len(x)) <= Len(b) /\ Len(e) = WordLen + Len(b)
    BY <1>11, <1>12
  <2>2. Len(x) \in Nat /\ Len(b) \in Nat
    BY <1>3, <1>9
  <2> QED BY <2>1, <2>2, BytesConstants
<1>17. SubSeq(e, (WordLen + m) + WordLen + 1, (WordLen + m) + WordLen + Len(x)) = x
  <2>1. PICK o \in Nat : o = (WordLen + m) + WordLen
    BY BytesConstants
  <2>2. PICK t \in Seq(Byte) : /\ t = SubSeq(e, o + 1, o + Len(x)) /\ Len(t) = Len(x)
                               /\ \A j \in 1 .. Len(x) : t[j] = e[o + j]
    <3>1. PICK n \in Nat : n = Len(x)
      BY <1>3
    <3>2. o + n <= Len(e)
      BY <1>16, <2>1, <3>1
    <3>3. /\ SubSeq(e, o + 1, o + n) \in Seq(Byte) /\ Len(SubSeq(e, o + 1, o + n)) = n
          /\ \A j \in 1 .. n : SubSeq(e, o + 1, o + n)[j] = e[o + j]
      BY <3>2, Part
    <3> QED BY <3>1, <3>3
  <2>3. ASSUME NEW j \in 1 .. Len(x) PROVE t[j] = x[j]
    <3>1. WordLen + j \in 1 .. WordLen + Len(x) /\ o + j = (WordLen + m) + (WordLen + j)
      BY <1>3, <2>1, BytesConstants
    <3> QED BY <1>7, <1>13, <2>2, <3>1
  <2>4. t = x
    BY <2>2, <2>3, SeqEqual
  <2> QED BY <2>1, <2>2, <2>4
<1>18. Offset_(c, i) = WordLen + m
  BY <1>5, <1>10 DEF Offset_
<1>19. WordLen + m \in Nat
  BY BytesConstants
<1> QED BY <1>2, <1>3, <1>12, <1>15, <1>16, <1>17, <1>18, <1>19

-----------------------------------------------------------------------------
(* parse_req *)

LEMMA WordInside ==
  ASSUME NEW b \in Seq(Byte), NEW o \in Nat, o + WordLen <= Len(b)
  PROVE  IsWord(b, o) /\ u32_at(b, o) \in Nat
<1>1. ASSUME NEW k \in 1 .. WordLen PROVE b[o + k] \in Byte
  <2>1. o + k \in 1 .. Len(b)
    BY BytesConstants, LenProperties
  <2> QED BY <2>1, ElementOfSeq
<1>2. IsWord(b, o)
  BY <1>1 DEF IsWord
<1>3. u32_at(b, o) \in 0 .. weight[WordLen] - 1
  BY <1>2, U32AtType
<1>4. weight[WordLen] \in Nat \ {0}
  BY WeightPos, BytesConstants
<1> QED BY <1>2, <1>3, <1>4

\* What one call of read_u32 and one of read_str go through is the piece that
\* send_request writes for the string.
LEMMA ReadPiece ==
  ASSUME NEW b \in Seq(Byte), NEW o \in Nat, o + WordLen <= Len(b),
         o + (WordLen + u32_at(b, o)) <= Len(b)
  PROVE  LET n == u32_at(b, o)
             x == SubSeq(b, o + WordLen + 1, o + WordLen + n)
         IN  /\ n \in Nat /\ x \in Seq(Byte) /\ Len(x) = n
             /\ SubSeq(b, 1, o + WordLen + n) = SubSeq(b, 1, o) \o (u32(n) \o x)
<1>1. PICK n \in Nat : n = u32_at(b, o)
  BY WordInside
<1>2. PICK q \in Nat : q = o + WordLen
  BY BytesConstants
<1>3. PICK m \in Nat : m = WordLen + n
  BY BytesConstants
<1>4. q + n <= Len(b) /\ q + n = o + m /\ o + m <= Len(b)
  BY <1>1, <1>2, <1>3, BytesConstants
<1>5. PICK x \in Seq(Byte) : /\ x = SubSeq(b, q + 1, q + n) /\ Len(x) = n
                             /\ \A j \in 1 .. n : x[j] = b[q + j]
  <2>1. /\ SubSeq(b, q + 1, q + n) \in Seq(Byte)
        /\ Len(SubSeq(b, q + 1, q + n)) = n
        /\ \A j \in 1 .. n : SubSeq(b, q + 1, q + n)[j] = b[q + j]
    BY <1>4, Part
  <2> QED BY <2>1
<1>6. PICK y \in Seq(Byte) : /\ y = SubSeq(b, o + 1, o + m) /\ Len(y) = m
                             /\ \A j \in 1 .. m : y[j] = b[o + j]
  <2>1. /\ SubSeq(b, o + 1, o + m) \in Seq(Byte)
        /\ Len(SubSeq(b, o + 1, o + m)) = m
        /\ \A j \in 1 .. m : SubSeq(b, o + 1, o + m)[j] = b[o + j]
    BY <1>4, Part
  <2> QED BY <2>1
<1>7. PICK a \in Seq(Byte) : a = u32(n) /\ Len(a) = WordLen
  BY <1>1, U32Type
<1>8. /\ a \o x \in Seq(Byte) /\ Len(a \o x) = Len(a) + Len(x)
      /\ \A j \in 1 .. Len(a) : (a \o x)[j] = a[j]
      /\ \A j \in 1 .. Len(x) : (a \o x)[Len(a) + j] = x[j]
  BY Concat
<1>9. \A k \in 1 .. WordLen : a[k] = b[o + k]
  BY <1>1, <1>7, WordInside, WriteBack
<1>10. y = a \o x
  <2>1. ASSUME NEW j \in 1 .. m PROVE y[j] = (a \o x)[j]
    <3>1. CASE j \in 1 .. WordLen
      BY <1>6, <1>7, <1>8, <1>9, <3>1
    <3>2. CASE j \notin 1 .. WordLen
      <4>1. PICK i \in 1 .. n : j = WordLen + i
        <5>1. j - WordLen \in 1 .. n /\ j = WordLen + (j - WordLen)
          BY <1>3, <3>2, BytesConstants
        <5> QED BY <5>1
      <4>2. o + j = q + i
        BY <1>2, <4>1, BytesConstants
      <4>3. y[j] = b[o + j]
        BY <1>6
      <4>4. (a \o x)[WordLen + i] = x[i]
        BY <1>5, <1>7, <1>8
      <4> QED BY <1>5, <4>1, <4>2, <4>3, <4>4
    <3> QED BY <3>1, <3>2
  <2>2. Len(y) = Len(a \o x)
    BY <1>3, <1>5, <1>6, <1>7, <1>8
  <2> QED BY <1>6, <1>8, <2>1, <2>2, SeqEqual
<1>11. SubSeq(b, 1, o + m) = SubSeq(b, 1, o) \o SubSeq(b, o + 1, o + m)
  BY <1>4, PrefixSplit
<1>12. SubSeq(b, 1, q + n) = SubSeq(b, 1, o) \o (u32(n) \o x)
  BY <1>4, <1>6, <1>7, <1>10, <1>11
<1> QED BY <1>1, <1>2, <1>5, <1>12

LEMMA NoPieces == << >> \in Commands /\ Len(<< >>) = 0 /\ FlattenSeq(Pieces(<< >>)) = << >>
<1>1. << >> \in Seq(Seq(Byte)) /\ Len(<< >>) = 0
  OBVIOUS
<1>2. PICK f : Joined(f, << >>, Byte)
  BY <1>1, JoinedExists
<1>3. Pieces(<< >>) = << >>
  BY DEF Pieces
<1>4. f[Len(<< >>)] = << >>
  BY <1>1, <1>2 DEF Joined
<1>5. FlattenSeq(<< >>) = f[Len(<< >>)]
  BY <1>1, <1>2, FlattenJoins
<1> QED BY <1>1, <1>3, <1>4, <1>5 DEF Commands

\* The number of strings is read back as it is written.
LEMMA ReadCount ==
  ASSUME NEW b \in Seq(Byte), WordLen <= Len(b)
  PROVE  LET n == u32_at(b, 0)
         IN  /\ n \in Nat
             /\ SubSeq(b, 1, WordLen) = u32(n) \o FlattenSeq(Pieces(<< >>))
<1>1. IsWord(b, 0) /\ u32_at(b, 0) \in Nat
  <2>1. 0 \in Nat /\ 0 + WordLen <= Len(b)
    BY BytesConstants
  <2> QED BY <2>1, WordInside
<1>2. PICK n \in Nat : n = u32_at(b, 0)
  BY <1>1
<1>3. PICK a \in Seq(Byte) : a = u32(n) /\ Len(a) = WordLen
  BY <1>2, U32Type
<1>4. /\ SubSeq(b, 1, WordLen) \in Seq(Byte) /\ Len(SubSeq(b, 1, WordLen)) = WordLen
      /\ \A j \in 1 .. WordLen : SubSeq(b, 1, WordLen)[j] = b[j]
  <2>1. WordLen \in 0 .. Len(b)
    BY BytesConstants, LenProperties
  <2> QED BY <2>1, Prefix
<1>5. \A j \in 1 .. WordLen : a[j] = b[0 + j]
  BY <1>1, <1>2, <1>3, WriteBack
<1>6. SubSeq(b, 1, WordLen) = a
  <2>1. \A j \in 1 .. WordLen : SubSeq(b, 1, WordLen)[j] = a[j]
    BY <1>4, <1>5, BytesConstants
  <2> QED BY <1>3, <1>4, <2>1, SeqEqual
<1>7. a \o << >> = a
  OBVIOUS
<1> QED BY <1>2, <1>3, <1>6, <1>7, NoPieces

\* The state of parse_req.
ParseType ==
  /\ body \in Seq(Byte) /\ Len(body) < weight[WordLen]
  /\ cur \in 0 .. Len(body)
  /\ out \in Commands
  /\ parsed \in {"none", "ok", "error"}

\* What has been read is how the strings read so far are written.
ReadSoFar ==
  /\ nstr = -1 => out = << >> /\ cur = 0 /\ parsed # "ok"
  /\ nstr # -1 =>
       /\ nstr \in Nat /\ Len(out) <= nstr
       /\ SubSeq(body, 1, cur) = u32(nstr) \o FlattenSeq(Pieces(out))
       /\ parsed # "error" => nstr <= k_max_args
  /\ parsed = "ok" => Len(out) = nstr /\ cur = Len(body)

\* When the body is that of a command, its arguments are read one after the
\* other, and nothing but their number is a reason to reject it.
ReadsSent ==
  \A c \in Commands : body = encode(c) =>
    /\ nstr # -1 => nstr = Len(c) /\ out = SubSeq(c, 1, Len(out))
    /\ parsed = "error" => Len(c) > k_max_args

ParseInv == ParseType /\ ReadSoFar /\ ReadsSent

LEMMA ParseCount ==
  ASSUME ParseInv, parse_count
  PROVE  ParseInv'
<1> USE DEF ParseInv
<1>1. /\ nstr = -1 /\ cur = 0 /\ out = << >> /\ parsed = "none"
      /\ body' = body /\ out' = out /\ body \in Seq(Byte) /\ Len(body) \in Nat
  BY LenProperties DEF ParseType, ReadSoFar, parse_count
<1>2. CASE WordLen <= Len(body)
  <2>1. PICK n \in Nat : /\ n = u32_at(body, 0) /\ nstr' = n
                         /\ SubSeq(body, 1, WordLen) = u32(n) \o FlattenSeq(Pieces(<< >>))
    <3>1. /\ u32_at(body, 0) \in Nat
          /\ SubSeq(body, 1, WordLen) = u32(u32_at(body, 0)) \o FlattenSeq(Pieces(<< >>))
      BY <1>1, <1>2, ReadCount
    <3>2. nstr' = u32_at(body, 0)
      BY <1>1, <1>2, BytesConstants DEF parse_count, available
    <3> QED BY <3>1, <3>2
  <2>2. /\ cur' = WordLen /\ n # -1
        /\ parsed' = IF n > k_max_args THEN "error" ELSE "none"
    BY <1>1, <1>2, <2>1, BytesConstants DEF parse_count, available, too_many
  <2>3. ParseType'
    BY <1>1, <1>2, <2>2, BytesConstants DEF ParseType
  <2>4. ReadSoFar'
    <3>1. Len(out') <= nstr' /\ nstr' \in Nat /\ nstr' # -1
      BY <1>1, <2>1, <2>2, NoPieces
    <3>2. SubSeq(body', 1, cur') = u32(nstr') \o FlattenSeq(Pieces(out'))
      BY <1>1, <2>1, <2>2
    <3>3. parsed' # "error" => nstr' <= k_max_args
      BY <2>1, <2>2, RequestConstants
    <3>4. parsed' # "ok"
      BY <2>2
    <3> QED BY <3>1, <3>2, <3>3, <3>4 DEF ReadSoFar
  <2>5. ASSUME NEW c \in Commands, body' = encode(c)
        PROVE  /\ nstr' # -1 => nstr' = Len(c) /\ out' = SubSeq(c, 1, Len(out'))
               /\ parsed' = "error" => Len(c) > k_max_args
    <3>1. n = Len(c)
      BY <1>1, <2>1, <2>5, EncodedCount DEF ParseType
    <3>2. SubSeq(c, 1, 0) = << >>
      BY DEF Commands
    <3> QED BY <1>1, <2>1, <2>2, <3>1, <3>2, NoPieces
  <2> QED BY <2>3, <2>4, <2>5 DEF ReadsSent
<1>3. CASE ~(WordLen <= Len(body))
  <2>1. parsed' = "error" /\ nstr' = nstr /\ cur' = cur
    BY <1>1, <1>3, BytesConstants DEF parse_count, available
  <2>2. ASSUME NEW c \in Commands, body' = encode(c) PROVE FALSE
    BY <1>1, <1>3, <2>2, EncodedCount, BytesConstants DEF ParseType
  <2> QED BY <1>1, <2>1, <2>2 DEF ParseType, ReadSoFar, ReadsSent
<1> QED BY <1>2, <1>3

LEMMA ParseEnd ==
  ASSUME ParseInv, parse_end
  PROVE  ParseInv'
<1> USE DEF ParseInv
<1>1. /\ parsed = "none" /\ nstr >= 0 /\ Len(out) = nstr /\ nstr # -1
      /\ body' = body /\ cur' = cur /\ nstr' = nstr /\ out' = out
      /\ parsed' = IF cur = Len(body) THEN "ok" ELSE "error"
  BY DEF parse_end, at_end, ReadSoFar
<1>2. ASSUME NEW c \in Commands, body' = encode(c), parsed' = "error" PROVE FALSE
  <2>1. nstr = Len(c) /\ out = SubSeq(c, 1, Len(out))
    BY <1>1, <1>2 DEF ReadsSent
  <2>2. out = c
    BY <1>1, <2>1 DEF Commands
  <2>3. SubSeq(body, 1, cur) = body
    BY <1>1, <1>2, <2>1, <2>2, EncodeIs DEF ReadSoFar
  <2>4. Len(SubSeq(body, 1, cur)) = cur
    BY Prefix DEF ParseType
  <2> QED BY <1>1, <1>2, <2>3, <2>4
<1>3. ParseType' /\ ReadSoFar'
  BY <1>1 DEF ParseType, ReadSoFar
<1>4. ReadsSent'
  BY <1>1, <1>2 DEF ReadsSent
<1> QED BY <1>3, <1>4

\* After what is written of a command's first arguments stands the next one.
LEMMA SentNext ==
  ASSUME ParseInv, NEW c \in Commands, body = encode(c), nstr # -1, Len(out) < nstr
  PROVE  LET i == Len(out)
             n == u32_at(body, cur)
         IN  /\ i \in 0 .. Len(c) - 1 /\ cur = Offset_(c, i)
             /\ n = Len(c[i + 1]) /\ n \in Nat
             /\ cur + WordLen + n <= Len(body)
             /\ SubSeq(body, cur + WordLen + 1, cur + WordLen + n) = c[i + 1]
<1> USE DEF ParseInv
<1>1. nstr = Len(c) /\ out = SubSeq(c, 1, Len(out))
  BY DEF ReadsSent
<1>2. PICK i \in Nat : i = Len(out)
  BY LenProperties DEF ParseType, Commands
<1>3. i \in 0 .. Len(c) - 1
  BY <1>1, <1>2, LenProperties DEF Commands
<1>4. PICK f \in Seq(Byte) : f = FlattenSeq(Pieces(out))
  <2>1. Pieces(out) \in Commands
    BY PiecesType DEF ParseType
  <2> QED BY <2>1, FlattenType DEF Commands
<1>5. PICK h \in Seq(Byte) : h = u32(nstr) /\ Len(h) = WordLen
  BY U32Type DEF ReadSoFar
<1>6. SubSeq(body, 1, cur) = h \o f /\ Len(h \o f) = Len(h) + Len(f)
  BY <1>4, <1>5, Concat DEF ReadSoFar
<1>7. Len(SubSeq(body, 1, cur)) = cur
  BY Prefix DEF ParseType
<1>8. cur = Offset_(c, i)
  BY <1>1, <1>2, <1>4, <1>5, <1>6, <1>7 DEF Offset_
<1>9. Len(encode(c)) < weight[WordLen]
  BY DEF ParseType
<1>10. LET n == Len(c[i + 1])
       IN  /\ n \in Nat /\ cur + WordLen + n <= Len(encode(c))
           /\ u32_at(encode(c), cur) = n
           /\ SubSeq(encode(c), cur + WordLen + 1, cur + WordLen + n) = c[i + 1]
  BY <1>3, <1>8, <1>9, EncodedAt
<1> QED BY <1>2, <1>3, <1>8, <1>10

LEMMA ParseStr ==
  ASSUME ParseInv, parse_str
  PROVE  ParseInv'
<1> USE DEF ParseInv
<1>1. /\ parsed = "none" /\ Len(out) < nstr /\ body' = body /\ nstr' = nstr
      /\ body \in Seq(Byte) /\ cur \in Nat /\ Len(body) \in Nat
      /\ out \in Commands /\ Len(out) \in Nat /\ nstr # -1
  <2>1. Len(out) \in Nat /\ Len(body) \in Nat
    BY LenProperties DEF ParseType, Commands
  <2>2. parsed = "none" /\ Len(out) < nstr /\ body' = body /\ nstr' = nstr
    BY DEF parse_str
  <2>3. body \in Seq(Byte) /\ cur \in Nat /\ out \in Commands
    BY DEF ParseType
  <2>4. nstr # -1
    BY <2>1, <2>2
  <2> QED BY <2>1, <2>2, <2>3, <2>4
<1>2. CASE cur + WordLen <= Len(body) /\ cur + (WordLen + u32_at(body, cur)) <= Len(body)
  <2>1. PICK n \in Nat : n = u32_at(body, cur)
    BY <1>1, <1>2, WordInside
  <2>2. PICK x \in Seq(Byte) :
          /\ x = SubSeq(body, cur + WordLen + 1, cur + WordLen + n) /\ Len(x) = n
          /\ SubSeq(body, 1, cur + WordLen + n) = SubSeq(body, 1, cur) \o (u32(n) \o x)
    <3>1. LET k == u32_at(body, cur)
              y == SubSeq(body, cur + WordLen + 1, cur + WordLen + k)
          IN  /\ y \in Seq(Byte) /\ Len(y) = k
              /\ SubSeq(body, 1, cur + WordLen + k) = SubSeq(body, 1, cur) \o (u32(k) \o y)
      BY <1>1, <1>2, ReadPiece
    <3> QED BY <2>1, <3>1
  <2>3. /\ out' = Append(out, x) /\ cur' = cur + WordLen + n /\ parsed' = parsed
    BY <1>2, <2>1, <2>2 DEF parse_str, available
  <2>4. /\ Append(out, x) \in Commands /\ Len(Append(out, x)) = Len(out) + 1
        /\ Pieces(Append(out, x)) = Append(Pieces(out), u32(n) \o x)
    BY <1>1, <2>2, PiecesAppend
  <2>5. ParseType'
    <3>1. cur' \in 0 .. Len(body)
      BY <1>1, <1>2, <2>1, <2>3, BytesConstants
    <3> QED BY <1>1, <2>3, <2>4, <3>1 DEF ParseType
  <2>6. SubSeq(body, 1, cur') = u32(nstr) \o FlattenSeq(Pieces(out'))
    <3>1. PICK h \in Seq(Byte) : h = u32(nstr)
      BY <1>1, U32Type DEF ReadSoFar
    <3>2. PICK y \in Seq(Byte) : y = u32(n) \o x
      <4>1. u32(n) \in Seq(Byte)
        BY U32Type
      <4> QED BY <4>1, Concat
    <3>3. Pieces(out) \in Seq(Seq(Byte))
      BY <1>1, PiecesType DEF Commands
    <3>4. PICK f \in Seq(Byte) : f = FlattenSeq(Pieces(out))
      BY <3>3, FlattenType
    <3>5. FlattenSeq(Pieces(out')) = f \o y
      BY <2>3, <2>4, <3>2, <3>3, <3>4, FlattenAppend
    <3>6. SubSeq(body, 1, cur) = h \o f
      BY <1>1, <3>1, <3>4 DEF ReadSoFar
    <3>7. (h \o f) \o y = h \o (f \o y)
      OBVIOUS
    <3> QED BY <2>2, <2>3, <3>1, <3>2, <3>5, <3>6, <3>7
  <2>7. ReadSoFar'
    <3>1. Len(out') <= nstr'
      BY <1>1, <2>3, <2>4 DEF ReadSoFar
    <3>2. parsed' = "none" /\ nstr' # -1
      BY <1>1, <2>3
    <3>3. nstr' \in Nat /\ nstr' <= k_max_args
      BY <1>1 DEF ReadSoFar
    <3> QED BY <1>1, <2>6, <3>1, <3>2, <3>3 DEF ReadSoFar
  <2>8. ASSUME NEW c \in Commands, body' = encode(c)
        PROVE  nstr' = Len(c) /\ out' = SubSeq(c, 1, Len(out'))
    <3>1. PICK i \in Nat : i = Len(out)
      BY <1>1
    <3>2. /\ i \in 0 .. Len(c) - 1 /\ n = Len(c[i + 1])
          /\ SubSeq(body, cur + WordLen + 1, cur + WordLen + n) = c[i + 1]
      BY <1>1, <2>1, <2>8, <3>1, SentNext
    <3>3. nstr = Len(c) /\ out = SubSeq(c, 1, i)
      BY <1>1, <2>8, <3>1 DEF ReadsSent
    <3>4. Append(SubSeq(c, 1, i), c[i + 1]) = SubSeq(c, 1, i + 1)
      BY <3>2 DEF Commands
    <3> QED BY <1>1, <2>2, <2>3, <2>4, <3>1, <3>2, <3>3, <3>4
  <2>9. parsed' # "error"
    BY <1>1, <2>3
  <2> QED BY <2>5, <2>7, <2>8, <2>9 DEF ReadsSent
<1>3. CASE ~(cur + WordLen <= Len(body) /\ cur + (WordLen + u32_at(body, cur)) <= Len(body))
  <2>1. parsed' = "error" /\ out' = out /\ cur' = cur
    BY <1>3 DEF parse_str, available
  <2>2. ParseType' /\ ReadSoFar'
    BY <1>1, <2>1 DEF ParseType, ReadSoFar
  <2>3. ASSUME NEW c \in Commands, body' = encode(c) PROVE FALSE
    <3>1. /\ u32_at(body, cur) \in Nat
          /\ cur + WordLen + u32_at(body, cur) <= Len(body)
      BY <1>1, <2>3, SentNext
    <3>2. PICK n \in Nat : n = u32_at(body, cur)
      BY <3>1
    <3> QED BY <1>1, <1>3, <3>1, <3>2, BytesConstants
  <2> QED BY <2>2, <2>3 DEF ReadsSent
<1> QED BY <1>2, <1>3

-----------------------------------------------------------------------------
(* The line *)

\* input.find returns the first place with the character, or the end.
LEMMA FindIs ==
  ASSUME NEW c, NEW from \in Nat, Size \in Nat, NEW p \in from .. Size,
         p = Size \/ At(p) = c, \A o \in from .. p - 1 : At(o) # c
  PROVE  find(c, from) = p
<1> DEFINE Found(q) == /\ q = Size \/ At(q) = c
                       /\ \A o \in from .. q - 1 : At(o) # c
<1>1. Found(p)
  OBVIOUS
<1>2. ASSUME NEW q \in from .. Size, Found(q) PROVE q = p
  <2>1. ~(q < p)
    BY <1>2
  <2>2. ~(p < q)
    BY <1>2
  <2> QED BY <2>1, <2>2
<1>3. find(c, from) = CHOOSE q \in from .. Size : Found(q)
  BY DEF find
<1> HIDE DEF Found
<1> QED BY <1>1, <1>2, <1>3, Zenon

\* A non-empty part of a string is where it starts and ends, and it has the
\* characters of the string in between.
LEMMA PartIs ==
  ASSUME NEW A, NEW t \in Seq(A), NEW a \in 0 .. Len(t), NEW b \in 0 .. Len(t),
         NEW u \in Seq(A), SubSeq(t, a + 1, b) = u, Len(u) > 0
  PROVE  b = a + Len(u) /\ \A j \in 1 .. Len(u) : t[a + j] = u[j]
<1>0. Len(t) \in Nat /\ Len(u) \in Nat
  BY LenProperties
<1>1. a < b
  <2> SUFFICES ASSUME ~(a < b) PROVE FALSE
    OBVIOUS
  <2>1. SubSeq(t, a + 1, b) = << >>
    BY <1>0
  <2> QED BY <2>1
<1>2. PICK n \in Nat : b = a + n /\ n > 0
  <2>1. b - a \in Nat /\ b = a + (b - a) /\ b - a > 0
    BY <1>0, <1>1
  <2> QED BY <2>1
<1>3. /\ Len(SubSeq(t, a + 1, a + n)) = n
      /\ \A i \in 1 .. n : SubSeq(t, a + 1, a + n)[i] = t[a + i]
  BY <1>0, <1>2, Part
<1> QED BY <1>2, <1>3

WithQuotes(w) == <<Quote>> \o w \o <<Quote>>

LEMMA QuotesAround ==
  ASSUME NEW w \in Seq(Byte)
  PROVE  /\ WithQuotes(w) \in Seq(Byte) /\ Len(WithQuotes(w)) = Len(w) + 2 /\ Len(w) \in Nat
         /\ WithQuotes(w)[1] = Quote /\ WithQuotes(w)[Len(w) + 2] = Quote
         /\ \A j \in 1 .. Len(w) : WithQuotes(w)[1 + j] = w[j]
<1>1. PICK m \in Nat : m = Len(w)
  BY LenProperties
<1>2. PICK q \in Seq(Byte) : q = <<Quote>>
  <2>1. Quote \in Byte
    BY LineConstants
  <2>2. <<Quote>> \in Seq(Byte)
    BY <2>1
  <2> QED BY <2>2, Zenon
<1>3. Len(q) = 1 /\ q[1] = Quote
  BY <1>2
<1>4. PICK v \in Seq(Byte) : v = q \o w
  BY Concat
<1>5. Len(v) = 1 + m /\ v[1] = Quote
  <2>1. Len(q \o w) = Len(q) + Len(w) /\ \A j \in 1 .. Len(q) : (q \o w)[j] = q[j]
    BY Concat
  <2> QED BY <1>1, <1>3, <1>4, <2>1
<1>6. ASSUME NEW j \in 1 .. m PROVE v[1 + j] = w[j]
  <2>1. \A i \in 1 .. Len(w) : (q \o w)[Len(q) + i] = w[i]
    BY Concat
  <2> QED BY <1>1, <1>3, <1>4, <2>1
<1>7. PICK u \in Seq(Byte) : u = v \o q
  BY Concat
<1>8. u = WithQuotes(w)
  BY <1>2, <1>4, <1>7 DEF WithQuotes
<1>9. /\ Len(v \o q) = Len(v) + Len(q) /\ \A j \in 1 .. Len(v) : (v \o q)[j] = v[j]
      /\ \A j \in 1 .. Len(q) : (v \o q)[Len(v) + j] = q[j]
  BY Concat
<1>10. Len(u) = m + 2 /\ u[1] = Quote
  BY <1>3, <1>5, <1>7, <1>9
<1>11. u[m + 2] = Quote
  <2>1. (v \o q)[Len(v) + 1] = q[1]
    BY <1>3, <1>9
  <2>2. Len(v) + 1 = m + 2
    BY <1>5
  <2> QED BY <1>3, <1>7, <2>1, <2>2
<1>12. ASSUME NEW j \in 1 .. m PROVE u[1 + j] = w[j]
  <2>1. 1 + j \in 1 .. Len(v)
    BY <1>5
  <2> QED BY <1>6, <1>7, <1>9, <2>1
<1> QED BY <1>1, <1>8, <1>10, <1>11, <1>12

\* A byte a string has nowhere.
LEMMA Absent ==
  ASSUME NEW w, NEW n, n = Len(w), NEW x, x \notin Range(w), NEW j \in 1 .. n, DOMAIN w = 1 .. n
  PROVE  w[j] # x
BY DEF Range

LEMMA AbsentByte ==
  ASSUME NEW A, NEW w \in Seq(A), NEW x, x \notin Range(w)
  PROVE  \A j \in 1 .. Len(w) : w[j] # x
<1>1. DOMAIN w = 1 .. Len(w)
  BY LenProperties
<1> QED BY <1>1, Absent

\* Where an argument in quotes has its quotes, and the argument.
Quoted(t, a, b, w) ==
  /\ b = a + Len(w) + 2 /\ t[a + 1] = Quote /\ t[b] = Quote
  /\ \A j \in 1 .. Len(w) : t[a + 1 + j] = w[j]
  /\ SubSeq(t, a + 2, b - 1) = w

LEMMA QuotesAt ==
  ASSUME NEW t \in Seq(Byte), NEW a \in 0 .. Len(t), NEW b \in 0 .. Len(t), NEW w \in Seq(Byte),
         SubSeq(t, a + 1, b) = WithQuotes(w)
  PROVE  Quoted(t, a, b, w)
<1>1. PICK m \in Nat : m = Len(w)
  BY LenProperties
<1>2. PICK u \in Seq(Byte) :
        /\ u = WithQuotes(w) /\ Len(u) = m + 2 /\ u[1] = Quote /\ u[m + 2] = Quote
        /\ \A j \in 1 .. m : u[1 + j] = w[j]
  BY <1>1, QuotesAround
<1>3. b = a + Len(u) /\ \A j \in 1 .. Len(u) : t[a + j] = u[j]
  BY <1>2, PartIs
<1>4. \A j \in 1 .. m + 2 : t[a + j] = u[j]
  BY <1>2, <1>3
<1>5. b = a + (m + 2) /\ t[a + 1] = Quote /\ t[b] = Quote
  <2>1. 1 \in 1 .. m + 2 /\ m + 2 \in 1 .. m + 2
    OBVIOUS
  <2>2. t[a + 1] = u[1] /\ t[a + (m + 2)] = u[m + 2]
    BY <1>4, <2>1
  <2> QED BY <1>2, <1>3, <2>2
<1>6. ASSUME NEW j \in 1 .. m PROVE t[a + 1 + j] = w[j]
  <2>1. 1 + j \in 1 .. m + 2 /\ a + 1 + j = a + (1 + j)
    OBVIOUS
  <2> QED BY <1>2, <1>4, <2>1
<1>7. SubSeq(t, a + 2, b - 1) = w
  <2>1. PICK o \in Nat : o = a + 1
    OBVIOUS
  <2>2. o + m <= Len(t)
    BY <1>5, <2>1, LenProperties
  <2>3. /\ SubSeq(t, o + 1, o + m) \in Seq(Byte) /\ Len(SubSeq(t, o + 1, o + m)) = m
        /\ \A j \in 1 .. m : SubSeq(t, o + 1, o + m)[j] = t[o + j]
    BY <2>2, Part
  <2>4. \A j \in 1 .. m : SubSeq(t, o + 1, o + m)[j] = w[j]
    BY <1>6, <2>1, <2>3
  <2>5. SubSeq(t, o + 1, o + m) = w
    BY <1>1, <2>3, <2>4, SeqEqual
  <2>6. o + 1 = a + 2 /\ o + m = b - 1
    BY <1>5, <2>1
  <2> QED BY <2>5, <2>6
<1>8. b = a + Len(w) + 2
  BY <1>1, <1>5
<1>9. \A j \in 1 .. Len(w) : t[a + 1 + j] = w[j]
  BY <1>1, <1>6
<1> QED BY <1>5, <1>7, <1>8, <1>9 DEF Quoted

\* The loop has taken the first k arguments and is before the next one.
Between(first, past, k) ==
  /\ LaidOut(input, first, past)
  /\ cmd = SubSeq(input.meant, 1, k)
  /\ pos \in past[k] .. first[k + 1]

LineInv ==
  \E first \in Firsts(input), past \in Pasts(input) :
    \E k \in 0 .. Len(input.meant) : Between(first, past, k)

LEMMA LineType ==
  ASSUME input \in Line
  PROVE  /\ input.text \in Seq(Byte) /\ Size \in Nat /\ Len(input.text) = Size
         /\ input.meant \in Commands /\ Len(input.meant) \in Nat
BY LineConstants, LenProperties DEF Size, Commands

LEMMA PlaceType ==
  ASSUME input \in Line, NEW first \in Firsts(input), NEW past \in Pasts(input),
         NEW k \in 0 .. Len(input.meant)
  PROVE  first[k + 1] \in 0 .. Size /\ past[k] \in 0 .. Size
<1>1. k + 1 \in 1 .. Len(input.meant) + 1
  BY LineType
<1> QED BY <1>1, LineType DEF Firsts, Pasts

\* Before the next argument there is space.
LEMMA SpaceBefore ==
  ASSUME input \in Line, NEW first \in Firsts(input), NEW past \in Pasts(input),
         NEW k \in 0 .. Len(input.meant), Between(first, past, k)
  PROVE  pos \in 0 .. Size /\ (pos < first[k + 1] => At(pos) = Space)
<1>1. PICK a \in 0 .. Size : a = first[k + 1]
  BY PlaceType
<1>2. PICK b \in 0 .. Size : b = past[k]
  BY PlaceType
<1>3. pos \in b .. a
  BY <1>1, <1>2 DEF Between
<1>4. \A p \in b + 1 .. a : input.text[p] = Space
  BY <1>1, <1>2 DEF Between, LaidOut
<1>5. ASSUME pos < a PROVE input.text[pos + 1] = Space
  <2>1. pos + 1 \in b + 1 .. a
    BY <1>3, <1>5
  <2> QED BY <1>4, <2>1
<1>6. pos \in 0 .. Size
  BY <1>3, LineType
<1> QED BY <1>1, <1>5, <1>6 DEF At

\* The next argument is found, and how the loop takes it.
Bare(b, w) ==
  /\ pos < Size /\ At(pos) \notin {Space, Quote}
  /\ find(Space, pos) = b
  /\ substr(pos, b - pos) = w

InQuotes(b, w) ==
  /\ pos < Size /\ At(pos) = Quote
  /\ find(Quote, pos + 1) = b - 1 /\ b - 1 < Size
  /\ between_quotes(b - 1) = w

LEMMA NextArgument ==
  ASSUME input \in Line, NEW first \in Firsts(input), NEW past \in Pasts(input),
         NEW k \in 0 .. Len(input.meant) - 1, Between(first, past, k), pos = first[k + 1]
  PROVE  LET b == past[k + 1]
             w == input.meant[k + 1]
         IN  Bare(b, w) \/ InQuotes(b, w)
<1>1. PICK t \in Seq(Byte) : t = input.text /\ Len(t) = Size /\ Len(t) \in Nat
  BY LineType
<1>2. PICK i \in 1 .. Len(input.meant) : i = k + 1
  BY LineType
<1>3. PICK w \in Seq(Byte) : w = input.meant[i]
  <2>1. input.meant \in Seq(Seq(Byte))
    BY LineType DEF Commands
  <2> QED BY <2>1, ElementOfSeq
<1>4. PICK m \in Nat : m = Len(w)
  BY LenProperties
<1>5. PICK a \in 0 .. Len(t) : a = first[i] /\ a = pos
  <2>1. k \in 0 .. Len(input.meant)
    BY LineType
  <2> QED BY <1>1, <1>2, <2>1, PlaceType
<1>6. PICK b \in 0 .. Len(t) : b = past[i]
  <2>1. i \in 0 .. Len(input.meant)
    OBVIOUS
  <2> QED BY <1>1, <2>1, PlaceType
<1>7. Written(t, a, b, w)
  BY <1>1, <1>3, <1>5, <1>6 DEF Between, LaidOut
<1>8. CASE SubSeq(t, a + 1, b) = <<Quote>> \o w \o <<Quote>> /\ Quote \notin Range(w)
  <2>0. \A j \in 1 .. m : w[j] # Quote
    <3>1. \A j \in 1 .. Len(w) : w[j] # Quote
      BY <1>8, AbsentByte
    <3> QED BY <1>4, <3>1
  <2>1. /\ b = a + m + 2 /\ t[a + 1] = Quote /\ t[b] = Quote
        /\ \A j \in 1 .. m : t[a + 1 + j] = w[j]
        /\ SubSeq(t, a + 2, b - 1) = w
    <3>1. SubSeq(t, a + 1, b) = WithQuotes(w)
      BY <1>8 DEF WithQuotes
    <3>2. /\ b = a + Len(w) + 2 /\ t[a + 1] = Quote /\ t[b] = Quote
          /\ \A j \in 1 .. Len(w) : t[a + 1 + j] = w[j]
          /\ SubSeq(t, a + 2, b - 1) = w
      <4>1. Quoted(t, a, b, w)
        BY <3>1, QuotesAt
      <4> QED BY <4>1 DEF Quoted
    <3>3. \A j \in 1 .. m : t[a + 1 + j] = w[j]
      BY <1>4, <3>2
    <3>4. b = a + m + 2
      BY <1>4, <3>2
    <3> QED BY <3>2, <3>3, <3>4
  <2>2. b = a + m + 2
    BY <2>1
  <2>3. pos < Size /\ At(pos) = Quote
    BY <1>1, <1>4, <1>5, <2>1 DEF At
  <2>4. \A o \in a + 1 .. b - 2 : t[o + 1] # Quote
    <3> SUFFICES ASSUME NEW o \in a + 1 .. b - 2 PROVE t[o + 1] # Quote
      OBVIOUS
    <3>1. PICK j \in 1 .. m : o = a + j
      <4>1. o - a \in 1 .. m /\ o = a + (o - a)
        BY <1>4, <2>1
      <4> QED BY <4>1
    <3>2. t[a + 1 + j] = w[j] /\ a + 1 + j = o + 1
      BY <2>1, <3>1
    <3>3. w[j] # Quote
      BY <2>0, <3>1
    <3> QED BY <3>2, <3>3
  <2>5. find(Quote, pos + 1) = b - 1
    <3>1. PICK p \in a + 1 .. Size : p = b - 1 /\ At(p) = Quote
      <4>1. b - 1 \in a + 1 .. Len(t) /\ b - 1 + 1 = b
        BY <1>1, <2>2
      <4> QED BY <1>1, <2>1, <4>1 DEF At
    <3>2. \A o \in a + 1 .. p - 1 : At(o) # Quote
      BY <1>1, <2>4, <3>1 DEF At
    <3>3. a + 1 \in Nat /\ Size \in Nat
      BY <1>1
    <3> QED BY <1>5, <3>1, <3>2, <3>3, FindIs
  <2>6. between_quotes(b - 1) = w
    <3>1. pos + 1 + 1 = a + 2 /\ pos + 1 + (b - 1 - pos - 1) = b - 1
      <4>1. a \in Nat /\ b \in Nat
        BY <1>1
      <4>2. a + 1 + 1 = a + 2 /\ a + 1 + (b - 1 - a - 1) = b - 1
        BY <4>1
      <4> QED BY <1>5, <4>2
    <3> QED BY <1>1, <2>1, <3>1 DEF between_quotes, substr
  <2>7. b - 1 < Size
    BY <1>1
  <2> QED BY <1>2, <1>3, <1>6, <2>3, <2>5, <2>6, <2>7 DEF InQuotes
<1>9. CASE /\ w # << >> /\ SubSeq(t, a + 1, b) = w
           /\ Space \notin Range(w) /\ w[1] # Quote
           /\ b = Len(t) \/ t[b + 1] = Space
  <2>0. \A j \in 1 .. m : w[j] # Space
    <3>1. \A j \in 1 .. Len(w) : w[j] # Space
      BY <1>9, AbsentByte
    <3> QED BY <1>4, <3>1
  <2>1. m > 0
    BY <1>4, <1>9, EmptySeq
  <2>2. b = a + m /\ \A j \in 1 .. m : t[a + j] = w[j]
    BY <1>4, <1>9, <2>1, PartIs
  <2>3. pos < Size /\ At(pos) \notin {Space, Quote}
    <3>0. 1 \in 1 .. m
      BY <2>1
    <3>1. t[a + 1] = w[1]
      BY <2>2, <3>0
    <3>2. w[1] # Space
      BY <2>0, <3>0
    <3> QED BY <1>1, <1>5, <1>9, <2>1, <2>2, <3>1, <3>2 DEF At
  <2>4. \A o \in a .. b - 1 : t[o + 1] # Space
    <3> SUFFICES ASSUME NEW o \in a .. b - 1 PROVE t[o + 1] # Space
      OBVIOUS
    <3>1. PICK j \in 1 .. m : o + 1 = a + j
      <4>1. o + 1 - a \in 1 .. m /\ o + 1 = a + (o + 1 - a)
        BY <1>4, <2>2
      <4> QED BY <4>1
    <3>2. w[j] # Space
      BY <2>0
    <3> QED BY <2>2, <3>1, <3>2
  <2>5. find(Space, pos) = b
    <3>1. PICK p \in a .. Size : p = b /\ (p = Size \/ At(p) = Space)
      BY <1>1, <1>9, <2>2 DEF At
    <3>2. \A o \in a .. p - 1 : At(o) # Space
      BY <1>1, <2>4, <3>1 DEF At
    <3>3. a \in Nat /\ Size \in Nat
      BY <1>1
    <3> QED BY <1>5, <3>1, <3>2, <3>3, FindIs
  <2>6. substr(pos, b - pos) = w
    <3>1. pos + (b - pos) = b
      BY <1>5
    <3> QED BY <1>1, <1>5, <1>9, <3>1 DEF substr
  <2> QED BY <1>2, <1>3, <1>6, <2>3, <2>5, <2>6 DEF Bare
<1> QED BY <1>7, <1>8, <1>9 DEF Written

\* After the last argument there is at most a quote that is not closed.
LEMMA NoMoreArguments ==
  ASSUME input \in Line, NEW first \in Firsts(input), NEW past \in Pasts(input),
         NEW k \in Nat, k = Len(input.meant), Between(first, past, k), pos = first[k + 1],
         pos < Size
  PROVE  At(pos) = Quote /\ find(Quote, pos + 1) = Size
<1>1. PICK t \in Seq(Byte) : t = input.text /\ Len(t) = Size /\ Len(t) \in Nat
  BY LineType
<1>2. PICK a \in 0 .. Size : a = pos
  BY PlaceType
<1>3. t[a + 1] = Quote /\ \A p \in a + 2 .. Len(t) : t[p] # Quote
  BY <1>1, <1>2 DEF Between, LaidOut
<1>4. \A o \in a + 1 .. Size - 1 : At(o) # Quote
  <2> SUFFICES ASSUME NEW o \in a + 1 .. Size - 1 PROVE At(o) # Quote
    OBVIOUS
  <2>1. o + 1 \in a + 2 .. Len(t)
    BY <1>1
  <2> QED BY <1>1, <1>3, <2>1 DEF At
<1>5. find(Quote, a + 1) = Size
  <2>1. a + 1 \in Nat /\ Size \in Nat /\ Size \in a + 1 .. Size
    BY <1>1, <1>2
  <2> QED BY <1>4, <2>1, FindIs
<1> QED BY <1>1, <1>2, <1>3, <1>5 DEF At

\* Taking argument k + 1 leads to the place between it and the one after it.
LEMMA TakesArgument ==
  ASSUME input \in Line, NEW first \in Firsts(input), NEW past \in Pasts(input),
         NEW k \in 0 .. Len(input.meant) - 1, Between(first, past, k),
         cmd' = Append(cmd, input.meant[k + 1]), pos' = past[k + 1], input' = input
  PROVE  k + 1 \in 0 .. Len(input.meant) /\ Between(first, past, k + 1)'
<1>1. PICK m \in Commands : m = input.meant /\ Len(m) \in Nat
  BY LineType
<1>2. k + 1 \in 0 .. Len(m)
  BY <1>1
<1>3. cmd' = SubSeq(m, 1, k + 1)
  BY <1>1 DEF Between, Commands
<1>4. pos' \in past[k + 1] .. first[(k + 1) + 1]
  <2>1. past[k + 1] \in 0 .. Size /\ first[(k + 1) + 1] \in 0 .. Size
    BY <1>1, <1>2, PlaceType
  <2>2. past[k + 1] <= first[(k + 1) + 1]
    BY <1>1, <1>2 DEF Between, LaidOut
  <2> QED BY <2>1, <2>2
<1> QED BY <1>1, <1>2, <1>3, <1>4 DEF Between

LEMMA LineStep ==
  ASSUME input \in Line, LineInv, read_line
  PROVE  input' \in Line /\ LineInv'
<1>1. PICK first \in Firsts(input), past \in Pasts(input) :
        \E k \in 0 .. Len(input.meant) : Between(first, past, k)
  BY DEF LineInv
<1>2. PICK k \in 0 .. Len(input.meant) : Between(first, past, k)
  BY <1>1
<1>3. input' = input
  BY DEF read_line, skip_space, quoted, bare
<1>4. SUFFICES \E n \in 0 .. Len(input.meant) : Between(first, past, n)'
  BY <1>3 DEF LineInv
<1>5. pos \in 0 .. Size /\ (pos < first[k + 1] => At(pos) = Space)
  BY <1>2, SpaceBefore
<1>6. PICK a \in 0 .. Size : a = first[k + 1] /\ pos <= a
  BY <1>2, PlaceType DEF Between
<1>7. PICK b \in 0 .. Size : b = past[k] /\ b <= pos
  BY <1>2, PlaceType DEF Between
<1>8. CASE pos < a
  <2>1. skip_space
    BY <1>5, <1>6, <1>8, LineConstants DEF read_line, quoted, bare
  <2>2. pos' = pos + 1 /\ cmd' = cmd
    BY <2>1 DEF skip_space
  <2>3. pos' \in b .. a
    BY <1>5, <1>6, <1>7, <1>8, <2>2
  <2> QED BY <1>2, <1>3, <1>6, <1>7, <2>2, <2>3 DEF Between
<1>9. CASE pos = a /\ k # Len(input.meant)
  <2>1. k \in 0 .. Len(input.meant) - 1
    BY <1>9, LineType
  <2>2. PICK p : p = past[k + 1]
    OBVIOUS
  <2>3. PICK w : w = input.meant[k + 1]
    OBVIOUS
  <2>4. Bare(p, w) \/ InQuotes(p, w)
    BY <1>2, <1>6, <1>9, <2>1, <2>2, <2>3, NextArgument
  <2>5. p \in 0 .. Size
    <3>1. k + 1 \in 0 .. Len(input.meant)
      BY <2>1, LineType
    <3> QED BY <2>2, <3>1, PlaceType
  <2>6. cmd' = Append(cmd, w) /\ pos' = p
    <3>1. CASE Bare(p, w)
      BY <3>1 DEF Bare, read_line, skip_space, quoted, bare
    <3>2. CASE InQuotes(p, w)
      <4>1. quoted
        BY <3>2, LineConstants DEF InQuotes, read_line, skip_space, bare
      <4>2. p - 1 # Size /\ p - 1 + 1 = p
        BY <2>5, <3>2, LineType DEF InQuotes
      <4> QED BY <3>2, <4>1, <4>2 DEF InQuotes, quoted
    <3> QED BY <2>4, <3>1, <3>2
  <2> QED BY <1>2, <1>3, <2>1, <2>2, <2>3, <2>6, TakesArgument
<1>10. CASE pos = a /\ k = Len(input.meant)
  <2>1. pos < Size
    BY DEF read_line, skip_space, quoted, bare
  <2>2. At(pos) = Quote /\ find(Quote, pos + 1) = Size
    BY <1>2, <1>6, <1>10, <2>1, LineType, NoMoreArguments
  <2>3. cmd' = cmd /\ pos' = pos
    BY <2>1, <2>2, LineConstants DEF read_line, skip_space, quoted, bare
  <2> QED BY <1>2, <1>3, <2>3 DEF Between
<1> QED BY <1>5, <1>6, <1>8, <1>9, <1>10

\* When the line is used up all its arguments have been taken.
LEMMA LineEnd ==
  ASSUME input \in Line, LineInv, LineRead
  PROVE  cmd = input.meant
<1>1. PICK first \in Firsts(input), past \in Pasts(input) :
        \E k \in 0 .. Len(input.meant) : Between(first, past, k)
  BY DEF LineInv
<1>2. PICK k \in 0 .. Len(input.meant) : Between(first, past, k)
  BY <1>1
<1>3. pos \in 0 .. Size /\ first[k + 1] \in 0 .. Size /\ pos = first[k + 1]
  BY <1>2, SpaceBefore, PlaceType, LineType DEF Between, LineRead
<1>4. k = Len(input.meant)
  <2> SUFFICES ASSUME k # Len(input.meant) PROVE FALSE
    OBVIOUS
  <2>1. k \in 0 .. Len(input.meant) - 1
    BY LineType
  <2>2. pos < Size
    BY <1>2, <1>3, <2>1, NextArgument DEF Bare, InQuotes
  <2> QED BY <1>3, <2>2, LineType DEF LineRead
<1>5. PICK m \in Commands : m = input.meant
  BY LineType
<1>6. SubSeq(m, 1, Len(m)) = m
  BY DEF Commands
<1> QED BY <1>2, <1>4, <1>5, <1>6 DEF Between

\* At the start of a line.
LEMMA LineStart ==
  ASSUME NEW l \in Line, input' = l, pos' = 0, cmd' = << >>
  PROVE  LineInv'
<1>1. PICK first \in Firsts(l), past \in Pasts(l) : LaidOut(l, first, past)
  BY LineConstants
<1>2. 0 \in 0 .. Len(l.meant) /\ 1 \in 1 .. Len(l.meant) + 1
  BY LineConstants, LenProperties
<1>3. past[0] = 0 /\ first[0 + 1] \in Nat
  <2>1. first \in [1 .. Len(l.meant) + 1 -> 0 .. Len(l.text)]
    BY DEF Firsts
  <2>2. past[0] = 0
    BY <1>1 DEF LaidOut
  <2> QED BY <1>2, <2>1, <2>2
<1>4. SubSeq(l.meant, 1, 0) = << >>
  BY LineConstants
<1> QED BY <1>1, <1>2, <1>3, <1>4 DEF LineInv, Between

-----------------------------------------------------------------------------
(* From the line to do_request *)

\* The request of a line that was typed is the encoding of what was meant, and
\* parse_req has nothing to parse in the other phases.
PhaseInv ==
  /\ phase \in {"line", "parse", "reply"}
  /\ phase = "line" => input \in Line /\ LineInv
  /\ phase # "parse" => body = << >> /\ cur = 0 /\ nstr = -1 /\ out = << >> /\ parsed = "none"
  /\ phase = "parse" /\ typed => input \in Line /\ body = encode(input.meant)

RequestInv == ParseInv /\ PhaseInv

LEMMA EncodeType ==
  ASSUME NEW c \in Commands
  PROVE  encode(c) \in Seq(Byte)
<1>1. u32(Len(c)) \in Seq(Byte)
  BY PiecesType, U32Type
<1>2. FlattenSeq(Pieces(c)) \in Seq(Byte)
  <2>1. Pieces(c) \in Seq(Seq(Byte))
    BY PiecesType DEF Commands
  <2> QED BY <2>1, FlattenType
<1> QED BY <1>1, <1>2, EncodeIs, Concat

\* The bodies that are let in.
LEMMA Fits ==
  /\ << >> \in Seq(Byte) /\ Len(<< >>) < weight[WordLen]
  /\ \A b \in Input : b \in Seq(Byte) /\ Len(b) < weight[WordLen]
  /\ \A c \in Commands : ~(Len(encode(c)) > k_max_msg) => Len(encode(c)) < weight[WordLen]
<1>1. PICK w \in Nat \ {0} : w = weight[WordLen]
  BY WeightPos, BytesConstants
<1>2. Len(<< >>) = 0 /\ << >> \in Seq(Byte)
  OBVIOUS
<1>3. PICK k \in Nat : k = k_max_msg /\ k < w /\ MaxLen <= k /\ MaxLen \in Nat
  BY <1>1, ExchangeConstants, ReplyConstants, RequestConstants
<1>4. ASSUME NEW b \in Input PROVE b \in Seq(Byte) /\ Len(b) < w
  <2>1. b \in Seq(Byte) /\ Len(b) <= MaxLen
    BY RequestConstants
  <2>2. Len(b) \in Nat
    BY <2>1, LenProperties
  <2> QED BY <1>3, <2>1, <2>2
<1>5. ASSUME NEW c \in Commands, ~(Len(encode(c)) > k_max_msg) PROVE Len(encode(c)) < w
  <2>1. Len(encode(c)) \in Nat
    BY EncodeType, LenProperties
  <2> QED BY <1>3, <1>5, <2>1
<1> QED BY <1>1, <1>2, <1>4, <1>5

LEMMA InitRequest == Init => RequestInv
<1> SUFFICES ASSUME Init PROVE RequestInv
  OBVIOUS
<1>1. body \in Seq(Byte) /\ Len(body) < weight[WordLen]
  BY Fits DEF Init
<1>2. cur = 0 /\ nstr = -1 /\ out = << >> /\ parsed = "none"
  BY DEF Init
<1>3. ParseType
  BY <1>1, <1>2, NoPieces, LenProperties DEF ParseType
<1>4. ReadSoFar /\ ReadsSent
  BY <1>2 DEF ReadSoFar, ReadsSent
<1>5. ASSUME input \in Line, pos = 0, cmd = << >> PROVE LineInv
  <2>1. PICK first \in Firsts(input), past \in Pasts(input) : LaidOut(input, first, past)
    BY <1>5, LineConstants
  <2>2. 0 \in 0 .. Len(input.meant) /\ 1 \in 1 .. Len(input.meant) + 1
    BY <1>5, LineType
  <2>3. past[0] = 0 /\ first[0 + 1] \in Nat
    <3>1. first \in [1 .. Len(input.meant) + 1 -> 0 .. Len(input.text)]
      BY DEF Firsts
    <3>2. past[0] = 0
      BY <2>1 DEF LaidOut
    <3> QED BY <2>2, <3>1, <3>2
  <2>4. SubSeq(input.meant, 1, 0) = << >>
    BY <1>5, LineConstants
  <2> QED BY <1>5, <2>1, <2>2, <2>3, <2>4 DEF LineInv, Between
<1>6. PhaseInv
  BY <1>2, <1>5 DEF Init, PhaseInv
<1> QED BY <1>3, <1>4, <1>6 DEF ParseInv, RequestInv

LEMMA NextRequest == RequestInv /\ [Next]_vars => RequestInv'
<1> SUFFICES ASSUME RequestInv, [Next]_vars PROVE RequestInv'
  OBVIOUS
<1> USE DEF RequestInv
<1>0. ASSUME UNCHANGED parseVars PROVE ParseInv'
  <2>1. ParseInv
    OBVIOUS
  <2> QED BY <1>0, <2>1 DEF ParseInv, ParseType, ReadSoFar, ReadsSent, parseVars
<1>00. ASSUME UNCHANGED lineVars, LineInv PROVE LineInv'
  BY <1>00 DEF LineInv, Between, lineVars
<1>1. CASE type_line
  <2>1. phase = "line" /\ phase' = "line" /\ UNCHANGED parseVars /\ read_line
    BY <1>1 DEF type_line
  <2>2. input' \in Line /\ LineInv'
    BY <2>1, LineStep DEF PhaseInv
  <2> QED BY <1>0, <2>1, <2>2 DEF PhaseInv, parseVars
<1>2. CASE refuse_request
  <2>1. /\ phase = "line" /\ phase' = "line" /\ UNCHANGED parseVars
        /\ input' \in Line /\ pos' = 0 /\ cmd' = << >>
    BY <1>2 DEF refuse_request
  <2>2. LineInv'
    BY <2>1, LineStart
  <2> QED BY <1>0, <2>1, <2>2 DEF PhaseInv, parseVars
<1>3. CASE send_request
  <2>1. /\ phase = "line" /\ phase' = "parse" /\ ~(Len(encode(cmd)) > k_max_msg)
        /\ body' = encode(cmd) /\ UNCHANGED <<input, cur, nstr, out, parsed>>
    BY <1>3 DEF send_request, too_large, lineVars
  <2>2. cmd = input.meant /\ input \in Line
    BY <1>3, <2>1, LineEnd DEF send_request, PhaseInv
  <2>3. cmd \in Commands
    BY <2>2, LineType
  <2>4. cur' = 0 /\ nstr' = -1 /\ out' = << >> /\ parsed' = "none"
    BY <2>1 DEF PhaseInv
  <2>5. body' \in Seq(Byte) /\ Len(body') < weight[WordLen]
    BY <2>1, <2>3, EncodeType, Fits
  <2>6. ParseType'
    BY <2>4, <2>5, NoPieces, LenProperties DEF ParseType
  <2>7. ReadSoFar' /\ ReadsSent'
    BY <2>4 DEF ReadSoFar, ReadsSent
  <2> QED BY <2>1, <2>2, <2>6, <2>7 DEF ParseInv, PhaseInv
<1>4. CASE parse
  <2>1. phase = "parse" /\ UNCHANGED <<phase, typed, input, body>> /\ parse_req
    BY <1>4 DEF parse, lineVars, parse_req, parse_count, parse_str, parse_end
  <2>2. ParseInv'
    BY <2>1, ParseCount, ParseStr, ParseEnd DEF parse_req
  <2> QED BY <2>1, <2>2 DEF PhaseInv
<1>5. CASE do_request
  <2>1. /\ phase' = "reply" /\ body' = << >>
        /\ cur' = 0 /\ nstr' = -1 /\ out' = << >> /\ parsed' = "none"
    BY <1>5 DEF do_request
  <2>2. ParseType'
    BY <2>1, Fits, NoPieces, LenProperties DEF ParseType
  <2>3. ReadSoFar' /\ ReadsSent'
    BY <2>1 DEF ReadSoFar, ReadsSent
  <2> QED BY <2>1, <2>2, <2>3 DEF ParseInv, PhaseInv
<1>6. CASE read_reply
  <2>1. phase = "reply" /\ phase' = "reply" /\ UNCHANGED parseVars
    BY <1>6 DEF read_reply
  <2> QED BY <1>0, <2>1 DEF PhaseInv, parseVars
<1>7. CASE next_line
  <2>1. /\ phase = "reply" /\ phase' = "line" /\ UNCHANGED parseVars
        /\ input' \in Line /\ pos' = 0 /\ cmd' = << >>
    BY <1>7 DEF next_line
  <2>2. LineInv'
    BY <2>1, LineStart
  <2> QED BY <1>0, <2>1, <2>2 DEF PhaseInv, parseVars
<1>8. CASE UNCHANGED vars
  <2>1. UNCHANGED <<phase, typed, input>> /\ UNCHANGED parseVars /\ UNCHANGED lineVars
    BY <1>8 DEF vars, lineVars
  <2>2. PhaseInv'
    BY <1>00, <2>1 DEF PhaseInv, parseVars
  <2> QED BY <1>0, <2>1, <2>2
<1> QED BY <1>1, <1>2, <1>3, <1>4, <1>5, <1>6, <1>7, <1>8 DEF Next

THEOREM RequestInvariant == Spec => []RequestInv
BY InitRequest, NextRequest, PTL DEF Spec

LEMMA InputCommands == Command \subseteq Commands
<1> SUFFICES ASSUME NEW c \in Command PROVE c \in Commands
  OBVIOUS
<1>1. Letter \subseteq Byte
  <2> SUFFICES ASSUME NEW b \in Input, NEW i \in DOMAIN b PROVE b[i] \in Byte
    BY DEF Letter, Range
  <2>1. b \in Seq(Byte)
    BY RequestConstants
  <2> QED BY <2>1
<1>2. PICK n \in 0 .. (MaxLen \div WordLen) - 1 :
        c \in [1 .. n -> BoundedSeq(Letter, MaxLen - (n + 1) * WordLen)]
  BY DEF Command
<1>3. n \in Nat
  OBVIOUS
<1>4. ASSUME NEW i \in 1 .. n PROVE c[i] \in Seq(Byte)
  <2>1. c[i] \in BoundedSeq(Letter, MaxLen - (n + 1) * WordLen)
    BY <1>2
  <2>2. PICK m \in 0 .. MaxLen - (n + 1) * WordLen : c[i] \in [1 .. m -> Letter]
    BY <2>1 DEF BoundedSeq, SeqOf
  <2>3. m \in Nat
    BY <2>2
  <2>4. c[i] \in [1 .. m -> Byte]
    BY <1>1, <2>2
  <2> QED BY <2>3, <2>4
<1>5. c \in [1 .. n -> Seq(Byte)]
  BY <1>2, <1>4
<1> QED BY <1>3, <1>5 DEF Commands

LEMMA RequestInvExact == RequestInv => ParseExact /\ ArgumentsExact
<1> SUFFICES ASSUME RequestInv PROVE ParseExact /\ ArgumentsExact
  OBVIOUS
<1> USE DEF RequestInv, ParseInv
<1>1. ASSUME parsed = "ok" PROVE encode(out) = body /\ Len(out) <= k_max_args
  <2>1. Len(out) = nstr /\ cur = Len(body) /\ nstr # -1
    BY <1>1, LenProperties DEF ReadSoFar
  <2>2. SubSeq(body, 1, cur) = body
    BY <2>1 DEF ParseType
  <2> QED BY <1>1, <2>1, <2>2, EncodeIs DEF ReadSoFar
<1>2. ASSUME parsed = "error", body \in Encoded PROVE FALSE
  <2>1. PICK c \in Command : Len(c) <= k_max_args /\ body = encode(c)
    BY <1>2 DEF Encoded
  <2>2. c \in Commands /\ Len(c) \in Nat
    BY InputCommands, PiecesType
  <2>3. Len(c) > k_max_args
    BY <1>2, <2>1, <2>2 DEF ReadsSent
  <2> QED BY <2>1, <2>2, <2>3, RequestConstants
<1>3. ParseExact
  BY <1>1, <1>2 DEF ParseExact
<1>4. ASSUME phase = "parse", typed
      PROVE  /\ parsed = "error" => Len(input.meant) > k_max_args
             /\ parsed = "ok" => out = input.meant
  <2>1. PICK c \in Commands : c = input.meant /\ body = encode(c)
    BY <1>4, LineType DEF PhaseInv
  <2>2. ASSUME parsed = "ok" PROVE out = c
    <3>1. Len(out) = nstr /\ nstr # -1
      BY <2>2 DEF ReadSoFar
    <3>2. nstr = Len(c) /\ out = SubSeq(c, 1, Len(out))
      BY <2>1, <3>1 DEF ReadsSent
    <3>3. SubSeq(c, 1, Len(c)) = c
      BY DEF Commands
    <3> QED BY <3>1, <3>2, <3>3
  <2> QED BY <2>1, <2>2 DEF ReadsSent
<1> QED BY <1>3, <1>4 DEF ArgumentsExact

\* For every size of a byte and of an integer, and whatever arrives: parse_req
\* of server.cpp accepts exactly what send_request of client.cpp writes, and
\* returns the strings that were sent.
THEOREM RequestsAreExact == Spec => []ParseExact
<1>1. RequestInv => ParseExact
  BY RequestInvExact
<1> QED BY <1>1, RequestInvariant, PTL

\* Whatever is typed, in quotes where it has to be, reaches do_request as the
\* arguments that were meant, or is refused for their number.
THEOREM TypedIsMeant == Spec => []ArgumentsExact
<1>1. RequestInv => ArgumentsExact
  BY RequestInvExact
<1> QED BY <1>1, RequestInvariant, PTL

-----------------------------------------------------------------------------
(* The tokens of a reply *)

\* The tokens that replies are made of.
Tok ==
  {nil} \cup {str(s) : s \in Seq(Byte)} \cup {err(c, s) : c \in Nat, s \in Seq(Byte)}
  \cup {num(g, b) : g \in {TAG_INT, TAG_DBL}, b \in [1 .. NumLen -> Byte]}
  \cup {arr(n) : n \in Nat}

\* How many bytes come before the string of a token with tag g, what the string
\* adds, and what print_response makes of the n bytes of the token, of which b
\* come after the tag.
HeadOf(g) == CASE g = TAG_NIL -> 1
               [] g = TAG_ERR -> 1 + 2 * WordLen
               [] g \in {TAG_STR, TAG_ARR} -> 1 + WordLen
               [] OTHER -> 1 + NumLen

Extra(g, n) == IF g \in {TAG_ERR, TAG_STR} THEN n ELSE 0

BytesOf(g, b, n) ==
  CASE g = TAG_NIL \/ g = TAG_ARR -> << >>
    [] g = TAG_STR -> SubSeq(b, WordLen + 1, n - 1)
    [] g = TAG_ERR -> SubSeq(b, 1, WordLen) \o SubSeq(b, 2 * WordLen + 1, n - 1)
    [] OTHER -> b

\* What the server writes of the token t, read as print_response reads it.
ReadsBack(t, o) ==
  /\ o \in Seq(Byte) /\ Len(o) = HeadOf(t.tag) + Extra(t.tag, t.len) /\ o[1] = t.tag
  /\ t = [tag |-> t.tag, len |-> t.len, bytes |-> t.bytes]
  /\ t.tag \in TAG_NIL .. TAG_ARR /\ t.len \in Nat
  /\ t.tag \in {TAG_ERR, TAG_STR, TAG_ARR} =>
       \A k \in 1 .. WordLen : o[HeadOf(t.tag) - WordLen + k] = u32(t.len)[k]
  /\ t.tag \notin {TAG_ERR, TAG_STR, TAG_ARR} => t.len = 0
  /\ t.bytes = BytesOf(t.tag, [i \in 1 .. Len(o) - 1 |-> o[1 + i]], Len(o))

LEMMA HeadType ==
  ASSUME NEW g
  PROVE  /\ HeadOf(g) \in Nat \ {0}
         /\ g # TAG_NIL => HeadOf(g) > 1
         /\ g \in {TAG_ERR, TAG_STR, TAG_ARR} => HeadOf(g) - WordLen \in Nat \ {0}
<1>1. CASE g = TAG_NIL
  BY <1>1 DEF HeadOf, TAG_NIL, TAG_ERR, TAG_STR, TAG_ARR
<1>2. CASE g = TAG_ERR
  BY <1>2, BytesConstants DEF HeadOf, TAG_NIL, TAG_ERR, TAG_STR, TAG_ARR
<1>3. CASE g \in {TAG_STR, TAG_ARR}
  BY <1>3, BytesConstants DEF HeadOf, TAG_NIL, TAG_ERR, TAG_STR, TAG_ARR
<1>4. CASE g # TAG_NIL /\ g # TAG_ERR /\ g \notin {TAG_STR, TAG_ARR}
  <2>1. HeadOf(g) = 1 + NumLen
    BY <1>4, Zenon DEF HeadOf
  <2> QED BY <1>4, <2>1, ReplyConstants
<1> QED BY <1>1, <1>2, <1>3, <1>4

Tagged(g, x) == <<g>> \o x

LEMMA TagFirst ==
  ASSUME NEW g \in Byte, NEW x \in Seq(Byte)
  PROVE  /\ Tagged(g, x) \in Seq(Byte) /\ Len(Tagged(g, x)) = 1 + Len(x) /\ Len(x) \in Nat
         /\ Tagged(g, x)[1] = g
         /\ \A j \in 1 .. Len(x) : Tagged(g, x)[1 + j] = x[j]
         /\ [i \in 1 .. Len(Tagged(g, x)) - 1 |-> Tagged(g, x)[1 + i]] = x
<1>1. PICK h \in Seq(Byte) : h = <<g>>
  <2>1. <<g>> \in Seq(Byte)
    OBVIOUS
  <2> QED BY <2>1, Zenon
<1>2. Len(h) = 1 /\ h[1] = g
  BY <1>1
<1>3. PICK m \in Nat : m = Len(x)
  BY LenProperties
<1>4. PICK o \in Seq(Byte) : o = h \o x
  BY Concat
<1>5. Len(o) = 1 + m /\ o[1] = g
  <2>1. Len(h \o x) = Len(h) + Len(x) /\ \A j \in 1 .. Len(h) : (h \o x)[j] = h[j]
    BY Concat
  <2> QED BY <1>2, <1>3, <1>4, <2>1
<1>6. ASSUME NEW j \in 1 .. m PROVE o[1 + j] = x[j]
  <2>1. \A i \in 1 .. Len(x) : (h \o x)[Len(h) + i] = x[i]
    BY Concat
  <2> QED BY <1>2, <1>3, <1>4, <2>1
<1>7. o = Tagged(g, x)
  BY <1>1, <1>4 DEF Tagged
<1>8. [i \in 1 .. Len(o) - 1 |-> o[1 + i]] = x
  <2>1. x \in [1 .. m -> Byte]
    BY <1>3, LenProperties
  <2>2. [i \in 1 .. m |-> o[1 + i]] = x
    BY <1>6, <2>1
  <2>3. Len(o) - 1 = m
    BY <1>5
  <2> QED BY <2>2, <2>3
<1> QED BY <1>3, <1>5, <1>6, <1>7, <1>8

LEMMA TagBytes == TAG_NIL .. TAG_ARR \subseteq Byte
BY BytesConstants, ReplyConstants DEF Byte, TAG_NIL, TAG_ARR

LEMMA Tags ==
  /\ TAG_STR # TAG_NIL /\ TAG_STR # TAG_ARR /\ TAG_STR # TAG_ERR
  /\ TAG_ERR # TAG_NIL /\ TAG_ERR # TAG_ARR
  /\ TAG_ERR \notin {TAG_NIL, TAG_INT, TAG_DBL} /\ TAG_ERR \notin {TAG_STR, TAG_ARR}
BY DEF TAG_NIL, TAG_INT, TAG_DBL, TAG_STR, TAG_ARR, TAG_ERR

LEMMA NilBack == ReadsBack(nil, out_(nil))
<1>1. nil.tag = TAG_NIL /\ nil.len = 0 /\ nil.bytes = << >>
  BY DEF nil, Token
<1>2. out_(nil) = Tagged(TAG_NIL, << >>)
  BY <1>1 DEF out_, Tagged, TAG_NIL, TAG_INT, TAG_DBL, TAG_STR, TAG_ARR, TAG_ERR
<1>3. TAG_NIL \in Byte /\ << >> \in Seq(Byte) /\ Len(<< >>) = 0
  BY TagBytes DEF TAG_NIL, TAG_ARR
<1>4. PICK o \in Seq(Byte) : o = out_(nil) /\ Len(o) = 1 /\ o[1] = TAG_NIL
  <2>1. /\ Tagged(TAG_NIL, << >>) \in Seq(Byte)
        /\ Len(Tagged(TAG_NIL, << >>)) = 1 + Len(<< >>)
        /\ Tagged(TAG_NIL, << >>)[1] = TAG_NIL
    BY <1>3, TagFirst
  <2> QED BY <1>2, <1>3, <2>1
<1>5. HeadOf(TAG_NIL) = 1 /\ Extra(TAG_NIL, 0) = 0
  BY DEF HeadOf, Extra, TAG_NIL, TAG_STR, TAG_ERR, TAG_ARR
<1>6. BytesOf(TAG_NIL, [i \in 1 .. Len(o) - 1 |-> o[1 + i]], Len(o)) = << >>
  BY DEF BytesOf, TAG_NIL, TAG_ARR, TAG_STR, TAG_ERR
<1>7. nil = [tag |-> nil.tag, len |-> nil.len, bytes |-> nil.bytes]
  BY DEF nil, Token
<1>8. TAG_NIL \in TAG_NIL .. TAG_ARR /\ TAG_NIL \notin {TAG_ERR, TAG_STR, TAG_ARR}
  BY DEF TAG_NIL, TAG_ARR, TAG_STR, TAG_ERR
<1> QED BY <1>1, <1>4, <1>5, <1>6, <1>7, <1>8 DEF ReadsBack

LEMMA NumBack ==
  ASSUME NEW g \in {TAG_INT, TAG_DBL}, NEW b \in [1 .. NumLen -> Byte]
  PROVE  ReadsBack(num(g, b), out_(num(g, b)))
<1>1. PICK t : t = num(g, b) /\ t.tag = g /\ t.len = 0 /\ t.bytes = b
  <2>1. num(g, b).tag = g /\ num(g, b).len = 0 /\ num(g, b).bytes = b
    BY DEF num, Token
  <2> QED BY <2>1, Zenon
<1>2. out_(t) = Tagged(g, b)
  BY <1>1 DEF out_, Tagged, TAG_NIL, TAG_INT, TAG_DBL, TAG_STR, TAG_ARR, TAG_ERR
<1>3. g \in Byte /\ b \in Seq(Byte) /\ Len(b) = NumLen /\ NumLen \in Nat
  BY TagBytes, ReplyConstants DEF TAG_NIL, TAG_ARR, TAG_INT, TAG_DBL
<1>4. PICK o \in Seq(Byte) : o = out_(t) /\ Len(o) = 1 + NumLen /\ o[1] = g
                             /\ [i \in 1 .. Len(o) - 1 |-> o[1 + i]] = b
  BY <1>2, <1>3, TagFirst
<1>5. HeadOf(g) = 1 + NumLen /\ Extra(g, 0) = 0
  BY DEF HeadOf, Extra, TAG_NIL, TAG_STR, TAG_ERR, TAG_ARR, TAG_INT, TAG_DBL
<1>6. BytesOf(g, [i \in 1 .. Len(o) - 1 |-> o[1 + i]], Len(o)) = b
  BY <1>4 DEF BytesOf, TAG_NIL, TAG_ARR, TAG_STR, TAG_ERR, TAG_INT, TAG_DBL
<1>7. t = [tag |-> t.tag, len |-> t.len, bytes |-> t.bytes]
  BY <1>1 DEF num, Token
<1>8. g \in TAG_NIL .. TAG_ARR /\ g \notin {TAG_ERR, TAG_STR, TAG_ARR}
  BY DEF TAG_NIL, TAG_ARR, TAG_STR, TAG_ERR, TAG_INT, TAG_DBL
<1>9. 1 + NumLen = HeadOf(g) + Extra(g, 0)
  BY <1>3, <1>5
<1> QED BY <1>1, <1>4, <1>6, <1>7, <1>8, <1>9 DEF ReadsBack

LEMMA ArrBack ==
  ASSUME NEW n \in Nat
  PROVE  ReadsBack(arr(n), out_(arr(n)))
<1>1. PICK t : t = arr(n) /\ t.tag = TAG_ARR /\ t.len = n /\ t.bytes = << >>
  <2>1. arr(n).tag = TAG_ARR /\ arr(n).len = n /\ arr(n).bytes = << >>
    BY DEF arr, Token
  <2> QED BY <2>1, Zenon
<1>2. PICK u \in Seq(Byte) : u = u32(n) /\ Len(u) = WordLen
  BY U32Type
<1>3. u \o << >> = u
  OBVIOUS
<1>4. out_(t) = Tagged(TAG_ARR, u)
  BY <1>1, <1>2, <1>3 DEF out_, Tagged, TAG_NIL, TAG_INT, TAG_DBL, TAG_STR, TAG_ARR, TAG_ERR
<1>5. TAG_ARR \in Byte
  BY TagBytes DEF TAG_NIL, TAG_ARR
<1>6. PICK o \in Seq(Byte) : /\ o = out_(t) /\ Len(o) = 1 + WordLen /\ o[1] = TAG_ARR
                             /\ \A k \in 1 .. WordLen : o[1 + k] = u[k]
  <2>1. /\ Tagged(TAG_ARR, u) \in Seq(Byte) /\ Len(Tagged(TAG_ARR, u)) = 1 + Len(u)
        /\ Tagged(TAG_ARR, u)[1] = TAG_ARR
        /\ \A j \in 1 .. Len(u) : Tagged(TAG_ARR, u)[1 + j] = u[j]
    BY <1>5, TagFirst
  <2> QED BY <1>2, <1>4, <2>1
<1>7. HeadOf(TAG_ARR) = 1 + WordLen /\ Extra(TAG_ARR, n) = 0
  BY DEF HeadOf, Extra, TAG_NIL, TAG_STR, TAG_ERR, TAG_ARR
<1>8. BytesOf(TAG_ARR, [i \in 1 .. Len(o) - 1 |-> o[1 + i]], Len(o)) = << >>
  BY DEF BytesOf, TAG_NIL, TAG_ARR, TAG_STR, TAG_ERR
<1>9. t = [tag |-> t.tag, len |-> t.len, bytes |-> t.bytes]
  BY <1>1 DEF arr, Token
<1>10. TAG_ARR \in TAG_NIL .. TAG_ARR
  BY DEF TAG_NIL, TAG_ARR
<1>11. ASSUME NEW k \in 1 .. WordLen PROVE o[HeadOf(TAG_ARR) - WordLen + k] = u32(n)[k]
  <2>1. HeadOf(TAG_ARR) - WordLen + k = 1 + k
    BY <1>7, BytesConstants
  <2> QED BY <1>2, <1>6, <2>1
<1>12. 1 + WordLen = HeadOf(TAG_ARR) + Extra(TAG_ARR, n)
  BY <1>7, BytesConstants
<1> QED BY <1>1, <1>6, <1>8, <1>9, <1>10, <1>11, <1>12 DEF ReadsBack

\* Two strings are the beginning and the end of the string they join to.
LEMMA TwoParts ==
  ASSUME NEW A, NEW a \in Seq(A), NEW b \in Seq(A)
  PROVE  /\ SubSeq(a \o b, 1, Len(a)) = a
         /\ SubSeq(a \o b, Len(a) + 1, Len(a) + Len(b)) = b
<1>1. PICK m \in Nat : m = Len(a)
  BY LenProperties
<1>2. PICK n \in Nat : n = Len(b)
  BY LenProperties
<1>3. PICK c \in Seq(A) : c = a \o b
  BY Concat
<1>4. Len(c) = m + n
  BY <1>1, <1>2, <1>3, Concat
<1>5. \A j \in 1 .. m : c[j] = a[j]
  BY <1>1, <1>3, Concat
<1>6. \A j \in 1 .. n : c[m + j] = b[j]
  <2>1. \A j \in 1 .. Len(b) : (a \o b)[Len(a) + j] = b[j]
    BY Concat
  <2> QED BY <1>1, <1>2, <1>3, <2>1
<1>7. SubSeq(c, 1, m) = a
  <2>1. m \in 0 .. Len(c)
    BY <1>4
  <2>2. /\ SubSeq(c, 1, m) \in Seq(A) /\ Len(SubSeq(c, 1, m)) = m
        /\ \A i \in 1 .. m : SubSeq(c, 1, m)[i] = c[i]
    BY <2>1, Prefix
  <2>3. \A i \in 1 .. m : SubSeq(c, 1, m)[i] = a[i]
    BY <1>5, <2>2
  <2> QED BY <1>1, <2>2, <2>3, SeqEqual
<1>8. SubSeq(c, m + 1, m + n) = b
  <2>1. m + n <= Len(c)
    BY <1>4
  <2>2. /\ SubSeq(c, m + 1, m + n) \in Seq(A) /\ Len(SubSeq(c, m + 1, m + n)) = n
        /\ \A i \in 1 .. n : SubSeq(c, m + 1, m + n)[i] = c[m + i]
    BY <2>1, Part
  <2>3. \A i \in 1 .. n : SubSeq(c, m + 1, m + n)[i] = b[i]
    BY <1>6, <2>2
  <2> QED BY <1>2, <2>2, <2>3, SeqEqual
<1> QED BY <1>1, <1>2, <1>3, <1>7, <1>8

LEMMA StrBack ==
  ASSUME NEW s \in Seq(Byte)
  PROVE  ReadsBack(str(s), out_(str(s)))
<1>1. PICK n \in Nat : n = Len(s)
  BY LenProperties
<1>2. PICK t : t = str(s) /\ t.tag = TAG_STR /\ t.len = n /\ t.bytes = s
  <2>1. str(s).tag = TAG_STR /\ str(s).len = n /\ str(s).bytes = s
    BY <1>1 DEF str, Token
  <2> QED BY <2>1, Zenon
<1>3. PICK u \in Seq(Byte) : u = u32(n) /\ Len(u) = WordLen
  BY U32Type
<1>4. PICK x \in Seq(Byte) : x = u \o s
  BY Concat
<1>5. Len(x) = WordLen + n /\ \A j \in 1 .. WordLen : x[j] = u[j]
  <2>1. Len(u \o s) = Len(u) + Len(s) /\ \A j \in 1 .. Len(u) : (u \o s)[j] = u[j]
    BY Concat
  <2> QED BY <1>1, <1>3, <1>4, <2>1
<1>6. out_(t) = Tagged(TAG_STR, x)
  BY <1>2, <1>3, <1>4 DEF out_, Tagged, TAG_NIL, TAG_INT, TAG_DBL, TAG_STR, TAG_ARR, TAG_ERR
<1>7. TAG_STR \in Byte /\ TAG_STR \in TAG_NIL .. TAG_ARR
  BY TagBytes DEF TAG_NIL, TAG_STR, TAG_ARR
<1>8. PICK o \in Seq(Byte) : /\ o = out_(t) /\ Len(o) = 1 + Len(x) /\ o[1] = TAG_STR
                             /\ \A j \in 1 .. Len(x) : o[1 + j] = x[j]
                             /\ [i \in 1 .. Len(o) - 1 |-> o[1 + i]] = x
  <2>1. PICK g \in Byte : g = TAG_STR
    BY <1>7
  <2>2. /\ Tagged(g, x) \in Seq(Byte) /\ Len(Tagged(g, x)) = 1 + Len(x)
        /\ Tagged(g, x)[1] = g
        /\ \A j \in 1 .. Len(x) : Tagged(g, x)[1 + j] = x[j]
        /\ [i \in 1 .. Len(Tagged(g, x)) - 1 |-> Tagged(g, x)[1 + i]] = x
    BY TagFirst
  <2>3. out_(t) = Tagged(g, x)
    BY <1>6, <2>1
  <2> QED BY <2>1, <2>2, <2>3
<1>9. HeadOf(TAG_STR) = 1 + WordLen /\ Extra(TAG_STR, n) = n
  BY DEF HeadOf, Extra, TAG_NIL, TAG_STR, TAG_ERR, TAG_ARR
<1>10. BytesOf(TAG_STR, [i \in 1 .. Len(o) - 1 |-> o[1 + i]], Len(o)) = s
  <2>1. Len(o) - 1 = Len(u) + Len(s)
    BY <1>1, <1>3, <1>5, <1>8, BytesConstants
  <2>2. SubSeq(x, WordLen + 1, Len(o) - 1) = s
    BY <1>3, <1>4, <2>1, TwoParts
  <2>3. BytesOf(TAG_STR, x, Len(o)) = SubSeq(x, WordLen + 1, Len(o) - 1)
    BY Tags, Zenon DEF BytesOf
  <2> QED BY <1>8, <2>2, <2>3
<1>11. t = [tag |-> t.tag, len |-> t.len, bytes |-> t.bytes]
  BY <1>2 DEF str, Token
<1>12. ASSUME NEW k \in 1 .. WordLen PROVE o[HeadOf(TAG_STR) - WordLen + k] = u32(n)[k]
  <2>1. HeadOf(TAG_STR) - WordLen + k = 1 + k /\ k \in 1 .. Len(x)
    BY <1>5, <1>9, BytesConstants
  <2>2. o[1 + k] = x[k]
    BY <1>8, <2>1
  <2> QED BY <1>3, <1>5, <2>1, <2>2
<1>13. Len(o) = HeadOf(TAG_STR) + Extra(TAG_STR, n)
  BY <1>5, <1>8, <1>9, BytesConstants
<1>14. TAG_STR \in {TAG_ERR, TAG_STR, TAG_ARR}
  OBVIOUS
<1> QED BY <1>2, <1>7, <1>8, <1>10, <1>11, <1>12, <1>13, <1>14 DEF ReadsBack

LEMMA ErrBack ==
  ASSUME NEW c \in Nat, NEW s \in Seq(Byte)
  PROVE  ReadsBack(err(c, s), out_(err(c, s)))
<1>1. PICK n \in Nat : n = Len(s)
  BY LenProperties
<1>2. PICK v \in Seq(Byte) : v = u32(c) /\ Len(v) = WordLen
  BY U32Type
<1>3. PICK t : t = err(c, s) /\ t.tag = TAG_ERR /\ t.len = n /\ t.bytes = v \o s
  <2>1. err(c, s).tag = TAG_ERR /\ err(c, s).len = n /\ err(c, s).bytes = v \o s
    BY <1>1, <1>2 DEF err, Token
  <2> QED BY <2>1, Zenon
<1>4. PICK u \in Seq(Byte) : u = u32(n) /\ Len(u) = WordLen
  BY U32Type
<1>5. PICK y \in Seq(Byte) : y = v \o u
  BY Concat
<1>6. /\ Len(y) = WordLen + WordLen /\ \A j \in 1 .. WordLen : y[WordLen + j] = u[j]
  <2>1. Len(v \o u) = Len(v) + Len(u) /\ \A j \in 1 .. Len(u) : (v \o u)[Len(v) + j] = u[j]
    BY Concat
  <2> QED BY <1>2, <1>4, <1>5, <2>1
<1>7. PICK x \in Seq(Byte) : x = y \o s
  BY Concat
<1>8. Len(x) = WordLen + WordLen + n /\ \A j \in 1 .. WordLen + WordLen : x[j] = y[j]
  <2>1. Len(y \o s) = Len(y) + Len(s) /\ \A j \in 1 .. Len(y) : (y \o s)[j] = y[j]
    BY Concat
  <2> QED BY <1>1, <1>6, <1>7, <2>1
<1>9. SubSeq(v \o s, 1, WordLen) = v /\ SubSeq(v \o s, WordLen + 1, Len(v \o s)) = s
  <2>1. Len(v \o s) = Len(v) + Len(s)
    BY Concat
  <2> QED BY <1>2, <2>1, TwoParts
<1>10. out_(t) = Tagged(TAG_ERR, x)
  <2>1. out_(t) = <<t.tag>> \o (SubSeq(t.bytes, 1, WordLen) \o u32(t.len)
                                  \o SubSeq(t.bytes, WordLen + 1, Len(t.bytes)))
    BY <1>3, Tags, Zenon DEF out_
  <2> QED BY <1>3, <1>4, <1>5, <1>7, <1>9, <2>1 DEF Tagged
<1>11. TAG_ERR \in Byte /\ TAG_ERR \in TAG_NIL .. TAG_ARR
  BY TagBytes DEF TAG_NIL, TAG_ERR, TAG_ARR
<1>12. PICK o \in Seq(Byte) : /\ o = out_(t) /\ Len(o) = 1 + Len(x) /\ o[1] = TAG_ERR
                              /\ \A j \in 1 .. Len(x) : o[1 + j] = x[j]
                              /\ [i \in 1 .. Len(o) - 1 |-> o[1 + i]] = x
  BY <1>10, <1>11, TagFirst
<1>13. HeadOf(TAG_ERR) = 1 + 2 * WordLen /\ Extra(TAG_ERR, n) = n
  BY DEF HeadOf, Extra, TAG_NIL, TAG_STR, TAG_ERR, TAG_ARR
<1>14. BytesOf(TAG_ERR, [i \in 1 .. Len(o) - 1 |-> o[1 + i]], Len(o)) = v \o s
  <2>1. Len(o) - 1 = Len(y) + Len(s) /\ 2 * WordLen = Len(y)
    BY <1>1, <1>6, <1>8, <1>12, BytesConstants
  <2>2. SubSeq(x, 2 * WordLen + 1, Len(o) - 1) = s
    BY <1>7, <2>1, TwoParts
  <2>3. SubSeq(x, 1, WordLen) = v
    <3>1. x = v \o (u \o s) /\ u \o s \in Seq(Byte)
      BY <1>5, <1>7
    <3> QED BY <1>2, <3>1, TwoParts
  <2>4. BytesOf(TAG_ERR, x, Len(o)) =
          SubSeq(x, 1, WordLen) \o SubSeq(x, 2 * WordLen + 1, Len(o) - 1)
    BY Tags, Zenon DEF BytesOf
  <2> QED BY <1>12, <2>2, <2>3, <2>4
<1>15. t = [tag |-> t.tag, len |-> t.len, bytes |-> t.bytes]
  BY <1>3 DEF err, Token
<1>16. ASSUME NEW k \in 1 .. WordLen PROVE o[HeadOf(TAG_ERR) - WordLen + k] = u32(n)[k]
  <2>1. /\ HeadOf(TAG_ERR) - WordLen + k = 1 + (WordLen + k)
        /\ WordLen + k \in 1 .. Len(x) /\ WordLen + k \in 1 .. WordLen + WordLen
    BY <1>8, <1>13, BytesConstants
  <2>2. o[1 + (WordLen + k)] = x[WordLen + k]
    BY <1>12, <2>1
  <2>3. x[WordLen + k] = y[WordLen + k] /\ y[WordLen + k] = u[k]
    BY <1>6, <1>8, <2>1
  <2> QED BY <1>4, <2>1, <2>2, <2>3
<1>17. Len(o) = HeadOf(TAG_ERR) + Extra(TAG_ERR, n)
  BY <1>8, <1>12, <1>13, BytesConstants
<1>18. TAG_ERR \in {TAG_ERR, TAG_STR, TAG_ARR}
  OBVIOUS
<1> QED BY <1>3, <1>11, <1>12, <1>14, <1>15, <1>16, <1>17, <1>18 DEF ReadsBack

\* Every token is read back as it was written.
LEMMA TokenBack ==
  ASSUME NEW t \in Tok
  PROVE  ReadsBack(t, out_(t))
BY NilBack, NumBack, ArrBack, StrBack, ErrBack DEF Tok

-----------------------------------------------------------------------------
(* The shape of a reply, and where its tokens are in the response *)

\* One token that is not an array, or an array with its elements.
WellFormed(r) ==
  /\ r \in Seq(Tok) /\ Len(r) >= 1
  /\ \A i \in 1 .. Len(r) : r[i].tag = TAG_ARR => i = 1
  /\ r[1].tag = TAG_ARR => r[1].len = Len(r) - 1
  /\ r[1].tag # TAG_ARR => Len(r) = 1

Plain == {t \in Tok : t.tag # TAG_ARR}

LEMMA PlainTokens ==
  /\ nil \in Plain
  /\ \A s \in Seq(Byte) : str(s) \in Plain
  /\ \A c \in Nat, s \in Seq(Byte) : err(c, s) \in Plain
  /\ \A g \in {TAG_INT, TAG_DBL}, b \in [1 .. NumLen -> Byte] : num(g, b) \in Plain
<1>1. nil \in Tok /\ nil.tag = TAG_NIL /\ TAG_NIL # TAG_ARR
  BY DEF Tok, nil, Token, TAG_NIL, TAG_ARR
<1>2. ASSUME NEW s \in Seq(Byte) PROVE str(s) \in Tok /\ str(s).tag # TAG_ARR
  BY DEF Tok, str, Token, TAG_STR, TAG_ARR
<1>3. ASSUME NEW c \in Nat, NEW s \in Seq(Byte) PROVE err(c, s) \in Tok /\ err(c, s).tag # TAG_ARR
  <2>1. err(c, s) \in Tok
    BY DEF Tok
  <2>2. err(c, s).tag = TAG_ERR
    BY DEF err, Token
  <2> QED BY <2>1, <2>2, Tags
<1>4. ASSUME NEW g \in {TAG_INT, TAG_DBL}, NEW b \in [1 .. NumLen -> Byte]
      PROVE  num(g, b) \in Tok /\ num(g, b).tag # TAG_ARR
  BY DEF Tok, num, Token, TAG_INT, TAG_DBL, TAG_ARR
<1> QED BY <1>1, <1>2, <1>3, <1>4 DEF Plain

LEMMA OneToken ==
  ASSUME NEW t \in Plain
  PROVE  WellFormed(<<t>>)
<1>1. <<t>> \in Seq(Tok) /\ Len(<<t>>) = 1 /\ <<t>>[1] = t
  BY DEF Plain
<1> QED BY <1>1 DEF WellFormed, Plain

LEMMA ArrayOf ==
  ASSUME NEW e \in Seq(Plain), NEW n, n = Len(e)
  PROVE  WellFormed(<<arr(n)>> \o e)
<1>1. PICK m \in Nat : m = Len(e)
  BY LenProperties
<1>2. arr(n) \in Tok /\ arr(n).tag = TAG_ARR /\ arr(n).len = m
  BY <1>1 DEF Tok, arr, Token
<1>3. PICK h \in Seq(Tok) : h = <<arr(n)>>
  <2>1. <<arr(n)>> \in Seq(Tok)
    BY <1>2
  <2> QED BY <2>1, Zenon
<1>4. Len(h) = 1 /\ h[1] = arr(n)
  BY <1>3
<1>5. PICK d \in Seq(Tok) : d = e
  BY DEF Plain
<1>6. PICK r \in Seq(Tok) : r = h \o d
  BY Concat
<1>7. /\ Len(h \o d) = Len(h) + Len(d)
      /\ \A j \in 1 .. Len(h) : (h \o d)[j] = h[j]
      /\ \A j \in 1 .. Len(d) : (h \o d)[Len(h) + j] = d[j]
  BY Concat
<1>8. Len(r) = m + 1 /\ r[1] = arr(n)
  BY <1>1, <1>4, <1>5, <1>6, <1>7
<1>9. ASSUME NEW i \in 1 .. Len(r), i # 1 PROVE r[i].tag # TAG_ARR
  <2>1. PICK j \in 1 .. m : i = 1 + j
    <3>1. i - 1 \in 1 .. m /\ i = 1 + (i - 1)
      BY <1>8, <1>9
    <3> QED BY <3>1
  <2>2. r[i] = d[j]
    BY <1>1, <1>4, <1>5, <1>6, <1>7, <2>1
  <2>3. e[j] \in Plain
    BY <1>1, ElementOfSeq
  <2> QED BY <1>5, <2>2, <2>3 DEF Plain
<1>10. WellFormed(r)
  BY <1>2, <1>8, <1>9 DEF WellFormed
<1> QED BY <1>3, <1>5, <1>6, <1>10

\* Strings of two tokens each join to one of twice their number.
LEMMA JoinedPairs ==
  ASSUME NEW A, NEW s \in Seq(Seq(A)), \A k \in 1 .. Len(s) : Len(s[k]) = 2
  PROVE  FlattenSeq(s) \in Seq(A) /\ Len(FlattenSeq(s)) = 2 * Len(s)
<1>1. PICK f : Joined(f, s, A)
  BY JoinedExists
<1>2. PICK n \in Nat : n = Len(s)
  BY LenProperties
<1> DEFINE S == {k \in 0 .. n : Len(f[k]) = 2 * k}
<1>3. 0 \in S
  BY <1>1, <1>2 DEF Joined
<1>4. ASSUME NEW k \in 0 .. n - 1, k \in S PROVE k + 1 \in S
  <2>1. k + 1 \in 1 .. Len(s) /\ (k + 1) - 1 = k
    BY <1>2
  <2>1a. PICK i \in 1 .. Len(s) : i = k + 1 /\ i - 1 = k
    BY <2>1
  <2>1b. f[i - 1] \in Seq(A) /\ s[i] \in Seq(A) /\ f[i] = f[i - 1] \o s[i]
    <3> HIDE DEF S
    <3> QED BY <1>1, JoinedStep
  <2>2. PICK a \in Seq(A) : a = f[k] /\ a = f[i - 1]
    BY <2>1a, <2>1b
  <2>3. PICK b \in Seq(A) : b = s[k + 1] /\ b = s[i]
    BY <2>1a, <2>1b
  <2>4. f[k + 1] = a \o b
    BY <2>1a, <2>2, <2>3, <2>1b
  <2>5. Len(a \o b) = Len(a) + Len(b)
    BY Concat
  <2>6. Len(b) = 2
    BY <2>1, <2>3
  <2>7. Len(a) = 2 * k
    BY <1>4, <2>2
  <2>8. Len(f[k + 1]) = 2 * (k + 1)
    BY <2>4, <2>5, <2>6, <2>7
  <2> QED BY <1>2, <2>1, <2>8
<1>5. \A k \in 0 .. n : k \in S
  <2> HIDE DEF S
  <2> QED BY <1>3, <1>4, InductionUpTo
<1>6. n \in S
  BY <1>5
<1>7. FlattenSeq(s) = f[n]
  BY <1>1, <1>2, FlattenJoins
<1> QED BY <1>2, <1>6, <1>7, FlattenType

LEMMA InSeq ==
  ASSUME NEW A, NEW n, NEW s \in BoundedSeq(A, n)
  PROVE  s \in Seq(A)
<1>1. PICK m \in 0 .. n : s \in [1 .. m -> A]
  BY DEF BoundedSeq, SeqOf
<1>2. m \in Nat
  BY <1>1
<1> QED BY <1>1, <1>2

LEMMA RepliesWellFormed ==
  ASSUME NEW r \in Reply
  PROVE  WellFormed(r)
<1>1. CASE r = <<nil>>
  BY <1>1, PlainTokens, OneToken
<1>2. ASSUME NEW s \in Str, r = <<str(s)>> PROVE WellFormed(r)
  BY <1>2, PlainTokens, OneToken, ReplyConstants
<1>3. ASSUME NEW s \in Str, r = <<err(1, s)>> PROVE WellFormed(r)
  BY <1>3, PlainTokens, OneToken, ReplyConstants
<1>4. ASSUME NEW g \in {TAG_INT, TAG_DBL}, NEW b \in Num, r = <<num(g, b)>> PROVE WellFormed(r)
  BY <1>4, PlainTokens, OneToken, ReplyConstants
<1>5. ASSUME NEW ks \in BoundedSeq(Str, MaxArr),
             r = <<arr(Len(ks))>> \o [i \in DOMAIN ks |-> str(ks[i])]
      PROVE  WellFormed(r)
  <2>1. ks \in Seq(Str) /\ Len(ks) \in Nat /\ DOMAIN ks = 1 .. Len(ks)
    BY InSeq, LenProperties
  <2>2. PICK n \in Nat : n = Len(ks)
    BY <2>1
  <2>3. ASSUME NEW i \in 1 .. n PROVE str(ks[i]) \in Plain
    <3>1. ks[i] \in Str
      BY <2>1, <2>2, ElementOfSeq
    <3> QED BY <3>1, PlainTokens, ReplyConstants
  <2>4. PICK e \in [1 .. n -> Plain] : e = [i \in 1 .. n |-> str(ks[i])]
    BY <2>3
  <2>5. e \in Seq(Plain) /\ Len(e) = n
    OBVIOUS
  <2>6. r = <<arr(n)>> \o e
    BY <1>5, <2>1, <2>2, <2>4
  <2> QED BY <2>5, <2>6, ArrayOf
<1>6. ASSUME NEW ps \in BoundedSeq(Str \X Num, MaxArr),
             r = <<arr(2 * Len(ps))>>
                   \o FlattenSeq([i \in DOMAIN ps |-> <<str(ps[i][1]), num(TAG_DBL, ps[i][2])>>])
      PROVE  WellFormed(r)
  <2>1. ps \in Seq(Str \X Num) /\ Len(ps) \in Nat /\ DOMAIN ps = 1 .. Len(ps)
    BY InSeq, LenProperties
  <2>2. PICK n \in Nat : n = Len(ps)
    BY <2>1
  <2> DEFINE Pair(i) == <<str(ps[i][1]), num(TAG_DBL, ps[i][2])>>
  <2>3. ASSUME NEW i \in 1 .. n PROVE Pair(i) \in Seq(Plain) /\ Len(Pair(i)) = 2
    <3>1. ps[i] \in Str \X Num
      BY <2>1, <2>2, ElementOfSeq
    <3>2. ps[i][1] \in Seq(Byte) /\ ps[i][2] \in [1 .. NumLen -> Byte]
      BY <3>1, ReplyConstants
    <3>3. PICK t \in Plain : t = str(ps[i][1])
      BY <3>2, PlainTokens
    <3>4. PICK u \in Plain : u = num(TAG_DBL, ps[i][2])
      BY <3>2, PlainTokens
    <3>5. <<t, u>> \in Seq(Plain) /\ Len(<<t, u>>) = 2
      OBVIOUS
    <3> QED BY <3>3, <3>4, <3>5
  <2>4. PICK e \in [1 .. n -> Seq(Plain)] :
          e = [i \in 1 .. n |-> Pair(i)] /\ \A k \in 1 .. n : Len(e[k]) = 2
    <3> HIDE DEF Pair
    <3> DEFINE pairs == [i \in 1 .. n |-> Pair(i)]
    <3>1. pairs \in [1 .. n -> Seq(Plain)]
      BY <2>3
    <3>2. ASSUME NEW k \in 1 .. n PROVE Len(pairs[k]) = 2
      BY <2>3
    <3> QED BY <3>1, <3>2, Zenon
  <2>5. e \in Seq(Seq(Plain)) /\ Len(e) = n
    OBVIOUS
  <2>6. FlattenSeq(e) \in Seq(Plain) /\ Len(FlattenSeq(e)) = 2 * n
    BY <2>4, <2>5, JoinedPairs
  <2>7. r = <<arr(2 * n)>> \o FlattenSeq(e)
    BY <1>6, <2>1, <2>2, <2>4
  <2> QED BY <2>6, <2>7, ArrayOf
<1> DEFINE Strings == {<<str(s)>> : s \in Str}
           Errors == {<<err(1, s)>> : s \in Str}
           Numbers == {<<num(t, b)>> : t \in {TAG_INT, TAG_DBL}, b \in Num}
           Lists == {<<arr(Len(ks))>> \o [i \in DOMAIN ks |-> str(ks[i])] :
                       ks \in BoundedSeq(Str, MaxArr)}
           Pairs == {<<arr(2 * Len(ps))>>
                       \o FlattenSeq([i \in DOMAIN ps |->
                                        <<str(ps[i][1]), num(TAG_DBL, ps[i][2])>>]) :
                     ps \in BoundedSeq(Str \X Num, MaxArr)}
<1>7. Reply = {<<nil>>} \cup Strings \cup Errors \cup Numbers \cup Lists \cup Pairs
  BY DEF Reply
<1>8. ASSUME r \in Strings PROVE WellFormed(r)
  BY <1>2, <1>8
<1>9. ASSUME r \in Errors PROVE WellFormed(r)
  BY <1>3, <1>9
<1>10. ASSUME r \in Numbers PROVE WellFormed(r)
  <2>1. PICK g \in {TAG_INT, TAG_DBL}, b \in Num : r = <<num(g, b)>>
    BY <1>10
  <2> QED BY <1>4, <2>1
<1>11. ASSUME r \in Lists PROVE WellFormed(r)
  BY <1>5, <1>11, Zenon
<1>12. ASSUME r \in Pairs PROVE WellFormed(r)
  BY <1>6, <1>12, Zenon
<1> HIDE DEF Strings, Errors, Numbers, Lists, Pairs
<1> QED BY <1>1, <1>7, <1>8, <1>9, <1>10, <1>11, <1>12

\* The bytes of each token, and how many bytes the first j tokens take.
Outs(r) == [i \in DOMAIN r |-> out_(r[i])]

Upto(r, j) == Len(FlattenSeq(SubSeq(Outs(r), 1, j)))

LEMMA OutsType ==
  ASSUME NEW r \in Seq(Tok)
  PROVE  /\ Outs(r) \in Seq(Seq(Byte)) /\ Len(Outs(r)) = Len(r) /\ Len(r) \in Nat
         /\ \A i \in 1 .. Len(r) :
              /\ r[i] \in Tok /\ Outs(r)[i] = out_(r[i])
              /\ ReadsBack(r[i], out_(r[i])) /\ Len(out_(r[i])) \in Nat \ {0}
<1>1. PICK n \in Nat : n = Len(r) /\ DOMAIN r = 1 .. n
  BY LenProperties
<1>2. ASSUME NEW i \in 1 .. n
      PROVE  /\ r[i] \in Tok /\ ReadsBack(r[i], out_(r[i])) /\ out_(r[i]) \in Seq(Byte)
             /\ Len(out_(r[i])) \in Nat \ {0}
  <2>1. PICK t \in Tok : t = r[i]
    BY <1>1, ElementOfSeq
  <2>2. ReadsBack(t, out_(t))
    BY TokenBack
  <2>3. PICK o \in Seq(Byte) : o = out_(t) /\ Len(o) \in Nat
    BY <2>2, LenProperties DEF ReadsBack
  <2>4. Len(o) = HeadOf(t.tag) + Extra(t.tag, t.len) /\ t.len \in Nat
    BY <2>2, <2>3 DEF ReadsBack
  <2>5. HeadOf(t.tag) \in Nat \ {0}
    BY HeadType
  <2>6. Extra(t.tag, t.len) \in Nat
    BY <2>4 DEF Extra
  <2>7. Len(o) \in Nat \ {0}
    BY <2>4, <2>5, <2>6
  <2> QED BY <2>1, <2>2, <2>3, <2>7
<1>3. PICK p \in [1 .. n -> Seq(Byte)] : p = Outs(r)
  <2>1. Outs(r) = [i \in 1 .. n |-> out_(r[i])]
    BY <1>1 DEF Outs
  <2> QED BY <1>2, <2>1
<1>4. p \in Seq(Seq(Byte)) /\ Len(p) = n
  OBVIOUS
<1>5. \A i \in 1 .. n : Outs(r)[i] = out_(r[i])
  BY <1>1 DEF Outs
<1> QED BY <1>1, <1>2, <1>3, <1>4, <1>5

LEMMA UptoType ==
  ASSUME NEW r \in Seq(Tok), NEW j \in 0 .. Len(r)
  PROVE  Upto(r, j) \in Nat
<1>1. PICK p \in Seq(Seq(Byte)) : p = Outs(r) /\ Len(p) = Len(r)
  BY OutsType
<1>2. PICK f : Joined(f, p, Byte)
  BY JoinedExists
<1>3. FlattenSeq(SubSeq(p, 1, j)) = f[j]
  BY <1>1, <1>2, FlattenPrefix
<1> QED BY <1>1, <1>2, <1>3, JoinedType DEF Upto

LEMMA UptoEnds ==
  ASSUME NEW r \in Seq(Tok)
  PROVE  Upto(r, 0) = 0 /\ Upto(r, Len(r)) = Len(FlattenSeq(Outs(r)))
<1>1. PICK p \in Seq(Seq(Byte)) : p = Outs(r) /\ Len(p) = Len(r) /\ Len(r) \in Nat
  BY OutsType
<1>2. SubSeq(p, 1, 0) = << >> /\ SubSeq(p, 1, Len(p)) = p
  OBVIOUS
<1>3. FlattenSeq(<< >>) = << >> /\ Len(<< >>) = 0
  BY NoPieces DEF Pieces
<1>4. Upto(r, 0) = Len(FlattenSeq(<< >>))
  BY <1>1, <1>2 DEF Upto
<1>5. Upto(r, Len(r)) = Len(FlattenSeq(p))
  BY <1>1, <1>2 DEF Upto
<1> QED BY <1>1, <1>3, <1>4, <1>5

\* Token j is where the tokens before it end.
LEMMA TokenAt ==
  ASSUME NEW r \in Seq(Tok), NEW j \in 1 .. Len(r)
  PROVE  /\ Upto(r, j) = Upto(r, j - 1) + Len(out_(r[j]))
         /\ Upto(r, j) <= Len(FlattenSeq(Outs(r)))
<1>1. PICK p \in Seq(Seq(Byte)) : p = Outs(r) /\ Len(p) = Len(r) /\ p[j] = out_(r[j])
  BY OutsType
<1>2. PICK f : Joined(f, p, Byte)
  BY JoinedExists
<1>3. j \in 0 .. Len(p) /\ j - 1 \in 0 .. Len(p) /\ j \in 1 .. Len(p)
  BY <1>1, LenProperties
<1>4. FlattenSeq(SubSeq(p, 1, j)) = f[j] /\ FlattenSeq(SubSeq(p, 1, j - 1)) = f[j - 1]
  BY <1>2, <1>3, FlattenPrefix
<1>5. Len(f[j]) = Len(f[j - 1]) + Len(p[j])
  <2>1. f[j - 1] \in Seq(Byte) /\ p[j] \in Seq(Byte) /\ f[j] = f[j - 1] \o p[j]
    BY <1>2, <1>3, JoinedStep
  <2> QED BY <2>1, Concat
<1>6. Len(f[j]) <= Len(FlattenSeq(p))
  BY <1>2, <1>3, JoinedBegins DEF Begins
<1> QED BY <1>1, <1>4, <1>5, <1>6 DEF Upto

LEMMA TokenBytesAt ==
  ASSUME NEW r \in Seq(Tok), NEW j \in 1 .. Len(r), NEW i \in 1 .. Len(out_(r[j]))
  PROVE  FlattenSeq(Outs(r))[Upto(r, j - 1) + i] = out_(r[j])[i]
<1>1. PICK p \in Seq(Seq(Byte)) : p = Outs(r) /\ Len(p) = Len(r) /\ p[j] = out_(r[j])
  BY OutsType
<1>2. PICK f : Joined(f, p, Byte)
  BY JoinedExists
<1>3. j \in 0 .. Len(p) /\ j - 1 \in 0 .. Len(p) /\ j \in 1 .. Len(p)
  BY <1>1, LenProperties
<1>4. PICK a \in Seq(Byte) : a = f[j - 1]
  BY <1>2, <1>3, JoinedType
<1>5. PICK o \in Seq(Byte) : o = out_(r[j])
  BY <1>1, ElementOfSeq
<1>6. f[j] = a \o o
  BY <1>1, <1>2, <1>3, <1>4, <1>5, JoinedStep
<1>7. Upto(r, j - 1) = Len(a)
  <2>1. FlattenSeq(SubSeq(p, 1, j - 1)) = f[j - 1]
    BY <1>2, <1>3, FlattenPrefix
  <2> QED BY <1>1, <1>4, <2>1 DEF Upto
<1>8. /\ Len(a \o o) = Len(a) + Len(o) /\ Len(a) \in Nat /\ Len(o) \in Nat
      /\ \A k \in 1 .. Len(o) : (a \o o)[Len(a) + k] = o[k]
  BY Concat
<1>9. Begins(f[j], FlattenSeq(p))
  BY <1>2, <1>3, JoinedBegins
<1>10. Len(a) + i \in 1 .. Len(a \o o)
  BY <1>5, <1>8
<1>11. FlattenSeq(p)[Len(a) + i] = (a \o o)[Len(a) + i]
  BY <1>6, <1>9, <1>10 DEF Begins
<1>12. (a \o o)[Len(a) + i] = o[i]
  BY <1>5, <1>8
<1> QED BY <1>1, <1>5, <1>7, <1>11, <1>12

\* Every token that is still to come takes at least a byte.
LEMMA BytesToCome ==
  ASSUME NEW r \in Seq(Tok), NEW j \in 0 .. Len(r)
  PROVE  Len(FlattenSeq(Outs(r))) >= Upto(r, j) + (Len(r) - j)
<1>1. PICK p \in Seq(Seq(Byte)) : /\ p = Outs(r) /\ Len(p) = Len(r)
                                  /\ \A k \in 1 .. Len(p) : Len(p[k]) >= 1
  <2>1. \A k \in 1 .. Len(r) : Len(Outs(r)[k]) >= 1
    BY OutsType
  <2> QED BY <2>1, OutsType
<1>2. PICK f : Joined(f, p, Byte)
  BY JoinedExists
<1>3. j \in 0 .. Len(p)
  BY <1>1
<1>4. FlattenSeq(SubSeq(p, 1, j)) = f[j] /\ FlattenSeq(p) = f[Len(p)]
  BY <1>2, <1>3, FlattenPrefix, FlattenJoins
<1>5. \A k \in 0 .. Len(p) : Len(f[Len(p)]) >= Len(f[k]) + (Len(p) - k)
  BY <1>1, <1>2, JoinedGrows
<1>6. Len(f[Len(p)]) >= Len(f[j]) + (Len(p) - j)
  BY <1>3, <1>5
<1> QED BY <1>1, <1>4, <1>6 DEF Upto

LEMMA SentFits ==
  ASSUME NEW r \in Reply
  PROVE  /\ WellFormed(sent(r))
         /\ FlattenSeq(Outs(sent(r))) \in Seq(Byte)
         /\ Len(FlattenSeq(Outs(sent(r)))) \in Nat
         /\ Len(FlattenSeq(Outs(sent(r)))) <= k_max_msg
         /\ response(r) = u32(Len(FlattenSeq(Outs(sent(r))))) \o FlattenSeq(Outs(sent(r)))
<1>1. WellFormed(TooBig)
  BY PlainTokens, OneToken, ReplyConstants DEF TooBig, ERR_TOO_BIG
<1>2. Len(FlattenSeq(Outs(TooBig))) <= k_max_msg
  <2>1. PICK t \in Tok : t = err(ERR_TOO_BIG, ErrMsg)
    BY PlainTokens, ReplyConstants DEF Plain, ERR_TOO_BIG
  <2>2. PICK q \in Seq(Tok) : q = TooBig /\ Len(q) = 1 /\ q[1] = t
    <3>1. <<t>> \in Seq(Tok) /\ Len(<<t>>) = 1 /\ <<t>>[1] = t
      OBVIOUS
    <3> QED BY <2>1, <3>1, Zenon DEF TooBig
  <2>3. Upto(q, 1) = Upto(q, 0) + Len(out_(t)) /\ Upto(q, 0) = 0
    <3>1. 1 \in 1 .. Len(q) /\ 1 - 1 = 0
      BY <2>2
    <3> QED BY <2>2, <3>1, TokenAt, UptoEnds
  <2>4. Upto(q, 1) = Len(FlattenSeq(Outs(q)))
    BY <2>2, UptoEnds
  <2>5. Len(out_(t)) = HeadOf(t.tag) + Extra(t.tag, t.len)
    BY TokenBack DEF ReadsBack
  <2>6. t.tag = TAG_ERR /\ t.len = Len(ErrMsg)
    BY <2>1 DEF err, Token
  <2>7. HeadOf(TAG_ERR) = 1 + 2 * WordLen /\ Extra(TAG_ERR, t.len) = t.len
    BY DEF HeadOf, Extra, TAG_NIL, TAG_STR, TAG_ERR, TAG_ARR
  <2>8. PICK n \in Nat : n = Len(ErrMsg)
    BY ReplyConstants, LenProperties
  <2>9. Len(FlattenSeq(Outs(q))) = 1 + 2 * WordLen + n
    BY <2>3, <2>4, <2>5, <2>6, <2>7, <2>8, BytesConstants
  <2> QED BY <2>2, <2>8, <2>9, ReplyConstants
<1>3. sent(r) = IF Len(FlattenSeq(Outs(r))) > k_max_msg THEN TooBig ELSE r
  BY DEF sent, Outs
<1>4. PICK q : q = sent(r)
  OBVIOUS
<1>5. WellFormed(q)
  BY <1>1, <1>3, <1>4, RepliesWellFormed
<1>6. FlattenSeq(Outs(q)) \in Seq(Byte)
  <2>1. Outs(q) \in Seq(Seq(Byte))
    BY <1>5, OutsType DEF WellFormed
  <2> QED BY <2>1, FlattenType
<1>7. Len(FlattenSeq(Outs(q))) \in Nat
  BY <1>6, LenProperties
<1>8. Len(FlattenSeq(Outs(q))) <= k_max_msg
  <2>1. CASE Len(FlattenSeq(Outs(r))) > k_max_msg
    BY <1>2, <1>3, <1>4, <2>1
  <2>2. CASE ~(Len(FlattenSeq(Outs(r))) > k_max_msg)
    BY <1>3, <1>4, <1>7, <2>2, ReplyConstants
  <2> QED BY <2>1, <2>2
<1>9. response(r) = u32(Len(FlattenSeq(Outs(q)))) \o FlattenSeq(Outs(q))
  BY <1>4 DEF response, Outs
<1> QED BY <1>4, <1>5, <1>6, <1>7, <1>8, <1>9

-----------------------------------------------------------------------------
(* What read_response and print_response see of the response *)

\* What the client is meant to print, its bytes and how many they are.
Meant == sent(reply)
Content == FlattenSeq(Outs(Meant))
Total == Len(Content)

Responds == reply \in Reply /\ outgoing = response(reply) /\ kept \in 0 .. Len(outgoing)

LEMMA ContentType ==
  ASSUME Responds
  PROVE  /\ WellFormed(Meant)
         /\ Content \in Seq(Byte) /\ Total \in Nat /\ Total <= k_max_msg /\ Total < weight[WordLen]
         /\ Len(outgoing) = WordLen + Total /\ kept \in 0 .. WordLen + Total
         /\ \A i \in 1 .. WordLen : outgoing[i] = u32(Total)[i]
         /\ \A i \in 1 .. Total : outgoing[WordLen + i] = Content[i]
<1>1. /\ WellFormed(Meant) /\ Content \in Seq(Byte) /\ Total \in Nat /\ Total <= k_max_msg
      /\ outgoing = u32(Total) \o Content
  BY SentFits DEF Responds, Meant, Content, Total
<1>2. PICK c \in Seq(Byte) : c = Content
  BY <1>1
<1>3. PICK n \in Nat : n = Total /\ n = Len(c)
  BY <1>1, <1>2 DEF Total
<1>4. PICK u \in Seq(Byte) : u = u32(n) /\ Len(u) = WordLen
  BY U32Type
<1>5. outgoing = u \o c
  BY <1>1, <1>2, <1>3, <1>4
<1>6. /\ Len(u \o c) = Len(u) + Len(c)
      /\ \A j \in 1 .. Len(u) : (u \o c)[j] = u[j]
      /\ \A j \in 1 .. Len(c) : (u \o c)[Len(u) + j] = c[j]
  BY Concat
<1>7. n < weight[WordLen]
  <2>1. PICK w \in Nat \ {0} : w = weight[WordLen]
    BY WeightPos, BytesConstants
  <2> QED BY <1>1, <1>3, <2>1, ExchangeConstants, ReplyConstants
<1>8. Len(outgoing) = WordLen + n /\ kept \in 0 .. WordLen + n
  BY <1>3, <1>4, <1>5, <1>6 DEF Responds
<1>9. \A i \in 1 .. WordLen : outgoing[i] = u[i]
  BY <1>4, <1>5, <1>6
<1>10. \A i \in 1 .. n : outgoing[WordLen + i] = c[i]
  BY <1>3, <1>4, <1>5, <1>6
<1> QED BY <1>1, <1>2, <1>3, <1>4, <1>7, <1>8, <1>9, <1>10

\* The length arrives whole when all of the header does.
LEMMA HeaderArrives ==
  ASSUME Responds, kept >= WordLen
  PROVE  len = Total
<1>1. PICK n \in Nat : n = Total /\ n < weight[WordLen]
  BY ContentType
<1>2. kept \in Nat
  BY ContentType, BytesConstants
<1> DEFINE s == [k \in 1 .. WordLen |-> recv(0 + k - 1)]
<1>3. ASSUME NEW k \in 1 .. WordLen PROVE s[0 + k] = u32(n)[k]
  <2>1. 0 + k = k /\ 0 + k - 1 = k - 1 /\ k - 1 < kept /\ k - 1 + 1 = k
    BY <1>2, BytesConstants
  <2>2. recv(k - 1) = outgoing[k]
    BY <2>1 DEF recv
  <2>3. s[k] = recv(k - 1)
    BY <2>1
  <2> QED BY <1>1, <2>1, <2>2, <2>3, ContentType
<1>4. len = u32_at(s, 0)
  BY DEF len, word
<1> HIDE DEF s
<1>5. u32_at(s, 0) = n
  BY <1>1, <1>3, ReadBack
<1> QED BY <1>1, <1>4, <1>5

\* A byte of the body is what was sent, or zero when it did not arrive.
LEMMA DataIs ==
  ASSUME Responds, NEW i \in 0 .. Total - 1
  PROVE  data(i) = IF WordLen + i < kept THEN Content[i + 1] ELSE 0
<1>1. WordLen + i + 1 = WordLen + (i + 1) /\ i + 1 \in 1 .. Total
  BY ContentType, BytesConstants
<1>2. outgoing[WordLen + (i + 1)] = Content[i + 1]
  BY <1>1, ContentType
<1> QED BY <1>1, <1>2 DEF data, recv

\* Past what arrived every element is the zero byte, which is the tag of nil.
LEMMA TagLost ==
  ASSUME Responds, kept >= WordLen, at \in Nat, at < Total, kept <= WordLen + at
  PROVE  /\ ~Bad /\ data(at) = TAG_NIL /\ bytes = 1 /\ field = 0
         /\ token.tag = TAG_NIL /\ token.len = 0
<1>1. data(at) = 0
  <2>1. at \in 0 .. Total - 1 /\ ~(WordLen + at < kept)
    BY ContentType, BytesConstants
  <2> QED BY <2>1, DataIs
<1>2. head = 1
  BY <1>1 DEF head, TAG_NIL, TAG_ERR, TAG_STR, TAG_ARR
<1>3. field = 0
  BY <1>1 DEF field, TAG_NIL, TAG_ERR, TAG_STR, TAG_ARR
<1>4. bytes = 1
  BY <1>1, <1>2 DEF bytes, TAG_NIL, TAG_ERR, TAG_STR, TAG_ARR
<1>5. len = Total
  BY HeaderArrives
<1>6. ~Bad
  BY <1>1, <1>2, <1>4, <1>5, ContentType, ReplyConstants DEF Bad, size, TAG_NIL, TAG_ARR
<1>7. token.tag = data(at) /\ token.len = field
  BY DEF token
<1> QED BY <1>1, <1>3, <1>4, <1>6, <1>7 DEF TAG_NIL

\* Where token j + 1 begins, and what is there.
LEMMA TokenData ==
  ASSUME Responds, NEW j \in 0 .. Len(Meant) - 1, at = Upto(Meant, j)
  PROVE  LET t == Meant[j + 1]
             o == out_(t)
         IN  /\ t \in Tok /\ ReadsBack(t, o) /\ o \in Seq(Byte) /\ Len(o) \in Nat \ {0}
             /\ at \in Nat /\ Upto(Meant, j + 1) = at + Len(o) /\ at + Len(o) <= Total
             /\ t.len < weight[WordLen]
             /\ \A i \in 0 .. Len(o) - 1 :
                  data(at + i) = IF WordLen + (at + i) < kept THEN o[1 + i] ELSE 0
<1>1. PICK r \in Seq(Tok) : r = Meant /\ WellFormed(r) /\ Len(r) \in Nat /\ Len(r) >= 1
  BY ContentType, LenProperties DEF WellFormed
<1>2. PICK k \in 1 .. Len(r) : k = j + 1 /\ k - 1 = j
  BY <1>1
<1>3. PICK t \in Tok : t = r[k] /\ ReadsBack(t, out_(t)) /\ Len(out_(t)) \in Nat \ {0}
  BY OutsType
<1>4. PICK o \in Seq(Byte) : o = out_(t) /\ Len(o) \in Nat \ {0}
  BY <1>3 DEF ReadsBack
<1>5. PICK p \in Nat : p = at
  BY <1>1, UptoType
<1>6. Upto(r, k) = Upto(r, k - 1) + Len(out_(r[k])) /\ Upto(r, k) <= Len(FlattenSeq(Outs(r)))
  BY TokenAt
<1>7. PICK n \in Nat : n = Total /\ n = Len(FlattenSeq(Outs(r)))
  BY <1>1, ContentType DEF Total, Content
<1>8. Upto(r, k) = p + Len(o) /\ p + Len(o) <= n
  BY <1>1, <1>2, <1>3, <1>4, <1>5, <1>6, <1>7
<1>9. PICK w \in Nat \ {0} : w = weight[WordLen]
  BY WeightPos, BytesConstants
<1>10. n < w
  BY <1>7, <1>9, ContentType
<1>11. t.len <= n /\ t.len \in Nat
  <2>1. /\ Len(o) = HeadOf(t.tag) + Extra(t.tag, t.len) /\ t.len \in Nat
        /\ t.tag \notin {TAG_ERR, TAG_STR, TAG_ARR} => t.len = 0
    BY <1>3, <1>4 DEF ReadsBack
  <2>2. CASE t.tag \in {TAG_ERR, TAG_STR}
    <3>1. HeadOf(t.tag) \in Nat
      BY HeadType
    <3>2. Extra(t.tag, t.len) = t.len
      BY <2>2 DEF Extra
    <3> QED BY <1>8, <2>1, <3>1, <3>2
  <2>3. CASE t.tag = TAG_ARR
    <3>1. k = 1 /\ t.len = Len(r) - 1
      BY <1>1, <1>3, <2>3 DEF WellFormed
    <3>2. Len(FlattenSeq(Outs(r))) >= Upto(r, 0) + (Len(r) - 0) /\ Upto(r, 0) = 0
      <4>1. 0 \in 0 .. Len(r)
        BY <1>1
      <4> QED BY <4>1, BytesToCome, UptoEnds
    <3> QED BY <1>1, <1>7, <2>1, <3>1, <3>2
  <2>4. CASE t.tag \notin {TAG_ERR, TAG_STR, TAG_ARR}
    BY <2>1, <2>4
  <2> QED BY <2>2, <2>3, <2>4
<1>12. ASSUME NEW i \in 0 .. Len(o) - 1
       PROVE  data(p + i) = IF WordLen + (p + i) < kept THEN o[1 + i] ELSE 0
  <2>1. p + i \in 0 .. Total - 1 /\ 1 + i \in 1 .. Len(o) /\ p + i + 1 = p + (1 + i)
    BY <1>4, <1>7, <1>8
  <2>2. data(p + i) = IF WordLen + (p + i) < kept THEN Content[p + i + 1] ELSE 0
    BY <2>1, DataIs
  <2>3. FlattenSeq(Outs(r))[Upto(r, k - 1) + (1 + i)] = out_(r[k])[1 + i]
    BY <1>3, <1>4, <2>1, TokenBytesAt
  <2>4. Content[p + (1 + i)] = o[1 + i]
    BY <1>1, <1>2, <1>3, <1>4, <1>5, <2>3 DEF Content
  <2> QED BY <2>1, <2>2, <2>4
<1>13. t.len < w
  BY <1>10, <1>11
<1> QED BY <1>1, <1>2, <1>3, <1>4, <1>5, <1>7, <1>8, <1>9, <1>12, <1>13

\* When the tag of a token arrives, the length that is read for it is no larger
\* than what was sent, and smaller only if the length did not arrive whole.
LEMMA FieldIs ==
  ASSUME Responds, NEW j \in 0 .. Len(Meant) - 1, at = Upto(Meant, j), WordLen + at < kept
  PROVE  LET t == Meant[j + 1]
         IN  /\ data(at) = t.tag /\ head = HeadOf(t.tag)
             /\ field \in 0 .. t.len
             /\ field # t.len => kept < WordLen + at + head
<1>1. PICK t : t = Meant[j + 1]
  OBVIOUS
<1>2. /\ t \in Tok /\ ReadsBack(t, out_(t)) /\ out_(t) \in Seq(Byte)
      /\ Len(out_(t)) \in Nat \ {0} /\ at \in Nat /\ t.len < weight[WordLen]
      /\ \A i \in 0 .. Len(out_(t)) - 1 :
           data(at + i) = IF WordLen + (at + i) < kept THEN out_(t)[1 + i] ELSE 0
  BY <1>1, TokenData
<1>3. PICK o \in Seq(Byte) : o = out_(t) /\ Len(o) \in Nat \ {0}
  BY <1>2
<1>4. PICK p \in Nat : p = at
  BY <1>2
<1>5. PICK g : g = t.tag
  OBVIOUS
<1>6. PICK n \in Nat : n = t.len /\ n < weight[WordLen]
  BY <1>2 DEF ReadsBack
<1>7. /\ o[1] = g /\ Len(o) = HeadOf(g) + Extra(g, n)
      /\ g \in {TAG_ERR, TAG_STR, TAG_ARR} =>
           \A k \in 1 .. WordLen : o[HeadOf(g) - WordLen + k] = u32(n)[k]
      /\ g \notin {TAG_ERR, TAG_STR, TAG_ARR} => n = 0
  BY <1>2, <1>3, <1>5, <1>6 DEF ReadsBack
<1>8. \A i \in 0 .. Len(o) - 1 : data(p + i) = IF WordLen + (p + i) < kept THEN o[1 + i] ELSE 0
  BY <1>2, <1>3, <1>4
<1>9. data(p) = g
  <2>1. 0 \in 0 .. Len(o) - 1 /\ p + 0 = p /\ 1 + 0 = 1
    BY <1>3
  <2> QED BY <1>4, <1>7, <1>8, <2>1
<1>10. head = HeadOf(g)
  BY <1>4, <1>9 DEF head, HeadOf
<1>11. kept \in Nat
  BY ContentType, BytesConstants
<1>12. CASE g \in {TAG_ERR, TAG_STR, TAG_ARR}
  <2>1. PICK h \in Nat \ {0} : h = HeadOf(g) - WordLen /\ HeadOf(g) = h + WordLen
    BY <1>12, HeadType, BytesConstants
  <2>2. Extra(g, n) \in Nat
    BY DEF Extra
  <2>3. Len(o) >= h + WordLen
    BY <1>3, <1>7, <2>1, <2>2, BytesConstants
  <2> DEFINE s == [k \in 1 .. WordLen |-> recv(WordLen + at + head - WordLen + k - 1)]
  <2>4. field = u32_at(s, 0)
    BY <1>4, <1>9, <1>12 DEF field, word
  <2>5. ASSUME NEW k \in 1 .. WordLen
        PROVE  s[0 + k] = IF WordLen + (p + (h + k - 1)) < kept THEN u32(n)[k] ELSE 0
    <3>1. /\ 0 + k = k /\ h + k - 1 \in 0 .. Len(o) - 1 /\ 1 + (h + k - 1) = h + k
          /\ WordLen + p + (h + WordLen) - WordLen + k - 1 = WordLen + (p + (h + k - 1))
      BY <1>3, <2>3, BytesConstants
    <3>2. s[k] = recv(WordLen + p + (h + WordLen) - WordLen + k - 1)
      BY <1>4, <1>10, <2>1
    <3>3. s[k] = data(p + (h + k - 1))
      BY <3>1, <3>2 DEF data
    <3>4. o[h + k] = u32(n)[k]
      BY <1>7, <1>12, <2>1
    <3> QED BY <1>8, <3>1, <3>3, <3>4
  <2> HIDE DEF s
  <2>6. PICK u \in Seq(Byte) : u = u32(n) /\ \A k \in 1 .. WordLen : u[0 + k] \in Byte /\ u[0 + k] = u[k]
    <3>1. u32(n) \in Seq(Byte) /\ \A k \in 1 .. WordLen : u32(n)[k] \in Byte
      BY U32Type
    <3>2. \A k \in 1 .. WordLen : 0 + k = k
      BY BytesConstants
    <3> QED BY <3>1, <3>2
  <2>7. IsWord(u, 0)
    BY <2>6 DEF IsWord
  <2>8. ASSUME NEW k \in 1 .. WordLen PROVE s[0 + k] \in Byte /\ s[0 + k] <= u[0 + k]
    <3>1. s[0 + k] = u[0 + k] \/ s[0 + k] = 0
      BY <2>5, <2>6
    <3>2. 0 \in Byte /\ u[0 + k] \in Byte
      BY <2>6, BytesConstants DEF Byte
    <3> QED BY <3>1, <3>2, BytesConstants DEF Byte
  <2>9. IsWord(s, 0)
    BY <2>8 DEF IsWord
  <2>10. u32_at(u, 0) = n
    <3>1. \A k \in 1 .. WordLen : u[0 + k] = u32(n)[k]
      BY <2>6
    <3> QED BY <1>6, <3>1, ReadBack
  <2>11. u32_at(s, 0) <= u32_at(u, 0)
    BY <2>7, <2>8, <2>9, SmallerWord
  <2>12. u32_at(s, 0) \in Nat
    <3>1. PICK w \in Nat \ {0} : w = weight[WordLen]
      BY WeightPos, BytesConstants
    <3>2. u32_at(s, 0) \in 0 .. w - 1
      BY <2>9, <3>1, U32AtType
    <3> QED BY <3>1, <3>2
  <2>13. ASSUME ~(kept < WordLen + p + head) PROVE field = n
    <3>1. ASSUME NEW k \in 1 .. WordLen PROVE s[0 + k] = u32(n)[k]
      <4>1. PICK w \in Nat : w = WordLen
        BY BytesConstants
      <4>2. head = h + w
        BY <1>10, <2>1, <4>1
      <4>3. kept >= w + p + (h + w)
        BY <1>11, <2>13, <4>1, <4>2
      <4>4. k \in Nat /\ k <= w
        BY <4>1
      <4>5. w + (p + (h + k - 1)) < kept
        BY <1>11, <4>3, <4>4
      <4> QED BY <2>5, <4>1, <4>5
    <3> QED BY <1>6, <2>4, <3>1, ReadBack
  <2>14. field \in 0 .. n
    BY <2>4, <2>10, <2>11, <2>12
  <2> QED BY <1>1, <1>4, <1>5, <1>6, <1>9, <1>10, <2>13, <2>14
<1>13. CASE g \notin {TAG_ERR, TAG_STR, TAG_ARR}
  <2>1. field = 0 /\ n = 0
    BY <1>4, <1>7, <1>9, <1>13 DEF field
  <2> QED BY <1>1, <1>4, <1>5, <1>6, <1>9, <1>10, <2>1
<1> QED BY <1>12, <1>13

\* What print_response makes of token j + 1 when its tag arrives.
LEMMA TokenRead ==
  ASSUME Responds, kept >= WordLen,
         NEW j \in 0 .. Len(Meant) - 1, at = Upto(Meant, j), WordLen + at < kept
  PROVE  LET t == Meant[j + 1]
         IN  /\ ~Bad /\ token.tag = t.tag /\ token.len = field
             /\ data(at) = t.tag /\ field \in 0 .. t.len
             /\ bytes = HeadOf(t.tag) + Extra(t.tag, field)
             /\ field # t.len => kept < WordLen + at + bytes
             /\ kept = Len(outgoing) => field = t.len /\ token = t
<1>1. PICK t : t = Meant[j + 1]
  OBVIOUS
<1>2. /\ t \in Tok /\ ReadsBack(t, out_(t)) /\ out_(t) \in Seq(Byte)
      /\ Len(out_(t)) \in Nat \ {0} /\ at \in Nat /\ at + Len(out_(t)) <= Total
      /\ \A i \in 0 .. Len(out_(t)) - 1 :
           data(at + i) = IF WordLen + (at + i) < kept THEN out_(t)[1 + i] ELSE 0
  BY <1>1, TokenData
<1>3. PICK o \in Seq(Byte) : o = out_(t) /\ Len(o) \in Nat \ {0}
  BY <1>2
<1>4. PICK p \in Nat : p = at
  BY <1>2
<1>5. PICK g : g = t.tag
  OBVIOUS
<1>6. PICK n \in Nat : n = t.len
  BY <1>2 DEF ReadsBack
<1>7. /\ t = [tag |-> g, len |-> n, bytes |-> t.bytes] /\ g \in TAG_NIL .. TAG_ARR
      /\ Len(o) = HeadOf(g) + Extra(g, n)
      /\ t.bytes = BytesOf(g, [i \in 1 .. Len(o) - 1 |-> o[1 + i]], Len(o))
  BY <1>2, <1>3, <1>5, <1>6 DEF ReadsBack
<1>8. data(at) = g /\ head = HeadOf(g) /\ field \in 0 .. n /\ (field # n => kept < WordLen + p + head)
  BY <1>1, <1>4, <1>5, <1>6, FieldIs
<1>9. PICK h \in Nat \ {0} : h = HeadOf(g)
  BY HeadType
<1>10. PICK f \in Nat : f = field /\ f <= n
  BY <1>8
<1>11. bytes = h + Extra(g, f)
  BY <1>8, <1>9, <1>10 DEF bytes, Extra
<1>12. Extra(g, f) \in Nat /\ Extra(g, n) \in Nat /\ Extra(g, f) <= Extra(g, n)
  BY <1>10 DEF Extra
<1>13. h <= bytes /\ bytes <= Len(o) /\ bytes \in Nat
  BY <1>3, <1>7, <1>9, <1>11, <1>12
<1>14. PICK total \in Nat : total = Total /\ total <= k_max_msg /\ p + Len(o) <= total
  BY <1>2, <1>3, <1>4, ContentType
<1>15. len = total
  BY <1>14, HeaderArrives
<1>16. ~Bad
  <2>1. size = total - p
    BY <1>4, <1>15 DEF size
  <2>2. ~(len > k_max_msg)
    BY <1>14, <1>15, ReplyConstants
  <2>3. ~(size < 1) /\ ~(size < head) /\ ~(size < bytes)
    BY <1>3, <1>8, <1>9, <1>13, <1>14, <2>1
  <2> QED BY <1>7, <1>8, <2>2, <2>3 DEF Bad
<1>17. token.tag = g /\ token.len = f
  BY <1>8, <1>10 DEF token
<1>18. f # n => kept < WordLen + p + bytes
  <2>1. kept \in Nat
    BY ContentType, BytesConstants
  <2> QED BY <1>8, <1>9, <1>10, <1>13, <2>1, BytesConstants
<1>19. ASSUME kept = Len(outgoing) PROVE f = n /\ token = t
  <2>1. kept = WordLen + total
    BY <1>14, <1>19, ContentType
  <2>2. f = n
    BY <1>3, <1>13, <1>14, <1>18, <2>1, BytesConstants
  <2>3. bytes = Len(o)
    BY <1>7, <1>9, <1>11, <2>2
  <2>4. ASSUME NEW i \in 1 .. Len(o) - 1 PROVE data(p + i) = o[1 + i]
    <3>1. i \in 0 .. Len(o) - 1 /\ WordLen + (p + i) < kept
      BY <1>3, <1>14, <2>1, BytesConstants
    <3> QED BY <1>2, <1>3, <1>4, <3>1
  <2>5. [i \in 1 .. bytes - 1 |-> data(at + i)] = [i \in 1 .. Len(o) - 1 |-> o[1 + i]]
    BY <1>4, <2>3, <2>4
  <2>6. token = [tag |-> g, len |-> f,
                 bytes |-> BytesOf(g, [i \in 1 .. bytes - 1 |-> data(at + i)], bytes)]
    BY <1>8, <1>10, Zenon DEF token, BytesOf
  <2>7. token = [tag |-> g, len |-> n, bytes |-> t.bytes]
    BY <1>7, <2>2, <2>3, <2>5, <2>6, Zenon
  <2> QED BY <1>7, <2>2, <2>7
<1> QED BY <1>1, <1>4, <1>5, <1>6, <1>8, <1>9, <1>10, <1>11, <1>16, <1>17, <1>18, <1>19

\* The stack of print_response when r elements are to come.
Stack(r) == IF r = 0 THEN << >> ELSE <<r>>

LEMMA CloseIs ==
  ASSUME NEW r \in Nat
  PROVE  close(<< >>) = << >> /\ close(<<r>>) = Stack(r)
<1>1. Max({0}) = 0
  BY DEF Max
<1>2. Max({0, 1}) = 1
  BY DEF Max
<1>3. close(<< >>) = << >>
  <2>1. {0} \cup {i \in DOMAIN << >> : << >>[i] > 0} = {0}
    OBVIOUS
  <2>2. close(<< >>) = SubSeq(<< >>, 1, 0)
    BY <1>1, <2>1 DEF close
  <2> QED BY <2>2
<1>4. PICK s \in Seq(Nat) : s = <<r>>
  <2>1. <<r>> \in Seq(Nat)
    OBVIOUS
  <2> QED BY <2>1, Zenon
<1>5. Len(s) = 1 /\ s[1] = r /\ DOMAIN s = 1 .. 1
  BY <1>4
<1>6. close(s) = SubSeq(s, 1, Max({0} \cup {i \in DOMAIN s : s[i] > 0}))
  BY DEF close
<1>7. CASE r = 0
  <2>1. {0} \cup {i \in DOMAIN s : s[i] > 0} = {0}
    BY <1>5, <1>7
  <2>2. SubSeq(s, 1, 0) = << >>
    OBVIOUS
  <2> QED BY <1>1, <1>3, <1>4, <1>6, <1>7, <2>1, <2>2 DEF Stack
<1>8. CASE r # 0
  <2>1. {0} \cup {i \in DOMAIN s : s[i] > 0} = {0, 1}
    BY <1>5, <1>8
  <2>2. SubSeq(s, 1, 1) = s
    BY <1>5
  <2> QED BY <1>2, <1>3, <1>4, <1>6, <1>8, <2>1, <2>2 DEF Stack
<1> QED BY <1>7, <1>8

\* What print_response does with an element that it prints.
Prints ==
  /\ printed' = Append(printed, token)
  /\ at' = at + bytes
  /\ LET open == IF left = << >> THEN << >>
                 ELSE [left EXCEPT ![Len(left)] = @ - 1]
     IN  left' = close(IF data(at) = TAG_ARR THEN Append(open, field) ELSE open)
  /\ accepted' = accepted
  /\ UNCHANGED <<reply, outgoing, kept>>

LEMMA GoodElement ==
  ASSUME print_response, ~Bad
  PROVE  Prints /\ (at = 0 \/ left # << >>)
BY DEF print_response, Prints

LEMMA ElementsLeft ==
  ASSUME Prints, NEW r \in Nat, left = Stack(r)
  PROVE  /\ data(at) # TAG_ARR => left' = Stack(IF r = 0 THEN 0 ELSE r - 1)
         /\ data(at) = TAG_ARR /\ r = 0 /\ field \in Nat => left' = Stack(field)
<1>1. CASE r = 0
  <2>1. left = << >>
    BY <1>1 DEF Stack
  <2>2. left' = close(IF data(at) = TAG_ARR THEN Append(<< >>, field) ELSE << >>)
    BY <2>1 DEF Prints
  <2>3. Append(<< >>, field) = <<field>>
    OBVIOUS
  <2>4. Stack(0) = << >>
    BY DEF Stack
  <2> QED BY <1>1, <2>2, <2>3, <2>4, CloseIs
<1>2. CASE r # 0
  <2>1. left = <<r>> /\ left # << >>
    BY <1>2 DEF Stack
  <2>2. [left EXCEPT ![Len(left)] = left[Len(left)] - 1] = <<r - 1>>
    BY <2>1
  <2>3. data(at) # TAG_ARR => left' = close(<<r - 1>>)
    BY <2>1, <2>2 DEF Prints
  <2>4. r - 1 \in Nat
    BY <1>2
  <2> QED BY <1>2, <2>3, <2>4, CloseIs
<1> QED BY <1>1, <1>2

\* What is printed has the tags and lengths of the first j tokens, and is these
\* tokens when the whole response arrived.
Printed(j) ==
  /\ \E A : printed \in Seq(A)
  /\ Len(printed) = j
  /\ \A i \in 1 .. j : printed[i].tag = Meant[i].tag /\ printed[i].len = Meant[i].len
  /\ kept = Len(outgoing) => \A i \in 1 .. j : printed[i] = Meant[i]

ToCome(j) == IF j = 0 THEN 0 ELSE Len(Meant) - j

\* The client is where the server wrote the j-th token's end.
OnTrack(j) ==
  /\ at = Upto(Meant, j)
  /\ left = Stack(ToCome(j))
  /\ Printed(j)

\* The client took a length that did not arrive whole for a smaller one, and
\* only zeros are left: it will stop before the end.
OffTrack(r) ==
  /\ at \in Nat \ {0} /\ kept <= WordLen + at
  /\ at + r < Total
  /\ left = Stack(r)

LEMMA PrintedNext ==
  ASSUME NEW j \in Nat, Printed(j), Prints,
         token.tag = Meant[j + 1].tag, token.len = Meant[j + 1].len,
         kept = Len(outgoing) => token = Meant[j + 1]
  PROVE  Printed(j + 1)'
<1>1. PICK A : printed \in Seq(A)
  BY DEF Printed
<1>2. PICK B : B = A \cup {token}
  OBVIOUS
<1>3. PICK p \in Seq(B) : p = printed
  BY <1>1, <1>2
<1>4. PICK t \in B : t = token
  BY <1>2
<1>5. Len(p) = j
  BY <1>3 DEF Printed
<1>6. PICK q \in Seq(B) : q = Append(p, t)
  <2>1. Append(p, t) \in Seq(B)
    OBVIOUS
  <2> QED BY <2>1
<1>7. Len(q) = j + 1 /\ q[j + 1] = t /\ \A i \in 1 .. j : q[i] = p[i]
  BY <1>5, <1>6
<1>8. printed' = q
  BY <1>3, <1>4, <1>6 DEF Prints
<1>9. Meant' = Meant /\ kept' = kept /\ outgoing' = outgoing
  BY DEF Prints, Meant
<1>10. ASSUME NEW i \in 1 .. j + 1
       PROVE  /\ q[i].tag = Meant[i].tag /\ q[i].len = Meant[i].len
              /\ kept = Len(outgoing) => q[i] = Meant[i]
  <2>1. CASE i = j + 1
    BY <1>4, <1>7, <2>1
  <2>2. CASE i \in 1 .. j
    BY <1>3, <1>7, <2>2 DEF Printed
  <2> QED BY <2>1, <2>2
<1>11. \E C : printed' \in Seq(C)
  BY <1>6, <1>8
<1> QED BY <1>7, <1>8, <1>9, <1>10, <1>11 DEF Printed

\* On track, one more token is printed or the track is left for good.
LEMMA PrintOnTrack ==
  ASSUME Responds, kept >= WordLen, NEW j \in 0 .. Len(Meant), OnTrack(j), print_response
  PROVE  /\ accepted' = accepted
         /\ \/ \E k \in 0 .. Len(Meant) : OnTrack(k)'
            \/ \E r \in Nat : OffTrack(r)'
<1>1. PICK n \in Nat : n = Len(Meant) /\ n >= 1
  BY ContentType, LenProperties DEF WellFormed
<1>2. PICK total \in Nat : total = Total
  BY ContentType
<1>3. PICK p \in Nat : p = at
  BY ContentType, UptoType DEF OnTrack, WellFormed
<1>4. kept \in Nat /\ Len(outgoing) = WordLen + total
  BY <1>2, ContentType, BytesConstants
<1>5. j < n
  <2> SUFFICES ASSUME j = n PROVE FALSE
    BY <1>1
  <2>1. left = << >>
    BY <1>1 DEF OnTrack, ToCome, Stack
  <2>2. p = total
    BY <1>1, <1>2, <1>3, ContentType, UptoEnds DEF OnTrack, WellFormed, Total, Content
  <2>3. total >= 0 + (n - 0)
    <3>1. 0 \in 0 .. Len(Meant)
      BY <1>1
    <3>2. Len(FlattenSeq(Outs(Meant))) >= Upto(Meant, 0) + (Len(Meant) - 0) /\ Upto(Meant, 0) = 0
      BY <3>1, ContentType, BytesToCome, UptoEnds DEF WellFormed
    <3> QED BY <1>1, <1>2, <3>2 DEF Total, Content
  <2> QED BY <1>1, <1>3, <2>1, <2>2, <2>3 DEF print_response
<1>6. PICK t : t = Meant[j + 1]
  OBVIOUS
<1>7. j \in 0 .. Len(Meant) - 1 /\ at = Upto(Meant, j)
  BY <1>1, <1>5 DEF OnTrack
<1>8. /\ ReadsBack(t, out_(t)) /\ Len(out_(t)) \in Nat \ {0}
      /\ Upto(Meant, j + 1) = at + Len(out_(t)) /\ at + Len(out_(t)) <= Total
  BY <1>6, <1>7, TokenData
<1>9. PICK m \in Nat \ {0} : m = Len(out_(t))
  BY <1>8
<1>10. PICK h \in Nat \ {0} : h = HeadOf(t.tag)
  BY HeadType
<1>11. PICK l \in Nat : l = t.len /\ m = h + Extra(t.tag, l)
  BY <1>8, <1>9, <1>10 DEF ReadsBack
<1>12. PICK u \in Nat : u = Upto(Meant, j + 1) /\ u = p + m /\ u + (n - (j + 1)) <= total
  <2>1. Len(FlattenSeq(Outs(Meant))) >= Upto(Meant, j + 1) + (Len(Meant) - (j + 1))
    <3>1. j + 1 \in 0 .. Len(Meant)
      BY <1>1, <1>5
    <3> QED BY <3>1, ContentType, BytesToCome DEF WellFormed
  <2>2. p + m = Upto(Meant, j + 1)
    BY <1>3, <1>8, <1>9
  <2> QED BY <1>1, <1>2, <1>3, <1>9, <2>1, <2>2 DEF Total, Content
<1>13. /\ j # 0 => t.tag # TAG_ARR
       /\ j = 0 /\ t.tag = TAG_ARR => l = n - 1
       /\ j = 0 /\ t.tag # TAG_ARR => n = 1
  <2>1. j + 1 \in 1 .. Len(Meant)
    BY <1>1, <1>5
  <2> QED BY <1>1, <1>6, <1>11, <2>1, ContentType DEF WellFormed
<1>14. PICK r \in Nat : r = ToCome(j) /\ (j = 0 => r = 0) /\ (j # 0 => r = n - j)
  <2>1. ToCome(j) = IF j = 0 THEN 0 ELSE n - j
    BY <1>1 DEF ToCome
  <2>2. n - j \in Nat
    BY <1>1, <1>5
  <2>3. CASE j = 0
    BY <2>1, <2>3
  <2>4. CASE j # 0
    BY <2>1, <2>2, <2>4
  <2> QED BY <2>3, <2>4
<1>15. left = Stack(r)
  BY <1>14 DEF OnTrack
<1>16. PICK r1 \in Nat : r1 = (IF r = 0 THEN 0 ELSE r - 1) /\ (t.tag # TAG_ARR => r1 = n - (j + 1))
                         /\ r1 <= n - (j + 1)
  BY <1>1, <1>5, <1>13, <1>14
<1>17. ToCome(j + 1) = n - (j + 1)
  BY <1>1 DEF ToCome
<1>18. ASSUME Prints
       PROVE  /\ accepted' = accepted /\ Meant' = Meant /\ Total' = Total /\ kept' = kept
              /\ at' = p + bytes /\ \A k : ToCome(k)' = ToCome(k)
  BY <1>3, <1>18 DEF Prints, Meant, Total, Content, ToCome
<1>19. ASSUME Prints, at' = u, left' = Stack(n - (j + 1)), Printed(j + 1)'
       PROVE  OnTrack(j + 1)' /\ j + 1 \in 0 .. Len(Meant)
  BY <1>1, <1>5, <1>12, <1>17, <1>18, <1>19 DEF OnTrack
<1>20. ASSUME Prints, NEW q \in Nat, NEW b \in Nat \ {0}, at' = p + b,
              kept <= WordLen + (p + b), p + b + q < total, left' = Stack(q)
       PROVE  OffTrack(q)'
  BY <1>2, <1>18, <1>20 DEF OffTrack
<1>21. CASE WordLen + p < kept
  <2>1. /\ ~Bad /\ token.tag = t.tag /\ token.len = field /\ data(at) = t.tag
        /\ field \in 0 .. l /\ bytes = h + Extra(t.tag, field)
        /\ field # l => kept < WordLen + at + bytes
        /\ kept = Len(outgoing) => field = l /\ token = t
    BY <1>3, <1>6, <1>7, <1>10, <1>11, <1>21, TokenRead
  <2>2. Prints
    BY <2>1, GoodElement
  <2>3. PICK f \in Nat : f = field /\ f <= l
    BY <2>1, <1>11
  <2>4. PICK b \in Nat \ {0} : b = bytes /\ b = h + Extra(t.tag, f)
    <3>1. Extra(t.tag, f) \in Nat
      BY <2>3 DEF Extra
    <3> QED BY <1>10, <2>1, <2>3, <3>1
  <2>5. /\ t.tag # TAG_ARR => left' = Stack(r1)
        /\ t.tag = TAG_ARR => left' = Stack(f)
    BY <1>13, <1>14, <1>15, <1>16, <2>1, <2>2, <2>3, ElementsLeft
  <2>6. at' = p + b
    BY <1>18, <2>2, <2>4
  <2>7. CASE f = l
    <3>1. b = m
      BY <1>11, <2>4, <2>7
    <3>2. left' = Stack(n - (j + 1))
      BY <1>13, <1>16, <2>5, <2>7
    <3>3. Printed(j + 1)'
      <4>1. Printed(j)
        BY DEF OnTrack
      <4>2. token.tag = t.tag /\ token.len = t.len /\ (kept = Len(outgoing) => token = t)
        BY <1>11, <2>1, <2>3, <2>7
      <4>3. /\ token.tag = Meant[j + 1].tag /\ token.len = Meant[j + 1].len
            /\ kept = Len(outgoing) => token = Meant[j + 1]
        BY <1>6, <4>2
      <4> QED BY <1>1, <2>2, <4>1, <4>3, PrintedNext
    <3> QED BY <1>12, <1>18, <1>19, <2>2, <2>6, <3>1, <3>2, <3>3
  <2>8. CASE f # l
    <3>1. kept <= WordLen + (p + b)
      BY <1>3, <1>4, <2>1, <2>3, <2>4, <2>8, BytesConstants
    <3>2. f < l /\ t.tag \in {TAG_ERR, TAG_STR, TAG_ARR}
      BY <1>8, <1>11, <2>3, <2>8 DEF ReadsBack
    <3>3. CASE t.tag = TAG_ARR
      <4>1. b = m
        BY <1>11, <2>4, <3>3, Tags DEF Extra
      <4>2. f < n - (j + 1)
        BY <1>13, <3>2, <3>3
      <4>3. p + b + f < total
        BY <1>1, <1>12, <4>1, <4>2
      <4>4. left' = Stack(f)
        BY <2>5, <3>3
      <4> QED BY <1>18, <1>20, <2>2, <2>6, <3>1, <4>3, <4>4
    <3>4. CASE t.tag # TAG_ARR
      <4>1. b < m
        BY <1>11, <2>3, <2>4, <3>2, <3>4 DEF Extra
      <4>2. p + b + r1 < total
        BY <1>1, <1>12, <1>16, <4>1
      <4>3. left' = Stack(r1)
        BY <2>5, <3>4
      <4> QED BY <1>18, <1>20, <2>2, <2>6, <3>1, <4>2, <4>3
    <3> QED BY <3>3, <3>4
  <2> QED BY <2>7, <2>8
<1>22. CASE ~(WordLen + p < kept)
  <2>1. kept <= WordLen + at /\ at < Total /\ at \in Nat
    BY <1>2, <1>3, <1>4, <1>8, <1>9, <1>22, BytesConstants
  <2>2. /\ ~Bad /\ data(at) = TAG_NIL /\ bytes = 1 /\ field = 0
        /\ token.tag = TAG_NIL /\ token.len = 0
    BY <2>1, TagLost
  <2>3. Prints
    BY <2>2, GoodElement
  <2>4. at' = p + 1
    BY <1>18, <2>2, <2>3
  <2>5. left' = Stack(r1)
    <3>1. data(at) # TAG_ARR
      BY <2>2 DEF TAG_NIL, TAG_ARR
    <3> QED BY <1>15, <1>16, <2>3, <3>1, ElementsLeft
  <2>6. kept <= WordLen + (p + 1)
    BY <1>3, <1>4, <2>1, BytesConstants
  <2>7. CASE t.tag = TAG_NIL
    <3>1. h = 1 /\ m = 1 /\ l = 0
      BY <1>8, <1>10, <1>11, <2>7, Tags
         DEF ReadsBack, HeadOf, Extra, TAG_NIL, TAG_ERR, TAG_STR, TAG_ARR
    <3>2. kept # Len(outgoing)
      BY <1>2, <1>3, <1>4, <2>1, BytesConstants
    <3>3. Printed(j + 1)'
      <4>1. token.tag = Meant[j + 1].tag /\ token.len = Meant[j + 1].len
        BY <1>6, <1>11, <2>2, <2>7, <3>1
      <4>2. j \in Nat /\ Printed(j)
        BY <1>1, <1>5 DEF OnTrack
      <4> QED BY <2>3, <3>2, <4>1, <4>2, PrintedNext
    <3>4. t.tag # TAG_ARR
      BY <2>7 DEF TAG_NIL, TAG_ARR
    <3> QED BY <1>12, <1>16, <1>18, <1>19, <2>3, <2>4, <2>5, <3>1, <3>3, <3>4
  <2>8. CASE t.tag # TAG_NIL
    <3>1. m > 1
      <4>1. h > 1
        BY <1>10, <2>8, HeadType
      <4>2. Extra(t.tag, l) \in Nat
        BY DEF Extra
      <4> QED BY <1>11, <4>1, <4>2
    <3>2. p + 1 + r1 < total
      BY <1>1, <1>12, <1>16, <3>1
    <3> QED BY <1>18, <1>20, <2>3, <2>4, <2>5, <2>6, <3>2
  <2> QED BY <2>7, <2>8
<1> QED BY <1>21, <1>22

\* Off track, zeros are read until no element is to come.
LEMMA PrintOffTrack ==
  ASSUME Responds, kept >= WordLen, NEW r \in Nat, OffTrack(r), print_response
  PROVE  accepted' = accepted /\ \E q \in Nat : OffTrack(q)'
<1>1. PICK p \in Nat \ {0} : p = at
  BY DEF OffTrack
<1>2. PICK total \in Nat : total = Total
  BY ContentType
<1>3. kept \in Nat /\ kept <= WordLen + p /\ p + r < total /\ left = Stack(r)
  BY <1>1, <1>2, ContentType, BytesConstants DEF OffTrack
<1>4. /\ ~Bad /\ data(at) = TAG_NIL /\ bytes = 1
  BY <1>1, <1>2, <1>3, TagLost
<1>5. Prints /\ left # << >>
  BY <1>1, <1>4, GoodElement
<1>6. r # 0
  BY <1>3, <1>5 DEF Stack
<1>7. PICK q \in Nat : q = r - 1 /\ left' = Stack(q)
  <2>1. data(at) # TAG_ARR
    BY <1>4 DEF TAG_NIL, TAG_ARR
  <2>2. left' = Stack(r - 1) /\ r - 1 \in Nat
    BY <1>3, <1>5, <1>6, <2>1, ElementsLeft
  <2> QED BY <2>2
<1>8. accepted' = accepted /\ Total' = Total /\ kept' = kept /\ at' = p + 1
  BY <1>1, <1>4, <1>5 DEF Prints, Meant, Total, Content
<1>9. kept <= WordLen + (p + 1) /\ p + 1 + q < total
  BY <1>3, <1>7, BytesConstants
<1>10. OffTrack(q)'
  BY <1>2, <1>7, <1>8, <1>9 DEF OffTrack
<1> QED BY <1>8, <1>10

\* Once the header has arrived, the client is on track or off it, accepts only
\* what it has read to the end, and rejects only what was cut short.
TrackInv ==
  /\ accepted \in {"none", "ok", "error"}
  /\ kept >= WordLen =>
       /\ \/ \E j \in 0 .. Len(Meant) : OnTrack(j)
          \/ \E r \in Nat : OffTrack(r)
       /\ accepted = "ok" => OnTrack(Len(Meant))
       /\ accepted = "error" => kept # Len(outgoing)

ReplyInv ==
  /\ phase = "reply" => Responds /\ TrackInv
  /\ phase # "reply" => /\ at = 0 /\ left = << >> /\ printed = << >> /\ accepted = "none"

LEMMA OffTrackIsCut ==
  ASSUME Responds, NEW r \in Nat, OffTrack(r)
  PROVE  kept # Len(outgoing)
BY ContentType, BytesConstants DEF OffTrack

\* Nothing of this changes while the reply, the client's place and what it
\* printed stay.
LEMMA TrackStays ==
  ASSUME UNCHANGED <<reply, outgoing, kept, at, left, printed>>
  PROVE  /\ Meant' = Meant /\ (Responds => Responds')
         /\ \A j : OnTrack(j) => OnTrack(j)'
         /\ \A r : OffTrack(r) => OffTrack(r)'
<1>1. Meant' = Meant /\ Total' = Total /\ (Responds => Responds')
  BY DEF Meant, Total, Content, Responds
<1>2. ASSUME NEW j, OnTrack(j) PROVE OnTrack(j)'
  BY <1>1, <1>2 DEF OnTrack, Printed, ToCome
<1>3. ASSUME NEW r, OffTrack(r) PROVE OffTrack(r)'
  BY <1>1, <1>3 DEF OffTrack
<1> QED BY <1>1, <1>2, <1>3

\* When no element is to come, a client on track has read everything.
LEMMA TrackEnds ==
  ASSUME Responds, kept >= WordLen, NEW j \in 0 .. Len(Meant), OnTrack(j), at > 0, left = << >>
  PROVE  j = Len(Meant) /\ size_matches
<1>1. PICK n \in Nat : n = Len(Meant)
  BY ContentType, LenProperties DEF WellFormed
<1>2. Meant \in Seq(Tok)
  BY ContentType DEF WellFormed
<1>3. j # 0
  BY <1>2, UptoEnds DEF OnTrack
<1>4. ToCome(j) = 0
  BY DEF OnTrack, Stack
<1>5. j = n
  BY <1>1, <1>3, <1>4 DEF ToCome
<1>6. at = Total
  BY <1>1, <1>2, <1>5, UptoEnds DEF OnTrack, Total, Content
<1>7. len = Total
  BY HeaderArrives
<1> QED BY <1>1, <1>5, <1>6, <1>7 DEF size_matches

\* print_response and read_response keep this.
LEMMA ReadsReply ==
  ASSUME Responds, TrackInv, client_reads
  PROVE  Responds' /\ TrackInv'
<1>1. UNCHANGED <<reply, outgoing, kept>> /\ accepted = "none"
  BY DEF client_reads, print_response, read_response
<1>2. Responds'
  BY <1>1 DEF Responds
<1>3. accepted' \in {"none", "ok", "error"}
  BY <1>1 DEF client_reads, print_response, read_response
<1>4. CASE ~(kept >= WordLen)
  BY <1>1, <1>2, <1>3, <1>4 DEF TrackInv
<1>5. CASE kept >= WordLen /\ print_response
  <2>1. /\ accepted' = accepted
        /\ \/ \E k \in 0 .. Len(Meant) : OnTrack(k)'
           \/ \E r \in Nat : OffTrack(r)'
    BY <1>5, PrintOnTrack, PrintOffTrack DEF TrackInv
  <2>2. Meant' = Meant
    BY <1>1 DEF Meant
  <2> QED BY <1>1, <1>2, <2>1, <2>2 DEF TrackInv
<1>6. CASE kept >= WordLen /\ read_response
  <2>1. /\ UNCHANGED <<reply, outgoing, kept, at, left, printed>>
        /\ at > 0 /\ left = << >>
        /\ accepted' = IF size_matches THEN "ok" ELSE "error"
    BY <1>6 DEF read_response
  <2>2. CASE \E j \in 0 .. Len(Meant) : OnTrack(j)
    <3>1. OnTrack(Len(Meant)) /\ Len(Meant) \in 0 .. Len(Meant) /\ size_matches
      BY <1>6, <2>1, <2>2, TrackEnds
    <3>2. OnTrack(Len(Meant))' /\ Meant' = Meant
      BY <2>1, <3>1, TrackStays
    <3> QED BY <1>2, <2>1, <3>1, <3>2 DEF TrackInv
  <2>3. CASE \E r \in Nat : OffTrack(r)
    <3>1. PICK r \in Nat : OffTrack(r)
      BY <2>3
    <3>2. ~size_matches
      <4>1. len = Total /\ Total \in Nat
        BY <1>6, HeaderArrives, ContentType
      <4>2. at \in Nat /\ at + r < Total
        BY <3>1 DEF OffTrack
      <4>3. at # Total
        BY <4>1, <4>2
      <4> QED BY <4>1, <4>3 DEF size_matches
    <3>3. kept # Len(outgoing)
      BY <3>1, OffTrackIsCut
    <3>4. OffTrack(r)'
      BY <2>1, <3>1, TrackStays
    <3> QED BY <1>2, <2>1, <3>1, <3>2, <3>3, <3>4 DEF TrackInv
  <2> QED BY <1>6, <2>2, <2>3 DEF TrackInv
<1> QED BY <1>4, <1>5, <1>6 DEF client_reads

\* do_request starts on track.
LEMMA StartsReply ==
  ASSUME do_request, at = 0, left = << >>, printed = << >>, accepted = "none"
  PROVE  Responds' /\ TrackInv'
<1>1. /\ reply' \in Reply /\ outgoing' = response(reply') /\ kept' \in 0 .. Len(outgoing')
      /\ at' = 0 /\ left' = << >> /\ printed' = << >> /\ accepted' = "none"
  BY DEF do_request
<1>2. Responds'
  BY <1>1 DEF Responds
<1>3. WellFormed(Meant')
  BY <1>1, SentFits DEF Meant
<1>4. Upto(Meant', 0) = 0
  BY <1>3, UptoEnds DEF WellFormed
<1>5. Stack(ToCome(0)') = << >>
  BY DEF Stack, ToCome
<1>6. Printed(0)'
  <2>1. << >> \in Seq({}) /\ Len(<< >>) = 0
    OBVIOUS
  <2> QED BY <1>1, <2>1 DEF Printed
<1>7. OnTrack(0)'
  BY <1>1, <1>4, <1>5, <1>6 DEF OnTrack, Upto
<1>8. 0 \in 0 .. Len(Meant')
  BY <1>3, LenProperties DEF WellFormed
<1> QED BY <1>1, <1>2, <1>7, <1>8 DEF TrackInv

LEMMA InitReply == Init => ReplyInv
BY DEF Init, ReplyInv

LEMMA NextReply == ReplyInv /\ [Next]_vars => ReplyInv'
<1> SUFFICES ASSUME ReplyInv, [Next]_vars PROVE ReplyInv'
  OBVIOUS
<1>1. ASSUME UNCHANGED replyVars, phase' = phase PROVE ReplyInv'
  <2>1. UNCHANGED <<reply, outgoing, kept, at, left, printed, accepted>>
    BY <1>1 DEF replyVars
  <2>2. CASE phase # "reply"
    BY <1>1, <2>1, <2>2 DEF ReplyInv
  <2>3. CASE phase = "reply"
    <3>1. Responds /\ TrackInv
      BY <2>3 DEF ReplyInv
    <3>2. Responds' /\ TrackInv'
      BY <2>1, <3>1, TrackStays DEF TrackInv
    <3> QED BY <1>1, <2>3, <3>2 DEF ReplyInv
  <2> QED BY <2>2, <2>3
<1>2. CASE type_line \/ refuse_request \/ parse
  BY <1>1, <1>2 DEF type_line, refuse_request, parse
<1>3. CASE send_request
  BY <1>3 DEF send_request, replyVars, ReplyInv
<1>4. CASE do_request
  <2>1. at = 0 /\ left = << >> /\ printed = << >> /\ accepted = "none" /\ phase' = "reply"
    BY <1>4 DEF do_request, ReplyInv
  <2> QED BY <1>4, <2>1, StartsReply DEF ReplyInv
<1>5. CASE read_reply
  <2>1. phase = "reply" /\ phase' = "reply" /\ client_reads
    BY <1>5 DEF read_reply
  <2> QED BY <2>1, ReadsReply DEF ReplyInv
<1>6. CASE next_line
  BY <1>6 DEF next_line, ReplyInv
<1>7. CASE UNCHANGED vars
  BY <1>1, <1>7 DEF vars
<1> QED BY <1>2, <1>3, <1>4, <1>5, <1>6, <1>7 DEF Next

\* print_response stays where out_nil, out_str, out_int, out_dbl, out_err and
\* out_arr of server.cpp put the elements, until it takes a length that did not
\* arrive whole for a smaller one.
THEOREM ReplyInvariant == Spec => []ReplyInv
BY InitReply, NextReply, PTL DEF Spec

\* What has been printed of a response that arrived whole.
LEMMA PrintedAll ==
  ASSUME Responds, Printed(Len(Meant))
  PROVE  /\ kept = Len(outgoing) => printed = Meant
         /\ Shape(printed) = Shape(Meant)
<1>1. PICK A : printed \in Seq(A)
  BY DEF Printed
<1>2. Meant \in Seq(Tok)
  BY ContentType DEF WellFormed
<1>3. PICK B : B = A \cup Tok
  OBVIOUS
<1>4. PICK n \in Nat : n = Len(Meant) /\ n = Len(printed)
  BY <1>2, LenProperties DEF Printed
<1>5. printed \in [1 .. n -> B] /\ Meant \in [1 .. n -> B]
  <2>1. printed \in [1 .. n -> A]
    BY <1>1, <1>4, LenProperties
  <2>2. Meant \in [1 .. n -> Tok]
    BY <1>2, <1>4, LenProperties
  <2>3. A \subseteq B /\ Tok \subseteq B
    BY <1>3
  <2> QED BY <2>1, <2>2, <2>3
<1>6. ASSUME kept = Len(outgoing) PROVE printed = Meant
  <2>1. \A i \in 1 .. n : printed[i] = Meant[i]
    BY <1>4, <1>6 DEF Printed
  <2> QED BY <1>5, <2>1
<1>7. Shape(printed) = Shape(Meant)
  <2>1. DOMAIN printed = 1 .. n /\ DOMAIN Meant = 1 .. n
    BY <1>5
  <2>2. \A i \in 1 .. n : printed[i].tag = Meant[i].tag /\ printed[i].len = Meant[i].len
    BY <1>4 DEF Printed
  <2> QED BY <2>1, <2>2, Zenon DEF Shape
<1> QED BY <1>6, <1>7

LEMMA ReplyInvRight == ReplyInv => ClientReadsReply /\ ShapeIsRight
<1> SUFFICES ASSUME ReplyInv PROVE ClientReadsReply /\ ShapeIsRight
  OBVIOUS
<1>1. CASE phase # "reply"
  BY <1>1 DEF ReplyInv, ClientReadsReply, ShapeIsRight
<1>2. CASE phase = "reply"
  <2>1. Responds /\ TrackInv
    BY <1>2 DEF ReplyInv
  <2>2. kept = Len(outgoing) => kept >= WordLen
    BY <2>1, ContentType, BytesConstants
  <2>3. accepted = "ok" /\ kept >= WordLen =>
          /\ kept = Len(outgoing) => printed = Meant
          /\ Shape(printed) = Shape(Meant)
    BY <2>1, PrintedAll DEF TrackInv, OnTrack
  <2> QED BY <2>1, <2>2, <2>3 DEF TrackInv, ClientReadsReply, ShapeIsRight, Meant
<1> QED BY <1>1, <1>2

\* For every size of a byte, a number, an array and k_max_msg: read_response and
\* print_response of client.cpp accept a response that arrives whole, and print
\* what the out_ functions and response_end of server.cpp wrote.
THEOREM RepliesAreExact == Spec => []ClientReadsReply
<1>1. ReplyInv => ClientReadsReply
  BY ReplyInvRight
<1> QED BY <1>1, ReplyInvariant, PTL

\* Wherever the connection ends after the header: when read_response, which
\* takes the bytes that did not arrive for zeros, accepts the response, every
\* tag and every length in what print_response printed is the server's.
THEOREM AcceptedHasShape == Spec => []ShapeIsRight
<1>1. ReplyInv => ShapeIsRight
  BY ReplyInvRight
<1> QED BY <1>1, ReplyInvariant, PTL
=============================================================================
