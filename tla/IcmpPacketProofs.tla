--------------------------- MODULE IcmpPacketProofs ---------------------------
(***************************************************************************)
(* Proofs about IcmpPacket: what checksum computes of any packet, and what *)
(* parseICMPReply finds in the answer to it.                               *)
(*                                                                         *)
(* Both loops of checksum are recursive functions.  That each exists, and  *)
(* what it yields, is shown by the least number that would be an exception *)
(* (LeastNumber).                                                          *)
(***************************************************************************)
EXTENDS IcmpPacket, SequenceTheorems, WellFoundedInduction, TLAPS

\* Every set of numbers that is not empty has a least one.
LEMMA LeastNumber ==
    ASSUME NEW S, S \subseteq Nat, S # {}
    PROVE  \E n \in S : \A m \in S : n <= m
<1>1. IsWellFoundedOn(OpToRel(<, Nat), Nat)
  BY NatLessThanWellFounded, Zenon
<1>2. PICK n \in S : \A m \in S : <<m, n>> \notin OpToRel(<, Nat)
  BY <1>1, WFMin, Zenon
<1>3. ASSUME NEW m \in S
      PROVE  n <= m
  <2>1. ~(m < n)
    BY <1>2 DEF OpToRel
  <2> QED
    BY <2>1
<1> QED
  BY <1>3

\* A set that has 0, and every number whose predecessor it has, has them all.
LEMMA NumbersUpTo ==
    ASSUME NEW k \in Nat, NEW S, 0 \in S, \A n \in 1..k : n - 1 \in S => n \in S
    PROVE  \A n \in 0..k : n \in S
<1> DEFINE Missing == {n \in 0..k : n \notin S}
<1>1. SUFFICES ASSUME Missing # {}
               PROVE  FALSE
  OBVIOUS
<1>2. PICK n \in Missing : \A m \in Missing : n <= m
  <2>1. Missing \subseteq Nat
    OBVIOUS
  <2> HIDE DEF Missing
  <2> QED
    BY <1>1, <2>1, LeastNumber
<1>3. n \in 1..k /\ n \notin S
  BY <1>2
<1>4. n - 1 \in 0..k /\ ~(n <= n - 1)
  BY <1>3
<1>5. n - 1 \in S
  BY <1>2, <1>4
<1> QED
  BY <1>3, <1>5
-------------------------------------------------------------------------------
(* The carries *)

\* The sum modulo 2^16 - 1, 0 of 0 alone.
Folded(s) == IF s = 0 THEN 0 ELSE 1 + ((s - 1) % 65535)

\* A number is one of 16 bits by its size.
LEMMA InUint16 == \A n \in Nat : n <= 65535 <=> n \in Uint16
<1>1. ASSUME NEW n \in Int
      PROVE  n \in Uint16 <=> 0 <= n /\ n <= 65535
  BY SMTT(30) DEF Uint16
<1> QED
  BY <1>1

\* Every number of 16 bits is one; 0 is of 16 bits.
LEMMA Uint16Typed == (\A n \in Uint16 : n \in Nat /\ n <= 65535) /\ 0 \in Uint16
<1>1. ASSUME NEW n \in Uint16
      PROVE  n \in Nat
  BY SMTT(30) DEF Uint16
<1> QED
  BY <1>1, InUint16

\* 2^16 is a number.
LEMMA Power == 2^16 = 65536
OBVIOUS

\* 2^16 is 1 modulo 2^16 - 1.
LEMMA ModuloOfHalves ==
    \A q \in Nat, r \in Nat : q + r >= 1 =>
        (65536 * q + r - 1) % 65535 = (q + r - 1) % 65535
OBVIOUS

\* The halves have the sum of the whole, modulo 2^16 - 1.
LEMMA HalvesFolded ==
    ASSUME NEW s \in Nat, s >= 65536
    PROVE  LET t == (s % 65536) + s \div 65536
           IN  t \in Nat /\ t < s /\ Folded(t) = Folded(s)
<1> DEFINE q == s \div 65536
           r == s % 65536
<1>1. q \in Nat /\ r \in Nat /\ s = 65536 * q + r /\ q >= 1
  OBVIOUS
<1> HIDE DEF q, r
<1>2. PICK t \in Nat : t = r + q
  BY <1>1
<1>3. t < s /\ t # 0 /\ s # 0
  BY <1>1, <1>2
<1>4. (s - 1) % 65535 = (t - 1) % 65535
  <2>1. (65536 * q + r - 1) % 65535 = (q + r - 1) % 65535
    BY <1>1, ModuloOfHalves
  <2>2. q + r - 1 = t - 1 /\ 65536 * q + r - 1 = s - 1
    BY <1>1, <1>2
  <2> QED
    BY <2>1, <2>2
<1>5. Folded(t) = Folded(s)
  BY <1>3, <1>4 DEF Folded
<1> QED
  BY <1>2, <1>3, <1>5 DEF q, r

\* A number of 16 bits at most is its own remainder.
LEMMA SmallModulo == \A n \in Nat : n <= 65534 => n % 65535 = n
OBVIOUS

\* A remainder is smaller.
LEMMA ModuloBound == \A n \in Nat : n % 65535 \in Nat /\ n % 65535 <= 65534
OBVIOUS

\* Fewer bits are as they are.
LEMMA SmallFolded ==
    ASSUME NEW s \in Nat
    PROVE  Folded(s) \in Uint16 /\ (s < 65536 => Folded(s) = s)
<1>1. CASE s = 0
  BY <1>1, Uint16Typed DEF Folded
<1>2. CASE s # 0
  <2>1. PICK n \in Nat : n = s - 1
    BY <1>2
  <2>2. Folded(s) = 1 + (n % 65535)
    BY <1>2, <2>1 DEF Folded
  <2>3. n % 65535 \in Nat /\ n % 65535 <= 65534
    BY ModuloBound
  <2>4. s < 65536 => n % 65535 = n
    BY <2>1, SmallModulo
  <2>5. Folded(s) \in Nat /\ Folded(s) <= 65535
    BY <2>2, <2>3
  <2> QED
    BY <2>1, <2>2, <2>4, <2>5, InUint16
<1> QED
  BY <1>1, <1>2

\* There is a function that carries, which is Folded.
LEMMA CarriedExists ==
    Carried = [s \in Nat |-> IF s < 2^16 THEN s ELSE Carried[(s % 2^16) + s \div 2^16]]
<1> DEFINE F == [s \in Nat |-> Folded(s)]
           G == [s \in Nat |-> IF s < 2^16 THEN s ELSE F[(s % 2^16) + s \div 2^16]]
<1>1. ASSUME NEW s \in Nat
      PROVE  F[s] = G[s]
  <2>1. CASE s < 65536
    BY <2>1, Power, SmallFolded
  <2>2. CASE s >= 65536
    BY <2>2, Power, HalvesFolded
  <2> QED
    BY <2>1, <2>2
<1>2. F = G
  BY <1>1
<1> HIDE DEF F
<1>3. \E f : f = [s \in Nat |-> IF s < 2^16 THEN s ELSE f[(s % 2^16) + s \div 2^16]]
  BY <1>2, Zenon
<1> QED
  BY <1>3, Zenon DEF Carried

\* The loop over the carries leaves the sum modulo 2^16 - 1, in 16 bits.
LEMMA CarriedIsFolded == \A s \in Nat : Carried[s] = Folded(s)
<1> DEFINE Wrong == {s \in Nat : Carried[s] # Folded(s)}
<1>1. SUFFICES ASSUME Wrong # {}
               PROVE  FALSE
  OBVIOUS
<1>2. PICK s \in Wrong : \A t \in Wrong : s <= t
  BY <1>1, LeastNumber
<1>3. Carried[s] = IF s < 65536 THEN s ELSE Carried[(s % 65536) + s \div 65536]
  BY CarriedExists, Power
<1>4. CASE s < 65536
  BY <1>3, <1>4, SmallFolded
<1>5. CASE s >= 65536
  <2> DEFINE t == (s % 65536) + s \div 65536
  <2>1. t \in Nat /\ t < s /\ Folded(t) = Folded(s)
    BY <1>5, HalvesFolded
  <2>2. Carried[t] = Folded(t)
    BY <1>2, <2>1
  <2>3. Carried[s] = Carried[t]
    BY <1>3, <1>5
  <2> QED
    BY <2>1, <2>2, <2>3
<1> QED
  BY <1>4, <1>5
-------------------------------------------------------------------------------
(* The sum *)

\* f has the sums of the first numbers of w.
IsSum(f, w, k) ==
    /\ f \in [0..k -> Nat]
    /\ f[0] = 0
    /\ \A n \in 1..k : f[n] = f[n - 1] + w[n]

\* The sums of any numbers exist.
LEMMA SumExists ==
    ASSUME NEW k \in Nat, NEW w, \A n \in 1..k : w[n] \in Nat
    PROVE  \E f : IsSum(f, w, k)
<1> DEFINE Some == {m \in 0..k : \E f : IsSum(f, w, m)}
<1>1. 0 \in Some
  <2> DEFINE f == [n \in 0..0 |-> 0]
  <2>1. IsSum(f, w, 0)
    BY DEF IsSum
  <2> QED
    BY <2>1
<1>2. ASSUME NEW m \in 1..k, m - 1 \in Some
      PROVE  m \in Some
  <2>1. PICK f : IsSum(f, w, m - 1)
    BY <1>2
  <2>2. /\ f \in [0..m - 1 -> Nat] /\ f[0] = 0 /\ w[m] \in Nat
        /\ \A n \in 1..m - 1 : f[n] = f[n - 1] + w[n]
    BY <2>1 DEF IsSum
  <2> DEFINE g == [n \in 0..m |-> IF n = m THEN f[m - 1] + w[m] ELSE f[n]]
  <2>3. g \in [0..m -> Nat] /\ g[0] = 0 /\ g[m] = f[m - 1] + w[m]
    BY <2>2
  <2>4. \A n \in 0..m - 1 : g[n] = f[n]
    OBVIOUS
  <2> HIDE DEF g
  <2>5. ASSUME NEW n \in 1..m
        PROVE  g[n] = g[n - 1] + w[n]
    <3>1. g[n - 1] = f[n - 1]
      BY <2>4
    <3>2. CASE n = m
      BY <2>3, <3>1, <3>2
    <3>3. CASE n # m
      <4>1. n \in 1..m - 1 /\ n \in 0..m - 1
        BY <3>3
      <4> QED
        BY <2>2, <2>4, <3>1, <4>1
    <3> QED
      BY <3>2, <3>3
  <2>6. IsSum(g, w, m)
    BY <2>3, <2>5 DEF IsSum
  <2> QED
    BY <2>6
<1>3. k \in Some
  <2> HIDE DEF Some
  <2> QED
    BY <1>1, <1>2, NumbersUpTo
<1> QED
  BY <1>3

\* The words of the data, as numbers.
WordsOf(data) == [n \in 1..Words(data) |-> WordAt(data, n)]

\* A word has 16 bits.
LEMMA WordTyped ==
    ASSUME NEW data \in Seq(Byte), NEW n \in 1..Words(data)
    PROVE  WordAt(data, n) \in Nat /\ WordAt(data, n) <= 65535
<1>1. Len(data) \in Nat /\ DOMAIN data = 1..Len(data)
  OBVIOUS
<1>2. 2 * n - 1 \in 1..Len(data)
  BY <1>1 DEF Words
<1>3. data[2 * n - 1] \in Byte
  BY <1>2, ElementOfSeq
<1>4. (IF 2 * n <= Len(data) THEN data[2 * n] ELSE 0) \in Byte
  <2>1. CASE 2 * n <= Len(data)
    <3>1. 2 * n \in 1..Len(data)
      BY <1>1, <2>1
    <3>2. data[2 * n] \in Byte
      BY <3>1, ElementOfSeq
    <3> QED
      BY <2>1, <3>2
  <2>2. CASE ~(2 * n <= Len(data))
    BY <2>2 DEF Byte
  <2> QED
    BY <2>1, <2>2
<1>5. \A h \in Byte, l \in Byte : Word(h, l) \in Nat /\ Word(h, l) <= 65535
  BY DEF Word, Byte
<1>6. PICK h \in Byte, l \in Byte :
         h = data[2 * n - 1] /\ l = (IF 2 * n <= Len(data) THEN data[2 * n] ELSE 0)
  BY <1>3, <1>4
<1>7. WordAt(data, n) = Word(h, l)
  BY <1>6 DEF WordAt
<1> QED
  BY <1>5, <1>7

\* The data has words.
LEMMA WordsTyped ==
    ASSUME NEW data \in Seq(Byte)
    PROVE  Words(data) \in Nat /\ 2 * Words(data) <= Len(data) + 1
<1>1. Len(data) \in Nat
  OBVIOUS
<1> QED
  BY <1>1 DEF Words

\* The loop over the words computes their sum.
LEMMA SumOfData ==
    ASSUME NEW data \in Seq(Byte)
    PROVE  \E f : IsSum(f, WordsOf(data), Words(data)) /\ SumOf(data) = f[Words(data)]
<1> DEFINE W == Words(data)
           w == WordsOf(data)
           Sum == CHOOSE g : g = [n \in 0..W |-> IF n = 0 THEN 0 ELSE g[n - 1] + WordAt(data, n)]
<1>1. W \in Nat
  BY WordsTyped
<1>2. \A n \in 1..W : w[n] = WordAt(data, n) /\ w[n] \in Nat
  BY WordTyped DEF WordsOf
<1>3. PICK f : IsSum(f, w, W)
  BY <1>1, <1>2, SumExists
<1> HIDE DEF W, w
<1>4. f = [n \in 0..W |-> IF n = 0 THEN 0 ELSE f[n - 1] + WordAt(data, n)]
  <2>1. \A n \in 0..W : f[n] = IF n = 0 THEN 0 ELSE f[n - 1] + WordAt(data, n)
    <3> TAKE n \in 0..W
    <3>1. CASE n = 0
      BY <1>3, <3>1 DEF IsSum
    <3>2. CASE n # 0
      <4>1. n \in 1..W
        BY <1>1, <3>2
      <4> QED
        BY <1>2, <1>3, <3>2, <4>1 DEF IsSum
    <3> QED
      BY <3>1, <3>2
  <2>2. f = [n \in 0..W |-> f[n]]
    BY <1>3 DEF IsSum
  <2> QED
    BY <2>1, <2>2
<1>5. Sum = [n \in 0..W |-> IF n = 0 THEN 0 ELSE Sum[n - 1] + WordAt(data, n)]
  BY <1>4, Zenon
<1>6. SumOf(data) = Sum[W]
  BY DEF SumOf, W
<1> HIDE DEF Sum
<1>7. \A n \in 0..W : Sum[n] = f[n]
  <2> DEFINE Right == {n \in 0..W : Sum[n] = f[n]}
  <2>1. 0 \in Right
    BY <1>1, <1>3, <1>5 DEF IsSum
  <2>2. ASSUME NEW n \in 1..W, n - 1 \in Right
        PROVE  n \in Right
    <3>1. Sum[n] = Sum[n - 1] + WordAt(data, n)
      BY <1>1, <1>5
    <3>2. f[n] = f[n - 1] + WordAt(data, n)
      BY <1>2, <1>3 DEF IsSum
    <3> QED
      BY <2>2, <3>1, <3>2
  <2>3. \A n \in 0..W : n \in Right
    <3> HIDE DEF Right
    <3> QED
      BY <1>1, <2>1, <2>2, NumbersUpTo
  <2> QED
    BY <2>3
<1>8. SumOf(data) = f[W]
  BY <1>1, <1>6, <1>7
<1> QED
  BY <1>3, <1>8 DEF w, W

\* The sum stays far below the 2^32 of its variable for any data of an IP packet.
THEOREM SumFitsItsVariable ==
    \A data \in Seq(Byte) : Len(data) <= 65535 => SumOf(data) \in Nat /\ SumOf(data) < 2^32
<1> SUFFICES ASSUME NEW data \in Seq(Byte), Len(data) <= 65535
             PROVE  SumOf(data) \in Nat /\ SumOf(data) < 2^32
  OBVIOUS
<1> DEFINE W == Words(data)
<1>1. W \in Nat /\ W <= 32768
  <2>1. W \in Nat /\ 2 * W <= Len(data) + 1 /\ Len(data) \in Nat
    BY WordsTyped
  <2> QED
    BY <2>1
<1>2. PICK f : IsSum(f, WordsOf(data), W) /\ SumOf(data) = f[W]
  BY SumOfData
<1>3. \A n \in 1..W : WordsOf(data)[n] \in Nat /\ WordsOf(data)[n] <= 65535
  BY WordTyped DEF WordsOf
<1> HIDE DEF W
<1>4. \A n \in 0..W : f[n] <= 65535 * n
  <2> DEFINE Small == {n \in 0..W : f[n] <= 65535 * n}
  <2>1. 0 \in Small
    BY <1>1, <1>2 DEF IsSum
  <2>2. ASSUME NEW n \in 1..W, n - 1 \in Small
        PROVE  n \in Small
    <3>1. f[n - 1] <= 65535 * (n - 1) /\ f[n - 1] \in Nat
      BY <1>2, <2>2 DEF IsSum
    <3>2. f[n] = f[n - 1] + WordsOf(data)[n]
      BY <1>2 DEF IsSum
    <3> QED
      BY <1>3, <3>1, <3>2
  <2>3. \A n \in 0..W : n \in Small
    <3> HIDE DEF Small
    <3> QED
      BY <1>1, <2>1, <2>2, NumbersUpTo
  <2> QED
    BY <2>3
<1>5. f[W] \in Nat /\ f[W] <= 65535 * W
  BY <1>1, <1>2, <1>4 DEF IsSum
<1>6. 2^32 = 4294967296
  OBVIOUS
<1> QED
  BY <1>1, <1>2, <1>5, <1>6

\* Data that differs in its second word alone has a sum that differs by as much.
LEMMA SumShifted ==
    ASSUME NEW data \in Seq(Byte), NEW other \in Seq(Byte), NEW c \in Nat,
           Len(other) = Len(data), Words(data) >= 2,
           \A n \in 1..Words(data) :
               WordAt(other, n) = WordAt(data, n) + (IF n = 2 THEN c ELSE 0)
    PROVE  SumOf(other) = SumOf(data) + c
<1> DEFINE W == Words(data)
<1>1. W \in Nat /\ W >= 2 /\ Words(other) = W
  BY WordsTyped DEF Words
<1>2. PICK f : IsSum(f, WordsOf(data), W) /\ SumOf(data) = f[W]
  BY SumOfData
<1>3. PICK g : IsSum(g, WordsOf(other), W) /\ SumOf(other) = g[W]
  BY <1>1, SumOfData
<1>4. \A n \in 1..W : /\ WordsOf(data)[n] \in Nat
                      /\ WordsOf(other)[n] = WordsOf(data)[n] + (IF n = 2 THEN c ELSE 0)
  BY <1>1, WordTyped DEF WordsOf
<1> HIDE DEF W
<1>5. \A n \in 0..W : g[n] = f[n] + (IF n >= 2 THEN c ELSE 0)
  <2> DEFINE Right == {n \in 0..W : g[n] = f[n] + (IF n >= 2 THEN c ELSE 0)}
  <2>1. 0 \in Right
    BY <1>1, <1>2, <1>3 DEF IsSum
  <2>2. ASSUME NEW n \in 1..W, n - 1 \in Right
        PROVE  n \in Right
    <3>1. PICK m \in 0..W : m = n - 1
      BY <1>1
    <3>2. g[m] = f[m] + (IF m >= 2 THEN c ELSE 0) /\ f[m] \in Nat
      BY <1>2, <2>2, <3>1 DEF IsSum
    <3>3. f[n] = f[m] + WordsOf(data)[n] /\ g[n] = g[m] + WordsOf(other)[n]
      BY <1>2, <1>3, <3>1 DEF IsSum
    <3>4. /\ WordsOf(data)[n] \in Nat
          /\ WordsOf(other)[n] = WordsOf(data)[n] + (IF n = 2 THEN c ELSE 0)
      BY <1>4
    <3> QED
      BY <3>1, <3>2, <3>3, <3>4
  <2>3. \A n \in 0..W : n \in Right
    <3> HIDE DEF Right
    <3> QED
      BY <1>1, <2>1, <2>2, NumbersUpTo
  <2> QED
    BY <2>3
<1> QED
  BY <1>1, <1>2, <1>3, <1>5
-------------------------------------------------------------------------------
(* A packet *)

\* A slice that was just made.
LEMMA ZerosTyped ==
    ASSUME NEW n \in Nat
    PROVE  Zeros(n) \in Seq(Byte) /\ Len(Zeros(n)) = n
<1>1. 0 \in Byte
  BY DEF Byte
<1> QED
  BY <1>1 DEF Zeros

\* Two bytes are a word.
LEMMA BytesOfWord ==
    ASSUME NEW word \in Uint16
    PROVE  High(word) \in Byte /\ Low(word) \in Byte /\ Word(High(word), Low(word)) = word
<1>1. word \in Nat /\ word <= 65535
  BY Uint16Typed
<1>2. /\ word \div 256 \in Nat /\ word \div 256 <= 255
      /\ word % 256 \in Nat /\ word % 256 <= 255
      /\ 256 * (word \div 256) + (word % 256) = word
  BY <1>1
<1>3. \A n \in Nat : n <= 255 => n \in Byte
  BY DEF Byte
<1> QED
  BY <1>2, <1>3 DEF Word, High, Low

\* Eight bytes, and others behind them.
LEMMA HeaderBytes ==
    ASSUME NEW a \in Byte, NEW b \in Byte, NEW c \in Byte, NEW d \in Byte,
           NEW e \in Byte, NEW f \in Byte, NEW g \in Byte, NEW h \in Byte,
           NEW body \in Seq(Byte),
           NEW t, t = <<a, b, c, d, e, f, g, h>> \o body
    PROVE  /\ t \in Seq(Byte) /\ Len(t) = 8 + Len(body)
           /\ t[1] = a /\ t[2] = b /\ t[3] = c /\ t[4] = d
           /\ t[5] = e /\ t[6] = f /\ t[7] = g /\ t[8] = h
           /\ \A i \in 1..Len(body) : t[8 + i] = body[i]
<1> DEFINE head == <<a, b, c, d, e, f, g, h>>
<1>1. /\ head \in Seq(Byte) /\ Len(head) = 8
      /\ head[1] = a /\ head[2] = b /\ head[3] = c /\ head[4] = d
      /\ head[5] = e /\ head[6] = f /\ head[7] = g /\ head[8] = h
  OBVIOUS
<1>2. t = head \o body
  OBVIOUS
<1> HIDE DEF head
<1>3. /\ t \in Seq(Byte) /\ Len(t) = Len(head) + Len(body)
      /\ \A i \in 1..Len(head) + Len(body) :
            t[i] = IF i <= Len(head) THEN head[i] ELSE body[i - Len(head)]
  BY <1>1, <1>2, ConcatProperties
<1>4. PICK k \in Nat : k = Len(body)
  OBVIOUS
<1>5. /\ Len(t) = 8 + k
      /\ \A i \in 1..8 + k : t[i] = IF i <= 8 THEN head[i] ELSE body[i - 8]
  BY <1>1, <1>3, <1>4
<1>6. \A i \in 1..8 : i \in 1..8 + k /\ i <= 8
  OBVIOUS
<1>7. \A i \in 1..8 : t[i] = head[i]
  BY <1>5, <1>6
<1>8. \A i \in 1..k : 8 + i \in 1..8 + k /\ ~(8 + i <= 8) /\ (8 + i) - 8 = i
  OBVIOUS
<1>9. \A i \in 1..k : t[8 + i] = body[i]
  BY <1>5, <1>8
<1>10. /\ t[1] = a /\ t[2] = b /\ t[3] = c /\ t[4] = d
       /\ t[5] = e /\ t[6] = f /\ t[7] = g /\ t[8] = h
  BY <1>1, <1>7
<1> QED
  BY <1>3, <1>4, <1>5, <1>9, <1>10

\* buf holds the header of the packet, with this checksum, and its data behind it.
Holds(buf, p, cs) ==
    /\ buf \in Seq(Byte) /\ Len(buf) = 8 + Len(p.Data)
    /\ buf[1] = p.Type /\ buf[2] = p.Code
    /\ buf[3] = High(cs) /\ buf[4] = Low(cs)
    /\ buf[5] = High(p.ID) /\ buf[6] = Low(p.ID)
    /\ buf[7] = High(p.Seq) /\ buf[8] = Low(p.Seq)
    /\ \A i \in 1..Len(p.Data) : buf[8 + i] = p.Data[i]

\* The bytes of a packet: the header, and the data behind it.
LEMMA BufferBytes ==
    ASSUME NEW p \in Packets, NEW cs \in Uint16
    PROVE  Holds(Buffer(p, cs), p, cs)
<1>1. /\ p.Type \in Byte /\ p.Code \in Byte /\ p.ID \in Uint16 /\ p.Seq \in Uint16
      /\ p.Data \in Seq(Byte)
  BY DEF Packets
<1>2. /\ High(cs) \in Byte /\ Low(cs) \in Byte /\ High(p.ID) \in Byte /\ Low(p.ID) \in Byte
      /\ High(p.Seq) \in Byte /\ Low(p.Seq) \in Byte
  BY <1>1, BytesOfWord
<1>3. PICK a \in Byte, b \in Byte, c \in Byte, d \in Byte, e \in Byte, f \in Byte,
           g \in Byte, h \in Byte, body \in Seq(Byte) :
         /\ a = p.Type /\ b = p.Code /\ c = High(cs) /\ d = Low(cs)
         /\ e = High(p.ID) /\ f = Low(p.ID) /\ g = High(p.Seq) /\ h = Low(p.Seq)
         /\ body = p.Data
  BY <1>1, <1>2
<1>4. PICK buf : buf = Buffer(p, cs)
  OBVIOUS
<1>5. buf = <<a, b, c, d, e, f, g, h>> \o body
  BY <1>3, <1>4, Zenon DEF Buffer
<1>6. /\ buf \in Seq(Byte) /\ Len(buf) = 8 + Len(body)
      /\ buf[1] = a /\ buf[2] = b /\ buf[3] = c /\ buf[4] = d
      /\ buf[5] = e /\ buf[6] = f /\ buf[7] = g /\ buf[8] = h
      /\ \A i \in 1..Len(body) : buf[8 + i] = body[i]
  BY <1>5, HeaderBytes
<1>7. Holds(buf, p, cs)
  BY <1>3, <1>6 DEF Holds
<1> QED
  BY <1>4, <1>7
-------------------------------------------------------------------------------
(* The checksum of a packet *)

\* The checksum has 16 bits.
LEMMA ChecksumTyped ==
    ASSUME NEW data \in Seq(Byte)
    PROVE  /\ SumOf(data) \in Nat
           /\ checksum(data) \in Uint16 /\ checksum(data) = 65535 - Folded(SumOf(data))
<1>1. SumOf(data) \in Nat
  <2>1. PICK f : IsSum(f, WordsOf(data), Words(data)) /\ SumOf(data) = f[Words(data)]
    BY SumOfData
  <2>2. Words(data) \in Nat
    BY WordsTyped
  <2> QED
    BY <2>1, <2>2 DEF IsSum
<1>2. PICK n \in Nat : n = Folded(SumOf(data)) /\ n <= 65535
  <2>1. Folded(SumOf(data)) \in Uint16
    BY <1>1, SmallFolded
  <2>2. \A n \in Uint16 : n \in Nat /\ n <= 65535
    BY Uint16Typed
  <2> QED
    BY <2>1, <2>2
<1>3. checksum(data) = 65535 - n
  BY <1>1, <1>2, CarriedIsFolded, Power DEF checksum
<1>4. PICK c \in Nat : c = 65535 - n /\ c <= 65535
  BY <1>2
<1>5. c \in Uint16
  BY <1>4, InUint16
<1> QED
  BY <1>1, <1>2, <1>3, <1>4, <1>5

\* The words of a packet depend on its checksum in the second alone, which has it.
LEMMA ChecksumInSecondWord ==
    ASSUME NEW p \in Packets, NEW cs \in Uint16
    PROVE  SumOf(Buffer(p, cs)) = SumOf(Buffer(p, 0)) + cs
<1>1. PICK c \in Nat, zero \in Uint16 : c = cs /\ zero = 0
  <2>1. cs \in Nat /\ 0 \in Uint16
    BY Uint16Typed
  <2> QED
    BY <2>1
<1>2. PICK data : data = Buffer(p, zero)
  OBVIOUS
<1>3. PICK other : other = Buffer(p, cs)
  OBVIOUS
<1>4. PICK k \in Nat : k = Len(p.Data)
  BY DEF Packets
<1>5. /\ data \in Seq(Byte) /\ Len(data) = 8 + k
      /\ data[1] = p.Type /\ data[2] = p.Code /\ data[3] = High(zero) /\ data[4] = Low(zero)
      /\ data[5] = High(p.ID) /\ data[6] = Low(p.ID)
      /\ data[7] = High(p.Seq) /\ data[8] = Low(p.Seq)
      /\ \A i \in 1..k : data[8 + i] = p.Data[i]
  <2>1. Holds(data, p, zero)
    BY <1>2, BufferBytes
  <2> QED
    BY <1>4, <2>1 DEF Holds
<1>6. /\ other \in Seq(Byte) /\ Len(other) = 8 + k
      /\ other[1] = p.Type /\ other[2] = p.Code /\ other[3] = High(cs) /\ other[4] = Low(cs)
      /\ other[5] = High(p.ID) /\ other[6] = Low(p.ID)
      /\ other[7] = High(p.Seq) /\ other[8] = Low(p.Seq)
      /\ \A i \in 1..k : other[8 + i] = p.Data[i]
  <2>1. Holds(other, p, cs)
    BY <1>3, BufferBytes
  <2> QED
    BY <1>4, <2>1 DEF Holds
<1>7. ASSUME NEW i \in 1..8 + k, i # 3, i # 4
      PROVE  other[i] = data[i]
  <2>1. CASE i > 8
    <3>1. PICK j \in 1..k : i = 8 + j
      BY <2>1
    <3> QED
      BY <1>5, <1>6, <3>1
  <2>2. CASE i <= 8
    <3>1. i \in {1, 2, 5, 6, 7, 8}
      BY <1>7, <2>2
    <3> QED
      BY <1>5, <1>6, <3>1
  <2> QED
    BY <2>1, <2>2
<1>8. Words(data) \in Nat /\ Words(data) >= 2 /\ 2 * Words(data) <= 9 + k
  BY <1>5 DEF Words
<1>9. ASSUME NEW n \in 1..Words(data)
      PROVE  WordAt(other, n) = WordAt(data, n) + (IF n = 2 THEN c ELSE 0)
  <2>1. CASE n = 2
    <3>1. 2 * n <= Len(data) /\ 2 * n <= Len(other) /\ 2 * n - 1 = 3 /\ 2 * n = 4
      BY <1>5, <1>6, <2>1
    <3>2. WordAt(other, n) = Word(High(cs), Low(cs)) /\ WordAt(data, n) = Word(High(zero), Low(zero))
      BY <1>5, <1>6, <3>1 DEF WordAt
    <3>3. WordAt(other, n) = c /\ WordAt(data, n) = 0
      BY <1>1, <3>2, BytesOfWord
    <3> QED
      BY <2>1, <3>3
  <2>2. CASE n # 2
    <3>1. n \in Nat /\ 2 * n <= 9 + k /\ n >= 1
      BY <1>8
    <3>2. 2 * n - 1 \in 1..8 + k /\ 2 * n - 1 # 3 /\ 2 * n - 1 # 4
      BY <2>2, <3>1
    <3>3. 2 * n <= 8 + k => 2 * n \in 1..8 + k /\ 2 * n # 3 /\ 2 * n # 4
      BY <2>2, <3>1
    <3>4. other[2 * n - 1] = data[2 * n - 1]
      BY <1>7, <3>2
    <3>5. 2 * n <= 8 + k => other[2 * n] = data[2 * n]
      BY <1>7, <3>3
    <3>6. WordAt(other, n) = WordAt(data, n)
      BY <1>5, <1>6, <3>4, <3>5 DEF WordAt
    <3>7. WordAt(data, n) \in Nat
      BY <1>5, WordTyped
    <3> QED
      BY <2>2, <3>6, <3>7
  <2> QED
    BY <2>1, <2>2
<1>10. SumOf(other) = SumOf(data) + c
  <2>1. Len(other) = Len(data)
    BY <1>5, <1>6
  <2> QED
    BY <1>5, <1>6, <1>8, <1>9, <2>1, SumShifted, Zenon
<1> QED
  BY <1>1, <1>2, <1>3, <1>10

\* What the checksum adds to a sum makes it a multiple of 2^16 - 1, but not 0.
LEMMA Completed ==
    ASSUME NEW s \in Nat
    PROVE  \E q \in Nat : q >= 1 /\ s + (65535 - Folded(s)) = 65535 * q
<1>1. CASE s = 0
  BY <1>1 DEF Folded
<1>2. CASE s # 0
  <2>1. PICK n \in Nat : s = n + 1
    <3>1. s - 1 \in Nat /\ s = (s - 1) + 1
      BY <1>2
    <3> QED
      BY <3>1
  <2>2. PICK q \in Nat, r \in Nat : r = n % 65535 /\ n = 65535 * q + r
    OBVIOUS
  <2>3. Folded(s) = 1 + r
    BY <1>2, <2>1, <2>2 DEF Folded
  <2>4. PICK m \in Nat : m = q + 1 /\ m >= 1
    OBVIOUS
  <2>5. s + (65535 - Folded(s)) = 65535 * m
    BY <2>1, <2>2, <2>3, <2>4
  <2> WITNESS m \in Nat
  <2> QED
    BY <2>4, <2>5
<1> QED
  BY <1>1, <1>2

\* The remainders of multiples of 2^16 - 1, and of their predecessors.
LEMMA Multiples ==
    \A q \in Nat : q >= 1 => (65535 * q) % 65535 = 0 /\ (65535 * q - 1) % 65535 = 65534
OBVIOUS

\* Every packet that is sent verifies: with its checksum, the one's complement sum
\* of its words is 0 (as 2^16 - 1), and the checksum of the whole is 0.
THEOREM ChecksumVerifies ==
    \A p \in Packets :
        /\ Marshal(p) \in Seq(Byte)
        /\ SumOf(Marshal(p)) % (2^16 - 1) = 0
        /\ checksum(Marshal(p)) = 0
<1> SUFFICES ASSUME NEW p \in Packets
             PROVE  /\ Marshal(p) \in Seq(Byte)
                    /\ SumOf(Marshal(p)) % (2^16 - 1) = 0
                    /\ checksum(Marshal(p)) = 0
  OBVIOUS
<1>1. PICK zero \in Uint16 : zero = 0
  BY Uint16Typed
<1>2. PICK data : data = Buffer(p, zero)
  OBVIOUS
<1>3. data \in Seq(Byte)
  BY <1>2, BufferBytes DEF Holds
<1>4. PICK s \in Nat : s = SumOf(data)
  BY <1>3, ChecksumTyped
<1>5. PICK cs \in Uint16 : cs = checksum(data) /\ cs = 65535 - Folded(s)
  BY <1>3, <1>4, ChecksumTyped
<1>6. PICK raw : raw = Buffer(p, cs)
  OBVIOUS
<1>7. raw = Marshal(p)
  BY <1>1, <1>2, <1>5, <1>6 DEF Marshal
<1>8. raw \in Seq(Byte)
  BY <1>6, BufferBytes DEF Holds
<1>9. SumOf(raw) = s + (65535 - Folded(s))
  BY <1>1, <1>2, <1>4, <1>5, <1>6, ChecksumInSecondWord
<1>10. PICK q \in Nat : q >= 1 /\ SumOf(raw) = 65535 * q
  BY <1>9, Completed
<1>11. SumOf(raw) % 65535 = 0 /\ (SumOf(raw) - 1) % 65535 = 65534 /\ SumOf(raw) # 0
  BY <1>10, Multiples
<1>12. Folded(SumOf(raw)) = 65535
  BY <1>11 DEF Folded
<1>13. checksum(raw) = 0
  BY <1>8, <1>12, ChecksumTyped
<1>14. 2^16 - 1 = 65535
  BY Power
<1> QED
  BY <1>7, <1>8, <1>11, <1>13, <1>14
-------------------------------------------------------------------------------
(* The answer *)

\* Where the fields of a reply are.
LEMMA ReplyFields ==
    ASSUME NEW data
    PROVE  LET icmp == SubSeq(data, 21, Len(data))
               resp == parseICMPReply(data)
           IN  /\ resp.Type = icmp[1] /\ resp.Code = icmp[2]
               /\ resp.ID = Word(icmp[5], icmp[6]) /\ resp.Seq = Word(icmp[7], icmp[8])
               /\ resp.Data = SubSeq(icmp, 9, Len(icmp))
BY DEF parseICMPReply

\* What a target sends back of a packet is long enough to be read, and read as an echo
\* reply with its ID, its sequence number and its data, whatever the IP header is
\* (networkping.go:64-79).
THEOREM AnswerIsRead ==
    \A p \in Packets, header \in Seq(Byte) :
        Len(header) = 20 =>
            LET resp == parseICMPReply(header \o [Marshal(p) EXCEPT ![1] = icmpEchoReply])
            IN  /\ ~tooShort(header \o [Marshal(p) EXCEPT ![1] = icmpEchoReply])
                /\ resp.Type = icmpEchoReply /\ resp.Code = p.Code
                /\ resp.ID = p.ID /\ resp.Seq = p.Seq /\ resp.Data = p.Data
<1> SUFFICES ASSUME NEW p \in Packets, NEW header \in Seq(Byte), Len(header) = 20,
                    NEW resp,
                    resp = parseICMPReply(header \o [Marshal(p) EXCEPT ![1] = icmpEchoReply])
             PROVE  /\ ~tooShort(header \o [Marshal(p) EXCEPT ![1] = icmpEchoReply])
                    /\ resp.Type = icmpEchoReply /\ resp.Code = p.Code
                    /\ resp.ID = p.ID /\ resp.Seq = p.Seq /\ resp.Data = p.Data
  BY Zenon
<1>1. PICK body \in Seq(Byte), k \in Nat : body = p.Data /\ k = Len(body)
  BY DEF Packets
<1>2. PICK raw : raw = Marshal(p)
  OBVIOUS
<1>3. /\ raw \in Seq(Byte) /\ Len(raw) = 8 + k /\ raw[2] = p.Code
      /\ raw[5] = High(p.ID) /\ raw[6] = Low(p.ID)
      /\ raw[7] = High(p.Seq) /\ raw[8] = Low(p.Seq)
      /\ \A i \in 1..k : raw[8 + i] = body[i]
  <2>1. PICK zero \in Uint16 : zero = 0
    BY Uint16Typed
  <2>2. Buffer(p, zero) \in Seq(Byte)
    BY BufferBytes DEF Holds
  <2>3. PICK cs \in Uint16 : cs = checksum(Buffer(p, zero))
    BY <2>2, ChecksumTyped
  <2>4. raw = Buffer(p, cs)
    BY <1>2, <2>1, <2>3 DEF Marshal
  <2>5. Holds(raw, p, cs)
    BY <2>4, BufferBytes
  <2> QED
    BY <1>1, <2>5 DEF Holds
<1>4. PICK m \in Seq(Byte) :
         /\ m = [raw EXCEPT ![1] = icmpEchoReply] /\ Len(m) = 8 + k /\ m[1] = icmpEchoReply
         /\ \A i \in 2..8 + k : m[i] = raw[i]
  <2>1. PICK m : m = [raw EXCEPT ![1] = icmpEchoReply]
    OBVIOUS
  <2>2. 0 \in Byte
    BY DEF Byte
  <2>3. m \in Seq(Byte) /\ Len(m) = Len(raw)
    BY <1>3, <2>1, <2>2 DEF icmpEchoReply
  <2>4. DOMAIN raw = 1..8 + k
    BY <1>3
  <2>5. m[1] = icmpEchoReply /\ \A i \in 2..8 + k : m[i] = raw[i]
    BY <2>1, <2>4
  <2> QED
    BY <1>3, <2>1, <2>3, <2>5
<1>5. PICK data : data = header \o m
  OBVIOUS
<1>6. /\ data \in Seq(Byte) /\ Len(data) = 28 + k
      /\ \A i \in 1..8 + k : data[20 + i] = m[i]
  <2>1. /\ data \in Seq(Byte) /\ Len(data) = Len(header) + Len(m)
        /\ \A i \in 1..Len(header) + Len(m) :
              data[i] = IF i <= Len(header) THEN header[i] ELSE m[i - Len(header)]
    BY <1>5, ConcatProperties
  <2>2. /\ Len(data) = 28 + k
        /\ \A i \in 1..28 + k : data[i] = IF i <= 20 THEN header[i] ELSE m[i - 20]
    BY <1>4, <2>1
  <2>3. \A i \in 1..8 + k : 20 + i \in 1..28 + k /\ ~(20 + i <= 20) /\ (20 + i) - 20 = i
    OBVIOUS
  <2> QED
    BY <2>1, <2>2, <2>3
<1>7. PICK icmp : icmp = SubSeq(data, 21, Len(data))
  OBVIOUS
<1>8. /\ icmp \in Seq(Byte) /\ Len(icmp) = 8 + k
      /\ \A i \in 1..8 + k : icmp[i] = m[i]
  <2>1. \A i \in 21..28 + k : data[i] \in Byte
    BY <1>6
  <2>2. /\ SubSeq(data, 21, 28 + k) \in Seq(Byte)
        /\ Len(SubSeq(data, 21, 28 + k)) = IF 21 <= 28 + k THEN (28 + k) - 21 + 1 ELSE 0
        /\ \A i \in 1..(28 + k) - 21 + 1 : SubSeq(data, 21, 28 + k)[i] = data[21 + i - 1]
    BY <2>1, SubSeqProperties
  <2>3. icmp = SubSeq(data, 21, 28 + k)
    BY <1>6, <1>7
  <2>4. /\ (28 + k) - 21 + 1 = 8 + k /\ 21 <= 28 + k
        /\ \A i \in 1..8 + k : 21 + i - 1 = 20 + i
    OBVIOUS
  <2> QED
    BY <1>6, <2>2, <2>3, <2>4
<1>9. SubSeq(icmp, 9, Len(icmp)) = body
  <2>1. PICK tail : tail = SubSeq(icmp, 9, 8 + k)
    OBVIOUS
  <2>2. \A i \in 9..8 + k : icmp[i] \in Byte
    BY <1>8
  <2>3. /\ tail \in Seq(Byte)
        /\ Len(tail) = IF 9 <= 8 + k THEN (8 + k) - 9 + 1 ELSE 0
        /\ \A i \in 1..(8 + k) - 9 + 1 : tail[i] = icmp[9 + i - 1]
    BY <2>1, <2>2, SubSeqProperties
  <2>4. Len(tail) = k /\ \A i \in 1..k : tail[i] = icmp[8 + i]
    <3>1. (8 + k) - 9 + 1 = k /\ (9 <= 8 + k <=> k >= 1) /\ \A i \in 1..k : 9 + i - 1 = 8 + i
      OBVIOUS
    <3> QED
      BY <2>3, <3>1
  <2>5. ASSUME NEW i \in 1..k
        PROVE  tail[i] = body[i]
    <3>1. 8 + i \in 1..8 + k /\ 8 + i \in 2..8 + k
      OBVIOUS
    <3> QED
      BY <1>3, <1>4, <1>8, <2>4, <3>1
  <2>6. tail = body
    BY <1>1, <2>3, <2>4, <2>5, SeqEqual
  <2> QED
    BY <1>8, <2>1, <2>6
<1>10. /\ icmp[1] = icmpEchoReply /\ icmp[2] = p.Code
       /\ icmp[5] = High(p.ID) /\ icmp[6] = Low(p.ID)
       /\ icmp[7] = High(p.Seq) /\ icmp[8] = Low(p.Seq)
  BY <1>3, <1>4, <1>8
<1>11. /\ resp.Type = icmp[1] /\ resp.Code = icmp[2] /\ resp.ID = Word(icmp[5], icmp[6])
       /\ resp.Seq = Word(icmp[7], icmp[8]) /\ resp.Data = SubSeq(icmp, 9, Len(icmp))
  <2>1. resp = parseICMPReply(data)
    BY <1>2, <1>4, <1>5, Zenon
  <2> QED
    BY <1>7, <2>1, ReplyFields
<1>12. p.ID \in Uint16 /\ p.Seq \in Uint16
  BY DEF Packets
<1>13. Word(High(p.ID), Low(p.ID)) = p.ID /\ Word(High(p.Seq), Low(p.Seq)) = p.Seq
  BY <1>12, BytesOfWord
<1>14. ~tooShort(header \o [Marshal(p) EXCEPT ![1] = icmpEchoReply])
  <2>1. ~tooShort(data)
    BY <1>6 DEF tooShort
  <2> QED
    BY <1>2, <1>4, <1>5, <2>1, Zenon
<1> QED
  BY <1>1, <1>9, <1>10, <1>11, <1>13, <1>14, Zenon
===============================================================================
