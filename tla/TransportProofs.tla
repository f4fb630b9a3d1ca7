-------------------------- MODULE TransportProofs --------------------------
(***************************************************************************)
(* The scanner of Chunked never needs a larger buffer, whatever a server   *)
(* sends, and Receive returns the messages as they were sent.              *)
(***************************************************************************)
EXTENDS Transport, SequenceTheorems, WellFoundedInduction, TLAPS

-----------------------------------------------------------------------------
(* Minima, prefixes and suffixes *)

\* A set of numbers that is not empty has a minimum.
LEMMA MinOfSet ==
    ASSUME NEW S \in SUBSET Nat, S # {}
    PROVE  Min(S) \in S /\ \A y \in S : Min(S) <= y
<1> DEFINE Less == {p \in Nat \X Nat : p[1] < p[2]}
<1>1. Less = OpToRel(<, Nat)
  BY Zenon DEF OpToRel
<1>2. IsWellFoundedOn(Less, Nat)
  BY <1>1, NatLessThanWellFounded, Zenon
<1>3. PICK x \in S : \A y \in S : ~(<<y, x>> \in Less)
  <2> HIDE DEF Less
  <2> QED BY <1>2, WFMin
<1>4. ASSUME NEW y \in S
      PROVE  x <= y
  <2>1. <<y, x>> \in Nat \X Nat /\ <<y, x>>[1] = y /\ <<y, x>>[2] = x
    OBVIOUS
  <2>2. y < x => <<y, x>> \in Less
    BY <2>1, Zenon
  <2>3. ~(y < x)
    BY <1>3, <2>2, Zenon
  <2>4. x \in Nat /\ y \in Nat
    OBVIOUS
  <2> HIDE DEF Less
  <2> QED BY <2>3, <2>4
<1> QED BY <1>4 DEF Min

LEMMA RangeFacts ==
    ASSUME NEW b \in Nat, NEW n \in 1 .. b
    PROVE  n \in Nat /\ 1 <= n /\ n <= b
  OBVIOUS

LEMMA MinOfTwo ==
    ASSUME NEW a \in Nat, NEW b \in Nat
    PROVE  Min({a, b}) \in Nat /\ Min({a, b}) <= a /\ Min({a, b}) <= b
  BY DEF Min

LEMMA DropFacts ==
    ASSUME NEW S, NEW s \in Seq(S), NEW n \in Nat
    PROVE  /\ Drop(s, n) \in Seq(S)
           /\ Len(Drop(s, n)) = IF n <= Len(s) THEN Len(s) - n ELSE 0
<1>1. \A i \in n + 1 .. Len(s) : s[i] \in S
  OBVIOUS
<1> QED BY <1>1, SubSeqProperties DEF Drop

LEMMA TakeFacts ==
    ASSUME NEW S, NEW s \in Seq(S), NEW n \in Nat, n <= Len(s)
    PROVE  Take(s, n) \in Seq(S) /\ Len(Take(s, n)) = n
<1>1. \A i \in 1 .. n : s[i] \in S
  OBVIOUS
<1> QED BY <1>1, SubSeqProperties DEF Take

-----------------------------------------------------------------------------
(* Numbers in decimal *)

LEMMA ValueOfDigit ==
    ASSUME NEW d \in 0 .. 9
    PROVE  Value(Digit(d)) = d /\ Digit(d) \in Digits /\ Digit(d) # NL /\ (d # 0 => Digit(d) # "0")
<1>1. \A n \in 0 .. 9 : Digit(n) = Digit(d) => n = d
  BY DEF Digit
<1>2. Value(Digit(d)) = d
  BY <1>1 DEF Value
<1>3. Digit(d) # NL /\ (d # 0 => Digit(d) # "0")
  BY DEF Digit, NL
<1> QED BY <1>2, <1>3 DEF Digits

LEMMA MaxChunkFacts ==
    MaxChunkSize \in Nat
  BY SMT DEF MaxChunkSize

LEMMA PowersFacts ==
    /\ Powers[1] = 1
    /\ \A k \in 1 .. 10 : Powers[k] \in Nat /\ 1 <= Powers[k]
    /\ \A k \in 1 .. 9 : Powers[k + 1] = 10 * Powers[k]
    /\ MaxChunkSize \in Nat /\ MaxChunkSize < 10 * Powers[10]
<1>1. Powers[1] = 1 /\ Powers[2] = 10 /\ Powers[3] = 100 /\ Powers[4] = 1000
  BY SMT DEF Powers
<1>2. Powers[5] = 10000 /\ Powers[6] = 100000 /\ Powers[7] = 1000000
  BY SMT DEF Powers
<1>3. Powers[8] = 10000000 /\ Powers[9] = 100000000 /\ Powers[10] = 1000000000
  BY SMT DEF Powers
<1>4. \A k \in 1 .. 10 : k \in {1, 2, 3, 4, 5, 6, 7, 8, 9, 10}
  OBVIOUS
<1>5. \A k \in 1 .. 9 : k \in {1, 2, 3, 4, 5, 6, 7, 8, 9}
  OBVIOUS
<1>6. \A k \in 1 .. 10 : Powers[k] \in Nat /\ 1 <= Powers[k]
  BY <1>1, <1>2, <1>3, <1>4, SMT
<1>7. \A k \in 1 .. 9 : Powers[k + 1] = 10 * Powers[k]
  BY <1>1, <1>2, <1>3, <1>5, SMT
<1>8. MaxChunkSize \in Nat /\ MaxChunkSize < 10 * Powers[10]
  BY <1>3, SMT DEF MaxChunkSize
<1> QED BY <1>1, <1>6, <1>7, <1>8

\* Division with a remainder is unique.
LEMMA Quotient ==
    ASSUME NEW n \in Nat, NEW p \in Nat, NEW d \in Nat, NEW r \in Nat, r < p, n = p * d + r
    PROVE  n \div p = d
<1> DEFINE q == n \div p
           t == n % p
<1>1. q \in Nat /\ t \in Nat /\ t < p /\ n = p * q + t
  OBVIOUS
<1> HIDE DEF q, t
<1>2. ASSUME NEW x \in Nat, NEW y \in Nat, x < y
      PROVE  p * x + p <= p * y
  <2>1. PICK z \in Nat : y = x + 1 + z
    <3>1. y - x - 1 \in Nat /\ y = x + 1 + (y - x - 1)
      BY <1>2
    <3> QED BY <3>1
  <2>2. p * y = p * x + p + p * z
    BY <2>1
  <2>3. p * z \in Nat /\ p * x \in Nat
    OBVIOUS
  <2> QED BY <2>2, <2>3
<1>3. p * q \in Nat /\ p * d \in Nat
  BY <1>1
<1>4. ~(q < d)
  BY <1>1, <1>2, <1>3
<1>5. ~(d < q)
  BY <1>1, <1>2, <1>3
<1>6. q = d
  BY <1>1, <1>4, <1>5
<1> QED BY <1>6 DEF q

LEMMA NotZero ==
    ASSUME NEW n \in Nat, NEW p \in Nat, 1 <= p, p <= n
    PROVE  n \div p # 0
<1>1. n = p * (n \div p) + (n % p) /\ n % p \in Nat /\ n % p < p
  OBVIOUS
<1> QED BY <1>1

\* A number without its last digit.
LEMMA LastDigit ==
    ASSUME NEW n \in Nat, NEW p \in Nat, 1 <= p
    PROVE  /\ n \div p \in Nat /\ n \div (10 * p) \in Nat
           /\ n \div p = 10 * (n \div (10 * p)) + ((n \div p) % 10)
           /\ (n \div p) % 10 \in 0 .. 9
<1> DEFINE q == n \div p
           r == n % p
           d == q \div 10
           e == q % 10
<1>1. q \in Nat /\ r \in Nat /\ r < p /\ n = p * q + r
  OBVIOUS
<1>2. d \in Nat /\ e \in Nat /\ e < 10 /\ q = 10 * d + e
  BY <1>1
<1> HIDE DEF q, r, d, e
<1>3. n = (10 * p) * d + (p * e + r) /\ p * e + r \in Nat
  BY <1>1, <1>2
<1>4. p * e + r < 10 * p
  <2>1. e \in {0, 1, 2, 3, 4, 5, 6, 7, 8, 9}
    BY <1>2
  <2> QED BY <1>1, <2>1
<1>5. n \div (10 * p) = d
  <2>1. 10 * p \in Nat
    OBVIOUS
  <2> QED BY <1>2, <1>3, <1>4, <2>1, Quotient
<1>6. n \div p = q /\ (n \div p) % 10 = e
  BY DEF q, e
<1> QED BY <1>1, <1>2, <1>5, <1>6

\* How many digits a number has.
LEMMA WidthFacts ==
    ASSUME NEW n \in Nat, n <= MaxChunkSize
    PROVE  /\ Width(n) \in 1 .. 10
           /\ n < 10 * Powers[Width(n)]
           /\ Width(n) # 1 => Powers[Width(n)] <= n
<1> DEFINE S == {k \in 1 .. 10 : k = 10 \/ n < Powers[k + 1]}
<1>1. S \in SUBSET Nat /\ 10 \in S
  OBVIOUS
<1>2. Width(n) = Min(S)
  BY DEF Width
<1>3. Min(S) \in S /\ \A y \in S : Min(S) <= y
  <2> HIDE DEF S
  <2> QED BY <1>1, MinOfSet
<1> DEFINE w == Width(n)
<1>4. w \in 1 .. 10 /\ (w = 10 \/ n < Powers[w + 1]) /\ \A y \in S : w <= y
  BY <1>2, <1>3
<1>5. n < 10 * Powers[w]
  <2>1. CASE w = 10
    <3>1. w = 10 /\ MaxChunkSize \in Nat /\ MaxChunkSize < 10 * Powers[10] /\ Powers[10] \in Nat
      BY <2>1, PowersFacts
    <3> HIDE DEF w
    <3> QED BY <3>1
  <2>2. CASE w # 10
    <3>1. w \in 1 .. 9 /\ n < Powers[w + 1]
      BY <1>4, <2>2
    <3>2. Powers[w + 1] = 10 * Powers[w]
      BY <3>1, PowersFacts
    <3> HIDE DEF w
    <3> QED BY <3>1, <3>2
  <2> QED BY <2>1, <2>2
<1>6. ASSUME w # 1
      PROVE  Powers[w] <= n
  <2> HIDE DEF w
  <2>1. w - 1 \in 1 .. 10 /\ w - 1 # 10 /\ ~(w <= w - 1) /\ w - 1 + 1 = w
    BY <1>4, <1>6
  <2>2. ~(n < Powers[w - 1 + 1])
    BY <1>4, <2>1
  <2>3. Powers[w] \in Nat
    BY <1>4, PowersFacts
  <2> QED BY <2>1, <2>2, <2>3
<1> QED BY <1>4, <1>5, <1>6

\* Number is defined by recursion over the digits: v is what it computes.
LEMMA NumberOf ==
    ASSUME NEW s, NEW w \in Nat, Len(s) = w,
           NEW v \in [0 .. w -> Nat], v[0] = 0,
           \A i \in 1 .. w : v[i] = 10 * v[i - 1] + Value(s[i])
    PROVE  Number(s) = v[w]
<1> DEFINE F(g) == [i \in 0 .. Len(s) |-> IF i = 0 THEN 0 ELSE 10 * g[i - 1] + Value(s[i])]
           n == CHOOSE g : g = F(g)
<1>1. v = F(v)
  <2>1. \A i \in 0 .. w : i # 0 => i \in 1 .. w
    OBVIOUS
  <2>2. \A i \in 0 .. w : v[i] = IF i = 0 THEN 0 ELSE 10 * v[i - 1] + Value(s[i])
    BY <2>1
  <2> QED BY <2>2
<1>2. n = F(n)
  <2> HIDE DEF F
  <2> QED BY <1>1
<1>3. Number(s) = n[w]
  BY DEF Number
<1> HIDE DEF n
<1>4. \A i \in 0 .. w : n[i] = IF i = 0 THEN 0 ELSE 10 * n[i - 1] + Value(s[i])
  BY <1>2
<1> DEFINE D == {i \in 0 .. w : n[i] # v[i]}
<1>5. D = {}
  <2> SUFFICES ASSUME D # {}
               PROVE  FALSE
    OBVIOUS
  <2>1. D \in SUBSET Nat
    OBVIOUS
  <2>2. PICK k \in D : \A y \in D : k <= y
    <3> HIDE DEF D
    <3> QED BY <2>1, MinOfSet
  <2>3. k \in 0 .. w /\ n[k] # v[k] /\ k # 0
    BY <1>4, <2>2
  <2>4. k - 1 \in 0 .. w /\ k \in 1 .. w /\ ~(k <= k - 1)
    BY <2>3
  <2>5. n[k - 1] = v[k - 1]
    BY <2>2, <2>4
  <2>6. n[k] = 10 * n[k - 1] + Value(s[k])
    BY <1>4, <2>3
  <2>7. v[k] = 10 * v[k - 1] + Value(s[k])
    BY <2>4
  <2> QED BY <2>3, <2>5, <2>6, <2>7
<1>6. w \in 0 .. w
  OBVIOUS
<1> QED BY <1>3, <1>5, <1>6

\* The decimal size of a chunk, and what strconv.ParseUint makes of it.
LEMMA DigitsFacts ==
    ASSUME NEW n \in Nat, 1 <= n, n <= MaxChunkSize
    PROVE  /\ DigitsOf(n) \in Seq(Digits)
           /\ Len(DigitsOf(n)) \in Nat /\ 1 <= Len(DigitsOf(n)) /\ Len(DigitsOf(n)) <= 10
           /\ \A i \in 1 .. Len(DigitsOf(n)) : DigitsOf(n)[i] # NL
           /\ DigitsOf(n)[1] # "0"
           /\ Number(DigitsOf(n)) = n
<1> DEFINE w == Width(n)
           v == [i \in 0 .. w |-> IF i = 0 THEN 0 ELSE n \div Powers[w - i + 1]]
           e(i) == (n \div Powers[w - i + 1]) % 10
           s == DigitsOf(n)
<1>1. w \in 1 .. 10 /\ n < 10 * Powers[w] /\ (w # 1 => Powers[w] <= n)
  BY WidthFacts
<1>2. s = [i \in 1 .. w |-> Digit(e(i))]
  BY DEF DigitsOf
<1> HIDE DEF w
<1>3. \A i \in 1 .. w : w - i + 1 \in 1 .. 10
  BY <1>1
<1>4. \A i \in 1 .. w : Powers[w - i + 1] \in Nat /\ 1 <= Powers[w - i + 1]
  BY <1>3, PowersFacts
<1>5. ASSUME NEW i \in 1 .. w
      PROVE  /\ e(i) \in 0 .. 9 /\ n \div Powers[w - i + 1] \in Nat
             /\ n \div Powers[w - i + 1] = 10 * (n \div (10 * Powers[w - i + 1])) + e(i)
  BY <1>4, LastDigit
<1>6. \A i \in 1 .. w : /\ Digit(e(i)) \in Digits /\ Digit(e(i)) # NL
                        /\ Value(Digit(e(i))) = e(i) /\ (e(i) # 0 => Digit(e(i)) # "0")
  <2> HIDE DEF e
  <2> QED BY <1>5, ValueOfDigit
<1>7. s \in Seq(Digits) /\ Len(s) = w
  <2> HIDE DEF e, s
  <2>1. s \in [1 .. w -> Digits] /\ w \in Nat
    BY <1>1, <1>2, <1>6
  <2> QED BY <2>1
<1>8. \A i \in 1 .. w : s[i] = Digit(e(i))
  BY <1>2
<1>9. v[0] = 0 /\ v \in [0 .. w -> Nat]
  <2>1. \A i \in 0 .. w : i # 0 => i \in 1 .. w
    BY <1>1
  <2> HIDE DEF e
  <2> QED BY <1>1, <1>5, <2>1
<1>10. n \div (10 * Powers[w]) = 0
  <2>1. 10 * Powers[w] \in Nat /\ n = 10 * Powers[w] * 0 + n
    BY <1>1, PowersFacts
  <2> QED BY <1>1, <2>1, Quotient
<1>11. ASSUME NEW i \in 1 .. w
       PROVE  v[i] = 10 * v[i - 1] + Value(s[i])
  <2>1. v[i] = n \div Powers[w - i + 1]
    BY <1>1
  <2>2. v[i - 1] = n \div (10 * Powers[w - i + 1])
    <3>1. CASE i = 1
      <4>1. w - i + 1 = w /\ v[i - 1] = 0
        BY <1>1, <3>1
      <4> QED BY <1>10, <4>1
    <3>2. CASE i # 1
      <4>1. i - 1 \in 0 .. w /\ i - 1 # 0 /\ w - (i - 1) + 1 = w - i + 1 + 1 /\ w - i + 1 \in 1 .. 9
        BY <1>1, <3>2
      <4>2. Powers[w - i + 1 + 1] = 10 * Powers[w - i + 1]
        BY <4>1, PowersFacts
      <4>3. v[i - 1] = n \div Powers[w - (i - 1) + 1]
        BY <4>1
      <4> QED BY <4>1, <4>2, <4>3
    <3> QED BY <3>1, <3>2
  <2>3. Value(s[i]) = e(i)
    BY <1>6, <1>8
  <2>4. n \div Powers[w - i + 1] = 10 * (n \div (10 * Powers[w - i + 1])) + e(i)
    BY <1>5
  <2> HIDE DEF v, e, s
  <2> QED BY <2>1, <2>2, <2>3, <2>4
<1>12. v[w] = n
  <2>1. v[w] = n \div Powers[1]
    BY <1>1
  <2>2. n = 1 * n + 0 /\ Powers[1] = 1
    BY PowersFacts
  <2>3. n \div 1 = n
    BY <2>2, Quotient
  <2> QED BY <2>1, <2>2, <2>3
<1>13. Number(s) = n
  <2> HIDE DEF v, s
  <2>1. w \in Nat
    BY <1>1
  <2> QED BY <1>7, <1>9, <1>11, <1>12, <2>1, NumberOf
<1>14. e(1) # 0
  <2>1. Powers[w] \in Nat /\ 1 <= Powers[w] /\ Powers[w] <= n
    <3>1. Powers[w] \in Nat /\ 1 <= Powers[w] /\ Powers[1] = 1
      BY <1>1, PowersFacts
    <3> QED BY <1>1, <3>1
  <2>2. n \div Powers[w] # 0
    BY <2>1, NotZero
  <2>3. 1 \in 1 .. w /\ w - 1 + 1 = w
    BY <1>1
  <2>4. n \div Powers[w] = 10 * (n \div (10 * Powers[w])) + e(1) /\ e(1) \in 0 .. 9
    BY <1>5, <2>3
  <2> HIDE DEF e
  <2> QED BY <1>10, <2>2, <2>4
<1>15. 1 \in 1 .. w
  BY <1>1
<1>16. (\A i \in 1 .. w : s[i] # NL) /\ s[1] # "0"
  <2> HIDE DEF s, e
  <2> QED BY <1>6, <1>8, <1>14, <1>15
<1>17. w \in Nat /\ 1 <= w /\ w <= 10
  BY <1>1
<1> QED BY <1>7, <1>13, <1>16, <1>17

-----------------------------------------------------------------------------
(* The inductive invariant *)

Bytes == Seq(Byte)
States == {"headerStart", "headerSize", "data", "endOfChunks"}

Scan == [rest : Bytes, buf : Bytes, start : Nat, size : {BufferSize}, eof : BOOLEAN,
         state : States, left : Nat, chunks : Nat, advance : Nat, got : Bytes]

BytesOK ==
    /\ transit \in Bytes
    /\ arrived \in Bytes
    /\ window \in Bytes
    /\ out \in Bytes

\* The buffer has its first size and holds what the scanner has in it, of
\* which SplitChunked has gone past a part.  When Scan reads on, SplitChunked
\* has left less than a header in it.
ScanOK(sc, at) ==
    /\ sc \in Scan
    /\ sc.start + Len(sc.buf) <= BufferSize
    /\ sc.advance <= Len(sc.buf)
    /\ at = "fill" => Len(sc.buf) <= 10

TransportInv == BytesOK /\ ScanOK(scan, pc)

-----------------------------------------------------------------------------
(* What the server sends *)

\* The separators are sequences of bytes, and so is the hello.
LEMMA LiteralBytes ==
    /\ msgSeparator \in Bytes /\ Len(msgSeparator) = 6
    /\ msgSeparatorV11 \in Bytes /\ Len(msgSeparatorV11) = 4
    /\ Hello \in Bytes /\ <<>> \in Bytes /\ Len(<<>>) = 0
    /\ <<NL, "#">> \in Bytes /\ <<NL>> \in Bytes
    /\ \A d \in 0 .. 9 : Digit(d) \in Byte
<1>1. {"]", ">", NL, "#", "h", "i"} \subseteq Byte
  BY DEF Byte
<1>2. msgSeparator \in Bytes /\ Len(msgSeparator) = 6
  BY <1>1 DEF msgSeparator, Bytes
<1>3. msgSeparatorV11 \in Bytes /\ Len(msgSeparatorV11) = 4
  BY <1>1 DEF msgSeparatorV11, Bytes
<1>4. Hello \in Bytes /\ <<>> \in Bytes /\ Len(<<>>) = 0
  BY <1>1 DEF Hello, Bytes
<1>5. <<NL, "#">> \in Bytes /\ <<NL>> \in Bytes
  BY <1>1 DEF Bytes
<1>6. ASSUME NEW d \in 0 .. 9
      PROVE  Digit(d) \in Byte
  BY DEF Byte, Digits
<1> QED BY <1>2, <1>3, <1>4, <1>5, <1>6

LEMMA HeaderBytes ==
    ASSUME NEW n \in Nat, 1 <= n, n <= MaxChunkSize
    PROVE  DigitsOf(n) \in Bytes /\ Header(n) \in Bytes
<1>1. DigitsOf(n) \in Seq(Digits) /\ Digits \subseteq Byte
  BY DigitsFacts DEF Byte
<1>2. DigitsOf(n) \in Bytes
  BY <1>1 DEF Bytes
<1> QED BY <1>2, LiteralBytes, ConcatProperties DEF Header, Bytes

LEMMA ChunkBytes ==
    ASSUME NEW d \in Bytes, Len(d) <= MaxChunkSize
    PROVE  Chunk(d) \in Bytes
<1>1. CASE d = <<>>
  BY <1>1, LiteralBytes DEF Chunk
<1>2. CASE d # <<>>
  <2>1. PICK n \in Nat : n = Len(d) /\ 1 <= n
    BY <1>2 DEF Bytes
  <2>2. Header(n) \in Bytes
    BY <2>1, HeaderBytes
  <2> QED BY <1>2, <2>1, <2>2, ConcatProperties DEF Chunk, Bytes
<1> QED BY <1>1, <1>2

LEMMA FrameBytes ==
    ASSUME NEW m \in Payloads, NEW v, NEW f \in Frames(m, v)
    PROVE  f \in Bytes
<1>1. m \in Bytes /\ Len(m) \in 1 .. MaxChunkSize
  BY TransportAssumption DEF Bytes
<1>2. msgSeparator \in Bytes /\ msgSeparatorV11 \in Bytes
  BY LiteralBytes
<1>3. ASSUME NEW k \in 1 .. Len(m)
      PROVE  Chunk(Take(m, k)) \o Chunk(Drop(m, k)) \o msgSeparatorV11 \in Bytes
  <2>1. m \in Seq(Byte) /\ Len(m) \in Nat /\ Len(m) <= MaxChunkSize /\ k \in Nat /\ k <= Len(m)
    BY <1>1, RangeFacts, MaxChunkFacts DEF Bytes
  <2>2. Take(m, k) \in Seq(Byte) /\ Len(Take(m, k)) = k
    BY <2>1, TakeFacts
  <2>3. Drop(m, k) \in Seq(Byte) /\ Len(Drop(m, k)) = Len(m) - k
    BY <2>1, DropFacts
  <2>4. k <= MaxChunkSize /\ Len(m) - k <= MaxChunkSize
    BY <2>1, MaxChunkFacts
  <2>5. Chunk(Take(m, k)) \in Bytes /\ Chunk(Drop(m, k)) \in Bytes
    BY <2>2, <2>3, <2>4, ChunkBytes DEF Bytes
  <2> QED BY <1>2, <2>5, ConcatProperties DEF Bytes
<1>4. m \o msgSeparator \in Bytes
  BY <1>1, <1>2 DEF Bytes
<1> QED BY <1>3, <1>4 DEF Frames

-----------------------------------------------------------------------------
(* The steps *)

LEMMA NoScanOK ==
    ASSUME NEW m \in Bytes, NEW at
    PROVE  ScanOK(NoScan, at) /\ ScanOK([NoScan EXCEPT !.rest = m], at)
<1>1. <<>> \in Bytes /\ Len(<<>>) = 0
  BY DEF Bytes
<1>2. NoScan \in Scan /\ [NoScan EXCEPT !.rest = m] \in Scan
  BY <1>1 DEF NoScan, Scan, States
<1> QED BY <1>1, <1>2 DEF ScanOK, NoScan, BufferSize

\* Scan returns for the last time.
LEMMA ScanEndsOK ==
    ASSUME TransportInv, ScanEnds
    PROVE  TransportInv'
<1>1. scan' = NoScan /\ UNCHANGED <<transit, arrived, window, out>>
  BY DEF ScanEnds, netVars, waitVars
<1>2. ScanOK(NoScan, pc')
  BY NoScanOK DEF TransportInv, BytesOK
<1> QED BY <1>1, <1>2 DEF TransportInv, BytesOK

\* A step of the scanner that leaves the bytes outside it alone.
LEMMA ScanningOK ==
    ASSUME TransportInv, Scanning, ScanOK(scan', pc')
    PROVE  TransportInv'
  BY DEF TransportInv, BytesOK, Scanning, netVars, waitVars

LEMMA ServerOK ==
    ASSUME TransportInv, ServerSend \/ Arrive \/ Break
    PROVE  TransportInv'
<1>0. transit \in Seq(Byte) /\ arrived \in Seq(Byte)
  BY DEF TransportInv, BytesOK, Bytes
<1>1. CASE ServerSend
  <2>1. scan' = scan /\ pc' = pc /\ UNCHANGED <<arrived, window, out>>
    BY <1>1 DEF ServerSend, waitVars
  <2>2. PICK f \in Bytes : transit' = transit \o f
    <3>1. ASSUME NEW m \in Payloads, NEW f \in Frames(m, server)
          PROVE  f \in Bytes
      BY FrameBytes
    <3>2. ASSUME NEW f \in Malformed
          PROVE  f \o msgSeparatorV11 \in Bytes
      <4>1. f \in Bytes /\ msgSeparatorV11 \in Bytes
        BY TransportAssumption, LiteralBytes DEF Bytes
      <4> QED BY <4>1 DEF Bytes
    <3> QED BY <1>1, <3>1, <3>2 DEF ServerSend
  <2>3. transit' \in Bytes
    BY <1>0, <2>2, ConcatProperties DEF Bytes
  <2> QED BY <2>1, <2>3 DEF TransportInv, BytesOK
<1>2. CASE Arrive
  <2>1. PICK n \in 1 .. Len(transit) : arrived' = arrived \o Take(transit, n) /\ transit' = Drop(transit, n)
    BY <1>2 DEF Arrive
  <2>2. n \in Nat /\ n <= Len(transit)
    BY <1>0
  <2>3. Take(transit, n) \in Seq(Byte) /\ Drop(transit, n) \in Seq(Byte)
    BY <1>0, <2>2, TakeFacts, DropFacts
  <2>4. arrived' \in Bytes /\ transit' \in Bytes
    BY <1>0, <2>1, <2>3, ConcatProperties DEF Bytes
  <2> QED BY <1>2, <2>4 DEF Arrive, TransportInv, BytesOK
<1>3. CASE Break
  <2>1. transit' \in Bytes
    BY <1>3 DEF Break, Bytes
  <2> QED BY <1>3, <2>1 DEF Break, TransportInv, BytesOK, waitVars
<1> QED BY <1>1, <1>2, <1>3

LEMMA ReadOK ==
    ASSUME TransportInv, Read \/ ReadEOF
    PROVE  TransportInv'
<1> DEFINE b == window \o New
           ends == Occurrences(b, Separator)
           m == out \o Take(b, Min(ends) - 1)
<1>1. arrived \in Bytes /\ Len(arrived) \in Nat /\ ReadSize \in Nat
  BY TransportAssumption DEF TransportInv, BytesOK, Bytes
<1>2. Min({ReadSize, Len(arrived)}) \in Nat /\ Min({ReadSize, Len(arrived)}) <= Len(arrived)
  BY <1>1, MinOfTwo
<1>3. New \in Bytes
  BY <1>1, <1>2, TakeFacts DEF New, Bytes
<1>4. b \in Bytes
  BY <1>3 DEF TransportInv, BytesOK, Bytes
<1>5. Drop(arrived, Len(New)) \in Bytes
  BY <1>1, <1>3, DropFacts DEF Bytes
<1>6. ends # {} => m \in Bytes
  <2> SUFFICES ASSUME ends # {}
               PROVE  m \in Bytes
    OBVIOUS
  <2>1. ends \subseteq 1 .. Len(b) /\ Len(b) \in Nat
    BY <1>4 DEF Occurrences, Bytes
  <2>2. Min(ends) \in ends
    <3> HIDE DEF ends
    <3>1. ends \in SUBSET Nat
      BY <2>1
    <3> QED BY <3>1, MinOfSet
  <2>3. Min(ends) - 1 \in Nat /\ Min(ends) - 1 <= Len(b)
    BY <2>1, <2>2
  <2>4. Take(b, Min(ends) - 1) \in Bytes
    BY <1>4, <2>3, TakeFacts DEF Bytes
  <2> QED BY <2>4 DEF TransportInv, BytesOK, Bytes
<1>7. CASE Read
  <2>1. transit' = transit /\ arrived' \in Bytes
    BY <1>5, <1>7 DEF Read, Search, netVars
  <2>2. out \o window \in Bytes
    BY ConcatProperties DEF TransportInv, BytesOK, Bytes
  <2>3. window' \in {New, <<>>} /\ out' \in {out \o window, <<>>}
    BY <1>7 DEF Read, Search
  <2>4. window' \in Bytes /\ out' \in Bytes
    BY <1>3, <2>2, <2>3, LiteralBytes
  <2>5. \/ scan' = scan /\ pc' = pc
        \/ ends # {} /\ scan' = [NoScan EXCEPT !.rest = m]
    BY <1>7 DEF Read, Search
  <2>6. ScanOK(scan', pc')
    <3> HIDE DEF m, ends
    <3> QED BY <1>6, <2>5, NoScanOK DEF TransportInv
  <2> QED BY <2>1, <2>4, <2>6 DEF TransportInv, BytesOK
<1>8. CASE ReadEOF
  <2>1. <<>> \in Bytes
    BY DEF Bytes
  <2> QED BY <1>8, <2>1 DEF ReadEOF, netVars, TransportInv, BytesOK, ScanOK
<1> QED BY <1>7, <1>8

\* What SplitChunked has not gone past.
LEMMA CurFacts ==
    ASSUME TransportInv
    PROVE  /\ cur \in Bytes /\ Len(cur) = Len(scan.buf) - scan.advance /\ Len(cur) \in Nat
           /\ scan.buf \in Bytes /\ Len(scan.buf) \in Nat /\ scan.advance \in Nat
<1>1. /\ scan.buf \in Bytes /\ Len(scan.buf) \in Nat
      /\ scan.advance \in Nat /\ scan.advance <= Len(scan.buf)
  BY DEF TransportInv, ScanOK, Scan, Bytes
<1>2. cur \in Bytes /\ Len(cur) = Len(scan.buf) - scan.advance
  BY <1>1, DropFacts DEF cur, Bytes
<1>3. Len(cur) \in Nat
  BY <1>2 DEF Bytes
<1> QED BY <1>1, <1>2, <1>3

\* Scan reads: there is room without a larger buffer.
LEMMA FillReads ==
    ASSUME TransportInv, Fill
    PROVE  \E n \in Nat, start \in Nat :
              /\ n <= Len(scan.rest) /\ start + Len(scan.buf) + n <= 16
              /\ scan' = [scan EXCEPT !.start = start, !.size = scan.size,
                                      !.eof = (scan.rest = <<>>),
                                      !.buf = @ \o Take(scan.rest, n),
                                      !.rest = Drop(@, n)]
              /\ pc' = "split"
              /\ Scanning
<1> DEFINE full  == scan.start + Len(scan.buf) = scan.size
           start == IF full \/ scan.start > scan.size \div 2 THEN 0 ELSE scan.start
           n     == Min({scan.size - start - Len(scan.buf), Len(scan.rest)})
<1>1. /\ scan.size = 16 /\ scan.start \in Nat /\ Len(scan.buf) \in Nat
      /\ scan.start + Len(scan.buf) <= 16 /\ Len(scan.buf) <= 10 /\ Len(scan.rest) \in Nat
  BY DEF TransportInv, ScanOK, Scan, BufferSize, Fill, Bytes
<1>2. start \in Nat /\ start + Len(scan.buf) < 16
  BY <1>1
<1>3. n \in Nat /\ n <= Len(scan.rest) /\ start + Len(scan.buf) + n <= 16
  <2> HIDE DEF start
  <2>1. scan.size - start - Len(scan.buf) \in Nat
    BY <1>1, <1>2
  <2>2. n \in Nat /\ n <= scan.size - start - Len(scan.buf) /\ n <= Len(scan.rest)
    BY <1>1, <2>1, MinOfTwo
  <2> HIDE DEF n
  <2> QED BY <1>1, <1>2, <2>1, <2>2
<1>4. /\ scan' = [scan EXCEPT !.start = start, !.size = scan.size,
                              !.eof = (scan.rest = <<>>),
                              !.buf = @ \o Take(scan.rest, n),
                              !.rest = Drop(@, n)]
      /\ pc' = "split"
      /\ Scanning
  <2>1. ~(start + Len(scan.buf) = scan.size)
    BY <1>1, <1>2
  <2> QED BY <2>1 DEF Fill
<1> HIDE DEF start, n
<1> QED BY <1>2, <1>3, <1>4

LEMMA FillOK ==
    ASSUME TransportInv, Fill
    PROVE  TransportInv'
<1>1. /\ scan \in Scan /\ scan.size = 16 /\ Len(scan.buf) \in Nat
      /\ scan.rest \in Bytes /\ scan.buf \in Bytes
      /\ scan.advance \in Nat /\ scan.advance <= Len(scan.buf)
  BY DEF TransportInv, ScanOK, Scan, BufferSize, Fill, Bytes
<1>2. PICK n \in Nat, start \in Nat :
        /\ n <= Len(scan.rest) /\ start + Len(scan.buf) + n <= 16
        /\ scan' = [scan EXCEPT !.start = start, !.size = scan.size,
                                !.eof = (scan.rest = <<>>),
                                !.buf = @ \o Take(scan.rest, n),
                                !.rest = Drop(@, n)]
        /\ pc' = "split"
        /\ Scanning
  BY FillReads
<1>3. /\ Take(scan.rest, n) \in Bytes /\ Len(Take(scan.rest, n)) = n
      /\ Drop(scan.rest, n) \in Bytes
  BY <1>1, <1>2, TakeFacts, DropFacts DEF Bytes
<1>4. /\ scan.buf \o Take(scan.rest, n) \in Bytes
      /\ Len(scan.buf \o Take(scan.rest, n)) = Len(scan.buf) + n
  <2>1. scan.buf \in Seq(Byte) /\ Take(scan.rest, n) \in Seq(Byte)
    BY <1>1, <1>3 DEF Bytes
  <2>2. /\ scan.buf \o Take(scan.rest, n) \in Seq(Byte)
        /\ Len(scan.buf \o Take(scan.rest, n)) = Len(scan.buf) + Len(Take(scan.rest, n))
    BY <2>1, ConcatProperties
  <2> QED BY <1>3, <2>2 DEF Bytes
<1>5. scan' \in Scan
  BY <1>1, <1>2, <1>3, <1>4 DEF Scan, BufferSize
<1>6. /\ scan'.start = start /\ scan'.buf = scan.buf \o Take(scan.rest, n)
      /\ scan'.advance = scan.advance
  BY <1>1, <1>2 DEF Scan
<1>7. Len(scan'.buf) = Len(scan.buf) + n
  BY <1>4, <1>6
<1>8. scan'.start + Len(scan'.buf) <= 16 /\ scan'.advance <= Len(scan'.buf)
  <2>1. start + Len(scan.buf) + n <= 16 /\ scan'.start = start /\ scan'.advance = scan.advance
    BY <1>2, <1>6
  <2>2. start + (Len(scan.buf) + n) <= 16 /\ scan.advance <= Len(scan.buf) + n
    BY <1>1, <2>1
  <2> QED BY <1>7, <2>1, <2>2
<1>9. ScanOK(scan', pc')
  BY <1>2, <1>5, <1>8 DEF ScanOK, BufferSize
<1> QED BY <1>2, <1>9, ScanningOK

\* What SplitChunked has gone past leaves the buffer.
LEMMA AdvancedFacts ==
    ASSUME NEW sc \in Scan, sc.start + Len(sc.buf) <= BufferSize, sc.advance <= Len(sc.buf)
    PROVE  /\ Advanced(sc) \in Scan
           /\ Advanced(sc).start + Len(Advanced(sc).buf) <= BufferSize
           /\ Advanced(sc).advance = 0
           /\ Advanced(sc).buf = Drop(sc.buf, sc.advance)
           /\ Len(Advanced(sc).buf) = Len(sc.buf) - sc.advance
<1>1. sc.buf \in Bytes /\ sc.advance \in Nat /\ sc.start \in Nat /\ Len(sc.buf) \in Nat
  BY DEF Scan, Bytes
<1>2. Drop(sc.buf, sc.advance) \in Bytes /\ Len(Drop(sc.buf, sc.advance)) = Len(sc.buf) - sc.advance
  BY <1>1, DropFacts DEF Bytes
<1>3. /\ Advanced(sc).start = sc.start + sc.advance /\ Advanced(sc).advance = 0
      /\ Advanced(sc).buf = Drop(sc.buf, sc.advance)
  BY DEF Advanced, Scan
<1>4. sc.start + sc.advance \in Nat
  BY <1>1
<1>5. Advanced(sc) \in Scan
  BY <1>2, <1>4 DEF Advanced, Scan
<1> QED BY <1>1, <1>2, <1>3, <1>5 DEF BufferSize

LEMMA ReturnOK ==
    ASSUME TransportInv, SplitReturn
    PROVE  TransportInv'
<1>1. CASE ScanEnds
  BY <1>1, ScanEndsOK
<1>2. CASE scan' = Advanced(scan) /\ pc' = "fill" /\ Scanning
  <2>1. Len(cur) <= 10
    <3>1. cur = <<>> => Len(cur) = 0
      OBVIOUS
    <3> QED BY <3>1, CurFacts DEF SplitReturn, NeedsMore
  <2>2. ScanOK(scan', pc')
    BY <1>2, <2>1, CurFacts, AdvancedFacts DEF TransportInv, ScanOK, BufferSize
  <2> QED BY <1>2, <2>2, ScanningOK
<1> QED BY <1>1, <1>2 DEF SplitReturn

\* SplitChunked goes past n bytes that are there.
LEMMA PastOK ==
    ASSUME TransportInv, NEW n \in Nat, n <= Len(cur), Scanning, pc' # "fill",
           scan' \in Scan, scan'.buf = scan.buf, scan'.start = scan.start,
           scan'.advance = scan.advance + n
    PROVE  TransportInv'
<1>1. ScanOK(scan', pc')
  BY CurFacts DEF TransportInv, ScanOK
<1> QED BY <1>1, ScanningOK

LEMMA GotoOK ==
    ASSUME TransportInv, pc = "split", NEW n \in Nat, n <= Len(cur), NEW st \in States, Goto(st, n)
    PROVE  TransportInv'
<1>1. scan \in Scan /\ scan.advance + n \in Nat
  BY DEF TransportInv, ScanOK, Scan
<1>2. /\ scan' = [scan EXCEPT !.state = st, !.advance = @ + n] /\ Scanning /\ pc' = pc
  BY DEF Goto
<1>3. /\ scan' \in Scan /\ scan'.buf = scan.buf /\ scan'.start = scan.start
      /\ scan'.advance = scan.advance + n
  BY <1>1, <1>2 DEF Scan
<1> QED BY <1>2, <1>3, PastOK

LEMMA SplitOK ==
    ASSUME TransportInv, HeaderStart \/ HeaderSize \/ Data \/ EndOfChunks
    PROVE  TransportInv'
<1>1. /\ scan \in Scan /\ scan.advance \in Nat /\ scan.left \in Nat
      /\ cur \in Bytes /\ Len(cur) \in Nat /\ Len(cur) = Len(scan.buf) - scan.advance
      /\ scan.got \in Bytes /\ scan.start + Len(scan.buf) <= BufferSize
  BY CurFacts DEF TransportInv, ScanOK, Scan
<1>2. CASE HeaderStart
  <2>1. CASE ScanEnds
    BY <2>1, ScanEndsOK
  <2>2. CASE ~ScanEnds
    <3>1. Len(cur) >= 4 /\ pc = "split"
      BY <1>2, <2>2 DEF HeaderStart, Splits
    <3>2. Goto("endOfChunks", 3) \/ Goto("headerSize", 2)
      BY <1>2, <2>2 DEF HeaderStart
    <3>3. "endOfChunks" \in States /\ "headerSize" \in States
      BY DEF States
    <3>4. 2 <= Len(cur) /\ 3 <= Len(cur)
      BY <1>1, <3>1
    <3> QED BY <3>1, <3>2, <3>3, <3>4, GotoOK
  <2> QED BY <2>1, <2>2
<1>3. CASE HeaderSize
  <2>1. CASE ScanEnds
    BY <2>1, ScanEndsOK
  <2>2. CASE ~ScanEnds
    <3>1. /\ ~BadSize /\ Number(Take(cur, idx)) \in 0 .. MaxChunkSize
          /\ scan' = [scan EXCEPT !.state = "data", !.advance = @ + idx + 1,
                                  !.left = Number(Take(cur, idx))]
          /\ pc = "split" /\ pc' = pc /\ Scanning
      BY <1>3, <2>2 DEF HeaderSize, SizeRead, Splits
    <3>2. idx \in Nat /\ idx + 1 \in Nat /\ idx + 1 <= Len(cur)
      <4>1. LineFeeds \subseteq 1 .. Len(cur) /\ LineFeeds \in SUBSET Nat
        BY <1>1 DEF LineFeeds
      <4>2. LineFeeds # {}
        BY <3>1 DEF BadSize, idx
      <4>3. Min(LineFeeds) \in LineFeeds
        BY <4>1, <4>2, MinOfSet
      <4>4. idx = Min(LineFeeds) - 1
        BY <4>2 DEF idx
      <4>5. Min(LineFeeds) \in Nat /\ 1 <= Min(LineFeeds) /\ Min(LineFeeds) <= Len(cur)
        BY <1>1, <4>1, <4>3, RangeFacts
      <4> QED BY <1>1, <4>4, <4>5
    <3>3. Number(Take(cur, idx)) \in Nat /\ "data" \in States
      BY <3>1 DEF States
    <3>4. scan.advance + idx + 1 \in Nat /\ scan.advance + idx + 1 = scan.advance + (idx + 1)
      BY <1>1, <3>2
    <3>5. /\ scan' \in Scan /\ scan'.buf = scan.buf /\ scan'.start = scan.start
          /\ scan'.advance = scan.advance + (idx + 1)
      BY <1>1, <3>1, <3>3, <3>4 DEF Scan
    <3> QED BY <3>1, <3>2, <3>4, <3>5, PastOK
  <2> QED BY <2>1, <2>2
<1>4. CASE Data
  <2> DEFINE n == Min({Len(cur), scan.left})
             sc == [scan EXCEPT !.advance = @ + n,
                                !.got = @ \o Take(cur, n),
                                !.left = @ - n,
                                !.chunks = IF scan.left = n THEN 1 ELSE @,
                                !.state = IF scan.left = n THEN "headerStart" ELSE @]
  <2>1. /\ scan' = Advanced(sc) /\ Scanning
        /\ pc' = IF scan'.buf = <<>> /\ ~scan.eof THEN "fill" ELSE "split"
    BY <1>4 DEF Data
  <2>2. n \in Nat /\ n <= Len(cur) /\ n <= scan.left
    BY <1>1, MinOfTwo
  <2> HIDE DEF n
  <2>3. scan.got \o Take(cur, n) \in Bytes
    BY <1>1, <2>2, TakeFacts DEF Bytes
  <2>4. scan.left - n \in Nat /\ scan.advance + n \in Nat /\ "headerStart" \in States
    BY <1>1, <2>2 DEF States
  <2>5. /\ sc \in Scan /\ sc.buf = scan.buf /\ sc.start = scan.start
        /\ sc.advance = scan.advance + n
    BY <1>1, <2>2, <2>3, <2>4 DEF Scan
  <2> HIDE DEF sc
  <2>6. sc.start + Len(sc.buf) <= BufferSize /\ sc.advance <= Len(sc.buf) /\ Len(sc.buf) \in Nat
    BY <1>1, <2>2, <2>5, CurFacts
  <2>7. /\ scan' \in Scan /\ scan'.start + Len(scan'.buf) <= BufferSize
        /\ scan'.advance = 0 /\ Len(scan'.buf) \in Nat
    BY <2>1, <2>5, <2>6, AdvancedFacts DEF Scan, Bytes
  <2>8. pc' = "fill" => Len(scan'.buf) <= 10
    BY <2>1
  <2>9. ScanOK(scan', pc')
    BY <2>7, <2>8 DEF ScanOK
  <2> QED BY <2>1, <2>9, ScanningOK
<1>5. CASE EndOfChunks
  <2>1. CASE ScanEnds
    BY <2>1, ScanEndsOK
  <2>2. CASE ~ScanEnds
    <3>1. Goto("headerStart", 1) /\ pc = "split" /\ cur # <<>>
      BY <1>5, <2>2 DEF EndOfChunks, Splits
    <3>2. 1 <= Len(cur)
      BY <1>1, <3>1 DEF Bytes
    <3>3. "headerStart" \in States
      BY DEF States
    <3> QED BY <3>1, <3>2, <3>3, GotoOK
  <2> QED BY <2>1, <2>2
<1> QED BY <1>2, <1>3, <1>4, <1>5

LEMMA InitTransport ==
    ASSUME Init
    PROVE  TransportInv
<1>1. Hello \o msgSeparator \in Bytes /\ <<>> \in Bytes
  BY LiteralBytes, ConcatProperties DEF Bytes
<1>2. BytesOK
  BY <1>1 DEF Init, BytesOK
<1> QED BY <1>1, <1>2, NoScanOK DEF Init, TransportInv

LEMMA NextTransport ==
    ASSUME TransportInv, [Next]_vars
    PROVE  TransportInv'
<1>1. CASE UNCHANGED vars
  BY <1>1 DEF vars, TransportInv, BytesOK
<1>2. CASE Next
  BY <1>2, ServerOK, ReadOK, FillOK, ReturnOK, SplitOK DEF Next, ClientStep
<1> QED BY <1>1, <1>2

\* SplitChunked goes past what it has seen: for every message, well-formed or
\* not, every division into packets, reads and chunks and every size of a
\* chunk, the 16 bytes of Chunked's buffer are enough, so that Scan never
\* gives up on a message that is too long for it.
THEOREM BufferIsEnough == Spec => []ScannerFits
<1>1. Init => TransportInv
  BY InitTransport
<1>2. TransportInv /\ [Next]_vars => TransportInv'
  BY NextTransport
<1>3. TransportInv => ScannerFits
  BY DEF TransportInv, ScanOK, Scan, ScannerFits
<1> QED BY <1>1, <1>2, <1>3, PTL DEF Spec

-----------------------------------------------------------------------------

\* The bytes of s after the first a and up to the b-th.
Part(s, a, b) == SubSeq(s, a + 1, b)

LEMMA PartFacts ==
    ASSUME NEW s \in Bytes, NEW a \in Nat, NEW b \in Nat, a <= b, b <= Len(s)
    PROVE  /\ Part(s, a, b) \in Bytes
           /\ Len(Part(s, a, b)) = b - a
           /\ \A i \in 1 .. b - a : Part(s, a, b)[i] = s[a + i]
<1>1. \A i \in a + 1 .. b : s[i] \in Byte
  BY DEF Bytes
<1>2. /\ SubSeq(s, a + 1, b) \in Seq(Byte)
      /\ Len(SubSeq(s, a + 1, b)) = IF a + 1 <= b THEN b - (a + 1) + 1 ELSE 0
      /\ \A i \in 1 .. b - (a + 1) + 1 : SubSeq(s, a + 1, b)[i] = s[(a + 1) + i - 1]
  <2>1. a + 1 \in Int /\ b \in Int
    OBVIOUS
  <2> QED BY <1>1, <2>1, SubSeqProperties
<1>3. \A i \in 1 .. b - a : (a + 1) + i - 1 = a + i
  OBVIOUS
<1> QED BY <1>2, <1>3 DEF Part, Bytes

LEMMA PartJoin ==
    ASSUME NEW s \in Bytes, NEW a \in Nat, NEW b \in Nat, NEW c \in Nat,
           a <= b, b <= c, c <= Len(s)
    PROVE  Part(s, a, b) \o Part(s, b, c) = Part(s, a, c)
<1>1. a + 1 \in 1 .. Len(s) + 1 /\ b \in (a + 1) - 1 .. Len(s) /\ c \in b .. Len(s)
  BY DEF Bytes
<1> QED BY <1>1, ConcatAdjacentSubSeq DEF Part, Bytes

\* Two sequences of bytes with the same bytes are equal.
LEMMA SameBytes ==
    ASSUME NEW s \in Bytes, NEW t \in Bytes, NEW n \in Nat, Len(s) = n, Len(t) = n,
           \A i \in 1 .. n : s[i] = t[i]
    PROVE  s = t
  BY SeqEqual DEF Bytes

LEMMA PartOfPart ==
    ASSUME NEW s \in Bytes, NEW a \in Nat, NEW b \in Nat, a <= b, b <= Len(s),
           NEW i \in Nat, NEW j \in Nat, i <= j, j <= b - a
    PROVE  Part(Part(s, a, b), i, j) = Part(s, a + i, a + j)
<1>1. PICK c \in Nat, d \in Nat, l \in Nat : c = a + i /\ d = a + j /\ l = j - i
  OBVIOUS
<1>2. c <= d /\ d <= Len(s) /\ d - c = l
  BY <1>1 DEF Bytes
<1> DEFINE p == Part(s, a, b)
<1>3. p \in Bytes /\ Len(p) = b - a /\ \A n \in 1 .. b - a : p[n] = s[a + n]
  BY PartFacts
<1> HIDE DEF p
<1>4. Part(s, c, d) \in Bytes /\ Len(Part(s, c, d)) = l /\ \A n \in 1 .. l : Part(s, c, d)[n] = s[c + n]
  BY <1>2, PartFacts
<1>5. Part(p, i, j) \in Bytes /\ Len(Part(p, i, j)) = l /\ \A n \in 1 .. l : Part(p, i, j)[n] = p[i + n]
  <2>1. j <= Len(p)
    BY <1>3
  <2>2. /\ Part(p, i, j) \in Bytes /\ Len(Part(p, i, j)) = j - i
        /\ \A n \in 1 .. j - i : Part(p, i, j)[n] = p[i + n]
    BY <1>3, <2>1, PartFacts
  <2> QED BY <1>1, <2>2
<1>6. ASSUME NEW n \in 1 .. l
      PROVE  Part(p, i, j)[n] = Part(s, c, d)[n]
  <2>1. i + n \in 1 .. b - a /\ c + n = a + (i + n)
    BY <1>1
  <2> QED BY <1>3, <1>4, <1>5, <2>1
<1>7. Part(p, i, j) = Part(s, c, d)
  BY <1>4, <1>5, <1>6, SameBytes
<1> QED BY <1>1, <1>7 DEF p

LEMMA PartWhole ==
    ASSUME NEW s \in Bytes
    PROVE  /\ Part(s, 0, Len(s)) = s
           /\ \A a \in Nat : Part(s, a, a) = <<>>
<1>1. Part(s, 0, Len(s)) = s
  BY SubSeqFull DEF Part, Bytes
<1>2. ASSUME NEW a \in Nat
      PROVE  Part(s, a, a) = <<>>
  <2>1. a + 1 \in Int /\ a \in Int /\ a < a + 1
    OBVIOUS
  <2> QED BY <2>1, SubSeqEmpty DEF Part
<1> QED BY <1>1, <1>2

LEMMA ConcatFacts ==
    ASSUME NEW s \in Bytes, NEW t \in Bytes
    PROVE  /\ s \o t \in Bytes
           /\ Len(s \o t) = Len(s) + Len(t)
           /\ \A i \in 1 .. Len(s) : (s \o t)[i] = s[i]
           /\ \A i \in 1 .. Len(t) : (s \o t)[Len(s) + i] = t[i]
<1>0. PICK a \in Nat, b \in Nat : Len(s) = a /\ Len(t) = b
  BY DEF Bytes
<1>1. /\ s \o t \in Seq(Byte) /\ Len(s \o t) = a + b
      /\ \A i \in 1 .. a + b : (s \o t)[i] = IF i <= a THEN s[i] ELSE t[i - a]
  BY <1>0, ConcatProperties DEF Bytes
<1>2. \A i \in 1 .. a : i \in 1 .. a + b /\ i <= a
  OBVIOUS
<1>3. \A i \in 1 .. b : a + i \in 1 .. a + b /\ ~(a + i <= a) /\ (a + i) - a = i
  OBVIOUS
<1>4. s \o t \in Bytes
  BY <1>1 DEF Bytes
<1> QED BY <1>0, <1>1, <1>2, <1>3, <1>4

LEMMA LenNat ==
    ASSUME NEW s \in Bytes
    PROVE  Len(s) \in Nat
  BY DEF Bytes

LEMMA ConcatAssoc ==
    ASSUME NEW s \in Bytes, NEW t \in Bytes, NEW u \in Bytes
    PROVE  (s \o t) \o u = s \o (t \o u)
  BY ConcatAssociative DEF Bytes

\* What comes first in a concatenation, and what comes last.
LEMMA PartOfConcat ==
    ASSUME NEW s \in Bytes, NEW t \in Bytes
    PROVE  /\ Take(s \o t, Len(s)) = s
           /\ Drop(s \o t, Len(s)) = t
<1>1. PICK a \in Nat, b \in Nat, c \in Nat : Len(s) = a /\ Len(t) = b /\ c = a + b
  BY LenNat
<1> DEFINE w == s \o t
<1>2. /\ w \in Bytes /\ Len(w) = c
      /\ \A i \in 1 .. a : w[i] = s[i]
      /\ \A i \in 1 .. b : w[a + i] = t[i]
  <2>1. /\ s \o t \in Bytes /\ Len(s \o t) = Len(s) + Len(t)
        /\ \A i \in 1 .. Len(s) : (s \o t)[i] = s[i]
        /\ \A i \in 1 .. Len(t) : (s \o t)[Len(s) + i] = t[i]
    BY ConcatFacts
  <2> QED BY <1>1, <2>1
<1> HIDE DEF w
<1>3. Part(w, 0, a) \in Bytes /\ Len(Part(w, 0, a)) = a /\ \A i \in 1 .. a : Part(w, 0, a)[i] = w[0 + i]
  <2>1. w \in Bytes /\ a - 0 = a /\ 0 <= a /\ a <= Len(w) /\ 0 \in Nat
    BY <1>1, <1>2
  <2>2. /\ Part(w, 0, a) \in Bytes /\ Len(Part(w, 0, a)) = a - 0
        /\ \A i \in 1 .. a - 0 : Part(w, 0, a)[i] = w[0 + i]
    BY <2>1, PartFacts
  <2> QED BY <2>1, <2>2
<1>4. Part(w, a, c) \in Bytes /\ Len(Part(w, a, c)) = b /\ \A i \in 1 .. b : Part(w, a, c)[i] = w[a + i]
  <2>1. w \in Bytes /\ c - a = b /\ a <= c /\ c <= Len(w)
    BY <1>1, <1>2
  <2>2. /\ Part(w, a, c) \in Bytes /\ Len(Part(w, a, c)) = c - a
        /\ \A i \in 1 .. c - a : Part(w, a, c)[i] = w[a + i]
    BY <2>1, PartFacts
  <2> QED BY <2>1, <2>2
<1>5. Part(w, 0, a) = s
  <2>1. \A i \in 1 .. a : 0 + i = i
    OBVIOUS
  <2>2. \A i \in 1 .. a : Part(w, 0, a)[i] = s[i]
    BY <1>2, <1>3, <2>1
  <2> QED BY <1>1, <1>3, <2>2, SameBytes
<1>6. Part(w, a, c) = t
  <2>1. \A i \in 1 .. b : Part(w, a, c)[i] = t[i]
    BY <1>2, <1>4
  <2> QED BY <1>1, <1>4, <2>1, SameBytes
<1> QED BY <1>1, <1>2, <1>5, <1>6 DEF Part, Take, Drop, w

LEMMA Cut ==
    ASSUME NEW s \in Bytes, NEW n \in Nat, n <= Len(s)
    PROVE  /\ Take(s, n) \in Bytes /\ Len(Take(s, n)) = n
           /\ Drop(s, n) \in Bytes /\ Len(Drop(s, n)) = Len(s) - n
           /\ Take(s, n) \o Drop(s, n) = s
<1>1. PICK l \in Nat : Len(s) = l
  BY LenNat
<1>2. /\ Take(s, n) \in Bytes /\ Len(Take(s, n)) = n
      /\ Drop(s, n) \in Bytes /\ Len(Drop(s, n)) = Len(s) - n
  BY TakeFacts, DropFacts DEF Bytes
<1>3. Take(s, n) \o Drop(s, n) = s
  <2>1. Part(s, 0, n) \o Part(s, n, l) = Part(s, 0, l)
    BY <1>1, PartJoin
  <2> QED BY <1>1, <2>1, PartWhole DEF Part, Take, Drop
<1> QED BY <1>2, <1>3

\* The same where the first part is cut.
LEMMA CutConcat ==
    \A s \in Bytes, t \in Bytes, n \in Nat :
        n <= Len(s) => /\ Take(s \o t, n) = Take(s, n)
                       /\ Drop(s \o t, n) = Drop(s, n) \o t
<1> SUFFICES ASSUME NEW s \in Bytes, NEW t \in Bytes, NEW n \in Nat, n <= Len(s)
             PROVE  Take(s \o t, n) = Take(s, n) /\ Drop(s \o t, n) = Drop(s, n) \o t
  OBVIOUS
<1> DEFINE a == Take(s, n)
           b == Drop(s, n)
<1>4. a \in Bytes /\ b \in Bytes /\ Len(a) = n /\ a \o b = s
  BY Cut
<1> HIDE DEF a, b
<1>5. s \o t = a \o (b \o t) /\ b \o t \in Bytes
  <2>1. (a \o b) \o t = a \o (b \o t)
    BY <1>4, ConcatAssoc
  <2>2. b \o t \in Bytes
    BY <1>4, ConcatFacts
  <2> QED BY <1>4, <2>1, <2>2
<1>6. Take(a \o (b \o t), Len(a)) = a /\ Drop(a \o (b \o t), Len(a)) = b \o t
  BY <1>4, <1>5, PartOfConcat
<1>7. Take(s \o t, n) = a /\ Drop(s \o t, n) = b \o t
  BY <1>4, <1>5, <1>6
<1> QED BY <1>7 DEF a, b

\* Cutting twice.
LEMMA CutTwice ==
    ASSUME NEW s \in Bytes, NEW n \in Nat, NEW k \in Nat, n <= k, k <= Len(s)
    PROVE  /\ Drop(Drop(s, n), k - n) = Drop(s, k)
           /\ Take(s, k) = Take(s, n) \o Take(Drop(s, n), k - n)
<1>1. PICK l \in Nat, d \in Nat, e \in Nat : Len(s) = l /\ d = k - n /\ e = l - n
  BY LenNat
<1>2. n + d = k /\ n + e = l /\ n + 0 = n /\ d <= l - n /\ d <= e /\ e <= l - n /\ n <= l /\ l <= Len(s)
  BY <1>1
<1>3. Part(Part(s, n, l), d, e) = Part(s, n + d, n + e)
  BY <1>2, PartOfPart
<1>4. Part(Part(s, n, l), 0, d) = Part(s, n + 0, n + d)
  BY <1>2, PartOfPart
<1>5. Part(s, n, l) = Drop(s, n) /\ Len(Drop(s, n)) = e
  BY <1>1, <1>2, Cut DEF Part, Drop
<1>6. Drop(Drop(s, n), d) = Drop(s, k)
  BY <1>1, <1>2, <1>3, <1>5 DEF Part, Drop
<1>7. Take(Drop(s, n), d) = Part(s, n, k)
  BY <1>1, <1>2, <1>4, <1>5 DEF Part, Take
<1>8. Part(s, 0, n) \o Part(s, n, k) = Part(s, 0, k)
  BY <1>1, PartJoin
<1> QED BY <1>1, <1>6, <1>7, <1>8 DEF Part, Take

-----------------------------------------------------------------------------

\* The data of a chunk of y bytes, and what follows: at most one more chunk.
Body(w, y) == Take(w, y) \o Chunk(Drop(w, y))

\* What is ahead of SplitChunked, when the data w is still to be returned.
Ahead(state, left, w, u) ==
    \/ state = "headerStart" /\ w = <<>> /\ u = <<>>
    \/ state = "headerStart" /\ \E y \in 1 .. Len(w) : u = Header(y) \o Body(w, y)
    \/ state = "headerSize" /\ \E y \in 1 .. Len(w) : u = (DigitsOf(y) \o <<NL>>) \o Body(w, y)
    \/ state = "data" /\ left \in 1 .. Len(w) /\ u = Body(w, left)

LEMMA BodyBytes ==
    ASSUME NEW w \in Bytes, Len(w) <= MaxChunkSize, NEW y \in Nat, y <= Len(w)
    PROVE  Body(w, y) \in Bytes /\ Chunk(Drop(w, y)) \in Bytes
<1>1. Take(w, y) \in Bytes /\ Drop(w, y) \in Bytes /\ Len(Drop(w, y)) = Len(w) - y /\ Len(w) \in Nat
  BY Cut, LenNat
<1>2. Len(w) - y <= MaxChunkSize
  BY <1>1, MaxChunkFacts
<1>3. Chunk(Drop(w, y)) \in Bytes
  BY <1>1, <1>2, ChunkBytes
<1> QED BY <1>1, <1>3, ConcatFacts DEF Body

\* A chunk that is the last one.
LEMMA LastChunk ==
    ASSUME NEW w \in Bytes, Len(w) <= MaxChunkSize, NEW left
    PROVE  Ahead("headerStart", left, w, Chunk(w))
<1>1. CASE w = <<>>
  BY <1>1 DEF Ahead, Chunk
<1>2. CASE w # <<>>
  <2>1. PICK l \in Nat : Len(w) = l
    BY LenNat
  <2>2. 1 <= l
    BY <1>2, <2>1 DEF Bytes
  <2>3. Take(w, l) = w /\ Drop(w, l) = <<>>
    BY <2>1, PartWhole DEF Part, Take, Drop
  <2>4. Body(w, l) = w
    <3>1. Body(w, l) = w \o <<>>
      BY <2>3 DEF Body, Chunk
    <3> QED BY <3>1, ConcatEmptySeq DEF Bytes
  <2>5. Chunk(w) = Header(l) \o Body(w, l)
    BY <1>2, <2>1, <2>4 DEF Chunk
  <2>6. l \in 1 .. Len(w)
    BY <2>1, <2>2
  <2> QED BY <2>5, <2>6 DEF Ahead
<1> QED BY <1>1, <1>2

\* The chunks of a message.
LEMMA FrameAhead ==
    ASSUME NEW m \in Bytes, Len(m) <= MaxChunkSize, NEW k \in 1 .. Len(m), NEW left
    PROVE  Ahead("headerStart", left, m, Chunk(Take(m, k)) \o Chunk(Drop(m, k)))
<1>1. Len(m) \in Nat /\ k \in Nat /\ 1 <= k /\ k <= Len(m) /\ k <= MaxChunkSize
  <2>1. Len(m) \in Nat
    BY LenNat
  <2> QED BY <2>1, RangeFacts, MaxChunkFacts
<1>2. Take(m, k) \in Bytes /\ Len(Take(m, k)) = k /\ Chunk(Drop(m, k)) \in Bytes
  BY <1>1, Cut, BodyBytes
<1>3. Take(m, k) # <<>>
  BY <1>1, <1>2
<1>4. Chunk(Take(m, k)) = Header(k) \o Take(m, k)
  BY <1>2, <1>3 DEF Chunk
<1>5. Header(k) \in Bytes
  BY <1>1, HeaderBytes
<1>6. (Header(k) \o Take(m, k)) \o Chunk(Drop(m, k)) = Header(k) \o (Take(m, k) \o Chunk(Drop(m, k)))
  BY <1>2, <1>5, ConcatAssoc
<1> QED BY <1>4, <1>6 DEF Ahead, Body

LEMMA HeaderShape ==
    ASSUME NEW y \in Nat, 1 <= y, y <= MaxChunkSize
    PROVE  /\ <<NL, "#">> \in Bytes /\ Len(<<NL, "#">>) = 2
           /\ DigitsOf(y) \o <<NL>> \in Bytes /\ Len(DigitsOf(y) \o <<NL>>) = Len(DigitsOf(y)) + 1
           /\ DigitsOf(y) \in Bytes /\ Len(DigitsOf(y)) \in Nat
           /\ 1 <= Len(DigitsOf(y)) /\ Len(DigitsOf(y)) <= 10
           /\ \A i \in 1 .. Len(DigitsOf(y)) : (DigitsOf(y) \o <<NL>>)[i] = DigitsOf(y)[i]
           /\ (DigitsOf(y) \o <<NL>>)[Len(DigitsOf(y)) + 1] = NL
           /\ Header(y) = <<NL, "#">> \o (DigitsOf(y) \o <<NL>>)
<1>1. /\ DigitsOf(y) \in Bytes /\ Len(DigitsOf(y)) \in Nat
      /\ 1 <= Len(DigitsOf(y)) /\ Len(DigitsOf(y)) <= 10
  BY DigitsFacts, HeaderBytes
<1>2. <<NL, "#">> \in Bytes /\ <<NL>> \in Bytes /\ Len(<<NL, "#">>) = 2 /\ Len(<<NL>>) = 1
  BY LiteralBytes
<1>3. Header(y) = <<NL, "#">> \o (DigitsOf(y) \o <<NL>>)
  BY <1>1, <1>2, ConcatAssoc DEF Header
<1> DEFINE d == DigitsOf(y)
           t == <<NL>>
<1>4. t \in Bytes /\ Len(t) = 1 /\ t[1] = NL
  BY <1>2
<1> HIDE DEF d, t
<1>5. d \in Bytes /\ Len(d) \in Nat
  BY <1>1 DEF d
<1>6. /\ d \o t \in Bytes
      /\ Len(d \o t) = Len(d) + Len(t)
      /\ \A i \in 1 .. Len(d) : (d \o t)[i] = d[i]
      /\ \A i \in 1 .. Len(t) : (d \o t)[Len(d) + i] = t[i]
  BY <1>4, <1>5, ConcatFacts
<1>7. (d \o t)[Len(d) + 1] = NL /\ Len(d \o t) = Len(d) + 1
  BY <1>4, <1>5, <1>6
<1> QED BY <1>1, <1>2, <1>3, <1>6, <1>7 DEF d, t

\* The first bytes of a header, where at least four bytes c of it are there.
LEMMA SeesHeader ==
    ASSUME NEW c \in Bytes, NEW r \in Bytes, NEW y \in Nat, 1 <= y, y <= MaxChunkSize, NEW b \in Bytes,
           c \o r = Header(y) \o b, 4 <= Len(c)
    PROVE  Take(c, 2) = <<NL, "#">> /\ c[3] \in Digits \ {"0"}
<1> DEFINE h == <<NL, "#">>
           d == DigitsOf(y) \o <<NL>>
<1>1. /\ h \in Bytes /\ Len(h) = 2 /\ d \in Bytes /\ Len(d) \in Nat /\ 2 <= Len(d)
      /\ d[1] \in Digits \ {"0"} /\ Header(y) = h \o d
  <2>1. 1 \in 1 .. Len(DigitsOf(y)) /\ 2 <= Len(DigitsOf(y)) + 1 /\ Len(DigitsOf(y)) + 1 \in Nat
    <3>1. Len(DigitsOf(y)) \in Nat /\ 1 <= Len(DigitsOf(y))
      BY HeaderShape
    <3> QED BY <3>1
  <2>2. DigitsOf(y)[1] \in Digits \ {"0"}
    <3>1. DigitsOf(y) \in Seq(Digits) /\ DigitsOf(y)[1] # "0"
      BY DigitsFacts
    <3> QED BY <2>1, <3>1
  <2>3. (DigitsOf(y) \o <<NL>>)[1] = DigitsOf(y)[1]
    BY <2>1, HeaderShape
  <2> QED BY <2>2, <2>1, <2>3, HeaderShape
<1> HIDE DEF h, d
<1>2. PICK x \in Bytes : x = d \o b
  BY <1>1, ConcatFacts
<1>3. c \o r = h \o x
  <2>1. (h \o d) \o b = h \o (d \o b)
    BY <1>1, ConcatAssoc
  <2> QED BY <1>1, <1>2, <2>1
<1>4. PICK l \in Nat : Len(c) = l
  BY LenNat
<1>5. Take(c \o r, 2) = Take(c, 2)
  <2>1. 2 \in Nat /\ 2 <= Len(c)
    BY <1>4
  <2> QED BY <2>1, CutConcat, Zenon
<1>6. Take(h \o x, 2) = h
  BY <1>1, PartOfConcat
<1>7. c[3] = (c \o r)[3]
  <2>1. 3 \in 1 .. Len(c)
    BY <1>4
  <2> QED BY <2>1, ConcatFacts
<1>8. (h \o x)[3] = x[1]
  <2>1. PICK e \in Nat : Len(x) = e
    BY LenNat
  <2>2. 1 <= e
    <3>1. Len(x) = Len(d) + Len(b)
      BY <1>1, <1>2, ConcatFacts
    <3> QED BY <1>1, <2>1, <3>1, LenNat
  <2>3. \A i \in 1 .. Len(x) : (h \o x)[Len(h) + i] = x[i]
    BY <1>1, ConcatFacts
  <2>4. 1 \in 1 .. Len(x) /\ Len(h) + 1 = 3
    BY <1>1, <2>1, <2>2
  <2> QED BY <2>3, <2>4
<1>9. x[1] = d[1]
  <2>1. 1 \in 1 .. Len(d)
    BY <1>1
  <2> QED BY <1>1, <1>2, <2>1, ConcatFacts
<1> QED BY <1>1, <1>3, <1>5, <1>6, <1>7, <1>8, <1>9 DEF h

\* What is not empty before a header, in it and in the data.
LEMMA AheadFacts ==
    ASSUME NEW w \in Bytes, Len(w) <= MaxChunkSize, NEW state, NEW left, NEW u, Ahead(state, left, w, u)
    PROVE  /\ u \in Bytes
           /\ u = <<>> => w = <<>> /\ state = "headerStart"
<1>1. Len(w) \in Nat /\ \A y \in 1 .. Len(w) : y \in Nat /\ 1 <= y /\ y <= Len(w) /\ y <= MaxChunkSize
  <2>1. Len(w) \in Nat
    BY LenNat
  <2> QED BY <2>1, RangeFacts, MaxChunkFacts
<1>2. ASSUME NEW y \in 1 .. Len(w), NEW h \in Bytes, h # <<>>
      PROVE  h \o Body(w, y) \in Bytes /\ h \o Body(w, y) # <<>>
  <2>1. Body(w, y) \in Bytes
    BY <1>1, BodyBytes
  <2>2. h \o Body(w, y) \in Bytes
    BY <2>1, ConcatFacts
  <2>3. h \o Body(w, y) # <<>>
    BY <1>2, <2>1, ConcatEqualIffEmpty DEF Bytes
  <2> QED BY <2>2, <2>3
<1>3. CASE state = "headerStart" /\ w = <<>> /\ u = <<>>
  BY <1>3, LiteralBytes
<1>4. CASE state = "headerStart" /\ \E y \in 1 .. Len(w) : u = Header(y) \o Body(w, y)
  <2>1. PICK y \in 1 .. Len(w) : u = Header(y) \o Body(w, y)
    BY <1>4
  <2>2. Header(y) \in Bytes /\ Header(y) # <<>>
    <3>1. Header(y) = <<NL, "#">> \o (DigitsOf(y) \o <<NL>>) /\ <<NL, "#">> \in Bytes
             /\ DigitsOf(y) \o <<NL>> \in Bytes
      BY <1>1, HeaderShape
    <3>2. <<NL, "#">> # <<>>
      OBVIOUS
    <3> QED BY <3>1, <3>2, ConcatFacts, ConcatEqualIffEmpty DEF Bytes
  <2> QED BY <1>2, <2>1, <2>2
<1>5. CASE state = "headerSize" /\ \E y \in 1 .. Len(w) : u = (DigitsOf(y) \o <<NL>>) \o Body(w, y)
  <2>1. PICK y \in 1 .. Len(w) : u = (DigitsOf(y) \o <<NL>>) \o Body(w, y)
    BY <1>5
  <2>2. DigitsOf(y) \o <<NL>> \in Bytes /\ DigitsOf(y) \o <<NL>> # <<>>
    <3>1. DigitsOf(y) \in Bytes /\ <<NL>> \in Bytes /\ <<NL>> # <<>> /\ DigitsOf(y) \o <<NL>> \in Bytes
      BY <1>1, HeaderShape, LiteralBytes
    <3> QED BY <3>1, ConcatEqualIffEmpty DEF Bytes
  <2> QED BY <1>2, <2>1, <2>2
<1>6. CASE state = "data" /\ left \in 1 .. Len(w) /\ u = Body(w, left)
  <2>1. left \in Nat /\ 1 <= left /\ left <= Len(w)
    BY <1>1, <1>6
  <2>2. Body(w, left) \in Bytes /\ Chunk(Drop(w, left)) \in Bytes
    BY <2>1, BodyBytes
  <2>3. Take(w, left) \in Bytes /\ Take(w, left) # <<>>
    <3>1. Take(w, left) \in Bytes /\ Len(Take(w, left)) = left
      BY <2>1, Cut
    <3> QED BY <2>1, <3>1
  <2>4. Body(w, left) # <<>>
    BY <2>2, <2>3, ConcatEqualIffEmpty DEF Bytes, Body
  <2> QED BY <1>6, <2>2, <2>4
<1> QED BY <1>3, <1>4, <1>5, <1>6 DEF Ahead

\* SplitChunked at a header: it is good, and the size is next.
LEMMA StartAhead ==
    ASSUME NEW c \in Bytes, NEW r \in Bytes, NEW w \in Bytes, Len(w) <= MaxChunkSize, NEW left,
           Ahead("headerStart", left, w, c \o r), c # <<>>, 4 <= Len(c) \/ r = <<>>
    PROVE  /\ 4 <= Len(c) /\ Take(c, 2) = <<NL, "#">> /\ c[3] \in Digits \ {"0"}
           /\ Ahead("headerSize", left, w, Drop(c, 2) \o r)
<1>1. Len(w) \in Nat /\ Len(c) \in Nat
  BY LenNat
<1>2. c \o r # <<>>
  BY ConcatEqualIffEmpty DEF Bytes
<1>3. PICK y \in 1 .. Len(w) : c \o r = Header(y) \o Body(w, y)
  BY <1>2 DEF Ahead
<1>4. y \in Nat /\ 1 <= y /\ y <= Len(w) /\ y <= MaxChunkSize
  BY <1>1, MaxChunkFacts
<1>5. Body(w, y) \in Bytes
  BY <1>4, BodyBytes
<1> DEFINE h == <<NL, "#">>
           d == DigitsOf(y) \o <<NL>>
<1>6. h \in Bytes /\ Len(h) = 2 /\ d \in Bytes /\ Header(y) = h \o d
  BY <1>4, HeaderShape
<1>7. Len(d) \in Nat /\ 2 <= Len(d)
  <2>1. Len(d) = Len(DigitsOf(y)) + 1 /\ Len(DigitsOf(y)) \in Nat /\ 1 <= Len(DigitsOf(y))
    BY <1>4, HeaderShape
  <2> HIDE DEF d
  <2> QED BY <2>1
<1> HIDE DEF h, d
<1>8. PICK b \in Bytes : b = Body(w, y)
  BY <1>5
<1>9. (h \o d) \o b = h \o (d \o b) /\ d \o b \in Bytes
  <2>1. (h \o d) \o b = h \o (d \o b)
    BY <1>6, ConcatAssoc
  <2>2. d \o b \in Bytes
    BY <1>6, ConcatFacts
  <2> QED BY <2>1, <2>2
<1>10. c \o r = h \o (d \o b)
  BY <1>3, <1>6, <1>8, <1>9
<1>11. 4 <= Len(c)
  <2>1. CASE r = <<>>
    <3>1. c = h \o (d \o b)
      BY <1>10, <2>1, ConcatEmptySeq DEF Bytes
    <3>2. Len(d \o b) = Len(d) + Len(b) /\ Len(b) \in Nat
      BY <1>6, ConcatFacts, LenNat
    <3>3. Len(h \o (d \o b)) = Len(h) + Len(d \o b)
      BY <1>6, <1>9, ConcatFacts
    <3> QED BY <1>6, <1>7, <3>1, <3>2, <3>3
  <2> QED BY <2>1
<1>12. Take(c, 2) = <<NL, "#">> /\ c[3] \in Digits \ {"0"}
  BY <1>3, <1>4, <1>5, <1>11, SeesHeader
<1>13. Drop(c, 2) \o r = d \o b
  <2>1. 2 \in Nat /\ 2 <= Len(c)
    BY <1>1, <1>11
  <2>2. PICK x \in Bytes : x = d \o b
    BY <1>9
  <2>3. c \o r = h \o x
    BY <1>10, <2>2
  <2>4. Drop(c \o r, 2) = Drop(c, 2) \o r
    BY <2>1, CutConcat
  <2>5. Drop(h \o x, 2) = x
    <3>1. Drop(h \o x, Len(h)) = x
      BY <1>6, PartOfConcat
    <3> QED BY <1>6, <3>1
  <2> QED BY <2>2, <2>3, <2>4, <2>5
<1>14. Ahead("headerSize", left, w, Drop(c, 2) \o r)
  BY <1>8, <1>13 DEF Ahead, d
<1> QED BY <1>11, <1>12, <1>14

\* SplitChunked at a size: it reads the one that was written.
LEMMA SizeAhead ==
    ASSUME NEW c \in Bytes, NEW r \in Bytes, NEW w \in Bytes, Len(w) <= MaxChunkSize, NEW left,
           Ahead("headerSize", left, w, c \o r),
           r = <<>> \/ 11 <= Len(c) \/ \E i \in 1 .. Len(c) : c[i] = NL
    PROVE  \E y \in Nat, l \in Nat :
              /\ 1 <= l /\ l <= 10 /\ l + 1 <= Len(c) /\ c[l + 1] = NL
              /\ \A i \in 1 .. l : c[i] # NL
              /\ \A i \in 1 .. Len(Take(c, l)) : Take(c, l)[i] \in Digits
              /\ Number(Take(c, l)) = y /\ y <= MaxChunkSize
              /\ Ahead("data", y, w, Drop(c, l + 1) \o r)
<1>1. Len(w) \in Nat /\ Len(c) \in Nat
  BY LenNat
<1>2. PICK y \in 1 .. Len(w) : c \o r = (DigitsOf(y) \o <<NL>>) \o Body(w, y)
  BY DEF Ahead
<1>3. y \in Nat /\ 1 <= y /\ y <= Len(w) /\ y <= MaxChunkSize
  BY <1>1, MaxChunkFacts
<1>4. PICK b \in Bytes : b = Body(w, y)
  BY <1>3, BodyBytes
<1>5. PICK l \in Nat : l = Len(DigitsOf(y)) /\ 1 <= l /\ l <= 10
  BY <1>3, HeaderShape
<1> DEFINE d == DigitsOf(y)
           h == d \o <<NL>>
<1>6. /\ d \in Bytes /\ h \in Bytes /\ Len(d) = l /\ Len(h) = l + 1
      /\ \A i \in 1 .. l : h[i] = d[i] /\ d[i] # NL
      /\ h[l + 1] = NL
  BY <1>3, <1>5, HeaderShape, DigitsFacts
<1>7. h \o b = d \o (<<NL>> \o b) /\ <<NL>> \o b \in Bytes
  <2>1. d \in Bytes
    BY <1>6
  <2>2. PICK t \in Bytes : t = <<NL>>
    BY LiteralBytes
  <2> HIDE DEF d, h
  <2>3. (d \o t) \o b = d \o (t \o b)
    BY <2>1, ConcatAssoc
  <2>4. t \o b \in Bytes
    BY ConcatFacts
  <2> QED BY <2>2, <2>3, <2>4 DEF h
<1> HIDE DEF d, h
<1>8. c \o r = h \o b
  BY <1>2, <1>4 DEF d, h
<1>9. l + 1 <= Len(c)
  <2>1. CASE 11 <= Len(c)
    BY <1>1, <1>5, <2>1
  <2>2. CASE r = <<>>
    <3>1. c = h \o b
      BY <1>8, <2>2, ConcatEmptySeq DEF Bytes
    <3>2. Len(h \o b) = Len(h) + Len(b) /\ Len(b) \in Nat
      BY <1>6, ConcatFacts, LenNat
    <3> QED BY <1>6, <3>1, <3>2
  <2>3. ASSUME NEW i \in 1 .. Len(c), c[i] = NL, ~(l + 1 <= Len(c))
        PROVE  FALSE
    <3>1. i \in 1 .. l /\ i \in 1 .. Len(h)
      BY <1>1, <1>6, <2>3
    <3>2. (c \o r)[i] = c[i]
      BY ConcatFacts
    <3>3. (h \o b)[i] = h[i]
      BY <1>6, <3>1, ConcatFacts
    <3> QED BY <1>6, <1>8, <2>3, <3>1, <3>2, <3>3
  <2> QED BY <2>1, <2>2, <2>3
<1>10. ASSUME NEW i \in 1 .. l + 1
       PROVE  c[i] = h[i]
  <2>1. i \in 1 .. Len(c) /\ i \in 1 .. Len(h)
    BY <1>1, <1>6, <1>9
  <2>2. (c \o r)[i] = c[i]
    BY <2>1, ConcatFacts
  <2>3. (h \o b)[i] = h[i]
    BY <1>6, <2>1, ConcatFacts
  <2> QED BY <1>8, <2>2, <2>3
<1>11. Take(c, l) = d
  <2>1. l <= Len(c)
    BY <1>1, <1>9
  <2>2. Take(c \o r, l) = Take(c, l)
    BY <2>1, CutConcat
  <2>3. Take(d \o (<<NL>> \o b), l) = d
    BY <1>6, <1>7, PartOfConcat
  <2> QED BY <1>7, <1>8, <2>2, <2>3
<1>12. c[l + 1] = NL /\ \A i \in 1 .. l : c[i] # NL
  <2>1. l + 1 \in 1 .. l + 1 /\ \A i \in 1 .. l : i \in 1 .. l + 1
    OBVIOUS
  <2> QED BY <1>6, <1>10, <2>1
<1>13. Number(Take(c, l)) = y /\ \A i \in 1 .. Len(Take(c, l)) : Take(c, l)[i] \in Digits
  <2>1. d \in Seq(Digits) /\ Number(d) = y
    BY <1>3, DigitsFacts DEF d
  <2>2. \A i \in 1 .. Len(d) : d[i] \in Digits
    BY <2>1
  <2> QED BY <1>11, <2>1, <2>2
<1>14. Drop(c, l + 1) \o r = Body(w, y)
  <2>1. PICK n \in Nat : n = l + 1
    OBVIOUS
  <2>2. Drop(c \o r, n) = Drop(c, n) \o r
    BY <1>9, <2>1, CutConcat
  <2>3. Drop(h \o b, n) = b
    BY <1>6, <2>1, PartOfConcat
  <2> QED BY <1>4, <1>8, <2>1, <2>2, <2>3
<1>15. Ahead("data", y, w, Drop(c, l + 1) \o r)
  BY <1>14 DEF Ahead
<1> QED BY <1>3, <1>5, <1>9, <1>12, <1>13, <1>15

\* The data of a chunk, divided.
LEMMA BodyCut ==
    ASSUME NEW w \in Bytes, Len(w) <= MaxChunkSize, NEW left \in Nat, left <= Len(w),
           NEW n \in Nat, n <= left, NEW k \in Nat, k = left - n
    PROVE  /\ Body(w, left) = Take(w, n) \o Body(Drop(w, n), k)
           /\ Body(Drop(w, n), k) \in Bytes
           /\ Body(Drop(w, n), 0) = Chunk(Drop(w, n))
           /\ k <= Len(Drop(w, n)) /\ Len(Drop(w, n)) <= MaxChunkSize /\ Len(Drop(w, n)) \in Nat
<1>1. PICK e \in Nat : Len(w) = e
  BY LenNat
<1> DEFINE h == Take(w, n)
           v == Drop(w, n)
<1>2. h \in Bytes /\ v \in Bytes /\ Len(v) = e - n
  <2>1. n <= Len(w)
    BY <1>1
  <2> QED BY <1>1, <2>1, Cut
<1>3. Drop(v, k) = Drop(w, left) /\ Take(w, left) = h \o Take(v, k)
  BY <1>1, CutTwice
<1> HIDE DEF h, v
<1>4. k <= Len(v) /\ Len(v) <= MaxChunkSize /\ Len(v) \in Nat
  BY <1>1, <1>2, MaxChunkFacts
<1> DEFINE x == Take(v, k)
           z == Chunk(Drop(v, k))
<1>5. x \in Bytes /\ z \in Bytes /\ Body(v, k) \in Bytes
  BY <1>2, <1>4, BodyBytes, Cut
<1>6. Body(w, left) = (h \o x) \o z /\ Body(v, k) = x \o z
  BY <1>3 DEF Body
<1> HIDE DEF x, z
<1>7. (h \o x) \o z = h \o (x \o z)
  BY <1>2, <1>5, ConcatAssoc
<1>8. Body(v, 0) = Chunk(v)
  <2>1. Take(v, 0) = <<>>
    BY <1>2, PartWhole DEF Part, Take
  <2>2. Drop(v, 0) = v
    BY <1>2, PartWhole DEF Part, Drop
  <2>3. Chunk(v) \in Bytes
    BY <1>2, <1>4, ChunkBytes
  <2> QED BY <2>1, <2>2, <2>3, ConcatEmptySeq DEF Body, Bytes
<1> QED BY <1>4, <1>5, <1>6, <1>7, <1>8 DEF h, v

\* SplitChunked in the data of a chunk: a token is the next bytes of it.
LEMMA DataAhead ==
    ASSUME NEW c \in Bytes, NEW r \in Bytes, NEW w \in Bytes, Len(w) <= MaxChunkSize, NEW left \in Nat,
           Ahead("data", left, w, c \o r), NEW n \in Nat, n <= Len(c), n <= left
    PROVE  \E v \in Bytes :
              /\ w = Take(c, n) \o v
              /\ Ahead(IF left = n THEN "headerStart" ELSE "data", left - n, v, Drop(c, n) \o r)
<1>1. PICK e \in Nat : Len(w) = e
  BY LenNat
<1>2. 1 <= left /\ left <= e /\ n <= e /\ c \o r = Body(w, left)
  BY <1>1 DEF Ahead
<1>3. PICK k \in Nat : k = left - n
  OBVIOUS
<1>4. PICK h \in Bytes, v \in Bytes : h = Take(w, n) /\ v = Drop(w, n)
  BY <1>1, <1>2, Cut
<1>5. Len(h) = n /\ w = h \o v
  BY <1>1, <1>2, <1>4, Cut
<1>6. PICK b \in Bytes : b = Body(v, k)
  BY <1>1, <1>2, <1>3, <1>4, BodyCut
<1>7. /\ Body(w, left) = h \o b /\ Body(v, 0) = Chunk(v)
      /\ k <= Len(v) /\ Len(v) <= MaxChunkSize /\ Len(v) \in Nat
  <2>1. left <= Len(w)
    BY <1>1, <1>2
  <2>2. /\ Body(w, left) = Take(w, n) \o Body(Drop(w, n), k)
        /\ Body(Drop(w, n), 0) = Chunk(Drop(w, n))
        /\ k <= Len(Drop(w, n)) /\ Len(Drop(w, n)) <= MaxChunkSize /\ Len(Drop(w, n)) \in Nat
    BY <1>3, <2>1, BodyCut
  <2> QED BY <1>4, <1>6, <2>2
<1>8. Take(c, n) = h /\ Drop(c, n) \o r = b
  <2>1. Take(c \o r, n) = Take(c, n) /\ Drop(c \o r, n) = Drop(c, n) \o r
    BY CutConcat
  <2>2. Take(h \o b, n) = h /\ Drop(h \o b, n) = b
    BY <1>5, PartOfConcat
  <2> QED BY <1>2, <1>7, <2>1, <2>2
<1>9. CASE left = n
  <2>1. k = 0
    BY <1>3, <1>9
  <2>2. Ahead("headerStart", left - n, v, Chunk(v))
    BY <1>7, LastChunk
  <2> QED BY <1>5, <1>6, <1>7, <1>8, <1>9, <2>1, <2>2
<1>10. CASE left # n
  <2>1. k \in 1 .. Len(v)
    BY <1>3, <1>7, <1>10
  <2>2. Ahead("data", k, v, b)
    BY <1>6, <2>1 DEF Ahead
  <2> QED BY <1>3, <1>5, <1>8, <1>10, <2>2
<1> QED BY <1>9, <1>10

-----------------------------------------------------------------------------
(* The separator *)

\* The frame f ends with the separator p, which is nowhere else in it.
Ended(f, p) ==
    /\ Len(p) <= Len(f)
    /\ Drop(f, Len(f) - Len(p)) = p
    /\ \A i \in Occurrences(f, p) : i = Len(f) - Len(p) + 1

\* Where the separator is, in the bytes of f from the a-th on that have been
\* read up to the c-th.
LEMMA FoundAt ==
    ASSUME NEW f \in Bytes, NEW p \in Bytes, Ended(f, p),
           NEW l \in Nat, l = Len(f), NEW n \in Nat, n = Len(p), 1 <= n,
           NEW a \in Nat, NEW c \in Nat, a <= c, c <= l
    PROVE  Occurrences(Part(f, a, c), p) = IF c = l /\ a + n <= l THEN {(l - n) - a + 1} ELSE {}
<1> DEFINE b == Part(f, a, c)
<1>1. b \in Bytes /\ Len(b) = c - a
  BY PartFacts
<1>2. ASSUME NEW i \in Nat, 1 <= i, i + n - 1 <= c - a
      PROVE  SubSeq(b, i, i + n - 1) = SubSeq(f, a + i, a + i + n - 1)
  <2>0. i - 1 \in Nat /\ i + n - 1 \in Nat
    BY <1>2
  <2>1. PICK j \in Nat, k \in Nat : j = i - 1 /\ k = i + n - 1
    BY <2>0
  <2>2. j <= k /\ k <= c - a
    BY <1>2, <2>1
  <2>3. Part(Part(f, a, c), j, k) = Part(f, a + j, a + k)
    BY <2>2, PartOfPart
  <2>4. j + 1 = i /\ a + j + 1 = a + i /\ a + k = a + i + n - 1
    BY <2>1
  <2> QED BY <2>1, <2>3, <2>4 DEF Part
<1> HIDE DEF b
<1>3. ASSUME NEW i \in Occurrences(b, p)
      PROVE  c = l /\ a + n <= l /\ i = (l - n) - a + 1
  <2>1. i \in Nat /\ 1 <= i /\ i <= c - a /\ i + n - 1 <= c - a /\ SubSeq(b, i, i + n - 1) = p
    BY <1>1 DEF Occurrences
  <2>2. PICK j \in Nat : j = a + i
    BY <2>1
  <2>3. SubSeq(f, j, j + n - 1) = p
    BY <1>2, <2>1, <2>2
  <2>4. j \in 1 .. l /\ j + n - 1 <= l
    BY <2>1, <2>2
  <2>5. j \in Occurrences(f, p)
    BY <2>3, <2>4 DEF Occurrences
  <2>6. j = l - n + 1
    BY <2>5 DEF Ended
  <2> QED BY <2>1, <2>2, <2>6
<1>4. ASSUME c = l, a + n <= l
      PROVE  (l - n) - a + 1 \in Occurrences(b, p)
  <2>0. (l - n) - a + 1 \in Nat
    BY <1>4
  <2>1. PICK i \in Nat : i = (l - n) - a + 1
    BY <2>0
  <2>2. 1 <= i /\ i + n - 1 = c - a /\ i + n - 1 <= c - a /\ a + i = (l - n) + 1 /\ a + i + n - 1 = l /\ i <= c - a
    BY <1>4, <2>1
  <2>3. SubSeq(f, a + i, a + i + n - 1) = p
    <3>1. SubSeq(f, (l - n) + 1, l) = p
      BY DEF Ended, Drop
    <3> QED BY <2>2, <3>1
  <2>4. SubSeq(b, i, i + n - 1) = p
    BY <1>2, <2>2, <2>3
  <2>5. i \in 1 .. Len(b) /\ i + Len(p) - 1 <= Len(b)
    BY <1>1, <2>2
  <2> QED BY <2>1, <2>4, <2>5 DEF Occurrences
<1>5. CASE c = l /\ a + n <= l
  BY <1>3, <1>4, <1>5 DEF b
<1>6. CASE ~(c = l /\ a + n <= l)
  BY <1>3, <1>6 DEF b
<1> QED BY <1>5, <1>6

-----------------------------------------------------------------------------
(* The invariant *)

\* f is a frame of the message m, in the version v.
Sent(f, m, v) ==
    \/ v = "" /\ m = Hello /\ f = Hello \o msgSeparator
    \/ v \in Versions /\ m \in Payloads /\ f \in Frames(m, v)
    \/ v = "v1.1" /\ m = Garbage /\ \E x \in Malformed : f = x \o msgSeparatorV11

LEMMA SeparatorFacts ==
    /\ Separator \in Bytes /\ Len(Separator) \in Nat
    /\ 1 <= Len(Separator) /\ Len(Separator) <= ReadSize
    /\ (version = "v1.1" => Separator = msgSeparatorV11)
    /\ (version # "v1.1" => Separator = msgSeparator)
<1>1. ReadSize \in Nat /\ 6 <= ReadSize
  BY TransportAssumption, LiteralBytes
<1>2. CASE version = "v1.1"
  <2>1. Separator = msgSeparatorV11
    BY <1>2 DEF Separator, SeparatorOf
  <2> QED BY <1>1, <1>2, <2>1, LiteralBytes
<1>3. CASE version # "v1.1"
  <2>1. Separator = msgSeparator
    BY <1>3 DEF Separator, SeparatorOf
  <2> QED BY <1>1, <1>3, <2>1, LiteralBytes
<1> QED BY <1>2, <1>3

\* A frame ends with its separator.
LEMMA EndedConcat ==
    ASSUME NEW x \in Bytes, NEW p \in Bytes,
           \A i \in Occurrences(x \o p, p) : i = Len(x \o p) - Len(p) + 1
    PROVE  x \o p \in Bytes /\ Ended(x \o p, p) /\ Take(x \o p, Len(x \o p) - Len(p)) = x
<1>1. PICK a \in Nat, b \in Nat : a = Len(x) /\ b = Len(p)
  BY LenNat
<1>2. x \o p \in Bytes /\ Len(x \o p) = a + b
  BY <1>1, ConcatFacts
<1>3. Take(x \o p, a) = x /\ Drop(x \o p, a) = p
  BY <1>1, PartOfConcat
<1>4. Len(x \o p) - Len(p) = a /\ Len(p) <= Len(x \o p)
  BY <1>1, <1>2
<1> QED BY <1>2, <1>3, <1>4 DEF Ended

LEMMA HelloEnds ==
    \A i \in Occurrences(Hello \o msgSeparator, msgSeparator) :
        i = Len(Hello \o msgSeparator) - Len(msgSeparator) + 1
<1> DEFINE f == Hello \o msgSeparator
<1>1. Hello \in Bytes /\ msgSeparator \in Bytes /\ Len(msgSeparator) = 6
  BY LiteralBytes
<1>2. Len(f) = 8 /\ f[1] = "h" /\ f[2] = "i"
  <2>1. Len(Hello) = 2 /\ Hello[1] = "h" /\ Hello[2] = "i"
    BY DEF Hello
  <2>2. Len(f) = Len(Hello) + Len(msgSeparator) /\ \A i \in 1 .. Len(Hello) : f[i] = Hello[i]
    BY <1>1, ConcatFacts
  <2>3. 1 \in 1 .. Len(Hello) /\ 2 \in 1 .. Len(Hello)
    BY <2>1
  <2> QED BY <1>1, <2>1, <2>2, <2>3
<1> HIDE DEF f
<1>3. f \in Bytes /\ Len(msgSeparator) = 6 /\ msgSeparator[1] = "]"
  BY LiteralBytes, ConcatFacts DEF f, msgSeparator
<1>4. ASSUME NEW i \in Occurrences(f, msgSeparator)
      PROVE  i = 3
  <2>1. i \in 1 .. 8 /\ i + 5 <= 8 /\ SubSeq(f, i, i + 5) = msgSeparator
    BY <1>2, <1>3, <1>4 DEF Occurrences
  <2>2. PICK j \in Nat, k \in Nat : j = i - 1 /\ k = i + 5 /\ j <= k /\ k <= Len(f)
    BY <1>2, <2>1
  <2>3. \A n \in 1 .. k - j : Part(f, j, k)[n] = f[j + n]
    BY <1>3, <2>2, PartFacts
  <2>4. 1 \in 1 .. k - j /\ j + 1 = i
    BY <2>1, <2>2
  <2>5. f[i] = "]"
    BY <1>3, <2>1, <2>2, <2>3, <2>4 DEF Part
  <2> QED BY <1>2, <2>1, <2>5
<1> QED BY <1>2, <1>3, <1>4 DEF f

\* A frame is received as its message, or as the chunks of it.
LEMMA SentFacts ==
    ASSUME SeparatorsEnd, NEW f, NEW m, Sent(f, m, version)
    PROVE  /\ f \in Bytes
           /\ Ended(f, Separator)
           /\ version # "v1.1" => Take(f, Len(f) - Len(Separator)) = m
           /\ (version = "v1.1" /\ m # Garbage) =>
                  /\ m \in Payloads
                  /\ Ahead("headerStart", 0, m, Take(f, Len(f) - Len(Separator)))
<1>1. msgSeparator \in Bytes /\ msgSeparatorV11 \in Bytes /\ Hello \in Bytes
  BY LiteralBytes
<1>2. CASE version = "" /\ m = Hello /\ f = Hello \o msgSeparator
  <2>1. Separator = msgSeparator /\ version # "v1.1"
    BY <1>2, SeparatorFacts
  <2>2. /\ Hello \o msgSeparator \in Bytes /\ Ended(Hello \o msgSeparator, msgSeparator)
        /\ Take(Hello \o msgSeparator, Len(Hello \o msgSeparator) - Len(msgSeparator)) = Hello
    BY <1>1, HelloEnds, EndedConcat
  <2> QED BY <1>2, <2>1, <2>2
<1>3. CASE version \in Versions /\ m \in Payloads /\ f \in Frames(m, version)
  <2>1. m \in Bytes /\ Len(m) \in 1 .. MaxChunkSize
    BY <1>3, TransportAssumption DEF Bytes
  <2>2. Len(m) \in Nat /\ Len(m) <= MaxChunkSize
    BY <2>1, RangeFacts, MaxChunkFacts
  <2>3. \A i \in Occurrences(f, Separator) : i = Len(f) - Len(Separator) + 1
    BY <1>3 DEF SeparatorsEnd, Separator
  <2>4. CASE version = "v1.1"
    <3>1. PICK k \in 1 .. Len(m) : f = Chunk(Take(m, k)) \o Chunk(Drop(m, k)) \o msgSeparatorV11
      BY <1>3, <2>4 DEF Frames
    <3>2. k \in Nat /\ 1 <= k /\ k <= Len(m)
      BY <2>2
    <3>3. Chunk(Take(m, k)) \in Bytes /\ Chunk(Drop(m, k)) \in Bytes
      <4>1. Take(m, k) \in Bytes /\ Len(Take(m, k)) = k
        BY <2>1, <3>2, Cut
      <4>2. k <= MaxChunkSize
        BY <2>2, <3>2, MaxChunkFacts
      <4> QED BY <2>1, <2>2, <3>2, <4>1, <4>2, ChunkBytes, BodyBytes
    <3>4. PICK x \in Bytes : x = Chunk(Take(m, k)) \o Chunk(Drop(m, k))
      BY <3>3, ConcatFacts
    <3>5. Separator = msgSeparatorV11 /\ f = x \o msgSeparatorV11
      BY <2>4, <3>1, <3>4, SeparatorFacts
    <3>6. \A i \in Occurrences(x \o msgSeparatorV11, msgSeparatorV11) :
             i = Len(x \o msgSeparatorV11) - Len(msgSeparatorV11) + 1
      BY <2>3, <3>5
    <3>7. /\ x \o msgSeparatorV11 \in Bytes /\ Ended(x \o msgSeparatorV11, msgSeparatorV11)
          /\ Take(x \o msgSeparatorV11, Len(x \o msgSeparatorV11) - Len(msgSeparatorV11)) = x
      BY <1>1, <3>6, EndedConcat
    <3>8. Ahead("headerStart", 0, m, x)
      BY <2>1, <2>2, <3>4, FrameAhead
    <3> QED BY <1>3, <2>4, <3>5, <3>7, <3>8
  <2>5. CASE version # "v1.1"
    <3>1. f = m \o msgSeparator /\ Separator = msgSeparator
      BY <1>3, <2>5, SeparatorFacts DEF Frames
    <3>2. \A i \in Occurrences(m \o msgSeparator, msgSeparator) :
             i = Len(m \o msgSeparator) - Len(msgSeparator) + 1
      BY <2>3, <3>1
    <3>3. /\ m \o msgSeparator \in Bytes /\ Ended(m \o msgSeparator, msgSeparator)
          /\ Take(m \o msgSeparator, Len(m \o msgSeparator) - Len(msgSeparator)) = m
      BY <1>1, <2>1, <3>2, EndedConcat
    <3> QED BY <2>5, <3>1, <3>3
  <2> QED BY <2>4, <2>5
<1>4. CASE version = "v1.1" /\ m = Garbage /\ \E x \in Malformed : f = x \o msgSeparatorV11
  <2>1. PICK x \in Malformed : f = x \o msgSeparatorV11
    BY <1>4
  <2>2. x \in Bytes
    BY TransportAssumption DEF Bytes
  <2>3. \A i \in Occurrences(x \o msgSeparatorV11, msgSeparatorV11) :
           i = Len(x \o msgSeparatorV11) - Len(msgSeparatorV11) + 1
    BY DEF SeparatorsEnd
  <2>4. x \o msgSeparatorV11 \in Bytes /\ Ended(x \o msgSeparatorV11, msgSeparatorV11)
    BY <1>1, <2>2, <2>3, EndedConcat
  <2>5. Separator = msgSeparatorV11
    BY <1>4, SeparatorFacts
  <2> QED BY <1>4, <2>1, <2>4, <2>5
<1> QED BY <1>2, <1>3, <1>4 DEF Sent

LEMMA TakeIsPart ==
    ASSUME NEW s, NEW n
    PROVE  Take(s, n) = Part(s, 0, n)
<1>1. 0 + 1 = 1
  OBVIOUS
<1> QED BY <1>1 DEF Take, Part

LEMMA MinIsOne ==
    ASSUME NEW a \in Nat, NEW b \in Nat
    PROVE  Min({a, b}) = a \/ Min({a, b}) = b
<1>1. {a, b} \in SUBSET Nat /\ {a, b} # {}
  OBVIOUS
<1>2. Min({a, b}) \in {a, b}
  BY <1>1, MinOfSet
<1> QED BY <1>2

-----------------------------------------------------------------------------
(* The scanner on its way through a message *)

\* What Chunked has got of m, and what is still ahead.
Decoding(m) ==
    /\ scan.eof => scan.rest = <<>>
    /\ \E w \in Bytes : m = scan.got \o w /\ Ahead(scan.state, scan.left, w, cur \o scan.rest)

LEMMA DecodingFacts ==
    ASSUME TransportInv, NEW m \in Payloads, Decoding(m)
    PROVE  /\ cur \in Bytes /\ Len(cur) \in Nat /\ scan.rest \in Bytes /\ scan.got \in Bytes
           /\ scan \in Scan /\ scan.left \in Nat
           /\ scan.eof => scan.rest = <<>>
           /\ \E w \in Bytes : /\ Len(w) <= MaxChunkSize /\ m = scan.got \o w
                               /\ Ahead(scan.state, scan.left, w, cur \o scan.rest)
<1>1. cur \in Bytes /\ Len(cur) \in Nat
  BY CurFacts
<1>2. scan.rest \in Bytes /\ scan.got \in Bytes /\ scan \in Scan /\ scan.left \in Nat
  BY DEF TransportInv, ScanOK, Scan
<1>3. PICK w \in Bytes : m = scan.got \o w /\ Ahead(scan.state, scan.left, w, cur \o scan.rest)
  BY DEF Decoding
<1>4. Len(w) <= MaxChunkSize
  <2>1. Len(m) \in Nat /\ Len(m) <= MaxChunkSize
    BY TransportAssumption, RangeFacts, MaxChunkFacts
  <2>2. PICK g \in Bytes : g = scan.got
    BY <1>2
  <2>3. Len(g \o w) = Len(g) + Len(w) /\ Len(g) \in Nat /\ Len(w) \in Nat
    BY ConcatFacts, LenNat
  <2> QED BY <1>3, <2>1, <2>2, <2>3, MaxChunkFacts
<1> QED BY <1>1, <1>2, <1>3, <1>4 DEF Decoding

\* The scanner's input is the same before and after it reads.
LEMMA FillDecodes ==
    ASSUME TransportInv, NEW m \in Payloads, Decoding(m), Fill
    PROVE  Decoding(m)' /\ pc' = "split" /\ Scanning
<1>0. PICK n \in Nat, start \in Nat :
        /\ n <= Len(scan.rest)
        /\ scan' = [scan EXCEPT !.start = start, !.size = scan.size,
                                !.eof = (scan.rest = <<>>),
                                !.buf = @ \o Take(scan.rest, n),
                                !.rest = Drop(@, n)]
        /\ pc' = "split" /\ Scanning
  BY FillReads
<1>1. /\ n <= Len(scan.rest)
      /\ scan'.buf = scan.buf \o Take(scan.rest, n) /\ scan'.rest = Drop(scan.rest, n)
      /\ scan'.advance = scan.advance /\ scan'.got = scan.got
      /\ scan'.state = scan.state /\ scan'.left = scan.left
      /\ scan'.eof => scan.rest = <<>>
      /\ pc' = "split" /\ Scanning
  BY <1>0, DecodingFacts DEF Scan
<1>2. PICK b \in Bytes, r \in Bytes, c \in Bytes, k \in Nat :
         b = scan.buf /\ r = scan.rest /\ c = cur /\ k = scan.advance /\ k <= Len(b)
  BY CurFacts, DecodingFacts DEF TransportInv, ScanOK
<1>3. PICK x \in Bytes, y \in Bytes : x = Take(r, n) /\ y = Drop(r, n) /\ x \o y = r
  <2>1. n <= Len(r)
    BY <1>1, <1>2
  <2>2. Take(r, n) \in Bytes /\ Drop(r, n) \in Bytes /\ Take(r, n) \o Drop(r, n) = r
    BY <2>1, Cut
  <2> QED BY <2>2
<1>4. c = Drop(b, k)
  BY <1>2 DEF cur
<1>5. Drop(b \o x, k) = Drop(b, k) \o x
  BY <1>2, CutConcat
<1>6. cur' = c \o x
  BY <1>1, <1>2, <1>3, <1>4, <1>5 DEF cur
<1>7. (c \o x) \o y = c \o (x \o y)
  BY ConcatAssoc
<1>8. cur' \o scan'.rest = cur \o scan.rest
  BY <1>1, <1>2, <1>3, <1>6, <1>7
<1>9. scan'.eof => scan'.rest = <<>>
  <2>1. ASSUME scan.rest = <<>>
        PROVE  Drop(scan.rest, n) = <<>>
    <3>1. n = 0
      BY <1>1, <2>1
    <3>2. Part(r, 0, 0) = <<>>
      BY PartWhole
    <3>3. Len(r) = 0 /\ 0 + 1 = 1
      BY <1>2, <2>1
    <3> QED BY <1>2, <3>1, <3>2, <3>3 DEF Drop, Part
  <2> QED BY <1>1, <2>1
<1> QED BY <1>1, <1>8, <1>9 DEF Decoding

\* What SplitChunked has gone past leaves the buffer.
LEMMA AdvancedDecodes ==
    ASSUME TransportInv, NEW m \in Payloads, Decoding(m), scan' = Advanced(scan)
    PROVE  Decoding(m)'
<1>1. /\ scan'.buf = cur /\ scan'.advance = 0 /\ scan'.rest = scan.rest /\ scan'.eof = scan.eof
      /\ scan'.got = scan.got /\ scan'.state = scan.state /\ scan'.left = scan.left
  BY DecodingFacts DEF Advanced, Scan, cur
<1>2. cur' = cur
  <2>1. PICK c \in Bytes : c = cur
    BY CurFacts
  <2>2. Drop(c, 0) = c
    BY PartWhole DEF Part, Drop
  <2>3. cur' = Drop(cur, 0)
    BY <1>1 DEF cur
  <2> QED BY <2>1, <2>2, <2>3
<1> QED BY <1>1, <1>2 DEF Decoding

\* SplitChunked goes past n bytes.
LEMMA PastCur ==
    ASSUME TransportInv, NEW n \in Nat, n <= Len(cur),
           scan'.buf = scan.buf, scan'.advance = scan.advance + n
    PROVE  cur' = Drop(cur, n)
<1>1. PICK b \in Bytes, k \in Nat, j \in Nat :
        b = scan.buf /\ k = scan.advance /\ k <= Len(b) /\ j = k + n /\ j <= Len(b)
  <2>1. scan.advance + n \in Nat /\ scan.advance + n <= Len(scan.buf) /\ scan.advance <= Len(scan.buf)
    BY CurFacts DEF TransportInv, ScanOK
  <2> QED BY <2>1, CurFacts
<1>2. Drop(Drop(b, k), j - k) = Drop(b, j) /\ j - k = n
  BY <1>1, CutTwice
<1> QED BY <1>1, <1>2 DEF cur

\* Scan goes on, or returns when all of m has been got.
Goes(m) ==
    \/ ScanEnds /\ scan.got = m
    \/ Decoding(m)' /\ pc' \in {"fill", "split"} /\ Scanning

LEMMA ReturnDecodes ==
    ASSUME TransportInv, NEW m \in Payloads, Decoding(m), SplitReturn
    PROVE  Goes(m)
<1>1. CASE scan.eof /\ ScanEnds
  <2>1. cur = <<>> /\ scan.rest = <<>>
    BY <1>1, DecodingFacts DEF SplitReturn, NeedsMore
  <2>2. PICK w \in Bytes : /\ Len(w) <= MaxChunkSize /\ m = scan.got \o w
                           /\ Ahead(scan.state, scan.left, w, cur \o scan.rest)
    BY DecodingFacts
  <2>3. cur \o scan.rest = <<>>
    BY <2>1
  <2>4. w = <<>>
    BY <2>2, <2>3, AheadFacts
  <2>5. scan.got \in Seq(Byte)
    BY DecodingFacts DEF Bytes
  <2>6. m = scan.got
    BY <2>2, <2>4, <2>5, ConcatEmptySeq
  <2> QED BY <1>1, <2>6 DEF Goes
<1>2. CASE scan' = Advanced(scan) /\ pc' = "fill" /\ Scanning
  BY <1>2, AdvancedDecodes DEF Goes
<1> QED BY <1>1, <1>2 DEF SplitReturn

\* Where SplitChunked does not wait, it sees four bytes or all there is.
LEMMA SplitsFacts ==
    ASSUME TransportInv, NEW m \in Payloads, Decoding(m), NEW state, Splits(state)
    PROVE  /\ cur # <<>> /\ scan.state = state /\ pc = "split"
           /\ 4 <= Len(cur) \/ scan.rest = <<>>
  BY DecodingFacts DEF Splits, NeedsMore

\* At a size, it sees eleven bytes or a line feed.
LEMMA SizeSeen ==
    ASSUME TransportInv, NEW m \in Payloads, Decoding(m), Splits("headerSize")
    PROVE  scan.rest = <<>> \/ 11 <= Len(cur) \/ \E i \in 1 .. Len(cur) : cur[i] = NL
<1>1. CASE scan.eof
  BY <1>1, DecodingFacts
<1>2. CASE ~scan.eof /\ ~BadSize
  <2>1. LineFeeds # {}
    BY <1>2 DEF BadSize, idx
  <2> QED BY <2>1 DEF LineFeeds
<1>3. CASE ~scan.eof /\ BadSize
  <2>1. ~(Len(cur) < 11)
    BY <1>3 DEF Splits, NeedsMore
  <2> QED BY <2>1, CurFacts
<1> QED BY <1>1, <1>2, <1>3

LEMMA StartDecodes ==
    ASSUME TransportInv, NEW m \in Payloads, Decoding(m), HeaderStart
    PROVE  Goes(m)
<1>1. cur # <<>> /\ scan.state = "headerStart" /\ pc = "split" /\ (4 <= Len(cur) \/ scan.rest = <<>>)
  BY SplitsFacts DEF HeaderStart
<1>2. PICK w \in Bytes : /\ Len(w) <= MaxChunkSize /\ m = scan.got \o w
                         /\ Ahead(scan.state, scan.left, w, cur \o scan.rest)
  BY DecodingFacts
<1>3. PICK c \in Bytes, r \in Bytes : c = cur /\ r = scan.rest
  BY DecodingFacts
<1>4. Ahead("headerStart", scan.left, w, c \o r) /\ c # <<>> /\ (4 <= Len(c) \/ r = <<>>)
  BY <1>1, <1>2, <1>3
<1>5. /\ 4 <= Len(c) /\ Take(c, 2) = <<NL, "#">> /\ c[3] \in Digits \ {"0"}
      /\ Ahead("headerSize", scan.left, w, Drop(c, 2) \o r)
  BY <1>2, <1>4, StartAhead
<1>6. "#" \notin Digits
  BY DEF Digits, Digit
<1>7. Goto("headerSize", 2)
  BY <1>3, <1>5, <1>6 DEF HeaderStart
<1>8. /\ scan' = [scan EXCEPT !.state = "headerSize", !.advance = @ + 2] /\ pc' = "split" /\ Scanning
  BY <1>1, <1>7 DEF Goto
<1>9. /\ scan'.buf = scan.buf /\ scan'.advance = scan.advance + 2 /\ scan'.rest = scan.rest
      /\ scan'.eof = scan.eof /\ scan'.got = scan.got /\ scan'.state = "headerSize"
      /\ scan'.left = scan.left
  BY <1>8, DecodingFacts DEF Scan
<1>10. cur' = Drop(c, 2)
  <2>1. 2 \in Nat /\ 2 <= Len(cur)
    BY <1>3, <1>5, CurFacts
  <2> QED BY <1>3, <1>9, <2>1, PastCur
<1>11. Decoding(m)'
  <2>1. scan'.eof => scan'.rest = <<>>
    BY <1>9, DecodingFacts
  <2>2. Ahead(scan'.state, scan'.left, w, cur' \o scan'.rest)
    BY <1>3, <1>5, <1>9, <1>10
  <2> QED BY <1>2, <1>9, <2>1, <2>2 DEF Decoding
<1> QED BY <1>8, <1>11 DEF Goes

LEMMA SizeDecodes ==
    ASSUME TransportInv, NEW m \in Payloads, Decoding(m), HeaderSize
    PROVE  Goes(m)
<1>1. /\ cur # <<>> /\ scan.state = "headerSize" /\ pc = "split"
      /\ scan.rest = <<>> \/ 11 <= Len(cur) \/ \E i \in 1 .. Len(cur) : cur[i] = NL
  BY SplitsFacts, SizeSeen DEF HeaderSize, SizeRead
<1>2. PICK w \in Bytes : /\ Len(w) <= MaxChunkSize /\ m = scan.got \o w
                         /\ Ahead(scan.state, scan.left, w, cur \o scan.rest)
  BY DecodingFacts
<1>3. PICK c \in Bytes, r \in Bytes : c = cur /\ r = scan.rest
  BY DecodingFacts
<1>4. /\ Ahead("headerSize", scan.left, w, c \o r)
      /\ r = <<>> \/ 11 <= Len(c) \/ \E i \in 1 .. Len(c) : c[i] = NL
  BY <1>1, <1>2, <1>3
<1>5. PICK y \in Nat, l \in Nat :
         /\ 1 <= l /\ l <= 10 /\ l + 1 <= Len(c) /\ c[l + 1] = NL
         /\ \A i \in 1 .. l : c[i] # NL
         /\ \A i \in 1 .. Len(Take(c, l)) : Take(c, l)[i] \in Digits
         /\ Number(Take(c, l)) = y /\ y <= MaxChunkSize
         /\ Ahead("data", y, w, Drop(c, l + 1) \o r)
  BY <1>2, <1>4, SizeAhead
<1>6. idx = l
  <2>1. Len(c) \in Nat
    BY LenNat
  <2>2. l + 1 \in LineFeeds /\ LineFeeds \in SUBSET Nat
    BY <1>3, <1>5, <2>1 DEF LineFeeds
  <2>3. \A i \in LineFeeds : l + 1 <= i
    <3>1. ASSUME NEW i \in LineFeeds, ~(l + 1 <= i)
          PROVE  FALSE
      <4>1. i \in 1 .. Len(c) /\ c[i] = NL
        BY <1>3 DEF LineFeeds
      <4>2. i \in 1 .. l
        BY <2>1, <3>1, <4>1
      <4> QED BY <1>5, <4>1, <4>2
    <3> QED BY <3>1
  <2>4. LineFeeds # {}
    BY <2>2
  <2>5. Min(LineFeeds) \in LineFeeds /\ \A i \in LineFeeds : Min(LineFeeds) <= i
    BY <2>2, <2>4, MinOfSet
  <2>6. Min(LineFeeds) = l + 1
    <3>1. Min(LineFeeds) \in Nat /\ Min(LineFeeds) <= l + 1 /\ l + 1 <= Min(LineFeeds)
      BY <2>2, <2>3, <2>5
    <3> QED BY <3>1
  <2> QED BY <2>4, <2>6 DEF idx
<1>7. ~BadSize
  BY <1>5, <1>6 DEF BadSize
<1>8. Number(Take(cur, idx)) = y /\ y \in 0 .. MaxChunkSize
  <2>1. y \in 0 .. MaxChunkSize
    BY <1>5, MaxChunkFacts
  <2> QED BY <1>3, <1>5, <1>6, <2>1
<1>9. \A i \in 1 .. Len(Take(cur, idx)) : Take(cur, idx)[i] \in Digits
  BY <1>3, <1>5, <1>6
<1>10. /\ scan' = [scan EXCEPT !.state = "data", !.advance = @ + idx + 1, !.left = Number(Take(cur, idx))]
       /\ pc' = "split" /\ Scanning
  BY <1>1, <1>7, <1>8, <1>9 DEF HeaderSize, SizeRead
<1>11. /\ scan'.buf = scan.buf /\ scan'.advance = scan.advance + l + 1 /\ scan'.rest = scan.rest
       /\ scan'.eof = scan.eof /\ scan'.got = scan.got /\ scan'.state = "data"
       /\ scan'.left = y
  BY <1>6, <1>8, <1>10, DecodingFacts DEF Scan
<1>12. cur' = Drop(c, l + 1)
  <2>1. l + 1 \in Nat /\ l + 1 <= Len(cur) /\ scan.advance \in Nat
    BY <1>3, <1>5, CurFacts
  <2>2. scan'.advance = scan.advance + (l + 1)
    BY <1>11, <2>1
  <2> QED BY <1>3, <1>11, <2>1, <2>2, PastCur
<1>13. Decoding(m)'
  <2>1. scan'.eof => scan'.rest = <<>>
    BY <1>11, DecodingFacts
  <2>2. Ahead(scan'.state, scan'.left, w, cur' \o scan'.rest)
    BY <1>3, <1>5, <1>11, <1>12
  <2> QED BY <1>2, <1>11, <2>1, <2>2 DEF Decoding
<1> QED BY <1>10, <1>13 DEF Goes

LEMMA DataDecodes ==
    ASSUME TransportInv, NEW m \in Payloads, Decoding(m), Data
    PROVE  Goes(m)
<1>1. cur # <<>> /\ scan.state = "data" /\ pc = "split"
  BY SplitsFacts DEF Data
<1>2. PICK w \in Bytes : /\ Len(w) <= MaxChunkSize /\ m = scan.got \o w
                         /\ Ahead(scan.state, scan.left, w, cur \o scan.rest)
  BY DecodingFacts
<1>3. PICK c \in Bytes, r \in Bytes, g \in Bytes, left \in Nat :
         c = cur /\ r = scan.rest /\ g = scan.got /\ left = scan.left
  BY DecodingFacts
<1> DEFINE n == Min({Len(cur), scan.left})
           sc == [scan EXCEPT !.advance = @ + n,
                              !.got = @ \o Take(cur, n),
                              !.left = @ - n,
                              !.chunks = IF scan.left = n THEN 1 ELSE @,
                              !.state = IF scan.left = n THEN "headerStart" ELSE @]
<1>4. /\ scan' = Advanced(sc) /\ Scanning
      /\ pc' = IF scan'.buf = <<>> /\ ~scan.eof THEN "fill" ELSE "split"
  BY DEF Data
<1>5. n \in Nat /\ n <= Len(c) /\ n <= left
  BY <1>3, CurFacts, DecodingFacts, MinOfTwo
<1> HIDE DEF n
<1>6. PICK v \in Bytes :
         /\ w = Take(c, n) \o v
         /\ Ahead(IF left = n THEN "headerStart" ELSE "data", left - n, v, Drop(c, n) \o r)
  <2>1. Ahead("data", left, w, c \o r)
    BY <1>1, <1>2, <1>3
  <2> QED BY <1>2, <1>5, <2>1, DataAhead
<1>7. /\ sc.buf = scan.buf /\ sc.advance = scan.advance + n /\ sc.rest = scan.rest
      /\ sc.eof = scan.eof /\ sc.got = scan.got \o Take(cur, n) /\ sc.left = scan.left - n
      /\ sc.state = IF scan.left = n THEN "headerStart" ELSE scan.state
  BY DecodingFacts DEF Scan
<1>8. /\ scan'.buf = Drop(sc.buf, sc.advance) /\ scan'.advance = 0 /\ scan'.rest = sc.rest
      /\ scan'.eof = sc.eof /\ scan'.got = sc.got /\ scan'.left = sc.left /\ scan'.state = sc.state
  BY <1>4, DecodingFacts DEF Advanced, Scan
<1> HIDE DEF sc
<1>9. cur' = Drop(c, n)
  <2>1. PICK b \in Bytes, k \in Nat, j \in Nat :
          b = scan.buf /\ k = scan.advance /\ k <= Len(b) /\ j = k + n /\ j <= Len(b)
    <3>1. scan.advance + n \in Nat /\ scan.advance + n <= Len(scan.buf) /\ scan.advance <= Len(scan.buf)
      BY <1>3, <1>5, CurFacts DEF TransportInv, ScanOK
    <3> QED BY <3>1, CurFacts
  <2>2. Drop(Drop(b, k), j - k) = Drop(b, j) /\ j - k = n
    BY <1>5, <2>1, CutTwice
  <2>3. c = Drop(b, k)
    BY <1>3, <2>1 DEF cur
  <2>4. scan'.buf = Drop(c, n)
    BY <1>7, <1>8, <2>1, <2>2, <2>3
  <2>5. PICK d \in Bytes : d = Drop(c, n)
    BY <1>5, Cut
  <2>6. Drop(d, 0) = d
    BY PartWhole DEF Part, Drop
  <2>7. cur' = Drop(scan'.buf, 0)
    BY <1>8 DEF cur
  <2> QED BY <2>4, <2>5, <2>6, <2>7
<1>10. m = scan'.got \o v
  <2>1. PICK h \in Bytes : h = Take(c, n)
    BY <1>5, Cut
  <2>2. (g \o h) \o v = g \o (h \o v)
    BY ConcatAssoc
  <2> QED BY <1>2, <1>3, <1>6, <1>7, <1>8, <2>1, <2>2
<1>11. Ahead(scan'.state, scan'.left, v, cur' \o scan'.rest)
  <2>1. scan'.state = IF left = n THEN "headerStart" ELSE "data"
    BY <1>1, <1>3, <1>7, <1>8
  <2>2. scan'.left = left - n /\ scan'.rest = r
    BY <1>3, <1>7, <1>8
  <2> QED BY <1>6, <1>9, <2>1, <2>2
<1>12. Decoding(m)'
  <2>1. scan'.eof => scan'.rest = <<>>
    BY <1>7, <1>8, DecodingFacts
  <2> QED BY <1>10, <1>11, <2>1 DEF Decoding
<1> QED BY <1>4, <1>12 DEF Goes

LEMMA EndDecodes ==
    ASSUME TransportInv, NEW m \in Payloads, Decoding(m), EndOfChunks
    PROVE  Goes(m)
<1>1. scan.state = "endOfChunks"
  BY DEF EndOfChunks, Splits
<1>2. PICK w \in Bytes : Ahead(scan.state, scan.left, w, cur \o scan.rest)
  BY DEF Decoding
<1> QED BY <1>1, <1>2 DEF Ahead

-----------------------------------------------------------------------------
(* The messages on their way *)

Messages == Payloads \cup {Hello, Garbage}

\* All that the messages of pending are sent as: the i-th of them is what
\* comes after the first e[i-1] bytes of s, up to the e[i]-th.
Framed(s, e) ==
    /\ s \in Bytes
    /\ pending \in Seq(Messages)
    /\ e \in [0 .. Len(pending) -> Nat]
    /\ e[Len(pending)] = Len(s)
    /\ \A i \in 0 .. Len(pending) : e[i] <= Len(s)
    /\ \A i \in 1 .. Len(pending) :
          e[i - 1] <= e[i] /\ Sent(Part(s, e[i - 1], e[i]), pending[i], version)

\* Where the bytes of s after the first p are: in out, in the buffer of
\* WaitForFunc, in that of the channel, and on their way.
Flowing(s, p) ==
    \E a \in Nat, b \in Nat, c \in Nat, d \in Nat :
        /\ p <= a /\ a <= b /\ b <= c /\ c <= d /\ d <= Len(s)
        /\ out = Part(s, p, a) /\ window = Part(s, a, b)
        /\ arrived = Part(s, b, c) /\ transit = Part(s, c, d)
        /\ eof \/ d = Len(s)

Versioned ==
    /\ server \in Versions
    /\ version \in {"", server}
    /\ version = "" => Len(pending) = 1

\* What was sent, and what follows it.
LEMMA PartOfLonger ==
    ASSUME NEW s \in Bytes, NEW f \in Bytes, NEW l \in Nat, l = Len(s),
           NEW z \in Nat, z = Len(s \o f)
    PROVE  /\ s \o f \in Bytes /\ l <= z
           /\ Part(s \o f, l, z) = f
           /\ \A x \in Nat, y \in Nat : x <= y /\ y <= l => Part(s \o f, x, y) = Part(s, x, y)
<1>1. PICK w \in Bytes : w = s \o f
  BY ConcatFacts
<1>2. PICK k \in Nat : k = Len(f)
  BY LenNat
<1>3. z = l + k /\ l <= z /\ Len(w) = z
  BY <1>1, <1>2, ConcatFacts
<1>4. Part(w, l, z) = f
  <2>1. Drop(s \o f, l) = f
    BY PartOfConcat
  <2> QED BY <1>1, <2>1 DEF Drop, Part
<1>5. Part(w, 0, l) = s
  <2>1. Take(s \o f, l) = s
    BY PartOfConcat
  <2> QED BY <1>1, <2>1, TakeIsPart
<1>6. ASSUME NEW x \in Nat, NEW y \in Nat, x <= y, y <= l
      PROVE  Part(w, x, y) = Part(s, x, y)
  <2>1. 0 <= l /\ l <= Len(w) /\ y <= l - 0 /\ 0 + x = x /\ 0 + y = y /\ 0 \in Nat
    BY <1>3, <1>6
  <2>2. Part(Part(w, 0, l), x, y) = Part(w, 0 + x, 0 + y)
    BY <1>6, <2>1, PartOfPart
  <2> QED BY <1>5, <2>1, <2>2
<1> QED BY <1>1, <1>3, <1>4, <1>6

LEMMA SentBytes ==
    ASSUME SeparatorsEnd, NEW f, NEW m, Sent(f, m, version)
    PROVE  f \in Bytes /\ Len(f) \in Nat
<1>1. f \in Bytes
  BY SentFacts
<1> QED BY <1>1, LenNat

\* The server sends one more message.
LEMMA SendFlows ==
    ASSUME SeparatorsEnd, Versioned, NEW s, NEW e, Framed(s, e), ServerSend
    PROVE  \E t, g : /\ Framed(t, g)'
                     /\ \A i \in 0 .. Len(pending) : g[i] = e[i]
                     /\ \A p \in Nat : Flowing(s, p) => Flowing(t, p)'
<1>1. /\ ~eof /\ version # ""
      /\ UNCHANGED <<server, version, arrived, window, out, eof, pc, scan, intact, clean>>
  BY DEF ServerSend, waitVars
<1>2. version = server /\ server \in Versions
  BY <1>1 DEF Versioned
<1>3. PICK f, m : /\ Sent(f, m, version) /\ m \in Messages
                  /\ transit' = transit \o f /\ pending' = Append(pending, m)
  <2>1. CASE \E m \in Payloads : \E f \in Frames(m, server) :
               transit' = transit \o f /\ pending' = Append(pending, m)
    BY <1>2, <2>1 DEF Sent, Messages
  <2>2. CASE /\ server = "v1.1"
             /\ \E f \in Malformed : transit' = transit \o (f \o msgSeparatorV11)
             /\ pending' = Append(pending, Garbage)
    <3>1. PICK x \in Malformed : transit' = transit \o (x \o msgSeparatorV11)
      BY <2>2
    <3>2. PICK f : f = x \o msgSeparatorV11
      OBVIOUS
    <3>3. Sent(f, Garbage, version) /\ Garbage \in Messages
      BY <1>2, <2>2, <3>2 DEF Sent, Messages
    <3> QED BY <2>2, <3>1, <3>2, <3>3
  <2> QED BY <2>1, <2>2 DEF ServerSend
<1>4. f \in Bytes /\ s \in Bytes /\ pending \in Seq(Messages)
  BY <1>3, SentBytes DEF Framed
<1>5. PICK n \in Nat : n = Len(pending)
  BY <1>4
<1>6. PICK l \in Nat : l = Len(s)
  BY <1>4, LenNat
<1>7. PICK t \in Bytes : t = s \o f
  BY <1>4, ConcatFacts
<1>8. PICK z \in Nat : z = Len(t)
  BY LenNat
<1>9. /\ l <= z /\ Part(t, l, z) = f
      /\ \A x \in Nat, y \in Nat : x <= y /\ y <= l => Part(t, x, y) = Part(s, x, y)
  BY <1>4, <1>6, <1>7, <1>8, PartOfLonger
<1>10. /\ e \in [0 .. n -> Nat] /\ e[n] = l
       /\ \A i \in 0 .. n : e[i] <= l
       /\ \A i \in 1 .. n : e[i - 1] <= e[i] /\ Sent(Part(s, e[i - 1], e[i]), pending[i], version)
  BY <1>5, <1>6 DEF Framed
<1> DEFINE g == [i \in 0 .. n + 1 |-> IF i = n + 1 THEN z ELSE e[i]]
<1>11. /\ g \in [0 .. n + 1 -> Nat] /\ g[n + 1] = z
       /\ \A i \in 0 .. n : g[i] = e[i] /\ e[i] \in Nat
  BY <1>10
<1> HIDE DEF g
<1>12. /\ pending' \in Seq(Messages) /\ Len(pending') = n + 1 /\ pending'[n + 1] = m
       /\ \A i \in 1 .. n : pending'[i] = pending[i]
  BY <1>3, <1>4, <1>5
<1>13. version' = version
  BY <1>1
<1>14. ASSUME NEW i \in 0 .. n + 1
       PROVE  g[i] <= z
  <2>1. CASE i = n + 1
    BY <1>11, <2>1
  <2>2. CASE i # n + 1
    <3>1. i \in 0 .. n
      BY <2>2
    <3>2. g[i] = e[i] /\ e[i] \in Nat /\ e[i] <= l
      BY <1>10, <1>11, <3>1
    <3> QED BY <1>9, <3>2
  <2> QED BY <2>1, <2>2
<1>15. ASSUME NEW i \in 1 .. n + 1
       PROVE  g[i - 1] <= g[i] /\ Sent(Part(t, g[i - 1], g[i]), pending'[i], version)
  <2>1. CASE i = n + 1
    <3>1. i - 1 = n /\ n \in 0 .. n
      BY <2>1
    <3>2. g[i - 1] = l /\ g[i] = z /\ pending'[i] = m
      BY <1>10, <1>11, <1>12, <2>1, <3>1
    <3> QED BY <1>3, <1>9, <3>2
  <2>2. CASE i # n + 1
    <3>1. i \in 1 .. n /\ i \in 0 .. n /\ i - 1 \in 0 .. n
      BY <2>2
    <3>2. g[i - 1] = e[i - 1] /\ g[i] = e[i] /\ e[i - 1] \in Nat /\ e[i] \in Nat /\ e[i] <= l
      BY <1>10, <1>11, <3>1
    <3>3. e[i - 1] <= e[i] /\ Sent(Part(s, e[i - 1], e[i]), pending[i], version)
      BY <1>10, <3>1
    <3>4. Part(t, e[i - 1], e[i]) = Part(s, e[i - 1], e[i])
      BY <1>9, <3>2, <3>3
    <3> QED BY <1>12, <3>1, <3>2, <3>3, <3>4
  <2> QED BY <2>1, <2>2
<1>16. Framed(t, g)'
  BY <1>8, <1>11, <1>12, <1>13, <1>14, <1>15 DEF Framed
<1>17. ASSUME NEW p \in Nat, Flowing(s, p)
       PROVE  Flowing(t, p)'
  <2>1. PICK a \in Nat, b \in Nat, c \in Nat :
          /\ p <= a /\ a <= b /\ b <= c /\ c <= l
          /\ out = Part(s, p, a) /\ window = Part(s, a, b)
          /\ arrived = Part(s, b, c) /\ transit = Part(s, c, l)
    BY <1>1, <1>6, <1>17 DEF Flowing
  <2>2. a <= l /\ b <= l /\ c <= z
    BY <1>9, <2>1
  <2>3. /\ Part(t, p, a) = Part(s, p, a) /\ Part(t, a, b) = Part(s, a, b)
        /\ Part(t, b, c) = Part(s, b, c) /\ Part(t, c, l) = Part(s, c, l)
    BY <1>9, <2>1, <2>2
  <2>4. Part(t, c, l) \o Part(t, l, z) = Part(t, c, z)
    <3>1. c <= l /\ l <= z /\ z <= Len(t)
      BY <1>8, <1>9, <2>1
    <3> QED BY <3>1, PartJoin
  <2>5. /\ out' = Part(t, p, a) /\ window' = Part(t, a, b) /\ arrived' = Part(t, b, c)
        /\ transit' = Part(t, c, z)
    BY <1>1, <1>3, <1>9, <2>1, <2>3, <2>4
  <2> QED BY <1>8, <2>1, <2>2, <2>5 DEF Flowing
<1> QED BY <1>5, <1>11, <1>16, <1>17

\* Some bytes arrive.
LEMMA ArriveFlows ==
    ASSUME NEW s \in Bytes, NEW p \in Nat, Flowing(s, p), Arrive
    PROVE  Flowing(s, p)'
<1>1. PICK n \in 1 .. Len(transit) : arrived' = arrived \o Take(transit, n) /\ transit' = Drop(transit, n)
  BY DEF Arrive
<1>2. UNCHANGED <<eof, window, out>>
  BY DEF Arrive
<1>3. PICK l \in Nat : l = Len(s)
  BY LenNat
<1>4. PICK a \in Nat, b \in Nat, c \in Nat, d \in Nat :
        /\ p <= a /\ a <= b /\ b <= c /\ c <= d /\ d <= l
        /\ out = Part(s, p, a) /\ window = Part(s, a, b)
        /\ arrived = Part(s, b, c) /\ transit = Part(s, c, d)
        /\ eof \/ d = l
  BY <1>3 DEF Flowing
<1>5. PICK k \in Nat : k = d - c
  BY <1>4
<1>6. Len(transit) = k
  <2>1. Len(Part(s, c, d)) = d - c
    BY <1>3, <1>4, PartFacts
  <2> QED BY <1>4, <1>5, <2>1
<1>7. n \in Nat /\ n <= k
  BY <1>6
<1>8. PICK h \in Nat : h = c + n
  BY <1>7
<1>9. b <= c /\ c <= h /\ h <= d /\ h <= Len(s) /\ c + n = h /\ c + k = d /\ c + 0 = c /\ k <= d - c /\ n <= d - c /\ b <= h
  BY <1>3, <1>4, <1>5, <1>7, <1>8
<1>10. Take(transit, n) = Part(s, c, h)
  <2>1. Part(Part(s, c, d), 0, n) = Part(s, c + 0, c + n)
    BY <1>3, <1>4, <1>7, <1>9, PartOfPart
  <2> QED BY <1>4, <1>9, <2>1, TakeIsPart
<1>11. Drop(transit, n) = Part(s, h, d)
  <2>1. Part(Part(s, c, d), n, k) = Part(s, c + n, c + k)
    BY <1>3, <1>4, <1>7, <1>9, PartOfPart
  <2>2. Drop(transit, n) = Part(transit, n, k)
    BY <1>6 DEF Drop, Part
  <2> QED BY <1>4, <1>9, <2>1, <2>2
<1>12. Part(s, b, c) \o Part(s, c, h) = Part(s, b, h)
  BY <1>9, PartJoin
<1>13. arrived' = Part(s, b, h) /\ transit' = Part(s, h, d)
  BY <1>1, <1>4, <1>10, <1>11, <1>12
<1> QED BY <1>2, <1>3, <1>4, <1>9, <1>13 DEF Flowing

\* The connection breaks.
LEMMA BreakFlows ==
    ASSUME NEW s \in Bytes, NEW p \in Nat, Flowing(s, p), Break
    PROVE  Flowing(s, p)'
<1>1. eof' /\ transit' = <<>> /\ UNCHANGED <<arrived, window, out>>
  BY DEF Break, waitVars
<1>2. PICK l \in Nat : l = Len(s)
  BY LenNat
<1>3. PICK a \in Nat, b \in Nat, c \in Nat :
        /\ p <= a /\ a <= b /\ b <= c /\ c <= l
        /\ out = Part(s, p, a) /\ window = Part(s, a, b) /\ arrived = Part(s, b, c)
  BY <1>2 DEF Flowing
<1>4. transit' = Part(s, c, c)
  BY <1>1, PartWhole
<1> QED BY <1>1, <1>2, <1>3, <1>4 DEF Flowing

LEMMA SameFlow ==
    ASSUME NEW s, NEW p, Flowing(s, p), UNCHANGED <<out, window, arrived, transit, eof>>
    PROVE  Flowing(s, p)'
  BY DEF Flowing

LEMMA SameFrames ==
    ASSUME NEW s, NEW e, Framed(s, e), UNCHANGED <<version, pending>>
    PROVE  Framed(s, e)'
  BY DEF Framed

\* The first of the frames.
LEMMA FirstFrame ==
    ASSUME NEW s, NEW e, Framed(s, e), pending # <<>>
    PROVE  /\ e[0] \in Nat /\ e[1] \in Nat /\ e[0] <= e[1] /\ e[1] <= Len(s)
           /\ Sent(Part(s, e[0], e[1]), Head(pending), version)
<1>1. PICK n \in Nat : n = Len(pending)
  BY DEF Framed
<1>2. 1 <= n /\ Head(pending) = pending[1]
  BY <1>1 DEF Framed
<1>3. 0 \in 0 .. n /\ 1 \in 0 .. n /\ 1 \in 1 .. n /\ 1 - 1 = 0
  BY <1>2
<1> QED BY <1>1, <1>2, <1>3 DEF Framed

\* Receive returns the message that was due.
LEMMA Delivered ==
    ASSUME Versioned, intact, NEW s, NEW e, Framed(s, e), pending # <<>>,
           NEW g, Received(g), g = Head(pending) \/ Head(pending) = Garbage, UNCHANGED server
    PROVE  Versioned' /\ intact' /\ \E h : Framed(s, h)' /\ h[0] = e[1]
<1>1. /\ intact' = (intact /\ Head(pending) \in {g, Garbage}) /\ pending' = Tail(pending)
      /\ version' = IF version = "" THEN server ELSE version
  BY DEF Received
<1>2. PICK n \in Nat : n + 1 = Len(pending)
  <2>1. Len(pending) \in Nat /\ Len(pending) # 0
    BY DEF Framed
  <2>2. Len(pending) - 1 \in Nat /\ (Len(pending) - 1) + 1 = Len(pending)
    BY <2>1
  <2> QED BY <2>2
<1>3. server # "" /\ server \in Versions
  BY TransportAssumption DEF Versioned
<1>4. version' = server
  BY <1>1 DEF Versioned
<1>5. Versioned'
  BY <1>3, <1>4 DEF Versioned
<1>6. intact'
  BY <1>1
<1>7. /\ pending' \in Seq(Messages) /\ Len(pending') = n
      /\ \A i \in 1 .. n : pending'[i] = pending[i + 1]
  <2>1. pending \in Seq(Messages)
    BY DEF Framed
  <2>2. /\ Tail(pending) \in Seq(Messages) /\ Len(Tail(pending)) = Len(pending) - 1
        /\ \A i \in 1 .. Len(Tail(pending)) : Tail(pending)[i] = pending[i + 1]
    BY <2>1, HeadTailProperties
  <2>3. Len(Tail(pending)) = n
    BY <1>2, <2>2
  <2> QED BY <1>1, <2>2, <2>3
<1>8. /\ s \in Bytes /\ e \in [0 .. n + 1 -> Nat] /\ e[n + 1] = Len(s)
      /\ \A i \in 0 .. n + 1 : e[i] <= Len(s)
      /\ \A i \in 1 .. n + 1 : e[i - 1] <= e[i] /\ Sent(Part(s, e[i - 1], e[i]), pending[i], version)
  BY <1>2 DEF Framed
<1> DEFINE h == [i \in 0 .. n |-> e[i + 1]]
<1>9. \A i \in 0 .. n : i + 1 \in 0 .. n + 1
  OBVIOUS
<1>10. h \in [0 .. n -> Nat] /\ h[n] = Len(s) /\ h[0] = e[1] /\ \A i \in 0 .. n : h[i] = e[i + 1]
  BY <1>8, <1>9
<1>11. \A i \in 0 .. n : h[i] <= Len(s)
  BY <1>8, <1>9, <1>10
<1> HIDE DEF h
<1>12. ASSUME NEW i \in 1 .. n
       PROVE  h[i - 1] <= h[i] /\ Sent(Part(s, h[i - 1], h[i]), pending'[i], version')
  <2>1. version' = version
    <3>1. ~(version = "")
      <4>1. n # 0
        OBVIOUS
      <4>2. Len(pending) # 1
        BY <1>2, <4>1
      <4> QED BY <4>2 DEF Versioned
    <3> QED BY <1>1, <3>1
  <2>2. i - 1 \in 0 .. n /\ i \in 0 .. n /\ i + 1 \in 1 .. n + 1 /\ (i - 1) + 1 = i /\ (i + 1) - 1 = i
    OBVIOUS
  <2>3. h[i - 1] = e[i] /\ h[i] = e[i + 1] /\ pending'[i] = pending[i + 1]
    BY <1>7, <1>10, <2>2
  <2>4. e[i] <= e[i + 1] /\ Sent(Part(s, e[i], e[i + 1]), pending[i + 1], version)
    BY <1>8, <2>2
  <2> QED BY <2>1, <2>3, <2>4
<1>13. Framed(s, h)'
  BY <1>7, <1>8, <1>10, <1>11, <1>12 DEF Framed
<1> QED BY <1>5, <1>6, <1>10, <1>13

-----------------------------------------------------------------------------
(* A turn of WaitForFunc *)

\* The separator in a part of the first frame.
LEMMA FoundIn ==
    ASSUME NEW s \in Bytes, NEW q \in Bytes, NEW p \in Nat, NEW l \in Nat, p <= l, l <= Len(s),
           Ended(Part(s, p, l), q), NEW n \in Nat, n = Len(q), 1 <= n,
           NEW a \in Nat, NEW c \in Nat, p <= a, a <= c, c <= l
    PROVE  /\ p + n <= l
           /\ Occurrences(Part(s, a, c), q) = IF c = l /\ a + n <= l THEN {(l - n) - a + 1} ELSE {}
<1>1. PICK f \in Bytes : f = Part(s, p, l)
  BY PartFacts
<1>2. PICK k \in Nat : k = Len(f)
  BY LenNat
<1>3. k = l - p
  BY <1>1, <1>2, PartFacts
<1>4. PICK i \in Nat, j \in Nat : i = a - p /\ j = c - p
  <2>1. a - p \in Nat /\ c - p \in Nat
    OBVIOUS
  <2> QED BY <2>1
<1>5. i <= j /\ j <= k /\ j <= l - p /\ p + i = a /\ p + j = c
  BY <1>3, <1>4
<1>6. Part(f, i, j) = Part(s, a, c)
  <2>1. Part(Part(s, p, l), i, j) = Part(s, p + i, p + j)
    BY <1>5, PartOfPart
  <2> QED BY <1>1, <1>5, <2>1
<1>7. Occurrences(Part(f, i, j), q) = IF j = k /\ i + n <= k THEN {(k - n) - i + 1} ELSE {}
  BY <1>1, <1>2, <1>5, FoundAt
<1>8. (j = k <=> c = l) /\ (i + n <= k <=> a + n <= l) /\ (k - n) - i + 1 = (l - n) - a + 1
  BY <1>3, <1>4
<1>9. p + n <= l
  <2>1. n <= k
    BY <1>1, <1>2 DEF Ended
  <2> QED BY <1>3, <2>1
<1> QED BY <1>6, <1>7, <1>8, <1>9

\* The separator at the end of the first frame is also in a longer part.
LEMMA FoundBefore ==
    ASSUME NEW s \in Bytes, NEW q \in Bytes, NEW p \in Nat, NEW l \in Nat, p <= l,
           Ended(Part(s, p, l), q), NEW n \in Nat, n = Len(q), 1 <= n,
           NEW c \in Nat, l <= c, c <= Len(s)
    PROVE  (l - n) - p + 1 \in Occurrences(Part(s, p, c), q)
<1>1. l <= Len(s)
  BY LenNat
<1>2. p + n <= l /\ Occurrences(Part(s, p, l), q) = {(l - n) - p + 1}
  <2>1. /\ p + n <= l
        /\ Occurrences(Part(s, p, l), q) = IF l = l /\ p + n <= l THEN {(l - n) - p + 1} ELSE {}
    BY <1>1, FoundIn
  <2> QED BY <2>1
<1>3. (l - n) - p + 1 \in Nat /\ 1 <= (l - n) - p + 1
  BY <1>2
<1>4. PICK i \in Nat : i = (l - n) - p + 1
  BY <1>3
<1>5. i \in Occurrences(Part(s, p, l), q)
  BY <1>2, <1>4
<1>6. PICK x \in Nat, y \in Nat : x = i - 1 /\ y = i + n - 1
  <2>1. i - 1 \in Nat /\ i + n - 1 \in Nat
    BY <1>3, <1>4
  <2> QED BY <2>1
<1>7. x <= y /\ y <= l - p /\ y <= c - p /\ x + 1 = i /\ p <= c
  BY <1>2, <1>4, <1>6
<1>8. Part(Part(s, p, l), x, y) = Part(s, p + x, p + y)
  BY <1>1, <1>7, PartOfPart
<1>9. Part(Part(s, p, c), x, y) = Part(s, p + x, p + y)
  BY <1>7, PartOfPart
<1>10. SubSeq(Part(s, p, l), i, i + n - 1) = q
  BY <1>5 DEF Occurrences
<1>11. SubSeq(Part(s, p, c), i, i + n - 1) = q
  <2>1. Part(Part(s, p, l), x, y) = SubSeq(Part(s, p, l), i, i + n - 1)
    BY <1>6, <1>7 DEF Part
  <2>2. Part(Part(s, p, c), x, y) = SubSeq(Part(s, p, c), i, i + n - 1)
    BY <1>6, <1>7 DEF Part
  <2> QED BY <1>8, <1>9, <1>10, <2>1, <2>2
<1>12. Len(Part(s, p, c)) = c - p
  BY <1>7, PartFacts
<1>13. i \in 1 .. Len(Part(s, p, c)) /\ i + n - 1 <= Len(Part(s, p, c))
  BY <1>3, <1>4, <1>6, <1>7, <1>12
<1> QED BY <1>4, <1>11, <1>13 DEF Occurrences

\* WaitForFunc reads on, or it has read the first frame f and no byte more, and
\* returns what is before the separator of n bytes.
ReadsOn(s, e) ==
    Flowing(s, e[0])' /\ UNCHANGED <<server, version, eof, pc, scan, pending, intact>>

ReadsAll(s, e, f, n) ==
    /\ Flowing(s, e[1])' /\ UNCHANGED <<server, eof>>
    /\ IF version = "v1.1"
       THEN /\ pc' = "fill" /\ scan' = [NoScan EXCEPT !.rest = Take(f, Len(f) - n)]
            /\ UNCHANGED <<version, pending, intact>>
       ELSE Received(Take(f, Len(f) - n)) /\ UNCHANGED <<pc, scan>>

\* So it is if each separator is found at the end of a read.
LEMMA ReadFlows ==
    ASSUME SeparatorsEnd, NEW s, NEW e, Framed(s, e), pending # <<>>, Flowing(s, e[0]),
           NEW f, f = Part(s, e[0], e[1]), NEW n, n = Len(Separator), Read, clean'
    PROVE  ReadsOn(s, e) \/ ReadsAll(s, e, f, n)
<1>1. PICK p \in Nat, l \in Nat : p = e[0] /\ l = e[1]
  BY FirstFrame
<1>2. /\ p <= l /\ l <= Len(s) /\ Sent(Part(s, p, l), Head(pending), version)
  BY <1>1, FirstFrame
<1>3. s \in Bytes /\ Separator \in Bytes /\ Ended(Part(s, p, l), Separator) /\ f = Part(s, p, l)
  BY <1>1, <1>2, SentFacts, SeparatorFacts DEF Framed
<1>4. n \in Nat /\ 1 <= n /\ n <= ReadSize /\ ReadSize \in Nat
  BY SeparatorFacts, TransportAssumption
<1>5. PICK z \in Nat : z = Len(s)
  BY <1>3, LenNat
<1>6. PICK a \in Nat, b \in Nat, c \in Nat, h \in Nat :
        /\ p <= a /\ a <= b /\ b <= c /\ c <= h /\ h <= z
        /\ out = Part(s, p, a) /\ window = Part(s, a, b)
        /\ arrived = Part(s, b, c) /\ transit = Part(s, c, h)
        /\ eof \/ h = z
  BY <1>1, <1>5 DEF Flowing
<1>7. c <= Len(s) /\ b <= Len(s) /\ a <= Len(s) /\ c - b \in Nat
  BY <1>5, <1>6
<1> DEFINE r == Min({ReadSize, Len(arrived)})
<1>8. Len(arrived) = c - b
  <2>1. Len(Part(s, b, c)) = c - b
    BY <1>3, <1>6, <1>7, PartFacts
  <2> QED BY <1>6, <2>1
<1>9. r \in Nat /\ r <= c - b
  BY <1>4, <1>7, <1>8, MinOfTwo
<1>10. New = Take(arrived, r)
  BY DEF New
<1> HIDE DEF r
<1>11. PICK d \in Nat, k \in Nat : d = b + r /\ k = c - b
  BY <1>7, <1>9
<1>12. /\ b <= d /\ d <= c /\ d <= Len(s) /\ a <= d /\ p <= d /\ p <= b /\ r <= k
       /\ k <= c - b /\ b + r = d /\ b + k = c /\ b + 0 = b
  BY <1>6, <1>7, <1>9, <1>11
<1>13. New = Part(s, b, d) /\ Len(New) = r
  <2>1. Part(Part(s, b, c), 0, r) = Part(s, b + 0, b + r)
    BY <1>3, <1>6, <1>7, <1>9, <1>12, PartOfPart
  <2>2. New = Part(s, b, d)
    <3>1. New = Part(arrived, 0, r)
      BY <1>10, TakeIsPart
    <3> QED BY <1>6, <1>12, <2>1, <3>1
  <2>3. Len(Part(s, b, d)) = d - b
    BY <1>3, <1>12, PartFacts
  <2> QED BY <1>9, <1>11, <2>2, <2>3
<1>14. Drop(arrived, Len(New)) = Part(s, d, c)
  <2>1. Part(Part(s, b, c), r, k) = Part(s, b + r, b + k)
    BY <1>3, <1>6, <1>7, <1>9, <1>12, PartOfPart
  <2>2. Drop(arrived, r) = Part(arrived, r, k)
    BY <1>8, <1>11 DEF Drop, Part
  <2> QED BY <1>6, <1>12, <1>13, <2>1, <2>2
<1>15. s \in Bytes /\ p <= a /\ a <= b /\ b <= d /\ a <= d /\ b <= Len(s) /\ d <= Len(s)
  BY <1>3, <1>6, <1>7, <1>12
<1>16. window \o New = Part(s, a, d) /\ out \o window = Part(s, p, b)
  <2>1. Part(s, a, b) \o Part(s, b, d) = Part(s, a, d)
    BY <1>15, PartJoin
  <2>2. Part(s, p, a) \o Part(s, a, b) = Part(s, p, b)
    BY <1>15, PartJoin
  <2> QED BY <1>6, <1>13, <2>1, <2>2
<1>17. out \o (window \o New) = Part(s, p, d) /\ Len(out) = a - p /\ Len(Part(s, p, d)) = d - p
  <2>1. Part(s, p, a) \o Part(s, a, d) = Part(s, p, d)
    BY <1>15, PartJoin
  <2>2. Len(Part(s, p, a)) = a - p
    BY <1>3, <1>6, <1>7, PartFacts
  <2>3. Len(Part(s, p, d)) = d - p
    BY <1>3, <1>12, PartFacts
  <2> QED BY <1>6, <1>16, <2>1, <2>2, <2>3
<1>18. \A i \in Occurrences(Part(s, p, d), Separator) : i > a - p /\ i + n - 1 = d - p
  <2>1. Clean
    BY DEF Read, Search
  <2> QED BY <1>17, <2>1 DEF Clean
<1>19. p + n <= l
  BY <1>2, <1>3, <1>4, FoundIn
<1>20. d <= l /\ (d = l => a + n <= l)
  <2>1. ASSUME l <= d
        PROVE  d = l /\ a + n <= l
    <3>1. (l - n) - p + 1 \in Occurrences(Part(s, p, d), Separator)
      BY <1>2, <1>3, <1>4, <1>12, <2>1, FoundBefore
    <3>2. (l - n) - p + 1 > a - p /\ (l - n) - p + 1 + n - 1 = d - p
      BY <1>18, <3>1
    <3> QED BY <1>4, <1>6, <1>19, <3>2
  <2> QED BY <2>1
<1> DEFINE ends == Occurrences(window \o New, Separator)
<1>21. ends = IF d = l /\ a + n <= l THEN {(l - n) - a + 1} ELSE {}
  <2>1. Occurrences(Part(s, a, d), Separator) = IF d = l /\ a + n <= l THEN {(l - n) - a + 1} ELSE {}
    BY <1>2, <1>3, <1>4, <1>6, <1>12, <1>20, FoundIn
  <2> QED BY <1>16, <2>1
<1>22. /\ arrived' = Drop(arrived, Len(New)) /\ UNCHANGED <<server, transit, eof>>
       /\ \/ /\ ends = {} /\ out' = out \o window /\ window' = New
             /\ UNCHANGED <<version, pc, scan, pending, intact>>
          \/ /\ ends # {} /\ out' = <<>> /\ window' = <<>>
             /\ IF version = "v1.1"
                THEN /\ pc' = "fill"
                     /\ scan' = [NoScan EXCEPT !.rest = out \o Take(window \o New, Min(ends) - 1)]
                     /\ UNCHANGED <<version, pending, intact>>
                ELSE /\ Received(out \o Take(window \o New, Min(ends) - 1))
                     /\ UNCHANGED <<pc, scan>>
  BY DEF Read, Search, netVars
<1> HIDE DEF ends
<1>23. CASE d # l
  <2>1. ends = {}
    BY <1>21, <1>23
  <2>2. /\ out' = Part(s, p, b) /\ window' = Part(s, b, d) /\ arrived' = Part(s, d, c)
        /\ transit' = transit /\ eof' = eof /\ UNCHANGED <<server, version, pc, scan, pending, intact>>
    BY <1>13, <1>14, <1>16, <1>22, <2>1
  <2>3. Flowing(s, p)'
    BY <1>5, <1>6, <1>12, <2>2 DEF Flowing
  <2> QED BY <1>1, <2>2, <2>3 DEF ReadsOn
<1>24. CASE d = l
  <2>1. ends = {(l - n) - a + 1} /\ ends # {} /\ a + n <= l
    BY <1>20, <1>21, <1>24
  <2>2. PICK x \in Nat, y \in Nat : x = (l - n) - a /\ y = l - n
    <3>1. (l - n) - a \in Nat /\ l - n \in Nat
      BY <1>4, <2>1
    <3> QED BY <3>1
  <2>3. Min(ends) - 1 = x
    <3>1. ends \in SUBSET Nat /\ ends # {}
      BY <2>1, <2>2
    <3>2. Min(ends) \in ends
      BY <3>1, MinOfSet
    <3> QED BY <2>1, <2>2, <3>2
  <2>4. out \o Take(window \o New, Min(ends) - 1) = Take(f, Len(f) - n)
    <3>1. a <= y /\ y <= l /\ y <= Len(s) /\ a + x = y /\ a + 0 = a /\ x <= d - a /\ p <= y
      BY <1>2, <1>4, <1>5, <1>6, <1>24, <2>1, <2>2
    <3>2. Part(Part(s, a, d), 0, x) = Part(s, a + 0, a + x)
      BY <1>3, <1>12, <3>1, PartOfPart
    <3>3. Take(window \o New, Min(ends) - 1) = Part(s, a, y)
      <4>1. Take(Part(s, a, d), x) = Part(Part(s, a, d), 0, x)
        BY TakeIsPart
      <4> QED BY <1>16, <2>3, <3>1, <3>2, <4>1
    <3>4. Part(s, p, a) \o Part(s, a, y) = Part(s, p, y)
      BY <1>15, <3>1, PartJoin
    <3>5. PICK v \in Nat : v = y - p
      BY <3>1
    <3>6. v <= l - p /\ p + 0 = p /\ p + v = y /\ Len(f) - n = v
      <4>1. Len(Part(s, p, l)) = l - p
        BY <1>2, <1>3, PartFacts
      <4> QED BY <1>2, <1>3, <2>2, <3>1, <3>5, <4>1
    <3>7. Part(Part(s, p, l), 0, v) = Part(s, p + 0, p + v)
      BY <1>2, <1>3, <3>6, PartOfPart
    <3>8. Take(f, v) = Part(f, 0, v)
      BY TakeIsPart
    <3> QED BY <1>3, <1>6, <3>3, <3>4, <3>6, <3>7, <3>8
  <2>5. /\ out' = Part(s, l, l) /\ window' = Part(s, l, l) /\ arrived' = Part(s, l, c)
        /\ transit' = Part(s, c, h) /\ eof' = eof /\ l <= c
    BY <1>3, <1>6, <1>12, <1>14, <1>22, <1>24, <2>1, PartWhole
  <2>6. Flowing(s, l)'
    BY <1>5, <1>6, <2>5 DEF Flowing
  <2> QED BY <1>1, <1>22, <2>1, <2>4, <2>6 DEF ReadsAll
<1> QED BY <1>23, <1>24

\* The scanner begins with the first header.
LEMMA ScanBegins ==
    ASSUME NEW m \in Payloads, NEW t \in Bytes, Ahead("headerStart", 0, m, t),
           scan' = [NoScan EXCEPT !.rest = t]
    PROVE  Decoding(m)'
<1>1. /\ scan'.rest = t /\ scan'.buf = <<>> /\ scan'.eof = FALSE /\ scan'.state = "headerStart"
      /\ scan'.left = 0 /\ scan'.advance = 0 /\ scan'.got = <<>>
  BY DEF NoScan
<1>2. PICK e \in Bytes : e = <<>>
  BY LiteralBytes
<1>3. cur' = <<>>
  <2>1. Drop(e, 0) = e
    BY <1>2, PartWhole DEF Part, Drop
  <2> QED BY <1>1, <1>2, <2>1 DEF cur
<1>4. e \o t = t /\ e \o m = m /\ m \in Bytes
  BY <1>2, ConcatEmptySeq, TransportAssumption DEF Bytes
<1> QED BY <1>1, <1>2, <1>3, <1>4 DEF Decoding

-----------------------------------------------------------------------------
(* The invariant of Receive *)

\* Receive waits for the first message that is pending, or takes it apart.
Getting(s, e) == pc = "read" /\ Flowing(s, e[0])

Unchunking(s, e) ==
    /\ pc \in {"fill", "split"} /\ version = "v1.1" /\ pending # <<>>
    /\ Flowing(s, e[1])
    /\ Head(pending) = Garbage \/ (Head(pending) \in Payloads /\ Decoding(Head(pending)))

\* The client is where the server is.
InStep == \E s, e : Framed(s, e) /\ (Getting(s, e) \/ Unchunking(s, e))

IntactInv ==
    /\ TransportInv
    /\ Versioned
    /\ clean => intact /\ (pc = "failed" \/ InStep)

LEMMA InitIntact ==
    ASSUME Init
    PROVE  Versioned /\ intact /\ InStep
<1>1. Versioned /\ intact
  BY DEF Init, Versioned
<1>2. PICK s \in Bytes : s = Hello \o msgSeparator
  BY LiteralBytes, ConcatFacts
<1>3. PICK l \in Nat : l = Len(s)
  BY LenNat
<1>4. pending = <<Hello>> /\ pending \in Seq(Messages) /\ Len(pending) = 1 /\ pending[1] = Hello
  <2>1. PICK m : m = Hello
    OBVIOUS
  <2>2. pending = <<m>> /\ m \in Messages
    BY <2>1 DEF Init, Messages
  <2> QED BY <2>1, <2>2
<1> DEFINE e == [i \in 0 .. 1 |-> IF i = 0 THEN 0 ELSE l]
<1>5. e \in [0 .. 1 -> Nat] /\ e[0] = 0 /\ e[1] = l /\ \A i \in 0 .. 1 : e[i] <= l
  OBVIOUS
<1> HIDE DEF e
<1>6. Part(s, 0, l) = s /\ Part(s, 0, 0) = <<>>
  BY <1>3, PartWhole
<1>7. ASSUME NEW i \in 1 .. 1
      PROVE  e[i - 1] <= e[i] /\ Sent(Part(s, e[i - 1], e[i]), pending[i], version)
  <2>1. i = 1 /\ i - 1 = 0 /\ 0 <= l
    OBVIOUS
  <2>2. Sent(s, Hello, version)
    BY <1>2 DEF Sent, Init
  <2> QED BY <1>4, <1>5, <1>6, <2>1, <2>2
<1>8. Framed(s, e)
  BY <1>3, <1>4, <1>5, <1>7 DEF Framed
<1>9. Flowing(s, 0)
  <2>1. /\ out = Part(s, 0, 0) /\ window = Part(s, 0, 0) /\ arrived = Part(s, 0, 0)
        /\ transit = Part(s, 0, l)
    BY <1>2, <1>6 DEF Init
  <2>2. 0 <= 0 /\ 0 <= l /\ l <= Len(s) /\ l = Len(s) /\ 0 \in Nat
    BY <1>3
  <2> QED BY <2>1, <2>2 DEF Flowing
<1>10. Getting(s, e)
  BY <1>5, <1>9 DEF Getting, Init
<1> QED BY <1>1, <1>8, <1>10 DEF InStep

\* The first two positions are numbers.
LEMMA Positions ==
    ASSUME NEW s, NEW e, Framed(s, e)
    PROVE  s \in Bytes /\ e[0] \in Nat /\ 0 \in 0 .. Len(pending)
<1>1. Len(pending) \in Nat
  BY DEF Framed
<1>2. 0 \in 0 .. Len(pending)
  BY <1>1
<1> QED BY <1>2 DEF Framed

\* What the server and the network do leaves the client in step.
LEMMA ServerIntact ==
    ASSUME SeparatorsEnd, Versioned, InStep, ServerSend \/ Arrive \/ Break
    PROVE  InStep'
<1>1. PICK s, e : Framed(s, e) /\ (Getting(s, e) \/ Unchunking(s, e))
  BY DEF InStep
<1>2. s \in Bytes /\ e[0] \in Nat /\ 0 \in 0 .. Len(pending)
  BY <1>1, Positions
<1>3. UNCHANGED <<pc, scan, version>>
  BY DEF ServerSend, Arrive, Break
<1>4. cur' = cur
  BY <1>3 DEF cur
<1>5. \A m : Decoding(m) => Decoding(m)'
  BY <1>3, <1>4 DEF Decoding
<1>6. PICK t, g : /\ Framed(t, g)' /\ \A i \in 0 .. Len(pending) : g[i] = e[i]
                  /\ \A p \in Nat : Flowing(s, p) => Flowing(t, p)'
  <2>1. CASE ServerSend
    BY <1>1, <2>1, SendFlows
  <2>2. CASE Arrive
    <3>1. Framed(s, e)'
      BY <1>1, <2>2, SameFrames DEF Arrive
    <3> QED BY <1>2, <2>2, <3>1, ArriveFlows
  <2>3. CASE Break
    <3>1. Framed(s, e)'
      BY <1>1, <2>3, SameFrames DEF Break
    <3> QED BY <1>2, <2>3, <3>1, BreakFlows
  <2> QED BY <2>1, <2>2, <2>3
<1>7. CASE Getting(s, e)
  <2>1. Getting(t, g)'
    BY <1>2, <1>3, <1>6, <1>7 DEF Getting
  <2> QED BY <1>6, <2>1 DEF InStep
<1>8. CASE Unchunking(s, e)
  <2>1. pending # <<>>
    BY <1>8 DEF Unchunking
  <2>2. e[1] \in Nat
    BY <1>1, <2>1, FirstFrame
  <2>3. pending \in Seq(Messages) /\ 1 \in 0 .. Len(pending)
    <3>1. pending \in Seq(Messages)
      BY <1>1 DEF Framed
    <3>2. Len(pending) \in Nat /\ 1 <= Len(pending)
      BY <2>1, <3>1
    <3> QED BY <3>1, <3>2
  <2>4. Flowing(t, g[1])'
    BY <1>6, <1>8, <2>2, <2>3 DEF Unchunking
  <2>5. Head(pending') = Head(pending) /\ pending' # <<>>
    <3>1. pending' = pending \/ \E m : pending' = Append(pending, m)
      BY DEF ServerSend, Arrive, Break
    <3>2. ASSUME NEW m, pending' = Append(pending, m)
          PROVE  Head(pending') = Head(pending) /\ pending' # <<>>
      <4>1. pending \in Seq(Messages \cup {m})
        BY <2>3
      <4>2. /\ Append(pending, m) # <<>>
            /\ Head(Append(pending, m)) = Append(pending, m)[1] /\ Append(pending, m)[1] = pending[1]
        BY <2>1, <4>1, AppendProperties
      <4>3. Head(pending) = pending[1]
        BY <2>1, <2>3
      <4> QED BY <3>2, <4>2, <4>3
    <3> QED BY <2>1, <3>1, <3>2
  <2>6. Unchunking(t, g)'
    BY <1>3, <1>5, <1>8, <2>4, <2>5 DEF Unchunking
  <2> QED BY <1>6, <2>6 DEF InStep
<1> QED BY <1>1, <1>7, <1>8

LEMMA ReadIntact ==
    ASSUME SeparatorsEnd, Versioned, intact, pc = "read", InStep, Read, clean'
    PROVE  Versioned' /\ intact' /\ InStep'
<1>1. PICK s, e : Framed(s, e) /\ Flowing(s, e[0])
  BY DEF InStep, Getting, Unchunking
<1>2. pending # <<>>
  <2>1. SUFFICES ASSUME pending = <<>>
                 PROVE  FALSE
    OBVIOUS
  <2>2. s \in Bytes /\ e[0] = Len(s)
    BY <1>1, <2>1 DEF Framed
  <2>3. PICK l \in Nat : l = Len(s)
    BY <2>2, LenNat
  <2>4. PICK b \in Nat, c \in Nat : l <= b /\ b <= c /\ c <= l /\ arrived = Part(s, b, c)
    BY <1>1, <2>2, <2>3 DEF Flowing
  <2>5. b = c
    BY <2>4
  <2>6. arrived = <<>>
    BY <2>2, <2>4, <2>5, PartWhole
  <2> QED BY <2>6 DEF Read, Search
<1>3. PICK n \in Nat : n = Len(Separator)
  BY SeparatorFacts
<1>4. PICK f : f = Part(s, e[0], e[1])
  OBVIOUS
<1>5. PICK m : m = Head(pending)
  OBVIOUS
<1>6. Sent(f, m, version)
  BY <1>1, <1>2, <1>4, <1>5, FirstFrame
<1>7. ReadsOn(s, e) \/ ReadsAll(s, e, f, n)
  BY <1>1, <1>2, <1>3, <1>4, ReadFlows
<1>8. CASE Flowing(s, e[0])' /\ UNCHANGED <<server, version, eof, pc, scan, pending, intact>>
  <2>1. Framed(s, e)'
    BY <1>1, <1>8, SameFrames
  <2>2. Getting(s, e)'
    BY <1>8 DEF Getting
  <2> QED BY <1>8, <2>1, <2>2 DEF Versioned, InStep
<1>9. CASE /\ Flowing(s, e[1])' /\ UNCHANGED <<server, version, pending, intact>> /\ version = "v1.1"
           /\ pc' = "fill" /\ scan' = [NoScan EXCEPT !.rest = Take(f, Len(f) - n)]
  <2>1. m = Garbage \/ (m \in Payloads /\ Decoding(m)')
    <3>1. CASE m # Garbage
      <4>1. m \in Payloads /\ Ahead("headerStart", 0, m, Take(f, Len(f) - n))
        BY <1>3, <1>6, <1>9, <3>1, SentFacts
      <4>2. m \in Bytes /\ Len(m) <= MaxChunkSize
        BY <4>1, TransportAssumption, RangeFacts, MaxChunkFacts DEF Bytes
      <4>3. Take(f, Len(f) - n) \in Bytes
        BY <4>1, <4>2, AheadFacts
      <4> QED BY <1>9, <4>1, <4>3, ScanBegins
    <3> QED BY <3>1
  <2>2. Framed(s, e)'
    BY <1>1, <1>9, SameFrames
  <2>3. Unchunking(s, e)'
    <3>1. Head(pending') = m
      BY <1>5, <1>9
    <3>2. m = Head(pending') => (Decoding(m)' => Decoding(Head(pending))')
      BY DEF Decoding
    <3> QED BY <1>2, <1>9, <2>1, <3>1, <3>2 DEF Unchunking
  <2> QED BY <1>9, <2>2, <2>3 DEF Versioned, InStep
<1>10. CASE /\ Flowing(s, e[1])' /\ UNCHANGED <<server, pc>> /\ version # "v1.1"
            /\ Received(Take(f, Len(f) - n))
  <2>1. Take(f, Len(f) - n) = Head(pending)
    BY <1>3, <1>5, <1>6, <1>10, SentFacts
  <2>2. Versioned' /\ intact' /\ \E h : Framed(s, h)' /\ h[0] = e[1]
    BY <1>1, <1>2, <1>10, <2>1, Delivered
  <2>3. PICK h : Framed(s, h)' /\ h[0] = e[1]
    BY <2>2
  <2>4. Getting(s, h)'
    BY <1>10, <2>3 DEF Getting
  <2> QED BY <2>2, <2>3, <2>4 DEF InStep
<1> QED BY <1>7, <1>8, <1>9, <1>10 DEF ReadsOn, ReadsAll

\* Fill and SplitChunked, whatever the chunks are.
LEMMA ScanIntact ==
    ASSUME TransportInv, Versioned, intact, InStep,
           Fill \/ SplitReturn \/ HeaderStart \/ HeaderSize \/ Data \/ EndOfChunks
    PROVE  Versioned' /\ intact' /\ InStep'
<1>1. pc \in {"fill", "split"}
  BY DEF Fill, SplitReturn, HeaderStart, HeaderSize, SizeRead, Data, EndOfChunks, Splits
<1>2. PICK s, e : Framed(s, e) /\ Unchunking(s, e)
  BY <1>1 DEF InStep, Getting
<1>3. PICK m : m = Head(pending)
  OBVIOUS
<1>4. pending # <<>> /\ version = "v1.1" /\ Flowing(s, e[1])
  BY <1>2 DEF Unchunking
<1>5. m = Garbage \/ (m \in Payloads /\ Decoding(m))
  BY <1>2, <1>3 DEF Unchunking
<1>6. \/ ScanEnds /\ (scan.got = m \/ m = Garbage)
      \/ Scanning /\ pc' \in {"fill", "split"} /\ (m = Garbage \/ (m \in Payloads /\ Decoding(m)'))
  <2>1. CASE m # Garbage
    <3>1. m \in Payloads /\ Decoding(m)
      BY <1>5, <2>1
    <3>2. Goes(m)
      BY <3>1, FillDecodes, ReturnDecodes, StartDecodes, SizeDecodes, DataDecodes, EndDecodes
         DEF Goes
    <3> QED BY <3>1, <3>2 DEF Goes
  <2>2. CASE m = Garbage
    <3>1. ScanEnds \/ (Scanning /\ pc' \in {"fill", "split"})
      <4>1. CASE Fill
        BY <4>1, FillReads
      <4>2. CASE SplitReturn
        BY <4>2 DEF SplitReturn
      <4>3. CASE HeaderStart
        BY <4>3 DEF HeaderStart, Goto, Splits
      <4>4. CASE HeaderSize
        BY <4>4 DEF HeaderSize, SizeRead, Splits
      <4>5. CASE Data
        BY <4>5 DEF Data
      <4>6. CASE EndOfChunks
        BY <4>6 DEF EndOfChunks, Goto, Splits
      <4> QED BY <4>1, <4>2, <4>3, <4>4, <4>5, <4>6
    <3> QED BY <2>2, <3>1
  <2> QED BY <2>1, <2>2
<1>7. CASE ScanEnds /\ (scan.got = m \/ m = Garbage)
  <2>1. /\ Received(scan.got) /\ pc' = "read"
        /\ UNCHANGED <<server, transit, arrived, window, out, eof>>
    BY <1>7 DEF ScanEnds, netVars, waitVars
  <2>2. PICK g : g = scan.got
    OBVIOUS
  <2>3. Versioned' /\ intact' /\ \E h : Framed(s, h)' /\ h[0] = e[1]
    BY <1>2, <1>3, <1>4, <1>7, <2>1, <2>2, Delivered
  <2>4. PICK h : Framed(s, h)' /\ h[0] = e[1]
    BY <2>3
  <2>5. Flowing(s, e[1])'
    BY <1>4, <2>1, SameFlow
  <2>6. Getting(s, h)'
    BY <2>1, <2>4, <2>5 DEF Getting
  <2> QED BY <2>3, <2>4, <2>6 DEF InStep
<1>8. CASE /\ Scanning /\ pc' \in {"fill", "split"}
           /\ m = Garbage \/ (m \in Payloads /\ Decoding(m)')
  <2>1. UNCHANGED <<server, transit, arrived, window, out, eof, version, pending, intact>>
    BY <1>8 DEF Scanning, netVars, waitVars
  <2>2. Framed(s, e)' /\ Flowing(s, e[1])'
    BY <1>2, <1>4, <2>1, SameFrames, SameFlow
  <2>3. Unchunking(s, e)'
    <3>1. Head(pending') = m
      BY <1>3, <2>1
    <3>2. m = Head(pending') => (Decoding(m)' => Decoding(Head(pending))')
      BY DEF Decoding
    <3> QED BY <1>4, <1>8, <2>1, <2>2, <3>1, <3>2 DEF Unchunking
  <2> QED BY <2>1, <2>2, <2>3 DEF Versioned, InStep
<1> QED BY <1>6, <1>7, <1>8

LEMMA NextIntact ==
    ASSUME SeparatorsEnd, IntactInv, [Next]_vars
    PROVE  IntactInv'
<1>1. TransportInv'
  BY NextTransport DEF IntactInv
<1>2. TransportInv /\ Versioned
  BY DEF IntactInv
<1>3. Versioned'
  <2>1. \/ UNCHANGED <<server, version, pending>>
        \/ UNCHANGED <<server, version>> /\ version # ""
        \/ UNCHANGED server /\ \E g : Received(g)
    BY DEF Next, ClientStep, vars, ServerSend, Arrive, Break, Read, Search, ReadEOF, Fill, SplitReturn,
           HeaderStart, HeaderSize, SizeRead, Data, EndOfChunks, Goto, ScanEnds, Scanning, netVars
  <2>2. server # ""
    BY <1>2, TransportAssumption DEF Versioned
  <2> QED BY <1>2, <2>1, <2>2 DEF Versioned, Received
<1>4. SUFFICES ASSUME clean'
               PROVE  intact' /\ (pc' = "failed" \/ InStep')
  BY <1>1, <1>3 DEF IntactInv
<1>5. clean
  BY <1>4 DEF Next, ClientStep, vars, ServerSend, Arrive, Break, Read, Search, ReadEOF, Fill, SplitReturn,
              HeaderStart, HeaderSize, SizeRead, Data, EndOfChunks, Goto, ScanEnds, Scanning
<1>6. intact /\ (pc = "failed" \/ InStep)
  BY <1>5 DEF IntactInv
<1>7. CASE UNCHANGED vars
  <2>1. UNCHANGED <<server, version, transit, arrived, eof, window, out, pc, scan, pending, intact>>
    BY <1>7 DEF vars
  <2>2. ASSUME InStep
        PROVE  InStep'
    <3>1. PICK s, e : Framed(s, e) /\ (Getting(s, e) \/ Unchunking(s, e))
      BY <2>2 DEF InStep
    <3>2. Framed(s, e)' /\ \A p : Flowing(s, p) => Flowing(s, p)'
      BY <2>1, <3>1, SameFrames, SameFlow
    <3>3. \A m : Decoding(m) => Decoding(m)'
      BY <2>1 DEF Decoding, cur
    <3>4. Getting(s, e) => Getting(s, e)'
      BY <2>1, <3>2 DEF Getting
    <3>5. Unchunking(s, e) => Unchunking(s, e)'
      BY <2>1, <3>2, <3>3 DEF Unchunking
    <3> QED BY <3>1, <3>2, <3>4, <3>5 DEF InStep
  <2> QED BY <1>6, <2>1, <2>2
<1>8. CASE ServerSend \/ Arrive \/ Break
  <2>1. UNCHANGED <<pc, intact>>
    BY <1>8 DEF ServerSend, Arrive, Break
  <2> QED BY <1>2, <1>6, <1>8, <2>1, ServerIntact
<1>9. CASE Read
  <2>1. pc = "read"
    BY <1>9 DEF Read, Search
  <2> QED BY <1>2, <1>4, <1>6, <1>9, <2>1, ReadIntact
<1>10. CASE ReadEOF
  BY <1>6, <1>10 DEF ReadEOF
<1>11. CASE Fill \/ SplitReturn \/ HeaderStart \/ HeaderSize \/ Data \/ EndOfChunks
  <2>1. pc # "failed"
    BY <1>11 DEF Fill, SplitReturn, HeaderStart, HeaderSize, SizeRead, Data, EndOfChunks, Splits
  <2> QED BY <1>2, <1>6, <1>11, <2>1, ScanIntact
<1> QED BY <1>7, <1>8, <1>9, <1>10, <1>11 DEF Next, ClientStep

\* What Receive returns is what the server sent, the chunks of it put together,
\* as long as each separator was found at the end of a read: however many
\* messages are on their way, however they are divided into packets and reads,
\* for messages of any size a header can state, sent as one chunk or as two, in
\* both framings, after malformed messages and when the connection breaks in
\* between.  It relies on the separator being nowhere but at the end of a frame,
\* which Receive does not check against the chunks.
THEOREM ReceivedIntact ==
    ASSUME SeparatorsEnd
    PROVE  Spec => []MessagesIntact
<1>1. Init => IntactInv
  BY InitTransport, InitIntact DEF IntactInv
<1>2. IntactInv /\ [Next]_vars => IntactInv'
  BY NextIntact
<1>3. IntactInv => MessagesIntact
  BY DEF IntactInv, MessagesIntact
<1> QED BY <1>1, <1>2, <1>3, PTL DEF Spec
=============================================================================
