---------------------------- MODULE Frame_proofs ----------------------------
(***************************************************************************)
(* Proofs about Frame, for frames of every content and bursts of every     *)
(* length, in the code's sizes.                                            *)
(*                                                                         *)
(* First what the tables do: the interleaver (InterleaveParity,            *)
(* Involution, Spread) and the puncturing (RankInNumbers to PlaceFound).   *)
(* Then a bit's way through the air: DecodeHears says of each soft bit     *)
(* that it is near the bit that was encoded, near its inverse or lost.     *)
(* Then the decoder: along the path the encoder took, SentState, the       *)
(* metric grows by no more than each bit costs (CostOfBit, MetricsStep),   *)
(* which is half a bit where it was punctured and a whole bit where it is  *)
(* damaged. FrameInv gathers this, with a lemma per action.                *)
(* Then Golay: words differ in seven bits at least (WordsAreHeavy, for the *)
(* checksum is linear), so that three wrong bits are put right.            *)
(* The theorems read off the invariant what is reported, what is wrong,    *)
(* what becomes of the LICH and what stays in range.                       *)
(***************************************************************************)
EXTENDS Frame, SequenceTheorems, FiniteSetTheorems, FunctionTheorems, TLAPS

\* The square in the formula of interleaveSequence only tells odd from even.
LEMMA InterleaveParity ==
  ASSUME NEW i \in Bits
  PROVE  interleaveSequence(i) = (45 * i + 92 * (i % 2)) % 368
<1>1. i \in Nat
  BY DEF Bits, BitsPerPayload
<1>2. PICK k \in Nat : i = 2 * k + (i % 2)
  <2>. DEFINE k == i \div 2
  <2>1. k \in Nat /\ i = 2 * k + (i % 2)
    BY <1>1
  <2>. QED  BY <2>1
<1>3. PICK q \in Nat : i * i = 4 * q + (i % 2)
  <2>1. CASE i % 2 = 0
    <3>1. i = 2 * k
      BY <1>2, <2>1
    <3>2. k * k \in Nat /\ i * i = 4 * (k * k)
      BY <3>1
    <3>. QED  BY <2>1, <3>2
  <2>2. CASE i % 2 = 1
    <3>1. i = 2 * k + 1
      BY <1>2, <2>2
    <3>2. k * k + k \in Nat /\ i * i = 4 * (k * k + k) + 1
      BY <3>1
    <3>. QED  BY <2>2, <3>2
  <2>. QED  BY <1>1, <2>1, <2>2
<1>4. 45 * i + 92 * i * i = (45 * i + 92 * (i % 2)) + 368 * q
  <2>1. 92 * i * i = 92 * (i * i)
    BY <1>1
  <2>. DEFINE s == i * i
  <2>. HIDE DEF s
  <2>2. 92 * s = 92 * (i % 2) + 368 * q
    BY <1>1, <1>3 DEF s
  <2>3. 92 * i * i = 92 * (i % 2) + 368 * q
    BY <2>1, <2>2 DEF s
  <2>. QED  BY <1>1, <2>3
<1>5. (45 * i + 92 * (i % 2) + 368 * q) % 368 = (45 * i + 92 * (i % 2)) % 368
  BY <1>1
<1>6. interleaveSequence(i) = (45 * i + 92 * i * i) % 368
  BY DEF interleaveSequence, BitsPerPayload
<1>. QED  BY <1>4, <1>5, <1>6, ZenonT(60)

\* Interleaving twice leads back, so that the receiver may use the same table.
LEMMA Involution ==
  ASSUME NEW i \in Bits
  PROVE  interleaveSequence(i) \in Bits /\ interleaveSequence(interleaveSequence(i)) = i
<1>. DEFINE j == interleaveSequence(i)
            odd == i % 2
            t == (45 * i + 92 * odd) \div 368
<1>1. i \in 0..367 /\ j = (45 * i + 92 * odd) % 368
  <2>1. i \in 0..367
    BY DEF Bits, BitsPerPayload
  <2>2. j = (45 * i + 92 * odd) % 368
    BY InterleaveParity, Zenon
  <2>. QED  BY <2>1, <2>2
<1>2. j \in 0..367 /\ t \in Nat /\ 45 * i + 92 * odd = j + 368 * t
  <2>. HIDE DEF j
  <2>. QED  BY <1>1
<1>. HIDE DEF j, t
<1>3. j % 2 = odd
  BY <1>1, <1>2
<1>4. j \in Bits
  BY <1>2 DEF Bits, BitsPerPayload
<1>5. interleaveSequence(j) = (45 * j + 92 * odd) % 368
  BY <1>3, <1>4, InterleaveParity
<1>6. \E u \in Int : 45 * j + 92 * odd = i + 368 * u
  <2>1. PICK k \in Nat : i = 2 * k + odd
    <3>1. i \div 2 \in Nat /\ i = 2 * (i \div 2) + odd
      BY <1>1
    <3>. QED  BY <3>1
  <2>2. 45 * j + 92 * odd = 2025 * i + 4232 * odd - 45 * (368 * t)
    BY <1>1, <1>2
  <2>3. 2025 * i + 4232 * odd = i + 368 * (11 * k + 17 * odd)
    BY <1>1, <2>1
  <2>. DEFINE u == 11 * k + 17 * odd - 45 * t
  <2>4. u \in Int /\ 45 * j + 92 * odd = i + 368 * u
    BY <1>1, <1>2, <2>1, <2>2, <2>3
  <2>. HIDE DEF u
  <2>. QED  BY <2>4
<1>. QED  BY <1>1, <1>4, <1>5, <1>6 DEF j

\* Two of the eight bits of four symbols in a row are bits of the code that lie
\* at least 39 places apart.
LEMMA Spread ==
  ASSUME NEW i \in Bits, NEW j \in Bits, i < j, j - i < 8
  PROVE  \/ interleaveSequence(i) - interleaveSequence(j) >= 39
         \/ interleaveSequence(j) - interleaveSequence(i) >= 39
<1>. DEFINE a == interleaveSequence(i)
            b == interleaveSequence(j)
<1>1. i \in 0..367 /\ j \in 0..367
  BY DEF Bits, BitsPerPayload
<1>2. a = (45 * i + 92 * (i % 2)) % 368 /\ b = (45 * j + 92 * (j % 2)) % 368
  BY InterleaveParity, ZenonT(60)
<1>. HIDE DEF a, b
<1>3. PICK s \in Nat, t \in Nat : /\ 45 * i + 92 * (i % 2) = a + 368 * s
                                  /\ 45 * j + 92 * (j % 2) = b + 368 * t
  <2>. DEFINE s == (45 * i + 92 * (i % 2)) \div 368
              t == (45 * j + 92 * (j % 2)) \div 368
  <2>1. /\ s \in Nat /\ 45 * i + 92 * (i % 2) = a + 368 * s
        /\ t \in Nat /\ 45 * j + 92 * (j % 2) = b + 368 * t
    BY <1>1, <1>2
  <2>. HIDE DEF s, t
  <2>. QED  BY <2>1
<1>4. a \in 0..367 /\ b \in 0..367
  BY <1>1, <1>2
<1>5. PICK d \in 1..7 : j = i + d
  BY <1>1
<1>6. i % 2 \in {0, 1} /\ j % 2 = IF d \in {1, 3, 5, 7} THEN 1 - (i % 2) ELSE i % 2
  BY <1>1, <1>5
<1>7. b - a = 45 * d + 92 * ((j % 2) - (i % 2)) - 368 * (t - s)
  BY <1>1, <1>3, <1>4, <1>5
<1>8. a - b >= 39 \/ b - a >= 39
  <2>. DEFINE x == i % 2
              y == j % 2
              n == t - s
  <2>. HIDE DEF x, y, n
  <2>1. n \in Int /\ x \in {0, 1} /\ y = (IF d \in {1, 3, 5, 7} THEN 1 - x ELSE x)
    BY <1>1, <1>3, <1>6 DEF n, x, y
  <2>2. b - a = 45 * d + 92 * (y - x) - 368 * n
    BY <1>7 DEF n, x, y
  <2>3. PICK m \in {90, 180, 270, 137, -47, 227, 43, 317, 133, 407, 223} : b - a = m - 368 * n
    <3>1. d = 1 \/ d = 2 \/ d = 3 \/ d = 4 \/ d = 5 \/ d = 6 \/ d = 7
      BY <1>5
    <3>2. y - x = (IF d \in {2, 4, 6} THEN 0 ELSE 1 - 2 * x)
      BY <2>1, <3>1
    <3>. QED  BY <2>1, <2>2, <3>1, <3>2
  <2>4. a - b \in Int /\ a - b <= 367 /\ b - a <= 367
    BY <1>4
  <2>5. n \in {-1, 0, 1, 2}
    BY <1>4, <2>1, <2>3, <2>4
  <2>. QED  BY <1>4, <2>3, <2>4, <2>5
<1>. QED  BY <1>8 DEF a, b
-----------------------------------------------------------------------------
(* Bits and symbols *)

HiBit(sym) == Bit(sym < 0)
LoBit(sym) == Bit(sym \in {3, -3})
BitOf(sym, i) == IF i % 2 = 0 THEN HiBit(sym) ELSE LoBit(sym)
Alphabet == {1, 3, -1, -3}

LEMMA SoftValues == softTrue = 2 * softMaybe + 1 /\ softMaybe \in Nat /\ softMaybe > 1000
BY DEF softTrue, softMaybe

\* A soft bit that leaves no doubt
Near(v, b) == IF b = 1 THEN v \in {softTrue - 1, softTrue} ELSE v \in {0, 1}

\* The four registers of the coder and the bit that comes in: the data between zeros
Input(i) == IF i \in 4..(Len(data) + 3) THEN data[i - 3] ELSE 0

DataBits == [LSF |-> 240, Stream |-> 144, Packet |-> 206]

\* What the frame generators make: the sizes of each kind of frame
Sent ==
  /\ kind \in {"LSF", "Stream", "Packet"}
  /\ data \in Seq({0, 1}) /\ Len(data) = DataBits[kind]

\* A bit of the data is a bit, and so is a zero beside them.
LEMMA InputIsBit ==
  ASSUME Sent
  PROVE  \A i \in Int : Input(i) \in {0, 1}
BY DEF Sent, Input, DataBits

\* The code's bits over the registers: (4, 1, 0) for the even, (4, 3, 2, 0) for the odd.
LEMMA CodeOfInput ==
  ASSUME NEW n \in Nat
  PROVE  /\ ConvolutionalEncode(2 * n) = (Input(n + 4) + Input(n + 1) + Input(n)) % 2
         /\ ConvolutionalEncode(2 * n + 1) = (Input(n + 4) + Input(n + 3) + Input(n + 2) + Input(n)) % 2
<1>1. (2 * n) \div 2 = n /\ (2 * n) % 2 = 0 /\ (2 * n + 1) \div 2 = n /\ (2 * n + 1) % 2 = 1
  OBVIOUS
<1>. QED  BY <1>1 DEF ConvolutionalEncode, Input

LEMMA CodeIsBit ==
  ASSUME Sent, NEW p \in Nat
  PROVE  ConvolutionalEncode(p) \in {0, 1}
<1>. DEFINE n == p \div 2
<1>1. n \in Nat /\ (p = 2 * n \/ p = 2 * n + 1)
  OBVIOUS
<1>. HIDE DEF n
<1>2. Input(n + 4) \in {0, 1} /\ Input(n + 3) \in {0, 1} /\ Input(n + 2) \in {0, 1}
      /\ Input(n + 1) \in {0, 1} /\ Input(n) \in {0, 1}
  BY <1>1, InputIsBit
<1>3. ConvolutionalEncode(p) = (Input(n + 4) + Input(n + 1) + Input(n)) % 2
      \/ ConvolutionalEncode(p) = (Input(n + 4) + Input(n + 3) + Input(n + 2) + Input(n)) % 2
  BY <1>1, CodeOfInput
<1>. QED  BY <1>2, <1>3
-----------------------------------------------------------------------------
(* Puncturing: the place of every bit that is kept *)

\* Of the first r entries of the pattern for link setup frames, (r + 1) \div 4 are out.
LEMMA OutOfPattern ==
  ASSUME NEW r \in 0..61
  PROVE  Cardinality({o \in {p \in 0..60 : p % 4 = 2} : o < r}) = (r + 1) \div 4
<1>. DEFINE n == (r + 1) \div 4
            S == {o \in {p \in 0..60 : p % 4 = 2} : o < r}
            f == [k \in 1..n |-> 4 * k - 2]
<1>1. n \in Nat /\ 4 * n <= r + 1 /\ r + 1 < 4 * n + 4
  OBVIOUS
<1>. HIDE DEF n
<1>2. f \in [1..n -> S]
  <2>1. \A k \in 1..n : 4 * k - 2 \in 0..60 /\ (4 * k - 2) % 4 = 2 /\ 4 * k - 2 < r
    BY <1>1
  <2>. QED  BY <2>1
<1>3. \A j, k \in 1..n : f[j] = f[k] => j = k
  BY <1>1
<1>4. \A o \in S : \E k \in 1..n : f[k] = o
  <2>. TAKE o \in S
  <2>. DEFINE k == (o + 2) \div 4
  <2>1. k \in 1..n /\ 4 * k - 2 = o
    BY <1>1
  <2>. HIDE DEF k
  <2>. QED  BY <2>1
<1>. HIDE DEF f
<1>5. f \in Bijection(1..n, S)
  BY <1>2, <1>3, <1>4, Fun_IsBij
<1>6. IsFiniteSet(1..n) /\ Cardinality(1..n) = n
  BY <1>1, FS_Interval
<1>7. ExistsBijection(1..n, S)
  BY <1>5 DEF ExistsBijection
<1>8. Cardinality(S) = n
  BY <1>6, <1>7, FS_Bijection
<1>. QED  BY <1>8 DEF n

\* How many are out in a whole pattern, and in its first r entries
LEMMA OutBefore ==
  ASSUME Sent
  PROVE  LET pattern == PuncturePattern[kind]
         IN \A r \in 0 .. (pattern.len - 1) :
              /\ Cardinality(pattern.out) = IF kind = "LSF" THEN 15 ELSE 1
              /\ Cardinality({o \in pattern.out : o < r}) = IF kind = "LSF" THEN (r + 1) \div 4 ELSE 0
<1>. DEFINE pattern == PuncturePattern[kind]
<1>. SUFFICES ASSUME NEW r \in 0 .. (pattern.len - 1)
              PROVE  /\ Cardinality(pattern.out) = IF kind = "LSF" THEN 15 ELSE 1
                     /\ Cardinality({o \in pattern.out : o < r}) = IF kind = "LSF" THEN (r + 1) \div 4 ELSE 0
  OBVIOUS
<1>1. CASE kind = "LSF"
  <2>1. pattern.out = {p \in 0..60 : p % 4 = 2} /\ pattern.len = 61
    BY <1>1 DEF PuncturePattern
  <2>2. pattern.out = {o \in {p \in 0..60 : p % 4 = 2} : o < 61}
    BY <2>1
  <2>. HIDE DEF pattern
  <2>3. r \in 0..61 /\ 61 \in 0..61 /\ (61 + 1) \div 4 = 15
    BY <2>1
  <2>4. Cardinality(pattern.out) = 15
    BY <2>2, <2>3, OutOfPattern
  <2>5. Cardinality({o \in pattern.out : o < r}) = (r + 1) \div 4
    BY <2>1, <2>3, OutOfPattern, ZenonT(60)
  <2>. QED  BY <1>1, <2>4, <2>5
<1>2. CASE kind # "LSF"
  <2>1. \E x : pattern.out = {x} /\ {o \in pattern.out : o < r} = {}
    <3>1. kind = "Stream" \/ kind = "Packet"
      BY <1>2 DEF Sent
    <3>2. pattern.out = {pattern.len - 1} /\ pattern.len \in {8, 12}
      BY <3>1 DEF PuncturePattern
    <3>. DEFINE last == pattern.len - 1
    <3>. HIDE DEF pattern
    <3>3. last \in Int /\ r \in 0..last /\ pattern.out = {last}
      BY <3>2
    <3>4. {o \in pattern.out : o < r} = {}
      BY <3>3
    <3>. HIDE DEF last
    <3>. QED  BY <3>3, <3>4
  <2>. HIDE DEF pattern
  <2>. QED  BY <1>2, <2>1, FS_EmptySet, FS_Singleton
<1>. QED  BY <1>1, <1>2

\* What is kept, and its rank, in numbers
LEMMA RankInNumbers ==
  ASSUME Sent, NEW p \in Nat
  PROVE  /\ kind = "LSF" => /\ Kept(p) <=> (p % 61) % 4 # 2
                           /\ Rank(p) = p - 15 * (p \div 61) - ((p % 61) + 1) \div 4
         /\ kind = "Stream" => /\ Kept(p) <=> p % 12 # 11
                              /\ Rank(p) = p - p \div 12
         /\ kind = "Packet" => /\ Kept(p) <=> p % 8 # 7
                              /\ Rank(p) = p - p \div 8
<1>. DEFINE pattern == PuncturePattern[kind]
            a == p \div pattern.len
            r == p % pattern.len
<1>1. pattern.len = (IF kind = "LSF" THEN 61 ELSE IF kind = "Stream" THEN 12 ELSE 8)
  BY DEF Sent, PuncturePattern
<1>2. r \in 0 .. (pattern.len - 1) /\ a \in Nat
  BY <1>1
<1>3. Rank(p) = p - a * (IF kind = "LSF" THEN 15 ELSE 1) - (IF kind = "LSF" THEN (r + 1) \div 4 ELSE 0)
  <2>1. Rank(p) = p - a * Cardinality(pattern.out) - Cardinality({o \in pattern.out : o < r})
    BY Zenon DEF Rank
  <2>. HIDE DEF a, r
  <2>2. /\ Cardinality(pattern.out) = IF kind = "LSF" THEN 15 ELSE 1
        /\ Cardinality({o \in pattern.out : o < r}) = IF kind = "LSF" THEN (r + 1) \div 4 ELSE 0
    BY <1>2, OutBefore
  <2>. QED  BY <2>1, <2>2, Zenon
<1>4. Kept(p) <=> r \notin pattern.out
  BY DEF Kept
<1>5. CASE kind = "LSF"
  <2>1. pattern.out = {q \in 0..60 : q % 4 = 2} /\ pattern.len = 61
    BY <1>5 DEF PuncturePattern
  <2>2. Kept(p) <=> (p % 61) % 4 # 2
    BY <1>2, <1>4, <2>1
  <2>3. Rank(p) = p - (p \div 61) * 15 - ((p % 61) + 1) \div 4
    BY <1>3, <1>5, <2>1, Zenon
  <2>. QED  BY <1>5, <2>2, <2>3
<1>6. CASE kind = "Stream"
  <2>1. pattern.out = {11} /\ pattern.len = 12
    BY <1>6 DEF PuncturePattern
  <2>2. Rank(p) = p - (p \div 12) * 1 - 0
    BY <1>3, <1>6, <2>1
  <2>. QED  BY <1>4, <1>6, <2>1, <2>2
<1>7. CASE kind = "Packet"
  <2>1. pattern.out = {7} /\ pattern.len = 8
    BY <1>7 DEF PuncturePattern
  <2>2. Rank(p) = p - (p \div 8) * 1 - 0
    BY <1>3, <1>7, <2>1
  <2>. QED  BY <1>4, <1>7, <2>1, <2>2
<1>. QED  BY <1>5, <1>6, <1>7

\* Ranks rise with the bits that are kept.
LEMMA RankRises ==
  ASSUME Sent, NEW p \in Nat, NEW q \in Nat, p < q, Kept(p)
  PROVE  Rank(p) < Rank(q)
<1>1. CASE kind = "LSF"
  <2>. DEFINE a == p \div 61  r == p % 61  b == q \div 61  s == q % 61
  <2>1. /\ a \in Nat /\ r \in 0..60 /\ p = 61 * a + r
        /\ b \in Nat /\ s \in 0..60 /\ q = 61 * b + s
    OBVIOUS
  <2>2. /\ r % 4 # 2
        /\ Rank(p) = p - 15 * a - (r + 1) \div 4
        /\ Rank(q) = q - 15 * b - (s + 1) \div 4
    BY <1>1, RankInNumbers
  <2>. HIDE DEF a, r, b, s
  <2>. QED  BY <2>1, <2>2
<1>2. CASE kind = "Stream"
  BY <1>2, RankInNumbers
<1>3. CASE kind = "Packet"
  BY <1>3, RankInNumbers
<1>. QED  BY <1>1, <1>2, <1>3 DEF Sent

\* The place of a bit is found where the search for it looks.
LEMMA RankRange ==
  ASSUME Sent, NEW p \in Nat
  PROVE  Rank(p) \in Nat /\ (Kept(p) => p \in Rank(p) .. 2 * Rank(p) + 1)
<1>1. CASE kind = "LSF"
  <2>. DEFINE a == p \div 61  r == p % 61
  <2>1. /\ a \in Nat /\ r \in 0..60 /\ p = 61 * a + r
    OBVIOUS
  <2>2. Rank(p) = p - 15 * a - (r + 1) \div 4
    BY <1>1, RankInNumbers
  <2>. HIDE DEF a, r
  <2>. QED  BY <2>1, <2>2
<1>2. CASE kind = "Stream"
  BY <1>2, RankInNumbers
<1>3. CASE kind = "Packet"
  BY <1>3, RankInNumbers
<1>. QED  BY <1>1, <1>2, <1>3 DEF Sent

\* What is sent at the rank of a bit that is kept is that bit.
LEMMA PlaceOfRank ==
  ASSUME Sent, NEW p \in Nat, Kept(p)
  PROVE  Place(Rank(p)) = p
<1>. DEFINE n == Rank(p)
            found(q) == q \in n .. 2 * n + 1 /\ Kept(q) /\ Rank(q) = n
<1>1. n \in Nat /\ found(p)
  BY RankRange
<1>. HIDE DEF n
<1>2. ASSUME NEW q, found(q) PROVE q = p
  <2>1. q \in Nat
    BY <1>1, <1>2
  <2>2. ~(p < q) /\ ~(q < p)
    <3>1. p < q => Rank(p) < Rank(q)
      BY <2>1, RankRises
    <3>2. q < p => Rank(q) < Rank(p)
      BY <1>2, <2>1, RankRises
    <3>. QED  BY <1>1, <1>2, <3>1, <3>2
  <2>. QED  BY <2>1, <2>2
<1>. QED  BY <1>1, <1>2, Zenon DEF Place, n

\* Every rank is that of a bit that is kept: no place on the air is left free.
LEMMA PlaceFound ==
  ASSUME Sent, NEW n \in Nat
  PROVE  Place(n) \in Nat /\ Kept(Place(n)) /\ Rank(Place(n)) = n
<1>1. \E p \in Nat : Kept(p) /\ Rank(p) = n
  <2>1. CASE kind = "LSF"
    <3>. DEFINE a == n \div 46  m == n % 46  r == m + (m + 1) \div 3  p == 61 * a + r
    <3>1. a \in Nat /\ m \in 0..45 /\ n = 46 * a + m
      OBVIOUS
    <3>. HIDE DEF a, m
    <3>2. r \in 0..60 /\ r % 4 # 2 /\ r - (r + 1) \div 4 = m
      BY <3>1
    <3>. HIDE DEF r
    <3>3. p \in Nat /\ p \div 61 = a /\ p % 61 = r
      BY <3>1, <3>2
    <3>. HIDE DEF p
    <3>4. Kept(p) /\ Rank(p) = p - 15 * a - (r + 1) \div 4
      BY <2>1, <3>2, <3>3, RankInNumbers
    <3>5. Rank(p) = n
      BY <3>1, <3>2, <3>4 DEF p
    <3>. QED  BY <3>3, <3>4, <3>5
  <2>2. CASE kind = "Stream"
    <3>. DEFINE p == n + n \div 11
    <3>1. p \in Nat /\ p % 12 # 11 /\ p - p \div 12 = n
      OBVIOUS
    <3>. HIDE DEF p
    <3>. QED  BY <2>2, <3>1, RankInNumbers
  <2>3. CASE kind = "Packet"
    <3>. DEFINE p == n + n \div 7
    <3>1. p \in Nat /\ p % 8 # 7 /\ p - p \div 8 = n
      OBVIOUS
    <3>. HIDE DEF p
    <3>. QED  BY <2>3, <3>1, RankInNumbers
  <2>. QED  BY <2>1, <2>2, <2>3 DEF Sent
<1>2. PICK p \in Nat : Kept(p) /\ Rank(p) = n
  BY <1>1
<1>. QED  BY <1>2, PlaceOfRank
-----------------------------------------------------------------------------
(* From the coder's bits over the air to soft bits *)

LEMMA EncodedIsBit ==
  ASSUME Sent, NEW j \in Nat
  PROVE  EncodedBit(j) \in {0, 1}
<1>. DEFINE n == j - LichBits[kind]
<1>1. CASE j < LichBits[kind]
  <2>1. EncodedBit(j) = EncodeLICH(lich, j)
    BY <1>1 DEF EncodedBit
  <2>. QED  BY <2>1 DEF EncodeLICH, Bit
<1>2. CASE ~(j < LichBits[kind])
  <2>1. LichBits[kind] \in Nat
    BY DEF Sent, LichBits
  <2>2. n \in Nat /\ EncodedBit(j) = ConvolutionalEncode(Place(n))
    BY <1>2, <2>1 DEF EncodedBit
  <2>. QED  BY <2>2, PlaceFound, CodeIsBit
<1>. QED  BY <1>1, <1>2

LEMMA RandomizedIsBit ==
  ASSUME Sent, NEW i \in Bits
  PROVE  RandomizedBit(i) \in {0, 1} /\ Flip(i) \in {0, 1}
<1>1. EncodedBit(interleaveSequence(i)) \in {0, 1}
  BY Involution, EncodedIsBit DEF Bits
<1>2. Flip(i) \in {0, 1}
  BY DEF Flip, Bit
<1>. QED  BY <1>1, <1>2 DEF RandomizedBit

\* A symbol carries its two bits.
LEMMA SymbolCarries ==
  ASSUME Sent, NEW i \in Bits
  PROVE  /\ i \div 2 \in Symbols /\ AppendBits[i \div 2] \in Alphabet
         /\ BitOf(AppendBits[i \div 2], i) = RandomizedBit(i)
<1>. DEFINE n == i \div 2  hi == RandomizedBit(2 * n)  lo == RandomizedBit(2 * n + 1)
<1>1. n \in Symbols /\ 2 * n \in Bits /\ 2 * n + 1 \in Bits /\ i = 2 * n + (i % 2) /\ i % 2 \in {0, 1}
  BY DEF Symbols, Bits, BitsPerPayload
<1>2. hi \in {0, 1} /\ lo \in {0, 1}
  BY <1>1, RandomizedIsBit
<1>3. AppendBits[n] = SymbolMap[2 * hi + lo + 1]
  BY <1>1 DEF AppendBits
<1>4. RandomizedBit(i) = IF i % 2 = 0 THEN hi ELSE lo
  <2>1. CASE i % 2 = 0
    <3>1. i = 2 * n
      BY <2>1 DEF Bits, BitsPerPayload
    <3>2. RandomizedBit(i) = hi
      BY <3>1
    <3>. QED  BY <2>1, <3>2
  <2>2. CASE i % 2 = 1
    <3>1. i = 2 * n + 1
      BY <1>1, <2>2
    <3>. QED  BY <2>2, <3>1
  <2>. QED  BY <1>1, <2>1, <2>2
<1>. HIDE DEF n, hi, lo
<1>5. AppendBits[n] \in Alphabet
      /\ HiBit(AppendBits[n]) = hi /\ LoBit(AppendBits[n]) = lo
  BY <1>2, <1>3 DEF SymbolMap, Alphabet, HiBit, LoBit, Bit
<1>. QED  BY <1>1, <1>4, <1>5 DEF BitOf, n

\* What a burst makes of a symbol
LEMMA StruckSymbol ==
  ASSUME NEW sym \in Alphabet, NEW how \in {"mirrored", "opposite", "lost"}, NEW i \in Int
  PROVE  /\ how = "lost" => Struck(sym, how) = 0
         /\ how # "lost" => /\ Struck(sym, how) \in Alphabet
                           /\ BitOf(Struck(sym, how), i) =
                                (BitOf(sym, i) + Bit(how = "opposite" \/ i % 2 = 0)) % 2
<1>1. CASE how = "lost"
  BY <1>1 DEF Struck
<1>2. CASE how = "mirrored"
  <2>1. Struck(sym, how) = -sym
    BY <1>2 DEF Struck
  <2>. QED  BY <1>2, <2>1 DEF Alphabet, BitOf, HiBit, LoBit, Bit
<1>3. CASE how = "opposite"
  <2>1. Struck(sym, how) = IF sym > 0 THEN sym - 4 ELSE sym + 4
    BY <1>3 DEF Struck
  <2>. QED  BY <1>3, <2>1 DEF Alphabet, BitOf, HiBit, LoBit, Bit
<1>. QED  BY <1>1, <1>2, <1>3

\* A symbol of the alphabet gives soft bits that are near its bits, a lost one any.
LEMMA SoftNearBit ==
  ASSUME NEW i \in Bits, frame[i \div 2] \in Alphabet
  PROVE  Near(calcSoftbits(i), BitOf(frame[i \div 2], i))
<1>. DEFINE sym == frame[i \div 2]
<1>1. sym = 1 \/ sym = 3 \/ sym = -1 \/ sym = -3
  BY DEF Alphabet
<1>2. i % 2 = 0 \/ i % 2 = 1
  BY DEF Bits
<1>. QED  BY <1>1, <1>2 DEF calcSoftbits, Near, BitOf, HiBit, LoBit, Bit, softTrue, softMaybe

LEMMA SoftOfLost ==
  ASSUME NEW i \in Bits, frame[i \div 2] = 0
  PROVE  calcSoftbits(i) \in 0..softTrue
<1>1. i % 2 = 0 \/ i % 2 = 1
  BY DEF Bits
<1>2. calcSoftbits(i) = IF i % 2 = 1 THEN 0 ELSE (2 * softMaybe - 0 * softTrue) \div 2
  BY DEF calcSoftbits
<1>. QED  BY <1>1, <1>2, SoftValues

\* Derandomizing flips a soft bit with its bit.
LEMMA FlippedSoftBit ==
  ASSUME NEW c \in 0..softTrue, NEW f \in {0, 1}, NEW b \in {0, 1}
  PROVE  LET v == IF f = 1 THEN softTrue - c ELSE c
         IN v \in 0..softTrue /\ (Near(c, b) => Near(v, IF f = 1 THEN 1 - b ELSE b))
BY SoftValues DEF Near

\* The symbols on the air under the burst
Aired == [n \in Symbols |-> IF n - burst.first \in 0 .. (burst.count - 1)
                            THEN Struck(AppendBits[n], burst.how) ELSE AppendBits[n]]

BurstOK == burst \in [first : Symbols, count : Nat, how : {"mirrored", "opposite", "lost"}]

\* v is what a receiver may hear for bit j: anything if it is lost, or the bit, be it inverted.
Heard(v, j) ==
  LET i == interleaveSequence(j)
  IN /\ v \in 0..softTrue
     /\ ~(Strikes(i) /\ burst.how = "lost") => Near(v, (EncodedBit(j) + Bit(Inverts(i))) % 2)

LEMMA DecodeHears ==
  ASSUME Sent, BurstOK, frame = Aired, NEW j \in Bits
  PROVE  Heard(DeinterleaveSoftBits[j], j)
<1>. DEFINE i == interleaveSequence(j)  sym == AppendBits[i \div 2]
<1>1. i \in Bits /\ interleaveSequence(i) = j
  BY Involution
<1>2. /\ i \div 2 \in Symbols /\ sym \in Alphabet
      /\ BitOf(sym, i) = (EncodedBit(j) + Flip(i)) % 2
  <2>1. RandomizedBit(i) = (EncodedBit(j) + Flip(i)) % 2
    BY <1>1, Zenon DEF RandomizedBit
  <2>. QED  BY <1>1, <2>1, SymbolCarries
<1>3. frame[i \div 2] = IF Strikes(i) THEN Struck(sym, burst.how) ELSE sym
  BY <1>2 DEF Aired, Strikes
<1>4. EncodedBit(j) \in {0, 1} /\ Flip(i) \in {0, 1}
  BY <1>1, EncodedIsBit, RandomizedIsBit DEF Bits
<1>5. DeinterleaveSoftBits[j] = IF Flip(i) = 1 THEN softTrue - calcSoftbits(i) ELSE calcSoftbits(i)
  BY DEF DeinterleaveSoftBits, DerandomizeSoftBits
<1>. DEFINE c == calcSoftbits(i)
<1>6. CASE Strikes(i) /\ burst.how = "lost"
  <2>1. frame[i \div 2] = 0
    BY <1>2, <1>3, <1>6 DEF Struck
  <2>2. c \in 0..softTrue
    BY <1>1, <2>1, SoftOfLost
  <2>. DEFINE v == DeinterleaveSoftBits[j]  f == Flip(i)
  <2>3. v = IF f = 1 THEN softTrue - c ELSE c
    BY <1>5
  <2>. HIDE DEF c, v, f
  <2>4. v \in 0..softTrue
    BY <1>4, <2>2, <2>3, FlippedSoftBit DEF f
  <2>. QED  BY <1>6, <2>4 DEF Heard, v
<1>7. CASE ~(Strikes(i) /\ burst.how = "lost")
  <2>. DEFINE b == BitOf(frame[i \div 2], i)  e == EncodedBit(j)  f == Flip(i)  x == Bit(Inverts(i))
  <2>1. frame[i \div 2] \in Alphabet /\ b = (e + f + x) % 2
    <3>1. CASE Strikes(i)
      <4>1. burst.how \in {"mirrored", "opposite", "lost"} /\ burst.how # "lost" /\ i \in Int
        BY <1>1, <1>7, <3>1 DEF BurstOK, Bits
      <4>2. Inverts(i) <=> burst.how = "opposite" \/ i % 2 = 0
        BY <3>1, <4>1 DEF Inverts
      <4>. DEFINE how == burst.how
      <4>. HIDE DEF i, sym, how
      <4>5. /\ Struck(sym, how) \in Alphabet
            /\ BitOf(Struck(sym, how), i) = (BitOf(sym, i) + Bit(how = "opposite" \/ i % 2 = 0)) % 2
        BY <1>2, <4>1, StruckSymbol DEF how
      <4>6. frame[i \div 2] = Struck(sym, how)
        BY <1>3, <3>1 DEF how
      <4>7. Bit(Inverts(i)) = Bit(how = "opposite" \/ i % 2 = 0)
        BY <4>2 DEF how, Bit
      <4>3. frame[i \div 2] \in Alphabet /\ b = (BitOf(sym, i) + x) % 2
        BY <4>5, <4>6, <4>7, Zenon
      <4>4. x \in {0, 1}
        BY DEF Bit
      <4>. HIDE DEF b, e, f, x
      <4>. QED  BY <1>2, <1>4, <4>3, <4>4 DEF e, f
    <3>2. CASE ~Strikes(i)
      <4>1. x = 0
        BY <3>2 DEF Inverts, Bit
      <4>2. frame[i \div 2] \in Alphabet /\ b = (e + f) % 2
        BY <1>2, <1>3, <3>2
      <4>. HIDE DEF b, e, f, x, i
      <4>. QED  BY <1>4, <4>1, <4>2 DEF e, f
    <3>. QED  BY <3>1, <3>2
  <2>2. Near(c, b)
    BY <1>1, <2>1, SoftNearBit
  <2>3. x \in {0, 1}
    BY DEF Bit
  <2>. DEFINE v == DeinterleaveSoftBits[j]
  <2>4. v = IF f = 1 THEN softTrue - c ELSE c
    BY <1>5
  <2>. HIDE DEF b, c, e, f, x, v
  <2>5. e \in {0, 1} /\ f \in {0, 1}
    BY <1>4 DEF e, f
  <2>6. b \in {0, 1} /\ (e + x) % 2 = IF f = 1 THEN 1 - b ELSE b
    BY <2>1, <2>3, <2>5
  <2>7. v \in 0..softTrue /\ Near(v, IF f = 1 THEN 1 - b ELSE b)
    <3>1. c \in 0..softTrue
      BY <2>2, SoftValues DEF Near
    <3>. QED  BY <2>2, <2>4, <2>5, <2>6, <3>1, FlippedSoftBit
  <2>. QED  BY <2>6, <2>7 DEF Heard, v, e, x
<1>. QED  BY <1>6, <1>7
-----------------------------------------------------------------------------
(* What is sent stays what it is while it is received. *)

PlaceIn(k, n) ==
  CHOOSE p \in n .. 2 * n + 1 :
    /\ p % PuncturePattern[k].len \notin PuncturePattern[k].out
    /\ LET pattern == PuncturePattern[k]
       IN p - (p \div pattern.len) * Cardinality(pattern.out)
            - Cardinality({o \in pattern.out : o < p % pattern.len}) = n

LEMMA SentStays ==
  ASSUME UNCHANGED <<kind, data, lich>>
  PROVE  /\ Sent' = Sent
         /\ \A p : Kept(p)' = Kept(p) /\ Rank(p)' = Rank(p) /\ ConvolutionalEncode(p)' = ConvolutionalEncode(p)
         /\ \A i : Input(i)' = Input(i)
         /\ \A j : EncodedBit(j)' = EncodedBit(j)
         /\ AppendBits' = AppendBits
<1>1. Sent' = Sent
  BY DEF Sent
<1>2. \A p : Kept(p)' = Kept(p) /\ Rank(p)' = Rank(p)
  BY DEF Kept, Rank
<1>3. \A i : Input(i)' = Input(i)
  BY DEF Input
<1>4. \A p : ConvolutionalEncode(p)' = ConvolutionalEncode(p)
  BY DEF ConvolutionalEncode
<1>5. \A n : Place(n)' = Place(n)
  <2>1. \A n : Place(n) = PlaceIn(kind, n)
    BY Zenon DEF Place, PlaceIn, Kept, Rank
  <2>2. \A n : Place(n)' = PlaceIn(kind', n)
    BY Zenon DEF Place, PlaceIn, Kept, Rank
  <2>. QED  BY <2>1, <2>2
<1>6. \A j : EncodedBit(j)' = EncodedBit(j)
  <2>. TAKE j
  <2>1. CASE j < LichBits[kind]
    BY <2>1 DEF EncodedBit
  <2>2. CASE ~(j < LichBits[kind])
    <3>1. EncodedBit(j) = ConvolutionalEncode(Place(j - LichBits[kind]))
      BY <2>2 DEF EncodedBit
    <3>2. EncodedBit(j)' = ConvolutionalEncode(Place(j - LichBits[kind]))'
      BY <2>2 DEF EncodedBit
    <3>. QED  BY <1>4, <1>5, <3>1, <3>2
  <2>. QED  BY <2>1, <2>2
<1>7. \A i : RandomizedBit(i)' = RandomizedBit(i)
  BY <1>6 DEF RandomizedBit
<1>8. AppendBits' = AppendBits
  BY <1>7 DEF AppendBits
<1>. QED  BY <1>1, <1>2, <1>3, <1>4, <1>6, <1>8
-----------------------------------------------------------------------------
(* What the bits cost along the path that was sent *)

\* The place on the air of bit p of the code, and its damage
CodeBit(p) == LichBits[kind] + Rank(p)
Hit(p) == Kept(p) /\ CodeBit(p) \in Damaged

LEMMA CodeBitInBits ==
  ASSUME Sent, NEW p \in 0 .. (2 * Positions - 1), Kept(p)
  PROVE  CodeBit(p) \in CodeBits /\ EncodedBit(CodeBit(p)) = ConvolutionalEncode(p)
<1>1. p \in Nat /\ Rank(p) \in Nat /\ LichBits[kind] \in Nat
  <2>1. p \in Nat /\ LichBits[kind] \in Nat
    BY DEF Sent, Positions, DataBits, LichBits
  <2>. QED  BY <2>1, RankRange
<1>2. CodeBit(p) \in 0..367
  <2>1. CASE kind = "LSF"
    <3>. DEFINE a == p \div 61  r == p % 61
    <3>1. a \in Nat /\ r \in 0..60 /\ p = 61 * a + r /\ p <= 487
      BY <1>1, <2>1 DEF Sent, Positions, DataBits
    <3>2. Rank(p) = p - 15 * a - (r + 1) \div 4 /\ CodeBit(p) = Rank(p)
      BY <1>1, <2>1, RankInNumbers DEF CodeBit, LichBits
    <3>. HIDE DEF a, r
    <3>. QED  BY <1>1, <3>1, <3>2
  <2>2. CASE kind = "Stream"
    <3>1. p <= 295
      BY <1>1, <2>2 DEF Sent, Positions, DataBits
    <3>2. Rank(p) = p - p \div 12 /\ CodeBit(p) = 96 + Rank(p)
      BY <1>1, <2>2, RankInNumbers DEF CodeBit, LichBits
    <3>. QED  BY <1>1, <3>1, <3>2
  <2>3. CASE kind = "Packet"
    <3>1. p <= 419
      BY <1>1, <2>3 DEF Sent, Positions, DataBits
    <3>2. Rank(p) = p - p \div 8 /\ CodeBit(p) = Rank(p)
      BY <1>1, <2>3, RankInNumbers DEF CodeBit, LichBits
    <3>. QED  BY <1>1, <3>1, <3>2
  <2>. QED  BY <2>1, <2>2, <2>3 DEF Sent
<1>3. CodeBit(p) \in CodeBits
  BY <1>1, <1>2 DEF CodeBits, CodeBit, Bits, BitsPerPayload
<1>4. EncodedBit(CodeBit(p)) = ConvolutionalEncode(Place(Rank(p)))
  <2>1. ~(CodeBit(p) < LichBits[kind]) /\ CodeBit(p) - LichBits[kind] = Rank(p)
    BY <1>1 DEF CodeBit
  <2>. QED  BY <2>1 DEF EncodedBit
<1>. QED  BY <1>1, <1>3, <1>4, PlaceOfRank

\* The frame the receiver has is one that may have been heard.
AllHeard == \A j \in Bits : Heard(frame[j], j)

\* What a coder's bit b costs where the soft bit is v
BitCost(b, v) == absDiff(IF b = 1 THEN softTrue ELSE 0, v)

LEMMA NearIsCheap ==
  ASSUME NEW b \in {0, 1}, NEW v \in 0..softTrue
  PROVE  /\ BitCost(b, v) \in 0..softTrue
         /\ Near(v, b) => BitCost(b, v) <= 1
         /\ v = softMaybe => BitCost(b, v) <= softMaybe + 1
BY SoftValues DEF BitCost, absDiff, Near

\* A bit that was punctured costs half, one that is damaged at most the whole, any
\* other next to nothing.
LEMMA CostOfBit ==
  ASSUME Sent, BurstOK, AllHeard, NEW p \in 0 .. (2 * Positions - 1)
  PROVE  LET v == Unpunctured(p)
             c == BitCost(ConvolutionalEncode(p), v)
         IN /\ v \in 0..softTrue /\ c \in 0..softTrue
            /\ c <= IF ~Kept(p) THEN softMaybe + 1 ELSE IF Hit(p) THEN softTrue ELSE 1
<1>. DEFINE v == Unpunctured(p)  b == ConvolutionalEncode(p)
<1>1. b \in {0, 1}
  BY CodeIsBit DEF Positions, Sent, DataBits
<1>2. CASE ~Kept(p)
  <2>1. v = softMaybe
    BY <1>2 DEF Unpunctured
  <2>. HIDE DEF v, b
  <2>2. v \in 0..softTrue
    BY <2>1, SoftValues
  <2>3. BitCost(b, v) \in 0..softTrue /\ BitCost(b, v) <= softMaybe + 1
    BY <1>1, <2>1, <2>2, NearIsCheap
  <2>. QED  BY <1>2, <2>2, <2>3 DEF v, b
<1>3. CASE Kept(p)
  <2>. DEFINE j == CodeBit(p)  i == interleaveSequence(j)
  <2>1. v = frame[j]
    BY <1>3 DEF Unpunctured, CodeBit
  <2>2. j \in CodeBits /\ j \in Bits /\ EncodedBit(j) = b
    BY <1>3, CodeBitInBits DEF CodeBits
  <2>3. Heard(v, j)
    BY <2>1, <2>2 DEF AllHeard
  <2>4. v \in 0..softTrue
    BY <2>3 DEF Heard
  <2>5. j \notin Damaged => Near(v, b)
    <3>. SUFFICES ASSUME j \notin Damaged PROVE Near(v, b)
      OBVIOUS
    <3>1. ~Inverts(i) /\ ~(Strikes(i) /\ burst.how = "lost")
      BY <2>2 DEF Damaged
    <3>2. Near(v, (b + Bit(Inverts(i))) % 2)
      BY <2>2, <2>3, <3>1 DEF Heard
    <3>3. Bit(Inverts(i)) = 0
      BY <3>1 DEF Bit
    <3>. HIDE DEF v, b, i, j
    <3>4. (b + Bit(Inverts(i))) % 2 = b
      BY <1>1, <3>3
    <3>. QED  BY <3>2, <3>4
  <2>6. Hit(p) <=> j \in Damaged
    BY <1>3 DEF Hit
  <2>. HIDE DEF v, b, j
  <2>7. BitCost(b, v) \in 0..softTrue /\ (j \notin Damaged => BitCost(b, v) <= 1)
    BY <1>1, <2>4, <2>5, NearIsCheap
  <2>8. BitCost(b, v) <= IF Hit(p) THEN softTrue ELSE 1
    BY <2>6, <2>7, SoftValues
  <2>. QED  BY <1>3, <2>4, <2>7, <2>8 DEF v, b
<1>. QED  BY <1>2, <1>3

\* The state the coder is in before position n: its four last bits
SentState(n) == Input(n + 3) + 2 * Input(n + 2) + 4 * Input(n + 1) + 8 * Input(n)

\* Of the two paths to the state the coder goes to, the one from the state it was in
\* costs what its two bits cost.
LEMMA SentPath ==
  ASSUME Sent, NEW n \in Nat, NEW sb0 \in 0..softTrue, NEW sb1 \in 0..softTrue,
         metrics \in [0..15 -> Nat]
  PROVE  LET old == SentState(n)
             new == SentState(n + 1)
             path == Paths(sb0, sb1)[new][Input(n) + 1]
         IN /\ old \in 0..15 /\ new \in 0..15
            /\ path = metrics[old] + BitCost(ConvolutionalEncode(2 * n), sb0)
                                   + BitCost(ConvolutionalEncode(2 * n + 1), sb1)
<1>. DEFINE a == Input(n + 4)  b == Input(n + 3)  c == Input(n + 2)  d == Input(n + 1)  e == Input(n)
            old == SentState(n)  new == SentState(n + 1)  i == b + 2 * c + 4 * d
            g0 == ConvolutionalEncode(2 * n)  g1 == ConvolutionalEncode(2 * n + 1)
            metric == absDiff(costTable0(i), sb0) + absDiff(costTable1(i), sb1)
            branch == IF a = 0 THEN metric ELSE 2 * softTrue - metric
<1>1. a \in {0, 1} /\ b \in {0, 1} /\ c \in {0, 1} /\ d \in {0, 1} /\ e \in {0, 1}
  BY InputIsBit
<1>2. old = i + 8 * e /\ new = a + 2 * i
  <2>1. n + 1 + 3 = n + 4 /\ n + 1 + 2 = n + 3 /\ n + 1 + 1 = n + 2
    OBVIOUS
  <2>2. SentState(n + 1) = Input(n + 4) + 2 * Input(n + 3) + 4 * Input(n + 2) + 8 * Input(n + 1)
    BY <2>1, Zenon DEF SentState
  <2>3. SentState(n) = Input(n + 3) + 2 * Input(n + 2) + 4 * Input(n + 1) + 8 * Input(n)
    BY DEF SentState
  <2>. HIDE DEF a, b, c, d, e, old, new
  <2>. QED  BY <1>1, <2>2, <2>3 DEF a, b, c, d, e, old, new
<1>3. g0 = (a + d + e) % 2 /\ g1 = (a + b + c + e) % 2
  BY CodeOfInput
<1>. HIDE DEF a, b, c, d, e, old, new, g0, g1
<1>4. i \in 0..7 /\ new \in 0..15 /\ old \in 0..15 /\ new \div 2 = i /\ new % 2 = a
  BY <1>1, <1>2
<1>5. costTable0(i) = (IF d = 1 THEN softTrue ELSE 0)
      /\ costTable1(i) = (IF b + c = 1 THEN softTrue ELSE 0)
  BY <1>1 DEF costTable0, costTable1
<1>. HIDE DEF i
<1>6. Paths(sb0, sb1)[new] = <<metrics[i] + branch, metrics[i + 8] + 2 * softTrue - branch>>
  BY <1>4 DEF Paths
<1>. HIDE DEF branch, metric
<1>7. Paths(sb0, sb1)[new][e + 1] = IF e = 0 THEN metrics[i] + branch ELSE metrics[i + 8] + 2 * softTrue - branch
  BY <1>1, <1>6
<1>8. (IF e = 0 THEN branch ELSE 2 * softTrue - branch) = BitCost(g0, sb0) + BitCost(g1, sb1)
  <2>1. metric = absDiff(IF d = 1 THEN softTrue ELSE 0, sb0) + absDiff(IF b + c = 1 THEN softTrue ELSE 0, sb1)
    BY <1>5, Zenon DEF metric
  <2>2. \A x \in 0..softTrue :
          absDiff(softTrue, x) = softTrue - x /\ absDiff(0, x) = x
    BY SoftValues DEF absDiff
  <2>3. metric = (IF d = 1 THEN softTrue - sb0 ELSE sb0) + (IF b + c = 1 THEN softTrue - sb1 ELSE sb1)
    BY <2>1, <2>2
  <2>4. BitCost(g0, sb0) = (IF g0 = 1 THEN softTrue - sb0 ELSE sb0)
        /\ BitCost(g1, sb1) = (IF g1 = 1 THEN softTrue - sb1 ELSE sb1)
    BY <2>2 DEF BitCost
  <2>5. g0 = (IF a = 0 THEN IF e = 0 THEN d ELSE 1 - d ELSE IF e = 0 THEN 1 - d ELSE d)
    BY <1>1, <1>3
  <2>6. (g1 = 1) <=> (IF a = e THEN b + c = 1 ELSE b + c # 1)
    BY <1>1, <1>3
  <2>7. sb0 \in Int /\ sb1 \in Int /\ softTrue \in Int
    BY SoftValues
  <2>. QED  BY <1>1, <2>3, <2>4, <2>5, <2>6, <2>7 DEF branch
<1>9. metrics[i] \in Int /\ metrics[i + 8] \in Int
  BY <1>4
<1>10. branch \in Int
  BY <1>1, SoftValues DEF branch, metric, absDiff, costTable0, costTable1
<1>11. Paths(sb0, sb1)[new][e + 1] = metrics[old] + BitCost(g0, sb0) + BitCost(g1, sb1)
  <2>1. CASE e = 0
    <3>1. old = i
      BY <1>2, <1>4, <2>1
    <3>2. BitCost(g0, sb0) \in Int /\ BitCost(g1, sb1) \in Int
      BY SoftValues DEF BitCost, absDiff
    <3>. QED  BY <1>7, <1>8, <1>9, <1>10, <2>1, <3>1, <3>2
  <2>2. CASE e = 1
    <3>1. old = i + 8
      BY <1>2, <1>4, <2>2
    <3>2. BitCost(g0, sb0) \in Int /\ BitCost(g1, sb1) \in Int /\ softTrue \in Int
      BY SoftValues DEF BitCost, absDiff
    <3>. QED  BY <1>7, <1>8, <1>9, <1>10, <2>2, <3>1, <3>2
  <2>. QED  BY <1>1, <2>1, <2>2
<1>. QED  BY <1>4, <1>11, Zenon DEF old, new, g0, g1, e

\* The rank goes up by one at a bit that is kept.
LEMMA RankStep ==
  ASSUME Sent, NEW p \in Nat
  PROVE  Rank(p + 1) = IF Kept(p) THEN Rank(p) + 1 ELSE Rank(p)
<1>1. CASE kind = "LSF"
  <2>. DEFINE a == p \div 61  r == p % 61
  <2>1. /\ a \in Nat /\ r \in 0..60
        /\ r < 60 => (p + 1) \div 61 = a /\ (p + 1) % 61 = r + 1
        /\ r = 60 => (p + 1) \div 61 = a + 1 /\ (p + 1) % 61 = 0
    OBVIOUS
  <2>2. /\ Kept(p) <=> r % 4 # 2
        /\ Rank(p) = p - 15 * a - (r + 1) \div 4
        /\ Rank(p + 1) = (p + 1) - 15 * ((p + 1) \div 61) - (((p + 1) % 61) + 1) \div 4
    BY <1>1, RankInNumbers
  <2>. HIDE DEF a, r
  <2>3. CASE r < 60
    <3>1. Rank(p + 1) = p + 1 - 15 * a - (r + 2) \div 4
      BY <2>1, <2>2, <2>3
    <3>2. (r + 2) \div 4 = IF r % 4 = 2 THEN (r + 1) \div 4 + 1 ELSE (r + 1) \div 4
      BY <2>1
    <3>. QED  BY <2>1, <2>2, <3>1, <3>2
  <2>4. CASE r = 60
    <3>1. Rank(p + 1) = p + 1 - 15 * (a + 1) /\ Rank(p) = p - 15 * a - 15 /\ Kept(p)
      BY <2>1, <2>2, <2>4
    <3>. QED  BY <2>1, <3>1
  <2>. QED  BY <2>1, <2>3, <2>4
<1>2. CASE kind = "Stream"
  <2>1. /\ Kept(p) <=> p % 12 # 11
        /\ Rank(p) = p - p \div 12 /\ Rank(p + 1) = p + 1 - (p + 1) \div 12
    BY <1>2, RankInNumbers
  <2>. QED  BY <2>1
<1>3. CASE kind = "Packet"
  <2>1. /\ Kept(p) <=> p % 8 # 7
        /\ Rank(p) = p - p \div 8 /\ Rank(p + 1) = p + 1 - (p + 1) \div 8
    BY <1>3, RankInNumbers
  <2>. QED  BY <2>1
<1>. QED  BY <1>1, <1>2, <1>3 DEF Sent

Hits(m) == {p \in 0 .. (m - 1) : Hit(p)}

LEMMA HitsStep ==
  ASSUME NEW m \in Nat
  PROVE  /\ IsFiniteSet(Hits(m)) /\ Cardinality(Hits(m)) \in Nat
         /\ Cardinality(Hits(m + 1)) = Cardinality(Hits(m)) + Bit(Hit(m))
<1>1. IsFiniteSet(Hits(m))
  <2>1. IsFiniteSet(0 .. (m - 1)) /\ Hits(m) \in SUBSET (0 .. (m - 1))
    BY FS_Interval DEF Hits
  <2>. QED  BY <2>1, FS_Subset
<1>2. Cardinality(Hits(m)) \in Nat
  BY <1>1, FS_CardinalityType
<1>3. CASE Hit(m)
  <2>1. Hits(m + 1) = Hits(m) \cup {m} /\ m \notin Hits(m)
    BY <1>3 DEF Hits
  <2>2. Cardinality(Hits(m + 1)) = Cardinality(Hits(m)) + 1
    BY <1>1, <2>1, FS_AddElement
  <2>. QED  BY <1>1, <1>2, <1>3, <2>2 DEF Bit
<1>4. CASE ~Hit(m)
  <2>1. Hits(m + 1) = Hits(m)
    BY <1>4 DEF Hits
  <2>. QED  BY <1>1, <1>2, <1>4, <2>1 DEF Bit
<1>. QED  BY <1>3, <1>4

\* What the first m bits of the code may have cost along the path that was sent
PathBound(m) == softTrue * Cardinality(Hits(m)) + (softMaybe + 1) * (m - Rank(m)) + m

LEMMA PathBoundStep ==
  ASSUME Sent, NEW m \in Nat
  PROVE  /\ PathBound(m) \in Int
         /\ PathBound(m + 1) >= PathBound(m) + (IF ~Kept(m) THEN softMaybe + 1 ELSE IF Hit(m) THEN softTrue ELSE 1)
<1>. DEFINE h == Cardinality(Hits(m))  h1 == Cardinality(Hits(m + 1))  r == Rank(m)  r1 == Rank(m + 1)
<1>1. h \in Nat /\ h1 = h + Bit(Hit(m))
  BY HitsStep
<1>2. r \in Nat /\ r1 = IF Kept(m) THEN r + 1 ELSE r
  BY RankRange, RankStep
<1>3. Hit(m) => Kept(m)
  BY DEF Hit
<1>. DEFINE t == softTrue  y == softMaybe + 1
<1>4. t \in Nat /\ y \in Nat
  BY SoftValues
<1>5. PathBound(m) = t * h + y * (m - r) + m /\ PathBound(m + 1) = t * h1 + y * ((m + 1) - r1) + (m + 1)
  <2>1. PathBound(m) = t * h + y * (m - r) + m
    BY DEF PathBound
  <2>2. PathBound(m + 1) = t * h1 + y * ((m + 1) - r1) + (m + 1)
    BY DEF PathBound
  <2>. QED  BY <2>1, <2>2
<1>. HIDE DEF h, h1, r, r1, t, y
<1>. DEFINE w == t * h  z == y * (m - r)
<1>6. w \in Int /\ z \in Int
  BY <1>1, <1>2, <1>4
<1>7. CASE Kept(m)
  <2>1. y * ((m + 1) - r1) = z
    <3>1. (m + 1) - r1 = m - r
      BY <1>2, <1>7
    <3>. QED  BY <3>1
  <2>2. t * h1 = IF Hit(m) THEN w + t ELSE w
    <3>1. CASE Hit(m)
      <4>1. h1 = h + 1
        BY <1>1, <3>1 DEF Bit
      <4>2. t * (h + 1) = t * h + t
        BY <1>1, <1>4
      <4>. QED  BY <3>1, <4>1, <4>2
    <3>2. CASE ~Hit(m)
      <4>1. h1 = h
        BY <1>1, <3>2 DEF Bit
      <4>. QED  BY <3>2, <4>1
    <3>. QED  BY <3>1, <3>2
  <2>. HIDE DEF w, z
  <2>. QED  BY <1>4, <1>5, <1>6, <1>7, <2>1, <2>2 DEF w, z, t
<1>8. CASE ~Kept(m)
  <2>1. y * ((m + 1) - r1) = z + y
    <3>1. (m + 1) - r1 = (m - r) + 1 /\ m - r \in Int
      BY <1>2, <1>8
    <3>2. \A k \in Int : y * (k + 1) = y * k + y
      BY <1>4
    <3>. QED  BY <3>1, <3>2
  <2>2. t * h1 = w
    <3>1. h1 = h
      BY <1>1, <1>3, <1>8 DEF Bit
    <3>. QED  BY <3>1
  <2>. HIDE DEF w, z
  <2>3. PathBound(m) = w + z + m /\ PathBound(m + 1) = w + (z + y) + (m + 1)
    BY <1>5, <2>1, <2>2 DEF w, z
  <2>. QED  BY <1>4, <1>6, <1>8, <2>3 DEF y
<1>. QED  BY <1>7, <1>8

LEMMA SentSizes ==
  ASSUME Sent
  PROVE  /\ Positions \in Nat /\ Positions <= 244
         /\ Positions = (IF kind = "LSF" THEN 244 ELSE IF kind = "Stream" THEN 148 ELSE 210)
BY DEF Sent, Positions, DataBits

\* A position adds at most two whole bits to any path.
LEMMA PathsGrow ==
  ASSUME NEW sb0 \in 0..softTrue, NEW sb1 \in 0..softTrue, NEW s \in 0..15, NEW k \in {1, 2},
         metrics \in [0..15 -> Nat], NEW max \in Nat, \A q \in 0..15 : metrics[q] <= max
  PROVE  Paths(sb0, sb1)[s][k] \in Nat /\ Paths(sb0, sb1)[s][k] <= max + 2 * softTrue
<1>. DEFINE i == s \div 2
            metric == absDiff(costTable0(i), sb0) + absDiff(costTable1(i), sb1)
            branch == IF s % 2 = 0 THEN metric ELSE 2 * softTrue - metric
<1>1. i \in 0..15 /\ i + 8 \in 0..15
  OBVIOUS
<1>. HIDE DEF i
<1>2. metric \in 0 .. (2 * softTrue)
  <2>1. /\ costTable0(i) = 0 \/ costTable0(i) = softTrue
        /\ costTable1(i) = 0 \/ costTable1(i) = softTrue
    BY DEF costTable0, costTable1
  <2>2. \A c \in {0, softTrue}, v \in 0..softTrue : absDiff(c, v) \in 0..softTrue
    BY SoftValues DEF absDiff
  <2>3. absDiff(costTable0(i), sb0) \in 0..softTrue /\ absDiff(costTable1(i), sb1) \in 0..softTrue
    BY <2>1, <2>2
  <2>. QED  BY <2>3, SoftValues
<1>3. Paths(sb0, sb1)[s] = <<metrics[i] + branch, metrics[i + 8] + 2 * softTrue - branch>>
  BY DEF Paths, i
<1>. HIDE DEF metric
<1>4. branch \in 0 .. (2 * softTrue)
  BY <1>2, SoftValues
<1>. HIDE DEF branch
<1>5. /\ metrics[i] \in Nat /\ metrics[i] <= max
      /\ metrics[i + 8] \in Nat /\ metrics[i + 8] <= max
  BY <1>1
<1>6. softTrue \in Nat
  BY SoftValues
<1>7. CASE k = 1
  BY <1>3, <1>4, <1>5, <1>6, <1>7
<1>8. CASE k = 2
  <2>1. Paths(sb0, sb1)[s][k] = metrics[i + 8] + 2 * softTrue - branch
    BY <1>3, <1>8
  <2>. QED  BY <1>4, <1>5, <1>6, <2>1
<1>. QED  BY <1>7, <1>8

LEMMA MetricsStep ==
  ASSUME Sent, BurstOK, AllHeard, decodeBit, Len(history) \in Nat, history \in Seq(SUBSET (0..15)),
         metrics \in [0..15 -> Nat],
         NEW max \in Nat, \A s \in 0..15 : metrics[s] <= max,
         metrics[SentState(Len(history))] <= PathBound(2 * Len(history))
  PROVE  /\ history' \in Seq(SUBSET (0..15)) /\ Len(history') = Len(history) + 1
         /\ metrics' \in [0..15 -> Nat]
         /\ \A s \in 0..15 : metrics'[s] <= max + 2 * softTrue
         /\ metrics'[SentState(Len(history) + 1)] <= PathBound(2 * Len(history) + 2)
<1>. DEFINE n == Len(history)
            p == 2 * n
            sb0 == Unpunctured(p)
            sb1 == Unpunctured(p + 1)
            paths == Paths(sb0, sb1)
<1>1. n \in Nat /\ n < Positions /\ Positions \in Nat
  <2>1. n < Positions
    BY DEF decodeBit
  <2>2. Positions \in Nat
    BY SentSizes
  <2>. QED  BY <2>1, <2>2
<1>2. /\ metrics' = [s \in 0..15 |-> IF paths[s][1] >= paths[s][2] THEN paths[s][2] ELSE paths[s][1]]
      /\ history' = Append(history, {s \in 0..15 : paths[s][1] >= paths[s][2]})
  BY DEF decodeBit
<1>3. p \in 0 .. (2 * Positions - 1) /\ p + 1 \in 0 .. (2 * Positions - 1) /\ p \in Nat
  <2>. DEFINE m == Positions
  <2>. HIDE DEF n, m
  <2>. QED  BY <1>1 DEF m
<1>. DEFINE c0 == BitCost(ConvolutionalEncode(p), sb0)
            c1 == BitCost(ConvolutionalEncode(p + 1), sb1)
            d(q) == IF ~Kept(q) THEN softMaybe + 1 ELSE IF Hit(q) THEN softTrue ELSE 1
<1>4. /\ sb0 \in 0..softTrue /\ c0 \in 0..softTrue /\ c0 <= d(p)
      /\ sb1 \in 0..softTrue /\ c1 \in 0..softTrue /\ c1 <= d(p + 1)
  <2>. HIDE DEF p
  <2>. QED  BY <1>3, CostOfBit
<1>5. \A s \in 0..15 : /\ paths[s][1] \in Nat /\ paths[s][1] <= max + 2 * softTrue
                       /\ paths[s][2] \in Nat /\ paths[s][2] <= max + 2 * softTrue
  <2>. HIDE DEF sb0, sb1
  <2>. QED  BY <1>4, PathsGrow
<1>. DEFINE old == SentState(n)  new == SentState(n + 1)
<1>6. new \in 0..15 /\ old \in 0..15 /\ Input(n) + 1 \in {1, 2}
      /\ paths[new][Input(n) + 1] = metrics[old] + c0 + c1
  <2>1. Input(n) + 1 \in {1, 2}
    <3>1. Input(n) \in {0, 1}
      BY <1>1, InputIsBit
    <3>. DEFINE u == Input(n)
    <3>. HIDE DEF u
    <3>2. u \in {0, 1} => u + 1 \in {1, 2}
      OBVIOUS
    <3>. QED  BY <3>1, <3>2 DEF u
  <2>2. new \in 0..15 /\ old \in 0..15
        /\ paths[new][Input(n) + 1] = metrics[old] + c0 + c1
    <3>. HIDE DEF sb0, sb1, n
    <3>. QED  BY <1>1, <1>4, SentPath DEF c0, c1
  <2>. QED  BY <2>1, <2>2
<1>. HIDE DEF paths
<1>7. metrics' \in [0..15 -> Nat] /\ \A s \in 0..15 : metrics'[s] <= max + 2 * softTrue
  BY <1>2, <1>5
<1>8. metrics'[new] <= metrics[old] + c0 + c1
  <2>. HIDE DEF old, new
  <2>. DEFINE x == paths[new][1]  y == paths[new][2]  z == metrics'[new]
  <2>0. x \in Nat /\ y \in Nat /\ z = IF x >= y THEN y ELSE x
    BY <1>2, <1>5, <1>6
  <2>1. z <= x /\ z <= y
    <3>. HIDE DEF x, y, z
    <3>. QED  BY <2>0
  <2>2. paths[new][Input(n) + 1] = x \/ paths[new][Input(n) + 1] = y
    BY <1>6
  <2>3. z <= paths[new][Input(n) + 1]
    BY <2>1, <2>2
  <2>. QED  BY <1>6, <2>3
<1>9. PathBound(p + 2) >= PathBound(p) + d(p) + d(p + 1) /\ PathBound(p + 2) \in Int /\ PathBound(p) \in Int
  <2>. HIDE DEF p, d
  <2>1. PathBound(p) \in Int /\ PathBound(p + 1) >= PathBound(p) + d(p)
    BY <1>3, PathBoundStep DEF d
  <2>. DEFINE q == p + 1
  <2>2. q \in Nat /\ q + 1 = p + 2 /\ q + 1 \in Nat
    BY <1>3
  <2>. HIDE DEF q
  <2>3. PathBound(q) \in Int /\ PathBound(q + 1) >= PathBound(q) + d(q) /\ PathBound(q + 1) \in Int
    BY <2>2, PathBoundStep DEF d
  <2>4. d(p) \in Int /\ d(q) \in Int
    BY SoftValues DEF d
  <2>. DEFINE b0 == PathBound(p)  b1 == PathBound(q)  b2 == PathBound(q + 1)  d0 == d(p)  d1 == d(q)
  <2>5. b1 >= b0 + d0 /\ b2 >= b1 + d1 /\ b0 \in Int /\ b1 \in Int /\ b2 \in Int /\ d0 \in Int /\ d1 \in Int
    BY <2>1, <2>3, <2>4 DEF q
  <2>. HIDE DEF b0, b1, b2, d0, d1
  <2>6. b2 >= b0 + d0 + d1
    BY <2>5
  <2>. QED  BY <2>2, <2>5, <2>6 DEF b0, b1, b2, d0, d1, q
<1>10. metrics[old] \in Nat /\ metrics'[new] \in Nat /\ c0 \in Int /\ c1 \in Int
  <2>1. metrics[old] \in Nat /\ metrics'[new] \in Nat
    <3>. HIDE DEF old, new
    <3>. QED  BY <1>6, <1>7
  <2>. HIDE DEF c0, c1
  <2>. QED  BY <1>4, <2>1, SoftValues
<1>11. metrics[old] <= PathBound(p)
  BY Zenon
<1>12. d(p) \in Int /\ d(p + 1) \in Int
  BY SoftValues
<1>13. metrics'[new] <= PathBound(p + 2)
  <2>. DEFINE b0 == PathBound(p)  b2 == PathBound(p + 2)  d0 == d(p)  d1 == d(p + 1)  u == metrics[old]  v == metrics'[new]
  <2>1. v <= u + c0 + c1 /\ u <= b0 /\ b2 >= b0 + d0 + d1 /\ c0 <= d0 /\ c1 <= d1
    BY <1>4, <1>8, <1>9, <1>11, Zenon
  <2>2. v \in Int /\ u \in Int /\ c0 \in Int /\ c1 \in Int /\ b0 \in Int /\ b2 \in Int /\ d0 \in Int /\ d1 \in Int
    <3>1. \A k \in Nat : k \in Int
      OBVIOUS
    <3>. QED  BY <1>9, <1>10, <1>12, <3>1, Zenon
  <2>. HIDE DEF b0, b2, d0, d1, u, v, c0, c1
  <2>3. v <= b2
    BY <2>1, <2>2
  <2>. QED  BY <2>3, Zenon DEF v, b2
<1>. HIDE DEF n, p, sb0, sb1, c0, c1, old, new, d
<1>14. history' \in Seq(SUBSET (0..15)) /\ Len(history') = n + 1
  <2>. DEFINE bits == {s \in 0..15 : paths[s][1] >= paths[s][2]}
  <2>1. bits \in SUBSET (0..15)
    OBVIOUS
  <2>. HIDE DEF bits
  <2>. QED  BY <1>2, <2>1 DEF n, bits
<1>. QED  BY <1>7, <1>13, <1>14 DEF n, p, new
-----------------------------------------------------------------------------
(* The invariant *)

Received ==
  /\ step \in {"air", "decode", "chainback", "done"}
  /\ step = "air" => frame = Aired /\ history = <<>> /\ metrics = Metrics0
  /\ step # "air" => AllHeard
  /\ step \in {"chainback", "done"} => Len(history) = Positions

\* No metric is above two whole bits for every position, which a uint32 holds
\* (codec.go:373): the decoder never wraps one.
MetricsFit ==
  /\ history \in Seq(SUBSET (0..15)) /\ Len(history) <= Positions
  /\ metrics \in [0..15 -> Nat]
  /\ \A s \in 0..15 : metrics[s] <= 2 * softTrue * Len(history)

\* The path that was sent has cost what its bits cost, at most.
SentPathCheap == step # "air" => metrics[SentState(Len(history))] <= PathBound(2 * Len(history))

\* chainback goes back over the positions there are, through states there are, and
\* comes out with as many bits as were sent.
ChainbackInRange ==
  /\ state \in 0..15 /\ gotData \in Seq({0, 1}) /\ Len(gotData) <= Len(data)
  /\ step = "done" => Len(gotData) = Len(data)
  /\ step = "chainback" => Positions - Len(gotData) \in DOMAIN history

FrameInv ==
  /\ Sent /\ BurstOK /\ Received /\ MetricsFit /\ SentPathCheap /\ ChainbackInRange
  /\ step = "done" => errors = cost - CostOfPuncturing[kind]

LEMMA BitsAreSequences ==
  ASSUME NEW n \in Nat, NEW s \in [1..n -> {0, 1}]
  PROVE  s \in Seq({0, 1}) /\ Len(s) = n
OBVIOUS

LEMMA JoinedBits ==
  \A s, t \in Seq({0, 1}) : s \o t \in Seq({0, 1}) /\ Len(s \o t) = Len(s) + Len(t)
BY ConcatProperties, Zenon

\* What the frames are made from
LEMMA SetupData == \A l \in LSDs : l \in Seq({0, 1}) /\ Len(l) = 224
<1>1. LSDs \subseteq [1..224 -> {0, 1}]
  BY FrameAssumption, Zenon
<1>. QED  BY <1>1, BitsAreSequences, ZenonT(60)

LEMMA PayloadData == \A p \in Payloads : p \in Seq({0, 1}) /\ Len(p) = 128
<1>1. Payloads \subseteq [1..128 -> {0, 1}]
  BY FrameAssumption, Zenon
<1>. QED  BY <1>1, BitsAreSequences, Zenon

LEMMA ChunkData == \A c \in Chunks : c \in Seq({0, 1}) /\ Len(c) = 206
<1>1. Chunks \subseteq [1..206 -> {0, 1}]
  BY FrameAssumption, Zenon
<1>. QED  BY <1>1, BitsAreSequences, ZenonT(60)

LEMMA NumberData == \A fn \in FrameNumbers : fn \in Nat
<1>1. FrameNumbers \subseteq 0 .. (2^16 - 1)
  BY FrameAssumption, Zenon
<1>2. \A x \in 0 .. (2^16 - 1) : x \in Nat
  OBVIOUS
<1>. QED  BY <1>1, <1>2, Zenon

LEMMA BurstData == \A b \in Bursts : b \in [first : Symbols, count : Nat, how : {"mirrored", "opposite", "lost"}]
<1>1. Bursts \subseteq [first : Symbols, count : Nat, how : {"mirrored", "opposite", "lost"}]
  BY FrameAssumption, Zenon
<1>. QED  BY <1>1, Zenon

\* NewLSFFromLSD and the number of a frame, in bits
LEMMA SetupWithCRC == \A l \in LSDs : WithCRC(l) \in Seq({0, 1}) /\ Len(WithCRC(l)) = 240
<1>. SUFFICES ASSUME NEW l \in LSDs PROVE WithCRC(l) \in Seq({0, 1}) /\ Len(WithCRC(l)) = 240
  OBVIOUS
<1>. DEFINE tail == [i \in 1..16 |-> Bit(16 - i \in CRC(l))]
<1>1. tail \in [1..16 -> {0, 1}]
  BY DEF Bit
<1>2. WithCRC(l) = l \o tail
  BY Zenon DEF WithCRC
<1>. HIDE DEF tail
<1>3. tail \in Seq({0, 1}) /\ Len(tail) = 16
  BY <1>1, BitsAreSequences
<1>4. l \in Seq({0, 1}) /\ Len(l) = 224
  BY SetupData
<1>5. WithCRC(l) \in Seq({0, 1}) /\ Len(WithCRC(l)) = Len(l) + Len(tail)
  <2>1. l \in Seq({0, 1}) /\ tail \in Seq({0, 1})
    BY <1>3, <1>4
  <2>. QED  BY <1>2, <2>1, JoinedBits, Zenon
<1>. QED  BY <1>3, <1>4, <1>5

LEMMA Numbers == \A n, w \in Nat : Number(n, w) \in Seq({0, 1}) /\ Len(Number(n, w)) = w
<1>1. \A n, w \in Nat : Number(n, w) \in [1..w -> {0, 1}]
  BY DEF Number, Bit
<1>. QED  BY <1>1, BitsAreSequences, Zenon

LEMMA InitSent == Init => Sent
<1>. SUFFICES ASSUME Init PROVE Sent
  OBVIOUS
<1>2. CASE kind = "LSF" /\ data \in {WithCRC(l) : l \in LSDs}
  <2>1. PICK l \in LSDs : data = WithCRC(l)
    BY <1>2
  <2>2. data \in Seq({0, 1}) /\ Len(data) = 240
    BY <2>1, SetupWithCRC
  <2>. QED  BY <1>2, <2>2 DEF Sent, DataBits
<1>3. CASE kind = "Stream" /\ \E fn \in FrameNumbers, p \in Payloads : data = Number(fn, 16) \o p
  <2>1. PICK fn \in FrameNumbers, p \in Payloads : data = Number(fn, 16) \o p
    BY <1>3
  <2>2. fn \in Nat /\ p \in Seq({0, 1}) /\ Len(p) = 128
    BY NumberData, PayloadData
  <2>. DEFINE head == Number(fn, 16)
  <2>3. head \in Seq({0, 1}) /\ Len(head) = 16
    <3>. DEFINE width == 16
    <3>1. width \in Nat
      OBVIOUS
    <3>. HIDE DEF width
    <3>2. Number(fn, width) \in Seq({0, 1}) /\ Len(Number(fn, width)) = width
      BY <2>2, <3>1, Numbers
    <3>. QED  BY <3>2 DEF width
  <2>4. data = head \o p
    BY <2>1, Zenon
  <2>. HIDE DEF head
  <2>5. data \in Seq({0, 1}) /\ Len(data) = Len(head) + Len(p)
    <3>1. head \in Seq({0, 1}) /\ p \in Seq({0, 1})
      BY <2>2, <2>3
    <3>. QED  BY <2>4, <3>1, JoinedBits, Zenon
  <2>6. Len(data) = 144
    BY <2>2, <2>3, <2>5
  <2>. QED  BY <1>3, <2>5, <2>6 DEF Sent, DataBits
<1>4. CASE kind = "Packet" /\ data \in Chunks
  <2>1. data \in Seq({0, 1}) /\ Len(data) = 206
    BY <1>4, ChunkData
  <2>. QED  BY <1>4, <2>1 DEF Sent, DataBits
<1>5. \/ kind = "LSF" /\ data \in {WithCRC(l) : l \in LSDs}
      \/ kind = "Stream" /\ \E fn \in FrameNumbers, p \in Payloads : data = Number(fn, 16) \o p
      \/ kind = "Packet" /\ data \in Chunks
  BY DEF Init
<1>. QED  BY <1>2, <1>3, <1>4, <1>5

LEMMA NoBurstYet == burst = NoBurst => Aired = AppendBits /\ BurstOK
<1>. SUFFICES ASSUME burst = NoBurst PROVE Aired = AppendBits /\ BurstOK
  OBVIOUS
<1>1. burst.first = 0 /\ burst.count = 0 /\ burst.how = "lost"
  BY DEF NoBurst
<1>2. \A n \in Symbols : ~(n - burst.first \in 0 .. (burst.count - 1))
  BY <1>1 DEF Symbols
<1>3. Aired = [n \in Symbols |-> AppendBits[n]]
  BY <1>2 DEF Aired
<1>4. AppendBits = [n \in Symbols |-> AppendBits[n]]
  BY DEF AppendBits
<1>5. BurstOK
  BY DEF BurstOK, NoBurst, Symbols
<1>. QED  BY <1>3, <1>4, <1>5

\* Before the first position the coder is in state 0, and nothing has been paid.
LEMMA AtTheStart == ASSUME Sent PROVE SentState(0) = 0 /\ PathBound(0) = 0
<1>1. Input(0) = 0 /\ Input(0 + 1) = 0 /\ Input(0 + 2) = 0 /\ Input(0 + 3) = 0
  BY DEF Input, Sent, DataBits
<1>2. SentState(0) = 0
  BY <1>1 DEF SentState
<1>3. Hits(0) = {}
  BY DEF Hits
<1>4. Rank(0) = 0
  BY RankInNumbers DEF Sent
<1>5. Cardinality(Hits(0)) = 0
  BY <1>3, FS_EmptySet
<1>6. PathBound(0) = softTrue * 0 + (softMaybe + 1) * (0 - 0) + 0
  BY <1>4, <1>5, Zenon DEF PathBound
<1>. QED  BY <1>2, <1>6, SoftValues

LEMMA InitFrame == Init => FrameInv
<1>. SUFFICES ASSUME Init PROVE FrameInv
  OBVIOUS
<1>. USE DEF Init
<1>1. Sent
  BY InitSent
<1>2. BurstOK /\ Aired = AppendBits
  BY NoBurstYet
<1>3. Received
  BY <1>2 DEF Received
<1>4. Positions \in Nat
  BY <1>1, SentSizes
<1>5. MetricsFit
  BY <1>4, SoftValues DEF MetricsFit, Metrics0
<1>6. SentPathCheap
  BY DEF SentPathCheap
<1>7. ChainbackInRange
  <2>1. Len(data) \in Nat
    BY <1>1 DEF Sent, DataBits
  <2>. QED  BY <2>1 DEF ChainbackInRange
<1>. QED  BY <1>1, <1>2, <1>3, <1>5, <1>6, <1>7 DEF FrameInv

\* What depends on the frame and the burst only
LEMMA HeardStays ==
  ASSUME UNCHANGED <<kind, data, lich, burst, frame>>
  PROVE  /\ AllHeard' = AllHeard
         /\ BurstOK' = BurstOK
         /\ \A n : SentState(n)' = SentState(n)
         /\ \A m : PathBound(m)' = PathBound(m)
<1>1. \A j : EncodedBit(j)' = EncodedBit(j)
  BY SentStays
<1>2. \A i : Strikes(i)' = Strikes(i)
  BY DEF Strikes
<1>3. \A i : Inverts(i)' = Inverts(i)
  BY <1>2 DEF Inverts
<1>4. \A v, j : Heard(v, j)' = Heard(v, j)
  BY <1>1, <1>2, <1>3 DEF Heard
<1>5. AllHeard' = AllHeard
  BY <1>4 DEF AllHeard
<1>6. \A n : SentState(n)' = SentState(n)
  BY SentStays DEF SentState
<1>7. \A p : Hit(p)' = Hit(p)
  <2>1. CodeBits' = CodeBits
    BY DEF CodeBits
  <2>2. Damaged' = Damaged
    BY <1>2, <1>3, <2>1 DEF Damaged
  <2>3. \A p : CodeBit(p)' = CodeBit(p) /\ Kept(p)' = Kept(p)
    BY SentStays DEF CodeBit
  <2>. QED  BY <2>2, <2>3 DEF Hit
<1>8. \A m : Hits(m)' = Hits(m)
  BY <1>7 DEF Hits
<1>9. \A m : PathBound(m)' = PathBound(m)
  BY <1>8, SentStays DEF PathBound
<1>10. BurstOK' = BurstOK
  BY DEF BurstOK
<1>. QED  BY <1>5, <1>6, <1>9, <1>10

LEMMA StrikeFrame ==
  ASSUME FrameInv, Strike
  PROVE  FrameInv'
<1>1. PICK b \in Bursts :
        /\ step = "air" /\ burst = NoBurst /\ burst' = b
        /\ frame' = [n \in Symbols |-> IF n - b.first \in 0 .. (b.count - 1) THEN Struck(frame[n], b.how) ELSE frame[n]]
        /\ UNCHANGED <<kind, data, lich, step, metrics, history, state, gotData, gotLich, errors>>
  BY DEF Strike
<1>2. frame = AppendBits
  BY <1>1, NoBurstYet DEF FrameInv, Received
<1>3. Sent' /\ AppendBits' = AppendBits
  BY <1>1, SentStays DEF FrameInv
<1>4. frame' = Aired'
  <2>1. Aired' = [n \in Symbols |-> IF n - burst'.first \in 0 .. (burst'.count - 1)
                                   THEN Struck(AppendBits'[n], burst'.how) ELSE AppendBits'[n]]
    BY Zenon DEF Aired
  <2>. QED  BY <1>1, <1>2, <1>3, <2>1, Zenon
<1>5. BurstOK'
  BY <1>1, BurstData DEF BurstOK
<1>6. Received'
  BY <1>1, <1>4 DEF FrameInv, Received
<1>7. MetricsFit' /\ ChainbackInRange'
  BY <1>1 DEF FrameInv, MetricsFit, ChainbackInRange, Positions
<1>8. SentPathCheap'
  BY <1>1 DEF SentPathCheap
<1>. QED  BY <1>1, <1>3, <1>5, <1>6, <1>7, <1>8 DEF FrameInv

LEMMA DecodeFrame ==
  ASSUME FrameInv, Decode
  PROVE  FrameInv'
<1>1. /\ step = "air" /\ step' = "decode" /\ frame' = DeinterleaveSoftBits
      /\ UNCHANGED <<kind, data, lich, burst, metrics, history, state, gotData, errors>>
  BY DEF Decode
<1>2. Sent /\ BurstOK /\ frame = Aired /\ history = <<>> /\ metrics = Metrics0
  BY <1>1 DEF FrameInv, Received
<1>3. \A j : EncodedBit(j)' = EncodedBit(j)
  BY <1>1, SentStays
<1>4. Sent' /\ BurstOK'
  BY <1>1, <1>2, SentStays DEF BurstOK
<1>5. AllHeard'
  <2>. SUFFICES ASSUME NEW j \in Bits PROVE Heard(frame[j], j)'
    BY DEF AllHeard
  <2>1. Heard(DeinterleaveSoftBits[j], j)
    BY <1>2, DecodeHears
  <2>2. \A i : Strikes(i)' = Strikes(i)
    BY <1>1 DEF Strikes
  <2>3. \A i : Inverts(i)' = Inverts(i)
    BY <1>1, <2>2 DEF Inverts
  <2>4. frame'[j] = DeinterleaveSoftBits[j]
    BY <1>1
  <2>5. \A v : Heard(v, j)' = Heard(v, j)
    BY <1>1, <1>3, <2>2, <2>3 DEF Heard
  <2>. QED  BY <2>1, <2>4, <2>5
<1>6. Received'
  BY <1>1, <1>5 DEF FrameInv, Received
<1>7. MetricsFit' /\ ChainbackInRange'
  BY <1>1 DEF FrameInv, MetricsFit, ChainbackInRange, Positions
<1>8. SentPathCheap'
  <2>1. SentState(0)' = 0 /\ PathBound(0)' = 0
    <3>1. SentState(0)' = SentState(0)
      BY <1>1, SentStays DEF SentState
    <3>2. Hits(0)' = {} /\ Rank(0)' = Rank(0) /\ Hits(0) = {}
      BY <1>1, SentStays DEF Hits
    <3>3. PathBound(0)' = PathBound(0)
      BY <3>2, Zenon DEF PathBound
    <3>. QED  BY <1>2, <3>1, <3>3, AtTheStart
  <2>2. history' = <<>> /\ metrics' = Metrics0
    BY <1>1, <1>2
  <2>3. Len(history') = 0 /\ metrics'[0] = 0 /\ 2 * Len(history') = 0
    BY <2>2 DEF Metrics0
  <2>. QED  BY <2>1, <2>3 DEF SentPathCheap
<1>. QED  BY <1>1, <1>4, <1>6, <1>7, <1>8 DEF FrameInv

LEMMA decodeBitFrame ==
  ASSUME FrameInv, decodeBit
  PROVE  FrameInv'
<1>1. /\ step = "decode" /\ Len(history) < Positions
      /\ UNCHANGED <<kind, data, lich, burst, frame, step, state, gotData, gotLich, errors>>
  BY DEF decodeBit
<1>2. Sent /\ BurstOK /\ AllHeard /\ MetricsFit /\ ChainbackInRange
      /\ metrics[SentState(Len(history))] <= PathBound(2 * Len(history))
  BY <1>1 DEF FrameInv, Received, SentPathCheap
<1>. DEFINE n == Len(history)  max == 2 * softTrue * n
<1>3. n \in Nat /\ history \in Seq(SUBSET (0..15)) /\ metrics \in [0..15 -> Nat]
      /\ \A s \in 0..15 : metrics[s] <= max
  BY <1>2 DEF MetricsFit
<1>4. max \in Nat
  <2>1. softTrue \in Nat
    BY SoftValues
  <2>. HIDE DEF n
  <2>. QED  BY <1>3, <2>1
<1>5. /\ history' \in Seq(SUBSET (0..15)) /\ Len(history') = n + 1
      /\ metrics' \in [0..15 -> Nat]
      /\ \A s \in 0..15 : metrics'[s] <= max + 2 * softTrue
      /\ metrics'[SentState(n + 1)] <= PathBound(2 * n + 2)
  <2>. HIDE DEF max
  <2>. QED  BY <1>2, <1>3, <1>4, MetricsStep
<1>6. Sent' /\ BurstOK' /\ AllHeard'
  <2>1. Sent' = Sent
    BY <1>1, SentStays
  <2>2. AllHeard' = AllHeard /\ BurstOK' = BurstOK
    BY <1>1, HeardStays
  <2>. QED  BY <1>2, <2>1, <2>2
<1>7. Received'
  BY <1>1, <1>6 DEF Received
<1>8. MetricsFit'
  <2>1. Positions' = Positions /\ Positions \in Nat
    BY <1>1, <1>2, SentSizes DEF Positions
  <2>2. Len(history') <= Positions'
    <3>. DEFINE l == Len(history')  k == Positions
    <3>. HIDE DEF l, k, n
    <3>1. l = n + 1 /\ n < k /\ k \in Nat
      BY <1>1, <1>5, <2>1 DEF l, k, n
    <3>. QED  BY <1>3, <2>1, <3>1 DEF l, k
  <2>3. max + 2 * softTrue = 2 * softTrue * (n + 1)
    <3>1. softTrue \in Nat
      BY SoftValues
    <3>. HIDE DEF n
    <3>. QED  BY <1>3, <3>1
  <2>4. \A s \in 0..15 : metrics'[s] <= 2 * softTrue * Len(history')
    BY <1>5, <2>3
  <2>. QED  BY <1>5, <2>2, <2>4 DEF MetricsFit
<1>9. SentPathCheap'
  <2>1. 2 * Len(history') = 2 * n + 2
    BY <1>3, <1>5
  <2>2. metrics'[SentState(Len(history'))] <= PathBound(2 * Len(history'))
    BY <1>5, <2>1, Zenon
  <2>3. \A k : SentState(k)' = SentState(k) /\ PathBound(k)' = PathBound(k)
    BY <1>1, HeardStays
  <2>. QED  BY <2>2, <2>3 DEF SentPathCheap
<1>10. ChainbackInRange'
  BY <1>1, <1>2 DEF ChainbackInRange
<1>. QED  BY <1>1, <1>6, <1>7, <1>8, <1>9, <1>10 DEF FrameInv

LEMMA IndexInHistory ==
  ASSUME Sent, MetricsFit, Len(history) = Positions, gotData \in Seq({0, 1}), Len(gotData) <= Len(data)
  PROVE  Positions - Len(gotData) \in DOMAIN history
<1>. DEFINE m == Positions  g == Len(gotData)
<1>1. DOMAIN history = 1..m
  BY DEF MetricsFit
<1>2. g \in Nat /\ m \in Nat /\ g + 4 <= m
  <2>1. Len(data) \in Nat /\ m = Len(data) + 4 /\ g \in Nat
    BY DEF Sent, Positions, DataBits
  <2>. QED  BY <2>1
<1>. HIDE DEF m, g
<1>. QED  BY <1>1, <1>2 DEF m, g

LEMMA ChainFrame ==
  ASSUME FrameInv, Chain
  PROVE  FrameInv'
<1>1. /\ step = "decode" /\ Len(history) = Positions /\ step' = "chainback"
      /\ UNCHANGED <<kind, data, lich, burst, frame, metrics, history, state, gotData, gotLich, errors>>
  BY DEF Chain
<1>2. Sent' /\ BurstOK' /\ AllHeard'
  <2>1. Sent' = Sent
    BY <1>1, SentStays
  <2>2. AllHeard' = AllHeard /\ BurstOK' = BurstOK
    BY <1>1, HeardStays
  <2>. QED  BY <1>1, <2>1, <2>2 DEF FrameInv, Received
<1>3. Positions' = Positions
  BY <1>1 DEF Positions
<1>4. Received' /\ MetricsFit'
  BY <1>1, <1>2, <1>3 DEF FrameInv, Received, MetricsFit
<1>5. SentPathCheap'
  <2>1. \A k : SentState(k)' = SentState(k) /\ PathBound(k)' = PathBound(k)
    BY <1>1, HeardStays
  <2>. QED  BY <1>1, <2>1 DEF FrameInv, SentPathCheap
<1>6. ChainbackInRange'
  <2>1. Positions - Len(gotData) \in DOMAIN history
    BY <1>1, IndexInHistory DEF FrameInv, ChainbackInRange
  <2>. QED  BY <1>1, <1>3, <2>1 DEF FrameInv, ChainbackInRange
<1>. QED  BY <1>1, <1>2, <1>4, <1>5, <1>6 DEF FrameInv

LEMMA chainbackFrame ==
  ASSUME FrameInv, chainback
  PROVE  FrameInv'
<1>. DEFINE bit == Bit(state \in history[Positions - Len(gotData)])
<1>1. /\ step = "chainback" /\ Len(gotData) < Len(data)
      /\ state' = (state \div 2) + 8 * bit /\ gotData' = <<bit>> \o gotData
      /\ UNCHANGED <<kind, data, lich, burst, frame, step, metrics, history, gotLich, errors>>
  BY DEF chainback
<1>2. bit \in {0, 1}
  BY DEF Bit
<1>. HIDE DEF bit
<1>3. Sent' /\ BurstOK' /\ AllHeard'
  <2>1. Sent' = Sent
    BY <1>1, SentStays
  <2>2. AllHeard' = AllHeard /\ BurstOK' = BurstOK
    BY <1>1, HeardStays
  <2>. QED  BY <1>1, <2>1, <2>2 DEF FrameInv, Received
<1>4. Positions' = Positions
  BY <1>1 DEF Positions
<1>5. Received' /\ MetricsFit'
  BY <1>1, <1>3, <1>4 DEF FrameInv, Received, MetricsFit
<1>6. SentPathCheap'
  <2>1. \A k : SentState(k)' = SentState(k) /\ PathBound(k)' = PathBound(k)
    BY <1>1, HeardStays
  <2>. QED  BY <1>1, <2>1 DEF FrameInv, SentPathCheap
<1>7. gotData \in Seq({0, 1}) /\ state \in 0..15 /\ Len(data) \in Nat /\ Len(gotData) \in Nat
  BY DEF FrameInv, ChainbackInRange, Sent, DataBits
<1>8. state' \in 0..15
  BY <1>1, <1>2, <1>7
<1>9. gotData' \in Seq({0, 1}) /\ Len(gotData') = Len(gotData) + 1
  <2>1. <<bit>> \in Seq({0, 1}) /\ Len(<<bit>>) = 1
    BY <1>2
  <2>2. gotData' \in Seq({0, 1}) /\ Len(gotData') = Len(<<bit>>) + Len(gotData)
    BY <1>1, <1>7, <2>1, JoinedBits
  <2>. QED  BY <1>7, <2>1, <2>2
<1>10. ChainbackInRange'
  <2>1. Len(gotData') <= Len(data)
    BY <1>1, <1>7, <1>9
  <2>2. Positions - Len(gotData') \in DOMAIN history
    <3>. DEFINE m == Positions  g == Len(gotData')
    <3>1. DOMAIN history = 1..m
      BY <1>1 DEF FrameInv, MetricsFit, Received
    <3>2. m = Len(data) + 4
      BY DEF Positions
    <3>. HIDE DEF m
    <3>3. m - g \in 1..m
      BY <1>7, <1>9, <2>1, <3>2
    <3>. QED  BY <3>1, <3>3 DEF m
  <2>. QED  BY <1>1, <1>4, <1>8, <1>9, <2>1, <2>2 DEF ChainbackInRange
<1>. QED  BY <1>1, <1>3, <1>5, <1>6, <1>10 DEF FrameInv

LEMMA DecodedFrame ==
  ASSUME FrameInv, Decoded
  PROVE  FrameInv'
<1>1. /\ step = "chainback" /\ Len(gotData) = Len(data) /\ step' = "done"
      /\ errors' = cost - CostOfPuncturing[kind]
      /\ UNCHANGED <<kind, data, lich, burst, frame, metrics, history, state, gotData, gotLich>>
  BY DEF Decoded
<1>2. Sent' /\ BurstOK' /\ AllHeard'
  <2>1. Sent' = Sent
    BY <1>1, SentStays
  <2>2. AllHeard' = AllHeard /\ BurstOK' = BurstOK
    BY <1>1, HeardStays
  <2>. QED  BY <1>1, <2>1, <2>2 DEF FrameInv, Received
<1>3. Positions' = Positions
  BY <1>1 DEF Positions
<1>4. Received' /\ MetricsFit'
  BY <1>1, <1>2, <1>3 DEF FrameInv, Received, MetricsFit
<1>5. SentPathCheap'
  <2>1. \A k : SentState(k)' = SentState(k) /\ PathBound(k)' = PathBound(k)
    BY <1>1, HeardStays
  <2>. QED  BY <1>1, <2>1 DEF FrameInv, SentPathCheap
<1>6. ChainbackInRange'
  BY <1>1, <1>3 DEF FrameInv, ChainbackInRange
<1>7. cost' = cost
  BY <1>1 DEF cost
<1>. QED  BY <1>1, <1>2, <1>4, <1>5, <1>6, <1>7 DEF FrameInv

LEMMA FrameStutters ==
  ASSUME FrameInv, UNCHANGED vars
  PROVE  FrameInv'
<1>1. UNCHANGED <<kind, data, lich, burst, frame, step, metrics, history, state, gotData, gotLich, errors>>
  BY DEF vars
<1>2. Sent' /\ BurstOK' /\ (AllHeard' = AllHeard)
  <2>1. Sent' = Sent
    BY <1>1, SentStays
  <2>2. AllHeard' = AllHeard /\ BurstOK' = BurstOK
    BY <1>1, HeardStays
  <2>. QED  BY <1>1, <2>1, <2>2 DEF FrameInv
<1>3. Positions' = Positions
  BY <1>1 DEF Positions
<1>4. Aired' = Aired
  BY <1>1, SentStays DEF Aired
<1>5. Received' /\ MetricsFit'
  BY <1>1, <1>2, <1>3, <1>4 DEF FrameInv, Received, MetricsFit
<1>6. SentPathCheap'
  <2>1. \A k : SentState(k)' = SentState(k) /\ PathBound(k)' = PathBound(k)
    BY <1>1, HeardStays
  <2>. QED  BY <1>1, <2>1 DEF FrameInv, SentPathCheap
<1>7. ChainbackInRange'
  BY <1>1, <1>3 DEF FrameInv, ChainbackInRange
<1>8. cost' = cost
  BY <1>1 DEF cost
<1>. QED  BY <1>1, <1>2, <1>5, <1>6, <1>7, <1>8 DEF FrameInv

\* The soft bits decodeStreamFrame and its likes hand on are what the channel left of
\* the interleaved code (decoder.go:302, codec.go:247), and along the path that was
\* sent decodeBit's metric is no more than what punctured and damaged bits cost.
THEOREM FrameInvariant == Spec => []FrameInv
<1>1. FrameInv /\ [Next]_vars => FrameInv'
  BY StrikeFrame, DecodeFrame, decodeBitFrame, ChainFrame, chainbackFrame, DecodedFrame, FrameStutters DEF Next
<1>. QED  BY <1>1, InitFrame, PTL DEF Spec
-----------------------------------------------------------------------------
(* What follows from the invariant *)

LEMMA LeastOfFour ==
  ASSUME NEW w \in Nat, NEW x \in Nat, NEW y \in Nat, NEW z \in Nat
  PROVE  \E m \in {w, x, y, z} : m <= w /\ m <= x /\ m <= y /\ m <= z
<1>1. CASE w <= x /\ w <= y /\ w <= z
  BY <1>1
<1>2. CASE x <= w /\ x <= y /\ x <= z
  BY <1>2
<1>3. CASE y <= w /\ y <= x /\ y <= z
  BY <1>3
<1>4. CASE z <= w /\ z <= x /\ z <= y
  BY <1>4
<1>5. \/ w <= x /\ w <= y /\ w <= z
      \/ x <= w /\ x <= y /\ x <= z
      \/ y <= w /\ y <= x /\ y <= z
      \/ z <= w /\ z <= x /\ z <= y
  OBVIOUS
<1>. QED  BY <1>1, <1>2, <1>3, <1>4, <1>5

\* Some metric is the least, and so not above that of state 0.
LEMMA LeastMetric ==
  ASSUME metrics \in [0..15 -> Nat]
  PROVE  LET m == Min({metrics[s] : s \in 0..15}) IN m \in Nat /\ m <= metrics[0]
<1>. DEFINE S == {metrics[s] : s \in 0..15}
<1>1. \A i \in {0, 4, 8, 12} : \E k \in i .. (i + 3) : \A q \in i .. (i + 3) : metrics[k] <= metrics[q]
  <2>. TAKE i \in {0, 4, 8, 12}
  <2>1. metrics[i] \in Nat /\ metrics[i + 1] \in Nat /\ metrics[i + 2] \in Nat /\ metrics[i + 3] \in Nat
    OBVIOUS
  <2>2. PICK m \in {metrics[i], metrics[i + 1], metrics[i + 2], metrics[i + 3]} :
          m <= metrics[i] /\ m <= metrics[i + 1] /\ m <= metrics[i + 2] /\ m <= metrics[i + 3]
    BY <2>1, LeastOfFour
  <2>3. PICK k \in i .. (i + 3) : metrics[k] = m
    BY <2>2
  <2>4. \A q \in i .. (i + 3) : q = i \/ q = i + 1 \/ q = i + 2 \/ q = i + 3
    OBVIOUS
  <2>5. \A q \in i .. (i + 3) : m <= metrics[q]
    BY <2>2, <2>4
  <2>. QED  BY <2>3, <2>5
<1>2. PICK a \in 0..3 : \A q \in 0..3 : metrics[a] <= metrics[q]
  BY <1>1
<1>3. PICK b \in 4..7 : \A q \in 4..7 : metrics[b] <= metrics[q]
  BY <1>1
<1>4. PICK c \in 8..11 : \A q \in 8..11 : metrics[c] <= metrics[q]
  BY <1>1
<1>5. PICK d \in 12..15 : \A q \in 12..15 : metrics[d] <= metrics[q]
  BY <1>1
<1>6. metrics[a] \in Nat /\ metrics[b] \in Nat /\ metrics[c] \in Nat /\ metrics[d] \in Nat
  OBVIOUS
<1>7. PICK m \in {metrics[a], metrics[b], metrics[c], metrics[d]} :
        m <= metrics[a] /\ m <= metrics[b] /\ m <= metrics[c] /\ m <= metrics[d]
  BY <1>6, LeastOfFour
<1>8. m \in Nat /\ m \in S
  BY <1>6, <1>7
<1>9. \A q \in 0..15 : m <= metrics[q]
  <2>. TAKE q \in 0..15
  <2>1. q \in 0..3 \/ q \in 4..7 \/ q \in 8..11 \/ q \in 12..15
    OBVIOUS
  <2>2. metrics[q] \in Nat
    OBVIOUS
  <2>. QED  BY <1>2, <1>3, <1>4, <1>5, <1>6, <1>7, <1>8, <2>1, <2>2
<1>10. m \in S /\ \A y \in S : m <= y
  BY <1>8, <1>9
<1>11. Min(S) \in S /\ \A y \in S : Min(S) <= y
  <2>. HIDE DEF S
  <2>. QED  BY <1>10 DEF Min
<1>12. metrics[0] \in S /\ S \subseteq Nat
  OBVIOUS
<1>. HIDE DEF S
<1>13. Min(S) \in Nat /\ Min(S) <= metrics[0]
  BY <1>11, <1>12
<1>. QED  BY <1>13 DEF S

\* The path that was sent is hit only where a bit of the code is damaged.
LEMMA HitsAreDamaged ==
  ASSUME Sent
  PROVE  /\ Cardinality(Hits(2 * Positions)) <= Cardinality(Damaged)
         /\ Cardinality(Damaged) \in Nat /\ Cardinality(Damaged) <= 368
         /\ Cardinality(Hits(2 * Positions)) \in Nat
<1>. DEFINE H == Hits(2 * Positions)  f == [p \in H |-> CodeBit(p)]
<1>1. IsFiniteSet(Damaged) /\ Cardinality(Damaged) \in Nat /\ Cardinality(Damaged) <= 368
  <2>1. IsFiniteSet(Bits) /\ Cardinality(Bits) = 368
    <3>. DEFINE last == 367
    <3>1. 0 \in Int /\ last \in Int /\ ~(0 > last) /\ last - 0 + 1 = 368
      OBVIOUS
    <3>2. Bits = 0..last
      BY DEF Bits, BitsPerPayload
    <3>. HIDE DEF last
    <3>. QED  BY <3>1, <3>2, FS_Interval
  <2>2. Damaged \in SUBSET Bits
    BY DEF Damaged, CodeBits
  <2>3. IsFiniteSet(Damaged) /\ Cardinality(Damaged) <= 368
    BY <2>1, <2>2, FS_Subset
  <2>. QED  BY <2>3, FS_CardinalityType
<1>2. \A p \in H : p \in Nat /\ Kept(p) /\ CodeBit(p) \in Damaged
  BY DEF Hits, Hit
<1>3. \A p \in H, q \in H : CodeBit(p) = CodeBit(q) => p = q
  <2>. TAKE p \in H, q \in H
  <2>. HAVE CodeBit(p) = CodeBit(q)
  <2>1. Rank(p) \in Nat /\ Rank(q) \in Nat /\ LichBits[kind] \in Nat
    <3>1. LichBits[kind] \in Nat
      BY DEF Sent, LichBits
    <3>. QED  BY <1>2, <3>1, RankRange
  <2>2. Rank(p) = Rank(q)
    BY <2>1 DEF CodeBit
  <2>3. Place(Rank(p)) = p /\ Place(Rank(q)) = q
    BY <1>2, PlaceOfRank
  <2>. QED  BY <2>2, <2>3
<1>4. f \in Injection(H, Damaged)
  <2>1. f \in [H -> Damaged]
    BY <1>2
  <2>2. \A p, q \in H : f[p] = f[q] => p = q
    BY <1>3
  <2>. HIDE DEF f, H
  <2>. QED  BY <2>1, <2>2, Fun_IsInj
<1>5. Cardinality(H) <= Cardinality(Damaged) /\ IsFiniteSet(H)
  <2>. HIDE DEF f, H
  <2>. QED  BY <1>1, <1>4, FS_Injection
<1>. QED  BY <1>1, <1>5, FS_CardinalityType

\* How many bits are punctured
LEMMA PuncturedBits ==
  ASSUME Sent
  PROVE  2 * Positions - Rank(2 * Positions) = IF kind = "LSF" THEN 120 ELSE IF kind = "Stream" THEN 24 ELSE 52
<1>1. CASE kind = "LSF"
  <2>1. 2 * Positions = 488
    BY <1>1, SentSizes
  <2>2. 488 \in Nat /\ 488 \div 61 = 8 /\ 488 % 61 = 0
    OBVIOUS
  <2>3. Rank(488) = 488 - 15 * (488 \div 61) - ((488 % 61) + 1) \div 4
    BY <1>1, <2>2, RankInNumbers
  <2>. QED  BY <1>1, <2>1, <2>2, <2>3
<1>2. CASE kind = "Stream"
  <2>1. 2 * Positions = 296
    BY <1>2, SentSizes
  <2>2. Rank(296) = 296 - 296 \div 12
    BY <1>2, RankInNumbers
  <2>. QED  BY <1>2, <2>1, <2>2
<1>3. CASE kind = "Packet"
  <2>1. 2 * Positions = 420
    BY <1>3, SentSizes DEF Sent
  <2>2. Rank(420) = 420 - 420 \div 8
    BY <1>3, RankInNumbers
  <2>. QED  BY <1>3, <2>1, <2>2
<1>. QED  BY <1>1, <1>2, <1>3 DEF Sent

\* Four zeros trail the data: at the end the coder is back in state 0.
LEMMA AtTheEnd == ASSUME Sent PROVE SentState(Positions) = 0
<1>. DEFINE n == Positions
<1>1. n \in Nat /\ n = Len(data) + 4 /\ Len(data) \in Nat
  <2>1. Len(data) \in Nat
    BY DEF Sent, DataBits
  <2>. QED  BY <2>1, SentSizes DEF Positions
<1>. HIDE DEF n
<1>2. Input(n) = 0 /\ Input(n + 1) = 0 /\ Input(n + 2) = 0 /\ Input(n + 3) = 0
  BY <1>1 DEF Input
<1>3. SentState(n) = 0
  BY <1>2 DEF SentState
<1>. QED  BY <1>3 DEF n

LEMMA SoftNumbers == softTrue = 65535 /\ softMaybe = 32767
BY DEF softTrue, softMaybe

\* In whole bits, the least metric is no more than the damage and half the punctured bits.
LEMMA CostInBits ==
  ASSUME NEW m \in Nat, NEW h \in Nat, NEW d \in Nat, d <= 368, NEW p \in {120, 24, 52},
         NEW n \in Nat, n <= 244, h <= d, m <= 65535 * h + 32768 * p + 2 * n
  PROVE  (m \div 32767) \div 2 <= d + p \div 2
<1>1. m < 65534 * (d + p \div 2 + 1)
  OBVIOUS
<1>. DEFINE k == d + p \div 2 + 1  q == m \div 32767
<1>2. k \in Nat /\ q \in Nat /\ 32767 * q <= m /\ m < 65534 * k
  BY <1>1
<1>. HIDE DEF k, q
<1>3. q < 2 * k
  BY <1>2
<1>4. q \div 2 < k
  BY <1>2, <1>3
<1>. QED  BY <1>2, <1>4 DEF k, q

LEMMA InvBoundsErrors == FrameInv => ErrorsBounded
<1>. SUFFICES ASSUME FrameInv, step = "done"
              PROVE  errors <= Cardinality(Damaged) + (IF kind = "Packet" THEN 18 ELSE 0)
  BY DEF ErrorsBounded
<1>1. /\ Sent /\ metrics \in [0..15 -> Nat] /\ Len(history) = Positions
      /\ errors = cost - CostOfPuncturing[kind]
      /\ metrics[SentState(Len(history))] <= PathBound(2 * Len(history))
  BY DEF FrameInv, MetricsFit, Received, SentPathCheap
<1>2. metrics[0] <= PathBound(2 * Positions) /\ metrics[0] \in Nat
  BY <1>1, AtTheEnd
<1>. DEFINE n == Positions
            h == Cardinality(Hits(2 * n))
            d == Cardinality(Damaged)
            p == 2 * n - Rank(2 * n)
            m == Min({metrics[s] : s \in 0..15})
<1>3. m \in Nat /\ m <= metrics[0]
  BY <1>1, LeastMetric
<1>4. h \in Nat /\ h <= d /\ d \in Nat /\ d <= 368
  BY <1>1, HitsAreDamaged
<1>5. p = IF kind = "LSF" THEN 120 ELSE IF kind = "Stream" THEN 24 ELSE 52
  BY <1>1, PuncturedBits
<1>6. n \in Nat /\ n <= 244
  BY <1>1, SentSizes
<1>7. PathBound(2 * n) = softTrue * h + (softMaybe + 1) * p + 2 * n
  BY Zenon DEF PathBound
<1>8. cost = (m \div softMaybe) \div 2
  BY Zenon DEF cost
<1>. HIDE DEF n, h, d, p, m
<1>9. m <= 65535 * h + 32768 * p + 2 * n
  <2>1. PathBound(2 * n) = 65535 * h + 32768 * p + 2 * n
    BY <1>7, SoftNumbers
  <2>2. metrics[0] <= PathBound(2 * n)
    BY <1>2 DEF n
  <2>. DEFINE z == metrics[0]  b == PathBound(2 * n)
  <2>3. z \in Nat /\ m <= z /\ z <= b /\ b = 65535 * h + 32768 * p + 2 * n
    BY <1>2, <1>3, <2>1, <2>2
  <2>. HIDE DEF z, b
  <2>4. p \in Int
    BY <1>5
  <2>. QED  BY <1>3, <1>4, <1>6, <2>3, <2>4
<1>10. p \in {120, 24, 52}
  BY <1>5
<1>11. cost <= d + p \div 2
  <2>1. (m \div 32767) \div 2 <= d + p \div 2
    BY <1>3, <1>4, <1>6, <1>9, <1>10, CostInBits
  <2>. QED  BY <1>8, <2>1, SoftNumbers
<1>12. cost \in Int
  BY <1>3, <1>8, SoftNumbers
<1>13. CostOfPuncturing[kind] = IF kind = "LSF" THEN 60 ELSE IF kind = "Stream" THEN 12 ELSE 8
  <2>1. CASE kind = "LSF"
    BY <2>1 DEF CostOfPuncturing
  <2>2. CASE kind = "Stream"
    BY <2>2 DEF CostOfPuncturing
  <2>3. CASE kind = "Packet"
    BY <2>3 DEF CostOfPuncturing
  <2>. QED  BY <1>1, <2>1, <2>2, <2>3 DEF Sent
<1>14. kind = "LSF" \/ kind = "Stream" \/ kind = "Packet"
  BY <1>1 DEF Sent
<1>. DEFINE e == errors  c == cost  k == CostOfPuncturing[kind]
<1>15. e = c - k /\ c \in Int /\ c <= d + p \div 2 /\ d \in Nat
  BY <1>1, <1>4, <1>11, <1>12
<1>16. k = IF kind = "LSF" THEN 60 ELSE IF kind = "Stream" THEN 12 ELSE 8
  BY <1>13
<1>. HIDE DEF e, c, k
<1>17. e <= d + (IF kind = "Packet" THEN 18 ELSE 0)
  <2>1. CASE kind = "LSF"
    <3>1. p \div 2 = 60 /\ k = 60
      BY <1>5, <1>16, <2>1
    <3>2. e <= d
      BY <1>15, <3>1
    <3>. QED  BY <1>15, <2>1, <3>2
  <2>2. CASE kind = "Stream"
    <3>1. p \div 2 = 12 /\ k = 12
      BY <1>5, <1>16, <2>2
    <3>2. e <= d
      BY <1>15, <3>1
    <3>. QED  BY <1>15, <2>2, <3>2
  <2>3. CASE kind = "Packet"
    <3>1. p \div 2 = 26 /\ k = 8
      BY <1>5, <1>16, <2>3
    <3>. QED  BY <1>15, <2>3, <3>1
  <2>. QED  BY <1>14, <2>1, <2>2, <2>3
<1>. QED  BY <1>17, Zenon DEF e, d

\* The bits of a frame that are heard wrong, if a soft bit above softMaybe is a one
WrongBits == {j \in Bits : (frame[j] > softMaybe) # (EncodedBit(j) = 1)}

\* Of the bits a burst of up to four symbols makes wrong, no two are within 39 places
\* of the code: the Viterbi decoder has long forgotten the one when it meets the next,
\* and a Golay word of 24 bits has one wrong bit at most (codec.go:213, golay.go:307).
ErrorsApart ==
  step # "air" /\ burst.count <= 4 =>
    \A j, k \in WrongBits : j # k => j - k >= 39 \/ k - j >= 39

LEMMA WrongIsStruck ==
  ASSUME Sent, AllHeard, NEW j \in WrongBits
  PROVE  Strikes(interleaveSequence(j))
<1>. SUFFICES ASSUME ~Strikes(interleaveSequence(j)) PROVE FALSE
  OBVIOUS
<1>. DEFINE i == interleaveSequence(j)  v == frame[j]  e == EncodedBit(j)
<1>1. j \in Bits /\ ((v > softMaybe) # (e = 1))
  BY DEF WrongBits
<1>2. e \in {0, 1}
  BY <1>1, EncodedIsBit DEF Bits
<1>3. Bit(Inverts(i)) = 0
  BY DEF Inverts, Bit
<1>4. Near(v, (e + Bit(Inverts(i))) % 2)
  BY <1>1 DEF AllHeard, Heard
<1>. HIDE DEF i, v, e
<1>5. Near(v, e)
  <2>1. (e + 0) % 2 = e
    BY <1>2
  <2>. QED  BY <1>3, <1>4, <2>1
<1>. QED  BY <1>1, <1>2, <1>5, SoftValues DEF Near

LEMMA InvSpreadsErrors == FrameInv => ErrorsApart
<1>. SUFFICES ASSUME FrameInv, step # "air", burst.count <= 4,
                     NEW j \in WrongBits, NEW k \in WrongBits, j # k
              PROVE  j - k >= 39 \/ k - j >= 39
  BY DEF ErrorsApart
<1>. DEFINE a == interleaveSequence(j)  b == interleaveSequence(k)
<1>1. j \in Bits /\ k \in Bits
  BY DEF WrongBits
<1>2. a \in Bits /\ b \in Bits /\ interleaveSequence(a) = j /\ interleaveSequence(b) = k
  BY <1>1, Involution
<1>3. Strikes(a) /\ Strikes(b)
  BY WrongIsStruck DEF FrameInv, Received
<1>4. burst.first \in Int /\ burst.count \in Int
  BY DEF FrameInv, BurstOK, Symbols
<1>. HIDE DEF a, b
<1>5. a # b
  BY <1>2
<1>6. a - b < 8 /\ b - a < 8 /\ a \in Nat /\ b \in Nat
  <2>. DEFINE f == burst.first  c == burst.count
  <2>1. (a \div 2) - f \in 0 .. (c - 1) /\ (b \div 2) - f \in 0 .. (c - 1)
    BY <1>3 DEF Strikes
  <2>2. f \in Int /\ c \in Int /\ c <= 4
    BY <1>4
  <2>3. a \in Nat /\ b \in Nat
    BY <1>2 DEF Bits
  <2>. HIDE DEF f, c
  <2>. QED  BY <2>1, <2>2, <2>3
<1>7. CASE a < b
  BY <1>2, <1>6, <1>7, Spread
<1>8. CASE b < a
  BY <1>2, <1>6, <1>8, Spread
<1>. QED  BY <1>5, <1>6, <1>7, <1>8
-----------------------------------------------------------------------------
(* Golay: sets of bits, and how many there are                             *)

\* The weight of a word is the sum of its bits.
LEMMA Weight ==
  ASSUME NEW S \in SUBSET (0..11)
  PROVE  /\ IsFiniteSet(S)
         /\ Cardinality(S) = Bit(0 \in S) + Bit(1 \in S) + Bit(2 \in S) + Bit(3 \in S) +
                             Bit(4 \in S) + Bit(5 \in S) + Bit(6 \in S) + Bit(7 \in S) +
                             Bit(8 \in S) + Bit(9 \in S) + Bit(10 \in S) + Bit(11 \in S)
<1>. DEFINE T(n) == {s \in S : s < n}
<1>0. S \subseteq Nat /\ \A s \in S : s < 12
  OBVIOUS
<1>1. IsFiniteSet(S)
  <2>1. \A n \in Nat : IsFiniteSet(0..n)
    BY FS_Interval
  <2>2. IsFiniteSet(0..11)
    BY <2>1
  <2>. QED  BY <2>2, FS_Subset
<1>2. ASSUME NEW n \in 0..11
      PROVE  /\ Cardinality(T(n)) \in Nat
             /\ Cardinality(T(n + 1)) = Cardinality(T(n)) + Bit(n \in S)
  <2>1. IsFiniteSet(T(n)) /\ Cardinality(T(n)) \in Nat
    BY <1>1, FS_Subset, FS_CardinalityType
  <2>0. \A s \in S : /\ s < n + 1 <=> s < n \/ s = n
                   /\ ~(n < n)
    BY <1>0
  <2>2. CASE n \in S
    <3>1. T(n + 1) = T(n) \cup {n} /\ n \notin T(n)
      BY <2>0, <2>2, Zenon
    <3>2. Cardinality(T(n + 1)) = Cardinality(T(n)) + 1
      BY <2>1, <3>1, FS_AddElement
    <3>. QED  BY <2>1, <2>2, <3>2 DEF Bit
  <2>3. CASE n \notin S
    <3>1. T(n + 1) = T(n)
      BY <2>0, <2>3, Zenon
    <3>. QED  BY <2>1, <2>3, <3>1 DEF Bit
  <2>. QED  BY <2>2, <2>3
<1>3. Cardinality(T(0)) = 0 /\ T(12) = S
  <2>1. T(0) = {} /\ T(12) = S
    <3>1. \A s \in S : ~(s < 0) /\ s < 12
      BY <1>0
    <3>. QED  BY <3>1, Zenon
  <2>. QED  BY <2>1, FS_EmptySet
<1>. DEFINE c(n) == Cardinality(T(n))
<1>4. /\ c(0) = 0 /\ Cardinality(S) = c(12)
      /\ c(1) = c(0) + Bit(0 \in S)
      /\ c(2) = c(1) + Bit(1 \in S)
      /\ c(3) = c(2) + Bit(2 \in S)
      /\ c(4) = c(3) + Bit(3 \in S)
      /\ c(5) = c(4) + Bit(4 \in S)
      /\ c(6) = c(5) + Bit(5 \in S)
      /\ c(7) = c(6) + Bit(6 \in S)
      /\ c(8) = c(7) + Bit(7 \in S)
      /\ c(9) = c(8) + Bit(8 \in S)
      /\ c(10) = c(9) + Bit(9 \in S)
      /\ c(11) = c(10) + Bit(10 \in S)
      /\ c(12) = c(11) + Bit(11 \in S)
  <2>1. \A n \in 0..11 : c(n + 1) = c(n) + Bit(n \in S)
    BY <1>2
  <2>. HIDE DEF c
  <2>2. /\ c(0 + 1) = c(0) + Bit(0 \in S) /\ c(1 + 1) = c(1) + Bit(1 \in S) /\ c(2 + 1) = c(2) + Bit(2 \in S)
        /\ c(3 + 1) = c(3) + Bit(3 \in S) /\ c(4 + 1) = c(4) + Bit(4 \in S) /\ c(5 + 1) = c(5) + Bit(5 \in S)
    BY <2>1
  <2>3. /\ c(6 + 1) = c(6) + Bit(6 \in S) /\ c(7 + 1) = c(7) + Bit(7 \in S) /\ c(8 + 1) = c(8) + Bit(8 \in S)
        /\ c(9 + 1) = c(9) + Bit(9 \in S) /\ c(10 + 1) = c(10) + Bit(10 \in S) /\ c(11 + 1) = c(11) + Bit(11 \in S)
    BY <2>1
  <2>4. c(0) = 0 /\ Cardinality(S) = c(12)
    BY <1>3 DEF c
  <2>. QED  BY <2>2, <2>3, <2>4
<1>5. \A n \in 0..11 : Bit(n \in S) \in {0, 1}
  BY DEF Bit
<1>. HIDE DEF c
<1>. QED  BY <1>1, <1>4, <1>5

\* Whatever data bits are set, at least seven bits of the word are: the sum of two
\* words is a word, so two words differ in seven at least.
LEMMA WordsAreHeavy ==
  ASSUME NEW x0 \in {0, 1}, NEW x1 \in {0, 1}, NEW x2 \in {0, 1}, NEW x3 \in {0, 1},
         NEW x4 \in {0, 1}, NEW x5 \in {0, 1}, NEW x6 \in {0, 1}, NEW x7 \in {0, 1},
         NEW x8 \in {0, 1}, NEW x9 \in {0, 1}, NEW x10 \in {0, 1}, NEW x11 \in {0, 1},
         x0 + x1 + x2 + x3 + x4 + x5 + x6 + x7 + x8 + x9 + x10 + x11 > 0
  PROVE  x0 + x1 + x2 + x3 + x4 + x5 + x6 + x7 + x8 + x9 + x10 + x11
           + ((x0 + x2 + x4 + x5 + x6 + x10 + x11) % 2)
           + ((x0 + x1 + x2 + x3 + x4 + x7 + x10) % 2)
           + ((x1 + x2 + x3 + x4 + x5 + x8 + x11) % 2)
           + ((x0 + x1 + x5 + x6 + x7 + x9 + x10) % 2)
           + ((x1 + x2 + x6 + x7 + x8 + x10 + x11) % 2)
           + ((x0 + x1 + x4 + x8 + x9 + x10 + x11) % 2)
           + ((x0 + x3 + x4 + x5 + x7 + x9 + x11) % 2)
           + ((x0 + x2 + x3 + x5 + x6 + x7 + x8) % 2)
           + ((x1 + x3 + x4 + x6 + x7 + x8 + x9) % 2)
           + ((x2 + x4 + x5 + x7 + x8 + x9 + x10) % 2)
           + ((x3 + x5 + x6 + x8 + x9 + x10 + x11) % 2)
           + ((x0 + x1 + x2 + x3 + x6 + x9 + x11) % 2) >= 7
BY SMTT(60)

\* Of two words, the bits that differ
LEMMA MinusSize ==
  ASSUME NEW S, NEW T, IsFiniteSet(S), IsFiniteSet(T)
  PROVE  /\ IsFiniteSet(Minus(S, T)) /\ Cardinality(Minus(S, T)) \in Nat
         /\ Cardinality(S) \in Nat /\ Cardinality(T) \in Nat /\ Cardinality(S \cap T) \in Nat
         /\ Cardinality(Minus(S, T)) = Cardinality(S) + Cardinality(T) - 2 * Cardinality(S \cap T)
<1>. DEFINE U == Minus(S, T)
            I == S \cap T
<1>1. U \cup I = S \cup T /\ U \cap I = {}
  BY DEF Minus
<1>2. IsFiniteSet(S \cup T) /\ Cardinality(S \cup T) = Cardinality(S) + Cardinality(T) - Cardinality(I)
  BY FS_Union
<1>3. U \in SUBSET (S \cup T) /\ I \in SUBSET (S \cup T)
  BY DEF Minus
<1>4. IsFiniteSet(U) /\ IsFiniteSet(I)
  BY <1>2, <1>3, FS_Subset
<1>. HIDE DEF U, I
<1>5. Cardinality(U \cup I) = Cardinality(U) + Cardinality(I) - 0
  BY <1>1, <1>4, FS_Union, FS_EmptySet
<1>6. /\ Cardinality(U) \in Nat /\ Cardinality(I) \in Nat
      /\ Cardinality(S) \in Nat /\ Cardinality(T) \in Nat
  BY <1>4, FS_CardinalityType
<1>7. Cardinality(U) + Cardinality(I) - 0 = Cardinality(S) + Cardinality(T) - Cardinality(I)
  BY <1>1, <1>2, <1>5, Zenon
<1>8. Cardinality(U) = Cardinality(S) + Cardinality(T) - 2 * Cardinality(I)
  BY <1>6, <1>7
<1>. QED  BY <1>4, <1>6, <1>8 DEF U, I

LEMMA ChecksumIsLinear ==
  ASSUME NEW d \in SUBSET (0..11), NEW e \in SUBSET (0..11)
  PROVE  /\ Checksum(d) \in SUBSET (0..11) /\ Minus(d, e) \in SUBSET (0..11)
         /\ Checksum(Minus(d, e)) = Minus(Checksum(d), Checksum(e))
<1>. DEFINE R(x, b) == {i \in x : b \in encodeMatrix[i + 1]}
<1>1. Minus(d, e) \in SUBSET (0..11)
  BY DEF Minus
<1>2. ASSUME NEW b \in 0..11
      PROVE  b \in Checksum(Minus(d, e)) <=> b \in Minus(Checksum(d), Checksum(e))
  <2>1. R(Minus(d, e), b) = Minus(R(d, b), R(e, b))
    BY DEF Minus
  <2>2. IsFiniteSet(d) /\ IsFiniteSet(e)
    BY Weight
  <2>3. IsFiniteSet(R(d, b)) /\ IsFiniteSet(R(e, b))
    BY <2>2, FS_Subset
  <2>. DEFINE m == Cardinality(R(d, b))
              n == Cardinality(R(e, b))
              k == Cardinality(R(d, b) \cap R(e, b))
              l == Cardinality(Minus(R(d, b), R(e, b)))
  <2>4. m \in Nat /\ n \in Nat /\ k \in Nat /\ l \in Nat /\ l = m + n - 2 * k
    BY <2>3, MinusSize
  <2>5. /\ b \in Checksum(d) <=> m % 2 = 1
        /\ b \in Checksum(e) <=> n % 2 = 1
        /\ b \in Checksum(Minus(d, e)) <=> l % 2 = 1
    BY <2>1 DEF Checksum
  <2>. HIDE DEF m, n, k, l
  <2>6. l % 2 = 1 <=> (m % 2 = 1) # (n % 2 = 1)
    BY <2>4
  <2>. QED  BY <2>5, <2>6 DEF Minus
<1>3. Checksum(d) \in SUBSET (0..11) /\ Checksum(e) \in SUBSET (0..11) /\ Checksum(Minus(d, e)) \in SUBSET (0..11)
  BY DEF Checksum
<1>4. Minus(Checksum(d), Checksum(e)) \in SUBSET (0..11)
  BY <1>3 DEF Minus
<1>. QED  BY <1>1, <1>2, <1>3, <1>4

LEMMA HeavyWords ==
  ASSUME NEW d \in SUBSET (0..11), d # {}
  PROVE  Cardinality(d) + Cardinality(Checksum(d)) >= 7
<1>. DEFINE x(i) == Bit(i \in d)
            R(b) == {i \in d : b \in encodeMatrix[i + 1]}
            y(i, b) == IF b \in encodeMatrix[i + 1] THEN x(i) ELSE 0
<1>1. /\ encodeMatrix[1] = {0, 1, 3, 5, 6, 7, 11}
      /\ encodeMatrix[2] = {1, 2, 3, 4, 5, 8, 11}
      /\ encodeMatrix[3] = {0, 1, 2, 4, 7, 9, 11}
      /\ encodeMatrix[4] = {1, 2, 6, 7, 8, 10, 11}
      /\ encodeMatrix[5] = {0, 1, 2, 5, 6, 8, 9}
      /\ encodeMatrix[6] = {0, 2, 3, 6, 7, 9, 10}
      /\ encodeMatrix[7] = {0, 3, 4, 7, 8, 10, 11}
      /\ encodeMatrix[8] = {1, 3, 4, 6, 7, 8, 9}
      /\ encodeMatrix[9] = {2, 4, 5, 7, 8, 9, 10}
      /\ encodeMatrix[10] = {3, 5, 6, 8, 9, 10, 11}
      /\ encodeMatrix[11] = {0, 1, 3, 4, 5, 9, 10}
      /\ encodeMatrix[12] = {0, 2, 4, 5, 6, 10, 11}
  BY DEF encodeMatrix
<1>2. \A i \in 0..11 : x(i) \in {0, 1}
  BY DEF Bit
<1>3. ASSUME NEW b \in 0..11
      PROVE  /\ Bit(b \in Checksum(d)) = Cardinality(R(b)) % 2
             /\ Cardinality(R(b)) = y(0, b) + y(1, b) + y(2, b) + y(3, b) + y(4, b) + y(5, b) +
                                   y(6, b) + y(7, b) + y(8, b) + y(9, b) + y(10, b) + y(11, b)
  <2>1. R(b) \in SUBSET (0..11)
    OBVIOUS
  <2>2. IsFiniteSet(R(b)) /\ Cardinality(R(b)) = Bit(0 \in R(b)) + Bit(1 \in R(b)) +
                                                   Bit(2 \in R(b)) + Bit(3 \in R(b)) +
                                                   Bit(4 \in R(b)) + Bit(5 \in R(b)) +
                                                   Bit(6 \in R(b)) + Bit(7 \in R(b)) +
                                                   Bit(8 \in R(b)) + Bit(9 \in R(b)) +
                                                   Bit(10 \in R(b)) + Bit(11 \in R(b))
    BY <2>1, Weight
  <2>3. Cardinality(R(b)) \in Nat
    BY <2>2, FS_CardinalityType
  <2>4. b \in Checksum(d) <=> Cardinality(R(b)) % 2 = 1
    BY DEF Checksum
  <2>. DEFINE m == Cardinality(R(b))
  <2>. HIDE DEF m
  <2>5. m % 2 \in {0, 1}
    BY <2>3 DEF m
  <2>6. Bit(b \in Checksum(d)) = m % 2
    BY <2>4, <2>5 DEF Bit, m
  <2>7. \A i \in 0..11 : Bit(i \in R(b)) = y(i, b)
    BY DEF Bit
  <2>8. /\ Bit(0 \in R(b)) = y(0, b) /\ Bit(1 \in R(b)) = y(1, b)
        /\ Bit(2 \in R(b)) = y(2, b) /\ Bit(3 \in R(b)) = y(3, b)
        /\ Bit(4 \in R(b)) = y(4, b) /\ Bit(5 \in R(b)) = y(5, b)
        /\ Bit(6 \in R(b)) = y(6, b) /\ Bit(7 \in R(b)) = y(7, b)
        /\ Bit(8 \in R(b)) = y(8, b) /\ Bit(9 \in R(b)) = y(9, b)
        /\ Bit(10 \in R(b)) = y(10, b) /\ Bit(11 \in R(b)) = y(11, b)
    <3>. HIDE DEF R, y
    <3>. QED  BY <2>7
  <2>. HIDE DEF R, y
  <2>. QED  BY <2>2, <2>6, <2>8 DEF m
<1>. HIDE DEF x, R
<1>4. Cardinality(R(0)) = x(0) + x(2) + x(4) + x(5) + x(6) + x(10) + x(11)
  BY <1>1, <1>2, <1>3
<1>5. Cardinality(R(1)) = x(0) + x(1) + x(2) + x(3) + x(4) + x(7) + x(10)
  BY <1>1, <1>2, <1>3
<1>6. Cardinality(R(2)) = x(1) + x(2) + x(3) + x(4) + x(5) + x(8) + x(11)
  BY <1>1, <1>2, <1>3
<1>7. Cardinality(R(3)) = x(0) + x(1) + x(5) + x(6) + x(7) + x(9) + x(10)
  BY <1>1, <1>2, <1>3
<1>8. Cardinality(R(4)) = x(1) + x(2) + x(6) + x(7) + x(8) + x(10) + x(11)
  BY <1>1, <1>2, <1>3
<1>9. Cardinality(R(5)) = x(0) + x(1) + x(4) + x(8) + x(9) + x(10) + x(11)
  BY <1>1, <1>2, <1>3
<1>10. Cardinality(R(6)) = x(0) + x(3) + x(4) + x(5) + x(7) + x(9) + x(11)
  BY <1>1, <1>2, <1>3
<1>11. Cardinality(R(7)) = x(0) + x(2) + x(3) + x(5) + x(6) + x(7) + x(8)
  BY <1>1, <1>2, <1>3
<1>12. Cardinality(R(8)) = x(1) + x(3) + x(4) + x(6) + x(7) + x(8) + x(9)
  BY <1>1, <1>2, <1>3
<1>13. Cardinality(R(9)) = x(2) + x(4) + x(5) + x(7) + x(8) + x(9) + x(10)
  BY <1>1, <1>2, <1>3
<1>14. Cardinality(R(10)) = x(3) + x(5) + x(6) + x(8) + x(9) + x(10) + x(11)
  BY <1>1, <1>2, <1>3
<1>15. Cardinality(R(11)) = x(0) + x(1) + x(2) + x(3) + x(6) + x(9) + x(11)
  BY <1>1, <1>2, <1>3
<1>. USE DEF x
<1>16. \E i \in 0..11 : i \in d
  OBVIOUS
<1>17. Checksum(d) \in SUBSET (0..11)
  BY DEF Checksum
<1>18. /\ Cardinality(d) = x(0) + x(1) + x(2) + x(3) + x(4) + x(5) + x(6) + x(7) + x(8) +
                                 x(9) + x(10) + x(11)
       /\ Cardinality(Checksum(d)) = Bit(0 \in Checksum(d)) + Bit(1 \in Checksum(d)) +
                                           Bit(2 \in Checksum(d)) + Bit(3 \in Checksum(d)) +
                                           Bit(4 \in Checksum(d)) + Bit(5 \in Checksum(d)) +
                                           Bit(6 \in Checksum(d)) + Bit(7 \in Checksum(d)) +
                                           Bit(8 \in Checksum(d)) + Bit(9 \in Checksum(d)) +
                                           Bit(10 \in Checksum(d)) + Bit(11 \in Checksum(d))
  BY <1>17, Weight
<1>19. x(0) + x(1) + x(2) + x(3) + x(4) + x(5) + x(6) + x(7) + x(8) + x(9) + x(10) + x(11) > 0
  <2>1. \E i \in 0..11 : x(i) = 1
    BY <1>16 DEF Bit
  <2>. HIDE DEF x
  <2>. QED  BY <1>2, <2>1
<1>. HIDE DEF x, R
<1>20. x(0) \in {0, 1} /\ x(1) \in {0, 1} /\ x(2) \in {0, 1} /\ x(3) \in {0, 1} /\
       x(4) \in {0, 1} /\ x(5) \in {0, 1} /\ x(6) \in {0, 1} /\ x(7) \in {0, 1} /\
       x(8) \in {0, 1} /\ x(9) \in {0, 1} /\ x(10) \in {0, 1} /\ x(11) \in {0, 1}
  BY <1>2
<1>. DEFINE p(b) == Bit(b \in Checksum(d))
<1>21. \A b \in 0..11 : p(b) = Cardinality(R(b)) % 2
  BY <1>3
<1>. HIDE DEF p
<1>22. /\ p(0) = (x(0) + x(2) + x(4) + x(5) + x(6) + x(10) + x(11)) % 2
       /\ p(1) = (x(0) + x(1) + x(2) + x(3) + x(4) + x(7) + x(10)) % 2
       /\ p(2) = (x(1) + x(2) + x(3) + x(4) + x(5) + x(8) + x(11)) % 2
       /\ p(3) = (x(0) + x(1) + x(5) + x(6) + x(7) + x(9) + x(10)) % 2
       /\ p(4) = (x(1) + x(2) + x(6) + x(7) + x(8) + x(10) + x(11)) % 2
       /\ p(5) = (x(0) + x(1) + x(4) + x(8) + x(9) + x(10) + x(11)) % 2
       /\ p(6) = (x(0) + x(3) + x(4) + x(5) + x(7) + x(9) + x(11)) % 2
       /\ p(7) = (x(0) + x(2) + x(3) + x(5) + x(6) + x(7) + x(8)) % 2
       /\ p(8) = (x(1) + x(3) + x(4) + x(6) + x(7) + x(8) + x(9)) % 2
       /\ p(9) = (x(2) + x(4) + x(5) + x(7) + x(8) + x(9) + x(10)) % 2
       /\ p(10) = (x(3) + x(5) + x(6) + x(8) + x(9) + x(10) + x(11)) % 2
       /\ p(11) = (x(0) + x(1) + x(2) + x(3) + x(6) + x(9) + x(11)) % 2
  BY <1>21, <1>4, <1>5, <1>6, <1>7, <1>8, <1>9, <1>10, <1>11, <1>12, <1>13, <1>14, <1>15
<1>23. Cardinality(d) + Cardinality(Checksum(d)) =
         (x(0) + x(1) + x(2) + x(3) + x(4) + x(5) + x(6) + x(7) + x(8) + x(9) + x(10) + x(11)) +
         (p(0) + p(1) + p(2) + p(3) + p(4) + p(5) + p(6) + p(7) + p(8) + p(9) + p(10) + p(11))
  <2>1. Cardinality(Checksum(d)) = p(0) + p(1) + p(2) + p(3) + p(4) + p(5) + p(6) + p(7) + p(8) +
                                   p(9) + p(10) + p(11)
    BY <1>18 DEF p
  <2>. QED  BY <1>18, <2>1, Zenon
<1>. QED  BY <1>19, <1>20, <1>22, <1>23, WordsAreHeavy

LEMMA MinusBound ==
  ASSUME NEW S, NEW T, IsFiniteSet(S), IsFiniteSet(T)
  PROVE  /\ Cardinality(Minus(S, T)) <= Cardinality(S) + Cardinality(T)
         /\ Cardinality(Minus(S, T)) \in Nat /\ Cardinality(S) \in Nat /\ Cardinality(T) \in Nat
<1>. DEFINE m == Cardinality(Minus(S, T))  s == Cardinality(S)  t == Cardinality(T)  k == Cardinality(S \cap T)
<1>1. m \in Nat /\ s \in Nat /\ t \in Nat /\ k \in Nat /\ m = s + t - 2 * k
  BY MinusSize
<1>. HIDE DEF m, s, t, k
<1>2. m <= s + t
  BY <1>1
<1>. QED  BY <1>1, <1>2 DEF m, s, t

\* The data bits and the parity bits of a word
LEMMA WordParts ==
  ASSUME NEW w \in SUBSET (0..23)
  PROVE  /\ DataOf(w) = {i \in 0..11 : i + 12 \in w} /\ Parity(w) = {i \in 0..11 : i \in w}
         /\ DataOf(w) \in SUBSET (0..11) /\ Parity(w) \in SUBSET (0..11)
<1>1. ASSUME NEW i \in DataOf(w)
      PROVE  i \in 0..11 /\ i + 12 \in w
  <2>1. PICK b \in w \ (0..11) : i = b - 12
    BY DEF DataOf
  <2>2. b \in 12..23
    OBVIOUS
  <2>. QED  BY <2>1, <2>2
<1>2. ASSUME NEW i \in 0..11, i + 12 \in w
      PROVE  i \in DataOf(w)
  <2>1. i + 12 \in w \ (0..11) /\ i = (i + 12) - 12
    BY <1>2
  <2>. QED  BY <2>1 DEF DataOf
<1>3. DataOf(w) = {i \in 0..11 : i + 12 \in w}
  BY <1>1, <1>2
<1>4. Parity(w) = {i \in 0..11 : i \in w}
  BY DEF Parity
<1>. QED  BY <1>3, <1>4

LEMMA WordWeight ==
  ASSUME NEW w \in SUBSET (0..23)
  PROVE  /\ Cardinality(DataOf(w)) \in Nat /\ Cardinality(Parity(w)) \in Nat
         /\ Cardinality(w) = Cardinality(DataOf(w)) + Cardinality(Parity(w))
<1>. DEFINE D == DataOf(w)
            H == {b \in w : b > 11}
            f == [i \in D |-> i + 12]
<1>1. D \in SUBSET (0..11) /\ D = {i \in 0..11 : i + 12 \in w} /\ Parity(w) \in SUBSET (0..11)
  BY WordParts
<1>2. w = H \cup Parity(w) /\ H \cap Parity(w) = {}
  <2>1. \A b \in w : b > 11 <=> b \notin 0..11
    OBVIOUS
  <2>. QED  BY <2>1, Zenon DEF Parity
<1>3. f \in Bijection(D, H)
  <2>1. f \in [D -> H]
    BY <1>1
  <2>2. \A a, b \in D : f[a] = f[b] => a = b
    BY <1>1
  <2>3. \A b \in H : \E a \in D : f[a] = b
    <3>1. ASSUME NEW b \in H PROVE b - 12 \in D /\ f[b - 12] = b
      BY <1>1
    <3>. QED  BY <3>1
  <2>. QED  BY <2>1, <2>2, <2>3, Fun_IsBij
<1>4. IsFiniteSet(D) /\ IsFiniteSet(Parity(w))
  BY <1>1, Weight
<1>5. IsFiniteSet(H) /\ Cardinality(H) = Cardinality(D)
  BY <1>3, <1>4, FS_Bijection DEF ExistsBijection
<1>6. Cardinality(D) \in Nat /\ Cardinality(Parity(w)) \in Nat
  BY <1>4, FS_CardinalityType
<1>. HIDE DEF D, H
<1>7. Cardinality(w) = Cardinality(H) + Cardinality(Parity(w)) - 0
  BY <1>2, <1>4, <1>5, FS_Union, FS_EmptySet
<1>8. Cardinality(w) = Cardinality(D) + Cardinality(Parity(w))
  BY <1>5, <1>6, <1>7
<1>. QED  BY <1>6, <1>8 DEF D

\* SoftDecode24 puts three wrong bits of a word right, whatever the word and wherever they
\* are; SoftDetectErrors finds no other pattern of three, so that the order in which it
\* tries them does not matter (golay.go:164-261, :278).
THEOREM GolayCorrects ==
  ASSUME NEW d \in SUBSET (0..11), NEW w \in SUBSET (0..23),
         Cardinality(Minus(w, Encode24(d))) <= 3
  PROVE  SoftDecode24(w) = d
<1>. DEFINE wrong == Minus(w, Encode24(d))
            e == DataOf(wrong)
            q == Parity(wrong)
            syndrome(f) == Minus(Parity(w), Checksum(Minus(DataOf(w), f)))
<1>1. Checksum(d) \in SUBSET (0..11)
  BY ChecksumIsLinear
<1>2. Encode24(d) \in SUBSET (0..23) /\ wrong \in SUBSET (0..23)
  <2>1. \A i \in d : i + 12 \in 0..23
    OBVIOUS
  <2>2. Encode24(d) \in SUBSET (0..23)
    BY <1>1, <2>1 DEF Encode24
  <2>. QED  BY <2>2 DEF Minus
<1>3. \A i \in 0..11 : (i + 12 \in Encode24(d) <=> i \in d) /\ (i \in Encode24(d) <=> i \in Checksum(d))
  BY <1>1 DEF Encode24
<1>4. e \in SUBSET (0..11) /\ q \in SUBSET (0..11)
  BY <1>2, WordParts
<1>5. DataOf(w) = Minus(d, e) /\ Parity(w) = Minus(Checksum(d), q)
  <2>1. /\ e = {i \in 0..11 : i + 12 \in wrong} /\ q = {i \in 0..11 : i \in wrong}
        /\ DataOf(w) = {i \in 0..11 : i + 12 \in w} /\ Parity(w) = {i \in 0..11 : i \in w}
    BY <1>2, WordParts
  <2>2. \A i \in 0..11 : /\ i + 12 \in wrong <=> ((i + 12 \in w) # (i \in d))
                         /\ i \in wrong <=> ((i \in w) # (i \in Checksum(d)))
    BY <1>3 DEF Minus
  <2>. HIDE DEF e, q, wrong
  <2>3. DataOf(w) \in SUBSET (0..11) /\ Minus(d, e) \in SUBSET (0..11)
    BY <1>4, <2>1 DEF Minus
  <2>4. Parity(w) \in SUBSET (0..11) /\ Minus(Checksum(d), q) \in SUBSET (0..11)
    BY <1>1, <1>4, <2>1 DEF Minus
  <2>5. \A i \in 0..11 : /\ i \in DataOf(w) <=> i \in Minus(d, e)
                         /\ i \in Parity(w) <=> i \in Minus(Checksum(d), q)
    BY <2>1, <2>2 DEF Minus
  <2>. QED  BY <2>3, <2>4, <2>5
<1>6. /\ Cardinality(e) \in Nat /\ Cardinality(q) \in Nat
      /\ Cardinality(e) + Cardinality(q) <= 3
  BY <1>2, WordWeight
<1>. HIDE DEF wrong, e, q
<1>7. syndrome(e) = q
  <2>1. Minus(Minus(d, e), e) = d
    BY DEF Minus
  <2>2. Minus(Minus(Checksum(d), q), Checksum(d)) = q
    BY DEF Minus
  <2>. QED  BY <1>5, <2>1, <2>2
<1>8. ASSUME NEW f \in SUBSET (0..11), Cardinality(f) + Cardinality(syndrome(f)) <= 3
      PROVE  f = e
  <2>. DEFINE x == Minus(e, f)
              s == syndrome(f)
  <2>1. Checksum(x) = Minus(Checksum(e), Checksum(f)) /\ x \in SUBSET (0..11)
    BY <1>4, ChecksumIsLinear
  <2>2. Checksum(Minus(Minus(d, e), f)) = Minus(Minus(Checksum(d), Checksum(e)), Checksum(f))
    BY <1>4, ChecksumIsLinear
  <2>3. Checksum(x) = Minus(q, s)
    <3>1. s = Minus(Minus(Checksum(d), q), Minus(Minus(Checksum(d), Checksum(e)), Checksum(f)))
      BY <1>5, <2>2
    <3>2. Minus(q, Minus(Minus(Checksum(d), q), Minus(Minus(Checksum(d), Checksum(e)), Checksum(f))))
            = Minus(Checksum(e), Checksum(f))
      BY DEF Minus
    <3>. QED  BY <2>1, <3>1, <3>2, Zenon
  <2>4. s \in SUBSET (0..11)
    <3>1. Minus(DataOf(w), f) \in SUBSET (0..11)
      BY <1>4, <1>5 DEF Minus
    <3>2. Checksum(Minus(DataOf(w), f)) \in SUBSET (0..11)
      BY <3>1, ChecksumIsLinear
    <3>. QED  BY <1>1, <1>4, <1>5, <3>2 DEF Minus
  <2>5. IsFiniteSet(e) /\ IsFiniteSet(f) /\ IsFiniteSet(q) /\ IsFiniteSet(s)
    BY <1>4, <2>4, Weight
  <2>. HIDE DEF s
  <2>6. /\ Cardinality(x) <= Cardinality(e) + Cardinality(f) /\ Cardinality(x) \in Nat
        /\ Cardinality(e) \in Nat /\ Cardinality(f) \in Nat
    BY <2>5, MinusBound, Zenon
  <2>7. /\ Cardinality(Checksum(x)) <= Cardinality(q) + Cardinality(s) /\ Cardinality(Checksum(x)) \in Nat
        /\ Cardinality(q) \in Nat /\ Cardinality(s) \in Nat
    BY <2>3, <2>5, MinusBound, Zenon
  <2>8. Cardinality(f) + Cardinality(s) <= 3
    BY <1>8 DEF s
  <2>9. x = {}
    <3>. HIDE DEF x
    <3>1. ~(Cardinality(x) + Cardinality(Checksum(x)) >= 7)
      BY <1>6, <2>6, <2>7, <2>8
    <3>. QED  BY <2>1, <3>1, HeavyWords
  <2>. QED  BY <2>9 DEF Minus
<1>9. e \in FewBits
  <2>1. Cardinality(e) \in 0..3
    BY <1>6
  <2>. QED  BY <1>4, <2>1 DEF FewBits, kSubset
<1>10. \A f \in FewBits : f \in SUBSET (0..11)
  BY DEF FewBits, kSubset
<1>11. SoftDetectErrors(w) = {[data |-> e, parity |-> q]}
  <2>1. {f \in FewBits : Cardinality(f) + Cardinality(syndrome(f)) <= 3} = {e}
    BY <1>6, <1>7, <1>8, <1>9, <1>10
  <2>2. SoftDetectErrors(w) = {[data |-> f, parity |-> syndrome(f)] :
                                 f \in {g \in FewBits : Cardinality(g) + Cardinality(syndrome(g)) <= 3}}
    BY DEF SoftDetectErrors
  <2>. QED  BY <1>7, <2>1, <2>2
<1>12. SoftDecode24(w) = Minus(DataOf(w), e)
  <2>. DEFINE found == SoftDetectErrors(w)
              g == CHOOSE f \in found : TRUE
  <2>1. found # {} /\ g \in found
    BY <1>11
  <2>2. SoftDecode24(w) = Minus(DataOf(w), g.data)
    BY <2>1 DEF SoftDecode24
  <2>. HIDE DEF g
  <2>3. g.data = e
    BY <1>11, <2>1
  <2>. QED  BY <2>2, <2>3
<1>. QED  BY <1>5, <1>12 DEF Minus
-----------------------------------------------------------------------------
(* The LICH                                                                *)

\* Bits that are eight places apart fit a word three times.
LEMMA FarApart ==
  ASSUME NEW S \in SUBSET (0..23), \A x, y \in S : x # y => x - y >= 8 \/ y - x >= 8
  PROVE  Cardinality(S) <= 3
<1>. DEFINE f == [x \in S |-> x \div 8]
<1>1. f \in [S -> 0..2]
  OBVIOUS
<1>2. \A x, y \in S : f[x] = f[y] => x = y
  OBVIOUS
<1>3. f \in Injection(S, 0..2)
  BY <1>1, <1>2 DEF Injection, IsInjective
<1>4. IsFiniteSet(0..2) /\ Cardinality(0..2) = 3
  <2>. DEFINE n == 2
  <2>1. n \in Nat /\ n + 1 = 3
    OBVIOUS
  <2>. HIDE DEF n
  <2>2. IsFiniteSet(0..n) /\ Cardinality(0..n) = n + 1
    BY <2>1, FS_Interval
  <2>. QED  BY <2>1, <2>2 DEF n
<1>. QED  BY <1>3, <1>4, FS_Injection

\* What a burst of up to 19 symbols makes wrong is eight places apart.
LEMMA WrongFarApart ==
  ASSUME FrameInv, step # "air", burst.count <= 19,
         NEW j \in WrongBits, NEW k \in WrongBits, j # k
  PROVE  j - k >= 8 \/ k - j >= 8
<1>. SUFFICES ASSUME ~(j - k >= 8), ~(k - j >= 8) PROVE FALSE
  OBVIOUS
<1>. DEFINE a == interleaveSequence(j)  b == interleaveSequence(k)
<1>1. j \in Bits /\ k \in Bits /\ j \in Int /\ k \in Int
  BY DEF WrongBits, Bits
<1>2. a - b >= 39 \/ b - a >= 39
  <2>1. CASE j < k
    BY <1>1, <2>1, Spread
  <2>2. CASE k < j
    BY <1>1, <2>2, Spread
  <2>. QED  BY <1>1, <2>1, <2>2
<1>3. Strikes(a) /\ Strikes(b)
  BY WrongIsStruck DEF FrameInv, Received
<1>4. a \in Bits /\ b \in Bits
  BY <1>1, Involution
<1>. HIDE DEF a, b
<1>5. a - b < 38 /\ b - a < 38 /\ a \in Nat /\ b \in Nat
  <2>. DEFINE f == burst.first  c == burst.count
  <2>1. (a \div 2) - f \in 0 .. (c - 1) /\ (b \div 2) - f \in 0 .. (c - 1)
    BY <1>3 DEF Strikes
  <2>2. f \in Int /\ c \in Int /\ c <= 19
    BY DEF FrameInv, BurstOK, Symbols
  <2>3. a \in Nat /\ b \in Nat
    BY <1>4 DEF Bits
  <2>. HIDE DEF f, c
  <2>. QED  BY <2>1, <2>2, <2>3
<1>. QED  BY <1>2, <1>5

\* The bits of a word of the LICH that are heard wrong are those of the frame.
LEMMA WordHeard ==
  ASSUME kind = "Stream", NEW n \in 0..3
  PROVE  LET w == {b \in 0..23 : frame[24 * n + 23 - b] > softMaybe}
             d == Block(lich, n)
         IN  /\ d \in SUBSET (0..11) /\ w \in SUBSET (0..23)
             /\ Minus(w, Encode24(d)) = {b \in 0..23 : 24 * n + 23 - b \in WrongBits}
<1>. DEFINE w == {b \in 0..23 : frame[24 * n + 23 - b] > softMaybe}
            d == Block(lich, n)
<1>1. d \in SUBSET (0..11)
  BY DEF Block
<1>2. Encode24(d) \in SUBSET (0..23)
  <2>1. Checksum(d) \in SUBSET (0..11)
    BY <1>1, ChecksumIsLinear
  <2>2. \A i \in d : i + 12 \in 0..23
    BY <1>1
  <2>. QED  BY <2>1, <2>2 DEF Encode24
<1>3. ASSUME NEW b \in 0..23
      PROVE  b \in Minus(w, Encode24(d)) <=> 24 * n + 23 - b \in WrongBits
  <2>. DEFINE j == 24 * n + 23 - b
  <2>1. j \in 0..95 /\ j \div 24 = n /\ 23 - (j % 24) = b
    <3>1. n = 0 \/ n = 1 \/ n = 2 \/ n = 3
      OBVIOUS
    <3>. QED  BY <3>1
  <2>. HIDE DEF j
  <2>2. j \in Bits
    BY <2>1 DEF Bits, BitsPerPayload
  <2>3. EncodedBit(j) = Bit(b \in Encode24(d))
    BY <2>1 DEF EncodedBit, LichBits, EncodeLICH
  <2>4. EncodedBit(j) = 1 <=> b \in Encode24(d)
    BY <2>3 DEF Bit
  <2>5. j \in WrongBits <=> ((frame[j] > softMaybe) # (b \in Encode24(d)))
    BY <2>2, <2>4 DEF WrongBits
  <2>6. b \in w <=> frame[j] > softMaybe
    BY DEF j
  <2>. HIDE DEF w, d
  <2>. QED  BY <2>5, <2>6 DEF Minus, j
<1>4. Minus(w, Encode24(d)) \in SUBSET (0..23)
  BY <1>2 DEF Minus
<1>. QED  BY <1>1, <1>3, <1>4

\* The bits of the LICH, and what DecodeLICH has made of it
LICHHeard ==
  /\ lich \in (IF kind = "Stream" THEN [1..48 -> {0, 1}] ELSE {<<>>})
  /\ step # "air" => gotLich = IF kind = "Stream" THEN DecodeLICH(frame) ELSE <<>>

LEMMA LICHDecodes ==
  ASSUME FrameInv, LICHHeard, kind = "Stream", step # "air", burst.count <= 19
  PROVE  gotLich = lich
<1>. DEFINE word(n) == {b \in 0..23 : frame[24 * n + 23 - b] > softMaybe}
<1>1. ASSUME NEW n \in 0..3
      PROVE  SoftDecode24(word(n)) = Block(lich, n)
  <2>. DEFINE S == {b \in 0..23 : 24 * n + 23 - b \in WrongBits}
  <2>1. /\ Block(lich, n) \in SUBSET (0..11) /\ word(n) \in SUBSET (0..23)
        /\ Minus(word(n), Encode24(Block(lich, n))) = S
    BY WordHeard
  <2>2. ASSUME NEW x \in S, NEW y \in S, x # y
        PROVE  x - y >= 8 \/ y - x >= 8
    <3>. DEFINE j == 24 * n + 23 - x  k == 24 * n + 23 - y
    <3>1. j \in WrongBits /\ k \in WrongBits
      OBVIOUS
    <3>2. x \in Int /\ y \in Int /\ j \in Int /\ k \in Int /\ j - k = y - x
      OBVIOUS
    <3>. HIDE DEF j, k
    <3>3. j # k
      BY <2>2, <3>2
    <3>4. j - k >= 8 \/ k - j >= 8
      BY <3>1, <3>3, WrongFarApart
    <3>. QED  BY <3>2, <3>4
  <2>3. Cardinality(S) <= 3
    <3>1. S \in SUBSET (0..23)
      OBVIOUS
    <3>. HIDE DEF S
    <3>. QED  BY <2>2, <3>1, FarApart
  <2>. HIDE DEF S, word
  <2>. QED  BY <2>1, <2>3, GolayCorrects
<1>2. gotLich = [i \in 1..48 |-> Bit(11 - ((i - 1) % 12) \in SoftDecode24(word((i - 1) \div 12)))]
  BY DEF LICHHeard, DecodeLICH
<1>. HIDE DEF word
<1>3. ASSUME NEW i \in 1..48
      PROVE  Bit(11 - ((i - 1) % 12) \in SoftDecode24(word((i - 1) \div 12))) = lich[i]
  <2>. DEFINE n == (i - 1) \div 12
              b == 11 - ((i - 1) % 12)
  <2>1. n \in 0..3 /\ b \in 0..11 /\ 12 * n + 12 - b = i
    OBVIOUS
  <2>. HIDE DEF n, b
  <2>2. b \in SoftDecode24(word(n)) <=> lich[i] = 1
    BY <1>1, <2>1 DEF Block
  <2>3. lich[i] \in {0, 1}
    BY DEF LICHHeard
  <2>. QED  BY <2>2, <2>3 DEF Bit, n, b
<1>4. lich = [i \in 1..48 |-> lich[i]]
  BY DEF LICHHeard
<1>. QED  BY <1>2, <1>3, <1>4

LEMMA LICHStep == FrameInv /\ LICHHeard /\ [Next]_vars => LICHHeard'
<1>. SUFFICES ASSUME FrameInv, LICHHeard, [Next]_vars PROVE LICHHeard'
  OBVIOUS
<1>1. CASE Decode
  BY <1>1 DEF Decode, LICHHeard
<1>2. CASE Strike
  BY <1>2 DEF Strike, LICHHeard
<1>3. CASE decodeBit \/ Chain \/ chainback \/ Decoded \/ UNCHANGED vars
  <2>1. UNCHANGED <<kind, lich, frame, gotLich>> /\ (step' # "air" => step # "air")
    BY <1>3 DEF decodeBit, Chain, chainback, Decoded, vars
  <2>. QED  BY <2>1 DEF LICHHeard
<1>. QED  BY <1>1, <1>2, <1>3 DEF Next

LEMMA InitLICH == Init => LICHHeard
<1>. SUFFICES ASSUME Init PROVE LICHHeard
  OBVIOUS
<1>1. step = "air"
  BY DEF Init
<1>2. CASE kind = "Stream"
  <2>1. PICK l \in LSDs, fn \in FrameNumbers : lich = extractLICH((fn % 32768) % 6, WithCRC(l))
    BY <1>2 DEF Init
  <2>. DEFINE c == (fn % 32768) % 6
              s == WithCRC(l)
              part == SubSeq(s, 40 * c + 1, 40 * c + 40)
              tail == Number(c, 3)
              rest == Number(0, 5)
  <2>2. c \in 0..5
    BY NumberData
  <2>3. s \in Seq({0, 1}) /\ Len(s) = 240
    BY SetupWithCRC
  <2>4. tail \in Seq({0, 1}) /\ Len(tail) = 3 /\ rest \in Seq({0, 1}) /\ Len(rest) = 5
    <3>. HIDE DEF c
    <3>1. c \in Nat /\ 0 \in Nat /\ 3 \in Nat /\ 5 \in Nat
      BY <2>2
    <3>. QED  BY <3>1, Numbers, Zenon
  <2>. HIDE DEF c, s, tail, rest
  <2>6. part \in Seq({0, 1}) /\ Len(part) = 40
    <3>. DEFINE m == 40 * c + 1
                n == 40 * c + 40
    <3>1. m \in Int /\ n \in Int /\ m <= n /\ n - m + 1 = 40
      BY <2>2
    <3>4. s \in Seq({0, 1}) /\ \A i \in m..n : i \in 1 .. Len(s)
      BY <2>2, <2>3
    <3>. HIDE DEF m, n
    <3>2. \A i \in m..n : s[i] \in {0, 1}
      BY <3>4, ElementOfSeq, Zenon
    <3>3. SubSeq(s, m, n) \in Seq({0, 1}) /\ Len(SubSeq(s, m, n)) = n - m + 1
      <4>1. m \in Int /\ n \in Int
        BY <3>1
      <4>2. /\ SubSeq(s, m, n) \in Seq({0, 1})
            /\ Len(SubSeq(s, m, n)) = IF m <= n THEN n - m + 1 ELSE 0
        BY <3>2, <4>1, SubSeqProperties, Zenon
      <4>. QED  BY <3>1, <4>2
    <3>. QED  BY <3>1, <3>3 DEF m, n
  <2>. HIDE DEF part
  <2>7. lich = part \o tail \o rest
    BY <2>1 DEF extractLICH, part, tail, rest, c, s
  <2>8. lich \in Seq({0, 1}) /\ Len(lich) = (Len(part) + Len(tail)) + Len(rest)
    <3>1. part \o tail \in Seq({0, 1}) /\ Len(part \o tail) = Len(part) + Len(tail)
      BY <2>4, <2>6, JoinedBits, Zenon
    <3>. QED  BY <2>4, <2>7, <3>1, JoinedBits, Zenon
  <2>9. lich \in [1..48 -> {0, 1}]
    <3>1. Len(lich) = 48
      BY <2>4, <2>6, <2>8
    <3>2. lich \in [1 .. Len(lich) -> {0, 1}]
      BY <2>8, LenProperties, Zenon
    <3>. QED  BY <3>1, <3>2, Zenon
  <2>. QED  BY <1>1, <1>2, <2>9 DEF LICHHeard
<1>3. CASE kind # "Stream"
  BY <1>1, <1>3 DEF Init, LICHHeard
<1>. QED  BY <1>2, <1>3
-----------------------------------------------------------------------------
(* The theorems                                                            *)

\* The errors a decoder reports are never more than the bits the burst has damaged,
\* for a burst of any length: decode's cost is the least metric, so no more than that
\* of the path that was sent (codec.go:498, decoder.go:236, :272, :297).
THEOREM ErrorsStayBounded == Spec => []ErrorsBounded
BY FrameInvariant, InvBoundsErrors, PTL

\* The interleaver keeps what a burst of up to four symbols makes wrong 39 places
\* apart, in every frame (codec.go:213).
THEOREM ErrorsStayApart == Spec => []ErrorsApart
BY FrameInvariant, InvSpreadsErrors, PTL

\* No sum of ViterbiDecoder's uint32 metrics wraps, whatever is heard (codec.go:431).
THEOREM MetricsStayFit == Spec => []MetricsFit
<1>1. FrameInv => MetricsFit
  BY DEF FrameInv
<1>. QED  BY <1>1, FrameInvariant, PTL

\* chainback indexes history only where decodeBit wrote it, and returns as many bits
\* as were sent, whatever is heard (codec.go:479).
THEOREM ChainbackStaysInRange == Spec => []ChainbackInRange
<1>1. FrameInv => ChainbackInRange
  BY DEF FrameInv
<1>. QED  BY <1>1, FrameInvariant, PTL

\* Bursts of up to 19 symbols leave the LICH as it was sent (golay.go:307): what they make
\* wrong is eight places apart, which is three bits of a Golay word at most.
THEOREM LICHStaysWhole == Spec => []LICHSurvives
<1>1. FrameInv /\ LICHHeard => LICHSurvives
  <2>. SUFFICES ASSUME FrameInv, LICHHeard, step # "air", burst.count <= 19 PROVE gotLich = lich
    BY DEF LICHSurvives
  <2>1. CASE kind # "Stream"
    BY <2>1 DEF LICHHeard
  <2>. QED  BY <2>1, LICHDecodes
<1>2. Spec => []LICHHeard
  BY InitLICH, LICHStep, FrameInvariant, PTL DEF Spec
<1>. QED  BY <1>1, <1>2, FrameInvariant, PTL
=============================================================================
