------------------------------- MODULE Frame -------------------------------
(***************************************************************************)
(* From the bytes of a frame to bits on the air and back: codec.go,        *)
(* golay.go, crc.go, the frame generators of modem.go and packet.go and    *)
(* the frame decoders of decoder.go, bit by bit and in their real sizes.   *)
(* On the air a burst strikes some symbols in a row.                       *)
(***************************************************************************)
EXTENDS Integers, SequencesExt

CONSTANTS
  LSDs,          \* link setup data: sequences of 224 bits
  FrameNumbers,  \* numbers of stream frames
  Payloads,      \* payloads of stream frames: sequences of 128 bits
  Chunks,        \* packet frames: sequences of 206 bits, the last 6 metadata
  Bursts         \* bursts: the first symbol they strike, how many, and how
                 \* ("mirrored", "opposite" or "lost")

VARIABLES
  kind,     \* "LSF", "Stream" or "Packet"
  data,     \* the bits the convolutional code protects
  lich,     \* the bits Golay protects, in a stream frame
  burst,    \* the burst that strikes the frame, or NoBurst
  frame,    \* the 184 symbols on the air, the 368 soft bits once they are heard
  step,     \* "air", "decode" or "done"
  metrics,  \* ViterbiDecoder's prevMetrics
  history,  \* and history: the states whose bit is set, for each position
  state,    \* the state chainback has come to
  gotData, gotLich, errors   \* what the decoder returns

vars == <<kind, data, lich, burst, frame, step, metrics, history, state, gotData, gotLich, errors>>

BitsPerPayload == 368
Bits == 0 .. BitsPerPayload - 1
Symbols == 0..183

ASSUME FrameAssumption ==
  /\ LSDs \subseteq [1..224 -> {0, 1}]
  /\ FrameNumbers \subseteq 0 .. (2^16 - 1)
  /\ Payloads \subseteq [1..128 -> {0, 1}]
  /\ Chunks \subseteq [1..206 -> {0, 1}]
  /\ Bursts \subseteq [first : Symbols, count : Nat, how : {"mirrored", "opposite", "lost"}]

NoBurst == [first |-> 0, count |-> 0, how |-> "lost"]
softTrue == 65535
softMaybe == softTrue \div 2
Minus(s, t) == (s \ t) \cup (t \ s)
Bit(b) == IF b THEN 1 ELSE 0
-----------------------------------------------------------------------------
(* crc.go: a register of 16 bits, as the set of those that are one         *)

Poly == {0, 2, 4, 5, 8, 11, 12, 14}

\* Mutant of Shifted: the polynomial is left out.
ShiftedOnly(r) == {b + 1 : b \in r \ {15}}

Shifted(r) == LET up == {b + 1 : b \in r \ {15}} IN IF 15 \in r THEN Minus(up, Poly) ELSE up
table == [byte \in SUBSET (0..7) |->
            LET r[n \in 0..8] == IF n = 0 THEN {b + 8 : b \in byte} ELSE Shifted(r[n - 1])
            IN r[8]]
CRC(bits) ==
  LET byte(n) == {b \in 0..7 : bits[8 * n - b] = 1}
      register[n \in 0 .. (Len(bits) \div 8)] ==
        IF n = 0 THEN 0..15
        ELSE LET r == register[n - 1]
             IN Minus({b + 8 : b \in r \cap (0..7)},
                      table[Minus({b - 8 : b \in r \ (0..7)}, byte(n))])
  IN register[Len(bits) \div 8]

WithCRC(bits) == LET r == CRC(bits) IN bits \o [i \in 1..16 |-> Bit(16 - i \in r)]
-----------------------------------------------------------------------------
(* golay.go: words of 24 bits, as sets *)

encodeMatrix ==
  <<{0, 1, 3, 5, 6, 7, 11}, {1, 2, 3, 4, 5, 8, 11}, {0, 1, 2, 4, 7, 9, 11},
    {1, 2, 6, 7, 8, 10, 11}, {0, 1, 2, 5, 6, 8, 9}, {0, 2, 3, 6, 7, 9, 10},
    {0, 3, 4, 7, 8, 10, 11}, {1, 3, 4, 6, 7, 8, 9}, {2, 4, 5, 7, 8, 9, 10},
    {3, 5, 6, 8, 9, 10, 11}, {0, 1, 3, 4, 5, 9, 10}, {0, 2, 4, 5, 6, 10, 11}>>

Checksum(d) == {b \in 0..11 : Cardinality({i \in d : b \in encodeMatrix[i + 1]}) % 2 = 1}
Encode24(d) == {i + 12 : i \in d} \cup Checksum(d)
DataOf(word) == {b - 12 : b \in word \ (0..11)}
Parity(word) == word \cap (0..11)

\* Mutant of FewBits: only single data bits are tried.
OneBit == UNION {kSubset(n, 0..11) : n \in 0..1}

\* The data bits and the parity bits in error; at most three, tried by data bits.
FewBits == UNION {kSubset(n, 0..11) : n \in 0..3}
SoftDetectErrors(word) ==
  LET syndrome(e) == Minus(Parity(word), Checksum(Minus(DataOf(word), e)))
  IN {[data |-> e, parity |-> syndrome(e)] :
        e \in {f \in FewBits : Cardinality(f) + Cardinality(syndrome(f)) <= 3}}

\* An uncorrectable word's data bits are taken as they are (DecodeLICH).
SoftDecode24(word) ==
  LET found == SoftDetectErrors(word)
  IN IF found = {} THEN DataOf(word) ELSE Minus(DataOf(word), (CHOOSE f \in found : TRUE).data)

\* Four blocks; bits go out the highest first.
Block(bits, n) == {b \in 0..11 : bits[12 * n + 12 - b] = 1}
EncodeLICH(bits, j) == Bit(23 - (j % 24) \in Encode24(Block(bits, j \div 24)))
DecodeLICH(in) ==
  LET word(n) == {b \in 0..23 : in[24 * n + 23 - b] > softMaybe}
      block == [n \in 0..3 |-> SoftDecode24(word(n))]
  IN [i \in 1..48 |-> Bit(11 - ((i - 1) % 12) \in block[(i - 1) \div 12])]
-----------------------------------------------------------------------------
(* codec.go: convolutional code, puncturing, interleaving, randomizing     *)

PuncturePattern ==
  [LSF    |-> [len |-> 61, out |-> {p \in 0..60 : p % 4 = 2}],
   Stream |-> [len |-> 12, out |-> {11}],
   Packet |-> [len |-> 8,  out |-> {7}]]
LichBits == [LSF |-> 0, Stream |-> 96, Packet |-> 0]

Kept(p) == p % PuncturePattern[kind].len \notin PuncturePattern[kind].out
\* How many are kept before p, and the place of the n-th bit that is kept
Rank(p) ==
  LET pattern == PuncturePattern[kind]
  IN p - (p \div pattern.len) * Cardinality(pattern.out)
       - Cardinality({o \in pattern.out : o < p % pattern.len})
Place(n) == CHOOSE p \in n .. 2 * n + 1 : Kept(p) /\ Rank(p) = n

\* Bit p of the code: four zeros lead and trail the data.
ConvolutionalEncode(p) ==
  LET u(i) == IF i \in 4..(Len(data) + 3) THEN data[i - 3] ELSE 0
      i == p \div 2
  IN IF p % 2 = 0 THEN (u(i + 4) + u(i + 1) + u(i)) % 2
                  ELSE (u(i + 4) + u(i + 3) + u(i + 2) + u(i)) % 2

\* Mutant of interleaveSequence: bits are left where they are.
InOrder(i) == i

interleaveSequence(i) == (45 * i + 92 * i * i) % BitsPerPayload

randomizeSeq ==
  <<214, 181, 226, 48, 130, 255, 132, 98, 186, 78, 150, 144, 216, 152, 221, 93,
    12, 200, 82, 67, 145, 29, 248, 110, 104, 47, 53, 218, 20, 234, 205, 118,
    25, 141, 213, 128, 209, 51, 135, 19, 87, 24, 45, 41, 120, 195>>
Flip(i) == Bit((randomizeSeq[i \div 8 + 1] \div 2 ^ (7 - (i % 8))) % 2 = 1)

\* The payload, as it is coded, interleaved and randomized
EncodedBit(j) ==
  IF j < LichBits[kind] THEN EncodeLICH(lich, j)
  ELSE ConvolutionalEncode(Place(j - LichBits[kind]))
RandomizedBit(i) == (EncodedBit(interleaveSequence(i)) + Flip(i)) % 2

SymbolMap == <<1, 3, -1, -3>>
AppendBits == [n \in Symbols |-> SymbolMap[2 * RandomizedBit(2 * n) + RandomizedBit(2 * n + 1) + 1]]

\* On the air: the sign is wrong, or both bits are, or nothing is left.
Struck(sym, how) ==
  CASE how = "mirrored" -> -sym
    [] how = "opposite" -> IF sym > 0 THEN sym - 4 ELSE sym + 4
    [] how = "lost"     -> 0

\* decoder.go, for the symbols between those of the alphabet too
calcSoftbits(i) ==
  LET sym == frame[i \div 2]
      level == IF sym < 0 THEN -sym ELSE sym
  IN IF i % 2 = 1
     THEN CASE level >= 3 -> softTrue [] level = 2 -> softMaybe [] OTHER -> 0
     ELSE CASE sym >= 1 -> 0 [] sym < -1 -> softTrue [] OTHER -> (2 * softMaybe - sym * softTrue) \div 2

DerandomizeSoftBits(i) == IF Flip(i) = 1 THEN softTrue - calcSoftbits(i) ELSE calcSoftbits(i)
DeinterleaveSoftBits == [j \in Bits |-> DerandomizeSoftBits(interleaveSequence(j))]

Unpunctured(p) ==
  IF Kept(p) THEN frame[LichBits[kind] + Rank(p)] ELSE softMaybe
-----------------------------------------------------------------------------
(* ViterbiDecoder *)

Metrics0 == [s \in 0..15 |-> 0]
Positions == Len(data) + 4

\* Mutant of costTable1: one entry is wrong.
costTable1Slip(i) == IF i \in {1, 2, 5, 7} THEN softTrue ELSE 0

costTable0(i) == IF i > 3 THEN softTrue ELSE 0
costTable1(i) == IF i \in {1, 2, 5, 6} THEN softTrue ELSE 0
absDiff(a, b) == IF a > b THEN a - b ELSE b - a

\* The metrics of state s over its two predecessors, the lower and the upper
Paths(sb0, sb1) ==
  [s \in 0..15 |->
     LET i == s \div 2
         metric == absDiff(costTable0(i), sb0) + absDiff(costTable1(i), sb1)
         branch == IF s % 2 = 0 THEN metric ELSE 2 * softTrue - metric
     IN <<metrics[i] + branch, metrics[i + 8] + 2 * softTrue - branch>>]

decodeBit ==
  /\ step = "decode" /\ Len(history) < Positions
  /\ LET pos == Len(history)
         paths == Paths(Unpunctured(2 * pos), Unpunctured(2 * pos + 1))
     IN /\ metrics' = [s \in 0..15 |-> IF paths[s][1] >= paths[s][2] THEN paths[s][2] ELSE paths[s][1]]
        /\ history' = Append(history, {s \in 0..15 : paths[s][1] >= paths[s][2]})
  /\ UNCHANGED <<kind, data, lich, burst, frame, step, state, gotData, gotLich, errors>>

\* From the last position back, where the state is 0; the first four are no data.
chainback ==
  /\ step = "chainback" /\ Len(gotData) < Len(data)
  /\ LET bit == Bit(state \in history[Positions - Len(gotData)])
     IN state' = (state \div 2) + 8 * bit /\ gotData' = <<bit>> \o gotData
  /\ UNCHANGED <<kind, data, lich, burst, frame, step, metrics, history, gotLich, errors>>

cost == (Min({metrics[s] : s \in 0..15}) \div softMaybe) \div 2

\* What the punctured bits cost
CostOfPuncturing == [LSF |-> 61 - 1, Stream |-> 12, Packet |-> 8]
-----------------------------------------------------------------------------
(* Frames: generateLSFBits, generateStreamBits, a chunk of Packet.Encode   *)

Number(n, width) == [i \in 1..width |-> Bit((n \div 2 ^ (width - i)) % 2 = 1)]

extractLICH(cnt, lsf) == SubSeq(lsf, 40 * cnt + 1, 40 * cnt + 40) \o Number(cnt, 3) \o Number(0, 5)

Init ==
  /\ \/ kind = "LSF" /\ lich = <<>> /\ data \in {WithCRC(l) : l \in LSDs}
     \/ /\ kind = "Stream"
        /\ \E l \in LSDs, fn \in FrameNumbers, p \in Payloads :
             /\ lich = extractLICH((fn % 32768) % 6, WithCRC(l))
             /\ data = Number(fn, 16) \o p
     \/ kind = "Packet" /\ lich = <<>> /\ data \in Chunks
  /\ burst = NoBurst /\ step = "air" /\ frame = AppendBits
  /\ metrics = Metrics0 /\ history = <<>> /\ state = 0
  /\ gotData = <<>> /\ gotLich = <<>> /\ errors = 0

Strike == \E b \in Bursts :
  /\ step = "air" /\ burst = NoBurst
  /\ burst' = b
  /\ frame' = [n \in Symbols |-> IF n - b.first \in 0 .. (b.count - 1) THEN Struck(frame[n], b.how) ELSE frame[n]]
  /\ UNCHANGED <<kind, data, lich, step, metrics, history, state, gotData, gotLich, errors>>

\* decodeLSF, decodeStreamFrame and decodePacketFrame: the LICH first,
Decode ==
  /\ step = "air" /\ step' = "decode"
  /\ frame' = DeinterleaveSoftBits
  /\ gotLich' = IF kind = "Stream" THEN DecodeLICH(frame') ELSE <<>>
  /\ UNCHANGED <<kind, data, lich, burst, metrics, history, state, gotData, errors>>

\* then the data.
Chain ==
  /\ step = "decode" /\ Len(history) = Positions
  /\ step' = "chainback"
  /\ UNCHANGED <<kind, data, lich, burst, frame, metrics, history, state, gotData, gotLich, errors>>

Decoded ==
  /\ step = "chainback" /\ Len(gotData) = Len(data)
  /\ step' = "done" /\ errors' = cost - CostOfPuncturing[kind]
  /\ UNCHANGED <<kind, data, lich, burst, frame, metrics, history, state, gotData, gotLich>>

Next == Strike \/ Decode \/ decodeBit \/ Chain \/ chainback \/ Decoded
Spec == Init /\ [][Next]_vars
-----------------------------------------------------------------------------
(* Properties *)

\* The burst strikes the symbol of bit i, and inverts the bit.
Strikes(i) == (i \div 2) - burst.first \in 0 .. (burst.count - 1)
Inverts(i) == Strikes(i) /\ (burst.how = "opposite" \/ (burst.how = "mirrored" /\ i % 2 = 0))

\* The bits of the code that are inverted, and those that are inverted or lost
CodeBits == {j \in Bits : j >= LichBits[kind]}
Inverted == {j \in CodeBits : Inverts(interleaveSequence(j))}
Damaged ==
  {j \in CodeBits : LET i == interleaveSequence(j) IN Inverts(i) \/ (Strikes(i) /\ burst.how = "lost")}

\* The decoder prefers no state for the first, so that the link setup frame's
\* first coded bits are hardly protected.
Unprotected == IF kind = "LSF" THEN {interleaveSequence(j) \div 2 : j \in 0..11} ELSE {}
Spared == Unprotected \cap (burst.first .. (burst.first + burst.count - 1)) = {}

\* Wherever a burst of up to four symbols strikes a frame, its data come out as they went
\* in (codec.go:240, :430); and when they do, the errors reported are the bits the burst
\* has inverted, for what the decoder takes off for the punctured bits is what these
\* cost (decoder.go:236, :272). A packet frame's count is 18 too high (:297).
SurvivesBurst ==
  step = "done" /\ burst.count <= 4 =>
    /\ Spared => gotData = data
    /\ gotData = data /\ kind # "Packet" /\ burst.how # "lost" => errors = Cardinality(Inverted)

\* The LICH comes through bursts of up to 19 symbols, a tenth of the frame: interleaving
\* keeps what such a burst makes wrong so far apart that no Golay word has more wrong
\* bits than are put right, be they data or parity (codec.go:213, golay.go:164, :307).
LICHSurvives == step # "air" /\ burst.count <= 19 => gotLich = lich

\* No more errors are reported than the burst has damaged bits, be it as long as it
\* may and whatever comes out: the decoder's path costs no more than what was sent
\* (codec.go:430, decoder.go:236). Packet frames: 18 more (:297).
ErrorsBounded ==
  step = "done" => errors <= Cardinality(Damaged) + (IF kind = "Packet" THEN 18 ELSE 0)

\* A link setup frame that comes out wrong, be it one that a long burst struck,
\* fails the CRC the decoder looks at (decoder.go:102, lsf.go:187).
WrongLSFRefused ==
  step = "done" /\ kind = "LSF" /\ gotData # data => CRC(gotData) # {}
=============================================================================
