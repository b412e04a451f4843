-------------------------- MODULE RFDecoder_proofs --------------------------
(***************************************************************************)
(* Proofs about RFDecoder, for every width, timeout and set of frames.     *)
(*                                                                         *)
(* DecodeFrame is a composition of functions on the decoder's state, so    *)
(* the argument follows it: a lemma per function says what it keeps (Good) *)
(* and what it reports, and the steps of the theorems compose them.        *)
(* Then RFAir: what the decoder makes of stations, one after another, for  *)
(* any number of overs of any length.                                      *)
(***************************************************************************)
EXTENDS RFAir, TLAPS

\* A state between two functions of DecodeFrame: typed, and its LSF known
\* wherever the code dereferences it.
Good(s) == s \in DecoderState /\ Known(s)

----------------------------------------------------------------------------
(* The widths *)

\* The constants of uint16 and byte counters are naturals of the sizes expected.
LEMMA Widths ==
  /\ U16 \in Nat /\ U16 > 1 /\ NoFN \in Nat /\ NoFN = U16 - 1
  /\ FNMod \in Nat /\ FNMod > 0 /\ FNMod < U16
  /\ NoPacketFN \in Nat /\ ByteMod \in Nat /\ ByteMod > 0
  /\ MaxMissed \in Nat /\ MaxMissed > 0
BY DecoderAssumption DEF U16, NoFN, NoPacketFN

\* The values that reset() and a new LSF give the counters are in range.
LEMMA IdleValues ==
  /\ NoFN \in 0 .. NoFN /\ 0 \in 0 .. NoFN
  /\ NoPacketFN \in 0 .. NoPacketFN
  /\ 0 \in 0 .. MaxMissed
  /\ {} \in SUBSET Chunks
BY Widths

\* The frame number expected next, and what EOT reports, fit in 16 bits.
LEMMA ExpectedWidth ==
  ASSUME NEW s, s \in DecoderState
  PROVE  /\ Expected(s) \in 0 .. NoFN
         /\ FNMod + (Expected(s) % FNMod) \in 0 .. NoFN
         /\ NextChunk(s) \in 0 .. NoPacketFN
<1>1. s.lastStreamFN \in 0 .. NoFN /\ s.lastPacketFN \in 0 .. NoPacketFN
  BY DEF DecoderState
<1>2. Expected(s) \in 0 .. NoFN
  BY <1>1, Widths DEF Expected
<1>3. (Expected(s) % FNMod) \in 0 .. FNMod - 1
  BY <1>2, Widths
<1>4. FNMod + (Expected(s) % FNMod) \in 0 .. NoFN
  BY <1>3, Widths DEF U16
<1>5. NextChunk(s) \in 0 .. NoPacketFN
  BY <1>1, Widths DEF NextChunk, NoPacketFN
<1>. QED  BY <1>2, <1>4, <1>5

\* The new buffer of a packet.
LEMMA BlankType == Blank \in [Slots -> Contents]
BY DEF Blank, Contents

----------------------------------------------------------------------------
(* The functions DecodeFrame is composed of keep Good *)

\* reset() leads to a good state, whatever the state before.
LEMMA ResetGood ==
  ASSUME NEW s, s \in DecoderState
  PROVE  Good(Reset(s))
<1>1. Reset(s) \in DecoderState
  BY IdleValues DEF Reset, DecoderState
<1>2. ~Reset(s).gotLSF /\ Reset(s).syncedType = "none"
  BY DEF Reset, DecoderState
<1>. QED  BY <1>1, <1>2 DEF Good, Known

\* A callback keeps the state good.
LEMMA CallGood ==
  ASSUME NEW s, Good(s), NEW c \in Callback
  PROVE  Good(Call(s, c))
<1>1. s.out \in Seq(Callback)
  BY DEF Good, DecoderState
<1>2. Append(s.out, c) \in Seq(Callback)
  BY <1>1
<1>. QED  BY <1>2 DEF Good, Known, Call, DecoderState

\* Calls made with a checked LSF and 16-bit numbers are callbacks.
LEMMA CallbackTypes ==
  ASSUME NEW l \in LSFs, NEW sid \in StreamIDs \cup {0}, NEW fn \in 0 .. NoFN
  PROVE  /\ LSFCallback(l) \in Callback
         /\ LICHCallback(l) \in Callback
         /\ StreamCallback(l, sid, fn) \in Callback
         /\ EOTCallback(l, sid, fn) \in Callback
         /\ \A p \in Packets : PacketCallback(l, p) \in Callback
BY DEF Callback

\* The RX timeout keeps the state good.
LEMMA RxTimeoutGood ==
  ASSUME NEW s, Good(s)
  PROVE  Good(RxTimeout(s))
<1>1. CASE s.crashed \/ s.syncedType = "none"
  BY <1>1 DEF RxTimeout
<1>2. CASE ~(s.crashed \/ s.syncedType = "none") /\ s.timeoutCnt < MaxMissed
  <2>1. s.timeoutCnt + 1 \in 0 .. MaxMissed
    BY <1>2, Widths DEF Good, DecoderState
  <2>2. RxTimeout(s) = [s EXCEPT !.timeoutCnt = s.timeoutCnt + 1]
    BY <1>2 DEF RxTimeout
  <2>. QED  BY <2>1, <2>2 DEF Good, Known, DecoderState
<1>3. CASE ~(s.crashed \/ s.syncedType = "none") /\ ~(s.timeoutCnt < MaxMissed)
  <2>1. CASE s.syncedType = "stream" /\ s.gotLSF /\ s.lastStreamFN < FNMod
    <3>1. s.lsf \in LSFs /\ s.streamID \in StreamIDs \cup {0} /\ s.streamFN \in 0 .. NoFN
      BY <2>1 DEF Good, Known, DecoderState
    <3>2. Good(Call(s, EOTCallback(s.lsf, s.streamID, s.streamFN)))
      BY <3>1, CallbackTypes, CallGood
    <3>3. RxTimeout(s) = Reset(Call(s, EOTCallback(s.lsf, s.streamID, s.streamFN)))
      BY <1>3, <2>1 DEF RxTimeout
    <3>. QED  BY <3>2, <3>3, ResetGood DEF Good
  <2>2. CASE ~(s.syncedType = "stream" /\ s.gotLSF /\ s.lastStreamFN < FNMod)
    <3>1. RxTimeout(s) = Reset(s)
      BY <1>3, <2>2 DEF RxTimeout
    <3>. QED  BY <3>1, ResetGood DEF Good
  <2>. QED  BY <2>1, <2>2
<1>. QED  BY <1>1, <1>2, <1>3

\* A link setup frame keeps the state good.
LEMMA OnLSFGood ==
  ASSUME NEW s, Good(s), s.syncedType = "none", NEW f \in LSFFrame, NEW sid \in StreamIDs
  PROVE  Good(OnLSF(s, f, sid))
<1>1. CASE f.lsf = Garbage
  <2>1. OnLSF(s, f, sid) = [s EXCEPT !.lsf = Garbage, !.gotLSF = FALSE]
    BY <1>1 DEF OnLSF
  <2>2. [s EXCEPT !.lsf = Garbage, !.gotLSF = FALSE] \in DecoderState
    BY DEF Good, DecoderState
  <2>. QED  BY <2>1, <2>2 DEF Good, Known, DecoderState
<1>2. CASE f.lsf # Garbage
  <2> DEFINE got == [s EXCEPT !.lsf = f.lsf, !.gotLSF = TRUE, !.timeoutCnt = 0,
                              !.lastStreamFN = NoFN, !.lastPacketFN = NoPacketFN]
             synced == IF f.lsf \in PacketLSFs
                         THEN [got EXCEPT !.syncedType = "packet", !.packetData = Blank]
                         ELSE [got EXCEPT !.syncedType = "stream", !.lichParts = {},
                                          !.streamFN = 0, !.streamID = sid]
  <2>1. f.lsf \in LSFs
    BY <1>2 DEF LSFFrame
  <2>2. got \in DecoderState /\ got.gotLSF = TRUE /\ got.lsf = f.lsf
    BY <2>1, IdleValues DEF Good, DecoderState
  <2>3. Good(synced)
    <3>1. Blank \in [Slots -> Contents] /\ sid \in StreamIDs \cup {0}
      BY BlankType
    <3>. HIDE DEF got
    <3>2. synced \in DecoderState
      BY <2>2, <3>1, IdleValues DEF DecoderState
    <3>3. synced.gotLSF = TRUE /\ synced.lsf = f.lsf
      BY <2>2 DEF DecoderState
    <3>. QED  BY <2>1, <3>2, <3>3 DEF Good, Known
  <2>4. OnLSF(s, f, sid) = Call(synced, LSFCallback(f.lsf))
    BY <1>2 DEF OnLSF
  <2>5. LSFCallback(f.lsf) \in Callback
    BY <2>1 DEF Callback
  <2>. HIDE DEF synced
  <2>. QED  BY <2>3, <2>4, <2>5, CallGood
<1>. QED  BY <1>1, <1>2

\* The fields of a packet frame, sent or garbled.
LEMMA PacketFrameType ==
  ASSUME NEW f \in PacketFrame
  PROVE  f.pkt \in Packets \cup {Garbage} /\ f.n \in Nat /\ f.last \in BOOLEAN
<1>1. CASE f \in [pkt : {Garbage}, last : BOOLEAN, n : GarbageNums]
  <2>1. \A k \in GarbageNums : k \in Nat
    BY DecoderAssumption
  <2>. QED  BY <1>1, <2>1
<1>2. ASSUME NEW p \in Packets, f \in FramesOf(p)
      PROVE  f.pkt \in Packets \cup {Garbage} /\ f.n \in Nat /\ f.last \in BOOLEAN
  <2>1. LastLen[p] \in Nat /\ PacketChunks[p] \in Nat
    BY DecoderAssumption
  <2>2. CASE f = [pkt |-> p, last |-> TRUE, n |-> LastLen[p]]
    BY <2>1, <2>2
  <2>3. CASE \E k \in 1 .. PacketChunks[p] - 1 : f = [pkt |-> p, last |-> FALSE, n |-> k - 1]
    <3>1. PICK k \in 1 .. PacketChunks[p] - 1 : f = [pkt |-> p, last |-> FALSE, n |-> k - 1]
      BY <2>3
    <3>2. k - 1 \in Nat
      BY <2>1
    <3>. QED  BY <3>1, <3>2
  <2>4. \/ f = [pkt |-> p, last |-> TRUE, n |-> LastLen[p]]
        \/ \E k \in 1 .. PacketChunks[p] - 1 : f = [pkt |-> p, last |-> FALSE, n |-> k - 1]
    BY <1>2, Zenon DEF FramesOf
  <2>. QED  BY <2>2, <2>3, <2>4
<1>. QED  BY <1>1, <1>2 DEF PacketFrame

\* The frame that carries the last chunk of a packet, or an earlier one.
LEMMA FrameSent ==
  ASSUME NEW p \in Packets, NEW f \in FramesOf(p)
  PROVE  /\ f.pkt = p /\ p # Garbage /\ f.last \in BOOLEAN
         /\ f.last => f.n = LastLen[p] /\ Data(f) = Chunk(p, PacketChunks[p] - 1)
         /\ ~f.last => f.n \in 0 .. PacketChunks[p] - 2 /\ Data(f) = Chunk(p, f.n)
<1>1. p # Garbage /\ PacketChunks[p] \in Nat
  BY DecoderAssumption
<1>2. CASE f = [pkt |-> p, last |-> TRUE, n |-> LastLen[p]]
  BY <1>1, <1>2 DEF Data
<1>3. CASE \E k \in 1 .. PacketChunks[p] - 1 : f = [pkt |-> p, last |-> FALSE, n |-> k - 1]
  <2>1. PICK k \in 1 .. PacketChunks[p] - 1 : f = [pkt |-> p, last |-> FALSE, n |-> k - 1]
    BY <1>3
  <2>2. f.n = k - 1 /\ ~f.last /\ f.pkt = p /\ f.last \in BOOLEAN
    BY <2>1
  <2>3. f.n \in 0 .. PacketChunks[p] - 2
    BY <1>1, <2>2
  <2>. QED  BY <1>1, <2>2, <2>3 DEF Data
<1>. QED  BY <1>2, <1>3, Zenon DEF FramesOf

\* What a packet frame carries can be stored.
LEMMA DataType ==
  ASSUME NEW f \in PacketFrame
  PROVE  Data(f) \in Contents
<1>1. CASE f.pkt = Garbage
  BY <1>1 DEF Data, Contents
<1>2. ASSUME NEW p \in Packets, f \in FramesOf(p)
      PROVE  Data(f) \in Contents
  <2>1. PacketChunks[p] \in Nat /\ PacketChunks[p] > 0
    BY DecoderAssumption
  <2>2. \E i \in 0 .. PacketChunks[p] - 1 : Data(f) = Chunk(p, i)
    <3>1. CASE f.last
      <4>1. PacketChunks[p] - 1 \in 0 .. PacketChunks[p] - 1
        BY <2>1
      <4>. QED  BY <1>2, <3>1, <4>1, FrameSent
    <3>2. CASE ~f.last
      <4>1. f.n \in 0 .. PacketChunks[p] - 2 /\ Data(f) = Chunk(p, f.n)
        BY <1>2, <3>2, FrameSent
      <4>2. f.n \in 0 .. PacketChunks[p] - 1
        BY <2>1, <4>1
      <4>. QED  BY <4>1, <4>2
    <3>. QED  BY <3>1, <3>2
  <2>. QED  BY <2>2 DEF Contents, ChunksOf
<1>. QED  BY <1>1, <1>2 DEF PacketFrame

\* A packet frame keeps the state good.
LEMMA OnPacketGood ==
  ASSUME NEW s, Good(s), s.syncedType = "packet", NEW f \in PacketFrame
  PROVE  Good(OnPacket(s, f))
<1>1. f.pkt \in Packets \cup {Garbage} /\ f.n \in Nat
  BY PacketFrameType
<1>2. s.lsf \in LSFs /\ s.gotLSF
  BY DEF Good, Known
<1>3. \A i : [s.packetData EXCEPT ![i] = Data(f)] \in [Slots -> Contents]
  BY DataType DEF Good, DecoderState
<1>4. CASE f.last
  <2> DEFINE bytes == IF f.n > ChunkLen THEN ChunkLen ELSE f.n
             slot  == NextChunk(s)
             whole == [s EXCEPT !.packetData[slot] = Data(f)]
  <2>2. whole \in DecoderState /\ whole.gotLSF = s.gotLSF /\ whole.lsf = s.lsf
    <3>. HIDE DEF slot
    <3>. QED  BY <1>3 DEF Good, DecoderState
  <2>3. Good(whole)
    BY <1>2, <2>2 DEF Good, Known
  <2>4. Good([s EXCEPT !.crashed = TRUE])
    BY DEF Good, Known, DecoderState
  <2>5. ASSUME f.pkt \in Packets
        PROVE  Good(Reset(Call(whole, PacketCallback(s.lsf, f.pkt))))
    <3>1. PacketCallback(s.lsf, f.pkt) \in Callback
      BY <1>2, <2>5 DEF Callback
    <3>. HIDE DEF whole
    <3>. QED  BY <2>3, <3>1, CallGood, ResetGood DEF Good
  <2>6. Good(Reset(whole))
    BY <2>2, ResetGood
  <2>7. \/ OnPacket(s, f) = [s EXCEPT !.crashed = TRUE]
        \/ f.pkt \in Packets /\ OnPacket(s, f) = Reset(Call(whole, PacketCallback(s.lsf, f.pkt)))
        \/ OnPacket(s, f) = Reset(whole)
    <3>1. OnPacket(s, f) = FinishPacket(s, f)
      BY <1>4 DEF OnPacket
    <3>. QED  BY <3>1, Zenon DEF FinishPacket
  <2>. QED  BY <2>4, <2>5, <2>6, <2>7
<1>5. CASE ~f.last /\ f.n = NextChunk(s)
  <2>1. Good([s EXCEPT !.crashed = TRUE])
    BY DEF Good, Known, DecoderState
  <2>2. Good([s EXCEPT !.packetData[f.n] = Data(f), !.lastPacketFN = NextChunk(s)])
    BY <1>3, ExpectedWidth DEF Good, Known, DecoderState
  <2>. QED  BY <1>5, <2>1, <2>2 DEF OnPacket, StoreChunk
<1>6. CASE ~f.last /\ f.n # NextChunk(s)
  BY <1>6 DEF OnPacket
<1>. QED  BY <1>4, <1>5, <1>6

\* A LICH chunk keeps the state good.
LEMMA OnLICHGood ==
  ASSUME NEW s, Good(s), NEW f \in StreamFrame
  PROVE  Good(OnLICH(s, f))
<1>1. f.cnt \in 0 .. LichChunks /\ f.lich \in StreamLSFs \cup {Garbage} /\ f.lich \in LSFs \cup {Garbage}
  BY DEF StreamFrame, StreamLSFs
<1>2. CASE f.cnt \notin Chunks
  BY <1>2 DEF OnLICH
<1>3. CASE f.cnt \in Chunks
  <2> DEFINE bytes == [s.lsfBytes EXCEPT ![f.cnt] = f.lich]
             parts == s.lichParts \cup {f.cnt}
             left  == IF parts = Chunks THEN {} ELSE parts
             kept  == [s EXCEPT !.lsfBytes = bytes, !.lichParts = left]
             resumed == [kept EXCEPT !.lsf = f.lich, !.gotLSF = TRUE, !.timeoutCnt = 0]
  <2>1. bytes \in [Chunks -> LSFs \cup {NoLSF, Garbage}] /\ left \in SUBSET Chunks
    BY <1>1, <1>3 DEF Good, DecoderState
  <2>2. kept \in DecoderState /\ Good(kept)
    <3>. HIDE DEF bytes, left
    <3>. QED  BY <2>1 DEF Good, Known, DecoderState
  <2>3. ASSUME f.lich # Garbage
        PROVE  Good(Call(resumed, LICHCallback(f.lich)))
    <3>1. f.lich \in LSFs
      BY <1>1, <2>3
    <3>2. resumed \in DecoderState /\ resumed.lsf = f.lich /\ resumed.gotLSF = TRUE
      <4>. HIDE DEF kept
      <4>. QED  BY <2>2, <3>1, IdleValues DEF DecoderState
    <3>3. LICHCallback(f.lich) \in Callback
      BY <3>1 DEF Callback
    <3>4. Good(resumed)
      BY <3>1, <3>2 DEF Good, Known
    <3>. HIDE DEF resumed
    <3>. QED  BY <3>3, <3>4, CallGood
  <2>4. \/ OnLICH(s, f) = kept
        \/ f.lich # Garbage /\ OnLICH(s, f) = Call(resumed, LICHCallback(f.lich))
    BY <1>3, Zenon DEF OnLICH
  <2>. QED  BY <2>2, <2>3, <2>4
<1>. QED  BY <1>2, <1>3

\* Forwarding a voice frame keeps the state good.
LEMMA ForwardGood ==
  ASSUME NEW s, Good(s), NEW f \in StreamFrame, NEW isLast \in BOOLEAN
  PROVE  Good(Forward(s, f, isLast))
<1>1. CASE ~s.gotLSF
  BY <1>1 DEF Forward
<1>2. CASE s.gotLSF
  <2> DEFINE base == [s EXCEPT !.streamFN = f.fn, !.timeoutCnt = 0]
             sent == Call(base, StreamCallback(s.lsf, s.streamID, f.fn))
  <2>1. f.fn \in 0 .. NoFN
    BY DEF StreamFrame
  <2>2. s.lsf \in LSFs /\ s.streamID \in StreamIDs \cup {0}
    BY <1>2 DEF Good, Known, DecoderState
  <2>3. Good(base)
    BY <2>1, IdleValues DEF Good, Known, DecoderState
  <2>4. Good(sent)
    <3>. HIDE DEF base
    <3>. QED  BY <2>1, <2>2, <2>3, CallbackTypes, CallGood
  <2>5. Good(Call(sent, EOTCallback(s.lsf, s.streamID, f.fn)))
    <3>. HIDE DEF sent
    <3>. QED  BY <2>1, <2>2, <2>4, CallbackTypes, CallGood
  <2>6. Forward(s, f, isLast) = IF isLast THEN Call(sent, EOTCallback(s.lsf, s.streamID, f.fn)) ELSE sent
    BY <1>2 DEF Forward
  <2>. QED  BY <2>4, <2>5, <2>6
<1>. QED  BY <1>1, <1>2

\* A stream frame keeps the state good.
LEMMA OnStreamGood ==
  ASSUME NEW s, Good(s), NEW f \in StreamFrame
  PROVE  Good(OnStream(s, f))
<1>1. CASE Expected(s) > f.fn % FNMod
  BY <1>1 DEF OnStream
<1>2. CASE ~(Expected(s) > f.fn % FNMod)
  <2> DEFINE done == Forward(OnLICH(s, f), f, IsLast(s, f))
  <2>1. IsLast(s, f) \in BOOLEAN
    BY DEF IsLast
  <2>2. Good(done)
    BY <2>1, OnLICHGood, ForwardGood
  <2>3. Good([done EXCEPT !.lastStreamFN = f.fn])
    <3>1. f.fn \in 0 .. NoFN
      BY DEF StreamFrame
    <3>. HIDE DEF done
    <3>. QED  BY <2>2, <3>1 DEF Good, Known, DecoderState
  <2>4. Good(Reset(done))
    <3>. HIDE DEF done
    <3>. QED  BY <2>2, ResetGood DEF Good
  <2>. QED  BY <1>2, <2>3, <2>4 DEF OnStream
<1>. QED  BY <1>1, <1>2

\* An end-of-transmission marker keeps the state good.
LEMMA OnEOTGood ==
  ASSUME NEW s, Good(s)
  PROVE  Good(OnEOT(s))
<1> DEFINE fn == FNMod + (Expected(s) % FNMod)
           told == [s EXCEPT !.streamFN = fn]
<1>1. fn \in 0 .. NoFN
  BY ExpectedWidth DEF Good
<1>2. Good(told)
  <2>. HIDE DEF fn
  <2>. QED  BY <1>1 DEF Good, Known, DecoderState
<1>3. CASE s.gotLSF
  <2>1. EOTCallback(s.lsf, s.streamID, fn) \in Callback
    <3>1. s.lsf \in LSFs /\ s.streamID \in StreamIDs \cup {0}
      BY <1>3 DEF Good, Known, DecoderState
    <3>. HIDE DEF fn
    <3>. QED  BY <1>1, <3>1, CallbackTypes
  <2>2. OnEOT(s) = Reset(Call(told, EOTCallback(s.lsf, s.streamID, fn)))
    BY <1>3 DEF OnEOT, EndFN
  <2>. HIDE DEF told, fn
  <2>. QED  BY <1>2, <2>1, <2>2, CallGood, ResetGood DEF Good
<1>4. CASE ~s.gotLSF
  BY <1>4, ResetGood DEF OnEOT, Good
<1>. QED  BY <1>3, <1>4

----------------------------------------------------------------------------
(* Invariants *)

\* The state a call of DecodeFrame starts from is good.
LEMMA CalledGood ==
  ASSUME Good(dec)
  PROVE  Good(Called)
<1>1. <<>> \in Seq(Callback)
  OBVIOUS
<1>. QED  BY <1>1 DEF Called, Good, Known, DecoderState

\* The decoder's state keeps its types and never reaches a callback or a
\* dereference of d.lsf without a checked LSF, whatever frames are heard.
THEOREM DecoderSafe == Spec => [](TypeOK /\ LSFKnown)
<1>1. Init => Good(dec)
  BY IdleValues, BlankType DEF Init, Good, Known, DecoderState
<1>2. Good(dec) /\ [Next]_dec => Good(dec)'
  <2> SUFFICES ASSUME Good(dec), [Next]_dec
               PROVE  Good(dec)'
    OBVIOUS
  <2>1. Good(Called)
    BY CalledGood
  <2>2. ASSUME NEW f \in LSFFrame, NEW sid \in StreamIDs, ReceiveLSF(f, sid)
        PROVE  Good(dec)'
    <3>1. Called.syncedType = "none"
      BY <2>2 DEF ReceiveLSF, Called, Good, DecoderState
    <3>2. Good(RxTimeout(OnLSF(Called, f, sid)))
      BY <2>1, <3>1, OnLSFGood, RxTimeoutGood
    <3>. QED  BY <2>2, <3>2 DEF ReceiveLSF, Good, Known
  <2>3. ASSUME NEW f \in PacketFrame, ReceivePacketFrame(f)
        PROVE  Good(dec)'
    <3>1. Called.syncedType = "packet"
      BY <2>3 DEF ReceivePacketFrame, Called, Good, DecoderState
    <3>2. Good(RxTimeout(OnPacket(Called, f)))
      BY <2>1, <3>1, OnPacketGood, RxTimeoutGood
    <3>. QED  BY <2>3, <3>2 DEF ReceivePacketFrame, Good, Known
  <2>4. ASSUME NEW f \in StreamFrame, ReceiveStreamFrame(f)
        PROVE  Good(dec)'
    <3>1. Good(RxTimeout(OnStream(Called, f)))
      BY <2>1, OnStreamGood, RxTimeoutGood
    <3>. QED  BY <2>4, <3>1 DEF ReceiveStreamFrame, Good, Known
  <2>5. CASE ReceiveEOT
    <3>1. Good(RxTimeout(OnEOT(Called)))
      BY <2>1, OnEOTGood, RxTimeoutGood
    <3>. QED  BY <2>5, <3>1 DEF ReceiveEOT, Good, Known
  <2>6. ASSUME NEW typ, Ignore(typ)
        PROVE  Good(dec)'
    <3>1. Good(RxTimeout(Called))
      BY <2>1, RxTimeoutGood
    <3>. QED  BY <2>6, <3>1 DEF Ignore, Good, Known
  <2>7. CASE UNCHANGED dec
    BY <2>7 DEF Good, Known
  <2>. QED  BY <2>2, <2>3, <2>4, <2>5, <2>6, <2>7 DEF Next
<1>3. Good(dec) => TypeOK /\ LSFKnown
  BY DEF Good, TypeOK, LSFKnown
<1>. QED  BY <1>1, <1>2, <1>3, PTL DEF Spec

----------------------------------------------------------------------------
(* The decoder implements the session discipline *)

\* The first callback of a call is its only one so far.
LEMMA FirstCallback ==
  ASSUME NEW c
  PROVE  Append(<<>>, c) = <<c>>
OBVIOUS

\* What a call that found nothing else to report can still report.
LEMMA RxTimeoutReports ==
  ASSUME NEW s, Good(s)
  PROVE  LET t == RxTimeout(s)
         IN \/ t.out = s.out /\ SessionOf(t) = SessionOf(s) /\ NextFNOf(t) = NextFNOf(s)
            \/ t.out = s.out /\ SessionOf(t) = NoLSF /\ NextFNOf(t) = 0
            \/ /\ SessionOf(s) \in LSFs
               /\ t.out = Append(s.out, EOTCallback(SessionOf(s), s.streamID, s.streamFN))
               /\ SessionOf(t) = NoLSF /\ NextFNOf(t) = 0
<1>. DEFINE eot == EOTCallback(s.lsf, s.streamID, s.streamFN)
<1>1. \A r \in DecoderState : Reset(r).out = r.out /\ ~Reset(r).gotLSF
  BY DEF Reset, DecoderState
<1>2. CASE RxTimeout(s) = s
  BY <1>2
<1>3. CASE RxTimeout(s) = [s EXCEPT !.timeoutCnt = @ + 1]
  BY <1>3 DEF Good, DecoderState, SessionOf, NextFNOf, Expected
<1>4. CASE s.gotLSF /\ RxTimeout(s) = Reset(Call(s, eot))
  <2>1. s.lsf \in LSFs /\ s.streamID \in StreamIDs \cup {0} /\ s.streamFN \in 0 .. NoFN
    BY <1>4 DEF Good, Known, DecoderState
  <2>2. Call(s, eot) \in DecoderState
    BY <2>1, CallbackTypes, CallGood DEF Good
  <2>3. Call(s, eot).out = Append(s.out, eot)
    BY DEF Call, Good, DecoderState
  <2>. HIDE DEF eot
  <2>4. RxTimeout(s).out = Append(s.out, eot) /\ ~RxTimeout(s).gotLSF
    BY <1>1, <1>4, <2>2, <2>3
  <2>. USE DEF eot
  <2>. QED  BY <1>4, <2>1, <2>4 DEF SessionOf, NextFNOf
<1>5. CASE RxTimeout(s) = Reset(s)
  BY <1>1, <1>5 DEF Good, SessionOf, NextFNOf
<1>. QED  BY <1>2, <1>3, <1>4, <1>5, Zenon DEF RxTimeout

\* The RX timeout never follows a call that heard something new.
LEMMA RxTimeoutQuiet ==
  ASSUME NEW s, Good(s), s.syncedType = "none" \/ s.timeoutCnt = 0
  PROVE  LET t == RxTimeout(s)
         IN /\ t.out = s.out /\ SessionOf(t) = SessionOf(s) /\ NextFNOf(t) = NextFNOf(s)
            /\ t.syncedType = s.syncedType
<1>1. CASE RxTimeout(s) = s
  BY <1>1
<1>2. CASE RxTimeout(s) = [s EXCEPT !.timeoutCnt = @ + 1]
  BY <1>2 DEF Good, DecoderState, SessionOf, NextFNOf, Expected
<1>. QED  BY <1>1, <1>2, Widths DEF RxTimeout

\* A packet reception is given up without a word.
LEMMA PacketTimeoutSilent ==
  ASSUME NEW s, Good(s), s.syncedType # "stream"
  PROVE  LET t == RxTimeout(s)
         IN /\ t.out = s.out
            /\ \/ SessionOf(t) = NoLSF /\ NextFNOf(t) = 0
               \/ SessionOf(t) = SessionOf(s) /\ NextFNOf(t) = NextFNOf(s)
<1>1. CASE RxTimeout(s) = s
  BY <1>1
<1>2. CASE RxTimeout(s) = [s EXCEPT !.timeoutCnt = @ + 1]
  BY <1>2 DEF Good, DecoderState, SessionOf, NextFNOf, Expected
<1>3. CASE RxTimeout(s) = Reset(s)
  BY <1>3 DEF Reset, Good, DecoderState, SessionOf, NextFNOf
<1>. QED  BY <1>1, <1>2, <1>3 DEF RxTimeout

\* What a LICH chunk reports: nothing, or the LSF it completed.
LEMMA OnLICHReports ==
  ASSUME NEW s, Good(s), s.out = <<>>, NEW f \in StreamFrame
  PROVE  LET r == OnLICH(s, f)
         IN /\ r.lastStreamFN = s.lastStreamFN /\ r.streamID = s.streamID
            /\ r.syncedType = s.syncedType
            /\ \/ r.out = <<>> /\ r.gotLSF = s.gotLSF /\ r.lsf = s.lsf
               \/ /\ f.lich \in LSFs /\ r.out = Append(<<>>, LICHCallback(f.lich))
                  /\ r.gotLSF /\ r.lsf = f.lich
<1> DEFINE bytes == [s.lsfBytes EXCEPT ![f.cnt] = f.lich]
           parts == s.lichParts \cup {f.cnt}
           left  == IF parts = Chunks THEN {} ELSE parts
           kept  == [s EXCEPT !.lsfBytes = bytes, !.lichParts = left]
           resumed == [kept EXCEPT !.lsf = f.lich, !.gotLSF = TRUE, !.timeoutCnt = 0]
<1>1. \/ OnLICH(s, f) = s
      \/ OnLICH(s, f) = kept
      \/ f.lich # Garbage /\ OnLICH(s, f) = Call(resumed, LICHCallback(f.lich))
  BY Zenon DEF OnLICH
<1>2. f.lich \in LSFs \cup {Garbage}
  BY DEF StreamFrame, StreamLSFs
<1>. HIDE DEF bytes, parts, left
<1>3. CASE OnLICH(s, f) = s
  BY <1>3
<1>4. CASE OnLICH(s, f) = kept
  BY <1>4 DEF Good, DecoderState
<1>5. CASE f.lich # Garbage /\ OnLICH(s, f) = Call(resumed, LICHCallback(f.lich))
  BY <1>2, <1>5 DEF Good, DecoderState, Call
<1>. QED  BY <1>1, <1>3, <1>4, <1>5

\* A voice frame that is accepted reports nothing, for want of an LSF, or one
\* frame of the session, which its own LICH may just have opened.
LEMMA AcceptedReports ==
  ASSUME NEW s, Good(s), s.out = <<>>, NEW f \in StreamFrame,
         ~(Expected(s) > f.fn % FNMod)
  PROVE  LET r == OnStream(s, f)
             last == IsLast(s, f)
         IN /\ r.syncedType = "none" \/ r.timeoutCnt = 0
            /\ \/ ~s.gotLSF /\ r.out = <<>> /\ SessionOf(r) = NoLSF /\ NextFNOf(r) = 0
               \/ \E l \in LSFs, resumed \in BOOLEAN :
                    /\ (resumed /\ l = f.lich) \/ SessionOf(s) = l
                    /\ LET voiced == Append(IF resumed THEN <<LICHCallback(l)>> ELSE <<>>,
                                            StreamCallback(l, s.streamID, f.fn))
                       IN r.out = IF last THEN Append(voiced, EOTCallback(l, s.streamID, f.fn))
                                  ELSE voiced
                    /\ IF last
                         THEN SessionOf(r) = NoLSF /\ NextFNOf(r) = 0
                         ELSE SessionOf(r) = l /\ NextFNOf(r) = (f.fn + 1) % U16
<1> DEFINE r == OnStream(s, f)
           last == IsLast(s, f)
           h == OnLICH(s, f)
           base == [h EXCEPT !.streamFN = f.fn, !.timeoutCnt = 0]
           sent == Call(base, StreamCallback(h.lsf, h.streamID, f.fn))
           done == Forward(h, f, last)
<1>1. Good(h) /\ Good(done) /\ last \in BOOLEAN
  BY OnLICHGood, ForwardGood DEF IsLast
<1>2. r = IF last THEN Reset(done) ELSE [done EXCEPT !.lastStreamFN = f.fn]
  BY DEF OnStream
<1>3. /\ h.lastStreamFN = s.lastStreamFN /\ h.streamID = s.streamID
      /\ \/ h.out = <<>> /\ h.gotLSF = s.gotLSF /\ h.lsf = s.lsf
         \/ /\ f.lich \in LSFs /\ h.out = <<LICHCallback(f.lich)>>
            /\ h.gotLSF /\ h.lsf = f.lich
  BY OnLICHReports, FirstCallback
<1>4. \A d \in DecoderState : Reset(d).out = d.out /\ ~Reset(d).gotLSF /\ Reset(d).syncedType = "none"
  BY DEF Reset, DecoderState
<1>5. CASE ~h.gotLSF
  <2>1. done = h /\ h.out = <<>>
    BY <1>3, <1>5 DEF Forward
  <2>2. h.syncedType = "none"
    BY <1>1, <1>5 DEF Good, Known
  <2>. HIDE DEF h, done, r, last
  <2>3. r.out = <<>> /\ ~r.gotLSF /\ r.syncedType = "none"
    <3>1. CASE last
      BY <1>1, <1>2, <1>4, <2>1, <3>1 DEF Good
    <3>2. CASE ~last
      BY <1>1, <1>2, <1>5, <2>1, <2>2, <3>2 DEF Good, DecoderState
    <3>. QED  BY <3>1, <3>2
  <2>4. ~s.gotLSF
    BY <1>3, <1>5
  <2>. USE DEF r
  <2>. QED  BY <2>3, <2>4 DEF SessionOf, NextFNOf
<1>6. CASE h.gotLSF
  <2> DEFINE l == h.lsf
             resumed == h.out # <<>>
             voiced == Append(IF resumed THEN <<LICHCallback(l)>> ELSE <<>>,
                              StreamCallback(l, s.streamID, f.fn))
             batch == IF last THEN Append(voiced, EOTCallback(l, s.streamID, f.fn)) ELSE voiced
  <2>1. l \in LSFs
    BY <1>1, <1>6 DEF Good, Known
  <2>2. (resumed /\ l = f.lich) \/ SessionOf(s) = l
    <3>1. CASE h.out = <<>> /\ h.gotLSF = s.gotLSF /\ h.lsf = s.lsf
      BY <1>6, <3>1 DEF SessionOf
    <3>2. CASE h.out = <<LICHCallback(f.lich)>> /\ h.lsf = f.lich
      <4>1. <<LICHCallback(f.lich)>> # <<>>
        OBVIOUS
      <4>. QED  BY <3>2, <4>1
    <3>. QED  BY <1>3, <3>1, <3>2
  <2>3. h.out = IF resumed THEN <<LICHCallback(l)>> ELSE <<>>
    BY <1>3
  <2>4. done = IF last THEN Call(sent, EOTCallback(h.lsf, h.streamID, f.fn)) ELSE sent
    BY <1>6 DEF Forward
  <2>5. sent.out = voiced /\ sent.lsf = l /\ sent.gotLSF /\ sent.timeoutCnt = 0
    <3>. HIDE DEF h
    <3>1. base.out = h.out /\ base.lsf = h.lsf /\ base.gotLSF = h.gotLSF /\ base.timeoutCnt = 0
      BY <1>1 DEF Good, DecoderState
    <3>2. base \in DecoderState
      BY <1>1, IdleValues DEF Good, DecoderState, StreamFrame
    <3>. HIDE DEF base
    <3>. QED  BY <1>3, <1>6, <2>3, <3>1, <3>2 DEF Call, DecoderState
  <2>6. done.out = batch /\ done.lsf = l /\ done.gotLSF /\ done.timeoutCnt = 0
    <3>1. sent \in DecoderState
      <4>1. Good(base)
        <5>. HIDE DEF h
        <5>. QED  BY <1>1, IdleValues DEF Good, Known, DecoderState, StreamFrame
      <4>2. StreamCallback(h.lsf, h.streamID, f.fn) \in Callback
        <5>1. h.streamID \in StreamIDs \cup {0} /\ f.fn \in 0 .. NoFN
          BY <1>1 DEF Good, DecoderState, StreamFrame
        <5>. QED  BY <2>1, <5>1, CallbackTypes
      <4>. HIDE DEF base, h
      <4>. QED  BY <4>1, <4>2, CallGood DEF Good
    <3>. HIDE DEF sent, voiced
    <3>. QED  BY <1>3, <2>4, <2>5, <3>1 DEF Call, DecoderState
  <2>. HIDE DEF done, batch, h
  <2>7. r.out = batch /\ (r.syncedType = "none" \/ r.timeoutCnt = 0)
    <3>1. CASE last
      BY <1>1, <1>2, <1>4, <2>6, <3>1 DEF Good
    <3>2. CASE ~last
      BY <1>1, <1>2, <2>6, <3>2 DEF Good, DecoderState
    <3>. QED  BY <3>1, <3>2
  <2>8. IF last THEN SessionOf(r) = NoLSF /\ NextFNOf(r) = 0
                ELSE SessionOf(r) = l /\ NextFNOf(r) = (f.fn + 1) % U16
    <3>1. CASE last
      BY <1>1, <1>2, <1>4, <3>1 DEF Good, SessionOf, NextFNOf
    <3>2. CASE ~last
      BY <1>1, <1>2, <2>6, <3>2 DEF Good, SessionOf, NextFNOf, Expected, DecoderState
    <3>. QED  BY <3>1, <3>2
  <2>9. resumed \in BOOLEAN
    OBVIOUS
  <2>. USE DEF batch
  <2>. HIDE DEF l, resumed, last, r
  <2>10. \E l0 \in LSFs, resumed0 \in BOOLEAN :
           /\ (resumed0 /\ l0 = f.lich) \/ SessionOf(s) = l0
           /\ LET voiced0 == Append(IF resumed0 THEN <<LICHCallback(l0)>> ELSE <<>>,
                                    StreamCallback(l0, s.streamID, f.fn))
              IN r.out = IF last THEN Append(voiced0, EOTCallback(l0, s.streamID, f.fn))
                         ELSE voiced0
           /\ IF last THEN SessionOf(r) = NoLSF /\ NextFNOf(r) = 0
                      ELSE SessionOf(r) = l0 /\ NextFNOf(r) = (f.fn + 1) % U16
    BY <2>1, <2>2, <2>7, <2>8, <2>9
  <2>. USE DEF last, r
  <2>. QED  BY <2>7, <2>10
<1>. QED  BY <1>5, <1>6

\* What a link setup frame reports: nothing, or itself.
LEMMA OnLSFReports ==
  ASSUME NEW s, Good(s), s.out = <<>>, s.syncedType = "none",
         NEW f \in LSFFrame, NEW sid \in StreamIDs
  PROVE  LET r == OnLSF(s, f, sid)
         IN /\ r.syncedType = "none" \/ r.timeoutCnt = 0
            /\ \/ f.lsf = Garbage /\ r.out = <<>> /\ SessionOf(r) = NoLSF /\ NextFNOf(r) = 0
               \/ f.lsf \in LSFs /\ r.out = <<LSFCallback(f.lsf)>>
                  /\ SessionOf(r) = f.lsf /\ NextFNOf(r) = 0
                  /\ (f.lsf \in StreamLSFs => r.syncedType = "stream")
<1>1. CASE f.lsf = Garbage
  BY <1>1 DEF OnLSF, Good, DecoderState, SessionOf, NextFNOf
<1>2. CASE f.lsf # Garbage
  <2> DEFINE got == [s EXCEPT !.lsf = f.lsf, !.gotLSF = TRUE, !.timeoutCnt = 0,
                              !.lastStreamFN = NoFN, !.lastPacketFN = NoPacketFN]
             synced == IF f.lsf \in PacketLSFs
                         THEN [got EXCEPT !.syncedType = "packet", !.packetData = Blank]
                         ELSE [got EXCEPT !.syncedType = "stream", !.lichParts = {},
                                          !.streamFN = 0, !.streamID = sid]
  <2>1. got.lsf = f.lsf /\ got.gotLSF = TRUE /\ got.timeoutCnt = 0 /\ got.lastStreamFN = NoFN
        /\ got.out = <<>>
    BY DEF Good, DecoderState
  <2>2. DOMAIN got = DOMAIN s
    OBVIOUS
  <2>3. synced.lsf = f.lsf /\ synced.gotLSF = TRUE /\ synced.timeoutCnt = 0
        /\ synced.lastStreamFN = NoFN /\ synced.out = <<>>
        /\ DOMAIN synced = DOMAIN s
        /\ (f.lsf \in StreamLSFs => synced.syncedType = "stream")
    <3>. HIDE DEF got
    <3>. QED  BY <2>1, <2>2 DEF Good, DecoderState, StreamLSFs
  <2>4. OnLSF(s, f, sid) = Call(synced, LSFCallback(f.lsf))
    BY <1>2 DEF OnLSF
  <2>. HIDE DEF synced
  <2>5. LET r == OnLSF(s, f, sid)
        IN r.out = <<LSFCallback(f.lsf)>> /\ r.lsf = f.lsf /\ r.gotLSF /\ r.timeoutCnt = 0
           /\ r.lastStreamFN = NoFN /\ r.syncedType = synced.syncedType
    BY <2>3, <2>4, FirstCallback DEF Call, Good, DecoderState
  <2>6. (NoFN + 1) % U16 = 0
    BY Widths
  <2>. QED  BY <1>2, <2>3, <2>5, <2>6 DEF SessionOf, NextFNOf, Expected, LSFFrame
<1>. QED  BY <1>1, <1>2

\* What a packet frame reports: nothing, or the packet, which ends the session.
LEMMA OnPacketReports ==
  ASSUME NEW s, Good(s), s.out = <<>>, s.syncedType = "packet", NEW f \in PacketFrame
  PROVE  LET r == OnPacket(s, f)
         IN \/ r.out = <<>> /\ SessionOf(r) = SessionOf(s) /\ NextFNOf(r) = NextFNOf(s)
               /\ r.syncedType = "packet"
            \/ r.out = <<>> /\ SessionOf(r) = NoLSF /\ NextFNOf(r) = 0 /\ r.syncedType = "none"
            \/ \E p \in Packets :
                 /\ SessionOf(s) \in LSFs /\ r.out = <<PacketCallback(SessionOf(s), p)>>
                 /\ SessionOf(r) = NoLSF /\ NextFNOf(r) = 0 /\ r.syncedType = "none"
<1> DEFINE slot  == NextChunk(s)
           whole == [s EXCEPT !.packetData[slot] = Data(f)]
           told  == Call(whole, PacketCallback(s.lsf, f.pkt))
<1>1. \A d : DOMAIN d = DOMAIN s =>
        Reset(d).out = d.out /\ ~Reset(d).gotLSF /\ Reset(d).syncedType = "none"
  BY DEF Reset, Good, DecoderState
<1>2. \/ OnPacket(s, f) = s
      \/ OnPacket(s, f) = [s EXCEPT !.crashed = TRUE]
      \/ OnPacket(s, f) = [s EXCEPT !.packetData[f.n] = Data(f), !.lastPacketFN = NextChunk(s)]
      \/ f.pkt \in Packets /\ OnPacket(s, f) = Reset(told)
      \/ OnPacket(s, f) = Reset(whole)
  BY Zenon DEF OnPacket, StoreChunk, FinishPacket
<1>3. s.gotLSF /\ s.lsf \in LSFs
  BY DEF Good, Known
<1>. HIDE DEF slot
<1>4. whole.out = <<>> /\ DOMAIN whole = DOMAIN s
  BY DEF Good, DecoderState
<1>5. told.out = <<PacketCallback(s.lsf, f.pkt)>> /\ DOMAIN told = DOMAIN s
  <2>. HIDE DEF whole
  <2>. QED  BY <1>4, FirstCallback DEF Call, Good, DecoderState
<1>6. CASE OnPacket(s, f) = s
  BY <1>6
<1>7. CASE OnPacket(s, f) = [s EXCEPT !.crashed = TRUE]
  BY <1>7 DEF Good, DecoderState, SessionOf, NextFNOf, Expected
<1>8. CASE OnPacket(s, f) = [s EXCEPT !.packetData[f.n] = Data(f), !.lastPacketFN = NextChunk(s)]
  BY <1>8 DEF Good, DecoderState, SessionOf, NextFNOf, Expected
<1>. HIDE DEF whole, told
<1>9. CASE f.pkt \in Packets /\ OnPacket(s, f) = Reset(told)
  BY <1>1, <1>3, <1>5, <1>9 DEF SessionOf, NextFNOf
<1>10. CASE OnPacket(s, f) = Reset(whole)
  BY <1>1, <1>4, <1>10 DEF SessionOf, NextFNOf
<1>. QED  BY <1>2, <1>6, <1>7, <1>8, <1>9, <1>10

\* What an end-of-transmission marker reports: the end, and nothing else.
LEMMA OnEOTReports ==
  ASSUME NEW s, Good(s), s.out = <<>>, s.syncedType = "stream"
  PROVE  LET r == OnEOT(s)
         IN /\ r.syncedType = "none" /\ SessionOf(r) = NoLSF /\ NextFNOf(r) = 0
            /\ SessionOf(s) \in LSFs
            /\ r.out = <<EOTCallback(SessionOf(s), s.streamID, FNMod + (Expected(s) % FNMod))>>
<1> DEFINE fn == FNMod + (Expected(s) % FNMod)
           told == Call([s EXCEPT !.streamFN = fn], EOTCallback(s.lsf, s.streamID, fn))
<1>1. s.gotLSF /\ s.lsf \in LSFs
  BY DEF Good, Known
<1>2. OnEOT(s) = Reset(told)
  BY <1>1 DEF OnEOT, EndFN
<1>. HIDE DEF fn
<1>3. told.out = <<EOTCallback(s.lsf, s.streamID, fn)>> /\ DOMAIN told = DOMAIN s
  BY FirstCallback DEF Call, Good, DecoderState
<1>. HIDE DEF told
<1>4. Reset(told).out = told.out /\ ~Reset(told).gotLSF /\ Reset(told).syncedType = "none"
  BY <1>3 DEF Reset, Good, DecoderState
<1>. USE DEF fn
<1>. QED  BY <1>1, <1>2, <1>3, <1>4 DEF SessionOf, NextFNOf

\* What a call of DecodeFrame sees of the session it starts from.
LEMMA CalledSession ==
  ASSUME Good(dec)
  PROVE  /\ Good(Called) /\ Called.out = <<>>
         /\ SessionOf(Called) = SessionOf(dec) /\ NextFNOf(Called) = NextFNOf(dec)
         /\ Called.syncedType = dec.syncedType
BY CalledGood DEF Called, Good, DecoderState, SessionOf, NextFNOf, Expected

\* A call that ends with the timeout alone is a step of the session.
LEMMA TimeoutStep ==
  ASSUME Good(dec), dec' = RxTimeout(Called)
  PROVE  Session!Next
<1>1. Called.streamID \in StreamIDs \cup {0} /\ Called.streamFN \in 0 .. 2 * FNMod - 1
  BY CalledSession DEF Good, DecoderState, NoFN, U16
<1>2. \A e : Append(<<>>, e) = <<e>>
  BY FirstCallback
<1>3. \/ dec'.out = <<>> /\ SessionOf(dec') = SessionOf(dec) /\ NextFNOf(dec') = NextFNOf(dec)
      \/ dec'.out = <<>> /\ SessionOf(dec') = NoLSF /\ NextFNOf(dec') = 0
      \/ /\ SessionOf(dec) \in LSFs
         /\ dec'.out = <<EOTCallback(SessionOf(dec), Called.streamID, Called.streamFN)>>
         /\ SessionOf(dec') = NoLSF /\ NextFNOf(dec') = 0
  BY <1>2, CalledSession, RxTimeoutReports
<1>4. \/ Session!Silent
      \/ Session!End(Called.streamID, Called.streamFN)
  BY <1>3, DecoderAssumption DEF Session!Silent, Session!Closed, Session!End,
     EOTCallback, Session!EOTCallback
<1>. QED  BY <1>1, <1>4 DEF Session!Next, Session!RawFN

\* Every behaviour of the decoder is one that RFSession allows.
THEOREM DecoderImplementsSession == Spec => ImplementsSession
<1>1. Init => Session!Init
  BY DEF Init, Session!Init, SessionOf, NextFNOf
<1>2. Good(dec) /\ [Next]_dec => [Session!Next]_(Session!sessionVars)
  <2> SUFFICES ASSUME Good(dec), Next
               PROVE  Session!Next
    BY DEF Session!sessionVars, SessionOf, NextFNOf
  <2>1. ASSUME NEW f \in LSFFrame, NEW sid \in StreamIDs, ReceiveLSF(f, sid)
        PROVE  Session!Next
    <3> DEFINE r == OnLSF(Called, f, sid)
    <3>1. Called.syncedType = "none" /\ dec' = RxTimeout(r)
      BY <2>1, CalledSession DEF ReceiveLSF
    <3>2. Good(r)
      BY <3>1, CalledSession, OnLSFGood
    <3>3. /\ r.syncedType = "none" \/ r.timeoutCnt = 0
          /\ \/ r.out = <<>> /\ SessionOf(r) = NoLSF /\ NextFNOf(r) = 0
             \/ f.lsf \in LSFs /\ r.out = <<LSFCallback(f.lsf)>>
                /\ SessionOf(r) = f.lsf /\ NextFNOf(r) = 0
      BY <3>1, CalledSession, OnLSFReports
    <3>. HIDE DEF r
    <3>4. dec'.out = r.out /\ SessionOf(dec') = SessionOf(r) /\ NextFNOf(dec') = NextFNOf(r)
      BY <3>1, <3>2, <3>3, RxTimeoutQuiet
    <3>5. Session!Silent \/ (f.lsf \in LSFs /\ Session!Open(f.lsf))
      BY <3>3, <3>4 DEF Session!Silent, Session!Closed, Session!Open, LSFCallback,
         Session!LSFCallback
    <3>. QED  BY <3>5 DEF Session!Next
  <2>2. ASSUME NEW f \in PacketFrame, ReceivePacketFrame(f)
        PROVE  Session!Next
    <3> DEFINE r == OnPacket(Called, f)
    <3>1. Called.syncedType = "packet" /\ dec' = RxTimeout(r)
      BY <2>2, CalledSession DEF ReceivePacketFrame
    <3>2. Good(r)
      BY <3>1, CalledSession, OnPacketGood
    <3>3. \/ r.out = <<>> /\ SessionOf(r) = SessionOf(dec) /\ NextFNOf(r) = NextFNOf(dec)
             /\ r.syncedType = "packet"
          \/ r.out = <<>> /\ SessionOf(r) = NoLSF /\ NextFNOf(r) = 0 /\ r.syncedType = "none"
          \/ \E p \in Packets :
               /\ SessionOf(dec) \in LSFs /\ r.out = <<PacketCallback(SessionOf(dec), p)>>
               /\ SessionOf(r) = NoLSF /\ NextFNOf(r) = 0 /\ r.syncedType = "none"
      BY <3>1, CalledSession, OnPacketReports
    <3>. HIDE DEF r
    <3>4. CASE r.syncedType = "none"
      <4>1. dec'.out = r.out /\ SessionOf(dec') = SessionOf(r) /\ NextFNOf(dec') = NextFNOf(r)
        BY <3>1, <3>2, <3>4, RxTimeoutQuiet
      <4>2. Session!Silent \/ \E p \in Packets : Session!Deliver(p)
        BY <3>3, <3>4, <4>1, DecoderAssumption DEF Session!Silent, Session!Closed,
           Session!Deliver, PacketCallback, Session!PacketCallback
      <4>. QED  BY <4>2 DEF Session!Next
    <3>5. CASE r.syncedType # "none"
      <4>1. r.out = <<>> /\ SessionOf(r) = SessionOf(dec) /\ NextFNOf(r) = NextFNOf(dec)
        BY <3>3, <3>5
      <4>2. dec'.out = <<>>
            /\ \/ SessionOf(dec') = NoLSF /\ NextFNOf(dec') = 0
               \/ SessionOf(dec') = SessionOf(dec) /\ NextFNOf(dec') = NextFNOf(dec)
        <5>1. r.syncedType # "stream"
          BY <3>3, <3>5
        <5>. QED  BY <3>1, <3>2, <4>1, <5>1, PacketTimeoutSilent
      <4>3. Session!Silent
        BY <4>2 DEF Session!Silent, Session!Closed
      <4>. QED  BY <4>3 DEF Session!Next
    <3>. QED  BY <3>4, <3>5
  <2>3. ASSUME NEW f \in StreamFrame, ReceiveStreamFrame(f)
        PROVE  Session!Next
    <3>1. CASE Expected(Called) > f.fn % FNMod
      <4>1. dec' = RxTimeout(Called)
        BY <2>3, <3>1 DEF ReceiveStreamFrame, OnStream
      <4>. QED  BY <4>1, TimeoutStep
    <3>2. CASE ~(Expected(Called) > f.fn % FNMod)
      <4> DEFINE r == OnStream(Called, f)
                 last == IsLast(Called, f)
                 sid == Called.streamID
      <4>1. dec' = RxTimeout(r) /\ Good(r)
        BY <2>3, CalledSession, OnStreamGood DEF ReceiveStreamFrame
      <4>2. /\ r.syncedType = "none" \/ r.timeoutCnt = 0
            /\ \/ r.out = <<>> /\ SessionOf(r) = NoLSF /\ NextFNOf(r) = 0
               \/ \E l \in LSFs, resumed \in BOOLEAN :
                    /\ resumed \/ SessionOf(dec) = l
                    /\ LET voiced == Append(IF resumed THEN <<LICHCallback(l)>> ELSE <<>>,
                                            StreamCallback(l, sid, f.fn))
                       IN r.out = IF last THEN Append(voiced, EOTCallback(l, sid, f.fn))
                                  ELSE voiced
                    /\ IF last
                         THEN SessionOf(r) = NoLSF /\ NextFNOf(r) = 0
                         ELSE SessionOf(r) = l /\ NextFNOf(r) = (f.fn + 1) % U16
        BY <3>2, CalledSession, AcceptedReports
      <4>3. NextFNOf(dec) \in Nat /\ f.fn % FNMod >= NextFNOf(dec)
        <5>1. Expected(Called) = Expected(dec) /\ Expected(dec) \in 0 .. NoFN
          BY CalledSession, ExpectedWidth DEF Called, Expected, Good, DecoderState
        <5>2. f.fn % FNMod \in Nat
          BY Widths DEF StreamFrame
        <5>. QED  BY <3>2, <5>1, <5>2, Widths DEF NextFNOf
      <4>4. f.fn \in 0 .. 2 * FNMod - 1 /\ sid \in StreamIDs \cup {0} /\ last \in BOOLEAN
        BY CalledSession DEF Good, DecoderState, StreamFrame, NoFN, U16, IsLast
      <4>. HIDE DEF r, last, sid
      <4>5. dec'.out = r.out /\ SessionOf(dec') = SessionOf(r) /\ NextFNOf(dec') = NextFNOf(r)
        BY <4>1, <4>2, RxTimeoutQuiet
      <4>6. Session!Silent \/ \E l \in LSFs, resumed \in BOOLEAN :
                                Session!Voice(l, sid, f.fn, resumed, last)
        <5>1. CASE r.out = <<>> /\ SessionOf(r) = NoLSF /\ NextFNOf(r) = 0
          BY <4>5, <5>1 DEF Session!Silent, Session!Closed
        <5>2. ASSUME NEW l \in LSFs, NEW resumed \in BOOLEAN,
                     resumed \/ SessionOf(dec) = l,
                     LET voiced == Append(IF resumed THEN <<LICHCallback(l)>> ELSE <<>>,
                                          StreamCallback(l, sid, f.fn))
                     IN r.out = IF last THEN Append(voiced, EOTCallback(l, sid, f.fn))
                                ELSE voiced,
                     IF last
                       THEN SessionOf(r) = NoLSF /\ NextFNOf(r) = 0
                       ELSE SessionOf(r) = l /\ NextFNOf(r) = (f.fn + 1) % U16
              PROVE  Session!Voice(l, sid, f.fn, resumed, last)
          BY <4>3, <4>5, <5>2 DEF Session!Voice, Session!Closed, U16, LICHCallback,
             StreamCallback, EOTCallback, Session!LICHCallback, Session!StreamCallback,
             Session!EOTCallback
        <5>. QED  BY <4>2, <5>1, <5>2
      <4>. QED  BY <4>4, <4>6 DEF Session!Next, Session!RawFN
    <3>. QED  BY <3>1, <3>2
  <2>4. CASE ReceiveEOT
    <3> DEFINE r == OnEOT(Called)
               fn == FNMod + (Expected(Called) % FNMod)
    <3>1. Called.syncedType = "stream" /\ dec' = RxTimeout(r) /\ Good(r)
      BY <2>4, CalledSession, OnEOTGood DEF ReceiveEOT
    <3>2. /\ r.syncedType = "none" /\ SessionOf(r) = NoLSF /\ NextFNOf(r) = 0
          /\ SessionOf(dec) \in LSFs
          /\ r.out = <<EOTCallback(SessionOf(dec), Called.streamID, fn)>>
      BY <3>1, CalledSession, OnEOTReports
    <3>3. fn \in 0 .. 2 * FNMod - 1 /\ Called.streamID \in StreamIDs \cup {0}
      BY CalledSession, ExpectedWidth DEF Good, DecoderState, NoFN, U16
    <3>. HIDE DEF r, fn
    <3>4. dec'.out = r.out /\ SessionOf(dec') = SessionOf(r) /\ NextFNOf(dec') = NextFNOf(r)
      BY <3>1, <3>2, RxTimeoutQuiet
    <3>5. Session!End(Called.streamID, fn)
      BY <3>2, <3>4, DecoderAssumption DEF Session!End, Session!Closed, EOTCallback,
         Session!EOTCallback
    <3>. QED  BY <3>3, <3>5 DEF Session!Next, Session!RawFN
  <2>5. ASSUME NEW typ, Ignore(typ)
        PROVE  Session!Next
    BY <2>5, TimeoutStep DEF Ignore
  <2>. QED  BY <2>1, <2>2, <2>3, <2>4, <2>5 DEF Next
<1>3. TypeOK /\ LSFKnown => Good(dec)
  BY DEF Good, TypeOK, LSFKnown
<1>. QED  BY <1>1, <1>2, <1>3, DecoderSafe, PTL DEF Spec, ImplementsSession, Session!Spec

----------------------------------------------------------------------------
(* The chunks of a packet *)

\* The RX timeout keeps the chunks in order.
LEMMA RxTimeoutInOrder ==
  ASSUME NEW s, Good(s), InOrder(s)
  PROVE  InOrder(RxTimeout(s))
<1>1. CASE RxTimeout(s) = s
  BY <1>1
<1>2. CASE RxTimeout(s) = [s EXCEPT !.timeoutCnt = @ + 1]
  BY <1>2 DEF Good, DecoderState, InOrder, NextChunk
<1>3. \A d : DOMAIN d = DOMAIN s => Reset(d).syncedType = "none"
  BY DEF Reset, Good, DecoderState
<1>4. \A c : DOMAIN Call(s, c) = DOMAIN s
  BY DEF Call
<1>5. CASE RxTimeout(s) = Reset(s) \/ \E c : RxTimeout(s) = Reset(Call(s, c))
  BY <1>3, <1>4, <1>5 DEF InOrder
<1>. QED  BY <1>1, <1>2, <1>5, Zenon DEF RxTimeout

\* The number of a frame that is not the last one leaves room for one more.
LEMMA ChunkNumber ==
  ASSUME NEW f \in PacketFrame, ~f.last
  PROVE  f.n \in Nat /\ f.n + 1 < ByteMod
<1>1. CASE f \in [pkt : {Garbage}, last : BOOLEAN, n : GarbageNums]
  <2>1. f.n \in 0 .. ByteMod - 2
    BY <1>1, DecoderAssumption
  <2>. QED  BY <2>1, Widths
<1>2. ASSUME NEW p \in Packets, f \in FramesOf(p)
      PROVE  f.n \in Nat /\ f.n + 1 < ByteMod
  <2>1. \/ f = [pkt |-> p, last |-> TRUE, n |-> LastLen[p]]
        \/ \E k \in 1 .. PacketChunks[p] - 1 : f = [pkt |-> p, last |-> FALSE, n |-> k - 1]
    BY <1>2, Zenon DEF FramesOf
  <2>2. PICK k \in 1 .. PacketChunks[p] - 1 : f = [pkt |-> p, last |-> FALSE, n |-> k - 1]
    BY <2>1
  <2>3. PacketChunks[p] \in 1 .. ByteMod - 1
    BY DecoderAssumption
  <2>. QED  BY <2>2, <2>3, Widths
<1>. QED  BY <1>1, <1>2 DEF PacketFrame

\* A slice expression of packetData that starts within a byte's reach panics
\* exactly if its end is out of it.
LEMMA SliceEnds ==
  ASSUME NEW n \in Nat, n * ChunkLen < ByteMod, NEW b \in 0 .. ChunkLen
  PROVE  /\ SlicePanics(n * ChunkLen, (n + 1) * ChunkLen) <=> ~Addressable(n, ChunkLen)
         /\ SlicePanics(n * ChunkLen, ((n * ChunkLen) % ByteMod) + b) <=> ~Addressable(n, b)
         /\ Addressable(n, ChunkLen) => (n + 1) * ChunkLen < ByteMod
<1>. DEFINE lo == n * ChunkLen
<1>1. ChunkLen \in Nat /\ ChunkLen > 0 /\ ChunkLen < ByteMod /\ ByteMod \in Nat
  BY DecoderAssumption
<1>2. lo \in Nat /\ (n + 1) * ChunkLen = lo + ChunkLen
  BY <1>1
<1>. HIDE DEF lo
<1>3. lo < ByteMod
  BY DEF lo
<1>4. \A c \in 0 .. ChunkLen : lo % ByteMod > (lo + c) % ByteMod <=> ~(lo + c < ByteMod)
  <2> SUFFICES ASSUME NEW c \in 0 .. ChunkLen
               PROVE  lo % ByteMod > (lo + c) % ByteMod <=> ~(lo + c < ByteMod)
    OBVIOUS
  <2>1. lo % ByteMod = lo /\ c \in Nat /\ c < ByteMod
    BY <1>1, <1>2, <1>3
  <2>2. CASE lo + c < ByteMod
    <3>1. (lo + c) % ByteMod = lo + c
      BY <1>1, <1>2, <2>1, <2>2
    <3>. QED  BY <1>2, <2>1, <2>2, <3>1
  <2>3. CASE ~(lo + c < ByteMod)
    <3>1. (lo + c) % ByteMod = lo + c - ByteMod
      BY <1>1, <1>2, <1>3, <2>1, <2>3
    <3>. QED  BY <1>1, <1>2, <2>1, <2>3, <3>1
  <2>. QED  BY <2>2, <2>3
<1>5. lo % ByteMod = lo /\ ChunkLen \in 0 .. ChunkLen
  BY <1>1, <1>2, <1>3
<1>. QED  BY <1>2, <1>4, <1>5 DEF lo, SlicePanics, Addressable

\* A slot that a byte can address is in the buffer.
LEMMA SlotInBuffer ==
  ASSUME NEW n \in Nat, n * ChunkLen < ByteMod
  PROVE  n \in Slots
<1>1. ChunkLen \in Nat /\ ByteMod \in Nat /\ BufChunks \in Nat /\ ByteMod <= BufChunks * ChunkLen
  BY DecoderAssumption
<1>2. \A a, b, c \in Nat : a <= b => a * c <= b * c
  OBVIOUS
<1>3. ~(BufChunks <= n)
  <2> SUFFICES ASSUME BufChunks <= n PROVE FALSE
    OBVIOUS
  <2>1. BufChunks * ChunkLen <= n * ChunkLen
    BY <1>1, <1>2
  <2>2. BufChunks * ChunkLen \in Nat /\ n * ChunkLen \in Nat
    BY <1>1
  <2>. QED  BY <1>1, <2>1, <2>2
<1>. QED  BY <1>1, <1>3 DEF Slots

\* What a frame that is not the last one carries belongs in the slot it names.
LEMMA DataPlaced ==
  ASSUME NEW f \in PacketFrame, ~f.last
  PROVE  Data(f) = Garbage \/ \E p \in Packets : Data(f) = Chunk(p, f.n)
<1>1. CASE f.pkt = Garbage
  BY <1>1 DEF Data
<1>2. ASSUME NEW p \in Packets, f \in FramesOf(p)
      PROVE  \E q \in Packets : Data(f) = Chunk(q, f.n)
  BY <1>2, FrameSent
<1>. QED  BY <1>1, <1>2 DEF PacketFrame

\* A chunk is stored only in the slot that its number names, the one after the
\* last, and its number is small enough for the byte that counts it.
LEMMA OnPacketInOrder ==
  ASSUME NEW s, Good(s), InOrder(s), s.syncedType = "packet", ~s.crashed,
         NEW f \in PacketFrame
  PROVE  InOrder(OnPacket(s, f))
<1>1. \A d : DOMAIN d = DOMAIN s => Reset(d).syncedType = "none"
  BY DEF Reset, Good, DecoderState
<1>2. CASE OnPacket(s, f) = s
  BY <1>2
<1>3. CASE OnPacket(s, f) = [s EXCEPT !.crashed = TRUE]
  BY <1>3 DEF InOrder, Good, DecoderState
<1>4. CASE ~f.last /\ f.n = NextChunk(s) /\ ~SlicePanics(f.n * ChunkLen, (f.n + 1) * ChunkLen)
           /\ OnPacket(s, f) = [s EXCEPT !.packetData[f.n] = Data(f), !.lastPacketFN = NextChunk(s)]
  <2> DEFINE n == NextChunk(s)
             r == OnPacket(s, f)
  <2>1. n \in Nat /\ n + 1 < ByteMod /\ n * ChunkLen < ByteMod /\ f.n = n
    BY <1>4, ChunkNumber DEF InOrder
  <2>2. (n + 1) % ByteMod = n + 1
    BY <2>1, Widths
  <2>3. r.lastPacketFN = n /\ r.packetData = [s.packetData EXCEPT ![n] = Data(f)]
    BY <1>4 DEF Good, DecoderState
  <2>4. \A i \in Slots : IF i < n THEN Placed(s.packetData, i) ELSE s.packetData[i] = Zeros
    BY DEF InOrder
  <2>. HIDE DEF n, r
  <2>5. NextChunk(r) = n + 1
    BY <2>2, <2>3 DEF NextChunk
  <2>6. Addressable(n, ChunkLen) /\ (n + 1) * ChunkLen < ByteMod
    <3>1. 0 \in 0 .. ChunkLen
      BY DecoderAssumption
    <3>. QED  BY <1>4, <2>1, <3>1, SliceEnds
  <2>7. ASSUME NEW i \in Slots
        PROVE  IF i < n + 1 THEN Placed(r.packetData, i) ELSE r.packetData[i] = Zeros
    <3>1. i \in Nat /\ i \in DOMAIN s.packetData
      BY DecoderAssumption DEF Slots, Good, DecoderState
    <3>2. CASE i = n
      <4>1. r.packetData[i] = Data(f)
        BY <2>3, <3>1, <3>2
      <4>. QED  BY <1>4, <2>1, <3>2, <4>1, DataPlaced DEF Placed
    <3>3. CASE i # n
      <4>1. r.packetData[i] = s.packetData[i]
        BY <2>3, <3>1, <3>3
      <4>2. i < n + 1 <=> i < n
        BY <2>1, <3>1, <3>3
      <4>. QED  BY <2>4, <4>1, <4>2 DEF Placed
    <3>. QED  BY <3>2, <3>3
  <2>. QED  BY <2>5, <2>6, <2>7 DEF InOrder, r
<1>5. CASE \E d : DOMAIN d = DOMAIN s /\ OnPacket(s, f) = Reset(d)
  BY <1>1, <1>5 DEF InOrder
<1>6. CASE f.last
  <2> DEFINE slot  == NextChunk(s)
             whole == [s EXCEPT !.packetData[slot] = Data(f)]
             told  == Call(whole, PacketCallback(s.lsf, f.pkt))
  <2>1. OnPacket(s, f) = [s EXCEPT !.crashed = TRUE] \/ OnPacket(s, f) = Reset(told)
        \/ OnPacket(s, f) = Reset(whole)
    BY <1>6, Zenon DEF OnPacket, FinishPacket
  <2>2. DOMAIN whole = DOMAIN s /\ DOMAIN told = DOMAIN s
    BY DEF Call
  <2>. HIDE DEF whole, told
  <2>. QED  BY <1>3, <1>5, <2>1, <2>2
<1>. QED  BY <1>2, <1>3, <1>4, <1>6, Zenon DEF OnPacket, StoreChunk

\* Voice leaves the packet being received alone, or ends its reception.
LEMMA OnStreamInOrder ==
  ASSUME NEW s, Good(s), InOrder(s), NEW f \in StreamFrame
  PROVE  InOrder(OnStream(s, f))
<1> DEFINE Alike(t) == /\ DOMAIN t = DOMAIN s
                       /\ t.syncedType = s.syncedType /\ t.crashed = s.crashed
                       /\ t.packetData = s.packetData /\ t.lastPacketFN = s.lastPacketFN
           h    == OnLICH(s, f)
           done == Forward(h, f, IsLast(s, f))
<1>1. \A t : Alike(t) => InOrder(t)
  BY DEF InOrder, NextChunk
<1>2. Alike(h)
  <2> DEFINE bytes == [s.lsfBytes EXCEPT ![f.cnt] = f.lich]
             parts == s.lichParts \cup {f.cnt}
             left  == IF parts = Chunks THEN {} ELSE parts
             kept  == [s EXCEPT !.lsfBytes = bytes, !.lichParts = left]
             resumed == [kept EXCEPT !.lsf = f.lich, !.gotLSF = TRUE, !.timeoutCnt = 0]
  <2>1. h = s \/ h = kept \/ h = Call(resumed, LICHCallback(f.lich))
    BY Zenon DEF OnLICH
  <2>. HIDE DEF bytes, left, h
  <2>2. Alike(kept) /\ Alike(Call(resumed, LICHCallback(f.lich)))
    BY DEF Good, DecoderState, Call
  <2>. HIDE DEF kept, resumed
  <2>. QED  BY <2>1, <2>2
<1>3. Alike(done)
  <2> DEFINE base == [h EXCEPT !.streamFN = f.fn, !.timeoutCnt = 0]
             sent == Call(base, StreamCallback(h.lsf, h.streamID, f.fn))
             ended == Call(sent, EOTCallback(h.lsf, h.streamID, f.fn))
  <2>1. done = h \/ done = sent \/ done = ended
    BY Zenon DEF Forward
  <2>. HIDE DEF h, done
  <2>2. Alike(sent) /\ Alike(ended)
    BY <1>2 DEF Good, DecoderState, Call
  <2>. HIDE DEF sent, ended
  <2>. QED  BY <1>2, <2>1, <2>2
<1>4. OnStream(s, f) = s \/ OnStream(s, f) = Reset(done)
      \/ OnStream(s, f) = [done EXCEPT !.lastStreamFN = f.fn]
  BY Zenon DEF OnStream
<1>. HIDE DEF done
<1>5. Alike([done EXCEPT !.lastStreamFN = f.fn])
  BY <1>3 DEF Good, DecoderState
<1>6. Reset(done).syncedType = "none"
  BY <1>3 DEF Reset, Good, DecoderState
<1>7. InOrder(Reset(done))
  BY <1>6 DEF InOrder
<1>. QED  BY <1>1, <1>4, <1>5, <1>7, Zenon

\* The chunks of a packet are where their numbers say, from slot 0 without a
\* gap: its CRC is never computed over bytes that were not received.
THEOREM PacketChunksInOrder == Spec => []PacketInOrder
<1>1. Init => InOrder(dec)
  BY DEF Init, InOrder
<1>2. Good(dec) /\ InOrder(dec) /\ [Next]_dec => InOrder(dec)'
  <2> SUFFICES ASSUME Good(dec), InOrder(dec), [Next]_dec
               PROVE  InOrder(dec)'
    OBVIOUS
  <2>1. Good(Called) /\ Called.syncedType = dec.syncedType /\ Called.crashed = dec.crashed
        /\ InOrder(Called)
    BY CalledGood DEF Called, Good, DecoderState, InOrder, NextChunk
  <2>2. ASSUME NEW f \in LSFFrame, NEW sid \in StreamIDs, ReceiveLSF(f, sid)
        PROVE  InOrder(dec)'
    <3>1. InOrder(OnLSF(Called, f, sid)) /\ Good(OnLSF(Called, f, sid))
      <4>1. Called.syncedType = "none" /\ (NoPacketFN + 1) % ByteMod = 0
        BY <2>1, <2>2, Widths DEF ReceiveLSF, NoPacketFN
      <4>2. CASE f.lsf = Garbage
        <5>1. OnLSF(Called, f, sid).syncedType = "none"
          BY <2>1, <4>1, <4>2 DEF OnLSF, Good, DecoderState
        <5>. QED  BY <2>1, <4>1, <5>1, OnLSFGood DEF InOrder
      <4>3. CASE f.lsf # Garbage
        <5> DEFINE got == [Called EXCEPT !.lsf = f.lsf, !.gotLSF = TRUE, !.timeoutCnt = 0,
                                         !.lastStreamFN = NoFN, !.lastPacketFN = NoPacketFN]
                   synced == IF f.lsf \in PacketLSFs
                               THEN [got EXCEPT !.syncedType = "packet", !.packetData = Blank]
                               ELSE [got EXCEPT !.syncedType = "stream", !.lichParts = {},
                                                !.streamFN = 0, !.streamID = sid]
        <5>1. got.lastPacketFN = NoPacketFN /\ DOMAIN got = DOMAIN Called
          BY <2>1 DEF Good, DecoderState
        <5>2. /\ DOMAIN synced = DOMAIN Called
              /\ synced.syncedType = "packet" => synced.packetData = Blank
                                                  /\ synced.lastPacketFN = NoPacketFN
          <6>. HIDE DEF got
          <6>. QED  BY <2>1, <5>1 DEF Good, DecoderState
        <5>3. OnLSF(Called, f, sid) = Call(synced, LSFCallback(f.lsf))
          BY <4>3 DEF OnLSF
        <5>. HIDE DEF synced
        <5>4. LET r == Call(synced, LSFCallback(f.lsf))
              IN r.syncedType = synced.syncedType /\ r.packetData = synced.packetData
                 /\ r.lastPacketFN = synced.lastPacketFN
          BY <2>1, <5>2 DEF Call, Good, DecoderState
        <5>5. /\ 0 * ChunkLen < ByteMod
              /\ \A i \in Slots : ~(i < 0) /\ Blank[i] = Zeros
          BY DecoderAssumption DEF Blank, Slots
        <5>. DEFINE r == OnLSF(Called, f, sid)
        <5>6. r.syncedType = "packet" => r.packetData = Blank /\ NextChunk(r) = 0
          BY <4>1, <5>2, <5>3, <5>4 DEF NextChunk
        <5>. HIDE DEF r
        <5>7. InOrder(r)
          BY <5>5, <5>6 DEF InOrder
        <5>. USE DEF r
        <5>. QED  BY <2>1, <4>1, <5>7, OnLSFGood
      <4>. QED  BY <4>2, <4>3
    <3>2. InOrder(RxTimeout(OnLSF(Called, f, sid)))
      BY <3>1, RxTimeoutInOrder
    <3>. QED  BY <2>2, <3>2 DEF ReceiveLSF, InOrder, NextChunk
  <2>3. ASSUME NEW f \in PacketFrame, ReceivePacketFrame(f)
        PROVE  InOrder(dec)'
    <3>1. InOrder(RxTimeout(OnPacket(Called, f)))
      BY <2>1, <2>3, OnPacketInOrder, OnPacketGood, RxTimeoutInOrder DEF ReceivePacketFrame
    <3>. QED  BY <2>3, <3>1 DEF ReceivePacketFrame, InOrder, NextChunk
  <2>4. ASSUME NEW f \in StreamFrame, ReceiveStreamFrame(f)
        PROVE  InOrder(dec)'
    <3>1. InOrder(RxTimeout(OnStream(Called, f)))
      BY <2>1, OnStreamInOrder, OnStreamGood, RxTimeoutInOrder
    <3>. QED  BY <2>4, <3>1 DEF ReceiveStreamFrame, InOrder, NextChunk
  <2>5. CASE ReceiveEOT
    <3>1. Called.syncedType = "stream" /\ Called.out = <<>>
      BY <2>1, <2>5, CalledSession DEF ReceiveEOT
    <3>2. OnEOT(Called).syncedType = "none"
      BY <2>1, <3>1, OnEOTReports
    <3>3. InOrder(OnEOT(Called)) /\ Good(OnEOT(Called))
      BY <2>1, <3>2, OnEOTGood DEF InOrder
    <3>4. InOrder(RxTimeout(OnEOT(Called)))
      BY <3>3, RxTimeoutInOrder
    <3>. QED  BY <2>5, <3>4 DEF ReceiveEOT, InOrder, NextChunk
  <2>6. ASSUME NEW typ, Ignore(typ)
        PROVE  InOrder(dec)'
    <3>1. InOrder(RxTimeout(Called))
      BY <2>1, RxTimeoutInOrder
    <3>. QED  BY <2>6, <3>1 DEF Ignore, InOrder, NextChunk
  <2>7. CASE UNCHANGED dec
    BY <2>7 DEF InOrder, NextChunk
  <2>. QED  BY <2>2, <2>3, <2>4, <2>5, <2>6, <2>7 DEF Next
<1>3. TypeOK /\ LSFKnown => Good(dec)
  BY DEF Good, TypeOK, LSFKnown
<1>. QED  BY <1>1, <1>2, <1>3, DecoderSafe, PTL DEF Spec, PacketInOrder

----------------------------------------------------------------------------
(* Whole packets *)

\* The number of chunks stored is read off packetData.
LEMMA FilledCount ==
  ASSUME Good(dec), InOrder(dec), dec.syncedType = "packet", ~dec.crashed,
         NEW p \in Packets, NEW k \in 0 .. PacketChunks[p] - 1, dec.packetData = Filled(p, k)
  PROVE  NextChunk(dec) = k /\ k * ChunkLen < ByteMod /\ k \in Slots
<1>. DEFINE n == NextChunk(dec)
<1>1. /\ n \in Nat /\ n <= ByteMod /\ n * ChunkLen < ByteMod
      /\ \A i \in Slots : IF i < n THEN Placed(dec.packetData, i) ELSE dec.packetData[i] = Zeros
  BY ExpectedWidth, Widths DEF InOrder, Good, NoPacketFN
<1>2. k \in Nat /\ k <= ByteMod /\ PacketChunks[p] \in Nat
  BY DecoderAssumption, Widths
<1>3. n \in Slots /\ BufChunks \in Nat
  BY <1>1, SlotInBuffer, DecoderAssumption
<1>. HIDE DEF n
<1>4. ~(n < k)
  <2> SUFFICES ASSUME n < k PROVE FALSE
    OBVIOUS
  <2>1. dec.packetData[n] = Chunk(p, n)
    BY <1>3 DEF Filled
  <2>2. dec.packetData[n] = Zeros
    BY <1>1, <1>3
  <2>3. n \in 0 .. ByteMod
    BY <1>1, Widths
  <2>. QED  BY <2>1, <2>2, <2>3, DecoderAssumption DEF Chunk
<1>5. ~(k < n)
  <2> SUFFICES ASSUME k < n PROVE FALSE
    OBVIOUS
  <2>1. k \in Slots
    BY <1>1, <1>2, <1>3 DEF Slots
  <2>2. dec.packetData[k] = Zeros
    BY <1>2, <2>1 DEF Filled
  <2>3. Placed(dec.packetData, k)
    BY <1>1, <2>1
  <2>4. k \in 0 .. ByteMod
    BY <1>2, Widths
  <2>. QED  BY <2>2, <2>3, <2>4, DecoderAssumption DEF Placed, Chunk
<1>6. n = k
  BY <1>1, <1>2, <1>4, <1>5
<1>. QED  BY <1>1, <1>3, <1>6 DEF n

\* The frame that is due for a packet of which the first k chunks are there is
\* taken, the last one handing the packet over, or panics.
LEMMA DueChunkTaken ==
  ASSUME Good(dec), InOrder(dec), NEW p \in Packets,
         NEW k \in 0 .. PacketChunks[p] - 1, NEW f \in FramesOf(p), InTurn(p, k, f)
  PROVE  IF Addressable(k, IF f.last THEN LastLen[p] ELSE ChunkLen)
           THEN Taken(p, k, f)
           ELSE dec'.crashed
<1>1. PacketChunks[p] \in Nat /\ k \in Nat /\ LastLen[p] \in 0 .. ChunkLen /\ ChunkLen \in Nat
  BY DecoderAssumption
<1>2. /\ f.pkt = p /\ f.last \in BOOLEAN
      /\ f.last => f.n = LastLen[p] /\ k = PacketChunks[p] - 1 /\ ~(f.n > ChunkLen)
      /\ ~f.last => f.n = k
  <2>1. Data(f) = Chunk(p, k)
    BY DEF InTurn
  <2>2. \A i, j : Chunk(p, i) = Chunk(p, j) => i = j
    <3> SUFFICES ASSUME NEW i, NEW j, Chunk(p, i) = Chunk(p, j) PROVE i = j
      OBVIOUS
    <3>1. Chunk(p, i).no = i /\ Chunk(p, j).no = j
      BY DEF Chunk
    <3>. QED  BY <3>1
  <2>. QED  BY <1>1, <2>1, <2>2, FrameSent
<1>3. /\ Good(Called) /\ Called.packetData = Filled(p, k) /\ Called.lsf = dec.lsf
      /\ NextChunk(Called) = k /\ Called.out = <<>> /\ k \in Slots /\ k * ChunkLen < ByteMod
  <2>1. NextChunk(dec) = k /\ k \in Slots /\ k * ChunkLen < ByteMod
    BY FilledCount DEF InTurn, ReceivePacketFrame
  <2>. QED  BY <2>1, CalledGood DEF Called, Good, DecoderState, NextChunk, InTurn
<1>4. dec' = RxTimeout(OnPacket(Called, f)) /\ Data(f) = Chunk(p, k)
  BY DEF ReceivePacketFrame, InTurn
<1>5. [Filled(p, k) EXCEPT ![k] = Chunk(p, k)] = Filled(p, k + 1)
  <2> SUFFICES ASSUME NEW i \in Slots
               PROVE  (IF i = k THEN Chunk(p, k) ELSE IF i < k THEN Chunk(p, i) ELSE Zeros)
                        = IF i < k + 1 THEN Chunk(p, i) ELSE Zeros
    BY <1>3 DEF Filled
  <2>1. i \in Nat
    BY DecoderAssumption DEF Slots
  <2>2. i < k + 1 <=> i < k \/ i = k
    BY <1>1, <2>1
  <2>. QED  BY <1>1, <2>1, <2>2
<1>. DEFINE dead == [Called EXCEPT !.crashed = TRUE]
<1>6. ASSUME OnPacket(Called, f) = dead
      PROVE  dec'.crashed
  <2>1. dead.crashed
    BY <1>3 DEF Good, DecoderState
  <2>. HIDE DEF dead
  <2>2. RxTimeout(dead) = dead
    BY <2>1 DEF RxTimeout
  <2>. QED  BY <1>4, <1>6, <2>1, <2>2
<1>7. CASE ~f.last
  <2> DEFINE r == [Called EXCEPT !.packetData[f.n] = Data(f), !.lastPacketFN = NextChunk(Called)]
  <2>1. SlicePanics(f.n * ChunkLen, (f.n + 1) * ChunkLen) <=> ~Addressable(k, ChunkLen)
    BY <1>1, <1>2, <1>3, <1>7, SliceEnds
  <2>2. CASE ~Addressable(k, ChunkLen)
    <3>1. OnPacket(Called, f) = dead
      BY <1>2, <1>3, <1>7, <2>1, <2>2 DEF OnPacket, StoreChunk
    <3>. QED  BY <1>6, <1>7, <2>2, <3>1
  <2>3. CASE Addressable(k, ChunkLen)
    <3>1. OnPacket(Called, f) = r
      BY <1>2, <1>3, <1>7, <2>1, <2>3 DEF OnPacket, StoreChunk
    <3>2. r.packetData = Filled(p, k + 1) /\ DOMAIN r = DOMAIN Called
      BY <1>2, <1>3, <1>4, <1>5, <1>7 DEF Good, DecoderState
    <3>. HIDE DEF r
    <3>3. \A s : DOMAIN s = DOMAIN Called =>
            /\ Reset(s).packetData = s.packetData
            /\ [s EXCEPT !.timeoutCnt = @ + 1].packetData = s.packetData
            /\ \A c : Call(s, c).packetData = s.packetData /\ DOMAIN Call(s, c) = DOMAIN s
      BY <1>3 DEF Reset, Call, Good, DecoderState
    <3>4. \/ RxTimeout(r) = r \/ RxTimeout(r) = [r EXCEPT !.timeoutCnt = @ + 1]
          \/ RxTimeout(r) = Reset(r) \/ \E c : RxTimeout(r) = Reset(Call(r, c))
      BY Zenon DEF RxTimeout
    <3>5. RxTimeout(r).packetData = r.packetData
      <4>1. CASE RxTimeout(r) = r
        BY <4>1
      <4>2. CASE RxTimeout(r) = [r EXCEPT !.timeoutCnt = @ + 1]
        BY <3>2, <3>3, <4>2
      <4>3. CASE RxTimeout(r) = Reset(r)
        BY <3>2, <3>3, <4>3
      <4>4. CASE \E c : RxTimeout(r) = Reset(Call(r, c))
        BY <3>2, <3>3, <4>4
      <4>. QED  BY <3>4, <4>1, <4>2, <4>3, <4>4
    <3>. QED  BY <1>4, <1>7, <2>3, <3>1, <3>2, <3>5 DEF Taken
  <2>. QED  BY <2>2, <2>3
<1>8. CASE f.last
  <2> DEFINE whole == [Called EXCEPT !.packetData[k] = Data(f)]
             told  == Call(whole, PacketCallback(Called.lsf, f.pkt))
  <2>1. SlicePanics(k * ChunkLen, ((k * ChunkLen) % ByteMod) + LastLen[p])
          <=> ~Addressable(k, LastLen[p])
    BY <1>1, <1>3, SliceEnds
  <2>2. OnPacket(Called, f) = FinishPacket(Called, f)
    BY <1>8 DEF OnPacket
  <2>3. CASE ~Addressable(k, LastLen[p])
    <3>1. OnPacket(Called, f) = dead
      BY <1>2, <1>3, <1>8, <2>1, <2>2, <2>3 DEF FinishPacket
    <3>. QED  BY <1>6, <1>8, <2>3, <3>1
  <2>4. CASE Addressable(k, LastLen[p])
    <3>1. whole.packetData = Filled(p, k + 1) /\ whole.out = <<>> /\ DOMAIN whole = DOMAIN Called
      BY <1>3, <1>4, <1>5 DEF Good, DecoderState
    <3>2. Intact(whole.packetData, k, LastLen[p], p)
      <4>1. ASSUME NEW i \in 0 .. k
            PROVE  Filled(p, k + 1)[i] = Chunk(p, i)
        <5>1. i \in Slots /\ i < k + 1
          BY <1>1, <1>3, DecoderAssumption DEF Slots
        <5>. QED  BY <5>1 DEF Filled
      <4>. HIDE DEF whole
      <4>. QED  BY <1>2, <1>8, <3>1, <4>1 DEF Intact
    <3>3. OnPacket(Called, f) = Reset(told)
      BY <1>2, <1>3, <1>8, <2>1, <2>2, <2>4, <3>2 DEF FinishPacket
    <3>. HIDE DEF whole
    <3>4. told.out = <<PacketCallback(dec.lsf, p)>> /\ DOMAIN told = DOMAIN Called
      BY <1>2, <1>3, <3>1, FirstCallback DEF Call, Good, DecoderState
    <3>. HIDE DEF told
    <3>5. Reset(told).out = told.out /\ Reset(told).syncedType = "none"
      BY <1>3, <3>4 DEF Reset, Good, DecoderState
    <3>6. RxTimeout(Reset(told)) = Reset(told)
      BY <3>5 DEF RxTimeout
    <3>. QED  BY <1>4, <1>8, <2>4, <3>3, <3>4, <3>5, <3>6 DEF Taken
  <2>. QED  BY <2>3, <2>4
<1>. QED  BY <1>2, <1>7, <1>8

\* The frames of a packet that are heard in order are taken chunk by chunk, and
\* the last hands the packet to the gateway, up to the first whose end a byte
\* cannot count, which panics: for packets and bytes of any size.
THEOREM PacketsHandled == Spec => PacketHandled
<1>. DEFINE Handled ==
       \A p \in Packets : \A k \in 0 .. PacketChunks[p] - 1, f \in FramesOf(p) :
         InTurn(p, k, f) =>
           IF Addressable(k, IF f.last THEN LastLen[p] ELSE ChunkLen)
             THEN Taken(p, k, f)
             ELSE dec'.crashed
<1>1. Good(dec) /\ InOrder(dec) /\ [Next]_dec => [Handled]_dec
  BY DueChunkTaken
<1>2. TypeOK /\ LSFKnown /\ PacketInOrder => Good(dec) /\ InOrder(dec)
  BY DEF Good, TypeOK, LSFKnown, PacketInOrder
<1>. QED  BY <1>1, <1>2, DecoderSafe, PacketChunksInOrder, PTL DEF Spec, PacketHandled

----------------------------------------------------------------------------
(* Stations on the air, one after another (RFAir) *)

\* What the decoder has of an over: nothing, or a stream under the station's
\* link setup.
Idle(d)   == SessionOf(d) = NoLSF /\ d.syncedType = "none"
Tuned(d)  == SessionOf(d) = Station /\ d.syncedType = "stream"

\* An over that was followed so far: its end is still to come, or was reported.
Progress ==
  \/ Tuned(dec) /\ ends = 0
  \/ pos = OverLen + 1 /\ Idle(dec) /\ ends = 1

\* The next voice frame of the over is not behind those heard.
InStep == ~flipped /\ pos \in 1 .. OverLen /\ pos <= FNMod => NextFNOf(dec) < pos

AirTypes ==
  /\ Good(dec)
  /\ over \in 1 .. Len(Overs)
  /\ pos \in 0 .. OverLen + 1
  /\ ends \in Nat
  /\ flipped \in BOOLEAN
  /\ entry \in {"own", "late", "stale"}

Between  == pos = 0 => entry # "own" /\ (entry # "stale" => Idle(dec))
OwnVoice == pos # 0 /\ IsVoice /\ entry # "stale" => SessionOf(dec) \in {Station, NoLSF} /\ InStep
OneEnd   == pos # 0 /\ Followed => Progress

AirInv == AirTypes /\ Between /\ OwnVoice /\ OneEnd

\* The entries of Overs.
LEMMA OverEntries == \A o \in 1 .. Len(Overs) : Overs[o] \in VoiceOvers \cup PacketOvers
<1>1. \A S, i : \A q \in Seq(S) : i \in 1 .. Len(q) => q[i] \in S
  OBVIOUS
<1>2. Overs \in Seq(VoiceOvers \cup PacketOvers)
  BY AirAssumption
<1>. QED  BY <1>1, <1>2, Zenon

\* The station on the air sends voice, or a packet, in some number of frames.
LEMMA OnAir ==
  ASSUME over \in 1 .. Len(Overs)
  PROVE  /\ Station \in LSFs /\ Station # NoLSF /\ Station # Garbage
         /\ OverLen \in Nat /\ OverLen > 0
         /\ IsVoice \/ Overs[over].pkt \in Packets
         /\ (over % Len(Overs)) + 1 \in 1 .. Len(Overs)
<1>1. Overs \in Seq(VoiceOvers \cup PacketOvers) /\ Len(Overs) \in Nat
  BY AirAssumption
<1>2. Overs[over] \in VoiceOvers \cup PacketOvers
  BY OverEntries, Zenon
<1>3. (over % Len(Overs)) + 1 \in 1 .. Len(Overs)
  BY <1>1
<1>4. CASE Overs[over] \in VoiceOvers
  <2>1. Station \in StreamLSFs /\ Overs[over].len \in Nat \ {0}
    BY <1>4 DEF VoiceOvers, Station
  <2>. QED  BY <1>3, <2>1, DecoderAssumption DEF StreamLSFs, IsVoice, OverLen
<1>5. CASE Overs[over] \in PacketOvers
  <2>1. Station \in PacketLSFs /\ Overs[over].pkt \in Packets
    BY <1>5 DEF PacketOvers, Station
  <2>2. PacketChunks[Overs[over].pkt] \in Nat /\ PacketChunks[Overs[over].pkt] > 0
    BY <2>1, DecoderAssumption
  <2>3. ~IsVoice
    BY <2>1 DEF IsVoice, StreamLSFs
  <2>. QED  BY <1>3, <2>1, <2>2, <2>3, DecoderAssumption DEF OverLen
<1>. QED  BY <1>2, <1>4, <1>5

\* What the station sends as the voice frame at `pos`: its number and its LICH.
LEMMA VoiceFrameSent ==
  ASSUME over \in 1 .. Len(Overs), IsVoice, pos \in 1 .. OverLen, NEW flip \in BOOLEAN,
         NEW lich \in {Station, Garbage}
  PROVE  LET f == VoiceFrame(pos - 1, lich, flip)
         IN /\ f \in StreamFrame /\ f.lich = lich
            /\ (f.fn >= FNMod <=> (pos = OverLen) # flip)
            /\ pos <= FNMod => /\ f.fn % FNMod = pos - 1
                               /\ f.fn < FNMod => (f.fn + 1) % U16 = pos
<1>. DEFINE k == pos - 1
            m == k % FNMod
            fn == m + (IF (k + 1 = OverLen) # flip THEN FNMod ELSE 0)
<1>1. OverLen \in Nat /\ FNMod \in Nat /\ FNMod > 0 /\ Station \in StreamLSFs
      /\ LichChunks \in Nat /\ LichChunks > 0
  BY OnAir, Widths, DecoderAssumption DEF IsVoice
<1>2. k \in Nat /\ pos \in Nat /\ k + 1 = pos
  BY <1>1
<1>3. m \in 0 .. FNMod - 1 /\ (pos <= FNMod => m = k)
  BY <1>1, <1>2
<1>4. VoiceFrame(k, lich, flip) = [fn |-> fn, cnt |-> m % LichChunks, lich |-> lich]
  BY DEF VoiceFrame
<1>. HIDE DEF m, k
<1>5. /\ fn \in 0 .. NoFN /\ fn % FNMod = m
      /\ (fn >= FNMod <=> (pos = OverLen) # flip)
      /\ (fn < FNMod => (fn + 1) % U16 = m + 1)
  <2>1. CASE (pos = OverLen) # flip
    <3>1. fn = m + FNMod /\ (m + FNMod) % FNMod = m
      BY <1>1, <1>2, <1>3, <2>1
    <3>. QED  BY <1>1, <1>3, <2>1, <3>1 DEF NoFN, U16
  <2>2. CASE ~((pos = OverLen) # flip)
    <3>1. fn = m /\ m % FNMod = m /\ (m + 1) % U16 = m + 1
      BY <1>1, <1>2, <1>3, <2>2 DEF U16
    <3>. QED  BY <1>1, <1>3, <2>2, <3>1 DEF NoFN, U16
  <2>. QED  BY <2>1, <2>2
<1>6. m % LichChunks \in 0 .. LichChunks
  BY <1>1, <1>3
<1>. HIDE DEF fn
<1>7. VoiceFrame(k, lich, flip) \in StreamFrame
  BY <1>1, <1>4, <1>5, <1>6 DEF StreamFrame
<1>8. LET f == VoiceFrame(k, lich, flip)
      IN /\ f \in StreamFrame /\ f.lich = lich
         /\ (f.fn >= FNMod <=> (pos = OverLen) # flip)
         /\ pos <= FNMod => /\ f.fn % FNMod = k
                            /\ f.fn < FNMod => (f.fn + 1) % U16 = pos
  BY <1>2, <1>3, <1>4, <1>5, <1>7
<1>. QED  BY <1>8 DEF k

\* What the station sends as the packet frame at `pos`.
LEMMA PacketUnitSent ==
  ASSUME over \in 1 .. Len(Overs), ~IsVoice, pos \in 1 .. OverLen
  PROVE  PacketUnit(pos - 1) \in PacketFrame
<1>. DEFINE p == Overs[over].pkt
            k == pos - 1
            f == PacketUnit(k)
<1>1. p \in Packets /\ OverLen = PacketChunks[p] /\ OverLen \in Nat
  BY OnAir DEF OverLen
<1>2. k + 1 = pos
  BY <1>1
<1>3. f = [pkt |-> p, last |-> pos = OverLen, n |-> IF pos = OverLen THEN LastLen[p] ELSE k]
  BY <1>2, Zenon DEF PacketUnit
<1>. HIDE DEF p
<1>4. f \in FramesOf(p)
  <2>1. CASE pos = OverLen
    <3>1. f = [pkt |-> p, last |-> TRUE, n |-> LastLen[p]]
      BY <1>3, <2>1
    <3>. QED  BY <3>1 DEF FramesOf
  <2>2. CASE pos # OverLen
    <3>1. pos \in 1 .. PacketChunks[p] - 1
      BY <1>1, <2>2
    <3>2. f = [pkt |-> p, last |-> FALSE, n |-> pos - 1]
      BY <1>3, <2>2
    <3>. HIDE DEF f
    <3>. QED  BY <3>1, <3>2 DEF FramesOf
  <2>. QED  BY <2>1, <2>2
<1>. HIDE DEF f
<1>5. f \in PacketFrame
  BY <1>1, <1>4 DEF PacketFrame
<1>. QED  BY <1>5 DEF f

\* Batches of two and three callbacks.
LEMMA TwoCallbacks ==
  ASSUME NEW a, NEW b
  PROVE  LET s == Append(<<a>>, b)
         IN DOMAIN s = 1 .. 2 /\ s[1] = a /\ s[2] = b
OBVIOUS

LEMMA ThreeCallbacks ==
  ASSUME NEW a, NEW b, NEW c
  PROVE  LET s == Append(Append(<<a>>, b), c)
         IN DOMAIN s = 1 .. 3 /\ s[1] = a /\ s[2] = b /\ s[3] = c
OBVIOUS

\* The callbacks of one accepted voice frame.
Batch(l, sid, fn, resumed, isLast) ==
  LET voiced == Append(IF resumed THEN <<LICHCallback(l)>> ELSE <<>>, StreamCallback(l, sid, fn))
  IN IF isLast THEN Append(voiced, EOTCallback(l, sid, fn)) ELSE voiced

\* What the callbacks of one accepted voice frame are: all under one link setup,
\* the voice always among them, an end if it was honoured as the last frame.
LEMMA VoicedBatch ==
  ASSUME NEW l, NEW sid, NEW fn, NEW resumed \in BOOLEAN, NEW isLast \in BOOLEAN,
         NEW batch, batch = Batch(l, sid, fn, resumed, isLast)
  PROVE  /\ \A i \in DOMAIN batch : batch[i].lsf = l
         /\ \E i \in DOMAIN batch : batch[i].cb = "Stream"
         /\ isLast <=> \E i \in DOMAIN batch : batch[i].cb = "EOT"
<1>. DEFINE a == LICHCallback(l)
            b == StreamCallback(l, sid, fn)
            c == EOTCallback(l, sid, fn)
<1>1. /\ a.cb = "LICH" /\ b.cb = "Stream" /\ c.cb = "EOT"
      /\ a.lsf = l /\ b.lsf = l /\ c.lsf = l
  BY DEF LICHCallback, StreamCallback, EOTCallback
<1>2. batch = IF isLast THEN Append(Append(IF resumed THEN <<a>> ELSE <<>>, b), c)
              ELSE Append(IF resumed THEN <<a>> ELSE <<>>, b)
  BY DEF Batch
<1>. HIDE DEF a, b, c
<1>3. CASE resumed /\ isLast
  <2>1. DOMAIN batch = 1 .. 3 /\ batch[1] = a /\ batch[2] = b /\ batch[3] = c
    <3>1. batch = Append(Append(<<a>>, b), c)
      BY <1>2, <1>3
    <3>. QED  BY <3>1, ThreeCallbacks
  <2>2. \A i \in DOMAIN batch : batch[i].lsf = l
    BY <1>1, <2>1
  <2>3. batch[2].cb = "Stream" /\ 2 \in DOMAIN batch
    BY <1>1, <2>1
  <2>4. batch[3].cb = "EOT" /\ 3 \in DOMAIN batch
    BY <1>1, <2>1
  <2>. QED  BY <1>3, <2>2, <2>3, <2>4
<1>4. CASE resumed /\ ~isLast
  <2>1. DOMAIN batch = 1 .. 2 /\ batch[1] = a /\ batch[2] = b
    <3>1. batch = Append(<<a>>, b)
      BY <1>2, <1>4
    <3>. QED  BY <3>1, TwoCallbacks
  <2>2. \A i \in DOMAIN batch : batch[i].lsf = l /\ batch[i].cb # "EOT"
    BY <1>1, <2>1
  <2>3. batch[2].cb = "Stream" /\ 2 \in DOMAIN batch
    BY <1>1, <2>1
  <2>. QED  BY <1>4, <2>2, <2>3
<1>5. CASE ~resumed /\ isLast
  <2>1. DOMAIN batch = 1 .. 2 /\ batch[1] = b /\ batch[2] = c
    <3>1. batch = Append(<<b>>, c)
      BY <1>2, <1>5, FirstCallback
    <3>. QED  BY <3>1, TwoCallbacks
  <2>2. \A i \in DOMAIN batch : batch[i].lsf = l
    BY <1>1, <2>1
  <2>3. batch[1].cb = "Stream" /\ 1 \in DOMAIN batch
    BY <1>1, <2>1
  <2>4. batch[2].cb = "EOT" /\ 2 \in DOMAIN batch
    BY <1>1, <2>1
  <2>. QED  BY <1>5, <2>2, <2>3, <2>4
<1>6. CASE ~resumed /\ ~isLast
  <2>1. batch = <<b>>
    BY <1>2, <1>6, FirstCallback
  <2>. QED  BY <1>1, <1>6, <2>1
<1>. QED  BY <1>3, <1>4, <1>5, <1>6

\* An accepted frame leaves the decoder in sync unless it is honoured as the last one.
LEMMA AcceptedSync ==
  ASSUME NEW s, Good(s), s.out = <<>>, NEW f \in StreamFrame,
         ~(Expected(s) > f.fn % FNMod)
  PROVE  OnStream(s, f).syncedType = IF IsLast(s, f) THEN "none" ELSE s.syncedType
<1> DEFINE h    == OnLICH(s, f)
           base == [h EXCEPT !.streamFN = f.fn, !.timeoutCnt = 0]
           sent == Call(base, StreamCallback(h.lsf, h.streamID, f.fn))
           told == Call(sent, EOTCallback(h.lsf, h.streamID, f.fn))
           done == Forward(h, f, IsLast(s, f))
<1>1. Good(h) /\ h.syncedType = s.syncedType
  BY OnLICHGood, OnLICHReports
<1>2. done = h \/ done = sent \/ done = told
  BY Zenon DEF Forward
<1>3. OnStream(s, f) = IF IsLast(s, f) THEN Reset(done) ELSE [done EXCEPT !.lastStreamFN = f.fn]
  BY DEF OnStream
<1>. HIDE DEF h, done
<1>4. DOMAIN sent = DOMAIN h /\ sent.syncedType = h.syncedType
  BY <1>1 DEF Good, DecoderState, Call
<1>5. DOMAIN told = DOMAIN h /\ told.syncedType = h.syncedType
  <2>. HIDE DEF sent
  <2>. QED  BY <1>1, <1>4 DEF Good, DecoderState, Call
<1>. HIDE DEF sent, told
<1>6. DOMAIN done = DOMAIN h /\ done.syncedType = s.syncedType
  BY <1>1, <1>2, <1>4, <1>5
<1>7. Reset(done).syncedType = "none"
      /\ [done EXCEPT !.lastStreamFN = f.fn].syncedType = done.syncedType
  BY <1>1, <1>6 DEF Reset, Good, DecoderState
<1>. QED  BY <1>3, <1>6, <1>7

\* A call that finds nothing to report but a timeout reports an end at most.
LEMMA TimeoutOut ==
  ASSUME NEW s, Good(s), s.out = <<>>
  PROVE  LET t == RxTimeout(s)
         IN /\ \A i \in DOMAIN t.out : t.out[i].cb = "EOT"
            /\ SessionOf(t) \in {SessionOf(s), NoLSF} /\ NextFNOf(t) \in {NextFNOf(s), 0}
<1>1. ASSUME NEW l, NEW sid, NEW fn
      PROVE  \A i \in DOMAIN <<EOTCallback(l, sid, fn)>> : <<EOTCallback(l, sid, fn)>>[i].cb = "EOT"
  BY DEF EOTCallback
<1>2. \A i \in DOMAIN <<>> : <<>>[i].cb = "EOT"
  OBVIOUS
<1>3. /\ RxTimeout(s).out = <<>> \/ \E l, sid, fn : RxTimeout(s).out = <<EOTCallback(l, sid, fn)>>
      /\ SessionOf(RxTimeout(s)) \in {SessionOf(s), NoLSF}
      /\ NextFNOf(RxTimeout(s)) \in {NextFNOf(s), 0}
  <2>. DEFINE t == RxTimeout(s)
              e == EOTCallback(SessionOf(s), s.streamID, s.streamFN)
  <2>1. \/ t.out = s.out /\ SessionOf(t) = SessionOf(s) /\ NextFNOf(t) = NextFNOf(s)
        \/ t.out = s.out /\ SessionOf(t) = NoLSF /\ NextFNOf(t) = 0
        \/ t.out = Append(s.out, e) /\ SessionOf(t) = NoLSF /\ NextFNOf(t) = 0
    BY RxTimeoutReports
  <2>2. Append(s.out, e) = <<e>>
    BY FirstCallback
  <2>3. t.out = <<>> \/ t.out = <<e>>
    BY <2>1, <2>2
  <2>. QED  BY <2>1, <2>3
<1>. QED  BY <1>1, <1>2, <1>3

\* A voice frame of the station on the air, heard by a decoder that holds no
\* other station's link setup: what is reported bears the station's, and the
\* frame is forwarded if there is a session and it is not behind it.
LEMMA HeardVoice ==
  ASSUME Good(dec), NEW l \in LSFs, NEW f \in StreamFrame, f.lich \in {l, Garbage},
         SessionOf(dec) \in {l, NoLSF}, ReceiveStreamFrame(f)
  PROVE  /\ SessionOf(dec') \in {l, NoLSF}
         /\ \A i \in DOMAIN dec'.out : dec'.out[i].cb \in {"Stream", "LICH"} => dec'.out[i].lsf = l
         /\ dec.gotLSF /\ NextFNOf(dec) <= f.fn % FNMod => Reported("Stream")
         /\ NextFNOf(dec') \in {NextFNOf(dec), 0, (f.fn + 1) % U16}
<1>. DEFINE r    == OnStream(Called, f)
            last == IsLast(Called, f)
            sid  == Called.streamID
<1>1. /\ Good(Called) /\ Called.out = <<>> /\ Called.gotLSF = dec.gotLSF
      /\ SessionOf(Called) = SessionOf(dec) /\ NextFNOf(Called) = NextFNOf(dec)
      /\ Expected(Called) = Expected(dec)
  BY CalledSession DEF Called, Expected, Good, DecoderState
<1>2. dec' = RxTimeout(r) /\ Good(r)
  BY <1>1, OnStreamGood DEF ReceiveStreamFrame
<1>3. CASE Expected(Called) > f.fn % FNMod
  <2>1. r = Called
    BY <1>3 DEF OnStream
  <2>. HIDE DEF r
  <2>2. /\ \A i \in DOMAIN dec'.out : dec'.out[i].cb = "EOT"
        /\ SessionOf(dec') \in {SessionOf(dec), NoLSF} /\ NextFNOf(dec') \in {NextFNOf(dec), 0}
    BY <1>1, <1>2, <2>1, TimeoutOut
  <2>3. Expected(dec) \in Nat /\ f.fn % FNMod \in Nat
    BY ExpectedWidth, Widths DEF Good, StreamFrame
  <2>4. ~(dec.gotLSF /\ NextFNOf(dec) <= f.fn % FNMod)
    BY <1>1, <1>3, <2>3 DEF NextFNOf
  <2>. QED  BY <2>2, <2>4
<1>4. CASE ~(Expected(Called) > f.fn % FNMod)
  <2>1. /\ r.syncedType = "none" \/ r.timeoutCnt = 0
        /\ \/ ~Called.gotLSF /\ r.out = <<>> /\ SessionOf(r) = NoLSF /\ NextFNOf(r) = 0
           \/ \E m \in LSFs, resumed \in BOOLEAN :
                /\ (resumed /\ m = f.lich) \/ SessionOf(Called) = m
                /\ r.out = Batch(m, sid, f.fn, resumed, last)
                /\ IF last THEN SessionOf(r) = NoLSF /\ NextFNOf(r) = 0
                   ELSE SessionOf(r) = m /\ NextFNOf(r) = (f.fn + 1) % U16
    BY <1>1, <1>4, AcceptedReports DEF Batch
  <2>2. last \in BOOLEAN
    BY DEF IsLast
  <2>. HIDE DEF r, last, sid
  <2>3. dec'.out = r.out /\ SessionOf(dec') = SessionOf(r) /\ NextFNOf(dec') = NextFNOf(r)
    BY <1>2, <2>1, RxTimeoutQuiet
  <2>4. CASE ~Called.gotLSF /\ r.out = <<>> /\ SessionOf(r) = NoLSF /\ NextFNOf(r) = 0
    BY <1>1, <2>3, <2>4
  <2>5. CASE \E m \in LSFs, resumed \in BOOLEAN :
                /\ (resumed /\ m = f.lich) \/ SessionOf(Called) = m
                /\ r.out = Batch(m, sid, f.fn, resumed, last)
                /\ IF last THEN SessionOf(r) = NoLSF /\ NextFNOf(r) = 0
                   ELSE SessionOf(r) = m /\ NextFNOf(r) = (f.fn + 1) % U16
    <3>1. PICK m \in LSFs, resumed \in BOOLEAN :
                /\ (resumed /\ m = f.lich) \/ SessionOf(Called) = m
                /\ r.out = Batch(m, sid, f.fn, resumed, last)
                /\ IF last THEN SessionOf(r) = NoLSF /\ NextFNOf(r) = 0
                   ELSE SessionOf(r) = m /\ NextFNOf(r) = (f.fn + 1) % U16
      BY <2>5
    <3>2. m = l
      BY <1>1, <3>1, DecoderAssumption
    <3>3. /\ \A i \in DOMAIN r.out : r.out[i].lsf = l
          /\ \E i \in DOMAIN r.out : r.out[i].cb = "Stream"
      BY <2>2, <3>1, <3>2, VoicedBatch
    <3>. QED  BY <2>3, <3>1, <3>2, <3>3 DEF Reported
  <2>. QED  BY <2>1, <2>4, <2>5
<1>. QED  BY <1>3, <1>4

\* A voice frame of the session in progress that is not behind the frames heard
\* ends the session exactly if it is the frame expected next and flagged as the
\* last.
LEMMA HeardInSession ==
  ASSUME Good(dec), NEW l \in LSFs, NEW f \in StreamFrame, f.lich \in {l, Garbage},
         SessionOf(dec) = l, dec.syncedType = "stream", NextFNOf(dec) <= f.fn % FNMod,
         ReceiveStreamFrame(f)
  PROVE  \/ Reported("EOT") /\ f.fn >= FNMod /\ Idle(dec')
         \/ ~Reported("EOT") /\ dec'.syncedType = "stream" /\ SessionOf(dec') = l
<1>. DEFINE r    == OnStream(Called, f)
            last == IsLast(Called, f)
            sid  == Called.streamID
<1>1. /\ Good(Called) /\ Called.out = <<>> /\ Called.syncedType = "stream"
      /\ SessionOf(Called) = l /\ Called.gotLSF
      /\ Expected(Called) = Expected(dec) /\ NextFNOf(dec) = Expected(dec)
  <2>1. dec.gotLSF
    BY DecoderAssumption DEF SessionOf
  <2>. QED  BY <2>1, CalledSession DEF SessionOf, NextFNOf, Called, Expected, Good, DecoderState
<1>2. ~(Expected(Called) > f.fn % FNMod)
  <2>1. Expected(dec) \in Nat /\ f.fn % FNMod \in Nat
    BY ExpectedWidth, Widths DEF Good, StreamFrame
  <2>. QED  BY <1>1, <2>1
<1>3. dec' = RxTimeout(r) /\ Good(r)
  BY <1>1, OnStreamGood DEF ReceiveStreamFrame
<1>4. /\ r.syncedType = "none" \/ r.timeoutCnt = 0
      /\ \E m \in LSFs, resumed \in BOOLEAN :
           /\ (resumed /\ m = f.lich) \/ SessionOf(Called) = m
           /\ r.out = Batch(m, sid, f.fn, resumed, last)
           /\ IF last THEN SessionOf(r) = NoLSF /\ NextFNOf(r) = 0
              ELSE SessionOf(r) = m /\ NextFNOf(r) = (f.fn + 1) % U16
  BY <1>1, <1>2, AcceptedReports DEF Batch
<1>5. r.syncedType = IF last THEN "none" ELSE "stream"
  BY <1>1, <1>2, AcceptedSync
<1>6. last \in BOOLEAN /\ (last => f.fn >= FNMod)
  BY DEF IsLast
<1>. HIDE DEF r, last, sid
<1>7. /\ dec'.out = r.out /\ SessionOf(dec') = SessionOf(r)
      /\ dec'.syncedType = r.syncedType
  BY <1>3, <1>4, RxTimeoutQuiet
<1>8. PICK resumed \in BOOLEAN :
        /\ r.out = Batch(l, sid, f.fn, resumed, last)
        /\ IF last THEN SessionOf(r) = NoLSF ELSE SessionOf(r) = l
  BY <1>1, <1>4, DecoderAssumption
<1>9. last <=> \E i \in DOMAIN r.out : r.out[i].cb = "EOT"
  BY <1>6, <1>8, VoicedBatch
<1>. QED  BY <1>5, <1>6, <1>7, <1>8, <1>9 DEF Reported, Idle

\* Whatever is heard or lost, the variables of the air keep their types.
LEMMA AirTypesKept ==
  ASSUME AirTypes, Hear \/ Lose
  PROVE  AirTypes'
<1>1. Good(dec)'
  <2>1. Good(Called) /\ Called.syncedType = dec.syncedType
    BY CalledSession DEF AirTypes
  <2>2. ASSUME NEW unit, Miss(unit)
        PROVE  Good(dec)'
    BY <2>1, <2>2 DEF Miss, Good, Known
  <2>3. ASSUME NEW typ, Ignore(typ)
        PROVE  Good(dec)'
    BY <2>1, <2>3, RxTimeoutGood DEF Ignore, Good, Known
  <2>4. ASSUME NEW l \in {Station, Garbage}, NEW sid \in StreamIDs, ReceiveLSF([lsf |-> l], sid)
        PROVE  Good(dec)'
    <3>1. [lsf |-> l] \in LSFFrame
      BY OnAir DEF LSFFrame, AirTypes
    <3>2. Good(RxTimeout(OnLSF(Called, [lsf |-> l], sid)))
      BY <2>1, <2>4, <3>1, OnLSFGood, RxTimeoutGood DEF ReceiveLSF
    <3>. QED  BY <2>4, <3>2 DEF ReceiveLSF, Good, Known
  <2>5. ASSUME NEW f \in StreamFrame, ReceiveStreamFrame(f)
        PROVE  Good(dec)'
    <3>1. Good(RxTimeout(OnStream(Called, f)))
      BY <2>1, OnStreamGood, RxTimeoutGood
    <3>. QED  BY <2>5, <3>1 DEF ReceiveStreamFrame, Good, Known
  <2>6. CASE ReceiveEOT
    <3>1. Good(RxTimeout(OnEOT(Called)))
      BY <2>1, OnEOTGood, RxTimeoutGood
    <3>. QED  BY <2>6, <3>1 DEF ReceiveEOT, Good, Known
  <2>7. ASSUME NEW f \in PacketFrame, ReceivePacketFrame(f)
        PROVE  Good(dec)'
    <3>1. Good(RxTimeout(OnPacket(Called, f)))
      BY <2>1, <2>7, OnPacketGood, RxTimeoutGood DEF ReceivePacketFrame
    <3>. QED  BY <2>7, <3>1 DEF ReceivePacketFrame, Good, Known
  <2>8. CASE KeyUp(HearLSF)
    BY <2>3, <2>4, <2>8 DEF KeyUp, HearLSF, OrGarbled
  <2>9. CASE Speak(HearVoice)
    BY <2>5, <2>9, VoiceFrameSent, AirAssumption DEF Speak, HearVoice, OrGarbled, AirTypes
  <2>10. CASE SendPacket(HearPacket)
    <3>1. GarbledPacketFrames \subseteq PacketFrame
      BY DEF GarbledPacketFrames, PacketFrame
    <3>2. PacketUnit(pos - 1) \in PacketFrame
      BY <2>10, PacketUnitSent DEF SendPacket, AirTypes
    <3>. QED  BY <2>3, <2>7, <2>10, <3>1, <3>2 DEF SendPacket, HearPacket
  <2>11. CASE KeyDown(HearEOT, TRUE)
    BY <2>3, <2>6, <2>11 DEF KeyDown, HearEOT
  <2>. QED  BY <2>2, <2>8, <2>9, <2>10, <2>11 DEF Hear, Lose, KeyUp, Speak, SendPacket, KeyDown
<1>2. (over \in 1 .. Len(Overs) /\ pos \in 0 .. OverLen + 1 /\ ends \in Nat)'
  <2>1. OverLen \in Nat /\ OverLen > 0 /\ (over % Len(Overs)) + 1 \in 1 .. Len(Overs)
    BY OnAir DEF AirTypes
  <2>2. CountEnds => ends' \in Nat
    BY DEF CountEnds, AirTypes
  <2>3. KeyUp(HearLSF) \/ KeyUp(Miss("LSF")) => over' = over /\ pos' = 1 /\ ends' = 0
    BY DEF KeyUp
  <2>4. \/ Speak(HearVoice) \/ Speak(Miss("Stream") /\ UNCHANGED flipped)
        \/ SendPacket(HearPacket) \/ SendPacket(Miss("Packet"))
        => over' = over /\ pos \in 1 .. OverLen /\ pos' = pos + 1 /\ CountEnds
    BY DEF Speak, SendPacket
  <2>5. KeyDown(HearEOT, TRUE) \/ KeyDown(Miss("EOT"), FALSE)
        => over' \in 1 .. Len(Overs) /\ pos' = 0 /\ CountEnds
    BY <2>1 DEF KeyDown
  <2>6. \/ over' = over /\ pos' \in 1 .. OverLen + 1 /\ ends' \in Nat
        \/ over' \in 1 .. Len(Overs) /\ pos' = 0 /\ ends' \in Nat
    <3>1. \/ over' = over /\ pos' = 1 /\ ends' = 0
          \/ over' = over /\ pos \in 1 .. OverLen /\ pos' = pos + 1 /\ CountEnds
          \/ over' \in 1 .. Len(Overs) /\ pos' = 0 /\ CountEnds
      BY <2>3, <2>4, <2>5, Zenon DEF Hear, Lose
    <3>. QED  BY <2>1, <2>2, <3>1
  <2>7. over' = over => OverLen' = OverLen
    BY DEF OverLen, IsVoice, Station
  <2>8. over' \in 1 .. Len(Overs) => OverLen' \in Nat
    <3> SUFFICES ASSUME over' \in 1 .. Len(Overs)
                 PROVE  OverLen' \in Nat
      OBVIOUS
    <3>1. Overs[over'] \in VoiceOvers \cup PacketOvers
      BY OverEntries, Zenon
    <3>2. CASE Overs[over'] \in VoiceOvers
      BY <3>2 DEF VoiceOvers, OverLen, IsVoice, Station
    <3>3. CASE Overs[over'] \in PacketOvers
      <4>1. Overs[over'].pkt \in Packets /\ Overs[over'].lsf \in PacketLSFs
        BY <3>3 DEF PacketOvers
      <4>2. PacketChunks[Overs[over'].pkt] \in Nat
        BY <4>1, DecoderAssumption
      <4>. QED  BY <4>1, <4>2 DEF OverLen, IsVoice, Station, StreamLSFs
    <3>. QED  BY <3>1, <3>2, <3>3
  <2>. QED  BY <2>1, <2>6, <2>7, <2>8 DEF AirTypes
<1>3. flipped' \in BOOLEAN
  BY AirAssumption
     DEF AirTypes, Hear, Lose, KeyUp, Speak, SendPacket, KeyDown, HearVoice
<1>4. entry' \in {"own", "late", "stale"}
  BY DEF AirTypes, Hear, Lose, KeyUp, Speak, SendPacket, KeyDown
<1>. QED  BY <1>1, <1>2, <1>3, <1>4 DEF AirTypes

\* A link setup opens the station's session if it is taken, and changes nothing
\* of an idle decoder otherwise.
LEMMA KeyUpKept ==
  ASSUME AirInv, KeyUp(HearLSF) \/ KeyUp(Miss("LSF"))
  PROVE  /\ Between' /\ OwnVoice' /\ OneEnd'
         /\ \A i \in DOMAIN dec'.out : dec'.out[i].cb \notin {"Stream", "LICH"}
<1>1. /\ pos = 0 /\ pos' = 1 /\ ends' = 0 /\ flipped' = FALSE /\ over' = over
      /\ Good(dec) /\ over \in 1 .. Len(Overs)
      /\ entry' = IF dec'.out = <<LSFCallback(Station)>> THEN "own" ELSE entry
      /\ entry # "own" /\ (entry # "stale" => Idle(dec))
  BY DEF KeyUp, AirInv, AirTypes, Between
<1>2. Station \in LSFs /\ Station # NoLSF /\ Station # Garbage /\ OverLen \in Nat /\ OverLen > 0
  BY <1>1, OnAir
<1>3. Station' = Station /\ OverLen' = OverLen /\ IsVoice' = IsVoice
  BY <1>1 DEF Station, OverLen, IsVoice
<1>4. Good(Called) /\ Called.out = <<>> /\ SessionOf(Called) = SessionOf(dec)
      /\ NextFNOf(Called) = NextFNOf(dec) /\ Called.syncedType = dec.syncedType
  BY <1>1, CalledSession
<1>5. NextFNOf(dec)' = NextFNOf(dec') /\ SessionOf(dec)' = SessionOf(dec')
  BY DEF NextFNOf, Expected, SessionOf
<1>6. SessionOf(dec) = NoLSF => NextFNOf(dec) = 0
  BY <1>1, DecoderAssumption DEF SessionOf, NextFNOf, Good, Known
<1>7. ASSUME dec'.out # <<LSFCallback(Station)>>,
             entry # "stale" => SessionOf(dec') = NoLSF /\ NextFNOf(dec') = 0
      PROVE  Between' /\ OwnVoice' /\ OneEnd'
  BY <1>1, <1>2, <1>3, <1>5, <1>7 DEF Between, OwnVoice, OneEnd, InStep, Followed
<1>8. ASSUME \A i \in DOMAIN dec'.out : dec'.out[i].cb = "EOT"
      PROVE  dec'.out # <<LSFCallback(Station)>>
  BY <1>8 DEF LSFCallback
<1>9. CASE KeyUp(Miss("LSF"))
  <2>1. dec' = Called
    BY <1>9 DEF KeyUp, Miss
  <2>2. entry # "stale" => SessionOf(dec') = NoLSF /\ NextFNOf(dec') = 0
    BY <1>1, <1>4, <1>6, <2>1 DEF Idle
  <2>. QED  BY <1>4, <1>7, <1>8, <2>1, <2>2
<1>10. ASSUME Ignore("LSF")
       PROVE  /\ Between' /\ OwnVoice' /\ OneEnd'
              /\ \A i \in DOMAIN dec'.out : dec'.out[i].cb \notin {"Stream", "LICH"}
  <2>1. dec' = RxTimeout(Called) /\ dec.syncedType # "none"
    BY <1>10 DEF Ignore
  <2>2. \A i \in DOMAIN dec'.out : dec'.out[i].cb = "EOT"
    BY <1>4, <2>1, TimeoutOut
  <2>. QED  BY <1>1, <1>7, <1>8, <2>1, <2>2 DEF Idle
<1>11. ASSUME NEW l \in {Station, Garbage}, NEW sid \in StreamIDs, ReceiveLSF([lsf |-> l], sid)
       PROVE  /\ Between' /\ OwnVoice' /\ OneEnd'
              /\ \A i \in DOMAIN dec'.out : dec'.out[i].cb \notin {"Stream", "LICH"}
  <2> DEFINE f == [lsf |-> l]
             r == OnLSF(Called, f, sid)
  <2>1. f \in LSFFrame /\ f.lsf = l /\ Called.syncedType = "none"
    BY <1>2, <1>4, <1>11 DEF LSFFrame, ReceiveLSF
  <2>2. dec' = RxTimeout(r) /\ Good(r)
    BY <1>4, <1>11, <2>1, OnLSFGood DEF ReceiveLSF
  <2>. HIDE DEF f
  <2>3. /\ r.syncedType = "none" \/ r.timeoutCnt = 0
        /\ \/ l = Garbage /\ r.out = <<>> /\ SessionOf(r) = NoLSF /\ NextFNOf(r) = 0
           \/ l \in LSFs /\ r.out = <<LSFCallback(l)>>
              /\ SessionOf(r) = l /\ NextFNOf(r) = 0
              /\ (l \in StreamLSFs => r.syncedType = "stream")
    BY <1>4, <2>1, OnLSFReports
  <2>. HIDE DEF r
  <2>4. /\ dec'.out = r.out /\ SessionOf(dec') = SessionOf(r)
        /\ NextFNOf(dec') = NextFNOf(r) /\ dec'.syncedType = r.syncedType
    BY <2>2, <2>3, RxTimeoutQuiet
  <2>5. CASE l = Garbage /\ r.out = <<>> /\ SessionOf(r) = NoLSF /\ NextFNOf(r) = 0
    BY <1>7, <1>8, <2>4, <2>5
  <2>6. CASE l \in LSFs /\ r.out = <<LSFCallback(l)>> /\ SessionOf(r) = l /\ NextFNOf(r) = 0
              /\ (l \in StreamLSFs => r.syncedType = "stream")
    <3>1. l = Station
      BY <2>6, DecoderAssumption
    <3>2. entry' = "own"
      BY <1>1, <2>4, <2>6, <3>1
    <3>3. IsVoice => dec'.syncedType = "stream"
      BY <2>4, <2>6, <3>1 DEF IsVoice
    <3>4. Between' /\ OwnVoice'
      BY <1>1, <1>2, <1>3, <1>5, <2>4, <2>6, <3>1 DEF Between, OwnVoice, InStep
    <3>5. OneEnd'
      BY <1>1, <1>3, <1>5, <2>4, <2>6, <3>1, <3>3 DEF OneEnd, Followed, Progress, Tuned
    <3>6. \A i \in DOMAIN dec'.out : dec'.out[i].cb = "LSF"
      BY <2>4, <2>6 DEF LSFCallback
    <3>. QED  BY <3>4, <3>5, <3>6
  <2>. QED  BY <2>3, <2>5, <2>6
<1>12. CASE KeyUp(HearLSF)
  BY <1>10, <1>11, <1>12 DEF KeyUp, HearLSF, OrGarbled
<1>. QED  BY <1>9, <1>12

\* What a voice frame makes of the over.
LEMMA SpeakKept ==
  ASSUME AirInv, Speak(HearVoice)
  PROVE  /\ Between' /\ OwnVoice' /\ OneEnd'
         /\ entry # "stale" =>
              /\ \A i \in DOMAIN dec'.out : dec'.out[i].cb \in {"Stream", "LICH"} => dec'.out[i].lsf = Station
              /\ dec.gotLSF => Reported("Stream") \/ flipped \/ pos > FNMod
<1>1. PICK flip \in BOOLEAN, lich \in {Station, Garbage} :
        ReceiveStreamFrame(VoiceFrame(pos - 1, lich, flip)) /\ flipped' = (flipped \/ flip)
  BY AirAssumption DEF Speak, HearVoice, OrGarbled
<1>2. /\ IsVoice /\ pos \in 1 .. OverLen /\ pos' = pos + 1 /\ CountEnds /\ over' = over /\ entry' = entry
      /\ over \in 1 .. Len(Overs) /\ Good(dec) /\ ends \in Nat /\ flipped \in BOOLEAN
  BY DEF Speak, AirInv, AirTypes
<1>3. Station \in LSFs /\ OverLen \in Nat /\ pos # 0 /\ pos \in Nat /\ pos' # 0 /\ Station # NoLSF
  BY <1>2, OnAir
<1>4. Station' = Station /\ OverLen' = OverLen /\ IsVoice' = IsVoice
  BY <1>2 DEF Station, OverLen, IsVoice
<1>. DEFINE f == VoiceFrame(pos - 1, lich, flip)
<1>5. /\ f \in StreamFrame /\ f.lich = lich
      /\ (f.fn >= FNMod <=> (pos = OverLen) # flip)
      /\ pos <= FNMod => /\ f.fn % FNMod = pos - 1
                         /\ f.fn < FNMod => (f.fn + 1) % U16 = pos
  BY <1>2, VoiceFrameSent
<1>6. ReceiveStreamFrame(f)
  BY <1>1
<1>. HIDE DEF f
<1>7. Between'
  BY <1>3 DEF Between
<1>8. CASE entry = "stale"
  BY <1>2, <1>7, <1>8 DEF OwnVoice, OneEnd, Followed
<1>9. CASE entry # "stale"
  <2>1. SessionOf(dec) \in {Station, NoLSF} /\ InStep
    BY <1>2, <1>3, <1>9 DEF AirInv, OwnVoice
  <2>2. /\ SessionOf(dec') \in {Station, NoLSF}
        /\ \A i \in DOMAIN dec'.out : dec'.out[i].cb \in {"Stream", "LICH"} => dec'.out[i].lsf = Station
        /\ dec.gotLSF /\ NextFNOf(dec) <= f.fn % FNMod => Reported("Stream")
        /\ NextFNOf(dec') \in {NextFNOf(dec), 0, (f.fn + 1) % U16}
    BY <1>1, <1>2, <1>3, <1>5, <1>6, <2>1, HeardVoice
  <2>3. NextFNOf(dec) \in Nat
    BY <1>2, ExpectedWidth, Widths DEF Good, NextFNOf
  <2>4. ~flipped /\ pos <= FNMod => NextFNOf(dec) < pos /\ NextFNOf(dec) <= f.fn % FNMod
    BY <1>2, <1>3, <1>5, <2>1, <2>3 DEF InStep
  <2>5. dec.gotLSF => Reported("Stream") \/ flipped \/ pos > FNMod
    BY <1>3, <2>2, <2>4, Widths
  <2>6. SessionOf(dec)' = SessionOf(dec') /\ NextFNOf(dec)' = NextFNOf(dec')
    BY DEF NextFNOf, Expected, SessionOf
  <2>7. InStep'
    <3> SUFFICES ASSUME ~flipped', pos' \in 1 .. OverLen, pos' <= FNMod
                 PROVE  NextFNOf(dec') < pos'
      BY <1>4, <2>6 DEF InStep
    <3>1. ~flipped /\ ~flip /\ pos <= FNMod /\ pos # OverLen
      BY <1>1, <1>2, <1>3, Widths
    <3>2. f.fn < FNMod
      BY <1>5, <3>1, Widths DEF StreamFrame
    <3>3. NextFNOf(dec') \in {NextFNOf(dec), 0, pos}
      BY <1>5, <2>2, <3>1, <3>2
    <3>. QED  BY <1>2, <1>3, <2>3, <2>4, <3>1, <3>3
  <2>8. OwnVoice'
    BY <1>4, <2>2, <2>6, <2>7 DEF OwnVoice
  <2>9. OneEnd'
    <3> SUFFICES ASSUME Followed' PROVE Progress'
      BY DEF OneEnd
    <3>1. Followed /\ ~flip /\ ~flipped /\ OverLen <= FNMod
      BY <1>1, <1>2, <1>4 DEF Followed
    <3>2. Tuned(dec) /\ ends = 0
      BY <1>2, <1>3, <3>1 DEF AirInv, OneEnd, Progress
    <3>3. pos <= FNMod
      BY <1>2, <1>3, <3>1, Widths
    <3>4. \/ Reported("EOT") /\ f.fn >= FNMod /\ Idle(dec')
          \/ ~Reported("EOT") /\ dec'.syncedType = "stream" /\ SessionOf(dec') = Station
      BY <1>1, <1>2, <1>3, <1>5, <1>6, <2>4, <3>1, <3>2, <3>3, HeardInSession DEF Tuned
    <3>5. CASE Reported("EOT") /\ f.fn >= FNMod /\ Idle(dec')
      <4>1. pos' = OverLen + 1 /\ ends' = 1
        BY <1>2, <1>5, <3>1, <3>2, <3>5 DEF CountEnds
      <4>. QED  BY <1>4, <3>5, <4>1 DEF Progress, Idle, SessionOf
    <3>6. CASE ~Reported("EOT") /\ dec'.syncedType = "stream" /\ SessionOf(dec') = Station
      BY <1>2, <1>4, <3>2, <3>6 DEF CountEnds, Progress, Tuned, SessionOf
    <3>. QED  BY <3>4, <3>5, <3>6
  <2>. QED  BY <1>7, <2>2, <2>5, <2>8, <2>9
<1>. QED  BY <1>8, <1>9

\* A voice frame that is lost changes nothing of the session.
LEMMA MissKept ==
  ASSUME AirInv, Speak(Miss("Stream") /\ UNCHANGED flipped)
  PROVE  Between' /\ OwnVoice' /\ OneEnd' /\ dec'.out = <<>>
<1>1. /\ pos \in 1 .. OverLen /\ pos' = pos + 1 /\ CountEnds /\ over' = over /\ entry' = entry
      /\ over \in 1 .. Len(Overs) /\ Good(dec) /\ ends \in Nat /\ dec' = Called
      /\ flipped' = flipped /\ IsVoice
  BY DEF Speak, Miss, AirInv, AirTypes
<1>2. OverLen \in Nat /\ pos \in Nat /\ pos # 0 /\ pos' # 0
  BY <1>1, OnAir
<1>3. /\ dec'.out = <<>> /\ SessionOf(dec') = SessionOf(dec)
      /\ NextFNOf(dec') = NextFNOf(dec) /\ dec'.syncedType = dec.syncedType
  BY <1>1, CalledSession
<1>4. ~Reported("EOT")
  BY <1>3 DEF Reported
<1>5. Station' = Station /\ OverLen' = OverLen /\ IsVoice' = IsVoice
  BY <1>1 DEF Station, OverLen, IsVoice
<1>6. SessionOf(dec)' = SessionOf(dec') /\ NextFNOf(dec)' = NextFNOf(dec') /\ NextFNOf(dec) \in Nat
  BY <1>1, ExpectedWidth, Widths DEF NextFNOf, Expected, SessionOf, Good
<1>7. OwnVoice'
  BY <1>1, <1>2, <1>3, <1>5, <1>6, Widths DEF AirInv, OwnVoice, InStep
<1>8. OneEnd'
  <2> SUFFICES ASSUME Followed' PROVE Progress'
    BY DEF OneEnd
  <2>1. Followed
    BY <1>1, <1>5 DEF Followed
  <2>2. Tuned(dec) /\ ends = 0
    BY <1>1, <1>2, <2>1 DEF AirInv, OneEnd, Progress
  <2>. QED  BY <1>1, <1>3, <1>4, <1>5, <1>6, <2>2 DEF CountEnds, Progress, Tuned
<1>. QED  BY <1>2, <1>3, <1>7, <1>8 DEF Between

\* The marker ends the session of an over that was followed if the flagged frame
\* has not, and leaves nothing of it behind.
LEMMA KeyDownFollowed ==
  ASSUME AirInv, KeyDown(HearEOT, TRUE), Followed
  PROVE  ends' = 1 /\ Idle(dec') /\ Good(dec')
<1>1. /\ pos = OverLen + 1 /\ pos' = 0 /\ CountEnds
      /\ over \in 1 .. Len(Overs) /\ Good(dec) /\ ends \in Nat
      /\ ReceiveEOT \/ Ignore("EOT")
  BY DEF KeyDown, HearEOT, AirInv, AirTypes
<1>2. OverLen \in Nat /\ Station \in LSFs
  BY <1>1, OnAir
<1>3. (Tuned(dec) /\ ends = 0) \/ (Idle(dec) /\ ends = 1)
  BY <1>1, <1>2 DEF AirInv, OneEnd, Progress
<1>4. /\ Good(Called) /\ Called.out = <<>> /\ SessionOf(Called) = SessionOf(dec)
      /\ Called.syncedType = dec.syncedType
  BY <1>1, CalledSession
<1>5. CASE Tuned(dec) /\ ends = 0
  <2> DEFINE r == OnEOT(Called)
             e == EOTCallback(SessionOf(Called), Called.streamID, FNMod + (Expected(Called) % FNMod))
  <2>1. dec' = RxTimeout(r) /\ Good(r)
    BY <1>1, <1>4, <1>5, OnEOTGood DEF Tuned, Ignore, ReceiveEOT
  <2>2. r.syncedType = "none" /\ SessionOf(r) = NoLSF /\ r.out = <<e>>
    BY <1>4, <1>5, OnEOTReports DEF Tuned
  <2>3. e.cb = "EOT"
    BY DEF EOTCallback
  <2>. HIDE DEF r, e
  <2>4. Idle(dec') /\ Good(dec') /\ dec'.out = <<e>>
    BY <2>1, <2>2, RxTimeoutQuiet, RxTimeoutGood DEF Idle
  <2>5. Reported("EOT")
    BY <2>3, <2>4 DEF Reported
  <2>. QED  BY <1>1, <1>5, <2>4, <2>5 DEF CountEnds
<1>6. CASE Idle(dec) /\ ends = 1
  <2>1. dec' = RxTimeout(Called)
    BY <1>1, <1>6 DEF Idle, ReceiveEOT, Ignore
  <2>2. Idle(dec') /\ Good(dec') /\ dec'.out = <<>>
    BY <1>4, <1>6, <2>1, RxTimeoutQuiet, RxTimeoutGood DEF Idle
  <2>3. ~Reported("EOT")
    BY <2>2 DEF Reported
  <2>. QED  BY <1>1, <1>6, <2>2, <2>3 DEF CountEnds
<1>. QED  BY <1>3, <1>5, <1>6

\* Neither a marker nor a packet frame makes the decoder report voice.
LEMMA NoVoiceElsewhere ==
  ASSUME AirInv, KeyDown(HearEOT, TRUE) \/ SendPacket(HearPacket)
  PROVE  \A i \in DOMAIN dec'.out : dec'.out[i].cb \notin {"Stream", "LICH"}
<1>1. /\ Good(Called) /\ Called.out = <<>> /\ Called.syncedType = dec.syncedType
      /\ over \in 1 .. Len(Overs)
  BY CalledSession DEF AirInv, AirTypes
<1>2. ASSUME NEW typ, Ignore(typ)
      PROVE  \A i \in DOMAIN dec'.out : dec'.out[i].cb = "EOT"
  BY <1>1, <1>2, TimeoutOut DEF Ignore
<1>3. ASSUME ReceiveEOT
      PROVE  \A i \in DOMAIN dec'.out : dec'.out[i].cb = "EOT"
  <2> DEFINE r == OnEOT(Called)
             e == EOTCallback(SessionOf(Called), Called.streamID, FNMod + (Expected(Called) % FNMod))
  <2>1. dec' = RxTimeout(r) /\ Good(r)
    BY <1>1, <1>3, OnEOTGood DEF ReceiveEOT
  <2>2. r.syncedType = "none" /\ r.out = <<e>>
    BY <1>1, <1>3, OnEOTReports DEF ReceiveEOT
  <2>3. e.cb = "EOT"
    BY DEF EOTCallback
  <2>. HIDE DEF r, e
  <2>4. dec'.out = <<e>>
    BY <2>1, <2>2, RxTimeoutQuiet
  <2>. QED  BY <2>3, <2>4
<1>4. ASSUME NEW f \in PacketFrame, ReceivePacketFrame(f)
      PROVE  \A i \in DOMAIN dec'.out : dec'.out[i].cb = "Packet"
  <2> DEFINE r == OnPacket(Called, f)
  <2>1. dec' = RxTimeout(r) /\ Good(r) /\ Called.syncedType = "packet"
    BY <1>1, <1>4, OnPacketGood DEF ReceivePacketFrame
  <2>2. /\ r.syncedType # "stream"
        /\ r.out = <<>> \/ \E p \in Packets : r.out = <<PacketCallback(SessionOf(Called), p)>>
    BY <1>1, <2>1, OnPacketReports
  <2>. HIDE DEF r
  <2>3. dec'.out = r.out
    BY <2>1, <2>2, PacketTimeoutSilent
  <2>4. ASSUME NEW p, dec'.out = <<PacketCallback(SessionOf(Called), p)>>
        PROVE  \A i \in DOMAIN dec'.out : dec'.out[i].cb = "Packet"
    BY <2>4 DEF PacketCallback
  <2>5. CASE dec'.out = <<>>
    BY <2>5
  <2>. QED  BY <2>2, <2>3, <2>4, <2>5
<1>5. CASE KeyDown(HearEOT, TRUE)
  BY <1>2, <1>3, <1>5 DEF KeyDown, HearEOT
<1>6. CASE SendPacket(HearPacket)
  <2>1. GarbledPacketFrames \subseteq PacketFrame
    BY DEF GarbledPacketFrames, PacketFrame
  <2>2. PacketUnit(pos - 1) \in PacketFrame
    BY <1>1, <1>6, PacketUnitSent DEF SendPacket
  <2>3. (\E f \in PacketFrame : ReceivePacketFrame(f)) \/ Ignore("Packet")
    BY <1>6, <2>1, <2>2 DEF SendPacket, HearPacket
  <2>. QED  BY <1>2, <1>4, <2>3
<1>. QED  BY <1>5, <1>6

\* The decoder follows the station on the air, for all overs, whatever is lost,
\* garbled or inverted.
LEMMA AirInvariant == AirSpec => []AirInv
<1>1. AirInit => AirInv
  <2> SUFFICES ASSUME AirInit PROVE AirInv
    OBVIOUS
  <2>1. Good(dec) /\ Idle(dec)
    BY IdleValues, BlankType DEF AirInit, Init, Good, Known, DecoderState, Idle, SessionOf
  <2>2. over \in 1 .. Len(Overs)
    <3>1. Overs # <<>> /\ Overs \in Seq(VoiceOvers \cup PacketOvers)
      BY AirAssumption
    <3>2. Len(Overs) \in Nat /\ Len(Overs) # 0
      BY <3>1
    <3>. QED  BY <3>2 DEF AirInit
  <2>3. OverLen \in Nat
    BY <2>2, OnAir
  <2>4. AirTypes
    <3>1. pos \in 0 .. OverLen + 1 /\ ends \in Nat
      BY <2>3 DEF AirInit
    <3>2. flipped \in BOOLEAN /\ entry \in {"own", "late", "stale"}
      BY Zenon DEF AirInit
    <3>. QED  BY <2>1, <2>2, <3>1, <3>2, Zenon DEF AirTypes
  <2>5. Between /\ OwnVoice /\ OneEnd
    BY <2>1 DEF AirInit, Between, OwnVoice, OneEnd, Followed
  <2>. QED  BY <2>4, <2>5 DEF AirInv
<1>2. AirInv /\ [AirNext]_vars => AirInv'
  <2> SUFFICES ASSUME AirInv, [AirNext]_vars PROVE AirInv'
    OBVIOUS
  <2>1. CASE UNCHANGED vars
    BY <2>1 DEF vars, AirInv, AirTypes, Between, OwnVoice, OneEnd, InStep, Progress, Followed,
       Tuned, Idle, Good, Known, Station, IsVoice, OverLen, SessionOf, NextFNOf, Expected
  <2>2. CASE Hear \/ Lose
    <3>1. AirTypes'
      BY <2>2, AirTypesKept DEF AirInv
    <3>2. CASE KeyUp(HearLSF) \/ KeyUp(Miss("LSF"))
      BY <3>1, <3>2, KeyUpKept DEF AirInv
    <3>3. CASE Speak(HearVoice)
      BY <3>1, <3>3, SpeakKept DEF AirInv
    <3>4. CASE Speak(Miss("Stream") /\ UNCHANGED flipped)
      BY <3>1, <3>4, MissKept DEF AirInv
    <3>5. CASE SendPacket(HearPacket) \/ SendPacket(Miss("Packet"))
      <4>1. ~IsVoice /\ pos \in 1 .. OverLen /\ pos' = pos + 1 /\ over' = over
        BY <3>5 DEF SendPacket
      <4>2. ~IsVoice' /\ pos' # 0
        <5>1. OverLen \in Nat
          BY OnAir DEF AirInv, AirTypes
        <5>. QED  BY <4>1, <5>1 DEF IsVoice, Station
      <4>. QED  BY <3>1, <4>2 DEF AirInv, Between, OwnVoice, OneEnd, Followed
    <3>6. CASE KeyDown(HearEOT, TRUE) \/ KeyDown(Miss("EOT"), FALSE)
      <4>1. /\ pos' = 0 /\ entry' \in {"late", "stale"}
            /\ entry' = "late" => KeyDown(HearEOT, TRUE) /\ Followed
        BY <3>6 DEF KeyDown
      <4>2. entry' # "stale" => Idle(dec')
        BY <4>1, KeyDownFollowed
      <4>. QED  BY <3>1, <4>1, <4>2 DEF AirInv, Between, OwnVoice, OneEnd, Idle, SessionOf
    <3>. QED  BY <2>2, <3>2, <3>3, <3>4, <3>5, <3>6 DEF Hear, Lose
  <2>. QED  BY <2>1, <2>2 DEF AirNext, Dead
<1>. QED  BY <1>1, <1>2, PTL DEF AirSpec

\* Whatever is lost, what the decoder forwards bears the link setup of the
\* station on the air, unless the end of an earlier over was missed: for any
\* number of stations and overs of any length.
THEOREM VoiceOfRightStation == AirSpec => RightStation
<1>1. AirInv /\ [AirNext]_vars =>
        [entry # "stale" => \A i \in DOMAIN dec'.out :
           dec'.out[i].cb \in {"Stream", "LICH"} => dec'.out[i].lsf = Station]_vars
  <2> SUFFICES ASSUME AirInv, Hear \/ Lose, entry # "stale",
                      NEW i \in DOMAIN dec'.out, dec'.out[i].cb \in {"Stream", "LICH"}
               PROVE  dec'.out[i].lsf = Station
    BY DEF AirNext, Dead
  <2>1. CASE KeyUp(HearLSF) \/ KeyUp(Miss("LSF"))
    BY <2>1, KeyUpKept
  <2>2. CASE Speak(Miss("Stream") /\ UNCHANGED flipped) \/ SendPacket(Miss("Packet"))
             \/ KeyDown(Miss("EOT"), FALSE)
    <3>1. dec'.out = <<>>
      BY <2>2, CalledSession DEF SendPacket, Speak, KeyDown, Miss, AirInv, AirTypes
    <3>. QED  BY <3>1
  <2>3. CASE Speak(HearVoice)
    BY <2>3, SpeakKept
  <2>4. CASE KeyDown(HearEOT, TRUE) \/ SendPacket(HearPacket)
    BY <2>4, NoVoiceElsewhere
  <2>. QED  BY <2>1, <2>2, <2>3, <2>4 DEF Hear, Lose
<1>. QED  BY <1>1, AirInvariant, PTL DEF AirSpec, RightStation

\* A voice frame that is heard in a session is forwarded, whatever was lost
\* before it, unless a flag of its over was inverted or its number has wrapped.
THEOREM VoiceForwarded == AirSpec => HeardIsForwarded
<1>1. AirInv /\ [AirNext]_vars =>
        [Speak(HearVoice) /\ entry # "stale" /\ dec.gotLSF =>
           Reported("Stream") \/ flipped \/ pos > FNMod]_vars
  BY SpeakKept
<1>. QED  BY <1>1, AirInvariant, PTL DEF AirSpec, HeardIsForwarded

\* An over that was followed is ended exactly once, whether or not its flagged
\* frame was heard and honoured.
THEOREM OverEndsOnce == AirSpec => EndsOnce
<1>1. AirInv /\ [AirNext]_vars => [KeyDown(HearEOT, TRUE) /\ Followed => ends' = 1]_vars
  BY KeyDownFollowed
<1>. QED  BY <1>1, AirInvariant, PTL DEF AirSpec, EndsOnce

\* The marker leaves no session behind if the over was followed: it "terminates
\* the stream".
THEOREM MarkerEnds == AirSpec => MarkerTerminates
<1>1. AirInv /\ [AirNext]_vars => [KeyDown(HearEOT, TRUE) /\ Followed => ~dec'.gotLSF]_vars
  <2> SUFFICES ASSUME AirInv, KeyDown(HearEOT, TRUE), Followed
               PROVE  ~dec'.gotLSF
    OBVIOUS
  <2>1. Idle(dec') /\ Good(dec')
    BY KeyDownFollowed
  <2>. QED  BY <2>1, DecoderAssumption DEF Idle, SessionOf, Good, Known
<1>. QED  BY <1>1, AirInvariant, PTL DEF AirSpec, MarkerTerminates
=============================================================================
