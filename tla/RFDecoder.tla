----------------------------- MODULE RFDecoder -----------------------------
(***************************************************************************)
(* The M17 frame decoder, src/decoder.go.  The modem detects a sync word   *)
(* and calls DecodeFrame with its type and the soft bits of the payload;   *)
(* the decoder keeps the state of one reception and calls back into the    *)
(* gateway.  One step is one call of DecodeFrame, RX timeout included.     *)
(*                                                                         *)
(* A frame is what its soft bits decode to: error correction and CRCs are  *)
(* abstracted to the outcomes the decoder tells apart.  In the code FNMod  *)
(* is 2^15, LichChunks 6, MaxMissed 960*2, ChunkLen 25, BufChunks 33 and    *)
(* ByteMod 2^8.                                                            *)
(***************************************************************************)
EXTENDS Naturals, Sequences, RFCallbacks

CONSTANTS
  LSFs,         \* link setup frames with a right CRC
  PacketLSFs,   \* those of LSFs whose TYPE field says packet mode
  NoLSF,        \* the nil *LSF
  Garbage,      \* content that error correction could not repair
  Zeros,        \* a chunk of packetData that was never written
  StreamIDs,    \* the uint16 stream identifiers rand.Intn can return
  FNMod,        \* values of the 15-bit frame number; bit 15 flags the last frame
  LichChunks,   \* LICH chunks in a link setup frame
  MaxMissed,    \* RX sync timeout, in calls that bring nothing new
  Packets,      \* packets on the air
  PacketChunks, \* the number of chunks of each packet
  LastLen,      \* the number of bytes in each packet's last chunk
  ChunkLen,     \* bytes in a full chunk
  BufChunks,    \* the room of packetData, in chunks
  ByteMod,      \* values of a Go byte
  GarbageNums   \* control-field values of packet frames that are garbage

ASSUME DecoderAssumption ==
  /\ PacketLSFs \subseteq LSFs
  /\ NoLSF \notin LSFs
  /\ Garbage \notin LSFs \cup Packets \cup {NoLSF}
  /\ \A p \in Packets, i \in 0 .. ByteMod : [pkt |-> p, no |-> i] \notin {Zeros, Garbage}
  /\ Zeros # Garbage
  /\ StreamIDs # {}
  /\ FNMod \in Nat \ {0}
  /\ LichChunks \in Nat \ {0}
  /\ MaxMissed \in Nat \ {0}
  /\ ByteMod \in Nat
  /\ ChunkLen \in 1 .. ByteMod - 1
  /\ BufChunks \in Nat
  /\ ByteMod <= BufChunks * ChunkLen   \* no byte points past the buffer
  /\ PacketChunks \in [Packets -> 1 .. ByteMod - 1]
  /\ LastLen \in [Packets -> 1 .. ChunkLen]
  /\ GarbageNums \subseteq 0 .. ByteMod - 2   \* a 5-bit field in the code

VARIABLE
  dec    \* the Decoder struct, and in `out` the callbacks of the last call

----------------------------------------------------------------------------
(* Widths, frames and the decoder's state *)

U16        == 2 * FNMod         \* values of a uint16
NoFN       == U16 - 1           \* lastStreamFN when idle, 0xffff
NoPacketFN == ByteMod - 1       \* lastPacketFN when idle, 0xff
Chunks     == 0 .. LichChunks - 1
StreamLSFs == LSFs \ PacketLSFs
Slots      == 0 .. BufChunks - 1

LSFFrame == [lsf : LSFs \cup {Garbage}]

\* cnt = LichChunks stands for the values of the 3-bit field that name no chunk.
StreamFrame == [fn : 0 .. NoFN, cnt : 0 .. LichChunks, lich : StreamLSFs \cup {Garbage}]

\* The bytes of chunk i of packet p.
Chunk(p, i) == [pkt |-> p, no |-> i]

ChunksOf(p) == {Chunk(p, i) : i \in 0 .. PacketChunks[p] - 1}

\* What a slot of packetData can hold.
Contents == (UNION {ChunksOf(p) : p \in Packets}) \cup {Garbage, Zeros}

\* The packet frames a transmitter of packet p sends.
FramesOf(p) ==
  {[pkt |-> p, last |-> FALSE, n |-> k - 1] : k \in 1 .. PacketChunks[p] - 1}
    \cup {[pkt |-> p, last |-> TRUE, n |-> LastLen[p]]}

PacketFrame ==
  (UNION {FramesOf(p) : p \in Packets}) \cup [pkt : {Garbage}, last : BOOLEAN, n : GarbageNums]

\* The bytes a packet frame carries.
Data(f) ==
  IF f.pkt = Garbage THEN Garbage
  ELSE Chunk(f.pkt, IF f.last THEN PacketChunks[f.pkt] - 1 ELSE f.n)

Callback ==
  {LSFCallback(l) : l \in LSFs} \cup {LICHCallback(l) : l \in LSFs}
    \cup {StreamCallback(l, sid, fn) : l \in LSFs, sid \in StreamIDs \cup {0}, fn \in 0 .. NoFN}
    \cup {EOTCallback(l, sid, fn) : l \in LSFs, sid \in StreamIDs \cup {0}, fn \in 0 .. NoFN}
    \cup {PacketCallback(l, p) : l \in LSFs, p \in Packets}

DecoderState ==
  [syncedType   : {"none", "stream", "packet"},
   lsf          : LSFs \cup {NoLSF, Garbage},
   gotLSF       : BOOLEAN,
   timeoutCnt   : 0 .. MaxMissed,
   lastPacketFN : 0 .. NoPacketFN,
   packetData   : [Slots -> Contents],
   lastStreamFN : 0 .. NoFN,
   lichParts    : SUBSET Chunks,
   lsfBytes     : [Chunks -> LSFs \cup {NoLSF, Garbage}],
   streamID     : StreamIDs \cup {0},
   streamFN     : 0 .. NoFN,
   crashed      : BOOLEAN,                 \* a slice expression panicked
   out          : Seq(Callback)]

\* make([]byte, 33*25)
Blank == [i \in Slots |-> Zeros]

Init ==
  dec = [syncedType |-> "none", lsf |-> NoLSF, gotLSF |-> FALSE, timeoutCnt |-> 0,
         lastPacketFN |-> NoPacketFN, packetData |-> Blank, lastStreamFN |-> NoFN,
         lichParts |-> {}, lsfBytes |-> [c \in Chunks |-> NoLSF],
         streamID |-> 0, streamFN |-> 0, crashed |-> FALSE, out |-> <<>>]

\* Mutants of Reset: the sync survives, the LSF survives.
ResetKeepsSync(s) ==
  [s EXCEPT !.lsf = NoLSF, !.gotLSF = FALSE, !.timeoutCnt = 0, !.lastPacketFN = NoPacketFN,
            !.lastStreamFN = NoFN, !.lichParts = {}]
ResetKeepsLSF(s) ==
  [s EXCEPT !.syncedType = "none", !.timeoutCnt = 0, !.lastPacketFN = NoPacketFN,
            !.lastStreamFN = NoFN, !.lichParts = {}]

\* func (d *Decoder) reset()
Reset(s) ==
  [s EXCEPT !.syncedType = "none", !.lsf = NoLSF, !.gotLSF = FALSE, !.timeoutCnt = 0,
            !.lastPacketFN = NoPacketFN, !.lastStreamFN = NoFN, !.lichParts = {}]

Call(s, callback) == [s EXCEPT !.out = Append(@, callback)]

\* Mutant of RxTimeout: the reset is nested in the test for an EOT to report.
RxTimeoutOnlyWithEOT(s) ==
  IF s.crashed \/ s.syncedType = "none" THEN s
  ELSE IF s.timeoutCnt < MaxMissed THEN [s EXCEPT !.timeoutCnt = @ + 1]
  ELSE IF s.syncedType = "stream" /\ s.gotLSF /\ s.lastStreamFN < FNMod
    THEN Reset(Call(s, EOTCallback(s.lsf, s.streamID, s.streamFN)))
  ELSE s

\* The RX sync timeout that ends every call of DecodeFrame.
RxTimeout(s) ==
  IF s.crashed \/ s.syncedType = "none" THEN s
  ELSE IF s.timeoutCnt < MaxMissed THEN [s EXCEPT !.timeoutCnt = @ + 1]
  ELSE IF s.syncedType = "stream" /\ s.gotLSF /\ s.lastStreamFN < FNMod
    THEN Reset(Call(s, EOTCallback(s.lsf, s.streamID, s.streamFN)))
  ELSE Reset(s)

----------------------------------------------------------------------------
(* case typ == LSFSync && d.syncedType == 0 *)

OnLSF(s, f, sid) ==
  IF f.lsf = Garbage
    THEN [s EXCEPT !.lsf = Garbage, !.gotLSF = FALSE]
    ELSE LET got == [s EXCEPT !.lsf = f.lsf, !.gotLSF = TRUE, !.timeoutCnt = 0,
                              !.lastStreamFN = NoFN, !.lastPacketFN = NoPacketFN]
             synced == IF f.lsf \in PacketLSFs
                         THEN [got EXCEPT !.syncedType = "packet", !.packetData = Blank]
                         ELSE [got EXCEPT !.syncedType = "stream", !.lichParts = {},
                                          !.streamFN = 0, !.streamID = sid]
         IN Call(synced, LSFCallback(f.lsf))

(* case typ == PacketSync && d.syncedType == PacketSync *)

\* A slice expression packetData[lo:hi] over byte arithmetic panics if lo > hi.
SlicePanics(lo, hi) == lo % ByteMod > hi % ByteMod

NextChunk(s) == (s.lastPacketFN + 1) % ByteMod

\* Mutant of StoreChunk: lastPacketFN is not counted up.
StoreChunkUncounted(s, f) ==
  IF SlicePanics(f.n * ChunkLen, (f.n + 1) * ChunkLen)
    THEN [s EXCEPT !.crashed = TRUE]
    ELSE [s EXCEPT !.packetData[f.n] = Data(f)]

StoreChunk(s, f) ==
  IF SlicePanics(f.n * ChunkLen, (f.n + 1) * ChunkLen)
    THEN [s EXCEPT !.crashed = TRUE]
    ELSE [s EXCEPT !.packetData[f.n] = Data(f), !.lastPacketFN = NextChunk(s)]

\* CRC(d.packetData) == 0: the chunks of one packet, each in its place, up to
\* the last byte of the last one, and no more.
Intact(data, last, bytes, p) ==
  /\ last = PacketChunks[p] - 1
  /\ \A i \in 0 .. last : data[i] = Chunk(p, i)
  /\ bytes = LastLen[p]

FinishPacket(s, f) ==
  LET slot  == NextChunk(s)
      bytes == IF f.n > ChunkLen THEN ChunkLen ELSE f.n
      whole == [s EXCEPT !.packetData[slot] = Data(f)]
  IN IF SlicePanics(slot * ChunkLen, ((slot * ChunkLen) % ByteMod) + bytes)
       THEN [s EXCEPT !.crashed = TRUE]
     ELSE IF f.pkt \in Packets /\ Intact(whole.packetData, slot, bytes, f.pkt)
       THEN Reset(Call(whole, PacketCallback(s.lsf, f.pkt)))
     ELSE Reset(whole)

\* Mutant of OnPacket: a chunk is stored whatever its number.
OnPacketUnnumbered(s, f) == IF f.last THEN FinishPacket(s, f) ELSE StoreChunk(s, f)

OnPacket(s, f) ==
  IF f.last THEN FinishPacket(s, f)
  ELSE IF f.n = NextChunk(s) THEN StoreChunk(s, f)
  ELSE s

(* case typ == StreamSync, whatever the decoder is synced to *)

Expected(s) == (s.lastStreamFN + 1) % U16

\* A LICH chunk; the last one missing rebuilds the LSF and starts over.
OnLICH(s, f) ==
  IF f.cnt \notin Chunks THEN s
  ELSE LET bytes == [s.lsfBytes EXCEPT ![f.cnt] = f.lich]
           parts == s.lichParts \cup {f.cnt}
           kept  == [s EXCEPT !.lsfBytes = bytes,
                              !.lichParts = IF parts = Chunks THEN {} ELSE parts]
       IN IF parts = Chunks /\ f.lich # Garbage /\ \A c \in Chunks : bytes[c] = f.lich
            THEN Call([kept EXCEPT !.lsf = f.lich, !.gotLSF = TRUE, !.timeoutCnt = 0],
                      LICHCallback(f.lich))
            ELSE kept

IsLast(s, f) == f.fn >= FNMod /\ f.fn % FNMod = Expected(s) % FNMod

\* The voice is forwarded once an LSF is known.
Forward(s, f, ends) ==
  IF ~s.gotLSF THEN s
  ELSE LET sent == Call([s EXCEPT !.streamFN = f.fn, !.timeoutCnt = 0],
                        StreamCallback(s.lsf, s.streamID, f.fn))
       IN IF ends THEN Call(sent, EOTCallback(s.lsf, s.streamID, f.fn)) ELSE sent

\* Mutants of OnStream: a frame after a gap is refused; the last frame does not
\* reset the decoder.
OnStreamInSequence(s, f) ==
  IF Expected(s) % FNMod # f.fn % FNMod THEN s
  ELSE LET done == Forward(OnLICH(s, f), f, IsLast(s, f))
       IN IF IsLast(s, f) THEN Reset(done) ELSE [done EXCEPT !.lastStreamFN = f.fn]
OnStreamNoReset(s, f) ==
  IF Expected(s) > f.fn % FNMod THEN s
  ELSE [Forward(OnLICH(s, f), f, IsLast(s, f)) EXCEPT !.lastStreamFN = f.fn]

OnStream(s, f) ==
  IF Expected(s) > f.fn % FNMod THEN s
  ELSE LET done == Forward(OnLICH(s, f), f, IsLast(s, f))
       IN IF IsLast(s, f) THEN Reset(done) ELSE [done EXCEPT !.lastStreamFN = f.fn]

(* case typ == EOTMarker && d.syncedType == StreamSync *)

\* streamFN = uint16(d.lastStreamFN+1) | 0x8000
EndFN(s) == FNMod + (Expected(s) % FNMod)

OnEOT(s) ==
  IF s.gotLSF
    THEN Reset(Call([s EXCEPT !.streamFN = EndFN(s)], EOTCallback(s.lsf, s.streamID, EndFN(s))))
    ELSE Reset(s)

----------------------------------------------------------------------------
(* DecodeFrame: one action per case of its switch *)

\* The decoder as a call finds it: alive, and nothing called back yet.
Called == [dec EXCEPT !.out = <<>>]

ReceiveLSF(f, sid) ==
  /\ ~dec.crashed
  /\ dec.syncedType = "none"
  /\ dec' = RxTimeout(OnLSF(Called, f, sid))

ReceivePacketFrame(f) ==
  /\ ~dec.crashed
  /\ dec.syncedType = "packet"
  /\ dec' = RxTimeout(OnPacket(Called, f))

ReceiveStreamFrame(f) ==
  /\ ~dec.crashed
  /\ dec' = RxTimeout(OnStream(Called, f))

ReceiveEOT ==
  /\ ~dec.crashed
  /\ dec.syncedType = "stream"
  /\ dec' = RxTimeout(OnEOT(Called))

\* A sync word that no case of the switch takes in the present state.
Ignore(typ) ==
  /\ ~dec.crashed
  /\ \/ typ = "LSF" /\ dec.syncedType # "none"
     \/ typ = "Packet" /\ dec.syncedType # "packet"
     \/ typ = "EOT" /\ dec.syncedType # "stream"
  /\ dec' = RxTimeout(Called)

Next ==
  \/ \E f \in LSFFrame, sid \in StreamIDs : ReceiveLSF(f, sid)
  \/ \E f \in PacketFrame : ReceivePacketFrame(f)
  \/ \E f \in StreamFrame : ReceiveStreamFrame(f)
  \/ ReceiveEOT
  \/ \E typ \in {"LSF", "Packet", "EOT"} : Ignore(typ)

Spec == Init /\ [][Next]_dec

----------------------------------------------------------------------------
(* Properties, for frames in any order *)

\* The decoder's fields keep their ranges: no frame number outgrows its
\* width, the timeout counter is bounded and every callback names an LSF
\* whose CRC was checked.
TypeOK == dec \in DecoderState

\* Every path that dereferences d.lsf (decoder.go:137, 167, 188, 205, 217) is
\* guarded by gotLSF or by packet sync: then the LSF is there, and good.
Known(s) == s.gotLSF \/ s.syncedType # "none" => s.lsf \in LSFs /\ s.gotLSF
LSFKnown == Known(dec)

\* Every chunk of packetData is where its number says (decoder.go:129): the
\* slots below the next one hold the chunks of those numbers, as received,
\* those above are still zero, and no offset has wrapped in its byte.
Placed(data, i) == data[i] = Garbage \/ \E p \in Packets : data[i] = Chunk(p, i)
InOrder(s) ==
  s.syncedType = "packet" /\ ~s.crashed =>
    /\ NextChunk(s) * ChunkLen < ByteMod
    /\ \A i \in Slots : IF i < NextChunk(s) THEN Placed(s.packetData, i) ELSE s.packetData[i] = Zeros
PacketInOrder == InOrder(dec)

\* packetData once the first k chunks of p are in it.
Filled(p, k) == [i \in Slots |-> IF i < k THEN Chunk(p, i) ELSE Zeros]

\* Frame f of p is received in its turn, as number k.
InTurn(p, k, f) ==
  /\ dec.syncedType = "packet"
  /\ dec.packetData = Filled(p, k)
  /\ ReceivePacketFrame(f)
  /\ Data(f) = Chunk(p, k)

\* The frame that comes in its turn is taken; the last hands the packet over.
Taken(p, k, f) ==
  IF f.last THEN dec'.out = <<PacketCallback(dec.lsf, p)>> ELSE dec'.packetData = Filled(p, k + 1)

\* The end of a chunk can be counted in a Go byte.
Addressable(k, bytes) == k * ChunkLen + bytes < ByteMod

\* What becomes of a packet whose frames are heard in order: they are taken,
\* and the last hands it to the gateway, as long as the offsets of
\* decoder.go:129 and 132 can be counted in a byte.  The first frame for which
\* they cannot (250 bytes on) makes the slice expression panic.
PacketHandled ==
  [][\A p \in Packets : \A k \in 0 .. PacketChunks[p] - 1, f \in FramesOf(p) :
       InTurn(p, k, f) =>
         IF Addressable(k, IF f.last THEN LastLen[p] ELSE ChunkLen)
           THEN Taken(p, k, f)
           ELSE dec'.crashed]_dec

\* What the clients are told: a packet holds "data up to 823 bytes"
\* (cmd/m17-text-cli/textclient.go:56), whose frames are all taken.
WholePacketDelivered ==
  [][\A p \in Packets : \A k \in 0 .. PacketChunks[p] - 1, f \in FramesOf(p) :
       InTurn(p, k, f) => Taken(p, k, f)]_dec

SessionOf(s) == IF s.gotLSF THEN s.lsf ELSE NoLSF
NextFNOf(s)  == IF s.gotLSF THEN Expected(s) ELSE 0

Session == INSTANCE RFSession WITH
  session <- SessionOf(dec), nextFN <- NextFNOf(dec), out <- dec.out,
  StreamIDs <- StreamIDs \cup {0}

\* DecodeFrame implements the callback discipline RFSession promises: no voice
\* and no end outside a session, none of them twice or under another LSF.
ImplementsSession == Session!Spec
=============================================================================
