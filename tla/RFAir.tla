------------------------------- MODULE RFAir -------------------------------
(***************************************************************************)
(* The decoder of src/decoder.go listening to one station after another.   *)
(* A voice over is a link setup frame, numbered voice frames that carry    *)
(* the same link setup in their LICH, the last one flagged, and an         *)
(* end-of-transmission marker; a packet over has the numbered frames of    *)
(* its packet instead.  A unit can be lost (no sync found) or come out     *)
(* unrepairable, and the last-frame flag of a voice frame can come out     *)
(* inverted.                                                               *)
(***************************************************************************)
EXTENDS RFDecoder

CONSTANTS
  Overs,     \* the overs, a sequence of [lsf, len] and [lsf, pkt], sent round and round
  MayLose,   \* kinds of unit that can be lost
  MayGarble, \* kinds of unit, or "LICH", that can come out unrepairable
  MayFlip    \* whether the last-frame flag can come out inverted

\* The frame number of a long over wraps: len has no bound.
VoiceOvers  == [lsf : StreamLSFs, len : Nat \ {0}]
PacketOvers == [lsf : PacketLSFs, pkt : Packets]

ASSUME AirAssumption ==
  /\ Overs # <<>>
  /\ Overs \in Seq(VoiceOvers \cup PacketOvers)
  /\ MayLose \subseteq {"LSF", "Stream", "Packet", "EOT"}
  /\ MayGarble \subseteq {"LSF", "LICH", "Packet"}
  /\ MayFlip \in BOOLEAN

VARIABLES
  over,    \* index in Overs of the over on the air
  pos,     \* next unit: 0 the LSF, k the k-th frame after it, len + 1 the marker
  entry,   \* history, how the decoder came to the over: "own" by its link setup;
           \* "late" without it, but with nothing left of the over before;
           \* "stale" otherwise
  flipped, \* history: a flag of this over came out inverted
  ends     \* history: ends of transmission reported since the over began

vars == <<dec, over, pos, entry, flipped, ends>>

Station == Overs[over].lsf
IsVoice == Station \in StreamLSFs
OverLen == IF IsVoice THEN Overs[over].len ELSE PacketChunks[Overs[over].pkt]

AirInit == Init /\ over = 1 /\ pos = 0 /\ entry = "late" /\ flipped = FALSE /\ ends = 0

----------------------------------------------------------------------------
Reported(kind) == \E i \in DOMAIN dec'.out : dec'.out[i].cb = kind

CountEnds == ends' = ends + (IF Reported("EOT") THEN 1 ELSE 0)

\* No sync word is found: DecodeFrame is not called.
Miss(unit) == unit \in MayLose /\ dec' = Called

OrGarbled(kind, content) == {content} \cup (IF kind \in MayGarble THEN {Garbage} ELSE {})

HearLSF ==
  \/ \E l \in OrGarbled("LSF", Station), sid \in StreamIDs : ReceiveLSF([lsf |-> l], sid)
  \/ Ignore("LSF")

\* The k-th voice frame, from 0: its number has 15 bits.
VoiceFrame(k, lich, flip) ==
  [fn   |-> (k % FNMod) + (IF (k + 1 = OverLen) # flip THEN FNMod ELSE 0),
   cnt  |-> (k % FNMod) % LichChunks,
   lich |-> lich]

HearVoice ==
  \E flip \in {FALSE, MayFlip}, lich \in OrGarbled("LICH", Station) :
    ReceiveStreamFrame(VoiceFrame(pos - 1, lich, flip)) /\ flipped' = (flipped \/ flip)

\* The k-th frame of the packet, from 0.
PacketUnit(k) ==
  LET p == Overs[over].pkt
  IN [pkt |-> p, last |-> k + 1 = OverLen, n |-> IF k + 1 = OverLen THEN LastLen[p] ELSE k]

GarbledPacketFrames ==
  IF "Packet" \in MayGarble THEN [pkt : {Garbage}, last : BOOLEAN, n : GarbageNums] ELSE {}

HearPacket ==
  \/ \E f \in {PacketUnit(pos - 1)} \cup GarbledPacketFrames : ReceivePacketFrame(f)
  \/ Ignore("Packet")

HearEOT == ReceiveEOT \/ Ignore("EOT")

KeyUp(hear) ==
  /\ pos = 0
  /\ hear
  /\ entry' = IF dec'.out = <<LSFCallback(Station)>> THEN "own" ELSE entry
  /\ pos' = 1
  /\ flipped' = FALSE
  /\ ends' = 0
  /\ UNCHANGED over

Speak(hear) ==
  /\ IsVoice
  /\ pos \in 1 .. OverLen
  /\ hear
  /\ pos' = pos + 1
  /\ CountEnds
  /\ UNCHANGED <<over, entry>>

SendPacket(hear) ==
  /\ ~IsVoice
  /\ pos \in 1 .. OverLen
  /\ hear
  /\ pos' = pos + 1
  /\ CountEnds
  /\ UNCHANGED <<over, entry, flipped>>

\* A voice over that the decoder followed from its link setup to its marker.
Followed == IsVoice /\ entry = "own" /\ ~flipped /\ OverLen <= FNMod

\* The marker, after which the next station keys up.
KeyDown(hear, heard) ==
  /\ pos = OverLen + 1
  /\ hear
  /\ entry' = IF heard /\ Followed THEN "late" ELSE "stale"
  /\ CountEnds
  /\ over' = (over % Len(Overs)) + 1
  /\ pos' = 0
  /\ UNCHANGED flipped

Hear ==
  \/ KeyUp(HearLSF)
  \/ Speak(HearVoice)
  \/ SendPacket(HearPacket)
  \/ KeyDown(HearEOT, TRUE)

Lose ==
  \/ KeyUp(Miss("LSF"))
  \/ Speak(Miss("Stream") /\ UNCHANGED flipped)
  \/ SendPacket(Miss("Packet"))
  \/ KeyDown(Miss("EOT"), FALSE)

\* A panic ends the program.
Dead == dec.crashed /\ UNCHANGED vars

AirNext == (~dec.crashed /\ (Hear \/ Lose)) \/ Dead

AirSpec == AirInit /\ [][AirNext]_vars

\* Sync words keep being found: the decoder has no clock of its own, its RX
\* timeout only counts calls.
FairAirSpec == AirSpec /\ WF_vars(Hear)

----------------------------------------------------------------------------
(* Properties *)

\* Voice is attributed to the station that sent it, whatever else is lost,
\* garbled or inverted: unless the end of an earlier over was missed, no frame
\* is forwarded under another link setup than that of the station on the air
\* (decoder.go:186 uses whatever LSF the decoder holds).
RightStation ==
  [][entry # "stale" => \A i \in DOMAIN dec'.out :
       dec'.out[i].cb \in {"Stream", "LICH"} => dec'.out[i].lsf = Station]_vars

\* A voice frame that is heard in a session is forwarded, whatever was lost
\* before it: the test against lastStreamFN (decoder.go:154) refuses only what
\* follows an inverted flag of the same over, or comes after the frame number
\* has wrapped.
HeardIsForwarded ==
  [][Speak(HearVoice) /\ entry # "stale" /\ dec.gotLSF =>
       Reported("Stream") \/ flipped \/ pos > FNMod]_vars

\* What the comment on the last-frame flag promises: the flag is honoured "only
\* on a plausibly sequential frame", so that a failure to decode it does not
\* "end the over early - after which [...] the gateway stops forwarding"
\* (decoder.go:174-178).  Then a frame that is refused as the last one must not
\* stop those that follow it either.
FlagDoesNotMute ==
  [][Speak(HearVoice) /\ entry # "stale" /\ dec.gotLSF => Reported("Stream")]_vars

\* A voice over that was followed ends exactly once, by its flagged frame or
\* by the marker after it (decoder.go:195-208), never by both, whatever voice
\* is lost in between.
EndsOnce == [][KeyDown(HearEOT, TRUE) /\ Followed => ends' = 1]_vars

\* After the end-of-transmission marker of such an over nothing of it is left:
\* the comment at decoder.go:181 calls this the reliable path, which
\* "terminates the stream".  It does not if the over was entered through its
\* LICH, or again after an inverted flag: syncedType is zero then.
MarkerTerminates == [][KeyDown(HearEOT, TRUE) /\ Followed => ~dec'.gotLSF]_vars

\* A decoder left in sync by an over whose end was missed comes out of it: the
\* frames of later overs that it refuses count towards the RX timeout.  Only
\* the frame number 0xffff, after which the decoder counts from 0 again, could
\* keep it there.
Restarted == \E i \in DOMAIN dec.out : dec.out[i].cb = "Stream" /\ dec.out[i].fn = NoFN
SyncReleased ==
  dec.syncedType # "none" ~> dec.syncedType = "none" \/ dec.crashed \/ Restarted
=============================================================================
