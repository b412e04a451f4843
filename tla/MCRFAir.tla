------------------------------ MODULE MCRFAir ------------------------------
(***************************************************************************)
(* Instances of RFAir for TLC.                                             *)
(***************************************************************************)
EXTENDS RFAir, TLC

CONSTANTS la, lb, lp, short, long

\* Two stations speak, the second until its frame number wraps; then one sends
\* a packet of a full chunk and a byte, and one that a byte cannot address.
MCOvers ==
  << [lsf |-> la, len |-> 3], [lsf |-> lb, len |-> 4],
     [lsf |-> lp, pkt |-> short], [lsf |-> lp, pkt |-> long] >>
MCPacketChunks == short :> 2 @@ long :> 4
MCLastLen == short :> 1 @@ long :> 2

\* Two voice overs that do not wrap.
VoiceOnly == << [lsf |-> la, len |-> 5], [lsf |-> lb, len |-> 7] >>
NoPacket == [p \in {} |-> 1]
=============================================================================
