----------------------------- MODULE MCRFPacket -----------------------------
(***************************************************************************)
(* Instances of RFDecoder for TLC that receive packets of real sizes:      *)
(* chunks of 25 bytes, lengths in a byte.                                  *)
(***************************************************************************)
EXTENDS RFDecoder, TLC

CONSTANTS lp, long

\* 823 bytes and their CRC.
LongChunks == long :> 33
LongLastLen == long :> 25
=============================================================================
