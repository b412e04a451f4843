----------------------------- MODULE MCGateway -----------------------------
(***************************************************************************)
(* Instances of Gateway for TLC.                                           *)
(***************************************************************************)
EXTENDS Gateway

CONSTANTS net, echo, info, echoPkt, netPkt, pkt

MCLSFs == {net, echo, info, echoPkt, netPkt}
MCEcho == {echo, echoPkt}
MCPacket == {echoPkt, netPkt}
=============================================================================
