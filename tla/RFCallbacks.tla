---------------------------- MODULE RFCallbacks ----------------------------
(***************************************************************************)
(* The callbacks the RF decoder is given in NewDecoder (src/decoder.go)    *)
(* and the gateway implements: what each one is called with.  Payload and  *)
(* bit error rate are left out.                                            *)
(***************************************************************************)
LSFCallback(l)             == [cb |-> "LSF", lsf |-> l]
LICHCallback(l)            == [cb |-> "LICH", lsf |-> l]
StreamCallback(l, sid, fn) == [cb |-> "Stream", lsf |-> l, sid |-> sid, fn |-> fn]
EOTCallback(l, sid, fn)    == [cb |-> "EOT", lsf |-> l, sid |-> sid, fn |-> fn]
PacketCallback(l, p)       == [cb |-> "Packet", lsf |-> l, pkt |-> p]
=============================================================================
