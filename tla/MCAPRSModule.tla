---------------------------- MODULE MCAPRSModule ----------------------------
(***************************************************************************)
(* Instances of APRSModule for TLC.                                        *)
(***************************************************************************)
EXTENDS APRSModule, TLC

CONSTANTS c1, c2, c3, n1, n2

\* Two stations of one operator share an APRS callsign.
MCAprsCallsign == c1 :> n1 @@ c2 :> n1 @@ c3 :> n2
=============================================================================
