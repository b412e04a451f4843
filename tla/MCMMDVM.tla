------------------------------ MODULE MCMMDVM ------------------------------
(***************************************************************************)
(* Instances of MMDVM for TLC.                                             *)
(***************************************************************************)
EXTENDS MMDVM, TLC
CONSTANTS c1
MCCallers == {c1}
=============================================================================
