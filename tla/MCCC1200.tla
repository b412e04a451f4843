------------------------------ MODULE MCCC1200 ------------------------------
(***************************************************************************)
(* Instances of CC1200 for TLC.                                            *)
(***************************************************************************)
EXTENDS CC1200, TLC
CONSTANTS c1
MCCallers == {c1}
=============================================================================
