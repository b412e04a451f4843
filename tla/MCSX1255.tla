------------------------------ MODULE MCSX1255 ------------------------------
(***************************************************************************)
(* Instances of SX1255 for TLC.                                            *)
(***************************************************************************)
EXTENDS SX1255, TLC
CONSTANTS c1, c2, t1, t2
MCCallers == {c1, c2}
MCTimerRuns == {t1, t2}
Symmetry == Permutations(MCCallers) \cup Permutations(MCTimerRuns)
=============================================================================
