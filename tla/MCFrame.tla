------------------------------ MODULE MCFrame ------------------------------
(***************************************************************************)
(* Instances of Frame for TLC.                                             *)
(***************************************************************************)
EXTENDS Frame

Scrambled(n, c) == [i \in 1..n |-> ((7 * i * i + 13 * i + c) % 11) % 2]
MCLSDs == {Scrambled(224, 0)}
MCPayloads == {Scrambled(128, 1)}
MCChunks == {Scrambled(206, 2)}

Burst(f, c, h) == [first |-> f, count |-> c, how |-> h]
\* Four symbols in a row, and bursts of as many as the LICH stands and the data do not
MCBursts ==
  {Burst(4 * n, 4, "opposite") : n \in 0..45} \cup {Burst(8 * n + 2, 4, "mirrored") : n \in 0..22}
    \cup {Burst(8 * n + 6, 4, "lost") : n \in 0..21} \cup {Burst(18 * n, 19, "opposite") : n \in 0..9}
=============================================================================
