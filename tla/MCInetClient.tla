---------------------------- MODULE MCInetClient ----------------------------
(***************************************************************************)
(* Instances of InetClient for TLC.  A tick is five seconds.               *)
(***************************************************************************)
EXTENDS InetClient, TLC

\* Sockets and goroutines are interchangeable.
Symmetry == Permutations(Socks) \cup Permutations(Handlers) \cup Permutations(Loops)
=============================================================================
