---------------------------- MODULE MCInetServer ----------------------------
(***************************************************************************)
(* Instances of InetServer for TLC.                                        *)
(***************************************************************************)
EXTENDS InetServer, TLC

\* Addresses, client objects and modules are interchangeable.
Symmetry == Permutations(Addrs) \cup Permutations(Clients) \cup Permutations(Modules)
=============================================================================
