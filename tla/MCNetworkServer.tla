--------------------------- MODULE MCNetworkServer ---------------------------
(* NetworkServer instantiated for TLC. *)
EXTENDS NetworkServer, TLC

\* Connections are interchangeable, and so are descriptor numbers.
Symmetry == Permutations(Conn) \cup Permutations(Fd)
=============================================================================
