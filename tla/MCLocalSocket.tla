--------------------------- MODULE MCLocalSocket ---------------------------
(***************************************************************************)
(* Model checking of LocalSocket on a few sockets and threads.             *)
(***************************************************************************)
EXTENDS LocalSocket, TLC

\* Neither sockets, threads nor names are told apart by code or properties.
Symmetry == Permutations(Sock) \cup Permutations(Thread)
=============================================================================
