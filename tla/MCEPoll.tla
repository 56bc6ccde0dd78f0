------------------------------ MODULE MCEPoll ------------------------------
(***************************************************************************)
(* Model checking of EPoll with a few streams.                             *)
(***************************************************************************)
EXTENDS EPoll, TLC

\* Threads, epoll streams and sockets are alike, and no property names one.
Symmetry == Permutations(Thread) \cup Permutations(Epoll) \cup Permutations(Socket)
=============================================================================
