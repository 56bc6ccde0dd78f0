---------------------------- MODULE MCTcpSocket ----------------------------
(***************************************************************************)
(* Model checking of TcpSocket with small buffers.                         *)
(***************************************************************************)
EXTENDS TcpSocket, TLC

\* Threads run the same code and no property names one of them.
Symmetry == Permutations(Thread)
=============================================================================
