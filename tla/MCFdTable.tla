----------------------------- MODULE MCFdTable -----------------------------
(***************************************************************************)
(* Model checking of FdTable on a few descriptors.                         *)
(***************************************************************************)
EXTENDS FdTable, TLC

\* The threads run the same code and no property names one of them.
ThreadSymmetry == Permutations(Thread)
=============================================================================
