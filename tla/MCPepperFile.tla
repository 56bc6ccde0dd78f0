---------------------------- MODULE MCPepperFile ----------------------------
(***************************************************************************)
(* Model checking of PepperFile with a tree of a few names.                *)
(***************************************************************************)
EXTENDS PepperFile, TLC

\* Threads run the same code, names differ in nothing else.
Symmetry == Permutations(Thread) \cup Permutations(Name)
=============================================================================
