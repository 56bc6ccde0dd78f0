------------------------------- MODULE MCFence -------------------------------
(***************************************************************************)
(* TLC instances of Fence.                                                 *)
(***************************************************************************)
EXTENDS Fence, TLC

\* Threads and timelines are interchangeable (safety properties only).
Symmetry ==
    Permutations(Thread) \cup Permutations(Timeline)
=============================================================================
