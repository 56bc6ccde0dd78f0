--------------------------- MODULE MCMemoryRegion ---------------------------
(***************************************************************************)
(* Model checking of MemoryRegion with a few pages.                        *)
(***************************************************************************)
EXTENDS MemoryRegion, TLC

\* Streams of a kind differ in nothing but their name.
Symmetry == Permutations(Ashmem) \cup Permutations(File)
=============================================================================
