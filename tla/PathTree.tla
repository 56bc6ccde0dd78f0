------------------------------ MODULE PathTree ------------------------------
(***************************************************************************)
(* The paths of a directory tree of two levels, and what renaming one of   *)
(* them does to the tree.  PepperFile and Preopen have their files in it.  *)
(***************************************************************************)
EXTENDS Integers, Sequences

CONSTANTS
    Name,  \* names in the root
    Leaf   \* names in a directory below it

Path == {<<n>> : n \in Name} \cup {<<n, m>> : n \in Name, m \in Leaf}
NoPath == << >>

Below(p) == {q \in Path : Len(q) > Len(p) /\ SubSeq(q, 1, Len(p)) = p}
AtOrBelow(p) == Below(p) \cup {p}

\* p with the prefix old replaced by new
Rebased(p, old, new) == new \o SubSeq(p, Len(old) + 1, Len(p))

\* The tree after the rename of o to n; none is what is at a path without a file.
TreeRenamed(tree, none, o, n) ==
    [p \in Path |->
       IF p \in AtOrBelow(n)
         THEN IF Rebased(p, n, o) \in Path THEN tree[Rebased(p, n, o)] ELSE none
         ELSE IF p \in AtOrBelow(o) THEN none ELSE tree[p]]
=============================================================================
