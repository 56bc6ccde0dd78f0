----------------------------- MODULE MCPreopen -----------------------------
(***************************************************************************)
(* Model checking of Preopen with a tree of a few names and a few threads. *)
(***************************************************************************)
EXTENDS Preopen

\* The list names one of the directories and what is in it.
OneBranch == LET n == CHOOSE n \in Name : TRUE IN {p \in Path : p[1] = n}
=============================================================================
