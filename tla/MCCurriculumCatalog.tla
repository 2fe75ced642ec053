------------------------- MODULE MCCurriculumCatalog -------------------------
(***************************************************************************)
(* A small instance of CurriculumCatalog for TLC: a chain of three levels. *)
(***************************************************************************)
EXTENDS CurriculumRefinement, TLC

\* A curriculum, what lies between, and a material.
OneOfEachLevel == [i \in Items |-> CASE i = "c1" -> 1 [] i = "u1" -> 2 [] i = "m1" -> 3]

CallSymmetry == Permutations(Publishers) \cup Permutations(Authors)
=============================================================================
