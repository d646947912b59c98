-------------------------------- MODULE MCFile --------------------------------
(* Model checking of FileEngine: the symmetry of the actors of a side.       *)
EXTENDS FileRefinement, TLC

Symmetry == Permutations(Pubs) \cup Permutations(Subs)
=============================================================================
