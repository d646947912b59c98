------------------------------ MODULE MCStaging ------------------------------
(* Model checking of StagingEngine: the symmetry of the actors of a side.    *)
EXTENDS StagingRefinement, TLC

Symmetry == Permutations(Pubs) \cup Permutations(Subs)
=============================================================================
