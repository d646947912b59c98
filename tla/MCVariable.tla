----------------------------- MODULE MCVariable ------------------------------
(* Model checking of VariableBlocks: a 3 x 2 variable of two publishers, a   *)
(* 2 x 2 one of a single publisher, and the symmetry of publishers.         *)
EXTENDS VariableProperties, TLC

MCShapes == {<<3, 2>>}
MCSquare == {<<2, 2>>}
MCStrides == {<<2, 1>>, <<2, 2>>, <<2>>, <<0, 1>>}
Symmetry == Permutations(Publishers)
=============================================================================
