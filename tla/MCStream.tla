------------------------------ MODULE MCStream -------------------------------
(* Model checking of the DTL, its stream and its roles: symmetric actors.    *)
EXTENDS StreamProperties, TLC

Symmetry == Permutations(Actors)
=============================================================================
