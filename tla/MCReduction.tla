----------------------------- MODULE MCReduction ------------------------------
(* Model checking of ReductionMethods: a variable of five elements and two   *)
(* publishers, with parameters that are valid, partial and invalid.          *)
EXTENDS ReductionProperties, TLC

MCPart == [p \in Publishers |->
             IF p = CHOOSE q \in Publishers : TRUE THEN Block(0, 3)
             ELSE Block(3, 2)]

MCDecimations ==
  {[stride |-> <<2>>, interpolation |-> "linear"],
   [stride |-> <<3>>, interpolation |-> "linear"], EmptyMap,
   [interpolation |-> "quadratic"], [stride |-> <<0>>], [stride |-> <<2, 2>>],
   [step |-> <<2>>]}

MCCompressions ==
  {[profile |-> "sz", accuracy |-> 12], [accuracy |-> 6],
   [ratio |-> 4, variability |-> 8], [ratio |-> 0],
   [profile |-> "lzma", ratio |-> 2], [level |-> 9]}

\* 24.4 * 10^(-0.181 a) and 64 / (1 + a * log2 10), rounded down.
MCFit == [profile \in {"sz", "zfp"} |->
            [a \in {3, 6, 12} |->
               IF profile = "sz" THEN CASE a = 3 -> 6 [] a = 6 -> 2 [] OTHER -> 0
               ELSE CASE a = 3 -> 5 [] a = 6 -> 3 [] OTHER -> 1]]

MCNoises == {-1, 1}
Symmetry == Permutations(Addresses)
=============================================================================
