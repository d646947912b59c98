---------------------------- MODULE VariableProofs ----------------------------
(***************************************************************************)
(* What VariableProperties states, proved for every rank, every shape and  *)
(* every number of publishers and transactions.                            *)
(***************************************************************************)
EXTENDS VariableProperties, FiniteSetTheorems, Folds, TLAPS

-----------------------------------------------------------------------------
(* Arithmetic of one dimension                                              *)

\* Division rounds down.
LEMMA DivRoundsDown ==
  ASSUME NEW n \in Nat, NEW s \in Nat \ {0}
  PROVE  /\ n \div s \in Nat
         /\ (n \div s) * s <= n
         /\ n < (n \div s) * s + s
OBVIOUS

\* Ceiling counts the multiples of the stride below n: its defining property.
LEMMA CeilingBound ==
  ASSUME NEW n \in Nat, NEW s \in Nat \ {0}, NEW c \in Nat
  PROVE  /\ Ceiling(n, s) \in Nat
         /\ Ceiling(n, s) <= c <=> n <= c * s
<1> DEFINE q == Ceiling(n, s)
<1>1. /\ q \in Nat
      /\ q * s <= n + s - 1
      /\ n + s - 1 < q * s + s
  BY DivRoundsDown, n + s - 1 \in Nat DEF Ceiling
<1> HIDE DEF q
<1>2. ASSUME q <= c PROVE q * s <= c * s
  BY <1>1, <1>2
<1>3. ASSUME c + 1 <= q PROVE (c + 1) * s <= q * s
  BY <1>1, <1>3
<1>4. (c + 1) * s = c * s + s /\ c * s \in Nat /\ q * s \in Nat
  BY <1>1
<1> QED
  BY <1>1, <1>2, <1>3, <1>4 DEF q

\* The number of elements that a get takes of a block in one dimension is
\* the number of indexes that the selection and the block share.
THEOREM SizeIsIntersection ==
  ASSUME NEW a \in Nat, NEW ca \in Nat, NEW b \in Nat, NEW cb \in Nat
  PROVE  SizeInDim(a, ca, b, cb) =
           Cardinality({i \in Int : /\ a <= i /\ i < a + ca
                                    /\ b <= i /\ i < b + cb})
<1> DEFINE lo == IF a <= b THEN b ELSE a
           hi == IF a + ca <= b + cb THEN a + ca ELSE b + cb
           S == {i \in Int : a <= i /\ i < a + ca /\ b <= i /\ i < b + cb}
<1>1. S = lo .. (hi - 1)
  OBVIOUS
<1>2. Cardinality(S) = IF lo > hi - 1 THEN 0 ELSE (hi - 1) - lo + 1
  BY <1>1, FS_Interval, lo \in Int, hi - 1 \in Int
<1>3. SizeInDim(a, ca, b, cb) = IF lo > hi - 1 THEN 0 ELSE (hi - 1) - lo + 1
  BY DEF SizeInDim, MinOf
<1> QED
  BY <1>2, <1>3

-----------------------------------------------------------------------------
(* Folds over sets                                                           *)

\* The element that a fold takes of a set, and the two folds of the model as
\* the recursive functions that they stand for.
PickOne(s) == CHOOSE x \in s : TRUE
Multiplies(g, f) == g = [s \in SUBSET DOMAIN f |->
                           IF s = {} THEN 1
                           ELSE f[PickOne(s)] * g[s \ {PickOne(s)}]]
Adds(g, f) == g = [s \in SUBSET DOMAIN f |->
                     IF s = {} THEN 0
                     ELSE f[PickOne(s)] + g[s \ {PickOne(s)}]]

\* What holds of the empty set, and of a set once it holds of the set without
\* the element that a fold takes, holds of all subsets of a finite set.
LEMMA SetInduction ==
  ASSUME NEW S, IsFiniteSet(S), NEW Good \in SUBSET (SUBSET S), {} \in Good,
         \A s \in SUBSET S : s # {} /\ s \ {PickOne(s)} \in Good => s \in Good
  PROVE  Good = SUBSET S
<1> DEFINE Bad == (SUBSET S) \ Good
           R == StrictSubsetOrdering(S)
<1> SUFFICES ASSUME Bad # {} PROVE FALSE
  OBVIOUS
<1>1. IsWellFoundedOn(R, SUBSET S)
  <2>1. FiniteSubsetsOf(S) = SUBSET S
    BY FS_FiniteSubsetsOfFinite
  <2>2. IsWellFoundedOn(StrictSubsetOrdering(S), FiniteSubsetsOf(S))
    BY FS_StrictSubsetOrderingWellFounded
  <2> QED
    BY <2>1, <2>2
<1>2. PICK s \in Bad : \A y \in Bad : <<y, s>> \notin R
  <2>1. Bad \subseteq SUBSET S
    OBVIOUS
  <2> HIDE DEF R, Bad
  <2> QED
    BY <1>1, <2>1, WFMin
<1>3. s # {} /\ s \in SUBSET S
  OBVIOUS
<1>4. PickOne(s) \in s
  BY <1>3 DEF PickOne
<1>5. <<s \ {PickOne(s)}, s>> \in R
  BY <1>3, <1>4 DEF StrictSubsetOrdering
<1> QED
  BY <1>2, <1>3, <1>5

\* A product is what any function computes that multiplies in that way.
LEMMA ProductIs ==
  ASSUME NEW f, IsFiniteSet(DOMAIN f), NEW v, Multiplies(v, f)
  PROVE  Product(f) = v[DOMAIN f]
<1> DEFINE g == CHOOSE h : Multiplies(h, f)
           S == DOMAIN f
           Good == {s \in SUBSET S : g[s] = v[s]}
<1>1. Product(f) = g[S]
  BY DEF Product, FoldFunction, FoldFunctionOnSet, MapThenFoldSet, Multiplies,
         PickOne
<1>2. Multiplies(g, f)
  OBVIOUS
<1> HIDE DEF g
<1>3. g[{}] = v[{}]
  BY <1>2 DEF Multiplies
<1>4. \A s \in SUBSET S : s # {} /\ s \ {PickOne(s)} \in Good => s \in Good
  BY <1>2 DEF Multiplies
<1>5. Good \in SUBSET (SUBSET S) /\ {} \in Good
  BY <1>3
<1>6. Good = SUBSET S
  <2> HIDE DEF Good
  <2> QED
    BY <1>4, <1>5, SetInduction
<1> QED
  BY <1>1, <1>6

\* A sum is what any function computes that adds in that way.
LEMMA SumIs ==
  ASSUME NEW f, IsFiniteSet(DOMAIN f), NEW v, Adds(v, f)
  PROVE  FoldFunction(+, 0, f) = v[DOMAIN f]
<1> DEFINE g == CHOOSE h : Adds(h, f)
           S == DOMAIN f
           Good == {s \in SUBSET S : g[s] = v[s]}
<1>1. FoldFunction(+, 0, f) = g[S]
  BY DEF FoldFunction, FoldFunctionOnSet, MapThenFoldSet, Adds, PickOne
<1>2. Adds(g, f)
  OBVIOUS
<1> HIDE DEF g
<1>3. g[{}] = v[{}]
  BY <1>2 DEF Adds
<1>4. \A s \in SUBSET S : s # {} /\ s \ {PickOne(s)} \in Good => s \in Good
  BY <1>2 DEF Adds
<1>5. Good \in SUBSET (SUBSET S) /\ {} \in Good
  BY <1>3
<1>6. Good = SUBSET S
  <2> HIDE DEF Good
  <2> QED
    BY <1>4, <1>5, SetInduction
<1> QED
  BY <1>1, <1>6

-----------------------------------------------------------------------------
(* The cells of a box are as many as the product of its sides                *)

\* The vectors over the dimensions s whose index in each lies on its side.
Box(side, s) == {c \in [s -> Nat] : \A d \in s : c[d] \in side[d]}

\* One dimension more multiplies the number of vectors by its side.
LEMMA BoxGrows ==
  ASSUME NEW side, NEW s, NEW x \in s, side[x] \subseteq Nat,
         IsFiniteSet(side[x]), IsFiniteSet(Box(side, s \ {x}))
  PROVE  /\ IsFiniteSet(Box(side, s))
         /\ Cardinality(Box(side, s)) =
              Cardinality(side[x]) * Cardinality(Box(side, s \ {x}))
<1> DEFINE Rest == Box(side, s \ {x})
           P == side[x] \X Rest
           join(i, c) == [d \in s |-> IF d = x THEN i ELSE c[d]]
           m == [p \in P |-> join(p[1], p[2])]
<1>1. IsFiniteSet(P) /\ Cardinality(P) = Cardinality(side[x]) * Cardinality(Rest)
  BY FS_Product
<1>2. \A i \in side[x], c \in Rest : join(i, c) \in Box(side, s)
  BY DEF Box
<1>3. \A i, j \in side[x], c, e \in Rest :
        join(i, c) = join(j, e) => i = j /\ c = e
  <2> SUFFICES ASSUME NEW i \in side[x], NEW j \in side[x],
                      NEW c \in Rest, NEW e \in Rest, join(i, c) = join(j, e)
               PROVE  i = j /\ c = e
    OBVIOUS
  <2>1. \A d \in s : join(i, c)[d] = join(j, e)[d]
    OBVIOUS
  <2>2. i = j /\ \A d \in s \ {x} : c[d] = e[d]
    BY <2>1
  <2>3. c \in [s \ {x} -> Nat] /\ e \in [s \ {x} -> Nat]
    BY DEF Box
  <2> QED
    BY <2>2, <2>3
<1>4. \A c \in Box(side, s) :
        \E i \in side[x], e \in Rest : c = join(i, e)
  <2> SUFFICES ASSUME NEW c \in Box(side, s)
               PROVE  \E i \in side[x], e \in Rest : c = join(i, e)
    OBVIOUS
  <2> DEFINE e == [d \in s \ {x} |-> c[d]]
  <2>1. c \in [s -> Nat] /\ c[x] \in side[x] /\ e \in Rest
    BY DEF Box
  <2>2. c = join(c[x], e)
    BY <2>1
  <2> QED
    BY <2>1, <2>2
<1>5. m \in [P -> Box(side, s)]
  BY <1>2
<1> HIDE DEF join
<1>6. m \in Injection(P, Box(side, s))
  <2>1. ASSUME NEW p \in P, NEW q \in P, m[p] = m[q] PROVE p = q
    <3>1. /\ p[1] \in side[x] /\ p[2] \in Rest /\ p = <<p[1], p[2]>>
          /\ q[1] \in side[x] /\ q[2] \in Rest /\ q = <<q[1], q[2]>>
      OBVIOUS
    <3>2. join(p[1], p[2]) = join(q[1], q[2])
      BY <2>1
    <3>3. p[1] = q[1] /\ p[2] = q[2]
      BY <1>3, <3>1, <3>2
    <3> QED
      BY <3>1, <3>3
  <2> QED
    BY <1>5, <2>1 DEF Injection, IsInjective
<1>7. m \in Surjection(P, Box(side, s))
  <2>1. ASSUME NEW c \in Box(side, s) PROVE \E p \in P : m[p] = c
    <3>1. PICK i \in side[x], e \in Rest : c = join(i, e)
      BY <1>4
    <3>2. <<i, e>> \in P /\ m[<<i, e>>] = c
      BY <3>1
    <3> QED
      BY <3>2
  <2> QED
    BY <1>5, <2>1 DEF Surjection
<1>8. ExistsBijection(P, Box(side, s))
  BY <1>6, <1>7 DEF ExistsBijection, Bijection
<1> QED
  BY <1>1, <1>8, FS_Bijection

\* A box has as many cells as the product of the lengths of its sides.
LEMMA BoxSize ==
  ASSUME NEW D, IsFiniteSet(D), NEW side,
         \A d \in D : side[d] \subseteq Nat /\ IsFiniteSet(side[d])
  PROVE  /\ IsFiniteSet(Box(side, D))
         /\ Product([d \in D |-> Cardinality(side[d])]) = Cardinality(Box(side, D))
<1> DEFINE f == [d \in D |-> Cardinality(side[d])]
           v == [s \in SUBSET D |-> Cardinality(Box(side, s))]
           Good == {s \in SUBSET D : IsFiniteSet(Box(side, s))}
<1>1. IsFiniteSet(Box(side, {})) /\ Cardinality(Box(side, {})) = 1
  <2>1. \A c, e : c \in [{} -> Nat] /\ e \in [{} -> Nat] => c = e
    OBVIOUS
  <2>2. [d \in {} |-> 0] \in [{} -> Nat]
    OBVIOUS
  <2>3. Box(side, {}) = {[d \in {} |-> 0]}
    BY <2>1, <2>2 DEF Box
  <2> QED
    BY <2>3, FS_Singleton
<1>2. \A s \in SUBSET D : s # {} => PickOne(s) \in s
  BY DEF PickOne
<1>3. \A s \in SUBSET D : s # {} /\ s \ {PickOne(s)} \in Good =>
        /\ IsFiniteSet(Box(side, s))
        /\ Cardinality(Box(side, s)) =
             f[PickOne(s)] * Cardinality(Box(side, s \ {PickOne(s)}))
  BY <1>2, BoxGrows
<1>4. Good = SUBSET D
  <2>1. /\ Good \in SUBSET (SUBSET D) /\ {} \in Good
        /\ \A s \in SUBSET D : s # {} /\ s \ {PickOne(s)} \in Good => s \in Good
    BY <1>1, <1>3
  <2> HIDE DEF Good
  <2> QED
    BY <2>1, SetInduction
<1>5. \A s \in SUBSET D : v[s] = IF s = {} THEN 1
                                 ELSE f[PickOne(s)] * v[s \ {PickOne(s)}]
  BY <1>1, <1>2, <1>3, <1>4
<1>6. Multiplies(v, f)
  <2> HIDE DEF f
  <2>1. DOMAIN f = D /\ v = [s \in SUBSET D |-> v[s]]
    BY DEF f
  <2> HIDE DEF v
  <2> QED
    BY <1>5, <2>1 DEF Multiplies
<1>7. Product(f) = v[D]
  BY <1>6, ProductIs
<1> QED
  BY <1>4, <1>7

-----------------------------------------------------------------------------
(* One block: what the publisher that decimates it keeps                     *)

Steps == [Dims -> 1 .. SizeMax]
Scaled(c, st) == [d \in Dims |-> c[d] * st[d]]

\* The number of strides to a cell is the number of cells of the reduced
\* variable before it, for the start and the end of a block alike.
LEMMA ReducedBounds ==
  ASSUME NEW sh \in Vectors, NEW st \in Steps, NEW b \in Blocks,
         Inside(b, sh), NEW d \in Dims
  PROVE  LET r == ReducedBlock(sh, st, b)
             next == Ceiling(b.start[d] + b.count[d], st[d])
         IN  /\ r.start[d] = Ceiling(b.start[d], st[d])
             /\ r.count[d] = next - Ceiling(b.start[d], st[d])
             /\ Ceiling(b.start[d], st[d]) \in Nat /\ next \in Nat
             /\ Ceiling(b.start[d], st[d]) <= next
             /\ next <= Ceiling(sh[d], st[d])
             /\ Ceiling(sh[d], st[d]) \in Nat
             /\ Ceiling(sh[d], st[d]) <= sh[d]
<1> DEFINE n == sh[d]
           s == st[d]
           f == b.start[d]
           k == b.count[d]
<1>1. n \in Nat /\ s \in Nat \ {0} /\ f \in Nat /\ k \in Nat /\ f + k <= n
  BY SizeAssumption DEF Vectors, Steps, Blocks, Inside
<1> HIDE DEF n, s, f, k
<1>2. /\ Ceiling(n, s) \in Nat /\ Ceiling(f, s) \in Nat
      /\ Ceiling(f + k, s) \in Nat
  BY <1>1, CeilingBound, f + k \in Nat, 0 \in Nat
<1>3. Ceiling(f, s) <= Ceiling(f + k, s)
  <2>1. f + k <= Ceiling(f + k, s) * s
    BY <1>1, <1>2, CeilingBound, f + k \in Nat
  <2>2. f <= Ceiling(f + k, s) * s
    BY <2>1, <1>1, <1>2
  <2> QED
    BY <2>2, <1>1, <1>2, CeilingBound
<1>4. Ceiling(f + k, s) <= Ceiling(n, s)
  <2>1. n <= Ceiling(n, s) * s
    BY <1>1, <1>2, CeilingBound
  <2>2. f + k <= Ceiling(n, s) * s
    BY <2>1, <1>1, <1>2
  <2> QED
    BY <2>2, <1>1, <1>2, CeilingBound, f + k \in Nat
<1>5. Ceiling(n, s) <= n
  <2>1. n <= n * s
    BY <1>1
  <2> QED
    BY <2>1, <1>1, CeilingBound
<1>6. MinOf(n, Ceiling(f + k, s)) = Ceiling(f + k, s)
  BY <1>1, <1>2, <1>4, <1>5 DEF MinOf
<1> QED
  BY <1>2, <1>3, <1>4, <1>5, <1>6 DEF n, s, f, k, ReducedBlock, Block

\* The reduced block is a block of sizes that do not wrap, and lies inside
\* the reduced variable, which is not larger than the variable.
LEMMA ReducedInside ==
  ASSUME NEW sh \in Vectors, NEW st \in Steps, NEW b \in Blocks, Inside(b, sh)
  PROVE  /\ ReducedShape(sh, st) \in Vectors
         /\ ReducedBlock(sh, st, b) \in Blocks
         /\ Inside(ReducedBlock(sh, st, b), ReducedShape(sh, st))
         /\ Inside(ReducedBlock(sh, st, b), sh)
<1> DEFINE r == ReducedBlock(sh, st, b)
           rsh == ReducedShape(sh, st)
<1>1. \A d \in Dims : sh[d] \in 0 .. SizeMax
  BY DEF Vectors
<1>2. /\ r = [start |-> r.start, count |-> r.count]
      /\ r.start = [d \in Dims |-> r.start[d]]
      /\ r.count = [d \in Dims |-> r.count[d]]
      /\ rsh = [d \in Dims |-> Ceiling(sh[d], st[d])]
  BY DEF ReducedBlock, Block, ReducedShape
<1> HIDE DEF r
<1>3. \A d \in Dims : /\ r.start[d] \in 0 .. SizeMax /\ r.count[d] \in 0 .. SizeMax
                      /\ rsh[d] \in 0 .. SizeMax
                      /\ r.start[d] + r.count[d] <= rsh[d]
                      /\ rsh[d] <= sh[d]
  <2> SUFFICES ASSUME NEW d \in Dims
               PROVE  /\ r.start[d] \in 0 .. SizeMax /\ r.count[d] \in 0 .. SizeMax
                      /\ rsh[d] \in 0 .. SizeMax
                      /\ r.start[d] + r.count[d] <= rsh[d]
                      /\ rsh[d] <= sh[d]
    OBVIOUS
  <2> QED
    BY ReducedBounds, <1>1, <1>2, SizeAssumption DEF r
<1> HIDE DEF rsh
<1> QED
  BY <1>1, <1>2, <1>3, SizeAssumption DEF Blocks, Vectors, Inside, r, rsh

\* A cell is in the reduced block if and only if the cell of the variable
\* that it stands for is in the block.
LEMMA KeptCells ==
  ASSUME NEW sh \in Vectors, NEW st \in Steps, NEW b \in Blocks, Inside(b, sh),
         NEW c \in Vectors
  PROVE  InBlock(c, ReducedBlock(sh, st, b)) <=> InBlock(Scaled(c, st), b)
<1> DEFINE r == ReducedBlock(sh, st, b)
<1> SUFFICES ASSUME NEW d \in Dims
             PROVE  (r.start[d] <= c[d] /\ c[d] < r.start[d] + r.count[d])
                    <=> /\ b.start[d] <= Scaled(c, st)[d]
                        /\ Scaled(c, st)[d] < b.start[d] + b.count[d]
  BY DEF InBlock
<1>1. /\ c[d] \in Nat /\ st[d] \in Nat \ {0}
      /\ b.start[d] \in Nat /\ b.count[d] \in Nat
  BY SizeAssumption DEF Vectors, Steps, Blocks
<1>2. Scaled(c, st)[d] = c[d] * st[d] /\ c[d] * st[d] \in Nat
  BY <1>1 DEF Scaled
<1>3. Ceiling(b.start[d], st[d]) <= c[d] <=> b.start[d] <= c[d] * st[d]
  BY <1>1, CeilingBound
<1>4. Ceiling(b.start[d] + b.count[d], st[d]) <= c[d]
      <=> b.start[d] + b.count[d] <= c[d] * st[d]
  BY <1>1, CeilingBound, b.start[d] + b.count[d] \in Nat
<1>5. /\ r.start[d] = Ceiling(b.start[d], st[d])
      /\ r.start[d] + r.count[d] = Ceiling(b.start[d] + b.count[d], st[d])
      /\ Ceiling(b.start[d] + b.count[d], st[d]) \in Nat
  BY ReducedBounds
<1> HIDE DEF r
<1> QED
  BY <1>1, <1>2, <1>3, <1>4, <1>5

\* A cell of the reduced variable stands for a cell of the variable.
LEMMA ScaledInGrid ==
  ASSUME NEW sh \in Vectors, NEW st \in Steps,
         NEW c \in Grid(ReducedShape(sh, st))
  PROVE  c \in Vectors /\ Scaled(c, st) \in Grid(sh)
<1>1. c \in Vectors
  BY DEF Grid
<1>2. \A d \in Dims : c[d] * st[d] \in 0 .. SizeMax /\ c[d] * st[d] < sh[d]
  <2> SUFFICES ASSUME NEW d \in Dims
               PROVE  c[d] * st[d] \in 0 .. SizeMax /\ c[d] * st[d] < sh[d]
    OBVIOUS
  <2>1. c[d] \in Nat /\ st[d] \in Nat \ {0} /\ sh[d] \in 0 .. SizeMax
    BY <1>1, SizeAssumption DEF Vectors, Steps
  <2>2. c[d] < Ceiling(sh[d], st[d])
    BY DEF Grid, ReducedShape
  <2>3. Ceiling(sh[d], st[d]) <= c[d] <=> sh[d] <= c[d] * st[d]
    BY <2>1, CeilingBound
  <2>4. Ceiling(sh[d], st[d]) \in Nat /\ c[d] * st[d] \in Nat
    BY <2>1, CeilingBound
  <2> QED
    BY <2>1, <2>2, <2>3, <2>4, SizeAssumption
<1> QED
  BY <1>1, <1>2 DEF Scaled, Grid, Vectors

\* Decimation keeps the tiling: every cell of the reduced variable is in the
\* reduced block of one publisher.
THEOREM DecimationKeepsTiling ==
  ASSUME NEW sh \in Vectors, NEW st \in Steps, NEW own \in [Publishers -> Blocks],
         \A p \in Publishers : Inside(own[p], sh), Tile(own, sh)
  PROVE  Tile([p \in Publishers |-> ReducedBlock(sh, st, own[p])],
              ReducedShape(sh, st))
<1> DEFINE kept == [p \in Publishers |-> ReducedBlock(sh, st, own[p])]
<1> SUFFICES ASSUME NEW c \in Grid(ReducedShape(sh, st))
             PROVE  \E p \in Publishers :
                      InBlock(c, kept[p])
                      /\ \A q \in Publishers \ {p} : ~InBlock(c, kept[q])
  BY DEF Tile
<1>1. \A p \in Publishers : InBlock(c, kept[p]) <=> InBlock(Scaled(c, st), own[p])
  BY KeptCells, ScaledInGrid
<1>2. PICK p \in Publishers :
        InBlock(Scaled(c, st), own[p])
        /\ \A q \in Publishers \ {p} : ~InBlock(Scaled(c, st), own[q])
  BY ScaledInGrid DEF Tile
<1> QED
  BY <1>1, <1>2

-----------------------------------------------------------------------------
(* The inductive invariant                                                   *)

\* What the publishers know fits together: blocks exist in a variable only,
\* and every reduced block is that of the block and the stride in force.
Recorded ==
  /\ shape \in Vectors \cup {None}
  /\ stride \in Steps \cup {None}
  /\ local \in [Publishers -> Blocks \cup {None}]
  /\ reducedLocal \in [Publishers -> Blocks \cup {None}]
  /\ \A p \in Publishers : local[p] # None =>
       shape \in Vectors /\ local[p] \in Blocks /\ Inside(local[p], shape)
  /\ \A p \in Publishers : reducedLocal[p] # None =>
       /\ local[p] # None /\ stride # None
       /\ reducedLocal[p] = ReducedBlock(shape, stride, local[p])
  /\ stride # None => /\ shape \in Vectors /\ stride \in Steps
                      /\ reducedShape = ReducedShape(shape, stride)

\* Whatever was put lies inside the variable.
Stored == \A t \in DOMAIN infos : \A b \in DOMAIN infos[t] :
            shape \in Vectors /\ Inside(b, shape)

\* No vector and no block is the value that stands for nothing.
LEMMA SomethingIsNotNone ==
  /\ \A v \in Vectors : v # None
  /\ \A v \in Steps : v # None
  /\ \A b \in Blocks : b # None
<1>1. 1 \in Dims
  BY RankAssumption DEF Dims
<1>2. DOMAIN None = {}
  BY DEF None
<1> QED
  BY <1>1, <1>2 DEF Vectors, Steps, Blocks

LEMMA RecordedInit == Init => Recorded /\ Stored
BY DEF Init, Recorded, Stored, None

\* A definition that passes the validation lies inside the shape it passes.
LEMMA ValidFits ==
  ASSUME NEW sh \in Vectors, NEW start \in Vectors, NEW count \in Vectors,
         Valid(sh, start, count)
  PROVE  Block(start, count) \in Blocks /\ Inside(Block(start, count), sh)
BY SizeAssumption DEF Valid, FitsIn, Block, Blocks, Inside, Vectors

LEMMA DefineRecorded ==
  ASSUME Settled, Recorded, Stored, NEW p \in Publishers, Define(p)
  PROVE  Recorded' /\ Stored'
<1>1. PICK sh \in Shapes, start \in [Dims -> Offsets], count \in [Dims -> Offsets] :
        /\ shape \in {None, sh} /\ stride = None /\ infos = <<>>
        /\ Valid(sh, start, count)
        /\ shape' = IF shape = None THEN sh ELSE shape
        /\ local' = [local EXCEPT ![p] = Block(start, count)]
        /\ UNCHANGED <<stride, reducedShape, reducedLocal, infos, tx>>
  BY DEF Define
<1>2. shape' = sh /\ sh \in Vectors
  BY <1>1, ShapeAssumption
<1>3. start \in Vectors /\ count \in Vectors
  BY SizeAssumption DEF Vectors
<1>4. Block(start, count) \in Blocks /\ Inside(Block(start, count), sh)
  BY <1>1, <1>2, <1>3, ValidFits
<1>5. shape = None \/ shape = sh
  BY <1>1
<1>6. \A q \in Publishers : local[q] # None => shape = sh
  BY <1>5, SomethingIsNotNone DEF Recorded
<1>7. Recorded'
  BY <1>1, <1>2, <1>4, <1>6 DEF Recorded
<1>8. Stored'
  BY <1>1 DEF Stored
<1> QED
  BY <1>7, <1>8

\* A decimation that is not refused has a stride for each dimension.
LEMMA ReduceStride ==
  ASSUME Recorded, NEW st \in Strides \cup {None}, NewStride(st) # None,
         st # None => ValidStride(st)
  PROVE  NewStride(st) \in Steps
<1>1. CASE st = None
  BY <1>1 DEF NewStride, Recorded
<1>2. CASE st # None
  <2>1. st \in [Dims -> 0 .. SizeMax] /\ \A d \in Dims : st[d] > 0
    BY <1>2, StrideAssumption DEF ValidStride
  <2>2. st \in Steps
    BY <2>1, SizeAssumption DEF Steps
  <2> QED
    BY <1>2, <2>2 DEF NewStride
<1> QED
  BY <1>1, <1>2

LEMMA ReduceRecorded ==
  ASSUME Settled, Recorded, Stored, NEW p \in Publishers,
         NEW st \in Strides \cup {None}, Reduce(p, st)
  PROVE  Recorded' /\ Stored'
<1> DEFINE s == NewStride(st)
<1>1. /\ shape # None /\ s # None /\ (st # None => ValidStride(st))
      /\ stride \in {None, s} /\ stride' = s
      /\ reducedShape' = ReducedShape(shape, s)
      /\ reducedLocal' = IF local[p] = None THEN reducedLocal
                         ELSE Emplace(p, ReducedBlock(shape, s, local[p]))
      /\ UNCHANGED <<shape, local, infos, tx>>
  BY DEF Reduce
<1>2. s \in Steps
  BY <1>1, ReduceStride
<1> HIDE DEF s
<1>3. shape \in Vectors
  BY <1>1 DEF Recorded
<1>4. local[p] # None => ReducedBlock(shape, s, local[p]) \in Blocks
  BY <1>2, <1>3, ReducedInside DEF Recorded
<1>5. reducedLocal' \in [Publishers -> Blocks \cup {None}]
  BY <1>1, <1>4 DEF Recorded, Emplace
<1>6. \A q \in Publishers : reducedLocal'[q] # None =>
        local[q] # None /\ reducedLocal'[q] = ReducedBlock(shape, s, local[q])
  BY <1>1 DEF Recorded, Emplace
<1>7. Recorded'
  BY <1>1, <1>2, <1>3, <1>5, <1>6 DEF Recorded
<1>8. Stored'
  BY <1>1 DEF Stored
<1> QED
  BY <1>7, <1>8

\* What a publisher puts, its block or its reduced block, lies in the variable.
LEMMA PutInside ==
  ASSUME Recorded, NEW p \in Publishers,
         NEW b, b \in {local[p], reducedLocal[p]}, b # None
  PROVE  shape \in Vectors /\ Inside(b, shape)
BY ReducedInside, SomethingIsNotNone DEF Recorded

LEMMA PutRecorded ==
  ASSUME Recorded, Stored, NEW p \in Publishers, Put(p)
  PROVE  Recorded' /\ Stored'
<1> DEFINE b == IF IsReduced THEN reducedLocal[p] ELSE local[p]
<1>1. /\ b # None
      /\ infos' = With(infos, tx, With(Entry(tx), b, p))
      /\ UNCHANGED <<shape, local, stride, reducedShape, reducedLocal, tx>>
  BY DEF Put
<1>2. shape \in Vectors /\ Inside(b, shape)
  BY <1>1, PutInside
<1>3. \A t \in DOMAIN infos' : \A x \in DOMAIN infos'[t] :
        x = b \/ (t \in DOMAIN infos /\ x \in DOMAIN infos[t])
  BY <1>1 DEF Entry, With
<1>4. Stored'
  BY <1>1, <1>2, <1>3 DEF Stored
<1>5. Recorded'
  BY <1>1 DEF Recorded
<1> QED
  BY <1>4, <1>5

LEMMA GetRecorded ==
  ASSUME Recorded, Stored, NEW t, NEW n, Get(t, n)
  PROVE  Recorded' /\ Stored'
<1>1. /\ infos' = [u \in DOMAIN infos \cup LookedUp(t, n) |-> Entry(u)]
      /\ UNCHANGED <<shape, local, stride, reducedShape, reducedLocal, tx>>
  BY DEF Get
<1>2. \A u \in DOMAIN infos' : \A x \in DOMAIN infos'[u] :
        u \in DOMAIN infos /\ x \in DOMAIN infos[u]
  BY <1>1 DEF Entry
<1> QED
  BY <1>1, <1>2 DEF Recorded, Stored

LEMMA RecordedStep == Settled /\ Recorded /\ Stored /\ [Next]_vars
                      => Recorded' /\ Stored'
<1> SUFFICES ASSUME Settled, Recorded, Stored, [Next]_vars
             PROVE  Recorded' /\ Stored'
  OBVIOUS
<1>1. CASE \E p \in Publishers : Define(p) \/ Put(p)
  BY <1>1, DefineRecorded, PutRecorded
<1>2. CASE \E p \in Publishers, st \in Strides \cup {None} : Reduce(p, st)
  BY <1>2, ReduceRecorded
<1>3. CASE NextTransaction
  BY <1>3 DEF NextTransaction, Recorded, Stored
<1>4. CASE \E t \in Ids, n \in 1 .. MaxTx : Get(t, n)
  BY <1>4, GetRecorded
<1>5. CASE UNCHANGED vars
  BY <1>5 DEF vars, Recorded, Stored
<1> QED
  BY <1>1, <1>2, <1>3, <1>4, <1>5 DEF Next

LEMMA AlwaysRecorded == Settled => (Spec => [](Recorded /\ Stored))
<1> SUFFICES ASSUME Settled
             PROVE  Spec => [](Recorded /\ Stored)
  OBVIOUS
<1>1. Recorded /\ Stored /\ [Next]_vars => (Recorded /\ Stored)'
  BY RecordedStep
<1> QED
  BY <1>1, RecordedInit, PTL DEF Spec

-----------------------------------------------------------------------------
(* The theorems                                                              *)

\* Whatever sizes publishers pass, the blocks that are accepted, decimated
\* and put lie inside the variable: AcceptedBlocksFit, for settled publishers.
THEOREM BlocksStayInside == Settled => (Spec => []AcceptedBlocksFit)
<1>1. Recorded /\ Stored => AcceptedBlocksFit
  BY ReducedInside, SomethingIsNotNone DEF Recorded, Stored, AcceptedBlocksFit
<1> QED
  BY <1>1, AlwaysRecorded, PTL

\* Publishers that tile a variable tile the reduced one, each computing its
\* reduced block on its own: ReducedBlocksTile, for settled publishers.
THEOREM TilingSurvivesDecimation == Settled => (Spec => []ReducedBlocksTile)
<1>1. Recorded => ReducedBlocksTile
  <2> SUFFICES ASSUME Recorded, Defined, Decimated, Tile(local, shape)
               PROVE  Tile(reducedLocal, reducedShape)
    BY DEF ReducedBlocksTile
  <2>1. PICK p \in Publishers : reducedLocal[p] # None
    BY PublisherAssumption DEF Decimated
  <2>2. /\ stride \in Steps /\ shape \in Vectors
        /\ reducedShape = ReducedShape(shape, stride)
    BY <2>1 DEF Recorded
  <2>3. /\ local \in [Publishers -> Blocks]
        /\ \A q \in Publishers : Inside(local[q], shape)
    BY DEF Recorded, Defined
  <2>4. reducedLocal = [q \in Publishers |-> ReducedBlock(shape, stride, local[q])]
    BY DEF Recorded, Decimated
  <2> QED
    BY <2>2, <2>3, <2>4, DecimationKeepsTiling
<1> QED
  BY <1>1, AlwaysRecorded, PTL

-----------------------------------------------------------------------------
(* A get finds every element once                                            *)

\* There are finitely many vectors and blocks.
LEMMA FinitelyMany == /\ IsFiniteSet(Dims) /\ IsFiniteSet(Vectors)
                      /\ IsFiniteSet(Blocks)
<1>1. IsFiniteSet(Dims)
  BY RankAssumption, FS_Interval DEF Dims
<1>2. IsFiniteSet(Vectors)
  <2> DEFINE side == [d \in Dims |-> 0 .. SizeMax]
  <2>1. IsFiniteSet(0 .. SizeMax) /\ 0 .. SizeMax \subseteq Nat
    BY SizeAssumption, FS_Interval
  <2>2. IsFiniteSet(Box(side, Dims))
    <3>1. \A d \in Dims : side[d] \subseteq Nat /\ IsFiniteSet(side[d])
      BY <2>1
    <3> HIDE DEF side
    <3> QED
      BY <1>1, <3>1, BoxSize
  <2>3. Vectors = Box(side, Dims)
    BY <2>1 DEF Vectors, Box
  <2> QED
    BY <2>2, <2>3
<1>3. IsFiniteSet(Blocks)
  <2> DEFINE m == [p \in Vectors \X Vectors |-> [start |-> p[1], count |-> p[2]]]
  <2>1. \A b \in Blocks : m[<<b.start, b.count>>] = b
                          /\ <<b.start, b.count>> \in Vectors \X Vectors
    BY DEF Blocks
  <2>2. m \in [Vectors \X Vectors -> Blocks]
    BY DEF Blocks
  <2>3. m \in Surjection(Vectors \X Vectors, Blocks)
    BY <2>1, <2>2 DEF Surjection
  <2> QED
    BY <1>2, <2>3, FS_Product, FS_Surjection
<1> QED
  BY <1>1, <1>2, <1>3

\* What a get of a selection takes of one block are the cells that the
\* selection and the block share.
LEMMA SizeIsCells ==
  ASSUME NEW sh \in Vectors, NEW sel \in Blocks, NEW b \in Blocks, Inside(b, sh)
  PROVE  SizeToGet(sel, b) =
           Cardinality({c \in Cells(sh, sel) : InBlock(c, b)})
<1> DEFINE shared(d) ==
             {i \in Int : /\ sel.start[d] <= i /\ i < sel.start[d] + sel.count[d]
                          /\ b.start[d] <= i /\ i < b.start[d] + b.count[d]}
           side == [d \in Dims |-> shared(d)]
<1>1. \A d \in Dims : /\ sel.start[d] \in Nat /\ sel.count[d] \in Nat
                      /\ b.start[d] \in Nat /\ b.count[d] \in Nat
                      /\ sh[d] \in Nat /\ sh[d] <= SizeMax
                      /\ b.start[d] + b.count[d] <= sh[d]
  BY SizeAssumption DEF Vectors, Blocks, Inside
<1>2. \A d \in Dims : side[d] \subseteq 0 .. SizeMax
  BY <1>1, SizeAssumption
<1>3. \A d \in Dims : side[d] \subseteq Nat /\ IsFiniteSet(side[d])
  <2>1. IsFiniteSet(0 .. SizeMax) /\ 0 .. SizeMax \subseteq Nat
    BY SizeAssumption, FS_Interval
  <2> HIDE DEF side
  <2> QED
    BY <1>2, <2>1, FS_Subset
<1>4. \A d \in Dims : SizeInDim(sel.start[d], sel.count[d],
                                b.start[d], b.count[d]) = Cardinality(side[d])
  <2> SUFFICES ASSUME NEW d \in Dims
               PROVE  SizeInDim(sel.start[d], sel.count[d],
                                b.start[d], b.count[d]) = Cardinality(shared(d))
    OBVIOUS
  <2> DEFINE a == sel.start[d]
             ca == sel.count[d]
             e == b.start[d]
             ce == b.count[d]
  <2>1. a \in Nat /\ ca \in Nat /\ e \in Nat /\ ce \in Nat
    BY <1>1
  <2> HIDE DEF a, ca, e, ce
  <2>2. SizeInDim(a, ca, e, ce) =
          Cardinality({i \in Int : /\ a <= i /\ i < a + ca
                                  /\ e <= i /\ i < e + ce})
    BY <2>1, SizeIsIntersection
  <2> QED
    BY <2>2 DEF a, ca, e, ce
<1>5. SizeToGet(sel, b) = Product([d \in Dims |-> Cardinality(side[d])])
  <2> HIDE DEF side
  <2>1. [d \in Dims |-> SizeInDim(sel.start[d], sel.count[d],
                                  b.start[d], b.count[d])]
        = [d \in Dims |-> Cardinality(side[d])]
    BY <1>4
  <2> QED
    BY <2>1 DEF SizeToGet
<1>6. Box(side, Dims) = {c \in Cells(sh, sel) : InBlock(c, b)}
  <2>1. ASSUME NEW c \in Box(side, Dims)
        PROVE  c \in Cells(sh, sel) /\ InBlock(c, b)
    <3>1. c \in [Dims -> Nat] /\ \A d \in Dims : c[d] \in side[d]
      BY DEF Box
    <3>2. \A d \in Dims :
            /\ sel.start[d] <= c[d] /\ c[d] < sel.start[d] + sel.count[d]
            /\ b.start[d] <= c[d] /\ c[d] < b.start[d] + b.count[d]
      BY <3>1
    <3>3. \A d \in Dims : c[d] < sh[d] /\ c[d] \in 0 .. SizeMax
      BY <1>1, <3>1, <3>2, SizeAssumption
    <3>4. c \in Vectors
      BY <3>1, <3>3 DEF Vectors
    <3> QED
      BY <3>2, <3>3, <3>4 DEF Cells, Grid, InBlock
  <2>2. ASSUME NEW c \in Cells(sh, sel), InBlock(c, b)
        PROVE  c \in Box(side, Dims)
    <3>1. c \in [Dims -> Nat]
      BY SizeAssumption DEF Cells, Grid, Vectors
    <3>2. \A d \in Dims : c[d] \in side[d]
      BY <2>2, <3>1 DEF Cells, InBlock
    <3> QED
      BY <3>1, <3>2 DEF Box
  <2> QED
    BY <2>1, <2>2
<1>7. Product([d \in Dims |-> Cardinality(side[d])]) = Cardinality(Box(side, Dims))
  <2> HIDE DEF side
  <2> QED
    BY <1>3, FinitelyMany, BoxSize
<1> QED
  BY <1>5, <1>6, <1>7

\* The cells of a selection that lie in one of the blocks.
Found(sh, sel, bs) == {c \in Cells(sh, sel) : \E b \in bs : InBlock(c, b)}

\* Over blocks that share no cell, the sizes to get sum up to the cells found.
LEMMA SumIsFound ==
  ASSUME NEW sh \in Vectors, NEW sel \in Blocks, NEW B \in SUBSET Blocks,
         \A b \in B : Inside(b, sh),
         \A c \in Grid(sh) : \A a, b \in B : InBlock(c, a) /\ InBlock(c, b) => a = b
  PROVE  FoldFunction(+, 0, [b \in B |-> SizeToGet(sel, b)])
           = Cardinality(Found(sh, sel, B))
<1> DEFINE f == [b \in B |-> SizeToGet(sel, b)]
           v == [s \in SUBSET B |-> Cardinality(Found(sh, sel, s))]
<1>1. IsFiniteSet(B) /\ IsFiniteSet(Cells(sh, sel))
  BY FinitelyMany, FS_Subset DEF Cells, Grid
<1>2. Found(sh, sel, {}) = {}
  BY DEF Found
<1>3. ASSUME NEW s \in SUBSET B, NEW b \in s
      PROVE  Cardinality(Found(sh, sel, s))
               = SizeToGet(sel, b) + Cardinality(Found(sh, sel, s \ {b}))
  <2> DEFINE In == {c \in Cells(sh, sel) : InBlock(c, b)}
             Rest == Found(sh, sel, s \ {b})
  <2>1. Found(sh, sel, s) = In \cup Rest
    BY DEF Found
  <2>2. In \cap Rest = {}
    BY DEF Found, Cells
  <2>3. IsFiniteSet(In) /\ IsFiniteSet(Rest)
    BY <1>1, FS_Subset, In \subseteq Cells(sh, sel), Rest \subseteq Cells(sh, sel)
    DEF Found
  <2>4. SizeToGet(sel, b) = Cardinality(In)
    BY SizeIsCells
  <2>5. Cardinality(In) \in Nat /\ Cardinality(Rest) \in Nat
    BY <2>3, FS_CardinalityType
  <2> HIDE DEF In, Rest
  <2>6. Cardinality(In \cup Rest) = Cardinality(In) + Cardinality(Rest) - 0
    BY <2>2, <2>3, FS_Union, FS_EmptySet
  <2> QED
    BY <2>1, <2>4, <2>5, <2>6 DEF Rest
<1>4. \A s \in SUBSET B : s # {} => PickOne(s) \in s
  BY DEF PickOne
<1>5. \A s \in SUBSET B : v[s] = IF s = {} THEN 0
                                 ELSE f[PickOne(s)] + v[s \ {PickOne(s)}]
  BY <1>2, <1>3, <1>4, FS_EmptySet
<1>6. Adds(v, f)
  <2> HIDE DEF f
  <2>1. DOMAIN f = B /\ v = [s \in SUBSET B |-> v[s]]
    BY DEF f
  <2> HIDE DEF v
  <2> QED
    BY <1>5, <2>1 DEF Adds
<1>7. FoldFunction(+, 0, f) = v[B]
  <2>1. DOMAIN f = B
    OBVIOUS
  <2> HIDE DEF f, v
  <2> QED
    BY <1>1, <1>6, <2>1, SumIs
<1> QED
  BY <1>7

\* A get from publishers whose blocks tile a grid finds each cell of the
\* selection that lies in the grid once.
THEOREM TilesAreFoundOnce ==
  ASSUME NEW sh \in Vectors, NEW sel \in Blocks,
         NEW own \in [Publishers -> Blocks],
         \A p \in Publishers : Inside(own[p], sh), Tile(own, sh)
  PROVE  FoldFunction(+, 0, [b \in Range(own) |-> SizeToGet(sel, b)])
           = Cardinality(Cells(sh, sel))
<1>1. Range(own) \in SUBSET Blocks /\ \A b \in Range(own) : Inside(b, sh)
  BY DEF Range
<1>2. ASSUME NEW c \in Grid(sh), NEW a \in Range(own), NEW b \in Range(own),
             InBlock(c, a), InBlock(c, b)
      PROVE  a = b
  <2>1. PICK p \in Publishers, q \in Publishers : a = own[p] /\ b = own[q]
    BY DEF Range
  <2>2. p = q
    BY <1>2, <2>1 DEF Tile
  <2> QED
    BY <2>1, <2>2
<1>3. Found(sh, sel, Range(own)) = Cells(sh, sel)
  <2>1. \A c \in Grid(sh) : \E b \in Range(own) : InBlock(c, b)
    BY DEF Tile, Range
  <2> QED
    BY <2>1 DEF Found, Cells
<1> QED
  BY <1>1, <1>2, <1>3, SumIsFound

\* When the publishers' blocks, or their reduced blocks, are what was put in a
\* transaction, a get finds every element of a selection once:
\* EveryElementOnce, for settled publishers.
THEOREM GetsFindEveryElement == Settled => (Spec => []EveryElementOnce)
<1>1. Recorded => EveryElementOnce
  <2> SUFFICES ASSUME Recorded, NEW t \in DOMAIN infos, Defined,
                      Tile(local, shape), NEW sel \in Selections
               PROVE  /\ DOMAIN infos[t] = Range(local) =>
                           TotalToGet(t, sel) = Cardinality(Cells(shape, sel))
                      /\ Decimated /\ DOMAIN infos[t] = Range(reducedLocal) =>
                           TotalToGet(t, sel) = Cardinality(Cells(reducedShape, sel))
    BY DEF EveryElementOnce
  <2>1. sel \in Blocks
    <3>1. PICK s \in [Dims -> {o \in Offsets : Reasonable(o)}],
                 c \in [Dims -> {o \in Offsets : Reasonable(o)}] :
            sel = Block(s, c)
      BY DEF Selections
    <3>2. s \in Vectors /\ c \in Vectors
      BY SizeAssumption DEF Vectors
    <3> QED
      BY <3>1, <3>2 DEF Block, Blocks
  <2>2. /\ local \in [Publishers -> Blocks] /\ shape \in Vectors
        /\ \A q \in Publishers : Inside(local[q], shape)
    BY PublisherAssumption DEF Recorded, Defined
  <2>3. ASSUME DOMAIN infos[t] = Range(local)
        PROVE  TotalToGet(t, sel) = Cardinality(Cells(shape, sel))
    BY <2>1, <2>2, <2>3, TilesAreFoundOnce DEF TotalToGet
  <2>4. ASSUME Decimated, DOMAIN infos[t] = Range(reducedLocal)
        PROVE  TotalToGet(t, sel) = Cardinality(Cells(reducedShape, sel))
    <3>1. /\ stride \in Steps /\ reducedShape = ReducedShape(shape, stride)
          /\ reducedLocal = [q \in Publishers |->
                               ReducedBlock(shape, stride, local[q])]
      BY <2>4, PublisherAssumption DEF Recorded, Decimated
    <3>2. Tile(reducedLocal, reducedShape)
      BY <2>2, <3>1, DecimationKeepsTiling
    <3>3. /\ reducedShape \in Vectors /\ reducedLocal \in [Publishers -> Blocks]
          /\ \A q \in Publishers : Inside(reducedLocal[q], reducedShape)
      BY <2>2, <3>1, PublisherAssumption, ReducedInside
    <3> QED
      BY <2>1, <2>4, <3>2, <3>3, TilesAreFoundOnce DEF TotalToGet
  <2> QED
    BY <2>3, <2>4
<1> QED
  BY <1>1, AlwaysRecorded, PTL

-----------------------------------------------------------------------------
(* Transactions, for any publishers, settled or not, and types               *)

\* The metadata has a last transaction, without any induction on numbers:
\* each step that adds one compares it with the last one before.
HasLast == DOMAIN infos # {} =>
             \E t \in DOMAIN infos : \A u \in DOMAIN infos : u <= t

Numbered == tx \in 0 .. MaxTx /\ DOMAIN infos \subseteq 0 .. MaxTx /\ HasLast

LEMMA LastIsLast ==
  ASSUME DOMAIN infos \subseteq 0 .. MaxTx, HasLast
  PROVE  /\ LastTx \in 0 .. MaxTx
         /\ DOMAIN infos = {} => LastTx = 0
         /\ DOMAIN infos # {} => LastTx \in DOMAIN infos
         /\ \A u \in DOMAIN infos : u <= LastTx
         /\ \A t \in DOMAIN infos : (\A u \in DOMAIN infos : u <= t) => t = LastTx
<1>1. CASE DOMAIN infos = {}
  BY <1>1, IdAssumption DEF LastTx
<1>2. CASE DOMAIN infos # {}
  <2>1. LastTx \in DOMAIN infos /\ \A u \in DOMAIN infos : u <= LastTx
    BY <1>2 DEF LastTx, HasLast
  <2>2. \A t \in DOMAIN infos : (\A u \in DOMAIN infos : u <= t) => t = LastTx
    BY <2>1, IdAssumption
  <2> QED
    BY <1>2, <2>1, <2>2
<1> QED
  BY <1>1, <1>2

\* A look-up asks for no transaction after the last one.
LEMMA LookUpsAreKnown ==
  ASSUME NEW t \in Ids, NEW n \in 1 .. MaxTx,
         DOMAIN infos \subseteq 0 .. MaxTx, HasLast
  PROVE  \A u \in LookedUp(t, n) : u \in 0 .. MaxTx /\ u <= LastTx
<1>1. \A i \in 0 .. n - 1 : Plus(t, i) \in Nat
  BY IdAssumption DEF Plus, Ids
<1>2. \A u \in LookedUp(t, n) : u \in Nat /\ u <= LastTx
  <2> SUFFICES ASSUME NEW i \in 0 .. n - 1,
                      \A k \in 0 .. i : Known(Plus(t, k))
               PROVE  Plus(t, i) \in Nat /\ Plus(t, i) <= LastTx
    BY DEF LookedUp
  <2> QED
    BY <1>1 DEF Known
<1> QED
  BY <1>2, LastIsLast, IdAssumption

LEMMA NumberedInit == Init => Numbered
BY IdAssumption DEF Init, Numbered, HasLast

LEMMA PutNumbered ==
  ASSUME Numbered, NEW p \in Publishers, Put(p)
  PROVE  Numbered'
<1>1. tx \in 0 .. MaxTx /\ tx' = tx
  BY DEF Put, Numbered
<1>2. DOMAIN infos' = DOMAIN infos \cup {tx}
  BY DEF Put, With
<1>3. HasLast'
  <2>1. CASE DOMAIN infos = {}
    BY <1>1, <1>2, <2>1, IdAssumption DEF HasLast
  <2>2. CASE DOMAIN infos # {}
    <3>1. PICK t \in DOMAIN infos : \A u \in DOMAIN infos : u <= t
      BY <2>2 DEF Numbered, HasLast
    <3>2. CASE tx <= t
      BY <1>2, <3>1, <3>2 DEF HasLast
    <3>3. CASE t <= tx
      <4>1. \A u \in DOMAIN infos' : u <= tx
        BY <1>1, <1>2, <3>1, <3>3, IdAssumption DEF Numbered
      <4> QED
        BY <4>1, <1>2 DEF HasLast
    <3> QED
      BY <1>1, <3>1, <3>2, <3>3, IdAssumption DEF Numbered
  <2> QED
    BY <2>1, <2>2
<1> QED
  BY <1>1, <1>2, <1>3 DEF Numbered

\* A get leaves the last transaction where it is.
LEMMA GetKeepsLast ==
  ASSUME Numbered, NEW t \in Ids, NEW n \in 1 .. MaxTx, Get(t, n)
  PROVE  Numbered' /\ LastTx' = LastTx
<1>1. DOMAIN infos' = DOMAIN infos \cup LookedUp(t, n)
  BY DEF Get
<1>2. DOMAIN infos' \subseteq 0 .. MaxTx
      /\ \A u \in DOMAIN infos' : u <= LastTx
  BY <1>1, LookUpsAreKnown, LastIsLast DEF Numbered
<1>3. DOMAIN infos' # {} => LastTx \in DOMAIN infos'
  <2>1. CASE DOMAIN infos = {}
    BY <2>1, <1>2, LastIsLast DEF Numbered
  <2>2. CASE DOMAIN infos # {}
    BY <2>2, <1>1, LastIsLast DEF Numbered
  <2> QED
    BY <2>1, <2>2
<1>4. HasLast'
  BY <1>2, <1>3 DEF HasLast
<1>5. LastTx' = LastTx
  <2>1. CASE DOMAIN infos' = {}
    BY <2>1, <1>1, LastIsLast DEF Numbered, LastTx
  <2>2. CASE DOMAIN infos' # {}
    <3>1. LastTx' \in DOMAIN infos' /\ \A u \in DOMAIN infos' : u <= LastTx'
      BY <2>2, <1>4 DEF HasLast, LastTx
    <3> QED
      BY <3>1, <1>2, <1>3, LastIsLast DEF Numbered
  <2> QED
    BY <2>1, <2>2
<1> QED
  BY <1>2, <1>4, <1>5 DEF Get, Numbered

LEMMA NumberedStep == Numbered /\ [Next]_vars => Numbered'
<1> SUFFICES ASSUME Numbered, [Next]_vars PROVE Numbered'
  OBVIOUS
<1>1. ASSUME UNCHANGED infos, tx' \in 0 .. MaxTx PROVE Numbered'
  BY <1>1 DEF Numbered, HasLast
<1>2. CASE \E p \in Publishers : Define(p) \/ Put(p)
  BY <1>2, <1>1, PutNumbered DEF Define, Numbered
<1>3. CASE \E p \in Publishers, st \in Strides \cup {None} : Reduce(p, st)
  BY <1>3, <1>1 DEF Reduce, Numbered
<1>4. CASE NextTransaction
  BY <1>4, <1>1, IdAssumption DEF NextTransaction, Numbered
<1>5. CASE \E t \in Ids, n \in 1 .. MaxTx : Get(t, n)
  BY <1>5, GetKeepsLast
<1>6. CASE UNCHANGED vars
  BY <1>6, <1>1 DEF vars, Numbered
<1> QED
  BY <1>2, <1>3, <1>4, <1>5, <1>6 DEF Next

\* Looking transactions up, even with a wrapped sum, never moves the last
\* one on, so that it is always one that was put: GetsLeaveLastTransaction.
THEOREM LookUpsLeaveLastTransaction == Spec => GetsLeaveLastTransaction
<1> DEFINE Quiet ==
      /\ tx' = tx /\ local' = local /\ stride' = stride
      /\ \A t \in DOMAIN infos' : infos'[t] # <<>> => t \in DOMAIN infos
                                                     /\ infos[t] = infos'[t]
<1>1. Numbered /\ [Next]_vars => [Quiet => LastTx' = LastTx]_vars
  <2> SUFFICES ASSUME Numbered, Next, Quiet PROVE LastTx' = LastTx
    OBVIOUS
  <2>1. ASSUME UNCHANGED infos PROVE LastTx' = LastTx
    BY <2>1 DEF LastTx
  <2>2. ASSUME NEW p \in Publishers, Put(p) PROVE LastTx' = LastTx
    <3> DEFINE b == IF IsReduced THEN reducedLocal[p] ELSE local[p]
    <3>1. infos' = With(infos, tx, With(Entry(tx), b, p))
      BY <2>2 DEF Put
    <3>2. b \in DOMAIN infos'[tx] /\ tx \in DOMAIN infos'
      BY <3>1 DEF With
    <3>3. infos'[tx] # <<>>
      BY <3>2
    <3>4. tx \in DOMAIN infos
      BY <3>2, <3>3
    <3>5. DOMAIN infos' = DOMAIN infos
      BY <3>1, <3>4 DEF With
    <3> QED
      BY <3>5 DEF LastTx
  <2>3. CASE \E p \in Publishers : Define(p) \/ Put(p)
    BY <2>3, <2>1, <2>2 DEF Define
  <2>4. CASE \E p \in Publishers, st \in Strides \cup {None} : Reduce(p, st)
    BY <2>4, <2>1 DEF Reduce
  <2>5. CASE NextTransaction
    BY <2>5, <2>1 DEF NextTransaction
  <2>6. CASE \E t \in Ids, n \in 1 .. MaxTx : Get(t, n)
    BY <2>6, GetKeepsLast
  <2> QED
    BY <2>3, <2>4, <2>5, <2>6 DEF Next
<1> QED
  BY <1>1, NumberedInit, NumberedStep, PTL DEF Spec, GetsLeaveLastTransaction

\* Types, for settled publishers: no count of a reduced block wraps.
LEMMA EntriesStep ==
  ASSUME Recorded, Numbered, [Next]_vars, TypeOK
  PROVE  /\ shape' \in Shapes \cup {None}
         /\ stride' \in Strides \cup {None}
         /\ \A t \in DOMAIN infos' : /\ DOMAIN infos'[t] \subseteq Blocks
                                     /\ Range(infos'[t]) \subseteq Publishers
<1> DEFINE Good(f) == \A t \in DOMAIN f : /\ DOMAIN f[t] \subseteq Blocks
                                         /\ Range(f[t]) \subseteq Publishers
<1>1. Good(infos) /\ shape \in Shapes \cup {None} /\ stride \in Strides \cup {None}
  BY DEF TypeOK
<1>2. ASSUME NEW p \in Publishers, Put(p) PROVE Good(infos')
  <2> DEFINE b == IF IsReduced THEN reducedLocal[p] ELSE local[p]
  <2>1. b \in Blocks /\ infos' = With(infos, tx, With(Entry(tx), b, p))
    BY <1>2 DEF Put, Recorded
  <2> HIDE DEF b
  <2>2. DOMAIN Entry(tx) \subseteq Blocks /\ Range(Entry(tx)) \subseteq Publishers
    BY <1>1 DEF Entry, Range
  <2>3. /\ DOMAIN With(Entry(tx), b, p) \subseteq Blocks
        /\ Range(With(Entry(tx), b, p)) \subseteq Publishers
    BY <2>1, <2>2 DEF With, Range
  <2> QED
    BY <1>1, <2>1, <2>3 DEF With
<1>3. ASSUME NEW t, NEW n, Get(t, n) PROVE Good(infos')
  <2>1. \A u \in DOMAIN infos' : infos'[u] = <<>>
                              \/ (u \in DOMAIN infos /\ infos'[u] = infos[u])
    BY <1>3 DEF Get, Entry
  <2>2. DOMAIN <<>> \subseteq Blocks /\ Range(<<>>) \subseteq Publishers
    BY DEF Range
  <2> QED
    BY <1>1, <2>1, <2>2
<1>4. CASE \E p \in Publishers : Define(p) \/ Put(p)
  BY <1>1, <1>2, <1>4 DEF Define, Put
<1>5. CASE \E p \in Publishers, st \in Strides \cup {None} : Reduce(p, st)
  BY <1>1, <1>5 DEF Reduce, NewStride
<1>6. CASE NextTransaction
  BY <1>1, <1>6 DEF NextTransaction
<1>7. CASE \E t \in Ids, n \in 1 .. MaxTx : Get(t, n)
  BY <1>1, <1>3, <1>7 DEF Get
<1>8. CASE UNCHANGED vars
  BY <1>1, <1>8 DEF vars
<1> QED
  BY <1>4, <1>5, <1>6, <1>7, <1>8 DEF Next

\* Every variable keeps its type, for settled publishers: TypeOK.
THEOREM VariableTypes == Settled => (Spec => []TypeOK)
<1> SUFFICES ASSUME Settled PROVE Spec => []TypeOK
  OBVIOUS
<1> DEFINE Inv == Recorded /\ Stored /\ Numbered /\ TypeOK
<1>1. Init => Inv
  <2>1. Init => TypeOK
    BY IdAssumption DEF Init, TypeOK, None
  <2> QED
    BY <2>1, RecordedInit, NumberedInit
<1>2. Inv /\ [Next]_vars => Inv'
  <2> SUFFICES ASSUME Inv, [Next]_vars PROVE Inv'
    OBVIOUS
  <2>1. Recorded' /\ Stored' /\ Numbered'
    BY RecordedStep, NumberedStep
  <2>2. (reducedShape \in Vectors \cup {None})'
    <3>1. CASE \E p \in Publishers, st \in Strides \cup {None} : Reduce(p, st)
      <4>1. PICK p \in Publishers, st \in Strides \cup {None} : Reduce(p, st)
        BY <3>1
      <4>2. shape \in Vectors
        BY <4>1 DEF Reduce, Recorded
      <4>3. /\ NewStride(st) \in Steps
            /\ reducedShape' = ReducedShape(shape, NewStride(st))
        BY <4>1, ReduceStride DEF Reduce
      <4> DEFINE nothing == [start |-> [d \in Dims |-> 0], count |-> [d \in Dims |-> 0]]
      <4>4. nothing \in Blocks /\ Inside(nothing, shape)
        BY <4>2, SizeAssumption DEF Blocks, Vectors, Inside
      <4> QED
        BY <4>2, <4>3, <4>4, ReducedInside
    <3>2. CASE ~\E p \in Publishers, st \in Strides \cup {None} : Reduce(p, st)
      <4>1. reducedShape' = reducedShape
        BY <3>2 DEF Next, vars, Define, Put, NextTransaction, Get
      <4> QED
        BY <4>1 DEF TypeOK
    <3> QED
      BY <3>1, <3>2
  <2>3. TypeOK'
    BY <2>1, <2>2, EntriesStep DEF TypeOK, Recorded, Numbered
  <2> QED
    BY <2>1, <2>3
<1> QED
  BY <1>1, <1>2, PTL DEF Spec
=============================================================================
