---------------------------- MODULE VariableBlocks ----------------------------
(* The blocks of one Variable: what its publishers define and put, how a     *)
(* decimation shrinks it, what Metadata keeps of it and what a subscriber's  *)
(* get finds there (Stream::define_variable, Variable, Metadata,             *)
(* DecimationReductionMethod, Transport::check_selection_and_get_blocks).    *)
(*                                                                           *)
(* A vector of sizes is a function of the dimensions, a block a pair of such *)
(* vectors.  The element size is a factor of every size and left out; the    *)
(* transactions and their number come from the engine.  size_t is the        *)
(* interval 0..SizeMax and a transaction id 0..IdMax, where sums wrap.       *)
EXTENDS Integers, FiniteSets, Functions

CONSTANTS
  Publishers,     \* the actors that define, reduce and put the variable
  Rank,           \* its number of dimensions
  Shapes,         \* the shapes that publishers pass to define_variable
  Offsets,        \* the starts and counts that publishers and selections use
  Strides,        \* the strides that decimations are given, well-formed or not
  SizeMax,        \* the largest size_t
  IdMax,          \* the largest unsigned int, for transaction ids
  MaxTx,          \* transactions of a behaviour
  Settled         \* publishers agree on one shape and one stride, and define
                  \* their blocks before anything is decimated or put

Dims == 1 .. Rank
Vectors == [Dims -> 0 .. SizeMax]

ASSUME PublisherAssumption == Publishers # {}
ASSUME RankAssumption == Rank \in Nat \ {0}
ASSUME SizeAssumption == SizeMax \in Nat /\ Offsets \subseteq 0 .. SizeMax
ASSUME IdAssumption == IdMax \in Nat /\ MaxTx \in 1 .. IdMax
ASSUME ShapeAssumption == Shapes \subseteq Vectors
ASSUME StrideAssumption ==
  \A st \in Strides : st \in [DOMAIN st -> 0 .. SizeMax]
ASSUME ModeAssumption == Settled \in BOOLEAN

VARIABLES
  shape,          \* the Variable's shape_, None until it is defined
  local,          \* publisher -> its block, local_start_and_count_
  stride,         \* the stride of its decimation, None if it has none
  reducedShape,   \* reduced_shape_ of the decimation
  reducedLocal,   \* publisher -> its reduced block
  infos,          \* transaction -> block -> the publisher that put it
  tx              \* the transaction in progress, counted by the engine

vars == <<shape, local, stride, reducedShape, reducedLocal, infos, tx>>

None == <<>>      \* nothing recorded; a vector or block is never empty
Block(start, count) == [start |-> start, count |-> count]
Blocks == [start : Vectors, count : Vectors]

Init == /\ shape = None /\ stride = None /\ reducedShape = None
        /\ local = [p \in Publishers |-> None]
        /\ reducedLocal = [p \in Publishers |-> None]
        /\ infos = <<>> /\ tx = 0
-----------------------------------------------------------------------------
(* A size that is positive and cannot be a negative number that wrapped.     *)
Reasonable(n) == n <= SizeMax \div 2

(* A bug of the kind these checks are for: the start is forgotten.           *)
IgnoresStart(start, count, size) == count <= size

(* start + count <= shape, written so that the sum cannot wrap.              *)
FitsIn(start, count, size) == start <= size /\ count <= size - start

Valid(sh, start, count) ==
  \A d \in Dims : /\ sh[d] > 0 /\ Reasonable(sh[d])
                  /\ Reasonable(start[d])
                  /\ count[d] > 0 /\ Reasonable(count[d])
                  /\ FitsIn(start[d], count[d], sh[d])

(* Stream::define_variable.  An invalid definition throws.  A second one     *)
(* keeps the shape of the first, whatever shape it passes, and replaces the  *)
(* block of the publisher.                                                   *)
Define(p) ==
  \E sh \in Shapes, start \in [Dims -> Offsets], count \in [Dims -> Offsets] :
    /\ Settled => /\ shape \in {None, sh}
                  /\ stride = None /\ infos = <<>>
    /\ Valid(sh, start, count)
    /\ shape' = IF shape = None THEN sh ELSE shape
    /\ local' = [local EXCEPT ![p] = Block(start, count)]
    /\ UNCHANGED <<stride, reducedShape, reducedLocal, infos, tx>>
-----------------------------------------------------------------------------
(* A bug: one element too many at the boundary of two blocks.                *)
OneMore(n, s) == n \div s + 1

(* The reduced size of the first n elements, rounded up as std::ceil does.   *)
Ceiling(n, s) == (n + s - 1) \div s

MinOf(a, b) == IF a <= b THEN a ELSE b
ReducedShape(sh, st) == [d \in Dims |-> Ceiling(sh[d], st[d])]
ReducedBlock(sh, st, b) ==
  LET first(d) == Ceiling(b.start[d], st[d])
      next(d) == MinOf(sh[d], Ceiling(b.start[d] + b.count[d], st[d]))
  IN Block([d \in Dims |-> first(d)], [d \in Dims |-> next(d) - first(d)])

(* try_emplace: the first reduced block of a publisher stays.                *)
Emplace(p, b) == IF reducedLocal[p] = None
                   THEN [reducedLocal EXCEPT ![p] = b] ELSE reducedLocal

(* What parse_stride accepts.                                                *)
ValidStride(st) == DOMAIN st = Dims /\ \A d \in Dims : st[d] > 0

(* parameterize_for_variable: parameters without a stride keep the old one.  *)
NewStride(st) == IF st = None THEN stride ELSE st

(* Variable::set_reduction_operation by publisher p, with stride st or, if   *)
(* st is None, without one.  An invalid stride throws.  The first call has a *)
(* stride: without one, reduce_variable reads beyond an empty vector.  Of a  *)
(* publisher without a block it throws when stride and shape have changed.   *)
Reduce(p, st) ==
  LET s == NewStride(st)
  IN /\ shape # None
     /\ s # None /\ (st # None => ValidStride(st))
     /\ Settled => stride \in {None, s}
     /\ stride' = s
     /\ reducedShape' = ReducedShape(shape, s)
     /\ reducedLocal' = IF local[p] = None THEN reducedLocal
                        ELSE Emplace(p, ReducedBlock(shape, s, local[p]))
     /\ UNCHANGED <<shape, local, infos, tx>>
-----------------------------------------------------------------------------
(* The engine starts the next transaction.                                   *)
NextTransaction == /\ tx < MaxTx
                   /\ tx' = tx + 1
                   /\ UNCHANGED <<shape, local, stride, reducedShape,
                                  reducedLocal, infos>>

Entry(t) == IF t \in DOMAIN infos THEN infos[t] ELSE <<>>

(* A map with the value v at key k.                                          *)
With(f, k, v) == [x \in DOMAIN f \cup {k} |-> IF x = k THEN v ELSE f[x]]

(* is_reduced_with_, set by the first reduction that does not throw.         *)
IsReduced == \E p \in Publishers : reducedLocal[p] # None

(* Variable::add_transaction_metadata: a publisher of a decimated variable   *)
(* puts its reduced block, and fails in at() when it has none.               *)
Put(p) ==
  LET b == IF IsReduced THEN reducedLocal[p] ELSE local[p]
  IN /\ tx > 0
     /\ local[p] # None /\ b # None
     /\ infos' = With(infos, tx, With(Entry(tx), b, p))
     /\ UNCHANGED <<shape, local, stride, reducedShape, reducedLocal, tx>>

(* Metadata::get_current_transaction: the last one, 0 if there is none.      *)
LastTx == IF DOMAIN infos = {} THEN 0
          ELSE CHOOSE t \in DOMAIN infos : \A u \in DOMAIN infos : u <= t

(* The unsigned sum of two transaction ids or numbers.                       *)
Plus(a, b) == (a + b) % (IdMax + 1)

(* A bug: it relies on the check of its caller, which a wrapped sum passes.  *)
TrustsCaller(t) == TRUE

(* get_sizes_to_get_per_block refuses a transaction after the last one.      *)
Known(t) == t <= LastTx

(* The transactions that a get of n transactions from t on looks up, until   *)
(* the first that is refused.                                                *)
LookedUp(t, n) == {Plus(t, i) : i \in {j \in 0 .. n - 1 :
                                         \A k \in 0 .. j : Known(Plus(t, k))}}

(* Transport::check_selection_and_get_blocks_to_get for transactions t to    *)
(* t+n-1; looking a transaction up creates an empty entry for it.            *)
Get(t, n) ==
  /\ Plus(t, n - 1) <= LastTx
  /\ infos' = [u \in DOMAIN infos \cup LookedUp(t, n) |-> Entry(u)]
  /\ UNCHANGED <<shape, local, stride, reducedShape, reducedLocal, tx>>

Ids == 0 .. MaxTx \cup {IdMax}
-----------------------------------------------------------------------------
(* A bug: the case of a selection that begins inside the block is forgotten. *)
NeverBegins(start, count, bstart, bcount) ==
  IF start <= bstart /\ bstart - start <= count
    THEN MinOf(bcount, count - (bstart - start))
  ELSE 0

(* How many elements of [start, start+count) lie in the block's interval     *)
(* [bstart, bstart+bcount): the two cases of get_sizes_to_get_per_block.     *)
SizeInDim(start, count, bstart, bcount) ==
  IF start <= bstart /\ bstart - start <= count
    THEN MinOf(bcount, count - (bstart - start))
  ELSE IF start > bstart /\ start - bstart <= bcount
    THEN MinOf(count, bcount - (start - bstart))
  ELSE 0

Product(f) == FoldFunction(LAMBDA a, b : a * b, 1, f)
SizeToGet(sel, b) ==
  Product([d \in Dims |-> SizeInDim(sel.start[d], sel.count[d],
                                    b.start[d], b.count[d])])

(* What a get of selection sel finds in transaction t: the sum over blocks.  *)
TotalToGet(t, sel) ==
  FoldFunction(+, 0, [b \in DOMAIN infos[t] |-> SizeToGet(sel, b)])
-----------------------------------------------------------------------------
Next == \/ \E p \in Publishers : Define(p) \/ Put(p)
        \/ \E p \in Publishers, st \in Strides \cup {None} : Reduce(p, st)
        \/ NextTransaction
        \/ \E t \in Ids, n \in 1 .. MaxTx : Get(t, n)

Spec == Init /\ [][Next]_vars
=============================================================================
