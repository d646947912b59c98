-------------------------- MODULE VariableProperties --------------------------
(* What must hold of the blocks of a variable (VariableBlocks), stated on    *)
(* its cells: a cell is a vector of indexes.                                 *)
EXTENDS VariableBlocks

InBlock(c, b) == \A d \in Dims : b.start[d] <= c[d]
                                 /\ c[d] < b.start[d] + b.count[d]
Grid(sh) == {c \in Vectors : \A d \in Dims : c[d] < sh[d]}
Cells(sh, b) == {c \in Grid(sh) : InBlock(c, b)}

(* Every cell of a grid of that shape belongs to one publisher's block.      *)
Tile(own, sh) ==
  \A c \in Grid(sh) : \E p \in DOMAIN own :
     InBlock(c, own[p]) /\ \A q \in DOMAIN own \ {p} : ~InBlock(c, own[q])

Inside(b, sh) == \A d \in Dims : b.start[d] + b.count[d] <= sh[d]

Defined == \A p \in Publishers : local[p] # None
Decimated == \A p \in Publishers : reducedLocal[p] # None

(* Every variable has its type: the counts of reduced blocks, differences of *)
(* unsigned numbers, never wrap.                                             *)
TypeOK ==
  /\ shape \in Shapes \cup {None}
  /\ local \in [Publishers -> Blocks \cup {None}]
  /\ stride \in Strides \cup {None}
  /\ reducedShape \in Vectors \cup {None}
  /\ reducedLocal \in [Publishers -> Blocks \cup {None}]
  /\ DOMAIN infos \subseteq 0 .. MaxTx
  /\ \A t \in DOMAIN infos : /\ DOMAIN infos[t] \subseteq Blocks
                             /\ Range(infos[t]) \subseteq Publishers
  /\ tx \in 0 .. MaxTx

(* Whatever sizes a publisher passes, negative numbers that wrapped          *)
(* included, the blocks that define_variable accepts, those that decimation  *)
(* derives from them and those in the metadata lie inside the variable.      *)
AcceptedBlocksFit ==
  /\ \A p \in Publishers : local[p] # None => Inside(local[p], shape)
  /\ \A p \in Publishers : reducedLocal[p] # None
                           => Inside(reducedLocal[p], reducedShape)
  /\ \A t \in DOMAIN infos : \A b \in DOMAIN infos[t] : Inside(b, shape)

(* The selections of a subscriber: any box, inside the variable or not, the  *)
(* default one (the whole shape) included.                                   *)
Selections == {Block(s, c) : s, c \in [Dims -> {o \in Offsets : Reasonable(o)}]}

(* When the publishers' blocks tile the variable and all of them, or the     *)
(* reduced ones of all of them, were put in a transaction, a get of any      *)
(* selection finds every cell of it once: the sizes sum up to the part of    *)
(* the selection that lies in the (reduced) grid.                            *)
EveryElementOnce ==
  \A t \in DOMAIN infos :
    Defined /\ Tile(local, shape) =>
      /\ DOMAIN infos[t] = Range(local) =>
           \A sel \in Selections :
             TotalToGet(t, sel) = Cardinality(Cells(shape, sel))
      /\ Decimated /\ DOMAIN infos[t] = Range(reducedLocal) =>
           \A sel \in Selections :
             TotalToGet(t, sel) = Cardinality(Cells(reducedShape, sel))

(* When the publishers' blocks tile the variable, the reduced blocks, which  *)
(* every publisher computes on its own, tile the reduced variable: no cell   *)
(* is kept twice or lost at the boundary of two blocks.                      *)
ReducedBlocksTile ==
  Defined /\ Decimated /\ Tile(local, shape) => Tile(reducedLocal, reducedShape)

(* A get never moves the last transaction on and changes no block: the       *)
(* entries it creates are empty and not after the last one, even when the    *)
(* sum of its first transaction and their number wraps.                      *)
GetsLeaveLastTransaction ==
  [][ tx' = tx /\ local' = local /\ stride' = stride
      /\ (\A t \in DOMAIN infos' : infos'[t] # <<>> => t \in DOMAIN infos
                                                       /\ infos[t] = infos'[t])
      => LastTx' = LastTx ]_vars
=============================================================================
