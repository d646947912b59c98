------------------------- MODULE ReductionProperties -------------------------
(* What the reductions of a variable promise, see ReductionMethods.          *)
EXTENDS ReductionMethods

IsMap(f, values) == DOMAIN f \subseteq Actors /\ f \in [DOMAIN f -> values]

IsVariable(v) ==
  v \in [local : {v.local}, metadata : Addresses,
         method : {None, "decimation", "compression"},
         origin : {None, "Publish", "Subscribe"}]

IsDecimation(d) ==
  /\ d \in [stride : {<<d.stride[1]>>}, interpolation : {"", "linear"},
            shape : 1 .. Size, blocks : {d.blocks}]
  /\ d.stride[1] \in Nat \ {0} /\ IsMap(d.blocks, Blocks)

IsCompression(c) ==
  /\ c \in [accuracy : Nat, ratio : Nat, profile : Profiles,
            variability : Int]
  /\ c.ratio >= 1

\* The types, and that references and metadata are never dangling.  No stride
\* is zero and no ratio below one, whatever was given, derived, kept from an
\* earlier call or found at an address.
TypeOK ==
  /\ session \in {"Publish", "Subscribe"}
  /\ directory \in DOMAIN object \cup {None}
  /\ holds \in [Actors -> DOMAIN object \cup {None}]
  /\ DOMAIN object \subseteq Addresses
  /\ \A x \in DOMAIN object : /\ IsVariable(object[x])
                              /\ IsMap(object[x].local, Blocks)
                              /\ object[x].metadata \in DOMAIN stored
  /\ DOMAIN stored \subseteq Addresses
  /\ DOMAIN decimations \cup DOMAIN compressions \subseteq Addresses
  /\ \A x \in DOMAIN decimations : IsDecimation(decimations[x])
  /\ \A x \in DOMAIN compressions : IsCompression(compressions[x])
  /\ reducing \subseteq {p \in Publishers : holds[p] # None}

\* A method that an object is reduced with knows the object: at(&var) throws
\* nowhere, in no put or get, and nothing dereferences a null pointer, however
\* objects were copied, refused, half reduced or put where others had been.
LookUpsSucceed ==
  \A x \in DOMAIN object :
    /\ object[x].method = "decimation" => x \in DOMAIN decimations
    /\ object[x].method = "compression" => x \in DOMAIN compressions

\* A subscriber's copy of a variable that its publishers reduced stays as it
\* was at the inquiry: the publishers go on setting parameters, objects at the
\* same address had others, and the copy shows none of this.
CopiesKeepWhatTheySaw ==
  \A s \in Subscribers :
    LET x == holds[s] IN
    x # None /\ seen[s].method # None =>
      object[x].origin = "Publish" /\ Reduction(x) = seen[s]

\* What the publishers reduced is not reduced a second time by a subscriber
\* (the promise of DoubleReductionException).
DataReducedOnce ==
  \A s \in Subscribers :
    LET x == holds[s] IN
    x # None /\ object[x].origin = "Subscribe" =>
      LET data == stored[object[x].metadata]
      IN \A p \in DOMAIN data : data[p].method = None

\* A reduction never makes the data of a publisher larger, whatever the noise
\* and the sequence of partial parameters that led to the ratio.
PutsNoMoreThanItsBlock ==
  \A x \in DOMAIN stored : \A p \in DOMAIN stored[x] :
    stored[x][p].size \in 0 .. Part[p].count * ElementSize
=============================================================================
