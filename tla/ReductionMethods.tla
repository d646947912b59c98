--------------------------- MODULE ReductionMethods ---------------------------
(* One variable of a stream and the reduction methods it is given            *)
(* (Variable::set_reduction_operation, CompressionReductionMethod,           *)
(* DecimationReductionMethod).  The variable has several objects: the one in *)
(* the stream's directory, which publishers share, and one copy for each     *)
(* inquiry of a subscriber.  A method keeps the parameters of every object   *)
(* in a map from its address, and never removes them: an object created at   *)
(* an address that was freed finds what its predecessor left there.          *)
(*                                                                           *)
(* The variable has one dimension (VariableBlocks treats several).  A ratio  *)
(* is a natural number and a variability is given in tenths; costs,          *)
(* smoothness and selections are left out, they decide nothing here.         *)
EXTENDS Integers, Sequences, Functions

CONSTANTS
  Publishers, Subscribers,
  Addresses,      \* where the objects of the variable can be
  None,           \* no object, no method
  Part,           \* publisher -> the block it defines
  Size,           \* the number of elements of the variable
  ElementSize,    \* in bytes
  DecimationParameters, CompressionParameters,
                  \* what the methods are given: functions of option names
  Fit,            \* profile -> accuracy -> the ratio by the formula, rounded
  Noises,         \* the noises of a transaction, from -1 to 1
  MaxReductions,  \* calls to set_reduction_operation in a behaviour
  MaxObjects      \* objects created in a behaviour

\* An option that is given, or what it was.
GivenOr(given, option, old) ==
  IF option \in DOMAIN given THEN given[option] ELSE old

Actors == Publishers \cup Subscribers
Block(start, count) == [start |-> start, count |-> count]
Blocks == {b \in [start : 0 .. Size, count : 0 .. Size] :
             b.start + b.count <= Size}

ASSUME RolesAssumption == Publishers \cap Subscribers = {}
ASSUME NoneAssumption ==
  None \notin Addresses \cup Actors \cup {"decimation", "compression",
                                          "Publish", "Subscribe"}
ASSUME SizeAssumption == Size \in Nat \ {0} /\ ElementSize \in Nat \ {0}
ASSUME PartAssumption == Part \in [Publishers -> Blocks]
ASSUME NoiseAssumption == Noises \subseteq {-1, 0, 1}
ASSUME DecimationAssumption ==
  \A g \in DecimationParameters :
    "stride" \in DOMAIN g => g.stride \in Seq(Nat)
ASSUME CompressionAssumption ==
  \A g \in CompressionParameters :
    /\ \A o \in DOMAIN g \cap {"accuracy", "ratio"} : g[o] \in Nat
    /\ "variability" \in DOMAIN g => g.variability \in Int
    /\ \A profile \in {"sz", "zfp"}, a \in {3, GivenOr(g, "accuracy", 3)} :
         Fit[profile][a] \in Nat

VARIABLES
  session,        \* access_mode_ of the stream
  directory,      \* the address of the variable in variables_, or None
  holds,          \* actor -> the address of the object it has, or None
  object,         \* address -> the Variable there
  stored,         \* address -> publisher -> its last put in the Metadata of
                  \* that Variable
  decimations,    \* per_variable_parameterizations_ of the decimation
  compressions,   \* and of the compression
  reducing,       \* the publishers that execute the reduction of a put
  seen,           \* subscriber -> the reduction at its last inquiry
  reductions, objects        \* counters, for the bounds

vars == <<session, directory, holds, object, stored, decimations,
          compressions, reducing, seen, reductions, objects>>

EmptyMap == [x \in {} |-> None]
With(f, k, v) == [x \in DOMAIN f \cup {k} |-> IF x = k THEN v ELSE f[x]]

Unreduced == [method |-> None, parameters |-> None]

Init == /\ session = "Publish" /\ directory = None /\ reducing = {}
        /\ holds = [a \in Actors |-> None]
        /\ object = EmptyMap /\ stored = EmptyMap
        /\ decimations = EmptyMap /\ compressions = EmptyMap
        /\ seen = [s \in Subscribers |-> Unreduced]
        /\ reductions = 0 /\ objects = 0
-----------------------------------------------------------------------------
(* Objects live as long as the directory or an actor refers to them, and a   *)
(* Metadata as long as an object does.  It has a weak reference to the       *)
(* object it was created for, whose memory it keeps from being reused.       *)

Free == Addresses \ (DOMAIN object \cup DOMAIN stored)

\* The directory, references, objects and metadata are d, h, o and st, and
\* those that nothing refers to are destroyed.
Settle(d, h, o, st) ==
  LET live == {x \in DOMAIN o : x = d \/ \E a \in Actors : h[a] = x}
  IN /\ directory' = d /\ holds' = h
     /\ object' = Restrict(o, live)
     /\ stored' = Restrict(st, {o[x].metadata : x \in live})

Create == objects < MaxObjects /\ objects' = objects + 1

\* Publishers publish, and subscribers reduce, in the sessions named so: the
\* stream goes by its mode, not by its caller.
Publishing(p) == session = "Publish" /\ p \notin reducing

\* define_variable: the block of the publisher in the object that exists, or
\* a new object with its Metadata.
Define(p) ==
  /\ Publishing(p)
  /\ \/ /\ directory # None
        /\ Settle(directory, [holds EXCEPT ![p] = directory],
                  [object EXCEPT ![directory].local = With(@, p, Part[p])],
                  stored)
        /\ UNCHANGED objects
     \/ \E x \in Free :
          /\ directory = None
          /\ Create
          /\ Settle(x, [holds EXCEPT ![p] = x],
                    With(object, x,
                         [local |-> With(EmptyMap, p, Part[p]), metadata |-> x,
                          method |-> None, origin |-> None]),
                    With(stored, x, EmptyMap))
  /\ UNCHANGED <<session, decimations, compressions, reducing, seen,
                 reductions>>

\* A publisher that inquires gets the object of the directory.
InquirePublisher(p) ==
  /\ Publishing(p) /\ directory # None
  /\ Settle(directory, [holds EXCEPT ![p] = directory], object, stored)
  /\ UNCHANGED <<session, decimations, compressions, reducing, seen,
                 reductions, objects>>

Remove(p) ==
  /\ Publishing(p) /\ directory # None
  /\ Settle(None, holds, object, stored)
  /\ UNCHANGED <<session, decimations, compressions, reducing, seen,
                 reductions, objects>>

Drop(a) ==
  /\ a \notin reducing /\ holds[a] # None
  /\ Settle(directory, [holds EXCEPT ![a] = None], object, stored)
  /\ seen' = [s \in Subscribers |-> IF s = a THEN Unreduced ELSE seen[s]]
  /\ UNCHANGED <<session, decimations, compressions, reducing, reductions,
                 objects>>

\* The stream is closed and opened in the other mode, once the publishers have
\* put what they began; subscribers inquire again in the new session.
Reopen(mode) ==
  /\ mode # session /\ reducing = {}
  /\ \A s \in Subscribers : holds[s] = None
  /\ session' = mode
  /\ UNCHANGED <<directory, holds, object, stored, decimations, compressions,
                 reducing, seen, reductions, objects>>
-----------------------------------------------------------------------------
(* What a subscriber's copy takes over from the object x of the directory.   *)

\* The reduction of the object at x, as an inquiry can see it.
Reduction(x) ==
  [method |-> object[x].method,
   parameters |->
     CASE object[x].method = "decimation" ->
            [stride |-> decimations[x].stride, shape |-> decimations[x].shape,
             interpolation |-> decimations[x].interpolation]
       [] object[x].method = "compression" -> compressions[x]
       [] OTHER -> None]

\* A bug: the copy forgets who reduced the variable.
ForgetsOrigin(x, s) ==
  [object[x] EXCEPT !.local = With(EmptyMap, s, Block(0, 0)), !.origin = None]

Copy(x, s) ==
  [object[x] EXCEPT !.local = With(EmptyMap, s, Block(0, 0))]

\* A bug: parameters that are already at address y stay.
KeepsStale(params, x, y, v) ==
  IF x \in DOMAIN params /\ y \notin DOMAIN params THEN With(params, y, v)
  ELSE params

\* A bug: nothing is registered for the copy.
RegistersNothing(params, x, y, v) == params

\* propagate_for_subscriber: whatever address y had is replaced.
Propagate(params, x, y, v) ==
  IF x \in DOMAIN params THEN With(params, y, v) ELSE params

\* inquire_variable by subscriber s.  The copy of a decimated variable covers
\* the reduced shape, and its parameters are those of the object at x today.
InquireSubscriber(s) ==
  LET x == directory IN
  /\ x # None /\ Create
  /\ \E y \in Free :
       /\ Settle(x, [holds EXCEPT ![s] = y], With(object, y, Copy(x, s)),
                 stored)
       /\ IF object[x].method = "decimation"
            THEN decimations' = Propagate(decimations, x, y,
                   [decimations[x] EXCEPT !.blocks =
                      With(EmptyMap, s, Block(0, decimations[x].shape))])
            ELSE UNCHANGED decimations
       /\ IF object[x].method = "compression"
            THEN compressions' =
                   Propagate(compressions, x, y, compressions[x])
            ELSE UNCHANGED compressions
  /\ seen' = [seen EXCEPT ![s] = Reduction(x)]
  /\ UNCHANGED <<session, reducing, reductions>>
-----------------------------------------------------------------------------
(* set_reduction_operation.  A call that is refused, for the role or for its *)
(* parameters, throws before it changes anything.                            *)

\* Actor a may reduce the object it has.
Reduces(a) ==
  /\ a \in IF session = "Publish" THEN Publishers \ reducing ELSE Subscribers
  /\ holds[a] # None
  /\ reductions < MaxReductions /\ reductions' = reductions + 1

\* DoubleReductionException: what the publishers reduced.
Reducible(x) == session = "Subscribe" => object[x].origin # "Publish"

ReducedWith(x, method) ==
  [object EXCEPT ![x].method = method,
                 ![x].origin = IF @ = None THEN session ELSE @]

ValidDecimation(given) ==
  /\ DOMAIN given \subseteq {"stride", "interpolation"}
  /\ "stride" \in DOMAIN given =>
       Len(given.stride) = 1 /\ given.stride[1] > 0
  /\ "interpolation" \in DOMAIN given => given.interpolation = "linear"

Ceiling(n, k) == (n + k - 1) \div k
MinOf(a, b) == IF a <= b THEN a ELSE b
ReducedBlock(b, k) ==
  LET next == MinOf(Size, Ceiling(b.start + b.count, k))
  IN Block(Ceiling(b.start, k), next - Ceiling(b.start, k))

\* The decimation of the object at x when it is given these parameters; what
\* they leave out is as before.
Parameterized(x, given) ==
  LET old == IF x \in DOMAIN decimations THEN decimations[x]
             ELSE [stride |-> <<>>, interpolation |-> "", shape |-> 0,
                   blocks |-> EmptyMap]
  IN [old EXCEPT !.stride = GivenOr(given, "stride", @),
                 !.interpolation = GivenOr(given, "interpolation", @)]

HasBlock(a, x) == a \in DOMAIN object[x].local

\* reduce_variable by actor a, with parameters d: the reduced shape, then the
\* reduced block of an actor that has a block and no reduced one yet.
Reduced(d, x, a) ==
  LET k == d.stride[1] IN
  [d EXCEPT !.shape = Ceiling(Size, k),
            !.blocks = IF a \in DOMAIN @ \/ ~HasBlock(a, x) THEN @
                       ELSE With(@, a, ReducedBlock(object[x].local[a], k))]

\* Without any stride, a call reads beyond an empty vector; that one is left
\* out.  An actor without a block, a publisher that only inquired, makes it
\* throw when the parameters have changed and the object has not.
Decimate(a, given) ==
  LET x == holds[a]
      d == Parameterized(x, given)
  IN /\ Reduces(a) /\ Reducible(x)
     /\ ValidDecimation(given) /\ d.stride # <<>>
     /\ decimations' = With(decimations, x, Reduced(d, x, a))
     /\ object' = IF HasBlock(a, x) THEN ReducedWith(x, "decimation")
                  ELSE object
     /\ UNCHANGED <<session, directory, holds, stored, compressions, reducing,
                    seen, objects>>
-----------------------------------------------------------------------------
Profiles == {"fixed", "sz", "zfp"}
ValidCompression(given) ==
  /\ DOMAIN given \subseteq {"accuracy", "ratio", "profile", "variability"}
  /\ "profile" \in DOMAIN given => given.profile \in Profiles

\* derive_compression_ratio.
Derived(profile, accuracy) ==
  IF Fit[profile][accuracy] > 1 THEN Fit[profile][accuracy] ELSE 1

\* A bug: a ratio that is given is taken as it is.
TakesAnyRatio(given, known, profile) ==
  known \/ "ratio" \in DOMAIN given \/ profile # "fixed"

\* resolve_compression_ratio throws for a ratio below one, and for a first
\* call with the profile "fixed" and no ratio.
RatioResolves(given, known, profile) ==
  IF "ratio" \in DOMAIN given THEN given.ratio >= 1
  ELSE known \/ profile # "fixed"

\* The compression of the object at x, without its ratio: the defaults of
\* CompressionConfig, or what the object has.
Configured(x, given) ==
  LET old == IF x \in DOMAIN compressions THEN compressions[x]
             ELSE [accuracy |-> 3, ratio |-> 0, profile |-> "fixed",
                   variability |-> 0]
  IN [o \in DOMAIN old |-> GivenOr(given, o, old[o])]

\* A ratio that is not given is derived in a first call, and kept afterwards.
Compress(a, given) ==
  LET x == holds[a]
      c == Configured(x, given)
      known == x \in DOMAIN compressions
  IN /\ Reduces(a) /\ session = "Publish"
     /\ ValidCompression(given) /\ RatioResolves(given, known, c.profile)
     /\ compressions' = With(compressions, x,
          IF known \/ "ratio" \in DOMAIN given THEN c
          ELSE [c EXCEPT !.ratio = Derived(c.profile, c.accuracy)])
     /\ object' = ReducedWith(x, "compression")
     /\ UNCHANGED <<session, directory, holds, stored, decimations, reducing,
                    seen, objects>>
-----------------------------------------------------------------------------
(* Engine::put and Engine::get.                                              *)

LocalSize(p, x) == object[x].local[p].count * ElementSize

\* A bug: the noise is not kept from expanding the data.
Expands(c, noise) == c.ratio * (10 + c.variability * noise)

\* get_effective_ratio, in tenths.
EffectiveRatio(c, noise) ==
  LET noisy == c.ratio * (10 + c.variability * noise)
  IN IF c.variability <= 0 THEN 10 * c.ratio
     ELSE IF noisy > 10 THEN noisy ELSE 10

\* What publisher p puts when the object x has this reduction.
PutSizes(p, x) ==
  CASE object[x].method = "decimation" ->
         {decimations[x].blocks[p].count * ElementSize}
    [] object[x].method = "compression" ->
         {Ceiling(10 * LocalSize(p, x), EffectiveRatio(compressions[x], k)) :
            k \in Noises}
    [] OTHER -> {LocalSize(p, x)}

Store(p, x, size) ==
  stored' = [stored EXCEPT ![object[x].metadata] =
               With(@, p, [method |-> object[x].method, size |-> size])]

PutFull(p) ==
  /\ Publishing(p) /\ holds[p] # None
  /\ LET x == holds[p] IN
     /\ object[x].method = None /\ HasBlock(p, x)
     /\ \E size \in PutSizes(p, x) : Store(p, x, size)
  /\ UNCHANGED <<session, directory, holds, object, decimations, compressions,
                 reducing, seen, reductions, objects>>

\* The reduction takes time, and the others go on.
StartPut(p) ==
  /\ Publishing(p) /\ holds[p] # None
  /\ object[holds[p]].method # None /\ HasBlock(p, holds[p])
  /\ reducing' = reducing \cup {p}
  /\ UNCHANGED <<session, directory, holds, object, stored, decimations,
                 compressions, seen, reductions, objects>>

\* The method and its parameters are read again.  The put throws for a
\* decimation that publisher p took no part in.
FinishPut(p) ==
  LET x == holds[p] IN
  /\ p \in reducing /\ reducing' = reducing \ {p}
  /\ IF object[x].method = "decimation" /\ p \notin DOMAIN decimations[x].blocks
       THEN UNCHANGED stored
       ELSE \E size \in PutSizes(p, x) : Store(p, x, size)
  /\ UNCHANGED <<session, directory, holds, object, decimations, compressions,
                 seen, reductions, objects>>

\* A subscriber that reduces does it before it gets the data, and the block
\* that it gets is as large as the variable or its own reduction of it.
Get(s) ==
  LET x == holds[s]
      own == object[x].origin = "Subscribe"
      d == Reduced(decimations[x], x, s)
  IN /\ x # None /\ DOMAIN stored[object[x].metadata] # {}
     /\ decimations' = IF own THEN With(decimations, x, d) ELSE decimations
     /\ object' = [object EXCEPT ![x].local =
                     With(@, s, Block(0, IF own THEN d.shape ELSE Size))]
     /\ UNCHANGED <<session, directory, holds, stored, compressions, reducing,
                    seen, reductions, objects>>
-----------------------------------------------------------------------------
Next ==
  \/ \E p \in Publishers :
       \/ Define(p) \/ InquirePublisher(p) \/ Remove(p)
       \/ PutFull(p) \/ StartPut(p) \/ FinishPut(p)
  \/ \E s \in Subscribers : InquireSubscriber(s) \/ Get(s)
  \/ \E a \in Actors : Drop(a)
  \/ \E a \in Actors, g \in DecimationParameters : Decimate(a, g)
  \/ \E a \in Actors, g \in CompressionParameters : Compress(a, g)
  \/ \E mode \in {"Publish", "Subscribe"} : Reopen(mode)

Spec == Init /\ [][Next]_vars
=============================================================================
