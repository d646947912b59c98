---------------------------- MODULE ReductionProofs ----------------------------
(***************************************************************************)
(* What ReductionProperties states, proved for every number of actors and  *)
(* addresses, every block and every parameters.                            *)
(***************************************************************************)
EXTENDS ReductionProperties, TLAPS

-----------------------------------------------------------------------------
(* The inductive invariant                                                  *)

\* Objects that are there, and what they refer to.
Structure ==
  /\ directory \in DOMAIN object \cup {None}
  /\ holds \in [Actors -> DOMAIN object \cup {None}]
  /\ DOMAIN object \subseteq Addresses /\ DOMAIN stored \subseteq Addresses
  /\ \A x \in DOMAIN object : /\ IsVariable(object[x])
                              /\ object[x].metadata \in DOMAIN stored

\* The objects of the publishers have a Metadata of their own, and what they
\* are reduced with is the publishers' reduction.
Original(x) ==
  /\ object[x].metadata = x
  /\ object[x].origin # "Subscribe"
Originals ==
  /\ directory # None => Original(directory)
  /\ \A p \in Publishers : holds[p] # None => Original(holds[p])

\* A copy belongs to the subscriber that inquired, and to nobody else.
Private ==
  \A s \in Subscribers : holds[s] # None =>
    /\ holds[s] # directory
    /\ \A a \in Actors : a # s => holds[a] # holds[s]

\* An object is reduced by somebody.
Marked ==
  \A x \in DOMAIN object : object[x].method = None <=> object[x].origin = None

\* No put is under way, and no copy is a subscriber's own reduction, in the
\* session where that could not be.
InSession ==
  /\ session \in {"Publish", "Subscribe"}
  /\ reducing \subseteq {p \in Publishers : holds[p] # None}
  /\ session = "Subscribe" => reducing = {}
  /\ \A s \in Subscribers :
       holds[s] # None /\ object[holds[s]].origin = "Subscribe" =>
         session = "Subscribe"
  /\ \A p \in reducing : object[holds[p]].method # None

\* Nothing that was put in this Metadata was reduced.
Whole(x) == \A p \in DOMAIN stored[x] : stored[x][p].method = None

\* An original that is not reduced has whole data, and so has a copy that is
\* not reduced by the publishers, once these have finished.
WholeData ==
  /\ \A x \in DOMAIN object :
       object[x].metadata = x /\ object[x].method = None => Whole(x)
  /\ \A s \in Subscribers :
       /\ holds[s] # None /\ session = "Subscribe"
       /\ object[holds[s]].origin # "Publish"
       => Whole(object[holds[s]].metadata)

IInv == /\ Structure /\ Originals /\ Private /\ Marked /\ InSession
        /\ WholeData /\ LookUpsSucceed

-----------------------------------------------------------------------------
(* References and objects                                                   *)

LEMMA NoneIsNoAddress == None \notin Addresses
BY NoneAssumption

\* What Settle leaves: the objects that are referred to, and their metadata.
LEMMA SettleKeeps ==
  ASSUME NEW d, NEW h, NEW o, NEW st, Settle(d, h, o, st),
         d \in DOMAIN o \cup {None}, h \in [Actors -> DOMAIN o \cup {None}],
         DOMAIN o \subseteq Addresses, DOMAIN st \subseteq Addresses,
         \A x \in DOMAIN o : IsVariable(o[x]) /\ o[x].metadata \in DOMAIN st
  PROVE  /\ Structure'
         /\ directory' = d /\ holds' = h
         /\ DOMAIN object' \subseteq DOMAIN o
         /\ \A x \in DOMAIN object' :
              /\ object'[x] = o[x]
              /\ stored'[o[x].metadata] = st[o[x].metadata]
<1> DEFINE live == {x \in DOMAIN o : x = d \/ \E a \in Actors : h[a] = x}
<1>1. /\ directory' = d /\ holds' = h
      /\ object' = [x \in live |-> o[x]]
      /\ stored' = [x \in {o[y].metadata : y \in live} |-> st[x]]
  BY DEF Settle, Restrict
<1>2. d \in live \cup {None} /\ \A a \in Actors : h[a] \in live \cup {None}
  OBVIOUS
<1>3. holds' \in [Actors -> DOMAIN object' \cup {None}]
  BY <1>1, <1>2
<1>4. DOMAIN stored' \subseteq Addresses
  BY <1>1
<1> QED
  BY <1>1, <1>2, <1>3, <1>4 DEF Structure

\* The conditions of SettleKeeps for the objects as they are.
LEMMA StructureSettles ==
  ASSUME Structure
  PROVE  /\ directory \in DOMAIN object \cup {None}
         /\ holds \in [Actors -> DOMAIN object \cup {None}]
         /\ DOMAIN object \subseteq Addresses /\ DOMAIN stored \subseteq Addresses
         /\ \A x \in DOMAIN object :
              IsVariable(object[x]) /\ object[x].metadata \in DOMAIN stored
BY DEF Structure

-----------------------------------------------------------------------------
(* Steps that refer to fewer or other objects                               *)

\* The objects stay, and the publishers' references are to originals.
LEMMA ReferringKeeps ==
  ASSUME IInv, NEW d, NEW h, Settle(d, h, object, stored),
         d \in {directory, None},
         h \in [Actors -> DOMAIN object \cup {None}],
         \A p \in Publishers : h[p] \in {holds[p], directory, None},
         \A s \in Subscribers : h[s] \in {holds[s], None},
         UNCHANGED <<session, decimations, compressions, reducing>>,
         \A p \in reducing : h[p] = holds[p]
  PROVE  IInv'
<1>1. /\ Structure' /\ directory' = d /\ holds' = h
      /\ DOMAIN object' \subseteq DOMAIN object
      /\ \A x \in DOMAIN object' :
           /\ object'[x] = object[x]
           /\ stored'[object[x].metadata] = stored[object[x].metadata]
  BY SettleKeeps, StructureSettles DEF IInv
<1>2. /\ \A a \in Actors : holds'[a] # None => holds'[a] \in DOMAIN object'
      /\ directory' # None => directory' \in DOMAIN object'
  BY <1>1 DEF Structure
<1>3. Originals'
  BY <1>1, <1>2 DEF IInv, Originals, Original, Actors
<1>4. Private'
  BY <1>1, <1>2, RolesAssumption DEF IInv, Private, Actors
<1>5. Marked' /\ LookUpsSucceed'
  BY <1>1 DEF IInv, Marked, LookUpsSucceed
<1>6. InSession'
  BY <1>1, <1>2 DEF IInv, InSession, Actors
<1>7. WholeData'
  BY <1>1, <1>2 DEF IInv, WholeData, Whole, Actors
<1> QED
  BY <1>1, <1>3, <1>4, <1>5, <1>6, <1>7 DEF IInv

LEMMA ReferringSteps ==
  ASSUME IInv,
         \/ \E p \in Publishers : InquirePublisher(p) \/ Remove(p)
         \/ \E a \in Actors : Drop(a)
  PROVE  IInv'
<1>1. ASSUME NEW p \in Publishers, InquirePublisher(p) PROVE IInv'
  <2> DEFINE h == [holds EXCEPT ![p] = directory]
  <2>1. h \in [Actors -> DOMAIN object \cup {None}]
    BY DEF IInv, Structure
  <2>2. /\ \A q \in Publishers : h[q] \in {holds[q], directory, None}
        /\ \A s \in Subscribers : h[s] \in {holds[s], None}
        /\ \A q \in reducing : h[q] = holds[q]
    BY <1>1, RolesAssumption
    DEF InquirePublisher, Publishing, IInv, Structure, InSession, Actors
  <2>3. /\ Settle(directory, h, object, stored)
        /\ UNCHANGED <<session, decimations, compressions, reducing>>
    BY <1>1 DEF InquirePublisher
  <2> HIDE DEF h
  <2> QED
    BY <2>1, <2>2, <2>3, ReferringKeeps
<1>2. ASSUME NEW p \in Publishers, Remove(p) PROVE IInv'
  BY <1>2, ReferringKeeps DEF Remove, IInv, Structure
<1>3. ASSUME NEW a \in Actors, Drop(a) PROVE IInv'
  <2> DEFINE h == [holds EXCEPT ![a] = None]
  <2>1. h \in [Actors -> DOMAIN object \cup {None}]
    BY DEF IInv, Structure
  <2>2. /\ \A q \in Publishers : h[q] \in {holds[q], directory, None}
        /\ \A s \in Subscribers : h[s] \in {holds[s], None}
        /\ \A q \in reducing : h[q] = holds[q]
    BY <1>3 DEF Drop, IInv, Structure, InSession, Actors
  <2>3. /\ Settle(directory, h, object, stored)
        /\ UNCHANGED <<session, decimations, compressions, reducing>>
    BY <1>3 DEF Drop
  <2> HIDE DEF h
  <2> QED
    BY <2>1, <2>2, <2>3, ReferringKeeps
<1> QED
  BY <1>1, <1>2, <1>3

-----------------------------------------------------------------------------
(* Definition and inquiry                                                   *)

LEMMA WithIs ==
  ASSUME NEW f, NEW k, NEW v
  PROVE  /\ DOMAIN With(f, k, v) = DOMAIN f \cup {k}
         /\ With(f, k, v)[k] = v
         /\ \A x \in DOMAIN f : x # k => With(f, k, v)[x] = f[x]
BY DEF With

\* A publisher's block in the object of the directory.
LEMMA DefineAgain ==
  ASSUME IInv, NEW p \in Publishers, Define(p), directory # None
  PROVE  IInv'
<1> DEFINE x == directory
           o == [object EXCEPT ![x].local = With(@, p, Part[p])]
           h == [holds EXCEPT ![p] = directory]
<1>1. /\ Settle(x, h, o, stored)
      /\ UNCHANGED <<session, decimations, compressions, reducing>>
      /\ p \notin reducing
  BY DEF Define, Publishing
<1>2. x \in DOMAIN object /\ IsVariable(object[x])
  BY DEF IInv, Structure
<1>4. /\ DOMAIN o = DOMAIN object
      /\ \A y \in DOMAIN o : /\ IsVariable(o[y])
                             /\ o[y].metadata = object[y].metadata
                             /\ o[y].method = object[y].method
                             /\ o[y].origin = object[y].origin
  BY <1>2 DEF IInv, Structure, IsVariable
<1>5. h \in [Actors -> DOMAIN o \cup {None}]
  BY <1>2, <1>4 DEF IInv, Structure
<1> HIDE DEF o, h
<1>6. /\ Structure' /\ directory' = x /\ holds' = h
      /\ DOMAIN object' \subseteq DOMAIN object
      /\ \A y \in DOMAIN object' :
           /\ object'[y] = o[y]
           /\ stored'[o[y].metadata] = stored[o[y].metadata]
  <2>1. /\ x \in DOMAIN o \cup {None}
        /\ DOMAIN o \subseteq Addresses /\ DOMAIN stored \subseteq Addresses
        /\ \A y \in DOMAIN o :
             IsVariable(o[y]) /\ o[y].metadata \in DOMAIN stored
    BY <1>2, <1>4 DEF IInv, Structure
  <2>2. Settle(x, h, o, stored)
    BY <1>1 DEF o, h
  <2> HIDE DEF x
  <2>3. /\ Structure' /\ directory' = x /\ holds' = h
        /\ DOMAIN object' \subseteq DOMAIN o
        /\ \A y \in DOMAIN object' :
             /\ object'[y] = o[y]
             /\ stored'[o[y].metadata] = stored[o[y].metadata]
    BY <1>5, <2>1, <2>2, SettleKeeps
  <2> QED
    BY <1>4, <2>3
<1> USE DEF h
<1>7. \A a \in Actors : holds'[a] # None => holds'[a] \in DOMAIN object'
  BY <1>6 DEF Structure
<1>8. Originals'
  BY <1>2, <1>4, <1>6, <1>7 DEF IInv, Originals, Original, Actors, Structure
<1>9. Private'
  BY <1>6, <1>7, RolesAssumption DEF IInv, Private, Actors, Structure
<1>10. Marked' /\ LookUpsSucceed'
  BY <1>1, <1>4, <1>6 DEF IInv, Marked, LookUpsSucceed
<1>11. InSession'
  BY <1>1, <1>4, <1>6, <1>7, RolesAssumption
  DEF IInv, InSession, Actors, Structure
<1>12. WholeData'
  BY <1>1, <1>4, <1>6, <1>7, RolesAssumption
  DEF IInv, WholeData, Whole, Actors, Structure
<1> QED
  BY <1>6, <1>8, <1>9, <1>10, <1>11, <1>12 DEF IInv

\* The first definition: a new object, at an address that nothing occupies.
LEMMA DefineFirst ==
  ASSUME IInv, NEW p \in Publishers, Define(p), directory = None
  PROVE  IInv'
<1>1. PICK x \in Free :
        /\ Settle(x, [holds EXCEPT ![p] = x],
                  With(object, x,
                       [local |-> With(EmptyMap, p, Part[p]), metadata |-> x,
                        method |-> None, origin |-> None]),
                  With(stored, x, EmptyMap))
        /\ UNCHANGED <<session, decimations, compressions, reducing>>
        /\ p \notin reducing
  BY DEF Define, Publishing
<1> DEFINE v == [local |-> With(EmptyMap, p, Part[p]), metadata |-> x,
                 method |-> None, origin |-> None]
           o == With(object, x, v)
           st == With(stored, x, EmptyMap)
           h == [holds EXCEPT ![p] = x]
<1>2. x \in Addresses /\ x \notin DOMAIN object /\ x \notin DOMAIN stored
  BY DEF Free
<1>3. IsVariable(v)
  BY <1>2 DEF IsVariable
<1> HIDE DEF v
<1>4. /\ DOMAIN o = DOMAIN object \cup {x} /\ o[x] = v
      /\ DOMAIN st = DOMAIN stored \cup {x} /\ st[x] = EmptyMap
      /\ \A y \in DOMAIN object : o[y] = object[y]
      /\ \A y \in DOMAIN stored : st[y] = stored[y]
  BY <1>2 DEF With
<1> HIDE DEF o, st, h
<1>5. v.metadata = x /\ v.method = None /\ v.origin = None
  BY DEF v
<1>6. \A y \in DOMAIN o : IsVariable(o[y]) /\ o[y].metadata \in DOMAIN st
  BY <1>3, <1>4, <1>5 DEF IInv, Structure
<1>7. /\ Structure' /\ directory' = x /\ holds' = h
      /\ DOMAIN object' \subseteq DOMAIN o
      /\ \A y \in DOMAIN object' :
           /\ object'[y] = o[y]
           /\ stored'[o[y].metadata] = st[o[y].metadata]
  <2>1. h \in [Actors -> DOMAIN o \cup {None}]
    BY <1>4 DEF IInv, Structure, h
  <2>2. DOMAIN o \subseteq Addresses /\ DOMAIN st \subseteq Addresses
    BY <1>2, <1>4 DEF IInv, Structure
  <2>3. Settle(x, h, o, st)
    BY <1>1 DEF o, st, v, h
  <2>4. x \in DOMAIN o \cup {None}
    BY <1>4
  <2> QED
    BY <1>6, <2>1, <2>2, <2>3, <2>4, SettleKeeps
<1> USE DEF h
<1>8. /\ \A a \in Actors : holds'[a] # None => holds'[a] \in DOMAIN object'
      /\ x \in DOMAIN object'
  BY <1>2, <1>7, NoneIsNoAddress DEF Structure
<1>9. Originals'
  BY <1>2, <1>4, <1>5, <1>7, <1>8, NoneAssumption
  DEF IInv, Originals, Original, Actors, Structure
<1>10. Private'
  BY <1>2, <1>7, <1>8, RolesAssumption, NoneIsNoAddress
  DEF IInv, Private, Actors, Structure
<1>11. Marked' /\ LookUpsSucceed'
  BY <1>1, <1>4, <1>5, <1>7, NoneAssumption DEF IInv, Marked, LookUpsSucceed
<1>12. InSession'
  BY <1>1, <1>2, <1>4, <1>5, <1>7, <1>8, RolesAssumption
  DEF IInv, InSession, Actors, Structure
<1>13. WholeData'
  <2>1. ASSUME NEW y \in DOMAIN object', y # x
        PROVE  /\ y \in DOMAIN object /\ object'[y] = object[y]
               /\ stored'[object[y].metadata] = stored[object[y].metadata]
    BY <1>4, <1>7, <2>1 DEF IInv, Structure
  <2>2. Whole(x)'
    BY <1>4, <1>5, <1>7, <1>8 DEF Whole, EmptyMap
  <2>3. \A s \in Subscribers : holds'[s] = holds[s] /\ holds[s] # x
    BY <1>2, <1>7, RolesAssumption, NoneIsNoAddress
    DEF IInv, Structure, Actors
  <2> QED
    BY <1>1, <1>7, <1>8, <2>1, <2>2, <2>3
    DEF IInv, WholeData, Whole, Actors
<1> QED
  BY <1>7, <1>9, <1>10, <1>11, <1>12, <1>13 DEF IInv

\* A copy, at an address that nothing occupies.
LEMMA InquireKeeps ==
  ASSUME IInv, NEW s \in Subscribers, InquireSubscriber(s)
  PROVE  IInv'
<1> DEFINE x == directory
           v == Copy(x, s)
           h(y) == [holds EXCEPT ![s] = y]
<1>1. PICK y \in Free :
        /\ Settle(x, h(y), With(object, y, v), stored)
        /\ object[x].method = "decimation" =>
             decimations' = Propagate(decimations, x, y,
               [decimations[x] EXCEPT !.blocks =
                  With(EmptyMap, s, Block(0, decimations[x].shape))])
        /\ object[x].method # "decimation" => UNCHANGED decimations
        /\ object[x].method = "compression" =>
             compressions' = Propagate(compressions, x, y, compressions[x])
        /\ object[x].method # "compression" => UNCHANGED compressions
  BY DEF InquireSubscriber
<1>2. /\ x \in DOMAIN object /\ IsVariable(object[x])
      /\ UNCHANGED <<session, reducing>>
  BY DEF InquireSubscriber, IInv, Structure
<1>3. y \in Addresses /\ y \notin DOMAIN object /\ y \notin DOMAIN stored
  BY DEF Free
<1>4. /\ IsVariable(v) /\ v.metadata = object[x].metadata
      /\ v.method = object[x].method /\ v.origin = object[x].origin
  BY <1>2 DEF Copy, IsVariable
<1> DEFINE o == With(object, y, v)
<1> HIDE DEF v
<1>5. /\ DOMAIN o = DOMAIN object \cup {y} /\ o[y] = v
      /\ \A z \in DOMAIN object : o[z] = object[z]
  BY <1>3 DEF With
<1> HIDE DEF o
<1>6. /\ Structure' /\ directory' = x /\ holds' = h(y)
      /\ DOMAIN object' \subseteq DOMAIN o
      /\ \A z \in DOMAIN object' :
           /\ object'[z] = o[z]
           /\ stored'[o[z].metadata] = stored[o[z].metadata]
  <2> DEFINE g == h(y)
  <2>1. g \in [Actors -> DOMAIN o \cup {None}]
    BY <1>5 DEF IInv, Structure
  <2>2. /\ DOMAIN o \subseteq Addresses /\ DOMAIN stored \subseteq Addresses
        /\ x \in DOMAIN o \cup {None}
        /\ \A z \in DOMAIN o :
             IsVariable(o[z]) /\ o[z].metadata \in DOMAIN stored
    BY <1>2, <1>3, <1>4, <1>5 DEF IInv, Structure
  <2>3. Settle(x, g, o, stored)
    BY <1>1 DEF o
  <2> HIDE DEF g, x
  <2>4. /\ Structure' /\ directory' = x /\ holds' = g
        /\ DOMAIN object' \subseteq DOMAIN o
        /\ \A z \in DOMAIN object' :
             /\ object'[z] = o[z]
             /\ stored'[o[z].metadata] = stored[o[z].metadata]
    BY <2>1, <2>2, <2>3, SettleKeeps
  <2> QED
    BY <2>4 DEF g
<1>7. /\ \A a \in Actors : holds'[a] # None => holds'[a] \in DOMAIN object'
      /\ holds'[s] = y /\ y # None
      /\ \A a \in Actors : a # s => holds'[a] = holds[a] /\ holds[a] # y
  BY <1>3, <1>6, NoneIsNoAddress DEF IInv, Structure, Actors
<1>8. ASSUME NEW z \in DOMAIN object', z # y
      PROVE  /\ z \in DOMAIN object /\ object'[z] = object[z]
             /\ stored'[object[z].metadata] = stored[object[z].metadata]
  BY <1>5, <1>6, <1>8
<1>9. /\ y \in DOMAIN object' /\ object'[y] = v
      /\ stored'[object[x].metadata] = stored[object[x].metadata]
  BY <1>4, <1>5, <1>6, <1>7 DEF Actors
<1>10. x \in DOMAIN object' /\ x # y
  BY <1>2, <1>3, <1>6, NoneIsNoAddress DEF Structure, IInv
<1>11. Originals'
  BY <1>6, <1>7, <1>8, <1>10, RolesAssumption
  DEF IInv, Originals, Original, Actors, Structure
<1>12. Private'
  BY <1>6, <1>7, <1>10 DEF IInv, Private, Actors
<1>13. Marked'
  BY <1>2, <1>4, <1>8, <1>9 DEF IInv, Marked
<1>14. InSession'
  <2>1. v.origin # "Subscribe"
    BY <1>2, <1>4, <1>10, NoneIsNoAddress DEF IInv, Originals, Original, Structure
  <2>2. \A p \in reducing : holds'[p] = holds[p] /\ holds[p] # None /\ holds[p] # y
    BY <1>7, RolesAssumption DEF IInv, InSession, Actors
  <2> QED
    BY <1>2, <1>7, <1>8, <1>9, <2>1, <2>2, RolesAssumption
    DEF IInv, InSession, Actors
<1>15. WholeData'
  <2>1. object[x].metadata = x
    BY <1>2, NoneIsNoAddress DEF IInv, Originals, Original, Structure
  <2>2. \A z \in DOMAIN object' :
          object'[z].metadata = z /\ object'[z].method = None => Whole(z)'
    BY <1>4, <1>8, <1>9, <1>10, <2>1 DEF IInv, WholeData, Whole
  <2>3. ASSUME v.origin # "Publish"
        PROVE  LET data == stored'[v.metadata]
               IN \A p \in DOMAIN data : data[p].method = None
    <3>1. object[x].method = None
      BY <1>2, <1>4, <2>3, NoneIsNoAddress
      DEF IInv, Originals, Original, Marked, Structure, IsVariable
    <3> QED
      BY <1>2, <1>4, <1>9, <2>1, <3>1 DEF IInv, WholeData, Whole
  <2>4. ASSUME NEW q \in Subscribers, holds'[q] # None,
               session' = "Subscribe", object'[holds'[q]].origin # "Publish"
        PROVE  Whole(object[holds[q]].metadata)'
    <3>1. CASE q = s
      BY <1>7, <1>9, <2>3, <2>4, <3>1 DEF Whole
    <3>2. CASE q # s
      BY <1>2, <1>7, <1>8, <2>4, <3>2 DEF IInv, WholeData, Whole, Actors
    <3> QED
      BY <3>1, <3>2
  <2> QED
    BY <2>2, <2>4 DEF WholeData
<1>16. LookUpsSucceed'
  <2>1. DOMAIN decimations \subseteq DOMAIN decimations'
    BY <1>1 DEF Propagate, With
  <2>2. DOMAIN compressions \subseteq DOMAIN compressions'
    BY <1>1 DEF Propagate, With
  <2>3. v.method = "decimation" => y \in DOMAIN decimations'
    BY <1>1, <1>2, <1>4 DEF IInv, LookUpsSucceed, Propagate, With
  <2>4. v.method = "compression" => y \in DOMAIN compressions'
    BY <1>1, <1>2, <1>4 DEF IInv, LookUpsSucceed, Propagate, With
  <2> QED
    BY <1>8, <1>9, <2>1, <2>2, <2>3, <2>4 DEF IInv, LookUpsSucceed
<1> QED
  BY <1>6, <1>11, <1>12, <1>13, <1>14, <1>15, <1>16 DEF IInv

-----------------------------------------------------------------------------
(* Reductions                                                               *)

\* The reduction of one object, by a publisher in its session or of a private
\* copy that the publishers have not reduced.
LEMMA ReducingKeeps ==
  ASSUME IInv, NEW a \in Actors, NEW m \in {"decimation", "compression"},
         holds[a] # None,
         a \in IF session = "Publish" THEN Publishers ELSE Subscribers,
         Reducible(holds[a]),
         object' = ReducedWith(holds[a], m),
         DOMAIN decimations \subseteq DOMAIN decimations',
         DOMAIN compressions \subseteq DOMAIN compressions',
         m = "decimation" => holds[a] \in DOMAIN decimations',
         m = "compression" => holds[a] \in DOMAIN compressions',
         UNCHANGED <<session, directory, holds, stored, reducing>>
  PROVE  IInv'
<1> DEFINE x == holds[a]
<1>1. x \in DOMAIN object /\ IsVariable(object[x])
  BY DEF IInv, Structure
<1>2. /\ DOMAIN object' = DOMAIN object
      /\ object'[x].local = object[x].local
      /\ object'[x].metadata = object[x].metadata
      /\ object'[x].method = m
      /\ object'[x].origin =
           IF object[x].origin = None THEN session ELSE object[x].origin
      /\ IsVariable(object'[x])
      /\ \A y \in DOMAIN object : y # x => object'[y] = object[y]
  BY <1>1 DEF ReducedWith, IsVariable, IInv, InSession
<1>3. Structure'
  BY <1>1, <1>2 DEF IInv, Structure
<1>4. a \in Subscribers =>
        /\ session = "Subscribe" /\ x # directory
        /\ \A b \in Actors : b # a => holds[b] # x
  BY RolesAssumption DEF IInv, InSession, Private
<1>5. Originals'
  <2>1. CASE a \in Publishers
    <3>1. /\ object'[x].metadata = x /\ object'[x].origin # "Subscribe"
          /\ \A y \in DOMAIN object : Original(y) /\ y # x => Original(y)'
      BY <1>2, <2>1, RolesAssumption DEF IInv, Originals, Original, InSession
    <3> QED
      BY <3>1 DEF IInv, Originals, Original, Structure, Actors
  <2>2. CASE a \in Subscribers
    <3>1. \A y \in DOMAIN object : Original(y) /\ y # x => Original(y)'
      BY <1>2 DEF Original
    <3> QED
      BY <1>4, <2>2, <3>1, RolesAssumption
      DEF IInv, Originals, Structure, Actors
  <2> QED
    BY <2>1, <2>2 DEF Actors
<1>6. Private'
  BY DEF IInv, Private
<1>7. Marked'
  BY <1>1, <1>2, NoneAssumption DEF IInv, Marked, InSession
<1>8. InSession'
  <2>1. \A p \in reducing : object'[holds[p]].method # None
    BY <1>1, <1>2, NoneAssumption DEF IInv, InSession, Structure, Actors
  <2>2. ASSUME NEW s \in Subscribers, holds[s] # None,
               object'[holds[s]].origin = "Subscribe"
        PROVE  session = "Subscribe"
    <3>1. CASE holds[s] = x
      BY <1>4, <3>1 DEF IInv, Private, Actors
    <3>2. CASE holds[s] # x
      BY <1>2, <2>2, <3>2 DEF IInv, InSession, Structure, Actors
    <3> QED
      BY <3>1, <3>2
  <2> QED
    BY <2>1, <2>2 DEF IInv, InSession
<1>9. WholeData'
  <2>1. ASSUME NEW s \in Subscribers, holds[s] # None, session = "Subscribe",
               object'[holds[s]].origin # "Publish"
        PROVE  Whole(object[holds[s]].metadata)
    <3>1. object[holds[s]].origin # "Publish"
      BY <1>1, <1>2, <2>1, NoneAssumption DEF IInv, Structure, Actors
    <3> QED
      BY <2>1, <3>1 DEF IInv, WholeData
  <2>2. ASSUME NEW s \in Subscribers, holds[s] # None
        PROVE  object'[holds[s]].metadata = object[holds[s]].metadata
    BY <1>2, <2>2 DEF IInv, Structure, Actors
  <2>3. \A y \in DOMAIN object' :
          object'[y].metadata = y /\ object'[y].method = None => Whole(y)
    BY <1>2, NoneAssumption DEF IInv, WholeData
  <2> QED
    BY <2>1, <2>2, <2>3 DEF WholeData, Whole
<1>10. LookUpsSucceed'
  BY <1>1, <1>2 DEF IInv, LookUpsSucceed
<1> QED
  BY <1>3, <1>5, <1>6, <1>7, <1>8, <1>9, <1>10 DEF IInv

LEMMA ReductionSteps ==
  ASSUME IInv, NEW a \in Actors,
         \/ \E g \in DecimationParameters : Decimate(a, g)
         \/ \E g \in CompressionParameters : Compress(a, g)
  PROVE  IInv'
<1>1. ASSUME NEW g \in DecimationParameters, Decimate(a, g) PROVE IInv'
  <2>1. /\ holds[a] # None /\ Reducible(holds[a])
        /\ a \in IF session = "Publish" THEN Publishers ELSE Subscribers
        /\ UNCHANGED <<session, directory, holds, stored, compressions,
                       reducing>>
    BY <1>1 DEF Decimate, Reduces
  <2>2. DOMAIN decimations' = DOMAIN decimations \cup {holds[a]}
    BY ZenonT(40), <1>1, WithIs DEF Decimate
  <2>3. CASE object' = ReducedWith(holds[a], "decimation")
    BY <2>1, <2>2, <2>3, ReducingKeeps
  <2>4. CASE object' = object
    BY <2>1, <2>2, <2>4
    DEF IInv, Structure, Originals, Original, Private, Marked, InSession,
        WholeData, Whole, LookUpsSucceed
  <2> QED
    BY <1>1, <2>3, <2>4 DEF Decimate
<1>2. ASSUME NEW g \in CompressionParameters, Compress(a, g) PROVE IInv'
  <2>1. /\ holds[a] # None /\ Reducible(holds[a])
        /\ a \in IF session = "Publish" THEN Publishers ELSE Subscribers
        /\ UNCHANGED <<session, directory, holds, stored, decimations,
                       reducing>>
        /\ object' = ReducedWith(holds[a], "compression")
    BY <1>2 DEF Compress, Reduces, Reducible
  <2>2. DOMAIN compressions' = DOMAIN compressions \cup {holds[a]}
    BY <1>2 DEF Compress, With
  <2> QED
    BY <2>1, <2>2, ReducingKeeps
<1> QED
  BY <1>1, <1>2

-----------------------------------------------------------------------------
(* Puts, gets and sessions                                                  *)

\* What a publisher puts in the Metadata of its object has been reduced only
\* if the object has.
LEMMA StoringKeeps ==
  ASSUME IInv, NEW p \in Publishers, NEW size, holds[p] # None,
         session = "Publish", Store(p, holds[p], size),
         UNCHANGED <<session, directory, holds, object, decimations,
                     compressions>>,
         reducing' \subseteq reducing
  PROVE  IInv'
<1> DEFINE x == holds[p]
<1>1. x \in DOMAIN object /\ object[x].metadata = x /\ x \in DOMAIN stored
  BY DEF IInv, Structure, Originals, Original, Actors
<1>2. /\ DOMAIN stored' = DOMAIN stored
      /\ stored'[x] = With(stored[x], p, [method |-> object[x].method,
                                         size |-> size])
      /\ \A y \in DOMAIN stored : y # x => stored'[y] = stored[y]
  BY <1>1 DEF Store
<1>3. Structure' /\ Originals' /\ Private' /\ Marked' /\ InSession'
      /\ LookUpsSucceed'
  BY <1>2 DEF IInv, Structure, Originals, Original, Private, Marked,
              InSession, LookUpsSucceed
<1>4. object[x].method = None /\ Whole(x) =>
        \A q \in DOMAIN stored'[x] : stored'[x][q].method = None
  BY <1>2 DEF Whole, With
<1>5. ASSUME NEW y \in DOMAIN stored, y # x, Whole(y)
      PROVE  \A q \in DOMAIN stored'[y] : stored'[y][q].method = None
  BY <1>2, <1>5 DEF Whole
<1>6. WholeData'
  <2>1. ASSUME NEW y \in DOMAIN object', object'[y].metadata = y,
               object'[y].method = None
        PROVE  \A q \in DOMAIN stored'[y] : stored'[y][q].method = None
    BY <1>1, <1>4, <1>5, <2>1 DEF IInv, WholeData, Structure
  <2> QED
    BY <2>1 DEF WholeData, Whole
<1> QED
  BY <1>3, <1>6 DEF IInv

LEMMA PutSteps ==
  ASSUME IInv, NEW p \in Publishers, PutFull(p) \/ StartPut(p) \/ FinishPut(p)
  PROVE  IInv'
<1>1. CASE PutFull(p)
  BY <1>1, StoringKeeps DEF PutFull, Publishing
<1>2. CASE StartPut(p)
  BY <1>2 DEF StartPut, Publishing, IInv, Structure, Originals, Original,
              Private, Marked, InSession, WholeData, Whole, LookUpsSucceed
<1>3. CASE FinishPut(p)
  <2>1. session = "Publish" /\ holds[p] # None /\ reducing' \subseteq reducing
    BY <1>3 DEF FinishPut, IInv, InSession
  <2>2. ASSUME NEW size, Store(p, holds[p], size) PROVE IInv'
    BY <1>3, <2>1, <2>2, StoringKeeps DEF FinishPut
  <2>3. CASE UNCHANGED stored
    BY <1>3, <2>1, <2>3
    DEF FinishPut, IInv, Structure, Originals, Original, Private, Marked,
        InSession, WholeData, Whole, LookUpsSucceed
  <2> QED
    BY <1>3, <2>2, <2>3 DEF FinishPut
<1> QED
  BY <1>1, <1>2, <1>3

\* A get changes what the copy covers, and its own reduction.
LEMMA GetKeeps ==
  ASSUME IInv, NEW s \in Subscribers, Get(s)
  PROVE  IInv'
<1> DEFINE x == holds[s]
<1>1. /\ x \in DOMAIN object /\ IsVariable(object[x])
      /\ UNCHANGED <<session, directory, holds, stored, compressions, reducing>>
  BY DEF Get, IInv, Structure, Actors
<1>2. /\ DOMAIN object' = DOMAIN object
      /\ \A y \in DOMAIN object : /\ IsVariable(object'[y])
                                 /\ object'[y].metadata = object[y].metadata
                                 /\ object'[y].method = object[y].method
                                 /\ object'[y].origin = object[y].origin
  BY <1>1 DEF Get, IInv, Structure, IsVariable
<1>3. DOMAIN decimations \subseteq DOMAIN decimations'
  BY DEF Get, With
<1>4. Structure' /\ Originals' /\ Private' /\ Marked'
  BY <1>1, <1>2 DEF IInv, Structure, Originals, Original, Private, Marked, Actors
<1>5. InSession'
  BY <1>1, <1>2 DEF IInv, InSession, Structure, Actors
<1>6. WholeData'
  BY <1>1, <1>2 DEF IInv, WholeData, Whole, Structure, Actors
<1>7. LookUpsSucceed'
  BY <1>1, <1>2, <1>3 DEF IInv, LookUpsSucceed
<1> QED
  BY <1>4, <1>5, <1>6, <1>7 DEF IInv

\* A session ends when the subscribers have dropped their copies and no put is
\* under way.
LEMMA ReopenKeeps ==
  ASSUME IInv, NEW mode \in {"Publish", "Subscribe"}, Reopen(mode)
  PROVE  IInv'
BY DEF Reopen, IInv, Structure, Originals, Original, Private, Marked,
       InSession, WholeData, Whole, LookUpsSucceed

-----------------------------------------------------------------------------
(* The invariant holds                                                      *)

LEMMA InitIInv == Init => IInv
<1> SUFFICES ASSUME Init PROVE IInv
  OBVIOUS
<1>1. DOMAIN object = {} /\ DOMAIN stored = {}
  BY DEF Init, EmptyMap
<1> QED
  BY <1>1 DEF Init, IInv, Structure, Originals, Original, Private, Marked,
              InSession, WholeData, Whole, LookUpsSucceed, Actors

LEMMA NextIInv == IInv /\ [Next]_vars => IInv'
<1> SUFFICES ASSUME IInv, [Next]_vars PROVE IInv'
  OBVIOUS
<1>1. ASSUME NEW p \in Publishers, Define(p) PROVE IInv'
  BY <1>1, DefineAgain, DefineFirst
<1>2. ASSUME NEW p \in Publishers, InquirePublisher(p) \/ Remove(p) PROVE IInv'
  BY <1>2, ReferringSteps
<1>3. ASSUME NEW p \in Publishers, PutFull(p) \/ StartPut(p) \/ FinishPut(p)
      PROVE  IInv'
  BY <1>3, PutSteps
<1>4. ASSUME NEW s \in Subscribers, InquireSubscriber(s) \/ Get(s) PROVE IInv'
  BY <1>4, InquireKeeps, GetKeeps
<1>5. ASSUME NEW a \in Actors, Drop(a) PROVE IInv'
  BY <1>5, ReferringSteps
<1>6. ASSUME NEW a \in Actors,
             \/ \E g \in DecimationParameters : Decimate(a, g)
             \/ \E g \in CompressionParameters : Compress(a, g)
      PROVE  IInv'
  BY <1>6, ReductionSteps
<1>7. ASSUME NEW mode \in {"Publish", "Subscribe"}, Reopen(mode) PROVE IInv'
  BY <1>7, ReopenKeeps
<1>8. CASE UNCHANGED vars
  BY <1>8 DEF vars, IInv, Structure, Originals, Original, Private, Marked,
              InSession, WholeData, Whole, LookUpsSucceed
<1> QED
  BY <1>1, <1>2, <1>3, <1>4, <1>5, <1>6, <1>7, <1>8 DEF Next

\* IInv is an invariant of a stream's variable and its reductions.
THEOREM ReductionInvariant == Spec => []IInv
BY InitIInv, NextIInv, PTL DEF Spec

\* Whatever was copied, refused, half reduced or created at the address of
\* another object, a method knows every object that is reduced with it:
\* at(&var) never throws and no null pointer is dereferenced.
THEOREM LookUpsNeverFail == Spec => []LookUpsSucceed
<1>1. IInv => LookUpsSucceed
  BY DEF IInv
<1> QED
  BY <1>1, ReductionInvariant, PTL

\* What a subscriber reduces was put whole: a copy that is its own reduction
\* exists in a session of the mode Subscribe only, and what is in its Metadata
\* by then was not reduced.
THEOREM NoDoubleReduction == Spec => []DataReducedOnce
<1>1. IInv => DataReducedOnce
  <2> SUFFICES ASSUME IInv, NEW s \in Subscribers, holds[s] # None,
                      object[holds[s]].origin = "Subscribe"
               PROVE  Whole(object[holds[s]].metadata)
    BY DEF DataReducedOnce, Whole
  <2> QED
    BY DEF IInv, InSession, WholeData
<1> QED
  BY <1>1, ReductionInvariant, PTL

-----------------------------------------------------------------------------
(* The parameters of the reductions, what is put under them and what the    *)
(* copies show of them: an invariant on top of the one above                *)

\* The blocks of publishers in an object are the ones they define, and what a
\* decimation leaves of them is not larger.
Locals ==
  \A x \in DOMAIN object :
    /\ IsMap(object[x].local, Blocks)
    /\ \A p \in Publishers \cap DOMAIN object[x].local :
         object[x].local[p] = Part[p]

Decimations ==
  /\ DOMAIN decimations \subseteq Addresses
  /\ \A x \in DOMAIN decimations :
       /\ IsDecimation(decimations[x])
       /\ \A p \in Publishers \cap DOMAIN decimations[x].blocks :
            decimations[x].blocks[p].count <= Part[p].count

Compressions ==
  /\ DOMAIN compressions \subseteq Addresses
  /\ \A x \in DOMAIN compressions : IsCompression(compressions[x])

\* A subscriber reduces by decimation.
SubscribersDecimate ==
  \A x \in DOMAIN object :
    object[x].origin = "Subscribe" => object[x].method = "decimation"

\* A publisher that reduces has a block, and subscribers saw something.
Reads == /\ \A p \in reducing : HasBlock(p, holds[p])
         /\ DOMAIN seen = Subscribers

VInv == /\ Locals /\ Decimations /\ Compressions /\ SubscribersDecimate
        /\ Reads /\ CopiesKeepWhatTheySaw /\ PutsNoMoreThanItsBlock

-----------------------------------------------------------------------------
(* Arithmetic                                                               *)

LEMMA DivRoundsDown ==
  ASSUME NEW n \in Nat, NEW k \in Nat \ {0}
  PROVE  /\ n \div k \in Nat
         /\ (n \div k) * k <= n
         /\ n < (n \div k) * k + k
OBVIOUS

\* Ceiling(n, k) is the least number whose k-fold reaches n.
LEMMA CeilingBound ==
  ASSUME NEW n \in Nat, NEW k \in Nat \ {0}, NEW c \in Nat
  PROVE  /\ Ceiling(n, k) \in Nat
         /\ Ceiling(n, k) <= c <=> n <= c * k
<1> DEFINE q == Ceiling(n, k)
<1>1. /\ q \in Nat
      /\ q * k <= n + k - 1
      /\ n + k - 1 < q * k + k
  BY DivRoundsDown, n + k - 1 \in Nat DEF Ceiling
<1> HIDE DEF q
<1>2. ASSUME q <= c PROVE q * k <= c * k
  BY <1>1, <1>2
<1>3. ASSUME c + 1 <= q PROVE (c + 1) * k <= q * k
  BY <1>1, <1>3
<1>4. (c + 1) * k = c * k + k /\ c * k \in Nat /\ q * k \in Nat
  BY <1>1
<1> QED
  BY <1>1, <1>2, <1>3, <1>4 DEF q

\* What remains of a block lies in the variable and is not larger.
LEMMA ReducedBlockFits ==
  ASSUME NEW b \in Blocks, NEW k \in Nat \ {0}
  PROVE  /\ ReducedBlock(b, k) \in Blocks
         /\ ReducedBlock(b, k).count <= b.count
<1> DEFINE f == b.start
           n == b.count
           first == Ceiling(f, k)
           next == Ceiling(f + n, k)
<1>1. f \in Nat /\ n \in Nat /\ f + n \in Nat /\ f + n <= Size /\ Size \in Nat
  BY SizeAssumption DEF Blocks
<1> HIDE DEF f, n
<1>2. first \in Nat /\ next \in Nat /\ f <= first * k
  BY <1>1, CeilingBound
<1>3. first <= f
  <2>1. f <= f * k
    BY <1>1
  <2> QED
    BY <1>1, <2>1, CeilingBound
<1>4. first <= next
  <2>1. f + n <= next * k
    BY <1>1, <1>2, CeilingBound
  <2>2. f <= next * k
    BY <2>1, <1>1, <1>2
  <2> QED
    BY <2>2, <1>1, <1>2, CeilingBound
<1>5. next <= first + n
  <2>1. (first + n) * k = first * k + n * k /\ n <= n * k
    BY <1>1, <1>2
  <2>2. f + n <= (first + n) * k
    BY <2>1, <1>1, <1>2
  <2> QED
    BY <2>2, <1>1, <1>2, CeilingBound, first + n \in Nat
<1> HIDE DEF first, next
<1>6. /\ MinOf(Size, next) - first \in 0 .. n
      /\ MinOf(Size, next) <= Size /\ first <= Size
  BY <1>1, <1>2, <1>3, <1>4, <1>5 DEF MinOf
<1>7. ReducedBlock(b, k) = [start |-> first, count |-> MinOf(Size, next) - first]
  BY DEF ReducedBlock, Block, first, next, f, n
<1>8. /\ first \in 0 .. Size /\ MinOf(Size, next) - first \in 0 .. Size
      /\ first + (MinOf(Size, next) - first) <= Size
  BY <1>1, <1>2, <1>6 DEF MinOf
<1> QED
  BY <1>6, <1>7, <1>8 DEF Blocks, n

\* The reduced shape of the variable is a shape.
LEMMA ReducedShapeFits ==
  ASSUME NEW k \in Nat \ {0}
  PROVE  Ceiling(Size, k) \in 1 .. Size
<1>1. Size \in Nat /\ Size >= 1
  BY SizeAssumption
<1>2. Size <= Size * k /\ ~(Size <= 0 * k)
  BY <1>1
<1> QED
  BY <1>1, <1>2, CeilingBound, 0 \in Nat

LEMMA WithKeepsMap ==
  ASSUME NEW f, NEW k, NEW v, NEW S, IsMap(f, S) \/ f = EmptyMap,
         k \in Actors, v \in S
  PROVE  IsMap(With(f, k, v), S)
BY DEF IsMap, With, EmptyMap

\* A noise never makes the ratio smaller than one.
LEMMA RatioReduces ==
  ASSUME NEW c, IsCompression(c), NEW noise \in Noises
  PROVE  EffectiveRatio(c, noise) \in Nat /\ EffectiveRatio(c, noise) >= 10
<1>1. /\ c.ratio \in Nat /\ c.ratio >= 1 /\ c.variability \in Int
      /\ noise \in {-1, 0, 1}
  BY NoiseAssumption DEF IsCompression
<1>2. c.ratio * (10 + c.variability * noise) \in Int
  <2>1. c.variability * noise \in Int
    BY <1>1
  <2> QED
    BY <1>1, <2>1
<1> QED
  BY <1>1, <1>2 DEF EffectiveRatio

-----------------------------------------------------------------------------
(* Parameters                                                               *)

\* What a call makes of a decimation is one, when it has a stride.
LEMMA ReducedIsDecimation ==
  ASSUME VInv, NEW x \in DOMAIN object, NEW a \in Actors, NEW k \in Nat \ {0},
         NEW i \in {"", "linear"}, NEW n, NEW f, NEW d,
         d \in [stride : {<<k>>}, interpolation : {i}, shape : {n}, blocks : {f}],
         IsMap(f, Blocks) \/ f = EmptyMap,
         \A p \in Publishers \cap DOMAIN f : f[p].count <= Part[p].count
  PROVE  LET r == Reduced(d, x, a)
         IN /\ IsDecimation(r)
            /\ \A p \in Publishers \cap DOMAIN r.blocks :
                 r.blocks[p].count <= Part[p].count
<1> DEFINE r == Reduced(d, x, a)
           b == IF a \in DOMAIN f \/ ~HasBlock(a, x) THEN f
                ELSE With(f, a, ReducedBlock(object[x].local[a], k))
<1>1. Ceiling(Size, k) \in 1 .. Size /\ <<k>>[1] = k
  BY ReducedShapeFits
<1>2. r \in [stride : {<<k>>}, interpolation : {i},
            shape : {Ceiling(Size, k)}, blocks : {b}]
  <2>1. d.stride[1] = k /\ d.blocks = f
    <3>1. d.stride = <<k>> /\ d.blocks = f
      OBVIOUS
    <3> QED
      BY <1>1, <3>1
  <2>2. ASSUME NEW m, NEW h
        PROVE  [d EXCEPT !.shape = m, !.blocks = h] \in
               [stride : {<<k>>}, interpolation : {i}, shape : {m}, blocks : {h}]
    OBVIOUS
  <2>3. r = [d EXCEPT !.shape = Ceiling(Size, k), !.blocks = b]
    BY <2>1 DEF Reduced
  <2> HIDE DEF r, b
  <2> QED
    BY <2>2, <2>3
<1>3. /\ IsMap(b, Blocks)
      /\ \A p \in Publishers \cap DOMAIN b : b[p].count <= Part[p].count
  <2>1. CASE a \in DOMAIN f \/ ~HasBlock(a, x)
    BY <2>1 DEF IsMap, EmptyMap
  <2>2. CASE a \notin DOMAIN f /\ HasBlock(a, x)
    <3> DEFINE l == object[x].local[a]
    <3>1. l \in Blocks /\ (a \in Publishers => l = Part[a])
      BY <2>2 DEF VInv, Locals, IsMap, HasBlock
    <3> HIDE DEF l
    <3>2. ReducedBlock(l, k) \in Blocks /\ ReducedBlock(l, k).count <= l.count
      BY <3>1, ReducedBlockFits
    <3>3. b = With(f, a, ReducedBlock(l, k))
      BY <2>2 DEF l
    <3> HIDE DEF b
    <3>4. IsMap(b, Blocks)
      BY <3>2, <3>3, WithKeepsMap
    <3>5. \A p \in Publishers \cap DOMAIN b : b[p].count <= Part[p].count
      BY <3>1, <3>2, <3>3 DEF With
    <3> QED
      BY <3>4, <3>5
  <2> QED
    BY <2>1, <2>2
<1> HIDE DEF b, r
<1>4. r.stride = <<k>> /\ r.blocks = b
  BY <1>2
<1>5. IsDecimation(r)
  <2>1. r.stride[1] = k
    BY <1>1, <1>4
  <2> QED
    BY <1>1, <1>2, <1>3, <1>4, <2>1 DEF IsDecimation
<1> QED
  BY <1>3, <1>4, <1>5 DEF r

\* What a call makes of a compression is one: a ratio below one is neither
\* given, nor derived, nor what was before.
LEMMA CompressionKeeps ==
  ASSUME VInv, NEW a \in Actors, NEW g \in CompressionParameters,
         Compress(a, g), holds[a] \in Addresses
  PROVE  Compressions'
<1> DEFINE x == holds[a]
           c == Configured(x, g)
           known == x \in DOMAIN compressions
           new == IF known \/ "ratio" \in DOMAIN g THEN c
                  ELSE [c EXCEPT !.ratio = Derived(c.profile, c.accuracy)]
           old == IF known THEN compressions[x]
                  ELSE [accuracy |-> 3, ratio |-> 0, profile |-> "fixed",
                        variability |-> 0]
<1>1. /\ old \in [accuracy : Nat, ratio : Nat, profile : Profiles,
                  variability : Int]
      /\ known => old.ratio >= 1
      /\ ~known => old.accuracy = 3 /\ old.profile = "fixed"
  BY DEF VInv, Compressions, IsCompression, Profiles
<1>2. c = [o \in DOMAIN old |-> GivenOr(g, o, old[o])]
  BY DEF Configured
<1>3. /\ ValidCompression(g) /\ RatioResolves(g, known, c.profile)
      /\ compressions' = With(compressions, x, new)
  BY DEF Compress
<1> HIDE DEF old, known
<1>4. DOMAIN old = {"accuracy", "ratio", "profile", "variability"}
  BY <1>1
<1>5. c = [accuracy |-> GivenOr(g, "accuracy", old.accuracy),
           ratio |-> GivenOr(g, "ratio", old.ratio),
           profile |-> GivenOr(g, "profile", old.profile),
           variability |-> GivenOr(g, "variability", old.variability)]
  BY <1>2, <1>4
<1>6. c \in [accuracy : Nat, ratio : Nat, profile : Profiles,
             variability : Int]
  BY <1>1, <1>3, <1>5, CompressionAssumption DEF GivenOr, ValidCompression
<1>7. known \/ "ratio" \in DOMAIN g => c.ratio >= 1
  BY <1>1, <1>3, <1>5 DEF GivenOr, RatioResolves
<1>8. ~known /\ "ratio" \notin DOMAIN g => Fit[c.profile][c.accuracy] \in Nat
  BY <1>1, <1>3, <1>5, <1>6, CompressionAssumption
  DEF GivenOr, RatioResolves, Profiles
<1> HIDE DEF c
<1>9. IsCompression(new)
  <2>1. CASE known \/ "ratio" \in DOMAIN g
    BY <1>6, <1>7, <2>1 DEF IsCompression
  <2>2. CASE ~known /\ "ratio" \notin DOMAIN g
    BY <1>6, <1>8, <2>2 DEF IsCompression, Derived
  <2> QED
    BY <2>1, <2>2
<1> HIDE DEF new
<1> QED
  BY <1>3, <1>9 DEF VInv, Compressions, With

\* What a call makes of a decimation is one: a stride of zero is neither given
\* nor what was before.
LEMMA DecimationKeeps ==
  ASSUME VInv, NEW a \in Actors, NEW g \in DecimationParameters,
         Decimate(a, g), holds[a] \in DOMAIN object \cap Addresses
  PROVE  Decimations'
<1> DEFINE x == holds[a]
           known == x \in DOMAIN decimations
           old == IF known THEN decimations[x]
                  ELSE [stride |-> <<>>, interpolation |-> "", shape |-> 0,
                        blocks |-> EmptyMap]
           d == Parameterized(x, g)
<1>1. /\ ValidDecimation(g) /\ d.stride # <<>>
      /\ decimations' = With(decimations, x, Reduced(d, x, a))
  BY DEF Decimate
<1>2. d = [old EXCEPT !.stride = GivenOr(g, "stride", @),
                      !.interpolation = GivenOr(g, "interpolation", @)]
  BY DEF Parameterized
<1>3. /\ old \in [stride : {old.stride}, interpolation : {"", "linear"},
                  shape : {old.shape}, blocks : {old.blocks}]
      /\ known => /\ old.stride = <<old.stride[1]>>
                  /\ old.stride[1] \in Nat \ {0}
      /\ ~known => old.stride = <<>>
      /\ IsMap(old.blocks, Blocks) \/ old.blocks = EmptyMap
      /\ \A p \in Publishers \cap DOMAIN old.blocks :
           old.blocks[p].count <= Part[p].count
  <2>1. CASE known
    BY <2>1 DEF VInv, Decimations, IsDecimation
  <2>2. CASE ~known
    BY <2>2 DEF EmptyMap
  <2> QED
    BY <2>1, <2>2
<1> HIDE DEF old, known
<1>4. d \in [stride : {GivenOr(g, "stride", old.stride)},
             interpolation : {GivenOr(g, "interpolation", old.interpolation)},
             shape : {old.shape}, blocks : {old.blocks}]
  BY <1>2, <1>3
<1>5. GivenOr(g, "interpolation", old.interpolation) \in {"", "linear"}
  BY <1>1, <1>3 DEF GivenOr, ValidDecimation
<1> HIDE DEF d
<1>6. PICK k \in Nat \ {0} : GivenOr(g, "stride", old.stride) = <<k>>
  <2>1. CASE "stride" \in DOMAIN g
    <3>1. g.stride \in Seq(Nat) /\ Len(g.stride) = 1 /\ g.stride[1] > 0
      BY <1>1, <2>1, DecimationAssumption DEF ValidDecimation
    <3>2. g.stride = <<g.stride[1]>> /\ g.stride[1] \in Nat
      BY <3>1
    <3> QED
      BY <2>1, <3>1, <3>2 DEF GivenOr
  <2>2. CASE "stride" \notin DOMAIN g
    BY <1>1, <1>3, <1>4, <2>2 DEF GivenOr
  <2> QED
    BY <2>1, <2>2
<1> DEFINE r == Reduced(d, x, a)
<1>7. /\ IsDecimation(r)
      /\ \A p \in Publishers \cap DOMAIN r.blocks :
           r.blocks[p].count <= Part[p].count
  <2> DEFINE i == GivenOr(g, "interpolation", old.interpolation)
             n == old.shape
             f == old.blocks
  <2>1. d \in [stride : {<<k>>}, interpolation : {i}, shape : {n}, blocks : {f}]
    BY <1>4, <1>6
  <2>2. /\ IsMap(f, Blocks) \/ f = EmptyMap
        /\ \A p \in Publishers \cap DOMAIN f : f[p].count <= Part[p].count
    BY <1>3
  <2>3. i \in {"", "linear"} /\ x \in DOMAIN object
    BY <1>5
  <2> HIDE DEF i, n, f, x
  <2> QED
    BY <2>1, <2>2, <2>3, ReducedIsDecimation
<1> HIDE DEF r
<1> QED
  BY <1>1, <1>7 DEF r, VInv, Decimations, With

-----------------------------------------------------------------------------
(* Steps that refer to objects and create them                              *)

\* What is there after such a step was there in o and st.
LEMMA SettleLeaves ==
  ASSUME NEW d, NEW h, NEW o, NEW st, Settle(d, h, o, st),
         \A x \in DOMAIN o : o[x].metadata \in DOMAIN st
  PROVE  /\ directory' = d /\ holds' = h
         /\ DOMAIN object' \subseteq DOMAIN o
         /\ \A x \in DOMAIN object' : object'[x] = o[x]
         /\ DOMAIN stored' \subseteq DOMAIN st
         /\ \A x \in DOMAIN stored' : stored'[x] = st[x]
BY DEF Settle, Restrict

\* What Locals and SubscribersDecimate say of an object.
Sound(v) ==
  /\ IsMap(v.local, Blocks)
  /\ \A p \in Publishers \cap DOMAIN v.local : v.local[p] = Part[p]
  /\ v.origin = "Subscribe" => v.method = "decimation"

LEMMA ObjectsAreSound ==
  VInv => \A x \in DOMAIN object : Sound(object[x])
BY DEF VInv, Locals, SubscribersDecimate, Sound

LEMMA SettlingKeeps ==
  ASSUME VInv, NEW d, NEW h, NEW o, NEW st, Settle(d, h, o, st),
         \A x \in DOMAIN o : o[x].metadata \in DOMAIN st /\ Sound(o[x]),
         \A x \in DOMAIN st : \/ st[x] = EmptyMap
                              \/ x \in DOMAIN stored /\ st[x] = stored[x]
  PROVE  Locals' /\ SubscribersDecimate' /\ PutsNoMoreThanItsBlock'
<1>1. /\ DOMAIN object' \subseteq DOMAIN o
      /\ \A x \in DOMAIN object' : object'[x] = o[x]
      /\ DOMAIN stored' \subseteq DOMAIN st
      /\ \A x \in DOMAIN stored' : stored'[x] = st[x]
  BY SettleLeaves
<1>2. Locals' /\ SubscribersDecimate'
  BY <1>1 DEF Locals, SubscribersDecimate, Sound
<1>3. PutsNoMoreThanItsBlock'
  BY <1>1 DEF VInv, PutsNoMoreThanItsBlock, EmptyMap
<1> QED
  BY <1>2, <1>3

\* A subscriber's copy that is still its copy is as it was.
SameCopy(s) ==
  LET x == holds[s] IN
  /\ holds'[s] = x /\ seen'[s] = seen[s]
  /\ object'[x].method = object[x].method
  /\ object'[x].origin = object[x].origin
  /\ object[x].method = "decimation" => decimations'[x] = decimations[x]
  /\ object[x].method = "compression" => compressions'[x] = compressions[x]

LEMMA CopyKept ==
  ASSUME CopiesKeepWhatTheySaw, NEW s \in Subscribers, SameCopy(s),
         holds'[s] # None, seen'[s].method # None
  PROVE  /\ object'[holds'[s]].origin = "Publish"
         /\ Reduction(holds[s])' = seen'[s]
BY DEF CopiesKeepWhatTheySaw, SameCopy, Reduction

LEMMA CopiesKept ==
  ASSUME CopiesKeepWhatTheySaw,
         \A s \in Subscribers :
           holds'[s] # None /\ seen'[s].method # None => SameCopy(s)
  PROVE  CopiesKeepWhatTheySaw'
BY CopyKept DEF CopiesKeepWhatTheySaw, Reduction

LEMMA ReferringValues ==
  ASSUME IInv, IInv', VInv,
         \/ \E p \in Publishers : InquirePublisher(p) \/ Remove(p)
         \/ \E a \in Actors : Drop(a)
  PROVE  VInv'
<1> DEFINE Refers(d, h) ==
             /\ Settle(d, h, object, stored)
             /\ \A p \in reducing : h[p] = holds[p]
             /\ \A s \in Subscribers :
                  h[s] # None => h[s] = holds[s] /\ seen'[s] = seen[s]
             /\ UNCHANGED <<decimations, compressions, reducing>>
             /\ DOMAIN seen' = Subscribers
<1>1. PICK d, h : Refers(d, h)
  <2>1. DOMAIN holds = Actors /\ DOMAIN seen = Subscribers
    BY DEF IInv, Structure, VInv, Reads
  <2>2. ASSUME NEW p \in Publishers, InquirePublisher(p)
        PROVE  Refers(directory, [holds EXCEPT ![p] = directory])
    BY <2>1, <2>2, RolesAssumption DEF InquirePublisher, Publishing, Actors
  <2>3. ASSUME NEW p \in Publishers, Remove(p) PROVE Refers(None, holds)
    BY <2>1, <2>3 DEF Remove
  <2>4. ASSUME NEW a \in Actors, Drop(a)
        PROVE  Refers(directory, [holds EXCEPT ![a] = None])
    BY <2>1, <2>4 DEF Drop, Actors
  <2> HIDE DEF Refers
  <2> QED
    BY <2>2, <2>3, <2>4
<1> HIDE DEF IInv
<1>2. \A x \in DOMAIN object : object[x].metadata \in DOMAIN stored
  BY DEF IInv, Structure
<1>3. /\ holds' = h /\ DOMAIN object' \subseteq DOMAIN object
      /\ \A x \in DOMAIN object' : object'[x] = object[x]
  BY <1>1, <1>2, SettleLeaves
<1>4. \A a \in Actors : holds'[a] # None => holds'[a] \in DOMAIN object'
  BY DEF IInv, Structure
<1>5. Locals' /\ SubscribersDecimate' /\ PutsNoMoreThanItsBlock'
  BY <1>1, <1>2, ObjectsAreSound, SettlingKeeps
<1>6. Reads'
  BY <1>1, <1>3, <1>4 DEF VInv, Reads, HasBlock, IInv, InSession, Actors
<1>7. CopiesKeepWhatTheySaw'
  <2>1. \A s \in Subscribers : holds'[s] # None => SameCopy(s)
    BY <1>1, <1>3, <1>4 DEF SameCopy, Actors
  <2> QED
    BY <2>1, CopiesKept DEF VInv
<1>8. Decimations' /\ Compressions'
  BY <1>1 DEF VInv, Decimations, Compressions
<1> QED
  BY <1>5, <1>6, <1>7, <1>8 DEF VInv

\* A publisher's block in the object of the directory, or in a new one.
LEMMA DefineValues ==
  ASSUME IInv, IInv', VInv, NEW p \in Publishers, Define(p)
  PROVE  VInv'
<1> DEFINE Defines(x, o, st) ==
             /\ Settle(x, [holds EXCEPT ![p] = x], o, st)
             /\ \A y \in DOMAIN o : o[y].metadata \in DOMAIN st /\ Sound(o[y])
             /\ \A y \in DOMAIN st : \/ st[y] = EmptyMap
                                     \/ y \in DOMAIN stored /\ st[y] = stored[y]
             /\ \A y \in DOMAIN object :
                  /\ y \in DOMAIN o /\ DOMAIN object[y].local \subseteq DOMAIN o[y].local
                  /\ o[y].method = object[y].method
                  /\ o[y].origin = object[y].origin
<1>1. /\ p \notin reducing /\ p \notin Subscribers /\ p \in Actors
      /\ UNCHANGED <<decimations, compressions, reducing, seen>>
  BY RolesAssumption DEF Define, Publishing, Actors
<1>2. Part[p] \in Blocks
  BY PartAssumption
<1>3. /\ \A y \in DOMAIN object : Sound(object[y])
      /\ \A y \in DOMAIN object : IsVariable(object[y])
      /\ \A y \in DOMAIN object : object[y].metadata \in DOMAIN stored
  BY ObjectsAreSound DEF IInv, Structure
<1>4. PICK x, o, st : Defines(x, o, st)
  <2>1. CASE directory # None
    <3> DEFINE x == directory
               l == With(object[x].local, p, Part[p])
               o == [object EXCEPT ![x].local = l]
    <3>1. Settle(x, [holds EXCEPT ![p] = x], o, stored)
      BY <2>1 DEF Define
    <3>2. x \in DOMAIN object
      BY <2>1 DEF IInv, Structure
    <3>3. /\ IsMap(l, Blocks)
          /\ \A q \in Publishers \cap DOMAIN l : l[q] = Part[q]
          /\ DOMAIN object[x].local \subseteq DOMAIN l
      <4>1. IsMap(object[x].local, Blocks)
        BY <1>3, <3>2 DEF Sound
      <4> DEFINE f == object[x].local
                 v == Part[p]
      <4> HIDE DEF f, v
      <4>2. IsMap(With(f, p, v), Blocks)
        BY <1>1, <1>2, <4>1, WithKeepsMap DEF f, v
      <4> QED
        BY <1>3, <3>2, <4>2 DEF Sound, With, f, v
    <3> HIDE DEF l
    <3>4. \A y \in DOMAIN object :
            /\ y # x => o[y] = object[y]
            /\ o[x].local = l /\ o[y].metadata = object[y].metadata
            /\ o[y].method = object[y].method
            /\ o[y].origin = object[y].origin
      BY <1>3, <3>2 DEF IsVariable
    <3>5. DOMAIN o = DOMAIN object
      OBVIOUS
    <3> HIDE DEF o
    <3>6. Defines(x, o, stored)
      BY <1>3, <3>1, <3>2, <3>3, <3>4, <3>5 DEF Sound
    <3> HIDE DEF Defines
    <3> QED
      BY <3>6
  <2>2. CASE directory = None
    <3> DEFINE v(x) == [local |-> With(EmptyMap, p, Part[p]), metadata |-> x,
                        method |-> None, origin |-> None]
    <3>1. PICK x \in Free :
            Settle(x, [holds EXCEPT ![p] = x], With(object, x, v(x)),
                   With(stored, x, EmptyMap))
      BY <2>2 DEF Define
    <3> DEFINE o == With(object, x, v(x))
               st == With(stored, x, EmptyMap)
    <3>2. x \notin DOMAIN object /\ x \notin DOMAIN stored
      BY DEF Free
    <3>3. Sound(v(x)) /\ v(x).metadata = x
      <4> DEFINE b == Part[p]
      <4>1. b \in Blocks
        BY <1>2
      <4> HIDE DEF b
      <4>2. IsMap(With(EmptyMap, p, b), Blocks)
        BY <1>1, <4>1, WithKeepsMap
      <4> QED
        BY <4>2, NoneAssumption DEF Sound, With, EmptyMap, b
    <3> HIDE DEF v
    <3>4. /\ DOMAIN o = DOMAIN object \cup {x} /\ o[x] = v(x)
          /\ DOMAIN st = DOMAIN stored \cup {x} /\ st[x] = EmptyMap
          /\ \A y \in DOMAIN object : o[y] = object[y]
          /\ \A y \in DOMAIN stored : st[y] = stored[y]
      BY <3>2 DEF With
    <3>5. Settle(x, [holds EXCEPT ![p] = x], o, st)
      BY <3>1
    <3> HIDE DEF o, st
    <3>6. \A y \in DOMAIN o : o[y].metadata \in DOMAIN st /\ Sound(o[y])
      BY <1>3, <3>3, <3>4
    <3>7. /\ \A y \in DOMAIN st : \/ st[y] = EmptyMap
                                  \/ y \in DOMAIN stored /\ st[y] = stored[y]
          /\ \A y \in DOMAIN object : y \in DOMAIN o /\ o[y] = object[y]
      <4>1. ASSUME NEW y \in DOMAIN st, y # x
            PROVE  y \in DOMAIN stored /\ st[y] = stored[y]
        BY <3>4, <4>1
      <4> QED
        BY <3>4, <4>1
    <3>8. Defines(x, o, st)
      BY <3>5, <3>6, <3>7
    <3> HIDE DEF Defines
    <3> QED
      BY <3>8
  <2> QED
    BY <2>1, <2>2
<1> DEFINE h == [holds EXCEPT ![p] = x]
<1> HIDE DEF h
<1>5. /\ holds' = h /\ DOMAIN object' \subseteq DOMAIN o
      /\ \A y \in DOMAIN object' : object'[y] = o[y]
  BY <1>4, SettleLeaves DEF h
<1>6. Locals' /\ SubscribersDecimate' /\ PutsNoMoreThanItsBlock'
  <2>1. Settle(x, h, o, st)
    BY <1>4 DEF h
  <2> QED
    BY <1>4, <2>1, SettlingKeeps
<1>7. \A a \in Actors : /\ holds'[a] # None => holds'[a] \in DOMAIN object'
                        /\ holds[a] # None => holds[a] \in DOMAIN object
                        /\ a # p => holds'[a] = holds[a]
  BY <1>5 DEF IInv, Structure, h
<1>8. Reads'
  BY <1>1, <1>4, <1>5, <1>7
  DEF VInv, Reads, HasBlock, IInv, InSession, Actors
<1>9. CopiesKeepWhatTheySaw'
  <2>1. \A s \in Subscribers : holds'[s] # None => SameCopy(s)
    BY <1>1, <1>4, <1>5, <1>7 DEF SameCopy, Actors
  <2> QED
    BY <2>1, CopiesKept DEF VInv
<1>10. Decimations' /\ Compressions'
  BY <1>1 DEF VInv, Decimations, Compressions
<1> QED
  BY <1>6, <1>8, <1>9, <1>10, <1>1 DEF VInv

\* A copy shows what its subscriber saw, whatever there was at its address.
LEMMA InquireValues ==
  ASSUME IInv, IInv', VInv, NEW s \in Subscribers, InquireSubscriber(s)
  PROVE  VInv'
<1> DEFINE x == directory
           v == Copy(x, s)
           h(y) == [holds EXCEPT ![s] = y]
<1>1. PICK y \in Free :
        /\ Settle(x, h(y), With(object, y, v), stored)
        /\ object[x].method = "decimation" =>
             decimations' = Propagate(decimations, x, y,
               [decimations[x] EXCEPT !.blocks =
                  With(EmptyMap, s, Block(0, decimations[x].shape))])
        /\ object[x].method # "decimation" => UNCHANGED decimations
        /\ object[x].method = "compression" =>
             compressions' = Propagate(compressions, x, y, compressions[x])
        /\ object[x].method # "compression" => UNCHANGED compressions
  BY DEF InquireSubscriber
<1>2. /\ x \in DOMAIN object /\ IsVariable(object[x])
      /\ UNCHANGED reducing
      /\ seen' = [seen EXCEPT ![s] = Reduction(x)]
      /\ s \in Actors /\ s \notin reducing
  BY RolesAssumption
  DEF InquireSubscriber, IInv, Structure, InSession, Actors
<1>3. y \in Addresses /\ y \notin DOMAIN object
  BY DEF Free
<1>4. /\ v.metadata = object[x].metadata /\ v.method = object[x].method
      /\ v.origin = object[x].origin
      /\ v.local = With(EmptyMap, s, Block(0, 0))
  BY <1>2 DEF Copy, IsVariable
<1>5. Sound(v)
  <2> DEFINE b == Block(0, 0)
  <2>1. b \in Blocks
    BY SizeAssumption DEF Block, Blocks
  <2> HIDE DEF b
  <2>2. IsMap(With(EmptyMap, s, b), Blocks)
    BY <1>2, <2>1, WithKeepsMap
  <2>3. Sound(object[x])
    BY <1>2, ObjectsAreSound
  <2> QED
    BY <1>4, <2>2, <2>3, RolesAssumption DEF Sound, With, EmptyMap, b
<1> HIDE DEF v
<1> DEFINE o == With(object, y, v)
           g == h(y)
<1>6. /\ DOMAIN o = DOMAIN object \cup {y} /\ o[y] = v
      /\ \A z \in DOMAIN object : o[z] = object[z]
  BY <1>3 DEF With
<1>7. /\ Settle(x, g, o, stored)
      /\ \A a \in Actors : a # s => g[a] = holds[a]
      /\ g[s] = y
  BY <1>1, <1>2 DEF IInv, Structure
<1> HIDE DEF o, g, h
<1>8. \A z \in DOMAIN o : o[z].metadata \in DOMAIN stored /\ Sound(o[z])
  BY <1>2, <1>4, <1>5, <1>6, ObjectsAreSound DEF IInv, Structure
<1>9. /\ holds' = g /\ DOMAIN object' \subseteq DOMAIN o
      /\ \A z \in DOMAIN object' : object'[z] = o[z]
  BY <1>7, <1>8, SettleLeaves
<1>10. Locals' /\ SubscribersDecimate' /\ PutsNoMoreThanItsBlock'
  <2> HIDE DEF x
  <2> QED
    BY <1>7, <1>8, SettlingKeeps
<1>11. /\ \A a \in Actors : holds'[a] # None => holds'[a] \in DOMAIN object'
       /\ \A a \in Actors : holds[a] # None => holds[a] \in DOMAIN object
       /\ y # None
  BY <1>3, NoneIsNoAddress DEF IInv, Structure
<1>12. Reads'
  BY <1>2, <1>6, <1>7, <1>9, <1>11
  DEF VInv, Reads, HasBlock, IInv, InSession, Actors
<1> DEFINE e == [decimations[x] EXCEPT !.blocks =
                  With(EmptyMap, s, Block(0, decimations[x].shape))]
<1>13. ASSUME object[x].method = "decimation"
       PROVE  /\ x \in DOMAIN decimations
              /\ decimations' = With(decimations, y, e)
  BY <1>1, <1>2, <1>13 DEF IInv, LookUpsSucceed, Propagate
<1>14. ASSUME object[x].method = "compression"
       PROVE  /\ x \in DOMAIN compressions
              /\ compressions' = With(compressions, y, compressions[x])
  BY <1>1, <1>2, <1>14 DEF IInv, LookUpsSucceed, Propagate
<1>15. ASSUME x \in DOMAIN decimations
       PROVE  /\ e.stride = decimations[x].stride
              /\ e.shape = decimations[x].shape
              /\ e.interpolation = decimations[x].interpolation
              /\ e.blocks = With(EmptyMap, s, Block(0, decimations[x].shape))
              /\ e \in [stride : {e.stride}, interpolation : {e.interpolation},
                        shape : {e.shape}, blocks : {e.blocks}]
  BY <1>15 DEF VInv, Decimations, IsDecimation
<1> HIDE DEF e
<1>16. Decimations'
  <2>1. ASSUME x \in DOMAIN decimations
        PROVE  /\ IsDecimation(e)
               /\ \A p \in Publishers \cap DOMAIN e.blocks :
                    e.blocks[p].count <= Part[p].count
    <3>1. /\ IsDecimation(decimations[x])
          /\ decimations[x].shape \in 0 .. Size /\ Size \in Nat
      <4>1. IsDecimation(decimations[x])
        BY <2>1 DEF VInv, Decimations
      <4>2. decimations[x].shape \in 1 .. Size
        BY <4>1 DEF IsDecimation
      <4> QED
        BY <4>1, <4>2, SizeAssumption
    <3> DEFINE b == Block(0, decimations[x].shape)
    <3>2. b \in Blocks
      BY <3>1 DEF Block, Blocks
    <3> HIDE DEF b
    <3>3. IsMap(With(EmptyMap, s, b), Blocks)
      BY <1>2, <3>2, WithKeepsMap
    <3>4. IsMap(e.blocks, Blocks) /\ Publishers \cap DOMAIN e.blocks = {}
      BY <1>15, <2>1, <3>3, RolesAssumption DEF b, With, EmptyMap
    <3>5. IsDecimation(e)
      BY <1>15, <2>1, <3>1, <3>4 DEF IsDecimation
    <3> QED
      BY <3>4, <3>5
  <2>2. CASE object[x].method = "decimation"
    BY <1>3, <1>13, <2>1, <2>2 DEF VInv, Decimations, With
  <2>3. CASE object[x].method # "decimation"
    BY <1>1, <2>3 DEF VInv, Decimations
  <2> QED
    BY <2>2, <2>3
<1>17. Compressions'
  <2>1. CASE object[x].method = "compression"
    BY <1>3, <1>14, <2>1 DEF VInv, Compressions, With
  <2>2. CASE object[x].method # "compression"
    BY <1>1, <2>2 DEF VInv, Compressions
  <2> QED
    BY <2>1, <2>2
<1>18. CopiesKeepWhatTheySaw'
  <2>1. ASSUME NEW t \in Subscribers, t # s, holds'[t] # None PROVE SameCopy(t)
    <3>1. /\ holds'[t] = holds[t] /\ holds[t] \in DOMAIN object
          /\ object'[holds[t]] = object[holds[t]] /\ seen'[t] = seen[t]
      BY <1>2, <1>6, <1>7, <1>9, <1>11, <2>1 DEF Actors
    <3>2. /\ holds[t] \in DOMAIN decimations =>
               decimations'[holds[t]] = decimations[holds[t]]
          /\ holds[t] \in DOMAIN compressions =>
               compressions'[holds[t]] = compressions[holds[t]]
      BY <1>1, <1>3, <1>13, <1>14, <3>1 DEF With
    <3> QED
      BY <3>1, <3>2 DEF SameCopy, IInv, LookUpsSucceed
  <2>2. /\ holds'[s] = y /\ object'[y] = v
        /\ seen'[s] = Reduction(x)
    BY <1>2, <1>6, <1>7, <1>9, <1>11 DEF VInv, Reads
  <2>3. object[x].method # None => object[x].origin = "Publish"
    BY <1>2, NoneIsNoAddress
    DEF IInv, Structure, Originals, Original, Marked, IsVariable
  <2>4. ASSUME object[x].method # None PROVE Reduction(y)' = Reduction(x)
    <3>1. CASE object[x].method = "decimation"
      <4>1. decimations'[y] = e /\ object'[y].method = "decimation"
        BY <1>4, <1>13, <2>2, <3>1 DEF With
      <4>2. Reduction(y)' =
              [method |-> "decimation",
               parameters |-> [stride |-> e.stride, shape |-> e.shape,
                               interpolation |-> e.interpolation]]
        BY <4>1 DEF Reduction
      <4>3. Reduction(x) =
              [method |-> "decimation",
               parameters |-> [stride |-> e.stride, shape |-> e.shape,
                               interpolation |-> e.interpolation]]
        BY <1>13, <1>15, <3>1 DEF Reduction
      <4> QED
        BY <4>2, <4>3
    <3>2. CASE object[x].method = "compression"
      <4>1. /\ compressions'[y] = compressions[x]
            /\ object'[y].method = "compression"
        BY <1>4, <1>14, <2>2, <3>2 DEF With
      <4>2. Reduction(y)' = [method |-> "compression",
                             parameters |-> compressions[x]]
        BY <4>1 DEF Reduction
      <4>3. Reduction(x) = [method |-> "compression",
                            parameters |-> compressions[x]]
        BY <3>2 DEF Reduction
      <4> QED
        BY <4>2, <4>3
    <3> QED
      BY <1>2, <2>4, <3>1, <3>2 DEF IsVariable
  <2>5. SUFFICES ASSUME NEW t \in Subscribers, holds'[t] # None,
                        seen'[t].method # None
                 PROVE  /\ object'[holds'[t]].origin = "Publish"
                        /\ Reduction(holds[t])' = seen'[t]
    BY DEF CopiesKeepWhatTheySaw
  <2>6. CASE t = s
    BY <1>4, <2>2, <2>3, <2>4, <2>5, <2>6 DEF Reduction
  <2>7. CASE t # s
    BY <2>1, <2>5, <2>7, CopyKept DEF VInv, SameCopy
  <2> QED
    BY <2>6, <2>7
<1> QED
  BY <1>10, <1>12, <1>16, <1>17, <1>18 DEF VInv

-----------------------------------------------------------------------------
(* Reductions, puts and gets                                                *)

\* The reduction of one object: the copies that show the publishers' reduction
\* are other objects, or refuse.
LEMMA ReducingValues ==
  ASSUME IInv, VInv, NEW a \in Actors, NEW m \in {"decimation", "compression"},
         holds[a] # None,
         a \in IF session = "Publish" THEN Publishers ELSE Subscribers,
         Reducible(holds[a]),
         object' = ReducedWith(holds[a], m) \/ object' = object,
         m = "compression" => session = "Publish",
         UNCHANGED <<holds, stored, reducing, seen>>,
         \A y \in DOMAIN decimations :
           y # holds[a] => decimations'[y] = decimations[y],
         \A y \in DOMAIN compressions :
           y # holds[a] => compressions'[y] = compressions[y],
         Decimations', Compressions'
  PROVE  VInv'
<1> DEFINE x == holds[a]
<1>1. x \in DOMAIN object /\ \A y \in DOMAIN object : IsVariable(object[y])
  BY DEF IInv, Structure
<1>2. /\ DOMAIN object' = DOMAIN object
      /\ \A y \in DOMAIN object : /\ object'[y].local = object[y].local
                                  /\ y # x => object'[y] = object[y]
      /\ object'[x].origin = "Subscribe" /\ object[x].origin # "Subscribe" =>
           object'[x].method = m /\ session = "Subscribe"
      /\ object'[x].method \in {m, object[x].method}
  BY <1>1, NoneAssumption DEF ReducedWith, IsVariable
<1>3. Locals' /\ Reads' /\ PutsNoMoreThanItsBlock'
  <2>1. Locals' /\ PutsNoMoreThanItsBlock'
    BY <1>2 DEF VInv, Locals, PutsNoMoreThanItsBlock
  <2>2. \A p \in reducing : holds[p] \in DOMAIN object
    BY DEF IInv, Structure, InSession, Actors
  <2> QED
    BY <1>2, <2>1, <2>2 DEF VInv, Reads, HasBlock
<1>4. SubscribersDecimate'
  <2>1. ASSUME object'[x].origin = "Subscribe"
        PROVE  object'[x].method = "decimation"
    <3>1. CASE object[x].origin # "Subscribe"
      BY <1>2, <2>1, <3>1, NoneAssumption
    <3>2. CASE object[x].origin = "Subscribe"
      <4>1. session = "Subscribe"
        BY <3>2 DEF IInv, InSession, Originals, Original
      <4> QED
        BY <1>1, <1>2, <3>2, <4>1 DEF VInv, SubscribersDecimate
    <3> QED
      BY <3>1, <3>2
  <2> QED
    BY <1>2, <2>1 DEF VInv, SubscribersDecimate
<1>5. CopiesKeepWhatTheySaw'
  <2>1. ASSUME NEW s \in Subscribers, holds[s] # None, seen[s].method # None
        PROVE  SameCopy(s)
    <3>1. object[holds[s]].origin = "Publish" /\ holds[s] \in DOMAIN object
      BY <2>1 DEF VInv, CopiesKeepWhatTheySaw, IInv, Structure, Actors
    <3>2. holds[s] # x
      BY <2>1, <3>1, RolesAssumption
      DEF Reducible, IInv, Private, Actors, InSession
    <3> QED
      BY <1>2, <3>1, <3>2 DEF SameCopy, IInv, LookUpsSucceed
  <2> QED
    BY <2>1, CopiesKept DEF VInv
<1> QED
  BY <1>3, <1>4, <1>5 DEF VInv

LEMMA ReductionValueSteps ==
  ASSUME IInv, VInv, NEW a \in Actors,
         \/ \E g \in DecimationParameters : Decimate(a, g)
         \/ \E g \in CompressionParameters : Compress(a, g)
  PROVE  VInv'
<1>1. holds[a] # None =>
        holds[a] \in DOMAIN object /\ DOMAIN object \subseteq Addresses
  BY DEF IInv, Structure
<1>2. ASSUME NEW g \in DecimationParameters, Decimate(a, g) PROVE VInv'
  <2>1. /\ holds[a] # None /\ Reducible(holds[a])
        /\ a \in IF session = "Publish" THEN Publishers ELSE Subscribers
        /\ UNCHANGED <<holds, stored, compressions, reducing, seen>>
        /\ object' = ReducedWith(holds[a], "decimation") \/ object' = object
        /\ \A y \in DOMAIN decimations :
             y # holds[a] => decimations'[y] = decimations[y]
    BY <1>2 DEF Decimate, Reduces, With
  <2>2. Decimations' /\ Compressions'
    BY <1>1, <1>2, <2>1, DecimationKeeps DEF VInv, Compressions
  <2> QED
    BY <2>1, <2>2, ReducingValues
<1>3. ASSUME NEW g \in CompressionParameters, Compress(a, g) PROVE VInv'
  <2>1. /\ holds[a] # None /\ Reducible(holds[a]) /\ session = "Publish"
        /\ a \in IF session = "Publish" THEN Publishers ELSE Subscribers
        /\ UNCHANGED <<holds, stored, decimations, reducing, seen>>
        /\ object' = ReducedWith(holds[a], "compression")
        /\ \A y \in DOMAIN compressions :
             y # holds[a] => compressions'[y] = compressions[y]
    BY <1>3 DEF Compress, Reduces, Reducible, With
  <2>2. Decimations' /\ Compressions'
    BY <1>1, <1>3, <2>1, CompressionKeeps DEF VInv, Decimations
  <2> QED
    BY <2>1, <2>2, ReducingValues
<1> QED
  BY <1>2, <1>3

\* What a put of this object can put, decimated, compressed or whole.
LEMMA PutSizesBound ==
  ASSUME VInv, LookUpsSucceed, NEW p \in Publishers, NEW x \in DOMAIN object,
         IsVariable(object[x]), HasBlock(p, x),
         object[x].method = "decimation" => p \in DOMAIN decimations[x].blocks,
         NEW size \in PutSizes(p, x)
  PROVE  size \in 0 .. Part[p].count * ElementSize
<1> DEFINE n == Part[p].count
<1>1. /\ Part[p] \in Blocks /\ n \in Nat
      /\ object[x].local[p] = Part[p] /\ ElementSize \in Nat
  <2>1. Part[p] \in Blocks /\ ElementSize \in Nat
    BY PartAssumption, SizeAssumption
  <2>2. object[x].local[p] = Part[p]
    BY DEF VInv, Locals, HasBlock
  <2> QED
    BY <2>1, <2>2 DEF Blocks
<1>2. n * ElementSize \in Nat
  BY <1>1
<1>3. CASE object[x].method = "decimation"
  <2> DEFINE c == decimations[x].blocks[p].count
  <2>1. size = c * ElementSize
    BY <1>3 DEF PutSizes
  <2>2. c \in Nat /\ c <= n
    <3>1. x \in DOMAIN decimations
      BY <1>3 DEF LookUpsSucceed
    <3>2. decimations[x].blocks[p] \in Blocks
      BY <1>3, <3>1 DEF VInv, Decimations, IsDecimation, IsMap
    <3> QED
      BY <1>3, <3>1, <3>2 DEF VInv, Decimations, Blocks
  <2> HIDE DEF c, n
  <2>3. c * ElementSize \in Nat /\ c * ElementSize <= n * ElementSize
    BY <1>1, <2>2
  <2> QED
    BY <1>2, <2>1, <2>3 DEF n
<1>4. CASE object[x].method = "compression"
  <2>1. PICK k \in Noises :
          size = Ceiling(10 * (n * ElementSize),
                         EffectiveRatio(compressions[x], k))
    BY <1>1, <1>4 DEF PutSizes, LocalSize
  <2> DEFINE e == EffectiveRatio(compressions[x], k)
             l == n * ElementSize
  <2>2. e \in Nat /\ e >= 10
    BY <1>4, RatioReduces DEF VInv, Compressions, LookUpsSucceed
  <2> HIDE DEF e, l
  <2>3. 10 * l <= l * e /\ 10 * l \in Nat /\ l \in Nat
    BY <1>2, <2>2 DEF l
  <2>4. Ceiling(10 * l, e) \in Nat /\ Ceiling(10 * l, e) <= l
    <3> DEFINE t == 10 * l
    <3>1. t \in Nat /\ t <= l * e /\ e \in Nat \ {0} /\ l \in Nat
      BY <2>2, <2>3
    <3> HIDE DEF t
    <3>2. Ceiling(t, e) \in Nat /\ Ceiling(t, e) <= l
      BY <3>1, CeilingBound
    <3> QED
      BY <3>2 DEF t
  <2> QED
    BY <2>1, <2>3, <2>4 DEF e, l
<1>5. CASE object[x].method = None
  BY <1>1, <1>2, <1>5, NoneAssumption DEF PutSizes, LocalSize
<1> QED
  BY <1>3, <1>4, <1>5 DEF IsVariable

\* Only the data changes.
LEMMA StoringValues ==
  ASSUME IInv, VInv, NEW p \in Publishers, NEW size, holds[p] # None,
         Store(p, holds[p], size), size \in 0 .. Part[p].count * ElementSize,
         UNCHANGED <<holds, object, decimations, compressions, seen>>,
         reducing' \subseteq reducing
  PROVE  VInv'
<1>1. PutsNoMoreThanItsBlock'
  BY DEF Store, With, VInv, PutsNoMoreThanItsBlock
<1>2. CopiesKeepWhatTheySaw'
  BY DEF VInv, CopiesKeepWhatTheySaw, Reduction
<1>3. Locals' /\ Decimations' /\ Compressions' /\ SubscribersDecimate' /\ Reads'
  BY DEF VInv, Locals, Decimations, Compressions, SubscribersDecimate, Reads,
         HasBlock
<1> QED
  BY <1>1, <1>2, <1>3 DEF VInv

LEMMA PutValues ==
  ASSUME IInv, VInv, NEW p \in Publishers, PutFull(p) \/ StartPut(p) \/ FinishPut(p)
  PROVE  VInv'
<1> DEFINE x == holds[p]
<1>1. x # None => x \in DOMAIN object /\ IsVariable(object[x])
  BY DEF IInv, Structure, Actors
<1>2. CASE PutFull(p)
  <2>1. PICK size \in PutSizes(p, x) : Store(p, x, size)
    BY <1>2 DEF PutFull
  <2>2. size \in 0 .. Part[p].count * ElementSize
    BY <1>1, <1>2, <2>1, PutSizesBound, NoneAssumption DEF PutFull, IInv
  <2> QED
    BY <1>2, <2>1, <2>2, StoringValues DEF PutFull
<1>3. CASE StartPut(p)
  <2>1. Reads'
    BY <1>3 DEF StartPut, VInv, Reads, HasBlock
  <2>2. CopiesKeepWhatTheySaw'
    BY <1>3 DEF StartPut, VInv, CopiesKeepWhatTheySaw, Reduction
  <2> QED
    BY <1>3, <2>1, <2>2
    DEF StartPut, VInv, Locals, Decimations, Compressions, SubscribersDecimate,
        PutsNoMoreThanItsBlock
<1>4. CASE FinishPut(p)
  <2>1. x # None /\ HasBlock(p, x) /\ reducing' \subseteq reducing
    BY <1>4 DEF FinishPut, IInv, InSession, VInv, Reads
  <2>2. CASE UNCHANGED stored
    <3>1. Reads'
      BY <1>4, <2>2 DEF FinishPut, VInv, Reads, HasBlock
    <3>2. CopiesKeepWhatTheySaw'
      BY <1>4, <2>2 DEF FinishPut, VInv, CopiesKeepWhatTheySaw, Reduction
    <3> QED
      BY <1>4, <2>2, <3>1, <3>2
      DEF FinishPut, VInv, Locals, Decimations, Compressions,
          SubscribersDecimate, PutsNoMoreThanItsBlock
  <2>3. CASE ~UNCHANGED stored
    <3>1. /\ \E size \in PutSizes(p, x) : Store(p, x, size)
          /\ object[x].method = "decimation" => p \in DOMAIN decimations[x].blocks
      BY <1>4, <2>3 DEF FinishPut
    <3>2. PICK size \in PutSizes(p, x) : Store(p, x, size)
      BY <3>1
    <3>3. size \in 0 .. Part[p].count * ElementSize
      BY <1>1, <2>1, <3>1, <3>2, PutSizesBound DEF IInv
    <3> QED
      BY <1>4, <2>1, <3>2, <3>3, StoringValues DEF FinishPut
  <2> QED
    BY <2>2, <2>3
<1> QED
  BY <1>2, <1>3, <1>4

\* A get gives the copy a block of the variable, and reduces it only if the
\* reduction is its own.
LEMMA GetValues ==
  ASSUME IInv, VInv, NEW s \in Subscribers, Get(s)
  PROVE  VInv'
<1> DEFINE x == holds[s]
           own == object[x].origin = "Subscribe"
           d == Reduced(decimations[x], x, s)
           b == Block(0, IF own THEN d.shape ELSE Size)
           l == With(object[x].local, s, b)
<1>1. /\ x \in DOMAIN object /\ \A y \in DOMAIN object : IsVariable(object[y])
      /\ object' = [object EXCEPT ![x].local = l]
      /\ decimations' = IF own THEN With(decimations, x, d) ELSE decimations
      /\ UNCHANGED <<holds, stored, compressions, reducing, seen>>
      /\ s \in Actors /\ s \notin Publishers
  BY RolesAssumption DEF Get, IInv, Structure, Actors
<1>2. ASSUME own
      PROVE  /\ x \in DOMAIN decimations /\ IsDecimation(d)
             /\ \A p \in Publishers \cap DOMAIN d.blocks :
                  d.blocks[p].count <= Part[p].count
  <2> DEFINE old == decimations[x]
             k == old.stride[1]
             i == old.interpolation
             n == old.shape
             f == old.blocks
  <2>1. x \in DOMAIN decimations
    BY <1>1, <1>2 DEF VInv, SubscribersDecimate, IInv, LookUpsSucceed
  <2>2. IsDecimation(old)
    BY <2>1 DEF VInv, Decimations
  <2>3. /\ k \in Nat \ {0} /\ i \in {"", "linear"} /\ IsMap(f, Blocks)
        /\ old \in [stride : {<<k>>}, interpolation : {i}, shape : {n},
                    blocks : {f}]
    BY <2>2 DEF IsDecimation
  <2>4. \A p \in Publishers \cap DOMAIN f : f[p].count <= Part[p].count
    BY <2>1 DEF VInv, Decimations
  <2>5. d = Reduced(old, x, s)
    OBVIOUS
  <2> HIDE DEF old, k, i, n, f, x, d
  <2> QED
    BY ZenonT(40), <1>1, <2>1, <2>3, <2>4, <2>5, ReducedIsDecimation
<1>3. b \in Blocks
  <2>1. own => d.shape \in 1 .. Size
    BY <1>2 DEF IsDecimation
  <2> HIDE DEF own, d
  <2> QED
    BY <2>1, SizeAssumption DEF Block, Blocks
<1>4. Decimations' /\ Compressions'
  <2>1. Decimations'
    <3> HIDE DEF d, own, x
    <3>1. CASE own
      BY <1>1, <1>2, <3>1 DEF VInv, Decimations, With
    <3>2. CASE ~own
      BY <1>1, <3>2 DEF VInv, Decimations
    <3> QED
      BY <3>1, <3>2
  <2> QED
    BY <1>1, <2>1 DEF VInv, Compressions
<1>5. /\ IsMap(l, Blocks) /\ DOMAIN object[x].local \subseteq DOMAIN l
      /\ \A p \in Publishers \cap DOMAIN l : l[p] = Part[p]
  <2> DEFINE f == object[x].local
  <2>1. IsMap(f, Blocks) /\ \A p \in Publishers \cap DOMAIN f : f[p] = Part[p]
    BY <1>1 DEF VInv, Locals
  <2> HIDE DEF f, b
  <2>2. IsMap(With(f, s, b), Blocks)
    BY <1>1, <1>3, <2>1, WithKeepsMap
  <2> QED
    BY <1>1, <2>1, <2>2 DEF With, f
<1> HIDE DEF l
<1>6. /\ DOMAIN object' = DOMAIN object /\ object'[x].local = l
      /\ \A y \in DOMAIN object : /\ y # x => object'[y] = object[y]
                                  /\ object'[y].method = object[y].method
                                  /\ object'[y].origin = object[y].origin
  BY <1>1 DEF IsVariable
<1>7. Locals' /\ SubscribersDecimate' /\ PutsNoMoreThanItsBlock'
  <2> HIDE DEF x, own, d
  <2> QED
    BY <1>1, <1>5, <1>6
    DEF VInv, Locals, SubscribersDecimate, PutsNoMoreThanItsBlock
<1>8. Reads'
  <2>1. \A p \in reducing : holds[p] \in DOMAIN object
    BY DEF IInv, Structure, InSession, Actors
  <2> HIDE DEF x, own, d
  <2> QED
    BY <1>1, <1>5, <1>6, <2>1 DEF VInv, Reads, HasBlock
<1>9. CopiesKeepWhatTheySaw'
  <2>1. ASSUME NEW t \in Subscribers, holds[t] # None, seen[t].method # None
        PROVE  SameCopy(t)
    <3>1. object[holds[t]].origin = "Publish" /\ holds[t] \in DOMAIN object
      BY <2>1 DEF VInv, CopiesKeepWhatTheySaw, IInv, Structure, Actors
    <3>2. own => holds[t] # x
      BY <3>1
    <3>3. /\ holds[t] \in DOMAIN decimations =>
               decimations'[holds[t]] = decimations[holds[t]]
          /\ UNCHANGED <<holds, compressions, seen>>
      <4> HIDE DEF d, own, x
      <4> QED
        BY <1>1, <3>2 DEF With
    <3> QED
      BY <1>6, <3>1, <3>3 DEF SameCopy, IInv, LookUpsSucceed
  <2> QED
    BY <1>1, <2>1, CopiesKept DEF VInv
<1> QED
  BY <1>4, <1>7, <1>8, <1>9 DEF VInv

-----------------------------------------------------------------------------
(* The invariant holds                                                      *)

LEMMA InitVInv == Init => VInv
<1> SUFFICES ASSUME Init PROVE VInv
  OBVIOUS
<1>1. /\ DOMAIN object = {} /\ DOMAIN stored = {}
      /\ DOMAIN decimations = {} /\ DOMAIN compressions = {}
      /\ DOMAIN seen = Subscribers /\ reducing = {}
      /\ \A s \in Subscribers : holds[s] = None
  BY DEF Init, EmptyMap, Actors
<1> QED
  BY <1>1 DEF VInv, Locals, Decimations, Compressions, SubscribersDecimate,
              Reads, CopiesKeepWhatTheySaw, PutsNoMoreThanItsBlock

LEMMA UnchangedValues ==
  ASSUME VInv, UNCHANGED <<holds, object, stored, decimations, compressions,
                           reducing, seen>>
  PROVE  VInv'
<1>1. CopiesKeepWhatTheySaw'
  BY DEF VInv, CopiesKeepWhatTheySaw, Reduction
<1> QED
  BY <1>1 DEF VInv, Locals, Decimations, Compressions, SubscribersDecimate,
              Reads, HasBlock, PutsNoMoreThanItsBlock

LEMMA NextVInv == IInv /\ IInv' /\ VInv /\ [Next]_vars => VInv'
<1> SUFFICES ASSUME IInv, IInv', VInv, [Next]_vars PROVE VInv'
  OBVIOUS
<1>1. ASSUME NEW p \in Publishers, Define(p) PROVE VInv'
  BY <1>1, DefineValues
<1>2. ASSUME NEW p \in Publishers, InquirePublisher(p) \/ Remove(p) PROVE VInv'
  BY <1>2, ReferringValues
<1>3. ASSUME NEW p \in Publishers, PutFull(p) \/ StartPut(p) \/ FinishPut(p)
      PROVE  VInv'
  BY <1>3, PutValues
<1>4. ASSUME NEW s \in Subscribers, InquireSubscriber(s) \/ Get(s) PROVE VInv'
  BY <1>4, InquireValues, GetValues
<1>5. ASSUME NEW a \in Actors, Drop(a) PROVE VInv'
  BY <1>5, ReferringValues
<1>6. ASSUME NEW a \in Actors,
             \/ \E g \in DecimationParameters : Decimate(a, g)
             \/ \E g \in CompressionParameters : Compress(a, g)
      PROVE  VInv'
  BY <1>6, ReductionValueSteps
<1>7. ASSUME NEW mode \in {"Publish", "Subscribe"}, Reopen(mode) PROVE VInv'
  BY <1>7, UnchangedValues DEF Reopen
<1>8. CASE UNCHANGED vars
  BY <1>8, UnchangedValues DEF vars
<1> QED
  BY <1>1, <1>2, <1>3, <1>4, <1>5, <1>6, <1>7, <1>8 DEF Next

THEOREM ValuesInvariant == Spec => []VInv
<1>1. Init => IInv /\ VInv
  BY InitIInv, InitVInv
<1>2. IInv /\ VInv /\ [Next]_vars => IInv' /\ VInv'
  BY NextIInv, NextVInv
<1> QED
  BY <1>1, <1>2, PTL DEF Spec

\* The state is well formed: nothing refers to an object that is gone, no
\* stride is ever zero and no ratio below one, whatever the calls left out and
\* whatever was found at an address.
THEOREM ReductionsAreWellFormed == Spec => []TypeOK
<1>1. IInv /\ VInv => TypeOK
  BY DEF IInv, Structure, InSession, VInv, Locals, Decimations, Compressions,
         TypeOK
<1> QED
  BY <1>1, ReductionInvariant, ValuesInvariant, PTL

\* A subscriber's copy of a reduced variable stays as it was at the inquiry,
\* whatever the publishers and the other subscribers reduce afterwards.
THEOREM CopiesAreIndependent == Spec => []CopiesKeepWhatTheySaw
<1>1. VInv => CopiesKeepWhatTheySaw
  BY DEF VInv
<1> QED
  BY <1>1, ValuesInvariant, PTL

\* A reduction never puts more than the publisher's block.
THEOREM ReductionsReduce == Spec => []PutsNoMoreThanItsBlock
<1>1. VInv => PutsNoMoreThanItsBlock
  BY DEF VInv
<1> QED
  BY <1>1, ValuesInvariant, PTL
=============================================================================
