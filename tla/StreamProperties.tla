--------------------------- MODULE StreamProperties ---------------------------
(* What the DTL and its streams promise to the actors that connect, open and *)
(* close.  The first part holds whatever clients do; the second part is      *)
(* about clients that open the stream in rounds (Gathered); the third is     *)
(* what the documentation says and the code does not always do.              *)
EXTENDS ReductionRoles

Places == {"out", "ready", "created", "open", "barrier", "last", "crashed"}
Settings == [type : EngineTypes \cup {Undefined}, method : Methods \cup {Undefined}]

\* Every variable has its type; an actor is in at most one call and one session.
TypeOK ==
  /\ inbox \in Seq(Request) /\ serving \in Request \cup {NoCall}
  /\ resumed \in Seq(Actors) /\ getters \in Seq(Actors) /\ answers \in Seq(Calls)
  /\ active \in SUBSET Actors
  /\ calling \in [Actors -> Calls \cup {NoCall}]
  /\ told \in [Actors -> Calls \cup {NoCall}] /\ calls \in [Actors -> 0 .. MaxCalls]
  /\ known \in BOOLEAN /\ settings \in Settings
  /\ engine \in 0 .. Len(built) /\ Len(built) <= MaxEngines
  /\ accessMode \in Modes
  /\ built \in Seq(Settings)
  /\ registered \in [Engines -> [Modes -> SUBSET Actors]]
  /\ barrier \in [Engines -> [Modes -> Nat]]
  /\ files \in [Engines -> SUBSET (Actors \X Nat)]
  /\ users \in [Engines -> SUBSET Modes]
  /\ at \in [Actors -> Places] /\ mode \in [Actors -> Modes \cup {Undefined}]
  /\ held \in [Actors -> 0 .. Len(built)] /\ round \in [Actors -> 0 .. MaxRounds]
  /\ defined \in BOOLEAN /\ view \in [Actors -> Objects \cup {Undefined}]
  /\ origin \in [Objects -> Modes \cup {Undefined}]

-----------------------------------------------------------------------------
(* Whatever the client does                                                 *)

AnswerToCaller ==
  \A a \in Actors : calling[a] # NoCall /\ calling'[a] = NoCall
    => told'[a] = calling[a]
ActiveWereTold ==
  \A a \in Actors : calling[a] = NoCall => (a \in active <=> told[a] = "connect")

\* A call returns with the answer to its own request, though answers do not
\* say whom they are for: with another one a pointer to a bool would be taken
\* for a pointer to the DTL.  And the connections that the server counts are
\* those of the actors that were told so, also when an actor connects twice or
\* disconnects too often.
CallsAreAnswered == [][AnswerToCaller /\ ActiveWereTold']_vars

\* In whatever order actors add the stream, set it, fail to set it and open
\* it, its engines have the type and the transport that the stream has now,
\* and these go together.
EnginesMatchSettings ==
  \A e \in 1 .. Len(built) :
    built[e] = settings /\ (built[e].type = "File" <=> built[e].method = "File")

-----------------------------------------------------------------------------
(* Clients that are Gathered                                                *)

InEngine(a) == at[a] \in InSession

\* All those in a session with the stream are in the same engine, the one it
\* points to while nobody has closed.
OneEngine ==
  /\ \A a, b \in Actors : InEngine(a) /\ InEngine(b) => held[a] = held[b]
  /\ \A a \in Actors : at[a] = "open" => a \in registered[held[a]][mode[a]]
  /\ (\A a \in Actors : at[a] \notin {"barrier", "last"}) =>
       \A a, b \in Actors : at[a] = "open" /\ at[b] = "created" => engine = held[a]

\* Nobody enters an engine whose barriers were sized without it, and two
\* publishers of an engine do not share a file.
JoinsInTime ==
  \A a \in Actors : at[a] = "created" =>
    engine # 0 /\ \A m \in Modes : barrier[engine][m] = 0
OwnFile ==
  \A e \in Engines : \A f, g \in files[e] :
    f[1] # g[1] /\ {f[1], g[1]} \subseteq registered[e]["Publish"] => f[2] # g[2]
SessionsAreShared == OneEngine /\ JoinsInTime /\ OwnFile

\* What subscribers may do to a variable: decimate it, unless its publishers
\* have reduced it.
Respects(a, r) ==
  mode[a] = "Subscribe" => r = "decimation" /\ origin[view[a]] # "Publish"

\* While an engine has subscribers only, they keep to that, also when they
\* work on the stream's own object.
SubscribersKeepToTheirRole ==
  [][\A a \in Actors, r \in Reductions :
       Reduce(a, r) /\ Cardinality(users[held[a]]) = 1 => Respects(a, r)]_vars

\* A call to the DTL returns, and so does a close: the barrier that it waits
\* in expects the actors that will arrive.
CallsReturn == \A a \in Actors : calling[a] # NoCall ~> calling[a] = NoCall
ClosesReturn == \A a \in Actors : at[a] = "barrier" ~> at[a] = "ready"
NobodyIsStuck == CallsReturn /\ ClosesReturn

=============================================================================
