--------------------------- MODULE StreamLifecycle ---------------------------
(* One stream of the DTL and the engines that it creates: how actors obtain  *)
(* it (DTL::DTL, DTL::add_stream), set its engine type and its transport,    *)
(* open it (several at once), begin, and close it (Stream, Engine::close,    *)
(* ActorRegistry).  What happens in transactions is in the engines' modules. *)
(*                                                                           *)
(* A critical section that holds a mutex without blocking is one action.     *)
(* Unlocking is a simcall, after which others may run: Stream::open is       *)
(* Create, up to the end of its critical section, and Register.              *)
EXTENDS ConnectionManager, FiniteSets

CONSTANTS
  Undefined,      \* a setting that nobody has made
  EngineTypes,    \* subset of {"File", "Staging"}
  Methods,        \* subset of {"File", "Mailbox", "MQ"}
  MaxEngines,     \* engines created in a behaviour
  MaxRounds,      \* sessions of an actor with the stream
  Gathered        \* actors open in rounds: none begins or closes before all
                  \* have opened, none opens again before all have closed

Modes == {"Publish", "Subscribe"}
Engines == 1 .. MaxEngines

ASSUME SettingsAssumption ==
  /\ EngineTypes \subseteq {"File", "Staging"}
  /\ Methods \subseteq {"File", "Mailbox", "MQ"}
  /\ Undefined \notin EngineTypes \cup Methods \cup Modes
ASSUME BoundsAssumption == MaxEngines \in Nat /\ MaxRounds \in Nat
ASSUME ClientAssumption == Gathered \in BOOLEAN

VARIABLES
  known,          \* the stream is in the DTL's streams_
  settings,       \* its engine_type_ and transport_method_
  engine,         \* its engine_: an engine, 0 for a null pointer
  accessMode,     \* its access_mode_
  built,          \* the settings that each engine was created with
  registered,     \* engine -> mode -> the actors in that ActorRegistry
  barrier,        \* engine -> mode -> size of that registry's barrier, or 0
  files,          \* engine -> pairs of a publisher and its file's number
  users,          \* engine -> the modes it was ever opened in (auxiliary)
  at,             \* actor -> where it is
  mode,           \* actor -> the mode of its session, or Undefined
  held,           \* actor -> the engine that open returned to it
  round           \* actor -> sessions it has finished or left out

stream == <<known, settings, engine, accessMode>>
engineVars == <<built, registered, barrier, files, users>>
sessions == <<at, mode, held, round>>
streamVars == <<stream, engineVars, sessions>>

NoSettings == [type |-> Undefined, method |-> Undefined]

\* A File engine takes the File transport, a Staging engine the other two; and
\* the same that does not look at the transport of a File engine.
OnlyStaging(type, method) == method = "File" => type = "File"
Compatible(type, method) == (type = "File") <=> (method = "File")

\* The configuration file may have created the stream, with both settings.
Configured ==
  {s \in [type : EngineTypes, method : Methods] : Compatible(s.type, s.method)}

StreamInit ==
  /\ known \in BOOLEAN
  /\ settings \in IF known THEN Configured ELSE {NoSettings}
  /\ engine = 0 /\ accessMode = "Publish" /\ built = <<>>
  /\ registered = [e \in Engines |-> [m \in Modes |-> {}]]
  /\ barrier = [e \in Engines |-> [m \in Modes |-> 0]]
  /\ files = [e \in Engines |-> {}]
  /\ users = [e \in Engines |-> {}]
  /\ at = [a \in Actors |-> "out"]
  /\ mode = [a \in Actors |-> Undefined]
  /\ held = [a \in Actors |-> 0]
  /\ round = [a \in Actors |-> 0]

\* A client uses the DTL between connect and disconnect.
Client(a, places) == calling[a] = NoCall /\ told[a] = "connect" /\ at[a] \in places
Goto(a, to) == [at EXCEPT ![a] = to]

-----------------------------------------------------------------------------
(* Settings                                                                 *)

\* set_engine_type and set_transport_method: the first definition counts, a
\* second one throws, and so does one that does not go with the other setting.
WithType(s, t) ==
  IF s.type = Undefined /\ (s.method = Undefined \/ Compatible(t, s.method))
    THEN [s EXCEPT !.type = t] ELSE s
WithMethod(s, m) ==
  IF s.method = Undefined /\ (s.type = Undefined \/ Compatible(s.type, m))
    THEN [s EXCEPT !.method = m] ELSE s

\* add_stream, with or without settings.  An exception of set_transport_method
\* reaches the caller and leaves the new stream in the map, half set.
AddStream(a, t, m) ==
  /\ Client(a, {"out"})
  /\ LET typed == IF t = Undefined THEN NoSettings ELSE WithType(NoSettings, t)
         both == IF m = Undefined THEN typed ELSE WithMethod(typed, m)
     IN  IF known
           THEN at' = Goto(a, "ready") /\ UNCHANGED <<known, settings>>
           ELSE /\ known' = TRUE /\ settings' = both
                /\ at' = IF both.method = m THEN Goto(a, "ready") ELSE at
  /\ UNCHANGED <<engine, accessMode, engineVars, mode, held, round>>

\* One of the two setters called on the stream.
Set(a) ==
  /\ Client(a, {"ready", "open"})
  /\ \/ \E t \in EngineTypes : settings' = WithType(settings, t)
     \/ \E m \in Methods : settings' = WithMethod(settings, m)
  /\ settings' # settings
  /\ UNCHANGED <<known, engine, accessMode, engineVars, sessions>>

-----------------------------------------------------------------------------
(* Opening                                                                  *)

MayOpen(a) ==
  /\ round[a] < MaxRounds /\ calls[a] + round[a] < MaxCalls
  /\ Gathered => \A b \in Actors : round[b] >= round[a]

\* Whether open creates an engine: if there is none; and the same without the
\* check inside the critical section.
Always == TRUE
Needed == engine = 0

\* The role that the stream takes from the actor that creates its engine; and
\* the first one that it ever took.
FirstEver(m) == IF built = <<>> THEN m ELSE accessMode
RoleOf(m) == m

\* validate_open_parameters and create_engine_if_needed.
Create(a, m) ==
  /\ Client(a, {"ready"}) /\ MayOpen(a)
  /\ settings.type # Undefined /\ settings.method # Undefined
  /\ IF Needed
       THEN /\ Len(built) < MaxEngines
            /\ built' = Append(built, settings)
            /\ engine' = Len(built) + 1
            /\ accessMode' = RoleOf(m)
       ELSE UNCHANGED <<built, engine, accessMode>>
  /\ users' = [users EXCEPT ![engine'] = @ \cup {m}]
  /\ at' = Goto(a, "created") /\ mode' = [mode EXCEPT ![a] = m]
  /\ UNCHANGED <<known, settings, registered, barrier, files, held, round>>

\* FileTransport::add_publisher opens the file numbered by the publishers that
\* are registered, the caller not yet among them; and as if it were.
ZeroBased(e) == Cardinality(registered[e]["Publish"]) - 1
FileNumber(e) == Cardinality(registered[e]["Publish"])

\* register_actor_with_engine, which reads engine_ again, and the return.
Register(a) ==
  /\ at[a] = "created"
  /\ IF engine = 0
       THEN at' = Goto(a, "crashed") /\ UNCHANGED <<registered, files, held>>
       ELSE /\ registered' = [registered EXCEPT ![engine][mode[a]] = @ \cup {a}]
            /\ files' = IF mode[a] = "Publish" /\ built[engine].type = "File"
                          THEN [files EXCEPT ![engine] =
                                  {f \in @ : f[1] # a} \cup {<<a, FileNumber(engine)>>}]
                          ELSE files
            /\ held' = [held EXCEPT ![a] = engine]
            /\ at' = Goto(a, "open")
  /\ UNCHANGED <<stream, built, barrier, users, mode, round>>

\* An actor that leaves out a round.
Skip(a) ==
  /\ at[a] \in {"out", "ready"} /\ calling[a] = NoCall /\ MayOpen(a)
  /\ round' = [round EXCEPT ![a] = @ + 1]
  /\ UNCHANGED <<stream, engineVars, at, mode, held>>

-----------------------------------------------------------------------------
(* Transactions and closing                                                 *)

InSession == {"open", "barrier", "last"}
Together(a) ==
  Gathered => \A b \in Actors : \/ round[b] > round[a]
                                \/ round[b] = round[a] /\ at[b] \in InSession

\* The size of a new barrier: the side's actors, or those of both sides.
EverybodyOf(e, m) == Cardinality(registered[e]["Publish"] \cup registered[e]["Subscribe"])
SizeOf(e, m) == Cardinality(registered[e][m])

\* The first transaction of a side creates its barrier (get_or_create_barrier);
\* the barriers that transactions go through are empty again when they end.
Begin(a) ==
  /\ Client(a, {"open"}) /\ Together(a)
  /\ barrier[held[a]][mode[a]] = 0
  /\ barrier' = [barrier EXCEPT ![held[a]][mode[a]] = SizeOf(held[a], mode[a])]
  /\ UNCHANGED <<stream, built, registered, files, users, sessions>>

\* The actors of a's side that wait in the barrier of its engine.
Waiting(a) ==
  {b \in Actors : at[b] = "barrier" /\ held[b] = held[a] /\ mode[b] = mode[a]}

\* The session of these actors ends: they hold no engine any more.
Finish(members, to) ==
  /\ at' = [b \in Actors |-> IF b \in members THEN "ready" ELSE to[b]]
  /\ held' = [b \in Actors |-> IF b \in members THEN 0 ELSE held[b]]
  /\ mode' = [b \in Actors |-> IF b \in members THEN Undefined ELSE mode[b]]
  /\ round' = [b \in Actors |-> IF b \in members THEN round[b] + 1 ELSE round[b]]

\* Engine::close: leave the registry, then is_last_at_barrier, which is false
\* at once if no transaction has created the barrier.
Close(a) ==
  LET e == held[a]  size == barrier[held[a]][mode[a]] IN
  /\ Client(a, {"open"}) /\ Together(a)
  /\ registered' = [registered EXCEPT ![e][mode[a]] = @ \ {a}]
  /\ \/ size = 0 /\ Finish({a}, at)
     \/ /\ Cardinality(Waiting(a)) + 1 < size
        /\ at' = Goto(a, "barrier") /\ UNCHANGED <<held, mode, round>>
     \/ /\ size > 0 /\ Cardinality(Waiting(a)) + 1 >= size
        /\ Finish(Waiting(a), Goto(a, "last"))
  /\ UNCHANGED <<stream, built, barrier, files, users>>

\* close_stream by the last actor of a side: the stream forgets its engine,
\* whichever that is by now.
CloseStream(a) ==
  /\ at[a] = "last"
  /\ engine' = 0
  /\ Finish({a}, at)
  /\ UNCHANGED <<known, settings, accessMode, engineVars>>

StreamStep ==
  \E a \in Actors :
    \/ \E t \in EngineTypes \cup {Undefined}, m \in Methods \cup {Undefined} :
         AddStream(a, t, m)
    \/ Set(a) \/ Skip(a)
    \/ \E m \in Modes : Create(a, m)
    \/ Register(a) \/ Begin(a) \/ Close(a) \/ CloseStream(a)
=============================================================================
