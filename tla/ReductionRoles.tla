---------------------------- MODULE ReductionRoles ----------------------------
(* Who may reduce a variable.  A publisher that defines a variable works on  *)
(* the stream's own object; a subscriber that inquires about it should work  *)
(* on a copy, which inherits the reduction made by the publishers            *)
(* (Stream::define_variable, Stream::inquire_variable,                       *)
(* Variable::set_reduction_operation).  One variable; the parameters of the  *)
(* reductions are valid (VariableBlocks treats the others).                  *)
EXTENDS StreamLifecycle

CONSTANTS
  Shared          \* the stream's own object of the variable

Reductions == {"decimation", "compression"}
Objects == Actors \cup {Shared}

ASSUME ObjectsAssumption == Shared \notin Actors

VARIABLES
  defined,        \* the variable is in the stream's variables_
  view,           \* actor -> the object it works on, or Undefined
  origin          \* object -> its reduction_origin_, Undefined if not reduced

roleVars == <<defined, view, origin>>
vars == <<connectionVars, streamVars, roleVars>>

Init ==
  /\ ConnectionInit /\ StreamInit
  /\ defined = FALSE
  /\ view = [a \in Actors |-> Undefined]
  /\ origin = [x \in Objects |-> Undefined]

\* Actor a works on the stream's object, and any copy that it had is gone.
Share(a) ==
  /\ view' = [view EXCEPT ![a] = Shared]
  /\ origin' = [origin EXCEPT ![a] = Undefined]

\* define_variable, whether the variable exists or not.
Define(a) ==
  /\ Client(a, {"ready", "open"})
  /\ defined' = TRUE
  /\ Share(a)

\* Who gets the object itself from an inquiry: actors that are not subscribers
\* of the stream's engine.
SharesObject(a) == engine = 0 \/ a \in registered[engine]["Publish"]

\* inquire_variable: a copy inherits the reduction of the object.
Inquire(a) ==
  /\ Client(a, {"ready", "open"}) /\ defined
  /\ IF SharesObject(a)
       THEN Share(a)
       ELSE /\ view' = [view EXCEPT ![a] = a]
            /\ origin' = [origin EXCEPT ![a] = origin[Shared]]
  /\ UNCHANGED defined

\* set_reduction_operation refuses on the role of the stream, not on that of
\* the caller.
Allowed(x, r) ==
  accessMode = "Subscribe" => r # "compression" /\ origin[x] # "Publish"

Reduce(a, r) ==
  LET x == view[a] IN
  /\ Client(a, {"open"}) /\ x # Undefined
  /\ Allowed(x, r)
  /\ origin' = [origin EXCEPT ![x] = IF @ = Undefined THEN accessMode ELSE @]
  /\ UNCHANGED <<defined, view>>

RoleStep ==
  \E a \in Actors : \/ Define(a) \/ Inquire(a)
                    \/ \E r \in Reductions : Reduce(a, r)

-----------------------------------------------------------------------------
(* An actor connects and disconnects outside its sessions with the stream.  *)

Call ==
  \E a \in Actors, c \in Calls :
    /\ at[a] \in {"out", "ready"} /\ calls[a] + round[a] < MaxCalls
    /\ Ask(a, c)

Next ==
  \/ (Call \/ ConnectionStep) /\ UNCHANGED <<streamVars, roleVars>>
  \/ StreamStep /\ UNCHANGED <<connectionVars, roleVars>>
  \/ RoleStep /\ UNCHANGED <<connectionVars, streamVars>>

Spec == Init /\ [][Next]_vars

\* SimGrid schedules every actor that can run, the server among them; a client
\* that has begun to open goes on, and it closes.
Serve == (Take \/ Answer) /\ UNCHANGED <<streamVars, roleVars>>
GoOn(a) ==
  \/ GetAnswer(a) /\ UNCHANGED <<streamVars, roleVars>>
  \/ (Register(a) \/ Close(a) \/ CloseStream(a))
     /\ UNCHANGED <<connectionVars, roleVars>>

FairSpec == Spec /\ WF_vars(Serve) /\ \A a \in Actors : WF_vars(GoOn(a))
=============================================================================
