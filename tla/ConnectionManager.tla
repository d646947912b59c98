-------------------------- MODULE ConnectionManager --------------------------
(* The DTL's server and the actors that call it (DTL::connect,               *)
(* DTL::disconnect, DTL::connection_manager_init).  A call puts a request in *)
(* one message queue and gets an answer from another, shared by all callers: *)
(* the answer of a connection is a pointer to the DTL, that of a             *)
(* disconnection a bool, and nothing in the message names the caller.        *)
(*                                                                           *)
(* External (SimGrid): both queues are first in, first out, also for the     *)
(* actors that wait in them.  An actor whose put was taken runs after as     *)
(* many simcalls as any other, so that actors go on to their get in the      *)
(* order in which the server took their requests (`resumed`).                *)
EXTENDS Naturals, Sequences

CONSTANTS
  Actors,         \* the actors that call the DTL
  NoCall,         \* stands for no call, no request and no answer
  MaxCalls        \* calls of an actor in a behaviour

Calls == {"connect", "disconnect"}
Request == [from : Actors, call : Calls]

ASSUME NoCallAssumption == NoCall \notin Calls \cup Request
ASSUME CallsAssumption == MaxCalls \in Nat

VARIABLES
  inbox,          \* connect_mq: requests put and not taken
  serving,        \* the request that the server has taken, or NoCall
  resumed,        \* actors whose request was taken, before their get
  getters,        \* handler_mq: actors that wait for an answer
  answers,        \* handler_mq: answers nobody has asked for
  active,         \* active_connections_
  calling,        \* actor -> the call it is in, or NoCall
  told,           \* actor -> the kind of the last answer it got
  calls           \* actor -> calls it has made

server == <<inbox, serving, resumed, getters, answers, active>>
callers == <<calling, told, calls>>
connectionVars == <<server, callers>>

ConnectionInit ==
  /\ inbox = <<>> /\ serving = NoCall /\ resumed = <<>>
  /\ getters = <<>> /\ answers = <<>> /\ active = {}
  /\ calling = [a \in Actors |-> NoCall]
  /\ told = [a \in Actors |-> NoCall]
  /\ calls = [a \in Actors |-> 0]

-----------------------------------------------------------------------------
(* The callers                                                              *)

\* connect and disconnect: put the request and block until it is taken.
Ask(a, c) ==
  /\ calling[a] = NoCall /\ calls[a] < MaxCalls
  /\ calling' = [calling EXCEPT ![a] = c]
  /\ calls' = [calls EXCEPT ![a] = @ + 1]
  /\ inbox' = Append(inbox, [from |-> a, call |-> c])
  /\ UNCHANGED <<serving, resumed, getters, answers, active, told>>

\* Actor a leaves its get, and its call, with this answer.
Tell(a, c) ==
  /\ told' = [told EXCEPT ![a] = c]
  /\ calling' = [calling EXCEPT ![a] = NoCall]

\* get_unique on handler_mq.
GetAnswer(a) ==
  /\ resumed # <<>> /\ a = Head(resumed)
  /\ resumed' = Tail(resumed)
  /\ IF answers # <<>>
       THEN /\ Tell(a, Head(answers)) /\ answers' = Tail(answers)
            /\ UNCHANGED getters
       ELSE /\ getters' = Append(getters, a)
            /\ UNCHANGED <<answers, calling, told>>
  /\ UNCHANGED <<inbox, serving, active, calls>>

-----------------------------------------------------------------------------
(* The server                                                               *)

\* get_async and wait on connect_mq.
Take ==
  /\ serving = NoCall /\ inbox # <<>>
  /\ serving' = Head(inbox) /\ inbox' = Tail(inbox)
  /\ resumed' = Append(resumed, Head(inbox).from)
  /\ UNCHANGED <<getters, answers, active, callers>>

\* connection_manager_connect and connection_manager_disconnect; and the same
\* where a second connection of an actor undoes the first.
Toggled(a, c) ==
  IF c = "connect" /\ a \notin active THEN active \cup {a} ELSE active \ {a}
Connected(a, c) ==
  IF c = "connect" THEN active \cup {a} ELSE active \ {a}

\* Which requests are answered: all of them; and only those that change the
\* connections.
WhenItMatters(a, c) == (c = "connect") # (a \in active)
Answered(a, c) == TRUE

\* put_init and detach on handler_mq.
Answer ==
  /\ serving # NoCall
  /\ LET a == serving.from  c == serving.call IN
       /\ active' = Connected(a, c)
       /\ CASE ~Answered(a, c) -> UNCHANGED <<getters, answers, calling, told>>
            [] Answered(a, c) /\ getters # <<>> ->
                 Tell(Head(getters), c) /\ getters' = Tail(getters)
                 /\ UNCHANGED answers
            [] Answered(a, c) /\ getters = <<>> ->
                 answers' = Append(answers, c)
                 /\ UNCHANGED <<getters, calling, told>>
  /\ serving' = NoCall
  /\ UNCHANGED <<inbox, resumed, calls>>

ConnectionStep == Take \/ Answer \/ \E a \in Actors : GetAnswer(a)

ConnectionNext == ConnectionStep \/ \E a \in Actors, c \in Calls : Ask(a, c)
ConnectionSpec == ConnectionInit /\ [][ConnectionNext]_connectionVars
=============================================================================
