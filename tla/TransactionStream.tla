-------------------------- MODULE TransactionStream --------------------------
(***************************************************************************)
(* What an engine of the DTL promises to the actors of a stream, whatever  *)
(* moves the data: the publishers together produce transactions 1, 2, ...; *)
(* each subscriber consumes them all, in that order, each of them once and *)
(* only when it was produced; the publishers get at most Window            *)
(* transactions ahead of the slowest subscriber; when they have all closed *)
(* the stream has ended, and that is what a subscriber is told when it     *)
(* asks for more than was produced.                                        *)
(***************************************************************************)
EXTENDS Naturals

CONSTANTS Readers, \* the subscribers
          Window   \* how far the publishers may be ahead, a natural number

VARIABLES produced, \* transactions completed by the publishers
          consumed, \* per subscriber, transactions whose data it requested
          ended,    \* every publisher has closed
          told      \* the subscribers that were told so

streamVars == <<produced, consumed, ended, told>>

StreamInit ==
  /\ produced = 0 /\ consumed = [r \in Readers |-> 0]
  /\ ended = FALSE /\ told = {}

Produce ==
  /\ ~ended
  /\ \A r \in Readers : produced < consumed[r] + Window
  /\ produced' = produced + 1
  /\ UNCHANGED <<consumed, ended, told>>

Consume(r) ==
  /\ consumed[r] < produced
  /\ consumed' = [consumed EXCEPT ![r] = @ + 1]
  /\ UNCHANGED <<produced, ended, told>>

EndStream ==
  /\ ~ended /\ ended' = TRUE
  /\ UNCHANGED <<produced, consumed, told>>

TellEnd(r) ==
  /\ ended /\ consumed[r] = produced
  /\ told' = told \cup {r}
  /\ UNCHANGED <<produced, consumed, ended>>

StreamNext == \/ Produce \/ EndStream
              \/ \E r \in Readers : Consume(r) \/ TellEnd(r)

StreamSpec == StreamInit /\ [][StreamNext]_streamVars
=============================================================================
