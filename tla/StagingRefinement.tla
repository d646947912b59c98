-------------------------- MODULE StagingRefinement --------------------------
(***************************************************************************)
(* The Staging engine implements TransactionStream with a window of one    *)
(* transaction, for clients that are Gathered and Prompt and when nobody   *)
(* cancels.                                                                *)
(***************************************************************************)
EXTENDS StagingProperties

\* Where a subscriber is whose last begin has not led to a get (yet).
Asking == {"first", "cvFirst", "start", "await", "cvCompleted", "tx", "eos"}
Leaving == {"closeFlush", "closeBarrier", "closeLast", "closed"}

\* A subscriber that closes had asked for one transaction too many if it was
\* told the end of the stream.
WasTold(s) == pc[s] = "eos" \/ (pc[s] \in Leaving /\ begun[s] > completedPub)
Requested(s) == IF pc[s] \in Asking \/ WasTold(s) THEN begun[s] - 1 ELSE begun[s]

Stream == INSTANCE TransactionStream WITH
  Readers <- Subs, Window <- 1,
  produced <- completedPub,
  consumed <- [s \in Subs |-> Requested(s)],
  ended <- pubStreamEnded,
  told <- {s \in Subs : WasTold(s)}

\* Each subscriber gets every transaction once, in order, when the publishers
\* completed it; they complete the next one only when everybody requested
\* this one; the end of the stream comes last.
ImplementsStream == Stream!StreamSpec
=============================================================================
