---------------------------- MODULE FileRefinement ----------------------------
(***************************************************************************)
(* The File engine implements TransactionStream without any bound on how   *)
(* far the publishers are ahead, for clients that are Gathered and Paced   *)
(* and have one subscriber, and when nobody cancels.                       *)
(***************************************************************************)
EXTENDS FileProperties

\* Where a subscriber is whose last begin has not returned (yet).
Asking == {"await", "cvCompleted", "eos"}
Leaving == {"closeBarrier", "closeLast", "closed"}

WasTold(s) == pc[s] = "eos" \/ (pc[s] \in Leaving /\ begun[s] > completedPub)
Entered(s) == IF pc[s] \in Asking \/ WasTold(s) THEN begun[s] - 1 ELSE begun[s]

Stream == INSTANCE TransactionStream WITH
  Readers <- Subs, Window <- MaxTx + 1,
  produced <- completedPub,
  consumed <- [s \in Subs |-> Entered(s)],
  ended <- pubStreamEnded,
  told <- {s \in Subs : WasTold(s)}

\* The subscriber enters every transaction once, in order, after the
\* publishers completed it; the end of the stream comes last.
ImplementsStream == Stream!StreamSpec
=============================================================================
