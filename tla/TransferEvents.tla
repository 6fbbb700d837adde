--------------------------- MODULE TransferEvents ---------------------------
(***************************************************************************)
(* The events of the transfers bounded context that the transfers          *)
(* reporting service subscribes to, and the order in which that context    *)
(* (outside this repository) publishes the events of one transfer.         *)
(***************************************************************************)
CONSTANT Transfers          \* the identifiers of transfers

Prepared  == "TransferPreparedEvt"
Fulfiled  == "TransferFulfiledEvt"
Rejected  == "TransferRejectRequestProcessedEvt"
Unhandled == "OtherEvt"    \* any other event of the topics

EventNames == {Prepared, Fulfiled, Rejected, Unhandled}

Events == [msgName : EventNames, transferId : Transfers]

Event(name, t) == [msgName |-> name, transferId |-> t]

(***************************************************************************)
(* May event e be published after the events of the set "published"?  A    *)
(* transfer is prepared once, then fulfilled or rejected, never both.      *)
(***************************************************************************)
Publishable(e, published) ==
  LET Has(name) == Event(name, e.transferId) \in published
  IN  /\ ~Has(e.msgName)
      /\ e.msgName # Prepared => Has(Prepared)
      /\ e.msgName \in {Fulfiled, Rejected} => ~Has(Fulfiled) /\ ~Has(Rejected)
=============================================================================
