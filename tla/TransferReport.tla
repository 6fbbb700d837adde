--------------------------- MODULE TransferReport ---------------------------
(***************************************************************************)
(* The documents of the "transfers" collection of the reporting database,  *)
(* which two services write: transfers-reporting-svc and                   *)
(* settlements-reporting-svc.                                              *)
(***************************************************************************)
CONSTANTS Matrices,         \* settlement matrices a document can be linked to
          NoMatrix,         \* the matrixId of an unsettled transfer (null)
          NoDoc             \* findOne found nothing (null)

TransferStates == {"RESERVED", "COMMITTED", "ABORTED"}
Flags == {"null", "set"}

(***************************************************************************)
(* A document of the collection, reduced to the fields that the handlers   *)
(* change after the insert.  fulfiledAt stands for the fields the fulfil   *)
(* event fills (completedTimestamp, extensionList, fulfiledAt), matrixId   *)
(* for the four fields the settlements reporting service fills.            *)
(***************************************************************************)
Docs == [transferState    : TransferStates,
         fulfiledAt       : Flags,
         errorInformation : Flags,
         matrixId         : Matrices \union {NoMatrix}]

ASSUME DocAssumption == NoDoc \notin Docs /\ NoMatrix \notin Matrices

(* The documents the handlers write. *)

(* The report built from a prepared event. *)
NewTransfer == [transferState |-> "RESERVED", fulfiledAt |-> "null",
                errorInformation |-> "null", matrixId |-> NoMatrix]

(* The document read, with the fields of the fulfil event. *)
WithFulfil(doc) == [doc EXCEPT !.transferState = "COMMITTED", !.fulfiledAt = "set"]

(* The document read, with the fields of the reject event. *)
WithReject(doc) == [doc EXCEPT !.transferState = "ABORTED",
                               !.errorInformation = "set"]

(* Mutant of WithSettlement: what is settled is taken to be committed. *)
WithSettlementCommitted(doc, m) == [doc EXCEPT !.matrixId = m,
                                               !.transferState = "COMMITTED"]

(* The document read, linked to the matrix that settled the transfer. *)
WithSettlement(doc, m) == [doc EXCEPT !.matrixId = m]
=============================================================================
