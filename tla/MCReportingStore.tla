-------------------------- MODULE MCReportingStore --------------------------
(* ReportingStore with one matrix that settles one or two transfers. *)
EXTENDS ReportingStore, TLC

CONSTANTS t1, t2, b1, m1

OneTransfer == m1 :> {t1}
TwoTransfers == m1 :> {t1, t2}
MCBatchesOf == m1 :> {b1}
MCBatchOf == [t \in Transfers |-> b1]
=============================================================================
