------------------------ MODULE MCSettlementReports ------------------------
(* The settlements service and the settlement reports on a small instance:
   m1 settles two transfers in two batches, for one of which the settlements
   service answers null, and a page holds one transfer; m2 settles none.
   Of the participants, a has accounts in two currencies and c is reported
   late, as is the second quote of t1. *)
EXTENDS ReportFigures, TLC

CONSTANTS t1, t2, b1, b2, m1, m2, a, b, c, q1, q2, q3, EUR, USD

MCBatchesOf == m1 :> {b1, b2} @@ m2 :> {b1}
MCTransfersOf == m1 :> {t1, t2} @@ m2 :> {}
MCBatchOf == t1 :> b1 @@ t2 :> b2
MCPayerOf == t1 :> a @@ t2 :> c
MCPayeeOf == t1 :> b @@ t2 :> a
MCCurrencyOf == t1 :> EUR @@ t2 :> EUR
MCAmountOf == t1 :> 1 @@ t2 :> 2
MCAccounts == {<<a, EUR>>, <<a, USD>>, <<b, EUR>>, <<c, EUR>>}
MCContaining == a :> {a, b} @@ b :> {b} @@ c :> {c}
MCTransactionOf == q1 :> t1 @@ q2 :> t1 @@ q3 :> t2
MCUpdatedAt == m1 :> 1 @@ m2 :> 2
MCAskedFor == {<<a, m1>>}
=============================================================================
