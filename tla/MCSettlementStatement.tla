----------------------- MODULE MCSettlementStatement -----------------------
(* SettlementStatement on a small instance: three movements in one currency,
   and one in another. *)
EXTENDS SettlementStatement, TLC

CONSTANTS deposit, withdrawal, credit, debit

MCTypeOf == deposit :> Deposit @@ withdrawal :> Withdrawal
            @@ credit :> SettledCredit @@ debit :> LiquidityDebit
MCAmountOf == deposit :> 1 @@ withdrawal :> 2 @@ credit :> 4 @@ debit :> 8
MCCurrencyOf == deposit :> 1 @@ withdrawal :> 1 @@ credit :> 1 @@ debit :> 2
=============================================================================
