CONSTANTS
  deposit = deposit
  withdrawal = withdrawal
  credit = credit
  debit = debit
  Movements = {deposit, withdrawal, credit, debit}
  TypeOf <- MCTypeOf
  AmountOf <- MCAmountOf
  CurrencyOf <- MCCurrencyOf
  Currencies = {1, 2}
  MaxTime = 3
SPECIFICATION Spec
INVARIANTS IInv ClosingBalanceIsNet StartDateCountsTwice
CHECK_DEADLOCK FALSE
