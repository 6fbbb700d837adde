CONSTANTS
  t1 = t1
  t2 = t2
  b1 = b1
  b2 = b2
  m1 = m1
  m2 = m2
  a = a
  b = b
  c = c
  q1 = q1
  q2 = q2
  q3 = q3
  EUR = EUR
  USD = USD
  Transfers = {t1, t2}
  Batches = {b1, b2}
  KnownBatches = {b1}
  Matrices = {m1, m2}
  BatchesOf <- MCBatchesOf
  TransfersOf <- MCTransfersOf
  BatchOf <- MCBatchOf
  NoMatrix = NoMatrix
  NoDoc = NoDoc
  PageSize = 1
  MaxRestarts = 1
  MaxLost = 1
  Participants = {a, b, c}
  PayerOf <- MCPayerOf
  PayeeOf <- MCPayeeOf
  Currencies = {EUR, USD}
  CurrencyOf <- MCCurrencyOf
  AmountOf <- MCAmountOf
  Accounts <- MCAccounts
  Containing <- MCContaining
  UpdatedAt <- MCUpdatedAt
  Dates = {1, 2}
  Quotes = {q1, q2, q3}
  TransactionOf <- MCTransactionOf
  NoQuote = NoQuote
  EarlyParticipants = {a, b}
  EarlyQuotes = {q1, q3}
  AskedFor <- MCAskedFor
SPECIFICATION ReportsSpec
INVARIANTS PageIInv MatrixIsComplete ReportsIInv ShowsStoredOnly ListedReportIsComplete NetPositionsSettle DetailsAddUp InitiationIsZeroSum
CHECK_DEADLOCK FALSE
