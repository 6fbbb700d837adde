------------------------- MODULE SettlementStatement -------------------------
(***************************************************************************)
(* The settlement statement of a participant, made by the reporting API:   *)
(* the funds movements of a period with a running balance per currency.    *)
(* One query reads the movements of the period, a second one those before  *)
(* it for the opening balance, and between the two the participants        *)
(* reporting service can store a newer state of the participant.           *)
(***************************************************************************)
EXTENDS Integers, Sequences, SequencesExt

CONSTANTS Movements,        \* the funds movements of the participant
          TypeOf,           \* their type
          AmountOf,         \* their amount, in the smallest unit
          CurrencyOf,       \* their currencyCode, as its rank in the sort order
          Currencies,       \* the ranks of the currencies
          MaxTime           \* bound: the dates there are

Deposit          == "OPERATOR_FUNDS_DEPOSIT"
Withdrawal       == "OPERATOR_FUNDS_WITHDRAWAL"
SettledCredit    == "MATRIX_SETTLED_AUTOMATIC_ADJUSTMENT_CREDIT"
SettledDebit     == "MATRIX_SETTLED_AUTOMATIC_ADJUSTMENT_DEBIT"
LiquidityCredit  == "OPERATOR_LIQUIDITY_ADJUSTMENT_CREDIT"
LiquidityDebit   == "OPERATOR_LIQUIDITY_ADJUSTMENT_DEBIT"

FundsInTypes  == {Deposit, SettledCredit, LiquidityCredit}
FundsOutTypes == {Withdrawal, SettledDebit, LiquidityDebit}

ASSUME MovementAssumption ==
  /\ IsFiniteSet(Movements)
  /\ TypeOf \in [Movements -> FundsInTypes \union FundsOutTypes]
  /\ AmountOf \in [Movements -> Nat]
  /\ Currencies \subseteq Nat /\ CurrencyOf \in [Movements -> Currencies]
  /\ MaxTime \in Nat \ {0}

NotApproved == 0            \* no approvedDate, requestState is not APPROVED

VARIABLES now,              \* the time
          approved,         \* approvedDate in the participants service
          stored,           \* approvedDate in the participant document
          stage,            \* where the request is
          query,            \* its startDate, endDate and currencies
          rows,             \* the movements of the statement, in order
          balance,          \* the balance column of the statement
          seen              \* history: the document the first query read

vars == <<now, approved, stored, stage, query, rows, balance, seen>>

Dates == 1 .. MaxTime
Approvals == [Movements -> {NotApproved} \union Dates]

(* A currencyCode stands for one currency, and "ALL" for all of them. *)
Queries == [startDate : Dates, endDate : Dates,
            currencies : {Currencies} \union {{c} : c \in Currencies}]
NoQuery == [startDate |-> 1, endDate |-> 1, currencies |-> Currencies]

TypeOK == /\ now \in Dates
          /\ approved \in Approvals /\ stored \in Approvals /\ seen \in Approvals
          /\ stage \in {"idle", "funds", "shown"}
          /\ query \in Queries
          /\ rows \in Seq(Movements)
          /\ balance \in Seq(Int)
          /\ stage = "shown" => Len(balance) = Len(rows)

Init == /\ now = 1
        /\ approved = [m \in Movements |-> NotApproved]
        /\ stored = approved /\ seen = approved
        /\ stage = "idle"
        /\ query = NoQuery
        /\ rows = <<>> /\ balance = <<>>

-----------------------------------------------------------------------------
(* The participants service, and the service that mirrors it. *)

Tick == /\ now < MaxTime
        /\ now' = now + 1
        /\ UNCHANGED <<approved, stored, stage, query, rows, balance, seen>>

Approve(m) == /\ approved[m] = NotApproved
              /\ approved' = [approved EXCEPT ![m] = now]
              /\ UNCHANGED <<now, stored, stage, query, rows, balance, seen>>

(* The participants reporting service stores the participant as it is. *)
Store == /\ stored' = approved
         /\ UNCHANGED <<now, approved, stage, query, rows, balance, seen>>

-----------------------------------------------------------------------------
(* The queries. *)

InCurrency(q, m) == CurrencyOf[m] \in q.currencies

(* The approved movements of a participant document from startDate to
   endDate, both included. *)
InPeriod(doc, q) == {m \in Movements : /\ doc[m] # NotApproved
                                       /\ q.startDate <= doc[m] /\ doc[m] <= q.endDate
                                       /\ InCurrency(q, m)}

(* Mutant of InOrder: the currencies are not sorted. *)
InAnyOrder(ms) == SetToSeqs(ms)

(* The rows are sorted by currency, in no particular order within one. *)
InOrder(ms) == {order \in SetToSeqs(ms) :
                  \A i, j \in DOMAIN order :
                    i < j => CurrencyOf[order[i]] <= CurrencyOf[order[j]]}

(* Mutant of FundsBefore: startDate is excluded. *)
FundsStrictlyBefore(doc, q) == {m \in Movements : /\ doc[m] # NotApproved
                                                  /\ doc[m] < q.startDate
                                                  /\ InCurrency(q, m)}

(* getFundsMovements: the approved movements up to startDate, included. *)
FundsBefore(doc, q) == {m \in Movements : /\ doc[m] # NotApproved
                                          /\ doc[m] <= q.startDate
                                          /\ InCurrency(q, m)}

-----------------------------------------------------------------------------
(* The amounts. *)

OpeningPart == [m \in Movements |-> IF TypeOf[m] \in FundsInTypes THEN AmountOf[m]
                                    ELSE IF TypeOf[m] \in FundsOutTypes THEN -AmountOf[m]
                                    ELSE 0]

(* openingAmount of the rows of currency c; a currency without funds has
   none, which counts as 0. *)
OpeningAmount(c, funds) ==
  SumFunctionOnSet(OpeningPart, {m \in funds : CurrencyOf[m] = c})

FundsInAmount(m)  == IF TypeOf[m] \in FundsInTypes THEN AmountOf[m] ELSE 0
FundsOutAmount(m) == IF TypeOf[m] \in FundsOutTypes THEN AmountOf[m] ELSE 0

(* Mutant of StatementBalances: the opening amounts get a row of their own. *)
BalancesFromOpening(order, funds) ==
  <<-SumFunctionOnSet(OpeningPart, funds)>>
    \o [i \in DOMAIN order |-> FundsOutAmount(order[i]) - FundsInAmount(order[i])]

(* The balance column: it starts from the opening amount when the currency
   changes, and is shown with the opposite sign. *)
StatementBalances(order, funds) ==
  LET Continues(i) == i > 1 /\ CurrencyOf[order[i - 1]] = CurrencyOf[order[i]]
      running[i \in DOMAIN order] ==
        (IF Continues(i) THEN running[i - 1]
         ELSE OpeningAmount(CurrencyOf[order[i]], funds))
        + FundsInAmount(order[i]) - FundsOutAmount(order[i])
  IN  [i \in DOMAIN order |-> -running[i]]

-----------------------------------------------------------------------------
(* The request. *)

GetSettlementStatement(q) == /\ stage = "idle"
                             /\ query' = q
                             /\ rows' \in InOrder(InPeriod(stored, q))
                             /\ seen' = stored
                             /\ stage' = "funds"
                             /\ UNCHANGED <<now, approved, stored, balance>>

(* An empty statement is an error, "not found". *)
GetFundsMovements == /\ stage = "funds"
                     /\ balance' = StatementBalances(rows, FundsBefore(stored, query))
                     /\ stage' = IF rows = <<>> THEN "idle" ELSE "shown"
                     /\ UNCHANGED <<now, approved, stored, query, rows, seen>>

Next == \/ Tick \/ Store
        \/ \E m \in Movements : Approve(m)
        \/ \E q \in Queries : GetSettlementStatement(q)
        \/ GetFundsMovements

Spec == Init /\ [][Next]_vars

-----------------------------------------------------------------------------
(* Properties. *)

Signed == [m \in Movements |-> IF TypeOf[m] \in FundsInTypes THEN AmountOf[m]
                               ELSE -AmountOf[m]]

(* What the participant has of currency c at date d, as the first query saw
   the document. *)
NetAt(c, d) == SumFunctionOnSet(Signed, {m \in Movements : /\ CurrencyOf[m] = c
                                                           /\ seen[m] # NotApproved
                                                           /\ seen[m] <= d})

IsLastOfCurrency(i) == \A j \in DOMAIN rows : CurrencyOf[rows[j]] = CurrencyOf[rows[i]] => j <= i

(* The last balance of a currency is what the participant had at endDate,
   all movements up to then counted once, although the two queries read
   different states of the document and the order of the rows is open.  It
   needs that no movement was approved at startDate exactly: both queries
   include that moment. *)
ClosingBalanceIsNet ==
  stage = "shown" =>
    \A i \in DOMAIN rows :
      LET c == CurrencyOf[rows[i]]
      IN  /\ IsLastOfCurrency(i)
          /\ \A m \in Movements : CurrencyOf[m] = c => approved[m] # query.startDate
          => balance[i] = -NetAt(c, query.endDate)

(* A movement approved at startDate exactly, and stored before the request,
   is counted twice. *)
StartDateCountsTwice ==
  stage = "shown" =>
    \A i \in DOMAIN rows :
      LET c == CurrencyOf[rows[i]]
          atStart == {m \in Movements : CurrencyOf[m] = c /\ approved[m] = query.startDate}
      IN  /\ IsLastOfCurrency(i)
          /\ \A m \in atStart : seen[m] # NotApproved
          => balance[i] = -(NetAt(c, query.endDate) + SumFunctionOnSet(Signed, atStart))

-----------------------------------------------------------------------------
(* The strengthening of the two that every step preserves. *)

(* A document is the participant as it was at some moment: it has what was
   approved before anything that it has. *)
IsSnapshot(doc) ==
  /\ \A m \in Movements : doc[m] \in {NotApproved, approved[m]}
  /\ \A m, n \in Movements :
       doc[n] # NotApproved /\ approved[m] # NotApproved /\ approved[m] < doc[n]
       => doc[m] = approved[m]

(* The two queries read such documents, the second one not the older one. *)
DocumentsInOrder ==
  /\ \A m \in Movements : approved[m] <= now
  /\ IsSnapshot(stored) /\ IsSnapshot(seen)
  /\ \A m \in Movements : seen[m] # NotApproved => stored[m] = seen[m]

(* The rows are those of the document that the first query read. *)
RowsInOrder == stage # "idle" => rows \in InOrder(InPeriod(seen, query))

IInv == TypeOK /\ DocumentsInOrder /\ RowsInOrder
=============================================================================
