---------------------------- MODULE ReportFigures ----------------------------
(***************************************************************************)
(* The figures of the settlement reports of the reporting API: amounts sent *)
(* and received, net positions and settlement transfers, in the smallest   *)
(* unit of their currency.                                                 *)
(***************************************************************************)
EXTENDS SettlementReports, Integers, Functions

CONSTANT AmountOf           \* the amount of a transfer

ASSUME AmountAssumption == AmountOf \in [Transfers -> Nat]

(* The collections of a database are finite. *)
ASSUME FinitenessAssumption ==
  /\ IsFiniteSet(Transfers) /\ IsFiniteSet(Quotes)
  /\ IsFiniteSet(Participants) /\ IsFiniteSet(Currencies)

-----------------------------------------------------------------------------
(* The settlement initiation report. *)

(* balancesByParticipant of a matrix (external). *)
DebitBalance(m, p, c) ==
  SumFunctionOnSet(AmountOf, {t \in TransfersOf[m] : PayerOf[t] = p /\ CurrencyOf[t] = c})
CreditBalance(m, p, c) ==
  SumFunctionOnSet(AmountOf, {t \in TransfersOf[m] : PayeeOf[t] = p /\ CurrencyOf[t] = c})

SettlementTransfer(m, p, c) == DebitBalance(m, p, c) - CreditBalance(m, p, c)

(* The rows of the sheet, with the settlement transfer of each. *)
InitiationSheet ==
  [row \in balances |-> SettlementTransfer(asked.matrixId, row[1], row[2])]

-----------------------------------------------------------------------------
(* The DFSP settlement report: one row per other participant and currency. *)

(* Mutant of Sent: the direction is that of the other participant. *)
SentByOther(t) == PayeeOf[t] = asked.participantId

Sent(t) == PayerOf[t] = asked.participantId

RelateParticipant(t) == IF Sent(t) THEN PayeeOf[t] ELSE PayerOf[t]

SettlementGroups == {<<RelateParticipant(t), CurrencyOf[t]>> : t \in Held}

GroupOf(row) == {t \in Held : <<RelateParticipant(t), CurrencyOf[t]>> = row}

TotalAmountSent(row) == SumFunctionOnSet(AmountOf, {t \in GroupOf(row) : Sent(t)})
TotalAmountReceived(row) == SumFunctionOnSet(AmountOf, {t \in GroupOf(row) : ~Sent(t)})

NetPosition ==
  [row \in SettlementGroups |-> TotalAmountReceived(row) - TotalAmountSent(row)]

AggregatedNetPosition(c) ==
  SumFunctionOnSet(NetPosition, {row \in SettlementGroups : row[2] = c})

-----------------------------------------------------------------------------
(* The DFSP settlement detail report: a row per transfer and quote of it. *)

(* Mutant of ReceivedAmount: what is not sent is received twice over. *)
ReceivedAmountOfAll(t) == AmountOf[t]

SentAmount(t) == IF PayerOf[t] = asked.participantId THEN AmountOf[t] ELSE 0
ReceivedAmount(t) == IF PayeeOf[t] = asked.participantId THEN AmountOf[t] ELSE 0

(* The sum of the received less that of the sent column in a currency. *)
DetailNet(c) ==
  LET shown == {r \in rows : CurrencyOf[r[1]] = c}
  IN  SumFunctionOnSet([r \in rows |-> ReceivedAmount(r[1])], shown)
        - SumFunctionOnSet([r \in rows |-> SentAmount(r[1])], shown)

-----------------------------------------------------------------------------
(* Properties. *)

(* What a transfer is worth to the participant asked for. *)
Net == [t \in Transfers |-> IF PayeeOf[t] = asked.participantId THEN AmountOf[t]
                            ELSE IF PayerOf[t] = asked.participantId THEN -AmountOf[t]
                            ELSE 0]

Answered(report) == /\ query = "answered" /\ asked.report = report
                    /\ asked.matrixId \in listed

HeldIn(c) == {t \in Held : CurrencyOf[t] = c}

(* What the rows of a transfer after the first say of it once more. *)
Repeated == [t \in Held |-> Net[t] * (Cardinality({r \in rows : r[1] = t}) - 1)]

NotShown(ts, c) == {t \in TransfersOf[asked.matrixId] \ ts : CurrencyOf[t] = c}

(* Of one settlement the reports say the same: the net position that the
   settlement report of a participant aggregates from the transfers it found
   is, with the opposite sign, the settlement transfer that the initiation
   report computes from the balances of the matrix, but for the transfers
   that are past the first page, were skipped, or deal with a participant
   that was not reported when the report was asked for. *)
NetPositionsSettle ==
  Answered("settlement") =>
    \E page \in FirstPages(asked.matrixId) :
      /\ Due(page) \subseteq Held
      /\ \A c \in Currencies :
           AggregatedNetPosition(c) + SumFunctionOnSet(Net, NotShown(Held, c))
             = -SettlementTransfer(asked.matrixId, asked.participantId, c)

(* The same of the rows of the detail report, which is made by another
   aggregation and has figures of its own, but also for the transfers that
   were quoted more than once: each quote repeats the amount of its transfer. *)
DetailsAddUp ==
  Answered("detail") =>
    \E page \in FirstPages(asked.matrixId) :
      /\ Due(page) \subseteq Held
      /\ \A c \in Currencies :
           DetailNet(c) + SumFunctionOnSet(Net, NotShown(Held, c))
                        - SumFunctionOnSet(Repeated, HeldIn(c))
             = -SettlementTransfer(asked.matrixId, asked.participantId, c)

(* An initiation report on a listed matrix has a row for each balance of a
   participant with an account in its currency, but for participants not
   reported when it was asked for; and if every balance has its row then it moves no money in
   or out: the settlement transfers of a currency add up to 0. *)
InitiationIsZeroSum ==
  Answered("initiation") =>
    LET shown == {<<row[1], row[2]>> : row \in balances}
    IN  /\ {x \in BalancesOf(asked.matrixId) \intersect Accounts :
              x[1] \in asked.participants} \subseteq shown
        /\ shown = BalancesOf(asked.matrixId) =>
             \A c \in Currencies :
               SumFunctionOnSet(InitiationSheet, {row \in balances : row[2] = c}) = 0
=============================================================================
