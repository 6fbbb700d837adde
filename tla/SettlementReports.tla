-------------------------- MODULE SettlementReports --------------------------
(***************************************************************************)
(* The reporting API's settlement initiation, DFSP settlement and DFSP     *)
(* settlement detail reports, made from the collections while the          *)
(* reporting services store into them.                                     *)
(*                                                                         *)
(* A report is one aggregation, but not one snapshot: MongoDB (external)   *)
(* visits the transfers one after the other, joins each with what the      *)
(* other collections hold at that moment, and joins the participants of a  *)
(* grouped report only after the last transfer.                            *)
(***************************************************************************)
EXTENDS SettlementsReporting

CONSTANTS Participants,     \* the participants, by id
          PayerOf, PayeeOf, \* payerFspId and payeeFspId of a transfer
          Currencies,
          CurrencyOf,       \* the currencyCode of a transfer
          Accounts,         \* the SETTLEMENT accounts: participant, currency
          Containing,       \* the participants whose id contains a text
          UpdatedAt,        \* updatedAt of a matrix
          Dates,            \* the dates a request can name
          EarlyParticipants,\* those reported from the beginning
          Quotes,           \* the quotes, by id
          TransactionOf,    \* transactionId of a quote: the transfer made with it
          EarlyQuotes,      \* those reported from the beginning
          NoQuote,          \* stands for no quote in a row
          AskedFor          \* bound: participant and matrix of the reports asked for

ASSUME ReportAssumption ==
  /\ PayerOf \in [Transfers -> Participants] /\ PayeeOf \in [Transfers -> Participants]
  /\ \A t \in Transfers : PayerOf[t] # PayeeOf[t]
  /\ CurrencyOf \in [Transfers -> Currencies]
  /\ Accounts \subseteq Participants \X Currencies
  /\ Containing \in [Participants -> SUBSET Participants]
  /\ \A p \in Participants : p \in Containing[p]
  /\ Dates \subseteq Nat \ {0} /\ UpdatedAt \in [Matrices -> Nat]
  /\ TransactionOf \in [Quotes -> Transfers] /\ NoQuote \notin Quotes
  /\ EarlyParticipants \subseteq Participants /\ EarlyQuotes \subseteq Quotes
  /\ AskedFor \subseteq Participants \X Matrices

VARIABLES participant,      \* the participants with a document
          quote,            \* the quotes with a document
          listed,           \* the matrices some answer has listed
          query,            \* where the report asked for is
          asked,            \* the report, its participant and its matrix;
                            \* history: participants and quotes reported then
          toScan,           \* transfers the aggregation has still to visit
          rows,             \* rows of a report on transfers: transfer, quote
          balances          \* rows of an initiation report: participant,
                            \* currency of the balance, currency of the account

reportVars == <<participant, quote, listed, query, asked, toScan, rows, balances>>
allVars == <<vars, reportVars>>

Reports == {"initiation", "settlement", "detail"}
Requests == [report : Reports, participantId : Participants, matrixId : Matrices,
             participants : SUBSET Participants, quotes : SUBSET Quotes]
NoRequest == [report |-> "none"]

ReportTypeOK == /\ participant \in SUBSET Participants
                /\ quote \in SUBSET Quotes
                /\ listed \in SUBSET Matrices
                /\ query \in {"none", "scan", "lookup", "answered"}
                /\ asked \in Requests \union {NoRequest}
                /\ query # "none" => asked \in Requests
                /\ toScan \in SUBSET Transfers
                /\ rows \in SUBSET (Transfers \X (Quotes \union {NoQuote}))
                /\ balances \in SUBSET (Participants \X Currencies \X Currencies)

ReportInit == /\ participant = EarlyParticipants
              /\ quote = EarlyQuotes
              /\ listed = {}
              /\ query = "none" /\ asked = NoRequest
              /\ toScan = {} /\ rows = {} /\ balances = {}

-----------------------------------------------------------------------------
(* The participants and the quotes reporting services, as far as the reports
   see them. *)

StoreParticipant(p) == /\ p \notin participant
                       /\ participant' = participant \union {p}
                       /\ UNCHANGED <<vars, quote, listed, query, asked, toScan,
                                      rows, balances>>

StoreQuote(q) == /\ q \notin quote
                 /\ quote' = quote \union {q}
                 /\ UNCHANGED <<vars, participant, listed, query, asked, toScan,
                                rows, balances>>

-----------------------------------------------------------------------------
(* GET /settlementMatrixIds: the matrices updated between two dates with a
   balance of a participant whose id contains the text given.  The aggregate
   asks no privilege for it. *)

Parties(t) == {PayerOf[t], PayeeOf[t]}

Members(m) == UNION {Parties(t) : t \in TransfersOf[m]}

MatricesFor(text, startDate, endDate) ==
  {m \in matrices : /\ Members(m) \intersect Containing[text] # {}
                    /\ startDate <= UpdatedAt[m] /\ UpdatedAt[m] <= endDate}

GetSettlementMatrixIds(text, startDate, endDate) ==
  /\ query = "none"
  /\ listed' = listed \union MatricesFor(text, startDate, endDate)
  /\ UNCHANGED <<vars, participant, quote, query, asked, toScan, rows, balances>>

-----------------------------------------------------------------------------
(* A request for a report, by a caller whose token is valid and holds the
   privilege of the report. *)

GetReport(report, p, m) ==
  /\ query = "none"
  /\ asked' = [report |-> report, participantId |-> p, matrixId |-> m,
               participants |-> participant, quotes |-> quote]
  /\ query' = IF report = "initiation" THEN "lookup" ELSE "scan"
  /\ toScan' = IF report = "initiation" THEN {} ELSE Transfers
  /\ UNCHANGED <<vars, participant, quote, listed, rows, balances>>

(* Mutant of SettlementRows: the matrix is not joined. *)
SettlementRowsAlone(t) ==
  IF Linked(t, asked.matrixId) /\ asked.participantId \in Parties(t)
  THEN {<<t, NoQuote>>} ELSE {}

(* getDFSPSettlement: a transfer linked to the matrix, joined with the matrix
   itself, that the participant pays or is paid by. *)
SettlementRows(t) ==
  IF /\ Linked(t, asked.matrixId) /\ asked.matrixId \in matrices
     /\ asked.participantId \in Parties(t)
  THEN {<<t, NoQuote>>} ELSE {}

(* getDFSPSettlementDetail: joined with its two participants and with its
   quotes, which makes a row of each quote. *)
DetailRows(t) ==
  IF SettlementRows(t) # {} /\ Parties(t) \subseteq participant
  THEN {t} \X {q \in quote : TransactionOf[q] = t} ELSE {}

ScanTransfer(t) == /\ query = "scan"
                   /\ t \in toScan
                   /\ toScan' = toScan \ {t}
                   /\ rows' = rows \union (IF asked.report = "detail" THEN DetailRows(t)
                                           ELSE SettlementRows(t))
                   /\ UNCHANGED <<vars, participant, quote, listed, query, asked,
                                  balances>>

EndScan == /\ query = "scan"
           /\ toScan = {}
           /\ query' = IF asked.report = "detail" THEN "answered" ELSE "lookup"
           /\ UNCHANGED <<vars, participant, quote, listed, asked, toScan, rows,
                          balances>>

(* The groups of the settlement report are joined with the participant asked
   for and with the one it deals with. *)
LookupParticipants ==
  /\ query = "lookup" /\ asked.report = "settlement"
  /\ rows' = {r \in rows : Parties(r[1]) \subseteq participant}
  /\ query' = "answered"
  /\ UNCHANGED <<vars, participant, quote, listed, asked, toScan, balances>>

(* balancesByParticipant of a matrix (external): a balance for every
   participant and currency of its transfers. *)
BalancesOf(m) == UNION {Parties(t) \X {CurrencyOf[t]} : t \in TransfersOf[m]}

(* Mutant of InitiationRows: the currencies are not compared. *)
InitiationRowsOfAnyAccount(m) ==
  {<<pair[1][1], pair[1][2], pair[2][2]>> : pair \in
     {pair \in BalancesOf(m) \X Accounts :
        /\ m \in matrices
        /\ pair[1][1] \in participant /\ pair[1][1] = pair[2][1]}}

(* getSettlementInitiationByMatrixId: each balance of the matrix, joined with
   the settlement account of its participant in its currency. *)
InitiationRows(m) ==
  {<<pair[1][1], pair[1][2], pair[2][2]>> : pair \in
     {pair \in BalancesOf(m) \X Accounts :
        /\ m \in matrices
        /\ pair[1][1] \in participant /\ pair[1] = pair[2]}}

LookupBalances == /\ query = "lookup" /\ asked.report = "initiation"
                  /\ balances' = InitiationRows(asked.matrixId)
                  /\ query' = "answered"
                  /\ UNCHANGED <<vars, participant, quote, listed, asked, toScan,
                                 rows>>

-----------------------------------------------------------------------------
(* The answer.  No rows are an error, which becomes a 500, except in the JSON form
   of the two reports of a participant, which checks for null only. *)

Formats == {"json", "excel"}

Empty == rows = {} /\ balances = {}

Held == {r[1] : r \in rows}

MayBeEmpty(format) == format = "json" /\ asked.report # "initiation"

(* Mutant of Shown: the spreadsheet is made like the JSON form, for any result. *)
ShownEmpty(format) ==
  /\ query = "answered"
  /\ asked.report = "initiation" => ~Empty

(* A report in a format is answered with its rows and not with an error. *)
Shown(format) == query = "answered" /\ (Empty => MayBeEmpty(format))

-----------------------------------------------------------------------------
ReportsStep == \/ \E report \in Reports, of \in AskedFor : GetReport(report, of[1], of[2])
               \/ \E t \in Transfers : ScanTransfer(t)
               \/ EndScan \/ LookupParticipants \/ LookupBalances

(* The settlements reporting service beside the API. *)
StoringStep == Next /\ UNCHANGED reportVars

ReportsInit == Init /\ ReportInit

ReportsNext == \/ StoringStep
               \/ \E p \in Participants : StoreParticipant(p)
               \/ \E q \in Quotes : StoreQuote(q)
               \/ \E text \in Participants, startDate, endDate \in Dates :
                    GetSettlementMatrixIds(text, startDate, endDate)
               \/ ReportsStep

ReportsSpec == ReportsInit /\ [][ReportsNext]_allVars

-----------------------------------------------------------------------------
(* Properties. *)

(* Nothing of a settlement is shown, in any form, before its matrix is stored,
   and only transfers that are linked to it: the matrix is stored last, and each
   report joins it.  So an answer says that the settlement is stored, but for an
   empty list in the JSON form of the settlement and the detail report. *)
ShowsStoredOnly ==
  \A format \in Formats :
    Shown(format) =>
      \/ Empty /\ format = "json" /\ asked.report # "initiation"
      \/ /\ asked.matrixId \in matrices
         /\ \A t \in Held : /\ Linked(t, asked.matrixId)
                            /\ asked.participantId \in Parties(t)

(* What the report had to hold of the transfers of a page: those of the
   participant, apart from those skipped when the matrix was stored and those
   whose participants or quote were not reported when the report was asked for. *)
Due(page) == {t \in page : /\ asked.participantId \in Parties(t)
                           /\ t \notin skipped
                           /\ Parties(t) \subseteq asked.participants
                           /\ asked.report = "detail" =>
                                \E q \in asked.quotes : TransactionOf[q] = t}

(* Whoever got a matrix listed and then asks for a report of it gets all of
   the page of its transfers that was asked for, although the collections
   change while the aggregation reads them, the settlement may be handled a
   second time, and its handler can die at any of its calls. *)
ListedReportIsComplete ==
  /\ query = "answered" /\ asked.report # "initiation" /\ asked.matrixId \in listed
  => \E page \in FirstPages(asked.matrixId) : Due(page) \subseteq Held

-----------------------------------------------------------------------------
(* The strengthening of the two properties that every step preserves. *)

(* Every row is of a transfer of the stored matrix and of the participant. *)
RowsInOrder ==
  /\ query = "none" => rows = {} /\ balances = {}
  /\ query \in {"lookup", "answered"} => toScan = {}
  /\ rows # {} \/ balances # {} => asked.matrixId \in matrices
  /\ \A r \in rows : /\ Linked(r[1], asked.matrixId)
                     /\ asked.participantId \in Parties(r[1])

(* What was listed, or reported when the report was asked for, still is. *)
SourcesInOrder == /\ listed \subseteq matrices
                  /\ query # "none" => /\ asked.participants \subseteq participant
                                      /\ asked.quotes \subseteq quote

(* A page of the listed matrix, the same at every moment of the scan, was
   dealt with by the settlements service, and what is due of it is in the
   report or still to be visited. *)
ScanInOrder ==
  query # "none" /\ asked.report # "initiation" /\ asked.matrixId \in listed =>
    \E page \in FirstPages(asked.matrixId) :
      /\ \A t \in page : Linked(t, asked.matrixId) \/ t \in skipped
      /\ \A t \in Due(page) : t \in toScan \/ t \in Held

(* The rows of an initiation report are balances of the matrix, each with an
   account in its currency, and those of a listed matrix are all there whose
   participant was reported. *)
BalancesInOrder ==
  /\ \A row \in balances : /\ row[2] = row[3]
                           /\ <<row[1], row[2]>> \in BalancesOf(asked.matrixId)
  /\ query = "answered" /\ asked.report = "initiation" /\ asked.matrixId \in listed =>
       \A x \in BalancesOf(asked.matrixId) \intersect Accounts :
         x[1] \in asked.participants => <<x[1], x[2], x[2]>> \in balances

ReportsIInv == /\ ReportTypeOK /\ RowsInOrder /\ SourcesInOrder
               /\ ScanInOrder /\ BalancesInOrder
=============================================================================
