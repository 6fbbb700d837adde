------------------------ MODULE SettlementsReporting ------------------------
(***************************************************************************)
(* The settlements reporting service: for every settled matrix it copies   *)
(* the matrix's batches, links the matrix's transfers to it in the         *)
(* "transfers" collection, and stores the matrix last.                     *)
(*                                                                         *)
(* The consumer (external) hands over one SettlementMatrixSettledEvt at a  *)
(* time and commits its offset when the callback resolves, which it does   *)
(* also after an error.  What the settlements service answers (external)   *)
(* is given by the constants; a settled matrix does not change any more.   *)
(***************************************************************************)
EXTENDS TransferReport, Naturals, Sequences, FiniteSets

CONSTANTS Transfers,        \* the identifiers of transfers
          Batches,          \* the identifiers of settlement batches
          KnownBatches,     \* those getBatchByBatchId answers with, not with null
          BatchesOf,        \* matrix.batches
          TransfersOf,      \* the transfers of the matrix
          BatchOf,          \* the batch of a transfer
          PageSize,         \* transfers in one answer of GET /transfers
          MaxRestarts,      \* bound: crashes of the service
          MaxLost           \* bound: messages whose handling fails

ASSUME SettlementAssumption ==
  /\ KnownBatches \subseteq Batches
  /\ BatchesOf \in [Matrices -> SUBSET Batches]
  /\ TransfersOf \in [Matrices -> SUBSET Transfers]
  /\ BatchOf \in [Transfers -> Batches]
  /\ \A m \in Matrices : \A t \in TransfersOf[m] : BatchOf[t] \in BatchesOf[m]
  /\ \A m, n \in Matrices : m # n => TransfersOf[m] \intersect TransfersOf[n] = {}
ASSUME SettlementBoundsAssumption ==
  PageSize \in Nat \ {0} /\ MaxRestarts \in Nat /\ MaxLost \in Nat

VARIABLES settled,          \* the matrices of the events published, in order
          offset,           \* how many of them have a committed offset
          stage,            \* where the handler is
          batchesLeft,      \* batches of the matrix still to store
          transfersLeft,    \* transfers of the answer still to link
          found,            \* the document read, with its transfer, or <<>>
          transfers,        \* the "transfers" collection
          batches,          \* the "batches" collection
          matrices,         \* the "matrices" collection
          restarts,         \* how often the service crashed
          lost,             \* history: matrices whose handling failed
          skipped           \* history: transfers found missing when linking

handlerVars == <<offset, stage, batchesLeft, transfersLeft, found>>
settlementVars == <<settled, handlerVars, batches, matrices, restarts, lost, skipped>>
vars == <<settlementVars, transfers>>

Stages == {"down", "idle", "batches", "transfers", "handled"}

TypeOK == /\ settled \in Seq(Matrices)
          /\ offset \in Nat
          /\ stage \in Stages
          /\ batchesLeft \in SUBSET Batches
          /\ transfersLeft \in SUBSET Transfers
          /\ found \in {<<>>} \union (Transfers \X Docs)
          /\ transfers \in [Transfers -> Docs \union {NoDoc}]
          /\ batches \in SUBSET Batches
          /\ matrices \in SUBSET Matrices
          /\ restarts \in Nat
          /\ lost \in SUBSET Matrices
          /\ skipped \in SUBSET Transfers

SettlementInit == /\ settled = <<>>
                  /\ offset = 0
                  /\ stage = "down"
                  /\ batchesLeft = {}
                  /\ transfersLeft = {}
                  /\ found = <<>>
                  /\ batches = {}
                  /\ matrices = {}
                  /\ restarts = 0
                  /\ lost = {}
                  /\ skipped = {}

Init == SettlementInit /\ transfers = [t \in Transfers |-> NoDoc]

-----------------------------------------------------------------------------
(* The consumer. *)

(* The settlements bounded context settles a matrix. *)
Settle(m) == /\ m \notin {settled[i] : i \in DOMAIN settled}
             /\ settled' = Append(settled, m)
             /\ UNCHANGED <<handlerVars, transfers, batches, matrices, restarts,
                            lost, skipped>>

Start == /\ stage = "down"
         /\ stage' = "idle"
         /\ UNCHANGED <<settled, offset, batchesLeft, transfersLeft, found,
                        transfers, batches, matrices, restarts, lost, skipped>>

CommitOffset == /\ stage = "handled"
                /\ offset' = offset + 1
                /\ stage' = "idle"
                /\ UNCHANGED <<settled, batchesLeft, transfersLeft, found,
                               transfers, batches, matrices, restarts, lost, skipped>>

(* The process dies; the event is delivered again after the restart. *)
Crash == /\ stage # "down"
         /\ restarts < MaxRestarts
         /\ restarts' = restarts + 1
         /\ stage' = "down"
         /\ batchesLeft' = {}
         /\ transfersLeft' = {}
         /\ found' = <<>>
         /\ UNCHANGED <<settled, offset, transfers, batches, matrices, lost, skipped>>

-----------------------------------------------------------------------------
(* handleSettlementMatrixSettledEvt, call by call. *)

Matrix == settled[offset + 1]

(* Mutant of GetMatrix: the matrix is stored first. *)
GetAndStoreMatrix == /\ stage = "idle"
                     /\ offset < Len(settled)
                     /\ stage' = "batches"
                     /\ batchesLeft' = BatchesOf[Matrix]
                     /\ matrices' = matrices \union {Matrix}
                     /\ UNCHANGED <<settled, offset, transfersLeft, found,
                                    transfers, batches, restarts, lost, skipped>>

(* The handler got the event and fetched the up to date matrix. *)
GetMatrix == /\ stage = "idle"
             /\ offset < Len(settled)
             /\ stage' = "batches"
             /\ batchesLeft' = BatchesOf[Matrix]
             /\ UNCHANGED <<settled, offset, transfersLeft, found, transfers,
                            batches, matrices, restarts, lost, skipped>>

(* A batch is fetched and stored; one of which the settlements service answers
   null is passed over.  An answer other than 200 is an error; see HandlingFails. *)
StoreBatch(b) == /\ stage = "batches"
                 /\ b \in batchesLeft
                 /\ batchesLeft' = batchesLeft \ {b}
                 /\ batches' = batches \union ({b} \intersect KnownBatches)
                 /\ UNCHANGED <<settled, offset, stage, transfersLeft, found,
                                transfers, matrices, restarts, lost, skipped>>

(* Mutant of FirstPages: the last transfer of a page is left out. *)
ShortPages(m) ==
  {page \in SUBSET TransfersOf[m] :
     \/ page = TransfersOf[m] /\ Cardinality(page) < PageSize
     \/ Cardinality(page) = PageSize - 1}

(* The first page of the transfers of the matrix, the only one asked for. *)
FirstPages(m) ==
  {page \in SUBSET TransfersOf[m] :
     \/ page = TransfersOf[m] /\ Cardinality(page) <= PageSize
     \/ Cardinality(page) = PageSize}

(* Mutant of GetTransfers: it does not wait for the batches. *)
GetTransfersAtOnce == /\ stage = "batches"
                      /\ stage' = "transfers"
                      /\ batchesLeft' = {}
                      /\ transfersLeft' \in FirstPages(Matrix)
                      /\ UNCHANGED <<settled, offset, found, transfers, batches,
                                     matrices, restarts, lost, skipped>>

(* An answer of null is taken for a matrix that "does not have transfers": it is
   that of a matrix without any, whose one page is empty. *)
GetTransfers == /\ stage = "batches"
                /\ batchesLeft = {}
                /\ stage' = "transfers"
                /\ transfersLeft' \in FirstPages(Matrix)
                /\ UNCHANGED <<settled, offset, batchesLeft, found, transfers,
                               batches, matrices, restarts, lost, skipped>>

Linking(t) == stage = "transfers" /\ found = <<>> /\ t \in transfersLeft

(* getTransferById finds nothing: the transfer is passed over. *)
SkipTransfer(t) == /\ Linking(t)
                   /\ transfers[t] = NoDoc
                   /\ transfersLeft' = transfersLeft \ {t}
                   /\ skipped' = skipped \union {t}
                   /\ UNCHANGED <<settled, offset, stage, batchesLeft, found,
                                  transfers, batches, matrices, restarts, lost>>

GetTransferById(t) == /\ Linking(t)
                      /\ transfers[t] # NoDoc
                      /\ found' = <<t, transfers[t]>>
                      /\ UNCHANGED <<settled, offset, stage, batchesLeft,
                                     transfersLeft, transfers, batches, matrices,
                                     restarts, lost, skipped>>

(* The whole document is written back (upsert) with the settlement fields. *)
StoreTransfer == /\ stage = "transfers"
                 /\ found # <<>>
                 /\ transfers' = [transfers EXCEPT ![found[1]] =
                                    WithSettlement(found[2], Matrix)]
                 /\ transfersLeft' = transfersLeft \ {found[1]}
                 /\ found' = <<>>
                 /\ UNCHANGED <<settled, offset, stage, batchesLeft, batches,
                                matrices, restarts, lost, skipped>>

StoreMatrix == /\ stage = "transfers"
               /\ found = <<>>
               /\ transfersLeft = {}
               /\ matrices' = matrices \union {Matrix}
               /\ stage' = "handled"
               /\ UNCHANGED <<settled, offset, batchesLeft, transfersLeft, found,
                              transfers, batches, restarts, lost, skipped>>

(* Mutant of HandlingFails: the matrix is stored all the same. *)
FailsButStoresMatrix == /\ stage = "transfers"
                        /\ Cardinality(lost) < MaxLost
                        /\ lost' = lost \union {Matrix}
                        /\ stage' = "handled"
                        /\ matrices' = matrices \union {Matrix}
                        /\ batchesLeft' = {}
                        /\ transfersLeft' = {}
                        /\ found' = <<>>
                        /\ UNCHANGED <<settled, offset, transfers, batches,
                                       restarts, skipped>>

(* A call of the database fails, or one of the settlements service fails, is
   answered with anything but 200, or with null for the matrix: the rest of the
   message is given up and the message counts as handled. *)
HandlingFails == /\ \/ stage \in {"batches", "transfers"}
                    \/ stage = "idle" /\ offset < Len(settled)
                 /\ Cardinality(lost) < MaxLost
                 /\ lost' = lost \union {Matrix}
                 /\ stage' = "handled"
                 /\ batchesLeft' = {}
                 /\ transfersLeft' = {}
                 /\ found' = <<>>
                 /\ UNCHANGED <<settled, offset, transfers, batches, matrices,
                                restarts, skipped>>

-----------------------------------------------------------------------------
HandleSettled == \/ GetMatrix
                 \/ \E b \in Batches : StoreBatch(b)
                 \/ GetTransfers
                 \/ \E t \in Transfers : SkipTransfer(t) \/ GetTransferById(t)
                 \/ StoreTransfer
                 \/ StoreMatrix

ServiceNext == Start \/ HandleSettled \/ CommitOffset \/ Crash \/ HandlingFails

(* The transfers reporting service, as far as it does not overlap the read
   and the write of a document by this service: the report of t appears, or
   is completed, in one step. *)
ReportTransfer(t) ==
  /\ found # <<>> => found[1] # t
  /\ \/ transfers[t] = NoDoc /\ transfers' = [transfers EXCEPT ![t] = NewTransfer]
     \/ /\ transfers[t] # NoDoc /\ transfers[t].transferState = "RESERVED"
        /\ transfers' = [transfers EXCEPT ![t] = WithFulfil(transfers[t])]
  /\ UNCHANGED settlementVars

Next == \/ \E m \in Matrices : Settle(m)
        \/ ServiceNext
        \/ \E t \in Transfers : ReportTransfer(t)

Spec == Init /\ [][Next]_vars

-----------------------------------------------------------------------------
(* Properties. *)

Linked(t, m) == transfers[t] # NoDoc /\ transfers[t].matrixId = m

(* The stored settlement has no dangling references, at any moment and after
   any crash or failure in the middle of a message: a matrix is stored after
   its batches, and a transfer is linked after its batch was stored (the
   order of storeBatch, storeTransfer and storeMatrix in the handler).  The
   reports join the three collections. *)
StoredInOrder ==
  /\ \A m \in matrices : BatchesOf[m] \intersect KnownBatches \subseteq batches
  /\ \A m \in Matrices : \A t \in Transfers :
       Linked(t, m) => /\ t \in TransfersOf[m]
                       /\ BatchOf[t] \in KnownBatches => BatchOf[t] \in batches

(* A stored matrix is one whose transfers were all linked, up to the first
   page and the transfers that were not in the report yet: a message given
   up half way, or handled twice, never leaves a matrix without them. *)
MatrixIsComplete ==
  \A m \in matrices : \E page \in FirstPages(m) :
    \A t \in page : Linked(t, m) \/ t \in skipped

-----------------------------------------------------------------------------
(* The strengthening of StoredInOrder that every step preserves: what a
   handler has done of its message is stored. *)
HandlerInOrder ==
  /\ stage \in {"batches", "transfers", "handled"} => offset < Len(settled)
  /\ stage # "transfers" => found = <<>>
  /\ stage = "batches" =>
       (BatchesOf[Matrix] \ batchesLeft) \intersect KnownBatches \subseteq batches
  /\ stage = "transfers" =>
       /\ BatchesOf[Matrix] \intersect KnownBatches \subseteq batches
       /\ transfersLeft \subseteq TransfersOf[Matrix]
       /\ found # <<>> => found[1] \in transfersLeft

IInv == TypeOK /\ HandlerInOrder /\ StoredInOrder

(* The strengthening of MatrixIsComplete: of the page it fetched the handler
   has linked, or passed over, all that it has not still to link. *)
PageInOrder ==
  stage = "transfers" =>
    \E page \in FirstPages(Matrix) : \A t \in page :
      t \in transfersLeft \/ Linked(t, Matrix) \/ t \in skipped

PageIInv == IInv /\ PageInOrder /\ MatrixIsComplete
=============================================================================
