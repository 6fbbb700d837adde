---------------------- MODULE SettlementReports_proofs ----------------------
(***************************************************************************)
(* Theorems about SettlementsReporting, the settlements reporting service, *)
(* about SettlementReports, the reports made beside it, and about the      *)
(* figures of the reports (ReportFigures): for every assignment of batches *)
(* and transfers to matrices, every set of quotes and participants, every  *)
(* page size and every number of crashes and failures of the service.      *)
(***************************************************************************)
EXTENDS ReportFigures, FiniteSums

(* The matrix of the message being handled is a matrix. *)
LEMMA MatrixAtOffset ==
  ASSUME TypeOK, offset < Len(settled)
  PROVE  Matrix \in Matrices
BY DEF TypeOK, Matrix

(* Linking and fulfilling keep a document well-formed; a link says which
   matrix it is to, a fulfil leaves the link alone. *)
LEMMA DocsWritten ==
  /\ NoDoc \notin Docs
  /\ NewTransfer \in Docs /\ NewTransfer.matrixId = NoMatrix
  /\ \A doc \in Docs :
       /\ WithFulfil(doc) \in Docs /\ WithFulfil(doc).matrixId = doc.matrixId
       /\ \A m \in Matrices : /\ WithSettlement(doc, m) \in Docs
                              /\ WithSettlement(doc, m).matrixId = m
BY DocAssumption
   DEF Docs, NewTransfer, WithFulfil, WithSettlement, TransferStates, Flags

(* A page of the transfers of a matrix holds transfers of the matrix. *)
LEMMA PagesAreTransfers ==
  ASSUME NEW m \in Matrices, NEW page \in FirstPages(m)
  PROVE  page \subseteq TransfersOf[m] /\ page \in SUBSET Transfers
BY SettlementAssumption DEF FirstPages

(* Nothing is stored when the service is first started. *)
LEMMA InitIInv == Init => IInv
<1> SUFFICES ASSUME Init PROVE IInv
  OBVIOUS
<1> USE DEF Init, SettlementInit
<1>1. TypeOK
  BY DEF TypeOK, Stages
<1>2. HandlerInOrder
  BY DEF HandlerInOrder
<1>3. StoredInOrder
  BY DEF StoredInOrder, Linked
<1> QED
  BY <1>1, <1>2, <1>3 DEF IInv

(* Steps that change no collection keep the order of what is stored. *)
LEMMA QuietKeeps ==
  ASSUME StoredInOrder, UNCHANGED <<transfers, batches, matrices>>
  PROVE  StoredInOrder'
BY DEF StoredInOrder, Linked

(* Publishing, starting, committing, crashing and giving a message up. *)
LEMMA ConsumerKeepsIInv ==
  ASSUME IInv,
         \/ \E m \in Matrices : Settle(m)
         \/ Start \/ CommitOffset \/ Crash \/ HandlingFails
  PROVE  IInv'
<1> USE DEF IInv, handlerVars
<1>1. StoredInOrder'
  BY QuietKeeps DEF Settle, Start, CommitOffset, Crash, HandlingFails
<1>2. ASSUME NEW m \in Matrices, Settle(m)
      PROVE  TypeOK' /\ HandlerInOrder'
  <2>1. TypeOK'
    BY <1>2 DEF Settle, TypeOK
  <2>2. \A i \in 1 .. Len(settled) : settled'[i] = settled[i]
    BY <1>2 DEF Settle, TypeOK
  <2>3. Len(settled') = Len(settled) + 1
    BY <1>2 DEF Settle, TypeOK
  <2>4. offset < Len(settled) => Matrix' = Matrix
    BY <1>2, <2>2 DEF Settle, TypeOK, Matrix
  <2> QED
    BY <1>2, <2>1, <2>3, <2>4 DEF Settle, HandlerInOrder, TypeOK
<1>3. CASE Start
  BY <1>1, <1>3 DEF Start, TypeOK, Stages, HandlerInOrder
<1>4. CASE CommitOffset
  BY <1>1, <1>4 DEF CommitOffset, TypeOK, Stages, HandlerInOrder
<1>5. CASE Crash
  BY <1>1, <1>5 DEF Crash, TypeOK, Stages, HandlerInOrder
<1>6. CASE HandlingFails
  <2>1. offset < Len(settled)
    BY <1>6 DEF HandlingFails, HandlerInOrder
  <2>2. Matrix \in Matrices
    BY <2>1, MatrixAtOffset
  <2> QED
    BY <1>1, <1>6, <2>1, <2>2 DEF HandlingFails, TypeOK, Stages, HandlerInOrder
<1> QED
  BY <1>1, <1>2, <1>3, <1>4, <1>5, <1>6

(* The batches come first. *)
LEMMA BatchesKeepIInv ==
  ASSUME IInv,
         \/ GetMatrix
         \/ \E b \in Batches : StoreBatch(b)
         \/ GetTransfers
  PROVE  IInv'
<1> USE DEF IInv
<1>1. offset < Len(settled) /\ Matrix \in Matrices
  BY MatrixAtOffset DEF GetMatrix, StoreBatch, GetTransfers, HandlerInOrder
<1>2. CASE GetMatrix
  <2>1. BatchesOf[Matrix] \in SUBSET Batches /\ Matrix' = Matrix
    BY <1>1, <1>2, SettlementAssumption DEF GetMatrix, Matrix
  <2>2. StoredInOrder'
    BY <1>2, QuietKeeps DEF GetMatrix
  <2>3. TypeOK' /\ HandlerInOrder'
    BY <1>1, <1>2, <2>1 DEF GetMatrix, TypeOK, Stages, HandlerInOrder
  <2> QED
    BY <2>2, <2>3
<1>3. ASSUME NEW b \in Batches, StoreBatch(b)
      PROVE  IInv'
  <2>1. Matrix' = Matrix /\ batches \subseteq batches'
    BY <1>3 DEF StoreBatch, Matrix
  <2>2. TypeOK'
    BY <1>3 DEF StoreBatch, TypeOK
  <2>3. StoredInOrder'
    BY <1>3, <2>1 DEF StoreBatch, StoredInOrder, Linked
  <2>4. HandlerInOrder'
    BY <1>3, <2>1 DEF StoreBatch, HandlerInOrder
  <2> QED
    BY <2>2, <2>3, <2>4
<1>4. CASE GetTransfers
  <2>1. Matrix' = Matrix
    BY <1>4 DEF GetTransfers, Matrix
  <2>2. transfersLeft' \subseteq TransfersOf[Matrix] /\ transfersLeft' \in SUBSET Transfers
    BY <1>1, <1>4, PagesAreTransfers DEF GetTransfers
  <2>3. StoredInOrder'
    BY <1>4, QuietKeeps DEF GetTransfers
  <2>4. TypeOK'
    BY <1>4, <2>2 DEF GetTransfers, TypeOK, Stages
  <2>5. HandlerInOrder'
    BY <1>1, <1>4, <2>1, <2>2 DEF GetTransfers, HandlerInOrder
  <2> QED
    BY <2>3, <2>4, <2>5
<1> QED
  BY <1>2, <1>3, <1>4

(* A document is linked only to the matrix being handled, whose batches are
   stored by then. *)
LEMMA LinkingKeepsIInv ==
  ASSUME IInv,
         \/ \E t \in Transfers : SkipTransfer(t) \/ GetTransferById(t)
         \/ StoreTransfer
  PROVE  IInv'
<1> USE DEF IInv
<1>1. /\ stage = "transfers" /\ stage' = "transfers"
      /\ offset < Len(settled) /\ Matrix \in Matrices /\ Matrix' = Matrix
      /\ UNCHANGED <<settled, offset, batchesLeft, batches, matrices, restarts, lost>>
  BY MatrixAtOffset DEF SkipTransfer, GetTransferById, Linking, StoreTransfer,
                        HandlerInOrder, Matrix
<1>2. ASSUME NEW t \in Transfers, SkipTransfer(t)
      PROVE  IInv'
  <2>1. StoredInOrder'
    BY <1>1, <1>2, QuietKeeps DEF SkipTransfer
  <2>2. TypeOK' /\ HandlerInOrder'
    BY <1>1, <1>2 DEF SkipTransfer, Linking, TypeOK, HandlerInOrder
  <2> QED
    BY <2>1, <2>2
<1>3. ASSUME NEW t \in Transfers, GetTransferById(t)
      PROVE  IInv'
  <2>1. StoredInOrder'
    BY <1>1, <1>3, QuietKeeps DEF GetTransferById
  <2>2. found' = <<t, transfers[t]>> /\ transfers[t] \in Docs
    BY <1>3 DEF GetTransferById, TypeOK
  <2>3. found'[1] = t /\ found' \in Transfers \X Docs /\ t \in transfersLeft
    BY <1>3, <2>2 DEF GetTransferById, Linking
  <2>4. TypeOK'
    BY <1>1, <1>3, <2>3 DEF GetTransferById, TypeOK
  <2>5. HandlerInOrder'
    BY <1>1, <1>3, <2>3 DEF GetTransferById, HandlerInOrder
  <2> QED
    BY <2>1, <2>4, <2>5
<1>4. CASE StoreTransfer
  <2>1. found \in Transfers \X Docs /\ found[1] \in transfersLeft
    BY <1>1, <1>4 DEF StoreTransfer, TypeOK, HandlerInOrder
  <2>2. PICK t \in Transfers, doc \in Docs : found = <<t, doc>>
    BY <2>1
  <2>3. found[1] = t /\ found[2] = doc /\ t \in TransfersOf[Matrix]
    BY <1>1, <2>1, <2>2 DEF HandlerInOrder
  <2>4. transfers' = [transfers EXCEPT ![t] = WithSettlement(doc, Matrix)]
    BY <1>4, <2>3 DEF StoreTransfer
  <2>5. TypeOK'
    <3>1. transfers' \in [Transfers -> Docs \union {NoDoc}]
      <4>1. WithSettlement(doc, Matrix) \in Docs
        BY <1>1, <2>2, DocsWritten
      <4>2. transfers \in [Transfers -> Docs \union {NoDoc}]
        BY DEF TypeOK
      <4> QED
        BY <2>4, <4>1, <4>2
    <3>2. found' = <<>> /\ transfersLeft' \in SUBSET Transfers /\ skipped' = skipped
      BY <1>4 DEF StoreTransfer, TypeOK
    <3> QED
      BY <1>1, <3>1, <3>2 DEF TypeOK, Stages
  <2>6. HandlerInOrder'
    BY <1>1, <1>4 DEF StoreTransfer, HandlerInOrder
  <2>7. BatchOf[t] \in BatchesOf[Matrix]
    BY <1>1, <2>3, SettlementAssumption
  <2>8. BatchOf[t] \in KnownBatches => BatchOf[t] \in batches
    BY <1>1, <2>7 DEF HandlerInOrder
  <2>9. ASSUME NEW m \in Matrices, NEW u \in Transfers, Linked(u, m)'
        PROVE  /\ u \in TransfersOf[m]
               /\ BatchOf[u] \in KnownBatches => BatchOf[u] \in batches
    <3>1. CASE u = t
      <4>1. transfers'[u] = WithSettlement(doc, Matrix)
        BY <2>4, <3>1 DEF TypeOK
      <4>2. m = Matrix
        <5>1. WithSettlement(doc, Matrix).matrixId = Matrix
          BY <1>1, <2>2, DocsWritten
        <5>2. transfers'[u].matrixId = m
          BY <2>9 DEF Linked
        <5> QED
          BY <4>1, <5>1, <5>2
      <4> QED
        BY <2>3, <2>8, <3>1, <4>2
    <3>2. CASE u # t
      <4>1. transfers'[u] = transfers[u]
        BY <2>4, <3>2 DEF TypeOK
      <4>2. Linked(u, m)
        BY <2>9, <4>1 DEF Linked
      <4> QED
        BY <4>2 DEF StoredInOrder
    <3> QED
      BY <3>1, <3>2
  <2>10. StoredInOrder'
    BY <1>1, <2>9 DEF StoredInOrder
  <2> QED
    BY <2>5, <2>6, <2>10
<1> QED
  BY <1>2, <1>3, <1>4

(* The matrix comes last. *)
LEMMA StoreMatrixKeepsIInv ==
  ASSUME IInv, StoreMatrix
  PROVE  IInv'
<1> USE DEF IInv
<1>1. offset < Len(settled) /\ Matrix \in Matrices
  BY MatrixAtOffset DEF StoreMatrix, HandlerInOrder
<1>2. BatchesOf[Matrix] \intersect KnownBatches \subseteq batches
  BY DEF StoreMatrix, HandlerInOrder
<1>3. StoredInOrder'
  BY <1>2 DEF StoreMatrix, StoredInOrder, Linked
<1>4. TypeOK' /\ HandlerInOrder'
  BY <1>1 DEF StoreMatrix, TypeOK, Stages, HandlerInOrder
<1> QED
  BY <1>3, <1>4

(* The transfers reporting service never touches a link. *)
LEMMA ReportKeepsIInv ==
  ASSUME IInv, NEW t \in Transfers, ReportTransfer(t)
  PROVE  IInv'
<1> USE DEF IInv
<1>1. UNCHANGED <<settled, offset, stage, batchesLeft, transfersLeft, found, batches,
                  matrices, restarts, lost, skipped>>
  BY DEF ReportTransfer, settlementVars, handlerVars
<1>2. PICK doc \in Docs : /\ transfers' = [transfers EXCEPT ![t] = doc]
                          /\ \A m \in Matrices : doc.matrixId = m => Linked(t, m)
  <2>1. CASE transfers[t] = NoDoc /\ transfers' = [transfers EXCEPT ![t] = NewTransfer]
    BY <2>1, DocsWritten, DocAssumption
  <2>2. CASE /\ transfers[t] # NoDoc
             /\ transfers' = [transfers EXCEPT ![t] = WithFulfil(transfers[t])]
    <3>1. transfers[t] \in Docs
      BY <2>2 DEF TypeOK
    <3> QED
      BY <2>2, <3>1, DocsWritten DEF Linked
  <2> QED
    BY <2>1, <2>2 DEF ReportTransfer
<1>3. \A m \in Matrices : \A u \in Transfers : Linked(u, m)' => Linked(u, m)
  BY <1>2 DEF Linked, TypeOK
<1>4. StoredInOrder'
  BY <1>1, <1>3 DEF StoredInOrder
<1>5. TypeOK' /\ HandlerInOrder'
  BY <1>1, <1>2 DEF TypeOK, HandlerInOrder, Matrix
<1> QED
  BY <1>4, <1>5

(* What is stored of a settlement, with the progress of the handler that
   stores it, for any number of crashes and failures. *)
THEOREM IInvHolds == Spec => []IInv
<1>1. IInv /\ [Next]_vars => IInv'
  <2> SUFFICES ASSUME IInv, [Next]_vars PROVE IInv'
    OBVIOUS
  <2>1. CASE \/ \E m \in Matrices : Settle(m)
             \/ Start \/ CommitOffset \/ Crash \/ HandlingFails
    BY <2>1, ConsumerKeepsIInv
  <2>2. CASE \/ GetMatrix
             \/ \E b \in Batches : StoreBatch(b)
             \/ GetTransfers
    BY <2>2, BatchesKeepIInv
  <2>3. CASE \/ \E t \in Transfers : SkipTransfer(t) \/ GetTransferById(t)
             \/ StoreTransfer
    BY <2>3, LinkingKeepsIInv
  <2>4. CASE StoreMatrix
    BY <2>4, StoreMatrixKeepsIInv
  <2>5. CASE \E t \in Transfers : ReportTransfer(t)
    BY <2>5, ReportKeepsIInv
  <2>6. CASE UNCHANGED vars
    <3>1. UNCHANGED <<settled, offset, stage, batchesLeft, transfersLeft, found,
                      transfers, batches, matrices, restarts, lost, skipped>>
      BY <2>6 DEF vars, settlementVars, handlerVars
    <3> QED
      BY <3>1, QuietKeeps DEF IInv, TypeOK, HandlerInOrder, Matrix
  <2> QED
    BY <2>1, <2>2, <2>3, <2>4, <2>5, <2>6 DEF Next, ServiceNext, HandleSettled
<1> QED
  BY <1>1, InitIInv, PTL DEF Spec

(* No stored settlement has a dangling reference (see StoredInOrder). *)
THEOREM StoredInOrderHolds == Spec => []StoredInOrder
<1>1. IInv => StoredInOrder
  BY DEF IInv
<1> QED
  BY <1>1, IInvHolds, PTL

(* A link is for ever: no step of this service, and nothing the transfers
   service does while this one is not between reading and writing the same
   document, takes a transfer out of its settlement. *)
LEMMA LinkedStays ==
  ASSUME IInv, [Next]_vars, NEW m \in Matrices, NEW t \in Transfers, Linked(t, m)
  PROVE  Linked(t, m)'
<1> USE DEF IInv
<1>1. CASE UNCHANGED transfers
  BY <1>1 DEF Linked
<1>2. CASE StoreTransfer
  <2>1. /\ stage = "transfers" /\ found # <<>>
        /\ offset < Len(settled) /\ Matrix \in Matrices
    BY <1>2, MatrixAtOffset DEF StoreTransfer, HandlerInOrder
  <2>2. PICK u \in Transfers, doc \in Docs : found = <<u, doc>>
    BY <2>1 DEF TypeOK
  <2>3. found[1] = u /\ found[2] = doc /\ u \in TransfersOf[Matrix]
    BY <2>1, <2>2 DEF HandlerInOrder
  <2>4. transfers' = [transfers EXCEPT ![u] = WithSettlement(doc, Matrix)]
    BY <1>2, <2>3 DEF StoreTransfer
  <2>5. CASE u = t
    <3>1. t \in TransfersOf[m]
      BY DEF StoredInOrder
    <3>2. m = Matrix
      BY <2>1, <2>3, <2>5, <3>1, SettlementAssumption
    <3>3. transfers'[t] = WithSettlement(doc, Matrix)
      BY <2>4, <2>5 DEF TypeOK
    <3>4. WithSettlement(doc, Matrix) \in Docs /\ WithSettlement(doc, Matrix).matrixId = m
      BY <2>1, <3>2, DocsWritten
    <3> QED
      BY <3>3, <3>4, DocsWritten DEF Linked
  <2>6. CASE u # t
    BY <2>4, <2>6 DEF Linked, TypeOK
  <2> QED
    BY <2>5, <2>6
<1>3. ASSUME NEW u \in Transfers, ReportTransfer(u)
      PROVE  Linked(t, m)'
  <2>1. CASE u = t
    <3>1. transfers[t] \in Docs /\ transfers[t] # NoDoc /\ transfers[t].matrixId = m
      BY DEF Linked, TypeOK
    <3>2. transfers' = [transfers EXCEPT ![t] = WithFulfil(transfers[t])]
      BY <1>3, <2>1, <3>1 DEF ReportTransfer
    <3>3. transfers'[t] = WithFulfil(transfers[t])
      BY <3>2 DEF TypeOK
    <3> QED
      BY <3>1, <3>3, DocsWritten DEF Linked
  <2>2. CASE u # t
    BY <1>3, <2>2 DEF ReportTransfer, Linked, TypeOK
  <2> QED
    BY <2>1, <2>2
<1>4. UNCHANGED transfers \/ StoreTransfer \/ \E u \in Transfers : ReportTransfer(u)
  BY DEF Next, ServiceNext, HandleSettled, Settle, Start, CommitOffset, Crash,
         HandlingFails, GetMatrix, StoreBatch, GetTransfers, SkipTransfer,
         GetTransferById, StoreMatrix, vars
<1> QED
  BY <1>1, <1>2, <1>3, <1>4

(* What was passed over stays on record. *)
LEMMA SkippedStays == [Next]_vars => skipped \subseteq skipped'
BY DEF Next, ServiceNext, HandleSettled, Settle, Start, CommitOffset, Crash,
       HandlingFails, GetMatrix, StoreBatch, GetTransfers, SkipTransfer,
       GetTransferById, StoreTransfer, StoreMatrix, ReportTransfer,
       settlementVars, vars

(* What is done of a page stays done. *)
LEMMA DoneStays ==
  ASSUME IInv, [Next]_vars, NEW m \in Matrices, NEW t \in Transfers,
         Linked(t, m) \/ t \in skipped
  PROVE  (Linked(t, m) \/ t \in skipped)'
BY LinkedStays, SkippedStays

(* While a page is being linked its matrix does not change; a transfer leaves
   the list of those left when it is linked or passed over. *)
LEMMA PageKept ==
  ASSUME IInv, IInv', PageInOrder, [Next]_vars
  PROVE  PageInOrder'
<1> SUFFICES ASSUME stage' = "transfers"
             PROVE  \E page \in FirstPages(Matrix') : \A t \in page :
                      t \in transfersLeft' \/ Linked(t, Matrix)' \/ t \in skipped'
  BY DEF PageInOrder, FirstPages
<1>1. CASE GetTransfers
  <2>1. Matrix' = Matrix /\ transfersLeft' \in FirstPages(Matrix)
    BY <1>1 DEF GetTransfers, Matrix
  <2> QED
    BY <2>1
<1>2. CASE /\ stage = "transfers" /\ Matrix' = Matrix
           /\ \A t \in transfersLeft \ transfersLeft' :
                Linked(t, Matrix)' \/ t \in skipped'
  <2>1. Matrix \in Matrices
    BY <1>2, MatrixAtOffset DEF IInv, HandlerInOrder
  <2>2. PICK page \in FirstPages(Matrix) : \A t \in page :
          t \in transfersLeft \/ Linked(t, Matrix) \/ t \in skipped
    BY <1>2 DEF PageInOrder
  <2>3. page \in SUBSET Transfers
    BY <2>1, <2>2, PagesAreTransfers
  <2>4. ASSUME NEW t \in page
        PROVE  t \in transfersLeft' \/ Linked(t, Matrix)' \/ t \in skipped'
    <3>1. CASE t \in transfersLeft
      BY <1>2, <3>1
    <3>2. CASE Linked(t, Matrix) \/ t \in skipped
      <4>1. ASSUME NEW m \in Matrices, m = Matrix
            PROVE  Linked(t, m)' \/ t \in skipped'
        BY <2>3, <3>2, <4>1, DoneStays
      <4> QED
        BY <1>2, <2>1, <4>1 DEF Linked
    <3> QED
      BY <2>2, <3>1, <3>2
  <2> QED
    BY <1>2, <2>2, <2>4
<1>3. \/ GetTransfers
      \/ /\ stage = "transfers"
         /\ \/ StoreTransfer
            \/ \E t \in Transfers : SkipTransfer(t) \/ GetTransferById(t)
            \/ \E t \in Transfers : ReportTransfer(t)
            \/ \E m \in Matrices : Settle(m)
            \/ UNCHANGED vars
  <2>1. ~(Start \/ CommitOffset \/ Crash \/ HandlingFails \/ GetMatrix \/ StoreMatrix)
    BY DEF Start, CommitOffset, Crash, HandlingFails, GetMatrix, StoreMatrix
  <2>2. ~\E b \in Batches : StoreBatch(b)
    BY DEF StoreBatch
  <2>3. ASSUME \/ \E t \in Transfers : ReportTransfer(t)
               \/ \E m \in Matrices : Settle(m)
               \/ UNCHANGED vars
        PROVE  stage = "transfers"
    BY <2>3 DEF ReportTransfer, Settle, vars, settlementVars, handlerVars
  <2>4. ASSUME \/ StoreTransfer
               \/ \E t \in Transfers : SkipTransfer(t) \/ GetTransferById(t)
        PROVE  stage = "transfers"
    BY <2>4 DEF StoreTransfer, SkipTransfer, GetTransferById, Linking
  <2>5. \/ GetTransfers \/ StoreTransfer
        \/ \E t \in Transfers : SkipTransfer(t) \/ GetTransferById(t)
        \/ \E t \in Transfers : ReportTransfer(t)
        \/ \E m \in Matrices : Settle(m)
        \/ UNCHANGED vars
    BY <2>1, <2>2 DEF Next, ServiceNext, HandleSettled
  <2> QED
    BY <2>3, <2>4, <2>5
<1>4. CASE stage = "transfers" /\ StoreTransfer
  <2>1. Matrix' = Matrix /\ Matrix \in Matrices
    BY <1>4, MatrixAtOffset DEF StoreTransfer, Matrix, IInv, HandlerInOrder
  <2>2. PICK u \in Transfers, doc \in Docs : found = <<u, doc>>
    BY <1>4 DEF StoreTransfer, IInv, TypeOK
  <2>3. /\ transfers' = [transfers EXCEPT ![u] = WithSettlement(doc, Matrix)]
        /\ transfersLeft' = transfersLeft \ {u}
    BY <1>4, <2>2 DEF StoreTransfer
  <2>4. transfers'[u] = WithSettlement(doc, Matrix)
    BY <2>3 DEF IInv, TypeOK
  <2>5. /\ WithSettlement(doc, Matrix) \in Docs
        /\ WithSettlement(doc, Matrix).matrixId = Matrix
    BY <2>1, DocsWritten
  <2>6. Linked(u, Matrix)'
    <3>1. transfers'[u] # NoDoc /\ transfers'[u].matrixId = Matrix
      BY <2>4, <2>5, DocsWritten
    <3> QED
      BY <2>1, <3>1 DEF Linked
  <2> QED
    BY <1>2, <1>4, <2>1, <2>3, <2>6
<1>5. ASSUME stage = "transfers", NEW u \in Transfers,
             SkipTransfer(u) \/ GetTransferById(u) \/ ReportTransfer(u)
      PROVE  \E page \in FirstPages(Matrix') : \A t \in page :
               t \in transfersLeft' \/ Linked(t, Matrix)' \/ t \in skipped'
  <2>1. Matrix' = Matrix
    BY <1>5 DEF SkipTransfer, GetTransferById, ReportTransfer, settlementVars,
                handlerVars, Matrix
  <2>2. \A t \in transfersLeft \ transfersLeft' : t \in skipped'
    BY <1>5 DEF SkipTransfer, GetTransferById, ReportTransfer, settlementVars, handlerVars
  <2> QED
    BY <1>2, <1>5, <2>1, <2>2
<1>6. ASSUME stage = "transfers", NEW m \in Matrices, Settle(m)
      PROVE  \E page \in FirstPages(Matrix') : \A t \in page :
               t \in transfersLeft' \/ Linked(t, Matrix)' \/ t \in skipped'
  <2>1. offset < Len(settled) /\ offset' = offset /\ transfersLeft' = transfersLeft
    BY <1>6 DEF Settle, handlerVars, IInv, HandlerInOrder
  <2>2. \A i \in 1 .. Len(settled) : settled'[i] = settled[i]
    BY <1>6 DEF Settle, IInv, TypeOK
  <2>3. Matrix' = Matrix
    BY <2>1, <2>2 DEF Matrix, IInv, TypeOK
  <2> QED
    BY <1>2, <1>6, <2>1, <2>3
<1>7. CASE stage = "transfers" /\ UNCHANGED vars
  BY <1>2, <1>7 DEF vars, settlementVars, handlerVars, Matrix
<1> QED
  BY <1>1, <1>3, <1>4, <1>5, <1>6, <1>7

(* A matrix is stored when nothing of its page is left. *)
LEMMA CompleteKept ==
  ASSUME IInv, PageInOrder, MatrixIsComplete, [Next]_vars
  PROVE  MatrixIsComplete'
<1>1. ASSUME NEW m \in Matrices,
             \E page \in FirstPages(m) : \A t \in page : Linked(t, m) \/ t \in skipped
      PROVE  \E page \in FirstPages(m) : \A t \in page : (Linked(t, m) \/ t \in skipped)'
  <2>1. PICK page \in FirstPages(m) : \A t \in page : Linked(t, m) \/ t \in skipped
    BY <1>1
  <2>2. page \in SUBSET Transfers
    BY <2>1, PagesAreTransfers
  <2>3. \A t \in page : (Linked(t, m) \/ t \in skipped)'
    BY <2>1, <2>2, DoneStays
  <2> QED
    BY <2>3
<1>2. ASSUME NEW m \in matrices'
      PROVE  m \in Matrices /\ \E page \in FirstPages(m) :
                                 \A t \in page : Linked(t, m) \/ t \in skipped
  <2>1. CASE m \in matrices
    BY <2>1 DEF MatrixIsComplete, IInv, TypeOK
  <2>2. CASE m \notin matrices
    <3>1. StoreMatrix /\ m = Matrix
      BY <1>2, <2>2 DEF Next, ServiceNext, HandleSettled, Settle, Start, CommitOffset,
             Crash, HandlingFails, GetMatrix, StoreBatch, GetTransfers, SkipTransfer,
             GetTransferById, StoreTransfer, StoreMatrix, ReportTransfer,
             settlementVars, vars
    <3>2. Matrix \in Matrices /\ stage = "transfers" /\ transfersLeft = {}
      BY <3>1, MatrixAtOffset DEF StoreMatrix, IInv, HandlerInOrder
    <3> QED
      BY <3>1, <3>2 DEF PageInOrder
  <2> QED
    BY <2>1, <2>2
<1> QED
  BY <1>1, <1>2 DEF MatrixIsComplete, FirstPages

(* The invariant that MatrixIsComplete needs. *)
THEOREM PageIInvHolds == Spec => []PageIInv
<1>1. Init => PageInOrder /\ MatrixIsComplete
  BY DEF Init, SettlementInit, PageInOrder, MatrixIsComplete
<1>2. IInv /\ IInv' /\ PageInOrder /\ MatrixIsComplete /\ [Next]_vars
      => PageInOrder' /\ MatrixIsComplete'
  BY PageKept, CompleteKept
<1> QED
  BY <1>1, <1>2, IInvHolds, PTL DEF Spec, PageIInv

(* A stored matrix has its transfers, up to the first page and those that
   were not in the report yet (see MatrixIsComplete). *)
THEOREM MatrixIsCompleteHolds == Spec => []MatrixIsComplete
<1>1. PageIInv => MatrixIsComplete
  BY DEF PageIInv
<1> QED
  BY <1>1, PageIInvHolds, PTL

-----------------------------------------------------------------------------
(* The reports beside the service. *)

(* The settlements service does not notice the reports. *)
LEMMA StepsOfService == [ReportsNext]_allVars => [Next]_vars
BY DEF ReportsNext, StoringStep, StoreParticipant, StoreQuote,
       GetSettlementMatrixIds, ReportsStep, GetReport, ScanTransfer, EndScan,
       LookupParticipants, LookupBalances, allVars

(* So what holds of the service holds of the two together. *)
LEMMA PageIInvOfBoth == ReportsSpec => []PageIInv
<1>1. ReportsSpec => Spec
  <2>1. ReportsInit => Init
    BY DEF ReportsInit
  <2> QED
    BY <2>1, StepsOfService, PTL DEF ReportsSpec, Spec
<1> QED
  BY <1>1, PageIInvHolds, PTL

(* A stored matrix stays stored. *)
LEMMA MatricesStay == [Next]_vars => matrices \subseteq matrices'
BY DEF Next, ServiceNext, HandleSettled, Settle, Start, CommitOffset, Crash,
       HandlingFails, GetMatrix, StoreBatch, GetTransfers, SkipTransfer,
       GetTransferById, StoreTransfer, StoreMatrix, ReportTransfer,
       settlementVars, vars

(* A report is asked of a participant and a matrix. *)
LEMMA AskedIsRequest ==
  ASSUME ReportTypeOK, query # "none"
  PROVE  /\ asked.matrixId \in Matrices /\ asked.participantId \in Participants
         /\ asked.report \in Reports
BY DEF ReportTypeOK, Requests

(* Nothing was asked, nor listed, in the beginning. *)
LEMMA InitReports == ReportsInit => ReportsIInv
<1> SUFFICES ASSUME ReportsInit PROVE ReportsIInv
  OBVIOUS
<1> USE DEF ReportsInit, ReportInit
<1>1. ReportTypeOK
  BY ReportAssumption DEF ReportTypeOK
<1>2. RowsInOrder /\ SourcesInOrder /\ ScanInOrder /\ BalancesInOrder
  BY DEF RowsInOrder, SourcesInOrder, ScanInOrder, BalancesInOrder
<1> QED
  BY <1>1, <1>2 DEF ReportsIInv

(* What is due of a page can only become less while the services store. *)
LEMMA DueShrinks ==
  ASSUME [Next]_vars, asked' = asked, NEW page
  PROVE  Due(page)' \subseteq Due(page)
BY SkippedStays DEF Due

(* While the report is at rest the services store beside it: rows, the pages
   done and the sources only gain. *)
LEMMA StoringKeeps ==
  ASSUME PageIInv, ReportsIInv, [Next]_vars,
         UNCHANGED <<listed, query, asked, toScan, rows, balances>>,
         participant \subseteq participant' /\ participant' \in SUBSET Participants,
         quote \subseteq quote' /\ quote' \in SUBSET Quotes
  PROVE  ReportsIInv'
<1> USE DEF ReportsIInv
<1>1. ReportTypeOK'
  BY DEF ReportTypeOK
<1>2. IInv /\ matrices \subseteq matrices'
  BY MatricesStay DEF PageIInv
<1>3. RowsInOrder'
  <2>1. ASSUME NEW r \in rows
        PROVE  Linked(r[1], asked.matrixId)' /\ asked.participantId \in Parties(r[1])
    <3>1. query # "none"
      BY <2>1 DEF RowsInOrder
    <3>2. r[1] \in Transfers
      BY <2>1 DEF ReportTypeOK
    <3>3. \A m \in Matrices : Linked(r[1], m) => Linked(r[1], m)'
      BY <1>2, <3>2, LinkedStays
    <3>4. Linked(r[1], asked.matrixId) /\ asked.participantId \in Parties(r[1])
      BY <2>1 DEF RowsInOrder
    <3>5. transfers'[r[1]] # NoDoc /\ transfers'[r[1]].matrixId = asked.matrixId
      BY <3>1, <3>3, <3>4, AskedIsRequest DEF Linked
    <3> QED
      BY <3>4, <3>5 DEF Linked
  <2> QED
    BY <1>2, <2>1 DEF RowsInOrder, Parties
<1>4. SourcesInOrder'
  BY <1>2 DEF SourcesInOrder
<1>5. ScanInOrder'
  <2> SUFFICES ASSUME query # "none", asked.report # "initiation", asked.matrixId \in listed
               PROVE  \E page \in FirstPages(asked.matrixId) :
                        /\ \A t \in page : Linked(t, asked.matrixId)' \/ t \in skipped'
                        /\ \A t \in Due(page)' : t \in toScan \/ t \in Held
    BY DEF ScanInOrder, Held, FirstPages
  <2>1. PICK page \in FirstPages(asked.matrixId) :
          /\ \A t \in page : Linked(t, asked.matrixId) \/ t \in skipped
          /\ \A t \in Due(page) : t \in toScan \/ t \in Held
    BY DEF ScanInOrder
  <2>2. asked.matrixId \in Matrices
    BY AskedIsRequest
  <2>3. page \in SUBSET Transfers
    BY <2>1, <2>2, PagesAreTransfers
  <2>4. ASSUME NEW t \in page
        PROVE  Linked(t, asked.matrixId)' \/ t \in skipped'
    <3>1. ASSUME NEW m \in Matrices, m = asked.matrixId
          PROVE  Linked(t, m)' \/ t \in skipped'
      BY <1>2, <2>1, <2>3, <3>1, DoneStays
    <3> QED
      BY <2>2, <3>1 DEF Linked
  <2>5. Due(page)' \subseteq Due(page)
    BY DueShrinks
  <2> QED
    BY <2>1, <2>4, <2>5
<1>6. BalancesInOrder'
  BY DEF BalancesInOrder, BalancesOf, Parties
<1> QED
  BY <1>1, <1>3, <1>4, <1>5, <1>6

(* Listing matrices, asking for a report and ending its scan. *)
LEMMA AskingKeeps ==
  ASSUME PageIInv, ReportsIInv,
         \/ \E text \in Participants, startDate, endDate \in Dates :
              GetSettlementMatrixIds(text, startDate, endDate)
         \/ \E report \in Reports, of \in AskedFor : GetReport(report, of[1], of[2])
         \/ EndScan
  PROVE  ReportsIInv'
<1> USE DEF ReportsIInv
<1>1. ASSUME NEW text \in Participants, NEW startDate \in Dates, NEW endDate \in Dates,
             GetSettlementMatrixIds(text, startDate, endDate)
      PROVE  ReportsIInv'
  <2>1. listed' \subseteq matrices
    BY <1>1 DEF GetSettlementMatrixIds, MatricesFor, SourcesInOrder
  <2>2. matrices \subseteq Matrices /\ matrices' = matrices
    BY <1>1 DEF GetSettlementMatrixIds, vars, settlementVars, PageIInv, IInv, TypeOK
  <2>3. ReportTypeOK' /\ SourcesInOrder'
    BY <1>1, <2>1, <2>2 DEF GetSettlementMatrixIds, ReportTypeOK, SourcesInOrder
  <2>4. query' = "none" /\ rows' = {} /\ balances' = {}
    BY <1>1 DEF GetSettlementMatrixIds, RowsInOrder
  <2> QED
    BY <2>3, <2>4 DEF RowsInOrder, ScanInOrder, BalancesInOrder
<1>2. ASSUME NEW report \in Reports, NEW p \in Participants, NEW m \in Matrices,
             GetReport(report, p, m)
      PROVE  ReportsIInv'
  <2>1. /\ query' \in {"lookup", "scan"} /\ rows' = {} /\ balances' = {}
        /\ asked' = [report |-> report, participantId |-> p, matrixId |-> m,
                     participants |-> participant, quotes |-> quote]
        /\ UNCHANGED <<participant, quote, listed, transfers, matrices, skipped>>
        /\ query' = "lookup" => toScan' = {}
        /\ toScan' \in {{}, Transfers}
    BY <1>2 DEF GetReport, RowsInOrder, vars, settlementVars
  <2>2. /\ asked' \in Requests /\ asked'.report = report /\ asked'.matrixId = m
        /\ asked'.participants = participant /\ asked'.quotes = quote
    BY <2>1 DEF Requests, ReportTypeOK
  <2>3. ReportTypeOK' /\ SourcesInOrder' /\ RowsInOrder'
    BY <2>1, <2>2 DEF ReportTypeOK, SourcesInOrder, RowsInOrder
  <2>4. ScanInOrder'
    <3> SUFFICES ASSUME report # "initiation", m \in listed
                 PROVE  \E page \in FirstPages(m) :
                          /\ \A t \in page : Linked(t, m)' \/ t \in skipped'
                          /\ \A t \in Due(page)' : t \in toScan' \/ t \in Held'
      BY <2>1, <2>2 DEF ScanInOrder, FirstPages, Linked
    <3>1. m \in matrices
      BY DEF SourcesInOrder
    <3>2. PICK page \in FirstPages(m) :
            \A t \in page : Linked(t, m) \/ t \in skipped
      BY <3>1 DEF PageIInv, MatrixIsComplete
    <3>3. page \in SUBSET Transfers
      BY <3>2, PagesAreTransfers
    <3>4. toScan' = Transfers
      BY <1>2 DEF GetReport
    <3>5. Due(page)' \subseteq page
      BY DEF Due
    <3> QED
      BY <2>1, <3>2, <3>3, <3>4, <3>5 DEF Linked
  <2>5. BalancesInOrder'
    BY <2>1 DEF BalancesInOrder
  <2> QED
    BY <2>3, <2>4, <2>5
<1>3. CASE EndScan
  <2>1. /\ query = "scan" /\ query' \in {"lookup", "answered"} /\ toScan = {}
        /\ UNCHANGED <<participant, quote, listed, asked, toScan, rows, balances,
                       transfers, matrices, skipped>>
    BY <1>3 DEF EndScan, vars, settlementVars
  <2>2. ReportTypeOK' /\ SourcesInOrder' /\ RowsInOrder'
    BY <2>1 DEF ReportTypeOK, SourcesInOrder, RowsInOrder, Linked, Parties
  <2>3. /\ Held' = Held
        /\ \A m : FirstPages(m)' = FirstPages(m) /\ \A t : Linked(t, m)' = Linked(t, m)
        /\ \A page : Due(page)' = Due(page)
    BY <2>1 DEF Held, FirstPages, Linked, Due
  <2>4. ScanInOrder'
    BY <2>1, <2>3 DEF ScanInOrder, FirstPages, Linked, Due, Held
  <2>5. asked.report \in Reports /\ (query' = "answered" => asked.report = "detail")
    BY <1>3, <2>1, AskedIsRequest DEF EndScan
  <2>6. BalancesInOrder'
    BY <2>1, <2>5 DEF BalancesInOrder, BalancesOf, Parties
  <2> QED
    BY <2>2, <2>4, <2>6
<1>4. \A of \in AskedFor : of[1] \in Participants /\ of[2] \in Matrices
  BY ReportAssumption
<1> QED
  BY <1>1, <1>2, <1>3, <1>4

(* The rows that a visit to a transfer makes are of that transfer. *)
LEMMA RowsOfTransfer ==
  ASSUME quote \in SUBSET Quotes, NEW t \in Transfers, NEW made,
         made = IF asked.report = "detail" THEN DetailRows(t) ELSE SettlementRows(t)
  PROVE  /\ made \in SUBSET (Transfers \X (Quotes \union {NoQuote}))
         /\ \A r \in made : r[1] = t
         /\ made # {} => /\ Linked(t, asked.matrixId) /\ asked.matrixId \in matrices
                         /\ asked.participantId \in Parties(t)
BY DEF DetailRows, SettlementRows

(* A transfer that is due, linked and in a stored matrix has a row. *)
LEMMA DueHasRow ==
  ASSUME ReportsIInv, query # "none", NEW page, NEW t \in Due(page), t \in Transfers,
         Linked(t, asked.matrixId), asked.matrixId \in matrices
  PROVE  \E r \in (IF asked.report = "detail" THEN DetailRows(t) ELSE SettlementRows(t)) :
           r[1] = t
<1> USE DEF ReportsIInv, Due
<1>1. SettlementRows(t) = {<<t, NoQuote>>}
  BY DEF SettlementRows
<1>2. CASE asked.report = "detail"
  <2>1. PICK q \in asked.quotes : TransactionOf[q] = t
    BY <1>2
  <2>2. q \in quote /\ Parties(t) \subseteq participant
    BY <2>1 DEF SourcesInOrder
  <2>3. <<t, q>> \in DetailRows(t)
    BY <1>1, <2>1, <2>2 DEF DetailRows
  <2> QED
    BY <1>2, <2>3
<1>3. CASE asked.report # "detail"
  <2>1. <<t, NoQuote>> \in SettlementRows(t) /\ <<t, NoQuote>>[1] = t
    BY <1>1
  <2> QED
    BY <1>3, <2>1
<1> QED
  BY <1>2, <1>3

(* One more transfer is visited. *)
LEMMA ScanKeeps ==
  ASSUME PageIInv, ReportsIInv, NEW t \in Transfers, ScanTransfer(t)
  PROVE  ReportsIInv'
<1> USE DEF ReportsIInv
<1>1. /\ query = "scan" /\ toScan' = toScan \ {t}
      /\ UNCHANGED <<participant, quote, listed, query, asked, balances,
                     transfers, matrices, skipped>>
  BY DEF ScanTransfer, vars, settlementVars
<1> DEFINE made == IF asked.report = "detail" THEN DetailRows(t) ELSE SettlementRows(t)
<1>2. rows' = rows \union made
  BY DEF ScanTransfer
<1>3. /\ made \in SUBSET (Transfers \X (Quotes \union {NoQuote}))
      /\ \A r \in made : r[1] = t
      /\ made # {} => /\ Linked(t, asked.matrixId) /\ asked.matrixId \in matrices
                      /\ asked.participantId \in Parties(t)
  BY RowsOfTransfer DEF ReportTypeOK
<1> HIDE DEF made
<1>4. ReportTypeOK' /\ SourcesInOrder'
  BY <1>1, <1>2, <1>3 DEF ReportTypeOK, SourcesInOrder
<1>5. RowsInOrder'
  BY <1>1, <1>2, <1>3 DEF RowsInOrder, Linked, Parties
<1>6. ScanInOrder'
  <2> SUFFICES ASSUME asked.report # "initiation", asked.matrixId \in listed
               PROVE  \E page \in FirstPages(asked.matrixId) :
                        /\ \A s \in page : Linked(s, asked.matrixId) \/ s \in skipped
                        /\ \A s \in Due(page) : s \in toScan' \/ s \in Held'
    BY <1>1 DEF ScanInOrder, FirstPages, Linked, Due
  <2>1. PICK page \in FirstPages(asked.matrixId) :
          /\ \A s \in page : Linked(s, asked.matrixId) \/ s \in skipped
          /\ \A s \in Due(page) : s \in toScan \/ s \in Held
    BY <1>1 DEF ScanInOrder
  <2>2. Held \subseteq Held'
    BY <1>2 DEF Held
  <2>3. ASSUME t \in Due(page)
        PROVE  t \in Held'
    <3>1. Linked(t, asked.matrixId) /\ asked.matrixId \in matrices
      BY <2>1, <2>3 DEF Due, SourcesInOrder
    <3>2. \E r \in made : r[1] = t
      BY <1>1, <2>3, <3>1, DueHasRow DEF made
    <3> QED
      BY <1>2, <3>2 DEF Held
  <2> QED
    BY <1>1, <2>1, <2>2, <2>3
<1>7. BalancesInOrder'
  BY <1>1 DEF BalancesInOrder, BalancesOf, Parties
<1> QED
  BY <1>4, <1>5, <1>6, <1>7

(* The last join of a report. *)
LEMMA LookupKeeps ==
  ASSUME PageIInv, ReportsIInv, LookupParticipants \/ LookupBalances
  PROVE  ReportsIInv'
<1> USE DEF ReportsIInv
<1>1. /\ query = "lookup" /\ query' = "answered"
      /\ UNCHANGED <<participant, quote, listed, asked, toScan,
                     transfers, matrices, skipped>>
  BY DEF LookupParticipants, LookupBalances, vars, settlementVars
<1>2. CASE LookupParticipants
  <2>1. /\ rows' = {r \in rows : Parties(r[1]) \subseteq participant}
        /\ balances' = balances
    BY <1>2 DEF LookupParticipants
  <2>2. ReportTypeOK' /\ SourcesInOrder'
    BY <1>1, <2>1 DEF ReportTypeOK, SourcesInOrder
  <2>3. RowsInOrder'
    BY <1>1, <2>1 DEF RowsInOrder, Linked, Parties
  <2>4. ScanInOrder'
    <3> SUFFICES ASSUME asked.report # "initiation", asked.matrixId \in listed
                 PROVE  \E page \in FirstPages(asked.matrixId) :
                          /\ \A s \in page : Linked(s, asked.matrixId) \/ s \in skipped
                          /\ \A s \in Due(page) : s \in toScan \/ s \in Held'
      BY <1>1 DEF ScanInOrder, FirstPages, Linked, Due
    <3>1. PICK page \in FirstPages(asked.matrixId) :
            /\ \A s \in page : Linked(s, asked.matrixId) \/ s \in skipped
            /\ \A s \in Due(page) : s \in toScan \/ s \in Held
      BY <1>1 DEF ScanInOrder
    <3>2. ASSUME NEW s \in Due(page), s \in Held
          PROVE  s \in Held'
      <4>1. PICK r \in rows : r[1] = s
        BY <3>2 DEF Held
      <4>2. Parties(s) \subseteq participant
        BY <1>1, <3>2 DEF Due, SourcesInOrder
      <4> QED
        BY <2>1, <4>1, <4>2 DEF Held
    <3> QED
      BY <3>1, <3>2
  <2>5. BalancesInOrder'
    BY <1>1, <1>2, <2>1 DEF LookupParticipants, BalancesInOrder, BalancesOf, Parties
  <2> QED
    BY <2>2, <2>3, <2>4, <2>5
<1>3. CASE LookupBalances
  <2>1. /\ balances' = InitiationRows(asked.matrixId) /\ rows' = rows
        /\ asked.report = "initiation"
    BY <1>3 DEF LookupBalances
  <2>2. balances' # {} => asked.matrixId \in matrices
    BY <2>1 DEF InitiationRows
  <2>3. balances' \in SUBSET (Participants \X Currencies \X Currencies)
    <3> SUFFICES ASSUME NEW row \in balances'
                 PROVE  row \in Participants \X Currencies \X Currencies
      OBVIOUS
    <3>1. PICK account \in Accounts : row = <<account[1], account[2], account[2]>>
      BY <2>1 DEF InitiationRows
    <3> QED
      BY <3>1, ReportAssumption
  <2>4. ReportTypeOK' /\ SourcesInOrder'
    BY <1>1, <2>1, <2>3 DEF ReportTypeOK, SourcesInOrder
  <2>5. RowsInOrder' /\ ScanInOrder'
    BY <1>1, <2>1, <2>2 DEF RowsInOrder, ScanInOrder, Linked, Parties
  <2>6. BalancesInOrder'
    <3>1. /\ asked.matrixId \in listed => asked.matrixId \in matrices
          /\ asked.participants \subseteq participant
      BY <1>1 DEF SourcesInOrder
    <3>2. ASSUME NEW row \in balances'
          PROVE  row[2] = row[3] /\ <<row[1], row[2]>> \in BalancesOf(asked.matrixId)
      <4>1. PICK account \in Accounts :
              account \in BalancesOf(asked.matrixId)
                /\ row = <<account[1], account[2], account[2]>>
        BY <2>1 DEF InitiationRows
      <4>2. account = <<account[1], account[2]>>
        BY ReportAssumption
      <4> QED
        BY <4>1, <4>2
    <3>3. ASSUME NEW x \in BalancesOf(asked.matrixId) \intersect Accounts,
                 x[1] \in participant, asked.matrixId \in matrices
          PROVE  <<x[1], x[2], x[2]>> \in balances'
      <4>1. <<x, x>> \in {pair \in BalancesOf(asked.matrixId) \X Accounts :
                            /\ asked.matrixId \in matrices
                            /\ pair[1][1] \in participant /\ pair[1] = pair[2]}
        BY <3>3
      <4> QED
        BY <2>1, <4>1 DEF InitiationRows
    <3> QED
      BY <1>1, <3>1, <3>2, <3>3 DEF BalancesInOrder, BalancesOf, Parties
  <2> QED
    BY <2>4, <2>5, <2>6
<1> QED
  BY <1>2, <1>3

(* Rows, sources and the scan of a report, while the services store. *)
THEOREM ReportsIInvHolds == ReportsSpec => []ReportsIInv
<1>1. PageIInv /\ ReportsIInv /\ [ReportsNext]_allVars => ReportsIInv'
  <2> SUFFICES ASSUME PageIInv, ReportsIInv, [ReportsNext]_allVars
               PROVE  ReportsIInv'
    OBVIOUS
  <2>1. [Next]_vars
    BY StepsOfService
  <2>2. CASE \/ StoringStep \/ UNCHANGED allVars
             \/ \E p \in Participants : StoreParticipant(p)
             \/ \E q \in Quotes : StoreQuote(q)
    <3>1. /\ UNCHANGED <<listed, query, asked, toScan, rows, balances>>
          /\ participant \subseteq participant' /\ participant' \in SUBSET Participants
          /\ quote \subseteq quote' /\ quote' \in SUBSET Quotes
      BY <2>2 DEF StoringStep, reportVars, allVars, StoreParticipant, StoreQuote,
                  ReportsIInv, ReportTypeOK
    <3> QED
      BY <2>1, <3>1, StoringKeeps
  <2>3. CASE \/ \E text \in Participants, startDate, endDate \in Dates :
                  GetSettlementMatrixIds(text, startDate, endDate)
             \/ \E report \in Reports, of \in AskedFor : GetReport(report, of[1], of[2])
             \/ EndScan
    BY <2>3, AskingKeeps
  <2>4. CASE \E t \in Transfers : ScanTransfer(t)
    BY <2>4, ScanKeeps
  <2>5. CASE LookupParticipants \/ LookupBalances
    BY <2>5, LookupKeeps
  <2> QED
    BY <2>2, <2>3, <2>4, <2>5 DEF ReportsNext, ReportsStep
<1> QED
  BY <1>1, InitReports, PageIInvOfBoth, PTL DEF ReportsSpec

(* Nobody is shown anything of a settlement that is not stored, nor a transfer
   that is not of it and of the participant (see ShowsStoredOnly). *)
THEOREM ShowsStoredOnlyHolds == ReportsSpec => []ShowsStoredOnly
<1>1. ReportsIInv => ShowsStoredOnly
  <2> SUFFICES ASSUME ReportsIInv, rows # {} \/ balances # {}
               PROVE  /\ asked.matrixId \in matrices
                      /\ \A t \in Held : /\ Linked(t, asked.matrixId)
                                         /\ asked.participantId \in Parties(t)
    BY DEF ShowsStoredOnly, Shown, MayBeEmpty, Empty
  <2> QED
    BY DEF ReportsIInv, RowsInOrder, Held
<1> QED
  BY <1>1, ReportsIInvHolds, PTL

(* Who got a matrix listed gets all of it that is due (see
   ListedReportIsComplete). *)
THEOREM ListedReportHolds == ReportsSpec => []ListedReportIsComplete
<1>1. ReportsIInv => ListedReportIsComplete
  <2> SUFFICES ASSUME ReportsIInv, query = "answered", asked.report # "initiation",
                      asked.matrixId \in listed
               PROVE  \E page \in FirstPages(asked.matrixId) : Due(page) \subseteq Held
    BY DEF ListedReportIsComplete
  <2>1. toScan = {}
    BY DEF ReportsIInv, RowsInOrder
  <2> QED
    BY <2>1 DEF ReportsIInv, ScanInOrder
<1> QED
  BY <1>1, ReportsIInvHolds, PTL

-----------------------------------------------------------------------------
(* The figures of the reports. *)

(* Amounts of transfers can be added up. *)
LEMMA AmountsAreInts ==
  /\ \A S \in SUBSET Transfers : IsFiniteSet(S)
  /\ \A t \in Transfers : /\ AmountOf[t] \in Int /\ Net[t] \in Int
                          /\ PayerOf[t] \in Participants /\ PayeeOf[t] \in Participants
                          /\ CurrencyOf[t] \in Currencies /\ PayerOf[t] # PayeeOf[t]
<1>1. ASSUME NEW S \in SUBSET Transfers
      PROVE  IsFiniteSet(S)
  BY FS_Subset, FinitenessAssumption
<1>2. ASSUME NEW t \in Transfers
      PROVE  AmountOf[t] \in Int /\ Net[t] \in Int
  <2>1. AmountOf[t] \in Nat
    BY AmountAssumption
  <2> QED
    BY <2>1 DEF Net
<1> QED
  BY <1>1, <1>2, ReportAssumption

(* What a participant is owed by a settlement is what its transfers are worth
   to it. *)
LEMMA NetOfMatrix ==
  ASSUME NEW m \in Matrices, NEW c
  PROVE  SumFunctionOnSet(Net, {t \in TransfersOf[m] : CurrencyOf[t] = c})
           = -SettlementTransfer(m, asked.participantId, c)
<1> DEFINE p == asked.participantId
           S == {t \in TransfersOf[m] : CurrencyOf[t] = c}
           Paid == {t \in S : PayerOf[t] = p}
           Earned == {t \in S : PayeeOf[t] = p}
           debit == [t \in Transfers |-> IF PayerOf[t] = p THEN AmountOf[t] ELSE 0]
           credit == [t \in Transfers |-> IF PayeeOf[t] = p THEN AmountOf[t] ELSE 0]
<1>1. S \in SUBSET Transfers /\ IsFiniteSet(S)
  BY SettlementAssumption, AmountsAreInts
<1>2. \A t \in S : credit[t] \in Int /\ debit[t] \in Int /\ Net[t] = credit[t] - debit[t]
  <2> SUFFICES ASSUME NEW t \in S
               PROVE  credit[t] \in Int /\ debit[t] \in Int /\ Net[t] = credit[t] - debit[t]
    OBVIOUS
  <2>1. t \in Transfers /\ AmountOf[t] \in Int /\ PayerOf[t] # PayeeOf[t]
    BY <1>1, AmountsAreInts
  <2> QED
    BY <2>1 DEF Net
<1>3. SumFunctionOnSet(debit, S) = SumFunctionOnSet(AmountOf, Paid)
  <2>1. /\ Paid \in SUBSET S
        /\ \A t \in Paid : AmountOf[t] \in Int /\ debit[t] = AmountOf[t]
        /\ \A t \in S \ Paid : debit[t] = 0
    BY <1>1, AmountsAreInts
  <2> HIDE DEF debit, Paid, S
  <2> QED
    BY <1>1, <2>1, SumOfPart
<1>4. SumFunctionOnSet(credit, S) = SumFunctionOnSet(AmountOf, Earned)
  <2>1. /\ Earned \in SUBSET S
        /\ \A t \in Earned : AmountOf[t] \in Int /\ credit[t] = AmountOf[t]
        /\ \A t \in S \ Earned : credit[t] = 0
    BY <1>1, AmountsAreInts
  <2> HIDE DEF credit, Earned, S
  <2> QED
    BY <1>1, <2>1, SumOfPart
<1>5. /\ DebitBalance(m, p, c) = SumFunctionOnSet(AmountOf, Paid)
      /\ CreditBalance(m, p, c) = SumFunctionOnSet(AmountOf, Earned)
  <2>1. /\ Paid = {t \in TransfersOf[m] : PayerOf[t] = p /\ CurrencyOf[t] = c}
        /\ Earned = {t \in TransfersOf[m] : PayeeOf[t] = p /\ CurrencyOf[t] = c}
    OBVIOUS
  <2> HIDE DEF Paid, Earned
  <2> QED
    BY <2>1 DEF DebitBalance, CreditBalance
<1> HIDE DEF debit, credit, Paid, Earned, S
<1>6. SumFunctionOnSet(Net, S) = SumFunctionOnSet(credit, S) - SumFunctionOnSet(debit, S)
  BY <1>1, <1>2, SumOfDifferences
<1>7. SumFunctionOnSet(credit, S) \in Int /\ SumFunctionOnSet(debit, S) \in Int
  BY <1>1, <1>2, SumIsInt
<1>8. SumFunctionOnSet(Net, S) = -SettlementTransfer(m, p, c)
  BY <1>3, <1>4, <1>5, <1>6, <1>7 DEF SettlementTransfer
<1> QED
  BY <1>8 DEF S

(* The transfers of a report are of its matrix and its participant. *)
LEMMA HeldOfMatrix ==
  ASSUME IInv, ReportsIInv, query # "none"
  PROVE  /\ asked.matrixId \in Matrices
         /\ Held \in SUBSET Transfers /\ Held \subseteq TransfersOf[asked.matrixId]
         /\ \A t \in Held : asked.participantId \in Parties(t)
<1>1. asked.matrixId \in Matrices
  BY AskedIsRequest DEF ReportsIInv
<1>2. ASSUME NEW t \in Held
      PROVE  /\ t \in Transfers /\ t \in TransfersOf[asked.matrixId]
             /\ asked.participantId \in Parties(t)
  <2>1. PICK r \in rows : r[1] = t
    BY DEF Held
  <2>2. t \in Transfers
    BY <2>1 DEF ReportsIInv, ReportTypeOK
  <2>3. Linked(t, asked.matrixId) /\ asked.participantId \in Parties(t)
    BY <2>1 DEF ReportsIInv, RowsInOrder
  <2> QED
    BY <1>1, <2>2, <2>3 DEF IInv, StoredInOrder
<1> QED
  BY <1>1, <1>2

(* The transfers shown in a currency and those not shown are all there are. *)
LEMMA ShownAndNotShown ==
  ASSUME IInv, ReportsIInv, query # "none", NEW c
  PROVE  SumFunctionOnSet(Net, HeldIn(c)) + SumFunctionOnSet(Net, NotShown(Held, c))
           = -SettlementTransfer(asked.matrixId, asked.participantId, c)
<1> DEFINE all == {t \in TransfersOf[asked.matrixId] : CurrencyOf[t] = c}
<1>1. asked.matrixId \in Matrices /\ Held \subseteq TransfersOf[asked.matrixId]
  BY HeldOfMatrix
<1>2. all \in SUBSET Transfers /\ HeldIn(c) \in SUBSET all /\ NotShown(Held, c) \in SUBSET all
      /\ HeldIn(c) \union NotShown(Held, c) = all /\ HeldIn(c) \intersect NotShown(Held, c) = {}
  BY <1>1, SettlementAssumption DEF HeldIn, NotShown
<1>3. IsFiniteSet(HeldIn(c)) /\ IsFiniteSet(NotShown(Held, c)) /\ \A t \in all : Net[t] \in Int
  BY <1>2, AmountsAreInts
<1>4. SumFunctionOnSet(Net, all) = -SettlementTransfer(asked.matrixId, asked.participantId, c)
  BY <1>1, NetOfMatrix
<1> HIDE DEF all
<1>5. SumFunctionOnSet(Net, HeldIn(c) \union NotShown(Held, c))
        = SumFunctionOnSet(Net, HeldIn(c)) + SumFunctionOnSet(Net, NotShown(Held, c))
  BY <1>2, <1>3, SumOfUnion
<1> QED
  BY <1>2, <1>4, <1>5

(* The net position of a group of the settlement report is what its transfers
   are worth to the participant. *)
LEMMA NetOfGroup ==
  ASSUME IInv, ReportsIInv, query # "none", NEW row \in SettlementGroups
  PROVE  NetPosition[row] = SumFunctionOnSet(Net, GroupOf(row))
<1> DEFINE S == GroupOf(row)
           Out == {t \in S : Sent(t)}
           In == {t \in S : ~Sent(t)}
           sent == [t \in Transfers |-> IF Sent(t) THEN AmountOf[t] ELSE 0]
           received == [t \in Transfers |-> IF Sent(t) THEN 0 ELSE AmountOf[t]]
<1>1. S \in SUBSET Held /\ S \in SUBSET Transfers /\ IsFiniteSet(S)
  BY HeldOfMatrix, AmountsAreInts DEF GroupOf
<1>2. \A t \in S : received[t] \in Int /\ sent[t] \in Int /\ Net[t] = received[t] - sent[t]
  <2> SUFFICES ASSUME NEW t \in S
               PROVE  /\ received[t] \in Int /\ sent[t] \in Int
                      /\ Net[t] = received[t] - sent[t]
    OBVIOUS
  <2>1. /\ t \in Transfers /\ AmountOf[t] \in Int /\ PayerOf[t] # PayeeOf[t]
        /\ asked.participantId \in {PayerOf[t], PayeeOf[t]}
    BY <1>1, AmountsAreInts, HeldOfMatrix DEF Parties
  <2> QED
    BY <2>1 DEF Net, Sent
<1>3. SumFunctionOnSet(sent, S) = SumFunctionOnSet(AmountOf, Out)
  <2>1. /\ Out \in SUBSET S
        /\ \A t \in Out : AmountOf[t] \in Int /\ sent[t] = AmountOf[t]
        /\ \A t \in S \ Out : sent[t] = 0
    BY <1>1, AmountsAreInts
  <2> HIDE DEF sent, Out, S
  <2> QED
    BY <1>1, <2>1, SumOfPart
<1>4. SumFunctionOnSet(received, S) = SumFunctionOnSet(AmountOf, In)
  <2>1. /\ In \in SUBSET S
        /\ \A t \in In : AmountOf[t] \in Int /\ received[t] = AmountOf[t]
        /\ \A t \in S \ In : received[t] = 0
    BY <1>1, AmountsAreInts
  <2> HIDE DEF received, In, S
  <2> QED
    BY <1>1, <2>1, SumOfPart
<1>5. NetPosition[row] = SumFunctionOnSet(AmountOf, In) - SumFunctionOnSet(AmountOf, Out)
  BY DEF NetPosition, TotalAmountReceived, TotalAmountSent
<1> HIDE DEF sent, received, Out, In
<1>6. SumFunctionOnSet(Net, S) = SumFunctionOnSet(received, S) - SumFunctionOnSet(sent, S)
  <2> HIDE DEF S
  <2> QED
    BY <1>1, <1>2, SumOfDifferences
<1> QED
  BY <1>3, <1>4, <1>5, <1>6

(* The rows of the settlement report in a currency add up to what all its
   transfers in that currency are worth. *)
LEMMA GroupsAddUp ==
  ASSUME IInv, ReportsIInv, query # "none", NEW c
  PROVE  AggregatedNetPosition(c) = SumFunctionOnSet(Net, HeldIn(c))
<1> DEFINE S == HeldIn(c)
           K == {row \in SettlementGroups : row[2] = c}
           key == [t \in Held |-> <<RelateParticipant(t), CurrencyOf[t]>>]
           group == [row \in K |-> GroupOf(row)]
<1>1. Held \in SUBSET Transfers /\ S \in SUBSET Held /\ IsFiniteSet(S)
      /\ \A t \in S : Net[t] \in Int
  BY HeldOfMatrix, AmountsAreInts DEF HeldIn
<1>2. IsFiniteSet(K)
  <2>1. IsFiniteSet(Participants \X Currencies)
    BY FinitenessAssumption, FS_Product
  <2>2. K \in SUBSET (Participants \X Currencies)
    BY <1>1, AmountsAreInts DEF SettlementGroups, RelateParticipant
  <2> QED
    BY <2>1, <2>2, FS_Subset
<1>3. \A t \in S : key[t] \in K
  BY <1>1 DEF SettlementGroups, HeldIn
<1>4. ASSUME NEW row \in K
      PROVE  /\ NetPosition[row] = SumFunctionOnSet(Net, group[row])
             /\ \A t : t \in group[row] <=> t \in S /\ key[t] = row
  <2>1. \A t : t \in group[row] <=> t \in S /\ key[t] = row
    BY <1>1 DEF GroupOf, HeldIn
  <2>2. NetPosition[row] = SumFunctionOnSet(Net, GroupOf(row))
    BY NetOfGroup
  <2> QED
    BY <2>1, <2>2
<1> HIDE DEF S, K, key, group
<1>5. SumFunctionOnSet(NetPosition, K) = SumFunctionOnSet(Net, S)
  BY <1>1, <1>2, <1>3, <1>4, SumByKey
<1> QED
  BY <1>5 DEF AggregatedNetPosition, K, S

(* The net position of the settlement report is the settlement transfer of
   the initiation report (see NetPositionsSettle). *)
THEOREM NetPositionsHold == ReportsSpec => []NetPositionsSettle
<1>1. IInv /\ ReportsIInv /\ ListedReportIsComplete => NetPositionsSettle
  <2> SUFFICES ASSUME IInv, ReportsIInv, ListedReportIsComplete, Answered("settlement")
               PROVE  \E page \in FirstPages(asked.matrixId) :
                        /\ Due(page) \subseteq Held
                        /\ \A c \in Currencies :
                             AggregatedNetPosition(c) + SumFunctionOnSet(Net, NotShown(Held, c))
                               = -SettlementTransfer(asked.matrixId, asked.participantId, c)
    BY DEF NetPositionsSettle
  <2>1. query = "answered" /\ query # "none" /\ asked.report = "settlement"
        /\ asked.matrixId \in listed
    BY DEF Answered
  <2>2. PICK page \in FirstPages(asked.matrixId) : Due(page) \subseteq Held
    BY <2>1 DEF ListedReportIsComplete
  <2>3. \A c \in Currencies :
          AggregatedNetPosition(c) + SumFunctionOnSet(Net, NotShown(Held, c))
            = -SettlementTransfer(asked.matrixId, asked.participantId, c)
    BY <2>1, GroupsAddUp, ShownAndNotShown
  <2> QED
    BY <2>2, <2>3
<1> QED
  BY <1>1, PageIInvOfBoth, ReportsIInvHolds, ListedReportHolds, PTL DEF PageIInv

(* The rows of a transfer in the detail report say what it is worth, once for
   each of its quotes. *)
LEMMA DetailsOfTransfers ==
  ASSUME IInv, ReportsIInv, query # "none", NEW c
  PROVE  /\ DetailNet(c) - SumFunctionOnSet(Repeated, HeldIn(c)) = SumFunctionOnSet(Net, HeldIn(c))
         /\ DetailNet(c) \in Int /\ SumFunctionOnSet(Repeated, HeldIn(c)) \in Int
<1> DEFINE shown == {r \in rows : CurrencyOf[r[1]] = c}
           received == [r \in rows |-> ReceivedAmount(r[1])]
           sent == [r \in rows |-> SentAmount(r[1])]
           worth == [r \in rows |-> Net[r[1]]]
           rowsOf == [t \in Held |-> {r \in rows : r[1] = t}]
           first == [r \in rows |-> r[1]]
           total == [t \in Held |-> Net[t] * Cardinality(rowsOf[t])]
<1>1. rows \in SUBSET (Transfers \X (Quotes \union {NoQuote})) /\ Held \in SUBSET Transfers
  BY HeldOfMatrix DEF ReportsIInv, ReportTypeOK
<1>2. \A R \in SUBSET rows : IsFiniteSet(R)
  <2>1. IsFiniteSet(Quotes \union {NoQuote})
    BY FinitenessAssumption, FS_AddElement
  <2>2. IsFiniteSet(Transfers \X (Quotes \union {NoQuote}))
    BY <2>1, FinitenessAssumption, FS_Product
  <2> QED
    BY <1>1, <2>2, FS_Subset
<1>3. shown \in SUBSET rows /\ IsFiniteSet(shown) /\ IsFiniteSet(HeldIn(c))
      /\ HeldIn(c) \in SUBSET Held
  BY <1>1, <1>2, AmountsAreInts DEF HeldIn
<1>4. ASSUME NEW r \in shown
      PROVE  /\ received[r] \in Int /\ sent[r] \in Int /\ worth[r] = received[r] - sent[r]
             /\ worth[r] \in Int /\ first[r] \in HeldIn(c)
  <2>1. r[1] \in Transfers /\ r[1] \in Held /\ CurrencyOf[r[1]] = c
    BY <1>1 DEF Held
  <2>2. AmountOf[r[1]] \in Int /\ Net[r[1]] \in Int /\ PayerOf[r[1]] # PayeeOf[r[1]]
    BY <2>1, AmountsAreInts
  <2>3. ReceivedAmount(r[1]) \in Int /\ SentAmount(r[1]) \in Int
        /\ Net[r[1]] = ReceivedAmount(r[1]) - SentAmount(r[1])
    BY <2>1, <2>2 DEF ReceivedAmount, SentAmount, Net
  <2> QED
    BY <2>1, <2>2, <2>3 DEF HeldIn
<1>5. DetailNet(c) = SumFunctionOnSet(received, shown) - SumFunctionOnSet(sent, shown)
  BY DEF DetailNet
<1>6. ASSUME NEW t \in HeldIn(c)
      PROVE  /\ \A r : r \in rowsOf[t] <=> r \in shown /\ first[r] = t
             /\ total[t] = SumFunctionOnSet(worth, rowsOf[t])
             /\ total[t] \in Int /\ Net[t] \in Int /\ Repeated[t] = total[t] - Net[t]
  <2>1. t \in Held /\ t \in Transfers /\ CurrencyOf[t] = c /\ Net[t] \in Int
    BY <1>1, AmountsAreInts DEF HeldIn
  <2>2. \A r : r \in rowsOf[t] <=> r \in shown /\ first[r] = t
    BY <2>1
  <2>3. /\ IsFiniteSet(rowsOf[t]) /\ \A r \in rowsOf[t] : worth[r] = Net[t]
        /\ total[t] = Net[t] * Cardinality(rowsOf[t])
        /\ Repeated[t] = Net[t] * (Cardinality(rowsOf[t]) - 1)
    BY <1>2, <2>1 DEF Repeated
  <2>4. Cardinality(rowsOf[t]) \in Nat
    BY <2>3, FS_CardinalityType
  <2> HIDE DEF rowsOf, worth, total
  <2>5. total[t] = SumFunctionOnSet(worth, rowsOf[t])
    BY <2>1, <2>3, SumOfConstant
  <2>6. \A x \in Int, n \in Nat : x * n \in Int /\ x * (n - 1) = x * n - x
    OBVIOUS
  <2> QED
    BY <2>1, <2>2, <2>3, <2>4, <2>5, <2>6
<1> HIDE DEF shown, received, sent, worth, rowsOf, first, total
<1>7. SumFunctionOnSet(worth, shown) = SumFunctionOnSet(received, shown) - SumFunctionOnSet(sent, shown)
  BY <1>3, <1>4, SumOfDifferences
<1>8. SumFunctionOnSet(total, HeldIn(c)) = SumFunctionOnSet(worth, shown)
  BY <1>3, <1>4, <1>6, SumByKey
<1>9. SumFunctionOnSet(Repeated, HeldIn(c))
        = SumFunctionOnSet(total, HeldIn(c)) - SumFunctionOnSet(Net, HeldIn(c))
  BY <1>3, <1>6, SumOfDifferences
<1>10. SumFunctionOnSet(total, HeldIn(c)) \in Int /\ SumFunctionOnSet(Net, HeldIn(c)) \in Int
  BY <1>3, <1>6, SumIsInt
<1> QED
  BY <1>5, <1>7, <1>8, <1>9, <1>10

(* So do the columns of the detail report (see DetailsAddUp). *)
THEOREM DetailsHold == ReportsSpec => []DetailsAddUp
<1>1. IInv /\ ReportsIInv /\ ListedReportIsComplete => DetailsAddUp
  <2> SUFFICES ASSUME IInv, ReportsIInv, ListedReportIsComplete, Answered("detail")
               PROVE  \E page \in FirstPages(asked.matrixId) :
                        /\ Due(page) \subseteq Held
                        /\ \A c \in Currencies :
                             DetailNet(c) + SumFunctionOnSet(Net, NotShown(Held, c))
                                          - SumFunctionOnSet(Repeated, HeldIn(c))
                               = -SettlementTransfer(asked.matrixId, asked.participantId, c)
    BY DEF DetailsAddUp
  <2>1. query = "answered" /\ query # "none" /\ asked.report = "detail"
        /\ asked.matrixId \in listed
    BY DEF Answered
  <2>2. PICK page \in FirstPages(asked.matrixId) : Due(page) \subseteq Held
    BY <2>1 DEF ListedReportIsComplete
  <2>3. ASSUME NEW c \in Currencies
        PROVE  DetailNet(c) + SumFunctionOnSet(Net, NotShown(Held, c))
                            - SumFunctionOnSet(Repeated, HeldIn(c))
                 = -SettlementTransfer(asked.matrixId, asked.participantId, c)
    <3>1. SumFunctionOnSet(Net, NotShown(Held, c)) \in Int
      <4>1. NotShown(Held, c) \in SUBSET Transfers
        BY <2>1, HeldOfMatrix, SettlementAssumption DEF NotShown
      <4>2. IsFiniteSet(NotShown(Held, c)) /\ \A t \in NotShown(Held, c) : Net[t] \in Int
        BY <4>1, AmountsAreInts
      <4> QED
        BY <4>2, SumIsInt
    <3>2. /\ DetailNet(c) - SumFunctionOnSet(Repeated, HeldIn(c)) = SumFunctionOnSet(Net, HeldIn(c))
          /\ DetailNet(c) \in Int /\ SumFunctionOnSet(Repeated, HeldIn(c)) \in Int
      BY <2>1, DetailsOfTransfers
    <3>3. SumFunctionOnSet(Net, HeldIn(c)) + SumFunctionOnSet(Net, NotShown(Held, c))
            = -SettlementTransfer(asked.matrixId, asked.participantId, c)
      BY <2>1, ShownAndNotShown
    <3> QED
      BY <3>1, <3>2, <3>3
  <2> QED
    BY <2>2, <2>3
<1> QED
  BY <1>1, PageIInvOfBoth, ReportsIInvHolds, ListedReportHolds, PTL DEF PageIInv

(* The sheet and the settlement by currency, and the balances of the payers, or
   of the payees, that each row of the sheet has. *)
RowsIn(c) == {row \in balances : row[2] = c}

TransfersIn(c) == {t \in TransfersOf[asked.matrixId] : CurrencyOf[t] = c}

BalancesOfSide(side) ==
  [row \in balances |->
     SumFunctionOnSet(AmountOf, {t \in TransfersOf[asked.matrixId] :
                                   side[t] = row[1] /\ CurrencyOf[t] = row[2]})]

(* In a currency there is at most one row of each participant. *)
LEMMA BalancesAreFinite ==
  ASSUME ReportsIInv, NEW c
  PROVE  IsFiniteSet(RowsIn(c))
<1> DEFINE K == RowsIn(c)
           of == [row \in K |-> row[1]]
<1>1. /\ balances \in SUBSET (Participants \X Currencies \X Currencies)
      /\ \A row \in balances : row[2] = row[3]
  BY DEF ReportsIInv, ReportTypeOK, BalancesInOrder
<1>2. of \in [K -> Participants]
  BY <1>1 DEF RowsIn
<1>3. ASSUME NEW r \in K, NEW s \in K, of[r] = of[s]
      PROVE  r = s
  <2>1. /\ r \in Participants \X Currencies \X Currencies /\ r[2] = c /\ r[3] = c
        /\ s \in Participants \X Currencies \X Currencies /\ s[2] = c /\ s[3] = c
        /\ r[1] = s[1]
    BY <1>1, <1>3 DEF RowsIn
  <2> HIDE DEF K, of
  <2> QED
    BY <2>1
<1> HIDE DEF K, of
<1>4. of \in Injection(K, Participants)
  BY <1>2, <1>3 DEF Injection, IsInjective
<1>5. IsFiniteSet(K)
  BY <1>4, FS_Injection, FinitenessAssumption
<1> QED
  BY <1>5 DEF K

(* The balances of the payers in a currency are the amounts of its transfers;
   so are those of the payees. *)
LEMMA BalancesAddUp ==
  ASSUME ReportsIInv, query # "none",
         \A x \in BalancesOf(asked.matrixId) : \E row \in balances : x = <<row[1], row[2]>>,
         NEW side \in {PayerOf, PayeeOf}, NEW c
  PROVE  SumFunctionOnSet(BalancesOfSide(side), RowsIn(c))
           = SumFunctionOnSet(AmountOf, TransfersIn(c))
<1> DEFINE K == RowsIn(c)
           S == TransfersIn(c)
           key == [t \in Transfers |-> <<side[t], c, c>>]
           group == [row \in balances |-> {t \in TransfersOf[asked.matrixId] :
                                             side[t] = row[1] /\ CurrencyOf[t] = row[2]}]
           figure == BalancesOfSide(side)
<1>1. /\ asked.matrixId \in Matrices
      /\ balances \in SUBSET (Participants \X Currencies \X Currencies)
      /\ \A row \in balances : row[2] = row[3]
  BY AskedIsRequest DEF ReportsIInv, ReportTypeOK, BalancesInOrder
<1>2. S \in SUBSET Transfers /\ IsFiniteSet(S) /\ \A t \in S : AmountOf[t] \in Int
  BY <1>1, SettlementAssumption, AmountsAreInts DEF TransfersIn
<1>3. IsFiniteSet(K)
  BY BalancesAreFinite
<1>4. ASSUME NEW t \in S
      PROVE  key[t] \in K
  <2>1. t \in Transfers /\ t \in TransfersOf[asked.matrixId] /\ CurrencyOf[t] = c
    BY <1>2 DEF TransfersIn
  <2>2. side[t] \in Parties(t)
    BY DEF Parties
  <2>3. <<side[t], c>> \in BalancesOf(asked.matrixId)
    BY <2>1, <2>2 DEF BalancesOf
  <2>4. PICK row \in balances : <<row[1], row[2]>> = <<side[t], c>>
    BY <2>3
  <2>5. row \in Participants \X Currencies \X Currencies
        /\ row[1] = side[t] /\ row[2] = c /\ row[3] = c
    BY <1>1, <2>4
  <2>6. row = <<side[t], c, c>>
    BY <2>5
  <2> QED
    BY <2>1, <2>5, <2>6 DEF RowsIn
<1>5. ASSUME NEW row \in K
      PROVE  /\ \A t : t \in group[row] <=> t \in S /\ key[t] = row
             /\ figure[row] = SumFunctionOnSet(AmountOf, group[row])
  <2>1. /\ row \in balances /\ row[2] = c /\ row[3] = c
        /\ row \in Participants \X Currencies \X Currencies
    BY <1>1 DEF RowsIn
  <2>2. row = <<row[1], c, c>>
    BY <2>1
  <2>3. ASSUME NEW t \in S
        PROVE  key[t] = row <=> side[t] = row[1]
    <3>1. key[t] = <<side[t], c, c>>
      BY <1>2
    <3> HIDE DEF key
    <3> QED
      BY <2>2, <3>1
  <2>4. \A t : t \in group[row] <=> t \in S /\ side[t] = row[1]
    BY <2>1 DEF TransfersIn
  <2>5. figure[row] = SumFunctionOnSet(AmountOf, group[row])
    BY <2>1 DEF BalancesOfSide
  <2> QED
    BY <2>3, <2>4, <2>5
<1> HIDE DEF K, S, key, group, figure
<1>6. SumFunctionOnSet(figure, K) = SumFunctionOnSet(AmountOf, S)
  BY <1>2, <1>3, <1>4, <1>5, SumByKey
<1> QED
  BY <1>6 DEF K, S, figure

(* If every balance has its row then no money comes from or goes to outside. *)
LEMMA NothingIsLeft ==
  ASSUME ReportsIInv, query # "none",
         \A x \in BalancesOf(asked.matrixId) : \E row \in balances : x = <<row[1], row[2]>>,
         NEW c
  PROVE  SumFunctionOnSet(InitiationSheet, RowsIn(c)) = 0
<1> DEFINE debit == BalancesOfSide(PayerOf)
           credit == BalancesOfSide(PayeeOf)
           all == SumFunctionOnSet(AmountOf, TransfersIn(c))
<1>1. TransfersOf[asked.matrixId] \in SUBSET Transfers
  BY AskedIsRequest, SettlementAssumption DEF ReportsIInv
<1>2. ASSUME NEW side, NEW row \in balances
      PROVE  BalancesOfSide(side)[row] \in Int
  <2> DEFINE group == {t \in TransfersOf[asked.matrixId] :
                         side[t] = row[1] /\ CurrencyOf[t] = row[2]}
  <2>1. IsFiniteSet(group) /\ \A t \in group : AmountOf[t] \in Int
    BY <1>1, AmountsAreInts
  <2>2. BalancesOfSide(side)[row] = SumFunctionOnSet(AmountOf, group)
    BY DEF BalancesOfSide
  <2> HIDE DEF group
  <2> QED
    BY <2>1, <2>2, SumIsInt
<1>3. ASSUME NEW row \in balances
      PROVE  InitiationSheet[row] = debit[row] - credit[row]
  BY DEF InitiationSheet, SettlementTransfer, DebitBalance, CreditBalance, BalancesOfSide
<1>4. IsFiniteSet(RowsIn(c)) /\ RowsIn(c) \subseteq balances
  BY BalancesAreFinite DEF RowsIn
<1>5. SumFunctionOnSet(debit, RowsIn(c)) = all /\ SumFunctionOnSet(credit, RowsIn(c)) = all
  BY BalancesAddUp
<1>6. all \in Int
  <2>1. IsFiniteSet(TransfersIn(c)) /\ \A t \in TransfersIn(c) : AmountOf[t] \in Int
    BY <1>1, AmountsAreInts DEF TransfersIn
  <2> QED
    BY <2>1, SumIsInt
<1>7. \A row \in RowsIn(c) : /\ debit[row] \in Int /\ credit[row] \in Int
                             /\ InitiationSheet[row] = debit[row] - credit[row]
  BY <1>2, <1>3, <1>4
<1> HIDE DEF debit, credit, all
<1>8. SumFunctionOnSet(InitiationSheet, RowsIn(c))
        = SumFunctionOnSet(debit, RowsIn(c)) - SumFunctionOnSet(credit, RowsIn(c))
  BY <1>4, <1>7, SumOfDifferences
<1> QED
  BY <1>5, <1>6, <1>8

(* The initiation report has its rows, and moves no money in or out (see
   InitiationIsZeroSum). *)
THEOREM InitiationHolds == ReportsSpec => []InitiationIsZeroSum
<1>1. ReportsIInv => InitiationIsZeroSum
  <2> SUFFICES ASSUME ReportsIInv, Answered("initiation")
               PROVE  InitiationIsZeroSum
    BY DEF InitiationIsZeroSum
  <2> DEFINE shown == {<<row[1], row[2]>> : row \in balances}
  <2>1. query = "answered" /\ query # "none" /\ asked.report = "initiation"
        /\ asked.matrixId \in listed
    BY DEF Answered
  <2>2. ASSUME NEW x \in BalancesOf(asked.matrixId) \intersect Accounts,
               x[1] \in asked.participants
        PROVE  x \in shown
    <3>1. x \in Participants \X Currencies
      BY ReportAssumption
    <3>2. x = <<x[1], x[2]>>
      BY <3>1
    <3>3. <<x[1], x[2], x[2]>> \in balances
      BY <2>1, <2>2 DEF ReportsIInv, BalancesInOrder
    <3> DEFINE row == <<x[1], x[2], x[2]>>
    <3>4. <<row[1], row[2]>> = <<x[1], x[2]>>
      OBVIOUS
    <3> QED
      BY <3>2, <3>3, <3>4
  <2>3. ASSUME shown = BalancesOf(asked.matrixId), NEW c \in Currencies
        PROVE  SumFunctionOnSet(InitiationSheet, {row \in balances : row[2] = c}) = 0
    <3>1. \A x \in BalancesOf(asked.matrixId) : \E row \in balances : x = <<row[1], row[2]>>
      BY <2>3
    <3> QED
      BY <2>1, <3>1, NothingIsLeft DEF RowsIn
  <2> QED
    BY <2>2, <2>3 DEF InitiationIsZeroSum
<1> QED
  BY <1>1, ReportsIInvHolds, PTL
=============================================================================
