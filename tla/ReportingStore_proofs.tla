----------------------- MODULE ReportingStore_proofs -----------------------
(***************************************************************************)
(* Theorems about ReportingStore: the two services together, for any       *)
(* transfers, matrices and batches, any page and batch size, and any       *)
(* number of crashes and failures.                                         *)
(***************************************************************************)
EXTENDS ReportingStore, TLAPS

(* What the handlers write is a document; only storeTransfer makes a link,
   the transfers service keeps the one it has read. *)
LEMMA DocsWritten ==
  /\ NoDoc \notin Docs
  /\ T!NewTransfer \in Docs /\ T!NewTransfer.matrixId = NoMatrix
  /\ \A doc \in Docs :
       /\ T!WithFulfil(doc) \in Docs /\ T!WithFulfil(doc).matrixId = doc.matrixId
       /\ T!WithReject(doc) \in Docs /\ T!WithReject(doc).matrixId = doc.matrixId
       /\ \A m \in Matrices : /\ S!WithSettlement(doc, m) \in Docs
                              /\ S!WithSettlement(doc, m).matrixId = m
BY DocAssumption
   DEF Docs, T!NewTransfer, T!WithFulfil, T!WithReject, S!WithSettlement,
       TransferStates, Flags

(* StoredInOrder, in terms of LinkInOrder. *)
LEMMA StoredMeans ==
  StoredInOrder <=>
    /\ \A m \in matrices : BatchesOf[m] \intersect KnownBatches \subseteq batches
    /\ \A t \in Transfers : transfers[t] # NoDoc => LinkInOrder(t, transfers[t])
BY DEF StoredInOrder, S!StoredInOrder, S!Linked, LinkInOrder

(* A batch that is stored stays stored, so a true link stays true. *)
LEMMA LinksStay ==
  ASSUME batches \subseteq batches', NEW t, NEW doc, LinkInOrder(t, doc)
  PROVE  LinkInOrder(t, doc)'
BY DEF LinkInOrder

(* Nothing is stored in the beginning. *)
LEMMA InitIInv == Init => IInv
<1> SUFFICES ASSUME Init PROVE IInv
  OBVIOUS
<1> USE DEF Init, T!Init, S!SettlementInit
<1>1. TypeOK
  BY DEF TypeOK
<1>2. S!HandlerInOrder /\ HeldInOrder
  BY DEF S!HandlerInOrder, HeldInOrder
<1>3. StoredInOrder
  BY DEF StoredInOrder, S!StoredInOrder, S!Linked
<1> QED
  BY <1>1, <1>2, <1>3 DEF IInv

-----------------------------------------------------------------------------
(* The transfers service. *)

(* What the settlements service keeps is not touched. *)
LEMMA SettlementsQuiet ==
  ASSUME S!HandlerInOrder, UNCHANGED settlementVars
  PROVE  /\ S!HandlerInOrder'
         /\ UNCHANGED <<settled, offset, transfersLeft, found, batches, matrices>>
BY DEF S!HandlerInOrder, S!Matrix, settlementVars

(* Publishing, the consumer, and calls that change no document. *)
LEMMA TransfersConsumerKeeps ==
  ASSUME IInv, UNCHANGED settlementVars,
         Publish \/ T!Start \/ T!ReceiveBatch \/ T!CommitBatch \/ T!Crash
  PROVE  IInv'
<1> USE DEF IInv
<1>1. S!HandlerInOrder' /\ UNCHANGED <<settled, offset, transfersLeft, found,
                                       batches, matrices, transfers>>
  BY SettlementsQuiet DEF Publish, T!Publish, T!Start, T!ReceiveBatch, T!CommitBatch, T!Crash
<1>2. StoredInOrder'
  BY <1>1 DEF StoredInOrder, S!StoredInOrder, S!Linked
<1>3. CASE Publish
  <2>1. PICK e \in Events : /\ log' = Append(log, e)
                            /\ UNCHANGED <<committed, batchEnd, pos, pc, held>>
    BY <1>3 DEF Publish, T!Publish, T!serviceVars, Events, T!Events, EventNames,
                T!EventNames
  <2>2. Len(log') = Len(log) + 1 /\ log' \in Seq(Events)
        /\ \A i \in 1 .. Len(log) : log'[i] = log[i]
    BY <2>1 DEF TypeOK
  <2>3. TypeOK'
    BY <1>1, <2>1, <2>2 DEF TypeOK
  <2>4. ASSUME pc = "update"
        PROVE  log'[pos] = log[pos]
    BY <2>2, <2>4 DEF HeldInOrder, TypeOK
  <2>5. HeldInOrder'
    BY <1>1, <2>1, <2>4 DEF HeldInOrder, LinkInOrder
  <2> QED
    BY <1>1, <1>2, <2>3, <2>5
<1>4. CASE T!Start \/ T!CommitBatch
  <2>1. TypeOK' /\ HeldInOrder'
    BY <1>1, <1>4 DEF T!Start, T!CommitBatch, T!historyVars, TypeOK, HeldInOrder
  <2> QED
    BY <1>1, <1>2, <2>1
<1>5. CASE T!ReceiveBatch
  <2>1. PICK n \in 1 .. BatchSize : committed + n <= Len(log) /\ batchEnd' = committed + n
    BY <1>5 DEF T!ReceiveBatch
  <2>2. n \in Nat
    BY StoreAssumption
  <2>3. TypeOK' /\ HeldInOrder'
    BY <1>1, <1>5, <2>1, <2>2 DEF T!ReceiveBatch, T!historyVars, TypeOK, HeldInOrder
  <2> QED
    BY <1>1, <1>2, <2>3
<1>6. CASE T!Crash
  <2>1. TypeOK' /\ HeldInOrder'
    BY <1>1, <1>6 DEF T!Crash, T!historyVars, TypeOK, HeldInOrder
  <2> QED
    BY <1>1, <1>2, <2>1
<1> QED
  BY <1>3, <1>4, <1>5, <1>6

(* A message is done with; what was written of it, if anything, is a true
   document. *)
LEMMA DoneKeeps ==
  ASSUME IInv, UNCHANGED settlementVars, T!Done,
         \/ UNCHANGED transfers
         \/ \E t, doc : /\ transfers' = [transfers EXCEPT ![t] = doc]
                        /\ doc \in Docs /\ LinkInOrder(t, doc)
  PROVE  IInv'
<1> USE DEF IInv
<1>1. S!HandlerInOrder' /\ UNCHANGED <<settled, offset, transfersLeft, found,
                                       batches, matrices>>
  BY SettlementsQuiet
<1>2. /\ pc' = "next" /\ pos' = pos + 1 /\ held' = NoDoc
      /\ UNCHANGED <<log, committed, batchEnd>>
  BY DEF T!Done
<1>3. \A u \in Transfers :
        \/ transfers'[u] = transfers[u]
        \/ transfers'[u] \in Docs /\ LinkInOrder(u, transfers'[u])
  BY DEF TypeOK
<1>4. transfers' \in [Transfers -> Docs \union {NoDoc}]
  BY DEF TypeOK
<1>5. TypeOK' /\ HeldInOrder'
  BY <1>1, <1>2, <1>4 DEF TypeOK, HeldInOrder
<1>6. ASSUME NEW u \in Transfers, transfers'[u] # NoDoc
      PROVE  LinkInOrder(u, transfers'[u])
  BY <1>3, <1>6, StoredMeans
<1>7. \A m \in matrices : BatchesOf[m] \intersect KnownBatches \subseteq batches
  BY StoredMeans
<1>8. StoredInOrder'
  <2>1. \A u \in Transfers, m \in Matrices :
          transfers'[u] # NoDoc /\ transfers'[u].matrixId = m =>
            u \in TransfersOf[m] /\ (BatchOf[u] \in KnownBatches => BatchOf[u] \in batches)
    BY <1>6 DEF LinkInOrder
  <2> QED
    BY <1>1, <1>7, <2>1 DEF StoredInOrder, S!StoredInOrder, S!Linked
<1> QED
  BY <1>1, <1>5, <1>8

(* The handlers. *)
LEMMA TransfersHandlerKeeps ==
  ASSUME IInv, UNCHANGED settlementVars, T!HandleEvent \/ T!DatabaseFails
  PROVE  IInv'
<1> USE DEF IInv
<1>1. CASE T!TransferAlreadyExists \/ T!MissingTransfer \/ T!IgnoreEvent \/ T!DatabaseFails
  <2>1. T!Done /\ UNCHANGED transfers
    BY <1>1 DEF T!TransferAlreadyExists, T!MissingTransfer, T!IgnoreEvent, T!DatabaseFails
  <2> QED
    BY <2>1, DoneKeeps
<1>2. CASE T!InsertTransfer
  <2>1. T!Done
    BY <1>2 DEF T!InsertTransfer
  <2>2. \/ UNCHANGED transfers
        \/ transfers' = [transfers EXCEPT ![T!Transfer] = T!NewTransfer]
    BY <1>2 DEF T!InsertTransfer
  <2>3. T!NewTransfer \in Docs /\ LinkInOrder(T!Transfer, T!NewTransfer)
    BY DocsWritten, DocAssumption DEF LinkInOrder
  <2> QED
    BY <2>1, <2>2, <2>3, DoneKeeps
<1>3. CASE T!UpdateFulfiled \/ T!UpdateRejected
  <2>1. T!Done /\ pc = "update"
    BY <1>3 DEF T!UpdateFulfiled, T!UpdateRejected, T!Handling
  <2>2. held \in Docs /\ LinkInOrder(T!Transfer, held)
    BY <2>1 DEF HeldInOrder, T!Transfer
  <2>3. PICK doc \in {T!WithFulfil(held), T!WithReject(held)} :
          UNCHANGED transfers \/ transfers' = [transfers EXCEPT ![T!Transfer] = doc]
    BY <1>3 DEF T!UpdateFulfiled, T!UpdateRejected, T!UpdateOne
  <2>4. doc \in Docs /\ doc.matrixId = held.matrixId
    BY <2>2, <2>3, DocsWritten
  <2>5. LinkInOrder(T!Transfer, doc)
    BY <2>2, <2>4 DEF LinkInOrder
  <2> QED
    BY <2>1, <2>3, <2>4, <2>5, DoneKeeps
<1>4. CASE T!CheckTransferIsNew \/ T!GetTransferById
  <2>1. S!HandlerInOrder' /\ UNCHANGED <<settled, offset, transfersLeft, found,
                                         batches, matrices>>
    BY SettlementsQuiet
  <2>2. UNCHANGED <<log, committed, batchEnd, pos, transfers>>
    BY <1>4 DEF T!CheckTransferIsNew, T!GetTransferById, T!Await
  <2>3. StoredInOrder'
    BY <2>1, <2>2 DEF StoredInOrder, S!StoredInOrder, S!Linked
  <2>4. CASE T!CheckTransferIsNew
    <3>1. TypeOK' /\ HeldInOrder'
      BY <2>1, <2>2, <2>4 DEF T!CheckTransferIsNew, T!Await, TypeOK, HeldInOrder
    <3> QED
      BY <2>1, <2>3, <3>1
  <2>5. CASE T!GetTransferById
    <3>1. /\ pos <= batchEnd /\ transfers[T!Transfer] # NoDoc
          /\ held' = transfers[T!Transfer]
      BY <2>5 DEF T!GetTransferById, T!Await, T!Handling
    <3>2. T!Transfer \in Transfers
      <4>1. log[pos] \in Events
        BY <3>1 DEF TypeOK
      <4> QED
        BY <4>1 DEF Events, T!Transfer
    <3>3. held' \in Docs /\ LinkInOrder(T!Transfer, held')
      BY <3>1, <3>2, StoredMeans DEF TypeOK
    <3>4. TypeOK'
      BY <2>1, <2>2, <3>3 DEF TypeOK
    <3>5. HeldInOrder'
      BY <2>1, <2>2, <3>1, <3>3 DEF HeldInOrder, LinkInOrder, T!Transfer
    <3> QED
      BY <2>1, <2>3, <3>4, <3>5
  <2> QED
    BY <1>4, <2>4, <2>5
<1> QED
  BY <1>1, <1>2, <1>3, <1>4 DEF T!HandleEvent

-----------------------------------------------------------------------------
(* The settlements service. *)

(* What the transfers service keeps is not touched, and batches only come. *)
LEMMA TransfersQuiet ==
  ASSUME HeldInOrder, UNCHANGED transfersVars, batches \subseteq batches'
  PROVE  /\ HeldInOrder'
         /\ UNCHANGED <<log, committed, batchEnd, pos, held>>
BY LinksStay DEF HeldInOrder, transfersVars, LinkInOrder

(* The matrix of the message being handled is a matrix. *)
LEMMA MatrixAtOffset ==
  ASSUME TypeOK, offset < Len(settled)
  PROVE  S!Matrix \in Matrices
BY DEF TypeOK, S!Matrix

(* Settling, starting, committing, crashing, giving up: nothing is stored. *)
LEMMA SettlementsConsumerKeeps ==
  ASSUME IInv, UNCHANGED transfersVars,
         Settle \/ S!Start \/ S!CommitOffset \/ S!Crash \/ S!HandlingFails
  PROVE  IInv'
<1> USE DEF IInv
<1>1. UNCHANGED <<transfers, batches, matrices>>
  BY DEF Settle, S!Settle, S!Start, S!CommitOffset, S!Crash, S!HandlingFails
<1>2. StoredInOrder'
  BY <1>1 DEF StoredInOrder, S!StoredInOrder, S!Linked
<1>3. HeldInOrder' /\ UNCHANGED <<log, committed, batchEnd, pos, held>>
  BY <1>1, TransfersQuiet
<1>4. CASE Settle
  <2>1. PICK m \in Matrices : S!Settle(m)
    BY <1>4 DEF Settle
  <2>2. /\ settled' = Append(settled, m)
        /\ UNCHANGED <<offset, stage, batchesLeft, transfersLeft, found>>
    BY <2>1 DEF S!Settle, S!handlerVars
  <2>3. Len(settled') = Len(settled) + 1 /\ settled' \in Seq(Matrices)
        /\ \A i \in 1 .. Len(settled) : settled'[i] = settled[i]
    BY <2>2 DEF TypeOK
  <2>4. TypeOK'
    BY <1>1, <1>3, <2>2, <2>3 DEF TypeOK
  <2>5. offset < Len(settled) => S!Matrix' = S!Matrix
    BY <2>2, <2>3 DEF TypeOK, S!Matrix
  <2>6. S!HandlerInOrder'
    BY <1>1, <2>2, <2>3, <2>5 DEF S!HandlerInOrder, TypeOK
  <2> QED
    BY <1>2, <1>3, <2>4, <2>6
<1>5. CASE S!Start \/ S!CommitOffset \/ S!Crash
  <2>1. TypeOK'
    BY <1>1, <1>3, <1>5 DEF S!Start, S!CommitOffset, S!Crash, TypeOK
  <2>2. S!HandlerInOrder'
    BY <1>5 DEF S!Start, S!CommitOffset, S!Crash, S!HandlerInOrder, TypeOK
  <2> QED
    BY <1>2, <1>3, <2>1, <2>2
<1>6. CASE S!HandlingFails
  <2>1. TypeOK'
    BY <1>1, <1>3, <1>6 DEF S!HandlingFails, TypeOK
  <2>2. S!HandlerInOrder'
    BY <1>6 DEF S!HandlingFails, S!HandlerInOrder, TypeOK
  <2> QED
    BY <1>2, <1>3, <2>1, <2>2
<1> QED
  BY <1>4, <1>5, <1>6

(* The batches come first. *)
LEMMA BatchesKeep ==
  ASSUME IInv, UNCHANGED transfersVars,
         \/ S!GetMatrix
         \/ \E b \in Batches : S!StoreBatch(b)
         \/ S!GetTransfers
  PROVE  IInv'
<1> USE DEF IInv
<1>1. /\ S!Matrix' = S!Matrix /\ batches \subseteq batches'
      /\ UNCHANGED <<settled, offset, found, transfers, matrices>>
  BY DEF S!GetMatrix, S!StoreBatch, S!GetTransfers, S!Matrix
<1>2. offset < Len(settled) /\ S!Matrix \in Matrices
  BY MatrixAtOffset DEF S!GetMatrix, S!StoreBatch, S!GetTransfers, S!HandlerInOrder
<1>3. HeldInOrder' /\ UNCHANGED <<log, committed, batchEnd, pos, held>>
  BY <1>1, TransfersQuiet
<1>4. StoredInOrder'
  BY <1>1 DEF StoredInOrder, S!StoredInOrder, S!Linked
<1>5. transfersLeft' \in SUBSET Transfers
  BY <1>2, StoreAssumption DEF S!GetMatrix, S!StoreBatch, S!GetTransfers, S!FirstPages, TypeOK
<1>6. TypeOK'
  BY <1>1, <1>3, <1>5 DEF TypeOK
<1>7. S!HandlerInOrder'
  <2>1. CASE S!GetMatrix
    BY <1>1, <1>2, <2>1, StoreAssumption DEF S!GetMatrix, S!HandlerInOrder
  <2>2. ASSUME NEW b \in Batches, S!StoreBatch(b)
        PROVE  S!HandlerInOrder'
    BY <1>1, <2>2 DEF S!StoreBatch, S!HandlerInOrder
  <2>3. CASE S!GetTransfers
    <3>1. transfersLeft' \subseteq TransfersOf[S!Matrix]
      BY <2>3 DEF S!GetTransfers, S!FirstPages
    <3> QED
      BY <1>1, <1>2, <2>3, <3>1 DEF S!GetTransfers, S!HandlerInOrder
  <2> QED
    BY <2>1, <2>2, <2>3
<1> QED
  BY <1>3, <1>4, <1>6, <1>7

(* A document is linked only to the matrix being handled, whose batches are
   stored by then. *)
LEMMA LinkingKeeps ==
  ASSUME IInv, UNCHANGED transfersVars,
         \/ \E t \in Transfers : S!SkipTransfer(t) \/ S!GetTransferById(t)
         \/ S!StoreTransfer
  PROVE  IInv'
<1> USE DEF IInv
<1>1. /\ stage = "transfers" /\ S!Matrix' = S!Matrix
      /\ UNCHANGED <<settled, offset, stage, batches, batchesLeft, matrices>>
  BY DEF S!SkipTransfer, S!GetTransferById, S!StoreTransfer, S!Linking, S!Matrix
<1>2. offset < Len(settled) /\ S!Matrix \in Matrices
  BY <1>1, MatrixAtOffset DEF S!HandlerInOrder
<1>3. HeldInOrder' /\ UNCHANGED <<log, committed, batchEnd, pos, held>>
  BY <1>1, TransfersQuiet
<1>4. ASSUME NEW t \in Transfers, S!SkipTransfer(t) \/ S!GetTransferById(t)
      PROVE  IInv'
  <2>1. UNCHANGED transfers
    BY <1>4 DEF S!SkipTransfer, S!GetTransferById
  <2>2. StoredInOrder'
    BY <1>1, <2>1 DEF StoredInOrder, S!StoredInOrder, S!Linked
  <2>3. \/ found' = <<>> /\ transfersLeft' = transfersLeft \ {t}
        \/ /\ found' \in Transfers \X Docs /\ found'[1] = t
           /\ t \in transfersLeft /\ transfersLeft' = transfersLeft
    BY <1>4 DEF S!SkipTransfer, S!GetTransferById, S!Linking, TypeOK
  <2>4. TypeOK'
    BY <1>1, <1>3, <2>1, <2>3 DEF TypeOK
  <2>5. S!HandlerInOrder'
    BY <1>1, <1>2, <2>3 DEF S!HandlerInOrder
  <2> QED
    BY <1>3, <2>2, <2>4, <2>5
<1>5. CASE S!StoreTransfer
  <2>1. PICK t \in Transfers, doc \in Docs : found = <<t, doc>>
    BY <1>5 DEF S!StoreTransfer, TypeOK
  <2>2. /\ transfers' = [transfers EXCEPT ![t] = S!WithSettlement(doc, S!Matrix)]
        /\ transfersLeft' = transfersLeft \ {t} /\ found' = <<>>
    BY <1>5, <2>1 DEF S!StoreTransfer
  <2>3. t \in TransfersOf[S!Matrix]
    BY <1>1, <2>1 DEF S!HandlerInOrder
  <2>4. BatchOf[t] \in KnownBatches => BatchOf[t] \in batches
    BY <1>1, <1>2, <2>3, StoreAssumption DEF S!HandlerInOrder
  <2>5. /\ S!WithSettlement(doc, S!Matrix) \in Docs
        /\ S!WithSettlement(doc, S!Matrix).matrixId = S!Matrix
    BY <1>2, DocsWritten
  <2>6. TypeOK'
    BY <1>1, <1>3, <2>2, <2>5 DEF TypeOK
  <2>7. S!HandlerInOrder'
    BY <1>1, <1>2, <2>2 DEF S!HandlerInOrder
  <2>8. ASSUME NEW u \in Transfers, NEW m \in Matrices,
               transfers'[u] # NoDoc, transfers'[u].matrixId = m
        PROVE  /\ u \in TransfersOf[m]
               /\ BatchOf[u] \in KnownBatches => BatchOf[u] \in batches
    <3>1. CASE u = t
      <4>1. transfers'[u] = S!WithSettlement(doc, S!Matrix)
        BY <2>2, <3>1 DEF TypeOK
      <4>2. m = S!Matrix
        BY <2>5, <2>8, <4>1
      <4> QED
        BY <2>3, <2>4, <3>1, <4>2
    <3>2. CASE u # t
      <4>1. transfers'[u] = transfers[u]
        BY <2>2, <3>2 DEF TypeOK
      <4> QED
        BY <2>8, <4>1, StoredMeans DEF LinkInOrder
    <3> QED
      BY <3>1, <3>2
  <2>9. StoredInOrder'
    <3>1. \A m \in matrices : BatchesOf[m] \intersect KnownBatches \subseteq batches
      BY StoredMeans
    <3> QED
      BY <1>1, <2>8, <3>1 DEF StoredInOrder, S!StoredInOrder, S!Linked
  <2> QED
    BY <1>3, <2>6, <2>7, <2>9
<1> QED
  BY <1>4, <1>5

(* The matrix comes last. *)
LEMMA StoreMatrixKeeps ==
  ASSUME IInv, UNCHANGED transfersVars, S!StoreMatrix
  PROVE  IInv'
<1> USE DEF IInv
<1>1. /\ offset < Len(settled) /\ S!Matrix \in Matrices
      /\ BatchesOf[S!Matrix] \intersect KnownBatches \subseteq batches
  BY MatrixAtOffset DEF S!StoreMatrix, S!HandlerInOrder
<1>2. HeldInOrder' /\ UNCHANGED <<log, committed, batchEnd, pos, held>>
  BY TransfersQuiet DEF S!StoreMatrix
<1>3. StoredInOrder'
  BY <1>1 DEF S!StoreMatrix, StoredInOrder, S!StoredInOrder, S!Linked
<1>4. TypeOK'
  BY <1>1, <1>2 DEF S!StoreMatrix, TypeOK
<1>5. S!HandlerInOrder'
  BY <1>1 DEF S!StoreMatrix, S!HandlerInOrder
<1> QED
  BY <1>2, <1>3, <1>4, <1>5

-----------------------------------------------------------------------------
(* The invariant of the two services. *)
THEOREM IInvHolds == Spec => []IInv
<1>1. IInv /\ [Next]_vars => IInv'
  <2> SUFFICES ASSUME IInv, [Next]_vars PROVE IInv'
    OBVIOUS
  <2>1. CASE /\ Publish \/ TransfersStep \/ T!Crash \/ T!DatabaseFails
             /\ UNCHANGED settlementVars
    BY <2>1, TransfersConsumerKeeps, TransfersHandlerKeeps DEF TransfersStep
  <2>2. CASE /\ Settle \/ SettlementsStep \/ S!Crash \/ S!HandlingFails
             /\ UNCHANGED transfersVars
    BY <2>2, SettlementsConsumerKeeps, BatchesKeep, LinkingKeeps, StoreMatrixKeeps
       DEF SettlementsStep, S!HandleSettled
  <2>3. CASE UNCHANGED vars
    <3>1. /\ UNCHANGED <<log, committed, batchEnd, pos, pc, held>>
          /\ UNCHANGED <<settled, offset, stage, batchesLeft, transfersLeft, found,
                         batches, matrices, transfers>>
      BY <2>3 DEF vars, transfersVars, settlementVars
    <3>2. TypeOK' /\ HeldInOrder'
      BY <3>1 DEF IInv, TypeOK, HeldInOrder, LinkInOrder
    <3>3. S!HandlerInOrder' /\ StoredInOrder'
      BY <3>1 DEF IInv, S!HandlerInOrder, S!Matrix, StoredInOrder, S!StoredInOrder,
                  S!Linked
    <3> QED
      BY <3>2, <3>3 DEF IInv
  <2> QED
    BY <2>1, <2>2, <2>3 DEF Next
<1> QED
  BY <1>1, InitIInv, PTL DEF Spec

(* No stored settlement has a dangling reference, although the transfers
   service writes links back that it read before (see StoredInOrder). *)
THEOREM StoredInOrderHolds == Spec => []StoredInOrder
<1>1. IInv => StoredInOrder
  BY DEF IInv
<1> QED
  BY <1>1, IInvHolds, PTL
-----------------------------------------------------------------------------
(* What the documents are outcomes of. *)

(* The modules of the services speak of the same events and documents. *)
LEMMA SameDocuments ==
  /\ T!Prepared = Prepared /\ T!Fulfiled = Fulfiled /\ T!Rejected = Rejected
  /\ T!NewTransfer = NewTransfer
  /\ \A doc : T!WithFulfil(doc) = WithFulfil(doc) /\ T!WithReject(doc) = WithReject(doc)
  /\ \A doc, m : S!WithSettlement(doc, m) = WithSettlement(doc, m)
  /\ \A name, t : T!Event(name, t) = Event(name, t)
BY DEF T!Prepared, Prepared, T!Fulfiled, Fulfiled, T!Rejected, Rejected,
       T!NewTransfer, NewTransfer, T!WithFulfil, WithFulfil, T!WithReject, WithReject,
       S!WithSettlement, WithSettlement, T!Event, Event

(* Writes and links do not meet: each changes fields that the other leaves. *)
LEMMA WritesUnlinked ==
  /\ Unlinked(NewTransfer) = NewTransfer
  /\ \A doc \in Docs : /\ Unlinked(WithFulfil(doc)) = WithFulfil(Unlinked(doc))
                       /\ Unlinked(WithReject(doc)) = WithReject(Unlinked(doc))
                       /\ \A m \in Matrices : Unlinked(WithSettlement(doc, m)) = Unlinked(doc)
  /\ WithFulfil(WithFulfil(NewTransfer)) = WithFulfil(NewTransfer)
  /\ WithReject(WithReject(NewTransfer)) = WithReject(NewTransfer)
<1>1. Unlinked(NewTransfer) = NewTransfer
  BY DEF Unlinked, NewTransfer
<1>2. ASSUME NEW doc \in Docs
      PROVE  Unlinked(WithFulfil(doc)) = WithFulfil(Unlinked(doc))
  BY DEF Unlinked, WithFulfil, Docs
<1>3. ASSUME NEW doc \in Docs
      PROVE  Unlinked(WithReject(doc)) = WithReject(Unlinked(doc))
  BY DEF Unlinked, WithReject, Docs
<1>4. ASSUME NEW doc \in Docs, NEW m \in Matrices
      PROVE  Unlinked(WithSettlement(doc, m)) = Unlinked(doc)
  BY DEF Unlinked, WithSettlement, Docs
<1>5. WithFulfil(WithFulfil(NewTransfer)) = WithFulfil(NewTransfer)
  BY DEF NewTransfer, WithFulfil
<1>6. WithReject(WithReject(NewTransfer)) = WithReject(NewTransfer)
  BY DEF NewTransfer, WithReject
<1> QED
  BY <1>1, <1>2, <1>3, <1>4, <1>5, <1>6

(* The outcomes differ in their state, and a link does not change the state. *)
LEMMA OutcomeStates ==
  /\ NewTransfer.transferState = "RESERVED"
  /\ WithFulfil(NewTransfer).transferState = "COMMITTED"
  /\ WithReject(NewTransfer).transferState = "ABORTED"
  /\ \A doc \in Docs : Unlinked(doc).transferState = doc.transferState
BY DEF Unlinked, NewTransfer, WithFulfil, WithReject, Docs

(* An event at k is seen from k on. *)
LEMMA EventIsSeen ==
  ASSUME NEW k \in Nat, NEW i \in 1 .. k, NEW name, NEW t, log[i] = Event(name, t)
  PROVE  T!Seen(name, t, k)
BY SameDocuments DEF T!Seen

(* What is seen is in the log. *)
LEMMA SeenIsEvent ==
  ASSUME NEW name, NEW t, NEW k \in 0 .. Len(log), T!Seen(name, t, k)
  PROVE  \E i \in 1 .. k : log[i] = Event(name, t) /\ i \in 1 .. Len(log)
BY SameDocuments DEF T!Seen

(* A transfer has one outcome. *)
LEMMA OneOutcome ==
  ASSUME T!LogInOrder, NEW t, NEW i \in 1 .. Len(log), NEW j \in 1 .. Len(log),
         log[i] = Event(Fulfiled, t), log[j] = Event(Rejected, t)
  PROVE  FALSE
BY SameDocuments DEF T!LogInOrder, Event

(* The prepared event of a transfer comes before all others. *)
LEMMA PreparedIsSeen ==
  ASSUME TypeOK, T!LogInOrder, NEW t, NEW k \in 0 .. Len(log), NEW i \in 1 .. k,
         NEW name, name # Prepared, log[i] = Event(name, t)
  PROVE  T!Seen(Prepared, t, k)
<1>1. i \in 1 .. Len(log) /\ Len(log) \in Nat
  BY DEF TypeOK
<1>2. T!Seen(Prepared, t, i - 1)
  BY <1>1, SameDocuments DEF T!LogInOrder, Event
<1>3. PICK p \in 1 .. i - 1 : log[p] = Event(Prepared, t)
  BY <1>2, SameDocuments DEF T!Seen
<1> QED
  BY <1>1, <1>3, EventIsSeen

(* The outcome is that of the last event seen of the transfer. *)
LEMMA OutcomeSeen ==
  ASSUME TypeOK, T!LogInOrder, NEW t, NEW k \in 0 .. Len(log)
  PROVE  /\ T!Seen(Fulfiled, t, k) => T!Outcome(t, k) = WithFulfil(NewTransfer)
         /\ T!Seen(Rejected, t, k) => T!Outcome(t, k) = WithReject(NewTransfer)
<1> USE SameDocuments
<1>1. Prepared # Fulfiled /\ Prepared # Rejected
  BY DEF Prepared, Fulfiled, Rejected
<1>2. ASSUME T!Seen(Fulfiled, t, k)
      PROVE  T!Outcome(t, k) = WithFulfil(NewTransfer)
  <2>1. T!Seen(Prepared, t, k)
    BY <1>1, <1>2, SeenIsEvent, PreparedIsSeen
  <2> QED
    BY <1>2, <2>1 DEF T!Outcome
<1>3. ASSUME T!Seen(Rejected, t, k)
      PROVE  T!Outcome(t, k) = WithReject(NewTransfer)
  <2>1. T!Seen(Prepared, t, k)
    BY <1>1, <1>3, SeenIsEvent, PreparedIsSeen
  <2>2. ~T!Seen(Fulfiled, t, k)
    BY <1>3, SeenIsEvent, OneOutcome
  <2> QED
    BY <1>3, <2>1, <2>2 DEF T!Outcome
<1> QED
  BY <1>2, <1>3

(* When its prepared event is the last one, a transfer is RESERVED. *)
LEMMA OutcomePrepared ==
  ASSUME TypeOK, T!LogInOrder, NEW t, NEW i \in 1 .. Len(log),
         log[i] = Event(Prepared, t)
  PROVE  T!Outcome(t, i) = NewTransfer
<1> USE SameDocuments
<1>1. Prepared # Fulfiled /\ Prepared # Rejected
  BY DEF Prepared, Fulfiled, Rejected
<1>2. i \in Nat /\ Len(log) \in Nat
  BY DEF TypeOK
<1>3. T!Seen(Prepared, t, i)
  BY <1>2, EventIsSeen
<1>4. ASSUME NEW name \in {Fulfiled, Rejected}, T!Seen(name, t, i)
      PROVE  FALSE
  <2>1. PICK j \in 1 .. i : log[j] = Event(name, t) /\ j \in 1 .. Len(log)
    BY <1>2, <1>4, SeenIsEvent
  <2>2. j \in 1 .. i - 1
    BY <1>1, <1>2, <1>4, <2>1 DEF Event
  <2>3. T!Seen(Prepared, t, j - 1)
    BY <1>1, <1>4, <2>1 DEF T!LogInOrder, Event
  <2>4. PICK p \in 1 .. j - 1 : log[p] = Event(Prepared, t)
    BY <2>3 DEF T!Seen
  <2> QED
    BY <1>2, <2>2, <2>4 DEF T!LogInOrder
<1> QED
  BY <1>3, <1>4 DEF T!Outcome

(* The documents are outcomes, so each is that of some prefix of the log. *)
LEMMA DocumentsMean == OutcomeIInv => StillSomePrefix
<1> SUFFICES ASSUME OutcomeIInv, NEW t \in Transfers
             PROVE  \E k \in 0 .. reached :
                      IF transfers[t] = NoDoc THEN T!Outcome(t, k) = NoDoc
                      ELSE Unlinked(transfers[t]) = T!Outcome(t, k)
  BY DEF StillSomePrefix
<1> USE DEF OutcomeIInv, IInv
<1>1. reached \in Nat /\ Len(log) \in Nat /\ reached \in 0 .. Len(log)
  BY DEF TypeOK
<1>2. CASE transfers[t] = NoDoc
  <2>1. ~T!Seen(T!Prepared, t, 0)
    BY DEF T!Seen
  <2>2. T!Outcome(t, 0) = NoDoc
    BY <2>1 DEF T!Outcome
  <2> QED
    BY <1>1, <1>2, <2>2
<1>3. CASE transfers[t] # NoDoc
  <2>1. IsOutcome(t, transfers[t])
    BY <1>3 DEF DocumentsInOrder
  <2>2. CASE Unlinked(transfers[t]) = NewTransfer /\ T!Seen(Prepared, t, reached)
    <3>1. PICK i \in 1 .. reached : log[i] = Event(Prepared, t) /\ i \in 1 .. Len(log)
      BY <1>1, <2>2, SeenIsEvent
    <3>2. T!Outcome(t, i) = NewTransfer /\ i \in 0 .. reached
      BY <1>1, <3>1, OutcomePrepared
    <3> QED
      BY <1>3, <2>2, <3>2
  <2>3. CASE \/ Unlinked(transfers[t]) = WithFulfil(NewTransfer) /\ T!Seen(Fulfiled, t, reached)
             \/ Unlinked(transfers[t]) = WithReject(NewTransfer) /\ T!Seen(Rejected, t, reached)
    BY <1>1, <1>3, <2>3, OutcomeSeen
  <2> QED
    BY <2>1, <2>2, <2>3 DEF IsOutcome
<1> QED
  BY <1>2, <1>3

-----------------------------------------------------------------------------
(* The documents stay outcomes. *)

(* What was handled stays handled, whatever is published or handled next. *)
LEMMA OutcomesStay ==
  ASSUME TypeOK, reached \in 0 .. Len(log), reached' \in reached .. Len(log'),
         \A i \in 1 .. Len(log) : log'[i] = log[i]
  PROVE  \A t, doc : IsOutcome(t, doc) => IsOutcome(t, doc)'
<1>1. Len(log) \in Nat /\ reached \in Nat
  BY DEF TypeOK
<1>2. \A name, t : T!Seen(name, t, reached) =>
                     \E i \in 1 .. reached' : log'[i] = T!Event(name, t)
  BY <1>1 DEF T!Seen
<1> QED
  BY <1>2 DEF IsOutcome, T!Seen, Unlinked

(* Documents in order, for values instead of expressions. *)
LEMMA InOrderNext ==
  ASSUME \A t, doc : t \in Transfers /\ doc = transfers'[t] /\ doc # NoDoc => IsOutcome(t, doc)',
         \A t, doc : pc' = "update" /\ t = T!Transfer' /\ doc = held' => IsOutcome(t, doc)',
         \A t, doc : found' # <<>> /\ t = found'[1] /\ doc = found'[2] => IsOutcome(t, doc)'
  PROVE  DocumentsInOrder'
BY DEF DocumentsInOrder, IsOutcome, T!Seen, Unlinked

LEMMA InOrderNow ==
  ASSUME DocumentsInOrder
  PROVE  /\ \A t, doc : t \in Transfers /\ doc = transfers[t] /\ doc # NoDoc => IsOutcome(t, doc)
         /\ \A t, doc : pc = "update" /\ t = T!Transfer /\ doc = held => IsOutcome(t, doc)
         /\ \A t, doc : found # <<>> /\ t = found[1] /\ doc = found[2] => IsOutcome(t, doc)
BY DEF DocumentsInOrder

(* Nothing was handled in the beginning. *)
LEMMA InitOutcome == Init => OutcomeIInv
<1> SUFFICES ASSUME Init PROVE OutcomeIInv
  OBVIOUS
<1>1. log = <<>> /\ reached = 0 /\ pc = "down" /\ found = <<>>
      /\ transfers = [t \in Transfers |-> NoDoc]
  BY DEF Init, T!Init, S!SettlementInit
<1>2. T!LogInOrder
  BY <1>1 DEF T!LogInOrder
<1>3. DocumentsInOrder
  BY <1>1 DEF DocumentsInOrder
<1> QED
  BY <1>1, <1>2, <1>3, InitIInv DEF OutcomeIInv

(* The log stays in order when the next event is one that may be published. *)
LEMMA PublishKeepsLog ==
  ASSUME TypeOK, T!LogInOrder, NEW e \in Events, T!Publish(e)
  PROVE  T!LogInOrder' /\ Len(log') = Len(log) + 1
         /\ \A i \in 1 .. Len(log) : log'[i] = log[i]
<1> USE SameDocuments
<1>1. log' = Append(log, e)
  BY DEF T!Publish
<1>2. Len(log) \in Nat /\ Len(log') = Len(log) + 1 /\ log'[Len(log) + 1] = e
      /\ \A i \in 1 .. Len(log) : log'[i] = log[i]
  BY <1>1 DEF TypeOK
<1>3. T!Publishable(e, {log[i] : i \in DOMAIN log}) /\ DOMAIN log = 1 .. Len(log)
  BY DEF T!Publish, TypeOK
<1>4. /\ e \in [msgName : EventNames, transferId : Transfers]
      /\ \A i \in 1 .. Len(log) : log[i] \in [msgName : EventNames, transferId : Transfers]
  <2>1. \A i \in 1 .. Len(log) : log[i] \in Events
    BY DEF TypeOK
  <2> QED
    BY <2>1 DEF Events
<1>5. \A i \in 1 .. Len(log) : log[i] # e
  BY <1>3, <1>4 DEF T!Publishable, Event
<1>6. e.msgName # Prepared => \E i \in 1 .. Len(log) : log[i] = Event(Prepared, e.transferId)
  BY <1>3 DEF T!Publishable
<1>7. e.msgName \in {Fulfiled, Rejected} =>
        \A i \in 1 .. Len(log) : /\ log[i] # Event(Fulfiled, e.transferId)
                                 /\ log[i] # Event(Rejected, e.transferId)
  BY <1>3 DEF T!Publishable
<1>8. \A i, j \in 1 .. Len(log') : log'[i] = log'[j] => i = j
  BY <1>2, <1>5 DEF T!LogInOrder
<1>9. ASSUME NEW i \in 1 .. Len(log'), log'[i].msgName # Prepared
      PROVE  \E j \in 1 .. i - 1 : log'[j] = Event(Prepared, log'[i].transferId)
  <2>1. CASE i = Len(log) + 1
    BY <1>2, <1>6, <1>9, <2>1
  <2>2. CASE i \in 1 .. Len(log)
    <3>1. \E j \in 1 .. i - 1 : log[j] = Event(Prepared, log[i].transferId)
      BY <1>2, <1>9, <2>2 DEF T!LogInOrder, T!Seen
    <3> QED
      BY <1>2, <2>2, <3>1
  <2> QED
    BY <1>2, <2>1, <2>2
<1>10. ASSUME NEW i \in 1 .. Len(log'), NEW j \in 1 .. Len(log'),
              log'[i].msgName = Fulfiled, log'[j].msgName = Rejected
       PROVE  log'[i].transferId # log'[j].transferId
  <2>0. Fulfiled # Rejected
    BY DEF Fulfiled, Rejected
  <2>1. CASE i \in 1 .. Len(log) /\ j \in 1 .. Len(log)
    BY <1>2, <1>10, <2>1 DEF T!LogInOrder
  <2>2. CASE i = Len(log) + 1 /\ j \in 1 .. Len(log)
    BY <1>2, <1>4, <1>7, <1>10, <2>2 DEF Event
  <2>3. CASE i \in 1 .. Len(log) /\ j = Len(log) + 1
    BY <1>2, <1>4, <1>7, <1>10, <2>3 DEF Event
  <2> QED
    BY <1>2, <1>10, <2>0, <2>1, <2>2, <2>3
<1>11. T!LogInOrder'
  BY <1>8, <1>9, <1>10 DEF T!LogInOrder, T!Seen
<1> QED
  BY <1>2, <1>11

(* Steps of the services that publish and write nothing: what the transfers
   service holds or the settlements service found was read just now. *)
LEMMA ReadKeepsOutcome ==
  ASSUME OutcomeIInv, IInv',
         UNCHANGED <<reached, transfers>>,
         \/ UNCHANGED log
         \/ \E e \in Events : T!Publish(e),
         \/ pc' # "update"
         \/ UNCHANGED <<pc, pos, held>>
         \/ UNCHANGED <<log, pos>> /\ T!Transfer \in Transfers /\ held' = transfers[T!Transfer]
              /\ held' # NoDoc,
         \/ found' = <<>>
         \/ UNCHANGED found
         \/ /\ found'[1] \in Transfers /\ found'[2] = transfers[found'[1]]
            /\ found'[2] # NoDoc
  PROVE  OutcomeIInv'
<1> USE DEF OutcomeIInv
<1>0. TypeOK /\ Len(log) \in Nat
  BY DEF IInv, TypeOK
<1>1. /\ T!LogInOrder' /\ Len(log) <= Len(log') /\ Len(log') \in Nat
      /\ \A i \in 1 .. Len(log) : log'[i] = log[i]
  <2>1. CASE UNCHANGED log
    BY <1>0, <2>1 DEF T!LogInOrder, T!Seen
  <2>2. CASE \E e \in Events : T!Publish(e)
    BY <1>0, <2>2, PublishKeepsLog
  <2> QED
    BY <2>1, <2>2
<1>2. reached' \in 0 .. Len(log') /\ reached' \in reached .. Len(log')
  BY <1>0, <1>1
<1>3. \A t, doc : IsOutcome(t, doc) => IsOutcome(t, doc)'
  BY <1>0, <1>1, <1>2, OutcomesStay
<1>4. /\ \A t, doc : t \in Transfers /\ doc = transfers[t] /\ doc # NoDoc => IsOutcome(t, doc)
      /\ \A t, doc : pc = "update" /\ t = T!Transfer /\ doc = held => IsOutcome(t, doc)
      /\ \A t, doc : found # <<>> /\ t = found[1] /\ doc = found[2] => IsOutcome(t, doc)
  BY InOrderNow
<1>5. \A t, doc : t \in Transfers /\ doc = transfers'[t] /\ doc # NoDoc => IsOutcome(t, doc)'
  BY <1>3, <1>4
<1>6. ASSUME NEW t, NEW doc, pc' = "update", t = T!Transfer', doc = held'
      PROVE  IsOutcome(t, doc)'
  <2>1. CASE UNCHANGED <<pc, pos, held>>
    <3>1. pos \in 1 .. Len(log)
      BY <1>0, <1>6, <2>1 DEF IInv, HeldInOrder, TypeOK
    <3>2. t = T!Transfer
      BY <1>1, <1>6, <2>1, <3>1 DEF T!Transfer
    <3> QED
      BY <1>3, <1>4, <1>6, <2>1, <3>2
  <2>2. CASE UNCHANGED <<log, pos>> /\ T!Transfer \in Transfers
               /\ held' = transfers[T!Transfer] /\ held' # NoDoc
    <3>1. t = T!Transfer
      BY <1>6, <2>2 DEF T!Transfer
    <3> QED
      BY <1>3, <1>4, <1>6, <2>2, <3>1
  <2> QED
    BY <1>6, <2>1, <2>2
<1>7. \A t, doc : found' # <<>> /\ t = found'[1] /\ doc = found'[2] => IsOutcome(t, doc)'
  BY <1>3, <1>4
<1>8. DocumentsInOrder'
  BY <1>5, <1>6, <1>7, InOrderNext
<1> QED
  BY <1>1, <1>2, <1>8

(* A message is done with; what was written of it, if anything, is an outcome
   of the events handled, this one included. *)
LEMMA DoneKeepsOutcome ==
  ASSUME OutcomeIInv, IInv', UNCHANGED settlementVars, T!Done, pos <= batchEnd,
         \/ UNCHANGED transfers
         \/ \E t, doc : /\ t \in Transfers
                        /\ transfers' = [transfers EXCEPT ![t] = doc]
                        /\ IsOutcome(t, doc)'
  PROVE  OutcomeIInv'
<1> USE DEF OutcomeIInv
<1>0. TypeOK /\ Len(log) \in Nat /\ reached \in Nat /\ pos \in 1 .. Len(log)
  BY DEF IInv, TypeOK
<1>1. UNCHANGED <<log, found>> /\ pc' = "next"
  BY DEF T!Done, settlementVars
<1>2. T!LogInOrder'
  BY <1>1 DEF T!LogInOrder, T!Seen
<1>3. reached' \in 0 .. Len(log') /\ reached' \in reached .. Len(log')
  BY <1>0, <1>1 DEF T!Done
<1>4. \A t, doc : IsOutcome(t, doc) => IsOutcome(t, doc)'
  BY <1>0, <1>1, <1>3, OutcomesStay
<1>5. /\ \A t, doc : t \in Transfers /\ doc = transfers[t] /\ doc # NoDoc => IsOutcome(t, doc)
      /\ \A t, doc : found # <<>> /\ t = found[1] /\ doc = found[2] => IsOutcome(t, doc)
  BY InOrderNow
<1>6. ASSUME NEW u \in Transfers, NEW doc, doc = transfers'[u], doc # NoDoc
      PROVE  IsOutcome(u, doc)'
  <2>1. \/ transfers'[u] = transfers[u]
        \/ \E d : transfers'[u] = d /\ IsOutcome(u, d)'
    BY <1>0 DEF TypeOK
  <2>2. CASE transfers'[u] = transfers[u]
    BY <1>4, <1>5, <1>6, <2>2
  <2> QED
    BY <1>6, <2>1, <2>2
<1>7. \A t, doc : found' # <<>> /\ t = found'[1] /\ doc = found'[2] => IsOutcome(t, doc)'
  BY <1>1, <1>4, <1>5
<1>8. DocumentsInOrder'
  BY <1>1, <1>6, <1>7, InOrderNext
<1> QED
  BY <1>2, <1>3, <1>8

(* The document that a handler writes for its message. *)
LEMMA WrittenIsOutcome ==
  ASSUME OutcomeIInv, T!Done, pos <= batchEnd, NEW name \in {Prepared, Fulfiled, Rejected},
         log[pos].msgName = name,
         NEW t, t = T!Transfer,
         NEW doc,
         \/ name = Prepared /\ doc = NewTransfer
         \/ pc = "update" /\ name = Fulfiled /\ doc = WithFulfil(held)
         \/ pc = "update" /\ name = Rejected /\ doc = WithReject(held)
  PROVE  t \in Transfers /\ IsOutcome(t, doc)'
<1> USE DEF OutcomeIInv
<1>0. /\ TypeOK /\ Len(log) \in Nat /\ reached \in Nat /\ pos \in 1 .. Len(log)
      /\ reached \in 0 .. Len(log)
  BY DEF IInv, TypeOK
<1>1. UNCHANGED log /\ reached' \in Nat /\ pos \in 1 .. reached'
  BY <1>0 DEF T!Done
<1>2. t \in Transfers /\ log[pos] = Event(name, t)
  <2>1. log[pos] \in Events
    BY <1>0 DEF TypeOK
  <2> QED
    BY <2>1 DEF Events, Event, T!Transfer
<1>3. ASSUME pc = "update"
      PROVE  held \in Docs /\ IsOutcome(t, held)
  BY <1>3 DEF IInv, HeldInOrder, DocumentsInOrder
<1>4. \E i \in 1 .. reached' : log'[i] = Event(name, t)
  BY <1>1, <1>2
<1>5. CASE name = Prepared /\ doc = NewTransfer
  BY <1>1, <1>2, <1>4, <1>5, WritesUnlinked, SameDocuments DEF IsOutcome, T!Seen
<1>6. CASE pc = "update" /\ name = Fulfiled /\ doc = WithFulfil(held)
  <2>1. ~T!Seen(Rejected, t, reached)
    BY <1>0, <1>2, <1>6, SeenIsEvent, OneOutcome
  <2>2. Unlinked(held) \in {NewTransfer, WithFulfil(NewTransfer)}
    BY <1>3, <1>6, <2>1 DEF IsOutcome
  <2>3. Unlinked(doc) = WithFulfil(NewTransfer)
    BY <1>3, <1>6, <2>2, WritesUnlinked
  <2> QED
    BY <1>1, <1>2, <1>4, <1>6, <2>3, SameDocuments DEF IsOutcome, T!Seen
<1>7. CASE pc = "update" /\ name = Rejected /\ doc = WithReject(held)
  <2>1. ~T!Seen(Fulfiled, t, reached)
    BY <1>0, <1>2, <1>7, SeenIsEvent, OneOutcome
  <2>2. Unlinked(held) \in {NewTransfer, WithReject(NewTransfer)}
    BY <1>3, <1>7, <2>1 DEF IsOutcome
  <2>3. Unlinked(doc) = WithReject(NewTransfer)
    BY <1>3, <1>7, <2>2, WritesUnlinked
  <2> QED
    BY <1>1, <1>2, <1>4, <1>7, <2>3, SameDocuments DEF IsOutcome, T!Seen
<1> QED
  BY <1>2, <1>5, <1>6, <1>7

(* The transfers service. *)
LEMMA TransfersKeepOutcome ==
  ASSUME OutcomeIInv, IInv', UNCHANGED settlementVars,
         Publish \/ TransfersStep \/ T!Crash \/ T!DatabaseFails
  PROVE  OutcomeIInv'
<1> USE DEF T!historyVars, T!serviceVars, settlementVars
<1>1. CASE Publish
  <2>1. PICK e \in Events : T!Publish(e)
    BY <1>1 DEF Publish
  <2>2. UNCHANGED <<reached, transfers, pc, pos, held, found>>
    BY <2>1 DEF T!Publish
  <2> QED
    BY <2>1, <2>2, ReadKeepsOutcome
<1>2. CASE T!Start \/ T!ReceiveBatch \/ T!CommitBatch \/ T!Crash \/ T!CheckTransferIsNew
  <2>1. UNCHANGED <<log, reached, transfers, found>> /\ pc' # "update"
    BY <1>2 DEF T!Start, T!ReceiveBatch, T!CommitBatch, T!Crash, T!CheckTransferIsNew, T!Await
  <2> QED
    BY <2>1, ReadKeepsOutcome
<1>3. CASE T!GetTransferById
  <2>1. /\ UNCHANGED <<log, pos, reached, transfers, found>>
        /\ held' = transfers[T!Transfer] /\ transfers[T!Transfer] # NoDoc /\ pos <= batchEnd
    BY <1>3 DEF T!GetTransferById, T!Handling, T!Await
  <2>2. T!Transfer \in Transfers
    <3>1. log[pos] \in Events
      BY <2>1 DEF OutcomeIInv, IInv, TypeOK
    <3> QED
      BY <3>1 DEF Events, T!Transfer
  <2> QED
    BY <2>1, <2>2, ReadKeepsOutcome
<1>4. CASE T!TransferAlreadyExists \/ T!MissingTransfer \/ T!IgnoreEvent \/ T!DatabaseFails
  <2>1. T!Done /\ UNCHANGED transfers /\ pos <= batchEnd
    BY <1>4 DEF T!TransferAlreadyExists, T!MissingTransfer, T!IgnoreEvent, T!DatabaseFails,
                T!Handling
  <2> QED
    BY <2>1, DoneKeepsOutcome
<1>5. CASE T!InsertTransfer \/ T!UpdateFulfiled \/ T!UpdateRejected
  <2>1. PICK t : t = T!Transfer
    OBVIOUS
  <2>2. T!Done /\ pos <= batchEnd
    BY <1>5 DEF T!InsertTransfer, T!UpdateFulfiled, T!UpdateRejected, T!Handling
  <2>3. PICK name \in {Prepared, Fulfiled, Rejected} :
          \E doc :
            /\ log[pos].msgName = name
            /\ \/ name = Prepared /\ doc = NewTransfer
               \/ pc = "update" /\ name = Fulfiled /\ doc = WithFulfil(held)
               \/ pc = "update" /\ name = Rejected /\ doc = WithReject(held)
            /\ UNCHANGED transfers \/ transfers' = [transfers EXCEPT ![t] = doc]
    BY <1>5, <2>1, SameDocuments
       DEF T!InsertTransfer, T!UpdateFulfiled, T!UpdateRejected, T!Handling, T!UpdateOne
  <2>4. PICK doc :
            /\ log[pos].msgName = name
            /\ \/ name = Prepared /\ doc = NewTransfer
               \/ pc = "update" /\ name = Fulfiled /\ doc = WithFulfil(held)
               \/ pc = "update" /\ name = Rejected /\ doc = WithReject(held)
            /\ UNCHANGED transfers \/ transfers' = [transfers EXCEPT ![t] = doc]
    BY <2>3
  <2>5. t \in Transfers /\ IsOutcome(t, doc)'
    BY <2>1, <2>2, <2>4, WrittenIsOutcome
  <2> QED
    BY <2>2, <2>4, <2>5, DoneKeepsOutcome
<1> QED
  BY <1>1, <1>2, <1>3, <1>4, <1>5 DEF TransfersStep, T!HandleEvent

(* The settlements service, which makes links only. *)
LEMMA SettlementsKeepOutcome ==
  ASSUME OutcomeIInv, IInv', UNCHANGED transfersVars,
         Settle \/ SettlementsStep \/ S!Crash \/ S!HandlingFails
  PROVE  OutcomeIInv'
<1>0. UNCHANGED <<log, batchEnd, pos, pc, held, reached>>
  BY DEF transfersVars
<1>1. ASSUME NEW t \in Transfers, S!GetTransferById(t)
      PROVE  OutcomeIInv'
  <2>1. /\ UNCHANGED transfers /\ found'[1] = t /\ found'[2] = transfers[t]
        /\ transfers[t] # NoDoc
    BY <1>1 DEF S!GetTransferById
  <2> QED
    BY <1>0, <2>1, ReadKeepsOutcome
<1>2. CASE S!StoreTransfer
  <2>1. PICK t \in Transfers, doc \in Docs : found = <<t, doc>>
    BY <1>2 DEF S!StoreTransfer, OutcomeIInv, IInv, TypeOK
  <2>2. PICK new : new = WithSettlement(doc, S!Matrix)
    OBVIOUS
  <2>3. transfers' = [transfers EXCEPT ![t] = new] /\ found' = <<>>
    BY <1>2, <2>1, <2>2, SameDocuments DEF S!StoreTransfer
  <2>4. S!Matrix \in Matrices
    BY <1>2, MatrixAtOffset DEF S!StoreTransfer, OutcomeIInv, IInv, S!HandlerInOrder
  <2>5. Unlinked(new) = Unlinked(doc)
    BY <2>2, <2>4, WritesUnlinked
  <2>6. IsOutcome(t, new)
    <3>1. IsOutcome(t, doc)
      BY <2>1, InOrderNow DEF OutcomeIInv
    <3> QED
      BY <2>5, <3>1 DEF IsOutcome
  <2>7. TypeOK /\ reached \in 0 .. Len(log) /\ Len(log) \in Nat /\ T!LogInOrder'
    BY <1>0 DEF OutcomeIInv, IInv, TypeOK, T!LogInOrder, T!Seen
  <2>8. \A u, d : IsOutcome(u, d) => IsOutcome(u, d)'
    BY <1>0, <2>7, OutcomesStay
  <2>9. /\ \A u, d : u \in Transfers /\ d = transfers[u] /\ d # NoDoc => IsOutcome(u, d)
        /\ \A u, d : pc = "update" /\ u = T!Transfer /\ d = held => IsOutcome(u, d)
    BY InOrderNow DEF OutcomeIInv
  <2>10. T!Transfer' = T!Transfer
    BY <1>0 DEF T!Transfer
  <2>11. \A u, d : u \in Transfers /\ d = transfers'[u] /\ d # NoDoc => IsOutcome(u, d)'
    BY <2>3, <2>6, <2>7, <2>8, <2>9 DEF TypeOK
  <2>12. \A u, d : pc' = "update" /\ u = T!Transfer' /\ d = held' => IsOutcome(u, d)'
    BY <1>0, <2>8, <2>9, <2>10
  <2>13. DocumentsInOrder'
    BY <2>3, <2>11, <2>12, InOrderNext
  <2> QED
    BY <1>0, <2>7, <2>13 DEF OutcomeIInv
<1>3. CASE \/ Settle \/ S!Start \/ S!CommitOffset \/ S!Crash \/ S!HandlingFails
           \/ S!GetMatrix \/ S!GetTransfers \/ S!StoreMatrix
           \/ \E b \in Batches : S!StoreBatch(b)
           \/ \E t \in Transfers : S!SkipTransfer(t)
  <2>1. UNCHANGED transfers /\ (found' = <<>> \/ UNCHANGED found)
    BY <1>3 DEF Settle, S!Settle, S!handlerVars, S!Start, S!CommitOffset, S!Crash,
                S!HandlingFails, S!GetMatrix, S!GetTransfers, S!StoreMatrix, S!StoreBatch,
                S!SkipTransfer
  <2> QED
    BY <1>0, <2>1, ReadKeepsOutcome
<1> QED
  BY <1>1, <1>2, <1>3 DEF SettlementsStep, S!HandleSettled

(* What the two services write of each other's writing is old, never wrong:
   every document, and every document read to be written back, is an outcome
   of events of its transfer. *)
THEOREM OutcomeIInvHolds == Spec => []OutcomeIInv
<1>1. OutcomeIInv /\ IInv' /\ [Next]_vars => OutcomeIInv'
  <2> SUFFICES ASSUME OutcomeIInv, IInv', [Next]_vars PROVE OutcomeIInv'
    OBVIOUS
  <2>1. CASE UNCHANGED vars
    <3>1. UNCHANGED <<log, reached, transfers, pc, pos, held, found>>
      BY <2>1 DEF vars, transfersVars, settlementVars
    <3> QED
      BY <3>1, ReadKeepsOutcome
  <2> QED
    BY <2>1, TransfersKeepOutcome, SettlementsKeepOutcome DEF Next
<1> QED
  BY <1>1, InitOutcome, IInvHolds, PTL DEF Spec

(* Both services write whole documents over each other's, but none is ever a
   mixture of two outcomes (see StillSomePrefix). *)
THEOREM StillSomePrefixHolds == Spec => []StillSomePrefix
BY OutcomeIInvHolds, DocumentsMean, PTL

-----------------------------------------------------------------------------
(* What one service undoes is the other's work. *)

(* The state of a document that is an outcome tells which event was seen. *)
LEMMA FinalStateSeen ==
  ASSUME NEW t, NEW doc \in Docs, IsOutcome(t, doc)
  PROVE  /\ doc.transferState = "COMMITTED" => T!Seen(Fulfiled, t, reached)
         /\ doc.transferState = "ABORTED" => T!Seen(Rejected, t, reached)
BY OutcomeStates DEF IsOutcome

(* The transfers service writes the final state that is there already: an
   event is handled again, never its opposite. *)
LEMMA FinalStateIsKept ==
  ASSUME OutcomeIInv, NEW t \in Transfers, StateOf(t) \in {"COMMITTED", "ABORTED"},
         Publish \/ TransfersStep \/ T!Crash \/ T!DatabaseFails
  PROVE  StateOf(t)' = StateOf(t)
<1> USE DEF OutcomeIInv, T!historyVars, T!serviceVars
<1>1. TypeOK /\ Len(log) \in Nat /\ reached \in 0 .. Len(log)
  BY DEF IInv, TypeOK
<1>2. transfers[t] \in Docs /\ transfers[t] # NoDoc
  BY <1>1 DEF TypeOK, StateOf
<1>3. IsOutcome(t, transfers[t]) /\ StateOf(t) = transfers[t].transferState
  BY <1>2 DEF DocumentsInOrder, StateOf
<1>4. /\ StateOf(t) = "COMMITTED" => T!Seen(Fulfiled, t, reached)
      /\ StateOf(t) = "ABORTED" => T!Seen(Rejected, t, reached)
  BY <1>2, <1>3, FinalStateSeen
<1>5. CASE UNCHANGED transfers
  BY <1>5 DEF StateOf
<1>6. CASE T!InsertTransfer
  <2>1. transfers'[t] = transfers[t]
    BY <1>1, <1>2, <1>6 DEF T!InsertTransfer, TypeOK
  <2> QED
    BY <2>1 DEF StateOf
<1>7. CASE T!UpdateFulfiled \/ T!UpdateRejected
  <2>1. pc = "update" /\ pos \in 1 .. Len(log) /\ held \in Docs
    BY <1>1, <1>7 DEF T!UpdateFulfiled, T!UpdateRejected, T!Handling, IInv, HeldInOrder, TypeOK
  <2>2. CASE T!Transfer # t
    <3>1. transfers'[t] = transfers[t]
      BY <1>1, <1>7, <2>2 DEF T!UpdateFulfiled, T!UpdateRejected, T!UpdateOne, TypeOK
    <3> QED
      BY <3>1 DEF StateOf
  <2>3. CASE T!Transfer = t
    <3>1. log[pos] \in Events
      BY <1>1, <2>1 DEF TypeOK
    <3>2. CASE T!UpdateFulfiled
      <4>1. log[pos] = Event(Fulfiled, t)
        BY <2>3, <3>1, <3>2, SameDocuments
           DEF T!UpdateFulfiled, T!Handling, Events, Event, T!Transfer
      <4>2. StateOf(t) = "COMMITTED"
        BY <1>1, <1>4, <2>1, <4>1, SeenIsEvent, OneOutcome
      <4>3. transfers'[t] = WithFulfil(held)
        BY <1>1, <1>2, <2>3, <3>2, SameDocuments DEF T!UpdateFulfiled, T!UpdateOne, TypeOK
      <4>4. transfers'[t] \in Docs /\ transfers'[t].transferState = "COMMITTED"
        BY <2>1, <4>3 DEF WithFulfil, Docs, TransferStates, Flags
      <4> QED
        BY <4>2, <4>4, DocAssumption DEF StateOf
    <3>3. CASE T!UpdateRejected
      <4>1. log[pos] = Event(Rejected, t)
        BY <2>3, <3>1, <3>3, SameDocuments
           DEF T!UpdateRejected, T!Handling, Events, Event, T!Transfer
      <4>2. StateOf(t) = "ABORTED"
        BY <1>1, <1>4, <2>1, <4>1, SeenIsEvent, OneOutcome
      <4>3. transfers'[t] = WithReject(held)
        BY <1>1, <1>2, <2>3, <3>3, SameDocuments DEF T!UpdateRejected, T!UpdateOne, TypeOK
      <4>4. transfers'[t] \in Docs /\ transfers'[t].transferState = "ABORTED"
        BY <2>1, <4>3 DEF WithReject, Docs, TransferStates, Flags
      <4> QED
        BY <4>2, <4>4, DocAssumption DEF StateOf
    <3> QED
      BY <1>7, <3>2, <3>3
  <2> QED
    BY <2>2, <2>3
<1>8. UNCHANGED transfers \/ T!InsertTransfer \/ T!UpdateFulfiled \/ T!UpdateRejected
  BY DEF Publish, T!Publish, TransfersStep, T!Start, T!ReceiveBatch, T!CommitBatch, T!Crash,
         T!DatabaseFails, T!HandleEvent, T!TransferAlreadyExists, T!CheckTransferIsNew,
         T!MissingTransfer, T!GetTransferById, T!IgnoreEvent, T!Await
<1> QED
  BY <1>5, <1>6, <1>7, <1>8

(* A link is not lost to storeTransfer, which links a transfer to the one
   matrix it is of, nor to the insert of a document. *)
LEMMA LinkIsKept ==
  ASSUME IInv, NEW t \in Transfers, NEW m \in Matrices, S!Linked(t, m),
         UNCHANGED transfers \/ T!InsertTransfer \/ S!StoreTransfer
  PROVE  S!Linked(t, m)'
<1> USE DEF IInv
<1>1. transfers[t] # NoDoc /\ transfers[t].matrixId = m /\ TypeOK
  BY DEF S!Linked
<1>2. CASE UNCHANGED transfers
  BY <1>1, <1>2 DEF S!Linked
<1>3. CASE T!InsertTransfer
  <2>1. transfers'[t] = transfers[t]
    BY <1>1, <1>3 DEF T!InsertTransfer, TypeOK
  <2> QED
    BY <1>1, <2>1 DEF S!Linked
<1>4. CASE S!StoreTransfer
  <2>1. PICK u \in Transfers, doc \in Docs : found = <<u, doc>>
    BY <1>4 DEF S!StoreTransfer, TypeOK
  <2>2. transfers' = [transfers EXCEPT ![u] = S!WithSettlement(doc, S!Matrix)]
    BY <1>4, <2>1 DEF S!StoreTransfer
  <2>3. u \in TransfersOf[S!Matrix] /\ S!Matrix \in Matrices
    BY <1>4, <2>1, MatrixAtOffset DEF S!StoreTransfer, S!HandlerInOrder
  <2>4. CASE u # t
    <3>1. transfers'[t] = transfers[t]
      BY <2>2, <2>4 DEF TypeOK
    <3> QED
      BY <1>1, <3>1 DEF S!Linked
  <2>5. CASE u = t
    <3>1. t \in TransfersOf[m]
      BY <1>1, StoredMeans DEF LinkInOrder
    <3>2. m = S!Matrix
      BY <2>3, <2>5, <3>1, StoreAssumption
    <3>3. transfers'[t] = S!WithSettlement(doc, S!Matrix)
      BY <2>2, <2>5 DEF TypeOK
    <3>4. transfers'[t] \in Docs /\ transfers'[t].matrixId = m
      <4>1. /\ S!WithSettlement(doc, S!Matrix) \in Docs
            /\ S!WithSettlement(doc, S!Matrix).matrixId = S!Matrix
        BY <2>3, DocsWritten
      <4> QED
        BY <3>2, <3>3, <4>1
    <3> QED
      BY <3>4, DocAssumption DEF S!Linked
  <2> QED
    BY <2>4, <2>5
<1> QED
  BY <1>2, <1>3, <1>4

(* What is lost of the report is lost to the other service (see
   OnlyTheOtherUndoes). *)
THEOREM OnlyTheOtherUndoesHolds == Spec => OnlyTheOtherUndoes
<1>1. ASSUME OutcomeIInv, [Next]_vars
      PROVE  [\A t \in Transfers :
                /\ StateOf(t) \in {"COMMITTED", "ABORTED"} /\ StateOf(t)' # StateOf(t)
                     => S!StoreTransfer
                /\ \A m \in Matrices : S!Linked(t, m) /\ ~S!Linked(t, m)'
                     => T!UpdateFulfiled \/ T!UpdateRejected]_vars
  <2> SUFFICES ASSUME Next, NEW t \in Transfers
               PROVE  /\ StateOf(t) \in {"COMMITTED", "ABORTED"} /\ StateOf(t)' # StateOf(t)
                           => S!StoreTransfer
                      /\ \A m \in Matrices : S!Linked(t, m) /\ ~S!Linked(t, m)'
                           => T!UpdateFulfiled \/ T!UpdateRejected
    BY <1>1
  <2>1. CASE Publish \/ TransfersStep \/ T!Crash \/ T!DatabaseFails
    <3>1. UNCHANGED transfers \/ T!InsertTransfer \/ T!UpdateFulfiled \/ T!UpdateRejected
      BY <2>1 DEF Publish, T!Publish, TransfersStep, T!Start, T!ReceiveBatch, T!CommitBatch,
         T!Crash, T!DatabaseFails, T!HandleEvent, T!TransferAlreadyExists,
         T!CheckTransferIsNew, T!MissingTransfer, T!GetTransferById, T!IgnoreEvent, T!Await
    <3> QED
      BY <1>1, <2>1, <3>1, FinalStateIsKept, LinkIsKept DEF OutcomeIInv
  <2>2. CASE Settle \/ SettlementsStep \/ S!Crash \/ S!HandlingFails
    <3>1. UNCHANGED transfers \/ S!StoreTransfer
      BY <2>2 DEF Settle, S!Settle, SettlementsStep, S!Start, S!HandleSettled, S!CommitOffset,
         S!Crash, S!HandlingFails, S!GetMatrix, S!StoreBatch, S!GetTransfers, S!SkipTransfer,
         S!GetTransferById, S!StoreMatrix
    <3>2. UNCHANGED transfers => UNCHANGED StateOf(t)
      BY DEF StateOf
    <3> QED
      BY <1>1, <3>1, <3>2, LinkIsKept DEF OutcomeIInv
  <2> QED
    BY <2>1, <2>2 DEF Next
<1> QED
  BY <1>1, OutcomeIInvHolds, PTL DEF Spec, OnlyTheOtherUndoes
=============================================================================
