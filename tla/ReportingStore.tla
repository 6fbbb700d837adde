--------------------------- MODULE ReportingStore ---------------------------
(***************************************************************************)
(* The two services that write the "transfers" collection, together.       *)
(* transfers-reporting-svc and settlements-reporting-svc consume different *)
(* topics at their own pace and share nothing but the database.  Both read *)
(* a document and later $set all of its fields.                            *)
(***************************************************************************)
EXTENDS TransferEvents, TransferReport, Naturals, Sequences, FiniteSets

CONSTANTS BatchSize, MaxCrashes, MaxFailures,
          Batches, KnownBatches, BatchesOf, TransfersOf, BatchOf, PageSize,
          MaxRestarts, MaxLost,
          SettlesLate       \* see MaySettle

ASSUME StoreAssumption ==
  /\ BatchSize \in Nat \ {0} /\ MaxCrashes \in Nat /\ MaxRestarts \in Nat
  /\ KnownBatches \subseteq Batches
  /\ BatchesOf \in [Matrices -> SUBSET Batches]
  /\ TransfersOf \in [Matrices -> SUBSET Transfers]
  /\ BatchOf \in [Transfers -> Batches]
  /\ \A m \in Matrices : \A t \in TransfersOf[m] : BatchOf[t] \in BatchesOf[m]
  /\ \A m, n \in Matrices : m # n => TransfersOf[m] \intersect TransfersOf[n] = {}

VARIABLES log, committed, batchEnd, pos, pc, held, crashes, reached, dropped,
          settled, offset, stage, batchesLeft, transfersLeft, found, batches,
          matrices, restarts, lost, skipped,
          transfers

transfersVars == <<log, committed, batchEnd, pos, pc, held, crashes, reached, dropped>>
settlementVars == <<settled, offset, stage, batchesLeft, transfersLeft, found,
                    batches, matrices, restarts, lost, skipped>>
vars == <<transfersVars, settlementVars, transfers>>

T == INSTANCE TransfersReporting
S == INSTANCE SettlementsReporting

Init == T!Init /\ S!SettlementInit

(***************************************************************************)
(* A matrix is settled after its transfers were fulfilled.  That is all    *)
(* the upstream contexts promise; with SettlesLate it is settled only      *)
(* after the transfers reporting service has committed the offsets of the  *)
(* fulfil events, so that it will not handle them again.                   *)
(***************************************************************************)
MaySettle(m) ==
  \A t \in TransfersOf[m] :
    \E i \in DOMAIN log : /\ log[i] = Event(Fulfiled, t)
                          /\ SettlesLate => i <= committed

TransfersStep == T!Start \/ T!ReceiveBatch \/ T!CommitBatch \/ T!HandleEvent
SettlementsStep == S!Start \/ S!HandleSettled \/ S!CommitOffset

(* An event no handler knows is of no interest here. *)
Publish == \E e \in Events : e.msgName # Unhandled /\ T!Publish(e)

Settle == \E m \in Matrices : MaySettle(m) /\ S!Settle(m)

Next == \/ /\ Publish \/ TransfersStep \/ T!Crash \/ T!DatabaseFails
           /\ UNCHANGED settlementVars
        \/ /\ Settle \/ SettlementsStep \/ S!Crash \/ S!HandlingFails
           /\ UNCHANGED transfersVars

Spec == Init /\ [][Next]_vars

Fairness == /\ WF_vars(TransfersStep /\ UNCHANGED settlementVars)
            /\ WF_vars(SettlementsStep /\ UNCHANGED transfersVars)

FairSpec == Spec /\ Fairness

-----------------------------------------------------------------------------
(* Properties. *)

StateOf(t) == IF transfers[t] = NoDoc THEN "none" ELSE transfers[t].transferState

(* Also when the transfers service overwrites links with what it read before,
   a stored matrix has its batches and a linked transfer has its batch: the
   reports never join a settlement to something that is not there. *)
StoredInOrder == S!StoredInOrder

(* Neither service undoes its own work, whatever is delivered again or fails:
   a final state is lost only to storeTransfer of the settlements service, a
   link only to updateTransfer of the transfers service. *)
OnlyTheOtherUndoes ==
  [][\A t \in Transfers :
       /\ StateOf(t) \in {"COMMITTED", "ABORTED"} /\ StateOf(t)' # StateOf(t)
            => S!StoreTransfer
       /\ \A m \in Matrices : S!Linked(t, m) /\ ~S!Linked(t, m)'
            => T!UpdateFulfiled \/ T!UpdateRejected]_vars

Unlinked(doc) == [doc EXCEPT !.matrixId = NoMatrix]

(* Even a document undone by the other service is one that some prefix of the
   transfer's events stands for, apart from its link: because both services
   write whole documents there is no mixture of two of them (COMMITTED
   without the fulfil data, say). *)
StillSomePrefix ==
  \A t \in Transfers : \E k \in 0 .. reached :
    IF transfers[t] = NoDoc THEN T!Outcome(t, k) = NoDoc
    ELSE Unlinked(transfers[t]) = T!Outcome(t, k)

(* The data of the bounded contexts is "persisted, and kept up to date"
   (README.md): a settled matrix comes to be stored, with each of its
   transfers COMMITTED and linked to it, and stays so. *)
UpToDate(m) == /\ m \in matrices
               /\ \A t \in TransfersOf[m] : StateOf(t) = "COMMITTED" /\ S!Linked(t, m)

KeptUpToDate ==
  \A m \in Matrices : m \in {settled[i] : i \in DOMAIN settled} ~> []UpToDate(m)

(* When no database call fails, every published outcome of a transfer is
   reported in the end, although both services are restarted in the middle of
   their messages and the settlements service writes the same documents. *)
EveryOutcomeIsReported == T!EveryOutcomeIsReported

-----------------------------------------------------------------------------
(* The strengthening of StoredInOrder that every step preserves. *)

TypeOK == /\ log \in Seq(Events)
          /\ committed \in 0 .. Len(log) /\ batchEnd \in 0 .. Len(log)
          /\ pos \in Nat \ {0}
          /\ held \in Docs \union {NoDoc}
          /\ settled \in Seq(Matrices) /\ offset \in Nat
          /\ transfersLeft \in SUBSET Transfers
          /\ found \in {<<>>} \union (Transfers \X Docs)
          /\ transfers \in [Transfers -> Docs \union {NoDoc}]
          /\ matrices \in SUBSET Matrices

(* A document of t says truly what it is linked to. *)
LinkInOrder(t, doc) ==
  \A m \in Matrices : doc.matrixId = m =>
    /\ t \in TransfersOf[m]
    /\ BatchOf[t] \in KnownBatches => BatchOf[t] \in batches

(* So does the document that the transfers service has read and will write
   back, over whatever the settlements service stores meanwhile. *)
HeldInOrder ==
  pc = "update" => /\ pos <= batchEnd /\ held \in Docs
                   /\ LinkInOrder(log[pos].transferId, held)

IInv == TypeOK /\ S!HandlerInOrder /\ HeldInOrder /\ StoredInOrder

-----------------------------------------------------------------------------
(* The strengthening of StillSomePrefix and OnlyTheOtherUndoes. *)

(* doc is, apart from its link, what handlers made of events of t that were
   handled. *)
IsOutcome(t, doc) ==
  \/ Unlinked(doc) = NewTransfer /\ T!Seen(Prepared, t, reached)
  \/ Unlinked(doc) = WithFulfil(NewTransfer) /\ T!Seen(Fulfiled, t, reached)
  \/ Unlinked(doc) = WithReject(NewTransfer) /\ T!Seen(Rejected, t, reached)

(* Every document is, and so are those that the two services have read and
   will write back: what they write back can be old, never wrong. *)
DocumentsInOrder ==
  /\ \A t \in Transfers : transfers[t] # NoDoc => IsOutcome(t, transfers[t])
  /\ pc = "update" => IsOutcome(T!Transfer, held)
  /\ found # <<>> => IsOutcome(found[1], found[2])

OutcomeIInv == /\ IInv
               /\ T!LogInOrder /\ reached \in 0 .. Len(log)
               /\ DocumentsInOrder
=============================================================================
