------------------------- MODULE TransfersReporting -------------------------
(***************************************************************************)
(* The transfers reporting service: a Kafka consumer whose batch callback  *)
(* keeps the "transfers" collection of the reporting database up to date   *)
(* with the events of the transfers bounded context.                       *)
(*                                                                         *)
(* Each database call of a handler is a step of its own: the handlers read *)
(* a document, wait, and write the whole document back.  The consumer      *)
(* (external) delivers the log in order, in batches, and commits the       *)
(* offset of a batch after the callback returned, which it always does.    *)
(* After a crash the consumer delivers again from the committed offset.    *)
(***************************************************************************)
EXTENDS TransferEvents, TransferReport, Naturals, Sequences, FiniteSets

CONSTANTS BatchSize,        \* CONSUMER_BATCH_SIZE
          MaxCrashes,       \* bound: crashes of the service
          MaxFailures       \* bound: messages on which a database call fails

ASSUME BatchSizeAssumption == BatchSize \in Nat \ {0}
ASSUME BoundsAssumption == MaxCrashes \in Nat /\ MaxFailures \in Nat

VARIABLES log,              \* the events published, in the order of the topic
          committed,        \* how many of them have a committed offset
          batchEnd,         \* the last event of the batch being handled
          pos,              \* the next event of the batch
          pc,               \* where the service is
          held,             \* existingTransfer, the document a handler has read
          transfers,        \* the "transfers" collection
          crashes,          \* how often the service crashed
          reached,          \* history: how many events were handled at least once
          dropped           \* history: events some database call failed for

serviceVars == <<committed, batchEnd, pos, pc, held>>
historyVars == <<reached, dropped>>
vars == <<log, serviceVars, transfers, crashes, historyVars>>

PCs == {"down", "idle", "next", "insert", "update"}

TypeOK == /\ log \in Seq(Events)
          /\ committed \in Nat
          /\ batchEnd \in Nat
          /\ pos \in Nat
          /\ pc \in PCs
          /\ held \in Docs \union {NoDoc}
          /\ transfers \in [Transfers -> Docs \union {NoDoc}]
          /\ crashes \in Nat
          /\ reached \in Nat
          /\ dropped \subseteq Nat

Init == /\ log = <<>>
        /\ committed = 0
        /\ batchEnd = 0
        /\ pos = 1
        /\ pc = "down"
        /\ held = NoDoc
        /\ transfers = [t \in Transfers |-> NoDoc]
        /\ crashes = 0
        /\ reached = 0
        /\ dropped = {}

-----------------------------------------------------------------------------
(* updateOne with $set of the whole document and no upsert: a document that
   does not exist is not created. *)
UpdateOne(t, doc) ==
  transfers' = IF transfers[t] = NoDoc THEN transfers
               ELSE [transfers EXCEPT ![t] = doc]

-----------------------------------------------------------------------------
(* The consumer. *)

(* The transfers bounded context publishes an event. *)
Publish(e) == /\ Publishable(e, {log[i] : i \in DOMAIN log})
              /\ log' = Append(log, e)
              /\ UNCHANGED <<serviceVars, transfers, crashes, historyVars>>

(* Service.start: the repository is initialised (createIndex on an existing
   index does nothing) and the handler starts the consumer. *)
Start == /\ pc = "down"
         /\ pc' = "idle"
         /\ UNCHANGED <<log, committed, batchEnd, pos, held, transfers, crashes,
                        historyVars>>

(* Mutant of ReceiveBatch: the offsets are committed when the batch is taken. *)
ReceiveBatchAndCommit == /\ pc = "idle"
                         /\ \E n \in 1 .. BatchSize :
                              /\ committed + n <= Len(log)
                              /\ batchEnd' = committed + n
                              /\ committed' = committed + n
                         /\ pc' = "next"
                         /\ UNCHANGED <<log, pos, held, transfers, crashes,
                                        historyVars>>

(* The consumer calls back with up to BatchSize messages. *)
ReceiveBatch == /\ pc = "idle"
                /\ \E n \in 1 .. BatchSize :
                     /\ committed + n <= Len(log)
                     /\ batchEnd' = committed + n
                /\ pc' = "next"
                /\ UNCHANGED <<log, committed, pos, held, transfers, crashes,
                               historyVars>>

(* Mutant of CommitBatch: the offset committed is one too far. *)
CommitPastBatch == /\ pc = "next"
                   /\ pos > batchEnd
                   /\ committed' = pos
                   /\ pc' = "idle"
                   /\ UNCHANGED <<log, batchEnd, pos, held, transfers, crashes,
                                  historyVars>>

(* The callback resolves, whatever happened to its messages, and the
   consumer commits the offset. *)
CommitBatch == /\ pc = "next"
               /\ pos > batchEnd
               /\ committed' = batchEnd
               /\ pc' = "idle"
               /\ UNCHANGED <<log, batchEnd, pos, held, transfers, crashes,
                              historyVars>>

(* The process dies; what it holds in memory is lost. *)
Crash == /\ pc # "down"
         /\ crashes < MaxCrashes
         /\ crashes' = crashes + 1
         /\ pc' = "down"
         /\ pos' = committed + 1
         /\ batchEnd' = committed
         /\ held' = NoDoc
         /\ UNCHANGED <<log, committed, transfers, historyVars>>

-----------------------------------------------------------------------------
(* The handlers, between two database calls. *)

Handling(step, name) == /\ pc = step
                        /\ pos <= batchEnd
                        /\ log[pos].msgName = name

Transfer == log[pos].transferId

(* The handler of the message at pos is done, the loop goes on. *)
Done == /\ pos' = pos + 1
        /\ pc' = "next"
        /\ held' = NoDoc
        /\ reached' = IF pos > reached THEN pos ELSE reached
        /\ UNCHANGED <<log, committed, batchEnd, crashes>>

(* The handler waits at step with a document read. *)
Await(step, doc) == /\ pc' = step
                    /\ held' = doc
                    /\ UNCHANGED <<log, committed, batchEnd, pos, transfers,
                                   crashes, historyVars>>

(* Mutant of TransferAlreadyExists: the document is replaced. *)
ReplaceTransfer == /\ Handling("next", Prepared)
                   /\ transfers[Transfer] # NoDoc
                   /\ Done
                   /\ transfers' = [transfers EXCEPT ![Transfer] = NewTransfer]
                   /\ UNCHANGED dropped

(* addTransfer finds a document: TransferAlreadyExistsError, logged. *)
TransferAlreadyExists == /\ Handling("next", Prepared)
                         /\ transfers[Transfer] # NoDoc
                         /\ Done
                         /\ UNCHANGED <<transfers, dropped>>

(* addTransfer finds none and goes on to insert. *)
CheckTransferIsNew == /\ Handling("next", Prepared)
                      /\ transfers[Transfer] = NoDoc
                      /\ Await("insert", NoDoc)

(* insertOne; the unique index refuses a second document. *)
InsertTransfer == /\ Handling("insert", Prepared)
                  /\ transfers' = IF transfers[Transfer] = NoDoc
                                  THEN [transfers EXCEPT ![Transfer] = NewTransfer]
                                  ELSE transfers
                  /\ Done
                  /\ UNCHANGED dropped

(* Mutant of MissingTransfer: a missing transfer is created on the fly. *)
UpsertMissingTransfer == /\ Handling("next", Fulfiled)
                         /\ transfers[Transfer] = NoDoc
                         /\ transfers' = [transfers EXCEPT ![Transfer] =
                                            WithFulfil(NewTransfer)]
                         /\ Done
                         /\ UNCHANGED dropped

(* UnableToGetTransferError when the transfer is missing, logged. *)
MissingTransfer == /\ \/ Handling("next", Fulfiled)
                      \/ Handling("next", Rejected)
                   /\ transfers[Transfer] = NoDoc
                   /\ Done
                   /\ UNCHANGED <<transfers, dropped>>

GetTransferById == /\ \/ Handling("next", Fulfiled)
                      \/ Handling("next", Rejected)
                   /\ transfers[Transfer] # NoDoc
                   /\ Await("update", transfers[Transfer])

UpdateFulfiled == /\ Handling("update", Fulfiled)
                  /\ UpdateOne(Transfer, WithFulfil(held))
                  /\ Done
                  /\ UNCHANGED dropped

(* Mutant of UpdateRejected: errorInformation is forgotten. *)
UpdateRejectedStateOnly ==
  /\ Handling("update", Rejected)
  /\ UpdateOne(Transfer, [held EXCEPT !.transferState = "ABORTED"])
  /\ Done
  /\ UNCHANGED dropped

UpdateRejected == /\ Handling("update", Rejected)
                  /\ UpdateOne(Transfer, WithReject(held))
                  /\ Done
                  /\ UNCHANGED dropped

(* Any other message is ignored. *)
IgnoreEvent == /\ Handling("next", Unhandled)
               /\ Done
               /\ UNCHANGED <<transfers, dropped>>

(* A database call throws without having changed the collection; the handler
   logs the error and the message is not handled again. *)
DatabaseFails == /\ \E name \in EventNames \ {Unhandled} :
                      \E step \in {"next", "insert", "update"} : Handling(step, name)
                 /\ Cardinality(dropped) < MaxFailures
                 /\ dropped' = dropped \union {pos}
                 /\ Done
                 /\ UNCHANGED transfers

-----------------------------------------------------------------------------
HandleEvent == \/ TransferAlreadyExists \/ CheckTransferIsNew \/ InsertTransfer
               \/ MissingTransfer \/ GetTransferById
               \/ UpdateFulfiled \/ UpdateRejected
               \/ IgnoreEvent

Next == \/ \E e \in Events : Publish(e)
        \/ Start \/ ReceiveBatch \/ CommitBatch \/ Crash
        \/ HandleEvent
        \/ DatabaseFails

Spec == Init /\ [][Next]_vars

(***************************************************************************)
(* The process is restarted when it dies, the consumer keeps polling, and  *)
(* a database call returns: steps of the service happen if they can.       *)
(* Nothing is assumed of what the transfers bounded context publishes.     *)
(***************************************************************************)
Fairness == WF_vars(Start \/ ReceiveBatch \/ CommitBatch \/ HandleEvent)

FairSpec == Spec /\ Fairness

-----------------------------------------------------------------------------
(* Properties. *)

(* Event name of transfer t is among the first k events of the log. *)
Seen(name, t, k) == \E i \in 1 .. k : log[i] = Event(name, t)

(* The document the first k events of the log stand for. *)
Outcome(t, k) ==
  IF ~Seen(Prepared, t, k) THEN NoDoc
  ELSE IF Seen(Fulfiled, t, k) THEN WithFulfil(NewTransfer)
  ELSE IF Seen(Rejected, t, k) THEN WithReject(NewTransfer)
  ELSE NewTransfer

(* No database call failed for an event of t. *)
NothingDropped(t) == \A i \in dropped : log[i].transferId # t

(* The document of t is the one the events handled so far stand for. *)
IsReplay(t) == NothingDropped(t) => transfers[t] = Outcome(t, reached)

(* The collection is exactly what the events handled so far stand for, for
   every transfer none of whose events met a database error: crashes in the
   middle of a batch and the second delivery of a batch that was half or
   wholly handled (_batchMsgHandler, addTransfer's existence check and the
   rewriting handlers) lose nothing, repeat nothing and undo nothing. *)
ReportIsReplay == \A t \in Transfers : IsReplay(t)

(* Whatever database calls failed and whatever was delivered twice, a
   document is one that some prefix of the events handled stands for: a lost
   update (the catch blocks of the three handlers) leaves an earlier
   document, never a mixture of two outcomes. *)
ReportIsSomePrefix == \A t \in Transfers :
                        \E k \in 0 .. reached : transfers[t] = Outcome(t, k)

(* No step takes a transfer out of a final state, although the handlers
   write the state without looking at the one they replace and a prepared
   event is delivered again after a fulfil. *)
FinalStateIsKept ==
  [][\A t \in Transfers :
       transfers[t] # NoDoc /\ transfers[t].transferState # "RESERVED"
         => transfers'[t] = transfers[t]]_vars

(* The status column of the report. *)
statusShown == [t \in Transfers |-> IF transfers[t] = NoDoc THEN "none"
                                    ELSE transfers[t].transferState]

Reported == INSTANCE ReportedTransfers
              WITH published <- {log[i] : i \in DOMAIN log}, status <- statusShown

(* The service implements what the report promises, with database failures:
   every step of it is a step of ReportedTransfers or changes nothing there. *)
ImplementsReport == Reported!Spec

(* Without database failures every published outcome is reported in the end,
   in spite of crashes in the middle of a batch (the service is restarted and
   the batch delivered again). *)
EveryOutcomeIsReported == Reported!EveryOutcomeIsReported

-----------------------------------------------------------------------------
(* The strengthening of ReportIsReplay that every step preserves. *)

(* The log is one the transfers bounded context publishes. *)
LogInOrder ==
  /\ \A i, j \in 1 .. Len(log) : log[i] = log[j] => i = j
  /\ \A i \in 1 .. Len(log) :
       log[i].msgName # Prepared => Seen(Prepared, log[i].transferId, i - 1)
  /\ \A i, j \in 1 .. Len(log) :
       log[i].msgName = Fulfiled /\ log[j].msgName = Rejected
         => log[i].transferId # log[j].transferId

(* Only a batch is ever uncommitted, and nothing is skipped. *)
PositionsInOrder ==
  /\ committed <= batchEnd /\ batchEnd <= Len(log)
  /\ committed < pos /\ pos <= batchEnd + 1
  /\ pos <= reached + 1 /\ reached <= Len(log)
  /\ dropped \subseteq 1 .. reached
  /\ pc \in {"down", "idle"} => batchEnd = committed

(* What a waiting handler knows of the document is still so. *)
HeldIsCurrent ==
  /\ pc = "insert" => /\ Handling("insert", Prepared)
                      /\ transfers[Transfer] = NoDoc
  /\ pc = "update" => /\ Handling("update", Fulfiled) \/ Handling("update", Rejected)
                      /\ transfers[Transfer] # NoDoc
                      /\ held = transfers[Transfer]

(* Every document was written by the handlers of events that were handled. *)
IsOutcome(t) ==
  \/ transfers[t] = NoDoc
  \/ transfers[t] = NewTransfer /\ Seen(Prepared, t, reached)
  \/ transfers[t] = WithFulfil(NewTransfer) /\ Seen(Fulfiled, t, reached)
  \/ transfers[t] = WithReject(NewTransfer) /\ Seen(Rejected, t, reached)

DocsAreOutcomes == \A t \in Transfers : IsOutcome(t)

(* The inductive invariant behind ReportIsReplay, ReportIsSomePrefix and
   FinalStateIsKept: the consumer skips nothing between the committed offset
   and the message it handles, and no document changes between the read and
   the write of one handler. *)
IInv == /\ TypeOK
        /\ LogInOrder
        /\ PositionsInOrder
        /\ HeldIsCurrent
        /\ DocsAreOutcomes
        /\ ReportIsReplay
=============================================================================
