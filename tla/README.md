# The reporting bounded context, in TLA+

The reporting BC copies what other bounded contexts publish into one MongoDB
database, the reporting data store, and serves reports from it. Four consumers
write, one API reads. This directory models the consumers, their shared
collection, the way they create their collections, the four reports of the API,
and the life of a service's process; TLC checks the models on small instances,
and TLAPS proves their invariants and action properties for every value of the
constants.

Paths below are relative to `packages/` of the repository.

## The system

| Part | State it keeps | Operations | Interacts with |
| --- | --- | --- | --- |
| `transfers-reporting-svc` | Kafka offset; the `transfers` collection | batch callback; handlers of prepared, fulfil and reject events; `addTransfer`, `updateTransfer`, `getTransferById` | transfers BC (events), `transfers` collection, which the settlements service writes too |
| `settlements-reporting-svc` | Kafka offset; `transfers`, `batches`, `matrices` | handler of `SettlementMatrixSettledEvt`; `storeBatch`, `storeTransfer`, `storeMatrix` | settlements BC (events, and HTTP requests for the matrix, its batches and its transfers) |
| `quotes-reporting-svc` | Kafka offset; `quotes` | handlers of request and response; `addQuote`, `updateQuote` | quoting BC (events) |
| `participants-reporting-svc` | Kafka offset; `participant`, `approval` | handler of `ParticipantChangedEvt`; `create`, `store` | participants BC (events, and HTTP requests for the participant) |
| `reporting-api-svc` | none of its own | settlement initiation, DFSP settlement and detail reports, settlement statement, list of matrices, and their spreadsheets | reads all collections |
| `reporting-types-lib` | none | types | used by all |
| service shells (`service.ts`) | process state | `start`, `setupExpress`, `stop`, signal and exception handlers | the process manager |

### What is hard about it

* **Whole-document writes without versions.** The transfers service and the
  settlements service each read a transfer, wait, and write every field back.
  Nothing orders the two.
* **At-least-once delivery, with handlers that swallow errors.** The callbacks
  always resolve. A message whose database call failed is committed like one
  that succeeded; a message handled before a crash is handled again.
* **A call that is not awaited.** The quotes service starts `addQuote` and
  moves on; what it throws later ends the process.
* **Messages that overtake the state they need.** A settlement can be handled
  before the transfers it settles, a response before its quote is inserted.
* **Several writes per message.** A settlement is stored in several
  collections, a collection and its index are created in two calls, and a
  statement is read in two queries.
* **Reports that are not snapshots.** An aggregation visits the transfers one
  after the other and joins each with what the other collections hold at that
  moment, while the consumers store.
* **Signals and timers.** A signal can come at any call of `start()`, a second
  one at any call of `stop()`, while a message is being handled, and any call can
  hang.

### What makes each part correct

* transfers: the collection is what the handled events stand for; a final
  state is final; every outcome is reported;
* settlements: what is stored never refers to what is not; a stored matrix is
  complete; every settled matrix is stored;
* shared store: what is settled stays COMMITTED and linked;
* quotes: an accepted quote stays accepted; nothing committed is missing
  without a known cause; every response is reported;
* participants: the mirror is up to date when nothing is left to handle, never goes
  back, and misses no change - for the fields that `store` writes, which are not
  all;
* collections: a service that is up has its unique indexes; all come up;
* reports: nothing is shown of a settlement that is not stored; what was listed
  is reported completely; the three reports agree on the figures;
* statement: the closing balance counts every movement once;
* process: no message is given up because of a stop, but for requests of the quotes
  service whose add is not awaited; what hangs is ended; a stop is orderly.

## The modules

| Module | Models | Corresponds to |
| --- | --- | --- |
| `TransferEvents` | the events of a transfer, their order | what `_batchMsgHandler` distinguishes; the order is the transfers BC's (external) |
| `TransferReport` | the documents of `transfers` and the three ways to rewrite one | `ITransferReport`, the object literals of the handlers |
| `ReportedTransfers` | abstract: one status per transfer, moved along by what was published | what the report promises a reader |
| `TransfersReporting` | the transfers service | `event_handler.ts`, `mongodb_repo.ts` of the service |
| `SettlementsReporting` | the settlements service | its `event_handler.ts`, `mongodb_repo.ts`, `settlement_adapter.ts` |
| `ReportingStore` | both, on one `transfers` collection | the two services in production |
| `QuotesReporting` | the quotes service | its `event_handler.ts`, `mongodb_repo.ts`, and the exception handler of `service.ts` |
| `ParticipantsReporting` | the participants service | its `event_handler.ts`, `mongodb_repo.ts`, `participant_adapter.ts` |
| `CollectionInit` | `init` of all repositories | the four `mongodb_repo.ts` |
| `SettlementReports` | the settlement initiation, settlement and detail reports, and the list of matrices, beside the settlements service | `aggregate.ts`, `mongodb_repo.ts` and `routes/` of the API |
| `ReportFigures` | the figures of these reports | the `$group` stages, and `generate...ExcelFile` of `aggregate.ts` |
| `ServiceLifecycle` | start, stop and end of a process | the five `service.ts` |
| `SettlementStatement` | the settlement statement | `domain/aggregate.ts`, `mongodb_repo.ts` of the API |
| `FiniteSums` | laws of sums over finite sets | no code: lemmas about `SumFunctionOnSet` of the community modules |
| `..._proofs` | theorems and proofs; `SettlementReports_proofs` also those of `SettlementsReporting` and `ReportFigures`, `Processes_proofs` those of `CollectionInit` and `ServiceLifecycle` | |
| `MC...` | the constants of the small instances | |

`ReportingStore` instantiates `TransfersReporting` and `SettlementsReporting`
with the same variable `transfers`; a step of the system is a step of one of
them that leaves the other's variables alone. `TransfersReporting` instantiates
`ReportedTransfers` for the refinement. `SettlementReports` extends
`SettlementsReporting`: the same variables, with a step of the service or one
of the API.

### How state and actions correspond to the code

**Consumers.** `log` (or `settled`) is the topic; `committed` (or `offset`) the
offset the consumer group has committed. `pc` (or `stage`) is where the
callback is between two awaited calls, and variables like `held`, `found` and
`fetched` are the locals that live across an `await`. Each database or HTTP
call that changes or reads shared state is one action; code between two awaits
is part of the action before it. The consumer library is external: it is
modelled from its use (`setCallbackFn`, `setBatchCallbackFn`) as delivering in
order and committing after the callback has resolved. `Crash` loses the locals and
sets the position back to the committed offset. A failing call is
`DatabaseFails`, `HandlingFails`, `UpdateFails` or `AddFails`, according to
what the code does about it: log and go on, or die.

**Reports.** `query` is where the request is: the aggregation is scanning the
transfers, has its last join to do, or is answered. `toScan` are the transfers
it has still to visit; a visit is one step, in any order, and a row is a pair of
a transfer and a quote, because the join with the quotes makes a row of each.
`asked` is the request, and as history the participants and quotes reported when
it was made, which say what the report had to hold.
The requests are those of callers who hold the privilege of the report. The format
changes no state, so it is a parameter of `Shown`, which says when the answer is the
rows rather than an error.

**Processes.** `returned` counts the awaited calls of `start()` that have
returned; with the script of the service it says which fields are set. `stopAt`
is, for each signal, the field that its `stop()` is destroying. What
`process.exit` was called with is `exit`. The message that the consumer handed over
is `"adding"` while the quotes service has an add going on that it does not await;
it can be committed then, and `adds` counts the adds that go on after their commit.

**Documents.** `TransferReport` keeps the four fields that are changed after
the insert. Fields that are always written together are one field: the document of
a participant is three versions of it, that of the fields `store` writes
(`participants`), that of the fields it leaves out (`unlisted`), and `lastUpdated`.
`updateOne` without upsert leaves a missing document missing (`UpdateOne`,
`Store`); `storeTransfer` is an upsert.

**History variables** (`reached`, `dropped`, `lost`, `skipped`, `orphaned`,
`overtaken`, `failed`, `written`, `interrupted`, `seen`) record what
happened, so that properties can say what a loss is due to. No guard of an
action reads them, except that the bounds on failures count `dropped` and `lost`.

**Mutants.** Operators whose comment begins with "Mutant of" are faulty
variants. Nothing uses them; each takes the place of one action to see that a
property notices.

## What the runs show

All runs say `CHECK_DEADLOCK FALSE`: the upstream contexts publish finitely
many events in an instance, and when all are handled the services wait for
messages that do not come, which is no fault; and a process ends.

| Run | Instance | Shows |
| --- | --- | --- |
| `transfers_safety` (`MCTransfersSafety.cfg`) | 2 transfers, batches of up to 3, 2 crashes, 1 failure; the transfers are symmetric; 668 thousand states | type correctness and the inductive invariant (`IInv`); the collection is the replay of the handled events (`ReportIsReplay`); with failures it is still that of some prefix (`ReportIsSomePrefix`); final states are kept (`FinalStateIsKept`); the abstract report is implemented (`ImplementsReport`) |
| `settlements` (`MCSettlements.cfg`) | 2 matrices, 2 transfers, 2 batches, one of which the settlements service answers null for, pages of 1, 1 crash, 1 failed message; 3 participants and 3 quotes, one of each reported late; reports of one participant on one matrix; 2 million states | `PageIInv` (with `StoredInOrder` as a part) and `MatrixIsComplete` up to the first page and up to transfers not reported yet; `ShowsStoredOnly`: an answer that is not an empty JSON list says that the settlement is stored; `ListedReportIsComplete`; the figures of the reports (`NetPositionsSettle`, `DetailsAddUp`, `InitiationIsZeroSum`); `ReportsIInv` |
| `store_safety` (`MCStoreSafety.cfg`) | both services, 2 transfers, crashes and failures; 1.3 million states | the two services cannot mix documents (`StillSomePrefix`), never break the references (`StoredInOrder`), and neither undoes its own work (`OnlyTheOtherUndoes`); the inductive invariant of all three (`OutcomeIInv`) |
| `store_late` (`MCStoreLate.cfg`) | both services, no failures, and a matrix is settled only after the fulfil events' offsets were committed | then every settled transfer comes to be COMMITTED and linked and stays so (`KeptUpToDate`); every outcome is reported (`EveryOutcomeIsReported`) |
| `store_up_to_date` | both services, no crash, no failure | **violated**: see the first finding |
| `lifecycle` (`MCLifecycle.cfg`) | each of the five services, both signals, up to 2 un-awaited adds; 6434 states | `StopLosesOnlyAdds`: a stop gives up no message but requests of the quotes service that are committed before their add is done; `UngracefulOnlyWhenListening`; `ComesUpOrEnds` and `SignalEndsProcess`: the two timers do their work |
| `lifecycle_graceful` | as `lifecycle` | **violated**: see the third finding |
| `quotes` (`MCQuotes.cfg`) | 2 quotes, 1 crash, 1 failing call; 351 thousand states | `NothingElseIsLost`: a committed event that the report lacks was lost to the un-awaited add or to a failed update; `AcceptedIsKept`; `CatchesUp`: every event comes to be committed, unless the service stays for ever at a request that is stored already |
| `quotes_reported` | 2 quotes, no crash, no failure | **violated**: see the second finding |
| `participants` (`MCParticipants.cfg`) | 2 participants with 3 versions, one of them approved later, 2 crashes, 2 failures; 491 thousand states | what each field holds when nothing is left to handle (`MirrorsWhenQuiet`); that the fields `store` writes never go back and the others stay (`NeverGoesBack`), and the former come to be up to date (`EveryChangeIsReported`); that a lost creation is never made good (`LostCreateIsForEver`) |
| `collection_init` (`MCCollectionInit.cfg`) | the transfers service and two processes of the settlements service, 3 deaths | an index is missing only when a creator died between two calls (`MissingIndexIsInterrupted`), then for good unless a service always ensures it (`InterruptedStaysUnindexed`); the inductive invariant (`CollectionsIInv`); all come up (`EveryServiceComesUp`) |
| `statement` (`MCStatement.cfg`) | 4 movements of four types in 2 currencies, 3 dates, every period and currency; 346 thousand states | the inductive invariant (`IInv`); `ClosingBalanceIsNet`: right although the two queries read different states; `StartDateCountsTwice`: what happens at the boundary |

### Bounds

Every bound is a constant: `BatchSize`, `MaxCrashes`, `MaxRestarts`,
`MaxFailures`, `MaxLost`, `MaxVersion`, `MaxTime`, `MaxAdds`, and the finite sets. Two
transfers are enough for events of one to lie between those of another in a
batch; batches of three hold a prepared and a fulfil event and one of the other
transfer. Two crashes let a batch be handled a third time. Interference needs
two writers of one document, which one matrix of one or two transfers
has. A page size of one makes the first page shorter than the list. Two
versions of a participant are the least in which a change can lie between the
fetch and the write; the third lets an event lie between the first and the
last. One participant is approved with its second change, so that its approval
date is null, the last change and an earlier one in turn; the other never is.
Three dates let movements lie before, at and after the start of a
period. The amounts 1, 2, 4, 8 make every sum tell which movements it has.

For the reports, `a` pays the one transfer and is paid by the other, so that a
net position has two signs; the page of one leaves either transfer
unlinked; `c` is stored late, so that a join can drop a row, and a second quote
of `t1` comes late, so that it can double one; `a` has accounts in two
currencies, of which the matrix has one; the second matrix has no transfers.
The model checks one report at a time: a request changes nothing that another
one reads.

Two signals let one `stop()` run beside another; a third would find what a
second finds. Two un-awaited adds are the least of which one can be lost and one not.
A process is followed from its start to its end; the next one
starts afresh. One message at a time is what the consumers hand over.

### Fairness

`Fairness` of each module is weak fairness of the service's own steps: a
process that died is started again (an orchestrator restarts the container),
the consumer polls, and calls return. Crashes, failures and what other
contexts publish are never fair. In `QuotesReporting` the consumer and every
un-awaited add are separate activities of one event loop, and fair
separately. No strong fairness is assumed anywhere. A request that is delivered again ends the
process when the find of `addQuote` returns, and its offset is committed only if
the commit is faster; the code does not decide this race, so the service can restart for ever.
`CatchesUp` names that as its one exception: it stays for ever at a request whose quote is
stored (`RedeliversStored`). Crashes are bounded, so they are not what holds it up.
In `ServiceLifecycle` nothing is fair but the two timers of the process, which
the event loop fires; that a call of another component returns is not assumed.

## Findings

1. **A settled transfer can stay unlinked, or RESERVED, for ever without any
   failure.** A settlement that is handled before the transfer's prepared event
   skips the transfer (`settlements-reporting-svc/src/application/event_handler.ts:123`),
   and the two services overwrite each other: `storeTransfer` writes back the
   `transferState` read before the wait (`:122-126`), so that a COMMITTED
   transfer becomes RESERVED again although
   `reporting-types-lib/src/transfers.ts:60` calls COMMITTED the final state,
   and the update of the transfers service (`event_handler.ts:136-150`) writes back
   a document without its link. Run `store_up_to_date`; `OnlyTheOtherUndoes` says
   that nothing else does it, and `store_late` that the order of the messages is
   what it takes.
2. **A response handled while its quote is still being added is lost**, and the
   quote stays PENDING without any failure
   (`quotes-reporting-svc/src/application/event_handler.ts:152`). After a
   backlog this is the normal case: the find of `updateQuote` is sent before
   the insert of `addQuote`. Run `quotes_reported`.
3. **No service that listens stops gracefully**
   (`transfers-reporting-svc/src/application/service.ts:208`, and the same lines
   of the others). `util.promisify(this.expressServer.close)` loses its receiver,
   so `stop()` rejects at its first step, nothing catches it, and the process
   ends as an uncaught exception (code 999) with consumer, repository and logger
   undestroyed; the comment at `:233` says "call graceful stop routine". Run
   `lifecycle_graceful`; `UngracefulOnlyWhenListening` says that a stop before the
   server listens gets through, and `StopLosesOnlyAdds` that neither loses a message
   but requests of the quotes service that are committed before their add is done.

Known behaviour, stated by passing properties: an update of a participant does not
make its document the participant. `store`
(`participants-reporting-svc/src/implementations/mongodb_repo.ts:120-147`) sets a list of
fields: `type` and `participantStatusChangeRequests`
(`reporting-types-lib/src/participants.ts:35`, `:176`) are not in it and stay as `create`
inserted them (`NeverGoesBack`), and `lastUpdated` is set to `approvedDate` (`:132`),
which is another field and can be null (`MirrorsWhenQuiet`). Further:
only the first page of a matrix's transfers is linked (`MatrixIsComplete`); a
lost creation loses all later changes of a participant (`LostCreateIsForEver`);
an interrupted creation leaves a collection without its index
(`InterruptedStaysUnindexed`); a movement approved at the start of a statement's
period counts twice (`StartDateCountsTwice`); a transfer that was quoted twice
counts twice in the columns of the detail report (`DetailsAddUp`); transfers
with a participant that is reported late are missing from the reports without
an error (`NetPositionsSettle`); an empty detail or settlement report is an error
as a spreadsheet and an empty list as JSON (`ShowsStoredOnly`).

## What is proved

The `..._proofs` modules hold the proofs, for any set of transfers, matrices,
quotes, participants, processes and collections, any batch and page size, and any
number of crashes and failures. The assumptions are those of the modules: sizes and
bounds are natural numbers, `NoDoc` is not a document, a matrix's transfers belong to its
batches and to no other matrix. Where figures are added up, the collections are
finite (`FinitenessAssumption`, `MovementAssumption`), as those of a database are.
Every invariant and every action property that a run checks is a theorem.

**Transfers.** `IInv` is inductive (`IInvHolds`); the parts are needed in
this order:

* `LogInOrder` - events are published once, the prepared event first, and never
  both outcomes. From `Publishable`.
* `PositionsInOrder` - only the current batch is uncommitted, and what was
  handled is a prefix of the log that reaches at least to the position. Without it a
  crash could skip events.
* `HeldIsCurrent` - what a waiting handler has read is still in the collection.
  It holds because nothing else writes while the handler waits, and it is the
  fact that `ReportingStore` takes away.
* `IsOutcome` for every transfer - a document is one of the three that handlers
  write, and its event was handled. This is what remains under failures.
* `ReportIsReplay` itself. It is not inductive alone: an update writes what is
  held, and a second delivery is harmless only because the log has no second
  outcome for the transfer.

From `IInv` follow `TypeCorrect`, `ReplayHolds`, `SomePrefixHolds`,
`FinalStateHolds` (an action property: each action is taken with `IInv`), and
`Refinement` (each step maps to `Publish`, `Reserve`, `Commit`, `Abort`
or a stutter of `ReportedTransfers`).

**Settlements.** `IInv` says what the handler has done of its message when it
is at a given stage; `StoredInOrderHolds` follows, with crashes, failures and
second deliveries. `PageIInv` adds `PageInOrder`: of the page it fetched, the
handler has linked or skipped all that is no longer in `transfersLeft`. Since links
are never taken away (nothing else writes between its read and its write here),
that is `MatrixIsComplete` when the matrix is stored (`MatrixIsCompleteHolds`).

**Both writers.** In `ReportingStore` links do get lost, so `MatrixIsComplete`
does not carry over, but `StoredInOrder` does (`StoredInOrderHolds`): a document
of a transfer says truly what it is linked to, in the collection and, by
`HeldInOrder`, in what the transfers service has read and will write back over
whatever was stored meanwhile.

What both services write back may be old, but is never wrong: that is
`DocumentsInOrder`, the part of `OutcomeIInv` that goes beyond the references. Each
document, in the collection or held by either service over a wait, is what the
prepared event or the one outcome of its transfer makes (`IsOutcome`); the log
says that the events it stands for were published (`LogInOrder`). It is inductive
because a service that writes back keeps all but its own fields
(`OutcomeIInvHolds`), and `StillSomePrefixHolds` reads it off. For
`OnlyTheOtherUndoesHolds` each action is taken in turn: an update of the transfers
service that finds a final state can only write the same one again, since the log has
no second outcome, and a write of the settlements service always sets a link.

**Reports.** The theorems are about `ReportsSpec`, the reports beside the
settlements service, and rest on `PageIInvHolds`. `RowsInOrder` says that every row
is of a linked transfer of a stored matrix; `ScanInOrder` names one page of the
listed matrix, the same during the whole scan, of which all that is due is in the
rows or still to be visited. It holds because a matrix is stored last and because
links, participants and quotes are never taken away. From it
follow `ShowsStoredOnlyHolds` and `ListedReportHolds`. `BalancesInOrder` says of
the rows of the initiation report which balances they are, and that those of a
listed matrix are there.

**Figures.** The figures are sums over sets of transfers. `FiniteSums` proves what is
needed of `SumFunctionOnSet`: that it is an integer, and how it splits over disjoint
sets, sums, differences, a constant, and, `SumByKey`, over the groups of a key. The
prover cannot instantiate the induction theorems of the library, so induction is
done with sets of sets: if a law fails for some subset, it does so for a smallest one
(`MinimalSet`, from the well-founded inclusion of finite sets). With these:

* `NetPositionsHold` - the net position of a group of the settlement report is what its
  transfers are worth to the participant (`NetOfGroup`); the groups of a currency
  are a partition of the transfers shown in it (`GroupsAddUp`); with those not shown
  they are all of the matrix (`ShownAndNotShown`), which add up to the debit
  less the credit balance (`NetOfMatrix`). That every row's transfer has the participant as
  payer or payee, from `RowsInOrder`, is what makes "not sent" mean "received".
* `DetailsHold` - the rows of a transfer are as many times its worth (`DetailsOfTransfers`).
* `InitiationHolds` - the rows of a currency have different participants
  (`BalancesAreFinite`), so that the payers' balances of all rows, and the payees', are
  each the amounts of all transfers (`BalancesAddUp`).

**Statement.** `IInv` says that each document the queries read is the participant as it
was at some moment (`IsSnapshot`: what was approved before anything that it has, it has),
that the second is not older than the first, and that the rows are those of the first.
`RunningIsBalance` gives the running balance without its recursion: the opening amount
of the currency and the rows of it so far. The sort by currency is needed for it
(`PassedByRow`). `OpeningAndRows` then says what the two queries have in common: what was
approved at `startDate`. `StartDateHolds` needs no more invariant, since an approval
that comes later is later than all that the statement has; `ClosingBalanceHolds` is the
case in which nothing was approved at `startDate`.

**Processes.** `IInv` holds `ConsumerFirst`: a `stop()` that destroys the
repository has destroyed the consumer, since `start()` sets the consumer first; so
a message whose write failed for want of a repository is not committed
(`StopLosesOnlyAddsHolds`). `AddsOfQuotes` says whose the adds are that are not
awaited. `UngracefulHolds` needs its first conjunct, that no
`stop()` waits at the express server.

**Quotes.** `IInv` relates the log (a response follows its request), the
handler, the adds that nobody awaits (`AddInOrder`: an add that is still
going on belongs to a request that was handled since the start), what the
handler has done of its message when it is about to commit (`HandledIsKept`),
and `NothingElseIsLost` itself: a committed event is reported or one of three
history variables names the cause. `NothingElseIsLostHolds` reads it off;
`AcceptedIsKeptHolds` follows with the guard of the insert.

**Participants.** `IInv` has what the log says of versions (`LogInOrder`), that
all events up to the offset were written or failed (`PositionsInOrder`), that the
version fetched is never older than the document (`FetchedInOrder`), and
`DocumentInOrder`: there is a document if and only if the first event was written, the
fields that `store` writes are up to date once the last one was, and `lastUpdated` is
of the same version as long as only the creation was written, and the approval date
from then on.
Two facts matter: a redelivered creation changes nothing, and a redelivered change writes
something newer. Nothing is claimed of the fields that `store` leaves out but that they stay
(`NeverGoesBack`).
From it follow `MirrorsHolds`, `LostCreateHolds` and `NeverGoesBackHolds`.

**Creation of collections.** `CollectionsIInv` says that no two processes are between
`createCollection` and `createIndex` for the same collection
(`CreatingInOrder`, because the second `createCollection` fails), that every
missing index has an explanation (`Explained`), and that a process has passed
only collections that exist (`PassedExist`). `MissingIndexHolds` and
`InterruptedHolds` follow.

Only model-checked: everything temporal that needs fairness
(`EveryOutcomeIsReported`, `KeptUpToDate`, `CatchesUp`, `EveryChangeIsReported`,
`EveryServiceComesUp`, `ComesUpOrEnds`, `SignalEndsProcess`), which is out of
the prover's reach, and the runs that find violations.

## Abstractions and assumptions

* A batch callback handles its messages in order; the topics of one consumer
  are one log. Per transfer and per quote the events are on one partition,
  which is all the properties use.
* A call either takes effect at one moment or fails without an effect. A
  write whose answer is lost after it took effect is like a crash after it.
* A settled matrix does not change; one event per matrix.
* A batch that the settlements service answers null for is passed over
  (`KnownBatches`); any answer but 200 is an error, which gives up the message
  (`HandlingFails`). An answer of null for the transfers is that of a matrix without any.
* The participants BC sets `lastUpdated` with every change of a participant, and
  `approvedDate` with one of them or never (`ApprovedAt`).
* Each quote is requested and answered once. The participants BC publishes an
  event for each change, and calls the first one as the handler expects
  (`"PARTICIPANT_CREATED"`).
* Amounts are integers; the code adds floating point numbers.
* Instances of one service in the same consumer group are not modelled, except in
  `CollectionInit`, where they start together.
* An aggregation joins the transfers one by one, each at one moment, in an order
  that is open, and `$group` and `$sort` wait for the last of them; this is how
  MongoDB executes such a pipeline outside a transaction. The lookups after `$group`, of
  the participants of each group and of the account of each balance
  (`reporting-api-svc/src/implementations/mongodb_repo.ts:347-368`, `:90-99`), are one step
  (`LookupParticipants`, `LookupBalances`). A participant that is stored between two of them
  can be missing from one group and be there in the next; the properties are about
  each row, and the sums allow for any that is missing.
* In `SettlementReports` a participant has its settlement accounts (`Accounts`) from
  the moment it is stored; accounts that come with a later change are as good as a
  participant that is stored later.
* In `SettlementStatement` the participants service's fetch and write are one step
  (`Store`). A statement depends only on its request and on the two documents read, so a
  document fetched a while before it is written is one that is stored when it is fetched;
  that no write takes the document back is `NeverGoesBack` of `ParticipantsReporting`.
* `SettlementReports` is about settlements that do not overlap the handling of
  their transfers' own events; what happens when they do is `ReportingStore`'s
  subject and the first finding. A payer is not its own payee.
* A consumer that was stopped or destroyed hands over no messages, and one that
  was destroyed commits no offsets.

## Not modelled

* Headers, messages and logging of the API's responses; who may ask for a report
  (`_enforcePrivilege`, token validation): no state. `handleUnauthorizedError` is called
  by nothing.
* Spreadsheet layout and the formatting of numbers and times: no state, no
  property worth stating.
* Rounding: amounts are sums of floating point numbers in the statement and in
  the spreadsheets. TLA+ integers do not round, and a model of binary floating
  point is out of proportion.
* `AccountLookupAdapter`, and `addQuotes`, `updateQuotes`, `removeQuote` of the
  quotes repository: nothing calls them.
* `reporting-types-lib` beyond the states and fields the models tell apart: type
  declarations.
* Metrics, health endpoints, privileges and configuration sets (constants), build
  and CI scripts.

## Plan

Done: `TransfersReporting` with its abstraction, `SettlementsReporting`,
`ReportingStore`, `QuotesReporting`, `ParticipantsReporting`, `CollectionInit`,
`SettlementReports` with `ReportFigures`, `SettlementStatement` and `ServiceLifecycle`,
each with proofs of all its invariants and action properties.

Next:

1. A lemma on `IsOutcome` shared by `TransfersReporting_proofs` and
   `ReportingStore_proofs`, which prove the same of the handlers twice.
2. The safety part of `KeptUpToDate`: when the settlement comes after the
   outcome, no step undoes the link or the final state.
3. Abstract specifications of the participants and quotes reports, and that
   the services implement them.
