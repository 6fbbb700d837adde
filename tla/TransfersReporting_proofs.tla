---------------------- MODULE TransfersReporting_proofs ----------------------
(***************************************************************************)
(* Theorems about TransfersReporting, for every set of transfers, every    *)
(* batch size and every number of crashes and database failures.           *)
(***************************************************************************)
EXTENDS TransfersReporting, TLAPS

-----------------------------------------------------------------------------
(* Lemmas about Seen and Outcome. *)

(* What k events show, k + 1 events show. *)
LEMMA SeenGrows ==
  ASSUME NEW name \in EventNames, NEW t \in Transfers, NEW j \in Nat,
         NEW k \in Nat, j <= k, Seen(name, t, j)
  PROVE  Seen(name, t, k)
BY DEF Seen

(* One more event shows itself and nothing else. *)
LEMMA SeenNext ==
  ASSUME NEW name \in EventNames, NEW t \in Transfers, NEW k \in Nat
  PROVE  Seen(name, t, k + 1) <=> Seen(name, t, k) \/ log[k + 1] = Event(name, t)
<1>1. 1 .. (k + 1) = (1 .. k) \union {k + 1}
  OBVIOUS
<1> QED
  BY <1>1 DEF Seen

(* Events of another transfer change nothing. *)
LEMMA SeenOther ==
  ASSUME NEW name \in EventNames, NEW t \in Transfers, NEW k \in Nat,
         log[k + 1].transferId # t
  PROVE  Seen(name, t, k + 1) <=> Seen(name, t, k)
<1>1. log[k + 1] # Event(name, t)
  BY DEF Event
<1> QED
  BY <1>1, SeenNext

(* A fulfil and a reject are never published for the same transfer. *)
LEMMA OneOutcome ==
  ASSUME TypeOK, LogInOrder, NEW t \in Transfers,
         NEW j \in 0 .. Len(log), NEW k \in 0 .. Len(log),
         Seen(Fulfiled, t, j), Seen(Rejected, t, k)
  PROVE  FALSE
<1>1. PICK i \in 1 .. j : log[i] = Event(Fulfiled, t)
  BY DEF Seen
<1>2. PICK r \in 1 .. k : log[r] = Event(Rejected, t)
  BY DEF Seen
<1>3. i \in 1 .. Len(log) /\ r \in 1 .. Len(log)
  OBVIOUS
<1> QED
  BY <1>1, <1>2, <1>3 DEF LogInOrder, Event

(* Before a transfer's prepared event there is no other event of it. *)
LEMMA PreparedComesFirst ==
  ASSUME TypeOK, LogInOrder, NEW t \in Transfers, NEW name \in EventNames \ {Prepared},
         NEW k \in 0 .. Len(log), Seen(name, t, k)
  PROVE  Seen(Prepared, t, k)
<1>1. PICK i \in 1 .. k : log[i] = Event(name, t)
  BY DEF Seen
<1>2. i \in 1 .. Len(log)
  OBVIOUS
<1>3. log[i].msgName # Prepared /\ log[i].transferId = t
  BY <1>1 DEF Event
<1>4. Seen(Prepared, t, i - 1)
  BY <1>2, <1>3 DEF LogInOrder
<1>5. Prepared \in EventNames
  BY DEF EventNames
<1> QED
  BY <1>4, <1>5, SeenGrows

(* An event of another transfer leaves the outcome of t. *)
LEMMA OutcomeOther ==
  ASSUME NEW t \in Transfers, NEW k \in Nat, log[k + 1].transferId # t
  PROVE  Outcome(t, k + 1) = Outcome(t, k)
<1>1. {Prepared, Fulfiled, Rejected} \subseteq EventNames
  BY DEF EventNames
<1> QED
  BY <1>1, SeenOther DEF Outcome

(* An event no handler knows leaves every outcome. *)
LEMMA OutcomeUnhandled ==
  ASSUME NEW t \in Transfers, NEW k \in Nat, log[k + 1].msgName = Unhandled
  PROVE  Outcome(t, k + 1) = Outcome(t, k)
<1>1. {Prepared, Fulfiled, Rejected} \subseteq EventNames
  BY DEF EventNames
<1>2. \A name \in {Prepared, Fulfiled, Rejected} : log[k + 1] # Event(name, t)
  <2>1. \A name \in {Prepared, Fulfiled, Rejected} : name # Unhandled
    BY DEF Prepared, Fulfiled, Rejected, Unhandled
  <2> QED
    BY <2>1 DEF Event
<1> QED
  BY <1>1, <1>2, SeenNext DEF Outcome

(* A prepared event is the first of its transfer. *)
LEMMA OutcomeOfPrepared ==
  ASSUME TypeOK, LogInOrder, NEW t \in Transfers, NEW k \in 0 .. Len(log) - 1,
         log[k + 1] = Event(Prepared, t)
  PROVE  Outcome(t, k) = NoDoc /\ Outcome(t, k + 1) = NewTransfer
<1>1. {Prepared, Fulfiled, Rejected} \subseteq EventNames
  BY DEF EventNames
<1>2. Prepared # Fulfiled /\ Prepared # Rejected
  BY DEF Prepared, Fulfiled, Rejected
<1>3. ~Seen(Prepared, t, k)
  <2>1. \A i \in 1 .. k : log[i] # log[k + 1]
    BY DEF LogInOrder, TypeOK
  <2> QED
    BY <2>1 DEF Seen
<1>4. ~Seen(Fulfiled, t, k) /\ ~Seen(Rejected, t, k)
  BY <1>1, <1>2, <1>3, PreparedComesFirst
<1>5. log[k + 1] # Event(Fulfiled, t) /\ log[k + 1] # Event(Rejected, t)
  BY <1>2 DEF Event
<1>6. /\ Seen(Prepared, t, k + 1)
      /\ ~Seen(Fulfiled, t, k + 1)
      /\ ~Seen(Rejected, t, k + 1)
  BY <1>1, <1>4, <1>5, SeenNext
<1> QED
  BY <1>3, <1>6 DEF Outcome

(* Once a fulfil event was handled, the outcome is COMMITTED for good. *)
LEMMA OutcomeOfFulfiled ==
  ASSUME TypeOK, LogInOrder, NEW t \in Transfers, NEW k \in 0 .. Len(log),
         Seen(Fulfiled, t, k)
  PROVE  Outcome(t, k) = WithFulfil(NewTransfer)
<1>1. Fulfiled \in EventNames \ {Prepared}
  BY DEF EventNames, Prepared, Fulfiled
<1>2. Seen(Prepared, t, k)
  BY <1>1, PreparedComesFirst
<1> QED
  BY <1>2 DEF Outcome

(* Once a reject event was handled, the outcome is ABORTED for good. *)
LEMMA OutcomeOfRejected ==
  ASSUME TypeOK, LogInOrder, NEW t \in Transfers, NEW k \in 0 .. Len(log),
         Seen(Rejected, t, k)
  PROVE  Outcome(t, k) = WithReject(NewTransfer)
<1>1. Rejected \in EventNames \ {Prepared}
  BY DEF EventNames, Prepared, Rejected
<1>2. Seen(Prepared, t, k)
  BY <1>1, PreparedComesFirst
<1>3. ~Seen(Fulfiled, t, k)
  BY OneOutcome
<1> QED
  BY <1>2, <1>3 DEF Outcome

(* Just before its fulfil or reject event a transfer is RESERVED. *)
LEMMA OutcomeBeforeLast ==
  ASSUME TypeOK, LogInOrder, NEW t \in Transfers, NEW k \in 0 .. Len(log) - 1,
         log[k + 1] = Event(Fulfiled, t) \/ log[k + 1] = Event(Rejected, t)
  PROVE  Outcome(t, k) = NewTransfer
<1>1. {Prepared, Fulfiled, Rejected} \subseteq EventNames
  BY DEF EventNames
<1>2. /\ k \in Nat /\ (k + 1) - 1 = k
      /\ k + 1 \in 1 .. Len(log) /\ k + 1 \in 0 .. Len(log)
  BY DEF TypeOK
<1>3. log[k + 1].msgName # Prepared /\ log[k + 1].transferId = t
  BY DEF Event, Prepared, Fulfiled, Rejected
<1>4. Seen(Prepared, t, k)
  BY <1>2, <1>3 DEF LogInOrder
<1>5. \A i \in 1 .. k : log[i] # log[k + 1]
  BY DEF LogInOrder, TypeOK
<1>6. ~Seen(Fulfiled, t, k)
  <2>1. CASE log[k + 1] = Event(Fulfiled, t)
    BY <2>1, <1>5 DEF Seen
  <2>2. CASE log[k + 1] = Event(Rejected, t)
    <3>1. Seen(Rejected, t, k + 1)
      BY <2>2, <1>1, <1>2, SeenNext
    <3> QED
      BY <3>1, <1>2, OneOutcome
  <2> QED
    BY <2>1, <2>2
<1>7. ~Seen(Rejected, t, k)
  <2>1. CASE log[k + 1] = Event(Rejected, t)
    BY <2>1, <1>5 DEF Seen
  <2>2. CASE log[k + 1] = Event(Fulfiled, t)
    <3>1. Seen(Fulfiled, t, k + 1)
      BY <2>2, <1>1, <1>2, SeenNext
    <3> QED
      BY <3>1, <1>2, OneOutcome
  <2> QED
    BY <2>1, <2>2
<1> QED
  BY <1>4, <1>6, <1>7 DEF Outcome

-----------------------------------------------------------------------------
(* Lemmas about the documents and about a handler that is done. *)

(* The handlers write well-formed documents, and writing twice is writing once. *)
LEMMA DocsWritten ==
  /\ NoDoc \notin Docs
  /\ NewTransfer \in Docs
  /\ \A doc \in Docs : /\ WithFulfil(doc) \in Docs
                        /\ WithReject(doc) \in Docs
                        /\ WithFulfil(WithFulfil(doc)) = WithFulfil(doc)
                        /\ WithReject(WithReject(doc)) = WithReject(doc)
BY DocAssumption DEF Docs, NewTransfer, WithFulfil, WithReject, TransferStates, Flags

(* The three documents that occur differ in their state. *)
LEMMA OutcomesDiffer ==
  /\ NewTransfer.transferState = "RESERVED"
  /\ WithFulfil(NewTransfer).transferState = "COMMITTED"
  /\ WithReject(NewTransfer).transferState = "ABORTED"
BY DEF NewTransfer, WithFulfil, WithReject

(* "reached" stays, or this was the first time the message was handled. *)
LEMMA DoneReached ==
  ASSUME TypeOK, PositionsInOrder, pos <= batchEnd, Done
  PROVE  /\ log' = log
         /\ pos \in 1 .. Len(log) /\ pos - 1 \in 0 .. Len(log) - 1
         /\ reached \in 0 .. Len(log) /\ reached' \in 0 .. Len(log)
         /\ reached <= reached' /\ pos <= reached'
         /\ \/ pos <= reached /\ reached' = reached
            \/ reached = pos - 1 /\ reached' = reached + 1
BY DEF TypeOK, PositionsInOrder, Done

(* What the events handled show, in terms of the new value of reached. *)
LEMMA PrimedSeen ==
  ASSUME log' = log, NEW name \in EventNames, NEW t \in Transfers
  PROVE  Seen(name, t, reached)' <=> Seen(name, t, reached')
BY DEF Seen

(* The outcome after a step that leaves the log, in the same terms. *)
LEMMA PrimedOutcome ==
  ASSUME log' = log, NEW t \in Transfers
  PROVE  Outcome(t, reached)' = Outcome(t, reached')
<1>1. {Prepared, Fulfiled, Rejected} \subseteq EventNames
  BY DEF EventNames
<1> QED
  BY <1>1, PrimedSeen DEF Outcome

(* Events of other transfers leave the outcome of t as it was. *)
LEMMA DoneOther ==
  ASSUME TypeOK, PositionsInOrder, pos <= batchEnd, Done,
         NEW t \in Transfers, Transfer # t
  PROVE  Outcome(t, reached)' = Outcome(t, reached)
<1>1. Outcome(t, reached)' = Outcome(t, reached')
  BY DoneReached, PrimedOutcome
<1>2. CASE reached' = reached
  BY <1>1, <1>2
<1>3. CASE reached = pos - 1 /\ reached' = reached + 1
  <2>1. log[reached + 1].transferId # t /\ reached \in Nat
    BY <1>3, DoneReached DEF Transfer, TypeOK
  <2> QED
    BY <1>1, <1>3, <2>1, OutcomeOther
<1> QED
  BY <1>2, <1>3, DoneReached

(* So do the events no handler knows. *)
LEMMA DoneUnhandled ==
  ASSUME TypeOK, PositionsInOrder, pos <= batchEnd, Done,
         NEW t \in Transfers, log[pos].msgName = Unhandled
  PROVE  Outcome(t, reached)' = Outcome(t, reached)
<1>1. Outcome(t, reached)' = Outcome(t, reached')
  BY DoneReached, PrimedOutcome
<1>2. CASE reached' = reached
  BY <1>1, <1>2
<1>3. CASE reached = pos - 1 /\ reached' = reached + 1
  <2>1. log[reached + 1].msgName = Unhandled /\ reached \in Nat
    BY <1>3, DoneReached DEF TypeOK
  <2> QED
    BY <1>1, <1>3, <2>1, OutcomeUnhandled
<1> QED
  BY <1>2, <1>3, DoneReached

(* The event at pos is one of the transfer at pos, which is a transfer. *)
LEMMA AtPos ==
  ASSUME TypeOK, pos \in 1 .. Len(log), NEW name \in EventNames,
         log[pos].msgName = name
  PROVE  Transfer \in Transfers /\ log[pos] = Event(name, Transfer)
<1>1. log[pos] \in Events
  BY DEF TypeOK
<1> QED
  BY <1>1 DEF Events, Event, Transfer

(* A prepared event changes the outcome the first time it is handled. *)
LEMMA DonePrepared ==
  ASSUME TypeOK, LogInOrder, PositionsInOrder, pos <= batchEnd, Done,
         NEW t \in Transfers, log[pos] = Event(Prepared, t)
  PROVE  /\ Seen(Prepared, t, reached)'
         /\ \/ Outcome(t, reached) = NoDoc /\ Outcome(t, reached)' = NewTransfer
            \/ /\ Outcome(t, reached) # NoDoc
               /\ Outcome(t, reached)' = Outcome(t, reached)
<1>1. Prepared \in EventNames
  BY DEF EventNames
<1>2. Outcome(t, reached)' = Outcome(t, reached')
  BY DoneReached, PrimedOutcome
<1>3. CASE pos <= reached /\ reached' = reached
  <2>1. Seen(Prepared, t, reached)
    BY <1>3, DoneReached DEF Seen
  <2>2. Outcome(t, reached) # NoDoc
    BY <2>1, DocsWritten DEF Outcome
  <2> QED
    BY <1>1, <1>2, <1>3, <2>1, <2>2, DoneReached, PrimedSeen
<1>4. CASE reached = pos - 1 /\ reached' = reached + 1
  <2>1. reached \in 0 .. Len(log) - 1 /\ reached \in Nat /\ pos = reached + 1
    BY <1>4, DoneReached DEF TypeOK
  <2>2. Outcome(t, reached) = NoDoc /\ Outcome(t, reached') = NewTransfer
    BY <1>4, <2>1, OutcomeOfPrepared
  <2>3. Seen(Prepared, t, reached')
    BY <1>1, <1>4, <2>1, SeenNext
  <2> QED
    BY <1>1, <1>2, <2>2, <2>3, DoneReached, PrimedSeen
<1> QED
  BY <1>3, <1>4, DoneReached

(* After a fulfil event the outcome is COMMITTED; before it was RESERVED, or
   COMMITTED already when the event is delivered again. *)
LEMMA DoneFulfiled ==
  ASSUME TypeOK, LogInOrder, PositionsInOrder, pos <= batchEnd, Done,
         NEW t \in Transfers, log[pos] = Event(Fulfiled, t)
  PROVE  /\ Seen(Fulfiled, t, reached)'
         /\ Outcome(t, reached) \in {NewTransfer, WithFulfil(NewTransfer)}
         /\ Outcome(t, reached)' = WithFulfil(NewTransfer)
<1>1. Fulfiled \in EventNames
  BY DEF EventNames
<1>2. Seen(Fulfiled, t, reached')
  BY DoneReached DEF Seen
<1>3. Outcome(t, reached') = WithFulfil(NewTransfer)
  BY <1>2, DoneReached, OutcomeOfFulfiled
<1>4. Outcome(t, reached) \in {NewTransfer, WithFulfil(NewTransfer)}
  <2>1. CASE pos <= reached /\ reached' = reached
    BY <1>3, <2>1
  <2>2. CASE reached = pos - 1 /\ reached' = reached + 1
    <3>1. reached \in 0 .. Len(log) - 1 /\ pos = reached + 1
      BY <2>2, DoneReached DEF TypeOK
    <3> QED
      BY <3>1, OutcomeBeforeLast
  <2> QED
    BY <2>1, <2>2, DoneReached
<1> QED
  BY <1>1, <1>2, <1>3, <1>4, DoneReached, PrimedSeen, PrimedOutcome

(* The same for a reject event. *)
LEMMA DoneRejected ==
  ASSUME TypeOK, LogInOrder, PositionsInOrder, pos <= batchEnd, Done,
         NEW t \in Transfers, log[pos] = Event(Rejected, t)
  PROVE  /\ Seen(Rejected, t, reached)'
         /\ Outcome(t, reached) \in {NewTransfer, WithReject(NewTransfer)}
         /\ Outcome(t, reached)' = WithReject(NewTransfer)
<1>1. Rejected \in EventNames
  BY DEF EventNames
<1>2. Seen(Rejected, t, reached')
  BY DoneReached DEF Seen
<1>3. Outcome(t, reached') = WithReject(NewTransfer)
  BY <1>2, DoneReached, OutcomeOfRejected
<1>4. Outcome(t, reached) \in {NewTransfer, WithReject(NewTransfer)}
  <2>1. CASE pos <= reached /\ reached' = reached
    BY <1>3, <2>1
  <2>2. CASE reached = pos - 1 /\ reached' = reached + 1
    <3>1. reached \in 0 .. Len(log) - 1 /\ pos = reached + 1
      BY <2>2, DoneReached DEF TypeOK
    <3> QED
      BY <3>1, OutcomeBeforeLast
  <2> QED
    BY <2>1, <2>2, DoneReached
<1> QED
  BY <1>1, <1>2, <1>3, <1>4, DoneReached, PrimedSeen, PrimedOutcome

-----------------------------------------------------------------------------
(* What every step that finishes a message keeps. *)

(* Positions, types and the absence of waiting handlers. *)
LEMMA DoneKeeps ==
  ASSUME TypeOK, LogInOrder, PositionsInOrder, pos <= batchEnd, Done,
         transfers' \in [Transfers -> Docs \union {NoDoc}],
         dropped' \in {dropped, dropped \union {pos}}
  PROVE  TypeOK' /\ LogInOrder' /\ PositionsInOrder' /\ HeldIsCurrent'
<1>1. TypeOK'
  BY DoneReached DEF TypeOK, Done, PCs
<1>2. LogInOrder'
  BY DoneReached DEF LogInOrder, Seen
<1>3. PositionsInOrder'
  BY DoneReached DEF PositionsInOrder, TypeOK, Done
<1>4. HeldIsCurrent'
  BY DEF HeldIsCurrent, Done
<1> QED
  BY <1>1, <1>2, <1>3, <1>4

(* A document that is not written. *)
LEMMA DoneSameDoc ==
  ASSUME TypeOK, PositionsInOrder, pos <= batchEnd, Done,
         NEW t \in Transfers, transfers'[t] = transfers[t], IsOutcome(t)
  PROVE  IsOutcome(t)'
<1>1. \A name \in EventNames : Seen(name, t, reached) => Seen(name, t, reached)'
  <2>1. reached \in Nat /\ reached' \in Nat /\ reached <= reached' /\ log' = log
    BY DoneReached DEF TypeOK
  <2> QED
    BY <2>1, SeenGrows, PrimedSeen
<1>2. {Prepared, Fulfiled, Rejected} \subseteq EventNames
  BY DEF EventNames
<1> QED
  BY <1>1, <1>2 DEF IsOutcome, NewTransfer, WithFulfil, WithReject

(* The documents of the transfers the message is not about. *)
LEMMA DoneOthers ==
  ASSUME TypeOK, PositionsInOrder, pos <= batchEnd, Done,
         dropped' \in {dropped, dropped \union {pos}},
         NEW t \in Transfers, t # Transfer, transfers'[t] = transfers[t],
         IsOutcome(t), IsReplay(t)
  PROVE  IsOutcome(t)' /\ IsReplay(t)'
<1>1. Outcome(t, reached)' = Outcome(t, reached)
  BY DoneOther
<1>2. NothingDropped(t)' => NothingDropped(t)
  BY DoneReached DEF NothingDropped
<1> QED
  BY <1>1, <1>2, DoneSameDoc DEF IsReplay

-----------------------------------------------------------------------------
(* The inductive invariant. *)

(* The invariant holds when the service is first started. *)
LEMMA InitIInv == Init => IInv
<1> SUFFICES ASSUME Init PROVE IInv
  OBVIOUS
<1>1. TypeOK
  BY DEF Init, TypeOK, PCs
<1>2. LogInOrder /\ PositionsInOrder /\ HeldIsCurrent
  BY DEF Init, LogInOrder, PositionsInOrder, HeldIsCurrent
<1>3. \A t \in Transfers : transfers[t] = NoDoc
  BY DEF Init
<1>4. \A t \in Transfers : ~Seen(Prepared, t, reached)
  <2>1. 1 .. reached = {}
    BY DEF Init
  <2> QED
    BY <2>1 DEF Seen
<1> QED
  BY <1>1, <1>2, <1>3, <1>4 DEF IInv, DocsAreOutcomes, IsOutcome, ReportIsReplay,
                          IsReplay, Outcome

(* An event appended to the log is not handled yet. *)
LEMMA PublishKeepsIInv ==
  ASSUME IInv, NEW e \in Events, Publish(e)
  PROVE  IInv'
<1>1. /\ log' = Append(log, e) /\ Len(log') = Len(log) + 1
      /\ log \in Seq(Events) /\ log' \in Seq(Events)
      /\ \A i \in 1 .. Len(log) : log'[i] = log[i]
      /\ log'[Len(log) + 1] = e
  BY DEF IInv, TypeOK, Publish
<1>2. UNCHANGED <<committed, batchEnd, pos, pc, held, transfers, crashes,
                  reached, dropped>>
  BY DEF Publish, serviceVars, historyVars
<1>3. TypeOK'
  BY <1>1, <1>2 DEF IInv, TypeOK
<1>4. PositionsInOrder'
  BY <1>1, <1>2 DEF IInv, TypeOK, PositionsInOrder
<1>5. LogInOrder'
  <2>1. Publishable(e, {log[i] : i \in 1 .. Len(log)})
    <3>1. DOMAIN log = 1 .. Len(log)
      BY <1>1
    <3> QED
      BY <3>1 DEF Publish
  <2>2. \A i \in 1 .. Len(log) : log[i] # e
    BY <1>1, <2>1 DEF Publishable, Event, Events
  <2>3. \A i, j \in 1 .. Len(log') : log'[i] = log'[j] => i = j
    BY <1>1, <2>2 DEF IInv, LogInOrder
  <2>4. ASSUME NEW i \in 1 .. Len(log'), log'[i].msgName # Prepared
        PROVE  Seen(Prepared, log[i].transferId, i - 1)'
    <3>1. CASE i \in 1 .. Len(log)
      <4>1. Seen(Prepared, log[i].transferId, i - 1)
        BY <1>1, <2>4, <3>1 DEF IInv, LogInOrder
      <4> QED
        BY <1>1, <3>1, <4>1 DEF Seen
    <3>2. CASE i = Len(log) + 1
      <4>1. Event(Prepared, e.transferId) \in {log[j] : j \in 1 .. Len(log)}
        BY <1>1, <2>1, <2>4, <3>2 DEF Publishable
      <4> QED
        BY <1>1, <3>2, <4>1 DEF Seen
    <3> QED
      BY <1>1, <3>1, <3>2
  <2>5. ASSUME NEW i \in 1 .. Len(log'), NEW j \in 1 .. Len(log'),
               log'[i].msgName = Fulfiled, log'[j].msgName = Rejected
        PROVE  log'[i].transferId # log'[j].transferId
    <3>1. CASE i \in 1 .. Len(log) /\ j \in 1 .. Len(log)
      BY <1>1, <2>5, <3>1 DEF IInv, LogInOrder
    <3>2. CASE i = Len(log) + 1 /\ j \in 1 .. Len(log)
      <4>1. log[j] \in Events
        BY <1>1, <3>2
      <4>2. log[j] # Event(Rejected, e.transferId)
        BY <1>1, <2>1, <2>5, <3>2 DEF Publishable
      <4> QED
        BY <1>1, <2>5, <3>2, <4>1, <4>2 DEF Event, Events
    <3>3. CASE i \in 1 .. Len(log) /\ j = Len(log) + 1
      <4>1. log[i] \in Events
        BY <1>1, <3>3
      <4>2. log[i] # Event(Fulfiled, e.transferId)
        BY <1>1, <2>1, <2>5, <3>3 DEF Publishable
      <4> QED
        BY <1>1, <2>5, <3>3, <4>1, <4>2 DEF Event, Events
    <3>4. CASE i = Len(log) + 1 /\ j = Len(log) + 1
      BY <1>1, <2>5, <3>4 DEF Fulfiled, Rejected
    <3> QED
      BY <1>1, <3>1, <3>2, <3>3, <3>4
  <2> QED
    BY <2>3, <2>4, <2>5 DEF LogInOrder
<1>6. HeldIsCurrent'
  BY <1>1, <1>2 DEF IInv, HeldIsCurrent, Handling, Transfer, PositionsInOrder, TypeOK
<1>7. reached \in 0 .. Len(log)
  BY DEF IInv, TypeOK, PositionsInOrder
<1>8. \A t \in Transfers : \A name \in EventNames :
        Seen(name, t, reached)' <=> Seen(name, t, reached)
  BY <1>1, <1>2, <1>7 DEF Seen
<1>9. {Prepared, Fulfiled, Rejected} \subseteq EventNames
  BY DEF EventNames
<1>10. DocsAreOutcomes'
  BY <1>2, <1>8, <1>9 DEF IInv, DocsAreOutcomes, IsOutcome, NewTransfer,
                          WithFulfil, WithReject
<1>11. ReportIsReplay'
  <2>1. \A t \in Transfers : Outcome(t, reached)' = Outcome(t, reached)
    BY <1>8, <1>9 DEF Outcome, NewTransfer, WithFulfil, WithReject
  <2>2. \A i \in dropped : log'[i] = log[i]
    BY <1>1, <1>7 DEF IInv, PositionsInOrder
  <2> QED
    BY <1>2, <2>1, <2>2 DEF IInv, ReportIsReplay, IsReplay, NothingDropped
<1> QED
  BY <1>3, <1>4, <1>5, <1>6, <1>10, <1>11 DEF IInv

(* Steps of the consumer and reads change neither the log nor a document. *)
LEMMA QuietKeeps ==
  ASSUME IInv, UNCHANGED <<log, transfers, reached, dropped>>
  PROVE  LogInOrder' /\ DocsAreOutcomes' /\ ReportIsReplay'
<1>1. LogInOrder'
  BY DEF IInv, LogInOrder, Seen
<1>2. DocsAreOutcomes'
  BY DEF IInv, DocsAreOutcomes, IsOutcome, Seen, NewTransfer, WithFulfil, WithReject
<1>3. ReportIsReplay'
  BY DEF IInv, ReportIsReplay, IsReplay, NothingDropped, Outcome, Seen,
         NewTransfer, WithFulfil, WithReject
<1> QED
  BY <1>1, <1>2, <1>3

(* Starting, taking a batch, committing its offset and crashing keep it. *)
LEMMA ConsumerKeepsIInv ==
  ASSUME IInv, Start \/ ReceiveBatch \/ CommitBatch \/ Crash
  PROVE  IInv'
<1> USE DEF IInv, serviceVars, historyVars
<1>1. UNCHANGED <<log, transfers, reached, dropped>>
  BY DEF Start, ReceiveBatch, CommitBatch, Crash
<1>2. LogInOrder' /\ DocsAreOutcomes' /\ ReportIsReplay'
  BY <1>1, QuietKeeps
<1>3. CASE Start
  BY <1>2, <1>3 DEF Start, TypeOK, PCs, PositionsInOrder, HeldIsCurrent
<1>4. CASE ReceiveBatch
  BY <1>2, <1>4, BatchSizeAssumption
     DEF ReceiveBatch, TypeOK, PCs, PositionsInOrder, HeldIsCurrent
<1>5. CASE CommitBatch
  BY <1>2, <1>5 DEF CommitBatch, TypeOK, PCs, PositionsInOrder, HeldIsCurrent
<1>6. CASE Crash
  BY <1>2, <1>6 DEF Crash, TypeOK, PCs, PositionsInOrder, HeldIsCurrent
<1> QED
  BY <1>3, <1>4, <1>5, <1>6

(* Reads keep it: what the handler remembers is what is stored. *)
LEMMA ReadKeepsIInv ==
  ASSUME IInv, CheckTransferIsNew \/ GetTransferById
  PROVE  IInv'
<1> USE DEF IInv
<1>1. /\ UNCHANGED <<log, transfers, reached, dropped, committed, batchEnd, pos,
                     crashes>>
      /\ pc = "next" /\ pos \in 1 .. Len(log)
  BY DEF CheckTransferIsNew, GetTransferById, Await, historyVars, Handling,
         TypeOK, PositionsInOrder
<1>2. LogInOrder' /\ DocsAreOutcomes' /\ ReportIsReplay'
  BY <1>1, QuietKeeps
<1>3. Transfer \in Transfers /\ transfers[Transfer] \in Docs \union {NoDoc}
  <2>1. log[pos] \in Events
    BY <1>1 DEF TypeOK
  <2> QED
    BY <2>1 DEF Transfer, Events, TypeOK
<1>4. CASE CheckTransferIsNew
  <2>1. TypeOK' /\ PositionsInOrder'
    BY <1>1, <1>4 DEF CheckTransferIsNew, Await, TypeOK, PCs, PositionsInOrder
  <2>2. HeldIsCurrent'
    BY <1>1, <1>4 DEF CheckTransferIsNew, Await, HeldIsCurrent, Handling, Transfer
  <2> QED
    BY <1>2, <2>1, <2>2
<1>5. CASE GetTransferById
  <2>1. TypeOK' /\ PositionsInOrder'
    BY <1>1, <1>3, <1>5 DEF GetTransferById, Await, TypeOK, PCs, PositionsInOrder
  <2>2. HeldIsCurrent'
    BY <1>1, <1>5 DEF GetTransferById, Await, HeldIsCurrent, Handling, Transfer
  <2> QED
    BY <1>2, <2>1, <2>2
<1> QED
  BY <1>4, <1>5

(* A message is finished: its own transfer is all there is to look at. *)
LEMMA FinishKeepsIInv ==
  ASSUME IInv, pos <= batchEnd, Done,
         dropped' \in {dropped, dropped \union {pos}},
         NEW t \in Transfers, t = Transfer,
         transfers' \in [Transfers -> Docs \union {NoDoc}],
         \A u \in Transfers \ {t} : transfers'[u] = transfers[u],
         IsOutcome(t)', IsReplay(t)'
  PROVE  IInv'
<1>1. TypeOK' /\ LogInOrder' /\ PositionsInOrder' /\ HeldIsCurrent'
  BY DoneKeeps DEF IInv
<1>2. \A u \in Transfers : IsOutcome(u)' /\ IsReplay(u)'
  BY DoneOthers DEF IInv, DocsAreOutcomes, ReportIsReplay
<1> QED
  BY <1>1, <1>2 DEF IInv, DocsAreOutcomes, ReportIsReplay

(* The same when no document changes. *)
LEMMA FinishUnwritten ==
  ASSUME IInv, pos <= batchEnd, Done,
         dropped' \in {dropped, dropped \union {pos}},
         NEW t \in Transfers, t = Transfer, UNCHANGED transfers, IsReplay(t)'
  PROVE  IInv'
<1>1. IsOutcome(t)'
  BY DoneSameDoc DEF IInv, DocsAreOutcomes
<1> QED
  BY <1>1, FinishKeepsIInv DEF IInv, TypeOK

(* A handler at work is at work on an event of the log. *)
LEMMA HandlingMeans ==
  ASSUME TypeOK, PositionsInOrder, NEW step, NEW name \in EventNames,
         Handling(step, name)
  PROVE  /\ pos <= batchEnd /\ pc = step
         /\ Transfer \in Transfers /\ log[pos] = Event(name, Transfer)
<1>1. pos \in 1 .. Len(log) /\ pos <= batchEnd /\ log[pos].msgName = name /\ pc = step
  BY DEF Handling, TypeOK, PositionsInOrder
<1> QED
  BY <1>1, AtPos

(* addTransfer keeps it, whether the document exists or not. *)
LEMMA PreparedKeepsIInv ==
  ASSUME IInv, TransferAlreadyExists \/ InsertTransfer
  PROVE  IInv'
<1> USE DEF IInv
<1>1. \E step : Handling(step, Prepared)
  BY DEF TransferAlreadyExists, InsertTransfer
<1>2. PICK t \in Transfers : /\ t = Transfer /\ log[pos] = Event(Prepared, t)
                             /\ pos <= batchEnd
  BY <1>1, HandlingMeans DEF EventNames
<1>3. Done /\ dropped' = dropped /\ log' = log
  BY DEF TransferAlreadyExists, InsertTransfer, Done
<1>4. NothingDropped(t)' => NothingDropped(t)
  BY <1>3 DEF NothingDropped
<1>5. IsReplay(t)
  BY DEF ReportIsReplay
<1>6. CASE TransferAlreadyExists
  <2>1. UNCHANGED transfers /\ transfers[t] # NoDoc
    BY <1>2, <1>6 DEF TransferAlreadyExists
  <2>2. IsReplay(t)'
    BY <1>2, <1>3, <1>4, <1>5, <2>1, DonePrepared DEF IsReplay
  <2> QED
    BY <1>2, <1>3, <2>1, <2>2, FinishUnwritten
<1>7. CASE InsertTransfer
  <2>1. transfers[t] = NoDoc /\ transfers' = [transfers EXCEPT ![t] = NewTransfer]
    BY <1>2, <1>7 DEF InsertTransfer, Handling, HeldIsCurrent
  <2>2. transfers'[t] = NewTransfer
    BY <2>1 DEF TypeOK
  <2>3. IsReplay(t)'
    BY <1>2, <1>3, <1>4, <1>5, <2>1, <2>2, DonePrepared DEF IsReplay, NewTransfer
  <2>4. IsOutcome(t)'
    BY <1>2, <1>3, <2>2, DonePrepared DEF IsOutcome, NewTransfer
  <2>5. transfers' \in [Transfers -> Docs \union {NoDoc}]
    BY <2>1, DocsWritten DEF TypeOK
  <2>6. \A u \in Transfers \ {t} : transfers'[u] = transfers[u]
    BY <2>1 DEF TypeOK
  <2> QED
    BY <1>2, <1>3, <2>3, <2>4, <2>5, <2>6, FinishKeepsIInv
<1> QED
  BY <1>6, <1>7

(* A fulfil or reject event of a missing transfer: its prepared event was
   lost to a database failure. *)
LEMMA MissingKeepsIInv ==
  ASSUME IInv, MissingTransfer
  PROVE  IInv'
<1> USE DEF IInv
<1>1. PICK t \in Transfers :
        /\ t = Transfer /\ pos <= batchEnd
        /\ log[pos] = Event(Fulfiled, t) \/ log[pos] = Event(Rejected, t)
  BY HandlingMeans DEF MissingTransfer, EventNames
<1>2. /\ Done /\ dropped' = dropped /\ log' = log /\ UNCHANGED transfers
      /\ transfers[t] = NoDoc
  BY <1>1 DEF MissingTransfer, Done
<1>3. Outcome(t, reached) # NoDoc
  BY <1>1, <1>2, DoneFulfiled, DoneRejected, DocsWritten
<1>4. ~NothingDropped(t)
  BY <1>2, <1>3 DEF ReportIsReplay, IsReplay
<1>5. ~NothingDropped(t)'
  BY <1>2, <1>4 DEF NothingDropped
<1> QED
  BY <1>1, <1>2, <1>5, FinishUnwritten DEF IsReplay

(* The document a fulfil handler read is RESERVED, or COMMITTED already. *)
LEMMA FulfilWrites ==
  ASSUME IInv, UpdateFulfiled
  PROVE  \E t \in Transfers :
           /\ t = Transfer /\ pos <= batchEnd /\ log[pos] = Event(Fulfiled, t)
           /\ transfers[t] \in {NewTransfer, WithFulfil(NewTransfer)}
           /\ transfers' = [transfers EXCEPT ![t] = WithFulfil(NewTransfer)]
<1> USE DEF IInv
<1>1. Fulfiled \in EventNames /\ Handling("update", Fulfiled)
  BY DEF EventNames, UpdateFulfiled
<1>2. PICK t \in Transfers : /\ t = Transfer /\ pos <= batchEnd /\ pc = "update"
                             /\ log[pos] = Event(Fulfiled, t)
  BY <1>1, HandlingMeans
<1>3. held = transfers[t] /\ held # NoDoc /\ IsOutcome(t) /\ pos \in 0 .. Len(log)
      /\ reached \in 0 .. Len(log)
  BY <1>2 DEF HeldIsCurrent, DocsAreOutcomes, TypeOK, PositionsInOrder
<1>4. transfers' = [transfers EXCEPT ![t] = WithFulfil(held)]
  BY <1>2, <1>3 DEF UpdateFulfiled, UpdateOne
<1>5. Seen(Fulfiled, t, pos)
  BY <1>2 DEF Seen, TypeOK, PositionsInOrder
<1>6. ~Seen(Rejected, t, reached)
  BY <1>3, <1>5, OneOutcome
<1>7. held \in {NewTransfer, WithFulfil(NewTransfer)}
  BY <1>3, <1>6 DEF IsOutcome
<1>8. WithFulfil(held) = WithFulfil(NewTransfer)
  BY <1>7, DocsWritten
<1> QED
  BY <1>2, <1>3, <1>4, <1>7, <1>8

(* The document a reject handler read is RESERVED, or ABORTED already. *)
LEMMA RejectWrites ==
  ASSUME IInv, UpdateRejected
  PROVE  \E t \in Transfers :
           /\ t = Transfer /\ pos <= batchEnd /\ log[pos] = Event(Rejected, t)
           /\ transfers[t] \in {NewTransfer, WithReject(NewTransfer)}
           /\ transfers' = [transfers EXCEPT ![t] = WithReject(NewTransfer)]
<1> USE DEF IInv
<1>1. Rejected \in EventNames /\ Handling("update", Rejected)
  BY DEF EventNames, UpdateRejected
<1>2. PICK t \in Transfers : /\ t = Transfer /\ pos <= batchEnd /\ pc = "update"
                             /\ log[pos] = Event(Rejected, t)
  BY <1>1, HandlingMeans
<1>3. held = transfers[t] /\ held # NoDoc /\ IsOutcome(t) /\ pos \in 0 .. Len(log)
      /\ reached \in 0 .. Len(log)
  BY <1>2 DEF HeldIsCurrent, DocsAreOutcomes, TypeOK, PositionsInOrder
<1>4. transfers' = [transfers EXCEPT ![t] = WithReject(held)]
  BY <1>2, <1>3 DEF UpdateRejected, UpdateOne
<1>5. Seen(Rejected, t, pos)
  BY <1>2 DEF Seen, TypeOK, PositionsInOrder
<1>6. ~Seen(Fulfiled, t, reached)
  BY <1>3, <1>5, OneOutcome
<1>7. held \in {NewTransfer, WithReject(NewTransfer)}
  BY <1>3, <1>6 DEF IsOutcome
<1>8. WithReject(held) = WithReject(NewTransfer)
  BY <1>7, DocsWritten
<1> QED
  BY <1>2, <1>3, <1>4, <1>7, <1>8

(* The write of the fulfil handler keeps it. *)
LEMMA FulfilKeepsIInv ==
  ASSUME IInv, UpdateFulfiled
  PROVE  IInv'
<1>1. PICK t \in Transfers :
        /\ t = Transfer /\ pos <= batchEnd /\ log[pos] = Event(Fulfiled, t)
        /\ transfers' = [transfers EXCEPT ![t] = WithFulfil(NewTransfer)]
  BY FulfilWrites
<1>2. Done /\ dropped' = dropped
  BY DEF UpdateFulfiled
<1>3. /\ transfers'[t] = WithFulfil(NewTransfer)
      /\ transfers' \in [Transfers -> Docs \union {NoDoc}]
      /\ \A u \in Transfers \ {t} : transfers'[u] = transfers[u]
  BY <1>1, DocsWritten DEF IInv, TypeOK
<1>4. /\ Seen(Fulfiled, t, reached)'
      /\ Outcome(t, reached)' = WithFulfil(NewTransfer)
  BY <1>1, <1>2, DoneFulfiled DEF IInv
<1>5. IsOutcome(t)' /\ IsReplay(t)'
  BY <1>3, <1>4 DEF IsOutcome, IsReplay, WithFulfil, NewTransfer
<1> QED
  BY <1>1, <1>2, <1>3, <1>5, FinishKeepsIInv

(* The write of the reject handler keeps it. *)
LEMMA RejectKeepsIInv ==
  ASSUME IInv, UpdateRejected
  PROVE  IInv'
<1>1. PICK t \in Transfers :
        /\ t = Transfer /\ pos <= batchEnd /\ log[pos] = Event(Rejected, t)
        /\ transfers' = [transfers EXCEPT ![t] = WithReject(NewTransfer)]
  BY RejectWrites
<1>2. Done /\ dropped' = dropped
  BY DEF UpdateRejected
<1>3. /\ transfers'[t] = WithReject(NewTransfer)
      /\ transfers' \in [Transfers -> Docs \union {NoDoc}]
      /\ \A u \in Transfers \ {t} : transfers'[u] = transfers[u]
  BY <1>1, DocsWritten DEF IInv, TypeOK
<1>4. /\ Seen(Rejected, t, reached)'
      /\ Outcome(t, reached)' = WithReject(NewTransfer)
  BY <1>1, <1>2, DoneRejected DEF IInv
<1>5. IsOutcome(t)' /\ IsReplay(t)'
  BY <1>3, <1>4 DEF IsOutcome, IsReplay, WithReject, NewTransfer
<1> QED
  BY <1>1, <1>2, <1>3, <1>5, FinishKeepsIInv

(* Passing over an event keeps it. *)
LEMMA IgnoreKeepsIInv ==
  ASSUME IInv, IgnoreEvent
  PROVE  IInv'
<1> USE DEF IInv
<1>1. PICK t \in Transfers : /\ t = Transfer /\ pos <= batchEnd
                             /\ log[pos].msgName = Unhandled
  <2>1. Unhandled \in EventNames /\ Handling("next", Unhandled)
    BY DEF EventNames, IgnoreEvent
  <2> QED
    BY <2>1, HandlingMeans DEF Handling
<1>2. Done /\ dropped' = dropped /\ log' = log /\ UNCHANGED transfers
  BY DEF IgnoreEvent, Done
<1>3. Outcome(t, reached)' = Outcome(t, reached)
  BY <1>1, <1>2, DoneUnhandled
<1>4. NothingDropped(t)' => NothingDropped(t)
  BY <1>2 DEF NothingDropped
<1> QED
  BY <1>1, <1>2, <1>3, <1>4, FinishUnwritten DEF ReportIsReplay, IsReplay

(* A database failure keeps it: the transfer is remembered as dropped. *)
LEMMA FailureKeepsIInv ==
  ASSUME IInv, DatabaseFails
  PROVE  IInv'
<1> USE DEF IInv
<1>1. PICK t \in Transfers : t = Transfer /\ pos <= batchEnd
  <2>1. PICK name \in EventNames, step \in {"next", "insert", "update"} :
          Handling(step, name)
    BY DEF DatabaseFails
  <2> QED
    BY <2>1, HandlingMeans
<1>2. Done /\ dropped' = dropped \union {pos} /\ log' = log /\ UNCHANGED transfers
  BY DEF DatabaseFails, Done
<1>3. ~NothingDropped(t)'
  BY <1>1, <1>2 DEF NothingDropped, Transfer
<1> QED
  BY <1>1, <1>2, <1>3, FinishUnwritten DEF IsReplay

(* What the collection is worth, for any number of crashes, redeliveries and
   database failures: the facts ReportIsReplay rests on hold for ever. *)
THEOREM IInvHolds == Spec => []IInv
<1>1. IInv /\ [Next]_vars => IInv'
  <2> SUFFICES ASSUME IInv, [Next]_vars PROVE IInv'
    OBVIOUS
  <2>1. CASE \E e \in Events : Publish(e)
    BY <2>1, PublishKeepsIInv
  <2>2. CASE Start \/ ReceiveBatch \/ CommitBatch \/ Crash
    BY <2>2, ConsumerKeepsIInv
  <2>3. CASE CheckTransferIsNew \/ GetTransferById
    BY <2>3, ReadKeepsIInv
  <2>4. CASE TransferAlreadyExists \/ InsertTransfer
    BY <2>4, PreparedKeepsIInv
  <2>5. CASE MissingTransfer
    BY <2>5, MissingKeepsIInv
  <2>6. CASE UpdateFulfiled \/ UpdateRejected
    BY <2>6, FulfilKeepsIInv, RejectKeepsIInv
  <2>7. CASE IgnoreEvent
    BY <2>7, IgnoreKeepsIInv
  <2>8. CASE DatabaseFails
    BY <2>8, FailureKeepsIInv
  <2>9. CASE UNCHANGED vars
    <3>1. UNCHANGED <<log, committed, batchEnd, pos, pc, held, transfers, crashes,
                      reached, dropped>>
      BY <2>9 DEF vars, serviceVars, historyVars
    <3>2. LogInOrder' /\ DocsAreOutcomes' /\ ReportIsReplay'
      BY <3>1, QuietKeeps
    <3>3. TypeOK' /\ PositionsInOrder'
      BY <3>1 DEF IInv, TypeOK, PositionsInOrder
    <3>4. HeldIsCurrent'
      BY <3>1 DEF IInv, HeldIsCurrent, Handling, Transfer
    <3> QED
      BY <3>2, <3>3, <3>4 DEF IInv
  <2> QED
    BY <2>1, <2>2, <2>3, <2>4, <2>5, <2>6, <2>7, <2>8, <2>9 DEF Next, HandleEvent
<1> QED
  BY <1>1, InitIInv, PTL DEF Spec

(* Every variable keeps its type, and no document is ever malformed. *)
THEOREM TypeCorrect == Spec => []TypeOK
<1>1. IInv => TypeOK
  BY DEF IInv
<1> QED
  BY <1>1, IInvHolds, PTL

(* The collection is always the replay of the events handled, for every
   transfer whose events met no database failure (see ReportIsReplay). *)
THEOREM ReplayHolds == Spec => []ReportIsReplay
<1>1. IInv => ReportIsReplay
  BY DEF IInv
<1> QED
  BY <1>1, IInvHolds, PTL

(* A document is never a mixture of two outcomes, whatever database calls
   failed (see ReportIsSomePrefix). *)
THEOREM SomePrefixHolds == Spec => []ReportIsSomePrefix
<1>1. IInv => ReportIsSomePrefix
  <2> SUFFICES ASSUME IInv, NEW t \in Transfers
               PROVE  \E k \in 0 .. reached : transfers[t] = Outcome(t, k)
    BY DEF ReportIsSomePrefix
  <2> USE DEF IInv
  <2>1. reached \in Nat /\ reached \in 0 .. Len(log) /\ Len(log) \in Nat
    BY DEF TypeOK, PositionsInOrder
  <2>2. CASE transfers[t] = NoDoc
    <3>1. 1 .. 0 = {}
      OBVIOUS
    <3>2. Outcome(t, 0) = NoDoc
      BY <3>1 DEF Outcome, Seen
    <3> QED
      BY <2>1, <2>2, <3>2
  <2>3. CASE transfers[t] = NewTransfer /\ Seen(Prepared, t, reached)
    <3>1. PICK i \in 1 .. reached : log[i] = Event(Prepared, t)
      BY <2>3 DEF Seen
    <3>2. i - 1 \in 0 .. Len(log) - 1 /\ (i - 1) + 1 = i
      BY <2>1
    <3>3. Outcome(t, i) = NewTransfer
      BY <3>1, <3>2, OutcomeOfPrepared
    <3> QED
      BY <2>1, <2>3, <3>3
  <2>4. CASE transfers[t] = WithFulfil(NewTransfer) /\ Seen(Fulfiled, t, reached)
    BY <2>1, <2>4, OutcomeOfFulfiled
  <2>5. CASE transfers[t] = WithReject(NewTransfer) /\ Seen(Rejected, t, reached)
    BY <2>1, <2>5, OutcomeOfRejected
  <2> QED
    BY <2>2, <2>3, <2>4, <2>5 DEF DocsAreOutcomes, IsOutcome
<1> QED
  BY <1>1, IInvHolds, PTL

(* The only steps that write a document. *)
LEMMA OnlyWrites ==
  ASSUME IInv, [Next]_vars, ~UNCHANGED transfers
  PROVE  \/ \E t \in Transfers :
              /\ log[pos] = Event(Prepared, t) /\ pos \in DOMAIN log
              /\ transfers[t] = NoDoc
              /\ transfers' = [transfers EXCEPT ![t] = NewTransfer]
         \/ UpdateFulfiled
         \/ UpdateRejected
<1>1. InsertTransfer \/ UpdateFulfiled \/ UpdateRejected
  BY DEF Next, HandleEvent, vars, serviceVars, historyVars, Publish, Start,
         ReceiveBatch, CommitBatch, Crash, TransferAlreadyExists, CheckTransferIsNew,
         MissingTransfer, GetTransferById, IgnoreEvent, DatabaseFails, Await
<1>2. CASE InsertTransfer
  <2>1. Prepared \in EventNames /\ Handling("insert", Prepared)
    BY <1>2 DEF EventNames, InsertTransfer
  <2>2. Transfer \in Transfers /\ log[pos] = Event(Prepared, Transfer)
    BY <2>1, HandlingMeans DEF IInv
  <2>3. pos \in DOMAIN log
    BY <2>1 DEF IInv, TypeOK, PositionsInOrder, Handling
  <2> QED
    BY <1>2, <2>2, <2>3 DEF InsertTransfer
<1> QED
  BY <1>1, <1>2

(* COMMITTED and ABORTED are final (see FinalStateIsKept). *)
THEOREM FinalStateHolds == Spec => FinalStateIsKept
<1>1. IInv /\ [Next]_vars
        => [\A t \in Transfers :
              transfers[t] # NoDoc /\ transfers[t].transferState # "RESERVED"
                => transfers'[t] = transfers[t]]_vars
  <2> SUFFICES ASSUME IInv, [Next]_vars, ~UNCHANGED transfers, NEW t \in Transfers,
                      transfers[t] # NoDoc, transfers[t].transferState # "RESERVED"
               PROVE  transfers'[t] = transfers[t]
    OBVIOUS
  <2>1. transfers[t] # NewTransfer
    BY OutcomesDiffer
  <2>2. CASE UpdateFulfiled
    BY <2>1, <2>2, FulfilWrites DEF IInv, TypeOK
  <2>3. CASE UpdateRejected
    BY <2>1, <2>3, RejectWrites DEF IInv, TypeOK
  <2>4. CASE \E u \in Transfers :
               /\ transfers[u] = NoDoc
               /\ transfers' = [transfers EXCEPT ![u] = NewTransfer]
    BY <2>4 DEF IInv, TypeOK
  <2> QED
    BY <2>2, <2>3, <2>4, OnlyWrites
<1> QED
  BY <1>1, IInvHolds, PTL DEF Spec, FinalStateIsKept

-----------------------------------------------------------------------------
(* The refinement of ReportedTransfers. *)

(* Both modules speak of the same events. *)
LEMMA SameEvents ==
  /\ Reported!Prepared = Prepared /\ Reported!Fulfiled = Fulfiled
  /\ Reported!Rejected = Rejected /\ Reported!Unhandled = Unhandled
BY DEF Prepared, Fulfiled, Rejected, Unhandled, Reported!Prepared,
       Reported!Fulfiled, Reported!Rejected, Reported!Unhandled

(* A write of doc shows as a change of the status of t alone. *)
LEMMA StatusOfWrite ==
  ASSUME TypeOK, NEW t \in Transfers, NEW doc \in Docs,
         transfers' = [transfers EXCEPT ![t] = doc]
  PROVE  statusShown' = [statusShown EXCEPT ![t] = doc.transferState]
BY DocAssumption DEF TypeOK, statusShown

(* The status shown of one transfer. *)
LEMMA StatusShown ==
  ASSUME NEW t \in Transfers
  PROVE  statusShown[t] = IF transfers[t] = NoDoc THEN "none"
                          ELSE transfers[t].transferState
BY DEF statusShown

(* Every step of the service is a step of the report or changes nothing the
   report shows, whatever crashes and database failures occur. *)
THEOREM Refinement == Spec => ImplementsReport
<1>1. Init => Reported!Init
  BY DEF Init, Reported!Init, statusShown
<1>2. IInv /\ [Next]_vars => [Reported!Next]_(Reported!vars)
  <2> SUFFICES ASSUME IInv, [Next]_vars, ~UNCHANGED Reported!vars
               PROVE  Reported!Next
    OBVIOUS
  <2> USE DEF IInv
  <2>1. CASE UNCHANGED transfers
    <3>1. UNCHANGED statusShown
      BY <2>1 DEF statusShown
    <3>2. log' # log
      BY <3>1 DEF Reported!vars
    <3>3. PICK e \in Events : Publish(e)
      BY <3>2 DEF Next, HandleEvent, vars, serviceVars, historyVars, Start,
         ReceiveBatch, CommitBatch, Crash, TransferAlreadyExists, CheckTransferIsNew,
         InsertTransfer, MissingTransfer, GetTransferById, UpdateFulfiled,
         UpdateRejected, IgnoreEvent, DatabaseFails, Await, Done
    <3>4. Publishable(e, {log[i] : i \in DOMAIN log}) /\ log' = Append(log, e)
      BY <3>3 DEF Publish
    <3>5. {log[i] : i \in DOMAIN log}' = {log[i] : i \in DOMAIN log} \union {e}
      <4>1. /\ DOMAIN log' = (DOMAIN log) \union {Len(log) + 1}
            /\ \A i \in DOMAIN log : log'[i] = log[i]
            /\ log'[Len(log) + 1] = e
        BY <3>4 DEF TypeOK
      <4> QED
        BY <4>1
    <3>6. Reported!Publishable(e, {log[i] : i \in DOMAIN log})
      BY <3>4, SameEvents DEF Publishable, Reported!Publishable, Event, Reported!Event
    <3>7. e \in Reported!Events
      BY SameEvents DEF Events, Reported!Events, EventNames, Reported!EventNames
    <3> QED
      BY <3>1, <3>5, <3>6, <3>7 DEF Reported!Next, Reported!Publish
  <2>2. CASE ~UNCHANGED transfers
    <3>1. UNCHANGED log
      BY <2>2 DEF Next, HandleEvent, vars, serviceVars, historyVars, Publish, Start,
         ReceiveBatch, CommitBatch, Crash, TransferAlreadyExists, CheckTransferIsNew,
         InsertTransfer, MissingTransfer, GetTransferById, UpdateFulfiled,
         UpdateRejected, IgnoreEvent, DatabaseFails, Await, Done
    <3>2. {log[i] : i \in DOMAIN log}' = {log[i] : i \in DOMAIN log}
      BY <3>1
    <3>3. ASSUME NEW t \in Transfers, pos \in DOMAIN log, log[pos] = Event(Prepared, t),
                 transfers[t] = NoDoc,
                 transfers' = [transfers EXCEPT ![t] = NewTransfer]
          PROVE  Reported!Reserve(t)
      <4>1. statusShown[t] = "none"
        BY <3>3, StatusShown
      <4>2. statusShown' = [statusShown EXCEPT ![t] = "RESERVED"]
        BY <3>3, StatusOfWrite, DocsWritten, OutcomesDiffer
      <4>3. Reported!Event(Reported!Prepared, t) \in {log[i] : i \in DOMAIN log}
        BY <3>3, SameEvents DEF Event, Reported!Event
      <4> QED
        BY <3>2, <4>1, <4>2, <4>3 DEF Reported!Reserve, Reported!Change
    <3>4. ASSUME UpdateFulfiled
          PROVE  \E t \in Transfers : Reported!Commit(t)
      <4>1. PICK t \in Transfers :
              /\ pos <= batchEnd /\ log[pos] = Event(Fulfiled, t)
              /\ transfers[t] \in {NewTransfer, WithFulfil(NewTransfer)}
              /\ transfers' = [transfers EXCEPT ![t] = WithFulfil(NewTransfer)]
        BY <3>4, FulfilWrites
      <4>2. transfers[t] = NewTransfer
        BY <2>2, <4>1 DEF TypeOK
      <4>3. statusShown[t] = "RESERVED"
        BY <4>2, StatusShown, DocsWritten, OutcomesDiffer
      <4>4. statusShown' = [statusShown EXCEPT ![t] = "COMMITTED"]
        BY <4>1, StatusOfWrite, DocsWritten, OutcomesDiffer
      <4>5. pos \in DOMAIN log
        BY <4>1 DEF TypeOK, PositionsInOrder
      <4>6. Reported!Event(Reported!Fulfiled, t) \in {log[i] : i \in DOMAIN log}
        BY <4>1, <4>5, SameEvents DEF Event, Reported!Event
      <4> QED
        BY <3>2, <4>3, <4>4, <4>6 DEF Reported!Commit, Reported!Change
    <3>5. ASSUME UpdateRejected
          PROVE  \E t \in Transfers : Reported!Abort(t)
      <4>1. PICK t \in Transfers :
              /\ pos <= batchEnd /\ log[pos] = Event(Rejected, t)
              /\ transfers[t] \in {NewTransfer, WithReject(NewTransfer)}
              /\ transfers' = [transfers EXCEPT ![t] = WithReject(NewTransfer)]
        BY <3>5, RejectWrites
      <4>2. transfers[t] = NewTransfer
        BY <2>2, <4>1 DEF TypeOK
      <4>3. statusShown[t] = "RESERVED"
        BY <4>2, StatusShown, DocsWritten, OutcomesDiffer
      <4>4. statusShown' = [statusShown EXCEPT ![t] = "ABORTED"]
        BY <4>1, StatusOfWrite, DocsWritten, OutcomesDiffer
      <4>5. pos \in DOMAIN log
        BY <4>1 DEF TypeOK, PositionsInOrder
      <4>6. Reported!Event(Reported!Rejected, t) \in {log[i] : i \in DOMAIN log}
        BY <4>1, <4>5, SameEvents DEF Event, Reported!Event
      <4> QED
        BY <3>2, <4>3, <4>4, <4>6 DEF Reported!Abort, Reported!Change
    <3> QED
      BY <2>2, <3>3, <3>4, <3>5, OnlyWrites DEF Reported!Next, Reported!Report
  <2> QED
    BY <2>1, <2>2
<1> QED
  BY <1>1, <1>2, IInvHolds, PTL DEF Spec, ImplementsReport, Reported!Spec
=============================================================================
