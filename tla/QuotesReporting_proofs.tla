----------------------- MODULE QuotesReporting_proofs -----------------------
(***************************************************************************)
(* Theorems about QuotesReporting, for every set of quotes and every       *)
(* number of crashes and failing calls.                                    *)
(***************************************************************************)
EXTENDS QuotesReporting, TLAPS

(* The events and their names. *)
LEMMA EventTypes ==
  /\ Received # Responded /\ Received # Unhandled /\ Responded # Unhandled
  /\ \A q \in Quotes : Event(Received, q) \in Events /\ Event(Responded, q) \in Events
  /\ \A e \in Events : /\ e.quoteId \in Quotes
                       /\ e.msgName \in {Received, Responded, Unhandled}
                       /\ e = Event(e.msgName, e.quoteId)
  /\ \A n, q : Event(n, q).msgName = n /\ Event(n, q).quoteId = q
BY DEF Received, Responded, Unhandled, Event, Events

(* The message being handled is an event. *)
LEMMA CurrentIsEvent ==
  ASSUME TypeOK, offset < Len(log)
  PROVE  /\ offset + 1 \in 1 .. Len(log)
         /\ log[offset + 1] \in Events
         /\ Quote \in Quotes
BY EventTypes DEF TypeOK, Quote

(* What is committed when the next offset is. *)
LEMMA CommittedNext ==
  ASSUME TypeOK, offset < Len(log), offset' = offset + 1, log' = log
  PROVE  Committed' = Committed \union {log[offset + 1]}
<1>1. 1 .. offset + 1 = (1 .. offset) \union {offset + 1}
  BY DEF TypeOK
<1> QED
  BY <1>1 DEF Committed

(* Nothing is committed but what is in the log. *)
LEMMA CommittedStays ==
  ASSUME UNCHANGED <<log, offset>>
  PROVE  /\ Committed' = Committed
         /\ Quote' = Quote
         /\ \A name : Handling("handled", name)' <=>
                        /\ stage' = "handled"
                        /\ offset < Len(log)
                        /\ log[offset + 1].msgName = name
BY DEF Committed, Quote, Handling

(* Nothing is in flight, or lost, when the service is first started. *)
LEMMA InitIInv == Init => IInv
<1> SUFFICES ASSUME Init PROVE IInv
  OBVIOUS
<1> USE DEF Init
<1>1. TypeOK
  BY DEF TypeOK
<1>2. LogInOrder
  BY DEF LogInOrder
<1>3. StageInOrder
  BY DEF StageInOrder
<1>4. \A q \in Quotes : AddInOrder(q) /\ HandledIsKept(q)
  BY DEF AddInOrder, HandledIsKept, Handling
<1>5. Committed = {}
  BY DEF Committed
<1>6. NothingElseIsLost
  BY <1>5 DEF NothingElseIsLost, RequestIsKept, ResponseIsKept
<1> QED
  BY <1>1, <1>2, <1>3, <1>4, <1>6 DEF IInv

(* A new event changes nothing of what was handled. *)
LEMMA PublishKeepsIInv ==
  ASSUME IInv, NEW e \in Events, Publish(e)
  PROVE  IInv'
<1> USE DEF Publish, historyVars
<1>1. TypeOK /\ LogInOrder /\ StageInOrder /\ NothingElseIsLost
  BY DEF IInv
<1>2. /\ log' \in Seq(Events)
      /\ Len(log') = Len(log) + 1
      /\ \A i \in 1 .. Len(log) : log'[i] = log[i]
      /\ log'[Len(log) + 1] = e
  BY <1>1 DEF TypeOK
<1>3. offset \in Nat /\ Len(log) \in Nat /\ offset <= Len(log)
  BY <1>1 DEF TypeOK, StageInOrder
<1>4. Committed' = Committed
  BY <1>2, <1>3 DEF Committed
<1>5. TypeOK'
  BY <1>1, <1>2 DEF TypeOK
<1>6. LogInOrder'
  <2>1. \A i \in 1 .. Len(log) : log[i] # e
    BY DEF Published
  <2>2. e.msgName # Received =>
          \E j \in 1 .. Len(log) : log[j] = Event(Received, e.quoteId)
    BY DEF Published
  <2>3. \A i, j \in 1 .. Len(log') : log'[i] = log'[j] => i = j
    BY <1>1, <1>2, <1>3, <2>1 DEF LogInOrder
  <2>4. \A i \in 1 .. Len(log') : log'[i].msgName # Received =>
          \E j \in 1 .. i - 1 : log'[j] = Event(Received, log'[i].quoteId)
    <3> SUFFICES ASSUME NEW i \in 1 .. Len(log'), log'[i].msgName # Received
                 PROVE  \E j \in 1 .. i - 1 : log'[j] = Event(Received, log'[i].quoteId)
      OBVIOUS
    <3>1. CASE i = Len(log) + 1
      BY <3>1, <1>2, <1>3, <2>2
    <3>2. CASE i \in 1 .. Len(log)
      <4>1. PICK j \in 1 .. i - 1 : log[j] = Event(Received, log[i].quoteId)
        BY <3>2, <1>1, <1>2 DEF LogInOrder
      <4> QED
        BY <4>1, <3>2, <1>2, <1>3
    <3> QED
      BY <3>1, <3>2, <1>2, <1>3
  <2> QED
    BY <2>3, <2>4 DEF LogInOrder
<1>7. offset < Len(log) =>
        /\ Quote' = Quote
        /\ \A step, name : Handling(step, name)' <=> Handling(step, name)
  BY <1>2, <1>3 DEF Quote, Handling
<1>8. stage \in {"handled", "update"} => offset < Len(log)
  BY <1>1 DEF StageInOrder, Handling
<1>9. StageInOrder'
  BY <1>1, <1>2, <1>3, <1>7, <1>8 DEF StageInOrder
<1>10. \A q \in Quotes : AddInOrder(q)'
  BY <1>4, <1>7, <1>8 DEF IInv, AddInOrder, Handling
<1>11. \A q \in Quotes : HandledIsKept(q)'
  BY <1>7, <1>8 DEF IInv, HandledIsKept, Handling
<1>12. NothingElseIsLost'
  BY <1>1, <1>4 DEF NothingElseIsLost, RequestIsKept, ResponseIsKept
<1> QED
  BY <1>5, <1>6, <1>9, <1>10, <1>11, <1>12 DEF IInv

(* Steps that leave the log and the offset alone keep the order of the log,
   and what is committed. *)
LEMMA LogStays ==
  ASSUME IInv, UNCHANGED <<log, offset>>
  PROVE  LogInOrder' /\ Committed' = Committed /\ offset' <= Len(log')
BY CommittedStays DEF IInv, LogInOrder, StageInOrder

(* The consumer's own steps. *)
LEMMA ConsumerKeepsIInv ==
  ASSUME IInv, Start \/ Commit
  PROVE  IInv'
<1> USE DEF historyVars
<1>1. TypeOK /\ LogInOrder /\ StageInOrder /\ NothingElseIsLost
  BY DEF IInv
<1>2. CASE Start
  <2> USE <1>2 DEF Start
  <2>1. TypeOK' /\ StageInOrder'
    BY <1>1 DEF TypeOK, StageInOrder
  <2>2. \A q \in Quotes : AddInOrder(q)' /\ HandledIsKept(q)'
    BY CommittedStays DEF IInv, AddInOrder, HandledIsKept, Handling
  <2>3. NothingElseIsLost'
    BY <1>1, CommittedStays DEF NothingElseIsLost, RequestIsKept, ResponseIsKept
  <2> QED
    BY <2>1, <2>2, <2>3, LogStays DEF IInv
<1>3. CASE Commit
  <2> USE <1>3 DEF Commit
  <2>1. offset < Len(log) /\ Committed' = Committed \union {log[offset + 1]}
    BY <1>1, CommittedNext DEF StageInOrder
  <2>2. log[offset + 1] \in Events /\ Quote \in Quotes
    BY <1>1, <2>1, CurrentIsEvent
  <2>3. TypeOK' /\ StageInOrder'
    BY <1>1, <2>1 DEF TypeOK, StageInOrder
  <2>4. LogInOrder'
    BY <1>1 DEF LogInOrder
  <2>5. ASSUME NEW q \in Quotes
        PROVE  AddInOrder(q)' /\ HandledIsKept(q)' /\ RequestIsKept(q)' /\ ResponseIsKept(q)'
    <3>1. AddInOrder(q) /\ HandledIsKept(q) /\ RequestIsKept(q) /\ ResponseIsKept(q)
      BY DEF IInv, NothingElseIsLost
    <3>2. \A name : log[offset + 1] = Event(name, q) <=>
                      Handling("handled", name) /\ Quote = q
      BY <2>1, <2>2, EventTypes DEF Handling, Quote
    <3>3. AddInOrder(q)'
      BY <3>1, <3>2, <2>1 DEF AddInOrder
    <3>4. HandledIsKept(q)'
      BY DEF HandledIsKept, Handling
    <3>5. RequestIsKept(q)' /\ ResponseIsKept(q)'
      BY <3>1, <3>2, <2>1 DEF RequestIsKept, ResponseIsKept, HandledIsKept
    <3> QED
      BY <3>3, <3>4, <3>5
  <2> QED
    BY <2>3, <2>4, <2>5 DEF IInv, NothingElseIsLost
<1> QED
  BY <1>2, <1>3

(* The process ends: what was in flight with its event committed is orphaned,
   the rest is delivered again. *)
LEMMA ExitKeepsIInv ==
  ASSUME IInv, Exit, crashes' \in Nat, failures' \in Nat
  PROVE  IInv'
<1> USE DEF Exit
<1>1. TypeOK /\ LogInOrder /\ StageInOrder
  BY DEF IInv
<1>2. TypeOK'
  BY <1>1 DEF TypeOK
<1>3. StageInOrder'
  BY <1>1 DEF StageInOrder
<1>4. ASSUME NEW q \in Quotes
      PROVE  AddInOrder(q)' /\ HandledIsKept(q)' /\ RequestIsKept(q)' /\ ResponseIsKept(q)'
  <2>1. RequestIsKept(q) /\ ResponseIsKept(q)
    BY DEF IInv, NothingElseIsLost
  <2>2. AddInOrder(q)' /\ HandledIsKept(q)'
    BY DEF AddInOrder, HandledIsKept, Handling
  <2>3. RequestIsKept(q)' /\ ResponseIsKept(q)'
    BY <2>1, CommittedStays DEF RequestIsKept, ResponseIsKept
  <2> QED
    BY <2>2, <2>3
<1> QED
  BY <1>2, <1>3, <1>4, LogStays DEF IInv, NothingElseIsLost

(* The handlers of the messages. *)
LEMMA HandlersKeepIInv ==
  ASSUME IInv, HandleEvent \/ UpdateFails
  PROVE  IInv'
<1> USE DEF historyVars
<1>1. TypeOK /\ LogInOrder /\ StageInOrder /\ NothingElseIsLost
  BY DEF IInv
<1>2. offset < Len(log) /\ UNCHANGED <<log, offset>>
  BY <1>1 DEF HandleEvent, HandleRequest, FindQuote, QuoteNotFound, UpdateQuote,
              IgnoreEvent, UpdateFails, Handling
<1>3. log[offset + 1] \in Events /\ Quote \in Quotes /\ offset + 1 \in 1 .. Len(log)
  BY <1>1, <1>2, CurrentIsEvent
<1>4. Committed' = Committed /\ Quote' = Quote
  BY <1>2, CommittedStays
<1>5. TypeOK'
  <2>1. CASE HandleRequest
    BY <2>1, <1>1, <1>3 DEF HandleRequest, TypeOK
  <2>2. CASE FindQuote \/ QuoteNotFound \/ UpdateQuote \/ IgnoreEvent \/ UpdateFails
    BY <2>2, <1>1, <1>3
       DEF FindQuote, QuoteNotFound, UpdateQuote, IgnoreEvent, UpdateFails, TypeOK
  <2> QED
    BY <2>1, <2>2 DEF HandleEvent
<1>6. StageInOrder'
  BY <1>1, <1>2, <1>4
     DEF StageInOrder, Handling, HandleEvent, HandleRequest, FindQuote, QuoteNotFound,
         UpdateQuote, IgnoreEvent, UpdateFails
<1>7. ASSUME NEW q \in Quotes
      PROVE  AddInOrder(q)' /\ HandledIsKept(q)' /\ RequestIsKept(q)' /\ ResponseIsKept(q)'
  <2>1. AddInOrder(q) /\ HandledIsKept(q) /\ RequestIsKept(q) /\ ResponseIsKept(q)
    BY DEF IInv, NothingElseIsLost
  <2>2. CASE HandleRequest
    BY <2>1, <2>2, <1>1, <1>2, <1>3, <1>4, EventTypes
       DEF HandleRequest, AddInOrder, HandledIsKept, RequestIsKept, ResponseIsKept,
           Handling, TypeOK
  <2>3. CASE FindQuote \/ IgnoreEvent
    BY <2>1, <2>3, <1>2, <1>4, EventTypes
       DEF FindQuote, IgnoreEvent, AddInOrder, HandledIsKept, RequestIsKept,
           ResponseIsKept, Handling
  <2>4. CASE QuoteNotFound
    <3>1. Event(Received, Quote) \in Committed
      <4>1. log[offset + 1].msgName # Received
        BY <2>4, EventTypes DEF QuoteNotFound, Handling
      <4>2. PICK j \in 1 .. offset : log[j] = Event(Received, Quote)
        BY <4>1, <1>1, <1>3 DEF LogInOrder, TypeOK, Quote
      <4> QED
        BY <4>2 DEF Committed
    <3>2. Quote \in orphaned' \union overtaken'
      BY <3>1, <2>4, <1>1, <1>3
         DEF QuoteNotFound, NothingElseIsLost, RequestIsKept, TypeOK
    <3> QED
      BY <3>2, <2>1, <2>4, <1>2, <1>4, EventTypes
         DEF QuoteNotFound, AddInOrder, HandledIsKept, RequestIsKept, ResponseIsKept,
             Handling
  <2>5. CASE UpdateQuote
    BY <2>1, <2>5, <1>1, <1>2, <1>3, <1>4, EventTypes
       DEF UpdateQuote, AddInOrder, HandledIsKept, RequestIsKept, ResponseIsKept,
           Handling, TypeOK
  <2>6. CASE UpdateFails
    BY <2>1, <2>6, <1>2, <1>4, EventTypes
       DEF UpdateFails, AddInOrder, HandledIsKept, RequestIsKept, ResponseIsKept,
           Handling
  <2> QED
    BY <2>2, <2>3, <2>4, <2>5, <2>6 DEF HandleEvent
<1> QED
  BY <1>2, <1>5, <1>6, <1>7, LogStays DEF IInv, NothingElseIsLost

(* The un-awaited add, as long as it does not end the process. *)
LEMMA AddKeepsIInv ==
  ASSUME IInv, NEW r \in Quotes, FindsNone(r) \/ InsertQuote(r)
  PROVE  IInv'
<1> USE DEF historyVars
<1>1. TypeOK /\ StageInOrder
  BY DEF IInv
<1>2. UNCHANGED <<log, offset, stage, historyVars>> /\ quotes[r] = "none"
  BY DEF FindsNone, InsertQuote
<1>3. Committed' = Committed /\ Quote' = Quote
  BY <1>2, CommittedStays
<1>4. TypeOK'
  BY <1>1 DEF TypeOK, FindsNone, InsertQuote
<1>5. /\ \A q \in Quotes : quotes[q] # "none" => quotes'[q] = quotes[q]
      /\ \A q \in Quotes : adding'[q] # "no" => adding[q] # "no"
      /\ \A q \in Quotes : adding[q] # "no" => adding'[q] # "no" \/ quotes'[q] # "none"
  BY <1>1 DEF TypeOK, FindsNone, InsertQuote
<1>6. StageInOrder'
  <2>1. stage = "update" => Quote \in Quotes
    BY <1>1, CurrentIsEvent DEF StageInOrder, Handling
  <2> QED
    BY <2>1, <1>1, <1>2, <1>3, <1>5 DEF StageInOrder, Handling
<1>7. ASSUME NEW q \in Quotes
      PROVE  AddInOrder(q)' /\ HandledIsKept(q)' /\ RequestIsKept(q)' /\ ResponseIsKept(q)'
  <2>1. AddInOrder(q) /\ HandledIsKept(q) /\ RequestIsKept(q) /\ ResponseIsKept(q)
    BY DEF IInv, NothingElseIsLost
  <2> QED
    BY <2>1, <1>2, <1>3, <1>5
       DEF AddInOrder, HandledIsKept, RequestIsKept, ResponseIsKept, Handling
<1> QED
  BY <1>2, <1>4, <1>6, <1>7, LogStays DEF IInv, NothingElseIsLost

(* Every step keeps the invariant. *)
LEMMA NextKeepsIInv == IInv /\ [Next]_vars => IInv'
<1> SUFFICES ASSUME IInv, [Next]_vars PROVE IInv'
  OBVIOUS
<1>1. CASE \E e \in Events : Publish(e)
  BY <1>1, PublishKeepsIInv
<1>2. CASE Start \/ Commit
  BY <1>2, ConsumerKeepsIInv
<1>3. CASE \/ Crash
           \/ \E q \in Quotes : QuoteAlreadyExists(q) \/ AddFails(q)
  <2>1. Exit /\ crashes' \in Nat /\ failures' \in Nat
    BY <1>3 DEF Crash, QuoteAlreadyExists, AddFails, IInv, TypeOK
  <2> QED
    BY <2>1, ExitKeepsIInv
<1>4. CASE HandleEvent \/ UpdateFails
  BY <1>4, HandlersKeepIInv
<1>5. CASE \E q \in Quotes : FindsNone(q) \/ InsertQuote(q)
  BY <1>5, AddKeepsIInv
<1>6. CASE UNCHANGED vars
  <2> USE <1>6 DEF vars, historyVars
  <2>1. TypeOK' /\ StageInOrder'
    BY DEF IInv, TypeOK, StageInOrder, Handling, Quote
  <2>2. \A q \in Quotes : AddInOrder(q)' /\ HandledIsKept(q)'
    BY CommittedStays DEF IInv, AddInOrder, HandledIsKept, Handling
  <2>3. NothingElseIsLost'
    BY CommittedStays DEF IInv, NothingElseIsLost, RequestIsKept, ResponseIsKept
  <2> QED
    BY <2>1, <2>2, <2>3, LogStays DEF IInv
<1> QED
  BY <1>1, <1>2, <1>3, <1>4, <1>5, <1>6 DEF Next, AddQuote

(* The invariant holds of every reachable state. *)
THEOREM IInvHolds == Spec => []IInv
BY InitIInv, NextKeepsIInv, PTL DEF Spec

(* What the report lacks of the committed events was lost to the un-awaited
   addQuote or to a failed update. *)
THEOREM NothingElseIsLostHolds == Spec => []NothingElseIsLost
<1>1. IInv => NothingElseIsLost
  BY DEF IInv
<1> QED
  BY <1>1, IInvHolds, PTL

(* An accepted quote stays accepted. *)
THEOREM AcceptedIsKeptHolds == Spec => AcceptedIsKept
<1>1. IInv /\ [Next]_vars =>
        [\A q \in Quotes : quotes[q] = "ACCEPTED" => quotes'[q] = "ACCEPTED"]_vars
  <2> SUFFICES ASSUME IInv, Next, NEW q \in Quotes, quotes[q] = "ACCEPTED"
               PROVE  quotes'[q] = "ACCEPTED"
    OBVIOUS
  <2>1. CASE UpdateQuote
    BY <2>1 DEF UpdateQuote, IInv, TypeOK
  <2>2. CASE \E r \in Quotes : InsertQuote(r)
    BY <2>2 DEF InsertQuote, IInv, TypeOK
  <2>3. CASE quotes' = quotes
    BY <2>3
  <2> QED
    BY <2>1, <2>2, <2>3
       DEF Next, Publish, Start, Commit, Crash, Exit, HandleEvent, HandleRequest,
           FindQuote, QuoteNotFound, IgnoreEvent, UpdateFails, AddQuote, FindsNone,
           QuoteAlreadyExists, AddFails
<1> QED
  BY <1>1, IInvHolds, PTL DEF Spec, AcceptedIsKept
=============================================================================
