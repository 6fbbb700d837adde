--------------------- MODULE ParticipantsReporting_proofs ---------------------
(***************************************************************************)
(* Theorems about ParticipantsReporting, for every set of participants and *)
(* every number of changes, crashes and failures.                          *)
(***************************************************************************)
EXTENDS ParticipantsReporting, TLAPS

(* The events of a participant are positions of the log. *)
LEMMA Positions ==
  ASSUME TypeOK
  PROVE  /\ DOMAIN log = 1 .. Len(log) /\ Len(log) \in Nat
         /\ \A p : EventsOf(p) \subseteq 1 .. Len(log)
         /\ \A p : \A i \in EventsOf(p) : log[i].participantId = p
         /\ \A i \in 1 .. Len(log) : log[i].participantId \in Participants
<1>1. log \in Seq(Events)
  BY DEF TypeOK
<1>2. DOMAIN log = 1 .. Len(log) /\ Len(log) \in Nat
  BY <1>1
<1>3. \A i \in 1 .. Len(log) : log[i] \in Events
  BY <1>1
<1> QED
  BY <1>2, <1>3 DEF EventsOf, Events

(* The message being handled is an event of its participant. *)
LEMMA CurrentIsEvent ==
  ASSUME TypeOK, offset < Len(log)
  PROVE  /\ offset + 1 \in 1 .. Len(log)
         /\ Participant \in Participants
         /\ offset + 1 \in EventsOf(Participant)
BY Positions DEF TypeOK, Participant, Current, EventsOf

(* As long as nothing is published the events stay what they are. *)
LEMMA LogStays ==
  ASSUME log' = log
  PROVE  /\ \A p : EventsOf(p)' = EventsOf(p)
         /\ \A i, p : IsFirst(i, p)' <=> IsFirst(i, p)
         /\ \A i, p : IsLast(i, p)' <=> IsLast(i, p)
         /\ written' = written =>
              \A p : OnlyCreationWritten(p)' <=> OnlyCreationWritten(p)
<1>1. /\ \A p : EventsOf(p)' = EventsOf(p)
      /\ \A i, p : IsFirst(i, p)' <=> IsFirst(i, p)
      /\ \A i, p : IsLast(i, p)' <=> IsLast(i, p)
  BY DEF EventsOf, IsFirst, IsLast
<1> QED
  BY <1>1 DEF OnlyCreationWritten

(* A participant has one first event, and one last event. *)
LEMMA OneFirst ==
  ASSUME TypeOK, NEW p, NEW i, NEW j
  PROVE  /\ IsFirst(i, p) /\ IsFirst(j, p) => i = j
         /\ IsLast(i, p) /\ IsLast(j, p) => i = j
BY Positions DEF IsFirst, IsLast

(* Nothing is published, and nothing written, at first. *)
LEMMA InitIInv == Init => IInv
<1> SUFFICES ASSUME Init PROVE IInv
  OBVIOUS
<1> USE DEF Init
<1>1. TypeOK
  BY ParticipantsBoundsAssumption DEF TypeOK, Versions
<1>2. \A p \in Participants : EventsOf(p) = {}
  BY DEF EventsOf
<1>3. LogInOrder
  BY <1>2 DEF LogInOrder
<1>4. PositionsInOrder
  BY DEF PositionsInOrder
<1>5. FetchedInOrder
  BY DEF FetchedInOrder
<1>6. \A p \in Participants : DocumentInOrder(p)
  BY DEF DocumentInOrder
<1> QED
  BY <1>1, <1>3, <1>4, <1>5, <1>6 DEF IInv

(* A change publishes one event, the last one of its participant, and the
   first one if the participant is new. *)
LEMMA ChangePublishes ==
  ASSUME TypeOK, LogInOrder, NEW p \in Participants, Change(p)
  PROVE  /\ Len(log') = Len(log) + 1
         /\ \A i \in 1 .. Len(log) : log'[i] = log[i]
         /\ log'[Len(log) + 1].participantId = p
         /\ log'[Len(log) + 1].actionName = Created <=> version[p] = 0
         /\ EventsOf(p)' = EventsOf(p) \union {Len(log) + 1}
         /\ \A q \in Participants : q # p => EventsOf(q)' = EventsOf(q)
         /\ log' \in Seq(Events)
<1> DEFINE e == [actionName |-> IF version[p] = 0 THEN Created ELSE Changed,
                 participantId |-> p]
<1>1. e \in Events /\ log' = Append(log, e) /\ log \in Seq(Events)
  BY DEF Change, Events, TypeOK
<1>2. e.participantId = p /\ (e.actionName = Created <=> version[p] = 0)
  BY DEF Created, Changed
<1> HIDE DEF e
<1>3. /\ Len(log') = Len(log) + 1 /\ log' \in Seq(Events)
      /\ \A i \in 1 .. Len(log) : log'[i] = log[i]
      /\ log'[Len(log) + 1] = e
      /\ DOMAIN log' = 1 .. Len(log) + 1 /\ DOMAIN log = 1 .. Len(log)
      /\ Len(log) \in Nat
  BY <1>1
<1>4. DOMAIN log' = DOMAIN log \union {Len(log) + 1} /\ Len(log) + 1 \notin DOMAIN log
  BY <1>3
<1>5. \A i \in DOMAIN log : log'[i] = log[i]
  BY <1>3
<1>6. EventsOf(p)' = EventsOf(p) \union {Len(log) + 1}
  BY <1>2, <1>3, <1>4, <1>5 DEF EventsOf
<1>7. \A q \in Participants : q # p => EventsOf(q)' = EventsOf(q)
  BY <1>2, <1>3, <1>4, <1>5 DEF EventsOf
<1> QED
  BY <1>2, <1>3, <1>6, <1>7

(* The participants service changes a participant. *)
LEMMA ChangeKeepsIInv ==
  ASSUME IInv, NEW p \in Participants, Change(p)
  PROVE  IInv'
<1>0. PICK n \in Nat : n = Len(log) + 1
  BY DEF IInv, TypeOK
<1>1. /\ TypeOK /\ LogInOrder /\ n = Len(log) + 1 /\ Len(log) \in Nat /\ n > Len(log)
      /\ \A q : EventsOf(q) \subseteq 1 .. Len(log)
  BY <1>0, Positions DEF IInv, TypeOK
<1>2. /\ UNCHANGED <<offset, stage, fetched, crashes, failures, failed, written>>
      /\ UNCHANGED <<participants, unlisted, lastUpdated>>
      /\ version' = [version EXCEPT ![p] = @ + 1]
      /\ version[p] < MaxVersion
  BY DEF Change, historyVars, collectionVars
<1>3. /\ version'[p] = version[p] + 1 /\ version[p] \in Nat
      /\ \A q \in Participants : q # p => version'[q] = version[q]
  BY <1>1, <1>2 DEF TypeOK, Versions
<1>4. TypeOK'
  <2>1. version' \in [Participants -> Versions]
    BY <1>1, <1>2, <1>3, ParticipantsBoundsAssumption DEF TypeOK, Versions
  <2>2. /\ log' \in Seq(Events)
        /\ failed' \in SUBSET (1 .. Len(log')) /\ written' \in SUBSET (1 .. Len(log'))
    BY <1>1, <1>2, ChangePublishes DEF TypeOK
  <2> QED
    BY <1>1, <1>2, <2>1, <2>2 DEF TypeOK
<1>5. \A q \in Participants : q # p => \A i : /\ IsFirst(i, q)' <=> IsFirst(i, q)
                                              /\ IsLast(i, q)' <=> IsLast(i, q)
  BY <1>1, ChangePublishes DEF IsFirst, IsLast
<1>6. IsLast(n, p)' /\ (\A i : IsLast(i, p)' => i = n)
  BY <1>1, ChangePublishes DEF IsLast
<1>7. \A i \in 1 .. Len(log) : IsFirst(i, p)' <=> IsFirst(i, p)
  BY <1>1, ChangePublishes DEF IsFirst
<1>8. IsFirst(n, p)' <=> version[p] = 0
  <2>1. CASE version[p] = 0
    <3>1. EventsOf(p)' = {n}
      BY <2>1, <1>1, ChangePublishes DEF LogInOrder
    <3> QED
      BY <2>1, <3>1, <1>1 DEF IsFirst
  <2>2. CASE version[p] # 0
    BY <2>2, <1>1, ChangePublishes DEF IsFirst, LogInOrder
  <2> QED
    BY <2>1, <2>2
<1>9. LogInOrder'
  <2>1. \A q \in Participants : q # p =>
          \A i \in EventsOf(q) : log'[i].actionName = log[i].actionName
    BY <1>1, ChangePublishes
  <2>2. ASSUME NEW q \in Participants, q # p
        PROVE  (/\ version[q] = 0 => EventsOf(q) = {}
                /\ version[q] # 0 => /\ \E i \in EventsOf(q) : IsFirst(i, q)
                                     /\ \E i \in EventsOf(q) : IsLast(i, q)
                /\ \A i \in EventsOf(q) : log[i].actionName = Created <=> IsFirst(i, q))'
    BY <2>1, <2>2, <1>1, <1>3, <1>5, ChangePublishes DEF LogInOrder
  <2>3. /\ version'[p] # 0
        /\ \E i \in EventsOf(p)' : IsLast(i, p)'
    BY <1>3, <1>6, ChangePublishes, <1>1
  <2>4. \E i \in EventsOf(p)' : IsFirst(i, p)'
    <3>1. CASE version[p] = 0
      BY <3>1, <1>8, ChangePublishes, <1>1
    <3>2. CASE version[p] # 0
      <4>1. PICK i \in EventsOf(p) : IsFirst(i, p)
        BY <3>2, <1>1 DEF LogInOrder
      <4>2. i \in EventsOf(p)' /\ IsFirst(i, p)'
        BY <4>1, <1>1, <1>7, ChangePublishes
      <4> QED
        BY <4>2
    <3> QED
      BY <3>1, <3>2
  <2>5. \A i \in EventsOf(p) : log'[i].actionName = Created <=> IsFirst(i, p)'
    BY <1>1, <1>7, ChangePublishes DEF LogInOrder
  <2>6. log'[n].actionName = Created <=> IsFirst(n, p)'
    BY <1>1, <1>8, ChangePublishes
  <2>7. \A i \in EventsOf(p)' : log'[i].actionName = Created <=> IsFirst(i, p)'
    BY <2>5, <2>6, <1>1, ChangePublishes
  <2> QED
    BY <2>2, <2>3, <2>4, <2>7 DEF LogInOrder
<1>10. PositionsInOrder'
  BY <1>1, <1>2, ChangePublishes DEF IInv, PositionsInOrder, TypeOK
<1>11. FetchedInOrder'
  <2> SUFFICES ASSUME stage' = "write"
               PROVE  (/\ fetched \in 1 .. version[Participant]
                       /\ participants[Participant] <= fetched
                       /\ IsLast(offset + 1, Participant) => fetched = version[Participant])'
    BY DEF FetchedInOrder
  <2>1. stage = "write" /\ offset < Len(log)
    BY <1>2 DEF IInv, PositionsInOrder
  <2>2. offset + 1 \in 1 .. Len(log) /\ Participant \in Participants
    BY <2>1, <1>1, CurrentIsEvent
  <2>3. Participant' = Participant
    BY <2>2, <1>1, <1>2, ChangePublishes DEF Participant, Current
  <2>4. version'[Participant] >= version[Participant] /\ version[Participant] \in Nat
    <3>1. version[Participant] \in Nat
      BY <2>2, <1>1 DEF TypeOK, Versions
    <3> HIDE DEF Participant
    <3> QED
      BY <2>2, <3>1, <1>3
  <2>5. IsLast(offset + 1, Participant)' => Participant # p /\ IsLast(offset + 1, Participant)
    BY <2>2, <2>3, <1>1, <1>2, <1>5, <1>6
  <2>6. /\ fetched \in 1 .. version[Participant] /\ participants[Participant] <= fetched
        /\ IsLast(offset + 1, Participant) => fetched = version[Participant]
    BY <2>1 DEF IInv, FetchedInOrder
  <2>7. Participant # p => version'[Participant] = version[Participant]
    BY <2>2, <1>3
  <2>8. fetched \in 1 .. version'[Participant]
    BY <2>4, <2>6, <2>2, <2>7, <1>3
  <2> QED
    BY <2>3, <2>5, <2>6, <2>7, <2>8, <1>2
<1>12. \A q \in Participants : DocumentInOrder(q)'
  <2>1. written \subseteq 1 .. Len(log) /\ n \notin written
    BY <1>1 DEF TypeOK
  <2>2. ASSUME NEW q \in Participants, q # p
        PROVE  DocumentInOrder(q)'
    <3>1. OnlyCreationWritten(q)' <=> OnlyCreationWritten(q)
      BY <2>2, <1>1, <1>2, <1>5, ChangePublishes DEF OnlyCreationWritten
    <3> QED
      BY <2>2, <3>1, <1>2, <1>3, <1>5 DEF IInv, DocumentInOrder, ApprovedDate
  <2>3. DocumentInOrder(p)'
    <3>1. participants'[p] <= version'[p]
      BY <1>1, <1>2, <1>3 DEF IInv, TypeOK, DocumentInOrder, Versions
    <3>2. participants'[p] # 0 <=> \E i \in written' : IsFirst(i, p)'
      BY <2>1, <1>2, <1>7 DEF IInv, DocumentInOrder
    <3>3. ~ \E i \in written' : IsLast(i, p)'
      BY <2>1, <1>2, <1>6
    <3>4. OnlyCreationWritten(p)' <=> OnlyCreationWritten(p)
      <4>1. (EventsOf(p) \intersect written)' = EventsOf(p) \intersect written
        BY <2>1, <1>1, <1>2, ChangePublishes
      <4> QED
        BY <4>1, <2>1, <1>7 DEF OnlyCreationWritten
    <3>5. UNCHANGED <<participants[p], lastUpdated[p]>> /\ DocumentInOrder(p)
      BY <1>2 DEF IInv
    <3> QED
      BY <3>1, <3>2, <3>3, <3>4, <3>5 DEF DocumentInOrder, ApprovedDate
  <2> QED
    BY <2>2, <2>3
<1> QED
  BY <1>4, <1>9, <1>10, <1>11, <1>12 DEF IInv

(* The consumer starts, commits, crashes or gives a message up: neither the
   participants nor their documents change, and nothing is written. *)
LEMMA ConsumerKeepsIInv ==
  ASSUME IInv, Start \/ Commit \/ Crash \/ HandlingFails
  PROVE  IInv'
<1> USE DEF Start, Commit, Crash, HandlingFails, historyVars, collectionVars
<1>1. /\ UNCHANGED <<version, log, participants, unlisted, lastUpdated, written>>
      /\ stage' # "write"
  OBVIOUS
<1>2. offset \in Nat /\ Len(log) \in Nat
  BY Positions DEF IInv, TypeOK
<1>3. (stage \in {"write", "handled"}) => offset < Len(log)
  BY DEF IInv, PositionsInOrder
<1>4. TypeOK'
  <2>1. failed' \subseteq failed \union {offset + 1} /\ (failed' # failed => offset < Len(log))
    BY <1>3
  <2>2. offset < Len(log) => offset + 1 \in 1 .. Len(log)
    BY <1>2
  <2>3. failed' \in SUBSET (1 .. Len(log))
    BY <2>1, <2>2 DEF IInv, TypeOK
  <2>4. /\ offset' \in Nat /\ fetched' \in Versions
        /\ crashes' \in Nat /\ failures' \in Nat
        /\ stage' \in {"down", "idle", "write", "handled"}
    BY <1>2, ParticipantsBoundsAssumption DEF IInv, TypeOK, Versions
  <2> QED
    BY <2>3, <2>4, <1>1 DEF IInv, TypeOK
<1>5. LogInOrder'
  BY <1>1, LogStays DEF IInv, LogInOrder
<1>6. PositionsInOrder'
  <2>1. CASE Start \/ Crash
    BY <2>1, <1>2 DEF IInv, PositionsInOrder
  <2>2. CASE Commit
    <3>1. 1 .. offset + 1 = (1 .. offset) \union {offset + 1}
      BY <1>2
    <3> QED
      BY <2>2, <3>1, <1>2 DEF IInv, PositionsInOrder
  <2>3. CASE HandlingFails
    BY <2>3, <1>2 DEF IInv, PositionsInOrder
  <2> QED
    BY <2>1, <2>2, <2>3
<1>7. FetchedInOrder'
  BY <1>1 DEF FetchedInOrder
<1>8. \A p \in Participants : DocumentInOrder(p)'
  BY <1>1, LogStays DEF IInv, DocumentInOrder, ApprovedDate
<1> QED
  BY <1>4, <1>5, <1>6, <1>7, <1>8 DEF IInv

(* The handler fetches the participant as it is now. *)
LEMMA FetchKeepsIInv ==
  ASSUME IInv, GetParticipantInfo
  PROVE  IInv'
<1> USE DEF GetParticipantInfo, historyVars, collectionVars
<1>1. /\ UNCHANGED <<version, log, offset, written, failed, crashes, failures>>
      /\ UNCHANGED <<participants, unlisted, lastUpdated>>
      /\ stage = "idle" /\ stage' = "write" /\ offset < Len(log)
      /\ fetched' = version[Participant]
  OBVIOUS
<1>2. Participant \in Participants /\ offset + 1 \in EventsOf(Participant)
  BY <1>1, CurrentIsEvent DEF IInv
<1>3. version[Participant] \in Versions /\ version[Participant] # 0
  BY <1>2 DEF IInv, TypeOK, LogInOrder
<1>4. TypeOK'
  BY <1>1, <1>3 DEF IInv, TypeOK
<1>5. LogInOrder'
  BY <1>1, LogStays DEF IInv, LogInOrder
<1>6. PositionsInOrder'
  BY <1>1 DEF IInv, PositionsInOrder
<1>7. FetchedInOrder'
  <2>1. Participant' = Participant
    BY <1>1 DEF Participant, Current
  <2>2. version[Participant] \in 1 .. version[Participant]
    BY <1>3 DEF Versions
  <2>3. participants[Participant] <= version[Participant]
    BY <1>2 DEF IInv, DocumentInOrder
  <2> QED
    BY <1>1, <2>1, <2>2, <2>3 DEF FetchedInOrder
<1>8. \A p \in Participants : DocumentInOrder(p)'
  BY <1>1, LogStays DEF IInv, DocumentInOrder, ApprovedDate
<1> QED
  BY <1>4, <1>5, <1>6, <1>7, <1>8 DEF IInv

(* A write never takes a document back, and after the write of the last event
   of a participant its document, if there is one, is up to date, as far as
   store() writes it. *)
LEMMA WriteIsCurrent ==
  ASSUME IInv, Create \/ Store
  PROVE  /\ \A p \in Participants : p # Participant => participants'[p] = participants[p]
         /\ participants'[Participant] \in Versions
         /\ participants'[Participant] >= participants[Participant]
         /\ participants'[Participant] <= version[Participant]
         /\ participants'[Participant] # 0
              <=> participants[Participant] # 0 \/ IsFirst(offset + 1, Participant)
         /\ participants'[Participant] = participants[Participant]
              \/ participants'[Participant] = fetched
         /\ participants'[Participant] # 0 /\ IsLast(offset + 1, Participant)
              => participants'[Participant] = version[Participant]
         /\ DOMAIN participants' = Participants
<1> DEFINE q == Participant
<1>1. stage = "write" /\ offset < Len(log)
  BY DEF Create, Store, IInv, PositionsInOrder
<1>2. q \in Participants /\ offset + 1 \in EventsOf(q)
  BY <1>1, CurrentIsEvent DEF IInv
<1>3. /\ fetched \in 1 .. version[q] /\ participants[q] <= fetched
      /\ IsLast(offset + 1, q) => fetched = version[q]
  BY <1>1 DEF IInv, FetchedInOrder
<1>4. /\ version[q] \in Nat /\ participants[q] \in Nat /\ fetched \in Nat /\ fetched # 0
      /\ participants[q] \in Versions /\ fetched \in Versions
      /\ participants \in [Participants -> Versions]
  BY <1>2, <1>3, ParticipantsBoundsAssumption DEF IInv, TypeOK, Versions
<1>5. Current.actionName = Created <=> IsFirst(offset + 1, q)
  BY <1>2 DEF IInv, LogInOrder, Current
<1>6. /\ participants[q] # 0 <=> \E i \in written : IsFirst(i, q)
      /\ participants[q] # 0 /\ (\E i \in written : IsLast(i, q))
           => participants[q] = version[q]
  BY <1>2 DEF IInv, DocumentInOrder
<1> HIDE DEF q
<1>7. CASE Create
  <2>1. IsFirst(offset + 1, q)
    BY <1>7, <1>5 DEF Create
  <2>2. CASE participants[q] # 0
    <3>1. participants' = participants
      BY <1>7, <2>2 DEF Create, q, collectionVars
    <3>2. offset + 1 \in written
      BY <2>1, <2>2, <1>6, OneFirst DEF IInv
    <3>3. IsLast(offset + 1, q) => participants[q] = version[q]
      BY <3>2, <2>2, <1>6
    <3> QED
      BY <3>1, <3>3, <2>1, <2>2, <1>2, <1>3, <1>4 DEF q
  <2>3. CASE participants[q] = 0
    <3>1. participants' = [participants EXCEPT ![q] = fetched]
      BY <1>7, <2>3 DEF Create, Insert, q
    <3>2. /\ participants'[q] = fetched /\ DOMAIN participants' = Participants
          /\ \A p \in Participants : p # q => participants'[p] = participants[p]
      BY <3>1, <1>2, <1>4
    <3> QED
      BY <3>2, <2>1, <2>3, <1>3, <1>4 DEF q
  <2> QED
    BY <2>2, <2>3
<1>8. CASE Store
  <2>1. ~IsFirst(offset + 1, q)
    BY <1>8, <1>5 DEF Store, Changed, Created
  <2>2. CASE participants[q] = 0
    <3>1. participants' = participants
      BY <1>8, <2>2 DEF Store, q, collectionVars
    <3> QED
      BY <3>1, <2>1, <2>2, <1>2, <1>3, <1>4 DEF q
  <2>3. CASE participants[q] # 0
    <3>1. participants' = [participants EXCEPT ![q] = fetched]
      BY <1>8, <2>3 DEF Store, Update, q
    <3>2. /\ participants'[q] = fetched /\ DOMAIN participants' = Participants
          /\ \A p \in Participants : p # q => participants'[p] = participants[p]
      BY <3>1, <1>2, <1>4
    <3> QED
      BY <3>2, <2>1, <2>3, <1>3, <1>4 DEF q
  <2> QED
    BY <2>2, <2>3
<1> QED
  BY <1>7, <1>8

(* What a write makes of lastUpdated, and of the fields that store() leaves. *)
LEMMA WriteOfTheOthers ==
  ASSUME IInv, Create \/ Store
  PROVE  /\ \A p \in Participants : p # Participant => lastUpdated'[p] = lastUpdated[p]
         /\ unlisted' \in [Participants -> Versions]
         /\ lastUpdated' \in [Participants -> Versions]
         /\ \A p \in Participants : participants[p] # 0 => unlisted'[p] = unlisted[p]
         /\ participants'[Participant] = 0 => lastUpdated'[Participant] = 0
         /\ participants'[Participant] # 0 /\ IsFirst(offset + 1, Participant) =>
              \/ /\ participants[Participant] = 0
                 /\ lastUpdated'[Participant] = participants'[Participant]
              \/ /\ participants[Participant] # 0
                 /\ participants'[Participant] = participants[Participant]
                 /\ lastUpdated'[Participant] = lastUpdated[Participant]
         /\ participants'[Participant] # 0 /\ ~IsFirst(offset + 1, Participant) =>
              lastUpdated'[Participant]
                = ApprovedDate(Participant, participants'[Participant])
<1> DEFINE q == Participant
<1>1. stage = "write" /\ offset < Len(log)
  BY DEF Create, Store, IInv, PositionsInOrder
<1>2. q \in Participants /\ offset + 1 \in EventsOf(q)
  BY <1>1, CurrentIsEvent DEF IInv
<1>3. /\ fetched \in Versions /\ 0 \in Versions /\ fetched \in Nat /\ fetched # 0
      /\ participants \in [Participants -> Versions]
      /\ unlisted \in [Participants -> Versions]
      /\ lastUpdated \in [Participants -> Versions]
  <2>1. fetched # 0
    BY <1>1, <1>2 DEF IInv, FetchedInOrder
  <2> QED
    BY <2>1, ParticipantsBoundsAssumption DEF IInv, TypeOK, Versions
<1>4. ApprovedDate(q, fetched) \in Versions
  BY <1>2, <1>3, ApprovalAssumption, ParticipantsBoundsAssumption DEF ApprovedDate, Versions
<1>5. Current.actionName = Created <=> IsFirst(offset + 1, q)
  BY <1>2 DEF IInv, LogInOrder, Current
<1>6. participants[q] = 0 => lastUpdated[q] = 0
  BY <1>2 DEF IInv, DocumentInOrder
<1> HIDE DEF q
<1>7. CASE Create
  <2>1. IsFirst(offset + 1, q)
    BY <1>7, <1>5 DEF Create
  <2>2. CASE participants[q] = 0
    BY <1>7, <1>2, <1>3, <2>1, <2>2 DEF Create, Insert, q
  <2>3. CASE participants[q] # 0
    BY <1>7, <1>2, <1>3, <2>1, <2>3 DEF Create, q, collectionVars
  <2> QED
    BY <2>2, <2>3
<1>8. CASE Store
  <2>1. ~IsFirst(offset + 1, q)
    BY <1>8, <1>5 DEF Store, Changed, Created
  <2>2. CASE participants[q] = 0
    BY <1>8, <1>2, <1>3, <1>6, <2>1, <2>2 DEF Store, q, collectionVars
  <2>3. CASE participants[q] # 0
    <3>1. /\ participants' = [participants EXCEPT ![q] = fetched]
          /\ lastUpdated' = [lastUpdated EXCEPT ![q] = ApprovedDate(q, fetched)]
          /\ unlisted' = unlisted
      BY <1>8, <2>3 DEF Store, Update, q
    <3>2. participants'[q] = fetched /\ lastUpdated'[q] = ApprovedDate(q, fetched)
      BY <3>1, <1>2, <1>3
    <3> QED
      BY <3>1, <3>2, <1>2, <1>3, <1>4, <2>1 DEF q
  <2> QED
    BY <2>2, <2>3
<1> QED
  BY <1>7, <1>8

(* The handler writes the document. *)
LEMMA WriteKeepsIInv ==
  ASSUME IInv, Create \/ Store
  PROVE  IInv'
<1>0. PICK q \in Participants : q = Participant
  BY CurrentIsEvent DEF IInv, PositionsInOrder, Create, Store
<1>1. /\ UNCHANGED <<version, log, offset, failed, crashes, failures>>
      /\ stage = "write" /\ stage' = "handled" /\ fetched' = 0
      /\ written' = written \union {offset + 1}
      /\ \E p \in Participants : participants' \in {participants,
                                   [participants EXCEPT ![p] = fetched]}
  BY <1>0 DEF Create, Store, Insert, Update, Written, collectionVars
<1>2. offset < Len(log) /\ offset \in Nat /\ Len(log) \in Nat
  BY <1>1, Positions DEF IInv, PositionsInOrder, TypeOK
<1>3. q \in Participants /\ offset + 1 \in EventsOf(q) /\ offset + 1 \in 1 .. Len(log)
  BY <1>0, <1>2, CurrentIsEvent DEF IInv
<1>4. TypeOK'
  <2>1. /\ unlisted' \in [Participants -> Versions] /\ lastUpdated' \in [Participants -> Versions]
        /\ participants' \in [Participants -> Versions]
    BY <1>1, WriteOfTheOthers DEF IInv, TypeOK
  <2>2. written' \in SUBSET (1 .. Len(log))
    BY <1>1, <1>3 DEF IInv, TypeOK
  <2>3. 0 \in Versions
    BY ParticipantsBoundsAssumption DEF Versions
  <2>4. /\ version' \in [Participants -> Versions] /\ log' \in Seq(Events)
        /\ offset' \in Nat /\ crashes' \in Nat /\ failures' \in Nat
    BY <1>1 DEF IInv, TypeOK
  <2>5. failed' \in SUBSET (1 .. Len(log'))
    BY <1>1 DEF IInv, TypeOK
  <2>6. /\ stage' \in {"down", "idle", "write", "handled"} /\ fetched' \in Versions
        /\ written' \in SUBSET (1 .. Len(log'))
    BY <1>1, <2>2, <2>3
  <2> QED
    BY <2>1, <2>4, <2>5, <2>6 DEF TypeOK
<1>5. LogInOrder'
  BY <1>1, LogStays DEF IInv, LogInOrder
<1>6. PositionsInOrder'
  BY <1>1, <1>2 DEF IInv, PositionsInOrder
<1>7. FetchedInOrder'
  BY <1>1 DEF FetchedInOrder
<1>8. ASSUME NEW p \in Participants, p # q
      PROVE  DocumentInOrder(p)'
  <2>1. offset + 1 \notin EventsOf(p)
    BY <1>3, <1>8, Positions DEF IInv
  <2>2. ~IsFirst(offset + 1, p) /\ ~IsLast(offset + 1, p)
    BY <2>1 DEF IsFirst, IsLast
  <2>3. participants'[p] = participants[p] /\ lastUpdated'[p] = lastUpdated[p]
    BY <1>0, <1>8, WriteIsCurrent, WriteOfTheOthers
  <2>4. OnlyCreationWritten(p)' <=> OnlyCreationWritten(p)
    BY <2>1, <1>1, LogStays DEF OnlyCreationWritten
  <2> QED
    BY <2>2, <2>3, <2>4, <1>1, LogStays DEF IInv, DocumentInOrder, ApprovedDate
<1>9. DocumentInOrder(q)
  BY <1>3 DEF IInv
<1>10. participants'[q] <= version'[q]
  BY <1>0, <1>1, WriteIsCurrent
<1>11. \A i \in written : i \in Nat /\ i <= offset + 1
  BY <1>2 DEF IInv, TypeOK, PositionsInOrder
<1>12. DocumentInOrder(q)'
  <2>1. participants'[q] # 0 <=> \E i \in written' : IsFirst(i, q)'
    BY <1>0, <1>1, <1>9, LogStays, WriteIsCurrent DEF DocumentInOrder
  <2>2. ASSUME participants'[q] # 0, NEW i \in written', IsLast(i, q)
        PROVE  participants'[q] = version[q]
    <3>1. i <= offset + 1 /\ offset + 1 <= i /\ i \in Nat
      BY <2>2, <1>1, <1>2, <1>3, <1>4 DEF IInv, PositionsInOrder, IsLast, TypeOK
    <3>2. i = offset + 1
      BY <3>1, <1>2
    <3> QED
      BY <1>0, <2>2, <3>2, WriteIsCurrent
  <2>3. participants'[q] = 0 => lastUpdated'[q] = 0
    BY <1>0, WriteOfTheOthers
  <2>4. ASSUME participants'[q] # 0
        PROVE  lastUpdated'[q] = IF OnlyCreationWritten(q)' THEN participants'[q]
                                 ELSE ApprovedDate(q, participants'[q])
    <3>1. CASE IsFirst(offset + 1, q)
      <4>1. OnlyCreationWritten(q)' <=> OnlyCreationWritten(q)
        BY <3>1, <1>1, LogStays DEF OnlyCreationWritten
      <4>2. CASE participants[q] # 0
        BY <4>1, <4>2, <3>1, <2>4, <1>0, <1>9, WriteOfTheOthers DEF DocumentInOrder
      <4>3. CASE participants[q] = 0
        <5>1. \A i \in EventsOf(q) \intersect written : i <= offset + 1 /\ offset + 1 <= i
          BY <3>1, <1>11 DEF IsFirst
        <5>2. \A i \in EventsOf(q) \intersect written : i = offset + 1
          BY <5>1, <1>2, <1>11
        <5>3. OnlyCreationWritten(q)
          BY <5>2, <3>1 DEF OnlyCreationWritten
        <5> QED
          BY <4>1, <4>3, <5>3, <3>1, <2>4, <1>0, WriteOfTheOthers
      <4> QED
        BY <4>2, <4>3
    <3>2. CASE ~IsFirst(offset + 1, q)
      <4>1. ~OnlyCreationWritten(q)'
        BY <3>2, <1>1, <1>3, LogStays DEF OnlyCreationWritten
      <4> QED
        BY <4>1, <3>2, <2>4, <1>0, WriteOfTheOthers
    <3> QED
      BY <3>1, <3>2
  <2> QED
    BY <2>1, <2>2, <2>3, <2>4, <1>1, <1>10, LogStays DEF DocumentInOrder, ApprovedDate
<1> QED
  BY <1>4, <1>5, <1>6, <1>7, <1>8, <1>12 DEF IInv

(* Every step keeps the invariant. *)
LEMMA NextKeepsIInv == IInv /\ [Next]_vars => IInv'
<1> SUFFICES ASSUME IInv, [Next]_vars PROVE IInv'
  OBVIOUS
<1>1. CASE Next
  BY <1>1, ChangeKeepsIInv, ConsumerKeepsIInv, FetchKeepsIInv, WriteKeepsIInv
     DEF Next, HandleEvent
<1>2. CASE UNCHANGED vars
  BY <1>2, LogStays DEF vars, historyVars, collectionVars, IInv, TypeOK, LogInOrder,
     PositionsInOrder, FetchedInOrder, DocumentInOrder, ApprovedDate, Participant, Current
<1> QED
  BY <1>1, <1>2

(* The invariant holds of every reachable state. *)
THEOREM IInvHolds == Spec => []IInv
BY InitIInv, NextKeepsIInv, PTL DEF Spec

(* When nothing is left to handle, what store() writes of a participant is as it
   is there, and lastUpdated is its approval date once it was changed, unless the
   first or the last event was lost. *)
THEOREM MirrorsHolds == Spec => []MirrorsWhenQuiet
<1>1. IInv => MirrorsWhenQuiet
  <2> SUFFICES ASSUME IInv, NEW p \in Participants, Quiet(p),
                      \A i \in Lost : ~IsFirst(i, p) /\ ~IsLast(i, p)
               PROVE  /\ participants[p] = version[p]
                      /\ lastUpdated[p] = IF OnlyCreated(p) THEN version[p]
                                          ELSE ApprovedDate(p, version[p])
    BY DEF MirrorsWhenQuiet
  <2>1. DocumentInOrder(p) /\ participants[p] \in Nat /\ version[p] \in Nat
    BY DEF IInv, TypeOK, Versions
  <2>2. CASE version[p] = 0
    <3>1. participants[p] = 0 /\ lastUpdated[p] = 0
      BY <2>1, <2>2 DEF DocumentInOrder
    <3>2. OnlyCreated(p)
      BY <2>2 DEF IInv, LogInOrder, OnlyCreated
    <3> QED
      BY <2>2, <3>1, <3>2
  <2>3. CASE version[p] # 0
    <3>1. PICK i \in EventsOf(p) : IsFirst(i, p)
      BY <2>3 DEF IInv, LogInOrder
    <3>2. PICK j \in EventsOf(p) : IsLast(j, p)
      BY <2>3 DEF IInv, LogInOrder
    <3>3. {i, j} \subseteq written \union failed
      BY <3>1, <3>2 DEF Quiet, IInv, PositionsInOrder
    <3>4. i \in written /\ j \in written
      BY <3>1, <3>2, <3>3 DEF Lost
    <3>5. participants[p] # 0 /\ participants[p] = version[p]
      BY <2>1, <3>1, <3>2, <3>4 DEF DocumentInOrder
    <3>6. OnlyCreated(p) <=> OnlyCreationWritten(p)
      <4>1. OnlyCreated(p) => OnlyCreationWritten(p)
        BY <3>1 DEF OnlyCreated, OnlyCreationWritten
      <4>2. ASSUME OnlyCreationWritten(p)
            PROVE  OnlyCreated(p)
        <5>1. IsFirst(j, p)
          BY <4>2, <3>2, <3>4 DEF OnlyCreationWritten
        <5>2. \A k \in EventsOf(p) : k <= j /\ j <= k /\ k \in Nat
          BY <5>1, <3>2, Positions DEF IsFirst, IsLast, IInv
        <5>3. \A k \in EventsOf(p) : k = j
          BY <5>2, <3>2
        <5> QED
          BY <5>3 DEF OnlyCreated
      <4> QED
        BY <4>1, <4>2
    <3> QED
      BY <2>1, <3>5, <3>6 DEF DocumentInOrder
  <2> QED
    BY <2>2, <2>3
<1> QED
  BY <1>1, IInvHolds, PTL

(* A participant whose creation was lost never gets a document. *)
THEOREM LostCreateHolds == Spec => []LostCreateIsForEver
<1>1. IInv => LostCreateIsForEver
  <2> SUFFICES ASSUME IInv, NEW p \in Participants, NEW i \in Lost, IsFirst(i, p)
               PROVE  participants[p] = 0
    BY DEF LostCreateIsForEver
  <2>1. \A j \in written : ~IsFirst(j, p)
    BY OneFirst DEF Lost, IInv
  <2> QED
    BY <2>1 DEF IInv, DocumentInOrder
<1> QED
  BY <1>1, IInvHolds, PTL

(* What store() writes of a participant never goes back to an earlier state of
   it, and what it leaves out stays as it was inserted. *)
THEOREM NeverGoesBackHolds == Spec => NeverGoesBack
<1>1. IInv /\ [Next]_vars
        => [\A p \in Participants :
              /\ participants'[p] >= participants[p]
              /\ participants[p] # 0 => unlisted'[p] = unlisted[p]]_vars
  <2> SUFFICES ASSUME IInv, Next, NEW p \in Participants
               PROVE  /\ participants'[p] >= participants[p]
                      /\ participants[p] # 0 => unlisted'[p] = unlisted[p]
    OBVIOUS
  <2>1. participants[p] \in Nat
    BY DEF IInv, TypeOK, Versions
  <2>2. CASE Create \/ Store
    BY <2>1, <2>2, WriteIsCurrent, WriteOfTheOthers
  <2>3. CASE ~(Create \/ Store)
    <3>1. participants' = participants /\ unlisted' = unlisted
      BY <2>3 DEF Next, HandleEvent, Change, Start, Commit, Crash, HandlingFails,
                  GetParticipantInfo, collectionVars
    <3> QED
      BY <2>1, <3>1
  <2> QED
    BY <2>2, <2>3
<1> QED
  BY <1>1, IInvHolds, PTL DEF Spec, NeverGoesBack
=============================================================================
