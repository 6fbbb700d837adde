------------------------ MODULE ParticipantsReporting ------------------------
(***************************************************************************)
(* The participants reporting service: it mirrors the participants service *)
(* (external) in the "participant" collection of the reporting database.   *)
(* A ParticipantChangedEvt only says that a participant changed, and       *)
(* whether it was created; the handler asks the participants service for   *)
(* the participant as it is now, and inserts or updates the document.      *)
(*                                                                         *)
(* A participant is its version here: how many changes of it there were.   *)
(* A document is what three kinds of its fields are the versions of: those *)
(* that store() writes, those that it leaves out, and lastUpdated, which   *)
(* it writes with the approval date.                                       *)
(***************************************************************************)
EXTENDS Naturals, Sequences, FiniteSets

CONSTANTS Participants,     \* the identifiers of participants
          ApprovedAt,       \* the change of a participant that approves it
          MaxVersion,       \* bound: changes of one participant
          MaxCrashes,       \* bound: crashes of the service
          MaxFailures       \* bound: messages whose handling fails

ASSUME ApprovalAssumption == ApprovedAt \in [Participants -> Nat]
ASSUME ParticipantsBoundsAssumption ==
  MaxVersion \in Nat \ {0} /\ MaxCrashes \in Nat /\ MaxFailures \in Nat

VARIABLES version,          \* the participants of the participants service, 0: none
          log,              \* the events published, in the order of the topic
          offset,           \* how many of them have a committed offset
          stage,            \* where the consumer's callback is
          fetched,          \* the version of the participant fetched
          participants,     \* the "participant" collection, 0: no document;
                            \* the version of the fields that store() writes
          unlisted,         \* the version of the fields that it leaves out:
                            \* type, participantStatusChangeRequests
          lastUpdated,      \* the field of this name, 0: null
          crashes,          \* how often the service crashed
          failures,         \* how many messages failed
          failed,           \* history: events whose handling failed at some time
          written           \* history: events whose document was written once

historyVars == <<failed, written>>
collectionVars == <<participants, unlisted, lastUpdated>>
vars == <<version, log, offset, stage, fetched, collectionVars, crashes, failures,
          historyVars>>

Created == "PARTICIPANT_CREATED"
Changed == "other action"   \* any other ParticipantChangeTypes

Events == [actionName : {Created, Changed}, participantId : Participants]
Versions == 0 .. MaxVersion

TypeOK == /\ version \in [Participants -> Versions]
          /\ log \in Seq(Events)
          /\ offset \in Nat
          /\ stage \in {"down", "idle", "write", "handled"}
          /\ fetched \in Versions
          /\ participants \in [Participants -> Versions]
          /\ unlisted \in [Participants -> Versions]
          /\ lastUpdated \in [Participants -> Versions]
          /\ crashes \in Nat /\ failures \in Nat
          /\ failed \in SUBSET (1 .. Len(log))
          /\ written \in SUBSET (1 .. Len(log))

Init == /\ version = [p \in Participants |-> 0]
        /\ log = <<>>
        /\ offset = 0
        /\ stage = "down"
        /\ fetched = 0
        /\ participants = [p \in Participants |-> 0]
        /\ unlisted = [p \in Participants |-> 0]
        /\ lastUpdated = [p \in Participants |-> 0]
        /\ crashes = 0 /\ failures = 0
        /\ failed = {} /\ written = {}

-----------------------------------------------------------------------------
(* The participants service changes a participant and publishes the event. *)
Change(p) == /\ version[p] < MaxVersion
             /\ version' = [version EXCEPT ![p] = @ + 1]
             /\ log' = Append(log, [actionName |-> IF version[p] = 0 THEN Created
                                                   ELSE Changed,
                                    participantId |-> p])
             /\ UNCHANGED <<offset, stage, fetched, collectionVars, crashes, failures,
                            historyVars>>

Start == /\ stage = "down"
         /\ stage' = "idle"
         /\ UNCHANGED <<version, log, offset, fetched, collectionVars, crashes,
                        failures, historyVars>>

(* Mutant of Commit: the offset of the newest event is committed. *)
CommitNewest == /\ stage = "handled"
                /\ offset' = Len(log)
                /\ stage' = "idle"
                /\ UNCHANGED <<version, log, fetched, collectionVars, crashes,
                               failures, historyVars>>

Commit == /\ stage = "handled"
          /\ offset' = offset + 1
          /\ stage' = "idle"
          /\ UNCHANGED <<version, log, fetched, collectionVars, crashes, failures,
                         historyVars>>

Crash == /\ stage # "down"
         /\ crashes < MaxCrashes
         /\ crashes' = crashes + 1
         /\ stage' = "down"
         /\ fetched' = 0
         /\ UNCHANGED <<version, log, offset, collectionVars, failures,
                        historyVars>>

-----------------------------------------------------------------------------
(* handleParticipantChangedEvt. *)

Current == log[offset + 1]
Participant == Current.participantId

(* Mutant of GetParticipantInfo: the adapter answers from a cache. *)
GetCachedParticipant == /\ stage = "idle"
                        /\ offset < Len(log)
                        /\ fetched' \in 1 .. version[Participant]
                        /\ stage' = "write"
                        /\ UNCHANGED <<version, log, offset, collectionVars, crashes,
                                       failures, historyVars>>

GetParticipantInfo == /\ stage = "idle"
                      /\ offset < Len(log)
                      /\ fetched' = version[Participant]
                      /\ stage' = "write"
                      /\ UNCHANGED <<version, log, offset, collectionVars, crashes,
                                     failures, historyVars>>

Written == /\ stage' = "handled"
           /\ fetched' = 0
           /\ written' = written \union {offset + 1}
           /\ UNCHANGED <<version, log, offset, crashes, failures, failed>>

(* approvedDate of version v of a participant, 0: null. *)
ApprovedDate(p, v) == IF ApprovedAt[p] <= v THEN ApprovedAt[p] ELSE 0

(* create: insertOne of the participant; the unique index refuses a second
   document of it and the handler logs the error. *)
Insert(p) == /\ participants' = [participants EXCEPT ![p] = fetched]
             /\ unlisted' = [unlisted EXCEPT ![p] = fetched]
             /\ lastUpdated' = [lastUpdated EXCEPT ![p] = fetched]

Create == /\ stage = "write"
          /\ Current.actionName = Created
          /\ IF participants[Participant] = 0 THEN Insert(Participant)
             ELSE UNCHANGED collectionVars
          /\ Written

(* Mutant of Update: lastUpdated is left out of the list. *)
UpdateListed(p) == /\ participants' = [participants EXCEPT ![p] = fetched]
                   /\ UNCHANGED <<unlisted, lastUpdated>>

(* $set of a list of fields. *)
Update(p) == /\ participants' = [participants EXCEPT ![p] = fetched]
             /\ lastUpdated' = [lastUpdated EXCEPT ![p] = ApprovedDate(p, fetched)]
             /\ UNCHANGED unlisted

(* Mutant of Store: a participant without a document gets one. *)
StoreOrCreate == /\ stage = "write"
                 /\ Current.actionName = Changed
                 /\ Update(Participant)
                 /\ Written

(* store: updateOne without upsert; without a document nothing happens. *)
Store == /\ stage = "write"
         /\ Current.actionName = Changed
         /\ IF participants[Participant] # 0 THEN Update(Participant)
            ELSE UNCHANGED collectionVars
         /\ Written

(* The adapter answers null after an error, or the database call fails: the
   error is logged and the message counts as handled. *)
HandlingFails == /\ \/ stage = "idle" /\ offset < Len(log)
                    \/ stage = "write"
                 /\ failures < MaxFailures
                 /\ failures' = failures + 1
                 /\ failed' = failed \union {offset + 1}
                 /\ stage' = "handled"
                 /\ fetched' = 0
                 /\ UNCHANGED <<version, log, offset, collectionVars, crashes, written>>

-----------------------------------------------------------------------------
HandleEvent == GetParticipantInfo \/ Create \/ Store

Next == \/ \E p \in Participants : Change(p)
        \/ Start \/ HandleEvent \/ Commit \/ Crash \/ HandlingFails

Spec == Init /\ [][Next]_vars

(* The process is restarted, the consumer polls, calls return. *)
Fairness == WF_vars(Start \/ HandleEvent \/ Commit)

FairSpec == Spec /\ Fairness

-----------------------------------------------------------------------------
(* Properties. *)

EventsOf(p) == {i \in DOMAIN log : log[i].participantId = p}

(* The event was given up: it failed, and was not delivered again with
   success. *)
Lost == failed \ written

(* Nothing of p is left to handle. *)
Quiet(p) == EventsOf(p) \subseteq 1 .. offset

(* Event i of p is its first, that of its creation, or its last. *)
IsFirst(i, p) == i \in EventsOf(p) /\ \A j \in EventsOf(p) : i <= j
IsLast(i, p)  == i \in EventsOf(p) /\ \A j \in EventsOf(p) : j <= i

(* Of p there is nothing but its creation. *)
OnlyCreated(p) == \A i, j \in EventsOf(p) : i = j

(* When nothing is left to handle the fields that store() writes are those of
   the participant, and lastUpdated is its approval date if it was changed at
   all, unless the first or the last event was lost: whatever is delivered
   twice, changed between the fetch and the write, or lost in between is made
   good by the last event, because the handler fetches the participant and not
   what the event says. *)
MirrorsWhenQuiet ==
  \A p \in Participants :
    Quiet(p) /\ (\A i \in Lost : ~IsFirst(i, p) /\ ~IsLast(i, p))
      => /\ participants[p] = version[p]
         /\ lastUpdated[p] = IF OnlyCreated(p) THEN version[p]
                             ELSE ApprovedDate(p, version[p])

(* A participant whose creation was lost never gets a document, however often
   it changes: store has no upsert. *)
LostCreateIsForEver ==
  \A p \in Participants : \A i \in Lost : IsFirst(i, p) => participants[p] = 0

(* What store() writes of a participant, apart from lastUpdated, never goes
   back to an earlier state of it, not even when events are delivered again;
   and what it leaves out stays as it was inserted. *)
NeverGoesBack ==
  [][\A p \in Participants :
       /\ participants'[p] >= participants[p]
       /\ participants[p] # 0 => unlisted'[p] = unlisted[p]]_vars

(* Every state of a participant comes to be reported, or a later one, as far as
   store() writes it, unless one of its events was lost. *)
EveryChangeIsReported ==
  \A p \in Participants : \A v \in 1 .. MaxVersion :
    version[p] = v ~> participants[p] >= v \/ Lost \intersect EventsOf(p) # {}

-----------------------------------------------------------------------------
(* The strengthening of the invariants that every step preserves. *)

(* One event for each change, the creation first. *)
LogInOrder ==
  \A p \in Participants :
    /\ version[p] = 0 => EventsOf(p) = {}
    /\ version[p] # 0 => (\E i \in EventsOf(p) : IsFirst(i, p))
                         /\ (\E i \in EventsOf(p) : IsLast(i, p))
    /\ \A i \in EventsOf(p) : log[i].actionName = Created <=> IsFirst(i, p)

(* The events are handled one by one, in order. *)
PositionsInOrder ==
  /\ offset <= Len(log)
  /\ stage \in {"write", "handled"} => offset < Len(log)
  /\ 1 .. offset \subseteq written \union failed
  /\ stage = "handled" => offset + 1 \in written \union failed
  /\ written \union failed \subseteq 1 .. offset + 1

(* The version a handler has fetched is not older than the document, and for
   the last event it is the current one. *)
FetchedInOrder ==
  stage = "write" =>
    /\ fetched \in 1 .. version[Participant]
    /\ participants[Participant] <= fetched
    /\ IsLast(offset + 1, Participant) => fetched = version[Participant]

(* Of the events of p none but its creation has been written. *)
OnlyCreationWritten(p) == \A i \in EventsOf(p) \intersect written : IsFirst(i, p)

(* What the writes that were carried out say of the document. *)
DocumentInOrder(p) ==
  /\ participants[p] <= version[p]
  /\ participants[p] # 0 <=> \E i \in written : IsFirst(i, p)
  /\ participants[p] # 0 /\ (\E i \in written : IsLast(i, p))
       => participants[p] = version[p]
  /\ participants[p] = 0 => lastUpdated[p] = 0
  /\ participants[p] # 0 => lastUpdated[p] = IF OnlyCreationWritten(p) THEN participants[p]
                                             ELSE ApprovedDate(p, participants[p])

IInv == /\ TypeOK
        /\ LogInOrder
        /\ PositionsInOrder
        /\ FetchedInOrder
        /\ \A p \in Participants : DocumentInOrder(p)
=============================================================================
