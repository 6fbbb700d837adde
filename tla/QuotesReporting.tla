--------------------------- MODULE QuotesReporting ---------------------------
(***************************************************************************)
(* The quotes reporting service: a Kafka consumer that keeps the "quotes"  *)
(* collection of the reporting database with the events of the quoting     *)
(* bounded context.                                                        *)
(*                                                                         *)
(* The handler of a request calls addQuote without awaiting it: the        *)
(* message counts as handled while the find and the insert of addQuote are *)
(* still to happen, and nobody catches what it throws; an unhandled        *)
(* rejection ends the process (uncaughtException, process.exit(999)).      *)
(***************************************************************************)
EXTENDS Naturals, Sequences, FiniteSets

CONSTANTS Quotes,           \* the identifiers of quotes
          MaxCrashes,       \* bound: crashes of the service
          MaxFailures       \* bound: database calls that fail

ASSUME QuotesBoundsAssumption == MaxCrashes \in Nat /\ MaxFailures \in Nat

VARIABLES log,              \* the events published, in the order of the topic
          offset,           \* how many of them have a committed offset
          stage,            \* where the consumer's callback is
          adding,           \* how far the un-awaited addQuote of a quote is
          quotes,           \* the status column of the "quotes" collection
          crashes,          \* how often the service crashed
          failures,         \* how many database calls failed
          orphaned,         \* history: adds that died with their event committed
          overtaken,        \* history: quotes a response missed during the add
          failed            \* history: quotes whose update failed

historyVars == <<orphaned, overtaken, failed>>
vars == <<log, offset, stage, adding, quotes, crashes, failures, historyVars>>

Received  == "QuoteRequestReceivedEvt"
Responded == "QuoteResponseReceivedEvt"
Unhandled == "OtherEvt"     \* any other event of the topics

Events == [msgName : {Received, Responded, Unhandled}, quoteId : Quotes]

Event(name, q) == [msgName |-> name, quoteId |-> q]

Published == {log[i] : i \in DOMAIN log}
Committed == {log[i] : i \in 1 .. offset}

TypeOK == /\ log \in Seq(Events)
          /\ offset \in Nat
          /\ stage \in {"down", "idle", "update", "handled"}
          /\ adding \in [Quotes -> {"no", "find", "insert"}]
          /\ quotes \in [Quotes -> {"none", "PENDING", "ACCEPTED"}]
          /\ crashes \in Nat /\ failures \in Nat
          /\ orphaned \in SUBSET Quotes
          /\ overtaken \in SUBSET Quotes
          /\ failed \in SUBSET Quotes

Init == /\ log = <<>>
        /\ offset = 0
        /\ stage = "down"
        /\ adding = [q \in Quotes |-> "no"]
        /\ quotes = [q \in Quotes |-> "none"]
        /\ crashes = 0 /\ failures = 0
        /\ orphaned = {} /\ overtaken = {} /\ failed = {}

-----------------------------------------------------------------------------
(* The consumer. *)

(* The quoting bounded context publishes each event of a quote once, the
   request first. *)
Publish(e) == /\ e \notin Published
              /\ e.msgName # Received => Event(Received, e.quoteId) \in Published
              /\ log' = Append(log, e)
              /\ UNCHANGED <<offset, stage, adding, quotes, crashes, failures,
                             historyVars>>

Start == /\ stage = "down"
         /\ stage' = "idle"
         /\ UNCHANGED <<log, offset, adding, quotes, crashes, failures, historyVars>>

(* The callback resolved, the consumer commits the offset. *)
Commit == /\ stage = "handled"
          /\ offset' = offset + 1
          /\ stage' = "idle"
          /\ UNCHANGED <<log, adding, quotes, crashes, failures, historyVars>>

(* The process ends, with every add that is in flight. *)
Exit == /\ stage' = "down"
        /\ adding' = [q \in Quotes |-> "no"]
        /\ orphaned' = orphaned \union
             {q \in Quotes : adding[q] # "no" /\ Event(Received, q) \in Committed}
        /\ UNCHANGED <<log, offset, quotes, overtaken, failed>>

Crash == /\ stage # "down"
         /\ crashes < MaxCrashes
         /\ crashes' = crashes + 1
         /\ UNCHANGED failures
         /\ Exit

-----------------------------------------------------------------------------
(* The handlers of the messages. *)

Handling(step, name) == /\ stage = step
                        /\ offset < Len(log)
                        /\ log[offset + 1].msgName = name

Quote == log[offset + 1].quoteId

(* handleQuoteRequestReceivedEvt starts addQuote and returns. *)
HandleRequest == /\ Handling("idle", Received)
                 /\ adding' = [adding EXCEPT ![Quote] = "find"]
                 /\ stage' = "handled"
                 /\ UNCHANGED <<log, offset, quotes, crashes, failures, historyVars>>

(* updateQuote finds the quote and goes on to update it. *)
FindQuote == /\ Handling("idle", Responded)
             /\ quotes[Quote] # "none"
             /\ stage' = "update"
             /\ UNCHANGED <<log, offset, adding, quotes, crashes, failures,
                            historyVars>>

(* Mutant of QuoteNotFound: the message is kept until the quote is there. *)
AwaitQuote == /\ Handling("idle", Responded)
              /\ quotes[Quote] = "none"
              /\ UNCHANGED vars

(* updateQuote: "Quote not found", logged; the response is not kept. *)
QuoteNotFound == /\ Handling("idle", Responded)
                 /\ quotes[Quote] = "none"
                 /\ stage' = "handled"
                 /\ overtaken' = IF adding[Quote] = "no" THEN overtaken
                                 ELSE overtaken \union {Quote}
                 /\ UNCHANGED <<log, offset, adding, quotes, crashes, failures,
                                orphaned, failed>>

(* Mutant of UpdateQuote: the status is not that of an accepted quote. *)
UpdateQuotePending == /\ Handling("update", Responded)
                      /\ quotes' = [quotes EXCEPT ![Quote] = "PENDING"]
                      /\ stage' = "handled"
                      /\ UNCHANGED <<log, offset, adding, crashes, failures,
                                     historyVars>>

UpdateQuote == /\ Handling("update", Responded)
               /\ quotes' = [quotes EXCEPT ![Quote] = "ACCEPTED"]
               /\ stage' = "handled"
               /\ UNCHANGED <<log, offset, adding, crashes, failures, historyVars>>

(* A call of updateQuote fails, which the handler logs. *)
UpdateFails == /\ Handling("idle", Responded) \/ Handling("update", Responded)
               /\ failures < MaxFailures
               /\ failures' = failures + 1
               /\ failed' = failed \union {Quote}
               /\ stage' = "handled"
               /\ UNCHANGED <<log, offset, adding, quotes, crashes, orphaned, overtaken>>

IgnoreEvent == /\ Handling("idle", Unhandled)
               /\ stage' = "handled"
               /\ UNCHANGED <<log, offset, adding, quotes, crashes, failures,
                              historyVars>>

-----------------------------------------------------------------------------
(* addQuote, running beside the consumer. *)

FindsNone(q) == /\ adding[q] = "find"
                /\ quotes[q] = "none"
                /\ adding' = [adding EXCEPT ![q] = "insert"]
                /\ UNCHANGED <<log, offset, stage, quotes, crashes, failures,
                               historyVars>>

(* Mutant of InsertQuote: the add is retried as a replacement of the quote. *)
ReplaceQuote(q) == /\ adding[q] # "no"
                   /\ quotes' = [quotes EXCEPT ![q] = "PENDING"]
                   /\ adding' = [adding EXCEPT ![q] = "no"]
                   /\ UNCHANGED <<log, offset, stage, crashes, failures, historyVars>>

InsertQuote(q) == /\ adding[q] = "insert"
                  /\ quotes[q] = "none"
                  /\ quotes' = [quotes EXCEPT ![q] = "PENDING"]
                  /\ adding' = [adding EXCEPT ![q] = "no"]
                  /\ UNCHANGED <<log, offset, stage, crashes, failures, historyVars>>

(* QuoteAlreadyExistsError of the check, or of the unique index: unhandled. *)
QuoteAlreadyExists(q) == /\ adding[q] # "no"
                         /\ quotes[q] # "none"
                         /\ UNCHANGED <<crashes, failures>>
                         /\ Exit

(* Mutant of AddFails: the error is swallowed, as in the other handlers. *)
AddFailsSilently(q) == /\ adding[q] # "no"
                       /\ failures < MaxFailures
                       /\ failures' = failures + 1
                       /\ adding' = [adding EXCEPT ![q] = "no"]
                       /\ UNCHANGED <<log, offset, stage, quotes, crashes, historyVars>>

(* A call of addQuote fails: unhandled as well. *)
AddFails(q) == /\ adding[q] # "no"
               /\ failures < MaxFailures
               /\ failures' = failures + 1
               /\ UNCHANGED crashes
               /\ Exit

-----------------------------------------------------------------------------
HandleEvent == \/ HandleRequest \/ FindQuote \/ QuoteNotFound \/ UpdateQuote
               \/ IgnoreEvent

AddQuote(q) == FindsNone(q) \/ InsertQuote(q) \/ QuoteAlreadyExists(q)

Next == \/ \E e \in Events : Publish(e)
        \/ Start \/ Commit \/ Crash
        \/ HandleEvent \/ UpdateFails
        \/ \E q \in Quotes : AddQuote(q) \/ AddFails(q)

Spec == Init /\ [][Next]_vars

(* The process is restarted, the consumer polls and commits, and database calls
   return.  Nothing is assumed of the race of a commit with the un-awaited add of
   the same message. *)
Fairness == /\ WF_vars(Start \/ HandleEvent)
            /\ WF_vars(Commit)
            /\ \A q \in Quotes : WF_vars(AddQuote(q))

FairSpec == Spec /\ Fairness

-----------------------------------------------------------------------------
(* Properties. *)

(* What the report lacks of the events committed has one of three causes: the
   process ended during the un-awaited addQuote, the response came during
   it, or the update itself failed.  In particular an exit or a crash before
   the commit loses nothing, and neither does a second delivery. *)
RequestIsKept(q) ==
  Event(Received, q) \in Committed =>
    quotes[q] # "none" \/ adding[q] # "no" \/ q \in orphaned

ResponseIsKept(q) ==
  Event(Responded, q) \in Committed =>
    quotes[q] = "ACCEPTED" \/ q \in orphaned \union overtaken \union failed

NothingElseIsLost == \A q \in Quotes : RequestIsKept(q) /\ ResponseIsKept(q)

(* An accepted quote stays accepted, although the add of a request delivered
   again runs beside the handling of its response. *)
AcceptedIsKept ==
  [][\A q \in Quotes : quotes[q] = "ACCEPTED" => quotes'[q] = "ACCEPTED"]_vars

(* The next message is a request whose quote is stored: its second delivery ends
   the process if the find of addQuote returns before the offset is committed. *)
RedeliversStored ==
  /\ offset < Len(log)
  /\ log[offset + 1].msgName = Received
  /\ quotes[Quote] # "none"

(* The service gets past every event, in spite of its crashes and exits, unless it
   stays for ever at a request that was stored before: no response, no message of
   another kind and no request that is still to be stored can hold it up. *)
CatchesUp ==
  \A e \in Events : (e \in Published ~> e \in Committed) \/ <>[]RedeliversStored

(* The data of the bounded contexts is "persisted, and kept up to date"
   (README.md): the response of a quote comes to be reported. *)
ResponsesAreReported ==
  \A q \in Quotes : Event(Responded, q) \in Published ~> quotes[q] = "ACCEPTED"

-----------------------------------------------------------------------------
(* The strengthening of NothingElseIsLost that every step preserves. *)

(* The log is one the quoting bounded context publishes. *)
LogInOrder ==
  /\ \A i, j \in 1 .. Len(log) : log[i] = log[j] => i = j
  /\ \A i \in 1 .. Len(log) : log[i].msgName # Received =>
       \E j \in 1 .. i - 1 : log[j] = Event(Received, log[i].quoteId)

(* The callback is at the message after the committed offset. *)
StageInOrder ==
  /\ offset <= Len(log)
  /\ stage = "handled" => offset < Len(log)
  /\ stage = "update" => Handling("update", Responded) /\ quotes[Quote] # "none"

(* Only requests that were handled since the start have an add in flight. *)
AddInOrder(q) ==
  adding[q] # "no" =>
    /\ stage # "down"
    /\ \/ Event(Received, q) \in Committed
       \/ Handling("handled", Received) /\ Quote = q

(* What the handler that is about to commit has done of its message. *)
HandledIsKept(q) ==
  /\ Handling("handled", Received) /\ Quote = q =>
       quotes[q] # "none" \/ adding[q] # "no"
  /\ Handling("handled", Responded) /\ Quote = q =>
       quotes[q] = "ACCEPTED" \/ q \in orphaned \union overtaken \union failed

IInv == /\ TypeOK
        /\ LogInOrder
        /\ StageInOrder
        /\ \A q \in Quotes : AddInOrder(q) /\ HandledIsKept(q)
        /\ NothingElseIsLost
=============================================================================
