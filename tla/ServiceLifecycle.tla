-------------------------- MODULE ServiceLifecycle --------------------------
(***************************************************************************)
(* The life of one process of any of the five services: Service.start()    *)
(* under its startup timer, the message being handled meanwhile, and       *)
(* Service.stop() as the signal handlers call it.                          *)
(*                                                                         *)
(* start() and stop() are sequences of awaited calls of other components   *)
(* (external: Kafka, MongoDB, the platform services).  Such a call can     *)
(* return, reject or hang.  What start() does between two awaited calls is *)
(* one step; a signal handler, a timer and the consumer come in between.   *)
(***************************************************************************)
EXTENDS Integers, Sequences

CONSTANTS Signals,          \* SIGINT and SIGTERM, each handled once
          MaxAdds           \* bound: adds that nobody awaits, at one time

ASSUME AddsAssumption == MaxAdds \in Nat

VARIABLES service,          \* which service the process runs
          returned,         \* how many awaited calls of start() returned
          stopAt,           \* per signal: the call of stop() it awaits, or 0
          destroyed,        \* what stop() has destroyed
          message,          \* the message the consumer handed over
          adds,             \* un-awaited adds whose message is committed
          exit,             \* the exit code, or Running
          failed,           \* history: a call rejected or start() timed out
          lost              \* history: an offset was committed in vain

vars == <<service, returned, stopAt, destroyed, message, adds, exit, failed, lost>>

(***************************************************************************)
(* The services.  "start" holds the calls start() awaits, "set" how many   *)
(* of them returned when the field of Service that stop() looks at is set, *)
(* and "stop" the fields in the order in which stop() destroys them.       *)
(***************************************************************************)

(* Mutant of TransfersService: the repository is closed first. *)
TransfersServiceClosesRepo ==
  [start |-> <<"logger", "repo", "handler", "express">>,
   set   |-> [logger |-> 1, consumer |-> 1, repo |-> 2, express |-> 3],
   stop  |-> <<"express", "repo", "consumer", "logger">>]

(* Mutant of TransfersService: the consumer is kept when it has started. *)
TransfersServiceKeepsConsumerLate ==
  [start |-> <<"logger", "repo", "handler", "express">>,
   set   |-> [logger |-> 1, consumer |-> 3, repo |-> 2, express |-> 3],
   stop  |-> <<"express", "consumer", "repo", "logger">>]

TransfersService ==
  [start |-> <<"logger", "repo", "handler", "express">>,
   set   |-> [logger |-> 1, consumer |-> 1, repo |-> 2, express |-> 3],
   stop  |-> <<"express", "consumer", "repo", "logger">>]

SettlementsService ==
  [start |-> <<"logger", "repo", "handler", "express">>,
   set   |-> [logger |-> 1, consumer |-> 1, handler |-> 2, express |-> 3],
   stop  |-> <<"express", "handler", "consumer", "logger">>]

QuotesService ==
  [start |-> <<"logger", "repo", "handler", "express">>,
   set   |-> [logger |-> 1, consumer |-> 1, handler |-> 2, express |-> 3],
   stop  |-> <<"express", "handler", "consumer", "logger">>]

ParticipantsService ==
  [start |-> <<"logger", "repo", "handler", "express">>,
   set   |-> [logger |-> 1, consumer |-> 1, handler |-> 2, express |-> 3],
   stop  |-> <<"express", "handler", "consumer", "logger">>]

ReportingAPI ==
  [start |-> <<"logger", "configInit", "configBootstrap", "configFetch", "audit",
               "authzBootstrap", "authzFetch", "authzInit", "tokenHelper", "repo",
               "express">>,
   set   |-> [logger |-> 1, repo |-> 9, express |-> 10],
   stop  |-> <<"express", "repo", "logger">>]

ScriptOf == [transfers |-> TransfersService, settlements |-> SettlementsService,
             quotes |-> QuotesService, participants |-> ParticipantsService,
             api |-> ReportingAPI]

Services == {"transfers", "settlements", "quotes", "participants", "api"}

Script == ScriptOf[service]

Running == -1
Fields == {"logger", "consumer", "repo", "handler", "express"}

TypeOK == /\ service \in Services
          /\ returned \in 0 .. Len(Script.start)
          /\ stopAt \in [Signals -> 0 .. Len(Script.stop)]
          /\ destroyed \in SUBSET Fields
          /\ message \in {"none", "handling", "adding", "written", "failed"}
          /\ adds \in Nat
          /\ exit \in {Running, 0, 9, 99, 999}
          /\ failed \in BOOLEAN /\ lost \in BOOLEAN

Init == /\ service \in Services
        /\ returned = 0
        /\ stopAt = [s \in Signals |-> 0]
        /\ destroyed = {}
        /\ message = "none"
        /\ adds = 0
        /\ exit = Running
        /\ failed = FALSE /\ lost = FALSE

Alive == exit = Running
Ready == returned = Len(Script.start)
IsSet(field) == returned >= Script.set[field]

-----------------------------------------------------------------------------
(* Service.start() *)

Starting == Alive /\ ~Ready

StartCallReturns == /\ Starting
                    /\ returned' = returned + 1
                    /\ UNCHANGED <<service, stopAt, destroyed, message, adds, exit,
                                   failed, lost>>

(* What start() rejects with nobody catches: it ends as an uncaught exception. *)
StartCallFails == /\ Starting
                  /\ exit' = 999 /\ failed' = TRUE
                  /\ UNCHANGED <<service, returned, stopAt, destroyed, message, adds, lost>>

(* The audit key is looked for as soon as the configuration is fetched. *)
MissingAuditKey == /\ Starting
                   /\ Script.start[returned + 1] = "configFetch"
                   /\ exit' = 9 /\ failed' = TRUE
                   /\ UNCHANGED <<service, returned, stopAt, destroyed, message, adds, lost>>

(* Mutant of TimerArmed: the timer is cleared before the server listens. *)
TimerArmedUntilExpress == returned < Len(Script.start) - 1

(* The startup timer is cleared after the last awaited call. *)
TimerArmed == ~Ready

StartTimesOut == /\ Alive /\ TimerArmed
                 /\ exit' = 999 /\ failed' = TRUE
                 /\ UNCHANGED <<service, returned, stopAt, destroyed, message, adds, lost>>

-----------------------------------------------------------------------------
(* Service.stop(), called by the handler of a signal. *)

(* Mutant of ToDestroy: the fields are not looked at first. *)
ToDestroyUnset(k) == k .. Len(Script.stop)

(* What stop() finds set when it has got to its k-th field. *)
ToDestroy(k) == {i \in k .. Len(Script.stop) : IsSet(Script.stop[i])}

IsFirst(i, k) == i \in ToDestroy(k) /\ \A j \in ToDestroy(k) : i <= j

CleanExit(k) == /\ ToDestroy(k) = {}
                /\ exit' = 0
                /\ UNCHANGED stopAt

(* The promisified close of the server has lost its receiver and throws: the
   handler rejects, which nobody catches. *)
CloseExpress(k) == /\ \E i \in ToDestroy(k) : IsFirst(i, k) /\ Script.stop[i] = "express"
                   /\ exit' = 999
                   /\ UNCHANGED stopAt

AwaitDestroy(s, k) == /\ \E i \in ToDestroy(k) :
                           /\ IsFirst(i, k) /\ Script.stop[i] # "express"
                           /\ stopAt' = [stopAt EXCEPT ![s] = i]
                      /\ UNCHANGED exit

GoOn(s, k) == CleanExit(k) \/ CloseExpress(k) \/ AwaitDestroy(s, k)

Signal(s) == /\ Alive
             /\ stopAt[s] = 0
             /\ GoOn(s, 1)
             /\ UNCHANGED <<service, returned, destroyed, message, adds, failed, lost>>

Stopping(s) == Alive /\ stopAt[s] # 0

DestroyReturns(s) == /\ Stopping(s)
                     /\ destroyed' = destroyed \union {Script.stop[stopAt[s]]}
                     /\ GoOn(s, stopAt[s] + 1)
                     /\ UNCHANGED <<service, returned, message, adds, failed, lost>>

DestroyFails(s) == /\ Stopping(s)
                   /\ exit' = 999 /\ failed' = TRUE
                   /\ UNCHANGED <<service, returned, stopAt, destroyed, message, adds, lost>>

(* Mutant of StopTimesOut: clean_exit is set before stop() is awaited, so the
   timer finds it set. *)
StopTimerFindsCleanExit(s) == Stopping(s) /\ UNCHANGED vars

(* clean_exit is not set within five seconds. *)
StopTimesOut(s) == /\ Stopping(s)
                   /\ exit' = 99
                   /\ UNCHANGED <<service, returned, stopAt, destroyed, message, adds,
                                  failed, lost>>

-----------------------------------------------------------------------------
(* The message being handled.  Messages come as soon as handler.start() is
   called, before start() is through.  A consumer that was stopped or
   destroyed hands over no more of them, and one that was destroyed commits
   no offset (external). *)

Consuming == /\ \E i \in 1 .. Len(Script.start) : i <= returned + 1 /\ Script.start[i] = "handler"
             /\ "handler" \notin destroyed /\ "consumer" \notin destroyed

Deliver == /\ Alive /\ Consuming
           /\ message = "none"
           /\ message' = "handling"
           /\ UNCHANGED <<service, returned, stopAt, destroyed, adds, exit, failed, lost>>

WriteDocument == /\ Alive
                 /\ message = "handling" /\ "repo" \notin destroyed
                 /\ message' = "written"
                 /\ UNCHANGED <<service, returned, stopAt, destroyed, adds, exit, failed, lost>>

(* The database connection was closed; the handler logs it and goes on. *)
WriteFails == /\ Alive
              /\ message = "handling" /\ "repo" \in destroyed
              /\ message' = "failed"
              /\ UNCHANGED <<service, returned, stopAt, destroyed, adds, exit, failed, lost>>

(* The quotes service does not await addQuote: the callback resolves, and the
   offset can be committed, while the add goes on. *)
StartAdd == /\ Alive
            /\ service = "quotes" /\ message = "handling"
            /\ adds < MaxAdds
            /\ message' = "adding"
            /\ UNCHANGED <<service, returned, stopAt, destroyed, adds, exit, failed, lost>>

AddReturns == /\ Alive
              /\ \/ message = "adding" /\ message' = "written" /\ UNCHANGED adds
                 \/ adds > 0 /\ adds' = adds - 1 /\ UNCHANGED message
              /\ UNCHANGED <<service, returned, stopAt, destroyed, exit, failed, lost>>

(* What the add rejects with nobody catches. *)
AddFails == /\ Alive
            /\ message = "adding" \/ adds > 0
            /\ exit' = 999 /\ failed' = TRUE
            /\ UNCHANGED <<service, returned, stopAt, destroyed, message, adds, lost>>

CommitOffset == /\ Alive
                /\ message \in {"adding", "written", "failed"}
                /\ "consumer" \notin destroyed
                /\ message' = "none"
                /\ adds' = IF message = "adding" THEN adds + 1 ELSE adds
                /\ lost' = (lost \/ message = "failed")
                /\ UNCHANGED <<service, returned, stopAt, destroyed, exit, failed>>

-----------------------------------------------------------------------------
Start == StartCallReturns \/ StartCallFails \/ MissingAuditKey \/ StartTimesOut

Stop == \E s \in Signals : \/ Signal(s)
                           \/ DestroyReturns(s) \/ DestroyFails(s) \/ StopTimesOut(s)

Consume == \/ Deliver \/ WriteDocument \/ WriteFails \/ CommitOffset
           \/ StartAdd \/ AddReturns \/ AddFails

Next == Start \/ Stop \/ Consume

Spec == Init /\ [][Next]_vars

(* The timers of the process fire; no awaited call need ever return. *)
Fairness == /\ WF_vars(StartTimesOut)
            /\ \A s \in Signals : WF_vars(StopTimesOut(s))

FairSpec == Spec /\ Fairness

-----------------------------------------------------------------------------
(* Properties. *)

(* A message was committed of which the document is not written, and will not
   be. *)
GivenUp == lost \/ (~Alive /\ adds > 0)

(* The end of a process gives up no message but requests of the quotes service
   whose add it does not await.  A write that failed because stop() had closed
   the repository under it is never committed, although a signal can come while
   start() goes on, another while stop() goes on, and the handlers take a failed
   write for a handled message: the consumer is destroyed before the repository
   (Service.stop of the transfers service; the others close no repository that a
   handler uses). *)
StopLosesOnlyAdds == GivenUp => service = "quotes" /\ ~lost

(* A process that ends with an uncaught exception, although no call failed
   and it started in time, has begun to listen: before that stop() gets
   through, whatever start() has created when the signal comes. *)
UngracefulOnlyWhenListening == exit = 999 /\ ~failed => IsSet("express")

(* "call graceful stop routine" and "process termination and cleanup" say
   the comments of the signal handler (service.ts): a process in which no
   call fails does not end as an uncaught exception. *)
GracefulStop == exit = 999 => failed

(* A start that hangs does not hang for ever: the process is ready, or ends. *)
ComesUpOrEnds == <>(Ready \/ ~Alive)

(* Every signal ends the process, whatever hangs while it is stopped. *)
SignalEndsProcess == \A s \in Signals : stopAt[s] # 0 ~> ~Alive

-----------------------------------------------------------------------------
(* The strengthening of StopLosesOnlyAdds: stop() gets to the repository by
   way of the consumer, because start() creates them in that order. *)
ConsumerFirst ==
  /\ \A s \in Signals : stopAt[s] # 0 => Script.stop[stopAt[s]] # "express"
  /\ service # "api" =>
       /\ \A s \in Signals :
            stopAt[s] # 0 /\ Script.stop[stopAt[s]] = "repo" => "consumer" \in destroyed
       /\ "repo" \in destroyed => "consumer" \in destroyed
  /\ service = "api" => message = "none"
  /\ message = "failed" => "consumer" \in destroyed

AddsOfQuotes == message = "adding" \/ adds > 0 => service = "quotes"

IInv == TypeOK /\ ConsumerFirst /\ AddsOfQuotes /\ StopLosesOnlyAdds
=============================================================================
