-------------------------- MODULE ReportedTransfers --------------------------
(***************************************************************************)
(* What the transfers report promises its readers, without consumers,      *)
(* batches, crashes or database calls: every transfer has one status, it   *)
(* starts when the transfer is prepared, it reaches the outcome that was   *)
(* published for the transfer, and an outcome never changes.               *)
(***************************************************************************)
EXTENDS TransferEvents

VARIABLES published,        \* the set of events published so far
          status            \* the status the report shows of each transfer

vars == <<published, status>>

Statuses == {"none", "RESERVED", "COMMITTED", "ABORTED"}

Init == /\ published = {}
        /\ status = [t \in Transfers |-> "none"]

Publish == \E e \in Events :
             /\ Publishable(e, published)
             /\ published' = published \union {e}
             /\ UNCHANGED status

Change(t, name, from, to) ==
  /\ Event(name, t) \in published
  /\ status[t] = from
  /\ status' = [status EXCEPT ![t] = to]
  /\ UNCHANGED published

Reserve(t) == Change(t, Prepared, "none", "RESERVED")
Commit(t)  == Change(t, Fulfiled, "RESERVED", "COMMITTED")
Abort(t)   == Change(t, Rejected, "RESERVED", "ABORTED")

Report(t) == Reserve(t) \/ Commit(t) \/ Abort(t)

Next == Publish \/ \E t \in Transfers : Report(t)

Spec == Init /\ [][Next]_vars

(* Whatever is published of a transfer is reported in the end. *)
EveryOutcomeIsReported ==
  \A t \in Transfers :
    /\ Event(Prepared, t) \in published ~> status[t] # "none"
    /\ Event(Fulfiled, t) \in published ~> status[t] = "COMMITTED"
    /\ Event(Rejected, t) \in published ~> status[t] = "ABORTED"
=============================================================================
