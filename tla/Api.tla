---- MODULE Api ----
(***************************************************************************)
(* The API process where it meets the delivery path: the writing half of   *)
(* Create and CreateBatch and the whole of Cancel, from                    *)
(* internal/app/notification_service.go.  A create request commits its     *)
(* rows first and publishes afterwards, in calls of their own.             *)
(***************************************************************************)
EXTENDS Store, Partition

CONSTANTS Requests    \* the cancel requests clients send

VARIABLES
    unpublished,  \* notifications stored as pending and not yet enqueued
    req,          \* req[q]: the step cancel request q is at, and its notification
    cancelOk      \* history: cancel requests that were answered 200

apiVars == <<unpublished, req, cancelOk>>

RequestPCs == {"new", "update", "count", "done"}

ApiInit ==
    /\ unpublished = {}
    /\ req = [q \in Requests |-> [pc |-> "new", id |-> NoNotif]]
    /\ cancelOk = {}

ApiType ==
    /\ unpublished \subseteq Notifs
    /\ req \in [Requests -> [pc : RequestPCs, id : Notifs \cup {NoNotif}]]
    /\ cancelOk \subseteq Requests

\* Create of a notification outside the batch.  EnqueueScheduled does
\* nothing, so only an unscheduled one is left to be published.  An INSERT
\* that errs with its effect done leaves what a publish does that errs with
\* none: a row, no message and an error to the client.
Create(n) ==
    /\ n \notin Batched
    /\ \E scheduledAt \in BOOLEAN :
         /\ Insert(n, scheduledAt)
         /\ unpublished' = IF scheduledAt THEN unpublished ELSE unpublished \cup {n}
    /\ UNCHANGED <<partitionVars, req, cancelOk, faults, stopping>>

CreateBatch ==
    /\ Batched # {}
    /\ \E later \in SUBSET Batched :
         /\ InsertBatch(later)
         /\ unpublished' = unpublished \cup (Batched \ later)
    /\ UNCHANGED <<partitionVars, req, cancelOk, faults, stopping>>

\* Enqueue of a stored notification.  After an error Create returns it to the
\* client and CreateBatch ignores it; the row stays in both cases.
PublishNew(n) ==
    /\ n \in unpublished
    /\ \/ Publish(n) /\ UNCHANGED faults
       \/ Spend("error") /\ (PublishErrs(n, TRUE) \/ PublishErrs(n, FALSE))
    /\ unpublished' = unpublished \ {n}
    /\ UNCHANGED <<storeVars, groupVars, req, cancelOk, stopping>>

Answer(q, pc) == req' = [req EXCEPT ![q].pc = pc]

\* Cancel reads the row and checks CanCancel on what it read.  A request that
\* is turned down here changes nothing.
CancelRead(q) ==
    /\ req[q].pc = "new"
    /\ \E n \in Notifs : /\ CanCancel(row[n])
                         /\ req' = [req EXCEPT ![q] = [pc |-> "update", id |-> n]]
    /\ Spend("cancel")
    /\ UNCHANGED <<storeVars, partitionVars, unpublished, cancelOk, stopping>>

\* Variant: a refused cancellation is counted all the same.
CancelUpdate_CountsRefused(q) ==
    /\ req[q].pc = "update"
    /\ LET n == req[q].id IN
       \/ /\ CancelRow(n)
          /\ cancelOk' = cancelOk \cup {q}
          /\ Answer(q, IF n \in Batched THEN "count" ELSE "done")
       \/ /\ ~CanCancel(row[n])
          /\ Answer(q, IF n \in Batched THEN "count" ELSE "done")
          /\ UNCHANGED <<row, aged, cancelOk>>
    /\ UNCHANGED <<due, batch, partitionVars, unpublished, faults, stopping>>

\* repo.Cancel: one row affected, none (the status has moved on), or an error
\* after which the row may have been cancelled all the same.
CancelUpdate(q) ==
    /\ req[q].pc = "update"
    /\ LET n == req[q].id IN
       \/ /\ CancelRow(n)
          /\ cancelOk' = cancelOk \cup {q}
          /\ Answer(q, IF n \in Batched THEN "count" ELSE "done")
          /\ UNCHANGED faults
       \/ /\ ~CanCancel(row[n])
          /\ Answer(q, "done")
          /\ UNCHANGED <<row, aged, cancelOk, faults>>
       \/ /\ Spend("error")
          /\ Answer(q, "done")
          /\ CancelRow(n) \/ UNCHANGED <<row, aged>>
          /\ UNCHANGED cancelOk
    /\ UNCHANGED <<due, batch, partitionVars, unpublished, stopping>>

CancelCount(q) ==
    /\ req[q].pc = "count"
    /\ \/ IncrementBatchCounter(req[q].id, "cancelled") /\ UNCHANGED faults
       \/ Spend("error") /\ UNCHANGED batch
    /\ Answer(q, "done")
    /\ UNCHANGED <<row, due, aged, partitionVars, unpublished, cancelOk, stopping>>

\* The API process dies, or ends thirty seconds after SIGTERM with requests
\* still under way: those it was serving end where they are.  A shutdown within
\* the thirty seconds waits for them and changes nothing.
ApiCrash ==
    /\ Spend("crash")
    /\ unpublished # {} \/ \E q \in Requests : req[q].pc \in {"update", "count"}
    /\ lost' = lost \cup unpublished
    /\ unpublished' = {}
    /\ req' = [q \in Requests |-> IF req[q].pc = "new" THEN req[q]
                                                        ELSE [req[q] EXCEPT !.pc = "done"]]
    /\ UNCHANGED <<storeVars, log, groupVars, cancelOk, stopping>>

CancelStep(q) == CancelRead(q) \/ CancelUpdate(q) \/ CancelCount(q)
====
