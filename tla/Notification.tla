---- MODULE Notification ----
(***************************************************************************)
(* The notification entity of internal/domain/notification.go: the fields  *)
(* of a row that steer control, and the domain's transitions on them.      *)
(* Channel, recipient, content, timestamps and provider ids are left out:  *)
(* no branch of the delivery path depends on them.                         *)
(***************************************************************************)
EXTENDS Integers, FiniteSets

CONSTANTS
    Notifs,     \* identities of the notifications of one partition
    Priority,   \* Priority[n]: the priority a client gave n
    Batched,    \* the notifications created together as one batch
    NoNotif     \* no notification

Statuses == {"pending", "scheduled", "processing",
             "delivered", "failed", "cancelled"}

Terminal == {"delivered", "failed", "cancelled"}

\* Delivery attempts a priority is entitled to.
priorityMaxRetries == [high |-> 5, normal |-> 3, low |-> 2]

ASSUME PriorityAssumption == Priority \in [Notifs -> {"high", "normal", "low"}]
ASSUME BatchedAssumption == Batched \subseteq Notifs /\ IsFiniteSet(Batched)
ASSUME NoNotifAssumption == NoNotif \notin Notifs

Rows == [status : Statuses \cup {"absent"}, retry : Nat]

\* A notification no request has created yet.
NoRow == [status |-> "absent", retry |-> 0]

NewNotification(scheduledAt) ==
    [status |-> IF scheduledAt THEN "scheduled" ELSE "pending", retry |-> 0]

CanCancel(r) == r.status \in {"pending", "scheduled"}

MarkProcessing(r) == [r EXCEPT !.status = "processing"]
MarkDelivered(r)  == [r EXCEPT !.status = "delivered"]
MarkFailed(r)     == [r EXCEPT !.status = "failed"]
\* Variant: the budget counted down.
IncrementRetry_Down(r) == [r EXCEPT !.retry = @ - 1]
IncrementRetry(r) == [r EXCEPT !.retry = @ + 1]

\* Variant: one attempt too many.
HasRetriesLeft_OffByOne(n, r) == r.retry <= priorityMaxRetries[Priority[n]]
HasRetriesLeft(n, r) == r.retry < priorityMaxRetries[Priority[n]]

\* What the delivery handler makes of its copy after an error of Send.
AfterSendError(n, copy, transient) ==
    LET r == IncrementRetry(copy) IN
    IF transient /\ HasRetriesLeft(n, r) THEN r ELSE MarkFailed(r)
====
