---- MODULE Store ----
(***************************************************************************)
(* The notifications and notification_batches tables, through the          *)
(* statements of internal/adapter/postgres/notification_repo.go.  Each     *)
(* statement is one atomic change of one row, or a transaction.            *)
(***************************************************************************)
EXTENDS Notification, FiniteSets

VARIABLES
    row,     \* row[n]: the row of n, NoRow before its INSERT
    due,     \* notifications whose scheduled_at has passed
    aged,    \* notifications whose updated_at is over five minutes old
    batch    \* the counters of the batch row

storeVars == <<row, due, aged, batch>>

StoreInit ==
    /\ row = [n \in Notifs |-> NoRow]
    /\ due = {}
    /\ aged = {}
    /\ batch = [pending |-> 0, delivered |-> 0, failed |-> 0, cancelled |-> 0]

StoreType ==
    /\ row \in [Notifs -> Rows]
    /\ due \subseteq Notifs
    /\ aged \subseteq Notifs
    /\ batch \in [{"pending", "delivered", "failed", "cancelled"} -> Int]

\* INSERT of one row.
Insert(n, scheduledAt) ==
    /\ row[n] = NoRow
    /\ row' = [row EXCEPT ![n] = NewNotification(scheduledAt)]
    /\ UNCHANGED <<due, aged, batch>>

\* INSERT of the batch row and of all its notifications in one transaction;
\* later is the set of those that carry a scheduled_at.
InsertBatch(later) ==
    /\ \A n \in Batched : row[n] = NoRow
    /\ row' = [n \in Notifs |-> IF n \in Batched THEN NewNotification(n \in later)
                                                 ELSE row[n]]
    /\ batch' = [batch EXCEPT !.pending = Cardinality(Batched)]
    /\ UNCHANGED <<due, aged>>

\* UPDATE ... WHERE id: every column from the caller's copy, whatever the row
\* holds by now.
UpdateStatus(n, r) ==
    /\ row' = [row EXCEPT ![n] = r]
    /\ aged' = aged \ {n}

\* Variant: UPDATE ... WHERE id, what Cancel read before notwithstanding.
CancelRow_AnyStatus(n) == UpdateStatus(n, [row[n] EXCEPT !.status = "cancelled"])

\* UPDATE ... WHERE id AND status IN ('pending','scheduled').
CancelRow(n) == CanCancel(row[n]) /\ UpdateStatus(n, [row[n] EXCEPT !.status = "cancelled"])

\* column + 1, pending - 1, for a notification that belongs to the batch and a
\* status that has a column.
IncrementBatchCounter(n, status) ==
    batch' = IF n \in Batched /\ status \in Terminal
             THEN [batch EXCEPT ![status] = @ + 1, !["pending"] = @ - 1]
             ELSE batch

ListDueScheduled    == {n \in due : row[n].status = "scheduled"}

\* Variants: no age limit; the wrong status.
ListStuckProcessing_AnyAge == {n \in Notifs : row[n].status = "processing"}
ListStuckProcessing_WrongStatus == {n \in aged : row[n].status = "pending"}
ListStuckProcessing == {n \in aged : row[n].status = "processing"}
====
