---- MODULE Scheduler ----
(***************************************************************************)
(* The scheduler goroutine every worker process runs                       *)
(* (internal/app/scheduler.go).  A tick releases the scheduled             *)
(* notifications that are due, then resets those stuck in processing.      *)
(* Both passes list rows first and then, for each row of the list, write   *)
(* back the listed copy with status pending and enqueue it.                *)
(***************************************************************************)
EXTENDS Store, Partition

VARIABLE sched   \* sched[w]: pass, listed ids not yet dealt with, their copies,
                 \* and the notification written and about to be enqueued

SchedulerPCs == {"idle", "due", "recover", "stuck"}

AtRest == [pc |-> "idle", todo |-> {}, copy |-> [n \in Notifs |-> NoRow], cur |-> NoNotif]

SchedulerInit == sched = [w \in Workers |-> AtRest]

Passes == [pc : SchedulerPCs, todo : SUBSET Notifs,
           copy : [Notifs -> Rows], cur : Notifs \cup {NoNotif}]

SchedulerType == sched \in [Workers -> Passes]

\* The copies a SELECT of the rows in S hands to the pass.
Listing(pc, S) == [AtRest EXCEPT
                     !.pc = pc, !.todo = S,
                     !.copy = [n \in Notifs |-> IF n \in S THEN row[n] ELSE NoRow]]

\* After the last row of a pass comes the other pass, or the end of the tick.
Advance(s) == IF s.todo = {} /\ s.cur = NoNotif
              THEN [AtRest EXCEPT !.pc = IF s.pc = "due" THEN "recover" ELSE "idle"]
              ELSE s

\* A pass begins with its SELECT.  One that finds nothing, or fails, changes
\* nothing and the tick goes on, so only those that find a row are steps.
List(w, pc, S) ==
    /\ w \notin stopping
    /\ S # {}
    /\ sched' = [sched EXCEPT ![w] = Listing(pc, S)]
    /\ UNCHANGED <<storeVars, partitionVars, faults, stopping>>

\* processScheduled, the first half of a tick, and recoverStuck, the second.
ListDue(w)   == sched[w].pc = "idle" /\ List(w, "due", ListDueScheduled)
ListStuck(w) == sched[w].pc \in {"idle", "recover"} /\ List(w, "stuck", ListStuckProcessing)

\* After a processScheduled that had work, recoverStuck finds nothing or its
\* SELECT fails.
EndTick(w) ==
    /\ sched[w].pc = "recover"
    /\ sched' = [sched EXCEPT ![w] = AtRest]
    /\ UNCHANGED <<storeVars, partitionVars, faults, stopping>>

\* Variant: the row is written and not enqueued.
Reset_NoEnqueue(w) ==
    /\ sched[w].pc \in {"due", "stuck"}
    /\ \E n \in sched[w].todo :
         /\ CallOk(w)
         /\ UpdateStatus(n, [sched[w].copy[n] EXCEPT !.status = "pending"])
         /\ sched' = [sched EXCEPT ![w] =
                        Advance([@ EXCEPT !.todo = @ \ {n}, !.copy[n] = NoRow])]
    /\ UNCHANGED <<due, batch, log, groupVars, lost, stopping>>

\* UpdateStatus(pending) of the next listed copy; on an error the row is
\* skipped.
Reset(w) ==
    /\ sched[w].pc \in {"due", "stuck"}
    /\ sched[w].cur = NoNotif
    /\ \E n \in sched[w].todo :
         LET s == [sched[w] EXCEPT !.todo = @ \ {n}, !.copy[n] = NoRow]
             r == [sched[w].copy[n] EXCEPT !.status = "pending"]
         IN \/ /\ CallOk(w)
               /\ UpdateStatus(n, r)
               /\ sched' = [sched EXCEPT ![w] = [s EXCEPT !.cur = n]]
               /\ UNCHANGED lost
            \/ /\ CallFails(w, UpdateStatus(n, r) /\ lost' = lost \cup {n},
                               UNCHANGED <<row, aged, lost>>)
               /\ sched' = [sched EXCEPT ![w] = Advance(s)]
    /\ UNCHANGED <<due, batch, log, groupVars, stopping>>

\* Enqueue; an error is only logged.
Enqueue(w) ==
    /\ sched[w].cur # NoNotif
    /\ \/ CallOk(w) /\ Publish(sched[w].cur)
       \/ PublishFails(w, sched[w].cur)
    /\ sched' = [sched EXCEPT ![w] = Advance([@ EXCEPT !.cur = NoNotif])]
    /\ UNCHANGED <<storeVars, groupVars, stopping>>

SchedulerStep(w) == ListDue(w) \/ ListStuck(w) \/ EndTick(w) \/ Reset(w) \/ Enqueue(w)
====
