---- MODULE System ----
(***************************************************************************)
(* The delivery path as a whole: the API process, the worker processes,    *)
(* each with a consumer and a scheduler, the database and the partition.   *)
(***************************************************************************)
EXTENDS Consumer, Scheduler, Api

vars == <<storeVars, partitionVars, consVars, sched, apiVars, faults, stopping>>

Init == /\ StoreInit
        /\ PartitionInit
        /\ FaultsInit
        /\ ConsumerInit
        /\ SchedulerInit
        /\ ApiInit

-----------------------------------------------------------------------------
\* A notification that some later step is certain to take up: a message whose
\* loop iteration has not ended, or a publish about to happen.
Unhandled(n)   == \E i \in 1..Len(log) : log[i] = n /\ i \notin handled
Outstanding(n) == \/ Unhandled(n)
                  \/ n \in unpublished
                  \/ \E w \in Workers : sched[w].cur = n

\* The group will read message i again, or its commit is due within a second.
Uncommitted(i) ==
    \/ owner \in Workers /\ i >= next[owner]
    \/ /\ i > committed
       /\ owner \in stopping \cup {NoWorker} \/ \E w \in Workers : i <= pend[w]

\* Some process is at work on n or soon will be.
UnderWay(n) == \/ Outstanding(n)
               \/ \E i \in 1..Len(log) : log[i] = n /\ Uncommitted(i)
               \/ \E w \in Workers : Busy(w) /\ Msg(w) = n

\* scheduled_at of n passes.
FallDue(n) ==
    /\ row[n].status = "scheduled"
    /\ n \notin due
    /\ due' = due \cup {n}
    /\ UNCHANGED <<row, aged, batch, partitionVars, consVars, sched, apiVars,
                   faults, stopping>>

\* Five minutes pass without a write to n.  With n under way that takes
\* a long backlog or a stalled process.
Age(n) ==
    /\ row[n].status = "processing"
    /\ n \notin aged
    /\ IF UnderWay(n) THEN Spend("delay") ELSE UNCHANGED faults
    /\ aged' = aged \cup {n}
    /\ UNCHANGED <<row, due, batch, partitionVars, consVars, sched, apiVars, stopping>>

\* SIGTERM: the worker's context is cancelled.
Stop(w) ==
    /\ w \notin stopping
    /\ Spend("stop")
    /\ stopping' = stopping \cup {w}
    /\ UNCHANGED <<storeVars, partitionVars, consVars, sched, apiVars>>

\* What the end of a process does to the goroutines in it.  A row reset by
\* the scheduler and not enqueued yet will not be enqueued by anybody.
Perish(w) ==
    /\ cons' = [cons EXCEPT ![w] = Idle]
    /\ sched' = [sched EXCEPT ![w] = AtRest]
    /\ lost' = IF sched[w].cur = NoNotif THEN lost ELSE lost \cup {sched[w].cur}
    /\ stopping' = stopping \ {w}
    /\ UNCHANGED <<storeVars, handled, sends, apiVars>>

\* Stop of the consumer has waited for its loop, closed the readers, and the
\* process ends without waiting for the scheduler.  A new process takes over
\* under the same name.
Exit(w) ==
    /\ w \in stopping
    /\ ~Busy(w)
    /\ Leave(w, TRUE)
    /\ Perish(w)
    /\ UNCHANGED faults

\* The worker process dies at any point and is started again.
Crash(w) ==
    /\ Spend("crash")
    /\ Leave(w, FALSE)
    /\ Perish(w)

-----------------------------------------------------------------------------
WorkerStep(w) ==
    \/ ConsumerStep(w) /\ UNCHANGED <<sched, apiVars>>
    \/ SchedulerStep(w) /\ UNCHANGED <<consVars, apiVars>>
    \/ Exit(w)

GroupStep(w) == /\ Assign(w) \/ Revoke(w) \/ Flush(w)
                /\ UNCHANGED <<storeVars, consVars, sched, apiVars>>

ApiStep ==
    /\ \/ \E n \in Notifs : Create(n) \/ PublishNew(n)
       \/ CreateBatch
       \/ \E q \in Requests : CancelStep(q)
       \/ ApiCrash
    /\ UNCHANGED <<consVars, sched>>

\* Nothing is left to do: readers poll and tickers tick, and nothing changes.
Quiescent ==
    /\ \A w \in Workers : /\ ~Busy(w)
                          /\ sched[w] = AtRest
                          /\ w = owner => next[w] > Len(log)
    /\ ListDueScheduled = {} /\ ListStuckProcessing = {}
    /\ unpublished = {}
    /\ UNCHANGED vars

Next == \/ Quiescent
        \/ \E w \in Workers : WorkerStep(w) \/ GroupStep(w) \/ Stop(w) \/ Crash(w)
        \/ ApiStep
        \/ \E n \in Notifs : FallDue(n) \/ Age(n)

Safety == Init /\ [][Next]_vars

\* Goroutines run, a stopped worker ends, the API publishes what it has
\* stored, the commit timer fires, a partition without an owner is assigned,
\* scheduled times come and rows nobody works on grow old.  Faults,
\* rebalances, create and cancel requests may or may not come.
Fairness ==
    /\ \A w \in Workers :
         /\ WF_vars(ConsumerStep(w) /\ UNCHANGED <<sched, apiVars>>)
         /\ WF_vars(SchedulerStep(w) /\ UNCHANGED <<consVars, apiVars>>)
         /\ WF_vars(Exit(w))
         /\ WF_vars(owner = NoWorker /\ GroupStep(w))
         /\ WF_vars(owner = w /\ Flush(w) /\ UNCHANGED <<storeVars, consVars, sched, apiVars>>)
    /\ \A n \in Notifs :
         /\ WF_vars(PublishNew(n) /\ UNCHANGED <<consVars, sched>>)
         /\ WF_vars(FallDue(n))
         /\ WF_vars(~UnderWay(n) /\ Age(n))

Spec == Safety /\ Fairness

-----------------------------------------------------------------------------
\* Every variable holds a value of its kind.
TypeOK == /\ StoreType
          /\ PartitionType
          /\ FaultsType
          /\ ConsumerType
          /\ SchedulerType
          /\ ApiType

\* At least once: the offset the broker keeps for the group (Consumer.consume,
\* CommitMessages with CommitInterval) never passes a message whose handler
\* has not run to its end, whatever crashes, rebalances and late commits of
\* zombies do to it.
CommitsOnlyHandled == 1..committed \subseteq handled

\* No pending row is forgotten: somebody is on the way to it, or one of the
\* publishes that follow a database write (Create, CreateBatch,
\* processScheduled, recoverStuck, Consumer.retry) did not succeed.
PendingIsTracked ==
    \A n \in Notifs : row[n].status = "pending" => n \in lost \/ Outstanding(n)

\* With one worker the provider takes a notification once, and at most once
\* more for each fault: the early return of ProcessDelivery, the commit order
\* and the five minutes of recoverStuck together keep duplicates that rare.
DuplicatesNeedFaults == \A n \in Notifs : accepted[n] <= 1 + Mishaps

\* With one worker and no replay of messages, Send is called for a notification
\* as often as its priority allows, and once more at most for each call that
\* erred, since an attempt whose outcome could not be written is not counted;
\* though retry_count travels through a copy, a message and a blind UPDATE
\* between any two attempts.
TriesBounded ==
    faults.crash + faults.stop + faults.rebalance + faults.delay = 0 =>
        \A n \in Notifs : tried[n] <= priorityMaxRetries[Priority[n]] + faults.error

\* No handler and no cancel request is under way.
Quiet == /\ \A w \in Workers : ~Busy(w)
         /\ \A q \in Requests : req[q].pc # "count"

\* The notifications of the batch with status s.
InBatch(s) == {n \in Batched : row[n].status = s}

\* With one worker and no fault the batch counters agree with the rows.  The
\* cancelled one counts the confirmed requests: a copy read before it may
\* overwrite a cancellation, and the same notification be cancelled again.
CountersAgree ==
    Mishaps = 0 /\ Quiet =>
        /\ batch.delivered = Cardinality(InBatch("delivered"))
        /\ batch.failed = Cardinality(InBatch("failed"))
        /\ batch.cancelled = Cardinality({q \in cancelOk : req[q].id \in Batched})
        /\ InBatch("cancelled") \subseteq {req[q].id : q \in cancelOk}

\* With one worker, and unless a message is under way for five minutes, a
\* delivered row stays delivered: neither the replay of a message after a
\* restart nor the snapshot of a scheduler pass takes it back.
DeliveredIsFinal ==
    [][faults.delay = 0 =>
         \A n \in Notifs : row[n].status = "delivered" => row'[n].status = "delivered"]_vars

\* Some process holds a copy of n's row that it may yet write back.
Held(n) == \E w \in Workers : \/ cons[w].pc \in {"mark", "send", "settle"} /\ Msg(w) = n
                              \/ n \in sched[w].todo

\* What a cancellation is good for: once the row is cancelled and no process
\* holds an older copy of it, no process will ever hold one again, the row
\* stays as it is and the provider does not get the notification.
CancelHolds ==
    [][\A n \in Notifs : row[n].status = "cancelled" /\ ~Held(n) =>
          row'[n].status = "cancelled" /\ ~Held(n)' /\ accepted'[n] = accepted[n]]_vars

Status == [n \in Notifs |-> row[n].status]

Tidy  == INSTANCE LifeCycle WITH status <- Status, sent <- accepted, misled <- misled,
                                 mishaps <- Mishaps, tidy <- (faults.delay = 0)
Loose == INSTANCE LifeCycle WITH status <- Status, sent <- accepted, misled <- misled,
                                 mishaps <- 0, tidy <- FALSE

\* With one worker the system keeps the life cycle of notifications, tidily
\* unless a message has been under way for five minutes: whatever is read,
\* written and published between two looks of a client at a notification adds
\* up to an edge of its life cycle, and the provider takes it in between.
KeepsLifeCycle == Tidy!Spec

\* With any number of workers no status is made up: delivered means that the
\* provider took the notification or gave it an answer below 400 that says
\* nothing of the kind, only one that waits is cancelled, and none returns to
\* scheduled or disappears.
NoStatusMadeUp == Loose!Spec

\* Every notification comes to rest delivered, failed or cancelled, except
\* those left pending when a publish did not succeed; one whose retry could
\* not be published (Consumer.retry) is taken up again by recoverStuck.
EventuallySettled ==
    \A n \in Notifs : <>[]\/ row[n].status \in Terminal \cup {"absent"}
                          \/ row[n].status = "pending" /\ n \in lost

-----------------------------------------------------------------------------
(* What the documentation and the tests say, and the code does not keep.   *)

\* A notification reported cancelled (PATCH .../cancel, 200, "Notification
\* cancelled") is not handed to the provider any more.
CancelledNotSent ==
    [][\A q \in cancelOk : accepted'[req[q].id] = accepted[req[q].id]]_vars

\* Any number of workers: as long as nothing goes wrong the provider gets a
\* notification once.
SentOnce == Mishaps = 0 => \A n \in Notifs : accepted[n] <= 1

\* No work is dropped: every notification comes to rest.
AllWorkSettles ==
    \A n \in Notifs : <>[](row[n].status \in Terminal \cup {"absent"})
====
