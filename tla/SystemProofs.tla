---- MODULE SystemProofs ----
(***************************************************************************)
(* For any number of workers, schedulers, zombies, notifications, cancel   *)
(* requests and faults: type correctness, at-least-once handling, the      *)
(* tracking of pending rows, and what becomes of a row: a cancellation     *)
(* that no copy of the row predates holds, and no status is made up, in    *)
(* that System implements the abstract LifeCycle in its untidy form.       *)
(***************************************************************************)
EXTENDS System, FiniteSetTheorems, TLAPS

-----------------------------------------------------------------------------
(* Types.                                                                  *)

\* A handler works on a message of the partition, a cancel request on a
\* notification.
InRange ==
    /\ \A w \in Workers : Busy(w) => cons[w].off \in 1..Len(log)
    /\ \A q \in Requests : req[q].pc \in {"update", "count"} => req[q].id \in Notifs

TypeInv == TypeOK /\ InRange

\* A fault that is spent is a fault that is counted.
LEMMA SpendType ==
  ASSUME NEW k \in FaultKinds, faults \in [FaultKinds -> Nat], Spend(k)
  PROVE  faults' \in [FaultKinds -> Nat]
BY DEF Spend

\* The kinds of fault there are.
LEMMA KindFacts == {"cancel", "error", "unavailable", "timeout", "redirect", "crash", "stop",
                    "rebalance", "delay"}
                      \subseteq FaultKinds
BY DEF FaultKinds

\* A move of w's loop leaves the loops of the others, and w's offset, alone.
LEMMA GotoPlace ==
  ASSUME NEW w \in Workers, NEW pc, NEW r, cons \in [Workers -> Loops], Goto(w, pc, r)
  PROVE  /\ \A v \in Workers \ {w} : cons'[v] = cons[v]
         /\ cons'[w].off = cons[w].off
         /\ cons'[w].pc = pc
         /\ cons'[w].copy = r
BY DEF Goto, Loops

\* A move of w's loop to a known place with a row in hand.
LEMMA GotoType ==
  ASSUME NEW w \in Workers, NEW pc \in ConsumerPCs, NEW r \in Rows,
         cons \in [Workers -> Loops], Goto(w, pc, r)
  PROVE  /\ cons' \in [Workers -> Loops]
         /\ \A v \in Workers \ {w} : cons'[v] = cons[v]
         /\ cons'[w].off = cons[w].off
         /\ cons'[w].pc = pc
         /\ cons'[w].copy = r
BY DEF Goto, Loops

\* The domain's transitions keep a row a row.
LEMMA RowFacts ==
  /\ NoRow \in Rows
  /\ \A s \in BOOLEAN : NewNotification(s) \in Rows
  /\ \A r \in Rows : /\ MarkProcessing(r) \in Rows
                     /\ MarkDelivered(r) \in Rows
                     /\ MarkFailed(r) \in Rows
                     /\ IncrementRetry(r) \in Rows
                     /\ [r EXCEPT !.status = "pending"] \in Rows
                     /\ [r EXCEPT !.status = "cancelled"] \in Rows
<1>1. NoRow \in Rows
  BY DEF NoRow, Rows
<1>2. \A s \in BOOLEAN : NewNotification(s) \in Rows
  BY DEF NewNotification, Rows, Statuses
<1>3. \A r \in Rows : \A s \in Statuses : [r EXCEPT !.status = s] \in Rows
  BY DEF Rows
<1>4. \A r \in Rows : IncrementRetry(r) \in Rows
  BY DEF Rows, IncrementRetry
<1>5. {"pending", "processing", "delivered", "failed", "cancelled"} \subseteq Statuses
  BY DEF Statuses
<1>6. QED
  BY <1>1, <1>2, <1>3, <1>4, <1>5 DEF MarkProcessing, MarkDelivered, MarkFailed

\* The counters stay integers (pending may well fall below zero).
LEMMA CounterType ==
  ASSUME NEW n, NEW s, IncrementBatchCounter(n, s),
         batch \in [{"pending", "delivered", "failed", "cancelled"} -> Int]
  PROVE  batch' \in [{"pending", "delivered", "failed", "cancelled"} -> Int]
BY DEF IncrementBatchCounter, Terminal

\* A publish adds its message at the end or nothing.
LEMMA PublishFacts ==
  ASSUME NEW n \in Notifs, log \in Seq(Notifs), lost \subseteq Notifs,
         Publish(n) \/ \E kept \in BOOLEAN : PublishErrs(n, kept)
  PROVE  /\ log' = log \/ log' = Append(log, n)
         /\ log' \in Seq(Notifs)
         /\ Len(log) \in Nat
         /\ Len(log') \in {Len(log), Len(log) + 1}
         /\ \A i \in 1..Len(log) : log'[i] = log[i]
         /\ lost \ {n} \subseteq lost' /\ lost' \subseteq Notifs
         /\ n \in lost' \/ (Len(log') = Len(log) + 1 /\ log'[Len(log) + 1] = n)
BY DEF Publish, PublishErrs

\* The message a busy handler works on is a notification.
LEMMA MsgType ==
  ASSUME TypeInv, NEW w \in Workers, Busy(w)
  PROVE  Msg(w) \in Notifs
BY DEF TypeInv, TypeOK, PartitionType, InRange, Msg

\* A loop at rest is a loop.
LEMMA IdleType == Idle \in Loops
BY RowFacts DEF Idle, ConsumerPCs, Loops

\* FetchMessage moves the reader within the log.
LEMMA FetchType ==
  ASSUME NEW w \in Workers, TypeInv, Fetch(w), UNCHANGED <<sched, apiVars>>
  PROVE  TypeInv'
<1> DEFINE c == [pc |-> "get", off |-> next[w], copy |-> NoRow]
<1>1. /\ c \in Loops
      /\ c.off \in 1..Len(log)
      /\ c.pc = "get"
  <2>1. next[w] \in 1..Len(log)
    BY DEF Fetch, TypeInv, TypeOK, PartitionType
  <2>2. QED
    BY <2>1, RowFacts DEF ConsumerPCs, Loops
<1>2. cons' = [cons EXCEPT ![w] = c]
  BY DEF Fetch
<1>3. next' \in [Workers -> Nat \ {0}]
  BY DEF Fetch, TypeInv, TypeOK, PartitionType
<1> HIDE DEF c
<1>4. ConsumerType'
  BY <1>1, <1>2 DEF Fetch, TypeInv, TypeOK, ConsumerType, sends
<1>5. InRange'
  BY <1>1, <1>2 DEF Fetch, TypeInv, TypeOK, ConsumerType, InRange, Busy, apiVars
<1>6. QED
  BY <1>3, <1>4, <1>5 DEF TypeInv, TypeOK, StoreType, PartitionType,
     FaultsType, ConsumerType, SchedulerType, ApiType, InRange, Busy,
     storeVars, partitionVars, groupVars, apiVars, consVars, sends, Fetch

\* The copy GetByID returns is a row.
LEMMA LoadType ==
  ASSUME NEW w \in Workers, TypeInv, Load(w), UNCHANGED <<sched, apiVars>>
  PROVE  TypeInv'
<1>1. row[Msg(w)] \in Rows
  BY MsgType DEF Load, Busy, TypeInv, TypeOK, StoreType
<1>2. faults' \in [FaultKinds -> Nat]
  BY KindFacts, SpendType DEF Load, CallOk, CallFails, Struck, TypeInv, TypeOK,
     FaultsType
<1>3. \E pc \in ConsumerPCs, r \in Rows : Goto(w, pc, r)
  BY <1>1, RowFacts DEF Load, ConsumerPCs
<1>4. QED
  BY <1>2, <1>3, GotoType DEF TypeInv, TypeOK, StoreType, PartitionType,
     FaultsType, ConsumerType, SchedulerType, ApiType, InRange, Busy,
     storeVars, partitionVars, groupVars, apiVars, consVars, sends, Load

\* Marking the row processing writes a row.
LEMMA MarkType ==
  ASSUME NEW w \in Workers, TypeInv, Mark(w), UNCHANGED <<sched, apiVars>>
  PROVE  TypeInv'
<1>1. cons[w].copy \in Rows
  BY DEF TypeInv, TypeOK, ConsumerType, Loops
<1>2. faults' \in [FaultKinds -> Nat]
  BY KindFacts, SpendType DEF Mark, CallOk, CallFails, Struck, TypeInv, TypeOK,
     FaultsType
<1>3. \E pc \in ConsumerPCs, r \in Rows : Goto(w, pc, r)
  BY <1>1, RowFacts DEF Mark, ConsumerPCs
<1>4. row' \in [Notifs -> Rows] /\ aged' \subseteq Notifs
  BY <1>1 DEF Mark, CallFails, UpdateStatus, TypeInv, TypeOK, StoreType
<1>5. QED
  BY <1>2, <1>3, <1>4, GotoType DEF TypeInv, TypeOK, StoreType, PartitionType,
     FaultsType, ConsumerType, SchedulerType, ApiType, InRange, Busy,
     storeVars, partitionVars, groupVars, apiVars, consVars, sends, Mark

\* Each outcome of Send turns the copy into a row with a retry count.
LEMMA SendType ==
  ASSUME NEW w \in Workers, TypeInv, Send(w), UNCHANGED <<sched, apiVars>>
  PROVE  TypeInv'
<1> DEFINE r == cons[w].copy
<1>1. r \in Rows /\ Msg(w) \in Notifs
  BY MsgType DEF Send, Busy, TypeInv, TypeOK, ConsumerType, Loops
<1>2. faults' \in [FaultKinds -> Nat]
  BY KindFacts, SpendType DEF Send, CallOk, CallFails, Struck, TypeInv, TypeOK,
     FaultsType
<1>3. /\ MarkDelivered(r) \in Rows
      /\ AfterSendError(Msg(w), r, TRUE) \in Rows
      /\ AfterSendError(Msg(w), r, FALSE) \in Rows
  BY <1>1, RowFacts DEF AfterSendError
<1>4. \E s \in Rows : Goto(w, "settle", s)
  BY <1>3 DEF Send
<1>5. tried' \in [Notifs -> Nat] /\ accepted' \in [Notifs -> Nat] /\ misled' \subseteq Notifs
  <2>1. /\ tried' = [tried EXCEPT ![Msg(w)] = @ + 1]
        /\ UNCHANGED accepted \/ accepted' = [accepted EXCEPT ![Msg(w)] = @ + 1]
        /\ UNCHANGED misled \/ misled' = misled \cup {Msg(w)}
    BY DEF Send
  <2>2. QED
    BY <1>1, <2>1 DEF TypeInv, TypeOK, ConsumerType
<1>6. QED
  BY <1>2, <1>4, <1>5, GotoType DEF TypeInv, TypeOK, StoreType, PartitionType,
     FaultsType, ConsumerType, SchedulerType, ApiType, InRange, Busy,
     storeVars, partitionVars, groupVars, apiVars, consVars, Send, ConsumerPCs

\* The outcome that is written is a row.
LEMMA SettleType ==
  ASSUME NEW w \in Workers, TypeInv, Settle(w), UNCHANGED <<sched, apiVars>>
  PROVE  TypeInv'
<1>1. cons[w].copy \in Rows
  BY DEF TypeInv, TypeOK, ConsumerType, Loops
<1>2. faults' \in [FaultKinds -> Nat]
  BY KindFacts, SpendType DEF Settle, CallOk, CallFails, Struck, TypeInv, TypeOK,
     FaultsType
<1>3. \E pc \in ConsumerPCs, r \in Rows : Goto(w, pc, r)
  BY <1>1, RowFacts DEF Settle, ConsumerPCs
<1>4. row' \in [Notifs -> Rows] /\ aged' \subseteq Notifs
  BY <1>1 DEF Settle, CallFails, UpdateStatus, TypeInv, TypeOK, StoreType
<1>5. QED
  BY <1>2, <1>3, <1>4, GotoType DEF TypeInv, TypeOK, StoreType, PartitionType,
     FaultsType, ConsumerType, SchedulerType, ApiType, InRange, Busy,
     storeVars, partitionVars, groupVars, apiVars, consVars, sends, Settle

\* Counting an outcome touches the counters only.
LEMMA CountType ==
  ASSUME NEW w \in Workers, TypeInv, Count(w), UNCHANGED <<sched, apiVars>>
  PROVE  TypeInv'
<1>1. faults' \in [FaultKinds -> Nat]
  BY KindFacts, SpendType DEF Count, CallOk, CallFails, Struck, TypeInv, TypeOK,
     FaultsType
<1>2. Goto(w, "commit", NoRow) /\ NoRow \in Rows
  BY RowFacts DEF Count
<1>3. batch' \in [{"pending", "delivered", "failed", "cancelled"} -> Int]
  <2>1. UNCHANGED batch \/ IncrementBatchCounter(Msg(w), cons[w].copy.status)
    BY DEF Count, CallFails
  <2>2. QED
    BY <2>1, CounterType DEF TypeInv, TypeOK, StoreType
<1>4. QED
  BY <1>1, <1>2, <1>3, GotoType DEF TypeInv, TypeOK, StoreType, PartitionType,
     FaultsType, ConsumerType, SchedulerType, ApiType, InRange, Busy,
     storeVars, partitionVars, groupVars, apiVars, consVars, sends, Count, ConsumerPCs

\* A republished message carries a notification.
LEMMA RepublishType ==
  ASSUME NEW w \in Workers, TypeInv, Republish(w), UNCHANGED <<sched, apiVars>>
  PROVE  TypeInv'
<1>1. faults' \in [FaultKinds -> Nat]
  BY KindFacts, SpendType DEF Republish, CallOk, PublishFails, Struck, TypeInv, TypeOK, FaultsType
<1>2. Goto(w, "commit", NoRow) /\ NoRow \in Rows
  BY RowFacts DEF Republish
<1>3. Msg(w) \in Notifs
  BY MsgType DEF Republish, Busy
<1>4. /\ log' \in Seq(Notifs)
      /\ Len(log) \in Nat
      /\ Len(log') \in {Len(log), Len(log) + 1}
      /\ lost' \subseteq Notifs
  <2>1. Publish(Msg(w)) \/ \E kept \in BOOLEAN : PublishErrs(Msg(w), kept)
    BY DEF Republish, PublishFails
  <2>2. QED
    BY <1>3, <2>1, PublishFacts DEF TypeInv, TypeOK, PartitionType
<1>5. ConsumerType' /\ InRange'
  <2>1. /\ cons' \in [Workers -> Loops]
        /\ \A v \in Workers : Busy(v)' => Busy(v) /\ cons'[v].off = cons[v].off
    BY <1>2, GotoType DEF TypeInv, TypeOK, ConsumerType, ConsumerPCs, Busy, Republish
  <2>2. QED
    BY <1>4, <2>1 DEF TypeInv, TypeOK, ConsumerType, Loops, InRange, Republish, apiVars, sends
<1>6. QED
  BY <1>1, <1>4, <1>5 DEF TypeInv, TypeOK, StoreType, PartitionType,
     FaultsType, ConsumerType, SchedulerType, ApiType, InRange, Busy,
     storeVars, partitionVars, groupVars, apiVars, consVars, sends, Republish, ConsumerPCs

\* The offset a loop notes is a natural number.
LEMMA CommitType ==
  ASSUME NEW w \in Workers, TypeInv, Commit(w), UNCHANGED <<sched, apiVars>>
  PROVE  TypeInv'
<1>1. pend' \in [Workers -> Nat]
  BY DEF Commit, NoteOffset, TypeInv, TypeOK, PartitionType, ConsumerType, Loops
<1>2. Idle.pc = "idle"
  BY DEF Idle
<1>3. QED
  BY <1>1, <1>2, IdleType DEF TypeInv, TypeOK, StoreType, PartitionType,
     FaultsType, ConsumerType, SchedulerType, ApiType, InRange, Busy,
     storeVars, partitionVars, groupVars, apiVars, consVars, sends, Commit, Loops

-----------------------------------------------------------------------------
(* The scheduler.                                                          *)

\* A pass at rest is a pass.
LEMMA AtRestType == AtRest \in Passes
<1>1. [n \in Notifs |-> NoRow] \in [Notifs -> Rows]
  BY RowFacts
<1>2. QED
  BY <1>1 DEF AtRest, Passes, SchedulerPCs

\* A listing of rows is a pass.
LEMMA ListingType ==
  ASSUME NEW pc \in SchedulerPCs, NEW S \in SUBSET Notifs, row \in [Notifs -> Rows]
  PROVE  Listing(pc, S) \in Passes
<1> DEFINE f == [n \in Notifs |-> IF n \in S THEN row[n] ELSE NoRow]
<1>1. f \in [Notifs -> Rows]
  BY RowFacts
<1>2. Listing(pc, S) = [AtRest EXCEPT !.pc = pc, !.todo = S, !.copy = f]
  BY DEF Listing
<1> HIDE DEF f
<1>3. QED
  BY <1>1, <1>2, AtRestType DEF Passes

\* What follows a pass is a pass.
LEMMA AdvanceType ==
  ASSUME NEW s \in Passes
  PROVE  Advance(s) \in Passes
<1>1. \A pc \in SchedulerPCs : [AtRest EXCEPT !.pc = pc] \in Passes
  BY AtRestType DEF Passes
<1>2. QED
  BY <1>1 DEF Advance, SchedulerPCs

\* A pass starts with copies of rows.
LEMMA ListType ==
  ASSUME NEW w \in Workers, TypeInv, ListDue(w) \/ ListStuck(w),
         UNCHANGED <<consVars, apiVars>>
  PROVE  TypeInv'
<1>1. \E pc \in SchedulerPCs, S \in SUBSET Notifs : List(w, pc, S)
  BY DEF ListDue, ListStuck, ListDueScheduled, ListStuckProcessing, SchedulerPCs,
     TypeInv, TypeOK, StoreType
<1>2. sched' \in [Workers -> Passes]
  BY <1>1, ListingType DEF List, TypeInv, TypeOK, StoreType, SchedulerType
<1>3. QED
  BY <1>1, <1>2 DEF List, TypeInv, TypeOK, StoreType, PartitionType,
     FaultsType, ConsumerType, SchedulerType, ApiType, InRange, Busy,
     storeVars, partitionVars, groupVars, apiVars, consVars

\* A tick ends with the scheduler at rest.
LEMMA EndTickType ==
  ASSUME NEW w \in Workers, TypeInv, EndTick(w), UNCHANGED <<consVars, apiVars>>
  PROVE  TypeInv'
<1>1. sched' \in [Workers -> Passes]
  BY AtRestType DEF EndTick, TypeInv, TypeOK, SchedulerType
<1>2. QED
  BY <1>1 DEF EndTick, TypeInv, TypeOK, StoreType, PartitionType,
     FaultsType, ConsumerType, SchedulerType, ApiType, InRange, Busy,
     storeVars, partitionVars, groupVars, apiVars, consVars

\* A listed copy is written back as a row.
LEMMA ResetType ==
  ASSUME NEW w \in Workers, TypeInv, Reset(w), UNCHANGED <<consVars, apiVars>>
  PROVE  TypeInv'
<1>1. PICK n \in sched[w].todo :
        LET s == [sched[w] EXCEPT !.todo = @ \ {n}, !.copy[n] = NoRow]
            r == [sched[w].copy[n] EXCEPT !.status = "pending"]
        IN \/ /\ CallOk(w)
              /\ UpdateStatus(n, r)
              /\ sched' = [sched EXCEPT ![w] = [s EXCEPT !.cur = n]]
              /\ UNCHANGED lost
           \/ /\ CallFails(w, UpdateStatus(n, r) /\ lost' = lost \cup {n},
                              UNCHANGED <<row, aged, lost>>)
              /\ sched' = [sched EXCEPT ![w] = Advance(s)]
  BY DEF Reset
<1> DEFINE s == [sched[w] EXCEPT !.todo = @ \ {n}, !.copy[n] = NoRow]
           r == [sched[w].copy[n] EXCEPT !.status = "pending"]
<1>2. /\ n \in Notifs
      /\ sched[w] \in Passes
      /\ sched[w].copy[n] \in Rows
  BY DEF TypeInv, TypeOK, SchedulerType, Passes
<1>3. s \in Passes /\ r \in Rows
  BY <1>2, RowFacts DEF Passes
<1>4. [s EXCEPT !.cur = n] \in Passes
  BY <1>2, <1>3 DEF Passes
<1>5. /\ sched' = [sched EXCEPT ![w] = [s EXCEPT !.cur = n]]
         \/ sched' = [sched EXCEPT ![w] = Advance(s)]
      /\ lost' \in {lost, lost \cup {n}}
      /\ UpdateStatus(n, r) \/ UNCHANGED <<row, aged>>
      /\ UNCHANGED <<due, batch, log, groupVars, stopping>>
  BY <1>1 DEF CallFails, Reset
<1>6. faults' \in [FaultKinds -> Nat]
  BY <1>1, KindFacts, SpendType DEF CallOk, CallFails, Struck, TypeInv, TypeOK,
     FaultsType
<1> HIDE DEF s, r
<1>7. sched' \in [Workers -> Passes]
  BY <1>3, <1>4, <1>5, AdvanceType DEF TypeInv, TypeOK, SchedulerType
<1>8. row' \in [Notifs -> Rows] /\ aged' \subseteq Notifs /\ lost' \subseteq Notifs
  BY <1>2, <1>3, <1>5 DEF UpdateStatus, TypeInv, TypeOK, StoreType, PartitionType
<1>9. QED
  BY <1>5, <1>6, <1>7, <1>8 DEF TypeInv, TypeOK, StoreType, PartitionType,
     FaultsType, ConsumerType, SchedulerType, ApiType, InRange, Busy,
     storeVars, partitionVars, groupVars, apiVars, consVars

\* The scheduler enqueues a notification.
LEMMA EnqueueType ==
  ASSUME NEW w \in Workers, TypeInv, Enqueue(w), UNCHANGED <<consVars, apiVars>>
  PROVE  TypeInv'
<1>1. sched[w].cur \in Notifs
  BY DEF Enqueue, TypeInv, TypeOK, SchedulerType, Passes
<1>2. faults' \in [FaultKinds -> Nat]
  BY KindFacts, SpendType DEF Enqueue, CallOk, PublishFails, Struck, TypeInv, TypeOK, FaultsType
<1>3. sched' \in [Workers -> Passes]
  <2>1. [sched[w] EXCEPT !.cur = NoNotif] \in Passes
    BY DEF TypeInv, TypeOK, SchedulerType, Passes
  <2>2. QED
    BY <2>1, AdvanceType DEF Enqueue, TypeInv, TypeOK, SchedulerType
<1>4. /\ log' \in Seq(Notifs)
      /\ Len(log) \in Nat
      /\ Len(log') \in {Len(log), Len(log) + 1}
      /\ lost' \subseteq Notifs
  <2>1. Publish(sched[w].cur) \/ \E kept \in BOOLEAN : PublishErrs(sched[w].cur, kept)
    BY DEF Enqueue, PublishFails
  <2>2. QED
    BY <1>1, <2>1, PublishFacts DEF TypeInv, TypeOK, PartitionType
<1>5. InRange'
  BY <1>4 DEF TypeInv, TypeOK, ConsumerType, Loops, InRange, Busy, Enqueue, consVars, apiVars
<1>6. QED
  BY <1>2, <1>3, <1>4, <1>5 DEF Enqueue, TypeInv, TypeOK, StoreType, PartitionType,
     FaultsType, ConsumerType, SchedulerType, ApiType, InRange, Busy,
     storeVars, partitionVars, groupVars, apiVars, consVars

-----------------------------------------------------------------------------
(* The group.                                                              *)

\* Assignment, revocation and commits keep the offsets natural numbers.
LEMMA GroupType ==
  ASSUME NEW w \in Workers, TypeInv, GroupStep(w)
  PROVE  TypeInv'
<1>1. /\ UNCHANGED <<log, lost, stopping, storeVars, consVars, sched, apiVars>>
      /\ Assign(w) \/ Revoke(w) \/ Flush(w)
  BY DEF GroupStep, Assign, Revoke, Flush
<1>2. faults' \in [FaultKinds -> Nat]
  BY <1>1, KindFacts, SpendType DEF Assign, Revoke, Flush, TypeInv, TypeOK, FaultsType
<1>3. /\ committed' \in Nat
      /\ owner' \in Workers \cup {NoWorker}
      /\ zombies' \subseteq Workers
      /\ next' \in [Workers -> Nat \ {0}]
      /\ pend' \in [Workers -> Nat]
  BY <1>1 DEF Assign, Revoke, Flush, TypeInv, TypeOK, PartitionType
<1>4. QED
  BY <1>1, <1>2, <1>3 DEF TypeInv, TypeOK, StoreType, PartitionType,
     FaultsType, ConsumerType, SchedulerType, ApiType, InRange, Busy,
     storeVars, partitionVars, groupVars, apiVars, consVars

-----------------------------------------------------------------------------
(* The API.                                                                *)

\* Create stores a row.
LEMMA CreateType ==
  ASSUME NEW n \in Notifs, TypeInv, Create(n), UNCHANGED <<consVars, sched>>
  PROVE  TypeInv'
<1>1. row' \in [Notifs -> Rows] /\ UNCHANGED <<due, aged, batch>>
  BY RowFacts DEF Create, Insert, TypeInv, TypeOK, StoreType
<1>2. unpublished' \subseteq Notifs
  BY DEF Create, TypeInv, TypeOK, ApiType
<1>3. QED
  BY <1>1, <1>2 DEF Create, TypeInv, TypeOK, StoreType, PartitionType,
     FaultsType, ConsumerType, SchedulerType, ApiType, InRange, Busy,
     storeVars, partitionVars, groupVars, apiVars, consVars

\* CreateBatch stores rows and a counter.
LEMMA CreateBatchType ==
  ASSUME TypeInv, CreateBatch, UNCHANGED <<consVars, sched>>
  PROVE  TypeInv'
<1>1. PICK later \in SUBSET Batched :
        InsertBatch(later) /\ unpublished' = unpublished \cup (Batched \ later)
  BY DEF CreateBatch
<1>2. row' \in [Notifs -> Rows]
  <2>1. \A n \in Notifs : NewNotification(n \in later) \in Rows
    BY DEF NewNotification, Rows, Statuses
  <2>2. QED
    BY <1>1, <2>1 DEF InsertBatch, TypeInv, TypeOK, StoreType
<1>3. batch' \in [{"pending", "delivered", "failed", "cancelled"} -> Int]
  <2>1. Cardinality(Batched) \in Int
    BY BatchedAssumption, FS_CardinalityType
  <2>2. QED
    BY <1>1, <2>1 DEF InsertBatch, TypeInv, TypeOK, StoreType
<1>4. unpublished' \subseteq Notifs
  BY <1>1, BatchedAssumption DEF TypeInv, TypeOK, ApiType
<1>5. UNCHANGED <<due, aged>>
  BY <1>1 DEF InsertBatch
<1>6. QED
  BY <1>2, <1>3, <1>4, <1>5 DEF CreateBatch, TypeInv, TypeOK, StoreType, PartitionType,
     FaultsType, ConsumerType, SchedulerType, ApiType, InRange, Busy,
     storeVars, partitionVars, groupVars, apiVars, consVars

\* The API publishes a notification.
LEMMA PublishNewType ==
  ASSUME NEW n \in Notifs, TypeInv, PublishNew(n), UNCHANGED <<consVars, sched>>
  PROVE  TypeInv'
<1>1. faults' \in [FaultKinds -> Nat]
  BY KindFacts, SpendType DEF PublishNew, TypeInv, TypeOK, FaultsType
<1>2. /\ log' \in Seq(Notifs)
      /\ Len(log) \in Nat
      /\ Len(log') \in {Len(log), Len(log) + 1}
      /\ lost' \subseteq Notifs
  <2>1. Publish(n) \/ \E kept \in BOOLEAN : PublishErrs(n, kept)
    BY DEF PublishNew
  <2>2. QED
    BY <2>1, PublishFacts DEF TypeInv, TypeOK, PartitionType
<1>3. InRange'
  BY <1>2 DEF TypeInv, TypeOK, ConsumerType, Loops, InRange, Busy, PublishNew, consVars
<1>4. QED
  BY <1>1, <1>2, <1>3 DEF PublishNew, TypeInv, TypeOK, StoreType, PartitionType,
     FaultsType, ConsumerType, SchedulerType, ApiType, InRange, Busy,
     storeVars, partitionVars, groupVars, apiVars, consVars

\* A cancel request moves through its places and writes a row.
LEMMA CancelType ==
  ASSUME NEW q \in Requests, TypeInv, CancelStep(q), UNCHANGED <<consVars, sched>>
  PROVE  TypeInv'
<1>1. CASE CancelRead(q)
  <2>1. PICK n \in Notifs : req' = [req EXCEPT ![q] = [pc |-> "update", id |-> n]]
    BY <1>1 DEF CancelRead
  <2>2. req' \in [Requests -> [pc : RequestPCs, id : Notifs \cup {NoNotif}]]
    BY <2>1 DEF TypeInv, TypeOK, ApiType, RequestPCs
  <2>3. \A p \in Requests : req'[p].pc \in {"update", "count"} => req'[p].id \in Notifs
    BY <2>1 DEF TypeInv, TypeOK, ApiType, InRange
  <2>4. faults' \in [FaultKinds -> Nat]
    BY <1>1, KindFacts, SpendType DEF CancelRead, TypeInv, TypeOK, FaultsType
  <2>5. QED
    BY <1>1, <2>2, <2>3, <2>4 DEF CancelRead, TypeInv, TypeOK, StoreType, PartitionType,
     FaultsType, ConsumerType, SchedulerType, ApiType, InRange, Busy,
     storeVars, partitionVars, groupVars, apiVars, consVars
<1>2. CASE CancelUpdate(q)
  <2> DEFINE n == req[q].id
  <2>1. n \in Notifs
    BY <1>2 DEF CancelUpdate, TypeInv, InRange
  <2>2. \E pc \in {"count", "done"} : Answer(q, pc)
    BY <1>2 DEF CancelUpdate
  <2>3. CancelRow(n) \/ UNCHANGED <<row, aged>>
    BY <1>2 DEF CancelUpdate
  <2>4. row' \in [Notifs -> Rows] /\ aged' \subseteq Notifs
    <3>1. row[n] \in Rows
      BY <2>1 DEF TypeInv, TypeOK, StoreType
    <3>2. [row[n] EXCEPT !.status = "cancelled"] \in Rows
      BY <3>1, RowFacts
    <3>3. QED
      BY <2>3, <3>2 DEF CancelRow, UpdateStatus, TypeInv, TypeOK, StoreType
  <2>5. faults' \in [FaultKinds -> Nat]
    BY <1>2, KindFacts, SpendType DEF CancelUpdate, TypeInv, TypeOK, FaultsType
  <2>6. cancelOk' \subseteq Requests
    BY <1>2, <2>1 DEF CancelUpdate, TypeInv, TypeOK, ApiType
  <2>7. /\ req' \in [Requests -> [pc : RequestPCs, id : Notifs \cup {NoNotif}]]
        /\ \A p \in Requests : req'[p].pc \in {"update", "count"} => req'[p].id \in Notifs
    BY <2>1, <2>2 DEF Answer, TypeInv, TypeOK, ApiType, RequestPCs, InRange
  <2>8. QED
    BY <1>2, <2>4, <2>5, <2>6, <2>7 DEF CancelUpdate, TypeInv, TypeOK, StoreType, PartitionType,
     FaultsType, ConsumerType, SchedulerType, ApiType, InRange, Busy,
     storeVars, partitionVars, groupVars, apiVars, consVars
<1>3. CASE CancelCount(q)
  <2>1. batch' \in [{"pending", "delivered", "failed", "cancelled"} -> Int]
    <3>1. UNCHANGED batch \/ IncrementBatchCounter(req[q].id, "cancelled")
      BY <1>3 DEF CancelCount
    <3>2. QED
      BY <3>1, CounterType DEF TypeInv, TypeOK, StoreType
  <2>2. faults' \in [FaultKinds -> Nat]
    BY <1>3, KindFacts, SpendType DEF CancelCount, TypeInv, TypeOK, FaultsType
  <2>3. /\ req' \in [Requests -> [pc : RequestPCs, id : Notifs \cup {NoNotif}]]
        /\ \A p \in Requests : req'[p].pc \in {"update", "count"} => req'[p].id \in Notifs
    BY <1>3 DEF CancelCount, Answer, TypeInv, TypeOK, ApiType, RequestPCs, InRange
  <2>4. QED
    BY <1>3, <2>1, <2>2, <2>3 DEF CancelCount, TypeInv, TypeOK, StoreType, PartitionType,
     FaultsType, ConsumerType, SchedulerType, ApiType, InRange, Busy,
     storeVars, partitionVars, groupVars, apiVars, consVars
<1>4. QED
  BY <1>1, <1>2, <1>3 DEF CancelStep

\* A crash of the API ends its requests.
LEMMA ApiCrashType ==
  ASSUME TypeInv, ApiCrash, UNCHANGED <<consVars, sched>>
  PROVE  TypeInv'
<1>1. faults' \in [FaultKinds -> Nat]
  BY KindFacts, SpendType DEF ApiCrash, TypeInv, TypeOK, FaultsType
<1>2. req' \in [Requests -> [pc : RequestPCs, id : Notifs \cup {NoNotif}]]
  <2>1. \A q \in Requests : [req[q] EXCEPT !.pc = "done"] \in
                                [pc : RequestPCs, id : Notifs \cup {NoNotif}]
    BY DEF TypeInv, TypeOK, ApiType, RequestPCs
  <2>2. QED
    BY <2>1 DEF ApiCrash, TypeInv, TypeOK, ApiType
<1>3. \A q \in Requests : req'[q].pc \in {"new", "done"}
  <2>1. \A q \in Requests : [req[q] EXCEPT !.pc = "done"].pc = "done"
    BY DEF TypeInv, TypeOK, ApiType
  <2>2. QED
    BY <2>1 DEF ApiCrash
<1>4. lost' \subseteq Notifs /\ unpublished' \subseteq Notifs
  BY DEF ApiCrash, TypeInv, TypeOK, PartitionType, ApiType
<1>5. QED
  BY <1>1, <1>2, <1>3, <1>4 DEF ApiCrash, TypeInv, TypeOK, StoreType, PartitionType,
     FaultsType, ConsumerType, SchedulerType, ApiType, InRange, Busy,
     storeVars, partitionVars, groupVars, apiVars, consVars

-----------------------------------------------------------------------------
(* Time, shutdown and crashes.                                             *)

\* Time passes over known notifications.
LEMMA TimeType ==
  ASSUME NEW n \in Notifs, TypeInv, FallDue(n) \/ Age(n)
  PROVE  TypeInv'
<1>1. faults' \in [FaultKinds -> Nat]
  BY KindFacts, SpendType DEF FallDue, Age, TypeInv, TypeOK, FaultsType
<1>2. /\ due' \subseteq Notifs
      /\ aged' \subseteq Notifs
  BY DEF FallDue, Age, TypeInv, TypeOK, StoreType
<1>3. UNCHANGED <<row, batch, partitionVars, consVars, sched, apiVars, stopping>>
  BY DEF FallDue, Age
<1>4. QED
  BY <1>1, <1>2, <1>3 DEF TypeInv, TypeOK, StoreType, PartitionType,
     FaultsType, ConsumerType, SchedulerType, ApiType, InRange, Busy,
     storeVars, partitionVars, groupVars, apiVars, consVars

\* A worker is told to stop.
LEMMA StopType ==
  ASSUME NEW w \in Workers, TypeInv, Stop(w)
  PROVE  TypeInv'
<1>1. faults' \in [FaultKinds -> Nat]
  BY KindFacts, SpendType DEF Stop, TypeInv, TypeOK, FaultsType
<1>2. QED
  BY <1>1 DEF Stop, TypeInv, TypeOK, StoreType, PartitionType,
     FaultsType, ConsumerType, SchedulerType, ApiType, InRange, Busy,
     storeVars, partitionVars, groupVars, apiVars, consVars

\* A worker ends with its loops at rest.
LEMMA PerishType ==
  ASSUME NEW w \in Workers, NEW final \in BOOLEAN, TypeInv,
         Leave(w, final), Perish(w), faults' \in [FaultKinds -> Nat]
  PROVE  TypeInv'
<1>1. /\ committed' \in Nat
      /\ owner' \in Workers \cup {NoWorker}
      /\ zombies' \subseteq Workers
      /\ pend' \in [Workers -> Nat]
  BY DEF Leave, TypeInv, TypeOK, PartitionType
<1>2. cons' \in [Workers -> Loops]
  BY IdleType DEF Perish, TypeInv, TypeOK, ConsumerType
<1>3. sched' \in [Workers -> Passes]
  BY AtRestType DEF Perish, TypeInv, TypeOK, SchedulerType
<1>4. lost' \subseteq Notifs
  BY DEF Perish, TypeInv, TypeOK, PartitionType, SchedulerType, Passes
<1>5. \A v \in Workers : Busy(v)' => Busy(v) /\ cons'[v] = cons[v]
  BY DEF Perish, Idle, Busy, TypeInv, TypeOK, ConsumerType
<1>6. QED
  BY <1>1, <1>2, <1>3, <1>4, <1>5 DEF sends, Perish, Leave, TypeInv, TypeOK, StoreType, PartitionType,
     FaultsType, ConsumerType, SchedulerType, ApiType, InRange, Busy,
     storeVars, partitionVars, groupVars, apiVars, consVars

\* So it does on an orderly exit.
LEMMA ExitType ==
  ASSUME NEW w \in Workers, TypeInv, Exit(w)
  PROVE  TypeInv'
BY PerishType DEF Exit, TypeInv, TypeOK, FaultsType

\* And on a crash.
LEMMA CrashType ==
  ASSUME NEW w \in Workers, TypeInv, Crash(w)
  PROVE  TypeInv'
<1>1. faults' \in [FaultKinds -> Nat]
  BY KindFacts, SpendType DEF Crash, TypeInv, TypeOK, FaultsType
<1>2. QED
  BY <1>1, PerishType DEF Crash

-----------------------------------------------------------------------------
\* The initial state is well typed.
LEMMA TypeInvInit == Init => TypeInv
<1> SUFFICES ASSUME Init PROVE TypeInv
  OBVIOUS
<1>1. StoreType
  BY RowFacts DEF Init, StoreInit, StoreType
<1>2. PartitionType
  BY DEF Init, PartitionInit, PartitionType
<1>3. FaultsType
  BY DEF Init, FaultsInit, FaultsType
<1>4. ConsumerType /\ \A w \in Workers : ~Busy(w)
  BY IdleType DEF Init, ConsumerInit, ConsumerType, Busy, Idle
<1>5. SchedulerType
  BY AtRestType DEF Init, SchedulerInit, SchedulerType
<1>6. ApiType /\ \A q \in Requests : req[q].pc = "new"
  BY DEF Init, ApiInit, ApiType, RequestPCs
<1>7. QED
  BY <1>1, <1>2, <1>3, <1>4, <1>5, <1>6 DEF TypeInv, TypeOK, InRange

\* A stutter changes no type.
LEMMA TypeInvUnchanged ==
  ASSUME TypeInv, UNCHANGED vars
  PROVE  TypeInv'
BY DEF vars, TypeInv, TypeOK, StoreType, PartitionType,
     FaultsType, ConsumerType, SchedulerType, ApiType, InRange, Busy,
     storeVars, partitionVars, groupVars, apiVars, consVars

\* Every step of the system keeps every variable in its type.
LEMMA TypeInvStep == TypeInv /\ [Next]_vars => TypeInv'
<1> SUFFICES ASSUME TypeInv, [Next]_vars PROVE TypeInv'
  OBVIOUS
<1>1. ASSUME NEW w \in Workers, WorkerStep(w) PROVE TypeInv'
  <2>1. CASE ConsumerStep(w) /\ UNCHANGED <<sched, apiVars>>
    BY <2>1, FetchType, LoadType, MarkType, SendType, SettleType, CountType,
       RepublishType, CommitType DEF ConsumerStep
  <2>2. CASE SchedulerStep(w) /\ UNCHANGED <<consVars, apiVars>>
    BY <2>2, ListType, EndTickType, ResetType, EnqueueType DEF SchedulerStep
  <2>3. QED
    BY <1>1, <2>1, <2>2, ExitType DEF WorkerStep
<1>2. CASE ApiStep
  BY <1>2, CreateType, CreateBatchType, PublishNewType, CancelType, ApiCrashType
     DEF ApiStep
<1>3. CASE UNCHANGED vars
  BY <1>3, TypeInvUnchanged
<1>4. QED
  BY <1>1, <1>2, <1>3, GroupType, StopType, CrashType, TimeType DEF Next, Quiescent

\* In every reachable state of the delivery path every variable holds a value
\* of its kind; in particular retry_count never drops below zero and a busy
\* consumer works on a message that exists.
THEOREM TypesAlways == Safety => []TypeInv
BY TypeInvInit, TypeInvStep, PTL DEF Safety

\* In every reachable state every variable holds a value of its kind (the
\* invariant the runs check, for any number of workers, notifications and faults).
THEOREM TypeCorrect == Safety => []TypeOK
<1>1. TypeInv => TypeOK
  BY DEF TypeInv
<1>2. QED
  BY <1>1, TypesAlways, PTL

-----------------------------------------------------------------------------
(* The inductive invariants, on top of TypeInv.                            *)

\* Every cursor stands on handled ground: what the broker keeps, what a worker
\* has asked to commit, and what lies behind a reader, the message its handler
\* is at excepted.
CursorsCovered ==
    /\ handled \subseteq 1..Len(log)
    /\ \A i \in 1..committed : i \in handled
    /\ \A w \in Workers :
         /\ \A i \in 1..pend[w] : i \in handled
         /\ Busy(w) => \A i \in 1..(cons[w].off - 1) : i \in handled
         /\ Reads(w) => \A i \in 1..(next[w] - 1) :
                           i \in handled \/ (Busy(w) /\ cons[w].off = i)

\* The copy a handler writes back never says pending.
CopiesSettle ==
    \A w \in Workers :
       /\ cons[w].pc \in {"mark", "send"} => cons[w].copy.status = "processing"
       /\ cons[w].pc \in {"settle", "count"} =>
             cons[w].copy.status \in {"processing", "delivered", "failed"}

\* A scheduler between two passes has nothing in hand.
RestingHands ==
    \A w \in Workers : sched[w].pc \in {"idle", "recover"} => sched[w].cur = NoNotif

\* Message i of n is still going to meet the row of n: no handler is past the
\* point where it has seen or overwritten the status.
WillSee(n, i) ==
    /\ log[i] = n
    /\ i \notin handled
    /\ \A w \in Workers : Busy(w) /\ cons[w].off = i =>
                             cons[w].pc \in {"get", "mark", "republish"}

Seen(n) == \/ n \in lost
           \/ n \in unpublished
           \/ \E w \in Workers : sched[w].cur = n
           \/ \E i \in 1..Len(log) : WillSee(n, i)

PendingIsSeen == \A n \in Notifs : row[n].status = "pending" => Seen(n)

-----------------------------------------------------------------------------
(* CursorsCovered.                                                         *)

\* Steps that leave the cursors, handled and every loop's place in the log
\* alone, whatever else they do.
LEMMA CursorsKept ==
  ASSUME TypeInv, CursorsCovered, UNCHANGED <<groupVars, handled>>,
         Len(log) \in Nat, Len(log') \in Nat, Len(log) <= Len(log'),
         \A v \in Workers : (Busy(v)' <=> Busy(v)) /\ cons'[v].off = cons[v].off
  PROVE  CursorsCovered'
BY DEF CursorsCovered, groupVars, Reads

\* A fetched message is in hand before the reader's offset passes it.
LEMMA FetchCursors ==
  ASSUME NEW w \in Workers, TypeInv, CursorsCovered, Fetch(w)
  PROVE  CursorsCovered'
<1>1. /\ next[w] \in 1..Len(log)
      /\ next'[w] = next[w] + 1
      /\ ~Busy(w) /\ Busy(w)' /\ cons'[w].off = next[w]
      /\ \A i \in 1..(next[w] - 1) : i \in handled
  <2>1. cons \in [Workers -> Loops] /\ next \in [Workers -> Nat \ {0}] /\ log \in Seq(Notifs)
    BY DEF TypeInv, TypeOK, PartitionType, ConsumerType
  <2>2. /\ cons[w].pc = "idle" /\ Reads(w) /\ next[w] <= Len(log)
        /\ cons'[w] = [pc |-> "get", off |-> next[w], copy |-> NoRow]
        /\ next'[w] = next[w] + 1
    BY <2>1 DEF Fetch
  <2>3. \A i \in 1..(next[w] - 1) : i \in handled
    BY <2>1, <2>2 DEF CursorsCovered, Busy
  <2>4. QED
    BY <2>1, <2>2, <2>3 DEF Busy
<1>2. \A v \in Workers \ {w} : next'[v] = next[v] /\ cons'[v] = cons[v] /\ (Busy(v)' <=> Busy(v))
  BY DEF Fetch, TypeInv, TypeOK, PartitionType, ConsumerType, Busy
<1>3. UNCHANGED <<log, committed, owner, zombies, pend, handled>>
  BY DEF Fetch
<1>4. ASSUME NEW i \in 1..(next'[w] - 1)
      PROVE  i \in handled \/ i = next[w]
  BY <1>1, <1>4
<1>5. QED
  BY <1>1, <1>2, <1>3, <1>4 DEF CursorsCovered, Reads

\* A step inside the loop between Fetch and Commit.
LEMMA HandlerKeepsCursors ==
  ASSUME NEW w \in Workers, TypeInv, CursorsCovered,
         Load(w) \/ Mark(w) \/ Send(w) \/ Settle(w) \/ Count(w) \/ Republish(w)
  PROVE  CursorsCovered'
<1>1. PICK pc \in {"mark", "send", "settle", "count", "republish", "commit"} :
        \E r : Goto(w, pc, r)
  BY DEF Load, Mark, Send, Settle, Count, Republish
<1>2. Busy(w) /\ \A v \in Workers : (Busy(v)' <=> Busy(v)) /\ cons'[v].off = cons[v].off
  <2>1. Busy(w)
    BY DEF Busy, Load, Mark, Send, Settle, Count, Republish
  <2>2. /\ \A v \in Workers \ {w} : cons'[v] = cons[v]
        /\ cons'[w].off = cons[w].off
        /\ cons'[w].pc = pc
    BY <1>1, GotoPlace DEF TypeInv, TypeOK, ConsumerType
  <2>3. QED
    BY <2>1, <2>2 DEF Busy
<1>3. UNCHANGED <<groupVars, handled>>
  BY DEF Load, Mark, Send, Settle, Count, Republish, partitionVars, groupVars
<1>4. log' = log \/ Publish(Msg(w)) \/ \E kept \in BOOLEAN : PublishErrs(Msg(w), kept)
  BY DEF Load, Mark, Send, Settle, Count, Republish, partitionVars, PublishFails
<1>5. Len(log) \in Nat /\ Len(log') \in Nat /\ Len(log) <= Len(log')
  BY <1>2, <1>4, MsgType, PublishFacts DEF TypeInv, TypeOK, PartitionType
<1>6. QED
  BY <1>2, <1>3, <1>5, CursorsKept

\* The loop notes an offset whose iteration ends with this very step.
LEMMA CommitCursors ==
  ASSUME NEW w \in Workers, TypeInv, CursorsCovered, Commit(w)
  PROVE  CursorsCovered'
<1> DEFINE o == cons[w].off
<1>1. /\ Busy(w) /\ ~Busy(w)'
      /\ o \in 1..Len(log)
      /\ \A v \in Workers \ {w} : cons'[v] = cons[v] /\ (Busy(v)' <=> Busy(v))
  BY DEF Commit, Busy, Idle, TypeInv, TypeOK, InRange, ConsumerType
<1>2. /\ handled' = handled \cup {o}
      /\ UNCHANGED <<log, committed, owner, zombies, next>>
  BY DEF Commit
<1>3. /\ pend'[w] \in {pend[w], o}
      /\ \A v \in Workers \ {w} : pend'[v] = pend[v]
  BY DEF Commit, NoteOffset, TypeInv, TypeOK, PartitionType
<1>4. \A i \in 1..o : i \in handled'
  BY <1>1, <1>2 DEF CursorsCovered
<1>5. QED
  BY <1>1, <1>2, <1>3, <1>4, ZenonT(60) DEF CursorsCovered, Reads

\* Whoever takes the partition starts at the committed offset, below which
\* all is handled; what a flush commits was noted before.
LEMMA GroupCursors ==
  ASSUME NEW w \in Workers, TypeInv, CursorsCovered, GroupStep(w)
  PROVE  CursorsCovered'
<1>1. /\ UNCHANGED <<log, cons, handled>>
      /\ \A v \in Workers : Busy(v)' <=> Busy(v)
  BY DEF GroupStep, Assign, Revoke, Flush, consVars, Busy
<1>2. CASE Assign(w)
  <2>1. /\ next'[w] = committed + 1
        /\ \A v \in Workers \ {w} : next'[v] = next[v]
        /\ \A v \in Workers \ {w} : Reads(v)' => Reads(v)
        /\ UNCHANGED <<committed, pend>>
    BY <1>2 DEF Assign, Reads, TypeInv, TypeOK, PartitionType
  <2>2. \A i \in 1..(next'[w] - 1) : i \in handled
    BY <2>1 DEF CursorsCovered, TypeInv, TypeOK, PartitionType
  <2>3. QED
    BY <1>1, <2>1, <2>2 DEF CursorsCovered
<1>3. CASE Revoke(w)
  BY <1>1, <1>3 DEF Revoke, Reads, CursorsCovered
<1>4. CASE Flush(w)
  <2>1. /\ committed' \in {committed, pend[w]}
        /\ \A v \in Workers : pend'[v] \in {pend[v], 0}
        /\ UNCHANGED <<owner, zombies, next>>
    BY <1>4 DEF Flush, TypeInv, TypeOK, PartitionType
  <2>2. QED
    BY <1>1, <2>1 DEF CursorsCovered, Reads
<1>5. QED
  BY <1>2, <1>3, <1>4 DEF GroupStep

\* A worker that ends leaves the group, so nothing depends on its reader.
LEMMA PerishCursors ==
  ASSUME NEW w \in Workers, NEW final \in BOOLEAN, TypeInv, CursorsCovered,
         Leave(w, final), Perish(w)
  PROVE  CursorsCovered'
<1>1. /\ ~Busy(w)'
      /\ \A v \in Workers \ {w} : cons'[v] = cons[v] /\ (Busy(v)' <=> Busy(v))
      /\ UNCHANGED <<log, next, handled>>
  BY DEF Perish, Leave, Idle, Busy, TypeInv, TypeOK, ConsumerType
<1>2. /\ committed' \in {committed, pend[w]}
      /\ \A v \in Workers : pend'[v] \in {pend[v], 0}
      /\ ~Reads(w)'
      /\ \A v \in Workers : Reads(v)' => Reads(v)
  BY NoWorkerAssumption DEF Leave, Reads, TypeInv, TypeOK, PartitionType
<1>3. QED
  BY <1>1, <1>2 DEF CursorsCovered

\* The steps outside the consumer and the group publish at most.
LEMMA OthersKeepCursors ==
  ASSUME TypeInv, CursorsCovered, UNCHANGED <<consVars, groupVars>>,
         \/ UNCHANGED log
         \/ \E n \in Notifs : Publish(n) \/ \E kept \in BOOLEAN : PublishErrs(n, kept)
  PROVE  CursorsCovered'
<1>1. Len(log) \in Nat /\ Len(log') \in Nat /\ Len(log) <= Len(log')
  BY PublishFacts DEF TypeInv, TypeOK, PartitionType
<1>2. QED
  BY <1>1, CursorsKept DEF consVars, Busy

\* The scheduler only adds messages at the end.
LEMMA SchedulerKeepsCursors ==
  ASSUME NEW w \in Workers, TypeInv, CursorsCovered, SchedulerStep(w),
         UNCHANGED <<consVars, apiVars>>
  PROVE  CursorsCovered'
<1>1. CASE Enqueue(w)
  <2>1. sched[w].cur \in Notifs
    BY <1>1 DEF Enqueue, TypeInv, TypeOK, SchedulerType, Passes
  <2>2. QED
    BY <1>1, <2>1, OthersKeepCursors DEF Enqueue, PublishFails
<1>2. CASE Reset(w)
  BY <1>2, OthersKeepCursors DEF Reset
<1>3. CASE ListDue(w) \/ ListStuck(w) \/ EndTick(w)
  BY <1>3, OthersKeepCursors DEF ListDue, ListStuck, List, EndTick, partitionVars, groupVars
<1>4. QED
  BY <1>1, <1>2, <1>3 DEF SchedulerStep

\* So does the API.
LEMMA ApiKeepsCursors ==
  ASSUME TypeInv, CursorsCovered, ApiStep
  PROVE  CursorsCovered'
<1>1. UNCHANGED consVars
  BY DEF ApiStep
<1>2. ASSUME NEW n \in Notifs, PublishNew(n) PROVE CursorsCovered'
  BY <1>1, <1>2, OthersKeepCursors DEF PublishNew
<1>3. ASSUME NEW n \in Notifs, Create(n) PROVE CursorsCovered'
  BY <1>1, <1>3, OthersKeepCursors DEF Create, partitionVars, groupVars
<1>4. CASE CreateBatch
  BY <1>1, <1>4, OthersKeepCursors DEF CreateBatch, partitionVars, groupVars
<1>5. ASSUME NEW q \in Requests, CancelStep(q) PROVE CursorsCovered'
  BY <1>1, <1>5, OthersKeepCursors DEF CancelStep, CancelRead, CancelUpdate,
     CancelCount, partitionVars, groupVars
<1>6. CASE ApiCrash
  BY <1>1, <1>6, OthersKeepCursors DEF ApiCrash
<1>7. QED
  BY <1>2, <1>3, <1>4, <1>5, <1>6 DEF ApiStep

\* Nothing is committed to begin with.
LEMMA CursorsInit == Init => CursorsCovered
BY DEF Init, PartitionInit, ConsumerInit, Idle, Busy, Reads, CursorsCovered

\* Every step keeps the readers and the committed offset behind the handlers.
LEMMA CursorsStep == TypeInv /\ CursorsCovered /\ [Next]_vars => CursorsCovered'
<1> SUFFICES ASSUME TypeInv, CursorsCovered, [Next]_vars PROVE CursorsCovered'
  OBVIOUS
<1>1. ASSUME NEW w \in Workers, WorkerStep(w) PROVE CursorsCovered'
  <2>1. CASE ConsumerStep(w)
    BY <2>1, FetchCursors, HandlerKeepsCursors, CommitCursors DEF ConsumerStep
  <2>2. CASE SchedulerStep(w) /\ UNCHANGED <<consVars, apiVars>>
    BY <2>2, SchedulerKeepsCursors
  <2>3. CASE Exit(w)
    BY <2>3, PerishCursors DEF Exit
  <2>4. QED
    BY <1>1, <2>1, <2>2, <2>3 DEF WorkerStep
<1>2. ASSUME NEW w \in Workers, Crash(w) PROVE CursorsCovered'
  BY <1>2, PerishCursors DEF Crash
<1>3. ASSUME NEW w \in Workers, Stop(w) PROVE CursorsCovered'
  BY <1>3, OthersKeepCursors DEF Stop, partitionVars, groupVars
<1>4. ASSUME NEW n \in Notifs, FallDue(n) \/ Age(n) PROVE CursorsCovered'
  BY <1>4, OthersKeepCursors DEF FallDue, Age, partitionVars, groupVars
<1>5. CASE UNCHANGED vars
  BY <1>5, OthersKeepCursors DEF vars, partitionVars, groupVars
<1>6. QED
  BY <1>1, <1>2, <1>3, <1>4, <1>5, GroupCursors, ApiKeepsCursors DEF Next, Quiescent

\* At least once: whatever crashes, shutdowns, rebalances and late commits of
\* zombies do, the offset the broker keeps never passes a message whose
\* handler has not run to its end.
THEOREM AtLeastOnce == Safety => []CommitsOnlyHandled
<1>1. CursorsCovered => CommitsOnlyHandled
  BY DEF CursorsCovered, CommitsOnlyHandled
<1>2. QED
  BY <1>1, TypesAlways, CursorsInit, CursorsStep, PTL DEF Safety

-----------------------------------------------------------------------------
(* CopiesSettle.                                                           *)

\* A loop that is sent to pc with copy r keeps CopiesSettle if that pair does.
LEMMA GotoCopies ==
  ASSUME NEW w \in Workers, NEW pc, NEW r, TypeInv, CopiesSettle, Goto(w, pc, r),
         pc \in {"mark", "send"} => r.status = "processing",
         pc \in {"settle", "count"} => r.status \in {"processing", "delivered", "failed"}
  PROVE  CopiesSettle'
<1>1. /\ \A v \in Workers \ {w} : cons'[v] = cons[v]
      /\ cons'[w].pc = pc
      /\ cons'[w].copy = r
  BY GotoPlace DEF TypeInv, TypeOK, ConsumerType
<1>2. QED
  BY <1>1 DEF CopiesSettle

\* The handler writes no row back to pending.
LEMMA ConsumerCopies ==
  ASSUME NEW w \in Workers, TypeInv, CopiesSettle, ConsumerStep(w)
  PROVE  CopiesSettle'
<1> DEFINE c == cons[w].copy
<1>1. c \in Rows /\ (Busy(w) => row[Msg(w)] \in Rows)
  BY MsgType DEF TypeInv, TypeOK, ConsumerType, Loops, StoreType
<1>2. CASE Fetch(w)
  BY <1>2 DEF Fetch, TypeInv, TypeOK, ConsumerType, CopiesSettle
<1>3. CASE Load(w)
  <2>1. MarkProcessing(row[Msg(w)]).status = "processing"
    BY <1>1, <1>3 DEF Load, Busy, MarkProcessing, Rows
  <2>2. \/ Goto(w, "commit", NoRow)
        \/ Goto(w, "mark", MarkProcessing(row[Msg(w)]))
        \/ Goto(w, "republish", NoRow)
    BY <1>3 DEF Load
  <2>3. QED
    BY <2>1, <2>2, GotoCopies
<1>4. CASE Mark(w)
  BY <1>4, GotoCopies DEF Mark, CopiesSettle
<1>5. CASE Send(w)
  <2>1. c.status = "processing"
    BY <1>5 DEF Send, CopiesSettle
  <2>2. /\ MarkDelivered(c).status = "delivered"
        /\ \A t \in BOOLEAN : AfterSendError(Msg(w), c, t).status \in {"processing", "failed"}
    BY <1>1, <2>1 DEF MarkDelivered, AfterSendError, IncrementRetry, MarkFailed, Rows
  <2>3. \/ Goto(w, "settle", MarkDelivered(c))
        \/ \E t \in BOOLEAN : Goto(w, "settle", AfterSendError(Msg(w), c, t))
    BY <1>5 DEF Send
  <2>4. QED
    BY <2>2, <2>3, GotoCopies
<1>6. CASE Settle(w)
  <2>1. c.status \in {"processing", "delivered", "failed"}
    BY <1>6 DEF Settle, CopiesSettle
  <2>2. \/ Goto(w, "republish", NoRow)
        \/ Goto(w, "count", c)
        \/ Goto(w, "commit", NoRow)
    BY <1>6 DEF Settle
  <2>3. QED
    BY <2>1, <2>2, GotoCopies
<1>7. CASE Count(w)
  BY <1>7, GotoCopies DEF Count
<1>8. CASE Republish(w)
  BY <1>8, GotoCopies DEF Republish
<1>9. CASE Commit(w)
  BY <1>9 DEF Commit, Idle, TypeInv, TypeOK, ConsumerType, CopiesSettle
<1>10. QED
  BY <1>2, <1>3, <1>4, <1>5, <1>6, <1>7, <1>8, <1>9 DEF ConsumerStep

\* No handler holds a copy to begin with.
LEMMA CopiesInit == Init => CopiesSettle
BY DEF Init, ConsumerInit, Idle, CopiesSettle

\* No step puts a pending copy into a handler's hands.
LEMMA CopiesStep == TypeInv /\ CopiesSettle /\ [Next]_vars => CopiesSettle'
<1> SUFFICES ASSUME TypeInv, CopiesSettle, [Next]_vars PROVE CopiesSettle'
  OBVIOUS
<1>1. CASE UNCHANGED cons
  BY <1>1 DEF CopiesSettle
<1>2. ASSUME NEW w \in Workers, Exit(w) \/ Crash(w) PROVE CopiesSettle'
  <2>1. cons' = [cons EXCEPT ![w] = Idle] /\ Idle.pc = "idle"
    BY <1>2 DEF Exit, Crash, Perish, Idle
  <2>2. QED
    BY <2>1 DEF TypeInv, TypeOK, ConsumerType, CopiesSettle
<1>3. QED
  BY <1>1, <1>2, ConsumerCopies DEF Next, WorkerStep, GroupStep, ApiStep, Stop,
     FallDue, Age, Quiescent, vars, consVars

-----------------------------------------------------------------------------
(* RestingHands.                                                           *)

\* No scheduler has a notification in hand to begin with.
LEMMA RestingInit == Init => RestingHands
BY DEF Init, SchedulerInit, AtRest, RestingHands

\* A step of scheduler w that ends in a pass p with nothing in hand, or within
\* a pass.
LEMMA HandsKept ==
  ASSUME NEW w \in Workers, NEW p \in Passes, TypeInv, RestingHands,
         sched' = [sched EXCEPT ![w] = p],
         p.cur = NoNotif \/ p.pc \in {"due", "stuck"}
  PROVE  RestingHands'
BY DEF TypeInv, TypeOK, SchedulerType, RestingHands

\* A pass that ends has nothing in hand.
LEMMA AdvanceHands ==
  ASSUME NEW s \in Passes, s.pc \in {"due", "stuck"}
  PROVE  Advance(s) \in Passes /\ (Advance(s).cur = NoNotif \/ Advance(s).pc \in {"due", "stuck"})
BY AdvanceType DEF Advance, AtRest

\* Only a pass in progress ever has a notification in hand.
LEMMA RestingStep == TypeInv /\ RestingHands /\ [Next]_vars => RestingHands'
<1> SUFFICES ASSUME TypeInv, RestingHands, [Next]_vars PROVE RestingHands'
  OBVIOUS
<1>1. CASE UNCHANGED sched
  BY <1>1 DEF RestingHands
<1>2. ASSUME NEW w \in Workers, Exit(w) \/ Crash(w) PROVE RestingHands'
  BY <1>2, AtRestType, HandsKept DEF Exit, Crash, Perish, AtRest
<1>3. ASSUME NEW w \in Workers, SchedulerStep(w) PROVE RestingHands'
  <2>1. sched[w] \in Passes
    BY DEF TypeInv, TypeOK, SchedulerType
  <2>2. CASE ListDue(w) \/ ListStuck(w)
    <3>1. PICK pc \in SchedulerPCs, S \in SUBSET Notifs : List(w, pc, S)
      BY <2>2 DEF ListDue, ListStuck, ListDueScheduled, ListStuckProcessing, SchedulerPCs,
         TypeInv, TypeOK, StoreType
    <3>2. Listing(pc, S).cur = NoNotif
      BY DEF Listing, AtRest
    <3>3. Listing(pc, S) \in Passes
      BY ListingType DEF TypeInv, TypeOK, StoreType
    <3>4. QED
      BY <3>1, <3>2, <3>3, HandsKept DEF List
  <2>3. CASE EndTick(w)
    BY <2>3, AtRestType, HandsKept DEF EndTick, AtRest
  <2>4. CASE Reset(w)
    <3>1. PICK n \in sched[w].todo :
            LET s == [sched[w] EXCEPT !.todo = @ \ {n}, !.copy[n] = NoRow]
            IN \/ sched' = [sched EXCEPT ![w] = [s EXCEPT !.cur = n]]
               \/ sched' = [sched EXCEPT ![w] = Advance(s)]
      BY <2>4 DEF Reset
    <3> DEFINE s == [sched[w] EXCEPT !.todo = @ \ {n}, !.copy[n] = NoRow]
               c == [s EXCEPT !.cur = n]
    <3>2. s \in Passes /\ s.pc \in {"due", "stuck"}
      BY <2>1, <2>4, RowFacts DEF Reset, Passes
    <3>3. n \in Notifs
      BY <2>1 DEF Passes
    <3>4. c \in Passes /\ c.pc \in {"due", "stuck"}
      BY <3>2, <3>3 DEF Passes
    <3>5. sched' = [sched EXCEPT ![w] = c] \/ sched' = [sched EXCEPT ![w] = Advance(s)]
      BY <3>1
    <3> HIDE DEF c, s
    <3>6. QED
      BY <3>2, <3>4, <3>5, HandsKept, AdvanceHands
  <2>5. CASE Enqueue(w)
    <3> DEFINE s == [sched[w] EXCEPT !.cur = NoNotif]
    <3>1. sched[w].pc \in {"due", "stuck"}
      BY <2>1, <2>5 DEF Enqueue, RestingHands, Passes, SchedulerPCs
    <3>2. s \in Passes /\ s.pc \in {"due", "stuck"}
      BY <2>1, <3>1 DEF Passes
    <3>3. sched' = [sched EXCEPT ![w] = Advance(s)]
      BY <2>5 DEF Enqueue
    <3> HIDE DEF s
    <3>4. QED
      BY <3>2, <3>3, HandsKept, AdvanceHands
  <2>6. QED
    BY <1>3, <2>2, <2>3, <2>4, <2>5 DEF SchedulerStep
<1>4. QED
  BY <1>1, <1>2, <1>3 DEF Next, WorkerStep, GroupStep, ApiStep, Stop,
     FallDue, Age, Quiescent, vars

-----------------------------------------------------------------------------
(* PendingIsSeen: each step either leaves what sees n in place, or n is not  *)
(* pending afterwards, or the step brings something new that will see n.    *)

Track == TypeInv /\ CursorsCovered /\ CopiesSettle /\ RestingHands

\* No loop is at a message, and no message is handled, beyond the log.
LEMMA NewMessageSees ==
  ASSUME NEW n \in Notifs, Track, log' = Append(log, n), UNCHANGED handled,
         \A v \in Workers : Busy(v)' => Busy(v) /\ cons'[v].off = cons[v].off
  PROVE  Seen(n)'
<1>1. /\ Len(log) \in Nat
      /\ Len(log') = Len(log) + 1
      /\ log'[Len(log) + 1] = n
  BY DEF Track, TypeInv, TypeOK, PartitionType
<1>2. PICK i \in 1..Len(log') : i = Len(log) + 1
  BY <1>1
<1>3. i \notin handled
  BY <1>1, <1>2 DEF Track, CursorsCovered
<1>4. \A v \in Workers : Busy(v)' => cons'[v].off # i
  BY <1>1, <1>2 DEF Track, TypeInv, InRange
<1>5. WillSee(n, i)'
  BY <1>1, <1>2, <1>3, <1>4 DEF WillSee
<1>6. QED
  BY <1>5 DEF Seen

\* Publishing n makes n seen, and leaves what was seen seen.
LEMMA PublishSees ==
  ASSUME NEW n \in Notifs, Track, UNCHANGED handled,
         \A v \in Workers : Busy(v)' => Busy(v) /\ cons'[v].off = cons[v].off,
         Publish(n) \/ \E kept \in BOOLEAN : PublishErrs(n, kept)
  PROVE  Seen(n)'
<1>1. CASE Publish(n)
  BY <1>1, NewMessageSees DEF Publish
<1>2. CASE \E kept \in BOOLEAN : PublishErrs(n, kept)
  BY <1>2 DEF PublishErrs, Seen
<1>3. QED
  BY <1>1, <1>2

\* What keeps n on somebody's list: the messages, the handlers at work on one of
\* them, the stored and the written notifications.
LEMMA StaysSeen ==
  ASSUME NEW n \in Notifs, Track, Seen(n), n \in lost => n \in lost',
         Len(log) \in Nat, Len(log') \in Nat, Len(log) <= Len(log'),
         n \in unpublished => n \in unpublished' \/ Seen(n)',
         \A v \in Workers : sched[v].cur = n => sched'[v].cur = n \/ Seen(n)',
         \A i \in 1..Len(log) : WillSee(n, i) => WillSee(n, i)' \/ Seen(n)'
  PROVE  Seen(n)'
BY DEF Seen

-----------------------------------------------------------------------------
\* The message a handler takes up is still unhandled.
LEMMA FetchSeen ==
  ASSUME NEW w \in Workers, Track, PendingIsSeen, Fetch(w), UNCHANGED <<sched, apiVars>>
  PROVE  PendingIsSeen'
<1> SUFFICES ASSUME NEW n \in Notifs, Seen(n)
             PROVE  Seen(n)'
  BY DEF PendingIsSeen, Fetch, storeVars
<1>1. \A v \in Workers : Busy(v)' => cons'[v] = cons[v] \/ cons'[v].pc = "get"
  BY DEF Fetch, Track, TypeInv, TypeOK, ConsumerType
<1>2. \A i \in 1..Len(log) : WillSee(n, i) => WillSee(n, i)'
  BY <1>1 DEF WillSee, Fetch, Busy
<1>3. UNCHANGED <<log, lost, unpublished, sched>>
  BY DEF Fetch, apiVars
<1>4. Len(log) \in Nat
  BY DEF Track, TypeInv, TypeOK, PartitionType
<1>5. QED
  BY <1>2, <1>3, <1>4, StaysSeen

\* A step of the loop that leaves the log alone keeps the witnesses of every
\* notification but, at most, the one it works on.
LEMMA GotoSeen ==
  ASSUME NEW w \in Workers, NEW pc, NEW r, NEW n \in Notifs,
         Track, Seen(n), Busy(w), Goto(w, pc, r), pc # "idle",
         UNCHANGED <<sched, apiVars, log, lost, handled>>,
         \/ n # Msg(w)
         \/ pc \in {"get", "mark", "republish"}
         \/ cons[w].pc \in {"send", "settle", "count", "commit"}
  PROVE  Seen(n)'
<1>1. /\ \A v \in Workers \ {w} : cons'[v] = cons[v]
      /\ cons'[w].off = cons[w].off
      /\ cons'[w].pc = pc
  BY GotoPlace DEF Track, TypeInv, TypeOK, ConsumerType
<1>2. \A i \in 1..Len(log) : WillSee(n, i) => WillSee(n, i)'
  BY <1>1 DEF WillSee, Busy, Msg
<1>3. Len(log) \in Nat
  BY DEF Track, TypeInv, TypeOK, PartitionType
<1>4. QED
  BY <1>2, <1>3, StaysSeen DEF apiVars

\* A handler that leaves a notification alone has found it not to be pending.
LEMMA LoadSeen ==
  ASSUME NEW w \in Workers, Track, PendingIsSeen, Load(w), UNCHANGED <<sched, apiVars>>
  PROVE  PendingIsSeen'
<1> SUFFICES ASSUME NEW n \in Notifs, row[n].status = "pending"
             PROVE  Seen(n)'
  BY DEF PendingIsSeen, Load, storeVars
<1>1. Seen(n) /\ Busy(w) /\ UNCHANGED <<log, lost, handled>>
  BY DEF PendingIsSeen, Load, Busy, partitionVars
<1>2. \E pc \in {"mark", "republish", "commit"} : \E r :
        Goto(w, pc, r) /\ (pc = "commit" => n # Msg(w))
  BY DEF Load
<1>3. QED
  BY <1>1, <1>2, GotoSeen

\* Mark and Settle write a status that is not pending, or nothing.
LEMMA WriteBackSeen ==
  ASSUME NEW w \in Workers, Track, PendingIsSeen, Mark(w) \/ Settle(w),
         UNCHANGED <<sched, apiVars>>
  PROVE  PendingIsSeen'
<1>1. /\ Busy(w)
      /\ Msg(w) \in Notifs
      /\ UNCHANGED <<log, lost, handled>>
      /\ cons[w].pc \in {"mark", "settle"}
      /\ cons[w].copy.status # "pending"
  BY MsgType DEF Mark, Settle, Busy, partitionVars, Track, CopiesSettle
<1>2. UpdateStatus(Msg(w), cons[w].copy) \/ UNCHANGED row
  BY DEF Mark, Settle, CallFails
<1>3. \A n \in Notifs : row'[n].status = "pending" => row[n].status = "pending"
  BY <1>1, <1>2 DEF UpdateStatus, Track, TypeInv, TypeOK, StoreType
<1>4. CASE Settle(w)
  <2>1. \E pc \in {"republish", "count", "commit"} : \E r : Goto(w, pc, r)
    BY <1>4 DEF Settle
  <2>2. cons[w].pc = "settle"
    BY <1>4 DEF Settle
  <2>3. \A n \in Notifs : Seen(n) => Seen(n)'
    BY <1>1, <2>1, <2>2, GotoSeen
  <2>4. QED
    BY <1>3, <2>3 DEF PendingIsSeen
<1>5. CASE Mark(w)
  <2>1. \/ Goto(w, "send", cons[w].copy) /\ UpdateStatus(Msg(w), cons[w].copy)
        \/ Goto(w, "republish", NoRow)
    BY <1>5 DEF Mark
  <2>2. CASE Goto(w, "republish", NoRow)
    <3>1. \A n \in Notifs : Seen(n) => Seen(n)'
      BY <1>1, <2>2, GotoSeen
    <3>2. QED
      BY <1>3, <3>1 DEF PendingIsSeen
  <2>3. CASE Goto(w, "send", cons[w].copy) /\ UpdateStatus(Msg(w), cons[w].copy)
    <3>1. row'[Msg(w)].status # "pending"
      BY <1>1, <2>3 DEF UpdateStatus, Track, TypeInv, TypeOK, StoreType
    <3>2. \A n \in Notifs \ {Msg(w)} : Seen(n) => Seen(n)'
      BY <1>1, <2>3, GotoSeen
    <3>3. QED
      BY <1>3, <3>1, <3>2 DEF PendingIsSeen
  <2>4. QED
    BY <2>1, <2>2, <2>3
<1>6. QED
  BY <1>4, <1>5

\* A handler between its writes leaves the row and the messages as they are.
LEMMA SendCountSeen ==
  ASSUME NEW w \in Workers, Track, PendingIsSeen, Send(w) \/ Count(w),
         UNCHANGED <<sched, apiVars>>
  PROVE  PendingIsSeen'
<1>1. /\ Busy(w)
      /\ cons[w].pc \in {"send", "count"}
      /\ UNCHANGED <<row, log, lost, handled>>
  BY DEF Send, Count, Busy, partitionVars, storeVars
<1>2. \E pc \in {"settle", "commit"} : \E r : Goto(w, pc, r)
  BY DEF Send, Count
<1>3. \A n \in Notifs : Seen(n) => Seen(n)'
  BY <1>1, <1>2, GotoSeen
<1>4. QED
  BY <1>1, <1>3 DEF PendingIsSeen

\* A message is republished, or the failure is on record.
LEMMA RepublishSeen ==
  ASSUME NEW w \in Workers, Track, PendingIsSeen, Republish(w), UNCHANGED <<sched, apiVars>>
  PROVE  PendingIsSeen'
<1> PICK m \in Notifs : m = Msg(w)
  BY MsgType DEF Republish, Busy, Track
<1>1. /\ Busy(w)
      /\ Goto(w, "commit", NoRow)
      /\ UNCHANGED <<row, handled>>
  BY DEF Republish, Busy, storeVars
<1>2. /\ \A v \in Workers \ {w} : cons'[v] = cons[v]
      /\ cons'[w].off = cons[w].off
  BY <1>1, GotoPlace DEF Track, TypeInv, TypeOK, ConsumerType
<1>3. Publish(m) \/ \E kept \in BOOLEAN : PublishErrs(m, kept)
  BY DEF Republish, PublishFails
<1>4. Seen(m)'
  BY <1>1, <1>2, <1>3, PublishSees DEF Busy
<1>5. ASSUME NEW n \in Notifs \ {m}, Seen(n)
      PROVE  Seen(n)'
  <2>1. /\ Len(log) \in Nat /\ Len(log') \in Nat /\ Len(log) <= Len(log')
        /\ \A i \in 1..Len(log) : log'[i] = log[i]
        /\ n \in lost => n \in lost'
    BY <1>1, <1>3, PublishFacts DEF Track, TypeInv, TypeOK, PartitionType
  <2>2. \A i \in 1..Len(log) : WillSee(n, i) => WillSee(n, i)'
    BY <1>1, <1>2, <1>5, <2>1 DEF WillSee, Busy, Msg
  <2>3. QED
    BY <1>5, <2>1, <2>2, StaysSeen DEF apiVars
<1>6. QED
  BY <1>1, <1>4, <1>5 DEF PendingIsSeen

\* A handler that is done has settled its row, republished or put the failure
\* on record: this is where a pending row would be forgotten.
LEMMA CommitSeen ==
  ASSUME NEW w \in Workers, Track, PendingIsSeen, Commit(w), UNCHANGED <<sched, apiVars>>
  PROVE  PendingIsSeen'
<1>1. /\ cons[w].pc = "commit" /\ Busy(w)
      /\ handled' = handled \cup {cons[w].off}
      /\ UNCHANGED <<row, log, lost>>
  BY DEF Commit, storeVars, Busy
<1>2. /\ \A v \in Workers \ {w} : cons'[v] = cons[v]
      /\ ~Busy(w)'
  BY DEF Commit, Idle, Busy, Track, TypeInv, TypeOK, ConsumerType
<1>3. ASSUME NEW n \in Notifs, Seen(n)
      PROVE  Seen(n)'
  <2>1. \A i \in 1..Len(log) : WillSee(n, i) => WillSee(n, i)'
    BY <1>1, <1>2 DEF WillSee, Busy
  <2>2. /\ Len(log) \in Nat /\ Len(log') = Len(log) /\ lost' = lost
        /\ UNCHANGED <<unpublished, sched>>
    BY <1>1 DEF apiVars, Track, TypeInv, TypeOK, PartitionType
  <2>3. QED
    BY <1>3, <2>1, <2>2, StaysSeen
<1>4. QED
  BY <1>1, <1>3 DEF PendingIsSeen

-----------------------------------------------------------------------------
(* The other processes.                                                    *)

\* Steps that leave the consumers alone, publish nothing and lose nothing.
LEMMA OthersKeepSeen ==
  ASSUME NEW n \in Notifs, Track, Seen(n), UNCHANGED <<cons, log, handled>>,
         lost \subseteq lost', n \in unpublished => n \in unpublished' \/ Seen(n)',
         \A v \in Workers : sched[v].cur = n => sched'[v].cur = n \/ Seen(n)'
  PROVE  Seen(n)'
<1>1. \A i \in 1..Len(log) : WillSee(n, i) => WillSee(n, i)'
  BY DEF WillSee, Busy
<1>2. Len(log) \in Nat
  BY DEF Track, TypeInv, TypeOK, PartitionType
<1>3. QED
  BY <1>1, <1>2, StaysSeen

\* The same for a step that publishes m.
LEMMA PublishKeepsSeen ==
  ASSUME NEW m \in Notifs, NEW n \in Notifs, Track, Seen(n), UNCHANGED <<cons, handled>>,
         Publish(m) \/ \E kept \in BOOLEAN : PublishErrs(m, kept),
         n # m /\ n \in unpublished => n \in unpublished',
         n # m => (\A v \in Workers : sched[v].cur = n => sched'[v].cur = n)
  PROVE  Seen(n)'
<1>1. CASE n = m
  BY <1>1, PublishSees DEF Busy
<1>2. CASE n # m
  <2>1. /\ Len(log) \in Nat /\ Len(log') \in Nat /\ Len(log) <= Len(log')
        /\ \A i \in 1..Len(log) : log'[i] = log[i]
        /\ n \in lost => n \in lost'
    BY <1>2, PublishFacts DEF Track, TypeInv, TypeOK, PartitionType
  <2>2. \A i \in 1..Len(log) : WillSee(n, i) => WillSee(n, i)'
    BY <2>1 DEF WillSee, Busy
  <2>3. QED
    BY <1>2, <2>1, <2>2, StaysSeen
<1>3. QED
  BY <1>1, <1>2

\* Reading the rows of a pass changes none of them.
LEMMA ListSeen ==
  ASSUME NEW w \in Workers, Track, PendingIsSeen, ListDue(w) \/ ListStuck(w) \/ EndTick(w),
         UNCHANGED <<consVars, apiVars>>
  PROVE  PendingIsSeen'
<1>1. /\ sched[w].cur = NoNotif
      /\ \A v \in Workers \ {w} : sched'[v] = sched[v]
      /\ UNCHANGED <<row, cons, log, handled, lost, unpublished>>
  BY DEF ListDue, ListStuck, EndTick, List, Track, RestingHands, TypeInv, TypeOK,
     SchedulerType, storeVars, partitionVars, consVars, apiVars
<1>2. ASSUME NEW n \in Notifs, Seen(n) PROVE Seen(n)'
  BY <1>1, <1>2, OthersKeepSeen, NoNotifAssumption
<1>3. QED
  BY <1>1, <1>2 DEF PendingIsSeen

\* A row written back to pending is in hand until it is enqueued.
LEMMA ResetSeen ==
  ASSUME NEW w \in Workers, Track, PendingIsSeen, Reset(w), UNCHANGED <<consVars, apiVars>>
  PROVE  PendingIsSeen'
<1>1. PICK m \in sched[w].todo :
        LET s == [sched[w] EXCEPT !.todo = @ \ {m}, !.copy[m] = NoRow]
            r == [sched[w].copy[m] EXCEPT !.status = "pending"]
        IN \/ /\ CallOk(w)
              /\ UpdateStatus(m, r)
              /\ sched' = [sched EXCEPT ![w] = [s EXCEPT !.cur = m]]
              /\ UNCHANGED lost
           \/ /\ CallFails(w, UpdateStatus(m, r) /\ lost' = lost \cup {m},
                              UNCHANGED <<row, aged, lost>>)
              /\ sched' = [sched EXCEPT ![w] = Advance(s)]
  BY DEF Reset
<1>2. /\ m \in Notifs
      /\ sched[w] \in Passes
      /\ sched[w].cur = NoNotif
      /\ UNCHANGED <<cons, log, handled, unpublished>>
  BY DEF Reset, Track, TypeInv, TypeOK, SchedulerType, Passes, consVars, apiVars
<1>3. /\ \A v \in Workers \ {w} : sched'[v] = sched[v]
      /\ lost \subseteq lost'
      /\ \A n \in Notifs \ {m} : row'[n] = row[n]
      /\ row'[m] = row[m] \/ m \in lost' \/ sched'[w].cur = m
  <2> DEFINE s == [sched[w] EXCEPT !.todo = @ \ {m}, !.copy[m] = NoRow]
             c == [s EXCEPT !.cur = m]
             r == [sched[w].copy[m] EXCEPT !.status = "pending"]
  <2>1. \/ UpdateStatus(m, r) /\ sched' = [sched EXCEPT ![w] = c] /\ UNCHANGED lost
        \/ UpdateStatus(m, r) /\ lost' = lost \cup {m}
              /\ sched' = [sched EXCEPT ![w] = Advance(s)]
        \/ UNCHANGED <<row, lost>> /\ sched' = [sched EXCEPT ![w] = Advance(s)]
    BY <1>1 DEF CallFails
  <2>2. c.cur = m
    BY <1>2 DEF Passes
  <2> HIDE DEF s, c, r
  <2>3. QED
    BY <1>2, <2>1, <2>2 DEF UpdateStatus, Track, TypeInv, TypeOK, SchedulerType, StoreType
<1>4. ASSUME NEW n \in Notifs, Seen(n) PROVE Seen(n)'
  BY <1>2, <1>3, <1>4, OthersKeepSeen, NoNotifAssumption
<1>5. \A n \in Notifs \ {m} : row'[n].status = "pending" => Seen(n)'
  BY <1>3, <1>4 DEF PendingIsSeen
<1>6. row'[m].status = "pending" => Seen(m)'
  BY <1>2, <1>3, <1>4 DEF PendingIsSeen, Seen
<1>7. QED
  BY <1>5, <1>6 DEF PendingIsSeen

\* An enqueued notification is a message nobody has handled.
LEMMA EnqueueSeen ==
  ASSUME NEW w \in Workers, Track, PendingIsSeen, Enqueue(w), UNCHANGED <<consVars, apiVars>>
  PROVE  PendingIsSeen'
<1> PICK m \in Notifs : m = sched[w].cur
  BY DEF Enqueue, Track, TypeInv, TypeOK, SchedulerType, Passes
<1>1. /\ Publish(m) \/ \E kept \in BOOLEAN : PublishErrs(m, kept)
      /\ UNCHANGED <<row, cons, handled, unpublished>>
  BY DEF Enqueue, PublishFails, storeVars, consVars, apiVars
<1>2. \A v \in Workers \ {w} : sched'[v] = sched[v]
  BY DEF Enqueue, Track, TypeInv, TypeOK, SchedulerType
<1>3. ASSUME NEW n \in Notifs, Seen(n) PROVE Seen(n)'
  BY <1>1, <1>2, <1>3, PublishKeepsSeen
<1>4. QED
  BY <1>1, <1>3 DEF PendingIsSeen

\* A new notification waits to be published.
LEMMA CreateSeen ==
  ASSUME NEW m \in Notifs, Track, PendingIsSeen, Create(m), UNCHANGED <<consVars, sched>>
  PROVE  PendingIsSeen'
<1>1. /\ UNCHANGED <<cons, log, handled, lost, sched>>
      /\ unpublished \subseteq unpublished'
      /\ \A n \in Notifs \ {m} : row'[n] = row[n]
      /\ row'[m].status = "pending" => m \in unpublished'
  BY DEF Create, Insert, NewNotification, partitionVars, consVars, Track, TypeInv,
     TypeOK, StoreType
<1>2. ASSUME NEW n \in Notifs, Seen(n) PROVE Seen(n)'
  BY <1>1, <1>2, OthersKeepSeen
<1>3. QED
  BY <1>1, <1>2 DEF PendingIsSeen, Seen

\* So do those of a new batch.
LEMMA CreateBatchSeen ==
  ASSUME Track, PendingIsSeen, CreateBatch, UNCHANGED <<consVars, sched>>
  PROVE  PendingIsSeen'
<1>1. PICK later \in SUBSET Batched :
        InsertBatch(later) /\ unpublished' = unpublished \cup (Batched \ later)
  BY DEF CreateBatch
<1>2. UNCHANGED <<cons, log, handled, lost, sched>>
  BY DEF CreateBatch, partitionVars, consVars
<1>3. \A n \in Notifs : row'[n].status = "pending" =>
                           row[n].status = "pending" \/ n \in unpublished'
  BY <1>1 DEF InsertBatch, NewNotification
<1>4. ASSUME NEW n \in Notifs, Seen(n) PROVE Seen(n)'
  BY <1>1, <1>2, <1>4, OthersKeepSeen
<1>5. QED
  BY <1>3, <1>4 DEF PendingIsSeen, Seen

\* A published notification is a message nobody has handled.
LEMMA PublishNewSeen ==
  ASSUME NEW m \in Notifs, Track, PendingIsSeen, PublishNew(m), UNCHANGED <<consVars, sched>>
  PROVE  PendingIsSeen'
<1>1. /\ Publish(m) \/ \E kept \in BOOLEAN : PublishErrs(m, kept)
      /\ UNCHANGED <<row, cons, handled, sched>>
      /\ unpublished' = unpublished \ {m}
  BY DEF PublishNew, storeVars, consVars
<1>2. ASSUME NEW n \in Notifs, Seen(n) PROVE Seen(n)'
  BY <1>1, <1>2, PublishKeepsSeen
<1>3. QED
  BY <1>1, <1>2 DEF PendingIsSeen

\* A cancel request makes no row pending.
LEMMA CancelSeen ==
  ASSUME NEW q \in Requests, Track, PendingIsSeen, CancelStep(q), UNCHANGED <<consVars, sched>>
  PROVE  PendingIsSeen'
<1>1. UNCHANGED <<cons, log, handled, lost, unpublished, sched>>
  BY DEF CancelStep, CancelRead, CancelUpdate, CancelCount, partitionVars, consVars
<1>2. UNCHANGED row \/ CancelRow(req[q].id)
  BY DEF CancelStep, CancelRead, CancelUpdate, CancelCount, storeVars
<1>3. ASSUME NEW n \in Notifs, row'[n].status = "pending" PROVE row[n].status = "pending"
  BY <1>2, <1>3 DEF CancelRow, UpdateStatus, Track, TypeInv, TypeOK, StoreType, Rows
<1>4. ASSUME NEW n \in Notifs, Seen(n) PROVE Seen(n)'
  BY <1>1, <1>4, OthersKeepSeen
<1>5. QED
  BY <1>3, <1>4 DEF PendingIsSeen

\* What a dying API process had not published is on record.
LEMMA ApiCrashSeen ==
  ASSUME Track, PendingIsSeen, ApiCrash, UNCHANGED <<consVars, sched>>
  PROVE  PendingIsSeen'
<1>1. /\ UNCHANGED <<row, cons, log, handled, sched>>
      /\ lost' = lost \cup unpublished
  BY DEF ApiCrash, storeVars, consVars
<1>2. ASSUME NEW n \in Notifs, Seen(n) PROVE Seen(n)'
  <2>1. n \in unpublished => Seen(n)'
    BY <1>1 DEF Seen
  <2>2. QED
    BY <1>1, <1>2, <2>1, OthersKeepSeen
<1>3. QED
  BY <1>1, <1>2 DEF PendingIsSeen

\* What a dying worker had in its scheduler's hand is on record, and its
\* messages are unhandled.
LEMMA PerishSeen ==
  ASSUME NEW w \in Workers, NEW final \in BOOLEAN, Track, PendingIsSeen,
         Leave(w, final), Perish(w)
  PROVE  PendingIsSeen'
<1>1. /\ UNCHANGED <<row, log, handled, unpublished>>
      /\ lost \subseteq lost'
      /\ \A v \in Workers \ {w} : cons'[v] = cons[v] /\ sched'[v] = sched[v]
  BY DEF Perish, Leave, storeVars, apiVars, Track, TypeInv, TypeOK, ConsumerType, SchedulerType
<1>2. ~Busy(w)'
  BY DEF Perish, Idle, Busy, Track, TypeInv, TypeOK, ConsumerType
<1>3. ASSUME NEW n \in Notifs, Seen(n) PROVE Seen(n)'
  <2>1. sched[w].cur = n => n \in lost'
    BY NoNotifAssumption DEF Perish
  <2>2. sched[w].cur = n => Seen(n)'
    BY <2>1 DEF Seen
  <2>3. \A i \in 1..Len(log) : WillSee(n, i) => WillSee(n, i)'
    BY <1>1, <1>2 DEF WillSee, Busy
  <2>4. Len(log) \in Nat
    BY DEF Track, TypeInv, TypeOK, PartitionType
  <2>5. \A v \in Workers : sched[v].cur = n => sched'[v].cur = n \/ Seen(n)'
    BY <1>1, <2>2
  <2>6. QED
    BY <1>1, <1>3, <2>3, <2>4, <2>5, StaysSeen
<1>4. QED
  BY <1>1, <1>3 DEF PendingIsSeen

\* Steps of the group, of time and of a shutdown touch nothing that sees.
LEMMA QuietSeen ==
  ASSUME Track, PendingIsSeen, UNCHANGED <<row, cons, log, handled, lost, unpublished, sched>>
  PROVE  PendingIsSeen'
BY OthersKeepSeen DEF PendingIsSeen

-----------------------------------------------------------------------------
\* There is no row to begin with.
LEMMA SeenInit == Init => PendingIsSeen
BY DEF Init, StoreInit, NoRow, PendingIsSeen

\* Every step leaves every pending row seen.
LEMMA SeenStep == Track /\ PendingIsSeen /\ [Next]_vars => PendingIsSeen'
<1> SUFFICES ASSUME Track, PendingIsSeen, [Next]_vars PROVE PendingIsSeen'
  OBVIOUS
<1>1. ASSUME NEW w \in Workers, WorkerStep(w) PROVE PendingIsSeen'
  <2>1. CASE ConsumerStep(w) /\ UNCHANGED <<sched, apiVars>>
    BY <2>1, FetchSeen, LoadSeen, WriteBackSeen, SendCountSeen, RepublishSeen, CommitSeen
       DEF ConsumerStep
  <2>2. CASE SchedulerStep(w) /\ UNCHANGED <<consVars, apiVars>>
    BY <2>2, ListSeen, ResetSeen, EnqueueSeen DEF SchedulerStep
  <2>3. CASE Exit(w)
    BY <2>3, PerishSeen DEF Exit
  <2>4. QED
    BY <1>1, <2>1, <2>2, <2>3 DEF WorkerStep
<1>2. CASE ApiStep
  BY <1>2, CreateSeen, CreateBatchSeen, PublishNewSeen, CancelSeen, ApiCrashSeen
     DEF ApiStep
<1>3. ASSUME NEW w \in Workers, Crash(w) PROVE PendingIsSeen'
  BY <1>3, PerishSeen DEF Crash
<1>4. ASSUME NEW w \in Workers, GroupStep(w) PROVE PendingIsSeen'
  BY <1>4, QuietSeen DEF GroupStep, Assign, Revoke, Flush, storeVars, consVars, apiVars
<1>5. ASSUME NEW w \in Workers, Stop(w) PROVE PendingIsSeen'
  BY <1>5, QuietSeen DEF Stop, storeVars, partitionVars, consVars, apiVars
<1>6. ASSUME NEW n \in Notifs, FallDue(n) \/ Age(n) PROVE PendingIsSeen'
  BY <1>6, QuietSeen DEF FallDue, Age, partitionVars, consVars, apiVars
<1>7. CASE UNCHANGED vars
  BY <1>7, QuietSeen DEF vars, storeVars, partitionVars, consVars, apiVars
<1>8. QED
  BY <1>1, <1>2, <1>3, <1>4, <1>5, <1>6, <1>7 DEF Next, Quiescent

\* No pending row is forgotten: a handler that has not met the row yet or a
\* publish is on the way to it, unless one of the publishes that follow a
\* database write did not succeed.
THEOREM NothingForgotten == Safety => []PendingIsTracked
<1>1. PendingIsSeen => PendingIsTracked
  BY DEF PendingIsSeen, Seen, WillSee, PendingIsTracked, Outstanding, Unhandled
<1>2. Init => Track /\ PendingIsSeen
  BY TypeInvInit, CursorsInit, CopiesInit, RestingInit, SeenInit DEF Track
<1>3. Track /\ PendingIsSeen /\ [Next]_vars => (Track /\ PendingIsSeen)'
  BY TypeInvStep, CursorsStep, CopiesStep, RestingStep, SeenStep DEF Track
<1>4. QED
  BY <1>1, <1>2, <1>3, PTL DEF Safety

-----------------------------------------------------------------------------
(* Steps, and CancelHolds.                                                 *)

Handling == {"mark", "send", "settle"}

\* What one step of w's loop does to rows, to the provider and to its place:
\* it writes and sends the notification in its hand only, and takes one into
\* its hand only if the row was not settled when it was read.
LEMMA HandlerEffect ==
  ASSUME NEW w \in Workers, TypeInv, ConsumerStep(w)
  PROVE  /\ \A v \in Workers \ {w} : cons'[v] = cons[v]
         /\ \/ UNCHANGED <<row, accepted, misled>>
            \/ /\ cons[w].pc \in {"mark", "settle"}
               /\ row' = [row EXCEPT ![Msg(w)] = cons[w].copy]
               /\ UNCHANGED <<accepted, misled>>
            \/ /\ cons[w].pc = "send"
               /\ accepted' = [accepted EXCEPT ![Msg(w)] = @ + 1]
               /\ UNCHANGED <<row, misled>>
            \/ /\ cons[w].pc = "send"
               /\ misled' = misled \cup {Msg(w)}
               /\ UNCHANGED <<row, accepted>>
         /\ cons'[w].pc \in Handling =>
               /\ cons'[w].off = cons[w].off
               /\ \/ cons[w].pc \in Handling
                  \/ cons[w].pc = "get" /\ row[Msg(w)].status \notin {"cancelled", "delivered"}
<1> USE DEF Handling
<1>1. CASE Fetch(w)
  BY <1>1 DEF Fetch, TypeInv, TypeOK, ConsumerType, storeVars, sends
<1>2. ASSUME NEW pc, NEW r, Goto(w, pc, r)
      PROVE  /\ \A v \in Workers \ {w} : cons'[v] = cons[v]
             /\ cons'[w].off = cons[w].off /\ cons'[w].pc = pc
  BY <1>2, GotoPlace DEF TypeInv, TypeOK, ConsumerType
<1>3. CASE Load(w)
  <2>1. \/ Goto(w, "commit", NoRow) \/ Goto(w, "republish", NoRow)
        \/ /\ Goto(w, "mark", MarkProcessing(row[Msg(w)]))
           /\ row[Msg(w)].status \notin {"cancelled", "delivered"}
    BY <1>3 DEF Load
  <2>2. cons[w].pc = "get" /\ UNCHANGED <<row, accepted, misled>>
    BY <1>3 DEF Load, storeVars, sends
  <2>3. QED
    BY <1>2, <2>1, <2>2
<1>4. CASE Mark(w) \/ Settle(w)
  <2>1. \/ Goto(w, "send", cons[w].copy) \/ Goto(w, "republish", NoRow)
        \/ Goto(w, "count", cons[w].copy) \/ Goto(w, "commit", NoRow)
    BY <1>4 DEF Mark, Settle
  <2>2. /\ cons[w].pc \in {"mark", "settle"} /\ UNCHANGED <<accepted, misled>>
        /\ UNCHANGED row \/ row' = [row EXCEPT ![Msg(w)] = cons[w].copy]
    BY <1>4 DEF Mark, Settle, CallFails, UpdateStatus, sends
  <2>3. QED
    BY <1>2, <2>1, <2>2
<1>5. CASE Send(w)
  <2>1. \E pc, r : Goto(w, pc, r)
    BY <1>5 DEF Send
  <2>2. /\ cons[w].pc = "send" /\ UNCHANGED row
        /\ \/ UNCHANGED <<accepted, misled>>
           \/ accepted' = [accepted EXCEPT ![Msg(w)] = @ + 1] /\ UNCHANGED misled
           \/ misled' = misled \cup {Msg(w)} /\ UNCHANGED accepted
    BY <1>5 DEF Send, storeVars
  <2>3. QED
    BY <1>2, <2>1, <2>2
<1>6. CASE Count(w) \/ Republish(w)
  BY <1>2, <1>6 DEF Count, Republish, storeVars, sends
<1>7. CASE Commit(w)
  BY <1>7 DEF Commit, Idle, TypeInv, TypeOK, ConsumerType, storeVars, sends
<1>8. QED
  BY <1>1, <1>3, <1>4, <1>5, <1>6, <1>7 DEF ConsumerStep

\* What one step of w's scheduler does: it writes pending over rows of its
\* list, and lists rows that are scheduled or processing.
LEMMA SchedulerEffect ==
  ASSUME NEW w \in Workers, TypeInv, SchedulerStep(w)
  PROVE  /\ \A v \in Workers \ {w} : sched'[v] = sched[v]
         /\ \/ UNCHANGED row
            \/ \E n \in sched[w].todo, r \in Rows :
                  r.status = "pending" /\ row' = [row EXCEPT ![n] = r]
         /\ \A n \in sched'[w].todo :
               n \in sched[w].todo \/ row[n].status \in {"scheduled", "processing"}
         /\ sched'[w].cur \in sched[w].todo \cup {sched[w].cur, NoNotif}
<1>1. sched[w] \in Passes /\ sched \in [Workers -> Passes] /\ row \in [Notifs -> Rows]
  BY DEF TypeInv, TypeOK, SchedulerType, StoreType
<1>2. AtRest.todo = {} /\ AtRest.cur = NoNotif
  BY DEF AtRest
<1>3. CASE ListDue(w) \/ ListStuck(w)
  <2>1. PICK pc \in SchedulerPCs, S \in SUBSET Notifs :
          /\ List(w, pc, S)
          /\ \A n \in S : row[n].status \in {"scheduled", "processing"}
    BY <1>3 DEF ListDue, ListStuck, ListDueScheduled, ListStuckProcessing, SchedulerPCs,
       TypeInv, TypeOK, StoreType
  <2>2. Listing(pc, S).todo = S /\ Listing(pc, S).cur = NoNotif
    BY DEF Listing, AtRest
  <2>3. QED
    BY <1>1, <2>1, <2>2 DEF List, storeVars
<1>4. CASE EndTick(w)
  BY <1>1, <1>2, <1>4 DEF EndTick, storeVars
<1>5. ASSUME NEW s \in Passes
      PROVE  Advance(s).todo \subseteq s.todo /\ Advance(s).cur \in {s.cur, NoNotif}
  BY DEF Advance, AtRest
<1>6. CASE Reset(w)
  <2>1. PICK n \in sched[w].todo :
          LET s == [sched[w] EXCEPT !.todo = @ \ {n}, !.copy[n] = NoRow]
              r == [sched[w].copy[n] EXCEPT !.status = "pending"]
          IN /\ row' = [row EXCEPT ![n] = r] \/ UNCHANGED row
             /\ \/ sched' = [sched EXCEPT ![w] = [s EXCEPT !.cur = n]]
                \/ sched' = [sched EXCEPT ![w] = Advance(s)]
    BY <1>6 DEF Reset, CallFails, UpdateStatus
  <2> DEFINE s == [sched[w] EXCEPT !.todo = @ \ {n}, !.copy[n] = NoRow]
             c == [s EXCEPT !.cur = n]
             r == [sched[w].copy[n] EXCEPT !.status = "pending"]
  <2>2. n \in Notifs /\ sched[w].copy[n] \in Rows
    BY <1>1 DEF Passes
  <2>3. r \in Rows /\ r.status = "pending"
    BY <2>2, RowFacts DEF Rows
  <2>4. /\ s \in Passes /\ s.todo \subseteq sched[w].todo /\ s.cur = sched[w].cur
        /\ c.todo \subseteq sched[w].todo /\ c.cur = n
    BY <1>1, <2>2, RowFacts DEF Passes
  <2>5. /\ row' = [row EXCEPT ![n] = r] \/ UNCHANGED row
        /\ sched' = [sched EXCEPT ![w] = c] \/ sched' = [sched EXCEPT ![w] = Advance(s)]
    BY <2>1
  <2> HIDE DEF s, c, r
  <2>6. /\ \A v \in Workers \ {w} : sched'[v] = sched[v]
        /\ sched'[w] = c \/ sched'[w] = Advance(s)
    BY <1>1, <2>5
  <2>7. /\ sched'[w].todo \subseteq sched[w].todo
        /\ sched'[w].cur \in sched[w].todo \cup {sched[w].cur, NoNotif}
    BY <1>5, <2>4, <2>6
  <2>8. QED
    BY <2>3, <2>5, <2>6, <2>7
<1>7. CASE Enqueue(w)
  <2> DEFINE s == [sched[w] EXCEPT !.cur = NoNotif]
  <2>1. s \in Passes /\ s.todo = sched[w].todo /\ s.cur = NoNotif
    BY <1>1 DEF Passes
  <2>2. sched' = [sched EXCEPT ![w] = Advance(s)] /\ UNCHANGED row
    BY <1>7 DEF Enqueue, storeVars
  <2> HIDE DEF s
  <2>3. QED
    BY <1>1, <1>5, <2>1, <2>2
<1>8. QED
  BY <1>3, <1>4, <1>6, <1>7 DEF SchedulerStep

\* What the API does to rows: it stores new ones and cancels waiting ones.
LEMMA ApiEffect ==
  ASSUME TypeInv, ApiStep
  PROVE  \/ UNCHANGED row
         \/ \E S, later \in SUBSET Notifs :
               /\ \A n \in S : row[n] = NoRow
               /\ row' = [n \in Notifs |-> IF n \in S THEN NewNotification(n \in later) ELSE row[n]]
         \/ \E n \in Notifs : /\ CanCancel(row[n])
                              /\ row' = [row EXCEPT ![n] = [row[n] EXCEPT !.status = "cancelled"]]
<1>1. row \in [Notifs -> Rows]
  BY DEF TypeInv, TypeOK, StoreType
<1>2. ASSUME NEW m \in Notifs, Create(m)
      PROVE  \E S, later \in SUBSET Notifs :
               /\ \A n \in S : row[n] = NoRow
               /\ row' = [n \in Notifs |-> IF n \in S THEN NewNotification(n \in later) ELSE row[n]]
  <2>1. PICK at \in BOOLEAN : row[m] = NoRow /\ row' = [row EXCEPT ![m] = NewNotification(at)]
    BY <1>2 DEF Create, Insert
  <2> DEFINE late == IF at THEN {m} ELSE {}
  <2>2. row' = [n \in Notifs |-> IF n \in {m} THEN NewNotification(n \in late) ELSE row[n]]
    BY <1>1, <2>1 DEF NewNotification
  <2>3. {m} \in SUBSET Notifs /\ late \in SUBSET Notifs
    OBVIOUS
  <2> HIDE DEF late
  <2>4. QED
    BY <2>1, <2>2, <2>3
<1>3. ASSUME CreateBatch
      PROVE  \E S, later \in SUBSET Notifs :
               /\ \A n \in S : row[n] = NoRow
               /\ row' = [n \in Notifs |-> IF n \in S THEN NewNotification(n \in later) ELSE row[n]]
  <2>1. PICK later \in SUBSET Batched : InsertBatch(later)
    BY <1>3 DEF CreateBatch
  <2>2. later \in SUBSET Notifs /\ Batched \in SUBSET Notifs
    BY BatchedAssumption
  <2>3. QED
    BY <2>1, <2>2 DEF InsertBatch
<1>4. ASSUME NEW q \in Requests, CancelStep(q)
      PROVE  \/ UNCHANGED row
             \/ \E n \in Notifs : /\ CanCancel(row[n])
                                  /\ row' = [row EXCEPT ![n] = [row[n] EXCEPT !.status = "cancelled"]]
  <2>1. UNCHANGED row \/ (CancelUpdate(q) /\ CancelRow(req[q].id))
    BY <1>4 DEF CancelStep, CancelRead, CancelUpdate, CancelCount, storeVars
  <2>2. CancelUpdate(q) => req[q].id \in Notifs
    BY DEF CancelUpdate, TypeInv, InRange
  <2>3. QED
    BY <2>1, <2>2 DEF CancelRow, UpdateStatus
<1>5. QED
  BY <1>2, <1>3, <1>4 DEF ApiStep, PublishNew, ApiCrash, storeVars

\* Messages stay where they are in the log, and only these steps write any.
LEMMA LogEffect ==
  ASSUME TypeInv, [Next]_vars
  PROVE  /\ Len(log) \in Nat /\ Len(log') \in Nat /\ Len(log) <= Len(log')
         /\ \A i \in 1..Len(log) : log'[i] = log[i]
         /\ \A i \in 1..Len(log') : i \notin 1..Len(log) =>
               \/ log'[i] \in unpublished
               \/ \E w \in Workers : Busy(w) /\ log'[i] = Msg(w)
               \/ \E w \in Workers : log'[i] = sched[w].cur /\ sched[w].cur \in Notifs
<1>0. log \in Seq(Notifs) /\ Len(log) \in Nat /\ lost \subseteq Notifs
  BY DEF TypeInv, TypeOK, PartitionType
<1>1. CASE UNCHANGED log
  BY <1>0, <1>1
<1>2. ASSUME NEW n \in Notifs, Publish(n) \/ \E kept \in BOOLEAN : PublishErrs(n, kept),
             \/ n \in unpublished
             \/ \E w \in Workers : Busy(w) /\ n = Msg(w)
             \/ \E w \in Workers : n = sched[w].cur /\ sched[w].cur \in Notifs
      PROVE  /\ Len(log') \in Nat /\ Len(log) <= Len(log')
             /\ \A i \in 1..Len(log) : log'[i] = log[i]
             /\ \A i \in 1..Len(log') : i \notin 1..Len(log) => log'[i] = n
  <2>1. log' = log \/ log' = Append(log, n)
    BY <1>2 DEF Publish, PublishErrs
  <2>2. QED
    BY <1>0, <2>1
<1>3. ASSUME NEW w \in Workers, ConsumerStep(w) \/ SchedulerStep(w)
      PROVE  \/ UNCHANGED log
             \/ \E n \in Notifs :
                   /\ Publish(n) \/ \E kept \in BOOLEAN : PublishErrs(n, kept)
                   /\ (Busy(w) /\ n = Msg(w)) \/ n = sched[w].cur
  <2>1. CASE Republish(w)
    BY <2>1, MsgType DEF Republish, PublishFails, Busy
  <2>2. CASE Enqueue(w)
    BY <2>2 DEF Enqueue, PublishFails, TypeInv, TypeOK, SchedulerType, Passes
  <2>3. QED
    BY <1>3, <2>1, <2>2 DEF ConsumerStep, SchedulerStep, Fetch, Load, Mark, Send, Settle, Count,
       Commit, ListDue, ListStuck, List, EndTick, Reset, partitionVars
<1>4. ASSUME NEW w \in Workers, Exit(w) \/ Crash(w) \/ GroupStep(w) \/ Stop(w)
      PROVE  UNCHANGED log
  BY <1>4 DEF Exit, Crash, Leave, GroupStep, Assign, Revoke, Flush, Stop, partitionVars
<1>5. ASSUME ApiStep
      PROVE  \/ UNCHANGED log
             \/ \E n \in unpublished : Publish(n) \/ \E kept \in BOOLEAN : PublishErrs(n, kept)
  BY <1>5 DEF ApiStep, Create, CreateBatch, PublishNew, CancelStep, CancelRead, CancelUpdate,
     CancelCount, ApiCrash, partitionVars
<1>6. unpublished \subseteq Notifs
  BY DEF TypeInv, TypeOK, ApiType
<1>7. CASE ApiStep
  BY <1>0, <1>1, <1>2, <1>5, <1>6, <1>7
<1>8. ASSUME NEW w \in Workers, ConsumerStep(w) \/ SchedulerStep(w)
      PROVE  \/ UNCHANGED log
             \/ \E n \in Notifs :
                   /\ Len(log') \in Nat /\ Len(log) <= Len(log')
                   /\ \A i \in 1..Len(log) : log'[i] = log[i]
                   /\ \A i \in 1..Len(log') : i \notin 1..Len(log) => log'[i] = n
                   /\ (Busy(w) /\ n = Msg(w)) \/ n = sched[w].cur
  BY <1>2, <1>3, <1>8
<1>9. QED
  BY <1>0, <1>1, <1>4, <1>7, <1>8 DEF Next, WorkerStep, FallDue, Age, Quiescent, vars, partitionVars

-----------------------------------------------------------------------------
(* Cancellations.                                                          *)

\* A cancelled row that nobody holds is out of reach of w's loop.
LEMMA HandlerHolds ==
  ASSUME NEW w \in Workers, NEW n \in Notifs, TypeInv, [Next]_vars,
         ConsumerStep(w), UNCHANGED sched, row[n].status = "cancelled", ~Held(n)
  PROVE  row'[n].status = "cancelled" /\ ~Held(n)' /\ accepted'[n] = accepted[n]
<1>1. /\ row \in [Notifs -> Rows] /\ accepted \in [Notifs -> Nat]
      /\ \A v \in Workers : Busy(v) => cons[v].off \in 1..Len(log) /\ Msg(v) \in Notifs
  BY MsgType DEF TypeInv, TypeOK, StoreType, ConsumerType, InRange
<1>2. \A v \in Workers : cons[v].pc \in Handling => Busy(v) /\ Msg(v) # n
  BY DEF Held, Handling, Busy
<1>3. row'[n] = row[n] /\ accepted'[n] = accepted[n]
  BY <1>1, <1>2, HandlerEffect DEF Handling
<1>4. ASSUME NEW v \in Workers, cons'[v].pc \in Handling PROVE Msg(v)' # n
  <2>1. /\ cons'[v].off = cons[v].off /\ Busy(v) /\ Msg(v) # n
    BY <1>2, <1>4, HandlerEffect DEF Busy, Handling
  <2>2. Msg(v)' = Msg(v)
    BY <1>1, <2>1, LogEffect DEF Msg
  <2>3. QED
    BY <2>1, <2>2
<1>5. QED
  BY <1>3, <1>4 DEF Held, Handling

\* It is out of reach of every scheduler.
LEMMA SchedulerHolds ==
  ASSUME NEW w \in Workers, NEW n \in Notifs, TypeInv, [Next]_vars,
         SchedulerStep(w), UNCHANGED consVars, row[n].status = "cancelled", ~Held(n)
  PROVE  row'[n].status = "cancelled" /\ ~Held(n)' /\ accepted'[n] = accepted[n]
<1>1. /\ row \in [Notifs -> Rows]
      /\ \A v \in Workers : Busy(v) => cons[v].off \in 1..Len(log)
  BY DEF TypeInv, TypeOK, StoreType, InRange
<1>2. row'[n] = row[n] /\ \A v \in Workers : n \notin sched'[v].todo
  BY <1>1, SchedulerEffect DEF Held
<1>3. UNCHANGED <<cons, accepted>>
  BY DEF consVars
<1>4. \A v \in Workers : Busy(v) => Msg(v)' = Msg(v)
  BY <1>1, <1>3, LogEffect DEF Msg
<1>5. QED
  BY <1>2, <1>3, <1>4 DEF Held, Busy

\* It is out of reach of any other step.
LEMMA OthersHold ==
  ASSUME NEW n \in Notifs, TypeInv, [Next]_vars, UNCHANGED accepted, row'[n].status = "cancelled",
         ~Held(n), \A v \in Workers : /\ cons'[v] = cons[v] \/ cons'[v] = Idle
                                      /\ sched'[v] = sched[v] \/ sched'[v] = AtRest
  PROVE  row'[n].status = "cancelled" /\ ~Held(n)' /\ accepted'[n] = accepted[n]
<1>1. \A v \in Workers : Busy(v) => cons[v].off \in 1..Len(log)
  BY DEF TypeInv, InRange
<1>2. ASSUME NEW v \in Workers, cons'[v].pc \in Handling PROVE Msg(v)' # n
  <2>1. cons'[v] = cons[v] /\ Busy(v)
    BY <1>2 DEF Idle, Handling, Busy
  <2>2. Msg(v)' = Msg(v)
    BY <1>1, <2>1, LogEffect DEF Msg
  <2>3. QED
    BY <1>2, <2>1, <2>2 DEF Held, Handling
<1>3. \A v \in Workers : n \notin sched'[v].todo
  BY DEF Held, AtRest
<1>4. QED
  BY <1>2, <1>3 DEF Held, Handling

\* So no step takes it back.
LEMMA CancelStays ==
  ASSUME NEW n \in Notifs, TypeInv, [Next]_vars, row[n].status = "cancelled", ~Held(n)
  PROVE  row'[n].status = "cancelled" /\ ~Held(n)' /\ accepted'[n] = accepted[n]
<1>1. ASSUME NEW w \in Workers, WorkerStep(w) \/ Crash(w)
      PROVE  row'[n].status = "cancelled" /\ ~Held(n)' /\ accepted'[n] = accepted[n]
  <2>1. CASE Exit(w) \/ Crash(w)
    <3>1. UNCHANGED <<row, accepted>>
      BY <2>1 DEF Exit, Crash, Perish, storeVars, sends
    <3>2. \A v \in Workers : /\ cons'[v] = cons[v] \/ cons'[v] = Idle
                             /\ sched'[v] = sched[v] \/ sched'[v] = AtRest
      BY <2>1 DEF Exit, Crash, Perish, TypeInv, TypeOK, ConsumerType, SchedulerType
    <3>3. QED
      BY <3>1, <3>2, OthersHold
  <2>2. QED
    BY <1>1, <2>1, HandlerHolds, SchedulerHolds DEF WorkerStep
<1>2. CASE ApiStep
  <2>1. UNCHANGED <<cons, accepted, sched>>
    BY <1>2 DEF ApiStep, consVars
  <2>2. row'[n].status = "cancelled"
    BY <1>2, ApiEffect DEF CanCancel, NoRow, TypeInv, TypeOK, StoreType, Rows
  <2>3. QED
    BY <2>1, <2>2, OthersHold
<1>3. ASSUME UNCHANGED <<row, cons, accepted, sched>>
      PROVE  row'[n].status = "cancelled" /\ ~Held(n)' /\ accepted'[n] = accepted[n]
  BY <1>3, OthersHold
<1>4. ASSUME NEW w \in Workers, GroupStep(w) \/ Stop(w) PROVE UNCHANGED <<row, cons, accepted, sched>>
  BY <1>4 DEF GroupStep, Stop, storeVars, consVars
<1>5. ASSUME NEW m \in Notifs, FallDue(m) \/ Age(m) PROVE UNCHANGED <<row, cons, accepted, sched>>
  BY <1>5 DEF FallDue, Age, consVars
<1>6. CASE UNCHANGED vars
  BY <1>3, <1>6 DEF vars, storeVars, consVars
<1>7. QED
  BY <1>1, <1>2, <1>3, <1>4, <1>5, <1>6 DEF Next, Quiescent

\* A cancellation holds for good once no process holds an older copy of the
\* row, with any number of workers, zombies and schedulers.
THEOREM CancellationsHold == Safety => CancelHolds
<1>1. TypeInv /\ [Next]_vars =>
        [\A n \in Notifs : row[n].status = "cancelled" /\ ~Held(n) =>
          row'[n].status = "cancelled" /\ ~Held(n)' /\ accepted'[n] = accepted[n]]_vars
  BY CancelStays
<1>2. QED
  BY <1>1, TypesAlways, PTL DEF Safety, CancelHolds

-----------------------------------------------------------------------------
(* NoStatusMadeUp.  Copies of rows travel through messages, handlers and   *)
(* scheduler passes; the invariant says what every copy that is still to   *)
(* be written has behind it.                                               *)

Present(n) == row[n].status # "absent"

\* Only a notification that has been stored is in a message, waits to be
\* published, or is on a scheduler's list or in its hand.
AllPresent ==
    /\ \A i \in 1..Len(log) : Present(log[i])
    /\ \A n \in unpublished : Present(n)
    /\ \A w \in Workers : \A n \in Notifs :
          n \in sched[w].todo \/ n = sched[w].cur => Present(n)

\* The sender has grounds to call n delivered: the provider took it, or gave an
\* answer that read as if it had.
Grounded(n) == accepted[n] > 0 \/ n \in misled

\* A copy that says delivered belongs to such a notification.
TakenFirst ==
    \A w \in Workers : cons[w].pc = "settle" /\ cons[w].copy.status = "delivered" =>
                          Grounded(Msg(w))

LifeInv == TypeInv /\ CopiesSettle /\ AllPresent /\ TakenFirst

\* A status that may be written over a stored row of n.
Earned(n, s) == \/ s \in {"pending", "processing", "failed"}
                \/ s = "delivered" /\ Grounded(n)
                \/ s = "cancelled" /\ CanCancel(row[n])

Stays     == UNCHANGED <<row, accepted, misled>>
Taken(n)  == accepted' = [accepted EXCEPT ![n] = @ + 1] /\ UNCHANGED <<row, misled>>
Misled(n) == misled' = misled \cup {n} /\ UNCHANGED <<row, accepted>>
Written(n, r) == /\ Present(n) /\ Earned(n, r.status)
                 /\ row' = [row EXCEPT ![n] = r] /\ UNCHANGED <<accepted, misled>>
Stored(S, later) ==
    /\ \A n \in S : row[n] = NoRow
    /\ row' = [n \in Notifs |-> IF n \in S THEN NewNotification(n \in later) ELSE row[n]]
    /\ UNCHANGED <<accepted, misled>>

\* Everything a step can do to rows and to the provider.
Effect == \/ Stays
          \/ \E n \in Notifs : Taken(n) \/ Misled(n)
          \/ \E n \in Notifs, r \in Rows : Written(n, r)
          \/ \E S, later \in SUBSET Notifs : Stored(S, later)

\* A handler writes what its copy has behind it.
LEMMA HandlerEarns ==
  ASSUME NEW w \in Workers, LifeInv, ConsumerStep(w)
  PROVE  Effect
<1> DEFINE n == Msg(w)
           r == cons[w].copy
<1>1. CASE Stays
  BY <1>1 DEF Effect
<1>2. CASE /\ cons[w].pc \in {"mark", "settle"}
           /\ row' = [row EXCEPT ![Msg(w)] = cons[w].copy] /\ UNCHANGED <<accepted, misled>>
  <2>1. Busy(w) /\ n \in Notifs /\ cons[w].off \in 1..Len(log)
    BY <1>2, MsgType DEF Busy, LifeInv, TypeInv, InRange
  <2>2. Present(n)
    BY <2>1 DEF LifeInv, AllPresent, Msg
  <2>3. r \in Rows
    BY DEF LifeInv, TypeInv, TypeOK, ConsumerType, Loops
  <2>4. Earned(n, r.status)
    BY <1>2 DEF LifeInv, CopiesSettle, TakenFirst, Earned
  <2>5. QED
    BY <1>2, <2>1, <2>2, <2>3, <2>4 DEF Effect, Written
<1>3. CASE /\ cons[w].pc = "send"
           /\ \/ accepted' = [accepted EXCEPT ![Msg(w)] = @ + 1] /\ UNCHANGED <<row, misled>>
              \/ misled' = misled \cup {Msg(w)} /\ UNCHANGED <<row, accepted>>
  BY <1>3, MsgType DEF Busy, LifeInv, Effect, Taken, Misled
<1>4. QED
  BY <1>1, <1>2, <1>3, HandlerEffect DEF LifeInv, Stays

\* A scheduler writes pending over a row it has listed.
LEMMA SchedulerEarns ==
  ASSUME NEW w \in Workers, LifeInv, SchedulerStep(w), UNCHANGED consVars
  PROVE  Effect
<1>1. UNCHANGED <<accepted, misled>>
  BY DEF consVars
<1>2. CASE UNCHANGED row
  BY <1>1, <1>2 DEF Effect, Stays
<1>3. ASSUME NEW n \in sched[w].todo, NEW r \in Rows, r.status = "pending",
             row' = [row EXCEPT ![n] = r]
      PROVE  Effect
  <2>1. n \in Notifs
    BY DEF LifeInv, TypeInv, TypeOK, SchedulerType, Passes
  <2>2. Present(n)
    BY <2>1 DEF LifeInv, AllPresent
  <2>3. QED
    BY <1>1, <1>3, <2>1, <2>2 DEF Effect, Written, Earned
<1>4. QED
  BY <1>2, <1>3, SchedulerEffect DEF LifeInv

\* The API stores new rows and cancels waiting ones.
LEMMA ApiEarns ==
  ASSUME LifeInv, ApiStep
  PROVE  Effect
<1>1. UNCHANGED <<accepted, misled>>
  BY DEF ApiStep, consVars
<1>2. ASSUME NEW n \in Notifs, CanCancel(row[n]),
             row' = [row EXCEPT ![n] = [row[n] EXCEPT !.status = "cancelled"]]
      PROVE  Effect
  <2>1. row[n] \in Rows
    BY DEF LifeInv, TypeInv, TypeOK, StoreType
  <2>2. PICK r \in Rows : r = [row[n] EXCEPT !.status = "cancelled"]
    BY <2>1, RowFacts
  <2>3. r.status = "cancelled" /\ Present(n)
    BY <1>2, <2>1, <2>2 DEF Rows, CanCancel, Present
  <2>4. QED
    BY <1>1, <1>2, <2>2, <2>3 DEF Effect, Written, Earned
<1>3. QED
  BY <1>1, <1>2, ApiEffect DEF LifeInv, Effect, Stays, Stored

\* Every step is one of these effects.
LEMMA StepEffect ==
  ASSUME LifeInv, [Next]_vars
  PROVE  Effect
<1>1. ASSUME NEW w \in Workers, WorkerStep(w) \/ Crash(w) PROVE Effect
  <2>1. Exit(w) \/ Crash(w) => Stays
    BY DEF Exit, Crash, Perish, Stays, storeVars, sends
  <2>2. QED
    BY <1>1, <2>1, HandlerEarns, SchedulerEarns DEF WorkerStep, Effect
<1>2. ASSUME NEW w \in Workers, GroupStep(w) \/ Stop(w) PROVE Stays
  BY <1>2 DEF GroupStep, Stop, storeVars, consVars, Stays
<1>3. ASSUME NEW n \in Notifs, FallDue(n) \/ Age(n) PROVE Stays
  BY <1>3 DEF FallDue, Age, consVars, Stays
<1>4. CASE UNCHANGED vars
  BY <1>4 DEF vars, storeVars, consVars, Stays, Effect
<1>5. QED
  BY <1>1, <1>2, <1>3, <1>4, ApiEarns DEF Next, Quiescent, Effect

\* Rows stay stored, and the provider does not give anything back.
LEMMA NothingLost ==
  ASSUME LifeInv, [Next]_vars, NEW n \in Notifs
  PROVE  /\ Present(n) => Present(n)'
         /\ accepted'[n] >= accepted[n] /\ misled \subseteq misled'
<1>1. /\ row \in [Notifs -> Rows] /\ accepted \in [Notifs -> Nat]
  BY DEF LifeInv, TypeInv, TypeOK, StoreType, ConsumerType
<1>2. CASE Stays
  BY <1>1, <1>2 DEF Stays, Present
<1>3. ASSUME NEW m \in Notifs, Taken(m) \/ Misled(m)
      PROVE  row'[n] = row[n] /\ accepted'[n] >= accepted[n] /\ misled \subseteq misled'
  BY <1>1, <1>3 DEF Taken, Misled
<1>4. ASSUME NEW m \in Notifs, NEW r \in Rows, Written(m, r)
      PROVE  UNCHANGED <<accepted, misled>> /\ (Present(n) => Present(n)')
  <2>1. r.status # "absent"
    BY <1>4 DEF Written, Earned
  <2>2. QED
    BY <1>1, <1>4, <2>1 DEF Written, Present
<1>5. ASSUME NEW S \in SUBSET Notifs, NEW later \in SUBSET Notifs, Stored(S, later)
      PROVE  UNCHANGED <<accepted, misled>> /\ (Present(n) => Present(n)')
  <2>1. row'[n] = IF n \in S THEN NewNotification(n \in later) ELSE row[n]
    BY <1>5 DEF Stored
  <2>2. NewNotification(n \in later).status # "absent"
    BY DEF NewNotification
  <2>3. QED
    BY <1>5, <2>1, <2>2 DEF Stored, Present
<1>6. QED
  BY <1>1, <1>2, <1>3, <1>4, <1>5, StepEffect DEF Effect, Present

-----------------------------------------------------------------------------
(* The invariant.                                                          *)

\* What the API has stored and not published is in the table.
LEMMA UnpublishedPresent ==
  ASSUME LifeInv, [Next]_vars, NEW n \in unpublished'
  PROVE  Present(n)'
<1>1. unpublished \subseteq Notifs /\ \A m \in unpublished : Present(m)
  BY DEF LifeInv, TypeInv, TypeOK, ApiType, AllPresent
<1>2. CASE n \in unpublished
  BY <1>1, <1>2, NothingLost
<1>3. ASSUME NEW m \in Notifs, Create(m), n \notin unpublished PROVE Present(n)'
  <2>1. \A s \in BOOLEAN : NewNotification(s).status # "absent"
    BY DEF NewNotification
  <2>2. n = m /\ row'[m].status # "absent"
    BY <1>3, <2>1 DEF Create, Insert, LifeInv, TypeInv, TypeOK, StoreType
  <2>3. QED
    BY <2>2 DEF Present
<1>4. ASSUME CreateBatch, n \notin unpublished PROVE Present(n)'
  <2>1. PICK later \in SUBSET Batched :
          InsertBatch(later) /\ unpublished' = unpublished \cup (Batched \ later)
    BY <1>4 DEF CreateBatch
  <2>2. n \in Batched /\ n \in Notifs
    BY <1>4, <2>1, BatchedAssumption
  <2>3. row'[n] = NewNotification(n \in later)
    BY <2>1, <2>2 DEF InsertBatch
  <2>4. QED
    BY <2>3 DEF Present, NewNotification
<1>5. ASSUME NEW w \in Workers, WorkerStep(w) \/ GroupStep(w) \/ Stop(w) \/ Crash(w)
      PROVE  UNCHANGED unpublished
  BY <1>5 DEF WorkerStep, GroupStep, Stop, Crash, Exit, Perish, apiVars
<1>6. ASSUME NEW m \in Notifs, FallDue(m) \/ Age(m) PROVE UNCHANGED unpublished
  BY <1>6 DEF FallDue, Age, apiVars
<1>7. CASE ApiStep
  <2>1. \/ \E m \in Notifs : Create(m)
        \/ CreateBatch
        \/ unpublished' \subseteq unpublished
    BY <1>7 DEF ApiStep, PublishNew, CancelStep, CancelRead, CancelUpdate, CancelCount, ApiCrash
  <2>2. QED
    BY <1>2, <1>3, <1>4, <2>1
<1>8. QED
  BY <1>2, <1>5, <1>6, <1>7 DEF Next, Quiescent, vars, apiVars

\* A scheduler lists stored rows only.
LEMMA ListedPresent ==
  ASSUME LifeInv, [Next]_vars, NEW w \in Workers, NEW n \in Notifs,
         n \in sched'[w].todo \/ n = sched'[w].cur
  PROVE  Present(n)'
<1>1. n \in sched[w].todo \/ n = sched[w].cur => Present(n)
  BY DEF LifeInv, AllPresent
<1>2. CASE n \in sched[w].todo \/ n = sched[w].cur
  BY <1>1, <1>2, NothingLost
<1>3. ASSUME NEW v \in Workers, SchedulerStep(v), n \notin sched[w].todo, n # sched[w].cur
      PROVE  Present(n)
  <2>1. v = w
    BY <1>3, SchedulerEffect DEF LifeInv
  <2>2. n \in sched'[w].todo
    BY <1>3, <2>1, SchedulerEffect, NoNotifAssumption DEF LifeInv
  <2>3. QED
    BY <1>3, <2>1, <2>2, SchedulerEffect DEF LifeInv, Present
<1>4. CASE \A v \in Workers : ~SchedulerStep(v)
  <2>1. sched'[w] = sched[w] \/ sched'[w] = AtRest
    BY <1>4 DEF Next, WorkerStep, Exit, Crash, Perish, GroupStep, Stop, ApiStep, FallDue, Age,
       Quiescent, vars, LifeInv, TypeInv, TypeOK, SchedulerType
  <2>2. QED
    BY <1>2, <2>1, NoNotifAssumption DEF AtRest
<1>5. QED
  BY <1>2, <1>3, <1>4, NothingLost

\* A message is written for a stored notification only.
LEMMA LogPresent ==
  ASSUME LifeInv, [Next]_vars, NEW i \in 1..Len(log'), NEW n \in Notifs, n = log'[i]
  PROVE  Present(n)'
<1>1. CASE i \in 1..Len(log)
  BY <1>1, LogEffect, NothingLost DEF LifeInv, AllPresent
<1>2. CASE i \notin 1..Len(log)
  <2>1. CASE n \in unpublished
    BY <2>1, NothingLost DEF LifeInv, AllPresent
  <2>2. ASSUME NEW w \in Workers, Busy(w), n = Msg(w) PROVE Present(n)'
    <3>1. cons[w].off \in 1..Len(log)
      BY <2>2 DEF LifeInv, TypeInv, InRange
    <3>2. Present(n)
      BY <2>2, <3>1 DEF LifeInv, AllPresent, Msg
    <3>3. QED
      BY <3>2, NothingLost
  <2>3. ASSUME NEW w \in Workers, n = sched[w].cur PROVE Present(n)'
    BY <2>3, NothingLost DEF LifeInv, AllPresent
  <2>4. QED
    BY <1>2, <2>1, <2>2, <2>3, LogEffect DEF LifeInv
<1>3. QED
  BY <1>1, <1>2

\* A handler's copy says delivered only after Send has succeeded.
LEMMA DeliveredTaken ==
  ASSUME LifeInv, [Next]_vars, NEW w \in Workers,
         cons'[w].pc = "settle", cons'[w].copy.status = "delivered"
  PROVE  Grounded(Msg(w))'
<1>1. \A v \in Workers : Busy(v) => cons[v].off \in 1..Len(log) /\ Msg(v) \in Notifs
  BY MsgType DEF LifeInv, TypeInv, InRange
<1>2. accepted \in [Notifs -> Nat]
  BY DEF LifeInv, TypeInv, TypeOK, ConsumerType
<1>3. CASE cons'[w] = cons[w]
  <2>1. Busy(w) /\ Msg(w)' = Msg(w)
    BY <1>1, <1>3, LogEffect DEF LifeInv, Busy, Msg
  <2>2. Grounded(Msg(w))
    BY <1>3 DEF LifeInv, TakenFirst
  <2>3. accepted' \in [Notifs -> Nat]
    BY TypeInvStep DEF LifeInv, TypeInv, TypeOK, ConsumerType
  <2>4. accepted'[Msg(w)] >= accepted[Msg(w)] /\ misled \subseteq misled'
    BY <1>1, <2>1, NothingLost
  <2>5. QED
    BY <1>1, <1>2, <2>1, <2>2, <2>3, <2>4 DEF Grounded
<1>4. CASE Send(w)
  <2> DEFINE n == Msg(w)
             r == cons[w].copy
  <2>1. Busy(w) /\ r \in Rows /\ r.status = "processing"
    BY <1>4 DEF Send, Busy, LifeInv, CopiesSettle, TypeInv, TypeOK, ConsumerType, Loops
  <2>2. \A t \in BOOLEAN : AfterSendError(n, r, t).status # "delivered"
    BY <2>1 DEF AfterSendError, IncrementRetry, MarkFailed, Rows
  <2>3. \/ /\ accepted' = [accepted EXCEPT ![n] = @ + 1] \/ misled' = misled \cup {n}
           /\ Goto(w, "settle", MarkDelivered(r))
        \/ \E t \in BOOLEAN : Goto(w, "settle", AfterSendError(n, r, t))
    BY <1>4 DEF Send
  <2>4. accepted' = [accepted EXCEPT ![n] = @ + 1] \/ misled' = misled \cup {n}
    BY <2>2, <2>3, GotoPlace DEF LifeInv, TypeInv, TypeOK, ConsumerType
  <2>5. Msg(w)' = n
    <3>1. cons'[w].off = cons[w].off
      BY <2>3, GotoPlace DEF LifeInv, TypeInv, TypeOK, ConsumerType
    <3>2. QED
      BY <1>1, <2>1, <3>1, LogEffect DEF LifeInv, Msg
  <2>6. QED
    BY <1>1, <1>2, <2>1, <2>4, <2>5 DEF Grounded
<1>5. ASSUME ConsumerStep(w), ~Send(w) PROVE FALSE
  <2>1. cons \in [Workers -> Loops]
    BY DEF LifeInv, TypeInv, TypeOK, ConsumerType
  <2>2. \A pc, r : Goto(w, pc, r) => cons'[w].pc = pc
    BY <2>1, GotoPlace
  <2>3. CASE Fetch(w) \/ Commit(w)
    BY <2>1, <2>3 DEF Fetch, Commit, Idle
  <2>4. CASE ~Fetch(w) /\ ~Commit(w)
    BY <1>5, <2>2, <2>4 DEF ConsumerStep, Load, Mark, Settle, Count, Republish
  <2>5. QED
    BY <2>3, <2>4
<1>6. CASE ~ConsumerStep(w)
  <2>1. ASSUME NEW v \in Workers, ConsumerStep(v) PROVE cons'[w] = cons[w]
    BY <1>6, <2>1, HandlerEffect DEF LifeInv
  <2>2. cons'[w] = cons[w] \/ cons'[w] = Idle
    BY <2>1 DEF Next, WorkerStep, Exit, Crash, Perish, GroupStep, Stop, ApiStep, FallDue, Age,
       Quiescent, vars, consVars, LifeInv, TypeInv, TypeOK, ConsumerType
  <2>3. QED
    BY <1>3, <2>2 DEF Idle
<1>7. QED
  BY <1>4, <1>5, <1>6

\* Nothing is stored, listed or in hand to begin with.
LEMMA LifeInvInit == Init => LifeInv
<1> SUFFICES ASSUME Init PROVE LifeInv
  OBVIOUS
<1>1. AllPresent
  BY NoNotifAssumption DEF Init, PartitionInit, ApiInit, SchedulerInit, AtRest, AllPresent
<1>2. TakenFirst
  BY DEF Init, ConsumerInit, Idle, TakenFirst
<1>3. QED
  BY <1>1, <1>2, TypeInvInit, CopiesInit DEF LifeInv

\* The invariant is inductive.
LEMMA LifeInvStep == LifeInv /\ [Next]_vars => LifeInv'
<1> SUFFICES ASSUME LifeInv, [Next]_vars PROVE LifeInv'
  OBVIOUS
<1>1. TypeInv' /\ CopiesSettle'
  BY TypeInvStep, CopiesStep DEF LifeInv
<1>2. AllPresent'
  <2>1. \A i \in 1..Len(log') : log'[i] \in Notifs
    BY <1>1 DEF TypeInv, TypeOK, PartitionType
  <2>2. \A i \in 1..Len(log') : Present(log[i])'
    BY <2>1, LogPresent DEF Present
  <2>3. \A n \in unpublished' : Present(n)'
    BY UnpublishedPresent
  <2>4. \A w \in Workers : \A n \in Notifs :
           n \in sched'[w].todo \/ n = sched'[w].cur => Present(n)'
    BY ListedPresent
  <2>5. QED
    BY <2>2, <2>3, <2>4 DEF AllPresent
<1>3. TakenFirst'
  BY DeliveredTaken DEF TakenFirst
<1>4. QED
  BY <1>1, <1>2, <1>3 DEF LifeInv

-----------------------------------------------------------------------------
(* The refinement.                                                         *)

\* A row written over a stored one is a move of the abstract life cycle.
LEMMA WrittenMoves ==
  ASSUME LifeInv, NEW n \in Notifs, NEW r \in Rows, Written(n, r)
  PROVE  Loose!Next
<1>1. row \in [Notifs -> Rows] /\ UNCHANGED <<accepted, misled>>
  BY DEF LifeInv, TypeInv, TypeOK, StoreType, Written
<1>2. Status[n] # "absent" /\ Status' = [Status EXCEPT ![n] = r.status]
  BY <1>1 DEF Written, Present, Status
<1>3. \A From : Loose!Moves(n, From, r.status)
  BY <1>1, <1>2 DEF Loose!Moves
<1>4. \/ Loose!Recover(n) \/ Loose!TakeUp(n) \/ Loose!Fail(n) \/ Loose!Deliver(n)
      \/ Loose!Cancel(n)
  <2>1. Earned(n, r.status)
    BY DEF Written
  <2>2. CASE r.status \in {"pending", "processing", "failed"}
    BY <1>3, <2>2 DEF Loose!Recover, Loose!TakeUp, Loose!Fail
  <2>3. CASE r.status = "delivered" /\ Grounded(n)
    BY <1>3, <2>3 DEF Loose!Deliver, Grounded
  <2>4. CASE r.status = "cancelled" /\ CanCancel(row[n])
    BY <1>3, <2>4 DEF Loose!Cancel, Status, CanCancel
  <2>5. QED
    BY <2>1, <2>2, <2>3, <2>4 DEF Earned
<1>5. QED
  BY <1>4 DEF Loose!Next

\* Rows stored by a request are accepted notifications.
LEMMA StoredAccepts ==
  ASSUME NEW S \in SUBSET Notifs, NEW later \in SUBSET Notifs, Stored(S, later)
  PROVE  Loose!Accept
<1>1. /\ S \cap later \in SUBSET {n \in Notifs : Status[n] = "absent"}
      /\ S \in SUBSET {n \in Notifs : Status[n] = "absent"}
  BY DEF Stored, NoRow, Status
<1>2. Status' = [n \in Notifs |-> IF n \in S \cap later THEN "scheduled"
                                  ELSE IF n \in S THEN "pending" ELSE Status[n]]
  BY DEF Stored, NewNotification, Status
<1>3. UNCHANGED <<accepted, misled>>
  BY DEF Stored
<1>4. QED
  BY <1>1, <1>2, <1>3 DEF Loose!Accept

\* Every step of the system is a step of the abstract life cycle or none.
LEMMA LooseStep == LifeInv /\ [Next]_vars => [Loose!Next]_<<Status, accepted, misled>>
<1> SUFFICES ASSUME LifeInv, [Next]_vars
             PROVE  Loose!Next \/ UNCHANGED <<Status, accepted, misled>>
  OBVIOUS
<1>1. CASE Stays
  BY <1>1 DEF Stays, Status
<1>2. ASSUME NEW n \in Notifs, Taken(n) \/ Misled(n) PROVE Loose!Next
  <2>1. Loose!Send(n) \/ Loose!Mislead(n)
    BY <1>2 DEF Taken, Misled, Loose!Send, Loose!Mislead, Status
  <2>2. QED
    BY <2>1 DEF Loose!Next
<1>3. ASSUME NEW S \in SUBSET Notifs, NEW later \in SUBSET Notifs, Stored(S, later)
      PROVE  Loose!Next
  BY <1>3, StoredAccepts DEF Loose!Next
<1>4. QED
  BY <1>1, <1>2, <1>3, WrittenMoves, StepEffect DEF Effect

\* Any number of workers, schedulers, zombies and faults: a status a client
\* reads is one the notification has come by.  Delivered means that the
\* provider took it or answered it below 400 (doSend), cancelled that it was
\* waiting, and nothing stored disappears or goes back to scheduled.
THEOREM StatusesAreEarned == Safety => NoStatusMadeUp
<1>1. Init => Loose!Init
  BY DEF Init, StoreInit, ConsumerInit, NoRow, Loose!Init, Status
<1>2. LifeInv /\ [Next]_vars => LifeInv' /\ [Loose!Next]_Loose!vars
  BY LifeInvStep, LooseStep DEF Loose!vars
<1>3. QED
  BY <1>1, <1>2, LifeInvInit, PTL DEF Safety, NoStatusMadeUp, Loose!Spec
====
