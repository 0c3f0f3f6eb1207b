---- MODULE OneWorkerProofs ----
(***************************************************************************)
(* One worker process, to which the group never hands the partition while  *)
(* it has it, and any number of notifications, requests and faults: what   *)
(* lies behind its reader is committed or in its hand, so a row that       *)
(* scheduler or recovery may reset has nothing under way.  Delivered rows  *)
(* stay delivered, and the provider takes a notification again only after  *)
(* a fault for each time.                                                  *)
(***************************************************************************)
EXTENDS SystemProofs

\* A deployment with one worker process, to which the group never hands the
\* partition a second time while it has it.
Alone(w) == Workers = {w} /\ MaxFaults["rebalance"] = 0

\* The hypothesis of the theorems below.
OneWorker == \E w : Alone(w)

-----------------------------------------------------------------------------
(* The invariants.                                                         *)

\* Where w stands in the log: what is behind its reader is committed, noted or
\* in its hand, unless it is shutting down.
Place(w) ==
    /\ zombies = {}
    /\ owner = NoWorker => ~Busy(w) /\ pend[w] = 0
    /\ owner = w => committed < next[w] /\ pend[w] < next[w]
    /\ pend[w] > 0 => committed < pend[w]
    /\ Busy(w) => cons[w].off = next[w] - 1 /\ committed < cons[w].off /\ pend[w] < cons[w].off
    /\ owner = w /\ w \notin stopping =>
          \A i \in (committed + 1)..(next[w] - 1) : i <= pend[w] \/ (Busy(w) /\ i = cons[w].off)

-----------------------------------------------------------------------------
(* Place.                                                                  *)

\* The kinds of what one worker has, spelled out.
Sorts(w) ==
    /\ w \in Workers /\ w # NoWorker /\ \A v \in Workers : v = w
    /\ owner \in {w, NoWorker} /\ zombies \subseteq {w} /\ stopping \subseteq {w}
    /\ committed \in Nat /\ next[w] \in Nat \ {0} /\ pend[w] \in Nat
    /\ next \in [{w} -> Nat \ {0}] /\ pend \in [{w} -> Nat]
    /\ cons \in [Workers -> Loops] /\ cons[w].off \in Nat /\ cons[w].copy \in Rows
    /\ log \in Seq(Notifs) /\ Len(log) \in Nat
    /\ Busy(w) => cons[w].off \in 1..Len(log) /\ Msg(w) \in Notifs

\* They follow from the type invariant.
LEMMA SortsHold == ASSUME NEW w, Alone(w), TypeInv PROVE Sorts(w)
<1>1. Workers = {w}
  BY DEF Alone
<1>2. /\ owner \in {w, NoWorker} /\ zombies \subseteq {w} /\ stopping \subseteq {w}
      /\ committed \in Nat /\ next \in [{w} -> Nat \ {0}] /\ pend \in [{w} -> Nat]
      /\ cons \in [Workers -> Loops] /\ log \in Seq(Notifs)
  BY <1>1 DEF TypeInv, TypeOK, PartitionType, ConsumerType, FaultsType
<1>3. cons[w].off \in Nat /\ cons[w].copy \in Rows
  BY <1>1, <1>2 DEF Loops
<1>4. Busy(w) => cons[w].off \in 1..Len(log) /\ Msg(w) \in Notifs
  BY <1>1, MsgType DEF TypeInv, InRange
<1>5. QED
  BY <1>1, <1>2, <1>3, <1>4, NoWorkerAssumption DEF Sorts

\* A step that leaves the readers alone and w's loop at its message.
LEMMA PlaceKept ==
  ASSUME NEW w, Place(w), UNCHANGED <<groupVars>>, w \in stopping => w \in stopping',
         Busy(w)' <=> Busy(w), Busy(w) => cons'[w].off = cons[w].off
  PROVE  Place(w)'
BY DEF Place, groupVars

\* The steps of the loop.
LEMMA ConsumerPlace ==
  ASSUME NEW w, Alone(w), TypeInv, Place(w), ConsumerStep(w)
  PROVE  Place(w)'
<1>s. Sorts(w)
  BY SortsHold
<1>0. UNCHANGED stopping
  BY DEF ConsumerStep, Fetch, Load, Mark, Send, Settle, Count, Republish, Commit
<1>1. CASE Fetch(w)
  <2>1. /\ owner = w /\ ~Busy(w) /\ Busy(w)' /\ cons'[w].off = next[w]
        /\ next'[w] = next[w] + 1
        /\ UNCHANGED <<committed, owner, zombies, pend>>
    BY <1>1, <1>s DEF Sorts, Fetch, Place, Reads, Busy
  <2>2. committed < next[w] /\ pend[w] < next[w]
    BY <2>1 DEF Place
  <2>3. w \notin stopping' =>
           \A i \in (committed + 1)..(next'[w] - 1) : i <= pend[w] \/ i = cons'[w].off
    BY <1>0, <2>1, <1>s DEF Sorts, Place
  <2>4. QED
    BY <2>1, <2>2, <2>3, <1>s DEF Sorts, Place
<1>2. CASE Load(w) \/ Mark(w) \/ Send(w) \/ Settle(w) \/ Count(w) \/ Republish(w)
  <2>1. PICK pc \in {"mark", "send", "settle", "count", "republish", "commit"} :
          \E r : Goto(w, pc, r)
    BY <1>2 DEF Load, Mark, Send, Settle, Count, Republish
  <2>2. Busy(w) /\ UNCHANGED groupVars
    BY <1>2 DEF Load, Mark, Send, Settle, Count, Republish, Busy, partitionVars, groupVars
  <2>3. Busy(w)' /\ cons'[w].off = cons[w].off
    BY <2>1, GotoPlace, <1>s DEF Sorts, Busy
  <2>4. QED
    BY <1>0, <2>2, <2>3, PlaceKept
<1>3. CASE Commit(w)
  <2> DEFINE o == cons[w].off
  <2>1. /\ Busy(w) /\ ~Busy(w)'
        /\ UNCHANGED <<committed, owner, zombies, next>>
        /\ pend'[w] = o \/ (w \in stopping /\ pend'[w] = pend[w])
    <3>1. Busy(w) /\ ~Busy(w)' /\ UNCHANGED <<committed, owner, zombies, next>>
      BY <1>3, <1>s DEF Sorts, Commit, Busy, Idle
    <3>2. pend[w] < o
      BY <3>1 DEF Place
    <3>3. QED
      BY <1>3, <3>1, <3>2, <1>s DEF Sorts, Commit, NoteOffset
  <2>2. owner = w
    BY <2>1, <1>s DEF Sorts, Place
  <2>3. committed < o /\ o = next[w] - 1
    BY <2>1 DEF Place
  <2>4. QED
    BY <1>0, <2>1, <2>2, <2>3, <1>s DEF Sorts, Place
<1>4. QED
  BY <1>1, <1>2, <1>3 DEF ConsumerStep

\* The steps of the group, and those that end the process.
LEMMA GroupPlace ==
  ASSUME NEW w, Alone(w), TypeInv, Place(w),
         GroupStep(w) \/ (\E final \in BOOLEAN : Leave(w, final) /\ Perish(w))
  PROVE  Place(w)'
<1>s. Sorts(w)
  BY SortsHold
<1>1. CASE Assign(w) /\ UNCHANGED cons
  <2>1. owner = NoWorker
    <3>1. ~Spend("rebalance")
      <4>1. faults["rebalance"] \in Nat
        BY KindFacts DEF TypeInv, TypeOK, FaultsType
      <4>2. QED
        BY <4>1 DEF Spend, Alone
    <3>2. QED
      BY <1>1, <3>1 DEF Assign
  <2>2. /\ owner' = w /\ zombies' = {} /\ next'[w] = committed + 1
        /\ UNCHANGED <<committed, pend>>
    BY <1>1, <2>1, <1>s DEF Sorts, Assign, Place
  <2>3. ~Busy(w)' /\ pend[w] = 0
    BY <1>1, <2>1 DEF Place, Busy
  <2>4. QED
    BY <2>2, <2>3, <1>s DEF Sorts, Place
<1>2. CASE Revoke(w)
  BY <1>2 DEF Revoke, Place
<1>3. CASE Flush(w) /\ UNCHANGED cons
  <2>1. owner = w
    BY <1>3, <1>s DEF Sorts, Flush, Place
  <2>2. /\ committed' = pend[w] /\ pend'[w] = 0 /\ pend[w] > 0
        /\ UNCHANGED <<owner, zombies, next, stopping>> /\ Busy(w)' = Busy(w)
    BY <1>3, <2>1, <1>s DEF Sorts, Flush, Busy
  <2>3. QED
    BY <1>3, <2>1, <2>2, <1>s DEF Sorts, Place
<1>4. ASSUME NEW final \in BOOLEAN, Leave(w, final), Perish(w)
      PROVE  Place(w)'
  <2>1. ~Busy(w)' /\ owner' = NoWorker /\ pend'[w] = 0 /\ zombies' = {}
    BY <1>4, <1>s DEF Sorts, Leave, Perish, Busy, Idle, Place
  <2>2. QED
    BY <2>1, <1>s DEF Sorts, Place
<1>5. QED
  BY <1>1, <1>2, <1>3, <1>4 DEF GroupStep, consVars

\* Nobody has the partition to begin with.
LEMMA PlaceInit == ASSUME NEW w, Alone(w), Init PROVE Place(w)
BY NoWorkerAssumption DEF Alone, Init, PartitionInit, ConsumerInit, Idle, Busy, Place

\* Every step keeps w's place.
LEMMA PlaceStep == ASSUME NEW w, Alone(w), TypeInv, Place(w), [Next]_vars PROVE Place(w)'
<1>s. Sorts(w)
  BY SortsHold
<1>1. \A v \in Workers : v = w
  BY <1>s DEF Sorts
<1>2. ASSUME NEW v \in Workers, WorkerStep(v) \/ GroupStep(v) \/ Crash(v) \/ Stop(v)
      PROVE  Place(w)'
  <2>1. CASE SchedulerStep(v) /\ UNCHANGED <<consVars, apiVars>>
    <3>1. UNCHANGED <<groupVars, cons, stopping>>
      BY <2>1 DEF SchedulerStep, ListDue, ListStuck, List, EndTick, Reset, Enqueue,
         partitionVars, groupVars, consVars
    <3>2. QED
      BY <3>1, PlaceKept DEF Busy
  <2>2. CASE Stop(v)
    BY <2>2, PlaceKept DEF Stop, partitionVars, groupVars, consVars, Busy
  <2>3. CASE ConsumerStep(v) \/ GroupStep(v)
    BY <1>1, <2>3, ConsumerPlace, GroupPlace
  <2>4. CASE Exit(v) \/ Crash(v)
    BY <1>1, <2>4, GroupPlace DEF Exit, Crash
  <2>5. QED
    BY <1>2, <2>1, <2>2, <2>3, <2>4 DEF WorkerStep
<1>3. ASSUME \/ ApiStep \/ \E n \in Notifs : FallDue(n) \/ Age(n)
             \/ UNCHANGED vars
      PROVE  UNCHANGED <<groupVars, cons, stopping>>
  BY <1>3 DEF ApiStep, Create, CreateBatch, PublishNew, CancelStep, CancelRead, CancelUpdate,
     CancelCount, ApiCrash, FallDue, Age, vars, partitionVars, groupVars, consVars
<1>4. QED
  BY <1>2, <1>3, PlaceKept DEF Next, Quiescent, Busy

-----------------------------------------------------------------------------
(* What a step does to one notification.                                   *)

\* Nothing of n is under way, nor will a restart bring it back.
Over(w, n) == /\ n \notin unpublished
              /\ n # sched[w].cur
              /\ \A i \in 1..Len(log) : log[i] = n => i <= committed

\* The handler is at step pc of the delivery of n.
At(w, pc, n) == cons[w].pc = pc /\ Msg(w) = n

\* A scheduler step begins a pass, goes on without a write, or resets a row.
Lists(w) ==
    /\ UNCHANGED <<row, aged, log>>
    /\ sched'[w].cur = NoNotif
    /\ \/ sched'[w].pc = "due" /\ \A n \in sched'[w].todo : row[n].status = "scheduled"
       \/ sched'[w].pc = "stuck" /\ \A n \in sched'[w].todo : n \in aged /\ row[n].status = "processing"
    /\ \A n \in sched'[w].todo : sched'[w].copy[n] = row[n]

\* What is left of the pass is part of rest, as the pass has read it.
GoesOn(w, rest) ==
    /\ sched'[w].todo \subseteq rest
    /\ \A n \in sched'[w].todo : sched'[w].pc = sched[w].pc /\ sched'[w].copy[n] = sched[w].copy[n]

Continues(w) ==
    /\ UNCHANGED <<row, aged>>
    /\ GoesOn(w, sched[w].todo)
    /\ \/ sched'[w].cur \in {sched[w].cur, NoNotif} /\ UNCHANGED log
       \/ /\ sched[w].cur \in Notifs /\ sched'[w].cur = NoNotif
          /\ log' = Append(log, sched[w].cur)

Resets(w, n) ==
    /\ n \in sched[w].todo /\ sched[w].pc \in {"due", "stuck"}
    /\ row' = [row EXCEPT ![n] = [sched[w].copy[n] EXCEPT !.status = "pending"]]
    /\ aged' = aged \ {n}
    /\ GoesOn(w, sched[w].todo \ {n})
    /\ sched'[w].cur \in {n, NoNotif}
    /\ UNCHANGED log

\* Advance goes on with the pass or ends it.
LEMMA AdvanceGoesOn ==
  ASSUME NEW s \in Passes
  PROVE  /\ Advance(s).todo \subseteq s.todo
         /\ Advance(s).cur = s.cur \/ Advance(s).cur = NoNotif
         /\ \A n \in Advance(s).todo : Advance(s).pc = s.pc /\ Advance(s).copy = s.copy
BY DEF Advance, AtRest

\* These are the steps of the scheduler.
LEMMA SchedulerView ==
  ASSUME NEW w \in Workers, TypeInv, SchedulerStep(w)
  PROVE  Lists(w) \/ Continues(w) \/ \E n \in Notifs : Resets(w, n)
<1>1. sched[w] \in Passes /\ sched \in [Workers -> Passes] /\ row \in [Notifs -> Rows]
      /\ aged \subseteq Notifs
  BY DEF TypeInv, TypeOK, SchedulerType, StoreType
<1>2. AtRest.todo = {} /\ AtRest.cur = NoNotif
  BY DEF AtRest
<1>3. CASE ListDue(w) \/ ListStuck(w)
  <2>1. PICK pc \in {"due", "stuck"}, S \in SUBSET Notifs :
          /\ List(w, pc, S)
          /\ pc = "due" => \A n \in S : row[n].status = "scheduled"
          /\ pc = "stuck" => \A n \in S : n \in aged /\ row[n].status = "processing"
    BY <1>1, <1>3 DEF ListDue, ListStuck, ListDueScheduled, ListStuckProcessing,
       TypeInv, TypeOK, StoreType
  <2>2. /\ Listing(pc, S).todo = S /\ Listing(pc, S).cur = NoNotif /\ Listing(pc, S).pc = pc
        /\ \A n \in S : Listing(pc, S).copy[n] = row[n]
    BY DEF Listing, AtRest
  <2>3. sched'[w] = Listing(pc, S) /\ UNCHANGED <<row, aged, log>>
    BY <1>1, <2>1 DEF List, storeVars, partitionVars
  <2>4. QED
    BY <2>1, <2>2, <2>3 DEF Lists
<1>4. CASE EndTick(w)
  <2>1. sched'[w] = AtRest /\ UNCHANGED <<row, aged, log>>
    BY <1>1, <1>4 DEF EndTick, storeVars, partitionVars
  <2>2. QED
    BY <1>2, <2>1 DEF Continues, GoesOn
<1>5. CASE Reset(w)
  <2>1. PICK n \in sched[w].todo :
          LET s == [sched[w] EXCEPT !.todo = @ \ {n}, !.copy[n] = NoRow]
              r == [sched[w].copy[n] EXCEPT !.status = "pending"]
          IN \/ /\ UpdateStatus(n, r)
                /\ \/ sched' = [sched EXCEPT ![w] = [s EXCEPT !.cur = n]]
                   \/ sched' = [sched EXCEPT ![w] = Advance(s)]
             \/ /\ UNCHANGED <<row, aged>>
                /\ sched' = [sched EXCEPT ![w] = Advance(s)]
    BY <1>5 DEF Reset, CallFails
  <2> DEFINE s == [sched[w] EXCEPT !.todo = @ \ {n}, !.copy[n] = NoRow]
             c == [s EXCEPT !.cur = n]
             r == [sched[w].copy[n] EXCEPT !.status = "pending"]
  <2>2. n \in Notifs /\ sched[w].copy[n] \in Rows
    BY <1>1 DEF Passes
  <2>3. /\ s \in Passes /\ s.todo = sched[w].todo \ {n} /\ s.cur = sched[w].cur
        /\ s.pc = sched[w].pc /\ \A m \in s.todo : s.copy[m] = sched[w].copy[m]
        /\ c.todo = s.todo /\ c.cur = n /\ c.pc = s.pc /\ c.copy = s.copy
    BY <1>1, <2>2, RowFacts DEF Passes
  <2>4. /\ sched[w].cur = NoNotif /\ sched[w].pc \in {"due", "stuck"} /\ UNCHANGED log
    BY <1>5 DEF Reset
  <2>5. \/ UpdateStatus(n, r) /\ (sched' = [sched EXCEPT ![w] = c] \/ sched' = [sched EXCEPT ![w] = Advance(s)])
        \/ UNCHANGED <<row, aged>> /\ sched' = [sched EXCEPT ![w] = Advance(s)]
    BY <2>1
  <2> HIDE DEF s, c
  <2>6. /\ Advance(s).todo \subseteq s.todo
        /\ Advance(s).cur = NoNotif
        /\ \A m \in Advance(s).todo : Advance(s).pc = s.pc /\ Advance(s).copy = s.copy
    BY <2>3, <2>4, AdvanceGoesOn
  <2>7. CASE sched' = [sched EXCEPT ![w] = c]
    <3>1. sched'[w] = c /\ UpdateStatus(n, r)
      BY <1>1, <2>5, <2>7, <2>3, <2>6, <2>2, NoNotifAssumption
    <3>2. QED
      BY <2>2, <2>3, <2>4, <3>1 DEF Resets, UpdateStatus, GoesOn
  <2>8. CASE sched' = [sched EXCEPT ![w] = Advance(s)]
    <3>1. sched'[w] = Advance(s)
      BY <1>1, <2>8
    <3>2. CASE UpdateStatus(n, r)
      BY <2>2, <2>3, <2>4, <2>6, <3>1, <3>2 DEF Resets, UpdateStatus, GoesOn
    <3>3. CASE UNCHANGED <<row, aged>>
      BY <2>2, <2>3, <2>4, <2>6, <3>1, <3>3 DEF Continues, GoesOn
    <3>4. QED
      BY <2>5, <2>7, <3>2, <3>3
  <2>9. QED
    BY <2>5, <2>7, <2>8
<1>6. CASE Enqueue(w)
  <2> DEFINE s == [sched[w] EXCEPT !.cur = NoNotif]
  <2>1. /\ s \in Passes /\ s.todo = sched[w].todo /\ s.cur = NoNotif
        /\ s.pc = sched[w].pc /\ s.copy = sched[w].copy
    BY <1>1 DEF Passes
  <2>2. /\ sched' = [sched EXCEPT ![w] = Advance(s)] /\ UNCHANGED <<row, aged>>
        /\ sched[w].cur \in Notifs
        /\ log' = log \/ log' = Append(log, sched[w].cur)
    BY <1>1, <1>6 DEF Enqueue, storeVars, PublishFails, Publish, PublishErrs, Passes
  <2> HIDE DEF s
  <2>3. sched'[w] = Advance(s)
    BY <1>1, <2>2
  <2>4. GoesOn(w, sched[w].todo) /\ sched'[w].cur = NoNotif
    BY <2>1, <2>3, AdvanceGoesOn DEF GoesOn
  <2>5. QED
    BY <2>2, <2>4 DEF Continues
<1>7. QED
  BY <1>3, <1>4, <1>5, <1>6 DEF SchedulerStep

\* With one worker every step is one of these.
LEMMA Steps ==
  ASSUME NEW w, Alone(w), TypeInv, [Next]_vars
  PROVE  \/ ConsumerStep(w) /\ UNCHANGED <<sched, apiVars>>
         \/ SchedulerStep(w) /\ UNCHANGED <<consVars, apiVars>>
         \/ Exit(w) \/ Crash(w) \/ Stop(w) \/ GroupStep(w) \/ ApiStep
         \/ \E n \in Notifs : FallDue(n) \/ Age(n)
         \/ UNCHANGED vars
<1>s. Sorts(w)
  BY SortsHold
<1>1. QED
  BY <1>s DEF Sorts, Next, WorkerStep, Quiescent

\* With one worker the broker's offset only moves on.
LEMMA CommittedGrows ==
  ASSUME NEW w, Alone(w), TypeInv, Place(w), [Next]_vars
  PROVE  committed' \in Nat /\ committed <= committed'
<1>s. Sorts(w)
  BY SortsHold
<1>1. CASE GroupStep(w) \/ Exit(w) \/ Crash(w)
  BY <1>1, <1>s DEF Sorts, Place, GroupStep, Assign, Revoke, Flush, Exit, Crash, Leave
<1>2. CASE ~(GroupStep(w) \/ Exit(w) \/ Crash(w))
  <2>1. UNCHANGED committed
    BY <1>2, Steps DEF ConsumerStep, Fetch, Load, Mark, Send, Settle, Count, Republish, Commit,
       SchedulerStep, ListDue, ListStuck, List, EndTick, Reset, Enqueue, Stop, ApiStep, Create,
       CreateBatch, PublishNew, CancelStep, CancelRead, CancelUpdate, CancelCount, ApiCrash,
       FallDue, Age, vars, partitionVars, groupVars
  <2>2. QED
    BY <1>s, <2>1 DEF Sorts
<1>3. QED
  BY <1>1, <1>2

\* A row nobody works on has nothing of it under way.
LEMMA RestIsOver ==
  ASSUME NEW w, Alone(w), TypeInv, Place(w), NEW n \in Notifs, ~UnderWay(n)
  PROVE  Over(w, n)
<1>s. Sorts(w)
  BY SortsHold
<1>1. n \notin unpublished /\ n # sched[w].cur /\ ~(Busy(w) /\ Msg(w) = n)
  BY <1>s DEF UnderWay, Outstanding, Sorts
<1>2. ASSUME NEW i \in 1..Len(log), log[i] = n, i > committed PROVE FALSE
  <2>1. ~Uncommitted(i)
    BY <1>2 DEF UnderWay
  <2>2. owner = w /\ w \notin stopping /\ i < next[w] /\ ~(i <= pend[w])
    BY <1>2, <1>s, <2>1 DEF Uncommitted, Sorts
  <2>3. i \in (committed + 1)..(next[w] - 1)
    BY <1>2, <1>s, <2>2 DEF Sorts
  <2>4. Busy(w) /\ i = cons[w].off
    BY <2>2, <2>3 DEF Place
  <2>5. QED
    BY <1>1, <1>2, <2>4 DEF Msg
<1>3. QED
  BY <1>1, <1>2, <1>s DEF Over, Sorts

\* The handler works on nothing that is over.
LEMMA OverNotHandled ==
  ASSUME NEW w, Alone(w), TypeInv, Place(w), NEW n \in Notifs, Over(w, n)
  PROVE  ~(Busy(w) /\ Msg(w) = n)
<1>s. Sorts(w)
  BY SortsHold
<1>1. QED
  BY <1>s DEF Over, Place, Msg, Sorts

\* What is in the table waits for the API only if it did before.
LEMMA UnpublishedEffect ==
  ASSUME TypeInv, [Next]_vars, NEW n \in unpublished', n \notin unpublished
  PROVE  row[n] = NoRow /\ ApiStep
<1>1. ASSUME NEW v \in Workers, WorkerStep(v) \/ GroupStep(v) \/ Stop(v) \/ Crash(v)
      PROVE  UNCHANGED unpublished
  BY <1>1 DEF WorkerStep, GroupStep, Stop, Crash, Exit, Perish, apiVars
<1>2. ASSUME NEW m \in Notifs, FallDue(m) \/ Age(m) PROVE UNCHANGED unpublished
  BY <1>2 DEF FallDue, Age, apiVars
<1>3. CASE ApiStep
  <2>1. ASSUME NEW m \in Notifs, Create(m) PROVE row[n] = NoRow
    BY <2>1 DEF Create, Insert
  <2>2. ASSUME CreateBatch PROVE row[n] = NoRow
    BY <2>2 DEF CreateBatch, InsertBatch
  <2>3. QED
    BY <1>3, <2>1, <2>2 DEF ApiStep, PublishNew, CancelStep, CancelRead, CancelUpdate,
       CancelCount, ApiCrash
<1>4. QED
  BY <1>1, <1>2, <1>3 DEF Next, Quiescent, vars, apiVars

\* The scheduler takes a notification into its hand only by a reset.
LEMMA HandEffect ==
  ASSUME NEW w, Alone(w), TypeInv, [Next]_vars, NEW n \in Notifs,
         sched'[w].cur = n, sched[w].cur # n
  PROVE  SchedulerStep(w) /\ Resets(w, n)
<1>s. Sorts(w)
  BY SortsHold
<1>1. CASE SchedulerStep(w)
  <2>1. ~Lists(w) /\ ~Continues(w)
    BY NoNotifAssumption DEF Lists, Continues
  <2>2. QED
    BY <1>1, <1>s, <2>1, SchedulerView, NoNotifAssumption DEF Resets, Sorts
<1>2. CASE ~SchedulerStep(w)
  <2>1. sched'[w] = sched[w] \/ sched'[w] = AtRest
    BY <1>2, <1>s, Steps DEF Exit, Crash, Perish, GroupStep, Stop, ApiStep, FallDue, Age,
       vars, Sorts, TypeInv, TypeOK, SchedulerType
  <2>2. QED
    BY <2>1, NoNotifAssumption DEF AtRest
<1>3. QED
  BY <1>1, <1>2

\* What is over stays over until the scheduler resets it.
LEMMA OverStays ==
  ASSUME NEW w, Alone(w), TypeInv, Place(w), [Next]_vars, NEW n \in Notifs, Present(n), Over(w, n)
  PROVE  Over(w, n)' \/ (SchedulerStep(w) /\ Resets(w, n))
<1>s. Sorts(w)
  BY SortsHold
<1>1. n \notin unpublished'
  BY UnpublishedEffect DEF Over, Present, NoRow
<1>2. n # sched'[w].cur \/ (SchedulerStep(w) /\ Resets(w, n))
  BY HandEffect DEF Over
<1>3. ASSUME NEW i \in 1..Len(log'), log'[i] = n PROVE i <= committed'
  <2>1. i \in 1..Len(log)
    <3>1. ~(Busy(w) /\ Msg(w) = n) /\ n \notin unpublished /\ n # sched[w].cur
      BY OverNotHandled DEF Over
    <3>2. \A v \in Workers : v = w
      BY <1>s DEF Sorts
    <3>3. i \notin 1..Len(log) =>
            \/ log'[i] \in unpublished
            \/ \E v \in Workers : Busy(v) /\ log'[i] = Msg(v)
            \/ \E v \in Workers : log'[i] = sched[v].cur
      BY LogEffect
    <3>4. QED
      BY <1>3, <3>1, <3>2, <3>3
  <2>2. i <= committed
    BY <1>3, <2>1, LogEffect DEF Over
  <2>3. QED
    BY <1>s, <2>1, <2>2, CommittedGrows DEF Sorts
<1>4. QED
  BY <1>1, <1>2, <1>3 DEF Over

\* Who writes the row of n, and what.
Rewritten(w, n) ==
    \/ row'[n] = row[n]
    \/ /\ ConsumerStep(w) /\ UNCHANGED <<sched, apiVars>>
       /\ At(w, "mark", n) \/ At(w, "settle", n)
       /\ row'[n] = cons[w].copy
    \/ SchedulerStep(w) /\ Resets(w, n)
    \/ /\ ApiStep /\ CanCancel(row[n])
       /\ row'[n] = [row[n] EXCEPT !.status = "cancelled"]
    \/ /\ ApiStep /\ row[n] = NoRow
       /\ \E later \in BOOLEAN : row'[n] = NewNotification(later)

\* Nothing else writes it.
LEMMA RowChange ==
  ASSUME NEW w, Alone(w), TypeInv, [Next]_vars, NEW n \in Notifs
  PROVE  Rewritten(w, n)
<1>s. Sorts(w) /\ row \in [Notifs -> Rows]
  BY SortsHold DEF TypeInv, TypeOK, StoreType
<1>1. CASE ConsumerStep(w) /\ UNCHANGED <<sched, apiVars>>
  BY <1>1, <1>s, HandlerEffect DEF Rewritten, At, Sorts
<1>2. CASE SchedulerStep(w)
  <2>1. CASE Lists(w) \/ Continues(w)
    BY <2>1 DEF Rewritten, Lists, Continues
  <2>2. ASSUME NEW m \in Notifs, Resets(w, m), m # n PROVE row'[n] = row[n]
    BY <1>s, <2>2 DEF Resets
  <2>3. QED
    BY <1>2, <1>s, <2>1, <2>2, SchedulerView DEF Rewritten, Sorts
<1>3. CASE ApiStep
  <2>1. CASE UNCHANGED row
    BY <2>1 DEF Rewritten
  <2>2. ASSUME NEW S \in SUBSET Notifs, NEW later \in SUBSET Notifs,
               \A m \in S : row[m] = NoRow,
               row' = [m \in Notifs |-> IF m \in S THEN NewNotification(m \in later) ELSE row[m]]
        PROVE  Rewritten(w, n)
    <3>1. (n \in later) \in BOOLEAN
      OBVIOUS
    <3>2. row'[n] = IF n \in S THEN NewNotification(n \in later) ELSE row[n]
      BY <2>2
    <3>3. QED
      BY <1>3, <2>2, <3>1, <3>2 DEF Rewritten
  <2>3. ASSUME NEW m \in Notifs, CanCancel(row[m]),
               row' = [row EXCEPT ![m] = [row[m] EXCEPT !.status = "cancelled"]]
        PROVE  Rewritten(w, n)
    BY <1>3, <1>s, <2>3 DEF Rewritten
  <2>4. QED
    BY <1>3, <2>1, <2>2, <2>3, ApiEffect
<1>4. CASE \/ Exit(w) \/ Crash(w) \/ Stop(w) \/ GroupStep(w) \/ UNCHANGED vars
           \/ \E m \in Notifs : FallDue(m) \/ Age(m)
  <2>1. UNCHANGED row
    BY <1>4 DEF Exit, Crash, Perish, GroupStep, Stop, FallDue, Age, vars, storeVars
  <2>2. QED
    BY <2>1 DEF Rewritten
<1>5. QED
  BY <1>1, <1>2, <1>3, <1>4, Steps

\* The steps of the loop as the notification in its hand sees them.
Stores(n, r) == row' = [row EXCEPT ![n] = r] /\ aged' = aged \ {n}
Kept == UNCHANGED <<row, aged>>
Takes(n) == accepted' = [accepted EXCEPT ![n] = @ + 1]
Stands(w) == cons'[w].off = cons[w].off /\ UNCHANGED next

Fetched(w) ==
    /\ cons[w].pc = "idle" /\ cons'[w].pc = "get" /\ cons'[w].off = next[w]
    /\ next[w] <= Len(log) /\ next'[w] = next[w] + 1
    /\ Kept /\ UNCHANGED <<batch, tried, accepted, log>>

Loaded(w) ==
    /\ cons[w].pc = "get" /\ Stands(w)
    /\ \/ cons'[w].pc \in {"commit", "republish"}
       \/ /\ cons'[w].pc = "mark" /\ cons'[w].copy = MarkProcessing(row[Msg(w)])
          /\ row[Msg(w)].status \notin {"cancelled", "delivered"}
    /\ Kept /\ UNCHANGED <<batch, tried, accepted, log>>

Marked(w) ==
    /\ cons[w].pc = "mark" /\ Stands(w)
    /\ \/ /\ cons'[w].pc = "send" /\ cons'[w].copy = cons[w].copy
          /\ w \notin stopping /\ Stores(Msg(w), cons[w].copy)
       \/ cons'[w].pc = "republish" /\ (Stores(Msg(w), cons[w].copy) \/ Kept)
    /\ UNCHANGED <<batch, tried, accepted, log>>

Sent(w) ==
    /\ cons[w].pc = "send" /\ Stands(w) /\ cons'[w].pc = "settle"
    /\ tried' = [tried EXCEPT ![Msg(w)] = @ + 1]
    /\ \/ /\ Takes(Msg(w)) \/ UNCHANGED accepted
          /\ cons'[w].copy = MarkDelivered(cons[w].copy) /\ w \notin stopping
       \/ /\ UNCHANGED accepted
          /\ \E t \in BOOLEAN : cons'[w].copy = AfterSendError(Msg(w), cons[w].copy, t)
       \/ /\ Takes(Msg(w)) /\ Struck(w, "timeout")
          /\ \E t \in BOOLEAN : cons'[w].copy = AfterSendError(Msg(w), cons[w].copy, t)
    /\ Kept /\ UNCHANGED <<batch, log>>

Settled(w) ==
    /\ cons[w].pc = "settle" /\ Stands(w)
    /\ Stores(Msg(w), cons[w].copy) \/ (Struck(w, "error") /\ Kept)
    /\ IF cons[w].copy.status = "processing" THEN cons'[w].pc = "republish"
       ELSE IF Msg(w) \in Batched
            THEN cons'[w].pc = "count" /\ cons'[w].copy = cons[w].copy
            ELSE cons'[w].pc = "commit"
    /\ UNCHANGED <<batch, tried, accepted, log>>

Counted(w) ==
    /\ cons[w].pc = "count" /\ Stands(w) /\ cons'[w].pc = "commit"
    /\ IncrementBatchCounter(Msg(w), cons[w].copy.status) \/ (Struck(w, "error") /\ UNCHANGED batch)
    /\ Kept /\ UNCHANGED <<tried, accepted, log>>

Republished(w) ==
    /\ cons[w].pc = "republish" /\ Stands(w) /\ cons'[w].pc = "commit"
    /\ UNCHANGED log \/ log' = Append(log, Msg(w))
    /\ Kept /\ UNCHANGED <<batch, tried, accepted>>

Committed(w) ==
    /\ cons[w].pc = "commit" /\ cons'[w] = Idle
    /\ Kept /\ UNCHANGED <<batch, tried, accepted, log, next>>

LoopStep(w) == \/ Fetched(w) \/ Loaded(w) \/ Marked(w) \/ Sent(w) \/ Settled(w)
               \/ Counted(w) \/ Republished(w) \/ Committed(w)

\* These are the steps of the loop.
LEMMA LoopView ==
  ASSUME NEW w, Alone(w), TypeInv, ConsumerStep(w)
  PROVE  LoopStep(w)
<1>s. Sorts(w)
  BY SortsHold
<1>0. \A pc, r : Goto(w, pc, r) =>
         cons'[w].off = cons[w].off /\ cons'[w].pc = pc /\ cons'[w].copy = r
  BY <1>s, GotoPlace DEF Sorts
<1>1. CASE Fetch(w)
  BY <1>1, <1>s DEF Sorts, sends, Fetch, Fetched, Kept, storeVars, LoopStep
<1>2. CASE Load(w)
  <2>1. Loaded(w)
    BY <1>0, <1>2 DEF sends, Load, Loaded, Kept, Stands, storeVars, partitionVars
  <2>2. QED
    BY <2>1 DEF LoopStep
<1>3. CASE Mark(w)
  <2>1. Marked(w)
    BY <1>0, <1>3 DEF sends, Mark, Marked, Stores, Kept, Stands, partitionVars, CallOk, CallFails,
       UpdateStatus
  <2>2. QED
    BY <2>1 DEF LoopStep
<1>4. CASE Send(w)
  <2>1. /\ tried' = [tried EXCEPT ![Msg(w)] = @ + 1]
        /\ Kept /\ UNCHANGED <<batch, log, next>> /\ cons[w].pc = "send"
    BY <1>4 DEF Send, Kept, storeVars, partitionVars
  <2>2. \/ /\ Takes(Msg(w)) \/ UNCHANGED accepted
           /\ Goto(w, "settle", MarkDelivered(cons[w].copy)) /\ w \notin stopping
        \/ /\ UNCHANGED accepted
           /\ \E t \in BOOLEAN : Goto(w, "settle", AfterSendError(Msg(w), cons[w].copy, t))
        \/ /\ Takes(Msg(w)) /\ Struck(w, "timeout")
           /\ \E t \in BOOLEAN : Goto(w, "settle", AfterSendError(Msg(w), cons[w].copy, t))
    BY <1>4 DEF Send, Takes, CallOk
  <2>3. Sent(w)
    BY <1>0, <2>1, <2>2 DEF Sent, Stands
  <2>4. QED
    BY <2>3 DEF LoopStep
<1>5. CASE Settle(w)
  <2>1. Stores(Msg(w), cons[w].copy) \/ (Struck(w, "error") /\ Kept)
    BY <1>5 DEF Settle, CallFails, UpdateStatus, Stores, Kept
  <2>2. IF cons[w].copy.status = "processing" THEN Goto(w, "republish", NoRow)
        ELSE IF Msg(w) \in Batched THEN Goto(w, "count", cons[w].copy)
             ELSE Goto(w, "commit", NoRow)
    BY <1>5 DEF Settle
  <2>3. cons[w].pc = "settle" /\ UNCHANGED <<batch, tried, accepted, log, next>>
    BY <1>5 DEF sends, Settle, partitionVars
  <2>4. Settled(w)
    BY <1>0, <2>1, <2>2, <2>3 DEF Settled, Stands
  <2>5. QED
    BY <2>4 DEF LoopStep
<1>6. CASE Count(w)
  <2>1. Counted(w)
    BY <1>0, <1>6 DEF sends, Count, Counted, Kept, Stands, partitionVars, CallFails
  <2>2. QED
    BY <2>1 DEF LoopStep
<1>7. CASE Republish(w)
  <2>1. UNCHANGED log \/ log' = Append(log, Msg(w))
    BY <1>7 DEF Republish, Publish, PublishFails, PublishErrs
  <2>2. Republished(w)
    BY <1>0, <1>7, <2>1 DEF sends, Republish, Republished, Kept, Stands, storeVars, groupVars
  <2>3. QED
    BY <2>2 DEF LoopStep
<1>8. CASE Commit(w)
  BY <1>8, <1>s DEF Sorts, sends, Commit, Committed, Kept, storeVars, LoopStep
<1>9. QED
  BY <1>1, <1>2, <1>3, <1>4, <1>5, <1>6, <1>7, <1>8 DEF ConsumerStep

\* A handler that stays at its offset stays at its notification.
LEMMA MsgStays ==
  ASSUME NEW w, Alone(w), TypeInv, [Next]_vars, Busy(w), cons'[w].off = cons[w].off
  PROVE  Msg(w)' = Msg(w)
<1>s. Sorts(w)
  BY SortsHold
<1>1. QED
  BY <1>s, LogEffect DEF Sorts, Msg

\* Only the loop itself moves w's loop, unless the process ends.
LEMMA LoopStays ==
  ASSUME NEW w, Alone(w), TypeInv, [Next]_vars, ~ConsumerStep(w)
  PROVE  UNCHANGED <<tried, accepted>> /\ (cons'[w] = cons[w] \/ cons'[w] = Idle)
<1>s. Sorts(w)
  BY SortsHold
<1>1. QED
  BY <1>s, Steps DEF Sorts, consVars, sends, Exit, Crash, Perish, Stop, GroupStep, ApiStep, FallDue, Age, vars

\* Faults are only spent.
LEMMA FaultsSpent ==
  ASSUME TypeInv, [Next]_vars
  PROVE  UNCHANGED faults \/ \E k \in FaultKinds : Spend(k)
<1>k. /\ "cancel" \in FaultKinds /\ "error" \in FaultKinds /\ "unavailable" \in FaultKinds
      /\ "timeout" \in FaultKinds /\ "crash" \in FaultKinds /\ "stop" \in FaultKinds
      /\ "rebalance" \in FaultKinds /\ "delay" \in FaultKinds /\ "redirect" \in FaultKinds
  BY KindFacts
<1>1. ASSUME NEW v \in Workers, ConsumerStep(v)
      PROVE  UNCHANGED faults \/ \E k \in FaultKinds : Spend(k)
  BY <1>1, <1>k DEF ConsumerStep, Fetch, Load, Mark, Send, Settle, Count, Republish, Commit,
     CallOk, CallFails, Struck, PublishFails
<1>2. ASSUME NEW v \in Workers, SchedulerStep(v)
      PROVE  UNCHANGED faults \/ \E k \in FaultKinds : Spend(k)
  BY <1>2, <1>k DEF SchedulerStep, ListDue, ListStuck, List, EndTick, Reset, Enqueue,
     CallOk, CallFails, Struck, PublishFails
<1>3. ASSUME NEW v \in Workers, GroupStep(v) \/ Exit(v) \/ Crash(v) \/ Stop(v)
      PROVE  UNCHANGED faults \/ \E k \in FaultKinds : Spend(k)
  BY <1>3, <1>k DEF GroupStep, Assign, Revoke, Flush, Exit, Crash, Stop
<1>4. CASE ApiStep
  BY <1>4, <1>k DEF ApiStep, Create, CreateBatch, PublishNew, CancelStep, CancelRead,
     CancelUpdate, CancelCount, ApiCrash
<1>5. ASSUME NEW n \in Notifs, FallDue(n) \/ Age(n)
      PROVE  UNCHANGED faults \/ \E k \in FaultKinds : Spend(k)
  BY <1>5, <1>k DEF FallDue, Age
<1>6. QED
  BY <1>1, <1>2, <1>3, <1>4, <1>5 DEF Next, WorkerStep, Quiescent, vars

\* So no kind of fault becomes rarer, and Mishaps grows by one at most.
LEMMA FaultsGrow ==
  ASSUME TypeInv, [Next]_vars
  PROVE  /\ \A k \in FaultKinds : faults[k] \in Nat /\ faults'[k] \in Nat /\ faults[k] <= faults'[k]
         /\ Mishaps \in Nat /\ Mishaps' \in {Mishaps, Mishaps + 1}
<1>1. /\ faults \in [FaultKinds -> Nat]
      /\ "cancel" \in FaultKinds /\ "error" \in FaultKinds /\ "unavailable" \in FaultKinds
      /\ "timeout" \in FaultKinds /\ "crash" \in FaultKinds /\ "stop" \in FaultKinds
      /\ "rebalance" \in FaultKinds /\ "delay" \in FaultKinds
  BY KindFacts DEF TypeInv, TypeOK, FaultsType
<1>2. CASE UNCHANGED faults
  BY <1>1, <1>2 DEF Mishaps
<1>3. ASSUME NEW k \in FaultKinds, Spend(k)
      PROVE  /\ \A j \in FaultKinds : faults[j] \in Nat /\ faults'[j] \in Nat /\ faults[j] <= faults'[j]
             /\ Mishaps \in Nat /\ Mishaps' \in {Mishaps, Mishaps + 1}
  <2>1. faults' = [faults EXCEPT ![k] = @ + 1]
    BY <1>3 DEF Spend
  <2>2. QED
    BY <1>1, <2>1 DEF Mishaps
<1>4. QED
  BY <1>2, <1>3, FaultsSpent

\* The spending of one that can make a worker repeat itself is a mishap.
LEMMA MishapSpent ==
  ASSUME TypeInv, NEW k \in {"error", "timeout", "crash", "stop", "rebalance", "delay"}, Spend(k)
  PROVE  Mishaps \in Nat /\ Mishaps' = Mishaps + 1
<1>1. /\ faults \in [FaultKinds -> Nat] /\ k \in FaultKinds
      /\ "error" \in FaultKinds
      /\ "timeout" \in FaultKinds /\ "crash" \in FaultKinds /\ "stop" \in FaultKinds
      /\ "rebalance" \in FaultKinds /\ "delay" \in FaultKinds
  BY KindFacts DEF TypeInv, TypeOK, FaultsType
<1>2. faults' = [faults EXCEPT ![k] = @ + 1]
  BY DEF Spend
<1>3. QED
  BY <1>1, <1>2 DEF Mishaps

-----------------------------------------------------------------------------
(* Rows, lists and the handler in step.                                    *)

\* What a reset writes.
LEMMA ResetsPending ==
  ASSUME NEW w \in Workers, TypeInv, NEW n \in Notifs, Resets(w, n)
  PROVE  /\ row'[n].status = "pending" /\ row'[n].retry = sched[w].copy[n].retry
         /\ n \notin aged' /\ n \notin sched'[w].todo
<1>1. row \in [Notifs -> Rows] /\ sched[w].copy[n] \in Rows
  BY DEF TypeInv, TypeOK, StoreType, SchedulerType, Passes
<1>2. QED
  BY <1>1 DEF Resets, GoesOn, Rows

\* What a pass has on its list it has listed.
LEMMA TodoEffect ==
  ASSUME NEW w, Alone(w), TypeInv, [Next]_vars, NEW n \in Notifs, n \in sched'[w].todo
  PROVE  \/ /\ n \in sched[w].todo /\ sched'[w].pc = sched[w].pc
            /\ sched'[w].copy[n] = sched[w].copy[n] /\ ~Resets(w, n)
         \/ Lists(w)
<1>s. Sorts(w)
  BY SortsHold
<1>0. Resets(w, n) => n \notin sched'[w].todo
  BY <1>s, ResetsPending DEF Sorts
<1>1. CASE SchedulerStep(w)
  <2>1. \A rest : GoesOn(w, rest) => 
           n \in rest /\ sched'[w].pc = sched[w].pc /\ sched'[w].copy[n] = sched[w].copy[n]
    BY DEF GoesOn
  <2>2. CASE Continues(w)
    BY <1>0, <2>1, <2>2 DEF Continues
  <2>3. ASSUME NEW m \in Notifs, Resets(w, m)
        PROVE  /\ n \in sched[w].todo /\ sched'[w].pc = sched[w].pc
               /\ sched'[w].copy[n] = sched[w].copy[n]
    BY <2>1, <2>3 DEF Resets
  <2>4. Lists(w) \/ Continues(w) \/ \E m \in Notifs : Resets(w, m)
    BY <1>1, <1>s, SchedulerView DEF Sorts
  <2>5. QED
    BY <1>0, <2>2, <2>3, <2>4
<1>2. CASE ~SchedulerStep(w)
  <2>1. sched'[w] = sched[w] \/ sched'[w] = AtRest
    BY <1>2, <1>s, Steps DEF Exit, Crash, Perish, GroupStep, Stop, ApiStep, FallDue, Age,
       vars, Sorts, TypeInv, TypeOK, SchedulerType
  <2>2. QED
    BY <1>0, <2>1 DEF AtRest
<1>3. QED
  BY <1>1, <1>2

\* Rows grow old one at a time.
LEMMA AgedEffect ==
  ASSUME NEW w, Alone(w), TypeInv, [Next]_vars, NEW n \in aged', n \notin aged
  PROVE  Age(n)
<1>s. Sorts(w)
  BY SortsHold
<1>1. CASE ConsumerStep(w)
  BY <1>1, LoopView DEF LoopStep, Fetched, Loaded, Marked, Sent, Settled, Counted, Republished,
     Committed, Kept, Stores
<1>2. CASE SchedulerStep(w)
  BY <1>2, <1>s, SchedulerView DEF Lists, Continues, Resets, Sorts
<1>3. CASE ApiStep
  BY <1>3 DEF ApiStep, Create, CreateBatch, Insert, InsertBatch, PublishNew, CancelStep,
     CancelRead, CancelUpdate, CancelRow, UpdateStatus, CancelCount, ApiCrash, storeVars
<1>4. ASSUME NEW m \in Notifs, FallDue(m) \/ Age(m) PROVE Age(n)
  BY <1>4 DEF FallDue, Age
<1>5. QED
  BY <1>1, <1>2, <1>3, <1>4, Steps DEF Exit, Crash, Perish, GroupStep, Stop, vars, storeVars

\* A row in processing of which nothing is under way: a crash left it so.
Clean(w, n) == row[n].status = "processing" /\ Over(w, n)

\* The recovery pass may still reset n.
Suspected(w, n) == n \in aged \/ (sched[w].pc = "stuck" /\ n \in sched[w].todo)

\* What waits for its time has nothing under way.
ScheduledOver(w, n) == row[n].status = "scheduled" => Over(w, n)

\* So has what the recovery pass may reset, if no message was ever under way
\* for five minutes.
SuspectClean(w, n) == faults.delay = 0 /\ Suspected(w, n) => Clean(w, n)

\* And what a due pass has listed, which waits still or is cancelled.
ListedDue(w, n) == sched[w].pc = "due" /\ n \in sched[w].todo =>
                      row[n].status \in {"scheduled", "cancelled"} /\ Over(w, n)

\* The row under the handler's hand has not been delivered by another.
HandlerAhead(w, n) ==
    /\ At(w, "mark", n) => row[n].status # "delivered"
    /\ At(w, "send", n) \/ At(w, "settle", n) =>
          /\ row[n].status # "delivered"
          /\ faults.delay = 0 => row[n].status = "processing"

\* Row n, the scheduler and the handler fit together.
InStep(w, n) == ScheduledOver(w, n) /\ SuspectClean(w, n) /\ ListedDue(w, n) /\ HandlerAhead(w, n)

\* The inductive invariant of one worker.
Steady(w) == LifeInv /\ Place(w) /\ \A n \in Notifs : InStep(w, n)

\* A notification that was never stored has nothing under way.
LEMMA AbsentIsOver ==
  ASSUME NEW w, Alone(w), LifeInv, NEW n \in Notifs, ~Present(n)
  PROVE  Over(w, n)
<1>s. Sorts(w)
  BY SortsHold DEF LifeInv
<1>1. QED
  BY <1>s DEF LifeInv, AllPresent, Over, Sorts

\* One that is stored with a time to come has not either.
LEMMA StoredIsOver ==
  ASSUME NEW w, Alone(w), LifeInv, Place(w), [Next]_vars, NEW n \in Notifs,
         row[n] = NoRow, row'[n].status = "scheduled"
  PROVE  Over(w, n)'
<1>s. Sorts(w) /\ TypeInv /\ row \in [Notifs -> Rows]
  BY SortsHold DEF LifeInv, TypeInv, TypeOK, StoreType
<1>1. ~Present(n) /\ Over(w, n)
  BY AbsentIsOver DEF Present, NoRow
<1>2. ApiStep
  <2>1. ~At(w, "mark", n) /\ ~At(w, "settle", n)
    BY <1>s, <1>1, OverNotHandled DEF At, Busy
  <2>2. ~Resets(w, n) /\ row'[n] # row[n]
    BY <1>s, ResetsPending DEF NoRow, Sorts
  <2>3. Rewritten(w, n)
    BY <1>s, RowChange
  <2>4. QED
    BY <2>1, <2>2, <2>3 DEF Rewritten
<1>3. sched'[w].cur = sched[w].cur /\ UNCHANGED groupVars
  BY <1>2 DEF ApiStep, Create, CreateBatch, PublishNew, CancelStep, CancelRead, CancelUpdate,
     CancelCount, ApiCrash, partitionVars, groupVars
<1>4. n \notin unpublished'
  <2>1. ASSUME NEW m \in Notifs, Create(m) PROVE n \notin unpublished'
    <3>1. PICK at \in BOOLEAN :
            /\ row' = [row EXCEPT ![m] = NewNotification(at)]
            /\ unpublished' = IF at THEN unpublished ELSE unpublished \cup {m}
      BY <2>1 DEF Create, Insert
    <3>2. CASE m = n
      BY <1>s, <1>1, <3>1, <3>2 DEF NewNotification, Over
    <3>3. CASE m # n
      BY <1>1, <3>1, <3>3 DEF Over
    <3>4. QED
      BY <3>2, <3>3
  <2>2. ASSUME CreateBatch PROVE n \notin unpublished'
    <3>1. PICK later \in SUBSET Batched :
            /\ row' = [m \in Notifs |-> IF m \in Batched THEN NewNotification(m \in later)
                                                         ELSE row[m]]
            /\ unpublished' = unpublished \cup (Batched \ later)
      BY <2>2 DEF CreateBatch, InsertBatch
    <3>2. n \in Batched => n \in later
      BY <3>1 DEF NewNotification
    <3>3. QED
      BY <1>1, <3>1, <3>2 DEF Over
  <2>3. QED
    BY <1>1, <1>2, <2>1, <2>2 DEF Over, ApiStep, PublishNew, CancelStep, CancelRead, CancelUpdate,
       CancelCount, ApiCrash
<1>5. ASSUME NEW i \in 1..Len(log'), log'[i] = n PROVE i <= committed'
  <2>1. i \in 1..Len(log)
    BY <1>1, <1>5, <1>s, LogEffect, OverNotHandled DEF Over, Sorts
  <2>2. QED
    BY <1>1, <1>3, <1>5, <2>1, <1>s, LogEffect DEF Over, groupVars
<1>6. QED
  BY <1>1, <1>3, <1>4, <1>5 DEF Over

\* ScheduledOver is kept.
LEMMA ScheduledStep ==
  ASSUME NEW w, Alone(w), Steady(w), [Next]_vars, NEW n \in Notifs
  PROVE  ScheduledOver(w, n)'
<1> SUFFICES ASSUME row'[n].status = "scheduled" PROVE Over(w, n)'
  BY DEF ScheduledOver
<1>s. Sorts(w) /\ LifeInv /\ TypeInv /\ Place(w) /\ row \in [Notifs -> Rows] /\ InStep(w, n)
  BY SortsHold DEF Steady, LifeInv, TypeInv, TypeOK, StoreType
<1>1. CASE row'[n] = row[n]
  <2>1. Over(w, n) /\ Present(n)
    BY <1>1, <1>s DEF InStep, ScheduledOver, Present
  <2>2. QED
    BY <1>s, <2>1, OverStays, ResetsPending DEF Sorts
<1>2. CASE row[n] = NoRow
  BY <1>2, <1>s, StoredIsOver
<1>3. CASE row'[n] = cons[w].copy /\ cons[w].pc \in {"mark", "settle"}
  BY <1>3, <1>s DEF LifeInv, CopiesSettle, Sorts
<1>4. CASE row'[n] = [row[n] EXCEPT !.status = "cancelled"]
  BY <1>4, <1>s DEF Rows
<1>5. QED
  BY <1>1, <1>2, <1>3, <1>4, <1>s, RowChange, ResetsPending DEF Rewritten, At, Sorts

\* What is clean stays clean until the scheduler resets it.
LEMMA CleanStays ==
  ASSUME NEW w, Alone(w), LifeInv, Place(w), [Next]_vars, NEW n \in Notifs, Clean(w, n)
  PROVE  \/ Clean(w, n)' /\ row'[n] = row[n]
         \/ SchedulerStep(w) /\ Resets(w, n) /\ ~Suspected(w, n)'
<1>s. Sorts(w) /\ TypeInv
  BY SortsHold DEF LifeInv
<1>1. CASE SchedulerStep(w) /\ Resets(w, n)
  BY <1>1, <1>s, ResetsPending DEF Suspected, Sorts
<1>2. CASE ~(SchedulerStep(w) /\ Resets(w, n))
  <2>1. Over(w, n)'
    BY <1>2, <1>s, OverStays DEF Clean, Present
  <2>2. ~At(w, "mark", n) /\ ~At(w, "settle", n)
    BY <1>s, OverNotHandled DEF Clean, At, Busy
  <2>3. Rewritten(w, n)
    BY <1>s, RowChange
  <2>4. row'[n] = row[n]
    BY <1>2, <2>2, <2>3 DEF Rewritten, Clean, CanCancel, NoRow
  <2>5. QED
    BY <2>1, <2>4 DEF Clean
<1>3. QED
  BY <1>1, <1>2

\* What the recovery pass comes to suspect, it suspected before or is clean.
LEMMA SuspectEffect ==
  ASSUME NEW w, Alone(w), TypeInv, Place(w), [Next]_vars, NEW n \in Notifs, Suspected(w, n)'
  PROVE  Suspected(w, n) \/ (Age(n) /\ (Clean(w, n) \/ Spend("delay")))
<1>1. CASE n \in aged'
  <2>1. n \in aged \/ Age(n)
    BY <1>1, AgedEffect
  <2>2. Age(n) => Clean(w, n) \/ Spend("delay")
    BY RestIsOver DEF Age, Clean
  <2>3. QED
    BY <2>1, <2>2 DEF Suspected
<1>2. CASE sched'[w].pc = "stuck" /\ n \in sched'[w].todo
  BY <1>2, TodoEffect DEF Suspected, Lists
<1>3. QED
  BY <1>1, <1>2 DEF Suspected

\* SuspectClean is kept.
LEMMA SuspectStep ==
  ASSUME NEW w, Alone(w), Steady(w), [Next]_vars, NEW n \in Notifs
  PROVE  SuspectClean(w, n)'
<1> SUFFICES ASSUME faults'.delay = 0, Suspected(w, n)' PROVE Clean(w, n)'
  BY DEF SuspectClean
<1>s. LifeInv /\ TypeInv /\ Place(w) /\ InStep(w, n)
  BY DEF Steady, LifeInv
<1>1. faults.delay = 0 /\ ~Spend("delay")
  <2>1. faults["delay"] \in Nat /\ faults'["delay"] \in Nat /\ faults["delay"] <= faults'["delay"]
        /\ faults \in [FaultKinds -> Nat] /\ "delay" \in FaultKinds
    BY <1>s, FaultsGrow, KindFacts DEF TypeInv, TypeOK, FaultsType
  <2>2. QED
    BY <2>1 DEF Spend
<1>2. Clean(w, n)
  BY <1>1, <1>s, SuspectEffect DEF InStep, SuspectClean
<1>3. QED
  BY <1>2, <1>s, CleanStays

\* ListedDue is kept.
LEMMA DueStep ==
  ASSUME NEW w, Alone(w), Steady(w), [Next]_vars, NEW n \in Notifs
  PROVE  ListedDue(w, n)'
<1> SUFFICES ASSUME sched'[w].pc = "due", n \in sched'[w].todo
             PROVE  row'[n].status \in {"scheduled", "cancelled"} /\ Over(w, n)'
  BY DEF ListedDue
<1>s. Sorts(w) /\ LifeInv /\ TypeInv /\ Place(w) /\ row \in [Notifs -> Rows] /\ InStep(w, n)
  BY SortsHold DEF Steady, LifeInv, TypeInv, TypeOK, StoreType
<1>1. row[n].status \in {"scheduled", "cancelled"} /\ Over(w, n)
  <2>1. CASE Lists(w)
    BY <2>1, <1>s DEF Lists, InStep, ScheduledOver
  <2>2. CASE sched[w].pc = "due" /\ n \in sched[w].todo
    BY <2>2, <1>s DEF InStep, ListedDue
  <2>3. QED
    BY <2>1, <2>2, <1>s, TodoEffect
<1>2. ~Resets(w, n)
  BY <1>s, ResetsPending DEF Sorts
<1>3. Over(w, n)'
  BY <1>1, <1>2, <1>s, OverStays DEF Present
<1>4. ~At(w, "mark", n) /\ ~At(w, "settle", n)
  BY <1>1, <1>s, OverNotHandled DEF At, Busy
<1>5. row'[n] = row[n] \/ row'[n] = [row[n] EXCEPT !.status = "cancelled"]
  BY <1>1, <1>2, <1>4, <1>s, RowChange DEF Rewritten, NoRow
<1>6. QED
  BY <1>1, <1>3, <1>5, <1>s DEF Rows

\* Unless a message was under way for five minutes the scheduler resets
\* nothing that has something under way.
LEMMA ResetIsOver ==
  ASSUME NEW w, Alone(w), Steady(w), NEW n \in Notifs, Resets(w, n), faults.delay = 0
  PROVE  Over(w, n) /\ row[n].status \in {"scheduled", "cancelled", "processing"}
<1>1. InStep(w, n)
  BY DEF Steady
<1>2. CASE sched[w].pc = "due"
  BY <1>1, <1>2 DEF Resets, InStep, ListedDue
<1>3. CASE sched[w].pc = "stuck"
  BY <1>1, <1>3 DEF Resets, InStep, SuspectClean, Suspected, Clean
<1>4. QED
  BY <1>2, <1>3 DEF Resets

\* HandlerAhead is kept.
LEMMA HandlerStep ==
  ASSUME NEW w, Alone(w), Steady(w), [Next]_vars, NEW n \in Notifs
  PROVE  HandlerAhead(w, n)'
<1>s. /\ Sorts(w) /\ LifeInv /\ TypeInv /\ Place(w) /\ InStep(w, n)
      /\ row \in [Notifs -> Rows] /\ aged \subseteq Notifs
  BY SortsHold DEF Steady, LifeInv, TypeInv, TypeOK, StoreType
<1>d. faults'.delay = 0 => faults.delay = 0
  <2>1. faults["delay"] \in Nat /\ faults'["delay"] \in Nat /\ faults["delay"] <= faults'["delay"]
    BY <1>s, FaultsGrow, KindFacts
  <2>2. QED
    BY <2>1
<1>1. CASE ConsumerStep(w)
  <2>1. LoopStep(w)
    BY <1>1, <1>s, LoopView
  <2>2. CASE Loaded(w)
    <3>1. Msg(w)' = Msg(w) /\ UNCHANGED row
      BY <1>s, <2>2, MsgStays DEF Loaded, Stands, Busy, Kept
    <3>2. QED
      BY <2>2, <3>1 DEF Loaded, HandlerAhead, At
  <2>3. CASE Marked(w)
    <3>1. Msg(w)' = Msg(w) /\ Msg(w) \in Notifs /\ cons[w].copy.status = "processing"
      BY <1>s, <2>3, MsgStays DEF Marked, Stands, Busy, Sorts, LifeInv, CopiesSettle
    <3>2. CASE cons'[w].pc = "send" /\ Stores(Msg(w), cons[w].copy)
      <4>1. Msg(w) = n => row'[n].status = "processing"
        BY <1>s, <3>1, <3>2 DEF Stores
      <4>2. QED
        BY <3>1, <3>2, <4>1 DEF HandlerAhead, At
    <3>3. QED
      BY <2>3, <3>2 DEF Marked, HandlerAhead, At
  <2>4. CASE Sent(w)
    <3>1. Msg(w)' = Msg(w) /\ UNCHANGED row /\ cons[w].pc = "send" /\ cons'[w].pc = "settle"
      BY <1>s, <2>4, MsgStays DEF Sent, Stands, Busy, Kept
    <3>2. QED
      BY <1>d, <1>s, <3>1 DEF HandlerAhead, InStep, At
  <2>5. CASE cons'[w].pc \notin {"mark", "send", "settle"}
    BY <2>5 DEF HandlerAhead, At
  <2>6. QED
    BY <2>1, <2>2, <2>3, <2>4, <2>5 DEF LoopStep, Fetched, Settled, Counted, Republished,
       Committed, Idle
<1>2. CASE ~ConsumerStep(w)
  <2>1. CASE cons'[w] = Idle
    BY <2>1 DEF Idle, HandlerAhead, At
  <2>2. CASE cons'[w] = cons[w] /\ Busy(w)
    <3>1. Msg(w)' = Msg(w) /\ UNCHANGED cons[w]
      BY <1>s, <2>2, MsgStays
    <3>2. Rewritten(w, n)
      BY <1>s, RowChange
    <3>3. CASE row'[n] = row[n]
      BY <1>d, <1>s, <3>1, <3>3 DEF HandlerAhead, InStep, At
    <3>4. CASE Resets(w, n)
      <4>1. row'[n].status = "pending"
        BY <1>s, <3>4, ResetsPending DEF Sorts
      <4>2. faults'.delay = 0 => ~At(w, "send", n) /\ ~At(w, "settle", n)
        BY <1>d, <1>s, <3>4, ResetIsOver, OverNotHandled DEF At, Busy
      <4>3. QED
        BY <3>1, <4>1, <4>2 DEF HandlerAhead, At
    <3>5. CASE CanCancel(row[n]) /\ row'[n] = [row[n] EXCEPT !.status = "cancelled"]
      <4>1. row'[n].status = "cancelled" /\ row[n].status # "processing"
        BY <1>s, <3>5 DEF CanCancel, Rows
      <4>2. QED
        BY <1>d, <1>s, <3>1, <4>1 DEF HandlerAhead, InStep, At
    <3>6. CASE row[n] = NoRow /\ \E later \in BOOLEAN : row'[n] = NewNotification(later)
      <4>1. row'[n].status # "delivered" /\ row[n].status # "processing"
        BY <3>6 DEF NewNotification, NoRow
      <4>2. QED
        BY <1>d, <1>s, <3>1, <4>1 DEF HandlerAhead, InStep, At
    <3>7. QED
      BY <1>2, <3>2, <3>3, <3>4, <3>5, <3>6 DEF Rewritten
  <2>3. QED
    BY <1>2, <1>s, <2>1, <2>2, LoopStays DEF Busy, HandlerAhead, At
<1>3. QED
  BY <1>1, <1>2

\* Nothing is stored to begin with.
LEMMA SteadyInit == ASSUME NEW w, Alone(w), Init PROVE Steady(w)
<1>1. LifeInv /\ Place(w)
  BY LifeInvInit, PlaceInit
<1>2. \A n \in Notifs : InStep(w, n)
  BY DEF Alone, Init, StoreInit, ConsumerInit, SchedulerInit, Idle, AtRest, NoRow, InStep,
     ScheduledOver, SuspectClean, Suspected, ListedDue, HandlerAhead, At
<1>3. QED
  BY <1>1, <1>2 DEF Steady

\* Rows, lists and the handler stay in step.
LEMMA SteadyStep == ASSUME NEW w, Alone(w), Steady(w), [Next]_vars PROVE Steady(w)'
<1>1. LifeInv' /\ Place(w)'
  BY LifeInvStep, PlaceStep DEF Steady, LifeInv
<1>2. \A n \in Notifs : InStep(w, n)'
  BY ScheduledStep, SuspectStep, DueStep, HandlerStep DEF InStep
<1>3. QED
  BY <1>1, <1>2 DEF Steady

-----------------------------------------------------------------------------
(* DeliveredIsFinal.                                                       *)

\* Only a reset could overwrite a delivered row.
LEMMA DeliveredStays ==
  ASSUME NEW w, Alone(w), Steady(w), [Next]_vars, faults.delay = 0,
         NEW n \in Notifs, row[n].status = "delivered"
  PROVE  row'[n] = row[n]
<1>s. LifeInv /\ TypeInv /\ InStep(w, n)
  BY DEF Steady, LifeInv
<1>1. Rewritten(w, n)
  BY <1>s, RowChange
<1>2. ~Resets(w, n)
  BY ResetIsOver
<1>3. ~At(w, "mark", n) /\ ~At(w, "settle", n)
  BY <1>s DEF InStep, HandlerAhead
<1>4. QED
  BY <1>1, <1>2, <1>3 DEF Rewritten, CanCancel, NoRow

\* One worker, no second assignment: unless a message is under way for five
\* minutes, no replayed message, restart, stale copy of a pass, or cancel
\* request takes back that a notification was delivered.
THEOREM DeliveredForGood == OneWorker => (Safety => DeliveredIsFinal)
<1> SUFFICES ASSUME NEW w, Alone(w) PROVE Safety => DeliveredIsFinal
  BY DEF OneWorker
<1>1. Steady(w) /\ [Next]_vars =>
        [faults.delay = 0 => \A n \in Notifs : row[n].status = "delivered" =>
                                row'[n].status = "delivered"]_vars
  BY DeliveredStays
<1>2. Init => Steady(w)
  BY SteadyInit
<1>3. Steady(w) /\ [Next]_vars => Steady(w)'
  BY SteadyStep
<1>4. QED
  BY <1>1, <1>2, <1>3, PTL DEF Safety, DeliveredIsFinal

-----------------------------------------------------------------------------
(* DuplicatesNeedFaults.                                                   *)

\* The handler is about to write that n is delivered.
InHand(w, n) == At(w, "settle", n) /\ cons[w].copy.status = "delivered"

\* What may still go wrong for free, n being sent or not written down by a
\* worker that shuts down, or reset once it is too late: one more acceptance
\* each.  And the one acceptance that is no duplicate.
Exposed(w, n) == w \in stopping /\ (At(w, "send", n) \/ InHand(w, n))
Stale(w, n)   == Suspected(w, n) /\ ~Clean(w, n)
Known(w, n)   == row[n].status = "delivered" \/ InHand(w, n)

Exposure(w, n)  == IF Exposed(w, n) THEN 1 ELSE 0
Staleness(w, n) == IF Stale(w, n) THEN 1 ELSE 0
Knowledge(w, n) == IF Known(w, n) THEN 1 ELSE 0

\* Every acceptance of n but the known one is paid for by a mishap, those
\* included that have become possible.
Paid(w, n) == accepted[n] + Exposure(w, n) + Staleness(w, n) <= Mishaps + Knowledge(w, n)

\* All of them are counts.
LEMMA CountsAreCounts ==
  ASSUME NEW w, TypeInv, [Next]_vars, NEW n \in Notifs
  PROVE  /\ accepted[n] \in Nat /\ accepted'[n] \in Nat
         /\ Mishaps \in Nat /\ Mishaps' \in Nat /\ Mishaps <= Mishaps'
         /\ Exposure(w, n) \in {0, 1} /\ Exposure(w, n)' \in {0, 1}
         /\ Staleness(w, n) \in {0, 1} /\ Staleness(w, n)' \in {0, 1}
         /\ Knowledge(w, n) \in {0, 1} /\ Knowledge(w, n)' \in {0, 1}
<1>1. accepted \in [Notifs -> Nat] /\ accepted' \in [Notifs -> Nat]
  BY TypeInvStep DEF TypeInv, TypeOK, ConsumerType
<1>2. QED
  BY <1>1, FaultsGrow DEF Exposure, Staleness, Knowledge

\* Only the five minutes make a reset come too late, and that is a mishap.
LEMMA StaleStep ==
  ASSUME NEW w, Alone(w), Steady(w), [Next]_vars, NEW n \in Notifs
  PROVE  \/ Staleness(w, n)' <= Staleness(w, n)
         \/ Age(n) /\ Mishaps' = Mishaps + 1
<1>s. LifeInv /\ TypeInv /\ Place(w)
  BY DEF Steady, LifeInv
<1>1. CASE Stale(w, n)' /\ ~Stale(w, n)
  <2>1. ~Clean(w, n)
    BY <1>1, <1>s, CleanStays DEF Stale
  <2>2. Age(n) /\ Spend("delay")
    BY <1>1, <1>s, <2>1, SuspectEffect DEF Stale
  <2>3. QED
    BY <1>s, <2>2, MishapSpent
<1>2. QED
  BY <1>1 DEF Staleness

\* A step at which nothing happens to n.
LEMMA PaidKept ==
  ASSUME NEW w, Alone(w), Steady(w), [Next]_vars, NEW n \in Notifs, Paid(w, n),
         accepted'[n] = accepted[n], Exposed(w, n)' => Exposed(w, n), Known(w, n) => Known(w, n)'
  PROVE  Paid(w, n)'
<1>s. TypeInv
  BY DEF Steady, LifeInv
<1>1. Exposure(w, n)' <= Exposure(w, n) /\ Knowledge(w, n) <= Knowledge(w, n)'
  BY DEF Exposure, Knowledge
<1>2. \/ Staleness(w, n)' <= Staleness(w, n)
      \/ Mishaps' = Mishaps + 1
  BY StaleStep
<1>3. QED
  BY <1>1, <1>2, <1>s, CountsAreCounts DEF Paid

\* Send and the write that follows it, as n sees them.
LEMMA HandlerPaid ==
  ASSUME NEW w, Alone(w), Steady(w), [Next]_vars, NEW n \in Notifs, Paid(w, n),
         ConsumerStep(w), ~Age(n), Busy(w), Msg(w) = n
  PROVE  Paid(w, n)'
<1>s. /\ Sorts(w) /\ LifeInv /\ TypeInv /\ Place(w) /\ InStep(w, n) /\ UNCHANGED stopping
      /\ row \in [Notifs -> Rows] /\ accepted \in [Notifs -> Nat]
  BY SortsHold DEF Steady, LifeInv, TypeInv, TypeOK, StoreType, ConsumerType, ConsumerStep,
     Fetch, Load, Mark, Send, Settle, Count, Republish, Commit
<1>n. /\ Staleness(w, n)' <= Staleness(w, n)
      /\ accepted[n] \in Nat /\ accepted'[n] \in Nat
      /\ Mishaps \in Nat /\ Mishaps' \in Nat /\ Mishaps <= Mishaps'
      /\ Exposure(w, n) \in {0, 1} /\ Exposure(w, n)' \in {0, 1}
      /\ Staleness(w, n) \in {0, 1} /\ Staleness(w, n)' \in {0, 1}
      /\ Knowledge(w, n) \in {0, 1} /\ Knowledge(w, n)' \in {0, 1}
  BY <1>s, StaleStep, CountsAreCounts
<1>1. CASE Sent(w)
  <2>1. Msg(w)' = n /\ UNCHANGED row /\ cons[w].pc = "send" /\ cons'[w].pc = "settle"
    BY <1>1, <1>s, MsgStays DEF Sent, Stands, Kept
  <2>2. ~Known(w, n)
    BY <1>s, <2>1 DEF Known, InHand, At, InStep, HandlerAhead
  <2>3. Takes(n) => accepted'[n] = accepted[n] + 1
    BY <1>s DEF Takes
  <2>4. CASE /\ Takes(n) \/ UNCHANGED accepted
             /\ cons'[w].copy = MarkDelivered(cons[w].copy) /\ w \notin stopping
    <3>1. cons'[w].copy.status = "delivered"
      BY <1>s, <2>4 DEF MarkDelivered, Rows, Sorts
    <3>2. Known(w, n)' /\ ~Exposed(w, n)'
      BY <1>s, <2>1, <2>4, <3>1 DEF Known, Exposed, InHand, At
    <3>3. Knowledge(w, n)' = 1 /\ Knowledge(w, n) = 0 /\ Exposure(w, n)' = 0
      BY <2>2, <3>2 DEF Knowledge, Exposure
    <3>4. QED
      BY <1>n, <2>3, <2>4, <3>3 DEF Paid
  <2>5. CASE \E t \in BOOLEAN : cons'[w].copy = AfterSendError(n, cons[w].copy, t)
    <3>1. cons'[w].copy.status # "delivered"
      <4>1. cons[w].copy.status = "processing"
        BY <1>s, <2>1 DEF LifeInv, CopiesSettle, Sorts
      <4>2. QED
        BY <1>s, <2>5, <4>1 DEF AfterSendError, IncrementRetry, MarkFailed, Rows, Sorts
    <3>2. ~Known(w, n)' /\ ~Exposed(w, n)'
      BY <2>1, <2>2, <3>1 DEF Known, Exposed, InHand, At
    <3>3. Knowledge(w, n)' = 0 /\ Knowledge(w, n) = 0 /\ Exposure(w, n)' = 0
      BY <2>2, <3>2 DEF Knowledge, Exposure
    <3>4. CASE UNCHANGED accepted
      BY <1>n, <3>3, <3>4 DEF Paid
    <3>5. CASE Takes(n) /\ w \in stopping
      <4>1. Exposure(w, n) = 1
        BY <1>s, <2>1, <3>5 DEF Exposure, Exposed, At
      <4>2. QED
        BY <1>n, <2>3, <3>3, <3>5, <4>1 DEF Paid
    <3>6. CASE Takes(n) /\ Spend("timeout")
      <4>1. Mishaps' = Mishaps + 1
        BY <1>s, <3>6, MishapSpent
      <4>2. QED
        BY <1>n, <2>3, <3>3, <3>6, <4>1 DEF Paid
    <3>7. QED
      BY <1>1, <2>5, <3>4, <3>5, <3>6, <2>4 DEF Sent, Struck
  <2>6. QED
    BY <1>1, <2>4, <2>5 DEF Sent
<1>2. CASE Settled(w)
  <2>1. /\ Msg(w)' = n /\ cons[w].pc = "settle" /\ cons'[w].pc \in {"republish", "count", "commit"}
        /\ UNCHANGED accepted /\ row[n].status # "delivered"
    BY <1>2, <1>s, MsgStays DEF Settled, Stands, InStep, HandlerAhead, At
  <2>2. ~Exposed(w, n)' /\ ~InHand(w, n)'
    BY <2>1 DEF Exposed, InHand, At
  <2>3. CASE Stores(n, cons[w].copy)
    <3>1. Known(w, n) => Known(w, n)'
      BY <1>s, <2>1, <2>3 DEF Known, InHand, Stores
    <3>2. QED
      BY <2>1, <2>2, <3>1, PaidKept
  <2>4. CASE Struck(w, "error") /\ Kept
    <3>1. CASE ~InHand(w, n)
      BY <2>1, <2>2, <3>1, PaidKept DEF Known
    <3>2. CASE InHand(w, n) /\ w \in stopping
      <4>1. Exposure(w, n) = 1 /\ Exposure(w, n)' = 0
        BY <2>2, <3>2 DEF Exposure, Exposed
      <4>2. QED
        BY <1>n, <2>1, <4>1 DEF Paid
    <3>3. CASE Spend("error")
      <4>1. Mishaps' = Mishaps + 1 /\ Exposure(w, n)' = 0
        BY <1>s, <2>2, <3>3, MishapSpent DEF Exposure
      <4>2. QED
        BY <1>n, <2>1, <4>1 DEF Paid
    <3>4. QED
      BY <2>4, <3>1, <3>2, <3>3 DEF Struck
  <2>5. QED
    BY <1>2, <1>s, <2>3, <2>4 DEF Settled
<1>3. CASE Marked(w)
  <2>1. /\ Msg(w)' = n /\ cons[w].pc = "mark" /\ UNCHANGED accepted /\ row[n].status # "delivered"
        /\ cons'[w].pc = "send" => w \notin stopping
        /\ cons'[w].pc \in {"send", "republish"}
    BY <1>3, <1>s, MsgStays DEF Marked, Stands, InStep, HandlerAhead, At
  <2>2. ~Exposed(w, n)' /\ ~Known(w, n)
    BY <1>s, <2>1 DEF Exposed, InHand, At, Known
  <2>3. QED
    BY <2>1, <2>2, PaidKept
<1>4. CASE Loaded(w) \/ Counted(w) \/ Republished(w) \/ Committed(w)
  <2>1. /\ cons[w].pc # "settle" /\ cons'[w].pc \notin {"send", "settle"}
        /\ UNCHANGED <<row, accepted>>
    BY <1>4 DEF Loaded, Counted, Republished, Committed, Kept, Idle
  <2>2. QED
    BY <2>1, PaidKept DEF Exposed, InHand, At, Known
<1>5. QED
  BY <1>1, <1>2, <1>3, <1>4, <1>s, LoopView DEF LoopStep, Fetched, Busy

\* A step of the loop that is not about n.
LEMMA OtherHandlerPaid ==
  ASSUME NEW w, Alone(w), Steady(w), [Next]_vars, NEW n \in Notifs, Paid(w, n),
         ConsumerStep(w), ~(Busy(w) /\ Msg(w) = n)
  PROVE  Paid(w, n)'
<1>s. /\ Sorts(w) /\ TypeInv /\ row \in [Notifs -> Rows] /\ accepted \in [Notifs -> Nat]
  BY SortsHold DEF Steady, LifeInv, TypeInv, TypeOK, StoreType, ConsumerType
<1>1. row'[n] = row[n] /\ accepted'[n] = accepted[n]
  BY <1>s, HandlerEffect DEF Busy, Sorts
<1>2. ~InHand(w, n)
  BY DEF InHand, At, Busy
<1>3. ~Exposed(w, n)'
  <2>1. CASE Fetched(w) \/ Committed(w)
    BY <2>1 DEF Fetched, Committed, Idle, Exposed, InHand, At
  <2>2. CASE Busy(w) /\ cons'[w].off = cons[w].off
    BY <1>s, <2>2, MsgStays DEF Exposed, InHand, At
  <2>3. QED
    BY <1>s, <2>1, <2>2, LoopView DEF LoopStep, Loaded, Marked, Sent, Settled, Counted,
       Republished, Stands, Busy
<1>4. QED
  BY <1>1, <1>2, <1>3, PaidKept DEF Known

\* A reset takes back what was delivered only once it is too late.
LEMMA ResetPaid ==
  ASSUME NEW w, Alone(w), Steady(w), [Next]_vars, NEW n \in Notifs, Paid(w, n),
         UNCHANGED <<consVars, stopping>>, Resets(w, n), ~Age(n)
  PROVE  Paid(w, n)'
<1>s. Sorts(w) /\ TypeInv /\ InStep(w, n)
  BY SortsHold DEF Steady, LifeInv
<1>1. cons'[w] = cons[w] /\ accepted'[n] = accepted[n] /\ (Busy(w) => Msg(w)' = Msg(w))
  BY <1>s, MsgStays DEF consVars
<1>2. Exposed(w, n)' => Exposed(w, n)
  BY <1>1 DEF Exposed, InHand, At, Busy
<1>3. InHand(w, n) => InHand(w, n)'
  BY <1>1 DEF InHand, At, Busy
<1>4. CASE row[n].status # "delivered"
  BY <1>1, <1>2, <1>3, <1>4, PaidKept DEF Known
<1>5. CASE row[n].status = "delivered"
  <2>1. Stale(w, n)
    BY <1>5, <1>s DEF Resets, InStep, ListedDue, Stale, Suspected, Clean
  <2>2. ~Stale(w, n)'
    BY <1>s, ResetsPending DEF Stale, Suspected, Sorts
  <2>3. Staleness(w, n) = 1 /\ Staleness(w, n)' = 0 /\ Exposure(w, n)' <= Exposure(w, n)
    BY <1>2, <2>1, <2>2 DEF Staleness, Exposure
  <2>4. QED
    BY <1>1, <1>s, <2>3, CountsAreCounts DEF Paid
<1>6. QED
  BY <1>4, <1>5

\* The end of the worker, and the order to end.
LEMMA EndPaid ==
  ASSUME NEW w, Alone(w), Steady(w), [Next]_vars, NEW n \in Notifs, Paid(w, n),
         Exit(w) \/ Crash(w) \/ Stop(w), ~Age(n)
  PROVE  Paid(w, n)'
<1>s. Sorts(w) /\ TypeInv
  BY SortsHold DEF Steady, LifeInv
<1>1. UNCHANGED <<row, accepted>>
  BY DEF Exit, Crash, Perish, Stop, storeVars, consVars, sends
<1>2. CASE Exit(w)
  <2>1. ~InHand(w, n) /\ ~Exposed(w, n)'
    BY <1>2, <1>s DEF Exit, Perish, Idle, InHand, At, Busy, Exposed, Sorts
  <2>2. QED
    BY <1>1, <2>1, PaidKept DEF Known
<1>3. CASE Crash(w)
  <2>1. Mishaps' = Mishaps + 1
    BY <1>3, <1>s, MishapSpent DEF Crash
  <2>2. ~Exposed(w, n)'
    BY <1>3, <1>s DEF Crash, Perish, Idle, InHand, At, Exposed, Sorts
  <2>3. Exposure(w, n)' = 0
    BY <2>2 DEF Exposure
  <2>4. CASE InHand(w, n) /\ row[n].status # "delivered"
    <3>1. Staleness(w, n)' <= Staleness(w, n)
      BY StaleStep
    <3>2. QED
      BY <1>1, <1>s, <2>1, <2>3, <3>1, CountsAreCounts DEF Paid
  <2>5. CASE ~(InHand(w, n) /\ row[n].status # "delivered")
    BY <1>1, <2>2, <2>5, PaidKept DEF Known
  <2>6. QED
    BY <2>4, <2>5
<1>4. CASE Stop(w)
  <2>1. Mishaps' = Mishaps + 1
    BY <1>4, <1>s, MishapSpent DEF Stop
  <2>2. UNCHANGED <<cons, log>>
    BY <1>4 DEF Stop, consVars, partitionVars
  <2>3. Knowledge(w, n)' = Knowledge(w, n)
    BY <1>1, <2>2 DEF Knowledge, Known, InHand, At, Msg
  <2>4. Staleness(w, n)' <= Staleness(w, n)
    BY StaleStep
  <2>5. QED
    BY <1>1, <1>s, <2>1, <2>3, <2>4, CountsAreCounts DEF Paid
<1>5. QED
  BY <1>2, <1>3, <1>4

\* Nothing has been taken to begin with.
LEMMA PaidInit == ASSUME NEW w, Alone(w), Init, NEW n \in Notifs PROVE Paid(w, n)
<1>1. accepted[n] = 0 /\ Mishaps = 0
  BY KindFacts DEF Init, ConsumerInit, FaultsInit, Mishaps
<1>2. ~Exposed(w, n) /\ ~Stale(w, n)
  BY DEF Alone, Init, FaultsInit, StoreInit, SchedulerInit, AtRest, Exposed, Stale, Suspected
<1>3. QED
  BY <1>1, <1>2 DEF Paid, Exposure, Staleness, Knowledge

\* Every step pays for what it takes or makes possible.
LEMMA PaidStep ==
  ASSUME NEW w, Alone(w), Steady(w), [Next]_vars, NEW n \in Notifs, Paid(w, n)
  PROVE  Paid(w, n)'
<1>s. Sorts(w) /\ TypeInv /\ row \in [Notifs -> Rows]
  BY SortsHold DEF Steady, LifeInv, TypeInv, TypeOK, StoreType
<1>q. ASSUME UNCHANGED <<cons, accepted, stopping>>,
             row[n].status = "delivered" => row'[n].status = "delivered"
      PROVE  Paid(w, n)'
  <2>1. Busy(w) => Msg(w)' = Msg(w)
    BY <1>q, <1>s, MsgStays
  <2>2. Exposed(w, n)' => Exposed(w, n)
    BY <1>q, <2>1 DEF Exposed, InHand, At, Busy
  <2>3. Known(w, n) => Known(w, n)'
    BY <1>q, <2>1 DEF Known, InHand, At, Busy
  <2>4. QED
    BY <1>q, <2>2, <2>3, PaidKept
<1>1. CASE Age(n)
  BY <1>q, <1>1 DEF Age, consVars
<1>2. CASE ConsumerStep(w) /\ ~Age(n)
  BY <1>2, HandlerPaid, OtherHandlerPaid
<1>3. CASE SchedulerStep(w) /\ UNCHANGED consVars /\ ~Age(n)
  <2>1. UNCHANGED stopping
    BY <1>3 DEF SchedulerStep, ListDue, ListStuck, List, EndTick, Reset, Enqueue
  <2>2. CASE Resets(w, n)
    BY <1>3, <2>1, <2>2, ResetPaid
  <2>3. CASE ~Resets(w, n)
    <3>1. ASSUME NEW m \in Notifs, Resets(w, m) PROVE row'[n] = row[n]
      BY <1>s, <2>3, <3>1 DEF Resets
    <3>2. row'[n] = row[n]
      BY <1>3, <1>s, <3>1, SchedulerView DEF Lists, Continues, Sorts
    <3>3. QED
      BY <1>3, <1>q, <2>1, <3>2 DEF consVars
  <2>4. QED
    BY <2>2, <2>3
<1>4. CASE (Exit(w) \/ Crash(w) \/ Stop(w)) /\ ~Age(n)
  BY <1>4, EndPaid
<1>5. CASE ApiStep
  <2>1. UNCHANGED <<cons, accepted, stopping>>
    BY <1>5 DEF ApiStep, consVars, Create, CreateBatch, PublishNew, CancelStep, CancelRead,
       CancelUpdate, CancelCount, ApiCrash
  <2>2. row[n].status = "delivered" => row'[n] = row[n]
    BY <1>5, <1>s, ApiEffect DEF CanCancel, NoRow
  <2>3. QED
    BY <1>q, <2>1, <2>2
<1>6. CASE GroupStep(w) \/ UNCHANGED vars \/ \E m \in Notifs : FallDue(m) \/ Age(m)
  <2>1. UNCHANGED <<row, cons, accepted, stopping>>
    BY <1>6 DEF GroupStep, Assign, Revoke, Flush, FallDue, Age, vars, storeVars, consVars
  <2>2. QED
    BY <1>q, <2>1
<1>7. QED
  BY <1>1, <1>2, <1>3, <1>4, <1>5, <1>6, <1>s, Steps

\* With all of it paid for there is one acceptance more than mishaps at most.
LEMMA PaidEnough ==
  ASSUME NEW w, TypeInv, NEW n \in Notifs, Paid(w, n)
  PROVE  accepted[n] <= 1 + Mishaps
<1>1. accepted[n] \in Nat /\ faults \in [FaultKinds -> Nat]
  BY DEF TypeInv, TypeOK, ConsumerType, FaultsType
<1>2. Mishaps \in Nat
  BY <1>1, KindFacts DEF Mishaps
<1>3. Exposure(w, n) >= 0 /\ Staleness(w, n) >= 0 /\ Knowledge(w, n) <= 1
      /\ Exposure(w, n) \in Int /\ Staleness(w, n) \in Int /\ Knowledge(w, n) \in Int
  BY DEF Exposure, Staleness, Knowledge
<1>4. QED
  BY <1>1, <1>2, <1>3 DEF Paid

\* One worker, no second assignment: the provider takes a notification once,
\* and at most once more for each fault, whatever the order in which messages
\* are replayed, passes and handlers write their copies, and processes end.
THEOREM DuplicatesAreRare == OneWorker => (Safety => []DuplicatesNeedFaults)
<1> SUFFICES ASSUME NEW w, Alone(w) PROVE Safety => []DuplicatesNeedFaults
  BY DEF OneWorker
<1> DEFINE Inv == Steady(w) /\ \A n \in Notifs : Paid(w, n)
<1>1. Init => Inv
  BY SteadyInit, PaidInit
<1>2. Inv /\ [Next]_vars => Inv'
  BY SteadyStep, PaidStep
<1>3. Inv => DuplicatesNeedFaults
  BY PaidEnough DEF Steady, LifeInv, DuplicatesNeedFaults
<1>4. QED
  BY <1>1, <1>2, <1>3, PTL DEF Safety
====
