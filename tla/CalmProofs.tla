---- MODULE CalmProofs ----
(***************************************************************************)
(* One worker that neither crashes nor is stopped: a notification makes    *)
(* its way by one token at most, so a failed notification is not taken up  *)
(* again.  From it follow the budget of tries, the life cycle a client     *)
(* sees and the agreement of the batch counters with the rows.             *)
(***************************************************************************)
EXTENDS OneWorkerProofs

-----------------------------------------------------------------------------
(* Tokens.                                                                 *)

\* No message was read a second time and none was under way for five minutes.
Calm == faults.crash = 0 /\ faults.stop = 0 /\ faults.delay = 0

\* The loop has message i in front of it, or in its hand and may yet send or
\* republish it.
Live(w, i) == \/ i >= next[w]
              \/ i = cons[w].off /\ cons[w].pc \in {"get", "mark", "send", "settle", "republish"}

\* What will make the loop take up n: its live messages, a publish of the API
\* to come (0) and one of the scheduler (-1).
Tokens(w, n) == {t \in -1..Len(log) : \/ t = -1 /\ sched[w].cur = n
                                      \/ t = 0 /\ n \in unpublished
                                      \/ t \in 1..Len(log) /\ log[t] = n /\ Live(w, t)}

\* In the calm the worker is never stopping, and it reads on from where the
\* broker is when it gets the partition.
CalmPlace(w) == Calm => stopping = {} /\ (owner = NoWorker => next[w] = committed + 1)

\* Calm is over once it has ended.
LEMMA CalmStays ==
  ASSUME NEW w, Alone(w), TypeInv, CalmPlace(w), [Next]_vars, Calm'
  PROVE  Calm /\ ~Exit(w) /\ ~Crash(w) /\ ~Stop(w) /\ ~ApiCrash
<1>1. /\ faults \in [FaultKinds -> Nat] /\ faults' \in [FaultKinds -> Nat]
      /\ \A k \in FaultKinds : faults[k] <= faults'[k]
      /\ "crash" \in FaultKinds /\ "stop" \in FaultKinds /\ "delay" \in FaultKinds
  BY TypeInvStep, FaultsGrow, KindFacts DEF TypeInv, TypeOK, FaultsType
<1>2. Calm
  BY <1>1 DEF Calm
<1>3. ~Spend("crash") /\ ~Spend("stop")
  BY <1>1 DEF Calm, Spend
<1>4. QED
  BY <1>2, <1>3 DEF CalmPlace, Exit, Crash, Stop, ApiCrash

\* CalmPlace is kept.
LEMMA CalmPlaceStep ==
  ASSUME NEW w, Alone(w), TypeInv, Place(w), CalmPlace(w), [Next]_vars
  PROVE  CalmPlace(w)'
<1> SUFFICES ASSUME Calm'
             PROVE  stopping' = {} /\ (owner' = NoWorker => next'[w] = committed' + 1)
  BY DEF CalmPlace
<1>s. Sorts(w) /\ Calm /\ ~Exit(w) /\ ~Crash(w) /\ ~Stop(w) /\ ~ApiCrash
  BY SortsHold, CalmStays
<1>1. stopping = {} /\ (owner = NoWorker => next[w] = committed + 1)
  BY <1>s DEF CalmPlace
<1>2. CASE ConsumerStep(w)
  <2>1. UNCHANGED <<stopping, owner, committed>>
    BY <1>2 DEF ConsumerStep, Fetch, Load, Mark, Send, Settle, Count, Republish, Commit,
       partitionVars, groupVars
  <2>2. CASE Fetched(w)
    <3>1. owner = w
      BY <1>2, <1>s, <2>2 DEF Place, Sorts, Fetched, Reads, ConsumerStep, Fetch, Load, Mark, Send,
         Settle, Count, Republish, Commit
    <3>2. QED
      BY <1>1, <1>s, <2>1, <3>1 DEF Sorts
  <2>3. QED
    BY <1>1, <1>2, <2>1, <2>2, LoopView DEF LoopStep, Loaded, Marked, Sent, Settled, Counted,
       Republished, Committed, Stands
<1>3. CASE GroupStep(w)
  BY <1>1, <1>3, <1>s DEF GroupStep, Assign, Revoke, Flush, Sorts, Place
<1>4. CASE ~ConsumerStep(w) /\ ~GroupStep(w)
  <2>1. UNCHANGED <<stopping, owner, committed, next>>
    BY <1>4, <1>s, Steps DEF SchedulerStep, ListDue, ListStuck, List, EndTick, Reset, Enqueue,
       ApiStep, Create, CreateBatch, PublishNew, CancelStep, CancelRead, CancelUpdate, CancelCount,
       FallDue, Age, vars, partitionVars, groupVars
  <2>2. QED
    BY <1>1, <2>1
<1>5. QED
  BY <1>2, <1>3, <1>4

\* In the calm there is no token for what is over.
LEMMA OverNoToken ==
  ASSUME NEW w, Alone(w), TypeInv, Place(w), CalmPlace(w), Calm, NEW n \in Notifs, Over(w, n)
  PROVE  Tokens(w, n) = {}
<1>s. Sorts(w)
  BY SortsHold
<1>1. committed < next[w]
  BY <1>s DEF Sorts, Place, CalmPlace
<1>2. ASSUME NEW i \in 1..Len(log), log[i] = n PROVE ~Live(w, i)
  BY <1>1, <1>2, <1>s DEF Over, Live, Place, Busy, Sorts
<1>3. QED
  BY <1>2 DEF Over, Tokens

\* How a step may treat the tokens of n: take some away, move one, or make
\* the first.
Fewer(w, n)  == Tokens(w, n)' \subseteq Tokens(w, n)
Moved(w, n)  == \E a \in Tokens(w, n), b \in Int : Tokens(w, n)' \subseteq (Tokens(w, n) \ {a}) \cup {b}
First(w, n)  == Tokens(w, n) = {} /\ \E b \in Int : Tokens(w, n)' \subseteq {b}

\* Nothing becomes live in the log, and n is nowhere it was not.
LEMMA NoNewToken ==
  ASSUME NEW w, Alone(w), TypeInv, [Next]_vars, NEW n \in Notifs,
         n \in unpublished' => n \in unpublished, sched'[w].cur = n => sched[w].cur = n,
         Len(log') = Len(log) \/ log'[Len(log) + 1] # n,
         Len(log') \in {Len(log), Len(log) + 1},
         \A i \in 1..Len(log) : Live(w, i)' => Live(w, i)
  PROVE  Fewer(w, n)
<1>s. Sorts(w)
  BY SortsHold
<1>1. /\ Len(log) \in Nat /\ Len(log') \in Nat
      /\ \A i \in 1..Len(log) : log'[i] = log[i]
  BY LogEffect
<1>2. ASSUME NEW t \in Tokens(w, n)' PROVE t \in Tokens(w, n)
  BY <1>1, <1>2 DEF Tokens
<1>3. QED
  BY <1>2 DEF Fewer

\* A message for n is written, and what called for it is gone.
LEMMA NewMessage ==
  ASSUME NEW w, Alone(w), TypeInv, [Next]_vars, NEW n \in Notifs, NEW a \in Tokens(w, n),
         n \in unpublished' => n \in unpublished /\ a # 0,
         sched'[w].cur = n => sched[w].cur = n /\ a # -1,
         Len(log') \in {Len(log), Len(log) + 1},
         \A i \in 1..Len(log) : Live(w, i)' => Live(w, i) /\ a # i
  PROVE  Moved(w, n)
<1>s. Sorts(w)
  BY SortsHold
<1>1. /\ Len(log) \in Nat /\ Len(log') \in Nat
      /\ \A i \in 1..Len(log) : log'[i] = log[i]
  BY LogEffect
<1>2. ASSUME NEW t \in Tokens(w, n)' PROVE t \in (Tokens(w, n) \ {a}) \cup {Len(log) + 1}
  <2>1. CASE t = -1
    BY <1>1, <1>2, <2>1 DEF Tokens
  <2>2. CASE t = 0
    BY <1>1, <1>2, <2>2 DEF Tokens
  <2>3. CASE t \in 1..Len(log)
    BY <1>1, <1>2, <2>3 DEF Tokens
  <2>4. QED
    BY <1>1, <1>2, <2>1, <2>2, <2>3 DEF Tokens
<1>3. Tokens(w, n)' \subseteq (Tokens(w, n) \ {a}) \cup {Len(log) + 1}
  BY <1>2
<1>4. QED
  BY <1>1, <1>3 DEF Moved

\* How the log grows.
LEMMA AppendFacts ==
  ASSUME NEW w, Alone(w), TypeInv, NEW m \in Notifs, log' = Append(log, m)
  PROVE  Len(log) \in Nat /\ Len(log') = Len(log) + 1 /\ log'[Len(log) + 1] = m
<1>s. Sorts(w)
  BY SortsHold
<1>1. QED
  BY <1>s DEF Sorts

\* The loop takes the token in its hand away or writes it down as a message.
LEMMA ConsumerTokens ==
  ASSUME NEW w, Alone(w), TypeInv, Place(w), [Next]_vars, NEW n \in Notifs,
         ConsumerStep(w), UNCHANGED <<sched, apiVars>>
  PROVE  /\ Fewer(w, n) \/ Moved(w, n)
         /\ At(w, "settle", n) /\ cons[w].copy.status # "processing" =>
               cons[w].off \in Tokens(w, n) /\ Fewer(w, n) /\ cons[w].off \notin Tokens(w, n)'
<1>s. Sorts(w) /\ UNCHANGED unpublished
  BY SortsHold DEF apiVars
<1>1. LoopStep(w)
  BY LoopView
<1>2. ASSUME UNCHANGED log, \A i \in 1..Len(log) : Live(w, i)' => Live(w, i)
      PROVE  Fewer(w, n)
  BY <1>2, <1>s, NoNewToken DEF Sorts
<1>3. CASE Fetched(w)
  BY <1>2, <1>3, <1>s DEF Fetched, Live, At, Sorts
<1>4. CASE Loaded(w) \/ Marked(w) \/ Sent(w) \/ Counted(w)
  <2>1. /\ UNCHANGED log /\ cons[w].pc # "settle" /\ \A i \in 1..Len(log) : Live(w, i)' => Live(w, i)
    BY <1>4 DEF Loaded, Marked, Sent, Counted, Stands, Live
  <2>2. QED
    BY <1>2, <2>1 DEF At
<1>5. CASE Committed(w)
  <2>1. /\ UNCHANGED log /\ cons[w].pc # "settle" /\ \A i \in 1..Len(log) : Live(w, i)' => Live(w, i)
    BY <1>5 DEF Committed, Idle, Live
  <2>2. QED
    BY <1>2, <2>1 DEF At
<1>6. CASE Settled(w)
  <2>1. UNCHANGED log /\ Stands(w) /\ cons[w].pc = "settle" /\ Busy(w)
    BY <1>6 DEF Settled, Busy
  <2>2. Fewer(w, n)
    BY <1>2, <2>1 DEF Stands, Live
  <2>3. ASSUME Msg(w) = n, cons[w].copy.status # "processing"
        PROVE  cons[w].off \in Tokens(w, n) /\ cons[w].off \notin Tokens(w, n)'
    <3>1. cons[w].off \in Tokens(w, n)
      BY <1>s, <2>1, <2>3 DEF Tokens, Live, Msg, Sorts
    <3>2. PICK o \in 1..Len(log) : o = cons[w].off
      BY <1>s, <2>1 DEF Sorts
    <3>3. ~Live(w, o)'
      <4>1. cons'[w].pc \in {"count", "commit"} /\ o < next[w]
        BY <1>6, <1>s, <2>1, <2>3, <3>2 DEF Settled, Place, Sorts
      <4>2. QED
        BY <1>s, <2>1, <3>2, <4>1 DEF Live, Stands, Sorts
    <3>4. o \notin Tokens(w, n)'
      BY <3>3 DEF Tokens
    <3>5. QED
      BY <3>1, <3>2, <3>4
  <2>4. QED
    BY <2>2, <2>3 DEF At
<1>7. CASE Republished(w)
  <2> DEFINE o == cons[w].off
  <2>1. Stands(w) /\ cons[w].pc = "republish" /\ Busy(w) /\ cons'[w].pc = "commit"
    BY <1>7 DEF Republished, Busy
  <2>2. \A i \in 1..Len(log) : Live(w, i)' => Live(w, i) /\ o # i
    BY <1>s, <2>1 DEF Live, Stands, Place, Sorts
  <2>3. CASE UNCHANGED log
    BY <1>2, <2>1, <2>2, <2>3 DEF At
  <2>4. CASE log' = Append(log, Msg(w)) /\ Msg(w) # n
    <3>1. Len(log') = Len(log) + 1 /\ log'[Len(log) + 1] # n
      BY <1>s, <2>1, <2>4, AppendFacts DEF Sorts
    <3>2. QED
      BY <1>s, <2>1, <2>2, <3>1, NoNewToken DEF At
  <2>5. CASE log' = Append(log, Msg(w)) /\ Msg(w) = n
    <3>1. Len(log') = Len(log) + 1
      BY <1>s, <2>1, <2>5, AppendFacts DEF Sorts
    <3>2. o \in Tokens(w, n) /\ o # 0 /\ o # -1
      BY <1>s, <2>1, <2>5 DEF Tokens, Live, Msg, Sorts
    <3>3. QED
      BY <1>s, <2>1, <2>2, <3>1, <3>2, NewMessage DEF At
  <2>6. QED
    BY <1>7, <2>3, <2>4, <2>5 DEF Republished
<1>8. QED
  BY <1>1, <1>3, <1>4, <1>5, <1>6, <1>7 DEF LoopStep

\* The scheduler makes a token for what is over, and writes it down.
LEMMA SchedulerTokens ==
  ASSUME NEW w, Alone(w), Steady(w), CalmPlace(w), Calm, [Next]_vars, NEW n \in Notifs,
         SchedulerStep(w), UNCHANGED <<consVars, apiVars>>
  PROVE  Fewer(w, n) \/ Moved(w, n) \/ (First(w, n) /\ row'[n].status = "pending")
<1>s. Sorts(w) /\ UNCHANGED unpublished /\ TypeInv /\ Place(w)
  BY SortsHold DEF apiVars, Steady, LifeInv
<1>1. UNCHANGED <<cons, next>>
  BY DEF consVars, SchedulerStep, ListDue, ListStuck, List, EndTick, Reset, Enqueue, partitionVars,
     groupVars
<1>2. \A i : Live(w, i)' = Live(w, i)
  BY <1>1 DEF Live
<1>3. CASE Lists(w)
  BY <1>2, <1>3, <1>s, NoNewToken, NoNotifAssumption DEF Lists, Sorts
<1>4. CASE Continues(w) /\ UNCHANGED log
  <2>1. sched'[w].cur = n => sched[w].cur = n
    BY <1>4, NoNotifAssumption, <1>s, NoNotifAssumption DEF Continues
  <2>2. QED
    BY <1>2, <1>4, <1>s, <2>1, NoNewToken DEF Sorts
<1>5. CASE /\ sched[w].cur \in Notifs /\ sched'[w].cur = NoNotif
           /\ log' = Append(log, sched[w].cur)
  <2>1. Len(log') = Len(log) + 1 /\ log'[Len(log) + 1] = sched[w].cur
    BY <1>5, <1>s, AppendFacts
  <2>2. CASE sched[w].cur # n
    BY <1>2, <1>5, <1>s, <2>1, <2>2, NoNewToken, NoNotifAssumption
  <2>3. CASE sched[w].cur = n
    <3>1. -1 \in Tokens(w, n)
      BY <1>s, <2>3 DEF Tokens, Sorts
    <3>2. QED
      BY <1>2, <1>5, <1>s, <2>1, <3>1, NewMessage, NoNotifAssumption
  <2>4. QED
    BY <2>2, <2>3
<1>6. ASSUME NEW m \in Notifs, Resets(w, m), m # n PROVE Fewer(w, n)
  <2>1. sched'[w].cur # n /\ UNCHANGED log
    BY <1>6, NoNotifAssumption DEF Resets
  <2>2. QED
    BY <1>2, <1>s, <2>1, NoNewToken DEF Sorts
<1>7. CASE Resets(w, n)
  <2>1. Tokens(w, n) = {}
    BY <1>7, <1>s, ResetIsOver, OverNoToken DEF Calm
  <2>2. Tokens(w, n)' \subseteq {-1}
    BY <1>2, <1>7, <1>s, <2>1 DEF Resets, Tokens, Sorts
  <2>3. QED
    BY <1>7, <1>s, <2>1, <2>2, ResetsPending DEF First, Sorts
<1>8. QED
  BY <1>3, <1>4, <1>5, <1>6, <1>7, <1>s, SchedulerView DEF Continues, Sorts

\* The API makes a token for what is new, and writes it down.
LEMMA ApiTokens ==
  ASSUME NEW w, Alone(w), Steady(w), CalmPlace(w), Calm, [Next]_vars, NEW n \in Notifs,
         ApiStep, ~ApiCrash
  PROVE  Fewer(w, n) \/ Moved(w, n) \/ (First(w, n) /\ row[n] = NoRow)
<1>s. Sorts(w) /\ LifeInv /\ TypeInv /\ Place(w)
  BY SortsHold DEF Steady, LifeInv
<1>1. UNCHANGED <<cons, sched, next>>
  BY DEF ApiStep, consVars, Create, CreateBatch, PublishNew, CancelStep, CancelRead, CancelUpdate,
     CancelCount, partitionVars, groupVars
<1>2. \A i : Live(w, i)' = Live(w, i)
  BY <1>1 DEF Live
<1>3. ASSUME NEW m \in Notifs, PublishNew(m) PROVE Fewer(w, n) \/ Moved(w, n)
  <2>1. m \in unpublished /\ unpublished' = unpublished \ {m} /\ (log' = log \/ log' = Append(log, m))
    BY <1>3 DEF PublishNew, Publish, PublishErrs
  <2>2. CASE log' = log
    BY <1>1, <1>2, <1>s, <2>1, <2>2, NoNewToken DEF Sorts
  <2>3. CASE log' = Append(log, m)
    <3>1. Len(log') = Len(log) + 1 /\ log'[Len(log) + 1] = m
      BY <1>s, <2>3, AppendFacts
    <3>2. CASE m # n
      BY <1>1, <1>2, <1>s, <2>1, <3>1, <3>2, NoNewToken
    <3>3. CASE m = n
      <4>1. 0 \in Tokens(w, n)
        BY <1>s, <2>1, <3>3 DEF Tokens, Sorts
      <4>2. n \notin unpublished'
        BY <2>1, <3>3
      <4>3. \A i \in 1..Len(log) : Live(w, i)' => Live(w, i) /\ 0 # i
        BY <1>2
      <4>4. sched'[w].cur = n => sched[w].cur = n /\ 0 # -1
        BY <1>1
      <4>5. QED
        BY <1>s, <3>1, <4>1, <4>2, <4>3, <4>4, NewMessage
    <3>4. QED
      BY <3>2, <3>3
  <2>4. QED
    BY <2>1, <2>2, <2>3
<1>4. CASE UNCHANGED log
  <2>1. CASE n \in unpublished' => n \in unpublished
    BY <1>1, <1>2, <1>4, <1>s, <2>1, NoNewToken DEF Sorts
  <2>2. CASE n \in unpublished' /\ n \notin unpublished
    <3>1. row[n] = NoRow
      BY <1>s, <2>2, UnpublishedEffect
    <3>2. Over(w, n) /\ Tokens(w, n) = {}
      BY <1>s, <3>1, AbsentIsOver, OverNoToken DEF Present, NoRow
    <3>3. Tokens(w, n)' \subseteq {0}
      BY <1>1, <1>2, <1>4, <1>s, <3>2 DEF Tokens, Sorts
    <3>4. QED
      BY <3>1, <3>2, <3>3 DEF First
  <2>3. QED
    BY <2>1, <2>2
<1>5. QED
  BY <1>3, <1>4 DEF ApiStep, Create, CreateBatch, CancelStep, CancelRead, CancelUpdate,
     CancelCount, partitionVars

\* The steps there are, for tokens.
LEMMA TokenSteps ==
  ASSUME NEW w, Alone(w), Steady(w), CalmPlace(w), [Next]_vars, Calm', NEW n \in Notifs
  PROVE  \/ Fewer(w, n) \/ Moved(w, n)
         \/ First(w, n) /\ (row[n] = NoRow \/ row'[n].status = "pending")
<1>s. /\ Sorts(w) /\ LifeInv /\ TypeInv /\ Place(w)
      /\ Calm /\ ~Exit(w) /\ ~Crash(w) /\ ~Stop(w) /\ ~ApiCrash
  BY SortsHold, CalmStays DEF Steady, LifeInv
<1>1. CASE GroupStep(w) \/ UNCHANGED vars \/ \E m \in Notifs : FallDue(m) \/ Age(m)
  <2>1. UNCHANGED <<log, cons, sched, unpublished>>
    BY <1>1 DEF GroupStep, Assign, Revoke, Flush, FallDue, Age, vars, partitionVars, consVars, apiVars
  <2>2. next'[w] = next[w]
    <3>1. CASE Assign(w)
      <4>1. owner = NoWorker
        <5>1. ~Spend("rebalance")
          BY <1>s, KindFacts DEF Spend, Alone, TypeInv, TypeOK, FaultsType
        <5>2. QED
          BY <3>1, <5>1 DEF Assign
      <4>2. QED
        BY <1>s, <3>1, <4>1 DEF Assign, CalmPlace, Sorts
    <3>2. QED
      BY <1>1, <3>1 DEF GroupStep, Revoke, Flush, FallDue, Age, vars, partitionVars
  <2>3. \A i : Live(w, i)' = Live(w, i)
    BY <2>1, <2>2 DEF Live
  <2>4. QED
    BY <1>s, <2>1, <2>3, NoNewToken DEF Sorts
<1>2. QED
  BY <1>1, <1>s, Steps, ConsumerTokens, SchedulerTokens, ApiTokens

\* In the calm there is one token at most, and none for what has failed.
OneToken(w, n)   == Calm => \A a, b \in Tokens(w, n) : a = b
FailedRests(w, n) == Calm /\ row[n].status = "failed" => Tokens(w, n) = {}

\* The inductive invariant of the calm, added to Steady.
Serene(w) == /\ Steady(w) /\ CalmPlace(w)
             /\ \A n \in Notifs : OneToken(w, n) /\ FailedRests(w, n)

\* OneToken is kept.
LEMMA OneTokenStep ==
  ASSUME NEW w, Alone(w), Serene(w), [Next]_vars, NEW n \in Notifs
  PROVE  OneToken(w, n)'
<1> SUFFICES ASSUME Calm' PROVE \A a, b \in Tokens(w, n)' : a = b
  BY DEF OneToken
<1>1. Calm /\ OneToken(w, n)
  BY CalmStays DEF Serene, Steady, LifeInv
<1>2. QED
  BY <1>1, TokenSteps DEF Serene, OneToken, Fewer, Moved, First

\* FailedRests is kept.
LEMMA FailedStep ==
  ASSUME NEW w, Alone(w), Serene(w), [Next]_vars, NEW n \in Notifs
  PROVE  FailedRests(w, n)'
<1> SUFFICES ASSUME Calm', row'[n].status = "failed" PROVE Tokens(w, n)' = {}
  BY DEF FailedRests
<1>s. /\ Sorts(w) /\ LifeInv /\ TypeInv /\ Place(w) /\ Calm /\ OneToken(w, n) /\ FailedRests(w, n)
      /\ row \in [Notifs -> Rows]
  BY SortsHold, CalmStays DEF Serene, Steady, LifeInv, TypeInv, TypeOK, StoreType
<1>1. CASE row'[n] = row[n]
  <2>1. Tokens(w, n) = {} /\ row[n] # NoRow
    BY <1>1, <1>s DEF FailedRests, NoRow
  <2>2. Fewer(w, n)
    BY <2>1, TokenSteps DEF Serene, Moved, First, Fewer
  <2>3. QED
    BY <2>1, <2>2 DEF Fewer
<1>2. CASE /\ ConsumerStep(w) /\ UNCHANGED <<sched, apiVars>>
           /\ At(w, "mark", n) \/ At(w, "settle", n)
           /\ row'[n] = cons[w].copy
  <2>1. At(w, "settle", n) /\ cons[w].copy.status # "processing"
    BY <1>2, <1>s DEF LifeInv, CopiesSettle, At, Sorts
  <2>2. /\ cons[w].off \in Tokens(w, n) /\ Fewer(w, n) /\ cons[w].off \notin Tokens(w, n)'
    BY <1>2, <1>s, <2>1, ConsumerTokens
  <2>3. QED
    BY <1>s, <2>2 DEF OneToken, Fewer
<1>3. CASE Resets(w, n)
  BY <1>3, <1>s, ResetsPending DEF Sorts
<1>4. CASE row'[n] = [row[n] EXCEPT !.status = "cancelled"]
  BY <1>4, <1>s DEF Rows
<1>5. CASE \E later \in BOOLEAN : row'[n] = NewNotification(later)
  BY <1>5 DEF NewNotification
<1>6. QED
  BY <1>1, <1>2, <1>3, <1>4, <1>5, <1>s, RowChange DEF Rewritten

\* It is serene to begin with.
LEMMA SereneInit == ASSUME NEW w, Alone(w), Init PROVE Serene(w)
<1>1. Steady(w)
  BY SteadyInit
<1>2. CalmPlace(w)
  BY DEF Alone, Init, PartitionInit, FaultsInit, CalmPlace
<1>3. \A n \in Notifs : Tokens(w, n) = {}
  BY NoNotifAssumption DEF Alone, Init, PartitionInit, SchedulerInit, AtRest, ApiInit, Tokens
<1>4. QED
  BY <1>1, <1>2, <1>3 DEF Serene, OneToken, FailedRests

\* And stays so.
LEMMA SereneStep == ASSUME NEW w, Alone(w), Serene(w), [Next]_vars PROVE Serene(w)'
<1>1. Steady(w)' /\ CalmPlace(w)'
  BY SteadyStep, CalmPlaceStep DEF Serene, Steady, LifeInv
<1>2. \A n \in Notifs : OneToken(w, n)' /\ FailedRests(w, n)'
  BY OneTokenStep, FailedStep
<1>3. QED
  BY <1>1, <1>2 DEF Serene

\* In the calm a handler that begins does not find its notification failed.
LEMMA GetNotFailed ==
  ASSUME NEW w, Alone(w), Serene(w), Calm, cons[w].pc = "get"
  PROVE  Msg(w) \in Notifs /\ row[Msg(w)].status # "failed"
<1>1. Sorts(w) /\ Busy(w)
  BY SortsHold DEF Serene, Steady, LifeInv, Busy
<1>2. cons[w].off \in Tokens(w, Msg(w))
  BY <1>1 DEF Sorts, Tokens, Live, Msg
<1>3. QED
  BY <1>1, <1>2 DEF Sorts, Serene, FailedRests

\* In the calm the loop is never cut short.
LEMMA CalmLoopStays ==
  ASSUME NEW w, Alone(w), Serene(w), [Next]_vars, Calm', ~ConsumerStep(w)
  PROVE  cons'[w] = cons[w]
<1>s. TypeInv /\ ~Exit(w) /\ ~Crash(w)
  BY SortsHold, CalmStays DEF Serene, Steady, LifeInv
<1>1. UNCHANGED cons
  BY <1>s, Steps DEF Stop, GroupStep, ApiStep, FallDue, Age, consVars, vars
<1>2. QED
  BY <1>1

-----------------------------------------------------------------------------
(* TriesBounded.                                                           *)

\* How often n may be tried.
Budget(n) == priorityMaxRetries[Priority[n]]

\* A row, or the copy of one, that may be tried again has an attempt left.
Affords(n, r) == r.retry <= Budget(n) /\ (r.status # "failed" => r.retry < Budget(n))

\* In the calm the row and every copy that may yet be written afford it.
InBudget(w, n) ==
    Calm => /\ Affords(n, row[n])
            /\ n \in sched[w].todo => sched[w].copy[n].retry < Budget(n)
            /\ At(w, "mark", n) \/ At(w, "send", n) \/ At(w, "settle", n) => Affords(n, cons[w].copy)

\* Every priority is entitled to an attempt.
LEMMA BudgetFacts == ASSUME NEW n \in Notifs PROVE Budget(n) \in Nat /\ Budget(n) > 0
BY PriorityAssumption DEF Budget, priorityMaxRetries

\* A failed attempt uses one up, and fails the notification with the last one.
LEMMA AttemptAffords ==
  ASSUME NEW n \in Notifs, NEW r \in Rows, Affords(n, r), r.status = "processing", NEW t \in BOOLEAN
  PROVE  Affords(n, AfterSendError(n, r, t)) /\ Affords(n, MarkDelivered(r))
<1>1. Budget(n) \in Nat /\ r.retry \in Nat /\ r.retry < Budget(n)
  BY BudgetFacts DEF Affords, Rows
<1>2. /\ IncrementRetry(r).retry = r.retry + 1
      /\ MarkFailed(IncrementRetry(r)).retry = r.retry + 1
      /\ MarkFailed(IncrementRetry(r)).status = "failed"
  BY <1>1 DEF IncrementRetry, MarkFailed, Rows
<1>3. MarkDelivered(r).retry = r.retry
  BY DEF MarkDelivered, Rows
<1>4. HasRetriesLeft(n, IncrementRetry(r)) => r.retry + 1 < Budget(n)
  BY <1>2 DEF HasRetriesLeft, Budget
<1>5. QED
  BY <1>1, <1>2, <1>3, <1>4 DEF Affords, AfterSendError

\* Every write of a row is affordable.
LEMMA RowAffords ==
  ASSUME NEW w, Alone(w), Serene(w), [Next]_vars, NEW n \in Notifs, InBudget(w, n), Calm
  PROVE  Affords(n, row'[n])
<1>s. Sorts(w) /\ LifeInv /\ TypeInv /\ row \in [Notifs -> Rows] /\ Budget(n) \in Nat /\ Budget(n) > 0
  BY SortsHold, BudgetFacts DEF Serene, Steady, LifeInv, TypeInv, TypeOK, StoreType
<1>1. CASE row'[n] = row[n]
  BY <1>1 DEF InBudget
<1>2. CASE (At(w, "mark", n) \/ At(w, "settle", n)) /\ row'[n] = cons[w].copy
  BY <1>2 DEF InBudget
<1>3. CASE Resets(w, n)
  <2>1. row'[n].status = "pending" /\ row'[n].retry = sched[w].copy[n].retry
    BY <1>3, <1>s, ResetsPending DEF Sorts
  <2>2. row'[n].retry \in Nat /\ row'[n].retry < Budget(n)
    BY <1>3, <1>s, <2>1, TypeInvStep DEF InBudget, Resets, TypeInv, TypeOK, StoreType, Rows
  <2>3. QED
    BY <1>s, <2>1, <2>2 DEF Affords
<1>4. CASE CanCancel(row[n]) /\ row'[n] = [row[n] EXCEPT !.status = "cancelled"]
  BY <1>4, <1>s DEF InBudget, Affords, CanCancel, Rows
<1>5. CASE \E later \in BOOLEAN : row'[n] = NewNotification(later)
  BY <1>5, <1>s DEF NewNotification, Affords
<1>6. QED
  BY <1>1, <1>2, <1>3, <1>4, <1>5, <1>s, RowChange DEF Rewritten

\* The handler takes up what can be afforded, and its copy stays so.
LEMMA HandAffords ==
  ASSUME NEW w, Alone(w), Serene(w), [Next]_vars, NEW n \in Notifs, InBudget(w, n), Calm,
         At(w, "mark", n)' \/ At(w, "send", n)' \/ At(w, "settle", n)'
  PROVE  Affords(n, cons'[w].copy)
<1>s. Sorts(w) /\ LifeInv /\ TypeInv /\ row \in [Notifs -> Rows] /\ Budget(n) \in Nat
  BY SortsHold, BudgetFacts DEF Serene, Steady, LifeInv, TypeInv, TypeOK, StoreType
<1>1. CASE ConsumerStep(w)
  <2>1. CASE Loaded(w)
    <3>1. cons[w].pc = "get" /\ Msg(w)' = Msg(w) /\ cons'[w].copy = MarkProcessing(row[Msg(w)])
      BY <1>s, <2>1, MsgStays DEF Loaded, Stands, Busy, At
    <3>2. Msg(w) = n /\ row[n].status # "failed"
      BY <3>1, GetNotFailed DEF At
    <3>3. cons'[w].copy.retry = row[n].retry
      BY <1>s, <3>1, <3>2 DEF MarkProcessing, Rows
    <3>4. QED
      BY <1>s, <3>2, <3>3 DEF InBudget, Affords, Rows
  <2>2. CASE Marked(w)
    <3>1. At(w, "mark", n) /\ cons'[w].copy = cons[w].copy
      BY <1>s, <2>2, MsgStays DEF Marked, Stands, Busy, At
    <3>2. QED
      BY <3>1 DEF InBudget
  <2>3. CASE Sent(w)
    <3>1. At(w, "send", n) /\ Msg(w) = n
      BY <1>s, <2>3, MsgStays DEF Sent, Stands, Busy, At
    <3>2. Affords(n, cons[w].copy) /\ cons[w].copy.status = "processing" /\ cons[w].copy \in Rows
      BY <1>s, <3>1 DEF InBudget, At, LifeInv, CopiesSettle, Sorts
    <3>3. QED
      BY <2>3, <3>1, <3>2, AttemptAffords DEF Sent
  <2>4. CASE cons'[w].pc \notin {"mark", "send", "settle"}
    BY <2>4 DEF At
  <2>5. QED
    BY <1>1, <1>s, <2>1, <2>2, <2>3, <2>4, LoopView DEF LoopStep, Fetched, Settled, Counted,
       Republished, Committed, Idle
<1>2. CASE ~ConsumerStep(w)
  <2>1. cons'[w] = cons[w] /\ Busy(w)
    BY <1>2, <1>s, LoopStays DEF Idle, At, Busy
  <2>2. Msg(w)' = Msg(w)
    BY <1>s, <2>1, MsgStays
  <2>3. QED
    BY <2>1, <2>2 DEF At, InBudget
<1>3. QED
  BY <1>1, <1>2

\* Rows and copies stay in budget.
LEMMA InBudgetStep ==
  ASSUME NEW w, Alone(w), Serene(w), [Next]_vars, NEW n \in Notifs, InBudget(w, n)
  PROVE  InBudget(w, n)'
<1> SUFFICES ASSUME Calm'
             PROVE  /\ Affords(n, row'[n])
                    /\ n \in sched'[w].todo => sched'[w].copy[n].retry < Budget(n)
                    /\ At(w, "mark", n)' \/ At(w, "send", n)' \/ At(w, "settle", n)' =>
                          Affords(n, cons'[w].copy)
  BY DEF InBudget, Affords, Budget
<1>1. Calm /\ TypeInv
  BY CalmStays DEF Serene, Steady, LifeInv
<1>2. ASSUME n \in sched'[w].todo PROVE sched'[w].copy[n].retry < Budget(n)
  <2>1. CASE n \in sched[w].todo /\ sched'[w].copy[n] = sched[w].copy[n]
    BY <1>1, <2>1 DEF InBudget
  <2>2. CASE Lists(w)
    BY <1>1, <1>2, <2>2 DEF Lists, InBudget, Affords
  <2>3. QED
    BY <1>1, <1>2, <2>1, <2>2, TodoEffect
<1>3. QED
  BY <1>1, <1>2, RowAffords, HandAffords

\* A call of Send that the row counts without retry_count, or does not count yet.
Ran(w, n) == IF row[n].status = "delivered" \/ At(w, "settle", n) THEN 1 ELSE 0

\* In the calm a copy that may yet be written has the count of the row, and one
\* more after a failed attempt; and the row counts every call of Send but for
\* those whose outcome could not be written.
InCount(w, n) ==
    Calm => /\ n \in sched[w].todo /\ sched[w].pc \in {"due", "stuck"} =>
                  sched[w].copy[n].retry = row[n].retry
            /\ At(w, "mark", n) \/ At(w, "send", n) => cons[w].copy.retry = row[n].retry
            /\ At(w, "settle", n) =>
                  cons[w].copy.retry = IF cons[w].copy.status = "delivered"
                                       THEN row[n].retry ELSE row[n].retry + 1
            /\ tried[n] <= row[n].retry + Ran(w, n) + faults.error

\* Only a handler that settles a row changes its count.
LEMMA RetryChange ==
  ASSUME NEW w, Alone(w), Serene(w), [Next]_vars, NEW n \in Notifs, InCount(w, n), Calm
  PROVE  \/ row'[n].retry = row[n].retry
         \/ ConsumerStep(w) /\ At(w, "settle", n) /\ row'[n] = cons[w].copy
<1>s. Sorts(w) /\ LifeInv /\ TypeInv /\ row \in [Notifs -> Rows]
  BY SortsHold DEF Serene, Steady, LifeInv, TypeInv, TypeOK, StoreType
<1>1. CASE At(w, "mark", n) /\ row'[n] = cons[w].copy
  BY <1>1 DEF InCount
<1>2. CASE Resets(w, n)
  <2>1. row'[n].retry = sched[w].copy[n].retry
    BY <1>2, <1>s, ResetsPending DEF Sorts
  <2>2. QED
    BY <1>2, <2>1 DEF InCount, Resets
<1>3. CASE row'[n] = [row[n] EXCEPT !.status = "cancelled"]
  BY <1>3, <1>s DEF Rows
<1>4. CASE row[n] = NoRow /\ \E later \in BOOLEAN : row'[n] = NewNotification(later)
  BY <1>4 DEF NewNotification, NoRow
<1>5. QED
  BY <1>1, <1>2, <1>3, <1>4, <1>s, RowChange DEF Rewritten

\* What a pass has listed is not in the handler's hand, so its copy stays
\* right.
LEMMA TodoCounts ==
  ASSUME NEW w, Alone(w), Serene(w), [Next]_vars, NEW n \in Notifs, InCount(w, n), Calm,
         n \in sched'[w].todo, sched'[w].pc \in {"due", "stuck"}
  PROVE  sched'[w].copy[n].retry = row'[n].retry
<1>s. Sorts(w) /\ LifeInv /\ TypeInv /\ Place(w) /\ InStep(w, n)
  BY SortsHold DEF Serene, Steady, LifeInv
<1>1. CASE Lists(w)
  BY <1>1 DEF Lists
<1>2. CASE /\ n \in sched[w].todo /\ sched'[w].pc = sched[w].pc
           /\ sched'[w].copy[n] = sched[w].copy[n]
  <2>1. Over(w, n)
    BY <1>2, <1>s DEF InStep, ListedDue, SuspectClean, Suspected, Clean, Calm
  <2>2. ~At(w, "settle", n)
    BY <1>s, <2>1, OverNotHandled DEF At, Busy
  <2>3. QED
    BY <1>2, <2>2, RetryChange DEF InCount
<1>3. QED
  BY <1>1, <1>2, <1>s, TodoEffect

\* The handler's copy has the count of the row, or the one to be.
LEMMA HandCounts ==
  ASSUME NEW w, Alone(w), Serene(w), [Next]_vars, NEW n \in Notifs, InCount(w, n), Calm
  PROVE  /\ At(w, "mark", n)' \/ At(w, "send", n)' => cons'[w].copy.retry = row'[n].retry
         /\ At(w, "settle", n)' =>
               cons'[w].copy.retry = IF cons'[w].copy.status = "delivered"
                                     THEN row'[n].retry ELSE row'[n].retry + 1
<1>s. Sorts(w) /\ LifeInv /\ TypeInv /\ row \in [Notifs -> Rows]
  BY SortsHold DEF Serene, Steady, LifeInv, TypeInv, TypeOK, StoreType
<1>1. CASE ConsumerStep(w)
  <2>1. CASE Loaded(w)
    <3>1. ASSUME At(w, "mark", n)' PROVE cons'[w].copy.retry = row'[n].retry
      <4>1. cons[w].pc = "get" /\ Msg(w)' = Msg(w) /\ cons'[w].copy = MarkProcessing(row[Msg(w)])
        BY <1>s, <2>1, <3>1, MsgStays DEF Loaded, Stands, Busy, At
      <4>2. Msg(w) = n /\ UNCHANGED row
        BY <2>1, <3>1, <4>1 DEF At, Loaded, Kept
      <4>3. QED
        BY <1>s, <4>1, <4>2 DEF MarkProcessing, Rows
    <3>2. QED
      BY <2>1, <3>1 DEF Loaded, At
  <2>2. CASE Marked(w)
    <3>1. ASSUME At(w, "send", n)' PROVE cons'[w].copy.retry = row'[n].retry
      <4>1. /\ cons'[w].copy = cons[w].copy /\ Msg(w)' = Msg(w)
            /\ Stores(Msg(w), cons[w].copy)
        BY <1>s, <2>2, <3>1, MsgStays DEF Marked, Stands, Busy, At
      <4>2. Msg(w) = n
        BY <3>1, <4>1 DEF At
      <4>3. row'[n] = cons[w].copy
        BY <1>s, <4>1, <4>2 DEF Stores
      <4>4. QED
        BY <4>1, <4>3
    <3>2. QED
      BY <2>2, <3>1 DEF Marked, At
  <2>3. CASE Sent(w)
    <3>1. ASSUME At(w, "settle", n)'
          PROVE  cons'[w].copy.retry = IF cons'[w].copy.status = "delivered"
                                       THEN row'[n].retry ELSE row'[n].retry + 1
      <4>1. At(w, "send", n) /\ UNCHANGED row
        BY <1>s, <2>3, <3>1, MsgStays DEF Sent, Stands, Busy, At, Kept
      <4>2. /\ cons[w].copy.retry = row[n].retry /\ row[n].retry \in Nat
            /\ cons[w].copy.status = "processing" /\ cons[w].copy \in Rows
        BY <1>s, <4>1 DEF InCount, At, LifeInv, CopiesSettle, Sorts, Rows
      <4>3. CASE cons'[w].copy = MarkDelivered(cons[w].copy)
        BY <4>1, <4>2, <4>3 DEF MarkDelivered, Rows
      <4>4. ASSUME NEW t \in BOOLEAN, cons'[w].copy = AfterSendError(Msg(w), cons[w].copy, t)
            PROVE  cons'[w].copy.retry = row[n].retry + 1 /\ cons'[w].copy.status # "delivered"
        <5> DEFINE r == IncrementRetry(cons[w].copy)
        <5>1. r.retry = row[n].retry + 1 /\ r.status = "processing" /\ r \in Rows
          BY <4>2 DEF IncrementRetry, Rows
        <5>2. MarkFailed(r).retry = row[n].retry + 1 /\ MarkFailed(r).status = "failed"
          BY <5>1 DEF MarkFailed, Rows
        <5>3. cons'[w].copy \in {r, MarkFailed(r)}
          BY <4>4 DEF AfterSendError
        <5>4. QED
          BY <5>1, <5>2, <5>3
      <4>5. QED
        BY <2>3, <4>1, <4>3, <4>4 DEF Sent
    <3>2. QED
      BY <2>3, <3>1 DEF Sent, At
  <2>4. CASE cons'[w].pc \notin {"mark", "send", "settle"}
    BY <2>4 DEF At
  <2>5. QED
    BY <1>1, <1>s, <2>1, <2>2, <2>3, <2>4, LoopView DEF LoopStep, Fetched, Settled, Counted,
       Republished, Committed, Idle
<1>2. CASE ~ConsumerStep(w)
  <2>1. row'[n].retry = row[n].retry
    BY <1>2, RetryChange
  <2>2. CASE cons'[w].pc \in {"mark", "send", "settle"}
    <3>1. cons'[w] = cons[w] /\ Busy(w)
      BY <1>2, <1>s, <2>2, LoopStays DEF Idle, Busy
    <3>2. Msg(w)' = Msg(w)
      BY <1>s, <3>1, MsgStays
    <3>3. QED
      BY <2>1, <3>1, <3>2 DEF At, InCount
  <2>3. QED
    BY <2>2 DEF At
<1>3. QED
  BY <1>1, <1>2

\* The count of n goes up as one more outcome stands behind it.
LEMMA TriedCounts ==
  ASSUME NEW w, Alone(w), Serene(w), [Next]_vars, NEW n \in Notifs, InCount(w, n), Calm, Calm'
  PROVE  tried'[n] <= row'[n].retry + Ran(w, n)' + faults'.error
<1>s. /\ Sorts(w) /\ LifeInv /\ TypeInv /\ Steady(w) /\ InStep(w, n) /\ CalmPlace(w)
      /\ row \in [Notifs -> Rows] /\ tried \in [Notifs -> Nat]
  BY SortsHold DEF Serene, Steady, LifeInv, TypeInv, TypeOK, StoreType, ConsumerType
<1>n. /\ tried[n] \in Nat /\ row[n].retry \in Nat /\ row'[n].retry \in Nat
      /\ faults.error \in Nat /\ faults'.error \in Nat /\ faults.error <= faults'.error
      /\ Ran(w, n) \in {0, 1} /\ Ran(w, n)' \in {0, 1}
      /\ tried[n] <= row[n].retry + Ran(w, n) + faults.error
  <2>1. row' \in [Notifs -> Rows]
    BY <1>s, TypeInvStep DEF TypeInv, TypeOK, StoreType
  <2>2. faults["error"] \in Nat /\ faults'["error"] \in Nat /\ faults["error"] <= faults'["error"]
    BY <1>s, FaultsGrow, KindFacts
  <2>3. QED
    BY <1>s, <2>1, <2>2 DEF Ran, InCount, Rows
<1>1. CASE ConsumerStep(w) /\ Sent(w) /\ Msg(w) = n
  <2>1. At(w, "settle", n)' /\ ~At(w, "settle", n) /\ UNCHANGED row /\ tried'[n] = tried[n] + 1
    BY <1>1, <1>s, MsgStays DEF Sent, Stands, Busy, At, Kept
  <2>2. row[n].status # "delivered"
    BY <1>1, <1>s DEF InStep, HandlerAhead, Sent, At
  <2>3. Ran(w, n) = 0 /\ Ran(w, n)' = 1
    BY <2>1, <2>2 DEF Ran
  <2>4. QED
    BY <1>n, <2>1, <2>3
<1>2. CASE ConsumerStep(w) /\ Settled(w) /\ Msg(w) = n
  <2>1. /\ At(w, "settle", n) /\ UNCHANGED tried /\ Ran(w, n) = 1
        /\ cons[w].copy.retry = IF cons[w].copy.status = "delivered"
                                THEN row[n].retry ELSE row[n].retry + 1
    BY <1>2 DEF Settled, At, Ran, InCount
  <2>2. CASE Stores(n, cons[w].copy)
    <3>1. row'[n] = cons[w].copy
      BY <1>s, <2>2 DEF Stores
    <3>2. CASE cons[w].copy.status = "delivered"
      <4>1. Ran(w, n)' = 1
        BY <3>1, <3>2 DEF Ran
      <4>2. QED
        BY <1>n, <2>1, <3>1, <3>2, <4>1
    <3>3. CASE cons[w].copy.status # "delivered"
      BY <1>n, <2>1, <3>1, <3>3
    <3>4. QED
      BY <3>2, <3>3
  <2>3. CASE Struck(w, "error") /\ Kept
    <3>1. Spend("error")
      BY <1>s, <2>3 DEF Struck, CalmPlace
    <3>2. faults'.error = faults.error + 1
      BY <1>s, <3>1, KindFacts DEF Spend, TypeInv, TypeOK, FaultsType
    <3>3. QED
      BY <1>n, <2>1, <2>3, <3>2 DEF Kept
  <2>4. QED
    BY <1>2, <2>2, <2>3 DEF Settled
<1>3. CASE ~(ConsumerStep(w) /\ Msg(w) = n /\ (Sent(w) \/ Settled(w)))
  <2>1. tried'[n] = tried[n]
    <3>1. CASE ConsumerStep(w) /\ Sent(w)
      BY <1>3, <1>s, <3>1 DEF Sent
    <3>2. QED
      BY <1>s, <3>1, LoopView, LoopStays DEF LoopStep, Fetched, Loaded, Marked, Settled, Counted,
         Republished, Committed
  <2>2. ConsumerStep(w) => ~At(w, "settle", n)
    BY <1>3, <1>s, LoopView DEF LoopStep, Fetched, Loaded, Marked, Sent, Counted, Republished,
       Committed, At
  <2>3. row'[n].retry = row[n].retry
    BY <2>2, RetryChange
  <2>4. Ran(w, n) <= Ran(w, n)'
    <3>1. row[n].status = "delivered" => row'[n].status = "delivered"
      BY <1>s, DeliveredStays DEF Calm
    <3>2. At(w, "settle", n) => At(w, "settle", n)'
      <4>1. ASSUME At(w, "settle", n) PROVE At(w, "settle", n)'
        <5>1. cons'[w] = cons[w] /\ Busy(w)
          BY <1>s, <2>2, <4>1, CalmLoopStays DEF At, Busy
        <5>2. QED
          BY <1>s, <4>1, <5>1, MsgStays DEF At
      <4>2. QED
        BY <4>1
    <3>3. QED
      BY <3>1, <3>2 DEF Ran
  <2>5. QED
    BY <1>n, <2>1, <2>3, <2>4
<1>4. QED
  BY <1>1, <1>2, <1>3

\* Rows, copies and calls stay counted.
LEMMA InCountStep ==
  ASSUME NEW w, Alone(w), Serene(w), [Next]_vars, NEW n \in Notifs, InCount(w, n)
  PROVE  InCount(w, n)'
<1> SUFFICES ASSUME Calm'
             PROVE  /\ n \in sched'[w].todo /\ sched'[w].pc \in {"due", "stuck"} =>
                          sched'[w].copy[n].retry = row'[n].retry
                    /\ At(w, "mark", n)' \/ At(w, "send", n)' => cons'[w].copy.retry = row'[n].retry
                    /\ At(w, "settle", n)' =>
                          cons'[w].copy.retry = IF cons'[w].copy.status = "delivered"
                                                THEN row'[n].retry ELSE row'[n].retry + 1
                    /\ tried'[n] <= row'[n].retry + Ran(w, n)' + faults'.error
  BY DEF InCount
<1>1. Calm
  BY CalmStays DEF Serene, Steady, LifeInv
<1>2. QED
  BY <1>1, TodoCounts, HandCounts, TriedCounts

\* What is counted and in budget has been tried as often as its priority
\* allows, and once more at most for each error.
LEMMA TriesInReach ==
  ASSUME NEW w, Alone(w), Serene(w), NEW n \in Notifs, InBudget(w, n), InCount(w, n), Calm
  PROVE  tried[n] <= Budget(n) + faults.error
<1>1. /\ InStep(w, n) /\ row[n].retry \in Nat /\ tried[n] \in Nat /\ faults.error \in Nat
      /\ Budget(n) \in Nat
  BY BudgetFacts, KindFacts DEF Serene, Steady, LifeInv, TypeInv, TypeOK, StoreType, ConsumerType,
     FaultsType, Rows
<1>2. row[n].retry + Ran(w, n) <= Budget(n)
  <2>1. CASE row[n].status = "delivered" \/ At(w, "settle", n)
    <3>1. row[n].status # "failed"
      BY <1>1, <2>1 DEF InStep, HandlerAhead, Calm
    <3>2. row[n].retry < Budget(n)
      BY <3>1 DEF InBudget, Affords
    <3>3. QED
      BY <1>1, <2>1, <3>2 DEF Ran
  <2>2. CASE ~(row[n].status = "delivered" \/ At(w, "settle", n))
    BY <1>1, <2>2 DEF Ran, InBudget, Affords
  <2>3. QED
    BY <2>1, <2>2
<1>3. tried[n] <= row[n].retry + Ran(w, n) + faults.error /\ Ran(w, n) \in {0, 1}
  BY DEF InCount, Ran
<1>4. QED
  BY <1>1, <1>2, <1>3

\* One worker that is neither stopped nor crashes, and no second reading of a
\* message: Send is called for a notification as often as its priority allows
\* and once more at most for each call that erred.  No two attempts count from
\* the same copy, none follows the last, and an attempt whose outcome could
\* not be written is the only one that retry_count misses.
THEOREM TriesInBudget == OneWorker => (Safety => []TriesBounded)
<1> SUFFICES ASSUME NEW w, Alone(w) PROVE Safety => []TriesBounded
  BY DEF OneWorker
<1> DEFINE Inv == Serene(w) /\ \A n \in Notifs : InBudget(w, n) /\ InCount(w, n)
<1>1. Init => Inv
  <2>1. ASSUME Init, NEW n \in Notifs PROVE InBudget(w, n)
    BY <2>1, BudgetFacts DEF Alone, Init, StoreInit, ConsumerInit, SchedulerInit, Idle, AtRest, NoRow,
       InBudget, Affords, At
  <2>2. ASSUME Init, NEW n \in Notifs PROVE InCount(w, n)
    BY <2>2, KindFacts DEF Alone, Init, StoreInit, ConsumerInit, SchedulerInit, FaultsInit, Idle, AtRest,
       NoRow, InCount, Ran, At
  <2>3. QED
    BY <2>1, <2>2, SereneInit
<1>2. Inv /\ [Next]_vars => Inv'
  BY SereneStep, InBudgetStep, InCountStep
<1>3. Inv => TriesBounded
  <2>1. ASSUME TypeInv, faults.crash + faults.stop + faults.rebalance + faults.delay = 0 PROVE Calm
    <3>1. /\ faults.crash \in Nat /\ faults.stop \in Nat
          /\ faults.rebalance \in Nat /\ faults.delay \in Nat
      BY <2>1, KindFacts DEF TypeInv, TypeOK, FaultsType
    <3>2. \A a, b, c, d \in Nat : a + b + c + d = 0 => a = 0 /\ b = 0 /\ d = 0
      OBVIOUS
    <3>3. faults.crash = 0 /\ faults.stop = 0 /\ faults.delay = 0
      BY <2>1, <3>1, <3>2
    <3>4. QED
      BY <3>3 DEF Calm
  <2>2. QED
    BY <2>1, TriesInReach DEF Serene, Steady, LifeInv, Budget, TriesBounded
<1>4. QED
  BY <1>1, <1>2, <1>3, PTL DEF Safety

-----------------------------------------------------------------------------
(* KeepsLifeCycle.                                                         *)

\* A step as the abstract life cycle sees it.
AnEdge ==
    \/ UNCHANGED <<Status, accepted, misled>>
    \/ \E n \in Notifs : \/ Tidy!Release(n) \/ Tidy!TakeUp(n) \/ Tidy!Deliver(n) \/ Tidy!Fail(n)
                         \/ Tidy!Recover(n) \/ Tidy!Cancel(n) \/ Tidy!Revive(n)
                         \/ Tidy!Repeat(n) \/ Tidy!Send(n) \/ Tidy!Mislead(n)
    \/ Tidy!Accept

\* The calm ends with a mishap.
LEMMA CalmOrMishap == ASSUME TypeInv, ~Calm PROVE Mishaps > 0
<1>1. /\ faults.error \in Nat /\ faults.timeout \in Nat /\ faults.crash \in Nat
      /\ faults.stop \in Nat /\ faults.rebalance \in Nat /\ faults.delay \in Nat
  BY KindFacts DEF TypeInv, TypeOK, FaultsType
<1>2. \A a, b, c, d, e, f \in Nat : a + b + c + d + e + f > 0 \/ (c = 0 /\ d = 0 /\ f = 0)
  OBVIOUS
<1>3. QED
  BY <1>1, <1>2, ZenonT(60) DEF Calm, Mishaps

\* A write keeps to the edges, unless a message has been under way for five
\* minutes.
LEMMA WriteKeepsEdges ==
  ASSUME NEW w, Alone(w), Serene(w), [Next]_vars, faults'.delay = 0, faults.delay = 0,
         NEW n \in Notifs, NEW r \in Rows, Written(n, r)
  PROVE  AnEdge
<1>s. /\ Sorts(w) /\ LifeInv /\ TypeInv /\ Place(w) /\ Steady(w) /\ InStep(w, n)
      /\ row \in [Notifs -> Rows] /\ UNCHANGED <<accepted, misled>>
  BY SortsHold DEF Serene, Steady, LifeInv, TypeInv, TypeOK, StoreType, Written
<1>1. /\ Status[n] = row[n].status /\ Status[n] # "absent" /\ row'[n] = r
      /\ Status' = [Status EXCEPT ![n] = r.status]
  BY <1>s DEF Written, Present, Status
<1>2. \A From : Status[n] \in From => Tidy!Moves(n, From, r.status)
  BY <1>1, <1>s DEF Tidy!Moves
<1>3. r.status = Status[n] => AnEdge
  <2>1. Status = [m \in Notifs |-> Status[m]]
    BY DEF Status
  <2>2. QED
    BY <1>1, <1>s, <2>1 DEF AnEdge
<1>4. CASE At(w, "mark", n) /\ r = cons[w].copy
  <2>1. r.status = "processing" /\ Busy(w)
    BY <1>4, <1>s DEF LifeInv, CopiesSettle, At, Sorts, Busy
  <2>2. Status[n] \in {"pending", "processing", "failed", "cancelled"}
    BY <1>1, <1>4, <1>s, <2>1, OverNotHandled DEF InStep, HandlerAhead, ScheduledOver, At, Rows, Statuses
  <2>3. CASE Status[n] = "failed"
    <3>1. ~Calm
      <4>1. cons[w].off \in Tokens(w, n)
        BY <1>4, <1>s, <2>1 DEF Sorts, Tokens, Live, Msg, At
      <4>2. QED
        BY <1>1, <2>3, <4>1 DEF Serene, FailedRests
    <3>2. Tidy!Repeat(n)
      BY <1>2, <1>s, <2>1, <2>3, <3>1, CalmOrMishap DEF Tidy!Repeat
    <3>3. QED
      BY <3>2 DEF AnEdge
  <2>4. CASE Status[n] = "pending"
    <3>1. Tidy!TakeUp(n)
      BY <1>2, <2>1, <2>4 DEF Tidy!TakeUp
    <3>2. QED
      BY <3>1 DEF AnEdge
  <2>5. CASE Status[n] = "cancelled"
    <3>1. Tidy!Revive(n)
      BY <1>2, <2>1, <2>5 DEF Tidy!Revive
    <3>2. QED
      BY <3>1 DEF AnEdge
  <2>6. QED
    BY <1>3, <2>1, <2>2, <2>3, <2>4, <2>5
<1>5. CASE At(w, "settle", n) /\ r = cons[w].copy
  <2>1. Status[n] = "processing" /\ r.status \in {"processing", "delivered", "failed"}
    BY <1>1, <1>5, <1>s DEF InStep, HandlerAhead, LifeInv, CopiesSettle, At, Sorts
  <2>2. r.status = "delivered" => Tidy!Deliver(n)
    BY <1>2, <1>5, <1>s, <2>1 DEF LifeInv, TakenFirst, Grounded, At, Sorts, Tidy!Deliver
  <2>3. r.status = "failed" => Tidy!Fail(n)
    BY <1>2, <2>1 DEF Tidy!Fail
  <2>4. QED
    BY <1>3, <2>1, <2>2, <2>3 DEF AnEdge
<1>6. CASE Resets(w, n)
  <2>1. r.status = "pending" /\ Status[n] \in {"scheduled", "cancelled", "processing"}
    BY <1>1, <1>6, <1>s, ResetsPending, ResetIsOver DEF Sorts
  <2>2. Tidy!Release(n) \/ Tidy!Revive(n) \/ Tidy!Recover(n)
    BY <1>2, <2>1 DEF Tidy!Release, Tidy!Revive, Tidy!Recover
  <2>3. QED
    BY <2>2 DEF AnEdge
<1>7. CASE CanCancel(row[n]) /\ r = [row[n] EXCEPT !.status = "cancelled"]
  <2>1. r.status = "cancelled" /\ Status[n] \in {"pending", "scheduled"}
    BY <1>1, <1>7, <1>s DEF CanCancel, Rows
  <2>2. Tidy!Cancel(n)
    BY <1>2, <2>1 DEF Tidy!Cancel
  <2>3. QED
    BY <2>2 DEF AnEdge
<1>8. row[n] # NoRow
  BY <1>1 DEF NoRow
<1>9. QED
  BY <1>1, <1>3, <1>4, <1>5, <1>6, <1>7, <1>8, <1>s, RowChange DEF Rewritten

\* Only the handler hears from the provider.
LEMMA MisledStays ==
  ASSUME NEW w, Alone(w), TypeInv, [Next]_vars, ~ConsumerStep(w)
  PROVE  UNCHANGED misled
BY Steps DEF consVars, sends, Exit, Crash, Perish, Stop, GroupStep, ApiStep, FallDue, Age, vars

\* The provider takes what is processing, and again only after a mishap.
LEMMA TakingKeepsEdges ==
  ASSUME NEW w, Alone(w), Serene(w), [Next]_vars, faults.delay = 0,
         NEW n \in Notifs, Paid(w, n), Taken(n)
  PROVE  Tidy!Send(n)
<1>s. /\ Sorts(w) /\ LifeInv /\ TypeInv /\ InStep(w, n) /\ accepted \in [Notifs -> Nat]
      /\ UNCHANGED row
  BY SortsHold DEF Serene, Steady, LifeInv, TypeInv, TypeOK, ConsumerType, Taken
<1>1. accepted'[n] # accepted[n]
  BY <1>s DEF Taken
<1>2. ConsumerStep(w) /\ Sent(w) /\ Takes(Msg(w))
  BY <1>1, <1>s, LoopStays, LoopView DEF LoopStep, Fetched, Loaded, Marked, Sent, Settled, Counted,
     Republished, Committed
<1>3. At(w, "send", n)
  BY <1>1, <1>2, <1>s DEF Sent, Takes, At
<1>4. row[n].status = "processing"
  BY <1>3, <1>s DEF InStep, HandlerAhead
<1>5. accepted[n] <= Mishaps'
  <2>1. Knowledge(w, n) = 0
    BY <1>3, <1>4 DEF Knowledge, Known, InHand, At
  <2>2. QED
    BY <1>s, <2>1, CountsAreCounts DEF Paid
<1>6. QED
  BY <1>4, <1>5, <1>s DEF Taken, Status, Tidy!Send

\* An answer misleads about what is processing.
LEMMA MisleadingKeepsEdges ==
  ASSUME NEW w, Alone(w), Serene(w), [Next]_vars, faults.delay = 0,
         NEW n \in Notifs, Misled(n)
  PROVE  AnEdge
<1>s. Sorts(w) /\ TypeInv /\ InStep(w, n) /\ UNCHANGED <<Status, accepted>>
  BY SortsHold DEF Serene, Steady, LifeInv, Misled, Status
<1>1. CASE misled' = misled
  BY <1>1, <1>s DEF AnEdge
<1>2. CASE misled' # misled
  <2>1. ConsumerStep(w)
    BY <1>2, <1>s, MisledStays
  <2>2. cons[w].pc = "send" /\ misled' = misled \cup {Msg(w)}
    BY <1>2, <1>s, <2>1, HandlerEffect DEF Sorts
  <2>3. At(w, "send", n)
    BY <1>2, <2>2 DEF Misled, At
  <2>4. row[n].status = "processing"
    BY <1>s, <2>3 DEF InStep, HandlerAhead
  <2>5. Tidy!Mislead(n)
    BY <1>s, <2>4 DEF Misled, Status, Tidy!Mislead
  <2>6. QED
    BY <2>5 DEF AnEdge
<1>3. QED
  BY <1>1, <1>2

\* A request that is stored is accepted.
LEMMA StoringKeepsEdges ==
  ASSUME NEW S \in SUBSET Notifs, NEW later \in SUBSET Notifs, Stored(S, later)
  PROVE  Tidy!Accept
<1>1. Loose!Accept => Tidy!Accept
  BY DEF Loose!Accept, Tidy!Accept
<1>2. QED
  BY <1>1, StoredAccepts

\* Once tidiness is gone any earned status is a step of the life cycle.
LEMMA UntidyEdges ==
  ASSUME LifeInv, [Next]_vars, faults'.delay # 0
  PROVE  AnEdge
<1>1. ASSUME NEW n \in Notifs, NEW From, NEW to, Loose!Moves(n, From, to)
      PROVE  \A To : Tidy!Moves(n, To, to)
  BY <1>1 DEF Loose!Moves, Tidy!Moves
<1>2. ASSUME NEW n \in Notifs,
             Loose!Release(n) \/ Loose!TakeUp(n) \/ Loose!Deliver(n) \/ Loose!Fail(n)
                \/ Loose!Recover(n) \/ Loose!Cancel(n)
      PROVE  AnEdge
  BY <1>1, <1>2 DEF AnEdge, Loose!Release, Loose!TakeUp, Loose!Deliver, Loose!Fail, Loose!Recover,
     Loose!Cancel, Tidy!Release, Tidy!TakeUp, Tidy!Deliver, Tidy!Fail, Tidy!Recover, Tidy!Cancel
<1>3. ASSUME NEW n \in Notifs, Loose!Revive(n) PROVE AnEdge
  BY <1>1, <1>3 DEF AnEdge, Loose!Revive, Tidy!Revive
<1>4. ASSUME NEW n \in Notifs, Loose!Send(n) \/ Loose!Mislead(n) PROVE AnEdge
  BY <1>4 DEF AnEdge, Loose!Send, Loose!Mislead, Tidy!Send, Tidy!Mislead
<1>5. Loose!Accept => AnEdge
  BY DEF AnEdge, Loose!Accept, Tidy!Accept
<1>6. ASSUME NEW n \in Notifs PROVE ~Loose!Repeat(n)
  BY DEF Loose!Repeat
<1>7. CASE Loose!Next
  BY <1>2, <1>3, <1>4, <1>5, <1>6, <1>7 DEF Loose!Next, AnEdge
<1>8. QED
  BY <1>7, LooseStep DEF AnEdge

\* Every step keeps the life cycle.
LEMMA EdgesStep ==
  ASSUME NEW w, Alone(w), Serene(w), [Next]_vars, \A n \in Notifs : Paid(w, n)
  PROVE  Tidy!Next
<1>s. LifeInv /\ TypeInv
  BY DEF Serene, Steady, LifeInv
<1>1. Mishaps' \in {Mishaps, Mishaps + 1} /\ (faults'.delay = 0 => faults.delay = 0)
  <2>1. faults["delay"] \in Nat /\ faults'["delay"] \in Nat /\ faults["delay"] <= faults'["delay"]
    BY <1>s, FaultsGrow, KindFacts
  <2>2. QED
    BY <1>s, <2>1, FaultsGrow
<1>2. AnEdge
  <2>1. CASE faults'.delay # 0
    BY <2>1, <1>s, UntidyEdges
  <2>2. CASE Stays
    BY <2>2 DEF Stays, Status, AnEdge
  <2>3. ASSUME faults'.delay = 0, NEW n \in Notifs, Taken(n) PROVE AnEdge
    BY <1>1, <2>3, TakingKeepsEdges DEF AnEdge
  <2>7. ASSUME faults'.delay = 0, NEW n \in Notifs, Misled(n) PROVE AnEdge
    BY <1>1, <2>7, MisleadingKeepsEdges
  <2>4. ASSUME faults'.delay = 0, NEW n \in Notifs, NEW r \in Rows, Written(n, r) PROVE AnEdge
    BY <1>1, <2>4, WriteKeepsEdges
  <2>5. ASSUME NEW S \in SUBSET Notifs, NEW later \in SUBSET Notifs, Stored(S, later) PROVE AnEdge
    BY <2>5, StoringKeepsEdges DEF AnEdge
  <2>6. QED
    BY <1>s, <2>1, <2>2, <2>3, <2>4, <2>5, <2>7, StepEffect DEF Effect
<1>3. QED
  BY <1>1, <1>2 DEF AnEdge, Tidy!Next

\* One worker, no second assignment: the whole of reading, sending, writing,
\* republishing, listing, resetting, crashing and cancelling implements the
\* life cycle a client and a recipient see, step by step: statuses move along
\* its edges, the provider takes what is processing, and again only after a
\* mishap for each time.
THEOREM LifeCycleKept == OneWorker => (Safety => KeepsLifeCycle)
<1> SUFFICES ASSUME NEW w, Alone(w) PROVE Safety => KeepsLifeCycle
  BY DEF OneWorker
<1> DEFINE Inv == Serene(w) /\ \A n \in Notifs : Paid(w, n)
<1>1. Init => Inv /\ Tidy!Init
  <2>1. Init => Tidy!Init
    BY KindFacts DEF Init, StoreInit, ConsumerInit, FaultsInit, NoRow, Mishaps, Tidy!Init, Status
  <2>2. QED
    BY <2>1, SereneInit, PaidInit
<1>2. Inv /\ [Next]_vars => Inv' /\ [Tidy!Next]_Tidy!vars
  <2>1. Inv /\ [Next]_vars => Inv'
    BY SereneStep, PaidStep DEF Serene
  <2>2. QED
    BY <2>1, EdgesStep
<1>3. QED
  BY <1>1, <1>2, PTL DEF Safety, KeepsLifeCycle, Tidy!Spec

-----------------------------------------------------------------------------
(* CountersAgree.                                                          *)

\* Without a mishap nothing errs and nothing ends.
LEMMA NoMishap ==
  ASSUME NEW w, Alone(w), TypeInv, CalmPlace(w), [Next]_vars, Mishaps' = 0
  PROVE  /\ Mishaps = 0 /\ Calm /\ stopping = {}
         /\ ~Spend("error") /\ ~Exit(w) /\ ~Crash(w) /\ ~Stop(w) /\ ~ApiCrash
<1>1. Mishaps = 0 /\ Calm
  BY FaultsGrow, CalmOrMishap
<1>2. \A k \in {"error", "crash", "stop"} : ~Spend(k)
  BY <1>1, MishapSpent
<1>3. QED
  BY <1>1, <1>2 DEF CalmPlace, Exit, Crash, Stop, ApiCrash

\* In the calm what is delivered or failed stays as it is.
LEMMA SettledStays ==
  ASSUME NEW w, Alone(w), Serene(w), [Next]_vars, Calm,
         NEW n \in Notifs, row[n].status \in {"delivered", "failed"}
  PROVE  row'[n] = row[n]
<1>s. Sorts(w) /\ LifeInv /\ TypeInv /\ Steady(w) /\ InStep(w, n)
  BY SortsHold DEF Serene, Steady, LifeInv
<1>1. CASE row[n].status = "delivered"
  BY <1>1, <1>s, DeliveredStays DEF Calm
<1>2. CASE row[n].status = "failed"
  <2>1. Tokens(w, n) = {}
    BY <1>2 DEF Serene, FailedRests
  <2>2. ~At(w, "mark", n) /\ ~At(w, "settle", n)
    <3>1. ASSUME At(w, "mark", n) \/ At(w, "settle", n) PROVE cons[w].off \in Tokens(w, n)
      BY <1>s, <3>1 DEF Sorts, Tokens, Live, Msg, At, Busy
    <3>2. QED
      BY <2>1, <3>1
  <2>3. ~Resets(w, n)
    BY <1>2, <1>s, ResetIsOver DEF Calm
  <2>4. ~CanCancel(row[n]) /\ row[n] # NoRow
    BY <1>2 DEF CanCancel, NoRow
  <2>5. Rewritten(w, n)
    BY <1>s, RowChange
  <2>6. QED
    BY <2>2, <2>3, <2>4, <2>5 DEF Rewritten
<1>3. QED
  BY <1>1, <1>2

\* And only the handler that settles a row makes it so.
LEMMA SettledEffect ==
  ASSUME NEW w, Alone(w), Serene(w), [Next]_vars, Calm,
         NEW n \in Notifs, row'[n].status \in {"delivered", "failed"}, row'[n] # row[n]
  PROVE  ConsumerStep(w) /\ At(w, "settle", n) /\ row'[n] = cons[w].copy
<1>s. /\ Sorts(w) /\ LifeInv /\ TypeInv /\ row \in [Notifs -> Rows]
  BY SortsHold DEF Serene, Steady, LifeInv, TypeInv, TypeOK, StoreType
<1>1. At(w, "mark", n) => cons[w].copy.status = "processing"
  BY <1>s DEF LifeInv, CopiesSettle, At, Sorts
<1>2. Resets(w, n) => row'[n].status = "pending"
  BY <1>s, ResetsPending DEF Sorts
<1>3. [row[n] EXCEPT !.status = "cancelled"].status = "cancelled"
  BY <1>s DEF Rows
<1>4. \A later \in BOOLEAN : NewNotification(later).status \in {"pending", "scheduled"}
  BY DEF NewNotification
<1>5. QED
  BY <1>1, <1>2, <1>3, <1>4, <1>s, RowChange DEF Rewritten

\* The counters move when the handler or a cancel request counts.
LEMMA CounterEffect ==
  ASSUME NEW w, Alone(w), TypeInv, [Next]_vars, NEW s \in {"delivered", "failed", "cancelled"},
         batch'[s] # batch[s]
  PROVE  \/ ConsumerStep(w) /\ cons[w].pc = "count"
         \/ s = "cancelled" /\ \E q \in Requests : CancelCount(q)
<1>s. Sorts(w) /\ batch \in [{"pending", "delivered", "failed", "cancelled"} -> Int]
  BY SortsHold DEF TypeInv, TypeOK, StoreType
<1>1. CASE ConsumerStep(w)
  BY <1>1, LoopView DEF LoopStep, Fetched, Loaded, Marked, Sent, Settled, Counted, Republished, Committed
<1>2. CASE SchedulerStep(w)
  BY <1>2 DEF SchedulerStep, ListDue, ListStuck, List, EndTick, Reset, Enqueue, storeVars
<1>3. CASE ApiStep
  <2>1. ASSUME NEW p, batch' = [batch EXCEPT !.pending = p] PROVE FALSE
    BY <1>s, <2>1
  <2>2. ASSUME NEW q \in Requests, CancelCount(q), s # "cancelled" PROVE FALSE
    <3>1. CASE IncrementBatchCounter(req[q].id, "cancelled")
      BY <1>s, <2>2, <3>1 DEF IncrementBatchCounter
    <3>2. QED
      BY <2>2, <3>1 DEF CancelCount
  <2>3. QED
    BY <1>3, <2>1, <2>2 DEF ApiStep, Create, CreateBatch, Insert, InsertBatch, PublishNew, CancelStep,
       CancelRead, CancelUpdate, ApiCrash, storeVars
<1>4. QED
  BY <1>1, <1>2, <1>3, Steps DEF Exit, Crash, Perish, GroupStep, Stop, FallDue, Age, vars, storeVars

\* What the handler has settled and not counted yet.
Counting(w, s) == cons[w].pc = "count" /\ cons[w].copy.status = s

\* The counter of s is right but for what is just being counted.
Tallied(w, s) == Cardinality(InBatch(s)) = batch[s] + (IF Counting(w, s) THEN 1 ELSE 0)

\* What is being counted is in the batch and settled.
CountsSettled(w) ==
    cons[w].pc = "count" => /\ Msg(w) \in Batched /\ row[Msg(w)].status = cons[w].copy.status
                            /\ cons[w].copy.status \in {"delivered", "failed"}

\* The steps of the handler leave no doubt once nothing can err.
LEMMA HandlerTallies ==
  ASSUME NEW w, Alone(w), Serene(w), CountsSettled(w), [Next]_vars, Mishaps' = 0, ConsumerStep(w),
         NEW s \in {"delivered", "failed"}, Tallied(w, s)
  PROVE  CountsSettled(w)' /\ Tallied(w, s)'
<1>s. /\ Sorts(w) /\ LifeInv /\ TypeInv /\ \A n \in Notifs : InStep(w, n)
      /\ row \in [Notifs -> Rows] /\ batch \in [{"pending", "delivered", "failed", "cancelled"} -> Int]
      /\ Calm /\ stopping = {} /\ ~Spend("error")
  BY SortsHold, NoMishap DEF Serene, Steady, LifeInv, TypeInv, TypeOK, StoreType
<1>1. CASE Settled(w)
  <2> DEFINE n == Msg(w)
             r == cons[w].copy
  <2>1. /\ n \in Notifs /\ Msg(w)' = n /\ UNCHANGED batch /\ ~Counting(w, s)
        /\ Stores(n, r) /\ row[n].status = "processing" /\ row'[n] = r
        /\ r.status \in {"processing", "delivered", "failed"}
    <3>1. n \in Notifs /\ Msg(w)' = n /\ At(w, "settle", n)
      BY <1>1, <1>s, MsgStays DEF Settled, Stands, Busy, Sorts, At
    <3>2. Stores(n, r)
      BY <1>1, <1>s DEF Settled, Struck
    <3>3. row[n].status = "processing" /\ r.status \in {"processing", "delivered", "failed"}
      BY <1>s, <3>1 DEF InStep, HandlerAhead, Calm, LifeInv, CopiesSettle, At, Sorts
    <3>4. QED
      BY <1>1, <1>s, <3>1, <3>2, <3>3 DEF Settled, Stores, Counting
  <2>2. Cardinality(InBatch(s)) = batch[s]
    BY <1>s, <2>1 DEF Tallied
  <2>3. CASE n \in Batched /\ r.status = s
    <3>1. cons'[w].pc = "count" /\ cons'[w].copy = r
      BY <1>1, <2>3 DEF Settled
    <3>2. InBatch(s)' = InBatch(s) \cup {n} /\ n \notin InBatch(s)
      BY <1>s, <2>1, <2>3, BatchedAssumption DEF InBatch, Stores
    <3>3. IsFiniteSet(InBatch(s))
      BY BatchedAssumption, FS_Subset DEF InBatch
    <3>4. Cardinality(InBatch(s)') = Cardinality(InBatch(s)) + 1
      BY <3>2, <3>3, FS_AddElement
    <3>5. QED
      BY <2>1, <2>2, <2>3, <3>1, <3>4 DEF CountsSettled, Tallied, Counting
  <2>4. CASE ~(n \in Batched /\ r.status = s)
    <3>1. InBatch(s)' = InBatch(s)
      BY <1>s, <2>1, <2>4, BatchedAssumption DEF InBatch, Stores
    <3>2. ~Counting(w, s)' /\ CountsSettled(w)'
      BY <1>1, <2>1, <2>4 DEF Settled, Counting, CountsSettled
    <3>3. QED
      BY <2>1, <2>2, <3>1, <3>2 DEF Tallied
  <2>5. QED
    BY <2>3, <2>4
<1>2. CASE ~Settled(w)
  <2>1. LoopStep(w)
    BY <1>s, LoopView
  <2>2. InBatch(s)' = InBatch(s)
    <3>1. \A n \in Notifs : ~At(w, "settle", n)
      BY <1>2, <2>1 DEF LoopStep, Fetched, Loaded, Marked, Sent, Counted, Republished, Committed, At
    <3>2. \A n \in Notifs : row'[n].status = s <=> row[n].status = s
      BY <1>s, <3>1, SettledStays, SettledEffect
    <3>3. QED
      BY <3>2, BatchedAssumption DEF InBatch
  <2>3. cons'[w].pc # "count"
    BY <1>2, <2>1 DEF LoopStep, Fetched, Loaded, Marked, Sent, Counted, Republished, Committed, Idle
  <2>4. CASE Counted(w)
    <3>1. batch' = [batch EXCEPT ![cons[w].copy.status] = @ + 1, !["pending"] = @ - 1]
      BY <1>s, <2>4 DEF Counted, Struck, CountsSettled, IncrementBatchCounter, Terminal
    <3>2. batch'[s] = batch[s] + (IF Counting(w, s) THEN 1 ELSE 0)
      BY <1>s, <2>4, <3>1 DEF Counted, Counting, CountsSettled
    <3>3. QED
      BY <2>2, <2>3, <3>2, <1>s DEF Tallied, Counting, CountsSettled
  <2>5. CASE ~Counted(w)
    <3>1. cons[w].pc # "count" /\ UNCHANGED batch
      BY <1>2, <2>1, <2>5 DEF LoopStep, Fetched, Loaded, Marked, Sent, Republished, Committed
    <3>2. QED
      BY <2>2, <2>3, <3>1 DEF Tallied, Counting, CountsSettled
  <2>6. QED
    BY <2>4, <2>5
<1>3. QED
  BY <1>1, <1>2

\* The others leave the tally alone.
LEMMA OthersTally ==
  ASSUME NEW w, Alone(w), Serene(w), CountsSettled(w), [Next]_vars, Mishaps' = 0, ~ConsumerStep(w),
         NEW s \in {"delivered", "failed"}, Tallied(w, s)
  PROVE  CountsSettled(w)' /\ Tallied(w, s)'
<1>s. Sorts(w) /\ TypeInv /\ Calm /\ ~Exit(w) /\ ~Crash(w)
  BY SortsHold, NoMishap DEF Serene, Steady, LifeInv
<1>1. cons'[w] = cons[w] /\ (Busy(w) => Msg(w)' = Msg(w) /\ Msg(w) \in Notifs)
  <2>1. UNCHANGED cons
    BY <1>s, Steps DEF Stop, GroupStep, ApiStep, FallDue, Age, consVars, vars
  <2>2. QED
    BY <1>s, <2>1, MsgStays DEF Sorts
<1>2. InBatch(s)' = InBatch(s)
  <2>1. \A n \in Notifs : row'[n].status = s <=> row[n].status = s
    BY <1>s, SettledStays, SettledEffect
  <2>2. QED
    BY <2>1, BatchedAssumption DEF InBatch
<1>3. batch'[s] = batch[s]
  BY <1>s, CounterEffect
<1>4. CountsSettled(w)'
  BY <1>1, <1>s, SettledStays DEF CountsSettled, Busy
<1>5. QED
  BY <1>1, <1>2, <1>3, <1>4 DEF Tallied, Counting

\* How a cancel request stands: counted after it was answered, or with nothing
\* to count.
Asked(q) == /\ req[q].pc # "new" => req[q].id \in Notifs
            /\ req[q].pc = "count" => q \in cancelOk /\ req[q].id \in Batched
            /\ q \in cancelOk => req[q].pc \in {"count", "done"}

\* The confirmed requests for the batch whose count is done.
Answered == {q \in cancelOk : req[q].id \in Batched /\ req[q].pc = "done"}

\* A client was told that n is cancelled.
Confirmed(n) == \E q \in cancelOk : req[q].id = n

\* The counter has every confirmed request whose count is done, and every
\* cancelled row a request that was confirmed.
CancelsAgree == /\ IsFiniteSet(cancelOk)
                /\ \A q \in Requests : Asked(q)
                /\ batch.cancelled = Cardinality(Answered)
                /\ \A n \in Notifs : row[n].status = "cancelled" => Confirmed(n)

\* What a request that is not turned down does.
LEMMA RequestView ==
  ASSUME TypeInv, NEW q \in Requests, Asked(q), CancelStep(q), ~Spend("error")
  PROVE  /\ req' \in [Requests -> [pc : RequestPCs, id : Notifs \cup {NoNotif}]]
         /\ \A p \in Requests \ {q} : req'[p] = req[p]
         /\ \/ /\ req[q].pc = "new" /\ req'[q].pc = "update" /\ req'[q].id \in Notifs
               /\ UNCHANGED <<cancelOk, batch>>
            \/ /\ req[q].pc = "update" /\ req'[q].id = req[q].id /\ UNCHANGED batch
               /\ cancelOk' = cancelOk \cup {q} /\ row'[req[q].id].status = "cancelled"
               /\ req'[q].pc = IF req[q].id \in Batched THEN "count" ELSE "done"
            \/ /\ req[q].pc = "update" /\ req'[q].pc = "done" /\ req'[q].id = req[q].id
               /\ UNCHANGED <<cancelOk, batch>>
            \/ /\ req[q].pc = "count" /\ req'[q].pc = "done" /\ req'[q].id = req[q].id
               /\ IncrementBatchCounter(req[q].id, "cancelled") /\ UNCHANGED cancelOk
         /\ \A n \in Notifs : row'[n] # row[n] => req[q].pc = "update" /\ n = req[q].id /\ q \in cancelOk'
<1>1. /\ req \in [Requests -> [pc : RequestPCs, id : Notifs \cup {NoNotif}]]
      /\ row \in [Notifs -> Rows]
  BY DEF TypeInv, TypeOK, ApiType, StoreType
<1>2. \A pc \in RequestPCs : Answer(q, pc) =>
         /\ req' \in [Requests -> [pc : RequestPCs, id : Notifs \cup {NoNotif}]]
         /\ \A p \in Requests \ {q} : req'[p] = req[p]
         /\ req'[q].pc = pc /\ req'[q].id = req[q].id
  BY <1>1 DEF Answer
<1>3. {"new", "update", "count", "done"} \subseteq RequestPCs
  BY DEF RequestPCs
<1>4. CASE CancelRead(q)
  <2>1. PICK n \in Notifs : req' = [req EXCEPT ![q] = [pc |-> "update", id |-> n]]
    BY <1>4 DEF CancelRead
  <2>2. [pc |-> "update", id |-> n] \in [pc : RequestPCs, id : Notifs \cup {NoNotif}]
    BY <1>3
  <2>3. /\ req' \in [Requests -> [pc : RequestPCs, id : Notifs \cup {NoNotif}]]
        /\ \A p \in Requests \ {q} : req'[p] = req[p]
        /\ req'[q].pc = "update" /\ req'[q].id \in Notifs
    BY <1>1, <2>1, <2>2
  <2>4. QED
    BY <1>4, <2>3 DEF CancelRead, storeVars
<1>5. CASE CancelUpdate(q)
  <2> DEFINE n == req[q].id
             pc == IF n \in Batched THEN "count" ELSE "done"
  <2>1. pc \in RequestPCs
    BY <1>3
  <2>2. CASE CancelRow(n) /\ cancelOk' = cancelOk \cup {q} /\ Answer(q, pc)
    <3>1. n \in Notifs
      BY <1>5 DEF CancelUpdate, Asked
    <3>2. row'[n].status = "cancelled" /\ \A m \in Notifs : row'[m] # row[m] => m = n
      BY <1>1, <2>2, <3>1 DEF CancelRow, UpdateStatus, Rows
    <3>3. QED
      BY <1>2, <1>5, <2>1, <2>2, <3>2 DEF CancelUpdate
  <2>3. CASE Answer(q, "done") /\ UNCHANGED <<row, cancelOk>>
    BY <1>2, <1>3, <1>5, <2>3 DEF CancelUpdate
  <2>4. QED
    BY <1>5, <2>2, <2>3 DEF CancelUpdate
<1>6. CASE CancelCount(q)
  BY <1>2, <1>3, <1>6 DEF CancelCount
<1>7. QED
  BY <1>4, <1>5, <1>6 DEF CancelStep

\* What else there is leaves requests and cancelled rows alone.
LEMMA OthersCancel ==
  ASSUME NEW w, Alone(w), LifeInv, CalmPlace(w), [Next]_vars, Mishaps' = 0,
         \A q \in Requests : ~CancelStep(q)
  PROVE  /\ UNCHANGED <<req, cancelOk>>
         /\ \A n \in Notifs : row'[n].status = "cancelled" => row[n].status = "cancelled"
<1>s. /\ Sorts(w) /\ TypeInv /\ row \in [Notifs -> Rows] /\ ~ApiCrash
  BY SortsHold, NoMishap DEF LifeInv, TypeInv, TypeOK, StoreType
<1>1. UNCHANGED <<req, cancelOk>>
  BY <1>s, Steps DEF apiVars, Exit, Crash, Perish, GroupStep, Stop, ApiStep, Create, CreateBatch,
     PublishNew, FallDue, Age, vars
<1>2. \A later \in BOOLEAN : NewNotification(later).status # "cancelled"
  BY DEF NewNotification
<1>3. ASSUME NEW n \in Notifs, row'[n].status = "cancelled", row'[n] # row[n], ~ApiStep PROVE FALSE
  <2>1. Rewritten(w, n)
    BY <1>s, RowChange
  <2>2. Resets(w, n) => row'[n].status = "pending"
    BY <1>s, ResetsPending DEF Sorts
  <2>3. At(w, "mark", n) \/ At(w, "settle", n) => cons[w].copy.status # "cancelled"
    BY <1>s DEF LifeInv, CopiesSettle, At, Sorts
  <2>4. QED
    BY <1>3, <2>1, <2>2, <2>3 DEF Rewritten
<1>4. CASE ApiStep
  <2>1. ASSUME NEW n \in Notifs, NEW m \in Notifs, Create(m), row'[n] # row[n]
        PROVE  row'[n].status # "cancelled"
    BY <1>2, <1>s, <2>1 DEF Create, Insert
  <2>2. ASSUME NEW n \in Notifs, CreateBatch, row'[n] # row[n]
        PROVE  row'[n].status # "cancelled"
    <3>1. PICK later \in SUBSET Batched :
            row' = [m \in Notifs |-> IF m \in Batched THEN NewNotification(m \in later) ELSE row[m]]
      BY <2>2 DEF CreateBatch, InsertBatch
    <3>2. row'[n] = NewNotification(n \in later)
      BY <2>2, <3>1
    <3>3. QED
      BY <3>2 DEF NewNotification
  <2>3. (\E m \in Notifs : Create(m)) \/ CreateBatch \/ UNCHANGED row
    BY <1>4, <1>s DEF ApiStep, PublishNew, storeVars
  <2>4. QED
    BY <1>1, <2>1, <2>2, <2>3
<1>5. QED
  BY <1>1, <1>3, <1>4

\* A request that is not turned down keeps the tally of the cancelled.
LEMMA RequestTallies ==
  ASSUME NEW w, Alone(w), TypeInv, CalmPlace(w), [Next]_vars, Mishaps' = 0, CancelsAgree,
         NEW q \in Requests, CancelStep(q)
  PROVE  CancelsAgree'
<1>s. /\ cancelOk \subseteq Requests /\ req \in [Requests -> [pc : RequestPCs, id : Notifs \cup {NoNotif}]]
      /\ batch \in [{"pending", "delivered", "failed", "cancelled"} -> Int]
      /\ \A p \in Requests : Asked(p)
      /\ ~Spend("error")
  BY NoMishap DEF TypeInv, TypeOK, ApiType, StoreType, CancelsAgree
<1>v. /\ req' \in [Requests -> [pc : RequestPCs, id : Notifs \cup {NoNotif}]]
      /\ \A p \in Requests \ {q} : req'[p] = req[p]
      /\ \A n \in Notifs : row'[n] # row[n] => req[q].pc = "update" /\ n = req[q].id /\ q \in cancelOk'
  BY <1>s, RequestView
<1>f. IsFiniteSet(cancelOk) /\ IsFiniteSet(Answered) /\ Cardinality(Answered) \in Nat
      /\ batch.cancelled = Cardinality(Answered)
  BY FS_Subset, FS_CardinalityType DEF CancelsAgree, Answered
<1>c. ASSUME cancelOk \subseteq cancelOk', q \in cancelOk => req'[q].id = req[q].id,
             req[q].pc = "update" /\ q \in cancelOk' => req'[q].id = req[q].id
      PROVE  \A n \in Notifs : row'[n].status = "cancelled" => Confirmed(n)'
  <2>1. ASSUME NEW n \in Notifs, row'[n].status = "cancelled", row'[n] = row[n] PROVE Confirmed(n)'
    <3>1. PICK p \in cancelOk : req[p].id = n
      BY <2>1 DEF CancelsAgree, Confirmed
    <3>2. p \in cancelOk' /\ req'[p].id = n
      BY <1>c, <1>s, <1>v, <3>1
    <3>3. QED
      BY <3>2 DEF Confirmed
  <2>2. ASSUME NEW n \in Notifs, row'[n] # row[n] PROVE Confirmed(n)'
    BY <1>c, <1>v, <2>2 DEF Confirmed
  <2>3. QED
    BY <2>1, <2>2
<1>1. CASE /\ req[q].pc = "new" /\ req'[q].pc = "update" /\ req'[q].id \in Notifs
           /\ UNCHANGED <<cancelOk, batch>>
  <2>1. q \notin cancelOk
    BY <1>1, <1>s DEF Asked
  <2>2. Answered' = Answered
    BY <1>1, <1>s, <1>v, <2>1 DEF Answered
  <2>3. \A p \in Requests : Asked(p)'
    BY <1>1, <1>s, <1>v, <2>1 DEF Asked
  <2>4. QED
    BY <1>1, <1>c, <1>f, <2>1, <2>2, <2>3 DEF CancelsAgree
<1>2. CASE /\ req[q].pc = "update" /\ req'[q].id = req[q].id /\ UNCHANGED batch
           /\ cancelOk' = cancelOk \cup {q}
           /\ req'[q].pc = IF req[q].id \in Batched THEN "count" ELSE "done"
  <2>1. q \notin cancelOk
    BY <1>2, <1>s DEF Asked
  <2>2. Answered' = Answered
    BY <1>2, <1>s, <1>v, <2>1 DEF Answered
  <2>3. \A p \in Requests : Asked(p)'
    BY <1>2, <1>s, <1>v, <2>1 DEF Asked
  <2>4. IsFiniteSet(cancelOk')
    BY <1>2, <1>f, FS_AddElement
  <2>5. QED
    BY <1>2, <1>c, <1>f, <2>1, <2>2, <2>3, <2>4 DEF CancelsAgree
<1>3. CASE /\ req[q].pc = "update" /\ req'[q].pc = "done" /\ req'[q].id = req[q].id
           /\ UNCHANGED <<cancelOk, batch>>
  <2>1. q \notin cancelOk
    BY <1>3, <1>s DEF Asked
  <2>2. Answered' = Answered
    BY <1>3, <1>s, <1>v, <2>1 DEF Answered
  <2>3. \A p \in Requests : Asked(p)'
    BY <1>3, <1>s, <1>v, <2>1 DEF Asked
  <2>4. QED
    BY <1>3, <1>c, <1>f, <2>1, <2>2, <2>3 DEF CancelsAgree
<1>4. CASE /\ req[q].pc = "count" /\ req'[q].pc = "done" /\ req'[q].id = req[q].id
           /\ IncrementBatchCounter(req[q].id, "cancelled") /\ UNCHANGED cancelOk
  <2>1. q \in cancelOk /\ req[q].id \in Batched /\ q \notin Answered
    BY <1>4, <1>s DEF Asked, Answered
  <2>2. Answered' = Answered \cup {q}
    BY <1>4, <1>s, <1>v, <2>1 DEF Answered
  <2>3. \A p \in Requests : Asked(p)'
    BY <1>4, <1>s, <1>v, <2>1 DEF Asked
  <2>4. batch'.cancelled = batch.cancelled + 1
    BY <1>4, <1>s, <2>1 DEF IncrementBatchCounter, Terminal
  <2>5. Cardinality(Answered') = Cardinality(Answered) + 1
    BY <1>f, <2>1, <2>2, FS_AddElement
  <2>6. QED
    BY <1>4, <1>c, <1>f, <2>3, <2>4, <2>5 DEF CancelsAgree
<1>5. QED
  BY <1>1, <1>2, <1>3, <1>4, <1>s, RequestView

\* As long as there was no mishap rows, counters and requests agree but for
\* what is just being counted.
Booked(w) == Mishaps = 0 => /\ CountsSettled(w) /\ Tallied(w, "delivered") /\ Tallied(w, "failed")
                            /\ CancelsAgree

\* The handler counts nothing as cancelled.
LEMMA CancelledCounter ==
  ASSUME NEW w, Alone(w), TypeInv, CountsSettled(w), [Next]_vars, \A q \in Requests : ~CancelStep(q)
  PROVE  batch'.cancelled = batch.cancelled
<1>s. batch \in [{"pending", "delivered", "failed", "cancelled"} -> Int]
  BY DEF TypeInv, TypeOK, StoreType
<1>1. CASE ConsumerStep(w) /\ cons[w].pc = "count"
  <2>1. Counted(w)
    BY <1>1, LoopView DEF LoopStep, Fetched, Loaded, Marked, Sent, Settled, Republished, Committed
  <2>2. CASE IncrementBatchCounter(Msg(w), cons[w].copy.status)
    BY <1>1, <1>s, <2>2 DEF IncrementBatchCounter, CountsSettled
  <2>3. QED
    BY <2>1, <2>2 DEF Counted
<1>2. CASE ~(ConsumerStep(w) /\ cons[w].pc = "count")
  <2>1. batch'["cancelled"] = batch["cancelled"]
    BY <1>2, CounterEffect DEF CancelStep
  <2>2. QED
    BY <2>1
<1>3. QED
  BY <1>1, <1>2

\* Every step keeps the books.
LEMMA BookedStep ==
  ASSUME NEW w, Alone(w), Serene(w), Booked(w), [Next]_vars
  PROVE  Booked(w)'
<1> SUFFICES ASSUME Mishaps' = 0
             PROVE  /\ CountsSettled(w)' /\ Tallied(w, "delivered")' /\ Tallied(w, "failed")'
                    /\ CancelsAgree'
  BY DEF Booked
<1>s. LifeInv /\ TypeInv /\ CalmPlace(w) /\ Mishaps = 0
  BY NoMishap DEF Serene, Steady, LifeInv
<1>1. \A s \in {"delivered", "failed"} : CountsSettled(w)' /\ Tallied(w, s)'
  BY <1>s, HandlerTallies, OthersTally DEF Booked
<1>2. CASE \E q \in Requests : CancelStep(q)
  BY <1>1, <1>2, <1>s, RequestTallies DEF Booked
<1>3. CASE \A q \in Requests : ~CancelStep(q)
  <2>1. /\ UNCHANGED <<req, cancelOk>>
        /\ \A n \in Notifs : row'[n].status = "cancelled" => row[n].status = "cancelled"
    BY <1>3, <1>s, OthersCancel
  <2>2. batch'.cancelled = batch.cancelled
    BY <1>3, <1>s, CancelledCounter DEF Booked
  <2>3. CancelsAgree'
    BY <1>s, <2>1, <2>2 DEF Booked, CancelsAgree, Asked, Answered, Confirmed
  <2>4. QED
    BY <1>1, <2>3
<1>4. QED
  BY <1>2, <1>3

\* With the books kept the counters agree when nobody is counting.
LEMMA BookedAgree ==
  ASSUME NEW w, Alone(w), TypeInv, Booked(w)
  PROVE  CountersAgree
<1> SUFFICES ASSUME Mishaps = 0, Quiet
             PROVE  /\ batch.delivered = Cardinality(InBatch("delivered"))
                    /\ batch.failed = Cardinality(InBatch("failed"))
                    /\ batch.cancelled = Cardinality({q \in cancelOk : req[q].id \in Batched})
                    /\ InBatch("cancelled") \subseteq {req[q].id : q \in cancelOk}
  BY DEF CountersAgree
<1>s. /\ Sorts(w) /\ cancelOk \subseteq Requests
      /\ batch \in [{"pending", "delivered", "failed", "cancelled"} -> Int]
  BY SortsHold DEF TypeInv, TypeOK, StoreType, ApiType
<1>1. ASSUME NEW s \in {"delivered", "failed"}, Tallied(w, s) PROVE batch[s] = Cardinality(InBatch(s))
  <2>1. ~Counting(w, s)
    BY <1>s DEF Quiet, Busy, Counting, Sorts
  <2>2. QED
    BY <1>1, <1>s, <2>1 DEF Tallied
<1>2. Answered = {q \in cancelOk : req[q].id \in Batched}
  BY <1>s DEF Booked, CancelsAgree, Asked, Answered, Quiet
<1>3. InBatch("cancelled") \subseteq {req[q].id : q \in cancelOk}
  BY BatchedAssumption DEF Booked, CancelsAgree, Confirmed, InBatch
<1>4. batch["delivered"] = Cardinality(InBatch("delivered")) /\ batch["failed"] = Cardinality(InBatch("failed"))
  BY <1>1 DEF Booked
<1>5. QED
  BY <1>2, <1>3, <1>4 DEF Booked, CancelsAgree

\* Nothing is booked to begin with.
LEMMA BookedInit == ASSUME NEW w, Alone(w), Init PROVE Booked(w)
<1>1. CountsSettled(w) /\ CancelsAgree
  <2>1. Answered = {} /\ cancelOk = {}
    BY DEF Init, ApiInit, Answered
  <2>2. QED
    BY <2>1, FS_EmptySet DEF Alone, Init, StoreInit, ApiInit, ConsumerInit, Idle, NoRow, CountsSettled,
       CancelsAgree, Asked
<1>2. ASSUME NEW s \in {"delivered", "failed"} PROVE Tallied(w, s)
  <2>1. InBatch(s) = {} /\ ~Counting(w, s) /\ batch[s] = 0
    BY BatchedAssumption DEF Alone, Init, StoreInit, ConsumerInit, Idle, NoRow, InBatch, Counting
  <2>2. QED
    BY <2>1, FS_EmptySet DEF Tallied
<1>3. QED
  BY <1>1, <1>2 DEF Booked

\* One worker and no mishap: when neither a handler nor a cancel request is at
\* work, the counters of the batch are what the rows and the confirmed
\* requests say, though each is moved in a statement of its own after the row.
THEOREM CountersKept == OneWorker => (Safety => []CountersAgree)
<1> SUFFICES ASSUME NEW w, Alone(w) PROVE Safety => []CountersAgree
  BY DEF OneWorker
<1> DEFINE Inv == Serene(w) /\ Booked(w)
<1>1. Init => Inv
  BY SereneInit, BookedInit
<1>2. Inv /\ [Next]_vars => Inv'
  BY SereneStep, BookedStep
<1>3. Inv => CountersAgree
  BY BookedAgree DEF Serene, Steady, LifeInv
<1>4. QED
  BY <1>1, <1>2, <1>3, PTL DEF Safety
====
