---- MODULE ProviderProofs ----
(***************************************************************************)
(* What one worker asks of the provider, for any number of senders and     *)
(* notifications and any answers: the budget of posts, what a second       *)
(* taking takes, what a delivered row means, and that Send keeps the       *)
(* contract the model of the delivery path is built on.                    *)
(***************************************************************************)
EXTENDS Provider, TLAPS

Budget(n) == priorityMaxRetries[Priority[n]]

\* A notification that the provider is still to be asked for: an attempt is
\* left, every earlier post is counted in the row, every earlier taking went
\* without a clear answer, and there was no refusal.
Askable(n) ==
    /\ row[n].retry < Budget(n)
    /\ seen[n].posts <= row[n].retry
    /\ seen[n].taken <= seen[n].muddled
    /\ seen[n].refused = FALSE

\* A notification whose call has an error or a success in hand: the row has
\* not counted the post of this call yet.
Answered(n, c) ==
    /\ row[n].retry < Budget(n)
    /\ seen[n].posts <= row[n].retry + 1
    /\ c.err = "" => c.fate # "open" /\ (seen[n].taken > 0 \/ seen[n].misled)
    /\ c.err # "" => seen[n].taken <= seen[n].muddled
    /\ seen[n].refused = TRUE => c.err = "permanent"

\* A call holds its notification alone, and off the topic.
CallInv(s) ==
    LET c == call[s] IN
    /\ c.pc = "idle" => c.n = NoNotif /\ c.fate = "open"
    /\ c.pc # "idle" =>
         /\ c.n \in Notifs
         /\ c.n \notin queue
         /\ row[c.n].status = "processing"
         /\ \A t \in Senders : call[t].n = c.n => t = s
    /\ c.pc \in {"asked", "flight"} => c.err = "" /\ c.fate = "open" /\ Askable(c.n)
    /\ c.pc \in {"answered", "back"} => Answered(c.n, c)

NotifInv(n) ==
    /\ seen[n].posts <= Budget(n)
    /\ seen[n].taken <= 1 + seen[n].muddled
    /\ n \in queue => row[n].status \in {"pending", "processing"} /\ Askable(n)
    /\ row[n].status = "delivered" => seen[n].taken > 0 \/ seen[n].misled
    /\ row[n].status = "failed" => seen[n].taken <= seen[n].muddled

ProviderInv ==
    /\ TypeOK
    /\ \A s \in Senders : CallInv(s)
    /\ \A n \in Notifs : NotifInv(n)

USE PriorityAssumption, NoNotifAssumption

\* Every priority is entitled to two attempts at least.
LEMMA BudgetPositive == \A n \in Notifs : Budget(n) \in Nat /\ Budget(n) > 0
BY DEF Budget, priorityMaxRetries

\* The kinds of the numbers and flags kept of a notification.
LEMMA Kinds ==
  ASSUME TypeOK, NEW n \in Notifs
  PROVE  /\ row[n] \in Rows /\ row[n].retry \in Nat
         /\ seen[n] \in [posts : Nat, taken : Nat, muddled : Nat, refused : BOOLEAN, misled : BOOLEAN]
         /\ seen[n].posts \in Nat /\ seen[n].taken \in Nat /\ seen[n].muddled \in Nat
         /\ seen[n].refused \in BOOLEAN /\ seen[n].misled \in BOOLEAN
         /\ Budget(n) \in Nat /\ Budget(n) > 0
BY BudgetPositive DEF TypeOK, Rows

\* At the start the provider has seen nothing.
LEMMA ProviderStart == Init => ProviderInv
<1> SUFFICES ASSUME Init PROVE ProviderInv
  OBVIOUS
<1>1. TypeOK
  <2>1. BreakerType
    BY DEF Init, BreakerInit, BreakerType, Counts, MaxRequests
  <2>2. row \in [Notifs -> Rows] /\ queue \subseteq Notifs /\ health \in {"up", "ailing"}
    BY DEF Init, Rows, NoRow
  <2>3. call \in [Senders -> [pc : CallPCs, n : Notifs \cup {NoNotif},
                              err : Errors, fate : Fates]]
    BY DEF Init, NoCall, CallPCs, Errors, Fates
  <2>4. seen \in [Notifs -> [posts : Nat, taken : Nat, muddled : Nat, refused : BOOLEAN, misled : BOOLEAN]]
    BY DEF Init, Unseen
  <2>5. QED
    BY <2>1, <2>2, <2>3, <2>4 DEF TypeOK
<1>2. ASSUME NEW s \in Senders PROVE CallInv(s)
  BY DEF Init, CallInv, NoCall
<1>3. ASSUME NEW n \in Notifs PROVE NotifInv(n)
  BY BudgetPositive DEF Init, NotifInv, NoRow, Unseen
<1>4. QED
  BY <1>1, <1>2, <1>3 DEF ProviderInv

\* The breaker's counts stay within their limits, whatever it is asked.
LEMMA BreakerKeepsType ==
  ASSUME BreakerType, NEW s \in Senders, NEW ok \in BOOLEAN,
         Admit(s) \/ Report(s, ok) \/ Timeout \/ Interval \/ UNCHANGED breakerVars
  PROVE  BreakerType'
<1> USE DEF BreakerType, MaxRequests
<1>1. CASE Admit(s)
  BY <1>1 DEF Admit, TurnsAway
<1>2. CASE Report(s, ok)
  <2>1. CASE OnSuccess(s)
    <3>1. CASE breaker.state = "halfOpen" /\ breaker.wins + 1 >= 3
      BY <2>1, <3>1 DEF OnSuccess, NewGeneration, Counts
    <3>2. CASE breaker.state = "halfOpen" /\ breaker.wins + 1 < 3
      <4>1. /\ breaker' = [breaker EXCEPT !.wins = breaker.wins + 1, !.failures = 0]
            /\ tickets' = tickets \ {s}
        BY <2>1, <3>2 DEF OnSuccess
      <4>2. breaker' = [state |-> breaker.state, requests |-> breaker.requests,
                        wins |-> breaker.wins + 1, failures |-> 0]
        BY <4>1
      <4>3. QED
        BY <3>2, <4>1, <4>2
    <3>3. CASE breaker.state # "halfOpen"
      <4>1. /\ breaker' = [state |-> breaker.state, requests |-> breaker.requests,
                            wins |-> breaker.wins, failures |-> 0]
            /\ tickets' = tickets \ {s}
        BY <2>1, <3>3 DEF OnSuccess
      <4>2. QED
        BY <3>3, <4>1
    <3>4. QED
      BY <3>1, <3>2, <3>3
  <2>2. CASE OnFailure(s)
    BY <2>2 DEF OnFailure, NewGeneration, Counts, ReadyToTrip
  <2>3. QED
    BY <1>2, <2>1, <2>2 DEF Report, breakerVars
<1>3. CASE Timeout
  BY <1>3 DEF Timeout, NewGeneration, Counts
<1>4. CASE Interval
  BY <1>4 DEF Interval, Counts
<1>5. QED
  BY <1>1, <1>2, <1>3, <1>4 DEF breakerVars

\* A call whose notification nothing happens to, and which nobody else takes
\* up, stays in order.
LEMMA CallKept ==
  ASSUME TypeOK, NEW s \in Senders, CallInv(s), call'[s] = call[s],
         call[s].pc # "idle" => LET m == call[s].n IN
            /\ m \notin queue' /\ row'[m] = row[m] /\ seen'[m] = seen[m]
            /\ \A t \in Senders : call'[t].n = m => call[t].n = m
  PROVE  CallInv(s)'
<1>1. call[s].pc \in CallPCs
  BY DEF TypeOK
<1>2. CASE call[s].pc = "idle"
  BY <1>2 DEF CallInv
<1>3. CASE call[s].pc # "idle"
  <2> DEFINE m == call[s].n
  <2>1. /\ m \in Notifs /\ row[m].status = "processing"
        /\ \A t \in Senders : call[t].n = m => t = s
    BY <1>3 DEF CallInv
  <2>2. /\ m \notin queue' /\ row'[m] = row[m] /\ seen'[m] = seen[m]
        /\ \A t \in Senders : call'[t].n = m => t = s
    BY <1>3, <2>1
  <2>3. CASE call[s].pc \in {"asked", "flight"}
    <3>1. call[s].err = "" /\ call[s].fate = "open" /\ Askable(m)
      BY <2>3 DEF CallInv
    <3>2. Askable(m)'
      BY <2>2, <3>1 DEF Askable
    <3>3. QED
      BY <2>1, <2>2, <2>3, <3>1, <3>2 DEF CallInv
  <2>4. CASE call[s].pc \in {"answered", "back"}
    <3>1. Answered(m, call[s])
      BY <2>4 DEF CallInv
    <3>2. Answered(m, call[s])'
      BY <2>2, <3>1 DEF Answered
    <3>3. QED
      BY <2>1, <2>2, <2>4, <3>2 DEF CallInv
  <2>5. QED
    BY <1>1, <1>3, <2>3, <2>4 DEF CallPCs
<1>4. QED
  BY <1>2, <1>3

\* A notification nothing happens to stays in order.
LEMMA NotifKept ==
  ASSUME NEW n \in Notifs, NotifInv(n), row'[n] = row[n], seen'[n] = seen[n],
         n \in queue' => n \in queue
  PROVE  NotifInv(n)'
BY DEF NotifInv, Askable

\* A notification that arrives waits alone, with all its attempts.
LEMMA ArriveStep ==
  ASSUME ProviderInv, NEW m \in Notifs, Arrive(m)
  PROVE  ProviderInv'
<1> USE DEF ProviderInv
<1>1. /\ row' = [row EXCEPT ![m] = [status |-> "pending", retry |-> 0]]
      /\ queue' = queue \cup {m}
      /\ seen' = [seen EXCEPT ![m] = Unseen]
      /\ UNCHANGED <<call, health, breaker, tickets>>
  BY DEF Arrive, NewNotification, breakerVars
<1>2. row[m].status \notin {"pending", "processing"}
  BY DEF Arrive, Terminal
<1>3. TypeOK'
  BY <1>1 DEF TypeOK, BreakerType, Rows, Statuses, Unseen
<1>4. ASSUME NEW s \in Senders PROVE CallInv(s)'
  <2>1. call[s].pc # "idle" => call[s].n \in Notifs /\ call[s].n # m /\ call[s].n \notin queue
    BY <1>2 DEF CallInv
  <2>2. \A n \in Notifs : n # m => row'[n] = row[n] /\ seen'[n] = seen[n] /\ (n \in queue' <=> n \in queue)
    BY <1>1 DEF TypeOK
  <2>3. QED
    BY <1>1, <2>1, <2>2, CallKept
<1>5. ASSUME NEW n \in Notifs PROVE NotifInv(n)'
  BY <1>1, BudgetPositive DEF NotifInv, Askable, TypeOK, Unseen
<1>6. QED
  BY <1>3, <1>4, <1>5

\* What the start of a call changes.
LEMMA BeginChanges ==
  ASSUME NEW s \in Senders, Begin(s)
  PROVE  \E m \in queue :
        /\ queue' = queue \ {m}
        /\ row' = [row EXCEPT ![m].status = "processing"]
        /\ call' = [call EXCEPT ![s] = [pc |-> "asked", n |-> m, err |-> "", fate |-> "open"]]
BY DEF Begin, MarkProcessing

\* A sender takes up a notification that nobody else holds.
LEMMA BeginStep ==
  ASSUME ProviderInv, NEW s \in Senders, Begin(s)
  PROVE  ProviderInv'
<1> USE DEF ProviderInv
<1>1. PICK m \in queue :
        /\ queue' = queue \ {m}
        /\ row' = [row EXCEPT ![m].status = "processing"]
        /\ call' = [call EXCEPT ![s] = [pc |-> "asked", n |-> m, err |-> "", fate |-> "open"]]
  BY BeginChanges
<1>2. UNCHANGED <<health, seen, breaker, tickets>> /\ call[s].pc = "idle"
  BY DEF Begin, breakerVars
<1>3. m \in Notifs /\ NotifInv(m) /\ Askable(m)
  BY DEF TypeOK, NotifInv
<1>4. TypeOK'
  BY <1>1, <1>2, <1>3, ZenonT(60) DEF TypeOK, BreakerType, Rows, Statuses, CallPCs, Errors, Fates
<1>5. ASSUME NEW t \in Senders PROVE call[t].n # m
  <2>1. CallInv(t)
    OBVIOUS
  <2>2. CASE call[t].pc = "idle"
    <3>1. call[t].n = NoNotif
      BY <2>1, <2>2 DEF CallInv, NoCall
    <3>2. QED
      BY <1>3, <3>1
  <2>3. CASE call[t].pc # "idle"
    BY <2>1, <2>3 DEF CallInv
  <2>4. QED
    BY <2>2, <2>3
<1>6. /\ call'[s].pc = "asked" /\ call'[s].n = m /\ call'[s].err = "" /\ call'[s].fate = "open"
      /\ \A r \in Senders : r # s => call'[r] = call[r]
      /\ row'[m].status = "processing" /\ row'[m].retry = row[m].retry
      /\ \A n \in Notifs : n # m => row'[n] = row[n]
  BY <1>1, <1>3, Kinds DEF TypeOK, Rows
<1>7. ASSUME NEW t \in Senders PROVE CallInv(t)'
  <2>1. CASE t = s
    <3>1. \A r \in Senders : call'[r].n = m => r = s
      BY <1>5, <1>6
    <3>2. Askable(m)'
      BY <1>2, <1>3, <1>6 DEF Askable
    <3>3. m \notin queue'
      BY <1>1
    <3>4. QED
      BY <1>3, <1>6, <2>1, <3>1, <3>2, <3>3 DEF CallInv
  <2>2. CASE t # s
    <3>1. call'[t] = call[t] /\ call[t].n # m
      BY <1>5, <1>6, <2>2
    <3>2. call[t].pc # "idle" => call[t].n \in Notifs /\ call[t].n \notin queue
      BY DEF CallInv
    <3>3. \A r \in Senders : call'[r].n = call[t].n => call[r].n = call[t].n
      BY <1>6, <3>1
    <3>4. QED
      BY <1>1, <1>2, <1>6, <3>1, <3>2, <3>3, CallKept
  <2>3. QED
    BY <2>1, <2>2
<1>8. ASSUME NEW n \in Notifs PROVE NotifInv(n)'
  <2>1. CASE n = m
    BY <1>1, <1>2, <1>3, <1>6, <2>1 DEF NotifInv
  <2>2. CASE n # m
    BY <1>1, <1>2, <1>6, <2>2 DEF NotifInv, Askable
  <2>3. QED
    BY <2>1, <2>2
<1>9. QED
  BY <1>4, <1>7, <1>8

\* What a step of s does to the call of s and to nothing else but the breaker
\* keeps the invariant, if the call stays in order.
LEMMA CallStep ==
  ASSUME ProviderInv, NEW s \in Senders, NEW c \in [pc : CallPCs, n : Notifs, err : Errors, fate : Fates],
         call[s].pc # "idle", c.pc # "idle", c.n = call[s].n,
         call' = [call EXCEPT ![s] = c], UNCHANGED <<row, queue, health, seen>>, BreakerType',
         c.pc \in {"asked", "flight"} => c.err = "" /\ c.fate = "open" /\ Askable(c.n),
         c.pc \in {"answered", "back"} => Answered(c.n, c)
  PROVE  ProviderInv'
<1> USE DEF ProviderInv
<1>1. TypeOK'
  BY DEF TypeOK
<1>2. /\ call'[s] = c /\ \A t \in Senders : t # s => call'[t] = call[t]
      /\ \A t \in Senders : call'[t].n = call[t].n
  BY DEF TypeOK
<1>3. ASSUME NEW t \in Senders PROVE CallInv(t)'
  <2>2. CallInv(s)'
    <3>0. CallInv(s)
      OBVIOUS
    <3>1. /\ c.n \notin queue' /\ row'[c.n].status = "processing"
          /\ \A r \in Senders : call'[r].n = c.n => r = s
      <4>1. /\ call[s].n \notin queue /\ row[call[s].n].status = "processing"
            /\ \A r \in Senders : call[r].n = call[s].n => r = s
        BY <3>0 DEF CallInv
      <4>2. QED
        BY <1>2, <4>1
    <3>2. CASE c.pc \in {"asked", "flight"}
      <4>1. c.err = "" /\ c.fate = "open" /\ Askable(c.n)
        BY <3>2
      <4>2. QED
        BY <1>2, <3>1, <3>2, <4>1, ZenonT(60) DEF CallInv, Askable
    <3>3. CASE c.pc \in {"answered", "back"}
      <4>1. Answered(c.n, c)
        BY <3>3
      <4>2. Answered(c.n, c)'
        BY <4>1 DEF Answered
      <4>3. call'[s].pc \notin {"idle", "asked", "flight"} /\ call'[s].n = c.n
        BY <1>2, <3>3
      <4>4. Answered(call[s].n, call[s])'
        BY <1>2, <4>2 DEF Answered
      <4>5. call'[s].n \in Notifs
        BY <4>3
      <4>6. QED
        BY <3>1, <4>3, <4>4, <4>5, ZenonT(60) DEF CallInv
    <3>4. QED
      BY <3>2, <3>3 DEF CallPCs
  <2>3. CASE t # s
    <3>1. call[t].pc # "idle" => call[t].n \notin queue
      BY DEF CallInv
    <3>2. QED
      BY <1>2, <2>3, <3>1, CallKept
  <2>4. QED
    BY <2>2, <2>3
<1>4. ASSUME NEW n \in Notifs PROVE NotifInv(n)'
  BY DEF NotifInv, Askable
<1>5. QED
  BY <1>1, <1>3, <1>4

\* The breaker lets the call through, or turns it away before the provider is
\* asked.
LEMMA ExecuteStep ==
  ASSUME ProviderInv, NEW s \in Senders, Execute(s)
  PROVE  ProviderInv'
<1> USE DEF ProviderInv
<1> DEFINE c == call[s]
<1>1. /\ c.pc = "asked" /\ c.n \in Notifs /\ c.err = "" /\ c.fate = "open" /\ Askable(c.n)
      /\ UNCHANGED <<row, queue, health, seen>>
  BY DEF Execute, CallInv
<1>2. c \in [pc : CallPCs, n : Notifs \cup {NoNotif}, err : Errors, fate : Fates]
  BY DEF TypeOK
<1>3. CASE Admit(s) /\ call' = [call EXCEPT ![s].pc = "flight"]
  <2> DEFINE d == [c EXCEPT !.pc = "flight"]
  <2>1. d \in [pc : CallPCs, n : Notifs, err : Errors, fate : Fates]
    BY <1>1, <1>2 DEF CallPCs
  <2>2. d.pc = "flight" /\ d.n = c.n /\ d.err = "" /\ d.fate = "open"
    BY <1>1, <1>2
  <2>3. call' = [call EXCEPT ![s] = d]
    BY <1>3 DEF TypeOK
  <2>4. BreakerType'
    BY <1>3, BreakerKeepsType DEF TypeOK
  <2> HIDE DEF d
  <2>5. QED
    BY <1>1, <2>1, <2>2, <2>3, <2>4, CallStep
<1>4. CASE /\ call' = [call EXCEPT ![s].pc = "back",
                                   ![s].err = IF breaker.state = "open" THEN "ErrOpenState"
                                              ELSE "ErrTooManyRequests"]
           /\ UNCHANGED breakerVars
  <2> DEFINE e == IF breaker.state = "open" THEN "ErrOpenState" ELSE "ErrTooManyRequests"
             d == [c EXCEPT !.pc = "back", !.err = e]
  <2>1. d \in [pc : CallPCs, n : Notifs, err : Errors, fate : Fates]
    BY <1>1, <1>2 DEF CallPCs, Errors
  <2>2. d.pc = "back" /\ d.n = c.n /\ d.err # ""
    BY <1>1, <1>2
  <2>3. call' = [call EXCEPT ![s] = d]
    BY <1>4 DEF TypeOK
  <2>4. BreakerType'
    BY <1>4, BreakerKeepsType DEF TypeOK
  <2> HIDE DEF d
  <2>5. Answered(d.n, d)
    <3>1. row[c.n].retry \in Nat /\ seen[c.n].posts \in Nat
      BY <1>1, Kinds
    <3>2. /\ row[c.n].retry < Budget(c.n) /\ seen[c.n].posts <= row[c.n].retry
          /\ seen[c.n].taken <= seen[c.n].muddled /\ seen[c.n].refused = FALSE
      BY <1>1 DEF Askable
    <3>3. seen[c.n].posts <= row[c.n].retry + 1
      BY <3>1, <3>2
    <3>4. QED
      BY <2>2, <3>2, <3>3 DEF Answered
  <2>6. QED
    BY <1>1, <2>1, <2>2, <2>3, <2>4, <2>5, CallStep
<1>5. QED
  BY <1>3, <1>4 DEF Execute

\* What an answer tells: success says that the notification was taken or the
\* answer misleads, a taking with an error went without a clear answer, and a
\* refusal is an error that is not retried.
LEMMA AnswerFacts ==
  ASSUME NEW n, NEW a \in Answers(n), NEW t \in Took(a)
  PROVE  /\ DoSend(a) \in Errors /\ t \in BOOLEAN /\ Fate(a, t) \in Fates
         /\ DoSend(a) = "" => Fate(a, t) # "open" /\ (t = TRUE \/ Misleads(a))
         /\ t = TRUE /\ DoSend(a) # "" => ~Clear(a)
         /\ RefusesForGood(a) => DoSend(a) = "permanent"
<1>1. a = NoAnswer \/ (a.code \in {200, 302, 400, 429, 500, 501} /\ a.body \in {"json", "text", "cut"})
  BY DEF Answers
<1>2. a = NoAnswer => a.code = 0 /\ a.body = "none" /\ a.to = "POST"
  BY DEF NoAnswer
<1>3. t \in BOOLEAN /\ (Accepts(a) => t = TRUE)
  <2>1. Took(a) \subseteq BOOLEAN /\ (Accepts(a) => Took(a) = {TRUE})
    BY DEF Took
  <2>2. QED
    BY <2>1
<1>4. DoSend(a) \in Errors
  BY DEF DoSend, Errors
<1>5. DoSend(a) = "" => a.code \in {200, 302}
  BY <1>1 DEF DoSend, IsTransientError
<1>6. DoSend(a) = "" => t = TRUE \/ Misleads(a)
  BY <1>3, <1>5 DEF Misleads
<1>7. Clear(a) => DoSend(a) = ""
  BY <1>1, <1>2 DEF DoSend, IsTransientError, Clear, Accepts
<1>8. RefusesForGood(a) => DoSend(a) = "permanent"
  BY <1>2 DEF DoSend, IsTransientError, RefusesForGood, Refuses
<1>9. Fate(a, t) \in Fates /\ (t = TRUE \/ Misleads(a) => Fate(a, t) # "open")
  BY <1>3 DEF Fate, Fates
<1>10. QED
  BY <1>3, <1>4, <1>6, <1>7, <1>8, <1>9

\* A post, and what its answer tells.
LEMMA PostStep ==
  ASSUME ProviderInv, NEW s \in Senders, Post(s)
  PROVE  ProviderInv'
<1> USE DEF ProviderInv
<1> DEFINE m == call[s].n
<1>1. call[s].pc = "flight" /\ m \in Notifs /\ m \notin queue /\ Askable(m) /\ CallInv(s)
  BY DEF Post, CallInv
<1> DEFINE Outcome(a, t) ==
             /\ call' = [call EXCEPT ![s] = [pc |-> "answered", n |-> m, err |-> DoSend(a),
                                             fate |-> Fate(a, t)]]
             /\ seen' = [seen EXCEPT
                           ![m].posts = @ + 1,
                           ![m].taken = IF t THEN @ + 1 ELSE @,
                           ![m].muddled = IF t /\ ~Clear(a) THEN @ + 1 ELSE @,
                           ![m].refused = @ \/ RefusesForGood(a),
                           ![m].misled = @ \/ Misleads(a)]
<1>a. PICK a \in Answers(m) : \E t \in Took(a) : Outcome(a, t)
  BY DEF Post
<1>2. PICK t \in Took(a) : Outcome(a, t)
  BY <1>a
<1>3. UNCHANGED <<row, queue, health, breaker, tickets>>
  BY DEF Post, breakerVars
<1> HIDE DEF Outcome
<1>4. /\ DoSend(a) \in Errors /\ t \in BOOLEAN /\ Fate(a, t) \in Fates
      /\ DoSend(a) = "" => Fate(a, t) # "open" /\ (t = TRUE \/ Misleads(a))
      /\ t = TRUE /\ DoSend(a) # "" => ~Clear(a)
      /\ RefusesForGood(a) => DoSend(a) = "permanent"
  BY AnswerFacts
<1> USE DEF Outcome
<1> DEFINE e == DoSend(a)
           clear == Clear(a)
           no == RefusesForGood(a)
           mis == Misleads(a)
           f == Fate(a, t)
<1>5. /\ call'[s].pc = "answered" /\ call'[s].n = m /\ call'[s].err = e /\ call'[s].fate = f
      /\ \A r \in Senders : r # s => call'[r] = call[r]
      /\ \A r \in Senders : call'[r].n = call[r].n
  BY <1>2 DEF TypeOK
<1>6. /\ seen'[m].posts = seen[m].posts + 1
      /\ seen'[m].taken = IF t THEN seen[m].taken + 1 ELSE seen[m].taken
      /\ seen'[m].muddled = IF t /\ ~clear THEN seen[m].muddled + 1 ELSE seen[m].muddled
      /\ seen'[m].refused <=> seen[m].refused \/ no
      /\ seen'[m].misled <=> seen[m].misled \/ mis
      /\ \A n \in Notifs : n # m => seen'[n] = seen[n]
  <2>1. DOMAIN seen = Notifs /\ DOMAIN seen[m] = {"posts", "taken", "muddled", "refused", "misled"}
    BY <1>1 DEF TypeOK
  <2>2. \A n \in Notifs : n # m => seen'[n] = seen[n]
    BY <1>1, <1>2, <2>1
  <2>3. seen'[m].posts = seen[m].posts + 1
    BY <1>1, <1>2, <2>1
  <2>4. seen'[m].taken = IF t THEN seen[m].taken + 1 ELSE seen[m].taken
    BY <1>1, <1>2, <2>1
  <2>5. seen'[m].muddled = IF t /\ ~clear THEN seen[m].muddled + 1 ELSE seen[m].muddled
    BY <1>1, <1>2, <2>1
  <2>6. seen'[m].refused <=> seen[m].refused \/ no
    BY <1>1, <1>2, <2>1
  <2>7. seen'[m].misled <=> seen[m].misled \/ mis
    BY <1>1, <1>2, <2>1
  <2>8. QED
    BY <2>2, <2>3, <2>4, <2>5, <2>6, <2>7
<1>7. /\ row[m] \in Rows
      /\ seen[m] \in [posts : Nat, taken : Nat, muddled : Nat, refused : BOOLEAN, misled : BOOLEAN]
  BY <1>1 DEF TypeOK
<1>8. TypeOK'
  <2>1. call'[s] = [pc |-> "answered", n |-> m, err |-> e, fate |-> f]
    BY <1>2, ZenonT(60) DEF TypeOK
  <2>2. call' \in [Senders -> [pc : CallPCs, n : Notifs \cup {NoNotif},
                               err : Errors, fate : Fates]]
    <3> HIDE DEF e, f
    <3>1. e \in Errors /\ f \in Fates
      BY <1>4 DEF e, f
    <3>2. call' = [call EXCEPT ![s] = call'[s]]
      BY <1>2 DEF TypeOK
    <3>3. call'[s] \in [pc : CallPCs, n : Notifs \cup {NoNotif}, err : Errors, fate : Fates]
      BY <1>1, <2>1, <3>1 DEF CallPCs
    <3>4. QED
      BY <3>2, <3>3 DEF TypeOK
  <2>3. seen' \in [Notifs -> [posts : Nat, taken : Nat, muddled : Nat, refused : BOOLEAN, misled : BOOLEAN]]
    <3> DEFINE p == seen[m].posts + 1
               q == IF t THEN seen[m].taken + 1 ELSE seen[m].taken
               u == IF t /\ ~clear THEN seen[m].muddled + 1 ELSE seen[m].muddled
               g == seen[m].refused \/ no
               i == seen[m].misled \/ mis
    <3>1. seen' = [seen EXCEPT ![m] = [seen[m] EXCEPT !.posts = p, !.taken = q, !.muddled = u,
                                                      !.refused = g, !.misled = i]]
      BY <1>1, <1>2, ZenonT(60) DEF TypeOK
    <3>2. p \in Nat /\ q \in Nat /\ u \in Nat /\ g \in BOOLEAN /\ i \in BOOLEAN
      BY <1>7
    <3> HIDE DEF p, q, u, g, i
    <3>3. [seen[m] EXCEPT !.posts = p, !.taken = q, !.muddled = u, !.refused = g, !.misled = i]
            \in [posts : Nat, taken : Nat, muddled : Nat, refused : BOOLEAN, misled : BOOLEAN]
      BY <1>7, <3>2
    <3>4. QED
      BY <1>1, <3>1, <3>3 DEF TypeOK
  <2>4. QED
    BY <1>3, <2>2, <2>3 DEF TypeOK, BreakerType
<1>9. /\ row[m].retry < Budget(m)
      /\ seen'[m].posts <= row[m].retry + 1
      /\ e = "" => f # "open" /\ (seen'[m].taken > 0 \/ seen'[m].misled)
      /\ e # "" => seen'[m].taken <= seen'[m].muddled
      /\ seen'[m].refused = TRUE => e = "permanent"
      /\ seen'[m].posts <= Budget(m)
      /\ seen'[m].taken <= 1 + seen'[m].muddled
  <2> HIDE DEF e, clear, no, mis, f
  <2>1. /\ e = "" => f # "open" /\ (t = TRUE \/ mis)
        /\ t = TRUE /\ e # "" => ~clear
        /\ t \in BOOLEAN
        /\ no => e = "permanent"
    BY <1>4 DEF e, clear, no, mis, f
  <2>2. Budget(m) \in Nat /\ seen[m].refused = FALSE
    BY <1>1, BudgetPositive DEF Askable
  <2>3. /\ row[m].retry \in Nat /\ seen[m].posts \in Nat
        /\ seen[m].taken \in Nat /\ seen[m].muddled \in Nat
    BY <1>7 DEF Rows
  <2>4. /\ row[m].retry < Budget(m) /\ seen[m].posts <= row[m].retry
        /\ seen[m].taken <= seen[m].muddled
    BY <1>1 DEF Askable
  <2>5. seen'[m].refused = TRUE => e = "permanent"
    BY <1>6, <2>1, <2>2
  <2>6. seen'[m].posts <= row[m].retry + 1 /\ seen'[m].posts <= Budget(m)
    BY <1>6, <2>2, <2>3, <2>4
  <2>7. CASE t = TRUE
    <3>1. /\ seen'[m].taken = seen[m].taken + 1
          /\ seen'[m].muddled = IF ~clear THEN seen[m].muddled + 1 ELSE seen[m].muddled
      BY <1>6, <2>7
    <3>2. seen'[m].taken > 0 /\ seen'[m].taken <= 1 + seen'[m].muddled
      BY <2>3, <2>4, <3>1
    <3>3. ASSUME e # "" PROVE seen'[m].taken <= seen'[m].muddled
      <4>1. seen'[m].muddled = seen[m].muddled + 1
        BY <2>1, <2>7, <3>1, <3>3
      <4>2. QED
        BY <2>3, <2>4, <3>1, <4>1
    <3>4. QED
      BY <2>1, <2>4, <2>5, <2>6, <2>7, <3>2, <3>3
  <2>8. CASE t = FALSE
    <3>1. seen'[m].taken = seen[m].taken /\ seen'[m].muddled = seen[m].muddled
      BY <1>6, <2>8
    <3>2. e = "" => seen'[m].misled
      BY <1>6, <2>1, <2>8
    <3>3. seen'[m].taken <= 1 + seen'[m].muddled
      BY <2>3, <2>4, <3>1
    <3>4. QED
      BY <2>1, <2>4, <2>5, <2>6, <3>1, <3>2, <3>3
  <2>9. QED
    BY <2>1, <2>7, <2>8
<1>10. ASSUME NEW r \in Senders PROVE CallInv(r)'
  <2>1. CASE r = s
    BY <1>1, <1>3, <1>5, <1>9, <2>1, ZenonT(60) DEF CallInv, Answered
  <2>2. CASE r # s
    <3>1. call[r].pc # "idle" => call[r].n \in Notifs /\ call[r].n # m /\ call[r].n \notin queue
      BY <1>1, <2>2 DEF CallInv
    <3>2. QED
      BY <1>3, <1>5, <1>6, <2>2, <3>1, CallKept
  <2>3. QED
    BY <2>1, <2>2
<1>11. ASSUME NEW n \in Notifs PROVE NotifInv(n)'
  <2>1. CASE n = m
    <3>1. row[m].status \notin {"delivered", "failed"}
      BY <1>1 DEF CallInv
    <3>2. QED
      BY <1>1, <1>3, <1>9, <2>1, <3>1 DEF NotifInv
  <2>2. CASE n # m
    BY <1>3, <1>6, <2>2 DEF NotifInv, Askable
  <2>3. QED
    BY <2>1, <2>2
<1>12. QED
  BY <1>8, <1>10, <1>11

\* The breaker hears of the result; the handler gets it as it is.
LEMMA SendReturnStep ==
  ASSUME ProviderInv, NEW s \in Senders, SendReturn(s)
  PROVE  ProviderInv'
<1> USE DEF ProviderInv
<1> DEFINE c == call[s]
           d == [c EXCEPT !.pc = "back"]
<1>1. /\ c.pc = "answered" /\ c.n \in Notifs /\ Answered(c.n, c)
      /\ UNCHANGED <<row, queue, health, seen>>
  BY DEF SendReturn, CallInv
<1>2. c \in [pc : CallPCs, n : Notifs \cup {NoNotif}, err : Errors, fate : Fates]
  BY DEF TypeOK
<1>3. d \in [pc : CallPCs, n : Notifs, err : Errors, fate : Fates]
  BY <1>1, <1>2 DEF CallPCs
<1>4. d.pc = "back" /\ d.n = c.n /\ d.err = c.err /\ d.fate = c.fate
  BY <1>1, <1>2
<1>5. call' = [call EXCEPT ![s] = d]
  BY DEF SendReturn, TypeOK
<1>6. BreakerType'
  BY BreakerKeepsType DEF SendReturn, TypeOK
<1> HIDE DEF d
<1>7. Answered(d.n, d)
  BY <1>1, <1>4 DEF Answered
<1>8. QED
  BY <1>1, <1>3, <1>4, <1>5, <1>6, <1>7, CallStep

\* The handler settles the notification, or puts it back with an attempt more
\* to its account.
LEMMA HandleStep ==
  ASSUME ProviderInv, NEW s \in Senders, Handle(s)
  PROVE  ProviderInv'
<1> USE DEF ProviderInv
<1> DEFINE m == call[s].n
           up == [row[m] EXCEPT !.retry = @ + 1]
           back == IsTransient(call[s].err) /\ up.retry < Budget(m)
           r == IF call[s].err = "" THEN [row[m] EXCEPT !.status = "delivered"]
                ELSE IF back THEN up ELSE [up EXCEPT !.status = "failed"]
<1>1. call[s].pc = "back" /\ m \in Notifs /\ m \notin queue /\ Answered(m, call[s]) /\ CallInv(s)
  BY DEF Handle, CallInv
<1>2. row[m].status = "processing"
  BY <1>1 DEF CallInv
<1>3. /\ row' = [row EXCEPT ![m] = r]
      /\ queue' = IF r.status = "processing" THEN queue \cup {m} ELSE queue
      /\ call' = [call EXCEPT ![s] = NoCall]
      /\ UNCHANGED <<health, seen, breaker, tickets>>
  BY DEF Handle, breakerVars, MarkDelivered, AfterSendError, IncrementRetry, HasRetriesLeft,
         MarkFailed, Budget
<1>4. /\ row[m] \in Rows
      /\ seen[m] \in [posts : Nat, taken : Nat, muddled : Nat, refused : BOOLEAN, misled : BOOLEAN]
      /\ up.retry = row[m].retry + 1 /\ up.status = "processing" /\ up \in Rows
  BY <1>1, <1>2 DEF TypeOK, Rows
<1>5. /\ r \in Rows
      /\ r.status = "processing" => /\ call[s].err # "" /\ IsTransient(call[s].err)
                                    /\ r.retry = row[m].retry + 1 /\ r.retry < Budget(m)
      /\ r.status = "delivered" => call[s].err = ""
      /\ r.status = "failed" => call[s].err # ""
      /\ r.status \in {"processing", "delivered", "failed"}
  <2> HIDE DEF up
  <2>1. QED
    BY <1>4 DEF Rows, Statuses
<1> HIDE DEF r
<1>6. TypeOK'
  <2>1. row' \in [Notifs -> Rows] /\ queue' \subseteq Notifs
    BY <1>1, <1>3, <1>5 DEF TypeOK
  <2>2. call' \in [Senders -> [pc : CallPCs, n : Notifs \cup {NoNotif},
                               err : Errors, fate : Fates]]
    BY <1>3 DEF TypeOK, NoCall, CallPCs, Errors, Fates
  <2>3. QED
    BY <1>3, <2>1, <2>2 DEF TypeOK, BreakerType
<1>7. ASSUME NEW t \in Senders PROVE CallInv(t)'
  <2>1. CASE t = s
    BY <1>3, <2>1 DEF CallInv, NoCall, TypeOK
  <2>2. CASE t # s
    <3>1. call[t].pc # "idle" => call[t].n \in Notifs /\ call[t].n # m
      BY <1>1, <2>2 DEF CallInv
    <3>2. CallInv(t) /\ call[t].pc \in CallPCs
      BY DEF TypeOK
    <3>3. /\ call'[t] = call[t]
          /\ \A q \in Senders : q # s => call'[q] = call[q]
          /\ call'[s].n = NoNotif
      BY <1>3, <2>2 DEF TypeOK, NoCall
    <3>4. \A n \in Notifs : n # m => row'[n] = row[n] /\ (n \in queue' <=> n \in queue)
      BY <1>3 DEF TypeOK
    <3>5. CASE call[t].pc = "idle"
      BY <3>2, <3>3, <3>5 DEF CallInv
    <3>6. CASE call[t].pc # "idle"
      <4>1. call[t].n \in Notifs /\ row'[call[t].n] = row[call[t].n] /\ call[t].n \notin queue'
        BY <3>1, <3>2, <3>4, <3>6 DEF CallInv
      <4>2. \A q \in Senders : call'[q].n = call[t].n => q = t
        BY <3>2, <3>3, <3>6, <4>1 DEF CallInv
      <4>3. QED
        BY <1>3, <3>2, <3>3, <3>6, <4>1, <4>2, ZenonT(60) DEF CallInv, Answered, Askable, CallPCs
    <3>7. QED
      BY <3>5, <3>6
  <2>3. QED
    BY <2>1, <2>2
<1>8. ASSUME NEW n \in Notifs PROVE NotifInv(n)'
  <2>1. NotifInv(n)
    OBVIOUS
  <2>2. CASE n = m
    <3>1. row'[m] = r /\ seen'[m] = seen[m] /\ (m \in queue' => r.status = "processing")
      BY <1>1, <1>3 DEF TypeOK
    <3>2. r.status = "processing" => seen[m].refused = FALSE
      <4>1. seen[m].refused \in BOOLEAN
        BY <1>4
      <4>2. QED
        BY <1>1, <1>5, <4>1 DEF Answered, IsTransient
    <3>3. r.status = "processing" =>
             seen[m].posts <= r.retry /\ seen[m].taken <= seen[m].muddled
      BY <1>1, <1>5 DEF Answered
    <3>4. /\ r.status = "delivered" => seen[m].taken > 0 \/ seen[m].misled
          /\ r.status = "failed" => seen[m].taken <= seen[m].muddled
      BY <1>1, <1>5 DEF Answered
    <3>5. QED
      BY <1>5, <2>1, <2>2, <3>1, <3>2, <3>3, <3>4 DEF NotifInv, Askable
  <2>3. CASE n # m
    BY <1>3, <2>1, <2>3 DEF NotifInv, Askable, TypeOK
  <2>4. QED
    BY <2>2, <2>3
<1>9. QED
  BY <1>6, <1>7, <1>8

\* Every step keeps the invariant.
LEMMA ProviderStep == ProviderInv /\ [Next]_vars => ProviderInv'
<1> SUFFICES ASSUME ProviderInv, [Next]_vars PROVE ProviderInv'
  OBVIOUS
<1>1. ASSUME NEW s \in Senders, SenderStep(s) PROVE ProviderInv'
  BY <1>1, BeginStep, ExecuteStep, PostStep, SendReturnStep, HandleStep DEF SenderStep
<1>2. ASSUME NEW n \in Notifs, Arrive(n) PROVE ProviderInv'
  BY <1>2, ArriveStep
<1>3. CASE UNCHANGED <<row, queue, call, seen>> /\ BreakerType' /\ health' \in {"up", "ailing"}
  <2>1. TypeOK'
    BY <1>3 DEF ProviderInv, TypeOK
  <2>2. \A s \in Senders : CallInv(s)'
    BY <1>3 DEF ProviderInv, CallInv, Askable, Answered
  <2>3. \A n \in Notifs : NotifInv(n)'
    BY <1>3 DEF ProviderInv, NotifInv, Askable
  <2>4. QED
    BY <2>1, <2>2, <2>3 DEF ProviderInv
<1>4. CASE HealthChange
  <2>1. BreakerType'
    BY <1>4 DEF HealthChange, ProviderInv, TypeOK, BreakerType, breakerVars
  <2>2. QED
    BY <1>3, <1>4, <2>1 DEF HealthChange
<1>5. CASE Timers
  <2>1. BreakerType'
    <3>1. CASE Timeout
      BY <3>1 DEF Timeout, NewGeneration, Counts, ProviderInv, TypeOK, BreakerType, MaxRequests
    <3>2. CASE Interval
      BY <3>2 DEF Interval, Counts, ProviderInv, TypeOK, BreakerType, MaxRequests
    <3>3. QED
      BY <1>5, <3>1, <3>2 DEF Timers
  <2>2. health' \in {"up", "ailing"}
    BY <1>5 DEF Timers, sendVars, ProviderInv, TypeOK
  <2>3. QED
    BY <1>3, <1>5, <2>1, <2>2 DEF Timers, sendVars
<1>6. CASE UNCHANGED vars
  <2>1. BreakerType' /\ health' \in {"up", "ailing"}
    BY <1>6 DEF vars, sendVars, breakerVars, ProviderInv, TypeOK, BreakerType
  <2>2. QED
    BY <1>3, <1>6, <2>1 DEF vars, sendVars
<1>7. QED
  BY <1>1, <1>2, <1>4, <1>5, <1>6 DEF Next

\* Breaker, calls, deliveries and the provider hold values of their kinds,
\* whatever the limits (Send, Execute, the breaker's generations).
THEOREM ProviderTypes == Safety => []TypeOK
<1>1. ProviderInv => TypeOK
  BY DEF ProviderInv
<1>2. QED
  BY <1>1, ProviderStart, ProviderStep, PTL DEF Safety

\* The provider is asked no more often than the priority allows, while a
\* breaker that lets no call through uses up attempts as well (Execute, doSend,
\* ProcessDelivery).
THEOREM AskedInBudget == Safety => []PostsBounded
<1>1. ProviderInv => PostsBounded
  BY DEF ProviderInv, PostsBounded, NotifInv, Askable, Budget
<1>2. QED
  BY <1>1, ProviderStart, ProviderStep, PTL DEF Safety

\* The provider takes a notification again only after an answer that did not
\* come through (doSend's error paths behind Client.Do).
THEOREM MuddledBefore == Safety => []TakenAgainOnlyIfMuddled
<1>1. ProviderInv => TakenAgainOnlyIfMuddled
  BY DEF ProviderInv, TakenAgainOnlyIfMuddled, NotifInv
<1>2. QED
  BY <1>1, ProviderStart, ProviderStep, PTL DEF Safety

\* A delivered row means that the provider took the notification or gave an
\* answer below 400 that is not its word on the POST: an error of the breaker or
\* of doSend is never read as success (Send, ProcessDelivery).
THEOREM DeliveredIsTakenOrRedirected == Safety => []DeliveredWasTakenOrRedirected
<1>1. ProviderInv => DeliveredWasTakenOrRedirected
  BY DEF ProviderInv, DeliveredWasTakenOrRedirected, NotifInv
<1>2. QED
  BY <1>1, ProviderStart, ProviderStep, PTL DEF Safety

\* A failed row hides a taking only behind an answer that was lost or broke
\* off (doSend, ProcessDelivery over all attempts).
THEOREM FailureHidesNothingClear == Safety => []FailureHidesNoClearTaking
<1>1. ProviderInv => FailureHidesNoClearTaking
  BY DEF ProviderInv, FailureHidesNoClearTaking, NotifInv
<1>2. QED
  BY <1>1, ProviderStart, ProviderStep, PTL DEF Safety

\* A notification the provider refused for good never goes back to the topic
\* (IsTransient, AfterSendError).
THEOREM RefusalIsFinal == Safety => []RefusedIsNotRetried
<1>1. ProviderInv => RefusedIsNotRetried
  BY DEF ProviderInv, RefusedIsNotRetried, NotifInv, Askable, Budget
<1>2. QED
  BY <1>1, ProviderStart, ProviderStep, PTL DEF Safety

-----------------------------------------------------------------------------
\* The value the contract sees in place of a call.
Return(c) == IF c.err = "" THEN "ok" ELSE IF IsTransient(c.err) THEN "transient" ELSE "permanent"

fates == [s \in Senders |-> call[s].fate]

\* What the contract sees of the calls of the senders.
LEMMA PhaseOf ==
  ASSUME TypeOK, NEW s \in Senders
  PROVE  /\ call[s].pc = "idle" => Phase[s] = "idle"
         /\ call[s].pc \in {"asked", "flight", "answered"} => Phase[s] = "calling"
         /\ call[s].pc = "back" => Phase[s] = Return(call[s])
BY DEF TypeOK, Phase, Return, CallPCs

\* A step that changes the call of one sender changes what the contract sees
\* at that sender only.
LEMMA PhaseStep ==
  ASSUME TypeOK, NEW s \in Senders, NEW c, call' = [call EXCEPT ![s] = c],
         NEW p, c.pc = "idle" => p = "idle",
         c.pc \in {"asked", "flight", "answered"} => p = "calling",
         c.pc = "back" => p = Return(c), c.pc \in CallPCs
  PROVE  /\ Phase' = [Phase EXCEPT ![s] = p]
         /\ fates' = [fates EXCEPT ![s] = c.fate]
<1>1. \A t \in Senders : call'[t] = IF t = s THEN c ELSE call[t]
  BY DEF TypeOK
<1>2. ASSUME NEW t \in Senders PROVE Phase'[t] = IF t = s THEN p ELSE Phase[t]
  BY <1>1 DEF Phase, Return, CallPCs
<1>3. Phase' = [Phase EXCEPT ![s] = p]
  BY <1>2 DEF Phase
<1>4. fates' = [fates EXCEPT ![s] = c.fate]
  <2>1. ASSUME NEW t \in Senders PROVE fates'[t] = IF t = s THEN c.fate ELSE fates[t]
    <3>1. fates'[t] = call'[t].fate /\ fates[t] = call[t].fate
      BY DEF fates
    <3>2. QED
      BY <1>1, <3>1
  <2>2. QED
    BY <2>1 DEF fates
<1>5. QED
  BY <1>3, <1>4

\* Every step of a sender is a step of the contract, or none.
LEMMA ContractStep ==
  ASSUME ProviderInv, [Next]_vars
  PROVE  [Contracted!ContractNext]_(Contracted!contractVars)
<1> DEFINE Still == UNCHANGED <<Phase, fates>>
           Goal == Still \/ \E s \in Senders :
                      \/ Contracted!Call(s) \/ Contracted!Meet(s)
                      \/ Contracted!Return(s) \/ Contracted!Finish(s)
<1>0. TypeOK /\ \A s \in Senders : CallInv(s)
  BY DEF ProviderInv
<1>1. SUFFICES Goal
  BY <1>1 DEF Contracted!ContractNext, Contracted!contractVars, fates
<1>2. \A s \in Senders : /\ call[s].pc = "idle" => call[s].fate = "open"
                         /\ call[s].pc \in {"asked", "flight"} => call[s].fate = "open"
                         /\ call[s].pc \in {"answered", "back"} => (call[s].err = "" => call[s].fate # "open")
  BY <1>0 DEF CallInv, Answered
<1>3. \A s \in Senders : fates[s] = call[s].fate
  BY DEF fates
<1>4. ASSUME NEW s \in Senders, Begin(s) PROVE Contracted!Call(s)
  <2>1. PICK m \in queue : call' = [call EXCEPT ![s] = [pc |-> "asked", n |-> m, err |-> "", fate |-> "open"]]
    BY <1>4, BeginChanges
  <2> DEFINE c == [pc |-> "asked", n |-> m, err |-> "", fate |-> "open"]
  <2>2. call[s].pc = "idle" /\ call[s].fate = "open"
    BY <1>2, <1>4 DEF Begin
  <2>3. Phase' = [Phase EXCEPT ![s] = "calling"] /\ fates' = [fates EXCEPT ![s] = c.fate]
    <3>1. c.pc = "asked" /\ c.pc \in CallPCs
      BY DEF CallPCs
    <3> HIDE DEF c
    <3>2. call' = [call EXCEPT ![s] = c]
      BY <2>1 DEF c
    <3>3. QED
      BY <1>0, <3>1, <3>2, PhaseStep
  <2>4. fates' = fates
    BY <2>2, <2>3 DEF fates
  <2>5. Phase[s] = "idle"
    BY <1>0, <2>2, PhaseOf
  <2>6. QED
    BY <2>3, <2>4, <2>5 DEF Contracted!Call, fates
<1>5. ASSUME NEW s \in Senders, Execute(s)
      PROVE  Still \/ Contracted!Return(s)
  <2>1. call[s].pc = "asked" /\ call[s] \in [pc : CallPCs, n : Notifs \cup {NoNotif}, err : Errors, fate : Fates]
    BY <1>0, <1>5 DEF Execute, TypeOK
  <2>2. Phase[s] = "calling" /\ Phase \in [Senders -> {Phase[t] : t \in Senders}]
    BY <1>0, <2>1, PhaseOf DEF Phase
  <2>3. CASE call' = [call EXCEPT ![s].pc = "flight"]
    <3> DEFINE c == [call[s] EXCEPT !.pc = "flight"]
    <3>1. call' = [call EXCEPT ![s] = c]
      BY <1>0, <2>3 DEF TypeOK
    <3>2. c.pc = "flight" /\ c.fate = call[s].fate /\ c.pc \in CallPCs
      BY <2>1 DEF CallPCs
    <3> HIDE DEF c
    <3>3. Phase' = [Phase EXCEPT ![s] = "calling"] /\ fates' = [fates EXCEPT ![s] = c.fate]
      BY <1>0, <3>1, <3>2, PhaseStep
    <3>4. Phase' = Phase /\ fates' = fates
      BY <1>3, <2>2, <3>2, <3>3 DEF fates
    <3>5. QED
      BY <3>4
  <2>4. CASE call' = [call EXCEPT ![s].pc = "back",
                                  ![s].err = IF breaker.state = "open" THEN "ErrOpenState"
                                             ELSE "ErrTooManyRequests"]
    <3> DEFINE e == IF breaker.state = "open" THEN "ErrOpenState" ELSE "ErrTooManyRequests"
               c == [call[s] EXCEPT !.pc = "back", !.err = e]
    <3>1. call' = [call EXCEPT ![s] = c]
      BY <1>0, <2>4 DEF TypeOK
    <3>2. c.pc = "back" /\ c.fate = call[s].fate /\ c.pc \in CallPCs /\ c.err = e
      BY <2>1 DEF CallPCs
    <3>3. Return(c) = "permanent"
      BY <3>2 DEF Return, IsTransient
    <3> HIDE DEF c
    <3>4. Phase' = [Phase EXCEPT ![s] = "permanent"] /\ fates' = [fates EXCEPT ![s] = c.fate]
      <4>1. Phase' = [Phase EXCEPT ![s] = Return(c)] /\ fates' = [fates EXCEPT ![s] = c.fate]
        BY <1>0, <3>1, <3>2, PhaseStep
      <4>2. QED
        BY <3>3, <4>1
    <3>5. fates' = fates
      BY <1>3, <3>2, <3>4 DEF fates
    <3>6. QED
      BY <2>2, <3>4, <3>5 DEF Contracted!Return, Contracted!Outcomes, fates
  <2>5. QED
    BY <1>5, <2>3, <2>4 DEF Execute
<1>6. ASSUME NEW s \in Senders, Post(s)
      PROVE  Still \/ Contracted!Meet(s)
  <2>1. call[s].pc = "flight" /\ call[s] \in [pc : CallPCs, n : Notifs \cup {NoNotif}, err : Errors, fate : Fates]
    BY <1>0, <1>6 DEF Post, TypeOK
  <2>2. Phase[s] = "calling" /\ fates[s] = "open"
    BY <1>0, <1>2, <1>3, <2>1, PhaseOf
  <2>3. PICK a \in Answers(call[s].n) : \E t \in Took(a) :
          call' = [call EXCEPT ![s] = [pc |-> "answered", n |-> call[s].n, err |-> DoSend(a),
                                       fate |-> Fate(a, t)]]
    BY <1>6 DEF Post
  <2>12. PICK t \in Took(a) :
          call' = [call EXCEPT ![s] = [pc |-> "answered", n |-> call[s].n, err |-> DoSend(a),
                                       fate |-> Fate(a, t)]]
    BY <2>3
  <2> DEFINE f == Fate(a, t)
             c == [pc |-> "answered", n |-> call[s].n, err |-> DoSend(a), fate |-> f]
  <2>4. f \in Fates
    BY AnswerFacts
  <2> HIDE DEF f
  <2>5. call' = [call EXCEPT ![s] = c]
    BY <2>12 DEF f
  <2>6. c.pc = "answered" /\ c.fate = f /\ c.pc \in CallPCs
    BY DEF CallPCs
  <2> HIDE DEF c
  <2>7. Phase' = [Phase EXCEPT ![s] = "calling"] /\ fates' = [fates EXCEPT ![s] = c.fate]
    BY <1>0, <2>5, <2>6, PhaseStep
  <2>8. Phase' = Phase /\ fates' = [fates EXCEPT ![s] = f]
    BY <2>2, <2>6, <2>7 DEF Phase
  <2>9. CASE f = "open"
    BY <2>2, <2>8, <2>9 DEF fates
  <2>10. CASE f \in {"taken", "misled"}
    BY <2>2, <2>8, <2>10 DEF Contracted!Meet, fates
  <2>11. QED
    BY <2>4, <2>9, <2>10 DEF Fates
<1>7. ASSUME NEW s \in Senders, SendReturn(s) PROVE Contracted!Return(s)
  <2>1. call[s].pc = "answered" /\ call[s] \in [pc : CallPCs, n : Notifs \cup {NoNotif}, err : Errors, fate : Fates]
    BY <1>0, <1>7 DEF SendReturn, TypeOK
  <2>2. Phase[s] = "calling"
    BY <1>0, <2>1, PhaseOf
  <2> DEFINE c == [call[s] EXCEPT !.pc = "back"]
  <2>3. call' = [call EXCEPT ![s] = c]
    BY <1>0, <1>7 DEF SendReturn, TypeOK
  <2>4. c.pc = "back" /\ c.fate = call[s].fate /\ c.err = call[s].err /\ c.pc \in CallPCs
    BY <2>1 DEF CallPCs
  <2> HIDE DEF c
  <2>5. Phase' = [Phase EXCEPT ![s] = Return(c)] /\ fates' = [fates EXCEPT ![s] = c.fate]
    BY <1>0, <2>3, <2>4, PhaseStep
  <2>6. fates' = fates
    BY <1>3, <2>4, <2>5 DEF fates
  <2>7. Return(c) \in {"ok", "transient", "permanent"} /\ (Return(c) = "ok" => fates[s] # "open")
    BY <1>2, <1>3, <2>1, <2>4 DEF Return
  <2>8. QED
    BY <2>2, <2>5, <2>6, <2>7 DEF Contracted!Return, Contracted!Outcomes, fates
<1>8. ASSUME NEW s \in Senders, Handle(s) PROVE Contracted!Finish(s)
  <2>1. call[s].pc = "back" /\ call' = [call EXCEPT ![s] = NoCall]
    BY <1>8 DEF Handle
  <2>2. Phase[s] \in {"ok", "transient", "permanent"}
    BY <1>0, <2>1, PhaseOf DEF Return
  <2>3. NoCall.pc = "idle" /\ NoCall.fate = "open" /\ NoCall.pc \in CallPCs
    BY DEF NoCall, CallPCs
  <2>4. Phase' = [Phase EXCEPT ![s] = "idle"] /\ fates' = [fates EXCEPT ![s] = NoCall.fate]
    BY <1>0, <2>1, <2>3, PhaseStep
  <2>5. QED
    BY <2>2, <2>3, <2>4 DEF Contracted!Finish, Contracted!Outcomes, fates
<1>9. CASE UNCHANGED call
  BY <1>9 DEF Phase, fates
<1>10. QED
  BY <1>4, <1>5, <1>6, <1>7, <1>8, <1>9
     DEF Next, SenderStep, Arrive, HealthChange, Timers, sendVars, vars

\* One call of Send hands its notification over at most once, and success means
\* that the provider took it or that an answer below 400 read as if it had:
\* what the delivery path's model takes the provider to be is what the
\* adapter, the breaker and doSend make of any answer.
THEOREM SendImplementsContract == Safety => SendKeepsContract
<1>1. Init => Contracted!ContractInit
  <2> SUFFICES ASSUME Init PROVE Contracted!ContractInit
    OBVIOUS
  <2>1. \A s \in Senders : call[s].pc = "idle" /\ call[s].fate = "open"
    BY DEF Init, NoCall
  <2>2. Phase = [s \in Senders |-> "idle"]
    BY <2>1 DEF Phase
  <2>3. [s \in Senders |-> call[s].fate] = [s \in Senders |-> "open"]
    BY <2>1
  <2>4. QED
    BY <2>2, <2>3 DEF Contracted!ContractInit
<1>2. QED
  BY <1>1, ProviderStart, ProviderStep, ContractStep, PTL
     DEF Safety, SendKeepsContract, Contracted!Contract
====
