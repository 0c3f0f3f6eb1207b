---- MODULE Provider ----
(***************************************************************************)
(* The sending side of one worker for one channel: the provider adapter    *)
(* (internal/adapter/provider/webhook.go) behind its circuit breaker, and  *)
(* what ProcessDelivery makes of the result.  Kafka is the set of the      *)
(* notifications that wait, each taken up by one consumer goroutine at a   *)
(* time; losses of rows and messages are the subject of System.            *)
(***************************************************************************)
EXTENDS Notification, Breaker

CONSTANTS Bad    \* notifications the provider refuses with a 4xx

ASSUME BadAssumption == Bad \subseteq Notifs

VARIABLES
    row,      \* row[n]: status and attempts of n
    queue,    \* notifications that wait in the topic
    call,     \* call[s]: the call of sender s: place, notification, error,
              \* and the fate the notification met at the provider
    health,   \* the provider is "up", or "ailing" and good for any answer
    seen      \* history: what the provider has seen of n: its posts, how often it
              \* took n, how often without a clear answer, whether it refused n,
              \* whether it misled the sender about n

sendVars == <<row, queue, call, health, seen>>
vars == <<sendVars, breakerVars>>

\* The errors of Send; "" is success.
Errors == {"", "ErrProviderUnavailable", "permanent", "body",
           "ErrOpenState", "ErrTooManyRequests"}

CallPCs == {"idle", "asked", "flight", "answered", "back"}

\* Taken by the provider, or not taken though the answer reads as if it were.
Fates == {"open", "taken", "misled"}

NoCall == [pc |-> "idle", n |-> NoNotif, err |-> "", fate |-> "open"]
Unseen == [posts |-> 0, taken |-> 0, muddled |-> 0, refused |-> FALSE, misled |-> FALSE]

Init ==
    /\ BreakerInit
    /\ row = [n \in Notifs |-> NoRow]
    /\ queue = {}
    /\ call = [s \in Senders |-> NoCall]
    /\ health = "up"
    /\ seen = [n \in Notifs |-> Unseen]

-----------------------------------------------------------------------------
\* A notification arrives; its name stood for one that is settled by now.
Arrive(n) ==
    /\ row[n].status \in Terminal \cup {"absent"}
    /\ row' = [row EXCEPT ![n] = NewNotification(FALSE)]
    /\ queue' = queue \cup {n}
    /\ seen' = [seen EXCEPT ![n] = Unseen]
    /\ UNCHANGED <<call, health, breakerVars>>

\* The provider gets into trouble, and out of it.
HealthChange == /\ health' = IF health = "up" THEN "ailing" ELSE "up"
                /\ UNCHANGED <<row, queue, call, seen, breakerVars>>

\* The handler marks the row and calls Send.
Begin(s) ==
    /\ call[s].pc = "idle"
    /\ \E n \in queue :
         /\ queue' = queue \ {n}
         /\ row' = [row EXCEPT ![n] = MarkProcessing(@)]
         /\ call' = [call EXCEPT ![s] = [pc |-> "asked", n |-> n, err |-> "", fate |-> "open"]]
    /\ UNCHANGED <<health, seen, breakerVars>>

\* Execute: the breaker admits the call, or turns it away with its own error.
Execute(s) ==
    /\ call[s].pc = "asked"
    /\ \/ /\ Admit(s)
          /\ call' = [call EXCEPT ![s].pc = "flight"]
       \/ /\ TurnsAway
          /\ call' = [call EXCEPT ![s].pc = "back",
                                  ![s].err = IF breaker.state = "open" THEN "ErrOpenState"
                                             ELSE "ErrTooManyRequests"]
          /\ UNCHANGED breakerVars
    /\ UNCHANGED <<row, queue, health, seen>>

\* What a POST may bring: a status with a body that is JSON, is not, or breaks
\* off; or no answer at all.  The client follows a 301, 302 or 303 with a GET,
\* whose answer then stands for that of the POST; 302 is here any other 3xx
\* or one without a Location, which it returns as it is.  On a 307 or 308 it
\* posts again at the other address, and what that brings is the answer.
NoAnswer == [code |-> 0, body |-> "none", to |-> "POST"]
Answers(n) ==
    LET proper == IF n \in Bad THEN {400} ELSE {200}
        bodies == {"json", "text", "cut"}
    IN IF health = "up"
       THEN [code : proper, body : {"json", "text"}, to : {"POST"}]
       ELSE [code : proper \cup {302, 429, 500, 501}, body : bodies, to : {"POST"}]
            \cup [code : {200, 302, 400, 429, 500, 501}, body : bodies, to : {"GET"}]
            \cup {NoAnswer}

\* The provider's word on the notification: it has taken or not taken it.
\* Any other answer leaves that open.
Accepts(a) == a.to = "POST" /\ a.code = 200
Refuses(a) == a.to = "POST" /\ a.code \in {400, 429}
Took(a) == IF Accepts(a) THEN {TRUE} ELSE IF Refuses(a) THEN {FALSE} ELSE BOOLEAN
Clear(a) == Accepts(a) /\ a.body # "cut"
RefusesForGood(a) == Refuses(a) /\ a.code = 400 /\ a.body # "cut"

\* Not an error by its status, and not the provider's word either.
Misleads(a) == a.code \in {200, 302} /\ ~Accepts(a)
Fate(a, took) == IF took THEN "taken" ELSE IF Misleads(a) THEN "misled" ELSE "open"

\* Variant: client errors count as transient.
IsTransientError_Any(code) == code >= 400
IsTransientError(code) == code \in {429, 500, 502, 503, 504}

\* Variant: a 2xx with an unreadable body is worth a retry.
DoSend_StrictBody(a) ==
    IF a = NoAnswer THEN "ErrProviderUnavailable"
    ELSE IF a.body = "cut" THEN "body"
    ELSE IF IsTransientError(a.code) THEN "ErrProviderUnavailable"
    ELSE IF a.code >= 400 THEN "permanent"
    ELSE IF a.body = "text" THEN "ErrProviderUnavailable" ELSE ""

\* Variant: only transient errors are errors.
DoSend_Lenient(a) ==
    IF a = NoAnswer THEN "ErrProviderUnavailable"
    ELSE IF a.body = "cut" THEN "body"
    ELSE IF IsTransientError(a.code) THEN "ErrProviderUnavailable" ELSE ""

\* Variant: a 2xx whose body is not JSON is a failure for good.
DoSend_FailsText(a) ==
    IF a = NoAnswer THEN "ErrProviderUnavailable"
    ELSE IF a.body = "cut" THEN "body"
    ELSE IF IsTransientError(a.code) THEN "ErrProviderUnavailable"
    ELSE IF a.code >= 400 \/ a.body = "text" THEN "permanent" ELSE ""

\* doSend: the error an answer becomes.  Every status below 400 is a success,
\* with a made-up message id when the body is not JSON.
DoSend(a) ==
    IF a = NoAnswer THEN "ErrProviderUnavailable"
    ELSE IF a.body = "cut" THEN "body"
    ELSE IF IsTransientError(a.code) THEN "ErrProviderUnavailable"
    ELSE IF a.code >= 400 THEN "permanent" ELSE ""

\* The POST and its answer.
Post(s) ==
    /\ call[s].pc = "flight"
    /\ LET n == call[s].n IN
       \E a \in Answers(n) : \E took \in Took(a) :
          /\ call' = [call EXCEPT ![s] = [pc |-> "answered", n |-> n, err |-> DoSend(a),
                                          fate |-> Fate(a, took)]]
          /\ seen' = [seen EXCEPT
                        ![n].posts = @ + 1,
                        ![n].taken = IF took THEN @ + 1 ELSE @,
                        ![n].muddled = IF took /\ ~Clear(a) THEN @ + 1 ELSE @,
                        ![n].refused = @ \/ RefusesForGood(a),
                        ![n].misled = @ \/ Misleads(a)]
    /\ UNCHANGED <<row, queue, health, breakerVars>>

\* Variant: a refusal for good is not reported to the breaker.
SendReturn_SkipsRefusals(s) ==
    /\ call[s].pc = "answered"
    /\ IF call[s].err = "permanent" THEN UNCHANGED breakerVars
                                    ELSE Report(s, call[s].err = "")
    /\ call' = [call EXCEPT ![s].pc = "back"]
    /\ UNCHANGED <<row, queue, health, seen>>

\* Any error is a failure to the breaker.
SendReturn(s) ==
    /\ call[s].pc = "answered"
    /\ Report(s, call[s].err = "")
    /\ call' = [call EXCEPT ![s].pc = "back"]
    /\ UNCHANGED <<row, queue, health, seen>>

IsTransient(err) == err \in {"ErrProviderUnavailable", "ErrCircuitOpen"}

\* ProcessDelivery after Send; a retry goes back to the topic.
Handle(s) ==
    /\ call[s].pc = "back"
    /\ LET n == call[s].n
           r == IF call[s].err = "" THEN MarkDelivered(row[n])
                ELSE AfterSendError(n, row[n], IsTransient(call[s].err))
       IN /\ row' = [row EXCEPT ![n] = r]
          /\ queue' = IF r.status = "processing" THEN queue \cup {n} ELSE queue
    /\ call' = [call EXCEPT ![s] = NoCall]
    /\ UNCHANGED <<health, seen, breakerVars>>

-----------------------------------------------------------------------------
SenderStep(s) == Begin(s) \/ Execute(s) \/ Post(s) \/ SendReturn(s) \/ Handle(s)
Timers == (Timeout \/ Interval) /\ UNCHANGED sendVars

Next == \/ \E s \in Senders : SenderStep(s)
        \/ \E n \in Notifs : Arrive(n)
        \/ HealthChange
        \/ Timers

Safety == Init /\ [][Next]_vars

\* The goroutines run, an HTTP call ends within its five seconds and the
\* breaker's thirty seconds pass.  Nothing is assumed of the provider, nor of
\* the notifications that arrive.
Fairness == /\ \A s \in Senders : WF_vars(SenderStep(s))
            /\ WF_vars(Timeout /\ UNCHANGED sendVars)

Spec == Safety /\ Fairness

-----------------------------------------------------------------------------
\* Every variable holds a value of its kind.
TypeOK ==
    /\ BreakerType
    /\ row \in [Notifs -> Rows]
    /\ queue \subseteq Notifs
    /\ call \in [Senders -> [pc : CallPCs, n : Notifs \cup {NoNotif},
                             err : Errors, fate : Fates]]
    /\ health \in {"up", "ailing"}
    /\ seen \in [Notifs -> [posts : Nat, taken : Nat, muddled : Nat,
                            refused : BOOLEAN, misled : BOOLEAN]]

\* The provider is asked at most as often as the priority allows, whatever
\* mix of answers, breaker errors and retries a notification meets.  Writes
\* to the row succeed here; System counts the tries when they may not.
PostsBounded == \A n \in Notifs : seen[n].posts <= priorityMaxRetries[Priority[n]]

\* The provider takes a notification a second time only if its answer to an
\* earlier taking did not come through in full: doSend, isTransientError,
\* isTransient and the retry agree on what is a success.
TakenAgainOnlyIfMuddled == \A n \in Notifs : seen[n].taken <= 1 + seen[n].muddled

\* A row says delivered only if the provider has taken the notification, or
\* has given an answer below 400 that is not its word on the POST: a redirect
\* that was not followed, or what the GET brought that followed it.  That
\* much, and no more, doSend's status check (webhook.go:129) warrants.
DeliveredWasTakenOrRedirected ==
    \A n \in Notifs : row[n].status = "delivered" => seen[n].taken > 0 \/ seen[n].misled

\* A row says failed though the provider took the notification only if the
\* answer to each taking was lost or broke off: whatever errors pile up over
\* the attempts, a success that doSend got to see is not given up.
FailureHidesNoClearTaking ==
    \A n \in Notifs : row[n].status = "failed" => seen[n].taken <= seen[n].muddled

\* A notification the provider has refused does not go back to the topic.
RefusedIsNotRetried == \A n \in Notifs : seen[n].refused => n \notin queue

\* Once the provider is up for good and no refusable notifications come, the
\* breaker closes and stays closed, provided that work keeps coming: no call
\* that was under way when it opened, or that it turned away, keeps it open or
\* uses up the three trial requests.
BreakerRecovers ==
    /\ <>[](health = "up" /\ \A n \in Bad : row[n].status \in Terminal \cup {"absent"})
    /\ []<>(queue # {})
    => <>[](breaker.state = "closed")

\* The calls the handler sees.
Phase == [s \in Senders |->
            CASE call[s].pc = "idle" -> "idle"
              [] call[s].pc \in {"asked", "flight", "answered"} -> "calling"
              [] OTHER -> IF call[s].err = "" THEN "ok"
                          ELSE IF IsTransient(call[s].err) THEN "transient" ELSE "permanent"]

Contracted == INSTANCE SendContract WITH phase <- Phase,
                                         fate <- [s \in Senders |-> call[s].fate]

\* Send keeps the contract of the delivery path's model: one call hands its
\* notification over at most once, and success means that the provider took it
\* or misled the sender by an answer below 400.
SendKeepsContract == Contracted!Contract

\* What TestDeliveryService_ProcessDelivery_CircuitOpenRetry says of an open
\* breaker, and the code does not keep: a notification that has attempts left
\* is not given up before the provider has been asked.
AskedBeforeGivenUp ==
    \A n \in Notifs : row[n].status = "failed" =>
        seen[n].posts > 0 \/ row[n].retry >= priorityMaxRetries[Priority[n]]
====
