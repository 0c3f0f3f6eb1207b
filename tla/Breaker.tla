---- MODULE Breaker ----
(***************************************************************************)
(* The circuit breaker of one channel in one worker process: gobreaker,    *)
(* with the settings of pkg/circuitbreaker/breaker.go.  A call asks for    *)
(* admission, runs without the lock and reports its result; the breaker    *)
(* may have changed state in between, and then drops the report.           *)
(***************************************************************************)
EXTENDS Integers

CONSTANTS Senders    \* the consumer goroutines that share the breaker

VARIABLES
    breaker,   \* its state and counts
    tickets    \* senders admitted since the breaker's state last changed

breakerVars == <<breaker, tickets>>

MaxRequests == 3
ReadyToTrip(consecutiveFailures) == consecutiveFailures >= 5

\* The counts start anew with every state.
Counts(state) == [state |-> state, requests |-> 0, wins |-> 0, failures |-> 0]
NewGeneration(state) == breaker' = Counts(state) /\ tickets' = {}

BreakerInit == breaker = Counts("closed") /\ tickets = {}

BreakerType ==
    /\ breaker \in [state : {"closed", "open", "halfOpen"}, requests : 0..MaxRequests,
                    wins : 0..MaxRequests, failures : 0..5]
    /\ tickets \subseteq Senders

TurnsAway == \/ breaker.state = "open"
             \/ breaker.state = "halfOpen" /\ breaker.requests >= MaxRequests

\* A half-open breaker counts the requests it admits.
Admit(s) ==
    /\ ~TurnsAway
    /\ breaker' = IF breaker.state = "halfOpen" THEN [breaker EXCEPT !.requests = @ + 1]
                                                ELSE breaker
    /\ tickets' = tickets \cup {s}

OnSuccess(s) ==
    IF breaker.state = "halfOpen" /\ breaker.wins + 1 >= MaxRequests
    THEN NewGeneration("closed")
    ELSE /\ breaker' = [breaker EXCEPT !.wins = IF breaker.state = "halfOpen" THEN @ + 1 ELSE @,
                                       !.failures = 0]
         /\ tickets' = tickets \ {s}

OnFailure(s) ==
    IF breaker.state = "halfOpen" \/ ReadyToTrip(breaker.failures + 1)
    THEN NewGeneration("open")
    ELSE /\ breaker' = [breaker EXCEPT !.failures = @ + 1]
         /\ tickets' = tickets \ {s}

\* The result of a call that was admitted in an earlier state is dropped.
Report(s, success) ==
    IF s \notin tickets THEN UNCHANGED breakerVars
    ELSE IF success THEN OnSuccess(s) ELSE OnFailure(s)

\* Timeout: 30 seconds after it opened the breaker admits again.
Timeout == breaker.state = "open" /\ NewGeneration("halfOpen")

\* Interval: a closed breaker forgets its counts every 60 seconds, with or
\* without the calls under way.
Interval ==
    /\ breaker.state = "closed"
    /\ breaker.failures > 0
    /\ breaker' = Counts("closed")
    /\ tickets' \in {{}, tickets}
====
