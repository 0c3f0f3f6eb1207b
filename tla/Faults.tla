---- MODULE Faults ----
(***************************************************************************)
(* The environment of the processes: what may come between them, and how   *)
(* often it may still come.  MaxFaults bounds each kind and MaxTotal all   *)
(* kinds together; with them every counter of the model is bounded.        *)
(***************************************************************************)
EXTENDS Integers

CONSTANTS Workers, MaxFaults, MaxTotal

FaultKinds == {"cancel",       \* a client asks to cancel a notification
               "error",        \* a call to Postgres or Kafka reports an error
               "unavailable",  \* the provider refuses for now (5xx, 429, no connection)
               "timeout",      \* the provider accepts but its answer is lost
               "redirect",     \* an answer below 400 that is not for the POST (3xx)
               "crash",        \* a process dies
               "stop",         \* a worker is told to shut down (SIGTERM)
               "rebalance",    \* the group moves the partition to another worker
               "delay"}        \* 5 minutes pass while a message is under way

ASSUME MaxFaultsAssumption == MaxFaults \in [FaultKinds -> Nat] /\ MaxTotal \in Nat

VARIABLES
    faults,     \* faults[k]: how often k has happened
    stopping    \* workers whose context is cancelled

\* The faults that can make a worker do a thing a second time, and all of them.
Mishaps == faults.error + faults.timeout + faults.crash + faults.stop
           + faults.rebalance + faults.delay
FaultCount == Mishaps + faults.unavailable + faults.redirect + faults.cancel

Spend(k) == /\ faults[k] < MaxFaults[k]
            /\ FaultCount < MaxTotal
            /\ faults' = [faults EXCEPT ![k] = @ + 1]

\* A fault of kind k strikes worker w, or w is shutting down: a call that runs
\* into a cancelled context errs all the same, at no expense.
Struck(w, k) == IF w \in stopping THEN UNCHANGED faults ELSE Spend(k)

\* A call by worker w goes through while w's context is live.  It may return
\* an error: without effect, or with its effect done and only the answer lost.
CallOk(w) == w \notin stopping /\ UNCHANGED faults
CallFails(w, Done, NotDone) == Struck(w, "error") /\ (Done \/ NotDone)

FaultsInit == faults = [k \in FaultKinds |-> 0] /\ stopping = {}
FaultsType == faults \in [FaultKinds -> Nat] /\ stopping \subseteq Workers
====
