---- MODULE LifeCycle ----
(***************************************************************************)
(* Abstract: what the world sees of notifications, a client that polls     *)
(* GET /notifications/{id} and a recipient, without workers, messages or   *)
(* copies of rows.  While the system is tidy, statuses move along the      *)
(* edges below only; untidy, a status may be overwritten by a stale copy,  *)
(* but even then no status is made up.                                     *)
(***************************************************************************)
EXTENDS Integers

CONSTANT Notifs

VARIABLES
    status,     \* status[n]: what a client reads
    sent,       \* sent[n]: how often the provider has taken n
    misled,     \* those an answer called a success that was not one
    mishaps,    \* faults so far that may make the system do a thing again
    tidy        \* no write may be older than the five minutes of recovery

vars == <<status, sent, misled, mishaps, tidy>>

Init == /\ status = [n \in Notifs |-> "absent"]
        /\ sent = [n \in Notifs |-> 0]
        /\ misled = {}
        /\ mishaps = 0
        /\ tidy \in BOOLEAN

\* A request creates one notification or a batch of them.
Accept == \E later, now \in SUBSET {n \in Notifs : status[n] = "absent"} :
    /\ status' = [n \in Notifs |-> IF n \in later THEN "scheduled"
                                   ELSE IF n \in now THEN "pending" ELSE status[n]]
    /\ UNCHANGED <<sent, misled>>

Moves(n, From, to) ==
    /\ status[n] # "absent" /\ (tidy' => status[n] \in From)
    /\ status' = [status EXCEPT ![n] = to]
    /\ UNCHANGED <<sent, misled>>

Release(n) == Moves(n, {"scheduled"}, "pending")
TakeUp(n)  == Moves(n, {"pending"}, "processing")
Deliver(n) == /\ sent[n] > 0 \/ n \in misled
              /\ Moves(n, {"processing"}, "delivered")
Fail(n)    == Moves(n, {"processing"}, "failed")
Recover(n) == Moves(n, {"processing"}, "pending")
Cancel(n)  == /\ status[n] \in {"pending", "scheduled"}
              /\ Moves(n, {"pending", "scheduled"}, "cancelled")

\* A copy older than the cancellation is written back.
Revive(n)  == \E s \in {"pending", "processing"} : Moves(n, {"cancelled"}, s)

\* A message that comes again does not find a failed notification settled.
Repeat(n)  == mishaps > 0 /\ Moves(n, {"failed"}, "processing")

\* The provider takes n: while its status says so, and again only after a
\* mishap for each time.
Send(n) ==
    /\ tidy' => (status[n] = "processing" /\ sent[n] <= mishaps')
    /\ sent' = [sent EXCEPT ![n] = @ + 1]
    /\ UNCHANGED <<status, misled>>

\* The provider answers n with a redirect or the like: not an error, and not
\* the word that it took n.
Mislead(n) ==
    /\ tidy' => status[n] = "processing"
    /\ misled' = misled \cup {n}
    /\ UNCHANGED <<status, sent>>

Next ==
    /\ mishaps' \in {mishaps, mishaps + 1}
    /\ tidy' \in {tidy, FALSE}
    /\ \/ UNCHANGED <<status, sent, misled>>
       \/ \E n \in Notifs : \/ Release(n) \/ TakeUp(n) \/ Deliver(n) \/ Fail(n) \/ Recover(n)
                            \/ Cancel(n) \/ Revive(n) \/ Repeat(n)
                            \/ Send(n) \/ Mislead(n)
       \/ Accept

Spec == Init /\ [][Next]_vars
====
