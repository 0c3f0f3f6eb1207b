---- MODULE Consumer ----
(***************************************************************************)
(* The consumer goroutine of a worker (internal/adapter/queue/consumer.go) *)
(* and the handler it calls (internal/app/delivery_service.go): one loop   *)
(* that takes a message, delivers the notification through the provider    *)
(* and settles its row.  Every database, provider and broker call is a     *)
(* step of its own, so other processes run between any two of them.        *)
(*                                                                         *)
(*   idle -> get -> mark -> send -> settle -> count  -> commit -> idle     *)
(*            |      |                 |--> republish ---^                  *)
(*            |      |---------------------> republish                      *)
(*            |--> commit (nothing to do) or republish (read failed)       *)
(***************************************************************************)
EXTENDS Store, Partition

VARIABLES
    cons,      \* cons[w]: where w's loop is, its offset, its copy of the row
    handled,   \* history: offsets whose loop iteration has come to its end
    tried,     \* history: tried[n] is how often Send was called for n
    accepted,  \* history: accepted[n] is how often the provider took n
    misled     \* history: notifications with an answer that read as a success
               \* though it did not say that the provider took them

consVars == <<cons, handled, tried, accepted, misled>>
sends    == <<tried, accepted, misled>>

ConsumerPCs == {"idle", "get", "mark", "send", "settle", "count",
                "republish", "commit"}

Idle == [pc |-> "idle", off |-> 0, copy |-> NoRow]

ConsumerInit ==
    /\ cons = [w \in Workers |-> Idle]
    /\ handled = {}
    /\ tried = [n \in Notifs |-> 0]
    /\ accepted = [n \in Notifs |-> 0]
    /\ misled = {}

Loops == [pc : ConsumerPCs, off : Nat, copy : Rows]

ConsumerType ==
    /\ cons \in [Workers -> Loops]
    /\ handled \subseteq Nat
    /\ tried \in [Notifs -> Nat]
    /\ accepted \in [Notifs -> Nat]
    /\ misled \subseteq Notifs

Busy(w) == cons[w].pc # "idle"
Msg(w)  == log[cons[w].off]

Goto(w, pc, copy) == cons' = [cons EXCEPT ![w].pc = pc, ![w].copy = copy]

\* Variant: ReadMessage, which commits as it fetches.
Fetch_Commits(w) ==
    /\ cons[w].pc = "idle"
    /\ Reads(w)
    /\ next[w] <= Len(log)
    /\ cons' = [cons EXCEPT ![w] = [pc |-> "get", off |-> next[w], copy |-> NoRow]]
    /\ next' = [next EXCEPT ![w] = @ + 1]
    /\ NoteOffset(w, next[w])
    /\ UNCHANGED <<storeVars, log, committed, owner, zombies, lost,
                   handled, sends, faults, stopping>>

\* FetchMessage.  A reader whose context is cancelled may still return a
\* message it has buffered.  Only Enqueue and retry write to the topics, so a
\* message that does not unmarshal, which is committed unhandled, never comes.
Fetch(w) ==
    /\ cons[w].pc = "idle"
    /\ Reads(w)
    /\ next[w] <= Len(log)
    /\ cons' = [cons EXCEPT ![w] = [pc |-> "get", off |-> next[w], copy |-> NoRow]]
    /\ next' = [next EXCEPT ![w] = @ + 1]
    /\ UNCHANGED <<storeVars, log, committed, owner, zombies, pend, lost,
                   handled, sends, faults, stopping>>

\* Variant: a failed read ends the handler as if it had succeeded.
Load_DropsError(w) ==
    /\ cons[w].pc = "get"
    /\ LET r == row[Msg(w)] IN
       \/ /\ CallOk(w)
          /\ IF r.status \in {"cancelled", "delivered"}
             THEN Goto(w, "commit", NoRow)
             ELSE Goto(w, "mark", MarkProcessing(r))
       \/ CallFails(w, TRUE, TRUE) /\ Goto(w, "commit", NoRow)
    /\ UNCHANGED <<storeVars, partitionVars, handled, sends, stopping>>

\* Variant: only delivered notifications are skipped.
Load_SendsCancelled(w) ==
    /\ cons[w].pc = "get"
    /\ LET r == row[Msg(w)] IN
       \/ /\ CallOk(w)
          /\ IF r.status = "delivered"
             THEN Goto(w, "commit", NoRow)
             ELSE Goto(w, "mark", MarkProcessing(r))
       \/ CallFails(w, TRUE, TRUE) /\ Goto(w, "republish", NoRow)
    /\ UNCHANGED <<storeVars, partitionVars, handled, sends, stopping>>

\* GetByID, then the early return for a notification that is settled.
Load(w) ==
    /\ cons[w].pc = "get"
    /\ LET r == row[Msg(w)] IN
       \/ /\ CallOk(w)
          /\ IF r.status \in {"cancelled", "delivered"}
             THEN Goto(w, "commit", NoRow)
             ELSE Goto(w, "mark", MarkProcessing(r))
       \/ CallFails(w, TRUE, TRUE) /\ Goto(w, "republish", NoRow)
    /\ UNCHANGED <<storeVars, partitionVars, handled, sends, stopping>>

\* Variant: the error of UpdateStatus is only logged, as after Send.
Mark_IgnoresError(w) ==
    /\ cons[w].pc = "mark"
    /\ \/ CallOk(w) /\ UpdateStatus(Msg(w), cons[w].copy)
       \/ CallFails(w, UpdateStatus(Msg(w), cons[w].copy), UNCHANGED <<row, aged>>)
    /\ Goto(w, "send", cons[w].copy)
    /\ UNCHANGED <<due, batch, partitionVars, handled, sends, stopping>>

\* UpdateStatus to processing; an error ends the handler before Send.
Mark(w) ==
    /\ cons[w].pc = "mark"
    /\ \/ /\ CallOk(w)
          /\ UpdateStatus(Msg(w), cons[w].copy)
          /\ Goto(w, "send", cons[w].copy)
       \/ /\ CallFails(w, UpdateStatus(Msg(w), cons[w].copy), UNCHANGED <<row, aged>>)
          /\ Goto(w, "republish", NoRow)
    /\ UNCHANGED <<due, batch, partitionVars, handled, sends, stopping>>

\* provider.Send: taken, refused for good (an open circuit breaker refuses in
\* this way too), refused for now, taken with the answer lost, or neither taken
\* nor refused but answered below 400 all the same, which reads as a success.
\* The loss of an answer counts as transient unless it happens while the body
\* is read.
Send(w) ==
    /\ cons[w].pc = "send"
    /\ LET n == Msg(w)
           r == cons[w].copy
           Took    == accepted' = [accepted EXCEPT ![n] = @ + 1] /\ UNCHANGED misled
           NotTook == UNCHANGED <<accepted, misled>>
       IN /\ tried' = [tried EXCEPT ![n] = @ + 1]
          /\ \/ CallOk(w) /\ Took /\ Goto(w, "settle", MarkDelivered(r))
             \/ CallOk(w) /\ NotTook /\ Goto(w, "settle", AfterSendError(n, r, FALSE))
             \/ /\ Struck(w, "unavailable")
                /\ NotTook
                /\ Goto(w, "settle", AfterSendError(n, r, TRUE))
             \/ /\ Struck(w, "timeout")
                /\ Took
                /\ \E transient \in BOOLEAN :
                      Goto(w, "settle", AfterSendError(n, r, transient))
             \/ /\ w \notin stopping
                /\ Spend("redirect")
                /\ misled' = misled \cup {n}
                /\ UNCHANGED accepted
                /\ Goto(w, "settle", MarkDelivered(r))
    /\ UNCHANGED <<storeVars, partitionVars, handled, stopping>>

\* UpdateStatus with the outcome; its error is only logged.
Settle(w) ==
    /\ cons[w].pc = "settle"
    /\ LET n == Msg(w)
           r == cons[w].copy
       IN /\ \/ CallOk(w) /\ UpdateStatus(n, r)
             \/ CallFails(w, UpdateStatus(n, r), UNCHANGED <<row, aged>>)
          /\ CASE r.status = "processing" -> Goto(w, "republish", NoRow)
               [] r.status # "processing" /\ n \in Batched -> Goto(w, "count", r)
               [] OTHER -> Goto(w, "commit", NoRow)
    /\ UNCHANGED <<due, batch, partitionVars, handled, sends, stopping>>

\* IncrementBatchCounter; its error is dropped.
Count(w) ==
    /\ cons[w].pc = "count"
    /\ LET Increment == IncrementBatchCounter(Msg(w), cons[w].copy.status)
       IN \/ CallOk(w) /\ Increment
          \/ CallFails(w, Increment, UNCHANGED batch)
    /\ Goto(w, "commit", NoRow)
    /\ UNCHANGED <<row, due, aged, partitionVars, handled, sends, stopping>>

\* retry: write the message to the end of the topic; an error is only logged.
Republish(w) ==
    /\ cons[w].pc = "republish"
    /\ \/ CallOk(w) /\ Publish(Msg(w))
       \/ PublishFails(w, Msg(w))
    /\ Goto(w, "commit", NoRow)
    /\ UNCHANGED <<storeVars, groupVars, handled, sends, stopping>>

\* CommitMessages; with a cancelled context it may return without noting.
Commit(w) ==
    /\ cons[w].pc = "commit"
    /\ \/ NoteOffset(w, cons[w].off)
       \/ w \in stopping /\ UNCHANGED pend
    /\ handled' = handled \cup {cons[w].off}
    /\ cons' = [cons EXCEPT ![w] = Idle]
    /\ UNCHANGED <<storeVars, log, committed, owner, zombies, next, lost,
                   sends, faults, stopping>>

ConsumerStep(w) == \/ Fetch(w) \/ Load(w) \/ Mark(w) \/ Send(w) \/ Settle(w)
                   \/ Count(w) \/ Republish(w) \/ Commit(w)
====
