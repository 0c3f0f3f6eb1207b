---- MODULE Partition ----
(***************************************************************************)
(* One partition of a priority topic and the consumer group that reads it. *)
(* A notification is keyed by its id and always goes to the topic of its   *)
(* priority, so all its messages are in one partition; partitions share    *)
(* nothing but the database.                                               *)
(*                                                                         *)
(* committed is the group's offset at the broker: messages 1..committed    *)
(* are not handed out again.  A worker that has lost the partition may go  *)
(* on delivering from its buffer until it hears of it: it is a zombie.     *)
(***************************************************************************)
EXTENDS Notification, Faults, Sequences

CONSTANT NoWorker
ASSUME NoWorkerAssumption == NoWorker \notin Workers

VARIABLES
    log,        \* the messages, each a notification id
    committed,  \* the offset the broker keeps for the group
    owner,      \* the worker the broker has assigned the partition to
    zombies,    \* workers that do not know yet that they lost it
    next,       \* next[w]: the offset w's reader delivers next
    pend,       \* pend[w]: offset w has asked to commit since the last flush, or 0
    lost        \* history: notifications with a publish that did not succeed, and
                \* none that did since

partitionVars == <<log, committed, owner, zombies, next, pend, lost>>
groupVars == <<committed, owner, zombies, next, pend>>

PartitionInit ==
    /\ log = <<>>
    /\ committed = 0
    /\ owner = NoWorker
    /\ zombies = {}
    /\ next = [w \in Workers |-> 1]
    /\ pend = [w \in Workers |-> 0]
    /\ lost = {}

PartitionType ==
    /\ log \in Seq(Notifs)
    /\ committed \in Nat
    /\ owner \in Workers \cup {NoWorker}
    /\ zombies \subseteq Workers
    /\ next \in [Workers -> Nat \ {0}]
    /\ pend \in [Workers -> Nat]
    /\ lost \subseteq Notifs

\* A write that is acknowledged, and one that reports an error: the broker
\* has the message (kept) or not.
Publish(n) == log' = Append(log, n) /\ lost' = lost \ {n}
PublishErrs(n, kept) == /\ log' = IF kept THEN Append(log, n) ELSE log
                        /\ lost' = lost \cup {n}

\* A write by worker w that fails.  A message that it leaves behind at the
\* broker counts as a fault even when the context is cancelled, which bounds
\* the log.
PublishFails(w, n) == \/ Struck(w, "error") /\ PublishErrs(n, FALSE)
                      \/ Spend("error") /\ PublishErrs(n, TRUE)

Reads(w) == w = owner \/ w \in zombies

\* CommitMessages with a CommitInterval only notes the offset.
NoteOffset(w, off) == pend' = [pend EXCEPT ![w] = IF off > @ THEN off ELSE @]

\* The group hands the partition to w (again, or in place of another worker);
\* w starts at the committed offset.
Assign(w) ==
    /\ w \notin stopping
    /\ IF owner = NoWorker
       THEN /\ zombies' = zombies \ {w}
            /\ UNCHANGED faults
       ELSE /\ zombies' = (zombies \cup {owner}) \ {w}
            /\ Spend("rebalance")
    /\ owner' = w
    /\ next' = [next EXCEPT ![w] = committed + 1]
    /\ UNCHANGED <<log, committed, pend, lost, stopping>>

\* A zombie hears of the rebalance and drops its buffer.
Revoke(w) ==
    /\ w \in zombies
    /\ zombies' = zombies \ {w}
    /\ UNCHANGED <<log, committed, owner, next, pend, lost, faults, stopping>>

\* The reader's commit loop sends the noted offset.  The broker takes it from
\* any current member of the group, even below the present offset, and
\* rejects it from a worker with an old generation.
Flush(w) ==
    /\ pend[w] > 0
    /\ \/ committed' = pend[w]
       \/ owner # w /\ UNCHANGED committed
    /\ pend' = [pend EXCEPT ![w] = 0]
    /\ UNCHANGED <<log, owner, zombies, next, lost, faults, stopping>>

\* The worker leaves the group, its last commit sent (final) or lost.
Leave(w, final) ==
    /\ committed' = IF final /\ pend[w] > 0 THEN pend[w] ELSE committed
    /\ owner' = IF owner = w THEN NoWorker ELSE owner
    /\ zombies' = zombies \ {w}
    /\ pend' = [pend EXCEPT ![w] = 0]
    /\ UNCHANGED <<log, next>>
====
