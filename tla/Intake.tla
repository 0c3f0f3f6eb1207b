---- MODULE Intake ----
(***************************************************************************)
(* Create and CreateBatch with idempotency keys: NotificationService in    *)
(* internal/app/notification_service.go over the idempotency_keys table    *)
(* and the UNIQUE column of notifications.  Any number of API replicas     *)
(* serve the requests; each call to Postgres or Kafka is a step, so        *)
(* retries and twins of a request run between any two of them.  All        *)
(* requests here are for immediate delivery; what becomes of a stored      *)
(* notification is the subject of System.                                  *)
(***************************************************************************)
EXTENDS Faults, Limiter

CONSTANTS Requests,    \* create requests, retries of the same request included
          Keys,        \* idempotency keys
          NoId         \* no notification

\* The notification request r makes for key k.
Ids == Requests \X Keys
KeyOf(i) == i[2]

ASSUME NoIdAssumption == NoId \notin Ids

VARIABLES
    stored,   \* the rows of notifications
    entry,    \* entry[k]: the row of idempotency_keys for k
    live,     \* keys whose entry has not expired
    topic,    \* notifications in Kafka
    req       \* req[r]: the request, the step it is at and its answer

intakeVars == <<stored, entry, live, topic, req>>
vars == <<intakeVars, faults, stopping, limiterVars>>

RequestPCs == {"new", "check", "get", "render", "insert", "setnx", "publish", "done"}

\* keys: those of its items, one or a batch of them; found: the id Check returned;
\* todo: items not published yet; code and ids: the answer, 0 if there is none.
NoRequest == [pc |-> "new", kind |-> "single", keys |-> {}, found |-> NoId,
              todo |-> {}, code |-> 0, ids |-> {}]

Kinds == {"single", "batch"}
Codes == {0, 201, 400, 404, 409, 429, 500}

RequestStates == [pc : RequestPCs, kind : Kinds, keys : SUBSET Keys,
                  found : Ids \cup {NoId}, todo : SUBSET Ids,
                  code : Codes, ids : SUBSET Ids]

Init ==
    /\ FaultsInit
    /\ LimiterInit
    /\ stored = {}
    /\ entry = [k \in Keys |-> NoId]
    /\ live = {}
    /\ topic = {}
    /\ req = [r \in Requests |-> NoRequest]

Becomes(r, x) == req' = [req EXCEPT ![r] = x]
Goto(r, pc) == Becomes(r, [req[r] EXCEPT !.pc = pc])
Answer(r, code, ids) == Becomes(r, [req[r] EXCEPT !.pc = "done", !.code = code, !.ids = ids])

Items(r) == {r} \X req[r].keys
Fault == Spend("error") /\ UNCHANGED stopping
Fine == UNCHANGED <<faults, stopping>>

-----------------------------------------------------------------------------
\* A request comes in at some API process, for one notification or for a
\* batch; the limiter may turn it away.
Receive(r) ==
    /\ req[r].pc = "new"
    /\ \E keys \in (SUBSET Keys) \ {{}}, kind \in Kinds, p \in Replicas :
         LET x == [req[r] EXCEPT !.kind = kind, !.keys = keys]
         IN /\ kind = "single" => \E k \in Keys : keys = {k}
            /\ \/ /\ Allow(p)
                  /\ Becomes(r, [x EXCEPT !.pc = IF kind = "batch" THEN "render" ELSE "check"])
               \/ /\ Deny(p)
                  /\ Becomes(r, [x EXCEPT !.pc = "done", !.code = 429])
    /\ UNCHANGED <<stored, entry, live, topic>> /\ Fine

\* SELECT ... WHERE key AND expires_at > NOW().
Exists(k) == entry[k] # NoId /\ k \in live

\* Variant: the key is reserved before the notification is stored.
Check_Reserves(r) ==
    /\ req[r].pc = "check"
    /\ \E k \in req[r].keys :
         \/ /\ Exists(k)
            /\ Becomes(r, [req[r] EXCEPT !.pc = "get", !.found = entry[k]])
            /\ UNCHANGED <<entry, live>>
         \/ /\ ~Exists(k)
            /\ entry' = [entry EXCEPT ![k] = <<r, k>>]
            /\ live' = live \cup {k}
            /\ Goto(r, "render")
    /\ Fine
    /\ UNCHANGED <<stored, topic>>

\* idempotent.Check; an error counts as a miss.
Check(r) ==
    /\ req[r].pc = "check"
    /\ \E k \in req[r].keys :
         \/ /\ Exists(k)
            /\ Becomes(r, [req[r] EXCEPT !.pc = "get", !.found = entry[k]])
            /\ Fine
         \/ /\ ~Exists(k)
            /\ Goto(r, "render")
            /\ Fine
         \/ Goto(r, "render") /\ Fault
    /\ UNCHANGED <<stored, entry, live, topic>>

\* repo.GetByID of the notification the key stands for: the answer is 201.
Get(r) ==
    /\ req[r].pc = "get"
    /\ \/ req[r].found \in stored /\ Answer(r, 201, {req[r].found}) /\ Fine
       \/ req[r].found \notin stored /\ Answer(r, 404, {}) /\ Fine
       \/ Answer(r, 500, {}) /\ Fault
    /\ UNCHANGED <<stored, entry, live, topic>>

\* An item's template is not there, or cannot be read or rendered.
NoContent(r) == \E code \in {404, 500} : Answer(r, code, {})

\* validateChannel, validateRecipient, validateContent, validatePriority of
\* every item.
Validate(r) == Goto(r, "insert") \/ Answer(r, 400, {})

\* For each item: the template, if it names one, is looked up and rendered,
\* and NewNotification validates the result.
Render(r) ==
    /\ req[r].pc = "render"
    /\ NoContent(r) \/ Validate(r)
    /\ UNCHANGED <<stored, entry, live, topic>> /\ Fine

Taken(r) == \E i \in stored : KeyOf(i) \in req[r].keys

AfterInsert(r) ==
    Becomes(r, [req[r] EXCEPT !.pc = IF req[r].kind = "batch" THEN "publish" ELSE "setnx", !.todo = Items(r)])

\* Variant: no UNIQUE constraint on idempotency_key.
Insert_NotUnique(r) ==
    /\ req[r].pc = "insert"
    /\ \/ stored' = stored \cup Items(r) /\ AfterInsert(r) /\ Fine
       \/ Answer(r, 500, {}) /\ stored' \in {stored, stored \cup Items(r)} /\ Fault
    /\ UNCHANGED <<entry, live, topic>>

\* Variant: the rows of a batch are stored one by one.
Insert_RowByRow(r) ==
    /\ req[r].pc = "insert"
    /\ \/ ~Taken(r) /\ stored' = stored \cup Items(r) /\ AfterInsert(r) /\ Fine
       \/ /\ Taken(r) /\ Answer(r, 409, {}) /\ Fine
          /\ stored' = stored \cup {i \in Items(r) : \A j \in stored : KeyOf(i) # KeyOf(j)}
    /\ UNCHANGED <<entry, live, topic>>

\* Variant: the duplicate is taken for success.
Insert_IgnoresConflict(r) ==
    /\ req[r].pc = "insert"
    /\ \/ ~Taken(r) /\ stored' = stored \cup Items(r) /\ AfterInsert(r) /\ Fine
       \/ Taken(r) /\ UNCHANGED stored /\ AfterInsert(r) /\ Fine
    /\ UNCHANGED <<entry, live, topic>>

\* repo.Create or CreateBatch: all rows or none.  A key that is taken makes
\* the answer a 409; after any other error the rows may be there all the same.
Insert(r) ==
    /\ req[r].pc = "insert"
    /\ \/ ~Taken(r) /\ stored' = stored \cup Items(r) /\ AfterInsert(r) /\ Fine
       \/ Taken(r) /\ Answer(r, 409, {}) /\ UNCHANGED stored /\ Fine
       \/ /\ Answer(r, 500, {})
          /\ UNCHANGED stored \/ (~Taken(r) /\ stored' = stored \cup Items(r))
          /\ Fault
    /\ UNCHANGED <<entry, live, topic>>

\* Variant: the two columns are swapped.
AddEntry_Swapped(r, k) ==
    IF entry[k] = NoId /\ <<r, k>> \in stored
    THEN entry' = [entry EXCEPT ![k] = <<k, r>>] /\ live' = live \cup {k}
    ELSE UNCHANGED <<entry, live>>

\* ON CONFLICT DO NOTHING; an expired entry is a conflict, too.  The foreign
\* key rejects an entry for a notification that is not there.
AddEntry(r, k) ==
    IF entry[k] = NoId /\ <<r, k>> \in stored
    THEN entry' = [entry EXCEPT ![k] = <<r, k>>] /\ live' = live \cup {k}
    ELSE UNCHANGED <<entry, live>>

\* idempotent.SetNX; its error is only logged.
SetNX(r) ==
    /\ req[r].pc = "setnx"
    /\ \E k \in req[r].keys :
         \/ AddEntry(r, k) /\ Fine
         \/ (AddEntry(r, k) \/ UNCHANGED <<entry, live>>) /\ Fault
    /\ Goto(r, "publish")
    /\ UNCHANGED <<stored, topic>>

\* The request goes on with its other items, or answers.
Published(r, todo) ==
    Becomes(r, IF todo = {}
               THEN [req[r] EXCEPT !.pc = "done", !.todo = {}, !.code = 201, !.ids = Items(r)]
               ELSE [req[r] EXCEPT !.todo = todo])

\* Variant: Create drops the error of Enqueue as CreateBatch does.
Publish_DropsError(r) ==
    /\ req[r].pc = "publish"
    /\ \E i \in req[r].todo :
         LET todo == req[r].todo \ {i} IN
         /\ Published(r, todo)
         /\ \/ topic' = topic \cup {i} /\ Fine
            \/ topic' \in {topic, topic \cup {i}} /\ Fault
    /\ UNCHANGED <<stored, entry, live>>

\* Enqueue of one item.  An error of it is the answer of Create, and nothing
\* to CreateBatch, which goes on with the next item.
Publish(r) ==
    /\ req[r].pc = "publish"
    /\ \E i \in req[r].todo :
         LET todo == req[r].todo \ {i}
         IN \/ topic' = topic \cup {i} /\ Published(r, todo) /\ Fine
            \/ /\ topic' \in {topic, topic \cup {i}}
               /\ IF req[r].kind = "batch" THEN Published(r, todo) ELSE Answer(r, 500, {})
               /\ Fault
    /\ UNCHANGED <<stored, entry, live>>

\* 24 hours pass since the entry was written.
Expire(k) == /\ k \in live
             /\ live' = live \ {k}
             /\ UNCHANGED <<stored, entry, topic, req>> /\ Fine

\* The replica that serves r dies, or the client goes away and its context
\* with it: there is no answer and no further step.
Abandon(r) ==
    /\ req[r].pc \notin {"new", "done"}
    /\ Spend("crash")
    /\ Answer(r, 0, {})
    /\ UNCHANGED <<stored, entry, live, topic, stopping>>

\* Any other request to /api/v1 asks the limiter, too.
OtherRequest == /\ \E p \in Replicas : Allow(p) \/ Deny(p)
                /\ UNCHANGED <<intakeVars, faults, stopping>>

Time == Tick /\ UNCHANGED <<intakeVars, faults, stopping>>

AllDone == (\A r \in Requests : req[r].pc = "done") /\ UNCHANGED vars

Serve(r) == \/ Check(r) \/ Get(r) \/ Render(r) \/ Insert(r)
            \/ SetNX(r) \/ Publish(r) \/ Abandon(r)

Next == \/ \E r \in Requests : Receive(r)
        \/ /\ (\E r \in Requests : Serve(r)) \/ (\E k \in Keys : Expire(k))
           /\ UNCHANGED limiterVars
        \/ OtherRequest
        \/ Time
        \/ AllDone

Safety == Init /\ [][Next]_vars

-----------------------------------------------------------------------------
IntakeType ==
    /\ stored \subseteq Ids
    /\ entry \in [Keys -> Ids \cup {NoId}]
    /\ live \subseteq Keys
    /\ topic \subseteq Ids
    /\ req \in [Requests -> RequestStates]

\* Every variable holds a value of its kind.
TypeOK == FaultsType /\ LimiterType /\ IntakeType

\* A key makes one notification at most, however its requests interleave, and
\* also after its entry has expired or was never written.
OnePerKey == \A i, j \in stored : KeyOf(i) = KeyOf(j) => i = j

\* All clients that are told 201 for a key are told the same notification, be
\* it the one their request stored or the one an earlier request did, and that
\* notification exists.
AnswersAgree ==
    \A r, q \in Requests :
       /\ req[r].ids \subseteq stored
       /\ \A i \in req[r].ids, j \in req[q].ids : KeyOf(i) = KeyOf(j) => i = j

\* A hit of Check never leads to a 404: the notification of an entry is stored
\* first.
NoDeadEnd == \A r \in Requests : req[r].found # NoId => req[r].code # 404

\* A request that is refused (400, 404, 409, 429) leaves nothing of any of its
\* items behind, neither rows nor entries nor messages, so that it can be
\* repeated with the same keys once the reason is gone.
Refusals == {400, 404, 409, 429}

RefusedLeavesNothing ==
    \A r \in Requests : req[r].code \in Refusals =>
        Items(r) \cap (stored \cup topic \cup {entry[k] : k \in Keys}) = {}

\* The request that stores a notification on its own, and is told 201, has
\* enqueued it.  A retry that is told 201 of it may find that nobody has: the
\* first request got a 500 when its Enqueue failed after SetNX.
CreatorHasEnqueued ==
    \A r \in Requests : req[r].code = 201 /\ req[r].kind = "single" =>
        req[r].ids \cap Items(r) \subseteq topic
====
