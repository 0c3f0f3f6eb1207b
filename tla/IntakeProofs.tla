---- MODULE IntakeProofs ----
(***************************************************************************)
(* The idempotency promises and the rate limiter, for any number of requests, keys and faults.  *)
(***************************************************************************)
EXTENDS Intake, TLAPS

\* The rows a request has stored, by the step it is at: none up to the INSERT
\* and none if it is refused, all of them after the INSERT.  Whatever is found
\* or answered is stored, and what a single creation answers of its own is in
\* the topic.
RequestInv(r) ==
    /\ req[r].pc \in {"new", "check", "get", "render", "insert"} \/ req[r].code \in Refusals
          => \A i \in stored : i[1] # r
    /\ req[r].pc \in {"setnx", "publish"} => Items(r) \subseteq stored
    /\ req[r].pc = "get" => req[r].found \in stored
    /\ req[r].pc \in {"new", "check", "render", "insert"} => req[r].found = NoId
    /\ req[r].pc \in {"new", "check", "get", "render", "insert"} => req[r].todo = {}
    /\ req[r].todo \subseteq Items(r)
    /\ req[r].ids \subseteq stored
    /\ req[r].pc # "new" /\ req[r].kind = "single" => \E k \in Keys : req[r].keys = {k}
    /\ req[r].pc # "done" => req[r].code = 0
    /\ req[r].code = 201 /\ req[r].kind = "single" => req[r].ids \cap Items(r) \subseteq topic
    /\ req[r].code = 404 => req[r].found = NoId

\* What is entered or in the topic is stored.
EntriesStored == /\ \A k \in Keys : entry[k] # NoId => entry[k] \in stored
                 /\ topic \subseteq stored

Typed == FaultsType /\ IntakeType

Inv == /\ Typed
       /\ OnePerKey
       /\ EntriesStored
       /\ \A r \in Requests : RequestInv(r)

-----------------------------------------------------------------------------
\* A request's items are ids, told apart by their keys.
LEMMA ItemFacts ==
  ASSUME NEW r \in Requests, NEW K \in SUBSET Keys
  PROVE  /\ {r} \X K \subseteq Ids
         /\ \A i \in {r} \X K : i[1] = r /\ KeyOf(i) \in K
         /\ \A i, j \in {r} \X K : KeyOf(i) = KeyOf(j) => i = j
BY DEF Ids, KeyOf

\* A step that leaves every other request alone, and only adds rows of r and
\* messages, keeps what is known of the others.
LEMMA OthersKept ==
  ASSUME Inv, NEW r \in Requests, NEW q \in Requests, q # r, req'[q] = req[q],
         stored \subseteq stored', \A i \in stored' : i \in stored \/ i[1] = r,
         topic \subseteq topic'
  PROVE  RequestInv(q)'
BY DEF Inv, RequestInv, Items

\* Errors and deaths are counted.
LEMMA FaultCounted ==
  ASSUME NEW k \in {"error", "crash"}, FaultsType, Spend(k), UNCHANGED stopping
  PROVE  FaultsType'
<1>1. k \in FaultKinds
  BY DEF FaultKinds
<1>2. QED
  BY <1>1 DEF FaultsType, Spend

\* One request moves on.
LEMMA BecomesType ==
  ASSUME NEW r \in Requests, NEW x \in RequestStates, req \in [Requests -> RequestStates],
         Becomes(r, x)
  PROVE  /\ req' \in [Requests -> RequestStates]
         /\ req'[r] = x
         /\ \A q \in Requests : q # r => req'[q] = req[q]
BY DEF Becomes

\* A call that fails within the bound, or does not fail, leaves the counts in type.
LEMMA FaultsKept ==
  ASSUME Inv, Fine \/ Fault
  PROVE  FaultsType'
<1>1. CASE Fine
  BY <1>1 DEF Fine, Inv, Typed, IntakeType, FaultsType
<1>2. CASE Fault
  BY <1>2, FaultCounted DEF Fault, Inv, Typed, IntakeType
<1>3. QED
  BY <1>1, <1>2

\* A step that only moves the request to another label.
LEMMA GotoMakes ==
  ASSUME NEW r \in Requests, NEW p \in RequestPCs, Inv, Goto(r, p)
  PROVE  \E x \in RequestStates :
           /\ Becomes(r, x) /\ x.pc = p
           /\ x.kind = req[r].kind /\ x.keys = req[r].keys /\ x.found = req[r].found
           /\ x.todo = req[r].todo /\ x.code = req[r].code /\ x.ids = req[r].ids
<1>1. PICK w \in RequestStates : w = req[r]
  BY DEF Inv, Typed, IntakeType
<1> DEFINE x == [w EXCEPT !.pc = p]
<1>2. /\ x \in RequestStates
      /\ x.pc = p /\ x.kind = w.kind /\ x.keys = w.keys /\ x.found = w.found
      /\ x.todo = w.todo /\ x.code = w.code /\ x.ids = w.ids
  BY DEF RequestStates
<1>3. Becomes(r, x)
  BY <1>1 DEF Goto
<1> HIDE DEF x
<1>4. QED
  BY <1>1, <1>2, <1>3

AnswerCodes == {0, 201, 400, 404, 409, 500}

\* A step that ends the request.
LEMMA AnswerMakes ==
  ASSUME NEW r \in Requests, NEW c \in AnswerCodes, NEW a \in SUBSET Ids, Inv,
         Answer(r, c, a)
  PROVE  \E x \in RequestStates :
           /\ Becomes(r, x) /\ x.pc = "done" /\ x.code = c /\ x.ids = a
           /\ x.kind = req[r].kind /\ x.keys = req[r].keys /\ x.todo = req[r].todo
           /\ x.found = req[r].found
<1>1. PICK w \in RequestStates : w = req[r]
  BY DEF Inv, Typed, IntakeType
<1> DEFINE x == [w EXCEPT !.pc = "done", !.code = c, !.ids = a]
<1>2. /\ x \in RequestStates
      /\ x.pc = "done" /\ x.code = c /\ x.ids = a
      /\ x.kind = w.kind /\ x.keys = w.keys /\ x.todo = w.todo /\ x.found = w.found
  <2>1. "done" \in RequestPCs /\ c \in Codes
    BY DEF RequestPCs, Codes, AnswerCodes
  <2>2. QED
    BY <2>1 DEF RequestStates
<1>3. Becomes(r, x)
  BY <1>1 DEF Answer
<1> HIDE DEF x
<1>4. QED
  BY <1>1, <1>2, <1>3

\* The invariant after a step, from what the step changes.
LEMMA InvKept ==
  ASSUME Inv, NEW r \in Requests, NEW x \in RequestStates, Becomes(r, x),
         stored \subseteq stored', stored' \subseteq stored \cup Items(r),
         topic \subseteq topic', topic' \subseteq stored', FaultsType', live' \subseteq Keys,
         entry' \in [Keys -> stored' \cup {NoId}], OnePerKey', RequestInv(r)'
  PROVE  Inv'
<1>1. Items(r) \subseteq Ids /\ \A i \in Items(r) : i[1] = r
  <2>1. req[r].keys \in SUBSET Keys
    BY DEF Inv, Typed, IntakeType, RequestStates
  <2>2. QED
    BY <2>1, ItemFacts DEF Items
<1>2. \A q \in Requests : RequestInv(q)'
  BY <1>1, BecomesType, OthersKept DEF Inv, Typed, IntakeType
<1>3. Typed' /\ EntriesStored'
  BY <1>1, BecomesType DEF Inv, Typed, IntakeType, EntriesStored
<1>4. QED
  BY <1>2, <1>3 DEF Inv

\* A request comes in, or is turned away by the limiter.
LEMMA ReceiveKeeps ==
  ASSUME NEW r \in Requests, Inv, Receive(r)
  PROVE  Inv'
<1>1. PICK keys \in (SUBSET Keys) \ {{}}, kind \in Kinds :
        /\ kind = "single" => \E k \in Keys : keys = {k}
        /\ \/ Becomes(r, [[req[r] EXCEPT !.kind = kind, !.keys = keys]
                            EXCEPT !.pc = IF kind = "batch" THEN "render" ELSE "check"])
           \/ Becomes(r, [[req[r] EXCEPT !.kind = kind, !.keys = keys]
                            EXCEPT !.pc = "done", !.code = 429])
  BY ZenonT(60) DEF Receive
<1>2. PICK p \in {"check", "render"} : p = IF kind = "batch" THEN "render" ELSE "check"
  OBVIOUS
<1>3. PICK w \in RequestStates : w = req[r]
  BY DEF Inv, Typed, IntakeType
<1> DEFINE y == [w EXCEPT !.kind = kind, !.keys = keys]
<1>4. /\ y \in RequestStates /\ y.kind = kind /\ y.keys = keys /\ y.code = w.code
      /\ y.found = w.found /\ y.todo = w.todo /\ y.ids = w.ids
  BY DEF RequestStates
<1>5. \/ Becomes(r, [y EXCEPT !.pc = p])
      \/ Becomes(r, [y EXCEPT !.pc = "done", !.code = 429])
  BY <1>1, <1>2, <1>3
<1> HIDE DEF y
<1>6. /\ req[r].pc = "new"
      /\ UNCHANGED <<stored, entry, live, topic, faults, stopping>>
  BY DEF Receive, Fine
<1>7. PICK x \in RequestStates :
        /\ Becomes(r, x)
        /\ (x.pc = p /\ x.code = 0) \/ (x.pc = "done" /\ x.code = 429)
        /\ x.kind = kind /\ x.keys = keys /\ x.found = w.found /\ x.todo = w.todo /\ x.ids = w.ids
  <2>1. w.code = 0
    BY <1>3, <1>6 DEF Inv, RequestInv
  <2>2. p \in RequestPCs /\ "done" \in RequestPCs /\ 429 \in Codes
    BY DEF RequestPCs, Codes
  <2>3. CASE Becomes(r, [y EXCEPT !.pc = p])
    <3> DEFINE x == [y EXCEPT !.pc = p]
    <3>1. /\ x \in RequestStates /\ x.pc = p /\ x.code = y.code /\ x.kind = y.kind
          /\ x.keys = y.keys /\ x.found = y.found /\ x.todo = y.todo /\ x.ids = y.ids
      BY <1>4, <2>2 DEF RequestStates
    <3>2. Becomes(r, x)
      BY <2>3
    <3> HIDE DEF x
    <3>3. QED
      BY <1>4, <2>1, <3>1, <3>2
  <2>4. CASE Becomes(r, [y EXCEPT !.pc = "done", !.code = 429])
    <3>1. PICK q \in RequestPCs, d \in Codes : q = "done" /\ d = 429
      BY <2>2
    <3> DEFINE x == [y EXCEPT !.pc = q, !.code = d]
    <3>2. /\ x \in RequestStates /\ x.pc = q /\ x.code = d /\ x.kind = y.kind
          /\ x.keys = y.keys /\ x.found = y.found /\ x.todo = y.todo /\ x.ids = y.ids
      BY <1>4 DEF RequestStates
    <3>3. Becomes(r, x)
      BY <2>4, <3>1
    <3> HIDE DEF x
    <3>4. QED
      BY <1>4, <3>1, <3>2, <3>3
  <2>5. QED
    BY <1>5, <2>3, <2>4
<1>8. req'[r] = x
  BY <1>7, BecomesType DEF Inv, Typed, IntakeType
<1>9. RequestInv(r)
  BY DEF Inv
<1>10. RequestInv(r)'
  BY <1>1, <1>3, <1>6, <1>7, <1>8, <1>9 DEF RequestInv, Items, Refusals
<1>11. QED
  BY <1>6, <1>7, <1>10, InvKept DEF Inv, Typed, IntakeType, OnePerKey, EntriesStored, FaultsType

\* An answer names stored rows, and a 201 of a single creation enqueued ones.
LEMMA AnswerKeeps ==
  ASSUME NEW r \in Requests, NEW c \in AnswerCodes, NEW a \in SUBSET Ids, Inv,
         req[r].pc # "new", Answer(r, c, a), a \subseteq stored,
         c = 201 /\ req[r].kind = "single" => a \cap Items(r) \subseteq topic',
         c \in Refusals => \A i \in stored' : i[1] # r,
         c = 404 => req[r].found = NoId,
         stored \subseteq stored', stored' \subseteq stored \cup Items(r),
         topic \subseteq topic', topic' \subseteq stored', FaultsType', live' \subseteq Keys,
         entry' \in [Keys -> stored' \cup {NoId}], OnePerKey'
  PROVE  Inv'
<1>1. PICK x \in RequestStates :
        /\ Becomes(r, x) /\ x.pc = "done" /\ x.code = c /\ x.ids = a
        /\ x.kind = req[r].kind /\ x.keys = req[r].keys /\ x.todo = req[r].todo
           /\ x.found = req[r].found
  BY AnswerMakes
<1>2. req'[r] = x
  BY <1>1, BecomesType DEF Inv, Typed, IntakeType
<1>3. RequestInv(r)
  BY DEF Inv
<1>4. RequestInv(r)'
  BY <1>1, <1>2, <1>3 DEF RequestInv, Items, Refusals
<1>5. QED
  BY <1>1, <1>4, InvKept

\* A hit of Check finds a stored notification; a miss or an error changes nothing.
LEMMA CheckKeeps ==
  ASSUME NEW r \in Requests, Inv, Check(r)
  PROVE  Inv'
<1>1. PICK k \in req[r].keys :
        \/ /\ entry[k] # NoId
           /\ Becomes(r, [req[r] EXCEPT !.pc = "get", !.found = entry[k]])
           /\ Fine
        \/ Goto(r, "render") /\ (Fine \/ Fault)
  BY DEF Check, Exists
<1>2. /\ req[r].pc = "check"
      /\ UNCHANGED <<stored, entry, live, topic>>
  BY DEF Check
<1>3. FaultsType'
  BY <1>1, FaultsKept
<1>4. RequestInv(r)
  BY DEF Inv
<1>5. entry' \in [Keys -> stored' \cup {NoId}]
  BY <1>2 DEF Inv, Typed, IntakeType, EntriesStored
<1>6. live' \subseteq Keys /\ topic' \subseteq stored' /\ OnePerKey'
  BY <1>2 DEF Inv, Typed, IntakeType, EntriesStored, OnePerKey
<1>7. PICK w \in RequestStates : w = req[r]
  BY DEF Inv, Typed, IntakeType
<1>8. CASE entry[k] # NoId /\ Becomes(r, [req[r] EXCEPT !.pc = "get", !.found = entry[k]])
  <2>1. k \in Keys /\ entry[k] \in stored /\ entry[k] \in Ids \cup {NoId}
    BY <1>7, <1>8 DEF RequestStates, Inv, EntriesStored, Typed, IntakeType
  <2>2. PICK f \in Ids \cup {NoId} : f = entry[k]
    BY <2>1
  <2> DEFINE x == [w EXCEPT !.pc = "get", !.found = f]
  <2>3. /\ x \in RequestStates
        /\ x.pc = "get" /\ x.found = f /\ x.kind = w.kind /\ x.keys = w.keys
        /\ x.todo = w.todo /\ x.code = w.code /\ x.ids = w.ids
    <3>1. "get" \in RequestPCs
      BY DEF RequestPCs
    <3>2. QED
      BY <3>1 DEF RequestStates
  <2>4. Becomes(r, x)
    BY <1>7, <1>8, <2>2
  <2> HIDE DEF x
  <2>5. req'[r] = x
    BY <2>3, <2>4, BecomesType DEF Inv, Typed, IntakeType
  <2>6. RequestInv(r)'
    BY <1>2, <1>4, <1>7, <2>1, <2>2, <2>3, <2>5 DEF RequestInv, Items, Refusals
  <2>7. QED
    BY <1>2, <1>3, <1>5, <1>6, <2>3, <2>4, <2>6, InvKept
<1>9. CASE Goto(r, "render")
  <2>1. "render" \in RequestPCs
    BY DEF RequestPCs
  <2>2. PICK x \in RequestStates :
          /\ Becomes(r, x) /\ x.pc = "render"
          /\ x.kind = req[r].kind /\ x.keys = req[r].keys /\ x.found = req[r].found
          /\ x.todo = req[r].todo /\ x.code = req[r].code /\ x.ids = req[r].ids
    BY <1>9, <2>1, GotoMakes
  <2>3. req'[r] = x
    BY <2>2, BecomesType DEF Inv, Typed, IntakeType
  <2>4. RequestInv(r)'
    BY <1>2, <1>4, <2>2, <2>3 DEF RequestInv, Items, Refusals
  <2>5. QED
    BY <1>2, <1>3, <1>5, <1>6, <2>2, <2>4, InvKept
<1>10. QED
  BY <1>1, <1>8, <1>9

\* What Get answers with is stored, and is not of the request's own.
LEMMA GetKeeps ==
  ASSUME NEW r \in Requests, Inv, Get(r)
  PROVE  Inv'
<1>1. /\ req[r].pc = "get" /\ req[r].found \in stored
      /\ UNCHANGED <<stored, entry, live, topic>>
      /\ \A i \in stored : i[1] # r
  BY DEF Get, Inv, RequestInv
<1>2. FaultsType'
  BY FaultsKept DEF Get
<1>3. /\ entry' \in [Keys -> stored' \cup {NoId}]
      /\ live' \subseteq Keys /\ topic' \subseteq stored' /\ OnePerKey'
  BY <1>1 DEF Inv, Typed, IntakeType, EntriesStored, OnePerKey
<1>4. req[r].keys \in SUBSET Keys
  BY DEF Inv, Typed, IntakeType, RequestStates
<1>5. {req[r].found} \cap Items(r) = {}
  BY <1>1, <1>4, ItemFacts DEF Items
<1>6. CASE Answer(r, 201, {req[r].found})
  <2>1. {req[r].found} \in SUBSET Ids /\ 201 \in AnswerCodes /\ 201 \notin Refusals
    BY <1>1 DEF Inv, Typed, IntakeType, AnswerCodes, Refusals
  <2>2. QED
    BY <1>1, <1>2, <1>3, <1>5, <1>6, <2>1, AnswerKeeps
<1>7. CASE Answer(r, 500, {})
  <2>1. {} \in SUBSET Ids /\ 500 \in AnswerCodes /\ 500 \notin Refusals
    BY DEF AnswerCodes, Refusals
  <2>2. QED
    BY <1>1, <1>2, <1>3, <1>7, <2>1, AnswerKeeps
<1>8. QED
  BY <1>1, <1>6, <1>7 DEF Get

\* A template or an item that cannot be used ends the request before anything
\* is stored.
LEMMA RenderKeeps ==
  ASSUME NEW r \in Requests, Inv, Render(r)
  PROVE  Inv'
<1>1. /\ req[r].pc = "render" /\ req[r].found = NoId
      /\ UNCHANGED <<stored, entry, live, topic>>
      /\ \A i \in stored : i[1] # r
  BY DEF Render, NoContent, Validate, Inv, RequestInv
<1>2. FaultsType'
  BY FaultsKept DEF Render
<1>3. /\ entry' \in [Keys -> stored' \cup {NoId}]
      /\ live' \subseteq Keys /\ topic' \subseteq stored' /\ OnePerKey'
  BY <1>1 DEF Inv, Typed, IntakeType, EntriesStored, OnePerKey
<1>4. CASE \E c \in {400, 404, 500} : Answer(r, c, {})
  <2>1. PICK c \in {400, 404, 500} : Answer(r, c, {})
    BY <1>4
  <2>2. {} \in SUBSET Ids /\ c \in AnswerCodes /\ c # 201
    BY DEF AnswerCodes
  <2>3. QED
    BY <1>1, <1>2, <1>3, <2>1, <2>2, AnswerKeeps
<1>5. CASE Goto(r, "insert")
  <2>1. "insert" \in RequestPCs
    BY DEF RequestPCs
  <2>2. PICK x \in RequestStates :
          /\ Becomes(r, x) /\ x.pc = "insert"
          /\ x.kind = req[r].kind /\ x.keys = req[r].keys /\ x.found = req[r].found
          /\ x.todo = req[r].todo /\ x.code = req[r].code /\ x.ids = req[r].ids
    BY <1>5, <2>1, GotoMakes
  <2>3. req'[r] = x
    BY <2>2, BecomesType DEF Inv, Typed, IntakeType
  <2>4. RequestInv(r)
    BY DEF Inv
  <2>5. RequestInv(r)'
    BY <1>1, <2>2, <2>3, <2>4 DEF RequestInv, Items, Refusals
  <2>6. QED
    BY <1>1, <1>2, <1>3, <2>2, <2>5, InvKept
<1>6. QED
  BY <1>4, <1>5 DEF Render, NoContent, Validate

\* The rows of r, stored when none of its keys is taken, keep the keys apart.
LEMMA RowsAdded ==
  ASSUME NEW r \in Requests, Inv, ~Taken(r), stored' = stored \cup Items(r)
  PROVE  OnePerKey'
<1>1. req[r].keys \in SUBSET Keys
  BY DEF Inv, Typed, IntakeType, RequestStates
<1>2. /\ \A i \in Items(r) : KeyOf(i) \in req[r].keys
      /\ \A i, j \in Items(r) : KeyOf(i) = KeyOf(j) => i = j
  BY <1>1, ItemFacts DEF Items
<1>3. \A i \in stored : KeyOf(i) \notin req[r].keys
  BY DEF Taken
<1>4. \A i, j \in stored : KeyOf(i) = KeyOf(j) => i = j
  BY DEF Inv, OnePerKey
<1>5. QED
  BY <1>2, <1>3, <1>4 DEF OnePerKey, KeyOf

\* The INSERT stores all items or none, and nothing where a key is taken.
LEMMA InsertKeeps ==
  ASSUME NEW r \in Requests, Inv, Insert(r)
  PROVE  Inv'
<1>1. req[r].pc = "insert" /\ UNCHANGED <<entry, live, topic>>
  BY DEF Insert
<1>2. FaultsType'
  BY FaultsKept DEF Insert
<1>3. stored' = stored \/ (~Taken(r) /\ stored' = stored \cup Items(r))
  BY DEF Insert
<1>4. OnePerKey'
  BY <1>3, RowsAdded DEF Inv, OnePerKey
<1>5. stored \subseteq stored' /\ stored' \subseteq stored \cup Items(r)
  BY <1>3
<1>6. /\ entry' \in [Keys -> stored' \cup {NoId}]
      /\ live' \subseteq Keys /\ topic' \subseteq stored' /\ topic \subseteq topic'
  BY <1>1, <1>5 DEF Inv, Typed, IntakeType, EntriesStored
<1>7. CASE \/ Answer(r, 409, {}) /\ UNCHANGED stored
           \/ Answer(r, 500, {})
  <2>1. /\ {} \in SUBSET Ids /\ {409, 500} \subseteq AnswerCodes
        /\ 500 \notin Refusals /\ \A i \in stored : i[1] # r
    BY <1>1 DEF AnswerCodes, Refusals, Inv, RequestInv
  <2>2. CASE Answer(r, 409, {}) /\ UNCHANGED stored
    BY <1>1, <1>2, <1>4, <1>5, <1>6, <2>1, <2>2, AnswerKeeps
  <2>3. CASE Answer(r, 500, {})
    BY <1>1, <1>2, <1>4, <1>5, <1>6, <2>1, <2>3, AnswerKeeps
  <2>4. QED
    BY <1>7, <2>2, <2>3
<1>8. CASE stored' = stored \cup Items(r) /\ AfterInsert(r)
  <2>1. PICK w \in RequestStates : w = req[r]
    BY DEF Inv, Typed, IntakeType
  <2>2. PICK p \in {"publish", "setnx"} : p = IF req[r].kind = "batch" THEN "publish" ELSE "setnx"
    OBVIOUS
  <2>3. PICK t \in SUBSET Ids : t = Items(r)
    <3>1. req[r].keys \in SUBSET Keys
      BY DEF Inv, Typed, IntakeType, RequestStates
    <3>2. Items(r) \subseteq Ids
      BY <3>1, ItemFacts DEF Items
    <3>3. QED
      BY <3>2
  <2> DEFINE x == [w EXCEPT !.pc = p, !.todo = t]
  <2>4. /\ x \in RequestStates
        /\ x.pc = p /\ x.todo = t /\ x.kind = w.kind /\ x.keys = w.keys
        /\ x.code = w.code /\ x.ids = w.ids
    <3>1. p \in RequestPCs
      BY DEF RequestPCs
    <3>2. QED
      BY <3>1 DEF RequestStates
  <2>5. Becomes(r, x)
    BY <1>8, <2>1, <2>2, <2>3 DEF AfterInsert
  <2> HIDE DEF x
  <2>6. req'[r] = x
    BY <2>4, <2>5, BecomesType DEF Inv, Typed, IntakeType
  <2>7. RequestInv(r)
    BY DEF Inv
  <2>8. RequestInv(r)'
    BY <1>1, <1>8, <2>1, <2>3, <2>4, <2>6, <2>7 DEF RequestInv, Items, Refusals
  <2>9. QED
    BY <1>2, <1>4, <1>5, <1>6, <2>4, <2>5, <2>8, InvKept
<1>9. QED
  BY <1>7, <1>8 DEF Insert

\* SetNX enters a stored notification.
LEMMA SetNXKeeps ==
  ASSUME NEW r \in Requests, Inv, SetNX(r)
  PROVE  Inv'
<1>1. req[r].pc = "setnx" /\ UNCHANGED <<stored, topic>> /\ Goto(r, "publish")
  BY DEF SetNX
<1>2. PICK k \in req[r].keys :
        (AddEntry(r, k) \/ UNCHANGED <<entry, live>>) /\ (Fine \/ Fault)
  BY DEF SetNX
<1>3. FaultsType'
  BY <1>2, FaultsKept
<1>4. k \in Keys
  BY DEF Inv, Typed, IntakeType, RequestStates
<1>5. entry' \in [Keys -> stored' \cup {NoId}] /\ live' \subseteq Keys
  BY <1>1, <1>2, <1>4 DEF AddEntry, Inv, Typed, IntakeType, EntriesStored
<1>6. topic' \subseteq stored' /\ OnePerKey'
  BY <1>1 DEF Inv, Typed, IntakeType, EntriesStored, OnePerKey
<1>7. RequestInv(r)
  BY DEF Inv
<1>8. PICK x \in RequestStates :
        /\ Becomes(r, x) /\ x.pc = "publish"
        /\ x.kind = req[r].kind /\ x.keys = req[r].keys /\ x.found = req[r].found
        /\ x.todo = req[r].todo /\ x.code = req[r].code /\ x.ids = req[r].ids
  <2>1. "publish" \in RequestPCs
    BY DEF RequestPCs
  <2>2. QED
    BY <1>1, <2>1, GotoMakes
<1>9. req'[r] = x
  BY <1>8, BecomesType DEF Inv, Typed, IntakeType
<1>10. RequestInv(r)'
  BY <1>1, <1>7, <1>8, <1>9 DEF RequestInv, Items, Refusals
<1>11. QED
  BY <1>1, <1>3, <1>5, <1>6, <1>8, <1>10, InvKept

\* A single creation that goes on after Enqueue has enqueued its one item.
LEMMA PublishKeeps ==
  ASSUME NEW r \in Requests, Inv, Publish(r)
  PROVE  Inv'
<1>1. PICK i \in req[r].todo :
        /\ topic' \in {topic, topic \cup {i}}
        /\ \/ Answer(r, 500, {})
           \/ /\ Published(r, req[r].todo \ {i})
              /\ req[r].kind = "single" => topic' = topic \cup {i}
        /\ Fine \/ Fault
  BY DEF Publish
<1>2. req[r].pc = "publish" /\ UNCHANGED <<stored, entry, live>>
  BY DEF Publish
<1>3. FaultsType'
  BY <1>1, FaultsKept
<1>4. RequestInv(r)
  BY DEF Inv
<1>5. PICK w \in RequestStates : w = req[r]
  BY DEF Inv, Typed, IntakeType
<1>6. i \in Items(r) /\ Items(r) \subseteq stored /\ Items(r) \in SUBSET Ids
  BY <1>2, <1>4 DEF RequestInv, Inv, Typed, IntakeType
<1>7. /\ entry' \in [Keys -> stored' \cup {NoId}]
      /\ live' \subseteq Keys /\ OnePerKey'
  BY <1>2 DEF Inv, Typed, IntakeType, EntriesStored, OnePerKey
<1>8. topic \subseteq topic' /\ topic' \subseteq stored'
  BY <1>1, <1>2, <1>6 DEF Inv, EntriesStored
<1>9. CASE Answer(r, 500, {})
  <2>1. {} \in SUBSET Ids /\ 500 \in AnswerCodes /\ 500 \notin Refusals
    BY DEF AnswerCodes, Refusals
  <2>2. QED
    BY <1>2, <1>3, <1>7, <1>8, <1>9, <2>1, AnswerKeeps
<1>10. CASE /\ Published(r, req[r].todo \ {i})
            /\ req[r].kind = "single" => topic' = topic \cup {i}
  <2>1. req[r].kind = "single" => Items(r) \subseteq topic'
    BY <1>2, <1>4, <1>6, <1>10 DEF RequestInv, Items, Refusals
  <2>2. PICK t \in SUBSET Ids : t = req[r].todo \ {i}
    BY <1>5 DEF RequestStates
  <2>3. PICK a \in SUBSET Ids : a = Items(r)
    BY <1>6
  <2>4. CASE t = {}
    <3>1. PICK p \in RequestPCs, c \in Codes : p = "done" /\ c = 201
      BY DEF RequestPCs, Codes
    <3> DEFINE x == [w EXCEPT !.pc = p, !.todo = {}, !.code = c, !.ids = a]
    <3>2. /\ x \in RequestStates
          /\ x.pc = p /\ x.todo = {} /\ x.code = c /\ x.ids = a
          /\ x.kind = w.kind /\ x.keys = w.keys
      BY DEF RequestStates
    <3>3. Becomes(r, x)
      BY <1>5, <1>10, <2>2, <2>3, <2>4, <3>1 DEF Published
    <3> HIDE DEF x
    <3>4. req'[r] = x
      BY <3>2, <3>3, BecomesType DEF Inv, Typed, IntakeType
    <3>5. RequestInv(r)'
      BY <1>2, <1>4, <1>5, <1>6, <2>1, <2>3, <3>1, <3>2, <3>4 DEF RequestInv, Items, Refusals
    <3>6. QED
      BY <1>2, <1>3, <1>7, <1>8, <3>2, <3>3, <3>5, InvKept
  <2>5. CASE t # {}
    <3> DEFINE x == [w EXCEPT !.todo = t]
    <3>1. /\ x \in RequestStates
          /\ x.todo = t /\ x.pc = w.pc /\ x.code = w.code /\ x.ids = w.ids
          /\ x.kind = w.kind /\ x.keys = w.keys
      BY DEF RequestStates
    <3>2. Becomes(r, x)
      BY <1>5, <1>10, <2>2, <2>5 DEF Published
    <3> HIDE DEF x
    <3>3. req'[r] = x
      BY <3>1, <3>2, BecomesType DEF Inv, Typed, IntakeType
    <3>4. RequestInv(r)'
      BY <1>2, <1>4, <1>5, <2>2, <3>1, <3>3 DEF RequestInv, Items, Refusals
    <3>5. QED
      BY <1>2, <1>3, <1>7, <1>8, <3>1, <3>2, <3>4, InvKept
  <2>6. QED
    BY <2>4, <2>5
<1>11. QED
  BY <1>1, <1>9, <1>10

\* A request that is given up leaves what it has stored.
LEMMA AbandonKeeps ==
  ASSUME NEW r \in Requests, Inv, Abandon(r)
  PROVE  Inv'
<1>1. /\ req[r].pc # "new" /\ Answer(r, 0, {}) /\ Spend("crash")
      /\ UNCHANGED <<stored, entry, live, topic, stopping>>
  BY DEF Abandon
<1>2. FaultsType'
  BY <1>1, FaultCounted DEF Inv, Typed, IntakeType
<1>3. /\ entry' \in [Keys -> stored' \cup {NoId}]
      /\ live' \subseteq Keys /\ topic' \subseteq stored' /\ OnePerKey'
  BY <1>1 DEF Inv, Typed, IntakeType, EntriesStored, OnePerKey
<1>4. {} \in SUBSET Ids /\ 0 \in AnswerCodes /\ 0 \notin Refusals
  BY DEF AnswerCodes, Refusals
<1>5. QED
  BY <1>1, <1>2, <1>3, <1>4, AnswerKeeps

\* A step that leaves rows, entries, messages and requests alone.
LEMMA OthersUnchanged ==
  ASSUME Inv, UNCHANGED <<stored, entry, topic, req, faults, stopping>>, live' \subseteq Keys
  PROVE  Inv'
<1>1. Typed' /\ OnePerKey' /\ EntriesStored'
  BY DEF Inv, Typed, IntakeType, FaultsType, OnePerKey, EntriesStored
<1>2. \A q \in Requests : RequestInv(q)'
  BY DEF Inv, RequestInv, Items
<1>3. QED
  BY <1>1, <1>2 DEF Inv

\* At the start nothing is stored and no request has come in.
LEMMA InvInit == Init => Inv
<1> SUFFICES ASSUME Init PROVE Inv
  OBVIOUS
<1>1. NoRequest \in RequestStates
  BY DEF NoRequest, RequestStates, RequestPCs, Kinds, Codes
<1>2. FaultsType
  BY MaxFaultsAssumption DEF Init, FaultsInit, FaultsType
<1>3. Typed /\ OnePerKey /\ EntriesStored
  BY <1>1, <1>2 DEF Init, Typed, IntakeType, OnePerKey, EntriesStored
<1>4. \A r \in Requests : RequestInv(r)
  BY DEF Init, RequestInv, NoRequest, Items
<1>5. QED
  BY <1>3, <1>4 DEF Inv

\* Every step keeps the invariant.
LEMMA InvStep == Inv /\ [Next]_vars => Inv'
<1> SUFFICES ASSUME Inv, [Next]_vars PROVE Inv'
  OBVIOUS
<1>1. CASE UNCHANGED vars
  BY <1>1, OthersUnchanged DEF vars, intakeVars, Inv, Typed, IntakeType
<1>2. CASE \E k \in Keys : Expire(k)
  BY <1>2, OthersUnchanged DEF Expire, Fine, Inv, Typed, IntakeType
<1>3. CASE \E r \in Requests : Receive(r) \/ Serve(r)
  BY <1>3, ReceiveKeeps, CheckKeeps, GetKeeps, RenderKeeps, InsertKeeps, SetNXKeeps, PublishKeeps,
     AbandonKeeps DEF Serve
<1>4. CASE OtherRequest \/ Time
  BY <1>4, OthersUnchanged DEF OtherRequest, Time, intakeVars, Inv, Typed, IntakeType
<1>5. QED
  BY <1>1, <1>2, <1>3, <1>4 DEF Next, AllDone

\* The invariant holds in every behaviour of the intake.
LEMMA InvAlways == Safety => []Inv
<1>1. QED
  BY InvInit, InvStep, PTL DEF Safety

\* Whatever requests, retries and failures interleave, however soon entries
\* expire, one idempotency key never makes two rows of notifications.
THEOREM KeyMakesOne == Safety => []OnePerKey
<1>1. Inv => OnePerKey
  BY DEF Inv
<1>2. QED
  BY <1>1, InvAlways, PTL

\* Clients that are told 201 for one key are told one and the same
\* notification, and it is stored.
THEOREM ClientsAgree == Safety => []AnswersAgree
<1>1. Inv => AnswersAgree
  BY DEF Inv, RequestInv, AnswersAgree, OnePerKey
<1>2. QED
  BY <1>1, InvAlways, PTL

\* An idempotency entry never leads a retry of Create to a 404.
THEOREM HitsAreFound == Safety => []NoDeadEnd
<1>1. Inv => NoDeadEnd
  BY DEF Inv, RequestInv, NoDeadEnd
<1>2. QED
  BY <1>1, InvAlways, PTL

\* A request refused with 400, 404, 409 or 429 leaves no row, entry or message
\* of any of its items: it may be repeated with the same keys.
THEOREM RefusalsLeaveNothing == Safety => []RefusedLeavesNothing
<1>1. Inv => RefusedLeavesNothing
  <2> SUFFICES ASSUME Inv, NEW r \in Requests, req[r].code \in Refusals
               PROVE  Items(r) \cap (stored \cup topic \cup {entry[k] : k \in Keys}) = {}
    BY DEF RefusedLeavesNothing
  <2>1. \A i \in stored : i[1] # r
    BY DEF Inv, RequestInv
  <2>2. topic \subseteq stored /\ \A k \in Keys : entry[k] # NoId => entry[k] \in stored
    BY DEF Inv, EntriesStored
  <2>3. req[r].keys \in SUBSET Keys
    BY DEF Inv, Typed, IntakeType, RequestStates
  <2>4. \A i \in Items(r) : i[1] = r /\ i # NoId
    BY <2>3, ItemFacts, NoIdAssumption DEF Items
  <2>5. QED
    BY <2>1, <2>2, <2>4
<1>2. QED
  BY <1>1, InvAlways, PTL

\* A single creation that stored its notification and answers 201 has put it
\* in the topic: the error of Enqueue is never lost on this path.
THEOREM CreationEnqueues == Safety => []CreatorHasEnqueued
<1>1. Inv => CreatorHasEnqueued
  BY DEF Inv, RequestInv, CreatorHasEnqueued
<1>2. QED
  BY <1>1, InvAlways, PTL

-----------------------------------------------------------------------------
\* One tick more adds one refill.
LEMMA OneMore ==
  ASSUME NEW i \in Nat, NEW m \in Nat
  PROVE  (i + 1) * m = i * m + m /\ i * m \in Nat
OBVIOUS

\* What a refill leaves is a natural number up to the burst, and asking again
\* at the same moment changes nothing.
LEMMA RefilledFacts ==
  ASSUME LimiterType, NEW p \in Replicas
  PROVE  /\ Refilled(p) \in 0..Burst
         /\ tokens[p] + 0 * Refill = tokens[p]
<1>1. tokens[p] \in 0..Burst /\ idle[p] \in Nat /\ Refill \in Nat /\ Burst \in Nat
  BY LimiterAssumption DEF LimiterType
<1>2. idle[p] * Refill \in Nat
  BY <1>1
<1>3. QED
  BY <1>1, <1>2 DEF Refilled, Least

\* A call finds the bucket at Refilled(p) and leaves it at what it writes.
LEMMA AskedLeaves ==
  ASSUME LimiterType, NEW p \in Replicas, NEW left \in 0..Burst, Asked(p, left)
  PROVE  /\ LimiterType'
         /\ Level' = [Level EXCEPT ![p] = left]
<1>1. /\ tokens' = [tokens EXCEPT ![p] = left]
      /\ idle' = [idle EXCEPT ![p] = 0]
  BY DEF Asked
<1>2. LimiterType'
  BY <1>1 DEF LimiterType
<1>3. Refilled(p)' = left
  <2>1. tokens'[p] = left /\ idle'[p] = 0
    BY <1>1 DEF LimiterType
  <2>2. left \in Nat /\ left <= Burst /\ Burst \in Nat /\ Refill \in Nat
    BY LimiterAssumption
  <2>3. 0 * Refill = 0
    BY <2>2
  <2>4. QED
    BY <2>1, <2>2, <2>3 DEF Refilled, Least
<1>4. \A q \in Replicas : q # p => Refilled(q)' = Refilled(q)
  BY <1>1 DEF Refilled, LimiterType
<1>5. QED
  BY <1>2, <1>3, <1>4 DEF Level

\* Every step of the limiter keeps its types and is one of the abstract bucket.
LEMMA LimiterStep ==
  ASSUME LimiterType,
         (\E p \in Replicas : Allow(p) \/ Deny(p)) \/ Tick \/ UNCHANGED limiterVars
  PROVE  LimiterType' /\ [Eager!Next]_Level
<1>1. ASSUME NEW p \in Replicas, Allow(p) PROVE LimiterType' /\ Eager!Admit(p)
  <2>1. Refilled(p) \in 0..Burst /\ Whole \in Nat /\ Burst \in Nat /\ Refilled(p) >= Whole
    BY <1>1, RefilledFacts, LimiterAssumption DEF Allow
  <2>2. Refilled(p) - Whole \in 0..Burst
    BY <2>1
  <2>3. LimiterType' /\ Level' = [Level EXCEPT ![p] = Refilled(p) - Whole]
    BY <1>1, <2>2, AskedLeaves DEF Allow
  <2>4. QED
    BY <2>1, <2>3 DEF Eager!Admit, Level
<1>2. ASSUME NEW p \in Replicas, Deny(p) PROVE LimiterType' /\ Level' = Level
  <2>1. LimiterType' /\ Level' = [Level EXCEPT ![p] = Refilled(p)]
    BY <1>2, RefilledFacts, AskedLeaves DEF Deny
  <2>2. [Level EXCEPT ![p] = Refilled(p)] = Level
    BY DEF Level
  <2>3. QED
    BY <2>1, <2>2
<1>3. ASSUME Tick PROVE LimiterType' /\ Eager!Tick
  <2>1. ASSUME NEW p \in Replicas
        PROVE  Refilled(p)' = Least(Refilled(p) + Refill, Burst)
    <3>1. /\ tokens[p] \in Nat /\ tokens'[p] = tokens[p] /\ idle[p] \in Nat
          /\ idle'[p] = idle[p] + 1 /\ Refill \in Nat /\ Burst \in Nat
      BY <1>3, LimiterAssumption DEF Tick, LimiterType
    <3>2. (idle[p] + 1) * Refill = idle[p] * Refill + Refill /\ idle[p] * Refill \in Nat
      BY <3>1, OneMore
    <3>3. QED
      BY <3>1, <3>2 DEF Refilled, Least
  <2>2. LimiterType'
    BY <1>3 DEF Tick, LimiterType
  <2>3. QED
    BY <2>1, <2>2 DEF Eager!Tick, Eager!Least, Least, Level
<1>4. ASSUME UNCHANGED limiterVars PROVE LimiterType' /\ Level' = Level
  BY <1>4 DEF limiterVars, LimiterType, Refilled, Level
<1>5. QED
  BY <1>1, <1>2, <1>3, <1>4 DEF Eager!Next

\* What any step of the intake is to the limiter.
LEMMA LimiterSteps ==
  ASSUME [Next]_vars
  PROVE  (\E p \in Replicas : Allow(p) \/ Deny(p)) \/ Tick \/ UNCHANGED limiterVars
BY DEF Next, Receive, OtherRequest, Time, AllDone, vars

\* Every variable of the intake and the limiter keeps its type.
THEOREM TypesKept == Safety => []TypeOK
<1>1. Inv => FaultsType /\ IntakeType
  BY DEF Inv, Typed
<1>2. Init => LimiterType
  BY LimiterAssumption DEF Init, LimiterInit, LimiterType
<1>3. LimiterType /\ [Next]_vars => LimiterType'
  BY LimiterStep, LimiterSteps
<1>4. QED
  BY <1>1, <1>2, <1>3, InvAlways, PTL DEF Safety, TypeOK

\* The limiter, which refills only when it is asked, lets through what a bucket
\* that fills all the time would, for every rate, burst and number of replicas.
THEOREM LimiterRefines == Safety => LimiterIsBucket
<1>1. Init => Eager!Init /\ LimiterType
  <2> SUFFICES ASSUME Init PROVE Eager!Init /\ LimiterType
    OBVIOUS
  <2>1. LimiterType
    BY LimiterAssumption DEF Init, LimiterInit, LimiterType
  <2>2. ASSUME NEW p \in Replicas PROVE Refilled(p) = Burst
    <3>1. tokens[p] = Burst /\ idle[p] = 0 /\ Refill \in Nat /\ Burst \in Nat
      BY LimiterAssumption DEF Init, LimiterInit
    <3>2. 0 * Refill = 0
      BY <3>1
    <3>3. QED
      BY <3>1, <3>2 DEF Refilled, Least
  <2>3. QED
    BY <2>1, <2>2 DEF Eager!Init, Level
<1>2. LimiterType /\ [Next]_vars => LimiterType' /\ [Eager!Next]_Level
  BY LimiterStep, LimiterSteps
<1>3. QED
  BY <1>1, <1>2, PTL DEF Safety, LimiterIsBucket, Eager!Spec
====
