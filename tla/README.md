# Verification of the event-driven notification system

TLA+ models of the repository's delivery path, of its sending side, of the
intake of create requests behind the rate limiter, of the listing and of the
WebSocket hub; TLC configurations that check them on small instances; and
theorems that TLAPS proves for every size. Run everything from this
directory: `tlc -workers 2 -config one_worker.cfg MCSystem`,
`tlapm SystemProofs.tla`. `PROJECT.json` lists components, runs, mutants (one
plausible bug per checked property, which makes that property fail), hazards,
findings, theorems and, under `map`, the source lines of every definition.

## 1. Inventory

Two binaries share Postgres and Kafka and nothing else.

| Component | State | Operations | Interacts with |
|---|---|---|---|
| API process (`cmd/api`, handlers, router) | requests under way | create, create batch, cancel, get, list | notification service |
| Notification service (`app/notification_service.go`) | none of its own | `Create`, `CreateBatch`, `Cancel`, `List` | rows, idempotency entries, publisher: three systems, no common transaction |
| Idempotency (`postgres/idempotency_repo.go`, UNIQUE column) | `idempotency_keys`, `notifications.idempotency_key` | `Check`, `SetNX`, expiry | notification service |
| Notification repository (`postgres/notification_repo.go`) | `notifications`, `notification_batches` | inserts, blind `UpdateStatus`, conditional `Cancel`, counters, two recovery queries, `List` | everybody |
| Publisher and topics (`queue/publisher.go`) | one topic per priority, partitioned by id | `Enqueue` | API, scheduler |
| Consumer loop (`queue/consumer.go`) | read position, noted commits, message in hand | fetch, limit, handle, republish, commit | delivery service, group |
| Delivery service (`app/delivery_service.go`) | a copy of the row | load, mark, send, settle, count | repository, provider, hub |
| Scheduler (`app/scheduler.go`) | the rows listed in this pass | `processScheduled`, `recoverStuck` every tick | repository, publisher |
| Provider adapter and breaker (`provider/webhook.go`, `circuitbreaker`) | breaker state and counts per channel | `Send`, `doSend` | external HTTP provider |
| API rate limiter (`http/middleware/ratelimit.go`) | tokens and the time of the last refill, per process | `allow` | every request to `/api/v1` |
| Templates | rows that never change | create, look up, render | `Create`, `CreateBatch` |
| WebSocket hub (`ws/hub.go`) | registered connections, per process; a reader and writers per connection | `Accept`, `readPump`, `Broadcast`, `removeClient` | clients, delivery service |
| Metrics, health, tracing, logging, configuration | counters nobody decides on | | |

Hard behaviours: database writes followed by publishes with nothing to join
them; copies of a row that travel through handlers, schedulers and messages and
are written back without a condition; asynchronous offset commits; zombies
after a rebalance; shutdown with a cancelled context; a provider whose answer is
lost after it acted; a breaker whose calls outlive its state; keys that expire in
one table and not in another; a cursor that follows another order than the page;
readers and writers of one connection that each remove it, while others are
registered and written to.

What makes the parts correct: no pending row is forgotten; the committed offset
never passes an unhandled message; duplicates only where a fault explains them;
attempts within the priority's budget; settled rows stay settled; a cancellation
that no copy predates holds; counters agree with rows; everything comes to rest;
one key, one notification; refusals leave nothing behind; a status is one the
notification has come by; a subscriber stays until it goes; success of `Send` means the provider took it, or that a
redirect was taken for its word; failure does not hide a success that was seen; a breaker that recovers; a listing that ends and is complete.

## 2. Modules

| Module | Models | State and actions |
|---|---|---|
| `Notification` | `domain/notification.go` | rows as records of status and `retry`; the transitions; what becomes of a copy after a send error |
| `Faults` | environment | `faults[k]`, how often each kind has struck, below `MaxFaults[k]` and together below `MaxTotal`; a cancel request counts as a kind, since it, too, comes from outside; `stopping`, workers whose context is cancelled. `CallOk`/`CallFails`: a call works, errs without effect, or errs with its effect done |
| `Store` | repository and schema | `row`, `due` (scheduled_at has passed), `aged` (5 minutes without an update), `batch` counters |
| `Partition` | one topic partition and its consumer group | `log`, `committed`, `owner`, `zombies`, `next`, `pend` (noted commits), `lost` (history: a publish failed, and none succeeded since) |
| `Consumer` | consumer loop with `ProcessDelivery` | `cons[w]`: step, offset and row copy; `handled`, `tried`, `accepted` and `misled` (histories). `Fetch`, `Load`, `Mark`, `Send`, `Settle`, `Count`, `Republish`, `Commit`: one action per call that another process can come between |
| `Scheduler` | scheduler goroutine | `sched[w]`: pass, listed rows, row in hand. `List`, `Reset`, `Enqueue`, `EndTick` |
| `Api` | create and cancel requests | `unpublished`, `req`. `Create`, `CreateBatch`, `PublishNew`, `CancelRead/Update/Count`, `ApiCrash` |
| `LifeCycle` | abstract: what clients and recipients see of notifications, without workers, messages and copies | `status`, `sent`, `misled`. `Accept`, `Release`, `TakeUp`, `Send`, `Mislead`, `Deliver`, `Fail`, `Recover`, `Cancel`, and what only an untidy system does: `Revive`, `Repeat` |
| `System` | composition, process life cycle, properties | `Stop`, `Exit`, `Crash`, `FallDue`, `Age`; fairness |
| `SendContract` | abstract: what `ProcessDelivery` relies on when it calls `Send` | `phase`, `fate`. `Call`, `Meet`, `Return`, `Finish` |
| `Breaker` | gobreaker with this repository's settings | `breaker`, `tickets` (calls of the current generation). `Admit`, `Report`, `Timeout`, `Interval` |
| `Provider` | webhook adapter over the breaker, with what the handler makes of the result | `call[s]`, `seen[n]` (history). `Begin`, `Execute`, `Post`, `SendReturn`, `Handle` |
| `Bucket` | abstract: a token bucket that fills as time passes | `level`. `Tick`, `Admit` |
| `Limiter` | the API's rate limiter, which fills its bucket only when it is asked | `tokens`, `idle`. `Allow`, `Deny`, `Tick` |
| `Intake` | `Create`/`CreateBatch` with idempotency keys, templates and validation behind `Limiter`, any number of replicas | `stored`, `entry`, `live`, `topic`, `req`. `Receive`, `Check`, `Get`, `Render`, `Insert`, `SetNX`, `Publish`, `Expire`, `Abandon`, `OtherRequest`, `Time` |
| `Pages` | `GET /notifications` and a paging client | `table`, `hidden`, `draft`, `list`. `Stamp`, `Identify`, `Insert`, `UpdateStatus`, `Open`, `ListPage` |
| `Hub` | the WebSocket hub, any number of them | `clients`, `link`, `stalled`, `closed`, and where each goroutine is: `accept`, `pump`, `writer`. `Upgrade`, `Register`, `StartPump`, `Broadcast`, `ReadFails`, `Write`, the two halves of `removeClient` for reader and writers; clients `Break`, `Stall` and `Resume` |
| `SystemProofs` | proofs about `System` | for any number of workers: types, at least once, pending rows, cancellations, the untidy life cycle |
| `OneWorkerProofs` | proofs about `System` | one worker: its place in the log, delivered rows, duplicates |
| `CalmProofs` | proofs about `System` | one worker without restart or stall: tokens, attempts, life cycle, counters |
| `ProviderProofs`, `IntakeProofs`, `BucketProofs`, `PagesProofs`, `HubProofs` | proofs about these modules | |
| `MCSystem`, `MCProvider`, `MCIntake`, `MCPages`, `MCHub` | instances for TLC | |

`System` composes `Consumer`, `Scheduler` and `Api` over `Store` and `Partition`.
`Provider` refines `SendContract`, and the outcomes of `Consumer!Send` are those of
that contract: this joins the two models. `System` in turn refines `LifeCycle`, tidily
with one worker and untidily with any number, and `Limiter`, which `Intake` asks for every
request, refines `Bucket`. `Intake` looks closer at the
creation that `Api` takes for granted.

Abstractions. A notification is a model value; text, channels and ids do not
steer the delivery path. Messages with one key share a partition, so a
notification never leaves its partition and one partition is enough; the three
topics of a worker run the same loop on disjoint notifications. The five minutes of
`recoverStuck` are the flag `aged`, which a row under way gets only at the cost of a
`delay` fault: a backlog or stall of five minutes. Tokens of the limiter are counted in fractions,
`Whole` of them to a token, and time in ticks, so that a refusal may find a fraction of a token. Operators with a suffix, such as
`Load_DropsError`, are the mutants and are used by no specification.

## 3. Runs and what they show

| Run | Instance | Shows |
|---|---|---|
| `one_worker` | 1 worker and a batch of 1; any 3 of: 2 refusals, 2 failed calls, a lost answer, a redirect, a crash, a shutdown, a stall, a cancellation | at least once, nothing forgotten, duplicates and calls of `Send` bounded by faults, counters, delivered rows, the tidy life cycle (`KeepsLifeCycle`), and `EventuallySettled` under `Fairness` |
| `two_workers` | 2 workers, 1 notification; any 2 of: a rebalance, a crash, a redirect, a cancellation | zombies and two schedulers: commit order, tracking of pending rows, `CancelHolds`, `NoStatusMadeUp` |
| `provider` | 2 senders, 2 notifications, one of them refused by the provider | refinement of `SendContract` over every kind of answer, redirects included; attempts, duplicates, what delivered and failed mean, recovery of the breaker |
| `intake` | 3 requests, 2 keys, 1 limiter of half tokens (one and a half at most); 2 of: 2 errors, a crash | one notification per key, consistent answers, refusals leave nothing, the limiter is a bucket |
| `pages` | 4 notifications, sizes none, 1, 2 and above the maximum (default 2, maximum 3) | listing ends and is complete |
| `hub` | 1 hub, 2 clients, 2 updates | subscribers stay, dead clients leave, updates arrive past stalled clients |
| `cancel_race`, `two_schedulers`, `lost_work`, `open_breaker`, `default_page`, `unaddressed` | | findings, section 6 |

Bounds. `MaxFaults` bounds each kind of fault and with it every counter, `MaxTotal` all kinds
together; the values are in the MC modules. Every pair of mishaps in `two_workers` and every triple in
`one_worker` is tried in every order and place. Priority `low` has two attempts, so a first try, a retry and
the exhaustion of the budget all occur. One notification is enough for the interleavings, which
come from the several actors (loop, scheduler, API, group, commit timer) around it: its rows, messages and copies
interact with those of another one only through the offsets, which one notification enqueued again and
again exercises, as the log grows with every republish and recovery, and through the batch counters, which
are sums of what each contributes. A second notification with the same budget has tens of millions of
states, too many for liveness and refinement, and tells nothing apart; the theorems hold for any number.
The breaker has its real limits (5 and 3). Page sizes are scaled down, so that 4 rows fill
more than two pages. A bucket of three half tokens that gets one a tick meets refusals with and without
half a token left, bursts, and pauses (`MaxTicks`, 3) that overfill it. Two clients of a hub
and two updates give every connection a reader and two writers that may all find it gone, next to a connection that is not.

Fairness. `System!Fairness` asks of the code what it does by itself: goroutines run,
a stopped worker ends after its loop, the API publishes what it stored unless it dies,
the commit timer fires, the group assigns a partition without an owner, scheduled times
come, and a row with nobody at work on it grows old. Faults, rebalances and requests are never
required, and none of them is ever required to stop: the budgets do that.
`Provider!Fairness` lets goroutines run, HTTP calls end (5 s timeout) and the breaker's timeout pass;
`Hub!Fairness` lets the handler, reader and writers of each connection run; clients need not come, go or read on,
and updates need not come. `BreakerRecovers` assumes a healthy provider and incoming work explicitly.

Limits that are part of the properties. `PendingIsTracked` and
`EventuallySettled` except a pending row in `lost`: the last publish of the notification did not succeed, and no
recovery looks at pending rows. So they say nothing of the publishes that follow a database write; that work is
dropped there is what `lost_work` shows (`AllWorkSettles`). A processing row whose republish failed is not excepted: it
must come back through `recoverStuck`. `DuplicatesNeedFaults`, `TriesBounded`, `CountersAgree`,
`DeliveredIsFinal` and `KeepsLifeCycle` are checked for one worker: with two the schedulers' stale copies
break them (`two_schedulers`). `KeepsLifeCycle` asks for the edges of the life cycle as long as no
message has been under way for five minutes; even then a cancellation may be undone by a copy (`Revive`, finding 1) and a
failed notification tried again after a replay (`Repeat`). `CountersAgree` compares the cancelled counter with the confirmed
requests (`cancelOk`), not with the rows: a cancelled row that a copy has overwritten may be cancelled once more.
It assumes that no call errs: the error of `IncrementBatchCounter` is dropped, and the counter stays behind.
`TriesBounded` counts the calls of `Send`, not `retry_count`: an attempt whose outcome could not be written (the error of `UpdateStatus` is
only logged) is not counted, so the bound is the budget of the priority and one more for each call that erred. It excludes replays: after a crash
or a stall a row that already failed is handled again. `PostsBounded` says the same of the POSTs behind breaker and retries; in `Provider` writes to the
row succeed.
`DeliveredWasTakenOrRedirected` allows for what `doSend` takes for a success: every status below 400. An answer is the provider's word
on the POST only if it is a 2xx to the POST itself. A 301, 302 or 303 is followed with a GET, whose answer `doSend` sees instead; any other 3xx, and one
without a `Location`, it sees as it is. Neither says that the notification was taken, and both make the row delivered: such a notification
is `misled`. A 307 or 308 makes the client post again at the other address; the one that redirected is taken not to have accepted the notification, and the two requests
count as one post. The delivery path has the fault kind `redirect` for this, and `SendContract` the fate `misled`.
`FailureHidesNoClearTaking` lets an answer that was lost or broke off hide a taking: `doSend` cannot know better, but gives up for good on a
body that breaks off.
`ListingComplete` assumes that `created_at` and `id` order the rows alike, which
`NewNotification` does not guarantee to concurrent requests; without it rows are skipped or listed twice.

## 4. Proofs

`tlapm` checks every theorem for any number of workers (or the one that `OneWorker` asks for), notifications, requests, keys, faults,
processes, clients, updates, senders and rows, and any rate, burst and page sizes. The assumptions are the named ones on the constants:
`PriorityAssumption`, `BatchedAssumption` (finite), `NoNotifAssumption`, `NoWorkerAssumption`, `MaxFaultsAssumption`,
`NoIdAssumption`, `LimiterAssumption`, `WiringAssumption`, `SizesAssumption`, `BadAssumption`, and `Measures` as a hypothesis of `WindowBound`.
Every safety invariant and every action property and refinement that a passing run checks is a theorem; the inductive invariants were
first checked by TLC on the instances of section 3.

The delivery path with any number of workers (`SystemProofs`).

- `TypeCorrect`: `Safety => []TypeOK`. Inductive: `TypeInv`, which adds to
  `TypeOK` that the message in a handler's hand is in the log and the object of a cancel
  request a notification.
- `AtLeastOnce`: `Safety => []CommitsOnlyHandled`. The committed offset comes from `pend`, `pend` from
  the loop's offset and the position of a new owner from the committed offset, so `CursorsCovered`
  says of all of them at once that what lies behind is handled, but for the message in hand. That is why a zombie may
  commit late: its offset, too, stands on handled ground.
- `NothingForgotten`: `Safety => []PendingIsTracked`. `Outstanding` is not
  inductive: an unhandled message may be in the hand of a handler that has already seen the
  status. `PendingIsSeen` asks for a message that is still going to see the row (`WillSee`); `CopiesSettle`
  says that no handler ever writes `pending`, `RestingHands` that a scheduler between passes
  owes nothing.
- `CancellationsHold`: `Safety => CancelHolds`. Four lemmas say what a step of a handler, a
  scheduler, the API and the partition can do to rows, copies and messages. A process takes a row into its
  hand only if it is not cancelled, and writes only what it has in hand, so a cancelled row that nobody holds stays out of reach.
- `StatusesAreEarned`: `Safety => NoStatusMadeUp`, the refinement of the untidy `LifeCycle`. The invariant
  adds that whatever is in a message, a list or a hand has a row (`AllPresent`), and
  that a copy that says delivered was taken by the provider or misled (`TakenFirst`); then every step is one of four effects, each
  a step of `LifeCycle` or none.

The delivery path with one worker. The theorems have the hypothesis `OneWorker`: one worker process, and no rebalance
(`MaxFaults["rebalance"] = 0`); crashes, shutdowns, restarts, errors, lost answers and stalls are still any number. The
hypothesis is needed: with two workers `two_schedulers` breaks the properties, and two rebalances of a lone worker let a late commit of its
former self move the committed offset back, over messages that are then read again: with `rebalance = 2` TLC finds
`DeliveredIsFinal` and `KeepsLifeCycle` violated.

- `OneWorkerProofs!DeliveredForGood`: `DeliveredIsFinal`. `Place` says where the worker stands in the log: what is between the committed
  offset and its reader is noted for commit or in its hand, unless it is shutting down. So a row is `Over`
  when nothing of it is beyond the committed offset, unpublished or in the scheduler's hand, and a row that waits for its time, is listed as due,
  or has grown old in processing without a stall is over (`InStep`): what scheduler and recovery reset has nothing under way that could deliver it
  meanwhile, and the handler has in its hand no row that another has delivered. `Steady` puts these together.
- `OneWorkerProofs!DuplicatesAreRare`: `DuplicatesNeedFaults`. That the provider has taken n at most `1 + Mishaps` times is not inductive: a stopping
  worker may lose the note of a delivery without a further fault, and a stalled message be reset later. `Paid` counts these as debts: acceptances,
  plus one for what a shutdown may still lose (`Exposure`), plus one for a reset that comes too late (`Staleness`), are at most the mishaps plus one for
  an acceptance that is written down or about to be (`Knowledge`). Each mishap pays for one.
- `CalmProofs!TriesInBudget`: `TriesBounded`. `Tokens` are what can make the loop take n up: its live messages, a publish of the API
  and one of the scheduler. Without crash, shutdown and stall there is one at most (`OneToken`), a step moves it or takes it away, and a failed row has
  none (`FailedRests`); so a failed notification is never tried again, and every other row and copy has an attempt left (`InBudget`).
  `InCount` ties `retry_count` to the calls of `Send`: a copy that may yet be written has the count of the row, or one more after a failed attempt, and
  the calls are at most the count of the row, plus one whose outcome is in hand or was a delivery (`Ran`), plus the errors, each of which loses one count at most.
- `CalmProofs!LifeCycleKept`: `KeepsLifeCycle`, the refinement of the tidy `LifeCycle`. `InStep` gives the edges of the scheduler and
  of recovery, `FailedRests` that only a mishap lets a failed row be taken up, `Paid` that the provider is not asked too often.
- `CalmProofs!CountersKept`: `CountersAgree`. As long as there was no mishap, each counter is the number of rows but for the one that is
  just being counted (`Tallied`), since a row settles once (from `FailedRests` and `DeliveredStays`), and the cancelled counter is the
  number of confirmed requests whose count is done.

The other components.

- `ProviderProofs`: `ProviderTypes`, `AskedInBudget`, `MuddledBefore`, `DeliveredIsTakenOrRedirected`, `FailureHidesNothingClear`, `RefusalIsFinal` from one invariant of what each
  call has done and each notification has seen (`NotifInv`): attempts are counted by rows and copies alike, and a call that has
  taken and not come through, or been misled, has left a trace. `SendImplementsContract`: `Safety => SendKeepsContract`; a call in the adapter is,
  for the contract, idle, calling, or back with success, a transient or a permanent error, so each step of `Begin`, `Execute`, `Post`,
  `SendReturn` and `Handle` is a step of `SendContract` or none. With it the two models are joined for any number of senders.
- `IntakeProofs`: `KeyMakesOne`, `ClientsAgree`, `HitsAreFound`, `CreationEnqueues`, `RefusalsLeaveNothing`, from `Inv`:
  a request has stored no row before its INSERT and all of them after it, whatever is entered, found or answered is
  stored, and what a single creation answers of its own is in the topic. Only the UNIQUE column keeps
  `OnePerKey`: entries may expire, be missing or be checked too early. `TypesKept` is type correctness of the whole.
- `IntakeProofs!LimiterRefines`: `Safety => LimiterIsBucket`. The level of the abstract bucket is what
  the limiter would find if it were asked now; filling late and filling all the time agree because the cap is applied to
  sums that only grow between two calls.
- `BucketProofs!WindowBound`: started anywhere in time, a bucket that has let `served` requests through in `elapsed` ticks satisfies
  `served * Whole + level <= Burst + elapsed * Refill`. With `LimiterRefines` this is what the rate limit means.
- `PagesProofs`: `PagesTypes`, `PagesAreBounded`, `CursorGoesDown`, and `ListsAll`: `Safety => []ListingComplete`. The page is specified by
  what ORDER BY and LIMIT promise (`IsPage`), so no recursion over rows is needed: where the two orders agree, every row got lies at or above the cursor
  (`AboveCursor`), every row still owed below it (`NotMissed`), and none is got twice (`GotOnce`). A notification stored during
  the listing can only spoil the order, never mend it.
- `HubProofs`: `HubTypes` and `SubscribersStay`: `Safety => []SubscribersKept`. The goroutines of a connection that is not broken are in no step of
  `removeClient` (`Sound`), and each removes its own.

Model-checked only: liveness (`EventuallySettled`, `BreakerRecovers`, `DeadClientsLeave`, `UpdatesArrive`). Liveness under
fairness and ENABLED are out of this prover's reach and stay with TLC; so does induction over data,
and any operator declared RECURSIVE (none is used).

## 5. Not modelled

Metrics, health, tracing, logging and configuration: no decision of the program reads them. What makes a
recipient or a content valid; `Intake` models that validation may refuse, and what is done by then. Creating a
template is one insert with a UNIQUE name, and templates never change. The order in which two updates of one
notification reach a client: each is written by a goroutine of its own, no order is promised. The consumer's limiter only delays. Kafka's own replication is external: an
acknowledged message stays. A request without an idempotency key takes no part in `Intake`, nor
does a batch that names one key twice (it fails as a whole with a 409).

## 6. Findings

1. `cancel_race`: `UpdateStatus` is unconditional; a confirmed cancellation is overwritten and sent.
2. `two_schedulers`: with two workers and no fault a scheduled notification is sent twice.
3. `lost_work`: one failed publish after the INSERT leaves a row pending for ever; no recovery looks at pending rows.
4. `open_breaker`: the breaker's own errors are not `ErrCircuitOpen`, so they fail notifications for good; refused recipients (4xx) help to open it.
5. `default_page`: without `page_size` an empty listing panics, and a longer one has no `next_cursor`.
6. `unaddressed`: the worker broadcasts on a hub of its own, at which no client can connect; clients of `GET /ws` get no update.

Seen while modelling, and covered by no run of their own: README.md:210 promises the existing notification
with a 409, the code answers 201 with it or 409 without it; README.md:180 calls `content` a fallback if
rendering fails, but the request requires it and `Create` returns the error; README.md:152 limits an SMS to 160 characters,
`notification.go:223` counts bytes; README.md:207 promises exponential backoff, the consumer waits two to three
seconds each time and nobody calls `RetryDelayForAttempt` (`consumer.go:213`).

Seen as well, and contradicted by no document: `doSend` takes every status below 400 for a success (`webhook.go:129`), so a redirect that is not followed, or followed with a
GET, makes the row delivered; a 200 whose body breaks off fails the notification for good (`webhook.go:117`), though the provider has taken it; an attempt
whose outcome could not be written is not counted (`delivery_service.go:92`); the error of `IncrementBatchCounter` is dropped (`delivery_service.go:112`, `:135`),
so the counters stay behind; a create request that died between its INSERT and `SetNX` answers its retries 409 for good (`notification_service.go:107`), one whose
`Enqueue` failed answers them 201 though nothing is in the topic (`:108`); rows of concurrent requests are skipped or listed twice where `created_at` and `id` disagree.

## 7. Plan

Done: the delivery path, provider, intake with the limiter, listing and hub; theorems for every safety property the passing runs
check. Next, in this order:

1. `DuplicatesNeedFaults`, `TriesBounded` and `CountersAgree` for one worker with rebalances, where TLC finds no violation
   either: they need a `Place` in which the committed offset may move back.
2. The breaker on its own as a theorem: a half-open generation admits no more than `MaxRequests` calls at a time.
3. The safety half of `EventuallySettled`: that in every state that is not at rest some process has a step to take, with the guards written out
   (ENABLED and the step from there to liveness stay with TLC).
