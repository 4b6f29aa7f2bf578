# Formal models of FlashSaleSystem

TLA+ specifications of the order path, the product cache and the benchmark procedure of FlashSaleSystem,
checked with TLC on small instances, and proofs checked with TLAPS for instances of any size. Paths below are
relative to the root of the repository.

The system sells a limited stock. Buyers post orders to several API processes, which put jobs into a BullMQ
queue; worker processes collect jobs into small batches and let one PostgreSQL function, `place_order_batch`,
decide them; what was sold is announced through an outbox table that invalidates the product pages cached in
Redis. No step of this is a distributed transaction. What makes it correct is a chain of local arguments: row
locks and unique keys in PostgreSQL, a deterministic job id and a claim with a lifetime in Redis, idempotence
where something is delivered twice, and an epoch that makes stale pages unreachable. Each model takes one link
of that chain with all its interleavings and failures. Around the system stands a procedure of its own: scripts
that reset it, load it and judge from the outside whether a run may count as evidence. They act on the same
queue, claims and tables, and are modelled for the same reason.

## 1. Inventory

### Components, their state and their operations

| Component | Code | State it keeps | Operations |
|---|---|---|---|
| Order store | `database/src/migrations/1760000000000-*`, `...3000-*`, `database/src/place-order-batch.ts` | tables `products`, `orders`, `order_results`, `transactional_outbox`; row locks | one call of `place_order_batch` = one transaction: validate, lock products in `product_id` order, decide and insert per product, reply; commit, abort |
| Earlier versions of `place_order_batch` | `database/src/migrations/1760000001000-*`, `...2000-*`, `database/src/cli/migrate.ts` | which version of the function is installed | up and down of each migration; a call under each version |
| Seed command | `database/src/cli/seed.ts` | the flag and names of `products` | one transaction of upserts in file order; keeps `remaining_stock` of existing rows |
| Order admission | `apps/api/src/orders/` | claim key per (user, product) with 60 s lifetime; the answer of each request | `admit`: claim, enqueue, answer; release on failure; `confirmDuplicate`: look for the job twice |
| Orders queue | `packages/queue/src/`, BullMQ, `infra/redis/redis-ops.conf` | job states, attempts, stalled counter, retention | add once per job id, deliver, renew locks, delay, complete, fail, remove |
| Consumer, micro-batch coordinator | `apps/worker/src/orders/order-queue-consumer.service.ts`, `micro-batch-coordinator.service.ts` | pending deliveries, timer, flush chain, the running batch | `add`, timer, `flushCurrentBatch`, settle each delivery, `onModuleDestroy` |
| Batch processor | `apps/worker/src/orders/order-batch-processor.service.ts` | none | calls the database, classifies errors, triggers the relay |
| Outbox relay | `apps/worker/src/outbox/outbox-relay.service.ts` | outbox rows it has locked | `flushOnce`: select with SKIP LOCKED, INCRBY of the epoch, mark published; postpone on failure |
| Versioned products cache | `packages/cache/src/versioned-products-cache.ts`, `infra/redis/redis-cache.conf` | epoch key, page per epoch, fill claim per epoch | read, claim the fill, write if the epoch is still the one seen, release the claim; expiry, eviction, loss |
| Products cache service | `apps/api/src/products/products-cache.service.ts` | one request's place in `getOrLoad` | winner, follower and fallback paths |
| Product lookup | `apps/api/src/products/products.service.ts` | in-process entries and lookups in flight | `findById`, `setInCache` |
| Admission observability | `apps/api/src/common/metrics/`, `apps/api/src/main.ts`, `apps/api/src/common/api-exception.filter.ts`, `apps/api/src/auth/jwt-auth.guard.ts` | outcome and timing of each request; labelled counters | begin, finish of each stage, `setOutcome`, `completeAdmission`, `completeResponse` |
| Reset | `scripts/reset-db.sh`, `k6/support/queue-admin.mjs`, `k6/support/*.sql` | what it has stopped | stop edge, pause, drain, stop worker, obliterate, clear claims and rows, start again; EXIT trap |
| Load and evidence | `k6/LoadtestO.js`, `k6/LoadtestNAC.js`, `k6/competition.js`, `k6/run-*.sh`, `k6/support/*metadata.mjs`, `scripts/verify-integrity.sh` | virtual users and their requests; gates and `validityStatus` | setup, orders, wait-drain, integrity check, retry proof, judgement |
| Infrastructure probe, token service, request ids, health, home page, admin board, `k6/flash-sale.js`, dashboards | `apps/*/src/...`, `k6/`, `observability/` | little or none | see section 8 |

### How they interact

A request claims its pair in Redis Operations and adds a job whose id is a hash of the pair. BullMQ delivers
each job at least once, and again when its lock runs out. The coordinator turns deliveries into batches; each
batch is one call of `place_order_batch` and each delivery is settled with its own row of the reply. The
commit that decides orders also writes outbox rows; relays read them, increment the cache epoch and only then
mark them. API readers read the epoch and its page in one script and fill a missing page under a claim that
carries the epoch they saw. Every answer passes the exception filter and the hooks of the server, which complete
the admission's record of time and outcome.

A benchmark first stops the edge and the worker, empties queue, claims and rows, and starts them again; then
virtual users order through nginx, which passes a failed order to another API instance; then the scripts wait
for the queue to drain, compare counts of jobs, orders, results and stock with what was expected, deliver one
job a second time, and write `VALID` or `INVALID` into the metadata of the run.

### What is hard, and the property that answers it

| Where | What can go wrong | Properties |
|---|---|---|
| order store | two batches sell the same unit; two jobs of one pair both win; a commit whose answer is lost is sent again; deadlock over several rows or with a seed; a flag changes during a decision | `StockConserved`, `OnePurchasePerPair`, `VerdictsMatchOrders`, `RejectionsAreJustified`, `RepliesAreDurable`, `ResultsAreFinal`, `SalesOnlyWhileActive`, `SalesAreAnnounced`, `NoWaitCycle`, `EveryCallReturns` |
| admission | 202 without a job; a claim that outlives its request; removing somebody else's claim; a SET sent twice after a reconnect; an enqueue that fails | `AcceptedWasCreated`, `OnlyOwnerReleases`, `FailedEnqueuesLockNobodyOut`, `EveryAdmissionAnswered` |
| worker | a delivery forgotten between timer and flush; one job twice in a batch; a result given to the wrong delivery; a shutdown that waits for ever; one bad job that takes others with it | `NoLostWakeup`, `CompletedAsDecided`, `OneFaultIsSurvived`, `EveryJobEnds`, `ShutdownEnds` |
| relay and cache | a fill that overlaps an invalidation; INCRBY applied although it failed; a relay that dies between increment and commit; a winner that dies or is slower than its claim | `CurrentPageIsCurrent`, `ReadsSeePublished`, `OnlyOwnerReleasesFill`, `EveryChangeIsPublished`, `EveryReadAnswered` |
| earlier versions | a rollback under load sells differently, or forgets what the other version decided | `SameSalesInEveryVersion`, `KnownJobsAreAnswered`, `ImplementsFlashSale` |
| product lookup | joined and bypassing lookups show a caller an older product; a full map; a failure that stays in flight | `CachedReadsNeverGoBack`, `MemoryIsBounded`, `FlightsAreLookups` |
| admission metrics | three places complete one admission, and one of them overwrites its outcome | `TotalsMatchResponses`, `StagesAddUp` |
| reset | a command fails, before or after its effect, while edge, worker or queue are stopped, perhaps in the trap | `ResetLeavesServiceRunning` |
| evidence | late handlers, lost jobs, stale gauges, repeated deliveries, a timeout that was only slow | `EvidenceIsSound`, `HealthyRunIsValid` |

The full list, line by line, is `hazards` in PROJECT.json.

## 2. Modules

| Module | Models |
|---|---|
| `Catalog` | jobs, products, pairs and outcomes; constants shared by the order path |
| `FlashSale` | the abstract promise: each job decided once, no unit sold twice, one unit per buyer and product, reasons that are true |
| `PlaceOrderBatch` | the decision rule: the CTEs of the loop body, as operators over one product |
| `OrderStore` | PostgreSQL with concurrent calls of `place_order_batch`, aborts, lost replies and the seed |
| `PlaceOrderBatchProofs` | counting lemmas, and what the operators of the decision rule return: used by the next two |
| `OrderStoreProofs` | three parts: stock, pairs, row locks and the absence of deadlock in `OrderStore`; what its results table keeps and answers; that it implements `FlashSale` |
| `BatchVersionsProofs` | both decision rules are fair, fair rules sell alike, `BatchVersions` implements `FlashSale`; the promise keeps its own invariants |
| `AdmissionProofs` | types, answers, ownership and lockouts of `OrderAdmission`; `AdmissionMetrics` only observes it, and its counters agree with it |
| `OrderWorkerProofs` | the safety properties of `OrderWorker` |
| `CacheCoherenceProofs` | the safety properties of `CacheCoherence` with a cache that keeps its epoch key |
| `ProductLookupProofs` | the safety properties of `ProductLookup` |
| `BenchmarkProofs` | the safety properties of `Benchmark` |
| `BatchVersions` | the three versions of the function, migrations and rollbacks; implements `FlashSale` too |
| `OrderAdmission` | `OrdersService.admit` over the claim key and the queue |
| `AdmissionMetrics` | extends `OrderAdmission` with guard, controller, filter, hooks and counters |
| `OrderWorker` | BullMQ deliveries, the coordinator and the process around it |
| `CacheCoherence` | outbox, relays, Redis Cache, `getOrLoad` |
| `ProductLookup` | `findById` in one API process |
| `BenchmarkTarget` | the whole order path as the scripts see it: edge, worker, queue, claims, results, late handlers |
| `Benchmark` | extends `BenchmarkTarget` with the reset, a load script and the judgement of its evidence |
| `MC*` | the instances TLC checks; symmetry only in runs without liveness |

Definitions whose comment says *mutant* are deliberate errors. Nothing uses them; each one, put in the place
of the definition named in PROJECT.json, makes the property named there fail.

### Order store

A session is a database connection. `Begin` and `Refuse` are the validation block; `LockRow` is one row of the
`ORDER BY product_id FOR UPDATE` query; `DecideProduct` is the loop body of one product, reading what the
transaction sees (`VisibleOrders`, `VisibleResults`: committed rows and its own); `Commit` publishes
everything at once with the outbox rows and the reply; `Abort` may happen at any time before, `LoseReply`
after. plpgsql fetches the locking query in chunks, so a lock may be granted before or after the body of an
earlier product: both orders are behaviours of the model. The stock and the flag a body uses are those read
when its row was locked (`seen`), as in the code: that they cannot be stale is a theorem, not an assumption.
The CTEs become sets: `PendingJobs`, `EligibleJobs` (pair rank 1, not bought, active), `InsertedOrders`
(stock rank within the stock, ON CONFLICT DO NOTHING), `Outcome` (the CASE). The order id, a prefix of the job
id, is abstracted to the job. The seed is a transaction of its own whose upserts wait for the row locks.

`FlashSale` has neither sessions nor locks: `Decide` gives any undecided jobs outcomes that are fair, `Reseed`
changes flags. `OrderStore` implements it with the identity on `remaining`, `active` and `results`.

### Earlier versions of the function

`BatchVersions` calls whole functions on the tables, one at a time, because what differs between the versions is the
rule and not the locking, which is `OrderStore`'s subject. Migrations 1 and 2 install the same rule: `OldStep` is
the inner loop over the jobs of a product in the order of their ids as text (`LastJob`); `OldTurn` is the recursive
function that says where running stock, orders and results stand after each set of jobs. Migration 3 installs the
operators of `PlaceOrderBatch`. The versions do *not* agree on who gets what: the old one serves jobs in id order
and says inactive before it looks for a duplicate, the new one serves them in batch order and looks for the
duplicate first. What they agree on, whatever has been sold before and by whom, is how many units of every product a
batch sells and which products it announces.

### Order admission

One request is a small program: `Acquire`, `Enqueue`, `Release`, `Lookup`, `LookupAgain`, each one Redis call. A
failed call may have been applied or not. `AcquireTwice` is the claim that the client sends again after a reconnect
(`maxRetriesPerRequest: null`): the second `SET NX` meets the first one and the request takes itself for a
repetition. Claims may expire at any time; the queue may drop jobs by retention, and Redis Operations may lose the
newest second of its log (`appendfsync everysec`). The worker is reduced to the fate of a job. Where the code stops
short of a guarantee the model does too: a claim whose request can neither create its job nor give it back any more
stays until it expires and turns the pair away (`LockedOut`). The code removes one cause of this, the enqueue that
fails, and `FailedEnqueuesLockNobodyOut` says that it does: every pair locked out has cost another fault.

`AdmissionMetrics` adds what is around the handler. A histogram is its number of observations. Guard and pipe may
refuse (`Refuse`); each step of the handler is observed as the service does it (`ObserveClaim`, `ObserveEnqueue`,
`ObserveLookup`); the controller completes the admission in its `try` block, the filter sets the outcome to
error and completes it again, `OnResponse` once more. The order matters: `completeAdmission` counts only the
first time, but the filter's outcome is what the response is counted under. A request answered 409 is therefore
a *duplicate* in the total and an *error* in the response, and `TotalsMatchResponses` states exactly that.

### Worker

An action is what the event loop runs between two awaits. A delivery is a pair of a job and its number of
starts; the last one started holds the BullMQ lock, and a result of any other is ignored, as BullMQ does.
`Add`, `TimerFires`, `BeginFlush`, `ProcessBatch`/`ProcessFails`/`ProcessRefuses`, `Answer` (one turn of the
settling loop) and `EndFlush` (the `finally` block) are the coordinator; `Stop` and `Stopped` are
`onModuleDestroy` of coordinator and consumer, which Nest calls together; `Crash` and `Restart` the process.
`place_order_batch` is reduced to the durable result of each job, and to its refusal of a batch that names a
product that does not exist.

### Cache

The database is the number of its committed changes, so "older than" is `<`. One page stands for all pages,
since they share only the epoch. `SelectRows`, `BumpEpoch`, `PublishRows` are the three awaits of `flushOnce`;
`FlushFails` covers an INCRBY that was or was not applied and a postponement that may fail as well. `Read` to
`LoadAsFallback` are `getOrLoad`, one Redis script or query each. Pages and claims expire at any moment, which
includes every timing of TTLs. With `CacheForgets` the epoch key may be evicted or everything lost.

### Product lookup

`ProductLookup` keeps the two maps of `ProductsService` as they are: `memory` in insertion order, since the first
entry is the one evicted, and `inFlight` by the call that started the lookup. `Hit`, `Join` and `Start` are the
synchronous part of `findById` up to its first await, `Query` the answer of PostgreSQL, `Land` and `Fail` the
continuation of all calls that await the lookup. A call that does not cache (`ttlMs <= 0`) passes by a live entry
without removing it, and joins a lookup like any other. A lookup left in the map after its end (`Runs` is false)
would answer at once, since its promise is settled; that there is none is `FlightsAreLookups`. Deleting from the map
is `Keep`, which numbers the places that remain; putting is `Put`, after `Roomy` has made room. At this commit only
tests call `findById`.

### Benchmark

`BenchmarkTarget` is the composition of the order path as seen from outside, each part reduced to what its own
module shows: jobs move between the states `queue-admin.mjs` counts, a job is decided once, a handler whose client
has gone still runs to its end (`late`). `Benchmark` is the sequence of commands over it (`step`). A command that
fails may have had its effect all the same, or a part of it (`Switches`, `Clears`), but the line after it, which
notes it in `stopped`, is not reached (`CommandFails`); a check may also refuse because it is right (`CheckRefuses`).
Both lead into the EXIT trap (`CleanWorker`, `CleanQueue`, `CleanEdge`), which starts what `stopped` says was
stopped and always tries to resume the queue. Then one of three
loads runs: the mixed script (`LoadtestO.js`, `LoadtestNAC.js`), whose writers get any of the virtual user ids of
both scenarios, or the write or duplicate profile of `competition.js`. `Send` to `TimesOut` are one order on its
way through nginx and the API; `LoadCutOff` is the end of `maxDuration`. `DrainAfter` to `Judge` are the gates of
`run-mixed-stress.sh` and `mixed-metadata.mjs`, `PollMetrics` and `FinishExternal` those of `run-external.sh` and
`metadata.mjs`; the operator's integrity check is the same action in both.

What the model showed about the procedure, beside the properties that hold:

* `EvidenceIsSound` speaks of runs whose reset has passed. The integrity check counts jobs, orders and results but
  never asks whose they are; without a passed reset two faults suffice for one lost order and one stray order of
  an earlier run to cancel out.
* One failed command can leave a service down: `edge_stopped` and `worker_stopped` are set in the line after
  `docker compose stop` (`scripts/reset-db.sh:64-65`, `71-72`), so a stop that takes effect and still exits non-zero is
  one the trap does not know of. `ResetLeavesServiceRunning` says that this is the only way: after one fault nothing
  else is stopped and the queue runs, and after a PASS everything does. A second fault, in the trap, may leave anything
  stopped or paused. No document promises more, so this is no finding.
* A first `wait-drain` that fails ends `run-mixed-stress.sh` under `set -e`, and its metadata stays `RUNNING`.
* `wait-drain` looks at waiting, active and delayed jobs; those of a paused queue are counted as paused, so a queue
  that could not be resumed looks drained. What tells is the integrity check.

## 3. Runs

| Run | Shows | Instance |
|---|---|---|
| `order_store` | eight invariants, two action properties, the refinement of `FlashSale`, and that every call comes back | 2 sessions, 2 products with 2 and 1 units, 6 jobs of 3 buyers (two of one pair, one of an unknown product), 5 batches, two flag settings |
| `batch_versions` | any sequence of calls, seeds, migrations and rollbacks | 6 jobs, 2 products, 8 batches with repeated, reordered, unknown and too many jobs |
| `order_admission` | safety and progress of admission, and its counters | 3 requests of one pair, 3 faults, the queue may forget |
| `order_worker` | safety of the worker | 3 jobs, batches of 3, 4 slots, 3 attempts, 2 faults |
| `order_worker_progress` | jobs and shutdowns end | 2 jobs, one of an unknown product, batches of 1, 2 faults |
| `order_worker_failed` | finding 3 | 2 jobs, batches of 2, no fault needed |
| `cache_coherence` | safety of fills against invalidations | 2 readers, 2 relays, 2 changes, 2 faults |
| `cache_progress` | every change is published, every reader answered | 2 readers, 1 relay, 1 change, 2 faults, epoch may be lost |
| `cache_loss_repaired` | finding 1 | 1 change, 1 fault |
| `cache_failure_fallback` | finding 2 | 1 change, 1 fault |
| `product_lookup` | bounded memory, monotone cached reads, the lookups in flight are those that run | 2 callers, 3 products, room for 2, 1 change of each |
| `benchmark` | what a failed reset may leave stopped, evidence is sound, no false alarm | 3 virtual users, 2 of them writers with 2 requests each, 1 unit, all three scripts, 2 faults |

Bounds. Order store: contention needs two sessions and a product with fewer units than buyers; the last unit is
product 2's, the last but one product 1's; three jobs in one batch suffice for a duplicate in front of another job,
a job listed twice and a pair under two ids; crossing locks need two products. What a larger instance could add is
covered by the theorems. Admission: pairs share no key, so one pair is enough; three requests give an owner, a
successor that claims after an expiry and an observer; three faults let a late failure, a lost reply and a crash
meet. Worker: batches of three take a redelivery next to its first delivery and another job; four slots let
deliveries outnumber a batch; two faults are the first mishap and the one during its repair. Cache: a stale page
needs one fill and one change; two relays overlap on disjoint rows; two changes make "older than the published one"
differ from "older than the newest". Versions: the batches hold each kind of difference between the rules, and the
reachable tables are what any of them leaves behind. Lookup: a third product evicts one of two; a second caller is
enough to join, to bypass and to overtake. Benchmark: one unit and two writers make a winner and a loser, the
reading user is the one a stray order or a wrong token belongs to, the second request of a writer is the repeated
one, and two faults are a failed command and a failed repair, or a retry and a loss. `LoadsWorthFollowing` stops at
the first request of a load whose reset has failed: none of the three properties speaks of what comes then.
`MaxEpoch` is never reached with these numbers of changes and faults, so its guard cuts nothing off. Every bound is
a CONSTANT (`MaxFaults`, `MaxWrites`, `MaxEpoch`, `MaxChanges`, `MaxBatch`) or the number of elements of a set.

Runs that set `CHECK_DEADLOCK FALSE` may really stop: all requests answered, all jobs ended, all rows
published, the evidence written. The order store, its versions and the product lookup have no such state and are
checked for deadlock.

## 4. Fairness

* Order store: the server executes running statements (`WF` of `Work(s)`). PostgreSQL queues waiters for a row
  lock, so a waiter is not passed over for ever (`SF` of `LockRow` and of the seed's upsert). No caller is
  obliged to call, no seed to run, no fault to happen.
* Admission: the event loop continues requests it received (`WF` of `Admit(r)`). No claim is obliged to expire, and
  workers owe nothing.
* Worker: timers fire, promise chains run, the database answers, BullMQ delivers, promotes delayed jobs and
  finds stalled ones, and a stopped container is restarted. Losing a lock while the process lives is a fault
  and is not fair.
* Cache: each relay's 250 ms timer calls it again, postponed rows become due, received requests proceed.
  Orders, expirations and faults are never obliged to happen.
* Product lookup and benchmark: none; their properties are about what is in the maps and what a run may end with,
  not that it ends.

Faults are bounded in the liveness runs. The statement is therefore "once failures stop, it gets done", which
is what the retries of the code can promise.

## 5. Proofs

The theorems hold for every value of the constants that their assumptions allow. About the order store, for any
finite sets of jobs and products, any sets of sessions and batches, any initial stock and any seed file:

| Theorem | Statement |
|---|---|
| `StoreIsTyped` | `Spec => []TypeOK`; `remaining_stock` is never negative |
| `StoreNeverOversells` | `Spec => []StockConserved` |
| `StoreSellsOnceToAPair` | `Spec => []OnePurchasePerPair` |
| `LocksProtectSales` | row locks are exclusive, and uncommitted sales are covered by the stock of locked rows |
| `VerdictsAlwaysMatchOrders` | `Spec => []VerdictsMatchOrders` |
| `RepliesAreAlwaysDurable` | `Spec => []RepliesAreDurable` |
| `ResultsStayFinal` | `Spec => ResultsAreFinal` |
| `SalesAlwaysActive` | `Spec => SalesOnlyWhileActive` |
| `CheckNeverRefuses` | the CHECK on `remaining_stock` never refuses an update |
| `StoreNeverDeadlocks` | `Spec => []NoWaitCycle` |
| `StoreKeepsPromise` | `Spec => ImplementsFlashSale`: the store refines `FlashSale` |
| `RejectionsStayJustified` | `Spec => []RejectionsAreJustified` |
| `SalesAreAlwaysAnnounced` | `Spec => []SalesAreAnnounced` |
| `PromiseIsSafe` | the invariants of `FlashSale` itself |

About the earlier versions of the function, for any catalog, batches, order of job ids and history of migrations:

| Theorem | Statement |
|---|---|
| `VersionsAreTyped` | the tables, the ledger and the installed version keep their types |
| `KnownJobsAreAlwaysAnswered` | `Spec => []KnownJobsAreAnswered` |
| `SalesNeverDependOnVersion` | `Spec => []SameSalesInEveryVersion` |
| `VersionsKeepPromise` | `Spec => ImplementsFlashSale` |
| `VersionsAreSafe` | hence the invariants of `FlashSale`, under every sequence of migrations, rollbacks and calls |

About admission, the worker and the cache, for any number of requests, jobs, relays, faults and crashes:

| Theorem | Statement |
|---|---|
| `AdmissionIsTyped` | `ObservedSpec => []TypeOK` (admission with its metrics) |
| `AcceptedAlwaysCreated` | `ObservedSpec => []AcceptedWasCreated` |
| `OnlyOwnersRelease` | `ObservedSpec => OnlyOwnerReleases` |
| `FailedEnqueuesNeverLockOut` | `ObservedSpec => []FailedEnqueuesLockNobodyOut` |
| `MetricsOnlyObserve` | `ObservedSpec => Spec`: what is proved of admission holds with the metrics attached |
| `WorkerIsTyped` | `Spec => []TypeOK` |
| `WakeupIsNeverLost` | `Spec => []NoLostWakeup` |
| `ResultsAreTheDecidedOnes` | `Spec => []CompletedAsDecided` |
| `OneFaultFailsNoJob` | with known products and at least two attempts, `Spec => []OneFaultIsSurvived` |
| `CacheIsTyped` | `Spec => []TypeOK` |
| `CurrentPageStaysCurrent` | unless the cache forgets its epoch, `Spec => []CurrentPageIsCurrent` |
| `ReadsNeverMissPublished` | unless the cache forgets its epoch, `Spec => []ReadsSeePublished` |
| `ClaimsAreReleasedByOwners` | `Spec => OnlyOwnerReleasesFill` |
| `StagesAlwaysAddUp` | `ObservedSpec => []StagesAddUp` |
| `TotalsAlwaysMatch` | `ObservedSpec => []TotalsMatchResponses` |

About the product lookup, for any number of callers, products, entries and changes, and about the benchmark, for any
number of virtual users, requests, units and faults:

| Theorem | Statement |
|---|---|
| `LookupIsTyped` | `Spec => []TypeOK` |
| `MemoryIsAlwaysBounded` | `Spec => []MemoryIsBounded` |
| `CachedReadsNeverAge` | `Spec => []CachedReadsNeverGoBack` |
| `FlightsAlwaysRun` | `Spec => []FlightsAreLookups` |
| `BenchmarkIsTyped` | `Spec => []TypeOK` |
| `ResetAlwaysLeavesServiceRunning` | `Spec => []ResetLeavesServiceRunning` |
| `EvidenceIsAlwaysSound` | `Spec => []EvidenceIsSound` |
| `HealthyRunIsAlwaysValid` | `Spec => []HealthyRunIsValid` |

Assumptions: `AdmissionAssumption`, `WorkerAssumption` (positive batch size, concurrency and attempts),
`CacheAssumption` (positive batch size of the relay and reads of a follower; error answers are no versions),
`LookupAssumption` (room for one entry), `BenchmarkAssumption` and `TargetAssumption` (at least one writer with one
request; the users are numbered and cover the virtual user ids, as `USER_COUNT` does),
`CatalogAssumption` (finitely many jobs and products; products are numbered; stocks are natural numbers),
`StoreAssumption` (batches are sequences of jobs; the seed file lists existing products in ascending order) and
`VersionsAssumption` (job ids are ordered as text, no two alike).
TLC evaluates each of them in the runs of its module. The benchmark asks for no bound on units or faults.

**First invariant, `SafeStore`.** `StockConserved` alone is not inductive: a commit subtracts what the
transaction has inserted, and nothing in `StockConserved` says that this is covered. `SalesAreCovered` says so
(private orders of a product are at most its committed stock, are new, and are of products whose body has
run), and it survives the commit of another transaction only because `LocksAreExclusive`: the other one sold
from other rows. One purchase per pair follows from the same two: a pair determines a product, so two
transactions never hold private orders of one pair. The step where orders are inserted rests on the lemma
`InsertedIsFair` (no inserted job is already sold, no two share a pair), whose core is that two jobs cannot
have the same first position in a batch.

**Second invariant, `DurableStore`.** `RowsAreCurrent`: what was read at lock time is still what the row holds,
because orders and seeds both need the lock. `VerdictsAreNew`: a running transaction has decided only jobs
without a durable result, of products it is done with. `AnswersAreComplete`: when a body has run, every job of
the batch for that product has a result. Together they give finality, the agreement of orders and results, and
complete replies. `CheckNeverRefuses` adds the lemma `StockBoundsInserted`: a stock rank counts the eligible
jobs up to a position, so at most `stock` of them have a rank within the stock; with `RowsAreCurrent` this is
the committed stock. It matters for the model too: the guard of `DecideProduct` that stands for the CHECK
excludes no behaviour.

**Third invariant, `FairStore`.** `SafeStore`, `DurableStore` and `VerdictsAreJustified`: what a running
transaction has decided but not committed is already justified. A job it rejects as sold out has a product whose
committed stock its own inserts use up (lemma `StockIsUsedUp`, with `AllChosenAreInserted`: the unique keys
refuse none of the jobs the rule chooses), one it rejects as inactive has a product whose committed flag is off,
and one it rejects as a duplicate shares its pair with another job that has a result or a verdict.
With the identity on `remaining`, `active` and `results`, `Commit` is then a `Decide` of the batch's new jobs,
`CommitSeed` is a `Reseed`, and every other step leaves the three variables alone. `Decide` demands that
the reasons of all outcomes are true when they are given, and the calls gave them earlier, one product at a time,
in states that other transactions may have changed since; the third invariant says that they still hold, which
is the reason it is needed.

**Earlier versions, `EffectIsFair`.** The two rules have nothing in common but what they owe a product, and that is what
the proof makes of them. `TurnIsFair` says of a turn: it serves pending jobs only, one per pair, none of a pair that has
an order, while the sale is on and within the stock; every pending job gets a status with a true reason; and
nobody is turned away needlessly: if the sale is on, the stock is used up or every pending pair has its order.
`NewTurnIsFair` has this from the lemmas about `PlaceOrderBatch` that the store's proof uses too, since the version run
takes the same operators. `OldTurnIsFair` needs the loop's own invariant, `LoopIsFair`: running stock and orders
agree, and whoever was refused was refused with reason. That the loop has a state after every set of jobs at all
(`TurnUnfolds`) and that each state is fair is shown by a least counterexample over the sizes of the sets, because
the induction theorems of the library cannot be used. `FairTurnsSellAlike` is then the argument why versions sell alike:
had one turn sold less, it would have left stock, so every buyer the other one served has an order from it too, which
maps the other's orders into its own one to one. The typing of the tables is all that fairness needs of the history, so
the inductive invariant is small; the refinement of `FlashSale` follows from fairness for either rule at once.

**No deadlock.** `LocksAscend`: what a running call has locked precedes what it still wants. In a set of waiters
whose wanted rows are all held inside the set, take the one that wants the greatest row; its holder waits for
a greater one, which contradicts the choice. The seed takes part with its own ascending order.

**Admission, `SafeAdmission`.** A request is accepted because its own `queue.add` returned, or because it found a job
of its pair. The second needs `JobsWereCreated`: a job that is there was created once, although jobs are removed,
lost and added again. Claims need no more than the types: only the compare-and-delete script removes one, and
it compares the token.

**Worker, `Typed` and `Settled`.** A batch belongs to a flush of the chain, a job that may still run has attempts
left, and while a batch is being answered every job of it has a row. The last one is where `rows` comes from:
`FirstEntries` numbers the distinct jobs of the batch, and the lemmas `RowPositionIsInjective` and
`RowPositionsAreDense` show that the positions run from 1 without a gap, so a row exists for each. `RowsAreDurable`
adds that a row is what the database holds. It is why looking rows up by job id is right although BullMQ may
put one job into a batch twice.

**Worker, `MishapsAreFaults`.** `OneFaultIsSurvived` counts faults over a whole history. The invariant keeps the
account per job: its failed attempts, its stall, its failure by a second stall and its lock without a holder
together never exceed the faults so far. A crash orphans every job of the process, each once, and the stall check
later turns the orphan into a stall without another fault. The lemma `BeginFlushKeepsUnsettled` is the case that
matters: cutting `pending` into a batch and a rest loses no delivery.

**Cache, `Coherent` and `ReadersKnow`.** `CurrentPageIsCurrent` speaks of published changes; it survives because
changes are announced before they are published. `Announced` adds to the published changes those of relays that
have incremented the epoch and not yet committed. The invariant says that the page of the epoch, and the
data of every fill that would still write it, show every announced change, and that nothing lies ahead of
the epoch. An increment makes it true of the empty page of a new epoch, a fill loads the database after
reading the epoch, and the conditional write refuses what is older. `ReadersKnow` follows a request from its first read to
its answer. Without the hypothesis on the cache both properties fail: finding 1.

**Metrics, `Books`.** A counter and the set it counts change in different actions, and up to three places complete one
admission. `Tallies` ties every total to the requests whose admission is complete and every response counter to the
closed ones, by outcome, with the 409s shifted between them. `Phases` ties the handler's place to the life of the
request: it is why a request is completed once although completion is called again. `StagesAddUp` is then inductive:
a request that moves leaves one counted set for another (`PlacesAfterMove`), and the counters follow. Requests need
not be finitely many, only those received are, which is itself part of the invariant.

**Metrics, `Lockouts`.** `FailedEnqueuesLockNobodyOut` compares a set of pairs with two counters. `ClaimsAreOwn` (a
claim is held by a request of its own pair) makes every step a matter of one pair at most, and `HandlerLocksOut` goes
through the handler: only the owner's own step can turn its claim into one without a job, and when that step is a
failed enqueue the owner is on its way to release. So each step adds at most one to the left side, and only by a
fault.

**Product lookup, `LookupInv`.** `CachedReadsNeverGoBack` compares entries with what was handed out, and neither
survives a lookup that lands alone. `Ages` adds the third party: what a query has read is at least as new as every
entry of its product and as anything handed out, because nothing is newer than the database when it is read and
nothing can be put under that key before it lands. That needs `Lookups`: a key has one lookup in flight, its starter
is still waiting, and whoever joined asks for the same key. It contains `FlightsAreLookups`. `Emptied` closes the
case of a bypassing starter with a caching caller: what it hands out is not written to the map, so the map must not
hold an older entry, and it holds none because the caching call, on its miss, has removed it. That the map is
bounded and holds no key twice rests on lemmas about `Keep` (`PlacesAreNumbered`: the places kept are numbered from
1 without a gap) and `Put` (`RoomyIsPart`, `PutKeepsMap`).

**Reset, `ResetInv`.** The trap can only start what it knows to be stopped. `Owed`: until a command fails, a service
that is down is noted in `stopped`, the edge before the worker, so `stopped` follows from the step. `Restartable`: in
the trap a service is down that is owed a start, or whose own stop has failed, which happens with nothing noted (the
edge) or with the edge alone (the worker); what is still noted then has cost a fault. `Resumable`: the queue is paused
only between the pause and the resume, or after a failure there. `Emptied`: a late handler, or a job in the emptied
queue, is there only by a fault, so a check of the reset that refuses has been paid for. `Passing`: a reset that has
passed owes the trap nothing.

**Evidence, `EvidenceInv`.** The integrity check counts and never asks whose the orders are. `Confined` says that after a
passed reset nobody but this benchmark's writers has a job, a result or a handler that will make one; as
many decided users as writers are then the writers (equal finite sets, `FS_Subset`). Why the reset establishes it
is `Emptying`: with the worker down no job leaves `waiting`, with the APIs restarted no handler is left that
could add one, and `verify-reset.sql` runs after both. `Proven` carries the facts from the gate that saw them
to `VALID`, over the retry proof, which must not change them.

**No false alarm, `HealthyInv`.** The converse for a run without faults, in the order of the commands: each part of the
state stays empty once cleared (`Fresh`), the system is up and no handler outlives its request (`Quiet`), a claim always
belongs to a user who has a job or a request about to add one (`Reached`, `Loading`), so that after the load every
writer has a job (`Loaded`) and after the drain a result, and units are sold until they run out (`StockSold`).

TLC checked every one of these invariants on its instance before it was proved.

Only model-checked: liveness, since fairness and ENABLED are out of the prover's reach. These are
`EveryCallReturns`, `EveryAdmissionAnswered`, `EveryJobEnds`, `ShutdownEnds`, `EveryChangeIsPublished` and
`EveryReadAnswered`. Every invariant, action property and refinement that a passing run checks is also a theorem.

## 6. Findings

1. `cache_loss_repaired`. Redis Cache runs with `allkeys-lru`, so the epoch key can be evicted while pages of
   early epochs stay. The epoch restarts at 0 and such a page is served again until it expires.
2. `cache_failure_fallback`. If Redis Cache fails between the fill claim and the write of the page, the
   request fails although the data was loaded; the documents promise a fallback to PostgreSQL.
3. `order_worker_failed`. An unknown `productId` is admitted by the API and makes `place_order_batch` refuse
   the whole batch; jobs of that batch are retried together and can use up their attempts without any
   infrastructure failure.

Two smaller disagreements are about wording and have no run. Of two jobs of one pair in one batch, the later is
answered `REJECTED_DUPLICATE` even if the first is refused as sold out or inactive, while the message says that the
user has bought the product; only a caller that gives one pair two job ids can meet this. A repeated request whose
job has failed for good is answered 202 and told that its order is in the queue, while `queue.add` would not run
that job again as long as it is retained.

## 7. What the models leave out on purpose

Field shapes and the text of messages; logging; durations and every metric that is not one of an admission;
`progress` of jobs and the stock figures attached to results; real time (anything with a timeout may expire at any
moment); the loading of scripts after NOSCRIPT; the collision of two order ids that share 62 hexadecimal digits;
`createdAt` and other times; the first insertion of the products, which is the initial state. Of the benchmark: the
reading users, cache statistics, the monitor of the target (one action, `OtherGateFails`, stands for the gates it
feeds), summaries, and signals after which a script goes on; one that ends between a command and the flag that records
it is modelled, as a command that failed after its effect.

## 8. Components not modelled

* TypeORM entities and the contracts package: declarations. The data source: configuration.
* Infrastructure probe: three reads before the worker starts; when one fails the process ends and its container is
  restarted, which `OrderWorker` has as `Restart`.
* Worker metrics and the cache counters of the API: counters nobody reads back. Token signing and checking: a
  stateless use of a library; the guard's three outcomes are in `AdmissionMetrics`.
* Request ids, health, home page, read-only board: formatting and read-only probes.
* `k6/flash-sale.js`: written for a service with another metrics endpoint and reset script. Dashboards, monitoring
  and comparison scripts: they read and format.
* Of nginx and the compose files only the retry of an order at a second instance and stop and start are modelled.

PROJECT.json gives the status of each component.

## 9. Plan

A connection pool under relay and batch processor, with a runner whose `startTransaction` fails before its `try`
block.

The list of runs is kept short: a new question takes the place of a run whose question a theorem then answers.
