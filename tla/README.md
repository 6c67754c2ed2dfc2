# Verification of the ingress API gateway

TLA+ modules for the gateway under `src/`, TLC instances of them, and TLAPS
proofs of the properties that matter most. `PROJECT.json` lists every run,
mutant, theorem and hazard, and the source lines of every definition.

## The system

An HTTP request passes a global and a per-client rate limiter, a body limit
and a backpressure check, is validated, and becomes a job: `Enqueue` claims an
idempotency key in Redis, inserts a row in Postgres and pushes the job on one
of three Redis lists. One dispatcher pops the lists in priority order into a
buffered channel. Workers take jobs from it, guard them with a `job:done`
marker and a `job:lock` key, run the processor of the job's type, and record
success, schedule a retry or dead-letter the job. Admins may re-queue a
dead-lettered job. Every hand-over is a call that can fail, half-fail, be
cancelled, or be cut off by a crash.

### Inventory

| Part | Source | Module | State |
|---|---|---|---|
| jobs, priorities, retry budget | `domain/job.go` | `Stores` | modelled |
| Redis lists, dead-letter list | `queue/redis_queue.go` | `Stores`, `Backpressure`, `AdminAPI` | modelled |
| locks, markers, keys | `cache/redis_cache.go` | `Stores`, `GatewayService`, `Processors` | partly: the TTLs of `job:done` and `idemp:` keys do not run out |
| jobs and attempts tables | `repository/job_repository.go` | `Stores`, `AdminAPI` | modelled |
| event tables | `repository/event_repository.go` | `Processors` | modelled, without audit rows |
| worker pool, Shutdown | `worker/pool.go` | `WorkerPool` | modelled |
| processors | `worker/*_processor.go` | `Processors` | modelled |
| Enqueue, idempotency | `service/gateway_service.go` | `GatewayService` | modelled |
| admin API | `service/admin_service.go`, `handlers/admin_handler.go` | `AdminService`, `AdminAPI` | modelled |
| rate limiters | `ratelimiter/*.go`, `middleware/ratelimit.go` | `KeyedLimiter`, `RateBound`, `Ingress` | modelled |
| backpressure | `middleware/backpressure.go` | `Backpressure` | modelled |
| body limit, handlers, answers | `middleware/bodylimit.go`, `handlers/gateway_handler.go` | `Ingress`, `Processors` | modelled |
| the chain of a gateway route | `api/router.go` | `Ingress` | modelled |
| requests, pool and admins together | | `System` | modelled |
| in-memory store of the tests | `testutil/store.go` | `AdminAPI` | partly: its listings |
| JWT, HMAC, health, request ids, panics, logs, metrics, configuration | | | not modelled: see the end |

## Modules

`Stores` declares the shared Redis and Postgres state, the pure functions on
jobs, and `Call(store, live, ok)`, the one place where faults enter. A call with
a cancelled context fails at once. A call with a live one fails only if the
store is named in `Env`, and each such failure is counted in `faults`, at most
`MaxFaults` of them. An operation that reports an error may have taken effect:
a Redis command whose reply was lost, a Postgres statement whose reply was lost
or whose context was cancelled on the way. A call is one command on the wire.

`Env` says what the environment may do in an instance: fail a store or the
mail provider, let a retry delay be shorter than the rest of the call that
chose it, let a job outlive its lock, cancel the pool's context, crash the
process, disconnect a client.

`WorkerPool` has one step per call. `dpc` is the dispatcher's position (`check`,
`pop`, `send`), `wpc[w]` a worker's, from `getDone` through `setLock`, `mark`,
`run` to one of the three endings and `unlock`, the deferred `Del`. The retry
goroutines are counted per copy of a job in `timer` and `repush`; `waiter` is
which of its three wait groups Shutdown is at. `Restart` starts a new process
on the same stores.

`GatewayService` has one step per call of `Enqueue` and one that cancels the
request's context. A request is named by the job id it draws.

`AdminService` is `RetryJob`, call by call, with the answer it gives. `System`
composes the three; its restart also kills the requests in progress.
`GatewayPromise` is what a client may rely on while nothing fails: each
idempotency key comes to stand for one job, every request with it is told that
job, and the job ends exactly once. `System` maps `idemKey`, the answers and the
rows to it.

`AdminAPI` adds the reads. `created` and `updated` give each row its rank by
`created_at` and each dead-lettered one its rank by `updated_at`. A new or
changed row may get any rank, since the code reads the clock before the statement
runs, and may share it with other rows: `ORDER BY` has no tie-breaker, so
`First(S, at, n)` is the set of all answers a query may give, and each page of
`ListJobs` is any of them, after the clamp of the limit. The pool is reduced to
the status changes it makes (`Work`), from any status to any in `Written`; a
dead-lettered row may be written again in place, which moves it in the list.
`walk` is a client that asks for page after page, stepping by the rows it got, until
one is empty; `stats` is the call of `Stats`, whose two counts are two queries. A
behaviour has one of these readers, because reads change nothing another reader
could see; a query that fails (`Query`) changes nothing either and is not counted in
`faults`. `FakeList` is the listing of the tests' store, which has no clamp.

`Backpressure` puts the depth check in front of `Enqueue`. The three `LLEN` are
three steps. `Consume` is the dispatcher's pop. The pushes that no check precedes
are `Requeue` (retries of the pool, the job it gives back at shutdown, `RetryJob`)
and `Welcome` (the registration processor's `Enqueue`), each for any accepted
job, at any time; `background` counts all of them, `unchecked` those since the
depth was last below the threshold. A push that fails is no push here, and one
that fails after it took effect is a push.

`Ingress` is the chain of a gateway route in the order of `router.go`: the
global limit, the declared length, the per-client limit, the depth check, the body
with its signature and payload, `Enqueue`, and the status answered. It instantiates
`RateBound` twice: `GlobalLimiter` is one bucket under a lock, and `KeyedLimiter` is
proved to act as one bucket per client. `flaw` is what is wrong with a request,
`load` the depth its check could account for.

`KeyedLimiter` models both locks of `Allow`, the janitor with its ticker and
`Close`. Time is in ticks, tokens in what one tick refills, so that a token is
`Unit` of them and no fraction is lost. `RateBound` is what a limiter promises:
one bucket per client, full at first, never forgotten.

`Processors` has one step per external call of the four `Process` functions
and reduces the pool to when it runs a copy of a job and what it does with
the result: the row, the marker, the push of a retry and the second push after an
error, which may leave two copies. A copy may run although the marker is set,
since a worker reads the marker before it has the lock. `Cancel` is Shutdown
under the runs, `Restart` the next process. A payload is whether it is JSON, whether a
required text is missing, and the class of its enumerated field. The calls of
`Enqueue` for a welcome are one step; the lock's TTL, the update to PROCESSING, the
attempts, the dead-letter list and admin retries are those of `WorkerPool` and
`AdminService`.

The `MC*` modules give constants their values. The `*Proofs` modules hold the
theorems: `ServiceProofs` those of the pool and of `Enqueue`, each by itself,
`CopyProofs` and `RecordProofs` further ones of the pool, `IngressProofs` those of the
chain of a request, `SystemProofs` and `PromiseProofs` those of the composition,
`ComponentProofs` those of the limiter and the processors, and `AdminProofs` those of
the reads of the admin API. Definitions marked *Mutant* are deliberate bugs: substituted for the
definition that follows them, each makes the property it is paired with in
`PROJECT.json` fail.

## What the runs show

Passing runs:

| Run | Shows |
|---|---|
| `pool_fair` | no faults: a job is in exactly one place until it is marked done or the pool is shut down; every job finishes; Shutdown, at any point and with a full channel, always drains, although the workers' calls fail from then on |
| `pool_faults` | two faults, crash, restart, shutdown, instant retries: exclusion, at most one more copy per fault, the retry budget, Shutdown's order; and, before the first fault, no marker ahead of its row, no terminal row overwritten, a dead-letter list that agrees with the rows |
| `ingress` | three requests of two clients, two at a time, with a push that meets no check, a failing call and leaving clients: the limits compose, the depth exceeds the threshold by at most the requests in flight, those let through by a failed check and the pushes past it, nobody is shed without that many jobs, a refusal leaves no key, row or job, the accepted job keeps its key, no queued job is without a row, a failed request frees its key |
| `system_calm` | two workers and three requests, no faults: the system implements `GatewayPromise`, its progress included; a duplicate names a request that is being or was accepted |
| `system_faults` | with admins, a fault and a crash: exclusion, no run without a row, attempts counted once |
| `limiter` | the limiter implements `RateBound`; no evicted bucket is used; idle ones go |
| `admin_reads` | of the rows that are alone with their time, a client that reads a changing list to its end misses at most one for each row that left the list or moved in it meanwhile, so none of the list of all jobs; the total of `Stats` is never above its counts by type; the store of the tests may give the same pages as Postgres for limits from 1 to the maximum, and gives no fewer rows for others |
| `processors` | a code is stored once per window and never counted more often than stored; success means the effect is there; only faults and a shutdown repeat a row or a message, only faults a welcome, runs after a success included; of the accepted payloads only a payment with an unknown status is refused later |

Runs that end in a counterexample, each against a sentence of the repository
(quoted in `PROJECT.json`):

| Run | The code |
|---|---|
| `pool_retry_race` | a retry that comes back before the deferred unlock is dropped as a duplicate |
| `pool_shutdown_loss` | jobs that a worker takes from the channel after the cancellation are dropped, and the drain is reported clean |
| `system_admin_retry` | a re-queued dead-letter job is skipped because of its old marker |
| `processor_scan_lost` | a scan whose insert failed is taken for its own duplicate and marked SUCCESS |

More places where the code does less than a sentence beside it says are
visible in how a property had to be stated, not in a run of their own:

* the marker is read before the lock is taken, so a job that a lost reply
  doubled can run after it was done (`RunBudget` counts the copies);
* the key of a failed request whose client left is not released, since `Del` has
  the request's context (`FailureFreesKey` asks for a live client);
* a duplicate that arrives before a failing `Create` names a job that never comes
  to exist (`DuplicateNamesOriginal` is checked without faults);
* an unknown `payment_status` is accepted and then dead-lettered, against "so
  clients get a clear 400" (`gateway_handler.go:148`; `PoisonOnlyPayment` excepts it);
* a second run of a registration sends a second welcome, against "deterministic ->
  no dup" (`registration_processor.go:85`): its key is the id drawn by that run
  (`EffectsPerFault` counts them);
* `limit` has no maximum in `docs/openapi.yaml:106`, but one above 500 is taken for
  50, so a client that steps by the limit it asked for misses rows
  (`WalkComplete` is about one that steps by what it got);
* a client that its own limiter refuses has used a global token before, so that "a
  noisy client can't starve others" (`src/README.md:165`) holds of the buckets per
  client and not of the chain (`AdmissionBound` bounds what is admitted).

### Bounds

Pool: one to three jobs and one or two workers (the channel holds two jobs per
worker, so three jobs and one worker fill it and block the dispatcher), one
retry, up to two faults and one restart. Two workers are enough for any race
for a lock; two faults are enough to fail an operation and its compensation; one
restart is enough to meet what a dead process left in the stores. Requests in
`System`: three with two keys, or one among faults. Limiter: two clients, two
callers and three bucket objects, eight ticks, which is more than two periods of
the janitor. The chain: three requests, two of them with one key, `MaxInFlight` two at a
time, one with any flaw, and a welcome; a threshold of one, so that two
pushes pass it, and one push without a check (`MaxBackground`); a client's burst of one
and a half tokens and a global one of two, so that each limiter refuses a
request the other would let through; one tick (`MaxTicks`), which refills
a global token and half of a client's. The reads: three rows and pages of one
row, asked for with a limit above `MaxPage`, so that the clamp decides; `Written` is
only DEAD_LETTER, since a row that is written with another status leaves the lists of
the instance as `RetryJob` makes it leave; at most two rows leave their place while
a list is read (`MaxLeft`); any query of Postgres may fail, and a retry succeeds
(`system_faults` has retries that fail); inserts, work and retries end with the
reader (`Going`). Processors: two scans of one code and a job of each other type, any
two of which are sent (`MaxRequests`), one retry, two faults anywhere, so that a
call and the push after it may fail, and one shutdown (`MaxShutdowns`).
Symmetry is used for workers, requests, rows, callers, clients and buckets, only in
runs without liveness.
`CHECK_DEADLOCK FALSE` stands where the system may stop: a pool that was shut
down, requests that are all answered, the end of the modelled time.

### Fairness

Liveness is checked under weak fairness of each goroutine: the dispatcher, each
worker, each retry goroutine, the goroutine of Shutdown, and each request. The
Go scheduler runs every runnable goroutine, `BRPOP` has a poll timeout,
timers fire, and the processors are assumed to return. Nothing is assumed of the
environment's steps (faults, cancellation, crash, expiry of a lock). In the
runs with liveness a lock goes away by the deferred `Del`, never by its TTL.

## What is proved

For every value of the constants under the named `ASSUME`s of the modules:

* `TypeCorrect`. The inductive invariant adds `BudgetLeft`: a worker on the
  retry path has a retry left, without which the count could leave its range.
* `MutualExclusionHolds`, if no job outlives `lockTTL`. Inductive with
  `LockOwned`: a worker inside process has its job's key in Redis. `Del` does not
  check the owner, so exclusion itself is what shows that it deletes its own.
* `ShutdownOrderHolds`, `NoAddDuringWaitHolds`. Inductive with `ExitAfterClose`:
  a worker has returned only if the channel is closed and empty.
* `RunBudgetHolds`, `CopiesPerFaultHolds`, under every fault, crash and cancellation
  (`CopyProofs`, `RecordProofs`). Each copy of a job has a weight, wherever it is: 1, or the runs it
  is still allowed. `Budget`: the weights of all copies of a job and what was spent
  (the marker, the runs, the terminal row, the dead-letter entries: four readings of
  one invariant) are at most one full budget for the submission and one for each
  fault. A failed call pays for the copy it may leave behind, every other step moves
  weight or spends it. Sums are cardinalities of sets of tokens, so that their laws
  need no induction.
* `TerminalStaysHolds`, `DoneIsTerminalHolds`, `DeadLetterMatchesHolds`: before the
  first fault the budget is 1, so that a spent row leaves no copy that could write it
  again. Inductive with `RecordInv`: a marker has its terminal row, an entry a row that
  says so, and a worker about to write either has written the row before.
* `OnePlaceHolds`, if a retry delay outlives the deferred unlock. The budget gives at
  most one place; `PresentInv` gives one at least: on a list, held, in the channel, at
  a worker, in a retry goroutine, or done. It also says that a lock belongs to a
  worker inside process, so that a copy dropped at a taken lock is not the last, and
  that a worker at its deferred unlock has left a marker or a timer behind.
* `AcceptedKeepsKeyHolds`, `OneAcceptedPerKeyHolds`, `QueuedHasRowHolds`, under
  every fault. Inductive: a request past `SetNX` holds its key (`HoldsKey`), and
  one that is about to push has its row (`PushHasRow`).
* `FailureFreesKeyHolds`, while Redis answers: the holder of a key is still
  working, was accepted, or has lost its client (`HolderWorks`).
* `LimiterTypeCorrect`, inductive with `StalledInv`: a caller past the lookup has a bucket,
  and none was refilled in the future, even an evicted one. `IdleEvictedHolds`. `NoStaleBucketHolds`, if
  `IdleTTL >= MaxStall`, and `LimiterImplementsRateBound`, if `IdleTTL >= Capacity + MaxStall`: a bucket
  that the janitor drops is full again, so that dropping it is a stutter of
  `RateBound`. The invariant relates each bucket to its client, the last refill
  to the time the client was seen, and the cutoff to the clock.
* `DepthBoundHolds`. The invariant bounds the depth plus the requests that may
  still push, for each request by what it has read so far and by the pushes that met
  no check (`unchecked`), which starts again at 0 when the depth is below the threshold.
  Since `BRPOP` empties the higher lists first, three separate `LLEN` are as good as one
  snapshot.
* `IngressDepthBound`, `IngressKeepsKeys`, `IngressFreesKeys`: the chain keeps what
  its parts promise. Every step of `Ingress` is a step of `Backpressure` and of
  `GatewayService`, or `Refuse`, which ends a request that has claimed nothing.
* `RefusalLeavesNoTraceHolds`. Inductive with `ChainInv`, which relates the verdicts,
  the check, `Enqueue`'s position and the status of a request: a refusing status
  belongs to a request that stopped before it claimed its key.
* `AdmissionBoundHolds`. Inductive: what a bucket holds and what was taken from it
  is at most its capacity and the elapsed time (`LimitInv`).
* `ShedHasCauseHolds`. Inductive with `LoadInv`: what a check has added up, and the
  jobs on the lists it has still to read, are within `load`.
* `IngressTypeCorrect`. `RestType` adds to the invariants of the parts what none of them
  says, the levels of the two limiters above all.
* `SystemTypeCorrect`, `SystemMutualExclusion` (if no job outlives `lockTTL`): the
  pool's invariant survives requests and admins that write the same stores.
* `SystemRunHasRow`, under every fault, crash and admin retry. Inductive with
  `RowInv`: every copy of a job, in a list, in the channel, with a worker, in a
  retry goroutine, with a request about to push or with an admin, has its row.
* `SystemKeepsKeys`, under every fault, crash and admin retry: what `Enqueue` promises
  survives the pool. Inductive with `FreshInv`: before its push a job is not accepted,
  and before its `Create` it has no row.
* `SystemDuplicates`, if no store fails, no client leaves, and nothing is killed or
  shut down. Inductive with `AnswerInv`: a taken key stays with the request that
  claimed it, and a duplicate has read that request's id.
* `SystemKeepsBudgets`, `SystemTerminalStays`, `SystemOnePlace` (`PromiseProofs`): the
  pool's bounds beside the requests, without admins, since `RetryJob` pushes a
  second copy of a job (`OnePlace` also with retry delays that outlive the unlock).
* `SystemImplementsPromise`: `SysSpec => GPSafety`, the safety part of
  `GatewayPromise`, if no store fails, no client leaves and no admin retries; the
  process may be killed, shut down and restarted at any point. A request's `SetNX` is
  `Own`, its answer is `Tell`, the worker's update to a terminal status is `End`, and
  every other step stutters. The refinement needs all of the invariants above:
  `AnswerInv` for `Own` and `Tell`, the budget for `End` to happen once.
* `SystemAttempts`, under every fault, crash and admin retry. Inductive with
  `AttemptInv`: attempts recorded and attempts owed by workers are at most the runs.
* `OneScanPerWindowHolds`. Inductive with `ScanInv`: who is about to store a scan of
  a code is alone, has set its key, and finds no scan in the window.
* `SuccessHasEffectHolds`, `EffectsPerFaultHolds`, `PoisonOnlyPaymentHolds`. Inductive
  with `RunInv`: past a call that succeeded its effect is there. A second copy of a
  job comes only from a failed push, so the copies that may still run, the welcomes sent
  and the run in progress are within the budget of one and the faults, and a row
  or message of a run that failed was paid for by that call or by the shutdown.
* `NoDoubleCountHolds`. Inductive with `CountInv`: the counter, and those who have
  stored a scan and not counted it, are at most the stored scans. `ProcTypeCorrect`.
* `WalkCompleteHolds`, for every list, filter, limit, page size and number of rows, while
  rows are inserted, written again and retried and times coincide. Inductive with
  `WalkInv`: the rows that were there all the time and alone with their time, that the
  client has not got, and that are by now at or before its offset (`Missed`) are at
  most the rows that have left their place. `MovesUp`: a row moves up by at most one position for
  each row that left. `MovedUp`: rows alone with their time have distinct
  positions, so at most as many of them cross the offset. `PagePlace`, `PageRows`: whatever
  order a query gives rows of one time, a row that is alone with its time is on the page
  that its position says, and only the end of the list is empty.
* `StatsAddUpHolds`. Inductive with `StatsInv`: what the first query counted is at most
  the rows there are now.
* `FakeAgreesHolds`, for every limit and every offset that is not negative: what the
  offset leaves is the same set of choices in both stores, and so is the first
  page of it where both cut it at the same place (`StoresAgree`); elsewhere the longer cut contains
  a shorter one (`FirstGrows`). It is about `List`; `ListDeadLetter` of that store
  sorts by `created_at` and the one of Postgres by `updated_at`. `APITypeCorrect`, which
  says that exactly the listed rows have a time.

Only model-checked: liveness (out of the prover's reach), that is `AllFinish`,
`ShutdownDrains` and the progress in `KeepsPromise`. Every invariant a passing run checks
is also a theorem.

## Not modelled

* Configuration (`config/config.go`): parsed once before anything runs; what it may
  set is a constant here. The reader of `.env` takes the rest of a line as the value,
  a comment behind it included, so that a number written that way falls back to its
  default.
* JWT and HMAC verification: pure functions of one request; a bad signature is a
  flaw of a request in `Ingress`.
* Health endpoints, request ids, logs, metrics and the recovery from a panic: no
  state another part reads.
* Floating-point rounding in the buckets, TTLs of a day (`job:done`, `idemp:`), a
  negative `offset` of a listing (Postgres refuses it, the store of the tests takes
  it for 0), corrupt entries of a list.
* The resends of go-redis: `redis_cache.go` leaves its automatic retries on, so that an
  `LPUSH` or `INCR` whose reply was lost may be applied twice and reported as one success.
  `CopiesPerFault`, `RunBudget`, `DepthBound` and `NoDoubleCount` count such
  a command once.
* The `Del` of a failed request that reports an error after it took effect: the key is
  free then, as after one that succeeds.
* The answer for `ErrQueueFull` in `mapError`: nothing returns that error.
* The last writer of a payment row is recorded, but webhooks carry no version the
  code could order them by.
