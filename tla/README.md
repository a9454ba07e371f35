# money-miner: a TLA+ verification project

TLA+ models of the master (`money-miner-backend`) and of its native worker, model-checked with TLC on small
instances, with theorems checked by TLAPS. Source paths are relative to the repository;
`internal/` and `cmd/` are below `money-miner-backend/`.

## 1. The system

A user creates *miners* (what to mine, for which wallet). *Workers* enrol with a join code, keep a websocket
to the master and run mining engines. The master places started miners on connected native workers, collects
metrics, and keeps history in PostgreSQL.

| Component | State it keeps | Operations | Correct means |
|---|---|---|---|
| Hub (`internal/swarm/hub.go`) | `conns`, `live`, `jobs`, `logs` under one mutex | HandleWS, register, unregister, handleAck, handleMetrics, Assign, AssignQueued, CancelMiner, AllocationUpdate, RevokeWorker | a queued miner finds a free worker; the maps say who is connected; stop stops; totals add up |
| Join codes (`internal/swarm/codes.go`) | `join_codes`, `workers` rows | Create, Revoke, Enroll, CheckCode, AuthenticateWorker | one code, one worker; revocation is final; Enroll returns |
| Store (`internal/store/store.go`, `deploy/migrations`) | all rows | one statement per method, mostly without transactions | history is not rewritten |
| Retention (`internal/metrics`, `RollupOnce`) | `metric_samples`, `metric_rollups` | aggregate, prune | nothing pruned unseen; rollups exact and kept |
| API (`internal/api`) | none of its own | start, stop, delete, revoke, enrol, SSE | each request leaves the rows consistent |
| Worker (`cmd/worker`) | job map, engines, session | runSession, handleAssign, cancel, allocation, metrics reporter | engines run exactly for its open jobs |
| Engines (`internal/engine/...`) | child process, counters | Prepare, Start, Stop, SetAllocation, Stats | real numbers only |
| Event broker (`internal/events`) | subscriptions | Subscribe, Publish | each stream shows its user's events in order, some lost; no send on a closed channel; who leaves frees a place |
| Payout poller (`internal/payouts`) | `payouts` rows | poll, insert | each payment recorded once |
| Stratum client (`internal/stratum`) | pending calls | Call, readLoop, failAll | every call returns |
| Worker presence (`hub.go`, `store.go`, `handlers.go`) | `workers.status`, hub entries, heartbeats | touch, supervise, list, revoke | a connected worker is shown so; a silent or revoked one leaves |
| Token validation (`internal/auth`) | key set and its age | Parse, refresh, Warm | a replaced key stops working |
| Rate limiter (`internal/ratelimit`) | map of buckets | Allow | the budget of a user holds across evictions |
| Web frontend | token set in the browser | refresh, pages | not modelled |

Interaction: an API request and every websocket run in goroutines of their own and share the hub maps (under
`Hub.mu`) and the database (one statement at a time, no transaction except in Enroll). Hub and worker exchange
`job.assign`, `job.cancel`, `allocation.update`, `worker.revoke` one way and `job.ack`, `metrics` the other.

What is hard: no lock is held across a database call, so each handler works with what it read several steps
ago; connections of one worker replace each other; a dropped client cancels the remaining statements of its
request; errors of most writes are ignored; the master may restart over rows that describe a state it no
longer has. `PROJECT.json` lists these hazards with their lines.

## 2. Modules

| Module | Models | Kind |
|---|---|---|
| `Dispatch` | life of a miner: hub, handlers, rows, connections, worker sessions | specification |
| `MCDispatch` | instances of it | TLC |
| `DispatchProofs` | type correctness, history, agreement of connections, rows and engines | TLAPS |
| `PlacementProofs` | no queued miner is lost, a running one had an engine, a failed job had none | TLAPS |
| `Presence`, `MCPresence` | overlapping connections of one worker, what the API shows of it, revocation | specification, TLC |
| `PresenceProofs` | what is shown of a worker, revocation is final | TLAPS |
| `HeldCodes` | what the rows keep of a code at any moment | abstract specification |
| `JoinCodes`, `MCJoinCodes` | join codes, Enroll, the connection pool, the enroll command; implements `HeldCodes` | specification, TLC |
| `JoinCodesProofs` | one worker for a code, the pool, tokens, the refinement | TLAPS |
| `Retention`, `MCRetention` | samples, rollups, pruning | specification, TLC |
| `RetentionProofs` | nothing is pruned unseen, rollups are exact | TLAPS |
| `AdapterEngine` | one job on the worker: engine, child process, session goroutine, reporter | specification, extended by the next |
| `ShareAccounting`, `MCShareAccounting` | shares of one job from the counter of the process to the run | composition, TLC |
| `SharesProofs` | no share is counted twice or lost, no process is left behind | TLAPS |
| `LossyFeed` | what an event stream promises | abstract specification |
| `EventBroker`, `MCEventBroker` | the broker and the SSE handler; implements `LossyFeed` | specification, TLC |
| `Payouts`, `MCPayouts` | wallets, poller, payout rows, announced through `EventBroker` | composition, TLC |
| `PayoutsProofs` | the broker and its refinement, each payment recorded once | TLAPS |
| `Gateway`, `MCGateway` | token validation and rate limiter in front of the routes | composition, TLC |
| `GatewayProofs` | replaced keys end, the budget of a user | TLAPS |

Definitions marked `(mutant)` are plausible errors in the code next to which they stand. No specification uses
them; each is a version of the following definition that makes a property fail, and so shows that the property
depends on that code.

### Dispatch

| Variable | Code |
|---|---|
| `miner`, `worker`, `job`, `run` | rows of `miners`, `workers`, `swarm_jobs`, `miner_runs` |
| `conns` | `h.conns`; `h.live` always has the same keys |
| `task` | local variables of HandleWS (one per connection) and of the request handlers: program counter, context, chosen worker, connection, job, remaining list |
| `link` | a websocket: its worker, whether it is intact, messages in flight each way |
| `session`, `engines` | the connection `runSession` reads, the worker's job map |
| `faults`, `tried`, `started` | how many faults happened; history variables of NoLostMiner and RunningWasAcked |

One action is one database statement, one critical section, or one message handled. Steps that touch nothing
shared are fused with their neighbour. Reading a message and answering it is one action of the worker, which is
sequential; the answer is in flight until the hub reads it. Closing and breaking of a connection are the same
event (`up` becomes false): what was in flight may still be read by the worker, or be lost when its session
ends. `r.Context()` of a hijacked websocket is not cancelled by net/http, so `ctx` of a HandleWS stays true.
`Abort` cancels the context of a request; later statements of it then fail. `Outcomes` says how a statement may end: with
`DbFails` any statement of a goroutine may fail by itself, and the code ignores most failures (`_ =`) and goes on.
`MaxInFlight` bounds the messages a connection holds; a write that finds no room waits.

Left out: the least-loaded rule (Assign may choose any candidate), the payload of a job, several owners. The objects
belong to one owner. A handler that another user calls ends at its first look-up, which compares the owner, except
the two DELETE handlers: they call CancelMiner or RevokeWorker of the hub first, and the owner is compared by the last statement
(`foreignDelete`, `foreignDeleteWorker`). The two statements by which miners and workers come to be are all that is
kept of `handleCreateMiner` and `Enroll` here. Status texts of workers are in
`Presence`, allocation updates in `ShareAccounting`, events in `EventBroker`.

### Presence

`row`: the worker's row; `entry`: its entries of `h.conns` and `h.live`, with the age of the last message; `serve`, `watch`:
the HandleWS and the supervisor goroutine of each connection; `sock`, `peer`: is the socket open, does the worker still
answer on it; `assign`, `revoke`: the goroutines of those requests. The 45 seconds of `supervise` are a flag (`Silence`) that any message
resets. Two connections are enough: the races are between one connection and the one that replaces it.


### JoinCodes

`code`, `worker`: rows; `task`: each enrolment, from the POST of the enroll command to the file it writes
(`config`); `lock`: the row lock between UPDATE and COMMIT; `free`: connections left in the pool.
`defer rows.Close()` keeps the connection of the SELECT until Enroll returns, hence `Begin` needs a second one.
READ COMMITTED is modelled by letting the UPDATE (and the DELETE of Revoke) wait for the lock and then look
again. The clock of a transaction is its start (`inTime`). An answer may be lost after the commit.
`RedeemsInOneStep` maps the rows to `HeldCodes`, whose only steps are to issue, redeem, revoke and leave: it says what
the rows keep, not that a code is used once, since a code whose worker left may be redeemed again (`claim_codes`).
`CheckCode` only reads and is left out.

### Retention

Time in ticks, one sample per tick with weight one. The two statements of `RollupOnce` are separate actions with
their own `now`. `MaxDelay` is how long after the `now()` it carries a row becomes visible; the window exceeds an
hour and both delays, as 48 hours do.

### AdapterEngine and ShareAccounting

One job. `eng` is the engine (its kind, `running`, the child process with its counter, the context that ends it), `work` how
far the session goroutine has come, `looking` the reporter between taking a job from the map and reporting it.
The map is not locked: a write while the reporter ranges over it may abort the process (`MapWrite`), which the
outcome `crashed` stands for. `ShareAccounting` adds the wire, `jobState` in the hub, the samples, the
allocation request and CancelMiner in another goroutine. `Unreachable` says whether the stats API may be silent.
`InsertSample` may fail: the hub warns, its counters have moved on, and `lost` adds up what is in no row. A failing look-up
drops a message, and the other statements may fail as well.
One report may overtake the ack: the worker puts the job into its map before it writes the ack, the write is
bounded by ten seconds, and reports are fifteen seconds apart.

### EventBroker and LossyFeed

`subs`, `chan`: the broker's map and the channels; `stream`: the handler of a request; `log`, `mark`: history of what
was published and of how much of it a client was sent. Publish holds the mutex for one step; unsubscribe removes
the channel under it and closes it in a step of its own; handleEvents takes an event, the tick or the end of the
request in any order. `FeedSpec` is the refinement of `LossyFeed`: a client is shown events of its own user, in
the order they were published, each at most once, and never one from before it subscribed.

### Payouts

`wallet`, `rows`: rows of `wallets` and `payouts`; `poll`: local variables of `once` and `check`; `paid`: what the
pool has paid; `had`: every address an owner ever registered. One currency. The INSERT honours `UNIQUE(currency_id,
txid)`, where NULLs are distinct. It extends `EventBroker`; the run has no open streams, because what a stream
shows of the log is settled by `FeedSpec` for any sequence of Publish calls.

### Gateway

`cache`: `keys` and `fresh`; `req`: each request on its way through `Validator.Middleware` and
`Limiter.Middleware`, and the goroutine of main that warms the cache; `bucket`: tokens by user and map, because a
request may hold a bucket of a map that was dropped (`map` numbers them). Time passes while requests wait for the
network only. `golang.org/x/time/rate` gives one token back with each tick.

## 3. Runs

| Run | Instance | Distinct states | Shows |
|---|---|---|---|
| `dispatch_faults` | 1 worker, 2 connections, start, delete, revoke, also by other users, failing statements, an aborted request, a restart | 3.5 M | `TypeOK`, `HistoryStands`, `RunningWasAcked`, `FailedNeverRan`, and `DispatchInv`, the inductive invariant of section 5 |
| `dispatch_races` | 2 concurrent requests, start and stop, a native and a browser worker, 2 runs, `FairSpec` | 0.4 M | `NoLostMiner`, `NativeOnly`, `QueuedIsServed`, `StopEndsJobs`, `BrokenConnectionsEnd` |
| `presence` | 2 connections of one worker, `FairSpec` | 98 k | `TypeOK`, `ShownOnline`, `SilentLeaves`, `RevokedIsCutOff` |
| `join_codes` | 2 codes, 2 workers, 2 machines, pool of 3, `FairSpec` | 15 k | `TypeOK`, `AtMostOneWorker`, `PoolBalanced`, `TokensAreReal`, `RedeemsInOneStep`, `EnrollAnswers` |
| `retention` | hour 2, window 6, delays 1, time to 11 | 0.3 M | `TypeOK`, `PrunedWasCounted`, `RollupExact` |
| `shares` | 2 shares, 2 messages in flight, all engines, allocation updates, dying processes, failing statements | 3.8 M | `TypeOK`, `NeverOvercounts`, `NoStrayMiner`, `ReportsAddUp`, `RunWithinSamples` |
| `event_streams` | 3 streams of 2 users, cap 1, channel of 2, 3 events, a restart | 78 k | `BrokerTypeOK`, `NoSendOnClosed`, `FeedSpec`, `GoneFreesPlace` |
| `payouts` | 2 owners, 2 addresses, 3 payments (one without transaction, one worthless), a restart, `FairSpec` | 120 k | `TypeOK`, `RowsAreReal`, `OncePerTransaction`, `PaymentRecorded` |
| `gateway` | 2 requests at a time of 2 users, 3 in all, a key rotation, 5 ticks | 4.8 M | `TypeOK`, `RetiredKeysEnd`, `BudgetKept` |

Bounds. Rows and connections are identifiers that are used once; when they run out the step that needs one is
disabled. Two connections of one worker are what replacement needs (an old and a new one), two requests what a
race needs, two runs what a doubly started miner needs. One message from the hub may be in
flight on each connection, so that a cancel waits behind the assignment; when `Jobs` has run out while a goroutine wants to create one
(`OutOfJobs`), `QueuedIsServed` and `BrokenConnectionsEnd` claim nothing. Routing between several native workers (`EnginesOwned`, a part of
`DispatchInv`) is left to the theorem of section 5: two of them, two connections and all faults exceed what TLC can do.
Two shares make a counter restart between two that are counted. The connections of `dispatch_faults` are symmetric: they are only
compared for equality. No run that checks liveness uses symmetry.
Three streams of two users with a cap of one make a stream wait for the place of another; a channel of two and three
events make one overflow. In `gateway` an hour is 2 ticks, a fetch takes up to 1, and the limiter drops its map
at more than one bucket or after 2 ticks, so that three requests see both evictions and a dropped bucket in use.
Retention covers three hours inside its window, two that leave it, and every phase of the pass.
Deadlock is not checked: bounded identifiers, time, shares, events and requests run out, and a system nobody uses may rest.

Fairness. `Dispatch!FairSpec`: weak fairness of each goroutine (`ConnStep`, `RequestStep`), of each worker and
of its dialling. The Go scheduler is fair, database calls return, and `cmdRun` dials forever. Nothing is assumed
of users, faults or the network. `JoinCodes!FairSpec`: strong fairness for the second connection and the row
lock, because pgx's pool and PostgreSQL serve waiters in order. `EnrollAnswers` needs a pool larger than the
number of concurrent enrolments: with as many enrolments as connections (10 in `store.go`) all may hold the rows
of their SELECT and wait in `Begin` until a request is dropped. `Presence!FairSpec`: the goroutines run and time
passes; nobody has to connect, send or revoke. `Payouts!FairSpec`: the ticker fires, a poll goes on, and a pool
and a database that are asked again and again answer in the end (strong fairness). `EventBroker!BrokerSpec`: a
handler whose client has left notices it.

## 4. Where code and texts disagree

Three are runs that TLC ends with a counterexample; `PROJECT.json` quotes the text.

| Run | Property | What happens |
|---|---|---|
| `claim_rollups` | `RollupsKept` | after a partial prune an hour is re-aggregated over what is left of it |
| `claim_shares` | `NeverOvercounts` | a silent stats API makes the hub count the shares of the process twice |
| `claim_codes` | `NeverReused` | deleting a worker clears `consumed_by` (V4); within its fifteen minutes the code is redeemed again |

Others are behaviours of the models that a text of the repository does not expect:

* `hub.go:614` says "Online reports whether a worker currently holds a connection": `unregister` of a replaced
  connection removes its successor from the hub (`Presence!Unregister`). The successor is then served but not supervised,
  not listed, and not found by a revocation. The same holds for an older connection that registers late.
* `hub.go:471` says CancelMiner "finalizes its run": stopping a queued miner without a job leaves its run open.
* `docs/swarm.md:55` says of a revocation that "the live WS is closed": a worker revoked between AuthenticateWorker and
  register stays connected, and so does one whose revocation fails at its second statement (`Presence!EndJobs`).
* `docs/swarm.md:40` says a worker is marked offline "after 45 s without traffic": `supervise` pings first, and
  a worker that answers stays (`Presence!Ping`).
* `hub.go:434` writes `assigned` after the job was sent: a worker that left in between is listed as assigned.
* A payment without transaction id is inserted and announced again with every poll (NULLs are distinct in the
  unique key), and a transaction that pays two owners, or an address both registered, is recorded for the first only.
* An allocation update records zero threads (`main.go:449`), whatever the user asked for.
* When the child process of an engine exits by itself, the running flag stays set: no later Start succeeds before a Stop.
* The key set of a slow fetch replaces a newer one: for up to an hour tokens of the new key cause a refresh each,
  and one whose own refresh was overtaken gets a 401. `RetiredKeysEnd` bounds the other side.
* A job is sent without an address when WalletAddress fails (`handlers.go:334`); nothing compares the currency
  of a wallet with that of the miner it is attached to.
* An answer to `enroll` that is lost after the commit leaves a worker whose token nobody holds, and a spent code.

`Dispatch` also allows the following, because the code does; no property asks for more than what is left:

* A client that goes away, or a statement that fails, between the status write and the end of Assign leaves a queued miner
  that is not placed until a worker connects, hence `MaxAborts = 0` and `DbFails = FALSE` in the run and the theorem
  about `NoLostMiner`.
* The DELETE handlers of miners and workers act on the hub before the owner is compared (`handlers.go:301`, `479`): the
  request of another user ends jobs and runs, or a connection, and is answered with 404.
* After a lost connection a miner stays `running` although its engine has stopped; only a stop and a new start
  bring it back, because AssignQueued looks at queued miners.
* A `job.cancel` sent between the INSERT of the job and its `job.assign` overtakes the latter; the engine of the
  ended job then runs until the connection ends (`EnginesOwned` and `BrokenConnectionsEnd` bound this).
* A miner whose ack races a stop can end up `running` with all its jobs ended.

`ShareAccounting` allows that the run has more shares than the rows of its samples: an INSERT that fails loses what the
hub has counted already (`hub.go:345`). `RunWithinSamples` and `ReportsAddUp` therefore count the lost samples too.

## 5. Proofs

Every safety invariant and action property of section 3 and both refinements are theorems, for every value of the
constants that satisfies the named assumptions of the specifications: any number of miners, workers, jobs,
connections, requests, codes, streams, payments and shares, any length of hours and windows. The assumptions say
that bounds are natural numbers, that `None` is none of the objects, and what the code fixes (a pool, a channel
and a burst that are not empty, a window longer than an hour and both delays). `QueuedNotLost` and two theorems of
shares have further hypotheses; section 4 and `claim_shares` show why. The invariants below were checked by TLC on the instances of section 3 before they were proved.

**`DispatchProofs`**
* `TypeCorrect` (`TypeOK`). Inductive by itself once it says that the remaining list of a HandleWS holds miners, that of
  a request holds jobs, and that a goroutine about to send has a job (`TasksOK`). One lemma for each kind of
  update (task, link, row) and one for each group of actions.
* `History` (`HistoryStands`), from TypeOK: every statement that writes `swarm_jobs` or `miner_runs` keeps the
  identity of existing rows and never clears `ended_at` or `stopped_at`.
* `Agreement` (`DispatchInv`), and from it `EntriesServed` (`HubEntriesServed`), `EnginesAreOwn` (`EnginesOwned`) and
  `OnlyNative` (`NativeOnly`). None of the three is inductive alone: that an engine runs a job of its own worker rests
  on the message that brought it, that on the choice of the goroutine which sent it, that on the hub entry Assign read,
  and that on the connection being wired to its worker. `Wired` and `Addressed` say this; `GoroutineStep` shows once that a step
  of one goroutine keeps all of it if it touches no other, keeps rows and ends of connections, and sends nothing foreign.

**`PlacementProofs`**
* `QueuedNotLost` (`NoLostMiner`) when no request is aborted and no statement fails (`MaxAborts = 0`, `DbFails = FALSE`). `NoLostMiner` alone is not
  inductive: a goroutine with a cancelled context would give up without looking, so the invariant adds that all contexts are
  live. A step can break the property only by making a miner queued (`Enqueue`, which then stands at `pick` for that
  very miner), by making a worker live (`Register`, which then stands at `joined` and will read all queued miners), or by
  ending a promise to place. A promise ends in `PickWorker`, which finds a live native worker and records the
  choice, or passes from `joined` to the list `ReadQueued` read, or from the list to its next element. `StepOfTask`,
  `StepElsewhere` and `StepOutside` state this for the three shapes of steps. An aborted or failing Assign does break the promise (section 4).
* `RunsOnlyAcked` (`RunningWasAcked`) and `ErrorsNeverRan` (`FailedNeverRan`): an engine was started (`started`) for a job of a
  running miner and for no job recorded as failed, also when statements fail. `AckInv` says why: a job that has neither
  an engine nor a recorded failure is in one place at most (`OnePlace`): with the goroutine that sends it or records its failure, in the
  message to the worker, or in the answer that reports a failure; a started or failed job is in none, so nothing can start a failed job or fail a
  started one. A success that is on its way or being handled is about a started job (`TrueAnswers`, `TrueAck`). `Carried` maps the places
  after a step to those before; only the INSERT makes a first one. The invariant relies on `Agreement` for the connection a job is sent on.

**`JoinCodesProofs`**, invariant `JoinInv`: a code under a row lock belongs to the transaction that consumed it and is still as that
UPDATE found it (`Locks`), an uncommitted worker row belongs to one transaction (`Inserts`), `consumed_by` names the
one worker of the code that exists (`Marks`), a token under way is in no file (`Tokens`), and free connections plus
open result sets plus transactions make the pool (`Balance`). Hence `TypeCorrect`, `OneWorker` (`AtMostOneWorker`), `PoolKept`
(`PoolBalanced`), `TokensKept` (`TokensAreReal`). `Redemption`: `Spec => RedeemsInOneStep`, the refinement of `HeldCodes`; the commit is the step that redeems,
and the deletion of a worker the one that leaves; every other statement of Enroll stutters.

**`RetentionProofs`**
* `NothingPrunedUnseen` (`PrunedWasCounted`), invariant `RetentionInv`: while a pass is under way, every row old enough
  to have been visible and finished when the pass aggregated is counted, and the pass began at most `MaxPass`
  ago; then the window makes every row the prune removes such a row. `EarlierBucket` is the arithmetic of `date_trunc`.
* `TypeCorrect`, `Exact` (`RollupExact`), invariant `RollupInv`: a row exists only for an hour with samples, and no pass
  is in the future. An hour that ended `MaxDelay` before a pass gets no more samples (`EndedHour`), and has at most
  one for each tick (`BucketSize`), which bounds the row.

**`PayoutsProofs`**
* `BrokerTypes`, `NeverSendsOnClosed` (`NoSendOnClosed`), invariant `BrokerInv`: a channel holds increasing numbers of events for its
  client, above what the client was sent (`Queued`). From it `ImplementsFeed`: `BrokerSpec => FeedSpec`, a sent event being the next of the feed.
* `TypeCorrect`, `NothingFabricated` (`RowsAreReal`), `RecordedOnce` (`OncePerTransaction`), invariant `PollInv`: what a
  poll works on was registered and paid (`Working`); all rows of a transaction are one row, and its announcements
  are one event or the one the poller is about to publish (`Single`). `PayoutsFeed`: the composition implements the feed too.

**`SharesProofs`**
* `TypeCorrect`, `MinerKept` (`NoStrayMiner`), `RunWithin` (`RunWithinSamples`), invariant `WorkInv`: the totals of the
  hub, the sum CancelMiner took of them, and the run, are at most what went into samples or is about to (`Totals`); a failed INSERT
  moves a sample from the rows to `lost` and leaves the sum (`Sampled`).
* `CountsAtMostOnce` (`NeverOvercounts`) and `NothingLost` (`ReportsAddUp`) if the stats API answers (`Unreachable = FALSE`);
  `claim_shares` shows that a silent one breaks the first. Invariant `ShareInv`: every report on its way can be stamped with what the pool
  had accepted when it was made, such that between two reports that number grew by at least what the hub will count as
  their difference, also across a restart of the counter (`Stamped`); as long as an ack is still to come nothing is counted, because
  one report at most overtakes it (`AckOrder`); reports of one process grow (`Ordered`).

**`PresenceProofs`**: `TypeCorrect`, `Shown` (`ShownOnline`), and `RevokedRowStays`, an action property: no step changes the row of a
revoked worker. What makes them inductive is that the row says revoked in its status if and only if `revoked_at` is set, which the
WHERE clauses of the status writes preserve.

**`GatewayProofs`**
* `TypeCorrect`: with it, that the maps the limiter dropped and the requests that may still make it drop one are no more than the
  requests that were made (`Typed`).
* `OldKeysEnd` (`RetiredKeysEnd`), invariant `KeysInv`: a key set that is being fetched, cached or used is younger than
  the moment its keys were retired plus the time that remains to it.
* `BudgetHolds` (`BudgetKept`), invariant `BudgetInv`: what a user was let through, plus all that is left in buckets of
  the current map and of dropped ones that a request still holds (`Left`), is at most a burst for each map and one for each tick. The sum
  over maps is kept as a function that grows by what each map has left (`Covers`), since no operator sums it.

Only model-checked: the liveness properties (`QueuedIsServed`, `StopEndsJobs`, `BrokenConnectionsEnd`, `SilentLeaves`,
`RevokedIsCutOff`, `EnrollAnswers`, `GoneFreesPlace`, `PaymentRecorded`), because fairness and ENABLED are outside the
prover's reach. `FeedSpec` and `RedeemsInOneStep` are safety specifications and are proved.

## 6. Not modelled, and the plan

* The stratum client: no command imports the package (the relay for browser workers is not active in this
  version), so nothing says who calls it, from which goroutines and in which order.
* Catalogue, settings, history and statistics endpoints: single statements over rows nothing else changes.
* The web frontend: pages, and a token refresh whose guarantees rest on the identity provider.
* `metrics/rollup.go` (a second loop over `RollupOnce` that is not started), `PublishAll` (no caller), the log
  buffers, the reconnect backoff (it changes when, not whether, a worker dials).
* The wait of the hub for the pool: `Assign` queries the owner of a miner while it holds `Hub.mu`. `JoinCodes`
  shows when the pool runs dry; the two are not composed.
* Configuration, wallet address patterns, argument rendering, code formatting and hashing, the WebAssembly hash, seed
  data, container files: no state shared with anything, or plain data.

Next: `WillPlace` without the hypothesis on aborts, for the requests that were not aborted; the composition of the
hub with the pool of `JoinCodes`; the stratum client once a command uses it.
