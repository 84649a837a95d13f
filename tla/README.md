# Formal models of the receivables platform

TLA+ models of the parts of the platform in which requests, timers and
external services overlap, the TLC runs that check them on small instances, and
TLAPS proofs of what holds for every instance. Paths below are relative to
`src/platform/` unless they start with `src/`.

## 1. The system

The platform is a set of NestJS modules (`Module_01` ... `Module_17`) over one
PostgreSQL database through TypeORM, with Redis and Temporal beside it. A
module is a set of controllers and services. A service keeps its state in two
ways, and each has its own hazard:

- **Rows.** Nearly every operation is `findOne`, a check, assignments to the
  loaded entity, `save`. There is neither a transaction nor a version column nor
  a lock (the ledger has transactions, but no lock on what it reads), so another
  request can run between read and save. TypeORM's `save`
  is two statements: it reads the row again, and later UPDATEs the columns in
  which the entity differed from that reading, also those the caller never
  meant to touch. A stale copy that is saved alone thus undoes what others wrote, and
  the row becomes that copy, whole; but when two saves both read before
  either writes (*they cross*), the row becomes a mixture of two copies. The models keep
  all of this: an operation in flight carries its copy of the row and, once its
  save has begun, the set of columns the UPDATE will name.
- **Memory.** Some services keep maps, counters, queues and timers in memory.
  Node runs them on one thread; other callers run only at an `await`. An
  action of these models is the code between two awaits.

### Inventory

| component (source) | state | operations | what is hard | what makes it correct |
|---|---|---|---|---|
| accounting hub, connection pool (`Module_11_Common/.../connection-pool.service.ts`) | Map of connections, wait queue, three timers | acquire, release, remove, health check, cleanup, clearAll | awaits between test and insertion; queue, waiter timers, cleanup and shutdown interleave | no waiter lost or settled twice; no foreign tenant's connection; bounded size; every acquire settles |
| orchestration hub, integration gateway (`Module_10_.../integration-gateway.service.ts`) | breaker per module, request times per tenant | execute an action, record its result, reset | results in any order, late results, time | counters fit the state; only probes close; an open breaker reopens; the window holds |
| trade, escrow (`Module_13_.../escrow.service.ts`) | a row per escrow | create, fund, release, dispute, resolve, cancel | overlapping read-check-save | funds leave once; status and timestamps agree |
| trade, initiation (`Module_13_.../cross-border-trade.service.ts`, `compliance.service.ts`) | rows of five tables | one saga of five awaited calls | failure in the middle, a compliance officer at the same time | no escrow before screening; a success answer is complete |
| financing, auction (`Module_07_.../auction.service.ts`) | a row per auction, a timer | start, collect, store, complete, cancel | a background task and users overwrite one row; the timer races the partners | an award is whole; the submission ends; received offers count |
| general ledger, posting (`Module_17_.../gl-posting.service.ts`) | journal entries, their lines, account balances | create, post | READ COMMITTED transactions that read without locks; several accounts per entry, in any order | an entry is posted once; balances are the sum of the posted changes; nothing partial is visible; every post ends |
| distribution, webhook delivery (`Module_02_.../webhook-management.service.ts`) | registry, queue and logs in memory, one flag | register, update, delete, trigger, process the queue, clean up | an interval, triggers and a pass that awaits HTTP calls share queue and flag; retries with backoff | one call at a time; attempts within the policy; nothing forgotten; events in order; every delivery settles |
| administration, module access (`Module_12_.../module-access.service.ts`) | rows of grants and flags, a Map with timers per process | check, grant, revoke, set a flag, clear | several processes with a cache each; reads under way during a change; restarts | an outdated answer is bounded in time; all processes converge |
| administration, usage quotas (`Module_12_.../usage-tracking.service.ts`) | a counter per quota, events | track, check, set, reset | check before use, reset decided from an old read | see section 7 |
| everything else | rows | CRUD, reports, scores, documents, messages | little that races | see section 7 |

How they interact: `CrossBorderTradeService` calls the escrow, forex, trade
finance, shipping and compliance services and awaits each. `AuctionService`
calls partner plugins, the normalisation and the ranking service. The payment
workflow and the orchestrator reach other modules through adapters, all of
which go through `IntegrationGatewayService.executeModuleAction`. The
accounting hub's connectors share one connection pool per process. The routes of
the administration module ask `moduleAccessService` before every request.

## 2. The modules

| module | what it is |
|---|---|
| `ConnectionPool` | the pool with its callers, timers and shutdown |
| `IntegrationGateway` | circuit breakers and rate limiter, with time |
| `EscrowLedger` | abstract: one escrow whose operations are atomic |
| `Escrow` | the service: overlapping read-check-save on one row, over `EscrowLedger` |
| `CrossBorderTrade` | extends `Escrow`: the initiation saga that creates the escrow |
| `Auction` | one auction, its submission, its users |
| `GeneralLedger` | abstract: a ledger in which a post is one step |
| `GlPosting` | the posting service: READ COMMITTED transactions with row locks, over `GeneralLedger` |
| `Sums` | the sum both ledgers add up with |
| `WebhookDelivery` | the webhook registry, its queue, retries and cleanups |
| `ModuleAccess` | caches of grants and flags in several processes, with time |
| `MC...` | the instances for TLC |
| `...Proofs` | theorems and proofs of the module of that name |

An operator that follows the words "MUTANT of D" is a plausible bug in
the code that `D` models; no specification uses it. Replacing `D` with it makes
some property fail, which shows that the property depends on that code.

### ConnectionPool

`pool`, `conn` and `waitQueue` are the service's Map and array; an instance is
reduced to its key (tenant and system), its health flag and whether `lastUsedAt`
is older than `maxIdleTime`. `pc`, `want`, `held` say where each caller is. The
code has three awaits: `establishConnection` (between `AcquireNew` or a turn
from the queue and `Established`/`EstablishFailed`), the `close` of `remove`
(`RemoveStart`, `RemoveDone`; `CleanupVisit`, `CleanupClosed`; `ClearStart`,
`ClearClosed`, `ClearDone`) and the waiter's promise (`AcquireQueued` to
`WaitTimeout` or a turn). `processWaitQueue`, which release and remove call last,
is `ServeQueue` inside those actions. A caller may hold a connection for ever,
may discard it instead of releasing it, and may find it removed under it.

### IntegrationGateway

The code compares only differences of times, so a time is kept as an age,
saturated where no comparison can tell it apart from a larger one; `Tick` is one
unit of time. `Looked`, `AfterSuccess`, `AfterFailure` are the three functions
on a breaker, applied to the breaker as it is when the result arrives. `accepted` and
`openFor` are ghosts, read by properties only (and by the choice of a slot). The order
of a tenant's request times is never used, so `requests` is no list: each request
has a slot that holds its age, and `InWindow` is the filter of `checkRateLimit`.
There are twice as many slots as the limit allows, so that the limit could be
exceeded. `TimerLag` bounds how late
`setTimeout` may fire.

### EscrowLedger, Escrow, CrossBorderTrade

`EscrowLedger` gives each operation the check and the target status of the
code and counts how often funds leave. `Escrow` splits every operation into
`Load` (findOne, check, assignments to the copy), `Reload` (save reads the row
again and determines the columns to write) and `Save` (the UPDATE), or `SaveFails`,
for any number of requests at once. Whether a column with a date is among them when
both sides have one is left open: the dates may be equal or not. `payouts`, `overlaps`
and `crossed` are ghosts: how often an
operation that lets funds out succeeded, how often a request read the row
while another had yet to save its copy (`Arrive`; `MaxOverlaps` bounds the count for
TLC), and whether a save has begun between the two statements of another. `hash` is the length of the
`blockchainHash` to be written: the generated one has 66 characters, the column 64,
so that PostgreSQL refuses it and SQLite, which the tests use, does not.
`HashColumn` is therefore a constant, 66 in the passing runs (every operation
reachable) and 64 (PostgreSQL) in the run that shows a violation.
`CrossBorderTrade` adds the five steps of `initiateCrossBorderTrade`, a
compliance officer who may set the status of the check at any time and a
failure of every awaited call. `Refused` is the set of calls whose row the database never
takes. It is empty in the run, which is about the handler as it is meant; as services and
entities stand, it contains the first call (section 7). The escrow is open to requests from the moment it
is saved, while the saga goes on.

### Auction

`row` is the part of the auction's row that changes, `terms` what `startAuction`
fixes. `at` is the place of `submitToPartnersAsync`: collection (partners answer
in any order or never), the race with the timer, `processOfferResults` in two
steps, `tryCompleteAuction`, and `completeAuction`. Users call `completeAuction`
and `cancelAuction` at any time; each call, and the submission's storing of the
offers, carries its copy of the row from its read over the second read (`Reload`) to
its UPDATE (`Save`, `StoreOffers`). `crossed` is the ghost of `Escrow`. Ranking is a function of the offers (`Winner`). Unknown partner
ids, which have no plugin but are counted in `partnerIds`, are `MaxUnknown`.

### GeneralLedger, GlPosting

`GlPosting` cuts `postEntry` at its database calls: `LoadEntry` (entry and lines,
the test of the status), then for each line `ReadAccount` and `SaveAccount`, then
`SaveEntry` and `Commit`. A transaction sees what is committed and its own writes
(`View`); a write waits for the row's lock (`WaitsFor`); a circle of waiting
transactions loses one (`AbortDeadlock`); any call may fail (`Rollback`). These
are PostgreSQL's part and marked external in the map. `createEntry` is one
step, as nobody sees the entry before its transaction commits. Amounts are in
cents; `Balanced` has the tolerance of the code, 0.01. `booked`, `net`, `posts`
and `touched` are ghosts. So is `overlap`, the rows that two posts in flight
have both read: on them the service loses changes or posts twice, and the
properties say that on all others it does not. `GeneralLedger` posts an entry
in one step, with the net change of its lines on every account, and exempts the
rows that become `shaky`; the refinement maps `shaky` to `overlap`, which grows only
when two posts really overlap.

### WebhookDelivery

`hook`, `maxRetries` and `logs` are the registry, `queue`, `status`, `attempt` and
`retryIn` the deliveries, numbered in the order in which they were queued,
`processing` the flag, and `todo`, `running`, `calling` and `limit` the local
state of the executions of `processDeliveryQueue`: more than one can exist in
the model, and that at most one does is a consequence of the flag, not of the model. The only
await that lets others in is the HTTP call, between `NextDelivery` and
`CallSucceeds` or `CallFails`: the validation of an address (117) and the matching
of an event (160) are awaited too, but do no I/O, so that nothing else runs before they
resume. `limit` is the policy of the webhook object held across the call. `Trigger` queues a delivery for any set of active webhooks and then starts a
pass, `IntervalFires` starts one otherwise, `EndPass` cleans up and resets the flag,
`CronCleanup` is the daily cleanup, `Age` makes a delivery older than 30 days.

### ModuleAccess

`row` is the database, `cache` and `timers` the Maps of every process with their
pending `setTimeout`s, `call` the queries awaited. A check that hits the Map
changes nothing; a miss reads the row (`Query`) and stores it when the answer
arrives (`Answered`), however late. A change writes the row (`GrantAccess`,
`RevokeAccess`, `SetFeatureFlag`) and deletes the entry of its own process when
the answer arrives (`Invalidate`), which `QueryRejected` or `Restart` may prevent.
`kind` says in which of the two Maps a key is. The code is the same for both and keys do
not affect each other, so the instance has one key, whose kind is chosen at the
start.

## 3. The runs

| run | instance | shows |
|---|---|---|
| `pool` | 2 callers, 2 keys, pool of 1, 3 ids | `TypeOK`; `WaitersAreQueued`: the queue is exactly the set of waiting callers, once each; `OvershootBounded`; `TenantIsolation`; `AcquireSettles` under fairness |
| `pool_limit` | same | violation of `LimitConcurrentConnections` |
| `gateway` | 2 calls, 1 module, 2 tenants, thresholds 2, timeout and window of 2 units, timers up to 1 unit late | `BreakerConsistent`, `OnlyProbesInHalfOpen`, `QuarantineBounded`, `RateWindow`, and under fairness `LimitLifts`, `CallSettles` |
| `escrow_races` | 3 requests, up to 5 overlaps | `CoherentUnlessCrossed`: stale saves leave a row some operation could have left unless two saves cross; `NeverPendingAgain` whatever overlaps or crosses; `PayoutsWithinOverlaps`: the funds leave at most once more than requests overlapped |
| `escrow_payouts` | 2 requests, up to 2 overlaps | violation of `FundsLeaveOnce` |
| `trade_saga` | 1 trade, 2 requests, no overlaps, no call refused for good | `ImplementsLedger` (refinement), `EscrowAfterScreening`, `SuccessIsComplete` |
| `auction` | 3 partners, 2 users, minimum 2, thresholds 0 or 1, up to 1 unknown id | `AwardWholeUnlessCrossed`, and under fairness `SubmissionEnds`, `FullHouseSettles` |
| `auction_threshold` | 3 partners, 1 user | violation of `EarlyTermination` |
| `ledger` | 2 requests, 2 entries, 2 accounts of either normal balance, 4 lists of lines | `NoLostChange`, `PostedOnce`, `TrialBalanceDrift`, `ImplementsLedger` (refinement), and under fairness `PostSettles` |
| `webhooks` | 2 webhooks, 2 deliveries, 2 executions, `maxRetries` 0 or 3, delays of 1 and 2 units | `OneCall`, `AttemptsBounded`, `NothingForgotten`, `FirstAttemptsInOrder`, `SettledIsFinal`, and under fairness `DeliverySettles` |
| `access` | 2 processes, 1 key, 2 calls, TTL and query time of 1 unit, at most 2 timers of one age | `StaleBounded`, and under fairness `Converges` |

Each run lists the parameters that bound it; these are the only bounds. Why they suffice:

- *pool*: a limit of 1 is the smallest at which the pool is full, queues,
  overshoots and serves its queue; two callers overlap at every await; two keys
  let a connection be the wrong one. A removed connection can still be held, so there
  is a third id. The proofs lift three of the properties to any size.
- *gateway*: breakers of different modules share nothing. Two calls let one be
  older than the other across an opening; thresholds of 2 separate "first" from
  "last". `Timeout = 2` has an instant before, at and after expiry; with `TimerLag = 1`
  a call can outlive the open state and meet a half-open breaker.
- *escrow*: two requests race and their saves cross; a third makes a chain of stale
  saves, and five overlaps let it come back to a status it had left. The bound of `PayoutsWithinOverlaps` is met with
  equality. One row is enough because no operation reads another.
- *ledger*: two transactions make every conflict of READ COMMITTED (overlapping
  reads, a wait, a circle of two); the line lists name the accounts in opposite
  orders or one of them twice, and two are off by a cent and by more, of which
  `createEntry` refuses the second (`MCGlPosting`). The proofs lift everything but `PostSettles` to any number.
- *webhooks*: two deliveries give an order and an overtaking retry, three attempts
  two different delays, of which the second is the capped one (the multiplier is 3).
  All but `DeliverySettles` is proved for any numbers.
- *access*: two processes make one that is not told; two calls make a read
  overtaken by a change or by another read; two timers of different age make
  one that deletes a newer entry. `TTL` and `QueryTime` of 1 tell "within" from
  "after"; the proof is for any.
- *trade*: one request at a time, because `ImplementsLedger` holds only then;
  the overlapping case is `escrow_races`, where the escrow is on its own.
- *auction*: three partners allow a silent one beside enough offers; two
  users overlap, and their saves cross, with each other and with the submission. With a
  minimum of 2 one offer is too few, two meet the criteria and three fill the house.

### Fairness

- `pool`: the waiter's timer fires and `establishConnection` settles. Both are
  the runtime's, not the callers': nobody has to release anything.
- `gateway`: time passes and a due timer fires (`Tick`, `TimeOut`). Adapters
  may hang for ever.
- `auction`: time passes, a due timer fires and every database call settles.
  Partners need not answer and users need not act. `SubmissionStep` is fair as
  a whole, so which of its outcomes occurs, a failure included, is free.
- `ledger`: a statement that does not wait returns, and PostgreSQL grants a row
  lock in the order of the requests for it, hence strong fairness of the two
  writes; its deadlock detector runs. Nobody has to call the service.
- `webhooks`: the interval fires, time passes, calls end within their 30 seconds.
  No receiver has to accept anything.
- `access`: time passes, timers fire, queries end with or without an answer.
  Nobody has to check, change or clear anything.
- `escrow` and `trade` have no liveness property: nothing in the code obliges
  anyone to act on an escrow. Their runs (and the auction's, the
  ledger's and the webhooks') do not check for deadlock: a finished trade or
  auction, a ledger with all its entries posted and an empty queue legitimately
  stop.

## 4. Where the code and its documentation disagree

With a run (each finding quotes the line it refutes):

- `pool_limit`: the size is tested before the await of `establishConnection`
  and the connection inserted after it, so concurrent acquires exceed
  `maxPoolSize`, against "Limit concurrent connections". `OvershootBounded` says
  what is left of the limit.
- `escrow_payouts`: two releases that both read FUNDED both let funds out,
  against "Escrow must be FUNDED to release".
- `auction_threshold`: the timer resolves the race with an empty list, so offers
  already received are dropped and the threshold never examined, against
  "Complete if X offers received".

Seen while modelling; they need no interleaving, and no run is spent on them:

- *pool*: idleness is measured by `lastUsedAt`, which stays as it is during
  use, so a connection held longer than `maxIdleTime` is closed under its user
  (line 389). The removes of `clearAll` serve waiters that it then means to
  reject (203, 208). `remove` leaves a closing connection acquirable (154). A
  queued creation that fails does not pass its turn on (338).
- *gateway*: the log says "opened after N failures", but a success only
  decrements the count, so it is no streak (376, 394).
- *escrow*: `cancelEscrow` accepts FUNDED (164), against the test
  `escrow.service.spec.ts:273`. `resolveDispute` and `cancelEscrow` always write
  the generated hash, which PostgreSQL refuses (284). A release and a dispute
  whose saves cross leave an escrow that is `disputed` and has a `releasedAt` (107, 126):
  the first UPDATE names `status` and `releasedAt`, the second `status` and `disputedAt`.
- *trade*: a trade that fails after its escrow was created leaves the escrow
  open (161). The trade asks for a `trade_restrictions` check, which
  `runComplianceCheck` sends to the generic check that approves everything
  (`compliance.service.ts:318`), and a rejection would be mapped to `pending` (338):
  were the check stored at all, no sanction would stop a trade. As the entity stands, every
  trade fails before (section 7).
- *auction*: `completeAuction` refuses only COMPLETED (330), so a cancelled or
  expired auction is completed when its offers arrive; a stale cancel
  overwrites a completed award, and stale offers make a cancelled auction active again
  (255); a completion and a cancellation whose saves cross leave a `cancelled` auction with a
  winner (367, 563); the catch marks EXPIRED over any status (131).
  A threshold below `minOffersRequired` makes the completion throw, which
  expires the auction. "Timeout reached with minimum offers" (302) is not
  reached through the timer, which leaves no offers. An auction with too few offers stays
  ACTIVE. Unknown partner ids make "all responded" unreachable (290).

- *ledger*: two overlapping posts of one entry both pass the test of the status
  (68) and both change the balances, against the test "should prevent posting
  already posted entry" (`services/__tests__/gl-posting.service.spec.ts`), which posts
  one after the other; overlapping posts of different entries on one account lose
  one of the changes (87). `overlap` is exactly this. Entry numbers are
  `JE-` and the milliseconds of the clock in a unique column, so two entries of one
  millisecond cannot both be created (42). A difference of exactly one cent is
  accepted or refused as the floating point subtraction rounds it (31). Line 73
  cannot be reached, as a foreign key refuses the line at its creation.
- *webhooks*: `maxRetries: 3` allows three attempts, not three retries (251). A
  webhook deactivated or deleted after the trigger: the first still gets what is
  queued, the second fails it (210). A receiver that took an event but
  answered too late gets it again (235). A retry is made after later events. A
  policy with a field missing gives an invalid date, and its delivery
  is never made again (253). Nothing survives a restart (65-67).
- *module access*: a revoked grant is answered from other processes for up to
  the TTL and a query, and from the process that revoked it when a read was under way
  (128); `StaleBounded` is what remains of the deletion "when access is
  granted". `requireModuleAccess` reads the access twice, and the second answer, which
  it attaches to the request, need not be the one that was checked (341, 357).
  `rolloutPercentage || 100` makes 100 of 0 (254).
- *usage quotas*: the request whose check resets a quota is still judged by the usage
  before the reset (112); two checks may both reset (308).
- Parts that cannot run as written are listed in section 7.

## 5. What is proved

| module | theorem | statement | assumes |
|---|---|---|---|
| `ConnectionPoolProofs` | `PoolTypeCorrect` | `[]TypeOK` | |
| | `QueueMatchesWaiters` | `[]WaitersAreQueued` | |
| | `TenantsIsolated` | `[]TenantIsolation` | |
| | `OvershootAlwaysBounded` | `[]OvershootBounded` | |
| `IntegrationGatewayProofs` | `BreakerAlwaysConsistent` | `[]BreakerConsistent` | |
| | `OnlyProbesClose` | `[]OnlyProbesInHalfOpen` | |
| | `QuarantineAlwaysBounded` | `[]QuarantineBounded` | |
| | `GatewayTypeCorrect` | `[]TypeOK` | |
| | `RateWindowHolds` | `[]RateWindow` | |
| `EscrowProofs` | `EscrowTypeCorrect` | `[]TypeOK` | |
| | `CoherentUntilCrossed` | `[]CoherentUnlessCrossed` | |
| | `CrossingNeedsOverlap` | `[](overlaps = 0 => ~crossed /\ Coherent(row))` | |
| | `NoWayBackToPending` | `NeverPendingAgain` | |
| | `OverlapsBoundPayouts` | `[]PayoutsWithinOverlaps` | |
| | `SerialPaysOnce` | `[](overlaps = 0 => Ledger!PaidOnce)` | |
| | `SerialImplementsLedger` | `ImplementsLedger` | `[](overlaps = 0)` |
| | `LedgerPaysOnce` | `Ledger!LedgerSpec => []Ledger!PaidOnce` | |
| `AuctionProofs` | `AuctionTypeCorrect` | `[]TypeOK` | |
| | `AwardWholeUntilCrossed` | `[]AwardWholeUnlessCrossed` | |
| | `FullHouseNeverLeft` | `[]NoFullHouseLeft` | |
| `CrossBorderTradeProofs` | `TradeTypeCorrect` | `[]TradeTypeOK` | |
| | `RefusedCheckStopsTrade` | no escrow and no success answer | `"create_check" \in Refused` |
| | `ScreenedBeforeEscrow` | `[]EscrowAfterScreening` | |
| | `SuccessAlwaysComplete` | `[]SuccessIsComplete` | |
| | `TradePayoutsBounded` | `[]PayoutsWithinOverlaps` | |
| | `TradeImplementsLedger` | `ImplementsLedger` | `[](overlaps = 0)` |
| `GlPostingProofs` | `GlTypeCorrect` | `[]TypeOK` | |
| | `NoChangeLost` | `[]NoLostChange` | |
| | `PostedAtMostOnce` | `[]PostedOnce` | |
| | `TrialBalanceBounded` | `[]TrialBalanceDrift` | |
| | `PostingImplementsLedger` | `ImplementsLedger` | |
| | `NoStandstill` | `[]Unblocked` | |
| `WebhookDeliveryProofs` | `OneCallAtATime` | `[]OneCall` | |
| | `AttemptsAlwaysBounded` | `[]AttemptsBounded` | |
| | `NoDeliveryForgotten` | `[]NothingForgotten` | |
| | `EventsInOrder` | `[]FirstAttemptsInOrder` | |
| | `SettledForGood` | `SettledIsFinal` | |
| | `DeliveryTypeCorrect` | `[]TypeOK` | |
| | `NoDeliveryStranded` | `[]NoneStranded` | |
| `ModuleAccessProofs` | `AccessTypeCorrect` | `[]TypeOK` | |
| | `StaleAlwaysBounded` | `[]StaleBounded` | |

All of them for every value of the constants that satisfies the `ASSUME` of the
module: finite sets, positive limits, distinct sentinels. Only
`RefusedCheckStopsTrade` restricts them further. The two that assume `[](overlaps = 0)` are about the
behaviours in which no requests overlap, and that is needed: with one overlap the funds
leave twice (`escrow_payouts`).
`NoFullHouseLeft`, `Unblocked` and `NoneStranded` are defined with their proofs:
they say that nothing gets stuck, which is what `FullHouseSettles`,
`PostSettles` and `DeliverySettles` rest on besides fairness. The arguments:

- **Pool.** `WaitersAreQueued` alone is not preserved: that the head is taken off
  exactly once needs the queue to be a sequence without repetition whose members are the
  waiting callers (`Lists`). One lemma per way the code changes the queue
  (append, tail, splice) says how `Lists` changes. `TenantIsolation` needs
  `HoldersHold`: who uses or removes a connection has an id in `held`, so
  that an id in use is never given to a new connection. The overshoot: whoever
  starts a connection has just seen the pool below its limit; from then on, the
  sum of pool and creations only falls, until the next start.
- **Gateway.** A call lives at most `TIMEOUT_MS`, and a breaker turns half-open
  only when its last failure is strictly older than that. The invariant says
  that no call in flight on an open module is younger than the last failure
  and, if half-open, that all are probes or past their timeout. The strict `>` in
  `getCircuitBreakerState` is needed. Nothing is assumed of the punctuality of
  `setTimeout`: its lag is a constant of any value, and the bounds say what it costs.
  While a timer is late, the result of an old call may count as a probe's, and an
  open breaker stays open that much longer. The limiter has an invariant of its own:
  the requests the pruned list still has in the window are exactly the accepted ones
  of the same ages (`LimiterInv`), so the length that is checked is the number that is
  bounded.
- **Escrow.** Until two saves cross, every copy in flight is coherent, since it was
  computed from a coherent row by an operation whose check passed, and the one save
  that has begun names every column in which its copy differs from the row (`OneSave`),
  which nobody has changed since it was read again: the UPDATE stores the copy whole.
  Without the second read, or with only the assigned columns in the UPDATE, this
  fails: the mutant `ReloadAssigned` shows it. No copy is pending, hence no way
  back, crossed or not. The payouts need an account
  of what is still to come (`Charged`): what was paid, one if the row lets an
  operation pay, and one for each copy in flight, less one if every copy is `Fresh`, that is
  what its request would load now, come to no more than `1 + overlaps`. A fresh
  save pays what the row had to pay; a stale one pays, or leaves a row that pays,
  once, for which it was charged when it overlapped; the first copy to be loaded is
  charged to the row. Without the discount for fresh copies the invariant is not
  inductive, as the first load would exceed it. While `overlaps` is 0 a copy is
  alone and fresh, so a save is a step of the ledger, and a failed save or a load a
  stutter.
- **Auction.** Until two saves cross, copies that may still be saved are awards that
  are whole, and the one save that has begun names every column in which its copy differs
  from the row, but for a status the catch may have set meanwhile (`Complete`); before
  the offers are stored no copy of a completion exists, so that the submission's own save
  cannot erase a winner. A full house, crossed or not: while the row is
  active it has the offers the submission stored (`OffersKept`), since what users
  save ends the auction (`CopiesEnd`) unless it names no status, and then the row was
  not active before (`SavesEnd`), so the criteria that are read next are met.
- **Trade.** Every step of the handler, projected to the escrow, is a step of
  `Escrow` or a stutter, so a behaviour of the composition is one of the service
  (`TradeSpec => Spec`) and inherits its theorems. The handler's own properties rest on what
  each awaited call has left behind by the time of the next (`Progress`), and
  on requests being in flight only for an escrow that exists.
- **Ledger.** On an account that no two posts have both read, what a transaction
  reads and writes is `booked` plus its own changes so far (`Views`); committing it moves
  balance and `booked` alike. For the status: while
  an entry is not in `overlap` at most one request has it, and it is not yet
  posted. The books (`Booking`): what a transaction has changed so far is the sum of
  the lines behind it, account by account (`NetSoFar`) and side by side
  (`SidesSoFar`), so that at the commit it is the `Net` of `GeneralLedger` on every account,
  and the sides gain what the entry is off by, at most a cent (`BookedDrift`). From
  this follow the refinement and the trial balance. The sums are folds; that a sum over
  a set is that over a smaller set and one more term is proved by induction on finite
  sets, from the well-foundedness of `<`. A circle: whoever holds a lock is in
  flight, so if all wait, leaving out those nobody waits for, one by one,
  leaves a circle.
- **Webhooks.** `processing` is true exactly while one execution runs
  (`OneRun`), so that its list stays unsettled (`ListsUnsettled`) and complete up
  to what was triggered later (`PendingListed`), which orders first
  attempts; a delivery between two attempts was granted the next one by a policy
  (`Granted`), and has a time for it (`NextAttemptSet`), at most `MaxRetryDelay`
  away, since the delays are naturals, by induction on the attempts.
- **Module access.** `StaleBounded` is not inductive: that an outdated entry
  goes in time needs a timer that will delete it early enough
  (`OutdatedTimed`), which at the moment of the change follows from every entry having a
  timer at all (`EntriesTimed`), and for an entry stored after the change from
  the age of the read that brings it (`ReadsRecent`).

TLC checks the same formulas in the runs above first; the runs are also the
place where the `ASSUME`s are evaluated.

Only model-checked: every liveness property (`AcquireSettles`, `LimitLifts`,
`CallSettles`, `SubmissionEnds`, `FullHouseSettles`, `PostSettles`,
`DeliverySettles`, `Converges`), as TLAPS has no reasoning
for fairness here. Every other property of a passing run is stated by a theorem above;
the three runs that end in a violation refute theirs.

## 6. Abstractions

- Amounts, parties, currencies, texts and notifications are left out: no
  property depends on them. Identifiers are model values.
- A save that fails changes nothing. A crash between two steps of a handler is
  the same as a failure that nobody answers: the rows stay as they are. The
  memory of the pool and the gateway does not survive a restart, and neither
  re-reads anything: `Init` is the restart.
- In `Escrow`, `payouts` counts operations answered with success, because the
  code's transfer of funds is only simulated.
- In `Auction`, a user's call of `completeAuction` that is refused changes
  nothing and has no action.
- In `GlPosting`, journal entries come without an id of the caller's, and amounts
  are natural numbers of cents: the drift within a cent is modelled, the
  rounding of larger sums is not.
- In `WebhookDelivery`, `updateWebhook` is one step. Were the connection test of
  `validateWebhookUrl` (377-378) enabled, a deletion during it would be undone by the update,
  which stores an object built from what it read before. Addresses, payloads, signatures and the filters of events are
  left out; policies are complete. Ids are never drawn twice.
- In `ModuleAccess`, timers fire on time and a read is answered within `QueryTime`.
  The database driver sets no limit, so `QueryTime` is an assumption about
  the environment, and `StaleBounded` is relative to it.
- In `ConnectionPool`, the health check sets the flag of a connection to either
  value; the code takes `connection.connected` (367-375), which the external client sets.
  A check begun before the shutdown goes on beside it.
- In `IntegrationGateway`, a request for a module without an adapter counts against the
  limit and is refused (`NoAdapter`); which modules have one is left open.
- `save` is two statements where its row has several columns that are checked or read
  together (`Escrow`, `Auction`). The check of a trade has one such column, so one step is enough. In `GlPosting` a post changes one column of an account, which its save always
  names, since the new balance is a number and the one read again a string, so one step
  writes it; nobody else changes the entry's other columns. `updatedAt` and texts are left out.

## 7. Not modelled, and why

Eight components are modelled, two of them in part. They are those in which something overlaps
and the code as it stands can run. Most of the repository is neither: entities,
DTOs, controllers, CRUD services, reports, scores computed from rows, wrappers
of external services and user interface, so that the models cover a small share of its lines.

**Code that cannot run as written.** But for the first, a model of these would be one of
a program that does not exist; what was found is:

- *Cross-border trades* (`Module_13_.../cross-border-trade.service.ts`): the first call
  saves a `TradeCompliance` without `tradeId`, `countryCode` and `createdBy`, which are NOT
  NULL, and with a type that is not in its enumeration
  (`compliance.service.ts:105-115`); the rate look-up of the second uses `$ne` and `$gt`,
  which TypeORM does not know (`forex.service.ts:131-163`), and its rate lacks columns too; so does
  the shipping order. Every trade is answered `failed`, and only with mocked services
  (`cross-border-trade.service.spec.ts`) does the handler get further. Its control
  is modelled nevertheless, with the refused calls as the parameter `Refused`:
  `RefusedCheckStopsTrade` states what the program does now, `EscrowAfterScreening` and
  `SuccessIsComplete` (proved for every `Refused`) what the handler will guarantee once
  services and entities agree. The escrow service itself runs.
- *Payment workflow* (`Module_10_.../payment-processing.workflow.ts`): its
  activities take `(context, parameters)` while the workflow passes one object, so the
  parameters are undefined and every attempt of `processPayment` throws;
  `trackPaymentEvent` does not exist.
- *Collection sequences* (`Module_08_.../collection-sequence.service.ts`): steps are
  read back from a jsonb column, `scheduledAt` as a string whose comparison with a
  `Date` is never true, and no step is executed;
  `collection-management.service.ts:189` cancels by the id of the case instead of the
  sequence and swallows the error.
- *Dispute approvals* (`Module_08_.../approval.service.ts`): role names are
  written to a uuid column. `dispute-management.service.ts` does not parse.
- *Reconciliation* (`Module_17_.../reconciliation.service.ts`): the candidate query
  joins on fields no entity has, so every transaction ends unmatched; a
  match lacks the `invoiceId` its entity requires; `fuzzyMatches` is a constant that
  is incremented.
- *Recurring invoices* (`Module_01_...`): the service reads `next_run` and
  `is_active`, the entity has neither.
- *Trade finance* (`Module_13_...`): service and entity disagree on statuses and
  columns. *Milestone workflows* (`Module_05_...`): the engine writes statuses
  that are not in the enumerations. *Subscriptions* and *tenant provisioning*
  (`Module_12_...`) do not parse.

**Next candidate.** Usage quotas (`Module_12_.../usage-tracking.service.ts`): events and
counter in one transaction, checks that read first and reset later. Its two
hazards are in `PROJECT.json`; the model would be callers that check, act and
track, against the scheduled reset, with the invariant that usage since the last
reset is counted, which a second reset breaks.

**Out of scope.** The other workflows of module 10 (the same activities), the
connectors and the queue of the accounting hub (external systems, the Bull library, and a
placeholder job), payments (wrappers of gateways), analytics, scoring, marketing,
globalisation (computed from rows), frontends, machine-learning services and
deployment files. `PROJECT.json` lists every component with its sources.
