# TLA+ models of the AgroBridge Foundation backend

The backend is one Node.js process (several in production) that serves a
donation site: donors open a Stripe Checkout, Stripe reports its outcome by
webhook, administrators log in and look at what came in. A large part of the
code protects the process from its callers and from its dependencies: rate
limiters, circuit breakers, caches. This directory holds TLA+ models of the
parts whose correctness depends on the order in which things happen, the TLC
configurations that check them on small instances, and proofs, checked by
TLAPS, of the properties that hold for every instance.

Paths below are relative to the root of the repository.

## 1. The system

Node runs one handler at a time and switches only at an `await`. Every model
uses that: **a step is the code between two awaits**, and between two steps
anything else may run. Nothing else is atomic: several processes share
PostgreSQL and Redis, and Stripe, Redis and the reputation services answer
late, twice, or never.

| Component | State | Operations | Talks to | What is hard |
|---|---|---|---|---|
| Donation intents (`src/api/routes/donations.ts`, `services/donation-service.ts`, `services/stripe-service.ts`, `repositories/donation-repo.ts`) | rows of `Donation` | insert PENDING, create a Checkout session, attach its id | PostgreSQL, Stripe | three awaited statements with no transaction around them |
| Stripe webhook (`api/routes/webhooks-stripe.ts`, `webhooks/stripe-webhook-handler.ts`, `repositories/webhook-event-repo.ts`) | rows of `WebhookEvent`, `Donation.status` | insert the event, update the donation, mark processed, answer | PostgreSQL, Stripe | at-least-once, concurrent, reordered deliveries; handlers that stop half-way |
| Redis rate limit store (`rate-limiting/redis-rate-limit-store.ts`, `cache/redis-client.ts`) | its breaker, a flag, retries in progress | incrementWithLimit, get, delete | Redis, the in-memory store | two checks with side effects on one path; late results; retries; commands without a time limit |
| Circuit breaker (`utils/circuit-breaker.ts`) | state, counters, openUntil, a ring of buckets | execute, forceOpen, forceClose, reset, getHealthStatus | the guarded service | results of calls admitted in an earlier state |
| Abuse detector (`ml/abuse-detector.ts`) | four circuit breakers, two caches | checkRequest, resetCircuitBreakers | ip-reputation, VPN, Tor and geo services | concurrent lookups through shared breakers; a fast-fail test in front of them |
| Login (`api/routes/auth.ts`, `services/auth-service.ts`, `rate-limiting/login-rate-limiter.ts`) | per address: failures and a block | login, the clean-up timer | PostgreSQL, bcrypt | the check and the record have awaits between them |
| Rate limit counters (`rate-limiting/rate-limit-lua.lua`, `rate-limiting/in-memory-rate-limit-store.ts`) | a count and the end of its window, in Redis and in each process | incrementWithLimit, the clean-up timer | the Redis store, the tiered limiter | late and repeated scripts, two clocks that end a window |
| Admin users and sessions (`services/admin-user-service.ts`, `repositories/admin-user-repo.ts`, `auth/jwt.ts`, `prisma/seed.ts`) | rows of `AdminUser`, a token per session | create, update, change and reset a password, delete, restore, log in, seed | PostgreSQL, bcrypt | a row is read, then written by its id awaits later; the role is read from a token that outlives it |
| Campaigns (`services/campaign-service.ts`, `repositories/campaign-repo.ts`) | rows of `Campaign` | create, update, delete, restore, list | PostgreSQL | the same, a slug unique across deleted rows, dates that change one at a time |
| Listings, campaign pages, dashboard (`repositories/donation-repo.ts`, `services/admin-dashboard-service.ts`, `admin-dashboard-cache.ts`) | the cached dashboard | page by cursor, page by number, figures of a campaign, fill the cache | PostgreSQL | each answer is read by several statements of a table that changes; overlapping fills |
| Tiers, token bucket, adaptive limiter, cache service, contacts, SDK | tokens, a load factor, cached values | checkRequest, getOrSet, insert | Redis, PostgreSQL | section 7 |

What makes each correct:

* **Donations.** The recorded status is the one Stripe's outcome calls for and
  moves at most once; an event is worked on by one delivery; `processed` and
  Stripe's acknowledgement are not lies; retries end; a paid donation is
  recorded.
* **Redis store.** While the breaker cools down nothing is sent; the breaker's
  fields stay in step; each increment is answered, once Redis is there again;
  the breaker closes again (it may not: finding 2).
* **Counters.** Each store grants at most the limit in a window; a window is as
  long as it should be, short of the delay of one command; refusals do not prolong
  it.
* **Circuit breaker.** Counters are never left at their thresholds; results that
  arrive while the circuit is OPEN neither end nor prolong an outage; only the
  documented transitions happen; the circuit of a service that is back closes.
* **Window.** The failure rate rests on what happened within the window, all
  of it (short of what finding 3 says) and nothing older.
* **Abuse detector.** While one service is up the others' breakers get their
  probes, and the defaults remembered during an outage wear off after it.
* **Login.** The count of failures and the block agree; a block is passed only
  by logins let through before it and shortened by nothing but a success;
  failures are not lost.
* **Admin users.** What a request decided on still holds when it writes, unless
  another one wrote in between; an active super administrator is left, but for
  requests whose sender no longer is one and for the seed script.
* **Campaigns.** The same of their requests; an active campaign can be listed.
* **Listings and dashboard.** The figures of one answer do not contradict one
  another, a cached one is no older than it may be, a walk through the list
  misses nothing.

## 2. Modules

```
PaymentLedger            the promise: opened once, settled once, recorded once
  ^ refined by
DonationPayments         intent handler x Stripe x webhook handlers
  DonationPaymentsProofs   type, safety, refinement

RedisRateLimitStore      breaker, retries and fallback of one Redis store
  RedisRateLimitStoreProofs

WindowLimit              the promise: so many in a window, windows so long
  ^ refined twice by
RateLimitCounters        the counts in Redis and in memory, one identifier
  RateLimitCountersProofs

Breaker                  the promise: an open circuit waits, then closes after
                         so many probes in a row
  ^ refined by, and for each service by
CircuitBreakerOps        one breaker as operators on a record
  CircuitBreaker           one breaker and its calls
  AbuseDetector            one breaker per service, composed, with fast-fail
                           and the cached reputation of one address
SlidingWindowCounter     the ring of buckets behind the failure rate
  CircuitBreakerProofs     all of utils/circuit-breaker.ts and its composition

LoginRateLimiter         login route and limiter, one address
  LoginRateLimiterProofs

AdminUsers               accounts, sessions, and the requests that change them
  AdminUsersProofs
Campaigns                campaigns and the requests that change them
  CampaignsProofs
Reports                  dashboard, campaign pages and listings of a changing table
  ReportsProofs
```

Each `MC...` module extends its component and adds the symmetry set that a run
may use. The operators named `X_Something` after a comment "Mutant:" are
variants of `X` with a plausible bug; the specification never uses them. They
document which mistake each property is there to find.

### DonationPayments

`intent[d]` is where the handler of `POST /donations/intent` stands, `donation`
the table, `checkout[d]` the session as Stripe sees it. `CreatePending`,
`CreateCheckoutSession` and `AttachStripeSession` are the three awaited calls;
`RejectIntent` is a request that fails validation. `Pay` and `Expire` are the
donor and Stripe: the URL of the session is handed out only by a handler that
ended normally, so `Pay` needs `intent[d] = "returned"`. An event is named by
its kind and its session, since Stripe settles a session once; `EmitOther`
gives the events the handler does not act upon and the malformed ones. A
delivery `w` goes through `CreateIfNotExists` (the unique key elects one),
`UpdateStatus` or `RejectMissingSession`, `MarkProcessed`, `Respond`.
`AbortIntent`, `AttachThenAbort` and `AbortDelivery` stop a handler before its
next step: a failed statement with its 500, a lost answer, a crash. None undoes
what was committed, which is why one action stands for all three.

Abstracted: amounts, donors, the frequency of the donation, signatures (a bad
one is answered 400 and changes nothing). The listing is in `Reports`.

### RedisRateLimitStore

`breaker` is the record `circuitBreaker` with `cooldown` counting down to 0 in
place of `cooldownUntil` (`-1` is null). `shouldUseFallback` both answers and
takes a half-open slot: two operators, `ShouldUseFallback` and `AfterCheck`.
`IncrementWithLimit` contains **both** calls of it, because the code reaches the
first await only after the second. `failureCount` stops at `Threshold`: the code
only compares it. `redis` is "up" (commands succeed), "failing" (they are
answered by errors, or the connection is lost under them) or "away": the client
is created with an endless `reconnectStrategy`, with its offline queue and
without a time limit for commands (`src/cache/redis-client.ts:9`), so that a
command sent in an outage waits as long as the outage lasts, and its caller with
it. `RedisChanges` is such a change, at any time; `CommandEnds` what may become
of a command. A command may end with an error while Redis is away, but need not.
Which of the two stores serves a call is modelled, what they
count is the matter of `RateLimitCounters`.

### RateLimitCounters, WindowLimit

The hash that the script keeps and the entry of the in-memory store of one
process, for one identifier. `resetIn` is `resetTime` minus the present instant,
`ttl` what is left of the key's time to live; `age[c]` is how long ago call `c`
read `Date.now()`, so a script compares `resetTime` with an instant that may be
old, and two scripts may run with their instants out of order. `EvalScript` is
one run of the script, which Redis makes atomic; its answer may be lost, and the
call is then repeated by `Send` or goes to `Fallback`. Why a call goes there
is `RedisRateLimitStore`'s matter: here any call may. `redisWindow` and
`memoryWindow` are history: what was granted since the present window was
opened, and when that was. Each store's window is shown to implement
`WindowLimit`. `WindowLimit` lets a window be opened after `MinLength` ticks:
`TimeWindow + 1` in memory, and `MaxDelay` less in Redis, because the command
that opens a window counts it from the instant it read. The counts of the two stores
are separate: an identifier may be granted the limit by each, and by each
process's memory, which the code accepts as the price of its fallback.

Abstracted: the wrap of the count at 2^53 - 1, out of reach of a count that stops at
the limit.

### Breaker, CircuitBreakerOps, CircuitBreaker, AbuseDetector

`CircuitBreakerOps` has one operator per private method (`TransitionTo`,
`GetState`, `OnSuccess`, `OnFailure`, `ForceOpen`, `ForceClose`, `NewCircuit` for
`reset`), so that both modules use the same translation. `openLeft` is what is
left of `openUntil`. What the sliding window says of a failure is the
parameter `byRate`, any member of `RateVerdicts`: with `{TRUE, FALSE}` the
breaker may open by rate at any failure, which covers every window.

`Breaker` is what a circuit promises to its callers, and knows neither calls nor
failures: opened, it waits for `OpenDuration` ticks, lets probes through, and closes
when `SuccessThreshold` of them have succeeded in a row; a failure among them opens
it for the whole time again, and only an operator shortens the wait. `View` tells of the record
of the code what this needs: the state, `openLeft` while OPEN, `successCount`
while HALF_OPEN; the code leaves stale values in both fields otherwise. That one
breaker implements it is `KeepsContract`, that each service's breaker does, with
`CheckRequest` acting on all of them at once, is `AllKeepContract`.

`CircuitBreaker` runs any number of calls through one breaker: `Execute` up to
the await, `Succeed` and `Fail` after it. The variable `successes` is history:
how many successes were reported since the last change of state.

`AbuseDetector` has one breaker per service. `CheckRequest` makes the fast-fail
test and starts all lookups in one go; `Answer` is the end of `Promise.all`.
`lead` is failures minus successes as the metrics count them, cut off at
`MaxLead` either way: the test only asks for its sign. The cut-off makes the
model forget a long history, so an exact count is never claimed: the properties
that must hold in spite of it, `PartialOutageHeals` and `FallbacksWearOff`, assume
a service that never fails, whose `lead` is never positive however far it is
counted. `entry` is what `ipReputationCache` holds for one address, any one: a
`followed` request comes from it, a request from elsewhere is `cached` or `new`,
and remembering its address may evict the entry (`Remember`). A default that
stands for a failed lookup is remembered like an answer, by a late request too.
The fallback of an open breaker needs nothing but microtasks: `getIpReputation`
puts the default into the cache after its own `await` of `execute`, later than
`CheckRequest` reaches its await, but before any other request, timer or answer
can run. The model makes it one step with `CheckRequest`.

Names in `AbuseDetector` and `SlidingWindowCounter` carry a prefix where they would clash
with those of `CircuitBreaker` (`DetectorInit`, `WindowNext`, ...), since
`CircuitBreakerProofs` extends the three.

### SlidingWindowCounter

A bucket's two counters are replaced by the set of outcomes they count, which
lets a property name an outcome and ask whether `getStats` counts it. `recordedAt`
is history: an outcome is recorded once, and `Reset` marks it as `Forgotten`. Time is absolute here (`now`), because bucket indexes depend on it.

### LoginRateLimiter

One address, since no operation reads the record of another. `attempts[l]` is the
age of the failure of login `l`, or `NotCounted`; `blockLeft` is what is left of
`blockedUntil`. `Admit` and `Refuse` are `checkLimit`; the filter on the window
and the reset of an expired block are part of both, as in the code.
`LoginFails` is the `catch`, which also receives an error thrown while the
token is signed, after `ResetForIp`. A record that `cleanup` deletes and an empty
one decide alike and are one state.

### AdminUsers

The table is empty at first. `Seed` is a run of `prisma/seed.ts`, which creates
the first account and may be run again at any time: an upsert, one statement,
that overwrites the role (`ADMIN` when `ADMIN_ROLE` is not set) and the password
of the row that has the address, deleted or not. `status`, `email`, `role`, `password` are the columns of the table, `sub` and
`claim` the account and the role in the token of a session: the guards of the
routes (`RequireSuperAdmin`) look at the token alone. A request is in two or three
actions: the operation's name for what it does up to its last look at the table,
`CheckEmail` for the second statement of an update that changes the address,
`Write` for the statement that changes a row. `Write` addresses the row by its id
and finds it in whatever state it has come to; the unique index on the address,
which counts deleted accounts, may refuse it. `Login` is `AuthService.login`, which
does not ask whether the account is deleted, and signs the role it read two awaits
earlier. `moved[c]` is history: the rows that others have written since the last
look of the request of `c`, the seed script among them. `Abort` is a failed statement or a stopped process.
Whether a login is admitted at all is `LoginRateLimiter`'s matter.

Abstracted: names, times of log-ins, the 24 hours of a token (`SessionEnds` at any
time), the hashing of passwords (a password stands for its hash).

### Campaigns

The same two-step requests on `campaign[k]` and `deleted`. `FindBySlug` leaves
deleted campaigns out, `Holders` is what the unique index sees. `Create` looks
at the order of the dates, `Update` does not: `redated` is history and names the campaigns
whose dates an update has written. `ListActive(t)` is the public page's question on
day `t`. An update changes one field at a time; one that changes more is checked as the
sum of these. Who may send these requests is `AdminUsers`' matter.

### Reports

Readers of the table of donations, one statement per action, while donors
(`CreatePending`) and webhooks (`Settle`) go on. A figure (a sum, a count, the
donors) is the set of donations it is drawn from: nothing is ever removed, so a
sum is no smaller than another when its set contains the other's. The dashboard is filled by
`GetMetrics`, four steps of `DashboardMetrics` and `Fill`, which overwrites whatever
another fill has put there; three of the statements share a transaction, which is
READ COMMITTED and orders nothing. `FindCampaign`, `FindById` and
`GetCampaignProgress` are the two campaign pages. `ListCursor` is a page by cursor,
in the order `OrderedByKey`; a page by number is `FindMany`, which returns rows of equal `createdAt` in any order, and
`Count`. A `createdAt` is whatever its writer's clock says, so rows may come in
behind a cursor. `kind` says which question a reader asks over and over; `Rows` lists the mixes of
questions that a run considers: readers of different kinds share nothing but the
table, which none of them changes.

## 3. Runs

| Run | Instance | Checks | Shows |
|---|---|---|---|
| `DonationSafety` | 2 donations, 2 deliveries at once, 2 stopped handlers; symmetry | `SingleProcessor`, `PaidIsAttached`, `StatusMatchesCheckout`, `ProcessedIsApplied`, `AckedIsRecorded`, `LedgerRefinement` | duplicates, reordering and half-done handlers never corrupt a status; the statuses implement `PaymentLedger` |
| `DonationLiveness` | 1 donation, 2 deliveries, 2 stopped handlers | `EmittedIsAcked`, `PaidIsRecorded` | Stripe's retries end; without a stopped handler a paid donation becomes SUCCEEDED |
| `DonationLostUpdate` | 1 donation, 1 stopped handler | `AckedIsProcessed` (violated) | finding 1 |
| `RedisBreaker` | 3 calls, threshold 5, one half-open slot, 2 attempts | `BreakerConsistent`, `NoStaleReport`, `CoolingKeepsOut`, `IncrementNeverProbes`, `LostSlotStaysLost`, `CallsEnd` | no mix of late results and retries breaks the breaker's fields, none leaks through a cooldown, calls end once Redis is not away; finding 2 |
| `Counters` | 2 calls, 2 requests in a window of 3 ticks, commands at most 2 ticks late | `RedisKeepsLimit`, `MemoryKeepsLimit`, `WindowsReopen` | late, repeated and lost commands never exceed a window's limit, and never shut a caller out for good |
| `Circuit` | 4 calls, thresholds 3 and 3, 2 interventions | `HalfOpenCountIsExact`, `KeepsContract`, `LateResultsDoNotMoveIt`, `RecoversWhenUp` | the breaker implements `Breaker`; results that arrive in OPEN do nothing to it, and recovery is certain |
| `WindowSafety` | 4 outcomes, 3 buckets of 2 ticks, 15 ticks; symmetry | `NothingStaleIsCounted`, `LostOnlyWithAnOldOne` | nothing stale is counted; finding 3 |
| `Detector` | 2 services, 2 requests, 1 reset | `AllKeepContract`, `PartialOutageHeals`, `AllOpenStaysOpen`, `FallbacksWearOff` | each service's breaker implements `Breaker`; one healthy service keeps the others' probes coming and the cache fresh; finding 4 |
| `Login` | 6 logins, 3 failures in 4 ticks block for 4; symmetry | `BlockedWhenFull`, `PendingPredatesBlock`, `FailuresAreKept`, `BlockIsNotShortened` | the list and the block, ended by different clocks, stay in step under overlapping logins |
| `Admins` | 2 accounts, 3 addresses, 2 passwords, 2 sessions; symmetry | `WritesWhatItChecked`, `LastSuperAdmin` | what a decision rests on is lost to a race only; the only ways to lose the last super administrator; finding 5 |
| `Campaigns` | 2 campaigns, 2 slugs, 2 statuses, 2 days, 2 requests; symmetry | `WritesWhatItChecked`, `ActiveIsListable` | the same of campaigns; findings 6 and 7 |
| `Reports` | 2 readers; 2 donations, or 3 when the list is walked; 2 instants, pages of one | `TypeOK`, `FiguresAgree`, `DashboardIsRecent`, `CursorWalkIsExact`, `OffsetWalkMissesOnlyTies` | answers of several statements hold together without a common snapshot |

The type invariants of the other modules are theorems (section 4) and take no
place in the runs.

Each passing property has been seen to fail on the variant of the code named in
`PROJECT.json` under `mutants`.

### Bounds, and why they are enough

* **Two donations, two deliveries.** Every update is addressed by one session or
  one event, so interference needs two of each at most; two donations are what an
  update without its `where` needs to be seen. Three or more are covered by the
  proofs.
* **`MaxFaults` = 2.** One stops a first delivery, one stops its retry or the
  intent handler. The proofs have no such limit.
* **Threshold 5, slot 1, attempts 2** are the code's own values; three calls are
  what it takes to have one open the breaker, one retry and one succeed late.
* **Windows of 3 ticks and delays of 2** let a command be sent in one window and
  run in the next, and open a window that another command's instant precedes.
* **Breaker thresholds of 3 and 4 calls** let a late success and a late failure
  both arrive with a counter half-way. `OpenDuration` 2 and `LongestOpen` 3 let a
  forced duration be shorter and longer than the usual one.
* **The ring** has three buckets and runs for more than two turns from `Start` 7,
  so every bucket is revisited early and late. `MaxNow` only ends the run.
* **Six logins** with a maximum of three: a block is set while three more are
  pending, enough to prolong it and to try to cut it short. Ages are told apart
  up to the window, waits up to the block: neither bounds the length of a
  behaviour.
* **Detector**: the clause of the test that counts failures against successes
  opens and closes the same breakers as a rate verdict would, so
  `RateVerdicts = {FALSE}`; thresholds 2 and 1, an open time and a cached life of
  one tick keep the liveness check small, and two requests are what it takes for one to
  write the cache after the other. `Circuit` has the larger thresholds.
* **Two accounts, two sessions, three addresses.** Two super administrators who act
  against each other is the least that loses both; a third address is one that
  nobody has while two are taken. Nothing tells rows, addresses, passwords or
  sessions apart in an empty table, so all four are symmetric. **Two campaigns, two requests** likewise; two
  days give dates in order, equal and reversed. The proofs have no such limit.
* **Reports**: two fills overlap in every way; pages of one row are the
  hardest for a cursor, and three rows with two instants always hold a tie, a page before
  and a page after it. A life of two ticks and fills of up to one let a fill
  begin before and end after another. `MaxFill` is the one assumption on time:
  a statement does not take for ever.
* `MaxForced`, `MaxResets`: manual interventions, unlimited in the code, limited
  in the runs so that liveness is not asked of an operator who never stops.

No run disables the deadlock check.

### Fairness, and why the code justifies it

* Handlers run on (`WF` on intent and webhook steps, on retry delays): Node
  resumes a handler whose awaited call has settled, and timers fire.
* Operations behind a `CircuitBreaker` end (`WF` on their results): the timeout
  race of `executeWithTimeout` settles every one of them. Nothing of the kind
  guards a Redis command, and in `RedisRateLimitStore` a command need only end
  while Redis is not away (`WF(redis # "away" /\ CommandEnds(c))`). `CallsEnd`
  therefore promises that calls end only from the moment Redis stops being
  away, `<>[](redis # "away")`; nothing is promised during an outage.
* `RateLimitCounters` does assume that a call ends and that its command is at
  most `MaxDelay` late. The delay includes the time a command spends in the
  offline queue, so it stands for the longest outage that a queued command sits
  through; its properties are about windows, not about calls that hang.
* Time passes (`WF` on the ticks of the breakers and counters).
* Stripe delivers an event until it is acknowledged. Deliveries of different
  events share `Workers`, a bound of the model and not of the server; `SF` keeps
  that bound from starving an event.
* Requests keep coming (`WF(Execute)`, `WF(Send \/ Fallback)`): recovery is
  driven by traffic, and without traffic there is nothing to recover for. In
  `AbuseDetector`, `SF` on a request from an address that is not in the cache
  (`CheckRequest(r, "new")`): traffic is not made of cached addresses only.
* Nothing is assumed of donors, operators, or the services behind the breakers.

## 4. What is proved

For all values of the constants that satisfy the named assumptions
(`...Assumption` in each module); TLC evaluates those on every run.

* **DonationPaymentsProofs.** `IInv` strengthens the safety properties with what
  a handler knows at each point: past the insert it owns the row of its event
  (`DeliveryInv`), before `markProcessed` the status is written (`AppliedInv`),
  an event exists only for the outcome its session had (`OutcomeInv`), only
  Stripe's events are recorded (`RecordedInv`), and how far an intent handler got
  bounds the row and the session (`IntentInv`). `ProcessedIsApplied` needs the
  first two: that the flag is written last is only half of it, the other half is
  that no second handler can be between the statements. `Invariance` gives the
  five safety theorems; `Refinement` maps each step to a step of `PaymentLedger`
  or a stutter, using `IInv` for the only delicate one, the second write of a
  status, which must be the same status.
* **RedisRateLimitStoreProofs.** `TypeOK` and `BreakerConsistent` are inductive
  together; `CoolingKeepsOut` follows from the guards alone;
  `IncrementNeverProbes` needs `HalfOpenMax = 1`, the code's value, and says
  precisely what goes wrong in finding 2. `LostSlotStaysLostHolds` is the other
  half of that finding, for any `HalfOpenMax`: every action of every call, taken
  with all the slots gone and no command under way, leaves the breaker as it is.
  `NoStaleReport` is inductive with the invariant (`ReportStep`): the flag is set
  with the fallback and cleared by the report.
* **RateLimitCountersProofs.** Both refinements. `RedisTellsWindow` is what makes
  the first inductive: while the key lives, `count` is what was granted, the time to
  live is what remains of the window, and `resetTime` is early by no more than one
  delay. `MemoryTellsWindow` says the same of the entry, without a delay.
* **CircuitBreakerProofs.** One lemma per operator of `CircuitBreakerOps` for
  what it keeps of the counters (`GetStateKeeps` ... `TimeKeeps`) and one for
  how it moves the view (`GetStateView` ... `ForceView`): the operators are
  shared, so are the lemmas. `CircuitInv` is types, counters below their
  thresholds and the exact half-open count. `KeepsContractHolds` is the
  refinement of `Breaker`: a step is one of its steps or a stutter
  (`ContractStep`), and needs the invariant: a circuit in HALF_OPEN is always
  short of the threshold, or `ProbeSucceeds` could not count on. For the
  detector, `DetectorInv` adds the counters of every service, and
  `AllKeepContractHolds` is the refinement once per service: a step that starts
  or ends lookups of several requests handles each breaker by one operator at
  most, or resets all (`BreakerHandled`). `AllOpenStaysOpenHolds` proves finding
  4 for any number of services. For the ring, a bucket's timestamp is never
  later than what it counts (`BucketsAreOrdered`): with it the cutoff of
  `getStats` is sound. `LostOnlyWithAnOldOneHolds`
  needs `LossInv`: a bucket's timestamp is that of an outcome of its own slot
  (`BucketsHaveStarters`), and each outcome joined such a starter, which either
  is older than the window by now or is still the one whose bucket counts it
  (`OutcomesAreAccounted`). Its step rests on arithmetic: two instants that fall
  into the same slot of the ring are within one bucket's length of each other,
  or apart by a turn short of one bucket (`SameBucketApart`).
* **LoginRateLimiterProofs.** `BlockedWhenFull` is not inductive under `Tick`.
  `BlockedAhead` says it of every later instant: as long as `MaxAttempts` of
  today's failures will be within the window, the block will be on. It rests on
  `WindowMs <= BlockDurationMs`, which `auth.ts` satisfies with equality.
* **AdminUsersProofs.** `LastSuperAdmin` is about a write, and the guards it rests
  on were passed awaits before: `RequestsGuarded` says of every request in
  progress that it never deletes its sender nor changes its sender's role, and is
  inductive with the types (`AdminInv`). `RequesterStays` adds that its write
  leaves a sender who is an active super administrator as it is; `Seed`, which
  has no sender, is the exception that the property names. `WritesWhatItChecked`
  needs `KnownInv`: for each kind of request the fact that was checked is either
  still so or a row it concerns is in `moved`, which every write of another
  request and every run of the seed script keeps (`RowsKnown`).
* **CampaignsProofs.** `IInv`: types, unique slugs over all rows, well-formed
  requests, the same invariant of what was checked, and `DatesInOrder` of every
  campaign, and of every one about to be inserted, that no update has redated. The last is what makes
  `ActiveIsListable` inductive: the day to list a campaign on is its start or its
  end, or any day.
* **ReportsProofs.** `ReportsTyped` says, with the types, which rows each field
  of a reader may hold at each of its awaits. `FiguresAgree` needs
  `FiguresNested`: between two statements, the sets already read are contained
  in the table, which only grows, so that what is read later contains them.
  `DashboardIsRecent` rests on `FillIsRecent` (a fill has missed nothing that is
  older than its first statement) and `CacheIsRecent` (the cache has missed
  nothing older than `MaxFill` and what has passed of its own life). For the
  walk by cursor: what was returned is not after the cursor, what was there at
  the start and was not returned is after it (`AtCursor`), and `FollowsOrder`
  makes the order of the keys total. For the walk by number: a row of a
  `createdAt` of its own has one place in every order that the database may
  choose (`UntiedPlace`), and at least as many rows precede it as pages already
  read have skipped (`AtPage`). Facts about sorted listings are proved by
  counting and injections (`ListingOfSet`, `FirstOfListing`, `SkippedRows`),
  since no induction over sequences is to be had.

Every invariant, action property and refinement that a passing run checks is thus a
theorem. Only model-checked: liveness (`EmittedIsAcked`, `PaidIsRecorded`,
`CallsEnd`, `WindowsReopen`, `RecoversWhenUp`, `PartialOutageHeals`,
`FallbacksWearOff`), which TLAPS cannot do under fairness.

## 5. Findings

1. **A payment can be acknowledged and lost** (`DonationLostUpdate`). Any existing
   row of `WebhookEvent` counts as already processed, whatever its flag says. If
   the first delivery stops after the insert, the retry is answered 200 and the
   donation stays PENDING. `docs/slo-alarms.md` asks for `processed = true`.
2. **The breaker of the Redis store does not close** (`RedisBreaker`,
   `IncrementNeverProbes`). The entry check takes the only half-open slot, the
   check of the first attempt finds it taken. The runbook promises recovery "if
   next request succeeds"; the property, which is proved, says that no new
   increment is ever let through as the probe (a retry that was waiting, or a
   lookup, can be). The slot is not given back either: once no command holds it
   the breaker stays open for good, every call served by the fallback
   (`LostSlotStaysLost`, proved as well).
3. **A recent failure may not count** (`WindowSafety`, `LostOnlyWithAnOldOne`). A
   bucket is cleared only when its first outcome is older than the window, so an
   outcome recorded just before that joins it and is dropped with it. The
   property says that this is the only way to lose one.
4. **Once all breakers are open, none recovers** (`Detector`, `AllOpenStaysOpen`).
   The fast-fail test reads the raw state and keeps every request from the call
   that would move an expired OPEN to HALF_OPEN.
5. **The address of a deleted account passes the check of an update**
   (`Admins`, `WritesWhatItChecked`). `updateAdmin` looks among active accounts, the
   unique index among all: the answer is a 500 where a 409 was meant.
6. **The slug of a deleted campaign passes the check** (`Campaigns`,
   `WritesWhatItChecked`), for the same reason, on creation and on update.
7. **An update may give an active campaign dates in the wrong order**
   (`Campaigns`, `ActiveIsListable`): only `create` checks them, and the public
   page then lists the campaign on no day.

Findings 2 to 7 are stated by properties that hold: each says exactly what the code
guarantees, and the exception it has to make is the finding.

Seen while reading, without a run: `createDonationIntent` parses the donation type
and does not pass it on (`src/services/donation-service.ts:53`), so monthly
donations are stored as ONE_TIME; `forceOpen` writes a duration that
`transitionTo` overwrites (`src/utils/circuit-breaker.ts:699`);
a call that the entry check of the Redis store turns away is served by the
fallback without setting the flag that `didFallback` reads
(`src/rate-limiting/redis-rate-limit-store.ts:120`), so
`rate_limit_fallbacks_total` misses it; a command sent to a Redis that is away
neither fails nor times out (`src/cache/redis-client.ts:9`), so that the request
behind it hangs until Redis is back and no failure is counted, although
`docs/architecture/rate-limiting.md:44` speaks of a "30-second timeout" and line
45 of a "Fail-Open Strategy: Allows requests when Redis is unavailable"; a run of
the seed script without `ADMIN_ROLE` makes a super administrator with that address
an administrator (`prisma/seed.ts:15`).

## 6. Reading order

`PaymentLedger`, then `DonationPayments` with its proofs; `Breaker` and `CircuitBreakerOps`
before `CircuitBreaker` and `AbuseDetector`; the rest stand alone. `PROJECT.json`
maps every definition to the lines it models and lists the hazards the
properties were written for.

## 7. Not modelled

* **Token bucket and adaptive limiter, cache service**: nothing in the server calls
  them. The refill of the first is floating-point arithmetic inside one atomic
  script, the limit of the second scales with measured CPU and memory, and the
  third has no keys, factories or invalidations to model it with.
* **Tiers and middleware of the rate limiter**: the tier is a function of the route;
  the count behind it is in `RateLimitCounters`, the choice of store in
  `RedisRateLimitStore`.
* **Contact requests**: one insert, nothing shared. **Observability,
  configuration, bootstrap, schemas**: no effect on the system's state. **SDK
  client**: shares no state with the server.
* Of the modelled parts: latencies, adaptive timeouts and metrics of the circuit
  breaker (numbers that no property depends on); the features and the score of the
  abuse detector (arithmetic over one request) and the order of eviction in its caches;
  `get` and `delete` of the rate limit counters (never called); a PENDING donation whose
  call to Stripe failed (the code has nothing that would resolve it, and promises
  nothing).

What is left open: `forceOpen` and late successes in HALF_OPEN are modelled as the
code has them, without a property, because no document says what they should do.
