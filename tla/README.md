# Formal model of the cinema loyalty service

TLA+ modules, TLC configurations and TLAPS proofs for the loyalty service: the
NestJS application that keeps points, tiers, bonuses and achievement rewards of
cinema customers in PostgreSQL, is driven by gRPC calls, RabbitMQ messages and
BullMQ jobs, and publishes tier upgrades to RabbitMQ. Paths below are relative
to the repository root (`PROJECT.json` prefixes them with `src/`).

- [The system](#the-system): components, state, operations, interactions, hazards
- [The modules](#the-modules) and how they correspond to the code
- [The runs](#the-runs): what TLC checks, the bounds, the fairness
- [Where code and documents disagree](#where-code-and-documents-disagree)
- [The proofs](#the-proofs)
- [What is not modelled](#what-is-not-modelled) and the [plan](#plan)

## The system

### Components

| component | state | operations | correct when |
|---|---|---|---|
| Loyalty accounts (`loyalty.service.ts`, `admin-loyalty.service.ts`, `loyalty-expiration.service.ts`) | `loyalty_profiles`, `points_transactions`, `checkout_debits`, `user_bonus_grants`, `processed_events` | `deductPoints`, `refundPoints`, `processTicketPurchase`, `processUserDateOfBirthSet`, birthday job, `modifyPointsGrpc`, `grantVipStatusGrpc`, `expirePoints`, `resetAnnualStats`, implicit profile creation | the ledger explains the balance; nothing is overdrawn or overflows; a debit is refunded once and in full; a key stands for one effect; one birthday bonus a year; a tier change saves one event |
| Business rules (`loyalty-calculator.service.ts`, `loyalty.constants.ts`) | none | tier, multiplier, expiry, birthday windows | promotions only; the year boundary is handled |
| Profile transactions (`profile-transaction.ts`, `point-command-idempotency.ts`) | row locks, uncommitted keys | `withTransactionRetry`, `lockLoyaltyProfile`, `claimPointCommand`, `replayPointCommand` | every operation is one atomic step; no lost update; no circular waiting |
| GOLD seat upgrades (`useGoldUpgrade`, `rollbackGoldUpgrade`, `goldReset`) | `gold_upgrade_reservations`, `gold_upgrade_used_month` | use, rollback, monthly reset, migration of months in use | one active upgrade a month; the mirror column tells the truth; an order stays bound to its month |
| RabbitMQ outbox publisher (`outbox-publisher.service.ts`, `tier-upgrade.listener.ts`) | `outbox_events` | tick: recover, sweep, claim, send, record | a saved event is settled in the end, COMPLETED only if the broker has it; stale owners change nothing |
| Inbound deliveries (`rmq-delivery.service.ts`) | `inbound_deliveries`, unacknowledged messages | admit, read, claim, work, record, quarantine, acknowledge | no message is lost; the budget is finite; late owners change nothing |
| Quarantine replay (`quarantine-replay.service.ts`, `confirmed-rmq-publish.ts`, `tools/replay-quarantine.ts`) | `replay_id` and `replay_count` of `inbound_deliveries` | reset the row once for a replay id, publish the saved envelope, confirm | the budget is reset once for a replay id; a row taken out of quarantine is never without a message unless the operator was told of a failure |
| Achievement dispatch (`achievement-intent-publisher.service.ts`, `achievements.service.ts`) | `achievement_dispatch_intents`, BullMQ jobs | save, read a batch, enqueue, record, retry | an intent is marked delivered only when Redis has the job, and is delivered in the end |
| Achievement progress (`achievements.processor.ts`) | `user_achievements`, `processed_events`, rewards | match, count, unlock, reward | an event counts once towards an achievement, a reward is paid once, a failure is not swallowed |
| Achievement administration (`admin-achievements.service.ts`) | `achievements` | create, update, deactivate | edits beside running jobs break none of this |
| Scheduled jobs (`loyalty-scheduler.producer.ts`, `loyalty-queue.processor.ts`, the batch loops) | BullMQ repeatable jobs, `last_expiry_notification_at` | expire, notify, annual reset, GOLD reset, birthday bonuses | a job that completes has served everybody who was due; a job ends |
| gRPC and HTTP boundary, configuration | none of their own | routing, validation, wiring | not modelled |

### How they interact

The platform calls gRPC (`DeductPoints`, `RefundPoints`, `UseGoldUpgrade`, ...)
and repeats a call whose answer it lost, under the same idempotency key.
RabbitMQ delivers `TicketPurchased` and `UserDateOfBirthSet` at least once;
`RmqDeliveryService` journals every attempt, runs the business callback and
acknowledges last. Every business operation is one PostgreSQL transaction that
locks the user's profile row first. Such a transaction also saves what must
happen later: `outbox_events` for tier upgrades and `achievement_dispatch_intents`
for achievement jobs. Publishers in every replica claim the events under leases
and send them to RabbitMQ; they read the intents without any claim and add each
to a BullMQ queue under its own id. Workers of every replica take such jobs, and
those of the schedule. Scheduled jobs list candidates without a lock and visit them one transaction at
a time. Several replicas run all of this concurrently.

### What is hard

- Operations of one user race in several replicas, and write *absolute* values
  (`balance: newBalance`) computed from what they read; only the row lock makes
  that safe.
- The key table is shared by point commands, purchases and achievement jobs of
  all users; a transaction waits for a key while it holds a profile lock.
- Some operations read the clock *before* they wait for the lock, and keep it
  over retries.
- Callers, broker and queues retry: lost answers, ambiguous timeouts, copies.
- Jobs stall and run twice, or fail half-way and run again; lists are paged
  through without a lock while their rows change; the administration edits what
  a job has already read.
- Leases run out while the owner still works; owners wake up late; processes
  stop between any two statements.
- A month or year ends between reading the clock and the commit.
- INTEGER columns overflow at 2^31-1, and not every path checks first.

`PROJECT.json` lists each hazard at its line with the properties that catch it,
or the reason why none does yet.

## The modules

| module | models | built on |
|---|---|---|
| `LoyaltyRules` | the pure rules, as operators over whole days and points | - |
| `LoyaltyAccounts` | the *abstract* service: every operation is one atomic step on one user's account and the key table | `LoyaltyRules` |
| `LoyaltyAccountsProofs` | theorems about `LoyaltyAccounts` | `LoyaltyAccounts`, `TLAPS` |
| `ProfileTransactions` | the *detailed* service: transactions that begin, lock, decide, claim a key, commit, conflict, retry and fail | `LoyaltyAccounts`, which it implements |
| `ProfileTransactionsProofs` | theorems about `ProfileTransactions`, the refinement among them | `ProfileTransactions`, `LoyaltyAccountsProofs` |
| `GoldUpgrades` | the GOLD seat upgrade with its own transactions | - |
| `GoldUpgradesProofs` | theorems about `GoldUpgrades` | `GoldUpgrades`, `TLAPS` |
| `OutboxPublisher` | the outbox, its publishers, the wire and the broker | - |
| `OutboxPublisherProofs` | theorems about `OutboxPublisher` | `OutboxPublisher`, `TLAPS` |
| `InboundDeliveries` | the source queue, the delivery journal, the handlers | - |
| `QuarantineReplay` | the operator's tool beside the deliveries, and the properties of both together | `InboundDeliveries` |
| `QuarantineReplayProofs` | theorems about both of these | `QuarantineReplay`, `TLAPS` |
| `HandOff` | the *abstract* hand-over of saved rows to another system; `OutboxPublisher` and the intents of `AchievementDispatch` implement it | - |
| `BullJobs` | the jobs of a BullMQ queue: ids, locks, attempts, stalls | - |
| `BullJobsProofs` | lemmas about these jobs, for the two modules that use them | `BullJobs`, `TLAPS` |
| `AchievementRules` | what one event does to one progress row | - |
| `AchievementCounting` | the *abstract* counting: every event once, in one step | `AchievementRules` |
| `AchievementDispatch` | the *detailed* way from the purchase to the progress: intents, publishers, jobs, workers, administration | `AchievementRules`, `BullJobs`; implements `HandOff` and `AchievementCounting` |
| `AchievementDispatchProofs` | theorems about `AchievementDispatch` and `AchievementCounting` | `AchievementDispatch`, `BullJobsProofs` |
| `ScheduledJobs` | the jobs of the schedule, page by page, around the accounts | `LoyaltyAccounts`, `BullJobs` |
| `ScheduledJobsProofs` | theorems about `ScheduledJobs` | `ScheduledJobs`, `BullJobsProofs`, `LoyaltyAccountsProofs` |
| `MC*` | the values and request sets of the runs | the module of the same name |

`LoyaltyAccounts` is what the other components rely on: the callback that a
delivery runs is a `PURCHASE` or `DOB` request there, the event an
`OutboxPublisher` saves is an entry of `upgrades`, an intent that
`AchievementDispatch` saves is one of `intents`, the reward it pays is a
`REWARD` request, and `ScheduledJobs` carries out its requests step by step. Operators named as *a mutant* in their
comment are wrong on purpose: each is a plausible slip in the definition that
follows it, and is used only to see that the property named beside it in
`PROJECT.json` would notice. The specifications do not use them.

### LoyaltyRules

Tiers are numbered as `TIER_ORDER` numbers them. Time is counted in whole UTC
days and a year has `YearDays` days, so a date is a number, its year a quotient
and its month and day a remainder. The thresholds are CONSTANTS, because a
small instance must be able to reach them. The factors of a multiplier are
those of the code, doubled to be whole. Left out: leap days (29 February
birthdays and `addYears` on them), time zones and fractional amounts.

### LoyaltyAccounts

An account gathers the rows that belong to one user:

| field | code |
|---|---|
| `exists` | the `loyalty_profiles` row is there |
| `balance`, `lifetime`, `yearPoints`, `yearVisits` | `balance`, `lifetime_earned`, the two yearly counters |
| `tier`, `expiresAt`, `birthday` | the columns of these names |
| `ledger` | `points_transactions` in commit order; a row is named by its index |
| `checkout` | `checkout_debits`: the ledger index of the debit and of the refund linked to it, 0 for NULL |
| `grants` | `user_bonus_grants` of type BIRTHDAY |
| `upgrades` | the TIER_UPGRADED rows of `outbox_events`, in order |
| `intents` | `achievement_dispatch_intents` |

`processed` is `processed_events`: nothing, a generic marker (purchase or
reward), or a point command with its committed result. `today` is the clock.

A request is a record (`op`, `user`, and what the call carries). `Accepts(a, r,
asOf)` is the conjunction of the checks of an operation and `After(a, r, asOf)`
the account it leaves; both are written once, for the atomic actions here and
for the transactions of `ProfileTransactions`. Each action performs a whole
handler: `Purchase` counts the visit, credits the points, renews the expiry,
promotes, saves the tier event and the intents, and stores the marker. `asOf` is
the day the handler read; the model lets it be any day up to `today`, for the
operations that use the clock.

`LegacyUsers` start with a debit older than `checkout_debits`: the migration
made no rows for these, and a refund of one must be refused.

### ProfileTransactions

A worker is a request in flight in any replica. Its transaction goes through

    idle -> begun -> inside -> [claiming ->] writing -> idle

`Lock` is `lockLoyaltyProfile`, `Decide` the lookups and checks under the lock,
`Claim` the insertion of the key (`ON CONFLICT DO NOTHING`, or a unique
violation), which waits for another transaction that has inserted the key and
not committed, and `Commit` makes everything visible at once, computed from
`read`, what the transaction saw under the lock. `Conflict` is a serialization
failure or a deadlock, retried up to `MaxAttempts` with the clock read early
kept; `Fail` is any other error or the end of the process. A row lock belongs to
the transaction until its end. Uncommitted rows are a local record, as no
transaction of the code can see those of another under READ COMMITTED.
`replies` is a history variable: the successes told to callers.

Who reads the clock when is in `Early`: `processUserDateOfBirthSet`,
`grantBirthdayBonuses` and `expirePoints` before the transaction, the others
under the lock. Who creates the profile is in `Creates`. A reward claims its key
first and reads afterwards; its `Claim` then decides with the account under the
lock.

### GoldUpgrades

The reservations, the mirror column, the UTC month, the candidates the reset job
has listed, and one transaction a worker. `CheckUse`, `CheckRollback`,
`CheckReset` decide under the lock, `Commit*` write. The migration's months in
use start as holds without an order. The two unique indexes of the table are
left out of the model: that no property needs them shows that the lock protects
the quota by itself.

### OutboxPublisher

`row` is `outbox_events`, `pub` the tick of each replica with the sends it waits
for, `wire` and `received` the messages on their way and at the broker. A tick
recovers ended claims, fails exhausted rows, and then claims and sends wave
after wave up to `BatchSize`. A timeout leaves the message on the wire, where it
may still arrive. Time is abstracted to the end of a lease and the end of a
backoff, each at any moment, and the random lease token to the number of the
attempt: both are new with every claim.

### InboundDeliveries

`queue` counts the copies of each body in the source queue, `row` is
`inbound_deliveries`, `handler` is one unacknowledged message at one of its
statements. Every statement re-checks its condition in its WHERE clause, as the
code does; `AnswerLost` is the `catch` of the two loops: the statement was or
was not carried out and the handler repeats its loop. `LoseChannel` returns the
message to the queue, perhaps with the callback still running (`orphan`). A body
in `Poison` fails permanently. The budget `max_attempts` is the same for all
rows. `traffic` is what the platform will still publish.

### QuarantineReplay

Extends the journal by what an operator does when a message has ended in
quarantine: stop the consumers (`StopConsumers`, which closes all channels and may
leave callbacks running), repair the cause (`RepairedWorkSucceeds`, as
`docs/reliability.md:61` asks), run the tool, start the consumers. The tool's three
parts are three steps, because consumers and failures come between them:
`StartReplay` checks the record and the consumer count, `ResetRow` is the UPDATE
with its WHERE clause, `PublishAgain` checks the count again and publishes until
the broker confirms. `ToolFails` covers a timeout, an unroutable message and the
end of the process: the message may or may not be in the queue, and the operator
is not told of a success. Only after that may he rely on it: `confirmed`.
`replay_count` and `replay_id` are one number, as the operator takes a new UUID
for a new replay and keeps the last one to repeat it (`docs/reliability.md:69`).
The code compares with the *last* UUID only: an operator who presented an older
one again would reset the budget again. A repeated run after success publishes
again, which for a date of birth starts a new cycle. `starts` is a history
variable for `BudgetIsKept`.

### HandOff, AchievementCounting

The two abstract specifications of what happens after a commit. `HandOff`: rows are
saved, the other system accepts them, a mark follows the acceptance, a row may be
given up visibly, and all rows are done with in the end; how often one is sent is
left open. `AchievementCounting`: an event counts towards an achievement at most
once, under one of the definitions that match it, in one step that pays the reward
if it unlocks.

### BullJobs

The library is outside of this repository; what is used of it is the configuration
(`bullmq.config.ts`: three attempts, a backoff, completed jobs removed, failed
ones kept) and `Queue.add` with an id. A worker holds at most one job, so the lock
token is the worker; a lock that runs out makes the job wait again, once.

### AchievementDispatch

`intent` is the state of a row (`nextAttemptAt` abstracted to due or later), `send`
what each replica's tick does with it, `late` the calls to Redis that nobody waits
for any more, `job` the BullMQ job with the intent's id, `worker` what a worker
remembers: the definitions it read, those still to do, and whether one failed. The
publishers have no claims, so two replicas may add one intent twice; while the job
exists the second has no effect, and after it has completed it is a new job whose
transactions find their keys. `CountEvent` is the transaction of
`processAchievement`; it is one step because it locks the profile first
(`ProfileTransactions` shows what that is worth). `Refused` are achievements whose
reward never fits. The columns `attempts` and `error` of an intent and unlock
times are left out.

### ScheduledJobs

A worker takes a job, reads the clock and walks down the ids: `ReadPage` reads the
page below the cursor, `Serve` carries out the transaction for one user with the
checks of `LoyaltyAccounts` under the lock, `EndPage` reports progress, and an empty
page completes the job. `MarkPage` and the emissions are `notifyExpiringUsers`.
`AttemptThrows` is any error, the failing bonus of one user included: it ends the
attempt, and the next attempt begins again with a new clock reading. `owed` is a
history variable: who was due when the worker took the job and has been since.

## The runs

`tlc -config X.cfg MCModule` for each; the longest takes some three minutes on two
workers.

| run | question | instance |
|---|---|---|
| `AccountsCommands` | Do deductions and refunds under shared keys ever overdraw, refund twice or in part, use a key for two effects, or rewrite what is recorded? | 2 users, 2 orders, 3 keys, a legacy debit, 13 requests, ledgers of 5 |
| `AccountsEarning` | Do ledger, columns, tier events and grants agree through every way of earning, the VIP grant and the jobs? | 1 user, 15 requests, 4 days with a year end, columns up to 9, ledger of 4 |
| `TransactionsPoints` | Do locks, key claims, conflicts and retries implement the atomic operations, is every success told the committed one, and does every request end? | 2 users, 2 keys, 2 workers, 2 attempts, ledgers of 4 |
| `TransactionsClock` | The same with a clock that moves between the reading and the commit; is a balance renewed while the expiry waits ever expired? | 1 user, 8 requests, 2 workers, 4 days, ledger of 3 |
| `ExpiryMovesBack` | *violated*: see below | as `TransactionsClock` |
| `GoldUpgrades` | One upgrade a month, a truthful mirror, bound reservations? | 2 users, one with a hold of the migration, 2 orders, 2 workers, 2 months |
| `Outbox` | Are results fenced, events settled for a reason, and all of them handed over in the end? | a new event and three of the old publisher (one attempt made, all made, a claim without a lease), 2 replicas, 2 attempts, waves of 1 of a batch of 2, 1 crash |
| `InboundReplay` | Is a message lost, given up early, settled by a late owner, or given more than its budget, replays included? Does every delivery end? | a date or a purchase that fails for good, twice, 2 handlers, 2 attempts, 2 failures, 3 interventions of the operator, 1 replay id |
| `DateSkipped` | *violated*: see below | two dates, 3 publications, 2 handlers, no failure |
| `AchievementDispatch` | Are intents handed over, does every event count exactly once, is a reward paid once, is a failure ever swallowed? | 2 tickets of a user, a count and a sum, a reward that is refused, 1 edited definition, 2 replicas, 2 workers, 1 failure, 2 attempts |
| `ScheduledJobs` | Does a job that completes skip anybody who is due? Does every job end? | 2 users, pages of 1, one job of each kind, 2 changes meanwhile, 2 workers, 2 failures, 2 attempts, 3 days |
| `NotificationLost` | *violated*: see below | as `ScheduledJobs`, one notification job |

### Properties

The operations of `LoyaltyAccounts` are atomic, so its runs show what one operation
after the other leaves behind; that operations in flight do not overwrite each other
is what `ReadIsCurrent` and `ImplementsAccounts` show of the transactions.

- **LedgerExplainsBalance** - every ledger row leaves the balance of the row
  before it plus its points, and the last one leaves the profile's balance. All
  operations write both separately, as absolute values.
- **NeverOverdrawn** - balance and counters stay within 0 and the column limit.
  Not every path asserts the limit first: the birthday bonus and the reward rely
  on the database refusing the statement, which ends the transaction.
- **RefundsCompensateOnce** - a refund row has exactly one checkout debit, an
  earlier debit of the same order, with opposite points; an order has one refund.
- **KeysMatchLedger**, **HistoryIsPermanent** - keys and ledger rows of commands
  match one for one and nothing recorded changes, so a repeated command can be
  answered from its key at any later time.
- **TierEventsTellTheTier** - no operation that changes the tier forgets its event
  or writes one too many; that both commit together is PostgreSQL's part.
  **OneBonusPerYear** - bonuses agree with their grants, over year ends, changed
  dates of birth and clocks read early.
- **ImplementsAccounts** - refinement: `AccountsSpec` is a PROPERTY of the
  transactions. **ReadIsCurrent** is the reason: what a transaction read stays
  the committed account until it commits. **RepliesAreCommitted** is what a
  caller may rely on. `AccountsSpec` lets an operation that reads the clock early
  work with any day up to the present one, so the refinement does not bound how stale
  that reading is; what it does to the expiry is `ExpiryMovesBack`.
- **ExpiresOnlyWhatIsDue** - the expiry job lists its users without a lock and
  compares a *stored* expiry with an *old* clock reading; it never erases a balance
  renewed since. The ledger of 3 matters: the due balance is one row, the expiry in
  flight reserves the second, and the renewal that overtakes it needs the third.
- **EveryRequestEnds** - profile locks are always taken before keys, a holder
  of a key waits for nothing, conflicts are limited.
- **OneUpgradePerMonth**, **MirrorTellsTheQuota**, **ReservationsAreBound** -
  the GOLD quota, over month ends, late rollbacks and the reset.
- **SettledForAReason**, **ResultsAreFenced** - the outbox: no event is marked
  without having arrived or given up early; and what may change a row is decided by
  its status and lease: a live claim, only its owner with the result of its own send,
  and the end of the lease; an ended lease, only the recovery of a tick; a waiting
  row, only its backoff, the sweep and a claim; a settled row and a legacy claim,
  nothing. **HandsEventsOver**, **HandsIntentsOver** - refinement: both
  publishers are a `HandOff`, with its liveness.
- **NoMessageLost**, **QuarantinedForAReason**, **EveryDeliveryEnds** - the inbound
  journal, with the replays of an operator. **OutcomesAreFenced** - its rows, as in
  the outbox: an outcome is recorded by the owner within its lease; without a live
  lease an open row is only claimed or quarantined, by a handler that is at that
  statement; a completed row only starts over, a quarantined one is only replayed.
  **BudgetIsKept** - however often the tool is repeated, the callback of a purchase
  is started at most `max_attempts` times for each replay id, and as often before.
- **CountsExactlyOnce** - refinement: enqueues that are repeated or late, retries
  and two workers on one job implement `AchievementCounting`. **RewardsAreRight** -
  a reward once, for an unlocked achievement, while targets change.
  **NothingIsForgotten** - the loop collects failures: a job that is gone has
  counted its event everywhere, and one that failed has counted it wherever it
  could. **EveryEventCounts** - and that happens in the end, unless the job visibly
  fails.
- **NobodyIsSkipped** - the jobs page without a lock, and one user's failure ends
  an attempt: still, a job completes only when whoever was due when its attempt
  began, and has been since, was served. **EveryJobEnds** - completed or failed.

Each module has one type invariant besides (`TypeOK`, `TxnTypeOK`, ...).

### Bounds, and why they are enough

- *Users, orders, keys.* No operation touches two users, so users meet only on
  keys: two users and shared keys show every meeting. Two orders tell the right
  one from another. Three keys allow a debit, its refund and a replay of each.
- *Points and thresholds* are small so that SILVER, GOLD and the column limit
  are all reached within the ledger bound; `PointsFor` still rounds down.
- *Days.* `YearDays = 3` and `LastDay = 3` put a year end, an expiry and a
  birthday of each year into reach.
- *`LedgerBound`* keeps histories finite. Four or five rows allow a top-up, a
  debit, its refund and another debit or a repetition of each.
- *Workers, replicas, handlers.* Locks, keys, leases and fences are between two
  parties.
- *Attempts* are two instead of 3 or 5: a first and a last one. `CrashBound`,
  `FailureBound`, `InterventionBound`, `ChangeBound`, `EditBound` and `Traffics` limit
  how often the environment misbehaves, interferes or sends; two failures are a
  failure and one while it is being dealt with.
- *Pages of one* profile put a page boundary between any two users; waves and
  batches likewise. Two achievements are one that fails and one that must not
  suffer.
- *Schedules.* One job of each kind at a time: jobs of different kinds meet only in
  the accounts, through transactions that any other request could make.
- Only requests that make the bounds interesting are enumerated (`MC*`); the
  proofs hold for every set of requests, and for every value of the other bounds.

`CHECK_DEADLOCK FALSE` is in every configuration because the bounds stop the
model: a full ledger, the last day, no more publications. That nothing *waits*
for ever is what the liveness properties say. `SYMMETRY` is used for orders,
workers, publishers and handlers, in safety runs only; the action properties
checked with it quantify over all of them.

### Fairness, and why the code justifies it

- `ProfileTransactions`: strong fairness of `Lock` and `Claim`: PostgreSQL grants
  row locks and unique-key waits in turn, so a waiter is served although the
  lock is taken again and again; weak fairness of `Decide` and `Commit`: a
  running transaction goes on. None for `Conflict`, `Fail` or a new request.
- `OutboxPublisher`: weak fairness of the parts of a tick (the scheduler calls it
  every 5 seconds, a send ends at the latest with its timeout) and of time
  (leases, backoffs). None for saves, crashes, arrival or loss of a message.
- `QuarantineReplay`: weak fairness of "something goes on": a handler's next
  statement, a delivery by the broker, time, the tool's next step and the start of
  the consumers. None for failures, lost channels, publications or an operator's
  replay. A callback ends, as its transaction has a timeout. One fairness condition
  for all of them suffices: it is weaker than one for each.
- `AchievementDispatch`, `ScheduledJobs`: the same, of what publishers, workers and
  time do without a failure. Nobody need buy, edit, call or fail. That a stalled job
  is found and a backoff ends is what BullMQ's own timers do.

## Where code and documents disagree

**The expiry may move back** (`ExpiryMovesBack`). `docs/profile-concurrency.md:36`
says that birthday grants and positive adjustments extend the expiry.
`processUserDateOfBirthSet` reads the clock before it waits for the lock
(`loyalty.service.ts:432`) and writes that day plus a year (`:725`), without a
look at what is stored. A grant begun before midnight that gets the lock after
an adjustment of the next day takes that day back. The effect is the wait, at
most some seconds around any adjustment; the model's unit is a day.

**A repeated date of birth may be skipped** (`DateSkipped`). The comment at
`rmq-delivery.service.ts:91-92` and `docs/reliability.md:49` say that A, B, A
remains valid. The row starts over only if the first cycle's completion is
recorded, which happens in a statement of its own after the callback has
committed. If the second A is admitted between the two, it is taken for a copy
of the first and acknowledged without being run, and B stays. The document
disclaims *new ordering guarantees*; but here every date was published after
the one before it had taken effect, and it is the last one that is dropped. A
window of one statement, with prefetch or replicas above one.

**A notification may be lost** (`NotificationLost`). `README.md:300` lists
`loyalty.points_expiring` with the outbox publisher, as `loyalty.tier_upgraded`.
`notifyExpiringUsers` commits `last_expiry_notification_at` for a whole page
(`loyalty-expiration.service.ts:78`) and then emits directly (`:85`); no row
remembers what is still to be sent. An attempt that ends between the two, by a
lost answer of the UPDATE or the end of the process, leaves profiles marked for 30
days, and the retry does not list them. `docs/loyalty-economy-architecture-spec.md:261`
describes this window and asks for an outbox.

## The proofs

Every safety property that a run checks is also proved, for every value of the
constants that the assumptions allow: the invariants, the action properties, the
two refinements without liveness and the safety part of the two hand-overs. Each
module has an inductive invariant of its own, which TLC has checked on the
instances of the runs before it was proved.

### LoyaltyAccountsProofs

`tlapm LoyaltyAccountsProofs.tla` proves, for every set of users, orders, keys
and requests, every threshold, bonus, year length and column limit:

| theorem | statement |
|---|---|
| `Invariance` | `AccountsSpec => []IInv` |
| `TypeCorrectness` | `AccountsSpec => []TypeOK` |
| `LedgerAlwaysExplainsBalance` | `AccountsSpec => []LedgerExplainsBalance` |
| `AccountsNeverOverdrawn` | `AccountsSpec => []NeverOverdrawn` |
| `RefundsAlwaysCompensateOnce` | `AccountsSpec => []RefundsCompensateOnce` |
| `TierEventsAlwaysTellTheTier` | `AccountsSpec => []TierEventsTellTheTier` |
| `BirthdayBonusOncePerYear` | `AccountsSpec => []OneBonusPerYear` |
| `HistoryAlwaysPermanent` | `AccountsSpec => HistoryIsPermanent` |
| `KeysAlwaysMatchLedger` | `AccountsSpec => []KeysMatchLedger` |

*Assumptions.* `RulesAssumption` and `AccountsAssumption`: positive thresholds
and bonus, a minimum deduction of at least 1, requests of the declared forms, a
legacy debit that fits. TLC evaluates them on every run of `LoyaltyAccounts`
and `ProfileTransactions`.

*The inductive invariant.* `IInv` is `TypeOK` and `AccountInv(a)` of every
account: it is in `Account`, its books are right (`Books`), it is solvent and
its tier is announced. The five properties are not inductive as they stand.
That a refund row is linked to exactly one debit needs, when a row is added to
the ledger, that no checkout row points beyond the ledger's end, that a debit a
checkout row names is a BURN_DISCOUNT row, and that a refund it names is a
REFUND row (`CheckoutWired`); a row could otherwise become the target of a link
that was there before it.

*The argument.* An operation is a composition of a few changes: `Posted`,
`Earned`, `AtTier`, `Opened`. One lemma says what each does to the columns
(`PostedShape`, `EarnedShape`, `AtTierShape`), one says that a posted row keeps
the balance, the compensations and the grants (`PostKeepsBalance`,
`PostKeepsCompensation`, `PostKeepsGrants`), and then one lemma per operation
says that it keeps `AccountInv` (`DeductedInv` ... `StatsResetInv`). `AfterInv`
collects them, `PerformInv` lifts one account to the table, and `NextInv` is the
inductive step, with one case per action.

For the history the same operations are looked at once more: each goes on from the
rows there are, either without a command row (`PlainlyFrom`) or with exactly the
row of its command (`CommandFrom`); `AfterGoesOn` collects them. `KeysMatchLedger`
compares cardinalities, so `KeysInv` adds that the command keys and the command
rows of a user are finite sets, although `Keys` need not be, and that a legacy user
keeps the two legacy rows, which no key explains. `MatchesStay` and `MatchesGrow`
are its two steps. Both proofs are about `AccountsMove`, any operation on an account
or none, and so serve the scheduled jobs as well.

### ProfileTransactionsProofs

| theorem | statement |
|---|---|
| `TxnInvariance` | `TxnSpec => []TxnInv` |
| `TransactionsImplementAccounts` | `TxnSpec => ImplementsAccounts`, which is `AccountsSpec` |
| `TransactionsKeepTheBooks` | `TxnSpec =>` the five invariants, `KeysMatchLedger`, `HistoryIsPermanent` |
| `TransactionTypeCorrectness` | `TxnSpec => []TxnTypeOK` |
| `ReadsStayCurrent` | `TxnSpec => []ReadIsCurrent` |
| `RepliesAlwaysCommitted` | `TxnSpec => []RepliesAreCommitted` |
| `ExpiryIsAlwaysDue` | `TxnSpec => ExpiresOnlyWhatIsDue` |

*The inductive invariant.* `TxnInv` is the accounts' `IInv` and, of a transaction:
what it read under the lock is the committed account, and what it decided from that
(`Accepts`, `Fresh`) still holds when it writes (`TransactionSound`); no two hold
one profile row or one uncommitted key (`LocksExclusive`); the bound on the ledgers
leaves room for every row that may still come (`RoomLeft`), for the abstract step
must not be disabled where the transaction is not; rows need a profile; and every
answer given is the one stored.

*The argument.* Each action has one lemma, which shows the invariant and
`[Next]_accountVars` together (`BeginKeepsInv` ... `OpenProfileKeepsInv`):
`CommitKeepsInv` is the step that is `Perform` of the abstract accounts, `SkipKeepsInv`
the one that is `SkipProcessed`; a profile that is opened and a day that passes are
steps of both, and all others stutter. The refinement then gives
`TransactionsKeepTheBooks` from the theorems about the accounts.

### GoldUpgradesProofs

`tlapm GoldUpgradesProofs.tla` proves, for every set of users, orders and
workers, every set of migrated holds and every number of months:

| theorem | statement |
|---|---|
| `GoldInvariance` | `GoldSpec => []GoldInv` |
| `GoldTypeCorrectness` | `GoldSpec => []GoldTypeOK` |
| `OneUpgradePerMonthAlways` | `GoldSpec => []OneUpgradePerMonth` |
| `MirrorAlwaysTellsTheQuota` | `GoldSpec => []MirrorTellsTheQuota` |
| `ReservationsStayBound` | `GoldSpec => ReservationsAreBound` |

*Assumption.* `GoldAssumption`: the NULL order is no order, the holders of the
migration are users, the last month is a natural number.

*The inductive invariant.* The quota is decided in one step (`CheckUse`) and
written in a later one (`CommitUse`), between which the month may end and other
transactions run. `GoldInv` adds what carries the decision over: the lock of a
profile has one holder (`Exclusive`); what a transaction made sure of under it
is still true when it writes (`Sound`: a use finds no reservation of its order,
none of a later month, no active one of its own month; a rollback finds its
reservation); and no reservation is of a month to come (`PastMonths`), without
which a commit after the end of the month could take the mirror back from a
newer reservation.

*The argument.* `WorkerStep` covers every step that writes no table: only the
new record of one transaction must be exclusive and sound. `HolderCommits`
covers what the three commits have in common: they write rows of the locked user
only, so all other transactions stay sound. Each `Commit*Inv` then shows the
quota and the mirror for its own write. `StepKeepsBound` proves the action
property step by step from `GoldInv`.

### OutboxPublisherProofs

| theorem | statement |
|---|---|
| `OutboxInvariance` | `OutboxSpec => []OutboxInv` |
| `OutboxTypeCorrectness` | `OutboxSpec => []OutboxTypeOK` |
| `RowsSettleForAReason` | `OutboxSpec => []SettledForAReason` |
| `ResultsStayFenced` | `OutboxSpec => ResultsAreFenced` |
| `OutboxHandsOverSafely` | `OutboxSpec => HandedOver!Safety` |

*Assumption.* `OutboxAssumption`; of the events it asks that they are finitely many:
a batch is chosen by its cardinality.

*The inductive invariant.* `OutboxInv`: only a claim has a lease, a row fails with
its budget spent, and a claim of the old publisher stays as it was found
(`RowsSound`); a send that a replica takes for confirmed was received (`SendsSound`);
what is on the wire was saved (`WireSound`); what is marked was received. The second
is what carries a confirmation over the moment in which the replica records it.

*The argument.* A row has few ways to move (claimed, published, retried, ended,
due), and one lemma each keeps it sound; the actions are then covered by which rows
they move. Fencing and the steps of `HandOff` are read off the same case split.

### QuarantineReplayProofs

| theorem | statement |
|---|---|
| `ReplayInvariance` | `ReplaySpec => []ReplayInv` |
| `ReplayTypeCorrectness` | `ReplaySpec => []ReplayTypeOK` |
| `MessagesAreNeverLost` | `ReplaySpec => []NoMessageLost` |
| `QuarantineHasAReason` | `ReplaySpec => []QuarantinedForAReason` |
| `CallbackBudget` | `ReplaySpec => []BudgetIsKept` |
| `InboundOutcomesFenced` | `ReplaySpec => OutcomesAreFenced` |

*Assumptions.* `InboundAssumption` and `ReplayAssumption`; the handlers are finitely
many, the bodies may be any set.

*The inductive invariant.* `ReplayInv` ties the parts together: a settled row has no
claim and a row in quarantine a reason (`RowsSound`); a handler that will acknowledge
has something to rely on - the callback committed, the envelope saved, or a replay the
operator has not seen confirmed - and one that still owns its claim has the attempt of
the row (`HandlersSound`); the tool publishes under the id it reset the row with
(`ToolSound`); who does not consume holds nothing; and a callback was started at most
`MaxAttempts` times for each earlier cycle and `attempts` times in this one
(`StartsCounted`), the strengthening `BudgetIsKept` needs.

*The argument.* `EveryStepAdvances` says how each action may move each row, and
`MoveIsFenced` that every such move is fenced; that nothing is lost is proved one
action at a time, from who held the message before the step.

### AchievementDispatchProofs

`tlapm AchievementDispatchProofs.tla` proves, for every set of users, events,
achievements and definitions, every number of publishers and workers, every batch
size, number of attempts and number of failures:

| theorem | statement |
|---|---|
| `WorkersReadDefinitions` | `DispatchSpec => []CoreInv` |
| `EventsCountExactlyOnce` | `DispatchSpec => CountsExactlyOnce`, which is `AchievementCounting!Spec` |
| `RewardsStayRight` | `DispatchSpec => []RewardsAreRight` |
| `QueueInvariance` | `DispatchSpec => []QueueInv` |
| `DispatchTypeCorrectness` | `DispatchSpec => []DispatchTypeOK` |
| `IntentsHandOverSafely` | `DispatchSpec => Intents!Safety` |
| `NoFailureIsSwallowed` | `DispatchSpec => []NothingIsForgotten` |

*Assumptions.* `AchievementRulesAssumption` and `DispatchAssumption`: an event has a
user, an action and a number, definitions have the columns of their table and a
positive target, "no definition" is not one. `JobsAssumption`, attempts and stalls
in range, plays no part in the first three.

*The inductive invariants.* `CoreInv`: every definition a worker holds is one the
administration gave, active when it was read and about the worker's event, although
`achievements` may have changed since; every definition in the table is one that was
given, possibly turned off; processed keys, progress and rewards have their types.
Nothing is said about intents, sends, late calls and jobs: exactly-once does not
depend on them, which is what the theorem shows. `RewardsAreRight` is inductive next
to these types.

*The argument.* `CountEventStep` shows that the transaction of a worker is `Count` of
`AchievementCounting` or changes nothing, `NextStep` that no other action touches the
three tables. The rewards are then a fact about `AchievementCounting` alone:
`CountRewards` shows that a reward is added only for an achievement that was locked,
and so had none, and `CountingKeepsRewards` carries it to all users.

`QueueInv` is about the rest: an add that may still arrive late was made for a saved
intent and is one of the failures so far; what is delivered, or has a job, was
accepted by Redis; a job that is not over has an attempt left (`BullJobsProofs`).
From it follow the types and the hand-over, in which a late add is an `Accept` of its
own. `NothingIsForgotten` needs two more facts (`RememberInv`): a worker in its loop
has counted its event for, still has to do, or has noted as failed every achievement
that is wanted (`WorkersCover`), and without failures a job that is active is worked
on by the one who has its lock (`JobsHeld`), so that a job that failed then did so
because of an achievement that always fails.

### ScheduledJobsProofs

| theorem | statement |
|---|---|
| `JobsInvariance` | `JobsSpec => []JobsInv` |
| `JobsTypeCorrectness` | `JobsSpec => []JobsTypeOK` |
| `NobodyIsEverSkipped` | `JobsSpec => NobodyIsSkipped` |
| `JobsKeepTheBooks` | `JobsSpec =>` the five invariants, `KeysMatchLedger`, `HistoryIsPermanent` |

*Assumption.* `SchedulesAssumption`: finitely many users with different natural
numbers as ids, pages of at least one, any schedules. A page is a question of
cardinality, and a cursor needs a lowest id: both are why the users are finite
(`SomeIsGreatest`).

*The inductive invariant.* `NobodyIsSkipped` is a statement about one step, the one
that completes a job. `JobsInv` carries it there: whoever is still owed a job is ahead
of it (`Ahead`) - below the cursor, or on the page in hand and not served yet - and
still due (`OwedSound`); a worker that reads a page has none in hand (`RunSound`). Of
the accounts it adds to `IInv` that counters need a profile (`StatsNeedProfile`):
the annual reset of a user without one changes nothing, and must have nothing to
change.

*The argument.* `PagesSplit`: whoever is listed and not on the page read is below the
cursor it leaves. `TransactServes`: after its transaction a user is not due again in
this job, whichever of the three kinds it is; `MarkKeepsInv` says the same of the
mark of a notification. `OwedKept` shows that requests of the platform may end what
somebody is owed and never begin it, `WorkerStep` covers all steps of one worker, and
`CompletesWhenNobodyIsOwed` that only the owner of a job's lock, with an empty page,
completes it. `JobsMoveAccounts` shows that every step of a job moves the accounts by
one operation or not at all, so that history and keys follow as for the accounts.

### What stays with TLC

`EveryRequestEnds`, `EveryDeliveryEnds`, `EveryEventCounts`, `EveryJobEnds`, and the
liveness half of `HandsEventsOver` and `HandsIntentsOver` (`Settled` of `HandOff`): the
proof system reasons about neither fairness nor ENABLED. So do the three properties
that are violated, which are single behaviours.

## What is not modelled

- The read-only calls (`calculateDiscount`, listings, mappers) beyond the profile
  they may create, and the gRPC boundary: nothing changes state there.
- Which rows a batch takes first, jitter and the length of a backoff: the model
  lets any row be the oldest and any wait end at any moment.
- Two clock readings within one handler under the lock count as one
  (`isBirthdayWeek` and `now` of a purchase).
- Floating point: multipliers are exact halves, amounts whole.
- Clocks of replicas that disagree: the README of the repository requires
  synchronized clocks.
- Generated code, configuration, wiring, test code, deployment.
- The checks of a replayed envelope and the translation of its message properties;
  what the administration may write into an achievement beyond code, activity,
  criteria and reward.
- Redis losing a job it has accepted: the intent is delivered then, and nothing in
  this code would add it again.
- Of the scheduled jobs: what a retry does that a new clock reading makes
  different. After midnight a birthday job no longer finds yesterday's birthdays; a
  retried annual reset erases what was earned in the new year before it. Both are
  behaviours of the model, and no document promises otherwise.
- Two notification jobs at once (the one every start of the service adds beside the
  nightly one) may notify one profile twice; `emitted` is a set.
- Four fifths of the TypeScript lines of the repository are the generated Prisma
  client, which nothing here models.

## Plan

Done: the accounts and their rules, the transactions and their refinement, the
GOLD upgrade, the outbox and the intents with the hand-over they implement, the
inbound journal with its replays, the achievements with the counting they
implement, the scheduled jobs; and the proofs of every safety property the runs
check, in each of these modules. What comes next:

1. Proofs: lemmas about `LoyaltyRules` (a birthday week is at most
   `2 * BirthdayRadius + 1` days of a year, points grow with the tier).
2. The attempts of a date of birth whose callback outlives its lease in cycle after
   cycle, which needs more publications than `InboundReplay` has.
3. `LoyaltyRules` against reference definitions (`IsBirthdayWeek` over the year end,
   the discount preview), with leap days.
