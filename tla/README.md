# A verification model of the wallet

The repository is a wallet: members hold a balance, finance merchants bring money
in (top-up, flow C) and out (withdrawal, flow D), commerce merchants take payments
against one-time codes (flow A) and credit members (flow B), and a back office
corrects all of it by hand. Around the money stand the middleware that merchants'
requests pass, the job runner and its outbox, sign-in and sessions, and the bonus
programmes. The API (`apps/api`, Express, Drizzle, PostgreSQL at
READ COMMITTED) keeps every rule; the web
application presents it and keeps the browser signed in. Paths below
are relative to `src/apps/api/src` unless they start with `docs/`.

- [The system](#the-system)
- [The modules and the code](#the-modules-and-the-code)
- [The runs](#the-runs)
- [Fairness](#fairness)
- [The theorems](#the-theorems)
- [Disagreements between the code and what it says](#disagreements)
- [What is not modelled](#what-is-not-modelled)
- [Plan](#plan)

## The system

| Part | State | Operations | What makes it hard |
|---|---|---|---|
| accounts and transactions | `accounts.balance`, `reserved_balance`, `total_points`; `transactions` | written by every flow under the account's row lock | several flows share one `reserved_balance` and release with a clamp at zero |
| cash pools | `merchants.cash_pool`, `merchant_cash_pool_log` | `writeCashPoolDelta`, the conditional UPDATE of a withdrawal, the timeout scan, two back-office operations | some writers lock the merchant, some compare, some do neither |
| settlement book | `merchants.balance`, `credit_limit`, `merchant_settlement_log` | flows A and B, manual settlement, credit limit | the same |
| flow D, withdrawal | `withdraw_sessions` | request, push, callback, timeout scan | a request's first check reads without a lock; callback, scan and push race |
| flow C, top-up | `topup_sessions` | create, topup-init, payment info, confirm, cancel, callback, expiry job | five operations read a status and write one later, one of them across an HTTP call |
| flow A, payment codes | `payment_codes` | create, cancel, consume, expiry job | the cap is counted before the lock; cancel, consume and expire race |
| flow B, merchant credit | the credit's transaction | `creditMember` | a limit others move |
| loyalty | points, tier, cooldown, `loyalty_points_log` | award, penalty, tier upgrade, cooldown | decided inside other flows |
| back office | `admin_idempotency` | adjust balance, adjust or set a pool, record a settlement, set a limit | repeated clicks; values computed from unlocked reads |
| merchant API | `merchant_idempotency` | claim a slot, read a taken one, run the handler, store the answer, purge | four transactions per request; a process may die between any two; retries |
| job runner | `job_runs` | open a run, close it, sweep stale runs | crashes, and runs longer than the sweep allows |
| outbox | `event_outbox` | reclaim, claim, send, record, retry | what the mail server took cannot be taken back |
| refresh tokens | `refresh_tokens` | login, refresh with rotation, logout, revoke all | rotation, revocation and a second tab at once |
| browser session | one session per tab, the shared cookie | refresh under a browser lock, retry | answers that get lost; the cookie changes between request and retry |
| sign-in | lockout counter, TOTP step latch, backup codes, reset links | login, challenge, enrolment, regeneration, reset | counters and latches read without a lock |
| merchant cash-out | `merchant_cashout_sessions`, `cashout_reserved_amount` | request, callback | an unlocked check, a second one under the row's lock; flows A and B move the book in between |
| profit share | campaigns, allocations, the carried overhead | create, publish, close, cancel, claim, expiry job | status read without a lock; a sum read and written back; a split that rounds |
| affiliates and referrals | payouts, referrals, the ledger row of a payout | approve, reject, pay; qualify, cancel | the same |
| pool of connections | the connections transactions hold, the driver's queue | `tx`, and statements issued through the pool inside a transaction | a transaction may need two; nothing times out |
| ledger integrity | none of its own: it reads the columns, transactions, logs and sessions | twenty checks, three times a day and by hand | one statement per check, over what all flows wrote |
| everything else | permissions, method maps, chat, exports | CRUD | - |

The money flows interact in two ways only: they write the same rows, in transactions
that hold row locks until COMMIT; and jobs of `workers/scheduler.ts` call into them
every few minutes. There are no queues between them. A merchant's callback is a
request like any other, and may come late, twice or never.

The other parts touch the flows at their edges. The merchant API calls one handler per
request and sees of it only that it committed, refused or failed. The job runner calls
the jobs of the flows; what it guarantees them, and at what delay after a crash, is
what the flows' fairness rests on. Sign-in, sessions, programmes and the outbox share no
row with each other; what every part shares is the pool of connections. Cash-out reads the settlement book, which flows A and B move.

What makes the parts correct:

- money set aside is there, is set aside once, and is given back or paid once;
- a balance, a pool and a book are each the sum of their log, in every state;
- a session or code ends once, and ends;
- a repeat of a call moves nothing again, and is told what the first was told;
- no pool below its overdraft, no book below its limit, whoever writes it;
- a mail leaves once, and once more only for a fault that hid that it had; and every mail ends;
- a login has one live refresh token; what a password change revokes stays dead; and a
  user who did nothing wrong is not signed out by a second tab or a lost answer;
- a lockout takes hold after the threshold whatever is concurrent; a one-time factor
  opens one session;
- the members of a campaign never take more than its pot, and a payout is booked once;
- a check of the books reports what is wrong with them, and nothing else;
- every transaction that gets a connection ends and gives it back.

## The modules and the code

    Ledger ── Accounts ── Wallet ──── Withdraw ── WithdrawProofs
       │          │          ├─────── Topup ── TopupProofs
       │          └──────────┼─────── Commerce ── CommerceProofs
       └── Settlements ──────┴─ WalletAdmin ── Platform ── PlatformProofs
               │                       │         └── Integrity ── IntegrityProofs
               │                       (Platform takes Withdraw, Topup, Commerce)
               │                       Hold: the abstract specification
               └── Cashout ──┐
    MerchantApi ─────────────┤
    Workers ─────────────────┼── Services
    Sessions, SignIn ────────┤
    Programs ────────────────┤
    Connections ─────────────┘
    PayoutsProofs: Programs, Cashout        ServicesProofs: Services, PayoutsProofs
    Sums: lemmas about sums
    (IntegrityProofs extends PlatformProofs too)

A line is EXTENDS; `Platform` takes the flows by INSTANCE. `MCWithdraw`, `MCTopup`,
`MCCommerce`, `MCPlatform` and `MCServices` give the constants values for TLC.

**Ledger, Accounts, Wallet, Settlements** hold the shared rows and the writes the
flows have in common: append a transaction stamped with the balance, release a
reservation with the clamp, move a pool and log it, post to a book and log it. Each
such write happens under the row lock in the code, so column and log move together.
`locked` names the accounts whose row a transaction holds over several steps; an
operation that needs such a row waits (`AccountFree`).

**Withdraw** is flow D: `services/withdraw.service.ts`, the push route of
`routes/wallet.routes.ts`, the penalty of `services/member.service.ts` and the
cooldown of `services/loyalty-scoring.service.ts`.

| Action | Code |
|---|---|
| `CheckOpen`, `PickMerchant`, `ReserveWithdraw`, `AbortRequest` | `requestWithdrawV3`: the unlocked check, the account lock and the pick (which runs on another connection), the conditional UPDATE and the rest to COMMIT, a rollback |
| `PushRead`, `PushClaim` | POST `/withdraw/:id/push`: the read, then the UPDATE that only one push wins, with the call to the provider |
| `MerchantDecides` | external: the merchant pays or refuses, whenever it likes |
| `FinalizeSuccess`, `FinalizeFailed` | `finalizeWithdrawCallback`, penalty and cooldown included |
| `Expire`, `ScanWithdrawTimeouts` | the clock, and the cron job. The job is one SQL statement whose UPDATE ... FROM applies one joined row to each target row; `OnePerKey` says so for accounts and for merchants, which row being the database's choice |

**Topup** is flow C: `services/topup.service.ts` and `services/topup-init.service.ts`.
The callback holds its session's row from the status check to COMMIT and is one step.
`BeginWrite` and `FinishWrite` stand for topup-init, setting payment info, confirm and
cancel: `Accepts` gives the statuses each reads and `Writes` what it writes by id
later. `BeginCreate` and `FinishCreate` are the creation around the partial unique
index. A callback does not refuse an expired session, and after a late write the only
thing between a repeated callback and a second credit is the unique `public_no` the
transaction inherits (`PublicNoFree`).

**Commerce** is flows A and B: `services/payment-code.service.ts`,
`services/merchant-credit.service.ts`, `services/loyalty-tier.service.ts`. Creation is
two steps (count, then lock and insert); cancel, consume, expire and credit lock all
they decide on. The points of a code are fixed at creation and any of a set.

**WalletAdmin** is the back office: `adjustBalance` (one step: it locks the account),
`adjustCashPool`, `setCashPool`, `recordManualSettlement`, `setCreditLimit` (two steps:
an unlocked read, an absolute write), all inside `withAdminIdempotency`
(`services/admin/idempotency.ts`), whose lookup is a step before and whose insert is
part of the last step. It has no behaviour of its own: `Platform` composes it.
A task is about a merchant that has the book or the pool it works on: settlements and limits
about commerce merchants, `setCashPool` about finance merchants. The code tests the type
only in `adjustCashPool`; what the other three do to a merchant of the other type is outside
the model: no flow uses that column of such a merchant, but the checks read it.

**Platform** runs all of them over the same rows. A step is a step of one flow that
leaves the private state of the others alone.

**Integrity** is `services/ledger-integrity.service.ts` over `Platform`. Each check is one
SELECT and so sees one committed state; `Reports(check)` is the set of rows it returns
there, with the difference its finding shows, translated from its join and its WHERE, and
`Explained(check)` is the set it should return when every flow went as written. Twelve of
the twenty are modelled: balances against transactions, reservations against codes, books
and pools against their logs, the chains of both logs, the credit limit, the posting of
each of the four flows, and log rows without a transaction. Not modelled: the chain of
`balance_after` by `created_at`, which is the start of a transaction and need not be the
order of the locks; repeated merchant references; stale sessions (the jobs' own queries);
missing public numbers and tier snapshots; the sum over everything; and the row that
records a run of the checks. The check of flow B also joins log rows whose notes begin with
`ref:` and the merchant's reference (`services/ledger-integrity.service.ts:301`). No code
writes notes so, flows A and B store the bare reference, and the free text of a settlement
by hand is not modelled; that arm is left out of `Joined`.

**Hold** is the abstract specification of a reservation: `Place` only if what is set
aside and the new amount are in the account, then `Capture`, which pays, or `Release`,
which does not; other money may move as long as what is set aside stays covered.
`Withdraw` and, with the holds of withdrawals and codes together, `Platform` implement
it (`ImplementsHold`).

### Around the money

**MerchantApi** is `lib/merchant-hmac.ts`, after the signature has been accepted. A key
is a merchant, an endpoint and an `x-merchant-ref`.

| Action | Code |
|---|---|
| `Claim`, `Collide`, `ReadSlot` | `claimIdempotencySlot`: the INSERT that one request wins, the conflict, and the SELECT by which a loser is answered from the row, 409 `CONCURRENT_REQUEST` or 409 `REF_PAYLOAD_MISMATCH` |
| `HandlerCommits`, `HandlerThrows` | the handlers of `routes/merchant-public.routes.ts` and `routes/webhooks.routes.ts`: a commit, reported as 2xx or lost and reported as 5xx; a refusal or failure with nothing committed. `OncePayloads` are the bodies (callbacks of a session) whose service refuses the second |
| `Respond`, `ReplyFromSlot`, `PersistFails` | `persistCall`: a 2xx or 4xx overwrites the placeholder, a 5xx deletes it, a loser's 4xx is inserted where no row is left; its own failure is only logged |
| `Die` | external: the process dies |
| `Lapse`, `PurgeSlots` | `expires_at` passes, and the daily purge of `workers/scheduler.ts` |

**Workers** is `workers/scheduler.ts` with the job that leaves the house,
`workers/dispatch.service.ts`.

| Action | Code |
|---|---|
| `StartRun`, `FinishRun`, `JobThrows` | `runJob`: the INSERT under the partial unique index on unfinished rows, and the close by id (`CloseRow`), which changes nothing when the sweep was there first; a job throws at its reclaim, its claim or the record of a failure |
| `AgeOfDead`, `Overrun`, `Sweep` | thirty minutes pass for a dead or a slow run; `reclaimStaleRunningJobs` |
| `ReclaimStalled`, `ClaimDue` | rows left `sending` for five minutes go back; due rows are claimed with their attempts counted |
| `SendMail`, `LoseAnswer`, `SkipMail` | `sendEmail` of `lib/email.ts`: the server takes the mail or not, and says so; or takes it and its answer does not come before the socket times out, which `sendEmail` reports as a failure; or there is no recipient |
| `RecordSent`, `RecordFailure`, `RecordThrows` | the UPDATE after it: sent, skipped, retried later or failed for good (`RetryOrFail`), or an UPDATE that itself fails |
| `CrashRun`; `Stall`, `Ripen` | external: the process dies; time passes for a row |

**Sessions** is the refresh token of one login on both sides: `services/auth.service.ts`
and `auth/sessions.ts` in the API, `src/apps/web/src/lib/api.ts` in the browser.

| Action | Code |
|---|---|
| `Login` | `login`, and `mfaChallenge` from a tab that is signed in already, whose token then stays as it is; both end in `issueTokens` |
| `Expired`, `PostRefresh`, `PostAgain`, `GiveUp` | the tab: an access token has run out, a refresh is posted under the browser's lock, posted again with the cookie of that moment, given up |
| `LockRow`, `RefuseReuse`, `Issue`, `CommitRotation`, `AbortRotation` | `refresh` and `rotateRefreshToken`: the row lock, the refusal of a used token, the child token, which goes through the pool of connections and is there before COMMIT, the commit or roll-back |
| `Deliver`, `Lose` | the answer with its Set-Cookie arrives, or does not |
| `Logout` | `logout` |
| `BeginSweep`, `SweepRow`, `EndSweep` | `revokeAllForUser` on a password change: one UPDATE, which takes its rows one after the other and waits for those that are locked |

**SignIn** is what a user signs in with (`services/auth.service.ts`, `auth/mfa.ts`).

| Action | Code |
|---|---|
| `ReadUser`, `CountFailure`, `WrongPassword`, `RightPassword`, `Frozen`, `LockEnds` | `login`: the row read without a lock, the counter incremented in SQL while whether to lock is decided on the count as read, the refusals, the reset, the end of the lock |
| `MatchStep`, `LatchStep` | `mfaChallenge`: a code is compared with the latch as read, and the latch written later |
| `VerifyEnrollment`, `RegenerateCodes`, `ConsumeCode` | enrolment sets the latch, and then, in commits of their own, draws backup codes and revokes the sessions (`BeginSweep` of `Sessions`); new backup codes; the conditional UPDATE that one use of a code wins |
| `ReadLink`, `SetPassword` | `confirmPasswordReset` |
| `Tick` | a TOTP step passes |

**Cashout** is `services/merchant-cashout.service.ts` over `Settlements`.

| Action | Code |
|---|---|
| `CheckCashout`, `ReserveCashout`, `RefuseCashout` | the request: the unlocked check; then, under the merchant's lock, the check again and an UPDATE that reserves, or the refusal |
| `CashoutCallback` | the callback as it runs, that is, up to the exception it always throws |
| `BookMoves` | flows A and B move the book by their own rule, which does not look at `cashout_reserved_amount` |

**Programs** is `services/admin/profit-share.service.ts`, the claim of
`services/member.service.ts`, `services/admin/affiliate.service.ts` and
`services/admin/referrals.service.ts`. Every operation on a status is `ReadStatus`, without a
lock, and a later write by id.

| Action or operator | Code |
|---|---|
| `NetProfit`, `PoolAmount`, `Distributions` | the pure part: net profit, pool, and the pro-rata split with the remainder handed out by rank; the division is in floating point and may make a whole share one less, so a split is any of a set |
| `CreateCampaign` | `createCampaign`, with its economics as they are read |
| `PublishEmpty`, `BeginPublish`, `CommitPublish` | `publishCampaign` and `addCumulativeOverhead`: the second read inside the transaction, the sum written at its end |
| `CloseCampaign`, `OnlyStatus` | `closeCampaign`, which ends pending allocations; cancel, approve, reject, qualify and withdraw |
| `ClaimShare`, `ExpireAllocations`, `DeadlinePasses` | the member's claim under three row locks, the expiry job, the clock |
| `PayPayout` | `markAffiliatePayoutPaid`, with its ledger row under a unique reference |

**Connections** is `tx` and the pool of `db/client.ts`. Any transaction is one; what sets
them apart is the row they lock and whether they issue a statement through the pool while
they are open (`Doubles`): `requestWithdrawV3` and `createTopupSession` pick a merchant on
`db`, a refresh inserts its new token on `db`, and `writeAudit` uses `db` unless its caller
hands it the transaction, which some ten transactions, `adjustBalance` among them, do not.

| Action | Code |
|---|---|
| `Begin`, `EndTransaction` | `tx`: BEGIN once there is a connection; COMMIT, or ROLLBACK whatever is thrown |
| `AskRow`, `GetRow` | `SELECT ... FOR UPDATE` or an UPDATE: issued, and answered when the row is free |
| `AskSecond`, `EndInner` | the inner statement asks the pool, and ends; it never waits for a row (`InnerWaits`), because it is a SELECT without a lock or the INSERT of a row of its own |
| `Acquire`, `GiveBack` | external: the driver's queue |

**Services** extends the seven. They share one process and one database, but no row, so a
behaviour of the whole is, apart from the pool of connections, an interleaving of
behaviours that cannot influence each other: `part`, chosen at the start, says which of them a behaviour moves (`requests`, `outbox`,
`sessions`, `passwords`, `factors`, `resets`, `cashouts`, `campaigns`, `payouts`,
`connections`), and
the rest stutter. Every behaviour of `Services` is thus one of each part's own
specification.

### Abstractions

Common to all: amounts are integers in minor units; a fee is a constant
function of merchant and amount; codes, ids and references are model values; audit
rows, provider ledger rows (they repeat the transaction row), notifications and
validation of input are left out; tokens, mails, codes and requests are numbers or model
values, and a clock is an action that makes something due; a refused call is a step not taken unless it
changes state. The numbers of a transaction (`public_no`, id) are the session or code
they belong to, `TxId` where the code tells the two apart. A frozen member and per-day
limits are not modelled.

## The runs

| Run | Instance | Distinct states | Shows |
|---|---|---|---|
| `withdraw` | 2 members, 3 sessions (2 of one member), 1 merchant, 2 pushes in flight | about 844,000 | one open session per member, exact reservations, one debit, penalties, a pool log that adds up, pool within overdraft, one push, finality, refinement of `Hold` |
| `withdraw_live` | 2 merchants, 2 members, 2 sessions | 13,240 | every open withdrawal ends |
| `withdraw_scan` | as `withdraw`, 1 push | violated | reservations of a scan are not all returned to a pool |
| `topup` | 1 member, 2 sessions, two reported amounts, one eaten up by the fee | 259,908 | one open session, one credit, a session that says success was credited the amount it shows, the pool gains what was credited, every open top-up ends |
| `topup_reopen` | the same | violated | a settled status is overwritten |
| `commerce` | 1 member, 3 codes, 2 merchants, 2 credits, 3 tiers | 31,904 | one payment per code with its points, conservation of money, every code ends |
| `platform_finance` | a withdrawal, a top-up, a credit, a pool set by hand to what it is already | 337,996 | a balance is what the flows moved; the integrity checks report exactly what their queries leave out |
| `platform_member` | a withdrawal, a code, a credit, a debit sent twice with one key, a settlement, a limit | 296,234 | the same checks beside codes and a settlement by hand, so that what is reserved is the active codes and the open withdrawal; an answer from the key store stands for a committed call, refinement of `Hold` with the holds of both flows |
| `platform_pool_log` | a withdrawal, a top-up, a pool set by hand | violated | a delta is lost |
| `platform_keys` | an adjustment sent twice with one key | violated | both move money |
| `services` | see below | 554,616 | the sixteen properties of the parts around the money |
| `cashout_settles` | the same | violated | no cash-out callback ever settles |

What `services` shows, part by part:

| Part | Instance | Properties |
|---|---|---|
| merchant API | 3 requests with one reference, one of them with another body, whose effect the service itself does once | `RepeatsExplained`: two requests with a reference both move money only if one was answered 5xx after its commit or the row had lapsed. `AnswersAgree`: all 2xx answers of a reference tell of one run, which committed, for the body sent. `PlaceholderEnds`: a claim whose process died does not answer 409 for ever |
| outbox | 2 slots, 2 mails (one without a recipient), 2 attempts, 2 faults (a crash, a throw, a lost answer, an overrun) | `DeliveredOnce`: a mail goes out once, and once more at most for each time the server took it and no record of that was made and for each run that outlived thirty minutes. `EveryMailEnds` |
| sessions | 2 tabs with the browser lock, 2 calls, 3 tokens, 1 loss or roll-back, 1 retry | `OneLiveToken`: a login or a challenge has one token that can be rotated, and one more per rotation that rolled back. `OlderTokensDead`: what a revocation found is dead when it is over, rotations in flight included. `TabsSurviveRotation`: a tab is signed out only after a lost answer, a roll-back or the end of the session |
| sign-in | 3 logins at once, threshold 3, counts up to 7; 2 challenges, 3 TOTP steps, 2 backup codes | `LockoutTakesHold`: the guesses judged before a lock exceed the threshold by at most the logins under way with an older count. `UsedOnce`: a backup code gives a session once; the code of a step once, unless the latch was overwritten unread; a link sets one password, unless two confirmations found it fresh together |
| cash-out | 3 requests of 6, 5 and 4 on a book of 10 with a credit limit of 4, a spend of 3 and a credit of 8 beside them | `CashoutCovered`: what is reserved is the sum of the open sessions, and no more than the merchant has taken in, whatever requests and credits race |
| programmes | 2 campaigns with a pool of 5 and one that is created, 2 calls about them; 4 calls about a payout and a referral | `ClaimedFromPot`: the pot is allocated to the minor unit and members never take more. `OverheadExplained`: the carried sum is that of the published pools, unless calls overlapped. `PaidOnce`: a payout has one ledger row, and says so. `AllocationsEnd`: nothing stays open past its deadline |
| connections | a pool of 2; two withdrawals and an adjustment of one member, a top-up, the end of a session | `TransactionsEnd`: everything in flight ends, unless the pool is exhausted, that is, all connections are held by transactions that wait for a second one or for the row of one that does |

Why the instances are enough for what they show. A conflict over an account needs two
sessions of one member; over a pool, two sessions whose amounts fit one at a time; a
statement that reverses several sessions needs two sessions of one merchant and two
merchants. `withdraw` has the first three, `withdraw_live` the last. A late top-up
write needs the session it hits and the next one of the same member. Codes: three, so
that two can be due at once while a third is made, worth more than the balance
together. Amounts are chosen so that each test is decided both ways: capacity 32
covers w1 and w3 but not w2 and w3, the fee of w2 at one merchant differs from w1's, a
credit of 5 is covered by the book but not with its commission.

A slot is contended by a winner, a loser with the same body and a loser with another, so
three requests. A dispatcher that is only slow needs a second slot to show what the next
run does beside it, and two attempts tell a retry from the last one. Of three tokens one
is presented, one is issued for it, and one is issued to the next rotation or login. With
a threshold of three, three logins under way can all read the count before the first is
counted. Two connections and five
transactions are exhausted both ways: by two that want a second, and by one and another
that waits for its row; each of the two inner waits for a row would show as well. A pool
of 5 split 2 : 1 leaves a remainder; split 4 : 1 it does not, and meets
the floating-point case. Campaigns were also checked with three calls (1.1 million
states), without the liveness property.

The bounds are `MaxPush` (pushes of a session that have read but not claimed),
`MaxFaults`, `MaxLosses`, `MaxTokens`, `MaxGuesses`, `MaxStep`, and the finite sets of
sessions, codes, credits, requests and calls, each of which is used once; everything else
is finite because they are. Runs do not check for deadlock, because a behaviour whose
sessions are all used has really come to its end. No symmetry is used: the sessions differ
in owner and amount, and liveness is checked in the same runs.

## Fairness

- `Expire`, `TopupDue`, `CodeDue` are weakly fair: time passes.
- `ExpireStaleTopups` and `ExpireCodes` are weakly fair: `workers/scheduler.ts` starts
  them every five minutes. A run that dies leaves its `job_runs` row running, which
  makes later ticks skip the job until the sweep (hourly, and at start) closes the
  row after thirty minutes; later is still eventually.
- `ScanWithdrawTimeouts` is strongly fair. The scan waits for account rows that
  requests hold. PostgreSQL queues waiters for a row in order of arrival, so a scan
  that waits gets the row although members keep sending requests; in the model the
  scan is enabled again and again, not continuously.
- A request that holds a lock commits or rolls back (weak fairness of `ReserveWithdraw`
  or `AbortRequest`). This needs a second connection for the pick, so it holds while the
  pool is not exhausted (`TransactionsEnd`); no timeout would end the wait.
- Nothing is assumed of members and merchants. Callbacks may never come, late writes
  of a top-up may reopen a session any number of times the model has operations for.
- `RequestsProceed`: a merchant request that has begun goes on to its answer (weak
  fairness of `Serve` for requests in flight; a request may also never arrive, and `Die`
  or `PersistFails` may come anywhere), the time of a row passes (`Lapse`: seven days for a
  placeholder or a 2xx, one for a 4xx), and the purge
  runs, which the scheduler starts daily.
- `JobsProceed`: some process ticks the dispatcher's cron (`StartRun` in some slot; every
  two minutes), a run that is not dead goes on (`Advance` per slot), rows grow old and
  ripe (`Stall`, `Ripen`), the row of a dead run grows old (`AgeOfDead`), and the sweep
  runs, at start-up and hourly (`workers/scheduler.ts:367-378`). Nothing is assumed of
  crashes but their number.
- `CampaignsProceed`: deadlines pass, the expiry job runs every five minutes, and a
  publish that holds its campaign's row commits (`CommitPublish`). That a draft is ever
  published, or an allocation claimed, is not assumed.
- `TransactionsProceed`: some transaction goes on, or gets the row it waits for, as long as
  one can; each has finitely many steps. PostgreSQL and the driver serve who waits in order
  of arrival.

## The theorems

### Withdrawals

`WithdrawProofs` proves, for any members, merchants, sessions, amounts, fees, opening
values and any `MaxPush` that satisfy the named assumptions of `Ledger`, `Accounts`,
`Wallet` and `Withdraw`:

| Theorem | Property |
|---|---|
| `TypeCorrect` | `TypeOK` |
| `OneOpen` | `OneOpenPerMember` |
| `ReservationsExact` | `ReservedMatchesOpen` |
| `LocksProtect` | `LockProtectsFunds` |
| `SoundAccounts` | `AccountsSound` |
| `PoolsLogged` | `CashPoolLogged` |
| `BalancesLogged` | `BalanceLogged` |
| `Final` | `FinalizedIsFinal` |
| `PushedOnce` | `PushedAtMostOnce` |
| `PoolsCovered` | `PoolWithinOverdraft` |
| `DebitsOnce` | `DebitedOnce` |
| `PenaltiesExact` | `PenaltiesApplied` |
| `WithdrawalsAreHolds` | `ImplementsHold` |

The assumptions are those the schema gives: amounts are positive, opening values are
natural numbers, a session's owner is a member, ids do not collide with the null
reference. Nothing is assumed of a fee except that it is a natural number: it may
exceed the amount, and the pool may then gain from a reservation.

Three inductive invariants carry the proofs.

1. `TypeInv` = `TypeOK` and `Routed`: a session whose request has picked a merchant, or
   that exists, has one. Without it the scan and the callback could index a pool by
   `NoMerchant`.
2. `MoneyInv` = `OneOpenPerMember`, `ReservedMatchesOpen`, `LockProtectsFunds`,
   `AccountsSound` together, over `TypeInv`. None is inductive alone. A reservation
   is exact only if a release takes off exactly the open session's amount, that is, if
   there is one open session; that rests on the unique index, because two requests may
   both pass `CheckOpen`. The account stays sound because a request adds to `reserved`
   what it found available under its lock, and what it found is still there because
   no other flow step changes a locked account. The scan picks one released session
   per member: `ScanEffect` shows that, there being one open session, this is all of
   them.
3. `LogInv` = each pool and each balance is where its log ends, over `TypeInv`.
   `ChainAppend` is the one argument about sequences: appending a row that starts
   where the chain ended keeps the chain. The scan appends one row to each pool it
   changes, which is why `CashPoolLogged` holds although `PoolReservationsReleased`
   does not.

`FinalizedIsFinal` follows from `TypeInv` alone: every step that changes a status, a
transaction or a pool log is about a session that is not terminal, and a row about
another session is no row of this one (`RowsOfOther`). `PushedAtMostOnce`,
`PoolWithinOverdraft` and `DebitedOnce` are inductive over `TypeInv`. The overdraft
needs commissions that do not exceed the amounts; the property says so itself.

`PenaltyInv` carries `PenaltiesApplied`: a member is in cooldown if and only if it has at
least as many completed withdrawals as the threshold, and its points are the opening ones
less the penalties of its sessions, at least 0. It adds that the penalties are a finite
set, which the sum over them needs. `WithdrawalsAreHolds` shows that the initial state maps to an initial state of
`Hold` and that every step places, captures or releases holds or leaves them alone; its
sums go through `Sums`. The threshold is assumed to be at least 1 (`WithdrawAssumption`):
a threshold of 0 would put
members in cooldown before they withdraw anything.

`SoundAccounts`, `BalancesLogged` and `LocksProtect` have no run of their own:
`BalanceExplained`, `AuditExplained` and `ImplementsHold` say more on the instances. That
what a request found available stays available while it holds the lock is what the
refinement of `Hold` rests on, here and in `Platform`.

### Codes and credits, the flows together, payouts

| Module | Theorem | Property | Rests on |
|---|---|---|---|
| `CommerceProofs` | `CommerceTypes` | `CommerceTypeOK` | |
| | `CodesConsumedOnce` | `ConsumedOnce` | `CodesPaid`, `PointsAwarded` |
| | `ReservedIsActiveCodes` | what a member has reserved is the sum of the active codes | `HoldsCovered` |
| | `MoneyIsConserved` | `MoneyConserved` | `MoneyHeld` |
| | `CodesAreHolds` | the codes implement `Hold` | `HoldsCovered` |
| `PlatformProofs` | `RepeatsAreDone` | `CachedIsDone` | `KeyInv` |
| | `BalancesExplained` | `BalanceExplained` | `ExplainInv` |
| | `HoldsTogether` | `ImplementsHold` | `HoldInv` |
| | `ReservedIsThere` | reserved is the open withdrawal and the active codes, and within the balance | `HoldInv` |
| | `HoldsEndOnce` | no step loses a hold, or ends one twice | `HoldInv` |
| `IntegrityProofs` | `ChecksExplained` | `AuditExplained` | `AuditInv` |
| | `MoneyMovesOnce` | a session, code or credit has one transaction | `AuditInv`, `PostedOnce` |
| `TopupProofs` | `PoolsMatch` | `PoolMatchesCredits` | `PoolExact` |
| `PayoutsProofs` | `PotsAreKept` | `ClaimedFromPot` | `PotInv` |
| | `OverheadIsExplained` | `OverheadExplained` | `OverheadInv` |
| | `CashoutsCovered` | `CashoutCovered` | `BookInv` |

Most of these are about a sum over a set: of holds, of credits, of allocations, of
reservations. The library's induction theorems take an operator as a parameter, which the
installed provers cannot instantiate, so `Sums` goes another way. The sum of the community
modules is a fold, defined by a recursive function on finite sets that takes off a CHOSEN
element. Suppose a law fails for some finite set. Of the subsets for which it fails one is
minimal (finite sets are well-founded by inclusion, which the library states about sets and
not about operators); take off an element, and the law holds for the rest, a contradiction.
`SumUnfold`, `AddsUnique`, `SumAdd`, `SumRemove` and the rest are stated once there and
cited by all. The modules a flow is composed from by INSTANCE have copies of the sum, which
bridge lemmas in `PlatformProofs` show to be the same function.

- `CodesPaid`: a code is consumed if and only if it has a payment, of its own amount, to
  one merchant; `MoneyHeld` adds up balances, books and commissions beside it.
- `KeyInv`: a stored key is that of a call that is done (`StoredIsDone`), because the row
  is inserted in the step that moves the money; so whoever is answered from the row is
  answered about a call that committed. Nothing says that two calls with one key do not
  both commit: `platform_keys` shows they do.
- `ExplainInv` is three parts. `Shapes` types the composed state. `Fresh` says that what a
  flow has not begun or has not finished has left no row: no transaction of a session
  that is not settled, of a code that is not consumed. `Exact` is the sum: a balance is the
  opening one and what each session, code, credit and call has moved.
- `HoldInv` is `Shapes` and `Fresh` with `Covered` (what an account has reserved is the
  sum of its open withdrawal and its active codes, and no more than its balance), `Alone`
  (one open withdrawal per member) and the lock invariant of `Withdraw`. `HoldMoves`
  states what a step may do to the holds, `Frozen` that no step but the holder's changes a
  locked account. The scan reverses one session per member and the release it makes is the
  whole due set because of `Alone`.
- `AuditInv` says of each table what the checks join: every row names the flow that wrote
  it and says what that flow moved, and every session, code or credit that went through has
  its row. `TxnsTold` and `TxnsAdd` are about the transactions and the balances they add up
  to, `BooksTold` about the settlement books, `PoolsTold` and `ShadowTold` about the pools
  and what a top-up writes beside them; `Routed` and `TopupsRouted` keep a session with the
  merchant it was given, so a row stays where its check looks for it. It needs `Fresh`: a
  row of a session that has not gone through would be one no flow accounts for, and the
  reference of a new row would be in a table already. It needs `HoldInv` for
  `member_reserved_vs_active_codes`: what that check leaves out is the open withdrawal and
  nothing else, so no clamp at zero has ever hidden a double release. A pool may be away
  from its log only after a set that found nothing to log (`SetUnlogged`). Then one lemma
  for each check says what its query returns of such tables.
- `PostedOnce` (no two transactions have one reference) is inductive over `AuditInv`: a
  posting is about something that has not gone through, and `NothingPosted` says that such
  a thing has no row on any account; that the ids of the tables differ is what keeps a
  session from finding the row of a code. `HoldsEndOnce` is read off the refinement: a
  step of `Hold` ends holds so (`HoldsEndSo`). The two have no run of their own;
  `BalanceExplained` and `ImplementsHold` say as much on the instances.
- `PoolExact`: a pool is its opening value and the net of the credits routed to it.
  `BookInv`: what a book has reserved is the sum of its open cash-outs, and neither that
  nor the book exceeds what the merchant took in. A callback that throws changes none.
- `PotInv`: the allocations of a published campaign add up to its pot, and a claimed one
  keeps its amount. A campaign without ranks allocates nothing, whatever its pot; the
  property says so in its first conjunct.
- `OverheadInv`: while no two calls overlapped, the carried sum is that of the pools of
  published and closed campaigns and a campaign nobody published has paid nothing
  (`CarriedExact`); only a publish works on the sum (`AddingPublishes`).

### Top-ups, merchant requests, jobs, sessions, sign-in, referrals, connections

| Module | Theorem | Property | Rests on |
|---|---|---|---|
| `TopupProofs` | `OneTopupOpen` | `OneOpenTopup` | `TopupInv`: `OpenAlone` |
| | `TopupsCreditOnce` | `CreditedOnce` | `TopupInv`: `CreditsExact` |
| | `CreditsAreShown` | `SuccessIsCredited` | `TopupInv`: `CreditsExact` |
| `ServicesProofs` | `RepeatsAreExplained` | `RepeatsExplained` | `SlotInv` |
| | `AnswersTellOneRun` | `AnswersAgree` | `MerchantInv` |
| | `MailsLeaveOnce` | `DeliveredOnce` | `WorkInv` |
| | `SweptIsDead` | `OlderTokensDead` | `RowInv`: `SweepCovers` |
| | `OneTokenPerLogin` | `OneLiveToken` | `RowInv`: `LiveBound` |
| | `TabsStaySignedIn` | `TabsSurviveRotation` | `RowInv`, `QuietRefresh` |
| | `LockoutHolds` | `LockoutTakesHold` | `LockoutInv` |
| | `FactorsUsedOnce` | `UsedOnce` | `FactorInv` |
| | `ExhaustionNeeds` | an exhausted pool takes as many transactions in flight as connections, one of `Doubles` among them | `PoolInv` |
| | `ExhaustedForGood` | once exhausted, always exhausted | `PoolInv` |
| | `PartsImplemented` | `Services` implements the specification of each part | |
| | `ServicesKept` | the twelve invariants of the run `services`, of `Services` | `PartsImplemented` |
| `PayoutsProofs` | `PayoutsPaidOnce` | `PaidOnce` | `PayInv` |

They hold for any numbers of requests, references, mails, slots, tabs, calls, tokens,
logins and payouts, under the named assumptions of the modules (`TopupAssumption`,
`MerchantApiAssumption`, ...), which give the constants their types and say that the null
values are no members. Where a property sums or counts, the set it ranges over is finite
(sessions, codes, credits, cash-outs, campaigns, concurrent logins). `PlatformAssumption`
says that the ids of different tables differ, a transaction's id from a session's among
them, and that a merchant has one type. The theorems about a part
are theorems of the part's own specification (`MerchantSpec`, `WorkersSpec`,
`SessionsSpec`, `SignInSpec`, `ProgramsSpec`, `CashoutSpec`, `ConnectionsSpec`).
`PartsImplemented` proves that `Services`, which the run checks, implements each of them:
its steps move one part as the part says and leave the others as they are. So the
theorems about the parts are theorems about it (`ServicesKept`).

Why each invariant is needed:

- `SlotInv`: a request between its claim and its answer owns the row of its reference
  (`ClaimsHeld`), since nobody writes the row of another's claim and no request outlives
  the seven days a placeholder has (`DueLapsed`); a run that committed and was not answered 5xx keeps the row
  (`RunsKeepSlot`). Two such runs would own one row. `MerchantInv` adds that a "done"
  that is stored (`StoredTrue`) or told (`ToldTrue`) is that of a committed run with that
  reference and body.
- `WorkInv`: what a mail may still bring is counted beside what was delivered. Each run that
  has it in hand may send it once, and a run that has yet to claim may once more unless it is
  recorded (`Senders`, `ToClaim`, `ToCome`); deliveries and those to come stay within
  `1 + unmarked + overruns` (`Count`). The unique index lets one run at a time be within its
  time (`InTime`), and what such a run has in hand is `sending` (`InHand`), so nobody else
  claims it until a fault is counted.
- `RowInv`: a rotation holds the lock of an active row that no sweep has taken
  (`LocksHeld`), a sweep has each row of its snapshot before it or behind it
  (`SweepCovers`), and the live tokens are counted against logins and roll-backs, a parent
  whose child is issued no longer among them (`LiveBound`). `Refreshing` holds while
  nothing was lost, rolled back or ended (`Quiet`): the one tab that posts waits for the
  one call there is, and the cookie is active or about to be replaced.
- `LockoutInv`: guesses do not exceed the count, and once the count is one below the
  threshold only logins that read an older one (`Behind`) can add to them, each once.
- `FactorInv`: unless the latch was overwritten unread it is at or past every step that
  was used (`LatchInv`); a code that is unused or undrawn has given nothing (`CodesInv`);
  a link that is fresh has set nothing (`LinkInv`).
- `PayInv`: a call is about a row of its own table (`OnOwnTable`), so no operation on a
  campaign or a referral can write a payout's status.
- `PoolInv`: the queue holds each transaction once, and only those that wait
  (`QueueWaits`, `QueueOnce`), so the head can be handed a connection; and a second one is
  asked for by `Doubles` only (`SecondsAsked`). Together with `TransactionsEnd` the two
  theorems say what the exception of that property is worth: fewer than twenty requests at
  a time never meet it, requests that use the handle they are given never do, and who meets
  it does not get out.
- `TopupInv`: an open session is alone by the unique index, and a session has at most one
  credit, of the amount it shows, although its status may be overwritten.

### Only model-checked

The seven liveness properties: fairness and ENABLED are out of the provers' reach. Every
invariant and every action property of a passing run is stated by a theorem. The five
properties that the code breaks (Disagreements) have no theorem, of course.

## Disagreements

Each of these is a run that ends in a counterexample, with the line it contradicts in
`PROJECT.json`:

- `withdraw_scan`: two sessions of one merchant time out in one scan; the pool gets one
  of the two amounts back (`services/withdraw.service.ts:495`).
- `topup_reopen`: cancel, confirm, payment info or topup-init overwrites what a callback
  wrote in between (`services/topup.service.ts:205`). `CreditedOnce` shows that money is
  still credited once.
- `platform_pool_log`: a pool set or adjusted by hand is computed from an unlocked read
  and overwrites a delta (`services/admin/merchants.service.ts:441`).
- `platform_keys`: the insert of the idempotency key is ON CONFLICT DO NOTHING, so it
  never refuses the second of two concurrent calls (`services/admin/idempotency.ts:66`).
- `cashout_settles`: the callback takes element 0 of a row, finds no merchant and throws,
  so no cash-out leaves `pending` and its reservation stays
  (`services/merchant-cashout.service.ts:276`).

Met while modelling, and not given a run.

Money:

- The cap on active codes is counted before the account's lock, so two creations at once
  can pass it together (`services/payment-code.service.ts:132`, against the comment at
  `:127`).
- The lifetime turnover that decides a tier is read as zero, by element 0 of a row
  (`services/loyalty-tier.service.ts:60-65`), so a tier with a turnover threshold is
  never given when a code is consumed (`services/payment-code.service.ts:475`).
- `recordManualSettlement` makes the mistake of `setCashPool` on the settlement book
  (`services/admin/merchants.service.ts:310`).
- A success callback after the timeout is refused (`services/withdraw.service.ts:308`):
  the merchant has paid and the member keeps the money, and the reservation was given
  back although no callback came.
- The integrity checks report flows that went as written; `AuditExplained` says of exactly
  which. `member_reserved_vs_active_codes` (`services/ledger-integrity.service.ts:146`,
  critical) leaves open withdrawals out and reports every member who has one.
  `merchant_settlement_balance_vs_log` (`:172`) meets the rows a top-up writes to
  `merchant_settlement_log` too, with its pool's values (`services/topup.service.ts:399`,
  `shadowLog`), and reports every finance merchant that took one.
  `flow_topup_cash_pool_posting` (`:325`) looks for the session where the pool log refers
  to the transaction, and reports every top-up. The flow checks of credits and withdrawals
  expect the commission in `transactions.fee`, which flows B, C and D store as 0
  (`services/merchant-credit.service.ts:140`, `services/withdraw.service.ts:387`), and
  report every one that has a commission. `src/scripts/run-pratik-test-plan.mjs:164-173` expects no
  critical finding and no error after a withdrawal.
- None of the twelve checks sees the delta that `recordManualSettlement`, `setCashPool` or
  the timeout scan loses: the column agrees with the last log row, and each row adds up.
  But `setCashPool` writes the column always and a log row only if what it read differs
  from what it sets (`services/admin/merchants.service.ts:448-455`). When it sets a pool to
  what it was read to be and a flow moved it in between, the move is undone without a row,
  and `merchant_cash_pool_vs_log` reports the difference until the next move
  (`SetUnlogged`).
- Flow B compares a credit with the book and the limit and not with
  `cashout_reserved_amount`, so what a cash-out has reserved can be credited away before
  it is settled. `CashoutCovered` therefore measures the reservation against what the
  merchant took in, not against the book of the moment.

Merchant requests:

- A loser's own 409 `CONCURRENT_REQUEST` is stored when a 5xx has deleted the placeholder
  in between (`lib/merchant-hmac.ts:178` and the insert after it); the reference then
  answers 409 until its row expires, although the 5xx was to leave it free for a retry.

Sessions and sign-in:

- A reused refresh token should revoke every session of its user; the revocation is
  written in the transaction that the refusal then rolls back
  (`services/auth.service.ts:345-349`), so nothing is revoked. The comment at
  `src/apps/web/src/lib/api.ts:115-118` describes what was meant.
- A refresh issues its new token through the pool of connections, before its own COMMIT
  (`services/auth.service.ts:210-220`). A rotation that rolls back leaves two live tokens
  (`OneLiveToken` counts them), and the child of a rotation in flight is not in the
  snapshot of a revocation that began before it, and survives it.
- The comment at `src/apps/web/src/lib/api.ts:121-123` lets a tab that waited for the lock
  take over the tokens of the tab before it; the code refreshes again, with the new cookie.
- Logging out does not take the browser lock: a refresh whose answer arrives after it sets
  the cookie of a live token again.
- A refresh that fails with 500 signs the tab out, like one that is refused.
- The TOTP latch is read and written in two statements (`services/auth.service.ts:717`), so
  two challenges at once may accept one code, and finishing an enrolment may set it back.
  Two confirmations of one reset link may both set a password. `UsedOnce` names these
  cases and excludes every other.

Programmes:

- The platform's economics are read as zero, by element 0 of a row, in profit share and in
  the affiliate costs: the net profit of a new campaign is 0 and so is its pool. Campaigns
  with a pool in the model are rows that exist.
- Publish, cancel and close overwrite each other's status, and two publishes at once lose
  one pool from the carried overhead, or carry one pool twice. `OverheadExplained` excludes
  everything else.
- A claim that finds its allocation expired marks it and throws inside its transaction,
  which takes the mark back (`services/member.service.ts:332`); the job marks it later
  (`AllocationsEnd`).

Database:

- Transactions that take a second connection while they hold one can exhaust the pool of
  twenty (`db/client.ts:39`) for good: twenty withdrawals that have each locked an
  account wait for a connection to pick a merchant, and so does one withdrawal beside
  nineteen requests that wait for the same account with a connection each. No statement,
  lock or idle transaction has a timeout. `TransactionsEnd` is stated with this exception,
  which is reachable in its instance.

## What is not modelled

- The provider ledger: one row per transaction, in the same database transaction, with
  values the transaction's row has.
- Chat and profile-change requests with their one-time codes, permissions, users, method
  maps, exports, AI helpers and merchant self-service: CRUD and read-only reporting.
- `routes/rpc.routes.ts`, `from.routes.ts` and `fn.routes.ts`: they validate input and call
  the services that are modelled.
- Pages and components of the web application, and the seeding, migration and smoke
  scripts. They are most of the repository's lines and keep no rule of the system; the one
  piece of the browser that does, the refresh in `lib/api.ts`, is in `Sessions`.
- PostgreSQL's abort of one of two transactions that wait for
  each other. Two jobs that lock several accounts in different orders
  (`services/payment-code.service.ts:496` and the scan) end that way, and the aborted job
  runs again: in the model a job takes its locks in one step, and an abort is a step not
  taken. In `Connections` a transaction therefore locks one row.
- Eight of the twenty integrity checks (see Integrity), and the settings of TLS.
- Access tokens and their denylist, sign-up, e-mail verification, removal of MFA.
- CRUD of affiliates, links and the referral configuration; points awarded or cancelled by
  the back office, and tiers set by hand.
- Fees: a commission is any constant function of merchant and amount.
- The reporting, hygiene and no-op jobs of the scheduler.

## Plan

Done, in this order: the ledger and flow D with its abstract specification and its
proofs; flow C; flows A and B; the back office; the composition; then the merchant API,
the job runner with the outbox, sessions and the browser, sign-in, cash-out, the
programmes and the pool of connections, and the integrity checks; proofs for each part;
then the lemmas about sums and with them the proofs of the properties that add up, and of
both refinements of `Hold`.

Left, most important first:

1. The loyalty operations of the back office; fees as operators against the documented
   formula.
2. Profile-change codes and the denylist of access tokens.
