# StellarKraal in TLA+

StellarKraal lends tokens against livestock. A Soroban contract
(`contracts/stellarkraal`) holds the collateral records, the loans and the
lending pool; a Node backend (`backend/src`) keeps a record of its own,
builds the transactions wallets sign, runs periodic jobs and notifies
webhooks; a Next.js frontend (`frontend/src`) is the user interface. This
directory holds the formal models of that system, the TLC configurations that
check them on small instances, and proofs about the contract, the backend and
the frontend for instances of every size.

Run `tlc -config LendingCore.cfg MCLending.tla` (and likewise for the other
configurations, see *Runs*) to check, `tlapm LendingSafety.tla` (and likewise for
the other modules of proofs, see *Proofs*) to prove.

## The system: inventory

| Component | State it keeps | Operations | What is hard, what must hold |
|---|---|---|---|
| Lending contract (`lib.rs`) | collateral and loan records, risk and fee parameters, liquidator whitelist and its counter, token balances | `register_livestock`, `update_appraisal`, `request_loan`, `repay_loan`, `liquidate`, parameter setters, `emergency_withdraw` | Calls come in any order from many accounts while the admin changes the terms of open loans; divisions round down; several transfers per call. A closed loan stays closed; nobody is liquidated who was safe under the terms of the loan; tokens are neither lost nor made |
| Emergency pause (`lib.rs`) | flag, expiry, duration | `pause`, `unpause`, `set_pause_duration` | The flag outlives the pause: every entry point compares the clock. No new risk while paused, repayment allowed, a pause ends by itself |
| Governance (`lib.rs`) | admin, pending admin, pending code hash and its time | two-step handover and upgrade | Proposals are replaced, cancelled, accepted or outlive their proposer while the timelock runs |
| Oracles and TWAP (`lib.rs`) | oracle list, quorum, last price, sums | `add_oracle`, `remove_oracle`, `submit_oracle_prices`, `submit_price` | Windows, medians, removal of the last oracle, stale prices |
| Reentrancy guard, storage version, views (`lib.rs`) | a lock, a version | RAII guard, `migrate_storage`, `health_factor` | Calls back from the token contract; `health_factor` is a view that writes |
| Backend store and handlers (`db/store.ts`, `index.ts`) | collateral, loan and transaction tables, reserved collateral | create, repay, delete, restore, appraise, list, preview | Handlers interleave at every `await`; a request that was timed out goes on; pages are read while rows come and go |
| Health factor job (`jobs/healthFactorJob.ts`) | a snapshot of the open loans, alert cooldowns | hourly, and on demand | Writes what it read before an `await`; runs overlap; two cooldowns of the length of its period |
| Reminders (`jobs/repaymentReminderJob.ts`) | the date of the last reminder of each loan | every six hours | Marked after the `await` that sends it; a run that throws |
| Event listener (`contractEventListener.ts`) | last ledger seen, in memory | poll, handle, start, stop | Replays after a restart, pages cut inside a ledger, retention of the RPC, errors swallowed. `index.ts` does not start it |
| Webhooks (`webhooks.ts`) | registrations, delivery log | register, delete, fire, retry | At-least-once delivery, deletion during a retry, lost answers |
| RPC pool, breakers, shutdown (`connectionPool.ts`, `rpcClient.ts`, `index.ts`) | idle and used connections, circuits | acquire, release, close, poll for idleness | Calls their breaker has given up go on and hold a connection; shutdown between two calls of a request |
| Idempotency, deduplication, caches (`middleware`, `utils`) | keyed entries with a lifetime | check, fill, invalidate | Check and fill on two sides of an `await`; what a key leaves out; writes that do not invalidate |
| Sessions (`middleware/auth.ts`, `apiKey.ts`) | challenges, refresh tokens, keys | challenge, login, refresh, revoke | One-time use, rotation, repeated requests |
| Loan service (`services/*.ts`, `routes/v1.ts`) | none of its own | build transactions, notify, record a liquidation | Sequence numbers read at the same time; records written before anything is submitted |
| Migrations (`migrations`, `db/migrationRunner.ts`) | the SQLite schema | up, down | A script stops between two statements and is tried again |
| Rate limits (`middleware/rateLimit.ts`, `useFetchWithRateLimit.ts`) | counters per window | count, refuse, count down | Nested limiters, windows that begin with a request |
| Frontend: transactions, wallet | button states, address in several hooks and in localStorage | build, sign, submit, poll; connect, disconnect, restore | Answers lost or late, timers of former errors, retries by the user |
| Frontend: screens, lists | what is selected and shown; filters, pages, URL | select, poll, debounce, filter, go back, reload | Answers overtake one another; two sources of the same filter |
| Frontend: forms, wizard | drafts in localStorage, wizard steps | type, save, restore, submit, reload | Tabs and accounts share one key; steps are done again |
| Frontend: toasts, dialogs, preferences, rates, counters | timers, flags, caches | see the modules | Overlapping timers, tabs and requests |
| Admin pages, SDK client, service worker, infrastructure | none that matters to the rest | | see `PROJECT.json`, `components` |

How they interact: wallets call the contract with transactions the backend
builds; the contract publishes events that the listener would copy into the
store; the job, the handlers and the listener share the store; the handlers
share the RPC pool and the caches; the frontend asks the backend for
transactions and listings, the wallet for signatures, and the RPC itself for
the fate of what it submitted. The contract and the store are two separate
records of one loan, with separate life cycles.

`PROJECT.json` lists every component with its status, and under `hazards`
what is hard to test in this code, line by line, with the properties that
cover it.

## Modules

| Module | Models | Code |
|---|---|---|
| `LoanLifecycle` | the abstract specification of a loan's status: the table `TRANSITIONS` | `backend/src/loanStateMachine.ts` |
| `Pausable` | the ledger clock and the pause | `lib.rs` 436-495, 1752-1763 |
| `Lending` | the lending core; EXTENDS `Pausable` | `lib.rs` 322-975, 1037-1081, 1284-1410, 1782-1795 |
| `MCLending` | constants of `Lending` for TLC | |
| `LendingProofs` | type correctness of `Lending` | |
| `LendingSafety` | safety theorems of `Lending` and `LoanQuotes`, and that it implements `LoanLifecycle` | |
| `Arithmetic` | lemmas on quotients, finite sums, folds and induction the proofs share | |
| `Governance` | admin handover, upgrades, use of the pause; EXTENDS `Pausable` | `lib.rs` 436-495, 565-587, 1630-1700 |
| `GovernanceProofs` | theorems of `Governance` | |
| `Oracle` | registry of oracles, aggregated price, average price, staleness; EXTENDS `Pausable` | `lib.rs` 322-416, 499-509, 1003-1008, 1257-1274, 1437-1616 |
| `MCOracle` | symmetry of `Oracle` for TLC | |
| `OracleProofs` | theorems of `Oracle` | |
| `LoanDesk` | the backend's store, its handlers and the health factor job | `backend/src/db/store.ts`, `index.ts`, `jobs/healthFactorJob.ts` |
| `LoanDeskProofs` | theorems of `LoanDesk` | |
| `LoanQuotes` | previews and offers of the backend against the contract; EXTENDS `Lending` | `index.ts` 320-355, 561-640, 671-677 |
| `RpcPool` | connections, attempts, circuit breakers | `utils/connectionPool.ts`, `utils/rpcClient.ts` |
| `Requests` | the HTTP server: handlers, timeouts, deduplication, idempotency, shutdown; EXTENDS `RpcPool` | `index.ts`, `middleware/*.ts`, `routes/health.ts` |
| `Sessions` | challenges, refresh tokens, API keys | `middleware/auth.ts`, `apiKey.ts` |
| `EventMirror` | the event listener beside the handlers | `contractEventListener.ts` |
| `Webhooks` | deliveries with retries | `webhooks.ts` |
| `Alerts`, `Reminders` | the two jobs that notify | `jobs/*.ts`, `utils/alerting.ts` |
| `Listings` | pages, caches and a client that reads page after page | `db/store.ts`, `index.ts`, `utils/responseCache.ts` |
| `Appraisals` | one value in the record, its history and two caches | `db/store.ts`, `index.ts`, `utils/appraisalCache.ts` |
| `Migrations` | the SQL scripts, statement by statement | `backend/migrations`, `db/migrationRunner.ts` |
| `LoanService` | the services behind the v1 router, with sequence numbers | `services/*.ts`, `routes/v1.ts` |
| `Gate` | rate limits and the countdown of the form | `middleware/rateLimit.ts`, `routes/v1.ts`, `useFetchWithRateLimit.ts` |
| `RateCurve` | the interest curve | `interestRate.ts` |
| `Backend`, `MCBackend` | the parts of the backend that share no state, and their instance | |
| `BackendProofs` | theorems of the parts of `Backend`, and that it implements each of them | |
| `Submissions` | one transaction from the click to the result | `lib/stellarUtils.ts`, `RepayPanel.tsx`, `LoanForm.tsx`, `useButtonState.ts` |
| `WalletSession` | several instances of the wallet hook | `hooks/useWallet.ts` |
| `Screens` | what is shown of what is selected | `useHealthFactor.ts`, `LoanRepaymentCalculator.tsx`, `TransactionHistory.tsx`, the profile page |
| `ListViews` | filters and pages in the address bar | `useSearchFilter.ts`, `SearchFilterBar.tsx`, the list pages |
| `FormDrafts` | drafts shared by tabs | `CollateralRegistrationForm.tsx`, `useFormAutoSave.ts` |
| `LoanWizard` | the four steps with reloads | `LoanWizardContext.tsx`, `components/wizard` |
| `Toasts`, `Dialogs`, `Preferences`, `Rates`, `Counters` | the smaller stateful parts | `components`, `context`, `hooks` |
| `Frontend` | the parts of the frontend that share no state | |
| `FrontendProofs` | theorems of the parts of `Frontend`, and that it implements each of them | |
| `MCRequests` | a repayment and a liquidation with one body | |

### Lending

A contract invocation is atomic: an `Err` or a panic rolls back everything, so
each entry point is one action whose guard is the conjunction of its checks and
whose effect includes every transfer it makes. `params` is the instance storage
the operations read, `whitelist` and `wlCount` the entries and the counter kept
beside them, `collaterals` and `loans` sequences indexed by the ids that
`next_id` hands out, `balance` the token contract. `terms` and `pool` are
history: the LTV and time a loan was opened under, the interest ever charged to
it, the interest the contract kept and what `emergency_withdraw` took.

Kept: every guard and its operands, integer division, the order interest before
principal, both closing tests, overwriting of a collateral's `loan_id`,
duplicate ids in a request, the accrual at repayment only. Left out, because no
decision of the contract reads them: `appraisal_history`, `hf_history`, the
number of animals, events, TTLs. Overflow is not reached: `checked_` operations
fail on it and `TotalValue` keeps that guard. `Transfer` and the clock are
external. The duplicate definition of `update_appraisal` (`lib.rs` 1099-1143)
is textually the same and is modelled once.

### Governance

The signature of a caller is the action's parameter and `assert_admin` its
guard; `accept_admin_role` and `execute_upgrade` have no such guard.
`proposer` and `proposedAt` are history. The pause is bounded: one that would
outlast the explored clock is not started, so that *a pause lapses* speaks of
pauses that could lapse.

### Oracle

`oracles` is the stored list or `NotSet`; `Registered` is `get_oracles` with its
fallback on the legacy oracle, which `submit_price` accepts and
`update_oracle` replaces. Both feeds write `price`, only the legacy one `twap`;
`averaged` is the history of the prices in the average. A loan is reduced to
whether it is Active, all that `remove_oracle` reads of it, and the history
whether an oracle was registered when it was requested. `flagged_count` is an
answer to the submitter and changes nothing; the admin check is `Governance`'s
subject. An empty list with quorum 0 panics in the median (`mid - 1` on 0 with
overflow checks), so the action is not enabled.

### LoanDesk

An action is the code between two awaits. `creating` holds what
`POST /api/loan/create` carries over its `await buildContractTx`; `job` what
`runHealthFactorJob` carries over its alerts, that is the records
`listActiveLoans` returned and it has yet to visit, in the order of their ids
(`Visit` is one turn of its loop); `holder` says which run of the job has not awaited
since its last loan, so that no handler runs in between. `updateLoan` replaces
a record by a copy with the new fields, hence the snapshot goes stale;
`deletedAt` is set in place. Health factors are kept in whole basis points.

The statuses `repaid` and `liquidated` exist in the type of a loan and no
handler of the running server writes them: `PUT /api/loans/:id/repay` lowers
the amount only, `liquidateLoan` is reachable only through a router that is not
mounted (and by numeric id), and the listener is not started and knows the
contract's ids. `LoanStatus` of the module therefore has the two statuses that
are written.

### LoanQuotes

A preview reads the record of the loan as `get_loan` returns it, without the
interest accrued since the last repayment, and shows no interest at all: it
takes what exceeds the principal in `outstanding` for interest, and
`outstanding` never exceeds it. `QuotesHold` says what a preview is worth all
the same: what a step of `Lending` does to a loan compared with what the
preview announced of it a moment before.

### Requests and RpcPool

A handler is the sequence of RPC calls it awaits (`Handlers`), with the calls
it may do without; between two of them nothing else runs but timers. A call
holds its connection through its attempts. A breaker answers the caller after
ten seconds and lets the call go on without one (`GiveUp`), and the caller of
an answered request goes on too (`TimeOut`). `deduped` and `stored` are the two
stores of answers, filled with the answer and not before. A restart forgets
everything. When a breaker opens depends on the calls of its window, which is
left open: any failure may open it.

### EventMirror, Webhooks, Alerts, Reminders

The listener asks from the ledger after the last one it saw and is answered
with at most a page; the RPC keeps a number of ledgers. Stopping clears the
timer only, so a poll in flight arms it again: two loops may run. The handlers
of some events throw, which is swallowed. A webhook delivery is one of several
attempts; the answer to an attempt may be lost. In `Alerts` a run reaches the
loan some time after it started, and reads the clock twice. In `Reminders` the
constant `Fetched` is what the fetching function returns: the default one
returns a page, of which a run can visit nothing.

### Listings, Appraisals, Migrations

`Listings` follows one table and a client that walks through its pages; some
pages come from the cache, and which writes invalidate it differs from handler
to handler. `Appraisals` follows one value through the four places that hold
it. `Migrations` runs the statements of each script one by one; a run may stop
after any of them, and what was done before stays or is rolled back.

### LoanService, Gate, RateCurve

`LoanService` builds a transaction with the number its account has at that
moment and fires the webhook, or records the liquidation, before anybody signs
it. `Gate` counts the requests of one address in the windows of the limiters
they pass, one after the other; a refused request is counted, those behind it
do not see it. `RateCurve` takes its totals from outside, as nothing in the
code passes it any.

### Frontend

`Submissions`: what is submitted, applied (`mempool`,
`appliedAt`) and known to the RPC (`rpcSecond`) has a time each; the RPC learns of ledgers with a delay and may lose an answer. `excused` is the history
of what the code cannot prevent. `WalletSession`: the hook in the header and on
the page each has its own address; `departed` is the history of accounts that
were disconnected. `Screens`: requests are not cancelled, `overtaken` tells
that an older request was answered last. `ListViews`: `entries` and `at` are the
browser's history, `strayed` that the user moved under a mounted bar.
`FormDrafts`: one key of localStorage for all tabs and accounts. `LoanWizard`:
`registered` and `requested` are what the backend was asked for. `Dialogs`,
`Preferences`: several tabs and one localStorage. `Rates`: a rate is known by
the minute it was taken. `Counters`: one animated number; a value that goes
back, during an animation, to where the last one ended starts none, and a
number in between stays (`cameBack`).

### Backend and Frontend

The parts share no variable. `Backend` and `Frontend` put them side by side: a
behaviour follows one part (`part`, `side`) and leaves the others at their
initial state, so that the run has the sum of their states and not the
product. As no action of one part reads or writes a variable of another, a
property of one part holds of it among the others. Fairness of a part that is
not followed is vacuous, since none of its actions is enabled.

## Runs

One hundred per cent is 1000 basis points and a year is one ledger in the
instances of `Lending`, so that the amounts (9 to 400) give small interest and
fees, some of them rounded down. All guards compare ratios and differences of
a few amounts, so amounts just below, at and above each limit are what matters.

| Run | Bounds | What it shows |
|---|---|---|
| `LendingCore` | 2 users, 2 collaterals, 2 loans over lists of up to 2 ids (repetitions included), 2 timestamps | `LoanStatusSound`, `LockIsLatest` through every order of borrowing, repaying, liquidating and withdrawing. Two loans and two ids are the least that make a lock change hands and a list count twice |
| `LendingRisk` | 2 users, 1 collateral, 1 loan, 3 timestamps, LTVs 45 and 60, thresholds 48 and 80, close factors 50 and 100 per cent, pauses of 1 and 2 | the admin's parameters against an open loan: `LiquidatableOnlyBelowLtv`, `PoolAccounting`, and that the contract implements `LoanLifecycle` |
| `LendingTerms` | 1 user, payments of 9 and 200 against interest of 10 per cent, 4 timestamps, loan limits, caps, reappraisals | `InterestIsSimple`, `HealthDropsOnlyWithThreshold`, and `QuotesHold` of every preview |
| `GovernanceCheck` | 3 addresses, 2 hashes, 5 timestamps, timelock 2, pauses 0 to 2 | `TimelockRespected`, `PauseLapses`. Three addresses let a handover happen while another proposal is pending; the clock allows a proposal, its replacement and both timelocks |
| `OracleFeed` | 4 interchangeable oracles (symmetry), 3 registered at most, 2 prices, 3 timestamps, windows 1 and 2, averages of up to 3 prices, 1 loan; the sort on every list of up to five ranks | `OracleForOpenLoans`, `MinorityCannotMovePrice`. Four addresses for three places reach the limit |
| `DeskPledges` | 1 collateral, 2 concurrent creations, 2 loans, 1 run of the job, 2 appraised values (safe and at risk) | `PledgesInFlight`, `DoublePledgeNeedsRestore` |
| `DeskHealth` | 1 collateral, 2 loans, 2 overlapping runs of the job | `HealthSettles`: a stale health factor is healed by a later run once callers stop |
| `BackendCheck` | see below | the properties of the parts of `Backend` |
| `FrontendCheck` | see below | the properties of the parts of `Frontend` |

The parts of `BackendCheck`, each with the hazard its property is about:

| Part | Bounds | Properties |
|---|---|---|
| requests | 2 requests, 2 calls, a pool of 1 to 2 connections, 2 attempts; a repayment (two calls) and a health check. Two of each are enough for a call that was given up to run beside the call of a later request, and for a pool that is exhausted | `CleanExitWaitsForRpc`: a clean exit abandons no RPC call; `NoRepayAgain`: only overlapping requests prepare one repayment twice, whatever times out |
| sessions | 2 nonces, 3 refresh tokens, 1 key, lifetimes of 1 and 2 | `OneTokenPerLogin`, however often tokens and challenges are presented |
| mirror | 2 loops, 2 events in up to 4 ledgers, pages of 1, a retention of 2 | `EachEventOnce`, `EventsHandled`: what the listener may miss or repeat, and nothing else. A page of one is cut whenever a ledger has two events; a retention of two is outlived by a quiet period |
| webhooks | 1 hook, 2 events, 3 attempts | `NoCopyOnceAccepted` |
| alerts | 6 hours of 4 ticks, delays of up to 2, a lag of 1 | `AlertAtLeastEveryThirdRun`: two cooldowns swallow at most two alerts in a row. Two runs swallowed take three hours |
| listings | 3 rows, pages of 2 | `WalkSeesWhatStays`: which changes make a reader miss a row |
| migrations | the three migrations as they are, any number of failures | `RowsSurvive`: no interrupted or repeated script loses the rows of a table |
| services | 2 calls, batches of 2, 2 ledger transactions of each account | `BatchTakenOnce`: the ledger takes one transaction of a batch |
| gate | a window of 3 ticks, limits of 2 and 3, 3 requests a tick, 4 ticks | `LessThanTwiceTheLimit` in any window's length, across two windows |
| appraisals | 2 values, 3 appraisals | `AppraisalsAgree` |
| curve | 16 curves, amounts of up to 4, a scale of 10 | `RateRises` |

and those of `FrontendCheck`:

| Part | Bounds | Properties |
|---|---|---|
| submissions | 2 clicks, a time bound and polls of 2 seconds, 4 seconds, both kinds of panel | `OneTransaction`: a retry doubles a transaction only in the three cases the comment names |
| wallets | 2 instances, 2 accounts | `DisconnectedStaysAway` |
| screens | 2 subjects, 2 requests in flight | `StaleOnlyIfOvertaken`, and `PolledScreenSettles`: polling heals it |
| drafts | 2 tabs, 2 accounts, 2 texts | `OwnDraftOnly` |
| lists | 2 search texts, 1 chip, 3 history entries, totals of up to 3 | `ListFollowsBar` |
| wizard | 3 values and amounts, 2 ids, 1 reload | `LoansCovered` |
| toasts | 4 toasts, 3 visible | `ToastsLeave` |
| dialogs | 2 tabs, a guide of 2 steps | `GuideLeftAlone` |
| preferences | 2 switches with 2 requests, 2 tabs | `SwitchesShowSaved` |
| rates | 2 amounts, lifetimes of 1 and 2, 3 minutes | `FreshAsTold` |
| counters | 3 values, 2 frames | `CounterSettles` |

Three runs check a statement of the documentation and find it violated; each
is a finding in `PROJECT.json`:

| Run | Statement | What the code does |
|---|---|---|
| `DeskRepaid` | once a loan is fully repaid its collateral can be released (`docs/faq.md`) | the loan stays active, the collateral stays pledged |
| `LowLoanReminded` | the job sends a reminder when the health factor drops below 1.3 (header of `repaymentReminderJob.ts`) | it iterates over the page object of `listLoans` and throws, every time |
| `RequestsDeduplicated` | identical requests are answered from the cache (`deduplication.ts`) | the key has no path: a liquidation is answered with the transaction of a repayment with the same body; all multipart uploads of a user have one key |

Each property of a passing run has a mutant in `PROJECT.json`: an operator
named after the definition it replaces, with the comment *mutant*, that a
plausible mistake in the code would amount to and under which TLC finds the
property violated.

The type invariants of the modules say what the variables range over. Where no
theorem proves one and no cfg lists it, it is documentation.

Deadlock is checked by the runs of the contract and of `LoanDesk`. The runs of
`BackendCheck`, `FrontendCheck`, `LowLoanReminded` and `RequestsDeduplicated`
do not check it: their clocks, ids and numbers are bounded and the part that
is followed really ends there.

### Fairness

`Lending` needs none: it has no liveness property. `Governance` assumes weak
fairness of the clock only: ledgers close whatever anybody does, nobody has to
call the contract. `LoanDesk` assumes that a pending RPC call is answered or
fails (the circuit breaker gives each ten seconds, `rpcClient.ts` 17-25), that
a job which does not await or whose alert was sent goes on (an alert that
cannot be sent is logged and dropped, `alerting.ts`), and that cron starts the
hourly run. Strong fairness is needed because other callbacks use the event
loop in between; the manual trigger and all requests are unfair.
`EventMirror` assumes that an armed timer fires, that a poll ends, and that a
poll repeated for ever is answered for once; events, stops and changes of the
store are unfair. `Screens` assumes that the interval of a mounted screen fires
and that of requests made for ever one is answered; the user is unfair.
`Toasts` assumes that timers fire. `Reminders` assumes that cron starts runs and
that a run goes on: without it the run `LowLoanReminded` would show nothing.

## Where documents and code differ

Met while modelling; those of the three runs above are left out.

Contract: a second loan takes over the lock of the first (`lib.rs` 719;
`docs/protocol/loan-state-machine.md` 49 says all collateral of an Active loan
names it). A past-due loan is not liquidatable (`lib.rs` 864 against the comment
at 992). A reappraisal never changes a health factor (`lib.rs` 707;
`docs/protocol/liquidation.md` 5). The TWAP forgets nothing until a gap longer
than its window (`lib.rs` 1595; `docs/adr/ADR-007-oracle-twap.md` 27). The
quorum is the stored value, not `min(3, oracle_count)`, and a price that is not
positive is an error, not an abstention (`docs/adr/ADR-006-oracle-design.md`).

Backend: the listener matches `collateral_registered`, the contract publishes
`livestock/registered`; its handlers of `loan_repaid` and `loan/liquidated`
read fields the events do not have and throw. The check of the admin role
never passes, as `jwtMiddleware` sets no role. The refresh cookie is set for
`/api/v1/auth/refresh`, the router is mounted at `/api/auth`. The second
handler of `PATCH /api/v1/collateral/:id`, the one that answers 409, and the
second one of the repayment preview are unreachable. `registerWebhook` ignores
its flag `encrypt`. The list of collateral is filtered by animal after it was
cut into pages; the admin pages of the v1 router ask for `pageSize: 1000`, which
`listLoans` does not know, and see twenty loans. The answers
of `/api/loans` and `/api/collateral` are cached and not every write invalidates
them; the summary is never invalidated. `Retry-After` is always the whole window. The
repayment handler writes the loan and then calls functions `index.ts` does not
import.

Frontend: `RepayPanel` sends no idempotency key. The collateral form posts to a
path the backend does not serve. List pages expect arrays and get pages.
`submitSignedXdr` takes every answer but an error for a submission.
`useWallet` takes an object for the permission it asks for. The wizard and the
queueing toasts are mounted nowhere. The panel of shortcuts says that "?"
toggles it; shortcuts are not taken while a dialog is open. `AnimatedCounter`
is said to animate whenever its value changes and does not when it returns
during an animation.

## Proofs

Every safety property the passing runs check is proved, except `RowsSurvive`:
for arbitrary sets of users, addresses, requests, tabs and inputs, and for
arbitrary rates, amounts, limits and bounds. A run of TLC shows a property on
the one instance of its cfg; the theorem shows it for every value of the
constants the assumptions admit. The invariants below were found with TLC and
the prover together: a step that could not be proved named the state that had
to be excluded.

### Assumptions

The proofs rest on the named assumptions on the constants, which TLC evaluates
in every run. Most say that a limit or an amount is a natural number. The
others, and why the code justifies them, are:

| Assumption | Justification |
|---|---|
| a value that stands for absence is none of the values (`None`, `Nobody`, `NotSet`, `NotSent`, `NoData`, `NoBar`, `NoFrame`, `NoRate`, `NoWallet`, `Unset`, `Nought`) | they are `null`, `undefined` or an absent `Option` |
| `Lending`: the contract and the treasury are no users, and not the same address | the contract has no key to sign with; the treasury is an account of its own, set once by `initialize` |
| `Oracle`: `MaxOracles <= ArraySize` | `add_oracle` refuses a sixth one (`lib.rs` 1447), the array that is sorted has five places (1538) |
| `Alerts`: `MaxDelay + MaxLag < Hour` | a run ends before the next one starts; RPC calls and mails are bounded by their timeouts |
| `Submissions`: `Bound <= PollFor` | transactions carry a bound of 30 s, twenty polls take at least that |
| `Gate`: the limiters `"global"` and `"write"` have a limit | `middleware/rateLimit.ts` configures both |
| `Requests`, `RpcPool`: a handler calls what the RPC offers; waiting callers are requests; there are finitely many calls at a time | the handlers of `index.ts`; a call needs a connection |
| `RateCurve`: the parameters of a curve are natural numbers | they are basis points; the kink may lie anywhere |
| `Rates`: there is a currency, `LoanWizard`: fields may be empty | the initial states of the components |

### The contract

| Theorem | States | Argument |
|---|---|---|
| `LendingProofs!TypeInvariant` | `[]TypeOK` | per action; the work is in the transfers (no balance goes below zero, `TransferBalances`, using `ShareBound`) and in the split of a payment (`PaymentSplit`) |
| `LendingSafety!StatusSound` | `[]LoanStatusSound` | from `LoanInv` |
| `!LiquidationNeedsLowerThreshold` | `[]LiquidatableOnlyBelowLtv` | not inductive alone: a payment changes the health factor. `LoanInv` keeps `outstanding * BPS <= value * ltv` of each loan's own terms, which `request_loan` establishes (`LimitIsLtv`) and payments preserve (`ShrinkKeepsLtv`) |
| `!ClosedForGood`, `!LiquidatedNeedsFullCloseFactor` | `ClosedLoansFrozen`, `ClosingNeedsFullCloseFactor` | the actions that write a loan test its status (`LoanFrame`); a share of less than one hundred per cent of a positive amount is less than it |
| `!SimpleInterest` | `[]InterestIsSimple` | `InterestInv` bounds what was charged by the principal, the highest rate and the time up to the *last accrual*; one accrual adds at most its own stretch (`AccrualBound`), so the way repayments cut the time does not matter |
| `!LatestLock` | `[]LockIsLatest` | `LockInv`: no loan lists a collateral that does not exist yet, every listing loan is no newer than the lock, and a lock names a loan that lists it. Needs that a repeated id in one request changes nothing |
| `!PoolBalances` | `[]PoolAccounting` | the fold over the loans is a sum on a finite set (`TotalIsSum`); a step adds a loan (`SumUnion`) or changes one (`SumExcept`), and the transfers move as much |
| `!HealthNeedsLowerThreshold` | `HealthDropsOnlyWithThreshold` | a health factor is a quotient that grows with the threshold and falls with the debt (`HealthGrows`), and the debt of an open loan only shrinks |
| `!QuotesAreKept` | `QuotesHold` | with `LoanInv`: the cap of a preview leaves at least what the contract leaves (`CapIsOptimistic`, `PreviewHolds`), and the fee of an estimate is the fee of the contract (`EstimateHolds`) |
| `!ImplementsLifecycle` | `LifecycleSpec` | the refinement of `LoanLifecycle`: `Init` maps to its `Init`, every step to a transition of the table or a stutter; the guards on the status of a loan decide which |
| `!WhitelistCount` | `[]WhitelistCounted` | with finiteness of the whitelist as strengthening (`WhitelistInv`) |
| `GovernanceProofs!HandoverByChoice`, `!UpgradeWaits` | `[]ProposalIsAdmins`, `TimelockRespected` | strengthened: the stored time is the time of the last proposal of the pending hash (`PendingTimed`) |
| `OracleProofs!RegistryStaysSound`, `!LastOracleStays` | `[]RegistrySound`, `[]OracleForOpenLoans` | `RemoveAt` keeps a list without repetitions; a removal that leaves nothing had one oracle before, so the guard looked at the loans |
| `!AverageWithinObservations` | `[]TwapWithinObservations` | `AverageInv` keeps the sum between count times the lowest and count times the highest price (`ExtremeShift`); `QuotientBounds` brings that to the quotient |
| `!MinorityIsHeld`, `!RecordedPriceIsHeld` | `[]MinorityCannotMovePrice`, `RecordedPriceHeld` | the two nested loops of the sort are folds: each comparison and each pass keeps a rearrangement of the prices (`Moved`, `PassMoves`), after `k` passes the first `k` places hold the least in order (`SortedRises`), and a majority cannot fit beside the middle (`OneIsGood`, by the pigeonhole principle), so two of it enclose the median (`MedianRobust`) |
| `!OracleTypes` | `[]OracleTypeOK` | the conjunction of the invariants above with `FeedType` |

### The backend

| Theorem | States | Inductive invariant |
|---|---|---|
| `LoanDeskProofs!PendingPledgesExact`, `!NoDoublePledge` | `[]PledgesInFlight`, `[]DoublePledgeNeedsRestore` | `PledgeInv`: also an open loan of a collateral that is being pledged was restored (`PledgedByRestored`); a creation in flight found none open when it reserved, and what may open one behind its back is the restoration |
| `BackendProofs!BackendImplementsItsParts` | `BackendSpec` implies the specification of each part | a step of the composition is a step of one part and leaves the variables of the others alone; with it, each theorem below holds of the whole |
| `!OneSessionPerLogin` | `[]OneTokenPerLogin` | `SessionInv`: the login of a token was drawn and its challenge is consumed, so no second token comes of it |
| `!AppraisalsStayTogether` | `[]AppraisalsAgree` | `AppraisalInv` |
| `!AcceptedOnce` | `NoCopyOnceAccepted` | `WebhookInv`: an entry marked as delivered is over, an attempt under way has made no copy, and events not fired have no entry |
| `!ThirdRunAlerts` | `[]AlertAtLeastEveryThirdRun` | `AlertInv`: after one quiet run the last alert is two hours old, after two it is three hours old and the entry of the cooldown two (each but for delay and lag), so neither cooldown holds a third |
| `!OneOfABatch` | `[]BatchTakenOnce` | `ServiceInv`: no transaction is ahead of its account by more than one; once one of a call was taken, none of that call is ahead |
| `!CleanExits`, `!RepaysPreparedOnce` | `[]CleanExitWaitsForRpc`, `NoRepayAgain` | `RequestsInv`: a connection is used by exactly the running calls, a handler waits for exactly one call while it is at one (`Linked`), and what was prepared is stored |
| `!EventsOnce` | `[]EachEventOnce` | `MirrorInv`: events are in the order of their ledgers, none is handled that is ahead of the listener, and a single loop asks for what follows its position |
| `!TwiceTheLimit` | `[]LessThanTwiceTheLimit` | `GateInv`: the requests of a window are no more than were counted and than the limit; the first request of a window is its start, so of any minute that overlaps it the part before it holds less than the limit |
| `!WalksMissNothing` | `[]WalkSeesWhatStays` | `ListingsInv`: a cached page that nothing overtook is what the store would answer, and the walk has seen all rows whose rank the pages it has read cover |
| `!RateNeverFalls` | `RateRises` | `CurveMonotone`: both parts are monotone quotients, and below the kink the flat part is at most what it is at the kink |

### The frontend

| Theorem | States | Inductive invariant |
|---|---|---|
| `FrontendProofs!FrontendImplementsItsParts` | `FrontendSpec` implies the specification of each part | as for the backend |
| `!TransactionsAppliedOnce` | `[]OneTransaction` | `SubmissionInv`: unless excused, one submission has not failed, and the transaction of one that has failed is past its time bound, so it can no longer be applied. This is where `Bound <= PollFor` enters |
| `!DisconnectedAccountsStayAway` | `[]DisconnectedStaysAway` | `WalletInv`: also what a hook is *about to restore* was there before, and what is persisted was not disconnected |
| `!ScreensShowSelected` | `[]StaleOnlyIfOvertaken` | `ScreenInv`: a screen waits for the answer asked for last (`LastAskedFor`) or shows the selection and expects late answers only |
| `!DraftsStayWithTheirAccount` | `[]OwnDraftOnly` | `DraftInv`: form, saved draft and offer of each tab belong to its account, or the tab has crossed accounts |
| `!FiltersAreTheBars` | `[]ListFollowsBar` | `ListInv`: what waits to be written into the URL is what the bar shows |
| `!WizardLoansCovered` | `[]LoansCovered` | `WizardInv`: what each step has established (`Established`), and that an id on the ledger never gets another value |
| `!SwitchesAreSaved` | `[]SwitchesShowSaved` | `PreferenceInv`: a request that is alone has the backend's answer and would be rolled back to what the backend has |
| `!FreshRates` | `[]FreshAsTold` | `RateInv`: rates are dated no later than they were taken, requests made no later than answered, and the warning was honest at the rendering |
| `!CountersSettle` | `[]CounterSettles` | `CounterInv`: an animation runs towards the value; at its last frame the quotient is exact (`WholeWay`) |
| `!GuideStaysAway` | `GuideLeftAlone` | `DialogInv` |

### How the induction over data is done

The library's induction theorems take an operator as a parameter, which the
installed provers cannot instantiate. `Arithmetic` states induction with a
*set* in its place (`UpToInduction`, `SubsetInduction`): `DEFINE` the set of
the numbers, or subsets, for which the statement holds and show that it is all
of them. The recursive function of a fold is a `CHOOSE`; that a function with
its equations exists is proved in the same way, by initial segments
(`PartialSumsExist`, `LeftFoldExists`), and that its values are determined
(`PartialSumsAgree`). From there on a fold has the laws one expects:
`SumRemove`, `SumAdd`, `SumExcept`, `SumMonotone`.

### Proved and checked by no run

`TypeOK` of `Lending` and `LoanDesk`, `WebhooksTypeOK`, `OracleTypeOK`; `ClosedLoansFrozen`, `ClosingNeedsFullCloseFactor`,
`WhitelistCounted`, `ProposalIsAdmins`, `RegistrySound`,
`TwapWithinObservations`, `RecordedPriceHeld`.

### Only model-checked

All liveness properties (`PauseLapses`, `HealthSettles`, `EventsHandled`,
`PolledScreenSettles`, `ToastsLeave`): liveness under fairness is out of the
prover's reach. `RowsSurvive`: the statements of the migrations are data, with
no bound or set to generalise over, and TLC explores all of their states. The
three runs that find a statement violated show a behaviour, for which there is
nothing to prove.

## Plan

1. Proofs: the rest of the type invariants (`RequestsInv`, `GovernanceInv` and
   most others contain theirs; state them as theorems of their own where a
   reader looks for them), the step invariants of `Reminders`, and a proof of
   `RowsSurvive` over any list of migrations.
2. The rolling logs of the contract; the accrual functions of
   `interestRate.ts` once something calls them.

## Not modelled

Validation of request bodies beyond whether one is valid, formatting, logging,
metrics, CORS and headers, PDF and CSV output, summaries and exports that only
read, TTLs of contract storage, Terraform, dashboards and scripts: they keep no
state that a decision of the system reads. The reentrancy guard of the contract
is never met, as the host lets no contract be entered again.
`transfer_collateral` is a placeholder without code. `stellarKraalSdk.ts` is a
set of stateless builders that no page uses. The admin pages keep their lists
to themselves and call nothing; the component that registers the service worker
is not mounted; the server at the root of the repository is a fragment. The
remaining components of the frontend render what they are given.
