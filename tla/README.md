# AetherDust in TLA+

AetherDust sponsors the DUST fees of Midnight transactions: a client hands in a
transaction, the api checks it against a policy and reserves budget for it, and
a worker balances it with the sponsor's DUST, submits it and waits for the
chain. The example dapp is a door with a list: its members enter once, without
saying who they are, and the sponsor pays. This directory holds TLA+ modules
translated from the code under `src/`, TLC configurations that check them on
small instances, and proofs for every size of instance, checked by TLAPS.

`PROJECT.json` lists the components, the runs, the mutants (one plausible bug of
the code for every checked property, which the property catches), the source
lines each definition stands for, the hazards and the theorems.

## The system

| component | state | operations | talks to |
| --- | --- | --- | --- |
| state machine (`packages/core/src/state.ts`) | none | `canTransition`, `TERMINAL`, `HOLDS_RESERVATION` | everything |
| tables (`packages/db`) | rows of requests, budget buckets, usage records, policies, keys | insert, compare-and-swap `transition`, `claimNext`, `listByStatus`, `reserve`, `settle`, `release`, `patchRequest`, `insertUsage` | PostgreSQL |
| api pipeline (`apps/api/src/services`) | none between calls | `createSponsorshipRequest`, `waitForOutcome` | tables, adapter (estimate) |
| worker (`apps/worker`) | `#recovered`, `#inFlight`, timers; a snapshot of a row in every task | `start`, `recover`, `tick`, `reconcile`, `processClaimed`, `submitAndConfirm`, `stop` | tables, adapter |
| sponsor wallet (`packages/midnight`) | coins and their locks in the memory of one process, what has been synchronised, submissions in flight | `start`, `estimateFee`, `sponsor`, `submit`, `waitForConfirmation`, `walletStatus` | node, indexer, wallet SDK |
| remote adapter and internal server | none | `/internal/estimate`, `/internal/status` | api, worker |
| process (`apps/worker/src/main.ts`, watchdog) | the event loop's heartbeat | boot, migrate, listen, start, kill | database, wallet |
| migrations (`packages/db/src/migrate.ts`) | `_aetherdust_migrations`, a session's advisory lock | `migrate` | PostgreSQL |
| gate (`apps/api/src/plugins`, `packages/core`) | counters of the rate limiter | `apiKeyAuth`, `hit`, `evaluatePolicy`, `checkFeeLimit` | tables |
| administration (`apps/api/src/routes/admin.ts`, `admin-cli.ts`) | applications, keys, policy versions | create, suspend, put policy, dry run, create and revoke keys | tables |
| client SDK (`packages/client`) | none | `sponsor`, `waitForOutcome`, `submitTx` | api |
| allowlist contract (`examples/allowlist-dapp/contract`) | leaves, historical roots, nullifiers, tally | `addMember`, `claimAccess` | chain |
| dapp (`examples/allowlist-dapp`) | the page's secret, its private store, its wallet, what it shows | refresh, connect, claim, add members, the operator's script | contract, client SDK, indexer |

What is hard about it. The worker runs many tasks at once, each with a snapshot
of its row taken long before it is used: a task of a failed recovery pass, a
task of the next pass, a claimed task and the reconciler can all drive one
request. The only protection is the compare-and-swap in `transition`. The
process may end anywhere between sponsoring, persisting, submitting and storing
the identifier, or hang inside the wallet SDK; the network may accept a
transaction and report an error, drop it, include it late, or include it with a
failed part; any database call may throw. Status and budget live in different
tables and must never disagree. Coin locks live in a process and are gone when it
restarts, while the transactions that hold the coins are not. The gate reads a
key and a policy once per call and an operator may change both meanwhile. The
page of the dapp reads a public record that others write, through reads that
answer late and in any order.

What makes each part correct:

- tables: the budget buckets are the sums over the requests; limits hold; one
  usage record per confirmed request; statuses follow the table `T`.
- worker: nothing reaches the network before it is persisted; only what the
  chain applied is settled; new work waits for recovery; a request has one
  sponsoring task; every reservation is resolved in the end.
- api: a request is admitted once, a retry gets its own request back, one live
  request per transaction.
- gate: whoever passes held a live key and is judged by a policy in force since
  he called; no sliding window holds more hits than a limit; what is sponsored is
  what was claimed; a dry run tells what the pipeline would.
- wallet: a coin is spent twice only across a restart that met an undrained
  transaction; the sponsor pays fees and nothing else; a verdict is true.
- contract and dapp: each member enters once; a proof outlives the joining of
  others; the page never shows what is not so.

`PROJECT.json` "hazards" lists where each of these could go wrong, with the
property that would show it.

## Modules

| module | models | kind |
| --- | --- | --- |
| `RequestStates` | `packages/core/src/state.ts` | definitions |
| `RequestTable` | requests, budgets and usage tables of `packages/db` | state and operators of one transaction each |
| `SponsorWorker` | `apps/worker` over `RequestTable`, the chain, and the api in one step per transaction | specification |
| `Admission` | `createSponsorshipRequest` of the api, run by any number of calls at once, and its answers | specification |
| `AdmissionOnce` | what the endpoint promises its clients, without calls or lookups | abstract specification |
| `BudgetLocks` | the transactions of `reserve`, `settle` and `release`, statement by statement under row locks | specification |
| `SponsorshipLedger` | what the budget promises, without rows or tasks | abstract specification |
| `Policy` | `packages/core/src/policy.ts`, `checkFeeLimit`, the dry run | definitions |
| `RateLimiter` | `packages/core/src/rate-limit.ts` for one key | definitions |
| `Gate` | authentication, rate limits and policy before the pipeline, and the operator meanwhile; composes `Policy` and `RateLimiter` | specification |
| `AllowlistContract` | the contract of the dapp: its circuits in the browser and on chain | definitions |
| `AllowlistDapp` | the page, the client SDK, the operator's script, the service and the chain around `AllowlistContract` | specification |
| `AllowlistDoor` | what the dapp promises | abstract specification |
| `Migrations` | `packages/db/src/migrate.ts` | state and operators |
| `SponsorWallet` | the life of the worker process, its wallet and coins, the adapter and the node; composes `Migrations` | specification |
| `MCSponsorWorker`, `MCAdmission`, `MCBudgetLocks`, `MCGate`, `MCAllowlistDapp`, `MCSponsorWallet` | values of the constants, symmetry | model checking |
| `SponsorWorkerTypes` | sums of amounts, type correctness, the steps of a status: `StatusesMoveForward`, `ResolvedOnce` | proofs |
| `SponsorWorkerRequests` | `PersistedBeforeSubmit`, `ConfirmedIsIncluded`, and with one worker `OneSponsorPerRequest`, `AttemptsBounded`, `OnlyFailuresOrphan`, `NoOrphans` | proofs |
| `SponsorWorkerAccounts` | `BudgetMatchesRequests`, `WithinLimit`, `UsageMatchesConfirmed`, `EndedIsFinal`, refinement | proofs |
| `AdmissionProofs` | types, `SponsoredOnce`, `OneDriver`, `ConflictIsReal`, `DecidedOnce`, refinement | proofs |
| `AllowlistProofs` | types, the four safety properties of the dapp, refinement | proofs |
| `GateProofs` | types and all properties of `Gate`, `TwiceTheLimit`, `SponsoredIsAllowed` | proofs |
| `BudgetLocksProofs` | types, `NoDeadlock`, `ReservationFits`, `BooksBalance`, `LimitKept`, refinement | proofs |
| `SponsorWalletProofs` | types and the three safety properties of `SponsorWallet` | proofs |

### RequestTable

A row is the tuple `status`, `attempts`, `amount` (`reserved_specks`),
`actualFee`, `periodOf`, `identifier` at one request; rows are numbered in the
order of `created_at`. `TransitionOK` is the guard of `transition`: legal by `T`
and `WHERE status = from`. When it fails the code throws and the transaction
rolls back, so an action that uses it has a second disjunct that changes no
table. `Reserve` and `Adjust` visit the global and the user bucket of a period
in one step, because they always run inside one `withTx`; `BudgetLocks` is where
that is justified. `Less` is `GREATEST(x - y, 0)`.

### SponsorWorker

| action | code |
| --- | --- |
| `Receive`, `Reject`, `Admit` | the three transactions of `createSponsorshipRequest` |
| `ListSponsoring`, `Requeue`, `ListSubmitted`, `ExpireRecovered`, `Resume`, `RecoveryDone`, `RecoveryFails` | `recover()`, statement by statement, and `#ensureRecovered` |
| `Claim` | one iteration of the loop of `tick()` |
| `ReconcileRow` | one row of `reconcile()` |
| `ExpireClaimed`, `BeginSponsor`, `SponsorRetry`, `SponsorFailed`, `Persist` | `processClaimed` |
| `SubmitOK`, `SubmitTransportError`, `SubmitRefused`, `Patch`, `WaitConfirmed`, `WaitFailed`, `WaitTimeout`, `Confirm`, `Fail`, `Park` | `submitAndConfirm` and the adapter's answers |
| `ReconcileExpire`, `ReconcilePending` | the deadline of `reconcile()` |
| `DbError` | a database call of a task throws |
| `Crash` | the process ends, by a fault or at the end of `stop()` |
| `GrowOld`, `Include`, `Drop` | the clock and the network |

A step of a task is one await. `task[<<r, k>>]` is the k-th task that drives
request r, with the status (`from`), the identifier (`ident`) and the attempt of
the snapshot it was started with; a task with `kind = "reconcile"` is not in
`#inFlight`. `phase[w]` says where worker `w` is: `off`, in the first or second
loop of `recover()`, `boot` after a pass that threw, `ready` once `#recovered`.
`todo[w]` holds the snapshots a pass has listed and not yet handled.

Abstractions. The clock is kept per request, relative to its own deadlines
(`fresh`, `closing`, `past`), since no property compares two requests' times.
A reconcile pass is taken row by row in any order, which covers overlapping
passes and passes cut short. The worker's walletStatus (`maxInFlight`) only
makes `Claim` wait. What a merged transaction contains, audit events, metrics
and wallet snapshots are left out. `chain` is one variable per request: the
network has none of its merged transactions, has one in the pool, or has
included one. Wallet coins are in `SponsorWallet`, so two tasks that sponsor one
request share that variable here; `OneSponsorPerRequest` is about exactly that
situation.

### Admission

| action | code |
| --- | --- |
| `Post` | the handler starts, before its first query |
| `FindByKey`, `FindByHash` | the two idempotency lookups |
| `Insert`, `FindAgain` | `insertReceived` with the policy rules R1-R8, and the lookup after a unique violation |
| `Estimate` | `estimateFee` and `checkFeeLimit` |
| `Reserved`, `OverBudget` | the reservation transaction, committed or rolled back |
| `Reject` | the inner function `rejected` |
| `Respond` | the route's answer, after `waitForOutcome` if the client asked to wait |
| `Throws`, `Crash` | a 500, and the end of the api process |
| `Resolve` | what the worker makes of a reserved request, in one step |

A step of a call is one await, so calls interleave between any two statements.
`call[c]` is where call `c` is (`pc`), the request_id and the bytes it came with,
why it rejects (`cause`), and the outcome (`kind`) with the status of the row it
carries (`seen`). A retry is another call with the same key and hash: the code
keeps nothing of an earlier call but the row. A key stands for the pair of
application and request_id.

Abstractions. Policy, fee and budget decide nondeterministically: the properties
are about who is told what, not about which transaction is refused. `Live(h)` is
the set of rows the partial unique index of migration 0002 holds for a
transaction; `Unique` is both constraints, checked at the INSERT as PostgreSQL
does. Calls that end before the first query (undecodable bytes, a missing key, a
rate limit) leave no trace and are left out. A row whose call crashed or threw
between `Insert` and `Reserved` stays `RECEIVED` in the model as in the code: no
part of the system picks it up.

`AdmissionOnce` is the promise of `docs/integration.md` ("Choosing `request_id`
and `user_id`"): a request is opened for one transaction that no other live
request holds, decided once, and every answer is the decision, or `pending` when
it is older than the decision. The refinement maps a row to its verdict and the
answered calls to the set of what was told.

### BudgetLocks

`RequestTable` and `SponsorWorker` take a database transaction as one step. That
is only right if PostgreSQL's row locks make it so, and `BudgetLocks` checks it:
`Program(t)` lists the statements of transaction `t`, `trans[t]` is the next one,
and every statement is a step.

| action | code |
| --- | --- |
| `BeginReserve`, `BeginEnd` | `BEGIN` of the reservation of the api, of `failAndRelease` and `confirmRequest` of the worker |
| `Wait` | the row matches the WHERE clause as committed, and another transaction has written it |
| `Write` | INSERT or UPDATE of one row, its WHERE clause looked at again after a wait |
| `InsertNothing` | `ON CONFLICT DO NOTHING` |
| `Refuse` | no row matches: budget exceeded or stale transition, and the caller rolls back |
| `Commit`, `Abort` | `withTx`: COMMIT, or ROLLBACK, or a connection that breaks |
| `PutPolicy` | a new policy version |

`status` and `bucket` are the committed rows, `lock[x]` and `draft[x]` the writer
of a row and what it wrote. The behaviour of READ COMMITTED is external to the
repository and modelled from PostgreSQL's rules: a statement reads committed rows
and its own writes; a row that does not match is skipped without waiting, one that
matches and is locked is waited for and matched again. A request row only tells
`HELD` (any status of `HOLDS_RESERVATION`), `FREED` and `SETTLED`; the statuses in
between touch no bucket. What a request reserves is `MulCeil(estimate, Unit +
Margin)`, the code's `mulCeil` with a smaller unit than a million: rounding is up,
so that a reservation is never below the estimate and its margin, and the ledger
is checked with amounts that rounding really changes. `shown[b]` is a history:
the newest policy that reserved in bucket b. Other applications and periods share
no rows and are left out.

### Policy, RateLimiter and Gate

| action | code |
| --- | --- |
| `Arrive`, `Malformed`, `FindKey`, `WrongSecret` | `apiKeyAuth`: the header, the one query that joins key and application, the comparison of secrets |
| `ReadPolicy` | the query of the policy in force, and `onRequest` with its limits per credential and per address, or the limit of status reads |
| `ReadStatus`, `InvalidBody`, `Undecodable`, `Garbage` | the GET routes; the schema of the body; bytes that are none; a transaction that `inspect` refuses |
| `Body` | the limit of the user, `evaluatePolicy`, the row |
| `Estimated`, `NoEstimate` | the fee limit and the reservation; an adapter that fails |
| `Confirm` | the worker's settlement, which writes the actual fee to the row |
| `CreateApplication`, `SetStatus`, `CreateApiKey`, `RevokeApiKey` | the admin routes and the command line |
| `PutPolicy`, `InsertVersion`, `TryAgain`, `GiveUp`, `ReadFailure` | `putPolicy`: the version is computed and inserted by one statement, whose uniqueness may fail once and be tried again |
| `Tick`, `Restart` | the clock; the api process starts anew, with empty counters |

`call[c]` is the http call of client c with the row it left; `floor` (the latest
version when it arrived) and `live` (whether its key was live at some moment since)
are histories. `admitted[b]` is the history `RateHolds` is about: the hits on
bucket b that were let through. The clock is the phase of the window in ticks;
`Within` multiplies the estimate and the limit by the window, so that the
fraction of the code becomes whole numbers. `refusal[c]` remembers the last 429
of a client and how often in a row the same bucket refused it after it had waited
`Retry-After`, while nobody else hit that bucket; a client that does not wait is
not counted.

Abstractions. One application. A transaction is the summary the rules read
(calls, deploys, DUST actions, bytes, time left); addresses are compared as the
code compares them, in lower case. Times are those of the row. Fees, budgets and
the adapter answer nondeterministically. Counters of older windows than two are
never read, so the sweep of the store is left out.

### AllowlistContract, AllowlistDapp and AllowlistDoor

| action | code |
| --- | --- |
| `FieldChange`, `ReadFails`, `Render`, `SetSecret` | `refresh()` and its callers: a read of the record, and what the page makes of the answer for the secret it holds then |
| `Connect`, `Disconnect`, `Reload` | the wallet button; the browser loads the page again |
| `ClaimClick`, `AddClick`, `AddCheck` | the two handlers up to `providers()`; the check of the operator's secret and the one read of the list |
| `NoKeys`, `StoreSecret`, `FindContract`, `Found` | proving keys, the private store, `findDeployedContract`, which stores the initial state again |
| `ProveClaim`, `ProveAdd`, `AllAdded` | the circuits on the ledger of this moment, and `submitTx` through the client SDK |
| `PollSettled`, `PollGivesUp` | `waitForOutcome`: a terminal status, the deadline, an error |
| `Close` | the `finally` of a handler and the refresh before it |
| `Include`, `Drop` | external: the service and the chain apply a transaction or never do, and answer either way |
| `ScriptClaim`, `ScriptAdd` | the operator's script, with its own wallet and state |

A Merkle root determines the leaves below it and is modelled as those leaves; a
hash is a tagged tuple, so commitments and nullifiers are in different domains, as
the tag hashed into a nullifier makes them. A proof is what it attests: the leaf,
the root and the nullifier that the circuit makes public. `Accepts` is what the
chain checks again, `Applied` what it then does.

`AllowlistDoor` is the promise: a list that grows, members of it that enter once,
a tally of them. The refinement maps a member to "listed" when the commitment is
a leaf and to "entered" when the nullifier is spent.

### SponsorWallet and Migrations

| action | code |
| --- | --- |
| `Boot`, `Connected`, `Migrate`, `Build`, `Start` | `main.ts`: the database, the migrations, the internal server, the wallet, its synchronisation, `recover()` |
| `MigrateApi` | the api does the same migrations when it starts |
| `Crash`, `Freeze`, `Kill` | the process ends; the event loop never returns; the watchdog finds the heartbeat stale |
| `Ask`, `EstimateFee`, `NotReady`, `WorkerRefuses`, `Unreachable` | the remote adapter, the internal server and `estimateFee` |
| `Tick`, `Claim` | one tick of the worker: `walletStatus` first, then claims up to that capacity |
| `Balance`, `SponsorRetry`, `SponsorFails`, `NotWellFormed`, `TooClose`, `Finalize` | `sponsor()`: the checks before and after it, the coin the SDK locks, the recipe it makes |
| `Submit`, `Replay`, `Refuse`, `SubmitLost`, `SubmitUnclassified`, `Patch` | `submit()` and `submissionError`: delivered, 193 or 1013, a node's error code, a transport error, any other error |
| `Confirm`, `WaitFails`, `WaitTimesOut`, `Reconcile` | the wait for the identifier and the reconciler |
| `See`, `Revert` | external: the wallet synchronises; the SDK gives a coin back |
| `Apply`, `Drop`, `GrowOld` | external: the chain and the clock |
| `RegisterForDust`, `TransferNight` | the operator's wallet command line, a second wallet with the same seed |
| `Lock`, `ApplyFile`, `FileFails`, `Unlock` | `migrate`: the advisory lock, one transaction per file |

A coin is spent by naming its version, and a spend makes the next one: a
transaction whose version is gone can never be applied, which is what a double
spend comes to. `seen` is the wallet's version, `version` the chain's. What the
SDK, the node and the indexer answer is external: any answer. `spend[r].life` and
`refused` are histories. A task that dies in `sponsor()` leaves its coin to the
SDK, which may give it back (`Revert`).

## Runs

| run | instance | what it shows |
| --- | --- | --- |
| `WorkerBudget` | 2 requests of one user, 1 worker, 1 task per request, 1 restart, limit 4, amounts of 1 or 3, fee 2 | `TypeOK`, `WithinLimit`, `NoOrphans`, and the refinement `ImplementsLedger` |
| `WorkerRaces` | 1 request, 2 concurrent tasks, 2 restarts, failing database calls, partial inclusion | accounts, usage, `PersistedBeforeSubmit`, `ConfirmedIsIncluded`, `AttemptsBounded`, `OneSponsorPerRequest` |
| `WorkerLive` | 1 request, 1 restart, failing database calls, fair scheduling | `EventuallyResolved` |
| `WorkerLost` | 1 request, no crash | violates `ExpiredNeverOnChain`, see below |
| `AdmissionRaces` | 3 calls, 2 request_ids, 2 transactions, an api crash, failing calls, symmetric | `TypeOK`, `SponsoredOnce`, `OneDriver`, `ConflictIsReal`, and the refinement `ImplementsOnce` |
| `AdmissionRetry` | 1 call, a sponsor that is unavailable | violates `RetryableMaySucceed`, see below |
| `AdmissionApproved` | 2 calls with one request_id | violates `ApprovedIsQueued`, see below |
| `BudgetRaces` | 2 requests of one user, estimates 1 and 2 and a margin of a half (2 and 3 are reserved), 2 tasks for each, aborts, 2 policy versions with global limits 6 and 3, user limit 5, fee 3 | `TypeOK`, `NoDeadlock`, `ReservationFits`, and the refinement `ImplementsLedger` |
| `BudgetLimit` | 2 reservations, 2 policy versions | violates `LimitReflectsLatest`, see below |
| `GateRaces` | 1 client, 1 key, 1 user, 2 concurrent operators, 2 policies and 1 document that is none, 8 transactions with claims, a window of 2 ticks, limits of 1 to 3 hits | `TypeOK`, `RateHolds`, `RefusedTwiceAtMost`, `AdmittedWasLive`, `JudgedByCurrent`, `PutLosesTwice`, `ClaimIsTheCall`, `DryRunAgrees`, `VersionsGrow` |
| `DappRaces` | the operator and one member, 2 handlers at once, 1 read of the page beside them, the script, a tree of 2 leaves | `TypeOK`, `OneAdmissionEach`, `ProofsSurviveJoins`, `ThroughIsOnChain`, `ShownYesIsTrue`, and the refinement `ImplementsDoor` |
| `WalletRestart` | 2 requests, 1 coin, 2 attempts, 2 migration files, 1 fault (crash, freeze, failed migration or transfer) | `TypeOK`, `DoubleSpendIsUndrained`, `VerdictIsTrue`, `SponsorPaysOnlyFees`, and the liveness `EveryRequestEnds` |

Bounds and why they are enough. Worker: a fee is smaller or larger than the
reservation, so that settlements give back or overspend; the limit leaves room for
a small and a large reservation but not for two large ones; two tasks per request
are enough for every pair of the claimed, the resumed and the reconciling task to
meet; two restarts are enough for a recovery pass to meet the tasks and rows of
another. What a second worker does to the accounts is left to the proofs, which
cover any number.

Admission: three calls over two request_ids and two transactions are enough for a
call to lose a race to a retry of its own request while a third holds its
transaction under another id, or gives it back by a rejection.

Budget: two requests of one user and two tasks for each bring together two
reservations, a reservation and a release, and two releases of one request, on
both buckets that are new or exist already; a third transaction could only wait
for the same rows. Rounding matters for the odd estimate. The global limit of the
first policy has room for both reservations, the user limit exactly so, and that
of the second policy for one; a settlement may charge more than was reserved.

Gate: the properties are about one call, one bucket or one PUT at a time; two
operators are needed for a PUT to lose a race, and two versions to lose twice.
Hits are bounded per window (`MaxHits`: two by
credential and by user, one by address), more than a limit of one and up to a limit
of two.

Dapp: two handlers are enough for two claims, or a claim and an "add members", to
share the private store and to meet the script; a tree of two leaves is full after
the operator's own commitment joined. The proofs remove these bounds.

Wallet: one coin is what two requests compete for, and one fault is enough for two
lives; two attempts for a request to be queued again.

The proofs remove these bounds for the properties they cover.

Deadlock is not checked in these runs: the system may stop when every request
is resolved and nobody restarts the worker, or when every call is answered, or
every request ended; in `Gate` and `AllowlistDapp` the clock and the page never
stop, so that the check would say nothing.

### The finding of WorkerLost

`docs/threat-model.md:64-66` says that "a crash can never lose track of a
possibly-submitted transaction; recovery resubmits them (idempotent) and the
reconciler settles whatever the chain decided". In the code, a `submit()` that
fails with a transport error parks the request as `TIMEOUT` with no identifier
(`process.ts:97-99`), and the reconciler asks the chain only about rows with an
identifier and never resubmits (`worker.ts:62`). If the node had received the
bytes, the transaction is included and its DUST spent while the request goes to
`EXPIRED` and its reservation is released (`worker.ts:79-81`). Only a restart
within TTL plus grace resubmits it. `recover()` also expires old rows without
asking (`worker.ts:31-36`).

### The findings of AdmissionRetry and AdmissionApproved

`docs/integration.md:94` calls `SPONSOR_BALANCE_LOW` and `SPONSOR_UNAVAILABLE`
"Retryable", and the SDK's `retryable` is "True when a later retry of the same
request may succeed" (`packages/client/src/errors.ts:24`). When the fee estimate
fails with one of them, the row becomes `REJECTED` (`sponsorship.ts:79-80`) and a
retry with the same `request_id` is answered with that row, always
(`sponsorship.ts:39-42`). Only a new `request_id` can succeed.

`packages/client/src/client.ts:40` says that `until: 'approved'` resolves "as soon
as the request is accepted and queued". A retry that arrives while the first call
is between its INSERT and its reservation gets the row as it is, `pending`
(`sponsorship.ts:42`), and `settle` throws on `rejected` and `failed` only
(`client.ts:101-104`): `sponsor()` resolves although nothing is queued, and the
request may be refused afterwards.

### The finding of BudgetLimit

The comment at `packages/db/src/budgets.ts:16-17` says that "the current policy limit
is written to the row so it reflects the latest configuration". The limit is that
of the policy read at authentication (`auth.ts:28-30`); lookups and the fee estimate
lie in between. A call authenticated before a policy change that reserves after a
call under the new policy writes the old limit back, and is admitted against it.

### Other divergences met while modelling

No run is about these; the models follow the code.

- `docs/integration.md:90` says to retry after `Retry-After`. Refused hits count
  and the previous window weighs in full when the new one begins, so that the
  first retry may be refused again (`RefusedTwiceAtMost` allows one more refusal)
  and, with a limit of 1, every one.
- `admin.ts:142-144` says summaries and fee estimates "are replayed as they were". A request
  rejected for its fee has no estimate on its row, and a confirmed one is judged by
  the actual fee: the two exceptions in `DryRunAgrees`.
- With several calls, a claim may be matched half by one call and half by another
  (`policy.ts:70-73`); `ClaimIsTheCall` is about policies of single calls.
- `IMPLEMENTATION_PLAN.md:32` and `worker.ts:19` ask to drain persisted bytes before
  new work is balanced. `recover()` starts the resubmissions and does not wait for
  them (`worker.ts:40`); `DoubleSpendIsUndrained` says exactly which double spends
  that leaves.
- `adapter.ts:42` says "still starting (syncing with the network)" only while there is
  no wallet object; it exists before the synchronisation (`adapter.ts:48`), during
  which an estimate is refused for other reasons.
- An error of `submit()` that `submissionError` cannot classify is final
  (`errors.ts:64`), delivered or not.
- The handlers of "claim" and "add members" share one private state
  (`examples/allowlist-dapp/src/main.ts:324`, `:373`): the later write decides whose
  secret a circuit reads. The contract makes it harmless (`OneAdmissionEach`).
- "Add members" reads the list once for all its commitments (`main.ts:379`): one that
  another operator adds meanwhile is added twice, which costs a leaf.
- `connected` is set before the wallet gave its configuration (`main.ts:141-142`).

## Fairness

`WorkerLive` assumes: time passes (`GrowOld`); a supervisor restarts the worker,
and `start()`, the poll loop and the reconcile interval, all timers, run again
and again (weak fairness of `ListSponsoring`, `Claim`, `ReconcileRow`); every
await of a task is answered or times out (weak fairness of `TaskStep`); and a
database statement the code retries on every pass does not fail every time
(strong fairness of the recovery steps, `Confirm`, `Fail`, `ReconcileExpire`).
`Claim` also needs the wallet to have a free DUST coin again and again. Nothing
is assumed of the network: transactions may be dropped or never included. Two
awaits are not bounded in the code, `sponsor()` and `submit()`; a call that
never settles would hold its reservation for ever (see the hazards).

`WalletRestart` assumes weak fairness of `System`: something that can go on by
itself (the code, the network, the clock) does. Crashes, freezes and transfers by
the operator come to an end (`MaxFaults`), a frozen process is killed by the
watchdog, `sponsor()` and `submit()` settle while the loop turns, and the SDK gives
back a coin whose transaction can never be. No single action is favoured: the network
may drop, the indexer may never find. `EveryRequestEnds` is stated of all requests
at once, as "again and again none is waiting"; since an ended request stays ended,
that says the same as one formula per request and is cheaper to check.

## What is proved

For any sets of requests, users, periods, workers and tasks, finite or not, any
limits, amounts, fees, attempts and numbers of crashes. The assumptions are the
ASSUMEs of `RequestTable` (request ids are naturals, the global key is not a
user id, limits are naturals) and of `SponsorWorker` (bounds, amounts and fees
are naturals). For `Admission`: any sets of keys, transactions and calls, and the
ASSUME that the worker ends a request in a terminal status other than REJECTED.

Of `SponsorWorker`:

- `TypeCorrect`: `TypeOK` is inductive as it stands.
- `PersistedBeforeSubmitCorrect`. Not inductive: the bytes about to be sent are
  held by tasks, and tasks are made from snapshots of a recovery pass.
  `PersistInv` adds that every task beyond sponsoring and every snapshot of the
  second recovery loop belongs to a row in `Late`, the statuses that no
  transition leaves towards an unpersisted one (`LateStays`, from `T`).
- `ConfirmedIsIncludedCorrect`, strengthened by `ConfirmingIsIncluded`: a task
  about to confirm has seen an inclusion, and an inclusion is final.
- `BudgetMatchesRequestsCorrect`, `WithinLimitCorrect`. `EffectStep` shows that
  each of the thirty actions does one of four things to the budget: nothing,
  `HoldEffect`, `FreeEffect` or `SettleEffect`, always together with the status.
  A sum of amounts is the cardinality of a set of units (`Total`), so no
  induction over data is needed; `AccountsInv` carries the finiteness of those
  sets, and the truncation in `Less` never happens because a held request's
  units are among those of its bucket.
- `UsageMatchesConfirmedCorrect`, from the same effects.
- `ImplementsLedgerCorrect`: every step is a step of `SponsorshipLedger` or
  stutters. It rests on `AccountsInv` (no truncation) and `FeesPersisted` (the
  fee that is settled is one that sponsoring reported).
- `OneSponsorPerRequestCorrect`, `AttemptsBoundedCorrect`, for one worker process
  (`Workers = {w}`, `MaxAttempts > 0`) and any number of requests, crashes and failed
  queries. Neither is inductive: `AloneInv` adds that a sponsoring task is the only one
  of its row, agrees with it and runs in a worker that has recovered, that whatever
  else runs or was listed by the recovery pass is of a row that has been submitted and
  does not go back, and that a row in the queue, or left in `SPONSORING` by a crash, has
  an attempt left.
- `OnlyFailuresOrphanCorrect`, for one worker: a row in `SPONSORING` or `SUBMITTED`
  loses its task only to a crash or to a failed query of that very task. Every other
  end of a task is shown to move its row on first, which is `AloneInv` again: the
  snapshot a task acts on agrees with its row, or the row is further.
- `NoOrphansCorrect`, for one worker, `~DbFails` and no more requests than `ListLimit`
  (the 100 of `listByStatus`): once recovered, no row in `SPONSORING` or `SUBMITTED` is
  without a task. `DrivenOK` says what the pass still has to come to: in its first loop
  a `SPONSORING` row without a task is listed; in the second only submitted rows can be
  without one, and they are listed. The assumptions are needed: a failed query ends a
  task, and a row that the listing leaves out waits for the next start (see the
  hazards).
- `StatusesMoveForwardCorrect`: "Statuses only ever move forward"
  (`docs/integration.md:80`), of what `publicStatus` makes of a row. `T` has a step
  back, `SPONSORING` to `RESERVED` when sponsoring is tried again: a client does not
  see it.
- `ResolvedOnceCorrect`: what `Admission` takes for its environment (the step `Resolve`
  and the ASSUME on `Endings`) is what the worker does. The two specifications fit.
- `EndedIsFinalCorrect`: a terminal row, its amounts and its usage record never change
  again. A task with a stale snapshot fails at `TransitionOK`, and the record is
  written in the transaction that ends the request.

Of `BudgetLocks`, for any tasks, requests, users, policies and amounts; the
ASSUMEs say that amounts and limits are naturals and that the api's transaction is
none of the worker's tasks:

- `TypeCorrect`, from `Typed`: a row nobody holds is drafted as committed.
- `NoDeadlockCorrect`, from `LockInv`: what a transaction holds lies behind the
  statement it is at (`LocksBehind`), and the request row of a settlement is written
  before the buckets (`Roles`), so a reservation never waits for its request row.
  Rows have three ranks, request, global and user's bucket, and each wait goes
  to a transaction that waits for a row of a later rank (`WaitsLater`): a circle
  would need a fourth.
- `ReservationFitsCorrect`, from `DraftFits`: the limit is checked against the row as
  it is written, after the wait and under its lock, and nobody else changes it before
  the COMMIT.
- `ImplementsLedgerCorrect`: a COMMIT is one step of `SponsorshipLedger`, every other
  step none. `Progress` says of each statement what the transaction has made of its
  rows by then, against the committed version, which its lock holds still; a bucket
  is opened once (`MissingEmpty`) and exists for who settles (`HeldExists`). `SumsOK`,
  a bucket is the sum of what its requests hold, again as the cardinality of a set of
  units, shows that `GREATEST(reserved - amount, 0)` never truncates. The ledger's
  limit is the widest of the policies: a reservation uses the policy its call read.
- `BooksBalanceCorrect`: what a bucket has reserved and settled are the sums over the
  requests that hold and that were charged (`SumsOK`, `FeesOK`), so that nothing drifts
  however many transactions fail or come twice.
- `LimitKeptCorrect`: reserved and settled together exceed the widest limit by at most
  the sum of what the settled fees exceed their reservations by (`Excess`). Inductive
  with `SumsOK` and `FeesOK`: a reservation that commits fits a limit, a release lowers
  the sum, a settlement replaces an amount by its fee. The excess really happens on the
  instance of `BudgetRaces`: without it TLC finds the bound violated there.

Of `Admission`:

- `TypeCorrect`, inductive as it stands; it carries that a call about to answer
  has the status of a row to answer with.
- `SponsoredOnceCorrect`, from `LiveRowsDiffer`, what the partial index says. It is
  inductive because a rejected row never leaves `REJECTED` (`LiveStep`).
- `OneDriverCorrect`, `ConflictIsRealCorrect`. `CallInv` adds what a call knows
  where it is: a driver has its row (`DriverHasRow`), a loser of the race to insert
  has a rival with its key or its bytes (`LoserHasRival`; a rival that is rejected
  later still counts, as its row stays), an outcome is the row or what it was
  before it was decided (`OutcomeIsReal`). `CallStepMoves` says once what any step
  may make of any call, and `RowStep` what it may make of a row.
- `DecidedOnceCorrect`: of the calls with one request_id at most one decides it, and the
  decision stands. A call decides in the step that moves its row out of `RECEIVED`
  (`DecideStep`), and a row never returns there (`DecisionStands`), so that no second call
  finds it undecided.
- `OnceCorrect`: every step is a step of `AdmissionOnce` or stutters, under
  `CallInv` before and after.

Of `AllowlistDapp`, for any secrets, slots, reads and batches and any capacity;
the ASSUMEs say that the operator has one of the secrets, that what he sets up,
types or joins are commitments of secrets, and that the script is none of the
slots. One invariant `Inv` carries all of it, in five parts:

- `DappType`, and `ChainOK`: the present root is in the history, every nullifier is
  that of a listed member, and the tally is their number. A step that spends a
  nullifier is a claim whose path named a historical root.
- `FlightsOK`: a claim under way names a root in the history and the nullifier of a
  listed member. It is what makes `OneAdmissionEach` inductive: the chain checks the
  root and not the list. It gives `ProofsSurviveJoins`, because history only grows.
- `JobsOK`: what a handler that polls or reports success is entitled to.
- `ReadsOK`: every view under way is at most the chain (`Grows`), which gives
  `ShownYesIsTrue` whatever order answers arrive in.
- `DoorCorrect`: every step is a step of `AllowlistDoor` or stutters.

Of `Gate`, for any clients, keys, users, addresses, operators, documents,
transactions, fees and any window; the ASSUMEs say that limits are naturals, that the
calls of a transaction are a sequence, and that the bounds are naturals. `Inv` is
`GateType /\ PutsOK /\ CallsOK /\ BucketsOK /\ RateHolds`:

- `BucketsOK`: what was let through was counted. With it a hit that is let through
  puts the history under the limit of the document it was judged by, and nothing
  else raises the estimate: it falls while a window passes (`EstimateFalls`) and does
  not rise when it ends (`EstimateTurns`). `RateHolds` also keeps that the window before
  fits a limit, as it did at its last hit.
- `TwiceTheLimitCorrect`, from the same: any stretch of one window's length lets through at
  most two limits, the price of estimating the window before as if evenly spread.
- `RefusedTwiceAtMostCorrect`, from `RefusalsOK`: a client that has waited finds no hit in
  the present window; once it was refused again it alone has hit the bucket there, so that
  one hit weighs in the window it tries next, and with a limit of two or more it is let
  through. It speaks of three windows of one bucket, hence `Inv` alone does not give it.
- `CallsOK`: a call knows its key to be live or was witnessed live, its version is at
  least the floor, and its row is as `RowOK` says: the status tells what the policy
  said of it. From it follow `AdmittedWasLive`, `JudgedByCurrent`, `ClaimIsTheCall`
  and `DryRunAgrees`, by `Verdict` (which rule decides) and `AllowedIsTheCall`. From it
  follows `SponsoredIsAllowedCorrect` too, for transactions of many calls: what is reserved
  satisfies each rule, with its own calls and its estimated fee.
- `PutsOK`: a PUT is ahead of the versions by at most one, and ahead of those it read
  first by two after a lost race. It makes versions contiguous (`InsertIsNext`).

Of `SponsorWallet`, for any requests and finite set of coins, any number of files,
attempts and faults. `Inv` adds to the types:

- `SessionsOK`: who holds the advisory lock knows how many files are applied, so that
  the next one is appended and the schema stays a prefix of the files.
- `JobsOK` and `VerdictsOK`: what the await of a task says of its row, and a verdict of
  the chain. `VerdictIsTrue` is not inductive without them: a refused request must
  have no task left that could send its bytes again.
- `AllClean`: `Finalize` accepts one form of merged transaction (`SponsorPaysOnlyFees`).
- `SpentOK`: an applied transaction names a version that is over, also after the
  operator's transfers.
- `LocksOK`, once a wallet is ready: what was applied in an earlier life has been seen
  as spent, and what was balanced in this life holds its coin's lock while the coin is
  in the version it names. Lives begin synchronised (`StartStep`), locks are given back
  only for what can never be sent (`WalletStep`).
- `PairsOK`: `DoubleSpendIsUndrained` for whatever may still become live (`Potential`).
  `BalanceStep` is the one step that makes a new pair; `FreeCoin` says, from `LocksOK`,
  that its rival is of an older life and was not applied when this one began.

Only model-checked: the two liveness properties, `EventuallyResolved` and
`EveryRequestEnds`, which are out of the prover's reach. Properties that a theorem
states and no run lists (`TwiceTheLimit`, `SponsoredIsAllowed`, `OnlyFailuresOrphan`,
`StatusesMoveForward`, `ResolvedOnce`, `EndedIsFinal`, `DecidedOnce`, `BooksBalance`,
`LimitKept`) are defined in the modules that prove them; TLC finds them true on the
instances of the runs as well.

## Not modelled

- Configuration parsing, metrics and logging: read at start or never read back; the
  values that matter are CONSTANTS.
- Audit events, statistics and wallet snapshots: written for people, read by nothing
  that decides.
- `periodBounds`, a function of the clock: a period is a name. That an hourly and a
  daily period that start at midnight have the same key is in the hazards.
- Hashing of keys, comparison of tokens, codecs of transactions, proofs: cryptography
  and formats, modelled by what they attest.
- The mock adapter, which stands in for the network in the repository's tests.
- The dashboard, a view over the admin routes.
- Spikes and scripts: experiments that are no part of the running system.
- Several api containers: each has counters of its own, and a limit holds per
  container. `Restart` covers what that means for one of them.
