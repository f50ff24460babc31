---------------------------- MODULE SponsorWallet ----------------------------
(***************************************************************************)
(* The sponsor wallet (packages/midnight, apps/worker): DUST coins, which  *)
(* one WalletFacade locks in the memory of one worker process, and the     *)
(* merged transactions that spend them.  The process boots, answers the    *)
(* api's estimates, synchronises, recovers, claims, balances, submits; it  *)
(* may be killed at any step, or freeze inside the wallet SDK until the    *)
(* watchdog kills it.                                                      *)
(*                                                                         *)
(* A coin is spent by naming its VERSION; spending makes the next version; *)
(* version 0 is a NIGHT output that is not registered and makes no DUST.   *)
(* The chain's version moves when a transaction is applied, the wallet's   *)
(* (`seen`) when it synchronises.  What the SDK, the node and the indexer  *)
(* answer is external: any answer they may give.  SponsorWorker models the *)
(* tables and the budget; here a row is its status.                        *)
(***************************************************************************)
EXTENDS Migrations, Integers, FiniteSets

CONSTANTS
  Requests,     \* sponsorship requests
  Coins,        \* DUST coins of the sponsor
  Concurrency,  \* AETHERDUST_WORKER_CONCURRENCY
  MaxAttempts,  \* MAX_ATTEMPTS
  Floor,        \* AETHERDUST_MIN_SPONSOR_DUST, in coins
  MaxFaults,    \* crashes, failed synchronisations, freezes and transfers by the
                \* operator in a behaviour (bound)
  Nobody

ASSUME WalletAssumption ==
  /\ Concurrency \in Nat /\ MaxAttempts \in Nat /\ Floor \in Nat /\ MaxFaults \in Nat
  /\ Nobody \notin Requests /\ IsFiniteSet(Coins)
  /\ Starters = {"api", "worker"} /\ Files \in Nat

VARIABLES
  api,       \* whether the api has migrated and listens
  proc,      \* where the worker process is in its life
  frozen,    \* its event loop spins and will never return
  life,      \* how many times a wallet has finished its first synchronisation
  capacity,  \* what the running tick may still claim
  row,       \* row[r]: status of the request
  attempts,  \* row[r].attempts
  ident,     \* requests whose submitted_identifier is stored
  job,       \* job[r]: the await the request's task is at
  spend,     \* spend[r]: the coin and version its last balancing chose, and in which life
  recipe,    \* recipe[r]: what the sponsor added to the persisted transaction
  lock,      \* lock[c]: the request whose sponsorship holds the coin
  seen,      \* seen[c]: version of the coin the wallet knows
  version,   \* version[c]: version of the coin on the chain
  pool,      \* merged transactions the node holds
  applied,   \* applied[r]: 0, or 1 + the life in which its transaction was applied
  aged,      \* requests whose transaction's TTL is over
  refused,   \* requests whose bytes the node has refused (history)
  faults     \* faults so far, a bound

startVars == <<api, schema, session>>
procVars  == <<startVars, proc, frozen, life, capacity>>
rowVars   == <<row, attempts, ident>>
sdkVars   == <<spend, recipe, lock, seen>>
chainVars == <<version, pool, applied, aged>>
vars == <<procVars, rowVars, job, sdkVars, chainVars, refused, faults>>

\* building: listening, no wallet object yet; syncing: the object is there.
Phases == {"down", "connecting", "migrating", "building", "syncing", "ready"}

Queued    == {"asking", "RESERVED", "SPONSORING", "SUBMITTED", "TIMEOUT"}
Ended     == {"REJECTED", "SPONSORING_FAILED", "SUBMISSION_FAILED", "CONFIRMED", "EXPIRED"}
Persisted == {"SUBMITTED", "TIMEOUT", "SUBMISSION_FAILED", "CONFIRMED", "EXPIRED"}

NoSpend == [coin |-> Nobody, version |-> 0, life |-> 0]
Spends  == [coin : Coins, version : Nat, life : Nat]

\* What finalizeRecipe merges into the user's transaction: nothing, or DUST
\* spends, contract actions and value offers.
Recipes == [spends : 0..2, actions : BOOLEAN, offers : BOOLEAN]
Clean   == [spends |-> 1, actions |-> FALSE, offers |-> FALSE]

TypeOK ==
  /\ api \in {"migrating", "up"} /\ MigrationsType
  /\ proc \in Phases /\ frozen \in BOOLEAN /\ life \in Nat /\ capacity \in Nat
  /\ row \in [Requests -> {"new"} \cup Queued \cup Ended]
  /\ attempts \in [Requests -> Nat]
  /\ ident \subseteq {r \in Requests : row[r] \in Persisted}
  /\ job \in [Requests -> {"none", "sponsor", "finalize", "submit", "patch", "wait"}]
  /\ spend \in [Requests -> Spends \cup {NoSpend}]
  /\ recipe \in [Requests -> Recipes]
  /\ lock \in [Coins -> Requests \cup {Nobody}]
  /\ seen \in [Coins -> Nat] /\ version \in [Coins -> Nat]
  /\ \A c \in Coins : seen[c] <= version[c]
  /\ pool \subseteq Requests /\ aged \subseteq Requests /\ refused \subseteq Requests
  /\ applied \in [Requests -> Nat]
  /\ faults \in 0..MaxFaults
  /\ \A r \in Requests : job[r] # "none" => proc = "ready"

Init ==
  /\ api = "migrating" /\ MigrationsInit
  /\ proc = "down" /\ frozen = FALSE /\ life = 0 /\ capacity = 0
  /\ row = [r \in Requests |-> "new"]
  /\ attempts = [r \in Requests |-> 0]
  /\ ident = {}
  /\ job = [r \in Requests |-> "none"]
  /\ spend = [r \in Requests |-> NoSpend]
  /\ recipe = [r \in Requests |-> Clean]
  /\ lock = [c \in Coins |-> Nobody]
  /\ seen = [c \in Coins |-> 0]
  /\ version = [c \in Coins |-> 0]
  /\ pool = {} /\ applied = [r \in Requests |-> 0] /\ aged = {} /\ refused = {}
  /\ faults = 0

Runs(p) == proc = p /\ ~frozen

\* s.dust.availableCoins: generated, and neither locked nor known to be spent.
Free == {c \in Coins : lock[c] = Nobody /\ seen[c] > 0}
MaxInFlight == Cardinality(Free)

-----------------------------------------------------------------------------
(* The process: main.ts, start(), the watchdog *)

\* The database comes first: a synchronisation costs hours.
Boot ==
  /\ proc = "down"
  /\ proc' = "connecting"
  /\ UNCHANGED <<startVars, frozen, life, capacity, rowVars, job, sdkVars, chainVars, refused, faults>>

\* waitForDatabase; when it gives up the process exits, which is a crash.
Connected ==
  /\ proc = "connecting"
  /\ proc' = "migrating"
  /\ UNCHANGED <<startVars, frozen, life, capacity, rowVars, job, sdkVars, chainVars, refused, faults>>

\* The worker's migrations; when one fails the process exits.
Migrate ==
  /\ proc = "migrating"
  /\ \/ (Lock("worker") \/ ApplyFile("worker")) /\ UNCHANGED proc
     \/ Unlock("worker") /\ proc' = "building"
  /\ UNCHANGED <<api, frozen, life, capacity, rowVars, job, sdkVars, chainVars, refused, faults>>

\* The api's, at the same time; it is started again when one fails.
MigrateApi ==
  /\ api = "migrating"
  /\ \/ (Lock("api") \/ ApplyFile("api")) /\ UNCHANGED <<api, faults>>
     \/ Unlock("api") /\ api' = "up" /\ UNCHANGED faults
     \/ FileFails("api") /\ faults < MaxFaults /\ faults' = faults + 1 /\ UNCHANGED api
  /\ UNCHANGED <<proc, frozen, life, capacity, rowVars, job, sdkVars, chainVars, refused>>

\* buildSponsorWallet: a wallet that has seen nothing and locked nothing.
Build ==
  /\ proc = "building"
  /\ proc' = "syncing"
  /\ lock' = [c \in Coins |-> Nobody]
  /\ seen' = [c \in Coins |-> 0]
  /\ UNCHANGED <<startVars, frozen, life, capacity, rowVars, job, spend, recipe, chainVars, refused, faults>>

\* The wallet applies what the indexer reports, in the order of the chain: a
\* spent coin comes back as its next version, unlocked.
See(c) ==
  /\ proc \in {"syncing", "ready"} /\ ~frozen /\ seen[c] < version[c]
  /\ seen' = [seen EXCEPT ![c] = @ + 1]
  /\ lock' = [lock EXCEPT ![c] = Nobody]
  /\ UNCHANGED <<procVars, rowVars, job, spend, recipe, chainVars, refused, faults>>

\* Mutant: whatever has no verdict yet starts over.
RecoveredAll(s) ==
  [r \in Requests |-> IF s[r] \in {"SPONSORING", "SUBMITTED", "TIMEOUT"} THEN "RESERVED" ELSE s[r]]

\* recover(): rows nothing was sent for go back to the queue; of the others the
\* dead expire and the rest are resumed.  It starts those tasks and does not
\* wait for them.
Recovered(s) ==
  [r \in Requests |->
     IF s[r] = "SPONSORING" THEN "RESERVED"
     ELSE IF s[r] \in {"SUBMITTED", "TIMEOUT"} /\ r \in aged THEN "EXPIRED" ELSE s[r]]

Resumed ==
  [r \in Requests |->
     IF row[r] \in {"SUBMITTED", "TIMEOUT"} /\ r \notin aged
     THEN (IF r \in ident THEN "wait" ELSE "submit") ELSE "none"]

Ready ==
  /\ proc' = "ready"
  /\ life' = life + 1
  /\ row' = Recovered(row)
  /\ job' = Resumed
  /\ UNCHANGED <<startVars, frozen, capacity, attempts, ident, sdkVars, chainVars, refused, faults>>

Synced == \A c \in Coins : seen[c] = version[c]

\* Mutant: the worker starts as soon as the wallet object exists.
StartUnsynced == Runs("syncing") /\ Ready

\* adapter.start() returns once waitForSync resolves; worker.start() recovers.
Start == Runs("syncing") /\ Synced /\ Ready

\* All that the process held in memory is gone.
Down ==
  /\ proc' = "down" /\ frozen' = FALSE /\ capacity' = 0
  /\ job' = [r \in Requests |-> "none"]
  /\ lock' = [c \in Coins |-> Nobody]
  /\ Release("worker")
  /\ UNCHANGED <<api, schema, life, rowVars, spend, recipe, seen, chainVars, refused>>

\* A crash, a stop, or the timeout of waitForSync.
Crash == proc # "down" /\ faults < MaxFaults /\ faults' = faults + 1 /\ Down

\* Mutant: the beat that the watchdog compares is bumped by its own thread.
KillBumped == frozen /\ proc = "down" /\ Down /\ UNCHANGED faults

\* The heartbeat is stale: the watchdog kills the process.
Kill == frozen /\ Down /\ UNCHANGED faults

-----------------------------------------------------------------------------
(* The api's estimate: RemoteSponsorAdapter, the internal server, estimateFee *)

\* row[r] is shared with the api, which writes one row at a time.
SetRow(r, s) == row' = [row EXCEPT ![r] = s]

OnlyRow == UNCHANGED <<procVars, attempts, ident, job, sdkVars, chainVars, refused, faults>>

Ask(r) == api = "up" /\ row[r] = "new" /\ SetRow(r, "asking") /\ OnlyRow

\* The internal server has a wallet to ask: the object is enough, nothing asks
\* whether it is synchronised.
Served == Runs("syncing") \/ Runs("ready")

EstimateFee(r) ==
  /\ row[r] = "asking" /\ Served
  /\ MaxInFlight >= 1 + Floor
  /\ SetRow(r, "RESERVED") /\ OnlyRow

RejectEstimate(r) == row[r] = "asking" /\ SetRow(r, "REJECTED") /\ OnlyRow

\* "sponsor wallet is still starting".
NotReady(r) == Runs("building") /\ RejectEstimate(r)

\* No coin to balance with, too little above the floor, a failed estimate: the
\* internal server answers with an error.
WorkerRefuses(r) == Served /\ RejectEstimate(r)

\* Nobody listens, the loop is frozen, or the answer is late: #call gives up.
Unreachable(r) == RejectEstimate(r)

-----------------------------------------------------------------------------
(* Claiming *)

Busy == {r \in Requests : job[r] # "none"}

SetJob(r, pc) == job' = [job EXCEPT ![r] = pc]

\* tick(): walletStatus() is awaited once, and the rows are claimed after it.
Tick ==
  /\ Runs("ready") /\ capacity = 0
  /\ \E r \in Requests : row[r] = "RESERVED"
  /\ \E n \in 1..MaxInFlight :
       /\ n <= Concurrency - Cardinality(Busy)
       /\ n = MaxInFlight \/ n = Concurrency - Cardinality(Busy)
       /\ capacity' = n
  /\ UNCHANGED <<startVars, proc, frozen, life, rowVars, job, sdkVars, chainVars, refused, faults>>

\* The rows follow each other until capacity is used up or claimNext finds none.
Claim(r) ==
  /\ Runs("ready") /\ capacity > 0 /\ row[r] = "RESERVED" /\ job[r] = "none"
  /\ \/ capacity' = capacity - 1
     \/ (\A s \in Requests \ {r} : row[s] # "RESERVED") /\ capacity' = 0
  /\ SetRow(r, "SPONSORING")
  /\ attempts' = [attempts EXCEPT ![r] = @ + 1]
  /\ SetJob(r, "sponsor")
  /\ UNCHANGED <<startVars, proc, frozen, life, ident, sdkVars, chainVars, refused, faults>>

-----------------------------------------------------------------------------
(* sponsor(): balance, check, finalise, check *)

At(r, pc) == Runs("ready") /\ job[r] = pc

\* balanceFinalizedTransaction picks a coin and locks it in this process.
Balance(r, c) ==
  /\ At(r, "sponsor") /\ r \notin aged /\ c \in Free
  /\ lock' = [lock EXCEPT ![c] = r]
  /\ spend' = [spend EXCEPT ![r] = [coin |-> c, version |-> seen[c], life |-> life]]
  /\ SetJob(r, "finalize")
  /\ UNCHANGED <<procVars, rowVars, recipe, seen, chainVars, refused, faults>>

\* The SDK spins on a zero network fee: nothing of the process ever runs again.
Freeze(r) ==
  /\ At(r, "sponsor") /\ faults < MaxFaults
  /\ frozen' = TRUE /\ faults' = faults + 1
  /\ UNCHANGED <<startVars, proc, life, capacity, rowVars, job, sdkVars, chainVars, refused>>

\* What was balanced is forgotten; the coin is not given back here.
GiveUp(r, s) ==
  /\ SetRow(r, s) /\ SetJob(r, "none")
  /\ spend' = [spend EXCEPT ![r] = NoSpend]
  /\ UNCHANGED <<procVars, attempts, ident, recipe, lock, seen, chainVars, refused, faults>>

\* No free coin, no proof server, no node: back to the queue while attempts are
\* left.
SponsorRetry(r) ==
  /\ At(r, "sponsor") \/ At(r, "finalize")
  /\ attempts[r] < MaxAttempts
  /\ GiveUp(r, "RESERVED")

\* The pre-flight with the worker's clock: the TTL may be over by now.
NotWellFormed(r) ==
  /\ At(r, "sponsor") /\ r \in aged
  /\ GiveUp(r, "SPONSORING_FAILED")

SponsorFails(r) ==
  /\ At(r, "sponsor") \/ At(r, "finalize")
  /\ GiveUp(r, "SPONSORING_FAILED")

\* The transition a task ends with compares the status: a row the reconciler
\* has ended stays as it is.
Leave(r, s) ==
  /\ row' = [row EXCEPT ![r] = IF @ \in Ended THEN @ ELSE s]
  /\ SetJob(r, "none")
  /\ UNCHANGED <<procVars, attempts, ident, sdkVars, faults>>

EndJob(r, s) == Leave(r, s) /\ UNCHANGED chainVars

\* processClaimed's first step: too little of the user's TTL is left.
TooClose(r) == At(r, "sponsor") /\ EndJob(r, "EXPIRED") /\ UNCHANGED refused

\* Mutant: only the merged transaction is checked.
IgnoreBalancing(x) == TRUE

\* assertBalancingIsDustOnly; an SDK that balances nothing skips it.
BalancingIsDustOnly(x) == x.spends > 0 => ~x.actions /\ ~x.offers

\* assertSponsorOnlyPaidFees: the user's calls, and exactly one spend more.
SponsorOnlyPaidFees(x) == ~x.actions /\ x.spends = 1

\* The merged bytes are persisted before the network sees them.
Finalize(r, x) ==
  /\ At(r, "finalize")
  /\ BalancingIsDustOnly(x) /\ SponsorOnlyPaidFees(x)
  /\ recipe' = [recipe EXCEPT ![r] = x]
  /\ SetRow(r, "SUBMITTED") /\ SetJob(r, "submit")
  /\ UNCHANGED <<procVars, attempts, ident, spend, lock, seen, chainVars, refused, faults>>

Known(r) == r \in pool \/ applied[r] # 0

\* It may still be submitted, or it is in the pool or in a block.
Live(r) == row[r] \in {"SUBMITTED", "TIMEOUT"} \/ Known(r)

\* The transaction the coin was locked for is being made, or is live.
Holds(r, c) == spend[r].coin = c /\ (job[r] = "finalize" \/ Live(r))

\* What the SDK locks for a transaction that can never be, it gives back.
Revert(c) ==
  /\ Runs("ready") /\ lock[c] # Nobody /\ ~Holds(lock[c], c)
  /\ lock' = [lock EXCEPT ![c] = Nobody]
  /\ UNCHANGED <<procVars, rowVars, job, spend, recipe, seen, chainVars, refused, faults>>

-----------------------------------------------------------------------------
(* submit() and waitForConfirmation() *)

\* Its coin is as it was when the transaction was balanced, and its TTL runs.
Includable(r) == r \notin aged /\ version[spend[r].coin] = spend[r].version

Deliver(r) == Includable(r) /\ ~Known(r) /\ pool' = pool \cup {r}

UnlessDelivered(r) == Deliver(r) \/ UNCHANGED pool

OffChain == UNCHANGED <<version, applied, aged>>

Submit(r) ==
  /\ At(r, "submit") /\ Deliver(r)
  /\ SetJob(r, "patch")
  /\ OffChain /\ UNCHANGED <<procVars, rowVars, sdkVars, refused, faults>>

\* Mutant: the node's "already applied" is a refusal like any other.
ReplayRefused(r) ==
  /\ At(r, "submit") /\ Known(r)
  /\ EndJob(r, "SUBMISSION_FAILED") /\ refused' = refused \cup {r}

\* 193 or 1013: the bytes are on the chain or in the pool; isReplay().
Replay(r) ==
  /\ At(r, "submit") /\ Known(r)
  /\ SetJob(r, "patch")
  /\ UNCHANGED <<procVars, rowVars, sdkVars, chainVars, refused, faults>>

\* A node error code: a spent coin, an expired TTL, a proof that is wrong.
Refuse(r) ==
  /\ At(r, "submit") /\ ~Known(r)
  /\ EndJob(r, "SUBMISSION_FAILED")
  /\ refused' = refused \cup {r}

\* A transport error, and whether the bytes arrived is unknown: parked.
SubmitLost(r) ==
  /\ At(r, "submit") /\ UnlessDelivered(r)
  /\ Leave(r, "TIMEOUT") /\ OffChain /\ UNCHANGED refused

\* An error submissionError() cannot classify is final, delivered or not.
SubmitUnclassified(r) ==
  /\ At(r, "submit") /\ UnlessDelivered(r)
  /\ Leave(r, "SUBMISSION_FAILED") /\ OffChain /\ UNCHANGED refused

Patch(r) ==
  /\ At(r, "patch")
  /\ ident' = ident \cup {r} /\ SetJob(r, "wait")
  /\ UNCHANGED <<procVars, row, attempts, sdkVars, chainVars, refused, faults>>

\* The indexer has the identifier: the transaction is in a block.
Finds(r) == applied[r] # 0

Confirm(r) == At(r, "wait") /\ Finds(r) /\ EndJob(r, "CONFIRMED") /\ UNCHANGED refused

\* A partial success, or an indexer error that is not a transport error.
WaitFails(r) == At(r, "wait") /\ EndJob(r, "SUBMISSION_FAILED") /\ UNCHANGED refused

WaitTimesOut(r) == At(r, "wait") /\ EndJob(r, "TIMEOUT") /\ UNCHANGED refused

\* reconcile(): parked rows, a task that drives one or not.
Reconcile(r) ==
  /\ Runs("ready") /\ row[r] = "TIMEOUT"
  /\ \/ r \in ident /\ Finds(r) /\ SetRow(r, "CONFIRMED")
     \/ r \in ident /\ SetRow(r, "SUBMISSION_FAILED")
     \/ r \in aged /\ SetRow(r, "EXPIRED")
  /\ OnlyRow

-----------------------------------------------------------------------------
(* The chain and the clock *)

Apply(r) ==
  /\ r \in pool /\ Includable(r)
  /\ pool' = pool \ {r}
  /\ applied' = [applied EXCEPT ![r] = life + 1]
  /\ version' = [version EXCEPT ![spend[r].coin] = @ + 1]
  /\ UNCHANGED <<procVars, rowVars, job, sdkVars, aged, refused, faults>>

Drop(r) ==
  /\ r \in pool
  /\ pool' = pool \ {r}
  /\ OffChain /\ UNCHANGED <<procVars, rowVars, job, sdkVars, refused, faults>>

GrowOld(r) ==
  /\ row[r] \in Persisted \cup {"SPONSORING", "RESERVED"} /\ r \notin aged
  /\ aged' = aged \cup {r}
  /\ UNCHANGED <<version, pool, applied, procVars, rowVars, job, sdkVars, refused, faults>>

-----------------------------------------------------------------------------
(* The operator's command line: a wallet of its own, with the same seed *)

\* register-dust: all outputs at once, and only while no coin is there.
RegisterForDust ==
  /\ \A c \in Coins : version[c] = 0
  /\ version' = [c \in Coins |-> 1]
  /\ UNCHANGED faults

\* fund: the transfer pays its fee with a coin that the worker may have locked.
TransferNight(c) ==
  /\ version[c] > 0 /\ faults < MaxFaults
  /\ version' = [version EXCEPT ![c] = @ + 1]
  /\ faults' = faults + 1

Operator ==
  /\ \/ RegisterForDust
     \/ \E c \in Coins : TransferNight(c)
  /\ UNCHANGED <<pool, applied, aged, procVars, rowVars, job, sdkVars, refused>>

-----------------------------------------------------------------------------

\* What goes on by itself: the code, the network and the clock.
System ==
  \/ Boot \/ Connected \/ Migrate \/ MigrateApi \/ Build \/ Start \/ Kill \/ Tick
  \/ \E c \in Coins : See(c) \/ Revert(c)
  \/ \E r \in Requests :
       \/ EstimateFee(r) \/ NotReady(r) \/ WorkerRefuses(r) \/ Unreachable(r) \/ Claim(r)
       \/ \E c \in Coins : Balance(r, c)
       \/ TooClose(r) \/ NotWellFormed(r) \/ SponsorRetry(r) \/ SponsorFails(r)
       \/ \E x \in Recipes : Finalize(r, x)
       \/ Submit(r) \/ Replay(r) \/ Refuse(r) \/ SubmitLost(r) \/ SubmitUnclassified(r)
       \/ Patch(r) \/ Confirm(r) \/ WaitFails(r) \/ WaitTimesOut(r) \/ Reconcile(r)
       \/ Apply(r) \/ Drop(r) \/ GrowOld(r)

Next == System \/ Operator \/ Crash \/ \E r \in Requests : Ask(r) \/ Freeze(r)

Spec == Init /\ [][Next]_vars

FairSpec == Spec /\ WF_vars(System)

-----------------------------------------------------------------------------
(* Properties *)

\* Two transactions that may be or have been included spend the same coin in the
\* same version only across a restart, and only when the older one was still
\* not applied when the new wallet had synchronised: the drain that recover() starts and does not
\* wait for (apps/worker/src/worker.ts:19).  Within a life the SDK's locks, and
\* across lives a full synchronisation before the first claim, keep coins apart.
DoubleSpendIsUndrained ==
  \A r, s \in Requests :
    (/\ r # s /\ Live(r) /\ Live(s)
     /\ spend[r].coin = spend[s].coin /\ spend[r].version = spend[s].version)
    => /\ spend[r].life # spend[s].life
       /\ spend[s].life < spend[r].life => applied[s] = 0 \/ applied[s] > spend[r].life

\* A confirmed request was paid for by its own merged transaction, and one whose
\* bytes the node refused ends failed or expired and is never paid for: "already applied" answers, lost
\* answers and resubmissions after a restart are told apart
\* (packages/midnight/src/midnight/errors.ts:71).
VerdictIsTrue ==
  \A r \in Requests :
    /\ row[r] = "CONFIRMED" => applied[r] # 0
    /\ r \in refused => row[r] \in {"SUBMISSION_FAILED", "EXPIRED"} /\ ~Known(r)

\* Whatever the SDK balances, what reaches the node is the user's transaction
\* and one DUST spend of the sponsor (packages/midnight/src/midnight/checks.ts:36).
SponsorPaysOnlyFees == \A r \in Requests : Known(r) => recipe[r] = Clean

\* Every estimate is answered and every admitted request ends, through crashes,
\* failed synchronisations and an event loop that never returns: as long as
\* these come to an end and the watchdog kills a frozen process.  Said of all
\* requests at once: an ended request stays ended, so that each one ends iff
\* again and again none is waiting.
EveryRequestEnds == []<>(\A r \in Requests : row[r] \notin Queued)
=============================================================================
