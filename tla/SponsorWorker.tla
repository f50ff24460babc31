---------------------------- MODULE SponsorWorker ----------------------------
(***************************************************************************)
(* The sponsorship worker (apps/worker): claiming, sponsoring, submitting, *)
(* confirming, recovery after a restart and the reconciler, over the       *)
(* tables of RequestTable and in front of a chain that answers when it     *)
(* likes.                                                                  *)
(*                                                                         *)
(* A worker process runs many tasks concurrently.  Each task drives one    *)
(* request with a SNAPSHOT of its row taken when the task began (`from`,   *)
(* `ident`, `attempt`): the row may have moved on when the task uses it.   *)
(* A step of a task is one await: a call of the adapter, or one database   *)
(* transaction with everything it writes.                                  *)
(*                                                                         *)
(* The api is present as three atomic steps (Receive, Reject, Admit).      *)
(***************************************************************************)
EXTENDS RequestTable

CONSTANTS
  Workers,       \* worker processes
  Copies,        \* names for the concurrent tasks on one request (bound)
  Concurrency,   \* AETHERDUST_WORKER_CONCURRENCY
  MaxAttempts,   \* MAX_ATTEMPTS
  ListLimit,     \* the LIMIT of listByStatus
  WithTtl,       \* requests whose transaction carries an intent TTL
  Amounts,       \* amounts the api may reserve (bound)
  Fees,          \* fees the sponsor may pay (bound)
  Outcomes,      \* what an included transaction may turn out to be (bound)
  MaxCrashes,    \* worker crashes in a behaviour (bound)
  DbFails        \* whether a database call of a worker may throw

ASSUME BoundsAssumption ==
  /\ Concurrency \in Nat /\ MaxAttempts \in Nat /\ ListLimit \in Nat /\ MaxCrashes \in Nat
  /\ Amounts \subseteq Nat /\ Fees \subseteq Nat
  /\ Outcomes \subseteq {"ok", "partial"} /\ DbFails \in BOOLEAN

VARIABLES
  phase,         \* phase[w]: where worker w is in its life and its recovery pass
  timers,        \* workers whose reconcile interval is armed
  todo,          \* todo[w]: the rows the recovery pass has listed and not yet handled
  task,          \* task[<<r, k>>]: the k-th task driving request r
  age,           \* age[r]: the clock, relative to the deadlines of r
  chain,         \* chain[r]: what the network did with the merged transaction of r
  crashes        \* crashes so far, a bound

workerVars == <<phase, timers, todo, task>>
worldVars  == <<age, chain, crashes>>
vars       == <<status, attempts, amount, actualFee, periodOf, identifier, reserved, settled, usage,
                phase, timers, todo, task, age, chain, crashes>>

(***************************************************************************)
(* off: not running; boot: the last recovery pass failed; requeue, resume: *)
(* in the first and the second loop of recover(); ready: #recovered.       *)
(***************************************************************************)
Phases == {"off", "boot", "requeue", "resume", "ready"}

(***************************************************************************)
(* fresh: more than the TTL headroom is left; closing: less than that;     *)
(* past: the TTL (for a request without one: an hour from creation) and    *)
(* the confirmation grace period have elapsed.                             *)
(***************************************************************************)
Ages == {"fresh", "closing", "past"}

(***************************************************************************)
(* none: never seen, or dropped; pool: accepted; ok: included and applied  *)
(* entirely; partial: included, with a failed part (the fee is spent).     *)
(***************************************************************************)
ChainStates == {"none", "pool", "ok", "partial"}

Idle == [pc |-> "idle"]

Pcs == {"check", "sponsor", "submit", "patch", "wait", "confirm", "fail", "park", "deadline"}

Tasks == [pc : Pcs, kind : {"worker", "reconcile"}, worker : Workers,
          from : HOLDS_RESERVATION, ident : BOOLEAN, attempt : Nat]

Snapshots == [request : Requests, from : HOLDS_RESERVATION, ident : BOOLEAN]

Slots == Requests \X Copies

TypeOK ==
  /\ TableTypeOK
  /\ phase   \in [Workers -> Phases]
  /\ timers  \subseteq Workers
  /\ todo    \in [Workers -> SUBSET Snapshots]
  /\ task    \in [Slots -> Tasks \cup {Idle}]
  /\ age     \in [Requests -> Ages]
  /\ chain   \in [Requests -> ChainStates]
  /\ crashes \in 0..MaxCrashes

Init ==
  /\ TableInit
  /\ phase   = [w \in Workers |-> "off"]
  /\ timers  = {}
  /\ todo    = [w \in Workers |-> {}]
  /\ task    = [s \in Slots |-> Idle]
  /\ age     = [r \in Requests |-> "fresh"]
  /\ chain   = [r \in Requests |-> "none"]
  /\ crashes = 0

-----------------------------------------------------------------------------
(* The api, each request in one step per database transaction *)

Receive(r) ==
  /\ InsertReceived(r)
  /\ UNCHANGED <<attempts, amount, actualFee, periodOf, identifier, budgetVars, usage, workerVars, worldVars>>

Reject(r) ==
  /\ TransitionOK(r, "RECEIVED", "REJECTED")
  /\ MoveTo(r, "REJECTED")
  /\ UNCHANGED <<attempts, amount, actualFee, periodOf, identifier, budgetVars, usage, workerVars, worldVars>>

\* The reservation and the transition commit together.
Admit(r, p, a) ==
  /\ TransitionOK(r, "RECEIVED", "RESERVED")
  /\ Reserve(r, p, a)
  /\ MoveTo(r, "RESERVED")
  /\ amount'   = [amount EXCEPT ![r] = a]
  /\ periodOf' = [periodOf EXCEPT ![r] = p]
  /\ UNCHANGED <<attempts, actualFee, identifier, usage, workerVars, worldVars>>

-----------------------------------------------------------------------------
(* Time and the network *)

GrowOld(r) ==
  /\ status[r] # ABSENT /\ age[r] # "past"
  /\ age' = [age EXCEPT ![r] = IF age[r] = "fresh" THEN "closing" ELSE "past"]
  /\ UNCHANGED <<tableVars, workerVars, chain, crashes>>

\* A transaction whose intents have expired cannot enter a block.
Includable(r) == r \in WithTtl => age[r] # "past"

Include(r, outcome) ==
  /\ chain[r] = "pool" /\ Includable(r)
  /\ chain' = [chain EXCEPT ![r] = outcome]
  /\ UNCHANGED <<tableVars, workerVars, age, crashes>>

Drop(r) ==
  /\ chain[r] = "pool"
  /\ chain' = [chain EXCEPT ![r] = "none"]
  /\ UNCHANGED <<tableVars, workerVars, age, crashes>>

-----------------------------------------------------------------------------
(* A worker's life: start, recover, claim, reconcile, crash *)

SnapshotOf(r) == [request |-> r, from |-> status[r], ident |-> identifier[r]]

\* Mutant: the SELECT without its WHERE.
ListAll(statuses) == {SnapshotOf(r) : r \in Oldest(Requests, ListLimit)}

ListByStatus(statuses) == {SnapshotOf(r) : r \in Oldest(InStatus(statuses), ListLimit)}

NewTask(w, kind, at, sn, n) ==
  [pc |-> at, kind |-> kind, worker |-> w, from |-> sn.from, ident |-> sn.ident, attempt |-> n]

Spawn(r, k, t) ==
  /\ task[<<r, k>>] = Idle
  /\ task' = [task EXCEPT ![<<r, k>>] = t]

\* Tasks in #inFlight: the claimed and the recovered, not the reconciler's.
InFlight(w) == {s \in Slots : task[s] # Idle /\ task[s].kind = "worker" /\ task[s].worker = w}

\* start(), or the tick() after a failed pass: recover() begins.
ListSponsoring(w) ==
  /\ phase[w] \in {"off", "boot"}
  /\ phase' = [phase EXCEPT ![w] = "requeue"]
  /\ todo'  = [todo EXCEPT ![w] = ListByStatus({"SPONSORING"})]
  /\ UNCHANGED <<tableVars, timers, task, worldVars>>

\* recover() ends: with an exception, or done.  Either way start() goes on and
\* arms the reconcile interval.
EndRecovery(w, next) ==
  /\ phase'  = [phase EXCEPT ![w] = next]
  /\ todo'   = [todo EXCEPT ![w] = {}]
  /\ timers' = timers \cup {w}

Requeue(w, sn) ==
  /\ phase[w] = "requeue" /\ sn \in todo[w]
  /\ \/ /\ TransitionOK(sn.request, sn.from, "RESERVED")
        /\ MoveTo(sn.request, "RESERVED")
        /\ todo' = [todo EXCEPT ![w] = @ \ {sn}]
        /\ UNCHANGED <<phase, timers>>
     \/ /\ ~TransitionOK(sn.request, sn.from, "RESERVED")
        /\ EndRecovery(w, "boot")
        /\ UNCHANGED status
  /\ UNCHANGED <<attempts, amount, actualFee, periodOf, identifier, budgetVars, usage, task, worldVars>>

\* Mutant: the second loop lists what the reconciler lists.
ListTimeouts(w) ==
  /\ phase[w] = "requeue" /\ todo[w] = {}
  /\ phase' = [phase EXCEPT ![w] = "resume"]
  /\ todo'  = [todo EXCEPT ![w] = ListByStatus({"TIMEOUT", "UNKNOWN"})]
  /\ UNCHANGED <<tableVars, timers, task, worldVars>>

ListSubmitted(w) ==
  /\ phase[w] = "requeue" /\ todo[w] = {}
  /\ phase' = [phase EXCEPT ![w] = "resume"]
  /\ todo'  = [todo EXCEPT ![w] = ListByStatus(PossiblySubmitted)]
  /\ UNCHANGED <<tableVars, timers, task, worldVars>>

TooOld(r) == r \in WithTtl /\ age[r] = "past"

\* The TTL and the grace period are gone: the row expires, the chain is not asked.
ExpireRecovered(w, sn) ==
  LET r == sn.request
  IN  /\ phase[w] = "resume" /\ sn \in todo[w] /\ TooOld(r)
      /\ \/ /\ TransitionOK(r, sn.from, "EXPIRED")
            /\ MoveTo(r, "EXPIRED")
            /\ Release(r)
            /\ todo' = [todo EXCEPT ![w] = @ \ {sn}]
            /\ UNCHANGED <<phase, timers>>
         \/ /\ ~TransitionOK(r, sn.from, "EXPIRED")
            /\ EndRecovery(w, "boot")
            /\ UNCHANGED <<status, budgetVars>>
      /\ UNCHANGED <<attempts, amount, actualFee, periodOf, identifier, usage, task, worldVars>>

\* submitAndConfirm on the listed row: the identifier, if the row has one, is
\* waited for at once.
Resume(w, sn, k) ==
  LET r == sn.request
  IN  /\ phase[w] = "resume" /\ sn \in todo[w] /\ ~TooOld(r)
      /\ Spawn(r, k, NewTask(w, "worker", IF sn.ident THEN "wait" ELSE "submit", sn, attempts[r]))
      /\ todo' = [todo EXCEPT ![w] = @ \ {sn}]
      /\ UNCHANGED <<tableVars, phase, timers, worldVars>>

RecoveryDone(w) ==
  /\ phase[w] = "resume" /\ todo[w] = {}
  /\ EndRecovery(w, "ready")
  /\ UNCHANGED <<tableVars, task, worldVars>>

\* A query of the pass throws.  The tasks it has already tracked stay.
RecoveryFails(w) ==
  /\ DbFails /\ phase[w] \in {"requeue", "resume"}
  /\ EndRecovery(w, "boot")
  /\ UNCHANGED <<tableVars, task, worldVars>>

\* The UPDATE of claimNext and the task it starts.
ClaimNext(w, k) ==
  /\ Cardinality(InFlight(w)) < Concurrency
  /\ \E r \in Oldest(InStatus({"RESERVED"}), 1) :
       /\ MoveTo(r, "SPONSORING")
       /\ attempts' = [attempts EXCEPT ![r] = @ + 1]
       /\ Spawn(r, k, NewTask(w, "worker", "check",
                              [request |-> r, from |-> "SPONSORING", ident |-> identifier[r]],
                              attempts[r] + 1))
  /\ UNCHANGED <<amount, actualFee, periodOf, identifier, budgetVars, usage, phase, timers, todo, worldVars>>

\* Mutant: tick() goes on when the recovery pass has failed.
ClaimUnrecovered(w, k) == phase[w] \in {"boot", "ready"} /\ ClaimNext(w, k)

\* One iteration of the loop of tick().
Claim(w, k) == phase[w] = "ready" /\ ClaimNext(w, k)

\* Mutant: rows without an identifier are skipped altogether.
ReconcileIdentified(w, r, k) ==
  /\ w \in timers /\ identifier[r]
  /\ r \in Oldest(InStatus({"TIMEOUT", "UNKNOWN"}), ListLimit)
  /\ Spawn(r, k, NewTask(w, "reconcile", "wait", SnapshotOf(r), attempts[r]))
  /\ UNCHANGED <<tableVars, phase, timers, todo, worldVars>>

\* One row of a reconcile pass.  A pass lists its rows and goes through them
\* in turn, passes overlap, and an exception ends one: rows taken one by one,
\* in any order, any number of times, cover all of it.
ReconcileRow(w, r, k) ==
  /\ w \in timers
  /\ r \in Oldest(InStatus({"TIMEOUT", "UNKNOWN"}), ListLimit)
  /\ Spawn(r, k, NewTask(w, "reconcile", IF identifier[r] THEN "wait" ELSE "deadline",
                         SnapshotOf(r), attempts[r]))
  /\ UNCHANGED <<tableVars, phase, timers, todo, worldVars>>

\* The process ends, however: stop() awaits the tasks then in flight and exits,
\* but a tick that is running goes on claiming and those tasks are killed too.
Crash(w) ==
  /\ phase[w] # "off" /\ crashes < MaxCrashes
  /\ crashes' = crashes + 1
  /\ phase'   = [phase EXCEPT ![w] = "off"]
  /\ timers'  = timers \ {w}
  /\ todo'    = [todo EXCEPT ![w] = {}]
  /\ task'    = [s \in Slots |-> IF task[s] # Idle /\ task[s].worker = w THEN Idle ELSE task[s]]
  /\ UNCHANGED <<tableVars, age, chain>>

-----------------------------------------------------------------------------
(* The steps of a task *)

At(r, k, pc) == task[<<r, k>>] # Idle /\ task[<<r, k>>].pc = pc

GoTo(r, k, pc) == task' = [task EXCEPT ![<<r, k>>].pc = pc]

EndTask(r, k) == task' = [task EXCEPT ![<<r, k>>] = Idle]

From(r, k) == task[<<r, k>>].from

\* The database transaction of the last step of a task: CAS from -> to, and
\* `Also`; a stale or illegal transition throws and only ends the task.
Finish(r, k, to, Also) ==
  /\ \/ TransitionOK(r, From(r, k), to) /\ MoveTo(r, to) /\ Also
     \/ ~TransitionOK(r, From(r, k), to) /\ UNCHANGED <<status, budgetVars, usage>>
  /\ EndTask(r, k)
  /\ UNCHANGED <<attempts, amount, actualFee, periodOf, identifier, phase, timers, todo, worldVars>>

\* processClaimed: the TTL is too close to sponsor safely.
ExpireClaimed(r, k) ==
  /\ At(r, k, "check") /\ r \in WithTtl /\ age[r] # "fresh"
  /\ Finish(r, k, "EXPIRED", Release(r) /\ UNCHANGED usage)

BeginSponsor(r, k) ==
  /\ At(r, k, "check") /\ (r \in WithTtl => age[r] = "fresh")
  /\ GoTo(r, k, "sponsor")
  /\ UNCHANGED <<tableVars, phase, timers, todo, worldVars>>

\* Mutant: <= for <.
SponsorRetryOnceMore(r, k) ==
  /\ At(r, k, "sponsor") /\ task[<<r, k>>].attempt <= MaxAttempts
  /\ Finish(r, k, "RESERVED", UNCHANGED <<budgetVars, usage>>)

\* sponsor() fails with a retryable error and attempts are left: back to the queue.
SponsorRetry(r, k) ==
  /\ At(r, k, "sponsor") /\ task[<<r, k>>].attempt < MaxAttempts
  /\ Finish(r, k, "RESERVED", UNCHANGED <<budgetVars, usage>>)

SponsorFailed(r, k) ==
  /\ At(r, k, "sponsor")
  /\ Finish(r, k, "SPONSORING_FAILED", Release(r) /\ UNCHANGED usage)

\* Mutant: submit first, persist when the outcome is known.
PersistLate(r, k, fee) ==
  /\ At(r, k, "sponsor")
  /\ actualFee' = [actualFee EXCEPT ![r] = fee]
  /\ GoTo(r, k, "submit")
  /\ UNCHANGED <<status, attempts, amount, periodOf, identifier, budgetVars, usage, phase, timers, todo, worldVars>>

\* sponsor() succeeds: the merged bytes and the fee are persisted before the
\* network sees anything.
Persist(r, k, fee) ==
  /\ At(r, k, "sponsor")
  /\ \/ /\ TransitionOK(r, From(r, k), "SUBMITTED")
        /\ MoveTo(r, "SUBMITTED")
        /\ actualFee' = [actualFee EXCEPT ![r] = fee]
        /\ task' = [task EXCEPT ![<<r, k>>] = [@ EXCEPT !.pc = "submit", !.from = "SUBMITTED",
                                                        !.ident = identifier[r]]]
     \/ /\ ~TransitionOK(r, From(r, k), "SUBMITTED")
        /\ EndTask(r, k)
        /\ UNCHANGED <<status, actualFee>>
  /\ UNCHANGED <<attempts, amount, periodOf, identifier, budgetVars, usage, phase, timers, todo, worldVars>>

\* The node has the bytes: newly, or already (a replay counts as success).
Delivered(r) ==
  \/ chain[r] # "none" /\ UNCHANGED chain
  \/ chain[r] = "none" /\ Includable(r) /\ chain' = [chain EXCEPT ![r] = "pool"]

SubmitOK(r, k) ==
  /\ At(r, k, "submit")
  /\ Delivered(r)
  /\ GoTo(r, k, "patch")
  /\ UNCHANGED <<tableVars, phase, timers, todo, age, crashes>>

\* The call fails in a way the worker treats as transient; the node may have
\* received the bytes all the same.
SubmitTransportError(r, k) ==
  /\ At(r, k, "submit")
  /\ Delivered(r) \/ UNCHANGED chain
  /\ GoTo(r, k, "park")
  /\ UNCHANGED <<tableVars, phase, timers, todo, age, crashes>>

\* The node refuses bytes it has not seen, or the call ends in an error the
\* adapter cannot classify and reports as final, delivered or not.
SubmitRefused(r, k) ==
  /\ At(r, k, "submit")
  /\ (chain[r] = "none" /\ UNCHANGED chain) \/ Delivered(r)
  /\ GoTo(r, k, "fail")
  /\ UNCHANGED <<tableVars, phase, timers, todo, age, crashes>>

\* patchRequest: the identifier is stored whatever the status of the row is.
Patch(r, k) ==
  /\ At(r, k, "patch")
  /\ identifier' = [identifier EXCEPT ![r] = TRUE]
  /\ GoTo(r, k, "wait")
  /\ UNCHANGED <<status, attempts, amount, actualFee, periodOf, budgetVars, usage, phase, timers, todo, worldVars>>

\* Mutant: acceptance by the pool is taken for confirmation.
WaitAccepted(r, k) ==
  /\ At(r, k, "wait") /\ chain[r] \in {"pool", "ok"}
  /\ GoTo(r, k, "confirm")
  /\ UNCHANGED <<tableVars, phase, timers, todo, worldVars>>

WaitConfirmed(r, k) ==
  /\ At(r, k, "wait") /\ chain[r] = "ok"
  /\ GoTo(r, k, "confirm")
  /\ UNCHANGED <<tableVars, phase, timers, todo, worldVars>>

\* Included with a failed part, or the indexer answered with an error that is
\* not a transport error: the adapter reports `failed` for both.
WaitFailed(r, k) ==
  /\ At(r, k, "wait")
  /\ GoTo(r, k, "fail")
  /\ UNCHANGED <<tableVars, phase, timers, todo, worldVars>>

WaitTimeout(r, k) ==
  /\ At(r, k, "wait")
  /\ GoTo(r, k, IF task[<<r, k>>].kind = "reconcile" THEN "deadline" ELSE "park")
  /\ UNCHANGED <<tableVars, phase, timers, todo, worldVars>>

\* confirmRequest: transition, settlement and usage record in one transaction.
Confirm(r, k) ==
  /\ At(r, k, "confirm")
  /\ Finish(r, k, "CONFIRMED", Settle(r) /\ InsertUsage(r))

Fail(r, k) ==
  /\ At(r, k, "fail")
  /\ Finish(r, k, "SUBMISSION_FAILED", Release(r) /\ UNCHANGED usage)

\* A task whose snapshot already says TIMEOUT changes nothing.
Park(r, k) ==
  /\ At(r, k, "park")
  /\ Finish(r, k, "TIMEOUT", UNCHANGED <<budgetVars, usage>>)

ReconcileExpire(r, k) ==
  /\ At(r, k, "deadline") /\ age[r] = "past"
  /\ Finish(r, k, "EXPIRED", Release(r) /\ UNCHANGED usage)

ReconcilePending(r, k) ==
  /\ At(r, k, "deadline") /\ age[r] # "past"
  /\ EndTask(r, k)
  /\ UNCHANGED <<tableVars, phase, timers, todo, worldVars>>

\* A database call throws and the task ends with the row as it was.  A throw
\* of patchRequest is caught with the errors of submit().
DbError(r, k) ==
  /\ DbFails
  /\ \/ At(r, k, "patch") /\ GoTo(r, k, "park")
     \/ /\ \E pc \in {"check", "sponsor", "confirm", "fail", "park", "deadline"} : At(r, k, pc)
        /\ EndTask(r, k)
  /\ UNCHANGED <<tableVars, phase, timers, todo, worldVars>>

-----------------------------------------------------------------------------
ApiStep(r) ==
  \/ Receive(r)
  \/ Reject(r)
  \/ \E p \in Periods, a \in Amounts : Admit(r, p, a)

WorldStep(r) ==
  \/ GrowOld(r)
  \/ \E outcome \in Outcomes : Include(r, outcome)
  \/ Drop(r)

RecoveryStep(w) ==
  \/ ListSponsoring(w)
  \/ \E sn \in todo[w] : Requeue(w, sn) \/ ExpireRecovered(w, sn) \/ \E k \in Copies : Resume(w, sn, k)
  \/ ListSubmitted(w)
  \/ RecoveryDone(w)

TaskStep(r, k) ==
  \/ ExpireClaimed(r, k) \/ BeginSponsor(r, k)
  \/ SponsorRetry(r, k) \/ SponsorFailed(r, k) \/ \E fee \in Fees : Persist(r, k, fee)
  \/ SubmitOK(r, k) \/ SubmitTransportError(r, k) \/ SubmitRefused(r, k) \/ Patch(r, k)
  \/ WaitConfirmed(r, k) \/ WaitFailed(r, k) \/ WaitTimeout(r, k)
  \/ Confirm(r, k) \/ Fail(r, k) \/ Park(r, k)
  \/ ReconcileExpire(r, k) \/ ReconcilePending(r, k)

Next ==
  \/ \E r \in Requests : ApiStep(r) \/ WorldStep(r)
  \/ \E w \in Workers : RecoveryStep(w) \/ RecoveryFails(w) \/ Crash(w)
  \/ \E w \in Workers, k \in Copies : Claim(w, k)
  \/ \E w \in Workers, r \in Requests, k \in Copies : ReconcileRow(w, r, k)
  \/ \E r \in Requests, k \in Copies : TaskStep(r, k) \/ DbError(r, k)

Spec == Init /\ [][Next]_vars

(***************************************************************************)
(* Fairness: time passes; the supervisor restarts a worker and start(),    *)
(* the poll loop and the reconcile interval run on timers (weak fairness); *)
(* every await of a task is answered or times out (weak fairness); a       *)
(* database statement the code retries for ever does not fail for ever     *)
(* (strong fairness of the recovery steps and of the reconciler).           *)
(* Nothing is assumed of the network.                                      *)
(***************************************************************************)
Fairness ==
  /\ \A r \in Requests : WF_vars(GrowOld(r))
  /\ \A w \in Workers :
       /\ WF_vars(ListSponsoring(w)) /\ SF_vars(ListSubmitted(w)) /\ SF_vars(RecoveryDone(w))
       /\ SF_vars(\E sn \in todo[w] : Requeue(w, sn) \/ ExpireRecovered(w, sn) \/ \E k \in Copies : Resume(w, sn, k))
       /\ WF_vars(\E k \in Copies : Claim(w, k))
       /\ \A r \in Requests : WF_vars(\E k \in Copies : ReconcileRow(w, r, k))
  /\ \A r \in Requests, k \in Copies :
       /\ WF_vars(TaskStep(r, k))
       /\ SF_vars(Confirm(r, k)) /\ SF_vars(Fail(r, k)) /\ SF_vars(ReconcileExpire(r, k))

FairSpec == Spec /\ Fairness

-----------------------------------------------------------------------------
(* Properties *)

\* The budget tables agree with the requests: every bucket has reserved what
\* the requests that hold a reservation reserved in it, and has settled what
\* the confirmed ones cost.  Snapshots, recovery, the reconciler and claimed
\* tasks race to free a reservation; a second release, a release under the
\* wrong period or a settlement without one breaks the sum.
BudgetMatchesRequests ==
  \A b \in Buckets :
    /\ reserved[b] = Total(HeldIn(b), amount)
    /\ settled[b]  = Total(SpentIn(b), actualFee)

\* A bucket exceeds its limit by no more than what confirmed requests were
\* charged beyond their reservations ("on-chain truth wins").
WithinLimit ==
  \A b \in Buckets :
    reserved[b] + settled[b] <= LimitOf(b) + Total(SpentIn(b), Overspend)

\* A usage record exists exactly for the confirmed requests, one each, with
\* the fee and the period of the request.
UsageMatchesConfirmed ==
  usage = {[request |-> r, specks |-> actualFee[r], period |-> periodOf[r]] : r \in InStatus({"CONFIRMED"})}

\* The network has seen a merged transaction only of a request whose row says
\* that its bytes are persisted: a crash, a requeue or a second worker never
\* leaves a possibly-submitted transaction behind a row that says otherwise.
PersistedBeforeSubmit ==
  \A r \in Requests :
    chain[r] # "none" => status[r] \in PossiblySubmitted \cup {"CONFIRMED", "SUBMISSION_FAILED", "EXPIRED"}

\* Only what the chain applied entirely is settled and recorded as usage.
ConfirmedIsIncluded ==
  \A r \in Requests : status[r] = "CONFIRMED" => chain[r] = "ok"

\* A request is claimed at most MaxAttempts times, plus once for every crash:
\* recover() puts a SPONSORING row back without looking at its attempts.
AttemptsBounded ==
  \A r \in Requests : attempts[r] <= MaxAttempts + crashes

\* DUST is balanced for a request by one task at a time (coin locks are local
\* to the process, so two tasks would lock two coins for one transaction).
OneSponsorPerRequest ==
  \A r \in Requests, k, l \in Copies :
    (\E pc \in {"check", "sponsor"} : At(r, k, pc)) /\ (\E pc \in {"check", "sponsor"} : At(r, l, pc)) => k = l

\* A row nobody drives: still SPONSORING or SUBMITTED, and no task has it.
\* Only the recovery pass of a restart picks it up: the poll loop looks for
\* RESERVED rows, the reconciler for TIMEOUT and UNKNOWN.
Orphan(r) ==
  status[r] \in {"SPONSORING", "SUBMITTED"} /\ \A k \in Copies : task[<<r, k>>] = Idle

\* While no query fails a recovered worker has no orphans: the pass has come
\* to every row of an earlier process before it claims new ones, and a task
\* ends only with its row moved on.
NoOrphans ==
  \A w \in Workers, r \in Requests : phase[w] = "ready" => ~Orphan(r)

\* A request whose DUST the chain has spent is never written off as expired:
\* docs/threat-model.md:64-66, "can never lose track of a possibly-submitted
\* transaction; recovery resubmits them (idempotent) and the reconciler settles
\* whatever the chain decided".
ExpiredNeverOnChain ==
  \A r \in Requests : status[r] = "EXPIRED" => chain[r] \notin {"ok", "partial"}

\* Every reservation is given back or settled in the end, unless a database
\* error has orphaned the row.  In particular a TIMEOUT request is always
\* resolved, whatever fails on the way and whatever the network does.
EventuallyResolved ==
  \A r \in Requests : status[r] \in HOLDS_RESERVATION ~> status[r] \in TERMINAL \/ Orphan(r)

\* The reservations of SponsorshipLedger, as the statuses tell them.
ReservationAt(s) ==
  CASE s \in {ABSENT, "RECEIVED", "REJECTED"} -> "none"
    [] s \in HOLDS_RESERVATION                -> "held"
    [] s = "CONFIRMED"                        -> "settled"
    [] OTHER                                  -> "freed"

Reservation(r) == ReservationAt(status[r])

Ledger == INSTANCE SponsorshipLedger
  WITH Limit    <- [b \in Buckets |-> LimitOf(b)],
       state    <- [r \in Requests |-> Reservation(r)],
       held     <- amount,
       places   <- [r \in Requests |-> IF Reservation(r) = "none" THEN {} ELSE BucketsOf(r, periodOf[r])]

\* The worker implements the abstract ledger: whatever task, pass or restart
\* gets there first, a reservation is freed or settled exactly once, for
\* exactly its amount and in exactly its buckets.
ImplementsLedger == Ledger!Spec

=============================================================================
