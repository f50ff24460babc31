----------------------------- MODULE RequestTable -----------------------------
(***************************************************************************)
(* The PostgreSQL tables of packages/db that the api and the worker share: *)
(* sponsorship_requests, budget_periods and usage_records, and the         *)
(* statements the code runs on them.                                       *)
(*                                                                         *)
(* Every operator below is what one SQL transaction (withTx) does; the     *)
(* processes compose them into actions.  A row is the tuple of the         *)
(* functions status, attempts, amount, actualFee, periodOf and identifier. *)
(***************************************************************************)
EXTENDS Integers, FiniteSets, RequestStates

CONSTANTS
  Requests,      \* row ids; their order is the order of created_at
  Users,         \* user_id values
  Periods,       \* period_start values
  UserOf,        \* UserOf[r]: the user the request was made for
  GlobalKey,     \* the scope_key '*' of the global bucket
  GlobalLimit,   \* policy.limits.global_budget_dust, in specks
  UserLimit      \* policy.limits.per_user_budget_dust, in specks

ASSUME RequestsAssumption == Requests \subseteq Nat
ASSUME UsersAssumption    == GlobalKey \notin Users /\ UserOf \in [Requests -> Users]
ASSUME LimitsAssumption   == GlobalLimit \in Nat /\ UserLimit \in Nat

VARIABLES
  status,        \* status[r], or ABSENT before the INSERT
  attempts,      \* attempts[r]: times the row was claimed
  amount,        \* reserved_specks of the row, 0 until RESERVED
  actualFee,     \* actual_fee_specks of the row, 0 until SUBMITTED
  periodOf,      \* period_start of the row, meaningful from RESERVED on
  identifier,    \* TRUE once submitted_identifier is set
  reserved,      \* reserved_specks of each budget bucket
  settled,       \* settled_specks of each budget bucket
  usage          \* usage_records: at most one per request (ON CONFLICT DO NOTHING)

rowVars    == <<status, attempts, amount, actualFee, periodOf, identifier>>
budgetVars == <<reserved, settled>>
tableVars  == <<status, attempts, amount, actualFee, periodOf, identifier, reserved, settled, usage>>

Buckets == ({GlobalKey} \cup Users) \X Periods

\* The global bucket and the user's bucket of a period, as `reserve` and
\* `adjust` visit them.
BucketsOf(r, p) == {<<GlobalKey, p>>, <<UserOf[r], p>>}

LimitOf(b) == IF b[1] = GlobalKey THEN GlobalLimit ELSE UserLimit

UsageRecord == [request : Requests, specks : Nat, period : Periods]

TableTypeOK ==
  /\ status     \in [Requests -> RequestStatus \cup {ABSENT}]
  /\ attempts   \in [Requests -> Nat]
  /\ amount     \in [Requests -> Nat]
  /\ actualFee  \in [Requests -> Nat]
  /\ periodOf   \in [Requests -> Periods]
  /\ identifier \in [Requests -> BOOLEAN]
  /\ reserved   \in [Buckets -> Nat]
  /\ settled    \in [Buckets -> Nat]
  /\ usage      \subseteq UsageRecord

TableInit ==
  /\ status     = [r \in Requests |-> ABSENT]
  /\ attempts   = [r \in Requests |-> 0]
  /\ amount     = [r \in Requests |-> 0]
  /\ actualFee  = [r \in Requests |-> 0]
  /\ periodOf   \in [Requests -> Periods]
  /\ identifier = [r \in Requests |-> FALSE]
  /\ reserved   = [b \in Buckets |-> 0]
  /\ settled    = [b \in Buckets |-> 0]
  /\ usage      = {}

-----------------------------------------------------------------------------
(* Requests *)

\* Mutant: the UPDATE without `AND status = $2`.
TransitionUnchecked(r, from, to) == CanTransition(from, to)

\* `transition` succeeds: the step is legal and UPDATE ... WHERE status = from
\* finds the row.  Otherwise it throws and the transaction rolls back.
TransitionOK(r, from, to) == status[r] = from /\ CanTransition(from, to)

MoveTo(r, to) == status' = [status EXCEPT ![r] = to]

InsertReceived(r) ==
  /\ status[r] = ABSENT
  /\ MoveTo(r, "RECEIVED")

\* The oldest rows of S, as ORDER BY created_at LIMIT n returns them.
Oldest(S, n) == {r \in S : Cardinality({q \in S : q < r}) < n}

InStatus(statuses) == {r \in Requests : status[r] \in statuses}

-----------------------------------------------------------------------------
(* Budgets *)

\* Mutant: the guard forgets what is already settled.
FitsIgnoringSettled(r, p, a) ==
  \A b \in BucketsOf(r, p) : reserved[b] + a <= LimitOf(b)

\* The guard reserved + settled + amount <= limit, on both buckets.
Fits(r, p, a) ==
  \A b \in BucketsOf(r, p) : reserved[b] + settled[b] + a <= LimitOf(b)

Reserve(r, p, a) ==
  /\ Fits(r, p, a)
  /\ reserved' = [b \in Buckets |-> IF b \in BucketsOf(r, p) THEN reserved[b] + a ELSE reserved[b]]
  /\ UNCHANGED settled

\* GREATEST(reserved - amount, 0)
Less(x, y) == IF x > y THEN x - y ELSE 0

\* Mutant: `adjust` visits the global bucket only.
AdjustGlobalOnly(r, actual) ==
  LET mine == {<<GlobalKey, periodOf[r]>>}
  IN  /\ reserved' = [b \in Buckets |-> IF b \in mine THEN Less(reserved[b], amount[r]) ELSE reserved[b]]
      /\ settled'  = [b \in Buckets |-> IF b \in mine THEN settled[b] + actual ELSE settled[b]]

\* `adjust`: give the reservation back, add what was actually spent.
Adjust(r, actual) ==
  LET mine == BucketsOf(r, periodOf[r])
  IN  /\ reserved' = [b \in Buckets |-> IF b \in mine THEN Less(reserved[b], amount[r]) ELSE reserved[b]]
      /\ settled'  = [b \in Buckets |-> IF b \in mine THEN settled[b] + actual ELSE settled[b]]

\* Mutant: a release that settles the reservation it gives back.
ReleaseAsSpent(r) == Adjust(r, amount[r])

Release(r) == Adjust(r, 0)
Settle(r)  == Adjust(r, actualFee[r])

-----------------------------------------------------------------------------
(* Usage records *)

\* Mutant: the record carries the reservation instead of the fee.
InsertUsageReserved(r) ==
  usage' = IF \E u \in usage : u.request = r
           THEN usage
           ELSE usage \cup {[request |-> r, specks |-> amount[r], period |-> periodOf[r]]}

InsertUsage(r) ==
  usage' = IF \E u \in usage : u.request = r
           THEN usage
           ELSE usage \cup {[request |-> r, specks |-> actualFee[r], period |-> periodOf[r]]}

-----------------------------------------------------------------------------
(* What the tables must say together.                                      *)

\* The sum of f over a set S of requests.  A sum of amounts is the size of a
\* set of units: n units of request r for an amount of n.
Units(r, n)   == {r} \X (1..n)
UnitsOf(S, f) == UNION {Units(r, f[r]) : r \in S}
Total(S, f)   == Cardinality(UnitsOf(S, f))

InBucket(r, b) == b \in BucketsOf(r, periodOf[r])

HeldIn(b)  == {r \in Requests : status[r] \in HOLDS_RESERVATION /\ InBucket(r, b)}
SpentIn(b) == {r \in Requests : status[r] = "CONFIRMED" /\ InBucket(r, b)}

\* What a request costs beyond what it has reserved.
Overspend == [r \in Requests |-> Less(actualFee[r], amount[r])]

=============================================================================
