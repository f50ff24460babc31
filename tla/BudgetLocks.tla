----------------------------- MODULE BudgetLocks -----------------------------
(***************************************************************************)
(* reserve, settle and release of packages/db/src/budgets.ts inside the    *)
(* transactions of their callers, statement by statement, as PostgreSQL    *)
(* runs them at READ COMMITTED.                                            *)
(*                                                                         *)
(* RequestTable takes each of those transactions as one step.  Here they   *)
(* interleave at every await, and the module shows that one step is what   *)
(* they amount to: BudgetLocks implements SponsorshipLedger.               *)
(*                                                                         *)
(* One application and one period: transactions of others share no row.    *)
(***************************************************************************)
EXTENDS Naturals, Sequences, FiniteSets

CONSTANTS
  Requests,     \* rows of sponsorship_requests
  Users, UserOf, \* the user of a request
  GlobalKey,    \* '*'
  Tasks,        \* tasks that may end a request at the same time (bound)
  MaxPolicies,  \* policy versions in a behaviour (bound)
  GlobalLimit, UserLimit, \* limits of a policy version
  Estimated,    \* the fee that was estimated for a request
  Unit, Margin, \* AETHERDUST_FEE_MARGIN is Margin / Unit; the code's Unit is a million
  Fees,         \* what the chain may charge (bound)
  None          \* no transaction

Policies == 1..MaxPolicies

ASSUME BudgetAssumption ==
  /\ UserOf \in [Requests -> Users] /\ GlobalKey \notin Users
  /\ Requests \cap (Users \cup {GlobalKey}) = {}
  /\ MaxPolicies \in Nat \ {0}
  /\ GlobalLimit \in [Policies -> Nat] /\ UserLimit \in [Policies -> Nat]
  /\ Estimated \in [Requests -> Nat] /\ Unit \in Nat \ {0} /\ Margin \in Nat /\ Fees \subseteq Nat
  /\ None \notin Requests \X ({"api"} \cup Tasks) /\ "api" \notin Tasks

VARIABLES
  status,   \* the committed version of a request: its status and its fee
  bucket,   \* the committed version of a bucket
  lock,     \* lock[x]: the transaction that has written row x and not ended
  draft,    \* draft[x]: what it has written
  trans,    \* trans[t]: where transaction t is
  policy,   \* the latest policy version
  shown     \* shown[b]: the newest policy that reserved in b, a history

vars == <<status, bucket, lock, draft, trans, policy, shown>>

Buckets == Users \cup {GlobalKey}
Rows    == Requests \cup Buckets

\* Request r is reserved once, by the call that inserted it, and ended by tasks.
Txs == Requests \X ({"api"} \cup Tasks)

(* RECEIVED; HELD: any status of HOLDS_RESERVATION; FREED: a failure after it;
   SETTLED: CONFIRMED. *)
RequestRow == [is : {"RECEIVED", "HELD", "FREED", "SETTLED"}, fee : Fees \cup {0}]
BucketRow  == [exists : BOOLEAN, limit : Nat, reserved : Nat, settled : Nat]
Missing    == [exists |-> FALSE, limit |-> 0, reserved |-> 0, settled |-> 0]

\* `to` is HELD for a reservation, which has a policy; `fee` is what a settlement
\* charges; `next` is the number of the next statement; `waits`: for a lock.
Running == [next : 1..6, to : {"HELD", "FREED", "SETTLED"}, fee : Fees \cup {0}, policy : Policies, waits : BOOLEAN]
Idle    == [next |-> 0]
Over    == [next |-> 7]

-----------------------------------------------------------------------------
(* The statements of a transaction *)

Statement(op, x) == [op |-> op, row |-> x]

\* Mutant: `adjust` visits the user's bucket first.
AdjustUserFirst(t) ==
  LET r == t[1]
  IN  IF trans[t].to = "HELD"
      THEN <<Statement("insert", GlobalKey), Statement("reserve", GlobalKey),
             Statement("insert", UserOf[r]), Statement("reserve", UserOf[r]), Statement("move", r)>>
      ELSE <<Statement("move", r), Statement("adjust", UserOf[r]), Statement("adjust", GlobalKey)>>

\* `reserve` and then `transition`, or `transition` and then `adjust`.
Program(t) ==
  LET r == t[1]
  IN  IF trans[t].to = "HELD"
      THEN <<Statement("insert", GlobalKey), Statement("reserve", GlobalKey),
             Statement("insert", UserOf[r]), Statement("reserve", UserOf[r]), Statement("move", r)>>
      ELSE <<Statement("move", r), Statement("adjust", GlobalKey), Statement("adjust", UserOf[r])>>

Active(t)  == trans[t] \notin {Idle, Over}
Runs(t)    == Active(t) /\ trans[t].next <= Len(Program(t))
Current(t) == Program(t)[trans[t].next]
Op(t)      == Current(t).op
Row(t)     == Current(t).row

\* specks * factor / Unit, rounded up.
MulCeil(specks, factor) ==
  LET num == specks * factor
  IN  IF num % Unit = 0 THEN num \div Unit ELSE num \div Unit + 1

\* What a request reserves: the estimate and the margin.
Amount(r) == MulCeil(Estimated[r], Unit + Margin)

LimitOf(p, b) == IF b = GlobalKey THEN GlobalLimit[p] ELSE UserLimit[p]

Committed(x) == IF x \in Requests THEN status[x] ELSE bucket[x]

\* The version of row x that a statement of t reads: its own or the committed.
Seen(t, x) == IF lock[x] = t THEN draft[x] ELSE Committed(x)

Less(x, y) == IF x > y THEN x - y ELSE 0

Fits(v, amount, limit) == v.reserved + v.settled + amount <= limit

\* The WHERE clause of the current statement of t.
Matches(t) ==
  LET v == Seen(t, Row(t))
  IN  CASE Op(t) = "insert"  -> ~v.exists
        [] Op(t) = "reserve" -> Fits(v, Amount(t[1]), LimitOf(trans[t].policy, Row(t)))
        [] Op(t) = "adjust"  -> TRUE
        [] Op(t) = "move"    -> v.is = IF trans[t].to = "HELD" THEN "RECEIVED" ELSE "HELD"

\* The version it writes.
Written(t) ==
  LET v == Seen(t, Row(t))
  IN  CASE Op(t) = "insert"  -> [Missing EXCEPT !.exists = TRUE, !.limit = LimitOf(trans[t].policy, Row(t))]
        [] Op(t) = "reserve" -> [v EXCEPT !.reserved = @ + Amount(t[1]), !.limit = LimitOf(trans[t].policy, Row(t))]
        [] Op(t) = "adjust"  -> [v EXCEPT !.reserved = Less(@, Amount(t[1])), !.settled = @ + trans[t].fee]
        [] Op(t) = "move"    -> [is |-> trans[t].to, fee |-> trans[t].fee]

Locked(t) == lock[Row(t)] \notin {t, None}

-----------------------------------------------------------------------------
\* The period is new, or earlier requests have opened and emptied its buckets.
Opened(b) == [Missing EXCEPT !.exists = TRUE, !.limit = LimitOf(1, b)]

Init ==
  /\ status = [r \in Requests |-> [is |-> "RECEIVED", fee |-> 0]]
  /\ bucket \in {[b \in Buckets |-> Missing], [b \in Buckets |-> Opened(b)]}
  /\ lock   = [x \in Rows |-> None]
  /\ draft  = [x \in Rows |-> Committed(x)]
  /\ trans  = [t \in Txs |-> Idle]
  /\ policy = 1
  /\ shown  = [b \in Buckets |-> 0]

Starts(t, to, fee, p) ==
  trans' = [trans EXCEPT ![t] = [next |-> 1, to |-> to, fee |-> fee, policy |-> p, waits |-> FALSE]]

\* The api reserves with the policy it authenticated the call under.
BeginReserve(r) ==
  /\ trans[<<r, "api">>] = Idle /\ status[r].is = "RECEIVED"
  /\ Starts(<<r, "api">>, "HELD", 0, policy)
  /\ UNCHANGED <<status, bucket, lock, draft, policy, shown>>

\* A task ends the request it once saw holding a reservation: the row may have
\* been ended by another task since.
BeginEnd(r, k, to, fee) ==
  /\ trans[<<r, k>>] = Idle /\ status[r].is # "RECEIVED"
  /\ to \in {"FREED", "SETTLED"} /\ (to = "FREED" => fee = 0)
  /\ Starts(<<r, k>>, to, fee, 1)
  /\ UNCHANGED <<status, bucket, lock, draft, policy, shown>>

\* The row matches and another transaction has written it: wait for its end.
Wait(t) ==
  /\ Runs(t) /\ ~trans[t].waits /\ Locked(t) /\ Matches(t)
  /\ trans' = [trans EXCEPT ![t].waits = TRUE]
  /\ UNCHANGED <<status, bucket, lock, draft, policy, shown>>

Continues(t) == trans' = [trans EXCEPT ![t].next = @ + 1, ![t].waits = FALSE]

\* Mutant: read, check and write instead of an UPDATE with a guard: what was
\* seen before waiting is not looked at again.
WriteUnchecked(t) ==
  /\ Runs(t) /\ ~Locked(t) /\ (Matches(t) \/ (trans[t].waits /\ Op(t) # "insert"))
  /\ lock'  = [lock EXCEPT ![Row(t)] = t]
  /\ draft' = [draft EXCEPT ![Row(t)] = Written(t)]
  /\ Continues(t)
  /\ UNCHANGED <<status, bucket, policy, shown>>

\* The statement writes its row, checking the WHERE clause again after a wait.
Write(t) ==
  /\ Runs(t) /\ ~Locked(t) /\ Matches(t)
  /\ lock'  = [lock EXCEPT ![Row(t)] = t]
  /\ draft' = [draft EXCEPT ![Row(t)] = Written(t)]
  /\ Continues(t)
  /\ UNCHANGED <<status, bucket, policy, shown>>

\* INSERT ... ON CONFLICT DO NOTHING finds the row.
InsertNothing(t) ==
  /\ Runs(t) /\ Op(t) = "insert" /\ ~Matches(t)
  /\ trans[t].waits => ~Locked(t)
  /\ Continues(t)
  /\ UNCHANGED <<status, bucket, lock, draft, policy, shown>>

\* The rows t has written.
Mine(t) == {x \in Rows : lock[x] = t}

\* Nobody tries a reservation again (Admission: OneDriver); a request is tried
\* to be ended by every pass that lists it.
Rest(t) == IF t[2] = "api" THEN Over ELSE Idle

\* Mutant: the catch of withTx does not roll back.
EndsHolding(t) == trans' = [trans EXCEPT ![t] = Rest(t)] /\ UNCHANGED <<lock, draft>>

\* COMMIT or ROLLBACK: the locks go.
Ends(t) ==
  /\ trans' = [trans EXCEPT ![t] = Rest(t)]
  /\ lock'  = [x \in Rows |-> IF x \in Mine(t) THEN None ELSE lock[x]]
  /\ draft' = [x \in Rows |-> IF x \notin Mine(t) THEN draft[x]
                              ELSE IF x \in Requests THEN status'[x] ELSE bucket'[x]]

\* No row matches: the budget is exceeded, or the transition is stale.
Refuse(t) ==
  /\ Runs(t) /\ Op(t) # "insert" /\ ~Matches(t)
  /\ trans[t].waits => ~Locked(t)
  /\ UNCHANGED <<status, bucket, policy, shown>>
  /\ Ends(t)

Commit(t) ==
  /\ Active(t) /\ ~Runs(t)
  /\ status' = [r \in Requests |-> IF r \in Mine(t) THEN draft[r] ELSE status[r]]
  /\ bucket' = [b \in Buckets  |-> IF b \in Mine(t) THEN draft[b] ELSE bucket[b]]
  /\ shown'  = [b \in Buckets  |-> IF b \in Mine(t) /\ trans[t].to = "HELD" /\ trans[t].policy > shown[b]
                                   THEN trans[t].policy ELSE shown[b]]
  /\ UNCHANGED policy
  /\ Ends(t)

\* The connection breaks, or the process ends.
Abort(t) ==
  /\ Active(t)
  /\ UNCHANGED <<status, bucket, policy, shown>>
  /\ Ends(t)

\* PUT policy.
PutPolicy ==
  /\ policy + 1 \in Policies
  /\ policy' = policy + 1
  /\ UNCHANGED <<status, bucket, lock, draft, trans, shown>>

Next ==
  \/ \E r \in Requests : BeginReserve(r)
  \/ \E r \in Requests, k \in Tasks, to \in {"FREED", "SETTLED"}, fee \in Fees \cup {0} : BeginEnd(r, k, to, fee)
  \/ \E t \in Txs : Wait(t) \/ Write(t) \/ InsertNothing(t) \/ Refuse(t) \/ Commit(t) \/ Abort(t)
  \/ PutPolicy

Spec == Init /\ [][Next]_vars

-----------------------------------------------------------------------------
(* Properties *)

\* Rows and transactions have their types, and an idle transaction has no lock:
\* what it wrote is committed or gone.
TypeOK ==
  /\ status \in [Requests -> RequestRow] /\ bucket \in [Buckets -> BucketRow]
  /\ trans \in [Txs -> Running \cup {Idle, Over}]
  /\ lock \in [Rows -> Txs \cup {None}]
  /\ \A x \in Rows : IF lock[x] = None THEN draft[x] = Committed(x) ELSE Active(lock[x])
  /\ policy \in Policies /\ shown \in [Buckets -> Policies \cup {0}]

\* The transactions never wait for each other in a circle: each request row
\* first or last, and the buckets in one order, global before user.
NoDeadlock ==
  \A S \in (SUBSET Txs) \ {{}} :
    \E t \in S : ~(Runs(t) /\ trans[t].waits /\ lock[Row(t)] \in S \ {t})

\* A committed reservation leaves both of its buckets within the limit it was
\* checked against, whatever else reserves, settles or releases meanwhile.
ReservationFits ==
  [][\A b \in Buckets : bucket'[b].reserved > bucket[b].reserved =>
       bucket'[b].reserved + bucket'[b].settled <= bucket'[b].limit]_vars

Widest(b) == CHOOSE x \in {LimitOf(p, b) : p \in Policies} : \A p \in Policies : LimitOf(p, b) <= x

Held(r) == status[r].is # "RECEIVED"

Ledger == INSTANCE SponsorshipLedger
  WITH Limit    <- [b \in Buckets |-> Widest(b)],
       Amounts  <- {Amount(r) : r \in Requests},
       Fees     <- Fees \cup {0},
       state    <- [r \in Requests |-> [RECEIVED |-> "none", HELD |-> "held", FREED |-> "freed",
                                        SETTLED |-> "settled"][status[r].is]],
       held     <- [r \in Requests |-> IF Held(r) THEN Amount(r) ELSE 0],
       places   <- [r \in Requests |-> IF Held(r) THEN {GlobalKey, UserOf[r]} ELSE {}],
       reserved <- [b \in Buckets |-> bucket[b].reserved],
       settled  <- [b \in Buckets |-> bucket[b].settled]

\* The statements of a transaction amount to one step of the ledger, at its
\* COMMIT: what RequestTable and SponsorWorker take for granted.
ImplementsLedger == Ledger!Spec

\* packages/db/src/budgets.ts:16-17: "The current policy limit is written to the
\* row so it reflects the latest configuration."
LimitReflectsLatest ==
  \A b \in Buckets : bucket[b].exists /\ shown[b] > 0 => bucket[b].limit = LimitOf(shown[b], b)

=============================================================================
