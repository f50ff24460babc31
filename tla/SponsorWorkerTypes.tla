------------------------ MODULE SponsorWorkerTypes --------------------------
(***************************************************************************)
(* Lemmas about the operators of RequestTable: the type of what they       *)
(* compute, and sums of amounts as cardinalities of sets of units.  Then   *)
(* the type correctness of SponsorWorker, and what a step may do to the    *)
(* status of a row, for any number of requests, users, periods, workers,  *)
(* tasks, and any limits, amounts and fees.                                *)
(***************************************************************************)
EXTENDS SponsorWorker, FiniteSetTheorems, TLAPS

\* n units of a request are n units.
LEMMA UnitsCardinality ==
  ASSUME NEW r, NEW n \in Nat
  PROVE  IsFiniteSet(Units(r, n)) /\ Cardinality(Units(r, n)) = n
<1>1. IsFiniteSet(1..n) /\ Cardinality(1..n) = n
  BY FS_Interval
<1>2. IsFiniteSet({r}) /\ Cardinality({r}) = 1
  BY FS_Singleton
<1>3. IsFiniteSet({r} \X (1..n)) /\ Cardinality({r} \X (1..n)) = 1 * n
  BY <1>1, <1>2, FS_Product
<1> QED
  BY <1>3 DEF Units

\* A unit belongs to one request.
LEMMA UnitsDisjoint ==
  ASSUME NEW S, NEW f, NEW r, NEW n, r \notin S
  PROVE  UnitsOf(S, f) \cap Units(r, n) = {}
<1> SUFFICES ASSUME NEW x \in UnitsOf(S, f), x \in Units(r, n)
             PROVE  FALSE
  OBVIOUS
<1>1. PICK q \in S : x \in {q} \X (1..f[q])
  BY DEF UnitsOf, Units
<1>2. x[1] = q /\ x[1] = r
  BY <1>1 DEF Units
<1> QED
  BY <1>2

\* The sum with a request more.
LEMMA TotalAdd ==
  ASSUME NEW S, NEW f, NEW r, r \notin S, f[r] \in Nat, IsFiniteSet(UnitsOf(S, f))
  PROVE  /\ IsFiniteSet(UnitsOf(S \cup {r}, f))
         /\ Total(S \cup {r}, f) = Total(S, f) + f[r]
<1>1. UnitsOf(S \cup {r}, f) = UnitsOf(S, f) \cup Units(r, f[r])
  BY DEF UnitsOf
<1>2. IsFiniteSet(Units(r, f[r])) /\ Cardinality(Units(r, f[r])) = f[r]
  BY UnitsCardinality
<1>3. Cardinality(UnitsOf(S, f) \cap Units(r, f[r])) = 0
  BY UnitsDisjoint, FS_EmptySet
<1>4. Cardinality(UnitsOf(S, f)) \in Nat
  BY FS_CardinalityType
<1> DEFINE U == UnitsOf(S, f)
           V == Units(r, f[r])
<1>5. IsFiniteSet(U \cup V) /\ Cardinality(U \cup V) = Cardinality(U) + Cardinality(V) - Cardinality(U \cap V)
  BY <1>2, FS_Union
<1>6. IsFiniteSet(UnitsOf(S \cup {r}, f)) /\ Total(S \cup {r}, f) = Cardinality(U \cup V)
  BY <1>1, <1>5, Zenon DEF Total
<1>7. Cardinality(U \cup V) = Cardinality(U) + f[r]
  BY <1>2, <1>3, <1>4, <1>5
<1> QED
  BY <1>6, <1>7 DEF Total

\* The sum with a request less.
LEMMA TotalRemove ==
  ASSUME NEW S, NEW f, NEW r \in S, f[r] \in Nat, IsFiniteSet(UnitsOf(S, f))
  PROVE  /\ IsFiniteSet(UnitsOf(S \ {r}, f))
         /\ Total(S \ {r}, f) = Total(S, f) - f[r]
         /\ f[r] <= Total(S, f)
<1>1. UnitsOf(S, f) = UnitsOf(S \ {r}, f) \cup Units(r, f[r])
  BY DEF UnitsOf
<1>2. IsFiniteSet(UnitsOf(S \ {r}, f))
  BY <1>1, FS_Subset
<1>3. (S \ {r}) \cup {r} = S
  OBVIOUS
<1>4. Total(S, f) = Total(S \ {r}, f) + f[r]
  BY <1>2, <1>3, TotalAdd
<1>5. Total(S \ {r}, f) \in Nat
  BY <1>2, FS_CardinalityType DEF Total
<1> QED
  BY <1>2, <1>4, <1>5

\* The sum of equal amounts.
LEMMA UnitsSame ==
  ASSUME NEW S, NEW f, NEW g, \A r \in S : f[r] = g[r]
  PROVE  UnitsOf(S, f) = UnitsOf(S, g)
  BY DEF UnitsOf

\* The sum over no request.
LEMMA TotalEmpty ==
  ASSUME NEW f
  PROVE  IsFiniteSet(UnitsOf({}, f)) /\ Total({}, f) = 0
<1>1. UnitsOf({}, f) = {}
  BY DEF UnitsOf
<1> QED
  BY <1>1, FS_EmptySet DEF Total

\* Less is subtraction that stops at zero, as GREATEST(x - y, 0) is.
LEMMA LessFacts ==
  ASSUME NEW x \in Nat, NEW y \in Nat
  PROVE  /\ Less(x, y) \in Nat
         /\ x >= y => Less(x, y) = x - y
         /\ x <= y => Less(x, y) = 0
  BY DEF Less

\* A reservation keeps the amounts of the buckets natural.
LEMMA ReserveType ==
  ASSUME TableTypeOK, NEW r \in Requests, NEW p \in Periods, NEW a \in Nat, Reserve(r, p, a)
  PROVE  reserved' \in [Buckets -> Nat] /\ settled' \in [Buckets -> Nat]
  BY DEF TableTypeOK, Reserve

\* A release or a settlement keeps the amounts of the buckets natural.
LEMMA AdjustType ==
  ASSUME TableTypeOK, NEW r \in Requests, NEW actual \in Nat, Adjust(r, actual)
  PROVE  reserved' \in [Buckets -> Nat] /\ settled' \in [Buckets -> Nat]
  BY DEF TableTypeOK, Adjust, Less

\* A release keeps the amounts of the buckets natural.
LEMMA ReleaseType ==
  ASSUME TableTypeOK, NEW r \in Requests, Release(r)
  PROVE  reserved' \in [Buckets -> Nat] /\ settled' \in [Buckets -> Nat]
  BY AdjustType DEF Release

\* A settlement keeps the amounts of the buckets natural.
LEMMA SettleType ==
  ASSUME TableTypeOK, NEW r \in Requests, Settle(r)
  PROVE  reserved' \in [Buckets -> Nat] /\ settled' \in [Buckets -> Nat]
<1>1. actualFee[r] \in Nat
  BY DEF TableTypeOK
<1> QED
  BY <1>1, AdjustType DEF Settle

\* The statuses are the rows of the transition table.
LEMMA StatusSet ==
  RequestStatus = {"RECEIVED", "RESERVED", "SPONSORING", "SUBMITTED", "TIMEOUT", "UNKNOWN", "REJECTED",
                   "CONFIRMED", "SPONSORING_FAILED", "SUBMISSION_FAILED", "EXPIRED"}
  BY DEF RequestStatus, T

\* A row moved to a status of the table has a status of the table.
LEMMA MoveType ==
  ASSUME TableTypeOK, NEW r \in Requests, NEW to \in RequestStatus, MoveTo(r, to)
  PROVE  status' \in [Requests -> RequestStatus \cup {ABSENT}]
  BY DEF TableTypeOK, MoveTo

\* The usage record of a request is a usage record.
LEMMA UsageType ==
  ASSUME TableTypeOK, NEW r \in Requests, InsertUsage(r)
  PROVE  usage' \subseteq UsageRecord
<1>1. actualFee[r] \in Nat /\ periodOf[r] \in Periods
  BY DEF TableTypeOK
<1> QED
  BY <1>1 DEF TableTypeOK, InsertUsage, UsageRecord
-----------------------------------------------------------------------------
(* The rows, the tasks and the workers.                                    *)

\* Listing rows that hold a reservation yields snapshots.
LEMMA ListType ==
  ASSUME TypeOK, NEW S, S \subseteq HOLDS_RESERVATION
  PROVE  ListByStatus(S) \subseteq Snapshots
<1>1. SUFFICES ASSUME NEW r \in Oldest(InStatus(S), ListLimit)
               PROVE  SnapshotOf(r) \in Snapshots
  BY DEF ListByStatus
<1>2. r \in Requests /\ status[r] \in S
  BY DEF Oldest, InStatus
<1>3. identifier[r] \in BOOLEAN
  BY <1>2 DEF TypeOK, TableTypeOK
<1> QED
  BY <1>2, <1>3 DEF SnapshotOf, Snapshots

\* A new task of a snapshot is a task.
LEMMA NewTaskType ==
  ASSUME NEW w \in Workers, NEW kind \in {"worker", "reconcile"}, NEW at \in Pcs,
         NEW sn \in Snapshots, NEW n \in Nat
  PROVE  NewTask(w, kind, at, sn, n) \in Tasks
  BY DEF NewTask, Snapshots, Tasks

\* A task goes on to another point of its program.
LEMMA GoToType ==
  ASSUME TypeOK, NEW r \in Requests, NEW k \in Copies, task[<<r, k>>] # Idle, NEW pc \in Pcs, GoTo(r, k, pc)
  PROVE  task' \in [Slots -> Tasks \cup {Idle}]
<1>1. <<r, k>> \in Slots /\ task[<<r, k>>] \in Tasks
  BY DEF TypeOK, Slots
<1>2. [task[<<r, k>>] EXCEPT !.pc = pc] \in Tasks
  BY <1>1 DEF Tasks
<1> QED
  BY <1>1, <1>2 DEF TypeOK, GoTo

\* A task ends.
LEMMA EndTaskType ==
  ASSUME TypeOK, NEW r \in Requests, NEW k \in Copies, EndTask(r, k)
  PROVE  task' \in [Slots -> Tasks \cup {Idle}]
  BY DEF TypeOK, EndTask

\* A task begins.
LEMMA SpawnType ==
  ASSUME TypeOK, NEW r \in Requests, NEW k \in Copies, NEW t \in Tasks, Spawn(r, k, t)
  PROVE  task' \in [Slots -> Tasks \cup {Idle}]
  BY DEF TypeOK, Spawn

\* Every step keeps the types.
LEMMA TypeStep == TypeOK /\ [Next]_vars => TypeOK'
<1> SUFFICES ASSUME TypeOK, [Next]_vars
             PROVE  TypeOK'
  OBVIOUS
<1> USE StatusSet
<1>t. TableTypeOK
  BY DEF TypeOK
<1>a1. ASSUME NEW r \in Requests, Receive(r)
      PROVE  TypeOK'
  BY <1>a1, MoveType DEF Receive, InsertReceived, TypeOK, TableTypeOK, workerVars, worldVars, budgetVars, tableVars
<1>a2. ASSUME NEW r \in Requests, Reject(r)
      PROVE  TypeOK'
  BY <1>a2, MoveType DEF Reject, TypeOK, TableTypeOK, workerVars, worldVars, budgetVars, tableVars
<1>a3. ASSUME NEW r \in Requests, NEW p \in Periods, NEW a \in Amounts, Admit(r, p, a)
      PROVE  TypeOK'
  <2>1. a \in Nat
    BY BoundsAssumption
  <2>2. status' \in [Requests -> RequestStatus \cup {ABSENT}]
    BY <1>a3, <1>t, MoveType DEF Admit
  <2>3. reserved' \in [Buckets -> Nat] /\ settled' \in [Buckets -> Nat]
    BY <1>a3, <1>t, <2>1, ReserveType DEF Admit
  <2> QED
    BY <1>a3, <2>1, <2>2, <2>3 DEF Admit, TypeOK, TableTypeOK, workerVars, worldVars, budgetVars, tableVars
<1>a4. ASSUME NEW r \in Requests, GrowOld(r)
      PROVE  TypeOK'
  BY <1>a4 DEF GrowOld, Ages, TypeOK, TableTypeOK, workerVars, worldVars, budgetVars, tableVars
<1>a5. ASSUME NEW r \in Requests, NEW outcome \in Outcomes, Include(r, outcome)
      PROVE  TypeOK'
  BY <1>a5, BoundsAssumption DEF Include, ChainStates, TypeOK, TableTypeOK, workerVars, worldVars, budgetVars, tableVars
<1>a6. ASSUME NEW r \in Requests, Drop(r)
      PROVE  TypeOK'
  BY <1>a6 DEF Drop, ChainStates, TypeOK, TableTypeOK, workerVars, worldVars, budgetVars, tableVars
<1>a7. ASSUME NEW w \in Workers, ListSponsoring(w)
      PROVE  TypeOK'
  <2>1. ListByStatus({"SPONSORING"}) \subseteq Snapshots
    BY ListType DEF HOLDS_RESERVATION
  <2> QED
    BY <1>a7, <2>1 DEF ListSponsoring, Phases, TypeOK, TableTypeOK, workerVars, worldVars, budgetVars, tableVars
<1>a8. ASSUME NEW w \in Workers, ListSubmitted(w)
      PROVE  TypeOK'
  <2>1. ListByStatus(PossiblySubmitted) \subseteq Snapshots
    BY ListType DEF HOLDS_RESERVATION, PossiblySubmitted
  <2> QED
    BY <1>a8, <2>1 DEF ListSubmitted, Phases, TypeOK, TableTypeOK, workerVars, worldVars, budgetVars, tableVars
<1>a9. ASSUME NEW w \in Workers, NEW sn \in todo[w], Requeue(w, sn)
      PROVE  TypeOK'
  <2>1. sn.request \in Requests
    BY DEF TypeOK, Snapshots
  <2>2. status' \in [Requests -> RequestStatus \cup {ABSENT}]
    BY <1>a9, <1>t, <2>1, MoveType DEF Requeue, TableTypeOK
  <2> QED
    BY <1>a9, <2>2 DEF Requeue, EndRecovery, Phases, TypeOK, TableTypeOK, workerVars, worldVars, budgetVars, tableVars
<1>a10. ASSUME NEW w \in Workers, NEW sn \in todo[w], ExpireRecovered(w, sn)
      PROVE  TypeOK'
  <2>1. sn.request \in Requests
    BY DEF TypeOK, Snapshots
  <2>2. status' \in [Requests -> RequestStatus \cup {ABSENT}]
    BY <1>a10, <1>t, <2>1, MoveType DEF ExpireRecovered, TableTypeOK
  <2>3. reserved' \in [Buckets -> Nat] /\ settled' \in [Buckets -> Nat]
    BY <1>a10, <1>t, <2>1, ReleaseType DEF ExpireRecovered, TableTypeOK, budgetVars
  <2> QED
    BY <1>a10, <2>2, <2>3 DEF ExpireRecovered, EndRecovery, Phases, TypeOK, TableTypeOK, workerVars, worldVars, budgetVars, tableVars
<1>a11. ASSUME NEW w \in Workers, NEW sn \in todo[w], NEW k \in Copies, Resume(w, sn, k)
      PROVE  TypeOK'
  <2>1. sn \in Snapshots /\ sn.request \in Requests
    BY DEF TypeOK, Snapshots
  <2>2. attempts[sn.request] \in Nat
    BY <2>1 DEF TypeOK, TableTypeOK
  <2>3. PICK at \in Pcs : Spawn(sn.request, k, NewTask(w, "worker", at, sn, attempts[sn.request]))
    BY <1>a11 DEF Resume, Pcs
  <2>4. task' \in [Slots -> Tasks \cup {Idle}]
    BY <2>1, <2>2, <2>3, NewTaskType, SpawnType
  <2> QED
    BY <1>a11, <2>4 DEF Resume, TypeOK, TableTypeOK, workerVars, worldVars, budgetVars, tableVars
<1>a12. ASSUME NEW w \in Workers, RecoveryDone(w)
      PROVE  TypeOK'
  BY <1>a12 DEF RecoveryDone, EndRecovery, Phases, TypeOK, TableTypeOK, workerVars, worldVars, budgetVars, tableVars
<1>a13. ASSUME NEW w \in Workers, RecoveryFails(w)
      PROVE  TypeOK'
  BY <1>a13 DEF RecoveryFails, EndRecovery, Phases, TypeOK, TableTypeOK, workerVars, worldVars, budgetVars, tableVars
<1>a14. ASSUME NEW w \in Workers, NEW k \in Copies, Claim(w, k)
      PROVE  TypeOK'
  <2>1. PICK r \in Oldest(InStatus({"RESERVED"}), 1) :
          /\ MoveTo(r, "SPONSORING")
          /\ attempts' = [attempts EXCEPT ![r] = @ + 1]
          /\ Spawn(r, k, NewTask(w, "worker", "check",
                                 [request |-> r, from |-> "SPONSORING", ident |-> identifier[r]],
                                 attempts[r] + 1))
    BY <1>a14 DEF Claim, ClaimNext
  <2>2. r \in Requests
    BY DEF Oldest, InStatus
  <2>3. attempts[r] + 1 \in Nat /\ identifier[r] \in BOOLEAN
    BY <2>2 DEF TypeOK, TableTypeOK
  <2>4. [request |-> r, from |-> "SPONSORING", ident |-> identifier[r]] \in Snapshots
    BY <2>2, <2>3 DEF Snapshots, HOLDS_RESERVATION
  <2>5. NewTask(w, "worker", "check", [request |-> r, from |-> "SPONSORING", ident |-> identifier[r]],
                attempts[r] + 1) \in Tasks
    BY <2>3, <2>4, NewTaskType DEF Pcs
  <2>6. task' \in [Slots -> Tasks \cup {Idle}]
    BY <2>1, <2>2, <2>5, SpawnType
  <2>7. status' \in [Requests -> RequestStatus \cup {ABSENT}]
    BY <1>t, <2>1, <2>2, MoveType
  <2>8. attempts' \in [Requests -> Nat]
    BY <2>1, <2>2, <2>3 DEF TypeOK, TableTypeOK
  <2> QED
    BY <1>a14, <2>6, <2>7, <2>8 DEF Claim, ClaimNext, TypeOK, TableTypeOK, workerVars, worldVars, budgetVars, tableVars
<1>a15. ASSUME NEW w \in Workers, NEW r \in Requests, NEW k \in Copies, ReconcileRow(w, r, k)
      PROVE  TypeOK'
  <2>1. attempts[r] \in Nat /\ identifier[r] \in BOOLEAN /\ status[r] \in HOLDS_RESERVATION
    BY <1>a15 DEF TypeOK, TableTypeOK, ReconcileRow, Oldest, InStatus, HOLDS_RESERVATION
  <2>2. SnapshotOf(r) \in Snapshots
    BY <2>1 DEF SnapshotOf, Snapshots
  <2>3. PICK at \in Pcs : Spawn(r, k, NewTask(w, "reconcile", at, SnapshotOf(r), attempts[r]))
    BY <1>a15 DEF ReconcileRow, Pcs
  <2>4. task' \in [Slots -> Tasks \cup {Idle}]
    BY <2>1, <2>2, <2>3, NewTaskType, SpawnType
  <2> QED
    BY <1>a15, <2>4 DEF ReconcileRow, TypeOK, TableTypeOK, workerVars, worldVars, budgetVars, tableVars
<1>a16. ASSUME NEW w \in Workers, Crash(w)
      PROVE  TypeOK'
  BY <1>a16, BoundsAssumption DEF Crash, Phases, TypeOK, TableTypeOK, workerVars, worldVars, budgetVars, tableVars
<1>a17. ASSUME NEW r \in Requests, NEW k \in Copies, ExpireClaimed(r, k)
      PROVE  TypeOK'
  <2>1. status' \in [Requests -> RequestStatus \cup {ABSENT}]
    BY <1>a17, <1>t, MoveType DEF ExpireClaimed, Finish, TableTypeOK
  <2>2. reserved' \in [Buckets -> Nat] /\ settled' \in [Buckets -> Nat]
    BY <1>a17, <1>t, ReleaseType DEF ExpireClaimed, Finish, TableTypeOK, budgetVars
  <2>3. task' \in [Slots -> Tasks \cup {Idle}]
    BY <1>a17, EndTaskType DEF ExpireClaimed, Finish
  <2> QED
    BY <1>a17, <2>1, <2>2, <2>3 DEF ExpireClaimed, Finish, TypeOK, TableTypeOK, workerVars, worldVars, budgetVars, tableVars
<1>a18. ASSUME NEW r \in Requests, NEW k \in Copies, BeginSponsor(r, k)
      PROVE  TypeOK'
  <2>1. task' \in [Slots -> Tasks \cup {Idle}]
    BY <1>a18, GoToType DEF BeginSponsor, At, Pcs
  <2> QED
    BY <1>a18, <2>1 DEF BeginSponsor, Delivered, ChainStates, TypeOK, TableTypeOK, workerVars, worldVars, budgetVars, tableVars
<1>a19. ASSUME NEW r \in Requests, NEW k \in Copies, SponsorRetry(r, k)
      PROVE  TypeOK'
  <2>1. status' \in [Requests -> RequestStatus \cup {ABSENT}]
    BY <1>a19, <1>t, MoveType DEF SponsorRetry, Finish, TableTypeOK
  <2>2. reserved' \in [Buckets -> Nat] /\ settled' \in [Buckets -> Nat]
    BY <1>a19, <1>t DEF SponsorRetry, Finish, TableTypeOK, budgetVars
  <2>3. task' \in [Slots -> Tasks \cup {Idle}]
    BY <1>a19, EndTaskType DEF SponsorRetry, Finish
  <2> QED
    BY <1>a19, <2>1, <2>2, <2>3 DEF SponsorRetry, Finish, TypeOK, TableTypeOK, workerVars, worldVars, budgetVars, tableVars
<1>a20. ASSUME NEW r \in Requests, NEW k \in Copies, SponsorFailed(r, k)
      PROVE  TypeOK'
  <2>1. status' \in [Requests -> RequestStatus \cup {ABSENT}]
    BY <1>a20, <1>t, MoveType DEF SponsorFailed, Finish, TableTypeOK
  <2>2. reserved' \in [Buckets -> Nat] /\ settled' \in [Buckets -> Nat]
    BY <1>a20, <1>t, ReleaseType DEF SponsorFailed, Finish, TableTypeOK, budgetVars
  <2>3. task' \in [Slots -> Tasks \cup {Idle}]
    BY <1>a20, EndTaskType DEF SponsorFailed, Finish
  <2> QED
    BY <1>a20, <2>1, <2>2, <2>3 DEF SponsorFailed, Finish, TypeOK, TableTypeOK, workerVars, worldVars, budgetVars, tableVars
<1>a21. ASSUME NEW r \in Requests, NEW k \in Copies, NEW fee \in Fees, Persist(r, k, fee)
      PROVE  TypeOK'
  <2>1. fee \in Nat
    BY BoundsAssumption
  <2>2. status' \in [Requests -> RequestStatus \cup {ABSENT}]
    BY <1>a21, <1>t, MoveType DEF Persist, TableTypeOK
  <2>3. <<r, k>> \in Slots /\ task[<<r, k>>] \in Tasks /\ identifier[r] \in BOOLEAN
    BY <1>a21 DEF Persist, At, TypeOK, TableTypeOK, Slots
  <2>4. [task[<<r, k>>] EXCEPT !.pc = "submit", !.from = "SUBMITTED", !.ident = identifier[r]] \in Tasks
    BY <2>3 DEF Tasks, Pcs, HOLDS_RESERVATION
  <2>5. task' \in [Slots -> Tasks \cup {Idle}]
    BY <1>a21, <2>3, <2>4 DEF Persist, EndTask, TypeOK
  <2>6. actualFee' \in [Requests -> Nat]
    BY <1>a21, <2>1 DEF Persist, TypeOK, TableTypeOK
  <2> QED
    BY <1>a21, <2>2, <2>5, <2>6 DEF Persist, TypeOK, TableTypeOK, workerVars, worldVars, budgetVars, tableVars
<1>a22. ASSUME NEW r \in Requests, NEW k \in Copies, SubmitOK(r, k)
      PROVE  TypeOK'
  <2>1. task' \in [Slots -> Tasks \cup {Idle}]
    BY <1>a22, GoToType DEF SubmitOK, At, Pcs
  <2> QED
    BY <1>a22, <2>1 DEF SubmitOK, Delivered, ChainStates, TypeOK, TableTypeOK, workerVars, worldVars, budgetVars, tableVars
<1>a23. ASSUME NEW r \in Requests, NEW k \in Copies, SubmitTransportError(r, k)
      PROVE  TypeOK'
  <2>1. task' \in [Slots -> Tasks \cup {Idle}]
    BY <1>a23, GoToType DEF SubmitTransportError, At, Pcs
  <2> QED
    BY <1>a23, <2>1 DEF SubmitTransportError, Delivered, ChainStates, TypeOK, TableTypeOK, workerVars, worldVars, budgetVars, tableVars
<1>a24. ASSUME NEW r \in Requests, NEW k \in Copies, SubmitRefused(r, k)
      PROVE  TypeOK'
  <2>1. task' \in [Slots -> Tasks \cup {Idle}]
    BY <1>a24, GoToType DEF SubmitRefused, At, Pcs
  <2> QED
    BY <1>a24, <2>1 DEF SubmitRefused, Delivered, ChainStates, TypeOK, TableTypeOK, workerVars, worldVars, budgetVars, tableVars
<1>a25. ASSUME NEW r \in Requests, NEW k \in Copies, Patch(r, k)
      PROVE  TypeOK'
  <2>1. task' \in [Slots -> Tasks \cup {Idle}]
    BY <1>a25, GoToType DEF Patch, At, Pcs
  <2> QED
    BY <1>a25, <2>1 DEF Patch, Delivered, ChainStates, TypeOK, TableTypeOK, workerVars, worldVars, budgetVars, tableVars
<1>a26. ASSUME NEW r \in Requests, NEW k \in Copies, WaitConfirmed(r, k)
      PROVE  TypeOK'
  <2>1. task' \in [Slots -> Tasks \cup {Idle}]
    BY <1>a26, GoToType DEF WaitConfirmed, At, Pcs
  <2> QED
    BY <1>a26, <2>1 DEF WaitConfirmed, Delivered, ChainStates, TypeOK, TableTypeOK, workerVars, worldVars, budgetVars, tableVars
<1>a27. ASSUME NEW r \in Requests, NEW k \in Copies, WaitFailed(r, k)
      PROVE  TypeOK'
  <2>1. task' \in [Slots -> Tasks \cup {Idle}]
    BY <1>a27, GoToType DEF WaitFailed, At, Pcs
  <2> QED
    BY <1>a27, <2>1 DEF WaitFailed, Delivered, ChainStates, TypeOK, TableTypeOK, workerVars, worldVars, budgetVars, tableVars
<1>a28. ASSUME NEW r \in Requests, NEW k \in Copies, WaitTimeout(r, k)
      PROVE  TypeOK'
  <2>1. task' \in [Slots -> Tasks \cup {Idle}]
    BY <1>a28, GoToType DEF WaitTimeout, At, Pcs
  <2> QED
    BY <1>a28, <2>1 DEF WaitTimeout, Delivered, ChainStates, TypeOK, TableTypeOK, workerVars, worldVars, budgetVars, tableVars
<1>a29. ASSUME NEW r \in Requests, NEW k \in Copies, Confirm(r, k)
      PROVE  TypeOK'
  <2>1. status' \in [Requests -> RequestStatus \cup {ABSENT}]
    BY <1>a29, <1>t, MoveType DEF Confirm, Finish, TableTypeOK
  <2>2. reserved' \in [Buckets -> Nat] /\ settled' \in [Buckets -> Nat]
    BY <1>a29, <1>t, SettleType DEF Confirm, Finish, TableTypeOK, budgetVars
  <2>3. task' \in [Slots -> Tasks \cup {Idle}]
    BY <1>a29, EndTaskType DEF Confirm, Finish
  <2>4. usage' \subseteq UsageRecord
    BY <1>a29, <1>t, UsageType DEF Confirm, Finish, TableTypeOK
  <2> QED
    BY <1>a29, <2>1, <2>2, <2>3, <2>4 DEF Confirm, Finish, TypeOK, TableTypeOK, workerVars, worldVars, budgetVars, tableVars
<1>a30. ASSUME NEW r \in Requests, NEW k \in Copies, Fail(r, k)
      PROVE  TypeOK'
  <2>1. status' \in [Requests -> RequestStatus \cup {ABSENT}]
    BY <1>a30, <1>t, MoveType DEF Fail, Finish, TableTypeOK
  <2>2. reserved' \in [Buckets -> Nat] /\ settled' \in [Buckets -> Nat]
    BY <1>a30, <1>t, ReleaseType DEF Fail, Finish, TableTypeOK, budgetVars
  <2>3. task' \in [Slots -> Tasks \cup {Idle}]
    BY <1>a30, EndTaskType DEF Fail, Finish
  <2> QED
    BY <1>a30, <2>1, <2>2, <2>3 DEF Fail, Finish, TypeOK, TableTypeOK, workerVars, worldVars, budgetVars, tableVars
<1>a31. ASSUME NEW r \in Requests, NEW k \in Copies, Park(r, k)
      PROVE  TypeOK'
  <2>1. status' \in [Requests -> RequestStatus \cup {ABSENT}]
    BY <1>a31, <1>t, MoveType DEF Park, Finish, TableTypeOK
  <2>2. reserved' \in [Buckets -> Nat] /\ settled' \in [Buckets -> Nat]
    BY <1>a31, <1>t DEF Park, Finish, TableTypeOK, budgetVars
  <2>3. task' \in [Slots -> Tasks \cup {Idle}]
    BY <1>a31, EndTaskType DEF Park, Finish
  <2> QED
    BY <1>a31, <2>1, <2>2, <2>3 DEF Park, Finish, TypeOK, TableTypeOK, workerVars, worldVars, budgetVars, tableVars
<1>a32. ASSUME NEW r \in Requests, NEW k \in Copies, ReconcileExpire(r, k)
      PROVE  TypeOK'
  <2>1. status' \in [Requests -> RequestStatus \cup {ABSENT}]
    BY <1>a32, <1>t, MoveType DEF ReconcileExpire, Finish, TableTypeOK
  <2>2. reserved' \in [Buckets -> Nat] /\ settled' \in [Buckets -> Nat]
    BY <1>a32, <1>t, ReleaseType DEF ReconcileExpire, Finish, TableTypeOK, budgetVars
  <2>3. task' \in [Slots -> Tasks \cup {Idle}]
    BY <1>a32, EndTaskType DEF ReconcileExpire, Finish
  <2> QED
    BY <1>a32, <2>1, <2>2, <2>3 DEF ReconcileExpire, Finish, TypeOK, TableTypeOK, workerVars, worldVars, budgetVars, tableVars
<1>a33. ASSUME NEW r \in Requests, NEW k \in Copies, ReconcilePending(r, k)
      PROVE  TypeOK'
  <2>1. task' \in [Slots -> Tasks \cup {Idle}]
    BY <1>a33, EndTaskType DEF ReconcilePending
  <2> QED
    BY <1>a33, <2>1 DEF ReconcilePending, TypeOK, TableTypeOK, workerVars, worldVars, budgetVars, tableVars
<1>a34. ASSUME NEW r \in Requests, NEW k \in Copies, DbError(r, k)
      PROVE  TypeOK'
  <2>1. task' \in [Slots -> Tasks \cup {Idle}]
    BY <1>a34, GoToType, EndTaskType DEF DbError, At, Pcs
  <2> QED
    BY <1>a34, <2>1 DEF DbError, TypeOK, TableTypeOK, workerVars, worldVars, budgetVars, tableVars
<1>a35. ASSUME UNCHANGED vars
      PROVE  TypeOK'
  BY <1>a35 DEF vars, TypeOK, TableTypeOK, workerVars, worldVars, budgetVars, tableVars
<1> QED
  BY <1>a1, <1>a2, <1>a3, <1>a4, <1>a5, <1>a6, <1>a7, <1>a8, <1>a9, <1>a10, <1>a11, <1>a12, <1>a13,
     <1>a14, <1>a15, <1>a16, <1>a17, <1>a18, <1>a19, <1>a20, <1>a21, <1>a22, <1>a23, <1>a24, <1>a25, <1>a26,
     <1>a27, <1>a28, <1>a29, <1>a30, <1>a31, <1>a32, <1>a33, <1>a34, <1>a35
     DEF Next, ApiStep, WorldStep, RecoveryStep, TaskStep

\* The initial state has the types.
LEMMA TypeInit == Init => TypeOK
<1> SUFFICES ASSUME Init
             PROVE  TypeOK
  OBVIOUS
<1>1. TableTypeOK
  BY DEF Init, TableInit, TableTypeOK
<1> QED
  BY <1>1, BoundsAssumption DEF Init, TypeOK, Phases, Ages, ChainStates

\* The rows, the buckets, the snapshots of the recovery pass and the tasks
\* always have the types of TypeOK.
THEOREM TypeCorrect == Spec => []TypeOK
  BY TypeInit, TypeStep, PTL DEF Spec

-----------------------------------------------------------------------------
(* The statuses of a row *)

\* One step of a row: none, its insertion, or an entry of the transition table.
MovesByTable(r) ==
  \/ status'[r] = status[r]
  \/ status[r] = ABSENT /\ status'[r] = "RECEIVED"
  \/ status[r] \in RequestStatus /\ CanTransition(status[r], status'[r])

\* Every step moves every row by the table.
LEMMA StatusStep == TypeOK /\ [Next]_vars => \A q \in Requests : MovesByTable(q)
<1> SUFFICES ASSUME TypeOK, [Next]_vars, NEW q \in Requests
             PROVE  MovesByTable(q)
  OBVIOUS
<1> USE DEF MovesByTable
<1>t. status \in [Requests -> RequestStatus \cup {ABSENT}]
  BY DEF TypeOK, TableTypeOK
<1>u. ASSUME UNCHANGED status
      PROVE  MovesByTable(q)
  BY <1>u
<1>m. ASSUME NEW r \in Requests, NEW from, NEW to, from # ABSENT, TransitionOK(r, from, to), MoveTo(r, to)
      PROVE  MovesByTable(q)
  BY <1>t, <1>m DEF TransitionOK, MoveTo
<1>n. \A w \in Workers : \A sn \in todo[w] : sn.request \in Requests
  BY DEF TypeOK, Snapshots
<1>f. \A r \in Requests, k \in Copies : task[<<r, k>>] # Idle => From(r, k) # ABSENT
  BY DEF TypeOK, Slots, Tasks, From, HOLDS_RESERVATION, ABSENT
<1>a1. ASSUME NEW r \in Requests, Receive(r)
      PROVE  MovesByTable(q)
  BY <1>a1, <1>t DEF Receive, InsertReceived, MoveTo
<1>a2. ASSUME NEW r \in Requests, Reject(r)
      PROVE  MovesByTable(q)
  BY <1>a2, <1>m DEF Reject, ABSENT
<1>a3. ASSUME NEW r \in Requests, NEW p \in Periods, NEW a \in Amounts, Admit(r, p, a)
      PROVE  MovesByTable(q)
  BY <1>a3, <1>m DEF Admit, ABSENT
<1>a4. ASSUME NEW r \in Requests, GrowOld(r)
      PROVE  MovesByTable(q)
  BY <1>a4, <1>u DEF GrowOld, tableVars
<1>a5. ASSUME NEW r \in Requests, NEW outcome \in Outcomes, Include(r, outcome)
      PROVE  MovesByTable(q)
  BY <1>a5, <1>u DEF Include, tableVars
<1>a6. ASSUME NEW r \in Requests, Drop(r)
      PROVE  MovesByTable(q)
  BY <1>a6, <1>u DEF Drop, tableVars
<1>a7. ASSUME NEW w \in Workers, ListSponsoring(w)
      PROVE  MovesByTable(q)
  BY <1>a7, <1>u DEF ListSponsoring, tableVars
<1>a8. ASSUME NEW w \in Workers, ListSubmitted(w)
      PROVE  MovesByTable(q)
  BY <1>a8, <1>u DEF ListSubmitted, tableVars
<1>a9. ASSUME NEW w \in Workers, NEW sn \in todo[w], Requeue(w, sn)
      PROVE  MovesByTable(q)
  <2>1. sn.from # ABSENT
    BY DEF TypeOK, Snapshots, HOLDS_RESERVATION, ABSENT
  <2> QED
    BY <1>a9, <2>1, <1>n, <1>m, <1>u DEF Requeue
<1>a10. ASSUME NEW w \in Workers, NEW sn \in todo[w], ExpireRecovered(w, sn)
      PROVE  MovesByTable(q)
  <2>1. sn.from # ABSENT
    BY DEF TypeOK, Snapshots, HOLDS_RESERVATION, ABSENT
  <2> QED
    BY <1>a10, <2>1, <1>n, <1>m, <1>u DEF ExpireRecovered
<1>a11. ASSUME NEW w \in Workers, NEW sn \in todo[w], NEW k \in Copies, Resume(w, sn, k)
      PROVE  MovesByTable(q)
  BY <1>a11, <1>u DEF Resume, tableVars
<1>a12. ASSUME NEW w \in Workers, RecoveryDone(w)
      PROVE  MovesByTable(q)
  BY <1>a12, <1>u DEF RecoveryDone, tableVars
<1>a13. ASSUME NEW w \in Workers, RecoveryFails(w)
      PROVE  MovesByTable(q)
  BY <1>a13, <1>u DEF RecoveryFails, tableVars
<1>a14. ASSUME NEW w \in Workers, NEW k \in Copies, Claim(w, k)
      PROVE  MovesByTable(q)
  <2>1. PICK r \in Requests : status[r] = "RESERVED" /\ MoveTo(r, "SPONSORING")
    BY <1>a14 DEF Claim, ClaimNext, Oldest, InStatus
  <2>2. CanTransition("RESERVED", "SPONSORING")
    BY DEF CanTransition, T
  <2> QED
    BY <2>1, <2>2, <1>m DEF TransitionOK, ABSENT
<1>a15. ASSUME NEW w \in Workers, NEW r \in Requests, NEW k \in Copies, ReconcileRow(w, r, k)
      PROVE  MovesByTable(q)
  BY <1>a15, <1>u DEF ReconcileRow, tableVars
<1>a16. ASSUME NEW w \in Workers, Crash(w)
      PROVE  MovesByTable(q)
  BY <1>a16, <1>u DEF Crash, tableVars
<1>a17. ASSUME NEW r \in Requests, NEW k \in Copies, ExpireClaimed(r, k)
      PROVE  MovesByTable(q)
  BY <1>a17, <1>f, <1>m, <1>u DEF ExpireClaimed, Finish, At
<1>a18. ASSUME NEW r \in Requests, NEW k \in Copies, BeginSponsor(r, k)
      PROVE  MovesByTable(q)
  BY <1>a18, <1>u DEF BeginSponsor, tableVars
<1>a19. ASSUME NEW r \in Requests, NEW k \in Copies, SponsorRetry(r, k)
      PROVE  MovesByTable(q)
  BY <1>a19, <1>f, <1>m, <1>u DEF SponsorRetry, Finish, At
<1>a20. ASSUME NEW r \in Requests, NEW k \in Copies, SponsorFailed(r, k)
      PROVE  MovesByTable(q)
  BY <1>a20, <1>f, <1>m, <1>u DEF SponsorFailed, Finish, At
<1>a21. ASSUME NEW r \in Requests, NEW k \in Copies, NEW fee \in Fees, Persist(r, k, fee)
      PROVE  MovesByTable(q)
  BY <1>a21, <1>f, <1>m, <1>u DEF Persist, At
<1>a22. ASSUME NEW r \in Requests, NEW k \in Copies, SubmitOK(r, k)
      PROVE  MovesByTable(q)
  BY <1>a22, <1>u DEF SubmitOK, tableVars
<1>a23. ASSUME NEW r \in Requests, NEW k \in Copies, SubmitTransportError(r, k)
      PROVE  MovesByTable(q)
  BY <1>a23, <1>u DEF SubmitTransportError, tableVars
<1>a24. ASSUME NEW r \in Requests, NEW k \in Copies, SubmitRefused(r, k)
      PROVE  MovesByTable(q)
  BY <1>a24, <1>u DEF SubmitRefused, tableVars
<1>a25. ASSUME NEW r \in Requests, NEW k \in Copies, Patch(r, k)
      PROVE  MovesByTable(q)
  BY <1>a25, <1>u DEF Patch, tableVars
<1>a26. ASSUME NEW r \in Requests, NEW k \in Copies, WaitConfirmed(r, k)
      PROVE  MovesByTable(q)
  BY <1>a26, <1>u DEF WaitConfirmed, tableVars
<1>a27. ASSUME NEW r \in Requests, NEW k \in Copies, WaitFailed(r, k)
      PROVE  MovesByTable(q)
  BY <1>a27, <1>u DEF WaitFailed, tableVars
<1>a28. ASSUME NEW r \in Requests, NEW k \in Copies, WaitTimeout(r, k)
      PROVE  MovesByTable(q)
  BY <1>a28, <1>u DEF WaitTimeout, tableVars
<1>a29. ASSUME NEW r \in Requests, NEW k \in Copies, Confirm(r, k)
      PROVE  MovesByTable(q)
  BY <1>a29, <1>f, <1>m, <1>u DEF Confirm, Finish, At
<1>a30. ASSUME NEW r \in Requests, NEW k \in Copies, Fail(r, k)
      PROVE  MovesByTable(q)
  BY <1>a30, <1>f, <1>m, <1>u DEF Fail, Finish, At
<1>a31. ASSUME NEW r \in Requests, NEW k \in Copies, Park(r, k)
      PROVE  MovesByTable(q)
  BY <1>a31, <1>f, <1>m, <1>u DEF Park, Finish, At
<1>a32. ASSUME NEW r \in Requests, NEW k \in Copies, ReconcileExpire(r, k)
      PROVE  MovesByTable(q)
  BY <1>a32, <1>f, <1>m, <1>u DEF ReconcileExpire, Finish, At
<1>a33. ASSUME NEW r \in Requests, NEW k \in Copies, ReconcilePending(r, k)
      PROVE  MovesByTable(q)
  BY <1>a33, <1>u DEF ReconcilePending, tableVars
<1>a34. ASSUME NEW r \in Requests, NEW k \in Copies, DbError(r, k)
      PROVE  MovesByTable(q)
  BY <1>a34, <1>u DEF DbError, tableVars
<1>a35. ASSUME UNCHANGED vars
      PROVE  MovesByTable(q)
  BY <1>a35, <1>u DEF vars
<1> QED
  BY <1>a1, <1>a2, <1>a3, <1>a4, <1>a5, <1>a6, <1>a7, <1>a8, <1>a9, <1>a10, <1>a11, <1>a12, <1>a13,
     <1>a14, <1>a15, <1>a16, <1>a17, <1>a18, <1>a19, <1>a20, <1>a21, <1>a22, <1>a23, <1>a24, <1>a25, <1>a26,
     <1>a27, <1>a28, <1>a29, <1>a30, <1>a31, <1>a32, <1>a33, <1>a34, <1>a35
     DEF Next, ApiStep, WorldStep, RecoveryStep, TaskStep

\* The order in which a client sees the statuses: "pending -> approved ->
\* submitted -> confirmed (or rejected / failed)" (docs/integration.md:80).
PublicOrder ==
  [pending |-> 0, approved |-> 1, submitted |-> 2, unknown |-> 3, confirmed |-> 4, rejected |-> 4, failed |-> 4]

Told(s) == PublicStatus(s)

\* "Statuses only ever move forward" (docs/integration.md:80), also when a
\* restart or a retry puts a row back into the queue: what a client is told of
\* a request stays or moves on, and an end is not exchanged for another.
StatusesMoveForward ==
  \A r \in Requests : status[r] # ABSENT =>
    \/ Told(status'[r]) = Told(status[r])
    \/ PublicOrder[Told(status[r])] < PublicOrder[Told(status'[r])]

\* The public status of a request only moves forward (packages/core/src/state.ts),
\* whatever tasks, passes and restarts race for its row.
THEOREM StatusesMoveForwardCorrect == Spec => [][StatusesMoveForward]_vars
<1>1. ASSUME NEW r \in Requests, status[r] # ABSENT, MovesByTable(r)
      PROVE  Told(status'[r]) = Told(status[r]) \/ PublicOrder[Told(status[r])] < PublicOrder[Told(status'[r])]
  <2>1. CASE status'[r] = status[r]
    BY <2>1
  <2>2. CASE status[r] \in RequestStatus /\ CanTransition(status[r], status'[r])
    <3>1. \/ status[r] = "RECEIVED" /\ status'[r] \in {"REJECTED", "RESERVED"}
          \/ status[r] = "RESERVED" /\ status'[r] \in {"SPONSORING", "EXPIRED", "SPONSORING_FAILED"}
          \/ status[r] = "SPONSORING" /\ status'[r] \in {"SUBMITTED", "SPONSORING_FAILED", "EXPIRED", "RESERVED"}
          \/ status[r] = "SUBMITTED" /\ status'[r] \in {"CONFIRMED", "SUBMISSION_FAILED", "TIMEOUT", "EXPIRED"}
          \/ status[r] = "TIMEOUT" /\ status'[r] \in {"CONFIRMED", "SUBMISSION_FAILED", "UNKNOWN", "EXPIRED"}
          \/ status[r] = "UNKNOWN" /\ status'[r] \in {"CONFIRMED", "SUBMISSION_FAILED", "EXPIRED"}
      BY <2>2 DEF RequestStatus, CanTransition, T
    <3> QED
      BY <3>1 DEF Told, PublicStatus, PublicOrder
  <2> QED
    BY <1>1, <2>1, <2>2 DEF MovesByTable
<1>2. TypeOK /\ [Next]_vars => [StatusesMoveForward]_vars
  BY <1>1, StatusStep DEF StatusesMoveForward
<1> QED
  BY <1>2, TypeCorrect, PTL DEF Spec

\* A row as Admission sees it: the worker's statuses are one.
SeenByAdmission(s) == IF s \in HOLDS_RESERVATION THEN "RESERVED" ELSE s

\* What Admission takes the rest of the system to be: a reserved request ends
\* once, in one step, and never as REJECTED.
ResolvedOnce ==
  \A r \in Requests :
    \/ SeenByAdmission(status'[r]) = SeenByAdmission(status[r])
    \/ status[r] = ABSENT /\ status'[r] = "RECEIVED"
    \/ status[r] = "RECEIVED" /\ status'[r] \in {"RESERVED", "REJECTED"}
    \/ SeenByAdmission(status[r]) = "RESERVED" /\ status'[r] \in TERMINAL \ {"REJECTED"}

\* The worker is the environment that Admission assumes: its step Resolve and
\* its assumption on Endings stand for claimNext, transition, the recovery pass
\* and the reconciler of apps/worker/src/worker.ts.
THEOREM ResolvedOnceCorrect == Spec => [][ResolvedOnce]_vars
<1>1. TypeOK /\ [Next]_vars => [ResolvedOnce]_vars
  BY StatusStep DEF ResolvedOnce, SeenByAdmission, MovesByTable, CanTransition, T, RequestStatus, HOLDS_RESERVATION,
                    TERMINAL, ABSENT
<1> QED
  BY <1>1, TypeCorrect, PTL DEF Spec

=============================================================================
