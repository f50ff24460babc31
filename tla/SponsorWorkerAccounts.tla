---------------------- MODULE SponsorWorkerAccounts -------------------------
(***************************************************************************)
(* What SponsorWorker guarantees about money: the budget tables and the    *)
(* usage records agree with the requests, buckets keep their limits, and   *)
(* the whole system implements SponsorshipLedger.                          *)
(***************************************************************************)
EXTENDS SponsorWorkerTypes

(* What a step does to the budget: nothing, or one of three effects *)

\* Which statuses stand for which reservation.
LEMMA ReservationFacts ==
  /\ \A s : ReservationAt(s) = "held" <=> s \in HOLDS_RESERVATION
  /\ \A s : ReservationAt(s) = "settled" <=> s = "CONFIRMED"
  /\ \A s : ReservationAt(s) = "none" <=> s \in {ABSENT, "RECEIVED", "REJECTED"}
  /\ \A s : s \in {"SPONSORING_FAILED", "SUBMISSION_FAILED", "EXPIRED"} => ReservationAt(s) = "freed"
  BY DEF ReservationAt, HOLDS_RESERVATION, ABSENT

OthersStay(r) == \A q \in Requests \ {r} : Reservation(q)' = Reservation(q)

NoEffect ==
  /\ UNCHANGED <<amount, periodOf, reserved, settled, usage>>
  /\ \A q \in Requests : /\ Reservation(q)' = Reservation(q)
                         /\ Reservation(q) = "settled" => actualFee'[q] = actualFee[q]

HoldEffect(r, p, a) ==
  /\ Reservation(r) = "none" /\ Reservation(r)' = "held" /\ OthersStay(r)
  /\ Reserve(r, p, a)
  /\ amount'   = [amount EXCEPT ![r] = a]
  /\ periodOf' = [periodOf EXCEPT ![r] = p]
  /\ UNCHANGED <<actualFee, usage>>

FreeEffect(r) ==
  /\ Reservation(r) = "held" /\ Reservation(r)' = "freed" /\ OthersStay(r)
  /\ Release(r)
  /\ UNCHANGED <<amount, periodOf, actualFee, usage>>

SettleEffect(r) ==
  /\ Reservation(r) = "held" /\ Reservation(r)' = "settled" /\ OthersStay(r)
  /\ Settle(r) /\ InsertUsage(r)
  /\ UNCHANGED <<amount, periodOf, actualFee>>

Effect ==
  \/ NoEffect
  \/ \E r \in Requests, p \in Periods, a \in Amounts : HoldEffect(r, p, a)
  \/ \E r \in Requests : FreeEffect(r) \/ SettleEffect(r)

\* Every step has one of the effects: this is where each task, pass and
\* restart is seen to change the budget only together with the status.
LEMMA EffectStep == TypeOK /\ [Next]_vars => Effect
<1> SUFFICES ASSUME TypeOK, [Next]_vars
             PROVE  Effect
  OBVIOUS
<1>t. status \in [Requests -> RequestStatus \cup {ABSENT}]
  BY DEF TypeOK, TableTypeOK
<1>s. ASSUME NEW r \in Requests, NEW to, MoveTo(r, to)
      PROVE  OthersStay(r) /\ Reservation(r)' = ReservationAt(to)
  BY <1>t, <1>s DEF MoveTo, OthersStay, Reservation
<1>u. ASSUME UNCHANGED <<status, amount, periodOf, actualFee, reserved, settled, usage>>
      PROVE  Effect
  BY <1>u DEF Effect, NoEffect, Reservation
<1>k. ASSUME NEW r \in Requests, NEW to, MoveTo(r, to), ReservationAt(status[r]) = ReservationAt(to),
             UNCHANGED <<amount, periodOf, actualFee, reserved, settled, usage>>
      PROVE  Effect
  BY <1>s, <1>k DEF Effect, NoEffect, OthersStay, Reservation
<1>r. ASSUME NEW r \in Requests, NEW to \in {"SPONSORING_FAILED", "SUBMISSION_FAILED", "EXPIRED"},
             NEW from \in HOLDS_RESERVATION, TransitionOK(r, from, to), MoveTo(r, to), Release(r),
             UNCHANGED <<amount, periodOf, actualFee, usage>>
      PROVE  Effect
  BY <1>s, <1>r, ReservationFacts DEF Effect, FreeEffect, Reservation, TransitionOK
<1>n. \A w \in Workers : \A sn \in todo[w] : sn.request \in Requests /\ sn.from \in HOLDS_RESERVATION
  BY DEF TypeOK, Snapshots
<1>f. \A r \in Requests, k \in Copies : task[<<r, k>>] # Idle => From(r, k) \in HOLDS_RESERVATION
  BY DEF TypeOK, Slots, Tasks, From
<1> USE DEF budgetVars, tableVars
<1>a1. ASSUME NEW r \in Requests, Receive(r)
      PROVE  Effect
  BY <1>a1, <1>k, ReservationFacts DEF Receive, InsertReceived
<1>a2. ASSUME NEW r \in Requests, Reject(r)
      PROVE  Effect
  BY <1>a2, <1>k, ReservationFacts DEF Reject, TransitionOK
<1>a3. ASSUME NEW r \in Requests, NEW p \in Periods, NEW a \in Amounts, Admit(r, p, a)
      PROVE  Effect
  <2>1. Reservation(r) = "none" /\ Reservation(r)' = "held" /\ OthersStay(r)
    BY <1>a3, <1>s, ReservationFacts DEF Admit, TransitionOK, Reservation, HOLDS_RESERVATION
  <2> QED
    BY <1>a3, <2>1 DEF Admit, Effect, HoldEffect
<1>a4. ASSUME NEW r \in Requests, GrowOld(r)
      PROVE  Effect
  BY <1>a4, <1>u DEF GrowOld, tableVars
<1>a5. ASSUME NEW r \in Requests, NEW outcome \in Outcomes, Include(r, outcome)
      PROVE  Effect
  BY <1>a5, <1>u DEF Include, tableVars
<1>a6. ASSUME NEW r \in Requests, Drop(r)
      PROVE  Effect
  BY <1>a6, <1>u DEF Drop, tableVars
<1>a7. ASSUME NEW w \in Workers, ListSponsoring(w)
      PROVE  Effect
  BY <1>a7, <1>u DEF ListSponsoring, tableVars
<1>a8. ASSUME NEW w \in Workers, ListSubmitted(w)
      PROVE  Effect
  BY <1>a8, <1>u DEF ListSubmitted, tableVars
<1>a9. ASSUME NEW w \in Workers, NEW sn \in todo[w], Requeue(w, sn)
      PROVE  Effect
  BY <1>a9, <1>n, <1>k, <1>u, ReservationFacts DEF Requeue, TransitionOK, HOLDS_RESERVATION
<1>a10. ASSUME NEW w \in Workers, NEW sn \in todo[w], ExpireRecovered(w, sn)
      PROVE  Effect
  <2>1. CASE TransitionOK(sn.request, sn.from, "EXPIRED")
    BY <1>a10, <2>1, <1>n, <1>r DEF ExpireRecovered
  <2> QED
    BY <1>a10, <2>1, <1>u DEF ExpireRecovered
<1>a11. ASSUME NEW w \in Workers, NEW sn \in todo[w], NEW k \in Copies, Resume(w, sn, k)
      PROVE  Effect
  BY <1>a11, <1>u DEF Resume, tableVars
<1>a12. ASSUME NEW w \in Workers, RecoveryDone(w)
      PROVE  Effect
  BY <1>a12, <1>u DEF RecoveryDone, tableVars
<1>a13. ASSUME NEW w \in Workers, RecoveryFails(w)
      PROVE  Effect
  BY <1>a13, <1>u DEF RecoveryFails, tableVars
<1>a14. ASSUME NEW w \in Workers, NEW k \in Copies, Claim(w, k)
      PROVE  Effect
  <2>1. PICK r \in Requests : status[r] = "RESERVED" /\ MoveTo(r, "SPONSORING")
    BY <1>a14 DEF Claim, ClaimNext, Oldest, InStatus
  <2>2. ReservationAt("RESERVED") = ReservationAt("SPONSORING")
    BY ReservationFacts DEF HOLDS_RESERVATION
  <2> QED
    BY <1>a14, <2>1, <2>2, <1>k DEF Claim, ClaimNext
<1>a15. ASSUME NEW w \in Workers, NEW r \in Requests, NEW k \in Copies, ReconcileRow(w, r, k)
      PROVE  Effect
  BY <1>a15, <1>u DEF ReconcileRow, tableVars
<1>a16. ASSUME NEW w \in Workers, Crash(w)
      PROVE  Effect
  BY <1>a16, <1>u DEF Crash, tableVars
<1>a17. ASSUME NEW r \in Requests, NEW k \in Copies, ExpireClaimed(r, k)
      PROVE  Effect
  <2>1. CASE TransitionOK(r, From(r, k), "EXPIRED")
    BY <1>a17, <2>1, <1>f, <1>r DEF ExpireClaimed, Finish, At
  <2> QED
    BY <1>a17, <2>1, <1>u DEF ExpireClaimed, Finish
<1>a18. ASSUME NEW r \in Requests, NEW k \in Copies, BeginSponsor(r, k)
      PROVE  Effect
  BY <1>a18, <1>u DEF BeginSponsor, tableVars
<1>a19. ASSUME NEW r \in Requests, NEW k \in Copies, SponsorRetry(r, k)
      PROVE  Effect
  <2>1. CASE TransitionOK(r, From(r, k), "RESERVED")
    <3>1. ReservationAt(status[r]) = "held" /\ ReservationAt("RESERVED") = "held"
      BY <1>a19, <2>1, <1>f, ReservationFacts DEF TransitionOK, At, SponsorRetry, HOLDS_RESERVATION
    <3> QED
      BY <1>a19, <2>1, <3>1, <1>k DEF SponsorRetry, Finish
  <2> QED
    BY <1>a19, <2>1, <1>u DEF SponsorRetry, Finish
<1>a20. ASSUME NEW r \in Requests, NEW k \in Copies, SponsorFailed(r, k)
      PROVE  Effect
  <2>1. CASE TransitionOK(r, From(r, k), "SPONSORING_FAILED")
    BY <1>a20, <2>1, <1>f, <1>r DEF SponsorFailed, Finish, At
  <2> QED
    BY <1>a20, <2>1, <1>u DEF SponsorFailed, Finish
<1>a21. ASSUME NEW r \in Requests, NEW k \in Copies, NEW fee \in Fees, Persist(r, k, fee)
      PROVE  Effect
  <2>1. CASE TransitionOK(r, From(r, k), "SUBMITTED")
    <3>1. ReservationAt(status[r]) = "held" /\ ReservationAt("SUBMITTED") = "held"
      BY <1>a21, <2>1, <1>f, ReservationFacts DEF TransitionOK, At, Persist, HOLDS_RESERVATION
    <3>2. MoveTo(r, "SUBMITTED") /\ actualFee' = [actualFee EXCEPT ![r] = fee]
      BY <1>a21, <2>1 DEF Persist
    <3>3. \A q \in Requests : q # r => actualFee'[q] = actualFee[q]
      BY <3>2 DEF TypeOK, TableTypeOK
    <3> QED
      BY <1>a21, <3>1, <3>2, <3>3, <1>s DEF Persist, Effect, NoEffect, OthersStay, Reservation
  <2> QED
    BY <1>a21, <2>1, <1>u DEF Persist
<1>a22. ASSUME NEW r \in Requests, NEW k \in Copies, SubmitOK(r, k)
      PROVE  Effect
  BY <1>a22, <1>u DEF SubmitOK, tableVars
<1>a23. ASSUME NEW r \in Requests, NEW k \in Copies, SubmitTransportError(r, k)
      PROVE  Effect
  BY <1>a23, <1>u DEF SubmitTransportError, tableVars
<1>a24. ASSUME NEW r \in Requests, NEW k \in Copies, SubmitRefused(r, k)
      PROVE  Effect
  BY <1>a24, <1>u DEF SubmitRefused, tableVars
<1>a25. ASSUME NEW r \in Requests, NEW k \in Copies, Patch(r, k)
      PROVE  Effect
  BY <1>a25, <1>u DEF Patch, tableVars
<1>a26. ASSUME NEW r \in Requests, NEW k \in Copies, WaitConfirmed(r, k)
      PROVE  Effect
  BY <1>a26, <1>u DEF WaitConfirmed, tableVars
<1>a27. ASSUME NEW r \in Requests, NEW k \in Copies, WaitFailed(r, k)
      PROVE  Effect
  BY <1>a27, <1>u DEF WaitFailed, tableVars
<1>a28. ASSUME NEW r \in Requests, NEW k \in Copies, WaitTimeout(r, k)
      PROVE  Effect
  BY <1>a28, <1>u DEF WaitTimeout, tableVars
<1>a29. ASSUME NEW r \in Requests, NEW k \in Copies, Confirm(r, k)
      PROVE  Effect
  <2>1. CASE TransitionOK(r, From(r, k), "CONFIRMED")
    <3>1. MoveTo(r, "CONFIRMED") /\ Settle(r) /\ InsertUsage(r)
      BY <1>a29, <2>1 DEF Confirm, Finish
    <3>2. Reservation(r) = "held" /\ Reservation(r)' = "settled" /\ OthersStay(r)
      BY <1>a29, <2>1, <3>1, <1>f, <1>s, ReservationFacts DEF Confirm, TransitionOK, Reservation, At
    <3> QED
      BY <1>a29, <3>1, <3>2 DEF Confirm, Finish, Effect, SettleEffect
  <2> QED
    BY <1>a29, <2>1, <1>u DEF Confirm, Finish
<1>a30. ASSUME NEW r \in Requests, NEW k \in Copies, Fail(r, k)
      PROVE  Effect
  <2>1. CASE TransitionOK(r, From(r, k), "SUBMISSION_FAILED")
    BY <1>a30, <2>1, <1>f, <1>r DEF Fail, Finish, At
  <2> QED
    BY <1>a30, <2>1, <1>u DEF Fail, Finish
<1>a31. ASSUME NEW r \in Requests, NEW k \in Copies, Park(r, k)
      PROVE  Effect
  <2>1. CASE TransitionOK(r, From(r, k), "TIMEOUT")
    <3>1. ReservationAt(status[r]) = "held" /\ ReservationAt("TIMEOUT") = "held"
      BY <1>a31, <2>1, <1>f, ReservationFacts DEF TransitionOK, At, Park, HOLDS_RESERVATION
    <3> QED
      BY <1>a31, <2>1, <3>1, <1>k DEF Park, Finish
  <2> QED
    BY <1>a31, <2>1, <1>u DEF Park, Finish
<1>a32. ASSUME NEW r \in Requests, NEW k \in Copies, ReconcileExpire(r, k)
      PROVE  Effect
  <2>1. CASE TransitionOK(r, From(r, k), "EXPIRED")
    BY <1>a32, <2>1, <1>f, <1>r DEF ReconcileExpire, Finish, At
  <2> QED
    BY <1>a32, <2>1, <1>u DEF ReconcileExpire, Finish
<1>a33. ASSUME NEW r \in Requests, NEW k \in Copies, ReconcilePending(r, k)
      PROVE  Effect
  BY <1>a33, <1>u DEF ReconcilePending, tableVars
<1>a34. ASSUME NEW r \in Requests, NEW k \in Copies, DbError(r, k)
      PROVE  Effect
  BY <1>a34, <1>u DEF DbError, tableVars
<1>a35. ASSUME UNCHANGED vars
      PROVE  Effect
  BY <1>a35, <1>u DEF vars
<1> QED
  BY <1>a1, <1>a2, <1>a3, <1>a4, <1>a5, <1>a6, <1>a7, <1>a8, <1>a9, <1>a10, <1>a11, <1>a12, <1>a13,
     <1>a14, <1>a15, <1>a16, <1>a17, <1>a18, <1>a19, <1>a20, <1>a21, <1>a22, <1>a23, <1>a24, <1>a25, <1>a26,
     <1>a27, <1>a28, <1>a29, <1>a30, <1>a31, <1>a32, <1>a33, <1>a34, <1>a35
     DEF Next, ApiStep, WorldStep, RecoveryStep, TaskStep

-----------------------------------------------------------------------------
(* BudgetMatchesRequests and WithinLimit *)

\* A bucket agrees with the requests, whose units are finitely many, and is
\* within its limit but for what was overspent.
Accounted(b) ==
  /\ IsFiniteSet(UnitsOf(HeldIn(b), amount))
  /\ IsFiniteSet(UnitsOf(SpentIn(b), actualFee))
  /\ IsFiniteSet(UnitsOf(SpentIn(b), Overspend))
  /\ reserved[b] = Total(HeldIn(b), amount)
  /\ settled[b]  = Total(SpentIn(b), actualFee)
  /\ reserved[b] + settled[b] <= LimitOf(b) + Total(SpentIn(b), Overspend)

AccountsInv == \A b \in Buckets : Accounted(b)

\* The buckets of a request exist.
LEMMA BucketsOfType ==
  ASSUME NEW r \in Requests, NEW p \in Periods
  PROVE  BucketsOf(r, p) \subseteq Buckets
  BY UsersAssumption DEF BucketsOf, Buckets

\* Limits are natural numbers.
LEMMA LimitType ==
  ASSUME NEW b
  PROVE  LimitOf(b) \in Nat
  BY LimitsAssumption DEF LimitOf

\* The sums of a bucket that agrees are natural numbers.
LEMMA TotalsType ==
  ASSUME NEW b, Accounted(b)
  PROVE  /\ Total(HeldIn(b), amount) \in Nat /\ Total(SpentIn(b), actualFee) \in Nat
         /\ Total(SpentIn(b), Overspend) \in Nat
  BY FS_CardinalityType DEF Accounted, Total

\* No effect on the budget leaves every bucket as it was.
LEMMA AccountsNoEffect ==
  ASSUME TypeOK, NEW b \in Buckets, Accounted(b), NoEffect
  PROVE  Accounted(b)'
<1>1. HeldIn(b)' = HeldIn(b) /\ SpentIn(b)' = SpentIn(b)
  BY ReservationFacts DEF NoEffect, HeldIn, SpentIn, InBucket, Reservation
<1>2. \A q \in SpentIn(b) : actualFee'[q] = actualFee[q] /\ q \in Requests
  BY ReservationFacts DEF NoEffect, SpentIn, Reservation
<1>3. \A q \in SpentIn(b) : Overspend'[q] = Overspend[q]
  BY <1>2 DEF NoEffect, Overspend
<1>4. UnitsOf(SpentIn(b), actualFee') = UnitsOf(SpentIn(b), actualFee)
  BY <1>2, UnitsSame
<1>5. UnitsOf(SpentIn(b), Overspend') = UnitsOf(SpentIn(b), Overspend)
  BY <1>3, UnitsSame
<1>6. amount' = amount /\ reserved' = reserved /\ settled' = settled
  BY DEF NoEffect
<1> QED
  BY <1>1, <1>4, <1>5, <1>6, Zenon DEF Accounted, Total, LimitOf

\* A reservation adds the amount to both, where it fits.
LEMMA AccountsHold ==
  ASSUME TypeOK, NEW b \in Buckets, Accounted(b),
         NEW r \in Requests, NEW p \in Periods, NEW a \in Amounts, HoldEffect(r, p, a)
  PROVE  Accounted(b)'
<1>a. a \in Nat
  BY BoundsAssumption
<1>t. /\ amount \in [Requests -> Nat] /\ periodOf \in [Requests -> Periods]
      /\ reserved \in [Buckets -> Nat] /\ settled \in [Buckets -> Nat]
  BY DEF TypeOK, TableTypeOK
<1>l. LimitOf(b) \in Nat
  BY LimitType
<1>1. r \notin HeldIn(b) /\ r \notin SpentIn(b)
  BY ReservationFacts DEF HoldEffect, HeldIn, SpentIn, Reservation
<1>2. /\ SpentIn(b)' = SpentIn(b)
      /\ HeldIn(b)' = IF b \in BucketsOf(r, p) THEN HeldIn(b) \cup {r} ELSE HeldIn(b)
  BY <1>1, <1>t, ReservationFacts DEF HoldEffect, OthersStay, HeldIn, SpentIn, InBucket, Reservation
<1>3. \A q \in Requests : q # r => amount'[q] = amount[q] /\ Overspend'[q] = Overspend[q]
  BY <1>t DEF HoldEffect, Overspend
<1>4. UnitsOf(HeldIn(b), amount') = UnitsOf(HeldIn(b), amount)
  BY <1>1, <1>3, UnitsSame DEF HeldIn
<1>5. UnitsOf(SpentIn(b), Overspend') = UnitsOf(SpentIn(b), Overspend)
  BY <1>1, <1>3, UnitsSame DEF SpentIn
<1>6. actualFee' = actualFee /\ settled' = settled /\ amount'[r] = a
  BY <1>t DEF HoldEffect, Reserve
<1>7. IsFiniteSet(UnitsOf(SpentIn(b), actualFee))' /\ IsFiniteSet(UnitsOf(SpentIn(b), Overspend))'
  BY <1>2, <1>5, <1>6, Zenon DEF Accounted
<1>8. Total(SpentIn(b), actualFee)' = Total(SpentIn(b), actualFee) /\ Total(SpentIn(b), Overspend)' = Total(SpentIn(b), Overspend)
  BY <1>2, <1>5, <1>6, Zenon DEF Total
<1>9. CASE b \in BucketsOf(r, p)
  <2>1. IsFiniteSet(UnitsOf(HeldIn(b), amount'))
    BY <1>4, Zenon DEF Accounted
  <2>2. /\ IsFiniteSet(UnitsOf(HeldIn(b) \cup {r}, amount'))
        /\ Total(HeldIn(b) \cup {r}, amount') = Total(HeldIn(b), amount') + amount'[r]
    BY <2>1, <1>1, <1>6, <1>a, TotalAdd
  <2>3. IsFiniteSet(UnitsOf(HeldIn(b), amount))' /\ Total(HeldIn(b), amount)' = Total(HeldIn(b) \cup {r}, amount')
    BY <2>2, <1>2, <1>9, Zenon
  <2>4. Total(HeldIn(b), amount') = Total(HeldIn(b), amount)
    BY <1>4, Zenon DEF Total
  <2>5. reserved'[b] = reserved[b] + a /\ reserved[b] + settled[b] + a <= LimitOf(b)
    BY <1>9 DEF HoldEffect, Reserve, Fits
  <2>6. reserved'[b] = Total(HeldIn(b), amount)' /\ settled'[b] = Total(SpentIn(b), actualFee)'
    BY <2>2, <2>3, <2>4, <2>5, <1>6, <1>8 DEF Accounted
  <2>7. reserved'[b] + settled'[b] <= LimitOf(b) + Total(SpentIn(b), Overspend)'
    BY <2>5, <1>6, <1>8, <1>a, <1>t, <1>l, TotalsType
  <2> QED
    BY <2>3, <2>6, <2>7, <1>7 DEF Accounted, LimitOf
<1>10. CASE b \notin BucketsOf(r, p)
  <2>1. IsFiniteSet(UnitsOf(HeldIn(b), amount))' /\ Total(HeldIn(b), amount)' = Total(HeldIn(b), amount)
    BY <1>2, <1>4, <1>10, Zenon DEF Accounted, Total
  <2>2. reserved'[b] = reserved[b]
    BY <1>10 DEF HoldEffect, Reserve
  <2> QED
    BY <2>1, <2>2, <1>6, <1>7, <1>8 DEF Accounted, LimitOf
<1> QED
  BY <1>9, <1>10

\* A release takes away what was added.
LEMMA AccountsFree ==
  ASSUME TypeOK, NEW b \in Buckets, Accounted(b), NEW r \in Requests, FreeEffect(r)
  PROVE  Accounted(b)'
<1>t. /\ amount[r] \in Nat /\ reserved[b] \in Nat /\ settled[b] \in Nat
  BY DEF TypeOK, TableTypeOK
<1>l. LimitOf(b) \in Nat
  BY LimitType
<1>1. /\ SpentIn(b)' = SpentIn(b)
      /\ HeldIn(b)' = IF InBucket(r, b) THEN HeldIn(b) \ {r} ELSE HeldIn(b)
  BY ReservationFacts DEF FreeEffect, OthersStay, HeldIn, SpentIn, InBucket, Reservation
<1>2. amount' = amount /\ actualFee' = actualFee /\ Overspend' = Overspend
  BY DEF FreeEffect, Overspend
<1>3. settled'[b] = settled[b]
  BY <1>t DEF FreeEffect, Release, Adjust
<1>4. CASE InBucket(r, b)
  <2>1. r \in HeldIn(b)
    BY <1>4, ReservationFacts DEF FreeEffect, HeldIn, Reservation
  <2>2. /\ IsFiniteSet(UnitsOf(HeldIn(b) \ {r}, amount))
        /\ Total(HeldIn(b) \ {r}, amount) = Total(HeldIn(b), amount) - amount[r]
        /\ amount[r] <= Total(HeldIn(b), amount)
    BY <2>1, <1>t, TotalRemove DEF Accounted
  <2>3. reserved'[b] = Less(reserved[b], amount[r])
    BY <1>4 DEF FreeEffect, Release, Adjust, InBucket
  <2>4. reserved'[b] = reserved[b] - amount[r]
    BY <2>2, <2>3, <1>t, LessFacts DEF Accounted
  <2>5. HeldIn(b)' = HeldIn(b) \ {r}
    BY <1>1, <1>4
  <2>6. IsFiniteSet(UnitsOf(HeldIn(b), amount))' /\ Total(HeldIn(b), amount)' = Total(HeldIn(b) \ {r}, amount)
    BY <2>2, <2>5, <1>2, Zenon
  <2>7. /\ IsFiniteSet(UnitsOf(SpentIn(b), actualFee))' /\ IsFiniteSet(UnitsOf(SpentIn(b), Overspend))'
        /\ Total(SpentIn(b), actualFee)' = Total(SpentIn(b), actualFee)
        /\ Total(SpentIn(b), Overspend)' = Total(SpentIn(b), Overspend)
    BY <1>1, <1>2, Zenon DEF Accounted
  <2> QED
    BY <2>2, <2>4, <2>6, <2>7, <1>3, <1>t, <1>l, TotalsType DEF Accounted, LimitOf
<1>5. CASE ~InBucket(r, b)
  <2>1. reserved'[b] = reserved[b]
    BY <1>5 DEF FreeEffect, Release, Adjust, InBucket
  <2>2. HeldIn(b)' = HeldIn(b)
    BY <1>1, <1>5
  <2> QED
    BY <2>1, <2>2, <1>1, <1>2, <1>3, Zenon DEF Accounted, LimitOf
<1> QED
  BY <1>4, <1>5

\* A settlement moves a request from the held to the spent.
LEMMA AccountsSettle ==
  ASSUME TypeOK, NEW b \in Buckets, Accounted(b), NEW r \in Requests, SettleEffect(r)
  PROVE  Accounted(b)'
<1>t. /\ amount[r] \in Nat /\ actualFee[r] \in Nat /\ reserved[b] \in Nat /\ settled[b] \in Nat
  BY DEF TypeOK, TableTypeOK
<1>l. LimitOf(b) \in Nat
  BY LimitType
<1>1. r \notin SpentIn(b)
  BY ReservationFacts DEF SettleEffect, SpentIn, Reservation
<1>2. /\ SpentIn(b)' = IF InBucket(r, b) THEN SpentIn(b) \cup {r} ELSE SpentIn(b)
      /\ HeldIn(b)' = IF InBucket(r, b) THEN HeldIn(b) \ {r} ELSE HeldIn(b)
  BY ReservationFacts DEF SettleEffect, OthersStay, HeldIn, SpentIn, InBucket, Reservation
<1>3. amount' = amount /\ actualFee' = actualFee /\ Overspend' = Overspend
  BY DEF SettleEffect, Overspend
<1>4. CASE InBucket(r, b)
  <2>1. r \in HeldIn(b)
    BY <1>4, ReservationFacts DEF SettleEffect, HeldIn, Reservation
  <2>2. /\ IsFiniteSet(UnitsOf(HeldIn(b) \ {r}, amount))
        /\ Total(HeldIn(b) \ {r}, amount) = Total(HeldIn(b), amount) - amount[r]
        /\ amount[r] <= Total(HeldIn(b), amount)
    BY <2>1, <1>t, TotalRemove DEF Accounted
  <2>3. Overspend[r] = Less(actualFee[r], amount[r])
    BY DEF Overspend
  <2>4. /\ Overspend[r] \in Nat
        /\ actualFee[r] >= amount[r] => Overspend[r] = actualFee[r] - amount[r]
        /\ actualFee[r] <= amount[r] => Overspend[r] = 0
    BY <2>3, <1>t, LessFacts
  <2>f. IsFiniteSet(UnitsOf(SpentIn(b), actualFee)) /\ IsFiniteSet(UnitsOf(SpentIn(b), Overspend))
    BY DEF Accounted
  <2>5. /\ IsFiniteSet(UnitsOf(SpentIn(b) \cup {r}, actualFee))
        /\ Total(SpentIn(b) \cup {r}, actualFee) = Total(SpentIn(b), actualFee) + actualFee[r]
    BY <2>f, <1>1, <1>t, TotalAdd
  <2>6. /\ IsFiniteSet(UnitsOf(SpentIn(b) \cup {r}, Overspend))
        /\ Total(SpentIn(b) \cup {r}, Overspend) = Total(SpentIn(b), Overspend) + Overspend[r]
    BY <2>f, <1>1, <2>4, TotalAdd
  <2>7. reserved'[b] = Less(reserved[b], amount[r]) /\ settled'[b] = settled[b] + actualFee[r]
    BY <1>4 DEF SettleEffect, Settle, Adjust, InBucket
  <2>8. reserved'[b] = reserved[b] - amount[r]
    BY <2>2, <2>7, <1>t, LessFacts DEF Accounted
  <2>9. HeldIn(b)' = HeldIn(b) \ {r} /\ SpentIn(b)' = SpentIn(b) \cup {r}
    BY <1>2, <1>4
  <2>10. /\ IsFiniteSet(UnitsOf(HeldIn(b), amount))'
         /\ IsFiniteSet(UnitsOf(SpentIn(b), actualFee))' /\ IsFiniteSet(UnitsOf(SpentIn(b), Overspend))'
         /\ Total(HeldIn(b), amount)' = Total(HeldIn(b) \ {r}, amount)
         /\ Total(SpentIn(b), actualFee)' = Total(SpentIn(b) \cup {r}, actualFee)
         /\ Total(SpentIn(b), Overspend)' = Total(SpentIn(b) \cup {r}, Overspend)
    BY <2>2, <2>5, <2>6, <2>9, <1>3, Zenon
  <2> QED
    BY <2>2, <2>4, <2>5, <2>6, <2>7, <2>8, <2>10, <1>t, <1>l, TotalsType DEF Accounted, LimitOf
<1>5. CASE ~InBucket(r, b)
  <2>1. reserved'[b] = reserved[b] /\ settled'[b] = settled[b]
    BY <1>5 DEF SettleEffect, Settle, Adjust, InBucket
  <2>2. HeldIn(b)' = HeldIn(b) /\ SpentIn(b)' = SpentIn(b)
    BY <1>2, <1>5
  <2> QED
    BY <2>1, <2>2, <1>3, Zenon DEF Accounted, LimitOf
<1> QED
  BY <1>4, <1>5

\* The accounts are right in the initial state.
LEMMA AccountsInit == Init => AccountsInv
<1> SUFFICES ASSUME Init, NEW b \in Buckets
             PROVE  Accounted(b)
  BY DEF AccountsInv
<1>1. HeldIn(b) = {} /\ SpentIn(b) = {}
  BY DEF Init, TableInit, HeldIn, SpentIn, HOLDS_RESERVATION, ABSENT
<1>2. reserved[b] = 0 /\ settled[b] = 0
  BY DEF Init, TableInit
<1>3. /\ IsFiniteSet(UnitsOf(HeldIn(b), amount)) /\ IsFiniteSet(UnitsOf(SpentIn(b), actualFee))
      /\ IsFiniteSet(UnitsOf(SpentIn(b), Overspend)) /\ Total(HeldIn(b), amount) = 0
      /\ Total(SpentIn(b), actualFee) = 0 /\ Total(SpentIn(b), Overspend) = 0
  BY <1>1, TotalEmpty, Zenon
<1> QED
  BY <1>2, <1>3, LimitType DEF Accounted

\* The accounts are right always.
LEMMA AccountsCorrect == Spec => []AccountsInv
<1>1. TypeOK /\ AccountsInv /\ [Next]_vars => AccountsInv'
  <2> SUFFICES ASSUME TypeOK, AccountsInv, Effect, NEW b \in Buckets
               PROVE  Accounted(b)'
    BY EffectStep DEF AccountsInv
  <2>1. Accounted(b)
    BY DEF AccountsInv
  <2> QED
    BY <2>1, AccountsNoEffect, AccountsHold, AccountsFree, AccountsSettle DEF Effect
<1> QED
  BY <1>1, AccountsInit, TypeCorrect, PTL DEF Spec

\* The budget tables agree with the requests at all times, whatever tasks,
\* recovery passes and reconcilers race to free or settle a reservation: no
\* reservation leaks and none is given back twice.
THEOREM BudgetMatchesRequestsCorrect == Spec => []BudgetMatchesRequests
<1>1. AccountsInv => BudgetMatchesRequests
  BY DEF AccountsInv, Accounted, BudgetMatchesRequests
<1> QED
  BY <1>1, AccountsCorrect, PTL

\* "concurrent reservations can never overshoot the limit" (budgets.ts:15-16):
\* a bucket exceeds its limit by no more than what the chain charged for
\* confirmed requests beyond their reservations.
THEOREM WithinLimitCorrect == Spec => []WithinLimit
<1>1. AccountsInv => WithinLimit
  BY DEF AccountsInv, Accounted, WithinLimit
<1> QED
  BY <1>1, AccountsCorrect, PTL

-----------------------------------------------------------------------------
(* UsageMatchesConfirmed *)

RecordOf(r) == [request |-> r, specks |-> actualFee[r], period |-> periodOf[r]]

\* Every step keeps UsageMatchesConfirmed.
LEMMA UsageStep == TypeOK /\ [Next]_vars /\ UsageMatchesConfirmed => UsageMatchesConfirmed'
<1> DEFINE Confirmed == {r \in Requests : Reservation(r) = "settled"}
<1>c. UsageMatchesConfirmed <=> usage = {RecordOf(r) : r \in Confirmed}
  BY ReservationFacts DEF UsageMatchesConfirmed, RecordOf, InStatus, Reservation
<1>d. UsageMatchesConfirmed' <=> usage' = {RecordOf(r)' : r \in Confirmed'}
  BY ReservationFacts DEF UsageMatchesConfirmed, RecordOf, InStatus, Reservation
<1> SUFFICES ASSUME TypeOK, Effect, usage = {RecordOf(r) : r \in Confirmed}
             PROVE  usage' = {RecordOf(r)' : r \in Confirmed'}
  BY <1>c, <1>d, EffectStep
<1>t. /\ actualFee \in [Requests -> Nat] /\ periodOf \in [Requests -> Periods]
  BY DEF TypeOK, TableTypeOK
<1>1. ASSUME NoEffect
      PROVE  usage' = {RecordOf(r)' : r \in Confirmed'}
  BY <1>1 DEF NoEffect, RecordOf
<1>2. ASSUME NEW r \in Requests, NEW p \in Periods, NEW a \in Amounts, HoldEffect(r, p, a)
      PROVE  usage' = {RecordOf(q)' : q \in Confirmed'}
  <2>1. Confirmed' = Confirmed /\ r \notin Confirmed
    BY <1>2 DEF HoldEffect, OthersStay
  <2>2. \A q \in Confirmed : RecordOf(q)' = RecordOf(q)
    BY <1>2, <1>t, <2>1 DEF HoldEffect, RecordOf
  <2> QED
    BY <1>2, <2>1, <2>2 DEF HoldEffect
<1>3. ASSUME NEW r \in Requests, FreeEffect(r)
      PROVE  usage' = {RecordOf(q)' : q \in Confirmed'}
  <2>1. Confirmed' = Confirmed
    BY <1>3 DEF FreeEffect, OthersStay
  <2> QED
    BY <1>3, <2>1 DEF FreeEffect, RecordOf
<1>4. ASSUME NEW r \in Requests, SettleEffect(r)
      PROVE  usage' = {RecordOf(q)' : q \in Confirmed'}
  <2>1. Confirmed' = Confirmed \cup {r} /\ r \notin Confirmed
    BY <1>4 DEF SettleEffect, OthersStay
  <2>2. \A q \in Requests : RecordOf(q)' = RecordOf(q) /\ RecordOf(q).request = q
    BY <1>4 DEF SettleEffect, RecordOf
  <2>3. ~ \E u \in usage : u.request = r
    BY <2>1, <2>2
  <2>4. usage' = usage \cup {RecordOf(r)}
    BY <1>4, <2>3 DEF SettleEffect, InsertUsage, RecordOf
  <2> QED
    BY <2>1, <2>2, <2>4
<1> HIDE DEF Confirmed
<1> QED
  BY <1>1, <1>2, <1>3, <1>4 DEF Effect

\* The usage records are those of the confirmed requests, one each, however
\* many tasks and passes report the same confirmation.
THEOREM UsageMatchesConfirmedCorrect == Spec => []UsageMatchesConfirmed
<1>1. Init => UsageMatchesConfirmed
  BY DEF Init, TableInit, UsageMatchesConfirmed, InStatus, ABSENT
<1> QED
  BY <1>1, UsageStep, TypeCorrect, PTL DEF Spec

-----------------------------------------------------------------------------
(* ImplementsLedger *)

\* A request whose bytes are persisted has the fee its sponsorship reported.
FeesPersisted ==
  \A r \in Requests : status[r] \in PossiblySubmitted \cup {"CONFIRMED"} => actualFee[r] \in Fees

FeeKept(r) ==
  /\ \/ actualFee'[r] = actualFee[r]
     \/ status[r] = "SPONSORING" /\ status'[r] = "SUBMITTED" /\ actualFee'[r] \in Fees
  /\ status'[r] = "SUBMITTED" => status[r] = "SUBMITTED" \/ actualFee'[r] \in Fees

\* A fee is written together with the step to SUBMITTED, and only then.
LEMMA FeeStep == TypeOK /\ [Next]_vars => \A q \in Requests : FeeKept(q)
<1> SUFFICES ASSUME TypeOK, [Next]_vars, NEW q \in Requests
             PROVE  FeeKept(q)
  OBVIOUS
<1>t. /\ status \in [Requests -> RequestStatus \cup {ABSENT}] /\ actualFee \in [Requests -> Nat]
  BY DEF TypeOK, TableTypeOK
<1>u. ASSUME UNCHANGED <<status, actualFee>>
      PROVE  FeeKept(q)
  BY <1>u DEF FeeKept
<1>m. ASSUME NEW r \in Requests, NEW to, to # "SUBMITTED", MoveTo(r, to), UNCHANGED actualFee
      PROVE  FeeKept(q)
  BY <1>t, <1>m DEF MoveTo, FeeKept
<1>f. \A r \in Requests, k \in Copies : task[<<r, k>>] # Idle => From(r, k) # ABSENT
  BY DEF TypeOK, Slots, Tasks, From, HOLDS_RESERVATION, ABSENT
<1>n. \A w \in Workers : \A sn \in todo[w] : sn.request \in Requests
  BY DEF TypeOK, Snapshots
<1>a1. ASSUME NEW r \in Requests, Receive(r)
      PROVE  FeeKept(q)
  BY <1>a1, <1>m DEF Receive, InsertReceived
<1>a2. ASSUME NEW r \in Requests, Reject(r)
      PROVE  FeeKept(q)
  BY <1>a2, <1>m, <1>u DEF Reject, tableVars
<1>a3. ASSUME NEW r \in Requests, NEW p \in Periods, NEW a \in Amounts, Admit(r, p, a)
      PROVE  FeeKept(q)
  BY <1>a3, <1>m, <1>u DEF Admit, tableVars
<1>a4. ASSUME NEW r \in Requests, GrowOld(r)
      PROVE  FeeKept(q)
  BY <1>a4, <1>m, <1>u DEF GrowOld, tableVars
<1>a5. ASSUME NEW r \in Requests, NEW outcome \in Outcomes, Include(r, outcome)
      PROVE  FeeKept(q)
  BY <1>a5, <1>m, <1>u DEF Include, tableVars
<1>a6. ASSUME NEW r \in Requests, Drop(r)
      PROVE  FeeKept(q)
  BY <1>a6, <1>m, <1>u DEF Drop, tableVars
<1>a7. ASSUME NEW w \in Workers, ListSponsoring(w)
      PROVE  FeeKept(q)
  BY <1>a7, <1>m, <1>u DEF ListSponsoring, tableVars
<1>a8. ASSUME NEW w \in Workers, ListSubmitted(w)
      PROVE  FeeKept(q)
  BY <1>a8, <1>m, <1>u DEF ListSubmitted, tableVars
<1>a9. ASSUME NEW w \in Workers, NEW sn \in todo[w], Requeue(w, sn)
      PROVE  FeeKept(q)
  BY <1>a9, <1>n, <1>m, <1>u DEF Requeue
<1>a10. ASSUME NEW w \in Workers, NEW sn \in todo[w], ExpireRecovered(w, sn)
      PROVE  FeeKept(q)
  BY <1>a10, <1>n, <1>m, <1>u DEF ExpireRecovered
<1>a11. ASSUME NEW w \in Workers, NEW sn \in todo[w], NEW k \in Copies, Resume(w, sn, k)
      PROVE  FeeKept(q)
  BY <1>a11, <1>m, <1>u DEF Resume, tableVars
<1>a12. ASSUME NEW w \in Workers, RecoveryDone(w)
      PROVE  FeeKept(q)
  BY <1>a12, <1>m, <1>u DEF RecoveryDone, tableVars
<1>a13. ASSUME NEW w \in Workers, RecoveryFails(w)
      PROVE  FeeKept(q)
  BY <1>a13, <1>m, <1>u DEF RecoveryFails, tableVars
<1>a14. ASSUME NEW w \in Workers, NEW k \in Copies, Claim(w, k)
      PROVE  FeeKept(q)
  <2>1. PICK r \in Requests : MoveTo(r, "SPONSORING")
    BY <1>a14 DEF Claim, ClaimNext, Oldest, InStatus
  <2> QED
    BY <1>a14, <2>1, <1>m DEF Claim, ClaimNext
<1>a15. ASSUME NEW w \in Workers, NEW r \in Requests, NEW k \in Copies, ReconcileRow(w, r, k)
      PROVE  FeeKept(q)
  BY <1>a15, <1>m, <1>u DEF ReconcileRow, tableVars
<1>a16. ASSUME NEW w \in Workers, Crash(w)
      PROVE  FeeKept(q)
  BY <1>a16, <1>m, <1>u DEF Crash, tableVars
<1>a17. ASSUME NEW r \in Requests, NEW k \in Copies, ExpireClaimed(r, k)
      PROVE  FeeKept(q)
  BY <1>a17, <1>m, <1>u DEF ExpireClaimed, Finish
<1>a18. ASSUME NEW r \in Requests, NEW k \in Copies, BeginSponsor(r, k)
      PROVE  FeeKept(q)
  BY <1>a18, <1>m, <1>u DEF BeginSponsor, tableVars
<1>a19. ASSUME NEW r \in Requests, NEW k \in Copies, SponsorRetry(r, k)
      PROVE  FeeKept(q)
  BY <1>a19, <1>m, <1>u DEF SponsorRetry, Finish
<1>a20. ASSUME NEW r \in Requests, NEW k \in Copies, SponsorFailed(r, k)
      PROVE  FeeKept(q)
  BY <1>a20, <1>m, <1>u DEF SponsorFailed, Finish
<1>a21. ASSUME NEW r \in Requests, NEW k \in Copies, NEW fee \in Fees, Persist(r, k, fee)
      PROVE  FeeKept(q)
  <2>1. CASE TransitionOK(r, From(r, k), "SUBMITTED")
    <3>1. status[r] \in RequestStatus
      BY <1>t, <1>a21, <2>1, <1>f DEF TransitionOK, Persist, At
    <3>2. status[r] = "SPONSORING"
      BY <2>1, <3>1 DEF TransitionOK, CanTransition, T, RequestStatus
    <3> QED
      BY <1>a21, <1>t, <2>1, <3>2 DEF Persist, MoveTo, FeeKept
  <2>2. CASE ~TransitionOK(r, From(r, k), "SUBMITTED")
    BY <1>a21, <1>u, <2>2 DEF Persist
  <2> QED
    BY <2>1, <2>2
<1>a22. ASSUME NEW r \in Requests, NEW k \in Copies, SubmitOK(r, k)
      PROVE  FeeKept(q)
  BY <1>a22, <1>m, <1>u DEF SubmitOK, tableVars
<1>a23. ASSUME NEW r \in Requests, NEW k \in Copies, SubmitTransportError(r, k)
      PROVE  FeeKept(q)
  BY <1>a23, <1>m, <1>u DEF SubmitTransportError, tableVars
<1>a24. ASSUME NEW r \in Requests, NEW k \in Copies, SubmitRefused(r, k)
      PROVE  FeeKept(q)
  BY <1>a24, <1>m, <1>u DEF SubmitRefused, tableVars
<1>a25. ASSUME NEW r \in Requests, NEW k \in Copies, Patch(r, k)
      PROVE  FeeKept(q)
  BY <1>a25, <1>m, <1>u DEF Patch, tableVars
<1>a26. ASSUME NEW r \in Requests, NEW k \in Copies, WaitConfirmed(r, k)
      PROVE  FeeKept(q)
  BY <1>a26, <1>m, <1>u DEF WaitConfirmed, tableVars
<1>a27. ASSUME NEW r \in Requests, NEW k \in Copies, WaitFailed(r, k)
      PROVE  FeeKept(q)
  BY <1>a27, <1>m, <1>u DEF WaitFailed, tableVars
<1>a28. ASSUME NEW r \in Requests, NEW k \in Copies, WaitTimeout(r, k)
      PROVE  FeeKept(q)
  BY <1>a28, <1>m, <1>u DEF WaitTimeout, tableVars
<1>a29. ASSUME NEW r \in Requests, NEW k \in Copies, Confirm(r, k)
      PROVE  FeeKept(q)
  BY <1>a29, <1>m, <1>u DEF Confirm, Finish
<1>a30. ASSUME NEW r \in Requests, NEW k \in Copies, Fail(r, k)
      PROVE  FeeKept(q)
  BY <1>a30, <1>m, <1>u DEF Fail, Finish
<1>a31. ASSUME NEW r \in Requests, NEW k \in Copies, Park(r, k)
      PROVE  FeeKept(q)
  BY <1>a31, <1>m, <1>u DEF Park, Finish
<1>a32. ASSUME NEW r \in Requests, NEW k \in Copies, ReconcileExpire(r, k)
      PROVE  FeeKept(q)
  BY <1>a32, <1>m, <1>u DEF ReconcileExpire, Finish
<1>a33. ASSUME NEW r \in Requests, NEW k \in Copies, ReconcilePending(r, k)
      PROVE  FeeKept(q)
  BY <1>a33, <1>m, <1>u DEF ReconcilePending, tableVars
<1>a34. ASSUME NEW r \in Requests, NEW k \in Copies, DbError(r, k)
      PROVE  FeeKept(q)
  BY <1>a34, <1>m, <1>u DEF DbError, tableVars
<1>a35. ASSUME UNCHANGED vars
      PROVE  FeeKept(q)
  BY <1>a35, <1>u DEF vars
<1> QED
  BY <1>a1, <1>a2, <1>a3, <1>a4, <1>a5, <1>a6, <1>a7, <1>a8, <1>a9, <1>a10, <1>a11, <1>a12, <1>a13,
     <1>a14, <1>a15, <1>a16, <1>a17, <1>a18, <1>a19, <1>a20, <1>a21, <1>a22, <1>a23, <1>a24, <1>a25, <1>a26,
     <1>a27, <1>a28, <1>a29, <1>a30, <1>a31, <1>a32, <1>a33, <1>a34, <1>a35
     DEF Next, ApiStep, WorldStep, RecoveryStep, TaskStep

\* Every step keeps FeesPersisted.
LEMMA FeesPersistedStep == TypeOK /\ [Next]_vars /\ FeesPersisted => FeesPersisted'
<1> SUFFICES ASSUME TypeOK, [Next]_vars, FeesPersisted, NEW r \in Requests,
                    status'[r] \in PossiblySubmitted \cup {"CONFIRMED"}
             PROVE  actualFee'[r] \in Fees
  BY DEF FeesPersisted
<1>1. FeeKept(r) /\ MovesByTable(r)
  BY FeeStep, StatusStep
<1>2. CASE status[r] \in PossiblySubmitted \cup {"CONFIRMED"}
  BY <1>1, <1>2 DEF FeeKept, FeesPersisted
<1>3. CASE status[r] \notin PossiblySubmitted \cup {"CONFIRMED"}
  <2>1. status'[r] = "SUBMITTED" /\ status[r] # "SUBMITTED"
    BY <1>1, <1>3 DEF MovesByTable, CanTransition, T, RequestStatus, PossiblySubmitted, ABSENT
  <2> QED
    BY <1>1, <2>1 DEF FeeKept
<1> QED
  BY <1>2, <1>3

\* What has ended stays: nothing that a task, a pass or a restart does later, with
\* whatever snapshot of the row, changes the status of the request, the amount,
\* the period and the fee it was charged, or its usage record.
EndedIsFinal ==
  \A r \in Requests : status[r] \in TERMINAL =>
    /\ status'[r] = status[r]
    /\ amount'[r] = amount[r] /\ periodOf'[r] = periodOf[r] /\ actualFee'[r] = actualFee[r]
    /\ {u \in usage' : u.request = r} = {u \in usage : u.request = r}

LEMMA EndedStep == TypeOK /\ [Next]_vars => EndedIsFinal
<1> SUFFICES ASSUME TypeOK, [Next]_vars, NEW r \in Requests, status[r] \in TERMINAL
             PROVE  /\ status'[r] = status[r]
                    /\ amount'[r] = amount[r] /\ periodOf'[r] = periodOf[r] /\ actualFee'[r] = actualFee[r]
                    /\ {u \in usage' : u.request = r} = {u \in usage : u.request = r}
  BY DEF EndedIsFinal
<1>1. status'[r] = status[r]
  BY StatusStep DEF MovesByTable, CanTransition, T, TERMINAL, ABSENT
<1>2. actualFee'[r] = actualFee[r]
  BY <1>1, FeeStep DEF FeeKept, TERMINAL
<1>3. Reservation(r) # "held" /\ Reservation(r)' = Reservation(r)
  BY <1>1, ReservationFacts DEF Reservation, TERMINAL, HOLDS_RESERVATION
<1>4. Effect
  BY EffectStep
<1>5. CASE NoEffect
  BY <1>1, <1>2, <1>5 DEF NoEffect
<1>6. ASSUME NEW q \in Requests, NEW p \in Periods, NEW a \in Amounts, HoldEffect(q, p, a)
      PROVE  amount'[r] = amount[r] /\ periodOf'[r] = periodOf[r] /\ usage' = usage
  <2>1. q # r
    BY <1>3, <1>6 DEF HoldEffect
  <2> QED
    BY <1>6, <2>1 DEF HoldEffect, TypeOK, TableTypeOK
<1>7. ASSUME NEW q \in Requests, FreeEffect(q)
      PROVE  amount'[r] = amount[r] /\ periodOf'[r] = periodOf[r] /\ usage' = usage
  BY <1>7 DEF FreeEffect
<1>8. ASSUME NEW q \in Requests, SettleEffect(q)
      PROVE  /\ amount'[r] = amount[r] /\ periodOf'[r] = periodOf[r]
             /\ {u \in usage' : u.request = r} = {u \in usage : u.request = r}
  <2>1. q # r
    BY <1>3, <1>8 DEF SettleEffect
  <2>2. amount' = amount /\ periodOf' = periodOf /\ InsertUsage(q)
    BY <1>8 DEF SettleEffect
  <2>3. {u \in usage' : u.request = r} = {u \in usage : u.request = r}
    <3>1. [request |-> q, specks |-> actualFee[q], period |-> periodOf[q]].request = q
      OBVIOUS
    <3> QED
      BY <2>1, <2>2, <3>1 DEF InsertUsage
  <2> QED
    BY <2>2, <2>3
<1> QED
  BY <1>1, <1>2, <1>4, <1>5, <1>6, <1>7, <1>8 DEF Effect

\* A request that has ended is never charged, freed, recorded or moved again
\* (transition of packages/db/src/requests.ts compares the status first; a task
\* acts on the snapshot it began with).
THEOREM EndedIsFinalCorrect == Spec => [][EndedIsFinal]_vars
<1>1. TypeOK /\ [Next]_vars => [EndedIsFinal]_vars
  BY EndedStep
<1> QED
  BY <1>1, TypeCorrect, PTL DEF Spec

\* What a request holds is in its buckets.
LEMMA HeldFits ==
  ASSUME TypeOK, AccountsInv, NEW r \in Requests, Reservation(r) = "held",
         NEW b \in BucketsOf(r, periodOf[r])
  PROVE  amount[r] <= reserved[b]
<1>1. b \in Buckets /\ amount[r] \in Nat
  BY BucketsOfType DEF TypeOK, TableTypeOK
<1>2. r \in HeldIn(b)
  BY ReservationFacts DEF HeldIn, InBucket, Reservation
<1>3. amount[r] <= Total(HeldIn(b), amount)
  BY <1>1, <1>2, TotalRemove DEF AccountsInv, Accounted
<1> QED
  BY <1>1, <1>3 DEF AccountsInv, Accounted

States == [r \in Requests |-> Reservation(r)]
Places == [r \in Requests |-> IF Reservation(r) = "none" THEN {} ELSE BucketsOf(r, periodOf[r])]

\* The initial state is an initial state of the ledger.
LEMMA LedgerInit == Init => Ledger!Init
<1> SUFFICES ASSUME Init
             PROVE  Ledger!Init
  OBVIOUS
<1>1. \A r \in Requests : Reservation(r) = "none"
  BY ReservationFacts DEF Init, TableInit, Reservation
<1> QED
  BY <1>1 DEF Init, TableInit, Ledger!Init

\* Every step is a step of the ledger, or none.
LEMMA LedgerStep ==
  TypeOK /\ AccountsInv /\ FeesPersisted /\ [Next]_vars => [Ledger!Next]_(Ledger!vars)
<1> SUFFICES ASSUME TypeOK, AccountsInv, FeesPersisted', Effect
             PROVE  [Ledger!Next]_(Ledger!vars)
  BY EffectStep, FeesPersistedStep
<1>t. /\ amount \in [Requests -> Nat] /\ actualFee \in [Requests -> Nat] /\ periodOf \in [Requests -> Periods]
      /\ reserved \in [Buckets -> Nat] /\ settled \in [Buckets -> Nat]
  BY DEF TypeOK, TableTypeOK
<1>1. ASSUME NoEffect
      PROVE  UNCHANGED Ledger!vars
  <2>1. States' = States /\ Places' = Places
    BY <1>1 DEF NoEffect, States, Places
  <2> QED
    BY <1>1, <2>1 DEF NoEffect, Ledger!vars, States, Places
<1>2. ASSUME NEW r \in Requests, NEW p \in Periods, NEW a \in Amounts, HoldEffect(r, p, a)
      PROVE  Ledger!Hold(r, BucketsOf(r, p), a)
  <2>1. States' = [States EXCEPT ![r] = "held"]
    BY <1>2 DEF HoldEffect, OthersStay, States
  <2>2. Places' = [Places EXCEPT ![r] = BucketsOf(r, p)]
    BY <1>2, <1>t DEF HoldEffect, OthersStay, Places
  <2>3. \A b \in BucketsOf(r, p) : b \in Buckets /\ reserved[b] + settled[b] + a <= LimitOf(b)
    BY <1>2, BucketsOfType DEF HoldEffect, Reserve, Fits
  <2>4. reserved' = Ledger!Add(reserved, BucketsOf(r, p), a) /\ settled' = settled
    BY <1>2 DEF HoldEffect, Reserve, Ledger!Add
  <2>5. amount' = [amount EXCEPT ![r] = a] /\ States[r] = "none"
    BY <1>2 DEF HoldEffect, States
  <2> QED
    BY <2>1, <2>2, <2>3, <2>4, <2>5 DEF Ledger!Hold, States, Places
<1>a. ASSUME NEW r \in Requests, NEW fee \in Nat, Reservation(r) = "held", Adjust(r, fee)
      PROVE  /\ reserved' = Ledger!Add(reserved, Places[r], -amount[r])
             /\ settled'  = Ledger!Add(settled, Places[r], fee)
  <2>1. Places[r] = BucketsOf(r, periodOf[r])
    BY <1>a DEF Places
  <2>2. \A b \in BucketsOf(r, periodOf[r]) : Less(reserved[b], amount[r]) = reserved[b] + -amount[r]
    <3> SUFFICES ASSUME NEW b \in BucketsOf(r, periodOf[r])
                 PROVE  Less(reserved[b], amount[r]) = reserved[b] + -amount[r]
      OBVIOUS
    <3>1. b \in Buckets
      BY <1>t, BucketsOfType
    <3>2. amount[r] <= reserved[b] /\ amount[r] \in Nat /\ reserved[b] \in Nat
      BY <3>1, <1>a, <1>t, HeldFits
    <3> QED
      BY <3>2, LessFacts
  <2> QED
    BY <1>a, <2>1, <2>2 DEF Adjust, Ledger!Add
<1>3. ASSUME NEW r \in Requests, FreeEffect(r)
      PROVE  Ledger!Free(r)
  <2>1. States' = [States EXCEPT ![r] = "freed"] /\ Places' = Places /\ States[r] = "held"
    BY <1>3 DEF FreeEffect, OthersStay, States, Places
  <2>2. reserved' = Ledger!Add(reserved, Places[r], -amount[r]) /\ settled' = Ledger!Add(settled, Places[r], 0)
    BY <1>3, <1>a DEF FreeEffect, Release
  <2>3. Ledger!Add(settled, Places[r], 0) = settled
    BY <1>t DEF Ledger!Add
  <2> QED
    BY <1>3, <2>1, <2>2, <2>3 DEF FreeEffect, Ledger!Free, States, Places
<1>4. ASSUME NEW r \in Requests, SettleEffect(r)
      PROVE  Ledger!SettleFor(r, actualFee[r]) /\ actualFee[r] \in Fees
  <2>1. States' = [States EXCEPT ![r] = "settled"] /\ Places' = Places /\ States[r] = "held"
    BY <1>4 DEF SettleEffect, OthersStay, States, Places
  <2>2. /\ reserved' = Ledger!Add(reserved, Places[r], -amount[r])
        /\ settled'  = Ledger!Add(settled, Places[r], actualFee[r])
    BY <1>4, <1>a, <1>t DEF SettleEffect, Settle
  <2>3. actualFee[r] \in Fees
    BY <1>4, ReservationFacts DEF SettleEffect, FeesPersisted, Reservation
  <2> QED
    BY <1>4, <2>1, <2>2, <2>3 DEF SettleEffect, Ledger!SettleFor, States, Places
<1> QED
  <2>1. CASE NoEffect
    BY <1>1, <2>1
  <2>2. ASSUME NEW r \in Requests, NEW p \in Periods, NEW a \in Amounts, HoldEffect(r, p, a)
        PROVE  Ledger!Next
    <3>1. BucketsOf(r, p) \in SUBSET Buckets
      BY BucketsOfType
    <3> QED
      BY <1>2, <2>2, <3>1 DEF Ledger!Next
  <2>3. ASSUME NEW r \in Requests, FreeEffect(r)
        PROVE  Ledger!Next
    BY <1>3, <2>3 DEF Ledger!Next
  <2>4. ASSUME NEW r \in Requests, SettleEffect(r)
        PROVE  Ledger!Next
    BY <1>4, <2>4 DEF Ledger!Next
  <2> QED
    BY <2>1, <2>2, <2>3, <2>4 DEF Effect

\* The worker, its recovery and its reconciler together implement the abstract
\* ledger: a reservation is taken where it fits, and freed or settled once, for
\* its own amount, in its own buckets.
THEOREM ImplementsLedgerCorrect == Spec => ImplementsLedger
<1>1. Init => FeesPersisted
  BY DEF Init, TableInit, FeesPersisted, PossiblySubmitted, ABSENT
<1>2. Spec => []FeesPersisted
  BY <1>1, FeesPersistedStep, TypeCorrect, PTL DEF Spec
<1> QED
  BY <1>2, LedgerInit, LedgerStep, TypeCorrect, AccountsCorrect, PTL DEF Spec, ImplementsLedger, Ledger!Spec


=============================================================================
