----------------------- MODULE SponsorWorkerRequests ------------------------
(***************************************************************************)
(* What SponsorWorker guarantees of a request: what the network may have   *)
(* seen has its bytes persisted, and what is confirmed has been included,  *)
(* with any number of workers.  Then, when one worker process runs at a    *)
(* time: who sponsors a request, how often it is claimed, and who drives   *)
(* it.  The claims, the tasks and the restarts of one process interleave;  *)
(* a second process would requeue the rows the first is sponsoring.        *)
(***************************************************************************)
EXTENDS SponsorWorkerTypes

(* PersistedBeforeSubmit *)

\* The statuses from which no step leads back to one of a row whose bytes are
\* not persisted.
Late == PossiblySubmitted \cup {"CONFIRMED", "SUBMISSION_FAILED", "EXPIRED"}

SubmitPcs == Pcs \ {"check", "sponsor"}

\* PersistedBeforeSubmit is not inductive: what will be sent is held by the
\* tasks, and by the snapshots from which the recovery pass makes tasks.
ResumedIsLate ==
  \A w \in Workers : phase[w] = "resume" => \A sn \in todo[w] : status[sn.request] \in Late

SubmittingIsLate ==
  \A r \in Requests, k \in Copies :
    task[<<r, k>>] # Idle /\ task[<<r, k>>].pc \in SubmitPcs => status[r] \in Late

PersistInv == ResumedIsLate /\ SubmittingIsLate /\ PersistedBeforeSubmit

\* A row does not leave Late.
LEMMA LateStays ==
  ASSUME TypeOK, [Next]_vars, NEW r \in Requests, status[r] \in Late
  PROVE  status'[r] \in Late
  BY StatusStep DEF MovesByTable, Late, PossiblySubmitted, CanTransition, T, ABSENT

\* Every step keeps ResumedIsLate.
LEMMA ResumedStep == TypeOK /\ [Next]_vars /\ ResumedIsLate => ResumedIsLate'
<1> SUFFICES ASSUME TypeOK, [Next]_vars, ResumedIsLate
             PROVE  ResumedIsLate'
  OBVIOUS
<1>n. \A w \in Workers : \A sn \in todo[w] : sn.request \in Requests
  BY DEF TypeOK, Snapshots
<1>p. phase \in [Workers -> Phases] /\ todo \in [Workers -> SUBSET Snapshots]
  BY DEF TypeOK
<1>q. ASSUME \A v \in Workers : phase'[v] = "resume" => phase[v] = "resume" /\ todo'[v] \subseteq todo[v]
      PROVE  ResumedIsLate'
  BY <1>n, <1>q, LateStays DEF ResumedIsLate
<1>a1. ASSUME NEW r \in Requests, Receive(r)
      PROVE  ResumedIsLate'
  BY <1>a1, <1>p, <1>q DEF Receive, workerVars, worldVars, budgetVars, tableVars
<1>a2. ASSUME NEW r \in Requests, Reject(r)
      PROVE  ResumedIsLate'
  BY <1>a2, <1>p, <1>q DEF Reject, workerVars, worldVars, budgetVars, tableVars
<1>a3. ASSUME NEW r \in Requests, NEW p \in Periods, NEW a \in Amounts, Admit(r, p, a)
      PROVE  ResumedIsLate'
  BY <1>a3, <1>p, <1>q DEF Admit, workerVars, worldVars, budgetVars, tableVars
<1>a4. ASSUME NEW r \in Requests, GrowOld(r)
      PROVE  ResumedIsLate'
  BY <1>a4, <1>p, <1>q DEF GrowOld, workerVars, worldVars, budgetVars, tableVars
<1>a5. ASSUME NEW r \in Requests, NEW outcome \in Outcomes, Include(r, outcome)
      PROVE  ResumedIsLate'
  BY <1>a5, <1>p, <1>q DEF Include, workerVars, worldVars, budgetVars, tableVars
<1>a6. ASSUME NEW r \in Requests, Drop(r)
      PROVE  ResumedIsLate'
  BY <1>a6, <1>p, <1>q DEF Drop, workerVars, worldVars, budgetVars, tableVars
<1>a7. ASSUME NEW w \in Workers, ListSponsoring(w)
      PROVE  ResumedIsLate'
  BY <1>a7, <1>p, <1>q DEF ListSponsoring, workerVars, worldVars, budgetVars, tableVars
<1>a8. ASSUME NEW w \in Workers, ListSubmitted(w)
      PROVE  ResumedIsLate'
  <2>1. ASSUME NEW sn \in ListByStatus(PossiblySubmitted)
        PROVE  sn.request \in Requests /\ status[sn.request] \in Late
    <3>1. PICK r \in Oldest(InStatus(PossiblySubmitted), ListLimit) : sn = SnapshotOf(r)
      BY DEF ListByStatus
    <3>2. sn.request = r /\ r \in Requests /\ status[r] \in PossiblySubmitted
      BY <3>1 DEF SnapshotOf, Oldest, InStatus
    <3> QED
      BY <3>2 DEF Late
  <2>2. \A v \in Workers : phase'[v] = "resume" => \A sn \in todo'[v] : status[sn.request] \in Late /\ sn.request \in Requests
    BY <1>a8, <2>1, <1>p, <1>n DEF ListSubmitted, ResumedIsLate
  <2> QED
    BY <2>2, LateStays DEF ResumedIsLate
<1>a9. ASSUME NEW w \in Workers, NEW sn \in todo[w], Requeue(w, sn)
      PROVE  ResumedIsLate'
  BY <1>a9, <1>p, <1>q DEF Requeue, EndRecovery
<1>a10. ASSUME NEW w \in Workers, NEW sn \in todo[w], ExpireRecovered(w, sn)
      PROVE  ResumedIsLate'
  BY <1>a10, <1>p, <1>q DEF ExpireRecovered, EndRecovery
<1>a11. ASSUME NEW w \in Workers, NEW sn \in todo[w], NEW k \in Copies, Resume(w, sn, k)
      PROVE  ResumedIsLate'
  BY <1>a11, <1>p, <1>q DEF Resume, workerVars, worldVars, budgetVars, tableVars
<1>a12. ASSUME NEW w \in Workers, RecoveryDone(w)
      PROVE  ResumedIsLate'
  BY <1>a12, <1>p, <1>q DEF RecoveryDone, EndRecovery
<1>a13. ASSUME NEW w \in Workers, RecoveryFails(w)
      PROVE  ResumedIsLate'
  BY <1>a13, <1>p, <1>q DEF RecoveryFails, EndRecovery
<1>a14. ASSUME NEW w \in Workers, NEW k \in Copies, Claim(w, k)
      PROVE  ResumedIsLate'
  BY <1>a14, <1>q DEF Claim, ClaimNext
<1>a15. ASSUME NEW w \in Workers, NEW r \in Requests, NEW k \in Copies, ReconcileRow(w, r, k)
      PROVE  ResumedIsLate'
  BY <1>a15, <1>p, <1>q DEF ReconcileRow, workerVars, worldVars, budgetVars, tableVars
<1>a16. ASSUME NEW w \in Workers, Crash(w)
      PROVE  ResumedIsLate'
  BY <1>a16, <1>p, <1>q DEF Crash, workerVars, worldVars, budgetVars, tableVars
<1>a17. ASSUME NEW r \in Requests, NEW k \in Copies, ExpireClaimed(r, k)
      PROVE  ResumedIsLate'
  BY <1>a17, <1>q DEF ExpireClaimed, Finish
<1>a18. ASSUME NEW r \in Requests, NEW k \in Copies, BeginSponsor(r, k)
      PROVE  ResumedIsLate'
  BY <1>a18, <1>p, <1>q DEF BeginSponsor, workerVars, worldVars, budgetVars, tableVars
<1>a19. ASSUME NEW r \in Requests, NEW k \in Copies, SponsorRetry(r, k)
      PROVE  ResumedIsLate'
  BY <1>a19, <1>q DEF SponsorRetry, Finish
<1>a20. ASSUME NEW r \in Requests, NEW k \in Copies, SponsorFailed(r, k)
      PROVE  ResumedIsLate'
  BY <1>a20, <1>q DEF SponsorFailed, Finish
<1>a21. ASSUME NEW r \in Requests, NEW k \in Copies, NEW fee \in Fees, Persist(r, k, fee)
      PROVE  ResumedIsLate'
  BY <1>a21, <1>p, <1>q DEF Persist, workerVars, worldVars, budgetVars, tableVars
<1>a22. ASSUME NEW r \in Requests, NEW k \in Copies, SubmitOK(r, k)
      PROVE  ResumedIsLate'
  BY <1>a22, <1>p, <1>q DEF SubmitOK, workerVars, worldVars, budgetVars, tableVars
<1>a23. ASSUME NEW r \in Requests, NEW k \in Copies, SubmitTransportError(r, k)
      PROVE  ResumedIsLate'
  BY <1>a23, <1>p, <1>q DEF SubmitTransportError, workerVars, worldVars, budgetVars, tableVars
<1>a24. ASSUME NEW r \in Requests, NEW k \in Copies, SubmitRefused(r, k)
      PROVE  ResumedIsLate'
  BY <1>a24, <1>p, <1>q DEF SubmitRefused, workerVars, worldVars, budgetVars, tableVars
<1>a25. ASSUME NEW r \in Requests, NEW k \in Copies, Patch(r, k)
      PROVE  ResumedIsLate'
  BY <1>a25, <1>p, <1>q DEF Patch, workerVars, worldVars, budgetVars, tableVars
<1>a26. ASSUME NEW r \in Requests, NEW k \in Copies, WaitConfirmed(r, k)
      PROVE  ResumedIsLate'
  BY <1>a26, <1>p, <1>q DEF WaitConfirmed, workerVars, worldVars, budgetVars, tableVars
<1>a27. ASSUME NEW r \in Requests, NEW k \in Copies, WaitFailed(r, k)
      PROVE  ResumedIsLate'
  BY <1>a27, <1>p, <1>q DEF WaitFailed, workerVars, worldVars, budgetVars, tableVars
<1>a28. ASSUME NEW r \in Requests, NEW k \in Copies, WaitTimeout(r, k)
      PROVE  ResumedIsLate'
  BY <1>a28, <1>p, <1>q DEF WaitTimeout, workerVars, worldVars, budgetVars, tableVars
<1>a29. ASSUME NEW r \in Requests, NEW k \in Copies, Confirm(r, k)
      PROVE  ResumedIsLate'
  BY <1>a29, <1>q DEF Confirm, Finish
<1>a30. ASSUME NEW r \in Requests, NEW k \in Copies, Fail(r, k)
      PROVE  ResumedIsLate'
  BY <1>a30, <1>q DEF Fail, Finish
<1>a31. ASSUME NEW r \in Requests, NEW k \in Copies, Park(r, k)
      PROVE  ResumedIsLate'
  BY <1>a31, <1>q DEF Park, Finish
<1>a32. ASSUME NEW r \in Requests, NEW k \in Copies, ReconcileExpire(r, k)
      PROVE  ResumedIsLate'
  BY <1>a32, <1>q DEF ReconcileExpire, Finish
<1>a33. ASSUME NEW r \in Requests, NEW k \in Copies, ReconcilePending(r, k)
      PROVE  ResumedIsLate'
  BY <1>a33, <1>p, <1>q DEF ReconcilePending, workerVars, worldVars, budgetVars, tableVars
<1>a34. ASSUME NEW r \in Requests, NEW k \in Copies, DbError(r, k)
      PROVE  ResumedIsLate'
  BY <1>a34, <1>p, <1>q DEF DbError, workerVars, worldVars, budgetVars, tableVars
<1>a35. ASSUME UNCHANGED vars
      PROVE  ResumedIsLate'
  BY <1>a35, <1>q DEF vars
<1> QED
  BY <1>a1, <1>a2, <1>a3, <1>a4, <1>a5, <1>a6, <1>a7, <1>a8, <1>a9, <1>a10, <1>a11, <1>a12, <1>a13,
     <1>a14, <1>a15, <1>a16, <1>a17, <1>a18, <1>a19, <1>a20, <1>a21, <1>a22, <1>a23, <1>a24, <1>a25, <1>a26,
     <1>a27, <1>a28, <1>a29, <1>a30, <1>a31, <1>a32, <1>a33, <1>a34, <1>a35
     DEF Next, ApiStep, WorldStep, RecoveryStep, TaskStep

\* Every step keeps SubmittingIsLate.
LEMMA SubmittingStep ==
  TypeOK /\ [Next]_vars /\ ResumedIsLate /\ SubmittingIsLate => SubmittingIsLate'
<1> SUFFICES ASSUME TypeOK, [Next]_vars, ResumedIsLate, SubmittingIsLate,
                    NEW q \in Requests, NEW l \in Copies,
                    task'[<<q, l>>] # Idle, task'[<<q, l>>].pc \in SubmitPcs
             PROVE  status'[q] \in Late
  BY DEF SubmittingIsLate
<1> DEFINE s == <<q, l>>
<1>t. task \in [Slots -> Tasks \cup {Idle}] /\ s \in Slots
  BY DEF TypeOK, Slots
<1>l. ASSUME status[q] \in Late
      PROVE  status'[q] \in Late
  BY <1>l, LateStays
<1>u. ASSUME task[s] # Idle, task[s].pc \in SubmitPcs
      PROVE  status'[q] \in Late
  BY <1>l, <1>u DEF SubmittingIsLate
<1>v. ASSUME task'[s] = task[s]
      PROVE  status'[q] \in Late
  BY <1>u, <1>v
<1>g. ASSUME NEW r \in Requests, NEW k \in Copies, NEW pc, GoTo(r, k, pc),
             task[<<r, k>>] # Idle, task[<<r, k>>].pc \in SubmitPcs
      PROVE  status'[q] \in Late
  BY <1>g, <1>t, <1>u, <1>v DEF GoTo
<1>e. ASSUME NEW r \in Requests, NEW k \in Copies, EndTask(r, k)
      PROVE  status'[q] \in Late
  BY <1>e, <1>t, <1>v DEF EndTask
<1>a1. ASSUME NEW r \in Requests, Receive(r)
      PROVE  status'[q] \in Late
  BY <1>a1, <1>v DEF Receive, workerVars, worldVars, budgetVars, tableVars
<1>a2. ASSUME NEW r \in Requests, Reject(r)
      PROVE  status'[q] \in Late
  BY <1>a2, <1>v DEF Reject, workerVars, worldVars, budgetVars, tableVars
<1>a3. ASSUME NEW r \in Requests, NEW p \in Periods, NEW a \in Amounts, Admit(r, p, a)
      PROVE  status'[q] \in Late
  BY <1>a3, <1>v DEF Admit, workerVars, worldVars, budgetVars, tableVars
<1>a4. ASSUME NEW r \in Requests, GrowOld(r)
      PROVE  status'[q] \in Late
  BY <1>a4, <1>v DEF GrowOld, workerVars, worldVars, budgetVars, tableVars
<1>a5. ASSUME NEW r \in Requests, NEW outcome \in Outcomes, Include(r, outcome)
      PROVE  status'[q] \in Late
  BY <1>a5, <1>v DEF Include, workerVars, worldVars, budgetVars, tableVars
<1>a6. ASSUME NEW r \in Requests, Drop(r)
      PROVE  status'[q] \in Late
  BY <1>a6, <1>v DEF Drop, workerVars, worldVars, budgetVars, tableVars
<1>a7. ASSUME NEW w \in Workers, ListSponsoring(w)
      PROVE  status'[q] \in Late
  BY <1>a7, <1>v DEF ListSponsoring, workerVars, worldVars, budgetVars, tableVars
<1>a8. ASSUME NEW w \in Workers, ListSubmitted(w)
      PROVE  status'[q] \in Late
  BY <1>a8, <1>v DEF ListSubmitted, workerVars, worldVars, budgetVars, tableVars
<1>a9. ASSUME NEW w \in Workers, NEW sn \in todo[w], Requeue(w, sn)
      PROVE  status'[q] \in Late
  BY <1>a9, <1>v DEF Requeue, workerVars, worldVars, budgetVars, tableVars
<1>a10. ASSUME NEW w \in Workers, NEW sn \in todo[w], ExpireRecovered(w, sn)
      PROVE  status'[q] \in Late
  BY <1>a10, <1>v DEF ExpireRecovered, workerVars, worldVars, budgetVars, tableVars
<1>a11. ASSUME NEW w \in Workers, NEW sn \in todo[w], NEW k \in Copies, Resume(w, sn, k)
      PROVE  status'[q] \in Late
  <2>1. sn.request \in Requests /\ status[sn.request] \in Late
    BY <1>a11 DEF Resume, ResumedIsLate, TypeOK, Snapshots
  <2> QED
    BY <1>a11, <2>1, <1>t, <1>l, <1>v DEF Resume, Spawn
<1>a12. ASSUME NEW w \in Workers, RecoveryDone(w)
      PROVE  status'[q] \in Late
  BY <1>a12, <1>v DEF RecoveryDone, workerVars, worldVars, budgetVars, tableVars
<1>a13. ASSUME NEW w \in Workers, RecoveryFails(w)
      PROVE  status'[q] \in Late
  BY <1>a13, <1>v DEF RecoveryFails, workerVars, worldVars, budgetVars, tableVars
<1>a14. ASSUME NEW w \in Workers, NEW k \in Copies, Claim(w, k)
      PROVE  status'[q] \in Late
  <2>1. PICK r, t : r \in Requests /\ Spawn(r, k, t) /\ t.pc = "check"
    BY <1>a14 DEF Claim, ClaimNext, Oldest, InStatus, NewTask
  <2> QED
    BY <2>1, <1>t, <1>v DEF Spawn, SubmitPcs
<1>a15. ASSUME NEW w \in Workers, NEW r \in Requests, NEW k \in Copies, ReconcileRow(w, r, k)
      PROVE  status'[q] \in Late
  <2>1. status[r] \in Late
    BY <1>a15 DEF ReconcileRow, Oldest, InStatus, Late, PossiblySubmitted
  <2> QED
    BY <1>a15, <2>1, <1>t, <1>l, <1>v DEF ReconcileRow, Spawn
<1>a16. ASSUME NEW w \in Workers, Crash(w)
      PROVE  status'[q] \in Late
  BY <1>a16, <1>t, <1>v DEF Crash
<1>a17. ASSUME NEW r \in Requests, NEW k \in Copies, ExpireClaimed(r, k)
      PROVE  status'[q] \in Late
  BY <1>a17, <1>e DEF ExpireClaimed, Finish
<1>a18. ASSUME NEW r \in Requests, NEW k \in Copies, BeginSponsor(r, k)
      PROVE  status'[q] \in Late
  BY <1>a18, <1>t, <1>v DEF BeginSponsor, GoTo, SubmitPcs, At
<1>a19. ASSUME NEW r \in Requests, NEW k \in Copies, SponsorRetry(r, k)
      PROVE  status'[q] \in Late
  BY <1>a19, <1>e DEF SponsorRetry, Finish
<1>a20. ASSUME NEW r \in Requests, NEW k \in Copies, SponsorFailed(r, k)
      PROVE  status'[q] \in Late
  BY <1>a20, <1>e DEF SponsorFailed, Finish
<1>a21. ASSUME NEW r \in Requests, NEW k \in Copies, NEW fee \in Fees, Persist(r, k, fee)
      PROVE  status'[q] \in Late
  <2>1. CASE TransitionOK(r, From(r, k), "SUBMITTED")
    <3>1. MoveTo(r, "SUBMITTED") /\ \E t : task' = [task EXCEPT ![<<r, k>>] = t]
      BY <1>a21, <2>1 DEF Persist
    <3>2. status'[r] = "SUBMITTED"
      BY <3>1 DEF MoveTo, TypeOK, TableTypeOK
    <3> QED
      BY <3>1, <3>2, <1>t, <1>v DEF Late, PossiblySubmitted
  <2> QED
    BY <1>a21, <2>1, <1>e DEF Persist
<1>a22. ASSUME NEW r \in Requests, NEW k \in Copies, SubmitOK(r, k)
      PROVE  status'[q] \in Late
  BY <1>a22, <1>g DEF SubmitOK, At, SubmitPcs, Pcs
<1>a23. ASSUME NEW r \in Requests, NEW k \in Copies, SubmitTransportError(r, k)
      PROVE  status'[q] \in Late
  BY <1>a23, <1>g DEF SubmitTransportError, At, SubmitPcs, Pcs
<1>a24. ASSUME NEW r \in Requests, NEW k \in Copies, SubmitRefused(r, k)
      PROVE  status'[q] \in Late
  BY <1>a24, <1>g DEF SubmitRefused, At, SubmitPcs, Pcs
<1>a25. ASSUME NEW r \in Requests, NEW k \in Copies, Patch(r, k)
      PROVE  status'[q] \in Late
  BY <1>a25, <1>g DEF Patch, At, SubmitPcs, Pcs
<1>a26. ASSUME NEW r \in Requests, NEW k \in Copies, WaitConfirmed(r, k)
      PROVE  status'[q] \in Late
  BY <1>a26, <1>g DEF WaitConfirmed, At, SubmitPcs, Pcs
<1>a27. ASSUME NEW r \in Requests, NEW k \in Copies, WaitFailed(r, k)
      PROVE  status'[q] \in Late
  BY <1>a27, <1>g DEF WaitFailed, At, SubmitPcs, Pcs
<1>a28. ASSUME NEW r \in Requests, NEW k \in Copies, WaitTimeout(r, k)
      PROVE  status'[q] \in Late
  BY <1>a28, <1>g DEF WaitTimeout, At, SubmitPcs, Pcs
<1>a29. ASSUME NEW r \in Requests, NEW k \in Copies, Confirm(r, k)
      PROVE  status'[q] \in Late
  BY <1>a29, <1>e DEF Confirm, Finish
<1>a30. ASSUME NEW r \in Requests, NEW k \in Copies, Fail(r, k)
      PROVE  status'[q] \in Late
  BY <1>a30, <1>e DEF Fail, Finish
<1>a31. ASSUME NEW r \in Requests, NEW k \in Copies, Park(r, k)
      PROVE  status'[q] \in Late
  BY <1>a31, <1>e DEF Park, Finish
<1>a32. ASSUME NEW r \in Requests, NEW k \in Copies, ReconcileExpire(r, k)
      PROVE  status'[q] \in Late
  BY <1>a32, <1>e DEF ReconcileExpire, Finish
<1>a33. ASSUME NEW r \in Requests, NEW k \in Copies, ReconcilePending(r, k)
      PROVE  status'[q] \in Late
  BY <1>a33, <1>e DEF ReconcilePending
<1>a34. ASSUME NEW r \in Requests, NEW k \in Copies, DbError(r, k)
      PROVE  status'[q] \in Late
  BY <1>a34, <1>g, <1>e DEF DbError, At, SubmitPcs, Pcs
<1>a35. ASSUME UNCHANGED vars
      PROVE  status'[q] \in Late
  BY <1>a35, <1>v DEF vars
<1> QED
  BY <1>a1, <1>a2, <1>a3, <1>a4, <1>a5, <1>a6, <1>a7, <1>a8, <1>a9, <1>a10, <1>a11, <1>a12, <1>a13,
     <1>a14, <1>a15, <1>a16, <1>a17, <1>a18, <1>a19, <1>a20, <1>a21, <1>a22, <1>a23, <1>a24, <1>a25, <1>a26,
     <1>a27, <1>a28, <1>a29, <1>a30, <1>a31, <1>a32, <1>a33, <1>a34, <1>a35
     DEF Next, ApiStep, WorldStep, RecoveryStep, TaskStep

\* Every step keeps PersistedBeforeSubmit.
LEMMA PersistedStep ==
  TypeOK /\ [Next]_vars /\ SubmittingIsLate /\ PersistedBeforeSubmit => PersistedBeforeSubmit'
<1> SUFFICES ASSUME TypeOK, [Next]_vars, SubmittingIsLate, PersistedBeforeSubmit,
                    NEW q \in Requests, chain'[q] # "none"
             PROVE  status'[q] \in Late
  BY DEF PersistedBeforeSubmit, Late
<1>t. chain \in [Requests -> ChainStates]
  BY DEF TypeOK
<1>l. ASSUME status[q] \in Late
      PROVE  status'[q] \in Late
  BY <1>l, LateStays
<1>u. ASSUME chain'[q] = chain[q] \/ chain[q] # "none"
      PROVE  status'[q] \in Late
  BY <1>l, <1>u DEF PersistedBeforeSubmit, Late
<1>d. ASSUME NEW r \in Requests, NEW k \in Copies, At(r, k, "submit"), Delivered(r)
      PROVE  status'[q] \in Late
  <2>1. status[r] \in Late
    BY <1>d DEF SubmittingIsLate, At, SubmitPcs, Pcs
  <2> QED
    BY <2>1, <1>d, <1>t, <1>l, <1>u DEF Delivered
<1>a1. ASSUME NEW r \in Requests, Receive(r)
      PROVE  status'[q] \in Late
  BY <1>a1, <1>u DEF Receive, workerVars, worldVars, budgetVars, tableVars
<1>a2. ASSUME NEW r \in Requests, Reject(r)
      PROVE  status'[q] \in Late
  BY <1>a2, <1>u DEF Reject, workerVars, worldVars, budgetVars, tableVars
<1>a3. ASSUME NEW r \in Requests, NEW p \in Periods, NEW a \in Amounts, Admit(r, p, a)
      PROVE  status'[q] \in Late
  BY <1>a3, <1>u DEF Admit, workerVars, worldVars, budgetVars, tableVars
<1>a4. ASSUME NEW r \in Requests, GrowOld(r)
      PROVE  status'[q] \in Late
  BY <1>a4, <1>u DEF GrowOld, workerVars, worldVars, budgetVars, tableVars
<1>a5. ASSUME NEW r \in Requests, NEW outcome \in Outcomes, Include(r, outcome)
      PROVE  status'[q] \in Late
  BY <1>a5, <1>t, <1>u DEF Include
<1>a6. ASSUME NEW r \in Requests, Drop(r)
      PROVE  status'[q] \in Late
  BY <1>a6, <1>t, <1>u DEF Drop
<1>a7. ASSUME NEW w \in Workers, ListSponsoring(w)
      PROVE  status'[q] \in Late
  BY <1>a7, <1>u DEF ListSponsoring, workerVars, worldVars, budgetVars, tableVars
<1>a8. ASSUME NEW w \in Workers, ListSubmitted(w)
      PROVE  status'[q] \in Late
  BY <1>a8, <1>u DEF ListSubmitted, workerVars, worldVars, budgetVars, tableVars
<1>a9. ASSUME NEW w \in Workers, NEW sn \in todo[w], Requeue(w, sn)
      PROVE  status'[q] \in Late
  BY <1>a9, <1>u DEF Requeue, workerVars, worldVars, budgetVars, tableVars
<1>a10. ASSUME NEW w \in Workers, NEW sn \in todo[w], ExpireRecovered(w, sn)
      PROVE  status'[q] \in Late
  BY <1>a10, <1>u DEF ExpireRecovered, workerVars, worldVars, budgetVars, tableVars
<1>a11. ASSUME NEW w \in Workers, NEW sn \in todo[w], NEW k \in Copies, Resume(w, sn, k)
      PROVE  status'[q] \in Late
  BY <1>a11, <1>u DEF Resume, workerVars, worldVars, budgetVars, tableVars
<1>a12. ASSUME NEW w \in Workers, RecoveryDone(w)
      PROVE  status'[q] \in Late
  BY <1>a12, <1>u DEF RecoveryDone, workerVars, worldVars, budgetVars, tableVars
<1>a13. ASSUME NEW w \in Workers, RecoveryFails(w)
      PROVE  status'[q] \in Late
  BY <1>a13, <1>u DEF RecoveryFails, workerVars, worldVars, budgetVars, tableVars
<1>a14. ASSUME NEW w \in Workers, NEW k \in Copies, Claim(w, k)
      PROVE  status'[q] \in Late
  BY <1>a14, <1>u DEF Claim, ClaimNext, worldVars
<1>a15. ASSUME NEW w \in Workers, NEW r \in Requests, NEW k \in Copies, ReconcileRow(w, r, k)
      PROVE  status'[q] \in Late
  BY <1>a15, <1>u DEF ReconcileRow, workerVars, worldVars, budgetVars, tableVars
<1>a16. ASSUME NEW w \in Workers, Crash(w)
      PROVE  status'[q] \in Late
  BY <1>a16, <1>u DEF Crash, workerVars, worldVars, budgetVars, tableVars
<1>a17. ASSUME NEW r \in Requests, NEW k \in Copies, ExpireClaimed(r, k)
      PROVE  status'[q] \in Late
  BY <1>a17, <1>u DEF ExpireClaimed, Finish, workerVars, worldVars, budgetVars, tableVars
<1>a18. ASSUME NEW r \in Requests, NEW k \in Copies, BeginSponsor(r, k)
      PROVE  status'[q] \in Late
  BY <1>a18, <1>u DEF BeginSponsor, workerVars, worldVars, budgetVars, tableVars
<1>a19. ASSUME NEW r \in Requests, NEW k \in Copies, SponsorRetry(r, k)
      PROVE  status'[q] \in Late
  BY <1>a19, <1>u DEF SponsorRetry, Finish, workerVars, worldVars, budgetVars, tableVars
<1>a20. ASSUME NEW r \in Requests, NEW k \in Copies, SponsorFailed(r, k)
      PROVE  status'[q] \in Late
  BY <1>a20, <1>u DEF SponsorFailed, Finish, workerVars, worldVars, budgetVars, tableVars
<1>a21. ASSUME NEW r \in Requests, NEW k \in Copies, NEW fee \in Fees, Persist(r, k, fee)
      PROVE  status'[q] \in Late
  BY <1>a21, <1>u DEF Persist, workerVars, worldVars, budgetVars, tableVars
<1>a22. ASSUME NEW r \in Requests, NEW k \in Copies, SubmitOK(r, k)
      PROVE  status'[q] \in Late
  BY <1>a22, <1>d DEF SubmitOK
<1>a23. ASSUME NEW r \in Requests, NEW k \in Copies, SubmitTransportError(r, k)
      PROVE  status'[q] \in Late
  BY <1>a23, <1>d, <1>u DEF SubmitTransportError
<1>a24. ASSUME NEW r \in Requests, NEW k \in Copies, SubmitRefused(r, k)
      PROVE  status'[q] \in Late
  BY <1>a24, <1>d, <1>u DEF SubmitRefused
<1>a25. ASSUME NEW r \in Requests, NEW k \in Copies, Patch(r, k)
      PROVE  status'[q] \in Late
  BY <1>a25, <1>u DEF Patch, workerVars, worldVars, budgetVars, tableVars
<1>a26. ASSUME NEW r \in Requests, NEW k \in Copies, WaitConfirmed(r, k)
      PROVE  status'[q] \in Late
  BY <1>a26, <1>u DEF WaitConfirmed, workerVars, worldVars, budgetVars, tableVars
<1>a27. ASSUME NEW r \in Requests, NEW k \in Copies, WaitFailed(r, k)
      PROVE  status'[q] \in Late
  BY <1>a27, <1>u DEF WaitFailed, workerVars, worldVars, budgetVars, tableVars
<1>a28. ASSUME NEW r \in Requests, NEW k \in Copies, WaitTimeout(r, k)
      PROVE  status'[q] \in Late
  BY <1>a28, <1>u DEF WaitTimeout, workerVars, worldVars, budgetVars, tableVars
<1>a29. ASSUME NEW r \in Requests, NEW k \in Copies, Confirm(r, k)
      PROVE  status'[q] \in Late
  BY <1>a29, <1>u DEF Confirm, Finish, workerVars, worldVars, budgetVars, tableVars
<1>a30. ASSUME NEW r \in Requests, NEW k \in Copies, Fail(r, k)
      PROVE  status'[q] \in Late
  BY <1>a30, <1>u DEF Fail, Finish, workerVars, worldVars, budgetVars, tableVars
<1>a31. ASSUME NEW r \in Requests, NEW k \in Copies, Park(r, k)
      PROVE  status'[q] \in Late
  BY <1>a31, <1>u DEF Park, Finish, workerVars, worldVars, budgetVars, tableVars
<1>a32. ASSUME NEW r \in Requests, NEW k \in Copies, ReconcileExpire(r, k)
      PROVE  status'[q] \in Late
  BY <1>a32, <1>u DEF ReconcileExpire, Finish, workerVars, worldVars, budgetVars, tableVars
<1>a33. ASSUME NEW r \in Requests, NEW k \in Copies, ReconcilePending(r, k)
      PROVE  status'[q] \in Late
  BY <1>a33, <1>u DEF ReconcilePending, workerVars, worldVars, budgetVars, tableVars
<1>a34. ASSUME NEW r \in Requests, NEW k \in Copies, DbError(r, k)
      PROVE  status'[q] \in Late
  BY <1>a34, <1>u DEF DbError, workerVars, worldVars, budgetVars, tableVars
<1>a35. ASSUME UNCHANGED vars
      PROVE  status'[q] \in Late
  BY <1>a35, <1>u DEF vars
<1> QED
  BY <1>a1, <1>a2, <1>a3, <1>a4, <1>a5, <1>a6, <1>a7, <1>a8, <1>a9, <1>a10, <1>a11, <1>a12, <1>a13,
     <1>a14, <1>a15, <1>a16, <1>a17, <1>a18, <1>a19, <1>a20, <1>a21, <1>a22, <1>a23, <1>a24, <1>a25, <1>a26,
     <1>a27, <1>a28, <1>a29, <1>a30, <1>a31, <1>a32, <1>a33, <1>a34, <1>a35
     DEF Next, ApiStep, WorldStep, RecoveryStep, TaskStep

\* The strengthened invariant holds always.
LEMMA PersistCorrect == Spec => []PersistInv
<1>1. Init => PersistInv
  BY DEF Init, TableInit, PersistInv, ResumedIsLate, SubmittingIsLate, PersistedBeforeSubmit, Slots
<1>2. TypeOK /\ PersistInv /\ [Next]_vars => PersistInv'
  BY ResumedStep, SubmittingStep, PersistedStep DEF PersistInv
<1> QED
  BY <1>1, <1>2, TypeCorrect, PTL DEF Spec

\* processClaimed promises that a crash can never lose track of a
\* possibly-submitted transaction (process.ts:42-43): what the network may have
\* seen has its bytes persisted in a row that says so, with any number of
\* workers, tasks, crashes and failed database calls.
THEOREM PersistedBeforeSubmitCorrect == Spec => []PersistedBeforeSubmit
  BY PersistCorrect, PTL DEF PersistInv

-----------------------------------------------------------------------------
(* ConfirmedIsIncluded *)

\* ConfirmedIsIncluded is not inductive: the answer of the indexer is held by a
\* task until its row is updated.
ConfirmingIsIncluded ==
  \A r \in Requests, k \in Copies : At(r, k, "confirm") => chain[r] = "ok"

\* What is included stays included.
LEMMA IncludedStays ==
  TypeOK /\ [Next]_vars => \A q \in Requests : chain[q] = "ok" => chain'[q] = "ok"
<1> SUFFICES ASSUME TypeOK, [Next]_vars, NEW q \in Requests, chain[q] = "ok"
             PROVE  chain'[q] = "ok"
  OBVIOUS
<1>t. chain \in [Requests -> ChainStates]
  BY DEF TypeOK
<1>a1. ASSUME NEW r \in Requests, Receive(r)
      PROVE  chain'[q] = "ok"
  BY <1>a1, <1>t DEF Receive, workerVars, worldVars, budgetVars, tableVars
<1>a2. ASSUME NEW r \in Requests, Reject(r)
      PROVE  chain'[q] = "ok"
  BY <1>a2, <1>t DEF Reject, workerVars, worldVars, budgetVars, tableVars
<1>a3. ASSUME NEW r \in Requests, NEW p \in Periods, NEW a \in Amounts, Admit(r, p, a)
      PROVE  chain'[q] = "ok"
  BY <1>a3, <1>t DEF Admit, workerVars, worldVars, budgetVars, tableVars
<1>a4. ASSUME NEW r \in Requests, GrowOld(r)
      PROVE  chain'[q] = "ok"
  BY <1>a4, <1>t DEF GrowOld, workerVars, worldVars, budgetVars, tableVars
<1>a5. ASSUME NEW r \in Requests, NEW outcome \in Outcomes, Include(r, outcome)
      PROVE  chain'[q] = "ok"
  BY <1>a5, <1>t DEF Include, workerVars, worldVars, budgetVars, tableVars
<1>a6. ASSUME NEW r \in Requests, Drop(r)
      PROVE  chain'[q] = "ok"
  BY <1>a6, <1>t DEF Drop, workerVars, worldVars, budgetVars, tableVars
<1>a7. ASSUME NEW w \in Workers, ListSponsoring(w)
      PROVE  chain'[q] = "ok"
  BY <1>a7, <1>t DEF ListSponsoring, workerVars, worldVars, budgetVars, tableVars
<1>a8. ASSUME NEW w \in Workers, ListSubmitted(w)
      PROVE  chain'[q] = "ok"
  BY <1>a8, <1>t DEF ListSubmitted, workerVars, worldVars, budgetVars, tableVars
<1>a9. ASSUME NEW w \in Workers, NEW sn \in todo[w], Requeue(w, sn)
      PROVE  chain'[q] = "ok"
  BY <1>a9, <1>t DEF Requeue, workerVars, worldVars, budgetVars, tableVars
<1>a10. ASSUME NEW w \in Workers, NEW sn \in todo[w], ExpireRecovered(w, sn)
      PROVE  chain'[q] = "ok"
  BY <1>a10, <1>t DEF ExpireRecovered, workerVars, worldVars, budgetVars, tableVars
<1>a11. ASSUME NEW w \in Workers, NEW sn \in todo[w], NEW k \in Copies, Resume(w, sn, k)
      PROVE  chain'[q] = "ok"
  BY <1>a11, <1>t DEF Resume, workerVars, worldVars, budgetVars, tableVars
<1>a12. ASSUME NEW w \in Workers, RecoveryDone(w)
      PROVE  chain'[q] = "ok"
  BY <1>a12, <1>t DEF RecoveryDone, workerVars, worldVars, budgetVars, tableVars
<1>a13. ASSUME NEW w \in Workers, RecoveryFails(w)
      PROVE  chain'[q] = "ok"
  BY <1>a13, <1>t DEF RecoveryFails, workerVars, worldVars, budgetVars, tableVars
<1>a14. ASSUME NEW w \in Workers, NEW k \in Copies, Claim(w, k)
      PROVE  chain'[q] = "ok"
  BY <1>a14 DEF Claim, ClaimNext, worldVars
<1>a15. ASSUME NEW w \in Workers, NEW r \in Requests, NEW k \in Copies, ReconcileRow(w, r, k)
      PROVE  chain'[q] = "ok"
  BY <1>a15, <1>t DEF ReconcileRow, workerVars, worldVars, budgetVars, tableVars
<1>a16. ASSUME NEW w \in Workers, Crash(w)
      PROVE  chain'[q] = "ok"
  BY <1>a16, <1>t DEF Crash, workerVars, worldVars, budgetVars, tableVars
<1>a17. ASSUME NEW r \in Requests, NEW k \in Copies, ExpireClaimed(r, k)
      PROVE  chain'[q] = "ok"
  BY <1>a17 DEF ExpireClaimed, Finish, workerVars, worldVars, budgetVars, tableVars
<1>a18. ASSUME NEW r \in Requests, NEW k \in Copies, BeginSponsor(r, k)
      PROVE  chain'[q] = "ok"
  BY <1>a18, <1>t DEF BeginSponsor, workerVars, worldVars, budgetVars, tableVars
<1>a19. ASSUME NEW r \in Requests, NEW k \in Copies, SponsorRetry(r, k)
      PROVE  chain'[q] = "ok"
  BY <1>a19 DEF SponsorRetry, Finish, workerVars, worldVars, budgetVars, tableVars
<1>a20. ASSUME NEW r \in Requests, NEW k \in Copies, SponsorFailed(r, k)
      PROVE  chain'[q] = "ok"
  BY <1>a20 DEF SponsorFailed, Finish, workerVars, worldVars, budgetVars, tableVars
<1>a21. ASSUME NEW r \in Requests, NEW k \in Copies, NEW fee \in Fees, Persist(r, k, fee)
      PROVE  chain'[q] = "ok"
  BY <1>a21, <1>t DEF Persist, workerVars, worldVars, budgetVars, tableVars
<1>a22. ASSUME NEW r \in Requests, NEW k \in Copies, SubmitOK(r, k)
      PROVE  chain'[q] = "ok"
  BY <1>a22, <1>t DEF SubmitOK, Delivered
<1>a23. ASSUME NEW r \in Requests, NEW k \in Copies, SubmitTransportError(r, k)
      PROVE  chain'[q] = "ok"
  BY <1>a23, <1>t DEF SubmitTransportError, Delivered
<1>a24. ASSUME NEW r \in Requests, NEW k \in Copies, SubmitRefused(r, k)
      PROVE  chain'[q] = "ok"
  BY <1>a24, <1>t DEF SubmitRefused, Delivered
<1>a25. ASSUME NEW r \in Requests, NEW k \in Copies, Patch(r, k)
      PROVE  chain'[q] = "ok"
  BY <1>a25, <1>t DEF Patch, workerVars, worldVars, budgetVars, tableVars
<1>a26. ASSUME NEW r \in Requests, NEW k \in Copies, WaitConfirmed(r, k)
      PROVE  chain'[q] = "ok"
  BY <1>a26, <1>t DEF WaitConfirmed, workerVars, worldVars, budgetVars, tableVars
<1>a27. ASSUME NEW r \in Requests, NEW k \in Copies, WaitFailed(r, k)
      PROVE  chain'[q] = "ok"
  BY <1>a27, <1>t DEF WaitFailed, workerVars, worldVars, budgetVars, tableVars
<1>a28. ASSUME NEW r \in Requests, NEW k \in Copies, WaitTimeout(r, k)
      PROVE  chain'[q] = "ok"
  BY <1>a28, <1>t DEF WaitTimeout, workerVars, worldVars, budgetVars, tableVars
<1>a29. ASSUME NEW r \in Requests, NEW k \in Copies, Confirm(r, k)
      PROVE  chain'[q] = "ok"
  BY <1>a29 DEF Confirm, Finish, workerVars, worldVars, budgetVars, tableVars
<1>a30. ASSUME NEW r \in Requests, NEW k \in Copies, Fail(r, k)
      PROVE  chain'[q] = "ok"
  BY <1>a30 DEF Fail, Finish, workerVars, worldVars, budgetVars, tableVars
<1>a31. ASSUME NEW r \in Requests, NEW k \in Copies, Park(r, k)
      PROVE  chain'[q] = "ok"
  BY <1>a31 DEF Park, Finish, workerVars, worldVars, budgetVars, tableVars
<1>a32. ASSUME NEW r \in Requests, NEW k \in Copies, ReconcileExpire(r, k)
      PROVE  chain'[q] = "ok"
  BY <1>a32 DEF ReconcileExpire, Finish, workerVars, worldVars, budgetVars, tableVars
<1>a33. ASSUME NEW r \in Requests, NEW k \in Copies, ReconcilePending(r, k)
      PROVE  chain'[q] = "ok"
  BY <1>a33, <1>t DEF ReconcilePending, workerVars, worldVars, budgetVars, tableVars
<1>a34. ASSUME NEW r \in Requests, NEW k \in Copies, DbError(r, k)
      PROVE  chain'[q] = "ok"
  BY <1>a34, <1>t DEF DbError, workerVars, worldVars, budgetVars, tableVars
<1>a35. ASSUME UNCHANGED vars
      PROVE  chain'[q] = "ok"
  BY <1>a35 DEF vars
<1> QED
  BY <1>a1, <1>a2, <1>a3, <1>a4, <1>a5, <1>a6, <1>a7, <1>a8, <1>a9, <1>a10, <1>a11, <1>a12, <1>a13,
     <1>a14, <1>a15, <1>a16, <1>a17, <1>a18, <1>a19, <1>a20, <1>a21, <1>a22, <1>a23, <1>a24, <1>a25, <1>a26,
     <1>a27, <1>a28, <1>a29, <1>a30, <1>a31, <1>a32, <1>a33, <1>a34, <1>a35
     DEF Next, ApiStep, WorldStep, RecoveryStep, TaskStep

\* Every step keeps ConfirmingIsIncluded.
LEMMA ConfirmingStep == TypeOK /\ [Next]_vars /\ ConfirmingIsIncluded => ConfirmingIsIncluded'
<1> SUFFICES ASSUME TypeOK, [Next]_vars, ConfirmingIsIncluded,
                    NEW q \in Requests, NEW l \in Copies,
                    task'[<<q, l>>] # Idle, task'[<<q, l>>].pc = "confirm"
             PROVE  chain'[q] = "ok"
  BY DEF ConfirmingIsIncluded, At
<1> DEFINE s == <<q, l>>
<1>t. task \in [Slots -> Tasks \cup {Idle}] /\ s \in Slots
  BY DEF TypeOK, Slots
<1>l. ASSUME chain[q] = "ok"
      PROVE  chain'[q] = "ok"
  BY <1>l, IncludedStays
<1>v. ASSUME task'[s] = task[s]
      PROVE  chain'[q] = "ok"
  BY <1>l, <1>v DEF ConfirmingIsIncluded, At
<1>g. ASSUME NEW r \in Requests, NEW k \in Copies, NEW pc, GoTo(r, k, pc), pc # "confirm", task[<<r, k>>] # Idle
      PROVE  chain'[q] = "ok"
  BY <1>g, <1>t, <1>v DEF GoTo
<1>e. ASSUME NEW r \in Requests, NEW k \in Copies, EndTask(r, k)
      PROVE  chain'[q] = "ok"
  BY <1>e, <1>t, <1>v DEF EndTask
<1>a1. ASSUME NEW r \in Requests, Receive(r)
      PROVE  chain'[q] = "ok"
  BY <1>a1, <1>v DEF Receive, workerVars, worldVars, budgetVars, tableVars
<1>a2. ASSUME NEW r \in Requests, Reject(r)
      PROVE  chain'[q] = "ok"
  BY <1>a2, <1>v DEF Reject, workerVars, worldVars, budgetVars, tableVars
<1>a3. ASSUME NEW r \in Requests, NEW p \in Periods, NEW a \in Amounts, Admit(r, p, a)
      PROVE  chain'[q] = "ok"
  BY <1>a3, <1>v DEF Admit, workerVars, worldVars, budgetVars, tableVars
<1>a4. ASSUME NEW r \in Requests, GrowOld(r)
      PROVE  chain'[q] = "ok"
  BY <1>a4, <1>v DEF GrowOld, workerVars, worldVars, budgetVars, tableVars
<1>a5. ASSUME NEW r \in Requests, NEW outcome \in Outcomes, Include(r, outcome)
      PROVE  chain'[q] = "ok"
  BY <1>a5, <1>v DEF Include, workerVars, worldVars, budgetVars, tableVars
<1>a6. ASSUME NEW r \in Requests, Drop(r)
      PROVE  chain'[q] = "ok"
  BY <1>a6, <1>v DEF Drop, workerVars, worldVars, budgetVars, tableVars
<1>a7. ASSUME NEW w \in Workers, ListSponsoring(w)
      PROVE  chain'[q] = "ok"
  BY <1>a7, <1>v DEF ListSponsoring, workerVars, worldVars, budgetVars, tableVars
<1>a8. ASSUME NEW w \in Workers, ListSubmitted(w)
      PROVE  chain'[q] = "ok"
  BY <1>a8, <1>v DEF ListSubmitted, workerVars, worldVars, budgetVars, tableVars
<1>a9. ASSUME NEW w \in Workers, NEW sn \in todo[w], Requeue(w, sn)
      PROVE  chain'[q] = "ok"
  BY <1>a9, <1>v DEF Requeue, workerVars, worldVars, budgetVars, tableVars
<1>a10. ASSUME NEW w \in Workers, NEW sn \in todo[w], ExpireRecovered(w, sn)
      PROVE  chain'[q] = "ok"
  BY <1>a10, <1>v DEF ExpireRecovered, workerVars, worldVars, budgetVars, tableVars
<1>a11. ASSUME NEW w \in Workers, NEW sn \in todo[w], NEW k \in Copies, Resume(w, sn, k)
      PROVE  chain'[q] = "ok"
  BY <1>a11, <1>t, <1>v DEF Resume, Spawn, NewTask
<1>a12. ASSUME NEW w \in Workers, RecoveryDone(w)
      PROVE  chain'[q] = "ok"
  BY <1>a12, <1>v DEF RecoveryDone, workerVars, worldVars, budgetVars, tableVars
<1>a13. ASSUME NEW w \in Workers, RecoveryFails(w)
      PROVE  chain'[q] = "ok"
  BY <1>a13, <1>v DEF RecoveryFails, workerVars, worldVars, budgetVars, tableVars
<1>a14. ASSUME NEW w \in Workers, NEW k \in Copies, Claim(w, k)
      PROVE  chain'[q] = "ok"
  <2>1. PICK r, t : r \in Requests /\ Spawn(r, k, t) /\ t.pc = "check"
    BY <1>a14 DEF Claim, ClaimNext, Oldest, InStatus, NewTask
  <2> QED
    BY <2>1, <1>t, <1>v DEF Spawn
<1>a15. ASSUME NEW w \in Workers, NEW r \in Requests, NEW k \in Copies, ReconcileRow(w, r, k)
      PROVE  chain'[q] = "ok"
  BY <1>a15, <1>t, <1>v DEF ReconcileRow, Spawn, NewTask
<1>a16. ASSUME NEW w \in Workers, Crash(w)
      PROVE  chain'[q] = "ok"
  BY <1>a16, <1>t, <1>v DEF Crash
<1>a17. ASSUME NEW r \in Requests, NEW k \in Copies, ExpireClaimed(r, k)
      PROVE  chain'[q] = "ok"
  BY <1>a17, <1>e DEF ExpireClaimed, Finish
<1>a18. ASSUME NEW r \in Requests, NEW k \in Copies, BeginSponsor(r, k)
      PROVE  chain'[q] = "ok"
  BY <1>a18, <1>g DEF BeginSponsor, At
<1>a19. ASSUME NEW r \in Requests, NEW k \in Copies, SponsorRetry(r, k)
      PROVE  chain'[q] = "ok"
  BY <1>a19, <1>e DEF SponsorRetry, Finish
<1>a20. ASSUME NEW r \in Requests, NEW k \in Copies, SponsorFailed(r, k)
      PROVE  chain'[q] = "ok"
  BY <1>a20, <1>e DEF SponsorFailed, Finish
<1>a21. ASSUME NEW r \in Requests, NEW k \in Copies, NEW fee \in Fees, Persist(r, k, fee)
      PROVE  chain'[q] = "ok"
  BY <1>a21, <1>t, <1>v, <1>e DEF Persist, At, Tasks
<1>a22. ASSUME NEW r \in Requests, NEW k \in Copies, SubmitOK(r, k)
      PROVE  chain'[q] = "ok"
  BY <1>a22, <1>g DEF SubmitOK, At
<1>a23. ASSUME NEW r \in Requests, NEW k \in Copies, SubmitTransportError(r, k)
      PROVE  chain'[q] = "ok"
  BY <1>a23, <1>g DEF SubmitTransportError, At
<1>a24. ASSUME NEW r \in Requests, NEW k \in Copies, SubmitRefused(r, k)
      PROVE  chain'[q] = "ok"
  BY <1>a24, <1>g DEF SubmitRefused, At
<1>a25. ASSUME NEW r \in Requests, NEW k \in Copies, Patch(r, k)
      PROVE  chain'[q] = "ok"
  BY <1>a25, <1>g DEF Patch, At
<1>a26. ASSUME NEW r \in Requests, NEW k \in Copies, WaitConfirmed(r, k)
      PROVE  chain'[q] = "ok"
  BY <1>a26, <1>t, <1>l, <1>v DEF WaitConfirmed, GoTo
<1>a27. ASSUME NEW r \in Requests, NEW k \in Copies, WaitFailed(r, k)
      PROVE  chain'[q] = "ok"
  BY <1>a27, <1>g DEF WaitFailed, At
<1>a28. ASSUME NEW r \in Requests, NEW k \in Copies, WaitTimeout(r, k)
      PROVE  chain'[q] = "ok"
  BY <1>a28, <1>g DEF WaitTimeout, At
<1>a29. ASSUME NEW r \in Requests, NEW k \in Copies, Confirm(r, k)
      PROVE  chain'[q] = "ok"
  BY <1>a29, <1>e DEF Confirm, Finish
<1>a30. ASSUME NEW r \in Requests, NEW k \in Copies, Fail(r, k)
      PROVE  chain'[q] = "ok"
  BY <1>a30, <1>e DEF Fail, Finish
<1>a31. ASSUME NEW r \in Requests, NEW k \in Copies, Park(r, k)
      PROVE  chain'[q] = "ok"
  BY <1>a31, <1>e DEF Park, Finish
<1>a32. ASSUME NEW r \in Requests, NEW k \in Copies, ReconcileExpire(r, k)
      PROVE  chain'[q] = "ok"
  BY <1>a32, <1>e DEF ReconcileExpire, Finish
<1>a33. ASSUME NEW r \in Requests, NEW k \in Copies, ReconcilePending(r, k)
      PROVE  chain'[q] = "ok"
  BY <1>a33, <1>e DEF ReconcilePending
<1>a34. ASSUME NEW r \in Requests, NEW k \in Copies, DbError(r, k)
      PROVE  chain'[q] = "ok"
  BY <1>a34, <1>g, <1>e DEF DbError, At
<1>a35. ASSUME UNCHANGED vars
      PROVE  chain'[q] = "ok"
  BY <1>a35, <1>v DEF vars
<1> QED
  BY <1>a1, <1>a2, <1>a3, <1>a4, <1>a5, <1>a6, <1>a7, <1>a8, <1>a9, <1>a10, <1>a11, <1>a12, <1>a13,
     <1>a14, <1>a15, <1>a16, <1>a17, <1>a18, <1>a19, <1>a20, <1>a21, <1>a22, <1>a23, <1>a24, <1>a25, <1>a26,
     <1>a27, <1>a28, <1>a29, <1>a30, <1>a31, <1>a32, <1>a33, <1>a34, <1>a35
     DEF Next, ApiStep, WorldStep, RecoveryStep, TaskStep

\* Only a confirming task confirms a row.
LEMMA ConfirmsByTask ==
  TypeOK /\ [Next]_vars =>
    \A q \in Requests : status'[q] = "CONFIRMED" =>
      status[q] = "CONFIRMED" \/ \E k \in Copies : At(q, k, "confirm")
<1> SUFFICES ASSUME TypeOK, [Next]_vars, NEW q \in Requests, status'[q] = "CONFIRMED"
             PROVE  status[q] = "CONFIRMED" \/ \E k \in Copies : At(q, k, "confirm")
  OBVIOUS
<1> DEFINE Goal == status[q] = "CONFIRMED" \/ \E k \in Copies : At(q, k, "confirm")
<1>t. status \in [Requests -> RequestStatus \cup {ABSENT}]
  BY DEF TypeOK, TableTypeOK
<1>u. ASSUME UNCHANGED status
      PROVE  Goal
  BY <1>u
<1>m. ASSUME NEW r \in Requests, NEW to, to # "CONFIRMED", MoveTo(r, to)
      PROVE  Goal
  BY <1>t, <1>m DEF MoveTo
<1>n. \A w \in Workers : \A sn \in todo[w] : sn.request \in Requests
  BY DEF TypeOK, Snapshots
<1> HIDE DEF Goal
<1>a1. ASSUME NEW r \in Requests, Receive(r)
      PROVE  Goal
  BY <1>a1, <1>m DEF Receive, InsertReceived
<1>a2. ASSUME NEW r \in Requests, Reject(r)
      PROVE  Goal
  BY <1>a2, <1>m, <1>u DEF Reject, tableVars
<1>a3. ASSUME NEW r \in Requests, NEW p \in Periods, NEW a \in Amounts, Admit(r, p, a)
      PROVE  Goal
  BY <1>a3, <1>m, <1>u DEF Admit, tableVars
<1>a4. ASSUME NEW r \in Requests, GrowOld(r)
      PROVE  Goal
  BY <1>a4, <1>m, <1>u DEF GrowOld, tableVars
<1>a5. ASSUME NEW r \in Requests, NEW outcome \in Outcomes, Include(r, outcome)
      PROVE  Goal
  BY <1>a5, <1>m, <1>u DEF Include, tableVars
<1>a6. ASSUME NEW r \in Requests, Drop(r)
      PROVE  Goal
  BY <1>a6, <1>m, <1>u DEF Drop, tableVars
<1>a7. ASSUME NEW w \in Workers, ListSponsoring(w)
      PROVE  Goal
  BY <1>a7, <1>m, <1>u DEF ListSponsoring, tableVars
<1>a8. ASSUME NEW w \in Workers, ListSubmitted(w)
      PROVE  Goal
  BY <1>a8, <1>m, <1>u DEF ListSubmitted, tableVars
<1>a9. ASSUME NEW w \in Workers, NEW sn \in todo[w], Requeue(w, sn)
      PROVE  Goal
  BY <1>a9, <1>n, <1>m, <1>u DEF Requeue
<1>a10. ASSUME NEW w \in Workers, NEW sn \in todo[w], ExpireRecovered(w, sn)
      PROVE  Goal
  BY <1>a10, <1>n, <1>m, <1>u DEF ExpireRecovered
<1>a11. ASSUME NEW w \in Workers, NEW sn \in todo[w], NEW k \in Copies, Resume(w, sn, k)
      PROVE  Goal
  BY <1>a11, <1>m, <1>u DEF Resume, tableVars
<1>a12. ASSUME NEW w \in Workers, RecoveryDone(w)
      PROVE  Goal
  BY <1>a12, <1>m, <1>u DEF RecoveryDone, tableVars
<1>a13. ASSUME NEW w \in Workers, RecoveryFails(w)
      PROVE  Goal
  BY <1>a13, <1>m, <1>u DEF RecoveryFails, tableVars
<1>a14. ASSUME NEW w \in Workers, NEW k \in Copies, Claim(w, k)
      PROVE  Goal
  <2>1. PICK r \in Requests : MoveTo(r, "SPONSORING")
    BY <1>a14 DEF Claim, ClaimNext, Oldest, InStatus
  <2> QED
    BY <2>1, <1>m
<1>a15. ASSUME NEW w \in Workers, NEW r \in Requests, NEW k \in Copies, ReconcileRow(w, r, k)
      PROVE  Goal
  BY <1>a15, <1>m, <1>u DEF ReconcileRow, tableVars
<1>a16. ASSUME NEW w \in Workers, Crash(w)
      PROVE  Goal
  BY <1>a16, <1>m, <1>u DEF Crash, tableVars
<1>a17. ASSUME NEW r \in Requests, NEW k \in Copies, ExpireClaimed(r, k)
      PROVE  Goal
  BY <1>a17, <1>m, <1>u DEF ExpireClaimed, Finish
<1>a18. ASSUME NEW r \in Requests, NEW k \in Copies, BeginSponsor(r, k)
      PROVE  Goal
  BY <1>a18, <1>m, <1>u DEF BeginSponsor, tableVars
<1>a19. ASSUME NEW r \in Requests, NEW k \in Copies, SponsorRetry(r, k)
      PROVE  Goal
  BY <1>a19, <1>m, <1>u DEF SponsorRetry, Finish
<1>a20. ASSUME NEW r \in Requests, NEW k \in Copies, SponsorFailed(r, k)
      PROVE  Goal
  BY <1>a20, <1>m, <1>u DEF SponsorFailed, Finish
<1>a21. ASSUME NEW r \in Requests, NEW k \in Copies, NEW fee \in Fees, Persist(r, k, fee)
      PROVE  Goal
  BY <1>a21, <1>m, <1>u DEF Persist, tableVars
<1>a22. ASSUME NEW r \in Requests, NEW k \in Copies, SubmitOK(r, k)
      PROVE  Goal
  BY <1>a22, <1>m, <1>u DEF SubmitOK, tableVars
<1>a23. ASSUME NEW r \in Requests, NEW k \in Copies, SubmitTransportError(r, k)
      PROVE  Goal
  BY <1>a23, <1>m, <1>u DEF SubmitTransportError, tableVars
<1>a24. ASSUME NEW r \in Requests, NEW k \in Copies, SubmitRefused(r, k)
      PROVE  Goal
  BY <1>a24, <1>m, <1>u DEF SubmitRefused, tableVars
<1>a25. ASSUME NEW r \in Requests, NEW k \in Copies, Patch(r, k)
      PROVE  Goal
  BY <1>a25, <1>m, <1>u DEF Patch, tableVars
<1>a26. ASSUME NEW r \in Requests, NEW k \in Copies, WaitConfirmed(r, k)
      PROVE  Goal
  BY <1>a26, <1>m, <1>u DEF WaitConfirmed, tableVars
<1>a27. ASSUME NEW r \in Requests, NEW k \in Copies, WaitFailed(r, k)
      PROVE  Goal
  BY <1>a27, <1>m, <1>u DEF WaitFailed, tableVars
<1>a28. ASSUME NEW r \in Requests, NEW k \in Copies, WaitTimeout(r, k)
      PROVE  Goal
  BY <1>a28, <1>m, <1>u DEF WaitTimeout, tableVars
<1>a29. ASSUME NEW r \in Requests, NEW k \in Copies, Confirm(r, k)
      PROVE  Goal
  BY <1>a29, <1>t, <1>u DEF Confirm, Finish, MoveTo, Goal
<1>a30. ASSUME NEW r \in Requests, NEW k \in Copies, Fail(r, k)
      PROVE  Goal
  BY <1>a30, <1>m, <1>u DEF Fail, Finish
<1>a31. ASSUME NEW r \in Requests, NEW k \in Copies, Park(r, k)
      PROVE  Goal
  BY <1>a31, <1>m, <1>u DEF Park, Finish
<1>a32. ASSUME NEW r \in Requests, NEW k \in Copies, ReconcileExpire(r, k)
      PROVE  Goal
  BY <1>a32, <1>m, <1>u DEF ReconcileExpire, Finish
<1>a33. ASSUME NEW r \in Requests, NEW k \in Copies, ReconcilePending(r, k)
      PROVE  Goal
  BY <1>a33, <1>m, <1>u DEF ReconcilePending, tableVars
<1>a34. ASSUME NEW r \in Requests, NEW k \in Copies, DbError(r, k)
      PROVE  Goal
  BY <1>a34, <1>m, <1>u DEF DbError, tableVars
<1>a35. ASSUME UNCHANGED vars
      PROVE  Goal
  BY <1>a35, <1>u DEF vars
<1>x. Goal
  BY <1>a1, <1>a2, <1>a3, <1>a4, <1>a5, <1>a6, <1>a7, <1>a8, <1>a9, <1>a10, <1>a11, <1>a12, <1>a13,
     <1>a14, <1>a15, <1>a16, <1>a17, <1>a18, <1>a19, <1>a20, <1>a21, <1>a22, <1>a23, <1>a24, <1>a25, <1>a26,
     <1>a27, <1>a28, <1>a29, <1>a30, <1>a31, <1>a32, <1>a33, <1>a34, <1>a35
     DEF Next, ApiStep, WorldStep, RecoveryStep, TaskStep
<1> QED
  BY <1>x DEF Goal

\* A request is confirmed, its DUST settled and its usage recorded, only when
\* the chain has included and entirely applied its transaction.
THEOREM ConfirmedIsIncludedCorrect == Spec => []ConfirmedIsIncluded
<1>1. Init => ConfirmingIsIncluded /\ ConfirmedIsIncluded
  BY DEF Init, TableInit, ConfirmingIsIncluded, ConfirmedIsIncluded, At, Slots, ABSENT
<1>2. TypeOK /\ ConfirmingIsIncluded /\ ConfirmedIsIncluded /\ [Next]_vars
        => ConfirmingIsIncluded' /\ ConfirmedIsIncluded'
  BY ConfirmingStep, ConfirmsByTask, IncludedStays DEF ConfirmingIsIncluded, ConfirmedIsIncluded
<1> QED
  BY <1>1, <1>2, TypeCorrect, PTL DEF Spec
-----------------------------------------------------------------------------
(* One worker process at a time                                            *)

SponsorPcs == {"check", "sponsor"}
Sponsoring(s) == task[s] # Idle /\ task[s].pc \in SponsorPcs

\* A row in one of these was SUBMITTED and will not be again.
Past == {"TIMEOUT", "UNKNOWN", "CONFIRMED", "SUBMISSION_FAILED", "EXPIRED"}

(* What a step does to the rows, the tasks and the worker's life.          *)

Frame == UNCHANGED <<attempts, phase, todo, crashes>>

NothingMoves == Frame /\ UNCHANGED <<status, task>>

ApiMoves(r) ==
  /\ Frame /\ UNCHANGED task
  /\ status[r] \in {ABSENT, "RECEIVED"}
  /\ \E to \in {"RECEIVED", "REJECTED", "RESERVED"} : MoveTo(r, to)

TaskGoes(r, k) ==
  /\ Frame /\ UNCHANGED status /\ task[<<r, k>>] # Idle
  /\ \E pc \in Pcs :
       /\ GoTo(r, k, pc)
       /\ pc \in SponsorPcs <=> task[<<r, k>>].pc \in SponsorPcs
       /\ pc = "deadline" => task[<<r, k>>].kind = "reconcile"

\* A task that ends with its row as it was: a query has failed, or the row is
\* not the task's to move.
TaskLeaves(r, k) ==
  /\ Frame /\ UNCHANGED status /\ task[<<r, k>>] # Idle /\ EndTask(r, k)
  /\ \/ DbError(r, k) \/ task[<<r, k>>].pc = "deadline"
     \/ ~(Sponsoring(<<r, k>>) <=> From(r, k) = "SPONSORING")
     \/ From(r, k) \notin {"SPONSORING", "SUBMITTED"}
     \/ status[r] # From(r, k)

TaskFinishes(r, k) ==
  /\ Frame /\ task[<<r, k>>] # Idle /\ EndTask(r, k)
  /\ status[r] = From(r, k)
  /\ \E to \in {"RESERVED", "SPONSORING_FAILED"} \cup Past :
       /\ CanTransition(status[r], to) /\ MoveTo(r, to)
       /\ to = "RESERVED" => Sponsoring(<<r, k>>) /\ task[<<r, k>>].attempt < MaxAttempts

TaskPersists(r, k) ==
  /\ Frame /\ Sponsoring(<<r, k>>) /\ MoveTo(r, "SUBMITTED")
  /\ \E t \in Tasks :
       /\ task' = [task EXCEPT ![<<r, k>>] = t]
       /\ t.pc = "submit" /\ t.from = "SUBMITTED" /\ t.kind = task[<<r, k>>].kind

Effect ==
  \/ NothingMoves
  \/ \E r \in Requests : ApiMoves(r)
  \/ \E r \in Requests, k \in Copies : TaskGoes(r, k) \/ TaskLeaves(r, k) \/ TaskFinishes(r, k) \/ TaskPersists(r, k)
  \/ \E v \in Workers :
       \/ ListSponsoring(v) \/ ListSubmitted(v) \/ RecoveryDone(v) \/ RecoveryFails(v) \/ Crash(v)
       \/ \E sn \in todo[v] : Requeue(v, sn) \/ ExpireRecovered(v, sn) \/ \E k \in Copies : Resume(v, sn, k)
       \/ \E k \in Copies : Claim(v, k)
       \/ \E r \in Requests, k \in Copies : ReconcileRow(v, r, k)

\* The last step of a task.
LEMMA FinishEffect ==
  ASSUME TypeOK, NEW r \in Requests, NEW k \in Copies, NEW to \in {"RESERVED", "SPONSORING_FAILED"} \cup Past,
         task[<<r, k>>] # Idle, EndTask(r, k), UNCHANGED <<attempts, phase, todo, worldVars>>,
         \/ TransitionOK(r, From(r, k), to) /\ MoveTo(r, to)
         \/ ~TransitionOK(r, From(r, k), to) /\ UNCHANGED status,
         to = "RESERVED" => Sponsoring(<<r, k>>) /\ task[<<r, k>>].attempt < MaxAttempts,
         Sponsoring(<<r, k>>) => CanTransition("SPONSORING", to),
         ~Sponsoring(<<r, k>>) /\ task[<<r, k>>].pc # "deadline" => CanTransition("SUBMITTED", to)
  PROVE  TaskLeaves(r, k) \/ TaskFinishes(r, k)
<1>1. Frame
  BY DEF Frame, worldVars
<1>2. CASE TransitionOK(r, From(r, k), to) /\ MoveTo(r, to)
  BY <1>1, <1>2 DEF TransitionOK, TaskFinishes
<1>3. CASE ~TransitionOK(r, From(r, k), to) /\ UNCHANGED status
  BY <1>1, <1>3 DEF TransitionOK, TaskLeaves
<1> QED
  BY <1>2, <1>3

\* Every step has one of these effects.
LEMMA EffectOfStep == TypeOK /\ [Next]_vars => Effect
<1> SUFFICES ASSUME TypeOK, [Next]_vars
             PROVE  Effect
  OBVIOUS
<1>t. task \in [Slots -> Tasks \cup {Idle}] /\ \A r \in Requests, k \in Copies : task[<<r, k>>] \in Tasks \cup {Idle}
  BY DEF TypeOK, Slots
<1>1. ASSUME NEW r \in Requests, ApiStep(r)
      PROVE  Effect
  <2>1. Frame /\ UNCHANGED task
    BY <1>1 DEF ApiStep, Receive, Reject, Admit, Frame, workerVars, worldVars
  <2>2. status[r] \in {ABSENT, "RECEIVED"} /\ \E to \in {"RECEIVED", "REJECTED", "RESERVED"} : MoveTo(r, to)
    BY <1>1 DEF ApiStep, Receive, Reject, Admit, InsertReceived, TransitionOK
  <2> QED
    BY <2>1, <2>2 DEF ApiMoves, Effect
<1>2. ASSUME NEW r \in Requests, WorldStep(r)
      PROVE  Effect
  <2>1. NothingMoves
    BY <1>2 DEF WorldStep, GrowOld, Include, Drop, NothingMoves, Frame, tableVars, workerVars
  <2> QED
    BY <2>1 DEF Effect
<1>3. ASSUME NEW r \in Requests, NEW k \in Copies,
             \/ BeginSponsor(r, k) \/ SubmitOK(r, k) \/ SubmitTransportError(r, k) \/ SubmitRefused(r, k)
             \/ Patch(r, k) \/ WaitConfirmed(r, k) \/ WaitFailed(r, k) \/ WaitTimeout(r, k)
             \/ DbFails /\ At(r, k, "patch") /\ GoTo(r, k, "park") /\ UNCHANGED <<tableVars, phase, timers, todo, worldVars>>
      PROVE  Effect
  <2>1. Frame /\ UNCHANGED status /\ task[<<r, k>>] # Idle
    BY <1>3 DEF BeginSponsor, SubmitOK, SubmitTransportError, SubmitRefused, Patch, WaitConfirmed, WaitFailed,
                WaitTimeout, Frame, At, tableVars, worldVars
  <2>2. \E pc \in Pcs :
          /\ GoTo(r, k, pc)
          /\ pc \in SponsorPcs <=> task[<<r, k>>].pc \in SponsorPcs
          /\ pc = "deadline" => task[<<r, k>>].kind = "reconcile"
    <3>1. CASE BeginSponsor(r, k)
      BY <3>1 DEF BeginSponsor, At, SponsorPcs, Pcs
    <3>2. CASE SubmitOK(r, k) \/ SubmitTransportError(r, k) \/ SubmitRefused(r, k) \/ Patch(r, k)
      BY <3>2 DEF SubmitOK, SubmitTransportError, SubmitRefused, Patch, At, SponsorPcs, Pcs
    <3>3. CASE WaitConfirmed(r, k) \/ WaitFailed(r, k)
      BY <3>3 DEF WaitConfirmed, WaitFailed, At, SponsorPcs, Pcs
    <3>4. CASE WaitTimeout(r, k)
      BY <3>4 DEF WaitTimeout, At, SponsorPcs, Pcs
    <3>5. CASE DbFails /\ At(r, k, "patch") /\ GoTo(r, k, "park")
      BY <3>5 DEF At, SponsorPcs, Pcs
    <3> QED
      BY <1>3, <3>1, <3>2, <3>3, <3>4, <3>5
  <2> QED
    BY <2>1, <2>2 DEF TaskGoes, Effect
<1>4. ASSUME NEW r \in Requests, NEW k \in Copies,
             \/ ExpireClaimed(r, k) \/ SponsorRetry(r, k) \/ SponsorFailed(r, k)
             \/ Confirm(r, k) \/ Fail(r, k) \/ Park(r, k) \/ ReconcileExpire(r, k)
      PROVE  Effect
  <2>s. \A to \in {"EXPIRED", "RESERVED", "SPONSORING_FAILED"} : CanTransition("SPONSORING", to)
    BY DEF CanTransition, T
  <2>1. CASE ExpireClaimed(r, k)
    BY <2>s, <2>1, FinishEffect DEF ExpireClaimed, Finish, At, Sponsoring, SponsorPcs, Past, Effect
  <2>2. CASE SponsorRetry(r, k)
    BY <2>s, <2>2, FinishEffect DEF SponsorRetry, Finish, At, Sponsoring, SponsorPcs, Past, Effect
  <2>3. CASE SponsorFailed(r, k)
    BY <2>s, <2>3, FinishEffect DEF SponsorFailed, Finish, At, Sponsoring, SponsorPcs, Past, Effect
  <2>4. CASE Confirm(r, k) \/ Fail(r, k) \/ Park(r, k)
    <3>1. \A to \in {"CONFIRMED", "SUBMISSION_FAILED", "TIMEOUT"} : CanTransition("SUBMITTED", to) /\ to \in Past
      BY DEF CanTransition, T, Past
    <3>2. ~Sponsoring(<<r, k>>)
      BY <2>4 DEF Confirm, Fail, Park, At, Sponsoring, SponsorPcs
    <3> QED
      BY <2>4, <3>1, <3>2, FinishEffect DEF Confirm, Finish, Fail, Park, At, Effect
  <2>5. CASE ReconcileExpire(r, k)
    BY <2>5, FinishEffect DEF ReconcileExpire, Finish, At, Sponsoring, SponsorPcs, Past, Effect
  <2> QED
    BY <1>4, <2>1, <2>2, <2>3, <2>4, <2>5
<1>5. ASSUME NEW r \in Requests, NEW k \in Copies, NEW fee \in Fees, Persist(r, k, fee)
      PROVE  Effect
  <2>1. Frame /\ Sponsoring(<<r, k>>)
    BY <1>5 DEF Persist, Frame, At, Sponsoring, SponsorPcs, worldVars
  <2>2. CASE TransitionOK(r, From(r, k), "SUBMITTED")
    <3> DEFINE t == [task[<<r, k>>] EXCEPT !.pc = "submit", !.from = "SUBMITTED", !.ident = identifier[r]]
    <3>1. task' = [task EXCEPT ![<<r, k>>] = t] /\ MoveTo(r, "SUBMITTED")
      BY <1>5, <2>2 DEF Persist
    <3>2. task[<<r, k>>] \in Tasks
      BY <1>t, <2>1 DEF Sponsoring
    <3>3. t \in Tasks /\ t.pc = "submit" /\ t.from = "SUBMITTED" /\ t.kind = task[<<r, k>>].kind
      BY <3>2 DEF Tasks, Pcs, HOLDS_RESERVATION, TypeOK, TableTypeOK
    <3> QED
      BY <2>1, <3>1, <3>3 DEF TaskPersists, Effect
  <2>3. CASE ~TransitionOK(r, From(r, k), "SUBMITTED")
    <3>1. From(r, k) # "SPONSORING" \/ status[r] # From(r, k)
      BY <2>3 DEF TransitionOK, CanTransition, T
    <3>2. UNCHANGED status /\ EndTask(r, k) /\ task[<<r, k>>] # Idle
      BY <1>5, <2>1, <2>3 DEF Persist, Sponsoring
    <3> QED
      BY <2>1, <3>1, <3>2 DEF TaskLeaves, Effect
  <2> QED
    BY <2>2, <2>3
<1>6. ASSUME NEW r \in Requests, NEW k \in Copies, ReconcilePending(r, k)
      PROVE  Effect
  <2>1. Frame /\ UNCHANGED status /\ task[<<r, k>>] # Idle /\ EndTask(r, k) /\ task[<<r, k>>].pc = "deadline"
    BY <1>6 DEF ReconcilePending, Frame, At, tableVars, worldVars
  <2> QED
    BY <2>1 DEF TaskLeaves, Effect
<1>7. ASSUME NEW r \in Requests, NEW k \in Copies, DbError(r, k)
      PROVE  Effect
  <2>1. CASE At(r, k, "patch") /\ GoTo(r, k, "park")
    BY <1>3, <1>7, <2>1 DEF DbError
  <2>2. CASE (\E pc \in Pcs : At(r, k, pc)) /\ EndTask(r, k)
    <3>1. Frame /\ UNCHANGED status /\ task[<<r, k>>] # Idle
      BY <1>7, <2>2 DEF DbError, Frame, At, tableVars, worldVars
    <3> QED
      BY <1>7, <2>2, <3>1 DEF TaskLeaves, Effect
  <2> QED
    BY <1>7, <2>1, <2>2 DEF DbError, Pcs
<1>8. CASE UNCHANGED vars
  BY <1>8 DEF vars, NothingMoves, Frame, Effect
<1>9. CASE \E w \in Workers : \/ RecoveryStep(w) \/ RecoveryFails(w) \/ Crash(w)
                              \/ \E k \in Copies : Claim(w, k)
                              \/ \E r \in Requests, k \in Copies : ReconcileRow(w, r, k)
  BY <1>9 DEF RecoveryStep, Effect
<1> QED
  BY <1>1, <1>2, <1>3, <1>4, <1>5, <1>6, <1>7, <1>8, <1>9 DEF Next, TaskStep
-----------------------------------------------------------------------------
(* The invariant.                                                          *)

\* A sponsoring task has the row, as it claimed it, and nobody else has.
SponsorsOK(w) ==
  \A r \in Requests, k \in Copies : Sponsoring(<<r, k>>) =>
    /\ phase[w] = "ready" /\ status[r] = "SPONSORING"
    /\ task[<<r, k>>].from = "SPONSORING" /\ task[<<r, k>>].kind = "worker"
    /\ task[<<r, k>>].attempt = attempts[r]
    /\ \A l \in Copies : Sponsoring(<<r, l>>) => l = k

\* What the recovery pass has listed.
TodoOK(w) ==
  \A sn \in todo[w] :
    \/ phase[w] = "requeue" /\ sn.from = "SPONSORING"
    \/ /\ phase[w] = "resume" /\ sn.from \in PossiblySubmitted
       /\ sn.from = "SUBMITTED" \/ status[sn.request] \in Past

\* The tasks beyond sponsoring.
DrivesOK ==
  \A r \in Requests, k \in Copies : task[<<r, k>>] # Idle /\ ~Sponsoring(<<r, k>>) =>
    /\ task[<<r, k>>].from \in PossiblySubmitted
    /\ task[<<r, k>>].from = "SUBMITTED" \/ status[r] \in Past
    /\ task[<<r, k>>].from = "SUBMITTED" => task[<<r, k>>].kind = "worker" /\ task[<<r, k>>].pc # "deadline"

\* A row in the queue has an attempt left, and so has one that a crash has left
\* behind.
AttemptsOK(w) ==
  \A r \in Requests :
    /\ attempts[r] <= MaxAttempts + crashes
    /\ status[r] \in {ABSENT, "RECEIVED"} => attempts[r] = 0
    /\ status[r] = "RESERVED" => attempts[r] + 1 <= MaxAttempts + crashes
    /\ status[r] = "SPONSORING" /\ phase[w] # "ready" => attempts[r] + 1 <= MaxAttempts + crashes

AloneInv(w) == SponsorsOK(w) /\ TodoOK(w) /\ DrivesOK /\ AttemptsOK(w)

LEMMA AloneInit ==
  ASSUME NEW w \in Workers, MaxAttempts > 0, Init
  PROVE  AloneInv(w)
<1>1. \A s \in Slots : task[s] = Idle
  BY DEF Init
<1>2. \A r \in Requests, k \in Copies : task[<<r, k>>] = Idle
  BY <1>1 DEF Slots
<1>3. SponsorsOK(w) /\ DrivesOK
  BY <1>2 DEF SponsorsOK, DrivesOK, Sponsoring
<1>4. TodoOK(w)
  BY DEF Init, TodoOK
<1>5. AttemptsOK(w)
  BY BoundsAssumption DEF Init, TableInit, AttemptsOK, ABSENT
<1> QED
  BY <1>3, <1>4, <1>5 DEF AloneInv

\* A row that is past SUBMITTED stays there.
LEMMA PastStays ==
  ASSUME TypeOK, [Next]_vars, NEW r \in Requests, status[r] \in Past
  PROVE  status'[r] \in Past
  BY StatusStep DEF MovesByTable, Past, CanTransition, T, ABSENT

\* Every request has its slots.
LEMMA SlotFacts ==
  ASSUME TypeOK
  PROVE  task \in [Slots -> Tasks \cup {Idle}] /\ \A r \in Requests, k \in Copies : <<r, k>> \in Slots
  BY DEF TypeOK, Slots

\* What the rows are after a step that moves one of them.
LEMMA OneRow ==
  ASSUME TypeOK, NEW r \in Requests, NEW to, MoveTo(r, to)
  PROVE  status'[r] = to /\ \A q \in Requests \ {r} : status'[q] = status[q]
  BY DEF MoveTo, TypeOK, TableTypeOK

\* A task that sponsors is not touched by what ends or moves others.
LEMMA AloneTask ==
  ASSUME NEW w \in Workers, TypeOK, AloneInv(w), [Next]_vars, NEW r \in Requests, NEW k \in Copies,
         TaskGoes(r, k) \/ TaskLeaves(r, k) \/ TaskFinishes(r, k) \/ TaskPersists(r, k)
  PROVE  AloneInv(w)'
<1>1. /\ attempts' = attempts /\ phase' = phase /\ todo' = todo /\ crashes' = crashes
      /\ task[<<r, k>>] # Idle
  BY DEF TaskGoes, TaskLeaves, TaskFinishes, TaskPersists, Frame, Sponsoring
<1>2. task[<<r, k>>] \in Tasks
  BY <1>1 DEF TypeOK, Slots
<1>3. SponsorsOK(w) /\ TodoOK(w) /\ DrivesOK /\ AttemptsOK(w)
  BY DEF AloneInv
<1>4. \E t : task' = [task EXCEPT ![<<r, k>>] = t]
  BY DEF TaskGoes, TaskLeaves, TaskFinishes, TaskPersists, GoTo, EndTask
<1>5. \A q \in Requests, l \in Copies : <<q, l>> # <<r, k>> => task'[<<q, l>>] = task[<<q, l>>]
  BY <1>4, SlotFacts
<1>6. TodoOK(w)'
  <2>1. \A sn \in todo[w] : sn.request \in Requests
    BY DEF TypeOK, Snapshots
  <2> QED
    BY <1>1, <1>3, <2>1, PastStays DEF TodoOK
<1>7. \/ status' = status
      \/ /\ status[r] = From(r, k)
         /\ \E to \in {"RESERVED", "SPONSORING_FAILED", "SUBMITTED"} \cup Past :
              /\ MoveTo(r, to)
              /\ to = "RESERVED" => Sponsoring(<<r, k>>) /\ task[<<r, k>>].attempt < MaxAttempts
              /\ to = "SUBMITTED" => Sponsoring(<<r, k>>)
              /\ CanTransition(status[r], to)
  <2>1. CASE TaskGoes(r, k) \/ TaskLeaves(r, k)
    BY <2>1 DEF TaskGoes, TaskLeaves
  <2>2. CASE TaskFinishes(r, k)
    BY <2>2 DEF TaskFinishes, Past
  <2>3. CASE TaskPersists(r, k)
    <3>1. status[r] = "SPONSORING" /\ From(r, k) = "SPONSORING"
      BY <1>3, <2>3 DEF TaskPersists, SponsorsOK, From
    <3>2. CanTransition("SPONSORING", "SUBMITTED")
      BY DEF CanTransition, T
    <3> QED
      BY <2>3, <3>1, <3>2 DEF TaskPersists
  <2> QED
    BY <2>1, <2>2, <2>3
<1>8. \A q \in Requests \ {r} : status'[q] = status[q]
  BY <1>7, OneRow
<1>9. AttemptsOK(w)'
  <2> SUFFICES ASSUME NEW q \in Requests
               PROVE  /\ attempts[q] <= MaxAttempts + crashes
                      /\ status'[q] \in {ABSENT, "RECEIVED"} => attempts[q] = 0
                      /\ status'[q] = "RESERVED" => attempts[q] + 1 <= MaxAttempts + crashes
                      /\ status'[q] = "SPONSORING" /\ phase[w] # "ready" => attempts[q] + 1 <= MaxAttempts + crashes
    BY <1>1 DEF AttemptsOK
  <2>1. CASE status'[q] = status[q]
    BY <1>3, <2>1 DEF AttemptsOK
  <2>2. CASE status'[q] # status[q]
    <3>1. q = r
      BY <1>8, <2>2
    <3>2. PICK to \in {"RESERVED", "SPONSORING_FAILED", "SUBMITTED"} \cup Past :
            MoveTo(r, to) /\ (to = "RESERVED" => Sponsoring(<<r, k>>) /\ task[<<r, k>>].attempt < MaxAttempts)
      BY <1>7, <2>2, <3>1
    <3>3. status'[r] = to
      BY <3>2, OneRow
    <3>4. to = "RESERVED" => attempts[r] < MaxAttempts
      BY <1>3, <3>2 DEF SponsorsOK
    <3>5. attempts[r] \in Nat /\ MaxAttempts \in Nat /\ crashes \in Nat
      BY BoundsAssumption DEF TypeOK, TableTypeOK
    <3> QED
      BY <1>3, <3>1, <3>3, <3>4, <3>5 DEF AttemptsOK, Past, ABSENT
  <2> QED
    BY <2>1, <2>2
<1>10. \A q \in Requests, l \in Copies : Sponsoring(<<q, l>>)' => Sponsoring(<<q, l>>)
  <2> SUFFICES ASSUME NEW q \in Requests, NEW l \in Copies, Sponsoring(<<q, l>>)' PROVE Sponsoring(<<q, l>>)
    OBVIOUS
  <2>1. CASE <<q, l>> # <<r, k>>
    BY <1>5, <2>1 DEF Sponsoring
  <2>2. CASE <<q, l>> = <<r, k>>
    <3>1. TaskGoes(r, k)
      <4>1. TaskLeaves(r, k) \/ TaskFinishes(r, k) => task'[<<r, k>>] = Idle
        BY SlotFacts DEF TaskLeaves, TaskFinishes, EndTask
      <4>2. TaskPersists(r, k) => task'[<<r, k>>].pc = "submit"
        BY SlotFacts DEF TaskPersists
      <4> QED
        BY <2>2, <4>1, <4>2 DEF Sponsoring, SponsorPcs
    <3>2. PICK pc \in Pcs : GoTo(r, k, pc) /\ (pc \in SponsorPcs <=> task[<<r, k>>].pc \in SponsorPcs)
      BY <3>1 DEF TaskGoes
    <3>3. task'[<<r, k>>] = [task[<<r, k>>] EXCEPT !.pc = pc]
      BY <3>2, SlotFacts DEF GoTo
    <3>4. task'[<<r, k>>].pc = pc
      BY <1>2, <3>3 DEF Tasks
    <3> QED
      BY <1>1, <2>2, <3>2, <3>4 DEF Sponsoring
  <2> QED
    BY <2>1, <2>2
<1>11. \A q \in Requests, l \in Copies :
         Sponsoring(<<q, l>>)' => /\ status'[q] = status[q] /\ task'[<<q, l>>].from = task[<<q, l>>].from
                                  /\ task'[<<q, l>>].kind = task[<<q, l>>].kind /\ task'[<<q, l>>].attempt = task[<<q, l>>].attempt
  <2> SUFFICES ASSUME NEW q \in Requests, NEW l \in Copies, Sponsoring(<<q, l>>)'
               PROVE  /\ status'[q] = status[q] /\ task'[<<q, l>>].from = task[<<q, l>>].from
                      /\ task'[<<q, l>>].kind = task[<<q, l>>].kind /\ task'[<<q, l>>].attempt = task[<<q, l>>].attempt
    OBVIOUS
  <2>1. Sponsoring(<<q, l>>) /\ status[q] = "SPONSORING"
    BY <1>3, <1>10 DEF SponsorsOK
  <2>2. CASE <<q, l>> = <<r, k>>
    <3>1. TaskGoes(r, k)
      <4>1. TaskLeaves(r, k) \/ TaskFinishes(r, k) => task'[<<r, k>>] = Idle
        BY SlotFacts DEF TaskLeaves, TaskFinishes, EndTask
      <4>2. TaskPersists(r, k) => task'[<<r, k>>].pc = "submit"
        BY SlotFacts DEF TaskPersists
      <4> QED
        BY <2>2, <4>1, <4>2 DEF Sponsoring, SponsorPcs
    <3>2. PICK pc \in Pcs : GoTo(r, k, pc)
      BY <3>1 DEF TaskGoes
    <3>3. task'[<<r, k>>] = [task[<<r, k>>] EXCEPT !.pc = pc]
      BY <3>2, SlotFacts DEF GoTo
    <3> QED
      BY <1>2, <2>2, <3>1, <3>3 DEF Tasks, TaskGoes
  <2>3. CASE <<q, l>> # <<r, k>>
    <3>1. task'[<<q, l>>] = task[<<q, l>>]
      BY <1>5, <2>3
    <3>2. status'[q] = status[q]
      <4> SUFFICES ASSUME q = r, status[r] = From(r, k) PROVE FALSE
        BY <1>7, <1>8
      <4>1. ~Sponsoring(<<r, k>>)
        BY <1>3, <2>1, <2>3 DEF SponsorsOK
      <4>2. From(r, k) \in PossiblySubmitted
        BY <1>1, <1>3, <4>1 DEF DrivesOK, From
      <4> QED
        BY <2>1, <4>2 DEF PossiblySubmitted
    <3> QED
      BY <3>1, <3>2
  <2> QED
    BY <2>2, <2>3
<1>12. SponsorsOK(w)'
  BY <1>1, <1>3, <1>10, <1>11 DEF SponsorsOK
<1>13. DrivesOK'
  <2> SUFFICES ASSUME NEW q \in Requests, NEW l \in Copies, task'[<<q, l>>] # Idle, ~Sponsoring(<<q, l>>)'
               PROVE  /\ task'[<<q, l>>].from \in PossiblySubmitted
                      /\ task'[<<q, l>>].from = "SUBMITTED" \/ status'[q] \in Past
                      /\ task'[<<q, l>>].from = "SUBMITTED" => task'[<<q, l>>].kind = "worker" /\ task'[<<q, l>>].pc # "deadline"
    BY DEF DrivesOK
  <2>1. CASE <<q, l>> # <<r, k>>
    <3>1. task'[<<q, l>>] = task[<<q, l>>] /\ ~Sponsoring(<<q, l>>)
      BY <1>5, <2>1 DEF Sponsoring
    <3> QED
      BY <1>3, <3>1, PastStays DEF DrivesOK
  <2>2. CASE <<q, l>> = <<r, k>>
    <3>1. ~TaskLeaves(r, k) /\ ~TaskFinishes(r, k)
      BY <2>2, SlotFacts DEF TaskLeaves, TaskFinishes, EndTask
    <3>2. CASE TaskPersists(r, k)
      <4>1. PICK t \in Tasks : task' = [task EXCEPT ![<<r, k>>] = t] /\ t.pc = "submit" /\ t.from = "SUBMITTED" /\ t.kind = task[<<r, k>>].kind
        BY <3>2 DEF TaskPersists
      <4>2. task'[<<r, k>>] = t
        BY <4>1, SlotFacts
      <4>3. task[<<r, k>>].kind = "worker"
        BY <1>3, <3>2 DEF TaskPersists, SponsorsOK
      <4> QED
        BY <2>2, <4>1, <4>2, <4>3 DEF PossiblySubmitted
    <3>3. CASE TaskGoes(r, k)
      <4>1. PICK pc \in Pcs : /\ GoTo(r, k, pc) /\ (pc \in SponsorPcs <=> task[<<r, k>>].pc \in SponsorPcs)
                              /\ pc = "deadline" => task[<<r, k>>].kind = "reconcile"
        BY <3>3 DEF TaskGoes
      <4>2. task'[<<r, k>>] = [task[<<r, k>>] EXCEPT !.pc = pc]
        BY <4>1, SlotFacts DEF GoTo
      <4>3. /\ task'[<<r, k>>].pc = pc /\ task'[<<r, k>>].from = task[<<r, k>>].from
            /\ task'[<<r, k>>].kind = task[<<r, k>>].kind
        BY <1>2, <4>2 DEF Tasks
      <4>4. ~Sponsoring(<<r, k>>)
        BY <2>2, <4>1, <4>3 DEF Sponsoring
      <4>5. /\ task[<<r, k>>].from \in PossiblySubmitted
            /\ task[<<r, k>>].from = "SUBMITTED" \/ status[r] \in Past
            /\ task[<<r, k>>].from = "SUBMITTED" => task[<<r, k>>].kind = "worker"
        BY <1>1, <1>3, <4>4 DEF DrivesOK
      <4>6. status[r] \in Past => status'[r] \in Past
        BY PastStays
      <4> QED
        BY <2>2, <4>1, <4>3, <4>5, <4>6
    <3> QED
      BY <3>1, <3>2, <3>3
  <2> QED
    BY <2>1, <2>2
<1> QED
  BY <1>6, <1>9, <1>12, <1>13 DEF AloneInv

\* A step that moves no row keeps what the attempts say.
LEMMA SameAttempts ==
  ASSUME NEW w \in Workers, AttemptsOK(w), UNCHANGED <<attempts, status, crashes>>,
         phase'[w] # "ready" => phase[w] # "ready"
  PROVE  AttemptsOK(w)'
  BY DEF AttemptsOK

\* A step of the api is on a row that has no task.
LEMMA AloneApi ==
  ASSUME NEW w \in Workers, TypeOK, AloneInv(w), MaxAttempts > 0, [Next]_vars, NEW r \in Requests, ApiMoves(r)
  PROVE  AloneInv(w)'
<1>1. /\ attempts' = attempts /\ phase' = phase /\ todo' = todo /\ crashes' = crashes /\ task' = task
      /\ status[r] \in {ABSENT, "RECEIVED"} /\ \A q \in Requests \ {r} : status'[q] = status[q]
      /\ status'[r] \in {"RECEIVED", "REJECTED", "RESERVED"}
  BY OneRow DEF ApiMoves, Frame
<1>2. SponsorsOK(w) /\ TodoOK(w) /\ DrivesOK /\ AttemptsOK(w)
  BY DEF AloneInv
<1>3. SponsorsOK(w)'
  <2>1. \A q \in Requests, l \in Copies : Sponsoring(<<q, l>>)' <=> Sponsoring(<<q, l>>)
    BY <1>1 DEF Sponsoring
  <2>2. \A q \in Requests, l \in Copies : Sponsoring(<<q, l>>) => q # r
    BY <1>1, <1>2 DEF SponsorsOK, ABSENT
  <2> QED
    BY <1>1, <1>2, <2>1, <2>2 DEF SponsorsOK
<1>4. TodoOK(w)'
  <2>1. \A sn \in todo[w] : sn.request \in Requests
    BY DEF TypeOK, Snapshots
  <2> QED
    BY <1>1, <1>2, <2>1, PastStays DEF TodoOK
<1>5. DrivesOK'
  BY <1>1, <1>2, PastStays DEF DrivesOK, Sponsoring
<1>6. AttemptsOK(w)'
  <2>1. attempts[r] = 0 /\ MaxAttempts \in Nat /\ crashes \in Nat
    BY <1>1, <1>2, BoundsAssumption DEF AttemptsOK, TypeOK
  <2> QED
    BY <1>1, <1>2, <2>1 DEF AttemptsOK, ABSENT
<1> QED
  BY <1>3, <1>4, <1>5, <1>6 DEF AloneInv

\* A step that changes the pass only, with the rows it lists.
LEMMA AlonePass ==
  ASSUME NEW w \in Workers, TypeOK, AloneInv(w), UNCHANGED <<attempts, status, task, crashes>>,
         phase'[w] = "ready" <=> phase[w] = "ready",
         TodoOK(w)'
  PROVE  AloneInv(w)'
<1>1. \A q \in Requests, l \in Copies : Sponsoring(<<q, l>>)' <=> Sponsoring(<<q, l>>)
  BY DEF Sponsoring
<1>2. SponsorsOK(w)' /\ DrivesOK'
  BY <1>1 DEF AloneInv, SponsorsOK, DrivesOK
<1>3. AttemptsOK(w)'
  BY SameAttempts DEF AloneInv
<1> QED
  BY <1>2, <1>3 DEF AloneInv

\* What a pass lists is as its statuses say.
LEMMA ListFacts ==
  ASSUME NEW S, NEW sn \in ListByStatus(S)
  PROVE  sn.request \in Requests /\ sn.from = status[sn.request] /\ sn.from \in S
<1>1. PICK r \in Oldest(InStatus(S), ListLimit) : sn = SnapshotOf(r)
  BY DEF ListByStatus
<1>2. sn.request = r /\ sn.from = status[r] /\ r \in InStatus(S)
  BY <1>1 DEF SnapshotOf, Oldest
<1> QED
  BY <1>2 DEF InStatus

\* A recovery pass begins, goes on, and ends.
LEMMA AloneRecovery ==
  ASSUME NEW w \in Workers, TypeOK, AloneInv(w),
         ListSponsoring(w) \/ ListSubmitted(w) \/ RecoveryFails(w)
  PROVE  AloneInv(w)'
<1>1. phase \in [Workers -> Phases] /\ todo \in [Workers -> SUBSET Snapshots]
  BY DEF TypeOK
<1>2. UNCHANGED <<attempts, status, task, crashes>>
  BY DEF ListSponsoring, ListSubmitted, RecoveryFails, tableVars, worldVars
<1>3. CASE ListSponsoring(w)
  <2>1. phase[w] \in {"off", "boot"} /\ phase'[w] = "requeue" /\ todo'[w] = ListByStatus({"SPONSORING"})
    BY <1>1, <1>3 DEF ListSponsoring
  <2>2. TodoOK(w)'
    BY <2>1, ListFacts DEF TodoOK
  <2> QED
    BY <1>2, <2>1, <2>2, AlonePass
<1>4. CASE ListSubmitted(w)
  <2>1. phase[w] = "requeue" /\ phase'[w] = "resume" /\ todo'[w] = ListByStatus(PossiblySubmitted)
    BY <1>1, <1>4 DEF ListSubmitted
  <2>2. \A sn \in todo'[w] : sn.from \in PossiblySubmitted /\ (sn.from = "SUBMITTED" \/ status[sn.request] \in Past)
    BY <2>1, ListFacts DEF PossiblySubmitted, Past
  <2>3. TodoOK(w)'
    BY <1>2, <2>1, <2>2 DEF TodoOK
  <2> QED
    BY <1>2, <2>1, <2>3, AlonePass
<1>5. CASE RecoveryFails(w)
  <2>1. phase[w] \in {"requeue", "resume"} /\ phase'[w] = "boot" /\ todo'[w] = {}
    BY <1>1, <1>5 DEF RecoveryFails, EndRecovery
  <2>2. TodoOK(w)'
    BY <2>1 DEF TodoOK
  <2> QED
    BY <1>2, <2>1, <2>2, AlonePass
<1> QED
  BY <1>3, <1>4, <1>5

\* The pass is done: nothing was sponsored while it lasted.
LEMMA AloneDone ==
  ASSUME NEW w \in Workers, TypeOK, AloneInv(w), RecoveryDone(w)
  PROVE  AloneInv(w)'
<1>1. phase[w] = "resume" /\ phase'[w] = "ready" /\ todo'[w] = {} /\ UNCHANGED <<attempts, status, task, crashes>>
  BY DEF RecoveryDone, EndRecovery, tableVars, worldVars, TypeOK
<1>2. \A q \in Requests, l \in Copies : ~Sponsoring(<<q, l>>) /\ ~Sponsoring(<<q, l>>)'
  BY <1>1 DEF AloneInv, SponsorsOK, Sponsoring
<1>3. SponsorsOK(w)' /\ TodoOK(w)' /\ DrivesOK'
  BY <1>1, <1>2 DEF AloneInv, SponsorsOK, TodoOK, DrivesOK
<1>4. AttemptsOK(w)'
  BY <1>1, SameAttempts DEF AloneInv
<1> QED
  BY <1>3, <1>4 DEF AloneInv

\* A row the pass has listed goes back to the queue, expires, or ends the pass.
LEMMA AloneListed ==
  ASSUME NEW w \in Workers, TypeOK, AloneInv(w), [Next]_vars, NEW sn \in todo[w],
         Requeue(w, sn) \/ ExpireRecovered(w, sn)
  PROVE  AloneInv(w)'
<1>1. /\ phase \in [Workers -> Phases] /\ todo \in [Workers -> SUBSET Snapshots]
      /\ sn.request \in Requests /\ \A s \in todo[w] : s.request \in Requests
  BY DEF TypeOK, Snapshots
<1> DEFINE r == sn.request
<1>2. SponsorsOK(w) /\ TodoOK(w) /\ DrivesOK /\ AttemptsOK(w)
  BY DEF AloneInv
<1>3. /\ phase[w] \in {"requeue", "resume"} /\ UNCHANGED <<attempts, task, crashes>>
      /\ \/ phase' = phase /\ todo'[w] \subseteq todo[w]
         \/ phase'[w] = "boot" /\ todo'[w] = {}
  BY <1>1 DEF Requeue, ExpireRecovered, EndRecovery, tableVars, worldVars
<1>4. \/ status' = status
      \/ Requeue(w, sn) /\ status[r] = "SPONSORING" /\ MoveTo(r, "RESERVED")
      \/ ExpireRecovered(w, sn) /\ MoveTo(r, "EXPIRED")
  <2>1. Requeue(w, sn) => sn.from = "SPONSORING"
    BY <1>2 DEF TodoOK, Requeue
  <2> QED
    BY <2>1 DEF Requeue, ExpireRecovered, TransitionOK
<1>5. \A q \in Requests, l \in Copies : ~Sponsoring(<<q, l>>) /\ ~Sponsoring(<<q, l>>)'
  BY <1>2, <1>3 DEF SponsorsOK, Sponsoring
<1>6. SponsorsOK(w)'
  BY <1>5 DEF SponsorsOK
<1>7. DrivesOK'
  BY <1>2, <1>3, <1>5, PastStays DEF DrivesOK
<1>8. TodoOK(w)'
  BY <1>1, <1>2, <1>3, PastStays DEF TodoOK
<1>9. AttemptsOK(w)'
  <2>1. phase[w] # "ready"
    BY <1>3
  <2>2. CASE status' = status
    BY <1>2, <1>3, <2>1, <2>2, SameAttempts
  <2>3. CASE status[r] = "SPONSORING" /\ MoveTo(r, "RESERVED")
    <3>1. status'[r] = "RESERVED" /\ \A q \in Requests \ {r} : status'[q] = status[q]
      BY <1>1, <2>3, OneRow
    <3> QED
      BY <1>1, <1>2, <1>3, <2>1, <2>3, <3>1 DEF AttemptsOK, ABSENT
  <2>4. CASE MoveTo(r, "EXPIRED")
    <3>1. status'[r] = "EXPIRED" /\ \A q \in Requests \ {r} : status'[q] = status[q]
      BY <1>1, <2>4, OneRow
    <3> QED
      BY <1>1, <1>2, <1>3, <2>1, <3>1 DEF AttemptsOK, ABSENT
  <2> QED
    BY <1>4, <2>2, <2>3, <2>4
<1> QED
  BY <1>6, <1>7, <1>8, <1>9 DEF AloneInv

\* A task begins on a row that is past sponsoring.
LEMMA AloneSpawn ==
  ASSUME NEW w \in Workers, TypeOK, AloneInv(w), NEW r \in Requests, NEW k \in Copies, NEW t \in Tasks,
         task[<<r, k>>] = Idle, task' = [task EXCEPT ![<<r, k>>] = t],
         UNCHANGED <<attempts, phase, status, crashes>>, todo'[w] \subseteq todo[w],
         t.pc \notin SponsorPcs, t.from \in PossiblySubmitted,
         t.from = "SUBMITTED" \/ status[r] \in Past,
         t.from = "SUBMITTED" => t.kind = "worker" /\ t.pc # "deadline"
  PROVE  AloneInv(w)'
<1>1. task'[<<r, k>>] = t /\ \A q \in Requests, l \in Copies : <<q, l>> # <<r, k>> => task'[<<q, l>>] = task[<<q, l>>]
  BY SlotFacts
<1>2. SponsorsOK(w) /\ TodoOK(w) /\ DrivesOK /\ AttemptsOK(w)
  BY DEF AloneInv
<1>3. \A q \in Requests, l \in Copies :
        Sponsoring(<<q, l>>)' => Sponsoring(<<q, l>>) /\ task'[<<q, l>>] = task[<<q, l>>]
  BY <1>1 DEF Sponsoring
<1>4. SponsorsOK(w)'
  BY <1>2, <1>3 DEF SponsorsOK
<1>5. DrivesOK'
  <2> SUFFICES ASSUME NEW q \in Requests, NEW l \in Copies, task'[<<q, l>>] # Idle, ~Sponsoring(<<q, l>>)'
               PROVE  /\ task'[<<q, l>>].from \in PossiblySubmitted
                      /\ task'[<<q, l>>].from = "SUBMITTED" \/ status[q] \in Past
                      /\ task'[<<q, l>>].from = "SUBMITTED" => task'[<<q, l>>].kind = "worker" /\ task'[<<q, l>>].pc # "deadline"
    BY DEF DrivesOK
  <2>1. CASE <<q, l>> = <<r, k>>
    BY <1>1, <2>1
  <2>2. CASE <<q, l>> # <<r, k>>
    BY <1>1, <1>2, <2>2 DEF DrivesOK, Sponsoring
  <2> QED
    BY <2>1, <2>2
<1>6. TodoOK(w)'
  BY <1>2 DEF TodoOK
<1>7. AttemptsOK(w)'
  BY <1>2, SameAttempts
<1> QED
  BY <1>4, <1>5, <1>6, <1>7 DEF AloneInv

LEMMA AloneResume ==
  ASSUME NEW w \in Workers, TypeOK, AloneInv(w), NEW sn \in todo[w], NEW k \in Copies, Resume(w, sn, k)
  PROVE  AloneInv(w)'
<1>1. sn \in Snapshots /\ sn.request \in Requests /\ todo \in [Workers -> SUBSET Snapshots] /\ attempts[sn.request] \in Nat
  BY DEF TypeOK, TableTypeOK, Snapshots
<1> DEFINE r == sn.request
           t == NewTask(w, "worker", IF sn.ident THEN "wait" ELSE "submit", sn, attempts[r])
<1>2. t \in Tasks
  BY <1>1, NewTaskType DEF Pcs
<1>3. t.pc \in {"wait", "submit"} /\ t.from = sn.from /\ t.kind = "worker"
  BY DEF NewTask
<1>4. task[<<r, k>>] = Idle /\ task' = [task EXCEPT ![<<r, k>>] = t]
  BY DEF Resume, Spawn
<1>5. UNCHANGED <<attempts, phase, status, crashes>> /\ todo'[w] \subseteq todo[w] /\ phase[w] = "resume"
  BY <1>1 DEF Resume, tableVars, worldVars
<1>6. sn.from \in PossiblySubmitted /\ (sn.from = "SUBMITTED" \/ status[r] \in Past)
  BY <1>5 DEF AloneInv, TodoOK
<1> HIDE DEF t
<1> QED
  BY <1>1, <1>2, <1>3, <1>4, <1>5, <1>6, AloneSpawn DEF SponsorPcs

LEMMA AloneReconcile ==
  ASSUME NEW w \in Workers, TypeOK, AloneInv(w), NEW r \in Requests, NEW k \in Copies, ReconcileRow(w, r, k)
  PROVE  AloneInv(w)'
<1> DEFINE t == NewTask(w, "reconcile", IF identifier[r] THEN "wait" ELSE "deadline", SnapshotOf(r), attempts[r])
<1>1. status[r] \in {"TIMEOUT", "UNKNOWN"}
  BY DEF ReconcileRow, Oldest, InStatus
<1>2. SnapshotOf(r) \in Snapshots /\ attempts[r] \in Nat
  BY <1>1 DEF SnapshotOf, Snapshots, HOLDS_RESERVATION, TypeOK, TableTypeOK
<1>3. t \in Tasks
  BY <1>2, NewTaskType DEF Pcs
<1>4. t.pc \in {"wait", "deadline"} /\ t.from = status[r] /\ t.kind = "reconcile"
  BY DEF NewTask, SnapshotOf
<1>5. task[<<r, k>>] = Idle /\ task' = [task EXCEPT ![<<r, k>>] = t]
  BY DEF ReconcileRow, Spawn
<1>6. UNCHANGED <<attempts, phase, status, crashes, todo>>
  BY DEF ReconcileRow, tableVars, worldVars
<1> HIDE DEF t
<1> QED
  BY <1>1, <1>3, <1>4, <1>5, <1>6, AloneSpawn DEF SponsorPcs, PossiblySubmitted, Past

\* A row of the queue gets a task, and nobody else sponsors it.
LEMMA AloneClaim ==
  ASSUME NEW w \in Workers, TypeOK, AloneInv(w), [Next]_vars, NEW k \in Copies, Claim(w, k)
  PROVE  AloneInv(w)'
<1>1. PICK r \in Oldest(InStatus({"RESERVED"}), 1) :
        /\ MoveTo(r, "SPONSORING")
        /\ attempts' = [attempts EXCEPT ![r] = @ + 1]
        /\ Spawn(r, k, NewTask(w, "worker", "check",
                               [request |-> r, from |-> "SPONSORING", ident |-> identifier[r]], attempts[r] + 1))
  BY DEF Claim, ClaimNext
<1>2. r \in Requests /\ status[r] = "RESERVED" /\ phase[w] = "ready"
  BY <1>1 DEF Oldest, InStatus, Claim
<1>3. UNCHANGED <<phase, todo, crashes>>
  BY DEF Claim, ClaimNext, worldVars
<1> DEFINE t == NewTask(w, "worker", "check",
                        [request |-> r, from |-> "SPONSORING", ident |-> identifier[r]], attempts[r] + 1)
<1>4. t.pc = "check" /\ t.from = "SPONSORING" /\ t.kind = "worker" /\ t.attempt = attempts[r] + 1 /\ t # Idle
  BY DEF NewTask, Idle
<1>5. task[<<r, k>>] = Idle /\ task' = [task EXCEPT ![<<r, k>>] = t]
  BY <1>1 DEF Spawn
<1> HIDE DEF t
<1>6. task'[<<r, k>>] = t /\ \A q \in Requests, l \in Copies : <<q, l>> # <<r, k>> => task'[<<q, l>>] = task[<<q, l>>]
  BY <1>2, <1>5, SlotFacts
<1>7. status'[r] = "SPONSORING" /\ \A q \in Requests \ {r} : status'[q] = status[q]
  BY <1>1, <1>2, OneRow
<1>8. attempts'[r] = attempts[r] + 1 /\ \A q \in Requests \ {r} : attempts'[q] = attempts[q]
  BY <1>1, <1>2 DEF TypeOK, TableTypeOK
<1>9. SponsorsOK(w) /\ TodoOK(w) /\ DrivesOK /\ AttemptsOK(w)
  BY DEF AloneInv
<1>10. \A l \in Copies : ~Sponsoring(<<r, l>>)
  BY <1>2, <1>9 DEF SponsorsOK
<1>11. SponsorsOK(w)'
  <2> SUFFICES ASSUME NEW q \in Requests, NEW m \in Copies, Sponsoring(<<q, m>>)'
               PROVE  /\ phase[w] = "ready" /\ status'[q] = "SPONSORING"
                      /\ task'[<<q, m>>].from = "SPONSORING" /\ task'[<<q, m>>].kind = "worker"
                      /\ task'[<<q, m>>].attempt = attempts'[q]
                      /\ \A l \in Copies : Sponsoring(<<q, l>>)' => l = m
    BY <1>3 DEF SponsorsOK
  <2>1. \A p \in Requests, l \in Copies : <<p, l>> # <<r, k>> => (Sponsoring(<<p, l>>)' <=> Sponsoring(<<p, l>>))
    BY <1>6 DEF Sponsoring
  <2>2. CASE q = r
    <3>1. m = k /\ \A l \in Copies : Sponsoring(<<q, l>>)' => l = k
      BY <1>10, <2>1, <2>2
    <3> QED
      BY <1>2, <1>4, <1>6, <1>7, <1>8, <2>2, <3>1
  <2>3. CASE q # r
    BY <1>6, <1>7, <1>8, <1>9, <2>1, <2>3 DEF SponsorsOK
  <2> QED
    BY <2>2, <2>3
<1>12. DrivesOK'
  <2> SUFFICES ASSUME NEW q \in Requests, NEW l \in Copies, task'[<<q, l>>] # Idle, ~Sponsoring(<<q, l>>)'
               PROVE  /\ task'[<<q, l>>].from \in PossiblySubmitted
                      /\ task'[<<q, l>>].from = "SUBMITTED" \/ status'[q] \in Past
                      /\ task'[<<q, l>>].from = "SUBMITTED" => task'[<<q, l>>].kind = "worker" /\ task'[<<q, l>>].pc # "deadline"
    BY DEF DrivesOK
  <2>1. <<q, l>> # <<r, k>>
    BY <1>4, <1>6 DEF Sponsoring, SponsorPcs
  <2>2. task'[<<q, l>>] = task[<<q, l>>] /\ ~Sponsoring(<<q, l>>)
    BY <1>6, <2>1 DEF Sponsoring
  <2> QED
    BY <1>9, <2>2, PastStays DEF DrivesOK
<1>13. TodoOK(w)'
  BY <1>2, <1>3, <1>9 DEF TodoOK
<1>14. AttemptsOK(w)'
  <2>1. attempts[r] + 1 <= MaxAttempts + crashes
    BY <1>2, <1>9 DEF AttemptsOK
  <2> QED
    BY <1>2, <1>3, <1>7, <1>8, <1>9, <2>1 DEF AttemptsOK, ABSENT
<1> QED
  BY <1>11, <1>12, <1>13, <1>14 DEF AloneInv

\* All tasks of the one worker are gone, and every row has an attempt more.
LEMMA AloneCrash ==
  ASSUME NEW w, Workers = {w}, TypeOK, AloneInv(w), Crash(w)
  PROVE  AloneInv(w)'
<1>1. /\ task \in [Slots -> Tasks \cup {Idle}] /\ \A r \in Requests, k \in Copies : <<r, k>> \in Slots
      /\ phase'[w] = "off" /\ todo'[w] = {} /\ crashes' = crashes + 1 /\ UNCHANGED <<attempts, status>>
  BY SlotFacts DEF Crash, tableVars, TypeOK
<1>2. \A r \in Requests, k \in Copies : task'[<<r, k>>] = Idle
  BY <1>1 DEF Crash, Tasks
<1>3. SponsorsOK(w)' /\ DrivesOK'
  BY <1>2 DEF SponsorsOK, DrivesOK, Sponsoring
<1>4. TodoOK(w)'
  BY <1>1 DEF TodoOK
<1>5. AttemptsOK(w)'
  <2>1. crashes \in Nat /\ MaxAttempts \in Nat /\ \A r \in Requests : attempts[r] \in Nat
    BY BoundsAssumption DEF TypeOK, TableTypeOK
  <2> QED
    BY <1>1, <2>1 DEF AloneInv, AttemptsOK
<1> QED
  BY <1>3, <1>4, <1>5 DEF AloneInv

LEMMA AloneStep ==
  ASSUME NEW w, Workers = {w}, MaxAttempts > 0
  PROVE  TypeOK /\ AloneInv(w) /\ [Next]_vars => AloneInv(w)'
<1> SUFFICES ASSUME TypeOK, AloneInv(w), [Next]_vars
             PROVE  AloneInv(w)'
  OBVIOUS
<1>0. Effect /\ w \in Workers
  BY EffectOfStep
<1>1. CASE NothingMoves
  <2>1. UNCHANGED <<attempts, status, task, crashes, phase, todo>>
    BY <1>1 DEF NothingMoves, Frame
  <2>2. TodoOK(w)'
    BY <2>1 DEF AloneInv, TodoOK
  <2> QED
    BY <1>0, <2>1, <2>2, AlonePass
<1>2. CASE \E r \in Requests : ApiMoves(r)
  BY <1>0, <1>2, AloneApi
<1>3. CASE \E r \in Requests, k \in Copies : TaskGoes(r, k) \/ TaskLeaves(r, k) \/ TaskFinishes(r, k) \/ TaskPersists(r, k)
  BY <1>0, <1>3, AloneTask
<1>4. CASE ListSponsoring(w) \/ ListSubmitted(w) \/ RecoveryFails(w)
  BY <1>0, <1>4, AloneRecovery
<1>5. CASE RecoveryDone(w)
  BY <1>0, <1>5, AloneDone
<1>6. CASE Crash(w)
  BY <1>6, AloneCrash
<1>7. CASE \E sn \in todo[w] : Requeue(w, sn) \/ ExpireRecovered(w, sn)
  BY <1>0, <1>7, AloneListed
<1>8. CASE \E sn \in todo[w] : \E k \in Copies : Resume(w, sn, k)
  BY <1>0, <1>8, AloneResume
<1>9. CASE \E k \in Copies : Claim(w, k)
  BY <1>0, <1>9, AloneClaim
<1>10. CASE \E r \in Requests, k \in Copies : ReconcileRow(w, r, k)
  BY <1>0, <1>10, AloneReconcile
<1> QED
  BY <1>0, <1>1, <1>2, <1>3, <1>4, <1>5, <1>6, <1>7, <1>8, <1>9, <1>10 DEF Effect

LEMMA AloneInvariance ==
  ASSUME NEW w, Workers = {w}, MaxAttempts > 0
  PROVE  Spec => []AloneInv(w)
<1>1. Init => AloneInv(w)
  BY AloneInit
<1>2. TypeOK /\ AloneInv(w) /\ [Next]_vars => AloneInv(w)'
  BY AloneStep
<1> QED
  BY <1>1, <1>2, TypeCorrect, PTL DEF Spec

\* DUST is balanced for a request by one task at a time, if one worker process
\* runs at a time (apps/worker/src/process.ts:57).
THEOREM OneSponsorPerRequestCorrect ==
  ASSUME NEW w, Workers = {w}, MaxAttempts > 0
  PROVE  Spec => []OneSponsorPerRequest
<1>1. AloneInv(w) => OneSponsorPerRequest
  <2> SUFFICES ASSUME AloneInv(w), NEW r \in Requests, NEW k \in Copies, NEW l \in Copies,
                      \E pc \in {"check", "sponsor"} : At(r, k, pc), \E pc \in {"check", "sponsor"} : At(r, l, pc)
               PROVE  k = l
    BY Zenon DEF OneSponsorPerRequest
  <2>1. Sponsoring(<<r, k>>) /\ Sponsoring(<<r, l>>)
    BY DEF At, Sponsoring, SponsorPcs
  <2> QED
    BY <2>1 DEF AloneInv, SponsorsOK
<1> QED
  BY <1>1, AloneInvariance, PTL

\* A request is claimed at most MaxAttempts times, plus once for every crash
\* of the one worker (apps/worker/src/process.ts:57).
THEOREM AttemptsBoundedCorrect ==
  ASSUME NEW w, Workers = {w}, MaxAttempts > 0
  PROVE  Spec => []AttemptsBounded
<1>1. AloneInv(w) => AttemptsBounded
  BY DEF AloneInv, AttemptsOK, AttemptsBounded
<1> QED
  BY <1>1, AloneInvariance, PTL
-----------------------------------------------------------------------------
(* Who drives a row.                                                       *)

\* Which rows nobody drives is decided by their statuses and tasks.
LEMMA OrphanSame ==
  ASSUME NEW q \in Requests, status'[q] = status[q], \A k \in Copies : task'[<<q, k>>] = task[<<q, k>>]
  PROVE  Orphan(q)' <=> Orphan(q)
BY DEF Orphan

\* A row that nobody drives after the step was not driven before it, and its
\* status is the same.
StaysOrphan(q) == Orphan(q)' => Orphan(q) /\ status'[q] = status[q]

\* A step that moves one row and its tasks.
LEMMA OthersStay ==
  ASSUME NEW r \in Requests, \A q \in Requests \ {r} : status'[q] = status[q],
         \A q \in Requests \ {r}, k \in Copies : task'[<<q, k>>] = task[<<q, k>>],
         StaysOrphan(r)
  PROVE  \A q \in Requests : StaysOrphan(q)
BY OrphanSame DEF StaysOrphan

\* A row is orphaned by the query of its task that fails, and by nothing else a
\* task does.
LEMMA OrphanTask ==
  ASSUME NEW w \in Workers, TypeOK, AloneInv(w), PersistInv, NEW r \in Requests, NEW k \in Copies,
         TaskGoes(r, k) \/ TaskLeaves(r, k) \/ TaskFinishes(r, k) \/ TaskPersists(r, k)
  PROVE  \A q \in Requests : StaysOrphan(q) \/ \E l \in Copies : DbError(q, l)
<1>1. task[<<r, k>>] # Idle /\ \E t : task' = [task EXCEPT ![<<r, k>>] = t]
  BY DEF TaskGoes, TaskLeaves, TaskFinishes, TaskPersists, GoTo, EndTask, Sponsoring
<1>2. task[<<r, k>>] \in Tasks
  BY <1>1, SlotFacts
<1>3. \A q \in Requests, l \in Copies : <<q, l>> # <<r, k>> => task'[<<q, l>>] = task[<<q, l>>]
  BY <1>1, SlotFacts
<1>4. \A q \in Requests \ {r} : status'[q] = status[q]
  BY OneRow DEF TaskGoes, TaskLeaves, TaskFinishes, TaskPersists
<1>5. Orphan(r)' => DbError(r, k)
  <2>1. CASE TaskGoes(r, k)
    <3>1. PICK pc \in Pcs : GoTo(r, k, pc)
      BY <2>1 DEF TaskGoes
    <3>2. task'[<<r, k>>] = [task[<<r, k>>] EXCEPT !.pc = pc]
      BY <3>1, SlotFacts DEF GoTo
    <3>3. task'[<<r, k>>].pc = pc /\ pc # "idle"
      BY <1>2, <3>2 DEF Tasks, Pcs
    <3> QED
      BY <3>3 DEF Orphan, Idle
  <2>2. CASE TaskLeaves(r, k) /\ Sponsoring(<<r, k>>)
    <3>1. status[r] = "SPONSORING" /\ From(r, k) = "SPONSORING" /\ task[<<r, k>>].pc # "deadline"
      BY <2>2 DEF AloneInv, SponsorsOK, From, Sponsoring, SponsorPcs
    <3> QED
      BY <2>2, <3>1 DEF TaskLeaves
  <2>3. CASE TaskLeaves(r, k) /\ ~Sponsoring(<<r, k>>)
    <3>1. /\ From(r, k) \in PossiblySubmitted
          /\ From(r, k) = "SUBMITTED" \/ status[r] \in Past
          /\ From(r, k) = "SUBMITTED" => task[<<r, k>>].pc # "deadline"
      BY <1>1, <2>3 DEF AloneInv, DrivesOK, From
    <3>2. task[<<r, k>>].pc \in SubmitPcs
      BY <1>1, <1>2, <2>3 DEF Sponsoring, SponsorPcs, SubmitPcs, Tasks
    <3>3. status[r] # "SPONSORING"
      BY <1>1, <3>2 DEF PersistInv, SubmittingIsLate, Late, PossiblySubmitted
    <3> QED
      BY <2>3, <3>1, <3>3 DEF TaskLeaves, Orphan, PossiblySubmitted, Past
  <2>4. CASE TaskFinishes(r, k)
    BY <2>4, OneRow DEF TaskFinishes, Past, Orphan
  <2>5. CASE TaskPersists(r, k)
    <3>1. PICK t \in Tasks : task' = [task EXCEPT ![<<r, k>>] = t] /\ t.pc = "submit"
      BY <2>5 DEF TaskPersists
    <3>2. task'[<<r, k>>] = t
      BY <3>1, SlotFacts
    <3> QED
      BY <3>1, <3>2 DEF Orphan, Idle
  <2> QED
    BY <2>1, <2>2, <2>3, <2>4, <2>5
<1>6. StaysOrphan(r) => \A q \in Requests : StaysOrphan(q)
  BY <1>3, <1>4, OthersStay
<1>7. \A q \in Requests \ {r} : StaysOrphan(q)
  BY <1>3, <1>4, OrphanSame DEF StaysOrphan
<1> QED
  BY <1>5, <1>7 DEF StaysOrphan

\* A row that gets a task has one.
LEMMA OrphanSpawn ==
  ASSUME TypeOK, NEW r \in Requests, NEW k \in Copies, NEW t, t.pc \in Pcs,
         task' = [task EXCEPT ![<<r, k>>] = t], \A q \in Requests \ {r} : status'[q] = status[q]
  PROVE  ~Orphan(r)' /\ \A q \in Requests : StaysOrphan(q)
<1>1. task'[<<r, k>>] = t /\ \A q \in Requests, l \in Copies : <<q, l>> # <<r, k>> => task'[<<q, l>>] = task[<<q, l>>]
  BY SlotFacts
<1>2. ~Orphan(r)'
  BY <1>1 DEF Orphan, Idle, Pcs
<1> QED
  BY <1>1, <1>2, OthersStay DEF StaysOrphan

LEMMA OrphanResume ==
  ASSUME NEW w \in Workers, TypeOK, NEW sn \in todo[w], NEW k \in Copies, Resume(w, sn, k)
  PROVE  ~Orphan(sn.request)' /\ \A q \in Requests : StaysOrphan(q)
<1> DEFINE r == sn.request
           t == NewTask(w, "worker", IF sn.ident THEN "wait" ELSE "submit", sn, attempts[r])
<1>1. t.pc \in Pcs
  BY DEF NewTask, Pcs
<1>2. task' = [task EXCEPT ![<<r, k>>] = t] /\ status' = status
  BY DEF Resume, Spawn, tableVars
<1>3. r \in Requests
  BY DEF TypeOK, Snapshots
<1> HIDE DEF t
<1> QED
  BY <1>1, <1>2, <1>3, OrphanSpawn

\* A row is orphaned only by a crash and by a query that fails.
LEMMA OrphanStep ==
  ASSUME NEW w, Workers = {w}, TypeOK, AloneInv(w), PersistInv, [Next]_vars, NEW q \in Requests
  PROVE  StaysOrphan(q) \/ Crash(w) \/ \E k \in Copies : DbError(q, k)
<1>0. Effect /\ w \in Workers
  BY EffectOfStep
<1>1. CASE UNCHANGED <<status, task>>
  BY <1>1, OrphanSame DEF StaysOrphan
<1>2. ASSUME NEW r \in Requests, ApiMoves(r)
      PROVE  StaysOrphan(q)
  <2>1. task' = task /\ status'[r] \notin {"SPONSORING", "SUBMITTED"} /\ \A p \in Requests \ {r} : status'[p] = status[p]
    BY <1>2, OneRow DEF ApiMoves
  <2> QED
    BY <2>1, OrphanSame DEF StaysOrphan, Orphan
<1>3. ASSUME NEW r \in Requests, NEW k \in Copies,
             TaskGoes(r, k) \/ TaskLeaves(r, k) \/ TaskFinishes(r, k) \/ TaskPersists(r, k)
      PROVE  StaysOrphan(q) \/ \E l \in Copies : DbError(q, l)
  BY <1>0, <1>3, OrphanTask
<1>4. CASE ListSponsoring(w) \/ ListSubmitted(w) \/ RecoveryDone(w) \/ RecoveryFails(w)
  BY <1>1, <1>4 DEF ListSponsoring, ListSubmitted, RecoveryDone, RecoveryFails, tableVars
<1>5. ASSUME NEW sn \in todo[w], Requeue(w, sn) \/ ExpireRecovered(w, sn)
      PROVE  StaysOrphan(q)
  <2>1. sn.request \in Requests /\ task' = task
    BY <1>0, <1>5 DEF TypeOK, Snapshots, Requeue, ExpireRecovered
  <2>2. status' = status \/ MoveTo(sn.request, "RESERVED") \/ MoveTo(sn.request, "EXPIRED")
    BY <1>5 DEF Requeue, ExpireRecovered
  <2>3. status'[q] = status[q] \/ status'[q] \in {"RESERVED", "EXPIRED"}
    BY <2>1, <2>2, OneRow
  <2> QED
    BY <2>1, <2>3, OrphanSame DEF StaysOrphan, Orphan
<1>6. ASSUME NEW sn \in todo[w], NEW k \in Copies, Resume(w, sn, k)
      PROVE  StaysOrphan(q)
  BY <1>0, <1>6, OrphanResume
<1>7. ASSUME NEW k \in Copies, Claim(w, k)
      PROVE  StaysOrphan(q)
  <2>1. PICK r \in Oldest(InStatus({"RESERVED"}), 1) :
          /\ MoveTo(r, "SPONSORING")
          /\ Spawn(r, k, NewTask(w, "worker", "check",
                                 [request |-> r, from |-> "SPONSORING", ident |-> identifier[r]], attempts[r] + 1))
    BY <1>7 DEF Claim, ClaimNext
  <2> DEFINE t == NewTask(w, "worker", "check",
                          [request |-> r, from |-> "SPONSORING", ident |-> identifier[r]], attempts[r] + 1)
  <2>2. t.pc \in Pcs
    BY DEF NewTask, Pcs
  <2>3. task' = [task EXCEPT ![<<r, k>>] = t]
    BY <2>1 DEF Spawn
  <2>4. r \in Requests
    BY DEF Oldest, InStatus
  <2> HIDE DEF t
  <2>5. \A p \in Requests \ {r} : status'[p] = status[p]
    BY <2>1, <2>4, OneRow
  <2> QED
    BY <2>2, <2>3, <2>4, <2>5, OrphanSpawn
<1>8. ASSUME NEW r \in Requests, NEW k \in Copies, ReconcileRow(w, r, k)
      PROVE  StaysOrphan(q)
  <2> DEFINE t == NewTask(w, "reconcile", IF identifier[r] THEN "wait" ELSE "deadline", SnapshotOf(r), attempts[r])
  <2>1. t.pc \in Pcs
    BY DEF NewTask, Pcs
  <2>2. task' = [task EXCEPT ![<<r, k>>] = t] /\ status' = status
    BY <1>8 DEF ReconcileRow, Spawn, tableVars
  <2> HIDE DEF t
  <2> QED
    BY <2>1, <2>2, OrphanSpawn
<1>9. CASE NothingMoves
  BY <1>1, <1>9 DEF NothingMoves
<1> QED
  BY <1>0, <1>2, <1>3, <1>4, <1>5, <1>6, <1>7, <1>8, <1>9 DEF Effect

\* A row that the one worker (apps/worker/src/process.ts:57) has begun on loses
\* its driver only when the process ends or when a query of the task on that
\* very row fails: no race of claims, passes and the reconciler strands it.
OnlyFailuresOrphan ==
  \A r \in Requests :
    ~Orphan(r) /\ Orphan(r)' => (\E w \in Workers : Crash(w)) \/ \E k \in Copies : DbError(r, k)

\* A row of the one worker loses its driver to a crash or to its own failed
\* query only (process, processClaimed and recover of apps/worker/src/worker.ts).
THEOREM OnlyFailuresOrphanCorrect ==
  ASSUME NEW w, Workers = {w}, MaxAttempts > 0
  PROVE  Spec => [][OnlyFailuresOrphan]_vars
<1>1. TypeOK /\ AloneInv(w) /\ PersistInv /\ [Next]_vars => [OnlyFailuresOrphan]_vars
  BY OrphanStep DEF OnlyFailuresOrphan, StaysOrphan
<1> QED
  BY <1>1, TypeCorrect, AloneInvariance, PersistCorrect, PTL DEF Spec

\* The recovery pass still has to come to the row, listed in status s.
Listed(w, r, s) == \E sn \in todo[w] : sn.request = r /\ sn.from = s

\* The rows nobody drives are those a crash has left, and the pass has them on
\* its lists: first the SPONSORING ones, then the SUBMITTED ones.
DrivenOK(w) ==
  \A r \in Requests : Orphan(r) =>
    /\ phase[w] # "ready"
    /\ phase[w] = "requeue" /\ status[r] = "SPONSORING" => Listed(w, r, "SPONSORING")
    /\ phase[w] = "resume" => status[r] = "SUBMITTED" /\ Listed(w, r, "SUBMITTED")

\* A list that is long enough has every row.
LEMMA ListHasAll ==
  ASSUME IsFiniteSet(Requests), Cardinality(Requests) <= ListLimit, NEW S, NEW r \in Requests, status[r] \in S
  PROVE  SnapshotOf(r) \in ListByStatus(S)
<1> DEFINE before == {q \in InStatus(S) : q < r}
<1>1. before \subseteq Requests \ {r}
  <2>1. ~(r < r)
    BY RequestsAssumption
  <2> QED
    BY <2>1 DEF InStatus
<1>2. IsFiniteSet(Requests \ {r}) /\ Cardinality(Requests \ {r}) = Cardinality(Requests) - 1 /\ Cardinality(Requests) \in Nat
  BY FS_RemoveElement, FS_CardinalityType
<1>3. Cardinality(before) <= Cardinality(Requests \ {r}) /\ Cardinality(before) \in Nat
  BY <1>1, <1>2, FS_Subset, FS_CardinalityType
<1>4. Cardinality(before) < ListLimit
  BY <1>2, <1>3, BoundsAssumption
<1>5. r \in Oldest(InStatus(S), ListLimit)
  BY <1>4 DEF Oldest, InStatus
<1> QED
  BY <1>5 DEF ListByStatus

\* The pass lists all orphans.
LEMMA OrphanListed ==
  ASSUME IsFiniteSet(Requests), Cardinality(Requests) <= ListLimit, NEW w \in Workers, NEW S, NEW r \in Requests,
         status[r] \in S, todo'[w] = ListByStatus(S), status' = status
  PROVE  Listed(w, r, status[r])'
<1>1. SnapshotOf(r) \in todo'[w]
  BY ListHasAll
<1>2. SnapshotOf(r).request = r /\ SnapshotOf(r).from = status[r]
  BY DEF SnapshotOf
<1> QED
  BY <1>1, <1>2 DEF Listed

\* The pass handles one of the rows it has listed.
LEMMA DrivenHandled ==
  ASSUME NEW w \in Workers, DrivenOK(w), \A q \in Requests : StaysOrphan(q), NEW r \in Requests, ~Orphan(r)',
         phase' = phase, \A sn \in todo[w] : sn.request # r => sn \in todo'[w]
  PROVE  DrivenOK(w)'
<1> SUFFICES ASSUME NEW q \in Requests, Orphan(q)'
             PROVE  /\ phase[w] # "ready"
                    /\ phase[w] = "requeue" /\ status'[q] = "SPONSORING" => Listed(w, q, "SPONSORING")'
                    /\ phase[w] = "resume" => status'[q] = "SUBMITTED" /\ Listed(w, q, "SUBMITTED")'
  BY DEF DrivenOK
<1>1. Orphan(q) /\ status'[q] = status[q] /\ q # r
  BY DEF StaysOrphan
<1>2. \A s : Listed(w, q, s) => Listed(w, q, s)'
  BY <1>1 DEF Listed
<1> QED
  BY <1>1, <1>2 DEF DrivenOK

LEMMA DrivenStep ==
  ASSUME NEW w, Workers = {w}, MaxAttempts > 0, ~DbFails, IsFiniteSet(Requests), Cardinality(Requests) <= ListLimit
  PROVE  TypeOK /\ AloneInv(w) /\ PersistInv /\ DrivenOK(w) /\ [Next]_vars => DrivenOK(w)'
<1> SUFFICES ASSUME TypeOK, AloneInv(w), PersistInv, DrivenOK(w), [Next]_vars
             PROVE  DrivenOK(w)'
  OBVIOUS
<1>0. /\ Effect /\ w \in Workers /\ phase \in [Workers -> Phases] /\ todo \in [Workers -> SUBSET Snapshots]
      /\ \A sn \in todo[w] : sn.request \in Requests
  BY EffectOfStep DEF TypeOK, Snapshots
<1>1. CASE Crash(w)
  <2>1. phase'[w] = "off"
    BY <1>0, <1>1 DEF Crash
  <2> QED
    BY <2>1 DEF DrivenOK
<1> SUFFICES ASSUME ~Crash(w)
             PROVE  DrivenOK(w)'
  BY <1>1
<1>2. \A q \in Requests : StaysOrphan(q)
  BY OrphanStep DEF DbError
<1>3. CASE UNCHANGED <<phase, todo>>
  BY <1>2, <1>3 DEF DrivenOK, StaysOrphan, Listed
<1>4. CASE ListSponsoring(w)
  <2>1. phase'[w] = "requeue" /\ todo'[w] = ListByStatus({"SPONSORING"}) /\ status' = status
    BY <1>0, <1>4 DEF ListSponsoring, tableVars
  <2>2. \A r \in Requests : status[r] = "SPONSORING" => Listed(w, r, "SPONSORING")'
    BY <1>0, <2>1, OrphanListed
  <2> QED
    BY <2>1, <2>2 DEF DrivenOK
<1>5. CASE ListSubmitted(w)
  <2>1. /\ phase[w] = "requeue" /\ todo[w] = {}
        /\ phase'[w] = "resume" /\ todo'[w] = ListByStatus(PossiblySubmitted) /\ status' = status
    BY <1>0, <1>5 DEF ListSubmitted, tableVars
  <2>2. \A r \in Requests : Orphan(r)' => status[r] = "SUBMITTED"
    BY <1>2, <2>1 DEF DrivenOK, StaysOrphan, Listed, Orphan
  <2>3. \A r \in Requests : status[r] = "SUBMITTED" => Listed(w, r, "SUBMITTED")'
    BY <1>0, <2>1, OrphanListed DEF PossiblySubmitted
  <2> QED
    BY <2>1, <2>2, <2>3 DEF DrivenOK
<1>6. CASE RecoveryDone(w)
  <2>1. phase[w] = "resume" /\ todo[w] = {}
    BY <1>6 DEF RecoveryDone
  <2>2. \A r \in Requests : ~Orphan(r)'
    BY <1>2, <2>1 DEF DrivenOK, StaysOrphan, Listed
  <2> QED
    BY <2>2 DEF DrivenOK
<1>7. ASSUME NEW sn \in todo[w], Requeue(w, sn) \/ ExpireRecovered(w, sn)
      PROVE  DrivenOK(w)'
  <2>1. CASE phase'[w] = "boot"
    BY <2>1 DEF DrivenOK
  <2>2. CASE phase'[w] # "boot"
    <3>1. /\ MoveTo(sn.request, "RESERVED") \/ MoveTo(sn.request, "EXPIRED")
          /\ phase' = phase /\ todo' = [todo EXCEPT ![w] = @ \ {sn}]
      BY <1>0, <1>7, <2>2 DEF Requeue, ExpireRecovered, EndRecovery
    <3>2. ~Orphan(sn.request)'
      BY <1>0, <3>1, OneRow DEF Orphan
    <3>3. \A s \in todo[w] : s.request # sn.request => s \in todo'[w]
      BY <1>0, <3>1
    <3> QED
      BY <1>0, <1>2, <3>1, <3>2, <3>3, DrivenHandled
  <2> QED
    BY <2>1, <2>2
<1>8. ASSUME NEW sn \in todo[w], NEW k \in Copies, Resume(w, sn, k)
      PROVE  DrivenOK(w)'
  <2>1. phase' = phase /\ todo' = [todo EXCEPT ![w] = @ \ {sn}]
    BY <1>8 DEF Resume
  <2>2. ~Orphan(sn.request)'
    BY <1>0, <1>8, OrphanResume
  <2>3. \A s \in todo[w] : s.request # sn.request => s \in todo'[w]
    BY <1>0, <2>1
  <2> QED
    BY <1>0, <1>2, <2>1, <2>2, <2>3, DrivenHandled
<1>9. CASE \/ NothingMoves \/ \E r \in Requests : ApiMoves(r)
           \/ \E r \in Requests, k \in Copies : TaskGoes(r, k) \/ TaskLeaves(r, k) \/ TaskFinishes(r, k) \/ TaskPersists(r, k)
           \/ \E k \in Copies : Claim(w, k)
           \/ \E r \in Requests, k \in Copies : ReconcileRow(w, r, k)
  BY <1>3, <1>9 DEF NothingMoves, ApiMoves, TaskGoes, TaskLeaves, TaskFinishes, TaskPersists, Frame,
                    Claim, ClaimNext, ReconcileRow
<1>10. ~RecoveryFails(w)
  BY DEF RecoveryFails
<1> QED
  BY <1>0, <1>4, <1>5, <1>6, <1>7, <1>8, <1>9, <1>10 DEF Effect

\* While no query fails a recovered worker has no orphans (recover() and tick()
\* of apps/worker/src/worker.ts), if it is the one worker (process.ts:57) and its
\* pass lists every row (worker.ts:30: it takes the oldest ListLimit).
THEOREM NoOrphansCorrect ==
  ASSUME NEW w, Workers = {w}, MaxAttempts > 0, ~DbFails, IsFiniteSet(Requests), Cardinality(Requests) <= ListLimit
  PROVE  Spec => []NoOrphans
<1>1. Init => DrivenOK(w)
  BY DEF Init, TableInit, DrivenOK, Orphan, ABSENT
<1>2. TypeOK /\ AloneInv(w) /\ PersistInv /\ DrivenOK(w) /\ [Next]_vars => DrivenOK(w)'
  BY DrivenStep
<1>3. DrivenOK(w) => NoOrphans
  BY DEF DrivenOK, NoOrphans
<1> QED
  BY <1>1, <1>2, <1>3, TypeCorrect, AloneInvariance, PersistCorrect, PTL DEF Spec
=============================================================================
