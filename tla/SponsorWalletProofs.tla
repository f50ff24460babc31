------------------------ MODULE SponsorWalletProofs -------------------------
(***************************************************************************)
(* Theorems about SponsorWallet, for any requests, any finite set of       *)
(* coins, any number of files, attempts and faults: the inductive          *)
(* invariant Inv and the safety properties it implies.                     *)
(***************************************************************************)
EXTENDS SponsorWallet, FiniteSetTheorems, TLAPS

(* TypeOK by its parts.                                                    *)
ProcType ==
  /\ api \in {"migrating", "up"} /\ MigrationsType
  /\ proc \in Phases /\ frozen \in BOOLEAN /\ life \in Nat /\ capacity \in Nat
  /\ faults \in 0..MaxFaults
RowType ==
  /\ row \in [Requests -> {"new"} \cup Queued \cup Ended]
  /\ attempts \in [Requests -> Nat]
  /\ ident \subseteq {r \in Requests : row[r] \in Persisted}
  /\ job \in [Requests -> {"none", "sponsor", "finalize", "submit", "patch", "wait"}]
  /\ \A r \in Requests : job[r] # "none" => proc = "ready"
CoinType ==
  /\ spend \in [Requests -> Spends \cup {NoSpend}]
  /\ recipe \in [Requests -> Recipes]
  /\ lock \in [Coins -> Requests \cup {Nobody}]
  /\ seen \in [Coins -> Nat] /\ version \in [Coins -> Nat]
  /\ \A c \in Coins : seen[c] <= version[c]
ChainType ==
  /\ pool \subseteq Requests /\ aged \subseteq Requests /\ refused \subseteq Requests
  /\ applied \in [Requests -> Nat]

(* The files applied are a prefix, and who holds the lock knows it.        *)
SessionsOK ==
  /\ schema \in Seq(1..Files)
  /\ \A s \in Starters : session[s].holds => session[s].done = Len(schema)

(* The request's transaction is live, or its task may still make it so.    *)
Potential(r) == Live(r) \/ job[r] \in {"finalize", "submit"}

(* What the await of a task says of its row.                               *)
JobOK(r) ==
  /\ job[r] \in {"sponsor", "finalize"} => row[r] = "SPONSORING"
  /\ job[r] \in {"submit", "patch", "wait"} => row[r] \in Persisted
  /\ job[r] = "submit" /\ spend[r].life = life => row[r] = "SUBMITTED"
  /\ Known(r) => row[r] \in Persisted
  /\ Potential(r) => spend[r] \in Spends
  /\ spend[r].life <= life
JobsOK == \A r \in Requests : JobOK(r)

(* What the verdict says of the chain.                                     *)
VerdictOK(r) ==
  /\ row[r] = "CONFIRMED" => applied[r] # 0
  /\ r \in refused => job[r] = "none" /\ row[r] \in {"SUBMISSION_FAILED", "EXPIRED"} /\ ~Known(r)
VerdictsOK == \A r \in Requests : VerdictOK(r)

AllClean == recipe = [r \in Requests |-> Clean]

(* What is applied has spent its coin.                                     *)
SpentOK == \A r \in Requests : applied[r] # 0 => spend[r].version < version[spend[r].coin]

(* A wallet that is ready has seen what was spent before its life; what    *)
(* was balanced in its life holds the coin until it is spent.              *)
LockOK(r) ==
  /\ applied[r] \in 1..life => spend[r].version < seen[spend[r].coin]
  /\ spend[r].life = life => spend[r].version <= seen[spend[r].coin]
  /\ Potential(r) /\ spend[r].life = life /\ spend[r].version = seen[spend[r].coin]
       => lock[spend[r].coin] = r
LocksOK == proc = "ready" => life > 0 /\ \A r \in Requests : LockOK(r)

SameCoin(r, s) == spend[r].coin = spend[s].coin /\ spend[r].version = spend[s].version
Undrained(r, s) ==
  /\ spend[r].life # spend[s].life
  /\ spend[s].life < spend[r].life => applied[s] = 0 \/ applied[s] > spend[r].life
PairsOK ==
  \A r, s \in Requests : r # s /\ Potential(r) /\ Potential(s) /\ SameCoin(r, s) => Undrained(r, s)

Types == ProcType /\ RowType /\ CoinType /\ ChainType
Inv == Types /\ SessionsOK /\ JobsOK /\ VerdictsOK /\ AllClean /\ SpentOK /\ LocksOK /\ PairsOK
-----------------------------------------------------------------------------
(* Nothing has happened yet.                                               *)
LEMMA InvInit == Init => Inv
<1> SUFFICES ASSUME Init PROVE Inv
  OBVIOUS
<1> USE DEF Init, MigrationsInit
<1>1. MigrationsType /\ SessionsOK
  <2>1. Out \in [holds : BOOLEAN, done : 0..Files] /\ Out.holds = FALSE
    BY WalletAssumption DEF Out
  <2>2. schema = <<>> /\ Len(schema) = 0 /\ schema \in Seq(1..Files)
    OBVIOUS
  <2>3. schema = [i \in 1..Len(schema) |-> i]
    BY <2>2
  <2>4. Len(schema) <= Files
    BY <2>2, WalletAssumption
  <2>5. \A s \in Starters : ~session[s].holds
    BY DEF Out
  <2>6. session \in [Starters -> [holds : BOOLEAN, done : 0..Files]]
    BY <2>1
  <2>7. MigrationsType
    BY <2>3, <2>4, <2>5, <2>6 DEF MigrationsType
  <2>8. SessionsOK
    BY <2>2, <2>5 DEF SessionsOK
  <2> QED
    BY <2>7, <2>8
<1>2. NoSpend \in Spends \cup {NoSpend} /\ Clean \in Recipes /\ NoSpend.life = 0
  BY DEF NoSpend, Clean, Recipes
<1>3. Types
  <2>0. frozen \in BOOLEAN
    BY Zenon
  <2>1. ProcType
    <3>1. proc \in Phases /\ faults \in 0..MaxFaults /\ life \in Nat /\ capacity \in Nat /\ api \in {"migrating", "up"}
      BY WalletAssumption DEF Phases
    <3> HIDE DEF Init, MigrationsInit
    <3> QED
      BY <1>1, <2>0, <3>1 DEF ProcType
  <2>2. RowType
    BY DEF RowType
  <2>3. CoinType
    BY <1>2 DEF CoinType
  <2>4. ChainType
    BY DEF ChainType
  <2> QED
    BY <2>1, <2>2, <2>3, <2>4 DEF Types
<1>4. \A r \in Requests : ~Known(r) /\ ~Live(r) /\ ~Potential(r)
  BY DEF Known, Live, Potential
<1>5. JobsOK /\ VerdictsOK
  BY <1>2, <1>4 DEF JobsOK, JobOK, VerdictsOK, VerdictOK
<1>6. AllClean /\ SpentOK /\ LocksOK /\ PairsOK
  BY <1>4 DEF AllClean, SpentOK, LocksOK, PairsOK
<1> QED
  BY <1>1, <1>3, <1>5, <1>6 DEF Inv
-----------------------------------------------------------------------------
(* One request.                                                            *)

Stays == UNCHANGED <<startVars, proc, frozen, life, recipe, lock, seen, version, applied, aged>>

(* What the step of one request leaves to the others.                      *)
LEMMA OthersKeep ==
  ASSUME Inv, NEW r \in Requests, Stays,
         row' = [row EXCEPT ![r] = row'[r]], job' = [job EXCEPT ![r] = job'[r]],
         spend' = [spend EXCEPT ![r] = spend'[r]],
         pool' \ {r} = pool \ {r}, refused' \ {r} = refused \ {r},
         NEW s \in Requests, s # r
  PROVE  /\ row'[s] = row[s] /\ job'[s] = job[s] /\ spend'[s] = spend[s] /\ applied'[s] = applied[s]
         /\ (Known(s)' <=> Known(s)) /\ (Live(s)' <=> Live(s)) /\ (Potential(s)' <=> Potential(s))
         /\ JobOK(s)' /\ VerdictOK(s)' /\ (proc = "ready" => LockOK(s)')
<1>1. /\ row'[s] = row[s] /\ job'[s] = job[s] /\ spend'[s] = spend[s]
      /\ applied'[s] = applied[s] /\ life' = life /\ lock' = lock /\ seen' = seen
      /\ (s \in pool' <=> s \in pool) /\ (s \in refused' <=> s \in refused)
  BY DEF Inv, Types, RowType, CoinType, Stays
<1>2. Known(s)' <=> Known(s)
  BY <1>1 DEF Known
<1>3. Live(s)' <=> Live(s)
  BY <1>1, <1>2 DEF Live
<1>4. Potential(s)' <=> Potential(s)
  BY <1>1, <1>3 DEF Potential
<1>5. JobOK(s) /\ VerdictOK(s) /\ (proc = "ready" => LockOK(s))
  BY DEF Inv, JobsOK, VerdictsOK, LocksOK
<1>6. JobOK(s)'
  BY <1>1, <1>2, <1>4, <1>5 DEF JobOK
<1>7. VerdictOK(s)'
  BY <1>1, <1>2, <1>5 DEF VerdictOK
<1>8. proc = "ready" => LockOK(s)'
  BY <1>1, <1>4, <1>5 DEF LockOK
<1> QED
  BY <1>1, <1>2, <1>3, <1>4, <1>6, <1>7, <1>8

(* A step of one request that does not choose a coin keeps the invariant   *)
(* if it keeps what the invariant says of that request.                    *)
LEMMA OneRequest ==
  ASSUME Inv, NEW r \in Requests, Stays,
         row' = [row EXCEPT ![r] = row'[r]], job' = [job EXCEPT ![r] = job'[r]],
         row'[r] \in {"new"} \cup Queued \cup Ended,
         job'[r] \in {"none", "sponsor", "finalize", "submit", "patch", "wait"},
         job'[r] # "none" => proc = "ready",
         \/ spend' = spend /\ (Potential(r)' => Potential(r))
         \/ spend' = [spend EXCEPT ![r] = NoSpend] /\ ~Potential(r)' /\ applied[r] = 0,
         pool' \ {r} = pool \ {r}, refused' \ {r} = refused \ {r},
         pool' \subseteq Requests, refused' \subseteq Requests,
         ident' \ {r} = ident \ {r}, r \in ident' => row'[r] \in Persisted,
         attempts' \in [Requests -> Nat], capacity' \in Nat, faults' \in 0..MaxFaults,
         JobOK(r)', VerdictOK(r)'
  PROVE  Inv'
<1>1. /\ row \in [Requests -> {"new"} \cup Queued \cup Ended] /\ ident \subseteq {s \in Requests : row[s] \in Persisted}
      /\ job \in [Requests -> {"none", "sponsor", "finalize", "submit", "patch", "wait"}]
      /\ spend \in [Requests -> Spends \cup {NoSpend}]
      /\ \A s \in Requests : job[s] # "none" => proc = "ready"
  BY DEF Inv, Types, RowType, CoinType
<1>2. spend' = [spend EXCEPT ![r] = spend'[r]] /\ spend' \in [Requests -> Spends \cup {NoSpend}]
  BY <1>1
<1>3. \A s \in Requests \ {r} :
        /\ row'[s] = row[s] /\ job'[s] = job[s] /\ spend'[s] = spend[s] /\ applied'[s] = applied[s]
        /\ (Potential(s)' <=> Potential(s))
        /\ JobOK(s)' /\ VerdictOK(s)' /\ (proc = "ready" => LockOK(s)')
  BY <1>2, OthersKeep
<1>4. UNCHANGED <<schema, session, api, proc, frozen, life, recipe, lock, seen, version, applied, aged>>
  BY DEF Stays, startVars
<1>5. Types'
  <2>1. ProcType'
    BY <1>4 DEF Inv, Types, ProcType, MigrationsType
  <2>2. RowType'
    <3>1. row' \in [Requests -> {"new"} \cup Queued \cup Ended]
      BY <1>1
    <3>2. job' \in [Requests -> {"none", "sponsor", "finalize", "submit", "patch", "wait"}]
      BY <1>1
    <3>3. ident' \subseteq {s \in Requests : row'[s] \in Persisted}
      BY <1>1, <1>3
    <3>4. \A s \in Requests : job'[s] # "none" => proc' = "ready"
      BY <1>1, <1>3, <1>4
    <3> QED
      BY <3>1, <3>2, <3>3, <3>4 DEF RowType
  <2>3. CoinType'
    BY <1>2, <1>4 DEF Inv, Types, CoinType
  <2>4. ChainType'
    BY <1>4 DEF Inv, Types, ChainType
  <2> QED
    BY <2>1, <2>2, <2>3, <2>4 DEF Types
<1>6. SessionsOK' /\ AllClean'
  BY <1>4 DEF Inv, SessionsOK, AllClean
<1>7. JobsOK' /\ VerdictsOK'
  BY <1>3 DEF JobsOK, VerdictsOK
<1>8. SpentOK'
  <2> SUFFICES ASSUME NEW s \in Requests, applied'[s] # 0
               PROVE  spend'[s].version < version'[spend'[s].coin]
    BY DEF SpentOK
  <2>1. spend'[s] = spend[s]
    BY <1>3, <1>4
  <2> QED
    BY <1>4, <2>1 DEF Inv, SpentOK
<1>9. LocksOK'
  <2> SUFFICES ASSUME proc = "ready" PROVE life > 0 /\ \A s \in Requests : LockOK(s)'
    BY <1>4 DEF LocksOK
  <2>1. life > 0 /\ LockOK(r) /\ life \in Nat
    BY DEF Inv, LocksOK, Types, ProcType
  <2>2. LockOK(r)'
    <3>1. CASE spend' = spend /\ (Potential(r)' => Potential(r))
      BY <1>4, <2>1, <3>1 DEF LockOK
    <3>2. CASE spend' = [spend EXCEPT ![r] = NoSpend] /\ ~Potential(r)' /\ applied[r] = 0
      <4>1. spend'[r].life # life' /\ applied'[r] = 0
        BY <1>1, <1>4, <2>1, <3>2 DEF NoSpend
      <4> QED
        BY <1>4, <2>1, <4>1 DEF LockOK
    <3> QED
      BY <3>1, <3>2
  <2> QED
    BY <1>3, <2>1, <2>2
<1>10. PairsOK'
  <2> SUFFICES ASSUME NEW s \in Requests, NEW t \in Requests, s # t,
                      Potential(s)', Potential(t)', SameCoin(s, t)'
               PROVE  Undrained(s, t)'
    BY DEF PairsOK
  <2>1. spend'[s] = spend[s] /\ spend'[t] = spend[t] /\ Potential(s) /\ Potential(t)
    BY <1>3
  <2>2. SameCoin(s, t)
    BY <2>1 DEF SameCoin
  <2>3. Undrained(s, t)
    BY <2>1, <2>2 DEF Inv, PairsOK
  <2> QED
    BY <1>4, <2>1, <2>3 DEF Undrained
<1> QED
  BY <1>5, <1>6, <1>7, <1>8, <1>9, <1>10 DEF Inv
-----------------------------------------------------------------------------
(* The api's estimate, and the reconciler: only rows.                      *)

(* A row that nobody drives, or that the reconciler ends.                  *)
LEMMA RowOnly ==
  ASSUME Inv, NEW r \in Requests, NEW s \in Queued \cup Ended, SetRow(r, s), OnlyRow,
         \/ row[r] \in {"new", "asking"} /\ s \in {"asking", "RESERVED", "REJECTED"}
         \/ row[r] = "TIMEOUT" /\ s \in {"CONFIRMED", "SUBMISSION_FAILED", "EXPIRED"} /\ (s = "CONFIRMED" => applied[r] # 0)
  PROVE  Inv'
<1>1. /\ Stays /\ row' = [row EXCEPT ![r] = s] /\ job' = job /\ spend' = spend /\ ident' = ident
      /\ attempts' = attempts /\ capacity' = capacity /\ faults' = faults /\ refused' = refused /\ pool' = pool
      /\ applied' = applied /\ life' = life
  BY DEF SetRow, OnlyRow, Stays, procVars, sdkVars, chainVars
<1>2. /\ row \in [Requests -> {"new"} \cup Queued \cup Ended] /\ ident \subseteq {q \in Requests : row[q] \in Persisted}
      /\ job \in [Requests -> {"none", "sponsor", "finalize", "submit", "patch", "wait"}]
      /\ spend \in [Requests -> Spends \cup {NoSpend}]
      /\ \A q \in Requests : job[q] # "none" => proc = "ready"
      /\ attempts \in [Requests -> Nat] /\ capacity \in Nat /\ faults \in 0..MaxFaults
      /\ pool \subseteq Requests /\ refused \subseteq Requests
  BY DEF Inv, Types, RowType, CoinType, ProcType, ChainType
<1>3. row'[r] = s /\ job'[r] = job[r]
  BY <1>1, <1>2
<1>4. JobOK(r) /\ VerdictOK(r)
  BY DEF Inv, JobsOK, VerdictsOK
<1>5. Known(r)' <=> Known(r)
  BY <1>1 DEF Known
<1>6. row[r] = "TIMEOUT" => Live(r)
  BY DEF Live
<1>7. Potential(r)' => Potential(r)
  BY <1>1, <1>3, <1>5, <1>6 DEF Potential, Live
<1>8. JobOK(r)'
  <2>1. job[r] \notin {"sponsor", "finalize"}
    BY <1>4 DEF JobOK
  <2>2. job[r] = "submit" => spend[r].life # life
    BY <1>4 DEF JobOK, Persisted
  <2>3. job[r] \in {"submit", "patch", "wait"} \/ Known(r) => s \in Persisted
    BY <1>4 DEF JobOK, Persisted
  <2> QED
    BY <1>1, <1>3, <1>4, <1>5, <1>7, <2>1, <2>2, <2>3 DEF JobOK
<1>9. VerdictOK(r)'
  BY <1>1, <1>3, <1>4, <1>5 DEF VerdictOK
<1>10. r \in ident => s \in Persisted
  BY <1>2 DEF Persisted
<1> QED
  BY <1>1, <1>2, <1>3, <1>7, <1>8, <1>9, <1>10, OneRequest

(* Every answer to an estimate.                                            *)
LEMMA EstimateStep ==
  ASSUME Inv, NEW r \in Requests,
         \/ Ask(r) \/ EstimateFee(r) \/ NotReady(r) \/ WorkerRefuses(r) \/ Unreachable(r)
  PROVE  Inv'
<1>1. \E s \in {"asking", "RESERVED", "REJECTED"} :
        SetRow(r, s) /\ OnlyRow /\ row[r] \in {"new", "asking"}
  BY DEF Ask, EstimateFee, NotReady, WorkerRefuses, Unreachable, RejectEstimate
<1> QED
  BY <1>1, RowOnly DEF Queued, Ended

(* The reconciler.                                                         *)
LEMMA ReconcileStep ==
  ASSUME Inv, NEW r \in Requests, Reconcile(r)
  PROVE  Inv'
<1>1. \E s \in {"CONFIRMED", "SUBMISSION_FAILED", "EXPIRED"} :
        SetRow(r, s) /\ OnlyRow /\ row[r] = "TIMEOUT" /\ (s = "CONFIRMED" => applied[r] # 0)
  BY DEF Reconcile, Finds
<1> QED
  BY <1>1, RowOnly DEF Ended
-----------------------------------------------------------------------------
(* The task of one request.                                                *)

(* What its await says of a task.                                          *)
LEMMA AtJob ==
  ASSUME Inv, NEW r \in Requests, NEW pc \in {"sponsor", "finalize", "submit", "patch", "wait"}, At(r, pc)
  PROVE  /\ proc = "ready" /\ job[r] = pc /\ JobOK(r) /\ VerdictOK(r) /\ r \notin refused
         /\ pc \in {"sponsor", "finalize"} => row[r] = "SPONSORING" /\ ~Known(r) /\ r \notin ident /\ applied[r] = 0
         /\ pc \in {"submit", "patch", "wait"} => row[r] \in Persisted
<1>1. proc = "ready" /\ job[r] = pc
  BY DEF At, Runs
<1>2. JobOK(r) /\ VerdictOK(r)
  BY DEF Inv, JobsOK, VerdictsOK
<1>3. ident \subseteq {q \in Requests : row[q] \in Persisted}
  BY DEF Inv, Types, RowType
<1> QED
  BY <1>1, <1>2, <1>3 DEF JobOK, VerdictOK, Persisted, Known

(* A task that ends, in one way or another.                                *)
LEMMA LeaveStep ==
  ASSUME Inv, NEW r \in Requests, NEW s \in {"EXPIRED", "SUBMISSION_FAILED", "TIMEOUT", "CONFIRMED"},
         NEW pc \in {"sponsor", "submit", "wait"}, At(r, pc), Leave(r, s),
         s = "CONFIRMED" => applied[r] # 0,
         s = "TIMEOUT" => pc # "sponsor",
         UNCHANGED <<version, applied, aged>>,
         \/ pool' = pool
         \/ pool' = pool \cup {r} /\ pc = "submit",
         \/ refused' = refused
         \/ refused' = refused \cup {r} /\ pc = "submit" /\ s = "SUBMISSION_FAILED" /\ ~Known(r) /\ pool' = pool
  PROVE  Inv'
<1>1. /\ proc = "ready" /\ job[r] = pc /\ JobOK(r) /\ VerdictOK(r) /\ r \notin refused
      /\ pc = "sponsor" => row[r] = "SPONSORING" /\ ~Known(r) /\ r \notin ident
      /\ pc # "sponsor" => row[r] \in Persisted
  BY AtJob
<1> DEFINE e == IF row[r] \in Ended THEN row[r] ELSE s
<1>2. /\ Stays /\ row' = [row EXCEPT ![r] = e] /\ job' = [job EXCEPT ![r] = "none"] /\ spend' = spend
      /\ ident' = ident /\ attempts' = attempts /\ capacity' = capacity /\ faults' = faults
      /\ applied' = applied /\ life' = life
  BY DEF Leave, SetJob, Stays, procVars, sdkVars
<1>3. /\ row \in [Requests -> {"new"} \cup Queued \cup Ended] /\ ident \subseteq {q \in Requests : row[q] \in Persisted}
      /\ job \in [Requests -> {"none", "sponsor", "finalize", "submit", "patch", "wait"}]
      /\ attempts \in [Requests -> Nat] /\ capacity \in Nat /\ faults \in 0..MaxFaults
      /\ pool \subseteq Requests /\ refused \subseteq Requests
  BY DEF Inv, Types, RowType, ProcType, ChainType
<1>4. e \in Persisted /\ e \in Queued \cup Ended
  BY <1>1 DEF Persisted, Queued, Ended
<1> HIDE DEF e
<1>5. row'[r] = e /\ job'[r] = "none"
  BY <1>2, <1>3
<1>6. Potential(r)' => Potential(r)
  <2>1. CASE pc = "submit"
    BY <1>1, <2>1 DEF Potential
  <2>2. CASE pc # "submit"
    <3>1. (Known(r)' <=> Known(r)) /\ (row[r] \in Ended => e = row[r]) /\ (row[r] \notin Ended => e = s)
      BY <1>2, <2>2 DEF Known, e
    <3>2. CASE pc = "sponsor"
      BY <1>1, <1>2, <1>5, <3>1, <3>2 DEF Potential, Live, Ended
    <3>3. CASE pc = "wait"
      BY <1>1, <1>2, <1>5, <3>1, <3>3 DEF Potential, Live, Persisted, Ended
    <3> QED
      BY <2>2, <3>2, <3>3
  <2> QED
    BY <2>1, <2>2
<1>7. JobOK(r)'
  <2>1. Potential(r)' => spend[r] \in Spends
    BY <1>1, <1>6 DEF JobOK
  <2> QED
    BY <1>1, <1>2, <1>4, <1>5, <2>1 DEF JobOK
<1>8. VerdictOK(r)'
  <2>1. e = "CONFIRMED" => applied'[r] # 0
    BY <1>1, <1>2 DEF VerdictOK, e
  <2>2. CASE r \in refused'
    <3>1. pc = "submit" /\ s = "SUBMISSION_FAILED" /\ ~Known(r) /\ pool' = pool
      BY <1>1, <2>2
    <3>2. ~Known(r)'
      BY <1>2, <3>1 DEF Known
    <3>3. applied[r] = 0
      BY <3>1 DEF Known
    <3>4. e \in {"SUBMISSION_FAILED", "EXPIRED"}
      BY <1>1, <1>2, <2>1, <3>1, <3>3 DEF e, Persisted, Ended
    <3> QED
      BY <1>5, <2>1, <3>2, <3>4 DEF VerdictOK
  <2> QED
    BY <1>5, <2>1, <2>2 DEF VerdictOK
<1>9. pool' \ {r} = pool \ {r} /\ refused' \ {r} = refused \ {r} /\ pool' \subseteq Requests /\ refused' \subseteq Requests
  BY <1>3
<1> QED
  BY <1>2, <1>3, <1>4, <1>5, <1>6, <1>7, <1>8, <1>9, OneRequest

(* Every way a task ends with a verdict.                                   *)
LEMMA LeaveSteps ==
  ASSUME Inv, NEW r \in Requests,
         \/ TooClose(r) \/ Refuse(r) \/ SubmitLost(r) \/ SubmitUnclassified(r)
         \/ Confirm(r) \/ WaitFails(r) \/ WaitTimesOut(r)
  PROVE  Inv'
<1>1. CASE TooClose(r)
  <2>1. At(r, "sponsor") /\ Leave(r, "EXPIRED") /\ refused' = refused /\ UNCHANGED <<version, pool, applied, aged>>
    BY <1>1 DEF TooClose, EndJob, chainVars
  <2> QED
    BY <2>1, LeaveStep
<1>2. CASE Refuse(r)
  <2>1. /\ At(r, "submit") /\ ~Known(r) /\ Leave(r, "SUBMISSION_FAILED") /\ refused' = refused \cup {r}
        /\ UNCHANGED <<version, pool, applied, aged>>
    BY <1>2 DEF Refuse, EndJob, chainVars
  <2> QED
    BY <2>1, LeaveStep
<1>3. CASE SubmitLost(r)
  <2>1. /\ At(r, "submit") /\ Leave(r, "TIMEOUT") /\ refused' = refused /\ UNCHANGED <<version, applied, aged>>
        /\ (pool' = pool \cup {r} \/ pool' = pool)
    BY <1>3 DEF SubmitLost, OffChain, UnlessDelivered, Deliver
  <2> QED
    BY <2>1, LeaveStep
<1>4. CASE SubmitUnclassified(r)
  <2>1. /\ At(r, "submit") /\ Leave(r, "SUBMISSION_FAILED") /\ refused' = refused /\ UNCHANGED <<version, applied, aged>>
        /\ (pool' = pool \cup {r} \/ pool' = pool)
    BY <1>4 DEF SubmitUnclassified, OffChain, UnlessDelivered, Deliver
  <2> QED
    BY <2>1, LeaveStep
<1>5. CASE Confirm(r) \/ WaitFails(r) \/ WaitTimesOut(r)
  <2>1. \E s \in {"CONFIRMED", "SUBMISSION_FAILED", "TIMEOUT"} :
          /\ At(r, "wait") /\ Leave(r, s) /\ refused' = refused /\ UNCHANGED <<version, pool, applied, aged>>
          /\ s = "CONFIRMED" => applied[r] # 0
    BY <1>5 DEF Confirm, WaitFails, WaitTimesOut, Finds, EndJob, chainVars
  <2> QED
    BY <2>1, LeaveStep
<1> QED
  BY <1>1, <1>2, <1>3, <1>4, <1>5

(* The await a task moves on to, with the node's answer or after the patch. *)
LEMMA AdvanceStep ==
  ASSUME Inv, NEW r \in Requests, Submit(r) \/ Replay(r) \/ Patch(r)
  PROVE  Inv'
<1> DEFINE Moves(pc, to) ==
             /\ At(r, pc) /\ job' = [job EXCEPT ![r] = to] /\ row' = row /\ spend' = spend /\ Stays
             /\ attempts' = attempts /\ capacity' = capacity /\ faults' = faults /\ refused' = refused
             /\ (pool' = pool \/ (pool' = pool \cup {r} /\ pc = "submit"))
             /\ (ident' = ident \/ ident' = ident \cup {r})
             /\ applied' = applied /\ life' = life /\ (pc = "patch" => to = "wait")
<1>0. \E pc \in {"submit", "patch"}, to \in {"patch", "wait"} : Moves(pc, to)
  <2>1. CASE Submit(r)
    <3>1. Moves("submit", "patch")
      BY <2>1 DEF Submit, Deliver, OffChain, SetJob, Stays, procVars, rowVars, sdkVars
    <3> QED
      BY <3>1
  <2>3. CASE Replay(r)
    <3>1. Moves("submit", "patch")
      BY <2>3 DEF Replay, SetJob, Stays, procVars, rowVars, sdkVars, chainVars
    <3> QED
      BY <3>1
  <2>2. CASE Patch(r)
    <3>1. /\ At(r, "patch") /\ job' = [job EXCEPT ![r] = "wait"] /\ ident' = ident \cup {r}
          /\ UNCHANGED <<procVars, row, attempts, sdkVars, chainVars, refused, faults>>
      BY <2>2 DEF Patch, SetJob
    <3>2. /\ row' = row /\ spend' = spend /\ attempts' = attempts /\ capacity' = capacity /\ faults' = faults
          /\ refused' = refused /\ pool' = pool /\ applied' = applied /\ life' = life
      BY <3>1 DEF procVars, sdkVars, chainVars
    <3>3. Stays
      BY <3>1 DEF Stays, procVars, sdkVars, chainVars
    <3>4. Moves("patch", "wait")
      BY <3>1, <3>2, <3>3
    <3> QED
      BY <3>4
  <2> QED
    BY <2>1, <2>2, <2>3
<1>1. PICK pc \in {"submit", "patch"}, to \in {"patch", "wait"} : Moves(pc, to)
  BY <1>0
<1>2. to \in {"patch", "wait"} /\ pc \in {"submit", "patch"}
  OBVIOUS
<1>3. proc = "ready" /\ job[r] = pc /\ JobOK(r) /\ VerdictOK(r) /\ r \notin refused /\ row[r] \in Persisted
  BY <1>1, <1>2, AtJob
<1>4. /\ row \in [Requests -> {"new"} \cup Queued \cup Ended] /\ ident \subseteq {q \in Requests : row[q] \in Persisted}
      /\ job \in [Requests -> {"none", "sponsor", "finalize", "submit", "patch", "wait"}]
      /\ attempts \in [Requests -> Nat] /\ capacity \in Nat /\ faults \in 0..MaxFaults
      /\ pool \subseteq Requests /\ refused \subseteq Requests
  BY DEF Inv, Types, RowType, ProcType, ChainType
<1>5. job'[r] = to /\ row'[r] = row[r] /\ row[r] \in {"new"} \cup Queued \cup Ended
  BY <1>1, <1>4
<1>6. Potential(r)' => Potential(r)
  BY <1>1, <1>2, <1>3, <1>5 DEF Potential, Live, Known
<1>7. JobOK(r)'
  <2>1. Potential(r)' => spend[r] \in Spends
    BY <1>3, <1>6 DEF JobOK
  <2> QED
    BY <1>1, <1>2, <1>3, <1>5, <2>1 DEF JobOK
<1>8. VerdictOK(r)'
  BY <1>1, <1>3, <1>5 DEF VerdictOK
<1> QED
  BY <1>1, <1>2, <1>3, <1>4, <1>5, <1>6, <1>7, <1>8, OneRequest

(* claimNext gives the row to a task.                                      *)
LEMMA ClaimStep ==
  ASSUME Inv, NEW r \in Requests, Claim(r)
  PROVE  Inv'
<1>1. /\ row \in [Requests -> {"new"} \cup Queued \cup Ended] /\ ident \subseteq {q \in Requests : row[q] \in Persisted}
      /\ job \in [Requests -> {"none", "sponsor", "finalize", "submit", "patch", "wait"}]
      /\ attempts \in [Requests -> Nat] /\ capacity \in Nat /\ faults \in 0..MaxFaults
      /\ pool \subseteq Requests /\ refused \subseteq Requests
  BY DEF Inv, Types, RowType, ProcType, ChainType
<1>2. /\ Stays /\ proc = "ready" /\ row[r] = "RESERVED" /\ row' = [row EXCEPT ![r] = "SPONSORING"]
      /\ job' = [job EXCEPT ![r] = "sponsor"] /\ spend' = spend /\ pool' = pool /\ refused' = refused
      /\ ident' = ident /\ faults' = faults /\ applied' = applied /\ life' = life
      /\ attempts' = [attempts EXCEPT ![r] = @ + 1]
      /\ capacity > 0 /\ (capacity' = capacity - 1 \/ capacity' = 0)
  BY DEF Claim, Runs, SetRow, SetJob, Stays, sdkVars, chainVars
<1>3. capacity' \in Nat /\ attempts' \in [Requests -> Nat]
  BY <1>1, <1>2
<1>4. row'[r] = "SPONSORING" /\ job'[r] = "sponsor" /\ row'[r] \in Queued /\ r \notin ident
  BY <1>1, <1>2 DEF Queued, Persisted
<1>5. JobOK(r) /\ VerdictOK(r) /\ ~Known(r)
  BY <1>2 DEF Inv, JobsOK, VerdictsOK, JobOK, Persisted
<1>6. ~Known(r)'
  BY <1>2, <1>5 DEF Known
<1>7. ~Potential(r)'
  BY <1>4, <1>6 DEF Potential, Live
<1>8. JobOK(r)' /\ VerdictOK(r)'
  BY <1>2, <1>4, <1>5, <1>6, <1>7 DEF JobOK, VerdictOK
<1> QED
  BY <1>1, <1>2, <1>3, <1>4, <1>7, <1>8, OneRequest

(* A balancing that did not work out is forgotten.                         *)
LEMMA GiveUpStep ==
  ASSUME Inv, NEW r \in Requests, SponsorRetry(r) \/ NotWellFormed(r) \/ SponsorFails(r)
  PROVE  Inv'
<1>1. \E s \in {"RESERVED", "SPONSORING_FAILED"}, pc \in {"sponsor", "finalize"} : At(r, pc) /\ GiveUp(r, s)
  BY DEF SponsorRetry, NotWellFormed, SponsorFails
<1>2. PICK s \in {"RESERVED", "SPONSORING_FAILED"}, pc \in {"sponsor", "finalize"} : At(r, pc) /\ GiveUp(r, s)
  BY <1>1
<1>3. JobOK(r) /\ VerdictOK(r) /\ r \notin refused /\ row[r] = "SPONSORING" /\ ~Known(r) /\ r \notin ident /\ applied[r] = 0
  BY <1>2, AtJob
<1>4. /\ row \in [Requests -> {"new"} \cup Queued \cup Ended] /\ ident \subseteq {q \in Requests : row[q] \in Persisted}
      /\ job \in [Requests -> {"none", "sponsor", "finalize", "submit", "patch", "wait"}]
      /\ attempts \in [Requests -> Nat] /\ capacity \in Nat /\ faults \in 0..MaxFaults /\ life \in Nat
      /\ pool \subseteq Requests /\ refused \subseteq Requests /\ spend \in [Requests -> Spends \cup {NoSpend}]
  BY DEF Inv, Types, RowType, ProcType, ChainType, CoinType
<1>5. /\ Stays /\ row' = [row EXCEPT ![r] = s] /\ job' = [job EXCEPT ![r] = "none"]
      /\ spend' = [spend EXCEPT ![r] = NoSpend] /\ pool' = pool /\ refused' = refused /\ capacity' = capacity
      /\ ident' = ident /\ faults' = faults /\ applied' = applied /\ life' = life /\ attempts' = attempts
  BY <1>2 DEF GiveUp, SetRow, SetJob, Stays, procVars, chainVars
<1>6. row'[r] = s /\ job'[r] = "none" /\ spend'[r] = NoSpend /\ s \in Queued \cup Ended
  BY <1>4, <1>5 DEF Queued, Ended
<1>7. ~Known(r)'
  BY <1>3, <1>5 DEF Known
<1>8. ~Potential(r)'
  BY <1>6, <1>7 DEF Potential, Live
<1>9. JobOK(r)' /\ VerdictOK(r)'
  BY <1>3, <1>4, <1>5, <1>6, <1>7, <1>8 DEF JobOK, VerdictOK, NoSpend
<1> QED
  BY <1>3, <1>4, <1>5, <1>6, <1>8, <1>9, OneRequest

(* The merged transaction passed its checks: nothing but a fee was added.  *)
LEMMA FinalizeStep ==
  ASSUME Inv, NEW r \in Requests, NEW x \in Recipes, Finalize(r, x)
  PROVE  Inv'
<1>1. JobOK(r) /\ VerdictOK(r) /\ r \notin refused /\ row[r] = "SPONSORING" /\ ~Known(r) /\ r \notin ident
      /\ proc = "ready" /\ job[r] = "finalize" /\ applied[r] = 0
  BY AtJob DEF Finalize
<1>2. x = Clean
  <2>1. x.spends = 1 /\ x.actions = FALSE /\ x.offers = FALSE
    BY DEF Finalize, BalancingIsDustOnly, SponsorOnlyPaidFees, Recipes
  <2> QED
    BY <2>1 DEF Recipes, Clean
<1>3. /\ row \in [Requests -> {"new"} \cup Queued \cup Ended] /\ ident \subseteq {q \in Requests : row[q] \in Persisted}
      /\ job \in [Requests -> {"none", "sponsor", "finalize", "submit", "patch", "wait"}]
      /\ attempts \in [Requests -> Nat] /\ capacity \in Nat /\ faults \in 0..MaxFaults
      /\ pool \subseteq Requests /\ refused \subseteq Requests /\ recipe = [q \in Requests |-> Clean]
  BY DEF Inv, Types, RowType, ProcType, ChainType, AllClean
<1>4. recipe' = recipe
  BY <1>2, <1>3 DEF Finalize
<1>5. /\ Stays /\ row' = [row EXCEPT ![r] = "SUBMITTED"] /\ job' = [job EXCEPT ![r] = "submit"]
      /\ spend' = spend /\ pool' = pool /\ refused' = refused /\ capacity' = capacity
      /\ ident' = ident /\ faults' = faults /\ applied' = applied /\ life' = life /\ attempts' = attempts
  BY <1>4 DEF Finalize, SetRow, SetJob, Stays, procVars, chainVars
<1>6. row'[r] = "SUBMITTED" /\ job'[r] = "submit" /\ "SUBMITTED" \in Queued
  BY <1>3, <1>5 DEF Queued
<1>7. Potential(r)
  BY <1>1 DEF Potential
<1>8. JobOK(r)' /\ VerdictOK(r)'
  BY <1>1, <1>5, <1>6, <1>7 DEF JobOK, VerdictOK, Persisted
<1> QED
  BY <1>1, <1>3, <1>5, <1>6, <1>7, <1>8, OneRequest
-----------------------------------------------------------------------------
(* The locks, the wallet's view and the process.                           *)

(* A step that leaves the requests and the chain as they are.              *)
LEMMA Quiet ==
  ASSUME Inv, UNCHANGED <<life, row, attempts, ident, job, spend, recipe, version, pool, applied, refused>>,
         aged' \subseteq Requests, ProcType', SessionsOK', CoinType', LocksOK',
         \A r \in Requests : job[r] # "none" => proc' = "ready"
  PROVE  Inv'
<1>1. Types'
  BY DEF Inv, Types, RowType, ChainType
<1>2. \A r \in Requests : /\ (Known(r)' <=> Known(r)) /\ (Live(r)' <=> Live(r))
                          /\ (Potential(r)' <=> Potential(r))
  BY DEF Known, Live, Potential
<1>3. JobsOK' /\ VerdictsOK'
  BY <1>2 DEF Inv, JobsOK, JobOK, VerdictsOK, VerdictOK
<1>4. AllClean' /\ SpentOK'
  BY DEF Inv, AllClean, SpentOK
<1>5. PairsOK'
  BY <1>2 DEF Inv, PairsOK, SameCoin, Undrained
<1> QED
  BY <1>1, <1>3, <1>4, <1>5 DEF Inv

(* A step of the process, of the api or of the clock.                      *)
LEMMA ProcessOnly ==
  ASSUME Inv, UNCHANGED <<life, row, attempts, ident, job, spend, recipe, lock, seen, version, pool, applied, refused>>,
         aged' \subseteq Requests, ProcType', SessionsOK',
         proc' = proc \/ (proc # "ready" /\ proc' # "ready")
  PROVE  Inv'
<1>1. CoinType'
  BY DEF Inv, Types, CoinType
<1>2. LocksOK'
  <2>1. \A r \in Requests : (Potential(r)' <=> Potential(r))
    BY DEF Known, Live, Potential
  <2> QED
    BY <2>1 DEF Inv, LocksOK, LockOK
<1>3. \A r \in Requests : job[r] # "none" => proc' = "ready"
  BY DEF Inv, Types, RowType
<1> QED
  BY <1>1, <1>2, <1>3, Quiet

(* What the starters do to the schema, and what they know of it.           *)
LEMMA MigrationSteps ==
  ASSUME Inv, NEW s \in Starters, Lock(s) \/ ApplyFile(s) \/ Unlock(s) \/ FileFails(s)
  PROVE  MigrationsType' /\ SessionsOK'
<1>1. /\ schema \in Seq(1..Files) /\ schema = [i \in 1..Len(schema) |-> i] /\ Len(schema) <= Files
      /\ session \in [Starters -> [holds : BOOLEAN, done : 0..Files]]
      /\ \A a, b \in Starters : session[a].holds /\ session[b].holds => a = b
      /\ \A a \in Starters : session[a].holds => session[a].done = Len(schema)
      /\ Len(schema) \in Nat /\ Files \in Nat
  BY WalletAssumption DEF Inv, Types, ProcType, MigrationsType, SessionsOK
<1>2. CASE Lock(s)
  <2>1. [holds |-> TRUE, done |-> Len(schema)] \in [holds : BOOLEAN, done : 0..Files]
    BY <1>1
  <2>2. session' = [session EXCEPT ![s] = [holds |-> TRUE, done |-> Len(schema)]] /\ schema' = schema
        /\ \A t \in Starters : ~session[t].holds
    BY <1>2 DEF Lock
  <2>3. session'[s] = [holds |-> TRUE, done |-> Len(schema)] /\ \A t \in Starters \ {s} : session'[t] = session[t]
    BY <1>1, <2>2
  <2>4. session' \in [Starters -> [holds : BOOLEAN, done : 0..Files]]
    BY <1>1, <2>1, <2>2
  <2> QED
    BY <1>1, <2>2, <2>3, <2>4 DEF MigrationsType, SessionsOK
<1>3. CASE ApplyFile(s)
  <2>1. session[s].holds /\ session[s].done = Len(schema) /\ Len(schema) < Files /\ Len(schema) + 1 \in 1..Files
    BY <1>1, <1>3 DEF ApplyFile
  <2>2. schema' = Append(schema, Len(schema) + 1) /\ session' = [session EXCEPT ![s].done = Len(schema) + 1]
    BY <1>1, <1>3, <2>1 DEF ApplyFile
  <2>3. schema' \in Seq(1..Files) /\ Len(schema') = Len(schema) + 1
    BY <1>1, <2>1, <2>2
  <2>4. schema' = [i \in 1..Len(schema') |-> i]
    BY <1>1, <2>2, <2>3
  <2>5. /\ session'[s].holds = session[s].holds /\ session'[s].done = Len(schema) + 1
        /\ \A t \in Starters \ {s} : session'[t] = session[t]
        /\ session' \in [Starters -> [holds : BOOLEAN, done : 0..Files]]
    <3>1. session[s] \in [holds : BOOLEAN, done : 0..Files] /\ Len(schema) + 1 \in 0..Files
      BY <1>1, <2>1
    <3>2. [session[s] EXCEPT !.done = Len(schema) + 1] \in [holds : BOOLEAN, done : 0..Files]
      BY <3>1
    <3>3. session' = [session EXCEPT ![s] = [session[s] EXCEPT !.done = Len(schema) + 1]]
      BY <2>2
    <3>4. session'[s] = [session[s] EXCEPT !.done = Len(schema) + 1] /\ \A t \in Starters \ {s} : session'[t] = session[t]
      BY <1>1, <3>3
    <3>5. session' \in [Starters -> [holds : BOOLEAN, done : 0..Files]]
      BY <1>1, <3>2, <3>3
    <3> QED
      BY <3>1, <3>4, <3>5
  <2>6. \A t \in Starters : session'[t].holds => t = s
    BY <1>1, <2>1, <2>5
  <2> QED
    BY <1>1, <2>1, <2>3, <2>4, <2>5, <2>6 DEF MigrationsType, SessionsOK
<1>4. CASE Unlock(s) \/ FileFails(s)
  <2>1. session' = [session EXCEPT ![s] = Out] /\ schema' = schema
    BY <1>4 DEF Unlock, FileFails, Release
  <2>2. Out \in [holds : BOOLEAN, done : 0..Files] /\ ~Out.holds
    BY <1>1 DEF Out
  <2>3. session'[s] = Out /\ \A t \in Starters \ {s} : session'[t] = session[t]
    BY <1>1, <2>1
  <2>4. session' \in [Starters -> [holds : BOOLEAN, done : 0..Files]]
    BY <1>1, <2>1, <2>2
  <2> QED
    BY <1>1, <2>1, <2>2, <2>3, <2>4 DEF MigrationsType, SessionsOK
<1> QED
  BY <1>2, <1>3, <1>4

(* The start of the process and of the api, up to the wallet.              *)
LEMMA StartUp ==
  ASSUME Inv, Boot \/ Connected \/ Migrate \/ MigrateApi
  PROVE  Inv'
<1>1. /\ api \in {"migrating", "up"} /\ MigrationsType /\ SessionsOK
      /\ proc \in Phases /\ frozen \in BOOLEAN /\ life \in Nat /\ capacity \in Nat /\ faults \in 0..MaxFaults
      /\ aged \subseteq Requests
  BY DEF Inv, Types, ProcType, ChainType
<1>2. /\ UNCHANGED <<life, row, attempts, ident, job, spend, recipe, lock, seen, version, pool, applied, refused, aged, frozen, capacity>>
      /\ proc' = proc \/ (proc # "ready" /\ proc' # "ready")
      /\ proc' \in Phases /\ api' \in {"migrating", "up"}
  BY <1>1 DEF Boot, Connected, Migrate, MigrateApi, startVars, rowVars, sdkVars, chainVars, Phases
<1>3. faults' \in 0..MaxFaults
  BY <1>1, WalletAssumption DEF Boot, Connected, Migrate, MigrateApi
<1>4. MigrationsType' /\ SessionsOK'
  <2>1. CASE Boot \/ Connected
    BY <1>1, <2>1 DEF Boot, Connected, startVars, MigrationsType, SessionsOK
  <2>2. CASE Migrate \/ MigrateApi
    BY <2>2, MigrationSteps, WalletAssumption DEF Migrate, MigrateApi
  <2> QED
    BY <2>1, <2>2
<1>5. ProcType'
  BY <1>1, <1>2, <1>3, <1>4 DEF ProcType
<1> QED
  BY <1>1, <1>2, <1>4, <1>5, ProcessOnly

(* A tick that reads the capacity, a freeze, the clock.                    *)
LEMMA ClockStep ==
  ASSUME Inv, \/ Tick
              \/ \E r \in Requests : Freeze(r) \/ GrowOld(r)
  PROVE  Inv'
<1>1. /\ api \in {"migrating", "up"} /\ MigrationsType /\ SessionsOK
      /\ proc \in Phases /\ frozen \in BOOLEAN /\ life \in Nat /\ capacity \in Nat /\ faults \in 0..MaxFaults
      /\ aged \subseteq Requests
  BY DEF Inv, Types, ProcType, ChainType
<1>2. /\ UNCHANGED <<life, row, attempts, ident, job, spend, recipe, lock, seen, version, pool, applied, refused>>
      /\ UNCHANGED <<api, schema, session, proc>> /\ aged' \subseteq Requests
  BY <1>1 DEF Tick, Freeze, GrowOld, startVars, procVars, rowVars, sdkVars, chainVars
<1>3. capacity' \in Nat
  <2>1. CASE Tick
    <3>1. PICK n \in 1..MaxInFlight : capacity' = n
      BY <2>1 DEF Tick
    <3>2. MaxInFlight \in Nat
      BY WalletAssumption, FS_Subset, FS_CardinalityType DEF MaxInFlight, Free
    <3> QED
      BY <3>1, <3>2
  <2>2. CASE ~Tick
    BY <1>1, <2>2 DEF Freeze, GrowOld, procVars
  <2> QED
    BY <2>1, <2>2
<1>4. frozen' \in BOOLEAN
  <2>1. frozen' = frozen \/ frozen' = TRUE
    BY DEF Tick, Freeze, GrowOld, procVars
  <2> QED
    BY <1>1, <2>1, Zenon
<1>5. faults' \in 0..MaxFaults
  BY <1>1, WalletAssumption DEF Tick, Freeze, GrowOld
<1>6. ProcType' /\ SessionsOK'
  BY <1>1, <1>2, <1>3, <1>4, <1>5 DEF ProcType, MigrationsType, SessionsOK
<1> QED
  BY <1>2, <1>6, ProcessOnly

(* A wallet that has seen nothing and locked nothing.                      *)
LEMMA BuildStep ==
  ASSUME Inv, Build
  PROVE  Inv'
<1>1. /\ UNCHANGED <<life, row, attempts, ident, job, spend, recipe, version, pool, applied, refused, aged>>
      /\ UNCHANGED <<api, schema, session, frozen, capacity, faults>>
      /\ proc = "building" /\ proc' = "syncing"
      /\ lock' = [c \in Coins |-> Nobody] /\ seen' = [c \in Coins |-> 0]
  BY DEF Build, startVars, rowVars, chainVars
<1>2. ProcType' /\ SessionsOK' /\ aged' \subseteq Requests
  <2>1. proc' \in Phases
    BY <1>1 DEF Phases
  <2> QED
    BY <1>1, <2>1 DEF Inv, Types, ProcType, MigrationsType, SessionsOK, ChainType
<1>3. CoinType'
  <2>1. \A c \in Coins : seen'[c] <= version'[c]
    BY <1>1 DEF Inv, Types, CoinType
  <2> QED
    BY <1>1, <2>1 DEF Inv, Types, CoinType
<1>4. LocksOK' /\ \A r \in Requests : job[r] # "none" => proc' = "ready"
  BY <1>1 DEF LocksOK, Inv, Types, RowType
<1> QED
  BY <1>1, <1>2, <1>3, <1>4, Quiet

(* Whatever may still be included has spent a coin.                        *)
LEMMA OwnCoin ==
  ASSUME Inv, NEW r \in Requests, Potential(r)
  PROVE  /\ spend[r].coin \in Coins /\ spend[r].version \in Nat /\ spend[r].life \in Nat
         /\ spend[r].life <= life
  BY DEF Inv, JobsOK, JobOK, Spends

(* What the wallet sees, and the locks it gives back.                      *)
LEMMA WalletStep ==
  ASSUME Inv, NEW c \in Coins, See(c) \/ Revert(c)
  PROVE  Inv'
<1>1. /\ UNCHANGED <<life, row, attempts, ident, job, spend, recipe, version, pool, applied, refused, aged>>
      /\ UNCHANGED <<api, schema, session, proc, frozen, capacity, faults>>
      /\ lock' = [lock EXCEPT ![c] = Nobody]
  BY DEF See, Revert, procVars, startVars, rowVars, chainVars
<1>2. ProcType' /\ SessionsOK' /\ aged' \subseteq Requests
  BY <1>1 DEF Inv, Types, ProcType, MigrationsType, SessionsOK, ChainType
<1>3. /\ lock \in [Coins -> Requests \cup {Nobody}] /\ seen \in [Coins -> Nat] /\ version \in [Coins -> Nat]
      /\ \A d \in Coins : seen[d] <= version[d]
      /\ spend \in [Requests -> Spends \cup {NoSpend}] /\ applied \in [Requests -> Nat] /\ life \in Nat
      /\ Nobody \notin Requests
  BY WalletAssumption DEF Inv, Types, CoinType, ChainType, ProcType
<1>4. \/ See(c) /\ seen[c] < version[c] /\ seen' = [seen EXCEPT ![c] = @ + 1]
      \/ Revert(c) /\ lock[c] # Nobody /\ ~Holds(lock[c], c) /\ seen' = seen
  BY DEF See, Revert
<1>5. /\ seen' \in [Coins -> Nat] /\ \A d \in Coins : seen'[d] <= version'[d]
      /\ \A d \in Coins \ {c} : seen'[d] = seen[d] /\ lock'[d] = lock[d]
      /\ seen'[c] = seen[c] \/ (seen'[c] = seen[c] + 1 /\ See(c))
  BY <1>1, <1>3, <1>4
<1>6. CoinType'
  BY <1>1, <1>3, <1>5 DEF Inv, Types, CoinType
<1>7. LocksOK'
  <2>0. proc = "ready" => life > 0
    BY DEF Inv, LocksOK
  <2> SUFFICES ASSUME proc = "ready", NEW r \in Requests PROVE LockOK(r)'
    BY <1>1, <2>0 DEF LocksOK
  <2>1. life > 0 /\ LockOK(r) /\ JobOK(r)
    BY <2>0 DEF Inv, LocksOK, JobsOK
  <2>2. Potential(r)' <=> Potential(r)
    BY <1>1 DEF Known, Live, Potential
  <2>3. CASE spend[r] = NoSpend /\ NoSpend \notin Spends
    <3>1. spend[r].life = 0 /\ ~Potential(r)
      BY <2>1, <2>3 DEF NoSpend, JobOK
    <3>2. applied[r] = 0
      BY <3>1 DEF Potential, Live, Known
    <3> QED
      BY <1>1, <1>3, <2>1, <3>1, <3>2 DEF LockOK
  <2>4. CASE spend[r] \in Spends
    <3> DEFINE d == spend[r].coin
    <3>1. d \in Coins /\ spend[r].version \in Nat /\ spend[r].life \in Nat
      BY <2>4 DEF Spends
    <3>2. CASE d # c
      BY <1>1, <1>5, <2>1, <2>2, <3>1, <3>2 DEF LockOK
    <3>3. CASE d = c /\ See(c)
      <4>1. seen'[c] = seen[c] + 1 /\ seen[c] \in Nat
        BY <1>3, <3>3 DEF See
      <4>2. spend[r].life = life => spend[r].version <= seen[c] /\ spend[r].version # seen'[c]
        <5> SUFFICES ASSUME spend[r].life = life PROVE spend[r].version <= seen[c] /\ spend[r].version # seen'[c]
          OBVIOUS
        <5>1. spend[r].version <= seen[c]
          BY <2>1, <3>3 DEF LockOK
        <5> QED
          BY <3>1, <4>1, <5>1
      <4>3. applied[r] \in 1..life => spend[r].version < seen'[c]
        BY <2>1, <3>1, <3>3, <4>1 DEF LockOK
      <4>4. spend[r].life = life => spend[r].version <= seen'[c]
        BY <3>1, <4>1, <4>2
      <4> QED
        BY <1>1, <3>3, <4>2, <4>3, <4>4 DEF LockOK
    <3>4. CASE d = c /\ ~See(c)
      <4>1. seen' = seen /\ ~Holds(lock[c], c)
        BY <1>4, <3>4
      <4>2. ~(Potential(r) /\ spend[r].life = life /\ spend[r].version = seen[c])
        <5> SUFFICES ASSUME Potential(r), spend[r].life = life, spend[r].version = seen[c] PROVE FALSE
          OBVIOUS
        <5>1. lock[c] = r
          BY <2>1, <3>4 DEF LockOK
        <5>2. job[r] # "finalize" /\ ~Live(r)
          BY <3>4, <4>1, <5>1 DEF Holds
        <5>3. job[r] = "submit"
          BY <5>2 DEF Potential
        <5>4. row[r] = "SUBMITTED"
          BY <2>1, <5>3 DEF JobOK
        <5> QED
          BY <5>2, <5>4 DEF Live
      <4> QED
        BY <1>1, <2>1, <2>2, <3>4, <4>1, <4>2 DEF LockOK
    <3> QED
      BY <3>2, <3>3, <3>4
  <2> QED
    BY <1>3, <2>1, <2>3, <2>4
<1>8. \A r \in Requests : job[r] # "none" => proc' = "ready"
  BY <1>1 DEF Inv, Types, RowType
<1> QED
  BY <1>1, <1>2, <1>6, <1>7, <1>8, Quiet

(* The process is gone, with its tasks and its locks.                      *)
LEMMA DownStep ==
  ASSUME Inv, Crash \/ Kill
  PROVE  Inv'
<1>1. /\ proc' = "down" /\ frozen' = FALSE /\ capacity' = 0
      /\ job' = [r \in Requests |-> "none"] /\ lock' = [c \in Coins |-> Nobody]
      /\ session' = [session EXCEPT !["worker"] = Out]
      /\ UNCHANGED <<api, schema, life, row, attempts, ident, spend, recipe, seen, version, pool, applied, aged, refused>>
      /\ faults' = faults \/ (faults < MaxFaults /\ faults' = faults + 1)
  BY DEF Crash, Kill, Down, Release, rowVars, chainVars
<1>2. /\ api \in {"migrating", "up"} /\ MigrationsType /\ SessionsOK /\ life \in Nat /\ faults \in 0..MaxFaults /\ MaxFaults \in Nat
      /\ Files \in Nat /\ Starters = {"api", "worker"}
  BY WalletAssumption DEF Inv, Types, ProcType
<1>3. MigrationsType' /\ SessionsOK'
  <2>1. Out \in [holds : BOOLEAN, done : 0..Files] /\ ~Out.holds
    BY <1>2 DEF Out
  <2>2. session \in [Starters -> [holds : BOOLEAN, done : 0..Files]]
    BY <1>2 DEF MigrationsType
  <2>3. session'["worker"] = Out /\ \A t \in Starters \ {"worker"} : session'[t] = session[t]
    BY <1>1, <1>2, <2>2
  <2>4. session' \in [Starters -> [holds : BOOLEAN, done : 0..Files]]
    BY <1>1, <2>1, <2>2
  <2> QED
    BY <1>1, <1>2, <2>1, <2>3, <2>4 DEF MigrationsType, SessionsOK
<1>4. ProcType'
  <2>1. frozen' \in BOOLEAN
    BY <1>1, Zenon
  <2>2. proc' \in Phases /\ capacity' \in Nat /\ faults' \in 0..MaxFaults
    BY <1>1, <1>2 DEF Phases
  <2> QED
    BY <1>1, <1>2, <1>3, <2>1, <2>2 DEF ProcType
<1>5. Types'
  <2>1. RowType'
    BY <1>1 DEF Inv, Types, RowType
  <2>2. CoinType'
    BY <1>1 DEF Inv, Types, CoinType
  <2>3. ChainType'
    BY <1>1 DEF Inv, Types, ChainType
  <2> QED
    BY <1>4, <2>1, <2>2, <2>3 DEF Types
<1>6. \A r \in Requests : /\ job'[r] = "none" /\ (Known(r)' <=> Known(r)) /\ (Live(r)' <=> Live(r))
                          /\ (Potential(r)' => Potential(r))
  BY <1>1 DEF Known, Live, Potential
<1>7. JobsOK' /\ VerdictsOK'
  BY <1>1, <1>6 DEF Inv, JobsOK, JobOK, VerdictsOK, VerdictOK
<1>8. AllClean' /\ SpentOK' /\ LocksOK'
  BY <1>1 DEF Inv, AllClean, SpentOK, LocksOK
<1>9. PairsOK'
  BY <1>1, <1>6 DEF Inv, PairsOK, SameCoin, Undrained
<1> QED
  BY <1>3, <1>5, <1>7, <1>8, <1>9 DEF Inv

(* A wallet that has seen the whole chain; recover() sorts the rows.       *)
LEMMA StartStep ==
  ASSUME Inv, Start
  PROVE  Inv'
<1>1. /\ proc = "syncing" /\ proc' = "ready" /\ life' = life + 1 /\ row' = Recovered(row) /\ job' = Resumed
      /\ UNCHANGED <<api, schema, session, frozen, capacity, attempts, ident, spend, recipe, lock, seen>>
      /\ UNCHANGED <<version, pool, applied, aged, refused, faults>>
      /\ \A c \in Coins : seen[c] = version[c]
  BY DEF Start, Runs, Synced, Ready, startVars, sdkVars, chainVars
<1>2. /\ row \in [Requests -> {"new"} \cup Queued \cup Ended] /\ ident \subseteq {q \in Requests : row[q] \in Persisted}
      /\ \A q \in Requests : job[q] = "none"
      /\ life \in Nat /\ applied \in [Requests -> Nat] /\ version \in [Coins -> Nat]
  BY <1>1 DEF Inv, Types, RowType, ProcType, ChainType, CoinType
<1>3. \A r \in Requests :
        /\ row'[r] \in {"new"} \cup Queued \cup Ended
        /\ row[r] \in Persisted => row'[r] \in Persisted
        /\ row[r] \in Ended => row'[r] = row[r]
        /\ row'[r] \in {"CONFIRMED", "TIMEOUT", "SUBMITTED"} => row'[r] = row[r]
        /\ job'[r] \in {"none", "wait", "submit"}
        /\ job'[r] # "none" => row[r] \in {"SUBMITTED", "TIMEOUT"}
  <2> TAKE r \in Requests
  <2>1. row'[r] = IF row[r] = "SPONSORING" THEN "RESERVED"
                  ELSE IF row[r] \in {"SUBMITTED", "TIMEOUT"} /\ r \in aged THEN "EXPIRED" ELSE row[r]
    BY <1>1 DEF Recovered
  <2>2. job'[r] = IF row[r] \in {"SUBMITTED", "TIMEOUT"} /\ r \notin aged
                  THEN (IF r \in ident THEN "wait" ELSE "submit") ELSE "none"
    BY <1>1 DEF Resumed
  <2>3. row[r] \in {"new"} \cup Queued \cup Ended
    BY <1>2
  <2> QED
    BY <2>1, <2>2, <2>3 DEF Queued, Ended, Persisted
<1>4. \A r \in Requests : /\ (Known(r)' <=> Known(r)) /\ (Potential(r)' => Potential(r))
  BY <1>1, <1>3 DEF Known, Live, Potential
<1>5. Types'
  <2>1. proc' \in Phases /\ life' \in Nat
    BY <1>1, <1>2 DEF Phases
  <2>2. ProcType'
    BY <1>1, <2>1 DEF Inv, Types, ProcType, MigrationsType
  <2>3. RowType'
    <3>1. row' \in [Requests -> {"new"} \cup Queued \cup Ended]
      BY <1>1, <1>3 DEF Recovered
    <3>2. job' \in [Requests -> {"none", "sponsor", "finalize", "submit", "patch", "wait"}]
      BY <1>1 DEF Resumed
    <3>3. ident' \subseteq {r \in Requests : row'[r] \in Persisted}
      BY <1>1, <1>2, <1>3
    <3> QED
      BY <1>1, <3>1, <3>2, <3>3 DEF Inv, Types, RowType
  <2>4. CoinType' /\ ChainType'
    BY <1>1 DEF Inv, Types, CoinType, ChainType
  <2> QED
    BY <2>2, <2>3, <2>4 DEF Types
<1>6. SessionsOK' /\ AllClean' /\ SpentOK'
  BY <1>1 DEF Inv, SessionsOK, AllClean, SpentOK
<1>7. JobsOK'
  <2> SUFFICES ASSUME NEW r \in Requests PROVE JobOK(r)'
    BY DEF JobsOK
  <2>1. JobOK(r)
    BY DEF Inv, JobsOK
  <2>2. spend[r].life <= life /\ (spend[r] \in Spends \/ spend[r] = NoSpend)
    BY <2>1 DEF JobOK, Inv, Types, CoinType
  <2>3. spend[r].life \in Nat
    BY <2>2 DEF Spends, NoSpend
  <2>4. spend'[r].life <= life' /\ spend'[r].life # life'
    BY <1>1, <1>2, <2>2, <2>3
  <2>5. job'[r] # "none" => row'[r] \in Persisted
    BY <1>3 DEF Persisted
  <2> QED
    BY <1>1, <1>3, <1>4, <2>1, <2>4, <2>5 DEF JobOK
<1>8. VerdictsOK'
  <2> SUFFICES ASSUME NEW r \in Requests PROVE VerdictOK(r)'
    BY DEF VerdictsOK
  <2>1. VerdictOK(r)
    BY DEF Inv, VerdictsOK
  <2>2. row'[r] = "CONFIRMED" => applied'[r] # 0
    BY <1>1, <1>3, <2>1 DEF VerdictOK
  <2>3. r \in refused' => job'[r] = "none" /\ row'[r] \in {"SUBMISSION_FAILED", "EXPIRED"} /\ ~Known(r)'
    BY <1>1, <1>3, <1>4, <2>1 DEF VerdictOK, Ended
  <2> QED
    BY <2>2, <2>3 DEF VerdictOK
<1>9. LocksOK'
  <2> SUFFICES ASSUME NEW r \in Requests PROVE LockOK(r)'
    BY <1>1, <1>2 DEF LocksOK
  <2>1. spend[r].life <= life /\ (spend[r] \in Spends \/ spend[r] = NoSpend)
    BY DEF Inv, JobsOK, JobOK, Types, CoinType
  <2>2. spend[r].life # life + 1
    BY <1>2, <2>1 DEF Spends, NoSpend
  <2>3. applied[r] # 0 => spend[r].version < seen[spend[r].coin]
    <3> SUFFICES ASSUME applied[r] # 0 PROVE spend[r].version < seen[spend[r].coin]
      OBVIOUS
    <3>1. spend[r].coin \in Coins
      BY OwnCoin DEF Potential, Live, Known
    <3> QED
      BY <1>1, <3>1 DEF Inv, SpentOK
  <2> QED
    BY <1>1, <1>2, <2>2, <2>3 DEF LockOK
<1>10. PairsOK'
  BY <1>1, <1>4 DEF Inv, PairsOK, SameCoin, Undrained
<1> QED
  BY <1>5, <1>6, <1>7, <1>8, <1>9, <1>10 DEF Inv
-----------------------------------------------------------------------------
(* The chain, and the operator's own wallet.                               *)

(* The node forgets a transaction.                                         *)
LEMMA DropStep ==
  ASSUME Inv, NEW r \in Requests, Drop(r)
  PROVE  Inv'
<1>1. /\ UNCHANGED <<life, row, attempts, ident, job, spend, recipe, lock, seen, version, applied, aged, refused>>
      /\ UNCHANGED <<api, schema, session, proc, frozen, capacity, faults>>
      /\ pool' = pool \ {r}
  BY DEF Drop, OffChain, procVars, startVars, rowVars, sdkVars
<1>2. Types'
  <2>1. ProcType'
    BY <1>1 DEF Inv, Types, ProcType, MigrationsType
  <2>2. RowType' /\ CoinType' /\ ChainType'
    BY <1>1 DEF Inv, Types, RowType, CoinType, ChainType
  <2> QED
    BY <2>1, <2>2 DEF Types
<1>3. \A q \in Requests : (Known(q)' => Known(q)) /\ (Potential(q)' => Potential(q))
  BY <1>1 DEF Known, Live, Potential
<1>4. JobsOK' /\ VerdictsOK'
  BY <1>1, <1>3 DEF Inv, JobsOK, JobOK, VerdictsOK, VerdictOK
<1>5. SessionsOK' /\ AllClean' /\ SpentOK'
  BY <1>1 DEF Inv, SessionsOK, AllClean, SpentOK
<1>6. LocksOK'
  BY <1>1, <1>3 DEF Inv, LocksOK, LockOK
<1>7. PairsOK'
  BY <1>1, <1>3 DEF Inv, PairsOK, SameCoin, Undrained
<1> QED
  BY <1>2, <1>4, <1>5, <1>6, <1>7 DEF Inv

(* The operator's command line moves coins on.                             *)
LEMMA OperatorStep ==
  ASSUME Inv, Operator
  PROVE  Inv'
<1>1. /\ UNCHANGED <<life, row, attempts, ident, job, spend, recipe, lock, seen, pool, applied, aged, refused>>
      /\ UNCHANGED <<api, schema, session, proc, frozen, capacity>>
  BY DEF Operator, procVars, startVars, rowVars, sdkVars
<1>2. /\ version \in [Coins -> Nat] /\ seen \in [Coins -> Nat] /\ faults \in 0..MaxFaults /\ MaxFaults \in Nat
      /\ \A c \in Coins : seen[c] <= version[c]
  BY WalletAssumption DEF Inv, Types, CoinType, ProcType
<1>3. version' \in [Coins -> Nat] /\ (\A c \in Coins : version[c] <= version'[c]) /\ faults' \in 0..MaxFaults
  <2>1. CASE RegisterForDust
    BY <1>2, <2>1 DEF RegisterForDust
  <2>2. CASE \E c \in Coins : TransferNight(c)
    <3>1. PICK c \in Coins : TransferNight(c)
      BY <2>2
    <3> QED
      BY <1>2, <3>1 DEF TransferNight
  <2> QED
    BY <2>1, <2>2 DEF Operator
<1>4. Types'
  <2>1. ProcType'
    BY <1>1, <1>3 DEF Inv, Types, ProcType, MigrationsType
  <2>2. \A c \in Coins : seen'[c] <= version'[c]
    BY <1>1, <1>2, <1>3
  <2>3. RowType' /\ CoinType' /\ ChainType'
    BY <1>1, <1>3, <2>2 DEF Inv, Types, RowType, CoinType, ChainType
  <2> QED
    BY <2>1, <2>3 DEF Types
<1>5. \A q \in Requests : (Known(q)' <=> Known(q)) /\ (Potential(q)' <=> Potential(q))
  BY <1>1 DEF Known, Live, Potential
<1>6. JobsOK' /\ VerdictsOK' /\ SessionsOK' /\ AllClean'
  BY <1>1, <1>5 DEF Inv, JobsOK, JobOK, VerdictsOK, VerdictOK, SessionsOK, AllClean
<1>7. SpentOK'
  <2> SUFFICES ASSUME NEW q \in Requests, applied[q] # 0 PROVE spend[q].version < version'[spend[q].coin]
    BY <1>1 DEF SpentOK
  <2>1. spend[q].coin \in Coins /\ spend[q].version \in Nat
    BY OwnCoin DEF Potential, Live, Known
  <2>2. spend[q].version < version[spend[q].coin]
    BY DEF Inv, SpentOK
  <2> QED
    BY <1>2, <1>3, <2>1, <2>2
<1>8. LocksOK' /\ PairsOK'
  BY <1>1, <1>5 DEF Inv, LocksOK, LockOK, PairsOK, SameCoin, Undrained
<1> QED
  BY <1>4, <1>6, <1>7, <1>8 DEF Inv

(* A block: the coin the transaction names is spent.                       *)
LEMMA ApplyStep ==
  ASSUME Inv, NEW r \in Requests, Apply(r)
  PROVE  Inv'
<1>1. /\ UNCHANGED <<life, row, attempts, ident, job, spend, recipe, lock, seen, aged, refused>>
      /\ UNCHANGED <<api, schema, session, proc, frozen, capacity, faults>>
      /\ r \in pool /\ version[spend[r].coin] = spend[r].version /\ pool' = pool \ {r}
      /\ applied' = [applied EXCEPT ![r] = life + 1]
      /\ version' = [version EXCEPT ![spend[r].coin] = @ + 1]
  BY DEF Apply, Includable, procVars, startVars, rowVars, sdkVars
<1>2. /\ version \in [Coins -> Nat] /\ seen \in [Coins -> Nat] /\ applied \in [Requests -> Nat] /\ life \in Nat
      /\ pool \subseteq Requests
      /\ \A c \in Coins : seen[c] <= version[c]
  BY DEF Inv, Types, CoinType, ProcType, ChainType
<1>3. Potential(r) /\ Known(r)
  BY <1>1 DEF Potential, Live, Known
<1>4. spend[r].coin \in Coins /\ spend[r].version \in Nat /\ spend[r].life \in Nat /\ spend[r].life <= life
  BY <1>3, OwnCoin
<1>5. /\ version' \in [Coins -> Nat] /\ version'[spend[r].coin] = version[spend[r].coin] + 1
      /\ \A c \in Coins : version[c] <= version'[c]
      /\ applied' \in [Requests -> Nat] /\ applied'[r] = life + 1 /\ \A q \in Requests \ {r} : applied'[q] = applied[q]
  BY <1>1, <1>2, <1>4
<1>6. Types'
  <2>1. ProcType'
    BY <1>1 DEF Inv, Types, ProcType, MigrationsType
  <2>2. \A c \in Coins : seen'[c] <= version'[c]
    BY <1>1, <1>2, <1>5
  <2>3. RowType' /\ CoinType' /\ ChainType'
    BY <1>1, <1>5, <2>2 DEF Inv, Types, RowType, CoinType, ChainType
  <2> QED
    BY <2>1, <2>3 DEF Types
<1>7. \A q \in Requests : (Known(q)' <=> Known(q)) /\ (Potential(q)' <=> Potential(q))
  <2>1. \A q \in Requests : Known(q)' <=> Known(q)
    BY <1>1, <1>2, <1>3, <1>5 DEF Known
  <2> QED
    BY <1>1, <2>1 DEF Live, Potential
<1>8. JobsOK' /\ SessionsOK' /\ AllClean'
  BY <1>1, <1>7 DEF Inv, JobsOK, JobOK, SessionsOK, AllClean
<1>9. VerdictsOK'
  <2> SUFFICES ASSUME NEW q \in Requests PROVE VerdictOK(q)'
    BY DEF VerdictsOK
  <2>1. VerdictOK(q) /\ (applied[q] # 0 => applied'[q] # 0)
    BY <1>2, <1>5 DEF Inv, VerdictsOK
  <2> QED
    BY <1>1, <1>7, <2>1 DEF VerdictOK
<1>10. SpentOK'
  <2> SUFFICES ASSUME NEW q \in Requests, applied'[q] # 0 PROVE spend[q].version < version'[spend[q].coin]
    BY <1>1 DEF SpentOK
  <2>1. CASE q = r
    BY <1>1, <1>4, <1>5, <2>1
  <2>2. CASE q # r
    <3>1. applied[q] # 0
      BY <1>5, <2>2
    <3>2. spend[q].coin \in Coins /\ spend[q].version \in Nat
      BY <3>1, OwnCoin DEF Potential, Live, Known
    <3>3. spend[q].version < version[spend[q].coin]
      BY <3>1 DEF Inv, SpentOK
    <3> QED
      BY <1>2, <1>5, <3>2, <3>3
  <2> QED
    BY <2>1, <2>2
<1>11. LocksOK'
  <2>0. proc = "ready" => life > 0
    BY DEF Inv, LocksOK
  <2> SUFFICES ASSUME proc = "ready", NEW q \in Requests PROVE LockOK(q)'
    BY <1>1, <2>0 DEF LocksOK
  <2>1. LockOK(q)
    BY DEF Inv, LocksOK
  <2>2. applied'[q] \in 1..life => applied[q] \in 1..life
    BY <1>2, <1>5
  <2> QED
    BY <1>1, <1>7, <2>1, <2>2 DEF LockOK
<1>12. PairsOK'
  <2> SUFFICES ASSUME NEW s \in Requests, NEW t \in Requests, s # t,
                      Potential(s)', Potential(t)', SameCoin(s, t)'
               PROVE  Undrained(s, t)'
    BY DEF PairsOK
  <2>1. Potential(s) /\ Potential(t) /\ SameCoin(s, t)
    BY <1>1, <1>7 DEF SameCoin
  <2>2. Undrained(s, t) /\ spend[s].life \in Nat /\ spend[s].life <= life
    BY <2>1, OwnCoin DEF Inv, PairsOK
  <2>3. applied'[t] = applied[t] \/ applied'[t] > spend[s].life
    BY <1>2, <1>5, <2>2
  <2> QED
    BY <1>1, <2>2, <2>3 DEF Undrained
<1> QED
  BY <1>6, <1>8, <1>9, <1>10, <1>11, <1>12 DEF Inv
-----------------------------------------------------------------------------
(* Balancing: the one step that chooses a coin.                            *)

(* A coin that is free is held by no other transaction of this life.       *)
LEMMA FreeCoin ==
  ASSUME Inv, proc = "ready", NEW c \in Free, NEW t \in Requests, Potential(t),
         spend[t].coin = c, spend[t].version = seen[c]
  PROVE  spend[t].life < life /\ (applied[t] = 0 \/ applied[t] > life)
<1>1. c \in Coins /\ lock[c] = Nobody /\ Nobody \notin Requests
  BY WalletAssumption DEF Free
<1>2. LockOK(t) /\ spend[t].life \in Nat /\ spend[t].life <= life /\ life \in Nat /\ applied[t] \in Nat /\ seen[c] \in Nat
  BY <1>1, OwnCoin DEF Inv, LocksOK, Types, ProcType, ChainType, CoinType
<1>3. spend[t].life # life
  BY <1>1, <1>2 DEF LockOK
<1>4. applied[t] \notin 1..life
  BY <1>2 DEF LockOK
<1> QED
  BY <1>2, <1>3, <1>4

LEMMA BalanceStep ==
  ASSUME Inv, NEW r \in Requests, NEW c \in Coins, Balance(r, c)
  PROVE  Inv'
<1> DEFINE b == [coin |-> c, version |-> seen[c], life |-> life]
<1>1. /\ UNCHANGED <<life, row, attempts, ident, recipe, seen, version, pool, applied, aged, refused>>
      /\ UNCHANGED <<api, schema, session, proc, frozen, capacity, faults>>
      /\ c \in Free /\ lock' = [lock EXCEPT ![c] = r] /\ spend' = [spend EXCEPT ![r] = b]
      /\ job' = [job EXCEPT ![r] = "finalize"]
  BY DEF Balance, SetJob, procVars, startVars, rowVars, chainVars
<1>2. /\ proc = "ready" /\ JobOK(r) /\ VerdictOK(r) /\ r \notin refused /\ row[r] = "SPONSORING" /\ ~Known(r)
      /\ applied[r] = 0
  BY AtJob DEF Balance
<1>3. /\ lock \in [Coins -> Requests \cup {Nobody}] /\ seen \in [Coins -> Nat] /\ life \in Nat
      /\ spend \in [Requests -> Spends \cup {NoSpend}]
      /\ job \in [Requests -> {"none", "sponsor", "finalize", "submit", "patch", "wait"}]
      /\ lock[c] = Nobody /\ Nobody \notin Requests
  BY <1>1, WalletAssumption DEF Inv, Types, CoinType, ProcType, RowType, Free
<1>4. b \in Spends /\ b.coin = c /\ b.version = seen[c] /\ b.life = life
  BY <1>3 DEF Spends
<1> HIDE DEF b
<1>5. /\ spend'[r] = b /\ job'[r] = "finalize" /\ lock'[c] = r
      /\ \A q \in Requests \ {r} : spend'[q] = spend[q] /\ job'[q] = job[q]
      /\ \A d \in Coins \ {c} : lock'[d] = lock[d]
  BY <1>1, <1>3
<1>6. Types'
  <2>1. ProcType'
    BY <1>1 DEF Inv, Types, ProcType, MigrationsType
  <2>2. RowType'
    <3>1. job' \in [Requests -> {"none", "sponsor", "finalize", "submit", "patch", "wait"}]
      BY <1>1, <1>3
    <3> QED
      BY <1>1, <1>2, <3>1 DEF Inv, Types, RowType
  <2>3. CoinType'
    <3>1. spend' \in [Requests -> Spends \cup {NoSpend}] /\ lock' \in [Coins -> Requests \cup {Nobody}]
      BY <1>1, <1>3, <1>4
    <3> QED
      BY <1>1, <3>1 DEF Inv, Types, CoinType
  <2>4. ChainType'
    BY <1>1 DEF Inv, Types, ChainType
  <2> QED
    BY <2>1, <2>2, <2>3, <2>4 DEF Types
<1>7. \A q \in Requests : Known(q)' <=> Known(q)
  BY <1>1 DEF Known
<1>8. \A q \in Requests \ {r} : Potential(q)' <=> Potential(q)
  BY <1>1, <1>5, <1>7 DEF Live, Potential
<1>9. JobsOK'
  <2> SUFFICES ASSUME NEW q \in Requests PROVE JobOK(q)'
    BY DEF JobsOK
  <2>1. CASE q = r
    BY <1>1, <1>2, <1>3, <1>4, <1>5, <1>7, <2>1 DEF JobOK
  <2>2. CASE q # r
    BY <1>1, <1>5, <1>7, <1>8, <2>2 DEF Inv, JobsOK, JobOK
  <2> QED
    BY <2>1, <2>2
<1>10. VerdictsOK'
  BY <1>1, <1>2, <1>5, <1>7 DEF Inv, VerdictsOK, VerdictOK
<1>11. SessionsOK' /\ AllClean'
  BY <1>1 DEF Inv, SessionsOK, AllClean
<1>12. SpentOK'
  BY <1>1, <1>2, <1>5 DEF Inv, SpentOK
<1>13. LocksOK'
  <2>0. life > 0
    BY <1>2 DEF Inv, LocksOK
  <2> SUFFICES ASSUME NEW q \in Requests PROVE LockOK(q)'
    BY <1>1, <2>0 DEF LocksOK
  <2>1. CASE q = r
    BY <1>1, <1>2, <1>3, <1>4, <1>5, <2>1 DEF LockOK
  <2>2. CASE q # r
    <3>1. LockOK(q)
      BY <1>2 DEF Inv, LocksOK
    <3>2. Potential(q) /\ spend[q].life = life /\ spend[q].version = seen[spend[q].coin] => lock'[spend[q].coin] = q
      <4> SUFFICES ASSUME Potential(q), spend[q].life = life, spend[q].version = seen[spend[q].coin]
                   PROVE  lock'[spend[q].coin] = q
        OBVIOUS
      <4>1. spend[q].coin \in Coins /\ lock[spend[q].coin] = q
        BY <3>1, OwnCoin DEF LockOK
      <4> QED
        BY <1>3, <1>5, <4>1
    <3> QED
      BY <1>1, <1>5, <1>8, <2>2, <3>1, <3>2 DEF LockOK
  <2> QED
    BY <2>1, <2>2
<1>14. PairsOK'
  <2>1. ASSUME NEW t \in Requests \ {r}, Potential(t)', SameCoin(r, t)'
        PROVE  spend'[t].life < life /\ (applied'[t] = 0 \/ applied'[t] > life)
    <3>1. Potential(t) /\ spend[t].coin = c /\ spend[t].version = seen[c]
      BY <1>4, <1>5, <1>8, <2>1 DEF SameCoin
    <3> QED
      BY <1>1, <1>2, <1>5, <3>1, FreeCoin
  <2>2. \A t \in Requests \ {r} : Potential(t)' => spend'[t].life \in Nat
    BY <1>5, <1>8, OwnCoin
  <2> SUFFICES ASSUME NEW s \in Requests, NEW t \in Requests, s # t,
                      Potential(s)', Potential(t)', SameCoin(s, t)'
               PROVE  Undrained(s, t)'
    BY DEF PairsOK
  <2>3. CASE s = r
    <3>1. spend'[t].life < life /\ (applied'[t] = 0 \/ applied'[t] > life)
      BY <2>1, <2>3
    <3> QED
      BY <1>3, <1>4, <1>5, <2>2, <2>3, <3>1 DEF Undrained
  <2>4. CASE t = r
    <3>1. SameCoin(r, s)'
      BY <2>4 DEF SameCoin
    <3>2. spend'[s].life < life
      BY <2>1, <2>4, <3>1
    <3> QED
      BY <1>3, <1>4, <1>5, <2>2, <2>4, <3>2 DEF Undrained
  <2>5. CASE s # r /\ t # r
    BY <1>1, <1>5, <1>8, <2>5 DEF Inv, PairsOK, SameCoin, Undrained
  <2> QED
    BY <2>3, <2>4, <2>5
<1> QED
  BY <1>6, <1>9, <1>10, <1>11, <1>12, <1>13, <1>14 DEF Inv
-----------------------------------------------------------------------------
(* The invariant, and what it is for.                                      *)

(* Every step keeps the invariant.                                         *)
LEMMA InvStep == Inv /\ [Next]_vars => Inv'
<1> SUFFICES ASSUME Inv, [Next]_vars PROVE Inv'
  OBVIOUS
<1>1. CASE Boot \/ Connected \/ Migrate \/ MigrateApi
  BY <1>1, StartUp
<1>2. CASE Build
  BY <1>2, BuildStep
<1>3. CASE Start
  BY <1>3, StartStep
<1>4. CASE Kill \/ Crash
  BY <1>4, DownStep
<1>5. CASE Tick \/ \E r \in Requests : Freeze(r) \/ GrowOld(r)
  BY <1>5, ClockStep
<1>6. CASE \E c \in Coins : See(c) \/ Revert(c)
  BY <1>6, WalletStep
<1>7. CASE \E r \in Requests : Ask(r) \/ EstimateFee(r) \/ NotReady(r) \/ WorkerRefuses(r) \/ Unreachable(r)
  BY <1>7, EstimateStep
<1>8. CASE \E r \in Requests : Claim(r)
  BY <1>8, ClaimStep
<1>9. CASE \E r \in Requests : \E c \in Coins : Balance(r, c)
  BY <1>9, BalanceStep
<1>10. CASE \E r \in Requests : \/ TooClose(r) \/ Refuse(r) \/ SubmitLost(r) \/ SubmitUnclassified(r)
                                \/ Confirm(r) \/ WaitFails(r) \/ WaitTimesOut(r)
  BY <1>10, LeaveSteps
<1>11. CASE \E r \in Requests : SponsorRetry(r) \/ NotWellFormed(r) \/ SponsorFails(r)
  BY <1>11, GiveUpStep
<1>12. CASE \E r \in Requests : \E x \in Recipes : Finalize(r, x)
  BY <1>12, FinalizeStep
<1>13. CASE \E r \in Requests : Submit(r) \/ Replay(r) \/ Patch(r)
  BY <1>13, AdvanceStep
<1>14. CASE \E r \in Requests : Reconcile(r)
  BY <1>14, ReconcileStep
<1>15. CASE \E r \in Requests : Apply(r)
  BY <1>15, ApplyStep
<1>16. CASE \E r \in Requests : Drop(r)
  BY <1>16, DropStep
<1>17. CASE Operator
  BY <1>17, OperatorStep
<1>18. CASE UNCHANGED vars
  <2>1. /\ UNCHANGED <<life, row, attempts, ident, job, spend, recipe, lock, seen, version, pool, applied, refused>>
        /\ UNCHANGED <<api, schema, session, proc, frozen, capacity, faults, aged>>
    BY <1>18 DEF vars, procVars, startVars, rowVars, sdkVars, chainVars
  <2>2. ProcType' /\ SessionsOK' /\ aged' \subseteq Requests
    BY <2>1 DEF Inv, Types, ProcType, MigrationsType, SessionsOK, ChainType
  <2> QED
    BY <2>1, <2>2, ProcessOnly
<1> QED
  BY <1>1, <1>2, <1>3, <1>4, <1>5, <1>6, <1>7, <1>8, <1>9, <1>10, <1>11, <1>12, <1>13, <1>14, <1>15,
     <1>16, <1>17, <1>18 DEF Next, System

(* The inductive invariant holds in every reachable state.                 *)
LEMMA Invariance == Spec => []Inv
<1>1. Inv /\ [Next]_vars => Inv'
  BY InvStep
<1> QED
  BY InvInit, <1>1, PTL DEF Spec

(* Every variable has its type; ident names only rows whose bytes are      *)
(* persisted, and only a process that is ready has tasks.                  *)
THEOREM TypeCorrect == Spec => []TypeOK
<1>1. Inv => TypeOK
  BY DEF Inv, Types, ProcType, RowType, CoinType, ChainType, TypeOK
<1> QED
  BY Invariance, <1>1, PTL

(* A confirmed request was paid for; refused bytes are never paid for,     *)
(* through restarts, lost answers and "already applied" answers            *)
(* (packages/midnight/src/midnight/errors.ts:71).                          *)
THEOREM VerdictIsTrueCorrect == Spec => []VerdictIsTrue
<1>1. Inv => VerdictIsTrue
  BY DEF Inv, VerdictsOK, VerdictOK, VerdictIsTrue
<1> QED
  BY Invariance, <1>1, PTL

(* Whatever the SDK balances, what reaches the node has one DUST spend of  *)
(* the sponsor and nothing else (packages/midnight/src/midnight/checks.ts:36). *)
THEOREM SponsorPaysOnlyFeesCorrect == Spec => []SponsorPaysOnlyFees
<1>1. Inv => SponsorPaysOnlyFees
  BY DEF Inv, AllClean, SponsorPaysOnlyFees
<1> QED
  BY Invariance, <1>1, PTL

(* Two transactions spend one version of a coin only across a restart,     *)
(* and only if the older one was not yet applied when the new wallet had   *)
(* synchronised (apps/worker/src/worker.ts:19).                            *)
THEOREM DoubleSpendIsUndrainedCorrect == Spec => []DoubleSpendIsUndrained
<1>1. Inv => DoubleSpendIsUndrained
  <2> SUFFICES ASSUME Inv, NEW r \in Requests, NEW s \in Requests, r # s, Live(r), Live(s),
                      spend[r].coin = spend[s].coin, spend[r].version = spend[s].version
               PROVE  Undrained(r, s)
    BY DEF DoubleSpendIsUndrained, Undrained
  <2>1. Potential(r) /\ Potential(s) /\ SameCoin(r, s)
    BY DEF Potential, SameCoin
  <2> QED
    BY <2>1 DEF Inv, PairsOK
<1> QED
  BY Invariance, <1>1, PTL
=============================================================================
