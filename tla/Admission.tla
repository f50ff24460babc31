------------------------------ MODULE Admission ------------------------------
(***************************************************************************)
(* POST /v1/sponsorship/requests: createSponsorshipRequest of apps/api,    *)
(* run by any number of concurrent calls over one table of requests, and   *)
(* the answers its clients get.                                            *)
(*                                                                         *)
(* A step of a call is one await: a query, one database transaction, or    *)
(* the fee estimate.  A client that retries is another call with the same  *)
(* key and the same bytes, made at any time, also while the first call is  *)
(* still running.  Calls with bytes that cannot be decoded, without a      *)
(* valid key or over a rate limit end before the first query and are left  *)
(* out.                                                                    *)
(***************************************************************************)
EXTENDS Naturals, FiniteSets, RequestStates

CONSTANTS
  Keys,        \* <<application, request_id>> pairs: UNIQUE, one row each
  Hashes,      \* tx_hash values of the transactions
  Calls,       \* calls in a behaviour (bound)
  Endings,     \* how the worker may end a reserved request (bound)
  MaxCrashes,  \* api crashes in a behaviour (bound)
  DbFails      \* whether a database or adapter call may throw

ASSUME AdmissionAssumption ==
  /\ Endings \subseteq TERMINAL \ {"REJECTED"}
  /\ MaxCrashes \in Nat /\ DbFails \in BOOLEAN

VARIABLES
  status,      \* status[k] of the row with key k, ABSENT before the INSERT
  hash,        \* hash[k]: tx_hash of that row
  call,        \* call[c]: where the handler of call c is, or what it answered
  crashes      \* crashes so far, a bound

vars == <<status, hash, call, crashes>>

(***************************************************************************)
(* byKey, byHash: the lookups; insert; again: the lookup after a unique    *)
(* violation; estimate; reserve; reject: the transition to REJECTED;       *)
(* respond: the outcome is known; answered.                                *)
(***************************************************************************)
Drives  == {"estimate", "reserve", "reject"}
Pcs     == {"byKey", "byHash", "insert", "again"} \cup Drives
Causes  == {"none", "policy", "unavailable", "budget"}
Kinds   == {"created", "replay", "rejected"}
Answers == Kinds \cup {"conflict", "internal", "lost"}

Idle == [pc |-> "idle"]

\* cause: why the call rejects; kind and seen: the outcome and the status of
\* the row it carries.
Running    == [pc : Pcs, key : Keys, hash : Hashes, cause : Causes, kind : {"none"}, seen : {ABSENT}]
Responding == [pc : {"respond"}, key : Keys, hash : Hashes, cause : Causes, kind : Kinds, seen : RequestStatus]
Answered   == [pc : {"answered"}, key : Keys, hash : Hashes, cause : Causes, kind : Answers,
               seen : RequestStatus \cup {ABSENT}]

TypeOK ==
  /\ status  \in [Keys -> RequestStatus \cup {ABSENT}]
  /\ hash    \in [Keys -> Hashes]
  /\ call    \in [Calls -> Running \cup Responding \cup Answered \cup {Idle}]
  /\ crashes \in 0..MaxCrashes

Init ==
  /\ status  = [k \in Keys |-> ABSENT]
  /\ hash    \in [Keys -> Hashes]
  /\ call    = [c \in Calls |-> Idle]
  /\ crashes = 0

-----------------------------------------------------------------------------
At(c, pc) == call[c].pc = pc

\* The call goes on with the key and the bytes it came with.
Entry(c, pc, cause, kind, seen) ==
  [pc |-> pc, key |-> call[c].key, hash |-> call[c].hash, cause |-> cause, kind |-> kind, seen |-> seen]

Becomes(c, pc, cause, kind, seen) ==
  call' = [call EXCEPT ![c] = Entry(c, pc, cause, kind, seen)]

GoTo(c, pc)         == Becomes(c, pc, "none", "none", ABSENT)
Because(c, cause)   == Becomes(c, "reject", cause, "none", ABSENT)
Outcome(c, kind, s) == Becomes(c, "respond", call[c].cause, kind, s)
Answer(c, kind)     == Becomes(c, "answered", "none", kind, ABSENT)

InFlight(c) == call[c].pc \in Pcs \cup {"respond"}

Exists(k) == status[k] # ABSENT

Post(c, k, h) ==
  /\ At(c, "idle")
  /\ call' = [call EXCEPT ![c] = [pc |-> "byKey", key |-> k, hash |-> h, cause |-> "none",
                                  kind |-> "none", seen |-> ABSENT]]
  /\ UNCHANGED <<status, hash, crashes>>

\* findByRequestId: a known request_id is replayed, or in conflict when it
\* came with other bytes.
FindByKey(c) ==
  LET k == call[c].key
  IN  /\ At(c, "byKey")
      /\ IF ~Exists(k) THEN GoTo(c, "byHash")
         ELSE IF hash[k] # call[c].hash THEN Answer(c, "conflict")
         ELSE Outcome(c, "replay", status[k])
      /\ UNCHANGED <<status, hash, crashes>>

\* The rows the partial unique index on tx_hash holds for h.
Live(h) == {k \in Keys : status[k] \notin {ABSENT, "REJECTED"} /\ hash[k] = h}

\* Mutant: any live request with these bytes is a conflict, also one's own.
FindByHashStrict(c) ==
  /\ At(c, "byHash")
  /\ IF Live(call[c].hash) = {} THEN GoTo(c, "insert") ELSE Answer(c, "conflict")
  /\ UNCHANGED <<status, hash, crashes>>

\* findByTxHash: the request found is this one when a concurrent retry has
\* inserted it since the first lookup.
FindByHash(c) ==
  LET found == Live(call[c].hash)
  IN  /\ At(c, "byHash")
      /\ IF found = {} THEN GoTo(c, "insert")
         ELSE IF call[c].key \in found THEN Outcome(c, "replay", status[call[c].key])
         ELSE Answer(c, "conflict")
      /\ UNCHANGED <<status, hash, crashes>>

\* Mutant: the index of 0001_init.sql is dropped and not created again.
UniqueKeyOnly(k, h) == ~Exists(k)

\* UNIQUE (application_id, request_id), and tx_hash unique among the rows that
\* are not REJECTED.
Unique(k, h) == ~Exists(k) /\ Live(h) = {}

\* Mutant: the loser of the race goes on with the row it lost.
InsertOrShare(c) ==
  LET k == call[c].key
  IN  /\ At(c, "insert")
      /\ IF Unique(k, call[c].hash)
         THEN /\ status' = [status EXCEPT ![k] = "RECEIVED"]
              /\ hash'   = [hash EXCEPT ![k] = call[c].hash]
              /\ GoTo(c, "estimate")
         ELSE GoTo(c, IF Exists(k) THEN "estimate" ELSE "again") /\ UNCHANGED <<status, hash>>
      /\ UNCHANGED crashes

\* insertReceived, and the policy rules R1-R8 on the summary, which need no
\* await: they may refuse the transaction at once.
Insert(c) ==
  LET k == call[c].key
  IN  /\ At(c, "insert")
      /\ IF Unique(k, call[c].hash)
         THEN /\ status' = [status EXCEPT ![k] = "RECEIVED"]
              /\ hash'   = [hash EXCEPT ![k] = call[c].hash]
              /\ GoTo(c, "estimate") \/ Because(c, "policy")
         ELSE GoTo(c, "again") /\ UNCHANGED <<status, hash>>
      /\ UNCHANGED crashes

\* Mutant: the row of a lost race is answered as if it were admitted.
FindAgainAsCreated(c) ==
  LET k == call[c].key
  IN  /\ At(c, "again")
      /\ IF Exists(k) /\ hash[k] = call[c].hash THEN Outcome(c, "created", "RESERVED") ELSE Answer(c, "conflict")
      /\ UNCHANGED <<status, hash, crashes>>

\* Mutant: the row is used without asking whether the lookup found one.
FindAgainUnguarded(c) ==
  LET k == call[c].key
  IN  /\ At(c, "again")
      /\ IF hash[k] = call[c].hash THEN Outcome(c, "replay", status[k]) ELSE Answer(c, "conflict")
      /\ UNCHANGED <<status, hash, crashes>>

\* The lookup after a unique violation: the row that won the race, if it has
\* this key.
FindAgain(c) ==
  LET k == call[c].key
  IN  /\ At(c, "again")
      /\ IF Exists(k) /\ hash[k] = call[c].hash THEN Outcome(c, "replay", status[k]) ELSE Answer(c, "conflict")
      /\ UNCHANGED <<status, hash, crashes>>

\* estimateFee and checkFeeLimit: a fee, a refusal (the fee is over the limit,
\* or the preflight fails), or a sponsor that is unavailable or low on DUST.
Estimate(c) ==
  /\ At(c, "estimate")
  /\ GoTo(c, "reserve") \/ Because(c, "policy") \/ Because(c, "unavailable")
  /\ UNCHANGED <<status, hash, crashes>>

\* `transition`.
Move(k, from, to) ==
  /\ status[k] = from /\ CanTransition(from, to)
  /\ status' = [status EXCEPT ![k] = to]

\* The budget reservation and the transition in one transaction.
Reserved(c) ==
  /\ At(c, "reserve")
  /\ Move(call[c].key, "RECEIVED", "RESERVED")
  /\ Outcome(c, "created", "RESERVED")
  /\ UNCHANGED <<hash, crashes>>

\* A bucket has no room: the transaction rolls back.
OverBudget(c) ==
  /\ At(c, "reserve")
  /\ Because(c, "budget")
  /\ UNCHANGED <<status, hash, crashes>>

Reject(c) ==
  /\ At(c, "reject")
  /\ Move(call[c].key, "RECEIVED", "REJECTED")
  /\ Outcome(c, "rejected", "REJECTED")
  /\ UNCHANGED <<hash, crashes>>

\* The answer carries the row as the outcome had it or, with ?wait, as it was
\* last polled.
Respond(c) ==
  /\ At(c, "respond")
  /\ \E s \in {call[c].seen, status[call[c].key]} :
       /\ call[c].kind = "rejected" => s = call[c].seen
       /\ Becomes(c, "answered", call[c].cause, call[c].kind, s)
  /\ UNCHANGED <<status, hash, crashes>>

\* A query or the adapter throws, or the transition finds the row moved: the
\* answer is a 500, and the row stays as it is.
Throws(c) ==
  /\ \/ DbFails /\ InFlight(c)
     \/ call[c].pc \in {"reserve", "reject"} /\ status[call[c].key] # "RECEIVED"
  /\ Answer(c, "internal")
  /\ UNCHANGED <<status, hash, crashes>>

Crash ==
  /\ crashes < MaxCrashes
  /\ crashes' = crashes + 1
  /\ call' = [c \in Calls |-> IF InFlight(c) THEN Entry(c, "answered", "none", "lost", ABSENT)
                              ELSE call[c]]
  /\ UNCHANGED <<status, hash>>

\* What SponsorWorker makes of a reserved request, in one step.
Resolve(k, end) ==
  /\ status[k] = "RESERVED"
  /\ status' = [status EXCEPT ![k] = end]
  /\ UNCHANGED <<hash, call, crashes>>

-----------------------------------------------------------------------------
CallStep(c) ==
  \/ FindByKey(c) \/ FindByHash(c) \/ Insert(c) \/ FindAgain(c)
  \/ Estimate(c) \/ Reserved(c) \/ OverBudget(c) \/ Reject(c) \/ Respond(c)

Next ==
  \/ \E c \in Calls : \E k \in Keys, h \in Hashes : Post(c, k, h)
  \/ \E c \in Calls : CallStep(c) \/ Throws(c)
  \/ \E k \in Keys, end \in Endings : Resolve(k, end)
  \/ Crash

Spec == Init /\ [][Next]_vars

-----------------------------------------------------------------------------
(* Properties *)

\* A transaction is sponsored under one request_id only, whichever calls race:
\* no two rows with the same bytes ever get past RECEIVED.
SponsoredOnce ==
  \A j, k \in Keys :
    (j # k /\ hash[j] = hash[k]) => {status[j], status[k]} \cap {ABSENT, "RECEIVED", "REJECTED"} # {}

\* One call at most drives a row through policy, fee and budget.  The others
\* with the same key, retries or duplicates, only read it.
OneDriver ==
  \A c, d \in Calls :
    (call[c].pc \in Drives /\ call[d].pc \in Drives /\ call[c].key = call[d].key) => c = d

\* A call is told DUPLICATE_REQUEST only if some row has its request_id with
\* other bytes or its bytes under another request_id: a retry that races with
\* the call it repeats is never a conflict.
ConflictIsReal ==
  \A c \in Calls :
    (At(c, "answered") /\ call[c].kind = "conflict") =>
      \E k \in Keys : Exists(k) /\ (k = call[c].key <=> hash[k] # call[c].hash)

\* What an answer says of the request.
Verdict(s) ==
  CASE s = ABSENT     -> "none"
    [] s = "RECEIVED" -> "pending"
    [] s = "REJECTED" -> "refused"
    [] OTHER          -> "admitted"

Says(c) == IF call[c].kind = "conflict" THEN "conflict" ELSE Verdict(call[c].seen)

ToldCalls == {c \in Calls : At(c, "answered") /\ call[c].kind \in Kinds \cup {"conflict"}}

Verdicts == [k \in Keys |-> Verdict(status[k])]

Told == {[key |-> call[c].key, hash |-> call[c].hash, says |-> Says(c)] : c \in ToldCalls}

Once == INSTANCE AdmissionOnce WITH verdict <- Verdicts, holds <- hash, told <- Told

\* The endpoint implements AdmissionOnce: same id and same bytes get the same
\* answer, whatever calls run concurrently, throw or crash.
ImplementsOnce == Once!Spec

\* docs/integration.md:94 calls SPONSOR_UNAVAILABLE and SPONSOR_BALANCE_LOW
\* retryable, and packages/client/src/errors.ts:24 explains that a later retry
\* of the same request may then succeed: not when its row is rejected.
RetryableMaySucceed ==
  \A c \in Calls :
    At(c, "answered") /\ call[c].kind = "rejected" /\ call[c].cause = "unavailable"
      => status[call[c].key] # "REJECTED"

\* The SDK resolves sponsor(until: approved) with this answer.
Approved(c) ==
  /\ At(c, "answered") /\ call[c].kind \in {"created", "replay"}
  /\ call[c].seen \notin {"REJECTED", "SPONSORING_FAILED", "SUBMISSION_FAILED", "EXPIRED"}

\* packages/client/src/client.ts:40, "resolve as soon as the request is accepted
\* and queued".
ApprovedIsQueued ==
  \A c \in Calls : Approved(c) => status[call[c].key] \notin {"RECEIVED", "REJECTED"}

=============================================================================
