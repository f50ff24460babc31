-------------------------------- MODULE Gate --------------------------------
(***************************************************************************)
(* What stands before a sponsorship request: authentication, the policy    *)
(* version in force, the rate limits, the policy engine and the fee limit; *)
(* and the operator who creates and revokes keys, suspends the application *)
(* and replaces its policy meanwhile.  One application.  Idempotency is    *)
(* in Admission, budgets are in BudgetLocks and SponsorWorker: here their  *)
(* refusals are nondeterministic.                                          *)
(***************************************************************************)
EXTENDS Policy, RateLimiter, FiniteSets

CONSTANTS
  Calls,        \* clients, each with one http call at a time
  Keys,         \* api keys that may be created
  Users, Ips,
  Docs,         \* documents an operator may put, valid or not
  Traffic,      \* transactions with the claims made of them
  Fees,         \* fees the adapter may estimate and the chain may charge
  Admins,       \* concurrent PUTs of a policy
  MaxVersion,   \* bound on the versions
  MaxTries,     \* bound on the refusals in a row that are counted
  MaxHits,      \* per kind of bucket: bound on its hits in one window
  ReadFloor     \* least limit of the status reads: 600 in the code

(* What the parsed documents and the decoded transactions look like.       *)
CallsMade == UNION {{t.summary.calls[i] : i \in DOMAIN t.summary.calls} : t \in Traffic}

ASSUME BoundAssumption == MaxVersion \in Nat /\ MaxTries \in Nat /\ ReadFloor \in Nat
ASSUME DocsAssumption == \A doc \in Docs : doc.rate \in [{"cred", "ip", "user"} -> Nat]
ASSUME TrafficAssumption == \A t \in Traffic : t.summary.calls \in Seq(CallsMade)

VARIABLES
  phase,        \* where in the window the clock is
  count,        \* per bucket: its hits
  admitted,     \* history, per bucket: the hits that were let through
  app,          \* status of the application
  key,          \* per key: its status
  policies,     \* version -> document, append-only
  put,          \* per admin: the PUT it has under way
  call,         \* per client: its call, with the row it left
  refusal       \* per client: the last 429 it was answered with

limits == <<phase, count, admitted, refusal>>
records == <<app, key, policies, put>>
vars == <<phase, count, admitted, app, key, policies, put, call, refusal>>

Buckets == ({"cred", "read"} \X Keys) \cup ({"ip"} \X Ips) \cup ({"user"} \X Users)
Versions == 0..MaxVersion
Latest == CHOOSE v \in {0} \cup DOMAIN policies : \A u \in DOMAIN policies : u <= v

NoCall == [pc |-> "idle", id |-> <<>>, version |-> 0, floor |-> 0, live |-> FALSE, row |-> {}]
NoRefusal == [by |-> <<>>, wait |-> 0, tries |-> 0]
NoPut == [pc |-> "idle", version |-> 0, first |-> 0]

Init ==
  /\ phase = 0
  /\ count = [b \in Buckets |-> NoHits]
  /\ admitted = [b \in Buckets |-> NoHits]
  /\ app = "none"
  /\ key = [k \in Keys |-> "none"]
  /\ policies = <<>>
  /\ put = [a \in Admins |-> NoPut]
  /\ call = [c \in Calls |-> NoCall]
  /\ refusal = [c \in Calls |-> NoRefusal]

-----------------------------------------------------------------------------
\* Mutant: the window ends one tick late.
TickLate ==
  /\ phase' = (phase + 1) % (Window + 1)
  /\ IF phase = Window
     THEN /\ count' = [b \in Buckets |-> NextWindow(count[b])]
          /\ admitted' = [b \in Buckets |-> NextWindow(admitted[b])]
     ELSE UNCHANGED <<count, admitted>>
  /\ refusal' = [c \in Calls |-> [refusal[c] EXCEPT !.wait = IF @ = 0 THEN 0 ELSE @ - 1]]
  /\ UNCHANGED <<records, call>>
(* The clock.  A client that was told to wait counts the ticks.            *)
Tick ==
  /\ phase' = (phase + 1) % Window
  /\ IF phase + 1 = Window
     THEN /\ count' = [b \in Buckets |-> NextWindow(count[b])]
          /\ admitted' = [b \in Buckets |-> NextWindow(admitted[b])]
     ELSE UNCHANGED <<count, admitted>>
  /\ refusal' = [c \in Calls |-> [refusal[c] EXCEPT !.wait = IF @ = 0 THEN 0 ELSE @ - 1]]
  /\ UNCHANGED <<records, call>>

(* The counters live in the process; what becomes of a row it was judging  *)
(* is Admission's.                                                         *)
Restart ==
  /\ count' = [b \in Buckets |-> NoHits]
  /\ admitted' = [b \in Buckets |-> NoHits]
  /\ call' = [c \in Calls |-> NoCall]
  /\ refusal' = [c \in Calls |-> NoRefusal]
  /\ UNCHANGED <<phase, records>>

-----------------------------------------------------------------------------
(* Authentication.                                                         *)
IsLive(k) == key[k] = "active" /\ app = "active"

Arrive(c, k, ip, method) ==
  /\ call[c].pc = "idle"
  /\ call' = [call EXCEPT ![c] = [NoCall EXCEPT !.pc = "auth", !.id = <<method, k, ip>>,
                                    !.floor = Latest, !.live = IsLive(k)]]
  /\ refusal' = [refusal EXCEPT ![c] =
       IF @.wait = 0 THEN @ ELSE NoRefusal]
  /\ UNCHANGED <<phase, count, admitted, records>>

End(c) == call' = [call EXCEPT ![c] = NoCall]

\* Mutant: the status of the application is left to the dashboard.
FindKeyOnly(c) ==
  /\ call[c].pc = "auth"
  /\ IF key[call[c].id[2]] = "active" THEN call' = [call EXCEPT ![c].pc = "policy"] ELSE End(c)
  /\ UNCHANGED <<limits, records>>
(* One query joins the key with its application; the secret is verified    *)
(* after it, which takes its time.                                         *)
FindKey(c) ==
  /\ call[c].pc = "auth"
  /\ IF IsLive(call[c].id[2]) THEN call' = [call EXCEPT ![c].pc = "policy"] ELSE End(c)
  /\ UNCHANGED <<limits, records>>

(* A header that is no key, and a secret that is not that of the key.      *)
Malformed(c) ==
  /\ call[c].pc = "auth"
  /\ End(c)
  /\ UNCHANGED <<limits, records>>

WrongSecret(c) ==
  /\ call[c].pc = "auth"
  /\ key[call[c].id[2]] = "active"
  /\ End(c)
  /\ UNCHANGED <<limits, records>>

-----------------------------------------------------------------------------
(* Rate limits.  The hits of a hook follow each other without a pause.     *)
LimitIn(doc, b) ==
  CASE b[1] = "cred" -> doc.rate.cred
    [] b[1] = "ip" -> doc.rate.ip
    [] b[1] = "user" -> doc.rate.user
    [] b[1] = "read" -> LET tenfold == 10 * doc.rate.cred IN
                        IF tenfold > ReadFloor THEN tenfold ELSE ReadFloor

IsAllowed(b, doc) == Within(Counted(count[b]), phase, LimitIn(doc, b))

(* Hits on the buckets in order, up to the first that refuses. *)
Passed(bs, doc) == \A i \in DOMAIN bs : IsAllowed(bs[i], doc)
Reached(bs, doc) == {bs[i] : i \in {j \in DOMAIN bs : \A h \in 1..(j - 1) : IsAllowed(bs[h], doc)}}
Refuser(bs, doc) == CHOOSE b \in Reached(bs, doc) : ~IsAllowed(b, doc)

(* The next 429: one of another bucket takes the place of the last, and a  *)
(* bucket that lets the client through has nothing more to tell it.        *)
Told(c, bs, doc) ==
  IF Passed(bs, doc) THEN (IF refusal[c].by \in Reached(bs, doc) THEN NoRefusal ELSE refusal[c])
  ELSE [by |-> Refuser(bs, doc), wait |-> RetryAfter(phase),
        tries |-> IF refusal[c].by # Refuser(bs, doc) THEN 1
                  ELSE IF refusal[c].tries < MaxTries THEN refusal[c].tries + 1 ELSE MaxTries]

Hit(c, bs, doc) ==
  /\ \A b \in Reached(bs, doc) : count[b].cur < MaxHits[b[1]]
  /\ count' = [b \in Buckets |-> IF b \in Reached(bs, doc) THEN Counted(count[b]) ELSE count[b]]
  /\ admitted' = [b \in Buckets |->
       IF b \in Reached(bs, doc) /\ IsAllowed(b, doc) THEN Counted(admitted[b]) ELSE admitted[b]]
  /\ refusal' = [d \in Calls |->
       IF d = c THEN Told(c, bs, doc)
       ELSE IF refusal[d].by \in Reached(bs, doc) THEN NoRefusal ELSE refusal[d]]
  /\ UNCHANGED phase

OnRequest(c) == LET id == call[c].id IN
  IF id[1] = "POST" THEN << <<"cred", id[2]>>, <<"ip", id[3]>> >> ELSE << <<"read", id[2]>> >>

Handler(c) == IF call[c].id[1] = "POST" THEN "body" ELSE "read"

\* Mutant: the policy of the first version is remembered.
ReadFirstPolicy(c) ==
  /\ call[c].pc = "policy"
  /\ IF policies = <<>> THEN End(c) /\ UNCHANGED limits
     ELSE /\ Hit(c, OnRequest(c), policies[1])
          /\ IF Passed(OnRequest(c), policies[1])
             THEN call' = [call EXCEPT ![c].pc = Handler(c), ![c].version = 1] ELSE End(c)
  /\ UNCHANGED records
(* The policy in force is read and the limits before the body are hit.     *)
ReadPolicy(c) ==
  /\ call[c].pc = "policy"
  /\ IF policies = <<>> THEN End(c) /\ UNCHANGED limits
     ELSE /\ Hit(c, OnRequest(c), policies[Latest])
          /\ IF Passed(OnRequest(c), policies[Latest])
             THEN call' = [call EXCEPT ![c].pc = Handler(c), ![c].version = Latest] ELSE End(c)
  /\ UNCHANGED records

(* A row of the application, or NOT_FOUND. *)
ReadStatus(c) ==
  /\ call[c].pc = "read"
  /\ End(c)
  /\ UNCHANGED <<limits, records>>

-----------------------------------------------------------------------------
(* The pipeline: the row is inserted, judged, estimated, and reserved.     *)
PolicyOf(c) == policies[call[c].version]
Row(t, status, rule) ==
  [summary |-> t.summary, claim |-> t.claim, status |-> status, rule |-> rule,
   estimated |-> {}, actual |-> {}]
Answer(c, row) ==
  call' = [call EXCEPT ![c] =
    IF row.status = "RECEIVED" THEN [@ EXCEPT !.pc = "estimate", !.row = {row}]
    ELSE [NoCall EXCEPT !.version = call[c].version, !.row = {row}]]

(* The body is not what the schema wants: nobody's bucket is hit. *)
InvalidBody(c) ==
  /\ call[c].pc = "body"
  /\ End(c)
  /\ UNCHANGED <<limits, records>>

(* The bytes are no hex or base64, or not a transaction that the ledger    *)
(* accepts: there is a hit and no row.                                     *)
Thrown(c, u) ==
  /\ call[c].pc = "body"
  /\ Hit(c, << <<"user", u>> >>, PolicyOf(c))
  /\ End(c)
  /\ UNCHANGED records
Undecodable(c, u) == Thrown(c, u)
Garbage(c, u) == Thrown(c, u)

(* The body is complete: the limit of the user, then the row. *)
Body(c, u, t) ==
  /\ call[c].pc = "body"
  /\ Hit(c, << <<"user", u>> >>, PolicyOf(c))
  /\ IF ~IsAllowed(<<"user", u>>, PolicyOf(c)) THEN End(c)
     ELSE LET rule == EvaluatePolicy(PolicyOf(c), t.summary, t.claim) IN
          IF rule = Allowed THEN Answer(c, Row(t, "RECEIVED", "none"))
          ELSE Answer(c, Row(t, "REJECTED", rule))
  /\ UNCHANGED records

(* The row of a rejected request keeps no estimate. *)
Estimated(c, fee) ==
  /\ call[c].pc = "estimate"
  /\ \E row \in call[c].row :
       \/ /\ CheckFeeLimit(PolicyOf(c), fee) = FeeRule
          /\ Answer(c, [row EXCEPT !.status = "REJECTED", !.rule = FeeRule])
       \/ /\ CheckFeeLimit(PolicyOf(c), fee) = Allowed
          /\ \/ Answer(c, [row EXCEPT !.status = "RESERVED", !.estimated = {fee}])
             \/ Answer(c, [row EXCEPT !.status = "REJECTED", !.rule = "budget"])
  /\ UNCHANGED <<limits, records>>

NoEstimate(c) ==
  /\ call[c].pc = "estimate"
  /\ \E row \in call[c].row : Answer(c, [row EXCEPT !.status = "REJECTED", !.rule = "sponsor"])
  /\ UNCHANGED <<limits, records>>

(* The worker confirms, and stores what the chain charged; or fails. *)
Confirm(c, fee) ==
  /\ call[c].pc = "idle"
  /\ \E row \in call[c].row :
       /\ row.status = "RESERVED"
       /\ Answer(c, [row EXCEPT !.status = "CONFIRMED", !.actual = {fee}])
  /\ UNCHANGED <<limits, records>>

-----------------------------------------------------------------------------
(* The operator.                                                           *)
Witnessed(keys, status) ==
  [c \in Calls |-> [call[c] EXCEPT !.live =
     @ \/ (call[c].pc # "idle" /\ keys[call[c].id[2]] = "active" /\ status = "active")]]

CreateApplication ==
  /\ app = "none"
  /\ app' = "active"
  /\ UNCHANGED <<limits, key, policies, put, call>>

SetStatus(status) ==
  /\ app \notin {"none", status}
  /\ app' = status
  /\ call' = Witnessed(key, status)
  /\ UNCHANGED <<limits, key, policies, put>>

SetKey(k, from, to) ==
  /\ app # "none"
  /\ key[k] = from
  /\ key' = [key EXCEPT ![k] = to]
  /\ call' = Witnessed(key', app)
  /\ UNCHANGED <<limits, app, policies, put>>

(* A generated key has an identifier and a secret no key had before. *)
GenerateApiKey(k) == key[k] = "none"
CreateApiKey(k) == GenerateApiKey(k) /\ SetKey(k, "none", "active")
RevokeApiKey(k) == SetKey(k, "active", "revoked")

(* INSERT ... MAX(version) + 1: the statement reads the versions, and its  *)
(* row meets those that were inserted meanwhile at the unique constraint.  *)
(* The document, which is validated first, matters once it is inserted.    *)
PutPolicy(a) ==
  /\ app # "none"
  /\ put[a].pc = "idle"
  /\ Latest < MaxVersion
  /\ put' = [put EXCEPT ![a] = [pc |-> "first", version |-> Latest + 1, first |-> Latest]]
  /\ UNCHANGED <<limits, app, key, policies, call>>

Taken(a) == put[a].version \in DOMAIN policies

\* Mutant: the version is not unique and the later row wins.
InsertAnyway(a, doc) ==
  /\ put[a].pc \in {"first", "second"}
  /\ IsPolicy(doc)
  /\ policies' = [v \in DOMAIN policies \cup {put[a].version} |->
                    IF v = put[a].version THEN doc ELSE policies[v]]
  /\ put' = [put EXCEPT ![a] = NoPut]
  /\ UNCHANGED <<limits, app, key, call>>
InsertVersion(a, doc) ==
  /\ put[a].pc \in {"first", "second"}
  /\ IsPolicy(doc)
  /\ ~Taken(a)
  /\ policies' = [v \in DOMAIN policies \cup {put[a].version} |->
                    IF v = put[a].version THEN doc ELSE policies[v]]
  /\ put' = [put EXCEPT ![a] = NoPut]
  /\ UNCHANGED <<limits, app, key, call>>

\* Mutant: the version is computed once, before the loop.
TryAgainStale(a) ==
  /\ put[a].pc = "first"
  /\ Taken(a)
  /\ put' = [put EXCEPT ![a].pc = "second"]
  /\ UNCHANGED <<limits, app, key, policies, call>>
TryAgain(a) ==
  /\ put[a].pc = "first" /\ Latest < MaxVersion
  /\ Taken(a)
  /\ put' = [put EXCEPT ![a].pc = "second", ![a].version = Latest + 1]
  /\ UNCHANGED <<limits, app, key, policies, call>>

(* The second violation is thrown at the operator. *)
GiveUp(a) ==
  /\ put[a].pc = "second"
  /\ Taken(a)
  /\ put' = [put EXCEPT ![a].pc = "failed"]
  /\ UNCHANGED <<limits, app, key, policies, call>>

ReadFailure(a) ==
  /\ put[a].pc = "failed"
  /\ put' = [put EXCEPT ![a] = NoPut]
  /\ UNCHANGED <<limits, app, key, policies, call>>

-----------------------------------------------------------------------------
(* The command line and the admin routes call the same functions; only the *)
(* routes suspend and revoke.                                              *)
Command ==
  \/ CreateApplication
  \/ \E k \in Keys : CreateApiKey(k)
  \/ \E a \in Admins :
       \/ PutPolicy(a) \/ \E doc \in Docs : InsertVersion(a, doc)
       \/ TryAgain(a) \/ GiveUp(a) \/ ReadFailure(a)

Operator ==
  \/ Command
  \/ \E status \in {"active", "suspended"} : SetStatus(status)
  \/ \E k \in Keys : RevokeApiKey(k)

Client(c) ==
  \/ \E k \in Keys, ip \in Ips, method \in {"POST", "GET"} : Arrive(c, k, ip, method)
  \/ Malformed(c) \/ WrongSecret(c) \/ FindKey(c) \/ ReadPolicy(c)
  \/ ReadStatus(c) \/ InvalidBody(c)
  \/ \E u \in Users : Undecodable(c, u) \/ Garbage(c, u) \/ \E t \in Traffic : Body(c, u, t)
  \/ \E fee \in Fees : Estimated(c, fee) \/ Confirm(c, fee)
  \/ NoEstimate(c)

Next == Tick \/ Restart \/ Operator \/ \E c \in Calls : Client(c)

Spec == Init /\ [][Next]_vars
-----------------------------------------------------------------------------
Rows == UNION {call[c].row : c \in Calls}

(* The kinds of value the counters, the tables and the calls hold.         *)
TypeOK ==
  /\ phase \in Phases
  /\ \A b \in Buckets : /\ count[b].cur \in Nat /\ count[b].prev \in Nat
                        /\ admitted[b].cur \in Nat /\ admitted[b].prev \in Nat
  /\ app \in {"none", "active", "suspended"}
  /\ key \in [Keys -> {"none", "active", "revoked"}]
  /\ DOMAIN policies \in SUBSET Versions /\ \A v \in DOMAIN policies : policies[v] \in Docs /\ IsPolicy(policies[v])
  /\ \A a \in Admins : /\ put[a].pc \in {"idle", "first", "second", "failed"}
                       /\ put[a].version \in Versions
  /\ \A c \in Calls :
       /\ call[c].pc \in {"idle", "auth", "policy", "read", "body", "estimate"}
       /\ call[c].pc \in {"read", "body", "estimate"} => call[c].version \in DOMAIN policies
       /\ call[c].row # {} => call[c].version \in DOMAIN policies
       /\ call[c].live \in BOOLEAN

(* The estimate of a sliding window, taken over the hits that were let     *)
(* through, never exceeds the limit of some policy that was in force       *)
(* (rate-limit.ts:32), and the window before kept to one that was: not     *)
(* across two windows, not when clients keep hitting a limit that refuses  *)
(* them, not when the policy changes.                                      *)
RateHolds ==
  \A b \in Buckets :
    \/ admitted[b] = NoHits
    \/ /\ \E v \in DOMAIN policies : Within(admitted[b], phase, LimitIn(policies[v], b))
       /\ \E u \in DOMAIN policies : admitted[b].prev <= LimitIn(policies[u], b)

(* "Retry after Retry-After seconds" (integration.md:90): the first retry  *)
(* may be refused, for the refused hits count and the previous window      *)
(* still weighs in full; the second is not, unless a limit is 1, which     *)
(* such a client never gets below.                                         *)
RefusedTwiceAtMost ==
  \A c \in Calls :
    \/ refusal[c].tries <= 2
    \/ \E doc \in Docs : IsPolicy(doc) /\ LimitIn(doc, refusal[c].by) < 2

(* Revocation and suspension are immediate (threat-model.md:53): whoever   *)
(* got past authentication held an active key of an active application at  *)
(* one moment since the call arrived.                                      *)
AdmittedWasLive ==
  \A c \in Calls : call[c].pc \in {"policy", "read", "body", "estimate"} => call[c].live

(* A new policy version "applies to the next request" (policy.md:7): no    *)
(* request is judged by a version older than the one in force when it      *)
(* arrived.                                                                *)
JudgedByCurrent ==
  \A c \in Calls : call[c].pc \in {"read", "body", "estimate"} => call[c].version >= call[c].floor

(* Versions are append-only and without gaps, whoever puts them when.      *)
VersionsGrow ==
  [][/\ DOMAIN policies' = 1..Cardinality(DOMAIN policies')
     /\ \A v \in DOMAIN policies : policies'[v] = policies[v]]_policies

(* A PUT fails only when two others came in between: one lost race is      *)
(* retried (policies.ts:8).                                                *)
PutLosesTwice ==
  \A a \in Admins : put[a].pc = "failed" => Latest >= put[a].first + 2

(* A request that was sponsored under a policy of single calls made the    *)
(* very call its dapp claimed, and that call is on the list.               *)
ClaimIsTheCall ==
  \A c \in Calls : \A row \in call[c].row :
    row.status \in {"RESERVED", "CONFIRMED"} /\ ~PolicyOf(c).multiple =>
      \E made \in {row.summary.calls[1]} :
        /\ Allows(PolicyOf(c), made)
        /\ row.claim.contract \subseteq {made.address}
        /\ row.claim.entryPoint \subseteq {made.entryPoint}

(* A dry run of the policy a request was judged by repeats the judgement   *)
(* (admin.ts:142-144), but for two cases: a request the fee limit, the     *)
(* budget or the sponsor refused has no fee on its row and would be        *)
(* allowed; a fee the chain raised above the limit is held against it.     *)
DryRunAgrees ==
  \A c \in Calls : \A row \in call[c].row :
    LET rule == DryRun(PolicyOf(c), row) IN
    \/ row.status = "REJECTED" /\ rule = (IF row.rule \in {FeeRule, "budget", "sponsor"} THEN Allowed ELSE row.rule)
    \/ row.status # "REJECTED" /\ rule = Allowed
    \/ row.status = "CONFIRMED" /\ rule = FeeRule /\ \E fee \in row.actual : fee > PolicyOf(c).maxFee
=============================================================================
