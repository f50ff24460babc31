------------------------------- MODULE Policy -------------------------------
(***************************************************************************)
(* The policy engine (policy.ts): a policy document after parsing, the     *)
(* summary of a transaction, the claims of the dapp, and the rule that     *)
(* decides.  A value that may be absent is a set with at most one element. *)
(* What a transaction has left to live is measured when its row is         *)
(* created, which is the moment both the pipeline and a dry run judge.     *)
(***************************************************************************)
EXTENDS Integers, Sequences

(* What the schema lets through: a policy never refuses everything by a    *)
(* limit of zero, and amounts are not negative.                            *)
IsPolicy(doc) ==
  /\ \A scope \in DOMAIN doc.rate : doc.rate[scope] > 0
  /\ doc.maxBytes > 0
  /\ doc.minLeft >= 0 /\ doc.maxFee >= 0

(* The rules in the order of evaluation, which is not that of their names. *)
Rules == <<"R1", "R4", "R2", "R6", "R2b", "R2c", "R3", "R5", "R5e", "R7", "R8">>
Allowed == "ALL"
FeeRule == "R9"

Addresses(s) == {s.calls[i].address : i \in DOMAIN s.calls}
EntryPoints(s) == {s.calls[i].entryPoint : i \in DOMAIN s.calls}

Listed(policy, c) == c.address \in DOMAIN policy.contracts
Allows(policy, c) == Listed(policy, c) /\ c.entryPoint \in policy.contracts[c.address]

(* The loop over the calls stops at the first that is not allowed. *)
Refused(policy, s) == {i \in DOMAIN s.calls : ~Allows(policy, s.calls[i])}
FirstRefused(policy, s) ==
  CHOOSE i \in Refused(policy, s) : \A j \in Refused(policy, s) : i <= j

\* Mutant: the entry point is checked only when no contract is claimed.
BreaksBoth(rule, policy, s, claim) ==
  \/ rule = "R1" /\ ~policy.enabled
  \/ rule = "R4" /\ s.deploys
  \/ rule = "R2" /\ s.calls = <<>>
  \/ rule = "R6" /\ s.dusty
  \/ rule = "R2b" /\ Len(s.calls) > 1 /\ ~policy.multiple
  \/ rule = "R2c" /\ Refused(policy, s) # {} /\ ~Listed(policy, s.calls[FirstRefused(policy, s)])
  \/ rule = "R3" /\ Refused(policy, s) # {} /\ Listed(policy, s.calls[FirstRefused(policy, s)])
  \/ rule = "R5" /\ ~(claim.contract \subseteq Addresses(s))
  \/ rule = "R5e" /\ claim.contract = {} /\ ~(claim.entryPoint \subseteq EntryPoints(s))
  \/ rule = "R7" /\ s.bytes > policy.maxBytes
  \/ rule = "R8" /\ \E left \in s.left : left < policy.minLeft
Breaks(rule, policy, s, claim) ==
  \/ rule = "R1" /\ ~policy.enabled
  \/ rule = "R4" /\ s.deploys
  \/ rule = "R2" /\ s.calls = <<>>
  \/ rule = "R6" /\ s.dusty
  \/ rule = "R2b" /\ Len(s.calls) > 1 /\ ~policy.multiple
  \/ rule = "R2c" /\ Refused(policy, s) # {} /\ ~Listed(policy, s.calls[FirstRefused(policy, s)])
  \/ rule = "R3" /\ Refused(policy, s) # {} /\ Listed(policy, s.calls[FirstRefused(policy, s)])
  \/ rule = "R5" /\ ~(claim.contract \subseteq Addresses(s))
  \/ rule = "R5e" /\ ~(claim.entryPoint \subseteq EntryPoints(s))
  \/ rule = "R7" /\ s.bytes > policy.maxBytes
  \/ rule = "R8" /\ \E left \in s.left : left < policy.minLeft

EvaluatePolicy(policy, s, claim) ==
  LET broken == {n \in DOMAIN Rules : Breaks(Rules[n], policy, s, claim)} IN
  IF broken = {} THEN Allowed
  ELSE Rules[CHOOSE n \in broken : \A m \in broken : n <= m]

CheckFeeLimit(policy, fee) == IF fee > policy.maxFee THEN FeeRule ELSE Allowed

(* A candidate policy on a stored row: the fee the chain charged, else the *)
(* estimate, else none, which the row of a request rejected before its     *)
(* reservation never has.                                                  *)
FeeOf(row) == IF row.actual # {} THEN row.actual ELSE row.estimated
\* Mutant: the claims of the dapp are not replayed.
DryRunUnclaimed(candidate, row) ==
  LET rule == EvaluatePolicy(candidate, row.summary, [contract |-> {}, entryPoint |-> {}]) IN
  IF rule = Allowed /\ \E fee \in FeeOf(row) : CheckFeeLimit(candidate, fee) = FeeRule
  THEN FeeRule ELSE rule
DryRun(candidate, row) ==
  LET rule == EvaluatePolicy(candidate, row.summary, row.claim) IN
  IF rule = Allowed /\ \E fee \in FeeOf(row) : CheckFeeLimit(candidate, fee) = FeeRule
  THEN FeeRule ELSE rule
=============================================================================
