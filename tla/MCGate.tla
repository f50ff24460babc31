------------------------------- MODULE MCGate -------------------------------
(* Documents, transactions and claims for Gate: a strict and a loose       *)
(* policy, one that is none, and transactions that break most rules.       *)
EXTENDS Gate, TLC

CONSTANTS door, vault, enter, leave

Strict == [enabled |-> TRUE, contracts |-> door :> {enter}, multiple |-> FALSE, maxFee |-> 1,
           maxBytes |-> 1, minLeft |-> 1, rate |-> [cred |-> 3, ip |-> 1, user |-> 1]]
Loose == [Strict EXCEPT !.contracts = (door :> {enter, leave}) @@ (vault :> {}), !.multiple = TRUE,
                        !.maxFee = 2, !.rate.cred = 2]
Closed == [Strict EXCEPT !.rate.user = 0]
MCDocs == {Strict, Loose, Closed}

CallOf(a, e) == [address |-> a, entryPoint |-> e]
Good == [calls |-> <<CallOf(door, enter)>>, deploys |-> FALSE, dusty |-> FALSE, bytes |-> 1, left |-> {1}]
NoClaim == [contract |-> {}, entryPoint |-> {}]
Unclaimed(s) == [summary |-> s, claim |-> NoClaim]
Claimed(s, a, e) == [summary |-> s, claim |-> [contract |-> {a}, entryPoint |-> {e}]]
Both == [Good EXCEPT !.calls = <<CallOf(door, enter), CallOf(door, leave)>>]

MCTraffic ==
  {Claimed(Good, door, enter), Claimed(Good, door, leave), Claimed(Both, door, leave),
   Unclaimed([Good EXCEPT !.deploys = TRUE, !.calls = <<>>]),
   Unclaimed([Good EXCEPT !.dusty = TRUE]),
   Unclaimed([Good EXCEPT !.calls = <<CallOf(vault, enter)>>]),
   Unclaimed([Good EXCEPT !.left = {0}]), Unclaimed([Good EXCEPT !.bytes = 2])}

MCMaxHits == [kind \in {"cred", "ip", "user", "read"} |-> IF kind \in {"cred", "user"} THEN 2 ELSE 1]
MCSymmetry == Permutations(Admins)
=============================================================================
