-------------------------- MODULE SponsorshipLedger --------------------------
(***************************************************************************)
(* What the budget of the system promises, with no rows, tasks or crashes: *)
(* a request takes at most one reservation, in a set of buckets that all   *)
(* have room for it, and later that reservation is either freed or settled *)
(* against the fee actually paid, once, for the amount reserved.           *)
(*                                                                         *)
(* This is the reading of HOLDS_RESERVATION in packages/core/src/state.ts  *)
(* and of reserve / settle / release in packages/db/src/budgets.ts that    *)
(* SponsorWorker is shown to implement.                                    *)
(***************************************************************************)
EXTENDS Integers

CONSTANTS Requests, Buckets, Limit, Amounts, Fees

VARIABLES
  state,      \* state[r]: none, held, freed or settled
  held,       \* held[r]: the amount reserved
  places,     \* places[r]: the buckets it is reserved in
  reserved,   \* reserved[b], settled[b]: the totals of bucket b
  settled

vars == <<state, held, places, reserved, settled>>

Init ==
  /\ state    = [r \in Requests |-> "none"]
  /\ held     = [r \in Requests |-> 0]
  /\ places   = [r \in Requests |-> {}]
  /\ reserved = [b \in Buckets |-> 0]
  /\ settled  = [b \in Buckets |-> 0]

\* f with x added at every bucket of B.
Add(f, B, x) == [b \in Buckets |-> IF b \in B THEN f[b] + x ELSE f[b]]

Hold(r, B, a) ==
  /\ state[r] = "none"
  /\ \A b \in B : reserved[b] + settled[b] + a <= Limit[b]
  /\ state'    = [state EXCEPT ![r] = "held"]
  /\ held'     = [held EXCEPT ![r] = a]
  /\ places'   = [places EXCEPT ![r] = B]
  /\ reserved' = Add(reserved, B, a)
  /\ UNCHANGED settled

Free(r) ==
  /\ state[r] = "held"
  /\ state'    = [state EXCEPT ![r] = "freed"]
  /\ reserved' = Add(reserved, places[r], -held[r])
  /\ UNCHANGED <<held, places, settled>>

SettleFor(r, fee) ==
  /\ state[r] = "held"
  /\ state'    = [state EXCEPT ![r] = "settled"]
  /\ reserved' = Add(reserved, places[r], -held[r])
  /\ settled'  = Add(settled, places[r], fee)
  /\ UNCHANGED <<held, places>>

Next ==
  \E r \in Requests :
    \/ \E B \in SUBSET Buckets, a \in Amounts : Hold(r, B, a)
    \/ Free(r)
    \/ \E fee \in Fees : SettleFor(r, fee)

Spec == Init /\ [][Next]_vars

=============================================================================
