---------------------------- MODULE AdmissionOnce ----------------------------
(***************************************************************************)
(* What the sponsorship endpoint promises its clients, with no handlers,   *)
(* lookups or constraints: a request_id is decided once, for one           *)
(* transaction; a transaction is admitted under one request_id only; and   *)
(* what a client is told about its request_id is what was decided.         *)
(*                                                                         *)
(* The promise is that of docs/integration.md, "Choosing request_id and    *)
(* user_id"; Admission is shown to implement it.                           *)
(***************************************************************************)

CONSTANTS Keys, Hashes

VARIABLES
  verdict,    \* verdict[k]: none, pending, admitted or refused
  holds,      \* holds[k]: the transaction of request k, once it is pending
  told        \* what clients were told: [key, hash, says]

vars == <<verdict, holds, told>>

Init ==
  /\ verdict = [k \in Keys |-> "none"]
  /\ holds \in [Keys -> Hashes]
  /\ told = {}

Taken(k, h) == verdict[k] # "none" /\ holds[k] = h

Open(k, h) ==
  /\ verdict[k] = "none"
  /\ \A j \in Keys : Taken(j, h) => verdict[j] = "refused"
  /\ verdict' = [verdict EXCEPT ![k] = "pending"]
  /\ holds'   = [holds EXCEPT ![k] = h]
  /\ UNCHANGED told

Decide(k, v) ==
  /\ verdict[k] = "pending"
  /\ verdict' = [verdict EXCEPT ![k] = v]
  /\ UNCHANGED <<holds, told>>

\* An answer may be older than the decision, but is never another one.
Tell(k, h, says) ==
  /\ Taken(k, h) /\ says \in {"pending", verdict[k]}
  /\ told' = told \cup {[key |-> k, hash |-> h, says |-> says]}
  /\ UNCHANGED <<verdict, holds>>

\* A conflict is answered only when the request_id or the transaction is
\* another request's.
TellConflict(k, h) ==
  /\ \E j \in Keys, g \in Hashes : Taken(j, g) /\ <<j, g>> # <<k, h>> /\ (j = k \/ g = h)
  /\ told' = told \cup {[key |-> k, hash |-> h, says |-> "conflict"]}
  /\ UNCHANGED <<verdict, holds>>

Next ==
  \E k \in Keys, h \in Hashes :
    \/ Open(k, h)
    \/ \E v \in {"admitted", "refused"} : Decide(k, v)
    \/ \E says \in {"pending", "admitted", "refused"} : Tell(k, h, says)
    \/ TellConflict(k, h)

Spec == Init /\ [][Next]_vars

=============================================================================
