---------------------------- MODULE AllowlistDoor ----------------------------
(***************************************************************************)
(* What the example dapp promises: a list that only grows, and a tally of  *)
(* members of the list who entered, each of them once.                     *)
(***************************************************************************)
EXTENDS Naturals

CONSTANT People

VARIABLES
  listed,    \* those the operator put on the list
  entered,   \* those who went through the door
  tally      \* how many did

vars == <<listed, entered, tally>>

Init == listed \in SUBSET People /\ entered = {} /\ tally = 0

Enlist(p) ==
  /\ listed' = listed \cup {p}
  /\ UNCHANGED <<entered, tally>>

Enter(p) ==
  /\ p \in listed
  /\ p \notin entered
  /\ entered' = entered \cup {p}
  /\ tally' = tally + 1
  /\ UNCHANGED listed

Next == \E p \in People : Enlist(p) \/ Enter(p)

Spec == Init /\ [][Next]_vars
=============================================================================
