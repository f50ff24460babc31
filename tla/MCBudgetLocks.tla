---------------------------- MODULE MCBudgetLocks ----------------------------
(* Values for the constants of BudgetLocks that a .cfg cannot write.        *)
EXTENDS BudgetLocks, TLC

CONSTANTS u1, k1, k2

MCUserOf      == [r \in Requests |-> u1]
MCGlobalLimit == [p \in Policies |-> IF p = 1 THEN 6 ELSE 3]
MCUserLimit   == [p \in Policies |-> 5]
MCWideLimit   == [p \in Policies |-> IF p = 1 THEN 6 ELSE 5]
MCEstimated   == [r \in Requests |-> r]

TasksSymmetry == Permutations(Tasks)

=============================================================================
