\* Two requests of one user, each ended by up to two tasks, with failing transactions.
CONSTANTS
  u1 = u1
  k1 = k1
  k2 = k2
  None = None
  Requests = {1, 2}
  Users = {u1}
  UserOf <- MCUserOf
  GlobalKey = any
  Tasks = {k1, k2}
  MaxPolicies = 2
  GlobalLimit <- MCGlobalLimit
  UserLimit <- MCUserLimit
  Estimated <- MCEstimated
  Unit = 2
  Margin = 1
  Fees = {3}
SPECIFICATION Spec
SYMMETRY TasksSymmetry
INVARIANTS
  TypeOK
  NoDeadlock
PROPERTIES
  ReservationFits
  ImplementsLedger
\* The system stops when every request is ended.
CHECK_DEADLOCK FALSE
