\* Two reservations across a change of the policy.
CONSTANTS
  u1 = u1
  k1 = k1
  k2 = k2
  None = None
  Requests = {1, 2}
  Users = {u1}
  UserOf <- MCUserOf
  GlobalKey = any
  Tasks = {}
  MaxPolicies = 2
  GlobalLimit <- MCWideLimit
  UserLimit <- MCWideLimit
  Estimated <- MCEstimated
  Unit = 2
  Margin = 1
  Fees = {3}
SPECIFICATION Spec
INVARIANTS
  LimitReflectsLatest
\* The system stops when every request is reserved.
CHECK_DEADLOCK FALSE
