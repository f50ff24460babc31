\* One request driven by up to two tasks at once: a restart, database errors,
\* recovery passes that are retried while earlier tasks run, the reconciler.
CONSTANTS
  u1 = u1
  u2 = u2
  p1 = p1
  w1 = w1
  k1 = k1
  k2 = k2
  Requests = {1}
  Users = {u1}
  UserOf <- MCUserOf
  Periods = {p1}
  GlobalKey = "*"
  GlobalLimit = 4
  UserLimit = 4
  Workers = {w1}
  Copies = {k1, k2}
  Concurrency = 2
  MaxAttempts = 2
  ListLimit = 2
  WithTtl = {1}
  Amounts = {2}
  Fees = {3}
  Outcomes = {"ok", "partial"}
  MaxCrashes = 2
  DbFails = TRUE
SPECIFICATION Spec
SYMMETRY CopiesSymmetry
INVARIANTS
  BudgetMatchesRequests
  UsageMatchesConfirmed
  PersistedBeforeSubmit
  ConfirmedIsIncluded
  AttemptsBounded
  OneSponsorPerRequest
\* The system stops when every request is resolved and no worker restarts.
CHECK_DEADLOCK FALSE
