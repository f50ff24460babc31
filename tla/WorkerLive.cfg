\* Liveness: one request, one restart, database errors at any time.
CONSTANTS
  u1 = u1
  u2 = u2
  p1 = p1
  w1 = w1
  k1 = k1
  k2 = k2
  Requests = {1}
  Users = {u1}
  UserOf <- MCUserOf
  Periods = {p1}
  GlobalKey = "*"
  GlobalLimit = 4
  UserLimit = 4
  Workers = {w1}
  Copies = {k1}
  Concurrency = 2
  MaxAttempts = 1
  ListLimit = 2
  WithTtl = {1}
  Amounts = {2}
  Fees = {3}
  Outcomes = {"ok"}
  MaxCrashes = 1
  DbFails = TRUE
SPECIFICATION FairSpec
PROPERTIES
  EventuallyResolved
\* The system stops when every request is resolved and no worker restarts.
CHECK_DEADLOCK FALSE
