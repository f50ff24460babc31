\* Two requests of one budget, reservations of different sizes, one restart.
CONSTANTS
  u1 = u1
  u2 = u2
  p1 = p1
  w1 = w1
  k1 = k1
  k2 = k2
  Requests = {1, 2}
  Users = {u1}
  UserOf <- MCUserOf
  Periods = {p1}
  GlobalKey = "*"
  GlobalLimit = 4
  UserLimit = 4
  Workers = {w1}
  Copies = {k1}
  Concurrency = 2
  MaxAttempts = 1
  ListLimit = 2
  WithTtl = {1}
  Amounts = {1, 3}
  Fees = {2}
  Outcomes = {"ok"}
  MaxCrashes = 1
  DbFails = FALSE
SPECIFICATION Spec
INVARIANTS
  WithinLimit
  TypeOK
  NoOrphans
PROPERTIES
  ImplementsLedger
\* The system stops when every request is resolved and no worker restarts.
CHECK_DEADLOCK FALSE
