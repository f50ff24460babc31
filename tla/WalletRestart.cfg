\* Two requests and one DUST coin; a crash, a failed synchronisation or a
\* frozen event loop, once.
CONSTANTS
  r1 = r1
  r2 = r2
  c1 = c1
  Nobody = Nobody
  Requests = {r1, r2}
  Coins = {c1}
  Concurrency = 2
  MaxAttempts = 2
  Floor = 0
  MaxFaults = 1
  Starters = {"api", "worker"}
  Files = 2
SPECIFICATION FairSpec
INVARIANTS
  TypeOK
  DoubleSpendIsUndrained
  VerdictIsTrue
  SponsorPaysOnlyFees
PROPERTIES
  EveryRequestEnds
\* The system stops when every request has ended.
CHECK_DEADLOCK FALSE
