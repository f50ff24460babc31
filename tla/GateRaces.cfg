SPECIFICATION Spec
CONSTANTS
  door = door
  vault = vault
  enter = enter
  leave = leave
  Calls = {c1}
  Keys = {k1}
  Users = {u1}
  Ips = {i1}
  Admins = {a1, a2}
  Docs <- MCDocs
  Traffic <- MCTraffic
  Fees = {1, 2}
  MaxVersion = 2
  MaxHits <- MCMaxHits
  MaxTries = 3
  Window = 2
  ReadFloor = 2
INVARIANTS TypeOK RateHolds RefusedTwiceAtMost AdmittedWasLive JudgedByCurrent PutLosesTwice ClaimIsTheCall DryRunAgrees
PROPERTY VersionsGrow
SYMMETRY MCSymmetry
CHECK_DEADLOCK FALSE
