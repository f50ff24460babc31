\* A retry that is answered while the first call is still being decided.
CONSTANTS
  Keys = {k1}
  Hashes = {h1}
  Calls = {c1, c2}
  Endings = {"CONFIRMED"}
  MaxCrashes = 0
  DbFails = FALSE
SPECIFICATION Spec
INVARIANTS
  ApprovedIsQueued
\* The system stops when every call is answered.
CHECK_DEADLOCK FALSE
