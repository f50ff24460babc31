\* One call, and a sponsor that is unavailable when its fee is estimated.
CONSTANTS
  Keys = {k1}
  Hashes = {h1}
  Calls = {c1}
  Endings = {"CONFIRMED"}
  MaxCrashes = 0
  DbFails = FALSE
SPECIFICATION Spec
INVARIANTS
  RetryableMaySucceed
\* The system stops when every call is answered.
CHECK_DEADLOCK FALSE
