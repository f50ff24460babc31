\* Three concurrent calls over two request_ids and two transactions.
CONSTANTS
  Keys = {k1, k2}
  Hashes = {h1, h2}
  Calls = {c1, c2, c3}
  Endings = {"CONFIRMED"}
  MaxCrashes = 1
  DbFails = TRUE
SPECIFICATION Spec
SYMMETRY AllSymmetry
INVARIANTS
  TypeOK
  SponsoredOnce
  OneDriver
  ConflictIsReal
PROPERTIES
  ImplementsOnce
\* The system stops when every call is answered.
CHECK_DEADLOCK FALSE
