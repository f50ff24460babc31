SPECIFICATION Spec
CONSTANTS
  Secrets = {op, alice}
  Owner = op
  op = op
  alice = alice
  Capacity = 2
  Slots = {j1, j2}
  PageReads = {r1}
  Script = script
  Joining = {op}
  Setup <- MCSetup
  Batches <- MCBatches
INVARIANTS TypeOK OneAdmissionEach ProofsSurviveJoins ThroughIsOnChain ShownYesIsTrue
PROPERTY ImplementsDoor
SYMMETRY MCSymmetry
CHECK_DEADLOCK FALSE
