SPECIFICATION Spec
CONSTANTS
  OrderIds = {1}
  Calls = {r1, r2}
  MaxEscrows = 2
  FailureKinds = {"abort", "restart"}
  MaxFailures = 1
SYMMETRY CallSymmetry
INVARIANTS
  RecordsAreTrue
  LinkedEscrowIsOwn
PROPERTIES
  ChainFollowsLife
CHECK_DEADLOCK FALSE
