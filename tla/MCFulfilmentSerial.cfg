SPECIFICATION FairSpec
CONSTANTS
  OrderIds = {1, 2}
  Calls = {r1}
  MaxEscrows = 2
  FailureKinds = {"offline"}
  MaxFailures = 1
INVARIANTS
  StartedIsFunded
  RecordsAgree
  SettledMeansReleased
PROPERTIES
  NeverRegresses
  PaidIsPrepared
CHECK_DEADLOCK FALSE
