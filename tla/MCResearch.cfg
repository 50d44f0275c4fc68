\* Two merchants; the budget runs out before the research is complete.
SPECIFICATION FairSpec
CONSTANTS
  Tasks = {t1}
  butcher = butcher
  market = market
  Merchants = {butcher, market}
  Runs = {r1, r2}
  Providers = {"mock", "solana"}
  Parallel <- MCParallel
  Price <- MCPrice
  Requests <- MCRequests
  Budget = 7
  PerRequest = 4
  PerDay = 9
  MaxPayments = 3
  MaxMerchants = 2
  MaxRefines = 1
  FailureKinds = {"network", "body", "refusal", "unconfirmed", "lag"}
  MaxFailures = 1
INVARIANTS
  LimitsHold
  BooksAgree
PROPERTIES
  ResearchEnds
CHECK_DEADLOCK FALSE
