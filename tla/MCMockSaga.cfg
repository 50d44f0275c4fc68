SPECIFICATION FairSpec
CONSTANTS
  m1 = m1
  m2 = m2
  m3 = m3
  Merchants = {m1, m2, m3}
  Plan <- TwoShops
  Essential = {1}
  Covers <- ThirdStandsIn
  Stock <- OneUnitEach
  Balance = 2
  FailSlugs = {m1}
  NeverPrepares = {m2}
  MaxOrders = 3
  MaxFailures = 1
INVARIANTS
  BooksFollowChain
  ReceiptIsTrue
  MoneyAndStockAddUp
PROPERTIES
  OverdueIsSettled
  FundingEnds
CHECK_DEADLOCK FALSE
