\* One request at a time; the bakery has no organisation in Postgres, and the
\* bridge may restart between any two writes.
SPECIFICATION FairSpec
CONSTANTS
    deli = deli
    cafe = cafe
    bakery = bakery
    meal = meal
    cake = cake
    Merchants = {deli, cafe, bakery}
    Needs = {meal, cake}
    Essential = {meal}
    OptionShops <- MCOptionShops
    Preference <- MCPreference
    Covers <- MCCovers
    Provisioned = {deli, cafe}
    StockAtStart <- MCStock
    Calls = {r1}
    MaxOrders = 5
    FailureKinds = {"restart"}
    MaxFailures = 2
INVARIANTS
    HashesAgree
    BasketsAreAccounted
    WindowEndsWhole
PROPERTIES
    DeadOrdersStayDead
    SagaResolves
CHECK_DEADLOCK FALSE
