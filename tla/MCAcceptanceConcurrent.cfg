\* Two requests interleave; notifications are lost and the bridge restarts.
SPECIFICATION Spec
CONSTANTS
    deli = deli
    cafe = cafe
    bakery = bakery
    meal = meal
    cake = cake
    Merchants = {deli, cafe}
    Needs = {meal, cake}
    Essential = {meal}
    OptionShops <- MCOneShop
    Preference <- MCPreferencePair
    Covers <- MCCoversPair
    Provisioned = {deli, cafe}
    StockAtStart <- MCStockPair
    Calls = {r1, r2}
    MaxOrders = 2
    FailureKinds = {"offline", "restart"}
    MaxFailures = 2
INVARIANTS
    FundableHasRow
PROPERTIES
    DecisionIsFinal
SYMMETRY Symmetry
CHECK_DEADLOCK FALSE
