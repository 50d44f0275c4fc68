SPECIFICATION TaskSpec
CONSTANTS
    Shops <- FourShops
    Distance <- Far
    Quality <- Good
    Plans <- Lists
    Category <- Kind
    Negotiating <- Hagglers
    Shelves <- ShelvesOf
    MinPrice <- Floors
    RequestedBps = 1000
    LimitBps = 2000
    NegotiationFee = 1
INVARIANT OptionsServeTheList
INVARIANT OptionsAreBest
PROPERTY NegotiationNeverCosts
CHECK_DEADLOCK FALSE
