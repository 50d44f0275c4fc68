SPECIFICATION Spec
CONSTANTS
    seed = seed
    shop = shop
    o1 = o1
    d1 = d1
    d2 = d2
    r1 = r1
    r2 = r2
    Mint = 90
    Relayer = 80
    Buyer = 70
    Orgs <- TheOrgs
    SeedId <- Numbers
    SeedWallet <- SeedKeys
    Payout <- PayoutOf
    Requests <- TwoRequests
    Orders <- OneOrder
    OrgOf <- Merchant
    Disputes <- TwoDisputes
    OrderOf <- About
    MaxListings = 2
    MaxEscrows = 2
SYMMETRY Swap
CONSTRAINT OneAtATime
INVARIANT RegistryIsSound
INVARIANT DisputesFollowChain
INVARIANT CallsArrive
CHECK_DEADLOCK FALSE
