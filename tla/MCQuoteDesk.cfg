SPECIFICATION Spec
CONSTANTS
    Skus <- Products
    Listings <- Catalogues
    Basket <- TwoLines
    Campaigns <- ThreeCampaigns
    Negotiates = TRUE
    Proposals <- Offers
    MaxDiscountBps = 2000
    AskedBps = 2500
    Fee = 4
    Calls <- BuyerCalls
    Kind <- FourKinds
    MaxQuotes = 3
    MaxRequests = 2
    MaxResends = 1
    MaxEdits = 1
    MaxCrashes = 1
INVARIANTS
    FloorsHold
    DiscountsAreAuthorized
    OneAnswerPerPayment
    QuotesAreAccounted
CHECK_DEADLOCK FALSE
