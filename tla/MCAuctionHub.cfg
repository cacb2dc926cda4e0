\* Two overlapping bids, or one bid and one more request of the owner.
SPECIFICATION MCSpec
CONSTANTS
    create = create
    start = start
    end = end
    change = change
    p1 = p1
    r1 = r1
    Products = {p1}
    Users = {1, 2, 3}
    Buyers = {1, 2}
    Sellers = {3}
    Prices = {1, 2}
    Amounts = {2, 3}
    Stamps = {1}
    BidReqs = {r1, r2}
    ProdReqs = {create, start, end, change}
    BodySets <- MCBodiesMixed
    StartMsgs = {create, start, end, change}
    EndMsgs = {create, start, end, change}
    CallSets <- MCCallsMixed
    Views = {}
    MaxCount = 2
    Faults = FALSE
INVARIANTS PriceIsBacked CountIsBacked WinnerIsEligible WinnerAgreement WinnerOutrunsSeen
INVARIANTS WinnerStands BidsAreReflected BookIsExact
PROPERTIES ImplementsAuction
CONSTRAINT OneBidAtStart
CHECK_DEADLOCK FALSE
