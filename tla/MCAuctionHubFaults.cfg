\* One bid, start and end; requests die, messages are lost or repeated.
SPECIFICATION HubSpec
CONSTANTS
    create = create
    start = start
    end = end
    change = change
    p1 = p1
    r1 = r1
    Products = {p1}
    Users = {1, 2, 3}
    Buyers = {1, 2}
    Sellers = {3}
    Prices = {1, 2}
    Amounts = {2, 3}
    Stamps = {1}
    BidReqs = {r1}
    ProdReqs = {create, start, end}
    BodySets <- MCBodiesSeller
    StartMsgs = {create, start, end}
    EndMsgs = {create, start, end}
    CallSets <- MCCalls
    Views = {}
    MaxCount = 2
    Faults = TRUE
INVARIANTS PriceIsBacked WinnerIsEligible WinnerOutrunsSeen HandlersGoOn
CHECK_DEADLOCK FALSE
