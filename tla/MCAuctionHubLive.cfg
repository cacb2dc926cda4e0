\* One bid, start and end and a delete: every handler that starts ends.
SPECIFICATION HubFairSpec
CONSTANTS
    create = create
    start = start
    end = end
    change = change
    p1 = p1
    r1 = r1
    Products = {p1}
    Users = {1, 2, 3}
    Buyers = {1, 2}
    Sellers = {3}
    Prices = {1, 2}
    Amounts = {2, 3}
    Stamps = {1}
    BidReqs = {r1}
    ProdReqs = {create, start, end, change}
    BodySets <- MCBodies
    StartMsgs = {create, start, end, change}
    EndMsgs = {create, start, end, change}
    CallSets <- MCCallsWithDelete
    Views = {}
    MaxCount = 2
    Faults = FALSE
PROPERTIES StoredBidIsHandled EndedIsSettled
CHECK_DEADLOCK FALSE
