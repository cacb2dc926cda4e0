\* Requests only: no message, no fault.
SPECIFICATION Spec
CONSTANTS
    p1 = p1
    create = create
    start = start
    end = end
    x = x
    b1 = b1
    Products = {p1}
    Users = {1, 3}
    Sellers = {3}
    Prices = {0, 1, 2}
    Amounts = {2}
    Bids = {b1}
    ProdReqs = {create, start, end, x}
    CallSets <- MCCalls
    InitUser = 0
    WinMsgs = {}
    BidMsgs = {}
    Faults = FALSE
    MaxCount = 2
PROPERTIES LifecycleForward
CHECK_DEADLOCK FALSE
