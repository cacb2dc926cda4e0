\* Two bids and an auction.ended.
SPECIFICATION Spec
CONSTANTS
    Products = {p1}
    Users = {1, 2}
    Buyers = {1, 2}
    Amounts = {1, 2, 3}
    Stamps = {1}
    BidReqs = {r1, r2}
    BodySets <- MCBodies
    StartMsgs = {}
    EndMsgs = {e1}
    Views <- MCViews
    Faults = FALSE
SYMMETRY MCSymmetry
PROPERTIES ExpiryIsKept
CHECK_DEADLOCK FALSE
