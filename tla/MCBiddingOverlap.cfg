\* Two overlapping bids of different users and amounts on one auction.
SPECIFICATION Spec
CONSTANTS
    Products = {p1}
    Users = {1, 2, 3}
    Buyers = {1, 2}
    Amounts = {1, 2, 3}
    Stamps = {1}
    BidReqs = {r1, r2}
    BodySets <- MCRivals
    StartMsgs = {}
    EndMsgs = {}
    Views <- MCRunning
    Faults = FALSE
SYMMETRY MCSymmetry
INVARIANTS HighestNotOutbid
CHECK_DEADLOCK FALSE
