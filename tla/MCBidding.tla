----------------------------- MODULE MCBidding -----------------------------
(***************************************************************************)
(* Small instances of BiddingService for TLC.                              *)
(***************************************************************************)
EXTENDS BiddingService, TLC

\* Answers of the product service: a running auction nobody has bid on, a
\* running auction whose price is known, an auction that is not running, and
\* no product.  Each of the two users meets an auction of their own.
MCViews ==
    {[found |-> TRUE, status |-> "active", seller |-> 1,
      currentPrice |-> 0, startingPrice |-> 0],
     [found |-> TRUE, status |-> "active", seller |-> 2,
      currentPrice |-> 2, startingPrice |-> 1],
     [found |-> TRUE, status |-> "ended", seller |-> 2,
      currentPrice |-> 1, startingPrice |-> 1],
     [found |-> FALSE, status |-> "draft", seller |-> 1,
      currentPrice |-> 0, startingPrice |-> 0]}

\* Any user, any amount.
MCBodies == [BidReqs -> Bodies]

\* Bids of different users and amounts: one of two is the higher one.
MCRivals ==
    {f \in MCBodies : \A q, r \in BidReqs :
        q # r => f[q].user # f[r].user /\ f[q].amount # f[r].amount}

\* A running auction of somebody who does not bid.
MCRunning ==
    {[found |-> TRUE, status |-> "active", seller |-> 3,
      currentPrice |-> 0, startingPrice |-> 0]}

\* Requests and messages are interchangeable: no property names one.
MCSymmetry ==
    Permutations(BidReqs) \cup Permutations(StartMsgs) \cup Permutations(EndMsgs)

=============================================================================
