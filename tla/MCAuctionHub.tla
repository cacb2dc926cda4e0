---------------------------- MODULE MCAuctionHub ----------------------------
(***************************************************************************)
(* Small instances of AuctionHub for TLC: one product of seller 3 and two  *)
(* buyers.  The requests to the product service are told apart by name.    *)
(***************************************************************************)
EXTENDS AuctionHub, TLC

CONSTANTS create, start, end, change, p1, r1

MCCall(op) ==
    [op |-> op, user |-> 3, product |-> p1, price |-> {IF op = "update" THEN 2 ELSE 1}, valid |-> TRUE]

MCOp(r) == CASE r = create -> "create"
             [] r = start -> "start"
             [] r = end -> "end"
             [] OTHER -> "update"

MCCalls == {[r \in ProdReqs |-> MCCall(MCOp(r))]}

\* A request that never comes: a product cannot be created without a price.
Inert == [op |-> "create", user |-> 3, product |-> p1, price |-> {}, valid |-> TRUE]

\* Nothing more, or one more request: a second start or end, an update or a
\* delete.
MCCallsMixed ==
    {[r \in ProdReqs |-> IF r = change THEN c ELSE MCCall(MCOp(r))] :
        c \in {Inert} \cup {MCCall(op) : op \in {"start", "update", "delete", "end"}}}

\* The product is deleted at some point.
MCCallsWithDelete ==
    {[r \in ProdReqs |-> MCCall(IF r = change THEN "delete" ELSE MCOp(r))]}

MCBody(u, a) == [user |-> u, product |-> p1, amount |-> a, ts |-> 1]

\* Two bidders, the second one higher.
MCBodies ==
    {[r \in BidReqs |-> IF r = r1 THEN MCBody(1, 2) ELSE MCBody(2, 3)]}

\* Two bidders, or a bidder and the seller.
MCBodiesMixed ==
    {[r \in BidReqs |-> IF r = r1 THEN MCBody(1, 2) ELSE MCBody(u, 3)] : u \in {2, 3}}

\* Two bidders and no further request, or one bidder and one.
MCInit ==
    /\ HubInit
    /\ call[change] = Inert <=> \A r \in BidReqs : body[r].user \in Buyers

\* Until an auction.started has been handled, one bid at most has been sent.
OneBidAtStart ==
    Cardinality({r \in BidReqs : pc[r] # "idle"}) > 1 =>
        \E m \in started : startPc[m] = "acked"

MCSpec == MCInit /\ [][HubNext]_hubVars

\* A buyer or the seller.
MCBodiesSeller == {[r \in BidReqs |-> MCBody(u, 2)] : u \in {1, 3}}

=============================================================================
