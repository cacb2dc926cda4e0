------------------------------ MODULE Auction ------------------------------
(***************************************************************************)
(* What bidding and product service promise together about the auction of  *)
(* a product, whatever their steps, calls and messages.  Bids come only    *)
(* after it was begun and never from the seller; the price is the one that *)
(* was asked or that of an accepted bid; the winner was, at some moment    *)
(* after the auction was begun, the highest bidder there was.              *)
(*                                                                         *)
(* It does not promise what the code does not keep: an auction may be      *)
(* begun again after it has ended, bids may come late, and whoever is      *)
(* named as the winner may have been outbid since.                         *)
(***************************************************************************)
EXTENDS Naturals

CONSTANTS
    Products, Bids, Sellers,
    Prices,  \* what a seller may ask
    Nobody   \* named while an auction has no bid

VARIABLES
    offer,     \* bid |-> its user, product and amount; fixed
    auction,   \* product |-> life, seller, status, prices, counter and winner
    accepted,  \* the bids that stand
    named      \* <<product, {user}>>: named as its highest bidder

vars == <<offer, auction, accepted, named>>

Unlisted ==
    [life |-> "absent", seller |-> Nobody, status |-> "draft",
     startingPrice |-> 0, currentPrice |-> 0, totalBids |-> 0, winner |-> {}]

Init ==
    /\ auction = [p \in Products |-> Unlisted]
    /\ accepted = {}
    /\ named = {}

Live(p) == auction[p].life = "live"
Begun(p) == auction[p].status # "draft"

BidsOn(p) == {b \in accepted : offer[b].product = p}

\* Those whose bid is not below any other.
Best(p) ==
    IF BidsOn(p) = {} THEN {Nobody}
    ELSE {offer[b].user : b \in {c \in BidsOn(p) :
              \A d \in BidsOn(p) : offer[d].amount <= offer[c].amount}}

List(p) ==
    /\ auction[p].life = "absent"
    /\ \E s \in Sellers, x \in Prices :
           auction' = [auction EXCEPT ![p] =
               [life |-> "live", seller |-> s, status |-> "draft",
                startingPrice |-> x, currentPrice |-> x, totalBids |-> 0,
                winner |-> {}]]
    /\ UNCHANGED <<offer, accepted, named>>

Reprice(p) ==
    /\ Live(p)
    /\ \E x \in Prices :
           auction' = [auction EXCEPT ![p].startingPrice = x, ![p].currentPrice = x]
    /\ UNCHANGED <<offer, accepted, named>>

Begin(p) ==
    /\ Live(p)
    /\ auction' = [auction EXCEPT ![p].status = "active"]
    /\ UNCHANGED <<offer, accepted, named>>

Accept(b) ==
    /\ b \notin accepted
    /\ Begun(offer[b].product)
    /\ offer[b].user # auction[offer[b].product].seller
    /\ accepted' = accepted \cup {b}
    /\ UNCHANGED <<offer, auction, named>>

\* The counter of bids is left open: messages that are repeated count twice,
\* those that are handled together once.
Follow(p) ==
    /\ Live(p)
    /\ auction'[p].totalBids > 0
    /\ \E b \in BidsOn(p) :
           auction' = [auction EXCEPT ![p].currentPrice = offer[b].amount,
                                      ![p].totalBids = auction'[p].totalBids]
    /\ UNCHANGED <<offer, accepted, named>>

Name(p) ==
    /\ Begun(p)
    /\ \E u \in Best(p) : named' = named \cup {<<p, {u}>>}
    /\ UNCHANGED <<offer, auction, accepted>>

\* A name may be lost before it is used.
Forget(n) ==
    /\ n \in named
    /\ named' = named \ {n}
    /\ UNCHANGED <<offer, auction, accepted>>

Conclude(p) ==
    /\ Live(p) /\ Begun(p)
    /\ \E w \in {auction[p].winner} \cup {n[2] : n \in {k \in named : k[1] = p}} :
           auction' = [auction EXCEPT ![p].status = "ended", ![p].winner = w]
    /\ UNCHANGED <<offer, accepted, named>>

Remove(p) ==
    /\ Live(p)
    /\ auction' = [auction EXCEPT ![p].life = "deleted"]
    /\ UNCHANGED <<offer, accepted, named>>

Next ==
    \/ \E p \in Products :
           \/ List(p) \/ Reprice(p) \/ Begin(p) \/ Follow(p)
           \/ Name(p) \/ Conclude(p) \/ Remove(p)
    \/ \E b \in Bids : Accept(b)
    \/ \E n \in named : Forget(n)

Spec == Init /\ [][Next]_vars

=============================================================================
