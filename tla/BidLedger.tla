----------------------------- MODULE BidLedger -----------------------------
(***************************************************************************)
(* What the store of bids promises, without Redis: a ledger of bids.  A    *)
(* bidder is quoted the bids that stand on the product; the ledger accepts *)
(* an offer that beats its quote, keeps it for good, and may settle it as  *)
(* outbid or winner, after which it is never active again.  Two bidders    *)
(* quoted before either is accepted may both be accepted, in any order.    *)
(***************************************************************************)
EXTENDS Naturals

CONSTANT Bids

VARIABLES
    offer,     \* bid |-> product, user and amount; fixed
    floor,     \* bid |-> {} before the quote, then {bids standing at the quote}
    standing   \* bid |-> "none", "active", "outbid" or "winner"

lVars == <<offer, floor, standing>>

Standing(p) == {b \in Bids : standing[b] # "none" /\ offer[b].product = p}

Init ==
    /\ floor = [b \in Bids |-> {}]
    /\ standing = [b \in Bids |-> "none"]

Quote(b) ==
    /\ floor[b] = {}
    /\ floor' = [floor EXCEPT ![b] = {Standing(offer[b].product)}]
    /\ UNCHANGED <<offer, standing>>

Accept(b) ==
    /\ standing[b] = "none"
    /\ \E S \in floor[b] : \A c \in S : offer[c].amount < offer[b].amount
    /\ standing' = [standing EXCEPT ![b] = "active"]
    /\ UNCHANGED <<offer, floor>>

Settle(b) ==
    /\ standing[b] # "none"
    /\ \E s \in {"outbid", "winner"} :
           standing' = [standing EXCEPT ![b] = s]
    /\ UNCHANGED <<offer, floor>>

Next == \E b \in Bids : Quote(b) \/ Accept(b) \/ Settle(b)

Spec == Init /\ [][Next]_lVars

=============================================================================
