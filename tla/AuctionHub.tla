----------------------------- MODULE AuctionHub -----------------------------
(***************************************************************************)
(* The bidding service and the product service together: GET /products/:id *)
(* and GET /bids/product/:id/highest between them, and the four RabbitMQ   *)
(* queues auction.started, auction.ended (to bidding), bid.placed and      *)
(* auction.winner (to product).  A message is named by the request that    *)
(* publishes it.                                                           *)
(***************************************************************************)
EXTENDS BiddingService, FiniteSets

CONSTANTS
    Sellers,     \* users whose role is seller
    Prices,      \* prices a seller may ask
    ProdReqs,    \* HTTP requests to the product service
    CallSets,    \* the assignments of calls to them to consider
    MaxCount     \* bound on totalBids, for restarts

\* auction.started and auction.ended are named by the request behind them, and
\* a user has one role.
ASSUME HubAssumption ==
    /\ StartMsgs = ProdReqs /\ EndMsgs = ProdReqs
    /\ Buyers \cap Sellers = {}

VARIABLES
    product, call, ppc, answer,
    bidInbox, bidRead, winInbox, started, ended

P == INSTANCE ProductService WITH Bids <- BidReqs, BidMsgs <- {}, WinMsgs <- {}

ASSUME ProductSide == P!ProductAssumption

prodVars == <<product, call, ppc, answer, bidInbox, bidRead, winInbox,
              started, ended>>

hubVars == <<bVars, prodVars>>

-----------------------------------------------------------------------------
\* GET /products/:id
ViewOf(p) ==
    [found |-> product[p].life = "live", status |-> product[p].status,
     seller |-> product[p].seller, currentPrice |-> product[p].currentPrice,
     startingPrice |-> product[p].startingPrice]

\* GET /bids/product/:id/highest: its userId.
HighestBidder(p) == {t.user : t \in Tops(book[p])}

HubInit ==
    /\ Init /\ P!Init
    /\ \A m \in ProdReqs : startOf[m] = call[m].product
                           /\ endOf[m] = call[m].product

-----------------------------------------------------------------------------
(* Steps of the bidding service.                                           *)

HubValidateBid(r) ==
    ValidateBid(r, ViewOf(body[r].product)) /\ UNCHANGED prodVars

HubBidStep(r) ==
    /\ \/ CheckHighest(r) \/ StoreBid(r) \/ PushBid(r) \/ ReadBook(r)
       \/ LookupBid(r) \/ WriteOutbid(r) \/ PublishBidOutbid(r)
    /\ UNCHANGED prodVars

\* bid.placed goes to the product service's queue.
PlacedMessage(r) ==
    [bid |-> r, product |-> body[r].product, amount |-> body[r].amount]

HubPublishBidPlaced(r) ==
    /\ PublishBidPlaced(r)
    /\ bidInbox' = bidInbox \cup {PlacedMessage(b) : b \in Announced(r)}
    /\ UNCHANGED <<product, call, ppc, answer, bidRead, winInbox,
                   started, ended>>

HubStartStep(m) == m \in started /\ StartStep(m) /\ UNCHANGED prodVars

HubEndStep(m) ==
    /\ m \in ended
    /\ \/ ReadWinner(m) \/ FindWinner(m) \/ CrownWinner(m)
       \/ CollectKeys(m) \/ ExpireBook(m)
    /\ UNCHANGED prodVars

\* auction.winner goes to the product service's queue.
HubPublishWinner(m) ==
    /\ m \in ended
    /\ PublishAuctionWinner(m)
    /\ winInbox' = winInbox \cup
           {[msg |-> m, product |-> endOf[m], winner |-> {t.user : t \in won[m]}]}
    /\ UNCHANGED <<product, call, ppc, answer, bidInbox, bidRead,
                   started, ended>>

(* Steps of the product service.                                           *)

HubCallStep(r) == P!CallStep(r) /\ UNCHANGED bVars

HubAskWinner(r) ==
    P!AskWinner(r, HighestBidder(call[r].product)) /\ UNCHANGED bVars

HubConsumerStep == P!ConsumerStep /\ UNCHANGED bVars

HubFault ==
    \/ BiddingFault /\ UNCHANGED prodVars
    \/ P!ProductFault /\ UNCHANGED bVars

HubNext ==
    \/ \E r \in BidReqs :
           HubValidateBid(r) \/ HubBidStep(r) \/ HubPublishBidPlaced(r)
    \/ \E m \in ProdReqs : HubStartStep(m) \/ HubEndStep(m) \/ HubPublishWinner(m)
    \/ \E r \in ProdReqs : HubCallStep(r) \/ HubAskWinner(r)
    \/ HubConsumerStep
    \/ HubFault

HubSpec == HubInit /\ [][HubNext]_hubVars

-----------------------------------------------------------------------------
(* Fairness: Node runs a handler it has started to its end, and RabbitMQ    *)
(* delivers what is queued.  Nothing makes a client send its request.       *)

HubFairness ==
    /\ \A r \in BidReqs : WF_hubVars(HubBidStep(r) \/ HubPublishBidPlaced(r))
    /\ \A m \in ProdReqs : WF_hubVars(HubStartStep(m))
    /\ \A m \in ProdReqs : WF_hubVars(HubEndStep(m) \/ HubPublishWinner(m))
    /\ \A r \in ProdReqs :
           WF_hubVars(HubAskWinner(r) \/ (P!WriteStep(r) /\ UNCHANGED bVars))
    /\ WF_hubVars(HubConsumerStep)

HubFairSpec == HubSpec /\ HubFairness

-----------------------------------------------------------------------------
(* What is checked.                                                        *)

\* A current price that is not the starting price is the amount of a bid that
\* is in the book of this product and was announced.
PriceIsBacked ==
    \A p \in Products : product[p].currentPrice # product[p].startingPrice =>
        \E r \in Stored(p) \cap bidPlaced :
            body[r].amount = product[p].currentPrice

\* Whoever the product names as its winner has a bid in its book, or is the
\* dummy of initializeProductBids, and is never its seller.
WinnerIsEligible ==
    \A p \in Products : \A u \in product[p].winner :
        /\ u # product[p].seller
        /\ u = InitUser \/ \E r \in Stored(p) : body[r].user = u

\* The winner of an auction is one of its bidders.
WinnerIsBidder ==
    \A p \in Products : \A u \in product[p].winner :
        \E r \in Stored(p) : body[r].user = u

\* The counter of bids is never ahead of the bids announced.
CountIsBacked ==
    \A p \in Products :
        product[p].totalBids <= Cardinality(Stored(p) \cap bidPlaced)

\* Every request is answered and every message is acknowledged.
Quiet ==
    /\ \A r \in BidReqs : pc[r] \in {"idle", "rejected", "done"}
    /\ \A r \in ProdReqs : ppc[r] \in {"idle", "rejected", "done"}
    /\ \A m \in started : startPc[m] = "acked"
    /\ \A m \in ended : endPc[m] = "acked"
    /\ bidInbox = {} /\ winInbox = {}

\* When everything is quiet, and no bid slipped in after a handler of
\* auction.ended read the book, the product names the highest bidder.
WinnerAgreement ==
    Quiet => \A p \in Products :
        LET ends == {m \in ended : endOf[m] = p}
        IN  /\ ends # {} /\ \A m \in ends : seen[m] = Stored(p)
            /\ Stored(p) # {} /\ product[p].life = "live"
            => product[p].winner = HighestBidder(p)

\* When everything is quiet, the product names a bidder whose bid is not below
\* any bid that every handler of its auction.ended had found in the book: late
\* bids, repeated ends and overtaken answers never pass such a bid over.
WinnerStands ==
    Quiet => \A p \in Products :
        LET ends == {m \in ended : endOf[m] = p}
            known == {b \in Stored(p) : \A m \in ends : b \in seen[m]}
        IN  product[p].life = "live" /\ ends # {} /\ known # {} =>
                \E x \in Stored(p) :
                    /\ product[p].winner = {body[x].user}
                    /\ \A b \in known : ~Above(Member(b), Member(x))

\* No update of the product was written.
NeverRepriced(p) ==
    \A r \in ProdReqs : call[r].op = "update" /\ call[r].product = p => ppc[r] # "done"

\* When everything is quiet, a product that has bids counts at least one, and
\* shows the amount of one unless an update has set its price again.
BidsAreReflected ==
    Quiet => \A p \in Products :
        product[p].life = "live" /\ Stored(p) # {} =>
            /\ product[p].totalBids > 0
            /\ NeverRepriced(p) => \E r \in Stored(p) :
                                      product[p].currentPrice = body[r].amount

\* When everything is quiet, the book holds the stored bids and nothing else:
\* however many auction.started are handled at once, the dummy is gone.
BookIsExact == Quiet => \A p \in Products : book[p] = StoredMembers(p)

\* A bid that is stored is announced, and the product service handles it.
StoredBidIsHandled ==
    \A r \in BidReqs :
        status[r] # "none" ~> r \in bidPlaced /\ \A m \in bidInbox : m.bid # r

\* An auction.ended that is published ends in a handled auction.winner.
EndedIsSettled ==
    \A m \in ProdReqs :
        m \in ended ~> endPc[m] = "acked" /\ \A w \in winInbox : w.msg # m

\* Who was named as the highest bidder: by GET /bids/product/:id/highest, and by
\* what the handlers of auction.ended have read and announced.
Names ==
    {<<call[r].product, answer[r]>> : r \in {k \in ProdReqs : answer[k] # {}}}
    \cup {<<endOf[m], {t.user : t \in won[m]}>> : m \in {k \in EndMsgs : won[k] # {}}}
    \cup {<<w.product, w.winner>> : w \in {v \in auctionWinner : v.winner # {}}}

\* Both services together implement Auction: a bid is stored only after its
\* auction was begun, and whoever is written as the winner was at some moment
\* since then the highest bidder of the book.
Sale == INSTANCE Auction WITH
    Bids <- BidReqs, Nobody <- InitUser, offer <- body, auction <- product,
    accepted <- {r \in BidReqs : status[r] # "none"}, named <- Names

ImplementsAuction == Sale!Spec

-----------------------------------------------------------------------------
(* The invariant behind these properties: what is on its way from one      *)
(* service to the other is backed by the store of bids.                    *)

\* bid.placed messages, in the queue or in the hands of a handler, repeat the
\* body of a stored bid whose request is past its marks.
MessageInv ==
    /\ \A m \in bidInbox \cup {h.msg : h \in bidRead} :
           /\ m.bid \in bidPlaced
           /\ m.product = body[m.bid].product /\ m.amount = body[m.bid].amount
    /\ \A r \in bidPlaced : status[r] # "none" /\ pc[r] \in {"announce", "done", "lost"}

Bidders(p) == {InitUser} \cup {body[r].user : r \in Stored(p)}

\* Whoever is read, answered, announced or written as a winner is a bidder.
NamesInv ==
    /\ BookOfBids
    /\ \A m \in ProdReqs :
           /\ \A t \in won[m] : t.user \in Bidders(endOf[m])
           /\ \A x, y \in won[m] : x = y
    /\ \A r \in ProdReqs : answer[r] \subseteq Bidders(call[r].product)
    /\ \A w \in winInbox : w.winner \subseteq Bidders(w.product)
    /\ \A p \in Products : product[p].winner \subseteq Bidders(p)

\* A request that was let through bids on a product of somebody else, whose
\* seller stays.
SellerInv ==
    /\ P!AbsentInv
    /\ \A p \in Products : product[p].life # "absent" => product[p].seller \in Users
    /\ \A r \in BidReqs : pc[r] \notin {"idle", "rejected"} =>
           LET d == product[body[r].product]
           IN  d.life # "absent" /\ d.seller # body[r].user

\* The winner read is the highest of the bids seen.
SeenInv ==
    \A m \in ProdReqs :
        /\ endOf[m] = call[m].product
        /\ seen[m] # {} => won[m] = Tops({Member(r) : r \in seen[m]})

HubInv == /\ IInv /\ P!TypeOK /\ MessageInv /\ PriceIsBacked
          /\ NamesInv /\ SellerInv /\ SeenInv

\* Without faults: the counter is at most the number of bids whose message was
\* handled, and so is the count that each handler has read.
Handled(p) ==
    {r \in bidPlaced : body[r].product = p /\ \A m \in bidInbox : m.bid # r}

CountInv ==
    /\ \A p \in Products : product[p].totalBids <= Cardinality(Handled(p))
    /\ \A h \in bidRead :
           /\ h.msg \in bidInbox
           /\ h.count <= Cardinality(Handled(h.msg.product))
           /\ \A k \in bidRead : h.msg = k.msg => h = k

\* Without faults: the last end-auction to be concluded has written the winner
\* that its handler read, unless another one is still to be concluded.
Concluded(m) == endPc[m] = "acked" /\ \A w \in winInbox : w.msg # m

Ends(p) == {r \in ProdReqs : call[r].op = "end" /\ call[r].product = p}

EndInv ==
    /\ \A r \in ProdReqs :
           /\ r \in ended => call[r].op = "end" /\ ppc[r] = "done"
           /\ r \notin ended => endPc[r] = "ready"
           /\ ppc[r] = "publish" \/ r \in ended =>
                  product[call[r].product].life # "absent"
    /\ \A w \in winInbox :
           /\ endPc[w.msg] = "acked" /\ w.product = call[w.msg].product
           /\ w.winner = {t.user : t \in won[w.msg]}

ConcludedInv ==
    \A p \in Products :
        product[p].life = "live" /\ (\E m \in Ends(p) : Concluded(m)) =>
            \E m \in Ends(p) :
                \/ ppc[m] = "publish"
                \/ m \in ended /\ ~Concluded(m)
                \/ /\ Concluded(m)
                   /\ won[m] # {} => product[p].winner = {t.user : t \in won[m]}

QuietInv == HubInv /\ EndInv /\ ConcludedInv

\* What the handlers have seen goes on being stored.
StandInv == QuietInv /\ \A m \in ProdReqs : seen[m] \subseteq Stored(endOf[m])

\* Without faults: a bid whose message was handled is reflected in its product.
ReflectInv ==
    \A p \in Products : product[p].life = "live" /\ Handled(p) # {} =>
        /\ product[p].totalBids > 0
        /\ NeverRepriced(p) => \E r \in Stored(p) :
                                  product[p].currentPrice = body[r].amount

\* Without faults: the dummy is in a book only while a handler of
\* auction.started is about to remove it.
DummyInv ==
    /\ \A p \in Products : InitMember \in book[p] =>
           \E m \in ProdReqs : startOf[m] = p /\ startPc[m] = "remove"
    /\ \A m \in ProdReqs : m \notin started => startPc[m] = "ready"

\* The condition under which WinnerIsBidder holds all the same: while a handler of
\* auction.started is between ZADD and ZREM, nobody is about to read that book.
DummyUnread ==
    \A m \in ProdReqs : startPc[m] = "remove" =>
        /\ \A r \in ProdReqs : ppc[r] = "ask" => call[r].product # startOf[m]
        /\ \A e \in ended : endPc[e] = "ready" => endOf[e] # startOf[m]

\* Then whoever is read, answered, announced or written as a winner has bid.
RealBidders(p) == {body[r].user : r \in Stored(p)}

RealNamesInv ==
    /\ \A m \in ProdReqs : \A t \in won[m] : t.user \in RealBidders(endOf[m])
    /\ \A r \in ProdReqs : answer[r] \subseteq RealBidders(call[r].product)
    /\ \A w \in winInbox : w.winner \subseteq RealBidders(w.product)
    /\ \A p \in Products : product[p].winner \subseteq RealBidders(p)

\* Whoever bids or ends an auction has found it begun, and no step takes it back
\* to draft.
Begun(p) == product[p].status # "draft"

\* A request that found the auction active in order to end it.
Ending(r) ==
    \/ ppc[r] = "ask"
    \/ call[r].op = "end" /\ ppc[r] \notin {"idle", "rejected"}

BegunInv ==
    /\ \A r \in BidReqs : pc[r] \notin {"idle", "rejected"} => Begun(body[r].product)
    /\ \A r \in ProdReqs : Ending(r) => Begun(call[r].product)
    /\ \A m \in ended : Begun(call[m].product)
    /\ \A w \in winInbox : Begun(w.product)

\* Names are used after they were given and are overwritten only after they were
\* announced.
NamedInv ==
    /\ winInbox \subseteq auctionWinner
    /\ \A r \in ProdReqs : ppc[r] \in {"idle", "ask"} => answer[r] = {}
    /\ \A m \in EndMsgs : endPc[m] = "ready" /\ won[m] # {} =>
           \E w \in auctionWinner : /\ w.product = endOf[m]
                                     /\ w.winner = {t.user : t \in won[m]}

SaleInv == HubInv /\ BegunInv /\ NamedInv

=============================================================================
