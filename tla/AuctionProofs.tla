--------------------------- MODULE AuctionProofs ---------------------------
(***************************************************************************)
(* Bidding and product service together implement Auction: every step of   *)
(* AuctionHub is a step of it or is not seen, with and without faults, for *)
(* any products, users, prices and requests.                               *)
(***************************************************************************)
EXTENDS HubProofs

USE DEF prodVars, inputVars, reqVars, storeVars, handVars, eventVars,
        P!docVars, P!callVars, P!queueVars, P!outVars, WithoutDummy

Accepted == {r \in BidReqs : status[r] # "none"}

\* The answers, reads and announcements, with those that name nobody.
Answers ==
    {<<call[r].product, answer[r]>> : r \in ProdReqs}
    \cup {<<endOf[m], {t.user : t \in won[m]}>> : m \in EndMsgs}
    \cup {<<w.product, w.winner>> : w \in auctionWinner}

NamesGiven == {n \in Answers : n[2] # {}}

\* What the two services do that Auction does not see.
Unseen == UNCHANGED <<body, product, Accepted, NamesGiven>>

Seen == Sale!Next \/ Unseen

LEMMA NamesAre == Names = NamesGiven /\ (Names = NamesGiven)'
<1>1. Names = NamesGiven
  BY DEF Names, NamesGiven, Answers
<1>2. (Names = NamesGiven)'
  BY DEF Names, NamesGiven, Answers
<1> QED
  BY <1>1, <1>2

LEMMA SaleVars == Unseen => UNCHANGED Sale!vars
BY NamesAre DEF Unseen, Accepted, Sale!vars

LEMMA BidsOnStored ==
    ASSUME NEW p
    PROVE  Sale!BidsOn(p) = Stored(p)
BY DEF Sale!BidsOn, Stored

-----------------------------------------------------------------------------
(* Whom GET /bids/product/:id/highest and the handlers of auction.ended    *)
(* name.                                                                   *)

\* Nobody, as long as the book is empty, or the best bidder.
LEMMA BestIsNamed ==
    ASSUME HubAssumptions, HubInv, NEW p \in Products
    PROVE  \/ HighestBidder(p) = {}
           \/ \E u \in Sale!Best(p) : HighestBidder(p) = {u}
<1>0. BiddingAssumption /\ IInv /\ NamesInv
  BY DEF HubAssumptions, HubInv
<1>1. book[p] \in SUBSET Members
  BY <1>0 DEF IInv, TypeOK, StoreOK
<1>2. SUFFICES ASSUME NEW t \in Tops(book[p])
               PROVE  t.user \in Sale!Best(p) /\ HighestBidder(p) = {t.user}
  BY DEF HighestBidder
<1>3. HighestBidder(p) = {t.user}
  BY <1>0, <1>1, TopsOne DEF HighestBidder
<1>4. CASE Stored(p) = {}
  <2>1. t = InitMember
    BY <1>0, <1>4, TopsInside DEF NamesInv, BookOfBids, StoredMembers
  <2> QED
    BY <1>3, <1>4, <2>1, BidsOnStored DEF Sale!Best, InitMember
<1>5. CASE Stored(p) # {}
  <2>1. t \in Tops(StoredMembers(p)) /\ StoredMembers(p) \in SUBSET Members
    BY <1>0, <1>1, <1>5, TopsOfBids DEF IInv, BookInv, StoredMembers, Stored
  <2>2. PICK b \in Stored(p) : t = Member(b)
    BY <2>1, TopsInside DEF StoredMembers
  <2>3. ASSUME NEW d \in Stored(p) PROVE body[d].amount <= body[b].amount
    <3>1. Member(d) \in StoredMembers(p)
      BY DEF StoredMembers
    <3>2. Member(d).amount <= t.amount
      BY <1>0, <2>1, <3>1, TopsHighest
    <3> QED
      BY <2>2, <3>2 DEF Member
  <2>4. t.user = body[b].user
    BY <2>2 DEF Member
  <2> QED
    BY <1>3, <1>5, <2>2, <2>3, <2>4, BidsOnStored DEF Sale!Best
<1> QED
  BY <1>3, <1>4, <1>5

\* A step that changes only the names, by that of the best bidder.
LEMMA NameSeen ==
    ASSUME HubAssumptions, HubInv, NEW p \in Products, Begun(p),
           UNCHANGED <<body, product, Accepted>>,
           \/ NamesGiven' = NamesGiven
           \/ NamesGiven' = NamesGiven \cup ({<<p, HighestBidder(p)>>} \ {<<p, {}>>})
    PROVE  Seen
<1>1. CASE NamesGiven' = NamesGiven
  BY <1>1 DEF Seen, Unseen
<1>2. CASE NamesGiven' # NamesGiven
  <2>1. PICK u \in Sale!Best(p) : HighestBidder(p) = {u}
    BY <1>2, BestIsNamed
  <2>2. NamesGiven' = NamesGiven \cup {<<p, {u}>>}
    BY <1>2, <2>1
  <2>3. Sale!Name(p)
    BY <2>2, NamesAre DEF Sale!Name, Sale!Begun, Begun, Accepted
  <2> QED
    BY <2>3 DEF Seen, Sale!Next
<1> QED
  BY <1>1, <1>2

-----------------------------------------------------------------------------
(* Steps of the bidding service.                                           *)

LEMMA KeptUnseen ==
    ASSUME UNCHANGED <<body, product, call, answer, endOf, won, auctionWinner>>,
           \A r \in BidReqs : (status'[r] # "none") <=> (status[r] # "none")
    PROVE  Unseen
<1>1. Answers' = Answers
  BY DEF Answers
<1>2. Accepted' = Accepted
  BY DEF Accepted
<1> QED
  BY <1>1, <1>2 DEF Unseen, NamesGiven

\* A bid is stored: it is accepted.
LEMMA StoreSeen ==
    ASSUME HubAssumptions, SaleInv, NEW r \in BidReqs, StoreBid(r), UNCHANGED prodVars
    PROVE  Seen
<1>0. TypeOK /\ KeyInv /\ SellerInv /\ BegunInv
  BY DEF SaleInv, HubInv, IInv
<1>1. status[r] = "none" /\ pc[r] \notin {"idle", "rejected"}
  BY <1>0 DEF StoreBid, KeyInv, Unstored
<1>2. Accepted' = Accepted \cup {r} /\ r \notin Accepted
  BY <1>0, <1>1 DEF StoreBid, Accepted, TypeOK, StoreOK
<1>3. UNCHANGED <<body, product, call, answer, endOf, won, auctionWinner>>
  BY DEF StoreBid
<1>31. NamesGiven' = NamesGiven
  BY <1>3 DEF NamesGiven, Answers
<1>4. Begun(body[r].product) /\ product[body[r].product].seller # body[r].user
  BY <1>0, <1>1 DEF BegunInv, SellerInv
<1>5. Sale!Accept(r)
  BY <1>2, <1>3, <1>31, <1>4, NamesAre DEF Sale!Accept, Sale!Begun, Begun, Accepted
<1> QED
  BY <1>5 DEF Seen, Sale!Next

\* handleAuctionEnded reads the highest bidder: what it read before is known
\* from its announcement.
LEMMA ReadSeen ==
    ASSUME HubAssumptions, SaleInv, NEW m \in ended, ReadWinner(m), UNCHANGED prodVars
    PROVE  Seen
<1>0. /\ TypeOK /\ P!TypeOK /\ HubInv /\ SeenInv /\ BegunInv /\ NamedInv
      /\ m \in ProdReqs /\ m \in EndMsgs
  BY DEF SaleInv, HubInv, IInv, P!TypeOK, HubAssumptions, HubAssumption
<1> DEFINE p == endOf[m]
           Rest == {<<call[r].product, answer[r]>> : r \in ProdReqs}
                   \cup {<<endOf[k], {t.user : t \in won[k]}>> : k \in EndMsgs \ {m}}
                   \cup {<<w.product, w.winner>> : w \in auctionWinner}
<1>1. p \in Products /\ Begun(p)
  BY <1>0 DEF SeenInv, BegunInv, P!TypeOK, P!Calls
<1>2. UNCHANGED <<body, product, call, answer, endOf, auctionWinner, Accepted>>
  BY DEF ReadWinner, Accepted
<1>3. won' = [won EXCEPT ![m] = Tops(book[p])] /\ endPc[m] = "ready"
  BY DEF ReadWinner
<1>4. \A k \in EndMsgs : won'[k] = IF k = m THEN Tops(book[p]) ELSE won[k]
  BY <1>0, <1>3 DEF TypeOK, HandlersOK
<1>5. Answers = Rest \cup {<<p, {t.user : t \in won[m]}>>}
  BY <1>0 DEF Answers
<1>6. Answers' = Rest \cup {<<p, HighestBidder(p)>>}
  BY <1>0, <1>2, <1>4 DEF Answers, HighestBidder
<1>7. {t.user : t \in won[m]} # {} => <<p, {t.user : t \in won[m]}>> \in Rest
  <2>1. SUFFICES ASSUME won[m] # {} PROVE <<p, {t.user : t \in won[m]}>> \in Rest
    OBVIOUS
  <2>2. PICK w \in auctionWinner : w.product = p /\ w.winner = {t.user : t \in won[m]}
    BY <1>0, <1>3, <2>1 DEF NamedInv
  <2> QED
    BY <2>2
<1> DEFINE old == <<p, {t.user : t \in won[m]}>>
<1>8. old[2] # {} => old \in Rest
  BY <1>7
<1> HIDE DEF Rest, old
<1>9. NamesGiven = {n \in Rest : n[2] # {}}
  BY <1>5, <1>8 DEF NamesGiven, old
<1>10. NamesGiven' = NamesGiven \cup ({<<p, HighestBidder(p)>>} \ {<<p, {}>>})
  BY <1>6, <1>9 DEF NamesGiven
<1> QED
  BY <1>0, <1>1, <1>2, <1>10, NameSeen

\* What is announced was read.
LEMMA AnnounceSeen ==
    ASSUME HubAssumptions, NEW m \in ProdReqs, HubPublishWinner(m)
    PROVE  Unseen
<1>0. m \in EndMsgs
  BY DEF HubAssumptions, HubAssumption
<1>1. UNCHANGED <<body, product, call, answer, endOf, won, status>>
  BY DEF HubPublishWinner, PublishAuctionWinner
<1> DEFINE v == [msg |-> m, product |-> endOf[m], winner |-> {t.user : t \in won[m]}]
<1>2. auctionWinner' = auctionWinner \cup {v}
  BY DEF HubPublishWinner, PublishAuctionWinner
<1>21. v.product = endOf[m] /\ v.winner = {t.user : t \in won[m]}
  OBVIOUS
<1> HIDE DEF v
<1>3. {<<w.product, w.winner>> : w \in auctionWinner'} =
          {<<w.product, w.winner>> : w \in auctionWinner}
          \cup {<<endOf[m], {t.user : t \in won[m]}>>}
  <2>1. {<<w.product, w.winner>> : w \in auctionWinner \cup {v}} =
            {<<w.product, w.winner>> : w \in auctionWinner} \cup {<<v.product, v.winner>>}
    OBVIOUS
  <2> QED
    BY <1>2, <1>21, <2>1
<1>4. Answers' = Answers
  BY <1>0, <1>1, <1>3 DEF Answers
<1> QED
  BY <1>1, <1>4 DEF Unseen, Accepted, NamesGiven

\* A handler that fails may take the name it read with it.
LEMMA LostSeen ==
    ASSUME HubAssumptions, SaleInv, NEW m \in EndMsgs, FailEnded(m), UNCHANGED prodVars
    PROVE  Seen
<1>0. TypeOK
  BY DEF SaleInv, HubInv, IInv
<1> DEFINE n == <<endOf[m], {t.user : t \in won[m]}>>
           Rest == {<<call[r].product, answer[r]>> : r \in ProdReqs}
                   \cup {<<endOf[k], {t.user : t \in won[k]}>> : k \in EndMsgs \ {m}}
                   \cup {<<w.product, w.winner>> : w \in auctionWinner}
<1>1. UNCHANGED <<body, product, call, answer, endOf, auctionWinner, Accepted>>
  BY DEF FailEnded, Accepted
<1>2. \A k \in EndMsgs : won'[k] = IF k = m THEN {} ELSE won[k]
  BY <1>0 DEF FailEnded, TypeOK, HandlersOK
<1>3. Answers = Rest \cup {n}
  BY DEF Answers
<1>4. Answers' = Rest \cup {<<endOf[m], {}>>}
  BY <1>1, <1>2 DEF Answers
<1> HIDE DEF Rest, n
<1>5. NamesGiven' = {k \in Rest : k[2] # {}}
  BY <1>4 DEF NamesGiven
<1>6. CASE n \in Rest \/ n[2] = {}
  <2>1. NamesGiven' = NamesGiven
    BY <1>3, <1>5, <1>6 DEF NamesGiven
  <2> QED
    BY <1>1, <2>1 DEF Seen, Unseen
<1>7. CASE n \notin Rest /\ n[2] # {}
  <2>1. n \in NamesGiven /\ NamesGiven' = NamesGiven \ {n}
    BY <1>3, <1>5, <1>7 DEF NamesGiven
  <2>2. PICK k \in NamesGiven : NamesGiven' = NamesGiven \ {k}
    BY <2>1
  <2>3. Sale!Forget(k)
    BY <1>1, <2>2, NamesAre DEF Sale!Forget, Accepted
  <2> QED
    BY <2>3, NamesAre DEF Seen, Sale!Next
<1> QED
  BY <1>6, <1>7

\* Only StoreBid stores a bid, and only of its own request.
LEMMA StoreMoves ==
    ASSUME IInv, NEW b \in BidReqs, StoreBid(b)
    PROVE  status' # status /\ pc' # pc
BY DEF IInv, TypeOK, StoreOK, RequestsOK, KeyInv, Unstored, StoreBid

LEMMA BiddingSeen ==
    ASSUME HubAssumptions, SaleInv, HubNext, ~(ProductStep /\ UNCHANGED bVars)
    PROVE  Seen
<1>0. /\ HubAssumption /\ IInv /\ ended \subseteq ProdReqs
      /\ EndMsgs = ProdReqs /\ StartMsgs = ProdReqs
  BY DEF HubAssumptions, HubAssumption, SaleInv, HubInv, P!TypeOK
<1>1. ServiceStep /\ \A r \in BidReqs : /\ status[r] # "none" => status'[r] # "none"
                                        /\ status'[r] # "none" => \/ status[r] # "none"
                                                                  \/ StoreBid(r)
  BY <1>0, HubCases, StatusStep
<1>2. ASSUME UNCHANGED <<body, product, call, answer, endOf, won, auctionWinner>>,
             status' = status \/ pc' = pc
      PROVE  Seen
  BY <1>0, <1>1, <1>2, StoreMoves, KeptUnseen DEF Seen
<1>3. ASSUME NEW r \in BidReqs, HubValidateBid(r) \/ HubBidStep(r) \/ HubPublishBidPlaced(r)
      PROVE  Seen
  <2>1. CASE StoreBid(r) /\ UNCHANGED prodVars
    BY <2>1, StoreSeen
  <2>2. CASE HubValidateBid(r)
    BY <1>2, <2>2 DEF HubValidateBid, ValidateBid
  <2>3. CASE HubPublishBidPlaced(r)
    BY <1>2, <2>3 DEF HubPublishBidPlaced, PublishBidPlaced
  <2>4. CASE /\ UNCHANGED prodVars
             /\ \/ CheckHighest(r) \/ PushBid(r) \/ ReadBook(r) \/ LookupBid(r)
                \/ WriteOutbid(r) \/ PublishBidOutbid(r)
    BY <1>2, <2>4 DEF CheckHighest, PushBid, ReadBook, LookupBid, WriteOutbid,
       PublishBidOutbid
  <2> QED
    BY <1>3, <2>1, <2>2, <2>3, <2>4 DEF HubBidStep
<1>4. ASSUME NEW m \in ProdReqs, HubStartStep(m) PROVE Seen
  <2>1. UNCHANGED <<inputVars, reqVars, status>>
        /\ UNCHANGED <<endPc, won, wonBid, seen, aging, eventVars>>
    BY <1>0, <1>4, StartFrame DEF HubStartStep
  <2> QED
    BY <1>2, <1>4, <2>1 DEF HubStartStep
<1>5. ASSUME NEW m \in ProdReqs, HubEndStep(m) PROVE Seen
  <2>1. CASE ReadWinner(m)
    BY <1>5, <2>1, ReadSeen DEF HubEndStep
  <2>2. CASE FindWinner(m) \/ CrownWinner(m) \/ CollectKeys(m) \/ ExpireBook(m)
    BY <1>2, <1>5, <2>2 DEF HubEndStep, FindWinner, CrownWinner, CollectKeys, ExpireBook
  <2> QED
    BY <1>5, <2>1, <2>2 DEF HubEndStep
<1>6. ASSUME NEW m \in ProdReqs, HubPublishWinner(m) PROVE Seen
  BY <1>6, AnnounceSeen DEF Seen
<1>7. ASSUME BiddingFault, UNCHANGED prodVars PROVE Seen
  <2>1. ASSUME NEW r \in BidReqs, FailRequest(r) PROVE Seen
    BY <1>2, <1>7, <2>1 DEF FailRequest
  <2>2. ASSUME NEW m \in StartMsgs, FailStarted(m) PROVE Seen
    BY <1>2, <1>7, <2>2 DEF FailStarted
  <2>3. ASSUME NEW m \in EndMsgs, FailEnded(m) PROVE Seen
    BY <1>7, <2>3, LostSeen
  <2> QED
    BY <1>7, <2>1, <2>2, <2>3 DEF BiddingFault
<1>8. \A r \in ProdReqs : ~HubCallStep(r) /\ ~HubAskWinner(r)
  BY DEF HubCallStep, HubAskWinner, ProductStep
<1>9. ~HubConsumerStep /\ ~(P!ProductFault /\ UNCHANGED bVars)
  BY DEF HubConsumerStep, ProductStep
<1> QED
  BY <1>3, <1>4, <1>5, <1>6, <1>7, <1>8, <1>9 DEF HubNext, HubFault

-----------------------------------------------------------------------------
(* Steps of the product service.                                           *)

LEMMA BooksStay ==
    ASSUME UNCHANGED bVars
    PROVE  UNCHANGED <<body, status, book, endOf, won, auctionWinner, Accepted>>
BY DEF bVars, Accepted

\* What handleAuctionWinner and endAuction write is a name given before.
LEMMA ConcludeSeen ==
    ASSUME UNCHANGED bVars, UNCHANGED <<call, answer>>, NEW p \in Products, NEW w,
           P!Found(p), Begun(p), P!SetEnded(p, w), w = {} \/ <<p, w>> \in Answers
    PROVE  Seen
<1>1. UNCHANGED <<body, Accepted>> /\ NamesGiven' = NamesGiven
  BY BooksStay DEF NamesGiven, Answers
<1> DEFINE v == P!WinnerAfter(p, w)
<1>2. product' = [product EXCEPT ![p].status = "ended", ![p].winner = v]
  BY DEF P!SetEnded, P!EndedStatus
<1>3. v \in {product[p].winner} \cup {n[2] : n \in {k \in NamesGiven : k[1] = p}}
  <2>1. CASE w = {}
    BY <2>1 DEF P!WinnerAfter
  <2>2. CASE w # {}
    <3>1. <<p, w>> \in NamesGiven
      BY <2>2 DEF NamesGiven
    <3> QED
      BY <2>2, <3>1 DEF P!WinnerAfter
  <2> QED
    BY <2>1, <2>2
<1> HIDE DEF v
<1>4. Sale!Conclude(p)
  BY <1>1, <1>2, <1>3, NamesAre DEF Sale!Conclude, Sale!Live, Sale!Begun, Begun, P!Found,
     Accepted
<1> QED
  BY <1>4 DEF Seen, Sale!Next

LEMMA ProductSeen ==
    ASSUME HubAssumptions, SaleInv, ProductStep, UNCHANGED bVars
    PROVE  Seen
<1>0. /\ P!TypeOK /\ BegunInv /\ NamedInv /\ HubInv
      /\ P!ProductAssumption
      /\ \A r \in ProdReqs : call[r] \in P!Calls /\ call[r].product \in Products
  BY DEF SaleInv, HubInv, P!TypeOK, P!Calls, HubAssumptions
<1>1. UNCHANGED <<body, status, book, endOf, won, auctionWinner, Accepted>>
  BY BooksStay
<1>2. ASSUME UNCHANGED <<product, call, answer>> PROVE Seen
  BY <1>1, <1>2, KeptUnseen DEF Seen
<1>3. ASSUME UNCHANGED <<call, answer>> PROVE NamesGiven' = NamesGiven
  BY <1>1, <1>3 DEF NamesGiven, Answers
<1>4. ASSUME NEW r \in ProdReqs, P!CreateProduct(r) PROVE Seen
  <2> DEFINE p == call[r].product
  <2>1. PICK x \in call[r].price :
           product' = [product EXCEPT ![p] =
                   [life |-> "live", seller |-> call[r].user, status |-> "draft",
                    startingPrice |-> x, currentPrice |-> x,
                    totalBids |-> 0, winner |-> {}]]
    BY <1>4 DEF P!CreateProduct, P!InitialPrice
  <2>2. x \in Prices /\ call[r].user \in Sellers /\ product[p].life = "absent"
    BY <1>0, <1>4, <2>1 DEF P!CreateProduct, P!Calls
  <2>3. Sale!List(p)
    BY <1>1, <1>3, <1>4, <2>1, <2>2, NamesAre DEF Sale!List, P!CreateProduct, Accepted
  <2> QED
    BY <1>0, <2>3 DEF Seen, Sale!Next
<1>5. ASSUME NEW r \in ProdReqs, P!UpdateProduct(r) PROVE Seen
  <2> DEFINE p == call[r].product
  <2>1. CASE P!Found(p) /\ call[r].price # {}
    <3>1. PICK x \in Prices : call[r].price = {x}
      BY <1>0, <2>1 DEF P!Calls
    <3>2. \A old : P!Asked(call[r], old) = x
      BY <3>1 DEF P!Asked
    <3>3. product' = [product EXCEPT ![p].startingPrice = x, ![p].currentPrice = x]
      BY <1>5, <2>1, <3>2 DEF P!UpdateProduct, P!RepricedTo
    <3>4. Sale!Reprice(p)
      BY <1>1, <1>3, <1>5, <2>1, <3>3, NamesAre DEF Sale!Reprice, Sale!Live, P!Found,
         P!UpdateProduct, Accepted
    <3> QED
      BY <1>0, <3>4 DEF Seen, Sale!Next
  <2>2. CASE P!Found(p) /\ call[r].price = {}
    <3>1. \A old : P!Asked(call[r], old) = old
      BY <2>2 DEF P!Asked
    <3>2. product' = product
      BY <1>0, <1>5, <2>2, <3>1 DEF P!UpdateProduct, P!RepricedTo, P!TypeOK, P!Documents
    <3> QED
      BY <1>2, <1>5, <3>2 DEF P!UpdateProduct
  <2>3. CASE ~P!Found(p)
    BY <1>2, <1>5, <2>3 DEF P!UpdateProduct
  <2> QED
    BY <2>1, <2>2, <2>3
<1>6. ASSUME NEW r \in ProdReqs, P!StartAuction(r) PROVE Seen
  <2> DEFINE p == call[r].product
  <2>1. CASE P!Found(p)
    <3>1. Sale!Begin(p)
      BY <1>1, <1>3, <1>6, <2>1, NamesAre DEF Sale!Begin, Sale!Live, P!Found,
         P!StartAuction, Accepted
    <3> QED
      BY <1>0, <3>1 DEF Seen, Sale!Next
  <2>2. CASE ~P!Found(p)
    BY <1>2, <1>6, <2>2 DEF P!StartAuction
  <2> QED
    BY <2>1, <2>2
<1>7. ASSUME NEW r \in ProdReqs, P!EndAuction(r) PROVE Seen
  <2> DEFINE p == call[r].product
  <2>1. CASE P!Found(p)
    <3>1. Begun(p)
      BY <1>0, <1>7 DEF BegunInv, Ending, P!EndAuction
    <3>2. <<p, answer[r]>> \in Answers
      BY DEF Answers
    <3>3. P!SetEnded(p, answer[r]) /\ UNCHANGED <<call, answer>>
      BY <1>7, <2>1 DEF P!EndAuction
    <3> QED
      BY <1>0, <2>1, <3>1, <3>2, <3>3, ConcludeSeen
  <2>2. CASE ~P!Found(p)
    BY <1>2, <1>7, <2>2 DEF P!EndAuction
  <2> QED
    BY <2>1, <2>2
<1>8. ASSUME NEW r \in ProdReqs, P!DeleteProduct(r) PROVE Seen
  <2> DEFINE p == call[r].product
  <2>1. CASE P!Owns(r)
    <3>1. Sale!Remove(p)
      BY <1>1, <1>3, <1>8, <2>1, NamesAre DEF Sale!Remove, Sale!Live, P!Owns, P!Found,
         P!DeleteProduct, Accepted
    <3> QED
      BY <1>0, <3>1 DEF Seen, Sale!Next
  <2>2. CASE ~P!Owns(r)
    BY <1>2, <1>8, <2>2 DEF P!DeleteProduct
  <2> QED
    BY <2>1, <2>2
<1>9. ASSUME NEW h \in bidRead, P!WriteBidInfo(h) PROVE Seen
  <2> DEFINE p == h.msg.product
  <2>1. /\ h.msg.bid \in bidPlaced /\ status[h.msg.bid] # "none"
        /\ p = body[h.msg.bid].product /\ h.msg.amount = body[h.msg.bid].amount
    BY <1>0 DEF HubInv, MessageInv
  <2>2. p \in Products /\ h.msg.bid \in BidReqs /\ h.count \in Nat
    BY <1>0 DEF P!TypeOK, P!BidMessages
  <2>3. CASE P!Found(p)
    <3>1. product' = [product EXCEPT ![p].currentPrice = h.msg.amount,
                                     ![p].totalBids = h.count + 1]
      BY <1>9, <2>3 DEF P!WriteBidInfo, P!NextCount
    <3>2. product'[p].totalBids = h.count + 1
      BY <1>0, <2>2, <3>1 DEF P!TypeOK, P!Documents
    <3>3. h.msg.bid \in Sale!BidsOn(p)
      BY <2>1, <2>2, BidsOnStored DEF Stored
    <3>4. product'[p].totalBids > 0
      BY <2>2, <3>2
    <3>5. Sale!Follow(p)
      BY <1>1, <1>3, <1>9, <2>1, <2>3, <3>1, <3>2, <3>3, <3>4, NamesAre
         DEF Sale!Follow, Sale!Live, P!Found, P!WriteBidInfo, Accepted
    <3> QED
      BY <2>2, <3>5 DEF Seen, Sale!Next
  <2>4. CASE ~P!Found(p)
    BY <1>2, <1>9, <2>4 DEF P!WriteBidInfo
  <2> QED
    BY <2>3, <2>4
<1>10. ASSUME NEW w \in winInbox, P!ApplyWinner(w) PROVE Seen
  <2> DEFINE p == w.product
  <2>0. p \in Products /\ Begun(p)
    BY <1>0 DEF P!TypeOK, P!WinnerMessages, BegunInv
  <2>1. CASE P!Found(p)
    <3>1. <<p, w.winner>> \in Answers
      BY <1>0 DEF NamedInv, Answers
    <3>2. P!SetEnded(p, w.winner) /\ UNCHANGED <<call, answer>>
      BY <1>10, <2>1 DEF P!ApplyWinner
    <3> QED
      BY <2>0, <2>1, <3>1, <3>2, ConcludeSeen
  <2>2. CASE ~P!Found(p)
    BY <1>2, <1>10, <2>2 DEF P!ApplyWinner
  <2> QED
    BY <2>1, <2>2
<1>11. ASSUME NEW r \in ProdReqs, HubAskWinner(r) PROVE Seen
  <2> DEFINE p == call[r].product
             Rest == {<<call[k].product, answer[k]>> : k \in ProdReqs \ {r}}
                     \cup {<<endOf[m], {t.user : t \in won[m]}>> : m \in EndMsgs}
                     \cup {<<w.product, w.winner>> : w \in auctionWinner}
  <2>1. /\ answer' = [answer EXCEPT ![r] = HighestBidder(p)] /\ ppc[r] = "ask"
        /\ UNCHANGED <<product, call>>
    BY <1>11 DEF HubAskWinner, P!AskWinner
  <2>2. answer[r] = {} /\ \A k \in ProdReqs :
            answer'[k] = IF k = r THEN HighestBidder(p) ELSE answer[k]
    BY <1>0, <2>1 DEF NamedInv, P!TypeOK
  <2>3. Begun(p)
    BY <1>0, <2>1 DEF BegunInv, Ending
  <2>4. Answers = Rest \cup {<<p, {}>>}
    BY <2>2 DEF Answers
  <2>5. Answers' = Rest \cup {<<p, HighestBidder(p)>>}
    BY <1>1, <2>1, <2>2 DEF Answers
  <2> HIDE DEF Rest
  <2>6. NamesGiven' = NamesGiven \cup ({<<p, HighestBidder(p)>>} \ {<<p, {}>>})
    BY <2>4, <2>5 DEF NamesGiven
  <2> QED
    BY <1>0, <1>1, <2>1, <2>3, <2>6, NameSeen
<1>12. ASSUME NEW r \in ProdReqs, \/ P!RefuseProduct(r) \/ P!CheckProduct(r)
                                  \/ P!PublishAuction(r) \/ P!FailCall(r)
       PROVE  Seen
  BY <1>2, <1>12 DEF P!RefuseProduct, P!CheckProduct, P!PublishAuction, P!FailCall
<1>13. ASSUME (\E m \in bidInbox : P!ReadForBid(m)) \/ P!RestartConsumers \/ P!DropMessage
       PROVE  Seen
  BY <1>2, <1>13 DEF P!ReadForBid, P!RestartConsumers, P!DropMessage
<1> QED
  BY <1>4, <1>5, <1>6, <1>7, <1>8, <1>9, <1>10, <1>11, <1>12, <1>13
     DEF ProductStep, P!CallStep, P!WriteStep, P!ConsumerStep, P!ProductFault

LEMMA HubSeen ==
    ASSUME HubAssumptions, SaleInv, [HubNext]_hubVars
    PROVE  [Sale!Next]_(Sale!vars)
<1>1. Seen
  <2>1. CASE UNCHANGED hubVars
    BY <2>1, KeptUnseen DEF hubVars, bVars, Seen
  <2> QED
    BY <2>1, BiddingSeen, ProductSeen
<1> QED
  BY <1>1, SaleVars DEF Seen

-----------------------------------------------------------------------------
(* The invariant.                                                          *)

\* An auction that was begun is never a draft again.
LEMMA BegunStays ==
    ASSUME HubAssumptions, SaleInv, [HubNext]_hubVars, NEW p \in Products, Begun(p)
    PROVE  Begun(p)'
<1>0. P!TypeOK /\ P!AbsentInv
  BY DEF SaleInv, HubInv, SellerInv
<1>1. CASE UNCHANGED Sale!vars
  BY <1>1 DEF Sale!vars, Begun
<1>2. CASE Sale!Next
  <2>0. ASSUME NEW q \in Products, Sale!Follow(q) PROVE Begun(p)'
    <3>1. PICK x, y : product' = [product EXCEPT ![q].currentPrice = x,
                                                 ![q].totalBids = y]
      BY <2>0 DEF Sale!Follow
    <3> QED
      BY <1>0, <3>1 DEF Begun, P!TypeOK, P!Documents
  <2>1. ASSUME NEW q \in Products, Sale!Reprice(q) PROVE Begun(p)'
    BY <1>0, <2>1 DEF Sale!Reprice, Begun, P!TypeOK, P!Documents
  <2>11. ASSUME NEW q \in Products, Sale!Begin(q) PROVE Begun(p)'
    BY <1>0, <2>11 DEF Sale!Begin, Begun, P!TypeOK, P!Documents
  <2>12. ASSUME NEW q \in Products, Sale!Conclude(q) PROVE Begun(p)'
    <3>1. PICK w : product' = [product EXCEPT ![q].status = "ended", ![q].winner = w]
      BY <2>12 DEF Sale!Conclude
    <3> QED
      BY <1>0, <3>1 DEF Begun, P!TypeOK, P!Documents
  <2>13. ASSUME NEW q \in Products, Sale!Remove(q) PROVE Begun(p)'
    BY <1>0, <2>13 DEF Sale!Remove, Begun, P!TypeOK, P!Documents
  <2>2. ASSUME NEW q \in Products, Sale!List(q) PROVE Begun(p)'
    <3>1. p # q
      BY <1>0, <2>2 DEF Sale!List, P!AbsentInv, P!NoDocument, Begun
    <3> QED
      BY <1>0, <2>2, <3>1 DEF Sale!List, Begun, P!TypeOK
  <2>3. ASSUME UNCHANGED product PROVE Begun(p)'
    BY <2>3 DEF Begun
  <2> QED
    BY <1>2, <2>0, <2>1, <2>11, <2>12, <2>13, <2>2, <2>3
     DEF Sale!Next, Sale!Accept, Sale!Name, Sale!Forget
<1> QED
  BY <1>1, <1>2, HubSeen

\* A request that ends an auction has found it active, before it publishes
\* auction.ended.
LEMMA CallBegins ==
    ASSUME HubAssumptions, P!TypeOK, [HubNext]_hubVars, NEW r \in ProdReqs
    PROVE  /\ UNCHANGED call
           /\ Ending(r)' => Ending(r) \/ (Begun(call[r].product) /\ UNCHANGED product)
           /\ r \in ended' => r \in ended \/ Ending(r)
           /\ ppc'[r] \in {"idle", "ask"} => /\ ppc[r] \in {"idle", "ask"}
                                             /\ answer'[r] = answer[r]
<1> USE DEF P!TypeOK, P!CallPCs
<1> DEFINE Goal ==
       /\ UNCHANGED call
       /\ Ending(r)' => Ending(r) \/ (Begun(call[r].product) /\ UNCHANGED product)
       /\ r \in ended' => r \in ended \/ Ending(r)
       /\ ppc'[r] \in {"idle", "ask"} => /\ ppc[r] \in {"idle", "ask"}
                                         /\ answer'[r] = answer[r]
<1>1. ASSUME NEW q \in ProdReqs, P!PublishAuction(q) PROVE Goal
  BY <1>1 DEF P!PublishAuction, Ending
<1>2. ASSUME NEW q \in ProdReqs, P!StartAuction(q) \/ P!EndAuction(q) \/ P!UpdateProduct(q)
      PROVE  Goal
  BY <1>2 DEF P!StartAuction, P!EndAuction, P!UpdateProduct, Ending
<1>3. ASSUME NEW q \in ProdReqs, P!CheckProduct(q) PROVE Goal
  <2>1. UNCHANGED <<product, call, answer, ended>>
    BY <1>3 DEF P!CheckProduct
  <2>2. CASE q = r /\ ppc'[r] \notin {"rejected"}
    <3>1. /\ ppc[r] = "idle" /\ P!Allows(call[r].op, product[call[r].product].status)
          /\ ppc'[r] = IF call[r].op = "end" THEN "ask" ELSE "write"
      BY <1>3, <2>2 DEF P!CheckProduct
    <3>2. call[r].op = "end" => Begun(call[r].product)
      BY <3>1 DEF P!Allows, P!ValidTransition, Begun
    <3> QED
      BY <2>1, <3>1, <3>2 DEF Ending
  <2>3. CASE q # r \/ ppc'[r] = "rejected"
    BY <1>3, <2>1, <2>3 DEF P!CheckProduct, Ending
  <2> QED
    BY <2>2, <2>3
<1>4. ASSUME NEW q \in ProdReqs,
             \/ P!CreateProduct(q) \/ P!RefuseProduct(q) \/ P!DeleteProduct(q)
             \/ HubAskWinner(q) \/ P!FailCall(q)
      PROVE  Goal
  BY <1>4 DEF P!CreateProduct, P!RefuseProduct, P!DeleteProduct, HubAskWinner,
     P!AskWinner, P!FailCall, Ending
<1>5. ASSUME UNCHANGED <<call, ppc, answer, ended>> PROVE Goal
  BY <1>5 DEF Ending
<1>6. P!ConsumerStep \/ P!RestartConsumers \/ P!DropMessage
      => UNCHANGED <<call, ppc, answer, ended>>
  BY DEF P!ConsumerStep, P!ReadForBid, P!WriteBidInfo, P!ApplyWinner,
     P!RestartConsumers, P!DropMessage
<1>7. \/ UNCHANGED prodVars
      \/ \E b \in BidReqs : HubPublishBidPlaced(b)
      \/ \E m \in ProdReqs : HubPublishWinner(m)
      => UNCHANGED <<call, ppc, answer, ended>>
  BY DEF HubPublishBidPlaced, HubPublishWinner
<1> HIDE DEF Goal
<1>8. ProductStep => Goal
  BY <1>1, <1>2, <1>3, <1>4, <1>5, <1>6
     DEF ProductStep, P!CallStep, P!WriteStep, P!ProductFault
<1>9. Goal
  BY <1>5, <1>7, <1>8, HubCases DEF HubAssumptions, hubVars
<1> QED
  BY <1>9 DEF Goal

LEMMA NewWinner ==
    ASSUME HubAssumptions, P!TypeOK, [HubNext]_hubVars, NEW w \in winInbox'
    PROVE  \/ w \in winInbox
           \/ \E m \in ProdReqs :
                  /\ HubPublishWinner(m)
                  /\ w = [msg |-> m, product |-> endOf[m],
                          winner |-> {t.user : t \in won[m]}]
<1>1. ProductStep => winInbox' \subseteq winInbox
  BY ProductFrame
<1>2. UNCHANGED prodVars => winInbox' = winInbox
  OBVIOUS
<1>3. (\E r \in BidReqs : HubPublishBidPlaced(r)) => winInbox' = winInbox
  BY DEF HubPublishBidPlaced
<1>4. ASSUME NEW m \in ProdReqs, HubPublishWinner(m)
      PROVE  winInbox' = winInbox \cup
                 {[msg |-> m, product |-> endOf[m], winner |-> {t.user : t \in won[m]}]}
  BY <1>4 DEF HubPublishWinner
<1> QED
  BY <1>1, <1>2, <1>3, <1>4, HubCases DEF HubAssumptions, hubVars

LEMMA AnnouncedStays ==
    ASSUME [ServiceStep]_bVars
    PROVE  auctionWinner \subseteq auctionWinner'
<1>1. ASSUME NEW r \in BidReqs, RequestStep(r) PROVE UNCHANGED auctionWinner
  BY <1>1 DEF RequestStep, BidStep, ValidateBid, CheckHighest, StoreBid, PushBid,
     ReadBook, LookupBid, WriteOutbid, PublishBidPlaced, PublishBidOutbid, FailRequest
<1>2. ASSUME NEW m \in StartMsgs, StartStep(m) \/ FailStarted(m)
      PROVE  UNCHANGED auctionWinner
  BY <1>2, StartFrame
<1>3. ASSUME NEW m \in EndMsgs, EndStep(m) \/ FailEnded(m)
      PROVE  auctionWinner \subseteq auctionWinner'
  BY <1>3 DEF EndStep, ReadWinner, FindWinner, CrownWinner, CollectKeys, ExpireBook,
     PublishAuctionWinner, FailEnded
<1> QED
  BY <1>1, <1>2, <1>3 DEF ServiceStep, bVars

\* A handler of auction.ended that is to start again has announced what it has
\* read, or has forgotten it.
LEMMA ReadyMove ==
    ASSUME TypeOK, [ServiceStep]_bVars, NEW m \in EndMsgs, endPc'[m] = "ready"
    PROVE  \/ endPc[m] = "ready" /\ won'[m] = won[m]
           \/ won'[m] = {}
           \/ PublishAuctionWinner(m) /\ won' = won
<1> USE DEF TypeOK, HandlersOK, EndPCs
<1> DEFINE Goal ==
       \/ endPc[m] = "ready" /\ won'[m] = won[m]
       \/ won'[m] = {}
       \/ PublishAuctionWinner(m) /\ won' = won
<1>1. ASSUME UNCHANGED <<endPc, won>> PROVE Goal
  BY <1>1
<1>2. ASSUME NEW r \in BidReqs, RequestStep(r) PROVE Goal
  BY <1>1, <1>2, RequestFrame
<1>3. ASSUME NEW k \in StartMsgs, StartStep(k) \/ FailStarted(k) PROVE Goal
  BY <1>1, <1>3, StartFrame
<1>4. ASSUME NEW k \in EndMsgs, ReadWinner(k) PROVE Goal
  BY <1>4 DEF ReadWinner, AfterRead
<1>5. ASSUME NEW k \in EndMsgs,
             FindWinner(k) \/ CrownWinner(k) \/ CollectKeys(k) \/ ExpireBook(k)
      PROVE  Goal
  BY <1>5 DEF FindWinner, CrownWinner, CollectKeys, ExpireBook
<1>6. ASSUME NEW k \in EndMsgs, PublishAuctionWinner(k) PROVE Goal
  <2>1. CASE k = m
    BY <1>6, <2>1 DEF PublishAuctionWinner
  <2>2. CASE k # m
    BY <1>6, <2>2 DEF PublishAuctionWinner
  <2> QED
    BY <2>1, <2>2
<1>7. ASSUME NEW k \in EndMsgs, FailEnded(k) PROVE Goal
  BY <1>7 DEF FailEnded
<1> HIDE DEF Goal
<1>8. Goal
  BY <1>1, <1>2, <1>3, <1>4, <1>5, <1>6, <1>7 DEF ServiceStep, EndStep, bVars
<1> QED
  BY <1>8 DEF Goal

LEMMA BegunStep ==
    ASSUME HubAssumptions, SaleInv, [HubNext]_hubVars
    PROVE  BegunInv'
<1>0. /\ TypeOK /\ P!TypeOK /\ BegunInv /\ SeenInv /\ IInv
      /\ UNCHANGED <<call, body, endOf>>
  BY ProductFrame, BidsStay, HubDocuments DEF SaleInv, HubInv, IInv
<1>1. \A p \in Products : Begun(p) => Begun(p)'
  BY BegunStays
<1>2. ASSUME NEW r \in BidReqs, pc'[r] \notin {"idle", "rejected"}
      PROVE  Begun(body[r].product)'
  <2>1. body[r].product \in Products
    BY <1>0 DEF TypeOK, InputsOK, Bodies
  <2>2. CASE pc[r] \notin {"idle", "rejected"}
    BY <1>0, <1>1, <2>1, <2>2 DEF BegunInv
  <2>3. CASE pc[r] \in {"idle", "rejected"}
    <3>1. HubNext
      BY <1>2, <2>3 DEF hubVars, bVars
    <3>2. Acceptable(r, ViewOf(body[r].product)) /\ UNCHANGED <<product, body>>
      BY <1>0, <1>2, <2>3, <3>1, LetThrough
    <3> QED
      BY <3>2 DEF Acceptable, ViewOf, Begun
  <2> QED
    BY <2>2, <2>3
<1>3. ASSUME NEW r \in ProdReqs, Ending(r)'
      PROVE  Begun(call[r].product)'
  <2>1. call[r].product \in Products
    BY <1>0 DEF P!TypeOK, P!Calls
  <2>2. Begun(call[r].product)
    BY <1>0, <1>3, CallBegins DEF BegunInv
  <2> QED
    BY <1>0, <1>1, <2>1, <2>2 DEF Begun
<1>4. ASSUME NEW m \in ended' PROVE Begun(call[m].product)'
  <2>1. m \in ProdReqs
    BY HubType, <1>0 DEF SaleInv, HubInv, P!TypeOK
  <2>2. call[m].product \in Products /\ Begun(call[m].product)
    BY <1>0, <1>4, <2>1, CallBegins DEF BegunInv, P!TypeOK, P!Calls
  <2> QED
    BY <1>0, <1>1, <2>2 DEF Begun
<1>5. ASSUME NEW w \in winInbox' PROVE Begun(w.product)'
  <2>1. w.product \in Products /\ Begun(w.product)
    <3>1. CASE w \in winInbox
      BY <1>0, <3>1 DEF BegunInv, P!TypeOK, P!WinnerMessages
    <3>2. ASSUME NEW m \in ProdReqs, HubPublishWinner(m), w.product = endOf[m]
          PROVE  w.product \in Products /\ Begun(w.product)
      BY <1>0, <3>2 DEF HubPublishWinner, BegunInv, SeenInv, P!TypeOK, P!Calls
    <3> QED
      BY <1>0, <3>1, <3>2, NewWinner
  <2> QED
    BY <1>1, <2>1
<1> QED
  BY <1>2, <1>3, <1>4, <1>5 DEF BegunInv

LEMMA NamedStep ==
    ASSUME HubAssumptions, SaleInv, [HubNext]_hubVars
    PROVE  NamedInv'
<1>0. /\ TypeOK /\ P!TypeOK /\ NamedInv /\ IInv /\ EndMsgs = ProdReqs
      /\ UNCHANGED endOf /\ [ServiceStep]_bVars
  BY BidsStay, HubService DEF SaleInv, HubInv, IInv, HubAssumptions, HubAssumption
<1>1. auctionWinner \subseteq auctionWinner'
  BY <1>0, AnnouncedStays
<1>2. ASSUME NEW w \in winInbox' PROVE w \in auctionWinner'
  <2>1. ASSUME NEW m \in ProdReqs, HubPublishWinner(m),
               w = [msg |-> m, product |-> endOf[m], winner |-> {t.user : t \in won[m]}]
        PROVE  w \in auctionWinner'
    BY <2>1 DEF HubPublishWinner, PublishAuctionWinner
  <2> QED
    BY <1>0, <1>1, <2>1, NewWinner DEF NamedInv
<1>3. ASSUME NEW r \in ProdReqs, ppc'[r] \in {"idle", "ask"} PROVE answer'[r] = {}
  BY <1>0, <1>3, CallBegins DEF NamedInv
<1>4. ASSUME NEW m \in EndMsgs, endPc'[m] = "ready", won'[m] # {}
      PROVE  \E w \in auctionWinner' : /\ w.product = endOf[m]
                                        /\ w.winner = {t.user : t \in won'[m]}
  <2>1. CASE endPc[m] = "ready" /\ won'[m] = won[m]
    BY <1>0, <1>1, <1>4, <2>1 DEF NamedInv
  <2>2. CASE PublishAuctionWinner(m) /\ won' = won
    <3> DEFINE v == [msg |-> m, product |-> endOf[m], winner |-> {t.user : t \in won[m]}]
    <3>1. v \in auctionWinner'
      BY <2>2 DEF PublishAuctionWinner
    <3> QED
      BY <2>2, <3>1
  <2> QED
    BY <1>0, <1>4, <2>1, <2>2, ReadyMove
<1> QED
  BY <1>0, <1>2, <1>3, <1>4 DEF NamedInv

LEMMA InitSaleInv == ASSUME HubAssumptions, HubInit PROVE SaleInv
<1>1. HubInv
  BY InitHubInv
<1>2. BegunInv /\ NamedInv
  BY DEF HubInit, Init, P!Init, BegunInv, NamedInv, Ending
<1> QED
  BY <1>1, <1>2 DEF SaleInv

LEMMA NextSaleInv ==
    ASSUME HubAssumptions, SaleInv, [HubNext]_hubVars
    PROVE  SaleInv'
BY NextHubInv, BegunStep, NamedStep DEF SaleInv

\* SaleInv holds in every reachable state: whoever bids, asks or ends has found the
\* auction begun, and a name is announced before its handler reads another one.
THEOREM SaleInductive == ASSUME HubAssumptions PROVE HubSpec => []SaleInv
<1>1. HubInit => SaleInv
  BY InitSaleInv
<1>2. SaleInv /\ [HubNext]_hubVars => SaleInv'
  BY NextSaleInv
<1> QED
  BY <1>1, <1>2, PTL DEF HubSpec

-----------------------------------------------------------------------------
\* The two services implement Auction, with and without faults: a bid is accepted
\* only after its auction was begun and never from the seller, every current price
\* is one that was asked or that of an accepted bid, and every winner was, after
\* the auction was begun, the highest bidder.
THEOREM SaleRefinement == ASSUME HubAssumptions PROVE HubSpec => ImplementsAuction
<1>1. HubInit => Sale!Init
  <2>1. ASSUME HubInit PROVE product = [p \in Products |-> Sale!Unlisted]
    BY <2>1 DEF HubInit, P!Init, P!NoDocument, Sale!Unlisted
  <2>2. ASSUME HubInit PROVE Accepted = {} /\ NamesGiven = {}
    BY <2>2 DEF HubInit, Init, P!Init, Accepted, NamesGiven, Answers
  <2> QED
    BY <2>1, <2>2, NamesAre DEF Sale!Init, Accepted
<1>2. SaleInv /\ [HubNext]_hubVars => [Sale!Next]_(Sale!vars)
  BY HubSeen
<1> QED
  BY <1>1, <1>2, SaleInductive, PTL DEF HubSpec, ImplementsAuction, Sale!Spec

-----------------------------------------------------------------------------
(* The promises of the product service, kept with the real bidding service: *)
(* the abstract auction keeps those about its documents, and a start-auction*)
(* reads the status that the documents keep.                                *)

\* What a step may do to a document that exists: one that is live may change,
\* but its winner is replaced by a name only.
SaleMove(p) ==
    \/ product'[p] = product[p]
    \/ product[p].life = "absent"
    \/ /\ product[p].life = "live"
       /\ \/ product'[p].winner = product[p].winner
          \/ <<p, product'[p].winner>> \in NamesGiven

LEMMA NamesNameOne == \A p : <<p, {}>> \notin NamesGiven
BY DEF NamesGiven

LEMMA SaleMoves ==
    ASSUME P!TypeOK, [Sale!Next]_(Sale!vars), NEW p \in Products
    PROVE  SaleMove(p)
<1>0. product \in [Products -> P!Documents] /\ product[p] \in P!Documents
  BY DEF P!TypeOK
<1>1. ASSUME NEW q \in Products, Sale!Follow(q) PROVE SaleMove(p)
  <2>1. PICK x, y : product' = [product EXCEPT ![q].currentPrice = x, ![q].totalBids = y]
    BY <1>1 DEF Sale!Follow
  <2>2. product[q].life = "live"
    BY <1>1 DEF Sale!Follow, Sale!Live
  <2> QED
    BY <1>0, <2>1, <2>2 DEF SaleMove, P!Documents
<1>2. ASSUME NEW q \in Products, Sale!Reprice(q) PROVE SaleMove(p)
  <2>1. PICK x : product' = [product EXCEPT ![q].startingPrice = x, ![q].currentPrice = x]
    BY <1>2 DEF Sale!Reprice
  <2>2. product[q].life = "live"
    BY <1>2 DEF Sale!Reprice, Sale!Live
  <2> QED
    BY <1>0, <2>1, <2>2 DEF SaleMove, P!Documents
<1>3. ASSUME NEW q \in Products, Sale!Conclude(q) PROVE SaleMove(p)
  <2>1. PICK w \in {product[q].winner} \cup {n[2] : n \in {k \in Names : k[1] = q}} :
           product' = [product EXCEPT ![q].status = "ended", ![q].winner = w]
    BY <1>3 DEF Sale!Conclude
  <2>2. product[q].life = "live"
    BY <1>3 DEF Sale!Conclude, Sale!Live
  <2>3. w = product[q].winner \/ <<q, w>> \in NamesGiven
    BY <2>1, NamesAre DEF NamesGiven, Answers
  <2>4. CASE p = q
    <3>1. product'[p].winner = w
      BY <1>0, <2>1, <2>4 DEF P!Documents
    <3> QED
      BY <2>2, <2>3, <2>4, <3>1 DEF SaleMove
  <2>5. CASE p # q
    BY <1>0, <2>1, <2>5 DEF SaleMove
  <2> QED
    BY <2>4, <2>5
<1>4. ASSUME NEW q \in Products, Sale!Begin(q) \/ Sale!Remove(q) PROVE SaleMove(p)
  BY <1>0, <1>4 DEF Sale!Begin, Sale!Remove, Sale!Live, SaleMove, P!Documents
<1>5. ASSUME NEW q \in Products, Sale!List(q) PROVE SaleMove(p)
  BY <1>0, <1>5 DEF Sale!List, SaleMove
<1>6. ASSUME UNCHANGED product PROVE SaleMove(p)
  BY <1>6 DEF SaleMove
<1>7. UNCHANGED Sale!vars => UNCHANGED product
  BY DEF Sale!vars
<1> QED
  BY <1>1, <1>2, <1>3, <1>4, <1>5, <1>6, <1>7
     DEF Sale!Next, Sale!Accept, Sale!Name, Sale!Forget

\* No step of either service touches a deleted product.
THEOREM HubDeletedStays == ASSUME HubAssumptions PROVE HubSpec => P!DeletedIsFrozen
<1>1. ASSUME SaleInv, [HubNext]_hubVars, NEW p \in Products, product[p].life = "deleted"
      PROVE  product'[p] = product[p]
  BY <1>1, HubSeen, SaleMoves DEF SaleMove, SaleInv, HubInv
<1>2. SaleInv /\ [HubNext]_hubVars =>
        [\A p \in Products : product[p].life = "deleted" => product'[p] = product[p]]_(P!pVars)
  BY <1>1
<1> QED
  BY <1>2, SaleInductive, PTL DEF HubSpec, P!DeletedIsFrozen

\* No step of either service returns a product to draft or leaves it without
\* the winner it had.
THEOREM HubNoStepBack == ASSUME HubAssumptions PROVE HubSpec => P!NoWayBack
<1>1. ASSUME SaleInv, [HubNext]_hubVars, NEW p \in Products
      PROVE  /\ product[p].status # "draft" => product'[p].status # "draft"
             /\ product[p].winner # {} => product'[p].winner # {}
  <2>1. product[p].status # "draft" => product'[p].status # "draft"
    BY <1>1, BegunStays DEF Begun
  <2>2. product[p].life = "absent" => product[p].winner = {}
    BY <1>1 DEF SaleInv, HubInv, SellerInv, P!AbsentInv, P!NoDocument
  <2>3. SaleMove(p)
    BY <1>1, HubSeen, SaleMoves DEF SaleInv, HubInv
  <2> QED
    BY <2>1, <2>2, <2>3, NamesNameOne DEF SaleMove
<1>2. SaleInv /\ [HubNext]_hubVars =>
        [\A p \in Products :
           /\ product[p].status # "draft" => product'[p].status # "draft"
           /\ product[p].winner # {} => product'[p].winner # {}]_(P!pVars)
  BY <1>1
<1> QED
  BY <1>2, SaleInductive, PTL DEF HubSpec, P!NoWayBack

\* A start-auction is let through in draft only, and writes active before it
\* publishes.
LEMMA StartMove ==
    ASSUME HubAssumptions, P!TypeOK, [HubNext]_hubVars,
           NEW p \in Products, NEW r \in P!Starts(p)
    PROVE  /\ ppc[r] = "idle" => \/ ppc'[r] \in {"idle", "rejected"}
                                 \/ product[p].status = "draft"
           /\ ppc'[r] \in {"publish", "done"} =>
                  \/ ppc[r] \in {"publish", "done"}
                  \/ product'[p].status = "active"
<1> USE DEF P!TypeOK, P!CallPCs
<1>0. r \in ProdReqs /\ call[r].op = "start" /\ call[r].product = p
      /\ product \in [Products -> P!Documents]
  BY DEF P!Starts
<1> DEFINE Goal == /\ ppc[r] = "idle" => \/ ppc'[r] \in {"idle", "rejected"}
                                         \/ product[p].status = "draft"
                   /\ ppc'[r] \in {"publish", "done"} =>
                          \/ ppc[r] \in {"publish", "done"}
                          \/ product'[p].status = "active"
<1>1. ASSUME P!CheckProduct(r) PROVE Goal
  BY <1>0, <1>1 DEF P!CheckProduct, P!Allows, P!ValidTransition
<1>2. ASSUME P!StartAuction(r) PROVE Goal
  <2>1. CASE P!Found(p)
    <3>1. product' = [product EXCEPT ![p].status = "active"] /\ ppc[r] = "write"
      BY <1>0, <1>2, <2>1 DEF P!StartAuction
    <3>2. product'[p].status = "active"
      BY <1>0, <3>1 DEF P!Documents
    <3> QED
      BY <3>1, <3>2
  <2>2. CASE ~P!Found(p)
    BY <1>0, <1>2, <2>2 DEF P!StartAuction
  <2> QED
    BY <2>1, <2>2
<1>3. ASSUME P!PublishAuction(r) \/ P!FailCall(r) \/ HubAskWinner(r) PROVE Goal
  BY <1>0, <1>3 DEF P!PublishAuction, P!FailCall, HubAskWinner, P!AskWinner
<1>4. ASSUME ppc'[r] = ppc[r] PROVE Goal
  BY <1>4
<1>5. ~P!CreateProduct(r) /\ ~P!RefuseProduct(r) /\ ~P!DeleteProduct(r)
      /\ ~P!UpdateProduct(r) /\ ~P!EndAuction(r)
  BY <1>0 DEF P!CreateProduct, P!RefuseProduct, P!DeleteProduct, P!UpdateProduct,
     P!EndAuction
<1>6. ASSUME NEW q \in ProdReqs, q # r,
             P!CallStep(q) \/ HubAskWinner(q) \/ P!FailCall(q)
      PROVE  ppc'[r] = ppc[r]
  <2>1. ppc' = [ppc EXCEPT ![q] = ppc'[q]]
    BY <1>6 DEF P!CallStep, P!WriteStep, P!CreateProduct, P!RefuseProduct,
       P!CheckProduct, P!UpdateProduct, P!StartAuction, P!EndAuction, P!PublishAuction,
       P!DeleteProduct, HubAskWinner, P!AskWinner, P!FailCall
  <2>2. q # r /\ ppc \in [ProdReqs -> P!CallPCs]
    BY <1>6
  <2> QED
    BY <1>0, <2>1, <2>2
<1>7. P!ConsumerStep \/ P!RestartConsumers \/ P!DropMessage => ppc' = ppc
  BY DEF P!ConsumerStep, P!ReadForBid, P!WriteBidInfo, P!ApplyWinner,
     P!RestartConsumers, P!DropMessage
<1>8. \/ UNCHANGED prodVars
      \/ \E b \in BidReqs : HubPublishBidPlaced(b)
      \/ \E m \in ProdReqs : HubPublishWinner(m)
      => ppc' = ppc
  BY DEF HubPublishBidPlaced, HubPublishWinner
<1> HIDE DEF Goal
<1>9. ProductStep => Goal
  BY <1>1, <1>2, <1>3, <1>4, <1>5, <1>6, <1>7
     DEF ProductStep, P!CallStep, P!WriteStep, P!ProductFault
<1>10. Goal
  BY <1>4, <1>8, <1>9, HubCases DEF HubAssumptions, hubVars
<1> QED
  BY <1>10 DEF Goal

\* A start-auction sent after another one wrote the product is refused.
THEOREM HubLaterStartLoses == ASSUME HubAssumptions PROVE HubSpec => P!LaterStartRefused
<1>1. HubInit => P!StartedInv
  BY DEF HubInit, P!Init, P!StartedInv, P!Starts
<1>2. ASSUME SaleInv, P!StartedInv, [HubNext]_hubVars, NEW p \in Products,
             NEW r \in P!Starts(p)', ppc'[r] \in {"publish", "done"}
      PROVE  product'[p].status # "draft"
  <2>1. P!TypeOK /\ UNCHANGED call
    BY <1>2, HubDocuments, ProductFrame DEF SaleInv, HubInv
  <2>2. r \in P!Starts(p)
    BY <2>1 DEF P!Starts
  <2>3. CASE product'[p].status = "active"
    BY <2>3
  <2>4. CASE ppc[r] \in {"publish", "done"}
    <3>1. Begun(p)
      BY <1>2, <2>2, <2>4 DEF P!StartedInv, Begun
    <3> QED
      BY <1>2, <3>1, BegunStays DEF Begun
  <2> QED
    BY <1>2, <2>1, <2>2, <2>3, <2>4, StartMove
<1>3. SaleInv /\ P!StartedInv /\ [HubNext]_hubVars => P!StartedInv'
  BY <1>2 DEF P!StartedInv
<1>4. ASSUME SaleInv, P!StartedInv, [HubNext]_hubVars, NEW p \in Products,
             NEW r \in P!Starts(p), NEW s \in P!Starts(p),
             ppc[r] \in {"publish", "done"}, ppc[s] = "idle"
      PROVE  ppc'[s] \in {"idle", "rejected"}
  <2>1. product[p].status # "draft"
    BY <1>4 DEF P!StartedInv
  <2> QED
    BY <1>4, <2>1, StartMove DEF SaleInv, HubInv
<1>5. SaleInv /\ P!StartedInv /\ [HubNext]_hubVars =>
        [\A p \in Products : \A r, s \in P!Starts(p) :
           ppc[r] \in {"publish", "done"} /\ ppc[s] = "idle"
           => ppc'[s] \in {"idle", "rejected"}]_(P!pVars)
  BY <1>4
<1> QED
  BY <1>1, <1>3, <1>5, SaleInductive, PTL DEF HubSpec, P!LaterStartRefused

-----------------------------------------------------------------------------
(* The lifecycle, for requests to start that do not overlap.               *)

\* What a step may do to the status of a product.
StatusMove(p) ==
    \/ product'[p].status = product[p].status
    \/ Begun(p) /\ product'[p].status = "ended"
    \/ \E q \in P!Starts(p) :
           ppc[q] = "write" /\ ppc'[q] = "publish" /\ product'[p].status = "active"

LEMMA EndingMoves ==
    ASSUME P!TypeOK, NEW p \in Products, NEW q \in Products, NEW w,
           P!SetEnded(q, w), Begun(q)
    PROVE  StatusMove(p)
<1>1. product' = [product EXCEPT ![q].status = "ended",
                                 ![q].winner = P!WinnerAfter(q, w)]
  BY DEF P!SetEnded, P!EndedStatus
<1>2. product'[p].status = product[p].status \/ (p = q /\ product'[p].status = "ended")
  BY <1>1 DEF P!TypeOK, P!Documents
<1> QED
  BY <1>2 DEF StatusMove

LEMMA StatusMoves ==
    ASSUME HubAssumptions, SaleInv, [HubNext]_hubVars, NEW p \in Products
    PROVE  StatusMove(p)
<1>0. /\ P!TypeOK /\ P!AbsentInv /\ BegunInv
      /\ \A r \in ProdReqs : call[r] \in P!Calls /\ call[r].product \in Products
  BY DEF SaleInv, HubInv, SellerInv, P!TypeOK, P!Calls
<1>1. ASSUME NEW r \in ProdReqs, P!CreateProduct(r) PROVE StatusMove(p)
  <2>1. PICK x : product' = [product EXCEPT ![call[r].product] =
                   [life |-> "live", seller |-> call[r].user, status |-> "draft",
                    startingPrice |-> x, currentPrice |-> x,
                    totalBids |-> 0, winner |-> {}]]
    BY <1>1 DEF P!CreateProduct, P!InitialPrice
  <2>2. product[call[r].product].status = "draft"
    BY <1>0, <1>1 DEF P!CreateProduct, P!AbsentInv, P!NoDocument
  <2> QED
    BY <1>0, <2>1, <2>2 DEF StatusMove, P!TypeOK
<1>2. ASSUME NEW r \in ProdReqs, P!UpdateProduct(r) PROVE StatusMove(p)
  <2> DEFINE q == call[r].product
  <2>1. \/ UNCHANGED product
        \/ \E x, y : product' = [product EXCEPT ![q].startingPrice = x,
                                                ![q].currentPrice = y]
    BY <1>2 DEF P!UpdateProduct
  <2>2. ASSUME NEW x, NEW y,
               product' = [product EXCEPT ![q].startingPrice = x, ![q].currentPrice = y]
        PROVE  product'[p].status = product[p].status
    BY <1>0, <2>2 DEF P!TypeOK, P!Documents
  <2> QED
    BY <2>1, <2>2 DEF StatusMove
<1>3. ASSUME NEW r \in ProdReqs, P!StartAuction(r) PROVE StatusMove(p)
  <2> DEFINE q == call[r].product
  <2>1. CASE P!Found(q)
    <3>1. product' = [product EXCEPT ![q].status = "active"]
          /\ ppc[r] = "write" /\ ppc'[r] = "publish" /\ call[r].op = "start"
      BY <1>0, <1>3, <2>1 DEF P!StartAuction, P!TypeOK
    <3>2. CASE p = q
      <4>1. product'[p].status = "active" /\ r \in P!Starts(p)
        BY <1>0, <3>1, <3>2 DEF P!TypeOK, P!Documents, P!Starts
      <4> QED
        BY <3>1, <4>1 DEF StatusMove
    <3>3. CASE p # q
      BY <1>0, <3>1, <3>3 DEF StatusMove, P!TypeOK
    <3> QED
      BY <3>2, <3>3
  <2>2. CASE ~P!Found(q)
    BY <1>0, <1>3, <2>2 DEF P!StartAuction, StatusMove
  <2> QED
    BY <2>1, <2>2
<1>4. ASSUME NEW r \in ProdReqs, P!EndAuction(r) PROVE StatusMove(p)
  <2>1. Begun(call[r].product)
    BY <1>0, <1>4 DEF P!EndAuction, BegunInv, Ending
  <2>2. P!SetEnded(call[r].product, answer[r]) \/ UNCHANGED product
    BY <1>4 DEF P!EndAuction
  <2> QED
    BY <1>0, <2>1, <2>2, EndingMoves DEF StatusMove
<1>5. ASSUME NEW r \in ProdReqs, P!DeleteProduct(r) PROVE StatusMove(p)
  BY <1>0, <1>5 DEF P!DeleteProduct, StatusMove, P!TypeOK, P!Documents
<1>6. ASSUME NEW h \in bidRead, P!WriteBidInfo(h) PROVE StatusMove(p)
  <2> DEFINE q == h.msg.product
  <2>1. \/ UNCHANGED product
        \/ \E x, y : product' = [product EXCEPT ![q].currentPrice = x, ![q].totalBids = y]
    BY <1>6 DEF P!WriteBidInfo
  <2>2. ASSUME NEW x, NEW y,
               product' = [product EXCEPT ![q].currentPrice = x, ![q].totalBids = y]
        PROVE  product'[p].status = product[p].status
    BY <1>0, <2>2 DEF P!TypeOK, P!Documents
  <2> QED
    BY <2>1, <2>2 DEF StatusMove
<1>7. ASSUME NEW w \in winInbox, P!ApplyWinner(w) PROVE StatusMove(p)
  <2>1. w.product \in Products /\ Begun(w.product)
    BY <1>0 DEF P!TypeOK, P!WinnerMessages, BegunInv
  <2>2. P!SetEnded(w.product, w.winner) \/ UNCHANGED product
    BY <1>7 DEF P!ApplyWinner
  <2> QED
    BY <1>0, <2>1, <2>2, EndingMoves DEF StatusMove
<1>8. ASSUME UNCHANGED product PROVE StatusMove(p)
  BY <1>8 DEF StatusMove
<1>9. ASSUME NEW r \in ProdReqs,
             \/ P!RefuseProduct(r) \/ P!CheckProduct(r) \/ P!PublishAuction(r)
             \/ HubAskWinner(r) \/ P!FailCall(r)
      PROVE  UNCHANGED product
  BY <1>9 DEF P!RefuseProduct, P!CheckProduct, P!PublishAuction, HubAskWinner,
     P!AskWinner, P!FailCall
<1>10. ASSUME (\E m \in bidInbox : P!ReadForBid(m)) \/ P!RestartConsumers \/ P!DropMessage
       PROVE  UNCHANGED product
  BY <1>10 DEF P!ReadForBid, P!RestartConsumers, P!DropMessage
<1>11. ProductStep => StatusMove(p)
  BY <1>1, <1>2, <1>3, <1>4, <1>5, <1>6, <1>7, <1>8, <1>9, <1>10
     DEF ProductStep, P!CallStep, P!WriteStep, P!ConsumerStep, P!ProductFault
<1>12. \/ UNCHANGED prodVars
       \/ \E b \in BidReqs : HubPublishBidPlaced(b)
       \/ \E m \in ProdReqs : HubPublishWinner(m)
       => UNCHANGED product
  BY DEF HubPublishBidPlaced, HubPublishWinner
<1> QED
  BY <1>8, <1>11, <1>12, HubCases DEF HubAssumptions, hubVars

\* A request to start that is about to write was so before, or finds a draft.
LEMMA WriteMove ==
    ASSUME HubAssumptions, P!TypeOK, [HubNext]_hubVars,
           NEW p \in Products, NEW r \in P!Starts(p), ppc[r] # "ask"
    PROVE  /\ ppc'[r] # "ask"
           /\ ppc'[r] = "write" =>
                  ppc[r] = "write" \/ (product[p].status = "draft" /\ UNCHANGED product)
<1> USE DEF P!TypeOK, P!CallPCs
<1>0. r \in ProdReqs /\ call[r].op = "start" /\ call[r].product = p
  BY DEF P!Starts
<1> DEFINE Goal ==
       /\ ppc'[r] # "ask"
       /\ ppc'[r] = "write" =>
              ppc[r] = "write" \/ (product[p].status = "draft" /\ UNCHANGED product)
<1>1. ASSUME NEW q \in ProdReqs, P!CheckProduct(q) PROVE Goal
  <2>1. CASE q = r
    BY <1>0, <1>1, <2>1 DEF P!CheckProduct, P!Allows, P!ValidTransition
  <2>2. CASE q # r
    BY <1>0, <1>1, <2>2 DEF P!CheckProduct
  <2> QED
    BY <2>1, <2>2
<1>2. ASSUME NEW q \in ProdReqs,
             P!StartAuction(q) \/ P!EndAuction(q) \/ P!UpdateProduct(q)
      PROVE  Goal
  BY <1>0, <1>2 DEF P!StartAuction, P!EndAuction, P!UpdateProduct
<1>3. ASSUME NEW q \in ProdReqs, P!PublishAuction(q) \/ HubAskWinner(q) \/ P!FailCall(q)
      PROVE  Goal
  BY <1>0, <1>3 DEF P!PublishAuction, HubAskWinner, P!AskWinner, P!FailCall
<1>4. ASSUME NEW q \in ProdReqs,
             P!CreateProduct(q) \/ P!RefuseProduct(q) \/ P!DeleteProduct(q)
      PROVE  Goal
  BY <1>0, <1>4 DEF P!CreateProduct, P!RefuseProduct, P!DeleteProduct
<1>5. ASSUME ppc' = ppc PROVE Goal
  BY <1>5
<1>6. P!ConsumerStep \/ P!RestartConsumers \/ P!DropMessage => ppc' = ppc
  BY DEF P!ConsumerStep, P!ReadForBid, P!WriteBidInfo, P!ApplyWinner,
     P!RestartConsumers, P!DropMessage
<1>7. \/ UNCHANGED prodVars
      \/ \E b \in BidReqs : HubPublishBidPlaced(b)
      \/ \E m \in ProdReqs : HubPublishWinner(m)
      => ppc' = ppc
  BY DEF HubPublishBidPlaced, HubPublishWinner
<1> HIDE DEF Goal
<1>8. ProductStep => Goal
  BY <1>1, <1>2, <1>3, <1>4, <1>5, <1>6
     DEF ProductStep, P!CallStep, P!WriteStep, P!ProductFault
<1>9. Goal
  BY <1>5, <1>7, <1>8, HubCases DEF HubAssumptions, hubVars
<1> QED
  BY <1>9 DEF Goal

\* Requests to start a product that do not overlap keep the lifecycle: draft,
\* active, ended, whatever requests to end it, late messages and faults do.
THEOREM LifecycleKept ==
    ASSUME HubAssumptions
    PROVE  HubSpec /\ []P!StartsApart => P!LifecycleForward
<1>1. HubInit => P!DraftInv
  BY DEF HubInit, P!Init, P!DraftInv, P!Starts
<1>2. ASSUME SaleInv, P!DraftInv, P!StartsApart, [HubNext]_hubVars,
             NEW p \in Products, NEW r \in P!Starts(p)'
      PROVE  ppc'[r] # "ask" /\ (ppc'[r] = "write" => product'[p].status = "draft")
  <2>1. r \in P!Starts(p) /\ p \in Products /\ P!TypeOK
    BY <1>2, ProductFrame, HubDocuments DEF P!Starts, SaleInv, HubInv
  <2>2. ppc[r] # "ask"
    BY <1>2, <2>1 DEF P!DraftInv
  <2>3. ASSUME ppc'[r] = "write", ppc[r] = "write" PROVE product'[p].status = "draft"
    <3>1. product[p].status = "draft"
      BY <2>1, <2>3, <1>2 DEF P!DraftInv
    <3>2. ASSUME NEW q \in P!Starts(p), ppc[q] = "write" PROVE ppc'[q] # "publish"
      BY <1>2, <2>1, <2>3, <3>2 DEF P!StartsApart
    <3> QED
      BY <1>2, <3>1, <3>2, StatusMoves DEF StatusMove, Begun
  <2> QED
    BY <1>2, <2>1, <2>2, <2>3, WriteMove
<1>3. SaleInv /\ P!DraftInv /\ P!StartsApart /\ [HubNext]_hubVars
      => P!DraftInv'
  BY <1>2 DEF P!DraftInv
<1>4. ASSUME SaleInv, P!DraftInv, [HubNext]_hubVars, NEW p \in Products
      PROVE  P!Rank(product[p].status) <= P!Rank(product'[p].status)
  <2>1. CASE product'[p].status = product[p].status
    BY <2>1 DEF P!Rank
  <2>2. CASE product'[p].status = "ended"
    BY <2>2 DEF P!Rank
  <2>3. CASE \E q \in P!Starts(p) : ppc[q] = "write" /\ product'[p].status = "active"
    <3>1. product[p].status = "draft" /\ product'[p].status = "active"
      BY <1>4, <2>3 DEF P!DraftInv
    <3> QED
      BY <3>1 DEF P!Rank
  <2> QED
    BY <1>4, <2>1, <2>2, <2>3, StatusMoves DEF StatusMove
<1>5. SaleInv /\ P!DraftInv /\ [HubNext]_hubVars =>
        [\A p \in Products :
           P!Rank(product[p].status) <= P!Rank(product'[p].status)]_(P!pVars)
  BY <1>4
<1> QED
  BY <1>1, <1>3, <1>5, SaleInductive, PTL DEF HubSpec, P!LifecycleForward

=============================================================================
