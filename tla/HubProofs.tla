----------------------------- MODULE HubProofs -----------------------------
(***************************************************************************)
(* Theorems about AuctionHub: both services with the calls and queues      *)
(* between them, for every set of products, users, prices, amounts and     *)
(* requests.  The steps of the bidding service are those of BiddingProofs, *)
(* where the answers of the product service were arbitrary, so that IInv   *)
(* is carried over as it is.                                               *)
(***************************************************************************)
EXTENDS AuctionHub, BiddingProofs

USE DEF prodVars, inputVars, reqVars, storeVars, handVars, eventVars,
        P!docVars, P!callVars, P!queueVars, P!outVars, WithoutDummy

HubAssumptions == BiddingAssumption /\ HubAssumption /\ ProductSide

-----------------------------------------------------------------------------
(* The kinds of steps.                                                     *)

\* Steps of the product service.
ProductStep ==
    \/ \E r \in ProdReqs : P!CallStep(r) \/ HubAskWinner(r)
    \/ P!ConsumerStep
    \/ P!ProductFault

\* A step of the hub is a step of one of the services; the bidding service
\* reaches the other one only through the two queues.
LEMMA HubCases ==
    ASSUME HubAssumption, HubNext
    PROVE  \/ /\ ServiceStep
              /\ \/ UNCHANGED prodVars
                 \/ \E r \in BidReqs : HubPublishBidPlaced(r)
                 \/ \E m \in ProdReqs : HubPublishWinner(m)
           \/ ProductStep /\ UNCHANGED bVars
<1>1. ASSUME NEW r \in BidReqs,
             HubValidateBid(r) \/ HubBidStep(r) \/ HubPublishBidPlaced(r)
      PROVE  ServiceStep /\ (UNCHANGED prodVars \/ HubPublishBidPlaced(r))
  BY <1>1 DEF HubValidateBid, HubBidStep, HubPublishBidPlaced, ServiceStep, RequestStep,
     BidStep
<1>2. ASSUME NEW m \in ProdReqs, HubStartStep(m) \/ HubEndStep(m) \/ HubPublishWinner(m)
      PROVE  ServiceStep /\ (UNCHANGED prodVars \/ HubPublishWinner(m))
  BY <1>2 DEF HubAssumption, HubStartStep, HubEndStep, HubPublishWinner, ServiceStep,
     EndStep
<1>3. ASSUME NEW r \in ProdReqs, HubCallStep(r) \/ HubAskWinner(r)
      PROVE  ProductStep /\ UNCHANGED bVars
  BY <1>3 DEF HubCallStep, HubAskWinner, ProductStep
<1>4. CASE HubConsumerStep
  BY <1>4 DEF HubConsumerStep, ProductStep
<1>5. CASE HubFault
  <2>1. BiddingFault => ServiceStep
    BY DEF BiddingFault, ServiceStep, RequestStep
  <2> QED
    BY <1>5, <2>1 DEF HubFault, ProductStep
<1> QED
  BY <1>1, <1>2, <1>3, <1>4, <1>5 DEF HubNext

LEMMA HubService ==
    ASSUME HubAssumption, [HubNext]_hubVars
    PROVE  [ServiceStep]_bVars
BY HubCases DEF hubVars

-----------------------------------------------------------------------------
(* What the product service does to its documents.                         *)

LEMMA DocumentTyped ==
    ASSUME NEW d \in P!Documents
    PROVE  /\ \A s \in P!AuctionStatuses : [d EXCEPT !.status = s] \in P!Documents
           /\ \A s \in P!AuctionStatuses, w \in P!Winners :
                  [d EXCEPT !.status = s, !.winner = w] \in P!Documents
           /\ \A x, y \in Nat :
                  /\ [d EXCEPT !.startingPrice = x, !.currentPrice = y] \in P!Documents
                  /\ [d EXCEPT !.currentPrice = x, !.totalBids = y] \in P!Documents
           /\ [d EXCEPT !.life = "deleted"] \in P!Documents
BY DEF P!Documents

\* A new starting price is the new current price, too.
LEMMA AskedTyped ==
    ASSUME P!ProductAssumption, NEW c \in P!Calls, NEW x \in Nat, NEW y \in Nat
    PROVE  /\ P!Asked(c, x) \in Nat
           /\ \/ P!Asked(c, x) = x /\ P!Asked(c, y) = y
              \/ P!Asked(c, x) = P!Asked(c, y)
<1>1. CASE c.price = {}
  BY <1>1 DEF P!Asked
<1>2. CASE c.price # {}
  <2>1. PICK z \in Prices : c.price = {z}
    BY <1>2 DEF P!Calls
  <2>2. (CHOOSE v \in c.price : TRUE) = z
    BY <2>1
  <2> QED
    BY <1>2, <2>1, <2>2 DEF P!Asked, P!ProductAssumption
<1> QED
  BY <1>1, <1>2

\* A step leaves a document alone, creates it, or changes a live one.
Created(p) ==
    /\ product[p].life = "absent" /\ product'[p].life = "live"
    /\ product'[p].seller \in Users
    /\ product'[p].currentPrice = product'[p].startingPrice
    /\ product'[p].totalBids = 0 /\ product'[p].winner = {}

SamePrices(p) ==
    /\ product'[p].totalBids = product[p].totalBids
    /\ \/ /\ product'[p].currentPrice = product[p].currentPrice
          /\ product'[p].startingPrice = product[p].startingPrice
       \/ /\ product'[p].currentPrice = product'[p].startingPrice
          /\ \E r \in ProdReqs : P!UpdateProduct(r) /\ call[r].product = p

BidWritten(h, p) ==
    /\ P!WriteBidInfo(h) /\ h.msg.product = p
    /\ product'[p].currentPrice = h.msg.amount
    /\ product'[p].totalBids = h.count + 1

WinnerWritten(p) ==
    \/ product'[p].winner = product[p].winner
    \/ \E r \in ProdReqs : /\ P!EndAuction(r) /\ call[r].product = p
                           /\ product'[p].winner = answer[r]
    \/ \E w \in winInbox : /\ P!ApplyWinner(w) /\ w.product = p
                           /\ product'[p].winner = w.winner

Changed(p) ==
    /\ product[p].life = "live" /\ product'[p].life \in {"live", "deleted"}
    /\ product'[p].seller = product[p].seller
    /\ SamePrices(p) \/ \E h \in bidRead : BidWritten(h, p)
    /\ WinnerWritten(p)

\* setWinner and updateAuctionStatus.
LEMMA EndedEffect ==
    ASSUME P!TypeOK, NEW q \in Products, NEW w \in P!Winners, P!SetEnded(q, w)
    PROVE  /\ product' \in [Products -> P!Documents]
           /\ \A p \in Products : p # q => product'[p] = product[p]
           /\ product'[q].life = product[q].life /\ product'[q].seller = product[q].seller
           /\ SamePrices(q)
           /\ product'[q].winner = IF w = {} THEN product[q].winner ELSE w
<1>1. product \in [Products -> P!Documents] /\ product[q] \in P!Documents
  BY DEF P!TypeOK
<1>2. P!WinnerAfter(q, w) \in P!Winners
  BY <1>1 DEF P!WinnerAfter, P!Documents
<1>3. product' = [product EXCEPT ![q] = [product[q] EXCEPT
                    !.status = "ended", !.winner = P!WinnerAfter(q, w)]]
  BY <1>1 DEF P!SetEnded, P!EndedStatus
<1>4. [product[q] EXCEPT !.status = "ended", !.winner = P!WinnerAfter(q, w)] \in P!Documents
  BY <1>1, <1>2, DocumentTyped DEF P!AuctionStatuses
<1>5. product' \in [Products -> P!Documents]
      /\ product'[q] = [product[q] EXCEPT !.status = "ended", !.winner = P!WinnerAfter(q, w)]
      /\ \A p \in Products : p # q => product'[p] = product[p]
  BY <1>1, <1>3, <1>4
<1> HIDE <1>3
<1>6. /\ product'[q].life = product[q].life /\ product'[q].seller = product[q].seller
      /\ product'[q].currentPrice = product[q].currentPrice
      /\ product'[q].startingPrice = product[q].startingPrice
      /\ product'[q].totalBids = product[q].totalBids
      /\ product'[q].winner = P!WinnerAfter(q, w)
  BY <1>1, <1>5 DEF P!Documents
<1> QED
  BY <1>5, <1>6 DEF SamePrices, P!WinnerAfter

LEMMA DocumentEffect ==
    ASSUME HubAssumptions, P!TypeOK, ProductStep
    PROVE  /\ product' \in [Products -> P!Documents]
           /\ \A p \in Products : product'[p] = product[p] \/ Created(p) \/ Changed(p)
<1> DEFINE Goal == /\ product' \in [Products -> P!Documents]
                   /\ \A p \in Products :
                          product'[p] = product[p] \/ Created(p) \/ Changed(p)
<1>0. /\ product \in [Products -> P!Documents] /\ P!ProductAssumption
      /\ \A p \in Products : product[p] \in P!Documents
      /\ \A r \in ProdReqs : call[r] \in P!Calls /\ call[r].product \in Products
  BY DEF P!TypeOK, P!Calls, HubAssumptions
<1>1. ASSUME NEW r \in ProdReqs, P!CreateProduct(r) PROVE Goal
  <2> DEFINE q == call[r].product
  <2>1. PICK x \in call[r].price :
           product' = [product EXCEPT ![q] =
                   [life |-> "live", seller |-> call[r].user, status |-> "draft",
                    startingPrice |-> x, currentPrice |-> x,
                    totalBids |-> 0, winner |-> {}]]
    BY <1>1 DEF P!CreateProduct, P!InitialPrice
  <2>2. x \in Nat /\ call[r].user \in Users /\ product[q].life = "absent"
    <3>1. x \in Nat
      <4>1. call[r].price \in {{}} \cup {{z} : z \in Prices}
        BY <1>0 DEF P!Calls
      <4> QED
        BY <1>0, <2>1, <4>1 DEF P!ProductAssumption
    <3>2. call[r].user \in Users
      BY <1>0 DEF P!Calls
    <3> QED
      BY <1>1, <3>1, <3>2 DEF P!CreateProduct
  <2>3. [life |-> "live", seller |-> call[r].user, status |-> "draft",
         startingPrice |-> x, currentPrice |-> x,
         totalBids |-> 0, winner |-> {}] \in P!Documents
    BY <2>2 DEF P!Documents, P!AuctionStatuses, P!Winners
  <2> QED
    BY <1>0, <2>1, <2>2, <2>3 DEF Created
<1>2. ASSUME NEW r \in ProdReqs, P!UpdateProduct(r) PROVE Goal
  <2> DEFINE q == call[r].product
             d == [product[q] EXCEPT !.startingPrice = P!Asked(call[r], product[q].startingPrice),
                                     !.currentPrice = P!Asked(call[r], product[q].currentPrice)]
  <2>1. CASE P!Found(q)
    <3>1. product' = [product EXCEPT ![q] = d]
      BY <1>0, <1>2, <2>1 DEF P!UpdateProduct, P!RepricedTo
    <3>2. product[q].startingPrice \in Nat /\ product[q].currentPrice \in Nat
      BY <1>0 DEF P!Documents
    <3>3. /\ P!Asked(call[r], product[q].startingPrice) \in Nat
          /\ P!Asked(call[r], product[q].currentPrice) \in Nat
          /\ \/ /\ P!Asked(call[r], product[q].startingPrice) = product[q].startingPrice
                /\ P!Asked(call[r], product[q].currentPrice) = product[q].currentPrice
             \/ P!Asked(call[r], product[q].startingPrice)
                    = P!Asked(call[r], product[q].currentPrice)
      BY <1>0, <3>2, AskedTyped
    <3>4. d \in P!Documents
      BY <1>0, <3>3, DocumentTyped
    <3>5. product' \in [Products -> P!Documents] /\ product'[q] = d
          /\ \A p \in Products : p # q => product'[p] = product[p]
      BY <1>0, <3>1, <3>4
    <3>6. /\ d.life = product[q].life /\ d.seller = product[q].seller
          /\ d.winner = product[q].winner /\ d.totalBids = product[q].totalBids
          /\ d.startingPrice = P!Asked(call[r], product[q].startingPrice)
          /\ d.currentPrice = P!Asked(call[r], product[q].currentPrice)
      BY <1>0 DEF P!Documents
    <3>7. SamePrices(q)
      BY <1>2, <3>3, <3>5, <3>6 DEF SamePrices
    <3>8. Changed(q)
      BY <2>1, <3>5, <3>6, <3>7 DEF Changed, WinnerWritten, P!Found
    <3> QED
      BY <3>5, <3>8
  <2>2. CASE ~P!Found(q)
    BY <1>0, <1>2, <2>2 DEF P!UpdateProduct
  <2> QED
    BY <2>1, <2>2
<1>3. ASSUME NEW r \in ProdReqs, P!StartAuction(r) PROVE Goal
  <2> DEFINE q == call[r].product
  <2>1. CASE P!Found(q)
    <3>1. product' = [product EXCEPT ![q] = [product[q] EXCEPT !.status = "active"]]
      BY <1>0, <1>3, <2>1 DEF P!StartAuction
    <3>2. [product[q] EXCEPT !.status = "active"] \in P!Documents
      BY <1>0, DocumentTyped DEF P!AuctionStatuses
    <3>3. Changed(q)
      BY <1>0, <2>1, <3>1 DEF Changed, SamePrices, WinnerWritten, P!Found, P!Documents
    <3> QED
      BY <1>0, <3>1, <3>2, <3>3
  <2>2. CASE ~P!Found(q)
    BY <1>0, <1>3, <2>2 DEF P!StartAuction
  <2> QED
    BY <2>1, <2>2
<1>4. ASSUME NEW r \in ProdReqs, P!EndAuction(r) PROVE Goal
  <2> DEFINE q == call[r].product
  <2>0. answer[r] \in P!Winners
    BY DEF P!TypeOK
  <2>1. CASE P!Found(q)
    <3>1. P!SetEnded(q, answer[r])
      BY <1>4, <2>1 DEF P!EndAuction
    <3>2. Changed(q)
      BY <1>0, <1>4, <2>0, <2>1, <3>1, EndedEffect DEF Changed, WinnerWritten, P!Found
    <3> QED
      BY <1>0, <2>0, <3>1, <3>2, EndedEffect
  <2>2. CASE ~P!Found(q)
    BY <1>0, <1>4, <2>2 DEF P!EndAuction
  <2> QED
    BY <2>1, <2>2
<1>5. ASSUME NEW r \in ProdReqs, P!DeleteProduct(r) PROVE Goal
  <2> DEFINE q == call[r].product
  <2>1. CASE P!Owns(r)
    <3>1. product' = [product EXCEPT ![q] = [product[q] EXCEPT !.life = "deleted"]]
      BY <1>0, <1>5, <2>1 DEF P!DeleteProduct
    <3>2. [product[q] EXCEPT !.life = "deleted"] \in P!Documents
      BY <1>0, DocumentTyped
    <3>3. Changed(q)
      BY <1>0, <2>1, <3>1 DEF Changed, SamePrices, WinnerWritten, P!Owns, P!Found, P!Documents
    <3> QED
      BY <1>0, <3>1, <3>2, <3>3
  <2>2. CASE ~P!Owns(r)
    BY <1>0, <1>5, <2>2 DEF P!DeleteProduct
  <2> QED
    BY <2>1, <2>2
<1>6. ASSUME NEW h \in bidRead, P!WriteBidInfo(h) PROVE Goal
  <2> DEFINE q == h.msg.product
  <2>0. /\ q \in Products /\ h.msg.amount \in Nat /\ h.count + 1 \in Nat
    <3>1. h.msg \in P!BidMessages /\ h.count \in Nat
      BY DEF P!TypeOK
    <3>2. q \in Products /\ h.msg.amount \in Amounts
      BY <3>1 DEF P!BidMessages
    <3>3. Amounts \subseteq Nat
      BY <1>0 DEF P!ProductAssumption
    <3>4. h.count + 1 \in Nat
      BY <3>1
    <3> QED
      BY <3>2, <3>3, <3>4
  <2>1. CASE P!Found(q)
    <3>1. product' = [product EXCEPT ![q] = [product[q] EXCEPT
                         !.currentPrice = h.msg.amount, !.totalBids = h.count + 1]]
      BY <1>0, <1>6, <2>0, <2>1 DEF P!WriteBidInfo, P!NextCount
    <3>2. [product[q] EXCEPT !.currentPrice = h.msg.amount,
                             !.totalBids = h.count + 1] \in P!Documents
      BY <1>0, <2>0, DocumentTyped
    <3>3. BidWritten(h, q)
      BY <1>0, <1>6, <2>0, <3>1 DEF BidWritten, P!Documents
    <3>4. Changed(q)
      BY <1>0, <2>0, <2>1, <3>1, <3>3 DEF Changed, WinnerWritten, P!Found, P!Documents
    <3> QED
      BY <1>0, <2>0, <3>1, <3>2, <3>4
  <2>2. CASE ~P!Found(q)
    BY <1>0, <1>6, <2>2 DEF P!WriteBidInfo
  <2> QED
    BY <2>1, <2>2
<1>7. ASSUME NEW w \in winInbox, P!ApplyWinner(w) PROVE Goal
  <2> DEFINE q == w.product
  <2>0. q \in Products /\ w.winner \in P!Winners
    BY DEF P!TypeOK, P!WinnerMessages
  <2>1. CASE P!Found(q)
    <3>1. P!SetEnded(q, w.winner)
      BY <1>7, <2>1 DEF P!ApplyWinner
    <3>2. Changed(q)
      BY <1>0, <1>7, <2>0, <2>1, <3>1, EndedEffect DEF Changed, WinnerWritten, P!Found
    <3> QED
      BY <1>0, <2>0, <3>1, <3>2, EndedEffect
  <2>2. CASE ~P!Found(q)
    BY <1>0, <1>7, <2>2 DEF P!ApplyWinner
  <2> QED
    BY <2>1, <2>2
<1>8. ASSUME UNCHANGED product PROVE Goal
  BY <1>0, <1>8
<1>9. ASSUME NEW r \in ProdReqs,
             \/ P!RefuseProduct(r) \/ P!CheckProduct(r) \/ P!PublishAuction(r)
             \/ HubAskWinner(r) \/ P!FailCall(r)
      PROVE  UNCHANGED product
  BY <1>9 DEF P!RefuseProduct, P!CheckProduct, P!PublishAuction, HubAskWinner,
     P!AskWinner, P!FailCall
<1>10. ASSUME (\E m \in bidInbox : P!ReadForBid(m)) \/ P!RestartConsumers \/ P!DropMessage
       PROVE  UNCHANGED product
  BY <1>10 DEF P!ReadForBid, P!RestartConsumers, P!DropMessage
<1> HIDE DEF Goal
<1>11. Goal
  BY <1>1, <1>2, <1>3, <1>4, <1>5, <1>6, <1>7, <1>8, <1>9, <1>10
     DEF ProductStep, P!CallStep, P!WriteStep, P!ConsumerStep, P!ProductFault
<1> QED
  BY <1>11 DEF Goal

-----------------------------------------------------------------------------
(* Type correctness.                                                       *)

\* No two members are above each other.
LEMMA AboveStrict ==
    ASSUME BiddingAssumption, NEW x \in Members, NEW y \in Members, Above(x, y)
    PROVE  ~Above(y, x)
<1>1. Above(y, x) => Above(x, x)
  BY AboveOrders
<1>2. x.amount \in Nat /\ x.user \in Nat /\ x.ts \in Nat
  <2>1. x.amount \in Amounts \cup {0} /\ x.user \in Users \cup {0} /\ x.ts \in Stamps \cup {0}
    BY DEF Members, InitUser
  <2>2. /\ Amounts \cup {0} \subseteq Nat /\ Users \cup {0} \subseteq Nat
        /\ Stamps \cup {0} \subseteq Nat
    BY DEF BiddingAssumption
  <2> HIDE DEF BiddingAssumption
  <2> QED
    BY <2>1, <2>2
<1> QED
  BY <1>1, <1>2 DEF Above

\* A set of members has at most one highest.
LEMMA TopsOne ==
    ASSUME BiddingAssumption, NEW S \in SUBSET Members
    PROVE  \A x, y \in Tops(S) : x = y
<1> SUFFICES ASSUME NEW x \in Tops(S), NEW y \in Tops(S), x # y PROVE FALSE
  OBVIOUS
<1>1. x \in Members /\ y \in Members /\ Above(x, y) /\ Above(y, x)
  BY DEF Tops
<1> QED
  BY <1>1, AboveStrict

\* The user of at most one member is a winner that a message can name.
LEMMA UserOfOne ==
    ASSUME NEW W \in SUBSET Members, \A x, y \in W : x = y
    PROVE  {t.user : t \in W} \in P!Winners
<1>1. CASE W = {}
  BY <1>1 DEF P!Winners
<1>2. CASE W # {}
  <2>1. PICK t \in Members : W = {t}
    BY <1>2
  <2>2. t.user \in Users \cup {InitUser}
    BY DEF Members
  <2> QED
    BY <2>1, <2>2 DEF P!Winners
<1> QED
  BY <1>1, <1>2

\* The answer of GET /bids/product/:id/highest.
LEMMA HighestTyped ==
    ASSUME BiddingAssumption, IInv, NEW p \in Products
    PROVE  HighestBidder(p) \in P!Winners
<1>1. book[p] \in SUBSET Members
  BY DEF IInv, TypeOK, StoreOK
<1>2. Tops(book[p]) \in SUBSET Members
  BY <1>1, TopsInside
<1> QED
  BY <1>1, <1>2, TopsOne, UserOfOne DEF HighestBidder

\* What a step of the product service does besides writing documents: it takes
\* messages from its queues, reads counts and answers requests.
LEMMA ProductFrame ==
    ASSUME P!TypeOK, ProductStep
    PROVE  /\ UNCHANGED call
           /\ bidInbox' \subseteq bidInbox /\ winInbox' \subseteq winInbox
           /\ ppc' \in [ProdReqs -> P!CallPCs]
           /\ started' \subseteq ProdReqs /\ ended' \subseteq ProdReqs
           /\ \/ UNCHANGED answer
              \/ \E r \in ProdReqs :
                     answer' = [answer EXCEPT ![r] = HighestBidder(call[r].product)]
           /\ \A h \in bidRead' :
                  \/ h \in bidRead
                  \/ \E m \in bidInbox :
                         /\ P!ReadForBid(m)
                         /\ h = [msg |-> m, count |-> product[m.product].totalBids]
<1> USE DEF P!TypeOK, P!CallPCs
<1>1. ASSUME NEW r \in ProdReqs, P!CallStep(r) \/ HubAskWinner(r) \/ P!FailCall(r)
      PROVE  /\ UNCHANGED <<call, bidInbox, bidRead, winInbox>>
             /\ ppc' \in [ProdReqs -> P!CallPCs]
             /\ started' \subseteq ProdReqs /\ ended' \subseteq ProdReqs
             /\ \/ UNCHANGED answer
                \/ answer' = [answer EXCEPT ![r] = HighestBidder(call[r].product)]
  <2>1. CASE P!CreateProduct(r) \/ P!RefuseProduct(r) \/ P!DeleteProduct(r)
    BY <2>1 DEF P!CreateProduct, P!RefuseProduct, P!DeleteProduct
  <2>2. CASE P!CheckProduct(r) \/ P!UpdateProduct(r)
    BY <2>2 DEF P!CheckProduct, P!UpdateProduct
  <2>3. CASE P!StartAuction(r) \/ P!EndAuction(r)
    BY <2>3 DEF P!StartAuction, P!EndAuction
  <2>4. CASE P!PublishAuction(r) \/ P!FailCall(r)
    BY <2>4 DEF P!PublishAuction, P!FailCall
  <2>5. CASE HubAskWinner(r)
    BY <2>5 DEF HubAskWinner, P!AskWinner
  <2> QED
    BY <1>1, <2>1, <2>2, <2>3, <2>4, <2>5 DEF P!CallStep, P!WriteStep
<1>2. ASSUME P!ConsumerStep \/ P!RestartConsumers \/ P!DropMessage
      PROVE  UNCHANGED <<call, ppc, answer, started, ended>>
  BY <1>2 DEF P!ConsumerStep, P!ReadForBid, P!WriteBidInfo, P!ApplyWinner,
     P!RestartConsumers, P!DropMessage
<1>3. ASSUME NEW m \in bidInbox, P!ReadForBid(m)
      PROVE  /\ bidInbox' \subseteq bidInbox /\ UNCHANGED winInbox
             /\ \/ UNCHANGED bidRead
                \/ bidRead' = bidRead \cup
                      {[msg |-> m, count |-> product[m.product].totalBids]}
  BY <1>3 DEF P!ReadForBid, P!Acknowledged
<1>4. ASSUME NEW h \in bidRead, P!WriteBidInfo(h)
      PROVE  /\ bidInbox' \subseteq bidInbox /\ UNCHANGED winInbox
             /\ bidRead' \subseteq bidRead
  BY <1>4 DEF P!WriteBidInfo, P!Acknowledged
<1>5. ASSUME NEW w \in winInbox, P!ApplyWinner(w)
      PROVE  winInbox' \subseteq winInbox /\ UNCHANGED <<bidInbox, bidRead>>
  BY <1>5 DEF P!ApplyWinner, P!Acknowledged
<1>6. ASSUME P!RestartConsumers \/ P!DropMessage
      PROVE  /\ bidInbox' \subseteq bidInbox /\ winInbox' \subseteq winInbox
             /\ bidRead' \subseteq bidRead
  BY <1>6 DEF P!RestartConsumers, P!DropMessage
<1>7. ASSUME \E r \in ProdReqs : P!CallStep(r) \/ HubAskWinner(r) \/ P!FailCall(r)
      PROVE  UNCHANGED <<call, bidInbox, bidRead, winInbox>>
  BY <1>1, <1>7
<1>8. UNCHANGED call /\ bidInbox' \subseteq bidInbox /\ winInbox' \subseteq winInbox
  BY <1>2, <1>3, <1>4, <1>5, <1>6, <1>7 DEF ProductStep, P!ConsumerStep, P!ProductFault
<1>9. /\ ppc' \in [ProdReqs -> P!CallPCs]
      /\ started' \subseteq ProdReqs /\ ended' \subseteq ProdReqs
      /\ \/ UNCHANGED answer
         \/ \E r \in ProdReqs :
                answer' = [answer EXCEPT ![r] = HighestBidder(call[r].product)]
  BY <1>1, <1>2 DEF ProductStep, P!ProductFault
<1>10. \A h \in bidRead' :
           \/ h \in bidRead
           \/ \E m \in bidInbox :
                  /\ P!ReadForBid(m)
                  /\ h = [msg |-> m, count |-> product[m.product].totalBids]
  BY <1>3, <1>4, <1>5, <1>6, <1>7 DEF ProductStep, P!ConsumerStep, P!ProductFault
<1> QED
  BY <1>8, <1>9, <1>10

LEMMA HubType ==
    ASSUME HubAssumptions, IInv, P!TypeOK, NamesInv, [HubNext]_hubVars
    PROVE  P!TypeOK'
<1>1. CASE UNCHANGED prodVars
  BY <1>1 DEF P!TypeOK
<1>2. ASSUME NEW r \in BidReqs, HubPublishBidPlaced(r) PROVE P!TypeOK'
  <2>1. [bid |-> r, product |-> body[r].product, amount |-> body[r].amount] \in P!BidMessages
    BY DEF IInv, TypeOK, InputsOK, Bodies, P!BidMessages
  <2> QED
    BY <1>2, <2>1 DEF P!TypeOK, HubPublishBidPlaced, PlacedMessage, Announced
<1>3. ASSUME NEW m \in ProdReqs, HubPublishWinner(m) PROVE P!TypeOK'
  <2>1. m \in EndMsgs
    BY DEF HubAssumptions, HubAssumption
  <2>2. {t.user : t \in won[m]} \in P!Winners
    <3>1. won[m] \in SUBSET Members
      BY <2>1 DEF IInv, TypeOK, HandlersOK
    <3> QED
      BY <3>1, UserOfOne DEF NamesInv
  <2>3. [msg |-> m, product |-> endOf[m], winner |-> {t.user : t \in won[m]}]
            \in P!WinnerMessages
    BY <2>1, <2>2 DEF IInv, TypeOK, InputsOK, P!WinnerMessages
  <2> QED
    BY <1>3, <2>3 DEF P!TypeOK, HubPublishWinner
<1>4. CASE ProductStep
  <2>1. product' \in [Products -> P!Documents]
    BY <1>4, DocumentEffect
  <2>2. answer' \in [ProdReqs -> P!Winners]
    <3>1. \A r \in ProdReqs : HighestBidder(call[r].product) \in P!Winners
      BY HighestTyped DEF HubAssumptions, P!TypeOK, P!Calls
    <3> QED
      BY <1>4, <3>1, ProductFrame DEF P!TypeOK
  <2>3. bidRead' \subseteq [msg : P!BidMessages, count : Nat]
    <3>1. ASSUME NEW m \in bidInbox
          PROVE  [msg |-> m, count |-> product[m.product].totalBids]
                     \in [msg : P!BidMessages, count : Nat]
      BY DEF P!TypeOK, P!BidMessages, P!Documents
    <3> QED
      BY <1>4, <3>1, ProductFrame DEF P!TypeOK
  <2> QED
    BY <1>4, <2>1, <2>2, <2>3, ProductFrame DEF P!TypeOK
<1> QED
  BY <1>1, <1>2, <1>3, <1>4, HubCases DEF HubAssumptions, hubVars

-----------------------------------------------------------------------------
(* The invariant, one conjunct at a time.                                  *)

\* Bids, once stored or announced, stay so.
LEMMA BidsStay ==
    ASSUME HubAssumptions, IInv, [HubNext]_hubVars
    PROVE  /\ UNCHANGED inputVars
           /\ bidPlaced \subseteq bidPlaced'
           /\ \A r \in BidReqs : status[r] # "none" => status'[r] # "none"
           /\ \A p : Stored(p) \subseteq Stored(p)'
           /\ \A p : Bidders(p) \subseteq Bidders(p)'
           /\ \A r : Member(r)' = Member(r)
<1>1. /\ UNCHANGED inputVars
      /\ bidPlaced \subseteq bidPlaced'
      /\ \A r \in BidReqs : status[r] # "none" => status'[r] # "none"
  <2>1. CASE UNCHANGED bVars
    BY <2>1 DEF bVars
  <2>2. CASE ServiceStep
    BY <2>2, StatusStep, PlacedStep DEF IInv
  <2> QED
    BY <2>1, <2>2, HubService DEF HubAssumptions
<1>2. ASSUME NEW p PROVE Stored(p) \subseteq Stored(p)'
  BY <1>1 DEF Stored
<1>3. ASSUME NEW p PROVE Bidders(p) \subseteq Bidders(p)'
  BY <1>1, <1>2 DEF Bidders
<1>4. ASSUME NEW r PROVE Member(r)' = Member(r)
  BY <1>1 DEF Member
<1> QED
  BY <1>1, <1>2, <1>3, <1>4

LEMMA MessageStep ==
    ASSUME HubAssumptions, IInv, P!TypeOK, MessageInv, [HubNext]_hubVars
    PROVE  MessageInv'
<1> DEFINE Backed(m) == /\ m.bid \in bidPlaced
                        /\ m.product = body[m.bid].product
                        /\ m.amount = body[m.bid].amount
<1>0. bidPlaced \subseteq BidReqs
  BY DEF IInv, TypeOK, EventsOK
<1>1. ASSUME NEW m, Backed(m) PROVE Backed(m)'
  BY <1>1, BidsStay
<1>2. \A r \in bidPlaced' : status'[r] # "none" /\ pc'[r] \in {"announce", "done", "lost"}
  <2>1. CASE UNCHANGED bVars
    BY <2>1 DEF MessageInv, bVars
  <2>2. CASE ServiceStep
    <3>1. ASSUME NEW r \in BidReqs, PublishBidPlaced(r)
          PROVE  status'[r] # "none" /\ pc'[r] \in {"announce", "done", "lost"}
      BY <3>1 DEF PublishBidPlaced, IInv, KeyInv, Unstored, TypeOK, RequestsOK
    <3>2. ASSUME NEW r \in bidPlaced
          PROVE  status'[r] # "none" /\ pc'[r] \in {"announce", "done", "lost"}
      BY <1>0, <2>2, PlacedStep, BidsStay DEF MessageInv, IInv
    <3> QED
      BY <2>2, <3>1, <3>2, PlacedStep DEF IInv
  <2> QED
    BY <2>1, <2>2, HubService DEF HubAssumptions
<1>3. \A m \in bidInbox' \cup {h.msg : h \in bidRead'} :
          \/ m \in bidInbox \cup {h.msg : h \in bidRead}
          \/ Backed(m)'
  <2>1. CASE UNCHANGED prodVars
    BY <2>1
  <2>2. ASSUME NEW r \in BidReqs, HubPublishBidPlaced(r)
        PROVE  /\ UNCHANGED bidRead
               /\ \A m \in bidInbox' : m \in bidInbox \/ Backed(m)'
    <3>1. /\ r \in bidPlaced' /\ UNCHANGED <<body, bidRead>>
          /\ bidInbox' = bidInbox \cup
                 {[bid |-> r, product |-> body[r].product, amount |-> body[r].amount]}
      BY <2>2 DEF HubPublishBidPlaced, PlacedMessage, PublishBidPlaced, Announced
    <3> QED
      BY <3>1
  <2>3. ASSUME NEW m \in ProdReqs, HubPublishWinner(m)
        PROVE  UNCHANGED <<bidInbox, bidRead>>
    BY <2>3 DEF HubPublishWinner
  <2>4. CASE ProductStep
    <3>1. \A h \in bidRead' : h \in bidRead \/ h.msg \in bidInbox
      BY <2>4, ProductFrame
    <3> QED
      BY <2>4, <3>1, ProductFrame
  <2> QED
    BY <2>1, <2>2, <2>3, <2>4, HubCases DEF HubAssumptions, hubVars
<1>4. \A m \in bidInbox \cup {h.msg : h \in bidRead} : Backed(m)
  BY DEF MessageInv
<1> QED
  BY <1>1, <1>2, <1>3, <1>4 DEF MessageInv

\* A step of the bidding service writes no document.
LEMMA HubDocuments ==
    ASSUME HubAssumptions, [HubNext]_hubVars
    PROVE  UNCHANGED <<product, call>> \/ (ProductStep /\ UNCHANGED bVars)
<1>1. \A r \in BidReqs : HubPublishBidPlaced(r) => UNCHANGED <<product, call>>
  BY DEF HubPublishBidPlaced
<1>2. \A m \in ProdReqs : HubPublishWinner(m) => UNCHANGED <<product, call>>
  BY DEF HubPublishWinner
<1>3. UNCHANGED prodVars => UNCHANGED <<product, call>>
  OBVIOUS
<1> QED
  BY <1>1, <1>2, <1>3, HubCases DEF HubAssumptions, hubVars

LEMMA PriceStep ==
    ASSUME HubAssumptions, IInv, P!TypeOK, MessageInv, PriceIsBacked, [HubNext]_hubVars
    PROVE  PriceIsBacked'
<1> SUFFICES ASSUME NEW p \in Products,
                    product'[p].currentPrice # product'[p].startingPrice
             PROVE  \E r \in Stored(p) \cap bidPlaced :
                        body[r].amount = product'[p].currentPrice
  <2>1. \A p \in Products : Stored(p) \cap bidPlaced \subseteq (Stored(p) \cap bidPlaced)'
    BY BidsStay
  <2>2. UNCHANGED body
    BY BidsStay
  <2> QED
    BY <2>1, <2>2 DEF PriceIsBacked
<1>1. CASE product'[p] = product[p]
  BY <1>1 DEF PriceIsBacked
<1>2. CASE product'[p] # product[p]
  <2>1. Changed(p)
    BY <1>2, HubDocuments, DocumentEffect DEF Created
  <2>2. CASE SamePrices(p)
    BY <2>2 DEF SamePrices, PriceIsBacked
  <2>3. ASSUME NEW h \in bidRead, BidWritten(h, p)
        PROVE  \E r \in Stored(p) \cap bidPlaced : body[r].amount = product'[p].currentPrice
    <3>1. /\ h.msg.bid \in bidPlaced /\ status[h.msg.bid] # "none"
          /\ body[h.msg.bid].product = p
          /\ body[h.msg.bid].amount = product'[p].currentPrice
      BY <2>3 DEF MessageInv, BidWritten
    <3>2. h.msg.bid \in BidReqs
      BY <3>1 DEF IInv, TypeOK, EventsOK
    <3> QED
      BY <3>1, <3>2 DEF Stored
  <2> QED
    BY <2>1, <2>2, <2>3 DEF Changed
<1> QED
  BY <1>1, <1>2

\* The winner of a handler and the bids it has seen are read together.
LEMMA WonMove ==
    ASSUME TypeOK, [ServiceStep]_bVars, NEW m \in EndMsgs
    PROVE  \/ won'[m] = won[m] /\ seen'[m] = seen[m]
           \/ won'[m] = {} /\ seen'[m] = {}
           \/ /\ ReadWinner(m)
              /\ won'[m] = Tops(book[endOf[m]]) /\ seen'[m] = Stored(endOf[m])
              /\ UNCHANGED <<book, status, body>>
<1> USE DEF TypeOK, HandlersOK
<1>1. CASE UNCHANGED <<won, seen>>
  BY <1>1
<1>2. ASSUME NEW k \in EndMsgs, ReadWinner(k)
      PROVE  \/ won'[m] = won[m] /\ seen'[m] = seen[m]
             \/ /\ ReadWinner(m)
                /\ won'[m] = Tops(book[endOf[m]]) /\ seen'[m] = Stored(endOf[m])
                /\ UNCHANGED <<book, status, body>>
  <2>1. CASE k = m
    BY <1>2, <2>1 DEF ReadWinner
  <2>2. CASE k # m
    BY <1>2, <2>2 DEF ReadWinner
  <2> QED
    BY <2>1, <2>2
<1>3. ASSUME NEW k \in EndMsgs, FailEnded(k)
      PROVE  \/ won'[m] = won[m] /\ seen'[m] = seen[m]
             \/ won'[m] = {} /\ seen'[m] = {}
  BY <1>3 DEF FailEnded
<1>4. ASSUME NEW k \in EndMsgs, EndStep(k), ~ReadWinner(k) PROVE UNCHANGED <<won, seen>>
  BY <1>4 DEF EndStep, FindWinner, CrownWinner, CollectKeys, ExpireBook,
     PublishAuctionWinner
<1>5. ASSUME \/ \E r \in BidReqs : RequestStep(r)
             \/ \E k \in StartMsgs : StartStep(k) \/ FailStarted(k)
      PROVE  UNCHANGED <<won, seen>>
  BY <1>5, RequestFrame, StartFrame
<1>6. UNCHANGED bVars => UNCHANGED <<won, seen>>
  BY DEF bVars
<1> QED
  BY <1>1, <1>2, <1>3, <1>4, <1>5, <1>6 DEF ServiceStep

\* Whoever the highest member names is a bidder.
LEMMA HighestIsBidder ==
    ASSUME NamesInv, NEW p \in Products
    PROVE  /\ \A t \in Tops(book[p]) : t.user \in Bidders(p)
           /\ HighestBidder(p) \subseteq Bidders(p)
<1>1. ASSUME NEW t \in Tops(book[p]) PROVE t.user \in Bidders(p)
  <2>1. t \in book[p]
    BY TopsInside
  <2>2. t = InitMember \/ t \in StoredMembers(p)
    BY <2>1 DEF NamesInv, BookOfBids
  <2> QED
    BY <2>2 DEF Bidders, StoredMembers, Member, InitMember
<1> QED
  BY <1>1 DEF HighestBidder

LEMMA NamesStep ==
    ASSUME HubAssumptions, IInv, P!TypeOK, NamesInv, [HubNext]_hubVars
    PROVE  NamesInv'
<1> USE DEF HubAssumptions
<1>0. /\ EndMsgs = ProdReqs /\ UNCHANGED <<body, endOf, call>>
      /\ \A m \in ProdReqs : endOf[m] \in Products /\ call[m].product \in Products
      /\ [ServiceStep]_bVars
  <2>1. UNCHANGED call
    BY HubDocuments, ProductFrame
  <2> QED
    BY <2>1, BidsStay, HubService DEF HubAssumption, IInv, TypeOK, InputsOK, P!TypeOK,
       P!Calls
<1>1. ASSUME NEW p \in Products
      PROVE  book'[p] \subseteq ({InitMember} \cup StoredMembers(p))'
  <2>1. \A t \in StoredMembers(p) : t \in StoredMembers(p)'
    BY BidsStay DEF StoredMembers
  <2>2. InitMember' = InitMember
    BY DEF InitMember
  <2>3. CASE UNCHANGED bVars
    BY <2>1, <2>2, <2>3 DEF NamesInv, BookOfBids, bVars
  <2>4. CASE ServiceStep
    BY <2>1, <2>2, <2>4, BookMove DEF NamesInv, BookOfBids, IInv
  <2> QED
    BY <1>0, <2>3, <2>4
<1>2. ASSUME NEW m \in ProdReqs
      PROVE  /\ \A t \in won'[m] : t.user \in Bidders(endOf[m])'
             /\ \A x, y \in won'[m] : x = y
  <2>1. CASE won'[m] = won[m]
    BY <1>0, <2>1, BidsStay DEF NamesInv
  <2>2. CASE won'[m] = {}
    BY <2>2
  <2>3. CASE won'[m] = Tops(book[endOf[m]])
    <3>1. book[endOf[m]] \in SUBSET Members
      BY <1>0 DEF IInv, TypeOK, StoreOK
    <3>2. \A t \in won'[m] : t.user \in Bidders(endOf[m])
      BY <1>0, <2>3, HighestIsBidder
    <3> QED
      BY <1>0, <2>3, <3>1, <3>2, TopsOne, BidsStay
  <2> QED
    BY <1>0, <2>1, <2>2, <2>3, WonMove DEF IInv
<1>3. ASSUME NEW r \in ProdReqs PROVE answer'[r] \subseteq Bidders(call[r].product)'
  <2>1. answer'[r] = answer[r] \/ answer'[r] = HighestBidder(call[r].product)
    <3>1. CASE UNCHANGED answer
      BY <3>1
    <3>2. CASE ProductStep
      BY <3>2, ProductFrame DEF P!TypeOK
    <3>3. \A q \in BidReqs : HubPublishBidPlaced(q) => UNCHANGED answer
      BY DEF HubPublishBidPlaced
    <3>4. \A q \in ProdReqs : HubPublishWinner(q) => UNCHANGED answer
      BY DEF HubPublishWinner
    <3> QED
      BY <3>1, <3>2, <3>3, <3>4, HubCases DEF hubVars
  <2>2. answer'[r] \subseteq Bidders(call[r].product)
    BY <1>0, <2>1, HighestIsBidder DEF NamesInv
  <2> QED
    BY <1>0, <2>2, BidsStay
<1>4. ASSUME NEW w \in winInbox' PROVE w.winner \subseteq Bidders(w.product)'
  <2>1. CASE w \in winInbox
    BY <2>1, BidsStay DEF NamesInv
  <2>2. ASSUME NEW m \in ProdReqs, HubPublishWinner(m), w \notin winInbox
        PROVE  w.winner \subseteq Bidders(w.product)
    <3>1. w = [msg |-> m, product |-> endOf[m], winner |-> {t.user : t \in won[m]}]
      BY <2>2 DEF HubPublishWinner
    <3> QED
      BY <3>1 DEF NamesInv
  <2>3. CASE UNCHANGED winInbox
    BY <2>1, <2>3
  <2>4. CASE ProductStep
    BY <2>1, <2>4, ProductFrame
  <2>5. \A q \in BidReqs : HubPublishBidPlaced(q) => UNCHANGED winInbox
    BY DEF HubPublishBidPlaced
  <2> QED
    BY <2>1, <2>2, <2>3, <2>4, <2>5, BidsStay, HubCases DEF hubVars
<1>5. ASSUME NEW p \in Products PROVE product'[p].winner \subseteq Bidders(p)'
  <2>1. product'[p].winner \subseteq Bidders(p)
    <3>1. CASE product'[p] = product[p]
      BY <3>1 DEF NamesInv
    <3>2. CASE Created(p)
      BY <3>2 DEF Created
    <3>3. CASE WinnerWritten(p)
      BY <3>3 DEF WinnerWritten, NamesInv
    <3> QED
      BY <3>1, <3>2, <3>3, HubDocuments, DocumentEffect DEF Changed
  <2> QED
    BY <2>1, BidsStay
<1> QED
  BY <1>0, <1>1, <1>2, <1>3, <1>4, <1>5 DEF NamesInv, BookOfBids

\* A request is let through by ValidateBid only, on the product's own answer.
LEMMA LetThrough ==
    ASSUME HubAssumptions, TypeOK, HubNext, NEW r \in BidReqs,
           pc[r] \in {"idle", "rejected"}, pc'[r] \notin {"idle", "rejected"}
    PROVE  Acceptable(r, ViewOf(body[r].product)) /\ UNCHANGED <<product, body>>
<1> USE DEF TypeOK, RequestsOK
<1>1. ASSUME NEW q \in BidReqs, q # r,
             HubValidateBid(q) \/ HubBidStep(q) \/ HubPublishBidPlaced(q)
      PROVE  pc'[r] = pc[r]
  <2>1. CASE HubValidateBid(q)
    BY <1>1, <2>1 DEF HubValidateBid, ValidateBid
  <2>2. CASE HubPublishBidPlaced(q)
    BY <1>1, <2>2 DEF HubPublishBidPlaced, PublishBidPlaced
  <2>3. CASE HubBidStep(q)
    BY <1>1, <2>3 DEF HubBidStep, CheckHighest, StoreBid, PushBid, ReadBook, LookupBid,
       WriteOutbid, PublishBidOutbid
  <2> QED
    BY <1>1, <2>1, <2>2, <2>3
<1>2. ~HubBidStep(r) /\ ~HubPublishBidPlaced(r)
  BY DEF HubBidStep, HubPublishBidPlaced, PublishBidPlaced, CheckHighest, StoreBid, PushBid,
     ReadBook, LookupBid, WriteOutbid, PublishBidOutbid
<1>3. ASSUME NEW m \in ProdReqs, HubStartStep(m) \/ HubEndStep(m) \/ HubPublishWinner(m)
      PROVE  pc' = pc
  <2>1. m \in StartMsgs /\ m \in EndMsgs
    BY DEF HubAssumptions, HubAssumption
  <2> QED
    BY <1>3, <2>1, StartFrame, EndFrame DEF HubStartStep, HubEndStep, HubPublishWinner,
       EndStep
<1>4. ASSUME NEW m \in ProdReqs, HubCallStep(m) \/ HubAskWinner(m) PROVE pc' = pc
  BY <1>4 DEF HubCallStep, HubAskWinner, bVars
<1>5. HubConsumerStep => pc' = pc
  BY DEF HubConsumerStep, bVars
<1>6. HubFault => pc'[r] = pc[r]
  <2>1. ASSUME NEW q \in BidReqs, FailRequest(q) PROVE pc'[r] = pc[r]
    BY <2>1 DEF FailRequest
  <2>2. ASSUME NEW m \in StartMsgs, FailStarted(m) PROVE pc' = pc
    BY <2>2, StartFrame
  <2>3. ASSUME NEW m \in EndMsgs, FailEnded(m) PROVE pc' = pc
    BY <2>3, EndFrame
  <2>4. UNCHANGED bVars => pc' = pc
    BY DEF bVars
  <2> QED
    BY <2>1, <2>2, <2>3, <2>4 DEF HubFault, BiddingFault
<1>7. HubValidateBid(r)
  BY <1>1, <1>2, <1>3, <1>4, <1>5, <1>6 DEF HubNext
<1> QED
  BY <1>7 DEF HubValidateBid, ValidateBid

LEMMA SellerStep ==
    ASSUME HubAssumptions, IInv, P!TypeOK, SellerInv, [HubNext]_hubVars
    PROVE  SellerInv'
<1>0. ASSUME NEW p \in Products
      PROVE  product'[p] = product[p] \/ Created(p) \/ Changed(p)
  BY HubDocuments, DocumentEffect
<1>1. P!AbsentInv'
  BY <1>0 DEF SellerInv, P!AbsentInv, P!NoDocument, Created, Changed
<1>2. ASSUME NEW p \in Products, product'[p].life # "absent"
      PROVE  product'[p].seller \in Users
  BY <1>0, <1>2 DEF SellerInv, Created, Changed
<1>3. ASSUME NEW r \in BidReqs, pc'[r] \notin {"idle", "rejected"}
      PROVE  LET d == product'[body[r].product]
             IN  d.life # "absent" /\ d.seller # body[r].user
  <2>0. body[r].product \in Products
    BY DEF IInv, TypeOK, InputsOK, Bodies
  <2>1. CASE pc[r] \notin {"idle", "rejected"}
    BY <1>0, <2>0, <2>1 DEF SellerInv, Created, Changed
  <2>2. CASE pc[r] \in {"idle", "rejected"}
    <3>1. HubNext
      BY <1>3, <2>2 DEF hubVars, bVars
    <3>2. Acceptable(r, ViewOf(body[r].product)) /\ UNCHANGED <<product, body>>
      BY <1>3, <2>2, <3>1, LetThrough DEF IInv
    <3> QED
      BY <3>2 DEF Acceptable, ViewOf
  <2> QED
    BY <2>1, <2>2
<1>4. UNCHANGED body
  BY BidsStay
<1> QED
  BY <1>1, <1>2, <1>3, <1>4 DEF SellerInv

\* '__init__' is the highest member only of a book without bids.
LEMMA TopsOfBids ==
    ASSUME BiddingAssumption, IInv, NamesInv, NEW p \in Products, Stored(p) # {}
    PROVE  Tops(book[p]) = Tops(StoredMembers(p))
<1>1. book[p] \in SUBSET Members /\ StoredMembers(p) \subseteq book[p]
  BY DEF IInv, TypeOK, StoreOK, BookInv, StoredMembers, Stored
<1>2. book[p] \subseteq {InitMember} \cup StoredMembers(p) /\ StoredMembers(p) # {}
  BY DEF NamesInv, BookOfBids, StoredMembers
<1>3. InitMember \notin StoredMembers(p)
  <2>1. \A r \in Stored(p) : body[r].user \in Users
    BY DEF Stored, IInv, TypeOK, InputsOK, Bodies
  <2>2. InitUser \notin Users
    BY DEF BiddingAssumption
  <2> QED
    BY <2>1, <2>2 DEF StoredMembers, Member, InitMember
<1>4. InitMember \in Members /\ \A t \in StoredMembers(p) : Above(t, InitMember)
  <2>1. InitMember \in Members
    BY DEF InitMember, Members
  <2> QED
    BY <1>1, <1>3, <2>1, AboveOrders
<1>5. ASSUME NEW t \in Tops(book[p]) PROVE t \in Tops(StoredMembers(p))
  <2>1. t # InitMember
    <3>1. PICK s \in StoredMembers(p) : TRUE
      BY <1>2
    <3>2. s \in book[p] /\ s # InitMember /\ s \in Members
      BY <1>1, <1>3, <3>1
    <3> QED
      BY <3>2, AboveOrders DEF Tops
  <2> QED
    BY <1>1, <1>2, <1>5, <2>1 DEF Tops
<1>6. ASSUME NEW t \in Tops(StoredMembers(p)) PROVE t \in Tops(book[p])
  BY <1>1, <1>2, <1>4, <1>6 DEF Tops
<1> QED
  BY <1>5, <1>6

LEMMA SeenStep ==
    ASSUME HubAssumptions, IInv, P!TypeOK, NamesInv, SeenInv, [HubNext]_hubVars
    PROVE  SeenInv'
<1> USE DEF HubAssumptions
<1>0. /\ EndMsgs = ProdReqs /\ UNCHANGED <<body, endOf, call>> /\ [ServiceStep]_bVars
  BY BidsStay, HubService, HubDocuments, ProductFrame DEF HubAssumption
<1>1. ASSUME NEW m \in ProdReqs, seen'[m] # {}
      PROVE  won'[m] = Tops({Member(r) : r \in seen'[m]})
  <2>1. CASE won'[m] = won[m] /\ seen'[m] = seen[m]
    BY <1>1, <2>1 DEF SeenInv
  <2>2. CASE won'[m] = Tops(book[endOf[m]]) /\ seen'[m] = Stored(endOf[m])
    <3>1. endOf[m] \in Products
      BY <1>0 DEF IInv, TypeOK, InputsOK
    <3> QED
      BY <1>1, <2>2, <3>1, TopsOfBids DEF StoredMembers
  <2> QED
    BY <1>0, <1>1, <2>1, <2>2, WonMove DEF IInv
<1>2. ASSUME NEW m \in ProdReqs
      PROVE  Tops({Member(r) : r \in seen[m]})' = Tops({Member(r) : r \in seen'[m]})
  BY <1>0 DEF Tops, Member
<1>3. \A m \in ProdReqs : endOf'[m] = call'[m].product
  BY <1>0 DEF SeenInv
<1> QED
  BY <1>1, <1>2, <1>3 DEF SeenInv

LEMMA InitHubInv == ASSUME HubAssumptions, HubInit PROVE HubInv
<1> USE DEF HubAssumptions, HubInit, P!Init
<1>1. IInv
  BY InitIInv
<1>2. P!TypeOK
  <2>1. P!NoDocument \in P!Documents
    BY DEF P!NoDocument, P!Documents, P!AuctionStatuses, P!Winners
  <2>2. \A r \in ProdReqs : {} \in P!Winners /\ "idle" \in P!CallPCs
    BY DEF P!Winners, P!CallPCs
  <2>3. call \in [ProdReqs -> P!Calls]
    BY DEF P!ProductAssumption
  <2> QED
    BY <2>1, <2>2, <2>3 DEF P!TypeOK
<1>3. MessageInv
  BY DEF MessageInv, Init
<1>4. PriceIsBacked
  BY DEF PriceIsBacked, P!NoDocument
<1>5. NamesInv
  BY DEF NamesInv, BookOfBids, Init, P!NoDocument, HubAssumption
<1>6. SellerInv
  BY DEF SellerInv, Init, P!AbsentInv, P!NoDocument
<1>7. SeenInv
  BY DEF SeenInv, Init, HubAssumption
<1> QED
  BY <1>1, <1>2, <1>3, <1>4, <1>5, <1>6, <1>7 DEF HubInv

LEMMA NextHubInv == ASSUME HubAssumptions, HubInv, [HubNext]_hubVars PROVE HubInv'
<1>1. IInv'
  BY NextIInv, HubService DEF HubAssumptions, HubInv
<1> QED
  BY <1>1, HubType, MessageStep, PriceStep, NamesStep, SellerStep, SeenStep DEF HubInv

-----------------------------------------------------------------------------
(* The safety properties, with and without faults.                         *)

\* The invariant is inductive and holds initially.
THEOREM HubInductive == ASSUME HubAssumptions PROVE HubSpec => []HubInv
<1>1. HubInit => HubInv
  BY InitHubInv
<1>2. HubInv /\ [HubNext]_hubVars => HubInv'
  BY NextHubInv
<1> QED
  BY <1>1, <1>2, PTL DEF HubSpec

\* A current price that is not the starting price is the amount of an announced
\* bid of this product.
THEOREM PricesAreBacked == ASSUME HubAssumptions PROVE HubSpec => []PriceIsBacked
<1>1. HubInv => PriceIsBacked
  BY DEF HubInv
<1> QED
  BY <1>1, HubInductive, PTL

\* The winner that a product names is a bidder or the dummy of
\* initializeProductBids, never the seller.
THEOREM WinnersAreEligible == ASSUME HubAssumptions PROVE HubSpec => []WinnerIsEligible
<1>1. ASSUME HubInv, NEW p \in Products, NEW u \in product[p].winner
      PROVE  /\ u # product[p].seller
             /\ u = InitUser \/ \E r \in Stored(p) : body[r].user = u
  <2>1. u = InitUser \/ \E r \in Stored(p) : body[r].user = u
    BY <1>1 DEF HubInv, NamesInv, Bidders
  <2>2. product[p].life # "absent"
    BY <1>1 DEF HubInv, SellerInv, P!AbsentInv, P!NoDocument
  <2>3. product[p].seller \in Users /\ InitUser \notin Users
    BY <1>1, <2>2 DEF HubInv, SellerInv, HubAssumptions, BiddingAssumption
  <2>4. ASSUME NEW r \in Stored(p) PROVE body[r].user # product[p].seller
    <3>1. r \in BidReqs /\ status[r] # "none" /\ body[r].product = p
      BY DEF Stored
    <3>2. pc[r] \notin {"idle", "rejected"}
      BY <1>1, <3>1 DEF HubInv, IInv, KeyInv, Unstored
    <3> QED
      BY <1>1, <3>1, <3>2 DEF HubInv, SellerInv
  <2> QED
    BY <2>1, <2>3, <2>4
<1>2. HubInv => WinnerIsEligible
  BY <1>1 DEF WinnerIsEligible
<1> QED
  BY <1>2, HubInductive, PTL

\* The bidding service keeps its promise about winners when the product service
\* is the real one.
THEOREM HubWinnerIsHighest == ASSUME HubAssumptions PROVE HubSpec => []WinnerOutrunsSeen
<1>1. HubInv => WinnerOutrunsSeen
  BY DEF HubInv, IInv
<1> QED
  BY <1>1, HubInductive, PTL

-----------------------------------------------------------------------------
(* The promises of the bidding service, kept with the real product service.*)

\* The ledger of bids is implemented by both services together, too.
THEOREM HubKeepsLedger == ASSUME HubAssumptions PROVE HubSpec => ImplementsLedger
<1>1. HubInit => Ledger!Init
  BY LedgerInit DEF HubInit
<1>2. HubInv /\ [HubNext]_hubVars => [Ledger!Next]_(Ledger!lVars)
  BY LedgerStep, HubService DEF HubAssumptions, HubInv
<1> QED
  BY <1>1, <1>2, HubInductive, PTL DEF HubSpec, ImplementsLedger, Ledger!Spec

\* A stored bid beats all those stored when it was checked, whatever became of
\* the price of its product in between.
THEOREM HubEarlierBidsAreLower ==
    ASSUME HubAssumptions PROVE HubSpec => []OutrunsEarlierBids
<1>1. HubInv => OutrunsEarlierBids
  BY DEF HubInv, IInv, QuoteInv, OutrunsEarlierBids
<1> QED
  BY <1>1, HubInductive, PTL

\* Of two bids past markOtherBidsAsOutbid at most one is active.
THEOREM HubAtMostOneActive == ASSUME HubAssumptions PROVE HubSpec => []OneActiveBid
<1>1. HubInv => OneActiveBid
  BY ActiveIsOne DEF HubInv
<1> QED
  BY <1>1, HubInductive, PTL

\* A bid.outbid is sent only for a bid that was beaten.
THEOREM HubOutbidsAreDue == ASSUME HubAssumptions PROVE HubSpec => []OutbidIsDue
<1> DEFINE Due == NoticeInv /\ OutbidIsDue
<1>1. HubInit => Due
  BY DEF HubInit, Init, NoticeInv, OutbidIsDue
<1>2. HubInv /\ Due /\ [HubNext]_hubVars => Due'
  BY NoticeStep, OutbidStep, HubService DEF HubAssumptions, HubInv, NamesInv
<1>3. Due => OutbidIsDue
  OBVIOUS
<1> QED
  BY <1>1, <1>2, <1>3, HubInductive, PTL DEF HubSpec

\* No handler of the bidding service lacks what its next step takes for granted.
THEOREM HubNobodyIsStuck == ASSUME HubAssumptions PROVE HubSpec => []HandlersGoOn
<1>1. HubInit => GoOnInv
  BY InitGoOn DEF HubInit
<1>2. HubInv /\ GoOnInv /\ [HubNext]_hubVars => GoOnInv'
  BY GoOnStep, HubService DEF HubAssumptions, HubInv
<1>3. GoOnInv => HandlersGoOn
  BY DEF GoOnInv
<1> QED
  BY <1>1, <1>2, <1>3, HubInductive, PTL DEF HubSpec

\* With the real product service too, bids that do not overlap leave the highest
\* one unmarked.
THEOREM HubHighestStandsAlone ==
    ASSUME HubAssumptions
    PROVE  HubSpec /\ []BidsApart => []HighestNotOutbid
<1>1. HubInit => ApartInv
  BY InitApart DEF HubInit
<1>2. HubInv /\ ApartInv /\ BidsApart /\ [HubNext]_hubVars => ApartInv'
  BY ApartStep, HubService DEF HubAssumptions, HubInv
<1>3. HubInv /\ ApartInv => HighestNotOutbid
  BY BeatenIsLower DEF HubAssumptions, HubInv
<1> QED
  BY <1>1, <1>2, <1>3, HubInductive, PTL DEF HubSpec

=============================================================================
