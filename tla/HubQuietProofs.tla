--------------------------- MODULE HubQuietProofs ---------------------------
(***************************************************************************)
(* Theorems about AuctionHub without faults: what both services agree on   *)
(* when every request is answered and every message is acknowledged.       *)
(* The last section needs no quiet: it says when every winner has bid.     *)
(***************************************************************************)
EXTENDS HubProofs, FiniteSetTheorems

USE DEF prodVars, inputVars, reqVars, storeVars, handVars, eventVars,
        P!docVars, P!callVars, P!queueVars, P!outVars, WithoutDummy

QuietAssumptions == HubAssumptions /\ ~Faults

-----------------------------------------------------------------------------
(* The counter of bids.                                                    *)

LEMMA HandledFinite ==
    ASSUME IInv, IsFiniteSet(BidReqs), NEW p
    PROVE  IsFiniteSet(Handled(p)) /\ Cardinality(Handled(p)) \in Nat
<1>1. Handled(p) \subseteq BidReqs
  BY DEF Handled, IInv, TypeOK, EventsOK
<1> QED
  BY <1>1, FS_Subset, FS_CardinalityType

\* A bid whose message was handled stays handled.
LEMMA HandledGrows ==
    ASSUME HubAssumptions, HubInv, [HubNext]_hubVars, NEW p
    PROVE  Handled(p) \subseteq Handled(p)'
<1> SUFFICES ASSUME NEW r \in Handled(p) PROVE r \in Handled(p)'
  OBVIOUS
<1>0. r \in bidPlaced /\ body[r].product = p /\ \A m \in bidInbox : m.bid # r
  BY DEF Handled
<1>1. \A m \in bidInbox' : m.bid # r
  <2>1. CASE bidInbox' \subseteq bidInbox
    BY <1>0, <2>1
  <2>2. ASSUME NEW q \in BidReqs, HubPublishBidPlaced(q) PROVE \A m \in bidInbox' : m.bid # r
    <3>1. /\ pc[q] = "write"
          /\ bidInbox' = bidInbox \cup
                 {[bid |-> q, product |-> body[q].product, amount |-> body[q].amount]}
      BY <2>2 DEF HubPublishBidPlaced, PlacedMessage, PublishBidPlaced, Announced
    <3>2. q # r
      BY <1>0, <3>1 DEF HubInv, MessageInv
    <3> QED
      BY <1>0, <3>1, <3>2
  <2>3. ASSUME NEW m \in ProdReqs, HubPublishWinner(m) PROVE bidInbox' \subseteq bidInbox
    BY <2>3 DEF HubPublishWinner
  <2>4. ProductStep => bidInbox' \subseteq bidInbox
    BY ProductFrame DEF HubInv
  <2>5. UNCHANGED prodVars => bidInbox' \subseteq bidInbox
    OBVIOUS
  <2> QED
    BY <2>1, <2>2, <2>3, <2>4, <2>5, HubCases DEF HubAssumptions, hubVars
<1> QED
  BY <1>0, <1>1, BidsStay DEF Handled, HubInv

\* Handling a message makes its bid one more.
LEMMA HandledOneMore ==
    ASSUME HubAssumptions, IsFiniteSet(BidReqs), HubInv, HubInv', CountInv,
           [HubNext]_hubVars, ~Faults, NEW h \in bidRead, P!WriteBidInfo(h)
    PROVE  Cardinality(Handled(h.msg.product)) + 1 <= Cardinality(Handled(h.msg.product)')
<1> DEFINE p == h.msg.product
           b == h.msg.bid
<1>1. /\ bidInbox' = bidInbox \ {h.msg} /\ h.msg \in bidInbox
      /\ bidInbox \subseteq P!BidMessages
  BY DEF P!WriteBidInfo, P!Acknowledged, CountInv, HubInv, P!TypeOK
<1>2. /\ b \in bidPlaced /\ body[b].product = p
      /\ \A m \in bidInbox : m.product = body[m.bid].product /\ m.amount = body[m.bid].amount
  BY DEF HubInv, MessageInv
<1>3. b \notin Handled(p)
  BY <1>1 DEF Handled
<1>4. b \in Handled(p)'
  <2>1. ASSUME NEW m \in bidInbox, m.bid = b PROVE m = h.msg
    <3>1. m \in P!BidMessages /\ h.msg \in P!BidMessages
      BY <1>1
    <3>2. m.product = h.msg.product /\ m.amount = h.msg.amount
      BY <1>1, <1>2, <2>1
    <3> QED
      BY <2>1, <3>1, <3>2 DEF P!BidMessages
  <2>2. \A m \in bidInbox' : m.bid # b
    BY <1>1, <2>1
  <2>3. b \in bidPlaced' /\ body'[b].product = p
    BY <1>2, BidsStay DEF HubInv
  <2> QED
    BY <2>2, <2>3 DEF Handled
<1>5. Handled(p) \cup {b} \subseteq Handled(p)'
  BY <1>4, HandledGrows
<1>6. IsFiniteSet(Handled(p)) /\ IsFiniteSet(Handled(p)')
  <2>1. Handled(p)' \subseteq BidReqs
    BY DEF HubInv, IInv, TypeOK, EventsOK, Handled
  <2> QED
    BY <2>1, FS_Subset, HandledFinite DEF HubInv
<1>7. Cardinality(Handled(p) \cup {b}) = Cardinality(Handled(p)) + 1
  BY <1>3, <1>6, FS_AddElement
<1>8. Cardinality(Handled(p) \cup {b}) <= Cardinality(Handled(p)')
  BY <1>5, <1>6, FS_Subset
<1> QED
  BY <1>7, <1>8

LEMMA CountStep ==
    ASSUME HubAssumptions, IsFiniteSet(BidReqs), HubInv, HubInv', CountInv,
           [HubNext]_hubVars, ~Faults
    PROVE  CountInv'
<1> DEFINE C(p) == Cardinality(Handled(p))
<1>0. ASSUME NEW p PROVE C(p) \in Nat /\ C(p)' \in Nat /\ C(p) <= C(p)'
  <2>1. Handled(p)' \subseteq BidReqs
    BY DEF HubInv, IInv, TypeOK, EventsOK, Handled
  <2>2. IsFiniteSet(Handled(p)')
    BY <2>1, FS_Subset
  <2> QED
    BY <2>2, HandledGrows, HandledFinite, FS_Subset, FS_CardinalityType DEF HubInv
<1> HIDE DEF C
<1>1. ASSUME NEW p \in Products PROVE product'[p].totalBids <= C(p)'
  <2>0. product[p].totalBids \in Nat /\ product[p].totalBids <= C(p)
    BY DEF HubInv, P!TypeOK, P!Documents, CountInv, C
  <2>1. CASE product'[p].totalBids = product[p].totalBids
    BY <1>0, <2>0, <2>1
  <2>2. CASE Created(p)
    BY <1>0, <2>2 DEF Created
  <2>3. ASSUME NEW h \in bidRead, BidWritten(h, p) PROVE product'[p].totalBids <= C(p)'
    <3>1. product'[p].totalBids = h.count + 1 /\ h.msg.product = p /\ P!WriteBidInfo(h)
      BY <2>3 DEF BidWritten
    <3>2. h.count \in Nat /\ h.count <= C(p)
      BY <3>1 DEF HubInv, P!TypeOK, CountInv, C
    <3>3. C(p) + 1 <= C(p)'
      BY <3>1, HandledOneMore DEF C
    <3> QED
      BY <1>0, <3>1, <3>2, <3>3
  <2>4. SamePrices(p) => product'[p].totalBids = product[p].totalBids
    BY DEF SamePrices
  <2> QED
    BY <2>1, <2>2, <2>3, <2>4, HubDocuments, DocumentEffect DEF Changed, HubInv
<1>2. ASSUME NEW h \in bidRead'
      PROVE  /\ h.msg \in bidInbox'
             /\ h.count <= C(h.msg.product)'
             /\ \A k \in bidRead' : h.msg = k.msg => h = k
  <2>0. ASSUME NEW k \in bidRead
        PROVE  /\ k.msg \in bidInbox /\ k.count \in Nat
               /\ k.count <= C(k.msg.product) /\ k.count <= C(k.msg.product)'
    <3>1. k.msg \in bidInbox /\ k.count \in Nat /\ k.count <= C(k.msg.product)
      BY DEF CountInv, C, HubInv, P!TypeOK
    <3> QED
      BY <1>0, <3>1
  <2>1. CASE bidRead' = bidRead /\ bidInbox \subseteq bidInbox'
    BY <2>0, <2>1 DEF CountInv
  <2>2. ASSUME NEW m \in bidInbox, P!ReadForBid(m)
        PROVE  /\ h.msg \in bidInbox'
               /\ h.count <= C(h.msg.product)'
               /\ \A k \in bidRead' : h.msg = k.msg => h = k
    <3>0. /\ \A k \in bidRead : k.msg # m
          /\ \/ /\ bidRead' = bidRead \cup
                      {[msg |-> m, count |-> product[m.product].totalBids]}
                /\ bidInbox' = bidInbox
             \/ bidRead' = bidRead /\ bidInbox' = bidInbox \ {m}
      BY <2>2 DEF P!ReadForBid, P!Acknowledged
    <3>1. CASE h \in bidRead
      BY <2>0, <3>0, <3>1 DEF CountInv
    <3>2. CASE h \notin bidRead
      <4>1. h = [msg |-> m, count |-> product[m.product].totalBids]
            /\ bidRead' = bidRead \cup {h} /\ bidInbox' = bidInbox
        BY <3>0, <3>2
      <4>2. m.product \in Products
        BY DEF HubInv, P!TypeOK, P!BidMessages
      <4>3. product[m.product].totalBids \in Nat
            /\ product[m.product].totalBids <= C(m.product)
        BY <4>2 DEF HubInv, P!TypeOK, P!Documents, CountInv, C
      <4>4. h.count <= C(h.msg.product)'
        BY <1>0, <4>1, <4>3
      <4> QED
        BY <3>0, <4>1, <4>4
    <3> QED
      BY <3>1, <3>2
  <2>3. ASSUME NEW k \in bidRead, P!WriteBidInfo(k)
        PROVE  /\ h.msg \in bidInbox'
               /\ h.count <= C(h.msg.product)'
               /\ \A j \in bidRead' : h.msg = j.msg => h = j
    <3>1. bidRead' = bidRead \ {k} /\ bidInbox' = bidInbox \ {k.msg}
      BY <2>3 DEF P!WriteBidInfo, P!Acknowledged
    <3>2. h \in bidRead /\ h.msg # k.msg
      BY <3>1 DEF CountInv
    <3> QED
      BY <2>0, <3>1, <3>2 DEF CountInv
  <2>4. UNCHANGED prodVars => bidRead' = bidRead /\ bidInbox \subseteq bidInbox'
    OBVIOUS
  <2>5. \A r \in BidReqs : HubPublishBidPlaced(r) =>
             bidRead' = bidRead /\ bidInbox \subseteq bidInbox'
    BY DEF HubPublishBidPlaced
  <2>6. \A m \in ProdReqs : HubPublishWinner(m) =>
             bidRead' = bidRead /\ bidInbox \subseteq bidInbox'
    BY DEF HubPublishWinner
  <2>7. ASSUME NEW r \in ProdReqs, P!CallStep(r) \/ HubAskWinner(r)
        PROVE  bidRead' = bidRead /\ bidInbox \subseteq bidInbox'
    BY <2>7 DEF P!CallStep, P!WriteStep, P!CreateProduct, P!RefuseProduct, P!CheckProduct,
       P!UpdateProduct, P!StartAuction, P!EndAuction, P!PublishAuction, P!DeleteProduct,
       HubAskWinner, P!AskWinner
  <2>8. ASSUME NEW w \in winInbox, P!ApplyWinner(w)
        PROVE  bidRead' = bidRead /\ bidInbox \subseteq bidInbox'
    BY <2>8 DEF P!ApplyWinner
  <2>9. ~P!ProductFault
    BY DEF P!ProductFault, P!FailCall, P!RestartConsumers, P!DropMessage
  <2> QED
    BY <2>1, <2>2, <2>3, <2>4, <2>5, <2>6, <2>7, <2>8, <2>9, HubCases
       DEF HubAssumptions, hubVars, ProductStep, P!ConsumerStep
<1> QED
  BY <1>1, <1>2 DEF CountInv, C

\* The inductive invariant of the counter of bids that is kept without faults.
THEOREM CountInductive ==
    ASSUME QuietAssumptions, IsFiniteSet(BidReqs)
    PROVE  HubSpec => []CountInv
<1> USE DEF QuietAssumptions
<1>1. HubInit => CountInv
  <2>1. ASSUME HubInit, NEW p \in Products
        PROVE  product[p].totalBids <= Cardinality(Handled(p))
    <3>1. Cardinality(Handled(p)) \in Nat
      BY <2>1, InitHubInv, HandledFinite DEF HubInv
    <3> QED
      BY <2>1, <3>1 DEF HubInit, P!Init, P!NoDocument
  <2> QED
    BY <2>1 DEF CountInv, HubInit, P!Init
<1>2. HubInv /\ HubInv' /\ CountInv /\ [HubNext]_hubVars => CountInv'
  BY CountStep
<1> QED
  BY <1>1, <1>2, HubInductive, PTL DEF HubSpec

\* Without faults the counter of bids is never ahead of the bids announced.
THEOREM CountsAreBacked ==
    ASSUME QuietAssumptions, IsFiniteSet(BidReqs)
    PROVE  HubSpec => []CountIsBacked
<1>1. ASSUME HubInv, CountInv, NEW p \in Products
      PROVE  product[p].totalBids <= Cardinality(Stored(p) \cap bidPlaced)
  <2>1. Handled(p) \subseteq Stored(p) \cap bidPlaced /\ Stored(p) \cap bidPlaced \subseteq BidReqs
    BY <1>1 DEF HubInv, MessageInv, Handled, Stored, IInv, TypeOK, EventsOK
  <2>2. /\ Cardinality(Handled(p)) <= Cardinality(Stored(p) \cap bidPlaced)
        /\ Cardinality(Stored(p) \cap bidPlaced) \in Nat
    BY <2>1, FS_Subset, FS_CardinalityType
  <2>3. product[p].totalBids \in Nat /\ product[p].totalBids <= Cardinality(Handled(p))
        /\ Cardinality(Handled(p)) \in Nat
    BY <1>1, HandledFinite DEF HubInv, CountInv, P!TypeOK, P!Documents
  <2> QED
    BY <2>2, <2>3
<1>2. HubInv /\ CountInv => CountIsBacked
  BY <1>1 DEF CountIsBacked
<1> QED
  BY <1>2, CountInductive, HubInductive, PTL DEF QuietAssumptions

-----------------------------------------------------------------------------
(* The winner of an auction that was ended.                                *)

\* Where a request to the product service goes around the publication of its
\* event.
LEMMA CallMove ==
    ASSUME P!TypeOK, ~Faults, ProductStep \/ UNCHANGED prodVars, NEW r \in ProdReqs
    PROVE  /\ ppc[r] = "done" => ppc'[r] = "done"
           /\ ppc'[r] = "publish" => ppc[r] = "publish" \/ P!Found(call[r].product)
           /\ ppc[r] = "publish" => \/ ppc'[r] = "publish"
                                    \/ call[r].op = "end" => r \in ended'
           /\ r \in ended => r \in ended'
           /\ r \in ended' => \/ r \in ended
                              \/ ppc[r] = "publish" /\ call[r].op = "end" /\ ppc'[r] = "done"
<1> USE DEF P!TypeOK, P!CallPCs
<1> DEFINE Goal ==
       /\ ppc[r] = "done" => ppc'[r] = "done"
       /\ ppc'[r] = "publish" => ppc[r] = "publish" \/ P!Found(call[r].product)
       /\ ppc[r] = "publish" => \/ ppc'[r] = "publish"
                                \/ call[r].op = "end" => r \in ended'
       /\ r \in ended => r \in ended'
       /\ r \in ended' => \/ r \in ended
                          \/ ppc[r] = "publish" /\ call[r].op = "end" /\ ppc'[r] = "done"
<1>1. ASSUME NEW q \in ProdReqs, P!PublishAuction(q) PROVE Goal
  BY <1>1 DEF P!PublishAuction
<1>2. ASSUME NEW q \in ProdReqs, P!StartAuction(q) \/ P!EndAuction(q) PROVE Goal
  BY <1>2 DEF P!StartAuction, P!EndAuction
<1>3. ASSUME NEW q \in ProdReqs,
             \/ P!CreateProduct(q) \/ P!RefuseProduct(q) \/ P!CheckProduct(q)
             \/ P!UpdateProduct(q) \/ P!DeleteProduct(q) \/ HubAskWinner(q)
      PROVE  Goal
  BY <1>3 DEF P!CreateProduct, P!RefuseProduct, P!CheckProduct, P!UpdateProduct,
     P!DeleteProduct, HubAskWinner, P!AskWinner
<1>4. ASSUME UNCHANGED <<ppc, ended>> PROVE Goal
  BY <1>4
<1>5. P!ConsumerStep => UNCHANGED <<ppc, ended>>
  BY DEF P!ConsumerStep, P!ReadForBid, P!WriteBidInfo, P!ApplyWinner
<1>6. ~P!ProductFault
  BY DEF P!ProductFault, P!FailCall, P!RestartConsumers, P!DropMessage
<1>7. UNCHANGED prodVars => UNCHANGED <<ppc, ended>>
  OBVIOUS
<1> HIDE DEF Goal
<1>8. Goal
  BY <1>1, <1>2, <1>3, <1>4, <1>5, <1>6, <1>7 DEF ProductStep, P!CallStep, P!WriteStep
<1> QED
  BY <1>8 DEF Goal

\* The same for a step of the hub.
LEMMA HubCallMove ==
    ASSUME HubAssumptions, P!TypeOK, ~Faults, [HubNext]_hubVars, NEW r \in ProdReqs
    PROVE  /\ ppc[r] = "done" => ppc'[r] = "done"
           /\ ppc'[r] = "publish" => ppc[r] = "publish" \/ P!Found(call[r].product)
           /\ ppc[r] = "publish" => \/ ppc'[r] = "publish"
                                    \/ call[r].op = "end" => r \in ended'
           /\ r \in ended => r \in ended'
           /\ r \in ended' => \/ r \in ended
                              \/ ppc[r] = "publish" /\ call[r].op = "end" /\ ppc'[r] = "done"
<1>1. ASSUME NEW q \in BidReqs, HubPublishBidPlaced(q) PROVE UNCHANGED <<ppc, ended>>
  BY <1>1 DEF HubPublishBidPlaced
<1>2. ASSUME NEW q \in ProdReqs, HubPublishWinner(q) PROVE UNCHANGED <<ppc, ended>>
  BY <1>2 DEF HubPublishWinner
<1>3. CASE UNCHANGED <<ppc, ended>>
  BY <1>3
<1>4. CASE ProductStep \/ UNCHANGED prodVars
  BY <1>4, CallMove
<1> QED
  BY <1>1, <1>2, <1>3, <1>4, HubCases DEF HubAssumptions, hubVars

\* Where a handler of auction.ended goes around its ack.
LEMMA HandlerMove ==
    ASSUME HubAssumptions, TypeOK, ~Faults, [HubNext]_hubVars, NEW m \in ProdReqs
    PROVE  /\ m \notin ended => endPc'[m] = endPc[m]
           /\ endPc[m] = "acked" => endPc'[m] = "acked" /\ won'[m] = won[m]
           /\ endPc'[m] = "acked" => endPc[m] = "acked" \/ HubPublishWinner(m)
<1> USE DEF TypeOK, HandlersOK, EndPCs
<1>0. EndMsgs = ProdReqs /\ StartMsgs = ProdReqs
  BY DEF HubAssumptions, HubAssumption
<1>1. CASE UNCHANGED <<endPc, won>>
  BY <1>1
<1>2. ASSUME NEW k \in ProdReqs, HubEndStep(k)
      PROVE  /\ k \in ended /\ endPc[k] # "acked" /\ endPc'[k] # "acked"
             /\ k # m => endPc'[m] = endPc[m] /\ won'[m] = won[m]
  <2>1. CASE ReadWinner(k)
    BY <1>0, <1>2, <2>1 DEF HubEndStep, ReadWinner, AfterRead
  <2>2. CASE FindWinner(k) \/ CrownWinner(k) \/ CollectKeys(k) \/ ExpireBook(k)
    BY <1>0, <1>2, <2>2 DEF HubEndStep, FindWinner, CrownWinner, CollectKeys, ExpireBook
  <2> QED
    BY <1>2, <2>1, <2>2 DEF HubEndStep
<1>3. ASSUME NEW k \in ProdReqs, HubPublishWinner(k)
      PROVE  /\ k \in ended /\ endPc[k] # "acked"
             /\ k # m => endPc'[m] = endPc[m] /\ won'[m] = won[m]
  BY <1>0, <1>3 DEF HubPublishWinner, PublishAuctionWinner, AfterLastStep
<1>4. ASSUME NEW k \in ProdReqs, HubStartStep(k) PROVE UNCHANGED <<endPc, won>>
  BY <1>0, <1>4, StartFrame DEF HubStartStep
<1>5. ASSUME NEW r \in BidReqs, HubValidateBid(r) \/ HubBidStep(r) \/ HubPublishBidPlaced(r)
      PROVE  UNCHANGED <<endPc, won>>
  <2>1. RequestStep(r)
    BY <1>5 DEF HubValidateBid, HubBidStep, HubPublishBidPlaced, RequestStep, BidStep
  <2> QED
    BY <2>1, RequestFrame
<1>6. UNCHANGED bVars => UNCHANGED <<endPc, won>>
  BY DEF bVars
<1>7. ~BiddingFault
  BY DEF BiddingFault, FailRequest, FailStarted, FailEnded
<1> QED
  BY <1>1, <1>2, <1>3, <1>4, <1>5, <1>6, <1>7
     DEF HubNext, HubCallStep, HubAskWinner, HubConsumerStep, HubFault, hubVars

\* An auction.winner message leaves its queue when it is applied, and enters it
\* when it is published.
LEMMA QueueMove ==
    ASSUME HubAssumptions, P!TypeOK, ~Faults, [HubNext]_hubVars
    PROVE  /\ \A w \in winInbox : w \in winInbox' \/ P!ApplyWinner(w)
           /\ \A w \in winInbox' :
                  \/ w \in winInbox
                  \/ \E m \in ProdReqs :
                         /\ HubPublishWinner(m)
                         /\ w = [msg |-> m, product |-> endOf[m],
                                 winner |-> {t.user : t \in won[m]}]
           /\ \A m \in ProdReqs : HubPublishWinner(m) => \E w \in winInbox' : w.msg = m
<1>1. ASSUME NEW m \in ProdReqs, HubPublishWinner(m)
      PROVE  winInbox' = winInbox \cup
                 {[msg |-> m, product |-> endOf[m], winner |-> {t.user : t \in won[m]}]}
  BY <1>1 DEF HubPublishWinner
<1>2. ASSUME NEW m \in ProdReqs, HubPublishWinner(m) PROVE \E w \in winInbox' : w.msg = m
  <2>1. [msg |-> m, product |-> endOf[m], winner |-> {t.user : t \in won[m]}] \in winInbox'
    BY <1>1, <1>2
  <2> QED
    BY <2>1
<1>3. ASSUME NEW w \in winInbox, P!ApplyWinner(w) PROVE winInbox' = winInbox \ {w}
  BY <1>3 DEF P!ApplyWinner, P!Acknowledged
<1>4. ASSUME \/ \E m \in bidInbox : P!ReadForBid(m)
             \/ \E h \in bidRead : P!WriteBidInfo(h)
      PROVE  UNCHANGED winInbox
  BY <1>4 DEF P!ReadForBid, P!WriteBidInfo
<1>5. ASSUME NEW r \in ProdReqs, P!CallStep(r) \/ HubAskWinner(r)
      PROVE  UNCHANGED winInbox
  BY <1>5 DEF P!CallStep, P!WriteStep, P!CreateProduct, P!RefuseProduct, P!CheckProduct,
     P!UpdateProduct, P!StartAuction, P!EndAuction, P!PublishAuction, P!DeleteProduct,
     HubAskWinner, P!AskWinner
<1>6. ~P!ProductFault
  BY DEF P!ProductFault, P!FailCall, P!RestartConsumers, P!DropMessage
<1>7. \A r \in BidReqs : HubPublishBidPlaced(r) => UNCHANGED winInbox
  BY DEF HubPublishBidPlaced
<1>8. UNCHANGED prodVars => UNCHANGED winInbox
  OBVIOUS
<1>9. \/ UNCHANGED winInbox
      \/ \E w \in winInbox : P!ApplyWinner(w) /\ winInbox' = winInbox \ {w}
      \/ \E m \in ProdReqs :
             /\ HubPublishWinner(m)
             /\ winInbox' = winInbox \cup
                    {[msg |-> m, product |-> endOf[m], winner |-> {t.user : t \in won[m]}]}
  BY <1>1, <1>3, <1>4, <1>5, <1>6, <1>7, <1>8, HubCases
     DEF HubAssumptions, hubVars, ProductStep, P!ConsumerStep
<1> QED
  BY <1>2, <1>9

\* A document that exists goes on existing.
LEMMA StillThere ==
    ASSUME HubAssumptions, P!TypeOK, [HubNext]_hubVars, NEW p \in Products,
           product[p].life # "absent"
    PROVE  product'[p].life # "absent"
BY HubDocuments, DocumentEffect DEF Created, Changed

LEMMA EndInvStep ==
    ASSUME HubAssumptions, ~Faults, HubInv, EndInv, [HubNext]_hubVars
    PROVE  EndInv'
<1>0. /\ P!TypeOK /\ TypeOK /\ UNCHANGED <<call, endOf>> /\ EndMsgs = ProdReqs
      /\ \A r \in ProdReqs : call[r].product \in Products
      /\ \A r \in ProdReqs : endOf[r] = call[r].product
  BY BidsStay, HubDocuments, ProductFrame
     DEF HubInv, IInv, P!TypeOK, P!Calls, SeenInv, HubAssumptions, HubAssumption
<1>1. ASSUME NEW r \in ProdReqs
      PROVE  /\ r \in ended' => call[r].op = "end" /\ ppc'[r] = "done"
             /\ r \notin ended' => endPc'[r] = "ready"
             /\ ppc'[r] = "publish" \/ r \in ended' =>
                    product'[call[r].product].life # "absent"
  <2>1. /\ r \in ended => call[r].op = "end" /\ ppc[r] = "done"
        /\ r \notin ended => endPc[r] = "ready"
        /\ ppc[r] = "publish" \/ r \in ended => product[call[r].product].life # "absent"
    BY DEF EndInv
  <2>2. r \in ended' => call[r].op = "end" /\ ppc'[r] = "done"
    BY <1>0, <2>1, HubCallMove
  <2>3. r \notin ended' => endPc'[r] = "ready"
    BY <1>0, <2>1, HubCallMove, HandlerMove
  <2>4. ASSUME ppc'[r] = "publish" \/ r \in ended'
        PROVE  product'[call[r].product].life # "absent"
    <3>1. product[call[r].product].life # "absent"
      BY <1>0, <2>1, <2>4, HubCallMove DEF P!Found
    <3> QED
      BY <1>0, <3>1, StillThere
  <2> QED
    BY <2>2, <2>3, <2>4
<1>2. ASSUME NEW w \in winInbox'
      PROVE  /\ endPc'[w.msg] = "acked" /\ w.product = call[w.msg].product
             /\ w.winner = {t.user : t \in won'[w.msg]}
  <2>1. CASE w \in winInbox
    <3>1. /\ endPc[w.msg] = "acked" /\ w.product = call[w.msg].product
          /\ w.winner = {t.user : t \in won[w.msg]} /\ w.msg \in ProdReqs
      BY <1>0, <2>1 DEF EndInv, P!TypeOK, P!WinnerMessages
    <3> QED
      BY <1>0, <3>1, HandlerMove
  <2>2. ASSUME NEW m \in ProdReqs, HubPublishWinner(m),
               w = [msg |-> m, product |-> endOf[m], winner |-> {t.user : t \in won[m]}]
        PROVE  /\ endPc'[w.msg] = "acked" /\ w.product = call[w.msg].product
               /\ w.winner = {t.user : t \in won'[w.msg]}
    <3>1. endPc'[m] = "acked" /\ won' = won
      BY <1>0, <2>2 DEF HubPublishWinner, PublishAuctionWinner, AfterLastStep, TypeOK,
         HandlersOK
    <3> QED
      BY <1>0, <2>2, <3>1
  <2> QED
    BY <1>0, <2>1, <2>2, QueueMove
<1> QED
  BY <1>0, <1>1, <1>2 DEF EndInv

\* An end-auction is concluded when its winner is applied, and stays so.
LEMMA ConcludedMove ==
    ASSUME HubAssumptions, ~Faults, HubInv, EndInv, [HubNext]_hubVars, NEW m \in ProdReqs
    PROVE  /\ Concluded(m) => Concluded(m)' /\ won'[m] = won[m]
           /\ Concluded(m)' => \/ Concluded(m)
                               \/ \E w \in winInbox : P!ApplyWinner(w) /\ w.msg = m
<1>0. P!TypeOK /\ TypeOK
  BY DEF HubInv, IInv
<1>1. ASSUME Concluded(m) PROVE Concluded(m)' /\ won'[m] = won[m]
  <2>1. endPc'[m] = "acked" /\ won'[m] = won[m]
    BY <1>0, <1>1, HandlerMove DEF Concluded
  <2>2. ASSUME NEW w \in winInbox' PROVE w.msg # m
    <3>1. CASE w \in winInbox
      BY <1>1, <3>1 DEF Concluded
    <3>2. ASSUME NEW k \in ProdReqs, HubPublishWinner(k),
                 w = [msg |-> k, product |-> endOf[k], winner |-> {t.user : t \in won[k]}]
          PROVE  w.msg # m
      BY <1>1, <3>2 DEF Concluded, HubPublishWinner, PublishAuctionWinner
    <3> QED
      BY <1>0, <3>1, <3>2, QueueMove
  <2> QED
    BY <2>1, <2>2 DEF Concluded
<1>2. ASSUME Concluded(m)', ~Concluded(m)
      PROVE  \E w \in winInbox : P!ApplyWinner(w) /\ w.msg = m
  <2>1. endPc'[m] = "acked" /\ \A w \in winInbox' : w.msg # m
    BY <1>2 DEF Concluded
  <2>2. endPc[m] = "acked"
    BY <1>0, <2>1, HandlerMove, QueueMove
  <2>3. PICK w \in winInbox : w.msg = m
    BY <1>2, <2>2 DEF Concluded
  <2> QED
    BY <1>0, <2>1, <2>3, QueueMove
<1> QED
  BY <1>1, <1>2

LEMMA ConcludedStep ==
    ASSUME HubAssumptions, ~Faults, HubInv, EndInv, ConcludedInv, [HubNext]_hubVars
    PROVE  ConcludedInv'
<1>0. /\ P!TypeOK /\ TypeOK /\ UNCHANGED call
      /\ \A r \in ProdReqs : call[r].product \in Products
      /\ \A p : Ends(p) \subseteq ProdReqs /\ Ends(p)' = Ends(p)
  BY HubDocuments, ProductFrame DEF HubInv, IInv, P!TypeOK, P!Calls, Ends
<1> SUFFICES ASSUME NEW p \in Products, product'[p].life = "live",
                    NEW k \in Ends(p), Concluded(k)'
             PROVE  \E m \in Ends(p) :
                        \/ ppc'[m] = "publish"
                        \/ m \in ended' /\ ~Concluded(m)'
                        \/ /\ Concluded(m)'
                           /\ won'[m] # {} => product'[p].winner = {t.user : t \in won'[m]}
  BY <1>0 DEF ConcludedInv
<1>a. \A m \in Ends(p) : m \in ProdReqs /\ call[m].product = p /\ call[m].op = "end"
  BY DEF Ends
<1>b. product'[p] = product[p] \/ Created(p) \/ Changed(p)
  BY <1>0, HubDocuments, DocumentEffect
<1>c. product[p].life = "live"
  <2>1. endPc[k] = "acked"
    BY <1>0, <1>a, ConcludedMove DEF Concluded, EndInv
  <2>2. k \in ended
    BY <1>a, <2>1 DEF EndInv
  <2>3. product[p].life # "absent"
    BY <1>a, <2>2 DEF EndInv
  <2> QED
    BY <1>b, <2>3 DEF Created, Changed
<1>1. ASSUME NEW w \in winInbox, P!ApplyWinner(w), w.product = p
      PROVE  \E m \in Ends(p) :
                 /\ Concluded(m)'
                 /\ won'[m] # {} => product'[p].winner = {t.user : t \in won'[m]}
  <2> DEFINE m == w.msg
  <2>1. /\ m \in ProdReqs /\ endPc[m] = "acked" /\ w.product = call[m].product
        /\ w.winner = {t.user : t \in won[m]} /\ w.winner \in P!Winners
    BY <1>0, <1>1 DEF EndInv, P!TypeOK, P!WinnerMessages
  <2>2. m \in Ends(p)
    BY <1>1, <2>1 DEF EndInv, Ends
  <2>3. endPc'[m] = "acked" /\ won'[m] = won[m]
    BY <1>0, <2>1, HandlerMove
  <2>4. ASSUME NEW v \in winInbox' PROVE v.msg # m
    <3>1. winInbox' = winInbox \ {w}
      BY <1>1 DEF P!ApplyWinner, P!Acknowledged
    <3>2. v \in winInbox /\ v # w /\ v \in P!WinnerMessages /\ w \in P!WinnerMessages
      BY <1>0, <3>1 DEF P!TypeOK
    <3>3. v.msg = m => v.product = w.product /\ v.winner = w.winner
      BY <2>1, <3>2 DEF EndInv
    <3> QED
      BY <3>2, <3>3 DEF P!WinnerMessages
  <2>5. won[m] # {} => product'[p].winner = w.winner
    <3>1. P!SetEnded(p, w.winner)
      BY <1>1, <1>c DEF P!ApplyWinner, P!Found
    <3>2. product'[p].winner = IF w.winner = {} THEN product[p].winner ELSE w.winner
      BY <1>0, <2>1, <3>1, EndedEffect
    <3> QED
      BY <2>1, <3>2
  <2> QED
    BY <2>1, <2>2, <2>3, <2>4, <2>5 DEF Concluded
<1>2. ASSUME NEW r \in ProdReqs, P!EndAuction(r), call[r].product = p
      PROVE  r \in Ends(p) /\ ppc'[r] = "publish"
  BY <1>0, <1>2, <1>c DEF P!EndAuction, P!Found, Ends, P!TypeOK
<1>3. ASSUME ~(\E w \in winInbox : P!ApplyWinner(w) /\ w.product = p),
             ~(\E r \in ProdReqs : P!EndAuction(r) /\ call[r].product = p)
      PROVE  \E m \in Ends(p) :
                 \/ ppc'[m] = "publish"
                 \/ m \in ended' /\ ~Concluded(m)'
                 \/ /\ Concluded(m)'
                    /\ won'[m] # {} => product'[p].winner = {t.user : t \in won'[m]}
  <2>1. product'[p].winner = product[p].winner
    BY <1>3, <1>b, <1>c DEF Created, Changed, WinnerWritten
  <2>2. ASSUME NEW m \in Ends(p), Concluded(m)' PROVE Concluded(m)
    <3>1. \A w \in winInbox : w.msg = m => w.product = p
      BY <1>a DEF EndInv
    <3> QED
      BY <1>3, <1>a, <2>2, <3>1, ConcludedMove
  <2>3. PICK m \in Ends(p) :
           \/ ppc[m] = "publish"
           \/ m \in ended /\ ~Concluded(m)
           \/ /\ Concluded(m)
              /\ won[m] # {} => product[p].winner = {t.user : t \in won[m]}
    <3>1. Concluded(k)
      BY <2>2
    <3> QED
      BY <1>c, <3>1 DEF ConcludedInv
  <2>4. CASE ppc[m] = "publish"
    <3>1. m \notin ended /\ endPc[m] = "ready"
      BY <1>a, <2>4 DEF EndInv
    <3>2. ~Concluded(m)
      BY <3>1 DEF Concluded
    <3>3. ppc'[m] = "publish" \/ m \in ended'
      BY <1>0, <1>a, <2>4, HubCallMove
    <3> QED
      BY <2>2, <3>2, <3>3
  <2>5. CASE m \in ended /\ ~Concluded(m)
    BY <1>0, <1>a, <2>2, <2>5, HubCallMove
  <2>6. CASE /\ Concluded(m)
             /\ won[m] # {} => product[p].winner = {t.user : t \in won[m]}
    BY <1>a, <2>1, <2>6, ConcludedMove
  <2> QED
    BY <2>3, <2>4, <2>5, <2>6
<1> QED
  BY <1>1, <1>2, <1>3

LEMMA InitQuietInv == ASSUME HubAssumptions, HubInit PROVE QuietInv
<1>1. HubInv
  BY InitHubInv
<1>2. EndMsgs = ProdReqs
  BY DEF HubAssumptions, HubAssumption
<1>3. EndInv
  BY <1>2 DEF HubInit, Init, P!Init, EndInv
<1>4. ConcludedInv
  BY <1>2 DEF HubInit, Init, P!Init, ConcludedInv, Concluded, Ends
<1> QED
  BY <1>1, <1>3, <1>4 DEF QuietInv

\* Without faults, QuietInv holds in every reachable state: of the end-auction
\* requests that are over, one has left its winner or is still to be heard of.
THEOREM QuietInductive == ASSUME QuietAssumptions PROVE HubSpec => []QuietInv
<1>1. HubInit => QuietInv
  BY InitQuietInv DEF QuietAssumptions
<1>2. QuietInv /\ [HubNext]_hubVars => QuietInv'
  BY NextHubInv, EndInvStep, ConcludedStep DEF QuietInv, QuietAssumptions
<1> QED
  BY <1>1, <1>2, PTL DEF HubSpec

-----------------------------------------------------------------------------
(* The winner of an auction whose bidding did not stop at its end.         *)

\* Bids that a handler of auction.ended has seen are stored.
LEMMA SeenStay ==
    ASSUME HubAssumptions, HubInv, [HubNext]_hubVars, NEW m \in ProdReqs,
           seen[m] \subseteq Stored(endOf[m])
    PROVE  seen'[m] \subseteq Stored(endOf[m])'
<1>1. /\ TypeOK /\ IInv /\ m \in EndMsgs /\ [ServiceStep]_bVars
      /\ \A p : Stored(p) \subseteq Stored(p)' /\ UNCHANGED endOf
  BY BidsStay, HubService DEF HubInv, IInv, HubAssumptions, HubAssumption
<1>2. seen'[m] \subseteq Stored(endOf[m])
  BY <1>1, WonMove
<1> QED
  BY <1>1, <1>2

\* When everything is quiet, one of the handlers of a product's auction.ended
\* had the last word.
LEMMA LastWord ==
    ASSUME QuietInv, Quiet, NEW p \in Products, product[p].life = "live",
           {m \in ended : endOf[m] = p} # {}
    PROVE  \E m \in ended :
               /\ m \in ProdReqs /\ endOf[m] = p
               /\ won[m] # {} => product[p].winner = {t.user : t \in won[m]}
<1>0. /\ \A m \in ended : m \in ProdReqs /\ call[m].op = "end"
      /\ \A m \in ProdReqs : endOf[m] = call[m].product
  BY DEF QuietInv, HubInv, P!TypeOK, EndInv, SeenInv
<1>1. \A m \in Ends(p) : m \in ProdReqs /\ endOf[m] = p
  BY <1>0 DEF Ends
<1>2. \A m \in ended : Concluded(m)
  BY DEF Quiet, Concluded
<1>3. PICK k \in ended : endOf[k] = p
  OBVIOUS
<1>4. k \in Ends(p) /\ Concluded(k)
  BY <1>0, <1>2, <1>3 DEF Ends
<1>5. PICK m \in Ends(p) :
         \/ ppc[m] = "publish"
         \/ m \in ended /\ ~Concluded(m)
         \/ /\ Concluded(m)
            /\ won[m] # {} => product[p].winner = {t.user : t \in won[m]}
  BY <1>4 DEF QuietInv, ConcludedInv
<1>6. ppc[m] # "publish"
  BY <1>1 DEF Quiet
<1>7. Concluded(m) /\ (won[m] # {} => product[p].winner = {t.user : t \in won[m]})
  BY <1>2, <1>5, <1>6
<1>8. m \in ended
  BY <1>1, <1>7 DEF Concluded, QuietInv, EndInv
<1> QED
  BY <1>1, <1>7, <1>8

\* Without faults, when everything is quiet and no bid slipped in after the
\* handlers of auction.ended read the book, the product names the highest bidder.
THEOREM WinnersAgree == ASSUME QuietAssumptions PROVE HubSpec => []WinnerAgreement
<1>1. ASSUME QuietInv, Quiet, NEW p \in Products,
             {m \in ended : endOf[m] = p} # {},
             \A m \in {e \in ended : endOf[e] = p} : seen[m] = Stored(p),
             Stored(p) # {}, product[p].life = "live"
      PROVE  product[p].winner = HighestBidder(p)
  <2>1. PICK m \in ended :
           /\ m \in ProdReqs /\ endOf[m] = p
           /\ won[m] # {} => product[p].winner = {t.user : t \in won[m]}
    BY <1>1, LastWord
  <2>2. won[m] = Tops(StoredMembers(p))
    BY <1>1, <2>1 DEF QuietInv, HubInv, SeenInv, StoredMembers
  <2>3. Tops(StoredMembers(p)) = Tops(book[p]) /\ Tops(book[p]) # {}
    <3>1. BiddingAssumption /\ IInv /\ NamesInv
      BY <1>1 DEF QuietAssumptions, HubAssumptions, QuietInv, HubInv
    <3> QED
      BY <1>1, <3>1, TopsOfBids, TopsOutrun
  <2> QED
    BY <2>1, <2>2, <2>3 DEF HighestBidder
<1>2. QuietInv => WinnerAgreement
  BY <1>1 DEF WinnerAgreement
<1> QED
  BY <1>2, QuietInductive, PTL

\* Without faults, when everything is quiet, no bid that all handlers of a
\* product's auction.ended have seen is above the winner's.
THEOREM WinnersStand == ASSUME QuietAssumptions PROVE HubSpec => []WinnerStands
<1> USE DEF QuietAssumptions
<1>1. HubInit => StandInv
  <2>1. HubInit => \A m \in ProdReqs : seen[m] \subseteq Stored(endOf[m])
    BY DEF HubInit, Init, HubAssumptions, HubAssumption
  <2> QED
    BY <2>1, InitQuietInv DEF StandInv
<1>2. StandInv /\ [HubNext]_hubVars => StandInv'
  <2>1. ASSUME StandInv, [HubNext]_hubVars
        PROVE  \A m \in ProdReqs : seen'[m] \subseteq Stored(endOf[m])'
    BY <2>1, SeenStay DEF StandInv, QuietInv
  <2>2. QuietInv /\ [HubNext]_hubVars => QuietInv'
    BY NextHubInv, EndInvStep, ConcludedStep DEF QuietInv
  <2> QED
    BY <2>1, <2>2 DEF StandInv
<1>3. ASSUME StandInv, Quiet, NEW p \in Products, product[p].life = "live",
             {m \in ended : endOf[m] = p} # {},
             NEW b \in Stored(p), \A m \in {e \in ended : endOf[e] = p} : b \in seen[m]
      PROVE  \E x \in Stored(p) :
                 /\ product[p].winner = {body[x].user}
                 /\ \A c \in Stored(p) :
                        (\A m \in {e \in ended : endOf[e] = p} : c \in seen[m])
                        => ~Above(Member(c), Member(x))
  <2>0. /\ BiddingAssumption /\ TypeOK /\ WinnerOutrunsSeen /\ NamesInv /\ SeenInv
        /\ QuietInv /\ EndMsgs = ProdReqs
    BY <1>3 DEF StandInv, QuietInv, HubInv, IInv, HubAssumptions, HubAssumption
  <2>1. PICK m \in ended :
           /\ m \in ProdReqs /\ endOf[m] = p
           /\ won[m] # {} => product[p].winner = {t.user : t \in won[m]}
    BY <1>3, <2>0, LastWord
  <2>2. b \in seen[m] /\ m \in EndMsgs
    BY <1>3, <2>0, <2>1
  <2>3. PICK t \in won[m] : TRUE
    BY <2>0, <2>2 DEF WinnerOutrunsSeen
  <2>4. won[m] = Tops({Member(r) : r \in seen[m]})
    BY <2>0, <2>1, <2>2 DEF SeenInv
  <2>5. t \in Tops({Member(r) : r \in seen[m]})
    BY <2>3, <2>4
  <2>6. PICK x \in seen[m] : t = Member(x)
    BY <2>5, TopsInside
  <2>7. x \in Stored(p) /\ seen[m] \subseteq BidReqs
    BY <1>3, <2>1, <2>6 DEF StandInv, Stored
  <2>8. product[p].winner = {body[x].user}
    <3>1. won[m] = {t}
      BY <2>0, <2>1, <2>3 DEF NamesInv
    <3>2. product[p].winner = {t.user}
      BY <2>1, <3>1
    <3> QED
      BY <2>6, <3>2 DEF Member
  <2>9. ASSUME NEW c \in seen[m] PROVE ~Above(Member(c), Member(x))
    <3>1. Member(c) \in Members /\ Member(x) \in Members
      BY <2>0, <2>6, <2>7, MemberTyped
    <3>2. Member(c) = t \/ Above(t, Member(c))
      BY <2>5 DEF Tops
    <3>3. CASE Above(t, Member(c))
      BY <2>0, <2>6, <3>1, <3>3, AboveStrict
    <3>4. CASE Member(c) = t
      BY <2>0, <2>6, <3>1, <3>4, AboveStrict
    <3> QED
      BY <3>2, <3>3, <3>4
  <2> QED
    BY <2>1, <2>7, <2>8, <2>9
<1>4. StandInv => WinnerStands
  BY <1>3 DEF WinnerStands
<1> QED
  BY <1>1, <1>2, <1>4, PTL DEF HubSpec

-----------------------------------------------------------------------------
(* The bids that a product reflects.                                       *)

\* A bid.placed leaves its queue when it is handled, or when its product is
\* not found.
LEMMA InboxMove ==
    ASSUME QuietAssumptions, HubInv, [HubNext]_hubVars, NEW m \in bidInbox
    PROVE  \/ m \in bidInbox'
           \/ P!ReadForBid(m) /\ ~P!Found(m.product)
           \/ \E h \in bidRead : P!WriteBidInfo(h) /\ h.msg = m
<1> USE DEF QuietAssumptions
<1>1. ASSUME NEW k \in bidInbox, P!ReadForBid(k)
      PROVE  m \in bidInbox' \/ (P!ReadForBid(m) /\ ~P!Found(m.product))
  BY <1>1 DEF P!ReadForBid, P!Acknowledged
<1>2. ASSUME NEW h \in bidRead, P!WriteBidInfo(h)
      PROVE  m \in bidInbox' \/ h.msg = m
  BY <1>2 DEF P!WriteBidInfo, P!Acknowledged
<1>3. ASSUME NEW w \in winInbox, P!ApplyWinner(w) PROVE m \in bidInbox'
  BY <1>3 DEF P!ApplyWinner
<1>4. ASSUME NEW r \in ProdReqs, P!CallStep(r) \/ HubAskWinner(r) PROVE m \in bidInbox'
  BY <1>4 DEF P!CallStep, P!WriteStep, P!CreateProduct, P!RefuseProduct, P!CheckProduct,
     P!UpdateProduct, P!StartAuction, P!EndAuction, P!PublishAuction, P!DeleteProduct,
     HubAskWinner, P!AskWinner
<1>5. ~P!ProductFault
  BY DEF P!ProductFault, P!FailCall, P!RestartConsumers, P!DropMessage
<1>6. \/ UNCHANGED prodVars
      \/ \E r \in BidReqs : HubPublishBidPlaced(r)
      \/ \E k \in ProdReqs : HubPublishWinner(k)
      => m \in bidInbox'
  BY DEF HubPublishBidPlaced, HubPublishWinner
<1> QED
  BY <1>1, <1>2, <1>3, <1>4, <1>5, <1>6, HubCases
     DEF HubAssumptions, hubVars, ProductStep, P!ConsumerStep

\* A bid that is announced in this step has its message in the queue.
LEMMA PlacedIsQueued ==
    ASSUME HubAssumptions, HubInv, [HubNext]_hubVars, NEW r \in bidPlaced'
    PROVE  r \in bidPlaced \/ \E m \in bidInbox' : m.bid = r
<1>1. ASSUME NEW q \in BidReqs, HubPublishBidPlaced(q), r \notin bidPlaced
      PROVE  \E m \in bidInbox' : m.bid = r
  <2>1. r = q
    BY <1>1 DEF HubPublishBidPlaced, PublishBidPlaced, Announced
  <2>2. [bid |-> q, product |-> body[q].product, amount |-> body[q].amount] \in bidInbox'
    BY <1>1 DEF HubPublishBidPlaced, PlacedMessage, Announced
  <2> QED
    BY <2>1, <2>2
<1>2. ASSUME NEW q \in BidReqs, HubValidateBid(q) \/ HubBidStep(q)
      PROVE  UNCHANGED bidPlaced
  BY <1>2 DEF HubValidateBid, ValidateBid, HubBidStep, CheckHighest, StoreBid, PushBid,
     ReadBook, LookupBid, WriteOutbid, PublishBidOutbid
<1>3. ASSUME NEW k \in ProdReqs, HubStartStep(k) \/ HubEndStep(k) \/ HubPublishWinner(k)
      PROVE  UNCHANGED bidPlaced
  BY <1>3 DEF HubStartStep, StartStep, CheckBookExists, AddInitMember, RemoveInitMember,
     HubEndStep, ReadWinner, FindWinner, CrownWinner, CollectKeys, ExpireBook,
     HubPublishWinner, PublishAuctionWinner
<1>4. BiddingFault => UNCHANGED bidPlaced
  BY DEF BiddingFault, FailRequest, FailStarted, FailEnded
<1>5. UNCHANGED bVars => UNCHANGED bidPlaced
  BY DEF bVars
<1> QED
  BY <1>1, <1>2, <1>3, <1>4, <1>5
     DEF HubNext, HubCallStep, HubAskWinner, HubConsumerStep, HubFault, hubVars

\* A bid becomes handled when its product is written, or is not found.
LEMMA HandledMove ==
    ASSUME QuietAssumptions, HubInv, [HubNext]_hubVars, NEW p,
           NEW r \in Handled(p)'
    PROVE  /\ r \in bidPlaced /\ body[r].product = p
           /\ \/ r \in Handled(p)
              \/ \E m \in bidInbox : /\ m.product = p
                                     /\ P!ReadForBid(m) /\ ~P!Found(p)
              \/ \E h \in bidRead : P!WriteBidInfo(h) /\ h.msg.product = p
<1> USE DEF QuietAssumptions
<1>1. r \in bidPlaced' /\ body'[r].product = p /\ \A m \in bidInbox' : m.bid # r
  BY DEF Handled
<1>2. r \in bidPlaced /\ body[r].product = p
  BY <1>1, PlacedIsQueued, BidsStay DEF HubInv
<1>3. ASSUME NEW m \in bidInbox, m.bid = r
      PROVE  \/ P!ReadForBid(m) /\ ~P!Found(p)
             \/ \E h \in bidRead : P!WriteBidInfo(h) /\ h.msg.product = p
  <2>1. m.product = p
    BY <1>2, <1>3 DEF HubInv, MessageInv
  <2> QED
    BY <1>1, <1>3, <2>1, InboxMove
<1>4. \A m \in bidInbox : m.bid = r => m.product = p
  BY <1>2 DEF HubInv, MessageInv
<1> QED
  BY <1>2, <1>3, <1>4 DEF Handled

\* updateBidInfo writes the amount and the next count.
LEMMA BidIsWritten ==
    ASSUME P!TypeOK, NEW h \in bidRead, P!WriteBidInfo(h), P!Found(h.msg.product)
    PROVE  /\ product'[h.msg.product].currentPrice = h.msg.amount
           /\ product'[h.msg.product].totalBids = h.count + 1
<1> DEFINE q == h.msg.product
<1>1. q \in Products /\ product \in [Products -> P!Documents]
  BY DEF P!TypeOK, P!BidMessages
<1>2. product' = [product EXCEPT ![q] = [product[q] EXCEPT
                     !.currentPrice = h.msg.amount, !.totalBids = h.count + 1]]
  BY <1>1 DEF P!WriteBidInfo, P!NextCount
<1> QED
  BY <1>1, <1>2 DEF P!Documents

\* The bid of a handler that writes is stored, and is reflected by its write.
LEMMA WriteReflects ==
    ASSUME HubAssumptions, HubInv, [HubNext]_hubVars, NEW p \in Products,
           NEW h \in bidRead, P!WriteBidInfo(h), h.msg.product = p, P!Found(p)
    PROVE  /\ product'[p].totalBids > 0
           /\ \E r \in Stored(p)' : product'[p].currentPrice = body'[r].amount
<1>1. product'[p].currentPrice = h.msg.amount /\ product'[p].totalBids = h.count + 1
  BY BidIsWritten DEF HubInv
<1>2. h.count \in Nat
  BY DEF HubInv, P!TypeOK
<1>3. /\ h.msg.bid \in bidPlaced /\ body[h.msg.bid].product = p
      /\ body[h.msg.bid].amount = h.msg.amount
  BY DEF HubInv, MessageInv
<1>4. h.msg.bid \in Stored(p)
  BY <1>3 DEF HubInv, MessageInv, Stored, IInv, TypeOK, EventsOK
<1>5. h.msg.bid \in Stored(p)' /\ UNCHANGED body
  BY <1>4, BidsStay DEF HubInv
<1> QED
  BY <1>1, <1>2, <1>3, <1>5

\* What was not repriced so far is not so after all.
LEMMA RepricedStays ==
    ASSUME QuietAssumptions, HubInv, [HubNext]_hubVars, NEW p, NeverRepriced(p)'
    PROVE  NeverRepriced(p)
<1>1. UNCHANGED call
  BY HubDocuments, ProductFrame DEF QuietAssumptions, HubInv
<1>2. \A r \in ProdReqs : ppc[r] = "done" => ppc'[r] = "done"
  BY HubCallMove DEF QuietAssumptions, HubInv
<1> QED
  BY <1>1, <1>2 DEF NeverRepriced

LEMMA ReflectStep ==
    ASSUME QuietAssumptions, HubInv, ReflectInv, [HubNext]_hubVars
    PROVE  ReflectInv'
<1> USE DEF QuietAssumptions
<1> SUFFICES ASSUME NEW p \in Products, product'[p].life = "live", Handled(p)' # {}
             PROVE  /\ product'[p].totalBids > 0
                    /\ NeverRepriced(p)' => \E r \in Stored(p)' :
                           product'[p].currentPrice = body'[r].amount
  BY DEF ReflectInv
<1>0. /\ P!TypeOK /\ UNCHANGED <<body, call>> /\ Stored(p) \subseteq Stored(p)'
      /\ product'[p] = product[p] \/ Created(p) \/ Changed(p)
  BY BidsStay, HubDocuments, ProductFrame, DocumentEffect DEF HubInv
<1>1. PICK r \in Handled(p)' : TRUE
  OBVIOUS
<1>2. product[p].life = "live"
  <2>1. r \in bidPlaced /\ body[r].product = p
    BY HandledMove
  <2>2. product[p].life # "absent"
    BY <2>1 DEF HubInv, MessageInv, SellerInv, IInv, TypeOK, EventsOK
  <2> QED
    BY <1>0, <2>2 DEF Created, Changed
<1>3. ASSUME NEW h \in bidRead, P!WriteBidInfo(h), h.msg.product = p
      PROVE  /\ product'[p].totalBids > 0
             /\ \E q \in Stored(p)' : product'[p].currentPrice = body'[q].amount
  BY <1>2, <1>3, WriteReflects DEF P!Found
<1>4. ASSUME ~(\E h \in bidRead : P!WriteBidInfo(h) /\ h.msg.product = p)
      PROVE  /\ product'[p].totalBids > 0
             /\ NeverRepriced(p)' => \E q \in Stored(p)' :
                    product'[p].currentPrice = body'[q].amount
  <2>1. Handled(p) # {}
    BY <1>1, <1>2, <1>4, HandledMove DEF P!Found
  <2>2. /\ product[p].totalBids > 0
        /\ NeverRepriced(p) => \E q \in Stored(p) : product[p].currentPrice = body[q].amount
    BY <1>2, <2>1 DEF ReflectInv
  <2>3. product'[p] = product[p] \/ SamePrices(p)
    BY <1>0, <1>2, <1>4 DEF Created, Changed, BidWritten
  <2>4. product'[p].totalBids = product[p].totalBids
    BY <2>3 DEF SamePrices
  <2>5. ASSUME NeverRepriced(p)' PROVE product'[p].currentPrice = product[p].currentPrice
    <3>1. ASSUME NEW q \in ProdReqs, P!UpdateProduct(q), call[q].product = p PROVE FALSE
      <4>1. call[q].op = "update" /\ ppc'[q] = "done"
        BY <1>0, <1>2, <3>1 DEF P!UpdateProduct, P!Found, P!TypeOK
      <4> QED
        BY <1>0, <2>5, <3>1, <4>1 DEF NeverRepriced
    <3> QED
      BY <2>3, <3>1 DEF SamePrices
  <2> QED
    BY <1>0, <2>2, <2>4, <2>5, RepricedStays
<1> QED
  BY <1>3, <1>4

\* Without faults, when everything is quiet, a product that has bids counts some
\* and shows the amount of one, unless an update repriced it.
THEOREM BidsReflected == ASSUME QuietAssumptions PROVE HubSpec => []BidsAreReflected
<1> USE DEF QuietAssumptions
<1>1. HubInit => NoticeInv /\ ReflectInv
  BY DEF HubInit, Init, P!Init, P!NoDocument, NoticeInv, ReflectInv
<1>2. HubInv /\ NoticeInv /\ ReflectInv /\ [HubNext]_hubVars
        => NoticeInv' /\ ReflectInv'
  BY ReflectStep, NoticeStep, HubService DEF HubAssumptions, HubInv, NamesInv
<1>3. ASSUME HubInv, NoticeInv, ReflectInv, Quiet, NEW p \in Products,
             product[p].life = "live", Stored(p) # {}
      PROVE  Handled(p) # {}
  <2>1. PICK r \in BidReqs : status[r] # "none" /\ body[r].product = p
    BY <1>3 DEF Stored
  <2>2. pc[r] = "done"
    BY <1>3, <2>1 DEF Quiet, HubInv, IInv, KeyInv, Unstored
  <2>3. r \in Handled(p)
    BY <1>3, <2>1, <2>2 DEF NoticeInv, Quiet, Handled
  <2> QED
    BY <2>3
<1>4. HubInv /\ NoticeInv /\ ReflectInv => BidsAreReflected
  BY <1>3 DEF BidsAreReflected, ReflectInv
<1> QED
  BY <1>1, <1>2, <1>4, HubInductive, PTL DEF HubSpec

-----------------------------------------------------------------------------
(* The book.                                                               *)

\* Only a handler of auction.started that was published moves, and its message
\* stays published.
LEMMA StarterMove ==
    ASSUME QuietAssumptions, HubInv, [HubNext]_hubVars
    PROVE  /\ \A k \in ProdReqs : k \in started => k \in started'
           /\ \/ \E m \in ProdReqs : m \in started /\ StartStep(m)
              \/ /\ UNCHANGED startPc
                 /\ \A p \in Products : InitMember \in book'[p] => InitMember \in book[p]
<1> USE DEF QuietAssumptions
<1>0. StartMsgs = ProdReqs /\ EndMsgs = ProdReqs
  BY DEF HubAssumptions, HubAssumption
<1>1. \A k \in ProdReqs : k \in started => k \in started'
  <2>1. ASSUME NEW r \in ProdReqs, P!CallStep(r) \/ HubAskWinner(r)
        PROVE  started \subseteq started'
    BY <2>1 DEF P!CallStep, P!WriteStep, P!CreateProduct, P!RefuseProduct, P!CheckProduct,
       P!UpdateProduct, P!StartAuction, P!EndAuction, P!PublishAuction, P!DeleteProduct,
       HubAskWinner, P!AskWinner
  <2>2. P!ConsumerStep => UNCHANGED started
    BY DEF P!ConsumerStep, P!ReadForBid, P!WriteBidInfo, P!ApplyWinner
  <2>3. ~P!ProductFault
    BY DEF P!ProductFault, P!FailCall, P!RestartConsumers, P!DropMessage
  <2>4. \/ UNCHANGED prodVars
        \/ \E r \in BidReqs : HubPublishBidPlaced(r)
        \/ \E k \in ProdReqs : HubPublishWinner(k)
        => UNCHANGED started
    BY DEF HubPublishBidPlaced, HubPublishWinner
  <2> QED
    BY <2>1, <2>2, <2>3, <2>4, HubCases DEF HubAssumptions, hubVars, ProductStep
<1>2. ASSUME NEW r \in BidReqs, HubValidateBid(r) \/ HubBidStep(r) \/ HubPublishBidPlaced(r)
      PROVE  /\ UNCHANGED startPc
             /\ \A p \in Products : InitMember \in book'[p] => InitMember \in book[p]
  <2>1. RequestStep(r)
    BY <1>2 DEF HubValidateBid, HubBidStep, HubPublishBidPlaced, RequestStep, BidStep
  <2>2. UNCHANGED startPc /\ (~StoreBid(r) => UNCHANGED book)
    BY <2>1, RequestFrame
  <2>3. CASE StoreBid(r)
    <3>1. Member(r) # InitMember
      BY DEF Member, InitMember, HubInv, IInv, TypeOK, InputsOK, Bodies, HubAssumptions,
         BiddingAssumption
    <3> QED
      BY <2>2, <2>3, <3>1 DEF StoreBid, HubInv, IInv, TypeOK, StoreOK
  <2> QED
    BY <2>2, <2>3
<1>3. ASSUME NEW m \in ProdReqs, HubEndStep(m) \/ HubPublishWinner(m)
      PROVE  UNCHANGED <<startPc, book>>
  BY <1>0, <1>3, EndFrame DEF HubEndStep, HubPublishWinner, EndStep
<1>4. UNCHANGED bVars => UNCHANGED <<startPc, book>>
  BY DEF bVars
<1>5. ~BiddingFault
  BY DEF BiddingFault, FailRequest, FailStarted, FailEnded
<1> QED
  BY <1>1, <1>2, <1>3, <1>4, <1>5
     DEF HubNext, HubStartStep, HubCallStep, HubAskWinner, HubConsumerStep, HubFault, hubVars

LEMMA DummyStep ==
    ASSUME QuietAssumptions, HubInv, DummyInv, [HubNext]_hubVars
    PROVE  DummyInv'
<1> USE DEF QuietAssumptions
<1>0. /\ StartMsgs = ProdReqs /\ UNCHANGED startOf
      /\ startPc \in [ProdReqs -> StartPCs] /\ book \in [Products -> SUBSET Members]
      /\ \A m \in ProdReqs : startOf[m] \in Products
  BY BidsStay DEF HubAssumptions, HubAssumption, HubInv, IInv, TypeOK, HandlersOK, StoreOK,
     InputsOK
<1>1. ASSUME NEW m \in ProdReqs, m \in started, StartStep(m) PROVE DummyInv'
  <2>1. \A k \in ProdReqs : k # m => startPc'[k] = startPc[k]
    BY <1>0, <1>1 DEF StartStep, CheckBookExists, AddInitMember, RemoveInitMember
  <2>2. \A k \in ProdReqs : k \notin started' => startPc'[k] = "ready"
    BY <1>1, <2>1, StarterMove DEF DummyInv
  <2>3. ASSUME NEW p \in Products, InitMember \in book'[p]
        PROVE  \E k \in ProdReqs : startOf[k] = p /\ startPc'[k] = "remove"
    <3>1. CASE CheckBookExists(m)
      <4>1. PICK k \in ProdReqs : startOf[k] = p /\ startPc[k] = "remove"
        BY <2>3, <3>1 DEF CheckBookExists, DummyInv
      <4>2. k # m
        BY <3>1, <4>1 DEF CheckBookExists
      <4> QED
        BY <2>1, <4>1, <4>2
    <3>2. CASE AddInitMember(m)
      <4>1. CASE startOf[m] = p
        BY <1>0, <3>2, <4>1 DEF AddInitMember
      <4>2. CASE startOf[m] # p
        <5>1. PICK k \in ProdReqs : startOf[k] = p /\ startPc[k] = "remove"
          BY <1>0, <2>3, <3>2, <4>2 DEF AddInitMember, DummyInv
        <5> QED
          BY <2>1, <4>2, <5>1
      <4> QED
        BY <4>1, <4>2
    <3>3. CASE RemoveInitMember(m)
      <4>1. startOf[m] # p /\ InitMember \in book[p]
        BY <1>0, <2>3, <3>3 DEF RemoveInitMember
      <4>2. PICK k \in ProdReqs : startOf[k] = p /\ startPc[k] = "remove"
        BY <4>1 DEF DummyInv
      <4> QED
        BY <2>1, <4>1, <4>2
    <3> QED
      BY <1>1, <3>1, <3>2, <3>3 DEF StartStep
  <2> QED
    BY <1>0, <2>2, <2>3 DEF DummyInv, InitMember
<1>2. ASSUME UNCHANGED startPc,
             \A p \in Products : InitMember \in book'[p] => InitMember \in book[p]
      PROVE  DummyInv'
  BY <1>0, <1>2, StarterMove DEF DummyInv, InitMember
<1> QED
  BY <1>1, <1>2, StarterMove

\* Without faults, when everything is quiet, a product's book holds the members
\* of its stored bids and no dummy.
THEOREM BooksAreExact == ASSUME QuietAssumptions PROVE HubSpec => []BookIsExact
<1> USE DEF QuietAssumptions
<1>1. HubInit => DummyInv
  BY DEF HubInit, Init, DummyInv, HubAssumptions, HubAssumption
<1>2. HubInv /\ DummyInv /\ [HubNext]_hubVars => DummyInv'
  BY DummyStep
<1>3. ASSUME HubInv, DummyInv, Quiet, NEW p \in Products
      PROVE  book[p] = StoredMembers(p)
  <2>1. InitMember \notin book[p]
    BY <1>3 DEF DummyInv, Quiet
  <2>2. book[p] \subseteq StoredMembers(p)
    BY <1>3, <2>1 DEF HubInv, NamesInv, BookOfBids
  <2>3. StoredMembers(p) \subseteq book[p]
    BY <1>3 DEF HubInv, IInv, BookInv, StoredMembers, Stored
  <2> QED
    BY <2>2, <2>3
<1>4. HubInv /\ DummyInv => BookIsExact
  BY <1>3 DEF BookIsExact
<1> QED
  BY <1>1, <1>2, <1>4, HubInductive, PTL DEF HubSpec

-----------------------------------------------------------------------------
(* Books that are not read while the dummy is in them.                     *)

\* Without the dummy in the book, whoever it names has bid.
LEMMA HighestHasBid ==
    ASSUME NamesInv, NEW p \in Products, InitMember \notin book[p]
    PROVE  /\ \A t \in Tops(book[p]) : t.user \in RealBidders(p)
           /\ HighestBidder(p) \subseteq RealBidders(p)
<1>1. ASSUME NEW t \in Tops(book[p]) PROVE t.user \in RealBidders(p)
  <2>1. t \in book[p]
    BY TopsInside
  <2>2. t \in StoredMembers(p)
    BY <2>1 DEF NamesInv, BookOfBids
  <2> QED
    BY <2>2 DEF RealBidders, StoredMembers, Member
<1> QED
  BY <1>1 DEF HighestBidder

\* An answer is new only when its request asks.
LEMMA AnswerMove ==
    ASSUME HubAssumptions, P!TypeOK, [HubNext]_hubVars, NEW r \in ProdReqs
    PROVE  \/ answer'[r] = answer[r]
           \/ ppc[r] = "ask" /\ answer'[r] = HighestBidder(call[r].product)
<1> USE DEF P!TypeOK
<1>1. ASSUME NEW q \in ProdReqs, HubAskWinner(q)
      PROVE  \/ answer'[r] = answer[r]
             \/ ppc[r] = "ask" /\ answer'[r] = HighestBidder(call[r].product)
  BY <1>1 DEF HubAskWinner, P!AskWinner
<1>2. ASSUME NEW q \in ProdReqs, P!CallStep(q) \/ P!FailCall(q) PROVE UNCHANGED answer
  BY <1>2 DEF P!CallStep, P!WriteStep, P!CreateProduct, P!RefuseProduct, P!CheckProduct,
     P!UpdateProduct, P!StartAuction, P!EndAuction, P!PublishAuction, P!DeleteProduct,
     P!FailCall
<1>3. P!ConsumerStep \/ P!RestartConsumers \/ P!DropMessage => UNCHANGED answer
  BY DEF P!ConsumerStep, P!ReadForBid, P!WriteBidInfo, P!ApplyWinner,
     P!RestartConsumers, P!DropMessage
<1>4. \/ UNCHANGED prodVars
      \/ \E b \in BidReqs : HubPublishBidPlaced(b)
      \/ \E m \in ProdReqs : HubPublishWinner(m)
      => UNCHANGED answer
  BY DEF HubPublishBidPlaced, HubPublishWinner
<1> QED
  BY <1>1, <1>2, <1>3, <1>4, HubCases
     DEF HubAssumptions, hubVars, ProductStep, P!ProductFault

\* The book is read for a message that was published.
LEMMA ReadsPublished ==
    ASSUME QuietAssumptions, IInv, [HubNext]_hubVars, NEW m \in ProdReqs, ReadWinner(m)
    PROVE  m \in ended /\ endPc[m] = "ready"
<1> USE DEF QuietAssumptions, IInv, TypeOK, HandlersOK, EndPCs
<1>0. EndMsgs = ProdReqs /\ StartMsgs = ProdReqs
  BY DEF HubAssumptions, HubAssumption
<1>1. endPc[m] = "ready" /\ endPc'[m] # "ready"
  BY <1>0 DEF ReadWinner, AfterRead
<1>2. ASSUME NEW k \in ProdReqs, HubEndStep(k) \/ HubPublishWinner(k)
      PROVE  k \in ended /\ (k # m => endPc'[m] = endPc[m])
  BY <1>0, <1>2 DEF HubEndStep, HubPublishWinner, ReadWinner, FindWinner, CrownWinner,
     CollectKeys, ExpireBook, PublishAuctionWinner
<1>3. ASSUME NEW k \in ProdReqs, HubStartStep(k) PROVE UNCHANGED endPc
  BY <1>0, <1>3, StartFrame DEF HubStartStep
<1>4. ASSUME NEW r \in BidReqs, HubValidateBid(r) \/ HubBidStep(r) \/ HubPublishBidPlaced(r)
      PROVE  UNCHANGED endPc
  <2>1. RequestStep(r)
    BY <1>4 DEF HubValidateBid, HubBidStep, HubPublishBidPlaced, RequestStep, BidStep
  <2> QED
    BY <2>1, RequestFrame
<1>5. UNCHANGED bVars => UNCHANGED endPc
  BY DEF bVars
<1>6. ~BiddingFault
  BY DEF BiddingFault, FailRequest, FailStarted, FailEnded
<1> QED
  BY <1>1, <1>2, <1>3, <1>4, <1>5, <1>6
     DEF HubNext, HubCallStep, HubAskWinner, HubConsumerStep, HubFault, hubVars

LEMMA RealNamesStep ==
    ASSUME QuietAssumptions, HubInv, DummyInv, RealNamesInv, DummyUnread, [HubNext]_hubVars
    PROVE  RealNamesInv'
<1> USE DEF QuietAssumptions, HubInv
<1>0. /\ EndMsgs = ProdReqs /\ UNCHANGED <<body, endOf, call>>
      /\ \A m \in ProdReqs : endOf[m] \in Products /\ call[m].product \in Products
      /\ [ServiceStep]_bVars
      /\ \A p : RealBidders(p) \subseteq RealBidders(p)'
  <2>1. UNCHANGED call
    BY HubDocuments, ProductFrame
  <2>2. \A p : RealBidders(p) \subseteq RealBidders(p)'
    BY BidsStay DEF RealBidders
  <2> QED
    BY <2>1, <2>2, BidsStay, HubService DEF HubAssumptions, HubAssumption, IInv, TypeOK,
       InputsOK, P!TypeOK, P!Calls
<1>1. ASSUME NEW m \in ProdReqs
      PROVE  \A t \in won'[m] : t.user \in RealBidders(endOf[m])'
  <2>1. CASE won'[m] = won[m]
    BY <1>0, <2>1 DEF RealNamesInv
  <2>2. CASE ReadWinner(m) /\ won'[m] = Tops(book[endOf[m]])
    <3>1. m \in ended /\ endPc[m] = "ready"
      BY <2>2, ReadsPublished
    <3>2. InitMember \notin book[endOf[m]]
      BY <1>0, <3>1 DEF DummyInv, DummyUnread
    <3> QED
      BY <1>0, <2>2, <3>2, HighestHasBid
  <2> QED
    BY <1>0, <2>1, <2>2, WonMove DEF IInv
<1>2. ASSUME NEW r \in ProdReqs PROVE answer'[r] \subseteq RealBidders(call[r].product)'
  <2>1. CASE answer'[r] = answer[r]
    BY <1>0, <2>1 DEF RealNamesInv
  <2>2. CASE ppc[r] = "ask" /\ answer'[r] = HighestBidder(call[r].product)
    <3>1. InitMember \notin book[call[r].product]
      BY <1>0, <2>2 DEF DummyInv, DummyUnread
    <3> QED
      BY <1>0, <2>2, <3>1, HighestHasBid
  <2> QED
    BY <2>1, <2>2, AnswerMove
<1>3. ASSUME NEW w \in winInbox' PROVE w.winner \subseteq RealBidders(w.product)'
  <2>1. CASE w \in winInbox
    BY <1>0, <2>1 DEF RealNamesInv
  <2>2. ASSUME NEW m \in ProdReqs,
               w = [msg |-> m, product |-> endOf[m], winner |-> {t.user : t \in won[m]}]
        PROVE  w.winner \subseteq RealBidders(w.product)'
    BY <1>0, <2>2 DEF RealNamesInv
  <2> QED
    BY <2>1, <2>2, QueueMove
<1>4. ASSUME NEW p \in Products PROVE product'[p].winner \subseteq RealBidders(p)'
  <2>1. product'[p].winner \subseteq RealBidders(p)
    <3>1. CASE product'[p] = product[p]
      BY <3>1 DEF RealNamesInv
    <3>2. CASE Created(p)
      BY <3>2 DEF Created
    <3>3. CASE WinnerWritten(p)
      BY <3>3 DEF WinnerWritten, RealNamesInv
    <3> QED
      BY <3>1, <3>2, <3>3, HubDocuments, DocumentEffect DEF Changed
  <2> QED
    BY <1>0, <2>1
<1> QED
  BY <1>0, <1>1, <1>2, <1>3, <1>4 DEF RealNamesInv

\* Without faults, when no book is read while the dummy of auction.started is in
\* it, every winner has placed a bid.
THEOREM WinnersHaveBid ==
    ASSUME QuietAssumptions
    PROVE  HubSpec /\ []DummyUnread => []WinnerIsBidder
<1>1. HubInit => DummyInv /\ RealNamesInv
  BY DEF HubInit, Init, P!Init, P!NoDocument, DummyInv, RealNamesInv, QuietAssumptions,
     HubAssumptions, HubAssumption
<1>2. HubInv /\ DummyInv /\ RealNamesInv /\ DummyUnread /\ [HubNext]_hubVars
      => DummyInv' /\ RealNamesInv'
  BY DummyStep, RealNamesStep
<1>3. RealNamesInv => WinnerIsBidder
  BY DEF RealNamesInv, RealBidders, WinnerIsBidder
<1> QED
  BY <1>1, <1>2, <1>3, HubInductive, PTL DEF HubSpec, QuietAssumptions

=============================================================================
