--------------------------- MODULE ProductProofs ---------------------------
(***************************************************************************)
(* Theorems about ProductService for every set of products, users, prices, *)
(* requests and messages, with and without faults.                         *)
(***************************************************************************)
EXTENDS ProductService, TLAPS

USE DEF docVars, callVars, queueVars, outVars

-----------------------------------------------------------------------------
(* Documents.                                                              *)

\* What a write puts in a document is of the document's kind.
LEMMA DocumentTyped ==
    ASSUME NEW d \in Documents
    PROVE  /\ \A s \in AuctionStatuses : [d EXCEPT !.status = s] \in Documents
           /\ \A s \in AuctionStatuses, w \in Winners :
                  [d EXCEPT !.status = s, !.winner = w] \in Documents
           /\ \A x, y \in Nat :
                  /\ [d EXCEPT !.startingPrice = x, !.currentPrice = y] \in Documents
                  /\ [d EXCEPT !.currentPrice = x, !.totalBids = y] \in Documents
           /\ [d EXCEPT !.life = "deleted"] \in Documents
BY DEF Documents

LEMMA AskedTyped ==
    ASSUME ProductAssumption, NEW c \in Calls, NEW old \in Nat
    PROVE  Asked(c, old) \in Nat
<1>1. CASE c.price = {}
  BY <1>1 DEF Asked
<1>2. CASE c.price # {}
  <2>1. PICK x \in Prices : c.price = {x}
    BY <1>2 DEF Calls
  <2>2. (CHOOSE y \in c.price : TRUE) = x
    BY <2>1
  <2> QED
    BY <1>2, <2>1, <2>2 DEF Asked, ProductAssumption
<1> QED
  BY <1>1, <1>2

LEMMA SetEndedTyped ==
    ASSUME TypeOK, NEW p \in Products, NEW w \in Winners, SetEnded(p, w)
    PROVE  /\ product' \in [Products -> Documents]
           /\ product' = [product EXCEPT ![p] = [product[p] EXCEPT
                 !.status = "ended", !.winner = WinnerAfter(p, w)]]
<1>1. WinnerAfter(p, w) \in Winners
  BY DEF WinnerAfter, TypeOK, Documents
<1>2. product' = [product EXCEPT ![p] = [product[p] EXCEPT
                    !.status = "ended", !.winner = WinnerAfter(p, w)]]
  BY DEF SetEnded, EndedStatus, TypeOK
<1>3. [product[p] EXCEPT !.status = "ended", !.winner = WinnerAfter(p, w)] \in Documents
  BY <1>1, DocumentTyped DEF TypeOK, AuctionStatuses
<1> QED
  BY <1>2, <1>3 DEF TypeOK

-----------------------------------------------------------------------------
(* Type correctness.                                                       *)

LEMMA InitType == ASSUME ProductAssumption, Init PROVE TypeOK
BY DEF Init, ProductAssumption, TypeOK, Documents, NoDocument, CallPCs, Winners,
   AuctionStatuses

\* Requests.
LEMMA CallType ==
    ASSUME ProductAssumption, TypeOK, NEW r \in ProdReqs,
           CallStep(r) \/ (\E w \in Winners : AskWinner(r, w)) \/ FailCall(r)
    PROVE  TypeOK'
<1> USE DEF TypeOK
<1> DEFINE p == call[r].product
<1>0. call[r] \in Calls /\ p \in Products /\ product[p] \in Documents
  BY DEF Calls
<1>1. CASE CreateProduct(r)
  <2>1. PICK x \in call[r].price :
           product' = [product EXCEPT ![p] =
                   [life |-> "live", seller |-> call[r].user, status |-> "draft",
                    startingPrice |-> x, currentPrice |-> InitialPrice(x),
                    totalBids |-> 0, winner |-> {}]]
    BY <1>1 DEF CreateProduct
  <2>2. x \in Nat /\ call[r].user \in Users
    BY <1>0, <2>1 DEF Calls, ProductAssumption
  <2>3. [life |-> "live", seller |-> call[r].user, status |-> "draft",
         startingPrice |-> x, currentPrice |-> InitialPrice(x),
         totalBids |-> 0, winner |-> {}] \in Documents
    BY <2>2 DEF Documents, AuctionStatuses, Winners, InitialPrice
  <2> QED
    BY <1>0, <1>1, <2>1, <2>3 DEF CreateProduct, CallPCs
<1>2. CASE RefuseProduct(r)
  BY <1>2 DEF RefuseProduct, CallPCs
<1>3. CASE CheckProduct(r)
  BY <1>3 DEF CheckProduct, CallPCs
<1>4. CASE UpdateProduct(r)
  <2>1. CASE Found(p)
    <3>1. product' = [product EXCEPT ![p] = [product[p] EXCEPT
                 !.startingPrice = Asked(call[r], product[p].startingPrice),
                 !.currentPrice = RepricedTo(call[r], product[p].currentPrice)]]
      BY <1>0, <1>4, <2>1 DEF UpdateProduct
    <3>2. /\ Asked(call[r], product[p].startingPrice) \in Nat
          /\ RepricedTo(call[r], product[p].currentPrice) \in Nat
      BY <1>0, AskedTyped DEF RepricedTo, Documents
    <3> QED
      BY <1>0, <1>4, <2>1, <3>1, <3>2, DocumentTyped DEF UpdateProduct, CallPCs
  <2>2. CASE ~Found(p)
    BY <1>4, <2>2 DEF UpdateProduct, CallPCs
  <2> QED
    BY <2>1, <2>2
<1>5. CASE StartAuction(r)
  <2>1. [product[p] EXCEPT !.status = "active"] \in Documents
    BY <1>0, DocumentTyped DEF AuctionStatuses
  <2> QED
    BY <1>0, <1>5, <2>1 DEF StartAuction, CallPCs
<1>6. CASE EndAuction(r)
  BY <1>0, <1>6, SetEndedTyped DEF EndAuction, CallPCs
<1>7. CASE PublishAuction(r)
  BY <1>7 DEF PublishAuction, CallPCs
<1>8. CASE DeleteProduct(r)
  BY <1>0, <1>8, DocumentTyped DEF DeleteProduct, CallPCs
<1>9. ASSUME NEW w \in Winners, AskWinner(r, w) PROVE TypeOK'
  BY <1>9 DEF AskWinner, CallPCs
<1>10. CASE FailCall(r)
  BY <1>10 DEF FailCall, CallPCs
<1> QED
  BY <1>1, <1>2, <1>3, <1>4, <1>5, <1>6, <1>7, <1>8, <1>9, <1>10 DEF CallStep, WriteStep

\* Consumers.
LEMMA ConsumerType ==
    ASSUME ProductAssumption, TypeOK, ConsumerStep \/ RestartConsumers \/ DropMessage
    PROVE  TypeOK'
<1> USE DEF TypeOK
<1>1. ASSUME NEW m \in bidInbox, ReadForBid(m) PROVE TypeOK'
  <2>1. m \in BidMessages /\ m.product \in Products
    BY DEF BidMessages
  <2>2. product[m.product].totalBids \in Nat
    BY <2>1 DEF Documents
  <2> QED
    BY <1>1, <2>1, <2>2 DEF ReadForBid, Acknowledged
<1>2. ASSUME NEW h \in bidRead, WriteBidInfo(h) PROVE TypeOK'
  <2>1. h.msg \in BidMessages /\ h.count \in Nat
    OBVIOUS
  <2>2. h.msg.product \in Products /\ h.msg.amount \in Nat
    BY <2>1 DEF BidMessages, ProductAssumption
  <2>3. product' \in [Products -> Documents]
    <3>1. CASE Found(h.msg.product)
      <4>1. product' = [product EXCEPT ![h.msg.product] =
                [product[h.msg.product] EXCEPT !.currentPrice = h.msg.amount,
                                               !.totalBids = NextCount(h)]]
        BY <1>2, <2>2, <3>1 DEF WriteBidInfo
      <4>2. NextCount(h) \in Nat /\ product[h.msg.product] \in Documents
        BY <2>1, <2>2 DEF NextCount
      <4>3. [product[h.msg.product] EXCEPT !.currentPrice = h.msg.amount,
                                           !.totalBids = NextCount(h)] \in Documents
        BY <2>2, <4>2, DocumentTyped
      <4> QED
        BY <2>2, <4>1, <4>3
    <3>2. CASE ~Found(h.msg.product)
      BY <1>2, <3>2 DEF WriteBidInfo
    <3> QED
      BY <3>1, <3>2
  <2> QED
    BY <1>2, <2>3 DEF WriteBidInfo, Acknowledged
<1>3. ASSUME NEW m \in winInbox, ApplyWinner(m) PROVE TypeOK'
  <2>1. m.product \in Products /\ m.winner \in Winners
    BY DEF WinnerMessages
  <2>2. product' \in [Products -> Documents]
    BY <1>3, <2>1, SetEndedTyped DEF ApplyWinner
  <2> QED
    BY <1>3, <2>2 DEF ApplyWinner, Acknowledged
<1>4. CASE RestartConsumers \/ DropMessage
  BY <1>4 DEF RestartConsumers, DropMessage
<1> QED
  BY <1>1, <1>2, <1>3, <1>4 DEF ConsumerStep

LEMMA NextType == ASSUME ProductAssumption, TypeOK, [Next]_pVars PROVE TypeOK'
<1>1. CASE UNCHANGED pVars
  BY <1>1 DEF pVars, TypeOK
<1>2. CASE Next
  BY <1>2, CallType, ConsumerType DEF Next, ProductFault
<1> QED
  BY <1>1, <1>2

\* Every variable holds a value of its kind in every reachable state.
THEOREM TypeCorrect == ASSUME ProductAssumption PROVE Spec => []TypeOK
<1>1. Init => TypeOK
  BY InitType
<1>2. TypeOK /\ [Next]_pVars => TypeOK'
  BY NextType
<1> QED
  BY <1>1, <1>2, PTL DEF Spec


-----------------------------------------------------------------------------
(* What a step does to a document and to a request.                        *)

\* A step leaves a document alone, creates it, or changes a live one: then the
\* status stays or moves to active or ended, and a winner is not taken away.
DocumentMove(p) ==
    \/ product'[p] = product[p]
    \/ /\ product[p].life = "absent"
       /\ product'[p].life = "live"
    \/ /\ product[p].life = "live"
       /\ product'[p].life \in {"live", "deleted"}
       /\ product'[p].status \in {product[p].status, "active", "ended"}
       /\ product[p].winner # {} => product'[p].winner # {}

\* Ending an auction is such a change.
LEMMA EndedMoves ==
    ASSUME TypeOK, NEW q \in Products, NEW w \in Winners, Found(q), SetEnded(q, w),
           NEW p \in Products
    PROVE  DocumentMove(p)
<1>1. product' = [product EXCEPT ![q] = [product[q] EXCEPT
                 !.status = "ended", !.winner = WinnerAfter(q, w)]]
  BY SetEndedTyped
<1>2. product[q] \in Documents /\ product \in [Products -> Documents]
  BY DEF TypeOK
<1>3. CASE p = q
  <2>1. /\ product'[p].life = product[p].life
        /\ product'[p].status = "ended"
        /\ product'[p].winner = WinnerAfter(p, w)
    BY <1>1, <1>2, <1>3 DEF Documents
  <2> QED
    BY <2>1, <1>3 DEF DocumentMove, Found, WinnerAfter
<1>4. CASE p # q
  BY <1>1, <1>2, <1>4 DEF DocumentMove
<1> QED
  BY <1>3, <1>4

LEMMA DocumentMoves ==
    ASSUME TypeOK, Next, NEW p \in Products
    PROVE  DocumentMove(p)
<1> USE DEF TypeOK
<1>0. product[p] \in Documents
  OBVIOUS
<1>1. ASSUME NEW r \in ProdReqs, CreateProduct(r) PROVE DocumentMove(p)
  BY <1>0, <1>1 DEF CreateProduct, DocumentMove, Calls
<1>2. ASSUME NEW r \in ProdReqs, UpdateProduct(r) PROVE DocumentMove(p)
  BY <1>0, <1>2 DEF UpdateProduct, DocumentMove, Documents, Calls, Found
<1>3. ASSUME NEW r \in ProdReqs, StartAuction(r) PROVE DocumentMove(p)
  BY <1>0, <1>3 DEF StartAuction, DocumentMove, Documents, Calls, Found
<1>4. ASSUME NEW r \in ProdReqs, EndAuction(r) PROVE DocumentMove(p)
  <2>1. call[r].product \in Products /\ answer[r] \in Winners
    BY DEF Calls
  <2> QED
    BY <1>4, <2>1, EndedMoves DEF EndAuction, DocumentMove
<1>5. ASSUME NEW r \in ProdReqs, DeleteProduct(r) PROVE DocumentMove(p)
  BY <1>0, <1>5 DEF DeleteProduct, Owns, DocumentMove, Documents, Calls, Found
<1>6. ASSUME NEW h \in bidRead, WriteBidInfo(h) PROVE DocumentMove(p)
  BY <1>0, <1>6 DEF WriteBidInfo, DocumentMove, Documents, Found, BidMessages
<1>7. ASSUME NEW m \in winInbox, ApplyWinner(m) PROVE DocumentMove(p)
  <2>1. m.product \in Products /\ m.winner \in Winners
    BY DEF WinnerMessages
  <2> QED
    BY <1>7, <2>1, EndedMoves DEF ApplyWinner, DocumentMove
<1>8. ASSUME UNCHANGED product PROVE DocumentMove(p)
  BY <1>8 DEF DocumentMove
<1> QED
  BY <1>1, <1>2, <1>3, <1>4, <1>5, <1>6, <1>7, <1>8
     DEF Next, CallStep, WriteStep, ConsumerStep, ProductFault, RefuseProduct,
         CheckProduct, PublishAuction, AskWinner, ReadForBid, FailCall,
         RestartConsumers, DropMessage

\* Where a start-auction request may go: it is let through in draft only, and
\* it writes active before it publishes.
LEMMA StartMoves ==
    ASSUME TypeOK, Next, NEW p \in Products, NEW r \in Starts(p)
    PROVE  /\ UNCHANGED call
           /\ ppc[r] = "idle" => \/ ppc'[r] \in {"idle", "rejected"}
                                 \/ ppc'[r] = "write" /\ product[p].status = "draft"
           /\ ppc'[r] \in {"publish", "done"} =>
                  \/ ppc[r] \in {"publish", "done"}
                  \/ product'[p].status = "active"
<1> USE DEF TypeOK, Starts
<1>1. UNCHANGED call
  BY DEF Next, CallStep, WriteStep, ConsumerStep, ProductFault, CreateProduct,
     RefuseProduct, CheckProduct, UpdateProduct, StartAuction, EndAuction,
     PublishAuction, DeleteProduct, AskWinner, ReadForBid, WriteBidInfo, ApplyWinner,
     FailCall, RestartConsumers, DropMessage
<1>2. CASE CheckProduct(r)
  BY <1>1, <1>2 DEF CheckProduct, Allows, ValidTransition
<1>3. CASE StartAuction(r)
  <2>1. CASE Found(p)
    <3>1. product' = [product EXCEPT ![p].status = "active"] /\ ppc[r] = "write"
      BY <1>3, <2>1 DEF StartAuction
    <3>2. product'[p].status = "active"
      BY <3>1 DEF Documents
    <3> QED
      BY <1>1, <3>1, <3>2
  <2>2. CASE ~Found(p)
    BY <1>1, <1>3, <2>2 DEF StartAuction
  <2> QED
    BY <2>1, <2>2
<1>4. CASE PublishAuction(r) \/ FailCall(r)
  BY <1>1, <1>4 DEF PublishAuction, FailCall
<1>5. CASE \E w \in Winners : AskWinner(r, w)
  BY <1>1, <1>5 DEF AskWinner
<1>6. CASE ppc'[r] = ppc[r]
  BY <1>1, <1>6
<1>7. ASSUME ~CheckProduct(r), ~StartAuction(r), ~PublishAuction(r), ~FailCall(r),
             ~(\E w \in Winners : AskWinner(r, w))
      PROVE  ppc'[r] = ppc[r]
  <2>1. ASSUME NEW q \in ProdReqs, q # r,
               CallStep(q) \/ FailCall(q) \/ \E w \in Winners : AskWinner(q, w)
        PROVE  ppc'[r] = ppc[r]
    BY <2>1 DEF CallStep, WriteStep, CreateProduct, RefuseProduct, CheckProduct,
       UpdateProduct, StartAuction, EndAuction, PublishAuction, DeleteProduct,
       AskWinner, FailCall
  <2>2. ~CallStep(r)
    BY <1>7 DEF CallStep, WriteStep, CreateProduct, RefuseProduct, UpdateProduct,
       EndAuction, DeleteProduct
  <2>3. ASSUME ConsumerStep \/ RestartConsumers \/ DropMessage
        PROVE  ppc'[r] = ppc[r]
    BY <2>3 DEF ConsumerStep, ReadForBid, WriteBidInfo, ApplyWinner, RestartConsumers,
       DropMessage
  <2> QED
    BY <1>7, <2>1, <2>2, <2>3 DEF Next, ProductFault
<1> QED
  BY <1>2, <1>3, <1>4, <1>5, <1>6, <1>7

-----------------------------------------------------------------------------
(* The inductive invariant and the action properties.                      *)

LEMMA InitPInv == ASSUME ProductAssumption, Init PROVE PInv
<1>1. AbsentInv
  BY DEF Init, AbsentInv
<1>2. StartedInv
  BY DEF Init, StartedInv, Starts
<1> QED
  BY <1>1, <1>2, InitType DEF PInv

LEMMA NextPInv == ASSUME ProductAssumption, PInv, [Next]_pVars PROVE PInv'
<1>1. TypeOK'
  BY NextType DEF PInv
<1>2. CASE UNCHANGED pVars
  BY <1>1, <1>2 DEF pVars, PInv, AbsentInv, StartedInv, Starts
<1>3. CASE Next
  <2>1. AbsentInv'
    BY <1>3, DocumentMoves DEF PInv, AbsentInv, DocumentMove
  <2>2. ASSUME NEW p \in Products, NEW r \in Starts(p)', ppc'[r] \in {"publish", "done"}
        PROVE  product'[p].status # "draft"
    <3>1. r \in Starts(p)
      BY <1>3, <2>2 DEF Starts, Next, CallStep, WriteStep, ConsumerStep, ProductFault,
         CreateProduct, RefuseProduct, CheckProduct, UpdateProduct, StartAuction,
         EndAuction, PublishAuction, DeleteProduct, AskWinner, ReadForBid, WriteBidInfo,
         ApplyWinner, FailCall, RestartConsumers, DropMessage
    <3>2. CASE product'[p].status = "active"
      BY <3>2
    <3>3. CASE ppc[r] \in {"publish", "done"}
      <4>1. product[p].status # "draft"
        BY <3>1, <3>3 DEF PInv, StartedInv
      <4>2. product[p].life # "absent"
        BY <4>1 DEF PInv, AbsentInv, NoDocument
      <4> QED
        BY <1>3, <4>1, <4>2, DocumentMoves DEF PInv, DocumentMove
    <3> QED
      BY <1>3, <2>2, <3>1, <3>2, <3>3, StartMoves DEF PInv
  <2> QED
    BY <1>1, <2>1, <2>2 DEF PInv, StartedInv
<1> QED
  BY <1>2, <1>3

\* PInv holds in every reachable state: a product that does not exist yet has no
\* history, and one that some start has written has left draft.
THEOREM Inductive == ASSUME ProductAssumption PROVE Spec => []PInv
<1>1. Init => PInv
  BY InitPInv
<1>2. PInv /\ [Next]_pVars => PInv'
  BY NextPInv
<1> QED
  BY <1>1, <1>2, PTL DEF Spec

\* No step touches a deleted product, however late its write comes.
THEOREM DeletedStays == ASSUME ProductAssumption PROVE Spec => DeletedIsFrozen
<1>1. ASSUME PInv, [Next]_pVars, NEW p \in Products, product[p].life = "deleted"
      PROVE  product'[p] = product[p]
  <2>1. CASE Next
    BY <1>1, <2>1, DocumentMoves DEF PInv, DocumentMove
  <2> QED
    BY <1>1, <2>1 DEF pVars
<1>2. PInv /\ [Next]_pVars =>
        [\A p \in Products : product[p].life = "deleted" => product'[p] = product[p]]_pVars
  BY <1>1
<1> QED
  BY <1>2, Inductive, PTL DEF Spec, DeletedIsFrozen

\* No step returns a product to draft or takes away its winner.
THEOREM NoStepBack == ASSUME ProductAssumption PROVE Spec => NoWayBack
<1>1. ASSUME PInv, [Next]_pVars, NEW p \in Products
      PROVE  /\ product[p].status # "draft" => product'[p].status # "draft"
             /\ product[p].winner # {} => product'[p].winner # {}
  <2>1. CASE Next
    <3>1. product[p].life = "absent" => product[p].status = "draft" /\ product[p].winner = {}
      BY <1>1 DEF PInv, AbsentInv, NoDocument
    <3> QED
      BY <1>1, <2>1, <3>1, DocumentMoves DEF PInv, DocumentMove
  <2> QED
    BY <1>1, <2>1 DEF pVars
<1>2. PInv /\ [Next]_pVars =>
        [\A p \in Products :
           /\ product[p].status # "draft" => product'[p].status # "draft"
           /\ product[p].winner # {} => product'[p].winner # {}]_pVars
  BY <1>1
<1> QED
  BY <1>2, Inductive, PTL DEF Spec, NoWayBack

\* A start-auction sent after another one wrote the product is refused.
THEOREM LaterStartLoses == ASSUME ProductAssumption PROVE Spec => LaterStartRefused
<1>1. ASSUME PInv, [Next]_pVars, NEW p \in Products, NEW r \in Starts(p),
             NEW s \in Starts(p), ppc[r] \in {"publish", "done"}, ppc[s] = "idle"
      PROVE  ppc'[s] \in {"idle", "rejected"}
  <2>1. product[p].status # "draft"
    BY <1>1 DEF PInv, StartedInv
  <2>2. CASE Next
    BY <1>1, <2>1, <2>2, StartMoves DEF PInv
  <2> QED
    BY <1>1, <2>2 DEF pVars
<1>2. PInv /\ [Next]_pVars =>
        [\A p \in Products : \A r, s \in Starts(p) :
           ppc[r] \in {"publish", "done"} /\ ppc[s] = "idle"
           => ppc'[s] \in {"idle", "rejected"}]_pVars
  BY <1>1
<1> QED
  BY <1>2, Inductive, PTL DEF Spec, LaterStartRefused

=============================================================================
