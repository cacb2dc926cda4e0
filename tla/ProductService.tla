--------------------------- MODULE ProductService ---------------------------
(***************************************************************************)
(* The product service (apps/product-service): the product documents in    *)
(* MongoDB, the HTTP requests of the owner (create, update, start-auction, *)
(* end-auction, delete) and the consumers of bid.placed and auction.winner.*)
(*                                                                         *)
(* Every handler reads the document, decides, and later writes it with a   *)
(* findOneAndUpdate whose filter names only the id and deletedAt: null, so *)
(* that anything may happen between its read and its write.                *)
(***************************************************************************)
EXTENDS Naturals, FiniteSets

CONSTANTS
    Products,    \* product ids
    Users,       \* user ids
    Sellers,     \* users whose role is seller in the user service
    Prices,      \* prices a seller may ask
    Amounts,     \* bid amounts
    Bids,        \* bid ids
    ProdReqs,    \* HTTP requests to the service
    CallSets,    \* the assignments of calls to requests to consider
    InitUser,    \* the user part of the dummy member '__init__' of Redis
    WinMsgs,     \* auction.winner messages the standalone spec may deliver
    BidMsgs,     \* bid.placed messages the standalone spec may deliver
    Faults,      \* may requests fail and handlers crash or be dropped?
    MaxCount     \* bound: with faults, no write takes totalBids above it

AuctionStatuses == {"draft", "active", "ended", "cancelled"}

Ops == {"create", "update", "start", "end", "delete"}

\* A request: who asks for what.  price is {} or {startingPrice}; valid says
\* that endTime is after startTime.
Calls == [op : Ops, user : Users, product : Products,
          price : {{}} \cup {{x} : x \in Prices}, valid : BOOLEAN]

\* The payloads of bid.placed and auction.winner; winner {} is null.
BidMessages == [bid : Bids, product : Products, amount : Amounts]

Winners == {{}} \cup {{u} : u \in Users \cup {InitUser}}

WinnerMessages == [msg : ProdReqs, product : Products, winner : Winners]

ASSUME ProductAssumption ==
    /\ Users \subseteq Nat \ {InitUser}
    /\ InitUser \in Nat
    /\ Sellers \subseteq Users
    /\ Prices \subseteq Nat
    /\ Amounts \subseteq Nat
    /\ CallSets \subseteq [ProdReqs -> Calls]
    /\ BidMsgs \subseteq BidMessages
    /\ WinMsgs \subseteq WinnerMessages
    /\ Faults \in BOOLEAN
    /\ MaxCount \in Nat

VARIABLES
    product,    \* the collection: product id |-> its document
    call,       \* request |-> what it asks for; fixed
    ppc,        \* request |-> where its handler is
    answer,     \* request |-> the highest bidder the bidding service named
    bidInbox,   \* queue of bid.placed: messages not yet acknowledged
    bidRead,    \* handlers of bid.placed that have read totalBids
    winInbox,   \* queue of auction.winner: messages not yet acknowledged
    started,    \* auction.started events published, by request
    ended       \* auction.ended events published, by request

docVars   == <<product>>
callVars  == <<ppc, answer>>
queueVars == <<bidInbox, bidRead, winInbox>>
outVars   == <<started, ended>>
pVars     == <<product, call, ppc, answer, queueVars, outVars>>

-----------------------------------------------------------------------------
(* Documents.  life tells a document that does not exist yet and one that  *)
(* is soft deleted from one the repository's filter finds.                 *)

Documents ==
    [life : {"absent", "live", "deleted"}, seller : Users \cup {InitUser},
     status : AuctionStatuses, startingPrice : Nat, currentPrice : Nat,
     totalBids : Nat, winner : Winners]

NoDocument ==
    [life |-> "absent", seller |-> InitUser, status |-> "draft",
     startingPrice |-> 0, currentPrice |-> 0, totalBids |-> 0, winner |-> {}]

\* The filter {_id, deletedAt: null}.  Slip: it forgets deletedAt.
Found_Deleted(p) == product[p].life # "absent"
Found(p) == product[p].life = "live"

\* AUCTION_TRANSITIONS; slip: an ended auction may be started again.
ValidTransition_Restart(from, to) ==
    \/ from \in {"draft", "ended"} /\ to = "active"
    \/ from = "active" /\ to \in {"ended", "cancelled"}
ValidTransition(from, to) ==
    \/ from = "draft" /\ to = "active"
    \/ from = "active" /\ to \in {"ended", "cancelled"}

Owns(r) ==
    /\ Found(call[r].product)
    /\ product[call[r].product].seller = call[r].user

-----------------------------------------------------------------------------
Init ==
    /\ product = [p \in Products |-> NoDocument]
    /\ call \in CallSets
    /\ ppc = [r \in ProdReqs |-> "idle"]
    /\ answer = [r \in ProdReqs |-> {}]
    /\ bidInbox \in SUBSET BidMsgs /\ bidRead = {}
    /\ winInbox \in SUBSET WinMsgs
    /\ started = {} /\ ended = {}

-----------------------------------------------------------------------------
(* HTTP requests.                                                          *)

\* currentPrice of a new product.  Slip: the 0 of the schema's number field.
InitialPrice_Zero(asked) == 0
InitialPrice(asked) == asked

\* createProduct: validateSeller, then save().  The id is new.
CreateProduct(r) ==
    LET c == call[r]
    IN  /\ ppc[r] = "idle" /\ c.op = "create"
        /\ c.user \in Sellers /\ c.price # {}
        /\ product[c.product].life = "absent"
        /\ \E x \in c.price :
               product' = [product EXCEPT ![c.product] =
                   [life |-> "live", seller |-> c.user, status |-> "draft",
                    startingPrice |-> x, currentPrice |-> InitialPrice(x),
                    totalBids |-> 0, winner |-> {}]]
        /\ ppc' = [ppc EXCEPT ![r] = "done"]
        /\ UNCHANGED <<call, answer, queueVars, outVars>>

\* The caller is not a seller.
RefuseProduct(r) ==
    /\ ppc[r] = "idle" /\ call[r].op = "create"
    /\ call[r].user \notin Sellers
    /\ ppc' = [ppc EXCEPT ![r] = "rejected"]
    /\ UNCHANGED <<product, call, answer, queueVars, outVars>>

\* The status a call needs to find.
Allows(op, s) ==
    CASE op = "update" -> s = "draft"
      [] op = "start"  -> ValidTransition(s, "active")
      [] op = "end"    -> ValidTransition(s, "ended")
      [] OTHER         -> FALSE

\* The reads of the controller (the owner) and of the service (the status).
\* The owner never changes, so the two reads are taken as the later one.
CheckProduct(r) ==
    LET c  == call[r]
        ok == Owns(r) /\ Allows(c.op, product[c.product].status)
    IN  /\ ppc[r] = "idle" /\ c.op \in {"update", "start", "end"}
        /\ ppc' = [ppc EXCEPT ![r] =
               IF ~ok \/ (c.op = "start" /\ ~c.valid) THEN "rejected"
               ELSE IF c.op = "end" THEN "ask" ELSE "write"]
        /\ UNCHANGED <<product, call, answer, queueVars, outVars>>

\* The startingPrice of the request's body, if it has one.
Asked(c, old) == IF c.price = {} THEN old ELSE CHOOSE x \in c.price : TRUE

\* The current price that goes with it.  Slip: it is left as it was.
RepricedTo_Kept(c, old) == old
RepricedTo(c, old) == Asked(c, old)

\* updateProduct's write: a new startingPrice is the new currentPrice too.
UpdateProduct(r) ==
    LET c == call[r]
    IN  /\ ppc[r] = "write" /\ c.op = "update"
        /\ IF Found(c.product)
           THEN /\ product' = [product EXCEPT
                       ![c.product].startingPrice = Asked(c, @),
                       ![c.product].currentPrice = RepricedTo(c, @)]
                /\ ppc' = [ppc EXCEPT ![r] = "done"]
           ELSE /\ ppc' = [ppc EXCEPT ![r] = "rejected"]
                /\ UNCHANGED product
        /\ UNCHANGED <<call, answer, queueVars, outVars>>

\* startAuction's write.
StartAuction(r) ==
    LET p == call[r].product
    IN  /\ ppc[r] = "write" /\ call[r].op = "start"
        /\ IF Found(p)
           THEN /\ product' = [product EXCEPT ![p].status = "active"]
                /\ ppc' = [ppc EXCEPT ![r] = "publish"]
           ELSE /\ ppc' = [ppc EXCEPT ![r] = "rejected"]
                /\ UNCHANGED product
        /\ UNCHANGED <<call, answer, queueVars, outVars>>

\* endAuction asks the bidding service for the highest bid; the answer names
\* its user, {} when there is none.
AskWinner(r, w) ==
    /\ ppc[r] = "ask"
    /\ answer' = [answer EXCEPT ![r] = w]
    /\ ppc' = [ppc EXCEPT ![r] = "write"]
    /\ UNCHANGED <<product, call, queueVars, outVars>>

\* setWinner, or updateAuctionStatus without a winner, which keeps the one the
\* document has.  Slips: a null winner overwrites it; the first one stays.
WinnerAfter_Clears(p, w) == w
WinnerAfter_First(p, w) == IF product[p].winner = {} THEN w ELSE product[p].winner
WinnerAfter(p, w) == IF w = {} THEN product[p].winner ELSE w

\* Slip: a BidStatus instead of a constant of AUCTION_STATUS.
EndedStatus_Bid == "winner"
EndedStatus == "ended"

SetEnded(p, w) ==
    product' = [product EXCEPT ![p].status = EndedStatus,
                               ![p].winner = WinnerAfter(p, w)]

\* endAuction's write.
EndAuction(r) ==
    LET p == call[r].product
    IN  /\ ppc[r] = "write" /\ call[r].op = "end"
        /\ IF Found(p)
           THEN /\ SetEnded(p, answer[r])
                /\ ppc' = [ppc EXCEPT ![r] = "publish"]
           ELSE /\ ppc' = [ppc EXCEPT ![r] = "rejected"]
                /\ UNCHANGED product
        /\ UNCHANGED <<call, answer, queueVars, outVars>>

\* auction.started and auction.ended.  A publish that throws is caught: the
\* request succeeds and the event is lost.
PublishAuction(r) ==
    /\ ppc[r] = "publish"
    /\ ppc' = [ppc EXCEPT ![r] = "done"]
    /\ \/ /\ call[r].op = "start" /\ started' = started \cup {r}
          /\ UNCHANGED ended
       \/ /\ call[r].op = "end" /\ ended' = ended \cup {r}
          /\ UNCHANGED started
       \/ Faults /\ UNCHANGED outVars
    /\ UNCHANGED <<product, call, answer, queueVars>>

\* deleteProduct: softDelete, in any status.
DeleteProduct(r) ==
    LET p == call[r].product
    IN  /\ ppc[r] = "idle" /\ call[r].op = "delete"
        /\ IF Owns(r)
           THEN /\ product' = [product EXCEPT ![p].life = "deleted"]
                /\ ppc' = [ppc EXCEPT ![r] = "done"]
           ELSE /\ ppc' = [ppc EXCEPT ![r] = "rejected"]
                /\ UNCHANGED product
        /\ UNCHANGED <<call, answer, queueVars, outVars>>

\* The request dies between two steps (MongoDB or the bidding service answers
\* with an error, or the process stops).
FailCall(r) ==
    /\ Faults
    /\ ppc[r] \in {"ask", "write", "publish"}
    /\ ppc' = [ppc EXCEPT ![r] = "lost"]
    /\ UNCHANGED <<product, call, answer, queueVars, outVars>>

-----------------------------------------------------------------------------
(* Consumers.  RabbitMQService.subscribe sets no prefetch and does not wait *)
(* for one handler before it starts the next: any message of the queue may  *)
(* be at any step.  A message leaves its queue with the ack that follows    *)
(* the handler's last step, unless the process stops in between.            *)

Acknowledged(queue, m) == {queue \ {m}} \cup IF Faults THEN {queue} ELSE {}

\* handleBidPlaced: findById, which may find nothing to do ...
ReadForBid(m) ==
    /\ m \in bidInbox
    /\ \A h \in bidRead : h.msg # m
    /\ IF Found(m.product)
       THEN /\ bidRead' = bidRead \cup
                   {[msg |-> m, count |-> product[m.product].totalBids]}
            /\ UNCHANGED bidInbox
       ELSE /\ bidInbox' \in Acknowledged(bidInbox, m)
            /\ UNCHANGED bidRead
    /\ UNCHANGED <<product, call, callVars, winInbox, outVars>>

\* ... then updateBidInfo(amount, totalBids + 1), with the count it read.
\* Slip: the counter goes up by the price.
NextCount_Amount(h) == h.count + h.msg.amount
NextCount(h) == h.count + 1

WriteBidInfo(h) ==
    LET p == h.msg.product
    IN  /\ h \in bidRead
        /\ Faults => h.count < MaxCount
        /\ product' = IF Found(p)
                      THEN [product EXCEPT ![p].currentPrice = h.msg.amount,
                                           ![p].totalBids = NextCount(h)]
                      ELSE product
        /\ bidRead' = bidRead \ {h}
        /\ bidInbox' \in Acknowledged(bidInbox, h.msg)
        /\ UNCHANGED <<call, callVars, winInbox, outVars>>

\* handleAuctionWinner, in one write.
ApplyWinner(m) ==
    /\ m \in winInbox
    /\ IF Found(m.product) THEN SetEnded(m.product, m.winner)
                           ELSE UNCHANGED product
    /\ winInbox' \in Acknowledged(winInbox, m)
    /\ UNCHANGED <<call, callVars, bidInbox, bidRead, outVars>>

\* The process stops: what was not acknowledged is delivered again.
RestartConsumers ==
    /\ Faults
    /\ bidRead' = {}
    /\ UNCHANGED <<product, call, callVars, bidInbox, winInbox, outVars>>

\* A handler throws: nack without requeue, the message is gone.
DropMessage ==
    /\ Faults
    /\ \/ \E m \in bidInbox : /\ bidInbox' = bidInbox \ {m}
                               /\ bidRead' = {h \in bidRead : h.msg # m}
                               /\ UNCHANGED winInbox
       \/ \E m \in winInbox : /\ winInbox' = winInbox \ {m}
                               /\ UNCHANGED <<bidInbox, bidRead>>
    /\ UNCHANGED <<product, call, callVars, outVars>>

-----------------------------------------------------------------------------
(* The standalone specification: the queues hold whatever the bidding      *)
(* service may publish, and it names any winner.                           *)

WriteStep(r) ==
    \/ UpdateProduct(r) \/ StartAuction(r) \/ EndAuction(r) \/ PublishAuction(r)

CallStep(r) ==
    \/ CreateProduct(r) \/ RefuseProduct(r) \/ CheckProduct(r) \/ WriteStep(r)
    \/ DeleteProduct(r)

ConsumerStep ==
    \/ \E m \in bidInbox : ReadForBid(m)
    \/ \E h \in bidRead : WriteBidInfo(h)
    \/ \E m \in winInbox : ApplyWinner(m)

ProductFault ==
    \/ \E r \in ProdReqs : FailCall(r)
    \/ RestartConsumers
    \/ DropMessage

Next ==
    \/ \E r \in ProdReqs : CallStep(r) \/ \E w \in Winners : AskWinner(r, w)
    \/ ConsumerStep
    \/ ProductFault

Spec == Init /\ [][Next]_pVars

-----------------------------------------------------------------------------
(* What is checked.                                                        *)

CallPCs == {"idle", "ask", "write", "publish", "done", "rejected", "lost"}

\* Every variable holds a value of its kind: a document's status and winner are
\* those of the schema, and the queues hold messages of their exchange.
TypeOK ==
    /\ product \in [Products -> Documents]
    /\ call \in [ProdReqs -> Calls]
    /\ ppc \in [ProdReqs -> CallPCs]
    /\ answer \in [ProdReqs -> Winners]
    /\ bidInbox \subseteq BidMessages
    /\ bidRead \subseteq [msg : BidMessages, count : Nat]
    /\ winInbox \subseteq WinnerMessages
    /\ started \subseteq ProdReqs
    /\ ended \subseteq ProdReqs

\* A deleted product is never touched again, although requests and messages
\* that saw it alive are still to write it.
DeletedIsFrozen ==
    [][\A p \in Products : product[p].life = "deleted" =>
                            product'[p] = product[p]]_pVars

\* No step, however late its read, returns a product to draft or takes away
\* its winner; another winner may replace it.
NoWayBack ==
    [][\A p \in Products :
           /\ product[p].status # "draft" => product'[p].status # "draft"
           /\ product[p].winner # {} => product'[p].winner # {}]_pVars

Starts(p) == {r \in ProdReqs : call[r].op = "start" /\ call[r].product = p}

\* Once one start-auction has written its product, no other one that is sent
\* later is let through, whatever was written in between: a product is started
\* twice only by requests that overlap.
LaterStartRefused ==
    [][\A p \in Products : \A r, s \in Starts(p) :
           ppc[r] \in {"publish", "done"} /\ ppc[s] = "idle"
           => ppc'[s] \in {"idle", "rejected"}]_pVars

\* The invariant behind NoWayBack and LaterStartRefused: a product that does not
\* exist yet has no history, and one that was started has left draft.
AbsentInv == \A p \in Products : product[p].life = "absent" => product[p] = NoDocument

StartedInv ==
    \A p \in Products : \A r \in Starts(p) :
        ppc[r] \in {"publish", "done"} => product[p].status # "draft"

PInv == TypeOK /\ AbsentInv /\ StartedInv

\* The lifecycle draft, active, ended.
Rank(s) == CASE s = "draft" -> 0 [] s = "active" -> 1 [] OTHER -> 2

LifecycleForward ==
    [][\A p \in Products :
           Rank(product[p].status) <= Rank(product'[p].status)]_pVars

\* The condition under which the lifecycle holds all the same: no two requests
\* to start a product are between the check of its status and the write at once.
StartsApart ==
    \A p \in Products : \A q, r \in Starts(p) :
        ppc[q] = "write" /\ ppc[r] = "write" => q = r

\* A start-auction that is alone still finds the draft it was let through for; it
\* asks nobody in between.
DraftInv ==
    \A p \in Products : \A r \in Starts(p) :
        /\ ppc[r] # "ask"
        /\ ppc[r] = "write" => product[p].status = "draft"

=============================================================================
