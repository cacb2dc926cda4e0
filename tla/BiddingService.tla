--------------------------- MODULE BiddingService ---------------------------
(***************************************************************************)
(* The bidding service (apps/bidding-service): the Redis store of bids,    *)
(* the steps of POST /bids (BidService.placeBid) and the two consumers it  *)
(* runs (auction.started and auction.ended).                               *)
(*                                                                         *)
(* A request or a handler is a sequence of steps, one for each await whose *)
(* effect or answer another request can tell apart.  Commands that commute *)
(* with everything the others do are merged, and each merge is argued      *)
(* where it is made.  The product service appears only as the answer       *)
(* `view' of GET /products/:id, so what holds here holds whatever the      *)
(* product service answers; AuctionHub supplies the real one.              *)
(***************************************************************************)
EXTENDS Naturals, Sequences

CONSTANTS
    Products,    \* product ids
    Users,       \* user ids, numbered in the lexicographic order of Redis
    Buyers,      \* users whose token says buyer
    Amounts,     \* bid amounts (IsPositive in CreateBidDto)
    Stamps,      \* readings of Date.now()
    BidReqs,     \* POST /bids requests; each names the bidId it will mint
    BodySets,    \* the assignments of bodies to them to consider
    StartMsgs,   \* auction.started messages
    EndMsgs,     \* auction.ended messages
    Views,       \* answers of GET /products/:id the standalone spec allows
    Faults       \* may requests fail and handlers crash or be dropped?

InitUser == 0    \* the user part of the dummy member '__init__'

Statuses == {"draft", "active", "ended", "cancelled"}

ProductViews ==
    [found : BOOLEAN, status : Statuses, seller : Users,
     currentPrice : Nat, startingPrice : Nat]

\* Members of the sorted set bids:{productId}: `${userId}:${amount}:${ts}`.
Members ==
    [user : Users \cup {InitUser}, amount : Amounts \cup {0},
     ts : Stamps \cup {0}]

InitMember == [user |-> InitUser, amount |-> 0, ts |-> 0]

Bodies == [user : Users, product : Products, amount : Amounts, ts : Stamps]

ASSUME BiddingAssumption ==
    /\ Users \subseteq Nat \ {InitUser}
    /\ Buyers \subseteq Users
    /\ Amounts \subseteq Nat \ {0}
    /\ Stamps \subseteq Nat
    /\ BodySets \subseteq [BidReqs -> Bodies]
    /\ Views \subseteq ProductViews
    /\ Faults \in BOOLEAN

VARIABLES
    body,        \* request |-> the bid it asks for (and its clock reading)
    startOf,     \* auction.started message |-> the product it names
    endOf,       \* auction.ended message |-> the product it names
    pc,          \* request |-> where placeBid is
    prior,       \* request |-> history: {} or {bids stored when it read the highest}
    beaten,      \* request |-> the highest member it read: {} or {member}
    todo,        \* request |-> members markOtherBidsAsOutbid has to look up
    marks,       \* request |-> bids it found active and will mark outbid
    status,      \* bid:{bidId}: "none" when the key does not exist
    book,        \* bids:{productId}: sorted set, as its set of members
    userBids,    \* user:bids:{userId}: the list, oldest first
    bidExpires,  \* bid keys that carry a TTL
    bookExpires, \* products whose sorted set carries a TTL
    startPc,     \* auction.started message |-> where its handler is
    endPc,       \* auction.ended message |-> where its handler is
    won,         \* auction.ended message |-> highest member read: {} or {m}
    wonBid,      \* auction.ended message |-> the bid found for it: {} or {b}
    seen,        \* auction.ended message |-> history: bids stored at that read
    aging,       \* auction.ended message |-> bid keys it is about to EXPIRE
    bidPlaced,   \* bid.placed events published
    bidOutbid,   \* bid.outbid events published
    auctionWinner \* auction.winner events published

reqVars   == <<pc, prior, beaten, todo, marks>>
storeVars == <<status, book, userBids, bidExpires, bookExpires>>
inputVars == <<body, startOf, endOf>>  \* fixed when the request is sent
handVars  == <<startPc, endPc, won, wonBid, seen, aging>>
eventVars == <<bidPlaced, bidOutbid, auctionWinner>>
bVars     == <<inputVars, reqVars, storeVars, handVars, eventVars>>

-----------------------------------------------------------------------------
(* Reading the store.                                                      *)

Member(r) == [user |-> body[r].user, amount |-> body[r].amount,
              ts |-> body[r].ts]

Stored(p) == {r \in BidReqs : status[r] # "none" /\ body[r].product = p}

\* ZREVRANGE order: by score, equal scores by the bytes of the member.
Above(m, n) ==
    \/ m.amount > n.amount
    \/ m.amount = n.amount /\ m.user > n.user
    \/ m.amount = n.amount /\ m.user = n.user /\ m.ts > n.ts

\* The first member of ZREVRANGE: {} for an empty set (null in the code).
\* Slip: ZRANGE, which starts from the lowest.
Tops_Zrange(S) == {m \in S : \A n \in S \ {m} : Above(n, m)}
Tops(S) == {m \in S : \A n \in S \ {m} : Above(m, n)}

\* A member is looked up in its user's list, most recent bid first, by product
\* and amount.  {} is the fallback: a bidId made up from the member, which is
\* no key of the store.
Hits(p, m, L) ==
    {i \in DOMAIN L : body[L[i]].product = p /\ body[L[i]].amount = m.amount}

FoundBids(p, m) ==
    IF m.user \in Users
    THEN LET L == userBids[m.user]
         IN  {L[i] : i \in {j \in Hits(p, m, L) :
                                \A k \in Hits(p, m, L) : k <= j}}
    ELSE {}

Listed(r) == \E i \in DOMAIN userBids[body[r].user] :
                 userBids[body[r].user][i] = r

-----------------------------------------------------------------------------
Init ==
    /\ body \in BodySets
    /\ startOf \in [StartMsgs -> Products]
    /\ endOf \in [EndMsgs -> Products]
    /\ pc = [r \in BidReqs |-> "idle"]
    /\ prior = [r \in BidReqs |-> {}]
    /\ beaten = [r \in BidReqs |-> {}]
    /\ todo = [r \in BidReqs |-> {}]
    /\ marks = [r \in BidReqs |-> {}]
    /\ status = [r \in BidReqs |-> "none"]
    /\ book = [p \in Products |-> {}]
    /\ userBids = [u \in Users |-> << >>]
    /\ bidExpires = {}
    /\ bookExpires = {}
    /\ startPc = [m \in StartMsgs |-> "ready"]
    /\ endPc = [m \in EndMsgs |-> "ready"]
    /\ won = [m \in EndMsgs |-> {}]
    /\ wonBid = [m \in EndMsgs |-> {}]
    /\ seen = [m \in EndMsgs |-> {}]
    /\ aging = [m \in EndMsgs |-> {}]
    /\ bidPlaced = {}
    /\ bidOutbid = {}
    /\ auctionWinner = {}

-----------------------------------------------------------------------------
(* POST /bids: BidService.placeBid, step by step.                          *)

\* product.currentPrice || product.startingPrice
Price(view) ==
    IF view.currentPrice # 0 THEN view.currentPrice ELSE view.startingPrice

\* Slip: nobody asks who bids.
Acceptable_AnyUser(r, view) ==
    /\ view.found
    /\ view.status = "active"
    /\ body[r].amount > Price(view)

Acceptable(r, view) ==
    /\ body[r].user \in Buyers
    /\ view.found
    /\ view.status = "active"
    /\ view.seller # body[r].user
    /\ body[r].amount > Price(view)

\* The role check of the controller, then isAuctionActive and the checks on its
\* answer.
ValidateBid(r, view) ==
    /\ pc[r] = "idle"
    /\ pc' = [pc EXCEPT ![r] = IF Acceptable(r, view) THEN "check"
                               ELSE "rejected"]
    /\ UNCHANGED <<inputVars, prior, beaten, todo, marks, storeVars, handVars,
                   eventVars>>

\* amount <= highestBid.amount; slips: the comparison is strict, or forgotten.
TooLow_Strict(r, high) == \E m \in high : body[r].amount < m.amount
TooLow_Never(r, high) == FALSE
TooLow(r, high) == \E m \in high : body[r].amount <= m.amount

\* getHighestBid and the comparison with it.  Only the member's amount and
\* user are used, so the lookup of the bid's record is left out.
CheckHighest(r) ==
    LET p == body[r].product
        high == Tops(book[p])
    IN  /\ pc[r] = "check"
        /\ prior' = [prior EXCEPT ![r] = {Stored(p)}]
        /\ beaten' = [beaten EXCEPT ![r] = high]
        /\ pc' = [pc EXCEPT ![r] =
                      IF TooLow(r, high) THEN "rejected" ELSE "store"]
        /\ UNCHANGED <<inputVars, todo, marks, storeVars, handVars, eventVars>>

\* SET and ZADD of the pipeline.  Nobody can name the key before LPUSH, so SET
\* is taken together with ZADD; a pipeline is no MULTI, so LPUSH is not.
StoreBid(r) ==
    /\ pc[r] = "store"
    /\ status' = [status EXCEPT ![r] = "active"]
    /\ book' = [book EXCEPT ![body[r].product] = @ \cup {Member(r)}]
    /\ pc' = [pc EXCEPT ![r] = "push"]
    /\ UNCHANGED <<inputVars, prior, beaten, todo, marks, userBids, bidExpires,
                   bookExpires, handVars, eventVars>>

\* LPUSH of the pipeline.
PushBid(r) ==
    /\ pc[r] = "push"
    /\ userBids' = [userBids EXCEPT ![body[r].user] = Append(@, r)]
    /\ pc' = [pc EXCEPT ![r] = "mark"]
    /\ UNCHANGED <<inputVars, prior, beaten, todo, marks, status, book, bidExpires,
                   bookExpires, handVars, eventVars>>

\* markOtherBidsAsOutbid: ZREVRANGE of the whole set ...
ReadBook(r) ==
    /\ pc[r] = "mark"
    /\ todo' = [todo EXCEPT ![r] = book[body[r].product]]
    /\ pc' = [pc EXCEPT ![r] = "lookup"]
    /\ UNCHANGED <<inputVars, prior, beaten, marks, storeVars, handVars, eventVars>>

\* The bid of a member, if it is another one and active.  Slip: only the bid
\* that was the highest when placeBid looked is marked.
Rivals_OnlyBeaten(r, m) ==
    {b \in FoundBids(body[r].product, m) :
        b # r /\ status[b] = "active" /\ m \in beaten[r]}
Rivals(r, m) ==
    {b \in FoundBids(body[r].product, m) : b # r /\ status[b] = "active"}

\* ... then LRANGE and GET for each member, from the highest ...
LookupBid(r) ==
    /\ pc[r] = "lookup"
    /\ \E m \in Tops(todo[r]) :
         /\ marks' = [marks EXCEPT ![r] = @ \cup Rivals(r, m)]
         /\ todo' = [todo EXCEPT ![r] = @ \ {m}]
         /\ pc' = [pc EXCEPT ![r] = IF todo[r] = {m} THEN "write" ELSE @]
    /\ UNCHANGED <<inputVars, prior, beaten, storeVars, handVars, eventVars>>

\* Slip: a constant of AUCTION_STATUS instead of a BidStatus.
OutbidStatus_Auction == "ended"
OutbidStatus == "outbid"

\* ... then updateBidStatus for each bid that was active when it was read.  The
\* status is the only field that ever changes and bid keys are not deleted, so
\* its GET and SET together replace the status; SET also removes a TTL.
WriteOutbid(r) ==
    /\ pc[r] = "write"
    /\ \E b \in marks[r] :
         /\ status' = [status EXCEPT ![b] = OutbidStatus]
         /\ bidExpires' = bidExpires \ {b}
         /\ marks' = [marks EXCEPT ![r] = @ \ {b}]
    /\ UNCHANGED <<inputVars, pc, prior, beaten, todo, book, userBids, bookExpires,
                   handVars, eventVars>>

Outbids(r) == {m \in beaten[r] : m.user # body[r].user}

\* Slip: bid.placed is announced only when it outbids somebody.
Announced_IfBeaten(r) == IF beaten[r] = {} THEN {} ELSE {r}
Announced(r) == {r}

\* publishBidPlaced, once every mark is written.
PublishBidPlaced(r) ==
    /\ pc[r] = "write"
    /\ marks[r] = {}
    /\ bidPlaced' = bidPlaced \cup Announced(r)
    /\ pc' = [pc EXCEPT ![r] = IF Outbids(r) = {} THEN "done" ELSE "announce"]
    /\ UNCHANGED <<inputVars, prior, beaten, todo, marks, storeVars, handVars,
                   bidOutbid, auctionWinner>>

\* publishBidOutbid, to the previous highest bidder.
PublishBidOutbid(r) ==
    /\ pc[r] = "announce"
    /\ \E m \in Outbids(r) :
         bidOutbid' = bidOutbid \cup {[new |-> r, old |-> m]}
    /\ pc' = [pc EXCEPT ![r] = "done"]
    /\ UNCHANGED <<inputVars, prior, beaten, todo, marks, storeVars, handVars,
                   bidPlaced, auctionWinner>>

\* The request dies between two steps: the process stops, or Redis, RabbitMQ or
\* the product service answers with an error and placeBid throws.
FailRequest(r) ==
    /\ Faults
    /\ pc[r] \notin {"idle", "rejected", "done", "lost"}
    /\ pc' = [pc EXCEPT ![r] = "lost"]
    /\ beaten' = [beaten EXCEPT ![r] = {}]
    /\ todo' = [todo EXCEPT ![r] = {}]
    /\ marks' = [marks EXCEPT ![r] = {}]
    /\ UNCHANGED <<inputVars, prior, storeVars, handVars, eventVars>>

-----------------------------------------------------------------------------
(* auction.started: initializeAuction.                                     *)

\* A message leaves its queue with the ack that follows the handler's last
\* step; when the process stops in between, it is delivered again.
AfterLastStep == {"acked"} \cup IF Faults THEN {"ready"} ELSE {}

\* EXISTS bids:{productId}
CheckBookExists(m) ==
    /\ startPc[m] = "ready"
    /\ startPc' = [startPc EXCEPT ![m] = IF book[startOf[m]] = {} THEN "add"
                                         ELSE "acked"]
    /\ UNCHANGED <<inputVars, reqVars, storeVars, endPc, won, wonBid, seen, aging,
                   eventVars>>

\* ZADD bids:{productId} 0 __init__
AddInitMember(m) ==
    /\ startPc[m] = "add"
    /\ book' = [book EXCEPT ![startOf[m]] = @ \cup {InitMember}]
    /\ startPc' = [startPc EXCEPT ![m] = "remove"]
    /\ UNCHANGED <<inputVars, reqVars, status, userBids, bidExpires, bookExpires,
                   endPc, won, wonBid, seen, aging, eventVars>>

\* Slip: the dummy is left in the book.
WithoutDummy_Kept(p) == book[p]
WithoutDummy(p) == book[p] \ {InitMember}

\* ZREM bids:{productId} __init__; a key left empty is deleted with its TTL.
RemoveInitMember(m) ==
    /\ startPc[m] = "remove"
    /\ book' = [book EXCEPT ![startOf[m]] = WithoutDummy(startOf[m])]
    /\ bookExpires' = IF book'[startOf[m]] = {}
                      THEN bookExpires \ {startOf[m]} ELSE bookExpires
    /\ \E s \in AfterLastStep : startPc' = [startPc EXCEPT ![m] = s]
    /\ UNCHANGED <<inputVars, reqVars, status, userBids, bidExpires, endPc, won,
                   wonBid, seen, aging, eventVars>>

\* The handler throws (nack without requeue: the message is gone) or the
\* process stops before the ack (the message is delivered again).
FailStarted(m) ==
    /\ Faults
    /\ startPc[m] \in {"add", "remove"}
    /\ \E s \in {"ready", "acked"} : startPc' = [startPc EXCEPT ![m] = s]
    /\ UNCHANGED <<inputVars, reqVars, storeVars, endPc, won, wonBid, seen, aging,
                   eventVars>>

-----------------------------------------------------------------------------
(* auction.ended: handleAuctionEnded.                                      *)

\* getWinner's `if (!highestBid) return null'; slip: it is forgotten.
AfterRead_NoCheck(m) == "find"
AfterRead(m) == IF book[endOf[m]] = {} THEN "expire" ELSE "find"

\* getWinner reads the highest member ...
ReadWinner(m) ==
    /\ endPc[m] = "ready"
    /\ won' = [won EXCEPT ![m] = Tops(book[endOf[m]])]
    /\ seen' = [seen EXCEPT ![m] = Stored(endOf[m])]
    /\ endPc' = [endPc EXCEPT ![m] = AfterRead(m)]
    /\ UNCHANGED <<inputVars, reqVars, storeVars, startPc, wonBid, aging,
                   eventVars>>

\* ... then its bid ...
FindWinner(m) ==
    /\ endPc[m] = "find"
    /\ \E t \in won[m] : wonBid' = [wonBid EXCEPT ![m] = FoundBids(endOf[m], t)]
    /\ endPc' = [endPc EXCEPT ![m] = "crown"]
    /\ UNCHANGED <<inputVars, reqVars, storeVars, startPc, won, seen, aging, eventVars>>

\* ... and marks it as the winner; a made-up bidId is no key, so that
\* updateBidStatus does nothing.
CrownWinner(m) ==
    /\ endPc[m] = "crown"
    /\ status' = [b \in BidReqs |-> IF b \in wonBid[m] THEN "winner"
                                    ELSE status[b]]
    /\ bidExpires' = bidExpires \ wonBid[m]
    /\ wonBid' = [wonBid EXCEPT ![m] = {}]
    /\ endPc' = [endPc EXCEPT ![m] = "expire"]
    /\ UNCHANGED <<inputVars, reqVars, book, userBids, bookExpires, startPc, won,
                   seen, aging, eventVars>>

\* setAuctionEndedTTL: which keys (ZRANGE, LRANGE and GET for each member) ...
CollectKeys(m) ==
    /\ endPc[m] = "expire"
    /\ aging' = [aging EXCEPT ![m] =
           {b \in Stored(endOf[m]) : Listed(b) /\ \E n \in book[endOf[m]] :
                                                    n.user = body[b].user}]
    /\ endPc' = [endPc EXCEPT ![m] = "age"]
    /\ UNCHANGED <<inputVars, reqVars, storeVars, startPc, won, wonBid, seen,
                   eventVars>>

\* ... then the pipeline of EXPIREs.
ExpireBook(m) ==
    /\ endPc[m] = "age"
    /\ bookExpires' = IF book[endOf[m]] = {} THEN bookExpires
                      ELSE bookExpires \cup {endOf[m]}
    /\ bidExpires' = bidExpires \cup aging[m]
    /\ aging' = [aging EXCEPT ![m] = {}]
    /\ endPc' = [endPc EXCEPT ![m] = "publish"]
    /\ UNCHANGED <<inputVars, reqVars, status, book, userBids, startPc, won,
                   wonBid, seen, eventVars>>

\* publishAuctionWinner, and the ack once the handler returned; winner {} is
\* winnerId: null.
PublishAuctionWinner(m) ==
    /\ endPc[m] = "publish"
    /\ auctionWinner' = auctionWinner \cup
           {[msg |-> m, product |-> endOf[m], winner |-> {t.user : t \in won[m]}]}
    /\ \E s \in AfterLastStep : endPc' = [endPc EXCEPT ![m] = s]
    /\ UNCHANGED <<inputVars, reqVars, storeVars, startPc, won, wonBid, seen,
                   aging, bidPlaced, bidOutbid>>

\* The process stops before the ack and the message is delivered again, or the
\* handler throws and its message is dropped.
FailEnded(m) ==
    /\ Faults
    /\ endPc[m] \notin {"ready", "acked", "dropped"}
    /\ \E s \in {"ready", "dropped"} : endPc' = [endPc EXCEPT ![m] = s]
    /\ won' = [won EXCEPT ![m] = {}]
    /\ wonBid' = [wonBid EXCEPT ![m] = {}]
    /\ seen' = [seen EXCEPT ![m] = {}]
    /\ aging' = [aging EXCEPT ![m] = {}]
    /\ UNCHANGED <<inputVars, reqVars, storeVars, startPc, eventVars>>

-----------------------------------------------------------------------------
BidStep(r) ==
    \/ CheckHighest(r) \/ StoreBid(r) \/ PushBid(r)
    \/ ReadBook(r) \/ LookupBid(r) \/ WriteOutbid(r)
    \/ PublishBidPlaced(r) \/ PublishBidOutbid(r)

StartStep(m) == CheckBookExists(m) \/ AddInitMember(m) \/ RemoveInitMember(m)

EndStep(m) ==
    \/ ReadWinner(m) \/ FindWinner(m) \/ CrownWinner(m)
    \/ CollectKeys(m) \/ ExpireBook(m)
    \/ PublishAuctionWinner(m)

BiddingFault ==
    \/ \E r \in BidReqs : FailRequest(r)
    \/ \E m \in StartMsgs : FailStarted(m)
    \/ \E m \in EndMsgs : FailEnded(m)

Next ==
    \/ \E r \in BidReqs : (\E view \in Views : ValidateBid(r, view)) \/ BidStep(r)
    \/ \E m \in StartMsgs : StartStep(m)
    \/ \E m \in EndMsgs : EndStep(m)
    \/ BiddingFault

Spec == Init /\ [][Next]_bVars

-----------------------------------------------------------------------------
(* What is checked.                                                        *)

PCs == {"idle", "rejected", "check", "store", "push", "mark", "lookup",
        "write", "announce", "done", "lost"}

StartPCs == {"ready", "add", "remove", "acked"}

EndPCs == {"ready", "find", "crown", "expire", "age", "publish", "acked",
           "dropped"}

BidStatuses == {"none", "active", "outbid", "winner"}

InputsOK ==
    /\ body \in [BidReqs -> Bodies]
    /\ startOf \in [StartMsgs -> Products]
    /\ endOf \in [EndMsgs -> Products]

RequestsOK ==
    /\ pc \in [BidReqs -> PCs]
    /\ prior \in [BidReqs -> SUBSET SUBSET BidReqs]
    /\ beaten \in [BidReqs -> SUBSET Members]
    /\ todo \in [BidReqs -> SUBSET Members]
    /\ marks \in [BidReqs -> SUBSET BidReqs]

StoreOK ==
    /\ status \in [BidReqs -> BidStatuses]
    /\ book \in [Products -> SUBSET Members]
    /\ userBids \in [Users -> Seq(BidReqs)]
    /\ bidExpires \subseteq BidReqs
    /\ bookExpires \subseteq Products

HandlersOK ==
    /\ startPc \in [StartMsgs -> StartPCs]
    /\ endPc \in [EndMsgs -> EndPCs]
    /\ won \in [EndMsgs -> SUBSET Members]
    /\ wonBid \in [EndMsgs -> SUBSET BidReqs]
    /\ seen \in [EndMsgs -> SUBSET BidReqs]
    /\ aging \in [EndMsgs -> SUBSET BidReqs]

EventsOK ==
    /\ bidPlaced \subseteq BidReqs
    /\ bidOutbid \subseteq [new : BidReqs, old : Members]
    /\ auctionWinner \subseteq
           [msg : EndMsgs, product : Products,
            winner : SUBSET (Users \cup {InitUser})]

\* Every variable holds a value of its kind: a bid key, once written, has one
\* of the three statuses of BidStatus, and every list and event names bids.
TypeOK == InputsOK /\ RequestsOK /\ StoreOK /\ HandlersOK /\ EventsOK

\* A bid whose highest-bid check came after another bid on the product was
\* stored is strictly higher than it: placeBid's two comparisons are enough for
\* bids that do not overlap, whatever price the product service reports.
OutrunsEarlierBids ==
    \A r \in BidReqs : status[r] # "none" =>
        /\ prior[r] # {}
        /\ \A S \in prior[r] : \A b \in S : body[b].amount < body[r].amount

SameKey(b, c) ==
    /\ body[b].product = body[c].product
    /\ body[b].user = body[c].user
    /\ body[b].amount = body[c].amount

\* The lookup by user, product and amount can find this bid and no other.
Unshadowed(b) == \A c \in BidReqs \ {b} : status[c] # "none" => ~SameKey(b, c)

\* Past markOtherBidsAsOutbid.
Marked(r) ==
    \/ pc[r] \in {"announce", "done"}
    \/ pc[r] = "write" /\ marks[r] = {}

\* Two bids on one product never both stay active once both requests are past
\* markOtherBidsAsOutbid, however they interleave: whichever was stored first
\* is found by the other one's mark, unless a bid of the same user for the same
\* amount hides it.
OneActiveBid ==
    \A b, c \in BidReqs :
        /\ b # c
        /\ body[b].product = body[c].product
        /\ Marked(b) /\ Marked(c)
        /\ Unshadowed(b) /\ Unshadowed(c)
        => ~(status[b] = "active" /\ status[c] = "active")

\* The winner an auction.ended handler announces is at least as high as every
\* bid stored when it read the sorted set: only a bid that slips in later can
\* be higher than the winner, and it is never null while there are bids.
WinnerOutrunsSeen ==
    \A m \in EndMsgs : \A b \in seen[m] :
        \E t \in won[m] : body[b].amount <= t.amount

\* A bid.outbid is never sent in vain: it follows the bid.placed of a bid that
\* is strictly higher than the one it names, which is a stored bid of another
\* user, or the dummy when the book was read while auction.started was handled.
OutbidIsDue ==
    \A n \in bidOutbid :
        /\ n.new \in bidPlaced
        /\ n.old.user # body[n.new].user
        /\ n.old.amount < body[n.new].amount
        /\ n.old = InitMember
           \/ \E b \in Stored(body[n.new].product) : Member(b) = n.old

\* No handler ever lacks what its next step takes for granted: there is a member
\* to look up as long as markOtherBidsAsOutbid is not through the book, somebody
\* to tell behind the test for bid.outbid, and a highest bid behind the null
\* check of getWinner.
HandlersGoOn ==
    /\ \A r \in BidReqs :
           /\ pc[r] = "lookup" => Tops(todo[r]) # {}
           /\ pc[r] = "announce" => Outbids(r) # {}
    /\ \A m \in EndMsgs : endPc[m] = "find" => won[m] # {}

\* The service implements the ledger of BidLedger: bids are only ever added,
\* each after a quote that it beats, and never return to active.
Ledger == INSTANCE BidLedger WITH
    Bids <- BidReqs, offer <- body, floor <- prior, standing <- status

ImplementsLedger == Ledger!Spec

-----------------------------------------------------------------------------
(* The invariant behind OutrunsEarlierBids, OneActiveBid and               *)
(* WinnerOutrunsSeen: none of them is inductive as it stands.              *)

\* A bid has its key from StoreBid on, and only bids have one.
Unstored == {"idle", "rejected", "check", "store"}

KeyInv ==
    \A r \in BidReqs :
        /\ pc[r] \in Unstored => status[r] = "none"
        /\ pc[r] \notin Unstored \cup {"lost"} => status[r] # "none"

\* Every stored bid is in its book, and a book that is not empty has a highest
\* member (it grows by one member at a time).
BookInv ==
    /\ \A r \in BidReqs : status[r] # "none" => Member(r) \in book[body[r].product]
    /\ \A p \in Products : book[p] # {} => Tops(book[p]) # {}

\* The lists hold stored bids of their user, each once, and every bid past
\* PushBid.
ListInv ==
    /\ \A u \in Users : \A i \in DOMAIN userBids[u] :
           /\ status[userBids[u][i]] # "none"
           /\ pc[userBids[u][i]] # "push"
           /\ body[userBids[u][i]].user = u
           /\ \A j \in DOMAIN userBids[u] : userBids[u][i] = userBids[u][j] => i = j
    /\ \A r \in BidReqs : pc[r] \in {"mark", "lookup", "write", "announce", "done"}
                          => Listed(r)

\* What a request or a handler remembers of other bids are stored bids, and a
\* handler remembers at most one winner.
MarkInv ==
    /\ \A r \in BidReqs : \A b \in marks[r] : status[b] # "none"
    /\ \A m \in EndMsgs : \A b \in wonBid[m] :
           status[b] # "none" /\ \A c \in wonBid[m] : b = c

\* A request that passed the check beats every bid stored at the check.
QuoteInv ==
    \A r \in BidReqs :
        /\ pc[r] \in {"idle", "check"} => prior[r] = {}
        /\ pc[r] = "store" \/ status[r] # "none" =>
              /\ prior[r] # {}
              /\ \A S \in prior[r] : \A b \in S : body[b].amount < body[r].amount

\* Request r has still to mark bid b: it has not read the book, or has not
\* looked b up, or has found it.  A request that died never will.
WillMark(r, b) ==
    \/ pc[r] \in {"push", "mark", "lost"}
    \/ pc[r] = "lookup" /\ Member(b) \in todo[r]
    \/ pc[r] \in {"lookup", "write"} /\ b \in marks[r]

\* Of two active bids one has still to mark the other.
PairInv ==
    \A b, c \in BidReqs :
        /\ b # c
        /\ body[b].product = body[c].product
        /\ status[b] = "active" /\ status[c] = "active"
        /\ Unshadowed(b) /\ Unshadowed(c)
        => WillMark(b, c) \/ WillMark(c, b)

\* The members of a book are those of stored bids, and the dummy.
StoredMembers(p) == {Member(r) : r \in Stored(p)}

BookOfBids == \A p \in Products : book[p] \subseteq {InitMember} \cup StoredMembers(p)

\* The member a request is to outbid is lower, and its own bid is announced
\* before that.
NoticeInv ==
    /\ \A r \in BidReqs : pc[r] \in {"announce", "done"} => r \in bidPlaced
    /\ \A r \in BidReqs : pc[r] \notin {"idle", "rejected", "check"} =>
           \A m \in beaten[r] :
               /\ m.amount < body[r].amount
               /\ m \in {InitMember} \cup StoredMembers(body[r].product)

\* Every part of a book, or of what is left to look up, has a highest member.
Ranked(S) == \A T \in SUBSET S : T # {} => Tops(T) # {}

GoOnInv ==
    /\ \A p \in Products : Ranked(book[p])
    /\ \A r \in BidReqs : Ranked(todo[r])
    /\ HandlersGoOn

IInv == /\ TypeOK /\ KeyInv /\ BookInv /\ ListInv /\ MarkInv /\ QuoteInv
        /\ PairInv /\ WinnerOutrunsSeen

-----------------------------------------------------------------------------
\* Bids nobody is working on any more.
Settled(p) == \A r \in BidReqs : body[r].product = p =>
                                   pc[r] \in {"idle", "rejected", "done"}

\* When no request for the product is under way its highest bid is not outbid.
HighestNotOutbid ==
    \A p \in Products : Settled(p) =>
        \A r \in Stored(p) : Member(r) \in Tops(book[p]) => status[r] # "outbid"

\* From placeBid's look at the highest bid to its last mark.
Placing(r) == pc[r] \in {"store", "push", "mark", "lookup", "write"}

\* The condition under which it holds all the same: no two requests for one
\* product are between that look and their last mark at once.
BidsApart ==
    \A q, r \in BidReqs :
        Placing(q) /\ Placing(r) /\ body[q].product = body[r].product => q = r

\* A request that is alone has looked at all the other bids; it marks only bids
\* of its product, and every bid that is outbid was beaten.
ApartInv ==
    /\ \A r \in BidReqs : Placing(r) =>
           \A S \in prior[r] : Stored(body[r].product) \subseteq S \cup {r}
    /\ \A r \in BidReqs : \A b \in marks[r] :
           b # r /\ body[b].product = body[r].product
    /\ \A b \in BidReqs : status[b] = "outbid" =>
           \E c \in Stored(body[b].product) : body[b].amount < body[c].amount

\* A TTL that the handler of auction.ended has put on a bid's key stays on it.
ExpiryIsKept == [][bidExpires \subseteq bidExpires']_bVars

=============================================================================
