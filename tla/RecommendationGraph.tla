------------------------ MODULE RecommendationGraph ------------------------
(***************************************************************************)
(* The recommendation service (apps/recommendation-service): a Neo4j graph *)
(* that six queues fill.  Each queue is bound to one routing key, nothing  *)
(* orders one queue against another, and a consumer starts the handler of  *)
(* the next message while earlier ones still wait for the database.  A     *)
(* step is one statement of RecommendationRepository, which Neo4j runs as  *)
(* one transaction.                                                        *)
(*                                                                         *)
(* The graph is kept as far as a query reads it: viewCount, amounts and    *)
(* timestamps of edges are written and never read, and left out; so is an  *)
(* auction.winner without winnerId, which changes nothing.                 *)
(***************************************************************************)
EXTENDS Naturals, FiniteSets

CONSTANTS
    Users, Products,
    Sellers,     \* users who registered as sellers
    Category,    \* product |-> its category
    Events,      \* messages
    EventSets,   \* the assignments of contents to them to consider
    Flaky        \* messages that may be lost or delivered again

Kinds == {"user.created", "product.created", "product.viewed", "bid.placed",
          "auction.winner", "auction.ended"}

\* counted: totalBids > 0, in auction.ended.
Contents == [kind : Kinds, user : Users, product : Products, counted : BOOLEAN]

ASSUME GraphAssumption ==
    /\ IsFiniteSet(Users)
    /\ Sellers \subseteq Users
    /\ EventSets \subseteq [Events -> Contents]
    /\ Flaky \subseteq Events

VARIABLES
    event,    \* message |-> what it says
    stage,    \* message |-> where it is
    role,     \* u:User: "none" when there is no node
    listed,   \* p:Product
    viewed, bid, won,  \* (u)-[:VIEWED | BID | WON]->(p), as pairs <<u, p>>
    similar,  \* the score of (p)-[:SIMILAR_TO]->(q); 0 when there is no edge
    known,    \* history: messages published when their product had its node
    half,     \* history: products with SIMILAR_TO deleted and not yet rebuilt
    clash,    \* history: has a rebuild begun while that of another product ran?
    current   \* history: products rebuilt after the last VIEWED or BID was added

graphVars   == <<role, listed, viewed, bid, won, similar>>
historyVars == <<known, half, clash, current>>
rVars       == <<event, stage, graphVars, historyVars>>

Init ==
    /\ event \in EventSets
    /\ stage = [e \in Events |-> "unsent"]
    /\ role = [u \in Users |-> "none"]
    /\ listed = {} /\ viewed = {} /\ bid = {} /\ won = {}
    /\ similar = [p \in Products |-> [q \in Products |-> 0]]
    /\ known = {} /\ half = {} /\ clash = FALSE /\ current = {}

-----------------------------------------------------------------------------
(* The other services.                                                     *)

Is(e, kind) == event[e].kind = kind

\* A user acts after registering, a product is acted on after it is created,
\* and its auction ends before it is won.
Before(e) ==
    {c \in Events :
        \/ /\ Is(c, "user.created") /\ event[c].user = event[e].user
           /\ event[e].kind \in {"product.viewed", "bid.placed", "auction.winner"}
        \/ /\ Is(c, "product.created") /\ event[c].product = event[e].product
           /\ event[e].kind \notin {"user.created", "product.created"}
        \/ /\ Is(c, "auction.ended") /\ event[c].product = event[e].product
           /\ Is(e, "auction.winner")}

\* Bids are counted only after they are placed.
Caused(e) ==
    /\ \A c \in Before(e) : stage[c] # "unsent"
    /\ Is(e, "auction.ended") /\ event[e].counted =>
           \E c \in Events : /\ Is(c, "bid.placed") /\ stage[c] # "unsent"
                             /\ event[c].product = event[e].product

\* publish; its failure is logged and forgotten by the user and the product
\* service.
Publish(e) ==
    /\ stage[e] = "unsent"
    /\ Caused(e)
    /\ \E s \in {"queued"} \cup IF e \in Flaky THEN {"lost"} ELSE {} :
           stage' = [stage EXCEPT ![e] = s]
    /\ known' = IF event[e].product \in listed THEN known \cup {e} ELSE known
    /\ UNCHANGED <<event, graphVars, half, clash, current>>

-----------------------------------------------------------------------------
(* The handlers.                                                           *)

Takes(e, kinds) == stage[e] = "queued" /\ event[e].kind \in kinds

\* The ack follows the handler's last statement; when the process stops in
\* between, the message is delivered again.
Acknowledge(e) ==
    \E s \in {"acked"} \cup IF e \in Flaky THEN {"queued"} ELSE {} :
        stage' = [stage EXCEPT ![e] = s]

\* handleUserCreated: MERGE of the node, SET of its role.
HandleUserCreated(e) ==
    /\ Takes(e, {"user.created"})
    /\ role' = [role EXCEPT ![event[e].user] =
                    IF event[e].user \in Sellers THEN "seller" ELSE "buyer"]
    /\ Acknowledge(e)
    /\ UNCHANGED <<event, listed, viewed, bid, won, similar, historyVars>>

\* handleProductCreated: MERGE of the node, its category and their relation.
HandleProductCreated(e) ==
    /\ Takes(e, {"product.created"})
    /\ listed' = listed \cup {event[e].product}
    /\ Acknowledge(e)
    /\ UNCHANGED <<event, role, viewed, bid, won, similar, historyVars>>

\* handleProductViewed and handleBidPlaced: createUserNode as a buyer ...
EnsureUser(e) ==
    /\ Takes(e, {"product.viewed", "bid.placed"})
    /\ role' = [role EXCEPT ![event[e].user] = "buyer"]
    /\ stage' = [stage EXCEPT ![e] = "linking"]
    /\ UNCHANGED <<event, listed, viewed, bid, won, similar, historyVars>>

\* What MATCH (u) MATCH (p) MERGE (u)-[]->(p) adds: nothing without both nodes.
\* Slips: only nodes registered as buyers are matched; a product without a node
\* gets one that has no category.
Edge_Registered(e) ==
    IF event[e].user \notin Sellers /\ event[e].product \in listed
    THEN {<<event[e].user, event[e].product>>} ELSE {}
Edge_AnyProduct(e) ==
    IF role[event[e].user] # "none" THEN {<<event[e].user, event[e].product>>}
    ELSE {}
Edge(e) ==
    IF role[event[e].user] # "none" /\ event[e].product \in listed
    THEN {<<event[e].user, event[e].product>>} ELSE {}

\* ... then createViewedRelationship or createBidRelationship.
LinkProduct(e) ==
    /\ stage[e] = "linking"
    /\ \/ /\ Is(e, "product.viewed")
          /\ viewed' = viewed \cup Edge(e) /\ UNCHANGED bid
          /\ current' = IF viewed' = viewed THEN current ELSE {}
       \/ /\ Is(e, "bid.placed")
          /\ bid' = bid \cup Edge(e) /\ UNCHANGED viewed
          /\ current' = IF bid' = bid THEN current ELSE {}
    /\ Acknowledge(e)
    /\ UNCHANGED <<event, role, listed, won, similar, known, half, clash>>

\* handleAuctionWinner: createWonRelationship.
HandleAuctionWinner(e) ==
    /\ Takes(e, {"auction.winner"})
    /\ won' = won \cup Edge(e)
    /\ Acknowledge(e)
    /\ UNCHANGED <<event, role, listed, viewed, bid, similar, historyVars>>

\* handleAuctionEnded of an auction without counted bids.
SkipSimilarity(e) ==
    /\ Takes(e, {"auction.ended"})
    /\ ~event[e].counted
    /\ Acknowledge(e)
    /\ UNCHANGED <<event, graphVars, historyVars>>

Rebuilding(p) ==
    {e \in Events : Is(e, "auction.ended") /\ stage[e] = "linking"
                     /\ event[e].product = p}

\* MATCH (p)-[r:SIMILAR_TO]-(): either direction.  Slip: only outgoing edges.
Touches_Outgoing(p, x, y) == x = p
Touches(p, x, y) == p \in {x, y}

\* handleAuctionEnded, updateSimilarityForProduct: the old relations go ...
DropSimilar(e) ==
    LET p == event[e].product
    IN  /\ Takes(e, {"auction.ended"})
        /\ event[e].counted
        /\ similar' = [x \in Products |-> [y \in Products |->
                          IF Touches(p, x, y) THEN 0 ELSE similar[x][y]]]
        /\ half' = half \cup {p}
        /\ clash' = (clash \/ \E q \in Products \ {p} : Rebuilding(q) # {})
        /\ stage' = [stage EXCEPT ![e] = "linking"]
        /\ UNCHANGED <<event, role, listed, viewed, bid, won, known, current>>

Shared(edges, p, q) == {u \in Users : <<u, p>> \in edges /\ <<u, q>> \in edges}

\* sharedBidders * 2 + sharedViewers.  Slip: no DISTINCT, where the second
\* OPTIONAL MATCH has multiplied the rows.
CombinedScore_Rows(p, q) ==
    LET b == Cardinality(Shared(bid, p, q))
        v == Cardinality(Shared(viewed, p, q))
    IN  b * (v + 1) * 2 + v
CombinedScore(p, q) ==
    Cardinality(Shared(bid, p, q)) * 2 + Cardinality(Shared(viewed, p, q))

\* Only products that share a bidder are matched; combinedScore >= 2.  Slip: >.
Related_Above(p, q) ==
    p # q /\ Shared(bid, p, q) # {} /\ CombinedScore(p, q) > 2
Related(p, q) ==
    p # q /\ Shared(bid, p, q) # {} /\ CombinedScore(p, q) >= 2

\* ... and MERGE makes the new ones, all from this product.
LinkSimilar(e) ==
    LET p == event[e].product
    IN  /\ stage[e] = "linking" /\ Is(e, "auction.ended")
        /\ similar' = [similar EXCEPT ![p] = [q \in Products |->
               IF Related(p, q) THEN CombinedScore(p, q) ELSE similar[p][q]]]
        /\ half' = half \ {p}
        /\ current' = current \cup {p}
        /\ Acknowledge(e)
        /\ UNCHANGED <<event, role, listed, viewed, bid, won, known, clash>>

\* The process stops and the message is delivered again, or a statement fails
\* and the message is rejected without being queued again.
FailHandler(e) ==
    /\ e \in Flaky
    /\ \/ stage[e] = "linking" /\ stage' = [stage EXCEPT ![e] = "queued"]
       \/ stage[e] \in {"queued", "linking"} /\ stage' = [stage EXCEPT ![e] = "lost"]
    /\ UNCHANGED <<event, graphVars, historyVars>>

HandlerStep(e) ==
    \/ HandleUserCreated(e) \/ HandleProductCreated(e)
    \/ EnsureUser(e) \/ LinkProduct(e) \/ HandleAuctionWinner(e)
    \/ SkipSimilarity(e) \/ DropSimilar(e) \/ LinkSimilar(e)

Next == \E e \in Events : Publish(e) \/ HandlerStep(e) \/ FailHandler(e)

Spec == Init /\ [][Next]_rVars

-----------------------------------------------------------------------------
(* The queries; LIMIT and the order of the rows are left out.              *)

Visited(u) == {p \in Products : <<u, p>> \in bid \cup viewed}

\* getUserRecommendations: products of the categories the user bid on or
\* viewed, but none the user bid on or won.  Each of them scores at least the
\* weight of a viewed category, so score > 0 drops none.
Recommended(u) ==
    {p \in listed : /\ \E q \in Visited(u) : Category[p] = Category[q]
                    /\ <<u, p>> \notin bid \cup won}

\* getSimilarProducts: a row for each product of the category, and one for each
\* SIMILAR_TO between the two when there are several.
Relations(p, q) == {e \in {<<p, q>>, <<q, p>>} : similar[e[1]][e[2]] > 0}

SimilarRows(p) ==
    LET others == {q \in listed : q # p /\ Category[q] = Category[p]}
    IN  (UNION {{<<q, r>> : r \in Relations(p, q)} : q \in others})
        \cup {<<q, << >> >> : q \in {x \in others : Relations(p, x) = {}}}

-----------------------------------------------------------------------------
(* What is checked.                                                        *)

Stages == {"unsent", "queued", "linking", "acked", "lost"}

\* Every variable holds a value of its kind.
TypeOK ==
    /\ event \in [Events -> Contents]
    /\ stage \in [Events -> Stages]
    /\ role \in [Users -> {"none", "buyer", "seller"}]
    /\ listed \subseteq Products
    /\ \A edges \in {viewed, bid, won} : edges \subseteq Users \X listed
    /\ similar \in [Products -> [Products -> Nat]]
    /\ known \subseteq Events
    /\ half \subseteq Products /\ current \subseteq Products
    /\ clash \in BOOLEAN

\* A SIMILAR_TO relation joins two products that share a bidder, with a score
\* that the edges of the graph still give, however updates and new edges
\* interleave: it may lag behind them but is never made up.
SimilarIsBacked ==
    \A p, q \in Products : similar[p][q] > 0 =>
        /\ p # q /\ Shared(bid, p, q) # {}
        /\ similar[p][q] <= 2 * Cardinality(Shared(bid, p, q))
                            + Cardinality(Shared(viewed, p, q))

\* getSimilarProducts lists no product twice, unless two updates have
\* overlapped: each of them then makes a relation, one in either direction.
ListedOnce ==
    ~clash => \A p \in Products : \A x, y \in SimilarRows(p) :
                  x[1] = y[1] => x = y

\* When no two updates ever overlapped, a product that was updated after the
\* last view and bid is related to exactly the products it shares a bidder with,
\* by the present score, whichever of the two was updated last, however often
\* their updates were begun again; products whose update stopped half way are
\* left out.
UpdatedIsCurrent ==
    ~clash =>
        \A p \in current \ half : \A q \in Products \ half :
            similar[p][q] + similar[q][p] =
                IF p # q /\ Shared(bid, p, q) # {}
                THEN 2 * Cardinality(Shared(bid, p, q))
                     + Cardinality(Shared(viewed, p, q))
                ELSE 0

\* A handled view or bid that was published when the product had its node
\* counts for good, whatever is delivered in between or again: the product of a
\* bid is not offered to the bidder any more, and the other products of the
\* category are, unless the user bid on or won them.
HistoryIsFollowed ==
    \A e \in known : LET u == event[e].user
                         p == event[e].product
                     IN  stage[e] = "acked" =>
        /\ Is(e, "bid.placed") => p \notin Recommended(u)
        /\ event[e].kind \in {"bid.placed", "product.viewed"} =>
               \A q \in listed : Category[q] = Category[p] =>
                   q \in Recommended(u) \/ <<u, q>> \in bid \cup won

-----------------------------------------------------------------------------
(* The invariant behind ListedOnce, UpdatedIsCurrent and HistoryIsFollowed. *)

Links(e) == event[e].kind \in {"product.viewed", "bid.placed"}

\* The node of the user is there when a view or bid is linked, and that of the
\* product when the message was published; so its edge is there when it is
\* acknowledged.
NodeInv ==
    \A e \in Events :
        /\ stage[e] = "linking" /\ Links(e) => role[event[e].user] # "none"
        /\ e \in known => event[e].product \in listed
        /\ e \in known /\ stage[e] = "acked" =>
               LET edge == <<event[e].user, event[e].product>>
               IN  /\ Is(e, "bid.placed") => edge \in bid
                   /\ Is(e, "product.viewed") => edge \in viewed

\* As long as no two updates have overlapped one product at a time is rebuilt,
\* nothing points to it in between, and no two products point to each other.
RebuildInv ==
    ~clash =>
        /\ \A p, q \in Products : Rebuilding(p) # {} /\ Rebuilding(q) # {} => p = q
        /\ \A p \in Products : Rebuilding(p) # {} =>
                \A q \in Products : similar[q][p] = 0
        /\ \A p, q \in Products : similar[p][q] = 0 \/ similar[q][p] = 0

RInv == TypeOK /\ SimilarIsBacked /\ NodeInv /\ RebuildInv /\ UpdatedIsCurrent

=============================================================================
