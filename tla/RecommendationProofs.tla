------------------------ MODULE RecommendationProofs ------------------------
(***************************************************************************)
(* Theorems about RecommendationGraph for every finite set of users, every *)
(* set of products and any messages, lost, repeated or reordered.          *)
(***************************************************************************)
EXTENDS RecommendationGraph, FiniteSetTheorems, TLAPS

USE DEF graphVars, historyVars

-----------------------------------------------------------------------------
(* Shared bidders and viewers.                                             *)

LEMMA EventFields ==
    ASSUME TypeOK, NEW e \in Events
    PROVE  /\ event[e].user \in Users /\ event[e].product \in Products
           /\ event[e].kind \in Kinds
BY DEF TypeOK, Contents

LEMMA SharedCount ==
    ASSUME GraphAssumption, NEW edges, NEW p, NEW q
    PROVE  /\ Cardinality(Shared(edges, p, q)) \in Nat
           /\ Shared(edges, p, q) # {} => Cardinality(Shared(edges, p, q)) >= 1
<1>1. IsFiniteSet(Shared(edges, p, q))
  BY FS_Subset DEF GraphAssumption, Shared
<1>2. Cardinality(Shared(edges, p, q)) \in Nat
  BY <1>1, FS_CardinalityType
<1>3. Shared(edges, p, q) # {} => Cardinality(Shared(edges, p, q)) # 0
  BY <1>1, FS_EmptySet
<1> QED
  BY <1>2, <1>3

\* More edges, more users in common.
LEMMA SharedGrows ==
    ASSUME GraphAssumption, NEW few, NEW many, few \subseteq many, NEW p, NEW q
    PROVE  /\ Shared(few, p, q) \subseteq Shared(many, p, q)
           /\ Cardinality(Shared(few, p, q)) <= Cardinality(Shared(many, p, q))
<1>1. Shared(few, p, q) \subseteq Shared(many, p, q)
  BY DEF Shared
<1>2. IsFiniteSet(Shared(many, p, q))
  BY FS_Subset DEF GraphAssumption, Shared
<1> QED
  BY <1>1, <1>2, FS_Subset

LEMMA SharedSwaps ==
    ASSUME NEW edges, NEW p, NEW q
    PROVE  Shared(edges, p, q) = Shared(edges, q, p)
BY DEF Shared

\* What SIMILAR_TO between two products should say.
Score(p, q) == 2 * Cardinality(Shared(bid, p, q)) + Cardinality(Shared(viewed, p, q))

LEMMA ScoreTyped ==
    ASSUME GraphAssumption, NEW p, NEW q
    PROVE  /\ Score(p, q) \in Nat
           /\ CombinedScore(p, q) = Score(p, q)
           /\ Related(p, q) <=> p # q /\ Shared(bid, p, q) # {}
           /\ Related(p, q) => Score(p, q) > 0
           /\ Score(p, q) = Score(q, p)
<1>1. /\ Cardinality(Shared(bid, p, q)) \in Nat
      /\ Cardinality(Shared(viewed, p, q)) \in Nat
      /\ Shared(bid, p, q) # {} => Cardinality(Shared(bid, p, q)) >= 1
  BY SharedCount
<1>2. Shared(bid, p, q) = Shared(bid, q, p) /\ Shared(viewed, p, q) = Shared(viewed, q, p)
  BY SharedSwaps
<1>3. Score(p, q) = Score(q, p)
  BY <1>2 DEF Score
<1>4. Score(p, q) \in Nat /\ CombinedScore(p, q) = Score(p, q)
  BY <1>1 DEF Score, CombinedScore
<1>5. Shared(bid, p, q) # {} => Score(p, q) >= 2
  BY <1>1 DEF Score
<1>6. CombinedScore(p, q) >= 2 <=> Score(p, q) >= 2
  BY <1>4
<1> QED
  BY <1>3, <1>4, <1>5, <1>6 DEF Related

-----------------------------------------------------------------------------
(* What each kind of step leaves alone.                                    *)

\* Only LinkProduct adds a view or a bid, and none is taken away.
LEMMA EdgesGrow ==
    ASSUME [Next]_rVars
    PROVE  /\ event' = event
           /\ listed \subseteq listed' /\ bid \subseteq bid'
           /\ viewed \subseteq viewed' /\ won \subseteq won'
<1>1. CASE UNCHANGED rVars
  BY <1>1 DEF rVars
<1>2. ASSUME NEW e \in Events, Publish(e) \/ HandlerStep(e) \/ FailHandler(e)
      PROVE  /\ event' = event
             /\ listed \subseteq listed' /\ bid \subseteq bid'
             /\ viewed \subseteq viewed' /\ won \subseteq won'
  BY <1>2 DEF Publish, HandlerStep, HandleUserCreated, HandleProductCreated, EnsureUser,
     LinkProduct, HandleAuctionWinner, SkipSimilarity, DropSimilar, LinkSimilar,
     FailHandler
<1> QED
  BY <1>1, <1>2 DEF Next

\* The steps that are not about similarities.
PlainStep(e) ==
    \/ Publish(e) \/ HandleUserCreated(e) \/ HandleProductCreated(e) \/ EnsureUser(e)
    \/ HandleAuctionWinner(e) \/ SkipSimilarity(e) \/ FailHandler(e)

LEMMA PlainFrame ==
    ASSUME TypeOK, NEW e \in Events, PlainStep(e)
    PROVE  /\ UNCHANGED <<event, bid, viewed, similar, half, clash, current>>
           /\ \A p \in Products : Rebuilding(p)' \subseteq Rebuilding(p)
<1>1. UNCHANGED <<event, bid, viewed, similar, half, clash, current>>
  BY DEF PlainStep, Publish, HandleUserCreated, HandleProductCreated, EnsureUser,
     HandleAuctionWinner, SkipSimilarity, FailHandler
<1>2. \A c \in Events : stage'[c] = "linking" /\ Is(c, "auction.ended")
                        => stage[c] = "linking"
  BY DEF TypeOK, PlainStep, Publish, HandleUserCreated, HandleProductCreated, EnsureUser,
     HandleAuctionWinner, SkipSimilarity, FailHandler, Takes, Is, Acknowledge
<1> QED
  BY <1>1, <1>2 DEF Rebuilding, Is

LEMMA NextCases ==
    ASSUME Next
    PROVE  \E e \in Events : \/ PlainStep(e) \/ LinkProduct(e)
                             \/ DropSimilar(e) \/ LinkSimilar(e)
BY DEF Next, HandlerStep, PlainStep

-----------------------------------------------------------------------------
(* Type correctness.                                                       *)

LEMMA TypeInit == ASSUME GraphAssumption, Init PROVE TypeOK
BY DEF Init, GraphAssumption, TypeOK, Stages

LEMMA TypeStep ==
    ASSUME GraphAssumption, TypeOK, [Next]_rVars
    PROVE  TypeOK'
<1> USE DEF TypeOK, Stages
<1>0. \A e \in Events : event[e].user \in Users /\ event[e].product \in Products
  BY EventFields
<1>1. CASE UNCHANGED rVars
  BY <1>1 DEF rVars
<1>2. ASSUME NEW e \in Events, Publish(e) PROVE TypeOK'
  BY <1>2 DEF Publish
<1>3. ASSUME NEW e \in Events, HandleUserCreated(e) PROVE TypeOK'
  BY <1>0, <1>3 DEF HandleUserCreated, Acknowledge
<1>4. ASSUME NEW e \in Events, HandleProductCreated(e) PROVE TypeOK'
  <2>1. listed' \subseteq Products /\ listed \subseteq listed'
    BY <1>0, <1>4 DEF HandleProductCreated
  <2>2. \A edges \in {viewed, bid, won} : edges \subseteq Users \X listed'
    BY <2>1
  <2> QED
    BY <1>4, <2>1, <2>2 DEF HandleProductCreated, Acknowledge
<1>5. ASSUME NEW e \in Events, EnsureUser(e) PROVE TypeOK'
  BY <1>0, <1>5 DEF EnsureUser
<1>6. ASSUME NEW e \in Events PROVE Edge(e) \subseteq Users \X listed
  BY <1>0 DEF Edge
<1>7. ASSUME NEW e \in Events, LinkProduct(e) PROVE TypeOK'
  <2>1. viewed' \subseteq Users \X listed /\ bid' \subseteq Users \X listed
    BY <1>6, <1>7 DEF LinkProduct
  <2>2. current' \subseteq Products
    BY <1>7 DEF LinkProduct
  <2> QED
    BY <1>7, <2>1, <2>2 DEF LinkProduct, Acknowledge
<1>8. ASSUME NEW e \in Events, HandleAuctionWinner(e) PROVE TypeOK'
  <2>1. won' \subseteq Users \X listed
    BY <1>6, <1>8 DEF HandleAuctionWinner
  <2> QED
    BY <1>8, <2>1 DEF HandleAuctionWinner, Acknowledge
<1>9. ASSUME NEW e \in Events, SkipSimilarity(e) PROVE TypeOK'
  BY <1>9 DEF SkipSimilarity, Acknowledge
<1>10. ASSUME NEW e \in Events, DropSimilar(e) PROVE TypeOK'
  <2>1. similar' \in [Products -> [Products -> Nat]]
    BY <1>10 DEF DropSimilar
  <2>2. half' \subseteq Products /\ clash' \in BOOLEAN
    BY <1>0, <1>10 DEF DropSimilar
  <2> QED
    BY <1>10, <2>1, <2>2 DEF DropSimilar
<1>11. ASSUME NEW e \in Events, LinkSimilar(e) PROVE TypeOK'
  <2>1. \A p, q \in Products : CombinedScore(p, q) \in Nat
    BY ScoreTyped
  <2>2. similar' \in [Products -> [Products -> Nat]]
    BY <1>0, <1>11, <2>1 DEF LinkSimilar
  <2>3. half' \subseteq Products /\ current' \subseteq Products
    BY <1>0, <1>11 DEF LinkSimilar
  <2> QED
    BY <1>11, <2>2, <2>3 DEF LinkSimilar, Acknowledge
<1>12. ASSUME NEW e \in Events, FailHandler(e) PROVE TypeOK'
  BY <1>12 DEF FailHandler
<1> QED
  BY <1>1, <1>2, <1>3, <1>4, <1>5, <1>7, <1>8, <1>9, <1>10, <1>11, <1>12
  DEF Next, HandlerStep

\* Every variable holds a value of its kind in every reachable state; in
\* particular edges only join users to products that have a node.
THEOREM TypeCorrect == ASSUME GraphAssumption PROVE Spec => []TypeOK
<1>1. Init => TypeOK
  BY TypeInit
<1>2. TypeOK /\ [Next]_rVars => TypeOK'
  BY TypeStep
<1> QED
  BY <1>1, <1>2, PTL DEF Spec

-----------------------------------------------------------------------------
(* The two statements of an update.                                        *)

LEMMA DropEffect ==
    ASSUME TypeOK, NEW e \in Events, DropSimilar(e), NEW p, p = event[e].product
    PROVE  /\ p \in Products
           /\ UNCHANGED <<event, bid, viewed, current>> /\ half' = half \cup {p}
           /\ \A x, y \in Products :
                  similar'[x][y] = IF p \in {x, y} THEN 0 ELSE similar[x][y]
           /\ \A q \in Products : q # p => Rebuilding(q)' = Rebuilding(q)
           /\ ~clash' => /\ ~clash
                         /\ \A q \in Products : q # p => Rebuilding(q) = {}
<1>1. p \in Products
  BY EventFields
<1>2. UNCHANGED <<event, bid, viewed, current>> /\ half' = half \cup {p}
  BY DEF DropSimilar
<1>3. \A x, y \in Products : similar'[x][y] = IF p \in {x, y} THEN 0 ELSE similar[x][y]
  BY DEF DropSimilar, Touches
<1>4. \A c \in Events : event[c].product # p => stage'[c] = stage[c]
  BY DEF DropSimilar, TypeOK
<1>5. \A q \in Products : q # p => Rebuilding(q)' = Rebuilding(q)
  BY <1>2, <1>4 DEF Rebuilding, Is
<1>6. clash' = (clash \/ \E q \in Products \ {p} : Rebuilding(q) # {})
  BY DEF DropSimilar
<1>7. ~clash' => ~clash /\ \A q \in Products : q # p => Rebuilding(q) = {}
  BY <1>6 DEF TypeOK
<1> QED
  BY <1>1, <1>2, <1>3, <1>5, <1>7

LEMMA LinkEffect ==
    ASSUME GraphAssumption, TypeOK, NEW e \in Events, LinkSimilar(e),
           NEW p, p = event[e].product
    PROVE  /\ p \in Products /\ Rebuilding(p) # {}
           /\ UNCHANGED <<event, bid, viewed, clash>>
           /\ half' = half \ {p} /\ current' = current \cup {p}
           /\ \A x, y \in Products :
                  similar'[x][y] = IF x = p /\ Related(p, y) THEN Score(p, y)
                                   ELSE similar[x][y]
           /\ \A q \in Products : Rebuilding(q)' \subseteq Rebuilding(q)
<1>1. p \in Products
  BY EventFields
<1>2. Rebuilding(p) # {}
  BY DEF LinkSimilar, Rebuilding
<1>3. /\ UNCHANGED <<event, bid, viewed, clash>>
      /\ half' = half \ {p} /\ current' = current \cup {p}
  BY DEF LinkSimilar
<1>4. \A y \in Products : CombinedScore(p, y) = Score(p, y)
  BY ScoreTyped
<1>5. similar' = [similar EXCEPT ![p] = [q \in Products |->
               IF Related(p, q) THEN CombinedScore(p, q) ELSE similar[p][q]]]
  BY DEF LinkSimilar
<1>6. \A x, y \in Products :
         similar'[x][y] = IF x = p /\ Related(p, y) THEN Score(p, y)
                          ELSE similar[x][y]
  BY <1>1, <1>4, <1>5 DEF TypeOK
<1>7. \A c \in Events : stage'[c] = "linking" => stage[c] = "linking"
  BY DEF LinkSimilar, Acknowledge, TypeOK
<1>8. \A q \in Products : Rebuilding(q)' \subseteq Rebuilding(q)
  BY <1>3, <1>7 DEF Rebuilding, Is
<1> QED
  BY <1>1, <1>2, <1>3, <1>6, <1>8

\* A link of a user leaves the similarities alone; if it adds a view or a bid no
\* product is current any more.
LEMMA ProductLinkEffect ==
    ASSUME TypeOK, NEW e \in Events, LinkProduct(e)
    PROVE  /\ UNCHANGED <<event, similar, half, clash>>
           /\ \A q \in Products : Rebuilding(q)' = Rebuilding(q)
           /\ current' = {} \/ UNCHANGED <<bid, viewed, current>>
<1>1. UNCHANGED <<event, similar, half, clash>>
  BY DEF LinkProduct
<1>2. \A c \in Events : Is(c, "auction.ended") => stage'[c] = stage[c]
  BY DEF LinkProduct, Acknowledge, TypeOK, Is
<1>3. \A q \in Products : Rebuilding(q)' = Rebuilding(q)
  BY <1>1, <1>2 DEF Rebuilding, Is
<1>4. current' = {} \/ UNCHANGED <<bid, viewed, current>>
  BY DEF LinkProduct
<1> QED
  BY <1>1, <1>3, <1>4

-----------------------------------------------------------------------------
(* The inductive invariant.                                                *)

LEMMA BackedStep ==
    ASSUME GraphAssumption, TypeOK, SimilarIsBacked, [Next]_rVars
    PROVE  SimilarIsBacked'
<1> DEFINE Backed(s, x, y) == s > 0 => x # y /\ Shared(bid, x, y) # {} /\ s <= Score(x, y)
<1>1. \A x, y \in Products : Backed(similar[x][y], x, y)
  BY DEF SimilarIsBacked, Score
<1>2. \A x, y \in Products : Backed(similar'[x][y], x, y)
  <2>1. CASE UNCHANGED rVars
    BY <1>1, <2>1 DEF rVars
  <2>2. ASSUME NEW e \in Events, PlainStep(e) \/ LinkProduct(e)
        PROVE  \A x, y \in Products : Backed(similar'[x][y], x, y)
    BY <1>1, <2>2, PlainFrame, ProductLinkEffect
  <2>3. ASSUME NEW e \in Events, DropSimilar(e)
        PROVE  \A x, y \in Products : Backed(similar'[x][y], x, y)
    <3>1. \A x, y \in Products : similar'[x][y] \in {0, similar[x][y]}
      BY <2>3, DropEffect
    <3> QED
      BY <1>1, <3>1
  <2>4. ASSUME NEW e \in Events, LinkSimilar(e)
        PROVE  \A x, y \in Products : Backed(similar'[x][y], x, y)
    <3> DEFINE p == event[e].product
    <3>1. \A x, y \in Products :
             similar'[x][y] = IF x = p /\ Related(p, y) THEN Score(p, y) ELSE similar[x][y]
      BY <2>4, LinkEffect
    <3>2. \A y \in Products : Related(p, y) => Backed(Score(p, y), p, y)
      BY ScoreTyped
    <3> HIDE DEF p, Backed
    <3> QED
      BY <1>1, <3>1, <3>2
  <2> QED
    BY <2>1, <2>2, <2>3, <2>4, NextCases
<1>3. \A x, y \in Products :
         /\ Shared(bid, x, y) \subseteq Shared(bid', x, y)
         /\ Score(x, y) <= 2 * Cardinality(Shared(bid', x, y))
                           + Cardinality(Shared(viewed', x, y))
  <2> TAKE x, y \in Products
  <2>1. bid \subseteq bid' /\ viewed \subseteq viewed'
    BY EdgesGrow
  <2>2. /\ Shared(bid, x, y) \subseteq Shared(bid', x, y)
        /\ Cardinality(Shared(bid, x, y)) <= Cardinality(Shared(bid', x, y))
        /\ Cardinality(Shared(viewed, x, y)) <= Cardinality(Shared(viewed', x, y))
    BY <2>1, SharedGrows
  <2>3. \A edges \in {bid, bid', viewed, viewed'} : Cardinality(Shared(edges, x, y)) \in Nat
    BY SharedCount
  <2> QED
    BY <2>2, <2>3 DEF Score
<1>4. \A x, y \in Products :
         /\ similar'[x][y] \in Nat /\ Score(x, y) \in Nat
         /\ Cardinality(Shared(bid', x, y)) \in Nat
         /\ Cardinality(Shared(viewed', x, y)) \in Nat
  <2>1. TypeOK'
    BY TypeStep
  <2> QED
    BY <2>1, ScoreTyped, SharedCount DEF TypeOK
<1>5. ASSUME NEW x \in Products, NEW y \in Products, similar'[x][y] > 0
      PROVE  /\ x # y /\ Shared(bid', x, y) # {}
             /\ similar'[x][y] <= 2 * Cardinality(Shared(bid', x, y))
                                 + Cardinality(Shared(viewed', x, y))
  <2>1. x # y /\ Shared(bid, x, y) # {} /\ similar'[x][y] <= Score(x, y)
    BY <1>2, <1>5
  <2>2. Shared(bid', x, y) # {}
    BY <1>3, <2>1
  <2> QED
    BY <1>3, <1>4, <2>1, <2>2
<1> QED
  BY <1>5 DEF SimilarIsBacked, Shared

LEMMA NodeStep ==
    ASSUME GraphAssumption, TypeOK, NodeInv, [Next]_rVars
    PROVE  NodeInv'
<1> USE DEF TypeOK
<1>0. /\ event' = event /\ listed \subseteq listed'
      /\ bid \subseteq bid' /\ viewed \subseteq viewed'
  BY EdgesGrow
<1>1. CASE UNCHANGED rVars
  BY <1>1 DEF rVars, NodeInv, Links, Is
<1>2. ASSUME NEW e \in Events, Publish(e) \/ HandlerStep(e) \/ FailHandler(e)
      PROVE  NodeInv'
  <2>1. \A c \in Events \ {e} : stage'[c] = stage[c] /\ (c \in known' <=> c \in known)
    BY <1>2 DEF Publish, HandlerStep, HandleUserCreated, HandleProductCreated, EnsureUser,
       LinkProduct, HandleAuctionWinner, SkipSimilarity, DropSimilar, LinkSimilar,
       FailHandler, Acknowledge
  <2>2. \A u \in Users : role[u] # "none" => role'[u] # "none"
    BY <1>2 DEF Publish, HandlerStep, HandleUserCreated, HandleProductCreated, EnsureUser,
       LinkProduct, HandleAuctionWinner, SkipSimilarity, DropSimilar, LinkSimilar,
       FailHandler
  <2>3. event[e].user \in Users /\ event[e].product \in Products
    BY EventFields
  <2>4. stage'[e] = "linking" /\ Links(e) => role'[event[e].user] # "none"
    <3>1. stage'[e] = "linking" /\ Links(e) => EnsureUser(e)
      BY <1>2 DEF Publish, HandlerStep, HandleUserCreated, HandleProductCreated,
         LinkProduct, HandleAuctionWinner, SkipSimilarity, DropSimilar, LinkSimilar,
         FailHandler, Acknowledge, Takes, Is, Links
    <3> QED
      BY <2>3, <3>1 DEF EnsureUser
  <2>5. e \in known' => event[e].product \in listed'
    <3>1. CASE Publish(e)
      BY <1>0, <3>1 DEF Publish, NodeInv
    <3>2. CASE ~Publish(e)
      BY <1>0, <1>2, <3>2 DEF HandlerStep, HandleUserCreated, HandleProductCreated,
         EnsureUser, LinkProduct, HandleAuctionWinner, SkipSimilarity, DropSimilar,
         LinkSimilar, FailHandler, NodeInv
    <3> QED
      BY <3>1, <3>2
  <2>6. e \in known' /\ stage'[e] = "acked" =>
            LET edge == <<event[e].user, event[e].product>>
            IN  /\ Is(e, "bid.placed") => edge \in bid'
                /\ Is(e, "product.viewed") => edge \in viewed'
    <3>1. CASE LinkProduct(e)
      <4>1. CASE e \in known
        <5>1. event[e].product \in listed
          BY <4>1 DEF NodeInv
        <5>2. Links(e) => role[event[e].user] # "none"
          BY <3>1 DEF LinkProduct, NodeInv
        <5> QED
          BY <3>1, <5>1, <5>2 DEF LinkProduct, Edge, Links, Is
      <4>2. CASE e \notin known
        BY <3>1, <4>2 DEF LinkProduct
      <4> QED
        BY <4>1, <4>2
    <3>2. CASE ~LinkProduct(e) /\ Links(e)
      <4>1. stage'[e] # "acked"
        BY <1>2, <3>2 DEF Publish, HandlerStep, HandleUserCreated, HandleProductCreated,
           EnsureUser, HandleAuctionWinner, SkipSimilarity, DropSimilar, LinkSimilar,
           FailHandler, Takes, Is, Links
      <4> QED
        BY <4>1
    <3>3. CASE ~Links(e)
      BY <3>3 DEF Links, Is
    <3> QED
      BY <3>1, <3>2, <3>3
  <2>7. ASSUME NEW c \in Events, c # e
        PROVE  /\ stage'[c] = "linking" /\ Links(c) => role'[event[c].user] # "none"
               /\ c \in known' => event[c].product \in listed'
               /\ c \in known' /\ stage'[c] = "acked" =>
                     LET edge == <<event[c].user, event[c].product>>
                     IN  /\ Is(c, "bid.placed") => edge \in bid'
                         /\ Is(c, "product.viewed") => edge \in viewed'
    <3>1. event[c].user \in Users
      BY EventFields
    <3> QED
      BY <1>0, <2>1, <2>2, <2>7, <3>1 DEF NodeInv
  <2> QED
    BY <1>0, <2>4, <2>5, <2>6, <2>7 DEF NodeInv, Links, Is
<1> QED
  BY <1>1, <1>2 DEF Next

LEMMA RebuildStep ==
    ASSUME GraphAssumption, TypeOK, SimilarIsBacked, RebuildInv, [Next]_rVars
    PROVE  RebuildInv'
<1>1. CASE UNCHANGED rVars
  BY <1>1 DEF rVars, RebuildInv, Rebuilding, Is
<1>2. ASSUME NEW e \in Events, PlainStep(e) PROVE RebuildInv'
  BY <1>2, PlainFrame DEF RebuildInv
<1>3. ASSUME NEW e \in Events, LinkProduct(e) PROVE RebuildInv'
  BY <1>3, ProductLinkEffect DEF RebuildInv
<1>4. ASSUME NEW e \in Events, DropSimilar(e), ~clash' PROVE RebuildInv'
  <2> DEFINE p == event[e].product
  <2>1. /\ p \in Products /\ ~clash
        /\ \A x, y \in Products : similar'[x][y] = IF p \in {x, y} THEN 0 ELSE similar[x][y]
        /\ \A q \in Products : q # p => Rebuilding(q)' = {}
    BY <1>4, DropEffect
  <2> HIDE DEF p
  <2>2. \A x, y \in Products : similar'[x][y] = 0 \/ similar'[y][x] = 0
    BY <2>1 DEF RebuildInv
  <2>3. \A y \in Products : Rebuilding(y)' # {} => \A x \in Products : similar'[x][y] = 0
    BY <2>1
  <2>4. \A x, y \in Products : Rebuilding(x)' # {} /\ Rebuilding(y)' # {} => x = y
    BY <2>1
  <2> QED
    BY <2>2, <2>3, <2>4 DEF RebuildInv
<1>5. ASSUME NEW e \in Events, LinkSimilar(e), ~clash' PROVE RebuildInv'
  <2> DEFINE p == event[e].product
  <2>1. /\ p \in Products /\ ~clash /\ Rebuilding(p) # {}
        /\ \A x, y \in Products :
              similar'[x][y] = IF x = p /\ Related(p, y) THEN Score(p, y) ELSE similar[x][y]
        /\ \A q \in Products : Rebuilding(q)' \subseteq Rebuilding(q)
    BY <1>5, LinkEffect
  <2>2. \A q \in Products : q # p => Rebuilding(q)' = {}
    BY <2>1 DEF RebuildInv
  <2>3. \A x \in Products : similar'[x][p] = 0
    <3>1. ~Related(p, p)
      BY DEF Related
    <3> QED
      BY <2>1, <3>1 DEF RebuildInv
  <2> HIDE DEF p
  <2>4. \A x, y \in Products : similar'[x][y] = 0 \/ similar'[y][x] = 0
    <3> TAKE x, y \in Products
    <3>1. CASE x = p \/ y = p
      BY <2>3, <3>1
    <3>2. CASE x # p /\ y # p
      BY <2>1, <3>2 DEF RebuildInv
    <3> QED
      BY <3>1, <3>2
  <2>5. \A x, y \in Products : Rebuilding(x)' # {} /\ Rebuilding(y)' # {} => x = y
    BY <2>2
  <2>6. \A y \in Products : Rebuilding(y)' # {} => \A x \in Products : similar'[x][y] = 0
    BY <2>2, <2>3
  <2> QED
    BY <2>4, <2>5, <2>6 DEF RebuildInv
<1>6. ASSUME clash' PROVE RebuildInv'
  BY <1>6 DEF RebuildInv
<1> QED
  BY <1>1, <1>2, <1>3, <1>4, <1>5, <1>6, NextCases

LEMMA CurrentStep ==
    ASSUME GraphAssumption, TypeOK, SimilarIsBacked, RebuildInv, UpdatedIsCurrent,
           [Next]_rVars
    PROVE  UpdatedIsCurrent'
<1> DEFINE Right(s, x, y) ==
        s[x][y] + s[y][x] = IF x # y /\ Shared(bid, x, y) # {} THEN Score(x, y) ELSE 0
<1>0. UpdatedIsCurrent <=>
        (~clash => \A x \in current \ half, y \in Products \ half : Right(similar, x, y))
  BY DEF UpdatedIsCurrent, Score
<1>1. ASSUME UNCHANGED <<bid, viewed>>,
             ~clash' => \A x \in current' \ half', y \in Products \ half' :
                            Right(similar', x, y)
      PROVE  UpdatedIsCurrent'
  BY <1>1 DEF UpdatedIsCurrent, Score, Shared
<1>2. CASE UNCHANGED rVars
  <2>1. UNCHANGED <<bid, viewed, similar, half, clash, current>>
    BY <1>2 DEF rVars
  <2> HIDE DEF Right
  <2> QED
    BY <1>0, <1>1, <2>1
<1>3. ASSUME NEW e \in Events, PlainStep(e) PROVE UpdatedIsCurrent'
  <2>1. UNCHANGED <<bid, viewed, similar, half, clash, current>>
    BY <1>3, PlainFrame
  <2> QED
    BY <2>1, <1>0, <1>1
<1>4. ASSUME NEW e \in Events, LinkProduct(e) PROVE UpdatedIsCurrent'
  <2>1. UNCHANGED <<similar, half, clash>>
        /\ (current' = {} \/ UNCHANGED <<bid, viewed, current>>)
    BY <1>4, ProductLinkEffect
  <2>2. CASE current' = {}
    BY <2>2 DEF UpdatedIsCurrent
  <2>3. CASE UNCHANGED <<bid, viewed, current>>
    BY <2>1, <2>3, <1>0, <1>1
  <2> QED
    BY <2>1, <2>2, <2>3
<1>5. ASSUME NEW e \in Events, DropSimilar(e) PROVE UpdatedIsCurrent'
  <2> DEFINE p == event[e].product
  <2>1. /\ UNCHANGED <<bid, viewed, current>> /\ half' = half \cup {p}
        /\ \A x, y \in Products : similar'[x][y] = IF p \in {x, y} THEN 0 ELSE similar[x][y]
        /\ ~clash' => ~clash
    BY <1>5, DropEffect
  <2> HIDE DEF p
  <2>2. current \subseteq Products
    BY DEF TypeOK
  <2>3. ASSUME ~clash', NEW x \in current' \ half', NEW y \in Products \ half'
        PROVE  Right(similar', x, y)
    <3>1. similar'[x][y] = similar[x][y] /\ similar'[y][x] = similar[y][x]
      BY <2>1, <2>2, <2>3
    <3>2. Right(similar, x, y)
      BY <1>0, <2>1, <2>3
    <3> QED
      BY <3>1, <3>2
  <2> HIDE DEF Right
  <2> QED
    BY <1>1, <2>1, <2>3
<1>6. ASSUME NEW e \in Events, LinkSimilar(e) PROVE UpdatedIsCurrent'
  <2> DEFINE p == event[e].product
  <2>1. /\ UNCHANGED <<bid, viewed, clash>> /\ p \in Products /\ Rebuilding(p) # {}
        /\ half' = half \ {p} /\ current' = current \cup {p}
        /\ \A x, y \in Products :
              similar'[x][y] = IF x = p /\ Related(p, y) THEN Score(p, y) ELSE similar[x][y]
    BY <1>6, LinkEffect
  <2> HIDE DEF p
  <2>2. current \subseteq Products
    BY DEF TypeOK
  <2>3. ASSUME ~clash, NEW y \in Products
        PROVE  Right(similar', p, y) /\ Right(similar', y, p)
    <3>1. similar'[y][p] = 0
      <4>1. ~Related(p, p)
        BY DEF Related
      <4> QED
        BY <2>1, <2>3, <4>1 DEF RebuildInv
    <3>2. similar'[p][y] = IF Related(p, y) THEN Score(p, y) ELSE 0
      <4>1. Related(p, y) <=> p # y /\ Shared(bid, p, y) # {}
        BY ScoreTyped
      <4>2. ~Related(p, y) => similar[p][y] = 0
        <5>1. similar[p][y] \in Nat
          BY <2>1 DEF TypeOK
        <5> QED
          BY <2>1, <4>1, <5>1 DEF SimilarIsBacked
      <4> QED
        BY <2>1, <4>2
    <3>3. /\ Related(p, y) <=> p # y /\ Shared(bid, p, y) # {}
          /\ Score(p, y) \in Nat /\ Score(p, y) = Score(y, p)
          /\ Shared(bid, p, y) = Shared(bid, y, p)
      BY ScoreTyped, SharedSwaps
    <3> QED
      BY <3>1, <3>2, <3>3
  <2>4. ASSUME ~clash', NEW x \in current' \ half', NEW y \in Products \ half'
        PROVE  Right(similar', x, y)
    <3>1. CASE x = p \/ y = p
      <4>1. x \in Products
        BY <2>1, <2>2
      <4> HIDE DEF Right
      <4> QED
        BY <2>1, <2>3, <2>4, <3>1, <4>1
    <3>2. CASE x # p /\ y # p
      <4>1. x \in current \ half /\ y \in Products \ half
        BY <2>1, <3>2
      <4>2. similar'[x][y] = similar[x][y] /\ similar'[y][x] = similar[y][x]
        BY <2>1, <2>2, <3>2, <4>1
      <4>3. Right(similar, x, y)
        BY <1>0, <2>1, <2>4, <4>1
      <4> QED
        BY <4>2, <4>3
    <3> QED
      BY <3>1, <3>2
  <2> HIDE DEF Right
  <2> QED
    BY <1>1, <2>1, <2>4
<1> QED
  BY <1>2, <1>3, <1>4, <1>5, <1>6, NextCases

LEMMA InvInit == ASSUME GraphAssumption, Init PROVE RInv
<1>1. TypeOK
  BY TypeInit
<1>2. SimilarIsBacked /\ NodeInv /\ RebuildInv /\ UpdatedIsCurrent
  BY DEF Init, SimilarIsBacked, NodeInv, RebuildInv, UpdatedIsCurrent, Rebuilding
<1> QED
  BY <1>1, <1>2 DEF RInv

\* The invariant holds in every reachable state.
THEOREM Inductive == ASSUME GraphAssumption PROVE Spec => []RInv
<1>1. Init => RInv
  BY InvInit
<1>2. RInv /\ [Next]_rVars => RInv'
  BY TypeStep, BackedStep, NodeStep, RebuildStep, CurrentStep DEF RInv
<1> QED
  BY <1>1, <1>2, PTL DEF Spec

-----------------------------------------------------------------------------
(* What follows from it.                                                   *)

\* A SIMILAR_TO relation is backed by a shared bidder and by shared edges.
THEOREM SimilarityIsBacked == ASSUME GraphAssumption PROVE Spec => []SimilarIsBacked
<1>1. RInv => SimilarIsBacked
  BY DEF RInv
<1> QED
  BY <1>1, Inductive, PTL

\* Updates that do not overlap leave the relations as the edges say.
THEOREM UpdatesAreCurrent == ASSUME GraphAssumption PROVE Spec => []UpdatedIsCurrent
<1>1. RInv => UpdatedIsCurrent
  BY DEF RInv
<1> QED
  BY <1>1, Inductive, PTL

\* Without overlapping updates no product is listed twice.
THEOREM NoDuplicates == ASSUME GraphAssumption PROVE Spec => []ListedOnce
<1>1. ASSUME RInv PROVE ListedOnce
  <2> SUFFICES ASSUME ~clash, NEW p \in Products,
                      NEW x \in SimilarRows(p), NEW y \in SimilarRows(p), x[1] = y[1]
               PROVE  x = y
    BY DEF ListedOnce
  <2>1. ASSUME NEW q \in listed, q # p, NEW r \in Relations(p, q), NEW s \in Relations(p, q)
        PROVE  r = s
    <3>1. q \in Products
      BY <1>1 DEF RInv, TypeOK
    <3>2. similar[p][q] = 0 \/ similar[q][p] = 0
      BY <1>1, <3>1 DEF RInv, RebuildInv
    <3> QED
      BY <2>1, <3>1, <3>2 DEF Relations
  <2>2. ASSUME NEW z \in SimilarRows(p)
        PROVE  \E q \in listed : /\ q # p
                                 /\ \/ \E r \in Relations(p, q) : z = <<q, r>>
                                    \/ Relations(p, q) = {} /\ z = <<q, << >> >>
    <3> DEFINE others == {q \in listed : q # p /\ Category[q] = Category[p]}
    <3>1. \/ z \in UNION {{<<q, r>> : r \in Relations(p, q)} : q \in others}
          \/ z \in {<<q, << >> >> : q \in {o \in others : Relations(p, o) = {}}}
      BY DEF SimilarRows
    <3>2. ASSUME z \in UNION {{<<q, r>> : r \in Relations(p, q)} : q \in others}
          PROVE  \E q \in others : \E r \in Relations(p, q) : z = <<q, r>>
      BY <3>2, Zenon
    <3>3. ASSUME z \in {<<q, << >> >> : q \in {o \in others : Relations(p, o) = {}}}
          PROVE  \E q \in others : Relations(p, q) = {} /\ z = <<q, << >> >>
      BY <3>3, Zenon
    <3>4. \A q \in others : q \in listed /\ q # p
      OBVIOUS
    <3> QED
      BY <3>1, <3>2, <3>3, <3>4, Zenon
  <2>3. PICK q \in listed : /\ q # p
                            /\ \/ \E r \in Relations(p, q) : x = <<q, r>>
                               \/ Relations(p, q) = {} /\ x = <<q, << >> >>
    BY <2>2
  <2>4. PICK o \in listed : /\ o # p
                            /\ \/ \E r \in Relations(p, o) : y = <<o, r>>
                               \/ Relations(p, o) = {} /\ y = <<o, << >> >>
    BY <2>2
  <2>5. q = o
    BY <2>3, <2>4
  <2> QED
    BY <2>1, <2>3, <2>4, <2>5
<1> QED
  BY <1>1, Inductive, PTL

\* A handled view or bid counts for good.
THEOREM HistoryCounts == ASSUME GraphAssumption PROVE Spec => []HistoryIsFollowed
<1>1. ASSUME RInv PROVE HistoryIsFollowed
  <2> SUFFICES ASSUME NEW e \in known, stage[e] = "acked"
               PROVE  LET u == event[e].user
                          p == event[e].product
                      IN  /\ Is(e, "bid.placed") => p \notin Recommended(u)
                          /\ event[e].kind \in {"bid.placed", "product.viewed"} =>
                               \A q \in listed : Category[q] = Category[p] =>
                                   q \in Recommended(u) \/ <<u, q>> \in bid \cup won
    BY DEF HistoryIsFollowed
  <2> DEFINE u == event[e].user
             p == event[e].product
  <2>1. e \in Events /\ p \in Products
    BY <1>1, EventFields DEF RInv, TypeOK
  <2>2. /\ Is(e, "bid.placed") => <<u, p>> \in bid
        /\ Is(e, "product.viewed") => <<u, p>> \in viewed
    BY <1>1, <2>1 DEF RInv, NodeInv
  <2>3. Links(e) => p \in Visited(u)
    BY <2>1, <2>2 DEF Links, Is, Visited
  <2> QED
    BY <2>2, <2>3 DEF Recommended, Links
<1> QED
  BY <1>1, Inductive, PTL

=============================================================================
