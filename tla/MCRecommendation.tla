-------------------------- MODULE MCRecommendation --------------------------
(***************************************************************************)
(* Small instances of RecommendationGraph for TLC: users 1 and 2, where 2  *)
(* is a seller, and three products, the last one in a category of its own. *)
(***************************************************************************)
EXTENDS RecommendationGraph, Sequences

MCCategory == [p \in Products |-> IF p = 3 THEN 2 ELSE 1]

Says(kind, u, p) == [kind |-> kind, user |-> u, product |-> p, counted |-> TRUE]

\* One user acts on products of both categories, and a seller looks at one.
History ==
    <<Says("user.created", 2, 1), Says("product.created", 1, 1),
      Says("product.created", 1, 2), Says("product.created", 1, 3),
      Says("product.viewed", 2, 1), Says("bid.placed", 1, 1),
      Says("bid.placed", 1, 3), Says("auction.winner", 1, 3)>>

\* Two auctions with one common bidder and one common viewer.
Auctions ==
    <<Says("product.created", 1, 1), Says("product.created", 1, 2),
      Says("bid.placed", 1, 1), Says("bid.placed", 1, 2),
      Says("product.viewed", 2, 1), Says("product.viewed", 2, 2),
      Says("auction.ended", 1, 1), Says("auction.ended", 1, 2)>>

\* The first of two auctions is ended three times, once before its bid is counted.
Again ==
    [Auctions EXCEPT ![5] = [Says("auction.ended", 1, 1) EXCEPT !.counted = FALSE],
                     ![6] = Says("auction.ended", 1, 1)]

MCEventSets == {History, Auctions, Again}

=============================================================================
