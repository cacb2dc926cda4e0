----------------------------- MODULE MCProduct -----------------------------
(***************************************************************************)
(* A small instance of ProductService for TLC: one product, a request of   *)
(* each kind, and any messages.                                            *)
(***************************************************************************)
EXTENDS ProductService, TLC

CONSTANTS p1, create, start, end, x, b1

MCCall(op, v) ==
    [op |-> op, user |-> 3, product |-> p1, price |-> {v}, valid |-> TRUE]

\* create, start and end, and two more requests: any of the five again, also
\* of a user who owns nothing or with an empty price.
MCMore == {MCCall("start", 1), MCCall("update", 2), MCCall("delete", 1),
           MCCall("end", 1),
           [MCCall("start", 1) EXCEPT !.valid = FALSE],
           [MCCall("update", 1) EXCEPT !.price = {}],
           [MCCall("delete", 1) EXCEPT !.user = 1],
           [MCCall("create", 1) EXCEPT !.user = 1]}

MCCalls ==
    {[r \in ProdReqs |-> CASE r = create -> MCCall("create", 1)
                           [] r = start -> MCCall("start", 1)
                           [] r = end -> MCCall("end", 1)
                           [] r = x -> c] : c \in MCMore}

MCBidMsgs == {[bid |-> b1, product |-> p1, amount |-> 2]}

MCWinMsgs == {[msg |-> end, product |-> p1, winner |-> {1}],
              [msg |-> end, product |-> p1, winner |-> {}]}

=============================================================================
