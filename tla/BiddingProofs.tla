--------------------------- MODULE BiddingProofs ---------------------------
(***************************************************************************)
(* Theorems about BiddingService for every set of products, users, amounts,*)
(* requests and messages, with and without faults.                         *)
(***************************************************************************)
EXTENDS BiddingService, SequenceTheorems, TLAPS

-----------------------------------------------------------------------------
(* Reading the store.                                                      *)

\* The highest member of a set is one of its members.
LEMMA TopsInside == ASSUME NEW S PROVE Tops(S) \subseteq S
BY DEF Tops

\* The highest member has the highest amount.
LEMMA TopsHighest ==
    ASSUME NEW S \in SUBSET Members, BiddingAssumption,
           NEW m \in Tops(S), NEW n \in S
    PROVE  n.amount <= m.amount
<1>1. m \in Members /\ n \in Members
  BY DEF Tops
<1>2. m.amount \in Nat /\ n.amount \in Nat
  <2>1. m.amount \in Amounts \cup {0} /\ n.amount \in Amounts \cup {0}
    BY <1>1 DEF Members
  <2>2. Amounts \cup {0} \subseteq Nat
    BY DEF BiddingAssumption
  <2> QED
    BY <2>1, <2>2
<1>3. CASE n = m
  BY <1>2, <1>3
<1>4. CASE n # m
  BY <1>2, <1>4 DEF Tops, Above
<1> QED
  BY <1>3, <1>4

\* A lookup returns bids of the list of the member's user.
LEMMA FoundInList ==
    ASSUME NEW p, NEW m, NEW b \in FoundBids(p, m)
    PROVE  /\ m.user \in Users
           /\ \E i \in DOMAIN userBids[m.user] :
                  /\ userBids[m.user][i] = b
                  /\ body[b].product = p
                  /\ body[b].amount = m.amount
BY DEF FoundBids, Hits

LEMMA FoundIsBid ==
    ASSUME TypeOK, NEW p, NEW m
    PROVE  FoundBids(p, m) \subseteq BidReqs
<1> SUFFICES ASSUME NEW b \in FoundBids(p, m) PROVE b \in BidReqs
  OBVIOUS
<1>1. m.user \in Users /\ \E i \in DOMAIN userBids[m.user] : userBids[m.user][i] = b
  BY FoundInList
<1>2. userBids[m.user] \in Seq(BidReqs)
  BY <1>1 DEF TypeOK, StoreOK
<1> QED
  BY <1>1, <1>2

LEMMA MemberTyped ==
    ASSUME TypeOK, NEW r \in BidReqs
    PROVE  Member(r) \in Members
BY DEF TypeOK, InputsOK, Bodies, Members, Member

-----------------------------------------------------------------------------
(* Type correctness.                                                       *)

LEMMA InitType == ASSUME BiddingAssumption, Init PROVE TypeOK
<1>1. InputsOK
  BY DEF Init, BiddingAssumption, InputsOK
<1>2. RequestsOK
  BY DEF Init, RequestsOK, PCs
<1>3. StoreOK
  BY DEF Init, StoreOK, BidStatuses
<1>4. HandlersOK
  BY DEF Init, HandlersOK, StartPCs, EndPCs
<1>5. EventsOK
  BY DEF Init, EventsOK
<1> QED
  BY <1>1, <1>2, <1>3, <1>4, <1>5 DEF TypeOK

USE DEF inputVars, reqVars, storeVars, handVars, eventVars, WithoutDummy

LEMMA RequestType ==
    ASSUME BiddingAssumption, TypeOK, NEW r \in BidReqs,
           (\E view : ValidateBid(r, view)) \/ BidStep(r) \/ FailRequest(r)
    PROVE  TypeOK'
<1> USE DEF TypeOK, InputsOK, RequestsOK, StoreOK, HandlersOK, EventsOK
<1>1. ASSUME NEW view, ValidateBid(r, view) PROVE TypeOK'
  BY <1>1 DEF ValidateBid, PCs
<1>2. CASE CheckHighest(r)
  <2>1. Tops(book[body[r].product]) \subseteq Members
    BY TopsInside DEF Bodies
  <2> QED
    BY <1>2, <2>1 DEF CheckHighest, PCs, Stored
<1>3. CASE StoreBid(r)
  BY <1>3, MemberTyped DEF StoreBid, PCs, BidStatuses, Bodies
<1>4. CASE PushBid(r)
  <2>1. body[r].user \in Users
    BY DEF Bodies
  <2>2. Append(userBids[body[r].user], r) \in Seq(BidReqs)
    <3>1. userBids[body[r].user] \in Seq(BidReqs)
      BY <2>1
    <3> QED
      BY <3>1, AppendProperties
  <2>3. userBids' \in [Users -> Seq(BidReqs)]
    BY <1>4, <2>1, <2>2 DEF PushBid
  <2>4. pc' \in [BidReqs -> PCs]
    BY <1>4 DEF PushBid, PCs
  <2> QED
    BY <1>4, <2>3, <2>4 DEF PushBid
<1>5. CASE ReadBook(r)
  BY <1>5 DEF ReadBook, PCs, Bodies
<1>6. CASE LookupBid(r)
  <2>1. PICK m \in Tops(todo[r]) :
           /\ marks' = [marks EXCEPT ![r] = @ \cup Rivals(r, m)]
           /\ todo' = [todo EXCEPT ![r] = @ \ {m}]
           /\ pc' = [pc EXCEPT ![r] = IF todo[r] = {m} THEN "write" ELSE @]
    BY <1>6 DEF LookupBid
  <2>2. Rivals(r, m) \subseteq BidReqs
    BY FoundIsBid DEF Rivals
  <2> QED
    BY <1>6, <2>1, <2>2 DEF LookupBid, PCs
<1>7. CASE WriteOutbid(r)
  BY <1>7 DEF WriteOutbid, OutbidStatus, BidStatuses
<1>8. CASE PublishBidPlaced(r)
  BY <1>8 DEF PublishBidPlaced, PCs, Announced
<1>9. CASE PublishBidOutbid(r)
  BY <1>9 DEF PublishBidOutbid, PCs, Outbids
<1>10. CASE FailRequest(r)
  BY <1>10 DEF FailRequest, PCs
<1> QED
  BY <1>1, <1>2, <1>3, <1>4, <1>5, <1>6, <1>7, <1>8, <1>9, <1>10 DEF BidStep

LEMMA StartType ==
    ASSUME BiddingAssumption, TypeOK, NEW m \in StartMsgs,
           StartStep(m) \/ FailStarted(m)
    PROVE  TypeOK'
<1> USE DEF TypeOK, InputsOK, RequestsOK, StoreOK, HandlersOK, EventsOK
<1>0. InitMember \in Members
  BY DEF InitMember, Members
<1>1. CASE CheckBookExists(m)
  BY <1>1 DEF CheckBookExists, StartPCs
<1>2. CASE AddInitMember(m)
  BY <1>0, <1>2 DEF AddInitMember, StartPCs
<1>3. CASE RemoveInitMember(m)
  BY <1>3 DEF RemoveInitMember, StartPCs, AfterLastStep
<1>4. CASE FailStarted(m)
  BY <1>4 DEF FailStarted, StartPCs
<1> QED
  BY <1>1, <1>2, <1>3, <1>4 DEF StartStep

LEMMA EndType ==
    ASSUME BiddingAssumption, TypeOK, NEW m \in EndMsgs,
           EndStep(m) \/ FailEnded(m)
    PROVE  TypeOK'
<1> USE DEF TypeOK, InputsOK, RequestsOK, StoreOK, HandlersOK, EventsOK
<1>1. CASE ReadWinner(m)
  <2>1. Tops(book[endOf[m]]) \subseteq Members
    BY TopsInside
  <2> QED
    BY <1>1, <2>1 DEF ReadWinner, AfterRead, EndPCs, Stored
<1>2. CASE FindWinner(m)
  BY <1>2, FoundIsBid DEF FindWinner, EndPCs
<1>3. CASE CrownWinner(m)
  BY <1>3 DEF CrownWinner, EndPCs, BidStatuses
<1>4. CASE CollectKeys(m)
  BY <1>4 DEF CollectKeys, EndPCs, Stored
<1>5. CASE ExpireBook(m)
  BY <1>5 DEF ExpireBook, EndPCs
<1>6. CASE PublishAuctionWinner(m)
  <2>1. {t.user : t \in won[m]} \subseteq Users \cup {InitUser}
    BY DEF Members
  <2> QED
    BY <1>6, <2>1 DEF PublishAuctionWinner, EndPCs, AfterLastStep
<1>7. CASE FailEnded(m)
  BY <1>7 DEF FailEnded, EndPCs
<1> QED
  BY <1>1, <1>2, <1>3, <1>4, <1>5, <1>6, <1>7 DEF EndStep

-----------------------------------------------------------------------------
(* The inductive invariant, one conjunct at a time.  Requests, handlers of  *)
(* auction.started and handlers of auction.ended are the three kinds of     *)
(* steps.                                                                   *)

RequestStep(r) == (\E view : ValidateBid(r, view)) \/ BidStep(r) \/ FailRequest(r)

\* A step of the service, whatever GET /products/:id answers: no proof below
\* depends on Views, so all of them hold in AuctionHub, too.
ServiceStep ==
    \/ \E r \in BidReqs : RequestStep(r)
    \/ \E m \in StartMsgs : StartStep(m) \/ FailStarted(m)
    \/ \E m \in EndMsgs : EndStep(m) \/ FailEnded(m)

LEMMA ServiceType ==
    ASSUME BiddingAssumption, TypeOK, [ServiceStep]_bVars
    PROVE  TypeOK'
<1>1. CASE UNCHANGED bVars
  BY <1>1 DEF bVars, TypeOK, InputsOK, RequestsOK, StoreOK, HandlersOK, EventsOK
<1>2. CASE ServiceStep
  BY <1>2, RequestType, StartType, EndType DEF ServiceStep, RequestStep
<1> QED
  BY <1>1, <1>2

LEMMA NextIsService == ASSUME [Next]_bVars PROVE [ServiceStep]_bVars
BY DEF Next, BiddingFault, ServiceStep, RequestStep

\* Every variable holds a value of its kind in every reachable state.
THEOREM TypeCorrect == ASSUME BiddingAssumption PROVE Spec => []TypeOK
<1>1. Init => TypeOK
  BY InitType
<1>2. TypeOK /\ [Next]_bVars => TypeOK'
  BY ServiceType, NextIsService
<1> QED
  BY <1>1, <1>2, PTL DEF Spec

\* The handlers of auction.started touch nothing but the book and its TTL.
LEMMA StartFrame ==
    ASSUME NEW m \in StartMsgs, StartStep(m) \/ FailStarted(m)
    PROVE  /\ UNCHANGED <<inputVars, reqVars, status, userBids, bidExpires>>
           /\ UNCHANGED <<endPc, won, wonBid, seen, aging, eventVars>>
BY DEF StartStep, CheckBookExists, AddInitMember, RemoveInitMember, FailStarted

\* The handlers of auction.ended touch no request, no book and no list.
LEMMA EndFrame ==
    ASSUME NEW m \in EndMsgs, EndStep(m) \/ FailEnded(m)
    PROVE  UNCHANGED <<inputVars, reqVars, book, userBids, startPc>>
BY DEF EndStep, ReadWinner, FindWinner, CrownWinner, CollectKeys, ExpireBook,
       PublishAuctionWinner, FailEnded

\* They change a status to winner, and only that of the winning bid.
LEMMA EndStatus ==
    ASSUME NEW m \in EndMsgs, EndStep(m) \/ FailEnded(m)
    PROVE  \/ UNCHANGED status
           \/ status' = [b \in BidReqs |-> IF b \in wonBid[m] THEN "winner"
                                            ELSE status[b]]
BY DEF EndStep, ReadWinner, FindWinner, CrownWinner, CollectKeys, ExpireBook,
       PublishAuctionWinner, FailEnded

\* No request touches the handlers; only StoreBid and WriteOutbid write a
\* status.
LEMMA RequestFrame ==
    ASSUME NEW r \in BidReqs, RequestStep(r)
    PROVE  /\ UNCHANGED <<inputVars, handVars>>
           /\ ~StoreBid(r) /\ ~WriteOutbid(r) => UNCHANGED status
           /\ ~StoreBid(r) => UNCHANGED book
           /\ ~PushBid(r) => UNCHANGED userBids
BY DEF RequestStep, BidStep, ValidateBid, CheckHighest, StoreBid, PushBid, ReadBook,
       LookupBid, WriteOutbid, PublishBidPlaced, PublishBidOutbid, FailRequest

\* A bid that has a key keeps it, and becomes active only when it is stored.
LEMMA StatusStep ==
    ASSUME IInv, ServiceStep
    PROVE  /\ UNCHANGED inputVars
           /\ \A b \in BidReqs :
                 /\ status[b] # "none" => status'[b] # "none"
                 /\ status'[b] = "active" => status[b] = "active" \/ StoreBid(b)
                 /\ status'[b] # "none" => status[b] # "none" \/ StoreBid(b)
<1> USE DEF IInv, TypeOK, StoreOK, RequestsOK, HandlersOK
<1>1. ASSUME NEW r \in BidReqs, RequestStep(r)
      PROVE  /\ UNCHANGED inputVars
             /\ \A b \in BidReqs :
                   /\ status[b] # "none" => status'[b] # "none"
                   /\ status'[b] = "active" => status[b] = "active" \/ StoreBid(b)
                   /\ status'[b] # "none" => status[b] # "none" \/ StoreBid(b)
  <2>1. CASE StoreBid(r)
    BY <2>1 DEF StoreBid
  <2>2. CASE WriteOutbid(r)
    BY <2>2 DEF WriteOutbid, OutbidStatus, MarkInv
  <2>3. CASE ~StoreBid(r) /\ ~WriteOutbid(r)
    BY <1>1, <2>3, RequestFrame
  <2> QED
    BY <2>1, <2>2, <2>3
<1>2. CASE \E m \in StartMsgs : StartStep(m) \/ FailStarted(m)
  BY <1>2, StartFrame
<1>3. CASE \E m \in EndMsgs : EndStep(m) \/ FailEnded(m)
  BY <1>3, EndFrame, EndStatus DEF MarkInv
<1> QED
  BY <1>1, <1>2, <1>3 DEF ServiceStep

LEMMA KeyStep == ASSUME IInv, ServiceStep PROVE KeyInv'
<1> USE DEF IInv, TypeOK, StoreOK, RequestsOK, HandlersOK, Unstored, PCs
<1>1. ASSUME NEW r \in BidReqs, RequestStep(r) PROVE KeyInv'
  <2>1. CASE StoreBid(r)
    BY <2>1 DEF StoreBid, KeyInv
  <2>2. CASE WriteOutbid(r)
    BY <2>2 DEF WriteOutbid, OutbidStatus, KeyInv, MarkInv
  <2>3. CASE ~StoreBid(r) /\ ~WriteOutbid(r)
    <3>1. UNCHANGED status
      BY <1>1, <2>3, RequestFrame
    <3>2. \A b \in BidReqs : b # r => pc'[b] = pc[b]
      BY <1>1, <2>3 DEF RequestStep, BidStep, ValidateBid, CheckHighest, PushBid,
         ReadBook, LookupBid, PublishBidPlaced, PublishBidOutbid, FailRequest
    <3>3. \/ pc'[r] = "lost"
          \/ pc[r] \in Unstored /\ pc'[r] \in Unstored
          \/ pc[r] \notin Unstored \cup {"lost"} /\ pc'[r] \notin Unstored \cup {"lost"}
      BY <1>1, <2>3 DEF RequestStep, BidStep, ValidateBid, CheckHighest, PushBid,
         ReadBook, LookupBid, PublishBidPlaced, PublishBidOutbid, FailRequest
    <3> QED
      BY <3>1, <3>2, <3>3 DEF KeyInv
  <2> QED
    BY <2>1, <2>2, <2>3
<1>2. CASE \E m \in StartMsgs : StartStep(m) \/ FailStarted(m)
  BY <1>2, StartFrame DEF KeyInv
<1>3. ASSUME NEW m \in EndMsgs, EndStep(m) \/ FailEnded(m) PROVE KeyInv'
  BY <1>3, EndFrame, EndStatus DEF KeyInv, MarkInv
<1> QED
  BY <1>1, <1>2, <1>3 DEF ServiceStep


\* The order of the members is total and transitive: their fields are numbers.
LEMMA AboveOrders ==
    ASSUME BiddingAssumption
    PROVE  /\ \A m, n \in Members : m = n \/ Above(m, n) \/ Above(n, m)
           /\ \A l, m, n \in Members : Above(l, m) /\ Above(m, n) => Above(l, n)
           /\ \A n \in Members : ~Above(InitMember, n)
<1>1. Amounts \cup {0} \subseteq Nat /\ Users \cup {InitUser} \subseteq Nat
      /\ Stamps \cup {0} \subseteq Nat
  BY DEF BiddingAssumption, InitUser
<1>2. \A m \in Members : m.amount \in Nat /\ m.user \in Nat /\ m.ts \in Nat
  BY <1>1 DEF Members
<1>3. ASSUME NEW m \in Members, NEW n \in Members
      PROVE  m = n \/ Above(m, n) \/ Above(n, m)
  <2>1. CASE m.amount = n.amount /\ m.user = n.user /\ m.ts = n.ts
    BY <2>1, <1>3 DEF Members
  <2>2. CASE ~(m.amount = n.amount /\ m.user = n.user /\ m.ts = n.ts)
    BY <2>2, <1>2, <1>3 DEF Above
  <2> QED
    BY <2>1, <2>2
<1>4. ASSUME NEW l \in Members, NEW m \in Members, NEW n \in Members,
             Above(l, m), Above(m, n)
      PROVE  Above(l, n)
  BY <1>2, <1>4 DEF Above
<1>5. \A n \in Members : ~Above(InitMember, n)
  BY <1>2 DEF Above, InitMember, InitUser
<1> QED
  BY <1>3, <1>4, <1>5

\* A set of members that has a highest one still has one when a member is
\* added ...
LEMMA TopsGrow ==
    ASSUME BiddingAssumption, NEW S \in SUBSET Members, NEW m \in Members,
           S # {} => Tops(S) # {}
    PROVE  Tops(S \cup {m}) # {}
<1>1. CASE S = {}
  BY <1>1 DEF Tops
<1>2. CASE S # {}
  <2>1. PICK t \in S : \A n \in S \ {t} : Above(t, n)
    BY <1>2 DEF Tops
  <2>2. CASE t = m \/ Above(t, m)
    <3>1. t \in Tops(S \cup {m})
      BY <2>1, <2>2 DEF Tops
    <3> QED
      BY <3>1
  <2>3. CASE Above(m, t)
    <3>1. \A n \in S \ {t} : Above(m, n)
      BY <2>1, <2>3, AboveOrders
    <3>2. m \in Tops(S \cup {m})
      BY <2>3, <3>1 DEF Tops
    <3> QED
      BY <3>2
  <2> QED
    BY <2>1, <2>2, <2>3, AboveOrders
<1> QED
  BY <1>1, <1>2

\* ... and when '__init__', which is below all of them, is removed.
LEMMA TopsShrink ==
    ASSUME BiddingAssumption, NEW S \in SUBSET Members, S # {} => Tops(S) # {},
           S \ {InitMember} # {}
    PROVE  Tops(S \ {InitMember}) # {}
<1>1. PICK t \in S : \A n \in S \ {t} : Above(t, n)
  BY DEF Tops
<1>2. t # InitMember
  BY <1>1, AboveOrders
<1>3. t \in Tops(S \ {InitMember})
  BY <1>1, <1>2 DEF Tops
<1> QED
  BY <1>3

LEMMA BookStep == ASSUME BiddingAssumption, IInv, ServiceStep PROVE BookInv'
<1> USE DEF IInv, TypeOK, StoreOK, InputsOK
<1>0. \A p \in Products : book[p] \in SUBSET Members
  OBVIOUS
<1>1. ASSUME NEW r \in BidReqs, StoreBid(r) PROVE BookInv'
  <2>1. Member(r) \in Members /\ body[r].product \in Products
    BY MemberTyped DEF Bodies
  <2>2. Tops(book[body[r].product] \cup {Member(r)}) # {}
    BY <2>1, <1>0, TopsGrow DEF BookInv
  <2>3. \A p \in Products : book'[p] # {} => Tops(book'[p]) # {}
    BY <1>1, <2>1, <2>2 DEF StoreBid, BookInv
  <2>4. ASSUME NEW b \in BidReqs, status'[b] # "none"
        PROVE  Member(b)' \in book'[body[b].product]
    <3>1. Member(b)' = Member(b)
      BY <1>1 DEF StoreBid, Member
    <3>2. body[b].product \in Products
      BY DEF Bodies
    <3> QED
      BY <1>1, <2>4, <3>1, <3>2 DEF StoreBid, BookInv
  <2> QED
    BY <1>1, <2>3, <2>4 DEF StoreBid, BookInv, Tops
<1>2. ASSUME NEW r \in BidReqs, RequestStep(r), ~StoreBid(r) PROVE BookInv'
  <2>1. UNCHANGED <<body, book>>
    BY <1>2, RequestFrame
  <2>2. \A b \in BidReqs : status'[b] # "none" => status[b] # "none"
    BY <1>2, RequestFrame DEF WriteOutbid, OutbidStatus, MarkInv, RequestsOK
  <2> QED
    BY <2>1, <2>2 DEF BookInv, Tops, Member
<1>3. ASSUME NEW m \in StartMsgs, StartStep(m) \/ FailStarted(m) PROVE BookInv'
  <2>1. UNCHANGED <<body, status>>
    BY <1>3, StartFrame
  <2>2. ASSUME NEW b \in BidReqs PROVE Member(b) # InitMember
    BY DEF Member, InitMember, Bodies, BiddingAssumption
  <2>3. InitMember \in Members
    BY DEF InitMember, Members
  <2>4. CASE AddInitMember(m)
    <3>1. \A p \in Products : book'[p] # {} => Tops(book'[p]) # {}
      BY <2>4, <2>3, <1>0, TopsGrow DEF AddInitMember, BookInv
    <3>2. \A b \in BidReqs : status[b] # "none" => Member(b) \in book'[body[b].product]
      BY <2>4 DEF AddInitMember, BookInv, Bodies
    <3> QED
      BY <2>1, <3>1, <3>2 DEF BookInv, Tops, Member
  <2>5. CASE RemoveInitMember(m)
    <3>1. \A p \in Products : book'[p] # {} => Tops(book'[p]) # {}
      BY <2>5, <1>0, TopsShrink DEF RemoveInitMember, BookInv
    <3>2. \A b \in BidReqs : status[b] # "none" => Member(b) \in book'[body[b].product]
      BY <2>5, <2>2 DEF RemoveInitMember, BookInv, Bodies
    <3> QED
      BY <2>1, <3>1, <3>2 DEF BookInv, Tops, Member
  <2>6. CASE UNCHANGED book
    BY <2>1, <2>6 DEF BookInv, Tops, Member
  <2> QED
    BY <1>3, <2>4, <2>5, <2>6 DEF StartStep, CheckBookExists, FailStarted
<1>4. ASSUME NEW m \in EndMsgs, EndStep(m) \/ FailEnded(m) PROVE BookInv'
  <2>1. UNCHANGED <<body, book>>
    BY <1>4, EndFrame
  <2>2. \A b \in BidReqs : status'[b] # "none" => status[b] # "none"
    BY <1>4, EndStatus DEF MarkInv
  <2> QED
    BY <2>1, <2>2 DEF BookInv, Tops, Member
<1> QED
  BY <1>1, <1>2, <1>3, <1>4 DEF ServiceStep

\* A request pushes its own bid, once, and after it is stored.
LEMMA ListStep == ASSUME BiddingAssumption, IInv, ServiceStep PROVE ListInv'
<1> USE DEF IInv, TypeOK, StoreOK, InputsOK, RequestsOK
<1>0. /\ UNCHANGED inputVars
      /\ \A b \in BidReqs : status[b] # "none" => status'[b] # "none"
  BY StatusStep
<1>1. ASSUME NEW r \in BidReqs, PushBid(r) PROVE ListInv'
  <2> DEFINE u == body[r].user
             L == userBids[u]
  <2>1. u \in Users /\ L \in Seq(BidReqs)
    BY DEF Bodies
  <2>2. \A i \in DOMAIN L :
           /\ status[L[i]] # "none" /\ pc[L[i]] # "push" /\ body[L[i]].user = u
           /\ \A j \in DOMAIN L : L[i] = L[j] => i = j
    <3> HIDE DEF u
    <3> QED
      BY <2>1 DEF ListInv
  <2>3. /\ userBids'[u] = Append(L, r)
        /\ \A v \in Users \ {u} : userBids'[v] = userBids[v]
    BY <1>1, <2>1 DEF PushBid
  <2>4. /\ Len(Append(L, r)) = Len(L) + 1
        /\ \A i \in 1 .. Len(L) : Append(L, r)[i] = L[i]
        /\ Append(L, r)[Len(L) + 1] = r
        /\ Len(L) \in Nat
        /\ DOMAIN L = 1 .. Len(L)
        /\ DOMAIN Append(L, r) = 1 .. Len(L) + 1
    BY <2>1, AppendProperties, LenProperties
  <2>5. /\ \A i \in DOMAIN L : L[i] # r
        /\ pc[r] = "push" /\ pc'[r] = "mark" /\ status'[r] # "none"
        /\ \A b \in BidReqs \ {r} : pc'[b] = pc[b]
    <3>1. pc[r] = "push" /\ pc'[r] = "mark" /\ \A b \in BidReqs \ {r} : pc'[b] = pc[b]
      BY <1>1 DEF PushBid
    <3>2. status'[r] # "none"
      BY <1>0, <3>1 DEF KeyInv, Unstored
    <3>3. \A i \in DOMAIN L : L[i] # r
      BY <2>2, <3>1
    <3> QED
      BY <3>1, <3>2, <3>3
  <2>6. ASSUME NEW v \in Users, NEW i \in DOMAIN userBids'[v]
        PROVE  /\ status'[userBids'[v][i]] # "none"
               /\ pc'[userBids'[v][i]] # "push"
               /\ body'[userBids'[v][i]].user = v
               /\ \A j \in DOMAIN userBids'[v] :
                      userBids'[v][i] = userBids'[v][j] => i = j
    <3>1. CASE v # u
      <4>1. userBids'[v] = userBids[v] /\ userBids[v] \in Seq(BidReqs)
        BY <2>3, <3>1
      <4>2. userBids[v][i] \in BidReqs /\ userBids[v][i] # r
        BY <1>1, <2>6, <4>1 DEF ListInv, PushBid
      <4> QED
        BY <1>0, <2>5, <2>6, <4>1, <4>2 DEF ListInv
    <3>2. CASE v = u
      <4>1. CASE i \in 1 .. Len(L)
        <5>1. userBids'[v][i] = L[i] /\ L[i] \in BidReqs
          BY <2>1, <2>3, <2>4, <3>2, <4>1
        <5>2. ASSUME NEW j \in DOMAIN userBids'[v], L[i] = userBids'[v][j]
              PROVE  i = j
          <6>1. j \in 1 .. Len(L) \/ j = Len(L) + 1
            BY <2>3, <2>4, <3>2
          <6>2. j # Len(L) + 1
            BY <2>3, <2>4, <2>5, <3>2, <4>1, <5>2
          <6>3. L[i] = L[j]
            BY <2>3, <2>4, <3>2, <5>2, <6>1, <6>2
          <6> QED
            BY <2>4, <2>2, <4>1, <6>1, <6>2, <6>3
        <5> QED
          BY <1>0, <2>4, <2>5, <2>2, <3>2, <4>1, <5>1, <5>2
      <4>2. CASE i = Len(L) + 1
        <5>1. userBids'[v][i] = r
          BY <2>3, <2>4, <3>2, <4>2
        <5>2. ASSUME NEW j \in DOMAIN userBids'[v], userBids'[v][j] = r
              PROVE  i = j
          <6>1. j \in 1 .. Len(L) \/ j = Len(L) + 1
            BY <2>3, <2>4, <3>2
          <6>2. j \notin 1 .. Len(L)
            BY <2>3, <2>4, <2>5, <3>2, <5>2
          <6> QED
            BY <4>2, <6>1, <6>2
        <5> QED
          BY <1>0, <2>5, <3>2, <5>1, <5>2
      <4> QED
        BY <2>3, <2>4, <2>6, <3>2, <4>1, <4>2
    <3> QED
      BY <3>1, <3>2
  <2>7. ASSUME NEW b \in BidReqs,
               pc'[b] \in {"mark", "lookup", "write", "announce", "done"}
        PROVE  Listed(b)'
    <3>1. CASE b = r
      <4>1. Len(L) + 1 \in DOMAIN userBids'[u] /\ userBids'[u][Len(L) + 1] = r
        BY <2>3, <2>4
      <4> QED
        BY <1>0, <3>1, <4>1 DEF Listed
    <3>2. CASE b # r
      <4>1. PICK i \in DOMAIN userBids[body[b].user] :
                     userBids[body[b].user][i] = b
        BY <2>5, <2>7, <3>2 DEF ListInv, Listed
      <4>2. /\ i \in DOMAIN userBids'[body[b].user]
            /\ userBids'[body[b].user][i] = b
        <5>1. CASE body[b].user = u
          <6>1. i \in 1 .. Len(L) /\ L[i] = b
            BY <2>4, <4>1, <5>1
          <6>2. i \in 1 .. Len(L) + 1
            BY <2>4, <6>1
          <6>3. userBids'[body[b].user] = Append(L, r)
            BY <2>3, <5>1
          <6> QED
            BY <2>4, <6>1, <6>2, <6>3
        <5>2. CASE body[b].user # u
          BY <2>3, <4>1, <5>2 DEF Bodies
        <5> QED
          BY <5>1, <5>2
      <4> QED
        BY <1>0, <4>2 DEF Listed
    <3> QED
      BY <3>1, <3>2
  <2> QED
    BY <2>6, <2>7 DEF ListInv
<1>2. ASSUME UNCHANGED userBids,
             \A b \in BidReqs :
                /\ pc'[b] = "push" => pc[b] = "push" \/ status[b] = "none"
                /\ pc'[b] \in {"mark", "lookup", "write", "announce", "done"} =>
                       pc[b] \in {"mark", "lookup", "write", "announce", "done"}
      PROVE  ListInv'
  <2>1. ASSUME NEW u \in Users, NEW i \in DOMAIN userBids[u]
        PROVE  userBids[u][i] \in BidReqs
    BY <2>1
  <2> QED
    BY <1>0, <1>2, <2>1 DEF ListInv, Listed
<1>3. ASSUME NEW r \in BidReqs, RequestStep(r), ~PushBid(r) PROVE ListInv'
  <2>1. UNCHANGED userBids
    BY <1>3, RequestFrame
  <2>2. \A b \in BidReqs \ {r} : pc'[b] = pc[b]
    BY <1>3 DEF RequestStep, BidStep, ValidateBid, CheckHighest, StoreBid, ReadBook,
       LookupBid, WriteOutbid, PublishBidPlaced, PublishBidOutbid, FailRequest
  <2>3. /\ pc'[r] = "push" => status[r] = "none"
        /\ pc'[r] \in {"mark", "lookup", "write", "announce", "done"} =>
               pc[r] \in {"mark", "lookup", "write", "announce", "done"}
    BY <1>3 DEF RequestStep, BidStep, ValidateBid, CheckHighest, StoreBid, ReadBook,
       LookupBid, WriteOutbid, PublishBidPlaced, PublishBidOutbid, FailRequest,
       KeyInv, Unstored
  <2> QED
    BY <1>2, <2>1, <2>2, <2>3
<1>4. ASSUME UNCHANGED <<reqVars, userBids>> PROVE ListInv'
  BY <1>2, <1>4
<1> QED
  BY <1>1, <1>3, <1>4, StartFrame, EndFrame DEF ServiceStep


\* A lookup finds at most one bid, and a stored one.
LEMMA FoundOne ==
    ASSUME IInv, NEW p, NEW m
    PROVE  /\ \A b \in FoundBids(p, m) : b \in BidReqs /\ status[b] # "none"
           /\ \A b, c \in FoundBids(p, m) : b = c
<1>1. ASSUME NEW b \in FoundBids(p, m) PROVE b \in BidReqs /\ status[b] # "none"
  BY <1>1, FoundInList, FoundIsBid DEF IInv, ListInv
<1>2. ASSUME NEW b \in FoundBids(p, m), NEW c \in FoundBids(p, m) PROVE b = c
  <2> DEFINE L == userBids[m.user]
             H == Hits(p, m, L)
  <2>1. m.user \in Users
    BY <1>2, FoundInList
  <2>2. L \in Seq(BidReqs) /\ DOMAIN L \subseteq Nat
    BY <2>1 DEF IInv, TypeOK, StoreOK
  <2>3. PICK i \in H : b = L[i] /\ \A k \in H : k <= i
    BY <1>2, <2>1 DEF FoundBids
  <2>4. PICK j \in H : c = L[j] /\ \A k \in H : k <= j
    BY <1>2, <2>1 DEF FoundBids
  <2>5. i \in Nat /\ j \in Nat
    BY <2>2, <2>3, <2>4 DEF Hits
  <2>6. i <= j /\ j <= i
    BY <2>3, <2>4
  <2> QED
    BY <2>3, <2>4, <2>5, <2>6
<1> QED
  BY <1>1, <1>2

LEMMA MarkStep == ASSUME BiddingAssumption, IInv, ServiceStep PROVE MarkInv'
<1> USE DEF IInv, TypeOK, RequestsOK, HandlersOK
<1>0. \A b \in BidReqs : status[b] # "none" => status'[b] # "none"
  BY StatusStep
<1>1. ASSUME NEW r \in BidReqs, RequestStep(r) PROVE MarkInv'
  <2>1. UNCHANGED wonBid
    BY <1>1, RequestFrame
  <2>2. ASSUME NEW q \in BidReqs, NEW b \in marks'[q]
        PROVE  b \in BidReqs /\ status[b] # "none"
    <3>1. b \in marks[q] \/ \E m : b \in FoundBids(body[r].product, m)
      BY <1>1, <2>2 DEF RequestStep, BidStep, ValidateBid, CheckHighest, StoreBid,
         PushBid, ReadBook, LookupBid, Rivals, WriteOutbid, PublishBidPlaced,
         PublishBidOutbid, FailRequest
    <3> QED
      BY <3>1, FoundOne DEF MarkInv
  <2> QED
    BY <1>0, <2>1, <2>2 DEF MarkInv
<1>2. ASSUME NEW m \in StartMsgs, StartStep(m) \/ FailStarted(m) PROVE MarkInv'
  BY <1>2, StartFrame DEF MarkInv
<1>3. ASSUME NEW m \in EndMsgs, EndStep(m) \/ FailEnded(m) PROVE MarkInv'
  <2>1. UNCHANGED marks
    BY <1>3, EndFrame
  <2>2. ASSUME NEW n \in EndMsgs
        PROVE  \/ wonBid'[n] = wonBid[n] \/ wonBid'[n] = {}
               \/ \E t : wonBid'[n] = FoundBids(endOf[n], t)
    BY <1>3 DEF EndStep, ReadWinner, FindWinner, CrownWinner, CollectKeys, ExpireBook,
       PublishAuctionWinner, FailEnded
  <2>3. ASSUME NEW n \in EndMsgs, NEW b \in wonBid'[n]
        PROVE  status'[b] # "none" /\ \A c \in wonBid'[n] : b = c
    <3>1. CASE wonBid'[n] = wonBid[n]
      BY <1>0, <2>3, <3>1 DEF MarkInv
    <3>2. CASE \E t : wonBid'[n] = FoundBids(endOf[n], t)
      BY <1>0, <2>3, <3>2, FoundOne
    <3> QED
      BY <2>2, <2>3, <3>1, <3>2
  <2> QED
    BY <1>0, <2>1, <2>3 DEF MarkInv
<1> QED
  BY <1>1, <1>2, <1>3 DEF ServiceStep

\* The highest member of a book is at least as high as every stored bid.
LEMMA TopsOutrun ==
    ASSUME BiddingAssumption, IInv, NEW p \in Products, NEW b \in Stored(p)
    PROVE  /\ Tops(book[p]) # {}
           /\ \A m \in Tops(book[p]) : body[b].amount <= m.amount
<1>1. Member(b) \in book[p] /\ book[p] \in SUBSET Members
  BY DEF IInv, BookInv, Stored, TypeOK, StoreOK
<1>2. Tops(book[p]) # {}
  BY <1>1 DEF IInv, BookInv
<1>3. \A m \in Tops(book[p]) : Member(b).amount <= m.amount
  BY <1>1, TopsHighest
<1> QED
  BY <1>2, <1>3 DEF Member

LEMMA QuoteStep == ASSUME BiddingAssumption, IInv, ServiceStep PROVE QuoteInv'
<1> USE DEF IInv, TypeOK, RequestsOK, InputsOK, StoreOK
<1>1. ASSUME NEW r \in BidReqs, CheckHighest(r) PROVE QuoteInv'
  <2> DEFINE p == body[r].product
  <2>1. p \in Products /\ status[r] = "none"
    BY <1>1 DEF Bodies, CheckHighest, KeyInv, Unstored
  <2>2. prior'[r] = {Stored(p)} /\ \A q \in BidReqs \ {r} : prior'[q] = prior[q]
    BY <1>1 DEF CheckHighest
  <2>3. pc'[r] \in {"store", "rejected"} /\ \A q \in BidReqs \ {r} : pc'[q] = pc[q]
    BY <1>1 DEF CheckHighest
  <2>4. UNCHANGED <<body, status>>
    BY <1>1 DEF CheckHighest
  <2>5. ASSUME pc'[r] = "store", NEW b \in Stored(p)
        PROVE  body[b].amount < body[r].amount
    <3>1. PICK m \in Tops(book[p]) : body[b].amount <= m.amount
      BY <2>1, <2>5, TopsOutrun
    <3>2. ~(body[r].amount <= m.amount)
      BY <1>1, <2>5, <3>1 DEF CheckHighest, TooLow
    <3>3. m.amount \in Nat /\ body[b].amount \in Nat /\ body[r].amount \in Nat
      <4>1. m \in Members
        BY <2>1, <3>1, TopsInside
      <4>2. m.amount \in Amounts \cup {0} /\ body[b].amount \in Amounts
            /\ body[r].amount \in Amounts
        BY <4>1 DEF Members, Bodies, Stored
      <4>3. Amounts \cup {0} \subseteq Nat
        BY DEF BiddingAssumption
      <4> QED
        BY <4>2, <4>3
    <3> QED
      BY <3>1, <3>2, <3>3
  <2>6. ASSUME NEW q \in BidReqs
        PROVE  /\ pc'[q] \in {"idle", "check"} => prior'[q] = {}
               /\ pc'[q] = "store" \/ status[q] # "none" =>
                    /\ prior'[q] # {}
                    /\ \A S \in prior'[q] : \A b \in S : body[b].amount < body[q].amount
    <3>1. CASE q = r
      BY <2>1, <2>2, <2>3, <2>5, <3>1
    <3>2. CASE q # r
      BY <2>2, <2>3, <3>2 DEF QuoteInv
    <3> QED
      BY <3>1, <3>2
  <2> QED
    BY <2>4, <2>6 DEF QuoteInv
<1>2. ASSUME UNCHANGED <<body, prior>>,
             \A q \in BidReqs :
                /\ pc'[q] \in {"idle", "check"} => pc[q] \in {"idle", "check"}
                /\ pc'[q] = "store" => pc[q] = "store"
                /\ status'[q] # "none" => pc[q] = "store" \/ status[q] # "none"
      PROVE  QuoteInv'
  BY <1>2 DEF QuoteInv
<1>3. \A q \in BidReqs : status'[q] # "none" => pc[q] = "store" \/ status[q] # "none"
  BY StatusStep DEF StoreBid
<1>4. ASSUME NEW r \in BidReqs, RequestStep(r), ~CheckHighest(r) PROVE QuoteInv'
  <2>1. UNCHANGED <<body, prior>>
    BY <1>4 DEF RequestStep, BidStep, ValidateBid, StoreBid, PushBid, ReadBook,
       LookupBid, WriteOutbid, PublishBidPlaced, PublishBidOutbid, FailRequest
  <2>2. \A q \in BidReqs : /\ pc'[q] \in {"idle", "check"} => pc[q] \in {"idle", "check"}
                           /\ pc'[q] = "store" => pc[q] = "store"
    BY <1>4 DEF RequestStep, BidStep, ValidateBid, StoreBid, PushBid, ReadBook,
       LookupBid, WriteOutbid, PublishBidPlaced, PublishBidOutbid, FailRequest
  <2> QED
    BY <1>2, <1>3, <2>1, <2>2
<1>5. ASSUME UNCHANGED <<body, reqVars>> PROVE QuoteInv'
  BY <1>2, <1>3, <1>5
<1> QED
  BY <1>1, <1>4, <1>5, StartFrame, EndFrame DEF ServiceStep


\* The lookup of a member whose bid is listed and not shadowed finds that bid.
LEMMA FoundUnshadowed ==
    ASSUME IInv, NEW c \in BidReqs, Listed(c), Unshadowed(c)
    PROVE  c \in FoundBids(body[c].product, Member(c))
<1> USE DEF IInv, TypeOK, StoreOK, InputsOK
<1> DEFINE u == body[c].user
           L == userBids[u]
           H == Hits(body[c].product, Member(c), L)
<1>1. u \in Users /\ Member(c).user = u
  BY DEF Bodies, Member
<1>2. L \in Seq(BidReqs) /\ DOMAIN L \subseteq Nat
  BY <1>1
<1>3. PICK i \in DOMAIN L : L[i] = c
  BY DEF Listed
<1>4. i \in H
  BY <1>3 DEF Hits, Member
<1>5. ASSUME NEW k \in H PROVE k = i
  <2>1. k \in DOMAIN L /\ L[k] \in BidReqs
    BY <1>2 DEF Hits
  <2>2. /\ status[L[k]] # "none" /\ body[L[k]].user = u
        /\ \A j \in DOMAIN L : L[k] = L[j] => k = j
    <3> HIDE DEF u
    <3> QED
      BY <1>1, <2>1 DEF ListInv
  <2>3. SameKey(c, L[k])
    BY <1>1, <2>2 DEF SameKey, Hits, Member
  <2>4. L[k] = c
    BY <2>1, <2>2, <2>3 DEF Unshadowed
  <2> QED
    BY <1>3, <2>2, <2>4
<1>6. \A k \in H : k <= i
  BY <1>2, <1>3, <1>5
<1> QED
  BY <1>1, <1>3, <1>4, <1>6 DEF FoundBids

\* What a request has still to mark, it or the other one goes on to mark.
LEMMA WillMarkKept ==
    ASSUME BiddingAssumption, IInv, ServiceStep,
           NEW b \in BidReqs, NEW c \in BidReqs, b # c,
           body[b].product = body[c].product,
           status[b] = "active", status[c] = "active", status'[c] = "active",
           Unshadowed(c), WillMark(b, c)
    PROVE  WillMark(b, c)' \/ WillMark(c, b)'
<1> USE DEF IInv, TypeOK, RequestsOK, InputsOK, StoreOK
<1>0. /\ Member(c)' = Member(c)
      /\ pc[b] \notin Unstored /\ pc[c] \notin Unstored
  BY StatusStep DEF Member, KeyInv
<1>1. ASSUME NEW r \in BidReqs, RequestStep(r), r # b
      PROVE  WillMark(b, c)'
  <2>1. pc'[b] = pc[b] /\ todo'[b] = todo[b] /\ marks'[b] = marks[b]
    BY <1>1 DEF RequestStep, BidStep, ValidateBid, CheckHighest, StoreBid, PushBid,
       ReadBook, LookupBid, WriteOutbid, PublishBidPlaced, PublishBidOutbid, FailRequest
  <2> QED
    BY <1>0, <2>1 DEF WillMark
<1>2. CASE PushBid(b) \/ FailRequest(b)
  BY <1>2 DEF PushBid, FailRequest, WillMark
<1>3. CASE ReadBook(b)
  <2>1. Member(c) \in book[body[b].product]
    BY DEF BookInv
  <2> QED
    BY <1>0, <1>3, <2>1 DEF ReadBook, WillMark
<1>4. CASE LookupBid(b)
  <2>1. PICK m \in Tops(todo[b]) :
           /\ marks' = [marks EXCEPT ![b] = @ \cup Rivals(b, m)]
           /\ todo' = [todo EXCEPT ![b] = @ \ {m}]
           /\ pc' = [pc EXCEPT ![b] = IF todo[b] = {m} THEN "write" ELSE @]
    BY <1>4 DEF LookupBid
  <2>2. pc[b] = "lookup" /\ pc'[b] \in {"lookup", "write"} /\ pc'[c] = pc[c]
    BY <1>4, <2>1 DEF LookupBid
  <2>3. CASE c \in marks[b]
    BY <2>1, <2>2, <2>3 DEF WillMark
  <2>4. CASE c \notin marks[b] /\ Member(c) # m
    <3>1. Member(c) \in todo[b]
      BY <2>2, <2>4 DEF WillMark
    <3> QED
      BY <1>0, <2>1, <2>2, <2>4, <3>1 DEF WillMark
  <2>5. CASE Member(c) = m /\ pc[c] \in {"push", "lost"}
    BY <2>2, <2>5 DEF WillMark
  <2>6. CASE Member(c) = m /\ pc[c] \notin {"push", "lost"}
    <3>1. Listed(c)
      <4>1. pc[c] \in {"mark", "lookup", "write", "announce", "done"}
        BY <1>0, <2>6 DEF Unstored, PCs
      <4> QED
        BY <4>1 DEF ListInv
    <3>2. c \in Rivals(b, m)
      BY <2>6, <3>1, FoundUnshadowed DEF Rivals
    <3>3. c \in marks'[b]
      BY <2>1, <3>2
    <3> QED
      BY <2>2, <3>3 DEF WillMark
  <2> QED
    BY <2>3, <2>4, <2>5, <2>6
<1>5. CASE WriteOutbid(b)
  <2>1. PICK d \in marks[b] :
           /\ status' = [status EXCEPT ![d] = OutbidStatus]
           /\ marks' = [marks EXCEPT ![b] = @ \ {d}]
    BY <1>5 DEF WriteOutbid
  <2>2. d # c
    BY <2>1 DEF OutbidStatus
  <2> QED
    BY <1>5, <2>1, <2>2 DEF WriteOutbid, WillMark
<1>6. CASE PublishBidPlaced(b) \/ PublishBidOutbid(b)
  BY <1>6 DEF PublishBidPlaced, PublishBidOutbid, WillMark
<1>7. ASSUME UNCHANGED reqVars PROVE WillMark(b, c)'
  BY <1>0, <1>7 DEF WillMark
<1>8. CASE RequestStep(b)
  BY <1>0, <1>2, <1>3, <1>4, <1>5, <1>6, <1>8
     DEF RequestStep, BidStep, ValidateBid, CheckHighest, StoreBid, Unstored
<1> QED
  BY <1>1, <1>7, <1>8, StartFrame, EndFrame DEF ServiceStep

LEMMA PairStep == ASSUME BiddingAssumption, IInv, ServiceStep PROVE PairInv'
<1> USE DEF IInv, TypeOK, RequestsOK
<1> SUFFICES ASSUME NEW b \in BidReqs, NEW c \in BidReqs, b # c,
                    body'[b].product = body'[c].product,
                    status'[b] = "active", status'[c] = "active",
                    Unshadowed(b)', Unshadowed(c)'
             PROVE  WillMark(b, c)' \/ WillMark(c, b)'
  BY DEF PairInv
<1>1. /\ body[b].product = body[c].product
      /\ Unshadowed(b) /\ Unshadowed(c)
  BY StatusStep DEF Unshadowed, SameKey
<1>2. CASE StoreBid(b) \/ StoreBid(c)
  BY <1>2 DEF StoreBid, WillMark
<1>3. CASE status[b] = "active" /\ status[c] = "active"
  <2>1. WillMark(b, c) \/ WillMark(c, b)
    BY <1>1, <1>3 DEF PairInv
  <2> QED
    BY <1>1, <1>3, <2>1, WillMarkKept
<1> QED
  BY <1>2, <1>3, StatusStep

LEMMA WinnerStep == ASSUME BiddingAssumption, IInv, ServiceStep PROVE WinnerOutrunsSeen'
<1> USE DEF IInv, TypeOK, HandlersOK, InputsOK
<1>1. ASSUME NEW m \in EndMsgs, ReadWinner(m) PROVE WinnerOutrunsSeen'
  <2>1. endOf[m] \in Products /\ UNCHANGED body
    BY <1>1 DEF ReadWinner
  <2>2. /\ won'[m] = Tops(book[endOf[m]]) /\ seen'[m] = Stored(endOf[m])
        /\ \A n \in EndMsgs \ {m} : won'[n] = won[n] /\ seen'[n] = seen[n]
    BY <1>1 DEF ReadWinner
  <2>3. \A b \in seen'[m] : \E t \in won'[m] : body[b].amount <= t.amount
    BY <2>1, <2>2, TopsOutrun
  <2> QED
    BY <2>1, <2>2, <2>3 DEF WinnerOutrunsSeen
<1>2. ASSUME NEW m \in EndMsgs, FailEnded(m) PROVE WinnerOutrunsSeen'
  BY <1>2 DEF FailEnded, WinnerOutrunsSeen
<1>3. ASSUME UNCHANGED <<body, won, seen>> PROVE WinnerOutrunsSeen'
  BY <1>3 DEF WinnerOutrunsSeen
<1>4. ASSUME NEW m \in EndMsgs, EndStep(m), ~ReadWinner(m) PROVE WinnerOutrunsSeen'
  BY <1>3, <1>4 DEF EndStep, FindWinner, CrownWinner, CollectKeys, ExpireBook,
     PublishAuctionWinner
<1> QED
  BY <1>1, <1>2, <1>3, <1>4, RequestFrame, StartFrame DEF ServiceStep

LEMMA InitIInv == ASSUME BiddingAssumption, Init PROVE IInv
<1>1. TypeOK
  BY InitType
<1>2. KeyInv /\ BookInv /\ MarkInv /\ QuoteInv /\ PairInv /\ WinnerOutrunsSeen
  BY <1>1 DEF Init, KeyInv, BookInv, MarkInv, QuoteInv, PairInv, WinnerOutrunsSeen,
     Unstored, TypeOK, InputsOK, Bodies
<1>3. ListInv
  BY DEF Init, ListInv
<1> QED
  BY <1>1, <1>2, <1>3 DEF IInv

LEMMA NextIInv == ASSUME BiddingAssumption, IInv, [ServiceStep]_bVars PROVE IInv'
<1>1. CASE UNCHANGED bVars
  <2>1. TypeOK'
    BY ServiceType DEF IInv
  <2>2. UNCHANGED <<body, pc, prior, todo, marks, status, book, userBids, won, wonBid, seen>>
    BY <1>1 DEF bVars
  <2>3. KeyInv' /\ MarkInv' /\ QuoteInv' /\ WinnerOutrunsSeen'
    BY <2>2 DEF IInv, KeyInv, MarkInv, QuoteInv, WinnerOutrunsSeen
  <2>4. BookInv'
    BY <2>2 DEF IInv, BookInv, Tops, Member
  <2>5. ListInv'
    BY <2>2 DEF IInv, ListInv, Listed
  <2>6. PairInv'
    BY <2>2 DEF IInv, PairInv, Unshadowed, SameKey, WillMark, Member
  <2> QED
    BY <2>1, <2>3, <2>4, <2>5, <2>6 DEF IInv
<1>2. CASE ServiceStep
  BY <1>2, ServiceType, KeyStep, BookStep, ListStep, MarkStep, QuoteStep, PairStep,
     WinnerStep DEF IInv
<1> QED
  BY <1>1, <1>2

-----------------------------------------------------------------------------
(* The safety properties.                                                  *)

\* The strengthened invariant is inductive and holds initially.
THEOREM Inductive == ASSUME BiddingAssumption PROVE Spec => []IInv
<1>1. Init => IInv
  BY InitIInv
<1>2. IInv /\ [Next]_bVars => IInv'
  BY NextIInv, NextIsService
<1> QED
  BY <1>1, <1>2, PTL DEF Spec

\* A stored bid is strictly higher than every bid that was stored when placeBid
\* read the highest one.
THEOREM EarlierBidsAreLower == ASSUME BiddingAssumption PROVE Spec => []OutrunsEarlierBids
<1>1. IInv => OutrunsEarlierBids
  BY DEF IInv, QuoteInv, OutrunsEarlierBids
<1> QED
  BY <1>1, Inductive, PTL

LEMMA ActiveIsOne == ASSUME IInv PROVE OneActiveBid
<1>1. \A r, q \in BidReqs : Marked(r) => ~WillMark(r, q)
  BY DEF Marked, WillMark
<1> QED
  BY <1>1 DEF IInv, PairInv, OneActiveBid

\* Of two bids on a product whose requests are past markOtherBidsAsOutbid at
\* most one is active.
THEOREM AtMostOneActive == ASSUME BiddingAssumption PROVE Spec => []OneActiveBid
<1> QED
  BY ActiveIsOne, Inductive, PTL

\* A handler of auction.ended announces a winner at least as high as every bid
\* stored when it read the sorted set.
THEOREM WinnerIsHighest == ASSUME BiddingAssumption PROVE Spec => []WinnerOutrunsSeen
<1>1. IInv => WinnerOutrunsSeen
  BY DEF IInv
<1> QED
  BY <1>1, Inductive, PTL

-----------------------------------------------------------------------------
(* Who is told to be outbid.                                               *)

\* Only publishBidPlaced announces a bid, and the request is then past it.
LEMMA PlacedStep ==
    ASSUME TypeOK, ServiceStep
    PROVE  /\ bidPlaced \subseteq bidPlaced'
           /\ \A r \in bidPlaced' : r \in bidPlaced \/ (r \in BidReqs /\ PublishBidPlaced(r))
           /\ \A r \in BidReqs : pc[r] \in {"announce", "done", "lost"}
                                 => pc'[r] \in {"announce", "done", "lost"}
<1> USE DEF TypeOK, RequestsOK, PCs
<1>1. ASSUME NEW r \in BidReqs, RequestStep(r)
      PROVE  /\ (PublishBidPlaced(r) /\ bidPlaced' = bidPlaced \cup {r}) \/ UNCHANGED bidPlaced
             /\ \A q \in BidReqs \ {r} : pc'[q] = pc[q]
             /\ pc[r] \in {"announce", "done", "lost"} => pc'[r] \in {"done", "lost"}
  <2>1. ASSUME NEW view, ValidateBid(r, view)
        PROVE  /\ UNCHANGED bidPlaced /\ pc[r] = "idle"
               /\ \A q \in BidReqs \ {r} : pc'[q] = pc[q]
    BY <2>1 DEF ValidateBid
  <2>2. CASE CheckHighest(r) \/ StoreBid(r) \/ PushBid(r) \/ ReadBook(r)
    BY <2>2 DEF CheckHighest, StoreBid, PushBid, ReadBook
  <2>3. CASE LookupBid(r) \/ WriteOutbid(r)
    BY <2>3 DEF LookupBid, WriteOutbid
  <2>4. CASE PublishBidPlaced(r) \/ PublishBidOutbid(r) \/ FailRequest(r)
    BY <2>4 DEF PublishBidPlaced, Announced, PublishBidOutbid, FailRequest
  <2> QED
    BY <1>1, <2>1, <2>2, <2>3, <2>4 DEF RequestStep, BidStep
<1>2. ASSUME \E m \in StartMsgs : StartStep(m) \/ FailStarted(m)
      PROVE  UNCHANGED <<pc, bidPlaced>>
  BY <1>2, StartFrame
<1>3. ASSUME NEW m \in EndMsgs, EndStep(m) \/ FailEnded(m)
      PROVE  UNCHANGED <<pc, bidPlaced>>
  BY <1>3 DEF EndStep, ReadWinner, FindWinner, CrownWinner, CollectKeys, ExpireBook,
     PublishAuctionWinner, FailEnded
<1> DEFINE Goal ==
       /\ bidPlaced \subseteq bidPlaced'
       /\ \A r \in bidPlaced' : r \in bidPlaced \/ (r \in BidReqs /\ PublishBidPlaced(r))
       /\ \A r \in BidReqs : pc[r] \in {"announce", "done", "lost"}
                             => pc'[r] \in {"announce", "done", "lost"}
<1>4. ASSUME NEW r \in BidReqs, RequestStep(r) PROVE Goal
  <2>1. bidPlaced' = bidPlaced \/ (PublishBidPlaced(r) /\ bidPlaced' = bidPlaced \cup {r})
    BY <1>1, <1>4
  <2> QED
    BY <1>1, <1>4, <2>1
<1>5. ASSUME UNCHANGED <<pc, bidPlaced>> PROVE Goal
  BY <1>5
<1> HIDE DEF Goal
<1>6. Goal
  BY <1>2, <1>3, <1>4, <1>5 DEF ServiceStep
<1> QED
  BY <1>6 DEF Goal

\* A book gains '__init__' or the member of a bid that is stored.
LEMMA BookMove ==
    ASSUME TypeOK, ServiceStep, NEW p \in Products, NEW t \in book'[p]
    PROVE  t \in book[p] \/ t = InitMember \/ t \in StoredMembers(p)'
<1> USE DEF TypeOK, StoreOK, InputsOK
<1>1. ASSUME NEW r \in BidReqs, RequestStep(r)
      PROVE  t \in book[p] \/ t \in StoredMembers(p)'
  <2>1. CASE StoreBid(r)
    <3>1. body[r].product \in Products /\ UNCHANGED body /\ status'[r] = "active"
          /\ book' = [book EXCEPT ![body[r].product] = @ \cup {Member(r)}]
      BY <2>1 DEF StoreBid, Bodies
    <3>2. CASE body[r].product = p
      <4>1. r \in Stored(p)'
        BY <3>1, <3>2 DEF Stored
      <4>2. Member(r) = Member(r)'
        BY <3>1 DEF Member
      <4> QED
        BY <3>1, <3>2, <4>1, <4>2 DEF StoredMembers
    <3>3. CASE body[r].product # p
      BY <3>1, <3>3
    <3> QED
      BY <3>2, <3>3
  <2>2. CASE ~StoreBid(r)
    BY <1>1, <2>2, RequestFrame
  <2> QED
    BY <2>1, <2>2
<1>2. ASSUME NEW m \in StartMsgs, StartStep(m) \/ FailStarted(m)
      PROVE  t \in book[p] \/ t = InitMember
  <2>1. CASE CheckBookExists(m) \/ FailStarted(m)
    BY <2>1 DEF CheckBookExists, FailStarted
  <2>2. CASE AddInitMember(m)
    BY <2>2 DEF AddInitMember
  <2>3. CASE RemoveInitMember(m)
    BY <2>3 DEF RemoveInitMember
  <2> QED
    BY <1>2, <2>1, <2>2, <2>3 DEF StartStep
<1>3. ASSUME NEW m \in EndMsgs, EndStep(m) \/ FailEnded(m) PROVE t \in book[p]
  BY <1>3, EndFrame
<1> QED
  BY <1>1, <1>2, <1>3 DEF ServiceStep

\* Bids, once stored, stay stored, and so do the members made of them.
LEMMA StoredStay ==
    ASSUME IInv, [ServiceStep]_bVars
    PROVE  /\ UNCHANGED inputVars
           /\ \A r : Member(r)' = Member(r)
           /\ \A p : Stored(p) \subseteq Stored(p)'
           /\ \A p : StoredMembers(p) \subseteq StoredMembers(p)'
<1>1. /\ UNCHANGED inputVars
      /\ \A r \in BidReqs : status[r] # "none" => status'[r] # "none"
  BY StatusStep DEF bVars
<1>2. ASSUME NEW r PROVE Member(r)' = Member(r)
  BY <1>1 DEF Member
<1>3. ASSUME NEW p PROVE Stored(p) \subseteq Stored(p)'
  BY <1>1 DEF Stored
<1>4. ASSUME NEW p PROVE StoredMembers(p) \subseteq StoredMembers(p)'
  BY <1>2, <1>3 DEF StoredMembers
<1> QED
  BY <1>1, <1>2, <1>3, <1>4

LEMMA BookOfBidsStep ==
    ASSUME IInv, BookOfBids, [ServiceStep]_bVars
    PROVE  BookOfBids'
<1> SUFFICES ASSUME NEW p \in Products, NEW t \in book'[p]
             PROVE  t = InitMember \/ t \in StoredMembers(p)'
  BY DEF BookOfBids, InitMember
<1>1. t \in book[p] => t = InitMember \/ t \in StoredMembers(p)'
  BY StoredStay DEF BookOfBids
<1>2. CASE UNCHANGED bVars
  BY <1>1, <1>2 DEF bVars
<1>3. CASE ServiceStep
  BY <1>1, <1>3, BookMove DEF IInv
<1> QED
  BY <1>2, <1>3

\* Where a request goes once it has read the highest member: that one stays in
\* its hands, and it announces its bid before it announces an outbid one.
LEMMA NoticeMove ==
    ASSUME BiddingAssumption, IInv, [ServiceStep]_bVars, NEW r \in BidReqs
    PROVE  /\ \/ UNCHANGED <<pc, beaten>>
              \/ pc'[r] = pc[r] /\ beaten'[r] = beaten[r]
              \/ pc'[r] \in {"idle", "rejected", "check"}
              \/ pc'[r] = "lost" /\ beaten'[r] = {}
              \/ /\ CheckHighest(r) /\ pc'[r] = "store"
                 /\ beaten'[r] = Tops(book[body[r].product])
                 /\ \A m \in beaten'[r] : ~(body[r].amount <= m.amount)
              \/ /\ pc[r] \notin {"idle", "rejected", "check"}
                 /\ beaten'[r] = beaten[r]
           /\ pc'[r] \in {"announce", "done"} =>
                  pc[r] \in {"announce", "done"} \/ r \in bidPlaced'
<1> USE DEF IInv, TypeOK, RequestsOK
<1> DEFINE Goal ==
       /\ \/ UNCHANGED <<pc, beaten>>
          \/ pc'[r] = pc[r] /\ beaten'[r] = beaten[r]
          \/ pc'[r] \in {"idle", "rejected", "check"}
          \/ pc'[r] = "lost" /\ beaten'[r] = {}
          \/ /\ CheckHighest(r) /\ pc'[r] = "store"
             /\ beaten'[r] = Tops(book[body[r].product])
             /\ \A m \in beaten'[r] : ~(body[r].amount <= m.amount)
          \/ /\ pc[r] \notin {"idle", "rejected", "check"}
             /\ beaten'[r] = beaten[r]
       /\ pc'[r] \in {"announce", "done"} =>
              pc[r] \in {"announce", "done"} \/ r \in bidPlaced'
<1>1. ASSUME NEW q \in BidReqs, NEW view, ValidateBid(q, view) PROVE Goal
  BY <1>1 DEF ValidateBid
<1>2. ASSUME NEW q \in BidReqs, CheckHighest(q) PROVE Goal
  BY <1>2 DEF CheckHighest, TooLow
<1>3. ASSUME NEW q \in BidReqs, StoreBid(q) \/ PushBid(q) \/ ReadBook(q) \/ WriteOutbid(q)
      PROVE  Goal
  BY <1>3 DEF StoreBid, PushBid, ReadBook, WriteOutbid
<1>4. ASSUME NEW q \in BidReqs, LookupBid(q) PROVE Goal
  BY <1>4 DEF LookupBid
<1>5. ASSUME NEW q \in BidReqs, PublishBidPlaced(q) PROVE Goal
  BY <1>5 DEF PublishBidPlaced, Announced
<1>6. ASSUME NEW q \in BidReqs, PublishBidOutbid(q) PROVE Goal
  BY <1>6 DEF PublishBidOutbid
<1>7. ASSUME NEW q \in BidReqs, FailRequest(q) PROVE Goal
  BY <1>7 DEF FailRequest
<1>8. ASSUME UNCHANGED <<pc, beaten>> PROVE Goal
  BY <1>8
<1>9. UNCHANGED bVars => UNCHANGED <<pc, beaten>>
  BY DEF bVars
<1> HIDE DEF Goal
<1>10. Goal
  BY <1>1, <1>2, <1>3, <1>4, <1>5, <1>6, <1>7, <1>8, <1>9, StartFrame, EndFrame
     DEF ServiceStep, RequestStep, BidStep
<1> QED
  BY <1>10 DEF Goal

LEMMA NoticeStep ==
    ASSUME BiddingAssumption, IInv, BookOfBids, NoticeInv, [ServiceStep]_bVars
    PROVE  NoticeInv'
<1>0. /\ UNCHANGED inputVars /\ bidPlaced \subseteq bidPlaced'
      /\ \A p : StoredMembers(p) \subseteq StoredMembers(p)'
      /\ InitMember' = InitMember
  BY StoredStay, PlacedStep DEF bVars, IInv, InitMember
<1>1. ASSUME NEW r \in BidReqs, pc'[r] \in {"announce", "done"} PROVE r \in bidPlaced'
  BY <1>0, <1>1, NoticeMove DEF NoticeInv
<1>2. ASSUME NEW r \in BidReqs, pc'[r] \notin {"idle", "rejected", "check"},
             NEW m \in beaten'[r]
      PROVE  /\ m.amount < body[r].amount
             /\ m \in {InitMember} \cup StoredMembers(body[r].product)
  <2>1. CASE pc[r] \notin {"idle", "rejected", "check"} /\ beaten'[r] = beaten[r]
    BY <1>2, <2>1 DEF NoticeInv
  <2>2. CASE /\ beaten'[r] = Tops(book[body[r].product])
             /\ \A n \in beaten'[r] : ~(body[r].amount <= n.amount)
    <3>1. /\ body[r].product \in Products /\ body[r].amount \in Nat
          /\ book[body[r].product] \in SUBSET Members
      BY DEF IInv, TypeOK, InputsOK, StoreOK, Bodies, BiddingAssumption
    <3>2. m \in book[body[r].product] /\ m \in Members
      BY <1>2, <2>2, <3>1, TopsInside
    <3>3. m.amount \in Nat
      <4>1. m.amount \in Amounts \cup {0} /\ Amounts \cup {0} \subseteq Nat
        BY <3>2 DEF Members, BiddingAssumption
      <4> QED
        BY <4>1
    <3> QED
      BY <1>2, <2>2, <3>1, <3>2, <3>3 DEF BookOfBids
  <2> QED
    BY <1>2, <2>1, <2>2, NoticeMove
<1> QED
  BY <1>0, <1>1, <1>2 DEF NoticeInv

LEMMA OutbidStep ==
    ASSUME BiddingAssumption, IInv, NoticeInv, OutbidIsDue, [ServiceStep]_bVars
    PROVE  OutbidIsDue'
<1>0. /\ UNCHANGED inputVars /\ bidPlaced \subseteq bidPlaced'
      /\ \A p : StoredMembers(p) \subseteq StoredMembers(p)'
      /\ InitMember' = InitMember
  BY StoredStay, PlacedStep DEF bVars, IInv, InitMember
<1>1. ASSUME NEW n \in bidOutbid'
      PROVE  \/ n \in bidOutbid
             \/ \E r \in BidReqs : \E m \in Outbids(r) :
                    PublishBidOutbid(r) /\ n = [new |-> r, old |-> m]
  <2>1. ASSUME NEW r \in BidReqs, PublishBidOutbid(r)
        PROVE  n \in bidOutbid \/ \E m \in Outbids(r) : n = [new |-> r, old |-> m]
    BY <1>1, <2>1 DEF PublishBidOutbid
  <2>2. ASSUME NEW r \in BidReqs, RequestStep(r), ~PublishBidOutbid(r)
        PROVE  UNCHANGED bidOutbid
    BY <2>2 DEF RequestStep, BidStep, ValidateBid, CheckHighest, StoreBid, PushBid, ReadBook,
       LookupBid, WriteOutbid, PublishBidPlaced, FailRequest
  <2>3. ASSUME NEW k \in EndMsgs, EndStep(k) \/ FailEnded(k) PROVE UNCHANGED bidOutbid
    BY <2>3 DEF EndStep, ReadWinner, FindWinner, CrownWinner, CollectKeys, ExpireBook,
       PublishAuctionWinner, FailEnded
  <2>4. UNCHANGED bVars => UNCHANGED bidOutbid
    BY DEF bVars
  <2> QED
    BY <1>1, <2>1, <2>2, <2>3, <2>4, StartFrame DEF ServiceStep
<1>2. ASSUME NEW n \in bidOutbid'
      PROVE  /\ n.new \in bidPlaced'
             /\ n.old.user # body[n.new].user
             /\ n.old.amount < body[n.new].amount
             /\ n.old \in {InitMember} \cup StoredMembers(body[n.new].product)
  <2>1. CASE n \in bidOutbid
    BY <1>0, <2>1 DEF OutbidIsDue, StoredMembers
  <2>2. ASSUME NEW r \in BidReqs, NEW m \in Outbids(r), PublishBidOutbid(r),
               n = [new |-> r, old |-> m]
        PROVE  /\ n.new \in bidPlaced'
               /\ n.old.user # body[n.new].user
               /\ n.old.amount < body[n.new].amount
               /\ n.old \in {InitMember} \cup StoredMembers(body[n.new].product)
    <3>1. pc[r] = "announce" /\ m \in beaten[r] /\ m.user # body[r].user
      BY <2>2 DEF PublishBidOutbid, Outbids
    <3>2. /\ r \in bidPlaced /\ m.amount < body[r].amount
          /\ m \in {InitMember} \cup StoredMembers(body[r].product)
      BY <3>1 DEF NoticeInv
    <3> QED
      BY <1>0, <2>2, <3>1, <3>2
  <2> QED
    BY <1>1, <1>2, <2>1, <2>2
<1>3. ASSUME NEW n \in bidOutbid'
      PROVE  n.old = InitMember \/ \E b \in Stored(body[n.new].product)' : Member(b)' = n.old
  BY <1>0, <1>2 DEF StoredMembers
<1> QED
  BY <1>0, <1>2, <1>3 DEF OutbidIsDue

\* Whoever is told to be outbid has been: by an announced bid of somebody else
\* on the same product that is strictly higher.
THEOREM OutbidsAreDue == ASSUME BiddingAssumption PROVE Spec => []OutbidIsDue
<1> DEFINE Inv == IInv /\ BookOfBids /\ NoticeInv /\ OutbidIsDue
<1>1. Init => Inv
  BY InitIInv DEF Init, BookOfBids, NoticeInv, OutbidIsDue
<1>2. Inv /\ [Next]_bVars => Inv'
  BY NextIInv, BookOfBidsStep, NoticeStep, OutbidStep, NextIsService
<1>3. Inv => OutbidIsDue
  OBVIOUS
<1> QED
  BY <1>1, <1>2, <1>3, PTL DEF Spec

-----------------------------------------------------------------------------
(* No handler is stuck.                                                    *)

\* A ranked set stays ranked when a member is added.
LEMMA RankedGrow ==
    ASSUME BiddingAssumption, NEW S \in SUBSET Members, NEW m \in Members, Ranked(S)
    PROVE  Ranked(S \cup {m})
<1> SUFFICES ASSUME NEW T \in SUBSET (S \cup {m}), T # {} PROVE Tops(T) # {}
  BY DEF Ranked
<1>1. CASE m \notin T
  BY <1>1 DEF Ranked
<1>2. CASE m \in T
  <2>1. T \ {m} \in SUBSET S /\ T = (T \ {m}) \cup {m}
    BY <1>2
  <2>2. T \ {m} # {} => Tops(T \ {m}) # {}
    BY <2>1 DEF Ranked
  <2>3. Tops((T \ {m}) \cup {m}) # {}
    BY <2>1, <2>2, TopsGrow
  <2> QED
    BY <2>1, <2>3
<1> QED
  BY <1>1, <1>2

\* A step adds at most one member to a book.
LEMMA BookGrows ==
    ASSUME TypeOK, [ServiceStep]_bVars, NEW p \in Products
    PROVE  book'[p] \subseteq book[p] \/ \E m \in Members : book'[p] = book[p] \cup {m}
<1> USE DEF TypeOK, StoreOK, InputsOK
<1>1. ASSUME NEW r \in BidReqs, RequestStep(r)
      PROVE  book'[p] = book[p] \/ book'[p] = book[p] \cup {Member(r)}
  BY <1>1, RequestFrame DEF StoreBid
<1>2. ASSUME NEW m \in StartMsgs, StartStep(m) \/ FailStarted(m)
      PROVE  book'[p] \subseteq book[p] \/ book'[p] = book[p] \cup {InitMember}
  BY <1>2 DEF StartStep, CheckBookExists, AddInitMember, RemoveInitMember, FailStarted
<1>3. ASSUME NEW m \in EndMsgs, EndStep(m) \/ FailEnded(m) PROVE book'[p] = book[p]
  BY <1>3, EndFrame
<1>4. InitMember \in Members
  BY DEF InitMember, Members
<1>5. UNCHANGED bVars => book'[p] = book[p]
  BY DEF bVars
<1> QED
  BY <1>1, <1>2, <1>3, <1>4, <1>5, MemberTyped DEF ServiceStep

\* How a request gets to the steps that need something, and what it keeps for
\* them.
RequestGoesOn(r) ==
    /\ \/ todo'[r] \subseteq todo[r]
       \/ ReadBook(r) /\ todo'[r] = book[body[r].product]
    /\ pc'[r] = "lookup" =>
           \/ pc[r] = "lookup" /\ todo'[r] = todo[r]
           \/ ReadBook(r) /\ todo'[r] = book[body[r].product]
           \/ todo'[r] # {}
    /\ pc'[r] = "announce" =>
           \/ pc[r] = "announce" /\ Outbids(r)' = Outbids(r)
           \/ Outbids(r)' # {}

LEMMA RequestMove ==
    ASSUME TypeOK, [ServiceStep]_bVars, NEW r \in BidReqs
    PROVE  RequestGoesOn(r)
<1> USE DEF TypeOK, RequestsOK, RequestGoesOn, Outbids
<1>1. ASSUME NEW q \in BidReqs, NEW view, ValidateBid(q, view) PROVE RequestGoesOn(r)
  BY <1>1 DEF ValidateBid
<1>2. ASSUME NEW q \in BidReqs, CheckHighest(q) \/ StoreBid(q) \/ PushBid(q)
      PROVE  RequestGoesOn(r)
  BY <1>2 DEF CheckHighest, StoreBid, PushBid
<1>3. ASSUME NEW q \in BidReqs, ReadBook(q) PROVE RequestGoesOn(r)
  BY <1>3 DEF ReadBook
<1>4. ASSUME NEW q \in BidReqs, LookupBid(q) PROVE RequestGoesOn(r)
  <2>1. PICK m \in todo[q] :
           /\ todo' = [todo EXCEPT ![q] = @ \ {m}]
           /\ pc' = [pc EXCEPT ![q] = IF todo[q] = {m} THEN "write" ELSE @]
    BY <1>4, TopsInside DEF LookupBid
  <2>2. UNCHANGED <<body, beaten>> /\ pc[q] = "lookup"
    BY <1>4 DEF LookupBid
  <2> QED
    BY <2>1, <2>2
<1>5. ASSUME NEW q \in BidReqs, WriteOutbid(q) \/ PublishBidOutbid(q) PROVE RequestGoesOn(r)
  BY <1>5 DEF WriteOutbid, PublishBidOutbid
<1>6. ASSUME NEW q \in BidReqs, PublishBidPlaced(q) PROVE RequestGoesOn(r)
  BY <1>6 DEF PublishBidPlaced
<1>7. ASSUME NEW q \in BidReqs, FailRequest(q) PROVE RequestGoesOn(r)
  BY <1>7 DEF FailRequest
<1>8. ASSUME UNCHANGED <<body, pc, todo, beaten>> PROVE RequestGoesOn(r)
  BY <1>8
<1>9. UNCHANGED bVars => UNCHANGED <<body, pc, todo, beaten>>
  BY DEF bVars
<1> HIDE DEF RequestGoesOn
<1> QED
  BY <1>1, <1>2, <1>3, <1>4, <1>5, <1>6, <1>7, <1>8, <1>9, StartFrame, EndFrame
     DEF ServiceStep, RequestStep, BidStep

\* A handler of auction.ended looks for the winner's bid with a winner in hand.
LEMMA FindMove ==
    ASSUME TypeOK, BookInv, [ServiceStep]_bVars, NEW m \in EndMsgs, endPc'[m] = "find"
    PROVE  (endPc[m] = "find" /\ won'[m] = won[m]) \/ won'[m] # {}
<1> USE DEF TypeOK, HandlersOK, InputsOK
<1>1. ASSUME NEW k \in EndMsgs, ReadWinner(k)
      PROVE  (endPc[m] = "find" /\ won'[m] = won[m]) \/ won'[m] # {}
  BY <1>1 DEF ReadWinner, AfterRead, BookInv
<1>2. ASSUME NEW k \in EndMsgs, EndStep(k) \/ FailEnded(k), ~ReadWinner(k)
      PROVE  endPc[m] = "find" /\ won'[m] = won[m]
  BY <1>2 DEF EndStep, FindWinner, CrownWinner, CollectKeys, ExpireBook,
     PublishAuctionWinner, AfterLastStep, FailEnded
<1>3. ASSUME UNCHANGED <<endPc, won>>
      PROVE  endPc[m] = "find" /\ won'[m] = won[m]
  BY <1>3
<1>4. UNCHANGED bVars => UNCHANGED <<endPc, won>>
  BY DEF bVars
<1> QED
  BY <1>1, <1>2, <1>3, <1>4, RequestFrame, StartFrame DEF ServiceStep

LEMMA GoOnStep ==
    ASSUME BiddingAssumption, IInv, GoOnInv, [ServiceStep]_bVars
    PROVE  GoOnInv'
<1> USE DEF IInv, TypeOK, StoreOK, RequestsOK, InputsOK
<1>1. ASSUME NEW p \in Products PROVE Ranked(book'[p])
  <2>1. Ranked(book[p]) /\ book[p] \in SUBSET Members
    BY DEF GoOnInv
  <2>2. CASE book'[p] \subseteq book[p]
    BY <2>1, <2>2 DEF Ranked
  <2>3. ASSUME NEW m \in Members, book'[p] = book[p] \cup {m} PROVE Ranked(book'[p])
    BY <2>1, <2>3, RankedGrow
  <2> QED
    BY <2>2, <2>3, BookGrows
<1>2. ASSUME NEW r \in BidReqs
      PROVE  /\ Ranked(todo'[r])
             /\ pc'[r] = "lookup" => todo'[r] # {}
             /\ pc'[r] = "announce" => Outbids(r)' # {}
  <2>0. RequestGoesOn(r) /\ Ranked(todo[r]) /\ HandlersGoOn
    BY RequestMove DEF GoOnInv
  <2>1. body[r].product \in Products /\ Ranked(book[body[r].product])
    BY DEF Bodies, GoOnInv
  <2>2. Ranked(todo'[r])
    BY <2>0, <2>1 DEF RequestGoesOn, Ranked
  <2>3. pc[r] = "lookup" => todo[r] # {}
    BY <2>0 DEF HandlersGoOn, Tops
  <2>4. ReadBook(r) => book[body[r].product] # {}
    BY DEF ReadBook, KeyInv, Unstored, BookInv
  <2>5. pc'[r] = "lookup" => todo'[r] # {}
    BY <2>0, <2>3, <2>4 DEF RequestGoesOn
  <2>6. pc'[r] = "announce" => Outbids(r)' # {}
    BY <2>0 DEF RequestGoesOn, HandlersGoOn
  <2> QED
    BY <2>2, <2>5, <2>6
<1>3. ASSUME NEW r \in BidReqs, pc'[r] = "lookup" PROVE Tops(todo'[r]) # {}
  BY <1>2, <1>3 DEF Ranked
<1>4. ASSUME NEW m \in EndMsgs, endPc'[m] = "find" PROVE won'[m] # {}
  BY <1>4, FindMove DEF GoOnInv, HandlersGoOn
<1>5. /\ \A p \in Products : Ranked(book[p])'
      /\ \A r \in BidReqs : Ranked(todo[r])'
  BY <1>1, <1>2 DEF Ranked, Tops
<1>6. HandlersGoOn'
  BY <1>2, <1>3, <1>4 DEF HandlersGoOn, Tops
<1> QED
  BY <1>5, <1>6 DEF GoOnInv

LEMMA InitGoOn == ASSUME Init PROVE GoOnInv
BY DEF Init, GoOnInv, Ranked, HandlersGoOn

\* No handler lacks what its next step takes for granted, for any number of
\* bids and messages, with requests that die and messages that come again.
THEOREM NobodyIsStuck == ASSUME BiddingAssumption PROVE Spec => []HandlersGoOn
<1>1. Init => IInv /\ GoOnInv
  BY InitIInv, InitGoOn
<1>2. IInv /\ GoOnInv /\ [Next]_bVars => IInv' /\ GoOnInv'
  BY NextIInv, GoOnStep, NextIsService
<1>3. GoOnInv => HandlersGoOn
  BY DEF GoOnInv
<1> QED
  BY <1>1, <1>2, <1>3, PTL DEF Spec

-----------------------------------------------------------------------------
(* Bids that do not overlap.                                               *)

\* What a request has seen, what it will mark, and who is marked.
ApartMoves(r) ==
    /\ Placing(r)' => \/ Placing(r) /\ prior'[r] = prior[r]
                      \/ prior'[r] = {Stored(body[r].product)} /\ UNCHANGED status
    /\ \A b \in marks'[r] :
           b \in marks[r] \/ (b # r /\ body[b].product = body[r].product)
    /\ status'[r] = "outbid" =>
           status[r] = "outbid" \/ \E q \in BidReqs : WriteOutbid(q) /\ r \in marks[q]

LEMMA ApartMove ==
    ASSUME IInv, [ServiceStep]_bVars, NEW r \in BidReqs
    PROVE  ApartMoves(r)
<1> USE DEF IInv, TypeOK, RequestsOK, StoreOK, ApartMoves, Placing
<1>1. ASSUME NEW q \in BidReqs, NEW view, ValidateBid(q, view) PROVE ApartMoves(r)
  BY <1>1 DEF ValidateBid
<1>2. ASSUME NEW q \in BidReqs, CheckHighest(q) PROVE ApartMoves(r)
  BY <1>2 DEF CheckHighest
<1>3. ASSUME NEW q \in BidReqs, StoreBid(q) PROVE ApartMoves(r)
  BY <1>3 DEF StoreBid
<1>4. ASSUME NEW q \in BidReqs, PushBid(q) \/ ReadBook(q) PROVE ApartMoves(r)
  BY <1>4 DEF PushBid, ReadBook
<1>5. ASSUME NEW q \in BidReqs, LookupBid(q) PROVE ApartMoves(r)
  <2>1. PICK m \in Tops(todo[q]) :
           /\ marks' = [marks EXCEPT ![q] = @ \cup Rivals(q, m)]
           /\ pc' = [pc EXCEPT ![q] = IF todo[q] = {m} THEN "write" ELSE @]
    BY <1>5 DEF LookupBid
  <2>2. \A b \in Rivals(q, m) : b # q /\ body[b].product = body[q].product
    BY FoundInList DEF Rivals
  <2>3. UNCHANGED <<prior, status>> /\ pc[q] = "lookup"
    BY <1>5 DEF LookupBid
  <2> QED
    BY <2>1, <2>2, <2>3
<1>6. ASSUME NEW q \in BidReqs, WriteOutbid(q) PROVE ApartMoves(r)
  <2>1. PICK b \in marks[q] : /\ status' = [status EXCEPT ![b] = OutbidStatus]
                             /\ marks' = [marks EXCEPT ![q] = @ \ {b}]
    BY <1>6 DEF WriteOutbid
  <2>2. UNCHANGED <<pc, prior>>
    BY <1>6 DEF WriteOutbid
  <2>3. status'[r] = "outbid" => status[r] = "outbid" \/ r = b
    BY <2>1
  <2> QED
    BY <1>6, <2>1, <2>2, <2>3
<1>7. ASSUME NEW q \in BidReqs, PublishBidPlaced(q) \/ PublishBidOutbid(q)
      PROVE  ApartMoves(r)
  BY <1>7 DEF PublishBidPlaced, PublishBidOutbid
<1>8. ASSUME NEW q \in BidReqs, FailRequest(q) PROVE ApartMoves(r)
  BY <1>8 DEF FailRequest
<1>9. ASSUME UNCHANGED reqVars,
             \/ UNCHANGED status
             \/ \E m : status' = [b \in BidReqs |-> IF b \in wonBid[m] THEN "winner"
                                                   ELSE status[b]]
      PROVE  ApartMoves(r)
  BY <1>9
<1>10. UNCHANGED bVars => UNCHANGED <<reqVars, status>>
  BY DEF bVars
<1> HIDE DEF ApartMoves
<1> QED
  BY <1>1, <1>2, <1>3, <1>4, <1>5, <1>6, <1>7, <1>8, <1>9, <1>10, StartFrame, EndFrame,
     EndStatus DEF ServiceStep, RequestStep, BidStep

LEMMA ApartStep ==
    ASSUME BiddingAssumption, IInv, BidsApart, ApartInv, [ServiceStep]_bVars
    PROVE  ApartInv'
<1> USE DEF IInv, TypeOK, RequestsOK, InputsOK
<1>0. /\ UNCHANGED body /\ \A r \in BidReqs : ApartMoves(r)
      /\ \A p : Stored(p) \subseteq Stored(p)'
      /\ \A b \in BidReqs : status'[b] # "none" => status[b] # "none" \/ StoreBid(b)
  BY StatusStep, StoredStay, ApartMove DEF bVars
<1>1. ASSUME NEW r \in BidReqs, Placing(r)', NEW S \in prior'[r]
      PROVE  Stored(body[r].product)' \subseteq S \cup {r}
  <2>1. CASE prior'[r] = {Stored(body[r].product)} /\ UNCHANGED status
    BY <1>0, <1>1, <2>1 DEF Stored
  <2>2. CASE Placing(r) /\ prior'[r] = prior[r]
    <3>1. ASSUME NEW b \in Stored(body[r].product)', b \notin Stored(body[r].product)
          PROVE  b = r
      <4>1. b \in BidReqs /\ body[b].product = body[r].product /\ StoreBid(b)
        BY <1>0, <3>1 DEF Stored
      <4>2. Placing(b)
        BY <4>1 DEF StoreBid, Placing
      <4> QED
        BY <2>2, <4>1, <4>2 DEF BidsApart
    <3> QED
      BY <1>1, <2>2, <3>1 DEF ApartInv
  <2> QED
    BY <1>0, <1>1, <2>1, <2>2 DEF ApartMoves
<1>2. ASSUME NEW r \in BidReqs, NEW b \in marks'[r]
      PROVE  b # r /\ body'[b].product = body'[r].product
  BY <1>0 DEF ApartMoves, ApartInv
<1>3. ASSUME NEW b \in BidReqs, status'[b] = "outbid"
      PROVE  \E c \in Stored(body[b].product)' : body[b].amount < body[c].amount
  <2>1. SUFFICES \E c \in Stored(body[b].product) : body[b].amount < body[c].amount
    BY <1>0
  <2>2. CASE status[b] = "outbid"
    BY <2>2 DEF ApartInv
  <2>3. ASSUME NEW q \in BidReqs, WriteOutbid(q), b \in marks[q]
        PROVE  \E c \in Stored(body[b].product) : body[b].amount < body[c].amount
    <3>1. pc[q] = "write" /\ status[q] # "none"
      BY <2>3 DEF WriteOutbid, KeyInv, Unstored
    <3>2. b # q /\ body[b].product = body[q].product /\ status[b] # "none"
      BY <2>3 DEF ApartInv, MarkInv
    <3>3. PICK S \in prior[q] : \A c \in S : body[c].amount < body[q].amount
      BY <3>1 DEF QuoteInv
    <3>4. b \in S
      BY <3>1, <3>2 DEF ApartInv, Placing, Stored
    <3>5. q \in Stored(body[b].product)
      BY <3>1, <3>2 DEF Stored
    <3> QED
      BY <3>3, <3>4, <3>5
  <2> QED
    BY <1>0, <1>3, <2>2, <2>3 DEF ApartMoves
<1>4. ASSUME NEW b \in BidReqs, status'[b] = "outbid"
      PROVE  \E c \in Stored(body[b].product)' : body'[b].amount < body'[c].amount
  BY <1>0, <1>3, <1>4
<1> QED
  BY <1>1, <1>2, <1>4 DEF ApartInv

LEMMA InitApart == ASSUME Init PROVE ApartInv
BY DEF Init, ApartInv, Placing

\* A bid that was beaten is not the highest of its book.
LEMMA BeatenIsLower == ASSUME BiddingAssumption, IInv, ApartInv PROVE HighestNotOutbid
<1> USE DEF IInv, TypeOK, InputsOK, StoreOK
<1> SUFFICES ASSUME NEW p \in Products, NEW r \in Stored(p), Member(r) \in Tops(book[p]),
                    status[r] = "outbid"
             PROVE  FALSE
  BY DEF HighestNotOutbid
<1>1. PICK c \in Stored(p) : body[r].amount < body[c].amount
  BY DEF ApartInv, Stored
<1>2. Member(c) \in book[p] /\ book[p] \in SUBSET Members
  BY DEF BookInv, Stored
<1>3. Member(c).amount <= Member(r).amount
  BY <1>2, TopsHighest
<1>4. body[r].amount \in Nat /\ body[c].amount \in Nat
  BY DEF Stored, Bodies, BiddingAssumption
<1> QED
  BY <1>1, <1>3, <1>4 DEF Member

\* What the comment of markOtherBidsAsOutbid says holds for bids that do not
\* overlap: the highest one is not marked.
THEOREM HighestStandsAlone ==
    ASSUME BiddingAssumption
    PROVE  Spec /\ []BidsApart => []HighestNotOutbid
<1>1. Init => IInv /\ ApartInv
  BY InitIInv, InitApart
<1>2. IInv /\ ApartInv /\ BidsApart /\ [Next]_bVars => IInv' /\ ApartInv'
  BY NextIInv, ApartStep, NextIsService
<1>3. IInv /\ ApartInv => HighestNotOutbid
  BY BeatenIsLower
<1> QED
  BY <1>1, <1>2, <1>3, PTL DEF Spec

-----------------------------------------------------------------------------
(* The refinement of the ledger.                                           *)

LEMMA LedgerInit == ASSUME Init PROVE Ledger!Init
BY DEF Init, Ledger!Init

\* Only four steps move the ledger: the check quotes, StoreBid accepts,
\* WriteOutbid and CrownWinner settle.
LEMMA LedgerStep ==
    ASSUME IInv, [ServiceStep]_bVars
    PROVE  [Ledger!Next]_(Ledger!lVars)
<1> USE DEF IInv, TypeOK, RequestsOK, StoreOK, HandlersOK, Ledger!lVars
<1>1. ASSUME NEW r \in BidReqs, CheckHighest(r) PROVE Ledger!Quote(r)
  <2>1. Ledger!Standing(body[r].product) = Stored(body[r].product)
    BY DEF Ledger!Standing, Stored
  <2> QED
    BY <1>1, <2>1 DEF CheckHighest, QuoteInv, Ledger!Quote
<1>2. ASSUME NEW r \in BidReqs, StoreBid(r) PROVE Ledger!Accept(r)
  BY <1>2 DEF StoreBid, KeyInv, Unstored, QuoteInv, Ledger!Accept
<1>3. ASSUME NEW r \in BidReqs, WriteOutbid(r)
      PROVE  \E b \in BidReqs : Ledger!Settle(b)
  BY <1>3 DEF WriteOutbid, OutbidStatus, MarkInv, Ledger!Settle
<1>4. ASSUME NEW m \in EndMsgs, CrownWinner(m)
      PROVE  (\E b \in BidReqs : Ledger!Settle(b)) \/ UNCHANGED Ledger!lVars
  <2>1. CASE wonBid[m] = {}
    BY <1>4, <2>1 DEF CrownWinner
  <2>2. CASE wonBid[m] # {}
    <3>1. PICK b \in BidReqs : wonBid[m] = {b} /\ status[b] # "none"
      BY <2>2 DEF MarkInv
    <3>2. status' = [status EXCEPT ![b] = "winner"]
      BY <1>4, <3>1 DEF CrownWinner
    <3> QED
      BY <1>4, <3>1, <3>2 DEF CrownWinner, Ledger!Settle
  <2> QED
    BY <2>1, <2>2
<1>5. ASSUME NEW r \in BidReqs, RequestStep(r),
             ~CheckHighest(r), ~StoreBid(r), ~WriteOutbid(r)
      PROVE  UNCHANGED Ledger!lVars
  BY <1>5 DEF RequestStep, BidStep, ValidateBid, PushBid, ReadBook, LookupBid,
     PublishBidPlaced, PublishBidOutbid, FailRequest
<1>6. ASSUME NEW m \in StartMsgs, StartStep(m) \/ FailStarted(m)
      PROVE  UNCHANGED Ledger!lVars
  BY <1>6 DEF StartStep, CheckBookExists, AddInitMember, RemoveInitMember, FailStarted
<1>7. ASSUME NEW m \in EndMsgs, EndStep(m) \/ FailEnded(m), ~CrownWinner(m)
      PROVE  UNCHANGED Ledger!lVars
  BY <1>7 DEF EndStep, ReadWinner, FindWinner, CollectKeys, ExpireBook,
     PublishAuctionWinner, FailEnded
<1>8. CASE UNCHANGED bVars
  BY <1>8 DEF bVars
<1> QED
  BY <1>1, <1>2, <1>3, <1>4, <1>5, <1>6, <1>7, <1>8 DEF Ledger!Next, ServiceStep

\* The bidding service implements the ledger of bids.
THEOREM Refinement == ASSUME BiddingAssumption PROVE Spec => ImplementsLedger
<1>1. Init => Ledger!Init
  BY LedgerInit
<1>2. IInv /\ [Next]_bVars => [Ledger!Next]_(Ledger!lVars)
  BY LedgerStep, NextIsService
<1> QED
  BY <1>1, <1>2, Inductive, PTL DEF Spec, ImplementsLedger, Ledger!Spec

=============================================================================
