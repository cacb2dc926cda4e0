# AuctionHub: a TLA+ model of the auction

AuctionHub is an auction platform of five NestJS services behind a gateway. Sellers publish
products and run an auction on each; buyers bid. This directory holds TLA+ modules of all five
services and of the messages between them, TLC configurations, and proofs for TLAPS. Paths below
are relative to the repository (`src/`).

    tlc -workers 2 -config MCBidding.cfg MCBidding     # check a run
    tlapm BiddingProofs.tla                            # check the proofs

## 1. The system

| component | state | operations | talks to |
|---|---|---|---|
| bidding service `apps/bidding-service` | Redis: `bid:{id}`, sorted set `bids:{productId}`, list `user:bids:{userId}` | `POST /bids`; consumers of `auction.started`, `auction.ended`; three reads | product service (HTTP), RabbitMQ |
| product service `apps/product-service` | MongoDB: one document for a product with its auction | create, update, delete, start-auction, end-auction; consumers of `bid.placed`, `auction.winner`; reads | user and bidding service (HTTP), RabbitMQ |
| RabbitMQ library `libs/rabbitmq` | durable queues | `publish`, `subscribe` (ack after the handler, nack without requeue, no prefetch) | |
| auth service `apps/auth-service` | Redis: `session:{id}`, `refresh:{token}`, `refresh_user:{userId}` | register, login, logout, refresh, verify | user service |
| user service `apps/user-service` | MongoDB: users | create, update, soft delete, credentials | RabbitMQ (`user.created`) |
| recommendation service `apps/recommendation-service` | Neo4j graph | consumers of six queues, ranking queries | RabbitMQ |
| shared library `libs/shared` | none | guards, errors, `AUCTION_TRANSITIONS` | |
| health library, gateway, deployment scripts | none of their own | pings, routing, replica set and Sentinel set-up | |

How they interact in an auction:

    seller --start/end--> product service --auction.started, auction.ended--> bidding service
    buyer  --POST /bids-> bidding service --bid.placed, auction.winner------> product service
    bidding service --GET /products/:id--> product service        (before a bid is stored)
    product service --GET /bids/product/:id/highest--> bidding service   (when an auction ends)

Around it:

    auth service --create user, check password, find by id--> user service        (HTTP)
    user service    --user.created--------------------------> recommendation service
    product service --product.created, product.viewed, auction.ended--> recommendation service
    bidding service --bid.placed, auction.winner------------> recommendation service

Every other service trusts the access token (a JWT) and looks at no session.

### What is hard

Nothing is locked and no write is conditional. Every handler reads, awaits, and writes what
follows from its read:

- `placeBid` reads the product once, reads the highest bid once, stores the bid with a Redis
  *pipeline* (its comment says atomic; it is no MULTI), then re-reads the whole book and marks
  what was active. Overlapping requests interleave at each await.
- The product service checks a status and later writes with a filter that names only the id and
  `deletedAt: null`. `handleBidPlaced` writes `totalBids + 1` of an earlier read.
- A subscriber starts a handler for each message at once (no prefetch), so messages of a queue
  are handled in any order and interleaved. A message whose handler throws is dropped; one whose
  process stops is delivered again. A `publish` that throws is swallowed by the product service.
- `end-auction` asks for the highest bid while bids still come in, and the bidding service
  announces a winner of its own later: two writers of one field.
- `endTime` is stored and never enforced: nothing in the code ends an auction but the seller.
- `createUser` looks for the address, hashes the password, and inserts; the auth service then
  writes three Redis keys one by one, without MULTI. `refresh_user:{userId}` holds one token
  although a user may be logged in several times, and a refresh deletes it whatever it names.
- A refresh validates, deletes and issues in separate calls; the account may be deleted in between.
- The recommendation graph is filled from six queues in no order: a bid may come before its user or
  product has a node, and `SIMILAR_TO` is deleted and rebuilt in two transactions while the update of
  another product does the same.

### What makes each component correct

- *Bidding service*: a stored bid beats what stood before it; at most one bid is active once the
  requests are past their marks; the announced winner is no lower than any bid that was there; bids
  are never removed and never return to active.
- *Product service*: a deleted product stays as it is; the lifecycle moves forward; a winner is
  not taken away; only overlapping requests can start an auction twice.
- *Both together*: price, count and winner of the document are backed by bids in the book; when
  all is quiet they agree on the winner; stored bids and ended auctions are handled in the end.
- *User service*: one account per address, also when registrations overlap; a deleted account is
  written no more.
- *Auth service*: tokens are issued only to accounts found live, and one that is over stays over; a
  refresh token is exchanged twice only by overlapping refreshes; a logout finds a live token to
  delete, as long as nobody has logged out and nothing expired before.
- *Recommendation service*: what the graph says of two products is backed by bids they share; an
  update that overlaps no other one is exact until the next bid or view; a product is listed once; a
  bid or view that was handled counts for good, whatever the order and however often delivered.

`PROJECT.json` lists the hazards, each at its line, with the properties that cover it.

## 2. The modules

| module | models |
|---|---|
| `BiddingService` | `bid.service.ts`, `bid.repository.ts`, `bid-message.consumer.ts`: the store and the steps of each handler |
| `BidLedger` | abstract specification of the store of bids: quote, accept, settle |
| `ProductService` | `product.service.ts`, `product.repository.ts`, `product.controller.ts`, `product-message.consumer.ts` |
| `AuctionHub` | both services, the two HTTP calls and the four queues between them |
| `Auction` | abstract specification of what both promise together: list, begin, accept, follow, name, conclude, remove |
| `UserService` | `user.service.ts`, `user.repository.ts`, `user.controller.ts`: accounts |
| `AuthService` | `auth.service.ts`, `session.repository.ts`, `user-client.service.ts`, over `UserService` |
| `AccessLedger` | abstract specification of accounts and tokens: open, admit, give, revoke, close |
| `RecommendationGraph` | `recommendation-message.consumer.ts`, `recommendation.repository.ts`, `recommendation.service.ts` |
| `MCBidding`, `MCProduct`, `MCAuctionHub`, `MCAuthService`, `MCRecommendation` | instances for TLC |
| `BiddingProofs`, `ProductProofs`, `HubProofs`, `HubQuietProofs`, `AuctionProofs`, `AuthProofs`, `RecommendationProofs` | theorems and their proofs |

### BiddingService

`status` is the content of `bid:{id}` ("none" when there is no key; no other field of a bid ever
changes, so its body is the constant `body`), `book` the sorted sets, `userBids` the lists (oldest
first, the reverse of LPUSH), `bidExpires` and `bookExpires` the keys with a TTL. A `POST /bids`
walks `pc`:

| action | code |
|---|---|
| `ValidateBid` | role check of the controller; `isAuctionActive` and the checks on its answer |
| `CheckHighest` | `getHighestBid` and `amount <= highestBid.amount` |
| `StoreBid`, `PushBid` | SET with ZADD, and LPUSH, of the pipeline |
| `ReadBook`, `LookupBid`, `WriteOutbid` | `markOtherBidsAsOutbid`: ZREVRANGE; for each member LRANGE and GETs; then a write for each bid found active |
| `PublishBidPlaced`, `PublishBidOutbid` | the two events |
| `FailRequest` | the request throws or its process stops, between any two of these |

The consumers are `CheckBookExists`, `AddInitMember`, `RemoveInitMember` (`initializeProductBids`
with its dummy member `__init__`) and `ReadWinner`, `FindWinner`, `CrownWinner`, `CollectKeys`,
`ExpireBook`, `PublishAuctionWinner` (`handleAuctionEnded`). `FailStarted` and `FailEnded` drop a
message or deliver it again; the ack after the last step may get lost too (`AfterLastStep`).

Which steps are merged, and why that hides nothing:

- SET and ZADD: nobody can name the new key before LPUSH.
- LRANGE and the GETs of one lookup: a list only grows at its front, the fields compared never
  change, and the status that matters is the one of the GET that finds the bid; the list read a
  moment earlier can only lack a bid that was pushed later, which is the same as
  looking up earlier. (Only a shadowing bid pushed in between could tell; see below.)
- GET and SET of `updateBidStatus`: the status is the only field that changes, so the SET writes
  the new status whatever the GET saw.
- The reads of `setAuctionEndedTTL`, and its EXPIREs: they decide only which keys age, and a TTL
  is 30 days. Passing properties do not depend on it; that a TTL then runs out is not modelled.

Members are looked up by user, product and amount, as the code does; a lookup that finds nothing is the
fallback with a made-up id (`{}`), which no write can find. Two bids with the same user and
amount shadow each other, and two in the same millisecond are one member; `Stamps`
bounds the clock readings. Amounts are naturals, although the code takes any positive number: only
their order matters, and score and amount in the member print the same number.

`prior` and `seen` are history variables: what was stored when a request checked the highest bid and when a
handler read the winner. `InitUser`, the user of `__init__`, is 0; users are numbered in the byte
order Redis uses for equal scores.

### ProductService

`product` holds the documents: whether they exist or are deleted, seller, status, prices, count and
winner; the fields no decision reads (title, times, images) are left out, and so are the
`product.*` events, which only the recommendation service consumes. A request (`call`) walks `ppc`:
`CheckProduct` is its reads and early returns, `AskWinner` the call to the bidding service, then
`UpdateProduct`, `StartAuction` or `EndAuction` writes and `PublishAuction` publishes. Create and
delete each write once and have no read that can go stale in a way that matters: the seller's role and
the owner of a product never change. `ReadForBid` and `WriteBidInfo` are the two halves of `handleBidPlaced`,
`ApplyWinner` is `handleAuctionWinner`. `FailCall`, `RestartConsumers` and
`DropMessage` are the failures.

On its own the module may be given any messages (`BidMsgs`, `WinMsgs`) and any answer to
`AskWinner`, so what holds here holds whatever the bidding service does; `BiddingService`
likewise takes any answer of the product service (`Views`).

### AuctionHub

EXTENDS `BiddingService`, instantiates `ProductService` as `P`, and replaces the open ends: the view is read
from the document, the answer of `AskWinner` from the book, and a publish of one service
puts the message in the queue of the other. A message is named by the request that published it.

The whole implements `Auction`, which knows no requests, messages or handlers: a bid is accepted only
after its auction was begun, and never from the seller; a price is one the seller asked or an accepted
bid; somebody is *named* only while highest (or as nobody, `InitUser`, while there is no bid), and only
a name may be written as the winner, at any later time. The mapping (`Sale`) takes the keys `bid:{id}` for
the accepted bids, and for the names the answers of `GET /bids/product/:id/highest` with what the handlers
of `auction.ended` have read and announced. `Auction` is as weak as the code: an auction may begin again,
bids may come late, a name may be overtaken before it is written, or lost with the handler that read it
(`Forget`), and the counter of bids is left open.

### UserService and AuthService

An account, a session and a refresh token are named by the request that made them: `account` is the
collection (`deletedAt` makes "deleted" of "live"), `profile` which update wrote a document last,
`session` and `token` the keys `session:{id}` and `refresh:{token}`, `latest` the mapping
`refresh_user:{userId}`. A request (`ask`) presents the tokens that the answer to another one (`by`)
held, and walks `pc`:

| action | code |
|---|---|
| `CheckEmail`, `InsertUser` | `existsByEmail`; `save()` against the unique index, which also knows deleted accounts |
| `ValidateCredentials`, `GetUser` | the calls of a login and of a refresh to the user service |
| `FindUser`, `WriteUser`, `DeleteUser` | `updateUser` in two steps, `deleteUser` in one |
| `StoreKeys`, `MapToken` | `createSession` with SETEX `refresh:`, then SETEX `refresh_user:` and the answer |
| `ValidateToken`, `ReadToken`, `DelToken`, `DelMapping` | `refreshToken` up to the new session |
| `GetSession`, `DelSession`, `ReadMapping`, `DelMapped`, `ClearMapping` | `logout` |
| `Verify`, `PurgeSession` | `verify`, which deletes a session past its `expiresAt` |
| `ExpireSession`, `ExpireToken`, `ExpireMapping` | the clock: a key is first past its `expiresAt` ("late"), then evicted ("expired"), or evicted at once |
| `FailRequest` | the process stops, or a call answers with an error, at any step |

Merged: the session and `refresh:{token}` of one request, which nobody can name before the answer; the
check of the password with the read before it. A request is answered within the TTLs (`Passed`).
`spent` is a history variable: who had already been granted a refresh with a token when it was
validated. A request that never gets past its guard or DTO is one that never begins.

### RecommendationGraph

`event` says what each message holds and `stage` where it is (unsent, queued, "linking" between the two
statements of its handler, acked, lost). `role` and `listed` are the nodes, `viewed`, `bid` and `won`
the edges, `similar` the scores of `SIMILAR_TO` by direction. A step is one statement of the
repository, which Neo4j runs as one transaction; `Publish` respects only what the other services make
certain (a product is created before it is bid on), never the order of two queues. `Recommended` and
`SimilarRows` are what the two queries return up to order and LIMIT.

The history variables serve the properties: `known` are the messages published when their product had
its node, `half` the products whose update stopped between its statements, `current` those updated
after the last edge was added, and `clash` becomes true when the updates of two products overlap.

### Definitions named after a slip

Before some definitions stands a variant of it with a plausible slip (`TooLow_Strict` beside
`TooLow`). No specification uses them; each one put in place of its definition makes the
properties listed with it under "mutants" in `PROJECT.json` fail, which shows that they can.

## 3. The runs

All have `CHECK_DEADLOCK FALSE`: requests are finitely many and nobody must send one, so every
behaviour may stop.

| run | instance | shows |
|---|---|---|
| `bids` | 3 bids, 2 users, 3 amounts, any bodies, requests that stop | `TypeOK`, `OutrunsEarlierBids`, `OneActiveBid`, `OutbidIsDue`, `ImplementsLedger` |
| `products` | one product, create, start, end and one more request of any kind, 3 messages, faults | `TypeOK`, `DeletedIsFrozen`, `NoWayBack`, `LaterStartRefused` |
| `hub` | both services over a whole auction: two overlapping bids, or one bid (of a buyer or the seller) and a second start or end, an update or a delete | `PriceIsBacked`, `CountIsBacked`, `WinnerIsEligible`, `WinnerAgreement`, `WinnerOutrunsSeen`, `WinnerStands`, `BidsAreReflected`, `BookIsExact`, `ImplementsAuction` |
| `hub_faults` | 1 bid, start, end; requests die, messages are lost or repeated | `PriceIsBacked`, `WinnerIsEligible`, `WinnerOutrunsSeen`, `HandlersGoOn` |
| `hub_live` | 1 bid, start, end, delete, fairness | `StoredBidIsHandled`, `EndedIsSettled` |
| `accounts` | 4 requests of any kinds on one address, one login whose keys expire, faults | `TypeOK`, `OneAccountPerEmail`, `SuccessorsOverlap`, `LatestIsLive`, `DeletedIsFrozen`, `ImplementsAccess` |
| `recommendations` | 8 messages in any order, 2 users, 3 products, one message lost or repeated | `TypeOK`, `SimilarIsBacked`, `ListedOnce`, `UpdatedIsCurrent`, `HistoryIsFollowed` |

Five runs end in a counterexample: the code does not do what a comment or the README of the
repository says.

- `overlap` (`HighestNotOutbid`): two bids of different users and amounts pass their checks together;
  the higher one is stored, the lower one is stored after it, reads the book and marks the higher
  one outbid, itself staying active. Bodies differ (`MCRivals`), so that one bid is the highest, and the
  auction is a third user's (`MCRunning`). "Mark all other bids ... (except the highest)" exempts the caller's bid.
- `expiry` (`ExpiryIsKept`): a mark that was under way when `auction.ended` was handled rewrites the
  key with SET, which drops its TTL.
- `restart` (`LifecycleForward`): two overlapping `start-auction` requests around an
  `end-auction`: active again after ended.
- `dummy` (`WinnerIsBidder`): an `end-auction` that asks for the highest bid between ZADD and ZREM of
  `__init__` stores `__init__` as the winner.
- `logout` (`LogoutEndsLogin`): with two logins, logging out of the first deletes the refresh token of
  the second, and the token of the login that ended stays valid.

### Bounds

- *Bids*: two overlap in every way two can; the third one in `bids` covers a bid that
  is both marked and marking, and shadowing by a pair while a third one looks. The theorems cover any number.
- *Products*: one. Bids on other products share only the user's list, and lookups filter by
  product; the proofs have any number of products.
- `OneBidAtStart` (a state constraint of `hub`): until an `auction.started` has been handled, one bid
  at most has been sent. Two bids overlap each other and every later handler; the dummy of
  `initializeProductBids` meets one bid at a time. `hub` checks safety properties only.
- *Amounts* 1..3 give all orders of three bids; *Users* two buyers and, in the hub, a seller.
  *Stamps* is one reading: equal readings are the hard case (members may coincide).
- *Views* in `bids` and `expiry` (`MCViews`): a running auction with and without a price, with each user as its seller,
  an ended one, and none. In the hub views are read from the document.
- *Requests* to the product service are one of each kind plus one more of any kind: the races
  there are between one handler's read and write and one other handler.
- `MaxCount` stops `totalBids` at 2 where faults deliver a message again; it is in the guard of
  `WriteBidInfo` and binds only with `Faults`. In `hub_faults` no property counts bids.
- *Accounts*: one address, since nothing relates two of them but the check of the index. Four requests
  are a registration, a competing one or a login, and two more: enough for two refreshes of one token
  next to a login, or a logout between two logins. `Aging` = {r1}: the first login's keys expire, the
  others' do not.
- *Messages* of `MCRecommendation`: `History` (one user acts in two categories, a seller looks),
  `Auctions` (two auctions with a common bidder and viewer end) and `Again` (one auction ends three
  times, another one once). `Flaky` = {7}: the message that is lost or repeated is a bid, or an
  `auction.ended`, in turn. The theorems have any messages, any of them flaky.
- *Symmetry* in `MCBidding`: bids and messages are interchangeable (no property or constant names
  one), used with invariants and safety properties only. The hub names its requests: no symmetry.

### Fairness (`hub_live`)

Weak fairness of each request's and each handler's steps after the first, and of delivery. Node
runs a handler that has started as long as the process lives, and RabbitMQ delivers a durable queue to its
consumer. There is none for sending requests (`ValidateBid`, `CheckProduct`, `CreateProduct`, `DeleteProduct`)
and the run is without faults: with them a stored bid may never be announced, and the code
has no outbox or retry that would promise it.

### Only true under the stated condition

- `WinnerAgreement` speaks of quiet states where no bid was stored after a handler of
  `auction.ended` had read the book: `placeBid` reads the status once, so a late bid can be higher
  than the announced winner. It and `CountIsBacked` are checked without faults: a lost
  `auction.winner` leaves the earlier answer, and a redelivered `bid.placed` is counted again.
- `WinnerStands` has no such condition: whatever came late, the winner is a bidder whose bid is not
  below any bid that every handler of `auction.ended` had found. It too is checked without faults.
- `BidsAreReflected` says nothing of the price once an update was written (`NeverRepriced`): an
  update that passed its check in draft may be written over the price of a bid. It and
  `BookIsExact` are checked without faults: a lost `bid.placed` is never counted, and a handler of
  `auction.started` that dies between ZADD and ZREM leaves `__init__` in the book for good
  (delivered again, it finds the book there and does nothing).
- A `bid.outbid` may be addressed to the user `__init__` (`OutbidIsDue` says so): the highest bid that
  `placeBid` reads may be the dummy.
- `HandlersGoOn` is the safety half of liveness: behind the code's own null checks there is always a
  member, a user to tell, a highest bid. That the step is then taken is `hub_live`.
- `OneActiveBid` leaves out shadowed bids (same user, product and amount), which the lookup cannot
  tell apart.
- `LatestIsLive` holds as long as nobody logs out and nothing expires or fails. With a logout the
  mapping of another login goes too (the `logout` counterexample).
- `ListedOnce` and `UpdatedIsCurrent` hold as long as no two updates overlapped. Two that do each make
  a relation, one in either direction, and `getSimilarProducts` then has two rows for the product.
- `SuccessorsOverlap` does not say that a token is exchanged once: two refreshes that overlap both
  succeed.

## 4. The proofs

`BiddingProofs` (assumption: `BiddingAssumption`, types of the constants; bids, users, products and
messages may be any sets, finite or not; with or without faults). The steps are those of
`ServiceStep`, in which a request may get any answer from the product service, so that the same
lemmas serve the service alone and inside `AuctionHub`:

- `TypeCorrect`, `Inductive` (`IInv`), `EarlierBidsAreLower` (`OutrunsEarlierBids`),
  `AtMostOneActive` (`OneActiveBid`), `WinnerIsHighest` (`WinnerOutrunsSeen`), `OutbidsAreDue`
  (`OutbidIsDue`), `NobodyIsStuck` (`HandlersGoOn`), `HighestStandsAlone`, and `Refinement`
  (`ImplementsLedger`).
- Why `IInv`: that a bid read at the check is still what the bid has to beat needs `QuoteInv`
  (the claim from the check on, before the bid is stored). That at most one of two bids stays
  active needs `PairInv`: of two active bids, one has still to mark the other
  (`WillMark`). This rests on `BookInv` (a stored bid is in its book, so the later reader sees
  it), `ListInv` (and in its user's list, so the lookup finds it) and `KeyInv` (a bid has a key
  from `StoreBid` on). `MarkInv` says that what is marked or crowned was stored. Book members
  are ordered strictly (`AboveOrders`), so that growing a book by one member keeps a highest one
  (`TopsGrow`) without induction.
- `OutbidsAreDue` adds `NoticeInv`: from the check on, the member a request is going to outbid is lower
  than its own bid and was stored (or is the dummy), and its own bid is announced first.
- `NobodyIsStuck` adds `GoOnInv`: every part of a book has a highest member (`Ranked`), because books
  start empty and grow by one member at a time (`TopsGrow`). No induction over a book is needed.
- `HighestStandsAlone` is about bids that do not overlap; see "Promises with a condition" below.
- A request that dies keeps `WillMark` vacuously ("lost"): `OneActiveBid` speaks only of
  requests that were past their marks.

`ProductProofs` (assumption: `ProductAssumption`): `TypeCorrect`, `Inductive` (`PInv`),
`DeletedStays` (`DeletedIsFrozen`), `NoStepBack` (`NoWayBack`), `LaterStartLoses`
(`LaterStartRefused`). `PInv` adds that an absent document is empty (`AbsentInv`; a create would otherwise
step back) and that a product some start has written has left draft (`StartedInv`).

`HubProofs` (assumption: those of the three modules, `HubAssumptions`; any number of products, bids and
requests):

- `HubInductive` (`HubInv`, with faults) and from it `PricesAreBacked`, `WinnersAreEligible`,
  `HubWinnerIsHighest` (`WinnerOutrunsSeen`). `HubInv` joins `IInv`, carried over from
  `BiddingProofs`, and the types of the product service with what is on its way between the two:
  `MessageInv` (a `bid.placed` in the queue or in a handler repeats a stored, announced bid),
  `NamesInv` (whoever is read, answered, announced or written as winner is in the book),
  `SellerInv` (a request that was let through does not bid on its own product) and `SeenInv`. Prices are
  backed because a price is written from such a message or is the starting price; the seller is never the
  winner because nobody in the book is.
- `HubKeepsLedger`, `HubEarlierBidsAreLower`, `HubAtMostOneActive`, `HubOutbidsAreDue`, `HubNobodyIsStuck`: what
  `BiddingProofs` shows of the service alone, of the service that talks to the real product service.
  Its steps are steps of `ServiceStep` (`HubService`), so the step lemmas are cited, not repeated.

`HubQuietProofs` (the same assumptions, without faults: `QuietAssumptions`):

- `CountsAreBacked` (`CountIsBacked`; finitely many bid requests): `totalBids` is at most
  the number of bids whose message was handled (`Handled`), and so is the count a handler holds between
  its read and its write (`CountInv`); handling a message adds its bid to that set, so the
  lost update of two overlapping handlers only makes the counter smaller.
- `WinnersAgree` (`WinnerAgreement`), from `QuietInductive` (`QuietInv`): `ConcludedInv` says that among the `end-auction`
  requests of a product that were concluded, one has left its own winner in the document, unless one is
  still on its way to publish or to be handled. When all is quiet there is none on its way,
  and the winner it read is the highest of the book.
- `WinnersStand` (`WinnerStands`) adds that what handlers have seen stays stored (`StandInv`): the request
  that has left its winner read the book with all of that in it, however the others were ordered.
- `BidsReflected` (`BidsAreReflected`): `ReflectInv` says that a product one of whose messages was handled
  counts at least one bid and shows the amount of one. A handler writes its own amount with a
  count one above what it read, so overlapping handlers lose updates and never the whole
  reflection. When all is quiet every stored bid was announced and handled (`QuietInv` is not needed).
- `BooksAreExact` (`BookIsExact`): `DummyInv` says that a book holds the dummy only while some handler
  of `auction.started` for that product is about to remove it.
- `WinnersHaveBid`: see "Promises with a condition".

`AuctionProofs` (same assumptions, with faults; the run `hub` checks it without): `SaleRefinement`
(`ImplementsAuction`). Each step of the hub
is a step of `Auction` or is not seen: storing a bid accepts it, a read of the highest bidder names
it (`NameSeen`), a write of the product service lists, reprices, begins, follows, concludes or
removes. It needs `HubInv` and two more facts, `SaleInv` in all: `BegunInv` (who was let through to
bid, to ask, or to end has found the auction begun, and no step makes it a draft again, which follows
from the refinement itself) and `NamedInv` (a name read by a handler that starts again was announced, so that
the next read does not take it away; an answer is given once). `SaleInductive` is that `SaleInv` holds.

From the refinement follow, in the composition, the promises of the product service about its documents:
`HubDeletedStays` (`DeletedIsFrozen`) and `HubNoStepBack` (`NoWayBack`) from what a step of `Auction` may do to
a document (`SaleMoves`), and `HubLaterStartLoses` (`LaterStartRefused`) with `StartedInv`. They do not
follow from `ProductProofs`: there messages may be any, but they come from the start, whereas the hub
adds them on the way.

### Promises with a condition

Three of the five counterexamples need an overlap. For each, a theorem names the overlap and shows that
without it the promise holds, for any number of requests:

| run | theorem | as long as | holds | because |
|---|---|---|---|---|
| `overlap` | `HighestStandsAlone`, `HubHighestStandsAlone` (with faults) | `BidsApart`: no two requests for one product are between `placeBid`'s look at the highest bid and its last mark | `HighestNotOutbid` | `ApartInv`: a request that is alone looked at all the other bids, so it marks only beaten ones |
| `restart` | `LifecycleKept` (with faults) | `StartsApart`: no two requests to start a product are between the check of its status and the write | `LifecycleForward` | `DraftInv`: who is about to start a product still finds it a draft, as only an auction that was begun is ended |
| `dummy` | `WinnersHaveBid` (without faults) | `DummyUnread`: nobody is about to read the book of a product while a handler of its `auction.started` is between ZADD and ZREM | `WinnerIsBidder` | `RealNamesInv`: whoever is read, answered, announced or written has bid |

The conditions speak of what is under way and not of the outcome; a sequential use of the services meets
them. They are assumed of the whole behaviour (`Spec /\ []Condition => ...`). `ExpiryIsKept` and
`LogoutEndsLogin` have no such theorem: the first would exclude bids that are marked while an auction ends,
which is its whole content, and the second fails with two logins and no overlap.

`AuthProofs` (assumption: `UserAssumption`; any requests, addresses, expiry and faults): `TypeCorrect`,
`Inductive` (`AInv`), `EmailIsUnique`, `RotationWorks` (`SuccessorsOverlap`), `MappingIsLive`
(`LatestIsLive`), `DeletedStays` (`DeletedIsFrozen`) and `Refinement` (`ImplementsAccess`). Why `AInv`:
`StepInv` ties a request's place to what it has (an account from the step that found it live, keys from
`StoreKeys` on); `NamedInv` says that what a mapping or a logout names was answered;
`RefreshInv` that a request past `DelToken` leaves the token deleted, so that a later one is not
validated; `OwnerInv` and `MappingInv` that, in calm states, a mapping is live or a request
is on its way to write it (`WillMap`). The refinement maps a request that may be issued a token to a grant:
owed from the step that found the account live, live with its key, over when the key is gone or the request
has stopped.

`RecommendationProofs` (assumption: `GraphAssumption`; users finite, so that shared bidders can be
counted; any messages, any of them lost or repeated): `TypeCorrect`, `Inductive` (`RInv`),
`SimilarityIsBacked`, `UpdatesAreCurrent`, `NoDuplicates` (`ListedOnce`), `HistoryCounts`
(`HistoryIsFollowed`). `NodeInv` carries the existence of a node from publishing to linking, and the edge
from there on; `RebuildInv` says that without a clash one product at a time is rebuilt,
nothing points to it meanwhile, and no two products point to each other.

Model-checked only: the liveness properties of `hub_live` (liveness under fairness, and ENABLED, are
beyond the prover; `HandlersGoOn` is what can be proved of them) and the five counterexamples. Every
invariant and every other action property or refinement that a passing run checks is a theorem.

## 5. Not modelled

- Guards, DTO validation, error mapping, health checks, listing and filtering: no state. A user's role
  is a constant (`Buyers`, `Sellers`), as a role never changes after registration.
- Signing and parsing of JWTs and of TTL strings: a token is a name, and a TTL a step of the clock.
- Methods without a caller: `createSimilarToRelationship`, `deleteUserNode`, `deleteProductNode`,
  listing users by role; queues without a listener: `user.updated`, `user.deleted`,
  `product.updated`, `product.deleted`, `bid.outbid`.
- Fields that no decision reads: titles, images, start and end times, password hashes; `viewCount` and
  timestamps of the graph's edges, which are written and never read.
- The gateway, Redis Sentinel, the MongoDB replica set: third-party. A failover
  appears as requests and handlers that fail between two steps; acknowledged writes that a failover
  loses do not appear.
- Bid keys that expire after 30 days, and reconnection to RabbitMQ (the library has none).

## 6. Plan

Done, in order: `BiddingService` with `BidLedger`; `ProductService`; `AuctionHub`; `BiddingProofs`;
`ProductProofs`; `UserService`, `AuthService` with `AccessLedger`; `RecommendationGraph`;
`AuthProofs`; `RecommendationProofs`; `HubProofs`; `Auction` with `AuctionProofs`; the promises about quiet
states (`HubQuietProofs`), those of each service carried over to the hub, and those with a condition.

Next:

1. `RecommendationGraph` fed by `AuctionHub` instead of by `Publish`, to say which bids an update
   counts.
2. Two bids with faults in the hub, which the theorems cover and the runs do not.
