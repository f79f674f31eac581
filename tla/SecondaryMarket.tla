-------------------------- MODULE SecondaryMarket --------------------------
(***************************************************************************)
(* The secondary market of one event, from open_secondary_market on:       *)
(* holders list their share tokens, others bid on the listings, sellers    *)
(* accept bids or cancel, and a backend reports trades and prices.         *)
(*                                                                         *)
(* One action is one instruction.  Neither the listed price nor the bid's  *)
(* is compared with anything but the range 0..1 SOL, and no lamports move: *)
(* prices are left out.  Listings, locks and bids are never closed, so     *)
(* that their ids are used once; an id of 0, which the handlers refuse, is *)
(* not among the ids.                                                      *)
(***************************************************************************)
EXTENDS Integers, FiniteSets, Functions

CONSTANTS
  Traders,          \* the wallets that trade
  OrderIds,         \* the u64 ids that sellers give their listings
  BidIds,           \* the u64 ids that buyers give their bids
  NoAccount,        \* what a PDA holds before `init`
  NoOrder,          \* None in lock_order_id
  MatchedPairs,     \* the pairs that match_orders made in the primary market
  MaxOrderQuantity, \* MAX_ORDER_QUANTITY
  MaxPairQuantity,  \* 500 in mint_shares
  OrderExpiry,      \* ORDER_EXPIRY_SECONDS
  BidExpiry,        \* BID_EXPIRY_SECONDS
  SnapshotInterval, \* PRICE_SNAPSHOT_INTERVAL
  MaxBatchTrades,   \* MAX_BATCH_TRADES
  MaxU64,
  OpenedAt,         \* the time of open_secondary_market
  EventStartTime,   \* event.event_start_time
  EndOfTime,        \* the clock is not followed beyond this point
  AdminStatuses     \* the statuses the admin passes to update_event

ShareType == {"Yes", "No"}
EventStatus == {"Created", "Active", "PrimaryClosed", "SecondaryActive",
                "Settled", "Resolved"}
SecondaryMarketStatus == {"Closed", "Open", "Paused"}
SecondaryOrderStatus == {"Active", "PartiallyFilled", "Filled", "Cancelled",
                         "Expired"}
SecondaryBidStatus == {"Pending", "Accepted", "Rejected", "Expired", "Settled"}
LockStatus == {"Locked", "Unlocked", "Released"}

\* A share token's address is made of its owner and its side; a token that is
\* not yet minted has no shares.
Tokens == Traders \X ShareType

ShareToken == [quantity : Nat, lock_order_id : OrderIds \cup {NoOrder}]
SecondaryOrder ==
  [seller : Traders, locked_share_token : Tokens, quantity : Nat,
   remaining_quantity : Nat, status : SecondaryOrderStatus, expires_at : Nat]
ShareLock == [locked_quantity : Nat, status : LockStatus]
SecondaryBid ==
  [order_id : OrderIds, buyer : Traders, quantity : Nat,
   status : SecondaryBidStatus, expires_at : Nat, accepted_at : Nat]

\* What can be seen of a listing from outside (see ImplementsOfferBook).
Offer == [holding : Tokens, left : Nat, withdrawn : BOOLEAN]

ASSUME AccountsAssumption ==
  /\ NoAccount \notin SecondaryOrder
  /\ NoAccount \notin Offer
  /\ NoAccount \notin ShareLock
  /\ NoAccount \notin SecondaryBid
  /\ NoOrder \notin OrderIds
ASSUME FiniteAssumption == IsFiniteSet(BidIds)
ASSUME PairsAssumption ==
  MatchedPairs \subseteq [yes_buyer : Traders, no_buyer : Traders, quantity : Nat]
ASSUME QuantityAssumption ==
  /\ MaxOrderQuantity \in Nat
  /\ MaxPairQuantity \in Nat
  /\ MaxBatchTrades \in Nat
  /\ MaxU64 \in Nat
ASSUME TimeAssumption ==
  /\ OrderExpiry \in Nat
  /\ BidExpiry \in Nat
  /\ SnapshotInterval \in Nat
  /\ OpenedAt \in Nat
  /\ EventStartTime \in Nat
  /\ EndOfTime \in Nat
  /\ OpenedAt <= EndOfTime
ASSUME StatusesAssumption == AdminStatuses \subseteq EventStatus

VARIABLES
  now,                    \* Clock::get()?.unix_timestamp
  status,                 \* event.status
  market_status,          \* secondary_market_state.status
  tokens,                 \* share tokens, by owner and side
  secondary_orders,       \* listings, by order id
  share_locks,            \* share locks, by token and order id
  bids,                   \* bids, by bid id
  total_trades_settled,   \* of the secondary_market account
  total_secondary_trades, \* of the event
  last_price_update

phaseVars   == <<status, market_status>>
listingVars == <<tokens, secondary_orders, share_locks>>
reportVars  == <<total_trades_settled, total_secondary_trades,
                 last_price_update>>
vars == <<now, status, market_status, tokens, secondary_orders, share_locks,
          bids, total_trades_settled, total_secondary_trades,
          last_price_update>>
-----------------------------------------------------------------------------
(***************************************************************************)
(* As in PrimaryMarket, definitions named Faulty... are plausible mistakes *)
(* in the definition that follows them, and nothing uses them.             *)
(***************************************************************************)
Listed(o) == secondary_orders[o] # NoAccount
HasBid(b) == bids[b] # NoAccount

\* Only the event's status is looked at.
FaultyTrading == status = "SecondaryActive"

\* The constraints of all six trading instructions on the event and on its
\* secondary_market account.
Trading == status = "SecondaryActive" /\ market_status = "Open"

\* Any listing of the caller's can be cancelled or filled further.
FaultyOrderOpen(o) == Listed(o)
OrderOpen(o) ==
  Listed(o) /\ secondary_orders[o].status \in {"Active", "PartiallyFilled"}

Init ==
  /\ now = OpenedAt
  /\ status = "SecondaryActive"
  /\ market_status = "Open"
  /\ tokens = [t \in Tokens |-> [quantity |-> 0, lock_order_id |-> NoOrder]]
  /\ secondary_orders = [o \in OrderIds |-> NoAccount]
  /\ share_locks = [l \in Tokens \X OrderIds |-> NoAccount]
  /\ bids = [b \in BidIds |-> NoAccount]
  /\ total_trades_settled = 0
  /\ total_secondary_trades = 0
  /\ last_price_update = OpenedAt

\* As in PrimaryMarket: neither the event's status nor the clock is looked at,
\* so that tokens appear before, during and after trading.
MintShares(pair) ==
  LET yes == <<pair.yes_buyer, "Yes">>
      no  == <<pair.no_buyer, "No">>
  IN
  /\ tokens[yes].quantity = 0 /\ tokens[no].quantity = 0
  /\ pair.quantity \in 1..MaxPairQuantity
  /\ pair.yes_buyer # pair.no_buyer
  /\ tokens' = [tokens EXCEPT ![yes].quantity = pair.quantity,
                              ![no].quantity = pair.quantity]
  /\ UNCHANGED <<now, phaseVars, secondary_orders, share_locks, bids, reportVars>>

\* is_locked and lock_order_id are written together: None is "not locked".
\* Faulty: the token may be locked for another listing.
FaultyTokenFree(t, quantity) == quantity <= tokens[t].quantity
TokenFree(t, quantity) ==
  tokens[t].lock_order_id = NoOrder /\ quantity <= tokens[t].quantity

\* The whole token is locked, whatever part of it is listed.
ListShareForSale(t, o, quantity) ==
  /\ Trading
  /\ TokenFree(t, quantity)
  /\ ~Listed(o)
  /\ share_locks[<<t, o>>] = NoAccount
  /\ quantity \in 1..MaxOrderQuantity
  /\ tokens' = [tokens EXCEPT ![t].lock_order_id = o]
  /\ secondary_orders' = [secondary_orders EXCEPT ![o] =
       [seller |-> t[1], locked_share_token |-> t, quantity |-> quantity,
        remaining_quantity |-> quantity, status |-> "Active",
        expires_at |-> now + OrderExpiry]]
  /\ share_locks' = [share_locks EXCEPT ![<<t, o>>] =
       [locked_quantity |-> quantity, status |-> "Locked"]]
  /\ UNCHANGED <<now, phaseVars, bids, reportVars>>

\* Without the test of the listing's expiry.
FaultyBiddable(o, buyer) == OrderOpen(o) /\ buyer # secondary_orders[o].seller
Biddable(o, buyer) ==
  /\ OrderOpen(o)
  /\ now <= secondary_orders[o].expires_at
  /\ buyer # secondary_orders[o].seller

\* Nothing is set aside for the bid.  (accepted_at is None; 0 stands for it.)
PlaceSecondaryBid(b, o, buyer, quantity) ==
  /\ Trading
  /\ ~HasBid(b)
  /\ Biddable(o, buyer)
  /\ quantity \in 1..secondary_orders[o].remaining_quantity
  /\ bids' = [bids EXCEPT ![b] =
       [order_id |-> o, buyer |-> buyer, quantity |-> quantity,
        status |-> "Pending", expires_at |-> now + BidExpiry,
        accepted_at |-> 0]]
  /\ UNCHANGED <<now, phaseVars, listingVars, reportVars>>

\* What is left of a listing; the bid is not taken off what remains.
FaultyAfterAcceptance(order, q) ==
  [order EXCEPT !.status = IF @ = "Active" /\ q < order.remaining_quantity
                             THEN "PartiallyFilled" ELSE "Filled"]
AfterAcceptance(order, q) ==
  LET left == order.remaining_quantity - q
  IN  [order EXCEPT !.remaining_quantity = left,
                    !.status = IF left = 0 THEN "Filled" ELSE "PartiallyFilled"]

\* Without the second test of the quantity: it was tested for the bid.
FaultyAcceptable(b) ==
  /\ HasBid(b)
  /\ OrderOpen(bids[b].order_id)
  /\ bids[b].status = "Pending"
  /\ now <= bids[b].expires_at

\* The listing's own expiry is not looked at.
Acceptable(b) ==
  /\ HasBid(b)
  /\ OrderOpen(bids[b].order_id)
  /\ bids[b].status = "Pending"
  /\ now <= bids[b].expires_at
  /\ bids[b].quantity <= secondary_orders[bids[b].order_id].remaining_quantity

\* Signed by the seller.
AcceptSecondaryBid(b) ==
  LET o == bids[b].order_id
  IN
  /\ Trading
  /\ Acceptable(b)
  /\ bids' = [bids EXCEPT ![b].status = "Accepted", ![b].accepted_at = now]
  /\ secondary_orders' =
       [secondary_orders EXCEPT ![o] = AfterAcceptance(@, bids[b].quantity)]
  /\ UNCHANGED <<now, phaseVars, tokens, share_locks, reportVars>>

\* Signed by the seller, who passes one of his locked tokens; the address of
\* the lock ties it to the listing.  Bids on the listing are not looked at.
CancelSecondaryOrder(o, t) ==
  /\ Trading
  /\ OrderOpen(o)
  /\ t[1] = secondary_orders[o].seller
  /\ tokens[t].lock_order_id # NoOrder
  /\ share_locks[<<t, o>>] # NoAccount
  /\ share_locks[<<t, o>>].status = "Locked"
  /\ secondary_orders' = [secondary_orders EXCEPT ![o].status = "Cancelled"]
  /\ share_locks' = [share_locks EXCEPT ![<<t, o>>].status = "Released"]
  /\ tokens' = [tokens EXCEPT ![t].lock_order_id = NoOrder]
  /\ UNCHANGED <<now, phaseVars, bids, reportVars>>

\* Anyone may submit it.  The trades' prices and quantities are tested against
\* their ranges and against no account; no share, lock, bid or lamport moves.
BatchSettleTrades(trades) ==
  /\ Trading
  /\ trades \in 1..MaxBatchTrades
  /\ total_trades_settled + trades <= MaxU64
  /\ total_secondary_trades + trades <= MaxU64
  /\ total_trades_settled' = total_trades_settled + trades
  /\ total_secondary_trades' = total_secondary_trades + trades
  /\ UNCHANGED <<now, phaseVars, listingVars, bids, last_price_update>>

\* Anyone may submit it.  The quotes are written and read by no instruction.
UpdatePriceSnapshot ==
  /\ Trading
  /\ \/ now - last_price_update >= SnapshotInterval
     \/ last_price_update = 0
  /\ last_price_update' = now
  /\ UNCHANGED <<now, phaseVars, listingVars, bids, total_trades_settled,
                 total_secondary_trades>>

\* The outcome and the closing times are in Catalog.
ResolveSecondaryMarket ==
  /\ Trading
  /\ now >= EventStartTime
  /\ status' = "Resolved"
  /\ market_status' = "Closed"
  /\ UNCHANGED <<now, listingVars, bids, reportVars>>

\* Any status at any time, also by way of resolve_event and cancel_event.  The
\* secondary_market account is not among the accounts.
UpdateEvent(newStatus) ==
  /\ status' = newStatus
  /\ UNCHANGED <<now, market_status, listingVars, bids, reportVars>>

\* The cluster's clock.
Tick ==
  /\ now < EndOfTime
  /\ now' = now + 1
  /\ UNCHANGED <<phaseVars, listingVars, bids, reportVars>>

\* Everything but the resolution, to which Payouts adds the outcome.
TradingNext ==
  \/ \E pair \in MatchedPairs : MintShares(pair)
  \/ \E t \in Tokens, o \in OrderIds, quantity \in 1..MaxOrderQuantity :
       ListShareForSale(t, o, quantity)
  \/ \E b \in BidIds, o \in OrderIds, buyer \in Traders,
        quantity \in 1..MaxOrderQuantity :
       PlaceSecondaryBid(b, o, buyer, quantity)
  \/ \E b \in BidIds : AcceptSecondaryBid(b)
  \/ \E o \in OrderIds, t \in Tokens : CancelSecondaryOrder(o, t)
  \/ \E trades \in 1..MaxBatchTrades : BatchSettleTrades(trades)
  \/ UpdatePriceSnapshot
  \/ \E s \in AdminStatuses : UpdateEvent(s)
  \/ Tick

Next == TradingNext \/ ResolveSecondaryMarket

Spec == Init /\ [][Next]_vars
-----------------------------------------------------------------------------
(***************************************************************************)
(* Properties.                                                             *)
(***************************************************************************)
TypeOK ==
  /\ now \in OpenedAt..EndOfTime
  /\ status \in EventStatus
  /\ market_status \in SecondaryMarketStatus
  /\ tokens \in [Tokens -> ShareToken]
  /\ secondary_orders \in [OrderIds -> SecondaryOrder \cup {NoAccount}]
  /\ share_locks \in [Tokens \X OrderIds -> ShareLock \cup {NoAccount}]
  /\ bids \in [BidIds -> SecondaryBid \cup {NoAccount}]
  /\ total_trades_settled \in 0..MaxU64
  /\ total_secondary_trades \in 0..MaxU64
  /\ last_price_update \in Nat

\* A listing that is not yet sold out holds a lock of its own on the token it
\* offers, until it is cancelled, and the token names that listing: three
\* accounts, written by list_share_for_sale and cancel_secondary_order, say the
\* same.  Hence no token backs two such listings at once, and none offers more
\* than the token has.  A sold-out listing is up to settlement, which may
\* release its lock or delete it; as long as a token names it the lock is there.
LockAgrees(t, o) ==
  LET lock   == share_locks[<<t, o>>]
      order  == secondary_orders[o]
      offers == Listed(o) /\ order.locked_share_token = t
  IN
  /\ lock # NoAccount => offers
  /\ tokens[t].lock_order_id = o => lock # NoAccount /\ lock.status = "Locked"
  /\ offers /\ order.status # "Filled" =>
       /\ lock # NoAccount
       /\ order.seller = t[1]
       /\ lock.locked_quantity = order.quantity
       /\ order.quantity <= tokens[t].quantity
       /\ lock.status = IF order.status = "Cancelled" THEN "Released" ELSE "Locked"
       /\ lock.status = "Locked" => tokens[t].lock_order_id = o
LocksAgree == \A t \in Tokens, o \in OrderIds : LockAgrees(t, o)

\* A listing's remaining quantity is what its accepted bids have left of it,
\* and its status says which: nothing accepted, something, or everything.
\* Cancelling does not change it.
AcceptedOn(o) ==
  {b \in BidIds : HasBid(b) /\ bids[b].order_id = o /\ bids[b].status = "Accepted"}
BidQuantity == [b \in BidIds |-> IF HasBid(b) THEN bids[b].quantity ELSE 0]
ListingsAccounted ==
  \A o \in OrderIds : Listed(o) =>
    LET order == secondary_orders[o]
        sold  == SumFunctionOnSet(BidQuantity, AcceptedOn(o))
    IN  /\ order.remaining_quantity + sold = order.quantity
        /\ order.status = "Active" => sold = 0
        /\ order.status = "PartiallyFilled" => sold \in 1..(order.quantity - 1)
        /\ order.status = "Filled" => sold = order.quantity
        /\ order.status = "Cancelled" => sold < order.quantity

\* accept_secondary_bid does not look at the listing's expiry, and still no bid
\* is accepted later than a bid's lifetime after it, because the bid had to be
\* placed in time and expires by itself.
BidInTime(b) ==
  LET order == secondary_orders[bids[b].order_id]
  IN  /\ Listed(bids[b].order_id)
      /\ bids[b].buyer # order.seller
      /\ bids[b].expires_at <= order.expires_at + BidExpiry
      /\ bids[b].status = "Accepted" => bids[b].accepted_at <= bids[b].expires_at
AcceptanceBounded == \A b \in BidIds : HasBid(b) => BidInTime(b)

\* What seller and buyer agreed on stands, whoever signs what afterwards: a
\* listing that is Filled or Cancelled is not opened again, nor a sold-out one
\* cancelled; what it offered and what is left of it do not change, and no bid
\* is placed on it or accepted for it any more.  An accepted bid keeps its
\* terms; all that may still happen to it is that it becomes Settled.
OrderOver(o) ==
  Listed(o) /\ secondary_orders[o].status \in {"Filled", "Cancelled"}
TermsStay(old, new) ==
  /\ new.status \notin {"Active", "PartiallyFilled"}
  /\ new.status = "Cancelled" <=> old.status = "Cancelled"
  /\ new.seller = old.seller
  /\ new.locked_share_token = old.locked_share_token
  /\ new.quantity = old.quantity
  /\ new.remaining_quantity = old.remaining_quantity
IsAccepted(b) == HasBid(b) /\ bids[b].status = "Accepted"
TermsAreFinal ==
  [][/\ \A o \in OrderIds : OrderOver(o) =>
          TermsStay(secondary_orders[o], secondary_orders'[o])
     /\ \A b \in BidIds :
          /\ ~HasBid(b) /\ HasBid(b)' => ~OrderOver(bids'[b].order_id)
          /\ ~IsAccepted(b) /\ IsAccepted(b)' => ~OrderOver(bids'[b].order_id)
          /\ IsAccepted(b) =>
               \/ bids'[b] = bids[b]
               \/ bids'[b] = [bids[b] EXCEPT !.status = "Settled"]]_vars

\* Once the secondary market is resolved nothing is traded any more, although
\* update_event may write SecondaryActive over Resolved and shares are still
\* minted.
ClosedMarketRests ==
  [][market_status = "Closed" =>
       /\ market_status' = "Closed"
       /\ UNCHANGED <<secondary_orders, share_locks, bids>>
       /\ \A t \in Tokens : tokens'[t].lock_order_id = tokens[t].lock_order_id]_vars

\* The secondary market is a book of offers: tokens are what backs them, and
\* listings the offers.  Through every sequence of listing, bidding, accepting,
\* cancelling and status updates a token backs one offer at a time, offers are
\* only sold down or withdrawn while the market is open, and neither a sold-out
\* nor a withdrawn offer comes back.
OfferOf(o) ==
  IF ~Listed(o) THEN NoAccount
  ELSE [holding   |-> secondary_orders[o].locked_share_token,
        left      |-> secondary_orders[o].remaining_quantity,
        withdrawn |-> secondary_orders[o].status = "Cancelled"]
HeldShares == [t \in Tokens |-> tokens[t].quantity]
ListedOffers == [o \in OrderIds |-> OfferOf(o)]
Book == INSTANCE OfferBook WITH
  Offers <- OrderIds, Holdings <- Tokens, NoOffer <- NoAccount,
  held <- HeldShares, book <- ListedOffers, closed <- market_status = "Closed"
ImplementsOfferBook == Book!Spec
-----------------------------------------------------------------------------
\* SECONDARY_MARKET_ARCHITECTURE.md, "Share Locking (prevents double-selling)":
\* what the sellers have sold of a token, in accepted bids that nothing has
\* settled, is in the token.
SoldOf(t) ==
  {b \in BidIds : /\ HasBid(b)
                  /\ bids[b].status = "Accepted"
                  /\ secondary_orders[bids[b].order_id].locked_share_token = t}
NoDoubleSale ==
  \A t \in Tokens : SumFunctionOnSet(BidQuantity, SoldOf(t)) <= tokens[t].quantity
=============================================================================
