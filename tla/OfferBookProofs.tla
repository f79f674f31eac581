-------------------------- MODULE OfferBookProofs --------------------------
(***************************************************************************)
(* SecondaryMarket implements OfferBook: initial states are initial, and   *)
(* every instruction makes, sells down or withdraws one offer, fills two   *)
(* holdings, closes the book, or does nothing to it.                       *)
(***************************************************************************)
EXTENDS SecondaryMarketProofs

\* A listing has sold everything exactly when it says that it is Filled.
SoldOutIsFilled ==
  \A o \in OrderIds : Listed(o) =>
    (secondary_orders[o].remaining_quantity = 0 <=>
       secondary_orders[o].status = "Filled")

BookInv == TradingInv /\ SoldOutIsFilled

\* A line of the book, and how it changes.
LEMMA OfferRecord ==
  ASSUME NEW h \in Tokens, NEW n \in Nat, NEW w \in BOOLEAN
  PROVE  LET offer == [holding |-> h, left |-> n, withdrawn |-> w]
         IN  /\ offer \in Offer
             /\ offer.holding = h /\ offer.left = n /\ offer.withdrawn = w
BY DEF Offer

LEMMA OfferUpdate ==
  ASSUME NEW offer \in Offer, NEW n
  PROVE  /\ [offer EXCEPT !.left = n] =
              [holding |-> offer.holding, left |-> n, withdrawn |-> offer.withdrawn]
         /\ [offer EXCEPT !.withdrawn = n] =
              [holding |-> offer.holding, left |-> offer.left, withdrawn |-> n]
BY DEF Offer

\* What the book shows of a listing.
LEMMA OfferFields ==
  ASSUME TypeOK, NEW o \in OrderIds
  PROVE  /\ Book!Made(o) <=> Listed(o)
         /\ Listed(o) =>
              /\ secondary_orders[o] \in SecondaryOrder
              /\ OfferOf(o) \in Offer
              /\ ListedOffers[o] = OfferOf(o)
              /\ OfferOf(o).holding = secondary_orders[o].locked_share_token
              /\ OfferOf(o).left = secondary_orders[o].remaining_quantity
              /\ OfferOf(o).withdrawn = (secondary_orders[o].status = "Cancelled")
<1>1. CASE Listed(o)
  <2>1. secondary_orders[o] \in SecondaryOrder
    BY <1>1 DEF TypeOK, Listed
  <2> DEFINE order == secondary_orders[o]
  <2>2. OfferOf(o) = [holding   |-> order.locked_share_token,
                      left      |-> order.remaining_quantity,
                      withdrawn |-> order.status = "Cancelled"]
    BY <1>1 DEF OfferOf
  <2>3. order.locked_share_token \in Tokens /\ order.remaining_quantity \in Nat
    BY <2>1 DEF SecondaryOrder
  <2>4. /\ OfferOf(o) \in Offer
        /\ OfferOf(o).holding = order.locked_share_token
        /\ OfferOf(o).left = order.remaining_quantity
        /\ OfferOf(o).withdrawn = (order.status = "Cancelled")
    <3> DEFINE cancelled == order.status = "Cancelled"
    <3>1. cancelled \in BOOLEAN
      OBVIOUS
    <3> HIDE DEF cancelled, order
    <3>2. LET offer == [holding |-> order.locked_share_token,
                        left |-> order.remaining_quantity, withdrawn |-> cancelled]
          IN  /\ offer \in Offer
              /\ offer.holding = order.locked_share_token
              /\ offer.left = order.remaining_quantity
              /\ offer.withdrawn = cancelled
      BY <2>3, <3>1, OfferRecord
    <3> QED  BY <2>2, <3>2, Zenon DEF cancelled
  <2>5. ListedOffers[o] = OfferOf(o)
    BY DEF ListedOffers
  <2> QED
    BY <1>1, <2>1, <2>4, <2>5, AccountsAssumption DEF Book!Made
<1>2. CASE ~Listed(o)
  BY <1>2 DEF Book!Made, ListedOffers, OfferOf
<1> QED
  BY <1>1, <1>2

\* Acceptance is the only step that lowers what remains of a listing, and it
\* sets Filled just when nothing does.
LEMMA AcceptedListing ==
  ASSUME TradingInv, NEW b \in BidIds, AcceptSecondaryBid(b)
  PROVE  LET o == bids[b].order_id
             order == secondary_orders[o]
             new == AfterAcceptance(order, bids[b].quantity)
         IN  /\ o \in OrderIds /\ Listed(o)
             /\ order \in SecondaryOrder /\ new \in SecondaryOrder
             /\ order.status \in {"Active", "PartiallyFilled"}
             /\ new.locked_share_token = order.locked_share_token
             /\ new.remaining_quantity = order.remaining_quantity - bids[b].quantity
             /\ new.status = IF new.remaining_quantity = 0 THEN "Filled"
                                                           ELSE "PartiallyFilled"
             /\ new.remaining_quantity \in 0..order.remaining_quantity
             /\ secondary_orders' = [secondary_orders EXCEPT ![o] = new]
             /\ UNCHANGED <<tokens, market_status>>
<1> DEFINE o == bids[b].order_id
           order == secondary_orders[o]
           new == AfterAcceptance(order, bids[b].quantity)
<1>1. o \in OrderIds /\ bids[b].quantity \in Nat
  BY DEF AcceptSecondaryBid, Acceptable, HasBid, TradingInv, TypeOK, SecondaryBid
<1>2. /\ Listed(o) /\ order \in SecondaryOrder
      /\ order.status \in {"Active", "PartiallyFilled"}
      /\ bids[b].quantity <= order.remaining_quantity
  BY <1>1 DEF AcceptSecondaryBid, Acceptable, OrderOpen, Listed, TradingInv, TypeOK
<1>3. /\ secondary_orders' = [secondary_orders EXCEPT ![o] = new]
      /\ UNCHANGED <<tokens, market_status>>
  BY DEF AcceptSecondaryBid, phaseVars
<1>4. order.remaining_quantity - bids[b].quantity \in 0..order.remaining_quantity
  BY <1>1, <1>2 DEF SecondaryOrder
<1>5. /\ new \in SecondaryOrder
      /\ new.locked_share_token = order.locked_share_token
      /\ new.remaining_quantity = order.remaining_quantity - bids[b].quantity
      /\ new.status = IF new.remaining_quantity = 0 THEN "Filled"
                                                    ELSE "PartiallyFilled"
  <2> DEFINE left == order.remaining_quantity - bids[b].quantity
  <2>1. new = [order EXCEPT !.remaining_quantity = left,
                            !.status = IF left = 0 THEN "Filled" ELSE "PartiallyFilled"]
    BY DEF AfterAcceptance
  <2>2. left \in Nat /\ order \in SecondaryOrder
    BY <1>2, <1>4
  <2> HIDE DEF order, new, left
  <2>3. /\ new \in SecondaryOrder
        /\ new.locked_share_token = order.locked_share_token
        /\ new.remaining_quantity = left
        /\ new.status = IF left = 0 THEN "Filled" ELSE "PartiallyFilled"
    BY <2>1, <2>2 DEF SecondaryOrder, SecondaryOrderStatus
  <2> QED  BY <2>3 DEF left
<1> QED
  BY <1>1, <1>2, <1>3, <1>4, <1>5

\* Every step keeps the status of a listing in step with what remains of it.
LEMMA SoldOutStep == BookInv /\ [Next]_vars => SoldOutIsFilled'
<1> SUFFICES ASSUME BookInv, [Next]_vars, NEW p \in OrderIds, Listed(p)'
             PROVE  secondary_orders'[p].remaining_quantity = 0 <=>
                      secondary_orders'[p].status = "Filled"
  BY DEF SoldOutIsFilled, Listed
<1>1. TradingInv /\ TypeOK
  BY DEF BookInv, TradingInv
<1>2. ASSUME secondary_orders'[p] = secondary_orders[p]
      PROVE  secondary_orders'[p].remaining_quantity = 0 <=>
               secondary_orders'[p].status = "Filled"
  BY <1>2 DEF BookInv, SoldOutIsFilled, Listed
<1>3. ASSUME NEW t \in Tokens, NEW o \in OrderIds,
             NEW quantity \in 1..MaxOrderQuantity,
             ListShareForSale(t, o, quantity), p = o
      PROVE  secondary_orders'[p].remaining_quantity # 0 /\
             secondary_orders'[p].status = "Active"
  <2>1. quantity # 0
    BY QuantityAssumption
  <2> QED
    BY <1>1, <1>3, <2>1 DEF ListShareForSale, TypeOK
<1>4. ASSUME NEW t \in Tokens, NEW o \in OrderIds,
             NEW quantity \in 1..MaxOrderQuantity,
             ListShareForSale(t, o, quantity), p # o
      PROVE  secondary_orders'[p] = secondary_orders[p]
  BY <1>1, <1>4 DEF ListShareForSale, TypeOK
<1>5. ASSUME NEW b \in BidIds, AcceptSecondaryBid(b), p = bids[b].order_id
      PROVE  secondary_orders'[p].remaining_quantity = 0 <=>
               secondary_orders'[p].status = "Filled"
  <2> DEFINE new == AfterAcceptance(secondary_orders[p], bids[b].quantity)
  <2>1. /\ new.status = IF new.remaining_quantity = 0 THEN "Filled"
                                                      ELSE "PartiallyFilled"
        /\ secondary_orders' = [secondary_orders EXCEPT ![p] = new]
    BY <1>1, <1>5, AcceptedListing
  <2> HIDE DEF new
  <2> QED
    BY <1>1, <2>1 DEF TypeOK
<1>6. ASSUME NEW b \in BidIds, AcceptSecondaryBid(b), p # bids[b].order_id
      PROVE  secondary_orders'[p] = secondary_orders[p]
  BY <1>1, <1>6, AcceptedListing DEF TypeOK
<1>7. ASSUME NEW o \in OrderIds, NEW t \in Tokens, CancelSecondaryOrder(o, t), p = o
      PROVE  secondary_orders'[p].remaining_quantity = 0 <=>
               secondary_orders'[p].status = "Filled"
  <2>1. /\ secondary_orders[p] \in SecondaryOrder /\ Listed(p)
        /\ secondary_orders[p].status # "Filled"
        /\ secondary_orders'[p] = [secondary_orders[p] EXCEPT !.status = "Cancelled"]
    BY <1>1, <1>7 DEF CancelSecondaryOrder, OrderOpen, Listed, TypeOK
  <2>2. secondary_orders[p].remaining_quantity # 0
    BY <2>1 DEF BookInv, SoldOutIsFilled
  <2> QED
    BY <2>1, <2>2 DEF SecondaryOrder
<1>8. ASSUME NEW o \in OrderIds, NEW t \in Tokens, CancelSecondaryOrder(o, t), p # o
      PROVE  secondary_orders'[p] = secondary_orders[p]
  BY <1>1, <1>8 DEF CancelSecondaryOrder, TypeOK
<1> QED
  BY <1>2, <1>3, <1>4, <1>5, <1>6, <1>7, <1>8
  DEF Next, TradingNext, vars, MintShares, PlaceSecondaryBid, BatchSettleTrades,
      UpdatePriceSnapshot, ResolveSecondaryMarket, UpdateEvent, Tick, listingVars

\* Every reachable state satisfies the invariant.
LEMMA BookInvariant == Spec => []BookInv
<1>1. Init => SoldOutIsFilled
  BY DEF Init, SoldOutIsFilled, Listed
<1>2. BookInv /\ [Next]_vars => SoldOutIsFilled'
  BY SoldOutStep
<1> QED
  BY <1>1, <1>2, TradingInvariant, PTL DEF BookInv, Spec
-----------------------------------------------------------------------------
\* open_secondary_market opens an empty book.
LEMMA BookInit == Init => Book!Init
<1> SUFFICES ASSUME Init PROVE Book!Init
  OBVIOUS
<1>1. HeldShares = [t \in Tokens |-> 0]
  BY DEF Init, HeldShares
<1>2. ListedOffers = [o \in OrderIds |-> NoAccount]
  BY DEF Init, ListedOffers, OfferOf, Listed
<1>3. ~(market_status = "Closed")
  BY DEF Init
<1> QED
  BY <1>1, <1>2, <1>3 DEF Book!Init

\* A step that writes one listing changes one line of the book.
LEMMA OneLineChanges ==
  ASSUME TypeOK, NEW o \in OrderIds, NEW new \in SecondaryOrder,
         secondary_orders' = [secondary_orders EXCEPT ![o] = new]
  PROVE  /\ ListedOffers' = [ListedOffers EXCEPT ![o] = OfferOf(o)']
         /\ OfferOf(o)' = [holding   |-> new.locked_share_token,
                           left      |-> new.remaining_quantity,
                           withdrawn |-> new.status = "Cancelled"]
<1>1. secondary_orders'[o] = new /\ new # NoAccount
  BY AccountsAssumption DEF TypeOK
<1>2. ASSUME NEW p \in OrderIds, p # o  PROVE OfferOf(p)' = OfferOf(p)
  BY <1>2 DEF TypeOK, OfferOf, Listed
<1>3. ListedOffers' = [p \in OrderIds |-> OfferOf(p)']
  BY DEF ListedOffers
<1>4. ListedOffers' = [ListedOffers EXCEPT ![o] = OfferOf(o)']
  BY <1>2, <1>3 DEF ListedOffers
<1> QED
  BY <1>1, <1>4 DEF OfferOf, Listed

\* list_share_for_sale makes an offer of a token that backs no other.
LEMMA ListingMakesOffer ==
  ASSUME TradingInv, NEW t \in Tokens, NEW o \in OrderIds,
         NEW quantity \in 1..MaxOrderQuantity, ListShareForSale(t, o, quantity)
  PROVE  Book!Make(o, t)
<1> DEFINE order == [seller |-> t[1], locked_share_token |-> t,
                     quantity |-> quantity, remaining_quantity |-> quantity,
                     status |-> "Active", expires_at |-> now + OrderExpiry]
<1>1. /\ TypeOK /\ LocksStand
      /\ quantity \in Nat /\ now + OrderExpiry \in Nat
  BY QuantityAssumption, TimeAssumption DEF TradingInv, TypeOK
<1>2. order \in SecondaryOrder
  BY <1>1, TokenOwner DEF SecondaryOrder, SecondaryOrderStatus
<1>3. /\ order.locked_share_token = t /\ order.remaining_quantity = quantity
      /\ order.status = "Active"
  OBVIOUS
<1>4. /\ secondary_orders' = [secondary_orders EXCEPT ![o] = order]
      /\ tokens' = [tokens EXCEPT ![t].lock_order_id = o]
      /\ tokens[t].lock_order_id = NoOrder /\ quantity <= tokens[t].quantity
      /\ ~Listed(o)
      /\ market_status = "Open" /\ market_status' = market_status
  BY DEF ListShareForSale, TokenFree, Trading, phaseVars
<1> HIDE DEF order
<1>5. ListedOffers' = [ListedOffers EXCEPT ![o] =
        [holding |-> t, left |-> quantity, withdrawn |-> FALSE]]
  BY <1>1, <1>2, <1>3, <1>4, OneLineChanges
<1>6. HeldShares' = HeldShares
  BY <1>1, <1>4 DEF HeldShares, TypeOK, ShareToken
<1>7. HeldShares[t] = tokens[t].quantity /\ tokens[t].quantity \in Nat
  BY <1>1 DEF HeldShares, TypeOK, ShareToken
<1>8. quantity \in 1..HeldShares[t]
  BY <1>4, <1>7
<1>9. ASSUME NEW p \in OrderIds  PROVE ~Book!Backs(t, p)
  <2> SUFFICES ASSUME Book!Backs(t, p)  PROVE FALSE
    OBVIOUS
  <2>1. /\ Listed(p)
        /\ secondary_orders[p].locked_share_token = t
        /\ secondary_orders[p].status # "Cancelled"
    BY <1>1, OfferFields DEF Book!Backs
  <2>2. LockStands(t, p)
    BY <1>1 DEF LocksStand
  <2>3. /\ share_locks[<<t, p>>] # NoAccount
        /\ share_locks[<<t, p>>].status = "Locked"
    BY <2>1, <2>2 DEF LockStands
  <2>4. tokens[t].lock_order_id = p
    BY <2>2, <2>3 DEF LockStands
  <2> QED
    BY <1>4, <2>4, AccountsAssumption
<1>10. ~Book!Made(o)
  BY <1>1, <1>4, OfferFields
<1> QED
  BY <1>4, <1>5, <1>6, <1>8, <1>9, <1>10 DEF Book!Make

\* accept_secondary_bid sells of an open offer.
LEMMA AcceptanceSells ==
  ASSUME BookInv, NEW b \in BidIds, AcceptSecondaryBid(b)
  PROVE  \/ Book!Sell(bids[b].order_id)
         \/ UNCHANGED <<HeldShares, ListedOffers, market_status>>
<1> DEFINE o == bids[b].order_id
           order == secondary_orders[o]
           new == AfterAcceptance(order, bids[b].quantity)
<1>1. TradingInv /\ TypeOK
  BY DEF BookInv, TradingInv
<1>2. /\ o \in OrderIds /\ Listed(o)
      /\ order \in SecondaryOrder /\ new \in SecondaryOrder
      /\ order.status \in {"Active", "PartiallyFilled"}
      /\ new.locked_share_token = order.locked_share_token
      /\ new.status \in {"Filled", "PartiallyFilled"}
      /\ new.remaining_quantity \in 0..order.remaining_quantity
      /\ secondary_orders' = [secondary_orders EXCEPT ![o] = new]
      /\ UNCHANGED <<tokens, market_status>>
  BY <1>1, AcceptedListing
<1>3. market_status = "Open"
  BY DEF AcceptSecondaryBid, Trading
<1>4. HeldShares' = HeldShares
  BY <1>2 DEF HeldShares
<1>5. order.remaining_quantity \in Nat \ {0}
  BY <1>2 DEF BookInv, SoldOutIsFilled, SecondaryOrder
<1> HIDE DEF order, new, o
<1>6. ListedOffers' = [ListedOffers EXCEPT ![o] =
        [holding |-> new.locked_share_token, left |-> new.remaining_quantity,
         withdrawn |-> new.status = "Cancelled"]]
  BY <1>1, <1>2, OneLineChanges
<1>7. /\ Book!Made(o)
      /\ ListedOffers[o] \in Offer
      /\ ListedOffers[o].holding = order.locked_share_token
      /\ ListedOffers[o].left = order.remaining_quantity
      /\ ~ListedOffers[o].withdrawn
  BY <1>1, <1>2, OfferFields DEF order
<1>8. (new.status = "Cancelled") = FALSE
  BY <1>2
<1>9. ListedOffers' = [ListedOffers EXCEPT ![o].left = new.remaining_quantity]
  <2>1. [ListedOffers[o] EXCEPT !.left = new.remaining_quantity] =
          [holding |-> order.locked_share_token, left |-> new.remaining_quantity,
           withdrawn |-> FALSE]
    <3>1. ListedOffers[o].withdrawn = FALSE
      BY <1>7 DEF Offer
    <3> QED  BY <1>7, <3>1, OfferUpdate
  <2> QED
    BY <1>2, <1>6, <1>8, <2>1
<1>10. CASE new.remaining_quantity = order.remaining_quantity
  <2>1. [ListedOffers[o] EXCEPT !.left = new.remaining_quantity] = ListedOffers[o]
    BY <1>7, <1>10 DEF Offer
  <2>2. ListedOffers' = ListedOffers
    BY <1>9, <2>1 DEF ListedOffers
  <2> QED
    BY <1>2, <1>4, <2>2
<1>11. CASE new.remaining_quantity # order.remaining_quantity
  <2>1. new.remaining_quantity \in 0..(ListedOffers[o].left - 1)
    BY <1>2, <1>5, <1>7, <1>11
  <2>2. Book!Open(o)
    BY <1>5, <1>7 DEF Book!Open
  <2>3. Book!Sell(o)
    BY <1>2, <1>3, <1>4, <1>9, <2>1, <2>2 DEF Book!Sell
  <2> QED
    BY <2>3 DEF o
<1> QED
  BY <1>10, <1>11

\* cancel_secondary_order withdraws an open offer.
LEMMA CancellingWithdraws ==
  ASSUME BookInv, NEW o \in OrderIds, NEW t \in Tokens, CancelSecondaryOrder(o, t)
  PROVE  Book!Withdraw(o)
<1> DEFINE order == secondary_orders[o]
           new   == [order EXCEPT !.status = "Cancelled"]
<1>1. TypeOK
  BY DEF BookInv, TradingInv
<1>2. /\ Listed(o) /\ order \in SecondaryOrder
      /\ order.status \in {"Active", "PartiallyFilled"}
      /\ secondary_orders' = [secondary_orders EXCEPT ![o] = new]
      /\ tokens' = [tokens EXCEPT ![t].lock_order_id = NoOrder]
      /\ market_status = "Open" /\ market_status' = market_status
  BY <1>1 DEF CancelSecondaryOrder, OrderOpen, Listed, TypeOK, Trading, phaseVars
<1>3. /\ new \in SecondaryOrder
      /\ new.locked_share_token = order.locked_share_token
      /\ new.remaining_quantity = order.remaining_quantity
      /\ new.status = "Cancelled"
  BY <1>2 DEF SecondaryOrder, SecondaryOrderStatus
<1>4. order.remaining_quantity \in Nat \ {0}
  BY <1>2 DEF BookInv, SoldOutIsFilled, SecondaryOrder
<1>5. HeldShares' = HeldShares
  BY <1>1, <1>2 DEF HeldShares, TypeOK, ShareToken
<1> HIDE DEF order, new
<1>6. ListedOffers' = [ListedOffers EXCEPT ![o] =
        [holding |-> order.locked_share_token, left |-> order.remaining_quantity,
         withdrawn |-> TRUE]]
  BY <1>1, <1>2, <1>3, OneLineChanges
<1>7. /\ Book!Made(o)
      /\ ListedOffers[o] \in Offer
      /\ ListedOffers[o].holding = order.locked_share_token
      /\ ListedOffers[o].left = order.remaining_quantity
      /\ ~ListedOffers[o].withdrawn
  BY <1>1, <1>2, OfferFields DEF order
<1>8. [ListedOffers[o] EXCEPT !.withdrawn = TRUE] =
        [holding |-> order.locked_share_token, left |-> order.remaining_quantity,
         withdrawn |-> TRUE]
  BY <1>7, OfferUpdate
<1>9. ListedOffers' = [ListedOffers EXCEPT ![o].withdrawn = TRUE]
  BY <1>6, <1>8
<1>10. Book!Open(o)
  BY <1>4, <1>7 DEF Book!Open
<1> QED
  BY <1>2, <1>5, <1>9, <1>10 DEF Book!Withdraw

\* mint_shares fills a YES and a NO holding.
LEMMA MintingFills ==
  ASSUME TypeOK, NEW pair \in MatchedPairs, MintShares(pair)
  PROVE  Book!Fill(<<pair.yes_buyer, "Yes">>, <<pair.no_buyer, "No">>)
<1> DEFINE yes == <<pair.yes_buyer, "Yes">>
           no  == <<pair.no_buyer, "No">>
<1>1. yes \in Tokens /\ no \in Tokens /\ yes # no
  BY PairsAssumption DEF Tokens, ShareType
<1>2. /\ tokens[yes].quantity = 0 /\ tokens[no].quantity = 0
      /\ tokens' = [tokens EXCEPT ![yes].quantity = pair.quantity,
                                  ![no].quantity = pair.quantity]
      /\ UNCHANGED <<secondary_orders, market_status>>
  BY DEF MintShares, phaseVars
<1> HIDE DEF yes, no
<1>3. HeldShares' = [HeldShares EXCEPT ![yes] = pair.quantity, ![no] = pair.quantity]
  BY <1>1, <1>2 DEF HeldShares, TypeOK, ShareToken
<1>4. /\ HeldShares[yes] = 0 /\ HeldShares[no] = 0
      /\ HeldShares'[yes] = pair.quantity /\ HeldShares'[no] = pair.quantity
  BY <1>1, <1>2, <1>3 DEF HeldShares
<1>5. ListedOffers' = ListedOffers
  BY <1>2 DEF ListedOffers, OfferOf, Listed
<1>6. HeldShares' = [HeldShares EXCEPT ![yes] = HeldShares'[yes],
                                       ![no] = HeldShares'[no]]
  BY <1>3, <1>4
<1>7. HeldShares'[yes] = HeldShares'[no]
  BY <1>4
<1>8. Book!Fill(yes, no)
  BY <1>1, <1>2, <1>4, <1>5, <1>6, <1>7 DEF Book!Fill
<1> QED
  BY <1>8 DEF yes, no

\* Every step of the market is a step of the book.
LEMMA BookStep == BookInv /\ [Next]_vars => [Book!Next]_Book!vars
<1> SUFFICES ASSUME BookInv, [Next]_vars  PROVE [Book!Next]_Book!vars
  OBVIOUS
<1>1. TradingInv /\ TypeOK
  BY DEF BookInv, TradingInv
<1>2. ASSUME NEW pair \in MatchedPairs, MintShares(pair)
      PROVE  Book!Next
  <2>1. <<pair.yes_buyer, "Yes">> \in Tokens /\ <<pair.no_buyer, "No">> \in Tokens
    BY PairsAssumption DEF Tokens, ShareType
  <2> QED
    BY <1>1, <1>2, <2>1, MintingFills DEF Book!Next
<1>3. ASSUME NEW t \in Tokens, NEW o \in OrderIds,
             NEW quantity \in 1..MaxOrderQuantity, ListShareForSale(t, o, quantity)
      PROVE  Book!Next
  BY <1>1, <1>3, ListingMakesOffer DEF Book!Next
<1>4. ASSUME NEW b \in BidIds, AcceptSecondaryBid(b)
      PROVE  [Book!Next]_Book!vars
  <2>1. bids[b].order_id \in OrderIds
    BY <1>1, <1>4, AcceptedListing
  <2> QED
    BY <1>4, <2>1, AcceptanceSells DEF Book!Next, Book!vars
<1>5. ASSUME NEW o \in OrderIds, NEW t \in Tokens, CancelSecondaryOrder(o, t)
      PROVE  Book!Next
  BY <1>5, CancellingWithdraws DEF Book!Next
<1>6. ASSUME ResolveSecondaryMarket
      PROVE  Book!Next
  <2>1. HeldShares' = HeldShares /\ ListedOffers' = ListedOffers
    BY <1>6 DEF ResolveSecondaryMarket, listingVars, HeldShares, ListedOffers,
                OfferOf, Listed
  <2>2. (market_status = "Closed")' = TRUE
    BY <1>6 DEF ResolveSecondaryMarket
  <2> QED
    BY <2>1, <2>2 DEF Book!Next, Book!Close
<1>7. ASSUME UNCHANGED <<tokens, secondary_orders, market_status>>
      PROVE  UNCHANGED Book!vars
  <2>1. HeldShares' = HeldShares /\ ListedOffers' = ListedOffers
    BY <1>7 DEF HeldShares, ListedOffers, OfferOf, Listed
  <2> QED
    BY <1>7, <2>1 DEF Book!vars
<1> QED
  BY <1>2, <1>3, <1>4, <1>5, <1>6, <1>7
  DEF Next, TradingNext, vars, PlaceSecondaryBid, BatchSettleTrades,
      UpdatePriceSnapshot, UpdateEvent, Tick, listingVars, phaseVars

\* The secondary market implements the book of offers.
THEOREM MarketIsOfferBook == Spec => ImplementsOfferBook
<1>1. Init => Book!Init
  BY BookInit
<1>2. BookInv /\ [Next]_vars => [Book!Next]_Book!vars
  BY BookStep
<1> QED
  BY <1>1, <1>2, BookInvariant, PTL DEF Spec, ImplementsOfferBook, Book!Spec
=============================================================================
