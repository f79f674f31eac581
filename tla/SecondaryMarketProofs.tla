----------------------- MODULE SecondaryMarketProofs -----------------------
(***************************************************************************)
(* Listings and locks agree, acceptances stay within their time, and what  *)
(* a listing has left is what its accepted bids have not taken, for every  *)
(* number of traders, listings and bids.                                   *)
(***************************************************************************)
EXTENDS SecondaryMarket, SumLemmas

\* LocksAgree, and more: no instruction touches the lock or the token of a
\* sold-out listing either.  It is in this stronger form that the agreement of
\* tokens, listings and locks is inductive, because cancelling needs to know
\* that the one lock found Locked is the one that the token names.
LockStands(t, o) ==
  LET lock  == share_locks[<<t, o>>]
      order == secondary_orders[o]
  IN
  /\ lock # NoAccount <=> Listed(o) /\ order.locked_share_token = t
  /\ lock # NoAccount =>
       /\ order.seller = t[1]
       /\ lock.locked_quantity = order.quantity
       /\ order.quantity <= tokens[t].quantity
       /\ lock.status = IF order.status = "Cancelled" THEN "Released" ELSE "Locked"
  /\ tokens[t].lock_order_id = o <=> lock # NoAccount /\ lock.status = "Locked"
LocksStand == \A t \in Tokens, o \in OrderIds : LockStands(t, o)

TradingInv == TypeOK /\ LocksStand /\ AcceptanceBounded

\* A share token belongs to a trader.
LEMMA TokenOwner == \A t \in Tokens : t[1] \in Traders
BY DEF Tokens

\* open_secondary_market: no listing, lock or bid, and no token is locked.
LEMMA TradingInit == Init => TradingInv
<1> SUFFICES ASSUME Init  PROVE TradingInv
  OBVIOUS
<1>1. TypeOK
  BY QuantityAssumption, TimeAssumption
  DEF Init, TypeOK, EventStatus, SecondaryMarketStatus, ShareToken
<1>2. LocksStand
  <2> SUFFICES ASSUME NEW t \in Tokens, NEW o \in OrderIds  PROVE LockStands(t, o)
    BY DEF LocksStand
  <2>1. <<t, o>> \in Tokens \X OrderIds
    OBVIOUS
  <2>2. share_locks[<<t, o>>] = NoAccount
    BY <2>1 DEF Init
  <2>3. secondary_orders[o] = NoAccount /\ tokens[t].lock_order_id = NoOrder
    BY DEF Init
  <2> QED
    BY <2>2, <2>3, AccountsAssumption DEF LockStands, Listed
<1>3. AcceptanceBounded
  BY DEF Init, AcceptanceBounded, HasBid
<1> QED
  BY <1>1, <1>2, <1>3 DEF TradingInv

\* mint_shares changes only the quantities of the tokens, and only from zero.
LEMMA MintAddsShares ==
  ASSUME TypeOK, NEW pair \in MatchedPairs, MintShares(pair)
  PROVE  /\ tokens' \in [Tokens -> ShareToken]
         /\ \A t \in Tokens :
              /\ tokens'[t].lock_order_id = tokens[t].lock_order_id
              /\ tokens[t].quantity <= tokens'[t].quantity
         /\ UNCHANGED <<now, phaseVars, secondary_orders, share_locks, bids,
                        reportVars>>
<1> DEFINE yes == <<pair.yes_buyer, "Yes">>
           no  == <<pair.no_buyer, "No">>
<1>1. yes \in Tokens /\ no \in Tokens /\ yes # no
  BY PairsAssumption DEF Tokens, ShareType
<1>2. pair.quantity \in Nat
  BY PairsAssumption
<1>3. /\ tokens[yes].quantity = 0 /\ tokens[no].quantity = 0
      /\ tokens' = [tokens EXCEPT ![yes].quantity = pair.quantity,
                                  ![no].quantity = pair.quantity]
  BY DEF MintShares
<1>4. UNCHANGED <<now, phaseVars, secondary_orders, share_locks, bids, reportVars>>
  BY DEF MintShares
<1> HIDE DEF yes, no
<1>5. tokens' \in [Tokens -> ShareToken]
  BY <1>1, <1>2, <1>3 DEF TypeOK, ShareToken
<1>6. ASSUME NEW t \in Tokens
      PROVE  /\ tokens'[t].lock_order_id = tokens[t].lock_order_id
             /\ tokens[t].quantity <= tokens'[t].quantity
  <2>1. tokens[t] \in ShareToken
    BY DEF TypeOK
  <2> QED
    BY <1>1, <1>2, <1>3, <2>1 DEF TypeOK, ShareToken
<1> QED
  BY <1>4, <1>5, <1>6

\* Every instruction keeps the types.  The one subtraction, in
\* accept_secondary_bid, is of a quantity that was just compared.
LEMMA TypeStep == TradingInv /\ [Next]_vars => TypeOK'
<1> SUFFICES ASSUME TradingInv, [Next]_vars  PROVE TypeOK'
  OBVIOUS
<1> USE DEF TradingInv
<1>1. ASSUME NEW t \in Tokens, NEW o \in OrderIds,
             NEW quantity \in 1..MaxOrderQuantity,
             ListShareForSale(t, o, quantity)
      PROVE  TypeOK'
  <2> DEFINE order == [seller |-> t[1], locked_share_token |-> t,
                       quantity |-> quantity, remaining_quantity |-> quantity,
                       status |-> "Active", expires_at |-> now + OrderExpiry]
             lock == [locked_quantity |-> quantity, status |-> "Locked"]
  <2>1. quantity \in Nat /\ now + OrderExpiry \in Nat
    BY QuantityAssumption, TimeAssumption DEF TypeOK
  <2>2. order \in SecondaryOrder
    BY <2>1, TokenOwner DEF SecondaryOrder, SecondaryOrderStatus
  <2>3. lock \in ShareLock
    BY <2>1 DEF ShareLock, LockStatus
  <2>4. secondary_orders' = [secondary_orders EXCEPT ![o] = order]
    BY <1>1 DEF ListShareForSale
  <2>5. share_locks' = [share_locks EXCEPT ![<<t, o>>] = lock]
    BY <1>1 DEF ListShareForSale
  <2> HIDE DEF order, lock
  <2>6. secondary_orders' \in [OrderIds -> SecondaryOrder \cup {NoAccount}]
    BY <2>2, <2>4 DEF TypeOK
  <2>7. share_locks' \in [Tokens \X OrderIds -> ShareLock \cup {NoAccount}]
    BY <2>3, <2>5 DEF TypeOK
  <2>8. tokens' \in [Tokens -> ShareToken]
    BY <1>1 DEF ListShareForSale, TypeOK, ShareToken
  <2> QED
    BY <1>1, <2>6, <2>7, <2>8
    DEF ListShareForSale, TypeOK, phaseVars, reportVars
<1>2. ASSUME NEW b \in BidIds, NEW o \in OrderIds, NEW buyer \in Traders,
             NEW quantity \in 1..MaxOrderQuantity,
             PlaceSecondaryBid(b, o, buyer, quantity)
      PROVE  TypeOK'
  <2> DEFINE bid == [order_id |-> o, buyer |-> buyer, quantity |-> quantity,
                     status |-> "Pending", expires_at |-> now + BidExpiry,
                     accepted_at |-> 0]
  <2>1. quantity \in Nat /\ now + BidExpiry \in Nat
    BY QuantityAssumption, TimeAssumption DEF TypeOK
  <2>2. bid \in SecondaryBid
    BY <2>1 DEF SecondaryBid, SecondaryBidStatus
  <2>3. bids' = [bids EXCEPT ![b] = bid]
    BY <1>2 DEF PlaceSecondaryBid
  <2> HIDE DEF bid
  <2>4. bids' \in [BidIds -> SecondaryBid \cup {NoAccount}]
    BY <2>2, <2>3 DEF TypeOK
  <2> QED
    BY <1>2, <2>4
    DEF PlaceSecondaryBid, TypeOK, phaseVars, listingVars, reportVars
<1>3. ASSUME NEW b \in BidIds, AcceptSecondaryBid(b)
      PROVE  TypeOK'
  <2> DEFINE o == bids[b].order_id
             order == secondary_orders[o]
             q == bids[b].quantity
  <2>1. bids[b] \in SecondaryBid /\ o \in OrderIds /\ q \in Nat
    BY <1>3 DEF AcceptSecondaryBid, Acceptable, HasBid, TypeOK, SecondaryBid
  <2>2. order \in SecondaryOrder /\ q <= order.remaining_quantity
    BY <1>3, <2>1 DEF AcceptSecondaryBid, Acceptable, OrderOpen, Listed, TypeOK
  <2>3. AfterAcceptance(order, q) \in SecondaryOrder
    <3>1. order.remaining_quantity \in Nat
      BY <2>2 DEF SecondaryOrder
    <3>2. order.remaining_quantity - q \in Nat
      BY <2>1, <2>2, <3>1
    <3> QED
      BY <2>2, <3>2 DEF AfterAcceptance, SecondaryOrder, SecondaryOrderStatus
  <2>4. secondary_orders' \in [OrderIds -> SecondaryOrder \cup {NoAccount}]
    BY <1>3, <2>1, <2>3 DEF AcceptSecondaryBid, TypeOK
  <2>5. now \in Nat
    BY TimeAssumption DEF TypeOK
  <2>6. bids' \in [BidIds -> SecondaryBid \cup {NoAccount}]
    <3> DEFINE bid == [bids[b] EXCEPT !.status = "Accepted", !.accepted_at = now]
    <3>1. bid \in SecondaryBid
      BY <2>1, <2>5 DEF SecondaryBid, SecondaryBidStatus
    <3>2. bids' = [bids EXCEPT ![b] = bid]
      BY <1>3 DEF AcceptSecondaryBid, TypeOK
    <3> HIDE DEF bid
    <3> QED
      BY <3>1, <3>2 DEF TypeOK
  <2> QED
    BY <1>3, <2>4, <2>6 DEF AcceptSecondaryBid, TypeOK, phaseVars, reportVars
<1>4. ASSUME NEW o \in OrderIds, NEW t \in Tokens, CancelSecondaryOrder(o, t)
      PROVE  TypeOK'
  <2>1. secondary_orders[o] \in SecondaryOrder
    BY <1>4 DEF CancelSecondaryOrder, OrderOpen, Listed, TypeOK
  <2>2. secondary_orders' \in [OrderIds -> SecondaryOrder \cup {NoAccount}]
    BY <1>4, <2>1
    DEF CancelSecondaryOrder, TypeOK, SecondaryOrder, SecondaryOrderStatus
  <2>3. share_locks[<<t, o>>] \in ShareLock
    BY <1>4 DEF CancelSecondaryOrder, TypeOK
  <2>4. share_locks' \in [Tokens \X OrderIds -> ShareLock \cup {NoAccount}]
    BY <1>4, <2>3 DEF CancelSecondaryOrder, TypeOK, ShareLock, LockStatus
  <2>5. tokens' \in [Tokens -> ShareToken]
    BY <1>4 DEF CancelSecondaryOrder, TypeOK, ShareToken
  <2> QED
    BY <1>4, <2>2, <2>4, <2>5
    DEF CancelSecondaryOrder, TypeOK, phaseVars, reportVars
<1>5. ASSUME NEW trades \in 1..MaxBatchTrades, BatchSettleTrades(trades)
      PROVE  TypeOK'
  BY <1>5, QuantityAssumption
  DEF BatchSettleTrades, TypeOK, phaseVars, listingVars
<1>6. CASE UpdatePriceSnapshot
  BY <1>6, TimeAssumption
  DEF UpdatePriceSnapshot, TypeOK, phaseVars, listingVars
<1>7. CASE ResolveSecondaryMarket
  BY <1>7 DEF ResolveSecondaryMarket, TypeOK, listingVars, reportVars,
              EventStatus, SecondaryMarketStatus
<1>8. ASSUME NEW s \in AdminStatuses, UpdateEvent(s)
      PROVE  TypeOK'
  BY <1>8, StatusesAssumption
  DEF UpdateEvent, TypeOK, listingVars, reportVars
<1>9. CASE Tick
  BY <1>9, TimeAssumption
  DEF Tick, TypeOK, phaseVars, listingVars, reportVars
<1>10. ASSUME NEW pair \in MatchedPairs, MintShares(pair)
       PROVE  TypeOK'
  BY <1>10, MintAddsShares DEF TypeOK, phaseVars, reportVars
<1>11. CASE UNCHANGED vars
  BY <1>11 DEF vars, TypeOK
<1> QED
  BY <1>1, <1>2, <1>3, <1>4, <1>5, <1>6, <1>7, <1>8, <1>9, <1>10, <1>11 DEF Next, TradingNext

\* What accept_secondary_bid leaves of a listing keeps what the lock is about.
LEMMA AcceptanceKeeps ==
  ASSUME NEW order \in SecondaryOrder, NEW q \in Nat
  PROVE  LET new == AfterAcceptance(order, q)
         IN  /\ new.seller = order.seller
             /\ new.locked_share_token = order.locked_share_token
             /\ new.quantity = order.quantity
             /\ new.expires_at = order.expires_at
             /\ new.status \in {"Filled", "PartiallyFilled"}
BY DEF AfterAcceptance, SecondaryOrder

\* Listing a token that is not locked, under an id that is not in use.
LEMMA ListKeepsLocks ==
  ASSUME TradingInv, NEW t \in Tokens, NEW o \in OrderIds,
         NEW quantity \in 1..MaxOrderQuantity, ListShareForSale(t, o, quantity)
  PROVE  LocksStand'
<1> SUFFICES ASSUME NEW u \in Tokens, NEW p \in OrderIds
             PROVE  LockStands(u, p)'
  BY DEF LocksStand
<1> DEFINE order == [seller |-> t[1], locked_share_token |-> t,
                     quantity |-> quantity, remaining_quantity |-> quantity,
                     status |-> "Active", expires_at |-> now + OrderExpiry]
           lock == [locked_quantity |-> quantity, status |-> "Locked"]
<1>1. /\ LockStands(u, p)
      /\ <<t, o>> \in Tokens \X OrderIds
      /\ <<u, p>> \in Tokens \X OrderIds
  BY DEF TradingInv, LocksStand
<1>2. /\ secondary_orders' = [secondary_orders EXCEPT ![o] = order]
      /\ share_locks' = [share_locks EXCEPT ![<<t, o>>] = lock]
      /\ tokens' = [tokens EXCEPT ![t].lock_order_id = o]
      /\ tokens[t].lock_order_id = NoOrder
      /\ quantity <= tokens[t].quantity
      /\ secondary_orders[o] = NoAccount
  BY DEF ListShareForSale, TokenFree, Listed
<1>3. order \in SecondaryOrder /\ lock \in ShareLock
  <2>1. quantity \in Nat /\ now + OrderExpiry \in Nat
    BY QuantityAssumption, TimeAssumption DEF TradingInv, TypeOK
  <2> QED
    BY <2>1, TokenOwner
    DEF SecondaryOrder, SecondaryOrderStatus, ShareLock, LockStatus
<1>4. order # NoAccount /\ lock # NoAccount
  BY <1>3, AccountsAssumption
<1>5. /\ order.seller = t[1] /\ order.locked_share_token = t
      /\ order.quantity = quantity /\ order.status = "Active"
      /\ lock.locked_quantity = quantity /\ lock.status = "Locked"
  OBVIOUS
<1> HIDE DEF order, lock
<1>6. /\ secondary_orders'[p] = IF p = o THEN order ELSE secondary_orders[p]
      /\ share_locks'[<<u, p>>] =
           IF u = t /\ p = o THEN lock ELSE share_locks[<<u, p>>]
  BY <1>1, <1>2 DEF TradingInv, TypeOK
<1>7. /\ tokens'[u].quantity = tokens[u].quantity
      /\ tokens'[u].lock_order_id = IF u = t THEN o ELSE tokens[u].lock_order_id
  BY <1>2 DEF TradingInv, TypeOK, ShareToken
<1>8. CASE u = t /\ p = o
  BY <1>2, <1>4, <1>5, <1>6, <1>7, <1>8 DEF LockStands, Listed
<1>9. CASE u = t /\ p # o
  BY <1>1, <1>2, <1>6, <1>7, <1>9, AccountsAssumption DEF LockStands, Listed
<1>10. CASE u # t /\ p = o
  BY <1>1, <1>2, <1>4, <1>5, <1>6, <1>7, <1>10 DEF LockStands, Listed
<1>11. CASE u # t /\ p # o
  BY <1>1, <1>6, <1>7, <1>11 DEF LockStands, Listed
<1> QED
  BY <1>8, <1>9, <1>10, <1>11

\* Acceptance changes a listing, and never to or from Cancelled.
LEMMA AcceptKeepsLocks ==
  ASSUME TradingInv, NEW b \in BidIds, AcceptSecondaryBid(b)
  PROVE  LocksStand'
<1> SUFFICES ASSUME NEW u \in Tokens, NEW p \in OrderIds
             PROVE  LockStands(u, p)'
  BY DEF LocksStand
<1> DEFINE o == bids[b].order_id
           new == AfterAcceptance(secondary_orders[o], bids[b].quantity)
<1>1. bids[b] \in SecondaryBid
  BY DEF TradingInv, TypeOK, AcceptSecondaryBid, Acceptable, HasBid
<1>2. o \in OrderIds /\ bids[b].quantity \in Nat
  BY <1>1 DEF SecondaryBid
<1>3. /\ secondary_orders[o] \in SecondaryOrder
      /\ secondary_orders[o].status \in {"Active", "PartiallyFilled"}
      /\ secondary_orders[o] # NoAccount
  BY <1>2 DEF TradingInv, TypeOK, AcceptSecondaryBid, Acceptable, OrderOpen, Listed
<1>4. bids[b].quantity <= secondary_orders[o].remaining_quantity
  BY DEF AcceptSecondaryBid, Acceptable
<1>5. new # NoAccount
  <2>1. secondary_orders[o].remaining_quantity - bids[b].quantity \in Nat
    BY <1>2, <1>3, <1>4 DEF SecondaryOrder
  <2>2. new \in SecondaryOrder
    BY <1>3, <2>1 DEF AfterAcceptance, SecondaryOrder, SecondaryOrderStatus
  <2> QED
    BY <2>2, AccountsAssumption
<1>6. /\ new.seller = secondary_orders[o].seller
      /\ new.locked_share_token = secondary_orders[o].locked_share_token
      /\ new.quantity = secondary_orders[o].quantity
      /\ new.status \in {"Filled", "PartiallyFilled"}
  BY <1>2, <1>3, AcceptanceKeeps
<1>7. LockStands(u, p) /\ UNCHANGED <<tokens, share_locks>>
  BY DEF TradingInv, LocksStand, AcceptSecondaryBid
<1>8. secondary_orders'[p] = IF p = o THEN new ELSE secondary_orders[p]
  BY <1>2 DEF AcceptSecondaryBid, TradingInv, TypeOK
<1> HIDE DEF new, o
<1> QED
  BY <1>3, <1>5, <1>6, <1>7, <1>8 DEF LockStands, Listed

\* Cancelling a listing releases the one lock it has.
LEMMA CancelKeepsLocks ==
  ASSUME TradingInv, NEW o \in OrderIds, NEW t \in Tokens,
         CancelSecondaryOrder(o, t)
  PROVE  LocksStand'
<1> SUFFICES ASSUME NEW u \in Tokens, NEW p \in OrderIds
             PROVE  LockStands(u, p)'
  BY DEF LocksStand
<1>1. /\ LockStands(u, p) /\ LockStands(t, o)
      /\ <<t, o>> \in Tokens \X OrderIds
      /\ <<u, p>> \in Tokens \X OrderIds
  BY DEF TradingInv, LocksStand
<1>2. /\ secondary_orders[o] \in SecondaryOrder
      /\ share_locks[<<t, o>>] \in ShareLock
      /\ share_locks[<<t, o>>].status = "Locked"
      /\ secondary_orders[o] # NoAccount /\ share_locks[<<t, o>>] # NoAccount
  BY <1>1 DEF CancelSecondaryOrder, OrderOpen, Listed, TradingInv, TypeOK
<1> DEFINE order == [secondary_orders[o] EXCEPT !.status = "Cancelled"]
           lock == [share_locks[<<t, o>>] EXCEPT !.status = "Released"]
<1>3. order \in SecondaryOrder /\ lock \in ShareLock
  BY <1>2 DEF SecondaryOrder, SecondaryOrderStatus, ShareLock, LockStatus
<1>4. /\ order # NoAccount /\ lock # NoAccount
      /\ order.seller = secondary_orders[o].seller
      /\ order.locked_share_token = secondary_orders[o].locked_share_token
      /\ order.quantity = secondary_orders[o].quantity
      /\ order.status = "Cancelled"
      /\ lock.locked_quantity = share_locks[<<t, o>>].locked_quantity
      /\ lock.status = "Released"
  BY <1>2, <1>3, AccountsAssumption DEF SecondaryOrder, ShareLock
<1>5. /\ secondary_orders' = [secondary_orders EXCEPT ![o] = order]
      /\ share_locks' = [share_locks EXCEPT ![<<t, o>>] = lock]
      /\ tokens' = [tokens EXCEPT ![t].lock_order_id = NoOrder]
  BY <1>1 DEF CancelSecondaryOrder, TradingInv, TypeOK
<1> HIDE DEF order, lock
<1>6. /\ secondary_orders'[p] = IF p = o THEN order ELSE secondary_orders[p]
      /\ share_locks'[<<u, p>>] =
           IF u = t /\ p = o THEN lock ELSE share_locks[<<u, p>>]
  BY <1>1, <1>5 DEF TradingInv, TypeOK
<1>7. /\ tokens'[u].quantity = tokens[u].quantity
      /\ tokens'[u].lock_order_id = IF u = t THEN NoOrder
                                             ELSE tokens[u].lock_order_id
  BY <1>5 DEF TradingInv, TypeOK, ShareToken
<1>8. /\ tokens[t].lock_order_id = o
      /\ secondary_orders[o].locked_share_token = t
  BY <1>1, <1>2 DEF LockStands
<1>9. CASE u = t /\ p = o
  BY <1>1, <1>2, <1>4, <1>6, <1>7, <1>8, <1>9, AccountsAssumption
  DEF LockStands, Listed
<1>10. CASE u = t /\ p # o
  BY <1>1, <1>6, <1>7, <1>8, <1>10, AccountsAssumption DEF LockStands, Listed
<1>11. CASE u # t /\ p = o
  BY <1>1, <1>2, <1>4, <1>6, <1>7, <1>8, <1>11 DEF LockStands, Listed
<1>12. CASE u # t /\ p # o
  BY <1>1, <1>6, <1>7, <1>12 DEF LockStands, Listed
<1> QED
  BY <1>9, <1>10, <1>11, <1>12

\* The other instructions touch no token, listing or lock.
LEMMA MintKeepsLocks ==
  ASSUME TradingInv, NEW pair \in MatchedPairs, MintShares(pair)
  PROVE  LocksStand'
<1> SUFFICES ASSUME NEW u \in Tokens, NEW p \in OrderIds
             PROVE  LockStands(u, p)'
  BY DEF LocksStand
<1>1. LockStands(u, p)
  BY DEF TradingInv, LocksStand
<1>2. /\ tokens'[u].lock_order_id = tokens[u].lock_order_id
      /\ tokens[u].quantity <= tokens'[u].quantity
      /\ UNCHANGED <<secondary_orders, share_locks>>
  BY MintAddsShares DEF TradingInv
<1>3. tokens[u].quantity \in Nat /\ tokens'[u].quantity \in Nat
  BY MintAddsShares DEF TradingInv, TypeOK, ShareToken
<1>4. Listed(p) => secondary_orders[p].quantity \in Nat
  BY DEF Listed, TradingInv, TypeOK, SecondaryOrder
<1> QED
  BY <1>1, <1>2, <1>3, <1>4 DEF LockStands, Listed

LEMMA LocksStep == TradingInv /\ [Next]_vars => LocksStand'
<1> SUFFICES ASSUME TradingInv, [Next]_vars  PROVE LocksStand'
  OBVIOUS
<1>1. ASSUME UNCHANGED listingVars  PROVE LocksStand'
  <2> SUFFICES ASSUME NEW u \in Tokens, NEW p \in OrderIds
               PROVE  LockStands(u, p)'
    BY DEF LocksStand
  <2>1. LockStands(u, p) /\ UNCHANGED <<tokens, secondary_orders, share_locks>>
    BY <1>1 DEF TradingInv, LocksStand, listingVars
  <2> QED
    BY <2>1 DEF LockStands, Listed
<1>2. ASSUME NEW b \in BidIds, NEW o \in OrderIds, NEW buyer \in Traders,
             NEW quantity \in 1..MaxOrderQuantity,
             PlaceSecondaryBid(b, o, buyer, quantity)
      PROVE  LocksStand'
  BY <1>1, <1>2 DEF PlaceSecondaryBid
<1>3. ASSUME NEW trades \in 1..MaxBatchTrades, BatchSettleTrades(trades)
      PROVE  LocksStand'
  BY <1>1, <1>3 DEF BatchSettleTrades
<1>4. CASE UpdatePriceSnapshot
  BY <1>1, <1>4 DEF UpdatePriceSnapshot
<1>5. CASE ResolveSecondaryMarket
  BY <1>1, <1>5 DEF ResolveSecondaryMarket
<1>6. ASSUME NEW s \in AdminStatuses, UpdateEvent(s)
      PROVE  LocksStand'
  BY <1>1, <1>6 DEF UpdateEvent
<1>7. CASE Tick
  BY <1>1, <1>7 DEF Tick
<1>8. CASE UNCHANGED vars
  BY <1>1, <1>8 DEF vars, listingVars
<1> QED
  BY <1>2, <1>3, <1>4, <1>5, <1>6, <1>7, <1>8,
     ListKeepsLocks, AcceptKeepsLocks, CancelKeepsLocks, MintKeepsLocks DEF Next, TradingNext

-----------------------------------------------------------------------------
\* A listing keeps its seller and its expiry for good.
KeepsListing(o) ==
  Listed(o) => /\ Listed(o)'
               /\ secondary_orders'[o].seller = secondary_orders[o].seller
               /\ secondary_orders'[o].expires_at = secondary_orders[o].expires_at

\* No instruction writes the seller or the expiry of a listing again.
LEMMA ListingsKept ==
  TradingInv /\ [Next]_vars => \A o \in OrderIds : KeepsListing(o)
<1> SUFFICES ASSUME TradingInv, [Next]_vars, NEW o \in OrderIds
             PROVE  KeepsListing(o)
  OBVIOUS
<1> USE DEF KeepsListing, Listed
<1>1. ASSUME NEW t \in Tokens, NEW p \in OrderIds,
             NEW quantity \in 1..MaxOrderQuantity,
             ListShareForSale(t, p, quantity)
      PROVE  KeepsListing(o)
  BY <1>1 DEF ListShareForSale, TradingInv, TypeOK
<1>2. ASSUME NEW b \in BidIds, AcceptSecondaryBid(b)
      PROVE  KeepsListing(o)
  <2> DEFINE p == bids[b].order_id
             new == AfterAcceptance(secondary_orders[p], bids[b].quantity)
  <2>1. p \in OrderIds /\ bids[b].quantity \in Nat
    BY <1>2 DEF AcceptSecondaryBid, Acceptable, HasBid, TradingInv, TypeOK,
                SecondaryBid
  <2>2. secondary_orders[p] \in SecondaryOrder
    BY <1>2, <2>1 DEF AcceptSecondaryBid, Acceptable, OrderOpen, TradingInv, TypeOK
  <2>3. /\ new.seller = secondary_orders[p].seller
        /\ new.expires_at = secondary_orders[p].expires_at
    BY <2>1, <2>2, AcceptanceKeeps
  <2>4. new # NoAccount
    <3>1. bids[b].quantity <= secondary_orders[p].remaining_quantity
      BY <1>2 DEF AcceptSecondaryBid, Acceptable
    <3>2. secondary_orders[p].remaining_quantity - bids[b].quantity \in Nat
      BY <2>1, <2>2, <3>1 DEF SecondaryOrder
    <3>3. new \in SecondaryOrder
      BY <2>2, <3>2 DEF AfterAcceptance, SecondaryOrder, SecondaryOrderStatus
    <3> QED
      BY <3>3, AccountsAssumption
  <2>5. secondary_orders' = [secondary_orders EXCEPT ![p] = new]
    BY <1>2 DEF AcceptSecondaryBid
  <2> HIDE DEF p, new
  <2> QED
    BY <2>1, <2>3, <2>4, <2>5 DEF TradingInv, TypeOK
<1>3. ASSUME NEW p \in OrderIds, NEW t \in Tokens, CancelSecondaryOrder(p, t)
      PROVE  KeepsListing(o)
  <2> DEFINE new == [secondary_orders[p] EXCEPT !.status = "Cancelled"]
  <2>1. secondary_orders[p] \in SecondaryOrder
    BY <1>3 DEF CancelSecondaryOrder, OrderOpen, TradingInv, TypeOK
  <2>2. new \in SecondaryOrder
    BY <2>1 DEF SecondaryOrder, SecondaryOrderStatus
  <2>3. /\ new # NoAccount
        /\ new.seller = secondary_orders[p].seller
        /\ new.expires_at = secondary_orders[p].expires_at
    BY <2>1, <2>2, AccountsAssumption DEF SecondaryOrder
  <2>4. secondary_orders' = [secondary_orders EXCEPT ![p] = new]
    BY <1>3 DEF CancelSecondaryOrder, TradingInv, TypeOK
  <2> HIDE DEF new
  <2> QED
    BY <2>3, <2>4 DEF TradingInv, TypeOK
<1>4. UNCHANGED secondary_orders => KeepsListing(o)
  OBVIOUS
<1> QED
  BY <1>1, <1>2, <1>3, <1>4
  DEF Next, TradingNext, vars, MintShares, PlaceSecondaryBid, BatchSettleTrades, UpdatePriceSnapshot,
      ResolveSecondaryMarket, UpdateEvent, Tick, listingVars

\* A bid is placed before its listing expires and expires a bid's life later;
\* acceptance compares the clock with that.
LEMMA AcceptanceStep == TradingInv /\ [Next]_vars => AcceptanceBounded'
<1> SUFFICES ASSUME TradingInv, [Next]_vars, NEW b \in BidIds, HasBid(b)'
             PROVE  BidInTime(b)'
  BY DEF AcceptanceBounded
<1>1. ASSUME HasBid(b), UNCHANGED bids[b]
      PROVE  BidInTime(b)'
  <2>1. BidInTime(b) /\ bids[b].order_id \in OrderIds
    BY <1>1 DEF TradingInv, AcceptanceBounded, HasBid, TypeOK, SecondaryBid
  <2>2. KeepsListing(bids[b].order_id)
    BY <2>1, ListingsKept
  <2> QED
    BY <1>1, <2>1, <2>2 DEF BidInTime, KeepsListing, Listed
<1>2. ASSUME NEW c \in BidIds, NEW o \in OrderIds, NEW buyer \in Traders,
             NEW quantity \in 1..MaxOrderQuantity,
             PlaceSecondaryBid(c, o, buyer, quantity)
      PROVE  BidInTime(b)'
  <2>1. CASE c # b
    <3>1. bids'[b] = bids[b]
      BY <1>2, <2>1 DEF PlaceSecondaryBid, TradingInv, TypeOK
    <3> QED
      BY <1>1, <3>1 DEF HasBid
  <2>2. CASE c = b
    <3>1. /\ bids'[b].order_id = o /\ bids'[b].buyer = buyer
          /\ bids'[b].expires_at = now + BidExpiry
          /\ bids'[b].status = "Pending"
      BY <1>2, <2>2 DEF PlaceSecondaryBid, TradingInv, TypeOK
    <3>2. /\ Listed(o) /\ secondary_orders' = secondary_orders
          /\ now <= secondary_orders[o].expires_at
          /\ buyer # secondary_orders[o].seller
      BY <1>2 DEF PlaceSecondaryBid, Biddable, OrderOpen, listingVars
    <3>3. now \in Nat /\ secondary_orders[o].expires_at \in Nat
      BY <3>2, TimeAssumption DEF TradingInv, TypeOK, Listed, SecondaryOrder
    <3>4. now + BidExpiry <= secondary_orders[o].expires_at + BidExpiry
      BY <3>2, <3>3, TimeAssumption
    <3> QED
      BY <3>1, <3>2, <3>4 DEF BidInTime, Listed
  <2> QED
    BY <2>1, <2>2
<1>3. ASSUME NEW c \in BidIds, AcceptSecondaryBid(c)
      PROVE  BidInTime(b)'
  <2>1. CASE c # b
    <3>1. bids'[b] = bids[b]
      BY <1>3, <2>1 DEF AcceptSecondaryBid, TradingInv, TypeOK
    <3> QED
      BY <1>1, <3>1 DEF HasBid
  <2>2. CASE c = b
    <3>1. /\ HasBid(b) /\ now <= bids[b].expires_at
          /\ bids[b] \in SecondaryBid
      BY <1>3, <2>2 DEF AcceptSecondaryBid, Acceptable, HasBid, TradingInv, TypeOK
    <3>2. /\ bids'[b].order_id = bids[b].order_id
          /\ bids'[b].buyer = bids[b].buyer
          /\ bids'[b].expires_at = bids[b].expires_at
          /\ bids'[b].accepted_at = now
      BY <1>3, <2>2, <3>1 DEF AcceptSecondaryBid, TradingInv, TypeOK, SecondaryBid
    <3>3. BidInTime(b) /\ bids[b].order_id \in OrderIds
      BY <3>1 DEF TradingInv, AcceptanceBounded, SecondaryBid
    <3>4. KeepsListing(bids[b].order_id)
      BY <3>3, ListingsKept
    <3> QED
      BY <3>1, <3>2, <3>3, <3>4 DEF BidInTime, KeepsListing, Listed
  <2> QED
    BY <2>1, <2>2
<1>4. ASSUME UNCHANGED bids  PROVE BidInTime(b)'
  BY <1>1, <1>4 DEF HasBid
<1> QED
  BY <1>2, <1>3, <1>4
  DEF Next, TradingNext, vars, MintShares, ListShareForSale, CancelSecondaryOrder, BatchSettleTrades,
      UpdatePriceSnapshot, ResolveSecondaryMarket, UpdateEvent, Tick
-----------------------------------------------------------------------------
\* Every reachable state of the secondary market satisfies the invariant.
LEMMA TradingInvariant == Spec => []TradingInv
<1>1. TradingInv /\ [Next]_vars => TradingInv'
  BY TypeStep, LocksStep, AcceptanceStep DEF TradingInv
<1> QED
  BY TradingInit, <1>1, PTL DEF Spec

\* The types of the secondary market are kept for all traders and quantities;
\* in particular no listing is ever filled beyond what it offers.
THEOREM TradingTypeCorrect == Spec => []TypeOK
BY TradingInvariant, PTL DEF TradingInv

\* Tokens, listings and locks agree whatever is listed and cancelled when, so
\* that a token backs one listing at a time.
THEOREM LocksAndListingsAgree == Spec => []LocksAgree
<1>1. ASSUME LocksStand  PROVE LocksAgree
  <2>1. ASSUME NEW t \in Tokens, NEW o \in OrderIds  PROVE LockAgrees(t, o)
    <3>1. LockStands(t, o)
      BY <1>1 DEF LocksStand
    <3> QED
      BY <3>1 DEF LockStands, LockAgrees
  <2> QED
    BY <2>1 DEF LocksAgree
<1>2. TradingInv => LocksAgree
  BY <1>1 DEF TradingInv
<1> QED
  BY <1>2, TradingInvariant, PTL

\* Nobody accepts a bid later than a bid's life after its listing has expired.
THEOREM AcceptanceIsBounded == Spec => []AcceptanceBounded
BY TradingInvariant, PTL DEF TradingInv

\* A step of a market that is closed moves no listing, lock or bid.
LEMMA ClosedRests ==
  ASSUME TypeOK, [Next]_vars, market_status = "Closed"
  PROVE  /\ market_status' = "Closed"
         /\ UNCHANGED <<secondary_orders, share_locks, bids>>
         /\ \A t \in Tokens : tokens'[t].lock_order_id = tokens[t].lock_order_id
<1>1. ~Trading
  BY DEF Trading
<1>2. ASSUME NEW pair \in MatchedPairs, MintShares(pair)
      PROVE  /\ UNCHANGED <<market_status, secondary_orders, share_locks, bids>>
             /\ \A t \in Tokens : tokens'[t].lock_order_id = tokens[t].lock_order_id
  BY <1>2, MintAddsShares DEF phaseVars
<1> QED
  BY <1>1, <1>2
  DEF Next, TradingNext, vars, ListShareForSale, PlaceSecondaryBid, AcceptSecondaryBid,
      CancelSecondaryOrder, BatchSettleTrades, UpdatePriceSnapshot,
      ResolveSecondaryMarket, UpdateEvent, Tick, phaseVars, listingVars

\* After resolve_secondary_market nothing is traded, whatever status the admin
\* writes over Resolved.
THEOREM ClosedMarketStaysAtRest == Spec => ClosedMarketRests
<1>1. TypeOK /\ [Next]_vars => [market_status = "Closed" =>
        /\ market_status' = "Closed"
        /\ UNCHANGED <<secondary_orders, share_locks, bids>>
        /\ \A t \in Tokens : tokens'[t].lock_order_id = tokens[t].lock_order_id]_vars
  BY ClosedRests
<1> QED
  BY <1>1, TradingTypeCorrect, PTL DEF Spec, ClosedMarketRests

\* A step leaves a listing alone once it is Filled or Cancelled.
LEMMA SettledListing ==
  ASSUME TradingInv, [Next]_vars, NEW o \in OrderIds, Listed(o),
         secondary_orders[o].status \in {"Filled", "Cancelled"}
  PROVE  secondary_orders'[o] = secondary_orders[o]
<1>1. ~OrderOpen(o)
  BY DEF OrderOpen
<1>2. ASSUME NEW t \in Tokens, NEW p \in OrderIds,
             NEW quantity \in 1..MaxOrderQuantity,
             ListShareForSale(t, p, quantity)
      PROVE  secondary_orders'[o] = secondary_orders[o]
  BY <1>2 DEF ListShareForSale, TradingInv, TypeOK
<1>3. ASSUME NEW b \in BidIds, AcceptSecondaryBid(b)
      PROVE  secondary_orders'[o] = secondary_orders[o]
  BY <1>1, <1>3 DEF AcceptSecondaryBid, Acceptable, TradingInv, TypeOK
<1>4. ASSUME NEW p \in OrderIds, NEW t \in Tokens, CancelSecondaryOrder(p, t)
      PROVE  secondary_orders'[o] = secondary_orders[o]
  BY <1>1, <1>4 DEF CancelSecondaryOrder, TradingInv, TypeOK
<1> QED
  BY <1>2, <1>3, <1>4
  DEF Next, TradingNext, vars, MintShares, PlaceSecondaryBid, BatchSettleTrades, UpdatePriceSnapshot,
      ResolveSecondaryMarket, UpdateEvent, Tick, listingVars

\* A step leaves an accepted bid alone.
LEMMA SettledBid ==
  ASSUME TradingInv, [Next]_vars, NEW b \in BidIds, HasBid(b),
         bids[b].status = "Accepted"
  PROVE  bids'[b] = bids[b]
<1>1. ASSUME NEW c \in BidIds, NEW o \in OrderIds, NEW buyer \in Traders,
             NEW quantity \in 1..MaxOrderQuantity,
             PlaceSecondaryBid(c, o, buyer, quantity)
      PROVE  bids'[b] = bids[b]
  BY <1>1 DEF PlaceSecondaryBid, TradingInv, TypeOK
<1>2. ASSUME NEW c \in BidIds, AcceptSecondaryBid(c)
      PROVE  bids'[b] = bids[b]
  BY <1>2 DEF AcceptSecondaryBid, Acceptable, TradingInv, TypeOK
<1> QED
  BY <1>1, <1>2
  DEF Next, TradingNext, vars, MintShares, ListShareForSale, CancelSecondaryOrder, BatchSettleTrades,
      UpdatePriceSnapshot, ResolveSecondaryMarket, UpdateEvent, Tick

\* A bid that appears is for a listing that is open.
LEMMA NewBid ==
  ASSUME TradingInv, [Next]_vars, NEW b \in BidIds, ~HasBid(b), HasBid(b)'
  PROVE  ~OrderOver(bids'[b].order_id)
<1>1. ASSUME NEW c \in BidIds, NEW o \in OrderIds, NEW buyer \in Traders,
             NEW quantity \in 1..MaxOrderQuantity,
             PlaceSecondaryBid(c, o, buyer, quantity)
      PROVE  ~OrderOver(bids'[b].order_id)
  <2>1. b = c
    BY <1>1 DEF PlaceSecondaryBid, HasBid, TradingInv, TypeOK
  <2>2. bids'[b].order_id = o
    BY <1>1, <2>1 DEF PlaceSecondaryBid, TradingInv, TypeOK
  <2> QED
    BY <1>1, <2>2 DEF PlaceSecondaryBid, Biddable, OrderOpen, OrderOver
<1>2. ASSUME NEW c \in BidIds, AcceptSecondaryBid(c)
      PROVE  FALSE
  BY <1>2 DEF AcceptSecondaryBid, Acceptable, HasBid, TradingInv, TypeOK
<1> QED
  BY <1>1, <1>2
  DEF Next, TradingNext, vars, MintShares, ListShareForSale, CancelSecondaryOrder,
      BatchSettleTrades, UpdatePriceSnapshot, ResolveSecondaryMarket, UpdateEvent,
      Tick, HasBid

\* A bid that becomes Accepted is for a listing that was open.
LEMMA NewAcceptance ==
  ASSUME TradingInv, [Next]_vars, NEW b \in BidIds, ~IsAccepted(b), IsAccepted(b)'
  PROVE  ~OrderOver(bids'[b].order_id)
<1>1. ASSUME NEW c \in BidIds, NEW o \in OrderIds, NEW buyer \in Traders,
             NEW quantity \in 1..MaxOrderQuantity,
             PlaceSecondaryBid(c, o, buyer, quantity)
      PROVE  FALSE
  BY <1>1 DEF PlaceSecondaryBid, IsAccepted, HasBid, TradingInv, TypeOK
<1>2. ASSUME NEW c \in BidIds, AcceptSecondaryBid(c)
      PROVE  ~OrderOver(bids'[b].order_id)
  <2>1. b = c
    BY <1>2 DEF AcceptSecondaryBid, IsAccepted, HasBid, TradingInv, TypeOK
  <2>2. bids[c] \in SecondaryBid
    BY <1>2 DEF AcceptSecondaryBid, Acceptable, HasBid, TradingInv, TypeOK
  <2>3. bids'[b].order_id = bids[c].order_id
    BY <1>2, <2>1, <2>2 DEF AcceptSecondaryBid, TradingInv, TypeOK, SecondaryBid
  <2> QED
    BY <1>2, <2>3 DEF AcceptSecondaryBid, Acceptable, OrderOpen, OrderOver
<1> QED
  BY <1>1, <1>2
  DEF Next, TradingNext, vars, MintShares, ListShareForSale, CancelSecondaryOrder,
      BatchSettleTrades, UpdatePriceSnapshot, ResolveSecondaryMarket, UpdateEvent,
      Tick, IsAccepted, HasBid

\* What a step may do to listings that are over and to bids (TermsAreFinal).
TermsKept ==
  /\ \A o \in OrderIds : OrderOver(o) =>
       TermsStay(secondary_orders[o], secondary_orders'[o])
  /\ \A b \in BidIds :
       /\ ~HasBid(b) /\ HasBid(b)' => ~OrderOver(bids'[b].order_id)
       /\ ~IsAccepted(b) /\ IsAccepted(b)' => ~OrderOver(bids'[b].order_id)
       /\ IsAccepted(b) =>
            \/ bids'[b] = bids[b]
            \/ bids'[b] = [bids[b] EXCEPT !.status = "Settled"]

\* Filled and cancelled listings do not open again and sell nothing more, and
\* accepted bids keep their terms.
THEOREM TermsStayFinal == Spec => TermsAreFinal
<1>1. ASSUME TradingInv, [Next]_vars  PROVE TermsKept
  <2>1. ASSUME NEW o \in OrderIds, OrderOver(o)
        PROVE  TermsStay(secondary_orders[o], secondary_orders'[o])
    BY <1>1, <2>1, SettledListing DEF OrderOver, TermsStay
  <2>2. ASSUME NEW b \in BidIds, IsAccepted(b)  PROVE bids'[b] = bids[b]
    BY <1>1, <2>2, SettledBid DEF IsAccepted
  <2> QED
    BY <1>1, <2>1, <2>2, NewBid, NewAcceptance DEF TermsKept
<1>2. TradingInv /\ [Next]_vars => [TermsKept]_vars
  BY <1>1
<1> QED
  BY <1>2, TradingInvariant, PTL DEF Spec, TermsAreFinal, TermsKept

\* What the code makes of settlement.  By SECONDARY_MARKET_ARCHITECTURE.md
\* batch_settle_trades makes accepted bids Settled and frees the sellers'
\* tokens ("Unlocked after settlement"); in the handler these lines are
\* comments.  Bids are placed Pending and become Accepted, and a listing that
\* is sold out keeps its lock, and its seller's token, locked.
BidsUnsettled ==
  \A b \in BidIds : HasBid(b) => bids[b].status \in {"Pending", "Accepted"}
SoldOutStaysLocked ==
  \A o \in OrderIds :
    Listed(o) /\ secondary_orders[o].status = "Filled" =>
      LET t == secondary_orders[o].locked_share_token
      IN  share_locks[<<t, o>>].status = "Locked" /\ tokens[t].lock_order_id = o

\* No instruction writes another status to a bid.
LEMMA BidsUnsettledStep ==
  TypeOK /\ BidsUnsettled /\ [Next]_vars => BidsUnsettled'
<1> SUFFICES ASSUME TypeOK, BidsUnsettled, [Next]_vars, NEW b \in BidIds, HasBid(b)'
             PROVE  bids'[b].status \in {"Pending", "Accepted"}
  BY DEF BidsUnsettled
<1>1. ASSUME NEW c \in BidIds, NEW o \in OrderIds, NEW buyer \in Traders,
             NEW quantity \in 1..MaxOrderQuantity,
             PlaceSecondaryBid(c, o, buyer, quantity)
      PROVE  bids'[b].status \in {"Pending", "Accepted"}
  BY <1>1 DEF PlaceSecondaryBid, BidsUnsettled, HasBid, TypeOK
<1>2. ASSUME NEW c \in BidIds, AcceptSecondaryBid(c)
      PROVE  bids'[b].status \in {"Pending", "Accepted"}
  <2>1. bids[c] \in SecondaryBid
    BY <1>2 DEF AcceptSecondaryBid, Acceptable, HasBid, TypeOK
  <2>2. CASE b = c
    BY <1>2, <2>1, <2>2 DEF AcceptSecondaryBid, TypeOK, SecondaryBid
  <2>3. CASE b # c
    BY <1>2, <2>3 DEF AcceptSecondaryBid, BidsUnsettled, HasBid, TypeOK
  <2> QED
    BY <2>2, <2>3
<1> QED
  BY <1>1, <1>2
  DEF Next, TradingNext, vars, MintShares, ListShareForSale, CancelSecondaryOrder,
      BatchSettleTrades, UpdatePriceSnapshot, ResolveSecondaryMarket, UpdateEvent,
      Tick, BidsUnsettled, HasBid

\* However many batches are settled, no bid becomes Settled, and no token of a
\* sold-out listing is unlocked: batch_settle_trades only counts.
THEOREM SettlementOnlyCounts == Spec => [](BidsUnsettled /\ SoldOutStaysLocked)
<1>1. Init => BidsUnsettled
  BY DEF Init, BidsUnsettled, HasBid
<1>2. TradingInv => TypeOK
  BY DEF TradingInv
<1>3. TradingInv => SoldOutStaysLocked
  <2> SUFFICES ASSUME TradingInv,
                      NEW o \in OrderIds, Listed(o),
                      secondary_orders[o].status = "Filled"
               PROVE  LET t == secondary_orders[o].locked_share_token
                      IN  /\ share_locks[<<t, o>>].status = "Locked"
                          /\ tokens[t].lock_order_id = o
    BY DEF SoldOutStaysLocked
  <2> DEFINE t == secondary_orders[o].locked_share_token
  <2>1. t \in Tokens
    BY DEF Listed, TradingInv, TypeOK, SecondaryOrder
  <2>2. LockStands(t, o)
    BY <2>1 DEF TradingInv, LocksStand
  <2> QED
    BY <2>2 DEF LockStands
<1> QED
  BY <1>1, <1>2, <1>3, BidsUnsettledStep, TradingInvariant, PTL DEF Spec
-----------------------------------------------------------------------------
(***************************************************************************)
(* What is sold.  Listings and bids are for at least a share each; that,   *)
(* with every bid's listing being there (AcceptanceBounded), makes         *)
(* ListingsAccounted inductive.                                            *)
(***************************************************************************)
\* What the bids accepted on a listing add up to.
Sold(o) == SumFunctionOnSet(BidQuantity, AcceptedOn(o))

\* ListingsAccounted, of one listing.
Accounted(order, sold) ==
  /\ order.remaining_quantity + sold = order.quantity
  /\ order.status = "Active" => sold = 0
  /\ order.status = "PartiallyFilled" => sold \in 1..(order.quantity - 1)
  /\ order.status = "Filled" => sold = order.quantity
  /\ order.status = "Cancelled" => sold < order.quantity

\* Nothing is listed and nothing is bid for without a share.
QuantitiesPositive ==
  /\ \A o \in OrderIds : Listed(o) => secondary_orders[o].quantity > 0
  /\ \A b \in BidIds : HasBid(b) => bids[b].quantity > 0

SalesInv == TradingInv /\ ListingsAccounted /\ QuantitiesPositive

\* Bids are for numbers of shares, and finitely many are accepted.
LEMMA BidTypes ==
  ASSUME TypeOK
  PROVE  /\ \A b \in BidIds : BidQuantity[b] \in Nat
         /\ \A o \in OrderIds : IsFiniteSet(AcceptedOn(o)) /\ AcceptedOn(o) \subseteq BidIds
         /\ \A o \in OrderIds : Sold(o) \in Nat
<1>1. \A b \in BidIds : BidQuantity[b] \in Nat
  BY DEF BidQuantity, HasBid, TypeOK, SecondaryBid
<1>2. ASSUME NEW o \in OrderIds
      PROVE  IsFiniteSet(AcceptedOn(o)) /\ AcceptedOn(o) \subseteq BidIds
  <2>1. AcceptedOn(o) \subseteq BidIds
    BY DEF AcceptedOn
  <2> QED
    BY <2>1, FiniteAssumption, FS_Subset
<1>3. ASSUME NEW o \in OrderIds
      PROVE  Sold(o) \in Nat
  BY <1>1, <1>2, SumType DEF Sold
<1> QED
  BY <1>1, <1>2, <1>3

\* A listing's accepted bids and what they are for decide what is sold of it.
LEMMA SoldAgrees ==
  ASSUME TypeOK, NEW o \in OrderIds,
         \A b \in BidIds : b \in AcceptedOn(o)' <=> b \in AcceptedOn(o),
         \A b \in AcceptedOn(o) : BidQuantity'[b] = BidQuantity[b]
  PROVE  Sold(o)' = Sold(o)
<1>1. AcceptedOn(o)' = AcceptedOn(o)
  BY DEF AcceptedOn
<1> DEFINE S == AcceptedOn(o)
           f == BidQuantity
           g == BidQuantity'
<1>2. IsFiniteSet(S) /\ \A b \in S : f[b] \in Nat
  BY BidTypes
<1>3. \A b \in S : g[b] = f[b]
  OBVIOUS
<1>4. Sold(o)' = SumFunctionOnSet(g, S) /\ Sold(o) = SumFunctionOnSet(f, S)
  BY <1>1 DEF Sold
<1> HIDE DEF S, f, g
<1> QED
  BY <1>2, <1>3, <1>4, SumAgrees

\* A step that writes no bid sells nothing.
LEMMA SoldUnchanged ==
  ASSUME UNCHANGED bids, NEW o \in OrderIds
  PROVE  Sold(o)' = Sold(o)
BY DEF Sold, AcceptedOn, BidQuantity, HasBid

\* A new bid is pending: it sells nothing of any listing.
LEMMA PlaceSellsNothing ==
  ASSUME SalesInv, NEW b \in BidIds, NEW p \in OrderIds, NEW buyer \in Traders,
         NEW quantity \in 1..MaxOrderQuantity,
         PlaceSecondaryBid(b, p, buyer, quantity), NEW o \in OrderIds
  PROVE  Sold(o)' = Sold(o)
<1> DEFINE bid == [order_id |-> p, buyer |-> buyer, quantity |-> quantity,
                   status |-> "Pending", expires_at |-> now + BidExpiry,
                   accepted_at |-> 0]
<1>1. TypeOK
  BY DEF SalesInv, TradingInv
<1>2. ~HasBid(b) /\ bids' = [bids EXCEPT ![b] = bid]
  BY DEF PlaceSecondaryBid
<1>3. bid.status = "Pending"
  OBVIOUS
<1> HIDE DEF bid
<1>4. \A c \in BidIds : c \in AcceptedOn(o)' <=> c \in AcceptedOn(o)
  BY <1>1, <1>2, <1>3 DEF AcceptedOn, HasBid, TypeOK
<1>5. \A c \in AcceptedOn(o) : BidQuantity'[c] = BidQuantity[c]
  BY <1>1, <1>2 DEF AcceptedOn, BidQuantity, HasBid, TypeOK
<1> QED
  BY <1>1, <1>4, <1>5, SoldAgrees

\* An accepted bid adds its quantity to what is sold of its own listing.
LEMMA AcceptSells ==
  ASSUME SalesInv, NEW b \in BidIds, AcceptSecondaryBid(b), NEW o \in OrderIds
  PROVE  Sold(o)' = IF o = bids[b].order_id THEN Sold(o) + bids[b].quantity
                                            ELSE Sold(o)
<1>1. TypeOK
  BY DEF SalesInv, TradingInv
<1>2. /\ HasBid(b) /\ bids[b] \in SecondaryBid /\ bids[b].status = "Pending"
      /\ bids' = [bids EXCEPT ![b].status = "Accepted", ![b].accepted_at = now]
  BY <1>1 DEF AcceptSecondaryBid, Acceptable, HasBid, TypeOK
<1>3. /\ bids'[b].order_id = bids[b].order_id
      /\ bids'[b].quantity = bids[b].quantity
      /\ bids'[b].status = "Accepted"
      /\ bids'[b] # NoAccount
  <2> DEFINE new == [bids[b] EXCEPT !.status = "Accepted", !.accepted_at = now]
  <2>1. bids'[b] = new
    BY <1>1, <1>2 DEF TypeOK
  <2>2. now \in Nat
    BY <1>1, TimeAssumption DEF TypeOK
  <2>3. new \in SecondaryBid
    BY <1>2, <2>2 DEF SecondaryBid, SecondaryBidStatus
  <2>4. new # NoAccount
    BY <2>3, AccountsAssumption
  <2>5. /\ new.order_id = bids[b].order_id
        /\ new.quantity = bids[b].quantity
        /\ new.status = "Accepted"
    BY <1>2 DEF SecondaryBid
  <2> HIDE DEF new
  <2> QED
    BY <2>1, <2>4, <2>5
<1>4. \A c \in BidIds \ {b} : bids'[c] = bids[c]
  BY <1>1, <1>2 DEF TypeOK
<1>5. \A c \in BidIds : BidQuantity'[c] = BidQuantity[c]
  <2>1. ASSUME NEW c \in BidIds, c # b
        PROVE  BidQuantity'[c] = BidQuantity[c]
    BY <1>4, <2>1 DEF BidQuantity, HasBid
  <2>2. BidQuantity'[b] = BidQuantity[b]
    BY <1>2, <1>3 DEF BidQuantity, HasBid
  <2> QED
    BY <2>1, <2>2
<1>6. CASE o # bids[b].order_id
  <2>1. \A c \in BidIds : c \in AcceptedOn(o)' <=> c \in AcceptedOn(o)
    BY <1>3, <1>4, <1>6 DEF AcceptedOn, HasBid
  <2>2. \A c \in AcceptedOn(o) : BidQuantity'[c] = BidQuantity[c]
    BY <1>5 DEF AcceptedOn
  <2> QED
    BY <1>1, <1>6, <2>1, <2>2, SoldAgrees
<1>7. CASE o = bids[b].order_id
  <2> DEFINE S == AcceptedOn(o)
             f == BidQuantity
             g == BidQuantity'
  <2>1. b \notin S
    BY <1>2 DEF AcceptedOn
  <2>2. AcceptedOn(o)' = S \cup {b}
    BY <1>2, <1>3, <1>4, <1>7 DEF AcceptedOn, HasBid
  <2>3. IsFiniteSet(S) /\ S \subseteq BidIds /\ \A c \in S : f[c] \in Nat
    BY <1>1, BidTypes
  <2>4. \A c \in S : g[c] = f[c]
    BY <1>5, <2>3
  <2>5. g[b] = bids[b].quantity /\ g[b] \in Nat
    <3>1. f[b] = bids[b].quantity /\ f[b] \in Nat
      BY <1>1, <1>2, BidTypes DEF BidQuantity
    <3> QED
      BY <1>5, <3>1
  <2>6. Sold(o)' = SumFunctionOnSet(g, S \cup {b}) /\ Sold(o) = SumFunctionOnSet(f, S)
    BY <2>2 DEF Sold
  <2> HIDE DEF S, f, g
  <2>7. SumFunctionOnSet(g, S \cup {b}) = SumFunctionOnSet(f, S) + g[b]
    BY <2>1, <2>3, <2>4, <2>5, SumExtended
  <2> QED
    BY <1>7, <2>5, <2>6, <2>7
<1> QED
  BY <1>6, <1>7

\* A listing that is not there has no bids.
LEMMA NothingSoldBefore ==
  ASSUME TradingInv, NEW o \in OrderIds, ~Listed(o)
  PROVE  Sold(o) = 0
<1>1. AcceptedOn(o) = {}
  BY DEF TradingInv, AcceptanceBounded, BidInTime, AcceptedOn
<1> QED
  BY <1>1, FS_EmptySet, SumOfZeros DEF Sold

\* ListingsAccounted is about each listing and what is sold of it.
LEMMA ListingsAccountedFor ==
  ListingsAccounted <=>
    \A o \in OrderIds : Listed(o) => Accounted(secondary_orders[o], Sold(o))
BY DEF ListingsAccounted, Accounted, Sold

\* A listing of which neither the account nor the sales change.
LEMMA AccountedStays ==
  ASSUME ListingsAccounted, NEW o \in OrderIds, UNCHANGED secondary_orders[o],
         Sold(o)' = Sold(o), Listed(o)'
  PROVE  Accounted(secondary_orders[o], Sold(o))'
<1>1. Accounted(secondary_orders[o], Sold(o))
  BY ListingsAccountedFor DEF Listed
<1> QED
  BY <1>1 DEF Accounted

\* A new listing offers everything it lists.
LEMMA ListAccounts ==
  ASSUME SalesInv, NEW t \in Tokens, NEW p \in OrderIds,
         NEW quantity \in 1..MaxOrderQuantity, ListShareForSale(t, p, quantity)
  PROVE  ListingsAccounted'
<1> SUFFICES ASSUME NEW o \in OrderIds, Listed(o)'
             PROVE  Accounted(secondary_orders[o], Sold(o))'
  BY DEF ListingsAccounted, Accounted, Sold
<1>1. TypeOK /\ TradingInv /\ ListingsAccounted
  BY DEF SalesInv, TradingInv
<1>2. Sold(o)' = Sold(o)
  BY SoldUnchanged DEF ListShareForSale
<1>3. CASE o # p
  <2>1. secondary_orders'[o] = secondary_orders[o]
    BY <1>1, <1>3 DEF ListShareForSale, TypeOK
  <2> QED
    BY <1>1, <1>2, <2>1, AccountedStays
<1>4. CASE o = p
  <2>1. Sold(o) = 0
    BY <1>1, <1>4, NothingSoldBefore DEF ListShareForSale
  <2>2. /\ secondary_orders'[o].quantity = quantity
        /\ secondary_orders'[o].remaining_quantity = quantity
        /\ secondary_orders'[o].status = "Active"
    BY <1>1, <1>4 DEF ListShareForSale, TypeOK
  <2> QED
    BY <1>2, <2>1, <2>2, QuantityAssumption DEF Accounted
<1> QED
  BY <1>3, <1>4

\* What an accepted bid takes is what the listing has less, and the listing is
\* Filled exactly when nothing is left.
LEMMA AcceptanceAccounts ==
  ASSUME NEW order \in SecondaryOrder, NEW sold \in Nat, NEW q \in Nat \ {0},
         Accounted(order, sold), order.status \in {"Active", "PartiallyFilled"},
         q <= order.remaining_quantity
  PROVE  Accounted(AfterAcceptance(order, q), sold + q)
<1> DEFINE left == order.remaining_quantity - q
           new  == AfterAcceptance(order, q)
<1>1. /\ order.remaining_quantity \in Nat /\ order.quantity \in Nat
      /\ left \in Nat
  BY DEF SecondaryOrder
<1>2. /\ new.remaining_quantity = left
      /\ new.quantity = order.quantity
      /\ new.status = IF left = 0 THEN "Filled" ELSE "PartiallyFilled"
  BY DEF AfterAcceptance, SecondaryOrder
<1>3. left + (sold + q) = order.quantity
  BY <1>1 DEF Accounted
<1> HIDE DEF left, new
<1>4. /\ left = 0 => sold + q = order.quantity
      /\ left # 0 => sold + q \in 1..(order.quantity - 1)
  BY <1>1, <1>3
<1> QED
  BY <1>2, <1>3, <1>4 DEF Accounted, new

\* Accepting a bid takes its quantity from one listing.
LEMMA AcceptAccounts ==
  ASSUME SalesInv, NEW b \in BidIds, AcceptSecondaryBid(b)
  PROVE  ListingsAccounted'
<1> SUFFICES ASSUME NEW o \in OrderIds, Listed(o)'
             PROVE  Accounted(secondary_orders[o], Sold(o))'
  BY DEF ListingsAccounted, Accounted, Sold
<1> DEFINE p == bids[b].order_id
           q == bids[b].quantity
<1>1. TypeOK /\ TradingInv /\ ListingsAccounted
  BY DEF SalesInv, TradingInv
<1>2. /\ HasBid(b) /\ bids[b] \in SecondaryBid
      /\ OrderOpen(p) /\ q <= secondary_orders[p].remaining_quantity
      /\ secondary_orders' =
           [secondary_orders EXCEPT ![p] = AfterAcceptance(@, q)]
  BY <1>1 DEF AcceptSecondaryBid, Acceptable, HasBid, TypeOK
<1>3. p \in OrderIds /\ q \in Nat \ {0}
  BY <1>2 DEF SecondaryBid, SalesInv, QuantitiesPositive
<1>4. Sold(o)' = IF o = p THEN Sold(o) + q ELSE Sold(o)
  BY AcceptSells
<1> HIDE DEF p, q
<1>5. CASE o # p
  <2>1. secondary_orders'[o] = secondary_orders[o]
    BY <1>1, <1>2, <1>3, <1>5 DEF TypeOK
  <2> QED
    BY <1>1, <1>4, <1>5, <2>1, AccountedStays
<1>6. CASE o = p
  <2> DEFINE order == secondary_orders[o]
  <2>1. order \in SecondaryOrder /\ order.status \in {"Active", "PartiallyFilled"}
    BY <1>1, <1>2, <1>6 DEF OrderOpen, Listed, TypeOK
  <2>2. Accounted(order, Sold(o)) /\ Sold(o) \in Nat
    BY <1>1, <1>2, <1>6, ListingsAccountedFor, BidTypes DEF OrderOpen
  <2>3. secondary_orders'[o] = AfterAcceptance(order, q)
    BY <1>1, <1>2, <1>6 DEF TypeOK
  <2>4. Accounted(AfterAcceptance(order, q), Sold(o) + q)
    <3> HIDE DEF order
    <3> QED
      BY <1>2, <1>3, <1>6, <2>1, <2>2, AcceptanceAccounts DEF order
  <2> QED
    BY <1>4, <1>6, <2>3, <2>4 DEF Accounted
<1> QED
  BY <1>5, <1>6

\* Cancelling leaves what was sold, which is not everything.
LEMMA CancelAccounts ==
  ASSUME SalesInv, NEW p \in OrderIds, NEW t \in Tokens,
         CancelSecondaryOrder(p, t)
  PROVE  ListingsAccounted'
<1> SUFFICES ASSUME NEW o \in OrderIds, Listed(o)'
             PROVE  Accounted(secondary_orders[o], Sold(o))'
  BY DEF ListingsAccounted, Accounted, Sold
<1>1. TypeOK /\ TradingInv /\ ListingsAccounted
  BY DEF SalesInv, TradingInv
<1>2. Sold(o)' = Sold(o)
  BY SoldUnchanged DEF CancelSecondaryOrder
<1>3. CASE o # p
  <2>1. secondary_orders'[o] = secondary_orders[o]
    BY <1>1, <1>3 DEF CancelSecondaryOrder, TypeOK
  <2> QED
    BY <1>1, <1>2, <2>1, AccountedStays
<1>4. CASE o = p
  <2> DEFINE order == secondary_orders[o]
  <2>1. /\ Listed(o) /\ order \in SecondaryOrder
        /\ order.status \in {"Active", "PartiallyFilled"}
    BY <1>1, <1>4 DEF CancelSecondaryOrder, OrderOpen, Listed, TypeOK
  <2>2. Accounted(order, Sold(o)) /\ Sold(o) \in Nat
    BY <1>1, <2>1, ListingsAccountedFor, BidTypes
  <2>3. order.quantity > 0 /\ order.quantity \in Nat
    BY <2>1 DEF SalesInv, QuantitiesPositive, SecondaryOrder
  <2>4. /\ secondary_orders'[o].quantity = order.quantity
        /\ secondary_orders'[o].remaining_quantity = order.remaining_quantity
        /\ secondary_orders'[o].status = "Cancelled"
    BY <1>1, <1>4, <2>1 DEF CancelSecondaryOrder, TypeOK, SecondaryOrder
  <2>5. Sold(o) < order.quantity
    <3> HIDE DEF order
    <3> QED
      BY <2>1, <2>2, <2>3 DEF Accounted
  <2>6. order.remaining_quantity + Sold(o) = order.quantity
    BY <2>2 DEF Accounted
  <2> QED
    <3> HIDE DEF order
    <3> QED
      BY <1>2, <2>4, <2>5, <2>6 DEF Accounted
<1> QED
  BY <1>3, <1>4

\* Listings and bids are for at least a share, and neither is written again.
LEMMA QuantitiesStep == SalesInv /\ [Next]_vars => QuantitiesPositive'
<1> SUFFICES ASSUME SalesInv, [Next]_vars  PROVE QuantitiesPositive'
  OBVIOUS
<1>1. TypeOK /\ TradingInv /\ QuantitiesPositive
  BY DEF SalesInv, TradingInv
<1>2. ASSUME UNCHANGED <<secondary_orders, bids>>  PROVE QuantitiesPositive'
  BY <1>1, <1>2 DEF QuantitiesPositive, Listed, HasBid
<1>3. ASSUME NEW t \in Tokens, NEW p \in OrderIds,
             NEW quantity \in 1..MaxOrderQuantity,
             ListShareForSale(t, p, quantity)
      PROVE  QuantitiesPositive'
  <2>1. quantity > 0
    BY QuantityAssumption
  <2>2. ASSUME NEW o \in OrderIds, Listed(o)'
        PROVE  secondary_orders'[o].quantity > 0
    <3>1. CASE o = p
      BY <1>1, <1>3, <2>1, <3>1 DEF ListShareForSale, TypeOK
    <3>2. CASE o # p
      <4>1. secondary_orders'[o] = secondary_orders[o]
        BY <1>1, <1>3, <3>2 DEF ListShareForSale, TypeOK
      <4> QED
        BY <1>1, <2>2, <4>1 DEF QuantitiesPositive, Listed
    <3> QED
      BY <3>1, <3>2
  <2>3. UNCHANGED bids
    BY <1>3 DEF ListShareForSale
  <2> QED
    BY <1>1, <2>2, <2>3 DEF QuantitiesPositive, HasBid
<1>4. ASSUME NEW b \in BidIds, NEW o \in OrderIds, NEW buyer \in Traders,
             NEW quantity \in 1..MaxOrderQuantity,
             PlaceSecondaryBid(b, o, buyer, quantity)
      PROVE  QuantitiesPositive'
  <2>1. quantity > 0
    BY QuantityAssumption
  <2>2. ASSUME NEW c \in BidIds, HasBid(c)'
        PROVE  bids'[c].quantity > 0
    <3>1. CASE c = b
      BY <1>1, <1>4, <2>1, <3>1 DEF PlaceSecondaryBid, TypeOK
    <3>2. CASE c # b
      <4>1. bids'[c] = bids[c]
        BY <1>1, <1>4, <3>2 DEF PlaceSecondaryBid, TypeOK
      <4> QED
        BY <1>1, <2>2, <4>1 DEF QuantitiesPositive, HasBid
    <3> QED
      BY <3>1, <3>2
  <2>3. UNCHANGED secondary_orders
    BY <1>4 DEF PlaceSecondaryBid, listingVars
  <2> QED
    BY <1>1, <2>2, <2>3 DEF QuantitiesPositive, Listed
<1>5. ASSUME NEW b \in BidIds, AcceptSecondaryBid(b)
      PROVE  QuantitiesPositive'
  <2> DEFINE p == bids[b].order_id
             q == bids[b].quantity
  <2>1. /\ HasBid(b) /\ bids[b] \in SecondaryBid /\ OrderOpen(p)
        /\ bids' = [bids EXCEPT ![b].status = "Accepted", ![b].accepted_at = now]
        /\ secondary_orders' =
             [secondary_orders EXCEPT ![p] = AfterAcceptance(@, q)]
    BY <1>1, <1>5 DEF AcceptSecondaryBid, Acceptable, HasBid, TypeOK
  <2>2. p \in OrderIds /\ q \in Nat
    BY <2>1 DEF SecondaryBid
  <2>3. ASSUME NEW c \in BidIds, HasBid(c)'
        PROVE  bids'[c].quantity > 0
    <3>1. HasBid(c)
      BY <1>1, <2>1, <2>3 DEF HasBid, TypeOK
    <3>2. bids[c] \in SecondaryBid
      BY <1>1, <3>1 DEF HasBid, TypeOK
    <3>3. bids'[c].quantity = bids[c].quantity
      BY <1>1, <2>1, <3>2 DEF TypeOK, SecondaryBid
    <3> QED
      BY <1>1, <3>1, <3>3 DEF QuantitiesPositive
  <2>4. ASSUME NEW o \in OrderIds, Listed(o)'
        PROVE  secondary_orders'[o].quantity > 0
    <3>1. CASE o = p
      <4>1. Listed(o) /\ secondary_orders[o] \in SecondaryOrder
        BY <1>1, <2>1, <3>1 DEF OrderOpen, Listed, TypeOK
      <4>2. secondary_orders'[o] = AfterAcceptance(secondary_orders[o], q)
        BY <1>1, <2>1, <3>1 DEF TypeOK
      <4>3. secondary_orders'[o].quantity = secondary_orders[o].quantity
        BY <2>2, <4>1, <4>2, AcceptanceKeeps
      <4> QED
        BY <1>1, <4>1, <4>3 DEF QuantitiesPositive
    <3>2. CASE o # p
      <4>1. secondary_orders'[o] = secondary_orders[o]
        BY <1>1, <2>1, <2>2, <3>2 DEF TypeOK
      <4> QED
        BY <1>1, <2>4, <4>1 DEF QuantitiesPositive, Listed
    <3> QED
      BY <3>1, <3>2
  <2> QED
    BY <2>3, <2>4 DEF QuantitiesPositive
<1>6. ASSUME NEW p \in OrderIds, NEW t \in Tokens, CancelSecondaryOrder(p, t)
      PROVE  QuantitiesPositive'
  <2>1. UNCHANGED bids
    BY <1>6 DEF CancelSecondaryOrder
  <2>2. ASSUME NEW o \in OrderIds, Listed(o)'
        PROVE  secondary_orders'[o].quantity > 0
    <3>1. Listed(o)
      BY <1>1, <1>6, <2>2 DEF CancelSecondaryOrder, OrderOpen, Listed, TypeOK
    <3>2. secondary_orders[o] \in SecondaryOrder
      BY <1>1, <3>1 DEF Listed, TypeOK
    <3>3. secondary_orders'[o].quantity = secondary_orders[o].quantity
      BY <1>1, <1>6, <3>2 DEF CancelSecondaryOrder, TypeOK, SecondaryOrder
    <3> QED
      BY <1>1, <3>1, <3>3 DEF QuantitiesPositive
  <2> QED
    BY <1>1, <2>1, <2>2 DEF QuantitiesPositive, HasBid
<1> QED
  BY <1>2, <1>3, <1>4, <1>5, <1>6
  DEF Next, TradingNext, vars, MintShares, BatchSettleTrades, UpdatePriceSnapshot,
      ResolveSecondaryMarket, UpdateEvent, Tick, listingVars

\* Every instruction leaves the listings accounted for.
LEMMA AccountsStep == SalesInv /\ [Next]_vars => ListingsAccounted'
<1> SUFFICES ASSUME SalesInv, [Next]_vars  PROVE ListingsAccounted'
  OBVIOUS
<1>1. ASSUME UNCHANGED secondary_orders, \A o \in OrderIds : Sold(o)' = Sold(o)
      PROVE  ListingsAccounted'
  <2>1. ASSUME NEW o \in OrderIds, Listed(o)'
        PROVE  Accounted(secondary_orders[o], Sold(o))'
    BY <1>1, <2>1, AccountedStays DEF SalesInv
  <2> QED
    BY <2>1 DEF ListingsAccounted, Accounted, Sold
<1>2. ASSUME UNCHANGED <<secondary_orders, bids>>  PROVE ListingsAccounted'
  BY <1>1, <1>2, SoldUnchanged
<1>3. ASSUME NEW b \in BidIds, NEW o \in OrderIds, NEW buyer \in Traders,
             NEW quantity \in 1..MaxOrderQuantity,
             PlaceSecondaryBid(b, o, buyer, quantity)
      PROVE  ListingsAccounted'
  BY <1>1, <1>3, PlaceSellsNothing DEF PlaceSecondaryBid, listingVars
<1> QED
  BY <1>2, <1>3, ListAccounts, AcceptAccounts, CancelAccounts
  DEF Next, TradingNext, vars, MintShares, BatchSettleTrades, UpdatePriceSnapshot,
      ResolveSecondaryMarket, UpdateEvent, Tick, listingVars

\* What a listing has left and what its accepted bids have taken make up what
\* it was listed with, and its status says so, for every number of bids.
THEOREM ListingsAddUp == Spec => []ListingsAccounted
<1>1. Init => ListingsAccounted /\ QuantitiesPositive
  BY DEF Init, ListingsAccounted, QuantitiesPositive, Listed, HasBid
<1>2. Init => SalesInv
  BY <1>1, TradingInit DEF SalesInv
<1>3. TradingInv /\ [Next]_vars => TradingInv'
  BY TypeStep, LocksStep, AcceptanceStep DEF TradingInv
<1>4. SalesInv /\ [Next]_vars => SalesInv'
  BY <1>3, AccountsStep, QuantitiesStep DEF SalesInv
<1>5. SalesInv => ListingsAccounted
  BY DEF SalesInv
<1> QED
  BY <1>2, <1>4, <1>5, PTL DEF Spec
=============================================================================
