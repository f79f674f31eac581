------------------------ MODULE PrimaryMarketProofs ------------------------
(***************************************************************************)
(* Type correctness and the safety of PrimaryMarket for every set of       *)
(* buyers and order ids, every odds, fee, share count and timing, and both *)
(* values of SystemMayDebitPDA.                                            *)
(***************************************************************************)
EXTENDS PrimaryMarket, PricingProofs, SumLemmas

\* The two prices of the event are numbers of lamports and make one SOL.
LEMMA UnitPriceType ==
  /\ \A type \in OrderType : UnitPrice(type) \in Nat
  /\ CanMatchOrders(UnitPrice("Yes"), UnitPrice("No"))
<1>1. OptaOddsYes \in 0..BasisPoints
  BY PriceAssumption, BasisPointsAssumption
<1> QED
  BY <1>1, EventPricesMakeOneSol DEF OrderType, UnitPrice

\* The fee of an order is a number of lamports.
LEMMA FeeType ==
  ASSUME NEW amount \in Nat
  PROVE  CalculateFee(amount, PlatformFeePrimary) \in Nat
BY PriceAssumption, FeeWithinAmount

\* The products that appear below are numbers.
LEMMA ProductType == \A a, b \in Nat : a * b \in Nat
BY Z3

\* All the state that update_event and the phase changes leave alone.
marketVars == <<orderVars, shareVars, tokenVars, accountVars, ledgerVars>>
-----------------------------------------------------------------------------
\* create_event leaves values of the right types.
LEMMA InitTypeOK == Init => TypeOK
<1> SUFFICES ASSUME Init PROVE TypeOK
  OBVIOUS
<1>1. now \in 0..EndOfTime /\ status \in EventStatus
  BY TimeAssumption DEF Init, EventStatus
<1>7. primary_market_closed_at \in BOOLEAN /\ secondary_market_state \in BOOLEAN
  BY Zenon DEF Init
<1>2. /\ orders \in [OrderIds -> Order \cup {NoAccount}]
      /\ escrows \in [OrderIds -> EscrowAccount \cup {NoAccount}]
  BY DEF Init
<1>3. DOMAIN matched_pairs = {}
  BY DEF Init
<1>4. /\ yes_share_token \in [Buyers -> Nat]
      /\ no_share_token \in [Buyers -> Nat]
  BY DEF Init
<1>5. /\ wallet \in [Wallets -> Nat]
      /\ event_lamports \in Nat
  BY EnvironmentAssumption DEF Init, Wallets
<1>6. /\ shares_minted_yes \in Nat /\ shares_minted_no \in Nat
      /\ remaining_shares \in Nat /\ total_matches \in Nat
      /\ payout_pool \in Nat /\ total_platform_fees \in Nat
  BY SharesAssumption DEF Init
<1> QED
  BY <1>1, <1>2, <1>3, <1>4, <1>5, <1>6, <1>7 DEF TypeOK

\* place_order: the wallet is debited no more than it has.
LEMMA PlaceOrderTypeOK ==
  ASSUME TypeOK, NEW o \in OrderIds, NEW b \in Buyers, NEW type \in OrderType,
         NEW quantity \in 1..MaxOrderQuantity, PlaceOrder(o, b, type, quantity)
  PROVE  TypeOK'
<1> DEFINE price == UnitPrice(type)
           total == quantity * price
           fee   == CalculateFee(total, PlatformFeePrimary)
<1>1. quantity \in Nat /\ price \in Nat
  BY SharesAssumption, UnitPriceType
<1>2. total \in Nat
  BY <1>1, ProductType
<1>3. fee \in Nat
  BY <1>2, FeeType
<1> HIDE DEF price, total, fee
<1>4. orders' = [orders EXCEPT ![o] =
        [buyer |-> b, order_type |-> type, quantity |-> quantity,
         unit_price |-> price, total_amount |-> total, status |-> "Pending"]]
  BY DEF PlaceOrder, price, total
<1>5. orders' \in [OrderIds -> Order \cup {NoAccount}]
  BY <1>1, <1>2, <1>4 DEF TypeOK, Order, OrderStatus
<1>6. escrows' \in [OrderIds -> EscrowAccount \cup {NoAccount}]
  BY <1>2 DEF PlaceOrder, TypeOK, EscrowAccount, price, total
<1>7. wallet' \in [Wallets -> Nat]
  <2>1. /\ total + fee <= wallet[b]
        /\ wallet' = [w \in Wallets |->
             wallet[w] - (IF w = b THEN total + fee ELSE 0)
                       + (IF w = AdminWallet THEN fee ELSE 0)]
    BY DEF PlaceOrder, price, total, fee
  <2>2. b \in Wallets /\ AdminWallet \in Wallets
    BY DEF Wallets
  <2> QED  BY <1>2, <1>3, <2>1, <2>2 DEF TypeOK
<1>8. total_platform_fees' \in Nat
  BY <1>3 DEF PlaceOrder, TypeOK, price, total, fee
<1> QED
  BY <1>5, <1>6, <1>7, <1>8
  DEF PlaceOrder, TypeOK, clockVars, phaseVars, shareVars, tokenVars

\* match_orders: quantities, escrows and remaining shares are debited no more
\* than they have.  It needs to know that both escrows exist.
LEMMA MatchOrdersTypeOK ==
  ASSUME TypeOK, NEW y \in OrderIds, NEW n \in OrderIds,
         NEW r \in Wallets, NEW s \in Wallets, MatchOrders(y, n, r, s),
         escrows[y] # NoAccount, escrows[n] # NoAccount
  PROVE  TypeOK'
<1> DEFINE q         == MatchQuantity(y, n)
           yesAmount == q * orders[y].unit_price
           noAmount  == q * orders[n].unit_price
<1>1. /\ orders[y] \in Order /\ orders[n] \in Order /\ y # n
      /\ escrows[y] \in EscrowAccount /\ escrows[n] \in EscrowAccount
  BY DEF TypeOK, MatchOrders, Matchable, Pending, Live
<1>2. /\ q \in Nat /\ q > 0
      /\ q <= orders[y].quantity /\ q <= orders[n].quantity
      /\ q <= remaining_shares
  BY <1>1 DEF MatchOrders, MatchQuantity, SharesAvailable, Order
<1>3. /\ yesAmount \in Nat /\ noAmount \in Nat
      /\ yesAmount <= escrows[y].lamports /\ noAmount <= escrows[n].lamports
  BY <1>1, <1>2, ProductType DEF MatchOrders, SystemTransferFromPDA, Order
<1>4. ASSUME NEW order \in Order, q <= order.quantity
      PROVE  AfterFill(order, q) \in Order
  <2>1. order.quantity - q \in Nat
    BY <1>2, <1>4 DEF Order
  <2>2. (order.quantity - q) * order.unit_price \in Nat
    BY <2>1, ProductType DEF Order
  <2> QED  BY <2>1, <2>2 DEF AfterFill, Order, OrderStatus
<1>5. ASSUME NEW o \in {y, n}
      PROVE  AfterSettlement(escrows[o], orders[o], q) \in EscrowAccount
  <2>1. orders[o].quantity - q \in Nat
    BY <1>1, <1>2, <1>5 DEF Order
  <2>2. (orders[o].quantity - q) * orders[o].unit_price \in Nat
    BY <1>1, <1>5, <2>1, ProductType DEF Order
  <2>3. escrows[o].lamports - q * orders[o].unit_price \in Nat
    BY <1>1, <1>3, <1>5 DEF EscrowAccount
  <2> QED  BY <2>2, <2>3 DEF AfterSettlement, EscrowAccount
<1>6. orders' \in [OrderIds -> Order \cup {NoAccount}]
  BY <1>1, <1>2, <1>4 DEF MatchOrders, TypeOK
<1>7. escrows' \in [OrderIds -> EscrowAccount \cup {NoAccount}]
  BY <1>1, <1>5 DEF MatchOrders, TypeOK
<1>8. wallet' \in [Wallets -> Nat]
  <2>1. wallet' = [w \in Wallets |->
          wallet[w] + (IF w = r THEN noAmount ELSE 0)
                    + (IF w = s THEN yesAmount ELSE 0)]
    BY DEF MatchOrders
  <2> HIDE DEF yesAmount, noAmount
  <2> QED  BY <1>3, <2>1 DEF TypeOK
<1>9. /\ shares_minted_yes' \in Nat /\ shares_minted_no' \in Nat
      /\ remaining_shares' \in Nat /\ total_matches' \in Nat
  <2> HIDE DEF q
  <2>1. CountMatch(q)
    BY DEF MatchOrders, q
  <2> QED  BY <1>2, <2>1 DEF CountMatch, TypeOK
<1>10. /\ DOMAIN matched_pairs' \subseteq Nat
       /\ \A i \in DOMAIN matched_pairs' : matched_pairs'[i] \in MatchedPair
  <2>1. PairOf(y, n, q) \in MatchedPair
    BY <1>1, <1>2 DEF PairOf, MatchedPair, Order
  <2>2. RecordPair(PairOf(y, n, q))
    BY DEF MatchOrders
  <2> HIDE DEF q
  <2> QED  BY <2>1, <2>2 DEF RecordPair, TypeOK
<1> QED
  BY <1>6, <1>7, <1>8, <1>9, <1>10
  DEF MatchOrders, TypeOK, clockVars, phaseVars, tokenVars, accountVars

\* mint_shares writes the pair's quantity.
LEMMA MintSharesTypeOK ==
  ASSUME TypeOK, NEW i \in DOMAIN matched_pairs, MintShares(i)
  PROVE  TypeOK'
<1>1. matched_pairs[i] \in MatchedPair
  BY DEF TypeOK
<1>2. /\ yes_share_token' \in [Buyers -> Nat]
      /\ no_share_token' \in [Buyers -> Nat]
  BY <1>1 DEF MintShares, TypeOK, MatchedPair
<1> QED
  BY <1>2 DEF MintShares, TypeOK, clockVars, phaseVars, orderVars, shareVars,
              accountVars, ledgerVars

\* process_match adds to the payout pool and may settle the two orders.
LEMMA ProcessMatchTypeOK ==
  ASSUME TypeOK, NEW i \in DOMAIN matched_pairs, ProcessMatch(i)
  PROVE  TypeOK'
<1> DEFINE pair == matched_pairs[i]
           Settle(order) == IF order.quantity = 0
                              THEN [order EXCEPT !.status = "Matched"] ELSE order
<1>1. pair \in MatchedPair
  BY DEF TypeOK
<1>2. \A order \in Order : Settle(order) \in Order
  BY DEF Order, OrderStatus
<1>3. /\ orders[pair.yes_order_id] \in Order
      /\ orders[pair.no_order_id] \in Order
  BY <1>1 DEF ProcessMatch, Live, TypeOK, MatchedPair
<1>4. orders' = [orders EXCEPT ![pair.yes_order_id] = Settle(@),
                               ![pair.no_order_id] = Settle(@)]
  BY DEF ProcessMatch
<1>5. orders' \in [OrderIds -> Order \cup {NoAccount}]
  <2> HIDE DEF Settle, pair
  <2> QED  BY <1>1, <1>2, <1>3, <1>4 DEF TypeOK, MatchedPair
<1>6. payout_pool' \in Nat
  <2>1. pair.quantity * (pair.yes_price + pair.no_price) \in Nat
    BY <1>1, ProductType DEF MatchedPair
  <2> QED  BY <2>1 DEF ProcessMatch, TypeOK
<1> QED
  BY <1>5, <1>6 DEF ProcessMatch, TypeOK, clockVars, phaseVars, shareVars,
                    tokenVars, ledgerVars

\* cancel_order returns what the escrow holds.
LEMMA CancelOrderTypeOK ==
  ASSUME TypeOK, NEW o \in OrderIds, CancelOrder(o)
  PROVE  TypeOK'
<1>1. orders[o] \in Order /\ escrows[o] \in EscrowAccount
  BY DEF CancelOrder, Cancellable, Pending, Live, TypeOK
<1>2. wallet' \in [Wallets -> Nat]
  BY <1>1 DEF CancelOrder, Credit, TypeOK, Order, EscrowAccount, Wallets
<1> QED
  BY <1>2 DEF CancelOrder, TypeOK, clockVars, phaseVars, shareVars, tokenVars,
              accountVars

\* refund_orders debits the escrow no more than it has.
LEMMA RefundOrderTypeOK ==
  ASSUME TypeOK, NEW o \in OrderIds, RefundOrder(o)
  PROVE  TypeOK'
<1>1. orders[o] \in Order /\ escrows[o] \in EscrowAccount
  BY DEF RefundOrder, Pending, Live, TypeOK
<1>2. wallet' \in [Wallets -> Nat]
  BY <1>1 DEF RefundOrder, Credit, TypeOK, Order, EscrowAccount, Wallets
<1>3. orders' \in [OrderIds -> Order \cup {NoAccount}]
  BY <1>1 DEF RefundOrder, TypeOK, Order, OrderStatus
<1>4. escrows' \in [OrderIds -> EscrowAccount \cup {NoAccount}]
  <2>1. escrows[o].lamports - escrows[o].amount \in Nat
    BY <1>1 DEF RefundOrder, SystemTransferFromPDA, EscrowAccount
  <2> QED  BY <1>1, <2>1 DEF RefundOrder, TypeOK, EscrowAccount
<1> QED
  BY <1>2, <1>3, <1>4 DEF RefundOrder, TypeOK, clockVars, phaseVars, shareVars,
                          tokenVars, accountVars

\* collect_fees debits the event account no more than it has.
LEMMA CollectFeesTypeOK ==
  ASSUME TypeOK, NEW w \in Wallets, CollectFees(w)
  PROVE  TypeOK'
<1>1. event_lamports' \in Nat /\ total_platform_fees' \in Nat
  BY DEF CollectFees, SystemTransferFromPDA, TypeOK
<1>2. wallet' \in [Wallets -> Nat]
  BY DEF CollectFees, Credit, TypeOK
<1>3. UNCHANGED <<clockVars, phaseVars, orderVars, shareVars, tokenVars,
                  payout_pool>>
  BY DEF CollectFees
<1> QED
  BY <1>1, <1>2, <1>3 DEF TypeOK, clockVars, phaseVars, orderVars, shareVars,
                          tokenVars

\* The phase changes write statuses, and the clock stays within its bound.
LEMMA PhaseStepTypeOK ==
  ASSUME TypeOK,
         \/ EndPrimaryMarket
         \/ OpenSecondaryMarket
         \/ \E s \in AdminStatuses : UpdateEvent(s)
         \/ Tick
  PROVE  TypeOK'
<1>1. UNCHANGED marketVars
  BY DEF EndPrimaryMarket, OpenSecondaryMarket, UpdateEvent, Tick, marketVars
<1>2. now' \in 0..EndOfTime /\ status' \in EventStatus
  BY EnvironmentAssumption, TimeAssumption
     DEF EndPrimaryMarket, OpenSecondaryMarket, UpdateEvent, Tick, TypeOK,
         EventStatus, clockVars, phaseVars
<1>3. primary_market_closed_at' \in {primary_market_closed_at, TRUE}
  BY DEF EndPrimaryMarket, OpenSecondaryMarket, UpdateEvent, Tick, phaseVars
<1>4. secondary_market_state' \in {secondary_market_state, TRUE}
  BY DEF EndPrimaryMarket, OpenSecondaryMarket, UpdateEvent, Tick, phaseVars
<1>5. primary_market_closed_at' \in BOOLEAN /\ secondary_market_state' \in BOOLEAN
  BY <1>3, <1>4 DEF TypeOK
<1> QED
  BY <1>1, <1>2, <1>5 DEF TypeOK, marketVars, orderVars, shareVars, tokenVars,
                          accountVars, ledgerVars
-----------------------------------------------------------------------------
(***************************************************************************)
(* The inductive invariant.  TypeOK alone is not inductive, for MatchOrders*)
(* must know that the escrow of a pending order exists; EscrowSolvent      *)
(* needs to know what an order costs, which OrdersAtEventPrice says; and   *)
(* NoOrdersAfterPrimary rests on the clock, which ClosedAfterStart keeps.  *)
(***************************************************************************)
OrdersAtEventPrice ==
  \A o \in OrderIds : Live(o) =>
    orders[o].unit_price = UnitPrice(orders[o].order_type)

ClosedAfterStart == primary_market_closed_at => now >= EventStartTime

Inv ==
  /\ TypeOK
  /\ EscrowSolvent
  /\ OrdersAtEventPrice
  /\ SharesAccounted
  /\ ClosedAfterStart
  /\ TokensComeFromPairs
-----------------------------------------------------------------------------
\* What is known whenever a match goes through.
LEMMA MatchFacts ==
  ASSUME TypeOK, EscrowSolvent, NEW y \in OrderIds, NEW n \in OrderIds,
         NEW r \in Wallets, NEW s \in Wallets, MatchOrders(y, n, r, s)
  PROVE  /\ y # n
         /\ orders[y] \in Order /\ orders[n] \in Order
         /\ escrows[y] \in EscrowAccount /\ escrows[n] \in EscrowAccount
         /\ orders[y].status = "Pending" /\ orders[n].status = "Pending"
         /\ MatchQuantity(y, n) \in Nat \ {0}
         /\ MatchQuantity(y, n) <= orders[y].quantity
         /\ MatchQuantity(y, n) <= orders[n].quantity
<1>1. /\ Pending(y) /\ Pending(n)
      /\ orders[y].order_type = "Yes" /\ orders[n].order_type = "No"
      /\ MatchQuantity(y, n) > 0
  BY DEF MatchOrders, Matchable, SharesAvailable
<1>2. y # n /\ Live(y) /\ Live(n)
  BY <1>1 DEF Pending
<1>3. /\ orders[y] \in Order /\ orders[n] \in Order
      /\ escrows[y] \in EscrowAccount /\ escrows[n] \in EscrowAccount
  BY <1>2 DEF TypeOK, EscrowSolvent, EscrowCovers, Live
<1> QED
  BY <1>1, <1>2, <1>3 DEF MatchQuantity, Order, Pending

\* The fields of an order and of its escrow after a fill.
LEMMA FillFields ==
  ASSUME NEW order \in Order, NEW escrow \in EscrowAccount, NEW q \in Nat,
         q <= order.quantity
  PROVE  /\ AfterFill(order, q) \in Order
         /\ AfterFill(order, q).buyer = order.buyer
         /\ AfterFill(order, q).order_type = order.order_type
         /\ AfterFill(order, q).unit_price = order.unit_price
         /\ AfterFill(order, q).quantity = order.quantity - q
         /\ AfterFill(order, q).total_amount =
              (order.quantity - q) * order.unit_price
         /\ AfterFill(order, q).status =
              IF order.quantity - q = 0 THEN "Matched" ELSE order.status
         /\ (order.quantity - q) * order.unit_price =
              order.quantity * order.unit_price - q * order.unit_price
         /\ AfterSettlement(escrow, order, q).amount =
              (order.quantity - q) * order.unit_price
         /\ AfterSettlement(escrow, order, q).lamports =
              escrow.lamports - q * order.unit_price
<1>1. order.quantity \in Nat /\ order.unit_price \in Nat
  BY DEF Order
<1>2. order.quantity - q \in Nat
  BY <1>1
<1>3. (order.quantity - q) * order.unit_price \in Nat
  BY <1>1, <1>2, ProductType
<1>4. (order.quantity - q) * order.unit_price =
        order.quantity * order.unit_price - q * order.unit_price
  BY <1>1, Z3
<1> DEFINE left == order.quantity - q
           cost == left * order.unit_price
<1> HIDE DEF left, cost
<1>5. AfterFill(order, q) = [order EXCEPT !.quantity = left,
         !.total_amount = cost, !.status = IF left = 0 THEN "Matched" ELSE @]
  BY DEF AfterFill, left, cost
<1>6. left \in Nat /\ cost \in Nat
  BY <1>2, <1>3 DEF left, cost
<1>7. /\ AfterFill(order, q) \in Order
      /\ AfterFill(order, q).buyer = order.buyer
      /\ AfterFill(order, q).order_type = order.order_type
      /\ AfterFill(order, q).unit_price = order.unit_price
      /\ AfterFill(order, q).quantity = left
      /\ AfterFill(order, q).total_amount = cost
      /\ AfterFill(order, q).status =
           IF left = 0 THEN "Matched" ELSE order.status
  BY <1>5, <1>6 DEF Order, OrderStatus
<1> QED
  BY <1>4, <1>7 DEF AfterSettlement, left, cost

\* place_order opens an order and an escrow that holds its price.
LEMMA PlaceOrderSolvent ==
  ASSUME TypeOK, EscrowSolvent, NEW o \in OrderIds, NEW b \in Buyers,
         NEW type \in OrderType, NEW quantity \in 1..MaxOrderQuantity,
         PlaceOrder(o, b, type, quantity)
  PROVE  EscrowSolvent'
<1> DEFINE total == quantity * UnitPrice(type)
<1>1. quantity \in Nat /\ quantity # 0 /\ UnitPrice(type) \in Nat
  BY SharesAssumption, UnitPriceType
<1>2. total \in Nat
  BY <1>1, ProductType
<1>3. /\ orders' = [orders EXCEPT ![o] =
           [buyer |-> b, order_type |-> type, quantity |-> quantity,
            unit_price |-> UnitPrice(type), total_amount |-> total,
            status |-> "Pending"]]
      /\ escrows' = [escrows EXCEPT ![o] = [amount |-> total, lamports |-> total]]
  BY DEF PlaceOrder
<1>4. orders'[o] \in Order /\ escrows'[o] \in EscrowAccount
  <2> HIDE DEF total
  <2> QED  BY <1>1, <1>2, <1>3 DEF TypeOK, Order, OrderStatus, EscrowAccount
<1>5. orders'[o] # NoAccount /\ escrows'[o] # NoAccount
  BY <1>4, AccountsAssumption
<1>6. ASSUME NEW p \in OrderIds, p # o
      PROVE  orders'[p] = orders[p] /\ escrows'[p] = escrows[p]
  BY <1>3, <1>6 DEF TypeOK
<1>7. /\ orders'[o].status = "Pending" /\ orders'[o].quantity = quantity
      /\ orders'[o].unit_price = UnitPrice(type)
      /\ orders'[o].total_amount = total
      /\ escrows'[o].amount = total /\ escrows'[o].lamports = total
  BY <1>3 DEF TypeOK
<1> QED
  BY <1>1, <1>5, <1>6, <1>7 DEF EscrowSolvent, EscrowCovers, Live

\* match_orders debits two different escrows by the price of the shares that
\* their orders lose; every other order is untouched.
LEMMA MatchOrdersSolvent ==
  ASSUME TypeOK, EscrowSolvent, NEW y \in OrderIds, NEW n \in OrderIds,
         NEW r \in Wallets, NEW s \in Wallets, MatchOrders(y, n, r, s)
  PROVE  EscrowSolvent'
<1> DEFINE q == MatchQuantity(y, n)
<1>1. /\ orders' = [orders EXCEPT ![y] = AfterFill(@, q), ![n] = AfterFill(@, q)]
      /\ escrows' = [escrows EXCEPT ![y] = AfterSettlement(@, orders[y], q),
                                    ![n] = AfterSettlement(@, orders[n], q)]
  BY DEF MatchOrders
<1>2. /\ y # n
      /\ orders[y] \in Order /\ orders[n] \in Order
      /\ escrows[y] \in EscrowAccount /\ escrows[n] \in EscrowAccount
      /\ orders[y].status = "Pending" /\ orders[n].status = "Pending"
      /\ q \in Nat /\ q <= orders[y].quantity /\ q <= orders[n].quantity
  BY MatchFacts
<1> HIDE DEF q
<1>3. ASSUME NEW p \in OrderIds, p # y, p # n
      PROVE  orders'[p] = orders[p] /\ escrows'[p] = escrows[p]
  BY <1>1, <1>3 DEF TypeOK
<1>4. ASSUME NEW p \in {y, n}
      PROVE  /\ orders'[p] = AfterFill(orders[p], q)
             /\ escrows'[p] = AfterSettlement(escrows[p], orders[p], q)
  BY <1>1, <1>2, <1>4 DEF TypeOK
<1>5. ASSUME NEW p \in {y, n}
      PROVE  /\ orders'[p] # NoAccount /\ escrows'[p] # NoAccount
             /\ orders'[p].status =
                  IF orders'[p].quantity = 0 THEN "Matched" ELSE "Pending"
             /\ escrows'[p].lamports = orders'[p].quantity * orders'[p].unit_price
             /\ escrows'[p].amount = escrows'[p].lamports
             /\ orders'[p].total_amount = escrows'[p].lamports
  <2> DEFINE order == orders[p]
             escrow == escrows[p]
  <2>1. /\ order \in Order /\ escrow \in EscrowAccount
        /\ order.status = "Pending" /\ q <= order.quantity
        /\ orders'[p] = AfterFill(order, q)
        /\ escrows'[p] = AfterSettlement(escrow, order, q)
    BY <1>2, <1>4, <1>5
  <2>2. order # NoAccount
    BY <2>1, AccountsAssumption
  <2>3. escrow.lamports = order.quantity * order.unit_price
    BY <1>2, <1>5, <2>1, <2>2 DEF EscrowSolvent, EscrowCovers, Live
  <2> HIDE DEF order, escrow
  <2>4. /\ orders'[p] \in Order
        /\ orders'[p].unit_price = order.unit_price
        /\ orders'[p].quantity = order.quantity - q
        /\ orders'[p].total_amount = (order.quantity - q) * order.unit_price
        /\ orders'[p].status =
             IF order.quantity - q = 0 THEN "Matched" ELSE "Pending"
        /\ (order.quantity - q) * order.unit_price =
              order.quantity * order.unit_price - q * order.unit_price
        /\ escrows'[p].amount = (order.quantity - q) * order.unit_price
        /\ escrows'[p].lamports = escrow.lamports - q * order.unit_price
    BY <1>2, <2>1, FillFields
  <2>5. orders'[p] # NoAccount
    BY <2>4, AccountsAssumption
  <2>6. escrows'[p] # NoAccount
    <3>1. (order.quantity - q) * order.unit_price \in Nat
      <4>1. order.quantity - q \in Nat /\ order.unit_price \in Nat
        BY <1>2, <2>1 DEF Order
      <4> QED  BY <4>1, ProductType
    <3>2. escrows'[p] \in EscrowAccount
      BY <2>1, <2>3, <2>4, <3>1 DEF AfterSettlement, EscrowAccount
    <3> QED  BY <3>2, AccountsAssumption
  <2> QED  BY <2>3, <2>4, <2>5, <2>6
<1>6. ASSUME NEW p \in {y, n}
      PROVE  orders'[p].quantity = 0 <=> orders'[p].status = "Matched"
  BY <1>5, <1>6
<1>7. ASSUME NEW p \in OrderIds
      PROVE  EscrowCovers(p)'
  BY <1>3, <1>5, <1>6, <1>7 DEF EscrowSolvent, EscrowCovers, Live
<1> QED
  BY <1>7 DEF EscrowSolvent

\* process_match writes Matched where match_orders has written it already.
LEMMA ProcessMatchKeepsOrders ==
  ASSUME TypeOK, EscrowSolvent, NEW i \in DOMAIN matched_pairs, ProcessMatch(i)
  PROVE  orders' = orders
<1> DEFINE yes == matched_pairs[i].yes_order_id
           no  == matched_pairs[i].no_order_id
           Settle(order) == IF order.quantity = 0
                              THEN [order EXCEPT !.status = "Matched"] ELSE order
<1>1. /\ yes \in OrderIds /\ no \in OrderIds
      /\ Live(yes) /\ Live(no)
  BY DEF ProcessMatch, TypeOK, MatchedPair
<1>2. ASSUME NEW o \in {yes, no}
      PROVE  orders[o] \in Order /\ Settle(orders[o]) = orders[o]
  <2>1. Live(o) /\ o \in OrderIds
    BY <1>1, <1>2
  <2>2. /\ orders[o] \in Order
        /\ orders[o].quantity = 0 => orders[o].status = "Matched"
    BY <2>1 DEF TypeOK, EscrowSolvent, EscrowCovers, Live
  <2> QED  BY <2>2 DEF Order
<1>3. orders' = [orders EXCEPT ![yes] = Settle(@), ![no] = Settle(@)]
  BY DEF ProcessMatch
<1> HIDE DEF Settle, yes, no
<1> QED
  BY <1>1, <1>2, <1>3 DEF TypeOK

\* cancel_order removes the order and the escrow together.
LEMMA CancelOrderSolvent ==
  ASSUME TypeOK, EscrowSolvent, NEW o \in OrderIds, CancelOrder(o)
  PROVE  EscrowSolvent'
<1>1. /\ orders' = [orders EXCEPT ![o] = NoAccount]
      /\ escrows' = [escrows EXCEPT ![o] = NoAccount]
  BY DEF CancelOrder
<1>2. orders'[o] = NoAccount /\ escrows'[o] = NoAccount
  BY <1>1 DEF TypeOK
<1>3. ASSUME NEW p \in OrderIds, p # o
      PROVE  orders'[p] = orders[p] /\ escrows'[p] = escrows[p]
  BY <1>1, <1>3 DEF TypeOK
<1> QED
  BY <1>2, <1>3 DEF EscrowSolvent, EscrowCovers, Live

\* refund_orders empties the escrow, because its recorded amount is what it
\* holds.
LEMMA RefundOrderSolvent ==
  ASSUME TypeOK, EscrowSolvent, NEW o \in OrderIds, RefundOrder(o)
  PROVE  EscrowSolvent'
<1>1. /\ orders' = [orders EXCEPT ![o].status = "Refunded"]
      /\ escrows' = [escrows EXCEPT ![o].lamports = @ - escrows[o].amount]
  BY DEF RefundOrder
<1>2. /\ orders[o] \in Order /\ escrows[o] \in EscrowAccount
      /\ orders[o].status = "Pending" /\ Live(o)
  BY DEF RefundOrder, Pending, Live, TypeOK
<1>3. /\ escrows[o].amount = escrows[o].lamports
      /\ orders[o].quantity # 0
  BY <1>2 DEF EscrowSolvent, EscrowCovers
<1>4. /\ orders'[o] = [orders[o] EXCEPT !.status = "Refunded"]
      /\ escrows'[o] = [escrows[o] EXCEPT !.lamports = @ - escrows[o].amount]
  BY <1>1 DEF TypeOK
<1>5. /\ orders'[o] \in Order /\ orders'[o].status = "Refunded"
      /\ orders'[o].quantity # 0
  BY <1>2, <1>3, <1>4 DEF Order, OrderStatus
<1>6. escrows'[o] \in EscrowAccount /\ escrows'[o].lamports = 0
  BY <1>2, <1>3, <1>4 DEF EscrowAccount
<1>7. orders'[o] # NoAccount /\ escrows'[o] # NoAccount
  BY <1>5, <1>6, AccountsAssumption
<1>8. ASSUME NEW p \in OrderIds, p # o
      PROVE  orders'[p] = orders[p] /\ escrows'[p] = escrows[p]
  BY <1>1, <1>8 DEF TypeOK
<1> QED
  BY <1>5, <1>6, <1>7, <1>8 DEF EscrowSolvent, EscrowCovers, Live
-----------------------------------------------------------------------------
(***************************************************************************)
(* What a step may do to one order account.                                *)
(***************************************************************************)
Placed(p) ==
  /\ PrimaryOpen
  /\ orders[p] = NoAccount
  /\ orders'[p] \in Order
  /\ orders'[p].unit_price = UnitPrice(orders'[p].order_type)
  /\ orders'[p].quantity <= MaxOrderQuantity

Reduced(p) ==
  /\ Pending(p)
  /\ orders'[p] \in Order
  /\ orders'[p].buyer = orders[p].buyer
  /\ orders'[p].order_type = orders[p].order_type
  /\ orders'[p].unit_price = orders[p].unit_price
  /\ orders'[p].quantity <= orders[p].quantity

OrderSteps(p) ==
  orders'[p] = orders[p] \/ orders'[p] = NoAccount \/ Placed(p) \/ Reduced(p)

\* Every instruction leaves an order account as it is, closes it, opens it at
\* the event's price while the primary market is open, or reduces a pending
\* order without touching whose it is and what it costs.
LEMMA NextOrderSteps ==
  ASSUME TypeOK, EscrowSolvent, Next, NEW p \in OrderIds
  PROVE  OrderSteps(p)
<1>1. ASSUME NEW o \in OrderIds, NEW b \in Buyers, NEW type \in OrderType,
             NEW quantity \in 1..MaxOrderQuantity,
             PlaceOrder(o, b, type, quantity)
      PROVE  OrderSteps(p)
  <2> DEFINE total == quantity * UnitPrice(type)
  <2>1. /\ PrimaryOpen /\ orders[o] = NoAccount
        /\ orders' = [orders EXCEPT ![o] =
             [buyer |-> b, order_type |-> type, quantity |-> quantity,
              unit_price |-> UnitPrice(type), total_amount |-> total,
              status |-> "Pending"]]
    BY <1>1 DEF PlaceOrder
  <2>2. /\ quantity \in Nat /\ quantity <= MaxOrderQuantity
        /\ UnitPrice(type) \in Nat
    BY SharesAssumption, UnitPriceType
  <2>3. total \in Nat
    BY <2>2, ProductType
  <2> HIDE DEF total
  <2>4. CASE p = o
    BY <2>1, <2>2, <2>3, <2>4 DEF OrderSteps, Placed, TypeOK, Order, OrderStatus
  <2>5. CASE p # o
    BY <2>1, <2>5 DEF OrderSteps, TypeOK
  <2> QED  BY <2>4, <2>5
<1>2. ASSUME NEW y \in OrderIds, NEW n \in OrderIds, NEW r \in Wallets,
             NEW s \in Wallets, MatchOrders(y, n, r, s)
      PROVE  OrderSteps(p)
  <2> DEFINE q == MatchQuantity(y, n)
  <2>1. orders' = [orders EXCEPT ![y] = AfterFill(@, q), ![n] = AfterFill(@, q)]
    BY <1>2 DEF MatchOrders
  <2>2. /\ y # n /\ Pending(y) /\ Pending(n)
        /\ orders[y] \in Order /\ orders[n] \in Order
        /\ escrows[y] \in EscrowAccount /\ escrows[n] \in EscrowAccount
        /\ q \in Nat /\ q <= orders[y].quantity /\ q <= orders[n].quantity
    BY <1>2, MatchFacts DEF MatchOrders, Matchable
  <2> HIDE DEF q
  <2>3. CASE p \in {y, n}
    <3>1. orders'[p] = AfterFill(orders[p], q) /\ Pending(p)
      BY <2>1, <2>2, <2>3 DEF TypeOK
    <3>2. /\ orders[p] \in Order /\ escrows[p] \in EscrowAccount
          /\ q <= orders[p].quantity /\ q \in Nat
      BY <2>2, <2>3
    <3>3. orders[p].quantity - q <= orders[p].quantity
      BY <3>2 DEF Order
    <3> QED  BY <3>1, <3>2, <3>3, FillFields DEF OrderSteps, Reduced
  <2>4. CASE p \notin {y, n}
    BY <2>1, <2>4 DEF OrderSteps, TypeOK
  <2> QED  BY <2>3, <2>4
<1>3. ASSUME NEW i \in DOMAIN matched_pairs, ProcessMatch(i)
      PROVE  OrderSteps(p)
  BY <1>3, ProcessMatchKeepsOrders DEF OrderSteps
<1>4. ASSUME NEW o \in OrderIds, CancelOrder(o)
      PROVE  OrderSteps(p)
  BY <1>4 DEF CancelOrder, OrderSteps, TypeOK
<1>5. ASSUME NEW o \in OrderIds, RefundOrder(o)
      PROVE  OrderSteps(p)
  <2>1. /\ orders' = [orders EXCEPT ![o].status = "Refunded"]
        /\ Pending(o) /\ orders[o] \in Order
    BY <1>5 DEF RefundOrder, Pending, Live, TypeOK
  <2>2. CASE p = o
    BY <2>1, <2>2 DEF OrderSteps, Reduced, TypeOK, Order, OrderStatus
  <2>3. CASE p # o
    BY <2>1, <2>3 DEF OrderSteps, TypeOK
  <2> QED  BY <2>2, <2>3
<1>6. ASSUME \/ \E i \in DOMAIN matched_pairs : MintShares(i)
             \/ EndPrimaryMarket
             \/ \E w \in Wallets : CollectFees(w)
             \/ OpenSecondaryMarket
             \/ \E s \in AdminStatuses : UpdateEvent(s)
             \/ Tick
      PROVE  OrderSteps(p)
  BY <1>6 DEF MintShares, EndPrimaryMarket, CollectFees, OpenSecondaryMarket,
              UpdateEvent, Tick, orderVars, OrderSteps
<1> QED
  BY <1>1, <1>2, <1>3, <1>4, <1>5, <1>6 DEF Next
-----------------------------------------------------------------------------
(***************************************************************************)
(* The invariant holds initially and every step preserves each of its      *)
(* conjuncts.                                                              *)
(***************************************************************************)
LEMMA InitInv == Init => Inv
<1> SUFFICES ASSUME Init PROVE Inv
  OBVIOUS
<1>1. TypeOK
  BY InitTypeOK
<1>2. \A o \in OrderIds : orders[o] = NoAccount /\ escrows[o] = NoAccount
  BY DEF Init
<1>3. EscrowSolvent /\ OrdersAtEventPrice
  BY <1>2 DEF EscrowSolvent, EscrowCovers, OrdersAtEventPrice, Live
<1>4. SharesAccounted
  BY SharesAssumption DEF Init, SharesAccounted
<1>5. ClosedAfterStart
  BY Zenon DEF Init, ClosedAfterStart
<1>6. TokensComeFromPairs
  BY DEF Init, TokensComeFromPairs
<1> QED
  BY <1>1, <1>3, <1>4, <1>5, <1>6 DEF Inv

\* What each instruction leaves alone, of the clock, the phase, the shares and
\* the tokens.
LEMMA Frames ==
  /\ \A o, b, type, quantity : PlaceOrder(o, b, type, quantity) =>
       UNCHANGED <<clockVars, phaseVars, shareVars, tokenVars>>
  /\ \A y, n, r, s : MatchOrders(y, n, r, s) =>
       UNCHANGED <<clockVars, phaseVars, tokenVars>>
  /\ \A i : MintShares(i) => UNCHANGED <<clockVars, phaseVars, shareVars>>
  /\ \A i : ProcessMatch(i) =>
       UNCHANGED <<clockVars, phaseVars, shareVars, tokenVars>>
  /\ \A o : CancelOrder(o) \/ RefundOrder(o) =>
       UNCHANGED <<clockVars, phaseVars, shareVars, tokenVars>>
  /\ \A w : CollectFees(w) =>
       UNCHANGED <<clockVars, phaseVars, shareVars, tokenVars>>
  /\ EndPrimaryMarket => UNCHANGED <<clockVars, marketVars>>
  /\ OpenSecondaryMarket =>
       UNCHANGED <<clockVars, primary_market_closed_at, marketVars>>
  /\ \A s : UpdateEvent(s) =>
       UNCHANGED <<clockVars, primary_market_closed_at, marketVars>>
  /\ Tick => UNCHANGED <<phaseVars, marketVars>>
<1>1. \A o, b, type, quantity : PlaceOrder(o, b, type, quantity) =>
        UNCHANGED <<clockVars, phaseVars, shareVars, tokenVars>>
  BY DEF PlaceOrder
<1>2. \A y, n, r, s : MatchOrders(y, n, r, s) =>
        UNCHANGED <<clockVars, phaseVars, tokenVars>>
  BY DEF MatchOrders
<1>3. \A i : MintShares(i) => UNCHANGED <<clockVars, phaseVars, shareVars>>
  BY DEF MintShares
<1>4. \A i : ProcessMatch(i) =>
        UNCHANGED <<clockVars, phaseVars, shareVars, tokenVars>>
  BY DEF ProcessMatch
<1>5. \A o : CancelOrder(o) \/ RefundOrder(o) =>
        UNCHANGED <<clockVars, phaseVars, shareVars, tokenVars>>
  BY DEF CancelOrder, RefundOrder
<1>6. \A w : CollectFees(w) =>
        UNCHANGED <<clockVars, phaseVars, shareVars, tokenVars>>
  BY DEF CollectFees
<1>7. /\ EndPrimaryMarket => UNCHANGED <<clockVars, marketVars>>
      /\ OpenSecondaryMarket =>
           UNCHANGED <<clockVars, primary_market_closed_at, marketVars>>
  BY DEF EndPrimaryMarket, OpenSecondaryMarket, marketVars
<1>8. /\ \A s : UpdateEvent(s) =>
           UNCHANGED <<clockVars, primary_market_closed_at, marketVars>>
      /\ Tick => UNCHANGED <<phaseVars, marketVars>>
  BY DEF UpdateEvent, Tick, marketVars
<1> QED
  BY <1>1, <1>2, <1>3, <1>4, <1>5, <1>6, <1>7, <1>8

\* Every step keeps the types, given that escrows cover their orders.
LEMMA NextTypeOK == TypeOK /\ EscrowSolvent /\ Next => TypeOK'
<1> SUFFICES ASSUME TypeOK, EscrowSolvent, Next PROVE TypeOK'
  OBVIOUS
<1>1. ASSUME NEW y \in OrderIds, NEW n \in OrderIds, NEW r \in Wallets,
             NEW s \in Wallets, MatchOrders(y, n, r, s)
      PROVE  TypeOK'
  <2>1. Live(y) /\ Live(n)
    BY <1>1 DEF MatchOrders, Matchable, Pending
  <2>2. escrows[y] # NoAccount /\ escrows[n] # NoAccount
    BY <2>1 DEF EscrowSolvent, EscrowCovers
  <2> QED  BY <1>1, <2>2, MatchOrdersTypeOK
<1> QED
  BY <1>1, PlaceOrderTypeOK, MintSharesTypeOK, ProcessMatchTypeOK,
     CancelOrderTypeOK, RefundOrderTypeOK, CollectFeesTypeOK, PhaseStepTypeOK
  DEF Next

\* Every step keeps every escrow in step with its order.
LEMMA NextSolvent == TypeOK /\ EscrowSolvent /\ Next => EscrowSolvent'
<1> SUFFICES ASSUME TypeOK, EscrowSolvent, Next PROVE EscrowSolvent'
  OBVIOUS
<1>1. ASSUME UNCHANGED orderVars
      PROVE  EscrowSolvent'
  BY <1>1 DEF orderVars, EscrowSolvent, EscrowCovers, Live
<1>2. ASSUME NEW i \in DOMAIN matched_pairs, ProcessMatch(i)
      PROVE  UNCHANGED orderVars
  BY <1>2, ProcessMatchKeepsOrders DEF ProcessMatch, orderVars
<1>3. ASSUME \/ \E i \in DOMAIN matched_pairs : MintShares(i)
             \/ EndPrimaryMarket
             \/ \E w \in Wallets : CollectFees(w)
             \/ OpenSecondaryMarket
             \/ \E s \in AdminStatuses : UpdateEvent(s)
             \/ Tick
      PROVE  UNCHANGED orderVars
  BY <1>3 DEF MintShares, EndPrimaryMarket, CollectFees, OpenSecondaryMarket,
              UpdateEvent, Tick
<1> QED
  BY <1>1, <1>2, <1>3, PlaceOrderSolvent, MatchOrdersSolvent,
     CancelOrderSolvent, RefundOrderSolvent DEF Next

\* Every step keeps each order at the price of its side.
LEMMA NextOrdersAtEventPrice ==
  TypeOK /\ EscrowSolvent /\ OrdersAtEventPrice /\ Next => OrdersAtEventPrice'
<1> SUFFICES ASSUME TypeOK, EscrowSolvent, OrdersAtEventPrice, Next,
                    NEW p \in OrderIds, orders'[p] # NoAccount
             PROVE  orders'[p].unit_price = UnitPrice(orders'[p].order_type)
  BY DEF OrdersAtEventPrice, Live, UnitPrice
<1>1. OrderSteps(p)
  BY NextOrderSteps
<1> QED
  BY <1>1 DEF OrderSteps, Placed, Reduced, Pending, OrdersAtEventPrice, Live

\* Every step keeps the share counters in agreement: only match_orders moves
\* them, all by the same quantity.
LEMMA NextSharesAccounted ==
  TypeOK /\ EscrowSolvent /\ SharesAccounted /\ Next => SharesAccounted'
<1> SUFFICES ASSUME TypeOK, EscrowSolvent, SharesAccounted, Next
             PROVE  SharesAccounted'
  OBVIOUS
<1>1. ASSUME UNCHANGED shareVars
      PROVE  SharesAccounted'
  BY <1>1 DEF shareVars, SharesAccounted
<1>2. ASSUME NEW y \in OrderIds, NEW n \in OrderIds, NEW r \in Wallets,
             NEW s \in Wallets, MatchOrders(y, n, r, s)
      PROVE  SharesAccounted'
  <2>1. MatchQuantity(y, n) \in Nat
    BY <1>2, MatchFacts
  <2>2. CountMatch(MatchQuantity(y, n)) /\ RecordPair(PairOf(y, n, MatchQuantity(y, n)))
    BY <1>2 DEF MatchOrders
  <2>3. DOMAIN matched_pairs' = 0..(total_matches' - 1)
    BY <2>2 DEF CountMatch, RecordPair, SharesAccounted, TypeOK
  <2>4. /\ shares_minted_yes' = shares_minted_no'
        /\ remaining_shares' + shares_minted_yes' = MaxSharesTotal
    BY <2>1, <2>2, SharesAssumption DEF CountMatch, SharesAccounted, TypeOK
  <2> QED  BY <2>3, <2>4 DEF SharesAccounted
<1>3. ASSUME \/ \E o \in OrderIds, b \in Buyers, type \in OrderType,
                  quantity \in 1..MaxOrderQuantity : PlaceOrder(o, b, type, quantity)
             \/ \E i \in DOMAIN matched_pairs : MintShares(i) \/ ProcessMatch(i)
             \/ \E o \in OrderIds : CancelOrder(o) \/ RefundOrder(o)
             \/ EndPrimaryMarket
             \/ \E w \in Wallets : CollectFees(w)
             \/ OpenSecondaryMarket
             \/ \E s \in AdminStatuses : UpdateEvent(s)
             \/ Tick
      PROVE  UNCHANGED shareVars
  BY <1>3, Frames DEF marketVars
<1> QED
  BY <1>1, <1>2, <1>3 DEF Next

\* The primary market is recorded as closed only after the match has begun,
\* and the clock does not go back.
LEMMA NextClosedAfterStart == TypeOK /\ ClosedAfterStart /\ Next => ClosedAfterStart'
<1> SUFFICES ASSUME TypeOK, ClosedAfterStart, Next PROVE ClosedAfterStart'
  OBVIOUS
<1>1. ASSUME UNCHANGED <<now, primary_market_closed_at>>
      PROVE  ClosedAfterStart'
  BY <1>1, Zenon DEF ClosedAfterStart
<1>2. CASE EndPrimaryMarket
  BY <1>2 DEF EndPrimaryMarket, ClosedAfterStart, clockVars
<1>3. CASE Tick
  <2>1. now' = now + 1 /\ primary_market_closed_at' = primary_market_closed_at
    BY <1>3 DEF Tick, phaseVars
  <2>2. now >= EventStartTime => now' >= EventStartTime
    BY <2>1, TimeAssumption DEF TypeOK
  <2> QED  BY <2>1, <2>2, Zenon DEF ClosedAfterStart
<1>4. ASSUME \/ \E o \in OrderIds, b \in Buyers, type \in OrderType,
                  quantity \in 1..MaxOrderQuantity : PlaceOrder(o, b, type, quantity)
             \/ \E y, n \in OrderIds, r, s \in Wallets : MatchOrders(y, n, r, s)
             \/ \E i \in DOMAIN matched_pairs : MintShares(i) \/ ProcessMatch(i)
             \/ \E o \in OrderIds : CancelOrder(o) \/ RefundOrder(o)
             \/ \E w \in Wallets : CollectFees(w)
             \/ OpenSecondaryMarket
             \/ \E s \in AdminStatuses : UpdateEvent(s)
      PROVE  UNCHANGED <<now, primary_market_closed_at>>
  BY <1>4, Frames, Zenon DEF clockVars, phaseVars
<1> QED
  BY <1>1, <1>2, <1>3, <1>4 DEF Next

\* Pairs are never changed or removed, and mint_shares writes the quantity of
\* one of them.
LEMMA NextTokensComeFromPairs ==
  TypeOK /\ EscrowSolvent /\ TokensComeFromPairs /\ Next => TokensComeFromPairs'
<1> SUFFICES ASSUME TypeOK, EscrowSolvent, TokensComeFromPairs, Next
             PROVE  TokensComeFromPairs'
  OBVIOUS
<1>1. ASSUME UNCHANGED <<matched_pairs, yes_share_token, no_share_token>>
      PROVE  TokensComeFromPairs'
  BY <1>1 DEF TokensComeFromPairs
<1>2. ASSUME NEW y \in OrderIds, NEW n \in OrderIds, NEW r \in Wallets,
             NEW s \in Wallets, MatchOrders(y, n, r, s)
      PROVE  TokensComeFromPairs'
  <2>1. /\ RecordPair(PairOf(y, n, MatchQuantity(y, n)))
        /\ UNCHANGED <<yes_share_token, no_share_token>>
    BY <1>2 DEF MatchOrders, tokenVars
  <2>2. \A i \in DOMAIN matched_pairs :
          i \in DOMAIN matched_pairs' /\ matched_pairs'[i] = matched_pairs[i]
    BY <2>1 DEF RecordPair
  <2> QED  BY <2>1, <2>2 DEF TokensComeFromPairs
<1>3. ASSUME NEW i \in DOMAIN matched_pairs, MintShares(i)
      PROVE  TokensComeFromPairs'
  <2>1. /\ yes_share_token' = [yes_share_token EXCEPT
             ![matched_pairs[i].yes_buyer] = matched_pairs[i].quantity]
        /\ no_share_token' = [no_share_token EXCEPT
             ![matched_pairs[i].no_buyer] = matched_pairs[i].quantity]
        /\ matched_pairs' = matched_pairs
    BY <1>3 DEF MintShares, shareVars
  <2> QED  BY <2>1 DEF TokensComeFromPairs, TypeOK
<1>4. ASSUME \/ \E o \in OrderIds, b \in Buyers, type \in OrderType,
                  quantity \in 1..MaxOrderQuantity : PlaceOrder(o, b, type, quantity)
             \/ \E i \in DOMAIN matched_pairs : ProcessMatch(i)
             \/ \E o \in OrderIds : CancelOrder(o) \/ RefundOrder(o)
             \/ EndPrimaryMarket
             \/ \E w \in Wallets : CollectFees(w)
             \/ OpenSecondaryMarket
             \/ \E s \in AdminStatuses : UpdateEvent(s)
             \/ Tick
      PROVE  UNCHANGED <<matched_pairs, yes_share_token, no_share_token>>
  BY <1>4, Frames DEF marketVars, shareVars, tokenVars
<1> QED
  BY <1>1, <1>2, <1>3, <1>4 DEF Next

\* Inv is inductive.
LEMMA NextInv == Inv /\ [Next]_vars => Inv'
<1> SUFFICES ASSUME Inv, [Next]_vars PROVE Inv'
  OBVIOUS
<1>1. CASE Next
  BY <1>1, NextTypeOK, NextSolvent, NextOrdersAtEventPrice,
     NextSharesAccounted, NextClosedAfterStart, NextTokensComeFromPairs
  DEF Inv
<1>2. CASE UNCHANGED vars
  <2>1. TypeOK'
    BY <1>2 DEF Inv, TypeOK, vars
  <2>2. EscrowSolvent' /\ OrdersAtEventPrice'
    BY <1>2 DEF Inv, EscrowSolvent, EscrowCovers, OrdersAtEventPrice, Live,
                UnitPrice, vars
  <2>3. SharesAccounted' /\ TokensComeFromPairs'
    BY <1>2 DEF Inv, SharesAccounted, TokensComeFromPairs, vars
  <2>4. ClosedAfterStart'
    BY <1>2, Zenon DEF Inv, ClosedAfterStart, vars
  <2> QED  BY <2>1, <2>2, <2>3, <2>4 DEF Inv
<1> QED
  BY <1>1, <1>2

\* Inv holds throughout every behaviour.
LEMMA SpecInv == Spec => []Inv
<1>1. Init => Inv
  BY InitInv
<1>2. Inv /\ [Next]_vars => Inv'
  BY NextInv
<1> QED
  BY <1>1, <1>2, PTL DEF Spec
-----------------------------------------------------------------------------
(***************************************************************************)
(* The theorems.                                                           *)
(***************************************************************************)
\* Every variable keeps its type; in particular no checked subtraction of the
\* handlers (shares, escrows, fees) goes below zero.
THEOREM TypeCorrect == Spec => []TypeOK
<1>1. Inv => TypeOK
  BY DEF Inv
<1> QED
  BY <1>1, SpecInv, PTL

\* Every live order is backed, to the lamport, by its own escrow.
THEOREM EscrowsAreSolvent == Spec => []EscrowSolvent
<1>1. Inv => EscrowSolvent
  BY DEF Inv
<1> QED
  BY <1>1, SpecInv, PTL

\* What cancel_order asks of a pending order's accounts is always there, in
\* every status of the event: the safety part of PendingOrdersSettle.
THEOREM PendingOrdersCancellable ==
  Spec => [](\A o \in OrderIds : Pending(o) => Cancellable(o))
<1>1. Inv => \A o \in OrderIds : Pending(o) => Cancellable(o)
  <2> SUFFICES ASSUME Inv, NEW o \in OrderIds, Pending(o)  PROVE Cancellable(o)
    OBVIOUS
  <2>1. TypeOK /\ EscrowCovers(o)
    BY DEF Inv, EscrowSolvent
  <2>2. escrows[o] # NoAccount /\ escrows[o].amount = escrows[o].lamports
    BY <2>1 DEF EscrowCovers, Pending, Live
  <2>3. escrows[o].amount \in Nat
    BY <2>1, <2>2 DEF TypeOK, EscrowAccount
  <2> QED
    BY <2>2, <2>3 DEF Cancellable
<1> QED
  BY <1>1, SpecInv, PTL

\* The share counters add up and the next matched_pair_id is always free.
THEOREM SharesAddUp == Spec => []SharesAccounted
<1>1. Inv => SharesAccounted
  BY DEF Inv
<1> QED
  BY <1>1, SpecInv, PTL

\* A YES and a NO order that may be matched cost one SOL together.
THEOREM MatchesMakeOneSol == Spec => []MatchablePricesMakeOneSol
<1>1. Inv => MatchablePricesMakeOneSol
  <2> SUFFICES ASSUME Inv, NEW y \in OrderIds, NEW n \in OrderIds, Matchable(y, n)
               PROVE  CanMatchOrders(orders[y].unit_price, orders[n].unit_price)
    BY DEF MatchablePricesMakeOneSol
  <2>1. /\ Live(y) /\ orders[y].order_type = "Yes"
        /\ Live(n) /\ orders[n].order_type = "No"
    BY DEF Matchable, Pending
  <2>2. /\ orders[y].unit_price = UnitPrice("Yes")
        /\ orders[n].unit_price = UnitPrice("No")
    BY <2>1 DEF Inv, OrdersAtEventPrice
  <2> QED  BY <2>2, UnitPriceType
<1> QED
  BY <1>1, SpecInv, PTL

\* Every share token was minted for a matched pair of its holder.
THEOREM TokensArePaired == Spec => []TokensComeFromPairs
<1>1. Inv => TokensComeFromPairs
  BY DEF Inv
<1> QED
  BY <1>1, SpecInv, PTL

\* After end_primary_market no order account is opened, whatever the admin
\* makes of the event's status.
THEOREM PrimaryStaysClosed == Spec => NoOrdersAfterPrimary
<1>1. ASSUME Inv, [Next]_vars, primary_market_closed_at, NEW o \in OrderIds,
             orders[o] = NoAccount
      PROVE  orders'[o] = NoAccount
  <2>1. CASE UNCHANGED vars
    BY <1>1, <2>1 DEF vars
  <2>2. CASE Next
    <3>1. OrderSteps(o)
      BY <1>1, <2>2, NextOrderSteps DEF Inv
    <3>2. ~ PrimaryOpen
      BY <1>1, TimeAssumption DEF Inv, TypeOK, ClosedAfterStart, PrimaryOpen
    <3>3. ~ Pending(o)
      BY <1>1 DEF Pending, Live
    <3> QED  BY <1>1, <3>1, <3>2, <3>3 DEF OrderSteps, Placed, Reduced
  <2> QED  BY <1>1, <2>1, <2>2
<1>2. Inv /\ [Next]_vars =>
        (primary_market_closed_at =>
           \A o \in OrderIds : orders[o] = NoAccount => orders'[o] = NoAccount)
  BY <1>1
<1> QED
  BY <1>2, SpecInv, PTL DEF NoOrdersAfterPrimary, Spec

\* An order account keeps its buyer, side and price and only gets smaller.
THEOREM OrdersShrink == Spec => OrdersOnlyShrink
<1> DEFINE Shrinks(o) ==
      /\ orders'[o].buyer = orders[o].buyer
      /\ orders'[o].order_type = orders[o].order_type
      /\ orders'[o].unit_price = orders[o].unit_price
      /\ orders'[o].quantity <= orders[o].quantity
      /\ orders[o].status # "Pending" => orders'[o] = orders[o]
<1>1. ASSUME Inv, [Next]_vars, NEW o \in OrderIds, Live(o), orders'[o] # NoAccount
      PROVE  Shrinks(o)
  <2>1. orders[o] \in Order
    BY <1>1 DEF Inv, TypeOK, Live
  <2>2. ASSUME orders'[o] = orders[o]
        PROVE  Shrinks(o)
    BY <2>1, <2>2 DEF Order
  <2>3. CASE UNCHANGED vars
    BY <2>2, <2>3 DEF vars
  <2>4. CASE Next
    <3>1. orders'[o] = orders[o] \/ Reduced(o)
      BY <1>1, <2>4, NextOrderSteps DEF Inv, OrderSteps, Placed, Live
    <3> QED  BY <2>2, <3>1 DEF Reduced, Pending
  <2> QED  BY <1>1, <2>3, <2>4
<1>2. Inv /\ [Next]_vars =>
        \A o \in OrderIds : Live(o) /\ orders'[o] # NoAccount => Shrinks(o)
  BY <1>1
<1> QED
  BY <1>2, SpecInv, PTL DEF OrdersOnlyShrink, Spec

\* What an escrow holds is what its account says, and nothing when it is closed.
LEMMA EscrowLamportsOf ==
  ASSUME TypeOK, NEW o \in OrderIds
  PROVE  /\ EscrowLamports[o] =
              IF escrows[o] = NoAccount THEN 0 ELSE escrows[o].lamports
         /\ EscrowLamports[o] \in Nat
BY DEF EscrowLamports, TypeOK, EscrowAccount

\* A match takes from each of the two escrows the price of the shares that the
\* new pair records, and nothing from any other.
LEMMA MatchPaysForShares ==
  ASSUME TypeOK, TypeOK', EscrowSolvent, NEW y \in OrderIds, NEW n \in OrderIds,
         NEW r \in Wallets, NEW s \in Wallets, MatchOrders(y, n, r, s),
         NEW o \in OrderIds
  PROVE  \/ EscrowLamports'[o] = EscrowLamports[o]
         \/ SoldShares(o, EscrowLamports[o] - EscrowLamports'[o])
<1> DEFINE q == MatchQuantity(y, n)
<1>1. /\ escrows' = [escrows EXCEPT ![y] = AfterSettlement(@, orders[y], q),
                                    ![n] = AfterSettlement(@, orders[n], q)]
      /\ RecordPair(PairOf(y, n, q))
  BY DEF MatchOrders
<1>2. /\ y # n
      /\ orders[y] \in Order /\ orders[n] \in Order
      /\ escrows[y] \in EscrowAccount /\ escrows[n] \in EscrowAccount
      /\ q \in Nat /\ q <= orders[y].quantity /\ q <= orders[n].quantity
  BY MatchFacts
<1> HIDE DEF q
<1>3. /\ EscrowLamports[o] =
           IF escrows[o] = NoAccount THEN 0 ELSE escrows[o].lamports
      /\ EscrowLamports'[o] =
           IF escrows'[o] = NoAccount THEN 0 ELSE escrows'[o].lamports
  BY EscrowLamportsOf DEF EscrowLamports
<1>4. CASE o \notin {y, n}
  <2>1. escrows'[o] = escrows[o]
    BY <1>1, <1>4 DEF TypeOK
  <2> QED  BY <1>3, <2>1
<1>5. CASE o \in {y, n}
  <2>1. orders[o] \in Order /\ escrows[o] \in EscrowAccount
    BY <1>2, <1>5
  <2>2. escrows'[o] = AfterSettlement(escrows[o], orders[o], q)
    BY <1>1, <1>2, <1>5 DEF TypeOK
  <2>3. escrows'[o] # NoAccount
    <3>1. Live(y) /\ Live(n)
      BY <1>2, AccountsAssumption DEF Live
    <3>2. Live(o)
      BY <1>5, <3>1
    <3>3. EscrowSolvent'
      BY MatchOrdersSolvent
    <3>4. orders'[o] # NoAccount
      <4>1. orders' = [orders EXCEPT ![y] = AfterFill(@, q), ![n] = AfterFill(@, q)]
        BY DEF MatchOrders, q
      <4>2. orders'[o] = AfterFill(orders[o], q)
        BY <1>2, <1>5, <4>1 DEF TypeOK
      <4>3. orders'[o] \in Order
        BY <1>2, <1>5, <2>1, <4>2, FillFields
      <4> QED  BY <4>3, AccountsAssumption
    <3> QED  BY <3>3, <3>4 DEF EscrowSolvent, EscrowCovers, Live
  <2>4. escrows'[o].lamports = escrows[o].lamports - q * orders[o].unit_price
    BY <2>2 DEF AfterSettlement
  <2>5. q * orders[o].unit_price \in Nat /\ escrows[o].lamports \in Nat
    BY <1>2, <2>1, ProductType DEF Order, EscrowAccount
  <2>6. EscrowLamports[o] - EscrowLamports'[o] = q * orders[o].unit_price
    <3>1. escrows[o] # NoAccount
      BY <2>1, AccountsAssumption
    <3>2. \A a, c \in Nat : a - (a - c) = c
      OBVIOUS
    <3> QED  BY <1>3, <2>3, <2>4, <2>5, <3>1, <3>2
  <2>7. /\ total_matches \in DOMAIN matched_pairs' \ DOMAIN matched_pairs
        /\ matched_pairs'[total_matches] = PairOf(y, n, q)
    BY <1>1 DEF RecordPair
  <2>8. /\ PairOf(y, n, q).yes_order_id = y /\ PairOf(y, n, q).no_order_id = n
        /\ PairOf(y, n, q).quantity = q
        /\ PairOf(y, n, q).yes_price = orders[y].unit_price
        /\ PairOf(y, n, q).no_price = orders[n].unit_price
    BY DEF PairOf
  <2>9. SoldShares(o, q * orders[o].unit_price)
    BY <1>5, <2>7, <2>8 DEF SoldShares
  <2> QED  BY <2>6, <2>9
<1> QED
  BY <1>4, <1>5

\* Lamports leave an escrow for shares of the order, or all of them go back to
\* the order's buyer.
THEOREM EscrowPays == Spec => EscrowPaysForSharesOrReturns
<1> DEFINE Out(o) == EscrowLamports[o] - EscrowLamports'[o]
           Justified(o) == Out(o) > 0 => SoldShares(o, Out(o)) \/ ReturnedAll(o, Out(o))
<1>1. ASSUME Inv, [Next]_vars, Inv', NEW o \in OrderIds
      PROVE  Justified(o)
  <2>1. TypeOK /\ TypeOK' /\ EscrowSolvent
    BY <1>1 DEF Inv
  <2>2. /\ EscrowLamports[o] =
             IF escrows[o] = NoAccount THEN 0 ELSE escrows[o].lamports
        /\ EscrowLamports'[o] =
             IF escrows'[o] = NoAccount THEN 0 ELSE escrows'[o].lamports
        /\ EscrowLamports[o] \in Nat
        /\ EscrowLamports'[o] \in Nat
    BY <2>1, EscrowLamportsOf DEF EscrowLamports, TypeOK, EscrowAccount
  <2>3. ASSUME escrows'[o] = escrows[o]
        PROVE  Justified(o)
    BY <2>2, <2>3
  <2>4. ASSUME NEW p \in OrderIds, NEW b \in Buyers, NEW type \in OrderType,
               NEW quantity \in 1..MaxOrderQuantity,
               PlaceOrder(p, b, type, quantity)
        PROVE  Justified(o)
    <3>1. CASE p = o
      <4>1. EscrowLamports[o] = 0
        BY <2>2, <2>4, <3>1 DEF PlaceOrder
      <4> QED  BY <2>2, <4>1
    <3>2. CASE p # o
      <4>1. escrows'[o] = escrows[o]
        BY <2>1, <2>4, <3>2 DEF PlaceOrder, TypeOK
      <4> QED  BY <2>3, <4>1
    <3> QED  BY <3>1, <3>2
  <2>5. ASSUME NEW y \in OrderIds, NEW n \in OrderIds, NEW r \in Wallets,
               NEW s \in Wallets, MatchOrders(y, n, r, s)
        PROVE  Justified(o)
    <3>1. \/ EscrowLamports'[o] = EscrowLamports[o]
          \/ SoldShares(o, Out(o))
      BY <2>1, <2>5, MatchPaysForShares
    <3> QED  BY <2>2, <3>1
  <2>6. ASSUME NEW p \in OrderIds, CancelOrder(p)
        PROVE  Justified(o)
    <3>1. CASE p = o
      <4>1. /\ escrows'[o] = NoAccount /\ escrows[o] # NoAccount
            /\ wallet' = Credit(orders[o].buyer, escrows[o].lamports)
            /\ orders[o] \in Order
        BY <2>1, <2>6, <3>1 DEF CancelOrder, Cancellable, Pending, Live, TypeOK
      <4>2. Out(o) = EscrowLamports[o] /\ EscrowLamports[o] = escrows[o].lamports
        BY <2>2, <4>1
      <4>3. wallet'[orders[o].buyer] = wallet[orders[o].buyer] + escrows[o].lamports
        BY <2>1, <4>1 DEF Credit, TypeOK, Wallets, Order
      <4> QED  BY <4>2, <4>3 DEF ReturnedAll
    <3>2. CASE p # o
      <4>1. escrows'[o] = escrows[o]
        BY <2>1, <2>6, <3>2 DEF CancelOrder, TypeOK
      <4> QED  BY <2>3, <4>1
    <3> QED  BY <3>1, <3>2
  <2>7. ASSUME NEW p \in OrderIds, RefundOrder(p)
        PROVE  Justified(o)
    <3>1. CASE p = o
      <4>1. /\ orders[o] \in Order /\ escrows[o] \in EscrowAccount
            /\ Live(o) /\ orders[o].status = "Pending"
        BY <2>1, <2>7, <3>1 DEF RefundOrder, Pending, Live, TypeOK
      <4>2. escrows[o].amount = escrows[o].lamports
        BY <2>1, <4>1 DEF EscrowSolvent, EscrowCovers
      <4>3. /\ escrows'[o] = [escrows[o] EXCEPT !.lamports = @ - escrows[o].amount]
            /\ wallet' = Credit(orders[o].buyer, escrows[o].amount)
        BY <2>1, <2>7, <3>1 DEF RefundOrder, TypeOK
      <4>4. escrows'[o] \in EscrowAccount /\ escrows'[o].lamports = 0
        BY <4>1, <4>2, <4>3 DEF EscrowAccount
      <4>5. Out(o) = EscrowLamports[o] /\ EscrowLamports[o] = escrows[o].amount
        BY <2>2, <4>1, <4>2, <4>4, AccountsAssumption
      <4>6. wallet'[orders[o].buyer] = wallet[orders[o].buyer] + escrows[o].amount
        BY <2>1, <4>1, <4>3 DEF Credit, TypeOK, Wallets, Order
      <4> QED  BY <4>5, <4>6 DEF ReturnedAll
    <3>2. CASE p # o
      <4>1. escrows'[o] = escrows[o]
        BY <2>1, <2>7, <3>2 DEF RefundOrder, TypeOK
      <4> QED  BY <2>3, <4>1
    <3> QED  BY <3>1, <3>2
  <2>8. ASSUME \/ \E i \in DOMAIN matched_pairs : MintShares(i) \/ ProcessMatch(i)
               \/ EndPrimaryMarket
               \/ \E w \in Wallets : CollectFees(w)
               \/ OpenSecondaryMarket
               \/ \E s \in AdminStatuses : UpdateEvent(s)
               \/ Tick
               \/ UNCHANGED vars
        PROVE  escrows' = escrows
    BY <2>8 DEF MintShares, ProcessMatch, EndPrimaryMarket, CollectFees,
                OpenSecondaryMarket, UpdateEvent, Tick, orderVars, vars
  <2> HIDE DEF Justified
  <2> QED
    BY <1>1, <2>3, <2>4, <2>5, <2>6, <2>7, <2>8 DEF Next
<1>2. Inv /\ Inv' /\ [Next]_vars => \A o \in OrderIds : Justified(o)
  BY <1>1
<1>3. (\A o \in OrderIds : Justified(o)) <=>
        \A o \in OrderIds :
          LET out == EscrowLamports[o] - EscrowLamports'[o]
          IN  out > 0 => SoldShares(o, out) \/ ReturnedAll(o, out)
  OBVIOUS
<1> HIDE DEF Justified
<1> QED
  BY <1>2, <1>3, SpecInv, PTL DEF EscrowPaysForSharesOrReturns, Spec
-----------------------------------------------------------------------------
(***************************************************************************)
(* Lamports.  Each instruction that moves them changes the sums over the   *)
(* wallets and over the escrows, and the event account, by amounts that    *)
(* cancel out.                                                             *)
(***************************************************************************)
\* Wallets are finitely many numbers.
LEMMA WalletsFinite == IsFiniteSet(Wallets)
BY FiniteAssumption, FS_AddElement DEF Wallets

\* The sums that make up the ledger are numbers.
LEMMA LedgerTypes ==
  ASSUME TypeOK
  PROVE  /\ DOMAIN wallet = Wallets /\ \A w \in Wallets : wallet[w] \in Nat
         /\ DOMAIN EscrowLamports = OrderIds
         /\ \A o \in OrderIds : EscrowLamports[o] \in Nat
         /\ SumFunction(wallet) = SumFunctionOnSet(wallet, Wallets)
         /\ SumFunction(EscrowLamports) = SumFunctionOnSet(EscrowLamports, OrderIds)
         /\ SumFunction(wallet) \in Nat /\ SumFunction(EscrowLamports) \in Nat
         /\ event_lamports \in Nat
<1>1. DOMAIN wallet = Wallets /\ \A w \in Wallets : wallet[w] \in Nat
  BY DEF TypeOK
<1>2. /\ DOMAIN EscrowLamports = OrderIds
      /\ \A o \in OrderIds : EscrowLamports[o] \in Nat
  BY EscrowLamportsOf DEF EscrowLamports
<1>3. /\ SumFunction(wallet) = SumFunctionOnSet(wallet, Wallets)
      /\ SumFunction(EscrowLamports) = SumFunctionOnSet(EscrowLamports, OrderIds)
  BY <1>1, <1>2 DEF SumFunction
<1>4. /\ SumFunctionOnSet(wallet, Wallets) \in Nat
      /\ SumFunctionOnSet(EscrowLamports, OrderIds) \in Nat
  BY <1>1, <1>2, FiniteAssumption, WalletsFinite, SumType
<1> QED
  BY <1>1, <1>2, <1>3, <1>4 DEF TypeOK

\* A transfer to a wallet raises the sum over the wallets by its amount.
LEMMA CreditRaisesFunds ==
  ASSUME TypeOK, NEW w \in Wallets, NEW amount \in Nat, wallet' = Credit(w, amount)
  PROVE  SumFunction(wallet)' = SumFunction(wallet) + amount
<1>1. /\ wallet' \in [Wallets -> Nat]
      /\ wallet'[w] = wallet[w] + amount
      /\ \A v \in Wallets \ {w} : wallet'[v] = wallet[v]
  BY DEF Credit, TypeOK
<1>2. SumFunctionOnSet(wallet', Wallets) =
        SumFunctionOnSet(wallet, Wallets) - wallet[w] + wallet'[w]
  BY <1>1, LedgerTypes, WalletsFinite, SumUpdated
<1> QED
  BY <1>1, <1>2, LedgerTypes DEF SumFunction

\* A step that changes a single escrow changes the sum by that much.
LEMMA OneEscrowMoves ==
  ASSUME TypeOK, TypeOK', NEW o \in OrderIds,
         \A p \in OrderIds \ {o} : escrows'[p] = escrows[p]
  PROVE  SumFunction(EscrowLamports)' =
           SumFunction(EscrowLamports) - EscrowLamports[o] + EscrowLamports'[o]
<1>1. /\ DOMAIN EscrowLamports' = OrderIds
      /\ \A p \in OrderIds : EscrowLamports'[p] \in Nat
  BY DEF EscrowLamports, TypeOK, EscrowAccount
<1>2. \A p \in OrderIds \ {o} : EscrowLamports'[p] = EscrowLamports[p]
  BY DEF EscrowLamports
<1>3. SumFunctionOnSet(EscrowLamports', OrderIds) =
        SumFunctionOnSet(EscrowLamports, OrderIds) - EscrowLamports[o]
          + EscrowLamports'[o]
  BY <1>1, <1>2, LedgerTypes, FiniteAssumption, SumUpdated
<1> QED
  BY <1>1, <1>3, LedgerTypes DEF SumFunction

\* place_order: the price goes to the escrow, the fee to the admin.
LEMMA PlaceOrderConserves ==
  ASSUME TypeOK, TypeOK', NEW o \in OrderIds, NEW b \in Buyers,
         NEW type \in OrderType, NEW quantity \in 1..MaxOrderQuantity,
         PlaceOrder(o, b, type, quantity)
  PROVE  TotalLamports' = TotalLamports
<1> DEFINE total == quantity * UnitPrice(type)
           fee   == CalculateFee(total, PlatformFeePrimary)
<1>1. total \in Nat /\ fee \in Nat
  <2>1. quantity \in Nat /\ UnitPrice(type) \in Nat
    BY SharesAssumption, UnitPriceType
  <2>2. total \in Nat
    BY <2>1, ProductType
  <2> QED  BY <2>2, FeeType
<1>2. /\ wallet' = [w \in Wallets |->
           wallet[w] - (IF w = b THEN total + fee ELSE 0)
                     + (IF w = AdminWallet THEN fee ELSE 0)]
      /\ escrows[o] = NoAccount
      /\ escrows' = [escrows EXCEPT ![o] = [amount |-> total, lamports |-> total]]
      /\ event_lamports' = event_lamports
  BY DEF PlaceOrder
<1> HIDE DEF total, fee
<1>3. b \in Wallets /\ AdminWallet \in Wallets
  BY DEF Wallets
<1>4. SumFunctionOnSet(wallet', Wallets) = SumFunctionOnSet(wallet, Wallets) - total
  <2>1. \A w \in Wallets : wallet[w] \in Nat /\ wallet'[w] \in Nat
    BY DEF TypeOK
  <2>2. SumFunctionOnSet(wallet, Wallets) \in Nat
    BY LedgerTypes
  <2>3. CASE b = AdminWallet
    <3>1. /\ wallet'[b] = wallet[b] - (total + fee) + fee
          /\ \A w \in Wallets \ {b} : wallet'[w] = wallet[w]
      BY <1>1, <1>2, <1>3, <2>1, <2>3
    <3>2. SumFunctionOnSet(wallet', Wallets) =
            SumFunctionOnSet(wallet, Wallets) - wallet[b] + wallet'[b]
      BY <1>3, <2>1, <3>1, WalletsFinite, SumUpdated
    <3> QED  BY <1>1, <1>3, <2>1, <2>2, <3>1, <3>2
  <2>4. CASE b # AdminWallet
    <3>1. /\ wallet'[b] = wallet[b] - (total + fee)
          /\ wallet'[AdminWallet] = wallet[AdminWallet] + fee
          /\ \A w \in Wallets \ {b, AdminWallet} : wallet'[w] = wallet[w]
      BY <1>1, <1>2, <1>3, <2>1, <2>4
    <3>2. SumFunctionOnSet(wallet', Wallets) =
            SumFunctionOnSet(wallet, Wallets) - wallet[b] + wallet'[b]
              - wallet[AdminWallet] + wallet'[AdminWallet]
      BY <1>3, <2>1, <2>4, <3>1, WalletsFinite, SumUpdatedTwice
    <3> QED  BY <1>1, <1>3, <2>1, <2>2, <3>1, <3>2
  <2> QED  BY <2>3, <2>4
<1>5. SumFunction(EscrowLamports)' = SumFunction(EscrowLamports) + total
  <2>1. /\ \A p \in OrderIds \ {o} : escrows'[p] = escrows[p]
        /\ escrows'[o] = [amount |-> total, lamports |-> total]
    BY <1>2 DEF TypeOK
  <2>2. escrows'[o] \in EscrowAccount
    BY <1>1, <2>1 DEF EscrowAccount
  <2>3. EscrowLamports[o] = 0 /\ EscrowLamports'[o] = total
    BY <1>2, <2>1, <2>2, AccountsAssumption DEF EscrowLamports
  <2>4. SumFunction(EscrowLamports)' =
          SumFunction(EscrowLamports) - EscrowLamports[o] + EscrowLamports'[o]
    BY <2>1, OneEscrowMoves
  <2> QED  BY <1>1, <2>3, <2>4, LedgerTypes
<1>6. SumFunction(wallet)' = SumFunctionOnSet(wallet', Wallets)
  BY DEF SumFunction, TypeOK
<1> QED
  BY <1>1, <1>2, <1>4, <1>5, <1>6, LedgerTypes DEF TotalLamports
\* A match closes neither of its two orders.
LEMMA MatchKeepsAccounts ==
  ASSUME TypeOK, EscrowSolvent, NEW y \in OrderIds, NEW n \in OrderIds,
         NEW r \in Wallets, NEW s \in Wallets, MatchOrders(y, n, r, s)
  PROVE  orders'[y] # NoAccount /\ orders'[n] # NoAccount
<1> DEFINE q == MatchQuantity(y, n)
<1>1. /\ y # n
      /\ orders[y] \in Order /\ orders[n] \in Order
      /\ escrows[y] \in EscrowAccount /\ escrows[n] \in EscrowAccount
      /\ q \in Nat /\ q <= orders[y].quantity /\ q <= orders[n].quantity
  BY MatchFacts
<1>2. orders' = [orders EXCEPT ![y] = AfterFill(@, q), ![n] = AfterFill(@, q)]
  BY DEF MatchOrders
<1> HIDE DEF q
<1>3. /\ orders'[y] = AfterFill(orders[y], q)
      /\ orders'[n] = AfterFill(orders[n], q)
  BY <1>1, <1>2 DEF TypeOK
<1> QED
  BY <1>1, <1>3, FillFields, AccountsAssumption

\* match_orders: each escrow pays the price of its side, to whichever wallets
\* the caller passed.
LEMMA MatchOrdersConserves ==
  ASSUME TypeOK, TypeOK', EscrowSolvent, NEW y \in OrderIds, NEW n \in OrderIds,
         NEW r \in Wallets, NEW s \in Wallets, MatchOrders(y, n, r, s)
  PROVE  TotalLamports' = TotalLamports
<1> DEFINE q == MatchQuantity(y, n)
           yesAmount == q * orders[y].unit_price
           noAmount  == q * orders[n].unit_price
<1>1. /\ y # n
      /\ orders[y] \in Order /\ orders[n] \in Order
      /\ escrows[y] \in EscrowAccount /\ escrows[n] \in EscrowAccount
      /\ q \in Nat
  BY MatchFacts
<1>2. /\ wallet' = [w \in Wallets |->
           wallet[w] + (IF w = r THEN noAmount ELSE 0)
                     + (IF w = s THEN yesAmount ELSE 0)]
      /\ escrows' = [escrows EXCEPT ![y] = AfterSettlement(@, orders[y], q),
                                    ![n] = AfterSettlement(@, orders[n], q)]
      /\ event_lamports' = event_lamports
  BY DEF MatchOrders
<1>3. yesAmount \in Nat /\ noAmount \in Nat
  BY <1>1, ProductType DEF Order
<1>4. /\ escrows'[y] = AfterSettlement(escrows[y], orders[y], q)
      /\ escrows'[n] = AfterSettlement(escrows[n], orders[n], q)
      /\ \A p \in OrderIds \ {y, n} : escrows'[p] = escrows[p]
  BY <1>1, <1>2 DEF TypeOK
<1>5. /\ escrows'[y].lamports = escrows[y].lamports - yesAmount
      /\ escrows'[n].lamports = escrows[n].lamports - noAmount
      /\ escrows'[y] # NoAccount /\ escrows'[n] # NoAccount
  <2>1. /\ escrows'[y].lamports = escrows[y].lamports - yesAmount
        /\ escrows'[n].lamports = escrows[n].lamports - noAmount
    BY <1>4 DEF AfterSettlement
  <2>2. orders'[y] # NoAccount /\ orders'[n] # NoAccount
    BY MatchKeepsAccounts
  <2>3. EscrowSolvent'
    BY MatchOrdersSolvent
  <2> QED  BY <2>1, <2>2, <2>3 DEF EscrowSolvent, EscrowCovers, Live
<1> HIDE DEF q, yesAmount, noAmount
<1>6. SumFunction(wallet)' = SumFunction(wallet) + yesAmount + noAmount
  <2>1. /\ \A w \in Wallets : wallet[w] \in Nat /\ wallet'[w] \in Nat
        /\ DOMAIN wallet' = Wallets
    BY DEF TypeOK
  <2>2. CASE r = s
    <3>1. /\ wallet'[r] = wallet[r] + noAmount + yesAmount
          /\ \A w \in Wallets \ {r} : wallet'[w] = wallet[w]
      BY <1>2, <2>1, <2>2
    <3>2. SumFunctionOnSet(wallet', Wallets) =
            SumFunctionOnSet(wallet, Wallets) - wallet[r] + wallet'[r]
      BY <2>1, <3>1, WalletsFinite, SumUpdated
    <3> QED  BY <1>3, <2>1, <3>1, <3>2, LedgerTypes DEF SumFunction
  <2>3. CASE r # s
    <3>1. /\ wallet'[r] = wallet[r] + noAmount
          /\ wallet'[s] = wallet[s] + yesAmount
          /\ \A w \in Wallets \ {r, s} : wallet'[w] = wallet[w]
      BY <1>2, <1>3, <2>1, <2>3
    <3>2. SumFunctionOnSet(wallet', Wallets) =
            SumFunctionOnSet(wallet, Wallets) - wallet[r] + wallet'[r]
              - wallet[s] + wallet'[s]
      BY <2>1, <2>3, <3>1, WalletsFinite, SumUpdatedTwice
    <3> QED  BY <1>3, <2>1, <3>1, <3>2, LedgerTypes DEF SumFunction
  <2> QED  BY <2>2, <2>3
<1>7. SumFunction(EscrowLamports)' = SumFunction(EscrowLamports) - yesAmount - noAmount
  <2>1. /\ \A p \in OrderIds :
             EscrowLamports[p] \in Nat /\ EscrowLamports'[p] \in Nat
        /\ \A p \in OrderIds \ {y, n} : EscrowLamports'[p] = EscrowLamports[p]
        /\ DOMAIN EscrowLamports' = OrderIds
    BY <1>4 DEF EscrowLamports, TypeOK, EscrowAccount
  <2>2. /\ EscrowLamports'[y] = EscrowLamports[y] - yesAmount
        /\ EscrowLamports'[n] = EscrowLamports[n] - noAmount
    BY <1>1, <1>5, AccountsAssumption DEF EscrowLamports
  <2>3. SumFunctionOnSet(EscrowLamports', OrderIds) =
          SumFunctionOnSet(EscrowLamports, OrderIds)
            - EscrowLamports[y] + EscrowLamports'[y]
            - EscrowLamports[n] + EscrowLamports'[n]
    BY <1>1, <2>1, FiniteAssumption, SumUpdatedTwice
  <2> QED  BY <1>3, <2>1, <2>2, <2>3, LedgerTypes DEF SumFunction
<1> QED
  BY <1>2, <1>3, <1>6, <1>7, LedgerTypes DEF TotalLamports

\* cancel_order and refund_orders: the buyer gets what leaves the escrow.
LEMMA ReturnConserves ==
  ASSUME TypeOK, TypeOK', EscrowSolvent, NEW o \in OrderIds,
         CancelOrder(o) \/ RefundOrder(o)
  PROVE  TotalLamports' = TotalLamports
<1> DEFINE out == EscrowLamports[o] - EscrowLamports'[o]
<1>1. orders[o] \in Order /\ Live(o) /\ orders[o].status = "Pending"
  BY DEF CancelOrder, Cancellable, RefundOrder, Pending, Live, TypeOK
<1>2. /\ escrows[o] \in EscrowAccount /\ escrows[o] # NoAccount
      /\ escrows[o].amount = escrows[o].lamports
  BY <1>1 DEF EscrowSolvent, EscrowCovers, TypeOK
<1>3. EscrowLamports[o] = escrows[o].lamports
  BY <1>2 DEF EscrowLamports
<1>4. /\ EscrowLamports'[o] = 0
      /\ wallet' = Credit(orders[o].buyer, escrows[o].lamports)
      /\ \A p \in OrderIds \ {o} : escrows'[p] = escrows[p]
      /\ event_lamports' = event_lamports
  <2>1. CASE CancelOrder(o)
    BY <2>1 DEF CancelOrder, TypeOK, EscrowLamports
  <2>2. CASE RefundOrder(o)
    <3>1. /\ escrows' = [escrows EXCEPT ![o].lamports = @ - escrows[o].amount]
          /\ wallet' = Credit(orders[o].buyer, escrows[o].amount)
          /\ event_lamports' = event_lamports
      BY <2>2 DEF RefundOrder
    <3>2. escrows'[o] = [escrows[o] EXCEPT !.lamports = @ - escrows[o].amount]
      BY <3>1 DEF TypeOK
    <3>3. escrows'[o].lamports = 0
      BY <1>2, <3>2 DEF EscrowAccount
    <3> QED  BY <1>2, <3>1, <3>3 DEF TypeOK, EscrowLamports
  <2> QED  BY <2>1, <2>2
<1>5. orders[o].buyer \in Wallets /\ escrows[o].lamports \in Nat
  BY <1>1, <1>2 DEF Order, EscrowAccount, Wallets
<1>6. SumFunction(wallet)' = SumFunction(wallet) + escrows[o].lamports
  BY <1>4, <1>5, CreditRaisesFunds
<1>7. SumFunction(EscrowLamports)' = SumFunction(EscrowLamports) - escrows[o].lamports
  BY <1>3, <1>4, <1>5, OneEscrowMoves, LedgerTypes
<1> QED
  BY <1>4, <1>5, <1>6, <1>7, LedgerTypes DEF TotalLamports

\* No step creates or destroys lamports.
LEMMA StepConserves ==
  ASSUME TypeOK, TypeOK', EscrowSolvent, [Next]_vars
  PROVE  TotalLamports' = TotalLamports
<1>1. ASSUME NEW w \in Wallets, CollectFees(w)
      PROVE  TotalLamports' = TotalLamports
  <2>1. /\ total_platform_fees \in Nat
        /\ event_lamports' = event_lamports - total_platform_fees
        /\ wallet' = Credit(w, total_platform_fees)
        /\ escrows' = escrows
    BY <1>1 DEF CollectFees, TypeOK, orderVars
  <2>2. SumFunction(wallet)' = SumFunction(wallet) + total_platform_fees
    BY <2>1, CreditRaisesFunds
  <2>3. EscrowLamports' = EscrowLamports
    BY <2>1 DEF EscrowLamports
  <2> QED  BY <2>1, <2>2, <2>3, LedgerTypes DEF TotalLamports
<1>2. ASSUME \/ \E i \in DOMAIN matched_pairs : MintShares(i) \/ ProcessMatch(i)
             \/ EndPrimaryMarket
             \/ OpenSecondaryMarket
             \/ \E s \in AdminStatuses : UpdateEvent(s)
             \/ Tick
             \/ UNCHANGED vars
      PROVE  TotalLamports' = TotalLamports
  <2>1. UNCHANGED <<escrows, wallet, event_lamports>>
    BY <1>2 DEF MintShares, ProcessMatch, EndPrimaryMarket, OpenSecondaryMarket,
                UpdateEvent, Tick, orderVars, ledgerVars, vars
  <2> QED  BY <2>1 DEF TotalLamports, EscrowLamports
<1> QED
  BY <1>1, <1>2, PlaceOrderConserves, MatchOrdersConserves, ReturnConserves
  DEF Next

\* Whatever the instructions do, the wallets, the escrows and the event account
\* hold together what they held at the start.
THEOREM LamportsAreConserved == Spec => LamportsConserved
<1>1. Inv /\ Inv' /\ [Next]_vars => TotalLamports' = TotalLamports
  BY StepConserves DEF Inv
<1> QED
  BY <1>1, SpecInv, PTL DEF LamportsConserved, Spec
-----------------------------------------------------------------------------
(***************************************************************************)
(* Shares.  What the matched pairs say adds up to the event's counter, and *)
(* the tokens are covered by the pairs.  A pair is within the limits of    *)
(* mint_shares because its two orders are, which OrdersWithinLimit keeps.  *)
(***************************************************************************)
OrdersWithinLimit ==
  \A o \in OrderIds : Live(o) => orders[o].quantity <= MaxOrderQuantity

\* mint_shares makes as many YES as NO shares.
TokensBalanced == SumFunction(yes_share_token) = SumFunction(no_share_token)

LedgerInv ==
  /\ Inv
  /\ OrdersWithinLimit
  /\ PairsAccountForShares
  /\ TokensBalanced

\* Every step keeps the orders within the limit.
LEMMA NextOrdersWithinLimit ==
  ASSUME TypeOK, EscrowSolvent, OrdersWithinLimit, Next
  PROVE  OrdersWithinLimit'
<1> SUFFICES ASSUME NEW p \in OrderIds, orders'[p] # NoAccount
             PROVE  orders'[p].quantity <= MaxOrderQuantity
  BY DEF OrdersWithinLimit, Live
<1>1. OrderSteps(p)
  BY NextOrderSteps
<1>2. ASSUME Reduced(p)
      PROVE  orders'[p].quantity <= MaxOrderQuantity
  <2>1. orders[p] \in Order /\ orders[p].quantity <= MaxOrderQuantity
    BY <1>2 DEF Reduced, Pending, Live, OrdersWithinLimit, TypeOK
  <2> QED  BY <1>2, <2>1, SharesAssumption DEF Reduced, Order
<1> QED
  BY <1>1, <1>2 DEF OrderSteps, Placed, OrdersWithinLimit, Live

\* The pairs are finitely many numbers of shares.
LEMMA PairQuantityType ==
  ASSUME TypeOK, SharesAccounted
  PROVE  /\ DOMAIN PairQuantity = DOMAIN matched_pairs
         /\ IsFiniteSet(DOMAIN matched_pairs)
         /\ \A i \in DOMAIN matched_pairs :
              /\ PairQuantity[i] = matched_pairs[i].quantity
              /\ PairQuantity[i] \in Nat
         /\ SumFunction(PairQuantity) =
              SumFunctionOnSet(PairQuantity, DOMAIN matched_pairs)
<1>1. IsFiniteSet(DOMAIN matched_pairs)
  <2>1. DOMAIN matched_pairs = 0..(total_matches - 1) /\ total_matches \in Nat
    BY DEF SharesAccounted, TypeOK
  <2> QED  BY <2>1, FS_Interval
<1>2. /\ DOMAIN PairQuantity = DOMAIN matched_pairs
      /\ \A i \in DOMAIN matched_pairs :
           /\ PairQuantity[i] = matched_pairs[i].quantity
           /\ PairQuantity[i] \in Nat
  BY DEF PairQuantity, TypeOK, MatchedPair
<1> QED
  BY <1>1, <1>2 DEF SumFunction

\* match_orders adds one pair, of the shares that it adds to the counter.
LEMMA MatchAddsPair ==
  ASSUME TypeOK, EscrowSolvent, SharesAccounted, OrdersWithinLimit,
         PairsAccountForShares, NEW y \in OrderIds, NEW n \in OrderIds,
         NEW r \in Wallets, NEW s \in Wallets, MatchOrders(y, n, r, s)
  PROVE  PairsAccountForShares'
<1> DEFINE q == MatchQuantity(y, n)
           new == PairOf(y, n, q)
<1>1. /\ total_matches \notin DOMAIN matched_pairs
      /\ matched_pairs' = [i \in DOMAIN matched_pairs \cup {total_matches} |->
           IF i = total_matches THEN new ELSE matched_pairs[i]]
      /\ shares_minted_yes' = shares_minted_yes + q
  BY DEF MatchOrders, RecordPair, CountMatch
<1>2. q \in 1..MaxOrderQuantity
  <2>1. /\ orders[y] \in Order /\ Live(y)
        /\ q \in Nat \ {0} /\ q <= orders[y].quantity
    BY MatchFacts, AccountsAssumption DEF Live
  <2>2. orders[y].quantity <= MaxOrderQuantity /\ orders[y].quantity \in Nat
    BY <2>1 DEF OrdersWithinLimit, Order
  <2> HIDE DEF q
  <2> QED  BY <2>1, <2>2, SharesAssumption
<1>3. new.quantity = q /\ new.yes_buyer # new.no_buyer
  BY DEF PairOf, MatchOrders, Matchable
<1> HIDE DEF q, new
<1>4. /\ DOMAIN matched_pairs' = DOMAIN matched_pairs \cup {total_matches}
      /\ matched_pairs'[total_matches] = new
      /\ \A i \in DOMAIN matched_pairs : matched_pairs'[i] = matched_pairs[i]
  BY <1>1
<1>5. \A i \in DOMAIN matched_pairs' :
        /\ matched_pairs'[i].quantity \in 1..MaxOrderQuantity
        /\ matched_pairs'[i].yes_buyer # matched_pairs'[i].no_buyer
  BY <1>2, <1>3, <1>4 DEF PairsAccountForShares
<1>6. SumFunctionOnSet(PairQuantity', DOMAIN matched_pairs \cup {total_matches}) =
        SumFunctionOnSet(PairQuantity, DOMAIN matched_pairs) + q
  <2>1. /\ PairQuantity'[total_matches] = q
        /\ \A i \in DOMAIN matched_pairs : PairQuantity'[i] = matched_pairs[i].quantity
    BY <1>3, <1>4 DEF PairQuantity
  <2>2. q \in Nat
    BY <1>2, SharesAssumption
  <2>3. /\ IsFiniteSet(DOMAIN matched_pairs)
        /\ \A i \in DOMAIN matched_pairs :
             PairQuantity[i] \in Nat /\ PairQuantity'[i] = PairQuantity[i]
    BY <2>1, PairQuantityType
  <2>4. SumFunctionOnSet(PairQuantity', DOMAIN matched_pairs \cup {total_matches}) =
          SumFunctionOnSet(PairQuantity, DOMAIN matched_pairs)
            + PairQuantity'[total_matches]
    <3> DEFINE pairs == DOMAIN matched_pairs
               next  == PairQuantity'
    <3>1. /\ IsFiniteSet(pairs) /\ total_matches \notin pairs
          /\ next[total_matches] \in Nat
          /\ \A i \in pairs : PairQuantity[i] \in Nat /\ next[i] = PairQuantity[i]
      BY <1>1, <2>1, <2>2, <2>3
    <3> HIDE DEF pairs, next
    <3>2. SumFunctionOnSet(next, pairs \cup {total_matches}) =
            SumFunctionOnSet(PairQuantity, pairs) + next[total_matches]
      BY <3>1, SumExtended
    <3> QED  BY <3>2 DEF pairs, next
  <2> QED  BY <2>1, <2>4
<1>7. SumFunction(PairQuantity)' = SumFunction(PairQuantity) + q
  BY <1>4, <1>6, PairQuantityType DEF SumFunction, PairQuantity
<1> QED
  BY <1>1, <1>5, <1>7 DEF PairsAccountForShares

\* Every step keeps the pairs in step with the counter.
LEMMA NextPairsAccountForShares ==
  ASSUME TypeOK, EscrowSolvent, SharesAccounted, OrdersWithinLimit,
         PairsAccountForShares, Next
  PROVE  PairsAccountForShares'
<1>1. ASSUME UNCHANGED <<matched_pairs, shares_minted_yes>>
      PROVE  PairsAccountForShares'
  BY <1>1 DEF PairsAccountForShares, PairQuantity
<1>2. ASSUME \/ \E o \in OrderIds, b \in Buyers, type \in OrderType,
                  quantity \in 1..MaxOrderQuantity : PlaceOrder(o, b, type, quantity)
             \/ \E i \in DOMAIN matched_pairs : MintShares(i) \/ ProcessMatch(i)
             \/ \E o \in OrderIds : CancelOrder(o) \/ RefundOrder(o)
             \/ EndPrimaryMarket
             \/ \E w \in Wallets : CollectFees(w)
             \/ OpenSecondaryMarket
             \/ \E s \in AdminStatuses : UpdateEvent(s)
             \/ Tick
      PROVE  UNCHANGED <<matched_pairs, shares_minted_yes>>
  BY <1>2, Frames DEF marketVars, shareVars
<1> QED
  BY <1>1, <1>2, MatchAddsPair DEF Next

\* The tokens are finitely many numbers of shares.
LEMMA TokenTypes ==
  ASSUME TypeOK
  PROVE  /\ DOMAIN yes_share_token = Buyers /\ DOMAIN no_share_token = Buyers
         /\ \A b \in Buyers : yes_share_token[b] \in Nat /\ no_share_token[b] \in Nat
         /\ SumFunction(yes_share_token) = SumFunctionOnSet(yes_share_token, Buyers)
         /\ SumFunction(no_share_token) = SumFunctionOnSet(no_share_token, Buyers)
         /\ SumFunction(yes_share_token) \in Nat
         /\ SumFunction(no_share_token) \in Nat
<1>1. /\ DOMAIN yes_share_token = Buyers /\ DOMAIN no_share_token = Buyers
      /\ \A b \in Buyers : yes_share_token[b] \in Nat /\ no_share_token[b] \in Nat
  BY DEF TypeOK
<1>2. /\ SumFunction(yes_share_token) = SumFunctionOnSet(yes_share_token, Buyers)
      /\ SumFunction(no_share_token) = SumFunctionOnSet(no_share_token, Buyers)
  BY <1>1 DEF SumFunction
<1> QED
  BY <1>1, <1>2, FiniteAssumption, SumType

\* mint_shares makes both tokens, which must not exist, of the same size.
LEMMA MintKeepsBalance ==
  ASSUME TypeOK, TypeOK', TokensBalanced, NEW i \in DOMAIN matched_pairs, MintShares(i)
  PROVE  TokensBalanced'
<1> DEFINE pair == matched_pairs[i]
<1>1. /\ pair.yes_buyer \in Buyers /\ pair.no_buyer \in Buyers
      /\ pair.quantity \in Nat
  BY DEF TypeOK, MatchedPair
<1>2. /\ yes_share_token[pair.yes_buyer] = 0
      /\ no_share_token[pair.no_buyer] = 0
      /\ yes_share_token' = [yes_share_token EXCEPT ![pair.yes_buyer] = pair.quantity]
      /\ no_share_token' = [no_share_token EXCEPT ![pair.no_buyer] = pair.quantity]
  BY DEF MintShares, TokensAbsent
<1> HIDE DEF pair
<1>3. /\ \A b \in Buyers : yes_share_token'[b] \in Nat /\ no_share_token'[b] \in Nat
      /\ DOMAIN yes_share_token' = Buyers /\ DOMAIN no_share_token' = Buyers
  BY DEF TypeOK
<1>4. SumFunctionOnSet(yes_share_token', Buyers) =
        SumFunctionOnSet(yes_share_token, Buyers) + pair.quantity
  <2>1. /\ yes_share_token'[pair.yes_buyer] = pair.quantity
        /\ \A b \in Buyers \ {pair.yes_buyer} : yes_share_token'[b] = yes_share_token[b]
    BY <1>1, <1>2 DEF TypeOK
  <2>2. SumFunctionOnSet(yes_share_token', Buyers) =
          SumFunctionOnSet(yes_share_token, Buyers)
            - yes_share_token[pair.yes_buyer] + yes_share_token'[pair.yes_buyer]
    BY <1>1, <1>3, <2>1, TokenTypes, FiniteAssumption, SumUpdated
  <2> QED  BY <1>1, <1>2, <2>1, <2>2, TokenTypes
<1>5. SumFunctionOnSet(no_share_token', Buyers) =
        SumFunctionOnSet(no_share_token, Buyers) + pair.quantity
  <2>1. /\ no_share_token'[pair.no_buyer] = pair.quantity
        /\ \A b \in Buyers \ {pair.no_buyer} : no_share_token'[b] = no_share_token[b]
    BY <1>1, <1>2 DEF TypeOK
  <2>2. SumFunctionOnSet(no_share_token', Buyers) =
          SumFunctionOnSet(no_share_token, Buyers)
            - no_share_token[pair.no_buyer] + no_share_token'[pair.no_buyer]
    BY <1>1, <1>3, <2>1, TokenTypes, FiniteAssumption, SumUpdated
  <2> QED  BY <1>1, <1>2, <2>1, <2>2, TokenTypes
<1> QED
  BY <1>3, <1>4, <1>5, TokenTypes DEF TokensBalanced, SumFunction

\* Every step keeps the two kinds of tokens in balance.
LEMMA NextTokensBalanced ==
  ASSUME TypeOK, TypeOK', TokensBalanced, Next
  PROVE  TokensBalanced'
<1>1. ASSUME UNCHANGED <<yes_share_token, no_share_token>>
      PROVE  TokensBalanced'
  BY <1>1 DEF TokensBalanced
<1>2. ASSUME \/ \E o \in OrderIds, b \in Buyers, type \in OrderType,
                  quantity \in 1..MaxOrderQuantity : PlaceOrder(o, b, type, quantity)
             \/ \E y, n \in OrderIds, r, s \in Wallets : MatchOrders(y, n, r, s)
             \/ \E i \in DOMAIN matched_pairs : ProcessMatch(i)
             \/ \E o \in OrderIds : CancelOrder(o) \/ RefundOrder(o)
             \/ EndPrimaryMarket
             \/ \E w \in Wallets : CollectFees(w)
             \/ OpenSecondaryMarket
             \/ \E s \in AdminStatuses : UpdateEvent(s)
             \/ Tick
      PROVE  UNCHANGED <<yes_share_token, no_share_token>>
  BY <1>2, Frames DEF marketVars, tokenVars
<1> QED
  BY <1>1, <1>2, MintKeepsBalance DEF Next

\* LedgerInv holds throughout every behaviour.
LEMMA SpecLedgerInv == Spec => []LedgerInv
<1>1. Init => LedgerInv
  <2> SUFFICES ASSUME Init PROVE LedgerInv
    OBVIOUS
  <2>1. OrdersWithinLimit
    BY DEF Init, OrdersWithinLimit, Live
  <2>2. PairsAccountForShares
    <3>1. DOMAIN PairQuantity = {} /\ DOMAIN matched_pairs = {}
      BY DEF Init, PairQuantity
    <3>2. SumFunctionOnSet(PairQuantity, {}) = 0
      BY FS_EmptySet, SumOfZeros
    <3> QED  BY <3>1, <3>2 DEF Init, PairsAccountForShares, SumFunction
  <2>3. TokensBalanced
    BY DEF Init, TokensBalanced
  <2> QED  BY <2>1, <2>2, <2>3, InitInv DEF LedgerInv
<1>2. LedgerInv /\ [Next]_vars => LedgerInv'
  <2> SUFFICES ASSUME LedgerInv, [Next]_vars PROVE LedgerInv'
    OBVIOUS
  <2>1. Inv'
    BY NextInv DEF LedgerInv
  <2>2. CASE Next
    BY <2>1, <2>2, NextOrdersWithinLimit, NextPairsAccountForShares,
       NextTokensBalanced DEF LedgerInv, Inv
  <2>3. CASE UNCHANGED vars
    BY <2>1, <2>3 DEF LedgerInv, OrdersWithinLimit, Live, PairsAccountForShares,
                      PairQuantity, TokensBalanced, vars
  <2> QED  BY <2>2, <2>3
<1> QED
  BY <1>1, <1>2, PTL DEF Spec

\* The matched pairs are the full account of the shares that the event counts
\* as sold, each pair of two buyers and of a size that mint_shares accepts.
THEOREM PairsAddUp == Spec => []PairsAccountForShares
<1>1. LedgerInv => PairsAccountForShares
  BY DEF LedgerInv
<1> QED
  BY <1>1, SpecLedgerInv, PTL

\* The YES tokens are minted from different pairs, whence no more than the
\* pairs record.
LEMMA TokensWithinPairs ==
  ASSUME LedgerInv
  PROVE  SumFunction(yes_share_token) <= shares_minted_yes
<1> DEFINE minted == [b \in Buyers |-> CHOOSE i \in DOMAIN matched_pairs :
             /\ matched_pairs[i].yes_buyer = b
             /\ matched_pairs[i].quantity = yes_share_token[b]]
<1>1. TypeOK /\ SharesAccounted /\ TokensComeFromPairs /\ PairsAccountForShares
  BY DEF LedgerInv, Inv
<1>2. ASSUME NEW b \in Buyers, yes_share_token[b] > 0
      PROVE  /\ minted[b] \in DOMAIN matched_pairs
             /\ matched_pairs[minted[b]].yes_buyer = b
             /\ matched_pairs[minted[b]].quantity = yes_share_token[b]
  BY <1>1, <1>2 DEF TokensComeFromPairs
<1> HIDE DEF minted
<1>3. /\ \A b \in Buyers : yes_share_token[b] > 0 =>
           /\ minted[b] \in DOMAIN matched_pairs
           /\ yes_share_token[b] <= PairQuantity[minted[b]]
      /\ \A b, c \in Buyers : yes_share_token[b] > 0 /\ yes_share_token[c] > 0
           /\ minted[b] = minted[c] => b = c
  <2>1. \A b \in Buyers : yes_share_token[b] > 0 =>
          PairQuantity[minted[b]] = yes_share_token[b]
    BY <1>1, <1>2, PairQuantityType
  <2> QED  BY <1>1, <1>2, <2>1, TokenTypes
<1>4. SumFunctionOnSet(yes_share_token, Buyers) <=
        SumFunctionOnSet(PairQuantity, DOMAIN matched_pairs)
  BY <1>1, <1>3, TokenTypes, PairQuantityType, FiniteAssumption, SumCovered
<1> QED
  BY <1>1, <1>4, TokenTypes, PairQuantityType DEF PairsAccountForShares

\* Either outcome owes the same to the holders of tokens, and no more than the
\* matches sold, although no pair is marked as minted.
THEOREM TokensAreCovered == Spec => []TokensCovered
<1>1. LedgerInv => TokensCovered
  BY TokensWithinPairs DEF LedgerInv, TokensBalanced, TokensCovered
<1> QED
  BY <1>1, SpecLedgerInv, PTL
-----------------------------------------------------------------------------
(***************************************************************************)
(* What Solana's own rule for transfers makes of this market.              *)
(***************************************************************************)
NothingSettles ==
  /\ matched_pairs = [i \in {} |-> NoAccount]
  /\ total_matches = 0
  /\ \A o \in OrderIds : Live(o) => orders[o].status = "Pending"

\* If the System program does not debit the program's own accounts, then no
\* match, no minting, no processing and no refund ever succeeds: orders can be
\* placed and cancelled, and that is all.
THEOREM OnlyCancellationWorks ==
  ASSUME ~SystemMayDebitPDA
  PROVE  Spec => []NothingSettles
<1>1. Init => NothingSettles
  BY DEF Init, NothingSettles, Live
<1>2. ASSUME TypeOK, NothingSettles, [Next]_vars
      PROVE  NothingSettles'
  <2>1. DOMAIN matched_pairs = {}
    BY <1>2 DEF NothingSettles
  <2>2. /\ \A y, n \in OrderIds, r, s \in Wallets : ~MatchOrders(y, n, r, s)
        /\ \A o \in OrderIds : ~RefundOrder(o)
    BY DEF MatchOrders, RefundOrder, SystemTransferFromPDA
  <2>3. ASSUME NEW o \in OrderIds, NEW b \in Buyers, NEW type \in OrderType,
               NEW quantity \in 1..MaxOrderQuantity,
               PlaceOrder(o, b, type, quantity)
        PROVE  NothingSettles'
    <3>1. \A p \in OrderIds : orders'[p] # NoAccount =>
            orders'[p].status = "Pending"
      BY <1>2, <2>3 DEF PlaceOrder, NothingSettles, TypeOK, Live
    <3> QED  BY <1>2, <2>3, <3>1 DEF PlaceOrder, NothingSettles, Live, shareVars
  <2>4. ASSUME NEW o \in OrderIds, CancelOrder(o)
        PROVE  NothingSettles'
    <3>1. \A p \in OrderIds : orders'[p] # NoAccount =>
            orders'[p].status = "Pending"
      BY <1>2, <2>4 DEF CancelOrder, NothingSettles, TypeOK, Live
    <3> QED  BY <1>2, <2>4, <3>1 DEF CancelOrder, NothingSettles, Live, shareVars
  <2>5. ASSUME \/ EndPrimaryMarket
               \/ \E w \in Wallets : CollectFees(w)
               \/ OpenSecondaryMarket
               \/ \E s \in AdminStatuses : UpdateEvent(s)
               \/ Tick
               \/ UNCHANGED vars
        PROVE  UNCHANGED <<orders, matched_pairs, total_matches>>
    BY <2>5 DEF EndPrimaryMarket, CollectFees, OpenSecondaryMarket, UpdateEvent,
                Tick, vars, orderVars, shareVars
  <2>6. CASE UNCHANGED <<orders, matched_pairs, total_matches>>
    BY <1>2, <2>6 DEF NothingSettles, Live
  <2> QED
    BY <1>2, <2>1, <2>2, <2>3, <2>4, <2>5, <2>6 DEF Next
<1>3. Inv => TypeOK
  BY DEF Inv
<1> QED
  BY <1>1, <1>2, <1>3, SpecInv, PTL DEF Spec
=============================================================================
