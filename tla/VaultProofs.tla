---------------------------- MODULE VaultProofs ----------------------------
(***************************************************************************)
(* PrimaryMarket implements Vault: initial states are initial, and every   *)
(* instruction is a deposit, a sale, a return, an income or, for the vault,*)
(* no step at all.  The invariant of PrimaryMarketProofs says why: escrows *)
(* hold what their orders cost, and the prices of a match make one SOL.    *)
(***************************************************************************)
EXTENDS PrimaryMarketProofs

\* The accounts of the vault are the wallets of the market.
LEMMA VaultAccounts == Custody!Accounts = Wallets
BY DEF Custody!Accounts, Wallets

\* An event opens with an empty vault.
LEMMA VaultInit == Init => Custody!Init
<1> SUFFICES ASSUME Init PROVE Custody!Init
  OBVIOUS
<1>1. wallet \in [Custody!Accounts -> Nat]
  BY InitTypeOK, VaultAccounts DEF TypeOK
<1>2. OrderOwner = [o \in OrderIds |-> NoAccount]
  BY DEF Init, OrderOwner, Live
<1>3. EscrowLamports = [o \in OrderIds |-> 0]
  BY DEF Init, EscrowLamports
<1> QED
  BY <1>1, <1>2, <1>3 DEF Init, Custody!Init

\* place_order deposits the price of the order and pays the fee.
LEMMA PlaceOrderDeposits ==
  ASSUME TypeOK, EscrowSolvent, NEW o \in OrderIds, NEW b \in Buyers,
         NEW type \in OrderType, NEW quantity \in 1..MaxOrderQuantity,
         PlaceOrder(o, b, type, quantity)
  PROVE  Custody!Deposit(o, b)
<1> DEFINE total == quantity * UnitPrice(type)
           fee   == CalculateFee(total, PlatformFeePrimary)
<1>1. /\ orders[o] = NoAccount
      /\ total + fee <= wallet[b]
      /\ orders' = [orders EXCEPT ![o] =
           [buyer |-> b, order_type |-> type, quantity |-> quantity,
            unit_price |-> UnitPrice(type), total_amount |-> total,
            status |-> "Pending"]]
      /\ escrows' = [escrows EXCEPT ![o] = [amount |-> total, lamports |-> total]]
      /\ wallet' = [w \in Wallets |->
           wallet[w] - (IF w = b THEN total + fee ELSE 0)
                     + (IF w = AdminWallet THEN fee ELSE 0)]
      /\ shares_minted_yes' = shares_minted_yes
  BY DEF PlaceOrder, shareVars
<1>2. quantity \in Nat /\ UnitPrice(type) \in Nat
  BY SharesAssumption, UnitPriceType
<1>3. total \in Nat /\ fee \in Nat /\ wallet[b] \in Nat
  BY <1>2, ProductType, FeeType DEF TypeOK, Wallets
<1> HIDE DEF total, fee
<1>4. total \in 0..wallet[b] /\ fee \in 0..(wallet[b] - total)
  BY <1>1, <1>3
<1> DEFINE order  == [buyer |-> b, order_type |-> type, quantity |-> quantity,
                      unit_price |-> UnitPrice(type), total_amount |-> total,
                      status |-> "Pending"]
           escrow == [amount |-> total, lamports |-> total]
<1>5. order \in Order /\ order.buyer = b
  BY <1>2, <1>3 DEF Order, OrderStatus
<1>6. escrow \in EscrowAccount /\ escrow.lamports = total
  BY <1>3 DEF EscrowAccount
<1>7. orders' = [orders EXCEPT ![o] = order] /\ escrows' = [escrows EXCEPT ![o] = escrow]
  BY <1>1
<1> HIDE DEF order, escrow
<1>8. OrderOwner[o] = NoAccount
  BY <1>1 DEF OrderOwner, Live
<1>9. OrderOwner' = [OrderOwner EXCEPT ![o] = b]
  BY <1>5, <1>7, AccountsAssumption DEF OrderOwner, Live, TypeOK
<1>10. EscrowLamports' = [EscrowLamports EXCEPT ![o] = total]
  BY <1>6, <1>7, AccountsAssumption DEF EscrowLamports, TypeOK
<1> QED
  BY <1>1, <1>4, <1>8, <1>9, <1>10, VaultAccounts DEF Custody!Deposit

\* What a match makes of one of the two escrows.
LEMMA MatchTakesPrice ==
  ASSUME TypeOK, EscrowSolvent, NEW y \in OrderIds, NEW n \in OrderIds,
         NEW r \in Wallets, NEW s \in Wallets, MatchOrders(y, n, r, s)
  PROVE  EscrowLamports' = [EscrowLamports EXCEPT
           ![y] = @ - MatchQuantity(y, n) * orders[y].unit_price,
           ![n] = @ - MatchQuantity(y, n) * orders[n].unit_price]
<1> DEFINE q == MatchQuantity(y, n)
<1>1. escrows' = [escrows EXCEPT ![y] = AfterSettlement(@, orders[y], q),
                                 ![n] = AfterSettlement(@, orders[n], q)]
  BY DEF MatchOrders
<1>2. /\ y # n
      /\ escrows[y] \in EscrowAccount /\ escrows[n] \in EscrowAccount
      /\ orders[y] \in Order /\ orders[n] \in Order
  BY MatchFacts
<1>3. /\ orders' = [orders EXCEPT ![y] = AfterFill(@, q), ![n] = AfterFill(@, q)]
      /\ q \in Nat /\ q <= orders[y].quantity /\ q <= orders[n].quantity
  BY MatchFacts DEF MatchOrders
<1> HIDE DEF q
<1>4. orders'[y] \in Order /\ orders'[n] \in Order
  BY <1>2, <1>3, FillFields DEF TypeOK
<1>5. escrows'[y] # NoAccount /\ escrows'[n] # NoAccount
  <2>1. EscrowSolvent'
    BY MatchOrdersSolvent
  <2> QED
    BY <1>4, <2>1, AccountsAssumption DEF EscrowSolvent, EscrowCovers, Live
<1>6. ASSUME NEW o \in OrderIds
      PROVE  EscrowLamports'[o] = IF o \in {y, n}
               THEN EscrowLamports[o] - q * orders[o].unit_price
               ELSE EscrowLamports[o]
  <2>1. CASE o \in {y, n}
    <3>1. escrows'[o] = AfterSettlement(escrows[o], orders[o], q)
      BY <1>1, <1>2, <2>1 DEF TypeOK
    <3>2. escrows'[o].lamports = escrows[o].lamports - q * orders[o].unit_price
      BY <3>1 DEF AfterSettlement
    <3>3. escrows[o] # NoAccount /\ escrows'[o] # NoAccount
      BY <1>2, <1>5, <2>1, AccountsAssumption
    <3> QED  BY <2>1, <3>2, <3>3 DEF EscrowLamports
  <2>2. CASE o \notin {y, n}
    <3>1. escrows'[o] = escrows[o]
      BY <1>1, <2>2 DEF TypeOK
    <3> QED  BY <2>2, <3>1 DEF EscrowLamports
  <2> QED  BY <2>1, <2>2
<1> DEFINE after == [EscrowLamports EXCEPT ![y] = @ - q * orders[y].unit_price,
                                           ![n] = @ - q * orders[n].unit_price]
<1>7. /\ after = [o \in OrderIds |-> after[o]]
      /\ EscrowLamports' = [o \in OrderIds |-> EscrowLamports'[o]]
  BY DEF EscrowLamports
<1>8. \A o \in OrderIds : after[o] = EscrowLamports'[o]
  BY <1>2, <1>6 DEF EscrowLamports
<1> QED
  BY <1>7, <1>8 DEF q

\* match_orders sells as many pairs of shares as it records, for one SOL each.
LEMMA MatchOrdersSells ==
  ASSUME Inv, NEW y \in OrderIds, NEW n \in OrderIds,
         NEW r \in Wallets, NEW s \in Wallets, MatchOrders(y, n, r, s)
  PROVE  Custody!Sell(y, n)
<1> DEFINE q         == MatchQuantity(y, n)
           yesAmount == q * orders[y].unit_price
           noAmount  == q * orders[n].unit_price
<1>1. TypeOK /\ EscrowSolvent
  BY DEF Inv
<1>2. /\ y # n
      /\ orders[y] \in Order /\ orders[n] \in Order
      /\ escrows[y] \in EscrowAccount /\ escrows[n] \in EscrowAccount
      /\ q \in Nat \ {0}
  BY <1>1, MatchFacts
<1>3. /\ orders[y].buyer # orders[n].buyer
      /\ orders[y].order_type = "Yes" /\ orders[n].order_type = "No"
      /\ Live(y) /\ Live(n)
      /\ q <= remaining_shares
      /\ noAmount <= escrows[n].lamports /\ yesAmount <= escrows[y].lamports
      /\ CountMatch(q)
      /\ wallet' = [w \in Wallets |->
           wallet[w] + (IF w = r THEN noAmount ELSE 0)
                     + (IF w = s THEN yesAmount ELSE 0)]
  BY DEF MatchOrders, Matchable, Pending, SharesAvailable, SystemTransferFromPDA
<1>4. yesAmount \in Nat /\ noAmount \in Nat
  BY <1>2, ProductType DEF Order
<1>5. yesAmount + noAmount = q * LamportsPerSol
  <2>1. orders[y].unit_price + orders[n].unit_price = LamportsPerSol
    BY <1>3, UnitPriceType DEF Inv, OrdersAtEventPrice, CanMatchOrders
  <2>2. \A a, b, k \in Nat : k * a + k * b = k * (a + b)
    BY Z3
  <2> QED  BY <1>2, <2>1, <2>2 DEF Order
<1>6. EscrowLamports' = [EscrowLamports EXCEPT ![y] = @ - yesAmount, ![n] = @ - noAmount]
  BY <1>1, MatchTakesPrice
<1>7. OrderOwner' = OrderOwner
  <2>1. ASSUME NEW o \in OrderIds
        PROVE  /\ Live(o) <=> orders'[o] # NoAccount
               /\ Live(o) => orders'[o].buyer = orders[o].buyer
    <3>1. orders' = [orders EXCEPT ![y] = AfterFill(@, q), ![n] = AfterFill(@, q)]
      BY DEF MatchOrders
    <3>2. q <= orders[y].quantity /\ q <= orders[n].quantity
      BY <1>1, MatchFacts
    <3> HIDE DEF q
    <3>3. CASE o \notin {y, n}
      BY <1>1, <3>1, <3>3 DEF TypeOK, Live
    <3>4. CASE o \in {y, n}
      <4>1. orders'[o] = AfterFill(orders[o], q)
        BY <1>1, <1>2, <3>1, <3>4 DEF TypeOK
      <4>2. orders'[o] \in Order /\ orders'[o].buyer = orders[o].buyer
        BY <1>2, <3>2, <3>4, <4>1, FillFields
      <4> QED  BY <1>3, <3>4, <4>2, AccountsAssumption
    <3> QED  BY <3>3, <3>4
  <2> QED  BY <2>1 DEF OrderOwner, Live
<1>8. /\ OrderOwner[y] = orders[y].buyer /\ OrderOwner[n] = orders[n].buyer
      /\ orders[y].buyer \in Buyers /\ orders[n].buyer \in Buyers
  BY <1>2, <1>3 DEF OrderOwner, Order
<1>9. EscrowLamports[y] = escrows[y].lamports /\ EscrowLamports[n] = escrows[n].lamports
  BY <1>2, AccountsAssumption DEF EscrowLamports
<1>10. q \in 1..(MaxSharesTotal - shares_minted_yes)
  BY <1>1, <1>2, <1>3, SharesAssumption DEF Inv, SharesAccounted, TypeOK
<1>11. shares_minted_yes' = shares_minted_yes + q
  BY <1>3 DEF CountMatch
<1> HIDE DEF q, yesAmount, noAmount
<1>12. /\ yesAmount \in 0..EscrowLamports[y]
       /\ yesAmount <= q * LamportsPerSol
       /\ q * LamportsPerSol - yesAmount = noAmount
       /\ noAmount <= EscrowLamports[n]
  BY <1>2, <1>3, <1>4, <1>5, <1>9 DEF EscrowAccount
<1>13. \E a, b \in Custody!Accounts :
         wallet' = [w \in Custody!Accounts |->
           wallet[w] + (IF w = a THEN noAmount ELSE 0)
                     + (IF w = b THEN yesAmount ELSE 0)]
  BY <1>3, VaultAccounts
<1>14. \E paid \in 0..EscrowLamports[y] :
         /\ paid <= q * LamportsPerSol
         /\ q * LamportsPerSol - paid <= EscrowLamports[n]
         /\ EscrowLamports' = [EscrowLamports EXCEPT
              ![y] = @ - paid, ![n] = @ - (q * LamportsPerSol - paid)]
         /\ \E a, b \in Custody!Accounts :
              wallet' = [w \in Custody!Accounts |->
                wallet[w] + (IF w = a THEN q * LamportsPerSol - paid ELSE 0)
                          + (IF w = b THEN paid ELSE 0)]
  <2>1. EscrowLamports' = [EscrowLamports EXCEPT
          ![y] = @ - yesAmount, ![n] = @ - (q * LamportsPerSol - yesAmount)]
    BY <1>6, <1>12
  <2>2. \E a, b \in Custody!Accounts :
          wallet' = [w \in Custody!Accounts |->
            wallet[w] + (IF w = a THEN q * LamportsPerSol - yesAmount ELSE 0)
                      + (IF w = b THEN yesAmount ELSE 0)]
    BY <1>12, <1>13
  <2> QED  BY <1>12, <2>1, <2>2
<1> QED
  BY <1>3, <1>7, <1>8, <1>10, <1>11, <1>14 DEF Custody!Sell

\* cancel_order returns the escrow and frees the order id.
LEMMA CancelOrderReturns ==
  ASSUME TypeOK, EscrowSolvent, NEW o \in OrderIds, CancelOrder(o)
  PROVE  Custody!Return(o)
<1>1. /\ orders[o] \in Order /\ escrows[o] \in EscrowAccount
      /\ orders[o] # NoAccount /\ escrows[o] # NoAccount
      /\ wallet' = Credit(orders[o].buyer, escrows[o].lamports)
      /\ orders' = [orders EXCEPT ![o] = NoAccount]
      /\ escrows' = [escrows EXCEPT ![o] = NoAccount]
      /\ shares_minted_yes' = shares_minted_yes
  BY DEF CancelOrder, Cancellable, Pending, Live, TypeOK, shareVars
<1>2. OrderOwner[o] = orders[o].buyer /\ orders[o].buyer \in Buyers
  BY <1>1 DEF OrderOwner, Live, Order
<1>3. EscrowLamports[o] = escrows[o].lamports
  BY <1>1 DEF EscrowLamports
<1>4. OrderOwner' = [OrderOwner EXCEPT ![o] = NoAccount]
  BY <1>1 DEF OrderOwner, Live, TypeOK
<1>5. EscrowLamports' = [EscrowLamports EXCEPT ![o] = 0]
  BY <1>1 DEF EscrowLamports, TypeOK
<1> QED
  BY <1>1, <1>2, <1>3, <1>4, <1>5 DEF Custody!Return, Credit

\* refund_orders returns the escrow and keeps the order.
LEMMA RefundOrderReturns ==
  ASSUME TypeOK, EscrowSolvent, NEW o \in OrderIds, RefundOrder(o)
  PROVE  Custody!Return(o)
<1>1. /\ orders[o] \in Order /\ escrows[o] \in EscrowAccount
      /\ Live(o) /\ orders[o].status = "Pending"
      /\ wallet' = Credit(orders[o].buyer, escrows[o].amount)
      /\ orders' = [orders EXCEPT ![o].status = "Refunded"]
      /\ escrows' = [escrows EXCEPT ![o].lamports = @ - escrows[o].amount]
      /\ shares_minted_yes' = shares_minted_yes
  BY DEF RefundOrder, Pending, Live, TypeOK, shareVars
<1>2. escrows[o].amount = escrows[o].lamports
  BY <1>1 DEF EscrowSolvent, EscrowCovers
<1>3. /\ orders'[o] \in Order /\ orders'[o].buyer = orders[o].buyer
      /\ escrows'[o] \in EscrowAccount /\ escrows'[o].lamports = 0
  BY <1>1, <1>2 DEF TypeOK, Order, OrderStatus, EscrowAccount
<1>4. OrderOwner[o] = orders[o].buyer /\ orders[o].buyer \in Buyers
  BY <1>1 DEF OrderOwner, Order
<1>5. EscrowLamports[o] = escrows[o].lamports
  BY <1>1, AccountsAssumption DEF EscrowLamports
<1>6. ASSUME NEW p \in OrderIds
      PROVE  /\ OrderOwner'[p] = OrderOwner[p]
             /\ EscrowLamports'[p] = IF p = o THEN 0 ELSE EscrowLamports[p]
  <2>1. CASE p = o
    BY <1>1, <1>3, <2>1, AccountsAssumption DEF OrderOwner, EscrowLamports, Live
  <2>2. CASE p # o
    <3>1. orders'[p] = orders[p] /\ escrows'[p] = escrows[p]
      BY <1>1, <2>2 DEF TypeOK
    <3> QED  BY <2>2, <3>1 DEF OrderOwner, EscrowLamports, Live
  <2> QED  BY <2>1, <2>2
<1>7. OrderOwner' = OrderOwner
  BY <1>6 DEF OrderOwner
<1>8. EscrowLamports' = [EscrowLamports EXCEPT ![o] = 0]
  BY <1>6 DEF EscrowLamports
<1> QED
  BY <1>1, <1>2, <1>4, <1>5, <1>7, <1>8 DEF Custody!Return, Credit

\* collect_fees brings lamports that were never in the vault.
LEMMA CollectFeesIsIncome ==
  ASSUME TypeOK, NEW w \in Wallets, CollectFees(w)
  PROVE  Custody!Income(w)
<1>1. /\ wallet' = [wallet EXCEPT ![w] = @ + total_platform_fees]
      /\ orders' = orders /\ escrows' = escrows
      /\ shares_minted_yes' = shares_minted_yes
  BY DEF CollectFees, Credit, orderVars, shareVars
<1>2. wallet'[w] = wallet[w] + total_platform_fees
      /\ wallet[w] \in Nat /\ total_platform_fees \in Nat
  BY <1>1 DEF TypeOK
<1>3. wallet' = [wallet EXCEPT ![w] = wallet'[w]]
  BY <1>1, <1>2
<1>4. OrderOwner' = OrderOwner /\ EscrowLamports' = EscrowLamports
  BY <1>1 DEF OrderOwner, EscrowLamports, Live
<1> QED
  BY <1>1, <1>2, <1>3, <1>4 DEF Custody!Income

\* Minting, processing and the phase changes leave the vault as it is.
LEMMA RestOfMarketStutters ==
  ASSUME TypeOK,
         \/ \E i \in DOMAIN matched_pairs : MintShares(i) \/ ProcessMatch(i)
         \/ EndPrimaryMarket
         \/ OpenSecondaryMarket
         \/ \E s \in AdminStatuses : UpdateEvent(s)
         \/ Tick
         \/ UNCHANGED vars
  PROVE  UNCHANGED <<OrderOwner, EscrowLamports, shares_minted_yes, wallet>>
<1>1. UNCHANGED <<escrows, shares_minted_yes, wallet>>
  BY DEF MintShares, ProcessMatch, EndPrimaryMarket, OpenSecondaryMarket,
         UpdateEvent, Tick, vars, orderVars, shareVars, ledgerVars
<1>2. \/ orders' = orders
      \/ \E i \in DOMAIN matched_pairs : ProcessMatch(i)
  BY DEF MintShares, EndPrimaryMarket, OpenSecondaryMarket, UpdateEvent, Tick,
         vars, orderVars
<1>3. ASSUME NEW i \in DOMAIN matched_pairs, ProcessMatch(i)
      PROVE  OrderOwner' = OrderOwner
  <2> DEFINE pair == matched_pairs[i]
             Settle(order) == IF order.quantity = 0
                                THEN [order EXCEPT !.status = "Matched"] ELSE order
  <2>1. \A order \in Order : Settle(order) \in Order /\ Settle(order).buyer = order.buyer
    BY DEF Order, OrderStatus
  <2>2. /\ orders' = [orders EXCEPT ![pair.yes_order_id] = Settle(@),
                                    ![pair.no_order_id] = Settle(@)]
        /\ Live(pair.yes_order_id) /\ Live(pair.no_order_id)
        /\ pair.yes_order_id \in OrderIds /\ pair.no_order_id \in OrderIds
    BY <1>3 DEF ProcessMatch, TypeOK, MatchedPair
  <2> HIDE DEF Settle, pair
  <2>3. ASSUME NEW o \in OrderIds
        PROVE  OrderOwner'[o] = OrderOwner[o]
    <3>1. CASE o \notin {pair.yes_order_id, pair.no_order_id}
      BY <2>2, <3>1 DEF OrderOwner, Live, TypeOK
    <3>2. CASE o \in {pair.yes_order_id, pair.no_order_id}
      <4>1. orders[o] \in Order /\ Live(o)
        BY <2>2, <3>2 DEF TypeOK, Live
      <4>2. orders'[o] \in {Settle(orders[o]), Settle(Settle(orders[o]))}
        BY <2>2, <3>2 DEF TypeOK
      <4>3. orders'[o] \in Order /\ orders'[o].buyer = orders[o].buyer
        BY <2>1, <4>1, <4>2
      <4> QED  BY <4>1, <4>3, AccountsAssumption DEF OrderOwner, Live
    <3> QED  BY <3>1, <3>2
  <2> QED  BY <2>3 DEF OrderOwner
<1>4. OrderOwner' = OrderOwner
  BY <1>2, <1>3 DEF OrderOwner, Live
<1>5. EscrowLamports' = EscrowLamports
  BY <1>1 DEF EscrowLamports
<1> QED
  BY <1>1, <1>4, <1>5

\* Every step of the market is a step of the vault.
LEMMA VaultStep == Inv /\ [Next]_vars => [Custody!Next]_Custody!vars
<1> SUFFICES ASSUME Inv, [Next]_vars PROVE [Custody!Next]_Custody!vars
  OBVIOUS
<1>1. TypeOK /\ EscrowSolvent
  BY DEF Inv
<1>2. ASSUME NEW o \in OrderIds, NEW b \in Buyers, NEW type \in OrderType,
             NEW quantity \in 1..MaxOrderQuantity, PlaceOrder(o, b, type, quantity)
      PROVE  Custody!Next
  BY <1>1, <1>2, PlaceOrderDeposits DEF Custody!Next
<1>3. ASSUME NEW y \in OrderIds, NEW n \in OrderIds, NEW r \in Wallets,
             NEW s \in Wallets, MatchOrders(y, n, r, s)
      PROVE  Custody!Next
  BY <1>3, MatchOrdersSells DEF Custody!Next
<1>4. ASSUME NEW o \in OrderIds, CancelOrder(o) \/ RefundOrder(o)
      PROVE  Custody!Next
  BY <1>1, <1>4, CancelOrderReturns, RefundOrderReturns DEF Custody!Next
<1>5. ASSUME NEW w \in Wallets, CollectFees(w)
      PROVE  Custody!Next
  BY <1>1, <1>5, CollectFeesIsIncome, VaultAccounts DEF Custody!Next
<1>6. ASSUME \/ \E i \in DOMAIN matched_pairs : MintShares(i) \/ ProcessMatch(i)
             \/ EndPrimaryMarket
             \/ OpenSecondaryMarket
             \/ \E s \in AdminStatuses : UpdateEvent(s)
             \/ Tick
             \/ UNCHANGED vars
      PROVE  UNCHANGED Custody!vars
  BY <1>1, <1>6, RestOfMarketStutters DEF Custody!vars
<1> QED
  BY <1>2, <1>3, <1>4, <1>5, <1>6 DEF Next

\* The primary market implements the vault.
THEOREM MarketIsVault == Spec => ImplementsVault
<1>1. Init => Custody!Init
  BY VaultInit
<1>2. Inv /\ [Next]_vars => [Custody!Next]_Custody!vars
  BY VaultStep
<1> QED
  BY <1>1, <1>2, SpecInv, PTL DEF Spec, ImplementsVault, Custody!Spec
=============================================================================
