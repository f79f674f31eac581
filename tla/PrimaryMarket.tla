--------------------------- MODULE PrimaryMarket ---------------------------
(***************************************************************************)
(* The primary market of one event: orders and their escrows, matching,    *)
(* share tokens, the event's counters and status, and the lamports that    *)
(* each instruction moves.                                                 *)
(*                                                                         *)
(* One action is one instruction.  Solana runs an instruction atomically   *)
(* and rolls everything back when it fails, so a failing require!,         *)
(* constraint, checked operation or transfer is a guard.  The concurrency  *)
(* is the order in which the transactions of independent signers land.     *)
(*                                                                         *)
(* Lamports are counted above the rent-exempt minimum, which the payer of  *)
(* an account deposits and `close` returns.  global_state.is_paused is     *)
(* FALSE forever (no instruction writes it), and the event's admin is      *)
(* taken to be a super admin; AdminHierarchy is about when that fails.     *)
(***************************************************************************)
EXTENDS Pricing, Functions, FiniteSets

CONSTANTS
  Buyers,             \* the wallets that place orders
  AdminWallet,        \* global_state.admin
  OrderIds,           \* the u64 order ids that clients use
  NoAccount,          \* what a PDA holds before `init` and after `close`
  MaxSharesTotal,     \* event.max_shares_total
  OptaOddsYes,        \* the odds given to create_event
  PlatformFeePrimary, \* global_state.platform_fee_primary
  MaxOrderQuantity,   \* 500 in place_order and mint_shares
  PrimaryMarketClose, \* event.primary_market_close
  EventStartTime,     \* event.event_start_time
  EndOfTime,          \* the clock is not followed beyond this point
  AdminStatuses,      \* the statuses the admin passes to update_event
  InitialFunds,       \* lamports of each buyer at the start
  EventSurplus,       \* lamports the event account may hold above its rent
  SystemMayDebitPDA   \* see SystemTransferFromPDA

OrderType == {"Yes", "No"}
OrderStatus == {"Pending", "Matched", "Cancelled", "Refunded"}
EventStatus == {"Created", "Active", "PrimaryClosed", "SecondaryActive",
                "Settled", "Resolved"}
Wallets == Buyers \cup {AdminWallet}

Order == [buyer : Buyers, order_type : OrderType, quantity : Nat,
          unit_price : Nat, total_amount : Nat, status : OrderStatus]
EscrowAccount == [amount : Nat, lamports : Nat]
MatchedPair == [yes_order_id : OrderIds, no_order_id : OrderIds,
                yes_buyer : Buyers, no_buyer : Buyers,
                quantity : Nat, yes_price : Nat, no_price : Nat]

ASSUME AccountsAssumption ==
  /\ NoAccount \notin Order
  /\ NoAccount \notin EscrowAccount
ASSUME FiniteAssumption == IsFiniteSet(Buyers) /\ IsFiniteSet(OrderIds)
ASSUME SharesAssumption ==
  /\ MaxSharesTotal \in Nat \ {0}
  /\ MaxSharesTotal % 2 = 0
  /\ MaxOrderQuantity \in Nat
ASSUME PriceAssumption ==
  /\ OptaOddsYes \in 1..BasisPoints
  /\ PlatformFeePrimary \in 0..MaxFeePoints
ASSUME TimeAssumption ==
  /\ PrimaryMarketClose \in Nat
  /\ EventStartTime \in Nat
  /\ EndOfTime \in Nat
  /\ PrimaryMarketClose < EventStartTime
ASSUME EnvironmentAssumption ==
  /\ AdminStatuses \subseteq EventStatus
  /\ InitialFunds \in [Buyers -> Nat]
  /\ EventSurplus \subseteq Nat
  /\ SystemMayDebitPDA \in BOOLEAN

VARIABLES
  now,                      \* Clock::get()?.unix_timestamp
  status,                   \* event.status
  primary_market_closed_at, \* whether it is Some(_)
  secondary_market_state,   \* whether it is Some(_)
  orders,                   \* order PDAs, by order id
  escrows,                  \* escrow PDAs, by order id
  matched_pairs,            \* match PDAs, by matched_pair_id
  yes_share_token,          \* quantity of the buyer's YES token, 0 if none
  no_share_token,           \* quantity of the buyer's NO token, 0 if none
  shares_minted_yes, shares_minted_no, remaining_shares, total_matches,
  payout_pool, total_platform_fees,
  wallet,                   \* lamports of the system accounts
  event_lamports            \* lamports of the event account

clockVars   == <<now>>
phaseVars   == <<status, primary_market_closed_at, secondary_market_state>>
orderVars   == <<orders, escrows>>
shareVars   == <<matched_pairs, shares_minted_yes, shares_minted_no,
                 remaining_shares, total_matches>>
tokenVars   == <<yes_share_token, no_share_token>>
accountVars == <<payout_pool, total_platform_fees>>
ledgerVars  == <<wallet, event_lamports>>
vars == <<now, status, primary_market_closed_at, secondary_market_state,
          orders, escrows, matched_pairs, yes_share_token, no_share_token,
          shares_minted_yes, shares_minted_no, remaining_shares,
          total_matches, payout_pool, total_platform_fees, wallet,
          event_lamports>>
-----------------------------------------------------------------------------
(***************************************************************************)
(* Definitions named Faulty... are plausible mistakes in the definition    *)
(* that follows them.  Nothing uses them: they are put in its place to see *)
(* that a property notices.                                                *)
(***************************************************************************)
\* One price for both sides.
FaultyUnitPrice(type) == EventPrices(OptaOddsYes).yes

UnitPrice(type) ==
  IF type = "Yes" THEN EventPrices(OptaOddsYes).yes
                  ELSE EventPrices(OptaOddsYes).no

\* max_shares_{yes,no} - minted_shares_{yes,no}.  The subtrahend is set to 0
\* by create_event and by no other instruction: mint_shares and match_orders
\* count in shares_minted_{yes,no}.
MintedShares == 0
MaxSharesOfSide == MaxSharesTotal \div 2
RemainingOfSide == MaxSharesOfSide - MintedShares

Live(o) == orders[o] # NoAccount
\* Without the constraint on the order's status.
FaultyPending(o) == Live(o)
Pending(o) == Live(o) /\ orders[o].status = "Pending"

\* Without the constraint on the clock.
FaultyPrimaryOpen == status \in {"Created", "Active"}

\* New orders: the constraints on the event's status and on the clock.
PrimaryOpen == status \in {"Created", "Active"} /\ now < PrimaryMarketClose

\* min of the two sides, as std::cmp::min
MatchQuantity(y, n) ==
  IF orders[y].quantity <= orders[n].quantity THEN orders[y].quantity
                                              ELSE orders[n].quantity

\* system_program::transfer out of an account that the program owns.  TRUE is
\* what the handlers and their tests take for granted.  The System program of
\* Solana debits only accounts that it owns, that carry no data and that sign:
\* FALSE is that rule.  cancel_order moves the lamports itself and needs none.
SystemTransferFromPDA(lamports, amount) ==
  SystemMayDebitPDA /\ amount <= lamports

Credit(w, amount) == [wallet EXCEPT ![w] = @ + amount]
-----------------------------------------------------------------------------
\* create_event; the surplus is whatever the PDA had been sent beforehand.
Init ==
  /\ now = 0
  /\ status = "Created"
  /\ primary_market_closed_at = FALSE
  /\ secondary_market_state = FALSE
  /\ orders = [o \in OrderIds |-> NoAccount]
  /\ escrows = [o \in OrderIds |-> NoAccount]
  /\ matched_pairs = [i \in {} |-> NoAccount]
  /\ yes_share_token = [b \in Buyers |-> 0]
  /\ no_share_token = [b \in Buyers |-> 0]
  /\ shares_minted_yes = 0
  /\ shares_minted_no = 0
  /\ remaining_shares = MaxSharesTotal
  /\ total_matches = 0
  /\ payout_pool = 0
  /\ total_platform_fees = 0
  /\ wallet = [w \in Wallets |-> IF w \in Buyers THEN InitialFunds[w] ELSE 0]
  /\ event_lamports \in EventSurplus

PlaceOrder(o, b, type, quantity) ==
  LET price == UnitPrice(type)
      total == quantity * price
      fee   == CalculateFee(total, PlatformFeePrimary)
  IN
  /\ PrimaryOpen
  /\ orders[o] = NoAccount
  /\ escrows[o] = NoAccount
  /\ quantity \in 1..MaxOrderQuantity
  /\ price > 0
  /\ quantity <= RemainingOfSide
  /\ FitsU64(total * PlatformFeePrimary)
  /\ FitsU64(total + fee)
  /\ FitsU64(total_platform_fees + fee)
  /\ total + fee <= wallet[b]
  /\ orders' = [orders EXCEPT ![o] =
       [buyer |-> b, order_type |-> type, quantity |-> quantity,
        unit_price |-> price, total_amount |-> total, status |-> "Pending"]]
  /\ escrows' = [escrows EXCEPT ![o] = [amount |-> total, lamports |-> total]]
  /\ wallet' = [w \in Wallets |->
       wallet[w] - (IF w = b THEN total + fee ELSE 0)
                 + (IF w = AdminWallet THEN fee ELSE 0)]
  /\ total_platform_fees' = total_platform_fees + fee
  /\ UNCHANGED <<clockVars, phaseVars, shareVars, tokenVars, payout_pool,
                 event_lamports>>

\* What a match of q shares leaves of an order and of its escrow.
AfterFill(order, q) ==
  LET left == order.quantity - q
  IN  [order EXCEPT !.quantity = left,
                    !.total_amount = left * order.unit_price,
                    !.status = IF left = 0 THEN "Matched" ELSE @]

\* escrow.amount is not written back; the whole escrow is paid out; the
\* lamports are paid out and not taken from the escrow.
FaultyAfterSettlementStale(escrow, order, q) ==
  [escrow EXCEPT !.lamports = @ - q * order.unit_price]
FaultyAfterSettlementAll(escrow, order, q) ==
  [amount |-> (order.quantity - q) * order.unit_price, lamports |-> 0]
FaultyAfterSettlementKept(escrow, order, q) ==
  [escrow EXCEPT !.amount = (order.quantity - q) * order.unit_price]
AfterSettlement(escrow, order, q) ==
  [amount   |-> (order.quantity - q) * order.unit_price,
   lamports |-> escrow.lamports - q * order.unit_price]

\* remaining_shares counts the shares of one side only.
FaultyCountMatch(q) ==
  /\ shares_minted_yes' = shares_minted_yes + q
  /\ shares_minted_no' = shares_minted_no + q
  /\ remaining_shares' = remaining_shares
  /\ total_matches' = total_matches + 1

\* The event's counters and the new pair at the next free matched_pair_id.
CountMatch(q) ==
  /\ shares_minted_yes' = shares_minted_yes + q
  /\ shares_minted_no' = shares_minted_no + q
  /\ remaining_shares' = remaining_shares - q
  /\ total_matches' = total_matches + 1

\* The pair records the YES order's quantity instead of the match's.
FaultyPairOf(y, n, q) ==
  [yes_order_id |-> y, no_order_id |-> n,
   yes_buyer |-> orders[y].buyer, no_buyer |-> orders[n].buyer,
   quantity |-> orders[y].quantity,
   yes_price |-> orders[y].unit_price, no_price |-> orders[n].unit_price]

PairOf(y, n, q) ==
  [yes_order_id |-> y, no_order_id |-> n,
   yes_buyer |-> orders[y].buyer, no_buyer |-> orders[n].buyer, quantity |-> q,
   yes_price |-> orders[y].unit_price, no_price |-> orders[n].unit_price]

RecordPair(pair) ==
  /\ total_matches \notin DOMAIN matched_pairs
  /\ matched_pairs' = [i \in DOMAIN matched_pairs \cup {total_matches} |->
       IF i = total_matches THEN pair ELSE matched_pairs[i]]

\* Without the test against event.remaining_shares.
FaultySharesAvailable(q) == q > 0
SharesAvailable(q) == remaining_shares > 0 /\ q > 0 /\ q <= remaining_shares

\* A buyer may be matched with himself.
FaultyMatchable(y, n) ==
  /\ Pending(y) /\ orders[y].order_type = "Yes"
  /\ Pending(n) /\ orders[n].order_type = "No"

\* Who may be matched with whom: the constraints on the accounts.
Matchable(y, n) ==
  /\ Pending(y) /\ orders[y].order_type = "Yes"
  /\ Pending(n) /\ orders[n].order_type = "No"
  /\ orders[y].buyer # orders[n].buyer

\* No constraint ties the two recipient accounts to the buyers of the orders:
\* they are the yes_buyer and no_buyer accounts that the caller passes.  The
\* event's status and the time are not looked at.
MatchOrders(y, n, yesRecipient, noRecipient) ==
  LET q         == MatchQuantity(y, n)
      yesAmount == q * orders[y].unit_price
      noAmount  == q * orders[n].unit_price
  IN
  /\ Matchable(y, n)
  /\ PriceSumAccepted(orders[y].unit_price, orders[n].unit_price)
  /\ SharesAvailable(q)
  /\ SystemTransferFromPDA(escrows[n].lamports, noAmount)
  /\ SystemTransferFromPDA(escrows[y].lamports, yesAmount)
  /\ wallet' = [w \in Wallets |->
       wallet[w] + (IF w = yesRecipient THEN noAmount ELSE 0)
                 + (IF w = noRecipient THEN yesAmount ELSE 0)]
  /\ orders' = [orders EXCEPT ![y] = AfterFill(@, q), ![n] = AfterFill(@, q)]
  /\ escrows' = [escrows EXCEPT ![y] = AfterSettlement(@, orders[y], q),
                                ![n] = AfterSettlement(@, orders[n], q)]
  /\ CountMatch(q)
  /\ RecordPair(PairOf(y, n, q))
  /\ UNCHANGED <<clockVars, phaseVars, tokenVars, accountVars, event_lamports>>

\* `init` of the two tokens, whose addresses hold the buyer and the side but
\* not the pair, fails for a buyer who has a token of that side already.
TokensAbsent(pair) ==
  yes_share_token[pair.yes_buyer] = 0 /\ no_share_token[pair.no_buyer] = 0

\* The tokens are `init_if_needed` and topped up.
FaultyMintShares(i) ==
  LET pair == matched_pairs[i]
  IN
  /\ i \in DOMAIN matched_pairs
  /\ yes_share_token' = [yes_share_token EXCEPT ![pair.yes_buyer] = @ + pair.quantity]
  /\ no_share_token' = [no_share_token EXCEPT ![pair.no_buyer] = @ + pair.quantity]
  /\ UNCHANGED <<clockVars, phaseVars, orderVars, shareVars, accountVars,
                 ledgerVars>>

MintShares(i) ==
  LET pair == matched_pairs[i]
  IN
  /\ i \in DOMAIN matched_pairs
  /\ TokensAbsent(pair)
  /\ pair.quantity \in 1..MaxOrderQuantity
  /\ pair.yes_buyer # pair.no_buyer
  /\ yes_share_token' = [yes_share_token EXCEPT ![pair.yes_buyer] = pair.quantity]
  /\ no_share_token' = [no_share_token EXCEPT ![pair.no_buyer] = pair.quantity]
  /\ UNCHANGED <<clockVars, phaseVars, orderVars, shareVars, accountVars,
                 ledgerVars>>

\* The orders are found by the ids in the pair: they may be closed by now, or
\* be later orders placed under the same id.
ProcessMatch(i) ==
  LET pair  == matched_pairs[i]
      value == pair.quantity * (pair.yes_price + pair.no_price)
      Settle(order) == IF order.quantity = 0
                         THEN [order EXCEPT !.status = "Matched"] ELSE order
  IN
  /\ i \in DOMAIN matched_pairs
  /\ Live(pair.yes_order_id) /\ orders[pair.yes_order_id].buyer = pair.yes_buyer
  /\ Live(pair.no_order_id) /\ orders[pair.no_order_id].buyer = pair.no_buyer
  /\ escrows[pair.yes_order_id] # NoAccount
  /\ escrows[pair.no_order_id] # NoAccount
  /\ yes_share_token[pair.yes_buyer] = pair.quantity
  /\ no_share_token[pair.no_buyer] = pair.quantity
  /\ FitsU64(payout_pool + value)
  /\ payout_pool' = payout_pool + value
  /\ orders' = [orders EXCEPT ![pair.yes_order_id] = Settle(@),
                              ![pair.no_order_id] = Settle(@)]
  /\ UNCHANGED <<clockVars, phaseVars, escrows, shareVars, tokenVars,
                 total_platform_fees, ledgerVars>>

\* Signed by order.buyer.  The handler moves escrow.amount to the buyer, then
\* `close = buyer` moves the rest and deletes both accounts.
\* Only while the primary market takes orders.
FaultyCancellable(o) == Pending(o) /\ status \in {"Created", "Active"}
Cancellable(o) ==
  /\ Pending(o)
  /\ escrows[o] # NoAccount
  /\ escrows[o].amount <= escrows[o].lamports

CancelOrder(o) ==
  /\ Cancellable(o)
  /\ wallet' = Credit(orders[o].buyer, escrows[o].lamports)
  /\ orders' = [orders EXCEPT ![o] = NoAccount]
  /\ escrows' = [escrows EXCEPT ![o] = NoAccount]
  /\ UNCHANGED <<clockVars, phaseVars, shareVars, tokenVars, accountVars,
                 event_lamports>>

\* Anyone may submit it.  The accounts stay, and escrow.amount is not reset.
RefundOrder(o) ==
  /\ status = "PrimaryClosed"
  /\ Pending(o)
  /\ escrows[o] # NoAccount
  /\ SystemTransferFromPDA(escrows[o].lamports, escrows[o].amount)
  /\ wallet' = Credit(orders[o].buyer, escrows[o].amount)
  /\ orders' = [orders EXCEPT ![o].status = "Refunded"]
  /\ escrows' = [escrows EXCEPT ![o].lamports = @ - escrows[o].amount]
  /\ UNCHANGED <<clockVars, phaseVars, shareVars, tokenVars, accountVars,
                 event_lamports>>

\* The handler's second test of the status repeats the constraint.
EndPrimaryMarket ==
  /\ status = "Active"
  /\ now >= EventStartTime
  /\ status' = "PrimaryClosed"
  /\ primary_market_closed_at' = TRUE
  /\ UNCHANGED <<clockVars, secondary_market_state, orderVars, shareVars,
                 tokenVars, accountVars, ledgerVars>>

\* The fees went to the admin wallet when the orders were placed; here the
\* event account itself pays their total, to a wallet the admin names.
CollectFees(w) ==
  /\ status = "PrimaryClosed"
  /\ total_platform_fees > 0
  /\ SystemTransferFromPDA(event_lamports, total_platform_fees)
  /\ event_lamports' = event_lamports - total_platform_fees
  /\ wallet' = Credit(w, total_platform_fees)
  /\ total_platform_fees' = 0
  /\ UNCHANGED <<clockVars, phaseVars, orderVars, shareVars, tokenVars,
                 payout_pool>>

OpenSecondaryMarket ==
  /\ status = "PrimaryClosed"
  /\ ~secondary_market_state
  /\ now >= PrimaryMarketClose
  /\ status' = "SecondaryActive"
  /\ secondary_market_state' = TRUE
  /\ UNCHANGED <<clockVars, primary_market_closed_at, orderVars, shareVars,
                 tokenVars, accountVars, ledgerVars>>

\* Any status at any time.  The question text is not modelled.  resolve_event
\* and cancel_event write two of these statuses under more conditions.
UpdateEvent(newStatus) ==
  /\ status' = newStatus
  /\ UNCHANGED <<clockVars, primary_market_closed_at, secondary_market_state,
                 orderVars, shareVars, tokenVars, accountVars, ledgerVars>>

\* The cluster's clock.
Tick ==
  /\ now < EndOfTime
  /\ now' = now + 1
  /\ UNCHANGED <<phaseVars, orderVars, shareVars, tokenVars, accountVars,
                 ledgerVars>>

Next ==
  \/ \E o \in OrderIds, b \in Buyers, type \in OrderType,
        quantity \in 1..MaxOrderQuantity : PlaceOrder(o, b, type, quantity)
  \/ \E y, n \in OrderIds, r, s \in Wallets : MatchOrders(y, n, r, s)
  \/ \E i \in DOMAIN matched_pairs : MintShares(i)
  \/ \E i \in DOMAIN matched_pairs : ProcessMatch(i)
  \/ \E o \in OrderIds : CancelOrder(o)
  \/ \E o \in OrderIds : RefundOrder(o)
  \/ EndPrimaryMarket
  \/ \E w \in Wallets : CollectFees(w)
  \/ OpenSecondaryMarket
  \/ \E s \in AdminStatuses : UpdateEvent(s)
  \/ Tick

Spec == Init /\ [][Next]_vars

\* A buyer can always cancel, and the fair specification supposes that the
\* buyer of an order which stays pending ends up doing so.
FairSpec == Spec /\ \A o \in OrderIds : WF_vars(CancelOrder(o))

\* Somebody (no signature is needed) keeps submitting refund_orders.
RefundSpec == Spec /\ \A o \in OrderIds : SF_vars(RefundOrder(o))

\* Somebody keeps submitting mint_shares for every matched pair.
MintSpec == Spec /\ \A i \in 0..(MaxSharesTotal - 1) : SF_vars(MintShares(i))
-----------------------------------------------------------------------------
(***************************************************************************)
(* Properties.                                                             *)
(***************************************************************************)
TypeOK ==
  /\ now \in 0..EndOfTime
  /\ status \in EventStatus
  /\ primary_market_closed_at \in BOOLEAN
  /\ secondary_market_state \in BOOLEAN
  /\ orders \in [OrderIds -> Order \cup {NoAccount}]
  /\ escrows \in [OrderIds -> EscrowAccount \cup {NoAccount}]
  /\ DOMAIN matched_pairs \subseteq Nat
  /\ \A i \in DOMAIN matched_pairs : matched_pairs[i] \in MatchedPair
  /\ yes_share_token \in [Buyers -> Nat]
  /\ no_share_token \in [Buyers -> Nat]
  /\ shares_minted_yes \in Nat
  /\ shares_minted_no \in Nat
  /\ remaining_shares \in Nat
  /\ total_matches \in Nat
  /\ payout_pool \in Nat
  /\ total_platform_fees \in Nat
  /\ wallet \in [Wallets -> Nat]
  /\ event_lamports \in Nat

\* Escrow solvency.  place_order, match_orders, cancel_order and refund_orders
\* each keep in step the order's quantity and total_amount, the escrow's
\* amount, and the lamports the escrow really holds, so that whatever is still
\* to be matched can be paid for and whatever is not can be returned; an order
\* and its escrow exist together, and a settled order has nothing left in it.
EscrowCovers(o) ==
  /\ Live(o) <=> escrows[o] # NoAccount
  /\ Live(o) =>
       /\ orders[o].status \in {"Pending", "Matched"} =>
            /\ escrows[o].lamports = orders[o].quantity * orders[o].unit_price
            /\ escrows[o].amount = escrows[o].lamports
            /\ orders[o].total_amount = escrows[o].lamports
       /\ orders[o].status = "Refunded" => escrows[o].lamports = 0
       /\ orders[o].status = "Matched" <=> orders[o].quantity = 0
       /\ orders[o].status # "Cancelled"
EscrowSolvent == \A o \in OrderIds : EscrowCovers(o)

\* Whenever the accounts of two orders satisfy the constraints of match_orders
\* their prices make exactly one SOL, utils::can_match_orders: the one percent
\* tolerance is never needed and InvalidPriceSum never stops a match, whatever
\* happened to the order ids in between.
MatchablePricesMakeOneSol ==
  \A y, n \in OrderIds : Matchable(y, n) =>
    CanMatchOrders(orders[y].unit_price, orders[n].unit_price)

\* The event's share counters agree: as many NO as YES shares were sold, what
\* is sold and what remains add up to max_shares_total, and total_matches is
\* the next free matched_pair_id, so `init` of the pair never collides.
SharesAccounted ==
  /\ shares_minted_yes = shares_minted_no
  /\ remaining_shares + shares_minted_yes = MaxSharesTotal
  /\ DOMAIN matched_pairs = 0..(total_matches - 1)

\* The MatchedPair records are the full account of the shares sold: their
\* quantities add up to the event's counter and each joins two buyers.
PairQuantity == [i \in DOMAIN matched_pairs |-> matched_pairs[i].quantity]
PairsAccountForShares ==
  /\ SumFunction(PairQuantity) = shares_minted_yes
  /\ \A i \in DOMAIN matched_pairs :
       /\ matched_pairs[i].quantity \in 1..MaxOrderQuantity
       /\ matched_pairs[i].yes_buyer # matched_pairs[i].no_buyer

\* The share tokens are covered by the shares sold: mint_shares makes as many
\* YES as NO shares, so either outcome owes the same, and never more than the
\* matches sold although nothing marks a pair as minted.
TokensCovered ==
  /\ SumFunction(yes_share_token) = SumFunction(no_share_token)
  /\ SumFunction(yes_share_token) <= shares_minted_yes

\* Every token is the one that some pair of that buyer was minted into.
TokensComeFromPairs ==
  \A b \in Buyers :
    /\ yes_share_token[b] # 0 => \E i \in DOMAIN matched_pairs :
         matched_pairs[i].yes_buyer = b /\ matched_pairs[i].quantity = yes_share_token[b]
    /\ no_share_token[b] # 0 => \E i \in DOMAIN matched_pairs :
         matched_pairs[i].no_buyer = b /\ matched_pairs[i].quantity = no_share_token[b]

\* No instruction creates or destroys lamports: wallets, escrows and the event
\* account together hold after every step what they held before it.
EscrowLamports ==
  [o \in OrderIds |-> IF escrows[o] = NoAccount THEN 0 ELSE escrows[o].lamports]
TotalLamports ==
  SumFunction(wallet) + SumFunction(EscrowLamports) + event_lamports
LamportsConserved == [][TotalLamports' = TotalLamports]_vars

\* Lamports leave an escrow in two ways only.  Either a new matched pair names
\* the order and takes exactly the price of the pair's shares, or all that the
\* escrow holds goes back to the wallet of the order's own buyer.
SoldShares(o, out) ==
  \E i \in DOMAIN matched_pairs' \ DOMAIN matched_pairs :
    LET pair == matched_pairs'[i]
    IN  \/ pair.yes_order_id = o /\ out = pair.quantity * pair.yes_price
        \/ pair.no_order_id = o /\ out = pair.quantity * pair.no_price
ReturnedAll(o, out) ==
  /\ out = EscrowLamports[o]
  /\ wallet'[orders[o].buyer] = wallet[orders[o].buyer] + out
EscrowPaysForSharesOrReturns ==
  [][\A o \in OrderIds :
       LET out == EscrowLamports[o] - EscrowLamports'[o]
       IN  out > 0 => SoldShares(o, out) \/ ReturnedAll(o, out)]_vars

\* Once end_primary_market has run no order is ever placed again, although
\* update_event may put the event back to Active: the clock alone, which ran
\* past event_start_time by then, keeps place_order out.
NoOrdersAfterPrimary ==
  [][primary_market_closed_at =>
       \A o \in OrderIds : orders[o] = NoAccount => orders'[o] = NoAccount]_vars

\* As long as an order account lives it keeps its buyer, side and price, its
\* quantity never grows, and Matched and Refunded are final.
OrdersOnlyShrink ==
  [][\A o \in OrderIds : Live(o) /\ orders'[o] # NoAccount =>
       /\ orders'[o].buyer = orders[o].buyer
       /\ orders'[o].order_type = orders[o].order_type
       /\ orders'[o].unit_price = orders[o].unit_price
       /\ orders'[o].quantity <= orders[o].quantity
       /\ orders[o].status # "Pending" => orders'[o] = orders[o]]_vars

\* The primary market is a vault: a stake is what an order's escrow holds, its
\* owner the order's buyer.  However orders are filled, cancelled, refunded and
\* placed again under the same id, two different buyers pay exactly one SOL for
\* each pair of shares out of their own stakes, no more pairs are sold than the
\* event has, and whatever else leaves an escrow is all of it and goes to the
\* buyer who placed it.
OrderOwner == [o \in OrderIds |-> IF Live(o) THEN orders[o].buyer ELSE NoAccount]
Custody == INSTANCE Vault WITH
  Slots <- OrderIds, Owners <- Buyers, Nobody <- NoAccount,
  Collector <- AdminWallet, ShareValue <- LamportsPerSol,
  Capacity <- MaxSharesTotal,
  owner <- OrderOwner, stake <- EscrowLamports,
  sold <- shares_minted_yes, funds <- wallet
ImplementsVault == Custody!Spec

\* A buyer who goes on trying to cancel gets out: no status of the event and no
\* sequence of matches leaves an order pending for ever.
PendingOrdersSettle == \A o \in OrderIds : Pending(o) ~> ~Pending(o)
-----------------------------------------------------------------------------
(***************************************************************************)
(* What the repository says of the program and the code does not do.       *)
(***************************************************************************)

\* lib.rs, "Refund unmatched orders after primary market closure": an order
\* that is pending when the primary market is closed gets its refund.
UnmatchedOrdersRefunded ==
  \A o \in OrderIds : (Pending(o) /\ status = "PrimaryClosed") ~> ~Pending(o)

\* "Handles multiple share minting for different matched pairs": if minting is
\* tried again and again, every buyer comes to hold all the shares matched.
YesSharesMatched(b) == SumFunctionOnSet(PairQuantity,
  {i \in DOMAIN matched_pairs : matched_pairs[i].yes_buyer = b})
MatchedSharesMinted ==
  \A b \in Buyers : []<>(yes_share_token[b] = YesSharesMatched(b))
=============================================================================
