--------------------------- MODULE PayoutsProofs ---------------------------
(***************************************************************************)
(* The payouts of an event, for every number of traders, tokens, claims    *)
(* and lamports: each step is also a step of the secondary market, records *)
(* of payments stay true, lamports move only with a record, and what the   *)
(* escrow has paid adds up and stays within the shares that were matched.  *)
(***************************************************************************)
EXTENDS Payouts, SecondaryMarketProofs

\* Paying and resolving do to the secondary market what it does anyway.
LEMMA PayoutStepTrades == [PayoutNext]_pvars => [Next]_vars
<1>1. ASSUME NEW outcome \in ShareType, ResolveEvent(outcome)  PROVE Next
  BY <1>1, ResolvedAssumption DEF ResolveEvent, Next, TradingNext
<1>2. ASSUME NEW outcome \in ShareType, ResolveMarket(outcome)  PROVE Next
  BY <1>2 DEF ResolveMarket, Next
<1>3. ASSUME NEW t \in Tokens, NEW c \in ClaimIds, NEW w \in Payers,
             DisburseWinnings(t, c, w) \/ ClaimPayout(t)
      PROVE  UNCHANGED vars
  BY <1>3 DEF DisburseWinnings, ClaimPayout
<1>4. ASSUME NEW t \in Tokens, ClaimPayout(t)
      PROVE  UNCHANGED vars
  BY <1>4 DEF ClaimPayout
<1> QED
  BY <1>1, <1>2, <1>3, <1>4 DEF PayoutNext, pvars, Next

\* Hence whatever was proved of the secondary market holds under payouts.
THEOREM PayoutsTrade == PayoutSpec => Spec
<1>1. PayoutInit => Init
  BY DEF PayoutInit
<1> QED
  BY <1>1, PayoutStepTrades, PTL DEF PayoutSpec, Spec
-----------------------------------------------------------------------------
\* Both instructions record a claim at a free address and pay it from one
\* account.
Pays(t, a, payer) ==
  /\ Payable(t)
  /\ Unclaimed(a)
  /\ Transfer(payer, t[1], PayoutAmount(t))
  /\ payout_claims' = [payout_claims EXCEPT ![a] = ClaimOf(t)]
  /\ UNCHANGED <<vars, winning_outcome>>

\* A step pays a claim, or leaves claims and lamports alone.
LEMMA StepPaysOrNot ==
  ASSUME [PayoutNext]_pvars
  PROVE  \/ UNCHANGED <<payout_claims, lamports>>
         \/ \E t \in Tokens, a \in ClaimIds, payer \in Payers : Pays(t, a, payer)
         \/ \E t \in Tokens : Pays(t, t[1], EventEscrow)
<1>1. ASSUME NEW t \in Tokens, NEW c \in ClaimIds, NEW w \in Payers,
             DisburseWinnings(t, c, w)
      PROVE  Pays(t, c, w)
  BY <1>1 DEF DisburseWinnings, Pays
<1>2. ASSUME NEW t \in Tokens, ClaimPayout(t)
      PROVE  Pays(t, t[1], EventEscrow)
  BY <1>2 DEF ClaimPayout, Pays
<1> QED
  BY <1>1, <1>2 DEF PayoutNext, pvars, payoutVars, ResolveMarket, ResolveEvent

\* The claim that is recorded, and the balances after it was paid.
LEMMA PaymentFacts ==
  ASSUME TypeOK, PayoutTypeOK, NEW t \in Tokens, NEW a \in ClaimAddresses,
         NEW payer \in Wallets, Pays(t, a, payer)
  PROVE  /\ t = <<t[1], t[2]>> /\ t[1] \in Traders /\ t[2] \in ShareType
         /\ ClaimOf(t) \in PayoutClaim /\ ClaimOf(t) # NoAccount
         /\ ClaimOf(t).claimer = t[1] /\ ClaimOf(t).share_type = t[2]
         /\ ClaimOf(t).winning_shares = tokens[t].quantity
         /\ ClaimOf(t).payout_amount = tokens[t].quantity * LamportsPerSol
         /\ tokens[t].quantity \in Nat \ {0}
         /\ winning_outcome = t[2]
         /\ market_status = "Closed"
         /\ lamports' \in [Wallets -> Nat]
         /\ lamports'[t[1]] + lamports'[payer] = lamports[t[1]] + lamports[payer]
         /\ payer # t[1] =>
              lamports'[t[1]] = lamports[t[1]] + tokens[t].quantity * LamportsPerSol
         /\ \A w \in Wallets \ {payer, t[1]} : lamports'[w] = lamports[w]
<1> DEFINE amount == PayoutAmount(t)
<1>1. t = <<t[1], t[2]>> /\ t[1] \in Traders /\ t[2] \in ShareType
  BY DEF Tokens
<1>2. /\ tokens[t].quantity \in Nat \ {0}
      /\ winning_outcome = t[2] /\ market_status = "Closed"
  BY DEF Pays, Payable, Winning, Resolved, TypeOK, ShareToken
<1>3. amount \in Nat /\ amount = tokens[t].quantity * LamportsPerSol
  <2>1. \A i, j \in Nat : i * j \in Nat
    BY Z3
  <2> QED
    BY <1>2, <2>1, PayoutLamportsAssumption DEF PayoutAmount
<1>4. /\ amount <= lamports[payer]
      /\ lamports' = [w \in Wallets |->
           lamports[w] - (IF w = payer THEN amount ELSE 0)
                       + (IF w = t[1] THEN amount ELSE 0)]
  BY DEF Pays, Transfer
<1>5. ClaimOf(t) = [claimer |-> t[1], share_type |-> t[2],
                    winning_shares |-> tokens[t].quantity, payout_amount |-> amount]
  BY DEF ClaimOf
<1> HIDE DEF amount
<1>6. /\ ClaimOf(t) \in PayoutClaim
      /\ ClaimOf(t).claimer = t[1] /\ ClaimOf(t).share_type = t[2]
      /\ ClaimOf(t).winning_shares = tokens[t].quantity
      /\ ClaimOf(t).payout_amount = amount
  BY <1>1, <1>2, <1>3, <1>5 DEF PayoutClaim
<1>7. ClaimOf(t) # NoAccount
  BY <1>6, PayoutAccountsAssumption
<1>8. lamports \in [Wallets -> Nat] /\ t[1] \in Wallets
  BY <1>1 DEF PayoutTypeOK, Wallets, Payers
<1>9. \A w \in Wallets : lamports'[w] =
        lamports[w] - (IF w = payer THEN amount ELSE 0)
                    + (IF w = t[1] THEN amount ELSE 0)
  BY <1>4
<1>10. \A w \in Wallets : lamports'[w] \in Nat
  BY <1>3, <1>4, <1>8, <1>9
<1>11. lamports' \in [Wallets -> Nat]
  BY <1>4, <1>10
<1>12. /\ lamports'[t[1]] + lamports'[payer] = lamports[t[1]] + lamports[payer]
       /\ payer # t[1] => lamports'[t[1]] = lamports[t[1]] + amount
       /\ \A w \in Wallets \ {payer, t[1]} : lamports'[w] = lamports[w]
  BY <1>3, <1>8, <1>9
<1> QED
  BY <1>1, <1>2, <1>3, <1>6, <1>7, <1>11, <1>12

\* The addresses and the accounts that the two instructions use.
LEMMA PayingAccounts ==
  /\ \A c \in ClaimIds : c \in ClaimAddresses
  /\ \A t \in Tokens : t[1] \in ClaimAddresses
  /\ \A w \in Payers : w \in Wallets
  /\ EventEscrow \in Wallets
BY TokenOwner DEF ClaimAddresses, Wallets
-----------------------------------------------------------------------------
PayoutInv == TradingInv /\ PayoutTypeOK /\ ClaimsHold

\* Nothing is claimed when the market opens.
LEMMA PayoutStart == PayoutInit => PayoutInv
<1> SUFFICES ASSUME PayoutInit  PROVE PayoutInv
  OBVIOUS
<1>1. TradingInv
  BY TradingInit DEF PayoutInit
<1>2. PayoutTypeOK
  <2>1. PICK funds \in EscrowFunds :
          lamports = [w \in Wallets |-> IF w = Backend THEN BackendFunds
                                        ELSE IF w = EventEscrow THEN funds ELSE 0]
    BY DEF PayoutInit
  <2>2. lamports \in [Wallets -> Nat]
    BY <2>1, PayoutLamportsAssumption
  <2> QED
    BY <2>2 DEF PayoutInit, PayoutTypeOK
<1>3. ClaimsHold
  BY DEF PayoutInit, ClaimsHold
<1> QED
  BY <1>1, <1>2, <1>3 DEF PayoutInv

\* Payments keep the types, and never overdraw an account.
LEMMA PayoutTypeStep == PayoutInv /\ [PayoutNext]_pvars => PayoutTypeOK'
<1> SUFFICES ASSUME PayoutInv, [PayoutNext]_pvars  PROVE PayoutTypeOK'
  OBVIOUS
<1>1. TypeOK /\ PayoutTypeOK
  BY DEF PayoutInv, TradingInv
<1>2. ASSUME NEW t \in Tokens, NEW a \in ClaimAddresses, NEW payer \in Wallets,
             Pays(t, a, payer)
      PROVE  PayoutTypeOK'
  <2>1. payout_claims' = [payout_claims EXCEPT ![a] = ClaimOf(t)]
        /\ winning_outcome' = winning_outcome
    BY <1>2 DEF Pays
  <2>2. ClaimOf(t) \in PayoutClaim /\ lamports' \in [Wallets -> Nat]
    BY <1>1, <1>2, PaymentFacts
  <2> QED
    BY <1>1, <2>1, <2>2 DEF PayoutTypeOK
<1>3. ASSUME UNCHANGED <<payout_claims, lamports>>
      PROVE  PayoutTypeOK'
  <2>1. winning_outcome' \in Outcome
    BY <1>1 DEF PayoutNext, pvars, payoutVars, ResolveMarket, ResolveEvent,
                DisburseWinnings, ClaimPayout, PayoutTypeOK, Outcome, ShareType
  <2> QED
    BY <1>1, <1>3, <2>1 DEF PayoutTypeOK
<1> QED
  BY <1>2, <1>3, StepPaysOrNot, PayingAccounts

\* Once the market is closed a token that has shares keeps them.
LEMMA ClosedTokensKept ==
  ASSUME TypeOK, [Next]_vars, market_status = "Closed",
         NEW t \in Tokens, tokens[t].quantity > 0
  PROVE  tokens'[t].quantity = tokens[t].quantity
<1>1. ~Trading
  BY DEF Trading
<1>2. ASSUME NEW pair \in MatchedPairs, MintShares(pair)
      PROVE  tokens'[t].quantity = tokens[t].quantity
  <2> DEFINE yes == <<pair.yes_buyer, "Yes">>
             no  == <<pair.no_buyer, "No">>
  <2>1. /\ tokens[yes].quantity = 0 /\ tokens[no].quantity = 0
        /\ tokens' = [tokens EXCEPT ![yes].quantity = pair.quantity,
                                    ![no].quantity = pair.quantity]
    BY <1>2 DEF MintShares
  <2> HIDE DEF yes, no
  <2>2. t # yes /\ t # no
    BY <2>1
  <2> QED
    BY <2>1, <2>2 DEF TypeOK
<1> QED
  BY <1>1, <1>2
  DEF Next, TradingNext, vars, ListShareForSale, PlaceSecondaryBid,
      AcceptSecondaryBid, CancelSecondaryOrder, BatchSettleTrades,
      UpdatePriceSnapshot, ResolveSecondaryMarket, UpdateEvent, Tick, listingVars

\* A claim stays true, and a new one is.
LEMMA ClaimsStep == PayoutInv /\ [PayoutNext]_pvars => ClaimsHold'
<1> SUFFICES ASSUME PayoutInv, [PayoutNext]_pvars, NEW a \in ClaimAddresses,
                    payout_claims'[a] # NoAccount
             PROVE  ClaimHolds(a)'
  BY DEF ClaimsHold
<1>1. TypeOK /\ PayoutTypeOK /\ ClaimsHold /\ [Next]_vars
  BY PayoutStepTrades DEF PayoutInv, TradingInv
<1>2. ASSUME payout_claims'[a] = payout_claims[a]
      PROVE  ClaimHolds(a)'
  <2> DEFINE claim == payout_claims[a]
             token == <<claim.claimer, claim.share_type>>
  <2>1. claim \in PayoutClaim /\ ClaimHolds(a)
    BY <1>1, <1>2 DEF PayoutTypeOK, ClaimsHold
  <2>2. token \in Tokens
    BY <2>1 DEF PayoutClaim, Tokens
  <2>3. market_status = "Closed" /\ tokens[token].quantity > 0
    BY <2>1 DEF ClaimHolds
  <2>4. market_status' = "Closed"
    BY <1>1, <2>3, ClosedRests
  <2>5. tokens'[token].quantity = tokens[token].quantity
    BY <1>1, <2>2, <2>3, ClosedTokensKept
  <2> QED
    BY <1>2, <2>1, <2>4, <2>5 DEF ClaimHolds
<1>3. ASSUME NEW t \in Tokens, NEW b \in ClaimAddresses, NEW payer \in Wallets,
             Pays(t, b, payer), b \in Traders => b = t[1]
      PROVE  ClaimHolds(a)'
  <2>1. /\ payout_claims' = [payout_claims EXCEPT ![b] = ClaimOf(t)]
        /\ UNCHANGED <<tokens, market_status>>
    BY <1>3 DEF Pays, vars
  <2>2. CASE a = b
    <3>1. payout_claims'[a] = ClaimOf(t)
      BY <1>1, <2>1, <2>2 DEF PayoutTypeOK
    <3>2. /\ t = <<ClaimOf(t).claimer, ClaimOf(t).share_type>>
          /\ ClaimOf(t).claimer = t[1]
          /\ ClaimOf(t).winning_shares = tokens[t].quantity
          /\ ClaimOf(t).payout_amount = tokens[t].quantity * LamportsPerSol
          /\ tokens[t].quantity \in Nat \ {0}
          /\ market_status = "Closed"
      BY <1>1, <1>3, PaymentFacts
    <3> QED
      BY <1>3, <2>1, <2>2, <3>1, <3>2 DEF ClaimHolds
  <2>3. CASE a # b
    BY <1>1, <1>2, <2>1, <2>3 DEF PayoutTypeOK
  <2> QED
    BY <2>2, <2>3
<1>4. \A c \in ClaimIds : c \notin Traders
  BY PayoutAccountsAssumption
<1> QED
  BY <1>2, <1>3, <1>4, StepPaysOrNot, PayingAccounts

\* Every reachable state satisfies the invariant.
LEMMA PayoutInvariant == PayoutSpec => []PayoutInv
<1>1. PayoutInv /\ [PayoutNext]_pvars => PayoutTypeOK' /\ ClaimsHold'
  BY PayoutTypeStep, ClaimsStep
<1>2. PayoutInit => PayoutTypeOK /\ ClaimsHold
  BY PayoutStart DEF PayoutInv
<1> QED
  BY <1>1, <1>2, PayoutsTrade, TradingInvariant, PTL DEF PayoutInv, PayoutSpec
-----------------------------------------------------------------------------
\* The types are kept; in particular nobody is debited more than he has.
THEOREM PayoutTypeCorrect == PayoutSpec => []PayoutTypeOK
BY PayoutInvariant, PTL DEF PayoutInv

\* Every claim on record stays true, although tokens are minted and statuses
\* and outcomes written after it.
THEOREM ClaimsStayTrue == PayoutSpec => []ClaimsHold
BY PayoutInvariant, PTL DEF PayoutInv

\* What a payment does, in the words of the properties.
LEMMA PaymentIsRecorded ==
  ASSUME PayoutInv, NEW t \in Tokens, NEW a \in ClaimAddresses,
         NEW payer \in Wallets, Pays(t, a, payer)
  PROVE  /\ PaidFrom(payer, a)
         /\ \A b \in ClaimAddresses : Recorded(b) => payout_claims'[b] = payout_claims[b]
<1>1. TypeOK /\ PayoutTypeOK
  BY DEF PayoutInv, TradingInv
<1>2. /\ payout_claims' = [payout_claims EXCEPT ![a] = ClaimOf(t)]
      /\ payout_claims[a] = NoAccount
  BY DEF Pays, Unclaimed
<1>3. payout_claims'[a] = ClaimOf(t)
  BY <1>1, <1>2 DEF PayoutTypeOK
<1>4. PaidFrom(payer, a)
  BY <1>1, <1>2, <1>3, PaymentFacts DEF PaidFrom, Recorded
<1>5. ASSUME NEW b \in ClaimAddresses, Recorded(b)
      PROVE  payout_claims'[b] = payout_claims[b]
  BY <1>1, <1>2, <1>5 DEF PayoutTypeOK, Recorded
<1> QED
  BY <1>4, <1>5

\* Lamports move only with a new record of the amount, and records last.
THEOREM PaymentsAreRecorded == PayoutSpec => EveryPaymentRecorded
<1> DEFINE Kept == \A a \in ClaimAddresses :
                     Recorded(a) => payout_claims'[a] = payout_claims[a]
           Justified == UNCHANGED lamports
                        \/ \E payer \in Wallets, a \in ClaimAddresses : PaidFrom(payer, a)
<1>1. PayoutInv /\ [PayoutNext]_pvars => Kept /\ Justified
  <2> SUFFICES ASSUME PayoutInv, [PayoutNext]_pvars  PROVE Kept /\ Justified
    OBVIOUS
  <2>1. ASSUME NEW t \in Tokens, NEW a \in ClaimAddresses, NEW payer \in Wallets,
               Pays(t, a, payer)
        PROVE  Kept /\ Justified
    BY <2>1, PaymentIsRecorded
  <2>2. ASSUME UNCHANGED <<payout_claims, lamports>>
        PROVE  Kept /\ Justified
    BY <2>2
  <2> HIDE DEF Kept, Justified
  <2> QED
    BY <2>1, <2>2, StepPaysOrNot, PayingAccounts
<1>2. PayoutInv /\ [PayoutNext]_pvars => [Kept /\ Justified]_pvars
  BY <1>1
<1> QED
  BY <1>2, PayoutInvariant, PTL DEF PayoutSpec, EveryPaymentRecorded

\* The escrow pays with the first claim of a trader only.
THEOREM EscrowPaysOnce == PayoutSpec => EscrowPaysEachOnce
<1> DEFINE Once == lamports'[EventEscrow] # lamports[EventEscrow] =>
                     \E b \in Traders : ~Recorded(b) /\ PaidFrom(EventEscrow, b)
<1>1. PayoutInv /\ [PayoutNext]_pvars => Once
  <2> SUFFICES ASSUME PayoutInv, [PayoutNext]_pvars  PROVE Once
    OBVIOUS
  <2>1. ASSUME NEW t \in Tokens, NEW c \in ClaimIds, NEW payer \in Payers,
               Pays(t, c, payer)
        PROVE  lamports'[EventEscrow] = lamports[EventEscrow]
    <3>1. /\ c \in ClaimAddresses /\ payer \in Wallets
          /\ EventEscrow \in Wallets /\ EventEscrow \notin {payer, t[1]}
      BY PayingAccounts, TokenOwner, PayoutAccountsAssumption DEF Payers
    <3> QED
      BY <2>1, <3>1, PaymentFacts DEF PayoutInv, TradingInv
  <2>2. ASSUME NEW t \in Tokens, Pays(t, t[1], EventEscrow)
        PROVE  Once
    <3>1. PaidFrom(EventEscrow, t[1])
      BY <2>2, PaymentIsRecorded, PayingAccounts
    <3>2. t[1] \in Traders /\ ~Recorded(t[1])
      BY <3>1, TokenOwner DEF PaidFrom
    <3> QED
      BY <3>1, <3>2
  <2>3. ASSUME UNCHANGED <<payout_claims, lamports>>  PROVE Once
    BY <2>3
  <2> QED
    BY <2>1, <2>2, <2>3, StepPaysOrNot
<1>2. PayoutInv /\ [PayoutNext]_pvars => [Once]_pvars
  BY <1>1
<1> QED
  BY <1>2, PayoutInvariant, PTL DEF PayoutSpec, EscrowPaysEachOnce
-----------------------------------------------------------------------------
(***************************************************************************)
(* What the escrow has paid: the shares in the claims of the traders.      *)
(***************************************************************************)
\* The claims that traders made themselves are for numbers of shares.
LEMMA OwnClaimsType ==
  ASSUME PayoutTypeOK, NEW side
  PROVE  /\ \A b \in Traders : OwnClaims(side)[b] \in Nat
         /\ PaidShares(side) = SumFunctionOnSet(OwnClaims(side), Traders)
         /\ PaidShares(side) \in Nat
<1>1. ASSUME NEW b \in Traders
      PROVE  OwnClaims(side)[b] \in Nat
  <2>1. Recorded(b) => payout_claims[b] \in PayoutClaim
    BY DEF PayoutTypeOK, Recorded, ClaimAddresses
  <2> QED
    BY <2>1 DEF OwnClaims, PayoutClaim
<1>2. PaidShares(side) = SumFunctionOnSet(OwnClaims(side), Traders)
  <2>1. DOMAIN OwnClaims(side) = Traders
    BY DEF OwnClaims
  <2> QED
    BY <2>1 DEF PaidShares, SumFunction
<1>3. SumFunctionOnSet(OwnClaims(side), Traders) \in Nat
  BY <1>1, PayoutFiniteAssumption, SumType
<1> QED
  BY <1>1, <1>2, <1>3

\* A claim at an address that the backend chose is no trader's own.
LEMMA BackendClaimsElsewhere ==
  ASSUME PayoutInv, NEW t \in Tokens, NEW c \in ClaimIds, NEW payer \in Payers,
         Pays(t, c, payer)
  PROVE  /\ lamports'[EventEscrow] = lamports[EventEscrow]
         /\ \A side : PaidShares(side)' = PaidShares(side)
<1>1. TypeOK /\ PayoutTypeOK
  BY DEF PayoutInv, TradingInv
<1>2. /\ c \in ClaimAddresses /\ payer \in Wallets
      /\ EventEscrow \in Wallets /\ EventEscrow \notin {payer, t[1]}
  BY PayingAccounts, TokenOwner, PayoutAccountsAssumption DEF Payers
<1>3. lamports'[EventEscrow] = lamports[EventEscrow]
  BY <1>1, <1>2, PaymentFacts
<1>4. \A b \in Traders : payout_claims'[b] = payout_claims[b]
  <2>1. \A b \in Traders : b # c
    BY PayoutAccountsAssumption
  <2> QED
    BY <1>1, <2>1 DEF Pays, PayoutTypeOK, ClaimAddresses
<1>5. ASSUME NEW side
      PROVE  PaidShares(side)' = PaidShares(side)
  <2>1. OwnClaims(side)' = OwnClaims(side)
    BY <1>4 DEF OwnClaims, Recorded
  <2> QED
    BY <2>1 DEF PaidShares
<1> QED
  BY <1>3, <1>5

\* A claim from the escrow adds the token's shares to those of its side that
\* were paid for, and the escrow has a SOL less for each.
LEMMA EscrowClaimCounts ==
  ASSUME PayoutInv, NEW t \in Tokens, Pays(t, t[1], EventEscrow)
  PROVE  /\ t[2] \in ShareType /\ tokens[t].quantity \in Nat
         /\ lamports'[EventEscrow] =
              lamports[EventEscrow] - tokens[t].quantity * LamportsPerSol
         /\ \A side \in ShareType :
              PaidShares(side)' = PaidShares(side)
                                    + (IF side = t[2] THEN tokens[t].quantity ELSE 0)
<1> DEFINE b == t[1]
           q == tokens[t].quantity
<1>1. TypeOK /\ PayoutTypeOK
  BY DEF PayoutInv, TradingInv
<1>2. b \in Traders /\ b \in ClaimAddresses /\ EventEscrow \in Wallets
  BY PayingAccounts, TokenOwner
<1>3. /\ t[2] \in ShareType /\ q \in Nat
      /\ ClaimOf(t) # NoAccount /\ ClaimOf(t).share_type = t[2]
      /\ ClaimOf(t).winning_shares = q
      /\ lamports' \in [Wallets -> Nat]
      /\ lamports'[b] + lamports'[EventEscrow] = lamports[b] + lamports[EventEscrow]
      /\ EventEscrow # b => lamports'[b] = lamports[b] + q * LamportsPerSol
  BY <1>1, <1>2, PaymentFacts
<1>4. lamports'[EventEscrow] = lamports[EventEscrow] - q * LamportsPerSol
  <2>1. b \in Wallets /\ EventEscrow # b
    BY <1>2, PayoutAccountsAssumption DEF Wallets, Payers
  <2>2. /\ lamports[b] \in Nat /\ lamports[EventEscrow] \in Nat
        /\ lamports'[b] \in Nat /\ lamports'[EventEscrow] \in Nat
    BY <1>1, <1>2, <1>3, <2>1 DEF PayoutTypeOK
  <2> DEFINE amount == q * LamportsPerSol
  <2>3. lamports'[b] = lamports[b] + amount
    BY <1>3, <2>1
  <2>4. amount \in Nat
    <3>1. \A i, j \in Nat : i * j \in Nat
      BY Z3
    <3> QED
      BY <1>3, <3>1, PayoutLamportsAssumption
  <2> HIDE DEF amount
  <2>5. lamports'[EventEscrow] = lamports[EventEscrow] - amount
    BY <1>3, <2>2, <2>3, <2>4
  <2> QED
    BY <2>5 DEF amount
<1>5. /\ payout_claims'[b] = ClaimOf(t)
      /\ \A a \in Traders \ {b} : payout_claims'[a] = payout_claims[a]
      /\ ~Recorded(b) /\ PayoutTypeOK'
  <2>1. /\ payout_claims[b] = NoAccount
        /\ payout_claims' = [payout_claims EXCEPT ![b] = ClaimOf(t)]
    BY DEF Pays, Unclaimed
  <2>2. PayoutTypeOK'
    BY PayoutTypeStep DEF Pays, PayoutNext, ClaimPayout
  <2> QED
    BY <1>1, <1>2, <2>1, <2>2 DEF PayoutTypeOK, Recorded, ClaimAddresses
<1>6. ASSUME NEW side \in ShareType
      PROVE  PaidShares(side)' =
               PaidShares(side) + (IF side = t[2] THEN q ELSE 0)
  <2> DEFINE f == OwnClaims(side)
             g == OwnClaims(side)'
  <2>1. /\ \A a \in Traders : f[a] \in Nat
        /\ PaidShares(side) = SumFunctionOnSet(f, Traders)
        /\ PaidShares(side) \in Nat
    BY <1>1, OwnClaimsType
  <2>2. /\ \A a \in Traders : g[a] \in Nat
        /\ PaidShares(side)' = SumFunctionOnSet(g, Traders)
    <3>1. ASSUME NEW a \in Traders
          PROVE  g[a] \in Nat
      <4>1. payout_claims'[a] # NoAccount => payout_claims'[a] \in PayoutClaim
        BY <1>5 DEF PayoutTypeOK, ClaimAddresses
      <4> QED
        BY <4>1 DEF OwnClaims, Recorded, PayoutClaim
    <3>2. DOMAIN g = Traders
      BY DEF OwnClaims
    <3>3. PaidShares(side)' = SumFunctionOnSet(g, DOMAIN g)
      BY DEF PaidShares, SumFunction
    <3> HIDE DEF g
    <3> QED
      BY <3>1, <3>2, <3>3
  <2>3. \A a \in Traders \ {b} : g[a] = f[a]
    BY <1>5 DEF OwnClaims, Recorded
  <2>4. f[b] = 0 /\ g[b] = IF side = t[2] THEN q ELSE 0
    BY <1>2, <1>3, <1>5 DEF OwnClaims, Recorded
  <2> HIDE DEF f, g, b, q
  <2>5. SumFunctionOnSet(g, Traders) = SumFunctionOnSet(f, Traders) - f[b] + g[b]
    BY <1>2, <2>1, <2>2, <2>3, PayoutFiniteAssumption, SumUpdated
  <2> QED
    BY <1>3, <2>1, <2>2, <2>4, <2>5
<1> QED
  BY <1>3, <1>4, <1>6

\* What the escrow holds and what it has paid add up to the same.
THEOREM EscrowAddsUp == PayoutSpec => EscrowAccounted
<1> DEFINE Same == lamports'[EventEscrow] + PaidByEscrow' =
                     lamports[EventEscrow] + PaidByEscrow
<1>1. PayoutInv /\ [PayoutNext]_pvars => Same
  <2> SUFFICES ASSUME PayoutInv, [PayoutNext]_pvars  PROVE Same
    OBVIOUS
  <2>1. ASSUME NEW t \in Tokens, NEW c \in ClaimIds, NEW payer \in Payers,
               Pays(t, c, payer)
        PROVE  Same
    BY <2>1, BackendClaimsElsewhere DEF PaidByEscrow
  <2>2. ASSUME NEW t \in Tokens, Pays(t, t[1], EventEscrow)
        PROVE  Same
    <3> DEFINE q == tokens[t].quantity
               y == PaidShares("Yes")
               n == PaidShares("No")
    <3>1. /\ lamports'[EventEscrow] = lamports[EventEscrow] - q * LamportsPerSol
          /\ q \in Nat
          /\ y' + n' = y + n + q
      <4>1. y \in Nat /\ n \in Nat
        BY OwnClaimsType DEF PayoutInv
      <4>2. /\ t[2] \in {"Yes", "No"} /\ q \in Nat
            /\ y' = y + (IF "Yes" = t[2] THEN q ELSE 0)
            /\ n' = n + (IF "No" = t[2] THEN q ELSE 0)
        BY <2>2, EscrowClaimCounts DEF ShareType
      <4>3. lamports'[EventEscrow] = lamports[EventEscrow] - q * LamportsPerSol
        BY <2>2, EscrowClaimCounts
      <4> HIDE DEF y, n, q
      <4> QED
        BY <4>1, <4>2, <4>3
    <3>2. y + n \in Nat /\ LamportsPerSol \in Nat /\ lamports[EventEscrow] \in Nat
      BY OwnClaimsType, PayoutLamportsAssumption, PayingAccounts
      DEF PayoutInv, PayoutTypeOK
    <3>3. \A i, j, k, l \in Nat : l - j * k + (i + j) * k = l + i * k
      BY Z3
    <3>4. PaidByEscrow' = (y' + n') * LamportsPerSol
          /\ PaidByEscrow = (y + n) * LamportsPerSol
      BY DEF PaidByEscrow
    <3> HIDE DEF y, n, q
    <3> QED
      BY <3>1, <3>2, <3>3, <3>4
  <2>3. ASSUME UNCHANGED <<payout_claims, lamports>>  PROVE Same
    BY <2>3 DEF PaidByEscrow, PaidShares, OwnClaims, Recorded
  <2> HIDE DEF Same
  <2> QED
    BY <2>1, <2>2, <2>3, StepPaysOrNot
<1>2. PayoutInv /\ [PayoutNext]_pvars => [Same]_pvars
  BY <1>1
<1> QED
  BY <1>2, PayoutInvariant, PTL DEF PayoutSpec, EscrowAccounted
-----------------------------------------------------------------------------
(***************************************************************************)
(* What the escrow can be asked for.  A token is minted once, from one     *)
(* pair, so that no two holders of a side have the shares of one pair.     *)
(***************************************************************************)
BuyerOf(pair, side) == IF side = "Yes" THEN pair.yes_buyer ELSE pair.no_buyer

\* A token's shares are those of a pair that its owner was matched in.
SharesFromPairs ==
  \A t \in Tokens : tokens[t].quantity > 0 =>
    \E pair \in MatchedPairs : /\ BuyerOf(pair, t[2]) = t[1]
                               /\ pair.quantity = tokens[t].quantity

\* For no side has the escrow paid for more shares than were ever matched.
PaidWithinMatches == \A side \in ShareType : PaidShares(side) <= MatchedShares

\* Minting takes the shares of a pair, and nothing else changes their number.
LEMMA SharesStep == TypeOK /\ SharesFromPairs /\ [Next]_vars => SharesFromPairs'
<1> SUFFICES ASSUME TypeOK, SharesFromPairs, [Next]_vars,
                    NEW t \in Tokens, tokens'[t].quantity > 0
             PROVE  \E pair \in MatchedPairs :
                      /\ BuyerOf(pair, t[2]) = t[1]
                      /\ pair.quantity = tokens'[t].quantity
  BY DEF SharesFromPairs
<1>1. ASSUME tokens'[t].quantity = tokens[t].quantity
      PROVE  \E pair \in MatchedPairs : /\ BuyerOf(pair, t[2]) = t[1]
                                        /\ pair.quantity = tokens'[t].quantity
  BY <1>1 DEF SharesFromPairs
<1>2. ASSUME NEW pair \in MatchedPairs, MintShares(pair)
      PROVE  \E p \in MatchedPairs : /\ BuyerOf(p, t[2]) = t[1]
                                     /\ p.quantity = tokens'[t].quantity
  <2> DEFINE yes == <<pair.yes_buyer, "Yes">>
             no  == <<pair.no_buyer, "No">>
  <2>1. yes \in Tokens /\ no \in Tokens /\ yes # no
    BY PairsAssumption DEF Tokens, ShareType
  <2>2. BuyerOf(pair, yes[2]) = yes[1] /\ BuyerOf(pair, no[2]) = no[1]
    BY DEF BuyerOf
  <2>3. tokens' = [tokens EXCEPT ![yes].quantity = pair.quantity,
                                 ![no].quantity = pair.quantity]
    BY <1>2 DEF MintShares
  <2> HIDE DEF yes, no
  <2>4. CASE t \in {yes, no}
    <3>1. tokens'[t].quantity = pair.quantity
      BY <2>1, <2>3, <2>4 DEF TypeOK, ShareToken
    <3> QED
      BY <2>2, <2>4, <3>1
  <2>5. CASE t \notin {yes, no}
    <3>1. tokens'[t] = tokens[t]
      BY <2>3, <2>5 DEF TypeOK
    <3> QED
      BY <1>1, <3>1
  <2> QED
    BY <2>4, <2>5
<1>3. ASSUME NEW s \in Tokens, NEW o \in OrderIds \cup {NoOrder},
             tokens' = [tokens EXCEPT ![s].lock_order_id = o]
      PROVE  tokens'[t].quantity = tokens[t].quantity
  BY <1>3 DEF TypeOK, ShareToken
<1>4. ASSUME NEW s \in Tokens, NEW o \in OrderIds, CancelSecondaryOrder(o, s)
      PROVE  tokens'[t].quantity = tokens[t].quantity
  BY <1>3, <1>4 DEF CancelSecondaryOrder
<1>5. ASSUME NEW s \in Tokens, NEW o \in OrderIds,
             NEW quantity \in 1..MaxOrderQuantity,
             ListShareForSale(s, o, quantity)
      PROVE  tokens'[t].quantity = tokens[t].quantity
  BY <1>3, <1>5 DEF ListShareForSale
<1>6. UNCHANGED tokens => tokens'[t].quantity = tokens[t].quantity
  OBVIOUS
<1> QED
  BY <1>1, <1>2, <1>4, <1>5, <1>6
  DEF Next, TradingNext, vars, PlaceSecondaryBid, AcceptSecondaryBid,
      BatchSettleTrades, UpdatePriceSnapshot, ResolveSecondaryMarket,
      UpdateEvent, Tick, listingVars

\* Each trader's claim is for the shares of a pair, and no two for the same.
LEMMA ClaimsFromPairs ==
  ASSUME PayoutInv, SharesFromPairs, NEW side \in ShareType
  PROVE  PaidShares(side) <= MatchedShares
<1> DEFINE f == OwnClaims(side)
           g == [pair \in MatchedPairs |-> pair.quantity]
           From(b, pair) == BuyerOf(pair, side) = b /\ f[b] = pair.quantity
           p == [b \in Traders |-> CHOOSE pair \in MatchedPairs : From(b, pair)]
<1>1. TypeOK /\ PayoutTypeOK /\ ClaimsHold
  BY DEF PayoutInv, TradingInv
<1>2. /\ \A b \in Traders : f[b] \in Nat
      /\ PaidShares(side) = SumFunctionOnSet(f, Traders)
  BY <1>1, OwnClaimsType
<1>3. \A pair \in MatchedPairs : g[pair] \in Nat
  BY PairsAssumption
<1>4. MatchedShares = SumFunctionOnSet(g, MatchedPairs)
  BY DEF MatchedShares, SumFunction
<1>5. ASSUME NEW b \in Traders, f[b] > 0
      PROVE  p[b] \in MatchedPairs /\ From(b, p[b])
  <2>1. /\ Recorded(b) /\ payout_claims[b].share_type = side
        /\ f[b] = payout_claims[b].winning_shares
    BY <1>5 DEF OwnClaims
  <2>2. /\ payout_claims[b].claimer = b
        /\ f[b] = tokens[<<b, side>>].quantity
    BY <1>1, <2>1 DEF ClaimsHold, ClaimHolds, Recorded, ClaimAddresses
  <2>3. <<b, side>> \in Tokens
    BY DEF Tokens
  <2>4. \E pair \in MatchedPairs : From(b, pair)
    <3> HIDE DEF f
    <3>1. tokens[<<b, side>>].quantity > 0
      BY <1>5, <2>2
    <3> QED
      BY <2>2, <2>3, <3>1 DEF SharesFromPairs
  <2> HIDE DEF From
  <2> QED
    BY <2>4
<1>6. \A b \in Traders : f[b] > 0 => p[b] \in MatchedPairs /\ f[b] <= g[p[b]]
  <2> SUFFICES ASSUME NEW b \in Traders, f[b] > 0
               PROVE  p[b] \in MatchedPairs /\ f[b] <= g[p[b]]
    OBVIOUS
  <2>1. p[b] \in MatchedPairs /\ f[b] = p[b].quantity
    BY <1>5
  <2>2. g[p[b]] = p[b].quantity
    BY <2>1
  <2> HIDE DEF f, g, p
  <2> QED
    BY <1>2, <2>1, <2>2
<1>7. \A b, c \in Traders : f[b] > 0 /\ f[c] > 0 /\ p[b] = p[c] => b = c
  <2> HIDE DEF f, p
  <2> QED
    BY <1>5
<1> HIDE DEF f, g, p, From
<1> QED
  BY <1>2, <1>3, <1>4, <1>6, <1>7, PayoutFiniteAssumption, SumCovered

\* Every reachable token has its pair.
LEMMA SharesInvariant == Spec => []SharesFromPairs
<1>1. Init => SharesFromPairs
  <2> SUFFICES ASSUME Init, NEW t \in Tokens  PROVE ~ (tokens[t].quantity > 0)
    BY DEF SharesFromPairs
  <2>1. tokens[t].quantity = 0
    BY DEF Init
  <2> QED
    BY <2>1
<1> QED
  BY <1>1, SharesStep, TradingTypeCorrect, PTL DEF Spec

\* The escrow never pays for more shares of a side than were matched: two SOL
\* for each matched share are all that can ever leave it, whatever outcomes are
\* written one over the other.
THEOREM EscrowPaysMatchedShares == PayoutSpec => []PaidWithinMatches
<1>1. PayoutInv /\ SharesFromPairs => PaidWithinMatches
  BY ClaimsFromPairs DEF PaidWithinMatches
<1> QED
  BY <1>1, SharesInvariant, PayoutsTrade, PayoutInvariant, PTL
-----------------------------------------------------------------------------
(***************************************************************************)
(* The claims of a resolution.  EscrowFunded is not kept, as claims are    *)
(* paid; EscrowCovers is what is, while the resolution stands.             *)
(***************************************************************************)
\* With what its traders have claimed already for the outcome that stands, the
\* escrow has one SOL for each share ever matched.
EscrowCovers ==
  MatchedShares * LamportsPerSol <=
    lamports[EventEscrow] + PaidShares(winning_outcome) * LamportsPerSol

\* Whoever holds winning shares and has not claimed yet is not in want of
\* lamports in the escrow.
WinnersCovered ==
  Resolved /\ EscrowCovers =>
    \A t \in Tokens : HoldsWinningShares(t) /\ ~Recorded(t[1]) =>
      PayoutAmount(t) <= lamports[EventEscrow]

\* What a trader has yet to claim is a pair's, too, and no other trader's.
LEMMA UnclaimedFromPairs ==
  ASSUME PayoutInv, SharesFromPairs, NEW t \in Tokens,
         tokens[t].quantity > 0, ~Recorded(t[1])
  PROVE  PaidShares(t[2]) + tokens[t].quantity <= MatchedShares
<1> DEFINE b0 == t[1]
           side == t[2]
           f == OwnClaims(side)
           h == [b \in Traders |-> IF b = b0 THEN tokens[t].quantity ELSE f[b]]
           g == [pair \in MatchedPairs |-> pair.quantity]
           From(b, pair) == BuyerOf(pair, side) = b /\ h[b] = pair.quantity
           p == [b \in Traders |-> CHOOSE pair \in MatchedPairs : From(b, pair)]
<1>1. TypeOK /\ PayoutTypeOK /\ ClaimsHold
  BY DEF PayoutInv, TradingInv
<1>2. /\ b0 \in Traders /\ side \in ShareType /\ t = <<b0, side>>
      /\ tokens[t].quantity \in Nat
  BY <1>1 DEF Tokens, TypeOK, ShareToken
<1>3. /\ \A b \in Traders : f[b] \in Nat
      /\ PaidShares(side) = SumFunctionOnSet(f, Traders)
      /\ PaidShares(side) \in Nat
  BY <1>1, OwnClaimsType
<1>4. f[b0] = 0
  BY <1>2 DEF OwnClaims
<1>5. /\ \A b \in Traders : h[b] \in Nat
      /\ h[b0] = tokens[t].quantity
      /\ \A b \in Traders \ {b0} : h[b] = f[b]
  <2> HIDE DEF f
  <2> QED
    BY <1>2, <1>3
<1>6. SumFunctionOnSet(h, Traders) = PaidShares(side) + tokens[t].quantity
  <2> HIDE DEF f, h, b0, side
  <2>1. SumFunctionOnSet(h, Traders) = SumFunctionOnSet(f, Traders) - f[b0] + h[b0]
    BY <1>2, <1>3, <1>5, PayoutFiniteAssumption, SumUpdated
  <2> QED
    BY <1>2, <1>3, <1>4, <1>5, <2>1
<1>7. \A pair \in MatchedPairs : g[pair] \in Nat
  BY PairsAssumption
<1>8. MatchedShares = SumFunctionOnSet(g, MatchedPairs)
  BY DEF MatchedShares, SumFunction
<1>9. ASSUME NEW b \in Traders, h[b] > 0
      PROVE  p[b] \in MatchedPairs /\ From(b, p[b])
  <2>1. h[b] = tokens[<<b, side>>].quantity
    <3>1. CASE b = b0
      BY <1>2, <1>5, <3>1
    <3>2. CASE b # b0
      <4>1. h[b] = f[b]
        BY <1>5, <3>2
      <4>2. /\ Recorded(b) /\ payout_claims[b].share_type = side
            /\ f[b] = payout_claims[b].winning_shares
        <5>1. f[b] > 0
          BY <1>9, <4>1
        <5> HIDE DEF h
        <5> QED
          BY <5>1 DEF OwnClaims
      <4>3. f[b] = tokens[<<b, side>>].quantity
        BY <1>1, <4>2 DEF ClaimsHold, ClaimHolds, Recorded, ClaimAddresses
      <4> QED
        BY <4>1, <4>3
    <3> QED
      BY <3>1, <3>2
  <2>2. <<b, side>> \in Tokens
    BY <1>2 DEF Tokens
  <2>3. \E pair \in MatchedPairs : From(b, pair)
    <3> HIDE DEF h
    <3>1. tokens[<<b, side>>].quantity > 0
      BY <1>9, <2>1
    <3> QED
      BY <2>1, <2>2, <3>1 DEF SharesFromPairs
  <2> HIDE DEF From
  <2> QED
    BY <2>3
<1>10. \A b \in Traders : h[b] > 0 => p[b] \in MatchedPairs /\ h[b] <= g[p[b]]
  <2> SUFFICES ASSUME NEW b \in Traders, h[b] > 0
               PROVE  p[b] \in MatchedPairs /\ h[b] <= g[p[b]]
    OBVIOUS
  <2>1. p[b] \in MatchedPairs /\ h[b] = p[b].quantity
    BY <1>9
  <2>2. g[p[b]] = p[b].quantity
    BY <2>1
  <2> HIDE DEF h, g, p
  <2> QED
    BY <1>5, <2>1, <2>2
<1>11. \A b, c \in Traders : h[b] > 0 /\ h[c] > 0 /\ p[b] = p[c] => b = c
  <2> HIDE DEF h, p
  <2> QED
    BY <1>9
<1> HIDE DEF f, h, g, p, From, side, b0
<1>12. SumFunctionOnSet(h, Traders) <= SumFunctionOnSet(g, MatchedPairs)
  BY <1>5, <1>7, <1>10, <1>11, PayoutFiniteAssumption, SumCovered
<1> QED
  BY <1>6, <1>8, <1>12 DEF side

\* While the resolution stands so does the cover: the outcome cannot be
\* written, and what the escrow loses is claimed.
LEMMA CoverStays ==
  ASSUME PayoutInv, [PayoutNext]_pvars, Resolved, status' = "Resolved", EscrowCovers
  PROVE  EscrowCovers'
<1> PICK side \in Outcome : side = winning_outcome
  BY DEF PayoutInv, PayoutTypeOK
<1>1. /\ TypeOK /\ PayoutTypeOK
      /\ ~Trading
  BY DEF PayoutInv, TradingInv, Resolved, Trading
<1>2. winning_outcome' = side
  <2>1. ASSUME NEW outcome \in ShareType, ResolveMarket(outcome)  PROVE FALSE
    BY <1>1, <2>1 DEF ResolveMarket, ResolveSecondaryMarket
  <2>2. ASSUME NEW outcome \in ShareType, ResolveEvent(outcome)  PROVE FALSE
    BY <2>2 DEF ResolveEvent, Resolved
  <2>3. ASSUME NEW t \in Tokens, NEW c \in ClaimIds, NEW payer \in Payers,
               DisburseWinnings(t, c, payer)
        PROVE  winning_outcome' = winning_outcome
    BY <2>3 DEF DisburseWinnings
  <2>4. ASSUME NEW t \in Tokens, ClaimPayout(t)
        PROVE  winning_outcome' = winning_outcome
    BY <2>4 DEF ClaimPayout
  <2>5. UNCHANGED payoutVars => winning_outcome' = winning_outcome
    BY DEF payoutVars
  <2>6. UNCHANGED pvars => UNCHANGED payoutVars
    BY DEF pvars
  <2> QED
    BY <2>1, <2>2, <2>3, <2>4, <2>5, <2>6 DEF PayoutNext
<1>3. ASSUME lamports'[EventEscrow] = lamports[EventEscrow],
             PaidShares(side)' = PaidShares(side)
      PROVE  EscrowCovers'
  <2>1. PaidShares(winning_outcome)' = PaidShares(side)'
    BY <1>2 DEF PaidShares, OwnClaims
  <2> QED
    BY <1>2, <1>3, <2>1 DEF EscrowCovers, MatchedShares
<1>4. ASSUME NEW t \in Tokens, NEW c \in ClaimIds, NEW payer \in Payers,
             Pays(t, c, payer)
      PROVE  EscrowCovers'
  BY <1>3, <1>4, BackendClaimsElsewhere
<1>5. ASSUME NEW t \in Tokens, Pays(t, t[1], EventEscrow)
      PROVE  EscrowCovers'
  <2> DEFINE q == tokens[t].quantity
             paid == PaidShares(side)
  <2>1. /\ t[2] \in ShareType /\ q \in Nat
        /\ lamports'[EventEscrow] = lamports[EventEscrow] - q * LamportsPerSol
        /\ PaidShares(t[2])' = PaidShares(t[2]) + q
    BY <1>5, EscrowClaimCounts
  <2>2. t[2] = side
    BY <1>5 DEF Pays, Payable, Winning
  <2>3. paid \in Nat /\ lamports[EventEscrow] \in Nat /\ LamportsPerSol \in Nat
    BY <1>1, OwnClaimsType, PayoutLamportsAssumption, PayingAccounts
    DEF PayoutTypeOK
  <2>4. PaidShares(winning_outcome)' = paid + q
    <3>1. PaidShares(winning_outcome)' = PaidShares(side)'
      BY <1>2 DEF PaidShares, OwnClaims
    <3> QED
      BY <2>1, <2>2, <3>1
  <2>5. \A i, j, k, l \in Nat : l - j * k + (i + j) * k = l + i * k
    BY Z3
  <2>6. lamports'[EventEscrow] + PaidShares(winning_outcome)' * LamportsPerSol =
          lamports[EventEscrow] + paid * LamportsPerSol
    <3> HIDE DEF q, paid
    <3> QED
      BY <2>1, <2>3, <2>4, <2>5
  <2> QED
    BY <2>6 DEF EscrowCovers, MatchedShares
<1>6. ASSUME UNCHANGED <<payout_claims, lamports>>  PROVE EscrowCovers'
  BY <1>2, <1>6 DEF EscrowCovers, PaidShares, OwnClaims, Recorded, MatchedShares
<1> QED
  BY <1>4, <1>5, <1>6, StepPaysOrNot

\* Where the cover is, there are lamports for each of those who are left.
LEMMA CoverSuffices == PayoutInv /\ SharesFromPairs => WinnersCovered
<1> SUFFICES ASSUME PayoutInv, SharesFromPairs, EscrowCovers, NEW t \in Tokens,
                    HoldsWinningShares(t), ~Recorded(t[1])
             PROVE  PayoutAmount(t) <= lamports[EventEscrow]
  BY DEF WinnersCovered
<1> DEFINE q == tokens[t].quantity
           paid == PaidShares(t[2])
<1>1. q > 0 /\ winning_outcome = t[2]
  BY DEF HoldsWinningShares
<1>2. paid + q <= MatchedShares
  BY <1>1, UnclaimedFromPairs
<1>3. /\ paid \in Nat /\ q \in Nat /\ LamportsPerSol \in Nat
      /\ lamports[EventEscrow] \in Nat
  BY OwnClaimsType, PayoutLamportsAssumption, PayingAccounts
  DEF PayoutInv, TradingInv, TypeOK, ShareToken, PayoutTypeOK
<1>4. MatchedShares \in Nat
  <2> DEFINE g == [pair \in MatchedPairs |-> pair.quantity]
  <2>1. \A pair \in MatchedPairs : g[pair] \in Nat
    BY PairsAssumption
  <2>2. MatchedShares = SumFunctionOnSet(g, MatchedPairs)
    BY DEF MatchedShares, SumFunction
  <2> HIDE DEF g
  <2> QED
    BY <2>1, <2>2, PayoutFiniteAssumption, SumType
<1>5. MatchedShares * LamportsPerSol <=
        lamports[EventEscrow] + paid * LamportsPerSol
  BY <1>1 DEF EscrowCovers
<1>6. \A i, j, k, l, n \in Nat : i + j <= n /\ n * k <= l + i * k => j * k <= l
  <2> SUFFICES ASSUME NEW i \in Nat, NEW j \in Nat, NEW k \in Nat, NEW l \in Nat,
                      NEW n \in Nat, i + j <= n, n * k <= l + i * k
               PROVE  j * k <= l
    OBVIOUS
  <2>1. (i + j) * k <= n * k
    BY Z3
  <2>2. (i + j) * k = i * k + j * k
    BY Z3
  <2>3. i * k \in Nat /\ j * k \in Nat /\ n * k \in Nat
    BY Z3
  <2> QED
    BY <2>1, <2>2, <2>3
<1> HIDE DEF q, paid
<1>7. q * LamportsPerSol <= lamports[EventEscrow]
  BY <1>2, <1>3, <1>4, <1>5, <1>6
<1> QED
  BY <1>7 DEF PayoutAmount, q

\* A sufficient escrow covers.
LEMMA FundedCovers == PayoutInv /\ EscrowFunded => EscrowCovers
<1> SUFFICES ASSUME PayoutInv, EscrowFunded  PROVE EscrowCovers
  OBVIOUS
<1>1. /\ PaidShares(winning_outcome) \in Nat
      /\ LamportsPerSol \in Nat /\ lamports[EventEscrow] \in Nat
  BY OwnClaimsType, PayoutLamportsAssumption, PayingAccounts
  DEF PayoutInv, PayoutTypeOK
<1>2. \A i, j \in Nat : i * j \in Nat
  BY Z3
<1>3. PaidShares(winning_outcome) * LamportsPerSol \in Nat
  BY <1>1, <1>2
<1>4. MatchedShares * LamportsPerSol <= lamports[EventEscrow]
  BY DEF EscrowFunded
<1> DEFINE cost == MatchedShares * LamportsPerSol
           paid == PaidShares(winning_outcome) * LamportsPerSol
<1>5. cost \in Int
  <2> DEFINE g == [pair \in MatchedPairs |-> pair.quantity]
  <2>1. \A pair \in MatchedPairs : g[pair] \in Nat
    BY PairsAssumption
  <2>2. MatchedShares = SumFunctionOnSet(g, MatchedPairs)
    BY DEF MatchedShares, SumFunction
  <2> HIDE DEF g
  <2>3. MatchedShares \in Nat
    BY <2>1, <2>2, PayoutFiniteAssumption, SumType
  <2> QED
    BY <1>1, <1>2, <2>3
<1>6. cost <= lamports[EventEscrow] + paid
  <2>1. paid \in Nat /\ cost <= lamports[EventEscrow]
    BY <1>3, <1>4
  <2> HIDE DEF cost, paid
  <2> QED
    BY <1>1, <1>5, <2>1
<1> QED
  BY <1>6 DEF EscrowCovers

\* Claims cannot starve each other.  From the moment at which the escrow holds
\* one SOL for each matched share, and as long as the event is not moved from
\* Resolved, it has lamports for every holder of winning shares who has not
\* claimed: the safety part of WinnersServed.
THEOREM ClaimsDoNotStarve ==
  PayoutSpec => /\ [](EscrowFunded => EscrowCovers)
                /\ [][Resolved /\ EscrowCovers /\ status' = "Resolved" => EscrowCovers']_pvars
                /\ []WinnersCovered
<1>1. PayoutInv /\ [PayoutNext]_pvars =>
        [Resolved /\ EscrowCovers /\ status' = "Resolved" => EscrowCovers']_pvars
  BY CoverStays
<1>2. PayoutSpec => []SharesFromPairs
  BY SharesInvariant, PayoutsTrade, PTL
<1> QED
  BY <1>1, <1>2, CoverSuffices, FundedCovers, PayoutInvariant, PTL DEF PayoutSpec
=============================================================================
