------------------------------ MODULE Payouts ------------------------------
(***************************************************************************)
(* The payouts of one event, on top of its secondary market: the outcome   *)
(* that the two resolving instructions record, and the two instructions    *)
(* that pay the holders of winning shares one SOL a share.                 *)
(*                                                                         *)
(* Neither paying instruction writes the share token.  That a payout was   *)
(* made is recorded in a PayoutClaim, whose address is a claim id that the *)
(* payer chooses (disburse_winnings) or the claimer's key (claim_payout).  *)
(* As in PrimaryMarket, lamports are counted above the rent of accounts.   *)
(***************************************************************************)
EXTENDS SecondaryMarket

CONSTANTS
  ClaimIds,       \* the u64 claim ids given to disburse_winnings
  Backend,        \* a wallet that pays and does not trade
  EventEscrow,    \* the PDA that claim_payout pays from
  LamportsPerSol, \* LAMPORTS_PER_SOL
  BackendFunds,   \* lamports of the backend at the start
  EscrowFunds     \* lamports that strangers may have sent to the escrow

Outcome == {"None", "Yes", "No"}
Payers == Traders \cup {Backend}
Wallets == Payers \cup {EventEscrow}
ClaimAddresses == ClaimIds \cup Traders

PayoutClaim == [claimer : Traders, share_type : ShareType,
                winning_shares : Nat, payout_amount : Nat]

ASSUME PayoutAccountsAssumption ==
  /\ NoAccount \notin PayoutClaim
  /\ ClaimIds \cap Traders = {}
  /\ Backend \notin Traders
  /\ EventEscrow \notin Payers
ASSUME PayoutLamportsAssumption ==
  /\ LamportsPerSol \in Nat \ {0}
  /\ BackendFunds \in Nat
  /\ EscrowFunds \subseteq Nat
ASSUME PayoutFiniteAssumption == IsFiniteSet(Traders) /\ IsFiniteSet(MatchedPairs)
ASSUME ResolvedAssumption == "Resolved" \in AdminStatuses

VARIABLES
  winning_outcome, \* event.winning_outcome
  payout_claims,   \* payout claims, by address
  lamports         \* of the wallets and of the event's escrow

payoutVars == <<winning_outcome, payout_claims, lamports>>
pvars == <<vars, payoutVars>>
-----------------------------------------------------------------------------
PayoutAmount(t) == tokens[t].quantity * LamportsPerSol

\* Faulty: the side of the token does not matter / a locked token is not paid.
FaultyWinning(t) == tokens[t].quantity > 0 /\ winning_outcome # "None"
FaultyWinningUnlocked(t) ==
  /\ tokens[t].quantity > 0
  /\ tokens[t].lock_order_id = NoOrder
  /\ winning_outcome = t[2]
Winning(t) == tokens[t].quantity > 0 /\ winning_outcome = t[2]

\* Faulty: the secondary market need not be closed.
FaultyResolved == status = "Resolved"
Resolved == status = "Resolved" /\ market_status = "Closed"

\* What the two instructions ask of the event, its market and the token.  They
\* do not look at the token's lock, nor at other claims.
Payable(t) ==
  /\ Resolved
  /\ Winning(t)
  /\ PayoutAmount(t) <= MaxU64

\* A claim is `init`, which fails at an address in use.  Faulty: init_if_needed.
FaultyUnclaimed(a) == a \in ClaimAddresses
Unclaimed(a) == payout_claims[a] = NoAccount

ClaimOf(t) ==
  [claimer |-> t[1], share_type |-> t[2],
   winning_shares |-> tokens[t].quantity, payout_amount |-> PayoutAmount(t)]

\* system_program::transfer, which fails without the balance.  Faulty: the
\* balance is not tested / the payer is not debited.
FaultyTransfer(from, to, amount) ==
  lamports' = [w \in Wallets |-> lamports[w] - (IF w = from THEN amount ELSE 0)
                                             + (IF w = to THEN amount ELSE 0)]
FaultyTransferKept(from, to, amount) ==
  /\ amount <= lamports[from]
  /\ lamports' = [lamports EXCEPT ![to] = @ + amount]
Transfer(from, to, amount) ==
  /\ amount <= lamports[from]
  /\ lamports' = [w \in Wallets |-> lamports[w] - (IF w = from THEN amount ELSE 0)
                                               + (IF w = to THEN amount ELSE 0)]

\* When the market opens an earlier resolve_event may have left an outcome.
PayoutInit ==
  /\ Init
  /\ winning_outcome \in Outcome
  /\ payout_claims = [a \in ClaimAddresses |-> NoAccount]
  /\ \E funds \in EscrowFunds :
       lamports = [w \in Wallets |-> IF w = Backend THEN BackendFunds
                                     ELSE IF w = EventEscrow THEN funds ELSE 0]

\* Signed by any wallet, which pays; the winner need not sign.
DisburseWinnings(t, c, authority) ==
  /\ Payable(t)
  /\ Unclaimed(c)
  /\ Transfer(authority, t[1], PayoutAmount(t))
  /\ payout_claims' = [payout_claims EXCEPT ![c] = ClaimOf(t)]
  /\ UNCHANGED <<vars, winning_outcome>>

\* Signed by the owner of the token.  The escrow is a system account, which
\* signs through its seeds and can be debited.
ClaimPayout(t) ==
  /\ Payable(t)
  /\ Unclaimed(t[1])
  /\ Transfer(EventEscrow, t[1], PayoutAmount(t))
  /\ payout_claims' = [payout_claims EXCEPT ![t[1]] = ClaimOf(t)]
  /\ UNCHANGED <<vars, winning_outcome>>

\* resolve_secondary_market
ResolveMarket(outcome) ==
  /\ ResolveSecondaryMarket
  /\ winning_outcome' = outcome
  /\ UNCHANGED <<payout_claims, lamports>>

\* resolve_event: at any time in any status but Resolved, and without the
\* secondary market's account.
ResolveEvent(outcome) ==
  /\ status # "Resolved"
  /\ UpdateEvent("Resolved")
  /\ winning_outcome' = outcome
  /\ UNCHANGED <<payout_claims, lamports>>

PayoutNext ==
  \/ TradingNext /\ UNCHANGED payoutVars
  \/ \E outcome \in ShareType : ResolveMarket(outcome)
  \/ \E outcome \in ShareType : ResolveEvent(outcome)
  \/ \E t \in Tokens, c \in ClaimIds, authority \in Payers :
       DisburseWinnings(t, c, authority)
  \/ \E t \in Tokens : ClaimPayout(t)

PayoutSpec == PayoutInit /\ [][PayoutNext]_pvars

\* Every holder of a token keeps claiming.
ClaimSpec == PayoutSpec /\ \A t \in Tokens : WF_pvars(ClaimPayout(t))

\* Moreover the backend keeps paying and a super admin keeps trying to resolve
\* the market.
DisburseSpec ==
  /\ ClaimSpec
  /\ \A t \in Tokens, c \in ClaimIds : SF_pvars(DisburseWinnings(t, c, Backend))
  /\ SF_pvars(\E outcome \in ShareType : ResolveMarket(outcome))
-----------------------------------------------------------------------------
(***************************************************************************)
(* Properties.                                                             *)
(***************************************************************************)
PayoutTypeOK ==
  /\ winning_outcome \in Outcome
  /\ payout_claims \in [ClaimAddresses -> PayoutClaim \cup {NoAccount}]
  /\ lamports \in [Wallets -> Nat]

\* A claim on record is true for good, although the token it was made for is
\* neither consumed nor marked: its claimer still holds that many shares of
\* that side, was paid one SOL for each, and trading is over; a claim at the
\* address of a trader is that trader's own.
ClaimHolds(a) ==
  LET claim == payout_claims[a]
  IN  /\ market_status = "Closed"
      /\ claim.winning_shares > 0
      /\ claim.winning_shares = tokens[<<claim.claimer, claim.share_type>>].quantity
      /\ claim.payout_amount = claim.winning_shares * LamportsPerSol
      /\ a \in Traders => claim.claimer = a
ClaimsHold ==
  \A a \in ClaimAddresses : payout_claims[a] # NoAccount => ClaimHolds(a)

\* Lamports move only into the wallet of a claimer, with a new claim on record
\* that names the amount, and the rest of the accounts together lose as much.
\* A record is never changed, removed or written twice.
Recorded(a) == payout_claims[a] # NoAccount
PaidFrom(payer, a) ==
  LET claim == payout_claims'[a]
  IN  /\ ~Recorded(a) /\ Recorded(a)'
      /\ tokens[<<claim.claimer, claim.share_type>>].quantity = claim.winning_shares
      /\ claim.share_type = winning_outcome
      /\ lamports'[claim.claimer] + lamports'[payer] =
           lamports[claim.claimer] + lamports[payer]
      /\ payer # claim.claimer =>
           lamports'[claim.claimer] = lamports[claim.claimer] + claim.payout_amount
      /\ \A w \in Wallets \ {payer, claim.claimer} : lamports'[w] = lamports[w]
EveryPaymentRecorded ==
  [][/\ \A a \in ClaimAddresses : Recorded(a) => payout_claims'[a] = payout_claims[a]
     /\ UNCHANGED lamports
        \/ \E payer \in Wallets, a \in ClaimAddresses : PaidFrom(payer, a)]_pvars

\* The escrow pays each trader once, whatever becomes of the outcome and of
\* the token: its lamports leave it only with the first claim of a trader.
EscrowPaysEachOnce ==
  [][lamports'[EventEscrow] # lamports[EventEscrow] =>
       \E b \in Traders : ~Recorded(b) /\ PaidFrom(EventEscrow, b)]_pvars

\* Nothing but the traders' own claims says what has left the escrow, and they
\* say it to the lamport: what the escrow holds, with one SOL for each share
\* claimed from it, is what it held, whatever the backend pays besides and
\* however often the outcome is overwritten between two claims.
OwnClaims(side) ==
  [b \in Traders |-> IF Recorded(b) /\ payout_claims[b].share_type = side
                        THEN payout_claims[b].winning_shares ELSE 0]
PaidShares(side) == SumFunction(OwnClaims(side))
PaidByEscrow == (PaidShares("Yes") + PaidShares("No")) * LamportsPerSol
EscrowAccounted ==
  [][lamports'[EventEscrow] + PaidByEscrow' =
       lamports[EventEscrow] + PaidByEscrow]_pvars

\* Claims cannot starve each other: when the escrow holds one SOL for each
\* share ever matched, everyone who holds winning shares, locked or not, and
\* keeps claiming is served, unless the event's status is overwritten.
MatchedShares == SumFunction([pair \in MatchedPairs |-> pair.quantity])
HoldsWinningShares(t) == tokens[t].quantity > 0 /\ winning_outcome = t[2]
EscrowFunded == lamports[EventEscrow] >= MatchedShares * LamportsPerSol
WinnersServed ==
  \A t \in Tokens :
    (Resolved /\ HoldsWinningShares(t) /\ EscrowFunded) ~>
      (Recorded(t[1]) \/ status # "Resolved")
-----------------------------------------------------------------------------
(***************************************************************************)
(* What the repository says of the program and the code does not do.       *)
(***************************************************************************)

\* SECONDARY_MARKET_ARCHITECTURE.md, "Payout not already claimed": the shares
\* of a token are paid for once.
ClaimsFor(t) ==
  {a \in ClaimAddresses : Recorded(a) /\ payout_claims[a].claimer = t[1]
                                      /\ payout_claims[a].share_type = t[2]}
PaidOnce == \A t \in Tokens : Cardinality(ClaimsFor(t)) <= 1

\* SECONDARY_MARKET_IMPLEMENTATION_GUIDE.md, "Winners paid": whoever holds
\* winning shares of a resolved event is paid, if paying is tried for long
\* enough.
WinnersPaid ==
  \A t \in Tokens : (status = "Resolved" /\ HoldsWinningShares(t)) ~> ClaimsFor(t) # {}
=============================================================================
