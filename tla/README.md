# Balr Market: a TLA+ model of the program

This directory specifies, model-checks and proves properties of the Solana
program in `programs/balrmarket`, an exchange for YES and NO shares of sporting
events. Every definition is a translation of the Rust source; `PROJECT.json`
maps each one to the lines it stands for.

## The system

One Anchor program with no state of its own: everything lives in accounts at
addresses derived from seeds (PDAs), and every transaction names the accounts
it works on. An instruction checks its accounts' constraints, then runs its
handler; a failing constraint, `require!`, checked operation, panic or transfer
rolls the whole transaction back.

| component | state | operations | modelled in |
|---|---|---|---|
| pricing and fees | none | odds to prices, the test of two prices, fees | `Pricing` |
| admin hierarchy | list of super admins | initialize, add, remove, close | `AdminHierarchy` |
| catalogue | global state, markets, events, order book accounts, `secondary_market` accounts | initialize global state; create, update, deactivate market; create, update, resolve, cancel event; end primary market; open and resolve secondary market | `Catalog` |
| primary market of an event | orders, escrows, matched pairs, share tokens, the event's counters, lamports | place, match, mint, process, cancel, refund, collect fees, phase changes | `PrimaryMarket` |
| secondary market of an event | listings, locks, bids, trade counters, price snapshot | list, bid, accept, cancel, batch settle, update snapshot, resolve | `SecondaryMarket` |
| payouts of an event | the outcome, payout claims, wallets and the escrow that pays | disburse winnings, claim payout, and both ways to resolve | `Payouts` |
| views, responses, dispatch, events, errors | none | read and copy | not modelled |
| user portfolio | a type that nothing uses | none | not modelled |
| client, scripts, migrations | off chain | deployment, demonstrations | not modelled |

How they interact. The admin hierarchy gates the catalogue. `create_event` fixes
the prices, the number of shares and the closing times that the primary market
then reads. The event's status, written by the catalogue's instructions, opens
and closes the primary market; `open_secondary_market` hands the event over to
the secondary market, `resolve_secondary_market` to the payouts. Share tokens
are made by the primary market, locked by the secondary one and read by the
payouts. Lamports flow from buyers to escrows and to the admin's wallet, from
escrows to buyers, and from the event account to a wallet.

What is hard about it:

- *Interleaving.* There are no locks: buyers, whoever submits matches, refunds
  and minting, and the admin act in any order. Most instructions ask for no
  particular signer.
- *Copies of one fact.* An order's quantity and total, its escrow's recorded
  amount and its lamports; the event's counters, the pairs, the tokens; the
  event's status, its times, and the `secondary_market` account. Different
  instructions update different subsets of them.
- *Reuse.* Order ids are chosen by clients and free again after a cancellation,
  when old matched pairs still name them. The hierarchy can be closed and begun
  anew while markets and events remember the earlier admins.
- *Status against clock.* `update_event` writes any status at any time; some
  guards look at the status, some at the clock.
- *Uniqueness by address.* Much of what protects the program is that `init` of
  an account fails if it exists, sometimes at an address chosen for something else.

What makes each part correct: escrows cover what their orders still need, and
pay out only for shares or back to the buyer; shares, pairs and tokens account
for each other; whoever wants out gets out (primary market). The list is never
empty, never doubled, and is who holds power (hierarchy). Ids, counters, times,
prices and the links between accounts agree in every phase (catalogue). No share
is promised twice and listings end (secondary market). A winning share is paid
once, from money that is there (payouts). `PROJECT.json` lists the hazards at
their lines and the properties that would catch each.

## Modules

**`Pricing`** holds the arithmetic. The scales are constants: in the program
100% is 10 000 basis points, a SOL 10^9 lamports, integers are 64 bits wide; the
instances use 20 basis points and 20 lamports. A checked operation that
overflows aborts the instruction (`overflow-checks = true` covers the plain
operators), so it appears as a guard (`FitsU64`). `calculate_share_prices` has no
caller in the program; it is there for the theorem that it agrees with
`create_event`.

**`PrimaryMarket`** is one event. Each action is one instruction, with every
constraint, requirement, write and transfer of it. Orders, escrows and pairs are
functions from their ids to the account, or to `NoAccount`; `cancel_order`
closes accounts, so that their ids are used again. The constants `OrderIds`,
`Buyers`, the odds, the fee, the number of shares and the times are what
`create_event` and the global state fixed. Lamports are counted above the rent
of the accounts. `now` moves by `Tick` up to `EndOfTime`. `UpdateEvent` writes
any of the statuses in `AdminStatuses`; `resolve_event` and `cancel_event`, which
write two of them under more conditions, are steps of it. Order ids are never
compared with anything, so they are model values with symmetry.

*External code.* The Solana runtime and its System program are modelled from the
way the handlers use them. `match_orders`, `refund_orders` and `collect_fees` take
lamports out of accounts that the program owns with `system_program::transfer`.
The constant `SystemMayDebitPDA` says whether that works. The handlers and their
tests take it for granted (`TRUE`); the System program refuses to debit accounts
with data that it does not own (`FALSE`), and then none of the three instructions
succeeds. Safety is checked with `TRUE`, where more can happen, and proved for
both. What `FALSE` leaves of the market is proved (`OnlyCancellationWorks`): orders
can be placed and cancelled, and no match, minting or refund ever succeeds.

**`Vault`** is what `PrimaryMarket` promises, in four actions: someone deposits a
stake in a slot, two owners of stakes buy pairs of shares at what a pair costs, a
stake is returned whole to its owner, or lamports arrive outside the vault. There
are no orders, escrow records, statuses, pairs or clock. `Custody` in
`PrimaryMarket` is the refinement mapping: a slot is an order id, its stake the
lamports of the escrow, its owner the order's buyer. `place_order` deposits,
`match_orders` sells, `cancel_order` and `refund_orders` return, `collect_fees` is
income, and the other instructions stutter.

**`AdminHierarchy`** is the list of super admins and its four instructions.

**`Catalog`** extends it with the accounts it governs. An event is what an
administrator sees: creator, status, outcome, times, prices, and whether it
refers to a secondary market. `order_books` is the set of event ids that have an
order book: `create_event` opens one at an address made of the event id alone.
`secondary_markets` likewise is indexed by the event id alone. Creating an event
in a market that any other super admin created is allowed, as in the code. The
match time passed to `create_market` is validated there and read by nobody, so it
is left out, as are names and questions.

**`SecondaryMarket`** is the trading in one event from the opening of its
secondary market on. Tokens, listings, locks and bids are functions from ids to
accounts; none of them is ever closed, so ids are used once. `MatchedPairs` are the
pairs left by the primary market, whose shares `MintShares` mints at any time, as
nothing in it looks at the event. The handlers compare prices with the range of
0 to 1 SOL and with nothing else, and move no lamports, so prices are left out.
`BatchSettleTrades` is what the code does: it checks the reported trades against
their ranges and counts them; the transfers, the unlocking and the new statuses are
comments, a disagreement with the documents that is listed below. What sold-out
listings and accepted bids become by settlement is therefore left open by the
properties: `LocksAgree` speaks of listings that are not Filled, and `TermsAreFinal`
lets an accepted bid become Settled.
`UpdateEvent` has no access to the `secondary_market` account, so the event's
status and `market_status` can part. Creating the account and the outcome that
resolution records are in `Catalog`.

**`OfferBook`** is what `SecondaryMarket` promises: an offer is made against one
holding of shares that backs no other offer, is sold bit by bit, or withdrawn for
good, and a closed book stays closed. There are no locks, bids, expiries or
statuses. `Book` in `SecondaryMarket` is the mapping: an offer is a listing with
its remaining quantity, a holding a share token. It says nothing of what becomes of
the shares that a bid was accepted for: the code moves none, and a withdrawn
listing's token backs a new offer with all its shares (`secondary_oversold`).

**`Payouts`** extends `SecondaryMarket`, so that trading, minting, status updates
and payouts of one event interleave. It adds the outcome, which two instructions
record (`resolve_secondary_market` closes the market, `resolve_event` does not), the
claim accounts, and the lamports of traders, backend and escrow. The address of a
claim is a claim id (`disburse_winnings`, any payer, any free id) or a trader
(`claim_payout`, paid by the escrow); `init` refuses an address in use. The outcome
may be left over from an earlier `resolve_event` when the market opens
(`PayoutInit`). Nothing in the program funds the escrow, so `EscrowFunds` is what
strangers may have sent there. A claim's id, status and time are read by nobody
and are left out.

Two assignments are written as functions and not with `EXCEPT`: the wallets in
`PlaceOrder` and the funds in `Deposit` of `Vault`. Buyer and fee collector may be one
account, and in `[f EXCEPT ![a] = @ - x, ![b] = @ + y]` with `a = b` the second `@`
is the value after the first update, which tlapm 1.4.5 reads as `f[b]`. Everywhere
else in the models the updated points differ, or the update is the same when it is made
once (`Settle` in `ProcessMatch`).

`MCPrimaryMarket`, `MCCatalog`, `MCSecondaryMarket` and `MCPayouts` are the
instances for TLC. Definitions named `Faulty...` are plausible mistakes in the definition they
precede. Nothing uses them; put in its place, each makes TLC refute a property, so
that the property is known to notice (`mutants` in `PROJECT.json`).

## What the runs show

Properties that hold:

| run | properties | instance |
|---|---|---|
| `primary_orders` | `EscrowSolvent`, `PairsAccountForShares`, `TokensCovered`, `TokensComeFromPairs`, `NoOrdersAfterPrimary`, `OrdersOnlyShrink`, `EscrowPaysForSharesOrReturns`, `ImplementsVault` | 2 buyers, 3 order ids, 4 shares, orders of 1 and 2, no fee, status updates to Active |
| `primary_soldout` | `TypeOK`, `SharesAccounted`, `MatchablePricesMakeOneSol` | 6 orders of 1 share for 2 shares |
| `primary_liveness` | `LamportsConserved`, `PendingOrdersSettle` | 2 order ids, a fee that rounds, an event account with a surplus (so that fees can be collected), status updates to Active and Resolved, fair cancellation |
| `secondary_trading` | `TypeOK`, `LocksAgree`, `ListingsAccounted`, `AcceptanceBounded`, `TermsAreFinal`, `ClosedMarketRests`, `ImplementsOfferBook` | 2 traders, one with 2 YES and one with 2 NO shares to be minted, 2 listings, 2 bids, listings that live 2 and bids that live 1 tick, status updates to SecondaryActive and Resolved |
| `catalog_lifecycle` | `TypeOK`, `EventIdsUnique`, `CountsAgree`, `HierarchySound`, `RolesFollowList`, `ReadyForPrimary`, `SecondaryLinked`, `OrphanedEventsOnlyResolve` | 2 markets, 2 event ids in all phases, 2 admins and a list of at most 2, odds inside and outside the range, 1 event per market at most, status updates to Active, PrimaryClosed and SecondaryActive at any time |
| `payouts_claims` | `PayoutTypeOK`, `ClaimsHold`, `EveryPaymentRecorded`, `EscrowPaysEachOnce`, `EscrowAccounted`, `WinnersServed` | 2 traders who each have a YES and a NO share to be minted, 1 listing, 1 bid, 1 claim id, an escrow with 1 or 2 SOL, a backend with 1, both ways to resolve at any time, status updates to SecondaryActive and Resolved, fair claims |

Disagreements between the code and what the repository says of it, each a run in
which TLC finds the counterexample (`findings` in `PROJECT.json` has the quotes):

| run | what the code does |
|---|---|
| `primary_refund_missed` | an order pending at the end of the primary market loses its refund when the event moves on to the secondary market; it can still be cancelled by its buyer |
| `primary_mint_twice` | a buyer's second matched pair of a side can never be minted |
| `secondary_oversold` | cancelling a partially filled listing frees its whole token; the owner lists the shares again and accepts bids for more than there are |
| `catalog_outcome` | a resolved event can be resolved again with the other outcome after a status update |
| `payouts_paid_twice` | the two paying instructions keep separate records and leave the token as it is; the same winning shares are paid for by both |
| `payouts_stuck` | `resolve_event` leaves the secondary market open; then it can neither be resolved nor pay, unless an admin writes SecondaryActive back |

More that the source shows without a run:

- Settlement settles nothing. `SECONDARY_MARKET_ARCHITECTURE.md` lets
  `batch_settle_trades` unlock the seller's token (:261, and :534, "Unlocked after
  settlement"), delete the lock (:274), and take the order from Filled and the bid from
  Accepted to Settled (:476-506); `SECONDARY_MARKET_IMPLEMENTATION_GUIDE.md:363` and :506
  say the same of token and lock. In the handler all of that is comments
  (`batch_settle_trades.rs:151-162`; :213 calls it simplified), only the two counters are
  written, and a listing's status type has no Settled. A Filled listing cannot be cancelled
  either (`cancel_secondary_order.rs:88`), so its seller's token stays locked for ever, the
  shares outside the listing included. The theorem `SettlementOnlyCounts` states it for
  every number of traders, listings, bids and batches.
- Refunds go through the System program (`refund_orders.rs:62`), which cannot debit
  the escrow, a program-owned account with data, although
  `test_refund_orders.ts:142` expects them to succeed; matches and fee collection
  pay the same way. The theorem `OnlyCancellationWorks` says what that means.
- `place_order.rs:86` tests the maximum per side against `minted_shares_{yes,no}`,
  which nothing increases (`match_orders.rs:163` counts elsewhere), so up to
  `max_shares_total` shares of each side are sold, twice the maximum of a side
  (`error.rs:80`, "Maximum shares exceeded").
- `create_event` asks for an hour's notice and the message of its error
  (`error.rs:32`) says 24; `LeadTime` is the hour.
- Odds of exactly 100% are accepted and leave NO shares without a price;
  `test_create_event.ts:500` expects them to fail.
- `place_order.rs:118` pays the fees to the admin's wallet and counts them in the
  event; `collect_fees.rs:54` then takes as much out of the event's account again,
  where `lib.rs:170` supposes that they accumulated. It succeeds only with lamports
  that are not fees (`EventSurplus`).
- When the creator of an event leaves the list no super admin can manage the event,
  although `admin_hierarchy.rs:6` gives super admins full control:
  `OrphanedEventsOnlyResolve` says what is left for such an event.

### Bounds, and why they are enough

Named in the modules: `EndOfTime`, `MaxOrderQuantity` (of an order or listing),
`MaxPairQuantity` (of a pair that is minted in `SecondaryMarket`), `MaxSharesTotal`,
`MaxSuperAdmins`, `MaxBatchTrades`, `MaxU64`, `MaxU8`, `AdminStatuses`, `ClaimIds`,
`BackendFunds`, `EscrowFunds`. Nothing else is cut.

- *Two buyers* are the least with which orders match (an order never matches one
  of the same buyer), and each can hold both sides.
- *Two order ids* give every interaction of two orders, and reuse of an id after
  a cancellation; *three* give a partially filled order that is matched a second
  time, and pairs whose orders are gone; *six* sell the event out with orders left.
- Orders of *1 and 2 shares* give full and partial fills. With 12 and 8 lamports
  the prices differ, so money paid to the wrong side shows.
- A *fee* of 1 in 20 is 0 for one share and 1 for two, so its rounding shows.
- *Time* 0, 1, 2 is before, between and after the closing time and the match.
- In the secondary market *two bids* fit a listing of 2 shares together or not, fill
  it partly or fully, or one of them is left when the listing is cancelled; *two
  listings* let a token be listed again. The clock runs from 1 to 4: a listing made
  at 1 expires at 3, a bid placed at 3 is accepted at 4, and snapshots can be late or
  early. Listings live longer than bids, as in the code (a day and an hour).
- In the catalogue two markets and two event ids are the least in which an id could
  be used twice and one market reaches its counter's limit while the other can still
  grow. Two admins fill the list; a third who is refused a place is a case of the
  proofs, which hold for any number. Active written over a later status runs
  the phases again, PrimaryClosed asks for a second secondary market, and
  SecondaryActive makes the status part from the account it stands for.
- In the payouts each trader can hold both sides, so that a claim for one side meets
  an outcome that is overwritten. An escrow of 1 SOL is too little for two claims, one
  of 2 is what all matched shares can win. One claim id is used up, which shows the
  refusal; paying twice needs no second one. The listing lets a payout meet a locked
  token.
- What these instances show of safety is proved without bounds below.

`MaxU64` stops `payout_pool`, which `process_match` can raise again and again, and
exercises the checked additions.

### Fairness

Safety runs assume none. No instruction is scheduled by the program: somebody has
to submit it, so fairness is a statement about users and is attached to the one
instruction a property is about.

- `FairSpec`: the buyer of an order that stays pending ends up cancelling (weak
  fairness of `CancelOrder`). Cancelling needs nobody else's help and its guard
  does not depend on the event, so once enabled it stays so until the order is
  settled, and weak fairness is enough.
- `RefundSpec`: somebody keeps submitting `refund_orders`, which needs no
  particular signer. It is strong fairness, as the status may come and go. Even so
  orders miss their refund (`primary_refund_missed`).
- `MintSpec`: somebody keeps submitting `mint_shares` for each pair; strong for the
  same reason. It makes the counterexample of `primary_mint_twice` mean that minting
  is impossible, not that nobody tried.
- `ClaimSpec`: whoever holds a token ends up calling `claim_payout` for it (weak
  fairness). It needs his own signature only, and with one SOL per matched share in
  the escrow nobody else's claim disables it, as each trader claims once.
- `DisburseSpec`: besides, the backend keeps paying and a super admin keeps trying to
  resolve the market (strong fairness, as the status comes and goes). It makes
  the counterexample of `payouts_stuck` mean that nobody can be paid, not that nobody
  tried.

## What is proved

`PricingProofs`, `SumLemmas`, `PrimaryMarketProofs`, `VaultProofs`,
`SecondaryMarketProofs`, `OfferBookProofs`, `PayoutsProofs` and `CatalogProofs` (which
also has the theorems on the admin hierarchy) hold theorems that TLAPS checks for all
values of the constants that satisfy the named assumptions: any number of buyers,
orders, admins, markets and events, any odds within range, any fee up to the maximum,
any scale and any width of integers. Every safety invariant, action property and
refinement that a run checks is the subject of one.

The sums over accounts ask for finitely many of them (`FiniteAssumption` of
`PrimaryMarket` and of `SecondaryMarket`, `PayoutFiniteAssumption`). Order ids and bid
ids are 64-bit integers, wallets are keys of 32 bytes, and pairs are what finitely many
transactions have made, so there are never more.

*Sums.* `SumFunctionOnSet` of the community modules is a fold, defined by recursion
over the subsets of a finite set, and the induction theorems of the library cannot be
instantiated. `SumLemmas` goes round: among the subsets of a finite set that refute a
fact there is a smallest (`MinimalSubset`, from the well-foundedness of strict
inclusion), which serves as induction. With it the fold is shown to count a set,
`Units`, with one element for each unit of each summand (`SumIsCount`), and the rest
follows from what is known of cardinalities: one or two summands change
(`SumUpdated`, `SumUpdatedTwice`), a summand is added (`SumExtended`), and one sum is
at most another when each summand has one of its own in the other that is as
large (`SumCovered`).

*Pricing.* The two prices of an event are rounded separately and still make one
SOL, because a basis point of a SOL is a whole number of lamports
(`LamportsPerPointAssumption`, the one fact about scales used). Fees stay within
the amount, and splitting saves at most a lamport.

*Primary market.* `EscrowSolvent` is what keeps subtraction within the naturals, so
types and solvency are proved together. The inductive invariant is
`TypeOK /\ EscrowSolvent /\ OrdersAtEventPrice /\ SharesAccounted /\
ClosedAfterStart /\ TokensComeFromPairs`. Two parts are strengthenings.
`OrdersAtEventPrice` (every order has the price of its side) turns the theorem on
prices into `MatchablePricesMakeOneSol`. `ClosedAfterStart` (the primary market is
recorded as closed only after the match began) makes `NoOrdersAfterPrimary`
inductive: the clock, and not the status, keeps orders out. The action properties
`OrdersOnlyShrink` and `EscrowPaysForSharesOrReturns` follow from the invariant
step by step. `OnlyCancellationWorks` assumes `~SystemMayDebitPDA`; its invariant
`NothingSettles` says that there are no pairs and every live order is pending.
`PendingOrdersCancellable` is the safety part of `PendingOrdersSettle`: solvency gives
`cancel_order` what it asks of the accounts, in every status.

*Sums of the primary market.* `LamportsAreConserved` goes through the instructions one by
one: each moves lamports between two or three entries of the wallets and the escrows, and
the sums follow from `SumUpdated` and `SumUpdatedTwice`; a match needs solvency, so that
each escrow has what is taken. The invariant `PairsAccountForShares` needs that every
order is for at most `MaxOrderQuantity` (`OrdersWithinLimit`), which bounds a pair.
`TokensCovered` compares the tokens with the shares sold. Its first half is inductive
together with the types (`TokensBalanced`). The second is not about steps at all: by
`TokensComeFromPairs` each token stands for a pair, two buyers of a side for two
different ones, so that `SumCovered` applies, and the pairs add up to the shares.

*The vault.* `MarketIsVault` is the refinement: initial states map to initial states,
and each action of `PrimaryMarket` maps to one of `Vault` or a stutter. The same
invariant serves: solvency makes an escrow's record its lamports, so that a
cancellation returns the whole stake; `OrdersAtEventPrice` makes what the two buyers
of a match pay add up to the pairs' cost; `SharesAccounted` bounds the shares sold.

*Secondary market.* The invariant is `TypeOK /\ LocksStand /\ AcceptanceBounded`.
`LocksStand` relates the three accounts of a listing: a token names a listing exactly
when that listing holds a lock on it which is not released. Cancelling passes a
token of the seller's and not the listing's own, and it is the invariant that makes
the two the same. It strengthens `LocksAgree`, which exempts sold-out listings because
settlement is meant to free their tokens; as the code never does, the exemption is not
inductive by itself. `SettlementOnlyCounts` is what that amounts to.
`AcceptanceBounded` needs that listings keep seller and expiry (`ListingsKept`).
`TermsAreFinal` and `ClosedMarketRests` follow from guards and types: a step leaves
listings that are over and accepted bids alone (`SettledListing`, `SettledBid`), and new
bids and acceptances are for open listings (`NewBid`, `NewAcceptance`).
`ListingsAccounted` needs two strengthenings. Every listing and every bid is for at least
one share (`QuantitiesPositive`): otherwise an accepted bid could leave a listing without
sales PartiallyFilled. And no bid names a listing that is not there, which is part of
`AcceptanceBounded`: otherwise a new listing could have sales already. Accepting a bid
adds one summand (`SumExtended`) to one listing's sales.

*The book of offers.* `MarketIsOfferBook` is the refinement. It needs one fact more,
`SoldOutIsFilled` (a listing has nothing left exactly when it is Filled), since the
code decides by status whether a listing can be sold or withdrawn and the book by what
is left. That a token backs one offer at a time is
`LocksStand`.

*Payouts.* `PayoutsTrade` shows that `Payouts` only adds to `SecondaryMarket`, so what
is proved of trading holds with payouts. `ClaimsHold` is inductive together with the
types: a recorded claim implies a closed market and a minted token, and minting needs
an absent one. `EveryPaymentRecorded` and `EscrowPaysEachOnce` follow step by step, and
so does `EscrowAccounted`: a claim from the escrow changes one summand of one side, and a
payment of the backend is recorded at no trader's address.
What all claims can draw is bounded in `EscrowPaysMatchedShares`. The shares of a token are
those of a pair that its owner was matched in (`SharesFromPairs`), a trader's claim names
the shares of his token (`ClaimsHold`), so that the claims for one side are covered by
pairs. Both sides can be claimed if the outcome is overwritten, hence two SOL for each
matched share bound what leaves the escrow, and one SOL does not.
`ClaimsDoNotStarve` is the safety part of `WinnersServed`. That the escrow is funded
(`EscrowFunded`) does not last, as claims are paid; `EscrowCovers`, that its lamports with
what was claimed for the standing outcome amount to one SOL for each matched share, follows
from it and lasts as long as the status stays Resolved. While it holds, a holder of winning
shares who has not claimed finds his payout in the escrow, since his shares and all that
were claimed come from different pairs. (Besides, the payout has to fit in 64 bits.)

*Admin hierarchy.* `HierarchySound` is inductive: absence of duplicates is what
makes removing the first entry remove the role, hence `RolesFollowList`.

*Catalogue.* `CatalogInv` is `HierarchySound /\ TypeOK /\ EventIdsUnique /\
ReadyForPrimary /\ SecondaryLinked`. `SecondaryLinked` needs `EventIdsUnique`, since
the secondary market's address names no market, and that in turn rests on the order
book. `OrphanedEventsOnlyResolve` follows from the guards and the invariant.
`CountsAgree` is inductive with the sets of events being finite (`FinitelyManyEvents`),
which they are because every action creates one event at most, and with the global state
coming before any market (`GlobalStateFirst`).

*Model-checked only.* The two liveness properties, `PendingOrdersSettle` and
`WinnersServed`: liveness under fairness needs `ENABLED`, which is beyond the prover.
Their safety parts are proved, as said above. The violations are counterexamples, for
which a small instance is enough.

## What is not modelled

- Prices and quotes of the secondary market, and who signs a batch or a snapshot.
- The payout's claim id, status and timestamp, which nothing reads.
- Rent, account sizes, serialization, compute limits and transaction fees.
- Lamports sent to an escrow by strangers; for the event account they are
  `EventSurplus`.
- The seeds as byte strings: two different pairs of market and event id whose
  concatenations coincide would share an address. Ids are model values here.
- Views, responses, log events, error codes, `lib.rs` (it passes calls on), the
  client, scripts and migrations.
- Helpers of `utils.rs` without a caller or a state: `validate_*`,
  `is_*_market_active`, `calculate_market_price`, `calculate_total_cost`,
  `calculate_payout`, `generate_order_id`.
- `global_state.is_paused`, which is FALSE for ever: no instruction writes it.

## Plan

Done, in this order: `Pricing`, `PrimaryMarket`, `AdminHierarchy`, `Catalog`,
`SecondaryMarket`, the abstract specifications `Vault` and `OfferBook` with their
refinements, `Payouts`, and the proofs of each.

1. `Lifecycle`: one event from its first order to its last payout, composed of the
   modules above, with the conservation of lamports across them and the liveness of
   resolution.
2. What all claims of an event can draw (`EscrowPaysMatchedShares`) against the stakes
   that matching paid out, which needs the lamports of both modules in one.
