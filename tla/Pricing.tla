------------------------------ MODULE Pricing ------------------------------
(***************************************************************************)
(* The arithmetic of the program: the conversion of OPTA odds into share   *)
(* prices, the test of two orders' prices, and the platform fee.           *)
(*                                                                         *)
(* The scales are parameters so that TLC can use small ones.  In the code  *)
(* BasisPoints = 10000, LamportsPerSol = 10^9 and MaxU64 = 2^64 - 1; the   *)
(* only fact used about them is that a basis point of a SOL is a whole     *)
(* number of lamports (LamportsPerPoint).                                  *)
(***************************************************************************)
EXTENDS Integers

CONSTANTS
  BasisPoints,       \* how many basis points make 100%
  LamportsPerPoint,  \* lamports in one basis point of a SOL
  MaxFeePoints,      \* the largest platform fee, 500 basis points in the code
  MaxU64

ASSUME BasisPointsAssumption == BasisPoints \in Nat \ {0}
ASSUME LamportsPerPointAssumption == LamportsPerPoint \in Nat \ {0}
ASSUME MaxFeePointsAssumption == MaxFeePoints \in 0..BasisPoints
ASSUME WidthAssumption == MaxU64 \in Nat

LamportsPerSol == BasisPoints * LamportsPerPoint

(***************************************************************************)
(* checked_mul and checked_add return None, and the plain operators panic  *)
(* (overflow-checks = true), when the result leaves the width.  Either way *)
(* the transaction is rolled back, so a fit is a guard.                    *)
(***************************************************************************)
FitsU64(x) == x \in 0..MaxU64

(***************************************************************************)
(* Odds and prices.                                                        *)
(***************************************************************************)

\* For odds up to 100%: above, `10000 - yes_odds_bp` underflows on u32 and the
\* transaction aborts.
NormalizeOptaOdds(yesOdds) == [yes |-> yesOdds, no |-> BasisPoints - yesOdds]

\* create_event prices each side from its own odds ...
PriceOfOdds(odds) == (odds * LamportsPerSol) \div BasisPoints
EventPrices(yesOdds) ==
  LET odds == NormalizeOptaOdds(yesOdds)
  IN  [yes |-> PriceOfOdds(odds.yes), no |-> PriceOfOdds(odds.no)]

\* ... and calculate_share_prices takes what YES leaves of a SOL.
CalculateSharePrices(yesPoints) ==
  LET yesPrice == (yesPoints * LamportsPerSol) \div BasisPoints
  IN  [yes |-> yesPrice, no |-> LamportsPerSol - yesPrice]

\* Two orders match when their prices make one SOL: exactly, for utils.rs,
\* and within one percent, for match_orders.
CanMatchOrders(yesPrice, noPrice) == yesPrice + noPrice = LamportsPerSol
PriceSumAccepted(yesPrice, noPrice) ==
  LET tolerance == LamportsPerSol \div 100
  IN  /\ yesPrice + noPrice >= LamportsPerSol - tolerance
      /\ yesPrice + noPrice <= LamportsPerSol + tolerance

(***************************************************************************)
(* Fees.                                                                   *)
(***************************************************************************)
CalculateFee(amount, feePoints) == (amount * feePoints) \div BasisPoints
=============================================================================
