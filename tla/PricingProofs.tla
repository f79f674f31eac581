--------------------------- MODULE PricingProofs ---------------------------
(***************************************************************************)
(* What the arithmetic of Pricing guarantees for every value of the        *)
(* constants and of the inputs.                                            *)
(***************************************************************************)
EXTENDS Pricing, TLAPS

\* Euclid's division, in the form the lemmas below use it: the quotient is
\* the only number whose multiple is at most x and within d of it.
LEMMA DivisionUnique ==
  ASSUME NEW x \in Int, NEW d \in Nat \ {0}, NEW q \in Int,
         d * q <= x, x < d * q + d
  PROVE  x \div d = q
<1> DEFINE r == x \div d
<1>1. r \in Int /\ d * r <= x /\ x < d * r + d
  BY Z3
<1>2. CASE r < q
  <2>1. d * (r + 1) <= d * q
    BY <1>1, <1>2, Z3
  <2> QED  BY <1>1, <2>1, Z3
<1>3. CASE r > q
  <2>1. d * (q + 1) <= d * r
    BY <1>1, <1>3, Z3
  <2> QED  BY <1>1, <2>1, Z3
<1> QED  BY <1>1, <1>2, <1>3

\* A SOL is a positive number of lamports.
LEMMA LamportsPerSolType == LamportsPerSol \in Nat \ {0}
BY BasisPointsAssumption, LamportsPerPointAssumption, Z3 DEF LamportsPerSol

\* Dividing by the 10000 basis points loses nothing: 10^9 is a multiple.
LEMMA PriceIsExact ==
  ASSUME NEW odds \in Nat
  PROVE  PriceOfOdds(odds) = odds * LamportsPerPoint
<1> DEFINE p == odds * LamportsPerPoint
<1>1. p \in Nat /\ BasisPoints \in Nat \ {0} /\ LamportsPerPoint \in Nat
  BY BasisPointsAssumption, LamportsPerPointAssumption, Z3
<1>2. odds * LamportsPerSol = BasisPoints * p
  BY <1>1, Z3 DEF LamportsPerSol
<1>3. BasisPoints * p \in Int
  BY <1>1, Z3
<1>4. (BasisPoints * p) \div BasisPoints = p
  <2> HIDE DEF p
  <2>1. BasisPoints * p < BasisPoints * p + BasisPoints
    BY <1>1, <1>3, Z3
  <2> QED  BY <1>1, <1>3, <2>1, DivisionUnique
<1> QED  BY <1>2, <1>4 DEF PriceOfOdds

\* create_event's two prices make exactly one SOL for every odds it accepts,
\* although each is rounded down on its own.
THEOREM EventPricesMakeOneSol ==
  ASSUME NEW yesOdds \in 0..BasisPoints
  PROVE  /\ EventPrices(yesOdds).yes \in Nat
         /\ EventPrices(yesOdds).no \in Nat
         /\ CanMatchOrders(EventPrices(yesOdds).yes, EventPrices(yesOdds).no)
<1> DEFINE noOdds == BasisPoints - yesOdds
<1>1. yesOdds \in Nat /\ noOdds \in Nat
  BY BasisPointsAssumption
<1>2. /\ EventPrices(yesOdds).yes = yesOdds * LamportsPerPoint
      /\ EventPrices(yesOdds).no = noOdds * LamportsPerPoint
  BY <1>1, PriceIsExact DEF EventPrices, NormalizeOptaOdds
<1>3. yesOdds * LamportsPerPoint + noOdds * LamportsPerPoint = LamportsPerSol
  BY <1>1, BasisPointsAssumption, LamportsPerPointAssumption, Z3 DEF LamportsPerSol
<1>4. yesOdds * LamportsPerPoint \in Nat /\ noOdds * LamportsPerPoint \in Nat
  BY <1>1, LamportsPerPointAssumption, Z3
<1> QED  BY <1>2, <1>3, <1>4 DEF CanMatchOrders

\* create_event and utils::calculate_share_prices compute the same prices.
THEOREM PriceComputationsAgree ==
  ASSUME NEW yesOdds \in 0..BasisPoints
  PROVE  CalculateSharePrices(yesOdds) = EventPrices(yesOdds)
<1> DEFINE noOdds == BasisPoints - yesOdds
<1>1. yesOdds \in Nat /\ noOdds \in Nat
  BY BasisPointsAssumption
<1>2. EventPrices(yesOdds) =
        [yes |-> yesOdds * LamportsPerPoint, no |-> noOdds * LamportsPerPoint]
  BY <1>1, PriceIsExact DEF EventPrices, NormalizeOptaOdds
<1>3. CalculateSharePrices(yesOdds) =
        [yes |-> yesOdds * LamportsPerPoint,
         no  |-> LamportsPerSol - yesOdds * LamportsPerPoint]
  BY <1>1, PriceIsExact DEF CalculateSharePrices, PriceOfOdds
<1>4. noOdds * LamportsPerPoint = LamportsPerSol - yesOdds * LamportsPerPoint
  BY <1>1, BasisPointsAssumption, LamportsPerPointAssumption, Z3 DEF LamportsPerSol
<1> QED  BY <1>2, <1>3, <1>4

\* Two orders whose prices make one SOL are accepted by match_orders.
LEMMA ExactSumAccepted ==
  ASSUME NEW y \in Nat, NEW n \in Nat, CanMatchOrders(y, n)
  PROVE  PriceSumAccepted(y, n)
<1>1. LamportsPerSol \div 100 \in Nat
  BY LamportsPerSolType, Z3
<1> QED
  BY <1>1, LamportsPerSolType DEF CanMatchOrders, PriceSumAccepted

\* The platform fee is a whole number of lamports that never exceeds the
\* amount it is taken on.
THEOREM FeeWithinAmount ==
  ASSUME NEW amount \in Nat, NEW feePoints \in 0..MaxFeePoints
  PROVE  CalculateFee(amount, feePoints) \in 0..amount
<1>1. feePoints \in Nat /\ feePoints <= BasisPoints /\ BasisPoints \in Nat \ {0}
  BY BasisPointsAssumption, MaxFeePointsAssumption
<1> DEFINE x == amount * feePoints
           fee == x \div BasisPoints
<1>2. x \in Nat /\ x <= amount * BasisPoints
  BY <1>1, Z3
<1>3. fee \in Int /\ BasisPoints * fee <= x /\ x < BasisPoints * fee + BasisPoints
  BY <1>1, <1>2, Z3
<1>4. fee >= 0
  BY <1>1, <1>2, <1>3, Z3
<1>5. fee <= amount
  <2> SUFFICES ASSUME fee >= amount + 1  PROVE FALSE
    BY <1>3, Z3
  <2>1. BasisPoints * fee >= BasisPoints * (amount + 1)
    BY <1>1, <1>3, Z3
  <2> QED  BY <1>1, <1>2, <1>3, <2>1, Z3
<1> QED  BY <1>3, <1>4, <1>5, Z3 DEF CalculateFee

\* Splitting an amount into two orders never raises the platform fee, and saves
\* one lamport at most, at any rate that the program can have.
THEOREM FeeOfParts ==
  ASSUME NEW a \in Nat, NEW b \in Nat, NEW feePoints \in 0..MaxFeePoints
  PROVE  /\ CalculateFee(a, feePoints) + CalculateFee(b, feePoints)
              <= CalculateFee(a + b, feePoints)
         /\ CalculateFee(a + b, feePoints)
              <= CalculateFee(a, feePoints) + CalculateFee(b, feePoints) + 1
<1>1. feePoints \in Nat /\ BasisPoints \in Nat \ {0}
  BY BasisPointsAssumption, MaxFeePointsAssumption
<1> DEFINE x == a * feePoints
           y == b * feePoints
           p == x \div BasisPoints
           q == y \div BasisPoints
           r == (x + y) \div BasisPoints
<1>2. x \in Nat /\ y \in Nat /\ (a + b) * feePoints = x + y
  BY <1>1, Z3
<1> HIDE DEF x, y
<1>3. p \in Int /\ BasisPoints * p <= x /\ x < BasisPoints * p + BasisPoints
  BY <1>1, <1>2, Z3
<1>4. q \in Int /\ BasisPoints * q <= y /\ y < BasisPoints * q + BasisPoints
  BY <1>1, <1>2, Z3
<1> HIDE DEF p, q
<1>5. x + y \in Nat /\ r \in Int
      /\ BasisPoints * r <= x + y /\ x + y < BasisPoints * r + BasisPoints
  BY <1>1, <1>2, Z3
<1> HIDE DEF r
<1>6. p + q <= r
  <2> SUFFICES ASSUME r + 1 <= p + q  PROVE FALSE
    BY <1>3, <1>4, <1>5, Z3
  <2>1. BasisPoints * r + BasisPoints <= BasisPoints * p + BasisPoints * q
    BY <1>1, <1>3, <1>4, <1>5, Z3
  <2> QED  BY <1>1, <1>2, <1>3, <1>4, <1>5, <2>1, Z3
<1>7. r <= p + q + 1
  <2> SUFFICES ASSUME p + q + 2 <= r  PROVE FALSE
    BY <1>3, <1>4, <1>5, Z3
  <2>1. BasisPoints * p + BasisPoints * q + 2 * BasisPoints <= BasisPoints * r
    BY <1>1, <1>3, <1>4, <1>5, Z3
  <2> QED  BY <1>1, <1>2, <1>3, <1>4, <1>5, <2>1, Z3
<1> QED  BY <1>2, <1>6, <1>7 DEF CalculateFee, p, q, r, x, y
=============================================================================
