------------------------- MODULE MCSecondaryMarket -------------------------
(***************************************************************************)
(* Small instances of SecondaryMarket: the traders' orders matched once,   *)
(* so that one comes to hold YES and the other NO shares.                  *)
(***************************************************************************)
EXTENDS SecondaryMarket, TLC

CONSTANTS Yes, No  \* the buyers of the two sides

OnePair == {[yes_buyer |-> Yes, no_buyer |-> No, quantity |-> MaxPairQuantity]}

\* Ids are only addresses.
Symmetry == Permutations(OrderIds) \cup Permutations(BidIds)
=============================================================================
