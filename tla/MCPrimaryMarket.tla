-------------------------- MODULE MCPrimaryMarket --------------------------
(***************************************************************************)
(* Small instances of PrimaryMarket.  A SOL is 20 lamports and 100% is 20  *)
(* basis points; odds of 12 give shares of 12 and 8 lamports, and a fee of *)
(* one point is rounded: 0 for one share, 1 for two.                       *)
(***************************************************************************)
EXTENDS PrimaryMarket, TLC

CONSTANTS Funds  \* what each buyer starts with

SameFunds == [b \in Buyers |-> Funds]

\* Order ids are only addresses and the buyers start alike.
Symmetry == Permutations(OrderIds) \cup Permutations(Buyers)
=============================================================================
