----------------------------- MODULE MCPayouts -----------------------------
(***************************************************************************)
(* Small instances of Payouts: two traders whose orders matched twice, so  *)
(* that each of them comes to hold shares of both sides.                   *)
(***************************************************************************)
EXTENDS Payouts

CONSTANTS A, B  \* the two traders

BothWays == {[yes_buyer |-> A, no_buyer |-> B, quantity |-> 1],
             [yes_buyer |-> B, no_buyer |-> A, quantity |-> 1]}
=============================================================================
