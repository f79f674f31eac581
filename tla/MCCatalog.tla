----------------------------- MODULE MCCatalog -----------------------------
(***************************************************************************)
(* Small instances of Catalog.  An hour's lead is 2 ticks, the primary     *)
(* market closes 1 tick before the match, and 100% is 20 basis points.     *)
(***************************************************************************)
EXTENDS Catalog

\* Admins, markets and events are only addresses.
Symmetry ==
  Permutations(Admins) \cup Permutations(MarketIds) \cup Permutations(EventIds)
=============================================================================
