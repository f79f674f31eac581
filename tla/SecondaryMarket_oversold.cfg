SPECIFICATION Spec
CONSTANTS
  Traders = {alice, bob}
  OrderIds = {o1, o2}
  BidIds = {b1, b2}
  NoAccount = NoAccount
  NoOrder = NoOrder
  Yes = alice
  No = bob
  MatchedPairs <- OnePair
  MaxOrderQuantity = 2
  MaxPairQuantity = 2
  OrderExpiry = 2
  BidExpiry = 1
  SnapshotInterval = 2
  MaxBatchTrades = 1
  MaxU64 = 1
  OpenedAt = 1
  EventStartTime = 3
  EndOfTime = 4
  AdminStatuses = {"SecondaryActive", "Resolved"}
SYMMETRY Symmetry
INVARIANT NoDoubleSale
