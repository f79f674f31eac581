SPECIFICATION ClaimSpec
CONSTANTS
  Traders = {alice, bob}
  A = alice
  B = bob
  OrderIds = {o1}
  BidIds = {b1}
  ClaimIds = {c1}
  NoAccount = NoAccount
  NoOrder = NoOrder
  MatchedPairs <- BothWays
  MaxOrderQuantity = 1
  MaxPairQuantity = 1
  OrderExpiry = 1
  BidExpiry = 1
  SnapshotInterval = 1
  MaxBatchTrades = 1
  MaxU64 = 1
  OpenedAt = 1
  EventStartTime = 2
  EndOfTime = 2
  AdminStatuses = {"SecondaryActive", "Resolved"}
  Backend = Backend
  EventEscrow = EventEscrow
  LamportsPerSol = 1
  BackendFunds = 1
  EscrowFunds = {1, 2}
INVARIANTS
  PayoutTypeOK
  ClaimsHold
PROPERTIES
  EveryPaymentRecorded
  EscrowPaysEachOnce
  EscrowAccounted
  WinnersServed
