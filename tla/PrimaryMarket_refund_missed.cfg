SPECIFICATION RefundSpec
CONSTANTS
  BasisPoints = 20
  LamportsPerPoint = 1
  MaxFeePoints = 1
  MaxU64 = 24
  Buyers = {alice, bob}
  Funds = 25
  AdminWallet = AdminWallet
  OrderIds = {o1, o2}
  NoAccount = NoAccount
  MaxSharesTotal = 4
  OptaOddsYes = 12
  PlatformFeePrimary = 0
  MaxOrderQuantity = 2
  PrimaryMarketClose = 1
  EventStartTime = 2
  EndOfTime = 2
  AdminStatuses = {"Active"}
  InitialFunds <- SameFunds
  EventSurplus = {0}
  SystemMayDebitPDA = TRUE
PROPERTY UnmatchedOrdersRefunded
