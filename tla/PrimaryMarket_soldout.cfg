SPECIFICATION Spec
CONSTANTS
  BasisPoints = 20
  LamportsPerPoint = 1
  MaxFeePoints = 1
  MaxU64 = 20
  Buyers = {alice, bob}
  Funds = 24
  AdminWallet = AdminWallet
  OrderIds = {o1, o2, o3, o4, o5, o6}
  NoAccount = NoAccount
  MaxSharesTotal = 2
  OptaOddsYes = 12
  PlatformFeePrimary = 0
  MaxOrderQuantity = 1
  PrimaryMarketClose = 1
  EventStartTime = 2
  EndOfTime = 0
  AdminStatuses = {"Active"}
  InitialFunds <- SameFunds
  EventSurplus = {0}
  SystemMayDebitPDA = TRUE
SYMMETRY Symmetry
INVARIANTS
  TypeOK
  SharesAccounted
  MatchablePricesMakeOneSol
