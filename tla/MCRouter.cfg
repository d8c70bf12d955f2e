SPECIFICATION Spec
CONSTANTS
  Tokens <- AllTokens
  ETH = "ETH"
  WETH = "WETH"
  Vias = {"WETH", "CRV"}
  Hops <- AllHops
  Venues <- AllVenues
  UniswapRouter = "router"
  Targets = {"ETH", "yCRV"}
  Claims <- SomeClaims
  Ways <- SomeWays
  Yield <- Pays
  Gas <- GasUse
  GasPrice = 1
  Worth <- UnitWorth
  Funds = 40
  None = None
INVARIANTS
  TypeOK
  TransactionsMatch
PROPERTIES
  ExecutedAsQuoted
  ImplementsRewardSettlement
