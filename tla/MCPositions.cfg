SPECIFICATION Spec
CONSTANTS
  Unit = 2
  None = None
  Tokens <- AllTokens
  ETH = "ETH"
  WETH = "WETH"
  Preferred <- Coins
  Strategies <- Catalog
  Ends = {"ETH", "USDC", "CRV"}
  Blocks <- SomeBlocks
  Vaults <- SomeVaults
  Amounts = {2, 3}
  Claims <- SomeClaims
  Pays = {0, 1, 2, 3}
  MaxTxs = 2
  Funds = 60
  Worth <- UnitWorth
INVARIANTS
  WalletAccounted
PROPERTIES
  NoFreeShares
