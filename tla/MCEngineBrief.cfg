SPECIFICATION Spec
CONSTANTS
  Comparisons <- Brief
  Holdings <- TwoHoldings
  Rewarded = {"gauge"}
  Tokens = {"crv", "other"}
  Coin = "crv"
  Final = 3
  EntryShares = {5}
  MaxGas = 1
  MaxDust = 0
  None = None
INVARIANTS
  RemovedRewardsVisible
