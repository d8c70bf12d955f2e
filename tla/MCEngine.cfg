SPECIFICATION Spec
CONSTANTS
  Comparisons <- TwoComparisons
  Holdings <- TwoHoldings
  Rewarded = {"gauge"}
  Tokens = {"crv", "other"}
  Coin = "crv"
  Final = 3
  EntryShares = {5}
  MaxGas = 1
  MaxDust = 1
  None = None
INVARIANTS
  TypeOK
  OneRowEach
  LossIsFinal
  RemovedRewardsVisible
  EveryMonthAttempted
PROPERTIES
  ImplementsContinuousPosition
