SPECIFICATION Spec
CONSTANTS
  None = None
  VaultsOf <- Vaults
  Comparisons <- SomeComparisons
  Usd = 2
  Around <- SomeTimes
  Values = {0, 1, 2}
  Proceeds = {1, 3}
INVARIANTS
  DatesNeverDrift
  PriceFound
  TextMatchesCsv
  BestIsHighest
