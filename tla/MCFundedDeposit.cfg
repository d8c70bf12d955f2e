SPECIFICATION Spec
CONSTANTS
  MaxBudget = 12
  MaxGas = 18
  PrefixGas = {0, 3}
  MaxTxs = 1
  GasPrice = 1
  TokenPrice = 2
  BitLength <- MCBitLength
INVARIANTS
  GivesUpOnlyOnRisingGas
PROPERTIES
  ImplementsGasFunding
