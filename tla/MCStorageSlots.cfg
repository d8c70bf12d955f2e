SPECIFICATION Spec
CONSTANTS
  Getters = {"balance", "claim"}
  Slots = {"a", "b", "c", "i"}
  Values = {0, 1}
  Hidden = {0, 1}
  Probe = 99
  None = None
  Layouts <- AllLayouts
  Plan <- SomePlan
  Masked = {"claim"}
INVARIANTS
  SlotsProven
  UnsupportedHasCause
PROPERTIES
  ImplementsSeeding
