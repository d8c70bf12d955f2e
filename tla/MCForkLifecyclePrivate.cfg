SPECIFICATION LifecycleSpec
CONSTANTS
  Processes = {p1, p2}
  Ports = {8000, 8001}
  Blocks = {b1, b2}
  Nothing = Nothing
INVARIANTS
  ForkIsPrivate
