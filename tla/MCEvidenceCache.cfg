SPECIFICATION FairSpec
CONSTANTS
  Procs = {p1, p2, p3}
  Crews <- AloneOrTwo
  Handlers = {h1}
  Actions = {a1, a2}
  Reads = {r1, r2}
  Asks <- AsksOf
  ReadsOf <- SharedRead
  Result <- Results
  NoRow = NoRow
  Free = Free
  None = None
  p1 = p1
  p2 = p2
  p3 = p3
  a1 = a1
  a2 = a2
  r1 = r1
  r2 = r2
INVARIANTS
  TypeOK
  OneWriter
  ReportedIsDurable
  ReplayReproduces
  FailureHasCause
PROPERTIES
  FirstWriteWins
  EveryGetReturns
