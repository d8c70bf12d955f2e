SPECIFICATION Spec
CONSTANTS
  Procs = {p1, p2}
  MinHead = 2
  MaxBlock = 4
  Time <- MCTime
  Times = {1, 2, 4, 5, 6, 7, 10}
  Starts = {1, 4, 5}
  Ends = {6, 7}
  DatesOf <- MCDatesOf
  FirstCode = 2
  None = None
  Code = Code
SYMMETRY Symmetry
INVARIANTS
  RowsExact
  RunsAgree
  CeilingNeverRefuses
  DeployedInTime
  ReplaysOffline
PROPERTIES
  SearchHalves
