SPECIFICATION FairSpec
CONSTANTS
  Processes = {p1, p2}
  Generations = {ga, gb, gc}
  Paths = {xa, xb, xc}
  ga = ga
  gb = gb
  gc = gc
  xa = xa
  xb = xb
  xc = xc
  Files <- MCFiles
  Existing = {xa}
  Policies = {"replace", "absent"}
  Operations = {"publish", "read", "retain", "clean"}
  MaxOps = 3
  MaxLosses = 0
  None = None
  Absent = Absent
  Foreign = Foreign
INVARIANTS
  NeededKept
  CurrentVisible
  NothingUncommitted
PROPERTIES
  ImplementsCommittedProduct
  OperationsEnd
CHECK_DEADLOCK FALSE
