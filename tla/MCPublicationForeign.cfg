SPECIFICATION Spec
CONSTANTS
  Processes = {p1, p2}
  Generations = {ga, gb}
  Paths = {xa, xb, xc}
  ga = ga
  gb = gb
  gc = gc
  xa = xa
  xb = xb
  xc = xc
  Files <- MCFiles
  Existing = {xa}
  Policies = {"replace", "absent"}
  Operations = {"publish", "read"}
  MaxOps = 3
  MaxLosses = 0
  None = None
  Absent = Absent
  Foreign = Foreign
SYMMETRY Symmetric
INVARIANTS
  RecoveryRemovesOwn
CHECK_DEADLOCK FALSE
