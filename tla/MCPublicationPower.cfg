SPECIFICATION Spec
CONSTANTS
  Processes = {p1, p2}
  Generations = {ga, gb}
  Paths = {xa, xb, xc}
  ga = ga
  gb = gb
  gc = gc
  xa = xa
  xb = xb
  xc = xc
  Files <- MCFiles
  Existing = {}
  Policies = {"replace"}
  Operations = {"publish", "read"}
  MaxOps = 4
  MaxLosses = 2
  None = None
  Absent = Absent
  Foreign = Foreign
SYMMETRY Symmetric
INVARIANTS
  CurrentSurvives
CHECK_DEADLOCK FALSE
