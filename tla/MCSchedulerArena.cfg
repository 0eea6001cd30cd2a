\* Three rows of which two are reused, two lanes, one slot, two generations.
CONSTANTS
  Tasks = {ta}
  Lanes = {la, lb}
  limit = 1
  MaxIndex = 3
  MaxGeneration = 2
  ReusedRows = 2
  None = None
SPECIFICATION MCSpec
INVARIANTS NeverAborts ListsPartition TurnsBounded
PROPERTIES ImplementsDomain
CHECK_DEADLOCK FALSE
