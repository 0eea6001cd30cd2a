CONSTANTS
  tp = tp
  tq = tq
  tr = tr
  tc = tc
  Root = tp
  Tasks = {tp, tq, tr, tc}
  Main = Main
  None = None
  Owner <- CrowdOwner
  Joins <- CrowdJoins
  MaxStimuli = 1
  MaxDefers = 1
SPECIFICATION MCSpec
CHECK_DEADLOCK FALSE
INVARIANTS
  NeverAborts
  LinksExact
  NoLostWait
  OutcomeTruthful
  NothingMasked
PROPERTIES
  FamilyEnds
  RunSettles
