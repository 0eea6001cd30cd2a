\* Up to three workers, two lanes, two tasks, one slot, one timer.
CONSTANTS
  w1 = w1
  w2 = w2
  w3 = w3
  la = la
  lb = lb
  ta = ta
  tb = tb
  Tasks = {ta, tb}
  Lanes = {la, lb}
  limit = 1
  MaxIndex = 2
  MaxGeneration = 2
  None = None
  Workers = {w1, w2, w3}
  Serves <- ServedLanes
  MaxTimers = 1
  MaxTime = 1
  MaxStimuli = 3
  MaxAdmissions = 3
SPECIFICATION MCFairSpec
INVARIANTS NoLostWakeup CountsExact DispatchBound WakesKept
PROPERTIES Settles
CHECK_DEADLOCK FALSE
