CONSTANTS
  Workers = {w1, w2, w3}
  Promoters = {m1}
  limit = 1
  MAX_INTERACTIVE_STREAK = 1
SPECIFICATION MCFairSpec
INVARIANTS CountersExact NoLostWakeup BoundedBypass
PROPERTIES OrdinaryNotStarved PromotionReachesQueue
