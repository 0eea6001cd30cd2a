\* A cycle of three facts met by two threads.
CONSTANTS
  fa = fa  fb = fb  fc = fc  fd = fd  r1 = r1  r2 = r2  r3 = r3  h1 = h1
  Facts = {fa, fb, fc}
  Roots = {r1, r2}
  Helpers = {}
  RootFact <- RingRoots
  Requests <- Ring
  Par = {}
  Absorbs = {}
  Requested = {}
  Cancellable = {r1, r2}
  Limit = 2
  PollOutlastsPass = FALSE
  MaxTasks = 6
SPECIFICATION Spec
INVARIANTS NoThreadDeadlock
