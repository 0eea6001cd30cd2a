\* Lanes and a cycle of facts, every request cancelled.
CONSTANTS
  fa = fa  fb = fb  fc = fc  fd = fd  r1 = r1  r2 = r2  r3 = r3  h1 = h1
  Facts = {fa, fb, fc}
  Roots = {r1, r2}
  Helpers = {h1}
  RootFact <- OuterRoots
  Requests <- Loop
  Par = {fa}
  Absorbs = {}
  Requested = {fa, fb, fc}
  Cancellable = {r1, r2}
  Limit = 3
  PollOutlastsPass = FALSE
  MaxTasks = 8
SPECIFICATION Spec
INVARIANTS NoRecursivePanic
