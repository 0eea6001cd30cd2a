\* Two facts that need each other, one of which absorbs a failed request.
CONSTANTS
  fa = fa  fb = fb  fc = fc  fd = fd  r1 = r1  r2 = r2  r3 = r3  h1 = h1
  Facts = {fa, fb}
  Roots = {r1, r2}
  Helpers = {}
  RootFact <- OuterRoots
  Requests <- Mutual
  Par = {}
  Absorbs = {fa}
  Requested = {fa, fb}
  Cancellable = {r1, r2}
  Limit = 2
  PollOutlastsPass = TRUE
  MaxTasks = 5
SPECIFICATION FairSpec
INVARIANTS NoRecursiveInterest NoThreadDeadlock WaitGraphAcyclic
PROPERTIES AllReturn
