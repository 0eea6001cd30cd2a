\* A joining coordinator and two requests that wait for it share two slots.
CONSTANTS
  fa = fa  fb = fb  fc = fc  fd = fd  r1 = r1  r2 = r2  r3 = r3  h1 = h1
  Facts = {fa, fb, fc, fd}
  Roots = {r1, r2, r3}
  Helpers = {h1}
  RootFact <- CrowdRoots
  Requests <- Crowd
  Par = {fa}
  Absorbs = {}
  Requested = {}
  Cancellable = {}
  Limit = 2
  PollOutlastsPass = TRUE
  MaxTasks = 5
SPECIFICATION FairSpec
PROPERTIES AllReturn
