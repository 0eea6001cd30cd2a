\* Parallel lanes of fa and a second request meet at fb.
CONSTANTS
  fa = fa  fb = fb  fc = fc  fd = fd  r1 = r1  r2 = r2  r3 = r3  h1 = h1
  Facts = {fa, fb, fc}
  Roots = {r1, r2}
  Helpers = {h1}
  RootFact <- OuterRoots
  Requests <- Twin
  Par = {fa}
  Absorbs = {}
  Requested = {fa, fb, fc}
  Cancellable = {r1, r2}
  Limit = 2
  PollOutlastsPass = FALSE
  MaxTasks = 8
SPECIFICATION Spec
INVARIANTS SingleFlight RecordsComplete OwnCancellation ContextRecording EdgesExact CyclesAreReal
PROPERTIES PublicationFinal ImplementsFactStore
