SPECIFICATION FairSpec
CONSTANTS
  Runners = {r1, r2}
  Handlers = {h1}
  Scopes = {s1}
  NoScope = noscope
  MaxJobs = 2
  Batches = 1
  MaxFaults = 1
  Broken = {2}
INVARIANTS OneActivePerScope
PROPERTIES EveryJobEnds
