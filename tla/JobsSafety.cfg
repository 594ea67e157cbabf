SPECIFICATION Spec
CONSTANTS
  Runners = {r1, r2}
  Handlers = {h1, h2}
  Scopes = {s1}
  NoScope = noscope
  MaxJobs = 1
  Batches = 2
  MaxFaults = 2
  Broken = {}
SYMMETRY Symmetry
INVARIANTS OnceUnlessLapsed ResultPaidAndReported CanceledOnlyOnRequest
PROPERTIES ImplementsContract NoFailureOverSuccess
