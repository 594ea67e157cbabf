SPECIFICATION FairSpec
CONSTANTS
  left = left
  right = right
  r1 = r1
  r2 = r2
  r3 = r3
  Tabs = {left, right}
  Requests = {r1, r2, r3}
  TabOf <- TwoAndOne
  MaxSends = 3
  MaxOdd = 2
INVARIANTS TypeOK OneLiveToken JarCurrent ForcedForCause BackByFlight
PROPERTIES RequestsEnd
CHECK_DEADLOCK FALSE
