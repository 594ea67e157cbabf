SPECIFICATION FairSpec
CONSTANTS
  Posted = {s1}
  Captured = {p1, p2, p3}
  Malformed = {p3}
  Workers = {w1}
  Handlers = {h1}
  Processes = {q1, q2}
  Batch = 2
  Caps = {1, 4}
  MaxOdd = 1
  Threads = {t1, t2}
  Cooldown = 2
  MaxTime = 5
  Sessions = {t1, t2}
  Early = {0, 2}
  MaxStored = 1
  Days <- MCDays
  Times = {0, 1}
  Clock <- MCClock
  MaxPeriods = 3
  Threshold = 5
  MaxPosts = 3
  None = None
INVARIANTS TypeOK Accounted Bounded
PROPERTIES Drains ClosesByProbe Recovers
CHECK_DEADLOCK FALSE
