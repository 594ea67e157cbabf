SPECIFICATION Spec
CONSTANTS
  Sessions = {s1, s2}
  Plans = {pro}
  Free = free
  Unmapped = {pro}
  MaxEvents = 2
  MaxFaults = 1
SYMMETRY Symmetry
INVARIANTS DuplicateOnlyIfSettled NothingForgotten
