SPECIFICATION FairSpec
CONSTANTS
  Sessions = {s1}
  Plans = {starter, pro}
  Free = free
  Unmapped = {pro}
  MaxEvents = 2
  MaxFaults = 2
INVARIANTS RowIsNewestEvent EntitlementFollowsRow
PROPERTIES EventsLand EntitlementSettles
