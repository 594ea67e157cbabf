SPECIFICATION FairSpec
CONSTANTS
  a1 = a1
  a2 = a2
  Agents = {a1, a2}
  NoAgent = none
  MaxJobs = 2
  MaxOdd = 1
INVARIANTS AnnouncedOnce FiledUnderAgent CancelOnlyAsked
PROPERTIES LetGoOnlyWhenOver AskedIsSent RunEnds
