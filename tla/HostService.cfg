SPECIFICATION FairSpec
CONSTANTS
  Agents = {a1, a2}
  Interviews = {i1, i2}
  MaxFaults = 1
INVARIANTS
  IndInv
  CompletedHasEpisode
  ArchivedIsCompleted
  OrphansAreFaulted
PROPERTIES
  CompletedStays
  QueuedIsServed
  ClaimedEnds
  CompletedIsPublished
CHECK_DEADLOCK FALSE
