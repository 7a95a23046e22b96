SPECIFICATION FairTranscriptSpec
CONSTANTS
  Workers = {w1, w2}
  MaxTurns = 3
  MaxPosts = 4
  Impatient = TRUE
  Builders = {host, operator}
INVARIANTS
  TranscriptInv
  QuestionsInOrder
  HeardNotFromTheFuture
  HiddenByTwinOnly
  OnlyUnheardMissing
PROPERTY HostEnds
CHECK_DEADLOCK FALSE
