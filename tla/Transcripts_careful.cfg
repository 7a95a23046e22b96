SPECIFICATION TranscriptSpec
CONSTANTS
  Workers = {w1}
  MaxTurns = 6
  MaxPosts = 7
  Impatient = FALSE
  Builders = {host, operator}
INVARIANTS
  UniqueSequence
  Slots
  QuestionOffered
  TranscriptIsDialogue
PROPERTY ImplementsDialogue
CHECK_DEADLOCK FALSE
