SPECIFICATION Spec
CONSTANTS
  Workers = {w1}
  MaxTurns = 2
  MaxPosts = 3
  Impatient = TRUE
INVARIANT AnswersCurrentQuestion
CHECK_DEADLOCK FALSE
