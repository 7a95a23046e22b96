SPECIFICATION FairSpec
CONSTANTS
  Tasks = {t1, t2}
  MaxTurns = 3
  ArcLength = 3
  Configured = {"gemini", "openai", "cartesia"}
INVARIANTS
  IndInv
  AnswerFollowsQuestion
  
PROPERTY InterviewsEnd
CHECK_DEADLOCK FALSE
