SPECIFICATION FairSpec
CONSTANTS
  Keys = {k1}
  Bodies = {b1, b2}
  Requests = {r1, r2, r3}
  Nobody = nobody
  MaxLives = 2
INVARIANTS
  AppliedOnce
  AnswersAreTrue
PROPERTIES
  OrphansStayBlocked
  AnswerIsKept
  DecidesOnce
  RequestsFinish
CHECK_DEADLOCK FALSE
