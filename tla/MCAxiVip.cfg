SPECIFICATION Spec
CONSTANTS
  MaxAsked = 3
  Outstanding = 2
  Depth = 4
  Early = {TRUE, FALSE}
  Builds <- BuildsValue
INVARIANTS
  AnswersRight
  DeletedOnce
PROPERTY EveryRequestAnswered
CHECK_DEADLOCK FALSE
