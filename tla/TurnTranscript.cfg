CONSTANTS
  Prompts = 2
  Pieces = 1
  Silent = {2}
  LongAt = 2
  MaxStarts = 1
  MaxFaults = 0
  MaxEnds = 0
SPECIFICATION Spec
CHECK_DEADLOCK FALSE
INVARIANT AnswerIsOwn
