CONSTANTS
  Prompts = 2
  Pieces = 2
  Silent = {}
  LongAt = 2
  MaxStarts = 2
  MaxFaults = 1
  MaxEnds = 1
SPECIFICATION Spec
CHECK_DEADLOCK FALSE
INVARIANTS TypeOK OneTaker 
PROPERTIES DraftsEndAtDisarm NothingTakenBack
