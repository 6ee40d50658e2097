CONSTANTS
  Pids = {11, 12}
  Top = 1
  Grace = 2
  MaxSessions = 2
SPECIFICATION FairSpec
INVARIANT TypeOK
PROPERTIES GraceIsObserved OnlyOwnTree StuckIsReaped
