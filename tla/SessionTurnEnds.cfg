CONSTANTS
  Sessions = {s1}
  NoSession = NoSession
  Slots = {p1, p2}
  NoSlot = NoSlot
  Accounts = {a1, a2}
  NoAccount = NoAccount
  Commands = {"message"}
  Answers = {"stream", "quota"}
  SpawnOutcomes <- MayFailToSpawn
  Freezes = {a1}
  MaxCommands = 1
  MaxRecoveries = 1
  MaxWork = 1
  MaxTurns = 1
SPECIFICATION FairSpec
CHECK_DEADLOCK FALSE
INVARIANTS WithinReach SpinnerIsWatched
PROPERTY TurnEnds
