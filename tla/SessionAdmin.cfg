CONSTANTS
  Sessions = {s1, s2}
  NoSession = NoSession
  Slots = {p1, p2}
  NoSlot = NoSlot
  Accounts = {a1}
  NoAccount = NoAccount
  Commands = {"message", "stop", "clear", "replace"}
  Answers = {"ok", "other"}
  SpawnOutcomes <- MayFailToSpawn
  Freezes = {a1}
  MaxCommands = 2
  MaxRecoveries = 1
  MaxWork = 1
  MaxTurns = 1
SPECIFICATION Spec
CHECK_DEADLOCK FALSE
SYMMETRY Symmetry
INVARIANTS TypeOK WithinReach SpinnerIsWatched StopIsFinal
