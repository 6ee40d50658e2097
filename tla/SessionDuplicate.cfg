CONSTANTS
  Sessions = {s1, s2}
  NoSession = NoSession
  Slots = {p1, p2, p3}
  NoSlot = NoSlot
  Accounts = {a1}
  NoAccount = NoAccount
  Commands = {"message"}
  Answers = {"ok", "stream"}
  SpawnOutcomes <- AlwaysSpawns
  Freezes = {}
  MaxCommands = 2
  MaxRecoveries = 1
  MaxWork = 1
  MaxTurns = 2
SPECIFICATION Spec
CHECK_DEADLOCK FALSE
INVARIANT OneProcess
