CONSTANTS
  AccountIds = {a1, a2}
  NoAccount = NoAccount
  Bots = {b1}
  NoBot = NoBot
  Chats = {c1}
  MaxTurns = 2
  MaxRest = 1
  UsageAnswers <- NoReports
  SaveOutcomes <- AlwaysSaves
SPECIFICATION Spec
SYMMETRY IdSymmetry
INVARIANTS TypeOK NoDanglingBinding FieldsAgree Durable
PROPERTIES FreezeHolds KeepsPromise
