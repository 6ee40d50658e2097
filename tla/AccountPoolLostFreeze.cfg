CONSTANTS
  AccountIds = {a1}
  NoAccount = NoAccount
  Bots = {b1}
  NoBot = NoBot
  Chats = {c1}
  MaxTurns = 2
  MaxRest = 1
  UsageAnswers <- NoReports
  SaveOutcomes <- MayFailToSave
SPECIFICATION NeverThawed
PROPERTY OnlyUnfreezeThaws
