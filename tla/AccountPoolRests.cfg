CONSTANTS
  AccountIds = {a1, a2}
  NoAccount = NoAccount
  Bots = {}
  NoBot = NoBot
  Chats = {}
  MaxTurns = 1
  MaxRest = 2
  UsageAnswers <- AllReports
  SaveOutcomes <- AlwaysSaves
SPECIFICATION FairSpec
INVARIANT FieldsAgree
PROPERTIES FreezeHolds RestIsServed
PROPERTY RestEnds
