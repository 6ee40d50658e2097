CONSTANTS
  Users = {"ann", "bob"}
  Chats = {"group", "private"}
  Seats <- SharedGroup
  Before <- Ann
  Commands = {"message", "resume", "model", "workspace", "clear"}
  MaxCommands = 2
  MaxStarts = 3
  MaxIds = 4
  MaxFaults = 2
SPECIFICATION Spec
CHECK_DEADLOCK FALSE
INVARIANTS TypeOK ConversationsArePrivate EveryConversationIsListed HiddenOnlyIfRefused LostContextIsHidden RowFollowsAgent
