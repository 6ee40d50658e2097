CONSTANTS
  Bots = {"first", "second"}
  Updates = {1, 2, 4, 5}
  BotOf <- TwoBotsOf
  ChatOf <- SharedChatOf
  NoChat = NoChat
  Allowed = {1, 2, 4}
  Nobody = Nobody
  BatchSize = 2
  Buffer = 1
  QueueCap = 1
  MaxTroubles = 1
  Left = {"second"}
SPECIFICATION FairSpec
INVARIANTS TypeOK NothingDropped QueueHasWorker HandledOnce WaitInOrder
PROPERTY EventuallyHandled
