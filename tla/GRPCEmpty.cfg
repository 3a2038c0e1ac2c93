CONSTANTS
  MessageLists <- MCEmptyMessages
  Prefix = 2
SPECIFICATION GRPCSpec
INVARIANT MessagesWhole
CHECK_DEADLOCK FALSE
