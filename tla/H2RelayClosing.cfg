CONSTANTS
  Streams = {1, 3}
  OutputSize = 1
  Window0 = 1
  MaxFrame0 = 1
  FramesOf <- MCFramesOf
  MaxRead <- MCMaxRead
SPECIFICATION H2FairSpec
CHECK_DEADLOCK FALSE

PROPERTY ClosingReturns
