SPECIFICATION FairSpec
CONSTANTS
  Chunks <- Mixed
  Feed <- FeedGarbled
  FeedChunks <- OneGarbled
  Garbled = {2}
  MaxLinks = 3
  MaxInbound = 1
INVARIANTS TypeOK NothingForgotten CloseIsLast ReaderMatchesCursor
PROPERTIES ImplementsChannel Arrives QueueDrains
CHECK_DEADLOCK FALSE
