SPECIFICATION Spec
CONSTANTS
  Chunks <- Large
  Feed <- NoFeed
  FeedChunks <- NoFeed
  Garbled = {}
  MaxLinks = 2
  MaxInbound = 1
INVARIANTS ReplaysWholeMessages
CHECK_DEADLOCK FALSE
