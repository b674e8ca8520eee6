SPECIFICATION FairSpec
CONSTANTS
  EventShapes <- MCEventShapes
  ReplyShapes <- MCReplyShapes
  Overhead = 1
  Limit = 4
  MaxFragmented = 2
  MaxQueued = 1
  MaxPending = 1
  MaxId = 3
  MaxEvents = 1
  MaxWire = 1
  MaxDrops = 1
INVARIANTS  RepliesMatch MessagesIntact QueuedAcknowledged
PROPERTIES CallReturns
