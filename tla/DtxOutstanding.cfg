SPECIFICATION Spec
CONSTANTS
  EventShapes <- MCEventShapes
  ReplyShapes <- MCReplyShapes
  Overhead = 1
  Limit = 3
  MaxFragmented = 1
  MaxQueued = 1
  MaxPending = 1
  MaxId = 3
  MaxEvents = 1
  MaxWire = 1
  MaxDrops = 1
INVARIANT OutstandingAwaited
