SPECIFICATION Spec
CONSTANTS
  Ids = {1, 2, 5}
  Fixed = {1}
  Openable = {2, 5}
  Lengths = {1, 2}
  Reads = {1}
  PreambleLen = 2
  MaxUnknown = 1
  MaxClosed = 1
  MaxAnnounced = 1
  MaxPending = 1
  PerStream = 2
  Total = 3
INVARIANT ConnectionCreditAccrues
