SPECIFICATION Spec
CONSTANTS
  Ids = {2, 4, 5}
  Fixed = {}
  Openable = {5}
  Lengths = {1, 2}
  Reads = {1}
  PreambleLen = 2
  MaxUnknown = 1
  MaxClosed = 1
  MaxAnnounced = 1
  MaxPending = 1
  PerStream = 2
  Total = 3
INVARIANTS BytesAccounted RegistryConsistent
PROPERTIES NeverReopened 
