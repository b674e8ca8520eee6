SPECIFICATION Spec
CONSTANTS
  Streams = {1, 3}
  ClientServer = 1
  ServerClient = 3
  HeaderLen = 1
  SendLen = 2
  Bodies = {0, 3}
  DeviceIds = {0, 1, 2}
  Kinds = {"ok"}
  Frame = 2
  PerStream = 4
  Total = 6
  MaxParked = 1
  StreamLimit = 3
  ConnLimit = 4
  MaxSent = 2
  MaxIds = 2
INVARIANT NeverSpliced
