SPECIFICATION Spec
CONSTANTS
  Streams = {1, 5}
  FixedStreams = {1}
  MaxWindow = 2
  InitWindows = {1, 2}
  FirstWindow = 2
  FrameSizes = {1}
  FirstFrameSize = 2
  Increments = {1}
  Lengths = {0, 2}
  Threshold = 3
  FrameUnits = 2
INVARIANTS WholeFrames FlowControlRespected OpenedOnce SettingsAcknowledged CreditConserved
PROPERTIES GoawayHonoured
