SPECIFICATION FairSpec
CONSTANTS
  Streams = {1}
  FixedStreams = {1}
  MaxWindow = 2
  InitWindows = {1}
  FirstWindow = 1
  FrameSizes = {1}
  FirstFrameSize = 1
  Increments = {1}
  Lengths = {1,2}
  Threshold = 2
  FrameUnits = 2
PROPERTIES WriteReturns
