SPECIFICATION Spec
CONSTANTS
  MaxEvents = 5
  TooFar = 1000
  Retry = 3
  LineCyc = 2
  FrameLines = 4
  VblLine = 2
  ShrLines = 3
  LineRefs = {3}
  SecFrames = 2
  QsecFrames = 2
  MinInstr = 2
  MaxInstr = 3
  MaxDelay = 3
  Devices = {}
  Inputs = {"psr", "wai", "speed", "halt", "step"}
  MaxFrames = 3
  MaxStops = 0
INVARIANT
  FrameOnTime
PROPERTY
  RunReturns
CHECK_DEADLOCK FALSE
