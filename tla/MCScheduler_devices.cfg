SPECIFICATION Spec
CONSTANTS
  MaxEvents = 7
  TooFar = 1000
  Retry = 3
  LineCyc = 3
  FrameLines = 4
  VblLine = 2
  ShrLines = 3
  LineRefs = {3}
  SecFrames = 2
  QsecFrames = 2
  MinInstr = 2
  MaxInstr = 2
  MaxDelay = 3
  Devices = {0, 1}
  Inputs = {"c041", "c047", "device", "stop", "reset"}
  MaxFrames = 2
  MaxStops = 1
INVARIANTS
  QueueInOrder EventsExpected

CHECK_DEADLOCK FALSE
