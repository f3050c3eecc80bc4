SPECIFICATION Spec
CONSTANTS
  MaxEvents = 8
  TooFar = 1000
  Retry = 3
  LineCyc = 4
  FrameLines = 4
  VblLine = 2
  ShrLines = 3
  LineRefs = {1}
  SecFrames = 2
  QsecFrames = 2
  MinInstr = 2
  MaxInstr = 3
  MaxDelay = 3
  Devices = {}
  Inputs = {"c023", "c032", "c029", "scb", "psr", "reset", "adbreset"}
  MaxFrames = 2
  MaxStops = 0
INVARIANTS
  ScanAgrees DeadlineFresh IrqsMatchRegisters
PROPERTIES
  ScanArmed
CHECK_DEADLOCK FALSE
