CONSTANTS
  Units = {"pair", "waves", "queue", "timer1", "timer2", "both", "ring"}
  NumOscs = 2
  MaxBehind = 3
  MaxSize = 2
  Quirks = {}
  Byte = 2
  MaxAlone = 4
  MockQuirks = {}
  MaxInstr = 2
  ShmSize = 3
  RebufSize = 4
  Quantum = 2
  Plays = {1}
  MinSamples = 0
  MaxSamples = 2
  Frames = {1, 2}
  PauseAfter = 2
  PauseSafety = 1
  MaxMade = 4
SPECIFICATION Spec
INVARIANTS RanksAgree EndsForeseen   HeardInOrder
PROPERTY TimersExact
CHECK_DEADLOCK FALSE
