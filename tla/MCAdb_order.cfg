SPECIFICATION Spec
CONSTANTS
  Codes = {"a", "reset", "reset_up"}
  ResetCodes = {"reset", "reset_up"}
  Pad = "reset_up"
  KbdReg0Size = 3
  Ops = {"set_modes", "talk0"}
  Enables = {"data"}
  Modes = {"kbd_off"}
  KbdAddrs = {2, 3}
  MouseAddrs = {3}
  KbdAddr = 2
  MouseAddr = 3
  Rom3 = FALSE
  MaxX = 0
  MaxY = 0
  MaxDelta = 1
  FifoSize = 4
  Slow = FALSE
  MaxKeys = 3
  MaxMoves = 0
INVARIANTS KeysInOrder
