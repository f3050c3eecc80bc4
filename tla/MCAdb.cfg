SPECIFICATION MCSpec
CONSTANTS
  Codes = {"a", "reset", "reset_up"}
  ResetCodes = {"reset", "reset_up"}
  Pad = "reset_up"
  KbdReg0Size = 2
  Ops = {"set_modes", "clear_modes", "set_config", "read_mem", "char_sets", "talk0", "talk3", "listen3", "send_key", "reset", "unknown", "abort", "write_mem", "sync"}
  Enables = {"data", "mouse"}
  Modes = {"kbd_off", "mouse_off"}
  KbdAddrs = {2, 3}
  MouseAddrs = {3, 4}
  KbdAddr = 2
  MouseAddr = 3
  Rom3 = FALSE
  MaxX = 2
  MaxY = 0
  MaxDelta = 1
  FifoSize = 4
  Slow = TRUE
  MaxKeys = 3
  MaxMoves = 3
INVARIANTS TypeOK IrqsHaveData SrqSaysKeys PoliteNeverHalts ResetKeyAlone MouseSeen
PROPERTY MouseDrains
