SPECIFICATION MCSpec
CONSTANTS
  Bays <- MCBays
  Units <- MCUnits
  Images = {"plain", "woz", "zip", "header", "locked"}
  Compressed = {"zip"}
  Locked = {"locked"}
  WozImages = {"woz"}
  Tracks = {0, 1}
  SpinDown = 1
  Start <- MCStart
  Commands = {"status", "read", "write", "format", "other"}
PROPERTIES
  SwitchReported
