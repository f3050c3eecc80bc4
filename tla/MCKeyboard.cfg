SPECIFICATION KeySpec
CONSTANTS
  Keys = {"a", "b"}
  KbdBuf = 3
  PasteBuf = 2
  TossAfter = 1
  Repeat = TRUE
  MaxKeys = 3
  MaxPastes = 2
INVARIANTS  RepeatWhileDown
 
