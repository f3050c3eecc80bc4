CONSTANTS
  A = A
  B = B
  x = x
  y = y
  Wired = {A}
  Chars = {x, y}
  InSize = 2
  Values = {0}
  Modes = {0, 1, 2, 3}
  AllowIncoming = TRUE
  OutSize = 2
  Typed = {"ATS0", "ATO", "ATA", "+"}
  ResetDcd = TRUE
  Options = {1, 3, 34}
  Answers = "modem"
SPECIFICATION Spec
INVARIANTS EventsInStep LinesMatchWants LinesHeld
PROPERTIES ReceivedInOrder ModemProgress NegotiationSettles
CHECK_DEADLOCK FALSE
