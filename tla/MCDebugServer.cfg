SPECIFICATION Spec
CONSTANTS
  Kinds = {"halt", "continue", "step", "restart", "get_break_info", "show", "g"}
  MaxReq = 3
  MaxKpc = 1
INVARIANTS
  AnswerAtMostOneBehind HaltHolds
PROPERTIES
  RequestsDone
