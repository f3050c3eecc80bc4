SPECIFICATION MCSpec
CONSTANTS
  Rom = 1
  BreakPages <- MCBreakPages
INVARIANTS
  MapFollowsSwitches
  BreaksSeen
  CopiesReachTheScreen
