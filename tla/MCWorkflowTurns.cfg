\* two dispatches, a turn of the user and one fault, of any kind
CONSTANTS
  Slots = {s1, s2}
  LastPhase = 2
  MaxVersion = 2
  MaxUserTurns = 1
  MaxFaults = 1
SPECIFICATION FollowedFair
INVARIANTS TypeOK
PROPERTIES NoSecondTurn RequestsHandled
CHECK_DEADLOCK FALSE
