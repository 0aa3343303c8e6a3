\* a stop and an answer, with two turns or with a turn and a crash: nothing is forgotten
CONSTANTS
  Requests = {r1, r2}
  Nobody = Nobody
  MaxCrashes = 1
  MaxStops = 1
  MaxSteers = 1
  MaxRecycles = 0
  MaxBatches = 0
SPECIFICATION FollowedFair
PROPERTIES NoLostDrain NoLostWake
CHECK_DEADLOCK FALSE
