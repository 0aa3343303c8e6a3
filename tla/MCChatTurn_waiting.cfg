\* a crash of a turn that has asked the user
CONSTANTS
  Requests = {r1}
  Nobody = Nobody
  MaxCrashes = 1
  MaxStops = 0
  MaxSteers = 0
  MaxRecycles = 0
  MaxBatches = 0
SPECIFICATION FairSpec
PROPERTIES WaitingUserCanContinue
CHECK_DEADLOCK FALSE
