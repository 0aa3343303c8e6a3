\* a stop of a turn that ends meanwhile
CONSTANTS
  Requests = {r1}
  Nobody = Nobody
  MaxCrashes = 0
  MaxStops = 1
  MaxSteers = 0
  MaxRecycles = 0
  MaxBatches = 0
SPECIFICATION FairSpec
PROPERTIES CancellationEnds
CHECK_DEADLOCK FALSE
