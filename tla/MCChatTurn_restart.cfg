\* two turns over a crash; one turn over crashes, a stop and an added input
CONSTANTS
  Requests = {r1, r2}
  Nobody = Nobody
  MaxCrashes = 2
  MaxStops = 1
  MaxSteers = 1
  MaxRecycles = 0
  MaxBatches = 2
SPECIFICATION Spec
CONSTRAINT Restarted
INVARIANTS ParkedIsResumable
PROPERTIES QueueSpec NoReplay
CHECK_DEADLOCK FALSE
SYMMETRY Symmetry
