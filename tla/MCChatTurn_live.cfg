\* two turns in one process: a stop, an answer or steer, a recycle and restore
CONSTANTS
  Requests = {r1, r2}
  Nobody = Nobody
  MaxCrashes = 0
  MaxStops = 1
  MaxSteers = 1
  MaxRecycles = 1
  MaxBatches = 1
SPECIFICATION Spec
INVARIANTS TypeOK DispatchUnderRequest SucceededIsCommitted
CHECK_DEADLOCK FALSE
SYMMETRY Symmetry
