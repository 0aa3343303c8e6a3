\* three phases with at most one dependency each, edited one at a time;
\* two tool calls, a connection lost, a bootstrap, a crash, a row not stored
CONSTANTS
  PhaseIds = {p1, p2, p3}
  None = None
  MaxChanges = 1
  MaxDependencies = 1
  Calls = {c1, c2}
  MaxDrops = 1
  MaxBoots = 1
  MaxCrashes = 1
  MaxUnstored = 1
  MaxMade = 4
SPECIFICATION ViewSpec
INVARIANTS TypesOK OneActivePhase RunningWorks ShownUpToCursor InStep
CHECK_DEADLOCK FALSE
SYMMETRY Sym
