\* two events, tried twice, with a fault; an automation woken up
\* three times, or two of them twice
CONSTANTS
  Events = {e1, e2}
  MaxAttempts = 2
  MaxFaults = 1
  Automations = {m1, m2}
  Callers = {k1}
  MaxWakes = 3
  MaxEdits = 4
  MaxChats = 1
  MaxRestarts = 1
SPECIFICATION ServicesSpec
INVARIANTS TypesOK UsesCounted OneOpenRun UnfinishedIsRunning
PROPERTIES ImplementsJobs EveryReviewEnds RunsEnd
CHECK_DEADLOCK FALSE
