\* three messages; four calls of the lock; a tool call and two requests about
\* it, or two and one request; two files or a branch, two workers and a fault
CONSTANTS
  Requests = {r1, r2, r3}
  MaxCalls = 4
  Calls = {c1, c2}
  Clients = {a1, a2}
  MaxRequests = 2
  Conversations = {v1, v2}
  Original = v1
  Files = {f1, f2}
  Workers = {w1, w2}
  MaxFaults = 1
SPECIFICATION PartsSpec
INVARIANTS TypesOK SingleActive StartedInOrder EntryWhileNeeded ActsAsRecorded NothingLeaks
PROPERTIES TerminalStays EveryCallReturns ServedAsInLine DecisionsStay DecisionArrives FilesRemoved
CHECK_DEADLOCK FALSE
