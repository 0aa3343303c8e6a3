\* a conversation and its branch; the branch's file goes with the original
CONSTANTS
  Conversations = {c1, c2}
  Original = c1
  Files = {f1}
  Workers = {w1}
  MaxFaults = 0
SPECIFICATION StorageSpec
INVARIANT FilesKept
CHECK_DEADLOCK FALSE
