CONSTANTS
  MaxModelCalls = 3
  MaxToolCalls = 2
  BatchSizes = {1, 2}
  MaxInputs = 2
  MaxCrashes = 2
SPECIFICATION FairSpec
INVARIANTS TypeOK QuestionBlocksModel BudgetsHold
PROPERTIES LoopEnds 
CHECK_DEADLOCK FALSE
