CONSTANTS
  MaxModelCalls = 3
  MaxToolCalls = 2
  BatchSizes = {1, 2}
  MaxInputs = 2
  MaxCrashes = 0
SPECIFICATION FairSpec

PROPERTIES QuestionAnsweredByUser
CHECK_DEADLOCK FALSE
