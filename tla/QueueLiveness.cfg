CONSTANTS
  Jobs = {j1, j2, j3}
  MaxDepth = 1
  None = None
SPECIFICATION Spec
PROPERTIES
  EveryCallerAnswered
  EveryEntryTaken
  StopReturns
