CONSTANTS
  Words = {"red", "stop"}
  Default = 5
  Asked <- MCAsked
  Absent = Absent
SPECIFICATION InferenceSpec
INVARIANTS
  SplitsAsHeard
  TruncationIsTold
PROPERTY
  NothingTakenBack
