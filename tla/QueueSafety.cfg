CONSTANTS
  Jobs = {j1, j2, j3, j4}
  MaxDepth = 2
  None = None
SPECIFICATION SafetySpec
SYMMETRY JobSymmetry
INVARIANTS
  WorkerSurvives
  SerialGpu
  NoHungFuture
  NoOvertaking
  AnswerAgrees
  GaugeTracksDepth
  StopDrains
  NobodyStuck
  IInv
PROPERTIES
  AbandonedNeverStarts
  ServerBehaviour
