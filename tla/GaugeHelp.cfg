CONSTANTS
  Jobs = {j1, j2}
  MaxDepth = 2
  None = None
SPECIFICATION SafetySpec
INVARIANT
  GaugeCountsWaiting
