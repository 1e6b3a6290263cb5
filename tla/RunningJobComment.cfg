CONSTANTS
  Jobs = {r1, r2}
  MaxDepth = 1
  MaxUpload = 1
  None = None
SPECIFICATION ServiceSpec
INVARIANT
  RunningJobFinishes
