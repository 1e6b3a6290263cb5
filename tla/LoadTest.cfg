CONSTANTS
  Jobs = {r1, r2, r3, r4}
  MaxDepth = 1
  MaxUpload = 0
  VUs = {u1}
  Enough = 2
  None = None
SPECIFICATION FairTest
INVARIANTS
  TestInv
  SummaryReconciles
  FullOnlyOfAbandoned
  WaitsForOthers
  CaveatsTellTheRun
PROPERTY
  SweepEnds
