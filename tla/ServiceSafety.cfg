CONSTANTS
  Jobs = {r1, r2, r3}
  MaxDepth = 1
  MaxUpload = 1
  None = None
SPECIFICATION ServiceSpec
SYMMETRY JobSymmetry
INVARIANTS
  NoOrphanMedia
  CleanUpUnseen
  CountersReconcile
  RunsReconcile
  HealthHonest
  ShutdownStrandsNobody
  StatusTellsTruth
PROPERTY
  QueueBehaviour
