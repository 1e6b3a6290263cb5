CONSTANTS
  Checkpoints <- MCCheckpoints
  AdapterSizes <- MCAdapterSizes
  MinExpectedParams = 20
  Classes = {Qwen3VL, OtherClass}
  ExpectedClass = Qwen3VL
  PeftClass = PeftClass
  BackboneClass = Qwen3VLModel
  None = None
  MaxRestarts = 3
SPECIFICATION DeploySafety
INVARIANT
  ThreeAttempts
