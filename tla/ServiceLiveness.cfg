CONSTANTS
  Jobs = {r1, r2}
  MaxDepth = 1
  MaxUpload = 1
  MaxRestarts = 1
  None = None
SPECIFICATION FairLives
INVARIANTS
  LifeInv
  FilesOfTheUnfinished
PROPERTIES
  AnsweredOrLost
  DrainEndsTheContainer
