\* A coarsened unlock is followed by a barrier.
SPECIFICATION Spec
CONSTANTS
  Chunks = {1, 2}
  Ops = {"lock", "unlock", "barrier"}
  MinObs = 1
  TotalObs = 2
  MinLevel = 3
  AfterTransfer = 4
  MaxLevel = 6
  MaxOps = 8
INVARIANT
  CommitsBeforeGivingUpToken
