SPECIFICATION FairSpec
CONSTANTS
  Party = {p, q}
  Builds = {"parallel", "simple"}
  Shared = {"simple"}
  Rounds = 2
  FirstVersion = 1
  Width = 8
  Nobody = Nobody
INVARIANTS CommitsInArrivalOrder TokenKept
PROPERTIES MeetsAtBarrier LeavesUpToDate EveryRoundEnds
CHECK_DEADLOCK FALSE
