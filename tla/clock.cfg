SPECIFICATION FairSpec
CONSTANTS
  N = 2
  MasterOps = 3
  OtherOps = 2
  Builds = {TRUE, FALSE}
  Work = {1, 2}
  MaxClock = 2
INVARIANTS ListAgrees NobodyPassedOver
PROPERTIES TokenGoesToLowest EveryoneGetsToken
CHECK_DEADLOCK FALSE
