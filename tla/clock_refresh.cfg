SPECIFICATION Spec
CONSTANTS
  N = 3
  MasterOps = 3
  OtherOps = 1
  Builds = {FALSE}
  Work = {1, 2}
  MaxClock = 3
PROPERTY TokenGoesToLowest
