\* Creation, exit, reuse and join, with spurious wakeups.
SPECIFICATION Spec
CONSTANTS
  m1 = m1
  m2 = m2
  c1 = c1
  h1 = h1
  h2 = h2
  h3 = h3
  Mutexes = {m1, m2}
  Conds = {c1}
  Handles = {h1, h2, h3}
  Code <- MCCode
  PoolSize = 3
  MainFns = {"nested", "reuse", "signal"}
  SingleThreadOpt = FALSE
  Spurious = TRUE
INVARIANTS
  ActiveIffRunnable
  NoBugOn
  JoinNotLost
  JoinHandOff
  NobodyLeftParked
