\* Three threads contend for a mutex, two of them wait and main broadcasts; a thread is at times the only
\* active one, with and without nesting; programs that stop with an error.
SPECIFICATION Spec
CONSTANTS
  m1 = m1
  m2 = m2
  c1 = c1
  h1 = h1
  h2 = h2
  h3 = h3
  Mutexes = {m1, m2}
  Conds = {c1}
  Handles = {h1, h2, h3}
  Code <- MCCode
  PoolSize = 3
  MainFns = {"announce", "alone", "crossed", "many", "careless"}
  SingleThreadOpt = TRUE
  Spurious = FALSE
INVARIANTS
  MutualExclusion
  SyncExclusion
  LockHandOff
  NoLostWakeup
  TokenDiscipline
  
  NoError
  TypeOK
