\* The usual program broadcasts inside its critical section.
SPECIFICATION Spec
CONSTANTS
  LockThreads = {a, b}
  Locks = {m, n}
  Inside = {"broadcast"}
  MaxSections = 2
  NoOne = NoOne
INVARIANT SimpleExclusion
