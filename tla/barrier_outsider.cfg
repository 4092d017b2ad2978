SPECIFICATION Spec
CONSTANTS
  Party = {p, q}
  Builds = {"parallel"}
  Shared = {"parallel"}
  Rounds = 1
  FirstVersion = 1
  Width = 16
  Nobody = Nobody
INVARIANT CommitsInArrivalOrder
