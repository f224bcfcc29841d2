\* The first run of an agent is aborted after a batch has completed.
SPECIFICATION Spec
CONSTANTS
  r1 = r1
  r2 = r2
  Convs = {1, 2}
  Runs = {r1}
  Reanalyze = {}
  MaxTime = 3
  WindowWidth = 1
  MaxEmpty = 3
  PageSize = 2
  HardLimit = 3
  BatchSize = 1
  Faults = {"abort"}
INVARIANT NothingLost
