\* One run lists three conversations, one per page, two at most,
\* while messages arrive, or breaks off.
SPECIFICATION SweepSpec
CONSTANTS
  r1 = r1
  r2 = r2
  Convs = {1, 2, 3}
  Runs = {r1}
  Reanalyze = {}
  MaxTime = 3
  WindowWidth = 1
  MaxEmpty = 2
  PageSize = 1
  HardLimit = 2
  BatchSize = 2
  Faults = {"drift", "abort"}
INVARIANTS TypeOK ListedOnce NothingLostBehindWatermark
PROPERTY RunEnds
