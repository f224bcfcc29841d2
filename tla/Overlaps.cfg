\* Two syncs overlap, the second one with --reanalyze, on one conversation; they
\* fail, are cancelled and are killed.  And the weekly run: two runs at a time,
\* or one with two agents of one name.
SPECIFICATION OverlapSpec
CONSTANTS
  r1 = r1
  r2 = r2
  Convs = {1}
  Runs = {r1, r2}
  Reanalyze = {r2}
  MaxTime = 3
  WindowWidth = 1
  MaxEmpty = 2
  PageSize = 2
  HardLimit = 3
  BatchSize = 1
  Faults = {"fail", "cancel", "abort"}
  Agents = {"a", "b"}
  Names = {"x"}
  NameOf <- MCNameOf
  Launched = {"l"}
  Loops = {"s"}
  Manual = {"h"}
  Single = {"o"}
  Crews <- MCCrews
  MaxDeaths = 1
  None = None
INVARIANTS StoredUpToLastSeen NothingLostBehindWatermark OneWeeklyRun OutputsMatch NoGhostRun
