\* The cache or the weekly run.
SPECIFICATION LiveSpec
CONSTANTS
  KeyOrder <- MCKeyOrder
  ListKey = "list"
  Children = {"t1", "t2"}
  Pipelines = {"p1"}
  Readers = {"r1"}
  Casts <- MCCasts
  MaxConvs = 1
  MaxVersion = 1
  MaxFaults = 1
  Absent = Absent
  Agents = {"a"}
  Names = {"x"}
  NameOf <- MCNameOf
  Launched = {"l"}
  Loops = {"s"}
  Manual = {"h"}
  Single = {"o"}
  Crews <- MCCrews
  MaxDeaths = 1
  None = None
INVARIANTS
  PurgedStaysGone OneWarmer ProgressBounded
PROPERTIES DashboardBecomesReady WeekGetsDone
CHECK_DEADLOCK FALSE
