\* Three callers; everything that can fail does, the mutex included.  And the run
\* page of two agents with a run each, two loads at a time, two clicks and one failure.
SPECIFICATION PartsSpec
CONSTANTS
  j1 = j1
  j2 = j2
  j3 = j3
  j4 = j4
  a1 = a1
  a2 = a2
  Jobs <- SmallJobs
  KindOrder <- MCKindOrder
  KindOf <- SmallKindOf
  AgentOf <- SmallAgentOf
  NoWait = {j2, j3}
  MaxTotal = 2
  MaxKind <- SmallMaxKind
  MaxPerAgent <- MCMaxPerAgent
  Faults = {"db", "redis", "timeout", "expiry", "crash"}
  Free = Free
  Stray = Stray
  x = x
  y = y
  l1 = l1
  l2 = l2
  None = None
  Choices = {x, y}
  MaxRuns = 1
  Slots = {l1, l2}
  MaxClicks = 2
  MaxFailures = 1
INVARIANTS CoveredWithinLimits PageSafe
PROPERTIES MutexNotStolen CallReturns PageCatchesUp
