\* Three callers; the mutex can be lost, not be acquired or expire: the limits are overshot.
SPECIFICATION Spec
CONSTANTS
  j1 = j1
  j2 = j2
  j3 = j3
  j4 = j4
  a1 = a1
  a2 = a2
  Jobs <- SmallJobs
  KindOrder <- MCKindOrder
  KindOf <- SmallKindOf
  AgentOf <- SmallAgentOf
  NoWait = {j2, j3}
  MaxTotal = 2
  MaxKind <- SmallMaxKind
  MaxPerAgent <- MCMaxPerAgent
  Faults = {"redis", "timeout", "expiry", "crash"}
  Free = Free
  Stray = Stray
INVARIANT WithinLimits
