\* Two passes of an agent overlap.
SPECIFICATION TopSpec
CONSTANTS
  Key <- MCKey
  MinSize = 1
  MaxClusters = 2
  ConvIds = {1, 2}
  Texts = {"a"}
  NoQuestion = "none"
  Callers = {"p", "q"}
  MaxPasses = 2
INVARIANT OneCoherentSet
CHECK_DEADLOCK FALSE
