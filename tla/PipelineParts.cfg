\* Two processes that overlap on one conversation, with any two faults; one process
\* with two batches and any three faults.
SPECIFICATION PartsSpec
CONSTANTS
  a1 = a1
  p1 = p1
  p2 = p2
  c1 = c1
  c2 = c2
  Agents = {a1}
  Convs = {c1, c2}
  Runs = {p1, p2}
  AgentOf <- OneAgent
  CommandsOf <- CrontabAndApi
  Batches = {1, 2}
  BatchOf <- OnePerBatch
  MaxRetries = 1
  Faults = {"refuse", "fail", "cancel", "raise", "abort", "leak", "cleanup", "kill", "expire", "redis"}
  MaxFaults = 3
INVARIANTS OrphansFromCrashes AnalysedUnlessCut
PROPERTIES OrphansCleared RunEnds
