SPECIFICATION Spec
CONSTANTS
  a1 = a1
  p1 = p1
  p2 = p2
  c1 = c1
  c2 = c2
  Agents = {a1}
  Convs = {c1}
  Runs = {p1, p2}
  AgentOf <- OneAgent
  CommandsOf <- RunOnly
  Batches = {1}
  BatchOf <- OneBatch
  MaxRetries = 1
  Faults = {}
  MaxFaults = 0
INVARIANT OrphansAreDead
