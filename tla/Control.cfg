\* Two processes of one agent and two requests of operators; or the page with
\* the results of two agents, with three clicks and one failure.
SPECIFICATION PartsSpec
CONSTANTS
  w1 = w1
  w2 = w2
  Workers = {w1, w2}
  Scheduled = {w1}
  Creates <- MCCreates
  Kinds = {"ingest", "insights"}
  MaxId = 1
  Items = 1
  MaxOps = 2
  NoJob = NoJob
  c1 = c1
  c2 = c2
  c3 = c3
  a1 = a1
  a2 = a2
  None = None
  Convs = {c1, c2, c3}
  AgentOf <- MCAgentOf
  SampleSize = 5
  MaxClicks = 3
  MaxFaults = 1
  MaxFlows = 3
INVARIANTS ControlTypeOK RowIsOwn StaysPaused ResultsHonest
PROPERTIES ImplementsLedger CancelHonoured PurgedIsFetchedAgain
CHECK_DEADLOCK FALSE
