\* Four callers of the admission, where nothing fails except that processes are
\* killed and database statements raise; and seven components besides them.
SPECIFICATION ServicesSpec
CONSTANTS
  j1 = j1
  j2 = j2
  j3 = j3
  j4 = j4
  a1 = a1
  a2 = a2
  Jobs <- MCJobs
  KindOrder <- MCKindOrder
  KindOf <- MCKindOf
  AgentOf <- MCAgentOf
  NoWait = {j3, j4}
  MaxTotal = 2
  MaxKind <- MCMaxKind
  MaxPerAgent <- MCMaxPerAgent
  Faults = {"db", "crash"}
  Free = Free
  Stray = Stray
  w1 = w1
  w2 = w2
  c1 = c1
  c2 = c2
  c3 = c3
  None = None
  Order <- MCOrder
  Writers = {w1, w2}
  Scopes <- MCScopes
  Verdicts <- MCVerdicts
  Lengths <- MCLengths
  MaxLength = 2
  Every = 25
  MaxStarts = 2
  MaxFaults = 1
  Key <- MCKey
  MinSize = 1
  MaxClusters = 2
  ConvIds = {1, 2, 3}
  Texts = {"a", "A", "b"}
  NoQuestion = "none"
  Callers = {"p", "q"}
  MaxPasses = 2
  Talk <- MCTalk
  Absent = Absent
  MaxAttempts = 2
  Threads = {"t1", "t2"}
  Interval = 2
  MaxRetries = 1
  Delays = {1, 3}
  Lifetimes = {1, 3}
  Margin = 1
  MaxTime = 5
  MaxCalls = 1
  Times = {1, 2}
  Contents <- MCContents
  MaxMessages = 3
  ChunkSize = 2
  ClientRetries = 1
  MaxSentimentJobs = 2
  MaxFailures = 2
  Rankings <- MCRankings
  Threshold = 3
  ComplaintMin = 6
  ComplaintMargin = 1
  Talks <- MCTalks
  Scores <- MCScores
  Silly = {"s"}
  Jokes = {"j"}
  Answers <- MCAnswers
  Offset = 2
  Keys <- MCKeys
  HfMax = 1
  MaxTalks = 2
  MaxRows = 2
  MaxWrites = 1
  Values <- MCValues
  Slugs <- MCSlugs
  FirstPage = 1
  SecondPage = 1
  Display = 3
  Ranked = 2
  Patterns <- MCPatterns
  Hours = {2, 10, 19}
  BucketAt <- MCBucketAt
  Dashboards <- MCDashboards
  MaxDays = 45
INVARIANTS WithinLimits PartsTypeOK PacingSafe CountsMatchRows ScoresMatchTexts ReportAgrees QuestionsCoherent
           WeekMatches ChartsHonest
PROPERTIES ImplementsSlotPool
