SPECIFICATION AnswersSpec
CONSTANTS
  t1 = t1
  s1 = s1
  p1 = p1
  j1 = j1
  j2 = j2
  Tasks <- MCTasks
  Modes <- MCModes
  Runs <- MCRuns
  Submissions <- MCSubmissions
  Pages <- MCPages
  Judges <- MCJudges
  Finals <- MCFinals
  MaxRound = 2
  MaxTrouble = 1
  MaxCases = 2
  Limit = 3
  Capacity = 1
  MaxWire = 1
  MaxStreams = 1
INVARIANTS TypesOK VerdictIsEarned VerdictIsOnItsWay
PROPERTIES TaskEnds EveryRequestJudged VerdictReachesPage
CHECK_DEADLOCK FALSE
