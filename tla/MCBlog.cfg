SPECIFICATION BlogSpec
CONSTANTS
  r1 = r1
  r2 = r2
  x1 = x1
  x2 = x2
  y1 = y1
  y2 = y2
  z1 = z1
  z2 = z2
  u1 = u1
  u2 = u2
  Requests <- MCRequests
  Titles <- MCTitles
  Tags <- MCTags
  Contents <- MCContents
  People <- MCPeople
  Articles <- MCArticles
  MaxVersion = 3
  MaxCalls = 3
  MaxTrouble = 1
  MaxComments = 2
  MaxWrites = 2
  MaxTweets = 3
  MaxRows = 3
SYMMETRY MCSymmetry
INVARIANTS TypesOK PostWhole SearchRight CachesKeepUp RepliesNotified KeptIsFound ListedOnce
PROPERTIES PublishedInOrder RemovedByRight
CHECK_DEADLOCK FALSE
