CONSTANTS
  c1 = c1
  c2 = c2
  c3 = c3
  v1 = v1
  v2 = v2
  h1 = h1
  h2 = h2
  e1 = e1
  e2 = e2
  e3 = e3
  NULL = NULL
  header = header
  junk = junk
  null = null
  wild = wild
  Cells <- MCCells
  Values <- MCValues
  Heads <- MCHeads
  Elements <- MCElements
  BodySizes <- SomeBodies
  MaxMsgs = 4
  HeaderSize = 2
  Room = 2
  SizeMax = 7
  ShortWrites = FALSE
  Lines <- AllLines
  MaxLines = 4
  Texts <- ValueTexts
  Names <- QueueNames
  Fold <- FoldNames
  Upper <- UpperTexts
  NoName = NoName
  NoValue = NoValue
SPECIFICATION MCSpec
CHECK_DEADLOCK FALSE
INVARIANTS LinkTypeOK NothingLeaksOrDangles NumCounts BothWays NioTypeOK ReaderInStep
INVARIANTS ConfTypeOK OneQueuePerName QueuesAsWritten ParamsFromTheFile
PROPERTIES IsAList CallsReturn AreDeques WholeMessages
