SPECIFICATION Spec
CONSTANTS
  None = None
  TopK = 3
  RerankK = 2
  MaxEntries = 2
  MaxFigures = 2
  Versions <- MCVersions
  Questions <- MCQuestions
  Scopes <- MCScopes
  Relevance <- MCRelevance
  Reranked <- MCReranked
  Figures <- MCFigures
  Selections <- MCSelections
  Answers <- MCReplies
  Maximum = 4
  Overlap = 2
  MaxPages = 3
  Timeout = 2
  MaxTable = 3
  Texts <- MCTexts
  Files <- MCFiles
  Profiles <- MCProfiles
CHECK_DEADLOCK FALSE
INVARIANTS
  CitationsAreRetrieved
  FiguresAreWhereTheyAreCited
  TruncatedIsNeverUsed
  FallbackReadsEveryPage
  EvidenceIsKeptOnce
  CaptionsGoWithTheirTables
  NoTextIsLost
  PiecesAdvance
PROPERTIES
  QueriesEnd
