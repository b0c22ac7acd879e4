SPECIFICATION QuerySpec
CONSTANTS
  None = None
  TopK = 3
  RerankK = 2
  MaxEntries = 2
  MaxFigures = 2
  Versions <- MCVersions
  Questions <- MCQuestions
  Scopes <- MCScopes
  Relevance <- MCRelevance
  Reranked <- MCReranked
  Figures <- MCFigures
  Selections <- MCSelections
  Answers <- MCReplies
INVARIANT NumbersAreRetrieved
