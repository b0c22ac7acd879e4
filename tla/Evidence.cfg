SPECIFICATION Spec
CONSTANTS
  None = None
  MaxLinks = 1
  Approved = {}
  Documents <- MCDocuments
  Rules <- MCRules
  Policy <- DscrPolicy
  Readings <- DscrReadings
  Years = {1, 2}
  MaxDisclosed = 5
  MaxRefused = 1
  MaxRenewed = 2
CONSTRAINT BoundedDocuments
INVARIANTS
  LinksAgreeWithDeclarations
  LinksNeverRewrite
  NoSilentSwap
  OrderDoesNotMatter
  DscrNeverBypasses
  DscrNeverMoves
CHECK_DEADLOCK FALSE
