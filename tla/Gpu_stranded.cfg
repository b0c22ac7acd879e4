SPECIFICATION Spec
CONSTANTS
  b1 = b1
  b2 = b2
  q1 = q1
  q2 = q2
  Batches = {b1}
  Queries = {q1}
  Documents = 1
  Pages = 1
  FailOnVision = TRUE
  None = None
INVARIANT RestoredOnExit
