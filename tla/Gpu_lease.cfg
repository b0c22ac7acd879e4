SPECIFICATION LiveSpec
CONSTANTS
  b1 = b1
  b2 = b2
  q1 = q1
  q2 = q2
  Batches = {b1, b2}
  Queries = {q1, q2}
  Documents = 2
  Pages = 2
  FailOnVision = TRUE
  None = None
INVARIANTS OneInLease WorkWhileAsleep ModelsYield AwakeUnlessFailed
PROPERTIES RuntimeLockIsFreed ServiceLockIsFreed
