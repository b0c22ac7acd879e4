SPECIFICATION LiveSpec
CONSTANTS
  p1 = p1
  p2 = p2
  f1 = f1
  f2 = f2
  Resumers = {r1, r2}
  Cancellers = {c1}
  Metrics = {m1, m2}
  Policies = {p1, p2}
  Eligible <- MCEligible
  MaxRestarts = 2
  None = None
CHECK_DEADLOCK FALSE
INVARIANTS
  SubstepsAreNotRepeated
  StoresAreOrdered
  HandedOverIsChecked
  JobTellsOutcome
PROPERTIES
  LockIsReleased
