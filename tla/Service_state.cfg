SPECIFICATION Spec
CONSTANTS
  i1 = i1
  i2 = i2
  i3 = i3
  h1 = h1
  h2 = h2
  h3 = h3
  h4 = h4
  x = x
  y = y
  Applications = {x, y}
  AppOf <- MCAppOf
  Ids = {i1, i2, i3}
  Handlers = {h1, h2, h3, h4}
  IdOf <- MCIdOf
  MaxBatches = 2
  MaxEvents = 1
  MaxReports = 1
  Absent = Absent
  a1 = a1
  q1 = q1
  w1 = w1
  w2 = w2
  k1 = k1
  k2 = k2
  Objects = {a1, q1}
  Quarantined = {q1}
  Writers = {w1, w2}
  Keys = {k1, k2}
  NoFile = NoFile
  Apps = {app1, app2}
  DocIds = {d1, d2}
  Shas = {s1, s2}
  Policies = {p1}
  Backend = "memory"
  None = None
SYMMETRY MCSymmetry
CHECK_DEADLOCK FALSE
INVARIANTS
  DictionariesAgree
  BoundedButStrays
  OnlySharedIsTorn
  ReadsBackItsOwn
  ReadableUnlessInterrupted
  RecordedIsComplete
PROPERTIES
  IdentityIsPermanent
  ImplementsContract
