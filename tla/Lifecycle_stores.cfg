SPECIFICATION Spec
CONSTANTS
  d1 = d1
  d2 = d2
  Apps = {a1, a2}
  Docs = {d1, d2}
  Policies = {p1}
  Chunks <- MCChunks
  ChunkDoc <- MCChunkDoc
  Batches = {b1}
  Deletions = {x1, x2}
  Extractions = {}
  Requests <- Single
  PageLimit = 1
  MaxChunks = 3
  None = None
SYMMETRY Symmetry
INVARIANTS
  ActiveIsComplete
  ErasedIsGone
