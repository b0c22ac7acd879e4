SPECIFICATION Spec
CONSTANTS
  d1 = d1
  d2 = d2
  Apps = {a1}
  Docs = {d1, d2}
  Policies = {p1}
  Chunks <- MCChunks
  ChunkDoc <- MCChunkDoc
  Batches = {b1}
  Deletions = {x1}
  Extractions = {e1}
  Requests <- Single
  PageLimit = 1
  MaxChunks = 3
  None = None
INVARIANTS
  InventoryUntruncated
