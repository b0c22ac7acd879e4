SPECIFICATION LiveSpec
CONSTANTS
  d1 = d1
  d2 = d2
  Apps = {a1}
  Docs = {d1, d2}
  Policies = {p1, p2}
  Chunks <- MCChunks
  ChunkDoc <- MCChunkDoc
  Batches = {b1, b2}
  Deletions = {}
  Extractions = {e1}
  Requests <- OneOrTwo
  PageLimit = 1
  MaxChunks = 2
  None = None
PROPERTIES
  LockIsFreed
  ScrollEnds
