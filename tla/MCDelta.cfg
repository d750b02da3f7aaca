SPECIFICATION Spec
CONSTANTS
  Word = 12
  Blobs <- MCBlobs
  MaxLocal = 3
  MaxTarget = 4
INVARIANTS
  ReuseReadsTheChunk
  RunReadsItsChunks
  RunsPartitionTheFetches
  BytesAccountedFor
