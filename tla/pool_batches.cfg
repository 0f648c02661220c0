CONSTANTS
  Requests <- Batches
  BadTasks = {5}
  MayBreak = TRUE
SPECIFICATION FairSpec
INVARIANTS
  EveryChunkAccounted
  QuietWhenOver
PROPERTIES
  IsForceBatch
  BatchEnds
