CONSTANTS
  Requests <- Ample
  BadTasks = {4}
  BadFactories = {3}
  Mortal = {1, 2}
  StartsMayFail = TRUE
SPECIFICATION FairSpec
INVARIANTS
  TypeOK
  TasksConserved
  PutNeverBlocks
  NoWorkerLeft
PROPERTIES
  IsForceBatch
  BatchEnds
