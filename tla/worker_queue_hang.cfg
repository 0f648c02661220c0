CONSTANTS
  Requests <- Narrow
  BadTasks = {}
  BadFactories = {1, 2}
  Mortal = {}
  StartsMayFail = FALSE
SPECIFICATION FairSpec
PROPERTY BatchEnds
CHECK_DEADLOCK FALSE
