CONSTANTS
  c1 = c1
  c2 = c2
  c3 = c3
  j1 = j1
  j2 = j2
  j3 = j3
  Client = {c1, c2, c3}
  Job = {j1, j2, j3}
  JobOf <- SharedJob
  Requested <- Asked
  Config <- MixedPolicies
  UserWorkers <- Workers
  AdminConfig <- Admin
  HasTimeout = {c2}
  MayCrash = {c1}
  MayOutlive = {c3}
  Cancellable = {j1}
  MaxLosses = 1
  RecentLimit = 2
SPECIFICATION FairSpec
INVARIANT RecordsBacked
PROPERTIES
  ServesInOrder
  WaitersServed
