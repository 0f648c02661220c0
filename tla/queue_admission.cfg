CONSTANTS
  c1 = c1
  c2 = c2
  c3 = c3
  j1 = j1
  j2 = j2
  j3 = j3
  Client = {c1, c2, c3}
  Job = {j1, j2, j3}
  JobOf <- OwnJobs
  Requested <- Asked
  Config <- OnePolicy
  UserWorkers <- Workers
  AdminConfig <- Admin
  HasTimeout = {c2, c3}
  MayCrash = {c1, c3}
  MayOutlive = {}
  Cancellable = {}
  MaxLosses = 0
  RecentLimit = 2
SPECIFICATION Spec
INVARIANTS
  TypeOK
  QueueConsistent
  LeasesWithinPool
  RunningHoldsLease
  WorkersWithinPool
  RecordsHonest
  LeasesAccountedFor
