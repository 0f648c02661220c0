CONSTANTS
  c1 = c1
  c2 = c2
  c3 = c3
  j1 = j1
  j2 = j2
  j3 = j3
  Client = {c1, c2, c3}
  Job = {j1, j2, j3}
  JobOf <- OwnJobs
  Requested <- Asked
  Config <- OnePolicy
  UserWorkers <- AsLeased
  AdminConfig <- Admin
  HasTimeout = {}
  MayCrash = {}
  MayOutlive = {c1}
  Cancellable = {}
  MaxLosses = 0
  RecentLimit = 3
SPECIFICATION Spec
INVARIANT WorkersWithinPool
