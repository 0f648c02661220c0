CONSTANTS
  j1 = j1
  j2 = j2
  j3 = j3
  Job = {j1, j2, j3}
  RecentLimit = 2
  RawOptions <- Options
  Asks <- Sizes
  MaxIssued = 3
SPECIFICATION Spec
INVARIANTS
  AllocationsFit
  HeadFitsEmptyPool
  StartsLikeTheLoop
PROPERTY FreeSlotsAreUsed
SYMMETRY Jobs
