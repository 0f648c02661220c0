CONSTANTS
  LastRun = 3
  Bases = {"a"}
  Configs <- AllConfigs
SPECIFICATION Spec
INVARIANTS
  CalculationsResume
  FinishedResultsStay
  FinishedWorkIsNotRepeated
PROPERTY KeepsOthersResults
