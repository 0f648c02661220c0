CONSTANTS
  LastCalculation = 2
  Setups <- SomeSetups
SPECIFICATION CalculationSpec
INVARIANTS
  ListsItsOwnFiles
  NothingMissingUnsaid
  FinishedRunsValidate
