CONSTANTS
  LastCompare = 2
  Selections <- SomeSelections
  Requests <- SomeRequests
  Commands <- SomeCommands
  Structures <- SomeStructures
  Limits <- SomeLimits
SPECIFICATION Spec
INVARIANTS
  RowsAreTheirOwn
  EveryModelHasItsRow
  ChildrenAreComparable
  RecordsAreTrue
  SupercellsFit
  LayersAreRecognised
