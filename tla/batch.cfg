CONSTANTS
  Structures = {1, 2}
  Inputs <- TwoInputs
  LastBatch = 2
  Options <- SomeOptions
SPECIFICATION Spec
INVARIANTS
  SummaryIsHonest
  ConductivityIsOwn
  SkipsFinished
