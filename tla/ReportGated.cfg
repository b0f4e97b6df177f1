SPECIFICATION CheckSpec
CONSTANTS
  None = None
  Supported = {"v1", "v2"}
  MaxDrift = 2
  MaxLine = 3
  DrainSize = 2
  MaxFile = 14
  MaxRecords = 3
  MaxEventFindings = 3
  NewLines <- SomeNewLines
  Deselections <- SomeDeselections
  Confidences <- SomeConfidences
  ConfidenceMin = 3
  MarginMin = 2
  MaxJudged = 2
  Scenarios <- AllScenarios
INVARIANT
  StructureWasChecked
CHECK_DEADLOCK FALSE
