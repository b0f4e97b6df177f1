CONSTANTS
  None = None
  Unsettled = Unsettled
  MaxListed = 3
  IdOrder <- Names
  Says <- Payload
  MaxLen = 7
  Catalogs <- Interleaved
  Appended <- Nothing
  MaxMeddles = 0
SPECIFICATION VerifySpec
CHECK_DEADLOCK FALSE
INVARIANT RepairSettles
