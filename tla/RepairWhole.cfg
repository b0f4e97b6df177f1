CONSTANTS
  None = None
  Unsettled = Unsettled
  MaxListed = 3
  IdOrder <- Names
  Says <- Payload
  MaxLen = 6
  Catalogs <- TwinsAndCompactions
  Appended <- More
  MaxMeddles = 1
SPECIFICATION VerifySpec
CHECK_DEADLOCK FALSE
INVARIANT OutputDerives
INVARIANT DelicateUntouched
INVARIANT BoundariesCrossOnlyTheirPairs
INVARIANT LossDeclared
INVARIANT VerifiedIsRepaired
INVARIANT HonestRepairVerifies
