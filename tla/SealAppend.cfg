CONSTANTS
  p1 = p1
  p2 = p2
  Sealer = {p1, p2}
  MaxSeals = 2
  MaxEdits = 1
  None = None
  Torn = Torn
SPECIFICATION FairSpec
CHECK_DEADLOCK FALSE
INVARIANT VerifiedIsWritten
INVARIANT EditNamed
INVARIANT AckedInLedger
PROPERTY DivergentNeverExtended
PROPERTY LockReleased
