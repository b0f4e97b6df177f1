CONSTANTS
  r1 = r1
  r2 = r2
  tOut = tOut
  tSrc = tSrc
  Run = {r1, r2}
  Target = {tOut, tSrc}
  SourcePath = tSrc
  MaxVersion = 2
  EventsOf <- MCEventsOf
  ForeignNames <- OneForeign
  InterruptAt <- UnlinkedInterrupts
  Posix = FALSE
  DirSyncWorks = TRUE
  UnlinkMayFail = TRUE
  PowerLossPossible = TRUE
  None = None
  Foreign = Foreign
SPECIFICATION Spec
CHECK_DEADLOCK FALSE
SYMMETRY MCSymmetry
INVARIANT ReceiptBeforeOutput
INVARIANT CommittedPairStays
INVARIANT PublishedIsPlanned
PROPERTY OnlyOwnEntriesChange
