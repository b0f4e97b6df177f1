CONSTANTS
  r1 = r1
  r2 = r2
  tOut = tOut
  tSrc = tSrc
  Run = {r1, r2}
  Target = {tOut, tSrc}
  SourcePath = tSrc
  MaxVersion = 0
  EventsOf <- MCEventsOf
  ForeignNames <- NoForeign
  InterruptAt <- AllInterrupts
  Posix = TRUE
  DirSyncWorks = TRUE
  UnlinkMayFail = FALSE
  PowerLossPossible = FALSE
  None = None
  Foreign = Foreign
SPECIFICATION Spec
CHECK_DEADLOCK FALSE
SYMMETRY MCSymmetry
INVARIANT NeverOrphaned
