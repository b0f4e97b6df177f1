CONSTANTS
  r1 = r1
  r2 = r2
  tOut = tOut
  tSrc = tSrc
  Run = {r1, r2}
  Target = {tOut, tSrc}
  SourcePath = tSrc
  MaxVersion = 2
  EventsOf <- MCEventsOf
  ForeignNames <- MCForeign
  InterruptAt <- CleanInterrupts
  Posix = TRUE
  DirSyncWorks = TRUE
  UnlinkMayFail = FALSE
  PowerLossPossible = FALSE
  None = None
  Foreign = Foreign
SPECIFICATION RaceSpec
CHECK_DEADLOCK FALSE
INVARIANT TypeOK
INVARIANT FailureCleansUp
PROPERTY RefinesLedger
PROPERTY SomebodyWins
