CONSTANTS
  None = None
  Claude = Claude
  Codex = Codex
  Torn = Torn
  MaxWalked = 3
  Scanner = {"s1", "s2"}
  MaxFailures = 1
  UuidOf <- Uuids
  Cases <- SideBySideAndInBatches
  Ledger <- InodeContents
  MaxBaselines = 1
  Batcher = {"b1", "b2"}
  PlanOf <- PlannerSays
  PathOrder <- Paths
  MaxErrors = 1
SPECIFICATION BatchSpec
CHECK_DEADLOCK FALSE
INVARIANT EachFileOnce
INVARIANT ResultsCurrent
INVARIANT SameReport
INVARIANT DanglingIsProved
INVARIANT ReceiptsAccounted
