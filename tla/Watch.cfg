CONSTANTS
  f1 = f1
  f2 = f2
  File = {f1, f2}
  Explicit = {f1}
  MaxTracked = 1
  MaxVersion = 2
  MaxRemovals = 2
  VerdictOf <- MCVerdictOf
  None = None
SPECIFICATION FairSpec
INVARIANT PendingTracked
INVARIANT ListenerKnows
PROPERTY Converges
