CONSTANTS
  Hops = 2
  Tags = {t, u}
  MaxPieces = 2
  MaxChanges = 2
  MaxBreaks = 1
SPECIFICATION FairSpec
INVARIANT InSync
PROPERTY Converges
CHECK_DEADLOCK FALSE
